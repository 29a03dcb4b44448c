--------------------------- MODULE IndexStateProofs ---------------------------
(***************************************************************************)
(* Proofs about IndexState: for any names, values and depth, a caller that *)
(* keeps to both rules gets back with popState() exactly what there was at *)
(* the matching pushState().  The lemmas on induction are from the module  *)
(* TimedListProofs; nothing else of it is used.                            *)
(***************************************************************************)
EXTENDS IndexState, TimedListProofs

-----------------------------------------------------------------------------
(* The invariant.                                                          *)

\* What a datum may hold; only "box" is a container.
AnyValue   == Values \cup SUBSET Inside
Content(d) == IF Order[d] = "box" THEN SUBSET Inside ELSE Values
Datum(T)   == [value : Seq(T), needPush : BOOLEAN, pushed : BOOLEAN, stackFrame : Int]

Last(d)    == d.value[Len(d.value)]

\* A datum has two values if it has been set since the last push, and else one.
Sound(d, C) ==
    /\ d \in Datum(AnyValue) /\ d.value \in Seq(C)
    /\ Len(d.value) = IF d.pushed THEN 2 ELSE 1
    /\ d.needPush => ~d.pushed
    /\ d.needPush \/ d.pushed => MaxDepth > 0
    /\ d.stackFrame \in 0..(1 + MaxDepth * Len(Order))

DataInv ==
    /\ datum \in [1..Len(Order) -> Datum(AnyValue)]
    /\ \A d \in 1..Len(Order) : Sound(datum[d], Content(d))

\* "box" is there from the beginning, and its datum has no other name.
IndexInv ==
    /\ DOMAIN index \subseteq Names /\ index \in [DOMAIN index -> 1..Len(Order)]
    /\ "box" \in Names => "box" \in DOMAIN index
    /\ \A n \in DOMAIN index : Order[index[n]] = "box" <=> n = "box"

\* Nothing is set in a state once another one is pushed in it.
States == UNION {[names -> AnyValue] : names \in SUBSET Names}
HistoryInv ==
    /\ saved \in Seq(States)
    /\ setHere \in Seq(SUBSET (1..Len(Order))) /\ setWithin \in Seq(SUBSET (1..Len(Order)))
    /\ Depth \in 0..MaxDepth
    /\ Len(setHere) = Depth + 1 /\ Len(setWithin) = Depth + 1
    /\ \A i \in 1..Depth : setHere[i] = {}

\* The places of the names of a datum, and how many they are.
Used       == {index[n] : n \in DOMAIN index}
NamesOf(d) == {i \in Places : index[Order[i]] = d}
Sharing(d) == Cardinality(NamesOf(d))

\* `made' tells in which of the open states each datum was made.  A saved state has the
\* names made before its push; only those of the first state are shared.  A push or pop
\* counts a datum once for each of its names, and so it expires with its state.
MadeInv(made) ==
    /\ \A i \in 1..Depth : DOMAIN saved[i] = {n \in DOMAIN index : made[index[n]] < i}
    /\ \A d \in Used :
          /\ datum[d].stackFrame = 1 + Sharing(d) * (Depth - made[d])
          /\ Sharing(d) = 1 \/ made[d] = 0
    /\ \A n \in DOMAIN index : n = "box" => made[index[n]] = 0

\* The last value of a datum is the one of all states that are saved.  It is safe from
\* changes: the next one pushes a new value, or has pushed it, or is forbidden.
ValuesInv(made) ==
    /\ \A n \in DOMAIN index : \A i \in 1..Depth :
          made[index[n]] < i => saved[i][n] = Last(datum[index[n]])
    /\ \A d \in Used :
          /\ datum[d].pushed => d \in setHere[Depth + 1]
          /\ made[d] < Depth => datum[d].needPush \/ datum[d].pushed \/ d \in setWithin[Depth + 1]

IInv ==
    /\ DataInv /\ IndexInv /\ HistoryInv
    /\ \E made \in [1..Len(Order) -> 0..Depth] : MadeInv(made) /\ ValuesInv(made)

-----------------------------------------------------------------------------
(* Names and their places.                                                 *)

LEMMA PlacesOfNames ==
    /\ Len(Order) \in Nat
    /\ \A i \in 1..Len(Order) : Order[i] \in Names
    /\ \A n \in Names : \E i \in 1..Len(Order) : Order[i] = n
    /\ \A i, j \in 1..Len(Order) : Order[i] = Order[j] => i = j
  <1>1. Order \in Seq(Names) /\ DOMAIN Order = 1..Len(Order) /\ Len(Order) \in Nat
    BY IndexStateAssumption, LenProperties
  <1> QED
    BY <1>1, IndexStateAssumption DEF Names

\* How many of the names of a datum are among the first i.
Counted(d, i) == {j \in NamesOf(d) : j <= i}
Count(d, i)   == Cardinality(Counted(d, i))

\* How many numbers there are up to n.
LEMMA HowMany ==
    ASSUME NEW n \in Nat
    PROVE  IsFiniteSet(1..n) /\ Cardinality(1..n) = n
  <1>1. 1 \in Int /\ n \in Int
    OBVIOUS
  <1>2. IsFiniteSet(1..n) /\ Cardinality(1..n) = IF 1 > n THEN 0 ELSE n - 1 + 1
    BY <1>1, FS_Interval
  <1> QED
    BY <1>2

\* Counting the names of a datum from place to place.
LEMMA Counting ==
    ASSUME NEW d
    PROVE  /\ Count(d, 0) = 0 /\ Count(d, Len(Order)) = Sharing(d)
           /\ \A i \in 0..Len(Order) : Count(d, i) \in 0..Sharing(d)
           /\ Sharing(d) \in 0..Len(Order)
           /\ \A i \in 1..Len(Order) :
                  Count(d, i) = IF i \in NamesOf(d) THEN Count(d, i - 1) + 1 ELSE Count(d, i - 1)
  <1>1. Len(Order) \in Nat /\ NamesOf(d) \subseteq 1..Len(Order)
    BY PlacesOfNames DEF NamesOf, Places
  <1>2. IsFiniteSet(NamesOf(d)) /\ Sharing(d) \in 0..Len(Order)
    <2>1. IsFiniteSet(1..Len(Order)) /\ Cardinality(1..Len(Order)) = Len(Order)
      BY <1>1, HowMany
    <2>2. IsFiniteSet(NamesOf(d)) /\ Cardinality(NamesOf(d)) <= Len(Order)
      BY <1>1, <2>1, FS_Subset
    <2> QED
      BY <1>1, <2>2, FS_CardinalityType DEF Sharing
  <1>3. \A i \in 0..Len(Order) : IsFiniteSet(Counted(d, i)) /\ Count(d, i) \in 0..Sharing(d)
    <2> SUFFICES ASSUME NEW i \in 0..Len(Order)
                 PROVE  IsFiniteSet(Counted(d, i)) /\ Count(d, i) \in 0..Sharing(d)
      OBVIOUS
    <2>1. Counted(d, i) \in SUBSET NamesOf(d)
      BY DEF Counted
    <2>2. IsFiniteSet(Counted(d, i)) /\ Cardinality(Counted(d, i)) <= Sharing(d)
      BY <1>2, <2>1, FS_Subset DEF Sharing
    <2> QED
      BY <1>1, <1>2, <2>2, FS_CardinalityType DEF Count
  <1>4. Counted(d, 0) = {} /\ Counted(d, Len(Order)) = NamesOf(d)
    BY <1>1 DEF Counted
  <1>5. ASSUME NEW i \in 1..Len(Order)
        PROVE  Count(d, i) = IF i \in NamesOf(d) THEN Count(d, i - 1) + 1 ELSE Count(d, i - 1)
    <2>1. i - 1 \in 0..Len(Order) /\ i \notin Counted(d, i - 1)
      BY <1>1 DEF Counted
    <2>2. i \in NamesOf(d) => Counted(d, i) = Counted(d, i - 1) \cup {i}
      BY <1>1 DEF Counted
    <2>3. i \notin NamesOf(d) => Counted(d, i) = Counted(d, i - 1)
      BY <1>1 DEF Counted
    <2> QED
      BY <1>3, <2>1, <2>2, <2>3, FS_AddElement DEF Count
  <1> QED
    BY <1>2, <1>4, <1>5, <1>3, FS_EmptySet DEF Count, Sharing

-----------------------------------------------------------------------------
(* One datum.                                                              *)

Fields == {"value", "needPush", "pushed", "stackFrame"}
Record(value, needPush, pushed, stackFrame) ==
    [value |-> value, needPush |-> needPush, pushed |-> pushed, stackFrame |-> stackFrame]

\* A datum is known by its fields.
LEMMA ByFields ==
    ASSUME NEW d, d = [x \in Fields |-> d[x]]
    PROVE  d = Record(d.value, d.needPush, d.pushed, d.stackFrame)
  BY DEF Fields, Record

\* The fields of a datum.
LEMMA DatumFields ==
    ASSUME NEW T, NEW d \in Datum(T)
    PROVE  /\ DOMAIN d = Fields /\ d = Record(d.value, d.needPush, d.pushed, d.stackFrame)
           /\ d.value \in Seq(T) /\ d.needPush \in BOOLEAN /\ d.pushed \in BOOLEAN
           /\ d.stackFrame \in Int
  BY DEF Datum, Fields, Record

\* A record of four such fields is a datum.
LEMMA RecordFields ==
    ASSUME NEW T, NEW value \in Seq(T), NEW needPush \in BOOLEAN, NEW pushed \in BOOLEAN,
           NEW stackFrame \in Int, NEW d, d = Record(value, needPush, pushed, stackFrame)
    PROVE  /\ d \in Datum(T) /\ d.value = value /\ d.needPush = needPush
           /\ d.pushed = pushed /\ d.stackFrame = stackFrame
  BY DEF Datum, Record

\* What a push makes of a datum.
LEMMA PushFields ==
    ASSUME NEW T, NEW d \in Datum(T)
    PROVE  DatumPush(d) = Record(d.value, TRUE, d.pushed, d.stackFrame + 1)
  <1>1. DatumPush(d) = [x \in Fields |-> DatumPush(d)[x]]
    BY DatumFields DEF DatumPush
  <1>2. /\ DatumPush(d).value = d.value /\ DatumPush(d).needPush = TRUE
        /\ DatumPush(d).pushed = d.pushed /\ DatumPush(d).stackFrame = d.stackFrame + 1
    BY DatumFields DEF DatumPush, Fields
  <1> QED
    BY <1>1, <1>2, ByFields

\* What a pop makes of a datum.
LEMMA PopFields ==
    ASSUME NEW T, NEW d \in Datum(T)
    PROVE  DatumPop(d) = IF PopsValue(d)
                         THEN Record(Tail(d.value), d.needPush, FALSE, d.stackFrame - 1)
                         ELSE Record(d.value, d.needPush, d.pushed, d.stackFrame - 1)
  <1>1. DatumPop(d) = [x \in Fields |-> DatumPop(d)[x]]
    BY DatumFields DEF DatumPop
  <1>2. CASE PopsValue(d)
    <2>1. /\ DatumPop(d).value = Tail(d.value) /\ DatumPop(d).needPush = d.needPush
          /\ DatumPop(d).pushed = FALSE /\ DatumPop(d).stackFrame = d.stackFrame - 1
      BY <1>2, DatumFields DEF DatumPop, Fields
    <2> QED
      BY <1>1, <1>2, <2>1, ByFields
  <1>3. CASE ~PopsValue(d)
    <2>1. /\ DatumPop(d).value = d.value /\ DatumPop(d).needPush = d.needPush
          /\ DatumPop(d).pushed = d.pushed /\ DatumPop(d).stackFrame = d.stackFrame - 1
      BY <1>3, DatumFields DEF DatumPop, Fields
    <2> QED
      BY <1>1, <1>3, <2>1, ByFields
  <1> QED
    BY <1>2, <1>3

\* What setting a value makes of a datum.
LEMMA SetFields ==
    ASSUME NEW T, NEW d \in Datum(T), NEW v
    PROVE  SetValue(d, v) = IF d.needPush
                            THEN Record(<<v>> \o d.value, FALSE, TRUE, d.stackFrame)
                            ELSE Record(<<v>> \o Tail(d.value), d.needPush, d.pushed, d.stackFrame)
  <1>1. SetValue(d, v) = [x \in Fields |-> SetValue(d, v)[x]]
    BY DatumFields DEF SetValue
  <1>2. CASE d.needPush
    <2>1. /\ SetValue(d, v).value = <<v>> \o d.value /\ SetValue(d, v).needPush = FALSE
          /\ SetValue(d, v).pushed = TRUE /\ SetValue(d, v).stackFrame = d.stackFrame
      BY <1>2, DatumFields DEF SetValue, Fields
    <2> QED
      BY <1>1, <1>2, <2>1, ByFields
  <1>3. CASE ~d.needPush
    <2>1. /\ SetValue(d, v).value = <<v>> \o Tail(d.value)
          /\ SetValue(d, v).needPush = d.needPush
          /\ SetValue(d, v).pushed = d.pushed /\ SetValue(d, v).stackFrame = d.stackFrame
      BY <1>3, DatumFields DEF SetValue, Fields
    <2> QED
      BY <1>1, <1>3, <2>1, ByFields
  <1> QED
    BY <1>2, <1>3

\* A datum after c pushes, and after c pops: only the first one can drop a value.
PushedTimes(d, c) ==
    Record(d.value, c > 0 \/ d.needPush, d.pushed, d.stackFrame + c)
DropsValue(d, c) == c > 0 /\ PopsValue(d)
PoppedTimes(d, c) ==
    Record(IF DropsValue(d, c) THEN Tail(d.value) ELSE d.value, d.needPush,
           d.pushed /\ ~DropsValue(d, c), d.stackFrame - c)

\* One push more.
LEMMA PushOnce ==
    ASSUME NEW T, NEW d \in Datum(T), NEW c \in Nat
    PROVE  PushedTimes(d, 0) = d /\ DatumPush(PushedTimes(d, c)) = PushedTimes(d, c + 1)
  <1>1. PushedTimes(d, 0) = d
    BY DatumFields DEF PushedTimes
  <1> DEFINE was == PushedTimes(d, c)
  <1>2. /\ was \in Datum(T) /\ was.value = d.value /\ was.pushed = d.pushed
        /\ was.stackFrame = d.stackFrame + c
    <2> DEFINE needPush == c > 0 \/ d.needPush
    <2>1. /\ needPush \in BOOLEAN /\ d.pushed \in BOOLEAN
          /\ d.stackFrame + c \in Int /\ d.value \in Seq(T)
      BY DatumFields
    <2>2. was = Record(d.value, needPush, d.pushed, d.stackFrame + c)
      BY DEF PushedTimes
    <2> HIDE DEF needPush, was
    <2> QED
      BY ONLY <2>1, <2>2, RecordFields
  <1> HIDE DEF was
  <1>3. DatumPush(was) = Record(d.value, TRUE, d.pushed, (d.stackFrame + c) + 1)
    BY <1>2, PushFields
  <1>4. (d.stackFrame + c) + 1 = d.stackFrame + (c + 1) /\ (c + 1 > 0) = TRUE
    BY DatumFields
  <1>5. PushedTimes(d, c + 1) = Record(d.value, TRUE, d.pushed, d.stackFrame + (c + 1))
    BY <1>4 DEF PushedTimes
  <1> QED
    BY <1>1, <1>3, <1>4, <1>5 DEF was

\* One pop more.
LEMMA PopOnce ==
    ASSUME NEW T, NEW d \in Datum(T), NEW c \in Nat,
           PopsValue(d) => Tail(d.value) \in Seq(T)
    PROVE  PoppedTimes(d, 0) = d /\ DatumPop(PoppedTimes(d, c)) = PoppedTimes(d, c + 1)
  <1>1. PoppedTimes(d, 0) = d
    BY DatumFields DEF PoppedTimes, DropsValue
  <1> DEFINE was   == PoppedTimes(d, c)
             value == IF DropsValue(d, c) THEN Tail(d.value) ELSE d.value
             pushed == d.pushed /\ ~DropsValue(d, c)
  <1>2. /\ value \in Seq(T) /\ pushed \in BOOLEAN /\ d.needPush \in BOOLEAN
        /\ d.stackFrame - c \in Int
    BY DatumFields DEF DropsValue
  <1>3. was = Record(value, d.needPush, pushed, d.stackFrame - c)
    BY DEF PoppedTimes
  <1> HIDE DEF was, value, pushed
  <1>4. /\ was \in Datum(T) /\ was.value = value /\ was.needPush = d.needPush
        /\ was.pushed = pushed /\ was.stackFrame = d.stackFrame - c
    BY ONLY <1>2, <1>3, RecordFields
  <1>5. DatumPop(was) = IF PopsValue(was)
                        THEN Record(Tail(value), d.needPush, FALSE, d.stackFrame - c - 1)
                        ELSE Record(value, d.needPush, pushed, d.stackFrame - c - 1)
    BY <1>4, PopFields
  <1>6. d.stackFrame - c - 1 = d.stackFrame - (c + 1) /\ (DropsValue(d, c + 1) <=> PopsValue(d))
    BY DatumFields DEF DropsValue
  <1>7. PopsValue(was) <=> (c = 0 /\ PopsValue(d))
    BY <1>4, DatumFields DEF PopsValue, DropsValue, pushed
  <1>8. CASE c = 0 /\ PopsValue(d)
    <2>1. value = d.value
      BY <1>8 DEF value, DropsValue
    <2>2. PoppedTimes(d, c + 1) = Record(Tail(d.value), d.needPush, FALSE, d.stackFrame - (c + 1))
      BY <1>6, <1>8 DEF PoppedTimes
    <2> QED
      BY <1>1, <1>5, <1>6, <1>7, <1>8, <2>1, <2>2 DEF was
  <1>9. CASE ~(c = 0 /\ PopsValue(d))
    <2>1. DropsValue(d, c + 1) <=> DropsValue(d, c)
      BY <1>6, <1>9 DEF DropsValue
    <2>2. PoppedTimes(d, c + 1) = Record(value, d.needPush, pushed, d.stackFrame - (c + 1))
      BY <2>1 DEF PoppedTimes, value, pushed
    <2> QED
      BY <1>1, <1>5, <1>6, <1>7, <1>9, <2>2 DEF was
  <1> QED
    BY <1>1, <1>8, <1>9

-----------------------------------------------------------------------------
(* All data.                                                               *)

PushedTo(i) == [d \in 1..Len(Order) |-> PushedTimes(datum[d], Count(d, i))]
PoppedTo(i) == [d \in 1..Len(Order) |-> PoppedTimes(datum[d], Count(d, i))]

\* The invariant, for one datum.
LEMMA OneDatum ==
    ASSUME DataInv, NEW d \in 1..Len(Order)
    PROVE  /\ datum[d] \in Datum(AnyValue) /\ datum[d].value \in Seq(AnyValue)
           /\ Tail(datum[d].value) \in Seq(AnyValue)
  <1>1. /\ datum[d] \in Datum(AnyValue) /\ datum[d].value \in Seq(AnyValue)
        /\ datum[d].value # <<>>
    <2>1. datum[d] \in Datum(AnyValue) /\ Len(datum[d].value) \in {1, 2}
      BY DEF DataInv, Sound
    <2>2. datum[d].value \in Seq(AnyValue)
      BY <2>1, DatumFields
    <2>3. Len(<<>>) = 0 /\ 0 \notin {1, 2}
      OBVIOUS
    <2> QED
      BY ONLY <2>1, <2>2, <2>3
  <1> QED
    BY <1>1, HeadTailProperties

\* The datum of the i-th name is counted there, and no other one.
LEMMA PlaceCounts ==
    ASSUME IndexInv, NEW i \in 1..Len(Order)
    PROVE  /\ i \in Places => index[Order[i]] \in 1..Len(Order)
           /\ \A d \in 1..Len(Order) :
                  /\ Count(d, i - 1) \in Nat /\ Count(d, i) \in Nat
                  /\ Count(d, i) = IF i \in Places /\ d = index[Order[i]]
                                   THEN Count(d, i - 1) + 1 ELSE Count(d, i - 1)
  <1>1. Len(Order) \in Nat
    BY PlacesOfNames
  <1>2. i \in Places => index[Order[i]] \in 1..Len(Order)
    BY DEF IndexInv, Places
  <1>3. ASSUME NEW d \in 1..Len(Order)
        PROVE  /\ Count(d, i - 1) \in Nat /\ Count(d, i) \in Nat
               /\ Count(d, i) = IF i \in NamesOf(d) THEN Count(d, i - 1) + 1 ELSE Count(d, i - 1)
    <2>1. i - 1 \in 0..Len(Order) /\ i \in 0..Len(Order)
      BY <1>1
    <2> QED
      BY <1>1, <2>1, Counting
  <1> QED
    BY <1>2, <1>3 DEF NamesOf

\* pushState pushes every datum once for each of its names.
LEMMA PushingResult ==
    ASSUME DataInv, IndexInv
    PROVE  \A i \in 0..Len(Order) : Pushing[i] = PushedTo(i)
  <1>1. Len(Order) \in Nat /\ datum = [d \in 1..Len(Order) |-> datum[d]]
    BY PlacesOfNames DEF DataInv
  <1>2. PushedTo(0) = datum
    <2>1. \A d \in 1..Len(Order) : PushedTimes(datum[d], Count(d, 0)) = datum[d]
      BY Counting, OneDatum, PushOnce
    <2> QED
      BY <1>1, <2>1 DEF PushedTo
  <1>3. ASSUME NEW i \in 1..Len(Order)
        PROVE  PushedTo(i) = IF i \in Places
                             THEN [PushedTo(i - 1) EXCEPT ![index[Order[i]]] = DatumPush(@)]
                             ELSE PushedTo(i - 1)
    <2>1. \A d \in 1..Len(Order) :
              PushedTimes(datum[d], Count(d, i)) =
                  IF i \in Places /\ d = index[Order[i]]
                  THEN DatumPush(PushedTimes(datum[d], Count(d, i - 1)))
                  ELSE PushedTimes(datum[d], Count(d, i - 1))
      <3> SUFFICES ASSUME NEW d \in 1..Len(Order)
                   PROVE  PushedTimes(datum[d], Count(d, i)) =
                              IF i \in Places /\ d = index[Order[i]]
                              THEN DatumPush(PushedTimes(datum[d], Count(d, i - 1)))
                              ELSE PushedTimes(datum[d], Count(d, i - 1))
        OBVIOUS
      <3>1. datum[d] \in Datum(AnyValue) /\ Count(d, i - 1) \in Nat
        BY OneDatum, PlaceCounts
      <3>2. DatumPush(PushedTimes(datum[d], Count(d, i - 1)))
                = PushedTimes(datum[d], Count(d, i - 1) + 1)
        BY <3>1, PushOnce
      <3> QED
        BY <3>2, PlaceCounts
    <2> QED
      BY <2>1, PlaceCounts DEF PushedTo
  <1> DEFINE Body(f, i) ==
                IF i = 0 THEN datum
                ELSE IF i \in Places THEN [f[i - 1] EXCEPT ![index[Order[i]]] = DatumPush(@)]
                     ELSE f[i - 1]
             Is(f) == f = [i \in 0..Len(Order) |-> Body(f, i)]
             G == [i \in 0..Len(Order) |-> PushedTo(i)]
  <1>4. Is(G)
    <2>1. \A i \in 0..Len(Order) : PushedTo(i) = Body(G, i)
      <3> SUFFICES ASSUME NEW i \in 0..Len(Order) PROVE PushedTo(i) = Body(G, i)
        OBVIOUS
      <3>1. CASE i = 0
        BY <1>2, <3>1
      <3>2. CASE i # 0
        <4>1. i \in 1..Len(Order) /\ i - 1 \in 0..Len(Order)
          BY <1>1, <3>2
        <4>2. G[i - 1] = PushedTo(i - 1)
          BY <4>1
        <4> HIDE DEF G
        <4> QED
          BY <1>3, <3>2, <4>1, <4>2
      <3> QED
        BY <3>1, <3>2
    <2> HIDE DEF Body
    <2> QED
      BY <2>1
  <1>5. Is(Pushing)
    <2>1. Pushing = CHOOSE f : Is(f)
      BY DEF Pushing
    <2>2. \E f : Is(f)
      <3> HIDE DEF G, Is
      <3> QED BY <1>4
    <2> HIDE DEF Is
    <2> QED
      BY <2>1, <2>2
  <1> DEFINE S == {i \in Nat : i <= Len(Order) => Pushing[i] = PushedTo(i)}
  <1>6. 0 \in S
    <2>1. Pushing[0] = Body(Pushing, 0)
      <3> HIDE DEF Body
      <3> QED BY <1>1, <1>5
    <2> QED
      BY <1>2, <2>1
  <1>7. ASSUME NEW i \in Nat, i \in S PROVE i + 1 \in S
    <2> SUFFICES ASSUME i + 1 <= Len(Order) PROVE Pushing[i + 1] = PushedTo(i + 1)
      OBVIOUS
    <2>1. i + 1 \in 1..Len(Order) /\ i + 1 \in 0..Len(Order) /\ (i + 1) - 1 = i /\ i + 1 # 0
      BY <1>1
    <2>2. Pushing[i + 1] = Body(Pushing, i + 1)
      <3> HIDE DEF Body
      <3> QED BY <1>5, <2>1
    <2>3. Pushing[i] = PushedTo(i)
      BY <1>1, <1>7
    <2> QED
      BY <1>3, <2>1, <2>2, <2>3
  <1>8. \A i \in Nat : i \in S
    <2> HIDE DEF S
    <2> QED BY <1>6, <1>7, SetInduction
  <1> QED
    BY <1>1, <1>8
\* popState pops every datum once for each of its names.
LEMMA PoppingResult ==
    ASSUME DataInv, IndexInv
    PROVE  \A i \in 0..Len(Order) : Popping[i] = PoppedTo(i)
  <1>1. Len(Order) \in Nat /\ datum = [d \in 1..Len(Order) |-> datum[d]]
    BY PlacesOfNames DEF DataInv
  <1>2. PoppedTo(0) = datum
    <2>1. \A d \in 1..Len(Order) : PoppedTimes(datum[d], Count(d, 0)) = datum[d]
      BY Counting, OneDatum, PopOnce
    <2> QED
      BY <1>1, <2>1 DEF PoppedTo
  <1>3. ASSUME NEW i \in 1..Len(Order)
        PROVE  PoppedTo(i) = IF i \in Places
                             THEN [PoppedTo(i - 1) EXCEPT ![index[Order[i]]] = DatumPop(@)]
                             ELSE PoppedTo(i - 1)
    <2>1. \A d \in 1..Len(Order) :
              PoppedTimes(datum[d], Count(d, i)) =
                  IF i \in Places /\ d = index[Order[i]]
                  THEN DatumPop(PoppedTimes(datum[d], Count(d, i - 1)))
                  ELSE PoppedTimes(datum[d], Count(d, i - 1))
      <3> SUFFICES ASSUME NEW d \in 1..Len(Order)
                   PROVE  PoppedTimes(datum[d], Count(d, i)) =
                              IF i \in Places /\ d = index[Order[i]]
                              THEN DatumPop(PoppedTimes(datum[d], Count(d, i - 1)))
                              ELSE PoppedTimes(datum[d], Count(d, i - 1))
        OBVIOUS
      <3>1. /\ datum[d] \in Datum(AnyValue) /\ Tail(datum[d].value) \in Seq(AnyValue)
            /\ Count(d, i - 1) \in Nat
        BY OneDatum, PlaceCounts
      <3>2. DatumPop(PoppedTimes(datum[d], Count(d, i - 1)))
                = PoppedTimes(datum[d], Count(d, i - 1) + 1)
        BY <3>1, PopOnce
      <3> QED
        BY <3>2, PlaceCounts
    <2> QED
      BY <2>1, PlaceCounts DEF PoppedTo
  <1> DEFINE Body(f, i) ==
                IF i = 0 THEN datum
                ELSE IF i \in Places THEN [f[i - 1] EXCEPT ![index[Order[i]]] = DatumPop(@)]
                     ELSE f[i - 1]
             Is(f) == f = [i \in 0..Len(Order) |-> Body(f, i)]
             G == [i \in 0..Len(Order) |-> PoppedTo(i)]
  <1>4. Is(G)
    <2>1. \A i \in 0..Len(Order) : PoppedTo(i) = Body(G, i)
      <3> SUFFICES ASSUME NEW i \in 0..Len(Order) PROVE PoppedTo(i) = Body(G, i)
        OBVIOUS
      <3>1. CASE i = 0
        BY <1>2, <3>1
      <3>2. CASE i # 0
        <4>1. i \in 1..Len(Order) /\ i - 1 \in 0..Len(Order)
          BY <1>1, <3>2
        <4>2. G[i - 1] = PoppedTo(i - 1)
          BY <4>1
        <4> HIDE DEF G
        <4> QED
          BY <1>3, <3>2, <4>1, <4>2
      <3> QED
        BY <3>1, <3>2
    <2> HIDE DEF Body
    <2> QED
      BY <2>1
  <1>5. Is(Popping)
    <2>1. Popping = CHOOSE f : Is(f)
      BY DEF Popping
    <2>2. \E f : Is(f)
      <3> HIDE DEF G, Is
      <3> QED BY <1>4
    <2> HIDE DEF Is
    <2> QED
      BY <2>1, <2>2
  <1> DEFINE S == {i \in Nat : i <= Len(Order) => Popping[i] = PoppedTo(i)}
  <1>6. 0 \in S
    <2>1. Popping[0] = Body(Popping, 0)
      <3> HIDE DEF Body
      <3> QED BY <1>1, <1>5
    <2> QED
      BY <1>2, <2>1
  <1>7. ASSUME NEW i \in Nat, i \in S PROVE i + 1 \in S
    <2> SUFFICES ASSUME i + 1 <= Len(Order) PROVE Popping[i + 1] = PoppedTo(i + 1)
      OBVIOUS
    <2>1. i + 1 \in 1..Len(Order) /\ i + 1 \in 0..Len(Order) /\ (i + 1) - 1 = i /\ i + 1 # 0
      BY <1>1
    <2>2. Popping[i + 1] = Body(Popping, i + 1)
      <3> HIDE DEF Body
      <3> QED BY <1>5, <2>1
    <2>3. Popping[i] = PoppedTo(i)
      BY <1>1, <1>7
    <2> QED
      BY <1>3, <2>1, <2>2, <2>3
  <1>8. \A i \in Nat : i \in S
    <2> HIDE DEF S
    <2> QED BY <1>6, <1>7, SetInduction
  <1> QED
    BY <1>1, <1>8
-----------------------------------------------------------------------------
(* What the operations keep of a datum.                                    *)

\* What a datum may hold has its type; the bound on its counter is a number.
LEMMA Contains ==
    /\ \A d : Content(d) \subseteq AnyValue
    /\ MaxDepth * Len(Order) \in Nat
  <1>1. MaxDepth \in Nat /\ Len(Order) \in Nat
    BY IndexStateAssumption, PlacesOfNames
  <1> QED
    BY <1>1 DEF Content, AnyValue

\* A new datum.
LEMMA NewSound ==
    ASSUME NEW C \in SUBSET AnyValue, NEW v \in C
    PROVE  /\ Sound(New(v), C) /\ ~New(v).pushed /\ ~New(v).needPush
           /\ New(v).stackFrame = 1 /\ Head(New(v).value) = v
  <1> DEFINE d == New(v)
  <1>1. d = Record(<<v>>, FALSE, FALSE, 1) /\ FALSE \in BOOLEAN /\ 1 \in Int
    BY DEF New, Record
  <1>2. <<v>> \in Seq(AnyValue) /\ <<v>> \in Seq(C) /\ Len(<<v>>) = 1 /\ Head(<<v>>) = v
    OBVIOUS
  <1> HIDE DEF d
  <1>3. /\ d \in Datum(AnyValue) /\ d.value = <<v>> /\ d.needPush = FALSE
        /\ d.pushed = FALSE /\ d.stackFrame = 1
    BY ONLY <1>1, <1>2 DEF Datum, Record
  <1>4. Sound(d, C) /\ Head(d.value) = v
    BY <1>2, <1>3, Contains DEF Sound
  <1> QED
    BY <1>3, <1>4 DEF d

\* A push leaves the value, and asks for a new one at the next change.
LEMMA PushedSound ==
    ASSUME NEW C, NEW d, Sound(d, C), NEW c \in Nat, c > 0 => ~d.pushed /\ MaxDepth > 0,
           d.stackFrame + c <= 1 + MaxDepth * Len(Order)
    PROVE  LET p == PushedTimes(d, c)
           IN  /\ Sound(p, C) /\ p.value = d.value /\ p.pushed = d.pushed
               /\ p.needPush = (c > 0 \/ d.needPush) /\ p.stackFrame = d.stackFrame + c
  <1> DEFINE p        == PushedTimes(d, c)
             needPush == c > 0 \/ d.needPush
  <1>1. /\ needPush \in BOOLEAN /\ d.pushed \in BOOLEAN
        /\ d.stackFrame + c \in Int /\ d.value \in Seq(AnyValue)
    BY DatumFields DEF Sound
  <1>2. p = Record(d.value, needPush, d.pushed, d.stackFrame + c)
    BY DEF PushedTimes
  <1>3. needPush <=> c > 0 \/ d.needPush
    OBVIOUS
  <1> HIDE DEF needPush, p
  <1>4. /\ p \in Datum(AnyValue) /\ p.value = d.value /\ p.needPush = needPush
        /\ p.pushed = d.pushed /\ p.stackFrame = d.stackFrame + c
    BY ONLY <1>1, <1>2, RecordFields
  <1>5. Sound(p, C)
    <2>1. p.stackFrame \in 0..(1 + MaxDepth * Len(Order))
      BY <1>4, Contains DEF Sound
    <2> QED
      BY <1>3, <1>4, <2>1 DEF Sound
  <1> QED
    BY <1>4, <1>5 DEF p, needPush

\* A pop drops the value that was set since the push, if there is one.
LEMMA PoppedSound ==
    ASSUME NEW C, NEW d, Sound(d, C), NEW c \in Nat, c <= d.stackFrame
    PROVE  LET p == PoppedTimes(d, c)
           IN  /\ Sound(p, C) /\ Last(p) = Last(d) /\ p.needPush = d.needPush
               /\ p.pushed = (d.pushed /\ ~(c > 0 /\ d.stackFrame > 1))
               /\ p.stackFrame = d.stackFrame - c
               /\ c > 0 /\ d.stackFrame > 1 => Head(p.value) = Last(d)
  <1> DEFINE p      == PoppedTimes(d, c)
             value  == IF DropsValue(d, c) THEN Tail(d.value) ELSE d.value
             pushed == d.pushed /\ ~DropsValue(d, c)
  <1>1. /\ d.needPush \in BOOLEAN /\ d.pushed \in BOOLEAN /\ d.stackFrame - c \in Int
        /\ d.value \in Seq(AnyValue) /\ d.value \in Seq(C) /\ Len(d.value) \in {1, 2}
    BY DatumFields DEF Sound
  <1>2. /\ value \in Seq(AnyValue) /\ value \in Seq(C)
        /\ Len(value) = IF pushed THEN 2 ELSE 1
        /\ value[Len(value)] = Last(d)
        /\ ~pushed => Head(value) = Last(d)
    <2>1. CASE DropsValue(d, c)
      <3>1. d.pushed /\ Len(d.value) = 2
        BY <2>1 DEF Sound, DropsValue, PopsValue
      <3> DEFINE s == d.value
                 t == Tail(s)
      <3>2. s \in Seq(AnyValue) /\ s \in Seq(C) /\ Len(s) = 2
        BY <1>1, <3>1
      <3> HIDE DEF s
      <3>3. /\ t \in Seq(AnyValue) /\ t \in Seq(C) /\ Len(t) = 1
            /\ t[1] = s[2] /\ Head(t) = t[1]
        <4>1. Len(<<>>) = 0
          OBVIOUS
        <4>2. s # <<>>
          BY ONLY <3>2, <4>1
        <4>3. /\ t \in Seq(AnyValue) /\ Len(t) = Len(s) - 1
              /\ \A i \in 1..Len(t) : t[i] = s[i + 1]
          BY ONLY <3>2, <4>2, HeadTailProperties
        <4>4. t \in Seq(C)
          BY ONLY <3>2, <4>2, HeadTailProperties
        <4> HIDE DEF t
        <4>5. Len(t) = 1 /\ t[1] = s[2] /\ Head(t) = t[1]
          BY ONLY <3>2, <4>3
        <4> QED
          BY <4>3, <4>4, <4>5
      <3>4. value = t /\ ~pushed
        BY <2>1 DEF s
      <3> HIDE DEF t
      <3>5. Last(d) = s[2]
        BY <3>2 DEF s, Last
      <3> HIDE DEF value, pushed
      <3> QED
        BY <3>3, <3>4, <3>5
    <2>2. CASE ~DropsValue(d, c)
      <3>1. value = d.value /\ (pushed <=> d.pushed)
        BY <2>2
      <3>2. Len(d.value) = 1 => Head(d.value) = d.value[1]
        BY <1>1
      <3> HIDE DEF value, pushed
      <3> QED
        BY <1>1, <3>1, <3>2 DEF Sound, Last
    <2> QED
      BY <2>1, <2>2
  <1>3. p = Record(value, d.needPush, pushed, d.stackFrame - c) /\ pushed \in BOOLEAN
    BY <1>1 DEF PoppedTimes
  <1>4. /\ pushed <=> d.pushed /\ ~(c > 0 /\ d.stackFrame > 1)
        /\ pushed => d.pushed
    BY <1>1 DEF DropsValue, PopsValue
  <1> HIDE DEF p, value, pushed
  <1>5. /\ p \in Datum(AnyValue) /\ p.value = value /\ p.needPush = d.needPush
        /\ p.pushed = pushed /\ p.stackFrame = d.stackFrame - c
    BY ONLY <1>1, <1>2, <1>3, RecordFields
  <1>6. Sound(p, C)
    <2>1. p.stackFrame \in 0..(1 + MaxDepth * Len(Order))
      BY <1>5, Contains DEF Sound
    <2> QED
      BY <1>2, <1>4, <1>5, <2>1 DEF Sound
  <1>7. Last(p) = Last(d) /\ (c > 0 /\ d.stackFrame > 1 => Head(p.value) = Last(d))
    BY <1>2, <1>4, <1>5 DEF Last
  <1> QED
    BY <1>3, <1>4, <1>5, <1>6, <1>7 DEF p

\* Setting a value keeps the last one if the state of the datum is or has been saved.
LEMMA SetSound ==
    ASSUME NEW C \in SUBSET AnyValue, NEW d, Sound(d, C), NEW v \in C
    PROVE  LET s == SetValue(d, v)
           IN  /\ Sound(s, C) /\ s.stackFrame = d.stackFrame
               /\ s.pushed = (d.needPush \/ d.pushed)
               /\ d.needPush \/ d.pushed => Last(s) = Last(d)
  <1> DEFINE s == SetValue(d, v)
             L == d.value
  <1>1. /\ L \in Seq(AnyValue) /\ L \in Seq(C) /\ Len(L) = IF d.pushed THEN 2 ELSE 1
        /\ d.stackFrame \in Int /\ d.pushed \in BOOLEAN /\ d.needPush \in BOOLEAN
        /\ d.needPush => ~d.pushed
    BY DatumFields DEF Sound
  <1>2. v \in AnyValue /\ Last(d) = L[Len(L)]
    BY DEF Last
  <1> HIDE DEF L
  <1>3. CASE d.needPush
    <2> DEFINE t == <<v>> \o L
    <2>1. t \in Seq(AnyValue) /\ t \in Seq(C) /\ Len(t) = 2 /\ t[2] = L[1] /\ Len(L) = 1
      <3>1. <<v>> \in Seq(AnyValue) /\ <<v>> \in Seq(C) /\ Len(<<v>>) = 1 /\ Len(L) = 1
        BY <1>1, <1>2, <1>3
      <3>2. /\ t \in Seq(AnyValue) /\ Len(t) = Len(<<v>>) + Len(L)
            /\ \A i \in 1..(Len(<<v>>) + Len(L)) :
                  t[i] = IF i <= Len(<<v>>) THEN <<v>>[i] ELSE L[i - Len(<<v>>)]
        BY ONLY <1>1, <3>1, ConcatProperties
      <3>3. t \in Seq(C)
        BY ONLY <1>1, <3>1, ConcatProperties
      <3> QED
        BY <3>1, <3>2, <3>3
    <2>2. s = Record(t, FALSE, TRUE, d.stackFrame) /\ FALSE \in BOOLEAN /\ TRUE \in BOOLEAN
      BY <1>3, SetFields DEF Sound, L
    <2> HIDE DEF t, s
    <2>3. /\ s \in Datum(AnyValue) /\ s.value = t /\ s.needPush = FALSE /\ s.pushed = TRUE
          /\ s.stackFrame = d.stackFrame
      BY ONLY <1>1, <2>1, <2>2 DEF Datum, Record
    <2> QED
      BY <1>2, <1>3, <2>1, <2>3 DEF Sound, Last, s
  <1>4. CASE ~d.needPush
    <2> DEFINE t == <<v>> \o Tail(L)
    <2>1. /\ t \in Seq(AnyValue) /\ t \in Seq(C) /\ Len(t) = Len(L)
          /\ Len(L) = 2 => t[2] = L[2]
      <3> DEFINE r == Tail(L)
      <3>1. Len(<<>>) = 0
        OBVIOUS
      <3>2. Len(L) \in {1, 2}
        BY <1>1
      <3>3. L # <<>>
        BY ONLY <3>1, <3>2
      <3>4. /\ r \in Seq(AnyValue) /\ Len(r) = Len(L) - 1
            /\ \A i \in 1..Len(r) : r[i] = L[i + 1]
        BY ONLY <1>1, <3>3, HeadTailProperties
      <3>5. r \in Seq(C)
        BY ONLY <1>1, <3>3, HeadTailProperties
      <3> HIDE DEF r
      <3>6. <<v>> \in Seq(AnyValue) /\ <<v>> \in Seq(C) /\ Len(<<v>>) = 1
        BY <1>2
      <3>7. /\ t \in Seq(AnyValue) /\ Len(t) = Len(<<v>>) + Len(r)
            /\ \A i \in 1..(Len(<<v>>) + Len(r)) :
                  t[i] = IF i <= Len(<<v>>) THEN <<v>>[i] ELSE r[i - Len(<<v>>)]
        BY ONLY <3>4, <3>6, ConcatProperties DEF r
      <3>8. t \in Seq(C)
        BY ONLY <3>5, <3>6, ConcatProperties DEF r
      <3>9. Len(L) = 2 => t[2] = r[1] /\ r[1] = L[2]
        <4> HIDE DEF t
        <4>1. Len(L) = 2 => Len(r) = 1 /\ r[1] = L[2]
          BY ONLY <3>2, <3>4
        <4>2. Len(r) = 1 => t[2] = r[1]
          BY ONLY <3>6, <3>7
        <4> QED
          BY ONLY <4>1, <4>2
      <3> HIDE DEF t
      <3> QED
        BY <3>2, <3>4, <3>6, <3>7, <3>8, <3>9
    <2>2. s = Record(t, d.needPush, d.pushed, d.stackFrame)
      BY <1>4, SetFields DEF Sound, L
    <2> HIDE DEF t, s
    <2>3. /\ s \in Datum(AnyValue) /\ s.value = t /\ s.needPush = d.needPush
          /\ s.pushed = d.pushed /\ s.stackFrame = d.stackFrame
      BY ONLY <1>1, <2>1, <2>2, RecordFields
    <2> QED
      BY <1>1, <1>2, <1>4, <2>1, <2>3 DEF Sound, Last, s
  <1> QED
    BY <1>3, <1>4
-----------------------------------------------------------------------------
(* The names of the data, and the pushes of a datum.                       *)

\* The data in use have names, and the others have none.
LEMMA NamesOfUsed ==
    ASSUME IndexInv
    PROVE  /\ \A n \in DOMAIN index : index[n] \in Used
           /\ \A d \in Used : d \in 1..Len(Order) /\ Sharing(d) \in 1..Len(Order)
           /\ \A d : d \notin Used => NamesOf(d) = {} /\ Sharing(d) = 0
  <1>1. ASSUME NEW d \in Used PROVE d \in 1..Len(Order) /\ Sharing(d) \in 1..Len(Order)
    <2>1. PICK n \in DOMAIN index : index[n] = d
      BY DEF Used
    <2>2. PICK i \in 1..Len(Order) : Order[i] = n
      BY <2>1, PlacesOfNames DEF IndexInv
    <2>3. i \in NamesOf(d) /\ d \in 1..Len(Order)
      BY <2>1, <2>2 DEF NamesOf, Places, IndexInv
    <2>4. Len(Order) \in Nat /\ i - 1 \in 0..Len(Order) /\ i \in 0..Len(Order)
      BY PlacesOfNames
    <2>5. /\ Count(d, i - 1) \in 0..Sharing(d) /\ Count(d, i) \in 0..Sharing(d)
          /\ Sharing(d) \in 0..Len(Order) /\ Count(d, i) = Count(d, i - 1) + 1
      BY <2>3, <2>4, Counting
    <2> QED
      BY <2>3, <2>4, <2>5
  <1>2. ASSUME NEW d, d \notin Used PROVE NamesOf(d) = {} /\ Sharing(d) = 0
    <2>1. NamesOf(d) = {}
      BY <1>2 DEF NamesOf, Places, Used
    <2> QED
      BY <2>1, FS_EmptySet DEF Sharing
  <1> QED
    BY <1>1, <1>2 DEF Used

\* Multiplying by one more; a product of smaller factors is smaller.
LEMMA Times ==
    ASSUME NEW s \in Nat, NEW e \in Nat
    PROVE  /\ s * e \in Nat /\ s * (e + 1) = s * e + s /\ s * 0 = 0
           /\ \A S, E \in Nat : s <= S /\ e <= E => s * e <= E * S
  <1>1. s * e \in Nat /\ s * (e + 1) = s * e + s /\ s * 0 = 0
    OBVIOUS
  <1>2. ASSUME NEW S \in Nat, NEW E \in Nat, s <= S, e <= E PROVE s * e <= E * S
    <2>1. PICK p \in Nat : S = s + p
      <3>1. S - s \in Nat /\ S = s + (S - s)
        BY <1>2
      <3> QED
        BY <3>1
    <2>2. PICK q \in Nat : E = e + q
      <3>1. E - e \in Nat /\ E = e + (E - e)
        BY <1>2
      <3> QED
        BY <3>1
    <2>3. E * S = s * e + s * q + p * e + p * q
      BY <2>1, <2>2
    <2>4. s * q \in Nat /\ p * e \in Nat /\ p * q \in Nat
      OBVIOUS
    <2> QED
      BY <1>1, <2>3, <2>4
  <1> QED
    BY <1>1, <1>2

\* How far a number is from a greater one.
LEMMA Distance ==
    ASSUME NEW D \in Nat, NEW m \in 0..D
    PROVE  /\ D - m \in Nat /\ D - m <= D /\ (D - m = 0 <=> m = D)
           /\ D + 1 - m = (D - m) + 1 /\ D - 1 - m = (D - m) - 1
           /\ m < D => (D - m) - 1 \in Nat /\ ((D - m) - 1) + 1 = D - m
  OBVIOUS

\* The counter of a datum tells how often each of its names has been pushed.
LEMMA Frames ==
    ASSUME IndexInv, HistoryInv, NEW made \in [1..Len(Order) -> 0..Depth], MadeInv(made),
           NEW d \in Used
    PROVE  /\ made[d] \in 0..Depth /\ datum[d].stackFrame \in Nat
           /\ datum[d].stackFrame + Sharing(d) = 1 + Sharing(d) * (Depth + 1 - made[d])
           /\ Depth < MaxDepth => datum[d].stackFrame + Sharing(d) <= 1 + MaxDepth * Len(Order)
           /\ made[d] < Depth =>
                 /\ datum[d].stackFrame - Sharing(d) = 1 + Sharing(d) * (Depth - 1 - made[d])
                 /\ datum[d].stackFrame > Sharing(d)
           /\ made[d] = Depth => datum[d].stackFrame = 1
  <1> DEFINE s == Sharing(d)
             e == Depth - made[d]
             f == datum[d].stackFrame
  <1>1. /\ d \in 1..Len(Order) /\ s \in 1..Len(Order) /\ s \in Nat /\ made[d] \in 0..Depth
        /\ Depth \in Nat /\ MaxDepth \in Nat /\ Len(Order) \in Nat /\ Depth <= MaxDepth
    BY NamesOfUsed, PlacesOfNames, IndexStateAssumption DEF HistoryInv
  <1>2. f = 1 + s * e
    BY DEF MadeInv
  <1>3. e \in Nat /\ e <= Depth /\ Depth + 1 - made[d] = e + 1 /\ Depth - 1 - made[d] = e - 1
    BY ONLY <1>1, Distance
  <1> HIDE DEF s, e, f
  <1>4. s * e \in Nat /\ s * (e + 1) = s * e + s /\ s * 0 = 0
    BY ONLY <1>1, <1>3, Times
  <1>5. Depth < MaxDepth => s * (e + 1) <= MaxDepth * Len(Order)
    <2>1. e + 1 \in Nat /\ s <= Len(Order)
      BY <1>1, <1>3
    <2>2. \A S, E \in Nat : s <= S /\ e + 1 <= E => s * (e + 1) <= E * S
      BY ONLY <1>1, <2>1, Times
    <2>3. Depth < MaxDepth => e + 1 <= MaxDepth
      BY <1>1, <1>3
    <2> QED
      BY ONLY <1>1, <2>1, <2>2, <2>3
  <1>6. made[d] < Depth => e - 1 \in Nat /\ s * e = s * (e - 1) + s /\ s * (e - 1) \in Nat
    <2>1. made[d] < Depth => e - 1 \in Nat /\ (e - 1) + 1 = e
      BY ONLY <1>1, Distance DEF e
    <2>2. e - 1 \in Nat => s * (e - 1) \in Nat /\ s * ((e - 1) + 1) = s * (e - 1) + s
      BY ONLY <1>1, Times
    <2> QED
      BY <2>1, <2>2
  <1>7. made[d] = Depth => e = 0
    BY ONLY <1>1, Distance DEF e
  <1>8. f \in Nat /\ f + s = 1 + s * (e + 1)
    <2> DEFINE a == s * e
    <2> HIDE DEF a
    <2>1. a \in Nat /\ f = 1 + a /\ s * (e + 1) = a + s
      BY ONLY <1>2, <1>4 DEF a
    <2> QED
      BY ONLY <1>1, <2>1
  <1>9. Depth < MaxDepth => f + s <= 1 + MaxDepth * Len(Order)
    <2> DEFINE a == s * (e + 1)
               m == MaxDepth * Len(Order)
    <2>1. m \in Nat
      BY ONLY Contains
    <2> HIDE DEF a, m
    <2>2. f \in Nat /\ f + s = 1 + a /\ (Depth < MaxDepth => a <= m)
      BY ONLY <1>5, <1>8 DEF a, m
    <2>3. f + s \in Nat /\ a \in Nat
      BY ONLY <1>1, <1>4, <2>2 DEF a
    <2>4. Depth < MaxDepth => f + s <= 1 + m
      BY ONLY <2>1, <2>2, <2>3
    <2> QED
      BY ONLY <2>4 DEF m
  <1>10. made[d] < Depth => f - s = 1 + s * (e - 1) /\ f > s
    <2> DEFINE a == s * (e - 1)
    <2>1. made[d] < Depth => a \in Nat /\ f = 1 + (a + s)
      BY ONLY <1>2, <1>6
    <2> HIDE DEF a
    <2>2. made[d] < Depth => f - s = 1 + a /\ f > s
      BY ONLY <1>1, <2>1
    <2> QED
      BY ONLY <2>2 DEF a
  <1>11. made[d] = Depth => f = 1
    BY ONLY <1>2, <1>4, <1>7
  <1> QED
    BY <1>1, <1>3, <1>8, <1>9, <1>10, <1>11 DEF s, f
-----------------------------------------------------------------------------
(* pushState.                                                              *)

\* The caller keeps to both rules.
Rules == {"setLast", "linkFirst"} \subseteq Restrictions

\* The contents can be saved.
LEMMA ContentsSaved ==
    ASSUME DataInv, IndexInv
    PROVE  /\ Contents \in States /\ DOMAIN Contents = DOMAIN index
           /\ \A n \in DOMAIN index : Contents[n] = Head(datum[index[n]].value)
  <1>1. \A n \in DOMAIN index : Head(datum[index[n]].value) \in AnyValue
    <2> SUFFICES ASSUME NEW n \in DOMAIN index PROVE Head(datum[index[n]].value) \in AnyValue
      OBVIOUS
    <2> DEFINE L == datum[index[n]].value
    <2>1. Len(L) \in {1, 2} /\ L \in Seq(AnyValue)
      BY OneDatum DEF DataInv, Sound, IndexInv
    <2>2. Len(<<>>) = 0 /\ 0 \notin {1, 2}
      OBVIOUS
    <2> HIDE DEF L
    <2>3. L # <<>>
      BY ONLY <2>1, <2>2
    <2> QED
      BY ONLY <2>1, <2>3, HeadTailProperties DEF L
  <1>2. Contents = [n \in DOMAIN index |-> Head(datum[index[n]].value)]
    BY DEF Contents, ContentsOf
  <1> QED
    BY <1>1, <1>2 DEF States, IndexInv

\* Where an index has the same names for the same data, data have the same names.
LEMMA SameNames ==
    ASSUME index' = index
    PROVE  Places' = Places /\ Used' = Used /\ \A d : Sharing(d)' = Sharing(d)
  BY DEF Places, Used, Sharing, NamesOf

\* A push keeps the invariant and the contents.
LEMMA PushKeeps ==
    ASSUME IInv, Rules, PushState
    PROVE  IInv' /\ Contents' = Contents
  <1>1. DataInv /\ IndexInv /\ HistoryInv
    BY DEF IInv
  <1>2. PICK made \in [1..Len(Order) -> 0..Depth] : MadeInv(made) /\ ValuesInv(made)
    BY DEF IInv
  <1>3. /\ Len(Order) \in Nat /\ Depth \in Nat /\ MaxDepth \in Nat /\ Depth < MaxDepth
        /\ index' = index /\ saved' = Append(saved, Contents)
        /\ setHere' = Append(setHere, {}) /\ setWithin' = Append(setWithin, {})
    BY <1>1, PlacesOfNames, IndexStateAssumption DEF HistoryInv, PushState
  <1>4. setHere[Depth + 1] = {}
    BY DEF PushState, MayPush, Rules
  <1>5. datum' = [d \in 1..Len(Order) |-> PushedTimes(datum[d], Sharing(d))]
    <2>1. datum' = PushedTo(Len(Order))
      BY <1>1, <1>3, PushingResult DEF PushState
    <2> QED
      BY <2>1, Counting DEF PushedTo
  <1>6. ASSUME NEW d \in 1..Len(Order)
        PROVE  /\ Sound(datum'[d], Content(d)) /\ datum'[d].value = datum[d].value
               /\ datum'[d].pushed = datum[d].pushed
               /\ datum'[d].needPush = (Sharing(d) > 0 \/ datum[d].needPush)
               /\ datum'[d].stackFrame = datum[d].stackFrame + Sharing(d)
    <2>1. Sound(datum[d], Content(d)) /\ datum'[d] = PushedTimes(datum[d], Sharing(d))
      BY <1>1, <1>5 DEF DataInv
    <2>2. CASE d \in Used
      <3>1. Sharing(d) \in Nat /\ ~datum[d].pushed /\ MaxDepth > 0
        BY <1>1, <1>2, <1>3, <1>4, <2>2, NamesOfUsed DEF ValuesInv
      <3>2. datum[d].stackFrame + Sharing(d) <= 1 + MaxDepth * Len(Order)
        BY <1>1, <1>2, <1>3, <2>2, Frames
      <3> QED
        BY <2>1, <3>1, <3>2, PushedSound
    <2>3. CASE d \notin Used
      <3>1. Sharing(d) = 0 /\ datum[d].stackFrame + 0 <= 1 + MaxDepth * Len(Order)
        BY <1>1, <2>1, <2>3, NamesOfUsed, Contains DEF Sound
      <3> QED
        BY <2>1, <3>1, PushedSound
    <2> QED
      BY <2>2, <2>3
  <1>7. Contents' = Contents
    BY <1>1, <1>3, <1>6 DEF Contents, ContentsOf, IndexInv
  <1>8. Depth' = Depth + 1 /\ saved' \in Seq(States)
        /\ saved'[Depth + 1] = Contents /\ \A i \in 1..Depth : saved'[i] = saved[i]
    BY <1>1, <1>3, ContentsSaved, AppendProperties DEF Depth, HistoryInv
  <1>9. DataInv'
    <2>1. datum' \in [1..Len(Order) -> Datum(AnyValue)]
      BY <1>5, <1>6 DEF Sound
    <2> QED
      BY <1>6, <2>1 DEF DataInv
  <1>10. IndexInv'
    BY <1>1, <1>3 DEF IndexInv
  <1>11. HistoryInv'
    <2>1. /\ setHere' \in Seq(SUBSET (1..Len(Order))) /\ Len(setHere') = Depth + 2
          /\ \A i \in 1..(Depth + 1) : setHere'[i] = {}
      BY <1>1, <1>3, <1>4, AppendProperties DEF HistoryInv
    <2>2. setWithin' \in Seq(SUBSET (1..Len(Order))) /\ Len(setWithin') = Depth + 2
      BY <1>1, <1>3, AppendProperties DEF HistoryInv
    <2> QED
      BY <1>3, <1>8, <2>1, <2>2 DEF HistoryInv
  <1>12. made \in [1..Len(Order) -> 0..(Depth')]
    BY <1>3, <1>8
  <1>13. MadeInv(made)'
    <2>1. ASSUME NEW i \in 1..(Depth')
          PROVE  DOMAIN saved'[i] = {n \in DOMAIN index : made[index[n]] < i}
      <3>1. CASE i = Depth + 1
        <4>1. \A n \in DOMAIN index : made[index[n]] \in 0..Depth
          BY <1>1, <1>2 DEF IndexInv
        <4>2. \A m \in 0..Depth : m < Depth + 1
          BY <1>3
        <4> QED
          BY <1>1, <1>8, <3>1, <4>1, <4>2, ContentsSaved
      <3>2. CASE i # Depth + 1
        <4>1. i \in 1..Depth
          BY <1>3, <1>8, <3>2
        <4> QED
          BY <1>2, <1>8, <4>1 DEF MadeInv
      <3> QED
        BY <3>1, <3>2
    <2>2. ASSUME NEW d \in Used
          PROVE  /\ datum'[d].stackFrame = 1 + Sharing(d) * (Depth' - made[d])
                 /\ Sharing(d) = 1 \/ made[d] = 0
      <3>1. d \in 1..Len(Order)
        BY <1>1, NamesOfUsed
      <3>2. /\ datum'[d].stackFrame = datum[d].stackFrame + Sharing(d)
            /\ datum[d].stackFrame + Sharing(d) = 1 + Sharing(d) * (Depth + 1 - made[d])
        BY <1>1, <1>2, <1>6, <3>1, Frames
      <3>3. Depth' - made[d] = Depth + 1 - made[d]
        <4>1. made[d] \in Int
          BY <1>2, <3>1
        <4>2. Depth' = Depth + 1 /\ Depth \in Nat
          BY <1>3, <1>8
        <4> QED
          BY ONLY <4>1, <4>2
      <3>4. Sharing(d) = 1 \/ made[d] = 0
        BY <1>2 DEF MadeInv
      <3> QED
        BY ONLY <3>2, <3>3, <3>4
    <2> QED
      BY <1>2, <1>3, <2>1, <2>2, SameNames DEF MadeInv
  <1>14. ValuesInv(made)'
    <2>1. ASSUME NEW n \in DOMAIN index, NEW i \in 1..(Depth'), made[index[n]] < i
          PROVE  saved'[i][n] = Last(datum'[index[n]])
      <3>1. index[n] \in 1..Len(Order) /\ index[n] \in Used
        BY <1>1, NamesOfUsed DEF IndexInv
      <3>2. Last(datum'[index[n]]) = Last(datum[index[n]])
        BY <1>6, <3>1 DEF Last
      <3>3. CASE i = Depth + 1
        <4>1. saved'[i][n] = Head(datum[index[n]].value)
          BY <1>1, <1>8, <3>3, ContentsSaved
        <4>2. Len(datum[index[n]].value) = 1 /\ datum[index[n]].value \in Seq(AnyValue)
          BY <1>1, <1>2, <1>4, <3>1, OneDatum DEF ValuesInv, DataInv, Sound
        <4> QED
          BY <3>2, <4>1, <4>2 DEF Last
      <3>4. CASE i # Depth + 1
        <4>1. i \in 1..Depth
          BY <1>3, <1>8, <3>4
        <4> QED
          BY <1>2, <1>8, <2>1, <3>2, <4>1 DEF ValuesInv
      <3> QED
        BY <3>3, <3>4
    <2>2. ASSUME NEW d \in Used PROVE ~datum'[d].pushed /\ datum'[d].needPush
      <3>1. d \in 1..Len(Order) /\ Sharing(d) > 0 /\ ~datum[d].pushed
        BY <1>1, <1>2, <1>4, <1>3, NamesOfUsed DEF ValuesInv
      <3> QED
        BY <1>6, <3>1
    <2> QED
      BY <1>3, <2>1, <2>2, SameNames DEF ValuesInv
  <1> QED
    BY <1>7, <1>9, <1>10, <1>11, <1>12, <1>13, <1>14 DEF IInv
-----------------------------------------------------------------------------
(* popState.                                                               *)

\* The names that a pop erases are the ones made in the state that ends.
LEMMA ErasedNames ==
    ASSUME DataInv, IndexInv, HistoryInv, NEW made \in [1..Len(Order) -> 0..Depth],
           MadeInv(made), Depth > 0
    PROVE  Erased = {n \in DOMAIN index : made[index[n]] = Depth}
  <1>1. ASSUME NEW j \in Places
        PROVE  Expired(Popping[j][index[Order[j]]]) <=> made[index[Order[j]]] = Depth
    <2> DEFINE d == index[Order[j]]
    <2>1. /\ j \in 1..Len(Order) /\ Order[j] \in DOMAIN index /\ Len(Order) \in Nat
          /\ d \in Used /\ d \in 1..Len(Order) /\ j \in NamesOf(d)
      BY PlacesOfNames, NamesOfUsed DEF Places, NamesOf, IndexInv
    <2> HIDE DEF d
    <2>2. j \in 0..Len(Order) /\ j - 1 \in 0..Len(Order)
      BY <2>1
    <2>3. Count(d, j) \in 0..Sharing(d) /\ Count(d, j) > 0 /\ Sharing(d) \in Nat
      <3>1. /\ Count(d, j) \in 0..Sharing(d) /\ Count(d, j - 1) \in 0..Sharing(d)
            /\ Count(d, j) = Count(d, j - 1) + 1 /\ Sharing(d) \in 0..Len(Order)
        BY <2>1, <2>2, Counting
      <3> QED
        BY <2>1, <3>1
    <2>4. Sound(datum[d], Content(d)) /\ Popping[j][d] = PoppedTimes(datum[d], Count(d, j))
      BY <2>1, <2>2, PoppingResult DEF PoppedTo, DataInv
    <2>5. /\ datum[d].stackFrame \in Nat /\ made[d] \in 0..Depth /\ Depth \in Nat
          /\ made[d] < Depth => datum[d].stackFrame > Sharing(d)
          /\ made[d] = Depth => datum[d].stackFrame = 1
      <3>1. Depth \in Nat
        BY IndexStateAssumption DEF HistoryInv
      <3> QED
        BY <2>1, <3>1, Frames
    <2>6. made[d] = Depth => Sharing(d) = 1
      BY <2>1, <2>5 DEF MadeInv
    <2>7. /\ Count(d, j) \in Nat /\ Count(d, j) <= datum[d].stackFrame
          /\ datum[d].stackFrame - Count(d, j) <= 0 <=> made[d] = Depth
      BY ONLY <2>3, <2>5, <2>6
    <2>8. Popping[j][d].stackFrame = datum[d].stackFrame - Count(d, j)
      BY <2>4, <2>7, PoppedSound
    <2> QED
      BY <2>7, <2>8 DEF Expired, d
  <1>2. \A n \in DOMAIN index : \E j \in Places : Order[j] = n
    BY PlacesOfNames DEF Places, IndexInv
  <1>3. \A j \in Places : Order[j] \in DOMAIN index
    BY DEF Places
  <1> QED
    BY <1>1, <1>2, <1>3 DEF Erased

\* A pop keeps the invariant and brings back the contents that were saved last.
LEMMA PopKeeps ==
    ASSUME IInv, PopState
    PROVE  IInv' /\ Contents' = saved[Depth]
  <1>1. DataInv /\ IndexInv /\ HistoryInv
    BY DEF IInv
  <1>2. PICK made \in [1..Len(Order) -> 0..Depth] : MadeInv(made) /\ ValuesInv(made)
    BY DEF IInv
  <1>3. /\ Len(Order) \in Nat /\ Depth \in Nat /\ MaxDepth \in Nat /\ Depth \in 1..MaxDepth
        /\ Depth > 0 /\ Depth - 1 \in Nat
    BY <1>1, PlacesOfNames, IndexStateAssumption DEF HistoryInv, PopState
  <1>4. datum' = [d \in 1..Len(Order) |-> PoppedTimes(datum[d], Sharing(d))]
    <2>1. datum' = PoppedTo(Len(Order))
      BY <1>1, <1>3, PoppingResult DEF PopState
    <2> QED
      BY <2>1, Counting DEF PoppedTo
  <1>5. /\ DOMAIN index' = {n \in DOMAIN index : made[index[n]] < Depth}
        /\ \A n \in DOMAIN index' : index'[n] = index[n]
        /\ index' = [n \in DOMAIN index' |-> index'[n]]
    <2>1. index' = [n \in DOMAIN index \ Erased |-> index[n]]
      BY DEF PopState
    <2>2. \A n \in DOMAIN index : made[index[n]] = Depth <=> ~(made[index[n]] < Depth)
      <3>1. \A n \in DOMAIN index : made[index[n]] \in 0..Depth
        BY <1>1, <1>2 DEF IndexInv
      <3>2. \A m \in 0..Depth : m = Depth <=> ~(m < Depth)
        BY <1>3
      <3> QED
        BY <3>1, <3>2
    <2>3. Erased = {n \in DOMAIN index : made[index[n]] = Depth}
      BY <1>1, <1>2, <1>3, ErasedNames
    <2> QED
      BY <2>1, <2>2, <2>3
  <1>6. ASSUME NEW d \in 1..Len(Order)
        PROVE  /\ Sound(datum'[d], Content(d)) /\ Last(datum'[d]) = Last(datum[d])
               /\ datum'[d].needPush = datum[d].needPush
               /\ d \in Used /\ made[d] < Depth =>
                     /\ ~datum'[d].pushed /\ Head(datum'[d].value) = Last(datum[d])
                     /\ datum'[d].stackFrame = datum[d].stackFrame - Sharing(d)
    <2>1. Sound(datum[d], Content(d)) /\ datum'[d] = PoppedTimes(datum[d], Sharing(d))
      BY <1>1, <1>4 DEF DataInv
    <2>2. Sharing(d) \in Nat /\ datum[d].stackFrame \in Nat
      BY <1>1, <2>1, <1>3, Contains, Counting DEF Sound
    <2>3. CASE d \in Used
      <3>1. /\ Sharing(d) > 0 /\ made[d] \in 0..Depth
            /\ made[d] < Depth => datum[d].stackFrame > Sharing(d)
            /\ made[d] = Depth => datum[d].stackFrame = 1
        BY <1>1, <1>2, <2>3, NamesOfUsed, Frames
      <3>2. made[d] = Depth => Sharing(d) = 1
        BY <1>2, <1>3, <2>3 DEF MadeInv
      <3>3. Sharing(d) <= datum[d].stackFrame /\ (made[d] < Depth => datum[d].stackFrame > 1)
        BY ONLY <1>3, <2>2, <3>1, <3>2
      <3> DEFINE p == PoppedTimes(datum[d], Sharing(d))
      <3>4. /\ Sound(p, Content(d)) /\ Last(p) = Last(datum[d])
            /\ p.needPush = datum[d].needPush
            /\ p.stackFrame = datum[d].stackFrame - Sharing(d)
        BY <2>1, <2>2, <3>3, PoppedSound
      <3>5. made[d] < Depth => ~p.pushed /\ Head(p.value) = Last(datum[d])
        BY <2>1, <2>2, <3>1, <3>3, PoppedSound
      <3> HIDE DEF p
      <3> QED
        BY <2>1, <3>4, <3>5 DEF p
    <2>4. CASE d \notin Used
      <3>1. Sharing(d) = 0 /\ 0 <= datum[d].stackFrame
        BY <1>1, <2>2, <2>4, NamesOfUsed
      <3> QED
        BY <2>1, <2>2, <2>4, <3>1, PoppedSound
    <2> QED
      BY <2>3, <2>4
  <1>7. Contents' = saved[Depth]
    <2>1. /\ Depth \in 1..Depth /\ saved[Depth] \in States
          /\ DOMAIN saved[Depth] = {n \in DOMAIN index : made[index[n]] < Depth}
      BY <1>1, <1>2, <1>3, ElementOfSeq DEF HistoryInv, MadeInv, Depth
    <2>2. saved[Depth] = [n \in DOMAIN saved[Depth] |-> saved[Depth][n]]
      BY <2>1 DEF States
    <2>3. ASSUME NEW n \in DOMAIN index'
          PROVE  Head(datum'[index'[n]].value) = saved[Depth][n]
      <3>1. /\ n \in DOMAIN index /\ index'[n] = index[n] /\ index[n] \in 1..Len(Order)
            /\ index[n] \in Used /\ made[index[n]] < Depth
        BY <1>1, <1>5, NamesOfUsed DEF IndexInv
      <3> QED
        BY <1>2, <1>6, <2>1, <3>1 DEF ValuesInv
    <2> QED
      BY <1>5, <2>1, <2>2, <2>3 DEF Contents, ContentsOf
  <1>8. /\ Depth' = Depth - 1 /\ saved' \in Seq(States)
        /\ \A i \in 1..(Depth - 1) : saved'[i] = saved[i]
    <2>1. saved' = SubSeq(saved, 1, Depth - 1) /\ \A i \in 1..(Depth - 1) : saved[i] \in States
      BY <1>1, <1>3, ElementOfSeq DEF PopState, HistoryInv, Depth
    <2> DEFINE D == Depth
    <2>2. D - 1 \in Nat /\ D \in Nat /\ Depth = D
      BY <1>3
    <2> HIDE DEF D
    <2>3. /\ SubSeq(saved, 1, D - 1) \in Seq(States) /\ Len(SubSeq(saved, 1, D - 1)) = D - 1
          /\ \A i \in 1..(D - 1) : SubSeq(saved, 1, D - 1)[i] = saved[i]
      BY <2>1, <2>2, SubSeqProperties
    <2> QED
      BY <2>1, <2>2, <2>3 DEF Depth
  <1>9. DataInv'
    <2>1. datum' \in [1..Len(Order) -> Datum(AnyValue)]
      BY <1>4, <1>6 DEF Sound
    <2> QED
      BY <1>6, <2>1 DEF DataInv
  <1>10. IndexInv'
    <2>1. "box" \in DOMAIN index => made[index["box"]] < Depth
      BY <1>2, <1>3 DEF MadeInv
    <2> QED
      BY <1>1, <1>5, <2>1 DEF IndexInv
  <1>11. /\ HistoryInv'
         /\ setWithin'[Depth] = setWithin[Depth] \cup setHere[Depth + 1] \cup setWithin[Depth + 1]
    <2> DEFINE D == Depth
               S == SUBSET (1..Len(Order))
    <2>1. /\ D \in Nat /\ D > 0 /\ setHere \in Seq(S) /\ setWithin \in Seq(S)
          /\ Len(setHere) = D + 1 /\ Len(setWithin) = D + 1
          /\ \A i \in 1..D : setHere[i] = {}
          /\ setHere' = SubSeq(setHere, 1, D)
          /\ setWithin' = [SubSeq(setWithin, 1, D) EXCEPT ![D] =
                              @ \cup setHere[D + 1] \cup setWithin[D + 1]]
      BY <1>1, <1>3 DEF HistoryInv, PopState
    <2>2. D' = D - 1 /\ Depth' = D'
      BY <1>8
    <2> HIDE DEF D, S
    <2>3. /\ SubSeq(setHere, 1, D) \in Seq(S) /\ Len(SubSeq(setHere, 1, D)) = D
          /\ \A i \in 1..D : SubSeq(setHere, 1, D)[i] = setHere[i]
      <3>1. \A i \in 1..D : setHere[i] \in S
        BY <2>1, ElementOfSeq
      <3> QED
        BY <2>1, <3>1, SubSeqProperties
    <2>4. /\ SubSeq(setWithin, 1, D) \in Seq(S) /\ Len(SubSeq(setWithin, 1, D)) = D
          /\ \A i \in 1..D : SubSeq(setWithin, 1, D)[i] = setWithin[i]
      <3>1. \A i \in 1..D : setWithin[i] \in S
        BY <2>1, ElementOfSeq
      <3> QED
        BY <2>1, <3>1, SubSeqProperties
    <2> DEFINE all == setWithin[D] \cup setHere[D + 1] \cup setWithin[D + 1]
               w == SubSeq(setWithin, 1, D)
    <2>5. all \in S /\ D \in 1..Len(w) /\ w[D] = setWithin[D]
      <3>1. setWithin[D] \in S /\ setHere[D + 1] \in S /\ setWithin[D + 1] \in S
        BY <2>1, ElementOfSeq
      <3> QED
        BY <2>1, <2>4, <3>1 DEF S
    <2>6. setWithin' = [w EXCEPT ![D] = all]
      BY <2>1, <2>5
    <2> HIDE DEF w, all
    <2>7. setWithin' \in Seq(S) /\ Len(setWithin') = D /\ setWithin'[D] = all
      <3>1. w \in Seq(S) /\ Len(w) = D
        BY <2>4 DEF w
      <3> QED
        BY <2>5, <2>6, <3>1, ExceptSeq
    <2>8. \A i \in 1..(D - 1) : setHere'[i] = {}
      BY <2>1, <2>3
    <2> QED
      BY <1>3, <1>8, <2>1, <2>2, <2>3, <2>7, <2>8 DEF HistoryInv, D, S, all
  <1>12. /\ Used' = {d \in Used : made[d] < Depth}
         /\ \A d \in Used' : Sharing(d)' = Sharing(d)
    <2>1. Used' = {d \in Used : made[d] < Depth}
      BY <1>5 DEF Used
    <2>2. ASSUME NEW d \in Used' PROVE NamesOf(d)' = NamesOf(d)
      BY <1>5, <2>1, <2>2 DEF NamesOf, Places
    <2> QED
      BY <2>1, <2>2 DEF Sharing
  <1>13. PICK still : still = [d \in 1..Len(Order) |-> IF made[d] < Depth THEN made[d] ELSE 0]
    OBVIOUS
  <1>14. /\ still \in [1..Len(Order) -> 0..(Depth')]
         /\ \A d \in Used' : d \in 1..Len(Order) /\ still[d] = made[d]
         /\ \A n \in DOMAIN index' : index'[n] \in Used' /\ still[index'[n]] = made[index[n]]
    <2>1. ASSUME NEW m \in 0..Depth, m < Depth PROVE m \in 0..(Depth - 1)
      BY <1>3, <2>1
    <2>2. still \in [1..Len(Order) -> 0..(Depth')]
      BY <1>2, <1>3, <1>8, <1>13, <2>1
    <2>3. \A d \in Used' : d \in 1..Len(Order) /\ still[d] = made[d]
      BY <1>1, <1>12, <1>13, NamesOfUsed
    <2>4. \A n \in DOMAIN index' : index'[n] \in Used'
      BY DEF Used
    <2> QED
      BY <1>5, <2>2, <2>3, <2>4
  <1>15. MadeInv(still)'
    <2>1. ASSUME NEW i \in 1..(Depth')
          PROVE  DOMAIN saved'[i] = {n \in DOMAIN index' : still[index'[n]] < i}
      <3>1. i \in 1..(Depth - 1) /\ i \in 1..Depth /\ i <= Depth /\ i \in Nat
        BY <1>3, <1>8
      <3>2. DOMAIN saved'[i] = {n \in DOMAIN index : made[index[n]] < i}
        BY <1>2, <1>8, <3>1 DEF MadeInv
      <3>3. \A n \in DOMAIN index : made[index[n]] \in 0..Depth
        BY <1>1, <1>2 DEF IndexInv
      <3>4. \A n \in DOMAIN index : made[index[n]] < i => made[index[n]] < Depth
        BY <1>3, <3>1, <3>3
      <3> QED
        BY <1>5, <1>14, <3>2, <3>4
    <2>2. ASSUME NEW d \in Used'
          PROVE  /\ datum'[d].stackFrame = 1 + Sharing(d)' * (Depth' - still[d])
                 /\ Sharing(d)' = 1 \/ still[d] = 0
      <3>1. /\ d \in Used /\ made[d] < Depth /\ still[d] = made[d] /\ d \in 1..Len(Order)
            /\ Sharing(d)' = Sharing(d)
        BY <1>12, <1>14
      <3>2. /\ datum'[d].stackFrame = datum[d].stackFrame - Sharing(d)
            /\ datum[d].stackFrame - Sharing(d) = 1 + Sharing(d) * (Depth - 1 - made[d])
        BY <1>1, <1>2, <1>6, <3>1, Frames
      <3>3. Depth' - made[d] = Depth - 1 - made[d]
        BY <1>8
      <3>4. Sharing(d) = 1 \/ made[d] = 0
        BY <1>2, <3>1 DEF MadeInv
      <3> QED
        BY ONLY <3>1, <3>2, <3>3, <3>4
    <2>3. \A n \in DOMAIN index' : n = "box" => still[index'[n]] = 0
      BY <1>2, <1>5, <1>14 DEF MadeInv
    <2> QED
      BY <2>1, <2>2, <2>3 DEF MadeInv
  <1>16. ValuesInv(still)'
    <2>1. ASSUME NEW n \in DOMAIN index', NEW i \in 1..(Depth'), still[index'[n]] < i
          PROVE  saved'[i][n] = Last(datum'[index'[n]])
      <3>1. i \in 1..(Depth - 1) /\ i \in 1..Depth
        BY <1>3, <1>8
      <3>2. /\ n \in DOMAIN index /\ index'[n] = index[n] /\ index[n] \in 1..Len(Order)
            /\ made[index[n]] < i
        BY <1>1, <1>5, <1>14, <2>1 DEF IndexInv
      <3> QED
        BY <1>2, <1>6, <1>8, <3>1, <3>2 DEF ValuesInv
    <2>2. ASSUME NEW d \in Used'
          PROVE  ~datum'[d].pushed /\ (datum'[d].needPush \/ d \in setWithin'[Depth])
      <3>1. d \in Used /\ made[d] < Depth /\ d \in 1..Len(Order)
        BY <1>12, <1>14
      <3>2. datum[d].needPush \/ d \in setHere[Depth + 1] \/ d \in setWithin[Depth + 1]
        BY <1>2, <3>1 DEF ValuesInv
      <3> QED
        BY <1>6, <1>11, <3>1, <3>2
    <2>3. Depth' + 1 = Depth
      BY <1>3, <1>8
    <2> QED
      BY <2>1, <2>2, <2>3 DEF ValuesInv
  <1> QED
    BY <1>7, <1>9, <1>10, <1>11, <1>14, <1>15, <1>16 DEF IInv
-----------------------------------------------------------------------------
(* Changes of the present state.                                           *)

\* As long as a name is not present, there is a datum without a name.
LEMMA FreeDatum ==
    ASSUME IndexInv, NEW n \in Names, n \notin DOMAIN index
    PROVE  \E e \in 1..Len(Order) : e \notin Used
  <1> SUFFICES ASSUME \A e \in 1..Len(Order) : e \in Used PROVE FALSE
    OBVIOUS
  <1>1. Len(Order) \in Nat /\ IsFiniteSet(1..Len(Order)) /\ Cardinality(1..Len(Order)) = Len(Order)
    BY PlacesOfNames, HowMany
  <1>2. PICK k \in 1..Len(Order) : Order[k] = n
    BY PlacesOfNames
  <1> DEFINE others == (1..Len(Order)) \ {k}
             g == [e \in 1..Len(Order) |-> CHOOSE i \in Places : index[Order[i]] = e]
  <1>3. Places \in SUBSET others
    BY <1>2 DEF Places
  <1>4. IsFiniteSet(Places) /\ Cardinality(Places) < Cardinality(1..Len(Order))
    <2>1. IsFiniteSet(others) /\ Cardinality(others) = Len(Order) - 1
      BY <1>1, <1>2, FS_RemoveElement
    <2> HIDE DEF others
    <2>2. IsFiniteSet(Places) /\ Cardinality(Places) <= Cardinality(others)
      BY <1>3, <2>1, FS_Subset
    <2> QED
      BY <1>1, <2>1, <2>2, FS_CardinalityType
  <1>5. \A e \in 1..Len(Order) : g[e] \in Places /\ index[Order[g[e]]] = e
    <2>1. \A e \in 1..Len(Order) : \E i \in Places : index[Order[i]] = e
      BY PlacesOfNames DEF Used, Places, IndexInv
    <2> QED
      BY <2>1
  <1>6. g \in [1..Len(Order) -> Places]
    BY <1>5
  <1> HIDE DEF g
  <1>7. PICK x \in 1..Len(Order), y \in 1..Len(Order) : x # y /\ g[x] = g[y]
    BY <1>1, <1>4, <1>6, FS_PigeonHole
  <1> QED
    BY <1>5, <1>7

\* A datum that the caller may set keeps its last value if that one is saved.
LEMMA MaySetKeeps ==
    ASSUME DataInv, IndexInv, NEW made, ValuesInv(made), Rules, NEW d \in Used, MaySet(d),
           NEW v \in Content(d)
    PROVE  LET s == SetValue(datum[d], v)
           IN  /\ Sound(s, Content(d)) /\ s.stackFrame = datum[d].stackFrame
               /\ made[d] < Depth => s.pushed /\ Last(s) = Last(datum[d])
  <1>1. Sound(datum[d], Content(d)) /\ Content(d) \in SUBSET AnyValue
    BY NamesOfUsed, Contains DEF DataInv
  <1>2. made[d] < Depth => datum[d].needPush \/ datum[d].pushed
    BY DEF ValuesInv, MaySet, Rules
  <1> DEFINE s == SetValue(datum[d], v)
  <1>3. /\ Sound(s, Content(d)) /\ s.stackFrame = datum[d].stackFrame
        /\ s.pushed = (datum[d].needPush \/ datum[d].pushed)
        /\ datum[d].needPush \/ datum[d].pushed => Last(s) = Last(datum[d])
    BY <1>1, SetSound
  <1> HIDE DEF s
  <1> QED
    BY <1>2, <1>3 DEF s

\* What is set is noted in the history of the present state.
LEMMA SetsKeeps ==
    ASSUME HistoryInv, NEW d \in 1..Len(Order), Sets(d), UNCHANGED <<saved, setWithin>>
    PROVE  HistoryInv' /\ setHere'[Depth + 1] = setHere[Depth + 1] \cup {d}
  <1> DEFINE S == SUBSET (1..Len(Order))
             D == Depth
  <1>1. /\ setHere \in Seq(S) /\ Len(setHere) = D + 1 /\ D \in Nat
        /\ setHere' = [setHere EXCEPT ![D + 1] = @ \cup {d}]
        /\ \A i \in 1..D : setHere[i] = {}
    BY IndexStateAssumption DEF HistoryInv, Sets
  <1>2. setHere[D + 1] \cup {d} \in S /\ D + 1 \in 1..Len(setHere)
    BY <1>1, ElementOfSeq
  <1>3. D' = D
    BY DEF Depth
  <1> HIDE DEF S, D
  <1>4. /\ setHere' \in Seq(S) /\ Len(setHere') = D + 1
        /\ \A j \in 1..(D + 1) : setHere'[j] = IF j = D + 1 THEN setHere[D + 1] \cup {d}
                                               ELSE setHere[j]
    BY <1>1, <1>2, ExceptSeq
  <1>5. /\ \A i \in 1..D : setHere'[i] = {}
        /\ setHere'[D + 1] = setHere[D + 1] \cup {d}
    BY <1>1, <1>4
  <1> QED
    BY <1>1, <1>3, <1>4, <1>5 DEF HistoryInv, S, D

\* Overwriting keeps the invariant.
LEMMA OverwriteKeeps ==
    ASSUME IInv, Rules, NEW n \in Names, NEW v \in Values, Overwrite(n, v)
    PROVE  IInv' /\ UNCHANGED <<index, saved>>
  <1>1. DataInv /\ IndexInv /\ HistoryInv
    BY DEF IInv
  <1>2. PICK made \in [1..Len(Order) -> 0..Depth] : MadeInv(made) /\ ValuesInv(made)
    BY DEF IInv
  <1> DEFINE d == index[n]
  <1>3. /\ d \in Used /\ d \in 1..Len(Order) /\ Order[d] # "box" /\ MaySet(d)
        /\ index' = index /\ saved' = saved /\ setWithin' = setWithin /\ Sets(d)
        /\ datum' = [datum EXCEPT ![d] = SetValue(@, v)] /\ v \in Content(d)
        /\ Depth' = Depth
    BY <1>1, NamesOfUsed DEF Overwrite, IndexInv, Content, Depth
  <1> HIDE DEF d
  <1>4. HistoryInv' /\ setHere'[Depth + 1] = setHere[Depth + 1] \cup {d}
    BY <1>1, <1>3, SetsKeeps
  <1> DEFINE s == SetValue(datum[d], v)
  <1>5. /\ Sound(s, Content(d)) /\ s.stackFrame = datum[d].stackFrame
        /\ made[d] < Depth => s.pushed /\ Last(s) = Last(datum[d])
    BY <1>1, <1>2, <1>3, MaySetKeeps
  <1>6. datum'[d] = s /\ \A e \in (1..Len(Order)) \ {d} : datum'[e] = datum[e]
    BY <1>1, <1>3 DEF DataInv
  <1> HIDE DEF s
  <1>7. DataInv'
    <2>1. \A e \in 1..Len(Order) : Sound(datum'[e], Content(e))
      BY <1>1, <1>5, <1>6 DEF DataInv
    <2>2. datum' \in [1..Len(Order) -> Datum(AnyValue)]
      BY <1>1, <1>3, <2>1 DEF Sound, DataInv
    <2> QED
      BY <2>1, <2>2 DEF DataInv
  <1>8. IndexInv' /\ made \in [1..Len(Order) -> 0..(Depth')]
    BY <1>1, <1>2, <1>3 DEF IndexInv
  <1>9. MadeInv(made)'
    <2>1. \A e \in Used : datum'[e].stackFrame = datum[e].stackFrame
      BY <1>1, <1>5, <1>6, NamesOfUsed
    <2> QED
      BY <1>2, <1>3, <2>1, SameNames DEF MadeInv
  <1>10. ValuesInv(made)'
    <2>1. ASSUME NEW m \in DOMAIN index, NEW i \in 1..Depth, made[index[m]] < i
          PROVE  saved[i][m] = Last(datum'[index[m]])
      <3>1. saved[i][m] = Last(datum[index[m]]) /\ index[m] \in 1..Len(Order)
        BY <1>1, <1>2, <2>1 DEF ValuesInv, IndexInv
      <3>2. made[index[m]] < Depth
        <4>1. made[index[m]] \in 0..Depth /\ Depth \in Nat
          BY <1>1, <1>2, <3>1, IndexStateAssumption DEF HistoryInv
        <4> QED
          BY <2>1, <4>1
      <3> QED
        BY <1>5, <1>6, <3>1, <3>2
    <2>2. ASSUME NEW e \in Used
          PROVE  /\ datum'[e].pushed => e \in setHere'[Depth + 1]
                 /\ made[e] < Depth => \/ datum'[e].needPush \/ datum'[e].pushed
                                       \/ e \in setWithin[Depth + 1]
      BY <1>1, <1>2, <1>4, <1>5, <1>6, NamesOfUsed DEF ValuesInv
    <2> QED
      BY <1>3, <2>1, <2>2, SameNames DEF ValuesInv
  <1> QED
    BY <1>3, <1>4, <1>7, <1>8, <1>9, <1>10 DEF IInv
\* What adding does to the data: the one that is new is as New makes it, and those in use
\* keep what the invariant says of them.
LEMMA AddData ==
    ASSUME DataInv, IndexInv, HistoryInv, NEW made \in [1..Len(Order) -> 0..Depth],
           ValuesInv(made), Rules, NEW n \in Names, NEW v \in Values, Add(n, v)
    PROVE  /\ DataInv' /\ HistoryInv' /\ UNCHANGED <<saved, setWithin>>
           /\ \E d \in 1..Len(Order) :
                 /\ d \notin Used /\ Order[d] # "box"
                 /\ index' = [m \in DOMAIN index \cup {n} |-> IF m = n THEN d ELSE index[m]]
                 /\ datum'[d].stackFrame = 1 /\ ~datum'[d].pushed
           /\ \A e \in Used :
                 /\ datum'[e].stackFrame = datum[e].stackFrame
                 /\ datum'[e].pushed => e \in setHere'[Depth + 1]
                 /\ made[e] < Depth => /\ Last(datum'[e]) = Last(datum[e])
                                       /\ \/ datum'[e].needPush \/ datum'[e].pushed
                                          \/ e \in setWithin[Depth + 1]
  <1> DEFINE Free(e) == \A m \in DOMAIN index : index[m] # e
             d == CHOOSE e \in Data : Free(e)
             new == New(v)
             added == [datum EXCEPT ![d] = new]
             box == index["box"]
  <1>1. /\ n \notin DOMAIN index /\ n # "box" /\ UNCHANGED <<saved, setWithin>>
        /\ index' = [m \in DOMAIN index \cup {n} |-> IF m = n THEN d ELSE index[m]]
        /\ IF n \in Inside
           THEN /\ MaySet(box) /\ datum' = [added EXCEPT ![box] = AddToValue(@, n)]
                /\ Sets(box)
           ELSE datum' = added /\ UNCHANGED setHere
    BY DEF Add
  <1>2. d \in 1..Len(Order) /\ d \notin Used
    <2>1. Data = 1..Len(Order)
      BY DEF Data, DataInv
    <2>2. \E e \in Data : Free(e)
      BY <1>1, <2>1, FreeDatum DEF Used
    <2>3. d \in Data /\ Free(d)
      <3> HIDE DEF Free
      <3> QED BY <2>2
    <2> HIDE DEF d
    <2> QED
      BY <2>1, <2>3 DEF Used
  <1> HIDE DEF d
  <1>3. Order[d] # "box"
    <2> SUFFICES ASSUME Order[d] = "box" PROVE FALSE
      OBVIOUS
    <2>1. "box" \in DOMAIN index
      BY <1>2, PlacesOfNames DEF IndexInv
    <2>2. box \in Used /\ box \in 1..Len(Order) /\ Order[box] = "box"
      BY <2>1, NamesOfUsed DEF IndexInv
    <2> QED
      BY <1>2, <2>2, PlacesOfNames
  <1>4. /\ Sound(new, Content(d)) /\ ~new.pushed /\ new.stackFrame = 1
    BY <1>3, Contains, NewSound DEF Content
  <1>5. /\ added \in [1..Len(Order) -> Datum(AnyValue)] /\ added[d] = new
        /\ \A e \in (1..Len(Order)) \ {d} : added[e] = datum[e]
    BY <1>2, <1>4 DEF DataInv, Sound
  <1> HIDE DEF added, new
  <1>6. CASE n \in Inside
    <2>1. "box" \in DOMAIN index
      BY <1>6, IndexStateAssumption DEF IndexInv
    <2>2. box \in Used /\ box \in 1..Len(Order) /\ Order[box] = "box" /\ box # d
      BY <1>2, <2>1, NamesOfUsed DEF IndexInv
    <2> HIDE DEF box
    <2> DEFINE w == Head(datum[box].value) \cup {n}
               s == SetValue(datum[box], w)
    <2>3. w \in Content(box)
      <3> DEFINE L == datum[box].value
      <3>1. L \in Seq(SUBSET Inside) /\ Len(L) \in {1, 2}
        BY <2>2 DEF DataInv, Sound, Content
      <3>2. Len(<<>>) = 0 /\ 0 \notin {1, 2}
        OBVIOUS
      <3> HIDE DEF L
      <3>3. L # <<>>
        BY ONLY <3>1, <3>2
      <3>4. Head(L) \in SUBSET Inside
        BY ONLY <3>1, <3>3, HeadTailProperties
      <3> QED
        BY <1>6, <2>2, <3>4 DEF L, Content
    <2>4. /\ Sound(s, Content(box)) /\ s.stackFrame = datum[box].stackFrame
          /\ made[box] < Depth => s.pushed /\ Last(s) = Last(datum[box])
      <3>1. MaySet(box)
        BY <1>1, <1>6
      <3> HIDE DEF w, s
      <3> QED
        BY <2>2, <2>3, <3>1, MaySetKeeps DEF s
    <2>5. HistoryInv' /\ setHere'[Depth + 1] = setHere[Depth + 1] \cup {box}
      BY <1>1, <1>6, <2>2, SetsKeeps
    <2>6. datum' = [added EXCEPT ![box] = s]
      BY <1>1, <1>5, <1>6, <2>2 DEF AddToValue
    <2> HIDE DEF s
    <2>7. /\ datum' \in [1..Len(Order) -> Datum(AnyValue)] /\ datum'[d] = new
          /\ datum'[box] = s /\ \A e \in (1..Len(Order)) \ {d, box} : datum'[e] = datum[e]
      BY <1>2, <1>5, <2>2, <2>4, <2>6 DEF Sound
    <2>8. DataInv'
      BY <1>4, <2>4, <2>7 DEF DataInv
    <2>9. ASSUME NEW e \in Used
          PROVE  /\ datum'[e].stackFrame = datum[e].stackFrame
                 /\ datum'[e].pushed => e \in setHere'[Depth + 1]
                 /\ made[e] < Depth => /\ Last(datum'[e]) = Last(datum[e])
                                       /\ \/ datum'[e].needPush \/ datum'[e].pushed
                                          \/ e \in setWithin[Depth + 1]
      <3>1. e \in 1..Len(Order) /\ e # d
        BY <1>2, NamesOfUsed
      <3>2. CASE e = box
        BY <2>4, <2>5, <2>7, <3>1, <3>2
      <3>3. CASE e # box
        BY <2>5, <2>7, <3>1, <3>3 DEF ValuesInv
      <3> QED
        BY <3>2, <3>3
    <2> QED
      BY <1>1, <1>2, <1>3, <1>4, <2>5, <2>7, <2>8, <2>9
  <1>7. CASE n \notin Inside
    <2>1. datum' = added /\ setHere' = setHere
      BY <1>1, <1>7
    <2>2. DataInv'
      BY <1>4, <1>5, <2>1 DEF DataInv
    <2>3. HistoryInv'
      BY <1>1, <2>1 DEF HistoryInv, Depth
    <2>4. ASSUME NEW e \in Used PROVE datum'[e] = datum[e]
      BY <1>2, <1>5, <2>1, NamesOfUsed
    <2> QED
      BY <1>1, <1>2, <1>3, <1>4, <1>5, <2>1, <2>2, <2>3, <2>4 DEF ValuesInv
  <1> QED
    BY <1>6, <1>7

\* Adding a name keeps the invariant: its datum is made in the present state.
LEMMA AddKeeps ==
    ASSUME IInv, Rules, NEW n \in Names, NEW v \in Values, Add(n, v)
    PROVE  IInv' /\ saved' = saved /\ DOMAIN index \subseteq DOMAIN index'
  <1>1. DataInv /\ IndexInv /\ HistoryInv
    BY DEF IInv
  <1>2. PICK made \in [1..Len(Order) -> 0..Depth] : MadeInv(made) /\ ValuesInv(made)
    BY DEF IInv
  <1>3. /\ DataInv' /\ HistoryInv' /\ saved' = saved /\ setWithin' = setWithin
        /\ n \notin DOMAIN index /\ n # "box" /\ Depth' = Depth /\ Depth \in Nat
    <2>1. DataInv' /\ HistoryInv'
      BY <1>1, <1>2, AddData
    <2>2. n \notin DOMAIN index /\ n # "box" /\ saved' = saved /\ setWithin' = setWithin
      BY DEF Add
    <2>3. Depth' = Depth /\ Depth \in Nat
      BY <1>1, <2>2, IndexStateAssumption DEF Depth, HistoryInv
    <2> QED
      BY <2>1, <2>2, <2>3
  <1>4. PICK d \in 1..Len(Order) :
            /\ d \notin Used /\ Order[d] # "box"
            /\ index' = [m \in DOMAIN index \cup {n} |-> IF m = n THEN d ELSE index[m]]
            /\ datum'[d].stackFrame = 1 /\ ~datum'[d].pushed
    BY <1>1, <1>2, AddData
  <1>5. ASSUME NEW e \in Used
        PROVE  /\ datum'[e].stackFrame = datum[e].stackFrame
               /\ datum'[e].pushed => e \in setHere'[Depth + 1]
               /\ made[e] < Depth => /\ Last(datum'[e]) = Last(datum[e])
                                     /\ \/ datum'[e].needPush \/ datum'[e].pushed
                                        \/ e \in setWithin[Depth + 1]
    BY <1>1, <1>2, AddData
  <1>6. IndexInv'
    BY <1>1, <1>3, <1>4 DEF IndexInv
  <1>7. PICK now : now = [made EXCEPT ![d] = Depth]
    OBVIOUS
  <1>8. /\ now \in [1..Len(Order) -> 0..(Depth')] /\ now[d] = Depth
        /\ \A e \in Used : e \in 1..Len(Order) /\ now[e] = made[e] /\ e # d
    BY <1>1, <1>2, <1>3, <1>4, <1>7, NamesOfUsed
  <1>9. /\ Used' = Used \cup {d}
        /\ DOMAIN index' = DOMAIN index \cup {n} /\ index'[n] = d
        /\ \A m \in DOMAIN index : index'[m] = index[m] /\ m # n /\ index[m] \in Used
    BY <1>1, <1>3, <1>4, NamesOfUsed DEF Used
  <1>10. Sharing(d)' = 1 /\ \A e \in Used : Sharing(e)' = Sharing(e)
    <2>1. ASSUME NEW e \in Used PROVE NamesOf(e)' = NamesOf(e)
      BY <1>4, <1>8, <1>9 DEF NamesOf, Places
    <2>2. PICK k \in 1..Len(Order) : Order[k] = n
      BY PlacesOfNames
    <2>3. NamesOf(d)' = {k}
      BY <1>4, <1>9, <2>2, PlacesOfNames DEF NamesOf, Places
    <2> QED
      BY <2>1, <2>3, FS_Singleton DEF Sharing
  <1>11. \A i \in 1..Depth : i <= Depth /\ ~(Depth < i)
    BY <1>3
  <1>12. MadeInv(now)'
    <2>1. ASSUME NEW i \in 1..Depth
          PROVE  DOMAIN saved[i] = {m \in DOMAIN index' : now[index'[m]] < i}
      <3>1. DOMAIN saved[i] = {m \in DOMAIN index : made[index[m]] < i}
        BY <1>2 DEF MadeInv
      <3> QED
        BY <1>8, <1>9, <1>11, <3>1
    <2>2. datum'[d].stackFrame = 1 + Sharing(d)' * (Depth - now[d])
      BY <1>3, <1>4, <1>8, <1>10
    <2>3. \A e \in Used : /\ datum'[e].stackFrame = 1 + Sharing(e)' * (Depth - now[e])
                          /\ Sharing(e)' = 1 \/ now[e] = 0
      BY <1>2, <1>5, <1>8, <1>10 DEF MadeInv
    <2>4. \A m \in DOMAIN index' : m = "box" => now[index'[m]] = 0
      BY <1>2, <1>3, <1>8, <1>9 DEF MadeInv
    <2> QED
      BY <1>3, <1>9, <1>10, <2>1, <2>2, <2>3, <2>4 DEF MadeInv
  <1>13. ValuesInv(now)'
    <2>1. ASSUME NEW m \in DOMAIN index', NEW i \in 1..Depth, now[index'[m]] < i
          PROVE  saved[i][m] = Last(datum'[index'[m]])
      <3>1. m \in DOMAIN index
        BY <1>8, <1>9, <1>11, <2>1
      <3>2. /\ index'[m] = index[m] /\ index[m] \in Used /\ made[index[m]] < i
            /\ made[index[m]] \in 0..Depth
        BY <1>2, <1>8, <1>9, <2>1, <3>1
      <3>3. made[index[m]] < Depth
        BY <1>3, <3>2
      <3> QED
        BY <1>2, <1>5, <3>1, <3>2, <3>3 DEF ValuesInv
    <2>2. ASSUME NEW e \in Used
          PROVE  now[e] < Depth => \/ datum'[e].needPush \/ datum'[e].pushed
                                   \/ e \in setWithin[Depth + 1]
      BY <1>5, <1>8
    <2>3. ~(now[d] < Depth)
      BY <1>3, <1>8
    <2> QED
      BY <1>3, <1>4, <1>5, <1>9, <2>1, <2>2, <2>3 DEF ValuesInv
  <1> QED
    BY <1>3, <1>6, <1>8, <1>9, <1>12, <1>13 DEF IInv

\* Linking names, which is done before the first push, keeps the invariant.
LEMMA LinkKeeps ==
    ASSUME IInv, Rules, NEW source \in Names, NEW target \in Names, LinkNode(source, target)
    PROVE  IInv' /\ saved' = saved /\ DOMAIN index \subseteq DOMAIN index'
  <1>1. DataInv /\ IndexInv /\ HistoryInv
    BY DEF IInv
  <1>2. PICK made \in [1..Len(Order) -> 0..Depth] : MadeInv(made) /\ ValuesInv(made)
    BY DEF IInv
  <1>3. /\ Depth = 0 /\ Depth' = Depth /\ source \in DOMAIN index /\ source # "box"
        /\ target # "box" /\ UNCHANGED <<datum, saved, setHere, setWithin>>
        /\ index' = [m \in DOMAIN index \cup {target} |->
                        IF m = target THEN index[source] ELSE index[m]]
    BY DEF LinkNode, MayLink, Rules, Depth
  <1>4. DataInv' /\ HistoryInv'
    BY <1>1, <1>3 DEF DataInv, HistoryInv
  <1>5. IndexInv'
    BY <1>1, <1>3 DEF IndexInv
  <1>6. \A e \in 1..Len(Order) : made[e] = 0
    <2>1. \A e \in 0..0 : e = 0
      OBVIOUS
    <2> QED
      BY <1>2, <1>3, <2>1
  <1>7. Used' \subseteq Used
    BY <1>3 DEF Used
  <1>8. MadeInv(made)'
    <2>1. ASSUME NEW e \in Used'
          PROVE  /\ datum[e].stackFrame = 1 + Sharing(e)' * (0 - made[e])
                 /\ made[e] = 0
      <3>1. e \in Used /\ e \in 1..Len(Order) /\ made[e] = 0 /\ datum[e].stackFrame = 1
        BY <1>1, <1>2, <1>3, <1>6, <1>7, NamesOfUsed, Frames
      <3>2. Sharing(e)' \in Nat
        <4>1. NamesOf(e)' \in SUBSET (1..Len(Order))
          BY DEF NamesOf, Places
        <4>2. IsFiniteSet(NamesOf(e)')
          BY <4>1, PlacesOfNames, HowMany, FS_Subset
        <4> QED
          BY <4>2, FS_CardinalityType DEF Sharing
      <3>3. Sharing(e)' * (0 - made[e]) = 0
        BY ONLY <3>1, <3>2
      <3> QED
        BY ONLY <3>1, <3>3
    <2>2. \A m \in DOMAIN index' : made[index'[m]] = 0
      BY <1>5, <1>6 DEF IndexInv
    <2>3. \A i \in 1..0 : FALSE
      OBVIOUS
    <2> QED
      BY <1>3, <2>1, <2>2, <2>3 DEF MadeInv
  <1>9. ValuesInv(made)'
    <2>1. \A i \in 1..0 : FALSE
      OBVIOUS
    <2> QED
      BY <1>2, <1>3, <1>7, <2>1 DEF ValuesInv
  <1> QED
    BY <1>2, <1>3, <1>4, <1>5, <1>8, <1>9 DEF IInv
-----------------------------------------------------------------------------
(* The theorems.                                                           *)

\* The invariant holds at first: nothing is saved, and all data were made then.
LEMMA InitInv ==
    ASSUME Init
    PROVE  IInv
  <1>1. Len(Order) \in Nat /\ MaxDepth \in Nat
    BY PlacesOfNames, IndexStateAssumption
  <1>2. /\ Depth = 0 /\ saved = <<>> /\ setHere = <<{}>> /\ setWithin = <<{}>>
    BY DEF Init, Depth
  <1>3. /\ datum = [d \in 1..Len(Order) |->
                        New(IF Order[d] = "box" THEN {} ELSE CHOOSE v \in Values : TRUE)]
        /\ Data = 1..Len(Order)
    BY DEF Init, Data
  <1>4. ASSUME NEW d \in 1..Len(Order)
        PROVE  /\ Sound(datum[d], Content(d)) /\ ~datum[d].pushed
               /\ datum[d].stackFrame = 1
    <2> DEFINE v == IF Order[d] = "box" THEN {} ELSE CHOOSE x \in Values : TRUE
    <2>1. v \in Content(d) /\ datum[d] = New(v)
      BY <1>3, IndexStateAssumption DEF Content
    <2> HIDE DEF v
    <2> QED
      BY <2>1, NewSound, Contains
  <1>5. DataInv
    BY <1>3, <1>4 DEF DataInv, Sound
  <1>6. PICK present \in SUBSET Names :
            /\ index = [n \in present |-> CHOOSE d \in Data : Order[d] = n]
            /\ "box" \in Names => "box" \in present
    BY DEF Init
  <1>7. \A n \in present : index[n] \in 1..Len(Order) /\ Order[index[n]] = n
    BY <1>3, <1>6, PlacesOfNames
  <1>8. IndexInv
    BY <1>6, <1>7 DEF IndexInv
  <1>9. HistoryInv
    <2>1. saved \in Seq(States)
      BY <1>2
    <2>2. {} \in SUBSET (1..Len(Order))
      OBVIOUS
    <2>3. /\ <<{}>> \in Seq(SUBSET (1..Len(Order))) /\ Len(<<{}>>) = 1
      BY <2>2
    <2>4. \A i \in 1..0 : FALSE
      OBVIOUS
    <2> QED
      BY <1>1, <1>2, <2>1, <2>3, <2>4 DEF HistoryInv
  <1>10. PICK made : made = [d \in 1..Len(Order) |-> 0]
    OBVIOUS
  <1>11. made \in [1..Len(Order) -> 0..Depth] /\ \A d \in 1..Len(Order) : made[d] = 0
    BY <1>2, <1>10
  <1>12. \A i \in 1..Depth : FALSE
    BY <1>2
  <1>13. MadeInv(made)
    <2>1. ASSUME NEW d \in Used
          PROVE  datum[d].stackFrame = 1 + Sharing(d) * (Depth - made[d]) /\ made[d] = 0
      <3>1. d \in 1..Len(Order) /\ Sharing(d) \in Nat /\ made[d] = 0
        BY <1>1, <1>8, <1>11, NamesOfUsed
      <3>2. Sharing(d) * (0 - 0) = 0
        BY <3>1
      <3> QED
        BY <1>2, <1>4, <3>1, <3>2
    <2>2. \A n \in DOMAIN index : made[index[n]] = 0
      BY <1>8, <1>11 DEF IndexInv
    <2> QED
      BY <1>12, <2>1, <2>2 DEF MadeInv
  <1>14. ValuesInv(made)
    <2>1. \A d \in Used : ~datum[d].pushed /\ ~(made[d] < Depth)
      BY <1>2, <1>4, <1>8, <1>11, NamesOfUsed
    <2> QED
      BY <1>12, <2>1 DEF ValuesInv
  <1> QED
    BY <1>5, <1>8, <1>9, <1>11, <1>13, <1>14 DEF IInv

\* Every step keeps the invariant.
LEMMA NextInv ==
    ASSUME IInv, Rules, [Next]_vars
    PROVE  IInv'
  <1>1. CASE PushState
    BY <1>1, PushKeeps
  <1>2. CASE PopState
    BY <1>2, PopKeeps
  <1>3. CASE \E n \in Names, v \in Values : Overwrite(n, v) \/ Add(n, v)
    BY <1>3, OverwriteKeeps, AddKeeps
  <1>4. CASE \E source, target \in Names : LinkNode(source, target)
    BY <1>4, LinkKeeps
  <1>5. CASE UNCHANGED vars
    <2>1. PICK made \in [1..Len(Order) -> 0..Depth] : MadeInv(made) /\ ValuesInv(made)
      BY DEF IInv
    <2>2. Depth' = Depth /\ UNCHANGED <<index, datum, saved, setHere, setWithin>>
      BY <1>5 DEF vars, Depth
    <2>3. DataInv' /\ IndexInv' /\ HistoryInv'
      BY <2>2 DEF IInv, DataInv, IndexInv, HistoryInv
    <2>4. MadeInv(made)' /\ ValuesInv(made)'
      BY <2>1, <2>2, SameNames DEF MadeInv, ValuesInv
    <2> QED
      BY <2>1, <2>2, <2>3, <2>4 DEF IInv
  <1> QED
    BY <1>1, <1>2, <1>3, <1>4, <1>5 DEF Next

\* The invariant implies the type invariant.
LEMMA InvType ==
    ASSUME IInv
    PROVE  TypeOK
  <1>1. Data = 1..Len(Order) /\ MaxDepth \in Nat
    BY IndexStateAssumption DEF Data, IInv, DataInv
  <1>2. ASSUME NEW d \in Data
        PROVE  /\ datum[d].value \in Seq(IF Order[d] = "box" THEN SUBSET Inside ELSE Values)
               /\ Len(datum[d].value) \in 1..(MaxDepth + 1)
               /\ datum[d].needPush \in BOOLEAN /\ datum[d].pushed \in BOOLEAN
               /\ datum[d].stackFrame \in 0..(1 + MaxDepth * Len(Order))
    <2>1. Sound(datum[d], Content(d))
      BY <1>1 DEF IInv, DataInv
    <2>2. datum[d].needPush \in BOOLEAN /\ datum[d].pushed \in BOOLEAN
      BY <2>1, DatumFields DEF Sound
    <2>3. Len(datum[d].value) \in 1..(MaxDepth + 1)
      BY <1>1, <2>1 DEF Sound
    <2> QED
      BY <2>1, <2>2, <2>3 DEF Sound, Content
  <1> QED
    BY <1>1, <1>2 DEF TypeOK, IInv, IndexInv

\* VRDataIndex keeps its types under both rules: the counters of the data stay between 0
\* and what MaxDepth pushes of all names make, and no datum stacks values without bound.
\* (Without the rule on links a counter can become negative.)
THEOREM TypeCorrect ==
    ASSUME Rules
    PROVE  Spec => []TypeOK
  <1>1. Init => IInv
    BY InitInv
  <1>2. IInv /\ [Next]_vars => IInv'
    BY NextInv
  <1>3. IInv => TypeOK
    BY InvType
  <1> QED
    BY <1>1, <1>2, <1>3, PTL DEF Spec

-----------------------------------------------------------------------------
(* pushState and popState keep their promise.                              *)

\* The stack of the abstract specification.
LEMMA StackTop ==
    ASSUME NEW s \in Seq(States), NEW c \in States
    PROVE  /\ Append(s, c) \in Seq(States) /\ Len(Append(s, c)) = Len(s) + 1
           /\ Append(s, c)[Len(Append(s, c))] = c
           /\ SubSeq(Append(s, c), 1, Len(Append(s, c)) - 1) = s
           /\ \A b \in States : [Append(s, c) EXCEPT ![Len(Append(s, c))] = b] = Append(s, b)
           /\ Len(s) > 0 => Append(SubSeq(s, 1, Len(s) - 1), s[Len(s)]) = s
  <1>1. Len(s) \in Nat
    BY LenProperties
  <1> DEFINE a == Append(s, c)
  <1>2. /\ a \in Seq(States) /\ Len(a) = Len(s) + 1 /\ a[Len(s) + 1] = c
        /\ \A i \in 1..Len(s) : a[i] = s[i]
    BY AppendProperties
  <1> HIDE DEF a
  <1>3. SubSeq(a, 1, Len(a) - 1) = s
    <2>1. Len(a) - 1 = Len(s) /\ \A i \in 1..Len(s) : a[i] \in States
      BY <1>1, <1>2, ElementOfSeq
    <2> DEFINE r == SubSeq(a, 1, Len(s))
    <2>2. r \in Seq(States) /\ Len(r) = Len(s) /\ \A i \in 1..Len(s) : r[i] = a[i]
      <3>1. /\ 1 \in Int /\ Len(s) \in Int /\ \A i \in 1..Len(s) : a[i] \in States
        BY <1>1, <2>1
      <3>2. /\ r \in Seq(States) /\ Len(r) = IF 1 <= Len(s) THEN Len(s) - 1 + 1 ELSE 0
            /\ \A i \in 1..(Len(s) - 1 + 1) : r[i] = a[1 + i - 1]
        BY ONLY <3>1, SubSeqProperties
      <3> QED
        BY <1>1, <3>2
    <2> HIDE DEF r
    <2>3. r = s
      BY <1>2, <2>2, SeqEqual
    <2> QED
      BY <2>1, <2>3 DEF r
  <1>4. ASSUME NEW b \in States PROVE [a EXCEPT ![Len(a)] = b] = Append(s, b)
    <2> DEFINE x == [a EXCEPT ![Len(s) + 1] = b]
               y == Append(s, b)
    <2>1. /\ x \in Seq(States) /\ Len(x) = Len(s) + 1
          /\ \A j \in 1..(Len(s) + 1) : x[j] = IF j = Len(s) + 1 THEN b ELSE a[j]
      BY <1>1, <1>2, ExceptSeq
    <2>2. /\ y \in Seq(States) /\ Len(y) = Len(s) + 1 /\ y[Len(s) + 1] = b
          /\ \A i \in 1..Len(s) : y[i] = s[i]
      BY AppendProperties
    <2> HIDE DEF x, y
    <2>3. x = y
      BY <1>1, <1>2, <2>1, <2>2, SeqEqual
    <2> QED
      BY <1>2, <2>3 DEF x, y
  <1>5. Len(s) > 0 => Append(SubSeq(s, 1, Len(s) - 1), s[Len(s)]) = s
    <2> SUFFICES ASSUME Len(s) > 0 PROVE Append(SubSeq(s, 1, Len(s) - 1), s[Len(s)]) = s
      OBVIOUS
    <2> DEFINE r == SubSeq(s, 1, Len(s) - 1)
               z == Append(r, s[Len(s)])
    <2>1. /\ \A i \in 1..(Len(s) - 1) : s[i] \in States
          /\ s[Len(s)] \in States /\ Len(s) - 1 \in Nat
      BY <1>1, ElementOfSeq
    <2>2. /\ r \in Seq(States) /\ Len(r) = Len(s) - 1
          /\ \A i \in 1..(Len(s) - 1) : r[i] = s[i]
      <3> DEFINE l == Len(s) - 1
      <3>1. l \in Nat /\ 1 \in Int /\ l \in Int /\ \A i \in 1..l : s[i] \in States
        BY <2>1
      <3> HIDE DEF l
      <3>2. /\ SubSeq(s, 1, l) \in Seq(States)
            /\ Len(SubSeq(s, 1, l)) = IF 1 <= l THEN l - 1 + 1 ELSE 0
            /\ \A i \in 1..(l - 1 + 1) : SubSeq(s, 1, l)[i] = s[1 + i - 1]
        BY ONLY <3>1, SubSeqProperties
      <3>3. /\ Len(SubSeq(s, 1, l)) = l /\ \A i \in 1..l : SubSeq(s, 1, l)[i] = s[i]
        BY <3>1, <3>2
      <3> QED
        BY <3>2, <3>3 DEF l
    <2> HIDE DEF r
    <2>3. /\ z \in Seq(States) /\ Len(z) = Len(r) + 1 /\ z[Len(r) + 1] = s[Len(s)]
          /\ \A i \in 1..Len(r) : z[i] = r[i]
      BY <2>1, <2>2, AppendProperties
    <2> HIDE DEF z
    <2>4. z = s
      BY <1>1, <2>1, <2>2, <2>3, SeqEqual
    <2> QED
      BY <2>4 DEF z, r
  <1> QED
    BY <1>2, <1>3, <1>4, <1>5 DEF a

\* Every step is a push, a pop or a change of the abstract stack, or does not touch it.
LEMMA StepRefines ==
    ASSUME IInv, IInv', Rules, [Next]_vars
    PROVE  [Stack!Next]_(Append(saved, Contents))
  <1>1. /\ saved \in Seq(States) /\ Contents \in States /\ DOMAIN Contents = DOMAIN index
    BY ContentsSaved DEF IInv, HistoryInv
  <1>2. saved' \in Seq(States) /\ Contents' \in States /\ DOMAIN Contents' = DOMAIN index'
    <2>1. DataInv' /\ IndexInv' /\ HistoryInv'
      BY DEF IInv
    <2>2. (DataInv /\ IndexInv => Contents \in States /\ DOMAIN Contents = DOMAIN index)'
      BY ContentsSaved, PTL
    <2> QED
      BY <2>1, <2>2 DEF HistoryInv
  <1> DEFINE stack == Append(saved, Contents)
  <1>3. stack[Len(stack)] = Contents /\ (stack[Len(stack)])' = Contents'
    BY <1>1, <1>2, StackTop
  <1>4. CASE PushState
    <2>1. saved' = stack /\ Contents' = Contents
      BY <1>4, PushKeeps DEF PushState
    <2>2. stack' = Append(stack, Contents)
      BY <2>1
    <2> QED
      BY <1>3, <2>2 DEF Stack!Next, Stack!Push, Stack!Present
  <1>5. CASE PopState
    <2>1. Contents' = saved[Depth] /\ saved' = SubSeq(saved, 1, Depth - 1) /\ Depth > 0
      BY <1>5, PopKeeps DEF PopState
    <2>2. stack' = saved /\ Len(stack) > 1 /\ SubSeq(stack, 1, Len(stack) - 1) = saved
      BY <1>1, <2>1, StackTop, LenProperties DEF Depth
    <2> QED
      BY <2>2 DEF Stack!Next, Stack!Pop
  <1>6. ASSUME saved' = saved, DOMAIN index \subseteq DOMAIN index' PROVE Stack!Change
    <2>1. stack' = [stack EXCEPT ![Len(stack)] = Contents']
      BY <1>1, <1>2, <1>6, StackTop
    <2>2. DOMAIN Contents \subseteq DOMAIN Contents'
      BY <1>1, <1>2, <1>6
    <2> QED
      BY <1>3, <2>1, <2>2 DEF Stack!Change, Stack!Present
  <1>7. CASE \E n \in Names, v \in Values : Overwrite(n, v) \/ Add(n, v)
    BY <1>6, <1>7, OverwriteKeeps, AddKeeps DEF Stack!Next
  <1>8. CASE \E source, target \in Names : LinkNode(source, target)
    BY <1>6, <1>8, LinkKeeps DEF Stack!Next
  <1>9. CASE UNCHANGED vars
    BY <1>9 DEF vars, Contents, ContentsOf
  <1> QED
    BY <1>4, <1>5, <1>7, <1>8, <1>9 DEF Next

\* pushState and popState do what the header says of them, under both rules: popState
\* brings back the names and values of the matching pushState, whatever was added and set
\* in between, at any depth; a push changes no value, and a change no saved one.
THEOREM Refinement ==
    ASSUME Rules
    PROVE  Spec => RestoresState
  <1>1. Init => IInv /\ Stack!Init
    <2>1. Init => saved = <<>> /\ Len(Append(<<>>, Contents)) = 1
      BY DEF Init
    <2> QED
      BY <2>1, InitInv DEF Stack!Init
  <1>2. IInv /\ [Next]_vars => IInv'
    BY NextInv
  <1>3. IInv /\ IInv' /\ [Next]_vars => [Stack!Next]_(Append(saved, Contents))
    BY StepRefines
  <1> QED
    BY <1>1, <1>2, <1>3, PTL DEF Spec, RestoresState, Stack!Spec
=============================================================================
