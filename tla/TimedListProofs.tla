--------------------------- MODULE TimedListProofs ---------------------------
(***************************************************************************)
(* Lemmas about lists of events: what inserting and merging do to their    *)
(* order and to the events of each node.  Merge and From are recursive     *)
(* functions, so most of it is by induction on the length of a list, here  *)
(* from the well-foundedness of the natural numbers.                       *)
(***************************************************************************)
EXTENDS TimedList, FiniteSetTheorems, SequenceTheorems, TLAPS

\* A set of natural numbers has a least element.
LEMMA LeastOf ==
    ASSUME NEW T \in SUBSET Nat, T # {}
    PROVE  \E m \in T : \A k \in T : m <= k
  <1>1. IsWellFoundedOn(OpToRel(<, Nat), Nat)
    BY NatLessThanWellFounded
  <1>2. PICK m \in T : \A k \in T : ~(<<k, m>> \in OpToRel(<, Nat))
    BY <1>1, WFMin
  <1>3. \A k \in T : ~(k < m)
    BY <1>2 DEF OpToRel
  <1> QED
    BY <1>3

\* Induction, for a property that is given as a set of numbers.
LEMMA SetInduction ==
    ASSUME NEW S, 0 \in S, \A n \in Nat : n \in S => n + 1 \in S
    PROVE  \A n \in Nat : n \in S
  <1> SUFFICES ASSUME NEW n \in Nat, n \notin S PROVE FALSE
    OBVIOUS
  <1> DEFINE T == {m \in Nat : m \notin S}
  <1>1. PICK m \in T : \A k \in T : m <= k
    BY LeastOf, T # {}
  <1>2. m # 0 /\ m - 1 \in Nat
    OBVIOUS
  <1>3. m - 1 \in S
    BY <1>1, <1>2
  <1> QED
    BY <1>1, <1>2, <1>3

-----------------------------------------------------------------------------
(* Sequences and functions on 1..n.                                        *)

\* A function on 1..n is a sequence of length n.
LEMMA FunctionIsSeq ==
    ASSUME NEW T, NEW n \in Nat, NEW f \in [1..n -> T]
    PROVE  f \in Seq(T) /\ Len(f) = n
  OBVIOUS

\* A sequence is equal to the function on its places that has its elements.
LEMMA SameSeq ==
    ASSUME NEW T, NEW s \in Seq(T), NEW n \in Nat, Len(s) = n,
           NEW f \in [1..n -> T], \A i \in 1..n : s[i] = f[i]
    PROVE  s = f
  BY FunctionIsSeq, LenProperties

\* Appending to the second of two sequences appends to both.
LEMMA AppendOfConcat ==
    ASSUME NEW T, NEW s \in Seq(T), NEW t \in Seq(T), NEW e \in T
    PROVE  s \o Append(t, e) = Append(s \o t, e)
  <1>1. <<e>> \in Seq(T) /\ s \o t \in Seq(T)
    BY ConcatProperties
  <1> QED
    BY <1>1, AppendIsConcat, ConcatAssociative

\* Induction over the sequences on a set, for a property that is given as a set of
\* sequences.
LEMMA ListInduction ==
    ASSUME NEW T, NEW S, <<>> \in S,
           \A list \in Seq(T), e \in T : list \in S => Append(list, e) \in S
    PROVE  \A list \in Seq(T) : list \in S
  <1> DEFINE N == {n \in Nat : \A list \in Seq(T) : Len(list) = n => list \in S}
  <1>1. 0 \in N
    BY EmptySeq
  <1>2. ASSUME NEW n \in Nat, n \in N PROVE n + 1 \in N
    <2> SUFFICES ASSUME NEW list \in Seq(T), Len(list) = n + 1 PROVE list \in S
      OBVIOUS
    <2>1. list # <<>>
      BY EmptySeq
    <2>2. PICK front \in Seq(T), e \in T : list = Append(front, e)
      BY <2>1, SequenceEmptyOrAppend
    <2>3. Len(front) = n
      BY <2>2, AppendProperties, LenProperties
    <2> QED
      BY <1>2, <2>2, <2>3
  <1>3. \A n \in Nat : n \in N
    <2> HIDE DEF N
    <2> QED BY <1>1, <1>2, SetInduction
  <1> QED
    BY <1>3, LenProperties

-----------------------------------------------------------------------------
(* Time order.                                                             *)

\* Entries with integer time stamps.
Timed(T) == \A e \in T : e.time \in Int

\* In a list in time order the entries that are not later than a time are the
\* first ones, and NotLater says how many they are.
LEMMA NotLaterFirst ==
    ASSUME NEW T, Timed(T), NEW list \in Seq(T), InTimeOrder(list), NEW t \in Int
    PROVE  /\ NotLater(list, t) \in 0..Len(list)
           /\ \A i \in DOMAIN list : list[i].time <= t <=> i <= NotLater(list, t)
  <1> DEFINE P == {i \in DOMAIN list : list[i].time <= t}
             L == {j \in 1..(Len(list) + 1) : j \notin P}
  <1>1. L \in SUBSET Nat /\ Len(list) + 1 \in L
    OBVIOUS
  <1>2. PICK m \in L : \A k \in L : m <= k
    <2> HIDE DEF L
    <2> QED BY <1>1, LeastOf
  <1>3. m \in 1..(Len(list) + 1)
    BY <1>2
  <1>4. \A i \in DOMAIN list : i < m => i \in P
    BY <1>2, <1>3
  <1>5. \A i \in DOMAIN list : list[i] \in T /\ list[i].time \in Int
    BY DEF Timed
  <1>6. \A i \in DOMAIN list : i >= m => i \notin P
    BY <1>2, <1>3, <1>5 DEF InTimeOrder
  <1>7. P = 1..(m - 1)
    BY <1>3, <1>4, <1>6
  <1>8. NotLater(list, t) = Cardinality(P)
    BY DEF NotLater
  <1> HIDE DEF P
  <1>9. Cardinality(P) = m - 1
    <2>1. Cardinality(1..(m - 1)) = IF 1 > m - 1 THEN 0 ELSE (m - 1) - 1 + 1
      BY <1>3, FS_Interval
    <2> QED
      BY <1>3, <1>7, <2>1
  <1>10. \A i \in DOMAIN list : list[i].time <= t <=> i \in P
    BY DEF P
  <1> QED
    BY <1>3, <1>7, <1>8, <1>9, <1>10

\* What Insert makes of a list in time order, place by place: the new entry is
\* behind all that are not later.
LEMMA InsertPlaces ==
    ASSUME NEW T, Timed(T), NEW list \in Seq(T), InTimeOrder(list), NEW e \in T
    PROVE  LET k == NotLater(list, e.time)
           IN  /\ k \in 0..Len(list)
               /\ Insert(list, e) \in Seq(T)
               /\ Len(Insert(list, e)) = Len(list) + 1
               /\ Insert(list, e) =
                    [i \in 1..(Len(list) + 1) |->
                        IF i <= k THEN list[i] ELSE IF i = k + 1 THEN e ELSE list[i - 1]]
  <1> DEFINE k == NotLater(list, e.time)
  <1>1. k \in 0..Len(list)
    BY NotLaterFirst DEF Timed
  <1> HIDE DEF k
  <1> DEFINE front == SubSeq(list, 1, k)
             rest  == SubSeq(list, k + 1, Len(list))
             begun == front \o <<e>>
             whole == [i \in 1..(Len(list) + 1) |->
                        IF i <= k THEN list[i] ELSE IF i = k + 1 THEN e ELSE list[i - 1]]
  <1>2. front \in Seq(T) /\ Len(front) = k /\ \A i \in 1..k : front[i] = list[i]
    BY <1>1, SubSeqProperties
  <1>3. rest \in Seq(T) /\ Len(rest) = Len(list) - k
        /\ \A i \in 1..(Len(list) - k) : rest[i] = list[i + k]
    BY <1>1, SubSeqProperties
  <1>4. Insert(list, e) = begun \o rest
    BY DEF Insert, k
  <1> HIDE DEF front, rest
  <1>5. begun \in Seq(T) /\ Len(begun) = k + 1 /\ begun[k + 1] = e
        /\ \A i \in 1..k : begun[i] = list[i]
    <2>1. <<e>> \in Seq(T) /\ Len(<<e>>) = 1 /\ <<e>>[1] = e
      OBVIOUS
    <2> QED
      BY <1>1, <1>2, <2>1, ConcatProperties
  <1> HIDE DEF begun
  <1>6. /\ begun \o rest \in Seq(T)
        /\ Len(begun \o rest) = Len(list) + 1
        /\ \A i \in 1..(Len(list) + 1) : (begun \o rest)[i] =
                IF i <= k + 1 THEN begun[i] ELSE rest[i - (k + 1)]
    BY <1>1, <1>3, <1>5, ConcatProperties
  <1>7. ASSUME NEW i \in 1..(Len(list) + 1)
        PROVE  (begun \o rest)[i] = whole[i] /\ whole[i] \in T
    <2>1. (begun \o rest)[i] \in T
      BY <1>6, ElementOfSeq
    <2>2. CASE i <= k + 1
      BY <1>1, <1>5, <1>6, <2>1, <2>2
    <2>3. CASE i > k + 1
      <3>1. (begun \o rest)[i] = rest[i - (k + 1)] /\ whole[i] = list[i - 1]
        BY <1>1, <1>6, <2>3
      <3>2. i - (k + 1) \in 1..(Len(list) - k) /\ i - (k + 1) + k = i - 1
        BY <1>1, <2>3
      <3> QED
        BY <1>3, <2>1, <3>1, <3>2
    <2>4. i <= k + 1 \/ i > k + 1
      BY <1>1
    <2> QED
      BY <2>2, <2>3, <2>4
  <1>8. begun \o rest = whole
    <2>1. whole \in [1..(Len(list) + 1) -> T]
      BY <1>7
    <2> HIDE DEF whole
    <2> QED
      BY <1>6, <1>7, <2>1, SameSeq, LenProperties
  <1> QED
    BY <1>1, <1>4, <1>6, <1>8 DEF k

\* Inserting keeps the order.
LEMMA InsertOrdered ==
    ASSUME NEW T, Timed(T), NEW list \in Seq(T), InTimeOrder(list), NEW e \in T
    PROVE  InTimeOrder(Insert(list, e))
  <1> DEFINE k == NotLater(list, e.time)
  <1>1. k \in 0..Len(list)
        /\ \A i \in DOMAIN list : list[i].time <= e.time <=> i <= k
    BY NotLaterFirst DEF Timed
  <1>2. Insert(list, e) = [i \in 1..(Len(list) + 1) |->
            IF i <= k THEN list[i] ELSE IF i = k + 1 THEN e ELSE list[i - 1]]
    BY InsertPlaces
  <1>3. DOMAIN list = 1..Len(list) /\ Len(list) \in Nat
    BY LenProperties
  <1>4. e.time \in Int /\ \A i \in 1..Len(list) : list[i].time \in Int
    BY DEF Timed
  <1> HIDE DEF k
  <1> SUFFICES ASSUME NEW i \in 1..(Len(list) + 1), NEW j \in 1..(Len(list) + 1), i < j
               PROVE  Insert(list, e)[i].time <= Insert(list, e)[j].time
    BY <1>2 DEF InTimeOrder
  <1>5. CASE i <= k /\ j <= k
    BY <1>1, <1>2, <1>3, <1>5 DEF InTimeOrder
  <1>6. CASE i <= k /\ j = k + 1
    BY <1>1, <1>2, <1>3, <1>6
  <1>7. CASE i <= k /\ j > k + 1
    BY <1>1, <1>2, <1>3, <1>7 DEF InTimeOrder
  <1>8. CASE i = k + 1
    <2>1. Insert(list, e)[i] = e /\ Insert(list, e)[j] = list[j - 1]
      BY <1>1, <1>2, <1>3, <1>8
    <2>2. j - 1 \in 1..Len(list) /\ ~(j - 1 <= k)
      BY <1>1, <1>3, <1>8
    <2> QED
      BY <1>1, <1>3, <1>4, <2>1, <2>2
  <1>9. CASE i > k + 1
    BY <1>1, <1>2, <1>3, <1>9 DEF InTimeOrder
  <1> QED
    BY <1>1, <1>3, <1>5, <1>6, <1>7, <1>8, <1>9

\* An entry that is not earlier than the others comes last.
LEMMA InsertLast ==
    ASSUME NEW T, Timed(T), NEW list \in Seq(T), InTimeOrder(list), NEW e \in T,
           \A i \in DOMAIN list : list[i].time <= e.time
    PROVE  Insert(list, e) = Append(list, e)
  <1>1. NotLater(list, e.time) = Len(list)
    <2>1. NotLater(list, e.time) \in 0..Len(list)
          /\ \A i \in DOMAIN list : list[i].time <= e.time <=> i <= NotLater(list, e.time)
      BY NotLaterFirst DEF Timed
    <2>2. CASE Len(list) = 0
      BY <2>1, <2>2
    <2>3. CASE Len(list) # 0
      <3>1. Len(list) \in DOMAIN list
        BY <2>3, LenProperties
      <3> QED
        BY <2>1, <3>1
    <2> QED
      BY <2>2, <2>3
  <1>2. Len(list) \in Nat
    BY LenProperties
  <1>3. Insert(list, e) = [i \in 1..(Len(list) + 1) |->
            IF i <= Len(list) THEN list[i] ELSE IF i = Len(list) + 1 THEN e ELSE list[i - 1]]
    BY <1>1, InsertPlaces
  <1>4. Append(list, e) \in Seq(T) /\ Len(Append(list, e)) = Len(list) + 1
        /\ \A i \in 1..(Len(list) + 1) : Append(list, e)[i] = Insert(list, e)[i]
    BY <1>2, <1>3, AppendProperties
  <1>5. Insert(list, e) \in Seq(T) /\ Len(Insert(list, e)) = Len(list) + 1
    BY InsertPlaces
  <1> QED
    BY <1>4, <1>5, SeqEqual

-----------------------------------------------------------------------------
(* The events of one node.                                                 *)

\* The function that From defines by recursion exists, and From is its last value.
LEMMA FromFunction ==
    ASSUME NEW list, Len(list) \in Nat, NEW n
    PROVE  \E f : /\ f[0] = <<>>
                  /\ \A i \in 0..(Len(list) - 1) :
                        f[i + 1] = IF list[i + 1].item.id[1] = n THEN Append(f[i], list[i + 1])
                                   ELSE f[i]
                  /\ From(list, n) = f[Len(list)]
  <1> DEFINE Step(p, i) == IF list[i].item.id[1] = n THEN Append(p, list[i]) ELSE p
             Is(f, m)   == f = [i \in 0..m |-> IF i = 0 THEN <<>> ELSE Step(f[i - 1], i)]
             S == {m \in Nat : \E f : Is(f, m)}
  <1>1. 0 \in S
    <2> DEFINE f == [i \in 0..0 |-> <<>>]
    <2>1. f = [i \in 0..0 |-> IF i = 0 THEN <<>> ELSE Step(f[i - 1], i)]
      OBVIOUS
    <2>2. \E h : Is(h, 0)
      <3> HIDE DEF f, Step
      <3> QED BY ONLY <2>1
    <2> QED
      BY <2>2
  <1>2. ASSUME NEW m \in Nat, m \in S PROVE m + 1 \in S
    <2>1. PICK f : Is(f, m)
      BY <1>2
    <2> DEFINE g == [i \in 0..(m + 1) |-> IF i = m + 1 THEN Step(f[m], m + 1) ELSE f[i]]
    <2> HIDE DEF Step
    <2>2. g = [i \in 0..(m + 1) |-> IF i = 0 THEN <<>> ELSE Step(g[i - 1], i)]
      BY <2>1
    <2>3. \E h : Is(h, m + 1)
      <3> HIDE DEF g
      <3> QED BY ONLY <2>2
    <2> QED
      BY <2>3
  <1>3. Len(list) \in S
    <2> HIDE DEF S
    <2> QED BY <1>1, <1>2, SetInduction
  <1> DEFINE kept == CHOOSE f : Is(f, Len(list))
  <1>4. Is(kept, Len(list))
    <2> HIDE DEF Is
    <2> QED BY <1>3
  <1>5. From(list, n) = kept[Len(list)]
    BY DEF From
  <1> HIDE DEF kept
  <1>6. kept[0] = <<>>
    BY <1>4
  <1>7. ASSUME NEW i \in 0..(Len(list) - 1)
        PROVE  kept[i + 1] = IF list[i + 1].item.id[1] = n THEN Append(kept[i], list[i + 1])
                             ELSE kept[i]
    <2>1. i + 1 \in 0..Len(list) /\ i + 1 # 0 /\ (i + 1) - 1 = i
      OBVIOUS
    <2>2. kept[i + 1] = Step(kept[(i + 1) - 1], i + 1)
      <3> HIDE DEF Step
      <3> QED BY <1>4, <2>1
    <2> QED
      BY <2>1, <2>2
  <1> QED
    BY <1>5, <1>6, <1>7

\* Of an empty list it is nothing.
LEMMA FromEmpty ==
    ASSUME NEW n PROVE From(<<>>, n) = <<>>
  <1> DEFINE none == <<>>
  <1>1. Len(none) \in Nat /\ Len(none) = 0
    OBVIOUS
  <1> HIDE DEF none
  <1>2. PICK f : /\ f[0] = <<>>
                 /\ \A i \in 0..(Len(none) - 1) :
                        f[i + 1] = IF none[i + 1].item.id[1] = n THEN Append(f[i], none[i + 1])
                                   ELSE f[i]
                 /\ From(none, n) = f[Len(none)]
    BY <1>1, FromFunction
  <1> QED
    BY <1>1, <1>2 DEF none

\* The last entry counts if it is of the node.
LEMMA FromAppend ==
    ASSUME NEW T, NEW list \in Seq(T), NEW e \in T, NEW n
    PROVE  From(Append(list, e), n) =
                IF e.item.id[1] = n THEN Append(From(list, n), e) ELSE From(list, n)
  <1> DEFINE long == Append(list, e)
  <1>1. /\ Len(list) \in Nat /\ Len(long) = Len(list) + 1
        /\ long[Len(list) + 1] = e
        /\ \A i \in 1..Len(list) : long[i] = list[i]
    BY AppendProperties, LenProperties
  <1>2. PICK f : /\ f[0] = <<>>
                 /\ \A i \in 0..(Len(list) - 1) :
                        f[i + 1] = IF list[i + 1].item.id[1] = n THEN Append(f[i], list[i + 1])
                                   ELSE f[i]
                 /\ From(list, n) = f[Len(list)]
    <2> HIDE DEF long
    <2>1. Len(list) \in Nat
      BY <1>1
    <2> QED
      BY <2>1, FromFunction
  <1>3. PICK g : /\ g[0] = <<>>
                 /\ \A i \in 0..(Len(long) - 1) :
                        g[i + 1] = IF long[i + 1].item.id[1] = n THEN Append(g[i], long[i + 1])
                                   ELSE g[i]
                 /\ From(long, n) = g[Len(long)]
    <2> HIDE DEF long
    <2>1. Len(long) \in Nat
      BY <1>1
    <2> QED
      BY <2>1, FromFunction
  <1> DEFINE S == {i \in Nat : i <= Len(list) => g[i] = f[i]}
  <1> HIDE DEF long
  <1>4. 0 \in S
    BY <1>1, <1>2, <1>3
  <1>5. ASSUME NEW i \in Nat, i \in S PROVE i + 1 \in S
    <2> SUFFICES ASSUME i + 1 <= Len(list) PROVE g[i + 1] = f[i + 1]
      OBVIOUS
    <2>1. g[i] = f[i] /\ long[i + 1] = list[i + 1]
      BY <1>1, <1>5
    <2>2. f[i + 1] = IF list[i + 1].item.id[1] = n THEN Append(f[i], list[i + 1]) ELSE f[i]
      BY <1>2
    <2>3. g[i + 1] = IF long[i + 1].item.id[1] = n THEN Append(g[i], long[i + 1]) ELSE g[i]
      BY <1>1, <1>3
    <2> QED
      BY <2>1, <2>2, <2>3
  <1>6. Len(list) \in S
    <2> HIDE DEF S
    <2> QED BY <1>1, <1>4, <1>5, SetInduction
  <1>7. g[Len(list)] = From(list, n)
    BY <1>1, <1>2, <1>6
  <1>8. g[Len(list) + 1] = IF e.item.id[1] = n THEN Append(g[Len(list)], e) ELSE g[Len(list)]
    BY <1>1, <1>3
  <1> QED
    BY <1>1, <1>3, <1>7, <1>8 DEF long

\* Of a list of one entry.
LEMMA FromSingle ==
    ASSUME NEW e, NEW n
    PROVE  From(<<e>>, n) = IF e.item.id[1] = n THEN <<e>> ELSE <<>>
  <1>1. <<>> \in Seq({e}) /\ e \in {e}
    BY EmptySeq
  <1>2. From(Append(<<>>, e), n) =
            IF e.item.id[1] = n THEN Append(From(<<>>, n), e) ELSE From(<<>>, n)
    BY <1>1, FromAppend
  <1>3. Append(<<>>, e) = <<e>>
    OBVIOUS
  <1> QED
    BY <1>2, <1>3, FromEmpty

\* It has entries of the list only, all of the node.
LEMMA FromType ==
    ASSUME NEW T, NEW list \in Seq(T), NEW n
    PROVE  /\ From(list, n) \in Seq(T)
           /\ \A i \in 1..Len(From(list, n)) :
                  /\ From(list, n)[i].item.id[1] = n
                  /\ \E j \in 1..Len(list) : From(list, n)[i] = list[j]
  <1> DEFINE Good(l) == /\ From(l, n) \in Seq(T)
                        /\ \A i \in 1..Len(From(l, n)) :
                              /\ From(l, n)[i].item.id[1] = n
                              /\ \E j \in 1..Len(l) : From(l, n)[i] = l[j]
             S == {l \in Seq(T) : Good(l)}
  <1>1. <<>> \in S
    <2> DEFINE none == <<>>
    <2>1. From(none, n) = none /\ none \in Seq(T) /\ Len(none) = 0
      BY FromEmpty, EmptySeq
    <2> HIDE DEF none
    <2>2. Good(none)
      BY <2>1
    <2> QED
      BY <2>1, <2>2 DEF none
  <1>2. ASSUME NEW l \in Seq(T), NEW e \in T, l \in S PROVE Append(l, e) \in S
    <2> DEFINE long == Append(l, e)
    <2>1. /\ long \in Seq(T) /\ Len(l) \in Nat /\ Len(long) = Len(l) + 1
          /\ long[Len(l) + 1] = e
          /\ \A i \in 1..Len(l) : long[i] = l[i]
      BY AppendProperties, LenProperties
    <2>2. From(long, n) = IF e.item.id[1] = n THEN Append(From(l, n), e) ELSE From(l, n)
      BY FromAppend
    <2> HIDE DEF long
    <2> SUFFICES Good(long)
      BY <2>1 DEF long
    <2>3. Good(l)
      BY <1>2
    <2>4. CASE e.item.id[1] # n
      <3>1. From(long, n) = From(l, n)
        BY <2>2, <2>4
      <3>2. ASSUME NEW i \in 1..Len(From(l, n))
            PROVE  \E j \in 1..Len(long) : From(l, n)[i] = long[j]
        <4>1. PICK j \in 1..Len(l) : From(l, n)[i] = l[j]
          BY <2>3
        <4>2. j \in 1..Len(long) /\ long[j] = l[j]
          BY <2>1
        <4> QED
          BY <4>1, <4>2
      <3> QED
        BY <2>1, <2>3, <3>1, <3>2
    <2>5. CASE e.item.id[1] = n
      <3> DEFINE was == From(l, n)
      <3>1. was \in Seq(T) /\ Len(was) \in Nat
        BY <2>3, LenProperties
      <3>2. From(long, n) = Append(was, e)
        BY <2>2, <2>5
      <3>3. /\ Append(was, e) \in Seq(T) /\ Len(Append(was, e)) = Len(was) + 1
            /\ Append(was, e)[Len(was) + 1] = e
            /\ \A i \in 1..Len(was) : Append(was, e)[i] = was[i]
        BY <3>1, AppendProperties
      <3>4. \A i \in 1..Len(was) :
                  was[i].item.id[1] = n /\ \E j \in 1..Len(l) : was[i] = l[j]
        BY <2>3
      <3> HIDE DEF was
      <3>5. ASSUME NEW i \in 1..Len(was)
            PROVE  \E j \in 1..Len(long) : was[i] = long[j]
        <4>1. PICK j \in 1..Len(l) : was[i] = l[j]
          BY <3>4
        <4>2. j \in 1..Len(long) /\ long[j] = l[j]
          BY <2>1
        <4> QED
          BY <4>1, <4>2
      <3>6. Len(l) + 1 \in 1..Len(long)
        BY <2>1
      <3>7. ASSUME NEW i \in 1..(Len(was) + 1)
            PROVE  /\ Append(was, e)[i].item.id[1] = n
                   /\ \E j \in 1..Len(long) : Append(was, e)[i] = long[j]
        <4>1. CASE i \in 1..Len(was)
          BY <3>3, <3>4, <3>5, <4>1
        <4>2. CASE i = Len(was) + 1
          BY <2>1, <2>5, <3>3, <3>6, <4>2
        <4> QED
          BY <3>1, <4>1, <4>2
      <3> QED
        BY <2>1, <3>2, <3>3, <3>7
    <2> QED
      BY <2>4, <2>5
  <1>3. list \in S
    <2> HIDE DEF S
    <2> QED BY <1>1, <1>2, ListInduction
  <1> QED
    BY <1>3

\* It has all of them.
LEMMA FromComplete ==
    ASSUME NEW T, NEW list \in Seq(T), NEW n, NEW j \in 1..Len(list),
           list[j].item.id[1] = n
    PROVE  \E i \in 1..Len(From(list, n)) : From(list, n)[i] = list[j]
  <1> DEFINE Good(l) == \A k \in 1..Len(l) : l[k].item.id[1] = n
                            => \E i \in 1..Len(From(l, n)) : From(l, n)[i] = l[k]
             S == {l \in Seq(T) : Good(l)}
  <1>1. <<>> \in S
    BY EmptySeq
  <1>2. ASSUME NEW l \in Seq(T), NEW e \in T, l \in S PROVE Append(l, e) \in S
    <2> DEFINE long == Append(l, e)
    <2>1. /\ long \in Seq(T) /\ Len(l) \in Nat /\ Len(long) = Len(l) + 1
          /\ long[Len(l) + 1] = e
          /\ \A i \in 1..Len(l) : long[i] = l[i]
      BY AppendProperties, LenProperties
    <2>2. From(long, n) = IF e.item.id[1] = n THEN Append(From(l, n), e) ELSE From(l, n)
      BY FromAppend
    <2> DEFINE was == From(l, n)
    <2>3. was \in Seq(T) /\ Len(was) \in Nat
      BY FromType, LenProperties
    <2>4. /\ Len(Append(was, e)) = Len(was) + 1
          /\ Append(was, e)[Len(was) + 1] = e
          /\ \A i \in 1..Len(was) : Append(was, e)[i] = was[i]
      BY <2>3, AppendProperties
    <2>5. Good(l)
      BY <1>2
    <2> HIDE DEF long, was
    <2> SUFFICES ASSUME NEW k \in 1..Len(long), long[k].item.id[1] = n
                 PROVE  \E i \in 1..Len(From(long, n)) : From(long, n)[i] = long[k]
      BY <2>1 DEF long
    <2>6. CASE k = Len(l) + 1
      BY <2>1, <2>2, <2>3, <2>4, <2>6 DEF was
    <2>7. CASE k \in 1..Len(l)
      <3>1. PICK i \in 1..Len(was) : was[i] = long[k]
        BY <2>1, <2>5, <2>7 DEF was
      <3> QED
        BY <2>2, <2>3, <2>4, <3>1 DEF was
    <2> QED
      BY <2>1, <2>6, <2>7
  <1>3. list \in S
    <2> HIDE DEF S
    <2> QED BY <1>1, <1>2, ListInduction
  <1> QED
    BY <1>3

\* Of two lists one after the other: what is of the node in each, one after the other.
LEMMA FromConcat ==
    ASSUME NEW T, NEW first \in Seq(T), NEW second \in Seq(T), NEW n
    PROVE  From(first \o second, n) = From(first, n) \o From(second, n)
  <1> DEFINE S == {l \in Seq(T) : From(first \o l, n) = From(first, n) \o From(l, n)}
  <1>1. <<>> \in S
    BY FromEmpty, FromType, ConcatEmptySeq, EmptySeq
  <1>2. ASSUME NEW l \in Seq(T), NEW e \in T, l \in S PROVE Append(l, e) \in S
    <2>1. first \o l \in Seq(T) /\ Append(l, e) \in Seq(T)
      BY ConcatProperties, AppendProperties
    <2>2. first \o Append(l, e) = Append(first \o l, e)
      BY AppendOfConcat
    <2>3. From(Append(first \o l, e), n) =
              IF e.item.id[1] = n THEN Append(From(first \o l, n), e) ELSE From(first \o l, n)
      BY <2>1, FromAppend
    <2>4. From(Append(l, e), n) =
              IF e.item.id[1] = n THEN Append(From(l, n), e) ELSE From(l, n)
      BY FromAppend
    <2>5. From(first, n) \o Append(From(l, n), e) = Append(From(first, n) \o From(l, n), e)
      BY FromType, AppendOfConcat
    <2> QED
      BY <1>2, <2>1, <2>2, <2>3, <2>4, <2>5
  <1>3. second \in S
    <2> HIDE DEF S
    <2> QED BY <1>1, <1>2, ListInduction
  <1> QED
    BY <1>3

\* An event that is inserted leaves those of the other nodes as they are.
LEMMA InsertFromOthers ==
    ASSUME NEW T, Timed(T), NEW list \in Seq(T), InTimeOrder(list), NEW e \in T,
           NEW n, n # e.item.id[1]
    PROVE  From(Insert(list, e), n) = From(list, n)
  <1> DEFINE one   == <<e>>
             k     == NotLater(list, e.time)
             front == SubSeq(list, 1, k)
             rest  == SubSeq(list, k + 1, Len(list))
             begun == front \o one
  <1>1. k \in 0..Len(list) /\ Len(list) \in Nat
    BY NotLaterFirst, LenProperties DEF Timed
  <1>2. front \in Seq(T) /\ rest \in Seq(T) /\ one \in Seq(T) /\ begun \in Seq(T)
    BY <1>1, SubSeqProperties, ConcatProperties, LenProperties
  <1>3. Insert(list, e) = begun \o rest
    BY DEF Insert
  <1>4. From(one, n) = <<>>
    BY FromSingle
  <1>5. list = front \o rest
    <2>1. 1 \in 1..(Len(list) + 1) /\ k \in (1 - 1)..Len(list) /\ Len(list) \in k..Len(list)
      BY <1>1
    <2>2. front \o rest = SubSeq(list, 1, Len(list))
      BY <2>1, ConcatAdjacentSubSeq
    <2> QED
      BY <2>2, SubSeqFull
  <1> HIDE DEF one, front, rest, begun
  <1>6. From(front \o rest, n) = From(front, n) \o From(rest, n)
    <2>1. front \in Seq(T) /\ rest \in Seq(T)
      BY <1>2
    <2> QED
      BY <2>1, FromConcat
  <1>7. From(front \o one, n) = From(front, n) \o From(one, n)
    <2>1. front \in Seq(T) /\ one \in Seq(T)
      BY <1>2
    <2> QED
      BY <2>1, FromConcat
  <1>8. From(begun, n) = From(front, n)
    <2>1. From(front, n) \in Seq(T)
      BY <1>2, FromType
    <2> QED
      BY <1>4, <1>7, <2>1, ConcatEmptySeq DEF begun
  <1>9. From(begun \o rest, n) = From(begun, n) \o From(rest, n)
    <2>1. begun \in Seq(T) /\ rest \in Seq(T)
      BY <1>2
    <2> QED
      BY <2>1, FromConcat
  <1> QED
    BY <1>3, <1>5, <1>6, <1>8, <1>9

\* It comes after those of its own node, if none of them is later.
LEMMA InsertFromOwn ==
    ASSUME NEW T, Timed(T), NEW list \in Seq(T), InTimeOrder(list), NEW e \in T,
           NEW n, n = e.item.id[1],
           \A i \in 1..Len(From(list, n)) : From(list, n)[i].time <= e.time
    PROVE  From(Insert(list, e), n) = Append(From(list, n), e)
  <1> DEFINE one   == <<e>>
             k     == NotLater(list, e.time)
             front == SubSeq(list, 1, k)
             rest  == SubSeq(list, k + 1, Len(list))
             begun == front \o one
  <1>1. /\ k \in 0..Len(list) /\ Len(list) \in Nat
        /\ \A i \in 1..Len(list) : list[i].time <= e.time <=> i <= k
    BY NotLaterFirst, LenProperties DEF Timed
  <1>2. front \in Seq(T) /\ rest \in Seq(T) /\ one \in Seq(T) /\ begun \in Seq(T)
    BY <1>1, SubSeqProperties, ConcatProperties, LenProperties
  <1>3. Insert(list, e) = begun \o rest
    BY DEF Insert
  <1>4. From(one, n) = one
    BY FromSingle
  <1>5. list = front \o rest
    <2>1. 1 \in 1..(Len(list) + 1) /\ k \in (1 - 1)..Len(list) /\ Len(list) \in k..Len(list)
      BY <1>1
    <2>2. front \o rest = SubSeq(list, 1, Len(list))
      BY <2>1, ConcatAdjacentSubSeq
    <2> QED
      BY <2>2, SubSeqFull
  <1>6. Len(rest) = Len(list) - k /\ \A j \in 1..(Len(list) - k) : rest[j] = list[j + k]
    BY <1>1, SubSeqProperties, LenProperties
  <1> HIDE DEF one, front, rest, begun, k
  <1>7. From(rest, n) = <<>>
    <2> DEFINE late == From(rest, n)
    <2>1. /\ late \in Seq(T)
          /\ \A i \in 1..Len(late) : /\ late[i].item.id[1] = n
                                    /\ \E j \in 1..Len(rest) : late[i] = rest[j]
      BY <1>2, FromType
    <2> HIDE DEF late
    <2> SUFFICES ASSUME late # <<>> PROVE FALSE
      BY DEF late
    <2>11. 1 \in 1..Len(late)
      BY <2>1, EmptySeq
    <2>2. PICK j \in 1..Len(rest) : rest[j].item.id[1] = n
      BY <2>1, <2>11
    <2>3. j + k \in 1..Len(list) /\ list[j + k].item.id[1] = n /\ ~(j + k <= k)
      BY <1>1, <1>6, <2>2
    <2>4. \A m \in 1..Len(list) : list[m].item.id[1] = n
              => \E i \in 1..Len(From(list, n)) : From(list, n)[i] = list[m]
      BY FromComplete
    <2>5. PICK i \in 1..Len(From(list, n)) : From(list, n)[i] = list[j + k]
      BY <2>3, <2>4
    <2> QED
      BY <1>1, <2>3, <2>5
  <1>8. From(front \o rest, n) = From(front, n) \o From(rest, n)
    <2>1. front \in Seq(T) /\ rest \in Seq(T)
      BY <1>2
    <2> QED
      BY <2>1, FromConcat
  <1>9. From(list, n) = From(front, n)
    BY <1>2, <1>5, <1>7, <1>8, FromType, ConcatEmptySeq
  <1>10. From(front \o one, n) = From(front, n) \o From(one, n)
    <2>1. front \in Seq(T) /\ one \in Seq(T)
      BY <1>2
    <2> QED
      BY <2>1, FromConcat
  <1>11. From(begun \o rest, n) = From(begun, n) \o From(rest, n)
    <2>1. begun \in Seq(T) /\ rest \in Seq(T)
      BY <1>2
    <2> QED
      BY <2>1, FromConcat
  <1>12. From(Insert(list, e), n) = From(begun, n)
    BY <1>2, <1>3, <1>7, <1>11, FromType, ConcatEmptySeq
  <1> QED
    <2>1. From(front, n) \in Seq(T)
      BY <1>2, FromType
    <2>2. Append(From(front, n), e) = From(front, n) \o <<e>>
      BY <2>1, AppendIsConcat
    <2> QED
      BY <1>4, <1>9, <1>10, <1>12, <2>2 DEF one, begun

-----------------------------------------------------------------------------
(* Merging.                                                                *)

\* The function that Merge defines by recursion exists, and Merge is its last value.
LEMMA MergeFunction ==
    ASSUME NEW list, NEW new, Len(new) \in Nat
    PROVE  \E f : /\ f[0] = list
                  /\ \A i \in 0..(Len(new) - 1) : f[i + 1] = Insert(f[i], new[i + 1])
                  /\ Merge(list, new) = f[Len(new)]
  <1> DEFINE Step(p, i) == CHOOSE m \in {Insert(l, new[i]) : l \in {p}} : TRUE
             Is(f, m)   == f = [i \in 0..m |-> IF i = 0 THEN list ELSE Step(f[i - 1], i)]
             S == {m \in Nat : \E f : Is(f, m)}
  <1>1. 0 \in S
    <2> DEFINE f == [i \in 0..0 |-> list]
    <2> HIDE DEF Step
    <2>1. f = [i \in 0..0 |-> IF i = 0 THEN list ELSE Step(f[i - 1], i)]
      OBVIOUS
    <2>2. \E h : Is(h, 0)
      <3> HIDE DEF f
      <3> QED BY ONLY <2>1
    <2> QED
      BY <2>2
  <1>2. ASSUME NEW m \in Nat, m \in S PROVE m + 1 \in S
    <2>1. PICK f : Is(f, m)
      BY <1>2
    <2> DEFINE g == [i \in 0..(m + 1) |-> IF i = m + 1 THEN Step(f[m], m + 1) ELSE f[i]]
    <2> HIDE DEF Step
    <2>2. g = [i \in 0..(m + 1) |-> IF i = 0 THEN list ELSE Step(g[i - 1], i)]
      BY <2>1
    <2>3. \E h : Is(h, m + 1)
      <3> HIDE DEF g
      <3> QED BY ONLY <2>2
    <2> QED
      BY <2>3
  <1>3. Len(new) \in S
    <2> HIDE DEF S
    <2> QED BY <1>1, <1>2, SetInduction
  <1> DEFINE merged == CHOOSE f : Is(f, Len(new))
  <1>4. Is(merged, Len(new))
    <2> HIDE DEF Is
    <2> QED BY <1>3
  <1>5. Merge(list, new) = merged[Len(new)]
    BY DEF Merge
  <1> HIDE DEF merged
  <1>6. merged[0] = list
    BY <1>4
  <1>7. ASSUME NEW i \in 0..(Len(new) - 1)
        PROVE  merged[i + 1] = Insert(merged[i], new[i + 1])
    <2>1. i + 1 \in 0..Len(new) /\ i + 1 # 0 /\ (i + 1) - 1 = i
      OBVIOUS
    <2>2. merged[i + 1] = Step(merged[(i + 1) - 1], i + 1)
      <3> HIDE DEF Step
      <3> QED BY <1>4, <2>1
    <2>3. \A p : Step(p, i + 1) = Insert(p, new[i + 1])
      OBVIOUS
    <2> QED
      BY <2>1, <2>2, <2>3
  <1> QED
    BY <1>5, <1>6, <1>7

\* Nothing to merge changes nothing.
LEMMA MergeNothing ==
    ASSUME NEW list PROVE Merge(list, <<>>) = list
  <1> DEFINE none == <<>>
  <1>1. Len(none) \in Nat /\ Len(none) = 0
    OBVIOUS
  <1> HIDE DEF none
  <1>2. PICK f : /\ f[0] = list
                 /\ \A i \in 0..(Len(none) - 1) : f[i + 1] = Insert(f[i], none[i + 1])
                 /\ Merge(list, none) = f[Len(none)]
    BY <1>1, MergeFunction
  <1> QED
    BY <1>1, <1>2 DEF none

\* Merging is inserting one entry after the other.
LEMMA MergeAppend ==
    ASSUME NEW T, NEW list, NEW new \in Seq(T), NEW e \in T
    PROVE  Merge(list, Append(new, e)) = Insert(Merge(list, new), e)
  <1> DEFINE long == Append(new, e)
  <1>1. /\ Len(new) \in Nat /\ Len(long) = Len(new) + 1
        /\ long[Len(new) + 1] = e
        /\ \A i \in 1..Len(new) : long[i] = new[i]
    BY AppendProperties, LenProperties
  <1>2. PICK f : /\ f[0] = list
                 /\ \A i \in 0..(Len(new) - 1) : f[i + 1] = Insert(f[i], new[i + 1])
                 /\ Merge(list, new) = f[Len(new)]
    BY <1>1, MergeFunction
  <1>3. PICK g : /\ g[0] = list
                 /\ \A i \in 0..(Len(long) - 1) : g[i + 1] = Insert(g[i], long[i + 1])
                 /\ Merge(list, long) = g[Len(long)]
    <2> HIDE DEF long
    <2>1. Len(long) \in Nat
      BY <1>1
    <2> QED
      BY <2>1, MergeFunction
  <1> DEFINE S == {i \in Nat : i <= Len(new) => g[i] = f[i]}
  <1> HIDE DEF long
  <1>4. 0 \in S
    BY <1>1, <1>2, <1>3
  <1>5. ASSUME NEW i \in Nat, i \in S PROVE i + 1 \in S
    <2> SUFFICES ASSUME i + 1 <= Len(new) PROVE g[i + 1] = f[i + 1]
      OBVIOUS
    <2>1. g[i] = f[i] /\ long[i + 1] = new[i + 1]
      BY <1>1, <1>5
    <2>2. f[i + 1] = Insert(f[i], new[i + 1])
      BY <1>2
    <2>3. g[i + 1] = Insert(g[i], long[i + 1])
      BY <1>1, <1>3
    <2> QED
      BY <2>1, <2>2, <2>3
  <1>6. Len(new) \in S
    <2> HIDE DEF S
    <2> QED BY <1>1, <1>4, <1>5, SetInduction
  <1>7. g[Len(new)] = Merge(list, new)
    BY <1>1, <1>2, <1>6
  <1>8. g[Len(new) + 1] = Insert(g[Len(new)], e)
    BY <1>1, <1>3
  <1> QED
    BY <1>1, <1>3, <1>7, <1>8 DEF long

\* The merge of lists of which the first is in time order is in time order, and has
\* the entries of both.
LEMMA MergeType ==
    ASSUME NEW T, Timed(T), NEW list \in Seq(T), InTimeOrder(list), NEW new \in Seq(T)
    PROVE  /\ Merge(list, new) \in Seq(T)
           /\ InTimeOrder(Merge(list, new))
           /\ Len(Merge(list, new)) = Len(list) + Len(new)
  <1> DEFINE Good(l) == /\ Merge(list, l) \in Seq(T)
                        /\ InTimeOrder(Merge(list, l))
                        /\ Len(Merge(list, l)) = Len(list) + Len(l)
             S == {l \in Seq(T) : Good(l)}
  <1>1. <<>> \in S
    BY MergeNothing, EmptySeq, LenProperties
  <1>2. ASSUME NEW l \in Seq(T), NEW e \in T, l \in S PROVE Append(l, e) \in S
    <2>1. Append(l, e) \in Seq(T) /\ Len(Append(l, e)) = Len(l) + 1
          /\ Len(l) \in Nat /\ Len(list) \in Nat
      BY AppendProperties, LenProperties
    <2>2. Merge(list, Append(l, e)) = Insert(Merge(list, l), e)
      BY MergeAppend
    <2>3. Good(l)
      BY <1>2
    <2>4. /\ Insert(Merge(list, l), e) \in Seq(T)
          /\ Len(Insert(Merge(list, l), e)) = Len(Merge(list, l)) + 1
      BY <2>3, InsertPlaces
    <2>5. InTimeOrder(Insert(Merge(list, l), e))
      BY <2>3, InsertOrdered
    <2> QED
      BY <2>1, <2>2, <2>3, <2>4, <2>5
  <1>3. new \in S
    <2> HIDE DEF S
    <2> QED BY <1>1, <1>2, ListInduction
  <1> QED
    BY <1>3

\* One entry is inserted.
LEMMA MergeSingle ==
    ASSUME NEW list, NEW e
    PROVE  Merge(list, <<e>>) = Insert(list, e)
  <1> DEFINE none == <<>>
             one  == {e}
  <1>1. none \in Seq(one) /\ e \in one
    BY EmptySeq
  <1>2. Append(none, e) = <<e>> /\ Merge(list, none) = list
    BY MergeNothing
  <1> HIDE DEF none, one
  <1>3. Merge(list, Append(none, e)) = Insert(Merge(list, none), e)
    BY <1>1, MergeAppend
  <1> QED
    BY <1>2, <1>3

\* Before its last entry a list in time order is in time order, and nothing is later.
LEMMA OrderedBefore ==
    ASSUME NEW T, NEW list \in Seq(T), NEW e \in T, InTimeOrder(Append(list, e))
    PROVE  InTimeOrder(list) /\ \A i \in DOMAIN list : list[i].time <= e.time
  <1> DEFINE long == Append(list, e)
  <1>1. /\ Len(list) \in Nat /\ DOMAIN list = 1..Len(list)
        /\ DOMAIN long = 1..(Len(list) + 1)
        /\ long[Len(list) + 1] = e
        /\ \A i \in 1..Len(list) : long[i] = list[i]
    BY AppendProperties, LenProperties
  <1>2. \A i, j \in DOMAIN long : i < j => long[i].time <= long[j].time
    BY DEF InTimeOrder
  <1> HIDE DEF long
  <1> QED
    BY <1>1, <1>2 DEF InTimeOrder

\* A list in time order, merged into the empty one, is itself.
LEMMA MergeIntoEmpty ==
    ASSUME NEW T, Timed(T), NEW list \in Seq(T), InTimeOrder(list)
    PROVE  Merge(<<>>, list) = list
  <1> DEFINE S == {l \in Seq(T) : InTimeOrder(l) => Merge(<<>>, l) = l}
  <1>1. <<>> \in S
    BY MergeNothing, EmptySeq
  <1>2. ASSUME NEW l \in Seq(T), NEW e \in T, l \in S PROVE Append(l, e) \in S
    <2> SUFFICES ASSUME InTimeOrder(Append(l, e))
                 PROVE  Merge(<<>>, Append(l, e)) = Append(l, e)
      BY AppendProperties
    <2>1. InTimeOrder(l) /\ \A i \in DOMAIN l : l[i].time <= e.time
      BY OrderedBefore
    <2>2. Merge(<<>>, Append(l, e)) = Insert(Merge(<<>>, l), e)
      BY MergeAppend
    <2>3. Merge(<<>>, l) = l
      BY <1>2, <2>1
    <2>4. Insert(l, e) = Append(l, e)
      BY <2>1, InsertLast
    <2> QED
      BY <2>2, <2>3, <2>4
  <1>3. list \in S
    <2> HIDE DEF S
    <2> QED BY <1>1, <1>2, ListInduction
  <1> QED
    BY <1>3

\* A merge leaves the events of a node as they are if the new list has none of them.
LEMMA MergeFromOthers ==
    ASSUME NEW T, Timed(T), NEW list \in Seq(T), InTimeOrder(list), NEW new \in Seq(T),
           NEW n, \A i \in DOMAIN new : new[i].item.id[1] # n
    PROVE  From(Merge(list, new), n) = From(list, n)
  <1> DEFINE Good(l) == (\A i \in DOMAIN l : l[i].item.id[1] # n)
                            => From(Merge(list, l), n) = From(list, n)
             S == {l \in Seq(T) : Good(l)}
  <1>1. <<>> \in S
    BY MergeNothing, EmptySeq
  <1>2. ASSUME NEW l \in Seq(T), NEW e \in T, l \in S PROVE Append(l, e) \in S
    <2> DEFINE long == Append(l, e)
    <2>1. /\ long \in Seq(T) /\ Len(l) \in Nat /\ DOMAIN l = 1..Len(l)
          /\ DOMAIN long = 1..(Len(l) + 1)
          /\ long[Len(l) + 1] = e
          /\ \A i \in 1..Len(l) : long[i] = l[i]
      BY AppendProperties, LenProperties
    <2>2. Merge(list, long) = Insert(Merge(list, l), e)
      BY MergeAppend
    <2> HIDE DEF long
    <2> SUFFICES ASSUME \A i \in DOMAIN long : long[i].item.id[1] # n
                 PROVE  From(Merge(list, long), n) = From(list, n)
      BY <2>1 DEF long
    <2>3. n # e.item.id[1] /\ \A i \in DOMAIN l : l[i].item.id[1] # n
      <3>1. Len(l) + 1 \in DOMAIN long /\ \A i \in DOMAIN l : i \in DOMAIN long /\ long[i] = l[i]
        BY <2>1
      <3> QED
        BY <2>1, <3>1
    <2>4. From(Merge(list, l), n) = From(list, n)
      BY <1>2, <2>3
    <2>5. Merge(list, l) \in Seq(T) /\ InTimeOrder(Merge(list, l))
      BY MergeType
    <2>6. From(Insert(Merge(list, l), e), n) = From(Merge(list, l), n)
      BY <2>3, <2>5, InsertFromOthers
    <2> QED
      BY <2>2, <2>4, <2>6
  <1>3. new \in S
    <2> HIDE DEF S
    <2> QED BY <1>1, <1>2, ListInduction
  <1> QED
    BY <1>3

\* If the new list is in time order and has all events of a node, the merge has them in
\* that order.
LEMMA MergeFromOwn ==
    ASSUME NEW T, Timed(T), NEW list \in Seq(T), InTimeOrder(list), NEW new \in Seq(T),
           InTimeOrder(new),
           NEW n, \A i \in DOMAIN new : new[i].item.id[1] = n,
           From(list, n) = <<>>
    PROVE  From(Merge(list, new), n) = new
  <1> DEFINE Good(l) == InTimeOrder(l) /\ (\A i \in DOMAIN l : l[i].item.id[1] = n)
                            => From(Merge(list, l), n) = l
             S == {l \in Seq(T) : Good(l)}
  <1>1. <<>> \in S
    BY MergeNothing, EmptySeq
  <1>2. ASSUME NEW l \in Seq(T), NEW e \in T, l \in S PROVE Append(l, e) \in S
    <2> DEFINE long == Append(l, e)
    <2>1. /\ long \in Seq(T) /\ Len(l) \in Nat /\ DOMAIN l = 1..Len(l)
          /\ DOMAIN long = 1..(Len(l) + 1)
          /\ long[Len(l) + 1] = e
          /\ \A i \in 1..Len(l) : long[i] = l[i]
      BY AppendProperties, LenProperties
    <2>2. Merge(list, long) = Insert(Merge(list, l), e)
      BY MergeAppend
    <2>3. InTimeOrder(long) =>
              InTimeOrder(l) /\ \A i \in DOMAIN l : l[i].time <= e.time
      BY OrderedBefore
    <2> HIDE DEF long
    <2> SUFFICES ASSUME InTimeOrder(long), \A i \in DOMAIN long : long[i].item.id[1] = n
                 PROVE  From(Merge(list, long), n) = long
      BY <2>1 DEF long
    <2>4. n = e.item.id[1] /\ \A i \in DOMAIN l : l[i].item.id[1] = n
      BY <2>1
    <2>5. From(Merge(list, l), n) = l
      BY <1>2, <2>3, <2>4
    <2>6. Merge(list, l) \in Seq(T) /\ InTimeOrder(Merge(list, l))
      BY MergeType
    <2>7. \A i \in 1..Len(From(Merge(list, l), n)) : From(Merge(list, l), n)[i].time <= e.time
      BY <2>1, <2>3, <2>5
    <2>8. From(Insert(Merge(list, l), e), n) = Append(From(Merge(list, l), n), e)
      BY <2>4, <2>6, <2>7, InsertFromOwn
    <2> QED
      BY <2>2, <2>5, <2>8 DEF long
  <1>3. new \in S
    <2> HIDE DEF S
    <2> QED BY <1>1, <1>2, ListInduction
  <1> QED
    BY <1>3

\* If all events of a list are of one node, they are From of that node, and no other's.
LEMMA FromOnly ==
    ASSUME NEW T, NEW list \in Seq(T), NEW n, \A i \in DOMAIN list : list[i].item.id[1] = n
    PROVE  From(list, n) = list /\ \A m : m # n => From(list, m) = <<>>
  <1> DEFINE Good(l) == (\A i \in DOMAIN l : l[i].item.id[1] = n)
                            => From(l, n) = l /\ \A m : m # n => From(l, m) = <<>>
             S == {l \in Seq(T) : Good(l)}
  <1>1. <<>> \in S
    BY FromEmpty, EmptySeq
  <1>2. ASSUME NEW l \in Seq(T), NEW e \in T, l \in S PROVE Append(l, e) \in S
    <2> DEFINE long == Append(l, e)
    <2>1. /\ long \in Seq(T) /\ Len(l) \in Nat /\ DOMAIN l = 1..Len(l)
          /\ DOMAIN long = 1..(Len(l) + 1)
          /\ long[Len(l) + 1] = e
          /\ \A i \in 1..Len(l) : long[i] = l[i]
      BY AppendProperties, LenProperties
    <2>2. \A m : From(long, m) = IF e.item.id[1] = m THEN Append(From(l, m), e) ELSE From(l, m)
      BY FromAppend
    <2> HIDE DEF long
    <2> SUFFICES ASSUME \A i \in DOMAIN long : long[i].item.id[1] = n
                 PROVE  From(long, n) = long /\ \A m : m # n => From(long, m) = <<>>
      BY <2>1 DEF long
    <2>3. n = e.item.id[1] /\ \A i \in DOMAIN l : l[i].item.id[1] = n
      BY <2>1
    <2>4. From(l, n) = l /\ \A m : m # n => From(l, m) = <<>>
      BY <1>2, <2>3
    <2> QED
      BY <2>2, <2>3, <2>4 DEF long
  <1>3. list \in S
    <2> HIDE DEF S
    <2> QED BY <1>1, <1>2, ListInduction
  <1> QED
    BY <1>3
=============================================================================
