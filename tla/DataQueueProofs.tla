--------------------------- MODULE DataQueueProofs ---------------------------
(***************************************************************************)
(* Lemmas about the operations of VRDataQueue: seen in the order of its    *)
(* keys, a queue whose disambiguation numbers have no gaps is a list of    *)
(* events, a push inserts into it and adding a queue merges.               *)
(***************************************************************************)
EXTENDS DataQueueOps, TimedListProofs

\* A queue of items I: a finite map of keys to items.
IsQueue(q, I) ==
    /\ IsFiniteSet(DOMAIN q)
    /\ DOMAIN q \subseteq Int \X Nat
    /\ q \in [DOMAIN q -> I]

\* The numbers of each time stamp are 0 to some number.  pop() may leave a gap.
Contiguous(q) ==
    \A k \in DOMAIN q : \A d \in Nat : d < k[2] => <<k[1], d>> \in DOMAIN q

Entry(time, item) == [time |-> time, item |-> item]
EntriesOf(I) == [time : Int, item : I]

\* The keys of a queue in their order.
Enumerates(key, n, q) ==
    /\ key \in [1..n -> DOMAIN q]
    /\ \A k \in DOMAIN q : \E i \in 1..n : key[i] = k
    /\ \A i, j \in 1..n : i < j => Before(key[i], key[j])

\* How many numbers there are up to n.
LEMMA UpTo ==
    ASSUME NEW n \in Nat
    PROVE  IsFiniteSet(1..n) /\ Cardinality(1..n) = n
  <1>1. 1 \in Int /\ n \in Int
    OBVIOUS
  <1>2. IsFiniteSet(1..n) /\ Cardinality(1..n) = IF 1 > n THEN 0 ELSE n - 1 + 1
    BY <1>1, FS_Interval
  <1> QED
    BY <1>2

-----------------------------------------------------------------------------
(* The order of the keys.                                                  *)

\* Before is a strict total order.
LEMMA KeysOrdered ==
    /\ \A k \in Int \X Nat : ~Before(k, k)
    /\ \A k, l \in Int \X Nat : Before(k, l) \/ k = l \/ Before(l, k)
    /\ \A k, l, m \in Int \X Nat : Before(k, l) /\ Before(l, m) => Before(k, m)
  BY DEF Before

\* What InOrder shows can be said with any enumeration of the keys.
LEMMA Enumeration ==
    ASSUME NEW q, NEW I, IsQueue(q, I), NEW n \in Nat, NEW key, Enumerates(key, n, q)
    PROVE  /\ Cardinality(DOMAIN q) = n
           /\ InOrder(q) = [i \in 1..n |-> Entry(key[i][1], q[key[i]])]
  <1> USE DEF IsQueue, Enumerates
  <1>1. \A i, j \in 1..n : key[i] = key[j] => i = j
    <2> SUFFICES ASSUME NEW i \in 1..n, NEW j \in 1..n, key[i] = key[j], i # j
                 PROVE  FALSE
      OBVIOUS
    <2>1. key[i] \in Int \X Nat /\ (i < j \/ j < i)
      OBVIOUS
    <2> QED
      BY <2>1, KeysOrdered
  <1>2. key \in Bijection(1..n, DOMAIN q)
    BY <1>1 DEF Bijection, Injection, Surjection, IsInjective
  <1>3. Cardinality(DOMAIN q) = n
    BY <1>2, FS_CountingElements DEF ExistsBijection
  <1>4. ASSUME NEW i \in 1..n
        PROVE  Cardinality({l \in DOMAIN q : Before(l, key[i])}) = i - 1
    <2> DEFINE below == {l \in DOMAIN q : Before(l, key[i])}
               part  == [j \in 1..(i - 1) |-> key[j]]
    <2>1. \A j \in 1..n : Before(key[j], key[i]) <=> j < i
      <3> SUFFICES ASSUME NEW j \in 1..n PROVE Before(key[j], key[i]) <=> j < i
        OBVIOUS
      <3>1. key[i] \in Int \X Nat /\ key[j] \in Int \X Nat
        OBVIOUS
      <3>2. j < i \/ j = i \/ i < j
        OBVIOUS
      <3> QED
        BY <3>1, <3>2, KeysOrdered
    <2>2. part \in [1..(i - 1) -> below]
      BY <2>1
    <2>3. \A l \in below : \E j \in 1..(i - 1) : part[j] = l
      BY <2>1
    <2>4. \A j, k \in 1..(i - 1) : part[j] = part[k] => j = k
      BY <1>1
    <2> HIDE DEF part, below
    <2>5. part \in Bijection(1..(i - 1), below)
      BY <2>2, <2>3, <2>4 DEF Bijection, Injection, Surjection, IsInjective
    <2>6. i - 1 \in Nat
      OBVIOUS
    <2>7. Cardinality(below) = i - 1
      BY <2>5, <2>6, FS_CountingElements DEF ExistsBijection
    <2> QED
      BY <2>7 DEF below
  <1> DEFINE rank == [k \in DOMAIN q |-> 1 + Cardinality({l \in DOMAIN q : Before(l, k)})]
             at(i) == CHOOSE k \in DOMAIN q : rank[k] = i
  <1>5. ASSUME NEW i \in 1..n PROVE rank[key[i]] = i
    <2>1. rank[key[i]] = 1 + Cardinality({l \in DOMAIN q : Before(l, key[i])})
      OBVIOUS
    <2>2. Cardinality({l \in DOMAIN q : Before(l, key[i])}) = i - 1
      BY <1>4
    <2> HIDE DEF rank
    <2> QED
      BY <2>1, <2>2
  <1>6. \A i \in 1..n : at(i) = key[i]
    <2> HIDE DEF rank
    <2> SUFFICES ASSUME NEW i \in 1..n PROVE at(i) = key[i]
      OBVIOUS
    <2>1. key[i] \in DOMAIN q /\ rank[key[i]] = i
      BY <1>5
    <2>2. \A k \in DOMAIN q : rank[k] = i => k = key[i]
      BY <1>5
    <2> QED
      BY <2>1, <2>2
  <1>7. InOrder(q) = [i \in 1..Cardinality(DOMAIN q) |-> [time |-> at(i)[1], item |-> q[at(i)]]]
    BY DEF InOrder
  <1> HIDE DEF at
  <1> QED
    BY <1>3, <1>6, <1>7 DEF Entry

\* There is one: each key has as its place one more than the number of keys before it.
LEMMA Enumerable ==
    ASSUME NEW q, NEW I, IsQueue(q, I)
    PROVE  \E key : Enumerates(key, Cardinality(DOMAIN q), q)
  <1> USE DEF IsQueue
  <1> DEFINE D == DOMAIN q
             N == Cardinality(D)
             below(k) == {l \in D : Before(l, k)}
             rank == [k \in D |-> 1 + Cardinality(below(k))]
  <1>1. N \in Nat
    BY FS_CardinalityType
  <1>2. ASSUME NEW k \in D
        PROVE  IsFiniteSet(below(k)) /\ Cardinality(below(k)) \in Nat /\ Cardinality(below(k)) < N
    <2>1. below(k) \in SUBSET (D \ {k}) /\ IsFiniteSet(D \ {k}) /\ Cardinality(D \ {k}) = N - 1
      BY KeysOrdered, FS_RemoveElement
    <2> HIDE DEF below
    <2>2. IsFiniteSet(below(k)) /\ Cardinality(below(k)) <= Cardinality(D \ {k})
      BY <2>1, FS_Subset
    <2>3. Cardinality(below(k)) \in Nat
      BY <2>2, FS_CardinalityType
    <2> QED
      BY <1>1, <2>1, <2>2, <2>3
  <1>3. ASSUME NEW k \in D, NEW l \in D, Before(l, k)
        PROVE  rank[l] < rank[k]
    <2>1. below(l) \cup {l} \in SUBSET below(k) /\ l \notin below(l)
      BY <1>3, KeysOrdered
    <2>2. IsFiniteSet(below(k)) /\ Cardinality(below(k)) \in Nat
          /\ IsFiniteSet(below(l)) /\ Cardinality(below(l)) \in Nat
      BY <1>2
    <2>3. rank[l] = 1 + Cardinality(below(l)) /\ rank[k] = 1 + Cardinality(below(k))
      OBVIOUS
    <2> HIDE DEF below, rank
    <2>4. Cardinality(below(l) \cup {l}) = Cardinality(below(l)) + 1
      BY <2>1, <2>2, FS_AddElement
    <2>5. Cardinality(below(l) \cup {l}) <= Cardinality(below(k))
      BY <2>1, <2>2, FS_Subset
    <2> QED
      BY <2>2, <2>3, <2>4, <2>5
  <1>4. rank \in [D -> 1..N]
    <2>1. ASSUME NEW k \in D PROVE 1 + Cardinality(below(k)) \in 1..N
      <3> HIDE DEF below
      <3> QED BY <1>1, <1>2
    <2> HIDE DEF below
    <2> QED
      BY <2>1
  <1> HIDE DEF rank
  <1>5. \A k, l \in D : rank[k] = rank[l] => k = l
    <2> SUFFICES ASSUME NEW k \in D, NEW l \in D, rank[k] = rank[l], k # l PROVE FALSE
      OBVIOUS
    <2>1. Before(k, l) \/ Before(l, k)
      BY KeysOrdered
    <2>2. rank[k] \in Int /\ rank[l] \in Int
      BY <1>4
    <2> QED
      BY <1>3, <2>1, <2>2
  <1>6. rank \in Injection(D, 1..N)
    BY <1>4, <1>5 DEF Injection, IsInjective
  <1>7. IsFiniteSet(1..N) /\ Cardinality(1..N) = N
    <2> HIDE DEF N
    <2> QED
      BY <1>1, UpTo
  <1>8. rank \in Surjection(D, 1..N)
    BY <1>6, <1>7, FS_Injection
  <1>9. \A i \in 1..N : \E k \in D : rank[k] = i
    BY <1>8 DEF Surjection
  <1> DEFINE key == [i \in 1..N |-> CHOOSE k \in D : rank[k] = i]
  <1>10. \A i \in 1..N : key[i] \in D /\ rank[key[i]] = i
    BY <1>9
  <1>11. key \in [1..N -> D]
    BY <1>10
  <1> HIDE DEF key
  <1>12. \A k \in D : rank[k] \in 1..N /\ key[rank[k]] = k
    BY <1>4, <1>5, <1>10
  <1>13. ASSUME NEW i \in 1..N, NEW j \in 1..N, i < j
         PROVE  Before(key[i], key[j])
    <2>1. key[i] \in D /\ key[j] \in D /\ rank[key[i]] = i /\ rank[key[j]] = j
      BY <1>10
    <2>2. Before(key[i], key[j]) \/ key[i] = key[j] \/ Before(key[j], key[i])
      BY <2>1, KeysOrdered
    <2>3. Before(key[j], key[i]) => j < i
      BY <1>3, <2>1
    <2> QED
      BY <1>13, <2>1, <2>2, <2>3
  <1>14. Enumerates(key, N, q)
    BY <1>11, <1>12, <1>13 DEF Enumerates
  <1> QED
    BY <1>14

\* In order a queue is a list in time order, with an entry for each key and no other.
LEMMA InOrderType ==
    ASSUME NEW q, NEW I, IsQueue(q, I)
    PROVE  /\ InOrder(q) \in Seq(EntriesOf(I))
           /\ Len(InOrder(q)) = Cardinality(DOMAIN q)
           /\ Cardinality(DOMAIN q) \in Nat
           /\ InTimeOrder(InOrder(q))
           /\ \A i \in 1..Len(InOrder(q)) : \E k \in DOMAIN q : InOrder(q)[i] = Entry(k[1], q[k])
           /\ \A k \in DOMAIN q : \E i \in 1..Len(InOrder(q)) : InOrder(q)[i] = Entry(k[1], q[k])
  <1> DEFINE N == Cardinality(DOMAIN q)
  <1>1. N \in Nat
    BY FS_CardinalityType DEF IsQueue
  <1>2. PICK key : Enumerates(key, N, q)
    BY Enumerable
  <1> DEFINE list == [i \in 1..N |-> Entry(key[i][1], q[key[i]])]
  <1>3. InOrder(q) = list
    BY <1>1, <1>2, Enumeration
  <1>4. \A i \in 1..N : key[i] \in DOMAIN q /\ key[i] \in Int \X Nat /\ q[key[i]] \in I
    BY <1>2 DEF Enumerates, IsQueue
  <1>5. \A i \in 1..N : Entry(key[i][1], q[key[i]]) \in EntriesOf(I)
    BY <1>4 DEF Entry, EntriesOf
  <1> HIDE DEF N
  <1>6. list \in [1..N -> EntriesOf(I)]
    BY <1>5
  <1>7. list \in Seq(EntriesOf(I)) /\ Len(list) = N /\ DOMAIN list = 1..N
    <2> HIDE DEF list
    <2> QED BY <1>1, <1>6, FunctionIsSeq
  <1>8. InTimeOrder(list)
    <2> SUFFICES ASSUME NEW i \in 1..N, NEW j \in 1..N, i < j
                 PROVE  list[i].time <= list[j].time
      BY <1>7 DEF InTimeOrder
    <2>1. Before(key[i], key[j])
      BY <1>2 DEF Enumerates
    <2>2. key[i][1] <= key[j][1]
      BY <1>4, <2>1 DEF Before
    <2> QED
      BY <2>2 DEF Entry
  <1>9. \A i \in 1..N : \E k \in DOMAIN q : list[i] = Entry(k[1], q[k])
    BY <1>4
  <1>10. \A k \in DOMAIN q : \E i \in 1..N : list[i] = Entry(k[1], q[k])
    BY <1>2 DEF Enumerates
  <1> HIDE DEF list
  <1> QED
    BY <1>1, <1>3, <1>7, <1>8, <1>9, <1>10 DEF N

\* The times of entries are integers.
LEMMA EntriesTimed == ASSUME NEW I PROVE Timed(EntriesOf(I))
  BY DEF Timed, EntriesOf

\* The empty queue is a queue, and nothing in order; no other queue is.
LEMMA EmptyQueueInOrder ==
    /\ \A I : IsQueue(EmptyQueue, I)
    /\ Contiguous(EmptyQueue)
    /\ InOrder(EmptyQueue) = <<>>
    /\ \A q, I : IsQueue(q, I) /\ q # EmptyQueue => InOrder(q) # <<>>
  <1>1. \A I : IsQueue(EmptyQueue, I)
    BY FS_EmptySet DEF IsQueue, EmptyQueue
  <1>2. Contiguous(EmptyQueue)
    BY DEF Contiguous, EmptyQueue
  <1>3. InOrder(EmptyQueue) = <<>>
    <2>1. DOMAIN EmptyQueue = {} /\ Cardinality({}) = 0
      BY FS_EmptySet DEF EmptyQueue
    <2>2. InOrder(EmptyQueue) \in Seq(EntriesOf({})) /\ Len(InOrder(EmptyQueue)) = 0
      BY <1>1, <2>1, InOrderType
    <2> QED
      BY <2>2, EmptySeq
  <1>4. ASSUME NEW q, NEW I, IsQueue(q, I), InOrder(q) = <<>>
        PROVE  q = EmptyQueue
    <2>1. Cardinality(DOMAIN q) = 0
      BY <1>4, InOrderType, Len(<<>>) = 0
    <2>2. DOMAIN q = {}
      BY <1>4, <2>1, FS_EmptySet DEF IsQueue
    <2> QED
      BY <1>4, <2>2 DEF EmptyQueue, IsQueue
  <1> QED
    BY <1>1, <1>2, <1>3, <1>4

-----------------------------------------------------------------------------
(* Pushing.                                                                *)

\* There is a free number: the search in push() ends, at the least one.
LEMMA FreeStampExists ==
    ASSUME NEW q, NEW I, IsQueue(q, I), NEW time \in Int
    PROVE  \E d \in 0..Cardinality(DOMAIN q) :
               /\ FreeStamp(q, time) = <<time, d>>
               /\ <<time, d>> \notin DOMAIN q
               /\ \A e \in 0..(d - 1) : <<time, e>> \in DOMAIN q
  <1> DEFINE N == Cardinality(DOMAIN q)
             free == {d \in Nat : <<time, d>> \notin DOMAIN q}
  <1>1. N \in Nat /\ IsFiniteSet(DOMAIN q)
    BY FS_CardinalityType DEF IsQueue
  <1>2. \E d \in 0..N : d \in free
    <2> SUFFICES ASSUME \A d \in 0..N : <<time, d>> \in DOMAIN q PROVE FALSE
      BY <1>1
    <2> DEFINE f == [d \in 0..N |-> <<time, d>>]
    <2>1. f \in Injection(0..N, DOMAIN q)
      BY <1>1 DEF Injection, IsInjective
    <2> HIDE DEF f
    <2>2. Cardinality(0..N) <= N
      BY <1>1, <2>1, FS_Injection
    <2>3. Cardinality(0..N) = N + 1
      <3>1. 0 \in Int /\ N \in Int
        BY <1>1
      <3>2. Cardinality(0..N) = IF 0 > N THEN 0 ELSE N - 0 + 1
        BY <3>1, FS_Interval
      <3> HIDE DEF N
      <3> QED
        BY <1>1, <3>2
    <2> HIDE DEF N
    <2> QED
      BY <1>1, <2>2, <2>3
  <1>3. PICK d \in free : \A e \in free : d <= e
    <2>1. free \in SUBSET Nat /\ free # {}
      BY <1>2
    <2> HIDE DEF free
    <2> QED
      BY <2>1, LeastOf
  <1>4. d \in 0..N
    <2> HIDE DEF N
    <2> QED BY <1>1, <1>2, <1>3
  <1>5. <<time, d>> \notin DOMAIN q /\ \A e \in 0..(d - 1) : <<time, e>> \in DOMAIN q
    BY <1>3, <1>4
  <1>6. \E k \in {time} \X (0..N) :
            k \notin DOMAIN q /\ \A e \in 0..(k[2] - 1) : <<time, e>> \in DOMAIN q
    BY <1>4, <1>5
  <1>7. /\ FreeStamp(q, time) \in {time} \X (0..N)
        /\ FreeStamp(q, time) \notin DOMAIN q
        /\ \A e \in 0..(FreeStamp(q, time)[2] - 1) : <<time, e>> \in DOMAIN q
    <2> HIDE DEF N
    <2> QED BY <1>6 DEF FreeStamp, N
  <1> DEFINE stamp == FreeStamp(q, time)
  <1> HIDE DEF stamp
  <1>8. stamp = <<time, stamp[2]>> /\ stamp[2] \in 0..N
    <2> HIDE DEF N
    <2> QED BY <1>7 DEF stamp
  <1> QED
    BY <1>7, <1>8 DEF stamp

\* A push adds one key, and leaves no gap if there was none.
LEMMA PushQueue ==
    ASSUME NEW q, NEW I, IsQueue(q, I), NEW time \in Int, NEW item \in I
    PROVE  /\ IsQueue(Push(q, time, item), I)
           /\ DOMAIN Push(q, time, item) = DOMAIN q \cup {FreeStamp(q, time)}
           /\ Cardinality(DOMAIN Push(q, time, item)) = Cardinality(DOMAIN q) + 1
           /\ Contiguous(q) => Contiguous(Push(q, time, item))
  <1> DEFINE new == Push(q, time, item)
  <1>1. PICK d \in 0..Cardinality(DOMAIN q) :
               /\ FreeStamp(q, time) = <<time, d>>
               /\ <<time, d>> \notin DOMAIN q
               /\ \A e \in 0..(d - 1) : <<time, e>> \in DOMAIN q
    BY FreeStampExists
  <1>2. d \in Nat
    BY <1>1
  <1>3. new = [l \in DOMAIN q \cup {<<time, d>>} |-> IF l = <<time, d>> THEN item ELSE q[l]]
    BY <1>1 DEF Push
  <1> HIDE DEF new
  <1>4. DOMAIN new = DOMAIN q \cup {<<time, d>>}
    BY <1>3
  <1>5. IsFiniteSet(DOMAIN new) /\ Cardinality(DOMAIN new) = Cardinality(DOMAIN q) + 1
    BY <1>1, <1>4, FS_AddElement DEF IsQueue
  <1>6. new \in [DOMAIN new -> I]
    BY <1>3 DEF IsQueue
  <1>7. DOMAIN new \subseteq Int \X Nat
    BY <1>2, <1>4 DEF IsQueue
  <1>8. IsQueue(new, I)
    BY <1>5, <1>6, <1>7 DEF IsQueue
  <1>9. ASSUME Contiguous(q) PROVE Contiguous(new)
    <2> SUFFICES ASSUME NEW k \in DOMAIN new, NEW e \in Nat, e < k[2]
                 PROVE  <<k[1], e>> \in DOMAIN new
      BY DEF Contiguous
    <2>1. CASE k \in DOMAIN q
      BY <1>4, <1>9, <2>1 DEF Contiguous
    <2>2. CASE k = <<time, d>>
      <3>1. e \in 0..(d - 1) /\ k[1] = time
        BY <1>2, <2>2
      <3> QED
        BY <1>1, <1>4, <3>1
    <2> QED
      BY <1>4, <2>1, <2>2
  <1> QED
    BY <1>1, <1>4, <1>5, <1>8, <1>9 DEF new

\* In a queue without gaps the new item comes behind all that are not later.
LEMMA PushInOrder ==
    ASSUME NEW q, NEW I, IsQueue(q, I), Contiguous(q), NEW time \in Int, NEW item \in I
    PROVE  InOrder(Push(q, time, item)) = Insert(InOrder(q), Entry(time, item))
  <1> DEFINE N    == Cardinality(DOMAIN q)
             new  == Push(q, time, item)
             e    == Entry(time, item)
             list == InOrder(q)
             p    == NotLater(list, time)
  <1>1. PICK d \in 0..N : /\ FreeStamp(q, time) = <<time, d>>
                          /\ <<time, d>> \notin DOMAIN q
    BY FreeStampExists
  <1>2. N \in Nat /\ d \in Nat
    BY <1>1, FS_CardinalityType DEF IsQueue
  <1> DEFINE stamp == <<time, d>>
  <1>3. new = [l \in DOMAIN q \cup {stamp} |-> IF l = stamp THEN item ELSE q[l]]
    BY <1>1 DEF Push
  <1>4. PICK key : Enumerates(key, N, q)
    BY Enumerable
  <1>5. list = [i \in 1..N |-> Entry(key[i][1], q[key[i]])]
    BY <1>2, <1>4, Enumeration
  <1>6. \A i \in 1..N : key[i] \in DOMAIN q /\ key[i] \in Int \X Nat
    BY <1>4 DEF Enumerates, IsQueue
  <1>7. list \in Seq(EntriesOf(I)) /\ Len(list) = N /\ InTimeOrder(list) /\ DOMAIN list = 1..N
    BY InOrderType, LenProperties
  <1>8. e \in EntriesOf(I) /\ e.time = time
    BY DEF Entry, EntriesOf
  <1> HIDE DEF N, new, list
  <1>9. p \in 0..N /\ \A i \in 1..N : key[i][1] <= time <=> i <= p
    <2>1. p \in 0..N /\ \A i \in 1..N : list[i].time <= time <=> i <= p
      BY <1>7, EntriesTimed, NotLaterFirst
    <2>2. \A i \in 1..N : list[i].time = key[i][1]
      BY <1>5 DEF Entry
    <2> QED
      BY <2>1, <2>2
  <1> HIDE DEF p
  <1>10. \A k \in DOMAIN q : IF k[1] <= time THEN Before(k, stamp) ELSE Before(stamp, k)
    <2> SUFFICES ASSUME NEW k \in DOMAIN q
                 PROVE  IF k[1] <= time THEN Before(k, stamp) ELSE Before(stamp, k)
      OBVIOUS
    <2>1. k \in Int \X Nat
      BY DEF IsQueue
    <2>2. k[1] = time => k[2] < d
      <3> SUFFICES ASSUME k[1] = time, ~(k[2] < d) PROVE FALSE
        OBVIOUS
      <3>1. d < k[2] \/ d = k[2]
        BY <1>2, <2>1
      <3>2. k = <<time, k[2]>>
        BY <2>1
      <3>3. d < k[2] => <<time, d>> \in DOMAIN q
        BY <1>2 DEF Contiguous
      <3> QED
        BY <1>1, <3>1, <3>2, <3>3
    <2> QED
      BY <1>2, <2>1, <2>2 DEF Before
  <1> DEFINE at == [i \in 1..(N + 1) |->
                      IF i <= p THEN key[i] ELSE IF i = p + 1 THEN stamp ELSE key[i - 1]]
  <1> HIDE DEF stamp
  <1>11. Enumerates(at, N + 1, new)
    <2>1. DOMAIN new = DOMAIN q \cup {stamp}
      BY <1>3
    <2>2. at \in [1..(N + 1) -> DOMAIN new]
      BY <1>2, <1>6, <1>9, <2>1
    <2>3. ASSUME NEW k \in DOMAIN new PROVE \E i \in 1..(N + 1) : at[i] = k
      <3>1. CASE k = stamp
        <4>1. p + 1 \in 1..(N + 1) /\ at[p + 1] = stamp
          BY <1>2, <1>9
        <4> QED
          BY <3>1, <4>1
      <3>2. CASE k \in DOMAIN q
        <4>1. PICK i \in 1..N : key[i] = k
          BY <1>4, <3>2 DEF Enumerates
        <4>2. i <= p => i \in 1..(N + 1) /\ at[i] = k
          BY <1>2, <1>9, <4>1
        <4>3. ~(i <= p) => i + 1 \in 1..(N + 1) /\ at[i + 1] = k
          BY <1>2, <1>9, <4>1
        <4> QED
          BY <4>2, <4>3
      <3> QED
        BY <2>1, <3>1, <3>2
    <2>4. ASSUME NEW i \in 1..(N + 1), NEW j \in 1..(N + 1), i < j
          PROVE  Before(at[i], at[j])
      <3>1. \A m, n \in 1..N : m < n => Before(key[m], key[n])
        BY <1>4 DEF Enumerates
      <3>2. \A m \in 1..N : IF m <= p THEN Before(key[m], stamp) ELSE Before(stamp, key[m])
        BY <1>6, <1>9, <1>10
      <3>3. CASE j <= p
        BY <1>2, <1>9, <2>4, <3>1, <3>3
      <3>4. CASE i <= p /\ j = p + 1
        BY <1>2, <1>9, <2>4, <3>2, <3>4
      <3>5. CASE i <= p /\ j > p + 1
        BY <1>2, <1>9, <2>4, <3>1, <3>5
      <3>6. CASE i = p + 1
        BY <1>2, <1>9, <2>4, <3>2, <3>6
      <3>7. CASE i > p + 1
        BY <1>2, <1>9, <2>4, <3>1, <3>7
      <3> QED
        BY <1>2, <1>9, <2>4, <3>3, <3>4, <3>5, <3>6, <3>7
    <2> QED
      BY <2>2, <2>3, <2>4 DEF Enumerates
  <1>12. IsQueue(new, I)
    BY PushQueue DEF new
  <1>13. InOrder(new) = [i \in 1..(N + 1) |-> Entry(at[i][1], new[at[i]])]
    <2> HIDE DEF at
    <2> QED BY <1>2, <1>11, <1>12, Enumeration
  <1>14. Insert(list, e) = [i \in 1..(N + 1) |->
                IF i <= p THEN list[i] ELSE IF i = p + 1 THEN e ELSE list[i - 1]]
    <2>1. Timed(EntriesOf(I)) /\ list \in Seq(EntriesOf(I)) /\ InTimeOrder(list)
          /\ e \in EntriesOf(I)
      BY <1>7, <1>8, EntriesTimed
    <2> HIDE DEF e
    <2>2. Insert(list, e) = [i \in 1..(Len(list) + 1) |->
                IF i <= NotLater(list, e.time) THEN list[i]
                ELSE IF i = NotLater(list, e.time) + 1 THEN e ELSE list[i - 1]]
      BY <2>1, InsertPlaces
    <2> QED
      BY <1>7, <1>8, <2>2 DEF p
  <1>15. ASSUME NEW i \in 1..(N + 1)
         PROVE  Entry(at[i][1], new[at[i]]) =
                    IF i <= p THEN list[i] ELSE IF i = p + 1 THEN e ELSE list[i - 1]
    <2>1. \A k \in DOMAIN q : new[k] = q[k]
      BY <1>1, <1>3 DEF stamp
    <2>2. new[stamp] = item /\ stamp[1] = time
      BY <1>3 DEF stamp
    <2>3. CASE i <= p
      BY <1>2, <1>5, <1>6, <1>9, <2>1, <2>3
    <2>4. CASE i = p + 1
      BY <1>2, <1>9, <2>2, <2>4
    <2>5. CASE i > p + 1
      BY <1>2, <1>5, <1>6, <1>9, <2>1, <2>5
    <2> QED
      BY <1>2, <1>9, <2>3, <2>4, <2>5
  <1>16. InOrder(new) = Insert(list, e)
    BY <1>13, <1>14, <1>15
  <1> QED
    BY <1>16 DEF new, list

-----------------------------------------------------------------------------
(* Adding a list or a queue.                                               *)

\* f holds the queues that come of pushing the entries of a list, one after the other.
PushesOf(f, q, list) ==
    /\ f[0] = q
    /\ \A i \in 0..(Len(list) - 1) : f[i + 1] = Push(f[i], list[i + 1].time, list[i + 1].item)
    /\ PushAll(q, list) = f[Len(list)]

\* The function that PushAll defines by recursion exists, and PushAll is its last value.
LEMMA PushAllFunction ==
    ASSUME NEW q, NEW list, Len(list) \in Nat
    PROVE  \E f : PushesOf(f, q, list)
  <1> DEFINE Step(r, i) ==
                CHOOSE s \in {Push(p, list[i].time, list[i].item) : p \in {r}} : TRUE
             Is(f, m)   == f = [i \in 0..m |-> IF i = 0 THEN q ELSE Step(f[i - 1], i)]
             S == {m \in Nat : \E f : Is(f, m)}
  <1>1. 0 \in S
    <2> DEFINE f == [i \in 0..0 |-> q]
    <2> HIDE DEF Step
    <2>1. f = [i \in 0..0 |-> IF i = 0 THEN q ELSE Step(f[i - 1], i)]
      OBVIOUS
    <2>2. \E h : Is(h, 0)
      <3> HIDE DEF f
      <3> QED BY ONLY <2>1
    <2> QED
      BY <2>2
  <1>2. ASSUME NEW m \in Nat, m \in S PROVE m + 1 \in S
    <2>1. PICK f : Is(f, m)
      BY <1>2
    <2> DEFINE g == [i \in 0..(m + 1) |-> IF i = m + 1 THEN Step(f[m], m + 1) ELSE f[i]]
    <2> HIDE DEF Step
    <2>2. g = [i \in 0..(m + 1) |-> IF i = 0 THEN q ELSE Step(g[i - 1], i)]
      BY <2>1
    <2>3. \E h : Is(h, m + 1)
      <3> HIDE DEF g
      <3> QED BY ONLY <2>2
    <2> QED
      BY <2>3
  <1>3. Len(list) \in S
    <2> HIDE DEF S
    <2> QED BY <1>1, <1>2, SetInduction
  <1> DEFINE pushed == CHOOSE f : Is(f, Len(list))
  <1>4. Is(pushed, Len(list))
    <2> HIDE DEF Is
    <2> QED BY <1>3
  <1>5. PushAll(q, list) = pushed[Len(list)]
    BY DEF PushAll
  <1> HIDE DEF pushed
  <1>6. pushed[0] = q
    BY <1>4
  <1>7. ASSUME NEW i \in 0..(Len(list) - 1)
        PROVE  pushed[i + 1] = Push(pushed[i], list[i + 1].time, list[i + 1].item)
    <2>1. i + 1 \in 0..Len(list) /\ i + 1 # 0 /\ (i + 1) - 1 = i
      OBVIOUS
    <2>2. pushed[i + 1] = Step(pushed[(i + 1) - 1], i + 1)
      <3> HIDE DEF Step
      <3> QED BY <1>4, <2>1
    <2>3. \A r : Step(r, i + 1) = Push(r, list[i + 1].time, list[i + 1].item)
      OBVIOUS
    <2> QED
      BY <2>1, <2>2, <2>3
  <1>8. PushesOf(pushed, q, list)
    BY <1>5, <1>6, <1>7 DEF PushesOf
  <1> QED
    BY <1>8

\* Adding a list adds a key for each entry.  To a queue without gaps, it is merging the
\* list with what the queue has.
LEMMA PushAllInOrder ==
    ASSUME NEW q, NEW I, IsQueue(q, I), NEW list \in Seq(EntriesOf(I))
    PROVE  /\ IsQueue(PushAll(q, list), I)
           /\ Cardinality(DOMAIN PushAll(q, list)) = Cardinality(DOMAIN q) + Len(list)
           /\ Contiguous(q) =>
                  /\ Contiguous(PushAll(q, list))
                  /\ InOrder(PushAll(q, list)) = Merge(InOrder(q), list)
  <1>1. Len(list) \in Nat /\ \A i \in 1..Len(list) : list[i] \in EntriesOf(I)
    BY LenProperties, ElementOfSeq
  <1>2. PICK f : /\ f[0] = q
                 /\ \A i \in 0..(Len(list) - 1) :
                        f[i + 1] = Push(f[i], list[i + 1].time, list[i + 1].item)
                 /\ PushAll(q, list) = f[Len(list)]
    <2>1. PICK f : PushesOf(f, q, list)
      BY <1>1, PushAllFunction
    <2> QED
      BY <2>1 DEF PushesOf
  <1>3. PICK g : /\ g[0] = InOrder(q)
                 /\ \A i \in 0..(Len(list) - 1) : g[i + 1] = Insert(g[i], list[i + 1])
                 /\ Merge(InOrder(q), list) = g[Len(list)]
    <2>1. Len(list) \in Nat
      BY <1>1
    <2> QED
      BY <2>1, MergeFunction
  <1>4. Cardinality(DOMAIN q) \in Nat
    BY InOrderType
  <1> DEFINE Good(i) == /\ IsQueue(f[i], I)
                        /\ Cardinality(DOMAIN f[i]) = Cardinality(DOMAIN q) + i
                        /\ Contiguous(q) => Contiguous(f[i]) /\ InOrder(f[i]) = g[i]
             S == {i \in Nat : i <= Len(list) => Good(i)}
  <1>5. 0 \in S
    BY <1>2, <1>3, <1>4
  <1>6. ASSUME NEW i \in Nat, i \in S PROVE i + 1 \in S
    <2> SUFFICES ASSUME i + 1 <= Len(list) PROVE Good(i + 1)
      OBVIOUS
    <2> DEFINE e == list[i + 1]
    <2>1. Good(i) /\ i \in 0..(Len(list) - 1)
      BY <1>1, <1>6
    <2>2. e.time \in Int /\ e.item \in I /\ e = Entry(e.time, e.item)
      BY <1>1 DEF EntriesOf, Entry
    <2>3. f[i + 1] = Push(f[i], e.time, e.item) /\ g[i + 1] = Insert(g[i], e)
      BY <1>2, <1>3, <2>1
    <2> HIDE DEF e
    <2> DEFINE r    == f[i]
               time == e.time
               item == e.item
    <2>4. IsQueue(r, I) /\ time \in Int /\ item \in I /\ e = Entry(time, item)
          /\ f[i + 1] = Push(r, time, item) /\ g[i + 1] = Insert(g[i], e)
          /\ Cardinality(DOMAIN r) = Cardinality(DOMAIN q) + i
          /\ (Contiguous(q) => Contiguous(r) /\ InOrder(r) = g[i])
      BY <2>1, <2>2, <2>3
    <2> HIDE DEF r, time, item
    <2>5. /\ IsQueue(Push(r, time, item), I)
          /\ DOMAIN Push(r, time, item) = DOMAIN r \cup {FreeStamp(r, time)}
          /\ Cardinality(DOMAIN Push(r, time, item)) = Cardinality(DOMAIN r) + 1
          /\ Contiguous(r) => Contiguous(Push(r, time, item))
      BY <2>4, PushQueue
    <2>6. Contiguous(r) => InOrder(Push(r, time, item)) = Insert(InOrder(r), Entry(time, item))
      BY <2>4, PushInOrder
    <2> QED
      BY <1>4, <2>4, <2>5, <2>6
  <1>7. Len(list) \in S
    <2> HIDE DEF S
    <2> QED BY <1>1, <1>5, <1>6, SetInduction
  <1> QED
    BY <1>1, <1>2, <1>3, <1>7

\* The keys of the longer queue have the times of the queue or of the list, and numbers
\* that are less than its length.
LEMMA PushAllKeys ==
    ASSUME NEW q, NEW I, IsQueue(q, I), NEW list \in Seq(EntriesOf(I)), NEW T, NEW M \in Nat,
           DOMAIN q \subseteq T \X (0..(M - 1)), \A i \in 1..Len(list) : list[i].time \in T,
           Cardinality(DOMAIN q) + Len(list) <= M
    PROVE  DOMAIN PushAll(q, list) \subseteq T \X (0..(M - 1))
  <1>1. Len(list) \in Nat /\ \A i \in 1..Len(list) : list[i] \in EntriesOf(I)
    BY LenProperties, ElementOfSeq
  <1>2. PICK f : /\ f[0] = q
                 /\ \A i \in 0..(Len(list) - 1) :
                        f[i + 1] = Push(f[i], list[i + 1].time, list[i + 1].item)
                 /\ PushAll(q, list) = f[Len(list)]
    <2>1. PICK f : PushesOf(f, q, list)
      BY <1>1, PushAllFunction
    <2> QED
      BY <2>1 DEF PushesOf
  <1>3. Cardinality(DOMAIN q) \in Nat
    BY InOrderType
  <1> DEFINE Good(i) == /\ IsQueue(f[i], I)
                        /\ Cardinality(DOMAIN f[i]) = Cardinality(DOMAIN q) + i
                        /\ DOMAIN f[i] \subseteq T \X (0..(M - 1))
             S == {i \in Nat : i <= Len(list) => Good(i)}
  <1>4. 0 \in S
    BY <1>2, <1>3
  <1>5. ASSUME NEW i \in Nat, i \in S PROVE i + 1 \in S
    <2> SUFFICES ASSUME i + 1 <= Len(list) PROVE Good(i + 1)
      OBVIOUS
    <2> DEFINE r    == f[i]
               time == list[i + 1].time
               item == list[i + 1].item
    <2>1. i \in 0..(Len(list) - 1) /\ i + 1 \in 1..Len(list)
      BY <1>1
    <2>2. IsQueue(r, I) /\ time \in Int /\ time \in T /\ item \in I
          /\ f[i + 1] = Push(r, time, item)
          /\ Cardinality(DOMAIN r) = Cardinality(DOMAIN q) + i
          /\ DOMAIN r \subseteq T \X (0..(M - 1))
      BY <1>1, <1>2, <1>5, <2>1 DEF EntriesOf
    <2> HIDE DEF r, time, item
    <2>3. /\ IsQueue(Push(r, time, item), I)
          /\ DOMAIN Push(r, time, item) = DOMAIN r \cup {FreeStamp(r, time)}
          /\ Cardinality(DOMAIN Push(r, time, item)) = Cardinality(DOMAIN r) + 1
          /\ Contiguous(r) => Contiguous(Push(r, time, item))
      BY <2>2, PushQueue
    <2>4. PICK d \in 0..Cardinality(DOMAIN r) :
               /\ FreeStamp(r, time) = <<time, d>>
               /\ <<time, d>> \notin DOMAIN r
               /\ \A e \in 0..(d - 1) : <<time, e>> \in DOMAIN r
      BY <2>2, FreeStampExists
    <2>5. d \in 0..(M - 1)
      BY <1>1, <1>3, <2>2
    <2> QED
      BY <1>3, <2>2, <2>3, <2>4, <2>5
  <1>6. Len(list) \in S
    <2> HIDE DEF S
    <2> QED BY <1>1, <1>4, <1>5, SetInduction
  <1> QED
    BY <1>1, <1>2, <1>6

\* The same for a queue that is added.
LEMMA AddQueueInOrder ==
    ASSUME NEW q, NEW new, NEW I, IsQueue(q, I), IsQueue(new, I)
    PROVE  /\ IsQueue(AddQueue(q, new), I)
           /\ Cardinality(DOMAIN AddQueue(q, new)) =
                  Cardinality(DOMAIN q) + Cardinality(DOMAIN new)
           /\ Contiguous(q) =>
                  /\ Contiguous(AddQueue(q, new))
                  /\ InOrder(AddQueue(q, new)) = Merge(InOrder(q), InOrder(new))
  BY InOrderType, PushAllInOrder DEF AddQueue

-----------------------------------------------------------------------------
(* Text.                                                                   *)

\* A queue made from a list in time order shows that list.
LEMMA FromSerializedInOrder ==
    ASSUME NEW I, NEW list \in Seq(EntriesOf(I)), InTimeOrder(list)
    PROVE  /\ IsQueue(FromSerialized(list), I)
           /\ Contiguous(FromSerialized(list))
           /\ InOrder(FromSerialized(list)) = list
           /\ Cardinality(DOMAIN FromSerialized(list)) = Len(list)
  <1>1. IsQueue(EmptyQueue, I) /\ Contiguous(EmptyQueue) /\ InOrder(EmptyQueue) = <<>>
    BY EmptyQueueInOrder
  <1>2. Cardinality(DOMAIN EmptyQueue) = 0 /\ Len(list) \in Nat
    BY FS_EmptySet, LenProperties DEF EmptyQueue
  <1>3. FromSerialized(list) = PushAll(EmptyQueue, list)
    BY DEF FromSerialized, AddSerializedQueue
  <1>4. /\ IsQueue(PushAll(EmptyQueue, list), I)
        /\ Cardinality(DOMAIN PushAll(EmptyQueue, list)) = Cardinality(DOMAIN EmptyQueue) + Len(list)
        /\ Contiguous(EmptyQueue) =>
                /\ Contiguous(PushAll(EmptyQueue, list))
                /\ InOrder(PushAll(EmptyQueue, list)) = Merge(InOrder(EmptyQueue), list)
    BY <1>1, PushAllInOrder
  <1>5. Merge(<<>>, list) = list
    BY EntriesTimed, MergeIntoEmpty
  <1> QED
    BY <1>1, <1>2, <1>3, <1>4, <1>5

\* The text of a list has the same times, and its items as text.
LEMMA TextOfType ==
    ASSUME NEW I, \A item \in I : AsText(item) \in I, NEW list \in Seq(EntriesOf(I))
    PROVE  /\ TextOf(list) \in Seq(EntriesOf(I))
           /\ Len(TextOf(list)) = Len(list)
           /\ \A i \in 1..Len(list) : TextOf(list)[i] = Entry(list[i].time, AsText(list[i].item))
           /\ InTimeOrder(list) => InTimeOrder(TextOf(list))
  <1>1. Len(list) \in Nat /\ DOMAIN list = 1..Len(list)
        /\ \A i \in 1..Len(list) : list[i] \in EntriesOf(I)
    BY LenProperties, ElementOfSeq
  <1> DEFINE text == [i \in 1..Len(list) |-> [list[i] EXCEPT !.item = AsText(@)]]
  <1>2. TextOf(list) = text
    BY <1>1 DEF TextOf
  <1>3. ASSUME NEW i \in 1..Len(list)
        PROVE  /\ [list[i] EXCEPT !.item = AsText(@)] = Entry(list[i].time, AsText(list[i].item))
               /\ Entry(list[i].time, AsText(list[i].item)) \in EntriesOf(I)
    <2>1. list[i] \in [time : Int, item : I]
      BY <1>1 DEF EntriesOf
    <2> QED
      BY <2>1 DEF Entry, EntriesOf
  <1>4. text \in [1..Len(list) -> EntriesOf(I)]
    BY <1>3
  <1>5. \A i \in 1..Len(list) : text[i] = Entry(list[i].time, AsText(list[i].item))
    BY <1>3
  <1> HIDE DEF text
  <1>6. text \in Seq(EntriesOf(I)) /\ Len(text) = Len(list) /\ DOMAIN text = 1..Len(list)
    BY <1>1, <1>4, FunctionIsSeq
  <1>7. InTimeOrder(list) => InTimeOrder(text)
    BY <1>1, <1>5, <1>6 DEF InTimeOrder, Entry
  <1> QED
    BY <1>2, <1>5, <1>6, <1>7

-----------------------------------------------------------------------------
(* Popping.                                                                *)

\* A pop takes the first of the list.
LEMMA PopInOrder ==
    ASSUME NEW q, NEW I, IsQueue(q, I), q # EmptyQueue
    PROVE  /\ IsQueue(Pop(q), I)
           /\ DOMAIN Pop(q) \subseteq DOMAIN q
           /\ InOrder(q) # <<>>
           /\ InOrder(Pop(q)) = Tail(InOrder(q))
  <1> DEFINE N     == Cardinality(DOMAIN q)
             first == CHOOSE k \in DOMAIN q : \A l \in DOMAIN q \ {k} : Before(k, l)
             list  == InOrder(q)
             less  == Pop(q)
  <1>1. N \in Nat /\ N # 0
    BY FS_CardinalityType, FS_EmptySet DEF IsQueue, EmptyQueue
  <1>2. PICK key : Enumerates(key, N, q)
    BY Enumerable
  <1>3. list = [i \in 1..N |-> Entry(key[i][1], q[key[i]])]
    BY <1>1, <1>2, Enumeration
  <1>4. list \in Seq(EntriesOf(I)) /\ Len(list) = N /\ list # <<>>
    BY InOrderType, EmptyQueueInOrder
  <1>5. less = [l \in DOMAIN q \ {first} |-> q[l]]
    BY DEF Pop
  <1> HIDE DEF N, list, less
  <1>6. \A i \in 1..N : key[i] \in DOMAIN q /\ key[i] \in Int \X Nat
    BY <1>2 DEF Enumerates, IsQueue
  <1>7. \A i, j \in 1..N : i < j => Before(key[i], key[j]) /\ key[i] # key[j]
    <2>1. \A i, j \in 1..N : i < j => Before(key[i], key[j])
      BY <1>2 DEF Enumerates
    <2> QED
      BY <1>6, <2>1, KeysOrdered
  <1>8. first = key[1]
    <2>1. 1 \in 1..N
      BY <1>1
    <2>2. \A l \in DOMAIN q \ {key[1]} : Before(key[1], l)
      <3> SUFFICES ASSUME NEW l \in DOMAIN q, l # key[1] PROVE Before(key[1], l)
        OBVIOUS
      <3>1. PICK i \in 1..N : key[i] = l
        BY <1>2 DEF Enumerates
      <3> QED
        BY <1>7, <2>1, <3>1
    <2>3. \A k \in DOMAIN q : (\A l \in DOMAIN q \ {k} : Before(k, l)) => k = key[1]
      <3> SUFFICES ASSUME NEW k \in DOMAIN q, \A l \in DOMAIN q \ {k} : Before(k, l), k # key[1]
                   PROVE  FALSE
        OBVIOUS
      <3>1. key[1] \in DOMAIN q /\ k \in Int \X Nat /\ key[1] \in Int \X Nat
        BY <1>6, <2>1 DEF IsQueue
      <3>2. Before(k, key[1]) /\ Before(key[1], k)
        BY <2>2, <3>1
      <3> QED
        BY <3>1, <3>2, KeysOrdered
    <2> QED
      BY <1>6, <2>1, <2>2, <2>3
  <1> HIDE DEF first
  <1>9. DOMAIN less = DOMAIN q \ {first} /\ \A k \in DOMAIN less : less[k] = q[k]
    BY <1>5
  <1>10. IsQueue(less, I)
    <2>1. IsFiniteSet(DOMAIN less)
      BY <1>9, FS_RemoveElement DEF IsQueue
    <2> QED
      BY <1>5, <1>9, <2>1 DEF IsQueue
  <1> DEFINE at == [i \in 1..(N - 1) |-> key[i + 1]]
  <1>11. Enumerates(at, N - 1, less)
    <2>1. at \in [1..(N - 1) -> DOMAIN less]
      <3>1. \A i \in 1..(N - 1) : i + 1 \in 1..N /\ key[1] # key[i + 1]
        BY <1>1, <1>7
      <3> QED
        BY <1>6, <1>8, <1>9, <3>1
    <2>2. ASSUME NEW k \in DOMAIN less PROVE \E i \in 1..(N - 1) : at[i] = k
      <3>1. PICK i \in 1..N : key[i] = k
        BY <1>2, <1>9 DEF Enumerates
      <3>2. i # 1
        BY <1>8, <1>9, <3>1
      <3>3. i - 1 \in 1..(N - 1) /\ (i - 1) + 1 = i
        BY <1>1, <3>2
      <3> QED
        BY <3>1, <3>3
    <2>3. \A i, j \in 1..(N - 1) : i < j => Before(at[i], at[j])
      BY <1>1, <1>7
    <2> QED
      BY <2>1, <2>2, <2>3 DEF Enumerates
  <1>12. N - 1 \in Nat
    BY <1>1
  <1>13. InOrder(less) = [i \in 1..(N - 1) |-> Entry(at[i][1], less[at[i]])]
    <2> HIDE DEF at
    <2> QED BY <1>10, <1>11, <1>12, Enumeration
  <1>14. ASSUME NEW i \in 1..(N - 1) PROVE InOrder(less)[i] = Tail(list)[i]
    <2>1. i + 1 \in 1..N /\ i + 1 # 1
      BY <1>1
    <2>2. at[i] = key[i + 1] /\ key[i + 1] \in DOMAIN less
      BY <1>1, <1>6, <1>7, <1>8, <1>9, <2>1
    <2>3. InOrder(less)[i] = Entry(key[i + 1][1], q[key[i + 1]])
      BY <1>9, <1>13, <2>2
    <2>4. Tail(list)[i] = list[i + 1]
      BY <1>1, <1>4, HeadTailProperties
    <2> QED
      BY <1>3, <2>1, <2>3, <2>4
  <1>15. InOrder(less) \in Seq(EntriesOf(I)) /\ Len(InOrder(less)) = N - 1
    BY <1>10, <1>11, <1>12, InOrderType, Enumeration
  <1>16. Tail(list) \in Seq(EntriesOf(I)) /\ Len(Tail(list)) = N - 1
    BY <1>4, HeadTailProperties
  <1>17. InOrder(less) = Tail(list)
    BY <1>14, <1>15, <1>16, SeqEqual
  <1> QED
    BY <1>4, <1>9, <1>10, <1>17 DEF less, list
=============================================================================
