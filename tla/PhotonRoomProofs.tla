-------------------------- MODULE PhotonRoomProofs --------------------------
(***************************************************************************)
(* That no program of a Photon room misses, repeats or reorders what       *)
(* another one gives away (Shared), for every number of programs, every    *)
(* configuration of their devices, and whatever their other devices report.*)
(***************************************************************************)
EXTENDS PhotonRoom, TimedListProofs

(* Sequences of sequences, one after the other.                            *)

\* One more.  (A name for it, which most steps do not look into.)
Then(s, t) == s \o t

\* Three sequences one after the other.
LEMMA ThenAssociative ==
    ASSUME NEW T, NEW a \in Seq(T), NEW t \in Seq(T), NEW u \in Seq(T)
    PROVE  /\ Then(a, t) \in Seq(T)
           /\ Then(Then(a, t), u) = Then(a, Then(t, u))
  BY ConcatProperties, ConcatAssociative DEF Then

\* The function that Joined defines by recursion exists, and Joined is its last value.
LEMMA JoinedFunction ==
    ASSUME NEW list, Len(list) \in Nat
    PROVE  \E f : /\ f[0] = <<>>
                  /\ \A i \in 0..(Len(list) - 1) : f[i + 1] = Then(f[i], list[i + 1])
                  /\ Joined(list) = f[Len(list)]
  <1> DEFINE Is(f, m) == f = [i \in 0..m |-> IF i = 0 THEN <<>> ELSE Then(f[i - 1], list[i])]
             S == {m \in Nat : \E f : Is(f, m)}
  <1>1. 0 \in S
    <2> DEFINE f == [i \in 0..0 |-> <<>>]
    <2>1. f = [i \in 0..0 |-> IF i = 0 THEN <<>> ELSE Then(f[i - 1], list[i])]
      OBVIOUS
    <2>2. \E h : Is(h, 0)
      <3> HIDE DEF f
      <3> QED BY ONLY <2>1
    <2> QED
      BY <2>2
  <1>2. ASSUME NEW m \in Nat, m \in S PROVE m + 1 \in S
    <2>1. PICK f : Is(f, m)
      BY <1>2
    <2> DEFINE g == [i \in 0..(m + 1) |-> IF i = m + 1 THEN Then(f[m], list[m + 1]) ELSE f[i]]
    <2>2. g = [i \in 0..(m + 1) |-> IF i = 0 THEN <<>> ELSE Then(g[i - 1], list[i])]
      BY <2>1
    <2>3. \E h : Is(h, m + 1)
      <3> HIDE DEF g
      <3> QED BY ONLY <2>2
    <2> QED
      BY <2>3
  <1>3. Len(list) \in S
    <2> HIDE DEF S
    <2> QED BY <1>1, <1>2, SetInduction
  <1> DEFINE joined == CHOOSE f : Is(f, Len(list))
  <1>4. Is(joined, Len(list))
    <2> HIDE DEF Is
    <2> QED BY <1>3
  <1>5. Joined(list) = joined[Len(list)]
    BY DEF Joined, Then
  <1> HIDE DEF joined
  <1>6. joined[0] = <<>>
    BY <1>4
  <1>7. ASSUME NEW i \in 0..(Len(list) - 1) PROVE joined[i + 1] = Then(joined[i], list[i + 1])
    <2>1. i + 1 \in 0..Len(list) /\ i + 1 # 0 /\ (i + 1) - 1 = i
      OBVIOUS
    <2>2. joined[i + 1] = Then(joined[(i + 1) - 1], list[i + 1])
      BY <1>4, <2>1
    <2> QED
      BY <2>1, <2>2
  <1> QED
    BY <1>5, <1>6, <1>7

\* Of none it is nothing.
LEMMA JoinedEmpty == Joined(<<>>) = <<>>
  <1> DEFINE none == <<>>
  <1>1. Len(none) \in Nat /\ Len(none) = 0
    OBVIOUS
  <1> HIDE DEF none
  <1>2. PICK f : f[0] = <<>> /\ Joined(none) = f[Len(none)]
    BY <1>1, JoinedFunction
  <1> QED
    BY <1>1, <1>2 DEF none

\* The last one comes at the end.
LEMMA JoinedAppend ==
    ASSUME NEW T, NEW list \in Seq(T), NEW e \in T
    PROVE  Joined(Append(list, e)) = Joined(list) \o e
  <1> DEFINE long == Append(list, e)
  <1>1. /\ Len(list) \in Nat /\ Len(long) = Len(list) + 1
        /\ long[Len(list) + 1] = e
        /\ \A i \in 1..Len(list) : long[i] = list[i]
    BY AppendProperties, LenProperties
  <1> HIDE DEF long
  <1>2. PICK f : /\ f[0] = <<>>
                 /\ \A i \in 0..(Len(list) - 1) : f[i + 1] = Then(f[i], list[i + 1])
                 /\ Joined(list) = f[Len(list)]
    BY <1>1, JoinedFunction
  <1>3. PICK g : /\ g[0] = <<>>
                 /\ \A i \in 0..(Len(long) - 1) : g[i + 1] = Then(g[i], long[i + 1])
                 /\ Joined(long) = g[Len(long)]
    <2>1. Len(long) \in Nat
      BY <1>1
    <2> QED
      BY <2>1, JoinedFunction
  <1> DEFINE S == {i \in Nat : i <= Len(list) => g[i] = f[i]}
  <1>4. 0 \in S
    BY <1>1, <1>2, <1>3
  <1>5. ASSUME NEW i \in Nat, i \in S PROVE i + 1 \in S
    <2> SUFFICES ASSUME i + 1 <= Len(list) PROVE g[i + 1] = f[i + 1]
      OBVIOUS
    <2>0. i \in 0..(Len(list) - 1) /\ i + 1 \in 1..Len(list) /\ i <= Len(list)
      BY ONLY i \in Nat, i + 1 <= Len(list), <1>1
    <2>1. g[i] = f[i] /\ long[i + 1] = list[i + 1]
      BY ONLY <1>1, <1>5, <2>0
    <2>2. f[i + 1] = Then(f[i], list[i + 1])
      BY ONLY <1>2, <2>0
    <2>3. g[i + 1] = Then(g[i], long[i + 1])
      BY <1>1, <1>3
    <2> QED
      BY <2>1, <2>2, <2>3
  <1>6. Len(list) \in S
    <2> HIDE DEF S
    <2> QED BY <1>1, <1>4, <1>5, SetInduction
  <1>7. g[Len(list)] = Joined(list)
    BY <1>1, <1>2, <1>6
  <1>8. g[Len(list) + 1] = Then(g[Len(list)], e)
    BY <1>1, <1>3
  <1> QED
    BY <1>1, <1>3, <1>7, <1>8 DEF long, Then

\* It has only elements of them.
LEMMA JoinedType ==
    ASSUME NEW T, NEW list \in Seq(Seq(T))
    PROVE  Joined(list) \in Seq(T)
  <1> DEFINE S == {l \in Seq(Seq(T)) : Joined(l) \in Seq(T)}
  <1>1. <<>> \in S
    BY JoinedEmpty, EmptySeq
  <1>2. ASSUME NEW l \in Seq(Seq(T)), NEW e \in Seq(T), l \in S PROVE Append(l, e) \in S
    BY <1>2, JoinedAppend, ConcatProperties, AppendProperties
  <1>3. list \in S
    <2> HIDE DEF S
    <2> QED BY <1>1, <1>2, ListInduction
  <1> QED
    BY <1>3

-----------------------------------------------------------------------------
(* The events of one program in messages.                                  *)

\* Messages of programs of S, with events of T.
Messages(S, T) == [from : S, events : Seq(T)]

\* Of no message.
LEMMA EventsOfEmpty ==
    ASSUME NEW q PROVE EventsOf(q, <<>>) = <<>>
  <1> DEFINE parts == [i \in DOMAIN <<>> |->
                          IF <<>>[i].from = q THEN <<>>[i].events ELSE <<>>]
  <1>1. parts = <<>>
    OBVIOUS
  <1> QED
    BY <1>1, JoinedEmpty DEF EventsOf

\* The events of the last message come at the end if they are of the program.
LEMMA EventsOfAppend ==
    ASSUME NEW S, NEW T, NEW l \in Seq(Messages(S, T)), NEW m \in Messages(S, T), NEW q
    PROVE  EventsOf(q, Append(l, m)) =
               EventsOf(q, l) \o (IF m.from = q THEN m.events ELSE <<>>)
  <1> DEFINE Part(e)  == IF e.from = q THEN e.events ELSE <<>>
             long     == Append(l, m)
             parts    == [i \in DOMAIN l |-> Part(l[i])]
             allParts == [i \in DOMAIN long |-> Part(long[i])]
  <1>1. /\ long \in Seq(Messages(S, T)) /\ Len(l) \in Nat /\ Len(long) = Len(l) + 1
        /\ DOMAIN l = 1..Len(l) /\ DOMAIN long = 1..Len(long)
        /\ long[Len(l) + 1] = m
        /\ \A i \in 1..Len(l) : long[i] = l[i]
    BY AppendProperties, LenProperties
  <1>2. \A e \in Messages(S, T) : Part(e) \in Seq(T)
    BY EmptySeq DEF Messages
  <1>3. \A i \in 1..Len(l) : l[i] \in Messages(S, T)
    BY <1>1, ElementOfSeq
  <1> HIDE DEF long, Part
  <1>4. parts \in [1..Len(l) -> Seq(T)]
    BY <1>1, <1>2, <1>3
  <1>5. parts \in Seq(Seq(T)) /\ Len(parts) = Len(l)
    <2> HIDE DEF parts
    <2> QED BY <1>1, <1>4, FunctionIsSeq
  <1>6. allParts \in [1..Len(long) -> Seq(T)]
    <2>1. \A i \in 1..Len(long) : long[i] \in Messages(S, T)
      BY <1>1, ElementOfSeq
    <2> QED
      BY <1>1, <1>2, <2>1
  <1>7. Append(parts, Part(m)) = allParts
    <2> DEFINE more == Append(parts, Part(m))
    <2>1. /\ more \in Seq(Seq(T)) /\ Len(more) = Len(l) + 1
          /\ more[Len(l) + 1] = Part(m)
          /\ \A i \in 1..Len(l) : more[i] = parts[i]
      <3>1. Part(m) \in Seq(T)
        BY <1>2
      <3>2. more \in Seq(Seq(T)) /\ Len(more) = Len(parts) + 1 /\ more[Len(parts) + 1] = Part(m)
        <4> HIDE DEF parts
        <4> QED BY <1>5, <3>1, AppendProperties
      <3>3. \A i \in 1..Len(parts) : more[i] = parts[i]
        <4> HIDE DEF parts
        <4> QED BY <1>5, <3>1, AppendProperties
      <3> HIDE DEF more, parts
      <3> QED BY <1>5, <3>2, <3>3
    <2> HIDE DEF more
    <2>2. \A i \in 1..Len(long) : more[i] = allParts[i]
      BY <1>1, <2>1
    <2>3. Len(long) \in Nat /\ Len(more) = Len(long)
      BY <1>1, <2>1
    <2>4. more = allParts
      <3>1. PICK U : U = Seq(T)
        OBVIOUS
      <3>2. PICK n : n = Len(long)
        OBVIOUS
      <3> HIDE DEF allParts
      <3>3. more \in Seq(U) /\ n \in Nat /\ Len(more) = n /\ allParts \in [1..n -> U]
        BY <1>6, <2>1, <2>3, <3>1, <3>2
      <3>4. \A i \in 1..n : more[i] = allParts[i]
        BY <2>2, <3>2
      <3> QED BY ONLY <3>3, <3>4, SameSeq
    <2> QED
      BY <2>4 DEF more
  <1>8. EventsOf(q, l) = Joined(parts) /\ EventsOf(q, long) = Joined(allParts)
    BY DEF EventsOf, Part
  <1>9. Joined(Append(parts, Part(m))) = Joined(parts) \o Part(m)
    <2> HIDE DEF parts
    <2> QED BY <1>2, <1>5, JoinedAppend
  <1> QED
    BY <1>7, <1>8, <1>9 DEF long, Part

\* They are events of the messages.
LEMMA EventsOfType ==
    ASSUME NEW S, NEW T, NEW l \in Seq(Messages(S, T)), NEW q
    PROVE  EventsOf(q, l) \in Seq(T)
  <1> DEFINE M == Messages(S, T)
             G == {k \in Seq(M) : EventsOf(q, k) \in Seq(T)}
  <1>1. <<>> \in G
    BY EventsOfEmpty, EmptySeq
  <1>2. ASSUME NEW k \in Seq(M), NEW m \in M, k \in G PROVE Append(k, m) \in G
    <2>1. (IF m.from = q THEN m.events ELSE <<>>) \in Seq(T)
      BY EmptySeq DEF Messages
    <2>2. Append(k, m) \in Seq(M)
      BY AppendProperties
    <2>3. EventsOf(q, Append(k, m)) = EventsOf(q, k) \o (IF m.from = q THEN m.events ELSE <<>>)
      BY ONLY <1>2, EventsOfAppend
    <2> HIDE DEF M
    <2>4. EventsOf(q, Append(k, m)) \in Seq(T)
      BY <1>2, <2>1, <2>3, ConcatProperties
    <2> QED
      BY <2>2, <2>4
  <1>3. l \in G
    <2> HIDE DEF G
    <2> QED BY <1>1, <1>2, ListInduction
  <1> QED
    BY <1>3

\* The events of a single message.
LEMMA EventsOfSingle ==
    ASSUME NEW S, NEW T, NEW m \in Messages(S, T), NEW q
    PROVE  EventsOf(q, <<m>>) = IF m.from = q THEN m.events ELSE <<>>
  <1> DEFINE M == Messages(S, T)
  <1>1. <<>> \in Seq(M) /\ Append(<<>>, m) = <<m>>
    BY EmptySeq
  <1>2. EventsOf(q, Append(<<>>, m)) = EventsOf(q, <<>>) \o (IF m.from = q THEN m.events ELSE <<>>)
    <2>1. PICK none : none = <<>>
      OBVIOUS
    <2>2. none \in Seq(Messages(S, T))
      BY <2>1, EmptySeq
    <2>3. EventsOf(q, Append(none, m)) = EventsOf(q, none) \o (IF m.from = q THEN m.events ELSE <<>>)
      BY ONLY <2>2, m \in Messages(S, T), EventsOfAppend
    <2> QED
      BY ONLY <2>1, <2>3
  <1>3. (IF m.from = q THEN m.events ELSE <<>>) \in Seq(T)
    BY EmptySeq DEF Messages
  <1> QED
    BY <1>1, <1>2, <1>3, EventsOfEmpty, ConcatEmptySeq

\* Messages one after the other: their events one after the other.
LEMMA EventsOfConcat ==
    ASSUME NEW S, NEW T, NEW first \in Seq(Messages(S, T)), NEW second \in Seq(Messages(S, T)),
           NEW q
    PROVE  EventsOf(q, first \o second) = EventsOf(q, first) \o EventsOf(q, second)
  <1> DEFINE M == Messages(S, T)
             G == {l \in Seq(M) : EventsOf(q, first \o l) = EventsOf(q, first) \o EventsOf(q, l)}
  <1>1. <<>> \in G
    BY EventsOfEmpty, EventsOfType, ConcatEmptySeq, EmptySeq
  <1>2. ASSUME NEW l \in Seq(M), NEW m \in M, l \in G PROVE Append(l, m) \in G
    <2> DEFINE part == IF m.from = q THEN m.events ELSE <<>>
    <2>1. part \in Seq(T)
      BY EmptySeq DEF Messages
    <2>2. first \o l \in Seq(M) /\ Append(l, m) \in Seq(M)
      BY ConcatProperties, AppendProperties
    <2>3. first \o Append(l, m) = Append(first \o l, m)
      BY AppendOfConcat
    <2>4. EventsOf(q, Append(first \o l, m)) = EventsOf(q, first \o l) \o part
      <3>1. PICK k : k = first \o l
        OBVIOUS
      <3>2. k \in Seq(Messages(S, T))
        BY <2>2, <3>1
      <3>3. EventsOf(q, Append(k, m)) = EventsOf(q, k) \o part
        BY ONLY <3>2, m \in Messages(S, T), EventsOfAppend
      <3> QED
        BY ONLY <3>1, <3>3
    <2>5. EventsOf(q, Append(l, m)) = EventsOf(q, l) \o part
      BY EventsOfAppend
    <2>6. EventsOf(q, first) \in Seq(T) /\ EventsOf(q, l) \in Seq(T)
      BY EventsOfType
    <2> HIDE DEF part
    <2>7. (EventsOf(q, first) \o EventsOf(q, l)) \o part = EventsOf(q, first) \o (EventsOf(q, l) \o part)
      <3>1. Then(Then(EventsOf(q, first), EventsOf(q, l)), part)
                = Then(EventsOf(q, first), Then(EventsOf(q, l), part))
        BY <2>1, <2>6, ThenAssociative
      <3> QED
        BY ONLY <3>1 DEF Then
    <2> QED
      BY <1>2, <2>2, <2>3, <2>4, <2>5, <2>7
  <1>3. second \in G
    <2> HIDE DEF G
    <2> QED BY <1>1, <1>2, ListInduction
  <1> QED
    BY <1>3

-----------------------------------------------------------------------------
(* Sequences that end in another one, or contain it.                       *)

EndsIn(T, s, t) == \E a \in Seq(T) : s = a \o t
Contains(T, s, t) == \E a, b \in Seq(T) : s = (a \o t) \o b

\* Every sequence ends in nothing.
LEMMA EndsInNothing ==
    ASSUME NEW T, NEW s \in Seq(T)
    PROVE  EndsIn(T, s, <<>>)
  <1>1. s = s \o <<>>
    BY ConcatEmptySeq
  <1> QED
    BY <1>1 DEF EndsIn

\* What comes at the end of both does not change that one ends in the other.
LEMMA EndsInGrows ==
    ASSUME NEW T, NEW s \in Seq(T), NEW t \in Seq(T), NEW n \in Seq(T), EndsIn(T, s, t)
    PROVE  EndsIn(T, s \o n, t \o n)
  <1>1. PICK a \in Seq(T) : s = a \o t
    BY DEF EndsIn
  <1>2. (a \o t) \o n = a \o (t \o n)
    BY ConcatAssociative
  <1> QED
    BY <1>1, <1>2 DEF EndsIn

\* What comes at the end of the longer one does not change that it contains the other.
LEMMA ContainsGrows ==
    ASSUME NEW T, NEW s \in Seq(T), NEW t \in Seq(T), NEW n \in Seq(T), Contains(T, s, t)
    PROVE  Contains(T, s \o n, t)
  <1>1. PICK a \in Seq(T), b \in Seq(T) : s = (a \o t) \o b
    BY DEF Contains
  <1>2. PICK at \in Seq(T), bn \in Seq(T) : at = Then(a, t) /\ bn = Then(b, n)
    BY ThenAssociative
  <1>3. Then(Then(at, b), n) = Then(at, bn)
    BY ONLY at \in Seq(T), b \in Seq(T), n \in Seq(T), <1>2, ThenAssociative
  <1>4. s \o n = (a \o t) \o bn
    BY ONLY <1>1, <1>2, <1>3 DEF Then
  <1> QED
    BY <1>4 DEF Contains

\* What ends in two sequences contains the first of them.
LEMMA EndsInContains ==
    ASSUME NEW T, NEW s \in Seq(T), NEW t \in Seq(T), NEW u \in Seq(T), EndsIn(T, s, t \o u)
    PROVE  Contains(T, s, t)
  <1>1. PICK a \in Seq(T) : s = a \o (t \o u)
    BY DEF EndsIn
  <1>2. (a \o t) \o u = a \o (t \o u)
    BY ConcatAssociative
  <1> QED
    BY <1>1, <1>2 DEF Contains

\* Nothing contains only nothing.
LEMMA NothingContains ==
    ASSUME NEW T, NEW t \in Seq(T), Contains(T, <<>>, t)
    PROVE  t = <<>>
  <1>1. PICK a \in Seq(T), b \in Seq(T) : <<>> = (a \o t) \o b
    BY DEF Contains
  <1>2. PICK at \in Seq(T) : at = a \o t
    BY ConcatProperties
  <1>3. PICK all \in Seq(T) : all = at \o b
    BY ConcatProperties
  <1>4. Len(at) = Len(a) + Len(t) /\ Len(all) = Len(at) + Len(b)
    BY <1>2, <1>3, ConcatProperties
  <1>5. Len(all) = 0
    BY <1>1, <1>2, <1>3
  <1>6. Len(a) \in Nat /\ Len(t) \in Nat /\ Len(b) \in Nat
    BY LenProperties
  <1>7. Len(t) = 0
    <2>1. ASSUME NEW x \in Nat, NEW y \in Nat, NEW z \in Nat, (x + y) + z = 0 PROVE y = 0
      BY <2>1
    <2> QED
      BY ONLY <1>4, <1>5, <1>6, <2>1
  <1> QED
    BY <1>7, EmptySeq

\* What is contained is a part without gap, and so is its beginning.
LEMMA ContainedPart ==
    ASSUME NEW T, NEW s \in Seq(T), NEW t \in Seq(T), NEW u \in Seq(T), Contains(T, s, t \o u)
    PROVE  \E k \in 0..(Len(s) - Len(t)) : t = SubSeq(s, k + 1, k + Len(t))
  <1>1. PICK a \in Seq(T), b \in Seq(T) : s = (a \o (t \o u)) \o b
    BY DEF Contains
  <1>2. PICK ub \in Seq(T), tub \in Seq(T) : ub = Then(u, b) /\ tub = Then(t, ub)
    BY ThenAssociative
  <1>3. s = a \o tub
    <2>1. s = Then(Then(a, Then(t, u)), b)
      BY <1>1 DEF Then
    <2>2. Then(t, u) \in Seq(T)
      BY ThenAssociative
    <2>3. Then(Then(a, Then(t, u)), b) = Then(a, Then(Then(t, u), b))
      BY <2>2, ThenAssociative
    <2>4. Then(Then(t, u), b) = tub
      BY <1>2, ThenAssociative
    <2> QED
      BY <2>1, <2>3, <2>4 DEF Then
  <1>4. /\ Len(a) \in Nat /\ Len(t) \in Nat /\ Len(ub) \in Nat /\ Len(s) \in Nat
        /\ Len(tub) = Len(t) + Len(ub) /\ Len(s) = Len(a) + Len(tub)
    BY <1>2, <1>3, ConcatProperties, LenProperties DEF Then
  <1>5. \A i \in 1..Len(t) : s[Len(a) + i] = t[i]
    <2> TAKE i \in 1..Len(t)
    <2>1. tub[i] = t[i]
      BY <1>2, <1>4, ConcatProperties DEF Then
    <2>2. s[Len(a) + i] = tub[(Len(a) + i) - Len(a)]
      BY <1>3, <1>4, ConcatProperties
    <2> QED
      BY <1>4, <2>1, <2>2
  <1>6. /\ SubSeq(s, Len(a) + 1, Len(a) + Len(t)) \in Seq(T)
        /\ Len(SubSeq(s, Len(a) + 1, Len(a) + Len(t))) = Len(t)
        /\ \A i \in 1..Len(t) : SubSeq(s, Len(a) + 1, Len(a) + Len(t))[i] = s[Len(a) + i]
    <2>1. PICK m \in Int, n \in Int : m = Len(a) + 1 /\ n = Len(a) + Len(t)
      BY <1>4
    <2>2. \A i \in m..n : s[i] \in T
      BY <1>4, <2>1, ElementOfSeq
    <2>3. /\ SubSeq(s, m, n) \in Seq(T)
          /\ Len(SubSeq(s, m, n)) = IF m <= n THEN n - m + 1 ELSE 0
          /\ \A i \in 1..(n - m + 1) : SubSeq(s, m, n)[i] = s[m + i - 1]
      BY <2>2, SubSeqProperties
    <2>4. Len(SubSeq(s, m, n)) = Len(t)
      <3>1. (IF m <= n THEN n - m + 1 ELSE 0) = Len(t)
        BY ONLY <1>4, <2>1
      <3> QED
        BY ONLY <2>3, <3>1
    <2>5. ASSUME NEW i \in 1..Len(t) PROVE SubSeq(s, m, n)[i] = s[Len(a) + i]
      <3>1. i \in 1..(n - m + 1) /\ m + i - 1 = Len(a) + i
        BY ONLY <1>4, <2>1, i \in 1..Len(t)
      <3> QED
        BY ONLY <2>3, <3>1
    <2> QED
      BY <2>1, <2>3, <2>4, <2>5
  <1>7. t = SubSeq(s, Len(a) + 1, Len(a) + Len(t))
    BY <1>5, <1>6, SeqEqual
  <1>8. Len(a) \in 0..(Len(s) - Len(t))
    BY <1>4
  <1> QED
    BY <1>7, <1>8

\* What ends in a sequence has it as its last part.
LEMMA LastPart ==
    ASSUME NEW T, NEW s \in Seq(T), NEW t \in Seq(T), EndsIn(T, s, t)
    PROVE  \E k \in 0..Len(s) : t = SubSeq(s, k + 1, Len(s))
  <1>1. PICK a \in Seq(T) : s = a \o t
    BY DEF EndsIn
  <1>2. Len(a) \in Nat /\ Len(t) \in Nat /\ Len(s) \in Nat /\ Len(s) = Len(a) + Len(t)
    BY <1>1, ConcatProperties, LenProperties
  <1>3. \A i \in 1..Len(t) : s[Len(a) + i] = t[i]
    <2> TAKE i \in 1..Len(t)
    <2>1. s[Len(a) + i] = t[(Len(a) + i) - Len(a)]
      BY <1>1, <1>2, ConcatProperties
    <2> QED
      BY <1>2, <2>1
  <1>4. /\ SubSeq(s, Len(a) + 1, Len(s)) \in Seq(T)
        /\ Len(SubSeq(s, Len(a) + 1, Len(s))) = Len(t)
        /\ \A i \in 1..Len(t) : SubSeq(s, Len(a) + 1, Len(s))[i] = s[Len(a) + i]
    <2>1. PICK m \in Int, n \in Int : m = Len(a) + 1 /\ n = Len(s)
      BY <1>2
    <2>2. \A i \in m..n : s[i] \in T
      BY <1>2, <2>1, ElementOfSeq
    <2>3. /\ SubSeq(s, m, n) \in Seq(T)
          /\ Len(SubSeq(s, m, n)) = IF m <= n THEN n - m + 1 ELSE 0
          /\ \A i \in 1..(n - m + 1) : SubSeq(s, m, n)[i] = s[m + i - 1]
      BY <2>2, SubSeqProperties
    <2>4. Len(SubSeq(s, m, n)) = Len(t)
      <3>1. (IF m <= n THEN n - m + 1 ELSE 0) = Len(t)
        BY ONLY <1>2, <2>1
      <3> QED
        BY ONLY <2>3, <3>1
    <2>5. ASSUME NEW i \in 1..Len(t) PROVE SubSeq(s, m, n)[i] = s[Len(a) + i]
      <3>1. i \in 1..(n - m + 1) /\ m + i - 1 = Len(a) + i
        BY ONLY <1>2, <2>1, i \in 1..Len(t)
      <3> QED
        BY ONLY <2>3, <3>1
    <2> QED
      BY <2>1, <2>3, <2>4, <2>5
  <1>5. t = SubSeq(s, Len(a) + 1, Len(s))
    BY <1>3, <1>4, SeqEqual
  <1> QED
    BY <1>2, <1>5

-----------------------------------------------------------------------------
(* The invariant.                                                          *)

\* Before it has joined; it never returns there, nor to being joined.
Early == {"INITIALIZED", "CONNECTING", "CONNECTED", "JOINING"}
Conns == Early \cup {"JOINED", "LEAVING", "LEFT", "DISCONNECTING", "DISCONNECTED"}

\* The events that a program may give away.
Own(q) == {e \in Events[q] : Whitelisted(photon[q], e)}
Gifts(q) == {Renamed(photon[q], e) : e \in Own(q)} \cup {LoopFinished(n) : n \in Nat}
Gift == UNION {Gifts(q) : q \in Sharers}
Mail == Messages(Sharers, Gift)

Fields == {"config", "conn", "sendQueue", "pending", "lastsend", "running"}
IsDevice(d, G, M) ==
    /\ d = [x \in Fields |-> d[x]]
    /\ d.conn \in Conns /\ d.sendQueue \in Seq(G) /\ d.pending \in Seq(M) /\ d.lastsend \in Nat

TypeInv ==
    /\ photon = [p \in Sharers |-> photon[p]]
    /\ \A p \in Sharers : IsDevice(photon[p], Gift, Mail)
    /\ inbox \in [Sharers -> Seq(Mail)] /\ taken \in [Sharers -> Seq(Mail)]
    /\ given \in [Sharers -> Seq(Gift)]
    /\ \A p \in Sharers : given[p] \in Seq(Gifts(p))

\* A program that has not joined has neither given nor got anything; one that has still has
\* what it gave away last in its queue.
Untouched(p) ==
    /\ given[p] = <<>> /\ photon[p].sendQueue = <<>>
    /\ inbox[p] = <<>> /\ photon[p].pending = <<>> /\ taken[p] = <<>>
QueueInv ==
    \A p \in Sharers :
        /\ photon[p].conn \in Early => Untouched(p)
        /\ IsConnected(photon[p]) => EndsIn(Gift, given[p], photon[p].sendQueue)

\* What has reached a program from another one, taken or not, is a part of what that one gave
\* away; what is still in the queue is the rest, as long as both are in the room.
Flow(p, q) == Took(p, q) \o (EventsOf(q, photon[p].pending) \o EventsOf(q, inbox[p]))
FlowInv ==
    \A p, q \in Sharers : p # q =>
        /\ Contains(Gift, given[q], Flow(p, q))
        /\ {p, q} \subseteq Members => EndsIn(Gift, given[q], Flow(p, q) \o photon[q].sendQueue)

Inv == TypeInv /\ QueueInv /\ FlowInv

\* What follows from the types about sequences of events.
LEMMA FlowType ==
    ASSUME TypeInv, NEW p \in Sharers, NEW q
    PROVE  /\ Took(p, q) \in Seq(Gift) /\ EventsOf(q, photon[p].pending) \in Seq(Gift)
           /\ EventsOf(q, inbox[p]) \in Seq(Gift) /\ Flow(p, q) \in Seq(Gift)
  <1>1. /\ taken[p] \in Seq(Mail) /\ inbox[p] \in Seq(Mail) /\ photon[p].pending \in Seq(Mail)
    BY DEF TypeInv, IsDevice
  <1>2. \A m \in Seq(Mail) : EventsOf(q, m) \in Seq(Gift)
    BY EventsOfType DEF Mail
  <1> QED
    BY <1>1, <1>2, ConcatProperties DEF Took, Flow

\* The invariant gives the property.
LEMMA InvShared == Inv => Shared
  <1> SUFFICES ASSUME Inv, NEW p \in Sharers, NEW q \in Sharers, p # q
               PROVE  /\ \E k \in 0..(Len(given[q]) - Len(Took(p, q))) :
                            Took(p, q) = SubSeq(given[q], k + 1, k + Len(Took(p, q)))
                      /\ {p, q} \subseteq Members =>
                            \E k \in 0..Len(given[q]) :
                                Took(p, q) \o OnTheWay(p, q) = SubSeq(given[q], k + 1, Len(given[q]))
                      /\ \A i \in DOMAIN given[q] : MayGive(q, given[q][i])
    BY DEF Shared
  <1> DEFINE P == EventsOf(q, photon[p].pending) \o EventsOf(q, inbox[p])
             Q == photon[q].sendQueue
  <1>1. given[q] \in Seq(Gift) /\ given[q] \in Seq(Gifts(q)) /\ Q \in Seq(Gift)
    BY DEF Inv, TypeInv, IsDevice
  <1>2. Took(p, q) \in Seq(Gift) /\ P \in Seq(Gift)
    BY FlowType, ConcatProperties DEF Inv
  <1>3. Contains(Gift, given[q], Took(p, q) \o P)
    BY DEF Inv, FlowInv, Flow
  <1>4. \E k \in 0..(Len(given[q]) - Len(Took(p, q))) :
            Took(p, q) = SubSeq(given[q], k + 1, k + Len(Took(p, q)))
    <2> HIDE DEF P
    <2> QED BY ONLY <1>1, <1>2, <1>3, ContainedPart
  <1>5. ASSUME {p, q} \subseteq Members
        PROVE  \E k \in 0..Len(given[q]) :
                   Took(p, q) \o OnTheWay(p, q) = SubSeq(given[q], k + 1, Len(given[q]))
    <2>1. EndsIn(Gift, given[q], (Took(p, q) \o P) \o Q)
      BY <1>5 DEF Inv, FlowInv, Flow
    <2>2. OnTheWay(p, q) = P \o Q
      BY DEF OnTheWay
    <2> HIDE DEF P, Q
    <2>3. (Took(p, q) \o P) \o Q = Took(p, q) \o (P \o Q)
      BY <1>1, <1>2, ConcatAssociative
    <2>4. Took(p, q) \o (P \o Q) \in Seq(Gift)
      BY <1>1, <1>2, ConcatProperties
    <2> QED
      BY <1>1, <2>1, <2>2, <2>3, <2>4, LastPart
  <1>6. ASSUME NEW i \in DOMAIN given[q] PROVE MayGive(q, given[q][i])
    <2>1. given[q][i] \in Gifts(q)
      BY <1>1, ElementOfSeq, LenProperties
    <2>2. CASE given[q][i] \in {LoopFinished(n) : n \in Nat}
      <3>1. PICK n \in Nat : given[q][i] = LoopFinished(n)
        BY <2>2
      <3>2. LoopFinished(n).name = LoopFinished(0).name
        BY ONLY TRUE DEF LoopFinished, AnalogEvent, Event
      <3> QED
        BY ONLY <3>1, <3>2 DEF MayGive
    <2>3. CASE given[q][i] \in {Renamed(photon[q], e) : e \in Own(q)}
      BY <2>3 DEF MayGive, Own
    <2> QED
      BY <2>1, <2>2, <2>3 DEF Gifts
  <1> QED
    BY <1>4, <1>5, <1>6

-----------------------------------------------------------------------------
(* What the operations do to a device.                                     *)

\* The record, whose form most steps do not look into.
Device(config, conn, queue, pending, lastsend, running) ==
    [config |-> config, conn |-> conn, sendQueue |-> queue,
     pending |-> pending, lastsend |-> lastsend, running |-> running]

\* A device is determined by its fields.
LEMMA ByFields ==
    ASSUME NEW d, d = [x \in Fields |-> d[x]]
    PROVE  d = Device(d.config, d.conn, d.sendQueue, d.pending, d.lastsend, d.running)
  BY DEF Fields, Device

\* The fields of a record.
LEMMA DeviceFields ==
    ASSUME NEW config, NEW conn, NEW queue, NEW pending, NEW lastsend, NEW running,
           NEW d, d = Device(config, conn, queue, pending, lastsend, running)
    PROVE  /\ d = [x \in Fields |-> d[x]]
           /\ d.config = config /\ d.conn = conn /\ d.sendQueue = queue
           /\ d.pending = pending /\ d.lastsend = lastsend /\ d.running = running
  BY DEF Fields, Device

\* What is sent grows the queue.
LEMMA QueueGrown ==
    ASSUME NEW d, d = [x \in Fields |-> d[x]], NEW queue, NEW n
    PROVE  [d EXCEPT !.sendQueue = queue, !.lastsend = n]
              = Device(d.config, d.conn, queue, d.pending, n, d.running)
  <1> DEFINE e == [d EXCEPT !.sendQueue = queue, !.lastsend = n]
  <1>1. e = [x \in Fields |-> e[x]]
    OBVIOUS
  <1>2. /\ e.config = d.config /\ e.conn = d.conn /\ e.sendQueue = queue
        /\ e.pending = d.pending /\ e.lastsend = n /\ e.running = d.running
    BY DEF Fields
  <1> HIDE DEF e
  <1> QED
    BY <1>1, <1>2, ByFields DEF e

\* The queue is emptied.
LEMMA QueueChanged ==
    ASSUME NEW d, d = [x \in Fields |-> d[x]], NEW queue
    PROVE  [d EXCEPT !.sendQueue = queue]
              = Device(d.config, d.conn, queue, d.pending, d.lastsend, d.running)
  <1> DEFINE e == [d EXCEPT !.sendQueue = queue]
  <1>1. e = [x \in Fields |-> e[x]]
    OBVIOUS
  <1>2. /\ e.config = d.config /\ e.conn = d.conn /\ e.sendQueue = queue
        /\ e.pending = d.pending /\ e.lastsend = d.lastsend /\ e.running = d.running
    BY DEF Fields
  <1> HIDE DEF e
  <1> QED
    BY <1>1, <1>2, ByFields DEF e

\* An answer changes the connection, and messages come.
LEMMA ConnChanged ==
    ASSUME NEW d, d = [x \in Fields |-> d[x]], NEW conn, NEW pending
    PROVE  [d EXCEPT !.conn = conn, !.pending = pending]
              = Device(d.config, conn, d.sendQueue, pending, d.lastsend, d.running)
  <1> DEFINE e == [d EXCEPT !.conn = conn, !.pending = pending]
  <1>1. e = [x \in Fields |-> e[x]]
    OBVIOUS
  <1>2. /\ e.config = d.config /\ e.conn = conn /\ e.sendQueue = d.sendQueue
        /\ e.pending = pending /\ e.lastsend = d.lastsend /\ e.running = d.running
    BY DEF Fields
  <1> HIDE DEF e
  <1> QED
    BY <1>1, <1>2, ByFields DEF e

\* What has come is taken.
LEMMA PendingChanged ==
    ASSUME NEW d, d = [x \in Fields |-> d[x]], NEW pending
    PROVE  [d EXCEPT !.pending = pending]
              = Device(d.config, d.conn, d.sendQueue, pending, d.lastsend, d.running)
  <1> DEFINE e == [d EXCEPT !.pending = pending]
  <1>1. e = [x \in Fields |-> e[x]]
    OBVIOUS
  <1>2. /\ e.config = d.config /\ e.conn = d.conn /\ e.sendQueue = d.sendQueue
        /\ e.pending = pending /\ e.lastsend = d.lastsend /\ e.running = d.running
    BY DEF Fields
  <1> HIDE DEF e
  <1> QED
    BY <1>1, <1>2, ByFields DEF e

\* The device is asked to leave.
LEMMA RunningChanged ==
    ASSUME NEW d, d = [x \in Fields |-> d[x]], NEW running, NEW conn
    PROVE  [d EXCEPT !.running = running, !.conn = conn]
              = Device(d.config, conn, d.sendQueue, d.pending, d.lastsend, running)
  <1> DEFINE e == [d EXCEPT !.running = running, !.conn = conn]
  <1>1. e = [x \in Fields |-> e[x]]
    OBVIOUS
  <1>2. /\ e.config = d.config /\ e.conn = conn /\ e.sendQueue = d.sendQueue
        /\ e.pending = d.pending /\ e.lastsend = d.lastsend /\ e.running = running
    BY DEF Fields
  <1> HIDE DEF e
  <1> QED
    BY <1>1, <1>2, ByFields DEF e

\* Some events of a program pass, each renamed, and a last one tells that the loop finished.
LEMMA NewlySentType ==
    ASSUME NEW p \in Sharers, NEW inputEvents \in Seq(Events[p]), photon[p].lastsend \in Nat
    PROVE  NewlySent(photon[p], inputEvents) \in Seq(Gifts(p))
  <1> DEFINE d     == photon[p]
             G     == Gifts(p)
             parts == [i \in DOMAIN inputEvents |->
                          IF Whitelisted(d, inputEvents[i]) THEN <<Renamed(d, inputEvents[i])>>
                          ELSE <<>>]
  <1>1. \A e \in Events[p] : (IF Whitelisted(d, e) THEN <<Renamed(d, e)>> ELSE <<>>) \in Seq(G)
    <2> TAKE e \in Events[p]
    <2>1. CASE Whitelisted(d, e)
      <3>1. Renamed(d, e) \in G
        BY <2>1 DEF Gifts, Own
      <3> HIDE DEF G, d
      <3>2. <<Renamed(d, e)>> \in Seq(G)
        BY <3>1
      <3> QED
        BY <2>1, <3>2
    <2>2. CASE ~Whitelisted(d, e)
      BY <2>2, EmptySeq
    <2> QED
      BY <2>1, <2>2
  <1>2. Len(inputEvents) \in Nat /\ DOMAIN inputEvents = 1..Len(inputEvents)
    BY LenProperties
  <1>3. parts \in [1..Len(inputEvents) -> Seq(G)]
    <2>1. \A i \in 1..Len(inputEvents) : inputEvents[i] \in Events[p]
      BY <1>2, ElementOfSeq
    <2> HIDE DEF G, d
    <2> QED
      BY <1>1, <1>2, <2>1
  <1>4. parts \in Seq(Seq(G))
    <2> HIDE DEF parts, G
    <2> QED BY <1>2, <1>3, FunctionIsSeq
  <1>5. Passed(d, inputEvents) \in Seq(G)
    <2>1. Passed(d, inputEvents) = Joined(parts)
      BY DEF Passed
    <2> HIDE DEF parts, G
    <2> QED
      BY <1>4, <2>1, JoinedType
  <1>6. LoopFinished(d.lastsend) \in G
    BY DEF Gifts
  <1> HIDE DEF d, G
  <1>7. Append(Passed(d, inputEvents), LoopFinished(d.lastsend)) \in Seq(G)
    BY <1>5, <1>6, AppendProperties
  <1> QED
    BY <1>7, EmptySeq DEF NewlySent, d, G

\* Every event of a program is one of all.
LEMMA GiftsAreGift ==
    ASSUME NEW p \in Sharers, NEW s \in Seq(Gifts(p))
    PROVE  s \in Seq(Gift)
  <1>1. \A g \in Gifts(p) : g \in Gift
    BY DEF Gift
  <1>2. Len(s) \in Nat /\ \A i \in 1..Len(s) : s[i] \in Gift
    BY <1>1, ElementOfSeq, LenProperties
  <1>3. s = [i \in 1..Len(s) |-> s[i]]
    BY LenProperties
  <1>4. [i \in 1..Len(s) |-> s[i]] \in [1..Len(s) -> Gift]
    BY <1>2
  <1> QED
    BY <1>2, <1>3, <1>4, FunctionIsSeq

\* A poll adds the same to the queue as to what is given away.
LEMMA Sends ==
    ASSUME NEW d, NEW G, NEW M, IsDevice(d, G, M), NEW inputEvents,
           NewlySent(d, inputEvents) \in Seq(G)
    PROVE  \E n \in Nat : SendNewEvents(d, inputEvents) =
              Device(d.config, d.conn, d.sendQueue \o NewlySent(d, inputEvents), d.pending, n, d.running)
  <1>1. PICK sent, queue : sent = NewlySent(d, inputEvents) /\ queue = d.sendQueue \o sent
    OBVIOUS
  <1>2. PICK n \in Nat : n = IF sent = <<>> THEN d.lastsend ELSE d.lastsend + 1
    <2>1. d.lastsend \in Nat /\ d.lastsend + 1 \in Nat
      BY DEF IsDevice
    <2> QED
      BY ONLY <2>1
  <1>3. SendNewEvents(d, inputEvents) = [d EXCEPT !.sendQueue = queue, !.lastsend = n]
    BY <1>1, <1>2 DEF SendNewEvents
  <1>4. [d EXCEPT !.sendQueue = queue, !.lastsend = n]
            = Device(d.config, d.conn, queue, d.pending, n, d.running)
    <2>1. d = [x \in Fields |-> d[x]]
      BY DEF IsDevice
    <2> QED
      BY ONLY <2>1, QueueGrown
  <1> QED
    BY <1>1, <1>3, <1>4

\* Which connections lead to which.
LEMMA AnsweredConn ==
    ASSUME NEW conn \in Conns, NEW a \in Answers
    PROVE  /\ Answered(Asked(conn), a) \in Conns
           /\ Answered(Asked(conn), a) \in Early => conn \in Early
           /\ Answered(Asked(conn), a) = "JOINED" => conn \in Early \cup {"JOINED"}
  <1>1. CASE conn \in Early
    BY <1>1 DEF Early, Conns, Answers, Answered, Asked
  <1>2. CASE conn = "JOINED"
    BY <1>2 DEF Early, Conns, Answers, Answered, Asked
  <1>3. CASE conn \in {"LEAVING", "LEFT", "DISCONNECTING", "DISCONNECTED"}
    BY <1>3 DEF Early, Conns, Answers, Answered, Asked
  <1> QED
    BY <1>1, <1>2, <1>3 DEF Conns

\* A call of the service changes the connection and keeps the messages.
LEMMA Updates ==
    ASSUME NEW d, NEW G, NEW M, IsDevice(d, G, M), NEW a \in Answers, NEW messages \in Seq(M)
    PROVE  /\ IsDevice(Update(d, a, messages), G, M)
           /\ Update(d, a, messages).config = d.config
           /\ Update(d, a, messages).conn = Answered(Asked(d.conn), a)
           /\ Update(d, a, messages).sendQueue = d.sendQueue
           /\ Update(d, a, messages).pending = d.pending \o messages
  <1>1. PICK conn, pending : conn = Answered(Asked(d.conn), a) /\ pending = d.pending \o messages
    OBVIOUS
  <1>2. conn \in Conns /\ pending \in Seq(M)
    BY <1>1, AnsweredConn, ConcatProperties DEF IsDevice
  <1>3. Update(d, a, messages) = [d EXCEPT !.conn = conn, !.pending = pending]
    BY <1>1 DEF Update
  <1>4. [d EXCEPT !.conn = conn, !.pending = pending]
            = Device(d.config, conn, d.sendQueue, pending, d.lastsend, d.running)
    <2>1. d = [x \in Fields |-> d[x]]
      BY DEF IsDevice
    <2> QED
      BY ONLY <2>1, ConnChanged
  <1>5. PICK u : u = Update(d, a, messages)
    OBVIOUS
  <1>6. /\ u = [x \in Fields |-> u[x]]
        /\ u.config = d.config /\ u.conn = conn /\ u.sendQueue = d.sendQueue
        /\ u.pending = pending /\ u.lastsend = d.lastsend
    <2>1. u = Device(d.config, conn, d.sendQueue, pending, d.lastsend, d.running)
      BY ONLY <1>3, <1>4, <1>5
    <2> QED
      BY ONLY <2>1, DeviceFields
  <1>7. IsDevice(u, G, M)
    BY <1>2, <1>6 DEF IsDevice
  <1> QED
    BY <1>1, <1>5, <1>6, <1>7

\* What a round does to a device: the queue is sent if the program has joined, and is empty
\* afterwards in any case.
IsRound(d, from, messages, round) ==
    /\ round.device.config = d.config /\ round.device.sendQueue = <<>>
    /\ round.device.pending = d.pending \o messages
    /\ round.device.conn \in Early => d.conn \in Early
    /\ round.device.conn = "JOINED" => d.conn \in Early \cup {"JOINED"}
    /\ \/ round.messages = <<>>
       \/ /\ d.conn \in Early \cup {"JOINED"} /\ d.sendQueue # <<>>
          /\ round.messages = <<Message(from, d.sendQueue)>>
    /\ d.conn = "JOINED" /\ round.device.conn = "JOINED" /\ d.sendQueue # <<>>
          => round.messages = <<Message(from, d.sendQueue)>>


\* A round does that, whatever is answered.
LEMMA Rounds ==
    ASSUME NEW d, NEW G, NEW M, IsDevice(d, G, M), NEW from, NEW a1 \in Answers, NEW a2 \in Answers,
           NEW messages \in Seq(M), NEW round, round = ThreadRound(d, from, a1, a2, messages)
    PROVE  /\ IsDevice(round.device, G, M)
           /\ IsRound(d, from, messages, round)
  <1> DEFINE first == Update(d, a1, messages)
             empty == [first EXCEPT !.sendQueue = <<>>]
             last  == Update(empty, a2, <<>>)
  <1>1. /\ IsDevice(first, G, M) /\ first.config = d.config /\ first.sendQueue = d.sendQueue
        /\ first.conn = Answered(Asked(d.conn), a1) /\ first.pending = d.pending \o messages
    BY Updates
  <1>2. /\ IsDevice(empty, G, M) /\ empty.config = first.config /\ empty.sendQueue = <<>>
        /\ empty.conn = first.conn /\ empty.pending = first.pending
    <2> HIDE DEF first
    <2>1. empty = Device(first.config, first.conn, <<>>, first.pending, first.lastsend, first.running)
      <3>1. first = [x \in Fields |-> first[x]]
        BY <1>1 DEF IsDevice
      <3> QED
        BY ONLY <3>1, QueueChanged
    <2> HIDE DEF empty
    <2>2. /\ empty = [x \in Fields |-> empty[x]]
          /\ empty.config = first.config /\ empty.conn = first.conn /\ empty.sendQueue = <<>>
          /\ empty.pending = first.pending /\ empty.lastsend = first.lastsend
      BY ONLY <2>1, DeviceFields
    <2> QED
      BY <1>1, <2>2, EmptySeq DEF IsDevice
  <1>3. /\ IsDevice(last, G, M) /\ last.config = empty.config /\ last.sendQueue = empty.sendQueue
        /\ last.conn = Answered(Asked(empty.conn), a2) /\ last.pending = empty.pending \o <<>>
    <2> HIDE DEF empty
    <2>1. <<>> \in Seq(M)
      BY EmptySeq
    <2>2. PICK none : none = <<>>
      OBVIOUS
    <2>3. IsDevice(empty, G, M) /\ none \in Seq(M)
      BY <1>2, <2>1, <2>2
    <2>4. /\ IsDevice(Update(empty, a2, none), G, M) /\ Update(empty, a2, none).config = empty.config
          /\ Update(empty, a2, none).conn = Answered(Asked(empty.conn), a2)
          /\ Update(empty, a2, none).sendQueue = empty.sendQueue
          /\ Update(empty, a2, none).pending = empty.pending \o none
      BY ONLY <2>3, a2 \in Answers, Updates
    <2> QED
      BY ONLY <2>2, <2>4
  <1>4. round.device = last /\ round.messages = IF first.conn = "JOINED" /\ first.sendQueue # <<>>
                                                THEN <<Message(from, first.sendQueue)>> ELSE <<>>
    BY DEF ThreadRound, IsConnected
  <1> HIDE DEF first, empty, last
  <1>5. last.pending = d.pending \o messages
    <2>1. empty.pending \in Seq(M)
      BY <1>2 DEF IsDevice
    <2> QED
      BY <1>1, <1>2, <1>3, <2>1, ConcatEmptySeq
  <1>6. d.conn \in Conns /\ first.conn \in Conns
    BY <1>1 DEF IsDevice
  <1>7. /\ first.conn \in Early => d.conn \in Early
        /\ first.conn = "JOINED" => d.conn \in Early \cup {"JOINED"}
    BY <1>1, <1>6, AnsweredConn
  <1>8. /\ last.conn \in Early => first.conn \in Early
        /\ last.conn = "JOINED" => first.conn \in Early \cup {"JOINED"}
    BY <1>2, <1>3, <1>6, AnsweredConn
  <1>9. ASSUME d.conn = "JOINED", last.conn = "JOINED" PROVE first.conn = "JOINED"
    BY <1>7, <1>8, <1>9 DEF Early
  <1>10. round.device.conn = "JOINED" => d.conn \in Early \cup {"JOINED"}
    BY <1>4, <1>7, <1>8
  <1> QED
    BY <1>1, <1>2, <1>3, <1>4, <1>5, <1>7, <1>8, <1>9, <1>10 DEF IsRound

-----------------------------------------------------------------------------
(* The steps.                                                              *)

\* A step changes the device of one program, and not its configuration.
LEMMA OneDevice ==
    ASSUME TypeInv, NEW p \in Sharers, NEW d, photon' = [photon EXCEPT ![p] = d],
           IsDevice(d, Gift, Mail), d.config = photon[p].config
    PROVE  /\ Sharers' = Sharers /\ photon' = [r \in Sharers |-> photon'[r]]
           /\ photon'[p] = d /\ \A r \in Sharers : r # p => photon'[r] = photon[r]
           /\ \A r \in Sharers : IsDevice(photon'[r], Gift, Mail)
           /\ \A r \in Sharers : Gifts(r)' = Gifts(r)
           /\ Gift' = Gift /\ Mail' = Mail
  <1>1. photon = [r \in Sharers |-> photon[r]] /\ \A r \in Sharers : IsDevice(photon[r], Gift, Mail)
    BY DEF TypeInv
  <1>2. /\ Sharers' = Sharers /\ photon' = [r \in Sharers |-> photon'[r]]
        /\ photon'[p] = d /\ \A r \in Sharers : r # p => photon'[r] = photon[r]
    BY <1>1 DEF Sharers
  <1>3. \A r \in Sharers : IsDevice(photon'[r], Gift, Mail)
    BY <1>1, <1>2
  <1>4. ASSUME NEW r \in Sharers PROVE Gifts(r)' = Gifts(r)
    <2>1. photon'[r].config = photon[r].config
      BY <1>2
    <2>2. \A e : Renamed(photon'[r], e) = Renamed(photon[r], e)
      BY <2>1 DEF Renamed
    <2>3. \A e : Whitelisted(photon'[r], e) <=> Whitelisted(photon[r], e)
      BY <2>1 DEF Whitelisted
    <2>4. Own(r)' = Own(r)
      BY <2>3 DEF Own
    <2> QED
      BY <2>2, <2>4 DEF Gifts
  <1>5. Gift' = Gift
    BY <1>2, <1>4 DEF Gift
  <1>6. Mail' = Mail
    BY <1>2, <1>5 DEF Mail, Messages
  <1> QED
    BY <1>2, <1>3, <1>4, <1>5, <1>6

\* What has reached a program stays the same as long as its messages do.
LEMMA FlowSame ==
    ASSUME NEW p, NEW q, taken'[p] = taken[p], photon'[p].pending = photon[p].pending,
           inbox'[p] = inbox[p]
    PROVE  Flow(p, q)' = Flow(p, q)
  BY DEF Flow, Took

\* A poll gives events away: the queue and what has been given grow alike.
LEMMA ShareStep ==
    ASSUME Inv, NEW p \in Sharers, NEW inputEvents \in Seq(Events[p]), Share(p, inputEvents)
    PROVE  Inv'
  <1> USE DEF Inv
  <1>1. PICK sent, old, queue : /\ sent = NewlySent(photon[p], inputEvents) /\ old = photon[p].sendQueue
                                /\ queue = old \o sent
    OBVIOUS
  <1>2. IsDevice(photon[p], Gift, Mail) /\ IsConnected(photon[p])
    BY DEF TypeInv, Share, SharesEvents
  <1>3. sent \in Seq(Gifts(p)) /\ sent \in Seq(Gift) /\ old \in Seq(Gift) /\ queue \in Seq(Gift)
    <2>1. sent \in Seq(Gifts(p))
      BY <1>1, <1>2, NewlySentType DEF IsDevice
    <2>2. sent \in Seq(Gift)
      BY <2>1, GiftsAreGift
    <2> QED
      BY <1>1, <1>2, <2>1, <2>2, ConcatProperties DEF IsDevice
  <1>4. PICK d : /\ d = SendNewEvents(photon[p], inputEvents) /\ IsDevice(d, Gift, Mail)
                 /\ d.config = photon[p].config /\ d.conn = photon[p].conn
                 /\ d.pending = photon[p].pending /\ d.sendQueue = queue
    <2>1. PICK was : was = photon[p]
      OBVIOUS
    <2>2. IsDevice(was, Gift, Mail) /\ NewlySent(was, inputEvents) = sent
      BY <1>1, <1>2, <2>1
    <2>3. PICK n \in Nat : SendNewEvents(was, inputEvents) =
              Device(was.config, was.conn, was.sendQueue \o NewlySent(was, inputEvents),
                     was.pending, n, was.running)
      BY <1>3, <2>2, Sends
    <2>4. PICK d : d = Device(was.config, was.conn, queue, was.pending, n, was.running)
      OBVIOUS
    <2>5. d = SendNewEvents(photon[p], inputEvents)
      BY <1>1, <2>1, <2>2, <2>3, <2>4
    <2>6. /\ d = [x \in Fields |-> d[x]] /\ d.config = was.config /\ d.conn = was.conn
          /\ d.sendQueue = queue /\ d.pending = was.pending /\ d.lastsend = n
      BY ONLY <2>4, DeviceFields
    <2>7. IsDevice(d, Gift, Mail)
      BY <1>3, <2>2, <2>6 DEF IsDevice
    <2> QED
      BY <2>1, <2>5, <2>6, <2>7
  <1>5. photon' = [photon EXCEPT ![p] = d]
    BY <1>4 DEF Share
  <1>6. /\ Sharers' = Sharers /\ photon' = [r \in Sharers |-> photon'[r]]
        /\ photon'[p] = d /\ \A r \in Sharers : r # p => photon'[r] = photon[r]
        /\ \A r \in Sharers : IsDevice(photon'[r], Gift, Mail)
        /\ \A r \in Sharers : Gifts(r)' = Gifts(r)
        /\ Gift' = Gift /\ Mail' = Mail
    BY <1>4, <1>5, OneDevice
  <1>7. /\ inbox' = inbox /\ taken' = taken
        /\ given'[p] = given[p] \o sent /\ \A r \in Sharers : r # p => given'[r] = given[r]
        /\ given' \in [Sharers -> Seq(Gift)] /\ \A r \in Sharers : given'[r] \in Seq(Gifts(r))
    <2>1. given[p] \in Seq(Gift) /\ given[p] \in Seq(Gifts(p)) /\ given \in [Sharers -> Seq(Gift)]
      BY DEF TypeInv
    <2>2. PICK more : more = given[p] \o sent
      OBVIOUS
    <2>3. more \in Seq(Gift) /\ more \in Seq(Gifts(p))
      BY <1>3, <2>1, <2>2, ConcatProperties
    <2>4. given' = [given EXCEPT ![p] = more] /\ inbox' = inbox /\ taken' = taken
      BY <1>1, <2>2 DEF Share
    <2>5. given'[p] = more /\ \A r \in Sharers : r # p => given'[r] = given[r]
      BY <2>1, <2>4
    <2>6. given' \in [Sharers -> Seq(Gift)]
      BY <2>1, <2>3, <2>4
    <2> QED
      BY <2>2, <2>3, <2>4, <2>5, <2>6 DEF TypeInv
  <1>8. TypeInv'
    BY <1>6, <1>7 DEF TypeInv
  <1>9. \A r \in Sharers : /\ photon'[r].conn = photon[r].conn
                           /\ photon'[r].pending = photon[r].pending
    BY <1>4, <1>6
  <1>10. QueueInv'
    <2> SUFFICES ASSUME NEW r \in Sharers
                 PROVE  /\ photon'[r].conn \in Early => Untouched(r)'
                        /\ IsConnected(photon'[r]) => EndsIn(Gift, given'[r], photon'[r].sendQueue)
      BY <1>6 DEF QueueInv
    <2>1. CASE r = p
      <3>1. photon'[p].conn \notin Early
        BY <1>2, <1>9 DEF IsConnected, Early
      <3>2. EndsIn(Gift, given[p], old)
        BY <1>1, <1>2 DEF QueueInv
      <3>3. EndsIn(Gift, given[p] \o sent, old \o sent)
        BY <1>3, <3>2, EndsInGrows DEF TypeInv
      <3> QED
        BY <1>1, <1>4, <1>6, <1>7, <2>1, <3>1, <3>3
    <2>2. CASE r # p
      BY <1>6, <1>7, <2>2 DEF QueueInv, Untouched
    <2> QED
      BY <2>1, <2>2
  <1>11. FlowInv'
    <2> SUFFICES ASSUME NEW r \in Sharers, NEW q \in Sharers, r # q
                 PROVE  /\ Contains(Gift, given'[q], Flow(r, q)')
                        /\ {r, q} \subseteq Members' =>
                               EndsIn(Gift, given'[q], Flow(r, q)' \o photon'[q].sendQueue)
      BY <1>6 DEF FlowInv
    <2>1. Flow(r, q)' = Flow(r, q)
      BY <1>7, <1>9, FlowSame
    <2>2. Members' = Members
      BY <1>6, <1>9 DEF Members, IsConnected
    <2>3. PICK flow \in Seq(Gift) : flow = Flow(r, q)
      BY FlowType
    <2>4. /\ Contains(Gift, given[q], flow)
          /\ {r, q} \subseteq Members => EndsIn(Gift, given[q], flow \o photon[q].sendQueue)
      BY <2>3 DEF FlowInv
    <2>5. CASE q # p
      BY <1>6, <1>7, <2>1, <2>2, <2>3, <2>4, <2>5
    <2>6. CASE q = p
      <3>1. given[p] \in Seq(Gift)
        BY DEF TypeInv
      <3>2. Contains(Gift, given[p] \o sent, flow)
        BY <1>3, <2>4, <2>6, <3>1, ContainsGrows
      <3>3. ASSUME {r, p} \subseteq Members
            PROVE  EndsIn(Gift, given[p] \o sent, flow \o (old \o sent))
        <4>1. PICK all \in Seq(Gift) : all = flow \o old
          BY <1>3, ConcatProperties
        <4>2. EndsIn(Gift, given[p], all)
          BY <1>1, <2>4, <2>6, <3>3, <4>1
        <4>3. EndsIn(Gift, given[p] \o sent, all \o sent)
          BY ONLY <1>3, <3>1, <4>1, <4>2, EndsInGrows
        <4>4. (flow \o old) \o sent = flow \o (old \o sent)
          <5>1. Then(Then(flow, old), sent) = Then(flow, Then(old, sent))
            BY ONLY <1>3, flow \in Seq(Gift), ThenAssociative
          <5> QED
            BY <5>1 DEF Then
        <4> QED
          BY ONLY <4>1, <4>3, <4>4
      <3> QED
        BY <1>1, <1>4, <1>6, <1>7, <2>1, <2>2, <2>3, <2>6, <3>2, <3>3
    <2> QED
      BY <2>5, <2>6
  <1> QED
    BY <1>8, <1>10, <1>11

\* The main thread takes what has come, which counted before.
LEMMA TakeStep ==
    ASSUME Inv, NEW p \in Sharers, Take(p)
    PROVE  Inv'
  <1> USE DEF Inv
  <1>1. IsDevice(photon[p], Gift, Mail)
    BY DEF TypeInv
  <1>2. PICK got, was, all : got = photon[p].pending /\ was = taken[p] /\ all = was \o got
    OBVIOUS
  <1>3. got \in Seq(Mail) /\ was \in Seq(Mail) /\ all \in Seq(Mail)
    BY <1>1, <1>2, ConcatProperties DEF IsDevice, TypeInv
  <1>4. PICK d : /\ d = TakePending(photon[p]) /\ IsDevice(d, Gift, Mail)
                 /\ d.config = photon[p].config /\ d.conn = photon[p].conn
                 /\ d.pending = <<>> /\ d.sendQueue = photon[p].sendQueue
    <2>1. PICK old, none : old = photon[p] /\ none = <<>>
      OBVIOUS
    <2>2. old = [x \in Fields |-> old[x]] /\ none \in Seq(Mail)
      BY <1>1, <2>1, EmptySeq DEF IsDevice
    <2>3. [old EXCEPT !.pending = none]
              = Device(old.config, old.conn, old.sendQueue, none, old.lastsend, old.running)
      BY ONLY <2>2, PendingChanged
    <2>4. PICK d : d = Device(old.config, old.conn, old.sendQueue, none, old.lastsend, old.running)
      OBVIOUS
    <2>5. d = TakePending(photon[p])
      BY <2>1, <2>3, <2>4 DEF TakePending
    <2>6. /\ d = [x \in Fields |-> d[x]] /\ d.config = old.config /\ d.conn = old.conn
          /\ d.sendQueue = old.sendQueue /\ d.pending = none /\ d.lastsend = old.lastsend
      BY ONLY <2>4, DeviceFields
    <2>7. IsDevice(d, Gift, Mail)
      BY <1>1, <2>1, <2>2, <2>6 DEF IsDevice
    <2> QED
      BY <2>1, <2>5, <2>6, <2>7
  <1>5. photon' = [photon EXCEPT ![p] = d]
    BY <1>4 DEF Take
  <1>6. /\ Sharers' = Sharers /\ photon' = [r \in Sharers |-> photon'[r]]
        /\ photon'[p] = d /\ \A r \in Sharers : r # p => photon'[r] = photon[r]
        /\ \A r \in Sharers : IsDevice(photon'[r], Gift, Mail)
        /\ \A r \in Sharers : Gifts(r)' = Gifts(r)
        /\ Gift' = Gift /\ Mail' = Mail
    BY <1>4, <1>5, OneDevice
  <1>7. /\ inbox' = inbox /\ given' = given
        /\ taken'[p] = all /\ \A r \in Sharers : r # p => taken'[r] = taken[r]
        /\ taken' \in [Sharers -> Seq(Mail)]
    <2>1. taken' = [taken EXCEPT ![p] = all] /\ taken \in [Sharers -> Seq(Mail)]
      BY <1>2 DEF Take, TypeInv
    <2> QED
      BY <1>3, <2>1 DEF Take
  <1>8. TypeInv'
    BY <1>6, <1>7 DEF TypeInv
  <1>9. \A r \in Sharers : /\ photon'[r].conn = photon[r].conn
                           /\ photon'[r].sendQueue = photon[r].sendQueue
    BY <1>4, <1>6
  <1>10. QueueInv'
    <2> SUFFICES ASSUME NEW r \in Sharers
                 PROVE  /\ photon'[r].conn \in Early => Untouched(r)'
                        /\ IsConnected(photon'[r]) => EndsIn(Gift, given'[r], photon'[r].sendQueue)
      BY <1>6 DEF QueueInv
    <2>1. IsConnected(photon'[r]) => EndsIn(Gift, given'[r], photon'[r].sendQueue)
      BY <1>7, <1>9 DEF QueueInv, IsConnected
    <2>2. ASSUME photon'[r].conn \in Early PROVE Untouched(r)'
      <3>1. Untouched(r)
        BY <1>9, <2>2 DEF QueueInv
      <3>2. CASE r = p
        <4>1. all = <<>>
          BY <1>2, <1>3, <3>1, <3>2, ConcatEmptySeq DEF Untouched
        <4> QED
          BY <1>4, <1>6, <1>7, <3>1, <3>2, <4>1 DEF Untouched
      <3>3. CASE r # p
        BY <1>6, <1>7, <3>1, <3>3 DEF Untouched
      <3> QED
        BY <3>2, <3>3
    <2> QED
      BY <2>1, <2>2
  <1>11. \A r \in Sharers : \A q : Flow(r, q)' = Flow(r, q)
    <2> SUFFICES ASSUME NEW r \in Sharers, NEW q PROVE Flow(r, q)' = Flow(r, q)
      OBVIOUS
    <2>1. CASE r # p
      BY <1>6, <1>7, <2>1, FlowSame
    <2>2. CASE r = p
      <3>1. PICK had, now, rest : /\ had = EventsOf(q, was) /\ now = EventsOf(q, got)
                                  /\ rest = EventsOf(q, inbox[p])
        OBVIOUS
      <3>2. had \in Seq(Gift) /\ now \in Seq(Gift) /\ rest \in Seq(Gift)
        BY <1>2, <3>1, FlowType DEF Took
      <3>3. EventsOf(q, all) = had \o now
        <4>1. was \in Seq(Messages(Sharers, Gift)) /\ got \in Seq(Messages(Sharers, Gift))
          BY <1>3 DEF Mail
        <4>2. EventsOf(q, was \o got) = EventsOf(q, was) \o EventsOf(q, got)
          BY ONLY <4>1, EventsOfConcat
        <4> QED
          BY ONLY <1>2, <3>1, <4>2
      <3>4. Flow(p, q)' = Then(Then(had, now), Then(<<>>, rest))
        BY <1>4, <1>6, <1>7, <3>1, <3>3, EventsOfEmpty DEF Flow, Took, Then
      <3>5. Then(<<>>, rest) = rest
        BY <3>2, ConcatEmptySeq DEF Then
      <3>6. Then(Then(had, now), rest) = Then(had, Then(now, rest))
        BY <3>2, ThenAssociative
      <3>7. Flow(p, q) = Then(had, Then(now, rest))
        BY <1>2, <3>1 DEF Flow, Took, Then
      <3> QED
        BY <2>2, <3>4, <3>5, <3>6, <3>7
    <2> QED
      BY <2>1, <2>2
  <1>12. Members' = Members
    BY <1>6, <1>9 DEF Members, IsConnected
  <1>13. FlowInv'
    BY <1>6, <1>7, <1>9, <1>11, <1>12 DEF FlowInv
  <1> QED
    BY <1>8, <1>10, <1>13

\* A program leaves the room.
LEMMA QuitStep ==
    ASSUME Inv, NEW p \in Sharers, Quit(p)
    PROVE  Inv'
  <1> USE DEF Inv
  <1>1. IsDevice(photon[p], Gift, Mail)
    BY DEF TypeInv
  <1>2. PICK d : /\ d = Leave(photon[p]) /\ IsDevice(d, Gift, Mail)
                 /\ d.config = photon[p].config /\ d.conn = "LEAVING"
                 /\ d.pending = photon[p].pending /\ d.sendQueue = photon[p].sendQueue
    <2>1. PICK old, conn, running : old = photon[p] /\ conn = "LEAVING" /\ running = FALSE
      OBVIOUS
    <2>2. old = [x \in Fields |-> old[x]]
      BY <1>1, <2>1 DEF IsDevice
    <2>3. [old EXCEPT !.running = running, !.conn = conn]
              = Device(old.config, conn, old.sendQueue, old.pending, old.lastsend, running)
      BY ONLY <2>2, RunningChanged
    <2>4. PICK d : d = Device(old.config, conn, old.sendQueue, old.pending, old.lastsend, running)
      OBVIOUS
    <2>5. d = Leave(photon[p])
      BY <2>1, <2>3, <2>4 DEF Leave
    <2>6. /\ d = [x \in Fields |-> d[x]] /\ d.config = old.config /\ d.conn = conn
          /\ d.sendQueue = old.sendQueue /\ d.pending = old.pending /\ d.lastsend = old.lastsend
      BY ONLY <2>4, DeviceFields
    <2>7. IsDevice(d, Gift, Mail)
      BY <1>1, <2>1, <2>6 DEF IsDevice, Conns
    <2> QED
      BY <2>1, <2>5, <2>6, <2>7
  <1>3. photon' = [photon EXCEPT ![p] = d]
    BY <1>2 DEF Quit
  <1>4. /\ Sharers' = Sharers /\ photon' = [r \in Sharers |-> photon'[r]]
        /\ photon'[p] = d /\ \A r \in Sharers : r # p => photon'[r] = photon[r]
        /\ \A r \in Sharers : IsDevice(photon'[r], Gift, Mail)
        /\ \A r \in Sharers : Gifts(r)' = Gifts(r)
        /\ Gift' = Gift /\ Mail' = Mail
    BY <1>1, <1>2, <1>3, OneDevice
  <1>5. inbox' = inbox /\ given' = given /\ taken' = taken
    BY DEF Quit
  <1>6. TypeInv'
    BY <1>4, <1>5 DEF TypeInv
  <1>7. \A r \in Sharers : /\ photon'[r].pending = photon[r].pending
                           /\ photon'[r].sendQueue = photon[r].sendQueue
    BY <1>2, <1>4
  <1>8. \A r \in Sharers : photon'[r].conn \in Early \cup {"JOINED"} => photon'[r].conn = photon[r].conn
    BY <1>2, <1>4 DEF Early
  <1>9. QueueInv'
    <2> SUFFICES ASSUME NEW r \in Sharers
                 PROVE  /\ photon'[r].conn \in Early => Untouched(r)'
                        /\ IsConnected(photon'[r]) => EndsIn(Gift, given'[r], photon'[r].sendQueue)
      BY <1>4 DEF QueueInv
    <2>1. photon'[r].conn \in Early => Untouched(r)'
      BY <1>5, <1>7, <1>8 DEF QueueInv, Untouched
    <2>2. IsConnected(photon'[r]) => EndsIn(Gift, given'[r], photon'[r].sendQueue)
      BY <1>5, <1>7, <1>8 DEF QueueInv, IsConnected
    <2> QED
      BY <2>1, <2>2
  <1>10. \A r \in Sharers : \A q : Flow(r, q)' = Flow(r, q)
    BY <1>5, <1>7, FlowSame
  <1>11. Members' \subseteq Members
    BY <1>4, <1>8 DEF Members, IsConnected
  <1>12. FlowInv'
    BY <1>4, <1>5, <1>7, <1>10, <1>11 DEF FlowInv
  <1> QED
    BY <1>6, <1>9, <1>12

\* A round of the thread: what has come waits for the main thread, and what was in the queue
\* of a program that has joined has reached all the others.
LEMMA UpdateStep ==
    ASSUME Inv, NEW p \in Sharers, UpdateThread(p)
    PROVE  Inv'
  <1> USE DEF Inv
  <1>1. PICK old, mine, sq : old = photon[p] /\ mine = inbox[p] /\ sq = old.sendQueue
    OBVIOUS
  <1>2. IsDevice(old, Gift, Mail) /\ mine \in Seq(Mail) /\ sq \in Seq(Gift)
    BY <1>1 DEF TypeInv, IsDevice
  <1>3. PICK d, mails :
            /\ IsDevice(d, Gift, Mail) /\ d.config = old.config /\ d.sendQueue = <<>>
            /\ d.pending = old.pending \o mine
            /\ d.conn \in Early => old.conn \in Early
            /\ d.conn = "JOINED" => old.conn \in Early \cup {"JOINED"}
            /\ \/ mails = <<>>
               \/ old.conn \in Early \cup {"JOINED"} /\ sq # <<>> /\ mails = <<Message(p, sq)>>
            /\ old.conn = "JOINED" /\ d.conn = "JOINED" /\ sq # <<>> => mails = <<Message(p, sq)>>
            /\ photon' = [photon EXCEPT ![p] = d]
            /\ inbox' = [q \in Sharers |-> IF q = p THEN <<>> ELSE
                            IF q \in Members THEN inbox[q] \o mails ELSE inbox[q]]
    <2>1. PICK a1 \in Answers, a2 \in Answers :
              LET round == ThreadRound(photon[p], p, a1, a2, inbox[p]) IN
              /\ photon' = [photon EXCEPT ![p] = round.device]
              /\ inbox' = [q \in Sharers |-> IF q = p THEN <<>> ELSE
                             IF q \in Members THEN inbox[q] \o round.messages ELSE inbox[q]]
      BY DEF UpdateThread
    <2>2. PICK round : round = ThreadRound(old, p, a1, a2, mine)
      OBVIOUS
    <2>3. IsDevice(round.device, Gift, Mail) /\ IsRound(old, p, mine, round)
      BY ONLY <1>2, <2>2, a1 \in Answers, a2 \in Answers, Rounds
    <2>4. PICK d, mails : d = round.device /\ mails = round.messages
      OBVIOUS
    <2>5. /\ photon' = [photon EXCEPT ![p] = d]
          /\ inbox' = [q \in Sharers |-> IF q = p THEN <<>> ELSE
                         IF q \in Members THEN inbox[q] \o mails ELSE inbox[q]]
      BY ONLY <1>1, <2>1, <2>2, <2>4
    <2> QED
      BY ONLY <1>1, <2>3, <2>4, <2>5 DEF IsRound
  <1>4. /\ Sharers' = Sharers /\ photon' = [r \in Sharers |-> photon'[r]]
        /\ photon'[p] = d /\ \A r \in Sharers : r # p => photon'[r] = photon[r]
        /\ \A r \in Sharers : IsDevice(photon'[r], Gift, Mail)
        /\ \A r \in Sharers : Gifts(r)' = Gifts(r)
        /\ Gift' = Gift /\ Mail' = Mail
    <2>1. photon' = [photon EXCEPT ![p] = d] /\ IsDevice(d, Gift, Mail) /\ d.config = photon[p].config
      BY <1>1, <1>3
    <2> QED
      BY ONLY Inv, <2>1, p \in Sharers, OneDevice
  <1>5. old.conn \in Early => Untouched(p)
    BY <1>1 DEF QueueInv
  <1>6. \/ mails = <<>>
        \/ p \in Members /\ sq # <<>> /\ mails = <<Message(p, sq)>>
    BY <1>1, <1>3, <1>5 DEF Members, IsConnected, Untouched
  <1>7. Message(p, sq) \in Mail /\ mails \in Seq(Mail)
    <2>1. PICK m : m = Message(p, sq)
      OBVIOUS
    <2>2. m \in Mail
      BY <1>2, <2>1 DEF Mail, Messages, Message
    <2>3. <<m>> \in Seq(Mail) /\ <<>> \in Seq(Mail)
      BY ONLY <2>2, EmptySeq
    <2> QED
      BY ONLY <1>6, <2>1, <2>2, <2>3
  <1>8. /\ taken' = taken /\ given' = given /\ inbox'[p] = <<>>
        /\ \A r \in Sharers : r # p => inbox'[r] = IF r \in Members THEN inbox[r] \o mails ELSE inbox[r]
        /\ inbox' \in [Sharers -> Seq(Mail)]
    <2>1. taken' = taken /\ given' = given
      BY DEF UpdateThread
    <2>2. \A r \in Sharers : inbox[r] \in Seq(Mail)
      BY DEF TypeInv
    <2>3. \A r \in Sharers : inbox[r] \o mails \in Seq(Mail)
      BY <1>7, <2>2, ConcatProperties
    <2>4. <<>> \in Seq(Mail)
      BY EmptySeq
    <2>5. inbox'[p] = <<>>
      BY <1>3
    <2>6. \A r \in Sharers : r # p => inbox'[r] = IF r \in Members THEN inbox[r] \o mails ELSE inbox[r]
      BY <1>3
    <2>7. inbox' \in [Sharers -> Seq(Mail)]
      BY ONLY <1>3, <2>2, <2>3, <2>4
    <2> QED
      BY <2>1, <2>5, <2>6, <2>7
  <1>9. TypeInv'
    BY <1>4, <1>8 DEF TypeInv
  <1>10. /\ \A r \in Sharers : r # p => (r \in Members' <=> r \in Members)
         /\ p \in Members' => d.conn = "JOINED" /\ (p \in Members \/ old.conn \in Early)
    BY <1>1, <1>3, <1>4 DEF Members, IsConnected
  <1>11. QueueInv'
    <2> SUFFICES ASSUME NEW r \in Sharers
                 PROVE  /\ photon'[r].conn \in Early => Untouched(r)'
                        /\ IsConnected(photon'[r]) => EndsIn(Gift, given'[r], photon'[r].sendQueue)
      BY <1>4 DEF QueueInv
    <2>1. CASE r = p
      <3>1. EndsIn(Gift, given'[p], photon'[p].sendQueue)
        BY <1>3, <1>4, <1>8, EndsInNothing DEF TypeInv
      <3>2. ASSUME d.conn \in Early PROVE Untouched(p)'
        <4>1. Untouched(p)
          BY <1>3, <1>5, <3>2
        <4>2. d.pending = <<>>
          <5>1. old.pending = <<>> /\ mine = <<>>
            BY <1>1, <4>1 DEF Untouched
          <5> QED
            BY <1>2, <1>3, <5>1, ConcatEmptySeq
        <4> QED
          BY <1>3, <1>4, <1>8, <4>1, <4>2 DEF Untouched
      <3> QED
        BY <1>4, <2>1, <3>1, <3>2
    <2>2. CASE r # p
      <3>1. IsConnected(photon'[r]) => EndsIn(Gift, given'[r], photon'[r].sendQueue)
        BY <1>4, <1>8, <2>2 DEF QueueInv
      <3>2. ASSUME photon[r].conn \in Early PROVE Untouched(r)'
        <4>1. Untouched(r) /\ r \notin Members
          BY <3>2 DEF QueueInv, Members, IsConnected, Early
        <4> QED
          BY <1>4, <1>8, <2>2, <4>1 DEF Untouched
      <3> QED
        BY <1>4, <2>2, <3>1, <3>2
    <2> QED
      BY <2>1, <2>2
  <1>12. \A q : EventsOf(q, mails) = IF q = p /\ mails # <<>> THEN sq ELSE <<>>
    <2> TAKE q
    <2>1. CASE mails = <<>>
      BY <2>1, EventsOfEmpty
    <2>2. CASE mails = <<Message(p, sq)>> /\ mails # <<>>
      <3>1. PICK m : m = Message(p, sq)
        OBVIOUS
      <3>2. m \in Messages(Sharers, Gift) /\ m.from = p /\ m.events = sq
        BY <1>7, <3>1 DEF Mail, Message
      <3>3. EventsOf(q, <<m>>) = IF m.from = q THEN m.events ELSE <<>>
        BY ONLY <3>2, EventsOfSingle
      <3> QED
        BY <2>2, <3>1, <3>2, <3>3
    <2>3. mails = <<Message(p, sq)>> => mails # <<>>
      OBVIOUS
    <2> QED
      BY <1>6, <2>1, <2>2, <2>3
  <1>13. \A q : Flow(p, q)' = Flow(p, q)
    <2> TAKE q
    <2>1. PICK had, now, rest : /\ had = Took(p, q) /\ now = EventsOf(q, old.pending)
                                /\ rest = EventsOf(q, mine)
      OBVIOUS
    <2>2. had \in Seq(Gift) /\ now \in Seq(Gift) /\ rest \in Seq(Gift)
      BY <1>1, <2>1, FlowType
    <2>3. EventsOf(q, d.pending) = now \o rest
      <3>1. old.pending \in Seq(Messages(Sharers, Gift)) /\ mine \in Seq(Messages(Sharers, Gift))
        BY <1>2 DEF Mail, IsDevice
      <3>2. PICK came : came = old.pending
        OBVIOUS
      <3>3. EventsOf(q, came \o mine) = EventsOf(q, came) \o EventsOf(q, mine)
        BY ONLY <3>1, <3>2, EventsOfConcat
      <3> QED
        BY ONLY <1>3, <2>1, <3>2, <3>3
    <2>4. PICK both : both = now \o rest
      OBVIOUS
    <2>5. both \in Seq(Gift)
      BY <2>2, <2>4, ConcatProperties
    <2>6. Flow(p, q)' = Then(had, Then(both, <<>>))
      BY <1>4, <1>8, <2>1, <2>3, <2>4, EventsOfEmpty DEF Flow, Took, Then
    <2>7. Then(both, <<>>) = both
      BY <2>5, ConcatEmptySeq DEF Then
    <2>8. Flow(p, q) = Then(had, both)
      BY <1>1, <2>1, <2>4 DEF Flow, Then
    <2> QED
      BY <2>6, <2>7, <2>8
  <1>14. \A r \in Sharers : \A q : r # p /\ r \notin Members => Flow(r, q)' = Flow(r, q)
    BY <1>4, <1>8, FlowSame
  <1>15. ASSUME NEW r \in Members, r # p, NEW q
         PROVE  Flow(r, q)' = Then(Flow(r, q), EventsOf(q, mails))
    <2>1. r \in Sharers
      BY DEF Members
    <2>2. PICK had, now, rest, more : /\ had = Took(r, q) /\ now = EventsOf(q, photon[r].pending)
                                      /\ rest = EventsOf(q, inbox[r]) /\ more = EventsOf(q, mails)
      OBVIOUS
    <2>3. had \in Seq(Gift) /\ now \in Seq(Gift) /\ rest \in Seq(Gift)
      BY <2>1, <2>2, FlowType
    <2>4. more \in Seq(Gift)
      BY <1>2, <1>12, <2>2, EmptySeq
    <2>5. EventsOf(q, inbox'[r]) = rest \o more
      <3>1. PICK came : came = inbox[r]
        OBVIOUS
      <3>2. came \in Seq(Messages(Sharers, Gift)) /\ mails \in Seq(Messages(Sharers, Gift))
        BY <1>7, <2>1, <3>1 DEF Mail, TypeInv
      <3>3. EventsOf(q, came \o mails) = EventsOf(q, came) \o EventsOf(q, mails)
        BY ONLY <3>2, EventsOfConcat
      <3>4. inbox'[r] = came \o mails
        BY <1>8, <1>15, <2>1, <3>1
      <3> QED
        BY ONLY <2>2, <3>1, <3>3, <3>4
    <2>6. Flow(r, q)' = Then(had, Then(now, Then(rest, more)))
      BY <1>4, <1>8, <1>15, <2>1, <2>2, <2>5 DEF Flow, Took, Then
    <2>7. Flow(r, q) = Then(had, Then(now, rest))
      BY <2>2 DEF Flow, Then
    <2>8. Then(now, Then(rest, more)) = Then(Then(now, rest), more) /\ Then(now, rest) \in Seq(Gift)
      BY <2>3, <2>4, ThenAssociative
    <2>9. Then(had, Then(Then(now, rest), more)) = Then(Then(had, Then(now, rest)), more)
      BY <2>3, <2>4, <2>8, ThenAssociative
    <2> QED
      BY <2>2, <2>6, <2>7, <2>8, <2>9
  <1>16. FlowInv'
    <2> SUFFICES ASSUME NEW r \in Sharers, NEW q \in Sharers, r # q
                 PROVE  /\ Contains(Gift, given[q], Flow(r, q)')
                        /\ {r, q} \subseteq Members' =>
                               EndsIn(Gift, given[q], Flow(r, q)' \o photon'[q].sendQueue)
      BY <1>4, <1>8 DEF FlowInv
    <2>1. PICK flow : flow = Flow(r, q)
      OBVIOUS
    <2>2. /\ flow \in Seq(Gift) /\ given[q] \in Seq(Gift) /\ photon[q].sendQueue \in Seq(Gift)
          /\ Contains(Gift, given[q], flow)
          /\ {r, q} \subseteq Members => EndsIn(Gift, given[q], flow \o photon[q].sendQueue)
      BY <2>1, FlowType DEF FlowInv, TypeInv, IsDevice
    <2>3. PICK none : none = <<>> /\ none \in Seq(Gift)
      BY EmptySeq
    <2>4. \A s \in Seq(Gift) : Then(s, none) = s /\ Then(none, s) = s
      BY <2>3, ConcatEmptySeq DEF Then
    <2>5. CASE r = p
      <3>1. Flow(r, q)' = flow /\ photon'[q] = photon[q]
        BY <1>4, <1>13, <2>1, <2>5
      <3>2. ASSUME {r, q} \subseteq Members' PROVE EndsIn(Gift, given[q], flow \o photon[q].sendQueue)
        <4>1. q \in Members /\ (r \in Members \/ old.conn \in Early)
          BY <1>10, <2>5, <3>2
        <4>2. CASE r \in Members
          BY <2>2, <4>1, <4>2
        <4>3. CASE old.conn \in Early
          <5>1. Untouched(r)
            BY <1>5, <2>5, <4>3
          <5>2. Took(r, q) = none /\ EventsOf(q, photon[r].pending) = none /\ EventsOf(q, inbox[r]) = none
            BY <2>3, <5>1, EventsOfEmpty DEF Untouched, Took
          <5>3. flow = Then(none, Then(none, none))
            BY <2>1, <5>2 DEF Flow, Then
          <5>4. flow = none
            BY <2>3, <2>4, <5>3
          <5>5. Then(flow, photon[q].sendQueue) = photon[q].sendQueue
            BY <2>2, <2>4, <5>4
          <5>6. EndsIn(Gift, given[q], photon[q].sendQueue)
            BY <4>1 DEF QueueInv, Members
          <5> QED
            BY <5>5, <5>6 DEF Then
        <4> QED
          BY <4>1, <4>2, <4>3
      <3> QED
        BY <2>2, <3>1, <3>2
    <2>6. CASE r # p /\ q # p
      <3>1. Flow(r, q)' = flow
        <4>1. CASE r \in Members
          BY <1>12, <1>15, <2>1, <2>2, <2>3, <2>4, <2>6, <4>1
        <4>2. CASE r \notin Members
          BY <1>14, <2>1, <2>6, <4>2
        <4> QED
          BY <4>1, <4>2
      <3>2. photon'[q] = photon[q] /\ ({r, q} \subseteq Members' => {r, q} \subseteq Members)
        BY <1>4, <1>10, <2>6
      <3> QED
        BY <2>2, <3>1, <3>2
    <2>7. CASE r # p /\ q = p /\ r \notin Members
      <3>1. Flow(r, q)' = flow /\ r \notin Members'
        BY <1>10, <1>14, <2>1, <2>7
      <3> QED
        BY <2>2, <3>1
    <2>8. CASE r # p /\ q = p /\ r \in Members
      <3>1. Flow(r, q)' = Then(flow, EventsOf(q, mails)) /\ photon'[q].sendQueue = none
        BY <1>3, <1>4, <1>15, <2>1, <2>3, <2>8
      <3>2. photon[q].sendQueue = sq
        BY <1>1, <2>8
      <3>3. CASE mails = <<>>
        <4>1. Flow(r, q)' = flow
          BY <1>12, <2>2, <2>3, <2>4, <3>1, <3>3
        <4>2. ASSUME q \in Members' PROVE EndsIn(Gift, given[q], Then(flow, none))
          <5>1. d.conn = "JOINED" /\ (q \in Members \/ old.conn \in Early)
            BY <1>10, <2>8, <4>2
          <5>2. CASE q \in Members
            <6>1. old.conn = "JOINED"
              BY <1>1, <2>8, <5>2 DEF Members, IsConnected
            <6>2. <<Message(p, sq)>> # <<>>
              OBVIOUS
            <6>3. sq = <<>>
              BY ONLY <1>3, <3>3, <5>1, <6>1, <6>2
            <6> QED
              BY <2>2, <2>3, <2>8, <3>2, <5>2, <6>3 DEF Then
          <5>3. CASE old.conn \in Early
            <6>1. given[q] = none
              BY <1>5, <2>3, <2>8, <5>3 DEF Untouched
            <6>2. Contains(Gift, <<>>, flow)
              BY <2>2, <2>3, <6>1
            <6>3. flow = none
              BY <2>2, <2>3, <6>2, NothingContains
            <6>4. EndsIn(Gift, none, none)
              BY <2>3, EndsInNothing
            <6> QED
              BY <2>2, <2>4, <6>1, <6>3, <6>4
          <5> QED
            BY <5>1, <5>2, <5>3
        <4> QED
          BY <2>2, <3>1, <4>1, <4>2 DEF Then
      <3>4. CASE p \in Members /\ mails = <<Message(p, sq)>>
        <4>1. PICK all : all = Then(flow, sq)
          OBVIOUS
        <4>2. all \in Seq(Gift)
          BY <1>2, <2>2, <4>1, ThenAssociative
        <4>3. mails # <<>>
          BY <3>4
        <4>4. Flow(r, q)' = all
          BY <1>12, <2>8, <3>1, <4>1, <4>3
        <4>5. EndsIn(Gift, given[q], all)
          BY <2>2, <2>8, <3>2, <3>4, <4>1 DEF Then
        <4>6. all \o none = all
          BY <2>4, <4>2 DEF Then
        <4>7. Contains(Gift, given[q], all)
          BY <2>2, <2>3, <4>2, <4>5, <4>6, EndsInContains
        <4> QED
          BY <3>1, <4>4, <4>5, <4>6, <4>7
      <3> QED
        BY <1>6, <3>3, <3>4
    <2> QED
      BY <2>5, <2>6, <2>7, <2>8
  <1> QED
    BY <1>9, <1>11, <1>16

\* At first nobody has joined.
LEMMA InvInit == RoomInit => Inv
  <1> SUFFICES ASSUME RoomInit PROVE Inv
    OBVIOUS
  <1>1. /\ photon = [p \in Sharers |-> Photon(photon[p].config)]
        /\ inbox = [p \in Sharers |-> <<>>]
        /\ given = [p \in Sharers |-> <<>>] /\ taken = [p \in Sharers |-> <<>>]
    BY DEF RoomInit
  <1>2. \A p \in Sharers : photon[p] = Photon(photon[p].config)
    BY <1>1
  <1>3. photon = [p \in Sharers |-> photon[p]]
    BY <1>1
  <1>4. <<>> \in Seq(Gift) /\ <<>> \in Seq(Mail) /\ \A p \in Sharers : <<>> \in Seq(Gifts(p))
    BY EmptySeq
  <1>5. ASSUME NEW p \in Sharers
        PROVE  /\ IsDevice(photon[p], Gift, Mail) /\ photon[p].conn = "INITIALIZED"
               /\ photon[p].sendQueue = <<>> /\ photon[p].pending = <<>>
    <2>1. PICK d, config, conn, none, n, running :
              /\ d = photon[p] /\ config = photon[p].config /\ conn = "INITIALIZED" /\ none = <<>>
              /\ n = 0 /\ running = TRUE
      OBVIOUS
    <2>2. d = Device(config, conn, none, none, n, running)
      BY <1>2, <2>1 DEF Photon, Device
    <2>3. /\ d = [x \in Fields |-> d[x]] /\ d.conn = conn
          /\ d.sendQueue = none /\ d.pending = none /\ d.lastsend = n
      BY ONLY <2>2, DeviceFields
    <2>4. none \in Seq(Gift) /\ none \in Seq(Mail) /\ conn \in Conns /\ n \in Nat
      BY <1>4, <2>1 DEF Conns, Early
    <2>5. IsDevice(d, Gift, Mail)
      BY ONLY <2>3, <2>4 DEF IsDevice
    <2> QED
      BY <2>1, <2>3, <2>5
  <1>6. \A p \in Sharers : given[p] = <<>> /\ taken[p] = <<>> /\ inbox[p] = <<>>
    BY <1>1
  <1>7. TypeInv
    BY <1>1, <1>3, <1>4, <1>5, <1>6 DEF TypeInv
  <1>8. QueueInv
    BY <1>5, <1>6, EndsInNothing, EmptySeq DEF QueueInv, Untouched, IsConnected
  <1>9. FlowInv
    <2> SUFFICES ASSUME NEW p \in Sharers, NEW q \in Sharers
                 PROVE  Contains(Gift, given[q], Flow(p, q)) /\ ~({p, q} \subseteq Members)
      BY DEF FlowInv
    <2>1. p \notin Members
      BY <1>5 DEF Members, IsConnected
    <2>2. PICK none : none = <<>> /\ none \in Seq(Gift)
      BY EmptySeq
    <2>3. Took(p, q) = none /\ EventsOf(q, photon[p].pending) = none /\ EventsOf(q, inbox[p]) = none
      BY <1>5, <1>6, <2>2, EventsOfEmpty DEF Took
    <2>4. Then(none, none) = none
      BY <2>2, ConcatEmptySeq DEF Then
    <2>5. Flow(p, q) = none
      BY <2>3, <2>4 DEF Flow, Then
    <2>6. Contains(Gift, none, none)
      BY <2>2, <2>4 DEF Contains, Then
    <2> QED
      BY <1>6, <2>1, <2>2, <2>5, <2>6
  <1> QED
    BY <1>7, <1>8, <1>9 DEF Inv

\* What a program of a Photon room takes from another one is, without gap, repetition or change
\* of order, a part of what that one gave away; while both are members, what is on its way is
\* all the rest.
THEOREM InOrder == RoomSpec => []Shared
  <1>1. RoomInit => Inv
    BY InvInit
  <1>2. Inv /\ [RoomNext]_roomVars => Inv'
    <2> SUFFICES ASSUME Inv, [RoomNext]_roomVars PROVE Inv'
      OBVIOUS
    <2>1. ASSUME NEW p \in Sharers, NEW inputEvents \in Seq(Events[p]), Share(p, inputEvents)
          PROVE  Inv'
      BY <2>1, ShareStep
    <2>2. ASSUME NEW p \in Sharers, Take(p) PROVE Inv'
      BY <2>2, TakeStep
    <2>3. ASSUME NEW p \in Sharers, UpdateThread(p) PROVE Inv'
      BY <2>3, UpdateStep
    <2>4. ASSUME NEW p \in Sharers, Quit(p) PROVE Inv'
      BY <2>4, QuitStep
    <2>5. CASE UNCHANGED roomVars
      <3>1. photon' = photon /\ inbox' = inbox /\ given' = given /\ taken' = taken
        BY <2>5 DEF roomVars
      <3>2. Sharers' = Sharers /\ Members' = Members
        BY <3>1 DEF Sharers, Members
      <3>3. \A q : Gifts(q)' = Gifts(q)
        BY <3>1 DEF Gifts, Own
      <3>4. Gift' = Gift /\ Mail' = Mail
        BY <3>2, <3>3 DEF Gift, Mail
      <3>5. \A p, q : Flow(p, q)' = Flow(p, q)
        BY <3>1, FlowSame
      <3>6. TypeInv'
        BY <3>1, <3>2, <3>3, <3>4 DEF Inv, TypeInv
      <3>7. QueueInv'
        BY <3>1, <3>2, <3>4 DEF Inv, QueueInv, Untouched
      <3>8. FlowInv'
        BY <3>1, <3>2, <3>4, <3>5 DEF Inv, FlowInv
      <3> QED
        BY <3>6, <3>7, <3>8 DEF Inv
    <2> QED
      BY <2>1, <2>2, <2>3, <2>4, <2>5 DEF RoomNext
  <1> QED
    BY <1>1, <1>2, InvShared, PTL DEF RoomSpec
=============================================================================
