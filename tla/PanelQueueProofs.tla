------------------------- MODULE PanelQueueProofs ---------------------------
(***************************************************************************)
(* The requests in flight of a page of the panel, for every queue: what    *)
(* is left of it when requests are sent, answered, outdated or lose their  *)
(* readers, and when the main part of a page shows what it asked for last. *)
(***************************************************************************)
EXTENDS Panel, FiniteSetTheorems, TLAPS

-----------------------------------------------------------------------------
\* A sequence, over whatever its elements are.
IsList(q) == q \in Seq({q[i] : i \in DOMAIN q})

LEMMA ListIsFunction ==
    ASSUME NEW q, IsList(q)
    PROVE  /\ Len(q) \in Nat /\ DOMAIN q = 1 .. Len(q)
           /\ q = [i \in 1 .. Len(q) |-> q[i]]
BY DEF IsList

\* A function on an initial segment of the numbers is a sequence.
LEMMA FunctionIsList ==
    ASSUME NEW n \in Nat, NEW q, q = [i \in 1 .. n |-> q[i]]
    PROVE  IsList(q) /\ Len(q) = n /\ DOMAIN q = 1 .. n
<1> DEFINE S == {q[i] : i \in 1 .. n}
<1>1. q \in [1 .. n -> S]
  OBVIOUS
<1>2. q \in Seq(S)
  BY <1>1
<1>3. DOMAIN q = 1 .. n
  BY <1>1
<1> QED BY <1>1, <1>2, <1>3 DEF IsList

LEMMA SeqIsList == ASSUME NEW S, NEW q \in Seq(S) PROVE IsList(q)
<1>1. Len(q) \in Nat /\ q = [i \in 1 .. Len(q) |-> q[i]]
  OBVIOUS
<1> QED BY <1>1, FunctionIsList

LEMMA ListsInOne ==
    ASSUME NEW s, NEW t, IsList(s), IsList(t)
    PROVE  \E S : s \in Seq(S) /\ t \in Seq(S)
<1> DEFINE S == {s[i] : i \in DOMAIN s} \cup {t[i] : i \in DOMAIN t}
<1>1. s \in Seq(S) /\ t \in Seq(S)
  BY DEF IsList
<1> QED BY <1>1

\* A concatenation, place by place.
LEMMA Joined ==
    ASSUME NEW s, NEW t, IsList(s), IsList(t)
    PROVE  /\ IsList(s \o t) /\ Len(s \o t) = Len(s) + Len(t)
           /\ \A i \in 1 .. Len(s) : (s \o t)[i] = s[i]
           /\ \A i \in 1 .. Len(t) : (s \o t)[Len(s) + i] = t[i]
<1>1. PICK S : s \in Seq(S) /\ t \in Seq(S)
  BY ListsInOne
<1>2. s \o t \in Seq(S)
  BY <1>1
<1>3. IsList(s \o t)
  BY <1>2, SeqIsList
<1> QED BY <1>1, <1>3

\* The sequences written out in the pages.
LEMMA ShortLists ==
    /\ IsList(<<>>) /\ Len(<<>>) = 0
    /\ \A a : IsList(<<a>>) /\ Len(<<a>>) = 1 /\ <<a>>[1] = a
    /\ \A a, b : IsList(<<a, b>>) /\ Len(<<a, b>>) = 2 /\ <<a, b>>[1] = a /\ <<a, b>>[2] = b
<1>1. IsList(<<>>)
  BY DEF IsList
<1>2. ASSUME NEW a PROVE IsList(<<a>>)
  BY DEF IsList
<1>3. ASSUME NEW a, NEW b PROVE IsList(<<a, b>>)
  <2>1. <<a, b>> = [i \in 1 .. 2 |-> <<a, b>>[i]]
    OBVIOUS
  <2> QED BY <2>1, FunctionIsList
<1> QED BY <1>1, <1>2, <1>3

\* A sequence without one of its elements.
LEMMA Removed ==
    ASSUME NEW q, IsList(q), NEW i \in 1 .. Len(q)
    PROVE  /\ IsList(RemoveAt(q, i)) /\ Len(RemoveAt(q, i)) = Len(q) - 1
           /\ \A j \in 1 .. Len(q) - 1 : RemoveAt(q, i)[j] = IF j < i THEN q[j] ELSE q[j + 1]
<1> DEFINE s == SubSeq(q, 1, i - 1)
           t == SubSeq(q, i + 1, Len(q))
<1>1. PICK S : q \in Seq(S)
  BY DEF IsList
<1>2. IsList(s) /\ Len(s) = i - 1 /\ \A j \in 1 .. i - 1 : s[j] = q[j]
  <2>1. s \in Seq(S) /\ Len(s) = i - 1 /\ \A j \in 1 .. i - 1 : s[j] = q[j]
    BY <1>1
  <2> QED BY <2>1, SeqIsList
<1>3. IsList(t) /\ Len(t) = Len(q) - i /\ \A j \in 1 .. Len(q) - i : t[j] = q[i + j]
  <2>1. t \in Seq(S) /\ Len(t) = Len(q) - i /\ \A j \in 1 .. Len(q) - i : t[j] = q[i + j]
    BY <1>1
  <2> QED BY <2>1, SeqIsList
<1>4. RemoveAt(q, i) = s \o t
  BY DEF RemoveAt
<1>5. /\ IsList(s \o t) /\ Len(s \o t) = Len(q) - 1
      /\ \A j \in 1 .. i - 1 : (s \o t)[j] = q[j]
      /\ \A j \in 1 .. Len(q) - i : (s \o t)[i - 1 + j] = q[i + j]
  <2> HIDE DEF s, t
  <2>1. Len(q) \in Nat
    BY <1>1
  <2>2. /\ IsList(s \o t) /\ Len(s \o t) = Len(s) + Len(t)
        /\ \A j \in 1 .. Len(s) : (s \o t)[j] = s[j]
        /\ \A j \in 1 .. Len(t) : (s \o t)[Len(s) + j] = t[j]
    <3>1. IsList(s) /\ IsList(t)
      BY <1>2, <1>3
    <3> QED BY <3>1, Joined
  <2>3. Len(s \o t) = Len(q) - 1
    BY <1>2, <1>3, <2>1, <2>2
  <2> QED BY <1>2, <1>3, <2>1, <2>2, <2>3
<1> HIDE DEF s, t
<1>6. ASSUME NEW j \in 1 .. Len(q) - 1, j >= i
      PROVE  (s \o t)[j] = q[j + 1]
  <2>1. j - i + 1 \in 1 .. Len(q) - i /\ i - 1 + (j - i + 1) = j /\ i + (j - i + 1) = j + 1
    BY <1>1, <1>6
  <2> QED BY <1>5, <2>1
<1>7. ASSUME NEW j \in 1 .. Len(q) - 1, j < i
      PROVE  (s \o t)[j] = q[j]
  BY <1>5, <1>7
<1> QED BY <1>1, <1>4, <1>5, <1>6, <1>7

\* Each page has a copy of the library of its own.
LEMMA SameCardinality == ASSUME NEW S PROVE Logs!Cardinality(S) = Cardinality(S)
BY DEF Logs!Cardinality, Cardinality

\* The place an element of a subsequence has in it.
Rank(places, i) == Logs!Cardinality({j \in places : j <= i})

\* The ranks of n places are the numbers up to n.
LEMMA RankIsOnto ==
    ASSUME NEW m \in Nat, NEW places \in SUBSET (1 .. m)
    PROVE  /\ Cardinality(places) \in Nat
           /\ \A n \in 1 .. Cardinality(places) : \E i \in places : Rank(places, i) = n
           /\ \A i \in places : Rank(places, i) \in 1 .. Cardinality(places)
           /\ \A i, k \in places : i < k => Rank(places, i) < Rank(places, k)
<1> DEFINE N == Cardinality(places)
           below(i) == {j \in places : j <= i}
<1>1. IsFiniteSet(places) /\ N \in Nat
  <2>1. IsFiniteSet(1 .. m)
    BY FS_Interval
  <2> QED BY <2>1, FS_Subset, FS_CardinalityType
<1>2. ASSUME NEW i \in places
      PROVE  IsFiniteSet(below(i)) /\ Cardinality(below(i)) \in 1 .. N
  <2>1. below(i) \subseteq places /\ i \in below(i)
    OBVIOUS
  <2>2. IsFiniteSet(below(i)) /\ Cardinality(below(i)) <= N /\ Cardinality(below(i)) \in Nat
    BY <1>1, <2>1, FS_Subset, FS_CardinalityType
  <2>3. Cardinality(below(i)) # 0
    BY <2>1, <2>2, FS_EmptySet
  <2> QED BY <1>1, <2>2, <2>3
<1>3. ASSUME NEW i \in places, NEW k \in places, i < k
      PROVE  Cardinality(below(i)) < Cardinality(below(k))
  <2>1. i \in Int /\ k \in Int /\ places \subseteq Int
    OBVIOUS
  <2>2. below(i) \subseteq below(k)
    <3>1. ASSUME NEW j \in places, j <= i PROVE j <= k
      BY <1>3, <2>1, <3>1
    <3> QED BY <3>1
  <2>3. k \in below(k) /\ k \notin below(i)
    BY <1>3, <2>1
  <2> HIDE DEF below
  <2>4. /\ Cardinality(below(i)) \in Nat /\ Cardinality(below(k)) \in Nat
        /\ Cardinality(below(i)) <= Cardinality(below(k))
        /\ Cardinality(below(i)) # Cardinality(below(k))
    BY <1>1, <1>2, <2>2, <2>3, FS_Subset
  <2> QED BY <2>4
<1>4. ASSUME NEW i \in places, NEW k \in places, i # k
      PROVE  Cardinality(below(i)) # Cardinality(below(k))
  <2>1. i < k \/ k < i
    BY <1>4
  <2>2. Cardinality(below(i)) \in Nat /\ Cardinality(below(k)) \in Nat
    BY <1>1, <1>2
  <2> HIDE DEF below
  <2> QED BY <1>3, <2>1, <2>2
<1>5. ASSUME NEW n \in 1 .. N, \A i \in places : Cardinality(below(i)) # n
      PROVE  FALSE
  <2> DEFINE T == (1 .. N) \ {n}
             rank == [i \in places |-> Cardinality(below(i))]
  <2>1. IsFiniteSet(1 .. N) /\ Cardinality(1 .. N) = N
    BY <1>1, FS_Interval
  <2>2. IsFiniteSet(T) /\ Cardinality(T) < N
    <3>1. IsFiniteSet(T) /\ Cardinality(T) = Cardinality(1 .. N) - 1
      BY <2>1, FS_RemoveElement
    <3> QED BY <1>1, <2>1, <3>1
  <2>3. rank \in [places -> T]
    BY <1>2, <1>5
  <2>4. \E i, k \in places : i # k /\ rank[i] = rank[k]
    <3> HIDE DEF rank, T
    <3> QED BY <1>1, <2>2, <2>3, FS_PigeonHole
  <2> QED BY <1>4, <2>4
<1>6. \A i : Rank(places, i) = Cardinality(below(i))
  BY SameCardinality DEF Rank
<1> HIDE DEF below
<1> QED BY <1>1, <1>2, <1>3, <1>5, <1>6

\* f takes the places of q to those of s, and keeps their order.
InOrder(f, s, q, places) ==
    /\ f \in [places -> 1 .. Len(s)]
    /\ \A n \in 1 .. Len(s) : \E i \in places : f[i] = n
    /\ \A i \in places : s[f[i]] = q[i]
    /\ \A i, k \in places : i < k => f[i] < f[k]

\* A subsequence is a sequence of the elements at its places, in their order.
LEMMA Picked ==
    ASSUME NEW m \in Nat, NEW places \in SUBSET (1 .. m), NEW q,
           NEW s, s = Logs!Subsequence(q, places)
    PROVE  IsList(s) /\ \E f : InOrder(f, s, q, places)
<1> DEFINE f == [i \in places |-> Rank(places, i)]
<1>1. s = [n \in 1 .. Cardinality(places) |->
             q[CHOOSE i \in places : Rank(places, i) = n]]
  BY SameCardinality DEF Logs!Subsequence, Rank
<1>2. Cardinality(places) \in Nat
  BY RankIsOnto
<1>3. IsList(s) /\ Len(s) = Cardinality(places)
  <2>1. s = [n \in 1 .. Cardinality(places) |-> s[n]]
    BY <1>1
  <2> QED BY <1>2, <2>1, FunctionIsList
<1>4. /\ f \in [places -> 1 .. Len(s)]
      /\ \A n \in 1 .. Len(s) : \E i \in places : f[i] = n
      /\ \A i, k \in places : i < k => f[i] < f[k]
  BY <1>3, RankIsOnto
<1>5. ASSUME NEW i \in places
      PROVE  s[f[i]] = q[i]
  <2> DEFINE k == CHOOSE k \in places : Rank(places, k) = Rank(places, i)
  <2>1. k \in places /\ Rank(places, k) = Rank(places, i)
    OBVIOUS
  <2>2. Rank(places, i) \in 1 .. Cardinality(places)
    BY RankIsOnto
  <2>3. s[f[i]] = q[k]
    BY <1>1, <2>2
  <2> HIDE DEF k
  <2>4. f[i] = f[k] /\ f[i] \in Int /\ f[k] \in Int
    BY <1>4, <2>1
  <2> HIDE DEF f
  <2>5. ~ (i < k) /\ ~ (k < i)
    BY <1>4, <2>1, <2>4
  <2>6. i = k
    BY <2>1, <2>5
  <2> QED BY <2>3, <2>6
<1>6. InOrder(f, s, q, places)
  BY <1>4, <1>5 DEF InOrder
<1> QED BY <1>3, <1>6

-----------------------------------------------------------------------------
\* A queue of requests in flight.
IsQueue(q) == IsList(q) /\ \A i \in DOMAIN q : {"req", "old"} \subseteq DOMAIN q[i]

\* The requests of a list, and those of a queue.
Items(reqs) == {reqs[n] : n \in DOMAIN reqs}
Reqs(q)     == {q[i].req : i \in DOMAIN q}

\* No request of this kind is among them.
Lacks(reqs, kind) == \A r \in Items(reqs) : r.to # kind

\* r is the last of its kind in the list.
Ends(reqs, r) ==
    \E n \in DOMAIN reqs : reqs[n] = r /\ \A m \in DOMAIN reqs : m > n => reqs[m].to # r.to

\* r is the last of its kind in flight, and nothing newer has been answered.
Newest(q, r) ==
    \E i \in DOMAIN q : /\ q[i].req = r /\ ~ q[i].old
                        /\ \A j \in DOMAIN q : j > i => q[j].req.to # r.to

\* Every request of the kind in flight is older than one that was answered.
AllOld(q, kind) == \A i \in DOMAIN q : q[i].req.to = kind => q[i].old

\* A request of the kind is in flight.
Flies(q, kind) == \E r \in Reqs(q) : r.to = kind

\* The lists of requests the pages send.
LEMMA Short ==
    /\ IsList(<<>>) /\ Items(<<>>) = {}
    /\ \A a : IsList(<<a>>) /\ Items(<<a>>) = {a} /\ Ends(<<a>>, a)
    /\ \A a, b : IsList(<<a, b>>) /\ Items(<<a, b>>) = {a, b} /\ Ends(<<a, b>>, b)
<1>1. Items(<<>>) = {}
  BY DEF Items
<1>2. \A a : Items(<<a>>) = {a} /\ Ends(<<a>>, a)
  BY DEF Items, Ends
<1>3. ASSUME NEW a, NEW b PROVE Items(<<a, b>>) = {a, b} /\ Ends(<<a, b>>, b)
  <2>1. DOMAIN <<a, b>> = {1, 2} /\ <<a, b>>[1] = a /\ <<a, b>>[2] = b
    OBVIOUS
  <2> QED BY <2>1 DEF Items, Ends
<1> QED BY <1>1, <1>2, <1>3, ShortLists

\* Two lists sent one after the other.
LEMMA Lists ==
    ASSUME NEW s, NEW t, IsList(s), IsList(t)
    PROVE  /\ IsList(s \o t) /\ Items(s \o t) = Items(s) \cup Items(t)
           /\ \A r : Ends(t, r) => Ends(s \o t, r)
           /\ \A r : Ends(s, r) /\ Lacks(t, r.to) => Ends(s \o t, r)
<1> DEFINE u == s \o t
<1>1. /\ Len(s) \in Nat /\ Len(t) \in Nat /\ DOMAIN s = 1 .. Len(s) /\ DOMAIN t = 1 .. Len(t)
  BY ListIsFunction
<1>2. /\ IsList(u) /\ DOMAIN u = 1 .. Len(s) + Len(t)
      /\ \A i \in 1 .. Len(s) : u[i] = s[i]
      /\ \A i \in 1 .. Len(t) : u[Len(s) + i] = t[i]
  BY Joined, ListIsFunction
<1> HIDE DEF u
<1>3. ASSUME NEW i \in DOMAIN u
      PROVE  (i \in DOMAIN s /\ u[i] = s[i])
             \/ (i - Len(s) \in DOMAIN t /\ u[i] = t[i - Len(s)])
  <2>1. CASE i <= Len(s)
    BY <1>1, <1>2, <2>1
  <2>2. CASE i > Len(s)
    <3>1. i - Len(s) \in 1 .. Len(t) /\ Len(s) + (i - Len(s)) = i
      BY <1>1, <1>2, <2>2
    <3> QED BY <1>1, <1>2, <3>1
  <2> QED BY <1>1, <1>2, <2>1, <2>2
<1>4. \A i \in DOMAIN s : i \in DOMAIN u /\ u[i] = s[i]
  BY <1>1, <1>2
<1>5. \A i \in DOMAIN t : Len(s) + i \in DOMAIN u /\ u[Len(s) + i] = t[i]
  BY <1>1, <1>2
<1>6. Items(u) = Items(s) \cup Items(t)
  BY <1>3, <1>4, <1>5 DEF Items
<1>7. ASSUME NEW r, Ends(t, r) PROVE Ends(u, r)
  <2>1. PICK n \in DOMAIN t : t[n] = r /\ \A m \in DOMAIN t : m > n => t[m].to # r.to
    BY <1>7 DEF Ends
  <2>2. ASSUME NEW m \in DOMAIN u, m > Len(s) + n PROVE u[m].to # r.to
    <3>1. ~ (m <= Len(s)) /\ m - Len(s) > n
      BY <1>1, <1>2, <2>2
    <3> QED BY <1>1, <1>3, <2>1, <3>1
  <2> QED BY <1>5, <2>1, <2>2 DEF Ends
<1>8. ASSUME NEW r, Ends(s, r), Lacks(t, r.to) PROVE Ends(u, r)
  <2>1. PICK n \in DOMAIN s : s[n] = r /\ \A m \in DOMAIN s : m > n => s[m].to # r.to
    BY <1>8 DEF Ends
  <2>2. ASSUME NEW m \in DOMAIN u, m > n PROVE u[m].to # r.to
    BY <1>3, <1>8, <2>1, <2>2 DEF Lacks, Items
  <2> QED BY <1>4, <2>1, <2>2 DEF Ends
<1> QED BY <1>2, <1>6, <1>7, <1>8 DEF u

\* Requests sent.
LEMMA SentAdds ==
    ASSUME NEW q, NEW reqs, IsQueue(q), IsList(reqs)
    PROVE  LET s == Logs!Sent(q, reqs) IN
           /\ IsQueue(s) /\ Reqs(s) = Reqs(q) \cup Items(reqs)
           /\ \A r : Ends(reqs, r) => Newest(s, r)
           /\ \A r : Newest(q, r) /\ Lacks(reqs, r.to) => Newest(s, r)
           /\ \A kind : AllOld(q, kind) /\ Lacks(reqs, kind) => AllOld(s, kind)
<1> DEFINE t == [i \in DOMAIN reqs |-> [req |-> reqs[i], old |-> FALSE]]
           u == q \o t
<1>1. /\ Len(q) \in Nat /\ DOMAIN q = 1 .. Len(q) /\ IsList(q)
      /\ Len(reqs) \in Nat /\ DOMAIN reqs = 1 .. Len(reqs)
  BY ListIsFunction DEF IsQueue
<1>2. IsList(t) /\ Len(t) = Len(reqs) /\ DOMAIN t = 1 .. Len(reqs)
  <2>1. t = [i \in 1 .. Len(reqs) |-> t[i]]
    BY <1>1
  <2> HIDE DEF t
  <2> QED BY <1>1, <2>1, FunctionIsList
<1>3. \A i \in 1 .. Len(reqs) : t[i] = [req |-> reqs[i], old |-> FALSE]
  BY <1>1
<1> HIDE DEF t
<1>4. /\ IsList(u) /\ DOMAIN u = 1 .. Len(q) + Len(reqs)
      /\ \A i \in 1 .. Len(q) : u[i] = q[i]
      /\ \A i \in 1 .. Len(reqs) : u[Len(q) + i] = [req |-> reqs[i], old |-> FALSE]
  <2>1. /\ IsList(u) /\ Len(u) = Len(q) + Len(t)
        /\ \A i \in 1 .. Len(q) : u[i] = q[i]
        /\ \A i \in 1 .. Len(t) : u[Len(q) + i] = t[i]
    BY <1>1, <1>2, Joined
  <2> HIDE DEF u
  <2>2. DOMAIN u = 1 .. Len(u)
    BY <2>1, ListIsFunction
  <2> QED BY <1>1, <1>2, <1>3, <2>1, <2>2
<1>5. Logs!Sent(q, reqs) = u
  BY DEF Logs!Sent, t
<1> HIDE DEF u
<1>6. ASSUME NEW i \in DOMAIN u
      PROVE  \/ i \in DOMAIN q /\ u[i] = q[i]
             \/ /\ i > Len(q) /\ i - Len(q) \in DOMAIN reqs
                /\ u[i] = [req |-> reqs[i - Len(q)], old |-> FALSE]
  <2>1. CASE i <= Len(q)
    BY <1>1, <1>4, <2>1
  <2>2. CASE i > Len(q)
    <3>1. i - Len(q) \in 1 .. Len(reqs) /\ Len(q) + (i - Len(q)) = i
      BY <1>1, <1>4, <2>2
    <3> QED BY <1>1, <1>4, <2>2, <3>1
  <2> QED BY <1>1, <1>4, <2>1, <2>2
<1>7. \A i \in DOMAIN q : i \in DOMAIN u /\ u[i] = q[i]
  BY <1>1, <1>4
<1>8. \A i \in DOMAIN reqs : Len(q) + i \in DOMAIN u /\ u[Len(q) + i] = [req |-> reqs[i], old |-> FALSE]
  BY <1>1, <1>4
<1>9. IsQueue(u)
  <2>1. ASSUME NEW i \in DOMAIN u PROVE {"req", "old"} \subseteq DOMAIN u[i]
    BY <1>6 DEF IsQueue
  <2> QED BY <1>4, <2>1 DEF IsQueue
<1>10. Reqs(u) = Reqs(q) \cup Items(reqs)
  <2>1. \A i \in DOMAIN u : u[i].req \in Reqs(q) \cup Items(reqs)
    BY <1>6 DEF Reqs, Items
  <2>2. \A r \in Reqs(q) : \E i \in DOMAIN u : u[i].req = r
    BY <1>7 DEF Reqs
  <2>3. ASSUME NEW n \in DOMAIN reqs PROVE \E i \in DOMAIN u : u[i].req = reqs[n]
    <3>1. Len(q) + n \in DOMAIN u /\ u[Len(q) + n] = [req |-> reqs[n], old |-> FALSE]
      BY <1>8
    <3>2. u[Len(q) + n].req = reqs[n]
      BY <3>1
    <3> QED BY <3>1, <3>2
  <2>4. \A r \in Reqs(u) : r \in Reqs(q) \cup Items(reqs)
    BY <2>1 DEF Reqs
  <2>5. \A r \in Reqs(q) \cup Items(reqs) : r \in Reqs(u)
    BY <2>2, <2>3 DEF Reqs, Items
  <2> QED BY <2>4, <2>5
<1>11. ASSUME NEW r, Ends(reqs, r) PROVE Newest(u, r)
  <2>1. PICK n \in DOMAIN reqs : reqs[n] = r /\ \A m \in DOMAIN reqs : m > n => reqs[m].to # r.to
    BY <1>11 DEF Ends
  <2>2. ASSUME NEW j \in DOMAIN u, j > Len(q) + n PROVE u[j].req.to # r.to
    <3>1. j \notin DOMAIN q /\ j - Len(q) > n
      BY <1>1, <1>4, <2>2
    <3> QED BY <1>6, <2>1, <3>1
  <2>3. Len(q) + n \in DOMAIN u /\ u[Len(q) + n] = [req |-> r, old |-> FALSE]
    BY <1>8, <2>1
  <2>4. u[Len(q) + n].req = r /\ ~ u[Len(q) + n].old
    BY <2>3
  <2> QED BY <2>2, <2>3, <2>4 DEF Newest
<1>12. ASSUME NEW r, Newest(q, r), Lacks(reqs, r.to) PROVE Newest(u, r)
  <2>1. PICK i \in DOMAIN q : /\ q[i].req = r /\ ~ q[i].old
                              /\ \A j \in DOMAIN q : j > i => q[j].req.to # r.to
    BY <1>12 DEF Newest
  <2>2. ASSUME NEW j \in DOMAIN u, j > i PROVE u[j].req.to # r.to
    BY <1>6, <1>12, <2>1, <2>2 DEF Lacks, Items
  <2> QED BY <1>7, <2>1, <2>2 DEF Newest
<1>13. ASSUME NEW kind, AllOld(q, kind), Lacks(reqs, kind) PROVE AllOld(u, kind)
  BY <1>6, <1>13 DEF AllOld, Lacks, Items
<1> QED BY <1>5, <1>9, <1>10, <1>11, <1>12, <1>13

\* Requests whose readers leave.
LEMMA WithoutKeeps ==
    ASSUME NEW q, NEW kinds, IsQueue(q)
    PROVE  LET s == Logs!Without(q, kinds) IN
           /\ IsQueue(s) /\ Reqs(s) = {r \in Reqs(q) : r.to \notin kinds}
           /\ \A r : Newest(q, r) /\ r.to \notin kinds => Newest(s, r)
           /\ \A kind : AllOld(q, kind) => AllOld(s, kind)
<1> DEFINE places == {i \in DOMAIN q : q[i].req.to \notin kinds}
           s == Logs!Subsequence(q, places)
<1>1. Len(q) \in Nat /\ DOMAIN q = 1 .. Len(q)
  BY ListIsFunction DEF IsQueue
<1>2. Logs!Without(q, kinds) = s
  BY DEF Logs!Without
<1>3. places \in SUBSET (1 .. Len(q))
  BY <1>1
<1>4. IsList(s) /\ \E f : InOrder(f, s, q, places)
  <2> HIDE DEF places
  <2> QED BY <1>1, <1>3, Picked
<1>5. Len(s) \in Nat /\ DOMAIN s = 1 .. Len(s)
  <2> HIDE DEF s
  <2> QED BY <1>4, ListIsFunction
<1> HIDE DEF s
<1>6. PICK f \in [places -> DOMAIN s] :
        /\ \A n \in DOMAIN s : \E i \in places : f[i] = n
        /\ \A i \in places : s[f[i]] = q[i]
        /\ \A i, k \in places : i < k => f[i] < f[k]
  <2> HIDE DEF places
  <2> QED BY <1>4, <1>5 DEF InOrder
<1>7. \A i \in places : f[i] \in DOMAIN s
  <2> HIDE DEF places
  <2> QED BY <1>6
<1>8. \A n \in DOMAIN s : \E i \in places : f[i] = n /\ s[n] = q[i]
  <2> HIDE DEF places
  <2> QED BY <1>6
<1>9. IsQueue(s)
  <2>1. ASSUME NEW n \in DOMAIN s PROVE {"req", "old"} \subseteq DOMAIN s[n]
    <3>1. PICK i \in DOMAIN q : s[n] = q[i]
      BY <1>8
    <3> QED BY <3>1 DEF IsQueue
  <2> QED BY <1>4, <2>1 DEF IsQueue
<1>10. Reqs(s) = {r \in Reqs(q) : r.to \notin kinds}
  <2>1. ASSUME NEW n \in DOMAIN s PROVE s[n].req \in Reqs(q) /\ s[n].req.to \notin kinds
    <3>1. PICK i \in places : s[n] = q[i]
      BY <1>8
    <3> QED BY <3>1 DEF Reqs
  <2>2. ASSUME NEW r \in Reqs(q), r.to \notin kinds PROVE \E n \in DOMAIN s : s[n].req = r
    <3>1. PICK i \in places : q[i].req = r
      BY <2>2 DEF Reqs
    <3> HIDE DEF places
    <3> QED BY <1>6, <1>7, <3>1
  <2> QED BY <2>1, <2>2 DEF Reqs
<1>11. ASSUME NEW r, Newest(q, r), r.to \notin kinds PROVE Newest(s, r)
  <2>1. PICK i \in DOMAIN q : /\ q[i].req = r /\ ~ q[i].old
                              /\ \A j \in DOMAIN q : j > i => q[j].req.to # r.to
    BY <1>11 DEF Newest
  <2>2. i \in places
    BY <1>11, <2>1
  <2>3. ASSUME NEW n \in DOMAIN s, n > f[i] PROVE s[n].req.to # r.to
    <3>1. PICK j \in places : f[j] = n /\ s[n] = q[j]
      BY <1>8
    <3>2. ~ (j < i) /\ j # i
      <4> HIDE DEF places
      <4>1. f[i] \in Int /\ n \in Int
        BY <1>5, <1>7, <2>2
      <4> QED BY <1>6, <2>2, <2>3, <3>1, <4>1
    <3>3. j > i
      BY <1>1, <3>2
    <3> QED BY <2>1, <3>1, <3>3
  <2> HIDE DEF places
  <2> QED BY <1>6, <1>7, <2>1, <2>2, <2>3 DEF Newest
<1>12. ASSUME NEW kind, AllOld(q, kind) PROVE AllOld(s, kind)
  BY <1>8, <1>12 DEF AllOld
<1> QED BY <1>2, <1>9, <1>10, <1>11, <1>12

\* An answer: its request leaves, and those of its kind before it are old.
LEMMA AnswerKeeps ==
    ASSUME IsQueue(pending), NEW i \in DOMAIN pending
    PROVE  LET s == Logs!AfterAnswer(i)
               asked == pending[i].req IN
           /\ IsQueue(s)
           /\ Reqs(s) \subseteq Reqs(pending) /\ Reqs(pending) \subseteq Reqs(s) \cup {asked}
           /\ \A r : Newest(pending, r) /\ asked.to # r.to => Newest(s, r)
           /\ \A r : Newest(pending, r) /\ asked.to = r.to =>
                  Newest(s, r) \/ (asked = r /\ ~ pending[i].old /\ AllOld(s, r.to))
           /\ \A kind : AllOld(pending, kind) =>
                  AllOld(s, kind) /\ (asked.to = kind => pending[i].old)
<1> DEFINE N == Len(pending)
           marked == [j \in DOMAIN pending |->
                         IF j < i /\ pending[j].req.to = pending[i].req.to
                         THEN [pending[j] EXCEPT !.old = TRUE] ELSE pending[j]]
           s == Logs!AfterAnswer(i)
           from(j) == IF j < i THEN j ELSE j + 1
           asked == pending[i].req
<1>1. N \in Nat /\ DOMAIN pending = 1 .. N
  BY ListIsFunction DEF IsQueue
<1>2. IsList(marked) /\ Len(marked) = N
  <2>1. marked = [j \in 1 .. N |-> marked[j]]
    BY <1>1
  <2> HIDE DEF marked
  <2> QED BY <1>1, <2>1, FunctionIsList
<1>3. s = RemoveAt(marked, i)
  BY DEF Logs!AfterAnswer, Logs!RemoveAt, RemoveAt
<1>4. ASSUME NEW j \in DOMAIN pending
      PROVE  /\ marked[j].req = pending[j].req /\ {"req", "old"} \subseteq DOMAIN marked[j]
             /\ marked[j].old = IF j < i /\ pending[j].req.to = asked.to THEN TRUE
                                ELSE pending[j].old
  BY DEF IsQueue
<1> HIDE DEF marked, s
<1>5. /\ IsList(s) /\ Len(s) = N - 1
      /\ \A j \in 1 .. N - 1 : s[j] = IF j < i THEN marked[j] ELSE marked[j + 1]
  BY <1>1, <1>2, <1>3, Removed
<1>6. DOMAIN s = 1 .. N - 1
  BY <1>5, ListIsFunction
<1>7. ASSUME NEW j \in DOMAIN s
      PROVE  /\ from(j) \in DOMAIN pending /\ from(j) # i
             /\ s[j] = marked[from(j)]
             /\ s[j].req = pending[from(j)].req
             /\ s[j].old = IF from(j) < i /\ pending[from(j)].req.to = asked.to THEN TRUE
                           ELSE pending[from(j)].old
             /\ {"req", "old"} \subseteq DOMAIN s[j]
  <2>1. from(j) \in DOMAIN pending /\ from(j) # i
    BY <1>1, <1>6
  <2>2. s[j] = marked[from(j)]
    BY <1>5, <1>6
  <2> HIDE DEF from
  <2> QED BY <1>4, <2>1, <2>2
<1>8. ASSUME NEW k \in DOMAIN pending, k # i
      PROVE  \E j \in DOMAIN s : from(j) = k
  <2>1. CASE k < i
    BY <1>1, <1>6, <1>8, <2>1
  <2>2. CASE k > i
    <3>1. k - 1 \in 1 .. N - 1 /\ ~ (k - 1 < i) /\ k - 1 + 1 = k
      BY <1>1, <2>2
    <3> QED BY <1>6, <3>1
  <2> QED BY <1>1, <1>8, <2>1, <2>2
<1>9. \A j, k \in DOMAIN s : j < k <=> from(j) < from(k)
  BY <1>1, <1>6
<1> HIDE DEF from
<1>10. IsQueue(s)
  BY <1>5, <1>7 DEF IsQueue
<1>11. Reqs(s) \subseteq Reqs(pending)
  <2>1. ASSUME NEW j \in DOMAIN s PROVE s[j].req \in Reqs(pending)
    BY <1>7, <2>1 DEF Reqs
  <2> QED BY <2>1 DEF Reqs
<1>12. Reqs(pending) \subseteq Reqs(s) \cup {asked}
  <2>1. ASSUME NEW k \in DOMAIN pending, k # i PROVE pending[k].req \in Reqs(s)
    <3>1. PICK j \in DOMAIN s : from(j) = k
      BY <1>8, <2>1
    <3> QED BY <1>7, <3>1 DEF Reqs
  <2> QED BY <2>1 DEF Reqs
<1>13. ASSUME NEW r, NEW k \in DOMAIN pending, k # i, pending[k].req = r, ~ pending[k].old,
              \A j \in DOMAIN pending : j > k => pending[j].req.to # r.to
       PROVE  Newest(s, r)
  <2>1. PICK m \in DOMAIN s : from(m) = k
    BY <1>8, <1>13
  <2>2. s[m].req = r /\ ~ s[m].old
    <3>1. ~ (k < i /\ pending[k].req.to = asked.to)
      BY <1>1, <1>13
    <3> QED BY <1>7, <1>13, <2>1, <3>1
  <2>3. ASSUME NEW j \in DOMAIN s, j > m PROVE s[j].req.to # r.to
    <3>1. from(j) > k
      BY <1>1, <1>6, <1>7, <1>9, <2>1, <2>3
    <3> QED BY <1>7, <1>13, <3>1
  <2> QED BY <2>2, <2>3 DEF Newest
<1>14. ASSUME NEW r, Newest(pending, r)
       PROVE  Newest(s, r) \/ (asked = r /\ ~ pending[i].old /\ AllOld(s, r.to))
  <2>1. PICK k \in DOMAIN pending : /\ pending[k].req = r /\ ~ pending[k].old
                                    /\ \A j \in DOMAIN pending : j > k => pending[j].req.to # r.to
    BY <1>14 DEF Newest
  <2>2. CASE k = i
    <3>1. ASSUME NEW j \in DOMAIN s, s[j].req.to = r.to PROVE s[j].old
      <4>1. ~ (from(j) > i) /\ from(j) # i
        BY <1>7, <2>1, <2>2, <3>1
      <4>2. from(j) \in 1 .. N /\ i \in 1 .. N
        BY <1>1, <1>7, <3>1
      <4>3. from(j) < i
        BY <1>1, <4>1, <4>2
      <4> QED BY <1>7, <2>1, <2>2, <3>1, <4>3
    <3> QED BY <2>1, <2>2, <3>1 DEF AllOld
  <2>3. CASE k # i
    BY <1>13, <2>1, <2>3
  <2> QED BY <2>2, <2>3
<1>15. ASSUME NEW r, Newest(pending, r), asked.to # r.to PROVE Newest(s, r)
  BY <1>14, <1>15
<1>16. ASSUME NEW kind, AllOld(pending, kind)
       PROVE  AllOld(s, kind) /\ (asked.to = kind => pending[i].old)
  BY <1>7, <1>16 DEF AllOld
<1> QED BY <1>10, <1>11, <1>12, <1>14, <1>15, <1>16 DEF s

\* Requests outdated by something newer than their answers.
LEMMA OutdatedKeeps ==
    ASSUME NEW q, NEW kind, IsQueue(q)
    PROVE  LET s == Logs!Outdated(q, kind) IN
           /\ IsQueue(s) /\ Reqs(s) = Reqs(q) /\ AllOld(s, kind)
           /\ \A r : Newest(q, r) /\ r.to # kind => Newest(s, r)
           /\ \A other : AllOld(q, other) => AllOld(s, other)
<1> DEFINE s == Logs!Outdated(q, kind)
<1>1. Len(q) \in Nat /\ DOMAIN q = 1 .. Len(q)
  BY ListIsFunction DEF IsQueue
<1>2. s = [j \in 1 .. Len(q) |-> IF q[j].req.to = kind THEN [q[j] EXCEPT !.old = TRUE] ELSE q[j]]
  BY <1>1 DEF Logs!Outdated
<1> HIDE DEF s
<1>3. IsList(s) /\ DOMAIN s = DOMAIN q
  BY <1>1, <1>2, FunctionIsList
<1>4. ASSUME NEW j \in DOMAIN q
      PROVE  /\ s[j].req = q[j].req /\ {"req", "old"} \subseteq DOMAIN s[j]
             /\ s[j].old = IF q[j].req.to = kind THEN TRUE ELSE q[j].old
  BY <1>1, <1>2 DEF IsQueue
<1>5. IsQueue(s)
  BY <1>3, <1>4 DEF IsQueue
<1>6. Reqs(s) = Reqs(q)
  <2>1. \A r \in Reqs(s) : r \in Reqs(q)
    BY <1>3, <1>4 DEF Reqs
  <2>2. \A r \in Reqs(q) : r \in Reqs(s)
    BY <1>3, <1>4 DEF Reqs
  <2> QED BY <2>1, <2>2
<1>7. AllOld(s, kind)
  BY <1>3, <1>4 DEF AllOld
<1>8. ASSUME NEW r, Newest(q, r), r.to # kind PROVE Newest(s, r)
  BY <1>3, <1>4, <1>8 DEF Newest
<1>9. ASSUME NEW other, AllOld(q, other) PROVE AllOld(s, other)
  BY <1>3, <1>4, <1>9 DEF AllOld
<1> QED BY <1>5, <1>6, <1>7, <1>8, <1>9 DEF s

-----------------------------------------------------------------------------
\* What Send does, with the queue of any of the pages.
Sends(reqs, gone) == /\ pending' = Logs!Sent(Logs!Without(pending, gone), reqs)
                     /\ overtaken' = overtaken \ gone

\* The pages have their copies of the queue; all of them are one queue.
LEMMA SameQueue ==
    /\ \A q, reqs : /\ Overview!Sent(q, reqs) = Logs!Sent(q, reqs)
                    /\ Problems!Sent(q, reqs) = Logs!Sent(q, reqs)
                    /\ Boxes!Sent(q, reqs) = Logs!Sent(q, reqs)
                    /\ Measures!Sent(q, reqs) = Logs!Sent(q, reqs)
                    /\ Traces!Sent(q, reqs) = Logs!Sent(q, reqs)
    /\ \A q, kind : /\ Boxes!Outdated(q, kind) = Logs!Outdated(q, kind)
                    /\ Measures!Outdated(q, kind) = Logs!Outdated(q, kind)
    /\ \A i : /\ Boxes!AfterAnswer(i) = Logs!AfterAnswer(i)
              /\ Measures!AfterAnswer(i) = Logs!AfterAnswer(i)
<1>1. \A q, reqs : /\ Overview!Sent(q, reqs) = Logs!Sent(q, reqs)
                   /\ Problems!Sent(q, reqs) = Logs!Sent(q, reqs)
                   /\ Boxes!Sent(q, reqs) = Logs!Sent(q, reqs)
                   /\ Measures!Sent(q, reqs) = Logs!Sent(q, reqs)
                   /\ Traces!Sent(q, reqs) = Logs!Sent(q, reqs)
  BY DEF Overview!Sent, Problems!Sent, Boxes!Sent, Measures!Sent, Traces!Sent, Logs!Sent
<1>2. \A q, kind : /\ Boxes!Outdated(q, kind) = Logs!Outdated(q, kind)
                   /\ Measures!Outdated(q, kind) = Logs!Outdated(q, kind)
  BY DEF Boxes!Outdated, Measures!Outdated, Logs!Outdated
<1>3. \A i : /\ Boxes!AfterAnswer(i) = Logs!AfterAnswer(i)
             /\ Measures!AfterAnswer(i) = Logs!AfterAnswer(i)
  BY DEF Boxes!AfterAnswer, Measures!AfterAnswer, Logs!AfterAnswer,
         Boxes!RemoveAt, Measures!RemoveAt, Logs!RemoveAt
<1> QED BY <1>1, <1>2, <1>3

LEMMA SamePlaces ==
    \A q, places : /\ Overview!Subsequence(q, places) = Logs!Subsequence(q, places)
                   /\ Problems!Subsequence(q, places) = Logs!Subsequence(q, places)
                   /\ Boxes!Subsequence(q, places) = Logs!Subsequence(q, places)
                   /\ Measures!Subsequence(q, places) = Logs!Subsequence(q, places)
                   /\ Traces!Subsequence(q, places) = Logs!Subsequence(q, places)
BY DEF Overview!Subsequence, Problems!Subsequence, Boxes!Subsequence, Measures!Subsequence,
       Traces!Subsequence, Logs!Subsequence, Overview!Cardinality, Problems!Cardinality,
       Boxes!Cardinality, Measures!Cardinality, Traces!Cardinality, Logs!Cardinality

LEMMA SameWithout ==
    \A q, kinds : /\ Overview!Without(q, kinds) = Logs!Without(q, kinds)
                  /\ Problems!Without(q, kinds) = Logs!Without(q, kinds)
                  /\ Boxes!Without(q, kinds) = Logs!Without(q, kinds)
                  /\ Measures!Without(q, kinds) = Logs!Without(q, kinds)
                  /\ Traces!Without(q, kinds) = Logs!Without(q, kinds)
BY SamePlaces DEF Overview!Without, Problems!Without, Boxes!Without, Measures!Without,
                  Traces!Without, Logs!Without

LEMMA SameSend ==
    ASSUME NEW reqs, NEW gone
    PROVE  /\ Overview!Send(reqs, gone) => Sends(reqs, gone)
           /\ Problems!Send(reqs, gone) => Sends(reqs, gone)
           /\ Boxes!Send(reqs, gone) => Sends(reqs, gone)
           /\ Measures!Send(reqs, gone) => Sends(reqs, gone)
           /\ Traces!Send(reqs, gone) => Sends(reqs, gone)
           /\ Logs!Send(reqs, gone) => Sends(reqs, gone)
BY SameQueue, SameWithout
   DEF Sends, Overview!Send, Problems!Send, Boxes!Send, Measures!Send, Traces!Send, Logs!Send

LEMMA SameReceive ==
    ASSUME NEW i
    PROVE  /\ Overview!Receive(i) => Logs!Receive(i)
           /\ Problems!Receive(i) => Logs!Receive(i)
           /\ Boxes!Receive(i) => Logs!Receive(i)
           /\ Measures!Receive(i) => Logs!Receive(i)
           /\ Traces!Receive(i) => Logs!Receive(i)
BY DEF Overview!Receive, Problems!Receive, Boxes!Receive, Measures!Receive, Traces!Receive,
       Logs!Receive, Overview!AfterAnswer, Problems!AfterAnswer, Boxes!AfterAnswer,
       Measures!AfterAnswer, Traces!AfterAnswer, Logs!AfterAnswer, Overview!RemoveAt,
       Problems!RemoveAt, Boxes!RemoveAt, Measures!RemoveAt, Traces!RemoveAt, Logs!RemoveAt

-----------------------------------------------------------------------------
\* Of some kinds of requests, those in flight are of the kind of r.
PartOf(q, kinds, r) == IsQueue(q) /\ \A x \in Reqs(q) : x.to \in kinds => x.to = r.to

\* What is sent ends with the request r.
LEMMA AskedAnew ==
    ASSUME IsQueue(pending), NEW reqs, NEW gone, Sends(reqs, gone), IsList(reqs),
           NEW kinds, NEW r, Ends(reqs, r),
           \A x \in Items(reqs) : x.to \in kinds => x.to = r.to,
           \A x \in Reqs(pending) : x.to \in kinds => x.to = r.to \/ x.to \in gone
    PROVE  PartOf(pending', kinds, r) /\ Newest(pending', r) /\ Flies(pending', r.to)
<1> DEFINE q == Logs!Without(pending, gone)
<1>1. IsQueue(q) /\ Reqs(q) = {x \in Reqs(pending) : x.to \notin gone}
  BY WithoutKeeps
<1> HIDE DEF q
<1>2. pending' = Logs!Sent(q, reqs)
  BY DEF Sends, q
<1>3. IsQueue(pending') /\ Reqs(pending') = Reqs(q) \cup Items(reqs) /\ Newest(pending', r)
  BY <1>1, <1>2, SentAdds
<1>4. r \in Items(reqs)
  BY DEF Ends, Items
<1>5. Flies(pending', r.to)
  BY <1>3, <1>4 DEF Flies
<1> QED BY <1>1, <1>3, <1>5 DEF PartOf

\* What is sent is of other kinds.
LEMMA OthersAsked ==
    ASSUME NEW reqs, NEW gone, Sends(reqs, gone), IsList(reqs),
           NEW kinds, NEW r, PartOf(pending, kinds, r), r.to \in kinds, r.to \notin gone,
           \A x \in Items(reqs) : x.to \notin kinds
    PROVE  /\ PartOf(pending', kinds, r)
           /\ Newest(pending, r) => Newest(pending', r)
           /\ AllOld(pending, r.to) => AllOld(pending', r.to)
           /\ Flies(pending, r.to) => Flies(pending', r.to)
           /\ r.to \in overtaken => r.to \in overtaken'
<1> DEFINE q == Logs!Without(pending, gone)
<1>1. /\ IsQueue(q) /\ Reqs(q) = {x \in Reqs(pending) : x.to \notin gone}
      /\ Newest(pending, r) => Newest(q, r)
      /\ AllOld(pending, r.to) => AllOld(q, r.to)
  BY WithoutKeeps DEF PartOf
<1> HIDE DEF q
<1>2. pending' = Logs!Sent(q, reqs) /\ overtaken' = overtaken \ gone
  BY DEF Sends, q
<1>3. Lacks(reqs, r.to)
  BY DEF Lacks
<1>4. /\ IsQueue(pending') /\ Reqs(pending') = Reqs(q) \cup Items(reqs)
      /\ Newest(q, r) => Newest(pending', r)
      /\ AllOld(q, r.to) => AllOld(pending', r.to)
  BY <1>1, <1>2, <1>3, SentAdds
<1>5. Flies(pending, r.to) => Flies(pending', r.to)
  BY <1>1, <1>4 DEF Flies
<1>6. PartOf(pending', kinds, r)
  BY <1>1, <1>4 DEF PartOf
<1> QED BY <1>1, <1>2, <1>4, <1>5, <1>6

\* An answer of another kind.
LEMMA OthersAnswered ==
    ASSUME NEW i \in DOMAIN pending, Logs!Receive(i),
           NEW kinds, NEW r, PartOf(pending, kinds, r), pending[i].req.to # r.to
    PROVE  /\ PartOf(pending', kinds, r)
           /\ Newest(pending, r) => Newest(pending', r)
           /\ AllOld(pending, r.to) => AllOld(pending', r.to)
           /\ Flies(pending, r.to) => Flies(pending', r.to)
           /\ r.to \in overtaken => r.to \in overtaken'
<1>1. /\ IsQueue(pending')
      /\ Reqs(pending') \subseteq Reqs(pending)
      /\ Reqs(pending) \subseteq Reqs(pending') \cup {pending[i].req}
      /\ Newest(pending, r) => Newest(pending', r)
      /\ AllOld(pending, r.to) => AllOld(pending', r.to)
  BY AnswerKeeps DEF PartOf, Logs!Receive
<1>2. Flies(pending, r.to) => Flies(pending', r.to)
  BY <1>1 DEF Flies
<1>3. PartOf(pending', kinds, r)
  BY <1>1 DEF PartOf
<1>4. r.to \in overtaken => r.to \in overtaken'
  BY DEF Logs!Receive
<1> QED BY <1>1, <1>2, <1>3, <1>4

\* An answer of the kind of r.
LEMMA OwnAnswered ==
    ASSUME NEW i \in DOMAIN pending, Logs!Receive(i),
           NEW kinds, NEW r, PartOf(pending, kinds, r), pending[i].req.to = r.to
    PROVE  /\ PartOf(pending', kinds, r)
           /\ Newest(pending, r) =>
                Newest(pending', r) \/ (AllOld(pending', r.to) /\ pending[i].req = r)
           /\ AllOld(pending, r.to) => AllOld(pending', r.to) /\ r.to \in overtaken'
<1>1. /\ IsQueue(pending')
      /\ Reqs(pending') \subseteq Reqs(pending)
      /\ Newest(pending, r) =>
            Newest(pending', r) \/ (AllOld(pending', r.to) /\ pending[i].req = r)
      /\ AllOld(pending, r.to) => AllOld(pending', r.to) /\ pending[i].old
  BY AnswerKeeps DEF PartOf, Logs!Receive
<1>2. PartOf(pending', kinds, r)
  BY <1>1 DEF PartOf
<1>3. pending[i].old => r.to \in overtaken'
  BY DEF Logs!Receive
<1> QED BY <1>1, <1>2, <1>3

\* The requests in flight after others were sent, and after an answer.
LEMMA SendLeaves ==
    ASSUME IsQueue(pending), NEW reqs, NEW gone, IsList(reqs), Sends(reqs, gone)
    PROVE  Reqs(pending') = {x \in Reqs(pending) : x.to \notin gone} \cup Items(reqs)
<1> DEFINE q == Logs!Without(pending, gone)
<1>1. IsQueue(q) /\ Reqs(q) = {x \in Reqs(pending) : x.to \notin gone}
  BY WithoutKeeps
<1> HIDE DEF q
<1>2. pending' = Logs!Sent(q, reqs)
  BY DEF Sends, q
<1> QED BY <1>1, <1>2, SentAdds

LEMMA NothingSent ==
    ASSUME IsQueue(pending), Sends(<<>>, {}) PROVE Reqs(pending') = Reqs(pending)
<1>1. IsList(<<>>) /\ Items(<<>>) = {}
  BY Short
<1>2. Reqs(pending') = {x \in Reqs(pending) : x.to \notin {}} \cup Items(<<>>)
  BY <1>1, SendLeaves
<1> QED BY <1>1, <1>2

LEMMA ReceiveLeaves ==
    ASSUME IsQueue(pending), NEW i \in DOMAIN pending, Logs!Receive(i)
    PROVE  IsQueue(pending') /\ Reqs(pending') \subseteq Reqs(pending)
           /\ pending[i].req \in Reqs(pending)
           /\ Reqs(pending) \subseteq Reqs(pending') \cup {pending[i].req}
<1>1. pending[i].req \in Reqs(pending)
  BY DEF Reqs
<1> QED BY <1>1, AnswerKeeps DEF Logs!Receive

-----------------------------------------------------------------------------
\* What a step leaves as it was of one kind of requests.
Preserves(q, t, kind) ==
    /\ \A r : r.to = kind /\ Newest(q, r) => Newest(t, r)
    /\ AllOld(q, kind) => AllOld(t, kind)
    /\ Flies(q, kind) => Flies(t, kind)

\* It is kept by two steps if it is by each.
LEMMA PreservesTwice ==
    ASSUME NEW q, NEW t, NEW u, NEW kind, Preserves(q, t, kind), Preserves(t, u, kind)
    PROVE  Preserves(q, u, kind)
BY DEF Preserves

\* Requests of other kinds are sent, outdated or answered.
LEMMA SentPreserves ==
    ASSUME NEW q, NEW reqs, IsQueue(q), IsList(reqs), NEW kind, Lacks(reqs, kind)
    PROVE  Preserves(q, Logs!Sent(q, reqs), kind)
<1> DEFINE s == Logs!Sent(q, reqs)
<1>1. /\ Reqs(s) = Reqs(q) \cup Items(reqs)
      /\ \A r : Newest(q, r) /\ Lacks(reqs, r.to) => Newest(s, r)
      /\ AllOld(q, kind) => AllOld(s, kind)
  BY SentAdds
<1> HIDE DEF s
<1>2. Flies(q, kind) => Flies(s, kind)
  BY <1>1 DEF Flies
<1>3. \A r : r.to = kind /\ Newest(q, r) => Newest(s, r)
  BY <1>1
<1> QED BY <1>1, <1>2, <1>3 DEF Preserves, s

LEMMA SendPreserves ==
    ASSUME IsQueue(pending), NEW reqs, NEW gone, Sends(reqs, gone), IsList(reqs),
           NEW kind, Lacks(reqs, kind), kind \notin gone
    PROVE  Preserves(pending, pending', kind)
<1> DEFINE s == Logs!Without(pending, gone)
<1>1. /\ IsQueue(s) /\ Reqs(s) = {r \in Reqs(pending) : r.to \notin gone}
      /\ \A r : Newest(pending, r) /\ r.to \notin gone => Newest(s, r)
      /\ AllOld(pending, kind) => AllOld(s, kind)
  BY WithoutKeeps
<1>2. pending' = Logs!Sent(s, reqs)
  BY DEF Sends
<1> HIDE DEF s
<1>3. Preserves(pending, s, kind)
  BY <1>1 DEF Preserves, Flies
<1>4. Preserves(s, pending', kind)
  BY <1>1, <1>2, SentPreserves
<1> QED BY <1>3, <1>4, PreservesTwice

LEMMA OutdatedPreserves ==
    ASSUME NEW q, NEW k, IsQueue(q), NEW kind, kind # k
    PROVE  Preserves(q, Logs!Outdated(q, k), kind)
<1> DEFINE s == Logs!Outdated(q, k)
<1>1. /\ IsQueue(s) /\ Reqs(s) = Reqs(q)
      /\ \A r : Newest(q, r) /\ r.to # k => Newest(s, r)
      /\ AllOld(q, kind) => AllOld(s, kind)
  BY OutdatedKeeps
<1> HIDE DEF s
<1> QED BY <1>1 DEF Preserves, Flies, s

LEMMA AnswerPreserves ==
    ASSUME IsQueue(pending), NEW i \in DOMAIN pending, NEW kind, pending[i].req.to # kind
    PROVE  Preserves(pending, Logs!AfterAnswer(i), kind)
<1> DEFINE s == Logs!AfterAnswer(i)
<1>1. /\ Reqs(pending) \subseteq Reqs(s) \cup {pending[i].req}
      /\ \A r : Newest(pending, r) /\ pending[i].req.to # r.to => Newest(s, r)
      /\ AllOld(pending, kind) => AllOld(s, kind)
  BY AnswerKeeps
<1> HIDE DEF s
<1>2. Flies(pending, kind) => Flies(s, kind)
  BY <1>1 DEF Flies
<1>3. \A r : r.to = kind /\ Newest(pending, r) => Newest(s, r)
  BY <1>1
<1> QED BY <1>1, <1>2, <1>3 DEF Preserves, s

\* One request in flight becomes another of its kind.
Edited(q, i, n) == [q EXCEPT ![i] = [q[i] EXCEPT !.req = n]]

\* The queue after it.
LEMMA EditKeeps ==
    ASSUME NEW q, IsQueue(q), NEW i \in DOMAIN q, NEW n, n.to = q[i].req.to,
           NEW s, s = Edited(q, i, n)
    PROVE  /\ IsQueue(s) /\ Reqs(s) \subseteq Reqs(q) \cup {n}
           /\ \A kind : AllOld(q, kind) => AllOld(s, kind)
           /\ \A kind : Flies(q, kind) => Flies(s, kind)
           /\ \A r : Newest(q, r) => Newest(s, r) \/ (Newest(s, n) /\ r = q[i].req)
<1>1. Len(q) \in Nat /\ DOMAIN q = 1 .. Len(q)
  BY ListIsFunction DEF IsQueue
<1>2. DOMAIN s = DOMAIN q /\ IsList(s)
  <2>1. s = [j \in 1 .. Len(q) |-> s[j]]
    BY <1>1 DEF Edited
  <2> QED BY <1>1, <2>1, FunctionIsList
<1>3. ASSUME NEW j \in DOMAIN q
      PROVE  /\ s[j].req = IF j = i THEN n ELSE q[j].req
             /\ s[j].old = q[j].old /\ s[j].req.to = q[j].req.to
             /\ {"req", "old"} \subseteq DOMAIN s[j]
  BY <1>1 DEF IsQueue, Edited
<1>4. IsQueue(s)
  BY <1>2, <1>3 DEF IsQueue
<1>5. Reqs(s) \subseteq Reqs(q) \cup {n}
  <2>1. \A j \in DOMAIN q : s[j].req \in Reqs(q) \cup {n}
    BY <1>3 DEF Reqs
  <2> QED BY <1>2, <2>1 DEF Reqs
<1>6. ASSUME NEW kind, AllOld(q, kind) PROVE AllOld(s, kind)
  BY <1>2, <1>3, <1>6 DEF AllOld
<1>7. ASSUME NEW kind, Flies(q, kind) PROVE Flies(s, kind)
  BY <1>2, <1>3, <1>7 DEF Flies, Reqs
<1>8. ASSUME NEW r, Newest(q, r)
      PROVE  Newest(s, r) \/ (Newest(s, n) /\ r = q[i].req)
  <2>1. PICK k \in DOMAIN q : /\ q[k].req = r /\ ~ q[k].old
                              /\ \A j \in DOMAIN q : j > k => q[j].req.to # r.to
    BY <1>8 DEF Newest
  <2>2. CASE k = i
    BY <1>2, <1>3, <2>1, <2>2 DEF Newest
  <2>3. CASE k # i
    BY <1>2, <1>3, <2>1, <2>3 DEF Newest
  <2> QED BY <2>2, <2>3
<1> QED BY <1>4, <1>5, <1>6, <1>7, <1>8

-----------------------------------------------------------------------------
\* The fields that say what the main part of a page shows.
Screened(v) == {"shown", "error", "loading"} \subseteq DOMAIN v

\* The main part of a page is up to date with the request r, the one its address
\* asks for: r is on its way, the last of its kind; or nothing newer than what is
\* on screen is, and that is the answer to r, or an error, or one that came late.
\* Requests of the other parts the page had are not in flight.
MainIn(q, late, v, kinds, r) ==
    /\ PartOf(q, kinds, r) /\ r.to \in kinds /\ Screened(v)
    /\ \/ Newest(q, r)
       \/ AllOld(q, r.to) /\ (v.shown.req = r \/ v.error \/ r.to \in late)
    /\ v.loading => Flies(q, r.to)

\* What a step that is not about the main part leaves of it.
SameScreen == /\ Screened(view) => Screened(view')
              /\ view'.shown = view.shown
              /\ view.error => view'.error
              /\ view'.loading => view.loading

\* Nothing in flight: the screen shows the request; loading: it flies.
LEMMA MainShows ==
    ASSUME NEW kinds, NEW r, MainIn(pending, overtaken, view, kinds, r)
    PROVE  /\ ~ Flies(pending, r.to) => view.shown.req = r \/ view.error \/ r.to \in overtaken
           /\ view.loading => Flies(pending, r.to)
<1>1. Newest(pending, r) => Flies(pending, r.to)
  BY DEF Newest, Flies, Reqs
<1> QED BY <1>1 DEF MainIn

\* A page that has just come on screen.
LEMMA MainMounted ==
    ASSUME NEW reqs, IsList(reqs), NEW kinds, NEW r, Ends(reqs, r), r.to \in kinds,
           \A x \in Items(reqs) : x.to \in kinds => x.to = r.to, NEW v, Screened(v)
    PROVE  MainIn(Logs!Sent(<<>>, reqs), {}, v, kinds, r)
<1>1. IsQueue(<<>>) /\ Reqs(<<>>) = {}
  BY ShortLists DEF IsQueue, Reqs
<1> DEFINE q == Logs!Sent(<<>>, reqs)
<1>2. IsQueue(q) /\ Reqs(q) = Items(reqs) /\ Newest(q, r)
  <2>1. IsQueue(q) /\ Reqs(q) = Reqs(<<>>) \cup Items(reqs) /\ Newest(q, r)
    BY <1>1, SentAdds
  <2> QED BY <1>1, <2>1
<1>3. r \in Items(reqs)
  BY DEF Ends, Items
<1> HIDE DEF q
<1>4. PartOf(q, kinds, r)
  BY <1>2 DEF PartOf
<1>5. Flies(q, r.to)
  BY <1>2, <1>3 DEF Flies
<1>6. MainIn(q, {}, v, kinds, r)
  BY <1>2, <1>4, <1>5 DEF MainIn
<1> QED BY <1>6 DEF q

\* The main part asks anew, last of all.
LEMMA MainAsks ==
    ASSUME IsQueue(pending), NEW reqs, NEW gone, Sends(reqs, gone), IsList(reqs),
           NEW kinds, NEW r, Ends(reqs, r), r.to \in kinds,
           \A x \in Items(reqs) : x.to \in kinds => x.to = r.to,
           \A x \in Reqs(pending) : x.to \in kinds => x.to = r.to \/ x.to \in gone,
           Screened(view')
    PROVE  MainIn(pending', overtaken', view', kinds, r)
BY AskedAnew DEF MainIn

\* Other parts of the page ask.
LEMMA MainStays ==
    ASSUME NEW reqs, NEW gone, Sends(reqs, gone), IsList(reqs), NEW kinds, NEW r,
           MainIn(pending, overtaken, view, kinds, r), r.to \notin gone,
           \A x \in Items(reqs) : x.to \notin kinds, SameScreen
    PROVE  MainIn(pending', overtaken', view', kinds, r)
<1>1. PartOf(pending, kinds, r) /\ r.to \in kinds
  BY DEF MainIn
<1>2. /\ PartOf(pending', kinds, r)
      /\ Newest(pending, r) => Newest(pending', r)
      /\ AllOld(pending, r.to) => AllOld(pending', r.to)
      /\ Flies(pending, r.to) => Flies(pending', r.to)
      /\ r.to \in overtaken => r.to \in overtaken'
  BY <1>1, OthersAsked
<1> QED BY <1>2 DEF MainIn, SameScreen

\* Other parts of the page are answered.
LEMMA MainIgnores ==
    ASSUME NEW i \in DOMAIN pending, Logs!Receive(i), NEW kinds, NEW r,
           MainIn(pending, overtaken, view, kinds, r), pending[i].req.to # r.to, SameScreen
    PROVE  MainIn(pending', overtaken', view', kinds, r)
<1>1. PartOf(pending, kinds, r)
  BY DEF MainIn
<1>2. /\ PartOf(pending', kinds, r)
      /\ Newest(pending, r) => Newest(pending', r)
      /\ AllOld(pending, r.to) => AllOld(pending', r.to)
      /\ Flies(pending, r.to) => Flies(pending', r.to)
      /\ r.to \in overtaken => r.to \in overtaken'
  BY <1>1, OthersAnswered
<1> QED BY <1>2 DEF MainIn, SameScreen

\* The main part is answered.
LEMMA MainTakes ==
    ASSUME NEW i \in DOMAIN pending, Logs!Receive(i), NEW kinds, NEW r,
           MainIn(pending, overtaken, view, kinds, r), pending[i].req.to \in kinds,
           Screened(view'), ~ view'.loading,
           view'.shown.req = pending[i].req \/ view'.error
    PROVE  MainIn(pending', overtaken', view', kinds, r)
<1>1. PartOf(pending, kinds, r) /\ pending[i].req.to = r.to
  BY DEF MainIn, PartOf, Reqs
<1>2. /\ PartOf(pending', kinds, r)
      /\ Newest(pending, r) =>
           Newest(pending', r) \/ (AllOld(pending', r.to) /\ pending[i].req = r)
      /\ AllOld(pending, r.to) => AllOld(pending', r.to) /\ r.to \in overtaken'
  BY <1>1, OwnAnswered
<1> QED BY <1>2 DEF MainIn

\* A step that leaves the kind of the main part alone.
LEMMA MainKept ==
    ASSUME NEW q, NEW late, NEW v, NEW kinds, NEW r, MainIn(q, late, v, kinds, r),
           NEW q2, NEW late2, NEW v2, IsQueue(q2), Preserves(q, q2, r.to),
           \A x \in Reqs(q2) : x.to \in kinds => x.to = r.to,
           r.to \in late => r.to \in late2, Screened(v2),
           v2.shown = v.shown, v.error => v2.error, v2.loading => v.loading
    PROVE  MainIn(q2, late2, v2, kinds, r)
BY DEF MainIn, PartOf, Preserves

\* A queue that ends with the request of the main part.
LEMMA MainFresh ==
    ASSUME NEW q, NEW late, NEW v, NEW kinds, NEW r, IsQueue(q), Newest(q, r), r.to \in kinds,
           \A x \in Reqs(q) : x.to \in kinds => x.to = r.to, Screened(v)
    PROVE  MainIn(q, late, v, kinds, r)
<1>1. Flies(q, r.to)
  BY DEF Newest, Flies, Reqs
<1> QED BY <1>1 DEF MainIn, PartOf

=============================================================================
