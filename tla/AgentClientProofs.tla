------------------------- MODULE AgentClientProofs -------------------------
(***************************************************************************)
(* Proofs about Spool, AgentClient and AgentQueue, for any set of senders  *)
(* and batches, any limits and any faults.                                 *)
(***************************************************************************)
EXTENDS AgentQueue, Sequences, FiniteSetTheorems, WellFoundedInduction, TLAPS

USE SpoolAssumption, ClientAssumption DEF Name
-----------------------------------------------------------------------------
(* The directory *)

\* A directory is a function from names to batches.
LEMMA DirectoryIsFunction ==
  ASSUME NEW d \in Directory
  PROVE  /\ DOMAIN d \subseteq Name
         /\ \A n \in DOMAIN d : d[n] \in Batch
         /\ d = [n \in DOMAIN d |-> d[n]]
BY DEF Directory

\* A new spool is a directory without files.
LEMMA EmptyIsDirectory == EmptyDirectory \in Directory /\ DOMAIN EmptyDirectory = {}
<1>1. [n \in {} |-> n] \in [{} -> Batch]
  OBVIOUS
<1>2. {} \in SUBSET Name
  OBVIOUS
<1> QED
  BY <1>1, <1>2 DEF Directory, EmptyDirectory

\* A directory that is not the empty one holds a file.
LEMMA NotEmpty ==
  ASSUME NEW d \in Directory, d # EmptyDirectory
  PROVE  DOMAIN d # {}
BY DirectoryIsFunction DEF EmptyDirectory

\* A nonempty set of numbers has a least element.
LEMMA SmallestOf ==
  ASSUME NEW S \in SUBSET Nat, S # {}
  PROVE  \E n \in S : \A m \in S : n <= m
<1>1. \E n \in S : \A m \in S : ~ (<<m, n>> \in OpToRel(<, Nat))
  BY WFMin, NatLessThanWellFounded
<1>2. OpToRel(<, Nat) = {ss \in Nat \X Nat : ss[1] < ss[2]}
  BY Zenon DEF OpToRel
<1>3. PICK n \in S : \A m \in S : ~ (<<m, n>> \in {ss \in Nat \X Nat : ss[1] < ss[2]})
  BY <1>1, <1>2
<1>4. \A m \in S : ~ (m < n)
  BY <1>3
<1> QED
  BY <1>4

\* names()[0] is one of the names and the smallest of them.
LEMMA OldestIsStored ==
  ASSUME NEW d \in Directory, d # EmptyDirectory
  PROVE  /\ Oldest(d) \in DOMAIN d
         /\ \A n \in DOMAIN d : Oldest(d) <= n
<1>1. DOMAIN d \in SUBSET Nat /\ DOMAIN d # {}
  BY NotEmpty, DirectoryIsFunction
<1>2. \E n \in DOMAIN d : \A m \in DOMAIN d : n <= m
  BY <1>1, SmallestOf
<1> QED
  BY <1>2 DEF Oldest, Min

\* Put's number comes after that of every file, whatever was removed before.
LEMMA NextNameIsLast ==
  ASSUME NEW d \in Directory
  PROVE  \A n \in DOMAIN d : n < NextName(d)
<1>1. CASE DOMAIN d = {}
  BY <1>1
<1>2. CASE DOMAIN d # {}
  <2> DEFINE S == {MaxName - n : n \in DOMAIN d}
  <2>1. DOMAIN d \subseteq 1..MaxName
    BY DirectoryIsFunction
  <2>2. S \in SUBSET Nat /\ S # {}
    BY <1>2, <2>1
  <2>3. PICK x \in S : \A y \in S : x <= y
    BY <2>2, SmallestOf
  <2>4. PICK n \in DOMAIN d : x = MaxName - n
    BY <2>3
  <2>5. ASSUME NEW m \in DOMAIN d
        PROVE  m <= n
    <3>1. MaxName - m \in S
      OBVIOUS
    <3>2. MaxName - n <= MaxName - m
      BY <2>3, <2>4, <3>1
    <3> QED
      BY <2>1, <3>2
  <2>6. Newest(d) \in DOMAIN d /\ \A m \in DOMAIN d : m <= Newest(d)
    <3>1. \E k \in DOMAIN d : \A m \in DOMAIN d : k >= m
      BY <2>1, <2>5
    <3>2. Newest(d) \in DOMAIN d /\ \A m \in DOMAIN d : Newest(d) >= m
      BY <3>1 DEF Newest, Max
    <3> QED
      BY <2>1, <3>2
  <2> QED
    BY <1>2, <2>1, <2>6 DEF NextName
<1> QED
  BY <1>1, <1>2

\* Put's number is in use by no file.
LEMMA NextNameIsNew ==
  ASSUME NEW d \in Directory
  PROVE  NextName(d) \notin DOMAIN d
BY NextNameIsLast, DirectoryIsFunction

\* Removing a file leaves a directory.
LEMMA WithoutIsDirectory ==
  ASSUME NEW d \in Directory, NEW name
  PROVE  /\ Without(d, name) \in Directory
         /\ DOMAIN Without(d, name) = DOMAIN d \ {name}
         /\ \A n \in DOMAIN d \ {name} : Without(d, name)[n] = d[n]
<1>1. DOMAIN d \subseteq Name /\ \A n \in DOMAIN d : d[n] \in Batch
  BY DirectoryIsFunction
<1>2. [n \in DOMAIN d \ {name} |-> d[n]] \in [DOMAIN d \ {name} -> Batch]
  BY <1>1
<1> QED
  BY <1>1, <1>2 DEF Without, Directory

\* Put leaves a directory that still holds every file it held.
LEMMA WithIsDirectory ==
  ASSUME NEW d \in Directory, NEW b \in Batch
  PROVE  /\ With(d, b) \in Directory
         /\ DOMAIN d \subseteq DOMAIN With(d, b)
         /\ \A n \in DOMAIN d : With(d, b)[n] = d[n]
<1>1. DOMAIN d \subseteq Name /\ \A n \in DOMAIN d : d[n] \in Batch
  BY DirectoryIsFunction
<1>2. NextName(d) \notin DOMAIN d
  BY NextNameIsNew
<1>3. CASE NextName(d) \in Name
  <2> DEFINE names == DOMAIN d \cup {NextName(d)}
             f == [n \in names |-> IF n = NextName(d) THEN b ELSE d[n]]
  <2>1. With(d, b) = f
    BY <1>3 DEF With
  <2>2. names \in SUBSET Name /\ f \in [names -> Batch]
    BY <1>1, <1>3
  <2>3. f \in Directory
    BY <2>2 DEF Directory
  <2>4. \A n \in DOMAIN d : f[n] = d[n]
    BY <1>2
  <2> QED
    BY <2>1, <2>3, <2>4
<1>4. CASE NextName(d) \notin Name
  BY <1>1, <1>4 DEF With
<1> QED
  BY <1>3, <1>4
-----------------------------------------------------------------------------
(***************************************************************************)
(* The bytes of a directory.  Used folds over the names in an order that   *)
(* nothing fixes; the lemmas say that the order does not matter.           *)
(***************************************************************************)

\* The element a fold takes out of a set first.
Pick(s) == CHOOSE x \in s : TRUE

\* What a fold over the sets of a domain satisfies.
Sums(d, domain, f) ==
  f = [s \in domain |-> IF s = {} THEN 0 ELSE Weight[d[Pick(s)]] + f[s \ {Pick(s)}]]

\* Used is such a fold over the names of the directory.
LEMMA UsedIsSum ==
  ASSUME NEW d
  PROVE  Used(d) = (CHOOSE f : Sums(d, SUBSET DOMAIN d, f))[DOMAIN d]
BY DEF Used, MapThenSumSet, MapThenFoldSet, Sums, Pick

\* Taking out the picked element makes a set smaller.
LEMMA PickShrinks ==
  ASSUME NEW s, IsFiniteSet(s), s # {}
  PROVE  /\ Pick(s) \in s
         /\ IsFiniteSet(s \ {Pick(s)})
         /\ Cardinality(s) \in Nat \ {0}
         /\ Cardinality(s \ {Pick(s)}) = Cardinality(s) - 1
<1>1. Pick(s) \in s
  BY DEF Pick
<1>2. Cardinality(s) \in Nat /\ Cardinality(s) # 0
  BY FS_CardinalityType, FS_EmptySet
<1> QED
  BY <1>1, <1>2, FS_RemoveElement

\* Such a fold exists on the subsets of any finite set.
LEMMA SumExists ==
  ASSUME NEW d, NEW D, IsFiniteSet(D)
  PROVE  \E f : Sums(d, SUBSET D, f)
<1> DEFINE Upto(n) == {s \in SUBSET D : Cardinality(s) <= n}
           Good(n) == \E f : Sums(d, Upto(n), f)
           Bad == {n \in Nat : ~Good(n)}
<1>1. \A s \in SUBSET D : IsFiniteSet(s) /\ Cardinality(s) \in Nat
                          /\ Cardinality(s) <= Cardinality(D)
  BY FS_Subset, FS_CardinalityType
<1>2. Good(0)
  <2> DEFINE f == [s \in Upto(0) |-> 0]
  <2>1. \A s \in Upto(0) : s = {}
    BY <1>1, FS_EmptySet
  <2>2. f = [s \in Upto(0) |-> IF s = {} THEN 0 ELSE Weight[d[Pick(s)]] + f[s \ {Pick(s)}]]
    BY <2>1
  <2>3. Sums(d, Upto(0), f)
    BY <2>2 DEF Sums
  <2> QED
    BY <2>3
<1>3. ASSUME NEW m \in Nat \ {0}, Good(m - 1)
      PROVE  Good(m)
  <2>1. PICK f : Sums(d, Upto(m - 1), f)
    BY <1>3
  <2> DEFINE g == [s \in Upto(m) |-> IF s = {} THEN 0
                                     ELSE Weight[d[Pick(s)]] + f[s \ {Pick(s)}]]
  <2>2. ASSUME NEW s \in Upto(m), s # {}
        PROVE  g[s \ {Pick(s)}] = f[s \ {Pick(s)}]
    <3>1. s \ {Pick(s)} \in Upto(m - 1)
      BY <1>1, <2>2, PickShrinks
    <3>2. s \ {Pick(s)} \in Upto(m)
      BY <1>1, <3>1
    <3> QED
      BY <2>1, <3>1, <3>2 DEF Sums
  <2>3. g = [s \in Upto(m) |-> IF s = {} THEN 0 ELSE Weight[d[Pick(s)]] + g[s \ {Pick(s)}]]
    BY <2>2
  <2>4. Sums(d, Upto(m), g)
    BY <2>3 DEF Sums
  <2> QED
    BY <2>4
<1> HIDE DEF Good
<1>4. Bad = {}
  <2> SUFFICES ASSUME Bad # {}
               PROVE  FALSE
    OBVIOUS
  <2>1. PICK m \in Bad : \A n \in Bad : m <= n
    BY SmallestOf
  <2>2. m \in Nat \ {0} /\ ~Good(m)
    BY <1>2, <2>1
  <2>3. Good(m - 1)
    BY <2>1, <2>2
  <2> QED
    BY <1>3, <2>2, <2>3
<1>5. Upto(Cardinality(D)) = SUBSET D
  BY <1>1
<1>6. Cardinality(D) \in Nat
  BY FS_CardinalityType
<1>7. Good(Cardinality(D))
  BY <1>4, <1>6
<1> QED
  BY <1>5, <1>7 DEF Good

\* Two directories hold the same batches under some names.
AgreeOn(c, d, names) == \A n \in names : c[n] = d[n]

\* The value depends on the batches of the set only.
LEMMA SumsAgree ==
  ASSUME NEW c, NEW C, NEW f, NEW d, NEW D, NEW g, NEW S,
         Sums(c, SUBSET C, f), Sums(d, SUBSET D, g), IsFiniteSet(S),
         S \subseteq C, S \subseteq D, AgreeOn(c, d, S)
  PROVE  f[S] = g[S]
<1> DEFINE Bad == {Cardinality(s) : s \in {t \in SUBSET S : f[t] # g[t]}}
<1>1. \A s \in SUBSET S : IsFiniteSet(s) /\ Cardinality(s) \in Nat
  BY FS_Subset, FS_CardinalityType
<1>2. Bad = {}
  <2> SUFFICES ASSUME Bad # {}
               PROVE  FALSE
    OBVIOUS
  <2>1. Bad \in SUBSET Nat
    BY <1>1
  <2>2. PICK m \in Bad : \A n \in Bad : m <= n
    BY <2>1, SmallestOf
  <2>3. PICK s \in SUBSET S : f[s] # g[s] /\ m = Cardinality(s)
    BY <2>2
  <2>4. s # {}
    BY <2>3 DEF Sums
  <2>5. /\ Pick(s) \in s /\ Cardinality(s) \in Nat
        /\ Cardinality(s \ {Pick(s)}) = Cardinality(s) - 1
    BY <1>1, <2>4, PickShrinks
  <2>6. f[s \ {Pick(s)}] = g[s \ {Pick(s)}]
    BY <2>2, <2>3, <2>5
  <2>7. /\ f[s] = Weight[c[Pick(s)]] + f[s \ {Pick(s)}]
        /\ g[s] = Weight[d[Pick(s)]] + g[s \ {Pick(s)}]
    BY <2>4 DEF Sums
  <2>8. c[Pick(s)] = d[Pick(s)]
    BY <2>5 DEF AgreeOn
  <2> QED
    BY <2>3, <2>6, <2>7, <2>8
<1> QED
  BY <1>2

\* Adding an element adds its batch's bytes, whichever is picked first.
Adds(d, domain, f) ==
  \A S \in SUBSET domain :
     /\ f[S] \in Nat
     /\ \A x \in domain \ S : f[S \cup {x}] = f[S] + Weight[d[x]]

\* Every such fold does, so the order of the names does not matter.
LEMMA SumAdds ==
  ASSUME NEW d, NEW D, NEW f, Sums(d, SUBSET D, f), IsFiniteSet(D),
         \A n \in D : d[n] \in Batch
  PROVE  Adds(d, D, f)
<1> DEFINE Holds(s) == /\ f[s] \in Nat
                       /\ \A x \in D \ s : f[s \cup {x}] = f[s] + Weight[d[x]]
           Bad == {Cardinality(s) : s \in {t \in SUBSET D : ~ Holds(t)}}
<1>1. \A s \in SUBSET D : IsFiniteSet(s) /\ Cardinality(s) \in Nat
  BY FS_Subset, FS_CardinalityType
<1>2. \A n \in D : Weight[d[n]] \in Nat
  OBVIOUS
<1>3. \A s \in SUBSET D : s # {} => f[s] = Weight[d[Pick(s)]] + f[s \ {Pick(s)}]
  BY DEF Sums
<1>4. f[{}] = 0
  BY DEF Sums
<1>5. ASSUME NEW s \in SUBSET D, \A t \in SUBSET D : Cardinality(t) < Cardinality(s) => Holds(t)
      PROVE  Holds(s)
  <2>1. f[s] \in Nat
    <3>1. CASE s = {}
      BY <1>4, <3>1
    <3>2. CASE s # {}
      <4>1. Pick(s) \in s /\ Cardinality(s \ {Pick(s)}) < Cardinality(s)
        BY <1>1, <3>2, PickShrinks
      <4>2. f[s \ {Pick(s)}] \in Nat
        BY <1>5, <4>1
      <4>3. Weight[d[Pick(s)]] \in Nat
        BY <1>2, <4>1
      <4>4. f[s] = Weight[d[Pick(s)]] + f[s \ {Pick(s)}]
        BY <1>3, <3>2
      <4> QED
        BY <4>2, <4>3, <4>4
    <3> QED
      BY <3>1, <3>2
  <2>2. ASSUME NEW x \in D \ s
        PROVE  f[s \cup {x}] = f[s] + Weight[d[x]]
    <3> DEFINE u == s \cup {x}
               y == Pick(u)
    <3>1. u \in SUBSET D /\ u # {} /\ y \in u
      BY DEF Pick
    <3>2. f[u] = Weight[d[y]] + f[u \ {y}]
      BY <1>3, <3>1
    <3>3. CASE y = x
      <4>1. u \ {y} = s
        BY <2>2, <3>3
      <4>2. Weight[d[x]] \in Nat
        BY <1>2, <2>2
      <4>3. f[u] = Weight[d[x]] + f[s]
        BY <3>2, <3>3, <4>1
      <4> HIDE DEF u
      <4>4. f[u] = f[s] + Weight[d[x]]
        BY <2>1, <4>2, <4>3
      <4> QED
        BY <4>4 DEF u
    <3>4. CASE y # x
      <4> DEFINE t == s \ {y}
      <4>1. y \in s /\ t \in SUBSET D /\ x \in D \ t /\ y \in D \ t
        BY <2>2, <3>1, <3>4
      <4>2. Cardinality(t) < Cardinality(s)
        <5>1. IsFiniteSet(s) /\ Cardinality(s) \in Nat
          BY <1>1
        <5>2. y \in s
          BY <4>1
        <5> HIDE DEF y
        <5>3. Cardinality(s \ {y}) = Cardinality(s) - 1
          BY <5>1, <5>2, FS_RemoveElement
        <5> QED
          BY <5>1, <5>3
      <4>3. Holds(t)
        BY <1>5, <4>1, <4>2
      <4>4. u \ {y} = t \cup {x} /\ t \cup {y} = s
        BY <2>2, <3>4, <4>1
      <4>5. f[t] \in Nat /\ f[t \cup {x}] = f[t] + Weight[d[x]]
            /\ f[t \cup {y}] = f[t] + Weight[d[y]]
        BY <4>1, <4>3
      <4>6. Weight[d[x]] \in Nat /\ Weight[d[y]] \in Nat
        BY <1>2, <2>2, <3>1
      <4>7. f[u] = Weight[d[y]] + (f[t] + Weight[d[x]]) /\ f[s] = f[t] + Weight[d[y]]
        BY <3>2, <4>4, <4>5
      <4> HIDE DEF u, t, y
      <4>8. f[u] = f[s] + Weight[d[x]]
        BY <4>5, <4>6, <4>7
      <4> QED
        BY <4>8 DEF u
    <3> QED
      BY <3>3, <3>4
  <2> QED
    BY <2>1, <2>2
<1>6. Bad = {}
  <2> SUFFICES ASSUME Bad # {}
               PROVE  FALSE
    OBVIOUS
  <2> HIDE DEF Holds
  <2>1. Bad \in SUBSET Nat
    BY <1>1
  <2>2. PICK m \in Bad : \A n \in Bad : m <= n
    BY <2>1, SmallestOf
  <2>3. PICK s \in SUBSET D : ~ Holds(s) /\ m = Cardinality(s)
    BY <2>2
  <2>4. \A t \in SUBSET D : Cardinality(t) < Cardinality(s) => Holds(t)
    BY <1>1, <2>2, <2>3
  <2> QED
    BY <1>5, <2>3, <2>4
<1> QED
  BY <1>6 DEF Adds

\* The files of a directory are finitely many.
LEMMA FilesAreFinite ==
  ASSUME NEW d \in Directory
  PROVE  IsFiniteSet(DOMAIN d)
<1>1. DOMAIN d \in SUBSET (1 .. MaxName)
  BY DEF Directory
<1>2. 1 \in Int /\ MaxName \in Int
  OBVIOUS
<1>3. IsFiniteSet(1 .. MaxName)
  BY <1>2, FS_Interval
<1> QED
  BY <1>1, <1>3, FS_Subset

\* The bytes of a directory through any function that sums its batches.
LEMMA UsedThrough ==
  ASSUME NEW c \in Directory, NEW d, NEW D, NEW g, Sums(d, SUBSET D, g), IsFiniteSet(D),
         DOMAIN c \subseteq D, AgreeOn(c, d, DOMAIN c)
  PROVE  Used(c) = g[DOMAIN c]
<1> DEFINE f == CHOOSE h : Sums(c, SUBSET DOMAIN c, h)
<1>1. IsFiniteSet(DOMAIN c)
  BY FilesAreFinite
<1>2. Sums(c, SUBSET DOMAIN c, f)
  BY <1>1, SumExists
<1>3. Used(c) = f[DOMAIN c]
  BY UsedIsSum
<1> HIDE DEF f
<1>4. f[DOMAIN c] = g[DOMAIN c]
  BY <1>1, <1>2, SumsAgree
<1> QED
  BY <1>3, <1>4

\* An empty directory takes no bytes.
LEMMA UsedEmpty == Used(EmptyDirectory) = 0
<1>1. DOMAIN EmptyDirectory = {} /\ EmptyDirectory \in Directory
  BY EmptyIsDirectory
<1>2. IsFiniteSet({})
  BY FS_EmptySet
<1>3. PICK g : Sums(EmptyDirectory, SUBSET {}, g)
  BY <1>2, SumExists
<1>4. Used(EmptyDirectory) = g[{}]
  BY <1>1, <1>2, <1>3, UsedThrough DEF AgreeOn
<1>5. g[{}] = 0
  BY <1>3 DEF Sums
<1> QED
  BY <1>4, <1>5

\* A directory with one file more takes the bytes of its batch more.
OneMore(c, d, n) ==
  n \notin DOMAIN c /\ DOMAIN d = DOMAIN c \cup {n} /\ AgreeOn(c, d, DOMAIN c)

\* A file more takes its weight more of the limit.
LEMMA UsedMore ==
  ASSUME NEW c \in Directory, NEW d \in Directory, NEW n, OneMore(c, d, n)
  PROVE  /\ Used(c) \in Nat
         /\ Used(d) = Used(c) + Weight[d[n]]
<1>1. IsFiniteSet(DOMAIN d)
  BY FilesAreFinite
<1>2. \A m \in DOMAIN d : d[m] \in Batch
  BY DirectoryIsFunction
<1>3. PICK g : Sums(d, SUBSET DOMAIN d, g)
  BY <1>1, SumExists
<1>4. DOMAIN c \subseteq DOMAIN d /\ n \in DOMAIN d \ DOMAIN c
  BY DEF OneMore
<1>5. AgreeOn(c, d, DOMAIN c) /\ AgreeOn(d, d, DOMAIN d)
  BY DEF OneMore, AgreeOn
<1>6. Used(c) = g[DOMAIN c]
  BY <1>1, <1>3, <1>4, <1>5, UsedThrough
<1>7. Used(d) = g[DOMAIN d]
  BY <1>1, <1>3, <1>5, UsedThrough
<1>8. Adds(d, DOMAIN d, g)
  BY <1>1, <1>2, <1>3, SumAdds
<1>9. g[DOMAIN c] \in Nat /\ g[DOMAIN c \cup {n}] = g[DOMAIN c] + Weight[d[n]]
  BY <1>4, <1>8 DEF Adds
<1> QED
  BY <1>6, <1>7, <1>9 DEF OneMore

\* Removing a stored file never makes the directory larger.
LEMMA UsedWithout ==
  ASSUME NEW d \in Directory, NEW n \in DOMAIN d
  PROVE  /\ Used(Without(d, n)) \in Nat
         /\ Used(d) = Used(Without(d, n)) + Weight[d[n]]
<1> DEFINE c == Without(d, n)
<1>1. /\ c \in Directory /\ DOMAIN c = DOMAIN d \ {n}
      /\ \A m \in DOMAIN d \ {n} : c[m] = d[m]
  BY WithoutIsDirectory
<1> HIDE DEF c
<1>2. OneMore(c, d, n)
  BY <1>1 DEF OneMore, AgreeOn
<1>3. Used(c) \in Nat /\ Used(d) = Used(c) + Weight[d[n]]
  BY <1>1, <1>2, UsedMore
<1> QED
  BY <1>3 DEF c

\* The bytes of a directory are a number.
LEMMA UsedIsNat ==
  ASSUME NEW d \in Directory
  PROVE  Used(d) \in Nat
<1>1. CASE d = EmptyDirectory
  BY <1>1, UsedEmpty
<1>2. CASE d # EmptyDirectory
  <2>1. PICK n \in DOMAIN d : TRUE
    BY <1>2, NotEmpty
  <2>2. Weight[d[n]] \in Nat
    BY DirectoryIsFunction
  <2> QED
    BY <2>2, UsedWithout
<1> QED
  BY <1>1, <1>2

\* Put adds at most the bytes of its batch.
LEMMA UsedWith ==
  ASSUME NEW d \in Directory, NEW b \in Batch
  PROVE  /\ Used(With(d, b)) \in Nat
         /\ Used(With(d, b)) <= Used(d) + Weight[b]
<1>1. Used(d) \in Nat /\ Weight[b] \in Nat
  BY UsedIsNat
<1>2. CASE NextName(d) \in Name
  <2> DEFINE c == With(d, b)
             n == NextName(d)
  <2>1. c = [m \in DOMAIN d \cup {n} |-> IF m = n THEN b ELSE d[m]]
    BY <1>2 DEF With
  <2>2. n \notin DOMAIN d /\ c \in Directory
    BY NextNameIsNew, WithIsDirectory
  <2> HIDE DEF c, n
  <2>3. c[n] = b /\ OneMore(d, c, n)
    BY <2>1, <2>2 DEF OneMore, AgreeOn
  <2>4. Used(c) = Used(d) + Weight[c[n]]
    BY <2>2, <2>3, UsedMore
  <2>5. Used(c) \in Nat /\ Used(c) <= Used(d) + Weight[b]
    BY <1>1, <2>3, <2>4
  <2> QED
    BY <2>5 DEF c
<1>3. CASE NextName(d) \notin Name
  BY <1>1, <1>3 DEF With
<1> QED
  BY <1>2, <1>3
-----------------------------------------------------------------------------
(***************************************************************************)
(* What is true of a sender between any two steps: it holds batchMu from   *)
(* Lock to its return, it has its batch in hand, and the item it replays   *)
(* is the oldest file of the directory.                                    *)
(***************************************************************************)

Replays(s) == pc[s] \in {"replay", "replaying", "remove"}

SenderOK(s) ==
  /\ Holding(s) => mu = s
  /\ pc[s] # "idle" => batch[s] \in Batch
  /\ pc[s] = "idle" => batch[s] = NoBatch
  /\ Replays(s) => /\ dir # EmptyDirectory
                   /\ item[s].name = Oldest(dir)
                   /\ item[s].batch = dir[item[s].name]

ClientInv == TypeOK /\ \A s \in Sender : SenderOK(s)

\* The agent starts in the invariant.
LEMMA ClientInit == Init => ClientInv
<1> SUFFICES ASSUME Init
             PROVE  ClientInv
    OBVIOUS
<1>1. dir \in Directory /\ bad \in Directory /\ torn \subseteq DOMAIN dir
  BY EmptyIsDirectory DEF Init
<1>2. NoItem \in [name : Name \cup {0}, batch : Batch \cup {NoBatch}]
  BY DEF NoItem
<1>a. torn = {} /\ mu = Free /\ stopping = FALSE
  BY DEF Init
<1>b. /\ pc \in [Sender -> PC]
      /\ batch \in [Sender -> Batch \cup {NoBatch}]
      /\ ctx \in [Sender -> {"live", "expired", "cancelled"}]
  BY DEF Init, PC
<1>c. item \in [Sender -> [name : Name \cup {0}, batch : Batch \cup {NoBatch}]]
  BY <1>2 DEF Init
<1>d. tries \in [Sender -> 0..RetryAttempts]
  BY ClientAssumption DEF Init
<1>e. /\ itemctx \in [Sender -> {"live", "expired"}]
      /\ verdict \in [Sender -> {"none", "ok", "permanent"}]
  BY DEF Init
<1>3. TypeOK
  BY <1>1, <1>a, <1>b, <1>c, <1>d, <1>e DEF TypeOK
<1>4. \A s \in Sender : SenderOK(s)
  BY DEF Init, SenderOK, Holding, Replays
<1> QED
  BY <1>3, <1>4 DEF ClientInv

\* A step of the sender that holds batchMu leaves the others alone: none of
\* them holds it, so none of them is replaying.
LEMMA HolderSteps ==
  ASSUME ClientInv, NEW s \in Sender, Holding(s), TypeOK', SenderOK(s)',
         \A t \in Sender \ {s} : UNCHANGED <<pc[t], batch[t], item[t]>>
  PROVE  ClientInv'
<1> SUFFICES ASSUME NEW t \in Sender, t # s
             PROVE  SenderOK(t)'
    BY DEF ClientInv
<1>1. ~Holding(t)
  BY DEF ClientInv, SenderOK
<1>2. ~Replays(t)
  BY <1>1 DEF Holding, Replays
<1> QED
  BY <1>1, <1>2 DEF ClientInv, SenderOK, Holding, Replays

\* So does one that touches neither the directory nor the mutex.
LEMMA QuietSteps ==
  ASSUME ClientInv, NEW s \in Sender, TypeOK', SenderOK(s)', UNCHANGED <<dir, mu>>,
         \A t \in Sender \ {s} : UNCHANGED <<pc[t], batch[t], item[t]>>
  PROVE  ClientInv'
<1> SUFFICES ASSUME NEW t \in Sender, t # s
             PROVE  SenderOK(t)'
    BY DEF ClientInv
<1> QED
  BY DEF ClientInv, SenderOK, Holding, Replays

\* drain returns.
LEMMA EndDrainSteps ==
  ASSUME ClientInv, NEW s \in Sender, Holding(s), EndDrain(s),
         UNCHANGED <<dir, torn, bad, mu, batch, ctx, stopping>>
  PROVE  ClientInv'
<1>1. TypeOK'
  BY DEF ClientInv, TypeOK, EndDrain, NoItem, PC
<1>2. SenderOK(s)'
  BY DEF ClientInv, TypeOK, SenderOK, Holding, Replays, EndDrain
<1>3. \A t \in Sender \ {s} : UNCHANGED <<pc[t], batch[t], item[t]>>
  BY DEF ClientInv, TypeOK, EndDrain
<1> QED
  BY <1>1, <1>2, <1>3, HolderSteps

\* sendBatch returns.
LEMMA ReturnSteps ==
  ASSUME ClientInv, NEW s \in Sender, Holding(s), Return(s),
         dir' \in Directory, torn' \subseteq DOMAIN dir',
         UNCHANGED <<bad, item, itemctx, verdict, tries, stopping>>
  PROVE  ClientInv'
<1>1. TypeOK'
  BY DEF ClientInv, TypeOK, Return, PC
<1>2. SenderOK(s)'
  BY DEF ClientInv, TypeOK, SenderOK, Holding, Replays, Return
<1>3. \A t \in Sender \ {s} : UNCHANGED <<pc[t], batch[t], item[t]>>
  BY DEF ClientInv, TypeOK, Return
<1> QED
  BY <1>1, <1>2, <1>3, HolderSteps

\* post ends with a retryable error.
LEMMA ReturnTransientSteps ==
  ASSUME ClientInv, NEW s \in Sender, ReturnTransient(s),
         UNCHANGED <<diskVars, stopping>>
  PROVE  ClientInv'
<1>1. CASE pc[s] \in {"replay", "replaying"} /\ EndDrain(s) /\ UNCHANGED <<mu, batch, ctx>>
  BY <1>1, EndDrainSteps DEF Holding, diskVars
<1>2. CASE /\ pc[s] \in {"post", "posting"}
           /\ pc' = [pc EXCEPT ![s] = "store"]
           /\ UNCHANGED <<replayVars, tries, mu, batch, ctx>>
  <2>1. TypeOK'
    BY <1>2 DEF ClientInv, TypeOK, PC, diskVars, replayVars
  <2>2. SenderOK(s)' /\ Holding(s)
    BY <1>2 DEF ClientInv, TypeOK, SenderOK, Holding, Replays, diskVars, replayVars
  <2>3. \A t \in Sender \ {s} : UNCHANGED <<pc[t], batch[t], item[t]>>
    BY <1>2 DEF ClientInv, TypeOK, replayVars
  <2> QED
    BY <2>1, <2>2, <2>3, HolderSteps
<1> QED
  BY <1>1, <1>2 DEF ReturnTransient

\* post ends with a verdict, or the caller's own call does.
LEMMA ReturnFinalSteps ==
  ASSUME ClientInv, NEW s \in Sender, NEW v \in {"ok", "permanent"}, ReturnFinal(s, v),
         UNCHANGED <<diskVars, stopping>>
  PROVE  ClientInv'
<1>1. CASE /\ pc[s] \in {"replay", "replaying"}
           /\ pc' = [pc EXCEPT ![s] = "remove"]
           /\ verdict' = [verdict EXCEPT ![s] = v]
           /\ UNCHANGED <<item, itemctx, tries, mu, batch, ctx>>
  <2>1. TypeOK'
    BY <1>1 DEF ClientInv, TypeOK, PC, diskVars
  <2>2. SenderOK(s)' /\ Holding(s)
    BY <1>1 DEF ClientInv, TypeOK, SenderOK, Holding, Replays, diskVars
  <2>3. \A t \in Sender \ {s} : UNCHANGED <<pc[t], batch[t], item[t]>>
    BY <1>1 DEF ClientInv, TypeOK
  <2> QED
    BY <2>1, <2>2, <2>3, HolderSteps
<1>2. CASE pc[s] \in {"post", "posting"} /\ Return(s) /\ UNCHANGED <<replayVars, tries>>
  BY <1>2, ReturnSteps DEF Holding, diskVars, replayVars, ClientInv, TypeOK
<1> QED
  BY <1>1, <1>2 DEF ReturnFinal

\* Every step of the agent, one by one, keeps the invariant.
LEMMA ClientNext == ClientInv /\ [Next]_agentVars => ClientInv'
<1> SUFFICES ASSUME ClientInv, [Next]_agentVars
             PROVE  ClientInv'
    OBVIOUS
<1>a. dir \in Directory /\ bad \in Directory /\ torn \subseteq DOMAIN dir
  BY DEF ClientInv, TypeOK
<1>1. ASSUME NEW s \in Sender, NEW b \in Batch, Begin(s, b)
      PROVE  ClientInv'
  <2>1. TypeOK'
    BY <1>1 DEF Begin, ClientInv, TypeOK, PC, diskVars, replayVars
  <2>2. SenderOK(s)' /\ UNCHANGED <<dir, mu>>
    BY <1>1 DEF Begin, ClientInv, TypeOK, SenderOK, Holding, Replays, diskVars, replayVars
  <2>3. \A t \in Sender \ {s} : UNCHANGED <<pc[t], batch[t], item[t]>>
    BY <1>1 DEF Begin, ClientInv, TypeOK, replayVars
  <2> QED
    BY <2>1, <2>2, <2>3, QuietSteps
<1>2. ASSUME NEW s \in Sender, Lock(s)
      PROVE  ClientInv'
  <2>1. TypeOK'
    BY <1>2 DEF Lock, MuIsFree, DrainsFirst, ClientInv, TypeOK, PC, diskVars, replayVars
  <2>2. SenderOK(s)'
    BY <1>2 DEF Lock, MuIsFree, DrainsFirst, ClientInv, TypeOK, SenderOK, Holding, Replays, replayVars
  <2>3. ASSUME NEW t \in Sender, t # s
        PROVE  SenderOK(t)'
    <3>1. ~Holding(t)
      BY <1>2 DEF Lock, MuIsFree, DrainsFirst, ClientInv, SenderOK
    <3>2. UNCHANGED <<pc[t], batch[t], item[t]>>
      BY <1>2, <2>3 DEF Lock, MuIsFree, DrainsFirst, ClientInv, TypeOK, replayVars
    <3> QED
      BY <3>1, <3>2 DEF ClientInv, SenderOK, Holding, Replays
  <2> QED
    BY <2>1, <2>2, <2>3 DEF ClientInv
<1>3. ASSUME NEW s \in Sender, DrainEmpty(s)
      PROVE  ClientInv'
  BY <1>3, EndDrainSteps DEF DrainEmpty, Holding, diskVars
<1>4. ASSUME NEW s \in Sender, DrainUnreadable(s)
      PROVE  ClientInv'
  BY <1>4, EndDrainSteps DEF DrainUnreadable, Holding, diskVars
<1>5. ASSUME NEW s \in Sender, DrainFront(s)
      PROVE  ClientInv'
  <2>0. Oldest(dir) \in Name /\ dir[Oldest(dir)] \in Batch
    BY <1>5, <1>a, OldestIsStored, DirectoryIsFunction DEF DrainFront
  <2>1. TypeOK'
    BY <1>5, <2>0 DEF DrainFront, ClientInv, TypeOK, PC, diskVars, replayVars
  <2>2. SenderOK(s)' /\ Holding(s)
    BY <1>5 DEF DrainFront, ClientInv, TypeOK, SenderOK, Holding, Replays, diskVars, replayVars
  <2>3. \A t \in Sender \ {s} : UNCHANGED <<pc[t], batch[t], item[t]>>
    BY <1>5 DEF DrainFront, ClientInv, TypeOK, replayVars
  <2> QED
    BY <2>1, <2>2, <2>3, HolderSteps
<1>6. ASSUME NEW s \in Sender, DrainCorrupt(s)
      PROVE  ClientInv'
  <2>0. /\ Oldest(dir) \in DOMAIN dir
        /\ dir' \in Directory /\ DOMAIN dir' = DOMAIN dir \ {Oldest(dir)}
    BY <1>6, <1>a, OldestIsStored, WithoutIsDirectory DEF DrainCorrupt
  <2>a. bad' \in Directory
    <3>1. /\ DOMAIN bad \subseteq Name /\ \A n \in DOMAIN bad : bad[n] \in Batch
          /\ DOMAIN dir \subseteq Name /\ \A n \in DOMAIN dir : dir[n] \in Batch
      BY <1>a, DirectoryIsFunction
    <3> DEFINE names == DOMAIN bad \cup {Oldest(dir)}
               f == [n \in names |-> IF n = Oldest(dir) THEN dir[n] ELSE bad[n]]
    <3>2. names \in SUBSET Name /\ f \in [names -> Batch]
      BY <2>0, <3>1
    <3>3. f \in Directory
      BY <3>2 DEF Directory
    <3>4. bad' = f
      BY <1>6 DEF DrainCorrupt
    <3> QED
      BY <3>3, <3>4
  <2>b. torn' \subseteq DOMAIN dir'
    BY <1>6, <1>a, <2>0 DEF DrainCorrupt
  <2>1. TypeOK'
    BY <1>6, <2>0, <2>a, <2>b DEF DrainCorrupt, ClientInv, TypeOK, replayVars
  <2>2. SenderOK(s)' /\ Holding(s)
    BY <1>6 DEF DrainCorrupt, ClientInv, SenderOK, Holding, Replays, replayVars
  <2>3. \A t \in Sender \ {s} : UNCHANGED <<pc[t], batch[t], item[t]>>
    BY <1>6 DEF DrainCorrupt, replayVars
  <2> QED
    BY <2>1, <2>2, <2>3, HolderSteps
<1>7. ASSUME NEW s \in Sender, RemoveItem(s)
      PROVE  ClientInv'
  <2>0. dir' \in Directory /\ DOMAIN dir' = DOMAIN dir \ {item[s].name}
    <3>1. dir' = Without(dir, item[s].name)
      BY <1>7 DEF RemoveItem
    <3> QED
      BY <3>1, <1>a, WithoutIsDirectory
  <2>a. torn' \subseteq DOMAIN dir'
    BY <1>7, <1>a, <2>0 DEF RemoveItem
  <2>1. TypeOK'
    BY <1>7, <2>0, <2>a DEF RemoveItem, ClientInv, TypeOK, PC, NoItem
  <2>2. SenderOK(s)' /\ Holding(s)
    BY <1>7 DEF RemoveItem, ClientInv, TypeOK, SenderOK, Holding, Replays
  <2>3. \A t \in Sender \ {s} : UNCHANGED <<pc[t], batch[t], item[t]>>
    BY <1>7 DEF RemoveItem, ClientInv, TypeOK
  <2> QED
    BY <2>1, <2>2, <2>3, HolderSteps
<1>8. ASSUME NEW s \in Sender, RemoveFails(s)
      PROVE  ClientInv'
  <2>1. CASE EndDrain(s)
    BY <1>8, <2>1, EndDrainSteps DEF RemoveFails, Holding, diskVars
  <2>2. CASE /\ pc' = [pc EXCEPT ![s] = "front"]
             /\ item' = [item EXCEPT ![s] = NoItem]
             /\ verdict' = [verdict EXCEPT ![s] = "none"]
             /\ UNCHANGED <<itemctx, tries>>
    <3>1. TypeOK'
      BY <1>8, <2>2 DEF RemoveFails, ClientInv, TypeOK, PC, NoItem, diskVars
    <3>2. SenderOK(s)' /\ Holding(s)
      BY <1>8, <2>2 DEF RemoveFails, ClientInv, TypeOK, SenderOK, Holding, Replays, diskVars
    <3>3. \A t \in Sender \ {s} : UNCHANGED <<pc[t], batch[t], item[t]>>
      BY <1>8, <2>2 DEF RemoveFails, ClientInv, TypeOK
    <3> QED
      BY <3>1, <3>2, <3>3, HolderSteps
  <2> QED
    BY <1>8, <2>1, <2>2 DEF RemoveFails
<1>9. ASSUME NEW s \in Sender, GiveUp(s)
      PROVE  ClientInv'
  BY <1>9, ReturnTransientSteps DEF GiveUp
<1>10. ASSUME NEW s \in Sender, GiveUpCancelled(s)
       PROVE  ClientInv'
  BY <1>10, ReturnFinalSteps DEF GiveUpCancelled
<1>11. ASSUME NEW s \in Sender, AnswerOK(s)
       PROVE  ClientInv'
  BY <1>11, ReturnFinalSteps DEF AnswerOK
<1>12. ASSUME NEW s \in Sender, AnswerRefused(s)
       PROVE  ClientInv'
  BY <1>12, ReturnFinalSteps DEF AnswerRefused
<1>13. ASSUME NEW s \in Sender, AnswerCancelled(s)
       PROVE  ClientInv'
  BY <1>13, ReturnFinalSteps DEF AnswerCancelled
<1>14. ASSUME NEW s \in Sender, AnswerTransient(s)
       PROVE  ClientInv'
  <2>1. TypeOK'
    BY <1>14 DEF AnswerTransient, ClientInv, TypeOK, PC, diskVars, replayVars
  <2>2. SenderOK(s)' /\ Holding(s)
    BY <1>14 DEF AnswerTransient, ClientInv, TypeOK, SenderOK, Holding, Replays, diskVars, replayVars
  <2>3. \A t \in Sender \ {s} : UNCHANGED <<pc[t], batch[t], item[t]>>
    BY <1>14 DEF AnswerTransient, ClientInv, TypeOK, replayVars
  <2> QED
    BY <2>1, <2>2, <2>3, HolderSteps
<1>15. ASSUME NEW s \in Sender, Attempt(s)
       PROVE  ClientInv'
  <2>1. TypeOK'
    BY <1>15 DEF Attempt, AttemptsLeft, ClientInv, TypeOK, PC, diskVars, replayVars
  <2>2. SenderOK(s)' /\ Holding(s)
    BY <1>15 DEF Attempt, AttemptsLeft, ClientInv, TypeOK, SenderOK, Holding, Replays, diskVars, replayVars
  <2>3. \A t \in Sender \ {s} : UNCHANGED <<pc[t], batch[t], item[t]>>
    BY <1>15 DEF Attempt, AttemptsLeft, ClientInv, TypeOK, replayVars
  <2> QED
    BY <2>1, <2>2, <2>3, HolderSteps
<1>16. ASSUME NEW s \in Sender, Expire(s)
       PROVE  ClientInv'
  <2>1. TypeOK'
    BY <1>16 DEF Expire, ClientInv, TypeOK, PC, diskVars, replayVars
  <2>2. SenderOK(s)' /\ UNCHANGED <<dir, mu>>
    BY <1>16 DEF Expire, ClientInv, TypeOK, SenderOK, Holding, Replays, diskVars, replayVars
  <2>3. \A t \in Sender \ {s} : UNCHANGED <<pc[t], batch[t], item[t]>>
    BY <1>16 DEF Expire, ClientInv, TypeOK, replayVars
  <2> QED
    BY <2>1, <2>2, <2>3, QuietSteps
<1>17. ASSUME NEW s \in Sender, PutDropOldest(s)
       PROVE  ClientInv'
  <2>0. dir' \in Directory /\ DOMAIN dir' = DOMAIN dir \ {Oldest(dir)}
    BY <1>17, <1>a, WithoutIsDirectory DEF PutDropOldest
  <2>a. torn' \subseteq DOMAIN dir'
    BY <1>17, <1>a, <2>0 DEF PutDropOldest
  <2>1. TypeOK'
    BY <1>17, <2>0, <2>a DEF PutDropOldest, ClientInv, TypeOK, replayVars
  <2>2. SenderOK(s)' /\ Holding(s)
    BY <1>17 DEF PutDropOldest, ClientInv, SenderOK, Holding, Replays, replayVars
  <2>3. \A t \in Sender \ {s} : UNCHANGED <<pc[t], batch[t], item[t]>>
    BY <1>17 DEF PutDropOldest, replayVars
  <2> QED
    BY <2>1, <2>2, <2>3, HolderSteps
<1>18. ASSUME NEW s \in Sender, PutFile(s)
       PROVE  ClientInv'
  <2>1. Holding(s) /\ batch[s] \in Batch
    BY <1>18 DEF PutFile, ClientInv, SenderOK, Holding
  <2>2. dir' \in Directory /\ DOMAIN dir \subseteq DOMAIN dir'
    BY <1>18, <1>a, <2>1, WithIsDirectory DEF PutFile
  <2>3. torn' \subseteq DOMAIN dir'
    BY <1>18, <1>a, <2>2 DEF PutFile
  <2> QED
    BY <1>18, <2>1, <2>2, <2>3, ReturnSteps DEF PutFile, replayVars
<1>19. ASSUME NEW s \in Sender, PutFails(s)
       PROVE  ClientInv'
  BY <1>19, <1>a, ReturnSteps DEF PutFails, Holding, replayVars, diskVars
<1>20. CASE Stop
  <2>a. ctx' \in [Sender -> {"live", "expired", "cancelled"}]
    <3>1. ctx \in [Sender -> {"live", "expired", "cancelled"}]
      BY DEF ClientInv, TypeOK
    <3> QED
      BY <1>20, <3>1 DEF Stop
  <2>b. /\ stopping' \in BOOLEAN
        /\ UNCHANGED <<dir, torn, bad, item, itemctx, verdict, mu, pc, batch, tries>>
    BY <1>20 DEF Stop, diskVars, replayVars
  <2>1. TypeOK'
    BY <2>a, <2>b DEF ClientInv, TypeOK
  <2>2. \A s \in Sender : SenderOK(s)'
    BY <1>20 DEF Stop, ClientInv, SenderOK, Holding, Replays, diskVars, replayVars
  <2> QED
    BY <2>1, <2>2 DEF ClientInv
<1>21. ASSUME Restart, UNCHANGED <<dir, bad>>, torn' \subseteq DOMAIN dir
       PROVE  ClientInv'
  <2>1. NoItem \in [name : Name \cup {0}, batch : Batch \cup {NoBatch}]
    BY DEF NoItem
  <2>a. dir' \in Directory /\ bad' \in Directory /\ torn' \subseteq DOMAIN dir'
    BY <1>21, <1>a
  <2>b. mu' = Free /\ stopping' = FALSE
    BY <1>21 DEF Restart
  <2>c. /\ pc' \in [Sender -> PC]
        /\ batch' \in [Sender -> Batch \cup {NoBatch}]
        /\ ctx' \in [Sender -> {"live", "expired", "cancelled"}]
    BY <1>21 DEF Restart, PC
  <2>d. item' \in [Sender -> [name : Name \cup {0}, batch : Batch \cup {NoBatch}]]
    BY <1>21, <2>1 DEF Restart
  <2>e. tries' \in [Sender -> 0..RetryAttempts]
    BY <1>21, ClientAssumption DEF Restart
  <2>f. /\ itemctx' \in [Sender -> {"live", "expired"}]
        /\ verdict' \in [Sender -> {"none", "ok", "permanent"}]
    BY <1>21 DEF Restart
  <2>2. TypeOK'
    BY <2>a, <2>b, <2>c, <2>d, <2>e, <2>f DEF TypeOK
  <2>3. \A s \in Sender : SenderOK(s)'
    BY <1>21 DEF Restart, SenderOK, Holding, Replays
  <2> QED
    BY <2>2, <2>3 DEF ClientInv
<1>22. CASE Exit
  BY <1>22, <1>21, <1>a DEF Exit, diskVars
<1>23. CASE Kill
  <2>1. torn' \subseteq DOMAIN dir
    BY <1>23, <1>a DEF Kill
  <2> QED
    BY <1>23, <1>21, <2>1 DEF Kill
<1>24. CASE UNCHANGED agentVars
  BY <1>24 DEF agentVars, ClientInv, TypeOK, SenderOK, Holding, Replays
<1> QED
  BY <1>1, <1>2, <1>3, <1>4, <1>5, <1>6, <1>7, <1>8, <1>9, <1>10, <1>11, <1>12,
     <1>13, <1>14, <1>15, <1>16, <1>17, <1>18, <1>19, <1>20, <1>22, <1>23, <1>24
  DEF Next, Work, Answered

\* The agent keeps its types, the spool directory among them, whatever is
\* lost, killed, refused or left half done.
THEOREM ClientTypeCorrect == AgentSpec => []TypeOK
<1>1. ClientInv => TypeOK
  BY DEF ClientInv
<1> QED
  BY <1>1, ClientInit, ClientNext, PTL DEF AgentSpec

\* No sender's Put or eviction touches the file another sender is replaying,
\* so that Remove deletes the very batch the hub has settled.
THEOREM ReplayIsStable == AgentSpec => []ReplayedFileIsStable
<1>1. ClientInv => ReplayedFileIsStable
  BY OldestIsStored DEF ClientInv, TypeOK, SenderOK, Replays, ReplayedFileIsStable
<1> QED
  BY <1>1, ClientInit, ClientNext, PTL DEF AgentSpec

\* What one step may do to the directory: nothing, remove the oldest file, or
\* add the file of a batch that Put has made room for.
PutsInRoom(b) == ~TooLarge(b) /\ ~NoRoomFor(dir, b) /\ dir' = With(dir, b)

\* Every step leaves the directory alone, takes its oldest file, or adds the file
\* of a batch that Put has made room for.
LEMMA DirectorySteps ==
  ASSUME ClientInv, [Next]_agentVars
  PROVE  \/ dir' = dir
         \/ dir # EmptyDirectory /\ dir' = Without(dir, Oldest(dir))
         \/ \E b \in Batch : PutsInRoom(b)
<1>1. ASSUME NEW s \in Sender, NEW b \in Batch, Begin(s, b)
      PROVE  dir' = dir
  BY <1>1 DEF Begin, diskVars
<1>2. ASSUME NEW s \in Sender, Lock(s) \/ DrainEmpty(s) \/ DrainFront(s)
      PROVE  dir' = dir
  BY <1>2 DEF Lock, MuIsFree, DrainsFirst, DrainEmpty, DrainFront, diskVars
<1>3. ASSUME NEW s \in Sender, DrainUnreadable(s) \/ RemoveFails(s)
      PROVE  dir' = dir
  BY <1>3 DEF DrainUnreadable, RemoveFails, diskVars
<1>4. ASSUME NEW s \in Sender, DrainCorrupt(s) \/ PutDropOldest(s)
      PROVE  dir # EmptyDirectory /\ dir' = Without(dir, Oldest(dir))
  BY <1>4 DEF DrainCorrupt, PutDropOldest, NoRoomFor
<1>5. ASSUME NEW s \in Sender, RemoveItem(s)
      PROVE  dir # EmptyDirectory /\ dir' = Without(dir, Oldest(dir))
  <2>1. dir # EmptyDirectory /\ item[s].name = Oldest(dir)
    BY <1>5 DEF RemoveItem, ClientInv, SenderOK, Replays
  <2> QED
    BY <1>5, <2>1 DEF RemoveItem
<1>6. ASSUME NEW s \in Sender, GiveUp(s) \/ GiveUpCancelled(s)
      PROVE  dir' = dir
  BY <1>6 DEF GiveUp, GiveUpCancelled, diskVars
<1>7. ASSUME NEW s \in Sender, PutFile(s)
      PROVE  \E b \in Batch : PutsInRoom(b)
  <2>1. batch[s] \in Batch
    BY <1>7 DEF PutFile, ClientInv, SenderOK
  <2> QED
    BY <1>7, <2>1 DEF PutFile, PutsInRoom
<1>8. ASSUME NEW s \in Sender, PutFails(s) \/ Attempt(s) \/ Expire(s)
      PROVE  dir' = dir
  BY <1>8 DEF PutFails, Attempt, Expire, diskVars
<1>9. ASSUME NEW s \in Sender, Answered(s)
      PROVE  dir' = dir
  BY <1>9 DEF Answered, AnswerOK, AnswerRefused, AnswerTransient, AnswerCancelled,
              diskVars
<1>10. CASE Stop \/ Exit \/ Kill \/ UNCHANGED agentVars
  BY <1>10 DEF Stop, Exit, Kill, agentVars, diskVars
<1> QED
  BY <1>1, <1>2, <1>3, <1>4, <1>5, <1>6, <1>7, <1>8, <1>9, <1>10 DEF Next, Work

\* A batch leaves the spool, or is replaced there, only as the oldest one.
THEOREM OnlyTheOldestLeaves == AgentSpec => DropsOnlyOldest
<1> DEFINE Stays(n) == \/ n \in DOMAIN dir' /\ dir'[n] = dir[n]
                      \/ n = Oldest(dir)
<1>1. ASSUME ClientInv, [Next]_agentVars, NEW n \in DOMAIN dir
      PROVE  Stays(n)
  <2>1. dir \in Directory
    BY <1>1 DEF ClientInv, TypeOK
  <2>2. CASE dir' = dir
    BY <1>1, <2>2
  <2>3. CASE dir' = Without(dir, Oldest(dir))
    BY <1>1, <2>3 DEF Without
  <2>4. ASSUME NEW b \in Batch, PutsInRoom(b)
        PROVE  Stays(n)
    BY <1>1, <2>1, <2>4, WithIsDirectory DEF PutsInRoom
  <2> QED
    BY <1>1, <2>2, <2>3, <2>4, DirectorySteps
<1>2. ClientInv /\ [Next]_agentVars
        => [\A n \in DOMAIN dir :
               \/ n \in DOMAIN dir' /\ dir'[n] = dir[n]
               \/ n = Oldest(dir)]_agentVars
  BY <1>1
<1> QED
  BY <1>2, ClientInit, ClientNext, PTL DEF AgentSpec, DropsOnlyOldest

\* makeRoom leaves room for the batch, the empty directory included.
LEMMA PutFits ==
  ASSUME dir \in Directory, NEW b \in Batch, PutsInRoom(b)
  PROVE  Used(dir) + Weight[b] <= MaxBytes
<1>1. Weight[b] \in Nat /\ Weight[b] <= MaxBytes /\ Used(dir) \in Nat
  BY UsedIsNat DEF PutsInRoom, TooLarge
<1>2. CASE dir = EmptyDirectory
  BY <1>1, <1>2, UsedEmpty
<1>3. CASE dir # EmptyDirectory
  BY <1>1, <1>3 DEF PutsInRoom, NoRoomFor
<1> QED
  BY <1>2, <1>3

\* The batch files never take more than ARGUS_BUFFER_MAX_BYTES: Put writes a
\* file only once makeRoom has left room for it, and nothing else adds one.
THEOREM SpoolStaysWithinLimit == AgentSpec => []SpoolWithinLimit
<1> DEFINE LimitInv == ClientInv /\ SpoolWithinLimit
<1>1. Init => LimitInv
  <2> SUFFICES ASSUME Init
               PROVE  SpoolWithinLimit
    BY ClientInit
  <2> QED
    BY UsedEmpty DEF Init, SpoolWithinLimit
<1>2. LimitInv /\ [Next]_agentVars => LimitInv'
  <2> SUFFICES ASSUME LimitInv, [Next]_agentVars
               PROVE  Used(dir') <= MaxBytes
    BY ClientNext DEF SpoolWithinLimit
  <2>1. dir \in Directory /\ Used(dir) \in Nat /\ Used(dir) <= MaxBytes
    BY UsedIsNat DEF ClientInv, TypeOK, SpoolWithinLimit
  <2>2. CASE dir' = dir
    BY <2>1, <2>2
  <2>3. CASE dir # EmptyDirectory /\ dir' = Without(dir, Oldest(dir))
    <3>1. Oldest(dir) \in DOMAIN dir
      BY <2>1, <2>3, OldestIsStored
    <3>2. Weight[dir[Oldest(dir)]] \in Nat
      BY <2>1, <3>1, DirectoryIsFunction
    <3> QED
      BY <2>1, <2>3, <3>1, <3>2, UsedWithout
  <2>4. ASSUME NEW b \in Batch, PutsInRoom(b)
        PROVE  Used(dir') <= MaxBytes
    <3>1. Weight[b] \in Nat /\ Weight[b] <= MaxBytes
      BY <2>4 DEF PutsInRoom, TooLarge
    <3>2. Used(dir) + Weight[b] <= MaxBytes
      BY <2>1, <2>4, PutFits
    <3>3. Used(dir') \in Nat /\ Used(dir') <= Used(dir) + Weight[b]
      BY <2>1, <2>4, UsedWith DEF PutsInRoom
    <3> QED
      BY <2>1, <3>1, <3>2, <3>3
  <2> QED
    BY <2>2, <2>3, <2>4, DirectorySteps
<1> QED
  BY <1>1, <1>2, PTL DEF AgentSpec
-----------------------------------------------------------------------------
(***************************************************************************)
(* The files in the order of their names.                                  *)
(***************************************************************************)

\* The places of n files are the numbers up to n, in the order of the names.
LEMMA PlacesInOrder ==
  ASSUME NEW d \in Directory
  PROVE  /\ Cardinality(DOMAIN d) \in Nat
         /\ \A i \in 1..Cardinality(DOMAIN d) : \E n \in DOMAIN d : Place(d, n) = i
         /\ \A n \in DOMAIN d : Place(d, n) \in 1..Cardinality(DOMAIN d)
         /\ \A m, n \in DOMAIN d : Place(d, m) = Place(d, n) => m = n
<1> DEFINE N == Cardinality(DOMAIN d)
           upto(n) == {m \in DOMAIN d : m <= n}
<1>1. IsFiniteSet(DOMAIN d) /\ N \in Nat /\ DOMAIN d \subseteq Nat
  BY FilesAreFinite, FS_CardinalityType, DirectoryIsFunction
<1>2. ASSUME NEW n \in DOMAIN d
      PROVE  IsFiniteSet(upto(n)) /\ Cardinality(upto(n)) \in 1..N
  <2>1. upto(n) \subseteq DOMAIN d /\ n \in upto(n)
    BY <1>1
  <2>2. /\ IsFiniteSet(upto(n)) /\ Cardinality(upto(n)) <= N
        /\ Cardinality(upto(n)) \in Nat
    BY <1>1, <2>1, FS_Subset, FS_CardinalityType
  <2>3. Cardinality(upto(n)) # 0
    BY <2>1, <2>2, FS_EmptySet
  <2> QED
    BY <1>1, <2>2, <2>3
<1>3. ASSUME NEW m \in DOMAIN d, NEW n \in DOMAIN d, m < n
      PROVE  Cardinality(upto(m)) # Cardinality(upto(n))
  <2>1. upto(m) \subseteq upto(n) /\ n \in upto(n) /\ n \notin upto(m)
    BY <1>1, <1>3
  <2> HIDE DEF upto
  <2> QED
    BY <1>2, <2>1, FS_Subset
<1>4. ASSUME NEW m \in DOMAIN d, NEW n \in DOMAIN d, m # n
      PROVE  Cardinality(upto(m)) # Cardinality(upto(n))
  <2>1. m < n \/ n < m
    BY <1>1, <1>4
  <2> HIDE DEF upto
  <2> QED
    BY <1>3, <2>1
<1>5. ASSUME NEW i \in 1..N, \A n \in DOMAIN d : Cardinality(upto(n)) # i
      PROVE  FALSE
  <2> DEFINE T == (1..N) \ {i}
             place == [n \in DOMAIN d |-> Cardinality(upto(n))]
  <2>1. IsFiniteSet(1..N) /\ Cardinality(1..N) = N
    BY <1>1, FS_Interval
  <2>2. IsFiniteSet(T) /\ Cardinality(T) < N
    <3>1. IsFiniteSet(T) /\ Cardinality(T) = Cardinality(1..N) - 1
      BY <2>1, FS_RemoveElement
    <3> QED
      BY <1>1, <2>1, <3>1
  <2>3. place \in [DOMAIN d -> T]
    BY <1>2, <1>5
  <2>4. \E m, n \in DOMAIN d : m # n /\ place[m] = place[n]
    <3> HIDE DEF place, T
    <3> QED
      BY <1>1, <2>2, <2>3, FS_PigeonHole
  <2> QED
    BY <1>4, <2>4
<1>6. \A n : Place(d, n) = Cardinality(upto(n))
  BY DEF Place
<1> HIDE DEF upto
<1> QED
  BY <1>1, <1>2, <1>4, <1>5, <1>6

\* The queue is a sequence as long as there are files, and has each file's batch
\* at the file's place.
LEMMA QueueOfFiles ==
  ASSUME NEW d \in Directory
  PROVE  /\ InNameOrder(d) \in Seq(Batch)
         /\ Len(InNameOrder(d)) = Cardinality(DOMAIN d)
         /\ \A n \in DOMAIN d : InNameOrder(d)[Place(d, n)] = d[n]
<1> DEFINE N == Cardinality(DOMAIN d)
           at(i) == CHOOSE n \in DOMAIN d : Place(d, n) = i
<1>1. N \in Nat
  BY PlacesInOrder
<1>2. InNameOrder(d) = [i \in 1..N |-> d[at(i)]]
  BY DEF InNameOrder
<1>3. ASSUME NEW i \in 1..N
      PROVE  at(i) \in DOMAIN d /\ Place(d, at(i)) = i
  BY PlacesInOrder
<1>4. ASSUME NEW n \in DOMAIN d
      PROVE  at(Place(d, n)) = n /\ Place(d, n) \in 1..N
  BY PlacesInOrder
<1>5. \A i \in 1..N : d[at(i)] \in Batch
  BY <1>3, DirectoryIsFunction
<1> HIDE DEF at, N
<1>6. InNameOrder(d) \in [1..N -> Batch]
  BY <1>2, <1>5
<1>7. InNameOrder(d) \in Seq(Batch) /\ Len(InNameOrder(d)) = N
  BY <1>1, <1>6
<1> QED
  BY <1>2, <1>4, <1>7 DEF N

\* A file with a name after all others is the last of the queue.
LEMMA LastIsAppended ==
  ASSUME NEW d \in Directory, NEW c \in Directory, NEW n, OneMore(d, c, n),
         \A m \in DOMAIN d : m < n
  PROVE  InNameOrder(c) = Append(InNameOrder(d), c[n])
<1> DEFINE N == Cardinality(DOMAIN d)
           q == InNameOrder(d)
           t == InNameOrder(c)
<1>1. /\ IsFiniteSet(DOMAIN d) /\ N \in Nat /\ DOMAIN d \subseteq Nat /\ DOMAIN c \subseteq Nat
      /\ n \notin DOMAIN d /\ DOMAIN c = DOMAIN d \cup {n}
  BY FilesAreFinite, FS_CardinalityType, DirectoryIsFunction DEF OneMore
<1>2. Cardinality(DOMAIN c) = N + 1
  BY <1>1, FS_AddElement
<1>3. Place(c, n) = N + 1
  <2>1. {m \in DOMAIN c : m <= n} = DOMAIN c
    BY <1>1
  <2> QED
    BY <1>2, <2>1 DEF Place
<1>4. ASSUME NEW m \in DOMAIN d
      PROVE  Place(c, m) = Place(d, m)
  <2>1. {k \in DOMAIN c : k <= m} = {k \in DOMAIN d : k <= m}
    BY <1>1
  <2> QED
    BY <2>1 DEF Place
<1>5. /\ q \in Seq(Batch) /\ Len(q) = N /\ \A m \in DOMAIN d : q[Place(d, m)] = d[m]
      /\ t \in Seq(Batch) /\ Len(t) = N + 1 /\ \A m \in DOMAIN c : t[Place(c, m)] = c[m]
  BY <1>2, QueueOfFiles
<1>6. t[N + 1] = c[n]
  BY <1>1, <1>3, <1>5
<1>7. ASSUME NEW i \in 1..N
      PROVE  t[i] = q[i]
  <2>1. PICK m \in DOMAIN d : Place(d, m) = i
    BY PlacesInOrder
  <2>2. c[m] = d[m]
    BY DEF OneMore, AgreeOn
  <2> QED
    BY <1>1, <1>4, <1>5, <2>1, <2>2
<1>8. c[n] \in Batch
  BY <1>1, DirectoryIsFunction
<1> HIDE DEF q, t, N
<1>9. t = Append(q, c[n])
  BY <1>1, <1>5, <1>6, <1>7, <1>8
<1> QED
  BY <1>9 DEF q, t

\* Without its oldest file the directory is the tail of the queue.
LEMMA OldestIsHead ==
  ASSUME NEW d \in Directory, d # EmptyDirectory
  PROVE  /\ InNameOrder(d) # <<>>
         /\ InNameOrder(Without(d, Oldest(d))) = Tail(InNameOrder(d))
<1> DEFINE N == Cardinality(DOMAIN d)
           o == Oldest(d)
           c == Without(d, o)
           q == InNameOrder(d)
           t == InNameOrder(c)
<1>1. /\ IsFiniteSet(DOMAIN d) /\ N \in Nat /\ DOMAIN d \subseteq Nat
      /\ o \in DOMAIN d /\ \A m \in DOMAIN d : o <= m
  BY FilesAreFinite, FS_CardinalityType, DirectoryIsFunction, OldestIsStored
<1>2. c \in Directory /\ DOMAIN c = DOMAIN d \ {o} /\ \A m \in DOMAIN d \ {o} : c[m] = d[m]
  BY WithoutIsDirectory
<1> HIDE DEF o, c
<1>3. Cardinality(DOMAIN c) = N - 1 /\ N # 0
  BY <1>1, <1>2, FS_RemoveElement, FS_EmptySet
<1>4. ASSUME NEW m \in DOMAIN c
      PROVE  Place(c, m) = Place(d, m) - 1
  <2> DEFINE S == {k \in DOMAIN d : k <= m}
  <2>1. {k \in DOMAIN c : k <= m} = S \ {o} /\ o \in S
    BY <1>1, <1>2
  <2>2. IsFiniteSet(S)
    BY <1>1, FS_Subset
  <2> HIDE DEF S
  <2>3. Cardinality(S \ {o}) = Cardinality(S) - 1
    BY <2>1, <2>2, FS_RemoveElement
  <2> QED
    BY <2>1, <2>3 DEF Place, S
<1>5. Place(d, o) = 1
  <2>1. {k \in DOMAIN d : k <= o} = {o}
    BY <1>1
  <2> QED
    BY <2>1, FS_Singleton DEF Place
<1>6. /\ q \in Seq(Batch) /\ Len(q) = N /\ \A m \in DOMAIN d : q[Place(d, m)] = d[m]
      /\ t \in Seq(Batch) /\ Len(t) = N - 1 /\ \A m \in DOMAIN c : t[Place(c, m)] = c[m]
  BY <1>2, <1>3, QueueOfFiles
<1>7. ASSUME NEW i \in 1..(N - 1)
      PROVE  t[i] = q[i + 1]
  <2>1. PICK m \in DOMAIN d : Place(d, m) = i + 1
    <3>1. i + 1 \in 1..N
      BY <1>1
    <3> QED
      BY <3>1, PlacesInOrder
  <2>2. m \in DOMAIN c
    BY <1>2, <1>5, <2>1
  <2>3. Place(c, m) = i
    BY <1>4, <2>1, <2>2
  <2> QED
    BY <1>2, <1>6, <2>1, <2>2, <2>3
<1> HIDE DEF q, t, N
<1>8. q # <<>> /\ Tail(q) \in Seq(Batch) /\ Len(Tail(q)) = N - 1
  BY <1>1, <1>3, <1>6
<1>9. \A i \in 1..(N - 1) : t[i] = Tail(q)[i]
  BY <1>1, <1>6, <1>7, <1>8
<1>10. t = Tail(q)
  BY <1>1, <1>3, <1>6, <1>8, <1>9
<1> QED
  BY <1>8, <1>10 DEF q, t, c, o
-----------------------------------------------------------------------------
\* The places of s under a map of places.
Image(at, s) == {at[n] : n \in s}

\* The batches under the places of C are found again under those of D.
Moves(c, C, d, D, at) ==
  /\ at \in [C -> D]
  /\ \A m, n \in C : at[m] = at[n] => m = n
  /\ \A n \in C : d[at[n]] = c[n]

\* Finitely many places, with a batch each.
Filed(c, C) == IsFiniteSet(C) /\ \A n \in C : c[n] \in Batch

\* The sum over all places of C.
Total(c, C) == (CHOOSE f : Sums(c, SUBSET C, f))[C]

\* The same batches under other places sum up to the same.
LEMMA TotalMoves ==
  ASSUME NEW c, NEW C, NEW d, NEW D, NEW at, Filed(c, C), Filed(d, D),
         Moves(c, C, d, D, at), Image(at, C) = D
  PROVE  Total(c, C) = Total(d, D)
<1> DEFINE f == CHOOSE h : Sums(c, SUBSET C, h)
           g == CHOOSE h : Sums(d, SUBSET D, h)
<1>f. Sums(c, SUBSET C, f) /\ Sums(d, SUBSET D, g)
  BY SumExists DEF Filed
<1>g. Total(c, C) = f[C] /\ Total(d, D) = g[D]
  BY DEF Total
<1> HIDE DEF f, g
<1>a. IsFiniteSet(C) /\ \A n \in C : c[n] \in Batch
  BY DEF Filed
<1>b. IsFiniteSet(D) /\ \A n \in D : d[n] \in Batch
  BY DEF Filed
<1>c. at \in [C -> D]
  BY DEF Moves
<1>d. \A m, n \in C : at[m] = at[n] => m = n
  BY DEF Moves
<1>e. \A n \in C : d[at[n]] = c[n]
  BY DEF Moves
<1> DEFINE Same(s) == f[s] = g[Image(at, s)]
           Bad == {Cardinality(s) : s \in {t \in SUBSET C : ~ Same(t)}}
<1>1. \A s \in SUBSET C : IsFiniteSet(s) /\ Cardinality(s) \in Nat
  BY <1>a, FS_Subset, FS_CardinalityType
<1>2. Adds(d, D, g)
  BY <1>b, <1>f, SumAdds
<1>3. ASSUME NEW s \in SUBSET C, \A t \in SUBSET C : Cardinality(t) < Cardinality(s) => Same(t)
      PROVE  Same(s)
  <2>1. CASE s = {}
    <3>1. Image(at, s) = {}
      BY <2>1 DEF Image
    <3> QED
      BY <1>f, <2>1, <3>1 DEF Sums
  <2>2. CASE s # {}
    <3> DEFINE x == Pick(s)
               t == s \ {x}
    <3>1. x \in s /\ t \in SUBSET C /\ Cardinality(t) < Cardinality(s)
      <4>1. IsFiniteSet(s)
        BY <1>1
      <4>2. x \in s /\ Cardinality(s) \in Nat /\ Cardinality(t) = Cardinality(s) - 1
        BY <2>2, <4>1, PickShrinks
      <4> QED
        BY <4>2
    <3>2. f[s] = Weight[c[x]] + f[t]
      BY <1>f, <2>2 DEF Sums
    <3> HIDE DEF x
    <3>3. f[t] = g[Image(at, t)]
      BY <1>3, <3>1
    <3>4. /\ Image(at, t) \in SUBSET D /\ at[x] \in D \ Image(at, t)
          /\ Image(at, s) = Image(at, t) \cup {at[x]}
      BY <1>c, <1>d, <3>1 DEF Image
    <3>5. /\ g[Image(at, t)] \in Nat
          /\ g[Image(at, t) \cup {at[x]}] = g[Image(at, t)] + Weight[d[at[x]]]
      BY <1>2, <3>4 DEF Adds
    <3>6. d[at[x]] = c[x] /\ Weight[c[x]] \in Nat
      BY <1>a, <1>e, <3>1
    <3> HIDE DEF t
    <3>7. f[s] = g[Image(at, s)]
      BY <3>2, <3>3, <3>4, <3>5, <3>6
    <3> QED
      BY <3>7
  <2> QED
    BY <2>1, <2>2
<1>4. Bad = {}
  <2> SUFFICES ASSUME Bad # {}
               PROVE  FALSE
    OBVIOUS
  <2> HIDE DEF Same
  <2>1. Bad \in SUBSET Nat
    BY <1>1
  <2>2. PICK m \in Bad : \A n \in Bad : m <= n
    BY <2>1, SmallestOf
  <2>3. PICK s \in SUBSET C : ~ Same(s) /\ m = Cardinality(s)
    BY <2>2
  <2>4. ASSUME NEW t \in SUBSET C, Cardinality(t) < Cardinality(s)
        PROVE  Same(t)
    <3>1. Cardinality(t) \in Nat /\ Cardinality(s) \in Nat
      BY <1>1
    <3>2. ~ Same(t) => Cardinality(t) \in Bad
      OBVIOUS
    <3> HIDE DEF Bad
    <3> QED
      BY <2>2, <2>3, <2>4, <3>1, <3>2
  <2> QED
    BY <1>3, <2>3, <2>4
<1>5. f[C] = g[Image(at, C)]
  BY <1>4
<1> QED
  BY <1>g, <1>5

\* The queue of a directory has the bytes of its files.
LEMMA QueueBytes ==
  ASSUME NEW d \in Directory
  PROVE  Queue!Bytes(InNameOrder(d)) = Used(d)
<1> DEFINE q == InNameOrder(d)
           at == [n \in DOMAIN d |-> Place(d, n)]
           N == Cardinality(DOMAIN d)
<1>1. /\ q \in Seq(Batch) /\ Len(q) = N /\ N \in Nat
      /\ \A n \in DOMAIN d : q[Place(d, n)] = d[n]
  BY QueueOfFiles, PlacesInOrder
<1> HIDE DEF q
<1>2. DOMAIN q = 1..N /\ \A i \in DOMAIN q : q[i] \in Batch
  BY <1>1
<1>3. Filed(d, DOMAIN d)
  BY FilesAreFinite, DirectoryIsFunction DEF Filed
<1>4. Filed(q, DOMAIN q)
  BY <1>1, <1>2, FS_Interval DEF Filed
<1>5. at \in [DOMAIN d -> DOMAIN q] /\ Image(at, DOMAIN d) = DOMAIN q
  BY <1>1, <1>2, PlacesInOrder DEF Image
<1>6. Moves(d, DOMAIN d, q, DOMAIN q, at)
  <2>1. \A m, n \in DOMAIN d : at[m] = at[n] => m = n
    BY PlacesInOrder
  <2>2. \A n \in DOMAIN d : q[at[n]] = d[n]
    BY <1>1
  <2> QED
    BY <1>5, <2>1, <2>2 DEF Moves
<1> HIDE DEF at, N
<1>7. Total(d, DOMAIN d) = Total(q, DOMAIN q)
  BY <1>3, <1>4, <1>5, <1>6, TotalMoves
<1>8. Used(d) = Total(d, DOMAIN d)
  BY UsedIsSum DEF Total
<1>9. Queue!Bytes(q) = Total(q, DOMAIN q)
  BY DEF Queue!Bytes, Queue!MapThenSumSet, Queue!MapThenFoldSet, Total, Sums, Pick
<1> QED
  BY <1>7, <1>8, <1>9 DEF q

-----------------------------------------------------------------------------
\* A step of the agent is a step of the queue or leaves it alone: Put's new name
\* comes after all others, and what is taken, for whatever reason, is the oldest.
LEMMA QueueNext ==
  ASSUME ClientInv, [Next]_agentVars
  PROVE  [Queue!Next]_(InNameOrder(dir))
<1>1. dir \in Directory
  BY DEF ClientInv, TypeOK
<1>2. CASE dir' = dir
  BY <1>2 DEF InNameOrder, Place
<1>3. CASE dir # EmptyDirectory /\ dir' = Without(dir, Oldest(dir))
  <2>1. InNameOrder(dir)' = InNameOrder(dir')
    BY DEF InNameOrder, Place
  <2> QED
    BY <1>1, <1>3, <2>1, OldestIsHead DEF Queue!Next, Queue!Dequeue
<1>4. ASSUME NEW b \in Batch, PutsInRoom(b)
      PROVE  [Queue!Next]_(InNameOrder(dir))
  <2>1. CASE NextName(dir) \notin Name
    BY <1>2, <1>4, <2>1 DEF PutsInRoom, With
  <2>2. CASE NextName(dir) \in Name
    <3> DEFINE n == NextName(dir)
    <3>1. dir' = [m \in DOMAIN dir \cup {n} |-> IF m = n THEN b ELSE dir[m]]
      BY <1>4, <2>2 DEF PutsInRoom, With
    <3>2. dir' \in Directory /\ n \notin DOMAIN dir /\ \A m \in DOMAIN dir : m < n
      BY <1>1, <1>4, WithIsDirectory, NextNameIsNew, NextNameIsLast DEF PutsInRoom
    <3> HIDE DEF n
    <3>3. OneMore(dir, dir', n) /\ dir'[n] = b
      BY <3>1, <3>2 DEF OneMore, AgreeOn
    <3>4. InNameOrder(dir') = Append(InNameOrder(dir), b)
      BY <1>1, <3>2, <3>3, LastIsAppended
    <3>5. Used(dir) + Weight[b] <= MaxBytes
      BY <1>1, <1>4, PutFits
    <3>6. Queue!Bytes(InNameOrder(dir)) + Weight[b] <= MaxBytes
      BY <1>1, <3>5, QueueBytes
    <3>7. InNameOrder(dir)' = InNameOrder(dir')
      BY DEF InNameOrder, Place
    <3>8. Queue!Enqueue(b)
      BY <3>4, <3>6, <3>7 DEF Queue!Enqueue
    <3> QED
      BY <3>8 DEF Queue!Next
  <2> QED
    BY <2>1, <2>2
<1> QED
  BY <1>2, <1>3, <1>4, DirectorySteps

\* Read in the order of their names, the files are a first-in first-out queue of
\* batches within the limit: the client implements BatchQueue, whichever sender
\* fills or drains the spool, and through kills and failures of the disk.
THEOREM SpoolIsBatchQueue == AgentSpec => SpoolIsQueue
<1>1. Init => Queue!Init
  <2> SUFFICES ASSUME Init
               PROVE  InNameOrder(dir) = <<>>
    BY DEF Queue!Init
  <2>1. dir \in Directory /\ Cardinality(DOMAIN dir) = 0
    BY EmptyIsDirectory, FS_EmptySet DEF Init
  <2> QED
    BY <2>1, QueueOfFiles
<1>2. ClientInv /\ [Next]_agentVars => [Queue!Next]_(InNameOrder(dir))
  BY QueueNext
<1> QED
  BY <1>1, <1>2, ClientInit, ClientNext, PTL DEF AgentSpec, SpoolIsQueue, Queue!Spec
-----------------------------------------------------------------------------
(***************************************************************************)
(* What one call of sendBatch does to the others and to the batches the    *)
(* agent keeps; module TelemetryProofs composes these with the hub.        *)
(***************************************************************************)

\* A step of one sender is no step of another.
MovesOnly(s) == \A t \in Sender \ {s} : UNCHANGED <<pc[t], batch[t], item[t]>>

\* What a sender does between two exchanges is its own
LEMMA WorkMovesOne == ASSUME ClientInv, NEW s \in Sender, Work(s) PROVE MovesOnly(s)
<1> USE DEF ClientInv, TypeOK, MovesOnly, EndDrain, Return, ReturnTransient, ReturnFinal,
            diskVars, replayVars
<1>1. CASE Lock(s) \/ DrainEmpty(s) \/ DrainFront(s) \/ DrainCorrupt(s)
  BY <1>1 DEF Lock, DrainEmpty, DrainFront, DrainCorrupt
<1>2. CASE DrainUnreadable(s) \/ RemoveItem(s) \/ RemoveFails(s)
  BY <1>2 DEF DrainUnreadable, RemoveItem, RemoveFails
<1>3. CASE GiveUp(s) \/ GiveUpCancelled(s)
  BY <1>3 DEF GiveUp, GiveUpCancelled
<1>4. CASE PutDropOldest(s) \/ PutFile(s) \/ PutFails(s)
  BY <1>4 DEF PutDropOldest, PutFile, PutFails
<1> QED
  BY <1>1, <1>2, <1>3, <1>4 DEF Work

\* and so are its exchanges.
LEMMA CallMovesOne ==
  ASSUME ClientInv, NEW s \in Sender,
         Attempt(s) \/ Answered(s) \/ Expire(s) \/ \E b \in Batch : Begin(s, b)
  PROVE  MovesOnly(s)
<1> USE DEF ClientInv, TypeOK, MovesOnly, EndDrain, Return, ReturnTransient, ReturnFinal,
            diskVars, replayVars
<1>1. CASE Attempt(s) \/ Expire(s) \/ \E b \in Batch : Begin(s, b)
  BY <1>1 DEF Attempt, Expire, Begin
<1>2. CASE Answered(s)
  BY <1>2 DEF Answered, AnswerOK, AnswerRefused, AnswerTransient, AnswerCancelled
<1> QED
  BY <1>1, <1>2

\* drain comes to remove a file only after a verdict of the hub: a replay's
\* context is never cancelled.
ComesToRemove(s) == pc'[s] = "remove" /\ ~UNCHANGED <<pc[s], item[s]>>

\* Only a verdict of the hub brings a sender to remove an item.
LEMMA RemovesAnswered ==
  ASSUME ClientInv, NEW s \in Sender,
         \/ Work(s) \/ Attempt(s) \/ AnswerTransient(s) \/ AnswerCancelled(s) \/ Expire(s)
         \/ \E b \in Batch : Begin(s, b)
  PROVE  ~ComesToRemove(s)
<1> USE DEF ClientInv, TypeOK, ComesToRemove, EndDrain, Return, ReturnTransient, ReturnFinal,
            diskVars, replayVars
<1>1. CASE Lock(s) \/ DrainEmpty(s) \/ DrainFront(s) \/ DrainCorrupt(s)
  BY <1>1 DEF Lock, DrainEmpty, DrainFront, DrainCorrupt
<1>2. CASE DrainUnreadable(s) \/ RemoveItem(s) \/ RemoveFails(s)
  BY <1>2 DEF DrainUnreadable, RemoveItem, RemoveFails
<1>3. CASE GiveUp(s) \/ GiveUpCancelled(s)
  BY <1>3 DEF GiveUp, GiveUpCancelled, CallCtx, InDrain
<1>4. CASE PutDropOldest(s) \/ PutFile(s) \/ PutFails(s)
  BY <1>4 DEF PutDropOldest, PutFile, PutFails
<1>5. CASE Attempt(s) \/ Expire(s) \/ \E b \in Batch : Begin(s, b)
  BY <1>5 DEF Attempt, Expire, Begin
<1>6. CASE AnswerTransient(s) \/ AnswerCancelled(s)
  BY <1>6 DEF AnswerTransient, AnswerCancelled, CallCtx, InDrain
<1> QED
  BY <1>1, <1>2, <1>3, <1>4, <1>5, <1>6 DEF Work

\* The batches the agent keeps follow the directory and the senders' hands.
LEMMA SameKept == UNCHANGED <<dir, batch>> => Kept' = Kept
BY DEF Kept, InHand

\* A call that has not ended keeps every batch.
LEMMA CallKeeps ==
  ASSUME ClientInv, NEW s \in Sender,
         Attempt(s) \/ AnswerTransient(s) \/ Expire(s) \/ \E b \in Batch : Begin(s, b)
  PROVE  Kept \subseteq Kept'
<1>1. CASE Attempt(s) \/ AnswerTransient(s) \/ Expire(s)
  BY <1>1, SameKept DEF Attempt, AnswerTransient, Expire, diskVars, replayVars
<1>2. ASSUME NEW b \in Batch, Begin(s, b)
      PROVE  Kept \subseteq Kept'
  <2>1. pc[s] = "idle" /\ dir' = dir /\ batch' = [batch EXCEPT ![s] = b]
    BY <1>2 DEF Begin, diskVars
  <2>2. batch[s] = NoBatch /\ batch \in [Sender -> Batch \cup {NoBatch}]
    BY <2>1 DEF ClientInv, TypeOK, SenderOK
  <2>3. InHand \subseteq InHand'
    BY <2>1, <2>2 DEF InHand
  <2> QED
    BY <2>1, <2>3 DEF Kept
<1> QED
  BY <1>1, <1>2

\* A file that is gone takes its batch along, and no other.
LEMMA WithoutForgets ==
  ASSUME NEW d \in Directory, NEW n \in DOMAIN d
  PROVE  Stored(d) \ Stored(Without(d, n)) \subseteq {d[n]}
<1> DEFINE c == Without(d, n)
<1>1. DOMAIN c = DOMAIN d \ {n} /\ \A m \in DOMAIN d \ {n} : c[m] = d[m]
  BY WithoutIsDirectory
<1> HIDE DEF c
<1>2. Stored(d) \ Stored(c) \subseteq {d[n]}
  BY <1>1 DEF Stored
<1> QED
  BY <1>2 DEF c

\* A batch that Put has a number for is in the spool.
LEMMA WithStores ==
  ASSUME NEW d \in Directory, NEW b \in Batch, NextName(d) \in Name
  PROVE  Stored(d) \cup {b} \subseteq Stored(With(d, b))
<1> DEFINE c == With(d, b)
           n == NextName(d)
<1>1. c = [m \in DOMAIN d \cup {n} |-> IF m = n THEN b ELSE d[m]]
  BY DEF With
<1>2. n \notin DOMAIN d
  BY NextNameIsNew
<1> HIDE DEF c, n
<1>3. n \in DOMAIN c /\ c[n] = b /\ \A m \in DOMAIN d : m \in DOMAIN c /\ c[m] = d[m]
  BY <1>1, <1>2
<1>4. Stored(d) \cup {b} \subseteq Stored(c)
  BY <1>3 DEF Stored
<1> QED
  BY <1>4 DEF c

\* A sender that returns forgets its own batch, unless it is on disk.
LEMMA ReturnForgets ==
  ASSUME ClientInv, NEW s \in Sender, Return(s), Stored(dir) \subseteq Stored(dir')
  PROVE  Kept \ Kept' \subseteq {batch[s]} \ Stored(dir')
<1>1. batch' = [batch EXCEPT ![s] = NoBatch] /\ batch \in [Sender -> Batch \cup {NoBatch}]
  BY DEF Return, ClientInv, TypeOK
<1>2. InHand \ InHand' \subseteq {batch[s]}
  BY <1>1 DEF InHand
<1> QED
  BY <1>2 DEF Kept

\* The numbers of the file names are used up: the file Put renames to is none
\* of the spool's.
OutOfNames(s) == PutFile(s) /\ NextName(dir) \notin Name

\* Between two exchanges the agent forgets nothing, except what it cannot
\* store, what has lost its content, a call that is cancelled, and the item
\* whose verdict it has.
LEMMA WorkForgets ==
  ASSUME ClientInv, NEW s \in Sender, Work(s)
  PROVE  \/ Kept \subseteq Kept'
         \/ PutDropOldest(s) \/ PutFails(s) \/ OutOfNames(s)
         \/ DrainCorrupt(s) \/ GiveUpCancelled(s)
         \/ pc[s] = "remove" /\ Kept \ Kept' \subseteq {item[s].batch}
<1>1. CASE Lock(s) \/ DrainEmpty(s) \/ DrainFront(s) \/ DrainUnreadable(s) \/ RemoveFails(s)
  <2>1. UNCHANGED <<dir, batch>>
    BY <1>1 DEF Lock, DrainEmpty, DrainFront, DrainUnreadable, RemoveFails, EndDrain, diskVars
  <2> QED
    BY <2>1, SameKept
<1>2. CASE GiveUp(s)
  <2>1. UNCHANGED <<dir, batch>>
    BY <1>2 DEF GiveUp, ReturnTransient, EndDrain, diskVars
  <2> QED
    BY <2>1, SameKept
<1>3. CASE RemoveItem(s)
  <2> DEFINE n == item[s].name
  <2>1. dir \in Directory /\ dir # EmptyDirectory /\ n = Oldest(dir) /\ item[s].batch = dir[n]
    BY <1>3 DEF RemoveItem, ClientInv, TypeOK, SenderOK, Replays
  <2>2. n \in DOMAIN dir
    BY <2>1, OldestIsStored
  <2>3. dir' = Without(dir, n) /\ batch' = batch /\ pc[s] = "remove"
    BY <1>3 DEF RemoveItem
  <2> HIDE DEF n
  <2>4. Stored(dir) \ Stored(dir') \subseteq {item[s].batch}
    BY <2>1, <2>2, <2>3, WithoutForgets
  <2> QED
    BY <2>3, <2>4 DEF Kept, InHand
<1>4. CASE PutFile(s) /\ NextName(dir) \in Name
  <2>1. dir \in Directory /\ batch[s] \in Batch /\ dir' = With(dir, batch[s]) /\ Return(s)
    BY <1>4 DEF PutFile, ClientInv, TypeOK, SenderOK
  <2>2. Stored(dir) \cup {batch[s]} \subseteq Stored(dir')
    BY <1>4, <2>1, WithStores
  <2>3. Kept \ Kept' = {}
    BY <2>1, <2>2, ReturnForgets
  <2> QED
    BY <2>3
<1> QED
  BY <1>1, <1>2, <1>3, <1>4 DEF Work, OutOfNames

\* A verdict of the hub ends the call it is for: the batch of the call is the
\* only one that may be forgotten, and of a replay not even that.
LEMMA VerdictForgets ==
  ASSUME ClientInv, NEW s \in Sender, AnswerOK(s) \/ AnswerRefused(s)
  PROVE  /\ Kept \ Kept' \subseteq {CallBatch(s)}
         /\ ComesToRemove(s) => item'[s].batch = CallBatch(s)
<1>1. PICK v : ReturnFinal(s, v) /\ dir' = dir /\ pc[s] \in {"replaying", "posting"}
  BY DEF AnswerOK, AnswerRefused, diskVars
<1>2. CASE pc[s] = "replaying"
  <2>1. UNCHANGED <<dir, batch, item>>
    BY <1>1, <1>2 DEF ReturnFinal
  <2> QED
    BY <1>2, <2>1, SameKept DEF CallBatch, InDrain
<1>3. CASE pc[s] = "posting"
  <2>1. Return(s)
    BY <1>1, <1>3 DEF ReturnFinal
  <2>2. Kept \ Kept' \subseteq {batch[s]}
    BY <1>1, <2>1, ReturnForgets
  <2>3. pc'[s] = "idle"
    BY <2>1 DEF Return, ClientInv, TypeOK
  <2> QED
    BY <1>3, <2>2, <2>3 DEF CallBatch, InDrain, ComesToRemove
<1> QED
  BY <1>1, <1>2, <1>3

\* An exchange begins with a batch in hand and stays with it.
LEMMA AttemptHasBatch ==
  ASSUME ClientInv, NEW s \in Sender, Attempt(s)
  PROVE  /\ pc[s] \in {"replay", "post"} /\ CallBatch(s) \in Batch
         /\ pc'[s] \in {"replaying", "posting"} /\ CallBatch(s)' = CallBatch(s)
<1>1. /\ pc[s] \in {"replay", "post"} /\ UNCHANGED <<batch, item>>
      /\ pc' = [pc EXCEPT ![s] = IF pc[s] = "replay" THEN "replaying" ELSE "posting"]
      /\ pc \in [Sender -> PC]
  BY DEF Attempt, replayVars, ClientInv, TypeOK
<1>2. batch[s] \in Batch
  BY <1>1 DEF ClientInv, SenderOK
<1>3. pc[s] = "replay" => item[s].batch \in Batch
  <2> SUFFICES ASSUME pc[s] = "replay"
               PROVE  item[s].batch \in Batch
      OBVIOUS
  <2>1. /\ dir \in Directory /\ dir # EmptyDirectory
        /\ item[s].batch = dir[item[s].name] /\ item[s].name = Oldest(dir)
    BY DEF ClientInv, TypeOK, SenderOK, Replays
  <2> QED
    BY <2>1, OldestIsStored, DirectoryIsFunction
<1>4. CASE pc[s] = "replay"
  BY <1>1, <1>3, <1>4 DEF CallBatch, InDrain
<1>5. CASE pc[s] = "post"
  BY <1>1, <1>2, <1>5 DEF CallBatch, InDrain
<1> QED
  BY <1>1, <1>4, <1>5

\* Outside an exchange the agent works by itself.
LEMMA WorksAlone ==
  ASSUME NEW s \in Sender, Work(s) \/ \E b \in Batch : Begin(s, b)
  PROVE  pc[s] \notin {"replaying", "posting"}
BY DEF Work, Lock, DrainEmpty, DrainFront, DrainCorrupt, DrainUnreadable, RemoveItem,
       RemoveFails, GiveUp, GiveUpCancelled, PutDropOldest, PutFile, PutFails, Begin
=============================================================================
