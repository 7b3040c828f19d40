------------------------------ MODULE HMapProofs ------------------------------
(***************************************************************************)
(* The hash map, for any keys, any hash function and any capacity: its     *)
(* buckets stay well formed whatever is put, removed, rehashed and         *)
(* cleared, and every call does what it does to a map.                     *)
(***************************************************************************)
EXTENDS HMap, FiniteSetTheorems, SequenceTheorems, WellFoundedInduction, TLAPS

-----------------------------------------------------------------------------
(***************************************************************************)
(* Induction over the natural numbers, in the form of sets, and the least  *)
(* element of a set of them.                                               *)
(***************************************************************************)
Smaller == OpToRel(<, Nat)

LEMMA HasLeast ==
  ASSUME NEW T, T \subseteq Nat, T # {}
  PROVE  \E x \in T : \A y \in T : x <= y
<1>1. IsWellFoundedOn(Smaller, Nat)
  BY NatLessThanWellFounded DEF Smaller
<1>2. \A x, y \in Nat : <<y, x>> \in Smaller <=> y < x
  BY DEF Smaller, OpToRel
<1>3. PICK x \in T : \A y \in T : ~ (<<y, x>> \in Smaller)
  BY <1>1, WFMin
<1>4. \A y \in T : x \in Nat /\ y \in Nat /\ ~(y < x)
  BY <1>2, <1>3
<1>5. \A y \in T : x <= y
  BY <1>4
<1> QED BY <1>5

LEMMA LoopInduction ==
  ASSUME NEW T, 0 \in T, \A n \in Nat : n \in T => n + 1 \in T
  PROVE  Nat \subseteq T
<1> SUFFICES ASSUME Nat \ T # {} PROVE FALSE
  OBVIOUS
<1>1. PICK m \in Nat \ T : \A y \in Nat \ T : m <= y
  BY HasLeast
<1>2. m # 0 /\ m - 1 \in Nat
  BY <1>1
<1>3. m - 1 \in T
  BY <1>1, <1>2
<1> QED BY <1>1, <1>2, <1>3

LEMMA CountTo ==
  ASSUME NEW n \in Nat
  PROVE  /\ IsFiniteSet(1 .. n) /\ Cardinality(1 .. n) = n
         /\ IsFiniteSet(0 .. n) /\ Cardinality(0 .. n) = n + 1
         /\ IsFiniteSet(0 .. n - 1) /\ Cardinality(0 .. n - 1) = n
<1>1. /\ IsFiniteSet(1 .. n) /\ Cardinality(1 .. n) = IF 1 > n THEN 0 ELSE n - 1 + 1
      /\ IsFiniteSet(0 .. n) /\ Cardinality(0 .. n) = IF 0 > n THEN 0 ELSE n - 0 + 1
      /\ IsFiniteSet(0 .. n - 1)
      /\ Cardinality(0 .. n - 1) = IF 0 > n - 1 THEN 0 ELSE n - 1 - 0 + 1
  <2>1. 0 \in Int /\ 1 \in Int /\ n \in Int /\ n - 1 \in Int
    OBVIOUS
  <2> QED BY <2>1, FS_Interval
<1> QED BY <1>1

-----------------------------------------------------------------------------
(***************************************************************************)
(* The constants.                                                          *)
(***************************************************************************)
Entries == HKeys \cup {NoKey}

N == Cardinality(HKeys)

LEMMA KeysAre ==
  /\ IsFiniteSet(HKeys) /\ N \in Nat /\ NoKey \notin HKeys /\ NoKey \notin HValues
  /\ HashOf \in [HKeys -> Nat] /\ DEFAULT_CAPACITY \in Nat \ {0}
  BY HMapAssumption, FS_CardinalityType DEF N

\* An array of length L.
IsArray(b, L) == L \in Nat \ {0} /\ b \in [0 .. L - 1 -> Entries]

LEMMA LengthOfArray ==
  ASSUME NEW b, NEW L, IsArray(b, L)
  PROVE  Length(b) = L /\ DOMAIN b = 0 .. L - 1
<1>1. DOMAIN b = 0 .. L - 1 /\ L \in Nat
  BY DEF IsArray
<1> QED BY <1>1, CountTo DEF Length

LEMMA NewArray ==
  ASSUME NEW L \in Nat \ {0}
  PROVE  IsArray(Array(L), L) /\ \A i \in 0 .. L - 1 : Array(L)[i] = NoKey
  BY DEF IsArray, Array, Entries

\* The bucket of a key.
BucketOf(k, L) == HashOf[k] % L

LEMMA BucketInRange ==
  ASSUME NEW k \in HKeys, NEW L \in Nat \ {0}
  PROVE  BucketOf(k, L) \in 0 .. L - 1
<1>1. HashOf[k] \in Nat
  BY KeysAre
<1>2. \A h \in Nat : h % L \in 0 .. L - 1
  OBVIOUS
<1> QED BY <1>1, <1>2 DEF BucketOf

LEMMA HashIsBucket ==
  ASSUME NEW k \in HKeys, NEW b, NEW L, IsArray(b, L)
  PROVE  hmap_hash(b, k) = BucketOf(k, L)
  BY LengthOfArray DEF hmap_hash, BucketOf

-----------------------------------------------------------------------------
(***************************************************************************)
(* The loop along the entries of a bucket, step by step.                   *)
(***************************************************************************)
LEMMA EntryAtSteps ==
  ASSUME NEW e, NEW next
  PROVE  /\ EntriesAt(e, next)[0] = e
         /\ \A i \in 1 .. N : EntriesAt(e, next)[i] =
              IF EntriesAt(e, next)[i - 1] = NoKey THEN NoKey
              ELSE next[EntriesAt(e, next)[i - 1]]
<1> DEFINE Step(x) == IF x = NoKey THEN NoKey ELSE next[x]
           Steps(g, n) == [i \in 0 .. n |-> IF i = 0 THEN e ELSE Step(g[i - 1])]
           T == {n \in Nat : \E g : g = Steps(g, n)}
<1>1. 0 \in T
  <2> DEFINE g == [i \in 0 .. 0 |-> e]
  <2>1. g = Steps(g, 0)
    OBVIOUS
  <2> QED BY <2>1
<1>2. ASSUME NEW n \in Nat, n \in T PROVE n + 1 \in T
  <2> HIDE DEF Step
  <2>1. PICK g : g = Steps(g, n)
    BY <1>2
  <2> DEFINE h == [i \in 0 .. n + 1 |-> IF i = n + 1 THEN Step(g[n]) ELSE g[i]]
  <2>2. \A i \in 0 .. n + 1 : h[i] = IF i = 0 THEN e ELSE Step(h[i - 1])
    <3>1. \A i \in 0 .. n : g[i] = IF i = 0 THEN e ELSE Step(g[i - 1])
      BY <2>1
    <3>2. \A i \in 0 .. n : h[i] = g[i]
      OBVIOUS
    <3>3. h[n + 1] = Step(g[n]) /\ h[n] = g[n]
      BY <3>2
    <3> HIDE DEF h
    <3> QED BY <3>1, <3>2, <3>3
  <2>3. h = Steps(h, n + 1)
    BY <2>2
  <2> HIDE DEF h
  <2>4. \E f : f = Steps(f, n + 1)
    BY <2>3
  <2> QED BY <2>4
<1> HIDE DEF T
<1>3. N \in T
  BY <1>1, <1>2, LoopInduction, KeysAre
<1> DEFINE at == CHOOSE g : g = Steps(g, N)
<1>4. at = Steps(at, N)
  BY <1>3 DEF T
<1>5. EntriesAt(e, next) = at
  BY DEF EntriesAt, N
<1> HIDE DEF at
<1>6. N \in Nat
  BY KeysAre
<1> QED BY <1>4, <1>5, <1>6

LEMMA NothingFromNull ==
  ASSUME NEW next
  PROVE  EntriesFrom(NoKey, next) = <<>>
<1> DEFINE at == EntriesAt(NoKey, next)
           T == {i \in Nat : i <= N => at[i] = NoKey}
<1>1. at[0] = NoKey /\ \A i \in 1 .. N : at[i - 1] = NoKey => at[i] = NoKey
  BY EntryAtSteps
<1> HIDE DEF at
<1>2. 0 \in T
  BY <1>1
<1>3. ASSUME NEW i \in Nat, i \in T PROVE i + 1 \in T
  <2>1. CASE i + 1 <= N
    <3>1. i <= N /\ i + 1 \in 1 .. N /\ (i + 1) - 1 = i
      BY <2>1, KeysAre
    <3>2. at[i] = NoKey
      BY <1>3, <3>1
    <3>3. at[i + 1] = NoKey
      BY <1>1, <3>1, <3>2
    <3> QED BY <3>3
  <2>2. CASE ~(i + 1 <= N)
    BY <2>2
  <2> QED BY <2>1, <2>2
<1> HIDE DEF T
<1>4. \A i \in Nat : i \in T
  BY <1>2, <1>3, LoopInduction
<1>5. \A i \in 0 .. N : at[i] = NoKey
  BY <1>4, KeysAre DEF T
<1>6. {n \in 0 .. N : at[n] # NoKey} = {}
  BY <1>5
<1>7. Cardinality({n \in 0 .. N : at[n] # NoKey}) = 0
  BY <1>6, FS_EmptySet
<1>8. EntriesFrom(NoKey, next) = [n \in 1 .. 0 |-> at[n - 1]]
  BY <1>7 DEF EntriesFrom, at, N
<1> QED BY <1>8

-----------------------------------------------------------------------------
(***************************************************************************)
(* The entries P are linked into the buckets of b.  A rank that decreases  *)
(* along the pointers says that no bucket comes round again.               *)
(***************************************************************************)
Linked(b, L, next, P, rank) ==
  /\ IsArray(b, L) /\ P \subseteq HKeys
  /\ next \in [HKeys -> Entries] /\ rank \in [HKeys -> Nat]
  /\ \A i \in 0 .. L - 1 : b[i] # NoKey => b[i] \in P /\ BucketOf(b[i], L) = i
  /\ \A k \in P : next[k] # NoKey =>
       /\ next[k] \in P /\ BucketOf(next[k], L) = BucketOf(k, L)
       /\ rank[next[k]] < rank[k] /\ b[BucketOf(k, L)] # next[k]
  /\ \A k, l \in P : next[k] = next[l] /\ next[k] # NoKey => k = l
  /\ \A k \in P : b[BucketOf(k, L)] = k \/ \E p \in P : next[p] = k

\* Down the chain from an entry.
LEMMA Down ==
  ASSUME NEW b, NEW L, NEW next, NEW P, NEW rank, Linked(b, L, next, P, rank), NEW e \in P
  PROVE  LET at == EntriesAt(e, next)
         IN  \A j \in 0 .. N : at[j] # NoKey =>
               /\ at[j] \in P /\ BucketOf(at[j], L) = BucketOf(e, L)
               /\ \A i \in 0 .. j - 1 : at[i] # NoKey /\ at[i] \in P /\ rank[at[j]] < rank[at[i]]
<1> DEFINE at == EntriesAt(e, next)
           Goes(j) == at[j] # NoKey =>
               /\ at[j] \in P /\ BucketOf(at[j], L) = BucketOf(e, L)
               /\ \A i \in 0 .. j - 1 : at[i] # NoKey /\ at[i] \in P /\ rank[at[j]] < rank[at[i]]
           T == {j \in Nat : j <= N => Goes(j)}
<1>1. /\ P \subseteq HKeys /\ NoKey \notin P /\ rank \in [HKeys -> Nat]
      /\ \A k \in P : next[k] # NoKey =>
           next[k] \in P /\ BucketOf(next[k], L) = BucketOf(k, L) /\ rank[next[k]] < rank[k]
  BY KeysAre DEF Linked
<1>2. at[0] = e /\ \A i \in 1 .. N :
        at[i] = IF at[i - 1] = NoKey THEN NoKey ELSE next[at[i - 1]]
  BY EntryAtSteps
<1> HIDE DEF at
<1>3. 0 \in T
  BY <1>1, <1>2
<1>4. ASSUME NEW j \in Nat, j \in T PROVE j + 1 \in T
  <2> SUFFICES ASSUME j + 1 <= N, at[j + 1] # NoKey PROVE Goes(j + 1)
    OBVIOUS
  <2>1. j <= N /\ j + 1 \in 1 .. N /\ (j + 1) - 1 = j
    BY KeysAre
  <2>2. at[j] # NoKey /\ at[j + 1] = next[at[j]]
    BY <1>2, <2>1
  <2>3. Goes(j)
    BY <1>4, <2>1
  <2>4. /\ at[j] \in P /\ BucketOf(at[j], L) = BucketOf(e, L)
        /\ \A i \in 0 .. j - 1 : at[i] # NoKey /\ at[i] \in P /\ rank[at[j]] < rank[at[i]]
    BY <2>2, <2>3
  <2>5. /\ at[j + 1] \in P /\ BucketOf(at[j + 1], L) = BucketOf(e, L)
        /\ rank[at[j + 1]] < rank[at[j]]
    BY <1>1, <2>2, <2>4
  <2>6. ASSUME NEW i \in 0 .. (j + 1) - 1
        PROVE  at[i] # NoKey /\ at[i] \in P /\ rank[at[j + 1]] < rank[at[i]]
    <3>1. CASE i = j
      BY <2>2, <2>4, <2>5, <3>1
    <3>2. CASE i # j
      <4>1. at[i] # NoKey /\ at[i] \in P /\ rank[at[j]] < rank[at[i]]
        BY <2>4, <3>2
      <4>2. rank[at[i]] \in Nat /\ rank[at[j]] \in Nat /\ rank[at[j + 1]] \in Nat
        BY <1>1, <2>4, <2>5, <4>1
      <4> QED BY <2>5, <4>1, <4>2
    <3> QED BY <3>1, <3>2
  <2> QED BY <2>5, <2>6
<1> HIDE DEF T
<1>5. \A j \in Nat : j \in T
  BY <1>3, <1>4, LoopInduction
<1>6. \A j \in 0 .. N : Goes(j)
  BY <1>5, KeysAre DEF T
<1> QED BY <1>6 DEF at

\* It comes to an end: there are no more entries than keys.
LEMMA DownEnds ==
  ASSUME NEW b, NEW L, NEW next, NEW P, NEW rank, Linked(b, L, next, P, rank), NEW e \in P
  PROVE  LET at == EntriesAt(e, next)
         IN  \E m \in 1 .. N : /\ at[m] = NoKey
                               /\ \A j \in 0 .. m - 1 : at[j] # NoKey
                               /\ {j \in 0 .. N : at[j] # NoKey} = 0 .. m - 1
<1> DEFINE at == EntriesAt(e, next)
           Ends == {j \in 0 .. N : at[j] = NoKey}
<1>1. /\ P \subseteq HKeys /\ NoKey \notin P /\ rank \in [HKeys -> Nat] /\ N \in Nat
      /\ IsFiniteSet(HKeys)
  BY KeysAre DEF Linked
<1>2. \A j \in 0 .. N : at[j] # NoKey =>
               /\ at[j] \in P
               /\ \A i \in 0 .. j - 1 : at[i] # NoKey /\ rank[at[j]] < rank[at[i]]
  BY Down
<1>3. at[0] = e
  BY EntryAtSteps
<1> HIDE DEF at
<1>4. Ends # {}
  <2> SUFFICES ASSUME \A j \in 0 .. N : at[j] # NoKey PROVE FALSE
    OBVIOUS
  <2> DEFINE f == [j \in 0 .. N |-> at[j]]
  <2>1. f \in [0 .. N -> HKeys] /\ \A j \in 0 .. N : f[j] = at[j]
    BY <1>1, <1>2
  <2> HIDE DEF f
  <2>2. Cardinality(HKeys) < Cardinality(0 .. N) /\ IsFiniteSet(0 .. N)
    BY <1>1, CountTo DEF N
  <2>3. PICK x, y \in 0 .. N : x # y /\ f[x] = f[y]
    BY <1>1, <2>1, <2>2, FS_PigeonHole
  <2>4. x \in 0 .. y - 1 \/ y \in 0 .. x - 1
    BY <2>3
  <2>5. rank[at[x]] < rank[at[y]] \/ rank[at[y]] < rank[at[x]]
    BY <1>2, <2>4
  <2>6. at[x] = at[y] /\ rank[at[x]] \in Nat
    BY <1>1, <1>2, <2>1, <2>3
  <2> QED BY <2>5, <2>6
<1>5. PICK m \in Ends : \A y \in Ends : m <= y
  <2>1. Ends \subseteq Nat
    OBVIOUS
  <2> QED BY <1>4, <2>1, HasLeast
<1>6. m \in 0 .. N /\ at[m] = NoKey /\ m # 0
  BY <1>1, <1>3
<1>7. \A j \in 0 .. N : at[j] # NoKey <=> j \in 0 .. m - 1
  <2> TAKE j \in 0 .. N
  <2>1. j \in 0 .. m - 1 => at[j] # NoKey
    BY <1>5, <1>6
  <2>2. ASSUME at[j] # NoKey, j > m PROVE FALSE
    <3>1. m \in 0 .. j - 1
      BY <1>6, <2>2
    <3> QED BY <1>2, <1>6, <2>2, <3>1
  <2> QED BY <1>6, <2>1, <2>2
<1>8. 0 .. m - 1 \subseteq 0 .. N
  BY <1>1, <1>6
<1>9. {j \in 0 .. N : at[j] # NoKey} = 0 .. m - 1
  BY <1>7, <1>8
<1> QED BY <1>6, <1>7, <1>8, <1>9 DEF at

\* What the loop visits.
Chain(c, next, P, e, L) ==
  /\ c \in Seq(P) /\ Len(c) \in Nat \ {0} /\ c[1] = e
  /\ \A j \in 1 .. Len(c) : /\ next[c[j]] = IF j = Len(c) THEN NoKey ELSE c[j + 1]
                            /\ BucketOf(c[j], L) = BucketOf(e, L)
  /\ \A i, j \in 1 .. Len(c) : c[i] = c[j] => i = j

LEMMA ChainFrom ==
  ASSUME NEW b, NEW L, NEW next, NEW P, NEW rank, Linked(b, L, next, P, rank), NEW e \in P
  PROVE  /\ Chain(EntriesFrom(e, next), next, P, e, L)
         /\ \A i, j \in 1 .. Len(EntriesFrom(e, next)) :
              i < j => rank[EntriesFrom(e, next)[j]] < rank[EntriesFrom(e, next)[i]]
<1> DEFINE at == EntriesAt(e, next)
           c == EntriesFrom(e, next)
<1>1. /\ P \subseteq HKeys /\ NoKey \notin P /\ rank \in [HKeys -> Nat] /\ N \in Nat
  BY KeysAre DEF Linked
<1>2. \A j \in 0 .. N : at[j] # NoKey =>
               /\ at[j] \in P /\ BucketOf(at[j], L) = BucketOf(e, L)
               /\ \A i \in 0 .. j - 1 : at[i] # NoKey /\ at[i] \in P /\ rank[at[j]] < rank[at[i]]
  BY Down
<1>3. at[0] = e /\ \A i \in 1 .. N :
        at[i] = IF at[i - 1] = NoKey THEN NoKey ELSE next[at[i - 1]]
  BY EntryAtSteps
<1>4. PICK m \in 1 .. N : /\ at[m] = NoKey /\ \A j \in 0 .. m - 1 : at[j] # NoKey
                          /\ {j \in 0 .. N : at[j] # NoKey} = 0 .. m - 1
  BY DownEnds
<1>5. Cardinality({j \in 0 .. N : at[j] # NoKey}) = m
  <2>1. m \in Nat
    BY <1>1
  <2>2. Cardinality(0 .. m - 1) = m
    BY <2>1, CountTo
  <2> QED BY <1>4, <2>2
<1>6. c = [n \in 1 .. m |-> at[n - 1]]
  BY <1>5 DEF EntriesFrom, N
<1> HIDE DEF at, c
<1>7. \A n \in 1 .. m : /\ n - 1 \in 0 .. m - 1 /\ n - 1 \in 0 .. N /\ c[n] = at[n - 1]
                        /\ c[n] \in P /\ BucketOf(c[n], L) = BucketOf(e, L)
  BY <1>1, <1>2, <1>4, <1>6
<1>8. c \in [1 .. m -> P] /\ Len(c) = m /\ m \in Nat \ {0}
  BY <1>1, <1>6, <1>7
<1>9. c \in Seq(P)
  BY <1>8
<1>10. c[1] = e
  BY <1>3, <1>7, <1>8
<1>11. ASSUME NEW j \in 1 .. m PROVE next[c[j]] = IF j = m THEN NoKey ELSE c[j + 1]
  <2>1. at[j] = next[at[j - 1]] /\ c[j] = at[j - 1]
    BY <1>1, <1>3, <1>4, <1>7
  <2>2. j # m => j + 1 \in 1 .. m /\ (j + 1) - 1 = j
    BY <1>1
  <2> QED BY <1>4, <1>7, <2>1, <2>2
<1>12. ASSUME NEW i \in 1 .. m, NEW j \in 1 .. m, i < j PROVE rank[c[j]] < rank[c[i]]
  <2>1. i - 1 \in 0 .. (j - 1) - 1
    BY <1>12
  <2>2. at[j - 1] # NoKey /\ j - 1 \in 0 .. N
    BY <1>4, <1>7
  <2> QED BY <1>2, <1>7, <2>1, <2>2
<1>13. ASSUME NEW i \in 1 .. m, NEW j \in 1 .. m, c[i] = c[j] PROVE i = j
  <2>1. rank[c[i]] \in Nat /\ rank[c[i]] = rank[c[j]]
    BY <1>1, <1>7, <1>13
  <2>2. ~(i < j) /\ ~(j < i)
    BY <1>12, <2>1
  <2> QED BY <2>2
<1>14. Chain(c, next, P, e, L)
  BY <1>7, <1>8, <1>9, <1>10, <1>11, <1>13 DEF Chain
<1> QED BY <1>8, <1>12, <1>14 DEF c

-----------------------------------------------------------------------------
(***************************************************************************)
(* A bucket holds exactly the entries that hash to it.                     *)
(***************************************************************************)
LEMMA RankBound ==
  ASSUME NEW rank \in [HKeys -> Nat]
  PROVE  \E m \in Nat : \A k \in HKeys : rank[k] <= m
<1>1. PICK f : f \in Bijection(1 .. N, HKeys)
  BY KeysAre, FS_CardinalityType DEF N, ExistsBijection
<1>2. /\ f \in [1 .. N -> HKeys] /\ N \in Nat
      /\ \A k \in HKeys : \E j \in 1 .. N : f[j] = k
  BY <1>1, KeysAre DEF Bijection, Injection, Surjection
<1> DEFINE Bounds(n, m) == \A j \in 1 .. N : j <= n => rank[f[j]] <= m
           T == {n \in Nat : \E m \in Nat : Bounds(n, m)}
<1>3. 0 \in T
  <2>1. Bounds(0, 0)
    BY <1>2
  <2> QED BY <2>1
<1>4. ASSUME NEW n \in Nat, n \in T PROVE n + 1 \in T
  <2>1. PICK m \in Nat : Bounds(n, m)
    BY <1>4
  <2>2. CASE n + 1 \in 1 .. N
    <3> DEFINE top == IF rank[f[n + 1]] <= m THEN m ELSE rank[f[n + 1]]
    <3>1. rank[f[n + 1]] \in Nat /\ \A j \in 1 .. N : rank[f[j]] \in Nat
      BY <1>2, <2>2
    <3>2. top \in Nat /\ m <= top /\ rank[f[n + 1]] <= top
      BY <3>1
    <3> HIDE DEF top
    <3>3. \A j \in 1 .. N : j <= n + 1 => j <= n \/ j = n + 1
      BY <1>2
    <3>4. Bounds(n + 1, top)
      BY <2>1, <3>1, <3>2, <3>3
    <3> QED BY <3>2, <3>4
  <2>3. CASE n + 1 \notin 1 .. N
    <3>1. \A j \in 1 .. N : j <= n + 1 => j <= n
      BY <1>2, <2>3
    <3>2. Bounds(n + 1, m)
      BY <2>1, <3>1
    <3> QED BY <3>2
  <2> QED BY <2>2, <2>3
<1> HIDE DEF T
<1>5. N \in T
  BY <1>2, <1>3, <1>4, LoopInduction
<1>6. PICK m \in Nat : Bounds(N, m)
  BY <1>5 DEF T
<1>7. \A j \in 1 .. N : rank[f[j]] <= m
  BY <1>2, <1>6
<1> QED BY <1>2, <1>7

LEMMA HasHighest ==
  ASSUME NEW rank \in [HKeys -> Nat], NEW X, X \subseteq HKeys, X # {}
  PROVE  \E x \in X : \A y \in X : rank[y] <= rank[x]
<1>1. PICK m \in Nat : \A k \in HKeys : rank[k] <= m
  BY RankBound
<1> DEFINE T == {m - rank[k] : k \in X}
<1>2. T \subseteq Nat
  BY <1>1
<1>3. T # {}
  OBVIOUS
<1>4. PICK t \in T : \A u \in T : t <= u
  BY <1>2, <1>3, HasLeast
<1>5. PICK x \in X : t = m - rank[x]
  OBVIOUS
<1>6. \A y \in X : m - rank[x] <= m - rank[y]
  BY <1>4, <1>5
<1>7. \A y \in X : rank[y] \in Nat
  OBVIOUS
<1> HIDE DEF T
<1> QED BY <1>6, <1>7

LEMMA BucketHolds ==
  ASSUME NEW b, NEW L, NEW next, NEW P, NEW rank, Linked(b, L, next, P, rank),
         NEW i \in 0 .. L - 1
  PROVE  LET c == EntriesFrom(b[i], next)
         IN  /\ c \in Seq(P) /\ IsInjective(c)
             /\ Range(c) = {k \in P : BucketOf(k, L) = i}
             /\ c = <<>> <=> b[i] = NoKey
             /\ b[i] # NoKey => Chain(c, next, P, b[i], L)
<1> DEFINE c == EntriesFrom(b[i], next)
<1>1. /\ P \subseteq HKeys /\ NoKey \notin P /\ rank \in [HKeys -> Nat]
      /\ b[i] # NoKey => b[i] \in P /\ BucketOf(b[i], L) = i
      /\ \A k \in P : next[k] # NoKey => /\ next[k] \in P /\ rank[next[k]] < rank[k]
                                         /\ BucketOf(next[k], L) = BucketOf(k, L)
      /\ \A k \in P : b[BucketOf(k, L)] = k \/ \E p \in P : next[p] = k
  BY KeysAre DEF Linked
<1>2. /\ b[i] = NoKey => c = <<>>
      /\ b[i] # NoKey => Chain(c, next, P, b[i], L)
  BY <1>1, NothingFromNull, ChainFrom
<1> HIDE DEF c
<1>3. c \in Seq(P) /\ IsInjective(c) /\ (c = <<>> <=> b[i] = NoKey)
  <2>1. CASE b[i] = NoKey
    BY <1>2, <2>1 DEF IsInjective
  <2>2. CASE b[i] # NoKey
    <3>1. c \in Seq(P) /\ Len(c) # 0 /\ \A j, k \in 1 .. Len(c) : c[j] = c[k] => j = k
      BY <1>2, <2>2 DEF Chain
    <3>2. DOMAIN c = 1 .. Len(c) /\ c # <<>>
      BY <3>1
    <3> QED BY <2>2, <3>1, <3>2 DEF IsInjective
  <2> QED BY <2>1, <2>2
<1>4. Range(c) = {c[j] : j \in 1 .. Len(c)} /\ \A j \in 1 .. Len(c) : c[j] \in P
  BY <1>3 DEF Range
<1>5. \A k \in Range(c) : k \in P /\ BucketOf(k, L) = i
  <2>1. CASE b[i] = NoKey
    BY <1>2, <1>4, <2>1
  <2>2. CASE b[i] # NoKey
    <3>1. \A j \in 1 .. Len(c) : BucketOf(c[j], L) = i
      BY <1>1, <1>2, <2>2 DEF Chain
    <3> QED BY <1>4, <3>1
  <2> QED BY <2>1, <2>2
<1>6. \A k \in Range(c) : next[k] # NoKey => next[k] \in Range(c)
  <2> SUFFICES ASSUME NEW k \in Range(c), next[k] # NoKey PROVE next[k] \in Range(c)
    OBVIOUS
  <2>1. PICK j \in 1 .. Len(c) : c[j] = k
    BY <1>4
  <2>2. b[i] # NoKey
    BY <1>2, <2>1
  <2>3. j # Len(c) /\ next[k] = c[j + 1] /\ Len(c) \in Nat
    BY <1>2, <2>1, <2>2 DEF Chain
  <2>4. j + 1 \in 1 .. Len(c)
    BY <2>3
  <2> QED BY <1>4, <2>3, <2>4
<1>7. {k \in P : BucketOf(k, L) = i} \subseteq Range(c)
  <2> DEFINE X == {k \in P : BucketOf(k, L) = i /\ k \notin Range(c)}
  <2> SUFFICES ASSUME X # {} PROVE FALSE
    OBVIOUS
  <2>1. PICK x \in X : \A y \in X : rank[y] <= rank[x]
    <3>1. X \subseteq HKeys
      BY <1>1
    <3> QED BY <1>1, <3>1, HasHighest
  <2>2. b[i] # x
    <3> SUFFICES ASSUME b[i] = x PROVE FALSE
      OBVIOUS
    <3>1. b[i] # NoKey
      BY <1>1
    <3>2. c[1] = x /\ 1 \in 1 .. Len(c)
      BY <1>2, <3>1 DEF Chain
    <3> QED BY <1>4, <3>2
  <2>3. PICK p \in P : next[p] = x
    BY <1>1, <2>2
  <2>4. x # NoKey /\ BucketOf(p, L) = i /\ rank[x] < rank[p]
    BY <1>1, <2>3
  <2>5. p \notin Range(c)
    BY <1>6, <2>3, <2>4
  <2>6. rank[p] <= rank[x] /\ rank[p] \in Nat /\ rank[x] \in Nat
    BY <1>1, <2>1, <2>4, <2>5
  <2> QED BY <2>4, <2>6
<1>8. Range(c) = {k \in P : BucketOf(k, L) = i}
  BY <1>5, <1>7
<1> QED BY <1>2, <1>3, <1>8 DEF c

LEMMA BucketsHold ==
  ASSUME NEW b, NEW L, NEW next, NEW P, NEW rank, Linked(b, L, next, P, rank), NEW i \in Nat
  PROVE  EntriesOfBuckets(b, next, i) = {k \in P : BucketOf(k, L) >= i}
<1>1. Length(b) = L /\ L \in Nat \ {0} /\ P \subseteq HKeys
  BY LengthOfArray DEF Linked, IsArray
<1>2. \A j \in 0 .. L - 1 : Range(EntriesFrom(b[j], next)) = {k \in P : BucketOf(k, L) = j}
  BY BucketHolds
<1>3. \A k \in P : BucketOf(k, L) \in 0 .. L - 1
  BY <1>1, BucketInRange
<1>4. EntriesOfBuckets(b, next, i) = UNION {{k \in P : BucketOf(k, L) = j} : j \in i .. L - 1}
  <2>1. \A j \in i .. L - 1 : j \in 0 .. L - 1
    BY <1>1
  <2> QED BY <1>1, <1>2, <2>1 DEF EntriesOfBuckets
<1>5. \A k \in P : BucketOf(k, L) \in i .. L - 1 <=> BucketOf(k, L) >= i
  BY <1>1, <1>3
<1> QED BY <1>4, <1>5

\* The rank orders each bucket: its head is the highest, and the next entry is
\* the next lower one.
LEMMA RankOrder ==
  ASSUME NEW b, NEW L, NEW next, NEW P, NEW rank, Linked(b, L, next, P, rank),
         NEW k \in P, NEW x \in P, BucketOf(x, L) = BucketOf(k, L)
  PROVE  /\ rank[x] = rank[k] => x = k
         /\ rank[x] < rank[k] => next[k] # NoKey /\ rank[x] <= rank[next[k]]
         /\ b[BucketOf(k, L)] # NoKey /\ rank[x] <= rank[b[BucketOf(k, L)]]
<1> DEFINE i == BucketOf(k, L)
           c == EntriesFrom(b[i], next)
<1>1. P \subseteq HKeys /\ rank \in [HKeys -> Nat] /\ L \in Nat \ {0}
  BY DEF Linked, IsArray
<1>2. i \in 0 .. L - 1 /\ (b[i] # NoKey => b[i] \in P)
  BY <1>1, BucketInRange DEF Linked
<1>3. /\ Range(c) = {y \in P : BucketOf(y, L) = i}
      /\ b[i] # NoKey => Chain(c, next, P, b[i], L)
      /\ c = <<>> <=> b[i] = NoKey
      /\ c \in Seq(P)
  BY <1>2, BucketHolds
<1>4. b[i] # NoKey => \A p, q \in 1 .. Len(c) : p < q => rank[c[q]] < rank[c[p]]
  BY <1>2, ChainFrom
<1> HIDE DEF c
<1>5. PICK p \in 1 .. Len(c), q \in 1 .. Len(c) : c[p] = x /\ c[q] = k
  <2>1. x \in Range(c) /\ k \in Range(c)
    BY <1>3
  <2> QED BY <1>3, <2>1 DEF Range
<1>6. b[i] # NoKey /\ c[1] = b[i] /\ Len(c) \in Nat /\ 1 \in 1 .. Len(c)
      /\ next[c[q]] = (IF q = Len(c) THEN NoKey ELSE c[q + 1])
  <2>1. b[i] # NoKey
    BY <1>3, <1>5
  <2> QED BY <1>3, <1>5, <2>1 DEF Chain
<1>7. \A j \in 1 .. Len(c) : c[j] \in P /\ rank[c[j]] \in Nat
  BY <1>1, <1>3
<1>8. \A u, v \in 1 .. Len(c) : u < v => rank[c[v]] < rank[c[u]]
  BY <1>4, <1>6
<1>9. rank[x] = rank[k] => x = k
  BY <1>5, <1>7, <1>8
<1>10. rank[x] < rank[k] => next[k] # NoKey /\ rank[x] <= rank[next[k]]
  <2> SUFFICES ASSUME rank[x] < rank[k] PROVE next[k] # NoKey /\ rank[x] <= rank[next[k]]
    OBVIOUS
  <2>1. q < p
    BY <1>5, <1>7, <1>8
  <2>2. q + 1 \in 1 .. Len(c) /\ q # Len(c) /\ (q + 1 < p \/ q + 1 = p)
    BY <1>6, <2>1
  <2>3. next[k] = c[q + 1] /\ c[q + 1] # NoKey
    BY <1>1, <1>5, <1>6, <1>7, <2>2, KeysAre
  <2>4. rank[c[p]] <= rank[c[q + 1]]
    BY <1>7, <1>8, <2>2
  <2> QED BY <1>5, <2>3, <2>4
<1>11. rank[x] <= rank[b[i]]
  BY <1>5, <1>6, <1>7, <1>8
<1> QED BY <1>6, <1>9, <1>10, <1>11

\* From an entry on, the loop visits what is not higher in its bucket.
LEMMA FromHolds ==
  ASSUME NEW b, NEW L, NEW next, NEW P, NEW rank, Linked(b, L, next, P, rank), NEW e \in P
  PROVE  Range(EntriesFrom(e, next))
         = {k \in P : BucketOf(k, L) = BucketOf(e, L) /\ rank[k] <= rank[e]}
<1> DEFINE c == EntriesFrom(e, next)
           S == {k \in P : BucketOf(k, L) = BucketOf(e, L) /\ rank[k] <= rank[e]}
<1>1. /\ P \subseteq HKeys /\ NoKey \notin P /\ rank \in [HKeys -> Nat] /\ L \in Nat \ {0}
      /\ \A k \in P : next[k] # NoKey => /\ next[k] \in P /\ rank[next[k]] < rank[k]
                                         /\ BucketOf(next[k], L) = BucketOf(k, L)
      /\ \A k \in P : b[BucketOf(k, L)] = k \/ \E p \in P : next[p] = k
  BY KeysAre DEF Linked, IsArray
<1>2. Chain(c, next, P, e, L) /\ \A i, j \in 1 .. Len(c) : i < j => rank[c[j]] < rank[c[i]]
  BY ChainFrom
<1> HIDE DEF c
<1>3. /\ Range(c) = {c[j] : j \in 1 .. Len(c)} /\ Len(c) \in Nat /\ 1 \in 1 .. Len(c)
      /\ c[1] = e
      /\ \A j \in 1 .. Len(c) : /\ c[j] \in P /\ BucketOf(c[j], L) = BucketOf(e, L)
                                /\ next[c[j]] = IF j = Len(c) THEN NoKey ELSE c[j + 1]
  BY <1>2 DEF Chain, Range
<1>4. Range(c) \subseteq S
  <2> SUFFICES ASSUME NEW j \in 1 .. Len(c) PROVE rank[c[j]] <= rank[e]
    BY <1>3
  <2>1. rank[c[j]] \in Nat /\ rank[e] \in Nat
    BY <1>1, <1>3
  <2>2. j = 1 \/ 1 < j
    BY <1>3
  <2> QED BY <1>2, <1>3, <2>1, <2>2
<1>5. \A k \in Range(c) : next[k] # NoKey => next[k] \in Range(c)
  <2> SUFFICES ASSUME NEW j \in 1 .. Len(c), next[c[j]] # NoKey PROVE next[c[j]] \in Range(c)
    BY <1>3
  <2>1. j # Len(c) /\ j + 1 \in 1 .. Len(c)
    BY <1>3
  <2> QED BY <1>3, <2>1
<1>6. S \subseteq Range(c)
  <2> DEFINE X == S \ Range(c)
  <2> SUFFICES ASSUME X # {} PROVE FALSE
    OBVIOUS
  <2>1. PICK x \in X : \A y \in X : rank[y] <= rank[x]
    <3>1. X \subseteq HKeys
      BY <1>1
    <3> QED BY <1>1, <3>1, HasHighest
  <2>2. /\ x \in P /\ BucketOf(x, L) = BucketOf(e, L) /\ rank[x] <= rank[e]
        /\ x \notin Range(c) /\ e \in Range(c) /\ rank[x] \in Nat /\ rank[e] \in Nat
    BY <1>1, <1>3
  <2>3. rank[x] < rank[e]
    BY <2>2, RankOrder
  <2>4. b[BucketOf(x, L)] # x
    BY <2>2, <2>3, RankOrder
  <2>5. PICK p \in P : next[p] = x
    BY <1>1, <2>2, <2>4
  <2>6. BucketOf(p, L) = BucketOf(e, L) /\ rank[x] < rank[p] /\ rank[p] \in Nat
    BY <1>1, <2>2, <2>5
  <2>7. p \notin Range(c)
    BY <1>1, <1>5, <2>2, <2>5
  <2>8. ~(rank[p] <= rank[e])
    <3> SUFFICES ASSUME rank[p] <= rank[e] PROVE FALSE
      OBVIOUS
    <3>1. p \in X
      BY <2>5, <2>6, <2>7
    <3>2. rank[p] <= rank[x]
      BY <2>1, <3>1
    <3> QED BY <2>2, <2>6, <3>2
  <2>9. rank[e] <= rank[next[p]]
    BY <2>2, <2>6, <2>8, RankOrder
  <2> QED BY <2>2, <2>3, <2>5, <2>9
<1> QED BY <1>4, <1>6 DEF c

-----------------------------------------------------------------------------
(***************************************************************************)
(* What the calls do to the links.                                         *)
(***************************************************************************)
LEMMA NothingLinked ==
  ASSUME NEW L \in Nat \ {0}, NEW next \in [HKeys -> Entries]
  PROVE  Linked(Array(L), L, next, {}, [k \in HKeys |-> 0])
  BY NewArray DEF Linked

Higher(k, P, L, rank, rank2) ==
  /\ \A x \in P : rank2[x] = rank[x]
  /\ \A x \in P : BucketOf(x, L) = BucketOf(k, L) => rank2[x] < rank2[k]

\* An entry in front of its bucket, with a rank above its others.
LEMMA PutInFront ==
  ASSUME NEW b, NEW L, NEW next, NEW P, NEW rank, Linked(b, L, next, P, rank),
         NEW k \in HKeys \ P
  PROVE  \E rank2 : /\ Linked([b EXCEPT ![BucketOf(k, L)] = k], L,
                              [next EXCEPT ![k] = b[BucketOf(k, L)]], P \cup {k}, rank2)
                    /\ Higher(k, P, L, rank, rank2)
<1> DEFINE i == BucketOf(k, L)
           b2 == [b EXCEPT ![i] = k]
           next2 == [next EXCEPT ![k] = b[i]]
           rank2 == [rank EXCEPT ![k] = IF b[i] = NoKey THEN 0 ELSE rank[b[i]] + 1]
           P2 == P \cup {k}
<1>1. /\ L \in Nat \ {0} /\ b \in [0 .. L - 1 -> Entries] /\ P \subseteq HKeys /\ NoKey \notin HKeys
      /\ next \in [HKeys -> Entries] /\ rank \in [HKeys -> Nat]
      /\ \A j \in 0 .. L - 1 : b[j] # NoKey => b[j] \in P /\ BucketOf(b[j], L) = j
      /\ \A x \in P : next[x] # NoKey =>
           /\ next[x] \in P /\ BucketOf(next[x], L) = BucketOf(x, L)
           /\ rank[next[x]] < rank[x] /\ b[BucketOf(x, L)] # next[x]
      /\ \A x, y \in P : next[x] = next[y] /\ next[x] # NoKey => x = y
      /\ \A x \in P : b[BucketOf(x, L)] = x \/ \E p \in P : next[p] = x
  BY KeysAre DEF Linked, IsArray
<1>2. \A x \in HKeys : BucketOf(x, L) \in 0 .. L - 1
  BY <1>1, BucketInRange
<1>3. k \in HKeys /\ k \notin P /\ i \in 0 .. L - 1
  BY <1>2
<1>4. /\ b2 \in [0 .. L - 1 -> Entries] /\ b2[i] = k /\ \A j \in 0 .. L - 1 : j # i => b2[j] = b[j]
      /\ next2 \in [HKeys -> Entries] /\ next2[k] = b[i]
      /\ \A x \in HKeys : x # k => next2[x] = next[x]
      /\ rank2 \in [HKeys -> Nat] /\ rank2[k] = (IF b[i] = NoKey THEN 0 ELSE rank[b[i]] + 1)
      /\ \A x \in HKeys : x # k => rank2[x] = rank[x]
  BY <1>1, <1>3 DEF Entries
<1>5. \A x \in P : x # k /\ x \in HKeys /\ rank2[x] = rank[x] /\ next2[x] = next[x]
  BY <1>1, <1>3, <1>4
<1>6. \A x \in P : BucketOf(x, L) = i => rank2[x] < rank2[k]
  <2> SUFFICES ASSUME NEW x \in P, BucketOf(x, L) = i PROVE rank2[x] < rank2[k]
    OBVIOUS
  <2>1. b[i] # NoKey /\ rank[x] <= rank[b[i]]
    BY RankOrder
  <2>2. rank[x] \in Nat /\ rank[b[i]] \in Nat
    BY <1>1, <1>3, <2>1
  <2> QED BY <1>4, <1>5, <2>1, <2>2
<1> HIDE DEF b2, next2, rank2, i
<1>7. \A j \in 0 .. L - 1 : b2[j] # NoKey => b2[j] \in P2 /\ BucketOf(b2[j], L) = j
  BY <1>1, <1>4 DEF i
<1>8. \A x \in P2 : next2[x] # NoKey =>
           /\ next2[x] \in P2 /\ BucketOf(next2[x], L) = BucketOf(x, L)
           /\ rank2[next2[x]] < rank2[x] /\ b2[BucketOf(x, L)] # next2[x]
  <2> SUFFICES ASSUME NEW x \in P2, next2[x] # NoKey
               PROVE  /\ next2[x] \in P2 /\ BucketOf(next2[x], L) = BucketOf(x, L)
                      /\ rank2[next2[x]] < rank2[x] /\ b2[BucketOf(x, L)] # next2[x]
    OBVIOUS
  <2>1. CASE x = k
    <3>1. next2[x] = b[i] /\ b[i] \in P /\ BucketOf(b[i], L) = i
      BY <1>1, <1>3, <1>4, <2>1
    <3> QED BY <1>3, <1>4, <1>6, <2>1, <3>1 DEF i
  <2>2. CASE x \in P
    <3>1. next2[x] = next[x] /\ next[x] \in P /\ rank2[next[x]] < rank2[x]
          /\ BucketOf(next[x], L) = BucketOf(x, L)
      BY <1>1, <1>5, <2>2
    <3>2. next[x] # k /\ b[BucketOf(x, L)] # next[x] /\ BucketOf(x, L) \in 0 .. L - 1
      BY <1>1, <1>2, <1>3, <2>2, <3>1
    <3>3. b2[BucketOf(x, L)] # next[x]
      BY <1>4, <3>2
    <3> QED BY <3>1, <3>3
  <2> QED BY <2>1, <2>2
<1>9. \A x, y \in P2 : next2[x] = next2[y] /\ next2[x] # NoKey => x = y
  <2>1. \A x, y \in P : next2[x] = next2[y] /\ next2[x] # NoKey => x = y
    BY <1>1, <1>5
  <2>2. \A x \in P : next2[x] # NoKey => next2[x] # b[i]
    <3> SUFFICES ASSUME NEW x \in P, next[x] # NoKey, next[x] = b[i] PROVE FALSE
      BY <1>5
    <3>1. BucketOf(b[i], L) = i /\ BucketOf(next[x], L) = BucketOf(x, L)
      BY <1>1, <1>3
    <3>2. b[BucketOf(x, L)] # next[x]
      BY <1>1
    <3> QED BY <3>1, <3>2
  <2> QED BY <1>4, <2>1, <2>2
<1>10. \A x \in P2 : b2[BucketOf(x, L)] = x \/ \E p \in P2 : next2[p] = x
  <2> SUFFICES ASSUME NEW x \in P PROVE b2[BucketOf(x, L)] = x \/ \E p \in P2 : next2[p] = x
    BY <1>4 DEF i
  <2>1. CASE b[BucketOf(x, L)] = x /\ BucketOf(x, L) = i
    <3>1. next2[k] = x
      BY <1>4, <2>1
    <3> QED BY <3>1
  <2>2. CASE b[BucketOf(x, L)] = x /\ BucketOf(x, L) # i
    <3>1. BucketOf(x, L) \in 0 .. L - 1
      BY <1>1, <1>2
    <3> QED BY <1>4, <2>2, <3>1
  <2>3. CASE b[BucketOf(x, L)] # x
    <3>1. PICK p \in P : next[p] = x
      BY <1>1, <2>3
    <3> QED BY <1>5, <3>1
  <2> QED BY <2>1, <2>2, <2>3
<1>11. Linked(b2, L, next2, P2, rank2)
  <2>1. P2 \subseteq HKeys
    BY <1>1, <1>3
  <2> QED BY <1>1, <1>4, <1>7, <1>8, <1>9, <1>10, <2>1 DEF Linked, IsArray
<1>12. Higher(k, P, L, rank, rank2)
  BY <1>5, <1>6 DEF Higher, i
<1> QED BY <1>11, <1>12 DEF b2, next2, i

\* An entry at the end of its bucket, where hmap_rehash puts it.
AtEnd(k, i, b, next, b2, next2) ==
  LET dest == EntriesFrom(b[i], next)
  IN  /\ b2 = IF dest = <<>> THEN [b EXCEPT ![i] = k] ELSE b
      /\ next2 = [x \in HKeys |-> IF x = k THEN NoKey
                                  ELSE IF dest # <<>> /\ x = dest[Len(dest)] THEN k
                                  ELSE next[x]]

LEMMA PutAtEnd ==
  ASSUME NEW b, NEW L, NEW next, NEW P, NEW rank, Linked(b, L, next, P, rank),
         NEW k \in HKeys \ P, NEW b2, NEW next2, AtEnd(k, BucketOf(k, L), b, next, b2, next2)
  PROVE  /\ \E rank2 : Linked(b2, L, next2, P \cup {k}, rank2)
         /\ next2 \in [HKeys -> Entries]
         /\ \A x \in HKeys \ (P \cup {k}) : next2[x] = next[x]
<1> DEFINE i == BucketOf(k, L)
           dest == EntriesFrom(b[i], next)
           end == dest[Len(dest)]
           rank2 == [x \in HKeys |-> IF x = k THEN 0 ELSE rank[x] + 1]
           P2 == P \cup {k}
<1>1. /\ L \in Nat \ {0} /\ b \in [0 .. L - 1 -> Entries] /\ P \subseteq HKeys /\ NoKey \notin HKeys
      /\ next \in [HKeys -> Entries] /\ rank \in [HKeys -> Nat]
      /\ \A j \in 0 .. L - 1 : b[j] # NoKey => b[j] \in P /\ BucketOf(b[j], L) = j
      /\ \A x \in P : next[x] # NoKey =>
           /\ next[x] \in P /\ BucketOf(next[x], L) = BucketOf(x, L)
           /\ rank[next[x]] < rank[x] /\ b[BucketOf(x, L)] # next[x]
      /\ \A x, y \in P : next[x] = next[y] /\ next[x] # NoKey => x = y
      /\ \A x \in P : b[BucketOf(x, L)] = x \/ \E p \in P : next[p] = x
  BY KeysAre DEF Linked, IsArray
<1>2. \A x \in HKeys : BucketOf(x, L) \in 0 .. L - 1
  BY <1>1, BucketInRange
<1>3. k \in HKeys /\ k \notin P /\ i \in 0 .. L - 1
  BY <1>2
<1>4. /\ dest = <<>> <=> b[i] = NoKey
      /\ Range(dest) = {x \in P : BucketOf(x, L) = i}
      /\ b[i] # NoKey => Chain(dest, next, P, b[i], L)
  BY <1>3, BucketHolds
<1>5. /\ b2 = IF dest = <<>> THEN [b EXCEPT ![i] = k] ELSE b
      /\ next2 = [x \in HKeys |-> IF x = k THEN NoKey
                                  ELSE IF dest # <<>> /\ x = end THEN k ELSE next[x]]
  BY DEF AtEnd
<1> HIDE DEF dest, i
<1>6. b[i] # NoKey => end \in P /\ BucketOf(end, L) = i /\ next[end] = NoKey /\ end # k
  <2> SUFFICES ASSUME b[i] # NoKey
               PROVE  end \in P /\ BucketOf(end, L) = i /\ next[end] = NoKey /\ end # k
    OBVIOUS
  <2>1. Len(dest) \in 1 .. Len(dest) /\ dest \in Seq(P)
    BY <1>4 DEF Chain
  <2>2. end \in P /\ BucketOf(end, L) = BucketOf(b[i], L) /\ next[end] = NoKey
    BY <1>4, <2>1 DEF Chain
  <2> QED BY <1>1, <1>3, <2>2
<1>7. \A x \in P : BucketOf(x, L) = i /\ next[x] = NoKey => b[i] # NoKey /\ x = end
  <2> SUFFICES ASSUME NEW x \in P, BucketOf(x, L) = i, next[x] = NoKey
               PROVE  b[i] # NoKey /\ x = end
    OBVIOUS
  <2>1. x \in Range(dest)
    BY <1>4
  <2>2. b[i] # NoKey
    BY <2>1, <1>4 DEF Range
  <2>3. PICK j \in DOMAIN dest : dest[j] = x
    BY <2>1 DEF Range
  <2>4. DOMAIN dest = 1 .. Len(dest) /\ Len(dest) \in Nat /\ dest \in Seq(P)
    BY <1>4, <2>2 DEF Chain
  <2>5. j # Len(dest) => next[x] = dest[j + 1] /\ dest[j + 1] \in P
    <3>1. j \in 1 .. Len(dest) /\ next[dest[j]] = (IF j = Len(dest) THEN NoKey ELSE dest[j + 1])
      BY <1>4, <2>2, <2>3, <2>4 DEF Chain
    <3>2. j # Len(dest) => j + 1 \in 1 .. Len(dest)
      BY <2>4, <3>1
    <3>3. \A l \in 1 .. Len(dest) : dest[l] \in P
      BY <2>4
    <3> QED BY <2>3, <3>1, <3>2, <3>3
  <2> QED BY <1>1, <2>2, <2>3, <2>5
<1> HIDE DEF end
<1>8. /\ b2 \in [0 .. L - 1 -> Entries] /\ \A j \in 0 .. L - 1 : j # i => b2[j] = b[j]
      /\ b2[i] = IF b[i] = NoKey THEN k ELSE b[i]
  <2>1. b2 = IF b[i] = NoKey THEN [b EXCEPT ![i] = k] ELSE b
    BY <1>4, <1>5
  <2>2. k \in Entries
    BY <1>3 DEF Entries
  <2>3. CASE b[i] = NoKey
    BY <1>1, <1>3, <2>1, <2>2, <2>3
  <2>4. CASE b[i] # NoKey
    BY <1>1, <2>1, <2>4
  <2> QED BY <2>3, <2>4
<1>9. /\ next2 \in [HKeys -> Entries] /\ next2[k] = NoKey
      /\ \A x \in HKeys : x # k => next2[x] = IF b[i] # NoKey /\ x = end THEN k ELSE next[x]
  BY <1>1, <1>3, <1>4, <1>5 DEF Entries
<1>10. \A x \in HKeys \ P2 : next2[x] = next[x]
  BY <1>6, <1>9
<1>11. rank2 \in [HKeys -> Nat] /\ rank2[k] = 0 /\ \A x \in P : rank2[x] = rank[x] + 1
  BY <1>1, <1>3
<1> HIDE DEF rank2
<1>12. \A x \in P : x # k /\ x \in HKeys
  BY <1>1, <1>3
<1>13. \A j \in 0 .. L - 1 : b2[j] # NoKey => b2[j] \in P2 /\ BucketOf(b2[j], L) = j
  BY <1>1, <1>8 DEF i
<1>14. \A x \in P2 : next2[x] # NoKey =>
           /\ next2[x] \in P2 /\ BucketOf(next2[x], L) = BucketOf(x, L)
           /\ rank2[next2[x]] < rank2[x] /\ b2[BucketOf(x, L)] # next2[x]
  <2> SUFFICES ASSUME NEW x \in P, next2[x] # NoKey
               PROVE  /\ next2[x] \in P2 /\ BucketOf(next2[x], L) = BucketOf(x, L)
                      /\ rank2[next2[x]] < rank2[x] /\ b2[BucketOf(x, L)] # next2[x]
    BY <1>9
  <2>0. rank[x] \in Nat
    BY <1>1
  <2>1. CASE b[i] # NoKey /\ x = end
    <3>1. next2[x] = k /\ BucketOf(x, L) = i
      BY <1>6, <1>9, <1>12, <2>1
    <3>2. b2[i] # k
      BY <1>1, <1>3, <1>8, <2>1
    <3> QED BY <1>11, <2>0, <3>1, <3>2 DEF i
  <2>2. CASE ~(b[i] # NoKey /\ x = end)
    <3>1. next2[x] = next[x] /\ next[x] \in P /\ rank[next[x]] < rank[x]
          /\ BucketOf(next[x], L) = BucketOf(x, L) /\ b[BucketOf(x, L)] # next[x]
      BY <1>1, <1>9, <1>12, <2>2
    <3>2. BucketOf(x, L) \in 0 .. L - 1 /\ next[x] # k /\ rank[next[x]] \in Nat
      BY <1>1, <1>2, <1>12, <3>1
    <3>3. b2[BucketOf(x, L)] # next[x]
      BY <1>8, <3>1, <3>2
    <3> QED BY <1>11, <2>0, <3>1, <3>2, <3>3
  <2> QED BY <2>1, <2>2
<1>15. \A x, y \in P2 : next2[x] = next2[y] /\ next2[x] # NoKey => x = y
  <2> SUFFICES ASSUME NEW x \in P, NEW y \in P, next2[x] = next2[y], next2[x] # NoKey
               PROVE  x = y
    BY <1>9
  <2>1. next[x] # k /\ next[y] # k
    BY <1>1, <1>3
  <2> QED BY <1>1, <1>9, <1>12, <2>1
<1>16. \A x \in P2 : b2[BucketOf(x, L)] = x \/ \E p \in P2 : next2[p] = x
  <2>1. b2[i] = k \/ \E p \in P2 : next2[p] = k
    <3>1. CASE b[i] # NoKey
      <4>1. end \in P2 /\ next2[end] = k
        BY <1>6, <1>9, <1>12, <3>1
      <4> QED BY <4>1
    <3> QED BY <1>8, <3>1
  <2>2. ASSUME NEW x \in P PROVE b2[BucketOf(x, L)] = x \/ \E p \in P2 : next2[p] = x
    <3>1. CASE b[BucketOf(x, L)] = x
      <4>1. BucketOf(x, L) \in 0 .. L - 1 /\ x # NoKey
        BY <1>1, <1>2
      <4> QED BY <1>8, <3>1, <4>1
    <3>2. CASE b[BucketOf(x, L)] # x
      <4>1. PICK p \in P : next[p] = x
        BY <1>1, <3>2
      <4>2. x # NoKey /\ (b[i] # NoKey => p # end)
        BY <1>1, <1>6, <4>1
      <4>3. next2[p] = x
        BY <1>9, <1>12, <4>1, <4>2
      <4> QED BY <4>3
    <3> QED BY <3>1, <3>2
  <2> QED BY <2>1, <2>2 DEF i
<1>17. Linked(b2, L, next2, P2, rank2)
  <2>1. P2 \subseteq HKeys
    BY <1>1, <1>3
  <2> QED BY <1>1, <1>8, <1>9, <1>11, <1>13, <1>14, <1>15, <1>16, <2>1 DEF Linked, IsArray
<1> QED BY <1>9, <1>10, <1>17

\* An entry that is taken out.
Out(k, b, next, b2, next2) ==
  b2 = Unlinked(k, b, next).buckets /\ next2 = Unlinked(k, b, next).next

OthersKept(k, b, L, next, P, b2, next2) ==
  /\ next2[k] = NoKey
  /\ \A j \in 0 .. L - 1 : j # BucketOf(k, L) => b2[j] = b[j]
  /\ \A x \in HKeys : x # k /\ (x \in P => next[x] # k) => next2[x] = next[x]

LEMMA TakeOut ==
  ASSUME NEW b, NEW L, NEW next, NEW P, NEW rank, Linked(b, L, next, P, rank), NEW k \in P,
         NEW b2, NEW next2, Out(k, b, next, b2, next2)
  PROVE  /\ Linked(b2, L, next2, P \ {k}, rank)
         /\ OthersKept(k, b, L, next, P, b2, next2)
<1> DEFINE i == BucketOf(k, L)
           in == EntriesFrom(b[i], next)
           p == CHOOSE p \in 1 .. Len(in) : in[p] = k
           P2 == P \ {k}
<1>1. /\ L \in Nat \ {0} /\ b \in [0 .. L - 1 -> Entries] /\ P \subseteq HKeys /\ NoKey \notin HKeys
      /\ next \in [HKeys -> Entries] /\ rank \in [HKeys -> Nat] /\ IsArray(b, L)
      /\ \A j \in 0 .. L - 1 : b[j] # NoKey => b[j] \in P /\ BucketOf(b[j], L) = j
      /\ \A x \in P : next[x] # NoKey =>
           /\ next[x] \in P /\ BucketOf(next[x], L) = BucketOf(x, L)
           /\ rank[next[x]] < rank[x] /\ b[BucketOf(x, L)] # next[x]
      /\ \A x, y \in P : next[x] = next[y] /\ next[x] # NoKey => x = y
      /\ \A x \in P : b[BucketOf(x, L)] = x \/ \E y \in P : next[y] = x
  BY KeysAre DEF Linked, IsArray
<1>2. \A x \in HKeys : BucketOf(x, L) \in 0 .. L - 1
  BY <1>1, BucketInRange
<1>3. k \in HKeys /\ k # NoKey /\ i \in 0 .. L - 1
  BY <1>1, <1>2
<1>4. b[i] # NoKey
  BY RankOrder
<1>5. Chain(in, next, P, b[i], L) /\ k \in Range(in)
  BY <1>3, <1>4, BucketHolds
<1>6. /\ p = 1 => b2 = [b EXCEPT ![i] = next[k]] /\ next2 = [next EXCEPT ![k] = NoKey]
      /\ p # 1 => b2 = b /\ next2 = [next EXCEPT ![in[p - 1]] = next[k], ![k] = NoKey]
  <2>1. hmap_hash(b, k) = i
    BY <1>1, <1>3, HashIsBucket
  <2> QED BY <2>1 DEF Out, Unlinked
<1> HIDE DEF in, i
<1>7. /\ in \in Seq(P) /\ Len(in) \in Nat /\ in[1] = b[i]
      /\ \A j \in 1 .. Len(in) : next[in[j]] = IF j = Len(in) THEN NoKey ELSE in[j + 1]
  BY <1>5 DEF Chain
<1>8. p \in 1 .. Len(in) /\ in[p] = k
  <2>1. \E j \in 1 .. Len(in) : in[j] = k
    BY <1>5, <1>7 DEF Range
  <2> QED BY <2>1
<1> HIDE DEF p
<1>9. CASE p = 1
  <2>1. b[i] = k
    BY <1>7, <1>8, <1>9
  <2>2. b2 = [b EXCEPT ![i] = next[k]] /\ next2 = [next EXCEPT ![k] = NoKey]
    BY <1>6, <1>9
  <2>3. /\ b2 \in [0 .. L - 1 -> Entries] /\ b2[i] = next[k]
        /\ \A j \in 0 .. L - 1 : j # i => b2[j] = b[j]
        /\ next2 \in [HKeys -> Entries] /\ next2[k] = NoKey
        /\ \A x \in HKeys : x # k => next2[x] = next[x]
    BY <1>1, <1>3, <2>2 DEF Entries
  <2>4. \A x \in P : next[x] # k
    <3> SUFFICES ASSUME NEW x \in P, next[x] = k PROVE FALSE
      OBVIOUS
    <3>1. BucketOf(k, L) = BucketOf(x, L) /\ b[BucketOf(x, L)] # k
      BY <1>1, <1>3
    <3> QED BY <2>1, <3>1 DEF i
  <2>5. \A x \in P2 : x \in P /\ x # k /\ x \in HKeys /\ next2[x] = next[x] /\ next[x] # k
    BY <1>1, <2>3, <2>4
  <2>6. next[k] # NoKey => next[k] \in P2 /\ BucketOf(next[k], L) = i
    BY <1>1, <2>4 DEF i
  <2>7. \A j \in 0 .. L - 1 : b2[j] # NoKey => b2[j] \in P2 /\ BucketOf(b2[j], L) = j
    <3>1. \A j \in 0 .. L - 1 : j # i /\ b[j] # NoKey => b[j] \in P2 /\ BucketOf(b[j], L) = j
      BY <1>1 DEF i
    <3> QED BY <2>3, <2>6, <3>1
  <2>8. \A x \in P2 : next2[x] # NoKey =>
             /\ next2[x] \in P2 /\ BucketOf(next2[x], L) = BucketOf(x, L)
             /\ rank[next2[x]] < rank[x] /\ b2[BucketOf(x, L)] # next2[x]
    <3> SUFFICES ASSUME NEW x \in P2, next[x] # NoKey
                 PROVE  /\ next[x] \in P2 /\ BucketOf(next[x], L) = BucketOf(x, L)
                        /\ rank[next[x]] < rank[x] /\ b2[BucketOf(x, L)] # next[x]
      BY <2>5
    <3>1. /\ next[x] \in P2 /\ BucketOf(next[x], L) = BucketOf(x, L)
          /\ rank[next[x]] < rank[x] /\ b[BucketOf(x, L)] # next[x]
      BY <1>1, <2>5
    <3>2. next[x] # next[k]
      BY <1>1, <2>5
    <3>3. BucketOf(x, L) \in 0 .. L - 1
      BY <1>2, <2>5
    <3> QED BY <2>3, <3>1, <3>2, <3>3
  <2>9. \A x, y \in P2 : next2[x] = next2[y] /\ next2[x] # NoKey => x = y
    BY <1>1, <2>5
  <2>10. \A x \in P2 : b2[BucketOf(x, L)] = x \/ \E y \in P2 : next2[y] = x
    <3> SUFFICES ASSUME NEW x \in P2 PROVE b2[BucketOf(x, L)] = x \/ \E y \in P2 : next2[y] = x
      OBVIOUS
    <3>1. BucketOf(x, L) \in 0 .. L - 1 /\ x # NoKey
      BY <1>1, <1>2, <2>5
    <3>2. CASE b[BucketOf(x, L)] = x
      <4>1. BucketOf(x, L) # i
        BY <2>1, <2>5, <3>2
      <4> QED BY <2>3, <3>1, <3>2, <4>1
    <3>3. CASE b[BucketOf(x, L)] # x
      <4>1. PICK y \in P : next[y] = x
        BY <1>1, <2>5, <3>3
      <4>2. CASE y = k
        <5>1. BucketOf(x, L) = i
          BY <2>6, <3>1, <4>1, <4>2
        <5> QED BY <2>3, <4>1, <4>2, <5>1
      <4>3. CASE y # k
        BY <2>5, <4>1, <4>3
      <4> QED BY <4>2, <4>3
    <3> QED BY <3>2, <3>3
  <2>11. Linked(b2, L, next2, P2, rank)
    <3>1. P2 \subseteq HKeys
      BY <1>1
    <3> QED BY <1>1, <2>3, <2>7, <2>8, <2>9, <2>10, <3>1 DEF Linked, IsArray
  <2> QED BY <2>3, <2>11 DEF i, OthersKept
<1>10. CASE p # 1
  <2> DEFINE q == in[p - 1]
  <2>1. q \in P /\ next[q] = k
    <3>1. p - 1 \in 1 .. Len(in) /\ p - 1 # Len(in) /\ (p - 1) + 1 = p
      BY <1>7, <1>8, <1>10
    <3> QED BY <1>7, <1>8, <3>1
  <2>2. q # k
    <3>1. rank[k] < rank[q] /\ rank[k] \in Nat
      BY <1>1, <1>3, <2>1
    <3> QED BY <3>1
  <2>3. BucketOf(q, L) = i /\ b[i] # k
    BY <1>1, <1>3, <2>1 DEF i
  <2>4. b2 = b /\ next2 = [next EXCEPT ![q] = next[k], ![k] = NoKey]
    BY <1>6, <1>10
  <2> HIDE DEF q
  <2>5. /\ b2 = b /\ next2 \in [HKeys -> Entries] /\ next2[k] = NoKey /\ next2[q] = next[k]
        /\ \A x \in HKeys : x # k /\ x # q => next2[x] = next[x]
    BY <1>1, <1>3, <2>1, <2>2, <2>4 DEF Entries
  <2>6. \A x \in P : next[x] = k => x = q
    BY <1>1, <1>3, <2>1
  <2>7. \A x \in P2 : x \in P /\ x # k /\ x \in HKeys
                      /\ next2[x] = (IF x = q THEN next[k] ELSE next[x])
                      /\ (x # q => next[x] # k)
    BY <1>1, <2>5, <2>6
  <2>8. next[k] # NoKey => next[k] \in P2 /\ BucketOf(next[k], L) = i /\ rank[next[k]] < rank[k]
                           /\ b[i] # next[k]
    <3>1. next[k] # NoKey => rank[next[k]] < rank[k] /\ rank[k] \in Nat /\ next[k] \in P
                             /\ BucketOf(next[k], L) = i /\ b[i] # next[k]
      BY <1>1, <1>3 DEF i
    <3> QED BY <3>1
  <2>9. \A j \in 0 .. L - 1 : b2[j] # NoKey => b2[j] \in P2 /\ BucketOf(b2[j], L) = j
    <3>1. \A j \in 0 .. L - 1 : b[j] # k
      BY <1>1, <1>3, <2>3 DEF i
    <3> QED BY <1>1, <2>5, <3>1
  <2>10. \A x \in P2 : next2[x] # NoKey =>
             /\ next2[x] \in P2 /\ BucketOf(next2[x], L) = BucketOf(x, L)
             /\ rank[next2[x]] < rank[x] /\ b2[BucketOf(x, L)] # next2[x]
    <3> SUFFICES ASSUME NEW x \in P2, next2[x] # NoKey
                 PROVE  /\ next2[x] \in P2 /\ BucketOf(next2[x], L) = BucketOf(x, L)
                        /\ rank[next2[x]] < rank[x] /\ b2[BucketOf(x, L)] # next2[x]
      OBVIOUS
    <3>1. CASE x = q
      <4>1. rank[k] < rank[q] /\ rank[k] \in Nat /\ rank[q] \in Nat
            /\ next2[x] = next[k]
        BY <1>1, <1>3, <2>1, <2>7, <3>1
      <4>2. rank[next[k]] \in Nat
        BY <1>1, <2>8, <4>1
      <4> QED BY <2>3, <2>5, <2>8, <3>1, <4>1, <4>2
    <3>2. CASE x # q
      <4>1. next2[x] = next[x] /\ next[x] # k /\ x \in P
        BY <2>7, <3>2
      <4> QED BY <1>1, <2>5, <4>1
    <3> QED BY <3>1, <3>2
  <2>11. \A x, y \in P2 : next2[x] = next2[y] /\ next2[x] # NoKey => x = y
    <3> SUFFICES ASSUME NEW x \in P2, NEW y \in P2, next2[x] = next2[y], next2[x] # NoKey, x # y
                 PROVE  FALSE
      OBVIOUS
    <3>1. x # q /\ y # q => FALSE
      BY <1>1, <2>7
    <3>2. \A z \in P2 : z # q /\ next2[z] = next[k] => next[k] = NoKey
      BY <1>1, <2>7
    <3> QED BY <2>7, <3>1, <3>2
  <2>12. \A x \in P2 : b2[BucketOf(x, L)] = x \/ \E y \in P2 : next2[y] = x
    <3> SUFFICES ASSUME NEW x \in P2, b[BucketOf(x, L)] # x PROVE \E y \in P2 : next2[y] = x
      BY <2>5
    <3>1. PICK y \in P : next[y] = x
      BY <1>1, <2>7
    <3>2. CASE y = k
      <4>1. q \in P2 /\ next2[q] = x
        BY <2>1, <2>2, <2>5, <3>1, <3>2
      <4> QED BY <4>1
    <3>3. CASE y # k
      <4>1. y \in P2 /\ y # q
        BY <2>1, <2>7, <3>1, <3>3
      <4> QED BY <2>7, <3>1, <4>1
    <3> QED BY <3>2, <3>3
  <2>13. Linked(b2, L, next2, P2, rank)
    <3>1. P2 \subseteq HKeys
      BY <1>1
    <3> QED BY <1>1, <2>5, <2>9, <2>10, <2>11, <2>12, <3>1 DEF Linked, IsArray
  <2>14. \A x \in HKeys : x # k /\ (x \in P => next[x] # k) => next2[x] = next[x]
    BY <2>1, <2>5
  <2> QED BY <2>5, <2>13, <2>14 DEF OthersKept
<1> QED BY <1>9, <1>10

-----------------------------------------------------------------------------
(***************************************************************************)
(* The loops over all entries, step by step.                               *)
(***************************************************************************)
LEMMA RehashSteps ==
  ASSUME NEW b, NEW next, LoopSteps(b) \in Nat
  PROVE  /\ RehashRun(b, next)[0] = [bucket |-> 0, entry |-> b[0],
                   buckets |-> Array(2 * Length(b) + 1), next |-> next]
         /\ \A i \in 1 .. LoopSteps(b) :
              RehashRun(b, next)[i] = RehashStep(RehashRun(b, next)[i - 1], b)
<1> DEFINE Start == [bucket |-> 0, entry |-> b[0],
                   buckets |-> Array(2 * Length(b) + 1), next |-> next]
           Step(x) == RehashStep(x, b)
           Steps(g, n) == [i \in 0 .. n |-> IF i = 0 THEN Start ELSE Step(g[i - 1])]
           T == {n \in Nat : \E g : g = Steps(g, n)}
<1>1. 0 \in T
  <2> DEFINE g == [i \in 0 .. 0 |-> Start]
  <2>1. g = Steps(g, 0)
    OBVIOUS
  <2> QED BY <2>1
<1>2. ASSUME NEW n \in Nat, n \in T PROVE n + 1 \in T
  <2> HIDE DEF Step, Start
  <2>1. PICK g : g = Steps(g, n)
    BY <1>2
  <2> DEFINE h == [i \in 0 .. n + 1 |-> IF i = n + 1 THEN Step(g[n]) ELSE g[i]]
  <2>2. \A i \in 0 .. n + 1 : h[i] = IF i = 0 THEN Start ELSE Step(h[i - 1])
    <3>1. \A i \in 0 .. n : g[i] = IF i = 0 THEN Start ELSE Step(g[i - 1])
      BY <2>1
    <3>2. \A i \in 0 .. n : h[i] = g[i]
      OBVIOUS
    <3>3. h[n + 1] = Step(g[n]) /\ h[n] = g[n]
      BY <3>2
    <3> HIDE DEF h
    <3> QED BY <3>1, <3>2, <3>3
  <2>3. h = Steps(h, n + 1)
    BY <2>2
  <2> HIDE DEF h
  <2>4. \E f : f = Steps(f, n + 1)
    BY <2>3
  <2> QED BY <2>4
<1> HIDE DEF T
<1>3. LoopSteps(b) \in T
  BY <1>1, <1>2, LoopInduction
<1> DEFINE run == CHOOSE g : g = Steps(g, LoopSteps(b))
<1>4. run = Steps(run, LoopSteps(b))
  BY <1>3 DEF T
<1>5. RehashRun(b, next) = run
  BY DEF RehashRun
<1> HIDE DEF run, Step, Start
<1>6. run[0] = Start /\ \A i \in 1 .. LoopSteps(b) : run[i] = Step(run[i - 1])
  BY <1>4
<1> QED BY <1>5, <1>6 DEF Step, Start

LEMMA ForEachSteps ==
  ASSUME NEW drop, LoopSteps(buckets) \in Nat
  PROVE  /\ ForEachRun(drop)[0] = [bucket |-> 0, entry |-> buckets[0], visited |-> <<>>,
                   buckets |-> buckets, next |-> hnext]
         /\ \A i \in 1 .. LoopSteps(buckets) :
              ForEachRun(drop)[i] = ForEachStep(ForEachRun(drop)[i - 1], drop)
<1> DEFINE Start == [bucket |-> 0, entry |-> buckets[0], visited |-> <<>>,
                   buckets |-> buckets, next |-> hnext]
           Step(x) == ForEachStep(x, drop)
           Steps(g, n) == [i \in 0 .. n |-> IF i = 0 THEN Start ELSE Step(g[i - 1])]
           T == {n \in Nat : \E g : g = Steps(g, n)}
<1>1. 0 \in T
  <2> DEFINE g == [i \in 0 .. 0 |-> Start]
  <2>1. g = Steps(g, 0)
    OBVIOUS
  <2> QED BY <2>1
<1>2. ASSUME NEW n \in Nat, n \in T PROVE n + 1 \in T
  <2> HIDE DEF Step, Start
  <2>1. PICK g : g = Steps(g, n)
    BY <1>2
  <2> DEFINE h == [i \in 0 .. n + 1 |-> IF i = n + 1 THEN Step(g[n]) ELSE g[i]]
  <2>2. \A i \in 0 .. n + 1 : h[i] = IF i = 0 THEN Start ELSE Step(h[i - 1])
    <3>1. \A i \in 0 .. n : g[i] = IF i = 0 THEN Start ELSE Step(g[i - 1])
      BY <2>1
    <3>2. \A i \in 0 .. n : h[i] = g[i]
      OBVIOUS
    <3>3. h[n + 1] = Step(g[n]) /\ h[n] = g[n]
      BY <3>2
    <3> HIDE DEF h
    <3> QED BY <3>1, <3>2, <3>3
  <2>3. h = Steps(h, n + 1)
    BY <2>2
  <2> HIDE DEF h
  <2>4. \E f : f = Steps(f, n + 1)
    BY <2>3
  <2> QED BY <2>4
<1> HIDE DEF T
<1>3. LoopSteps(buckets) \in T
  BY <1>1, <1>2, LoopInduction
<1> DEFINE run == CHOOSE g : g = Steps(g, LoopSteps(buckets))
<1>4. run = Steps(run, LoopSteps(buckets))
  BY <1>3 DEF T
<1>5. ForEachRun(drop) = run
  BY DEF ForEachRun
<1> HIDE DEF run, Step, Start
<1>6. run[0] = Start /\ \A i \in 1 .. LoopSteps(buckets) : run[i] = Step(run[i - 1])
  BY <1>4
<1> QED BY <1>5, <1>6 DEF Step, Start

(***************************************************************************)
(* Where a loop is: the entries that it has still to come to.              *)
(***************************************************************************)
Ahead(s, P, L, rank) ==
  {k \in P : \/ BucketOf(k, L) > s.bucket
             \/ /\ BucketOf(k, L) = s.bucket /\ s.entry # NoKey
                /\ rank[k] <= rank[s.entry]}

InLoop(s, P, L) ==
  /\ s.bucket \in 0 .. L
  /\ s.entry # NoKey => s.entry \in P /\ BucketOf(s.entry, L) = s.bucket

LEMMA LoopStarts ==
  ASSUME NEW b, NEW L, NEW next, NEW P, NEW rank, Linked(b, L, next, P, rank),
         NEW j \in 0 .. L, NEW s, s.bucket = j, s.entry = IF j < L THEN b[j] ELSE NoKey
  PROVE  InLoop(s, P, L) /\ Ahead(s, P, L, rank) = {k \in P : BucketOf(k, L) >= j}
<1>1. /\ P \subseteq HKeys /\ L \in Nat \ {0} /\ rank \in [HKeys -> Nat]
      /\ \A i \in 0 .. L - 1 : b[i] # NoKey => b[i] \in P /\ BucketOf(b[i], L) = i
  BY DEF Linked, IsArray
<1>2. \A k \in P : BucketOf(k, L) \in 0 .. L - 1
  BY <1>1, BucketInRange
<1>3. InLoop(s, P, L)
  <2>1. j < L => j \in 0 .. L - 1
    BY <1>1
  <2> QED BY <1>1, <2>1 DEF InLoop
<1>4. ASSUME NEW k \in P, BucketOf(k, L) = j PROVE s.entry # NoKey /\ rank[k] <= rank[s.entry]
  <2>1. j < L /\ j \in 0 .. L - 1
    BY <1>1, <1>2, <1>4
  <2>2. b[j] # NoKey /\ rank[k] <= rank[b[j]]
    BY <1>4, RankOrder
  <2> QED BY <2>1, <2>2
<1>5. \A k \in P : k \in Ahead(s, P, L, rank) <=> BucketOf(k, L) >= j
  <2> TAKE k \in P
  <2>1. BucketOf(k, L) \in Nat /\ j \in Nat
    BY <1>1, <1>2
  <2> QED BY <1>4, <2>1 DEF Ahead
<1>6. Ahead(s, P, L, rank) \subseteq P
  BY DEF Ahead
<1> QED BY <1>3, <1>5, <1>6

LEMMA LoopNextBucket ==
  ASSUME NEW b, NEW L, NEW next, NEW P, NEW rank, Linked(b, L, next, P, rank),
         NEW s, InLoop(s, P, L), s.bucket # L, s.entry = NoKey,
         NEW t, t.bucket = s.bucket + 1,
         t.entry = IF s.bucket + 1 < L THEN b[s.bucket + 1] ELSE NoKey
  PROVE  InLoop(t, P, L) /\ Ahead(t, P, L, rank) = Ahead(s, P, L, rank)
<1> DEFINE j == s.bucket + 1
<1>1. P \subseteq HKeys /\ L \in Nat \ {0} /\ s.bucket \in 0 .. L
  BY DEF Linked, IsArray, InLoop
<1>2. j \in 0 .. L /\ t.bucket = j /\ t.entry = IF j < L THEN b[j] ELSE NoKey
  BY <1>1
<1> HIDE DEF j
<1>3. InLoop(t, P, L) /\ Ahead(t, P, L, rank) = {k \in P : BucketOf(k, L) >= j}
  BY <1>2, LoopStarts
<1>4. \A k \in P : BucketOf(k, L) \in Nat
  BY <1>1, BucketInRange
<1>5. \A k \in P : k \in Ahead(s, P, L, rank) <=> BucketOf(k, L) >= j
  BY <1>1, <1>4 DEF Ahead, j
<1>6. Ahead(s, P, L, rank) \subseteq P
  BY DEF Ahead
<1> QED BY <1>3, <1>5, <1>6

LEMMA LoopNextEntry ==
  ASSUME NEW b, NEW L, NEW next, NEW P, NEW rank, Linked(b, L, next, P, rank),
         NEW s, InLoop(s, P, L), s.entry # NoKey,
         NEW t, t.bucket = s.bucket, t.entry = next[s.entry]
  PROVE  /\ InLoop(t, P, L) /\ s.bucket # L
         /\ s.entry \in Ahead(s, P, L, rank)
         /\ Ahead(t, P, L, rank) = Ahead(s, P, L, rank) \ {s.entry}
<1> DEFINE e == s.entry
<1>1. /\ P \subseteq HKeys /\ L \in Nat \ {0} /\ rank \in [HKeys -> Nat]
      /\ \A k \in P : next[k] # NoKey => /\ next[k] \in P /\ rank[next[k]] < rank[k]
                                         /\ BucketOf(next[k], L) = BucketOf(k, L)
      /\ s.bucket \in 0 .. L /\ e \in P /\ BucketOf(e, L) = s.bucket
  BY DEF Linked, IsArray, InLoop
<1>2. s.bucket \in 0 .. L - 1 /\ \A k \in P : BucketOf(k, L) \in Nat /\ rank[k] \in Nat
  BY <1>1, BucketInRange
<1>3. InLoop(t, P, L)
  BY <1>1 DEF InLoop
<1>4. e \in Ahead(s, P, L, rank)
  BY <1>1, <1>2 DEF Ahead
<1>5. ASSUME NEW k \in P, BucketOf(k, L) = s.bucket
      PROVE  rank[k] <= rank[e] /\ k # e <=> next[e] # NoKey /\ rank[k] <= rank[next[e]]
  <2>1. rank[k] <= rank[e] /\ k # e => rank[k] < rank[e]
    BY <1>1, <1>2, <1>5, RankOrder
  <2>2. rank[k] < rank[e] => next[e] # NoKey /\ rank[k] <= rank[next[e]]
    BY <1>1, <1>5, RankOrder
  <2>3. next[e] # NoKey /\ rank[k] <= rank[next[e]] => rank[k] < rank[e]
    <3> SUFFICES ASSUME next[e] # NoKey, rank[k] <= rank[next[e]] PROVE rank[k] < rank[e]
      OBVIOUS
    <3>1. rank[next[e]] < rank[e] /\ next[e] \in P
      BY <1>1
    <3>2. rank[next[e]] \in Nat /\ rank[e] \in Nat /\ rank[k] \in Nat
      BY <1>1, <1>2, <3>1
    <3> QED BY <3>1, <3>2
  <2>4. rank[k] < rank[e] => rank[k] <= rank[e] /\ k # e
    BY <1>1, <1>2
  <2> QED BY <2>1, <2>2, <2>3, <2>4
<1>6. \A k \in P : k \in Ahead(t, P, L, rank) <=> k \in Ahead(s, P, L, rank) /\ k # e
  <2> TAKE k \in P
  <2>1. CASE BucketOf(k, L) = s.bucket
    BY <1>1, <1>2, <1>5, <2>1 DEF Ahead
  <2>2. CASE BucketOf(k, L) # s.bucket
    BY <1>1, <2>2 DEF Ahead
  <2> QED BY <2>1, <2>2
<1>7. Ahead(t, P, L, rank) \subseteq P /\ Ahead(s, P, L, rank) \subseteq P
  BY DEF Ahead
<1> QED BY <1>2, <1>3, <1>4, <1>6, <1>7

LEMMA LoopIsOver ==
  ASSUME NEW s, NEW P, NEW L \in Nat \ {0}, NEW rank, P \subseteq HKeys, s.bucket = L
  PROVE  Ahead(s, P, L, rank) = {}
<1>1. \A k \in P : BucketOf(k, L) \in 0 .. L - 1
  BY BucketInRange
<1>2. \A k \in P : ~(BucketOf(k, L) > L) /\ BucketOf(k, L) # L
  BY <1>1
<1> QED BY <1>2 DEF Ahead

-----------------------------------------------------------------------------
(***************************************************************************)
(* hmap_rehash links the same entries into an array of more buckets.       *)
(***************************************************************************)
RehashState(L) ==
  [bucket : Nat, entry : Entries, buckets : [0 .. 2 * L -> Entries], next : [HKeys -> Entries]]

RehashInv(s, n, L, next, P, rank) ==
  /\ s \in RehashState(L) /\ InLoop(s, P, L)
  /\ \E rank2 : Linked(s.buckets, 2 * L + 1, s.next, P \ Ahead(s, P, L, rank), rank2)
  /\ \A k \in Ahead(s, P, L, rank) : s.next[k] = next[k]
  /\ s.bucket = L \/ s.bucket + Cardinality(P \ Ahead(s, P, L, rank)) = n

LEMMA MovedFields ==
  ASSUME NEW s, NEW t, t = Moved(s)
  PROVE  /\ t.bucket = s.bucket /\ t.entry = s.next[s.entry]
         /\ AtEnd(s.entry, hmap_hash(s.buckets, s.entry), s.buckets, s.next, t.buckets, t.next)
         /\ t = [bucket |-> t.bucket, entry |-> t.entry, buckets |-> t.buckets,
                 next |-> t.next]
<1> DEFINE i == hmap_hash(s.buckets, s.entry)
           dest == EntriesFrom(s.buckets[i], s.next)
           bs == IF dest = <<>> THEN [s.buckets EXCEPT ![i] = s.entry] ELSE s.buckets
           nx == [k \in HKeys |-> IF k = s.entry THEN NoKey
                                  ELSE IF dest # <<>> /\ k = dest[Len(dest)] THEN s.entry
                                  ELSE s.next[k]]
<1>1. t = [bucket |-> s.bucket, entry |-> s.next[s.entry], buckets |-> bs, next |-> nx]
  BY DEF Moved
<1>2. AtEnd(s.entry, i, s.buckets, s.next, bs, nx)
  BY DEF AtEnd
<1> HIDE DEF bs, nx, dest, i
<1>3. t.bucket = s.bucket /\ t.entry = s.next[s.entry] /\ t.buckets = bs /\ t.next = nx
  BY <1>1
<1> QED BY <1>1, <1>2, <1>3 DEF i

LEMMA RehashOne ==
  ASSUME NEW b, NEW L, NEW next, NEW P, NEW rank, Linked(b, L, next, P, rank),
         NEW s, NEW n \in Nat, RehashInv(s, n, L, next, P, rank),
         NEW t, t = RehashStep(s, b)
  PROVE  RehashInv(t, n + 1, L, next, P, rank)
<1> DEFINE A(u) == Ahead(u, P, L, rank)
           L2 == 2 * L + 1
<1>1. /\ L \in Nat \ {0} /\ P \subseteq HKeys /\ Length(b) = L /\ NoKey \notin P
      /\ b \in [0 .. L - 1 -> Entries]
  BY LengthOfArray, KeysAre DEF Linked, IsArray
<1>2. /\ s \in RehashState(L) /\ InLoop(s, P, L) /\ s.bucket \in 0 .. L
      /\ \A k \in A(s) : s.next[k] = next[k]
      /\ s.bucket = L \/ s.bucket + Cardinality(P \ A(s)) = n
  BY DEF RehashInv, InLoop
<1>a. InLoop(s, P, L)
  BY <1>2
<1>3. PICK rank2 : Linked(s.buckets, L2, s.next, P \ A(s), rank2)
  BY DEF RehashInv
<1>4. CASE s.bucket = L
  <2>1. t = s
    BY <1>1, <1>4 DEF RehashStep
  <2> QED BY <1>2, <1>3, <1>4, <2>1 DEF RehashInv
<1>5. CASE s.bucket # L /\ s.entry = NoKey
  <2>1. t = NextBucket(s, b)
    BY <1>1, <1>5 DEF RehashStep
  <2>2. /\ t.bucket = s.bucket + 1
        /\ t.entry = IF s.bucket + 1 < L THEN b[s.bucket + 1] ELSE NoKey
        /\ t.buckets = s.buckets /\ t.next = s.next
        /\ t = [s EXCEPT !.bucket = t.bucket, !.entry = t.entry]
    BY <1>1, <1>2, <2>1 DEF NextBucket, RehashState
  <2>3. t \in RehashState(L)
    <3>1. t.bucket \in Nat
      BY <1>1, <1>2, <2>2
    <3>2. s.bucket + 1 < L => s.bucket + 1 \in 0 .. L - 1
      BY <1>1, <1>2
    <3>3. t.entry \in Entries
      BY <1>1, <2>2, <3>2 DEF Entries
    <3> QED BY <1>2, <2>2, <3>1, <3>3 DEF RehashState
  <2>4. InLoop(t, P, L) /\ A(t) = A(s)
    <3>1. /\ t.bucket = s.bucket + 1
          /\ t.entry = IF s.bucket + 1 < L THEN b[s.bucket + 1] ELSE NoKey
      BY <2>2
    <3> QED BY <1>a, <1>5, <3>1, LoopNextBucket
  <2>5. t.bucket = L \/ t.bucket + Cardinality(P \ A(t)) = n + 1
    <3>1. IsFiniteSet(P \ A(s))
      BY <1>1, KeysAre, FS_Subset
    <3>2. Cardinality(P \ A(s)) \in Nat
      BY <3>1, FS_CardinalityType
    <3> QED BY <1>2, <1>5, <2>2, <2>4, <3>2
  <2> QED BY <1>2, <1>3, <2>2, <2>3, <2>4, <2>5 DEF RehashInv
<1>6. CASE s.bucket # L /\ s.entry # NoKey
  <2> DEFINE e == s.entry
  <2>1. t = Moved(s)
    BY <1>1, <1>6 DEF RehashStep
  <2>2. e \in P /\ e \in HKeys /\ e \in A(s)
    <3>1. t.bucket = s.bucket /\ t.entry = s.next[e]
      BY <2>1, MovedFields
    <3>2. e \in P /\ BucketOf(e, L) = s.bucket
      BY <1>a, <1>6 DEF InLoop
    <3>3. rank[e] <= rank[e]
      BY <3>2 DEF Linked
    <3> QED BY <1>1, <1>6, <3>2, <3>3 DEF Ahead
  <2>3. s.next[e] = next[e]
    BY <1>2, <2>2
  <2>4. hmap_hash(s.buckets, e) = BucketOf(e, L2)
    BY <1>3, <2>2, HashIsBucket DEF Linked
  <2>5. AtEnd(e, BucketOf(e, L2), s.buckets, s.next, t.buckets, t.next)
    BY <2>1, <2>4, MovedFields
  <2>6. /\ t.bucket = s.bucket /\ t.entry = next[e]
        /\ t = [bucket |-> t.bucket, entry |-> t.entry, buckets |-> t.buckets, next |-> t.next]
    BY <2>1, <2>3, MovedFields
  <2>7. InLoop(t, P, L) /\ A(t) = A(s) \ {e}
    <3>1. t.bucket = s.bucket /\ t.entry = next[s.entry]
      BY <2>6
    <3> QED BY <1>a, <1>6, <3>1, LoopNextEntry
  <2>8. e \in HKeys \ (P \ A(s)) /\ (P \ A(s)) \cup {e} = P \ A(t)
    BY <2>2, <2>7
  <2>9. /\ \E r : Linked(t.buckets, L2, t.next, (P \ A(s)) \cup {e}, r)
        /\ t.next \in [HKeys -> Entries]
        /\ \A k \in HKeys \ ((P \ A(s)) \cup {e}) : t.next[k] = s.next[k]
    <3> DEFINE M == P \ A(s)
    <3>1. Linked(s.buckets, L2, s.next, M, rank2) /\ e \in HKeys \ M
      BY <1>3, <2>8
    <3> HIDE DEF M
    <3>2. AtEnd(e, BucketOf(e, L2), s.buckets, s.next, t.buckets, t.next)
      BY <2>5
    <3> HIDE DEF e
    <3>3. /\ \E r : Linked(t.buckets, L2, t.next, M \cup {e}, r)
          /\ t.next \in [HKeys -> Entries]
          /\ \A k \in HKeys \ (M \cup {e}) : t.next[k] = s.next[k]
      BY <3>1, <3>2, PutAtEnd
    <3> QED BY <3>3 DEF M
  <2>10. \A k \in A(t) : t.next[k] = next[k]
    <3>1. \A k \in A(t) : k \in HKeys \ (P \ A(t)) /\ k \in A(s)
      BY <1>1, <2>7 DEF Ahead
    <3> QED BY <1>2, <2>8, <2>9, <3>1
  <2>11. t \in RehashState(L)
    <3>1. t.buckets \in [0 .. L2 - 1 -> Entries] /\ L2 - 1 = 2 * L
      BY <1>1, <2>9 DEF Linked, IsArray
    <3>2. t.bucket \in Nat
      BY <1>1, <1>2, <2>6
    <3>3. t.entry \in Entries
      <4>1. next \in [HKeys -> Entries]
        BY DEF Linked
      <4> QED BY <2>2, <2>6, <4>1
    <3> QED BY <2>6, <2>9, <3>1, <3>2, <3>3 DEF RehashState
  <2>12. t.bucket + Cardinality(P \ A(t)) = n + 1
    <3>1. IsFiniteSet(P \ A(s))
      BY <1>1, KeysAre, FS_Subset
    <3>2. Cardinality(P \ A(s)) \in Nat
      BY <3>1, FS_CardinalityType
    <3>3. Cardinality((P \ A(s)) \cup {e}) = Cardinality(P \ A(s)) + 1
      BY <2>8, <3>1, FS_AddElement
    <3>4. Cardinality(P \ A(t)) = Cardinality(P \ A(s)) + 1
      BY <2>8, <3>3
    <3>5. s.bucket + Cardinality(P \ A(s)) = n /\ s.bucket \in Nat
      BY <1>1, <1>2, <1>6
    <3> QED BY <2>6, <3>2, <3>4, <3>5
  <2>13. \E r : Linked(t.buckets, L2, t.next, P \ A(t), r)
    BY <2>8, <2>9
  <2> QED BY <2>7, <2>10, <2>11, <2>12, <2>13 DEF RehashInv
<1> QED BY <1>4, <1>5, <1>6

LEMMA RehashLinks ==
  ASSUME NEW b, NEW L, NEW next, NEW P, NEW rank, Linked(b, L, next, P, rank)
  PROVE  /\ \E rank2 : Linked(Rehash(b, next).buckets, 2 * L + 1, Rehash(b, next).next, P, rank2)
         /\ 2 * L + 1 \in Nat \ {0}
<1> DEFINE run == RehashRun(b, next)
           T == {n \in Nat : n <= LoopSteps(b) => RehashInv(run[n], n, L, next, P, rank)}
<1>1. /\ L \in Nat \ {0} /\ P \subseteq HKeys /\ Length(b) = L /\ next \in [HKeys -> Entries]
      /\ b \in [0 .. L - 1 -> Entries] /\ N \in Nat
  BY LengthOfArray, KeysAre DEF Linked, IsArray
<1>2. LoopSteps(b) = L + N /\ LoopSteps(b) \in Nat
  BY <1>1 DEF LoopSteps, N
<1>3. /\ run[0] = [bucket |-> 0, entry |-> b[0], buckets |-> Array(2 * L + 1), next |-> next]
      /\ \A i \in 1 .. LoopSteps(b) : run[i] = RehashStep(run[i - 1], b)
  BY <1>1, <1>2, RehashSteps
<1> HIDE DEF run
<1>4. 0 \in T
  <2> DEFINE s == run[0]
  <2>1. /\ s.bucket = 0 /\ s.entry = b[0] /\ s.buckets = Array(2 * L + 1) /\ s.next = next
    BY <1>3
  <2>2. 0 \in 0 .. L /\ 0 < L /\ 0 \in 0 .. L - 1 /\ 2 * L + 1 \in Nat \ {0}
    BY <1>1
  <2>3. InLoop(s, P, L) /\ Ahead(s, P, L, rank) = {k \in P : BucketOf(k, L) >= 0}
    BY <2>1, <2>2, LoopStarts
  <2>4. Ahead(s, P, L, rank) = P
    <3>1. \A k \in P : BucketOf(k, L) \in 0 .. L - 1
      BY <1>1, BucketInRange
    <3>2. \A k \in P : BucketOf(k, L) >= 0
      BY <3>1
    <3> QED BY <2>3, <3>2
  <2>5. Linked(Array(2 * L + 1), 2 * L + 1, next, {}, [k \in HKeys |-> 0])
    BY <1>1, <2>2, NothingLinked
  <2>6. s \in RehashState(L)
    <3>1. Array(2 * L + 1) \in [0 .. 2 * L -> Entries]
      <4>1. (2 * L + 1) - 1 = 2 * L
        BY <1>1
      <4> QED BY <2>2, <4>1, NewArray DEF IsArray
    <3>2. b[0] \in Entries
      BY <1>1, <2>2
    <3> QED BY <1>1, <1>3, <3>1, <3>2 DEF RehashState
  <2>7. s.bucket + Cardinality(P \ Ahead(s, P, L, rank)) = 0
    <3>1. P \ Ahead(s, P, L, rank) = {}
      BY <2>4
    <3> QED BY <2>1, <3>1, FS_EmptySet
  <2>8. \E rank2 : Linked(s.buckets, 2 * L + 1, s.next, P \ Ahead(s, P, L, rank), rank2)
    <3>1. P \ Ahead(s, P, L, rank) = {}
      BY <2>4
    <3> QED BY <2>1, <2>5, <3>1
  <2>9. RehashInv(s, 0, L, next, P, rank)
    BY <2>1, <2>3, <2>6, <2>7, <2>8 DEF RehashInv
  <2> QED BY <2>9
<1>5. ASSUME NEW n \in Nat, n \in T PROVE n + 1 \in T
  <2> SUFFICES ASSUME n + 1 <= LoopSteps(b) PROVE RehashInv(run[n + 1], n + 1, L, next, P, rank)
    OBVIOUS
  <2>1. n <= LoopSteps(b) /\ n + 1 \in 1 .. LoopSteps(b) /\ (n + 1) - 1 = n
    BY <1>2
  <2>2. RehashInv(run[n], n, L, next, P, rank)
    BY <1>5, <2>1
  <2>3. run[n + 1] = RehashStep(run[n], b)
    BY <1>3, <2>1
  <2> QED BY <2>2, <2>3, RehashOne
<1> HIDE DEF T
<1>6. \A n \in Nat : n \in T
  BY <1>4, <1>5, LoopInduction
<1> DEFINE end == run[LoopSteps(b)]
<1>7. RehashInv(end, LoopSteps(b), L, next, P, rank) /\ end = Rehash(b, next)
  BY <1>2, <1>6 DEF T, Rehash, run
<1> HIDE DEF end
<1>8. end.bucket = L
  <2> SUFFICES ASSUME end.bucket # L PROVE FALSE
    OBVIOUS
  <2> DEFINE M == P \ Ahead(end, P, L, rank)
  <2>1. end.bucket + Cardinality(M) = L + N /\ end.bucket \in 0 .. L
    BY <1>2, <1>7 DEF RehashInv, InLoop
  <2>2. M \in SUBSET HKeys
    BY <1>1
  <2>3. Cardinality(M) <= N /\ Cardinality(M) \in Nat
    BY <2>2, KeysAre, FS_Subset, FS_CardinalityType DEF N
  <2> HIDE DEF M
  <2> QED BY <1>1, <2>1, <2>3
<1>9. P \ Ahead(end, P, L, rank) = P
  BY <1>1, <1>8, LoopIsOver
<1>10. \E rank2 : Linked(end.buckets, 2 * L + 1, end.next, P, rank2)
  <2>1. \E rank2 : Linked(end.buckets, 2 * L + 1, end.next, P \ Ahead(end, P, L, rank), rank2)
    BY <1>7 DEF RehashInv
  <2> QED BY <1>9, <2>1
<1> QED BY <1>1, <1>7, <1>10

-----------------------------------------------------------------------------
(***************************************************************************)
(* hmap_foreach_* visits each entry once, and what its callback removes on *)
(* the way is taken out of the chains.                                     *)
(***************************************************************************)
ForEachState(L) ==
  [bucket : Nat, entry : Entries, visited : Seq(HKeys), buckets : [0 .. L - 1 -> Entries],
   next : [HKeys -> Entries]]

ForEachInv(s, n, b, L, next, P, rank, drop) ==
  /\ s \in ForEachState(L) /\ InLoop(s, P, L)
  /\ Linked(s.buckets, L, s.next, P \ (drop \ Ahead(s, P, L, rank)), rank)
  /\ \A k \in Ahead(s, P, L, rank) : s.next[k] = next[k]
  /\ \A j \in 0 .. L - 1 : j > s.bucket => s.buckets[j] = b[j]
  /\ \A i, j \in 1 .. Len(s.visited) : s.visited[i] = s.visited[j] => i = j
  /\ {s.visited[j] : j \in 1 .. Len(s.visited)} = P \ Ahead(s, P, L, rank)
  /\ s.bucket = L \/ s.bucket + Len(s.visited) = n

LEMMA VisitedFields ==
  ASSUME NEW s, NEW t, NEW drop, t = Visited(s, drop)
  PROVE  /\ t.bucket = s.bucket /\ t.entry = s.next[s.entry]
         /\ t.visited = Append(s.visited, s.entry)
         /\ s.entry \notin drop => t.buckets = s.buckets /\ t.next = s.next
         /\ s.entry \in drop => /\ t.buckets = Unlinked(s.entry, s.buckets, s.next).buckets
                                /\ t.next = Unlinked(s.entry, s.buckets, s.next).next
         /\ t = [bucket |-> t.bucket, entry |-> t.entry, visited |-> t.visited,
                 buckets |-> t.buckets, next |-> t.next]
<1> DEFINE m == IF s.entry \in drop THEN Unlinked(s.entry, s.buckets, s.next) ELSE s
           seen == Append(s.visited, s.entry)
<1>1. t = [bucket |-> s.bucket, entry |-> s.next[s.entry], visited |-> seen,
           buckets |-> m.buckets, next |-> m.next]
  BY DEF Visited
<1> HIDE DEF m, seen
<1>2. /\ t.bucket = s.bucket /\ t.entry = s.next[s.entry] /\ t.visited = seen
      /\ t.buckets = m.buckets /\ t.next = m.next
  BY <1>1
<1>3. /\ s.entry \notin drop => m = s
      /\ s.entry \in drop => m = Unlinked(s.entry, s.buckets, s.next)
  BY DEF m
<1> QED BY <1>1, <1>2, <1>3 DEF seen

LEMMA OneMoreVisited ==
  ASSUME NEW c \in Seq(HKeys), NEW c2 \in Seq(HKeys), NEW e, Len(c2) = Len(c) + 1,
         c2[Len(c) + 1] = e, \A j \in 1 .. Len(c) : c2[j] = c[j]
  PROVE  {c2[j] : j \in 1 .. Len(c2)} = {c[j] : j \in 1 .. Len(c)} \cup {e}
<1>1. Len(c) \in Nat
  OBVIOUS
<1>2. \A j : j \in 1 .. Len(c2) <=> j \in 1 .. Len(c) \/ j = Len(c) + 1
  BY <1>1
<1> QED BY <1>2

LEMMA ForEachOne ==
  ASSUME NEW b, NEW L, NEW next, NEW P, NEW rank, Linked(b, L, next, P, rank),
         NEW drop \in SUBSET P,
         NEW s, NEW n \in Nat, ForEachInv(s, n, b, L, next, P, rank, drop),
         NEW t, t = ForEachStep(s, drop)
  PROVE  ForEachInv(t, n + 1, b, L, next, P, rank, drop)
<1> DEFINE A(u) == Ahead(u, P, L, rank)
           Q == P \ (drop \ A(s))
<1>1. /\ L \in Nat \ {0} /\ P \subseteq HKeys /\ NoKey \notin P /\ rank \in [HKeys -> Nat]
      /\ b \in [0 .. L - 1 -> Entries] /\ next \in [HKeys -> Entries]
  BY KeysAre DEF Linked, IsArray
<1>2. /\ s \in ForEachState(L) /\ s.bucket \in 0 .. L
      /\ \A k \in A(s) : s.next[k] = next[k]
      /\ \A j \in 0 .. L - 1 : j > s.bucket => s.buckets[j] = b[j]
      /\ \A i, j \in 1 .. Len(s.visited) : s.visited[i] = s.visited[j] => i = j
      /\ {s.visited[j] : j \in 1 .. Len(s.visited)} = P \ A(s)
      /\ s.bucket = L \/ s.bucket + Len(s.visited) = n
      /\ s.visited \in Seq(HKeys) /\ Len(s.visited) \in Nat
  <2>1. s \in ForEachState(L)
    BY DEF ForEachInv
  <2>2. s.visited \in Seq(HKeys)
    BY <2>1 DEF ForEachState
  <2>3. Len(s.visited) \in Nat
    BY <2>2
  <2>4. s.bucket \in 0 .. L
    BY DEF ForEachInv, InLoop
  <2> QED BY <2>1, <2>2, <2>3, <2>4 DEF ForEachInv
<1>a. InLoop(s, P, L) /\ Linked(s.buckets, L, s.next, Q, rank)
  BY DEF ForEachInv
<1>b. Length(s.buckets) = L
  BY <1>a, LengthOfArray DEF Linked
<1>3. CASE s.bucket = L
  <2>1. t = s
    BY <1>b, <1>3 DEF ForEachStep
  <2> QED BY <1>3, <2>1 DEF ForEachInv
<1>4. CASE s.bucket # L /\ s.entry = NoKey
  <2>1. t = NextBucket(s, s.buckets)
    BY <1>b, <1>4 DEF ForEachStep
  <2>2. s.bucket + 1 < L => s.bucket + 1 \in 0 .. L - 1 /\ s.buckets[s.bucket + 1] = b[s.bucket + 1]
    BY <1>1, <1>2
  <2>3. /\ t.bucket = s.bucket + 1
        /\ t.entry = IF s.bucket + 1 < L THEN b[s.bucket + 1] ELSE NoKey
        /\ t.buckets = s.buckets /\ t.next = s.next /\ t.visited = s.visited
        /\ t = [s EXCEPT !.bucket = t.bucket, !.entry = t.entry]
    BY <1>b, <1>2, <2>1, <2>2 DEF NextBucket, ForEachState
  <2>4. t \in ForEachState(L)
    <3>1. t.bucket \in Nat /\ t.entry \in Entries
      BY <1>1, <1>2, <2>2, <2>3 DEF Entries
    <3> QED BY <1>2, <2>3, <3>1 DEF ForEachState
  <2>5. InLoop(t, P, L) /\ A(t) = A(s)
    <3>1. /\ t.bucket = s.bucket + 1
          /\ t.entry = IF s.bucket + 1 < L THEN b[s.bucket + 1] ELSE NoKey
      BY <2>3
    <3> QED BY <1>a, <1>4, <3>1, LoopNextBucket
  <2>6. \A j \in 0 .. L - 1 : j > t.bucket => t.buckets[j] = b[j]
    BY <1>1, <1>2, <2>3
  <2>7. t.bucket + Len(t.visited) = n + 1
    BY <1>2, <1>4, <2>3
  <2> QED BY <1>2, <1>a, <2>3, <2>4, <2>5, <2>6, <2>7 DEF ForEachInv
<1>5. CASE s.bucket # L /\ s.entry # NoKey
  <2> DEFINE e == s.entry
  <2>1. t = Visited(s, drop)
    BY <1>b, <1>5 DEF ForEachStep
  <2>2. e \in P /\ e \in HKeys /\ BucketOf(e, L) = s.bucket /\ e \in A(s)
    <3>1. e \in P /\ BucketOf(e, L) = s.bucket
      BY <1>a, <1>5 DEF InLoop
    <3>2. rank[e] <= rank[e]
      BY <1>1, <3>1
    <3> QED BY <1>1, <1>5, <3>1, <3>2 DEF Ahead
  <2>3. /\ t.bucket = s.bucket /\ t.entry = next[e] /\ t.visited = Append(s.visited, e)
        /\ t = [bucket |-> t.bucket, entry |-> t.entry, visited |-> t.visited,
                buckets |-> t.buckets, next |-> t.next]
    <3>1. /\ t.bucket = s.bucket /\ t.entry = s.next[e] /\ t.visited = Append(s.visited, e)
          /\ t = [bucket |-> t.bucket, entry |-> t.entry, visited |-> t.visited,
                  buckets |-> t.buckets, next |-> t.next]
      BY <2>1, VisitedFields
    <3>2. s.next[e] = next[e]
      BY <1>2, <2>2
    <3> QED BY <3>1, <3>2
  <2>4. InLoop(t, P, L) /\ A(t) = A(s) \ {e}
    <3>1. t.bucket = s.bucket /\ t.entry = next[s.entry]
      BY <2>3
    <3> QED BY <1>a, <1>5, <3>1, LoopNextEntry
  <2>5. /\ Linked(t.buckets, L, t.next, P \ (drop \ A(t)), rank)
        /\ \A k \in A(t) : t.next[k] = next[k]
        /\ \A j \in 0 .. L - 1 : j > t.bucket => t.buckets[j] = b[j]
    <3>1. CASE e \notin drop
      <4>1. t.buckets = s.buckets /\ t.next = s.next
        BY <2>1, <3>1, VisitedFields
      <4>2. P \ (drop \ A(t)) = Q
        BY <2>4, <3>1
      <4> QED BY <1>2, <1>a, <2>3, <2>4, <4>1, <4>2
    <3>2. CASE e \in drop
      <4>1. /\ t.buckets = Unlinked(e, s.buckets, s.next).buckets
            /\ t.next = Unlinked(e, s.buckets, s.next).next
        BY <2>1, <3>2, VisitedFields
      <4>2. P \ (drop \ A(t)) = Q \ {e} /\ e \in Q
        BY <2>2, <2>4, <3>2
      <4>3. /\ Linked(t.buckets, L, t.next, Q \ {e}, rank)
            /\ \A j \in 0 .. L - 1 : j # s.bucket => t.buckets[j] = s.buckets[j]
            /\ \A x \in HKeys : x # e /\ (x \in Q => s.next[x] # e) => t.next[x] = s.next[x]
        <5> DEFINE sb == s.buckets
                   sn == s.next
                   tb == t.buckets
                   tn == t.next
        <5>1. Linked(sb, L, sn, Q, rank) /\ e \in Q
          BY <1>a, <4>2
        <5>2. Out(e, sb, sn, tb, tn)
          BY <4>1 DEF Out
        <5> HIDE DEF Q, e, sb, sn, tb, tn
        <5>3. Linked(tb, L, tn, Q \ {e}, rank) /\ OthersKept(e, sb, L, sn, Q, tb, tn)
          BY <5>1, <5>2, TakeOut
        <5> USE DEF sb, sn, tb, tn
        <5> QED BY <2>2, <5>3 DEF OthersKept
      <4>4. ASSUME NEW k \in A(t) PROVE t.next[k] = next[k]
        <5>1. k \in A(s) /\ k # e /\ k \in P /\ k \in HKeys
          BY <1>1, <2>4 DEF Ahead
        <5>2. s.next[k] = next[k]
          BY <1>2, <5>1
        <5>3. next[k] # e
          <6> SUFFICES ASSUME next[k] = e PROVE FALSE
            OBVIOUS
          <6>1. BucketOf(k, L) = s.bucket /\ rank[e] < rank[k]
            BY <1>1, <1>5, <2>2, <5>1 DEF Linked
          <6>2. rank[k] <= rank[e]
            BY <1>1, <1>2, <5>1, <6>1 DEF Ahead
          <6>3. rank[k] \in Nat /\ rank[e] \in Nat
            BY <1>1, <2>2, <5>1
          <6> QED BY <6>1, <6>2, <6>3
        <5> QED BY <4>3, <5>1, <5>2, <5>3
      <4>5. \A j \in 0 .. L - 1 : j > t.bucket => t.buckets[j] = b[j]
        <5>1. \A j \in 0 .. L - 1 : j > s.bucket => j # s.bucket
          BY <1>1, <1>2
        <5> QED BY <1>2, <2>3, <4>3, <5>1
      <4> QED BY <4>2, <4>3, <4>4, <4>5
    <3> QED BY <3>1, <3>2
  <2>6. /\ Len(t.visited) = Len(s.visited) + 1 /\ t.visited[Len(s.visited) + 1] = e
        /\ \A j \in 1 .. Len(s.visited) : t.visited[j] = s.visited[j]
        /\ t.visited \in Seq(HKeys)
    BY <1>2, <2>2, <2>3
  <2>7. \A j \in 1 .. Len(s.visited) : s.visited[j] # e
    BY <1>2, <2>2
  <2>8. 1 .. Len(t.visited) = 1 .. Len(s.visited) \cup {Len(s.visited) + 1}
    BY <1>2, <2>6
  <2>9. \A i, j \in 1 .. Len(t.visited) : t.visited[i] = t.visited[j] => i = j
    <3> SUFFICES ASSUME NEW i \in 1 .. Len(t.visited), NEW j \in 1 .. Len(t.visited),
                        t.visited[i] = t.visited[j]
                 PROVE  i = j
      OBVIOUS
    <3>1. /\ i \in 1 .. Len(s.visited) \/ i = Len(s.visited) + 1
          /\ j \in 1 .. Len(s.visited) \/ j = Len(s.visited) + 1
      BY <2>8
    <3>2. CASE i \in 1 .. Len(s.visited) /\ j \in 1 .. Len(s.visited)
      BY <1>2, <2>6, <3>2
    <3>3. CASE i = Len(s.visited) + 1 /\ j \in 1 .. Len(s.visited)
      BY <2>6, <2>7, <3>3
    <3>4. CASE i \in 1 .. Len(s.visited) /\ j = Len(s.visited) + 1
      BY <2>6, <2>7, <3>4
    <3> QED BY <3>1, <3>2, <3>3, <3>4
  <2>10. {t.visited[j] : j \in 1 .. Len(t.visited)} = P \ A(t)
    <3>1. {t.visited[j] : j \in 1 .. Len(t.visited)}
          = {s.visited[j] : j \in 1 .. Len(s.visited)} \cup {e}
      <4> DEFINE sv == s.visited
                 tv == t.visited
      <4>1. /\ sv \in Seq(HKeys) /\ tv \in Seq(HKeys) /\ Len(tv) = Len(sv) + 1
            /\ tv[Len(sv) + 1] = e /\ \A j \in 1 .. Len(sv) : tv[j] = sv[j]
        BY <1>2, <2>6
      <4> HIDE DEF e, sv, tv
      <4>2. {tv[j] : j \in 1 .. Len(tv)} = {sv[j] : j \in 1 .. Len(sv)} \cup {e}
        BY <4>1, OneMoreVisited
      <4> QED BY <4>2 DEF sv, tv
    <3>2. (P \ A(s)) \cup {e} = P \ A(t)
      BY <2>2, <2>4
    <3> QED BY <1>2, <3>1, <3>2
  <2>11. t.bucket + Len(t.visited) = n + 1
    BY <1>2, <1>5, <2>3, <2>6
  <2>12. t \in ForEachState(L)
    <3>1. t.buckets \in [0 .. L - 1 -> Entries] /\ t.next \in [HKeys -> Entries]
      BY <2>5 DEF Linked, IsArray
    <3>2. t.bucket \in Nat /\ t.entry \in Entries
      BY <1>1, <1>2, <2>2, <2>3
    <3> QED BY <2>3, <2>6, <3>1, <3>2 DEF ForEachState
  <2> QED BY <2>4, <2>5, <2>9, <2>10, <2>11, <2>12 DEF ForEachInv
<1> QED BY <1>3, <1>4, <1>5

LEMMA ForEachEnds ==
  ASSUME NEW L, NEW P, NEW rank, Linked(buckets, L, hnext, P, rank), NEW drop \in SUBSET P
  PROVE  LET end == ForEachRun(drop)[LoopSteps(buckets)]
         IN  /\ Linked(end.buckets, L, end.next, P \ drop, rank)
             /\ end.visited \in Seq(HKeys) /\ IsInjective(end.visited)
             /\ Range(end.visited) = P
<1> DEFINE run == ForEachRun(drop)
           Inv(s, n) == ForEachInv(s, n, buckets, L, hnext, P, rank, drop)
           T == {n \in Nat : n <= LoopSteps(buckets) => Inv(run[n], n)}
<1>1. /\ L \in Nat \ {0} /\ P \subseteq HKeys /\ Length(buckets) = L
      /\ hnext \in [HKeys -> Entries] /\ buckets \in [0 .. L - 1 -> Entries] /\ N \in Nat
  BY LengthOfArray, KeysAre DEF Linked, IsArray
<1>2. LoopSteps(buckets) = L + N /\ LoopSteps(buckets) \in Nat
  BY <1>1 DEF LoopSteps, N
<1>3. /\ run[0] = [bucket |-> 0, entry |-> buckets[0], visited |-> <<>>,
                   buckets |-> buckets, next |-> hnext]
      /\ \A i \in 1 .. LoopSteps(buckets) : run[i] = ForEachStep(run[i - 1], drop)
  BY <1>2, ForEachSteps
<1> HIDE DEF run
<1>4. 0 \in T
  <2> DEFINE s == run[0]
  <2>1. /\ s.bucket = 0 /\ s.entry = buckets[0] /\ s.visited = <<>>
        /\ s.buckets = buckets /\ s.next = hnext
    BY <1>3
  <2>2. 0 \in 0 .. L /\ 0 < L /\ 0 \in 0 .. L - 1
    BY <1>1
  <2>3. InLoop(s, P, L) /\ Ahead(s, P, L, rank) = {k \in P : BucketOf(k, L) >= 0}
    BY <2>1, <2>2, LoopStarts
  <2>4. Ahead(s, P, L, rank) = P
    <3>1. \A k \in P : BucketOf(k, L) \in 0 .. L - 1
      BY <1>1, BucketInRange
    <3>2. \A k \in P : BucketOf(k, L) >= 0
      BY <3>1
    <3> QED BY <2>3, <3>2
  <2>5. s \in ForEachState(L)
    <3>1. buckets[0] \in Entries /\ <<>> \in Seq(HKeys)
      BY <1>1, <2>2
    <3> QED BY <1>1, <1>3, <3>1 DEF ForEachState
  <2>6. Linked(s.buckets, L, s.next, P \ (drop \ Ahead(s, P, L, rank)), rank)
    <3>1. P \ (drop \ Ahead(s, P, L, rank)) = P
      BY <2>4
    <3> QED BY <2>1, <3>1
  <2>7. /\ Len(s.visited) = 0 /\ 1 .. Len(s.visited) = {}
        /\ P \ Ahead(s, P, L, rank) = {}
    BY <2>1, <2>4
  <2>8. {s.visited[j] : j \in 1 .. Len(s.visited)} = P \ Ahead(s, P, L, rank)
    BY <2>7
  <2>9. Inv(run[0], 0)
    BY <2>1, <2>3, <2>5, <2>6, <2>7, <2>8 DEF ForEachInv
  <2> QED BY <2>9
<1>5. ASSUME NEW n \in Nat, n \in T PROVE n + 1 \in T
  <2> SUFFICES ASSUME n + 1 <= LoopSteps(buckets) PROVE Inv(run[n + 1], n + 1)
    OBVIOUS
  <2>1. n <= LoopSteps(buckets) /\ n + 1 \in 1 .. LoopSteps(buckets) /\ (n + 1) - 1 = n
    BY <1>2
  <2>2. Inv(run[n], n)
    BY <1>5, <2>1
  <2>3. run[n + 1] = ForEachStep(run[n], drop)
    BY <1>3, <2>1
  <2> QED BY <2>2, <2>3, ForEachOne
<1> HIDE DEF T
<1>6. \A n \in Nat : n \in T
  BY <1>4, <1>5, LoopInduction
<1> DEFINE end == run[LoopSteps(buckets)]
<1>7. Inv(end, LoopSteps(buckets))
  BY <1>2, <1>6 DEF T
<1> HIDE DEF end
<1>8. /\ InLoop(end, P, L) /\ Linked(end.buckets, L, end.next, P \ (drop \ Ahead(end, P, L, rank)), rank)
      /\ \A i, j \in 1 .. Len(end.visited) : end.visited[i] = end.visited[j] => i = j
      /\ {end.visited[j] : j \in 1 .. Len(end.visited)} = P \ Ahead(end, P, L, rank)
      /\ end.bucket = L \/ end.bucket + Len(end.visited) = L + N
      /\ end.visited \in Seq(HKeys) /\ Len(end.visited) \in Nat
      /\ DOMAIN end.visited = 1 .. Len(end.visited)
  BY <1>2, <1>7 DEF ForEachInv, ForEachState
<1>9. end.bucket = L
  <2> DEFINE c == end.visited
  <2>1. c \in Injection(1 .. Len(c), HKeys)
    BY <1>8 DEF Injection, IsInjective
  <2>2. Cardinality(1 .. Len(c)) <= N
    BY <2>1, KeysAre, FS_Injection DEF N
  <2>3. Len(c) <= N
    BY <1>8, <2>2, CountTo
  <2> QED BY <1>1, <1>8, <2>3 DEF InLoop
<1>10. Ahead(end, P, L, rank) = {}
  BY <1>1, <1>9, LoopIsOver
<1>11. P \ (drop \ Ahead(end, P, L, rank)) = P \ drop /\ P \ Ahead(end, P, L, rank) = P
  BY <1>10
<1>12. IsInjective(end.visited) /\ Range(end.visited) = P
  BY <1>8, <1>11 DEF IsInjective, Range
<1>13. Linked(end.buckets, L, end.next, P \ drop, rank)
  BY <1>8, <1>11
<1> QED BY <1>8, <1>12, <1>13 DEF end, run

-----------------------------------------------------------------------------
(***************************************************************************)
(* The inductive invariant: the entries with a value are linked, and the   *)
(* iterator stands on one of them, behind the one that it returned last.   *)
(***************************************************************************)
KeysWith(value) == {k \in HKeys : value[k] # NoKey}

\* What the iterator has still to come to.
TodoFrom(b, next, it) ==
  IF it.entry = NoKey THEN {}
  ELSE Range(EntriesFrom(it.entry, next)) \cup EntriesOfBuckets(b, next, it.index + 1)

Place(it) == [bucket |-> it.index, entry |-> it.entry]

GoodIterator(it, P, L, todo) ==
  /\ it \in [index : Nat, entry : Entries, previous_entry : Entries]
  /\ it.entry # NoKey => it.entry \in P /\ BucketOf(it.entry, L) = it.index
  /\ it.previous_entry # NoKey => it.previous_entry \in P \ todo

GoodMap(b, L, size, value, next, rank, it) ==
  /\ value \in [HKeys -> HValues \cup {NoKey}]
  /\ Linked(b, L, next, KeysWith(value), rank)
  /\ size = Cardinality(KeysWith(value)) /\ size <= Threshold(L)
  /\ GoodIterator(it, KeysWith(value), L, TodoFrom(b, next, it))

HMapInv == \E L, rank : GoodMap(buckets, L, hsize, hvalue, hnext, rank, hiterator)

LEMMA NoIteratorGood ==
  ASSUME NEW P, NEW L, NEW b, NEW next
  PROVE  GoodIterator(HNoIterator, P, L, TodoFrom(b, next, HNoIterator))
  BY DEF GoodIterator, HNoIterator, Entries

LEMMA PlaceInLoop ==
  ASSUME NEW it, NEW P, NEW L \in Nat \ {0}, P \subseteq HKeys, NEW todo,
         GoodIterator(it, P, L, todo), it.entry # NoKey
  PROVE  InLoop(Place(it), P, L)
<1>1. it.entry \in P /\ BucketOf(it.entry, L) = it.index
  BY DEF GoodIterator
<1>2. it.index \in 0 .. L - 1
  BY <1>1, BucketInRange
<1> QED BY <1>1, <1>2 DEF InLoop, Place

LEMMA TodoIs ==
  ASSUME NEW b, NEW L, NEW next, NEW P, NEW rank, Linked(b, L, next, P, rank),
         NEW it, it.entry \in P, it.index \in Nat, BucketOf(it.entry, L) = it.index
  PROVE  TodoFrom(b, next, it) = Ahead(Place(it), P, L, rank)
<1>1. P \subseteq HKeys /\ L \in Nat \ {0} /\ it.entry # NoKey
  BY KeysAre DEF Linked, IsArray
<1>2. Range(EntriesFrom(it.entry, next))
      = {k \in P : BucketOf(k, L) = it.index /\ rank[k] <= rank[it.entry]}
  BY FromHolds
<1>3. EntriesOfBuckets(b, next, it.index + 1) = {k \in P : BucketOf(k, L) >= it.index + 1}
  <2>1. it.index + 1 \in Nat
    OBVIOUS
  <2> QED BY <2>1, BucketsHold
<1>4. \A k \in P : BucketOf(k, L) >= it.index + 1 <=> BucketOf(k, L) > it.index
  BY <1>1, BucketInRange
<1>5. Ahead(Place(it), P, L, rank)
      = {k \in P : \/ BucketOf(k, L) > it.index
                   \/ BucketOf(k, L) = it.index /\ rank[k] <= rank[it.entry]}
  BY <1>1 DEF Ahead, Place
<1> QED BY <1>1, <1>2, <1>3, <1>4, <1>5 DEF TodoFrom

LEMMA FoundIs ==
  ASSUME NEW b, NEW L, NEW next, NEW P, NEW rank, Linked(b, L, next, P, rank), NEW k \in HKeys
  PROVE  k \in Range(EntriesFrom(b[hmap_hash(b, k)], next)) <=> k \in P
<1>1. IsArray(b, L) /\ L \in Nat \ {0}
  BY DEF Linked, IsArray
<1>2. hmap_hash(b, k) = BucketOf(k, L) /\ BucketOf(k, L) \in 0 .. L - 1
  BY <1>1, HashIsBucket, BucketInRange
<1>3. Range(EntriesFrom(b[BucketOf(k, L)], next)) = {x \in P : BucketOf(x, L) = BucketOf(k, L)}
  BY <1>2, BucketHolds
<1> QED BY <1>2, <1>3

LEMMA KeysCounted ==
  ASSUME NEW value
  PROVE  /\ KeysWith(value) \subseteq HKeys /\ IsFiniteSet(KeysWith(value))
         /\ Cardinality(KeysWith(value)) \in Nat
<1>1. KeysWith(value) \in SUBSET HKeys
  BY DEF KeysWith
<1>2. IsFiniteSet(KeysWith(value))
  BY <1>1, KeysAre, FS_Subset
<1> QED BY <1>1, <1>2, FS_CardinalityType

\* What a state of the map is, for the steps.
LEMMA StateIs ==
  ASSUME HMapInv
  PROVE  \E L, rank :
           /\ GoodMap(buckets, L, hsize, hvalue, hnext, rank, hiterator)
           /\ Linked(buckets, L, hnext, KeysWith(hvalue), rank)
           /\ L \in Nat \ {0} /\ Length(buckets) = L /\ IsArray(buckets, L)
           /\ hvalue \in [HKeys -> HValues \cup {NoKey}]
           /\ hsize = Cardinality(KeysWith(hvalue)) /\ hsize \in Nat /\ hsize <= Threshold(L)
           /\ GoodIterator(hiterator, KeysWith(hvalue), L, TodoFrom(buckets, hnext, hiterator))
           /\ \A k \in HKeys : /\ Found(k) <=> hvalue[k] # NoKey
                               /\ k \in KeysWith(hvalue) <=> hvalue[k] # NoKey
<1>1. PICK L, rank : GoodMap(buckets, L, hsize, hvalue, hnext, rank, hiterator)
  BY DEF HMapInv
<1>2. /\ Linked(buckets, L, hnext, KeysWith(hvalue), rank)
      /\ hvalue \in [HKeys -> HValues \cup {NoKey}]
      /\ hsize = Cardinality(KeysWith(hvalue)) /\ hsize <= Threshold(L)
      /\ GoodIterator(hiterator, KeysWith(hvalue), L, TodoFrom(buckets, hnext, hiterator))
  BY <1>1 DEF GoodMap
<1>3. L \in Nat \ {0} /\ IsArray(buckets, L)
  BY <1>2 DEF Linked, IsArray
<1>4. Length(buckets) = L
  BY <1>3, LengthOfArray
<1>5. \A k \in HKeys : k \in KeysWith(hvalue) <=> hvalue[k] # NoKey
  BY DEF KeysWith
<1>6. \A k \in HKeys : Found(k) <=> k \in KeysWith(hvalue)
  BY <1>2, FoundIs DEF Found
<1>7. hsize \in Nat
  BY <1>2, KeysCounted
<1> QED BY <1>1, <1>2, <1>3, <1>4, <1>5, <1>6, <1>7

LEMMA InvHolds ==
  ASSUME HMapInv
  PROVE  HMapWellFormed
<1>1. PICK L, rank :
           /\ Linked(buckets, L, hnext, KeysWith(hvalue), rank)
           /\ L \in Nat \ {0} /\ Length(buckets) = L /\ IsArray(buckets, L)
           /\ hsize = Cardinality(KeysWith(hvalue)) /\ hsize <= Threshold(L)
  BY StateIs
<1>2. \A k \in KeysWith(hvalue) : k \in HKeys /\ BucketOf(k, L) \in 0 .. L - 1
  BY <1>1, KeysCounted, BucketInRange
<1>3. EntriesOfBuckets(buckets, hnext, 0) = KeysWith(hvalue)
  <2>1. EntriesOfBuckets(buckets, hnext, 0) = {k \in KeysWith(hvalue) : BucketOf(k, L) >= 0}
    BY <1>1, BucketsHold
  <2>2. \A k \in KeysWith(hvalue) : BucketOf(k, L) >= 0
    BY <1>2
  <2> QED BY <2>1, <2>2
<1>4. ASSUME NEW i \in DOMAIN buckets
      PROVE  LET chain == EntriesFrom(buckets[i], hnext)
             IN  IsInjective(chain) /\ \A k \in Range(chain) : hmap_hash(buckets, k) = i
  <2>1. i \in 0 .. L - 1
    BY <1>1, LengthOfArray
  <2>2. /\ IsInjective(EntriesFrom(buckets[i], hnext))
        /\ Range(EntriesFrom(buckets[i], hnext)) = {k \in KeysWith(hvalue) : BucketOf(k, L) = i}
    BY <1>1, <2>1, BucketHolds
  <2>3. \A k \in KeysWith(hvalue) : hmap_hash(buckets, k) = BucketOf(k, L)
    BY <1>1, <1>2, HashIsBucket
  <2> QED BY <2>2, <2>3
<1> QED BY <1>1, <1>3, <1>4 DEF HMapWellFormed, KeysWith

-----------------------------------------------------------------------------
(***************************************************************************)
(* Each call keeps the invariant, and does what it does to a map.          *)
(***************************************************************************)
Todo == TodoFrom(buckets, hnext, hiterator)

LEMMA ThresholdGrows ==
  ASSUME NEW L \in Nat \ {0}, NEW size \in Nat, size <= Threshold(L)
  PROVE  size + 1 <= Threshold(2 * L + 1)
<1>1. 4 * size <= L * 3
  BY DEF Threshold
<1>2. 4 * (size + 1) <= (2 * L + 1) * 3
  BY <1>1
<1>3. \A x \in Nat : 4 * (size + 1) <= x => size + 1 <= x \div 4
  OBVIOUS
<1>4. (2 * L + 1) * 3 \in Nat
  OBVIOUS
<1> QED BY <1>2, <1>3, <1>4 DEF Threshold

\* A new entry in front of its bucket is not in the way of the iterator, or is
\* still to come.
LEMMA IteratorPassesPut ==
  ASSUME NEW b, NEW L, NEW next, NEW P, NEW rank, Linked(b, L, next, P, rank),
         NEW k \in HKeys \ P, NEW b2, NEW next2, NEW rank2,
         Linked(b2, L, next2, P \cup {k}, rank2),
         Higher(k, P, L, rank, rank2),
         NEW it, GoodIterator(it, P, L, TodoFrom(b, next, it))
  PROVE  /\ TodoFrom(b2, next2, it) \in {TodoFrom(b, next, it), TodoFrom(b, next, it) \cup {k}}
         /\ GoodIterator(it, P \cup {k}, L, TodoFrom(b2, next2, it))
<1> DEFINE todo == TodoFrom(b, next, it)
           todo2 == TodoFrom(b2, next2, it)
<1>1. /\ it \in [index : Nat, entry : Entries, previous_entry : Entries]
      /\ it.entry # NoKey => it.entry \in P /\ BucketOf(it.entry, L) = it.index
      /\ it.previous_entry # NoKey => it.previous_entry \in P \ todo
  BY DEF GoodIterator
<1>2. todo2 \in {todo, todo \cup {k}}
  <2>1. CASE it.entry = NoKey
    BY <2>1 DEF TodoFrom
  <2>2. CASE it.entry # NoKey
    <3>1. it.entry \in P /\ it.entry \in P \cup {k} /\ it.index \in Nat
          /\ BucketOf(it.entry, L) = it.index
      BY <1>1, <2>2
    <3>2. todo = Ahead(Place(it), P, L, rank)
      BY <3>1, TodoIs
    <3>3. todo2 = Ahead(Place(it), P \cup {k}, L, rank2)
      BY <3>1, TodoIs
    <3>4. rank2[k] \in Nat /\ rank2[it.entry] \in Nat /\ it.entry \in HKeys /\ rank2 \in [HKeys -> Nat]
      BY <3>1 DEF Linked
    <3>5. \A x \in P : x \in Ahead(Place(it), P \cup {k}, L, rank2)
                       <=> x \in Ahead(Place(it), P, L, rank)
      BY <3>1, <3>4 DEF Ahead, Place, Higher
    <3>6. /\ Ahead(Place(it), P \cup {k}, L, rank2) \subseteq P \cup {k}
          /\ Ahead(Place(it), P, L, rank) \subseteq P
      BY DEF Ahead
    <3> HIDE DEF todo, todo2
    <3> QED BY <3>2, <3>3, <3>5, <3>6
  <2> QED BY <2>1, <2>2
<1> HIDE DEF todo, todo2
<1>3. GoodIterator(it, P \cup {k}, L, todo2)
  BY <1>1, <1>2 DEF GoodIterator
<1> QED BY <1>2, <1>3 DEF todo, todo2

LEMMA PutNewKeeps ==
  ASSUME HMapInv, NEW k \in HKeys, NEW v \in HValues, PutNew(k, v)
  PROVE  /\ HMapInv'
         /\ hvalue[k] = NoKey
         /\ \/ hiterator' = HNoIterator
            \/ Todo' \in {Todo, Todo \cup {k}} /\ hiterator' = hiterator
<1>1. PICK L, rank :
           /\ Linked(buckets, L, hnext, KeysWith(hvalue), rank)
           /\ L \in Nat \ {0} /\ Length(buckets) = L /\ IsArray(buckets, L)
           /\ hvalue \in [HKeys -> HValues \cup {NoKey}]
           /\ hsize = Cardinality(KeysWith(hvalue)) /\ hsize \in Nat /\ hsize <= Threshold(L)
           /\ GoodIterator(hiterator, KeysWith(hvalue), L, TodoFrom(buckets, hnext, hiterator))
           /\ \A x \in HKeys : /\ Found(x) <=> hvalue[x] # NoKey
                               /\ x \in KeysWith(hvalue) <=> hvalue[x] # NoKey
  BY StateIs
<1> DEFINE P == KeysWith(hvalue)
           grown == hsize + 1 > Threshold(Length(buckets))
           m == IF grown THEN Rehash(buckets, hnext) ELSE [buckets |-> buckets, next |-> hnext]
<1>2. /\ k \in HKeys \ P /\ hvalue[k] = NoKey /\ v # NoKey
      /\ hvalue' = [hvalue EXCEPT ![k] = v] /\ hsize' = hsize + 1
      /\ buckets' = [m.buckets EXCEPT ![hmap_hash(m.buckets, k)] = k]
      /\ hnext' = [m.next EXCEPT ![k] = m.buckets[hmap_hash(m.buckets, k)]]
      /\ hiterator' = IF grown THEN HNoIterator ELSE hiterator
  BY <1>1, KeysAre DEF PutNew
<1>3. KeysWith(hvalue') = P \cup {k} /\ hvalue' \in [HKeys -> HValues \cup {NoKey}]
  BY <1>1, <1>2 DEF KeysWith
<1>4. hsize' = Cardinality(P \cup {k})
  <2>1. IsFiniteSet(P)
    BY KeysCounted
  <2> QED BY <1>1, <1>2, <2>1, FS_AddElement
<1>5. CASE grown
  <2>1. m = Rehash(buckets, hnext) /\ hiterator' = HNoIterator
    BY <1>2, <1>5
  <2> DEFINE L2 == 2 * L + 1
  <2>2. PICK rank2 : Linked(m.buckets, L2, m.next, P, rank2)
    BY <1>1, <2>1, RehashLinks
  <2>3. hmap_hash(m.buckets, k) = BucketOf(k, L2)
    BY <2>2, HashIsBucket DEF Linked
  <2> HIDE DEF m, P, L2
  <2>4. \E r : Linked([m.buckets EXCEPT ![BucketOf(k, L2)] = k], L2,
                      [m.next EXCEPT ![k] = m.buckets[BucketOf(k, L2)]], P \cup {k}, r)
    BY <1>2, <2>2, PutInFront
  <2>5. PICK rank3 : Linked(buckets', L2, hnext', P \cup {k}, rank3)
    BY <1>2, <2>3, <2>4
  <2>6. hsize' <= Threshold(L2)
    BY <1>1, <1>2, ThresholdGrows DEF L2
  <2>7. GoodIterator(hiterator', P \cup {k}, L2, TodoFrom(buckets', hnext', hiterator'))
    BY <2>1, NoIteratorGood
  <2>8. GoodMap(buckets', L2, hsize', hvalue', hnext', rank3, hiterator')
    BY <1>3, <1>4, <2>5, <2>6, <2>7 DEF GoodMap
  <2>9. HMapInv'
    BY <2>8 DEF HMapInv
  <2> QED BY <1>2, <2>1, <2>9
<1>6. CASE ~grown
  <2>1. m.buckets = buckets /\ m.next = hnext /\ hiterator' = hiterator
    BY <1>2, <1>6
  <2>2. hmap_hash(m.buckets, k) = BucketOf(k, L)
    BY <1>1, <2>1, HashIsBucket
  <2> HIDE DEF m, P
  <2>3. Linked(buckets, L, hnext, P, rank)
    BY <1>1 DEF P
  <2>4. \E r : /\ Linked([buckets EXCEPT ![BucketOf(k, L)] = k], L,
                         [hnext EXCEPT ![k] = buckets[BucketOf(k, L)]], P \cup {k}, r)
               /\ Higher(k, P, L, rank, r)
    BY <1>2, <2>3, PutInFront
  <2>5. PICK rank3 : /\ Linked(buckets', L, hnext', P \cup {k}, rank3)
                     /\ Higher(k, P, L, rank, rank3)
    BY <1>2, <2>1, <2>2, <2>4
  <2>6. hsize' <= Threshold(L)
    <3>1. Threshold(L) \in Int
      BY <1>1 DEF Threshold
    <3> QED BY <1>1, <1>2, <1>6, <3>1
  <2>7. /\ TodoFrom(buckets', hnext', hiterator) \in {Todo, Todo \cup {k}}
        /\ GoodIterator(hiterator, P \cup {k}, L, TodoFrom(buckets', hnext', hiterator))
    <3>1. GoodIterator(hiterator, P, L, TodoFrom(buckets, hnext, hiterator))
      BY <1>1 DEF P
    <3>2. Linked(buckets', L, hnext', P \cup {k}, rank3) /\ k \in HKeys \ P
      BY <1>2, <2>5
    <3> QED BY <2>3, <2>5, <3>1, <3>2, IteratorPassesPut DEF Todo
  <2>8. GoodMap(buckets', L, hsize', hvalue', hnext', rank3, hiterator')
    BY <1>3, <1>4, <2>1, <2>5, <2>6, <2>7 DEF GoodMap
  <2>9. HMapInv'
    BY <2>8 DEF HMapInv
  <2>10. Todo' \in {Todo, Todo \cup {k}}
    BY <2>1, <2>7 DEF Todo
  <2> QED BY <1>2, <2>1, <2>9, <2>10
<1> QED BY <1>5, <1>6

\* The map keeps its keys and chains.
LEMMA NothingMoves ==
  ASSUME HMapInv, UNCHANGED <<buckets, hsize, hnext, hiterator>>,
         hvalue' \in [HKeys -> HValues \cup {NoKey}], KeysWith(hvalue') = KeysWith(hvalue)
  PROVE  HMapInv' /\ Todo' = Todo
<1>1. PICK L, rank : GoodMap(buckets, L, hsize, hvalue, hnext, rank, hiterator)
  BY DEF HMapInv
<1>2. GoodMap(buckets', L, hsize', hvalue', hnext', rank, hiterator')
  BY <1>1 DEF GoodMap
<1>3. HMapInv'
  BY <1>2 DEF HMapInv
<1> QED BY <1>3 DEF Todo

LEMMA PutExistingKeeps ==
  ASSUME HMapInv, NEW k \in HKeys, NEW v \in HValues, PutExisting(k, v)
  PROVE  /\ HMapInv' /\ Todo' = Todo
         /\ hvalue[k] # NoKey
<1>1. /\ hvalue \in [HKeys -> HValues \cup {NoKey}]
      /\ \A x \in HKeys : Found(x) <=> hvalue[x] # NoKey
  BY StateIs
<1>2. /\ hvalue[k] # NoKey /\ v # NoKey /\ hvalue' = [hvalue EXCEPT ![k] = v]
      /\ UNCHANGED <<buckets, hsize, hnext, hiterator>>
  BY <1>1, KeysAre DEF PutExisting
<1>3. hvalue' \in [HKeys -> HValues \cup {NoKey}] /\ KeysWith(hvalue') = KeysWith(hvalue)
  BY <1>1, <1>2 DEF KeysWith
<1> QED BY <1>2, <1>3, NothingMoves

\* Entries taken out, which the iterator does not stand on.
LEMMA IteratorPassesRemove ==
  ASSUME NEW b, NEW L, NEW next, NEW P, NEW rank, Linked(b, L, next, P, rank),
         NEW D, NEW b2, NEW next2, Linked(b2, L, next2, P \ D, rank),
         NEW it, GoodIterator(it, P, L, TodoFrom(b, next, it)), it.entry \notin D
  PROVE  TodoFrom(b2, next2, it) = TodoFrom(b, next, it) \ D
<1>1. CASE it.entry = NoKey
  BY <1>1 DEF TodoFrom
<1>2. CASE it.entry # NoKey
  <2>1. it.entry \in P /\ it.entry \in P \ D /\ it.index \in Nat /\ BucketOf(it.entry, L) = it.index
    BY <1>2 DEF GoodIterator
  <2>2. TodoFrom(b, next, it) = Ahead(Place(it), P, L, rank)
    BY <2>1, TodoIs
  <2>3. TodoFrom(b2, next2, it) = Ahead(Place(it), P \ D, L, rank)
    BY <2>1, TodoIs
  <2>4. Ahead(Place(it), P \ D, L, rank) = Ahead(Place(it), P, L, rank) \ D
    BY DEF Ahead
  <2> QED BY <2>2, <2>3, <2>4
<1> QED BY <1>1, <1>2

LEMMA RemoveKeeps ==
  ASSUME HMapInv, NEW k \in HKeys, RemoveFound(k)
  PROVE  /\ HMapInv'
         /\ hvalue[k] # NoKey
         /\ \/ hiterator' = HNoIterator /\ hiterator.previous_entry # k
            \/ /\ Todo' = Todo \ {k} /\ hiterator.previous_entry # k
               /\ hiterator'.previous_entry = hiterator.previous_entry
            \/ /\ Todo' = Todo /\ hiterator.previous_entry = k
               /\ hiterator'.previous_entry = NoKey
<1>1. PICK L, rank :
           /\ Linked(buckets, L, hnext, KeysWith(hvalue), rank)
           /\ L \in Nat \ {0} /\ Length(buckets) = L /\ IsArray(buckets, L)
           /\ hvalue \in [HKeys -> HValues \cup {NoKey}]
           /\ hsize = Cardinality(KeysWith(hvalue)) /\ hsize \in Nat /\ hsize <= Threshold(L)
           /\ GoodIterator(hiterator, KeysWith(hvalue), L, TodoFrom(buckets, hnext, hiterator))
           /\ \A x \in HKeys : /\ Found(x) <=> hvalue[x] # NoKey
                               /\ x \in KeysWith(hvalue) <=> hvalue[x] # NoKey
  BY StateIs
<1> DEFINE P == KeysWith(hvalue)
<1>2. /\ k \in P /\ hvalue[k] # NoKey
      /\ hvalue' = [hvalue EXCEPT ![k] = NoKey] /\ hsize' = hsize - 1
      /\ Out(k, buckets, hnext, buckets', hnext')
      /\ hiterator' = IF hiterator.entry = k THEN HNoIterator
                      ELSE IF hiterator.previous_entry = k
                      THEN [hiterator EXCEPT !.previous_entry = NoKey] ELSE hiterator
  BY <1>1 DEF RemoveFound, Out
<1>3. KeysWith(hvalue') = P \ {k} /\ hvalue' \in [HKeys -> HValues \cup {NoKey}]
  BY <1>1, <1>2 DEF KeysWith
<1>4. hsize' = Cardinality(P \ {k}) /\ hsize' <= Threshold(L)
  <2>1. IsFiniteSet(P)
    BY KeysCounted
  <2>2. Cardinality(P \ {k}) = Cardinality(P) - 1
    BY <1>2, <2>1, FS_RemoveElement
  <2>3. Threshold(L) \in Int
    BY <1>1 DEF Threshold
  <2> QED BY <1>1, <1>2, <2>2, <2>3
<1> HIDE DEF P
<1>5. Linked(buckets, L, hnext, P, rank) /\ GoodIterator(hiterator, P, L, Todo)
  BY <1>1 DEF P, Todo
<1>6. Linked(buckets', L, hnext', P \ {k}, rank)
  BY <1>2, <1>5, TakeOut
<1>7. /\ hiterator \in [index : Nat, entry : Entries, previous_entry : Entries]
      /\ hiterator.entry # NoKey => hiterator.entry \in P /\ BucketOf(hiterator.entry, L) = hiterator.index
      /\ hiterator.previous_entry # NoKey => hiterator.previous_entry \in P \ Todo
  BY <1>5 DEF GoodIterator
<1> DEFINE Passes ==
             \/ hiterator' = HNoIterator /\ hiterator.previous_entry # k
             \/ /\ Todo' = Todo \ {k} /\ hiterator.previous_entry # k
                /\ hiterator'.previous_entry = hiterator.previous_entry
             \/ /\ Todo' = Todo /\ hiterator.previous_entry = k
                /\ hiterator'.previous_entry = NoKey
<1>8. ASSUME hiterator.entry = k PROVE GoodIterator(hiterator', P \ {k}, L, Todo') /\ Passes
  <2>1. hiterator' = HNoIterator
    BY <1>2, <1>8
  <2>2. k \in Todo
    <3>1. k \in HKeys /\ k # NoKey
      BY KeysAre
    <3>2. /\ hiterator.entry \in P /\ BucketOf(hiterator.entry, L) = hiterator.index
          /\ hiterator.index \in Nat
      BY <1>7, <1>8, <3>1
    <3>3. Todo = Ahead(Place(hiterator), P, L, rank)
      BY <1>5, <3>2, TodoIs DEF Todo
    <3>4. rank[k] <= rank[k]
      BY <1>5 DEF Linked
    <3> QED BY <1>2, <1>8, <3>1, <3>2, <3>3, <3>4 DEF Ahead, Place
  <2>3. hiterator.previous_entry # k
    <3>1. k # NoKey
      BY KeysAre
    <3> QED BY <1>7, <2>2, <3>1
  <2>4. GoodIterator(hiterator', P \ {k}, L, Todo')
    BY <2>1, NoIteratorGood DEF Todo
  <2> QED BY <2>1, <2>3, <2>4
<1>9. ASSUME hiterator.entry # k PROVE GoodIterator(hiterator', P \ {k}, L, Todo') /\ Passes
  <2>1. TodoFrom(buckets', hnext', hiterator) = Todo \ {k}
    <3> DEFINE D == {k}
    <3>1. /\ hiterator.entry \notin D /\ Linked(buckets', L, hnext', P \ D, rank)
          /\ GoodIterator(hiterator, P, L, TodoFrom(buckets, hnext, hiterator))
      BY <1>5, <1>6, <1>9 DEF Todo
    <3> HIDE DEF D
    <3>2. TodoFrom(buckets', hnext', hiterator) = TodoFrom(buckets, hnext, hiterator) \ D
      BY <1>5, <3>1, IteratorPassesRemove
    <3> QED BY <3>2 DEF D, Todo
  <2>2. CASE hiterator.previous_entry = k
    <3>1. hiterator' = [hiterator EXCEPT !.previous_entry = NoKey]
      BY <1>2, <1>9, <2>2
    <3>2. k \notin Todo /\ k # NoKey
      BY <1>7, <2>2, KeysAre
    <3>3. /\ hiterator'.entry = hiterator.entry /\ hiterator'.index = hiterator.index
          /\ hiterator'.previous_entry = NoKey
          /\ hiterator' \in [index : Nat, entry : Entries, previous_entry : Entries]
      BY <1>7, <3>1 DEF Entries
    <3>4. Todo' = Todo
      BY <2>1, <3>2, <3>3 DEF Todo, TodoFrom
    <3>5. GoodIterator(hiterator', P \ {k}, L, Todo')
      BY <1>7, <1>9, <3>3 DEF GoodIterator
    <3> QED BY <2>2, <3>3, <3>4, <3>5
  <2>3. CASE hiterator.previous_entry # k
    <3>1. hiterator' = hiterator
      BY <1>2, <1>9, <2>3
    <3>2. Todo' = Todo \ {k}
      BY <2>1, <3>1 DEF Todo
    <3>3. GoodIterator(hiterator', P \ {k}, L, Todo')
      BY <1>7, <1>9, <2>3, <3>1, <3>2 DEF GoodIterator
    <3> QED BY <2>3, <3>1, <3>2, <3>3
  <2> QED BY <2>2, <2>3
<1>10. GoodMap(buckets', L, hsize', hvalue', hnext', rank, hiterator')
  BY <1>3, <1>4, <1>6, <1>8, <1>9 DEF GoodMap, Todo
<1>11. HMapInv'
  BY <1>10 DEF HMapInv
<1> QED BY <1>2, <1>8, <1>9, <1>11

LEMMA ClearKeeps ==
  ASSUME HMapInv, hmap_clear
  PROVE  HMapInv' /\ hvalue' = [k \in HKeys |-> NoKey] /\ hiterator' = HNoIterator
<1>1. PICK L, rank :
           /\ Linked(buckets, L, hnext, KeysWith(hvalue), rank)
           /\ L \in Nat \ {0} /\ Length(buckets) = L
           /\ hvalue \in [HKeys -> HValues \cup {NoKey}]
           /\ \A x \in HKeys : x \in KeysWith(hvalue) <=> hvalue[x] # NoKey
  BY StateIs
<1>2. EntriesOfBuckets(buckets, hnext, 0) = KeysWith(hvalue)
  <2>1. EntriesOfBuckets(buckets, hnext, 0) = {k \in KeysWith(hvalue) : BucketOf(k, L) >= 0}
    BY <1>1, BucketsHold
  <2>2. \A k \in KeysWith(hvalue) : BucketOf(k, L) \in 0 .. L - 1
    BY <1>1, KeysCounted, BucketInRange
  <2>3. \A k \in KeysWith(hvalue) : BucketOf(k, L) >= 0
    BY <2>2
  <2> QED BY <2>1, <2>3
<1>3. /\ buckets' = Array(L) /\ hsize' = 0 /\ hiterator' = HNoIterator
      /\ hvalue' = [k \in HKeys |-> IF k \in KeysWith(hvalue) THEN NoKey ELSE hvalue[k]]
      /\ hnext' = [k \in HKeys |-> IF k \in KeysWith(hvalue) THEN NoKey ELSE hnext[k]]
  BY <1>1, <1>2 DEF hmap_clear
<1>4. hvalue' = [k \in HKeys |-> NoKey]
  BY <1>1, <1>3
<1>5. KeysWith(hvalue') = {} /\ hvalue' \in [HKeys -> HValues \cup {NoKey}]
  BY <1>4 DEF KeysWith
<1>6. hnext' \in [HKeys -> Entries]
  BY <1>1, <1>3 DEF Linked, Entries
<1>7. Linked(buckets', L, hnext', {}, [k \in HKeys |-> 0])
  BY <1>1, <1>3, <1>6, NothingLinked
<1>8. hsize' = Cardinality({}) /\ hsize' <= Threshold(L)
  BY <1>1, <1>3, FS_EmptySet DEF Threshold
<1>9. GoodIterator(hiterator', {}, L, TodoFrom(buckets', hnext', hiterator'))
  BY <1>3, NoIteratorGood
<1>10. GoodMap(buckets', L, hsize', hvalue', hnext', [k \in HKeys |-> 0], hiterator')
  BY <1>5, <1>7, <1>8, <1>9 DEF GoodMap
<1> QED BY <1>3, <1>4, <1>10 DEF HMapInv

LEMMA ForEachKeeps ==
  ASSUME HMapInv, NEW drop \in SUBSET HKeys, hmap_foreach(drop)
  PROVE  /\ HMapInv'
         /\ drop \subseteq KeysWith(hvalue)
         /\ \E visited : /\ HReturns("foreach", drop, visited)
                         /\ IsInjective(visited) /\ Range(visited) = KeysWith(hvalue)
         /\ IF drop = {} THEN Todo' = Todo /\ hiterator' = hiterator
            ELSE hiterator' = HNoIterator
<1>1. PICK L, rank :
           /\ Linked(buckets, L, hnext, KeysWith(hvalue), rank)
           /\ L \in Nat \ {0} /\ Length(buckets) = L /\ IsArray(buckets, L)
           /\ hvalue \in [HKeys -> HValues \cup {NoKey}]
           /\ hsize = Cardinality(KeysWith(hvalue)) /\ hsize \in Nat /\ hsize <= Threshold(L)
           /\ GoodIterator(hiterator, KeysWith(hvalue), L, TodoFrom(buckets, hnext, hiterator))
           /\ \A x \in HKeys : /\ Found(x) <=> hvalue[x] # NoKey
                               /\ x \in KeysWith(hvalue) <=> hvalue[x] # NoKey
  BY StateIs
<1> DEFINE P == KeysWith(hvalue)
           end == ForEachRun(drop)[LoopSteps(buckets)]
<1>2. /\ \A k \in drop : Found(k)
      /\ HReturns("foreach", drop, end.visited)
      /\ buckets' = end.buckets /\ hnext' = end.next
      /\ hvalue' = [k \in HKeys |-> IF k \in drop THEN NoKey ELSE hvalue[k]]
      /\ hsize' = hsize - Cardinality(drop)
      /\ hiterator' = IF drop = {} THEN hiterator ELSE HNoIterator
  BY DEF hmap_foreach
<1>3. drop \in SUBSET P
  BY <1>1, <1>2
<1> HIDE DEF P
<1>4. Linked(buckets, L, hnext, P, rank) /\ GoodIterator(hiterator, P, L, Todo)
  BY <1>1 DEF P, Todo
<1>5. /\ Linked(end.buckets, L, end.next, P \ drop, rank)
      /\ IsInjective(end.visited) /\ Range(end.visited) = P
  BY <1>3, <1>4, ForEachEnds
<1> HIDE DEF end
<1>6. KeysWith(hvalue') = P \ drop /\ hvalue' \in [HKeys -> HValues \cup {NoKey}]
  BY <1>1, <1>2 DEF KeysWith, P
<1>7. hsize' = Cardinality(P \ drop) /\ hsize' <= Threshold(L)
  <2>1. IsFiniteSet(P)
    BY KeysCounted DEF P
  <2>2. IsFiniteSet(drop) /\ P \cap drop = drop
    BY <1>3, <2>1, FS_Subset
  <2>3. Cardinality(P \ drop) = Cardinality(P) - Cardinality(P \cap drop)
    BY <2>1, FS_Difference
  <2>4. Cardinality(drop) \in Nat /\ Threshold(L) \in Int
    BY <1>1, <2>2, FS_CardinalityType DEF Threshold
  <2>5. hsize' = Cardinality(P \ drop)
    BY <1>1, <1>2, <2>2, <2>3 DEF P
  <2>6. hsize - Cardinality(drop) <= Threshold(L)
    BY <1>1, <2>4
  <2> QED BY <1>2, <2>5, <2>6
<1>8. Linked(buckets', L, hnext', P \ drop, rank)
  BY <1>2, <1>5
<1>9. /\ GoodIterator(hiterator', P \ drop, L, Todo')
      /\ IF drop = {} THEN Todo' = Todo /\ hiterator' = hiterator ELSE hiterator' = HNoIterator
  <2>1. CASE drop = {}
    <3>1. hiterator' = hiterator /\ P \ drop = P
      BY <1>2, <2>1
    <3>2. TodoFrom(buckets', hnext', hiterator) = Todo \ drop
      <4>1. /\ hiterator.entry \notin drop
            /\ GoodIterator(hiterator, P, L, TodoFrom(buckets, hnext, hiterator))
        BY <1>4, <2>1 DEF Todo
      <4> QED BY <1>4, <1>8, <4>1, IteratorPassesRemove DEF Todo
    <3>3. Todo' = Todo
      BY <2>1, <3>1, <3>2 DEF Todo
    <3> QED BY <1>4, <2>1, <3>1, <3>3
  <2>2. CASE drop # {}
    <3>1. hiterator' = HNoIterator
      BY <1>2, <2>2
    <3> QED BY <2>2, <3>1, NoIteratorGood DEF Todo
  <2> QED BY <2>1, <2>2
<1>10. GoodMap(buckets', L, hsize', hvalue', hnext', rank, hiterator')
  BY <1>6, <1>7, <1>8, <1>9 DEF GoodMap, Todo
<1>11. HMapInv'
  BY <1>10 DEF HMapInv
<1> QED BY <1>2, <1>3, <1>5, <1>9, <1>11 DEF P

\* An iterator that starts at bucket i.
LEMMA FirstTodo ==
  ASSUME NEW L, NEW P, NEW rank, Linked(buckets, L, hnext, P, rank), NEW i \in Nat,
         NEW it, it.index = FirstFrom(i).index, it.entry = FirstFrom(i).entry
  PROVE  /\ it.index \in Nat /\ it.entry \in Entries
         /\ it.entry # NoKey => it.entry \in P /\ BucketOf(it.entry, L) = it.index
         /\ TodoFrom(buckets, hnext, it) = {k \in P : BucketOf(k, L) >= i}
<1> DEFINE used == {j \in i .. L - 1 : buckets[j] # NoKey}
<1>1. /\ L \in Nat \ {0} /\ P \subseteq HKeys /\ Length(buckets) = L
      /\ \A j \in 0 .. L - 1 : buckets[j] # NoKey => buckets[j] \in P /\ BucketOf(buckets[j], L) = j
  BY LengthOfArray DEF Linked, IsArray
<1>2. /\ it.index = IF used = {} THEN L ELSE Min(used)
      /\ it.entry = IF used = {} THEN NoKey ELSE buckets[IF used = {} THEN L ELSE Min(used)]
  BY <1>1 DEF FirstFrom
<1>3. \A k \in P : BucketOf(k, L) >= i => BucketOf(k, L) \in used
  <2> SUFFICES ASSUME NEW k \in P, BucketOf(k, L) >= i PROVE BucketOf(k, L) \in used
    OBVIOUS
  <2>1. BucketOf(k, L) \in 0 .. L - 1
    BY <1>1, BucketInRange
  <2>2. buckets[BucketOf(k, L)] # NoKey
    BY RankOrder
  <2> QED BY <2>1, <2>2
<1>4. CASE used = {}
  <2>1. it.index = L /\ it.entry = NoKey
    BY <1>2, <1>4
  <2>2. {k \in P : BucketOf(k, L) >= i} = {}
    BY <1>3, <1>4
  <2> QED BY <1>1, <2>1, <2>2 DEF TodoFrom, Entries
<1>5. CASE used # {}
  <2> DEFINE j == Min(used)
  <2>1. j \in used /\ \A x \in used : j <= x
    <3>1. used \subseteq Nat
      OBVIOUS
    <3> HIDE DEF used
    <3>2. \E x \in used : \A y \in used : x <= y
      BY <1>5, <3>1, HasLeast
    <3> QED BY <3>2 DEF Min
  <2>2. it.index = j /\ it.entry = buckets[j]
    BY <1>2, <1>5
  <2> HIDE DEF j
  <2>3. j \in 0 .. L - 1 /\ j \in 0 .. L /\ j < L /\ j >= i /\ buckets[j] # NoKey
    BY <1>1, <2>1
  <2>4. buckets[j] \in P /\ BucketOf(buckets[j], L) = j /\ buckets[j] \in Entries
    BY <1>1, <2>3 DEF Entries
  <2>5. TodoFrom(buckets, hnext, it) = Ahead(Place(it), P, L, rank)
    <3>1. it.entry \in P /\ it.index \in Nat /\ BucketOf(it.entry, L) = it.index
      BY <2>2, <2>3, <2>4
    <3> QED BY <3>1, TodoIs
  <2>6. Ahead(Place(it), P, L, rank) = {k \in P : BucketOf(k, L) >= j}
    <3> DEFINE s == Place(it)
    <3>1. s.bucket = j /\ s.entry = IF j < L THEN buckets[j] ELSE NoKey
      BY <2>2, <2>3 DEF Place
    <3> HIDE DEF s
    <3>2. Ahead(s, P, L, rank) = {k \in P : BucketOf(k, L) >= j}
      BY <2>3, <3>1, LoopStarts
    <3> QED BY <3>2 DEF s
  <2>7. \A k \in P : BucketOf(k, L) >= i <=> BucketOf(k, L) >= j
    <3> TAKE k \in P
    <3>1. BucketOf(k, L) \in 0 .. L - 1
      BY <1>1, BucketInRange
    <3>2. BucketOf(k, L) >= i => j <= BucketOf(k, L)
      BY <1>3, <2>1
    <3>3. j \in Nat /\ j >= i
      BY <2>3
    <3> QED BY <3>1, <3>2, <3>3
  <2> QED BY <2>2, <2>3, <2>4, <2>5, <2>6, <2>7
<1> QED BY <1>4, <1>5

LEMMA IteratorKeeps ==
  ASSUME HMapInv, hmap_iterator
  PROVE  HMapInv' /\ Todo' = KeysWith(hvalue) /\ hiterator'.previous_entry = NoKey
<1>1. PICK L, rank :
           /\ GoodMap(buckets, L, hsize, hvalue, hnext, rank, hiterator)
           /\ Linked(buckets, L, hnext, KeysWith(hvalue), rank) /\ L \in Nat \ {0}
  BY StateIs
<1> DEFINE P == KeysWith(hvalue)
           it == hiterator'
<1>2. /\ it = [index |-> FirstFrom(0).index, entry |-> FirstFrom(0).entry, previous_entry |-> NoKey]
      /\ UNCHANGED hdata
  BY DEF hmap_iterator
<1>3. it.index = FirstFrom(0).index /\ it.entry = FirstFrom(0).entry /\ it.previous_entry = NoKey
  BY <1>2
<1>4. /\ it.index \in Nat /\ it.entry \in Entries
      /\ it.entry # NoKey => it.entry \in P /\ BucketOf(it.entry, L) = it.index
      /\ TodoFrom(buckets, hnext, it) = {k \in P : BucketOf(k, L) >= 0}
  <2> HIDE DEF it, P
  <2>1. Linked(buckets, L, hnext, P, rank)
    BY <1>1 DEF P
  <2> QED BY <1>3, <2>1, FirstTodo
<1>5. {k \in P : BucketOf(k, L) >= 0} = P
  <2>1. \A k \in P : BucketOf(k, L) \in 0 .. L - 1
    BY <1>1, KeysCounted, BucketInRange
  <2>2. \A k \in P : BucketOf(k, L) >= 0
    BY <2>1
  <2> QED BY <2>2
<1>6. GoodIterator(it, P, L, TodoFrom(buckets, hnext, it))
  <2>1. it \in [index : Nat, entry : Entries, previous_entry : Entries]
    BY <1>2, <1>3, <1>4 DEF Entries
  <2> QED BY <1>3, <1>4, <2>1 DEF GoodIterator
<1>7. GoodMap(buckets', L, hsize', hvalue', hnext', rank, hiterator')
  BY <1>1, <1>2, <1>6 DEF GoodMap, hdata
<1>8. HMapInv'
  BY <1>7 DEF HMapInv
<1> QED BY <1>2, <1>3, <1>4, <1>5, <1>8 DEF Todo, hdata

LEMMA IteratorNextKeeps ==
  ASSUME HMapInv, hmap_iterator_next, hiterator.entry # NoKey
  PROVE  /\ HMapInv' /\ hiterator.entry \in Todo /\ Todo' = Todo \ {hiterator.entry}
         /\ hiterator'.previous_entry = hiterator.entry
<1>1. PICK L, rank :
           /\ GoodMap(buckets, L, hsize, hvalue, hnext, rank, hiterator)
           /\ Linked(buckets, L, hnext, KeysWith(hvalue), rank) /\ L \in Nat \ {0}
           /\ GoodIterator(hiterator, KeysWith(hvalue), L, TodoFrom(buckets, hnext, hiterator))
  BY StateIs
<1> DEFINE P == KeysWith(hvalue)
           it == hiterator'
           e == hiterator.entry
           first == IF hnext[e] = NoKey THEN FirstFrom(hiterator.index + 1)
                    ELSE [hiterator EXCEPT !.entry = hnext[@]]
           s == Place(hiterator)
           t == [bucket |-> hiterator.index, entry |-> hnext[e]]
<1>2. it = [index |-> first.index, entry |-> first.entry, previous_entry |-> e] /\ UNCHANGED hdata
  BY DEF hmap_iterator_next
<1>3. /\ e \in P /\ e \in HKeys /\ BucketOf(e, L) = hiterator.index /\ hiterator.index \in Nat
      /\ P \subseteq HKeys
      /\ hiterator \in [index : Nat, entry : Entries, previous_entry : Entries]
  BY <1>1, KeysCounted DEF GoodIterator
<1>4. Todo = Ahead(s, P, L, rank)
  BY <1>1, <1>3, TodoIs DEF Todo
<1>5. /\ InLoop(t, P, L) /\ e \in Ahead(s, P, L, rank)
      /\ Ahead(t, P, L, rank) = Ahead(s, P, L, rank) \ {e}
  <2>1. InLoop(s, P, L)
    BY <1>1, <1>3, PlaceInLoop
  <2>2. s.entry = e /\ s.bucket = hiterator.index
    BY DEF Place
  <2>3. t.bucket = s.bucket /\ t.entry = hnext[s.entry]
    BY <2>2
  <2>4. /\ InLoop(t, P, L) /\ s.entry \in Ahead(s, P, L, rank)
        /\ Ahead(t, P, L, rank) = Ahead(s, P, L, rank) \ {s.entry}
    <3> HIDE DEF s, t, P
    <3>1. Linked(buckets, L, hnext, P, rank) /\ s.entry # NoKey
      BY <1>1, <2>2 DEF P
    <3> QED BY <2>1, <2>3, <3>1, LoopNextEntry
  <2> QED BY <2>2, <2>4
<1>6. /\ it.index \in Nat /\ it.entry \in Entries
      /\ it.entry # NoKey => it.entry \in P /\ BucketOf(it.entry, L) = it.index
      /\ TodoFrom(buckets, hnext, it) = Ahead(t, P, L, rank)
  <2>1. CASE hnext[e] = NoKey
    <3> DEFINE i == hiterator.index + 1
    <3>1. it.index = FirstFrom(i).index /\ it.entry = FirstFrom(i).entry
      BY <1>2, <2>1
    <3>2. i \in Nat
      BY <1>3
    <3>3. Ahead(t, P, L, rank) = {k \in P : BucketOf(k, L) >= i}
      <4>1. \A k \in P : BucketOf(k, L) \in 0 .. L - 1
        BY <1>1, <1>3, BucketInRange
      <4>2. \A k \in P : BucketOf(k, L) > hiterator.index <=> BucketOf(k, L) >= i
        BY <1>3, <4>1
      <4> QED BY <2>1, <4>2 DEF Ahead
    <3>4. /\ it.index \in Nat /\ it.entry \in Entries
          /\ it.entry # NoKey => it.entry \in P /\ BucketOf(it.entry, L) = it.index
          /\ TodoFrom(buckets, hnext, it) = {k \in P : BucketOf(k, L) >= i}
      <4> HIDE DEF it, P, i
      <4>1. Linked(buckets, L, hnext, P, rank)
        BY <1>1 DEF P
      <4> QED BY <3>1, <3>2, <4>1, FirstTodo
    <3> QED BY <3>3, <3>4
  <2>2. CASE hnext[e] # NoKey
    <3>1. it.index = hiterator.index /\ it.entry = hnext[e]
      BY <1>2, <1>3, <2>2
    <3>2. it.entry \in P /\ BucketOf(it.entry, L) = it.index
      BY <1>5, <2>2, <3>1 DEF InLoop
    <3>3. TodoFrom(buckets, hnext, it) = Ahead(Place(it), P, L, rank)
      <4> HIDE DEF it, P
      <4>1. Linked(buckets, L, hnext, P, rank) /\ it.index \in Nat
        BY <1>1, <1>3, <3>1 DEF P
      <4> QED BY <3>2, <4>1, TodoIs
    <3>4. Place(it) = t
      BY <3>1 DEF Place
    <3> QED BY <1>3, <3>1, <3>2, <3>3, <3>4 DEF Entries
  <2> QED BY <2>1, <2>2
<1>7. it.previous_entry = e
  BY <1>2
<1>8. GoodIterator(it, P, L, TodoFrom(buckets, hnext, it))
  <2>1. it \in [index : Nat, entry : Entries, previous_entry : Entries]
    <3>1. it = [index |-> it.index, entry |-> it.entry, previous_entry |-> it.previous_entry]
      BY <1>2
    <3>2. it.index \in Nat /\ it.entry \in Entries /\ it.previous_entry \in Entries
      BY <1>3, <1>6, <1>7 DEF Entries
    <3> HIDE DEF it
    <3> QED BY <3>1, <3>2
  <2>2. e \in P \ TodoFrom(buckets, hnext, it)
    BY <1>3, <1>5, <1>6
  <2> QED BY <1>6, <1>7, <2>1, <2>2 DEF GoodIterator
<1>9. GoodMap(buckets', L, hsize', hvalue', hnext', rank, hiterator')
  BY <1>1, <1>2, <1>8 DEF GoodMap, hdata
<1>10. HMapInv'
  BY <1>9 DEF HMapInv
<1>11. Todo' = TodoFrom(buckets, hnext, it)
  BY <1>2 DEF Todo, hdata
<1> QED BY <1>4, <1>5, <1>6, <1>7, <1>10, <1>11

-----------------------------------------------------------------------------
(***************************************************************************)
(* The mapping: the entries are a map, and each call does the same to it.  *)
(***************************************************************************)
Dict == [k \in HKeys |-> IF Found(k) THEN hvalue[k] ELSE NoKey]

LEMMA DictOf ==
  ASSUME NEW b, NEW L, NEW size, NEW value, NEW next, NEW rank, NEW it,
         GoodMap(b, L, size, value, next, rank, it)
  PROVE  [k \in HKeys |-> IF k \in Range(EntriesFrom(b[hmap_hash(b, k)], next))
                          THEN value[k] ELSE NoKey] = value
<1>1. Linked(b, L, next, KeysWith(value), rank) /\ value \in [HKeys -> HValues \cup {NoKey}]
  BY DEF GoodMap
<1>2. \A k \in HKeys : k \in Range(EntriesFrom(b[hmap_hash(b, k)], next)) <=> value[k] # NoKey
  <2>1. \A k \in HKeys : k \in Range(EntriesFrom(b[hmap_hash(b, k)], next)) <=> k \in KeysWith(value)
    BY <1>1, FoundIs
  <2> QED BY <2>1 DEF KeysWith
<1> QED BY <1>1, <1>2

LEMMA DictIs == HMapInv => Dict = hvalue
<1> SUFFICES ASSUME HMapInv PROVE Dict = hvalue
  OBVIOUS
<1>1. PICK L, rank : GoodMap(buckets, L, hsize, hvalue, hnext, rank, hiterator)
  BY DEF HMapInv
<1> QED BY <1>1, DictOf DEF Dict, Found

LEMMA DictIsThen == HMapInv' => Dict' = hvalue'
<1> SUFFICES ASSUME HMapInv' PROVE Dict' = hvalue'
  OBVIOUS
<1>1. PICK L, rank : GoodMap(buckets', L, hsize', hvalue', hnext', rank, hiterator')
  BY DEF HMapInv
<1> QED BY <1>1, DictOf DEF Dict, Found

\* The iterator stays where it is.
Stays == Todo' = Todo /\ hiterator'.previous_entry = hiterator.previous_entry

LEMMA VoidIterator ==
  ASSUME hiterator' = HNoIterator
  PROVE  Todo' = {} /\ hiterator'.previous_entry = NoKey
  BY DEF HNoIterator, Todo, TodoFrom

LEMMA PutMaps ==
  ASSUME HMapInv, HMapInv', NEW k \in HKeys, NEW v \in HValues,
         HReturns("put", <<k, v>>, hvalue[k]), hvalue' = [hvalue EXCEPT ![k] = v],
         hvalue[k] # NoKey => Stays,
         hvalue[k] = NoKey =>
           \/ hiterator' = HNoIterator
           \/ /\ Todo' \in {Todo, Todo \cup {k}}
              /\ hiterator'.previous_entry = hiterator.previous_entry
  PROVE  HashedMap!Next
<1>1. Dict = hvalue /\ Dict' = hvalue'
  BY DictIs, DictIsThen
<1>2. HashedMap!Returns("put", <<k, v>>, Dict[k])
  BY <1>1 DEF HashedMap!Returns, HReturns
<1>3. Dict' = [Dict EXCEPT ![k] = v]
  BY <1>1
<1>4. IF Dict[k] # NoKey THEN Stays
      ELSE \/ Todo' = {} /\ hiterator'.previous_entry = NoKey
           \/ /\ Todo' \in {Todo, Todo \cup {k}}
              /\ hiterator'.previous_entry = hiterator.previous_entry
  BY <1>1, VoidIterator
<1>5. HashedMap!Put(k, v)
  BY <1>2, <1>3, <1>4 DEF HashedMap!Put, HashedMap!Forget, Dict, Todo, TodoFrom, Stays
<1> QED BY <1>5 DEF HashedMap!Next

LEMMA RemoveMaps ==
  ASSUME HMapInv, HMapInv', NEW k \in HKeys, HReturns("remove", <<k>>, hvalue[k]),
         hvalue' = [hvalue EXCEPT ![k] = NoKey],
         hvalue[k] = NoKey => Stays,
         hvalue[k] # NoKey =>
            \/ hiterator' = HNoIterator /\ hiterator.previous_entry # k
            \/ /\ Todo' = Todo \ {k} /\ hiterator.previous_entry # k
               /\ hiterator'.previous_entry = hiterator.previous_entry
            \/ /\ Todo' = Todo /\ hiterator.previous_entry = k
               /\ hiterator'.previous_entry = NoKey
  PROVE  HashedMap!Next
<1>1. Dict = hvalue /\ Dict' = hvalue'
  BY DictIs, DictIsThen
<1>2. HashedMap!Returns("remove", <<k>>, Dict[k])
  BY <1>1 DEF HashedMap!Returns, HReturns
<1>3. Dict' = [Dict EXCEPT ![k] = NoKey]
  BY <1>1
<1>4. CASE hvalue[k] = NoKey
  <2>1. Dict[k] = NoKey /\ Stays
    BY <1>1, <1>4
  <2>2. HashedMap!Remove(k)
    BY <1>2, <1>3, <2>1 DEF HashedMap!Remove, Dict, Todo, TodoFrom, Stays
  <2> QED BY <2>2 DEF HashedMap!Next
<1>5. CASE hvalue[k] # NoKey /\ hiterator.previous_entry = k
  <2>1. Dict[k] # NoKey /\ Todo' = Todo /\ hiterator'.previous_entry = NoKey
    BY <1>1, <1>5
  <2>2. HashedMap!Remove(k)
    BY <1>2, <1>3, <1>5, <2>1 DEF HashedMap!Remove, Dict, Todo, TodoFrom
  <2> QED BY <2>2 DEF HashedMap!Next
<1>6. CASE hvalue[k] # NoKey /\ hiterator.previous_entry # k
  <2>1. /\ Dict[k] # NoKey
        /\ \/ Todo' = {} /\ hiterator'.previous_entry = NoKey
           \/ Todo' = Todo \ {k} /\ hiterator'.previous_entry = hiterator.previous_entry
    BY <1>1, <1>6, VoidIterator
  <2>2. HashedMap!Remove(k)
    BY <1>2, <1>3, <1>6, <2>1 DEF HashedMap!Remove, HashedMap!Forget, Dict, Todo, TodoFrom
  <2> QED BY <2>2 DEF HashedMap!Next
<1> QED BY <1>4, <1>5, <1>6

LEMMA GetMaps ==
  ASSUME HMapInv, HMapInv', NEW k \in HKeys, HReturns("get", <<k>>, hvalue[k]),
         hvalue' = hvalue, Stays
  PROVE  HashedMap!Next
<1>1. Dict = hvalue /\ Dict' = hvalue'
  BY DictIs, DictIsThen
<1>2. HashedMap!Returns("get", <<k>>, Dict[k]) /\ Dict' = Dict
  BY <1>1 DEF HashedMap!Returns, HReturns
<1>3. HashedMap!Get(k)
  BY <1>2 DEF HashedMap!Get, Dict, Todo, TodoFrom, Stays
<1> QED BY <1>3 DEF HashedMap!Next

LEMMA SizeMaps ==
  ASSUME HMapInv, HMapInv', hmap_size, Stays
  PROVE  HashedMap!Next
<1>1. Dict = hvalue /\ Dict' = hvalue' /\ hvalue' = hvalue
  BY DictIs, DictIsThen DEF hmap_size, hdata
<1>2. hsize = Cardinality(KeysWith(hvalue))
  BY StateIs
<1>3. KeysWith(hvalue) = HashedMap!Present
  BY <1>1 DEF KeysWith, HashedMap!Present, Dict
<1>4. HashedMap!Returns("size", <<>>, Cardinality(HashedMap!Present)) /\ Dict' = Dict
  BY <1>1, <1>2, <1>3 DEF HashedMap!Returns, HReturns, hmap_size
<1>5. HashedMap!Size
  BY <1>4
     DEF HashedMap!Size, HashedMap!Cardinality, Cardinality, Dict, Todo, TodoFrom, Stays
<1> QED BY <1>5 DEF HashedMap!Next

LEMMA ClearMaps ==
  ASSUME HMapInv, hmap_clear
  PROVE  HMapInv' /\ HashedMap!Next
<1>1. HMapInv' /\ hvalue' = [k \in HKeys |-> NoKey] /\ hiterator' = HNoIterator
  BY ClearKeeps
<1>2. Dict' = [k \in HKeys |-> NoKey]
  BY <1>1, DictIsThen
<1>3. HashedMap!Returns("clear", <<>>, NoKey)
  BY DEF HashedMap!Returns, HReturns, hmap_clear
<1>4. Todo' = {} /\ hiterator'.previous_entry = NoKey
  BY <1>1, VoidIterator
<1>5. HashedMap!Clear
  BY <1>2, <1>3, <1>4 DEF HashedMap!Clear, HashedMap!Forget, Dict, Todo, TodoFrom
<1> QED BY <1>1, <1>5 DEF HashedMap!Next

LEMMA ForEachMaps ==
  ASSUME HMapInv, NEW drop \in SUBSET HKeys, hmap_foreach(drop)
  PROVE  HMapInv' /\ HashedMap!Next
<1>1. /\ HMapInv' /\ drop \subseteq KeysWith(hvalue)
      /\ IF drop = {} THEN Todo' = Todo /\ hiterator' = hiterator ELSE hiterator' = HNoIterator
  BY ForEachKeeps
<1>2. PICK visited : /\ HReturns("foreach", drop, visited)
                     /\ IsInjective(visited) /\ Range(visited) = KeysWith(hvalue)
  BY ForEachKeeps
<1>3. Dict = hvalue /\ Dict' = hvalue'
  BY <1>1, DictIs, DictIsThen
<1>4. Dict' = [k \in HKeys |-> IF k \in drop THEN NoKey ELSE Dict[k]]
  BY <1>3 DEF hmap_foreach
<1>5. hlast'[1] = "foreach" /\ hlast'[2] = drop /\ hlast'[3] = visited
  BY <1>2 DEF HReturns
<1>6. KeysWith(hvalue) = HashedMap!Present
  BY <1>3 DEF KeysWith, HashedMap!Present, Dict
<1>7. IF drop = {} THEN Todo' = Todo /\ hiterator'.previous_entry = hiterator.previous_entry
      ELSE Todo' = {} /\ hiterator'.previous_entry = NoKey
  BY <1>1, VoidIterator
<1>8. IsInjective(hlast'[3]) /\ Range(hlast'[3]) = HashedMap!Present
  BY <1>2, <1>5, <1>6
<1>9. Dict' = [k \in HKeys |-> IF k \in hlast'[2] THEN NoKey ELSE Dict[k]]
  BY <1>4, <1>5
<1>10. IF hlast'[2] = {} THEN Todo' = Todo /\ hiterator'.previous_entry = hiterator.previous_entry
       ELSE Todo' = {} /\ hiterator'.previous_entry = NoKey
  BY <1>5, <1>7
<1>11. HashedMap!ForEach
  BY <1>5, <1>8, <1>9, <1>10
     DEF HashedMap!ForEach, HashedMap!Forget, HashedMap!IsInjective, IsInjective,
         HashedMap!Range, Range, Dict, Todo, TodoFrom
<1> QED BY <1>1, <1>11 DEF HashedMap!Next

LEMMA IteratorMaps ==
  ASSUME HMapInv, hmap_iterator
  PROVE  HMapInv' /\ HashedMap!Next
<1>1. HMapInv' /\ Todo' = KeysWith(hvalue) /\ hiterator'.previous_entry = NoKey
  BY IteratorKeeps
<1>2. Dict = hvalue /\ Dict' = hvalue' /\ hvalue' = hvalue
  BY <1>1, DictIs, DictIsThen DEF hmap_iterator, hdata
<1>3. HashedMap!Returns("iterator", <<>>, NoKey) /\ Dict' = Dict
  BY <1>2 DEF HashedMap!Returns, HReturns, hmap_iterator
<1>4. Todo' = {k \in HKeys : Dict[k] # NoKey}
  BY <1>1, <1>2 DEF KeysWith
<1>5. HashedMap!Iterator
  BY <1>1, <1>3, <1>4 DEF HashedMap!Iterator, HashedMap!Present, Dict, Todo, TodoFrom
<1> QED BY <1>1, <1>5 DEF HashedMap!Next

LEMMA IteratorNextMaps ==
  ASSUME HMapInv, hmap_iterator_next
  PROVE  HMapInv' /\ HashedMap!Next
<1>1. CASE hiterator.entry = NoKey
  <2>1. /\ UNCHANGED hdata /\ hiterator' = hiterator /\ HReturns("next", <<>>, NoKey)
    BY <1>1 DEF hmap_iterator_next
  <2>2. HMapInv' /\ Todo' = Todo
    <3>1. hvalue' = hvalue /\ hvalue \in [HKeys -> HValues \cup {NoKey}]
      BY <2>1, StateIs DEF hdata
    <3> QED BY <2>1, <3>1, NothingMoves DEF hdata
  <2>3. Dict' = Dict
    BY <2>1, <2>2, DictIs, DictIsThen DEF hdata
  <2>4. Todo = {}
    BY <1>1 DEF Todo, TodoFrom
  <2>5. HashedMap!Returns("next", <<>>, NoKey) /\ hlast'[1] = "next"
    BY <2>1 DEF HashedMap!Returns, HReturns
  <2>6. HashedMap!IteratorNext
    BY <2>1, <2>2, <2>3, <2>4, <2>5 DEF HashedMap!IteratorNext, Dict, Todo, TodoFrom
  <2> QED BY <2>2, <2>6 DEF HashedMap!Next
<1>2. CASE hiterator.entry # NoKey
  <2> DEFINE e == hiterator.entry
  <2>1. /\ HMapInv' /\ e \in Todo /\ Todo' = Todo \ {e} /\ hiterator'.previous_entry = e
    BY <1>2, IteratorNextKeeps
  <2>2. Dict = hvalue /\ Dict' = Dict
    BY <2>1, DictIs, DictIsThen DEF hdata, hmap_iterator_next
  <2>3. HReturns("next", <<>>, hvalue[e])
    BY <1>2 DEF hmap_iterator_next
  <2>4. HashedMap!Returns("next", <<>>, Dict[e]) /\ hlast'[1] = "next"
    BY <2>2, <2>3 DEF HashedMap!Returns, HReturns
  <2>5. \E k \in Todo : /\ HashedMap!Returns("next", <<>>, Dict[k])
                        /\ Todo' = Todo \ {k} /\ hiterator'.previous_entry = k
    BY <2>1, <2>4
  <2>6. HashedMap!IteratorNext
    BY <2>2, <2>4, <2>5 DEF HashedMap!IteratorNext, Dict, Todo, TodoFrom
  <2> QED BY <2>1, <2>6 DEF HashedMap!Next
<1> QED BY <1>1, <1>2

LEMMA HMapStep ==
  HMapInv /\ [HMapNext]_hmapVars => HMapInv' /\ [HashedMap!Next]_(HashedMap!vars)
<1> SUFFICES ASSUME HMapInv, [HMapNext]_hmapVars
             PROVE  HMapInv' /\ [HashedMap!Next]_(HashedMap!vars)
  OBVIOUS
<1>1. ASSUME NEW k \in HKeys, hmap_remove(k) PROVE HMapInv' /\ HashedMap!Next
  <2>1. CASE RemoveFound(k)
    <3>1. HReturns("remove", <<k>>, hvalue[k]) /\ hvalue' = [hvalue EXCEPT ![k] = NoKey]
      BY <2>1 DEF RemoveFound
    <3> QED BY <2>1, <3>1, RemoveKeeps, RemoveMaps
  <2>2. CASE ~Found(k) /\ HReturns("remove", <<k>>, NoKey) /\ UNCHANGED <<hdata, hiterator>>
    <3>1. hvalue[k] = NoKey /\ hvalue \in [HKeys -> HValues \cup {NoKey}]
      BY <2>2, StateIs
    <3>2. HMapInv' /\ Stays
      BY <2>2, <3>1, NothingMoves DEF hdata, Stays
    <3>3. hvalue' = [hvalue EXCEPT ![k] = NoKey]
      BY <2>2, <3>1 DEF hdata
    <3> QED BY <2>2, <3>1, <3>2, <3>3, RemoveMaps
  <2> QED BY <1>1, <2>1, <2>2 DEF hmap_remove
<1>2. ASSUME NEW k \in HKeys, hmap_get(k) PROVE HMapInv' /\ HashedMap!Next
  <2>1. HReturns("get", <<k>>, hvalue[k]) /\ hvalue \in [HKeys -> HValues \cup {NoKey}]
    BY <1>2, StateIs DEF hmap_get
  <2>2. HMapInv' /\ Stays /\ hvalue' = hvalue
    BY <1>2, <2>1, NothingMoves DEF hmap_get, hdata, Stays
  <2> QED BY <2>1, <2>2, GetMaps
<1>3. ASSUME NEW k \in HKeys, NEW v \in HValues, hmap_put(k, v) PROVE HMapInv' /\ HashedMap!Next
  <2>1. CASE PutExisting(k, v)
    <3>1. /\ HReturns("put", <<k, v>>, hvalue[k]) /\ hvalue' = [hvalue EXCEPT ![k] = v]
          /\ hiterator' = hiterator
      BY <2>1 DEF PutExisting
    <3>2. HMapInv' /\ hvalue[k] # NoKey /\ Stays
      BY <2>1, <3>1, PutExistingKeeps DEF Stays
    <3> QED BY <3>1, <3>2, PutMaps
  <2>2. CASE PutNew(k, v)
    <3>1. /\ HMapInv' /\ hvalue[k] = NoKey
          /\ \/ hiterator' = HNoIterator
             \/ Todo' \in {Todo, Todo \cup {k}} /\ hiterator' = hiterator
      BY <2>2, PutNewKeeps
    <3>2. HReturns("put", <<k, v>>, hvalue[k]) /\ hvalue' = [hvalue EXCEPT ![k] = v]
      BY <2>2, <3>1 DEF PutNew
    <3> QED BY <3>1, <3>2, PutMaps
  <2> QED BY <1>3, <2>1, <2>2 DEF hmap_put
<1>4. ASSUME hmap_size PROVE HMapInv' /\ HashedMap!Next
  <2>1. hvalue \in [HKeys -> HValues \cup {NoKey}]
    BY StateIs
  <2>2. HMapInv' /\ Stays
    BY <1>4, <2>1, NothingMoves DEF hmap_size, hdata, Stays
  <2> QED BY <1>4, <2>2, SizeMaps
<1>5. ASSUME NEW drop \in SUBSET HKeys, hmap_foreach(drop) PROVE HMapInv' /\ HashedMap!Next
  BY <1>5, ForEachMaps
<1>6. ASSUME UNCHANGED hmapVars PROVE HMapInv' /\ UNCHANGED HashedMap!vars
  <2>1. UNCHANGED <<buckets, hsize, hvalue, hnext, hiterator, hlast>>
    BY <1>6 DEF hmapVars
  <2>2. hvalue \in [HKeys -> HValues \cup {NoKey}]
    BY StateIs
  <2>3. HMapInv' /\ Todo' = Todo
    BY <2>1, <2>2, NothingMoves
  <2>4. Dict' = Dict
    BY <2>1, <2>3, DictIs, DictIsThen
  <2> QED BY <2>1, <2>3, <2>4 DEF HashedMap!vars, Dict, Todo, TodoFrom
<1>7. ASSUME HMapNext PROVE HMapInv' /\ HashedMap!Next
  BY <1>1, <1>2, <1>3, <1>4, <1>5, <1>7, ClearMaps, IteratorMaps, IteratorNextMaps DEF HMapNext
<1> QED BY <1>6, <1>7

LEMMA HMapStarts == HMapInit => HMapInv /\ HashedMap!Init
<1> SUFFICES ASSUME HMapInit PROVE HMapInv /\ HashedMap!Init
  OBVIOUS
<1> DEFINE L == DEFAULT_CAPACITY
           rank == [k \in HKeys |-> 0]
<1>1. /\ buckets = Array(L) /\ hsize = 0 /\ hvalue = [k \in HKeys |-> NoKey]
      /\ hnext = [k \in HKeys |-> NoKey] /\ hiterator = HNoIterator
      /\ hlast = <<NoKey, <<>>, NoKey>>
  BY DEF HMapInit
<1>2. L \in Nat \ {0} /\ hnext \in [HKeys -> Entries]
  BY <1>1, KeysAre DEF Entries
<1>3. KeysWith(hvalue) = {} /\ hvalue \in [HKeys -> HValues \cup {NoKey}]
  BY <1>1 DEF KeysWith
<1>4. Linked(buckets, L, hnext, {}, rank)
  BY <1>1, <1>2, NothingLinked
<1>5. hsize = Cardinality({}) /\ hsize <= Threshold(L)
  BY <1>1, <1>2, FS_EmptySet DEF Threshold
<1>6. GoodIterator(hiterator, {}, L, TodoFrom(buckets, hnext, hiterator))
  BY <1>1, NoIteratorGood
<1>7. GoodMap(buckets, L, hsize, hvalue, hnext, rank, hiterator)
  BY <1>3, <1>4, <1>5, <1>6 DEF GoodMap
<1>8. HMapInv
  BY <1>7 DEF HMapInv
<1>9. Dict = [k \in HKeys |-> NoKey]
  BY <1>1, <1>8, DictIs
<1>10. Todo = {} /\ hiterator.previous_entry = NoKey
  BY <1>1 DEF HNoIterator, Todo, TodoFrom
<1>11. HashedMap!Init
  BY <1>1, <1>9, <1>10 DEF HashedMap!Init, Dict, Todo, TodoFrom
<1> QED BY <1>8, <1>11

(***************************************************************************)
(* For any keys, any hash function and any capacity: whatever was put,     *)
(* removed, rehashed, cleared and iterated before, each entry is in the    *)
(* bucket of its hash and in no other, hsize counts the entries, and the   *)
(* load is within its bound.                                               *)
(***************************************************************************)
THEOREM HMapWellFormedAlways == HMapSpec => []HMapWellFormed
<1>1. HMapInit => HMapInv
  BY HMapStarts
<1>2. HMapInv /\ [HMapNext]_hmapVars => HMapInv'
  BY HMapStep
<1>3. HMapInv => HMapWellFormed
  BY InvHolds
<1> QED BY <1>1, <1>2, <1>3, PTL DEF HMapSpec

(***************************************************************************)
(* For any keys, any hash function and any capacity: every call of hmap.c  *)
(* does to the buckets what MapSpec says it does to a map, returns the     *)
(* same, and leaves an iterator with the same entries still to come.       *)
(***************************************************************************)
THEOREM HMapIsMapAlways == HMapSpec => HMapIsMap
<1>1. HMapInit => HMapInv /\ HashedMap!Init
  BY HMapStarts
<1>2. HMapInv /\ [HMapNext]_hmapVars => HMapInv' /\ [HashedMap!Next]_(HashedMap!vars)
  BY HMapStep
<1> QED BY <1>1, <1>2, PTL DEF HMapSpec, HMapIsMap, HashedMap!Spec
==============================================================================
