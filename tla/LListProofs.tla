------------------------------ MODULE LListProofs -----------------------------
(***************************************************************************)
(* The linked list, for any number of lists and nodes and any sequence of  *)
(* calls: its pointers always form lists, no node is lost, and every call  *)
(* does to the pointers what it does to a sequence.                        *)
(***************************************************************************)
EXTENDS LList, FiniteSetTheorems, SequenceTheorems, WellFoundedInduction, TLAPS

USE DEF NULL

-----------------------------------------------------------------------------
(***************************************************************************)
(* Induction over the natural numbers, in the form of sets.                *)
(***************************************************************************)
Below == OpToRel(<, Nat)

LEMMA Least ==
  ASSUME NEW T, T \subseteq Nat, T # {}
  PROVE  \E x \in T : \A y \in T : x <= y
<1>1. IsWellFoundedOn(Below, Nat)
  BY NatLessThanWellFounded DEF Below
<1>2. \A x, y \in Nat : <<y, x>> \in Below <=> y < x
  BY DEF Below, OpToRel
<1>3. PICK x \in T : \A y \in T : ~ (<<y, x>> \in Below)
  BY <1>1, WFMin
<1>4. \A y \in T : x \in Nat /\ y \in Nat /\ ~(y < x)
  BY <1>2, <1>3
<1>5. \A y \in T : x <= y
  BY <1>4
<1> QED BY <1>5

LEMMA SetInduction ==
  ASSUME NEW T, 0 \in T, \A n \in Nat : n \in T => n + 1 \in T
  PROVE  Nat \subseteq T
<1> SUFFICES ASSUME Nat \ T # {} PROVE FALSE
  OBVIOUS
<1>1. PICK m \in Nat \ T : \A y \in Nat \ T : m <= y
  BY Least
<1>2. m # 0 /\ m - 1 \in Nat
  BY <1>1
<1>3. m - 1 \in T
  BY <1>1, <1>2
<1> QED BY <1>1, <1>2, <1>3

LEMMA NodesAre == /\ MaxNodes \in Nat /\ Nodes = 1 .. MaxNodes
                  /\ Nodes \subseteq Nat \ {0} /\ IsFiniteSet(Nodes)
<1>1. MaxNodes \in Nat
  BY LListAssumption
<1>2. IsFiniteSet(1 .. MaxNodes)
  BY <1>1, FS_Interval
<1> QED BY <1>1, <1>2 DEF Nodes

-----------------------------------------------------------------------------
(***************************************************************************)
(* A loop along the pointers of a list, step by step.                      *)
(***************************************************************************)
LEMMA WalkSteps ==
  ASSUME NEW entry, NEW link
  PROVE  /\ Walk(entry, link)[0] = entry
         /\ \A i \in 1 .. MaxNodes :
              Walk(entry, link)[i] = IF Walk(entry, link)[i - 1] = NULL THEN NULL
                                     ELSE link[Walk(entry, link)[i - 1]]
<1> DEFINE Step(e) == IF e = NULL THEN NULL ELSE link[e]
           Steps(g, n) == [i \in 0 .. n |-> IF i = 0 THEN entry ELSE Step(g[i - 1])]
           T == {n \in Nat : \E g : g = Steps(g, n)}
<1>1. 0 \in T
  <2> DEFINE g == [i \in 0 .. 0 |-> entry]
  <2>1. g = Steps(g, 0)
    OBVIOUS
  <2> QED BY <2>1
<1>2. ASSUME NEW n \in Nat, n \in T PROVE n + 1 \in T
  <2> HIDE DEF Step
  <2>1. PICK g : g = Steps(g, n)
    BY <1>2
  <2> DEFINE h == [i \in 0 .. n + 1 |-> IF i = n + 1 THEN Step(g[n]) ELSE g[i]]
  <2>2. \A i \in 0 .. n + 1 : h[i] = IF i = 0 THEN entry ELSE Step(h[i - 1])
    <3>1. \A i \in 0 .. n : g[i] = IF i = 0 THEN entry ELSE Step(g[i - 1])
      BY <2>1
    <3>2. \A i \in 0 .. n : h[i] = g[i]
      OBVIOUS
    <3>3. h[n + 1] = Step(g[n]) /\ h[n] = g[n]
      BY <3>2
    <3> HIDE DEF h
    <3> QED BY <3>1, <3>2, <3>3
  <2>3. h = Steps(h, n + 1)
    BY <2>2
  <2> HIDE DEF h
  <2>4. \E f : f = Steps(f, n + 1)
    BY <2>3
  <2> QED BY <2>4
<1> HIDE DEF T
<1>3. MaxNodes \in T
  BY <1>1, <1>2, SetInduction, NodesAre
<1> DEFINE at == CHOOSE g : g = Steps(g, MaxNodes)
<1>4. at = Steps(at, MaxNodes)
  BY <1>3 DEF T
<1>5. Walk(entry, link) = at
  BY DEF Walk
<1> HIDE DEF at
<1>6. MaxNodes \in Nat
  BY NodesAre
<1> QED BY <1>4, <1>5, <1>6

-----------------------------------------------------------------------------
(***************************************************************************)
(* The nodes ns are those of a list, linked both ways in the memory mem.   *)
(***************************************************************************)
LNode == [data : Data \cup {None}, next : Nodes \cup {NULL}, previous : Nodes \cup {NULL}]

Memory == [Nodes -> LNode]

LListType == [first : Nodes \cup {NULL}, last : Nodes \cup {NULL}, size : Nat]

After(ns, i) == IF i = Len(ns) THEN NULL ELSE ns[i + 1]

Before(ns, i) == IF i = 1 THEN NULL ELSE ns[i - 1]

Elems(ns) == {ns[i] : i \in 1 .. Len(ns)}

Linked(list, mem, ns) ==
  /\ list \in LListType /\ list.size = Len(ns) /\ ns \in Seq(Nodes)
  /\ \A i, j \in 1 .. Len(ns) : ns[i] = ns[j] => i = j
  /\ Len(ns) > 0 => list.first = ns[1] /\ list.last = ns[Len(ns)]
  /\ Len(ns) = 0 => list.last = NULL
  /\ \A i \in 1 .. Len(ns) :
       /\ mem[ns[i]].data \in Data
       /\ mem[ns[i]].next = After(ns, i) /\ mem[ns[i]].previous = Before(ns, i)

LEMMA NoMoreThanNodes ==
  ASSUME NEW ns \in Seq(Nodes), \A i, j \in 1 .. Len(ns) : ns[i] = ns[j] => i = j
  PROVE  Len(ns) <= MaxNodes
<1>1. ns \in [1 .. Len(ns) -> Nodes] /\ Len(ns) \in Nat
  OBVIOUS
<1>2. ns \in Injection(1 .. Len(ns), Nodes)
  BY <1>1 DEF Injection, IsInjective
<1>3. Cardinality(1 .. Len(ns)) <= Cardinality(Nodes)
  BY <1>2, NodesAre, FS_Injection
<1>4. Cardinality(1 .. Len(ns)) = Len(ns)
  <2>1. \A n \in Nat : Cardinality(1 .. n) = n
    <3> TAKE n \in Nat
    <3>1. 1 \in Int /\ n \in Int
      OBVIOUS
    <3>2. Cardinality(1 .. n) = IF 1 > n THEN 0 ELSE n - 1 + 1
      BY <3>1, FS_Interval
    <3> QED BY <3>2
  <2> QED BY <1>1, <2>1
<1>5. Cardinality(1 .. MaxNodes) = MaxNodes
  BY NodesAre, FS_Interval
<1> QED BY <1>3, <1>4, <1>5, NodesAre

\* Forward from any node, and back from the last.
LEMMA Forward ==
  ASSUME NEW list, NEW mem, NEW ns, Linked(list, mem, ns), NEW k \in 1 .. Len(ns)
  PROVE  \A i \in 0 .. MaxNodes :
           Walk(ns[k], NextOf(mem))[i] = IF k + i <= Len(ns) THEN ns[k + i] ELSE NULL
<1> DEFINE at == Walk(ns[k], NextOf(mem))
           Goes(i) == at[i] = IF k + i <= Len(ns) THEN ns[k + i] ELSE NULL
           T == {i \in Nat : i <= MaxNodes => Goes(i)}
<1>1. /\ Len(ns) \in Nat /\ MaxNodes \in Nat
      /\ \A i \in 1 .. Len(ns) : ns[i] \in Nodes /\ ns[i] # NULL
  BY NodesAre DEF Linked
<1>2. at[0] = ns[k] /\ \A i \in 1 .. MaxNodes :
        at[i] = IF at[i - 1] = NULL THEN NULL ELSE NextOf(mem)[at[i - 1]]
  BY WalkSteps
<1>3. \A i \in 1 .. Len(ns) : NextOf(mem)[ns[i]] = IF i = Len(ns) THEN NULL ELSE ns[i + 1]
  BY <1>1 DEF NextOf, Linked, After
<1> HIDE DEF at
<1>4. 0 \in T
  BY <1>1, <1>2
<1>5. ASSUME NEW i \in Nat, i \in T PROVE i + 1 \in T
  <2>1. CASE i + 1 > MaxNodes
    BY <1>1, <2>1
  <2>2. CASE i + 1 <= MaxNodes /\ k + i <= Len(ns)
    <3>1. at[i] = ns[k + i] /\ i + 1 \in 1 .. MaxNodes /\ (i + 1) - 1 = i
      BY <1>1, <1>5, <2>2
    <3>2. at[i + 1] = NextOf(mem)[ns[k + i]] /\ k + i \in 1 .. Len(ns)
      BY <1>1, <1>2, <2>2, <3>1
    <3>3. at[i + 1] = IF k + i = Len(ns) THEN NULL ELSE ns[(k + i) + 1]
      BY <1>3, <3>2
    <3>4. k + (i + 1) = (k + i) + 1 /\ (k + (i + 1) <= Len(ns) <=> k + i # Len(ns))
      BY <1>1, <2>2
    <3>5. Goes(i + 1)
      BY <3>3, <3>4
    <3> QED BY <1>5, <3>5
  <2>3. CASE i + 1 <= MaxNodes /\ k + i > Len(ns)
    <3>1. at[i] = NULL /\ i + 1 \in 1 .. MaxNodes /\ (i + 1) - 1 = i
      BY <1>1, <1>5, <2>3
    <3>2. at[i + 1] = NULL
      BY <1>2, <3>1
    <3>3. ~(k + (i + 1) <= Len(ns))
      BY <1>1, <2>3
    <3> QED BY <1>5, <3>2, <3>3
  <2> QED BY <1>1, <2>1, <2>2, <2>3
<1> HIDE DEF T
<1>6. \A i \in Nat : i \in T
  BY <1>4, <1>5, SetInduction
<1> QED BY <1>1, <1>6 DEF T, at

LEMMA Backward ==
  ASSUME NEW list, NEW mem, NEW ns, Linked(list, mem, ns), Len(ns) > 0
  PROVE  \A i \in 0 .. MaxNodes :
           Walk(list.last, PreviousOf(mem))[i]
           = IF i < Len(ns) THEN ns[Len(ns) - i] ELSE NULL
<1> DEFINE at == Walk(list.last, PreviousOf(mem))
           Goes(i) == at[i] = IF i < Len(ns) THEN ns[Len(ns) - i] ELSE NULL
           T == {i \in Nat : i <= MaxNodes => Goes(i)}
<1>1. /\ Len(ns) \in Nat /\ MaxNodes \in Nat
      /\ \A i \in 1 .. Len(ns) : ns[i] \in Nodes /\ ns[i] # NULL
  BY NodesAre DEF Linked
<1>2. list.last = ns[Len(ns)] /\ at[0] = list.last /\ \A i \in 1 .. MaxNodes :
        at[i] = IF at[i - 1] = NULL THEN NULL ELSE PreviousOf(mem)[at[i - 1]]
  BY WalkSteps DEF Linked
<1>3. \A i \in 1 .. Len(ns) : PreviousOf(mem)[ns[i]] = IF i = 1 THEN NULL ELSE ns[i - 1]
  BY <1>1 DEF PreviousOf, Linked, Before
<1> HIDE DEF at
<1>4. 0 \in T
  BY <1>1, <1>2
<1>5. ASSUME NEW i \in Nat, i \in T PROVE i + 1 \in T
  <2>1. CASE i + 1 > MaxNodes
    BY <1>1, <2>1
  <2>2. CASE i + 1 <= MaxNodes /\ i < Len(ns)
    <3>1. at[i] = ns[Len(ns) - i] /\ i + 1 \in 1 .. MaxNodes /\ (i + 1) - 1 = i
      BY <1>1, <1>5, <2>2
    <3>2. at[i + 1] = PreviousOf(mem)[ns[Len(ns) - i]] /\ Len(ns) - i \in 1 .. Len(ns)
      BY <1>1, <1>2, <2>2, <3>1
    <3>3. at[i + 1] = IF Len(ns) - i = 1 THEN NULL ELSE ns[(Len(ns) - i) - 1]
      BY <1>3, <3>2
    <3>4. /\ Len(ns) - (i + 1) = (Len(ns) - i) - 1
          /\ i + 1 < Len(ns) <=> Len(ns) - i # 1
      BY <1>1, <2>2
    <3>5. Goes(i + 1)
      BY <3>3, <3>4, Zenon
    <3> QED BY <1>5, <3>5
  <2>3. CASE i + 1 <= MaxNodes /\ ~(i < Len(ns))
    <3>1. at[i] = NULL /\ i + 1 \in 1 .. MaxNodes /\ (i + 1) - 1 = i
      BY <1>1, <1>5, <2>3
    <3>2. at[i + 1] = NULL
      BY <1>2, <3>1
    <3>3. ~(i + 1 < Len(ns))
      BY <1>1, <2>3
    <3> QED BY <1>5, <3>2, <3>3
  <2> QED BY <1>1, <2>1, <2>2, <2>3
<1> HIDE DEF T
<1>6. \A i \in Nat : i \in T
  BY <1>4, <1>5, SetInduction
<1> QED BY <1>1, <1>6 DEF T, at

\* What the loops over a list visit, and what llist_get_entry finds.
LEMMA ChainFrom ==
  ASSUME NEW list, NEW mem, NEW ns, Linked(list, mem, ns), NEW k \in 1 .. Len(ns)
  PROVE  Chain(ns[k], mem) = [i \in 1 .. Len(ns) - k + 1 |-> ns[k + i - 1]]
<1> DEFINE at == Walk(ns[k], NextOf(mem))
           len == Len(ns) - k + 1
<1>1. /\ Len(ns) \in Nat /\ MaxNodes \in Nat /\ Len(ns) <= MaxNodes
      /\ \A i \in 1 .. Len(ns) : ns[i] # NULL
  BY NodesAre, NoMoreThanNodes DEF Linked
<1>2. \A i \in 0 .. MaxNodes : at[i] = IF k + i <= Len(ns) THEN ns[k + i] ELSE NULL
  BY Forward
<1> HIDE DEF at
<1>3. \A i \in 1 .. MaxNodes : at[i - 1] = IF i <= len THEN ns[k + i - 1] ELSE NULL
  <2> TAKE i \in 1 .. MaxNodes
  <2>1. i - 1 \in 0 .. MaxNodes /\ (k + (i - 1) <= Len(ns) <=> i <= len)
        /\ k + (i - 1) = k + i - 1
    BY <1>1
  <2> QED BY <1>2, <2>1
<1>4. len \in Nat /\ len <= MaxNodes
      /\ \A i \in 1 .. len : i \in 1 .. MaxNodes /\ k + i - 1 \in 1 .. Len(ns)
  BY <1>1
<1> HIDE DEF len
<1>5. {j \in 1 .. MaxNodes : at[j - 1] # NULL} = 1 .. len
  <2>1. \A j \in 1 .. MaxNodes : at[j - 1] # NULL <=> j <= len
    <3> TAKE j \in 1 .. MaxNodes
    <3>1. CASE j <= len
      <4>1. j \in 1 .. len
        BY <1>4, <3>1
      <4>2. ns[k + j - 1] # NULL
        BY <1>1, <1>4, <4>1
      <4> QED BY <1>3, <3>1, <4>2
    <3>2. CASE ~(j <= len)
      BY <1>3, <3>2
    <3> QED BY <3>1, <3>2
  <2>2. \A j : j \in 1 .. len <=> j \in 1 .. MaxNodes /\ j <= len
    BY <1>1, <1>4
  <2> QED BY <2>1, <2>2
<1>6. Cardinality(1 .. len) = len
  BY <1>4, FS_Interval
<1>7. Chain(ns[k], mem) = [i \in 1 .. len |-> at[i - 1]]
  BY <1>5, <1>6 DEF Chain, at
<1>8. \A i \in 1 .. len : at[i - 1] = ns[k + i - 1]
  <2> TAKE i \in 1 .. len
  <2>1. i \in 1 .. MaxNodes /\ i <= len
    BY <1>4
  <2> QED BY <1>3, <2>1
<1>9. Chain(ns[k], mem) = [i \in 1 .. len |-> ns[k + i - 1]]
  BY <1>7, <1>8
<1> QED BY <1>9 DEF len

LEMMA ChainOfList ==
  ASSUME NEW list, NEW mem, NEW ns, Linked(list, mem, ns),
         Len(ns) = 0 => list.first = NULL
  PROVE  Chain(list.first, mem) = ns
<1>1. Len(ns) \in Nat /\ ns \in Seq(Nodes) /\ MaxNodes \in Nat
  BY NodesAre DEF Linked
<1>2. CASE Len(ns) > 0
  <2>1. list.first = ns[1] /\ 1 \in 1 .. Len(ns)
    BY <1>1, <1>2 DEF Linked
  <2>2. Chain(ns[1], mem) = [i \in 1 .. Len(ns) - 1 + 1 |-> ns[1 + i - 1]]
    BY <2>1, ChainFrom
  <2>3. Len(ns) - 1 + 1 = Len(ns) /\ \A i \in 1 .. Len(ns) : 1 + i - 1 = i
    BY <1>1
  <2>4. Chain(ns[1], mem) = [i \in 1 .. Len(ns) |-> ns[i]]
    BY <2>2, <2>3
  <2> QED BY <1>1, <2>1, <2>4
<1>3. CASE Len(ns) = 0
  <2> DEFINE at == Walk(NULL, NextOf(mem))
             T == {i \in Nat : i <= MaxNodes => at[i] = NULL}
  <2>1. at[0] = NULL /\ \A i \in 1 .. MaxNodes : at[i - 1] = NULL => at[i] = NULL
    BY WalkSteps
  <2> HIDE DEF at
  <2>2. 0 \in T
    BY <2>1
  <2>3. ASSUME NEW i \in Nat, i \in T PROVE i + 1 \in T
    <3>1. CASE i + 1 <= MaxNodes
      <4>1. i <= MaxNodes /\ i + 1 \in 1 .. MaxNodes /\ (i + 1) - 1 = i
        BY <1>1, <3>1
      <4>2. at[i] = NULL
        BY <2>3, <4>1
      <4>3. at[i + 1] = NULL
        BY <2>1, <4>1, <4>2
      <4> QED BY <4>3
    <3> QED BY <3>1
  <2> HIDE DEF T
  <2>4. \A i \in Nat : i \in T
    BY <2>2, <2>3, SetInduction
  <2>5. {j \in 1 .. MaxNodes : at[j - 1] # NULL} = {}
    <3> SUFFICES ASSUME NEW j \in 1 .. MaxNodes PROVE at[j - 1] = NULL
      OBVIOUS
    <3>1. j - 1 \in Nat /\ j - 1 <= MaxNodes
      BY <1>1
    <3> QED BY <2>4, <3>1 DEF T
  <2>6. Chain(NULL, mem) = [i \in 1 .. 0 |-> at[i - 1]]
    BY <2>5, FS_EmptySet DEF Chain, at
  <2>7. ns = << >> /\ [i \in 1 .. 0 |-> at[i - 1]] = << >>
    BY <1>1, <1>3
  <2> QED BY <1>3, <2>6, <2>7
<1> QED BY <1>1, <1>2, <1>3

LEMMA EntryFound ==
  ASSUME NEW list, NEW mem, NEW ns, Linked(list, mem, ns), NEW index \in 0 .. Len(ns) - 1
  PROVE  llist_get_entry([list |-> list, mem |-> mem], index) = ns[index + 1]
<1>1. Len(ns) \in Nat /\ MaxNodes \in Nat /\ Len(ns) <= MaxNodes /\ Len(ns) > 0
  BY NodesAre, NoMoreThanNodes DEF Linked
<1>2. list.size = Len(ns) /\ list.first = ns[1]
  BY <1>1 DEF Linked
<1>3. Walk(list.first, NextOf(mem))[index] = ns[index + 1]
  <2>1. 1 \in 1 .. Len(ns) /\ index \in 0 .. MaxNodes /\ 1 + index <= Len(ns)
        /\ 1 + index = index + 1
    BY <1>1
  <2> QED BY <1>2, <2>1, Forward
<1>4. Walk(list.last, PreviousOf(mem))[list.size - 1 - index] = ns[index + 1]
  <2>1. /\ list.size - 1 - index \in 0 .. MaxNodes /\ list.size - 1 - index < Len(ns)
        /\ Len(ns) - (list.size - 1 - index) = index + 1
    BY <1>1, <1>2
  <2> QED BY <1>1, <2>1, Backward
<1> QED BY <1>3, <1>4 DEF llist_get_entry

-----------------------------------------------------------------------------
(***************************************************************************)
(* A node e goes in at position k, or the k-th node goes out: what this    *)
(* means for list and memory, and that the list stays linked.              *)
(***************************************************************************)
Ins(ns, k, e) == [i \in 1 .. Len(ns) + 1 |->
                    IF i < k THEN ns[i] ELSE IF i = k THEN e ELSE ns[i - 1]]

Del(ns, k) == [i \in 1 .. Len(ns) - 1 |-> IF i < k THEN ns[i] ELSE ns[i + 1]]

InsertsNode(list, mem, ns, k, e, x, list2, mem2) ==
  /\ list2 \in LListType /\ list2.size = list.size + 1
  /\ list2.first = IF k = 1 THEN e ELSE list.first
  /\ list2.last = IF k = Len(ns) + 1 THEN e ELSE list.last
  /\ mem2 \in Memory
  /\ mem2[e] = [data |-> x, next |-> IF k = Len(ns) + 1 THEN NULL ELSE ns[k],
                previous |-> IF k = 1 THEN NULL ELSE ns[k - 1]]
  /\ \A d \in Nodes \ {e} :
       /\ mem2[d].data = mem[d].data
       /\ mem2[d].next = IF k > 1 /\ d = ns[k - 1] THEN e ELSE mem[d].next
       /\ mem2[d].previous = IF k <= Len(ns) /\ d = ns[k] THEN e ELSE mem[d].previous

TakesNode(list, mem, ns, k, list2, mem2) ==
  /\ list2 \in LListType /\ list2.size = list.size - 1
  /\ list2.first = IF k = 1 THEN After(ns, 1) ELSE list.first
  /\ list2.last = IF k = Len(ns) THEN Before(ns, Len(ns)) ELSE list.last
  /\ mem2 \in Memory /\ mem2[ns[k]] = Freed
  /\ \A d \in Nodes \ {ns[k]} :
       /\ mem2[d].data = mem[d].data
       /\ mem2[d].next = IF k > 1 /\ d = ns[k - 1] THEN After(ns, k) ELSE mem[d].next
       /\ mem2[d].previous = IF k < Len(ns) /\ d = ns[k + 1] THEN Before(ns, k)
                             ELSE mem[d].previous

LEMMA InsIs ==
  ASSUME NEW ns \in Seq(Nodes), NEW k \in 1 .. Len(ns) + 1, NEW e \in Nodes
  PROVE  /\ Ins(ns, k, e) \in Seq(Nodes) /\ Len(Ins(ns, k, e)) = Len(ns) + 1
         /\ \A i \in 1 .. Len(ns) + 1 :
              Ins(ns, k, e)[i] = IF i < k THEN ns[i] ELSE IF i = k THEN e ELSE ns[i - 1]
         /\ Elems(Ins(ns, k, e)) = Elems(ns) \cup {e}
<1>1. Len(ns) \in Nat /\ \A i \in 1 .. Len(ns) : ns[i] \in Nodes
  OBVIOUS
<1>2. \A i \in 1 .. Len(ns) + 1 :
        (IF i < k THEN ns[i] ELSE IF i = k THEN e ELSE ns[i - 1]) \in Nodes
  <2> TAKE i \in 1 .. Len(ns) + 1
  <2>1. i < k => i \in 1 .. Len(ns)
    BY <1>1
  <2>2. i > k => i - 1 \in 1 .. Len(ns)
    BY <1>1
  <2> QED BY <1>1, <2>1, <2>2
<1>3. Ins(ns, k, e) \in Seq(Nodes) /\ Len(Ins(ns, k, e)) = Len(ns) + 1
  BY <1>1, <1>2 DEF Ins
<1>4. \A i \in 1 .. Len(ns) + 1 :
        Ins(ns, k, e)[i] = IF i < k THEN ns[i] ELSE IF i = k THEN e ELSE ns[i - 1]
  BY DEF Ins
<1> DEFINE ms == Ins(ns, k, e)
<1> HIDE DEF ms
<1>5. ASSUME NEW d \in Elems(ms) PROVE d \in Elems(ns) \cup {e}
  <2>1. PICK i \in 1 .. Len(ns) + 1 : d = ms[i]
    BY <1>3 DEF Elems, ms
  <2>2. CASE i < k
    <3>1. i \in 1 .. Len(ns) /\ d = ns[i]
      BY <1>1, <1>4, <2>1, <2>2 DEF ms
    <3> QED BY <3>1 DEF Elems
  <2>3. CASE i = k
    BY <1>4, <2>1, <2>3 DEF ms
  <2>4. CASE i > k
    <3>1. i - 1 \in 1 .. Len(ns) /\ d = ns[i - 1]
      BY <1>1, <1>4, <2>1, <2>4 DEF ms
    <3> QED BY <3>1 DEF Elems
  <2> QED BY <2>2, <2>3, <2>4
<1>6. ASSUME NEW i \in 1 .. Len(ns) PROVE ns[i] \in Elems(ms)
  <2>1. CASE i < k
    <3>1. i \in 1 .. Len(ns) + 1 /\ ms[i] = ns[i]
      BY <1>1, <1>4, <2>1 DEF ms
    <3> QED BY <1>3, <3>1 DEF Elems, ms
  <2>2. CASE i >= k
    <3>1. i + 1 \in 1 .. Len(ns) + 1 /\ ~(i + 1 < k) /\ i + 1 # k /\ (i + 1) - 1 = i
      BY <1>1, <2>2
    <3>2. ms[i + 1] = ns[i]
      BY <1>4, <3>1 DEF ms
    <3> QED BY <1>3, <3>1, <3>2 DEF Elems, ms
  <2> QED BY <1>1, <2>1, <2>2
<1>7. e \in Elems(ms)
  <2>1. ms[k] = e
    BY <1>4 DEF ms
  <2> QED BY <1>3, <2>1 DEF Elems, ms
<1>8. Elems(ms) = Elems(ns) \cup {e}
  <2>1. Elems(ns) \subseteq Elems(ms)
    BY <1>6 DEF Elems
  <2> QED BY <1>5, <1>7, <2>1
<1> QED BY <1>3, <1>4, <1>8 DEF ms

LEMMA DelIs ==
  ASSUME NEW ns \in Seq(Nodes), NEW k \in 1 .. Len(ns),
         \A i, j \in 1 .. Len(ns) : ns[i] = ns[j] => i = j
  PROVE  /\ Del(ns, k) \in Seq(Nodes) /\ Len(Del(ns, k)) = Len(ns) - 1
         /\ \A i \in 1 .. Len(ns) - 1 : Del(ns, k)[i] = IF i < k THEN ns[i] ELSE ns[i + 1]
         /\ Elems(Del(ns, k)) = Elems(ns) \ {ns[k]}
<1>1. Len(ns) \in Nat /\ \A i \in 1 .. Len(ns) : ns[i] \in Nodes
  OBVIOUS
<1>2. \A i \in 1 .. Len(ns) - 1 : i \in 1 .. Len(ns) /\ i + 1 \in 1 .. Len(ns)
  BY <1>1
<1>3. Del(ns, k) \in Seq(Nodes) /\ Len(Del(ns, k)) = Len(ns) - 1
  <2>1. Len(ns) - 1 \in Nat
    BY <1>1
  <2> QED BY <1>1, <1>2, <2>1 DEF Del
<1>4. \A i \in 1 .. Len(ns) - 1 : Del(ns, k)[i] = IF i < k THEN ns[i] ELSE ns[i + 1]
  BY DEF Del
<1> DEFINE ms == Del(ns, k)
<1> HIDE DEF ms
<1>5. ASSUME NEW d \in Elems(ms) PROVE d \in Elems(ns) \ {ns[k]}
  <2>1. PICK i \in 1 .. Len(ns) - 1 : d = ms[i]
    BY <1>3 DEF Elems, ms
  <2>2. CASE i < k
    <3>1. d = ns[i] /\ i \in 1 .. Len(ns) /\ i # k
      BY <1>2, <1>4, <2>1, <2>2 DEF ms
    <3> QED BY <3>1 DEF Elems
  <2>3. CASE ~(i < k)
    <3>1. d = ns[i + 1] /\ i + 1 \in 1 .. Len(ns) /\ i + 1 # k
      BY <1>2, <1>4, <2>1, <2>3 DEF ms
    <3> QED BY <3>1 DEF Elems
  <2> QED BY <2>2, <2>3
<1>6. ASSUME NEW i \in 1 .. Len(ns), i # k PROVE ns[i] \in Elems(ms)
  <2>1. CASE i < k
    <3>1. i \in 1 .. Len(ns) - 1
      BY <1>1, <2>1
    <3>2. ms[i] = ns[i]
      BY <1>4, <2>1, <3>1 DEF ms
    <3> QED BY <1>3, <3>1, <3>2 DEF Elems, ms
  <2>2. CASE i > k
    <3>1. i - 1 \in 1 .. Len(ns) - 1 /\ ~(i - 1 < k) /\ (i - 1) + 1 = i
      BY <1>1, <2>2
    <3>2. ms[i - 1] = ns[i]
      BY <1>4, <3>1 DEF ms
    <3> QED BY <1>3, <3>1, <3>2 DEF Elems, ms
  <2> QED BY <1>1, <1>6, <2>1, <2>2
<1>7. Elems(ms) = Elems(ns) \ {ns[k]}
  <2>1. Elems(ns) \ {ns[k]} \subseteq Elems(ms)
    BY <1>6 DEF Elems
  <2> QED BY <1>5, <2>1
<1> QED BY <1>3, <1>4, <1>7 DEF ms

LEMMA Inserted ==
  ASSUME NEW list, NEW mem, NEW ns, Linked(list, mem, ns),
         NEW k \in 1 .. Len(ns) + 1, NEW e \in Nodes \ Elems(ns), NEW x \in Data,
         NEW list2, NEW mem2, InsertsNode(list, mem, ns, k, e, x, list2, mem2)
  PROVE  Linked(list2, mem2, Ins(ns, k, e))
<1> DEFINE ms == Ins(ns, k, e)
<1>1. /\ ns \in Seq(Nodes) /\ Len(ns) \in Nat /\ list.size = Len(ns)
      /\ \A i \in 1 .. Len(ns) : ns[i] \in Nodes \ {e}
  BY DEF Linked, Elems
<1>2. ms \in Seq(Nodes) /\ Len(ms) = Len(ns) + 1
      /\ \A i \in 1 .. Len(ns) + 1 :
           ms[i] = IF i < k THEN ns[i] ELSE IF i = k THEN e ELSE ns[i - 1]
  BY <1>1, InsIs
<1> HIDE DEF ms
<1>3. \A i, j \in 1 .. Len(ns) : ns[i] = ns[j] => i = j
  BY DEF Linked
\* The positions in ms, as positions in ns.
<1>4. \A i \in 1 .. Len(ms) :
        \/ i < k /\ i \in 1 .. Len(ns) /\ ms[i] = ns[i]
        \/ i = k /\ ms[i] = e
        \/ i > k /\ i - 1 \in 1 .. Len(ns) /\ ms[i] = ns[i - 1]
  <2> TAKE i \in 1 .. Len(ms)
  <2>1. CASE i < k
    BY <1>1, <1>2, <2>1
  <2>2. CASE i = k
    BY <1>1, <1>2, <2>2
  <2>3. CASE i > k
    BY <1>1, <1>2, <2>3
  <2> QED BY <1>1, <1>2, <2>1, <2>2, <2>3
<1>5. \A i, j \in 1 .. Len(ms) : ms[i] = ms[j] => i = j
  <2> SUFFICES ASSUME NEW i \in 1 .. Len(ms), NEW j \in 1 .. Len(ms), ms[i] = ms[j]
               PROVE  i = j
    OBVIOUS
  <2>1. CASE i = k \/ j = k
    <3>1. i = k /\ j = k
      BY <1>1, <1>4, <2>1
    <3> QED BY <3>1
  <2>2. CASE i < k /\ j < k
    BY <1>3, <1>4, <2>2
  <2>3. CASE i > k /\ j > k
    <3>1. i - 1 \in 1 .. Len(ns) /\ ms[i] = ns[i - 1]
      BY <1>1, <1>2, <1>4, <2>3
    <3>2. j - 1 \in 1 .. Len(ns) /\ ms[j] = ns[j - 1]
      BY <1>1, <1>2, <1>4, <2>3
    <3>3. i - 1 = j - 1
      BY <1>3, <3>1, <3>2
    <3> QED BY <3>3
  <2>4. CASE i < k /\ j > k
    <3>1. i \in 1 .. Len(ns) /\ ms[i] = ns[i]
      BY <1>1, <1>2, <1>4, <2>4
    <3>2. j - 1 \in 1 .. Len(ns) /\ ms[j] = ns[j - 1]
      BY <1>1, <1>2, <1>4, <2>4
    <3>3. i = j - 1
      BY <1>3, <3>1, <3>2
    <3> QED BY <2>4, <3>3
  <2>5. CASE i > k /\ j < k
    <3>1. i - 1 \in 1 .. Len(ns) /\ ms[i] = ns[i - 1]
      BY <1>1, <1>2, <1>4, <2>5
    <3>2. j \in 1 .. Len(ns) /\ ms[j] = ns[j]
      BY <1>1, <1>2, <1>4, <2>5
    <3>3. i - 1 = j
      BY <1>3, <3>1, <3>2
    <3> QED BY <2>5, <3>3
  <2> QED BY <1>1, <1>2, <2>1, <2>2, <2>3, <2>4, <2>5
<1>6. list2.first = ms[1] /\ list2.last = ms[Len(ms)]
  <2>1. list2.first = ms[1]
    <3>1. CASE k = 1
      BY <1>2, <3>1 DEF InsertsNode
    <3>2. CASE k # 1
      <4>1. Len(ns) > 0 /\ 1 < k /\ 1 \in 1 .. Len(ns) + 1
        BY <1>1, <3>2
      <4>2. ms[1] = ns[1]
        BY <1>2, <4>1
      <4> QED BY <3>2, <4>1, <4>2 DEF InsertsNode, Linked
    <3> QED BY <3>1, <3>2
  <2>2. list2.last = ms[Len(ms)]
    <3>1. CASE k = Len(ns) + 1
      BY <1>2, <3>1 DEF InsertsNode
    <3>2. CASE k # Len(ns) + 1
      <4>1. Len(ns) > 0 /\ Len(ns) + 1 \in 1 .. Len(ns) + 1 /\ ~(Len(ns) + 1 < k)
            /\ (Len(ns) + 1) - 1 = Len(ns)
        BY <1>1, <3>2
      <4>2. ms[Len(ns) + 1] = ns[Len(ns)]
        BY <1>2, <3>2, <4>1
      <4> QED BY <1>2, <3>2, <4>1, <4>2 DEF InsertsNode, Linked
    <3> QED BY <3>1, <3>2
  <2> QED BY <2>1, <2>2
<1>7. ASSUME NEW i \in 1 .. Len(ms)
      PROVE  /\ mem2[ms[i]].data \in Data
             /\ mem2[ms[i]].next = After(ms, i) /\ mem2[ms[i]].previous = Before(ms, i)
  <2>0. \A j \in 1 .. Len(ns) :
          /\ mem[ns[j]].data \in Data
          /\ mem[ns[j]].next = After(ns, j) /\ mem[ns[j]].previous = Before(ns, j)
    BY DEF Linked
  <2>1. CASE i = k
    <3>1. ms[i] = e /\ mem2[e].data = x
          /\ mem2[e].next = (IF k = Len(ns) + 1 THEN NULL ELSE ns[k])
          /\ mem2[e].previous = (IF k = 1 THEN NULL ELSE ns[k - 1])
      BY <1>2, <2>1 DEF InsertsNode
    <3>2. k # Len(ns) + 1 => ms[k + 1] = ns[k]
      <4> SUFFICES ASSUME k # Len(ns) + 1 PROVE ms[k + 1] = ns[k]
        OBVIOUS
      <4>1. k + 1 \in 1 .. Len(ns) + 1 /\ ~(k + 1 < k) /\ k + 1 # k /\ (k + 1) - 1 = k
        BY <1>1
      <4> QED BY <1>2, <4>1
    <3>3. k # 1 => ms[k - 1] = ns[k - 1]
      <4> SUFFICES ASSUME k # 1 PROVE ms[k - 1] = ns[k - 1]
        OBVIOUS
      <4>1. k - 1 \in 1 .. Len(ns) + 1 /\ k - 1 < k
        BY <1>1
      <4> QED BY <1>2, <4>1
    <3> QED BY <1>2, <2>1, <3>1, <3>2, <3>3 DEF After, Before
  <2>2. CASE i < k
    <3>1. i \in 1 .. Len(ns) /\ ms[i] = ns[i] /\ ns[i] \in Nodes \ {e} /\ i # Len(ms)
      BY <1>1, <1>2, <1>4, <2>2
    <3>2. k - 1 \in 1 .. Len(ns) /\ k > 1 /\ (ns[i] = ns[k - 1] <=> i = k - 1)
      <4>1. k - 1 \in 1 .. Len(ns) /\ k > 1
        BY <1>1, <2>2
      <4> QED BY <1>3, <3>1, <4>1
    <3>3. ~(k <= Len(ns) /\ ns[i] = ns[k])
      <4>1. k <= Len(ns) => k \in 1 .. Len(ns) /\ i # k
        BY <1>1, <2>2
      <4> QED BY <1>3, <3>1, <4>1
    <3>4. /\ mem2[ms[i]].data = mem[ns[i]].data
          /\ mem2[ms[i]].next = IF i = k - 1 THEN e ELSE mem[ns[i]].next
          /\ mem2[ms[i]].previous = mem[ns[i]].previous
      BY <3>1, <3>2, <3>3 DEF InsertsNode
    <3>5. mem2[ms[i]].next = ms[i + 1]
      <4>1. CASE i = k - 1
        <5>1. i + 1 = k /\ ms[k] = e
          BY <1>2, <4>1
        <5> QED BY <3>4, <4>1, <5>1
      <4>2. CASE i # k - 1
        <5>1. i + 1 < k /\ i + 1 \in 1 .. Len(ns) + 1 /\ i # Len(ns)
          BY <1>1, <2>2, <4>2
        <5>2. ms[i + 1] = ns[i + 1]
          BY <1>2, <5>1
        <5> QED BY <2>0, <3>1, <3>4, <4>2, <5>1, <5>2 DEF After
      <4> QED BY <4>1, <4>2
    <3>6. i # 1 => ms[i - 1] = ns[i - 1]
      <4> SUFFICES ASSUME i # 1 PROVE ms[i - 1] = ns[i - 1]
        OBVIOUS
      <4>1. i - 1 < k /\ i - 1 \in 1 .. Len(ns) + 1
        BY <1>1, <2>2, <3>1
      <4> QED BY <1>2, <4>1
    <3> QED BY <2>0, <3>1, <3>4, <3>5, <3>6 DEF After, Before
  <2>3. CASE i > k
    <3>1. i - 1 \in 1 .. Len(ns) /\ ms[i] = ns[i - 1] /\ ns[i - 1] \in Nodes \ {e} /\ i # 1
      BY <1>1, <1>2, <1>4, <2>3
    <3>2. k \in 1 .. Len(ns) /\ (ns[i - 1] = ns[k] <=> i - 1 = k)
      <4>1. k \in 1 .. Len(ns)
        BY <1>1, <1>2, <2>3
      <4> QED BY <1>3, <3>1, <4>1
    <3>3. ~(k > 1 /\ ns[i - 1] = ns[k - 1])
      <4>1. k > 1 => k - 1 \in 1 .. Len(ns) /\ i - 1 # k - 1
        BY <1>1, <1>2, <2>3
      <4> QED BY <1>3, <3>1, <4>1
    <3>4. /\ mem2[ms[i]].data = mem[ns[i - 1]].data
          /\ mem2[ms[i]].next = mem[ns[i - 1]].next
          /\ mem2[ms[i]].previous = IF i - 1 = k THEN e ELSE mem[ns[i - 1]].previous
      BY <3>1, <3>2, <3>3 DEF InsertsNode
    <3>5. mem2[ms[i]].previous = ms[i - 1]
      <4>1. CASE i - 1 = k
        BY <1>2, <3>4, <4>1
      <4>2. CASE i - 1 # k
        <5>1. ~(i - 1 < k) /\ i - 1 \in 1 .. Len(ns) + 1 /\ i - 1 # 1
          BY <1>1, <1>2, <2>3, <4>2
        <5>2. ms[i - 1] = ns[(i - 1) - 1]
          BY <1>2, <4>2, <5>1
        <5> QED BY <2>0, <3>1, <3>4, <4>2, <5>1, <5>2 DEF Before
      <4> QED BY <4>1, <4>2
    <3>6. i = Len(ms) <=> i - 1 = Len(ns)
      BY <1>1, <1>2
    <3>7. i # Len(ms) => ms[i + 1] = ns[(i - 1) + 1]
      <4> SUFFICES ASSUME i # Len(ms) PROVE ms[i + 1] = ns[(i - 1) + 1]
        OBVIOUS
      <4>1. i \in Nat /\ i <= Len(ns) /\ k \in Int /\ i > k
        BY <1>1, <1>2, <2>3
      <4>2. ~(i + 1 < k) /\ i + 1 # k
        BY <4>1
      <4>3. i + 1 \in 1 .. Len(ns) + 1
        BY <1>1, <4>1
      <4>4. (i + 1) - 1 = (i - 1) + 1
        BY <4>1
      <4> QED BY <1>2, <4>2, <4>3, <4>4
    <3> QED BY <2>0, <3>1, <3>4, <3>5, <3>6, <3>7 DEF After, Before
  <2> QED BY <1>1, <1>2, <2>1, <2>2, <2>3
<1>8. list2 \in LListType /\ list2.size = Len(ms)
  BY <1>1, <1>2 DEF InsertsNode
<1>9. Linked(list2, mem2, ms)
  BY <1>2, <1>5, <1>6, <1>7, <1>8 DEF Linked
<1> QED BY <1>9 DEF ms

LEMMA Taken ==
  ASSUME NEW list, NEW mem, NEW ns, Linked(list, mem, ns), NEW k \in 1 .. Len(ns),
         NEW list2, NEW mem2, TakesNode(list, mem, ns, k, list2, mem2)
  PROVE  Linked(list2, mem2, Del(ns, k))
<1> DEFINE ms == Del(ns, k)
<1>1. /\ ns \in Seq(Nodes) /\ Len(ns) \in Nat /\ list.size = Len(ns)
      /\ \A i \in 1 .. Len(ns) : ns[i] \in Nodes
      /\ \A i, j \in 1 .. Len(ns) : ns[i] = ns[j] => i = j
  BY DEF Linked
<1>2. ms \in Seq(Nodes) /\ Len(ms) = Len(ns) - 1
      /\ \A i \in 1 .. Len(ns) - 1 : ms[i] = IF i < k THEN ns[i] ELSE ns[i + 1]
  BY <1>1, DelIs
<1> HIDE DEF ms
<1>3. \A i, j \in 1 .. Len(ns) : ns[i] = ns[j] => i = j
  BY DEF Linked
\* The positions in ms, as positions in ns.
<1>4. \A i \in 1 .. Len(ms) :
        \/ i < k /\ i \in 1 .. Len(ns) /\ ms[i] = ns[i]
        \/ i >= k /\ i + 1 \in 1 .. Len(ns) /\ ms[i] = ns[i + 1]
  <2> TAKE i \in 1 .. Len(ms)
  <2>1. CASE i < k
    BY <1>1, <1>2, <2>1
  <2>2. CASE ~(i < k)
    BY <1>1, <1>2, <2>2
  <2> QED BY <2>1, <2>2
<1>5. \A i, j \in 1 .. Len(ms) : ms[i] = ms[j] => i = j
  <2> SUFFICES ASSUME NEW i \in 1 .. Len(ms), NEW j \in 1 .. Len(ms), ms[i] = ms[j]
               PROVE  i = j
    OBVIOUS
  <2>1. CASE i < k /\ j < k
    BY <1>3, <1>4, <2>1
  <2>2. CASE i >= k /\ j >= k
    <3>1. i + 1 = j + 1
      BY <1>3, <1>4, <2>2
    <3> QED BY <3>1
  <2>3. CASE i < k /\ j >= k
    <3>1. i = j + 1
      BY <1>3, <1>4, <2>3
    <3> QED BY <2>3, <3>1
  <2>4. CASE i >= k /\ j < k
    <3>1. i + 1 = j
      BY <1>3, <1>4, <2>4
    <3> QED BY <2>4, <3>1
  <2> QED BY <1>1, <1>2, <2>1, <2>2, <2>3, <2>4
<1>6. Len(ms) > 0 => list2.first = ms[1] /\ list2.last = ms[Len(ms)]
  <2> SUFFICES ASSUME Len(ms) > 0 PROVE list2.first = ms[1] /\ list2.last = ms[Len(ms)]
    OBVIOUS
  <2>0. Len(ns) > 1 /\ 1 \in 1 .. Len(ns) - 1 /\ Len(ms) \in 1 .. Len(ns) - 1
    BY <1>1, <1>2
  <2>1. list2.first = ms[1]
    <3>1. CASE k = 1
      <4>1. ms[1] = ns[1 + 1] /\ After(ns, 1) = ns[1 + 1]
        BY <1>2, <2>0, <3>1 DEF After
      <4> QED BY <3>1, <4>1 DEF TakesNode
    <3>2. CASE k # 1
      <4>1. ms[1] = ns[1]
        BY <1>2, <2>0, <3>2
      <4> QED BY <2>0, <3>2, <4>1 DEF TakesNode, Linked
    <3> QED BY <3>1, <3>2
  <2>2. list2.last = ms[Len(ms)]
    <3>1. CASE k = Len(ns)
      <4>1. ms[Len(ms)] = ns[Len(ns) - 1] /\ Before(ns, Len(ns)) = ns[Len(ns) - 1]
        BY <1>1, <1>2, <2>0, <3>1 DEF Before
      <4> QED BY <3>1, <4>1 DEF TakesNode
    <3>2. CASE k # Len(ns)
      <4>1. ~(Len(ms) < k) /\ Len(ms) + 1 = Len(ns)
        BY <1>1, <1>2, <3>2
      <4>2. ms[Len(ms)] = ns[Len(ns)]
        BY <1>2, <2>0, <4>1
      <4> QED BY <2>0, <3>2, <4>2 DEF TakesNode, Linked
    <3> QED BY <3>1, <3>2
  <2> QED BY <2>1, <2>2
<1>7. ASSUME NEW i \in 1 .. Len(ms)
      PROVE  /\ mem2[ms[i]].data \in Data
             /\ mem2[ms[i]].next = After(ms, i) /\ mem2[ms[i]].previous = Before(ms, i)
  <2>0. \A j \in 1 .. Len(ns) :
          /\ mem[ns[j]].data \in Data
          /\ mem[ns[j]].next = After(ns, j) /\ mem[ns[j]].previous = Before(ns, j)
    BY DEF Linked
  <2>1. CASE i < k
    <3>1. i \in 1 .. Len(ns) /\ ms[i] = ns[i] /\ ns[i] \in Nodes \ {ns[k]} /\ i # Len(ns)
      BY <1>1, <1>2, <1>4, <2>1
    <3>2. k > 1 /\ (ns[i] = ns[k - 1] <=> i = k - 1)
      <4>1. k > 1 /\ k - 1 \in 1 .. Len(ns)
        BY <1>1, <2>1, <3>1
      <4> QED BY <1>3, <3>1, <4>1
    <3>3. ~(k < Len(ns) /\ ns[i] = ns[k + 1])
      <4>1. k < Len(ns) => k + 1 \in 1 .. Len(ns) /\ i # k + 1
        BY <1>1, <2>1
      <4> QED BY <1>3, <3>1, <4>1
    <3>4. /\ mem2[ms[i]].data = mem[ns[i]].data
          /\ mem2[ms[i]].next = IF i = k - 1 THEN After(ns, k) ELSE mem[ns[i]].next
          /\ mem2[ms[i]].previous = mem[ns[i]].previous
      BY <3>1, <3>2, <3>3 DEF TakesNode
    <3>5. mem2[ms[i]].next = After(ms, i)
      <4>1. CASE i = k - 1
        <5>1. i = Len(ms) <=> k = Len(ns)
          BY <1>1, <1>2, <4>1
        <5>2. k # Len(ns) => ms[i + 1] = ns[k + 1]
          <6> SUFFICES ASSUME k # Len(ns) PROVE ms[i + 1] = ns[k + 1]
            OBVIOUS
          <6>1. i + 1 \in 1 .. Len(ns) - 1 /\ i + 1 = k
            BY <1>1, <4>1
          <6> QED BY <1>2, <6>1
        <5> QED BY <3>4, <4>1, <5>1, <5>2 DEF After
      <4>2. CASE i # k - 1
        <5>1. i + 1 < k /\ i + 1 \in 1 .. Len(ns) - 1 /\ i # Len(ms)
          BY <1>1, <1>2, <2>1, <4>2
        <5>2. ms[i + 1] = ns[i + 1]
          BY <1>2, <5>1
        <5> QED BY <2>0, <3>1, <3>4, <4>2, <5>1, <5>2 DEF After
      <4> QED BY <4>1, <4>2
    <3>6. i # 1 => ms[i - 1] = ns[i - 1]
      <4> SUFFICES ASSUME i # 1 PROVE ms[i - 1] = ns[i - 1]
        OBVIOUS
      <4>1. i - 1 < k /\ i - 1 \in 1 .. Len(ns) - 1
        BY <1>1, <1>2, <2>1
      <4> QED BY <1>2, <4>1
    <3> QED BY <2>0, <3>1, <3>4, <3>5, <3>6 DEF Before
  <2>2. CASE i >= k
    <3>1. i + 1 \in 1 .. Len(ns) /\ ms[i] = ns[i + 1] /\ ns[i + 1] \in Nodes \ {ns[k]}
      <4>1. i + 1 \in 1 .. Len(ns) /\ ms[i] = ns[i + 1] /\ i + 1 # k
        BY <1>1, <1>2, <1>4, <2>2
      <4> QED BY <1>1, <1>3, <4>1
    <3>2. k < Len(ns) /\ (ns[i + 1] = ns[k + 1] <=> i = k)
      <4>1. k < Len(ns) /\ k + 1 \in 1 .. Len(ns)
        BY <1>1, <1>2, <2>2
      <4>2. ns[i + 1] = ns[k + 1] => i + 1 = k + 1
        BY <1>3, <3>1, <4>1
      <4> QED BY <1>1, <4>1, <4>2
    <3>3. ~(k > 1 /\ ns[i + 1] = ns[k - 1])
      <4>1. k > 1 => k - 1 \in 1 .. Len(ns) /\ i + 1 # k - 1
        BY <1>1, <2>2
      <4> QED BY <1>3, <3>1, <4>1
    <3>4. /\ mem2[ms[i]].data = mem[ns[i + 1]].data
          /\ mem2[ms[i]].next = mem[ns[i + 1]].next
          /\ mem2[ms[i]].previous = IF i = k THEN Before(ns, k) ELSE mem[ns[i + 1]].previous
      BY <3>1, <3>2, <3>3 DEF TakesNode
    <3>5. mem2[ms[i]].previous = Before(ms, i)
      <4>1. CASE i = k
        <5>1. k # 1 => ms[k - 1] = ns[k - 1]
          <6> SUFFICES ASSUME k # 1 PROVE ms[k - 1] = ns[k - 1]
            OBVIOUS
          <6>1. k - 1 \in 1 .. Len(ns) - 1 /\ k - 1 < k
            BY <1>1
          <6> QED BY <1>2, <6>1
        <5> QED BY <3>4, <4>1, <5>1 DEF Before
      <4>2. CASE i # k
        <5>1. ~(i - 1 < k) /\ i - 1 \in 1 .. Len(ns) - 1 /\ i # 1 /\ (i - 1) + 1 = i
              /\ i + 1 # 1 /\ (i + 1) - 1 = i
          BY <1>1, <1>2, <2>2, <4>2
        <5>2. ms[i - 1] = ns[i]
          BY <1>2, <5>1
        <5> QED BY <2>0, <3>1, <3>4, <4>2, <5>1, <5>2 DEF Before
      <4> QED BY <4>1, <4>2
    <3>6. mem2[ms[i]].next = After(ms, i)
      <4>1. i = Len(ms) <=> i + 1 = Len(ns)
        BY <1>1, <1>2
      <4>2. i # Len(ms) => ms[i + 1] = ns[(i + 1) + 1]
        <5> SUFFICES ASSUME i # Len(ms) PROVE ms[i + 1] = ns[(i + 1) + 1]
          OBVIOUS
        <5>1. i + 1 \in 1 .. Len(ns) - 1 /\ ~(i + 1 < k)
          BY <1>1, <1>2, <2>2
        <5> QED BY <1>2, <5>1
      <4> QED BY <2>0, <3>1, <3>4, <4>1, <4>2 DEF After
    <3> QED BY <2>0, <3>1, <3>4, <3>5, <3>6
  <2> QED BY <1>1, <1>2, <2>1, <2>2
<1>8. list2 \in LListType /\ list2.size = Len(ms)
  BY <1>1, <1>2 DEF TakesNode
<1>9. Len(ms) = 0 => list2.last = NULL
  <2> SUFFICES ASSUME Len(ms) = 0 PROVE list2.last = NULL
    OBVIOUS
  <2>0. Len(ns) - 1 = 0 /\ Len(ns) \in Nat
    BY <1>1, <1>2
  <2>1. Len(ns) = 1
    BY <2>0
  <2>2. k = 1
    BY <2>1
  <2> QED BY <2>1, <2>2 DEF TakesNode, Before
<1>10. Linked(list2, mem2, ms)
  BY <1>2, <1>5, <1>6, <1>7, <1>8, <1>9 DEF Linked
<1> QED BY <1>10 DEF ms

-----------------------------------------------------------------------------
(***************************************************************************)
(* All lists in one memory: N[l] are the nodes of list l.                  *)
(***************************************************************************)
Holds(list, mem, ns) == IF list = None THEN ns = << >> ELSE Linked(list, mem, ns)

AllLinked(ls, mem, N) ==
  /\ ls \in [Lists -> LListType \cup {None}] /\ mem \in Memory
  /\ N \in [Lists -> Seq(Nodes)]
  /\ \A l \in Lists : Holds(ls[l], mem, N[l])
  /\ \A l, m \in Lists : l # m => Elems(N[l]) \cap Elems(N[m]) = {}
  /\ \A e \in Nodes : (\A l \in Lists : e \notin Elems(N[l])) => mem[e] = Freed

\* The nodes of a list that are the same in two memories.
LEMMA Unmoved ==
  ASSUME NEW list, NEW mem, NEW ns, Holds(list, mem, ns), NEW mem2,
         \A e \in Elems(ns) : mem2[e] = mem[e]
  PROVE  Holds(list, mem2, ns)
<1>1. \A i \in 1 .. Len(ns) : mem2[ns[i]] = mem[ns[i]]
  BY DEF Elems
<1> QED BY <1>1 DEF Holds, Linked

\* A node in a list is not freed.
LEMMA InUse ==
  ASSUME NEW list, NEW mem, NEW ns, Holds(list, mem, ns), NEW e \in Elems(ns)
  PROVE  mem[e] # Freed /\ mem[e].data \in Data /\ e \in Nodes
<1>1. list # None
  BY DEF Holds, Elems
<1>2. mem[e].data \in Data /\ e \in Nodes
  BY <1>1 DEF Holds, Linked, Elems
<1> QED BY <1>2, LListAssumption DEF Freed

\* One list changes: the nodes it gives up are freed, and the others stay.
LEMMA OneChanges ==
  ASSUME NEW ls, NEW mem, NEW N, AllLinked(ls, mem, N), NEW l \in Lists,
         NEW list2 \in LListType \cup {None}, NEW mem2 \in Memory, NEW ns2 \in Seq(Nodes),
         Holds(list2, mem2, ns2),
         \A m \in Lists \ {l} : Elems(ns2) \cap Elems(N[m]) = {},
         \A e \in Nodes \ (Elems(N[l]) \cup Elems(ns2)) : mem2[e] = mem[e],
         \A e \in Elems(N[l]) \ Elems(ns2) : mem2[e] = Freed
  PROVE  AllLinked([ls EXCEPT ![l] = list2], mem2, [N EXCEPT ![l] = ns2])
<1> DEFINE ls2 == [ls EXCEPT ![l] = list2]
           N2 == [N EXCEPT ![l] = ns2]
<1>1. /\ ls2 \in [Lists -> LListType \cup {None}] /\ N2 \in [Lists -> Seq(Nodes)]
      /\ ls2[l] = list2 /\ N2[l] = ns2
      /\ \A m \in Lists \ {l} : ls2[m] = ls[m] /\ N2[m] = N[m]
  BY DEF AllLinked
<1> HIDE DEF ls2, N2
<1>2. ASSUME NEW m \in Lists PROVE Holds(ls2[m], mem2, N2[m])
  <2>1. CASE m = l
    BY <1>1, <2>1
  <2>2. CASE m # l
    <3>1. Holds(ls[m], mem, N[m]) /\ Elems(ns2) \cap Elems(N[m]) = {}
          /\ Elems(N[l]) \cap Elems(N[m]) = {}
      BY <2>2 DEF AllLinked
    <3>2. \A e \in Elems(N[m]) : mem2[e] = mem[e]
      BY <3>1, InUse
    <3> QED BY <1>1, <2>2, <3>1, <3>2, Unmoved
  <2> QED BY <2>1, <2>2
<1>3. \A m, n \in Lists : m # n => Elems(N2[m]) \cap Elems(N2[n]) = {}
  <2> SUFFICES ASSUME NEW m \in Lists, NEW n \in Lists, m # n
               PROVE  Elems(N2[m]) \cap Elems(N2[n]) = {}
    OBVIOUS
  <2>1. Elems(N[m]) \cap Elems(N[n]) = {}
    BY DEF AllLinked
  <2>2. CASE m = l
    BY <1>1, <2>2
  <2>3. CASE n = l
    BY <1>1, <2>3
  <2>4. CASE m # l /\ n # l
    BY <1>1, <2>1, <2>4
  <2> QED BY <2>2, <2>3, <2>4
<1>4. ASSUME NEW e \in Nodes, \A m \in Lists : e \notin Elems(N2[m]) PROVE mem2[e] = Freed
  <2>1. e \notin Elems(ns2) /\ \A m \in Lists \ {l} : e \notin Elems(N[m])
    BY <1>1, <1>4
  <2>2. CASE e \in Elems(N[l])
    BY <2>1, <2>2
  <2>3. CASE e \notin Elems(N[l])
    <3>1. mem[e] = Freed
      BY <2>1, <2>3 DEF AllLinked
    <3> QED BY <2>1, <2>3, <3>1
  <2> QED BY <2>2, <2>3
<1>5. AllLinked(ls2, mem2, N2)
  BY <1>1, <1>2, <1>3, <1>4 DEF AllLinked
<1> QED BY <1>5 DEF ls2, N2

LEMMA SameNode ==
  ASSUME NEW c \in LNode, NEW d \in LNode,
         c.data = d.data, c.next = d.next, c.previous = d.previous
  PROVE  c = d
BY DEF LNode

LEMMA AddsOne ==
  ASSUME NEW ls, NEW mem, NEW N, AllLinked(ls, mem, N), NEW l \in Lists, ls[l] # None,
         NEW k \in 1 .. Len(N[l]) + 1, NEW e \in Nodes, mem[e] = Freed, NEW x \in Data,
         NEW list2, NEW mem2, InsertsNode(ls[l], mem, N[l], k, e, x, list2, mem2)
  PROVE  AllLinked([ls EXCEPT ![l] = list2], mem2, [N EXCEPT ![l] = Ins(N[l], k, e)])
<1> DEFINE ns2 == Ins(N[l], k, e)
<1>1. /\ Holds(ls[l], mem, N[l]) /\ Linked(ls[l], mem, N[l]) /\ N[l] \in Seq(Nodes)
      /\ mem \in Memory
  BY DEF AllLinked, Holds
<1>2. \A m \in Lists : e \notin Elems(N[m])
  BY InUse DEF AllLinked
<1>3. Linked(list2, mem2, ns2)
  BY <1>1, <1>2, Inserted
<1>4. ns2 \in Seq(Nodes) /\ Elems(ns2) = Elems(N[l]) \cup {e}
  BY <1>1, InsIs
<1> HIDE DEF ns2
<1>5. list2 \in LListType /\ mem2 \in Memory /\ list2 # None
  BY LListAssumption, NodesAre DEF InsertsNode, LListType, NULL
<1>6. \A m \in Lists \ {l} : Elems(ns2) \cap Elems(N[m]) = {}
  BY <1>2, <1>4 DEF AllLinked
<1>7. ASSUME NEW d \in Nodes \ (Elems(N[l]) \cup Elems(ns2)) PROVE mem2[d] = mem[d]
  <2>1. d # e /\ (k > 1 => d # N[l][k - 1]) /\ (k <= Len(N[l]) => d # N[l][k])
    <3>1. d # e /\ \A i \in 1 .. Len(N[l]) : d # N[l][i]
      BY <1>4, <1>7 DEF Elems
    <3>2. (k > 1 => k - 1 \in 1 .. Len(N[l])) /\ (k <= Len(N[l]) => k \in 1 .. Len(N[l]))
      BY <1>1
    <3> QED BY <3>1, <3>2
  <2>2. mem2[d].data = mem[d].data /\ mem2[d].next = mem[d].next
        /\ mem2[d].previous = mem[d].previous
    BY <2>1 DEF InsertsNode
  <2>3. mem2[d] \in LNode /\ mem[d] \in LNode
    BY <1>1, <1>5 DEF Memory
  <2> QED BY <2>2, <2>3, SameNode
<1>8. Holds(list2, mem2, ns2)
  BY <1>3, <1>5 DEF Holds
<1>9. AllLinked([ls EXCEPT ![l] = list2], mem2, [N EXCEPT ![l] = ns2])
  BY <1>4, <1>5, <1>6, <1>7, <1>8, OneChanges
<1> QED BY <1>9 DEF ns2

LEMMA TakesOne ==
  ASSUME NEW ls, NEW mem, NEW N, AllLinked(ls, mem, N), NEW l \in Lists, ls[l] # None,
         NEW k \in 1 .. Len(N[l]),
         NEW list2, NEW mem2, TakesNode(ls[l], mem, N[l], k, list2, mem2)
  PROVE  AllLinked([ls EXCEPT ![l] = list2], mem2, [N EXCEPT ![l] = Del(N[l], k)])
<1> DEFINE ns2 == Del(N[l], k)
<1>1. /\ Holds(ls[l], mem, N[l]) /\ Linked(ls[l], mem, N[l]) /\ N[l] \in Seq(Nodes)
      /\ mem \in Memory /\ \A i, j \in 1 .. Len(N[l]) : N[l][i] = N[l][j] => i = j
  BY DEF AllLinked, Holds, Linked
<1>3. Linked(list2, mem2, ns2)
  BY <1>1, Taken
<1>4. ns2 \in Seq(Nodes) /\ Elems(ns2) = Elems(N[l]) \ {N[l][k]}
  BY <1>1, DelIs
<1> HIDE DEF ns2
<1>5. list2 \in LListType /\ mem2 \in Memory /\ list2 # None
  BY LListAssumption, NodesAre DEF TakesNode, LListType, NULL
<1>6. \A m \in Lists \ {l} : Elems(ns2) \cap Elems(N[m]) = {}
  BY <1>4 DEF AllLinked
<1>7. ASSUME NEW d \in Nodes \ (Elems(N[l]) \cup Elems(ns2)) PROVE mem2[d] = mem[d]
  <2>1. d # N[l][k] /\ (k > 1 => d # N[l][k - 1]) /\ (k < Len(N[l]) => d # N[l][k + 1])
    <3>1. \A i \in 1 .. Len(N[l]) : d # N[l][i]
      BY <1>7 DEF Elems
    <3>2. (k > 1 => k - 1 \in 1 .. Len(N[l])) /\ (k < Len(N[l]) => k + 1 \in 1 .. Len(N[l]))
      BY <1>1
    <3> QED BY <3>1, <3>2
  <2>2. mem2[d].data = mem[d].data /\ mem2[d].next = mem[d].next
        /\ mem2[d].previous = mem[d].previous
    BY <2>1 DEF TakesNode
  <2>3. mem2[d] \in LNode /\ mem[d] \in LNode
    BY <1>1, <1>5 DEF Memory
  <2> QED BY <2>2, <2>3, SameNode
<1>8. Holds(list2, mem2, ns2)
  BY <1>3, <1>5 DEF Holds
<1>9. \A d \in Elems(N[l]) \ Elems(ns2) : mem2[d] = Freed
  BY <1>4 DEF TakesNode
<1>10. AllLinked([ls EXCEPT ![l] = list2], mem2, [N EXCEPT ![l] = ns2])
  BY <1>4, <1>5, <1>6, <1>7, <1>8, <1>9, OneChanges
<1> QED BY <1>10 DEF ns2

-----------------------------------------------------------------------------
(***************************************************************************)
(* One node of the memory is written.                                      *)
(***************************************************************************)
SetNode(mem, e, x, n, p) == [mem EXCEPT ![e] = [data |-> x, next |-> n, previous |-> p]]

SetNext(mem, e, n) == [mem EXCEPT ![e].next = n]

SetPrevious(mem, e, p) == [mem EXCEPT ![e].previous = p]

LEMMA NodeSet ==
  ASSUME NEW mem \in Memory, NEW e \in Nodes, NEW x \in Data \cup {None},
         NEW n \in Nodes \cup {NULL}, NEW p \in Nodes \cup {NULL}
  PROVE  /\ SetNode(mem, e, x, n, p) \in Memory
         /\ SetNode(mem, e, x, n, p)[e] = [data |-> x, next |-> n, previous |-> p]
         /\ \A d \in Nodes \ {e} : SetNode(mem, e, x, n, p)[d] = mem[d]
<1> DEFINE r == [data |-> x, next |-> n, previous |-> p]
<1>1. r \in LNode
  BY DEF LNode
<1> HIDE DEF r
<1>2. [mem EXCEPT ![e] = r] \in Memory /\ [mem EXCEPT ![e] = r][e] = r
      /\ \A d \in Nodes \ {e} : [mem EXCEPT ![e] = r][d] = mem[d]
  BY <1>1 DEF Memory
<1> QED BY <1>2 DEF SetNode, r

\* What one assignment to a node's `next' leaves: mem2 is mem but for it.
NextIs(mem2, mem, e, n) ==
  /\ mem2 \in Memory
  /\ mem2[e].data = mem[e].data
  /\ mem2[e].next = n
  /\ mem2[e].previous = mem[e].previous
  /\ \A d \in Nodes \ {e} : mem2[d] = mem[d]

LEMMA NextSet ==
  ASSUME NEW mem \in Memory, NEW e \in Nodes, NEW n \in Nodes \cup {NULL}
  PROVE  NextIs(SetNext(mem, e, n), mem, e, n)
<1> DEFINE r == [mem[e] EXCEPT !.next = n]
<1>1. mem[e] \in LNode
  BY DEF Memory
<1>2. r \in LNode /\ r.data = mem[e].data /\ r.next = n /\ r.previous = mem[e].previous
  BY <1>1 DEF LNode
<1> HIDE DEF r
<1>3. [mem EXCEPT ![e] = r] \in Memory /\ [mem EXCEPT ![e] = r][e] = r
      /\ \A d \in Nodes \ {e} : [mem EXCEPT ![e] = r][d] = mem[d]
  BY <1>2 DEF Memory
<1>4. SetNext(mem, e, n) = [mem EXCEPT ![e] = r]
  BY DEF SetNext, r
<1> QED BY <1>2, <1>3, <1>4 DEF NextIs

\* What one assignment to a node's `previous' leaves: mem2 is mem but for it.
PreviousIs(mem2, mem, e, p) ==
  /\ mem2 \in Memory
  /\ mem2[e].data = mem[e].data
  /\ mem2[e].next = mem[e].next
  /\ mem2[e].previous = p
  /\ \A d \in Nodes \ {e} : mem2[d] = mem[d]

LEMMA PreviousSet ==
  ASSUME NEW mem \in Memory, NEW e \in Nodes, NEW p \in Nodes \cup {NULL}
  PROVE  PreviousIs(SetPrevious(mem, e, p), mem, e, p)
<1> DEFINE r == [mem[e] EXCEPT !.previous = p]
<1>1. mem[e] \in LNode
  BY DEF Memory
<1>2. r \in LNode /\ r.data = mem[e].data /\ r.next = mem[e].next /\ r.previous = p
  BY <1>1 DEF LNode
<1> HIDE DEF r
<1>3. [mem EXCEPT ![e] = r] \in Memory /\ [mem EXCEPT ![e] = r][e] = r
      /\ \A d \in Nodes \ {e} : [mem EXCEPT ![e] = r][d] = mem[d]
  BY <1>2 DEF Memory
<1>4. SetPrevious(mem, e, p) = [mem EXCEPT ![e] = r]
  BY DEF SetPrevious, r
<1> QED BY <1>2, <1>3, <1>4 DEF PreviousIs

LEMMA NodeFreed ==
  ASSUME NEW mem \in Memory, NEW e \in Nodes
  PROVE  /\ SetNode(mem, e, None, NULL, NULL) \in Memory
         /\ SetNode(mem, e, None, NULL, NULL)[e] = Freed
         /\ \A d \in Nodes \ {e} : SetNode(mem, e, None, NULL, NULL)[d] = mem[d]
<1>1. None \in Data \cup {None} /\ NULL \in Nodes \cup {NULL}
  OBVIOUS
<1> QED BY <1>1, NodeSet DEF Freed

\* malloc finds a freed node, when there is one.
LEMMA Allocated ==
  ASSUME NEW mem, \E e \in Nodes : mem[e] = Freed
  PROVE  Allocate(mem) \in Nodes /\ mem[Allocate(mem)] = Freed
<1> DEFINE T == {e \in Nodes : mem[e] = Freed}
<1>1. T \subseteq Nat /\ T # {}
  BY NodesAre
<1>2. PICK e \in T : \A d \in T : e <= d
  BY <1>1, Least
<1>3. e \in Nodes /\ mem[e] = Freed /\ \A d \in 1 .. e - 1 : mem[d] # Freed
  <2>1. e \in 1 .. MaxNodes /\ MaxNodes \in Nat /\ mem[e] = Freed
    BY <1>2, NodesAre
  <2>2. ASSUME NEW d \in 1 .. e - 1 PROVE mem[d] # Freed
    <3>1. d \in 1 .. MaxNodes /\ ~(e <= d)
      BY <2>1
    <3> QED BY <1>2, <3>1, NodesAre
  <2> QED BY <2>1, <2>2, NodesAre
<1> QED BY <1>3 DEF Allocate

\* In an empty list.
LEMMA InsertsOnly ==
  ASSUME NEW list, NEW mem \in Memory, NEW ns, Linked(list, mem, ns), list.size = 0,
         NEW e \in Nodes, mem[e] = Freed, NEW x \in Data,
         NEW list2, list2 = OnlyEntry([list |-> list, mem |-> mem], e, x).list,
         NEW mem2, mem2 = OnlyEntry([list |-> list, mem |-> mem], e, x).mem
  PROVE  InsertsNode(list, mem, ns, 1, e, x, list2, mem2) /\ Len(ns) = 0
<1>1. Len(ns) = 0
  BY DEF Linked
<1>2. list2 = [first |-> e, last |-> e, size |-> 1] /\ mem2 = SetNode(mem, e, x, NULL, NULL)
  BY DEF OnlyEntry, SetNode
<1>3. list2 \in LListType /\ list2.size = 1 /\ list2.first = e /\ list2.last = e
  BY <1>2 DEF LListType
<1>4. /\ mem2 \in Memory /\ mem2[e] = [data |-> x, next |-> NULL, previous |-> NULL]
      /\ \A d \in Nodes \ {e} : mem2[d] = mem[d]
  BY <1>2, NodeSet
<1> QED BY <1>1, <1>3, <1>4 DEF InsertsNode

LEMMA InsertsFirst ==
  ASSUME NEW list, NEW mem \in Memory, NEW ns, Linked(list, mem, ns),
         \E e \in Nodes : mem[e] = Freed, NEW x \in Data,
         NEW list2, list2 = add_first([list |-> list, mem |-> mem], x).list,
         NEW mem2, mem2 = add_first([list |-> list, mem |-> mem], x).mem
  PROVE  InsertsNode(list, mem, ns, 1, Allocate(mem), x, list2, mem2)
<1> DEFINE e == Allocate(mem)
           f == list.first
           r == [data |-> x, next |-> f, previous |-> NULL]
<1>1. e \in Nodes /\ mem[e] = Freed
  BY Allocated
<1>2. CASE list.size = 0
  <2>1. list2 = OnlyEntry([list |-> list, mem |-> mem], e, x).list
        /\ mem2 = OnlyEntry([list |-> list, mem |-> mem], e, x).mem
    BY <1>2 DEF add_first
  <2> QED BY <1>1, <1>2, <2>1, InsertsOnly
<1>3. CASE list.size # 0
  <2>1. Len(ns) \in Nat /\ Len(ns) >= 1 /\ f = ns[1] /\ f \in Nodes /\ f # e /\ 1 \in 1 .. Len(ns)
    <3>1. Len(ns) \in Nat /\ Len(ns) >= 1 /\ 1 \in 1 .. Len(ns) /\ Len(ns) > 0
      BY <1>3 DEF Linked
    <3>2. f = ns[1] /\ mem[f].data \in Data /\ f \in Nodes
      BY <3>1 DEF Linked
    <3> QED BY <1>1, <3>1, <3>2, LListAssumption DEF Freed
  <2>2. list \in LListType
    BY DEF Linked
  <2>3. list2 = [first |-> e, last |-> list.last, size |-> list.size + 1]
        /\ mem2 = SetPrevious(SetNode(mem, e, x, f, NULL), f, e)
    BY <1>3 DEF add_first, SetPrevious, SetNode
  <2>4. list2 \in LListType /\ list2.size = list.size + 1 /\ list2.first = e
        /\ list2.last = list.last
    BY <1>1, <2>2, <2>3 DEF LListType
  <2> DEFINE mem1 == SetNode(mem, e, x, f, NULL)
  <2>5. mem1 \in Memory /\ mem1[e] = r /\ \A d \in Nodes \ {e} : mem1[d] = mem[d]
    BY <1>1, <2>1, NodeSet
  <2> HIDE DEF e, f, r, mem1
  <2>6. /\ mem2 \in Memory /\ mem2[f].data = mem1[f].data /\ mem2[f].next = mem1[f].next
        /\ mem2[f].previous = e /\ \A d \in Nodes \ {f} : mem2[d] = mem1[d]
    <3>1. mem2 = SetPrevious(mem1, f, e)
      BY <2>3 DEF mem1
    <3>2. mem1 \in Memory /\ f \in Nodes /\ e \in Nodes \cup {NULL}
      BY <1>1, <2>1, <2>5
    <3>3. PreviousIs(SetPrevious(mem1, f, e), mem1, f, e)
      BY <3>2, PreviousSet
    <3> QED BY <3>1, <3>3 DEF PreviousIs
  <2>7. mem2[e] = r
    BY <1>1, <2>1, <2>5, <2>6
  <2>8. \A d \in Nodes \ {e} :
          /\ mem2[d].data = mem[d].data /\ mem2[d].next = mem[d].next
          /\ mem2[d].previous = IF d = f THEN e ELSE mem[d].previous
    BY <2>1, <2>5, <2>6
  <2>9. 1 # Len(ns) + 1 /\ 1 <= Len(ns)
    BY <2>1
  <2> QED BY <2>1, <2>4, <2>6, <2>7, <2>8, <2>9 DEF InsertsNode, e, f, r
<1> QED BY <1>2, <1>3

LEMMA InsertsLast ==
  ASSUME NEW list, NEW mem \in Memory, NEW ns, Linked(list, mem, ns),
         \E e \in Nodes : mem[e] = Freed, NEW x \in Data,
         NEW list2, list2 = llist_add_last_entry([list |-> list, mem |-> mem], x).list,
         NEW mem2, mem2 = llist_add_last_entry([list |-> list, mem |-> mem], x).mem
  PROVE  InsertsNode(list, mem, ns, Len(ns) + 1, Allocate(mem), x, list2, mem2)
<1> DEFINE e == Allocate(mem)
           t == list.last
           r == [data |-> x, next |-> NULL, previous |-> t]
<1>1. e \in Nodes /\ mem[e] = Freed
  BY Allocated
<1>2. CASE list.size = 0
  <2>1. list2 = OnlyEntry([list |-> list, mem |-> mem], e, x).list
        /\ mem2 = OnlyEntry([list |-> list, mem |-> mem], e, x).mem
    BY <1>2 DEF llist_add_last_entry
  <2>2. InsertsNode(list, mem, ns, 1, e, x, list2, mem2) /\ Len(ns) = 0
    BY <1>1, <1>2, <2>1, InsertsOnly
  <2>3. Len(ns) + 1 = 1
    BY <2>2
  <2> QED BY <2>2, <2>3
<1>3. CASE list.size # 0
  <2>1. Len(ns) \in Nat /\ Len(ns) >= 1 /\ t = ns[Len(ns)] /\ t \in Nodes /\ t # e
    <3>1. Len(ns) \in Nat /\ Len(ns) >= 1 /\ Len(ns) \in 1 .. Len(ns) /\ Len(ns) > 0
      BY <1>3 DEF Linked
    <3>2. t = ns[Len(ns)] /\ mem[t].data \in Data /\ t \in Nodes
      BY <3>1 DEF Linked
    <3> QED BY <1>1, <3>1, <3>2, LListAssumption DEF Freed
  <2>2. list \in LListType
    BY DEF Linked
  <2>3. list2 = [first |-> list.first, last |-> e, size |-> list.size + 1]
        /\ mem2 = SetNext(SetNode(mem, e, x, NULL, t), t, e)
    BY <1>3 DEF llist_add_last_entry, SetNext, SetNode
  <2>4. list2 \in LListType /\ list2.size = list.size + 1 /\ list2.first = list.first
        /\ list2.last = e
    BY <1>1, <2>2, <2>3 DEF LListType
  <2> DEFINE mem1 == SetNode(mem, e, x, NULL, t)
  <2>5. mem1 \in Memory /\ mem1[e] = r /\ \A d \in Nodes \ {e} : mem1[d] = mem[d]
    BY <1>1, <2>1, NodeSet
  <2> HIDE DEF e, t, r, mem1
  <2>6. /\ mem2 \in Memory /\ mem2[t].data = mem1[t].data /\ mem2[t].next = e
        /\ mem2[t].previous = mem1[t].previous /\ \A d \in Nodes \ {t} : mem2[d] = mem1[d]
    <3>1. mem2 = SetNext(mem1, t, e)
      BY <2>3 DEF mem1
    <3>2. mem1 \in Memory /\ t \in Nodes /\ e \in Nodes \cup {NULL}
      BY <1>1, <2>1, <2>5
    <3>3. NextIs(SetNext(mem1, t, e), mem1, t, e)
      BY <3>2, NextSet
    <3> QED BY <3>1, <3>3 DEF NextIs
  <2>7. mem2[e] = r
    BY <1>1, <2>1, <2>5, <2>6
  <2>8. \A d \in Nodes \ {e} :
          /\ mem2[d].data = mem[d].data /\ mem2[d].previous = mem[d].previous
          /\ mem2[d].next = IF d = t THEN e ELSE mem[d].next
    BY <2>1, <2>5, <2>6
  <2>9. Len(ns) + 1 # 1 /\ Len(ns) + 1 > 1 /\ ~(Len(ns) + 1 <= Len(ns))
        /\ (Len(ns) + 1) - 1 = Len(ns)
    BY <2>1
  <2> QED BY <2>1, <2>4, <2>6, <2>7, <2>8, <2>9 DEF InsertsNode, e, t, r
<1> QED BY <1>2, <1>3

LEMMA InsertsBefore ==
  ASSUME NEW list, NEW mem \in Memory, NEW ns, Linked(list, mem, ns),
         \E e \in Nodes : mem[e] = Freed, NEW x \in Data, NEW k \in 1 .. Len(ns),
         NEW list2, list2 = InsertBefore([list |-> list, mem |-> mem], ns[k], x).list,
         NEW mem2, mem2 = InsertBefore([list |-> list, mem |-> mem], ns[k], x).mem
  PROVE  InsertsNode(list, mem, ns, k, Allocate(mem), x, list2, mem2)
<1> DEFINE e == Allocate(mem)
           node == ns[k]
           p == mem[node].previous
           r == [data |-> x, next |-> node, previous |-> p]
           mem1 == SetNode(mem, e, x, node, p)
           mem3 == SetPrevious(mem1, node, e)
<1>1. e \in Nodes /\ mem[e] = Freed
  BY Allocated
<1>2. Len(ns) \in Nat /\ list \in LListType /\ k # Len(ns) + 1 /\ k <= Len(ns)
      /\ \A i \in 1 .. Len(ns) : ns[i] \in Nodes /\ ns[i] # e
  <2>1. Len(ns) \in Nat /\ list \in LListType
        /\ \A i \in 1 .. Len(ns) : ns[i] \in Nodes /\ mem[ns[i]].data \in Data
    BY DEF Linked
  <2> QED BY <1>1, <2>1, LListAssumption DEF Freed
<1>3. node \in Nodes /\ node # e
  BY <1>2
<1>4. p = IF k = 1 THEN NULL ELSE ns[k - 1]
  BY DEF Linked, Before
<1>5. k # 1 => p \in Nodes /\ p # e /\ p # node /\ p # NULL
  <2> SUFFICES ASSUME k # 1 PROVE p \in Nodes /\ p # e /\ p # node /\ p # NULL
    OBVIOUS
  <2>1. k - 1 \in 1 .. Len(ns) /\ k - 1 # k
    BY <1>2
  <2>2. ns[k - 1] # ns[k]
    BY <2>1 DEF Linked
  <2>3. p = ns[k - 1] /\ p \in Nodes /\ p # e
    BY <1>2, <1>4, <2>1
  <2>4. ns[k - 1] # NULL
    <3>1. ns[k - 1] \in Nodes
      BY <1>2, <2>1
    <3> QED BY <3>1 DEF Nodes
  <2> HIDE DEF p, e
  <2> QED BY <2>2, <2>3, <2>4
<1>6. /\ list2 = [first |-> IF p = NULL THEN e ELSE list.first, last |-> list.last,
                  size |-> list.size + 1]
      /\ mem2 = IF p = NULL THEN mem3 ELSE SetNext(mem3, p, e)
  BY DEF InsertBefore, SetNext, SetNode, SetPrevious
<1>7. p \in Nodes \cup {NULL}
  BY <1>4, <1>5
<1>8. list2 \in LListType /\ list2.size = list.size + 1 /\ list2.last = list.last
      /\ list2.first = IF k = 1 THEN e ELSE list.first
  BY <1>1, <1>2, <1>4, <1>5, <1>6 DEF LListType
<1>9. mem1 \in Memory /\ mem1[e] = r /\ \A d \in Nodes \ {e} : mem1[d] = mem[d]
  BY <1>1, <1>3, <1>7, NodeSet
<1> HIDE DEF e, node, p, r, mem1
<1>10. /\ mem3 \in Memory /\ mem3[node].previous = e
       /\ mem3[node].data = mem1[node].data /\ mem3[node].next = mem1[node].next
       /\ \A d \in Nodes \ {node} : mem3[d] = mem1[d]
  <2>1. mem1 \in Memory /\ node \in Nodes /\ e \in Nodes \cup {NULL}
    BY <1>1, <1>3, <1>9
  <2>2. PreviousIs(SetPrevious(mem1, node, e), mem1, node, e)
    BY <2>1, PreviousSet
  <2> QED BY <2>2 DEF PreviousIs, mem3
<1> HIDE DEF mem3
<1>11. /\ mem3[e] = r
       /\ \A d \in Nodes \ {e} :
            /\ mem3[d].data = mem[d].data /\ mem3[d].next = mem[d].next
            /\ mem3[d].previous = IF d = node THEN e ELSE mem[d].previous
  BY <1>1, <1>3, <1>9, <1>10
<1>12. CASE k = 1
  <2>1. mem2 = mem3 /\ ~(k > 1)
    BY <1>4, <1>6, <1>12
  <2> QED BY <1>2, <1>4, <1>8, <1>10, <1>11, <1>12, <2>1 DEF InsertsNode, node, r, e
<1>13. CASE k # 1
  <2>1. mem2 = SetNext(mem3, p, e) /\ k > 1 /\ p \in Nodes /\ e \in Nodes \cup {NULL}
    BY <1>1, <1>5, <1>6, <1>13
  <2>2. NextIs(SetNext(mem3, p, e), mem3, p, e)
    BY <1>10, <2>1, NextSet
  <2>3. /\ mem2 \in Memory /\ mem2[e] = r
        /\ \A d \in Nodes \ {e} :
             /\ mem2[d].data = mem[d].data
             /\ mem2[d].next = IF d = p THEN e ELSE mem[d].next
             /\ mem2[d].previous = IF d = node THEN e ELSE mem[d].previous
    <3>1. mem2 \in Memory /\ mem2[p].next = e /\ mem2[p].data = mem3[p].data
          /\ mem2[p].previous = mem3[p].previous /\ \A d \in Nodes \ {p} : mem2[d] = mem3[d]
      BY <2>1, <2>2 DEF NextIs
    <3>2. mem2[e] = r
      BY <1>1, <1>5, <1>11, <1>13, <3>1
    <3> QED BY <1>11, <2>1, <3>1, <3>2
  <2> QED BY <1>2, <1>4, <1>8, <1>13, <2>1, <2>3 DEF InsertsNode, node, r, e
<1> QED BY <1>12, <1>13

\* The record of the list afterwards.
LEMMA Shrinks ==
  ASSUME NEW list \in LListType, list.size # 0, NEW n \in Nodes \cup {NULL}
  PROVE  /\ [list EXCEPT !.size = @ - 1] \in LListType
         /\ [list EXCEPT !.size = @ - 1].size = list.size - 1
         /\ [list EXCEPT !.size = @ - 1].first = list.first
         /\ [list EXCEPT !.size = @ - 1].last = list.last
         /\ [[list EXCEPT !.size = @ - 1] EXCEPT !.first = n] \in LListType
         /\ [[list EXCEPT !.size = @ - 1] EXCEPT !.first = n].size = list.size - 1
         /\ [[list EXCEPT !.size = @ - 1] EXCEPT !.first = n].first = n
         /\ [[list EXCEPT !.size = @ - 1] EXCEPT !.first = n].last = list.last
         /\ [[list EXCEPT !.size = @ - 1] EXCEPT !.last = n] \in LListType
         /\ [[list EXCEPT !.size = @ - 1] EXCEPT !.last = n].size = list.size - 1
         /\ [[list EXCEPT !.size = @ - 1] EXCEPT !.last = n].first = list.first
         /\ [[list EXCEPT !.size = @ - 1] EXCEPT !.last = n].last = n
<1> DEFINE less == [list EXCEPT !.size = @ - 1]
<1>1. list.size - 1 \in Nat
  BY DEF LListType
<1>2. less \in LListType /\ less.size = list.size - 1 /\ less.first = list.first
      /\ less.last = list.last
  BY <1>1 DEF LListType
<1> HIDE DEF less
<1>3. /\ [less EXCEPT !.first = n] \in LListType /\ [less EXCEPT !.last = n] \in LListType
      /\ [less EXCEPT !.first = n].size = less.size /\ [less EXCEPT !.first = n].first = n
      /\ [less EXCEPT !.first = n].last = less.last
      /\ [less EXCEPT !.last = n].size = less.size /\ [less EXCEPT !.last = n].last = n
      /\ [less EXCEPT !.last = n].first = less.first
  BY <1>2 DEF LListType
<1> QED BY <1>2, <1>3 DEF less

LEMMA TakesEntry ==
  ASSUME NEW list, NEW mem \in Memory, NEW ns, Linked(list, mem, ns),
         NEW k \in 1 .. Len(ns),
         NEW list2, list2 = llist_remove_entry([list |-> list, mem |-> mem], ns[k]).list,
         NEW mem2, mem2 = llist_remove_entry([list |-> list, mem |-> mem], ns[k]).mem
  PROVE  TakesNode(list, mem, ns, k, list2, mem2)
<1> DEFINE e == ns[k]
           n == mem[e].next
           p == mem[e].previous
           free == SetNode(mem, e, None, NULL, NULL)
           less == [list EXCEPT !.size = @ - 1]
<1>1. /\ Len(ns) \in Nat /\ list \in LListType /\ list.size = Len(ns) /\ list.size # 0
      /\ Len(ns) > 0 /\ list.first = ns[1] /\ list.last = ns[Len(ns)]
      /\ \A i \in 1 .. Len(ns) : ns[i] \in Nodes
      /\ \A i \in 1 .. Len(ns) : ns[i] = e => i = k
  <2>1. Len(ns) \in Nat /\ Len(ns) > 0
    BY DEF Linked
  <2> QED BY <2>1 DEF Linked
<1>2. e \in Nodes /\ n = After(ns, k) /\ p = Before(ns, k)
  BY <1>1 DEF Linked
<1>3. k # Len(ns) => n = ns[k + 1] /\ n \in Nodes /\ n # e
  <2> SUFFICES ASSUME k # Len(ns) PROVE n = ns[k + 1] /\ n \in Nodes /\ n # e
    OBVIOUS
  <2>1. k + 1 \in 1 .. Len(ns) /\ k + 1 # k
    BY <1>1
  <2>2. n = ns[k + 1]
    BY <1>2 DEF After
  <2> QED BY <1>1, <2>1, <2>2
<1>4. k # 1 => p = ns[k - 1] /\ p \in Nodes /\ p # e
  <2> SUFFICES ASSUME k # 1 PROVE p = ns[k - 1] /\ p \in Nodes /\ p # e
    OBVIOUS
  <2>1. k - 1 \in 1 .. Len(ns) /\ k - 1 # k
    BY <1>1
  <2>2. p = ns[k - 1]
    BY <1>2 DEF Before
  <2> QED BY <1>1, <2>1, <2>2
<1>6. n \in Nodes \cup {NULL} /\ p \in Nodes \cup {NULL}
  BY <1>2, <1>3, <1>4 DEF After, Before
<1>0. e = ns[k] /\ n = mem[e].next /\ p = mem[e].previous
  OBVIOUS
<1> HIDE DEF e, n, p
<1>5. free \in Memory /\ free[e] = Freed /\ \A d \in Nodes \ {e} : free[d] = mem[d]
  BY <1>2, NodeFreed
<1>19. free = [mem EXCEPT ![e] = Freed]
  BY DEF SetNode, Freed
<1>7. (e = list.first <=> k = 1) /\ (e = list.last <=> k = Len(ns))
  <2>1. 1 \in 1 .. Len(ns) /\ Len(ns) \in 1 .. Len(ns)
    BY <1>1
  <2> QED BY <1>0, <1>1, <2>1
<1>8. k >= 1 /\ k <= Len(ns)
  BY <1>1
<1>9. ASSUME Len(ns) = 1 PROVE list2 = NewList /\ mem2 = free
  BY <1>0, <1>1, <1>19, <1>9 DEF llist_remove_entry
<1>10. ASSUME Len(ns) # 1, k = 1
       PROVE  list2 = [less EXCEPT !.first = n] /\ mem2 = SetPrevious(free, n, NULL)
  BY <1>0, <1>1, <1>19, <1>7, <1>10, Zenon DEF llist_remove_entry, SetPrevious
<1>11. ASSUME Len(ns) # 1, k # 1, k = Len(ns)
       PROVE  list2 = [less EXCEPT !.last = p] /\ mem2 = SetNext(free, p, NULL)
  BY <1>0, <1>1, <1>19, <1>7, <1>11, Zenon DEF llist_remove_entry, SetNext
<1>12. ASSUME Len(ns) # 1, k # 1, k # Len(ns)
       PROVE  list2 = less /\ mem2 = SetNext(SetPrevious(free, n, p), p, n)
  BY <1>0, <1>1, <1>19, <1>7, <1>12, Zenon DEF llist_remove_entry, SetNext, SetPrevious
<1>20. /\ less \in LListType /\ less.size = list.size - 1 /\ less.first = list.first
       /\ less.last = list.last
       /\ [less EXCEPT !.first = n] \in LListType
       /\ [less EXCEPT !.first = n].size = list.size - 1
       /\ [less EXCEPT !.first = n].first = n
       /\ [less EXCEPT !.first = n].last = list.last
  BY <1>1, <1>6, Shrinks
<1>21. /\ [less EXCEPT !.last = p] \in LListType
       /\ [less EXCEPT !.last = p].size = list.size - 1
       /\ [less EXCEPT !.last = p].first = list.first
       /\ [less EXCEPT !.last = p].last = p
  BY <1>1, <1>6, Shrinks
<1> HIDE DEF less
<1>13. /\ list2 \in LListType /\ list2.size = list.size - 1
       /\ list2.first = IF k = 1 THEN n ELSE list.first
       /\ list2.last = IF k = Len(ns) THEN p ELSE list.last
  <2>1. CASE Len(ns) = 1
    <3>1. k = 1 /\ n = NULL /\ p = NULL /\ list.size - 1 = 0
      BY <1>1, <1>2, <1>8, <2>1 DEF After, Before
    <3> QED BY <1>9, <2>1, <3>1 DEF NewList, LListType
  <2>2. CASE Len(ns) # 1 /\ k = 1
    <3>1. list2 = [less EXCEPT !.first = n]
      BY <1>10, <2>2
    <3> QED BY <1>20, <2>2, <3>1
  <2>3. CASE Len(ns) # 1 /\ k # 1 /\ k = Len(ns)
    <3>1. list2 = [less EXCEPT !.last = p]
      BY <1>11, <2>3
    <3> QED BY <1>21, <2>3, <3>1
  <2>4. CASE Len(ns) # 1 /\ k # 1 /\ k # Len(ns)
    BY <1>12, <1>20, <2>4
  <2> QED BY <2>1, <2>2, <2>3, <2>4
<1> HIDE DEF free
<1>14. /\ mem2 \in Memory /\ mem2[e] = Freed
       /\ \A d \in Nodes \ {e} :
            /\ mem2[d].data = mem[d].data
            /\ mem2[d].next = IF k # 1 /\ d = p THEN n ELSE mem[d].next
            /\ mem2[d].previous = IF k # Len(ns) /\ d = n THEN p ELSE mem[d].previous
  <2>1. CASE Len(ns) = 1
    <3>1. k = 1 /\ k = Len(ns)
      BY <1>8, <2>1
    <3> QED BY <1>5, <1>9, <2>1, <3>1
  <2>2. CASE Len(ns) # 1 /\ k = 1
    <3>1. k # Len(ns) /\ n \in Nodes /\ n # e /\ p = NULL
      BY <1>2, <1>3, <2>2 DEF Before
    <3>2. PreviousIs(SetPrevious(free, n, NULL), free, n, NULL)
      BY <1>5, <3>1, PreviousSet
    <3>3. /\ mem2 \in Memory /\ mem2[n].previous = NULL
          /\ mem2[n].data = free[n].data /\ mem2[n].next = free[n].next
          /\ \A d \in Nodes \ {n} : mem2[d] = free[d]
      BY <1>10, <2>2, <3>2 DEF PreviousIs
    <3> QED BY <1>2, <1>5, <2>2, <3>1, <3>3
  <2>3. CASE Len(ns) # 1 /\ k # 1 /\ k = Len(ns)
    <3>1. p \in Nodes /\ p # e /\ n = NULL
      BY <1>2, <1>4, <2>3 DEF After
    <3>2. NextIs(SetNext(free, p, NULL), free, p, NULL)
      BY <1>5, <3>1, NextSet
    <3>3. /\ mem2 \in Memory /\ mem2[p].next = NULL
          /\ mem2[p].data = free[p].data /\ mem2[p].previous = free[p].previous
          /\ \A d \in Nodes \ {p} : mem2[d] = free[d]
      BY <1>11, <2>3, <3>2 DEF NextIs
    <3> QED BY <1>2, <1>5, <2>3, <3>1, <3>3
  <2>4. CASE Len(ns) # 1 /\ k # 1 /\ k # Len(ns)
    <3> DEFINE mem1 == SetPrevious(free, n, p)
    <3>1. p \in Nodes /\ p # e /\ n \in Nodes /\ n # e
      BY <1>3, <1>4, <2>4
    <3>2. /\ mem1 \in Memory /\ mem1[n].previous = p
          /\ mem1[n].data = free[n].data /\ mem1[n].next = free[n].next
          /\ \A d \in Nodes \ {n} : mem1[d] = free[d]
      <4>1. PreviousIs(SetPrevious(free, n, p), free, n, p)
        BY <1>5, <3>1, PreviousSet
      <4> QED BY <4>1 DEF PreviousIs, mem1
    <3>3. mem2 = SetNext(mem1, p, n)
      BY <1>12, <2>4
    <3> HIDE DEF mem1
    <3>4. NextIs(SetNext(mem1, p, n), mem1, p, n)
      BY <3>1, <3>2, NextSet
    <3>5. /\ mem2 \in Memory /\ mem2[p].next = n /\ mem2[p].data = mem1[p].data
          /\ mem2[p].previous = mem1[p].previous
          /\ \A d \in Nodes \ {p} : mem2[d] = mem1[d]
      BY <3>3, <3>4 DEF NextIs
    <3>6. /\ mem1[e] = Freed
          /\ \A d \in Nodes \ {e} :
               /\ mem1[d].data = mem[d].data /\ mem1[d].next = mem[d].next
               /\ mem1[d].previous = IF d = n THEN p ELSE mem[d].previous
      BY <1>2, <1>5, <3>1, <3>2
    <3>7. mem2[e] = Freed
      BY <1>2, <3>1, <3>5, <3>6
    <3> QED BY <2>4, <3>1, <3>5, <3>6, <3>7
  <2> QED BY <2>1, <2>2, <2>3, <2>4
<1>15. k = 1 => n = After(ns, 1)
  BY <1>2
<1>16. k = Len(ns) => p = Before(ns, Len(ns))
  BY <1>2
<1>17. (k # 1 => p = ns[k - 1]) /\ (k # Len(ns) => n = ns[k + 1])
       /\ (k > 1 <=> k # 1) /\ (k < Len(ns) <=> k # Len(ns))
  BY <1>1, <1>3, <1>4, <1>8
<1>18. mem2[ns[k]] = Freed /\ \A d \in Nodes \ {ns[k]} :
            /\ mem2[d].data = mem[d].data
            /\ mem2[d].next = IF k # 1 /\ d = p THEN n ELSE mem[d].next
            /\ mem2[d].previous = IF k # Len(ns) /\ d = n THEN p ELSE mem[d].previous
  BY <1>0, <1>14
<1> QED BY <1>2, <1>13, <1>14, <1>15, <1>16, <1>17, <1>18 DEF TakesNode

-----------------------------------------------------------------------------
(***************************************************************************)
(* The invariant: there are nodes N[l] of every list l such that all lists *)
(* are linked, and the iterator stands on a node of its list or at NULL.   *)
(***************************************************************************)
IteratorOK(ls, it, N) ==
  \/ it = NoIterator
  \/ /\ it \in [list : Lists, entry : Nodes \cup {NULL}] /\ ls[it.list] # None
     /\ ls[it.list].size = 0 => ls[it.list].first = NULL
     /\ it.entry \in Elems(N[it.list]) \cup {NULL}

LInv(N) == AllLinked(lists, lnodes, N) /\ IteratorOK(lists, iterator, N)

LListInv == \E N : LInv(N)

LEMMA ListOf ==
  ASSUME NEW N, LInv(N), NEW l \in Lists, Exists(l)
  PROVE  /\ Linked(lists[l], lnodes, N[l]) /\ N[l] \in Seq(Nodes) /\ Len(N[l]) \in Nat
         /\ lists[l] \in LListType /\ lists[l].size = Len(N[l]) /\ lnodes \in Memory
         /\ \A i \in 1 .. Len(N[l]) : N[l][i] \in Nodes
         /\ \A i, j \in 1 .. Len(N[l]) : N[l][i] = N[l][j] => i = j
BY DEF LInv, AllLinked, Holds, Linked, Exists

LEMMA NodesOfList ==
  ASSUME NEW N, LInv(N), NEW l \in Lists, Exists(l),
         lists[l].size = 0 => lists[l].first = NULL
  PROVE  NodesOf(l) = N[l]
<1>1. Linked(lists[l], lnodes, N[l]) /\ (Len(N[l]) = 0 => lists[l].first = NULL)
  BY ListOf
<1>2. Chain(lists[l].first, lnodes) = N[l]
  BY <1>1, ChainOfList
<1> QED BY <1>2 DEF NodesOf

LEMMA FreeNode ==
  ASSUME CanAllocate(1)
  PROVE  \E e \in Nodes : lnodes[e] = Freed
<1> SUFFICES ASSUME {e \in Nodes : lnodes[e] = Freed} = {} PROVE FALSE
  OBVIOUS
<1>1. Cardinality({}) = 0
  BY FS_EmptySet
<1> QED BY <1>1 DEF CanAllocate

-----------------------------------------------------------------------------
(***************************************************************************)
(* What an insertion and a removal do to a sequence.                       *)
(***************************************************************************)
LEMMA InsertAtIs ==
  ASSUME NEW S, NEW s \in Seq(S), NEW k \in 1 .. Len(s) + 1, NEW x \in S
  PROVE  InsertAt(s, k, x) = [i \in 1 .. Len(s) + 1 |->
                                IF i < k THEN s[i] ELSE IF i = k THEN x ELSE s[i - 1]]
<1> DEFINE a == SubSeq(s, 1, k - 1)
           b == SubSeq(s, k, Len(s))
           t == a \o <<x>>
<1>0. Len(s) \in Nat /\ k \in Nat /\ 1 <= k /\ k <= Len(s) + 1
  OBVIOUS
<1>1. a \in Seq(S) /\ Len(a) = k - 1 /\ \A i \in 1 .. k - 1 : a[i] = s[i]
  BY <1>0
<1>2. b \in Seq(S) /\ Len(b) = Len(s) - k + 1 /\ \A i \in 1 .. Len(s) - k + 1 : b[i] = s[i + k - 1]
  BY <1>0
<1> HIDE DEF a, b
<1>3. t \in Seq(S) /\ Len(t) = k /\ t[k] = x /\ \A i \in 1 .. k - 1 : t[i] = s[i]
  BY <1>0, <1>1
<1> HIDE DEF t
<1>4. t \o b \in Seq(S) /\ Len(t \o b) = Len(s) + 1
  BY <1>0, <1>2, <1>3
<1>5. \A i \in 1 .. Len(s) + 1 :
        (t \o b)[i] = IF i < k THEN s[i] ELSE IF i = k THEN x ELSE s[i - 1]
  <2> TAKE i \in 1 .. Len(s) + 1
  <2>1. CASE i <= k
    <3>1. (t \o b)[i] = t[i]
      BY <1>0, <1>2, <1>3, <2>1
    <3> QED BY <1>0, <1>3, <2>1, <3>1
  <2>2. CASE i > k
    <3>1. i - k \in 1 .. Len(s) - k + 1 /\ i - k + k - 1 = i - 1
      BY <1>0, <2>2
    <3>2. (t \o b)[i] = b[i - k]
      BY <1>0, <1>2, <1>3, <2>2
    <3>3. b[i - k] = s[i - 1]
      BY <1>2, <3>1
    <3> QED BY <1>0, <2>2, <3>2, <3>3
  <2>3. i <= k \/ i > k
    BY <1>0
  <2> QED BY <2>1, <2>2, <2>3
<1>6. InsertAt(s, k, x) = t \o b
  BY DEF InsertAt, t, a, b
<1>7. t \o b = [i \in 1 .. Len(s) + 1 |-> (t \o b)[i]]
  <2>1. t \o b \in [1 .. Len(t \o b) -> S]
    BY <1>4, LenProperties
  <2> QED BY <1>4, <2>1
<1> QED BY <1>5, <1>6, <1>7

LEMMA RemoveAtIs ==
  ASSUME NEW S, NEW s \in Seq(S), NEW k \in 1 .. Len(s)
  PROVE  RemoveAt(s, k) = [i \in 1 .. Len(s) - 1 |-> IF i < k THEN s[i] ELSE s[i + 1]]
<1> DEFINE a == SubSeq(s, 1, k - 1)
           b == SubSeq(s, k + 1, Len(s))
<1>0. Len(s) \in Nat /\ k \in Nat /\ 1 <= k /\ k <= Len(s)
  OBVIOUS
<1>1. a \in Seq(S) /\ Len(a) = k - 1 /\ \A i \in 1 .. k - 1 : a[i] = s[i]
  BY <1>0
<1>2. b \in Seq(S) /\ Len(b) = Len(s) - k /\ \A i \in 1 .. Len(s) - k : b[i] = s[i + k]
  BY <1>0
<1> HIDE DEF a, b
<1>3. a \o b \in Seq(S) /\ Len(a \o b) = Len(s) - 1
  <2>1. a \o b \in Seq(S) /\ Len(a \o b) = Len(a) + Len(b)
    BY <1>1, <1>2, ConcatProperties
  <2>2. Len(a) + Len(b) = Len(s) - 1
    BY <1>0, <1>1, <1>2
  <2> QED BY <2>1, <2>2
<1>4. \A i \in 1 .. Len(s) - 1 : (a \o b)[i] = IF i < k THEN s[i] ELSE s[i + 1]
  <2> TAKE i \in 1 .. Len(s) - 1
  <2>1. CASE i < k
    <3>1. (a \o b)[i] = a[i]
      BY <1>0, <1>1, <1>2, <2>1
    <3> QED BY <1>0, <1>1, <2>1, <3>1
  <2>2. CASE i >= k
    <3>1. i - (k - 1) \in 1 .. Len(s) - k /\ i - (k - 1) + k = i + 1
      BY <1>0, <2>2
    <3>2. (a \o b)[i] = b[i - (k - 1)]
      BY <1>0, <1>1, <1>2, <2>2
    <3>3. b[i - (k - 1)] = s[i + 1]
      BY <1>2, <3>1
    <3> QED BY <1>0, <2>2, <3>2, <3>3
  <2>3. i < k \/ i >= k
    BY <1>0
  <2> QED BY <2>1, <2>2, <2>3
<1>5. RemoveAt(s, k) = a \o b
  BY DEF RemoveAt, a, b
<1>6. a \o b = [i \in 1 .. Len(s) - 1 |-> (a \o b)[i]]
  <2>1. a \o b \in [1 .. Len(a \o b) -> S]
    BY <1>3, LenProperties
  <2> QED BY <1>3, <2>1
<1> QED BY <1>4, <1>5, <1>6

-----------------------------------------------------------------------------
(***************************************************************************)
(* What the pointers stand for: the refinement mapping of Sequence.        *)
(***************************************************************************)
DataIn(mem, ns) == [i \in 1 .. Len(ns) |-> mem[ns[i]].data]

ItemsOf(ls, mem) ==
  [l \in Lists |-> IF ~(ls[l] # None) THEN None
                   ELSE IF ls[l].size = 0 THEN <<>>
                   ELSE DataIn(mem, Chain(ls[l].first, mem))]

CursorOf(ls, mem, it) ==
  IF it.list = None THEN 0
  ELSE IF it.entry = NULL THEN ls[it.list].size
  ELSE Len(Chain(ls[it.list].first, mem)) - Len(Chain(it.entry, mem))

items == ItemsOf(lists, lnodes)

cursor == CursorOf(lists, lnodes, iterator)

LEMMA DataOfNodes ==
  ASSUME NEW list, NEW mem, NEW ns, Linked(list, mem, ns)
  PROVE  /\ DataIn(mem, ns) \in Seq(Data) /\ Len(DataIn(mem, ns)) = Len(ns)
         /\ Len(ns) \in Nat /\ list.size = Len(ns)
         /\ \A i \in 1 .. Len(ns) : DataIn(mem, ns)[i] = mem[ns[i]].data
<1>1. Len(ns) \in Nat /\ list.size = Len(ns) /\ \A i \in 1 .. Len(ns) : mem[ns[i]].data \in Data
  BY DEF Linked
<1> QED BY <1>1 DEF DataIn

LEMMA ItemsAre ==
  ASSUME NEW ls, NEW mem, NEW N, AllLinked(ls, mem, N)
  PROVE  ItemsOf(ls, mem) = [l \in Lists |-> IF ls[l] = None THEN None
                                             ELSE DataIn(mem, N[l])]
<1> SUFFICES ASSUME NEW l \in Lists, ls[l] # None
             PROVE  (IF ls[l].size = 0 THEN <<>> ELSE DataIn(mem, Chain(ls[l].first, mem)))
                    = DataIn(mem, N[l])
  BY DEF ItemsOf
<1>1. Linked(ls[l], mem, N[l])
  BY DEF AllLinked, Holds
<1>2. Len(N[l]) \in Nat /\ ls[l].size = Len(N[l])
  BY <1>1 DEF Linked
<1>3. CASE ls[l].size = 0
  BY <1>2, <1>3 DEF DataIn
<1>4. CASE ls[l].size # 0
  <2>1. Chain(ls[l].first, mem) = N[l]
    BY <1>1, <1>2, <1>4, ChainOfList
  <2> QED BY <1>4, <2>1
<1> QED BY <1>3, <1>4

LEMMA CursorIs ==
  ASSUME NEW ls, NEW mem, NEW N, AllLinked(ls, mem, N), NEW it, IteratorOK(ls, it, N)
  PROVE  /\ it.list = None => CursorOf(ls, mem, it) = 0
         /\ it.list # None =>
              /\ it.list \in Lists /\ ls[it.list] # None
              /\ Linked(ls[it.list], mem, N[it.list]) /\ Len(N[it.list]) \in Nat
              /\ CursorOf(ls, mem, it) \in 0 .. Len(N[it.list])
              /\ it.entry = After(N[it.list], CursorOf(ls, mem, it))
<1> SUFFICES ASSUME it.list # None
             PROVE  /\ it.list \in Lists /\ ls[it.list] # None
                    /\ Linked(ls[it.list], mem, N[it.list]) /\ Len(N[it.list]) \in Nat
                    /\ CursorOf(ls, mem, it) \in 0 .. Len(N[it.list])
                    /\ it.entry = After(N[it.list], CursorOf(ls, mem, it))
  BY DEF CursorOf
<1> DEFINE l == it.list
           ns == N[l]
<1>1. /\ l \in Lists /\ ls[l] # None /\ (ls[l].size = 0 => ls[l].first = NULL)
      /\ it.entry \in Elems(ns) \cup {NULL}
  BY DEF IteratorOK, NoIterator
<1>2. Linked(ls[l], mem, ns)
  BY <1>1 DEF AllLinked, Holds
<1>3. Len(ns) \in Nat /\ ls[l].size = Len(ns) /\ \A i \in 1 .. Len(ns) : ns[i] \in Nodes
  BY <1>2 DEF Linked
<1>4. Chain(ls[l].first, mem) = ns
  BY <1>1, <1>2, <1>3, ChainOfList
<1>5. CASE it.entry = NULL
  BY <1>1, <1>2, <1>3, <1>5 DEF CursorOf, After
<1>6. CASE it.entry # NULL
  <2>1. PICK k \in 1 .. Len(ns) : it.entry = ns[k]
    BY <1>1, <1>6 DEF Elems
  <2>2. Chain(ns[k], mem) = [i \in 1 .. Len(ns) - k + 1 |-> ns[k + i - 1]]
    BY <1>2, ChainFrom
  <2>3. Len(ns) - k + 1 \in Nat
    BY <1>3
  <2>4. Len(Chain(ns[k], mem)) = Len(ns) - k + 1
    BY <2>2, <2>3
  <2>5. CursorOf(ls, mem, it) = Len(ns) - (Len(ns) - k + 1)
    BY <1>4, <1>6, <2>1, <2>4 DEF CursorOf
  <2>6. CursorOf(ls, mem, it) = k - 1
    BY <1>3, <2>5
  <2>7. k - 1 \in 0 .. Len(ns) /\ k - 1 # Len(ns) /\ (k - 1) + 1 = k
    BY <1>3
  <2>8. After(ns, k - 1) = ns[k]
    BY <2>7 DEF After
  <2> QED BY <1>1, <1>2, <1>3, <2>1, <2>6, <2>7, <2>8
<1> QED BY <1>5, <1>6

\* A node, or the end, is at one place.
LEMMA OnePlace ==
  ASSUME NEW list, NEW mem, NEW ns, Linked(list, mem, ns),
         NEW c \in 0 .. Len(ns), NEW d \in 0 .. Len(ns), After(ns, c) = After(ns, d)
  PROVE  c = d
<1>1. /\ Len(ns) \in Nat
      /\ \A i \in 1 .. Len(ns) : ns[i] \in Nodes
      /\ \A i, j \in 1 .. Len(ns) : ns[i] = ns[j] => i = j
  BY DEF Linked
<1>2. \A i \in 1 .. Len(ns) : ns[i] # NULL
  <2>1. \A n \in Nodes : n # NULL
    BY DEF Nodes
  <2> QED BY <1>1, <2>1
<1>3. (c # Len(ns) => c + 1 \in 1 .. Len(ns)) /\ (d # Len(ns) => d + 1 \in 1 .. Len(ns))
  BY <1>1
<1>4. CASE c = Len(ns) \/ d = Len(ns)
  BY <1>2, <1>3, <1>4 DEF After
<1>5. CASE c # Len(ns) /\ d # Len(ns)
  <2>1. c + 1 = d + 1
    BY <1>1, <1>3, <1>5 DEF After
  <2> QED BY <2>1
<1> QED BY <1>4, <1>5

LEMMA CursorAt ==
  ASSUME NEW ls, NEW mem, NEW N, AllLinked(ls, mem, N), NEW it, IteratorOK(ls, it, N),
         it.list # None, NEW d \in 0 .. Len(N[it.list]), it.entry = After(N[it.list], d)
  PROVE  CursorOf(ls, mem, it) = d
<1>1. /\ Linked(ls[it.list], mem, N[it.list])
      /\ CursorOf(ls, mem, it) \in 0 .. Len(N[it.list])
      /\ it.entry = After(N[it.list], CursorOf(ls, mem, it))
  BY CursorIs
<1> QED BY <1>1, OnePlace, ZenonT(30)

\* A call that changes one list leaves the items of the others.
LEMMA OthersKeepItems ==
  ASSUME NEW ls, NEW mem, NEW N, AllLinked(ls, mem, N),
         NEW ls2, NEW mem2, NEW M, AllLinked(ls2, mem2, M), NEW l \in Lists,
         \A m \in Lists \ {l} : ls2[m] = ls[m] /\ M[m] = N[m],
         \A e \in Nodes \ (Elems(N[l]) \cup Elems(M[l])) : mem2[e].data = mem[e].data
  PROVE  /\ \A v : ItemsOf(ls2, mem2)[l] = v =>
                     ItemsOf(ls2, mem2) = [ItemsOf(ls, mem) EXCEPT ![l] = v]
         /\ ls2[l] # None => ItemsOf(ls2, mem2)[l] = DataIn(mem2, M[l])
         /\ ls2[l] = None => ItemsOf(ls2, mem2)[l] = None
         /\ ls[l] # None => ItemsOf(ls, mem)[l] = DataIn(mem, N[l])
         /\ ls[l] = None => ItemsOf(ls, mem)[l] = None
<1> DEFINE I == ItemsOf(ls, mem)
           J == ItemsOf(ls2, mem2)
<1>1. I = [m \in Lists |-> IF ls[m] = None THEN None ELSE DataIn(mem, N[m])]
  BY ItemsAre
<1>2. J = [m \in Lists |-> IF ls2[m] = None THEN None ELSE DataIn(mem2, M[m])]
  BY ItemsAre
<1> HIDE DEF I, J
<1>3. /\ N \in [Lists -> Seq(Nodes)]
      /\ \A m \in Lists \ {l} : Elems(N[l]) \cap Elems(N[m]) = {}
      /\ \A m \in Lists \ {l} : Elems(M[l]) \cap Elems(M[m]) = {}
  BY DEF AllLinked
<1>4. ASSUME NEW m \in Lists \ {l} PROVE DataIn(mem2, N[m]) = DataIn(mem, N[m])
  <2>1. ASSUME NEW i \in 1 .. Len(N[m]) PROVE mem2[N[m][i]].data = mem[N[m][i]].data
    <3>1. N[m][i] \in Nodes /\ N[m][i] \in Elems(N[m])
      BY <1>3 DEF Elems
    <3>2. N[m][i] \notin Elems(N[l]) /\ N[m][i] \notin Elems(M[l])
      BY <1>3, <3>1
    <3> QED BY <3>1, <3>2
  <2> QED BY <2>1 DEF DataIn
<1>5. \A m \in Lists \ {l} : J[m] = I[m]
  BY <1>1, <1>2, <1>4
<1>6. ASSUME NEW v, J[l] = v PROVE J = [I EXCEPT ![l] = v]
  BY <1>1, <1>2, <1>5, <1>6
<1>7. /\ ls2[l] # None => J[l] = DataIn(mem2, M[l])
      /\ ls2[l] = None => J[l] = None
      /\ ls[l] # None => I[l] = DataIn(mem, N[l])
      /\ ls[l] = None => I[l] = None
  BY <1>1, <1>2
<1> QED BY <1>6, <1>7 DEF I, J

\* The items of a list into which node e with data x went at k.
LEMMA DataInserted ==
  ASSUME NEW list, NEW mem, NEW ns, Linked(list, mem, ns),
         NEW k \in 1 .. Len(ns) + 1, NEW e \in Nodes, mem[e] = Freed, NEW x \in Data,
         NEW list2, NEW mem2, InsertsNode(list, mem, ns, k, e, x, list2, mem2)
  PROVE  DataIn(mem2, Ins(ns, k, e)) = InsertAt(DataIn(mem, ns), k, x)
<1> DEFINE ms == Ins(ns, k, e)
           n == Len(ns)
           s == DataIn(mem, ns)
<1>1. s \in Seq(Data) /\ Len(s) = n /\ n \in Nat /\ \A i \in 1 .. n : s[i] = mem[ns[i]].data
  BY DataOfNodes
<1>2. ns \in Seq(Nodes) /\ \A i \in 1 .. n : ns[i] \in Nodes /\ ns[i] # e
  <2>1. ns \in Seq(Nodes) /\ \A i \in 1 .. n : ns[i] \in Nodes /\ mem[ns[i]].data \in Data
    BY DEF Linked
  <2>2. mem[e].data \notin Data
    BY LListAssumption DEF Freed
  <2> QED BY <2>1, <2>2
<1>3. /\ Len(ms) = n + 1
      /\ \A i \in 1 .. n + 1 : ms[i] = IF i < k THEN ns[i] ELSE IF i = k THEN e ELSE ns[i - 1]
  BY <1>2, InsIs
<1>4. mem2[e].data = x /\ \A d \in Nodes \ {e} : mem2[d].data = mem[d].data
  BY DEF InsertsNode
<1> HIDE DEF ms, s
<1>5. InsertAt(s, k, x)
      = [i \in 1 .. n + 1 |-> IF i < k THEN s[i] ELSE IF i = k THEN x ELSE s[i - 1]]
  <2>1. k \in 1 .. Len(s) + 1
    BY <1>1
  <2> HIDE DEF n
  <2> QED BY <1>1, <2>1, InsertAtIs
<1>6. ASSUME NEW i \in 1 .. n + 1
      PROVE  mem2[ms[i]].data = IF i < k THEN s[i] ELSE IF i = k THEN x ELSE s[i - 1]
  <2>1. CASE i < k
    <3>1. i \in 1 .. n
      BY <1>1, <2>1
    <3> QED BY <1>1, <1>2, <1>3, <1>4, <2>1, <3>1
  <2>2. CASE i = k
    BY <1>3, <1>4, <2>2
  <2>3. CASE i > k
    <3>1. i - 1 \in 1 .. n /\ ~(i < k) /\ i # k
      BY <1>1, <2>3
    <3> QED BY <1>1, <1>2, <1>3, <1>4, <3>1
  <2>4. i < k \/ i = k \/ i > k
    BY <1>1
  <2> QED BY <2>1, <2>2, <2>3, <2>4
<1>7. DataIn(mem2, ms) = InsertAt(s, k, x)
  BY <1>3, <1>5, <1>6 DEF DataIn
<1> QED BY <1>7 DEF ms, s

LEMMA DataTaken ==
  ASSUME NEW list, NEW mem, NEW ns, Linked(list, mem, ns), NEW k \in 1 .. Len(ns),
         NEW list2, NEW mem2, TakesNode(list, mem, ns, k, list2, mem2)
  PROVE  DataIn(mem2, Del(ns, k)) = RemoveAt(DataIn(mem, ns), k)
<1> DEFINE ms == Del(ns, k)
           n == Len(ns)
           s == DataIn(mem, ns)
<1>1. s \in Seq(Data) /\ Len(s) = n /\ n \in Nat /\ \A i \in 1 .. n : s[i] = mem[ns[i]].data
  BY DataOfNodes
<1>2. /\ ns \in Seq(Nodes) /\ \A i \in 1 .. n : ns[i] \in Nodes
      /\ \A i, j \in 1 .. n : ns[i] = ns[j] => i = j
  BY DEF Linked
<1>3. /\ Len(ms) = n - 1
      /\ \A i \in 1 .. n - 1 : ms[i] = IF i < k THEN ns[i] ELSE ns[i + 1]
  BY <1>2, DelIs
<1>4. \A d \in Nodes \ {ns[k]} : mem2[d].data = mem[d].data
  BY DEF TakesNode
<1> HIDE DEF ms, s
<1>5. RemoveAt(s, k) = [i \in 1 .. n - 1 |-> IF i < k THEN s[i] ELSE s[i + 1]]
  <2>1. k \in 1 .. Len(s)
    BY <1>1
  <2> HIDE DEF n
  <2> QED BY <1>1, <2>1, RemoveAtIs
<1>6. ASSUME NEW i \in 1 .. n - 1
      PROVE  mem2[ms[i]].data = IF i < k THEN s[i] ELSE s[i + 1]
  <2>1. i \in 1 .. n /\ i + 1 \in 1 .. n
    BY <1>1
  <2>2. CASE i < k
    <3>1. ns[i] # ns[k] /\ ns[i] \in Nodes
      BY <1>2, <2>1, <2>2
    <3> QED BY <1>1, <1>3, <1>4, <2>1, <2>2, <3>1
  <2>3. CASE ~(i < k)
    <3>1. i + 1 # k
      BY <1>1, <2>3
    <3>2. ns[i + 1] # ns[k] /\ ns[i + 1] \in Nodes
      BY <1>2, <2>1, <3>1
    <3> QED BY <1>1, <1>3, <1>4, <2>1, <2>3, <3>2
  <2> QED BY <2>2, <2>3
<1>7. DataIn(mem2, ms) = RemoveAt(s, k)
  BY <1>3, <1>5, <1>6 DEF DataIn
<1> QED BY <1>7 DEF ms, s

\* Where the iterator stands, after a node went in or out.
LEMMA AfterInserted ==
  ASSUME NEW ns \in Seq(Nodes), NEW k \in 1 .. Len(ns) + 1, NEW e \in Nodes,
         NEW c \in 0 .. Len(ns), NEW d, d = IF k <= c + 1 THEN c + 1 ELSE c
  PROVE  d \in 0 .. Len(Ins(ns, k, e)) /\ After(Ins(ns, k, e), d) = After(ns, c)
<1> DEFINE ms == Ins(ns, k, e)
<1>1. /\ Len(ns) \in Nat /\ Len(ms) = Len(ns) + 1
      /\ \A i \in 1 .. Len(ns) + 1 : ms[i] = IF i < k THEN ns[i] ELSE IF i = k THEN e ELSE ns[i - 1]
  BY InsIs
<1> HIDE DEF ms
<1>2. d \in 0 .. Len(ms)
  BY <1>1
<1>3. ASSUME c = Len(ns) PROVE After(ms, d) = After(ns, c)
  <2>1. d = Len(ms)
    BY <1>1, <1>3
  <2> QED BY <1>3, <2>1 DEF After
<1>4. ASSUME c # Len(ns), k <= c + 1 PROVE After(ms, d) = After(ns, c)
  <2>1. d = c + 1 /\ d # Len(ms) /\ c + 2 \in 1 .. Len(ns) + 1 /\ ~(c + 2 < k) /\ c + 2 # k
        /\ (c + 2) - 1 = c + 1 /\ d + 1 = c + 2
    BY <1>1, <1>4
  <2>2. ms[c + 2] = ns[c + 1]
    BY <1>1, <2>1
  <2> QED BY <1>4, <2>1, <2>2 DEF After
<1>5. ASSUME c # Len(ns), ~(k <= c + 1) PROVE After(ms, d) = After(ns, c)
  <2>1. d = c /\ d # Len(ms) /\ c + 1 \in 1 .. Len(ns) + 1 /\ c + 1 < k
    BY <1>1, <1>5
  <2>2. ms[c + 1] = ns[c + 1]
    BY <1>1, <2>1
  <2> QED BY <1>5, <2>1, <2>2 DEF After
<1>6. d \in 0 .. Len(ms) /\ After(ms, d) = After(ns, c)
  BY <1>2, <1>3, <1>4, <1>5
<1> QED BY <1>6 DEF ms

LEMMA AfterTaken ==
  ASSUME NEW ns \in Seq(Nodes), NEW k \in 1 .. Len(ns),
         \A i, j \in 1 .. Len(ns) : ns[i] = ns[j] => i = j, NEW c \in 0 .. Len(ns), c + 1 # k,
         NEW d, d = IF k <= c THEN c - 1 ELSE c
  PROVE  d \in 0 .. Len(Del(ns, k)) /\ After(Del(ns, k), d) = After(ns, c)
<1> DEFINE ms == Del(ns, k)
<1>1. /\ Len(ns) \in Nat /\ Len(ms) = Len(ns) - 1
      /\ \A i \in 1 .. Len(ns) - 1 : ms[i] = IF i < k THEN ns[i] ELSE ns[i + 1]
  <2>1. Len(ns) \in Nat
    OBVIOUS
  <2> QED BY <2>1, DelIs
<1> HIDE DEF ms
<1>2. d \in 0 .. Len(ms)
  BY <1>1
<1>3. ASSUME c = Len(ns) PROVE After(ms, d) = After(ns, c)
  <2>1. d = Len(ms)
    BY <1>1, <1>3
  <2> QED BY <1>3, <2>1 DEF After
<1>4. ASSUME c # Len(ns), k <= c PROVE After(ms, d) = After(ns, c)
  <2>1. d = c - 1 /\ d # Len(ms) /\ c \in 1 .. Len(ns) - 1 /\ ~(c < k) /\ d + 1 = c
    BY <1>1, <1>4
  <2>2. ms[c] = ns[c + 1]
    BY <1>1, <2>1
  <2> QED BY <1>4, <2>1, <2>2 DEF After
<1>5. ASSUME c # Len(ns), ~(k <= c) PROVE After(ms, d) = After(ns, c)
  <2>1. d = c /\ d # Len(ms) /\ c + 1 \in 1 .. Len(ns) - 1 /\ c + 1 < k
    BY <1>1, <1>5
  <2>2. ms[c + 1] = ns[c + 1]
    BY <1>1, <2>1
  <2> QED BY <1>5, <2>1, <2>2 DEF After
<1>6. d \in 0 .. Len(ms) /\ After(ms, d) = After(ns, c)
  BY <1>2, <1>3, <1>4, <1>5
<1> QED BY <1>6 DEF ms

\* An iterator of another list stays where it is.
LEMMA CursorKept ==
  ASSUME NEW ls, NEW mem, NEW N, AllLinked(ls, mem, N), NEW it, IteratorOK(ls, it, N),
         NEW ls2, NEW mem2, NEW M, AllLinked(ls2, mem2, M), IteratorOK(ls2, it, M),
         it.list # None => M[it.list] = N[it.list]
  PROVE  CursorOf(ls2, mem2, it) = CursorOf(ls, mem, it)
<1>1. CASE it.list = None
  BY <1>1, CursorIs
<1>2. CASE it.list # None
  <2>1. /\ CursorOf(ls, mem, it) \in 0 .. Len(N[it.list])
        /\ it.entry = After(N[it.list], CursorOf(ls, mem, it))
    BY <1>2, CursorIs
  <2> QED BY <1>2, <2>1, CursorAt
<1> QED BY <1>1, <1>2

-----------------------------------------------------------------------------
(***************************************************************************)
(* The state of the sequences, and what their calls say of it.             *)
(***************************************************************************)
LEMMA SequenceState ==
  ASSUME NEW l \in Lists
  PROVE  /\ Sequence!Exists(l) <=> items[l] # None
         /\ Sequence!Size(l) = Len(items[l])
         /\ \A x : Sequence!Has(l, x) <=> \E i \in 1 .. Len(items[l]) : items[l][i] = x
         /\ Sequence!vars = <<items, iterator.list, cursor, llast>>
BY DEF items, ItemsOf, cursor, CursorOf, NodesOf, DataOf, DataIn, Exists,
       Sequence!Exists, Sequence!Size, Sequence!Has, Sequence!vars

\* The items of a list are the data of its nodes, in their order.
LEMMA ItemsOfList ==
  ASSUME NEW N, LInv(N), NEW l \in Lists
  PROVE  /\ ~Exists(l) => items[l] = None
         /\ Exists(l) => /\ items[l] = DataIn(lnodes, N[l]) /\ items[l] \in Seq(Data)
                         /\ Len(items[l]) = Len(N[l]) /\ items[l] # None
                         /\ \A i \in 1 .. Len(N[l]) : items[l][i] = lnodes[N[l][i]].data
<1>1. items = [m \in Lists |-> IF lists[m] = None THEN None ELSE DataIn(lnodes, N[m])]
  BY ItemsAre DEF LInv, items
<1>2. ASSUME Exists(l)
      PROVE  /\ DataIn(lnodes, N[l]) \in Seq(Data) /\ Len(DataIn(lnodes, N[l])) = Len(N[l])
             /\ \A i \in 1 .. Len(N[l]) : DataIn(lnodes, N[l])[i] = lnodes[N[l][i]].data
  BY <1>2, ListOf, DataOfNodes
<1> QED BY <1>1, <1>2, LListAssumption DEF Exists

\* A list with a new node at k is a sequence with a new item at k.
LEMMA Grown ==
  ASSUME NEW N, LInv(N), NEW l \in Lists, Exists(l), NEW k \in 1 .. Len(N[l]) + 1,
         NEW x \in Data, NEW e \in Nodes, lnodes[e] = Freed,
         NEW h, InsertsNode(lists[l], lnodes, N[l], k, e, x, h.list, h.mem),
         Becomes(l, h), UNCHANGED iterator
  PROVE  LListInv' /\ Sequence!Insert(l, k, x)
<1> DEFINE M == [N EXCEPT ![l] = Ins(N[l], k, e)]
<1>1. AllLinked(lists', lnodes', M)
  <2>1. AllLinked([lists EXCEPT ![l] = h.list], h.mem, M)
    BY AddsOne DEF LInv, Exists
  <2> QED BY <2>1 DEF Becomes
<1>2. /\ N \in [Lists -> Seq(Nodes)] /\ lists \in [Lists -> LListType \cup {None}]
      /\ Len(N[l]) \in Nat /\ N[l] \in Seq(Nodes) /\ lists[l].size \in Nat
      /\ Linked(lists[l], lnodes, N[l]) /\ lists[l] # None
  BY ListOf DEF LInv, AllLinked, LListType, Exists
<1>3. /\ M[l] = Ins(N[l], k, e) /\ Elems(M[l]) = Elems(N[l]) \cup {e}
      /\ \A m \in Lists \ {l} : M[m] = N[m]
  <2>1. Elems(Ins(N[l], k, e)) = Elems(N[l]) \cup {e}
    BY <1>2, InsIs
  <2> QED BY <1>2, <2>1
<1>4. /\ lists'[l] \in LListType /\ lists'[l].size # 0 /\ lists'[l] # None
      /\ \A m \in Lists \ {l} : lists'[m] = lists[m]
  <2>1. h.list \in LListType /\ h.list.size = lists[l].size + 1
    BY DEF InsertsNode
  <2>2. h.list # None
    BY <2>1, LListAssumption, NodesAre DEF LListType
  <2> QED BY <1>2, <2>1, <2>2 DEF Becomes
<1> HIDE DEF M
<1>5. IteratorOK(lists', iterator', M)
  <2> SUFFICES ASSUME iterator # NoIterator PROVE IteratorOK(lists', iterator', M)
    BY DEF IteratorOK
  <2>1. /\ iterator \in [list : Lists, entry : Nodes \cup {NULL}]
        /\ lists[iterator.list] # None /\ iterator.list \in Lists
        /\ lists[iterator.list].size = 0 => lists[iterator.list].first = NULL
        /\ iterator.entry \in Elems(N[iterator.list]) \cup {NULL}
    BY DEF LInv, IteratorOK
  <2>2. CASE iterator.list = l
    BY <1>3, <1>4, <2>1, <2>2 DEF IteratorOK
  <2>3. CASE iterator.list # l
    BY <1>3, <1>4, <2>1, <2>3 DEF IteratorOK
  <2> QED BY <2>2, <2>3
<1>6. items' = [items EXCEPT ![l] = InsertAt(items[l], k, x)]
  <2>1. DataIn(lnodes', M[l]) = InsertAt(DataIn(lnodes, N[l]), k, x)
    <3>1. DataIn(h.mem, Ins(N[l], k, e)) = InsertAt(DataIn(lnodes, N[l]), k, x)
      BY <1>2, DataInserted
    <3> QED BY <1>3, <3>1 DEF Becomes
  <2>2. \A d \in Nodes \ (Elems(N[l]) \cup Elems(M[l])) : lnodes'[d].data = lnodes[d].data
    BY <1>3 DEF InsertsNode, Becomes
  <2>3. AllLinked(lists, lnodes, N) /\ \A m \in Lists \ {l} : lists'[m] = lists[m] /\ M[m] = N[m]
    BY <1>3, <1>4 DEF LInv
  <2>4. /\ \A v : ItemsOf(lists', lnodes')[l] = v =>
                     ItemsOf(lists', lnodes') = [ItemsOf(lists, lnodes) EXCEPT ![l] = v]
        /\ ItemsOf(lists', lnodes')[l] = DataIn(lnodes', M[l])
        /\ ItemsOf(lists, lnodes)[l] = DataIn(lnodes, N[l])
    BY <1>1, <1>2, <1>4, <2>2, <2>3, OthersKeepItems
  <2> QED BY <2>1, <2>4 DEF items
<1>7. cursor' = IF l = iterator.list /\ k <= cursor + 1 THEN cursor + 1 ELSE cursor
  <2>1. CASE iterator.list = l
    <3>1. iterator.list # None
      BY <2>1, LListAssumption
    <3>2. cursor \in 0 .. Len(N[l]) /\ iterator.entry = After(N[l], cursor)
      BY <2>1, <3>1, CursorIs DEF LInv, cursor
    <3> DEFINE d == IF k <= cursor + 1 THEN cursor + 1 ELSE cursor
    <3>3. d \in 0 .. Len(M[l]) /\ iterator.entry = After(M[l], d)
      BY <1>2, <1>3, <3>2, AfterInserted
    <3> HIDE DEF d
    <3>4. CursorOf(lists', lnodes', iterator') = d
      BY <1>1, <1>5, <2>1, <3>1, <3>3, CursorAt
    <3> QED BY <2>1, <3>4 DEF cursor, d
  <2>2. CASE iterator.list # l
    <3>1. AllLinked(lists, lnodes, N) /\ IteratorOK(lists, iterator, N)
      BY DEF LInv
    <3>2. iterator.list # None => M[iterator.list] = N[iterator.list]
      BY <1>3, <2>2, <3>1, CursorIs
    <3>3. CursorOf(lists', lnodes', iterator') = CursorOf(lists, lnodes, iterator)
      BY <1>1, <1>5, <3>1, <3>2, CursorKept
    <3> QED BY <2>2, <3>3 DEF cursor
  <2> QED BY <2>1, <2>2
<1>8. Sequence!Insert(l, k, x)
  BY <1>6, <1>7, Zenon DEF items, ItemsOf, cursor, CursorOf, NodesOf, DataOf, DataIn, Exists,
                    InsertAt, Sequence!Insert, Sequence!InsertAt
<1> QED BY <1>1, <1>5, <1>8 DEF LListInv, LInv

\* The k-th item goes out of list l, as Sequence!Delete says it.
ItemGoesOut(l, k) ==
  /\ items' = [items EXCEPT ![l] = RemoveAt(items[l], k)]
  /\ iterator' = NoIterator => cursor' = 0
  /\ iterator' = iterator =>
       /\ l = iterator.list => k # cursor + 1
       /\ cursor' = IF l = iterator.list /\ k <= cursor THEN cursor - 1 ELSE cursor

LEMMA Shrunk ==
  ASSUME NEW N, LInv(N), NEW l \in Lists, Exists(l), NEW k \in 1 .. Len(N[l]),
         NEW h, TakesNode(lists[l], lnodes, N[l], k, h.list, h.mem), Becomes(l, h),
         \/ iterator' = NoIterator
         \/ iterator' = iterator /\ (iterator.list = l => iterator.entry # N[l][k])
  PROVE  LListInv' /\ ItemGoesOut(l, k)
<1> DEFINE M == [N EXCEPT ![l] = Del(N[l], k)]
<1>1. AllLinked(lists', lnodes', M)
  <2>1. AllLinked([lists EXCEPT ![l] = h.list], h.mem, M)
    BY TakesOne DEF LInv, Exists
  <2> QED BY <2>1 DEF Becomes
<1>2. /\ N \in [Lists -> Seq(Nodes)] /\ lists \in [Lists -> LListType \cup {None}]
      /\ Len(N[l]) \in Nat /\ N[l] \in Seq(Nodes) /\ lists[l].size = Len(N[l])
      /\ Linked(lists[l], lnodes, N[l]) /\ lists[l] # None
      /\ \A i, j \in 1 .. Len(N[l]) : N[l][i] = N[l][j] => i = j
  BY ListOf DEF LInv, AllLinked, Exists
<1>3. /\ M[l] = Del(N[l], k) /\ Elems(M[l]) = Elems(N[l]) \ {N[l][k]}
      /\ \A m \in Lists \ {l} : M[m] = N[m]
  <2>1. Elems(Del(N[l], k)) = Elems(N[l]) \ {N[l][k]}
    BY <1>2, DelIs
  <2> QED BY <1>2, <2>1
<1>4. /\ lists'[l].size = 0 => lists'[l].first = NULL
      /\ \A m \in Lists \ {l} : lists'[m] = lists[m]
      /\ lists'[l] # None
  <2>1. h.list \in LListType /\ h.list.size = Len(N[l]) - 1
        /\ h.list.first = IF k = 1 THEN After(N[l], 1) ELSE lists[l].first
    BY <1>2 DEF TakesNode
  <2>2. ASSUME h.list.size = 0 PROVE h.list.first = NULL
    <3>1. Len(N[l]) - 1 = 0
      BY <2>1, <2>2
    <3>2. Len(N[l]) = 1
      BY <1>2, <3>1
    <3>3. k = 1
      BY <3>2
    <3> QED BY <2>1, <3>2, <3>3 DEF After
  <2>3. h.list # None
    BY <2>1, LListAssumption, NodesAre DEF LListType
  <2> QED BY <1>2, <2>1, <2>2, <2>3 DEF Becomes
<1> HIDE DEF M
<1>5. IteratorOK(lists', iterator', M)
  <2> SUFFICES ASSUME iterator' # NoIterator PROVE IteratorOK(lists', iterator', M)
    BY DEF IteratorOK
  <2>1. /\ iterator' = iterator /\ (iterator.list = l => iterator.entry # N[l][k])
        /\ iterator \in [list : Lists, entry : Nodes \cup {NULL}]
        /\ lists[iterator.list] # None /\ iterator.list \in Lists
        /\ lists[iterator.list].size = 0 => lists[iterator.list].first = NULL
        /\ iterator.entry \in Elems(N[iterator.list]) \cup {NULL}
    BY DEF LInv, IteratorOK
  <2>2. CASE iterator.list = l
    BY <1>3, <1>4, <2>1, <2>2 DEF IteratorOK
  <2>3. CASE iterator.list # l
    BY <1>3, <1>4, <2>1, <2>3 DEF IteratorOK
  <2> QED BY <2>2, <2>3
<1>6. items' = [items EXCEPT ![l] = RemoveAt(items[l], k)]
  <2>1. DataIn(lnodes', M[l]) = RemoveAt(DataIn(lnodes, N[l]), k)
    <3>1. DataIn(h.mem, Del(N[l], k)) = RemoveAt(DataIn(lnodes, N[l]), k)
      BY <1>2, DataTaken
    <3> QED BY <1>3, <3>1 DEF Becomes
  <2>2. \A d \in Nodes \ (Elems(N[l]) \cup Elems(M[l])) : lnodes'[d].data = lnodes[d].data
    <3>1. N[l][k] \in Elems(N[l])
      BY DEF Elems
    <3> QED BY <1>3, <3>1 DEF TakesNode, Becomes
  <2>3. AllLinked(lists, lnodes, N) /\ \A m \in Lists \ {l} : lists'[m] = lists[m] /\ M[m] = N[m]
    BY <1>3, <1>4 DEF LInv
  <2>4. /\ \A v : ItemsOf(lists', lnodes')[l] = v =>
                     ItemsOf(lists', lnodes') = [ItemsOf(lists, lnodes) EXCEPT ![l] = v]
        /\ ItemsOf(lists', lnodes')[l] = DataIn(lnodes', M[l])
        /\ ItemsOf(lists, lnodes)[l] = DataIn(lnodes, N[l])
    BY <1>1, <1>2, <1>4, <2>2, <2>3, OthersKeepItems
  <2> QED BY <2>1, <2>4 DEF items
<1>7. iterator' = NoIterator => cursor' = 0
  BY DEF cursor, CursorOf, NoIterator
<1>8. ASSUME iterator' = iterator
      PROVE  /\ l = iterator.list => k # cursor + 1
             /\ cursor' = IF l = iterator.list /\ k <= cursor THEN cursor - 1 ELSE cursor
  <2>1. CASE iterator.list = l
    <3>1. iterator.list # None
      BY <2>1, LListAssumption
    <3>2. cursor \in 0 .. Len(N[l]) /\ iterator.entry = After(N[l], cursor)
      BY <2>1, <3>1, CursorIs DEF LInv, cursor
    <3>3. cursor + 1 # k
      <4> SUFFICES ASSUME cursor + 1 = k PROVE FALSE
        OBVIOUS
      <4>1. cursor # Len(N[l])
        BY <1>2
      <4>2. iterator.entry = N[l][k]
        BY <3>2, <4>1 DEF After
      <4>3. iterator.list # None /\ NoIterator.list = None
        BY <3>1 DEF NoIterator
      <4> QED BY <1>8, <2>1, <4>2, <4>3
    <3> DEFINE d == IF k <= cursor THEN cursor - 1 ELSE cursor
    <3>4. d \in 0 .. Len(M[l]) /\ iterator.entry = After(M[l], d)
      <4>1. d \in 0 .. Len(Del(N[l], k)) /\ After(Del(N[l], k), d) = After(N[l], cursor)
        BY <1>2, <3>2, <3>3, AfterTaken
      <4> QED BY <1>3, <3>2, <4>1
    <3> HIDE DEF d
    <3>5. CursorOf(lists', lnodes', iterator') = d
      BY <1>1, <1>5, <1>8, <2>1, <3>1, <3>4, CursorAt
    <3> QED BY <2>1, <3>3, <3>5 DEF cursor, d
  <2>2. CASE iterator.list # l
    <3>1. AllLinked(lists, lnodes, N) /\ IteratorOK(lists, iterator, N)
      BY DEF LInv
    <3>2. iterator.list # None => M[iterator.list] = N[iterator.list]
      BY <1>3, <2>2, <3>1, CursorIs
    <3>3. CursorOf(lists', lnodes', iterator') = CursorOf(lists, lnodes, iterator)
      BY <1>1, <1>5, <1>8, <3>1, <3>2, CursorKept
    <3> QED BY <2>2, <3>3 DEF cursor
  <2> QED BY <2>1, <2>2
<1> QED BY <1>1, <1>5, <1>6, <1>7, <1>8 DEF LListInv, LInv, ItemGoesOut

\* The iterator stands on the k-th node when k - 1 items come before it.
LEMMA IteratorAt ==
  ASSUME NEW N, LInv(N), NEW l \in Lists, Exists(l), NEW k \in 1 .. Len(N[l])
  PROVE  iterator = [list |-> l, entry |-> N[l][k]] <=> l = iterator.list /\ k = cursor + 1
<1>1. Linked(lists[l], lnodes, N[l]) /\ Len(N[l]) \in Nat
      /\ \A i \in 1 .. Len(N[l]) : N[l][i] \in Nodes
  BY ListOf
<1>2. ASSUME iterator.list = l
      PROVE  /\ cursor \in 0 .. Len(N[l]) /\ iterator.entry = After(N[l], cursor)
             /\ iterator = [list |-> iterator.list, entry |-> iterator.entry]
  <2>1. iterator.list # None
    BY <1>2, LListAssumption
  <2>2. cursor \in 0 .. Len(N[l]) /\ iterator.entry = After(N[l], cursor)
    BY <1>2, <2>1, CursorIs DEF LInv, cursor
  <2>3. iterator \in [list : Lists, entry : Nodes \cup {NULL}]
    BY <2>1 DEF LInv, IteratorOK, NoIterator
  <2> QED BY <2>2, <2>3
<1>3. k - 1 \in 0 .. Len(N[l]) /\ After(N[l], k - 1) = N[l][k]
  <2>1. k - 1 # Len(N[l]) /\ (k - 1) + 1 = k /\ k - 1 \in 0 .. Len(N[l])
    BY <1>1
  <2> QED BY <2>1 DEF After
<1>4. ASSUME iterator = [list |-> l, entry |-> N[l][k]]
      PROVE  l = iterator.list /\ k = cursor + 1
  <2>1. iterator.list = l /\ iterator.entry = N[l][k]
    BY <1>4
  <2>2. cursor = k - 1
    BY <1>1, <1>2, <1>3, <2>1, OnePlace
  <2> QED BY <2>1, <2>2
<1>5. ASSUME l = iterator.list, k = cursor + 1
      PROVE  iterator = [list |-> l, entry |-> N[l][k]]
  <2>1. cursor = k - 1
    BY <1>2, <1>5
  <2> QED BY <1>2, <1>3, <1>5, <2>1
<1> QED BY <1>4, <1>5

\* It is Sequence!Delete when callers forget such an iterator.
LEMMA ItemDeleted ==
  ASSUME NEW N, LInv(N), NEW l \in Lists, Exists(l), NEW k \in 1 .. Len(N[l]),
         ItemGoesOut(l, k),
         iterator' = IF iterator = [list |-> l, entry |-> N[l][k]] THEN NoIterator
                     ELSE iterator
  PROVE  Sequence!Delete(l, k)
<1>1. iterator' = IF l = iterator.list /\ k = cursor + 1 THEN NoIterator ELSE iterator
  BY IteratorAt
<1>2. /\ items' = [items EXCEPT ![l] = RemoveAt(items[l], k)]
      /\ IF l = iterator.list /\ k = cursor + 1 THEN iterator'.list = None /\ cursor' = 0
         ELSE /\ cursor' = IF l = iterator.list /\ k <= cursor THEN cursor - 1 ELSE cursor
              /\ iterator'.list = iterator.list
  BY <1>1 DEF ItemGoesOut, NoIterator
<1> QED BY <1>2, Zenon DEF items, ItemsOf, cursor, CursorOf, NodesOf, DataOf, DataIn, Exists,
                    RemoveAt, Sequence!Delete, Sequence!RemoveAt, Sequence!StopIterating

LEMMA KeptInv ==
  ASSUME NEW N, LInv(N), lists' = lists, lnodes' = lnodes, iterator' = iterator
  PROVE  LListInv'
BY DEF LListInv, LInv

LEMMA KeptItems ==
  ASSUME Keep
  PROVE  items' = items /\ cursor' = cursor /\ iterator' = iterator
BY DEF Keep, items, cursor

\* Returns of both modules, and a call of Sequence!Reading.
LEMMA ReturnsToo ==
  ASSUME NEW op, NEW l, NEW args, NEW value, Returns(op, l, args, value)
  PROVE  Sequence!Returns(op, l, args, value) /\ llast'[2] = l
BY DEF Returns, Sequence!Returns

LEMMA ReadingIs ==
  ASSUME NEW l \in Lists, Keep,
         \/ \E i \in 0 .. Len(items[l]) :
              Returns("get", l, <<i>>, IF i < Len(items[l]) THEN items[l][i + 1] ELSE None)
         \/ \E i \in 0 .. Len(items[l]), x \in Data :
              Returns("set", l, <<i, x>>, IF i < Len(items[l]) THEN items[l][i + 1] ELSE None)
         \/ \E x \in Data :
              Returns("index_of", l, <<x>>,
                      IF Sequence!Has(l, x)
                      THEN <<Sequence!FirstIndex(l, x) - 1, Sequence!LastIndex(l, x) - 1>>
                      ELSE <<-1, -1>>)
         \/ Returns("to_array", l, <<>>, <<items[l], Len(items[l])>>)
         \/ Returns("ends", l, <<>>, IF Len(items[l]) = 0 THEN <<None, None>>
                                     ELSE <<items[l][1], items[l][Len(items[l])]>>)
         \/ Len(items[l]) = 0 /\ \E op \in {"remove_first", "remove_last"} :
              Returns(op, l, <<>>, None)
         \/ Returns("remove_at", l, <<Len(items[l])>>, None)
         \/ \E x \in Data : Returns("remove", l, <<x>>, None) /\ ~Sequence!Has(l, x)
         \/ \E x \in Data : Returns("add_at", l, <<Len(items[l]) + 1, x>>, None)
  PROVE  Sequence!Reading(l)
<1>1. items' = items /\ cursor' = cursor /\ iterator' = iterator
  BY KeptItems
<1>2. Sequence!Only(items)
  BY <1>1, Zenon DEF items, ItemsOf, cursor, CursorOf, NodesOf, DataOf, DataIn, Exists,
                   Sequence!Only
<1>3. Sequence!Size(l) = Len(items[l])
  BY SequenceState
<1>4. \/ \E i \in 0 .. Len(items[l]) :
           Sequence!Returns("get", l, <<i>>, IF i < Len(items[l]) THEN items[l][i + 1] ELSE None)
      \/ \E i \in 0 .. Len(items[l]), x \in Data :
           Sequence!Returns("set", l, <<i, x>>, IF i < Len(items[l]) THEN items[l][i + 1] ELSE None)
      \/ \E x \in Data :
           Sequence!Returns("index_of", l, <<x>>,
                   IF Sequence!Has(l, x)
                   THEN <<Sequence!FirstIndex(l, x) - 1, Sequence!LastIndex(l, x) - 1>>
                   ELSE <<-1, -1>>)
      \/ Sequence!Returns("to_array", l, <<>>, <<items[l], Len(items[l])>>)
      \/ Sequence!Returns("ends", l, <<>>, IF Len(items[l]) = 0 THEN <<None, None>>
                                           ELSE <<items[l][1], items[l][Len(items[l])]>>)
      \/ Len(items[l]) = 0 /\ \E op \in {"remove_first", "remove_last"} :
           Sequence!Returns(op, l, <<>>, None)
      \/ Sequence!Returns("remove_at", l, <<Len(items[l])>>, None)
      \/ \E x \in Data : Sequence!Returns("remove", l, <<x>>, None) /\ ~Sequence!Has(l, x)
      \/ \E x \in Data : Sequence!Returns("add_at", l, <<Len(items[l]) + 1, x>>, None)
  BY ReturnsToo
<1> QED BY <1>2, <1>3, <1>4, Zenon DEF items, ItemsOf, NodesOf, DataOf, DataIn, Exists,
     Sequence!Reading

-----------------------------------------------------------------------------
(***************************************************************************)
(* The calls that add, remove and read.                                    *)
(***************************************************************************)

LEMMA ReadingNext ==
  ASSUME NEW N, LInv(N), NEW l \in Lists, Exists(l), Sequence!Reading(l), llast'[2] = l
  PROVE  Sequence!Next
<1>1. Sequence!Exists(l)
  BY SequenceState, ItemsOfList
<1> QED BY <1>1 DEF Sequence!Next, Sequence!Call

LEMMA AddingNext ==
  ASSUME NEW N, LInv(N), NEW l \in Lists, Exists(l), NEW x \in Data,
         \/ Returns("add_first", l, <<x>>, None) /\ Sequence!Insert(l, 1, x)
         \/ Returns("add_last", l, <<x>>, None) /\ Sequence!Insert(l, Len(N[l]) + 1, x)
         \/ \E i \in 0 .. Len(N[l]) :
              Returns("add_at", l, <<i, x>>, None) /\ Sequence!Insert(l, i + 1, x)
         \/ \E i \in 1 .. Len(N[l]) :
              \/ Returns("add_after", l, <<i, x>>, None) /\ Sequence!Insert(l, i + 1, x)
              \/ Returns("add_before", l, <<i, x>>, None) /\ Sequence!Insert(l, i, x)
  PROVE  Sequence!Next
<1>1. Sequence!Exists(l) /\ Sequence!Size(l) = Len(N[l])
  BY SequenceState, ItemsOfList
<1>2. \A op, args : Returns(op, l, args, None)
                      => Sequence!Returns(op, l, args, None) /\ llast'[2] = l
  BY ReturnsToo
<1>3. llast'[2] = l
  BY <1>2
<1>4. Sequence!Adding(l)
  BY <1>1, <1>2 DEF Sequence!Adding, Sequence!AddAt
<1> QED BY <1>1, <1>3, <1>4 DEF Sequence!Next, Sequence!Call

\* add_first, llist_add_last_entry and InsertBefore, applied to a list.
LEMMA GrownFirst ==
  ASSUME NEW N, LInv(N), NEW l \in Lists, Exists(l), CanAllocate(1), NEW x \in Data,
         Becomes(l, add_first(With(l), x)), UNCHANGED iterator
  PROVE  LListInv' /\ Sequence!Insert(l, 1, x)
<1> DEFINE h == add_first([list |-> lists[l], mem |-> lnodes], x)
<1>1. Linked(lists[l], lnodes, N[l]) /\ lnodes \in Memory /\ Len(N[l]) \in Nat
  BY ListOf
<1>2. /\ InsertsNode(lists[l], lnodes, N[l], 1, Allocate(lnodes), x, h.list, h.mem)
      /\ Allocate(lnodes) \in Nodes /\ lnodes[Allocate(lnodes)] = Freed
  BY <1>1, FreeNode, InsertsFirst, Allocated
<1>3. Becomes(l, h) /\ 1 \in 1 .. Len(N[l]) + 1
  BY <1>1 DEF With
<1> HIDE DEF h
<1> QED BY <1>2, <1>3, Grown

LEMMA GrownLast ==
  ASSUME NEW N, LInv(N), NEW l \in Lists, Exists(l), CanAllocate(1), NEW x \in Data,
         Becomes(l, llist_add_last_entry(With(l), x)), UNCHANGED iterator
  PROVE  LListInv' /\ Sequence!Insert(l, Len(N[l]) + 1, x)
<1> DEFINE h == llist_add_last_entry([list |-> lists[l], mem |-> lnodes], x)
           k == Len(N[l]) + 1
<1>1. Linked(lists[l], lnodes, N[l]) /\ lnodes \in Memory /\ Len(N[l]) \in Nat
  BY ListOf
<1>2. /\ InsertsNode(lists[l], lnodes, N[l], k, Allocate(lnodes), x, h.list, h.mem)
      /\ Allocate(lnodes) \in Nodes /\ lnodes[Allocate(lnodes)] = Freed
  BY <1>1, FreeNode, InsertsLast, Allocated
<1>3. Becomes(l, h) /\ k \in 1 .. Len(N[l]) + 1
  BY <1>1 DEF With
<1> HIDE DEF h, k
<1>4. LListInv' /\ Sequence!Insert(l, k, x)
  BY <1>2, <1>3, Grown
<1> QED BY <1>4 DEF k

LEMMA GrownBefore ==
  ASSUME NEW N, LInv(N), NEW l \in Lists, Exists(l), CanAllocate(1), NEW x \in Data,
         NEW k \in 1 .. Len(N[l]),
         Becomes(l, InsertBefore(With(l), N[l][k], x)), UNCHANGED iterator
  PROVE  LListInv' /\ Sequence!Insert(l, k, x)
<1> DEFINE h == InsertBefore([list |-> lists[l], mem |-> lnodes], N[l][k], x)
<1>1. Linked(lists[l], lnodes, N[l]) /\ lnodes \in Memory /\ Len(N[l]) \in Nat
  BY ListOf
<1>2. /\ InsertsNode(lists[l], lnodes, N[l], k, Allocate(lnodes), x, h.list, h.mem)
      /\ Allocate(lnodes) \in Nodes /\ lnodes[Allocate(lnodes)] = Freed
  BY <1>1, FreeNode, InsertsBefore, Allocated
<1>3. Becomes(l, h) /\ k \in 1 .. Len(N[l]) + 1
  BY <1>1 DEF With
<1> HIDE DEF h
<1> QED BY <1>2, <1>3, Grown

LEMMA Added ==
  ASSUME NEW N, LInv(N), NEW l \in Lists, LListAdd(l)
  PROVE  LListInv' /\ Sequence!Next
<1>1. PICK x \in Data :
        \/ CanAllocate(1) /\ (llist_add_first(l, x) \/ llist_add_last(l, x))
        \/ \E i \in 0 .. lists[l].size + 1 : CanAllocate(1) /\ llist_add_at(l, i, x)
        \/ \E i \in 1 .. lists[l].size :
             CanAllocate(1) /\ (lnode_add_after(l, i, x) \/ lnode_add_before(l, i, x))
  BY DEF LListAdd
<1>2. Exists(l) /\ CanAllocate(1)
  BY <1>1 DEF LListAdd
<1>3. /\ Linked(lists[l], lnodes, N[l]) /\ lists[l].size = Len(N[l]) /\ Len(N[l]) \in Nat
      /\ \A i \in 1 .. Len(N[l]) : N[l][i] \in Nodes /\ N[l][i] # NULL
  <2>1. \A i \in 1 .. Len(N[l]) : N[l][i] \in Nodes
    BY <1>2, ListOf
  <2>2. \A n \in Nodes : n # NULL
    BY NodesAre DEF Nodes
  <2> QED BY <1>2, <2>1, <2>2, ListOf
<1>4. CASE llist_add_first(l, x)
  <2>1. /\ Becomes(l, add_first(With(l), x)) /\ UNCHANGED iterator
        /\ Returns("add_first", l, <<x>>, None)
    BY <1>4 DEF llist_add_first, Adds
  <2>2. LListInv' /\ Sequence!Insert(l, 1, x)
    BY <1>2, <2>1, GrownFirst
  <2> QED BY <1>2, <2>1, <2>2, AddingNext
<1>5. CASE llist_add_last(l, x)
  <2>1. /\ Becomes(l, llist_add_last_entry(With(l), x)) /\ UNCHANGED iterator
        /\ Returns("add_last", l, <<x>>, None)
    BY <1>5 DEF llist_add_last, Adds
  <2>2. LListInv' /\ Sequence!Insert(l, Len(N[l]) + 1, x)
    BY <1>2, <2>1, GrownLast
  <2> QED BY <1>2, <2>1, <2>2, AddingNext
<1>6. ASSUME NEW i \in 0 .. lists[l].size + 1, llist_add_at(l, i, x)
      PROVE  LListInv' /\ Sequence!Next
  <2>0. UNCHANGED iterator /\ Returns("add_at", l, <<i, x>>, None)
    BY <1>6 DEF llist_add_at, Adds
  <2>1. CASE i > lists[l].size
    <3>1. Becomes(l, With(l)) /\ i = Len(N[l]) + 1
      BY <1>3, <1>6, <2>1 DEF llist_add_at, Adds, With
    <3>2. Keep
      BY <2>0, <3>1 DEF Becomes, With, LInv, AllLinked, Keep
    <3>3. LListInv'
      BY <3>2, KeptInv DEF Keep
    <3>4. Returns("add_at", l, <<Len(items[l]) + 1, x>>, None)
      BY <1>2, <2>0, <3>1, ItemsOfList
    <3>5. Sequence!Reading(l)
      BY <3>2, <3>4, ReadingIs
    <3> QED BY <1>2, <2>0, <3>3, <3>5, ReturnsToo, ReadingNext
  <2>2. CASE i = lists[l].size
    <3>1. Becomes(l, llist_add_last_entry(With(l), x))
      BY <1>3, <1>6, <2>2 DEF llist_add_at, Adds, With
    <3>2. LListInv' /\ Sequence!Insert(l, i + 1, x)
      BY <1>2, <1>3, <2>0, <2>2, <3>1, GrownLast
    <3>3. i \in 0 .. Len(N[l])
      BY <1>3, <2>2
    <3> QED BY <1>2, <2>0, <3>2, <3>3, AddingNext
  <2>3. CASE i < lists[l].size
    <3>1. i \in 0 .. Len(N[l]) - 1 /\ i + 1 \in 1 .. Len(N[l])
          /\ ~(i > lists[l].size) /\ i # lists[l].size /\ i \in 0 .. Len(N[l])
      BY <1>3, <2>3
    <3>2. llist_get_entry([list |-> lists[l], mem |-> lnodes], i) = N[l][i + 1]
      BY <1>3, <3>1, EntryFound
    <3>3. Becomes(l, InsertBefore(With(l), llist_get_entry(With(l), i), x))
      BY <1>3, <1>6, <3>1 DEF llist_add_at, Adds, With
    <3>4. Becomes(l, InsertBefore(With(l), N[l][i + 1], x))
      BY <3>2, <3>3 DEF With
    <3>5. LListInv' /\ Sequence!Insert(l, i + 1, x)
      BY <1>2, <2>0, <3>1, <3>4, GrownBefore
    <3> QED BY <1>2, <2>0, <3>1, <3>5, AddingNext
  <2> QED BY <1>3, <2>1, <2>2, <2>3
<1>7. ASSUME NEW i \in 1 .. lists[l].size PROVE NodesOf(l)[i] = N[l][i]
  <2>1. lists[l].size # 0
    BY <1>3
  <2> QED BY <1>2, <2>1, NodesOfList
<1>8. ASSUME NEW i \in 1 .. lists[l].size, lnode_add_after(l, i, x)
      PROVE  LListInv' /\ Sequence!Next
  <2>0. UNCHANGED iterator /\ Returns("add_after", l, <<i, x>>, None)
    BY <1>8 DEF lnode_add_after, Adds
  <2>1. NodesOf(l)[i] = N[l][i] /\ i \in 1 .. Len(N[l])
    BY <1>3, <1>7
  <2>2. lnodes[N[l][i]].next = After(N[l], i)
    BY <1>3, <2>1 DEF Linked
  <2>3. LListInv' /\ Sequence!Insert(l, i + 1, x)
    <3>1. CASE i = Len(N[l])
      <4>1. Becomes(l, llist_add_last_entry(With(l), x))
        BY <1>8, <2>1, <2>2, <3>1 DEF lnode_add_after, Adds, After
      <4> QED BY <1>2, <2>0, <3>1, <4>1, GrownLast
    <3>2. CASE i # Len(N[l])
      <4>1. i + 1 \in 1 .. Len(N[l])
        BY <1>3, <2>1, <3>2
      <4>2. Becomes(l, InsertBefore(With(l), N[l][i + 1], x))
        BY <1>3, <1>8, <2>1, <2>2, <3>2, <4>1 DEF lnode_add_after, Adds, After
      <4> QED BY <1>2, <2>0, <4>1, <4>2, GrownBefore
    <3> QED BY <3>1, <3>2
  <2> QED BY <1>2, <2>0, <2>1, <2>3, AddingNext
<1>9. ASSUME NEW i \in 1 .. lists[l].size, lnode_add_before(l, i, x)
      PROVE  LListInv' /\ Sequence!Next
  <2>0. UNCHANGED iterator /\ Returns("add_before", l, <<i, x>>, None)
    BY <1>9 DEF lnode_add_before, Adds
  <2>1. NodesOf(l)[i] = N[l][i] /\ i \in 1 .. Len(N[l])
    BY <1>3, <1>7
  <2>2. lnodes[N[l][i]].previous = Before(N[l], i)
    BY <1>3, <2>1 DEF Linked
  <2>3. LListInv' /\ Sequence!Insert(l, i, x)
    <3>1. CASE i = 1
      <4>1. Becomes(l, add_first(With(l), x))
        BY <1>9, <2>1, <2>2, <3>1 DEF lnode_add_before, Adds, Before
      <4> QED BY <1>2, <2>0, <3>1, <4>1, GrownFirst
    <3>2. CASE i # 1
      <4>1. i - 1 \in 1 .. Len(N[l])
        BY <1>3, <2>1, <3>2
      <4>2. Becomes(l, InsertBefore(With(l), N[l][i], x))
        BY <1>3, <1>9, <2>1, <2>2, <3>2, <4>1 DEF lnode_add_before, Adds, Before
      <4> QED BY <1>2, <2>0, <2>1, <4>2, GrownBefore
    <3> QED BY <3>1, <3>2
  <2> QED BY <1>2, <2>0, <2>1, <2>3, AddingNext
<1> QED BY <1>1, <1>4, <1>5, <1>6, <1>8, <1>9

LEMMA MinIs ==
  ASSUME NEW T, T \subseteq Nat, T # {}
  PROVE  Min(T) \in T /\ \A y \in T : Min(T) <= y
<1>1. \E x \in T : \A y \in T : x <= y
  BY Least
<1> QED BY <1>1 DEF Min

\* What llist_index_of finds, and llist_last_index_of: the indices of x in the
\* nodes ns, from the front or from the back.
FoundIn(mem, ns, x, found) ==
  \A i : i \in found <=> i \in 1 .. Len(ns) /\ mem[ns[i]].data = x

FoundBack(mem, back, x, found) ==
  \A i : i \in found <=> i \in 0 .. MaxNodes /\ back[i] # NULL /\ mem[back[i]].data = x

LEMMA FirstFound ==
  ASSUME NEW N, LInv(N), NEW l \in Lists, Exists(l), NEW x,
         NEW found, FoundIn(lnodes, N[l], x, found)
  PROVE  /\ Sequence!Has(l, x) <=> found # {}
         /\ found # {} => Min(found) \in 1 .. Len(N[l]) /\ Sequence!FirstIndex(l, x) = Min(found)
<1>1. /\ Len(N[l]) \in Nat /\ Len(items[l]) = Len(N[l])
      /\ \A i \in 1 .. Len(N[l]) : items[l][i] = lnodes[N[l][i]].data
  BY ListOf, ItemsOfList
<1>2. \A i : i \in found <=> i \in 1 .. Len(N[l]) /\ items[l][i] = x
  BY <1>1 DEF FoundIn
<1>3. Sequence!Has(l, x) <=> found # {}
  BY <1>1, <1>2, SequenceState
<1>4. ASSUME found # {}
      PROVE  Min(found) \in 1 .. Len(N[l]) /\ Sequence!FirstIndex(l, x) = Min(found)
  <2> DEFINE m == Min(found)
             n == Len(N[l])
             IsFirst(i) == items[l][i] = x /\ \A j \in 1 .. i - 1 : items[l][j] # x
             f == CHOOSE i \in 1 .. n : IsFirst(i)
  <2>1. m \in found /\ \A y \in found : m <= y
    <3>1. found \subseteq Nat
      BY <1>1, <1>2
    <3> QED BY <1>4, <3>1, MinIs
  <2>2. m \in 1 .. n /\ m \in Nat
    BY <1>1, <1>2, <2>1
  <2> HIDE DEF m
  <2>3. ASSUME NEW j \in 1 .. m - 1, items[l][j] = x PROVE FALSE
    <3>1. j \in 1 .. n /\ ~(m <= j)
      BY <1>1, <2>2
    <3> QED BY <1>2, <2>1, <2>3, <3>1
  <2>4. IsFirst(m)
    BY <1>2, <2>1, <2>3
  <2>5. f \in 1 .. n /\ IsFirst(f)
    BY <2>2, <2>4
  <2> HIDE DEF f
  <2>6. m <= f /\ f \in Nat
    BY <1>2, <2>1, <2>5
  <2>7. ~(m < f)
    <3> SUFFICES ASSUME m < f PROVE FALSE
      OBVIOUS
    <3>1. m \in 1 .. f - 1
      BY <2>2, <2>6
    <3> QED BY <2>4, <2>5, <3>1
  <2>8. f = m
    BY <2>2, <2>6, <2>7
  <2>9. Sequence!FirstIndex(l, x) = f
    <3>1. Sequence!Size(l) = n
      BY <1>1, SequenceState
    <3> QED BY <3>1 DEF Sequence!FirstIndex, f, items, ItemsOf, NodesOf, DataOf, DataIn, Exists
  <2> QED BY <2>2, <2>8, <2>9 DEF m
<1> QED BY <1>3, <1>4

LEMMA WalkNowhere ==
  ASSUME NEW link
  PROVE  \A i \in 0 .. MaxNodes : Walk(NULL, link)[i] = NULL
<1> DEFINE at == Walk(NULL, link)
           T == {i \in Nat : i <= MaxNodes => at[i] = NULL}
<1>0. MaxNodes \in Nat
  BY NodesAre
<1>1. at[0] = NULL /\ \A i \in 1 .. MaxNodes : at[i - 1] = NULL => at[i] = NULL
  BY WalkSteps
<1> HIDE DEF at
<1>2. 0 \in T
  BY <1>1
<1>3. ASSUME NEW i \in Nat, i \in T PROVE i + 1 \in T
  <2>1. CASE i + 1 <= MaxNodes
    <3>1. i <= MaxNodes /\ i + 1 \in 1 .. MaxNodes /\ (i + 1) - 1 = i
      BY <1>0, <2>1
    <3>2. at[i] = NULL
      BY <1>3, <3>1
    <3>3. at[i + 1] = NULL
      BY <1>1, <3>1, <3>2
    <3> QED BY <3>3
  <2> QED BY <2>1
<1> HIDE DEF T
<1>4. \A i \in Nat : i \in T
  BY <1>2, <1>3, SetInduction
<1> QED BY <1>0, <1>4 DEF T, at

LEMMA LastFound ==
  ASSUME NEW N, LInv(N), NEW l \in Lists, Exists(l), NEW x \in Data,
         NEW back, back = Walk(lists[l].last, PreviousOf(lnodes)),
         NEW found, FoundBack(lnodes, back, x, found)
  PROVE  /\ Sequence!Has(l, x) <=> found # {}
         /\ found # {} => /\ Min(found) \in 0 .. Len(N[l]) - 1
                          /\ Sequence!LastIndex(l, x) = Len(N[l]) - Min(found)
<1> DEFINE n == Len(N[l])
           m == Min(found)
<1>1. /\ n \in Nat /\ Len(items[l]) = n /\ Linked(lists[l], lnodes, N[l])
      /\ \A i \in 1 .. n : items[l][i] = lnodes[N[l][i]].data
      /\ \A i \in 1 .. n : N[l][i] \in Nodes
      /\ N[l] \in Seq(Nodes) /\ MaxNodes \in Nat
  BY ListOf, ItemsOfList, NodesAre
<1>2. n <= MaxNodes
  BY <1>1, NoMoreThanNodes DEF Linked
<1>3. \A i \in 1 .. n : N[l][i] # NULL
  <2>1. \A e \in Nodes : e # NULL
    BY DEF Nodes
  <2> QED BY <1>1, <2>1
<1>4. \A i \in 0 .. MaxNodes : back[i] = IF i < n THEN N[l][n - i] ELSE NULL
  <2>1. CASE n > 0
    BY <1>1, <2>1, Backward
  <2>2. CASE n = 0
    <3>1. lists[l].last = NULL
      BY <1>1, <2>2 DEF Linked
    <3>2. \A i \in 0 .. MaxNodes : back[i] = NULL
      BY <3>1, WalkNowhere
    <3> QED BY <1>1, <2>2, <3>2
  <2> QED BY <1>1, <2>1, <2>2
<1> HIDE DEF n, m
<1>0. \A i : i \in found <=> i \in 0 .. MaxNodes /\ back[i] # NULL /\ lnodes[back[i]].data = x
  BY DEF FoundBack
<1>5. \A i \in 0 .. MaxNodes : i \in found <=> i < n /\ items[l][n - i] = x
  <2> TAKE i \in 0 .. MaxNodes
  <2>1. CASE i < n
    <3>1. n - i \in 1 .. n
      BY <1>1, <2>1
    <3>2. back[i] = N[l][n - i] /\ back[i] # NULL /\ items[l][n - i] = lnodes[N[l][n - i]].data
      BY <1>1, <1>3, <1>4, <2>1, <3>1
    <3> QED BY <1>0, <2>1, <3>2
  <2>2. CASE ~(i < n)
    BY <1>0, <1>4, <2>2
  <2> QED BY <2>1, <2>2
<1>6. \A j \in 1 .. n : /\ n - j \in 0 .. MaxNodes /\ n - j < n /\ n - (n - j) = j
                        /\ items[l][j] = x => n - j \in found
  <2> TAKE j \in 1 .. n
  <2>1. n - j \in 0 .. MaxNodes /\ n - j < n /\ n - (n - j) = j
    BY <1>1, <1>2
  <2> QED BY <1>5, <2>1
<1>7. found # {} => \E j \in 1 .. n : items[l][j] = x
  <2> SUFFICES ASSUME NEW i \in found PROVE \E j \in 1 .. n : items[l][j] = x
    OBVIOUS
  <2>1. i \in 0 .. MaxNodes /\ i < n /\ items[l][n - i] = x
    BY <1>0, <1>5
  <2>2. n - i \in 1 .. n
    BY <1>1, <2>1
  <2> QED BY <2>1, <2>2
<1>8. Sequence!Has(l, x) <=> found # {}
  <2>1. Sequence!Has(l, x) <=> \E j \in 1 .. n : items[l][j] = x
    BY <1>1, SequenceState
  <2> QED BY <1>6, <1>7, <2>1
<1>9. ASSUME found # {}
      PROVE  m \in 0 .. n - 1 /\ Sequence!LastIndex(l, x) = n - m
  <2> DEFINE IsLast(i) == items[l][i] = x /\ \A j \in i + 1 .. n : items[l][j] # x
             f == CHOOSE i \in 1 .. n : IsLast(i)
  <2>1. m \in found /\ \A y \in found : m <= y
    <3>1. found \subseteq Nat
      BY <1>0, <1>1
    <3> QED BY <1>9, <3>1, MinIs DEF m
  <2>2. m \in 0 .. MaxNodes /\ m < n /\ items[l][n - m] = x
    BY <1>0, <1>5, <2>1
  <2>3. n - m \in 1 .. n /\ m \in 0 .. n - 1
    BY <1>1, <2>2
  <2>4. ASSUME NEW j \in (n - m) + 1 .. n, items[l][j] = x PROVE FALSE
    <3>1. j \in 1 .. n /\ ~(m <= n - j)
      BY <1>1, <2>2
    <3> QED BY <1>6, <2>1, <2>4, <3>1
  <2>5. IsLast(n - m)
    BY <2>2, <2>4
  <2>6. f \in 1 .. n /\ IsLast(f)
    BY <2>3, <2>5
  <2> HIDE DEF f
  <2>7. m <= n - f
    BY <1>6, <2>1, <2>6
  <2>8. ~(m < n - f)
    <3> SUFFICES ASSUME m < n - f PROVE FALSE
      OBVIOUS
    <3>1. n - m \in f + 1 .. n
      BY <1>1, <2>2, <2>6
    <3> QED BY <2>2, <2>6, <3>1
  <2>9. f = n - m
    BY <1>1, <2>2, <2>6, <2>7, <2>8
  <2>10. Sequence!LastIndex(l, x) = f
    <3>1. Sequence!Size(l) = n
      BY <1>1, SequenceState
    <3> QED BY <3>1 DEF Sequence!LastIndex, f, items, ItemsOf, NodesOf, DataOf, DataIn, Exists
  <2> QED BY <2>3, <2>9, <2>10
<1> QED BY <1>8, <1>9 DEF n, m

LEMMA OneOrMore == \A n \in Nat : n > 0 /\ n # 1 => n > 1 /\ 1 < n
OBVIOUS

LEMMA TakesFirst ==
  ASSUME NEW list, NEW mem \in Memory, NEW ns, Linked(list, mem, ns), list.size # 0,
         NEW list2, list2 = remove_first([list |-> list, mem |-> mem]).list,
         NEW mem2, mem2 = remove_first([list |-> list, mem |-> mem]).mem
  PROVE  TakesNode(list, mem, ns, 1, list2, mem2) /\ 1 \in 1 .. Len(ns) /\ list.first = ns[1]
<1> DEFINE e == ns[1]
           n == mem[e].next
           free == SetNode(mem, e, None, NULL, NULL)
<1>0. Len(ns) \in Nat /\ Len(ns) > 0 /\ list.size = Len(ns)
  BY DEF Linked
<1>1. 1 \in 1 .. Len(ns) /\ list \in LListType /\ e \in Nodes /\ list.first = e
      /\ list.last = ns[Len(ns)]
  <2>1. 1 \in 1 .. Len(ns)
    BY <1>0
  <2> QED BY <1>0, <2>1 DEF Linked
<1>2. n = After(ns, 1)
  BY <1>1 DEF Linked
<1>3. list2 = [first |-> n, last |-> IF n = NULL THEN NULL ELSE list.last,
               size |-> list.size - 1]
      /\ mem2 = IF n = NULL THEN free ELSE SetPrevious(free, n, NULL)
  BY <1>1 DEF remove_first, SetNode, SetPrevious, Freed
<1> HIDE DEF e
<1>4. free \in Memory /\ free[e] = Freed /\ \A d \in Nodes \ {e} : free[d] = mem[d]
  <2>1. e \in Nodes
    BY <1>1
  <2> QED BY <2>1, NodeFreed
<1> HIDE DEF n, free
<1>5. CASE Len(ns) = 1
  <2>1. n = NULL
    BY <1>2, <1>5 DEF After
  <2>2. list2 = [first |-> NULL, last |-> NULL, size |-> list.size - 1]
        /\ list.size - 1 = 0 /\ mem2 = free
    BY <1>0, <1>3, <1>5, <2>1
  <2>3. list2 \in LListType /\ list2.size = list.size - 1 /\ list2.first = NULL
        /\ list2.last = NULL
    BY <2>2 DEF LListType
  <2> QED BY <1>1, <1>2, <1>4, <1>5, <2>1, <2>2, <2>3 DEF TakesNode, Before, e
<1>6. CASE Len(ns) # 1
  <2>0. 2 \in 1 .. Len(ns) /\ list.size - 1 \in Nat /\ 1 < Len(ns)
    <3>1. 1 < Len(ns)
      BY <1>0, <1>6, OneOrMore
    <3> QED BY <1>0, <3>1
  <2>1. n = ns[2] /\ n \in Nodes /\ n # e /\ n # NULL
    <3>1. n = ns[2]
      BY <1>2, <1>6 DEF After
    <3>2. ns[2] \in Nodes /\ ns[2] # e
      BY <1>1, <2>0 DEF Linked, e
    <3> QED BY <3>1, <3>2 DEF Nodes
  <2>2. list2 = [first |-> n, last |-> list.last, size |-> list.size - 1]
        /\ mem2 = SetPrevious(free, n, NULL)
    BY <1>3, <2>1
  <2>3. list2 \in LListType /\ list2.size = list.size - 1 /\ list2.first = n
        /\ list2.last = list.last
    BY <1>1, <2>0, <2>1, <2>2 DEF LListType
  <2>5. PreviousIs(SetPrevious(free, n, NULL), free, n, NULL)
    BY <1>4, <2>1, PreviousSet
  <2>6. /\ mem2 \in Memory /\ mem2[n].previous = NULL
        /\ mem2[n].data = free[n].data /\ mem2[n].next = free[n].next
        /\ \A d \in Nodes \ {n} : mem2[d] = free[d]
    BY <2>2, <2>5 DEF PreviousIs
  <2>7. /\ mem2[e] = Freed
        /\ \A d \in Nodes \ {e} :
             /\ mem2[d].data = mem[d].data /\ mem2[d].next = mem[d].next
             /\ mem2[d].previous = IF d = n THEN NULL ELSE mem[d].previous
    <3>1. mem2[e] = Freed
      BY <1>1, <1>4, <2>1, <2>6
    <3> QED BY <1>4, <2>1, <2>6, <3>1
  <2>8. 1 # Len(ns) /\ ns[1 + 1] = ns[2] /\ ~(1 > 1) /\ Before(ns, 1) = NULL
    BY <1>6 DEF Before
  <2> QED BY <1>1, <1>2, <2>0, <2>1, <2>3, <2>6, <2>7, <2>8 DEF TakesNode, e
<1> QED BY <1>1, <1>5, <1>6 DEF e

LEMMA TakesLast ==
  ASSUME NEW list, NEW mem \in Memory, NEW ns, Linked(list, mem, ns), list.size # 0,
         NEW list2, list2 = remove_last([list |-> list, mem |-> mem]).list,
         NEW mem2, mem2 = remove_last([list |-> list, mem |-> mem]).mem
  PROVE  /\ TakesNode(list, mem, ns, Len(ns), list2, mem2) /\ Len(ns) \in 1 .. Len(ns)
         /\ list.last = ns[Len(ns)]
<1> DEFINE e == ns[Len(ns)]
           p == mem[e].previous
           free == SetNode(mem, e, None, NULL, NULL)
<1>0. Len(ns) \in Nat /\ Len(ns) > 0 /\ list.size = Len(ns)
  BY DEF Linked
<1>1. Len(ns) \in 1 .. Len(ns) /\ list \in LListType /\ e \in Nodes /\ list.first = ns[1]
      /\ list.last = e
  <2>1. Len(ns) \in 1 .. Len(ns)
    BY <1>0
  <2> QED BY <1>0, <2>1 DEF Linked
<1>2. p = Before(ns, Len(ns))
  BY <1>1 DEF Linked
<1>3. list2 = [first |-> IF p = NULL THEN NULL ELSE list.first, last |-> p,
               size |-> list.size - 1]
      /\ mem2 = IF p = NULL THEN free ELSE SetNext(free, p, NULL)
  BY <1>1 DEF remove_last, SetNode, SetNext, Freed
<1> HIDE DEF e
<1>4. free \in Memory /\ free[e] = Freed /\ \A d \in Nodes \ {e} : free[d] = mem[d]
  <2>1. e \in Nodes
    BY <1>1
  <2> QED BY <2>1, NodeFreed
<1> HIDE DEF p, free
<1>5. CASE Len(ns) = 1
  <2>1. p = NULL
    BY <1>2, <1>5 DEF Before
  <2>2. list2 = [first |-> NULL, last |-> NULL, size |-> list.size - 1]
        /\ list.size - 1 = 0 /\ mem2 = free
    BY <1>0, <1>3, <1>5, <2>1
  <2>3. list2 \in LListType /\ list2.size = list.size - 1 /\ list2.first = NULL
        /\ list2.last = NULL
    BY <2>2 DEF LListType
  <2> QED BY <1>1, <1>2, <1>4, <1>5, <2>1, <2>2, <2>3 DEF TakesNode, After, e
<1>6. CASE Len(ns) # 1
  <2> DEFINE k == Len(ns) - 1
  <2>0. k \in 1 .. Len(ns) /\ k # Len(ns) /\ list.size - 1 \in Nat /\ Len(ns) > 1
    <3>1. Len(ns) > 1
      BY <1>0, <1>6, OneOrMore
    <3> QED BY <1>0, <3>1
  <2>1. p = ns[k] /\ p \in Nodes /\ p # e /\ p # NULL
    <3>1. p = ns[k]
      BY <1>2, <1>6 DEF Before
    <3> HIDE DEF k
    <3>2. ns[k] \in Nodes /\ ns[k] # e
      BY <1>1, <2>0 DEF Linked, e
    <3> QED BY <3>1, <3>2 DEF Nodes
  <2>2. list2 = [first |-> list.first, last |-> p, size |-> list.size - 1]
        /\ mem2 = SetNext(free, p, NULL)
    BY <1>3, <2>1
  <2>3. list2 \in LListType /\ list2.size = list.size - 1 /\ list2.last = p
        /\ list2.first = list.first
    BY <1>1, <2>0, <2>1, <2>2 DEF LListType
  <2>5. NextIs(SetNext(free, p, NULL), free, p, NULL)
    BY <1>4, <2>1, NextSet
  <2>6. /\ mem2 \in Memory /\ mem2[p].next = NULL
        /\ mem2[p].data = free[p].data /\ mem2[p].previous = free[p].previous
        /\ \A d \in Nodes \ {p} : mem2[d] = free[d]
    BY <2>2, <2>5 DEF NextIs
  <2>7. /\ mem2[e] = Freed
        /\ \A d \in Nodes \ {e} :
             /\ mem2[d].data = mem[d].data /\ mem2[d].previous = mem[d].previous
             /\ mem2[d].next = IF d = p THEN NULL ELSE mem[d].next
    <3>1. mem2[e] = Freed
      BY <1>1, <1>4, <2>1, <2>6
    <3> QED BY <1>4, <2>1, <2>6, <3>1
  <2>8. Len(ns) # 1 /\ ~(Len(ns) < Len(ns)) /\ After(ns, Len(ns)) = NULL
    BY <1>0, <1>6 DEF After
  <2> QED BY <1>1, <1>2, <2>0, <2>1, <2>3, <2>6, <2>7, <2>8 DEF TakesNode, e
<1> QED BY <1>1, <1>5, <1>6 DEF e

\* Callers forget an iterator that was about to return node k.
LEMMA IteratorForgotten ==
  ASSUME NEW N, LInv(N), NEW l \in Lists, NEW k,
         iterator' = IF iterator = [list |-> l, entry |-> N[l][k]] THEN NoIterator
                     ELSE iterator
  PROVE  \/ iterator' = NoIterator
         \/ iterator' = iterator /\ (iterator.list = l => iterator.entry # N[l][k])
<1> SUFFICES ASSUME iterator' # NoIterator
             PROVE  iterator' = iterator /\ (iterator.list = l => iterator.entry # N[l][k])
  OBVIOUS
<1>1. iterator' = iterator /\ iterator # [list |-> l, entry |-> N[l][k]]
  OBVIOUS
<1>2. iterator \in [list : Lists, entry : Nodes \cup {NULL}]
  BY <1>1 DEF LInv, IteratorOK
<1>3. ASSUME iterator.list = l, iterator.entry = N[l][k] PROVE FALSE
  <2>1. iterator = [list |-> iterator.list, entry |-> iterator.entry]
    BY <1>2
  <2> QED BY <1>1, <1>3, <2>1
<1> QED BY <1>1, <1>3

LEMMA RemovingNext ==
  ASSUME NEW N, LInv(N), NEW l \in Lists, Exists(l),
         \/ Len(N[l]) > 0 /\ Returns("remove_first", l, <<>>, items[l][1])
                          /\ Sequence!Delete(l, 1)
         \/ Len(N[l]) > 0 /\ Returns("remove_last", l, <<>>, items[l][Len(N[l])])
                          /\ Sequence!Delete(l, Len(N[l]))
         \/ \E i \in 1 .. Len(N[l]) : Returns("remove_at", l, <<i - 1>>, items[l][i])
                                      /\ Sequence!Delete(l, i)
         \/ \E i \in 1 .. Len(N[l]) : Returns("remove_node", l, <<i>>, items[l][i])
                                      /\ Sequence!Delete(l, i)
         \/ \E x \in Data : \E k :
              /\ Sequence!Has(l, x) /\ k = Sequence!FirstIndex(l, x)
              /\ Returns("remove", l, <<x>>, items[l][k]) /\ Sequence!Delete(l, k)
  PROVE  Sequence!Next
<1>1. Sequence!Exists(l) /\ Sequence!Size(l) = Len(N[l])
  BY SequenceState, ItemsOfList
<1>2. llast'[2] = l
  BY ReturnsToo
<1>3. \A op, args, i : Returns(op, l, args, items[l][i]) /\ Sequence!Delete(l, i)
                       => Sequence!RemoveFrom(op, l, i, args)
  <2> TAKE op, args, i
  <2>1. Returns(op, l, args, items[l][i]) => Sequence!Returns(op, l, args, items[l][i])
    BY ReturnsToo, Zenon
  <2> QED BY <2>1, Zenon DEF Sequence!RemoveFrom, items, ItemsOf, NodesOf, DataOf, DataIn, Exists
<1>4. ASSUME NEW x \in Data, NEW k, k = Sequence!FirstIndex(l, x),
             Returns("remove", l, <<x>>, items[l][k]), Sequence!Delete(l, k)
      PROVE  Sequence!RemoveFrom("remove", l, Sequence!FirstIndex(l, x), <<x>>)
  <2>1. Sequence!RemoveFrom("remove", l, k, <<x>>)
    BY <1>3, <1>4
  <2> QED BY <1>4, <2>1 DEF Sequence!RemoveFrom, Sequence!Delete
<1>5. Sequence!Removing(l)
  <2>1. CASE \E x \in Data : \E k :
                 /\ Sequence!Has(l, x) /\ k = Sequence!FirstIndex(l, x)
                 /\ Returns("remove", l, <<x>>, items[l][k]) /\ Sequence!Delete(l, k)
    <3>1. PICK x \in Data : /\ Sequence!Has(l, x)
                            /\ Sequence!RemoveFrom("remove", l, Sequence!FirstIndex(l, x), <<x>>)
      BY <1>4, <2>1
    <3> QED BY <3>1 DEF Sequence!Removing
  <2>2. CASE ~ \E x \in Data : \E k :
                   /\ Sequence!Has(l, x) /\ k = Sequence!FirstIndex(l, x)
                   /\ Returns("remove", l, <<x>>, items[l][k]) /\ Sequence!Delete(l, k)
    BY <1>1, <1>3, <2>2 DEF Sequence!Removing
  <2> QED BY <2>1, <2>2
<1> QED BY <1>1, <1>2, <1>5 DEF Sequence!Next, Sequence!Call

\* llist_remove_entry, applied to a list.
LEMMA ShrunkEntry ==
  ASSUME NEW N, LInv(N), NEW l \in Lists, Exists(l), NEW k \in 1 .. Len(N[l]),
         Becomes(l, llist_remove_entry(With(l), N[l][k])),
         \/ iterator' = NoIterator
         \/ iterator' = iterator /\ (iterator.list = l => iterator.entry # N[l][k])
  PROVE  LListInv' /\ ItemGoesOut(l, k)
<1> DEFINE h == llist_remove_entry([list |-> lists[l], mem |-> lnodes], N[l][k])
<1>1. Linked(lists[l], lnodes, N[l]) /\ lnodes \in Memory
  BY ListOf
<1>2. TakesNode(lists[l], lnodes, N[l], k, h.list, h.mem)
  BY <1>1, TakesEntry
<1>3. Becomes(l, h)
  BY DEF With
<1> HIDE DEF h
<1> QED BY <1>2, <1>3, Shrunk

LEMMA Removed ==
  ASSUME NEW N, LInv(N), NEW l \in Lists, LListRemove(l)
  PROVE  LListInv' /\ Sequence!Next
<1>1. Exists(l)
  BY DEF LListRemove
<1>2. /\ Linked(lists[l], lnodes, N[l]) /\ lists[l].size = Len(N[l]) /\ Len(N[l]) \in Nat
      /\ lnodes \in Memory /\ Len(items[l]) = Len(N[l])
      /\ \A i \in 1 .. Len(N[l]) : items[l][i] = lnodes[N[l][i]].data
  BY <1>1, ListOf, ItemsOfList
\* Nothing is removed.
<1>3. ASSUME Keep,
             \/ Len(N[l]) = 0 /\ Returns("remove_first", l, <<>>, None)
             \/ Len(N[l]) = 0 /\ Returns("remove_last", l, <<>>, None)
             \/ Returns("remove_at", l, <<Len(N[l])>>, None)
             \/ \E x \in Data : Returns("remove", l, <<x>>, None) /\ ~Sequence!Has(l, x)
      PROVE  LListInv' /\ Sequence!Next
  <2>1. LListInv'
    BY <1>3, KeptInv DEF Keep
  <2>2. Sequence!Reading(l)
    BY <1>2, <1>3, ReadingIs
  <2>3. llast'[2] = l
    BY <1>3, ReturnsToo
  <2> QED BY <1>1, <2>1, <2>2, <2>3, ReadingNext
\* The node at k is removed by llist_remove_entry.
<1>4. ASSUME NEW k \in 1 .. Len(N[l]), NEW op, NEW args, RemovesEntry(l, op, args, N[l][k])
      PROVE  LListInv' /\ Sequence!Delete(l, k) /\ Returns(op, l, args, items[l][k])
  <2>1. /\ Becomes(l, llist_remove_entry(With(l), N[l][k]))
        /\ iterator' = IF iterator = [list |-> l, entry |-> N[l][k]] THEN NoIterator
                       ELSE iterator
        /\ Returns(op, l, args, lnodes[N[l][k]].data)
    BY <1>4 DEF RemovesEntry, Removes
  <2>2. \/ iterator' = NoIterator
        \/ iterator' = iterator /\ (iterator.list = l => iterator.entry # N[l][k])
    BY <2>1, IteratorForgotten
  <2>3. LListInv' /\ ItemGoesOut(l, k)
    BY <1>1, <2>1, <2>2, ShrunkEntry
  <2>4. Sequence!Delete(l, k)
    BY <1>1, <2>1, <2>3, ItemDeleted
  <2> QED BY <1>2, <2>1, <2>3, <2>4
<1>5. CASE llist_remove_first(l)
  <2>1. CASE lists[l].size = 0
    BY <1>2, <1>3, <1>5, <2>1 DEF llist_remove_first, RemovesNothing
  <2>2. CASE lists[l].size # 0
    <3> DEFINE h == remove_first([list |-> lists[l], mem |-> lnodes])
    <3>1. /\ TakesNode(lists[l], lnodes, N[l], 1, h.list, h.mem)
          /\ 1 \in 1 .. Len(N[l]) /\ lists[l].first = N[l][1] /\ Len(N[l]) > 0
      BY <1>2, <2>2, TakesFirst
    <3>2. /\ Becomes(l, h)
          /\ iterator' = IF iterator = [list |-> l, entry |-> N[l][1]] THEN NoIterator
                         ELSE iterator
          /\ Returns("remove_first", l, <<>>, lnodes[N[l][1]].data)
      BY <1>5, <2>2, <3>1 DEF llist_remove_first, Removes, With
    <3> HIDE DEF h
    <3>3. \/ iterator' = NoIterator
          \/ iterator' = iterator /\ (iterator.list = l => iterator.entry # N[l][1])
      BY <3>2, IteratorForgotten
    <3>4. LListInv' /\ ItemGoesOut(l, 1)
      BY <1>1, <3>1, <3>2, <3>3, Shrunk
    <3>5. Sequence!Delete(l, 1)
      BY <1>1, <3>1, <3>2, <3>4, ItemDeleted
    <3>6. Returns("remove_first", l, <<>>, items[l][1])
      BY <1>2, <3>1, <3>2
    <3> QED BY <1>1, <3>1, <3>4, <3>5, <3>6, RemovingNext
  <2> QED BY <2>1, <2>2
<1>6. CASE llist_remove_last(l)
  <2>1. CASE lists[l].size = 0
    BY <1>2, <1>3, <1>6, <2>1 DEF llist_remove_last, RemovesNothing
  <2>2. CASE lists[l].size # 0
    <3> DEFINE h == remove_last([list |-> lists[l], mem |-> lnodes])
               k == Len(N[l])
    <3>1. /\ TakesNode(lists[l], lnodes, N[l], k, h.list, h.mem)
          /\ k \in 1 .. Len(N[l]) /\ lists[l].last = N[l][k]
      BY <1>2, <2>2, TakesLast
    <3>2. /\ Becomes(l, h)
          /\ iterator' = IF iterator = [list |-> l, entry |-> N[l][k]] THEN NoIterator
                         ELSE iterator
          /\ Returns("remove_last", l, <<>>, lnodes[N[l][k]].data)
      BY <1>6, <2>2, <3>1 DEF llist_remove_last, Removes, With
    <3> HIDE DEF h, k
    <3>3. \/ iterator' = NoIterator
          \/ iterator' = iterator /\ (iterator.list = l => iterator.entry # N[l][k])
      BY <3>2, IteratorForgotten
    <3>4. LListInv' /\ ItemGoesOut(l, k)
      BY <1>1, <3>1, <3>2, <3>3, Shrunk
    <3>5. Sequence!Delete(l, k)
      BY <1>1, <3>1, <3>2, <3>4, ItemDeleted
    <3>6. Returns("remove_last", l, <<>>, items[l][k])
      BY <1>2, <3>1, <3>2
    <3>7. Len(N[l]) > 0
      BY <1>2, <2>2
    <3> QED BY <1>1, <3>4, <3>5, <3>6, <3>7, RemovingNext DEF k
  <2> QED BY <2>1, <2>2
<1>7. ASSUME NEW x \in Data, Walkable(l), llist_remove(l, x) PROVE LListInv' /\ Sequence!Next
  <2>1. NodesOf(l) = N[l]
    BY <1>1, <1>7, NodesOfList DEF Walkable
  <2>2. PICK found : found = {i \in 1 .. Len(N[l]) : lnodes[N[l][i]].data = x}
    OBVIOUS
  <2>3. /\ found = {} => Keep /\ Returns("remove", l, <<x>>, None)
        /\ found # {} => RemovesEntry(l, "remove", <<x>>, N[l][Min(found)])
    BY <1>7, <2>1, <2>2 DEF llist_remove, RemovesNothing
  <2>4. FoundIn(lnodes, N[l], x, found)
    BY <2>2 DEF FoundIn
  <2>5. /\ Sequence!Has(l, x) <=> found # {}
        /\ found # {} => /\ Min(found) \in 1 .. Len(N[l])
                         /\ Sequence!FirstIndex(l, x) = Min(found)
    BY <1>1, <2>4, FirstFound
  <2>6. CASE found = {}
    BY <1>3, <2>3, <2>5, <2>6
  <2>7. CASE found # {}
    <3>1. PICK k \in 1 .. Len(N[l]) : /\ RemovesEntry(l, "remove", <<x>>, N[l][k])
                                      /\ k = Sequence!FirstIndex(l, x) /\ Sequence!Has(l, x)
      BY <2>3, <2>5, <2>7
    <3>2. LListInv' /\ Sequence!Delete(l, k) /\ Returns("remove", l, <<x>>, items[l][k])
      BY <1>4, <3>1
    <3> QED BY <1>1, <3>1, <3>2, RemovingNext
  <2> QED BY <2>6, <2>7
<1>8. ASSUME NEW i \in 0 .. lists[l].size, llist_remove_at(l, i)
      PROVE  LListInv' /\ Sequence!Next
  <2>1. CASE i >= lists[l].size
    <3>1. i = Len(N[l])
      BY <1>2, <2>1
    <3> QED BY <1>3, <1>8, <2>1, <3>1 DEF llist_remove_at, RemovesNothing
  <2>2. CASE ~(i >= lists[l].size)
    <3>1. i \in 0 .. Len(N[l]) - 1 /\ i + 1 \in 1 .. Len(N[l]) /\ (i + 1) - 1 = i
      BY <1>2, <2>2
    <3>2. llist_get_entry([list |-> lists[l], mem |-> lnodes], i) = N[l][i + 1]
      BY <1>2, <3>1, EntryFound
    <3>3. RemovesEntry(l, "remove_at", <<i>>, N[l][i + 1])
      BY <1>8, <2>2, <3>2 DEF llist_remove_at, With
    <3> DEFINE k == i + 1
    <3>4. k \in 1 .. Len(N[l]) /\ k - 1 = i /\ RemovesEntry(l, "remove_at", <<k - 1>>, N[l][k])
      BY <3>1, <3>3
    <3> HIDE DEF k
    <3>5. LListInv' /\ Sequence!Delete(l, k) /\ Returns("remove_at", l, <<k - 1>>, items[l][k])
      BY <1>4, <3>4
    <3> QED BY <1>1, <3>4, <3>5, RemovingNext
  <2> QED BY <2>1, <2>2
<1>9. ASSUME NEW i \in 1 .. lists[l].size, lnode_remove(l, i)
      PROVE  LListInv' /\ Sequence!Next
  <2>1. lists[l].size # 0 /\ i \in 1 .. Len(N[l])
    BY <1>2
  <2>2. NodesOf(l) = N[l]
    BY <1>1, <2>1, NodesOfList
  <2>3. RemovesEntry(l, "remove_node", <<i>>, N[l][i])
    BY <1>9, <2>2 DEF lnode_remove
  <2>4. LListInv' /\ Sequence!Delete(l, i) /\ Returns("remove_node", l, <<i>>, items[l][i])
    BY <1>4, <2>1, <2>3
  <2> QED BY <1>1, <2>1, <2>4, RemovingNext
<1> QED BY <1>5, <1>6, <1>7, <1>8, <1>9 DEF LListRemove

LEMMA Read ==
  ASSUME NEW N, LInv(N), NEW l \in Lists, LListRead(l)
  PROVE  LListInv' /\ Sequence!Next
<1>1. /\ Exists(l) /\ (lists[l].size = 0 => lists[l].first = NULL)
      /\ \/ \E i \in 0 .. lists[l].size : llist_get(l, i)
         \/ \E x \in Data : llist_index_of(l, x)
         \/ \E i \in 0 .. lists[l].size, x \in Data : llist_set(l, i, x)
         \/ llist_to_array(l) \/ llist_get_ends(l)
  BY DEF LListRead, Walkable
<1>2. /\ Linked(lists[l], lnodes, N[l]) /\ lists[l].size = Len(N[l]) /\ Len(N[l]) \in Nat
      /\ lnodes \in Memory /\ Len(items[l]) = Len(N[l])
      /\ \A i \in 1 .. Len(N[l]) : items[l][i] = lnodes[N[l][i]].data
      /\ items[l] = DataIn(lnodes, N[l]) /\ NodesOf(l) = N[l]
  BY <1>1, ListOf, ItemsOfList, NodesOfList
<1>3. Keep
  BY <1>1 DEF llist_get, llist_set, llist_index_of, llist_to_array, llist_get_ends
<1>4. ASSUME NEW i \in 0 .. lists[l].size
      PROVE  (IF i >= lists[l].size THEN None ELSE lnodes[llist_get_entry(With(l), i)].data)
             = IF i < Len(items[l]) THEN items[l][i + 1] ELSE None
  <2>1. CASE i >= lists[l].size
    BY <1>2, <2>1
  <2>2. CASE ~(i >= lists[l].size)
    <3>1. i \in 0 .. Len(N[l]) - 1 /\ i + 1 \in 1 .. Len(N[l]) /\ i < Len(items[l])
      BY <1>2, <2>2
    <3>2. llist_get_entry([list |-> lists[l], mem |-> lnodes], i) = N[l][i + 1]
      BY <1>2, <3>1, EntryFound
    <3> QED BY <1>2, <2>2, <3>1, <3>2 DEF With
  <2> QED BY <2>1, <2>2
<1>5. ASSUME NEW i \in 0 .. lists[l].size, llist_get(l, i)
      PROVE  Sequence!Reading(l) /\ llast'[2] = l
  <2>1. Returns("get", l, <<i>>, IF i < Len(items[l]) THEN items[l][i + 1] ELSE None)
    BY <1>4, <1>5 DEF llist_get
  <2>2. i \in 0 .. Len(items[l])
    BY <1>2
  <2> QED BY <1>3, <2>1, <2>2, ReadingIs, ReturnsToo
<1>6. ASSUME NEW i \in 0 .. lists[l].size, NEW x \in Data, llist_set(l, i, x)
      PROVE  Sequence!Reading(l) /\ llast'[2] = l
  <2>1. Returns("set", l, <<i, x>>, IF i < Len(items[l]) THEN items[l][i + 1] ELSE None)
    BY <1>4, <1>6 DEF llist_set
  <2>2. i \in 0 .. Len(items[l])
    BY <1>2
  <2> QED BY <1>3, <2>1, <2>2, ReadingIs, ReturnsToo
<1>7. ASSUME NEW x \in Data, llist_index_of(l, x)
      PROVE  Sequence!Reading(l) /\ llast'[2] = l
  <2> DEFINE At == Walk(lists[l].last, PreviousOf(lnodes))
  <2>0. PICK back, found, backFound :
          /\ back = At
          /\ found = {i \in 1 .. Len(N[l]) : lnodes[N[l][i]].data = x}
          /\ backFound = {i \in 0 .. MaxNodes : At[i] # NULL /\ lnodes[At[i]].data = x}
    <3> HIDE DEF At
    <3> QED OBVIOUS
  <2>1. Returns("index_of", l, <<x>>,
                <<IF found = {} THEN -1 ELSE Min(found) - 1,
                  IF backFound = {} THEN -1 ELSE lists[l].size - 1 - Min(backFound)>>)
    BY <1>2, <1>7, <2>0 DEF llist_index_of
  <2> HIDE DEF At
  <2>2. /\ Sequence!Has(l, x) <=> found # {}
        /\ found # {} => Sequence!FirstIndex(l, x) = Min(found)
    <3>1. FoundIn(lnodes, N[l], x, found)
      BY <2>0 DEF FoundIn
    <3> QED BY <1>1, <3>1, FirstFound
  <2>3. /\ Sequence!Has(l, x) <=> backFound # {}
        /\ backFound # {} => /\ Min(backFound) \in 0 .. Len(N[l]) - 1
                             /\ Sequence!LastIndex(l, x) = Len(N[l]) - Min(backFound)
    <3>1. FoundBack(lnodes, back, x, backFound)
      BY <2>0 DEF FoundBack
    <3>2. back = Walk(lists[l].last, PreviousOf(lnodes))
      BY <2>0 DEF At
    <3>3. Exists(l)
      BY <1>1
    <3> QED BY <3>1, <3>2, <3>3, LastFound, ZenonT(30)
  <2>4. backFound # {} => lists[l].size - 1 - Min(backFound) = Sequence!LastIndex(l, x) - 1
    BY <1>2, <2>3
  <2>5. Returns("index_of", l, <<x>>,
                IF Sequence!Has(l, x)
                THEN <<Sequence!FirstIndex(l, x) - 1, Sequence!LastIndex(l, x) - 1>>
                ELSE <<-1, -1>>)
    <3>1. CASE Sequence!Has(l, x)
      BY <2>1, <2>2, <2>3, <2>4, <3>1
    <3>2. CASE ~Sequence!Has(l, x)
      BY <2>1, <2>2, <2>3, <3>2
    <3> QED BY <3>1, <3>2
  <2> QED BY <1>3, <2>5, ReadingIs, ReturnsToo
<1>8. ASSUME llist_to_array(l) PROVE Sequence!Reading(l) /\ llast'[2] = l
  <2>1. DataOf(l) = items[l]
    BY <1>2 DEF DataOf, DataIn
  <2>2. Returns("to_array", l, <<>>, <<items[l], Len(items[l])>>)
    BY <1>2, <1>8, <2>1 DEF llist_to_array
  <2> QED BY <1>3, <2>2, ReadingIs, ReturnsToo
<1>9. ASSUME llist_get_ends(l) PROVE Sequence!Reading(l) /\ llast'[2] = l
  <2>1. lists[l].size # 0 =>
          /\ lnodes[lists[l].first].data = items[l][1]
          /\ lnodes[lists[l].last].data = items[l][Len(items[l])]
    <3> SUFFICES ASSUME lists[l].size # 0
                 PROVE  /\ lnodes[lists[l].first].data = items[l][1]
                        /\ lnodes[lists[l].last].data = items[l][Len(items[l])]
      OBVIOUS
    <3>1. Len(N[l]) > 0 /\ 1 \in 1 .. Len(N[l]) /\ Len(N[l]) \in 1 .. Len(N[l])
      BY <1>2
    <3>2. lists[l].first = N[l][1] /\ lists[l].last = N[l][Len(N[l])]
      BY <1>2, <3>1 DEF Linked
    <3> QED BY <1>2, <3>1, <3>2
  <2>2. Returns("ends", l, <<>>, IF Len(items[l]) = 0 THEN <<None, None>>
                                 ELSE <<items[l][1], items[l][Len(items[l])]>>)
    BY <1>2, <1>9, <2>1 DEF llist_get_ends
  <2> QED BY <1>3, <2>2, ReadingIs, ReturnsToo
<1>10. Sequence!Reading(l) /\ llast'[2] = l
  BY <1>1, <1>5, <1>6, <1>7, <1>8, <1>9
<1>11. LListInv'
  BY <1>3, KeptInv DEF Keep
<1> QED BY <1>1, <1>10, <1>11, ReadingNext

LEMMA IteratingNext ==
  ASSUME NEW N, LInv(N), NEW l \in Lists, Exists(l),
         \/ /\ Returns("iterator", l, <<>>, None)
            /\ iterator'.list = l /\ cursor' = 0 /\ items' = items
         \/ /\ iterator.list = l /\ cursor < Len(items[l])
            /\ Returns("next", l, <<>>, items[l][cursor + 1])
            /\ cursor' = cursor + 1 /\ items' = items /\ iterator'.list = iterator.list
         \/ /\ Returns("iterator_remove", l, <<>>, None)
            /\ iterator.list = l /\ cursor > 0 /\ cursor' = cursor - 1
            /\ items' = [items EXCEPT ![l] = RemoveAt(items[l], cursor)]
            /\ iterator'.list = iterator.list
  PROVE  Sequence!Next
<1>1. Sequence!Exists(l) /\ Sequence!Size(l) = Len(items[l])
  BY SequenceState, ItemsOfList
<1>2. llast'[2] = l
  BY ReturnsToo
<1>3. CASE /\ Returns("iterator", l, <<>>, None)
           /\ iterator'.list = l /\ cursor' = 0 /\ items' = items
  <2>1. Sequence!Returns("iterator", l, <<>>, None)
    BY <1>3, ReturnsToo
  <2>2. Sequence!Iterate(l)
    BY <1>1, <1>3, <2>1, Zenon DEF Sequence!Iterate, items, ItemsOf, cursor, CursorOf, NodesOf,
                            DataOf, DataIn, Exists
  <2> QED BY <1>2, <2>2 DEF Sequence!Next, Sequence!Call
<1>4. CASE /\ iterator.list = l /\ cursor < Len(items[l])
           /\ Returns("next", l, <<>>, items[l][cursor + 1])
           /\ cursor' = cursor + 1 /\ items' = items /\ iterator'.list = iterator.list
  <2>1. Sequence!Returns("next", l, <<>>, items[l][cursor + 1])
    BY <1>4, ReturnsToo DEF Returns, Sequence!Returns
  <2>2. Sequence!IterateNext(l)
    BY <1>1, <1>4, <2>1, Zenon DEF Sequence!IterateNext, items, ItemsOf, cursor, CursorOf, NodesOf,
                            DataOf, DataIn, Exists
  <2> QED BY <1>2, <2>2 DEF Sequence!Next, Sequence!Call
<1>5. CASE /\ Returns("iterator_remove", l, <<>>, None)
           /\ iterator.list = l /\ cursor > 0 /\ cursor' = cursor - 1
           /\ items' = [items EXCEPT ![l] = RemoveAt(items[l], cursor)]
           /\ iterator'.list = iterator.list
  <2>1. Sequence!Returns("iterator_remove", l, <<>>, None)
    BY <1>5, ReturnsToo
  <2>2. Sequence!IterateRemove(l)
    BY <1>1, <1>5, <2>1, Zenon DEF Sequence!IterateRemove, items, ItemsOf, cursor, CursorOf,
                                   NodesOf, DataOf, DataIn, Exists, RemoveAt, Sequence!RemoveAt
  <2> QED BY <1>2, <2>2 DEF Sequence!Next, Sequence!Call
<1> QED BY <1>3, <1>4, <1>5

LEMMA Iterated ==
  ASSUME NEW N, LInv(N), NEW l \in Lists,
         llist_iterator(l) \/ llist_iterator_next(l) \/ llist_iterator_remove(l)
  PROVE  LListInv' /\ Sequence!Next
<1>1. CASE llist_iterator(l)
  <2>1. Exists(l) /\ (lists[l].size = 0 => lists[l].first = NULL)
        /\ iterator' = [list |-> l, entry |-> lists[l].first]
        /\ lists' = lists /\ lnodes' = lnodes
        /\ Returns("iterator", l, <<>>, None)
    BY <1>1 DEF llist_iterator, Walkable
  <2>2. Linked(lists[l], lnodes, N[l]) /\ lists[l].size = Len(N[l]) /\ Len(N[l]) \in Nat
        /\ lists[l] \in LListType
    BY <2>1, ListOf
  <2>3. lists[l].first \in Elems(N[l]) \cup {NULL} /\ lists[l].first = After(N[l], 0)
    <3>1. CASE Len(N[l]) = 0
      BY <2>1, <2>2, <3>1 DEF After
    <3>2. CASE Len(N[l]) # 0
      <4>1. 1 \in 1 .. Len(N[l]) /\ lists[l].first = N[l][1]
        BY <2>2, <3>2 DEF Linked
      <4> QED BY <3>2, <4>1 DEF Elems, After
    <3> QED BY <3>1, <3>2
  <2>4. lists[l].first \in Nodes \cup {NULL}
    BY <2>2 DEF LListType
  <2>5. IteratorOK(lists', iterator', N) /\ AllLinked(lists', lnodes', N)
    BY <2>1, <2>3, <2>4 DEF IteratorOK, Exists, LInv
  <2>6. cursor' = 0
    <3>1. /\ iterator'.list = l /\ iterator'.list # None /\ 0 \in 0 .. Len(N[l])
          /\ iterator'.entry = After(N[iterator'.list], 0)
      BY <2>1, <2>2, <2>3, LListAssumption
    <3>2. CursorOf(lists', lnodes', iterator') = 0
      BY <2>5, <3>1, CursorAt
    <3> QED BY <3>2 DEF cursor
  <2>7. items' = items /\ iterator'.list = l
    BY <2>1 DEF items
  <2>8. Sequence!Next
    BY <2>1, <2>6, <2>7, IteratingNext
  <2> QED BY <2>5, <2>8 DEF LListInv, LInv
<1>2. ASSUME iterator.list = l
      PROVE  /\ iterator.entry \in Elems(N[l]) \cup {NULL}
             /\ iterator \in [list : Lists, entry : Nodes \cup {NULL}]
             /\ iterator = [list |-> l, entry |-> iterator.entry]
             /\ Exists(l) /\ (lists[l].size = 0 => lists[l].first = NULL)
             /\ cursor \in 0 .. Len(N[l]) /\ iterator.entry = After(N[l], cursor)
  <2>1. iterator # NoIterator /\ iterator.list # None
    BY <1>2, LListAssumption DEF NoIterator
  <2>2. cursor \in 0 .. Len(N[l]) /\ iterator.entry = After(N[l], cursor)
    BY <1>2, <2>1, CursorIs DEF LInv, cursor
  <2> QED BY <1>2, <2>1, <2>2 DEF LInv, IteratorOK, Exists
<1>3. CASE llist_iterator_next(l)
  <2>1. iterator.list = l /\ iterator.entry # NULL
        /\ iterator' = [iterator EXCEPT !.entry = lnodes[iterator.entry].next]
        /\ lists' = lists /\ lnodes' = lnodes
        /\ Returns("next", l, <<>>, lnodes[iterator.entry].data)
    BY <1>3 DEF llist_iterator_next
  <2>2. PICK k \in 1 .. Len(N[l]) : iterator.entry = N[l][k]
    BY <1>2, <2>1 DEF Elems
  <2>3. Linked(lists[l], lnodes, N[l]) /\ Len(N[l]) \in Nat
        /\ \A i \in 1 .. Len(N[l]) : N[l][i] \in Nodes
    BY <1>2, <2>1, ListOf
  <2>4. lnodes[iterator.entry].next = After(N[l], k)
    BY <2>2, <2>3 DEF Linked
  <2>5. After(N[l], k) \in Elems(N[l]) \cup {NULL} /\ After(N[l], k) \in Nodes \cup {NULL}
    <3>1. k # Len(N[l]) => k + 1 \in 1 .. Len(N[l])
      BY <2>3
    <3> QED BY <2>3, <3>1 DEF After, Elems
  <2>6. iterator' \in [list : Lists, entry : Nodes \cup {NULL}]
        /\ iterator'.list = l /\ iterator'.entry = After(N[l], k)
    BY <1>2, <2>1, <2>4, <2>5
  <2>7. IteratorOK(lists', iterator', N) /\ AllLinked(lists', lnodes', N)
    BY <1>2, <2>1, <2>5, <2>6 DEF IteratorOK, Exists, LInv
  <2>8. k = cursor + 1
    <3>1. iterator = [list |-> l, entry |-> N[l][k]]
      BY <1>2, <2>1, <2>2
    <3> QED BY <1>2, <2>1, <3>1, IteratorAt
  <2>9. cursor' = k
    <3>1. iterator'.list # None /\ k \in 0 .. Len(N[l])
      BY <2>3, <2>6, LListAssumption
    <3>2. CursorOf(lists', lnodes', iterator') = k
      BY <2>6, <2>7, <3>1, CursorAt
    <3> QED BY <3>2 DEF cursor
  <2>10. /\ items[l][k] = lnodes[N[l][k]].data /\ Len(items[l]) = Len(N[l])
    BY <1>2, <2>1, ItemsOfList
  <2>11. Returns("next", l, <<>>, items[l][cursor + 1])
    BY <2>1, <2>2, <2>8, <2>10
  <2>12. items' = items
    BY <2>1 DEF items
  <2>13. cursor < Len(items[l])
    BY <1>2, <2>1, <2>3, <2>8, <2>10
  <2>14. Sequence!Next
    BY <1>2, <2>1, <2>6, <2>8, <2>9, <2>11, <2>12, <2>13, IteratingNext
  <2> QED BY <2>7, <2>14 DEF LListInv, LInv
<1>4. CASE llist_iterator_remove(l)
  <2>1. iterator.list = l /\ lists[l].first # iterator.entry /\ iterator' = iterator
        /\ Becomes(l, llist_remove_entry(With(l), IF iterator.entry = NULL THEN lists[l].last
                                                  ELSE lnodes[iterator.entry].previous))
        /\ Returns("iterator_remove", l, <<>>, None)
    BY <1>4 DEF llist_iterator_remove
  <2>2. /\ Linked(lists[l], lnodes, N[l]) /\ lists[l].size = Len(N[l]) /\ Len(N[l]) \in Nat
        /\ \A i \in 1 .. Len(N[l]) : N[l][i] \in Nodes /\ N[l][i] # NULL
        /\ \A i, j \in 1 .. Len(N[l]) : N[l][i] = N[l][j] => i = j
    <3>1. \A n \in Nodes : n # NULL
      BY DEF Nodes
    <3> QED BY <1>2, <2>1, <3>1, ListOf
  <2>3. PICK c \in 0 .. Len(N[l]) : c = cursor /\ iterator.entry = After(N[l], c)
    BY <1>2, <2>1
  <2>4. c # 0
    <3> SUFFICES ASSUME c = 0 PROVE FALSE
      OBVIOUS
    <3>1. CASE Len(N[l]) = 0
      BY <1>2, <2>1, <2>2, <2>3, <3>1 DEF After
    <3>2. CASE Len(N[l]) > 0
      BY <2>1, <2>2, <2>3, <3>2 DEF Linked, After
    <3> QED BY <2>2, <3>1, <3>2
  <2>5. c \in 1 .. Len(N[l])
    BY <2>2, <2>4
  <2>6. /\ (IF iterator.entry = NULL THEN lists[l].last ELSE lnodes[iterator.entry].previous)
           = N[l][c]
        /\ iterator.entry # N[l][c]
    <3>1. CASE c = Len(N[l])
      BY <2>2, <2>3, <2>5, <3>1 DEF Linked, After
    <3>2. CASE c # Len(N[l])
      <4>1. c + 1 \in 1 .. Len(N[l]) /\ c + 1 # 1 /\ (c + 1) - 1 = c /\ c + 1 # c
        BY <2>2, <2>5, <3>2
      <4>2. iterator.entry = N[l][c + 1] /\ iterator.entry # NULL
        BY <2>2, <2>3, <3>2, <4>1 DEF After
      <4>3. lnodes[N[l][c + 1]].previous = N[l][c]
        BY <2>2, <4>1 DEF Linked, Before
      <4>4. N[l][c + 1] # N[l][c]
        BY <2>2, <2>5, <4>1
      <4> QED BY <4>2, <4>3, <4>4
    <3> QED BY <3>1, <3>2
  <2>7. Becomes(l, llist_remove_entry(With(l), N[l][c]))
    BY <2>1, <2>6
  <2>8. LListInv' /\ ItemGoesOut(l, c)
    BY <1>2, <2>1, <2>5, <2>6, <2>7, ShrunkEntry
  <2>9. /\ items' = [items EXCEPT ![l] = RemoveAt(items[l], c)]
        /\ cursor' = cursor - 1
    BY <2>1, <2>3, <2>5, <2>8 DEF ItemGoesOut
  <2>10. cursor > 0 /\ iterator'.list = iterator.list
         /\ items' = [items EXCEPT ![l] = RemoveAt(items[l], cursor)]
    BY <2>1, <2>3, <2>5, <2>9
  <2>11. Sequence!Next
    BY <1>2, <2>1, <2>9, <2>10, IteratingNext
  <2> QED BY <2>8, <2>11
<1> QED BY <1>1, <1>3, <1>4

-----------------------------------------------------------------------------
(***************************************************************************)
(* The calls that make, empty, copy and free a list.                       *)
(***************************************************************************)

\* The items when one list has become another.
LEMMA ItemsBecome ==
  ASSUME NEW N, LInv(N), NEW M, AllLinked(lists', lnodes', M), NEW l \in Lists,
         \A m \in Lists \ {l} : lists'[m] = lists[m] /\ M[m] = N[m],
         \A e \in Nodes \ (Elems(N[l]) \cup Elems(M[l])) : lnodes'[e].data = lnodes[e].data
  PROVE  /\ lists'[l] # None => items' = [items EXCEPT ![l] = DataIn(lnodes', M[l])]
         /\ lists'[l] = None => items' = [items EXCEPT ![l] = None]
<1>1. AllLinked(lists, lnodes, N)
  BY DEF LInv
<1>2. /\ \A v : ItemsOf(lists', lnodes')[l] = v =>
                   ItemsOf(lists', lnodes') = [ItemsOf(lists, lnodes) EXCEPT ![l] = v]
      /\ lists'[l] # None => ItemsOf(lists', lnodes')[l] = DataIn(lnodes', M[l])
      /\ lists'[l] = None => ItemsOf(lists', lnodes')[l] = None
  BY <1>1, OthersKeepItems
<1> QED BY <1>2 DEF items

\* What llist_free and llist_clear have in common.
LEMMA Cleared ==
  ASSUME NEW N, LInv(N), NEW l \in Lists, NEW to \in {None, NewList}, FreeNodes(l, to)
  PROVE  /\ LListInv' /\ Exists(l)
         /\ items' = [items EXCEPT ![l] = IF to = None THEN None ELSE << >>]
         /\ IF l = iterator.list THEN iterator'.list = None /\ cursor' = 0
            ELSE iterator'.list = iterator.list /\ cursor' = cursor
<1> DEFINE mem2 == [e \in Nodes |-> IF e \in Range(NodesOf(l)) THEN Freed ELSE lnodes[e]]
           M == [N EXCEPT ![l] = << >>]
<1>1. Exists(l) /\ (lists[l].size = 0 => lists[l].first = NULL)
  BY DEF FreeNodes, Walkable
<1>2. NodesOf(l) = N[l] /\ N[l] \in Seq(Nodes) /\ lnodes \in Memory
  BY <1>1, NodesOfList, ListOf
<1>3. Range(NodesOf(l)) = Elems(N[l])
  BY <1>2 DEF Range, Elems
<1>4. lists' = [lists EXCEPT ![l] = to] /\ lnodes' = mem2
      /\ iterator' = IF iterator.list = l THEN NoIterator ELSE iterator
  BY DEF FreeNodes, Becomes
<1>5. Freed \in LNode
  BY DEF Freed, LNode
<1>6. mem2 \in Memory /\ \A e \in Nodes : mem2[e] = IF e \in Elems(N[l]) THEN Freed ELSE lnodes[e]
  BY <1>2, <1>3, <1>5 DEF Memory
<1> HIDE DEF mem2
<1>7. to \in LListType \cup {None} /\ NewList \in LListType /\ NewList # None
  <2>1. NewList \in LListType /\ NewList \in [first : Nat, last : Nat, size : Nat]
    BY DEF NewList, LListType
  <2> QED BY <2>1, LListAssumption
<1>8. << >> \in Seq(Nodes) /\ Elems(<< >>) = {} /\ Holds(to, mem2, << >>)
  <2>1. << >> \in Seq(Nodes) /\ Elems(<< >>) = {} /\ Len(<< >>) = 0
    BY DEF Elems
  <2>2. NewList.size = 0 /\ NewList.last = NULL
    BY DEF NewList
  <2>3. Linked(NewList, mem2, << >>)
    BY <1>7, <2>1, <2>2 DEF Linked
  <2> QED BY <1>7, <2>1, <2>3 DEF Holds
<1>9. AllLinked(lists', lnodes', M)
  <2>1. /\ AllLinked(lists, lnodes, N)
        /\ \A m \in Lists \ {l} : Elems(<< >>) \cap Elems(N[m]) = {}
        /\ \A e \in Nodes \ (Elems(N[l]) \cup Elems(<< >>)) : mem2[e] = lnodes[e]
        /\ \A e \in Elems(N[l]) \ Elems(<< >>) : mem2[e] = Freed
    <3>1. Elems(N[l]) \subseteq Nodes
      BY <1>2 DEF Elems
    <3> QED BY <1>6, <1>8, <3>1 DEF LInv
  <2>2. AllLinked([lists EXCEPT ![l] = to], mem2, M)
    BY <1>6, <1>7, <1>8, <2>1, OneChanges
  <2> QED BY <1>4, <2>2
<1>10. IteratorOK(lists', iterator', M)
  <2>1. CASE iterator' = NoIterator
    BY <2>1 DEF IteratorOK
  <2>2. CASE iterator' # NoIterator
    <3>1. iterator' = iterator /\ iterator.list # l
      BY <1>4, <2>2
    <3>2. /\ iterator \in [list : Lists, entry : Nodes \cup {NULL}]
          /\ lists[iterator.list] # None /\ iterator.list \in Lists
          /\ lists[iterator.list].size = 0 => lists[iterator.list].first = NULL
          /\ iterator.entry \in Elems(N[iterator.list]) \cup {NULL}
      BY <2>2, <3>1 DEF LInv, IteratorOK
    <3>3. lists'[iterator.list] = lists[iterator.list] /\ M[iterator.list] = N[iterator.list]
      BY <1>4, <3>1, <3>2 DEF LInv, AllLinked
    <3> HIDE DEF M
    <3> QED BY <3>1, <3>2, <3>3 DEF IteratorOK
  <2> QED BY <2>1, <2>2
<1>11. M[l] = << >> /\ lists'[l] = to /\ \A m \in Lists \ {l} : lists'[m] = lists[m] /\ M[m] = N[m]
  BY <1>4 DEF LInv, AllLinked
<1> HIDE DEF M
<1>12. items' = [items EXCEPT ![l] = IF to = None THEN None ELSE << >>]
  <2>1. \A e \in Nodes \ (Elems(N[l]) \cup Elems(M[l])) : lnodes'[e].data = lnodes[e].data
    BY <1>4, <1>6
  <2>2. /\ lists'[l] # None => items' = [items EXCEPT ![l] = DataIn(lnodes', M[l])]
        /\ lists'[l] = None => items' = [items EXCEPT ![l] = None]
    BY <1>9, <1>11, <2>1, ItemsBecome
  <2>3. DataIn(lnodes', M[l]) = << >>
    BY <1>11 DEF DataIn
  <2> QED BY <1>11, <2>2, <2>3
<1>13. IF l = iterator.list THEN iterator'.list = None /\ cursor' = 0
       ELSE iterator'.list = iterator.list /\ cursor' = cursor
  <2>1. CASE l = iterator.list
    BY <1>4, <2>1 DEF NoIterator, cursor, CursorOf
  <2>2. CASE l # iterator.list
    <3>1. iterator' = iterator /\ AllLinked(lists, lnodes, N) /\ IteratorOK(lists, iterator, N)
      BY <1>4, <2>2 DEF LInv
    <3>2. iterator.list # None => M[iterator.list] = N[iterator.list]
      BY <1>11, <2>2, <3>1, CursorIs
    <3>3. CursorOf(lists', lnodes', iterator') = CursorOf(lists, lnodes, iterator)
      BY <1>9, <1>10, <3>1, <3>2, CursorKept
    <3> QED BY <2>2, <3>1, <3>3 DEF cursor
  <2> QED BY <2>1, <2>2
<1> QED BY <1>1, <1>9, <1>10, <1>12, <1>13 DEF LListInv, LInv

\* llist_free and llist_clear.
LEMMA Dropped ==
  ASSUME NEW N, LInv(N), NEW l \in Lists, llist_free(l) \/ llist_clear(l)
  PROVE  LListInv' /\ Sequence!Next
<1>1. \/ FreeNodes(l, None) /\ Returns("free", l, <<>>, None)
      \/ FreeNodes(l, NewList) /\ Returns("clear", l, <<>>, None)
  BY DEF llist_free, llist_clear
<1>2. NewList # None
  <2>1. NewList \in [first : Nat, last : Nat, size : Nat]
    BY DEF NewList
  <2> QED BY <2>1, LListAssumption
<1>3. ASSUME NEW to \in {None, NewList}, FreeNodes(l, to)
      PROVE  /\ LListInv' /\ Sequence!Exists(l)
             /\ items' = [items EXCEPT ![l] = IF to = None THEN None ELSE << >>]
             /\ IF l = iterator.list THEN iterator'.list = None /\ cursor' = 0
                ELSE iterator'.list = iterator.list /\ cursor' = cursor
  BY <1>3, Cleared, SequenceState, ItemsOfList
<1>4. CASE FreeNodes(l, None) /\ Returns("free", l, <<>>, None)
  <2>1. Sequence!Returns("free", l, <<>>, None) /\ llast'[2] = l
    BY <1>4, ReturnsToo
  <2>2. /\ LListInv' /\ Sequence!Exists(l) /\ items' = [items EXCEPT ![l] = None]
        /\ IF l = iterator.list THEN iterator'.list = None /\ cursor' = 0
           ELSE iterator'.list = iterator.list /\ cursor' = cursor
    BY <1>3, <1>4
  <2>3. Sequence!Drop("free", l, None)
    BY <2>1, <2>2 DEF Sequence!Drop, Sequence!StopIterating, items, ItemsOf, cursor, CursorOf,
                      NodesOf, DataOf, DataIn, Exists
  <2> QED BY <2>1, <2>2, <2>3 DEF Sequence!Next, Sequence!Call
<1>5. CASE FreeNodes(l, NewList) /\ Returns("clear", l, <<>>, None)
  <2>1. Sequence!Returns("clear", l, <<>>, None) /\ llast'[2] = l
    BY <1>5, ReturnsToo
  <2>2. /\ LListInv' /\ Sequence!Exists(l) /\ items' = [items EXCEPT ![l] = << >>]
        /\ IF l = iterator.list THEN iterator'.list = None /\ cursor' = 0
           ELSE iterator'.list = iterator.list /\ cursor' = cursor
    BY <1>2, <1>3, <1>5
  <2>3. Sequence!Drop("clear", l, << >>)
    BY <2>1, <2>2 DEF Sequence!Drop, Sequence!StopIterating, items, ItemsOf, cursor, CursorOf,
                      NodesOf, DataOf, DataIn, Exists
  <2> QED BY <2>1, <2>2, <2>3 DEF Sequence!Next, Sequence!Call
<1> QED BY <1>1, <1>4, <1>5

\* A list that did not exist gets the nodes ns2.
LEMMA Created ==
  ASSUME NEW N, LInv(N), NEW l \in Lists, ~Exists(l),
         NEW list2 \in LListType, NEW mem2 \in Memory, NEW ns2 \in Seq(Nodes),
         Linked(list2, mem2, ns2), \A e \in Elems(ns2) : lnodes[e] = Freed,
         \A e \in Nodes \ Elems(ns2) : mem2[e] = lnodes[e],
         lists' = [lists EXCEPT ![l] = list2], lnodes' = mem2, iterator' = iterator
  PROVE  /\ LListInv' /\ items' = [items EXCEPT ![l] = DataIn(mem2, ns2)]
         /\ iterator'.list = iterator.list /\ cursor' = cursor
<1> DEFINE M == [N EXCEPT ![l] = ns2]
<1>1. Elems(ns2) \subseteq Nodes
  BY DEF Elems
<1>2. N[l] = << >> /\ Elems(N[l]) = {} /\ N \in [Lists -> Seq(Nodes)]
      /\ lists \in [Lists -> LListType \cup {None}]
  <2>1. N[l] = << >> /\ N \in [Lists -> Seq(Nodes)]
        /\ lists \in [Lists -> LListType \cup {None}]
    BY DEF LInv, AllLinked, Holds, Exists
  <2> QED BY <2>1 DEF Elems
<1>3. \A m \in Lists \ {l} : Elems(ns2) \cap Elems(N[m]) = {}
  <2> SUFFICES ASSUME NEW m \in Lists \ {l}, NEW e \in Elems(ns2), e \in Elems(N[m])
               PROVE  FALSE
    OBVIOUS
  <2>1. Holds(lists[m], lnodes, N[m])
    BY DEF LInv, AllLinked
  <2> QED BY <2>1, InUse
<1>4. list2 # None
  BY LListAssumption, NodesAre DEF LListType
<1>5. AllLinked(lists', lnodes', M)
  <2>1. AllLinked(lists, lnodes, N) /\ Holds(list2, mem2, ns2)
        /\ list2 \in LListType \cup {None}
    BY <1>4 DEF LInv, Holds
  <2>2. /\ \A e \in Nodes \ (Elems(N[l]) \cup Elems(ns2)) : mem2[e] = lnodes[e]
        /\ \A e \in Elems(N[l]) \ Elems(ns2) : mem2[e] = Freed
    BY <1>2
  <2>3. AllLinked([lists EXCEPT ![l] = list2], mem2, M)
    BY <1>3, <2>1, <2>2, OneChanges
  <2> QED BY <2>3
<1>6. IteratorOK(lists', iterator', M)
  <2>1. CASE iterator = NoIterator
    BY <2>1 DEF IteratorOK
  <2>2. CASE iterator # NoIterator
    <3>1. /\ iterator \in [list : Lists, entry : Nodes \cup {NULL}]
          /\ lists[iterator.list] # None /\ iterator.list \in Lists
          /\ lists[iterator.list].size = 0 => lists[iterator.list].first = NULL
          /\ iterator.entry \in Elems(N[iterator.list]) \cup {NULL}
      BY <2>2 DEF LInv, IteratorOK
    <3>2. lists'[iterator.list] = lists[iterator.list] /\ M[iterator.list] = N[iterator.list]
      BY <1>2, <3>1 DEF Exists
    <3> HIDE DEF M
    <3> QED BY <3>1, <3>2 DEF IteratorOK
  <2> QED BY <2>1, <2>2
<1>7. M[l] = ns2 /\ lists'[l] = list2 /\ \A m \in Lists \ {l} : lists'[m] = lists[m] /\ M[m] = N[m]
  BY <1>2
<1> HIDE DEF M
<1>8. items' = [items EXCEPT ![l] = DataIn(mem2, ns2)]
  <2>1. \A e \in Nodes \ (Elems(N[l]) \cup Elems(M[l])) : lnodes'[e].data = lnodes[e].data
    BY <1>7
  <2>2. /\ lists'[l] # None => items' = [items EXCEPT ![l] = DataIn(lnodes', M[l])]
        /\ lists'[l] = None => items' = [items EXCEPT ![l] = None]
    <3>1. \A m \in Lists \ {l} : lists'[m] = lists[m] /\ M[m] = N[m]
      BY <1>7
    <3>2. AllLinked(lists', lnodes', M)
      BY <1>5
    <3> HIDE <1>5, <1>6, <1>7
    <3>3. LInv(N) /\ l \in Lists
      OBVIOUS
    <3> QED BY ONLY <2>1, <3>1, <3>2, <3>3, ItemsBecome
  <2> QED BY <1>4, <1>7, <2>2
<1>9. cursor' = cursor
  <2>1. iterator' = iterator /\ AllLinked(lists, lnodes, N) /\ IteratorOK(lists, iterator, N)
    BY DEF LInv
  <2>2. iterator.list # None => M[iterator.list] = N[iterator.list]
    <3>1. iterator.list # None => iterator.list \in Lists /\ lists[iterator.list] # None
      BY <2>1, CursorIs
    <3> QED BY <1>7, <3>1 DEF Exists
  <2>3. CursorOf(lists', lnodes', iterator') = CursorOf(lists, lnodes, iterator)
    BY <1>5, <1>6, <2>1, <2>2, CursorKept
  <2> QED BY <2>3 DEF cursor
<1> QED BY <1>5, <1>6, <1>8, <1>9 DEF LListInv, LInv

\* llist_new.
LEMMA Made ==
  ASSUME NEW N, LInv(N), NEW l \in Lists, llist_new(l)
  PROVE  LListInv' /\ Sequence!Next
<1>1. NewList \in LListType /\ lnodes \in Memory
  BY DEF NewList, LListType, LInv, AllLinked
<1>2. << >> \in Seq(Nodes) /\ Elems(<< >>) = {} /\ Len(<< >>) = 0
  BY DEF Elems
<1>3. NewList.size = 0 /\ NewList.last = NULL
  BY DEF NewList
<1>4. Linked(NewList, lnodes, << >>)
  BY <1>1, <1>2, <1>3 DEF Linked
<1>5. ~Exists(l) /\ lists' = [lists EXCEPT ![l] = NewList] /\ lnodes' = lnodes
      /\ iterator' = iterator
  BY DEF llist_new
<1>6. /\ LListInv' /\ items' = [items EXCEPT ![l] = DataIn(lnodes, << >>)]
      /\ iterator'.list = iterator.list /\ cursor' = cursor
  BY <1>1, <1>2, <1>4, <1>5, Created
<1>7. DataIn(lnodes, << >>) = << >>
  BY DEF DataIn
<1>8. ~Sequence!Exists(l)
  BY <1>5, SequenceState, ItemsOfList
<1>9. Sequence!Returns("new", l, <<>>, None) /\ llast'[2] = l
  <2>1. Returns("new", l, <<>>, None)
    BY DEF llist_new
  <2> QED BY <2>1, ReturnsToo
<1>10. items' = [items EXCEPT ![l] = << >>]
  BY <1>6, <1>7
<1>11. Sequence!New(l)
  BY <1>6, <1>8, <1>9, <1>10
     DEF Sequence!New, Sequence!Only, items, ItemsOf, cursor, CursorOf, NodesOf, DataOf, DataIn,
         Exists
<1> QED BY <1>6, <1>9, <1>11 DEF Sequence!Next, Sequence!Call

\* Many calls of malloc, one after another.
LEMMA AllocatedAll ==
  ASSUME NEW n \in Nat, CanAllocate(n)
  PROVE  /\ AllocateAll(n) \in [1 .. n -> {e \in Nodes : lnodes[e] = Freed}]
         /\ IsInjective(AllocateAll(n))
<1> DEFINE free == {e \in Nodes : lnodes[e] = Freed}
           c == Cardinality(free)
<1>1. IsFiniteSet(free)
  BY NodesAre, FS_Subset
<1>2. c \in Nat /\ ExistsBijection(1 .. c, free) /\ c >= n
  BY <1>1, FS_CardinalityType DEF CanAllocate
<1> HIDE DEF free, c
<1>3. PICK f \in Bijection(1 .. c, free) : TRUE
  BY <1>2 DEF ExistsBijection
<1>4. f \in [1 .. c -> free] /\ \A i, j \in 1 .. c : f[i] = f[j] => i = j
  BY <1>3 DEF Bijection, Injection, IsInjective
<1> DEFINE s == [i \in 1 .. n |-> f[i]]
<1>5. \A i \in 1 .. n : i \in 1 .. c
  BY <1>2
<1>6. s \in [1 .. n -> free] /\ \A i, j \in 1 .. n : s[i] = s[j] => i = j
  BY <1>4, <1>5
<1> HIDE DEF s
<1>7. IsInjective(s)
  BY <1>6 DEF IsInjective
<1>8. \E t \in [1 .. n -> free] : IsInjective(t)
  BY <1>6, <1>7
<1> QED BY <1>8 DEF AllocateAll, free

\* llist_clone.
LEMMA Cloned ==
  ASSUME NEW N, LInv(N), NEW l \in Lists, NEW m \in Lists, llist_clone(l, m)
  PROVE  LListInv' /\ Sequence!Next
<1> DEFINE ns == NodesOf(l)
           n == Len(ns)
           to == AllocateAll(n)
           At(i) == IF i \in 1 .. Len(to) THEN to[i] ELSE NULL
<1>1. Walkable(l) /\ Exists(l) /\ ~Exists(m)
  BY DEF llist_clone, Walkable
<1>2. ns = N[l]
  BY <1>1, NodesOfList DEF Walkable
<1>3. /\ Linked(lists[l], lnodes, ns) /\ n \in Nat /\ ns \in Seq(Nodes) /\ lists[l].size = n
      /\ lnodes \in Memory /\ \A i \in 1 .. n : ns[i] \in Nodes
  BY <1>1, <1>2, ListOf
<1>0. \A i \in 1 .. n : lnodes[ns[i]].data \in Data
  BY <1>3 DEF Linked
<1>4. PICK garbage \in Nodes \cup {NULL} :
        /\ CanAllocate(n)
        /\ lnodes' = [e \in Nodes |->
                        IF \E i \in 1 .. Len(to) : to[i] = e
                        THEN LET i == CHOOSE i \in 1 .. Len(to) : to[i] = e
                             IN  [data |-> lnodes[ns[i]].data, next |-> At(i + 1),
                                  previous |-> At(i - 1)]
                        ELSE lnodes[e]]
        /\ lists' = [lists EXCEPT ![m] = [first |-> IF ns = << >> THEN garbage ELSE to[1],
                                          last |-> At(Len(to)), size |-> lists[l].size]]
        /\ iterator' = iterator
  BY DEF llist_clone
<1>5. /\ to \in Seq(Nodes) /\ Len(to) = n /\ \A i \in 1 .. n : to[i] \in Nodes
      /\ \A i \in 1 .. n : lnodes[to[i]] = Freed
      /\ \A i, j \in 1 .. n : to[i] = to[j] => i = j
  <2>1. to \in [1 .. n -> {e \in Nodes : lnodes[e] = Freed}] /\ IsInjective(to)
    BY <1>3, <1>4, AllocatedAll
  <2> HIDE DEF to
  <2>2. to \in Seq(Nodes) /\ Len(to) = n
    BY <1>3, <2>1
  <2>3. \A i \in 1 .. n : to[i] \in Nodes /\ lnodes[to[i]] = Freed
    BY <2>1
  <2>4. \A i, j \in 1 .. n : to[i] = to[j] => i = j
    BY <2>1 DEF IsInjective
  <2> QED BY <2>2, <2>3, <2>4
<1> HIDE DEF ns, to
<1>6. \A e \in Nodes \ Elems(to) : lnodes'[e] = lnodes[e]
  BY <1>4 DEF Elems
<1>7. \A i \in Int : At(i) \in Nodes \cup {NULL}
  BY <1>5
<1>8. ASSUME NEW i \in 1 .. n
      PROVE  lnodes'[to[i]] = [data |-> lnodes[ns[i]].data, next |-> After(to, i),
                               previous |-> Before(to, i)]
  <2> DEFINE j == CHOOSE j \in 1 .. Len(to) : to[j] = to[i]
  <2>1. j \in 1 .. n /\ to[j] = to[i]
    BY <1>5
  <2>2. j = i
    BY <1>5, <2>1
  <2>3. lnodes'[to[i]] = [data |-> lnodes[ns[j]].data, next |-> At(j + 1),
                          previous |-> At(j - 1)]
    BY <1>4, <1>5
  <2> HIDE DEF j
  <2>4. At(i + 1) = After(to, i)
    BY <1>3, <1>5 DEF After
  <2>5. At(i - 1) = Before(to, i)
    BY <1>3, <1>5 DEF Before
  <2> QED BY <2>2, <2>3, <2>4, <2>5
<1> DEFINE list2 == lists'[m]
<1>9. /\ list2 = [first |-> IF ns = << >> THEN garbage ELSE to[1],
                  last |-> At(Len(to)), size |-> lists[l].size]
      /\ lists' = [lists EXCEPT ![m] = list2]
  BY <1>4 DEF LInv, AllLinked
<1>10. (n = 0 <=> ns = << >>) /\ (n # 0 => 1 \in 1 .. n /\ n \in 1 .. n)
  BY <1>3
<1>11. /\ list2 \in LListType /\ list2.size = Len(to)
       /\ n > 0 => list2.first = to[1] /\ list2.last = to[n]
       /\ n = 0 => list2.last = NULL
  <2>1. At(Len(to)) \in Nodes \cup {NULL}
    BY <1>3, <1>5, <1>7
  <2>2. (n # 0 => At(Len(to)) = to[n]) /\ (n = 0 => At(Len(to)) = NULL)
    BY <1>5, <1>10
  <2>3. (IF ns = << >> THEN garbage ELSE to[1]) \in Nodes \cup {NULL}
    BY <1>4, <1>5, <1>10
  <2> HIDE DEF At
  <2> QED BY <1>3, <1>5, <1>9, <1>10, <2>1, <2>2, <2>3 DEF LListType
<1> HIDE DEF list2
<1>12. \A i \in 1 .. n : /\ lnodes'[to[i]].data \in Data
                         /\ lnodes'[to[i]].next = After(to, i)
                         /\ lnodes'[to[i]].previous = Before(to, i)
  <2> TAKE i \in 1 .. n
  <2>1. lnodes'[to[i]] = [data |-> lnodes[ns[i]].data, next |-> After(to, i),
                          previous |-> Before(to, i)]
    BY <1>8
  <2> QED BY <1>0, <2>1
<1>13. Linked(list2, lnodes', to)
  BY <1>5, <1>11, <1>12 DEF Linked
<1>14. lnodes' \in Memory
  <2>1. \A i \in 1 .. n : lnodes'[to[i]] \in LNode
    <3> TAKE i \in 1 .. n
    <3>1. After(to, i) \in Nodes \cup {NULL} /\ Before(to, i) \in Nodes \cup {NULL}
      <4>1. (i # n => i + 1 \in 1 .. n) /\ (i # 1 => i - 1 \in 1 .. n)
        BY <1>3
      <4> QED BY <1>5, <4>1 DEF After, Before
    <3>2. lnodes[ns[i]].data \in Data
      BY <1>0
    <3>3. lnodes'[to[i]] = [data |-> lnodes[ns[i]].data, next |-> After(to, i),
                            previous |-> Before(to, i)]
      BY <1>8
    <3> QED BY <3>1, <3>2, <3>3 DEF LNode
  <2>2. \A e \in Nodes : lnodes'[e] \in LNode
    BY <1>3, <1>5, <1>6, <2>1 DEF Memory, Elems
  <2>3. lnodes' = [e \in Nodes |-> lnodes'[e]]
    BY <1>4
  <2> QED BY <2>2, <2>3 DEF Memory
<1>15. \A e \in Elems(to) : lnodes[e] = Freed
  BY <1>5 DEF Elems
<1> HIDE DEF n
<1>16. lists' = [lists EXCEPT ![m] = list2] /\ iterator' = iterator
  BY <1>4, <1>9
<1>17. list2 \in LListType /\ to \in Seq(Nodes)
  BY <1>5, <1>11
<1>18. /\ LListInv' /\ items' = [items EXCEPT ![m] = DataIn(lnodes', to)]
       /\ iterator'.list = iterator.list /\ cursor' = cursor
  BY <1>1, <1>6, <1>13, <1>14, <1>15, <1>16, <1>17, Created
<1>19. DataIn(lnodes', to) = items[l]
  <2>1. \A i \in 1 .. Len(ns) : lnodes'[to[i]].data = lnodes[ns[i]].data
    <3> TAKE i \in 1 .. Len(ns)
    <3>1. i \in 1 .. n
      BY DEF n
    <3>2. lnodes'[to[i]] = [data |-> lnodes[ns[i]].data, next |-> After(to, i),
                            previous |-> Before(to, i)]
      BY <1>8, <3>1
    <3> QED BY <3>2
  <2>2. DataIn(lnodes', to) = DataIn(lnodes, ns)
    BY <1>5, <2>1 DEF DataIn, n
  <2> QED BY <1>1, <1>2, <2>2, ItemsOfList
<1>20. items' = [items EXCEPT ![m] = items[l]]
  BY <1>18, <1>19
<1>21. Sequence!Exists(l) /\ ~Sequence!Exists(m)
  BY <1>1, SequenceState, ItemsOfList
<1>22. Sequence!Returns("clone", l, <<m>>, None) /\ llast'[2] = l
  <2>1. Returns("clone", l, <<m>>, None)
    BY Zenon DEF llist_clone
  <2> QED BY <2>1, ReturnsToo
<1>23. Sequence!Clone(l, m)
  BY <1>18, <1>20, <1>21, <1>22
     DEF Sequence!Clone, Sequence!Only, items, ItemsOf, cursor, CursorOf, NodesOf, DataOf, DataIn,
         Exists
<1> QED BY <1>18, <1>22, <1>23 DEF Sequence!Next, Sequence!Call

-----------------------------------------------------------------------------
(***************************************************************************)
(* The calls that reverse a list and append another.                       *)
(***************************************************************************)

\* The loop of llist_reverse, turn by turn.
LEMMA Turns ==
  ASSUME NEW start
  PROVE  /\ Swaps(start)[0] = start
         /\ \A i \in 1 .. MaxNodes : Swaps(start)[i] = SwapEnds(Swaps(start)[i - 1])
<1> DEFINE Steps(f, n) == [i \in 0 .. n |-> IF i = 0 THEN start ELSE SwapEnds(f[i - 1])]
           T == {n \in Nat : \E g : g = Steps(g, n)}
<1>1. 0 \in T
  <2> DEFINE h == [i \in 0 .. 0 |-> start]
  <2>1. h = Steps(h, 0)
    OBVIOUS
  <2> QED BY <2>1
<1>2. ASSUME NEW n \in Nat, n \in T PROVE n + 1 \in T
  <2>1. PICK p : p = Steps(p, n)
    BY <1>2
  <2> DEFINE h == [i \in 0 .. n + 1 |-> IF i = n + 1 THEN SwapEnds(p[n]) ELSE p[i]]
  <2>2. \A i \in 0 .. n + 1 : h[i] = IF i = 0 THEN start ELSE SwapEnds(h[i - 1])
    <3>1. \A i \in 0 .. n : p[i] = IF i = 0 THEN start ELSE SwapEnds(p[i - 1])
      BY <2>1
    <3>2. \A i \in 0 .. n : h[i] = p[i]
      OBVIOUS
    <3>3. h[n + 1] = SwapEnds(p[n]) /\ h[n] = p[n]
      BY <3>2
    <3> HIDE DEF h
    <3> QED BY <3>1, <3>2, <3>3
  <2>3. h = Steps(h, n + 1)
    BY <2>2
  <2> HIDE DEF h
  <2>4. \E q : q = Steps(q, n + 1)
    BY <2>3
  <2> QED BY <2>4
<1> HIDE DEF T
<1>3. MaxNodes \in T
  BY <1>1, <1>2, SetInduction, NodesAre
<1> DEFINE at == CHOOSE g : g = Steps(g, MaxNodes)
<1>4. at = Steps(at, MaxNodes)
  BY <1>3 DEF T
<1> HIDE DEF at
<1>5. at[0] = start /\ \A i \in 1 .. MaxNodes : at[i] = SwapEnds(at[i - 1])
  BY <1>4, NodesAre
<1> QED BY <1>5 DEF at, Swaps

SetData(mem, e, x) == [mem EXCEPT ![e].data = x]

LEMMA DataSet ==
  ASSUME NEW mem \in Memory, NEW e \in Nodes, NEW x \in Data
  PROVE  /\ SetData(mem, e, x) \in Memory
         /\ SetData(mem, e, x)[e].data = x
         /\ SetData(mem, e, x)[e].next = mem[e].next
         /\ SetData(mem, e, x)[e].previous = mem[e].previous
         /\ \A d \in Nodes \ {e} : SetData(mem, e, x)[d] = mem[d]
<1> DEFINE r == [mem[e] EXCEPT !.data = x]
<1>1. mem[e] \in LNode
  BY DEF Memory
<1>2. r \in LNode /\ r.data = x /\ r.next = mem[e].next /\ r.previous = mem[e].previous
  BY <1>1 DEF LNode
<1> HIDE DEF r
<1>3. [mem EXCEPT ![e] = r] \in Memory /\ [mem EXCEPT ![e] = r][e] = r
      /\ \A d \in Nodes \ {e} : [mem EXCEPT ![e] = r][d] = mem[d]
  BY <1>2 DEF Memory
<1>4. SetData(mem, e, x) = [mem EXCEPT ![e] = r]
  BY DEF SetData, r
<1> QED BY <1>2, <1>3, <1>4

\* The k-th of the nodes ns has data x, everything else is as it was.
DataIs(mem2, mem, ns, k, x) ==
  /\ \A e \in Nodes \ Elems(ns) : mem2[e] = mem[e]
  /\ \A i \in 1 .. Len(ns) : mem2[ns[i]].data = IF i = k THEN x ELSE mem[ns[i]].data

\* New data for a node of a linked list.
LEMMA DataChanges ==
  ASSUME NEW list, NEW mem \in Memory, NEW ns, Linked(list, mem, ns),
         NEW k \in 1 .. Len(ns), NEW x \in Data
  PROVE  /\ SetData(mem, ns[k], x) \in Memory /\ Linked(list, SetData(mem, ns[k], x), ns)
         /\ DataIs(SetData(mem, ns[k], x), mem, ns, k, x)
<1> DEFINE e == ns[k]
           mem2 == SetData(mem, e, x)
<1>1. /\ e \in Nodes /\ e \in Elems(ns)
      /\ \A i \in 1 .. Len(ns) : ns[i] \in Nodes /\ (ns[i] = e => i = k)
  BY DEF Linked, Elems
<1> HIDE DEF e
<1>2. /\ mem2 \in Memory /\ mem2[e].data = x /\ mem2[e].next = mem[e].next
      /\ mem2[e].previous = mem[e].previous /\ \A d \in Nodes \ {e} : mem2[d] = mem[d]
  BY <1>1, DataSet
<1> HIDE DEF mem2
<1>3. \A i \in 1 .. Len(ns) : /\ mem2[ns[i]].data \in Data
                              /\ mem2[ns[i]].next = mem[ns[i]].next
                              /\ mem2[ns[i]].previous = mem[ns[i]].previous
  <2>1. \A i \in 1 .. Len(ns) : mem[ns[i]].data \in Data
    BY DEF Linked
  <2> QED BY <1>1, <1>2, <2>1
<1>4. Linked(list, mem2, ns)
  BY <1>3 DEF Linked
<1>5. \A i \in 1 .. Len(ns) : mem2[ns[i]].data = IF i = k THEN x ELSE mem[ns[i]].data
  <2>1. ns[k] = e
    BY DEF e
  <2> QED BY <1>1, <1>2, <2>1
<1>6. DataIs(mem2, mem, ns, k, x)
  BY <1>1, <1>2, <1>5 DEF DataIs
<1> QED BY <1>2, <1>4, <1>6 DEF e, mem2

Met(w) == w.head = w.tail \/ w.mem[w.head].previous = w.tail

\* After t turns: the k-th node from either end; the lists stay linked, and
\* the data outside the two nodes changed places.
Turned(w, list, mem, ns, t) ==
  /\ w.mem \in Memory /\ Linked(list, w.mem, ns)
  /\ \A e \in Nodes \ Elems(ns) : w.mem[e] = mem[e]
  /\ \/ Len(ns) = 0 /\ w.head = w.tail
     \/ \E k \in 1 .. Len(ns) :
          /\ k <= Len(ns) + 2 - k /\ w.head = ns[k] /\ w.tail = ns[Len(ns) + 1 - k]
          /\ k > t \/ Met(w)
          /\ \A i \in 1 .. Len(ns) :
               w.mem[ns[i]].data = mem[ns[IF i < k \/ i > Len(ns) + 1 - k
                                          THEN Len(ns) + 1 - i ELSE i]].data

LEMMA Turn ==
  ASSUME NEW w, NEW list, NEW mem, NEW ns, NEW t \in Nat, Turned(w, list, mem, ns, t)
  PROVE  Turned(SwapEnds(w), list, mem, ns, t + 1)
<1>1. CASE Met(w)
  <2>1. SwapEnds(w) = w
    BY <1>1 DEF SwapEnds, Met
  <2> QED BY <1>1, <2>1 DEF Turned
<1>2. CASE ~Met(w)
  <2> DEFINE v == SwapEnds(w)
             n == Len(ns)
             Place(i, k) == IF i < k \/ i > n + 1 - k THEN n + 1 - i ELSE i
  <2>1. PICK k \in 1 .. n : /\ k <= n + 2 - k /\ w.head = ns[k] /\ w.tail = ns[n + 1 - k]
                            /\ k > t
                            /\ \A i \in 1 .. n : w.mem[ns[i]].data = mem[ns[Place(i, k)]].data
    BY <1>2 DEF Turned, Met
  <2> DEFINE j == n + 1 - k
             a == w.mem[ns[j]].data
             b == w.mem[ns[k]].data
             mem1 == SetData(w.mem, ns[k], a)
             mem2 == SetData(mem1, ns[j], b)
  <2>2. n \in Nat /\ Linked(list, w.mem, ns) /\ w.mem \in Memory
        /\ \A e \in Nodes \ Elems(ns) : w.mem[e] = mem[e]
    BY DEF Turned, Linked
  <2>3. j \in 1 .. n
    BY <2>2
  <2>4. v = [head |-> w.mem[ns[k]].next, tail |-> w.mem[ns[j]].previous, mem |-> mem2]
    <3>1. ~(w.head = w.tail \/ w.mem[w.head].previous = w.tail)
      BY <1>2 DEF Met
    <3> QED BY <2>1, <3>1 DEF SwapEnds, SetData
  <2>5. a \in Data /\ b \in Data
    BY <2>2, <2>3 DEF Linked
  <2>6. k # j /\ k - 1 # j
    <3>1. k # j
      BY <1>2, <2>1 DEF Met
    <3>2. ASSUME k - 1 = j PROVE FALSE
      <4>1. k # 1 /\ w.mem[ns[k]].previous = Before(ns, k)
        BY <2>2, <2>3, <3>2 DEF Linked
      <4>2. w.mem[w.head].previous = w.tail
        BY <2>1, <3>2, <4>1 DEF Before
      <4> QED BY <1>2, <4>2 DEF Met
    <3> QED BY <3>1, <3>2
  <2>7. k < j
    BY <2>1, <2>2, <2>6
  <2>8. k + 1 \in 1 .. n /\ k # n /\ j # 1 /\ j - 1 \in 1 .. n /\ j - 1 = n + 1 - (k + 1)
        /\ k + 1 <= n + 2 - (k + 1) /\ k + 1 > t + 1
    BY <2>1, <2>2, <2>3, <2>7
  <2>9. w.mem[ns[k]].next = ns[k + 1]
    BY <2>2, <2>8 DEF Linked, After
  <2>10. w.mem[ns[j]].previous = ns[j - 1]
    BY <2>2, <2>3, <2>8 DEF Linked, Before
  <2>17. a = mem[ns[j]].data /\ b = mem[ns[k]].data
    <3>1. Place(j, k) = j /\ Place(k, k) = k
      BY <2>2, <2>7
    <3> QED BY <2>1, <2>3, <3>1
  <2> HIDE DEF a, b, v
  <2> DEFINE mem0 == w.mem
  <2>20. mem0 \in Memory /\ Linked(list, mem0, ns) /\ mem1 = SetData(mem0, ns[k], a)
    BY <2>2
  <2> HIDE DEF mem0, mem1
  <2>11. mem1 \in Memory /\ Linked(list, mem1, ns) /\ DataIs(mem1, mem0, ns, k, a)
    BY <2>5, <2>20, DataChanges
  <2>18. j = n + 1 - k
    OBVIOUS
  <2> HIDE DEF j, mem1
  <2>12. mem2 \in Memory /\ Linked(list, mem2, ns) /\ DataIs(mem2, mem1, ns, j, b)
    BY <2>3, <2>5, <2>11, DataChanges
  <2> HIDE DEF mem2
  <2>21. /\ \A e \in Nodes \ Elems(ns) : mem2[e] = w.mem[e]
         /\ \A i \in 1 .. n : mem2[ns[i]].data = IF i = j THEN b ELSE IF i = k THEN a
                                                 ELSE w.mem[ns[i]].data
    BY <2>11, <2>12 DEF DataIs, mem0
  <2>13. v.head = ns[k + 1] /\ v.tail = ns[j - 1] /\ v.mem = mem2
    BY <2>4, <2>9, <2>10
  <2>14. v.tail = ns[n + 1 - (k + 1)]
    BY <2>8, <2>13
  <2>19. ASSUME NEW i \in 1 .. n PROVE mem2[ns[i]].data = mem[ns[Place(i, k + 1)]].data
    <3>1. CASE i = k
      <4>1. Place(i, k + 1) = j /\ i # j
        BY <2>2, <2>7, <2>18, <3>1
      <4> QED BY <2>17, <2>21, <3>1, <4>1
    <3>2. CASE i = j
      <4>1. Place(i, k + 1) = k
        BY <2>2, <2>7, <2>18, <3>2
      <4> QED BY <2>17, <2>21, <3>2, <4>1
    <3>3. CASE i # k /\ i # j
      <4>1. Place(i, k + 1) = Place(i, k)
        BY <2>2, <2>7, <2>18, <3>3
      <4>2. w.mem[ns[i]].data = mem[ns[Place(i, k)]].data
        BY <2>1
      <4> QED BY <2>21, <3>3, <4>1, <4>2
    <3> QED BY <3>1, <3>2, <3>3
  <2>15. \E q \in 1 .. n : /\ q <= n + 2 - q /\ v.head = ns[q] /\ v.tail = ns[n + 1 - q]
                           /\ q > t + 1 \/ Met(v)
                           /\ \A i \in 1 .. n : v.mem[ns[i]].data = mem[ns[Place(i, q)]].data
    BY <2>8, <2>13, <2>14, <2>19
  <2>16. v.mem \in Memory /\ Linked(list, v.mem, ns)
         /\ \A e \in Nodes \ Elems(ns) : v.mem[e] = mem[e]
    BY <2>2, <2>12, <2>13, <2>21
  <2> QED BY <2>15, <2>16 DEF Turned, v
<1> QED BY <1>1, <1>2

\* When the two have met, the data is in the opposite order.
LEMMA TurnedRound ==
  ASSUME NEW w, NEW list, NEW mem, NEW ns, Turned(w, list, mem, ns, MaxNodes)
  PROVE  \A i \in 1 .. Len(ns) : w.mem[ns[i]].data = mem[ns[Len(ns) + 1 - i]].data
<1> DEFINE n == Len(ns)
<1>1. Linked(list, w.mem, ns) /\ n \in Nat /\ n <= MaxNodes /\ MaxNodes \in Nat
  <2>1. Linked(list, w.mem, ns)
    BY DEF Turned
  <2>2. /\ n \in Nat /\ ns \in Seq(Nodes)
        /\ \A i, j \in 1 .. n : ns[i] = ns[j] => i = j
    BY <2>1 DEF Linked
  <2> QED BY <2>1, <2>2, NodesAre, NoMoreThanNodes
<1>2. CASE n = 0
  BY <1>2
<1>3. CASE n # 0
  <2>1. PICK k \in 1 .. n :
          /\ k <= n + 2 - k /\ w.head = ns[k] /\ w.tail = ns[n + 1 - k]
          /\ k > MaxNodes \/ Met(w)
          /\ \A i \in 1 .. n : w.mem[ns[i]].data = mem[ns[IF i < k \/ i > n + 1 - k
                                                          THEN n + 1 - i ELSE i]].data
    BY <1>3 DEF Turned
  <2>2. Met(w)
    BY <1>1, <2>1
  <2>3. /\ \A i \in 1 .. n : ns[i] \in Nodes /\ ns[i] # NULL
        /\ \A i, j \in 1 .. n : ns[i] = ns[j] => i = j
        /\ w.mem[ns[k]].previous = Before(ns, k)
    <3>1. \A e \in Nodes : e # NULL
      BY DEF Nodes
    <3> QED BY <1>1, <3>1 DEF Linked
  <2>4. n + 1 - k \in 1 .. n
    BY <1>1
  <2>5. k = n + 1 - k \/ k - 1 = n + 1 - k
    <3>1. CASE w.head = w.tail
      BY <2>1, <2>3, <2>4, <3>1
    <3>2. CASE w.mem[w.head].previous = w.tail
      <4>1. Before(ns, k) = ns[n + 1 - k]
        BY <2>1, <2>3, <3>2
      <4>2. k # 1 /\ ns[k - 1] = ns[n + 1 - k]
        BY <2>3, <2>4, <4>1 DEF Before
      <4>3. k - 1 \in 1 .. n
        BY <1>1, <4>2
      <4> QED BY <2>3, <2>4, <4>2, <4>3
    <3> QED BY <2>2, <3>1, <3>2 DEF Met
  <2> SUFFICES ASSUME NEW i \in 1 .. n PROVE w.mem[ns[i]].data = mem[ns[n + 1 - i]].data
    OBVIOUS
  <2>6. (IF i < k \/ i > n + 1 - k THEN n + 1 - i ELSE i) = n + 1 - i
    BY <1>1, <2>5
  <2> QED BY <2>1, <2>6
<1> QED BY <1>2, <1>3

\* llist_reverse turns the items of the list round.
LEMMA Reversed ==
  ASSUME NEW N, LInv(N), NEW l \in Lists, llist_reverse(l)
  PROVE  LListInv' /\ Sequence!Next
<1> DEFINE ns == N[l]
           start == [head |-> lists[l].first, tail |-> lists[l].last, mem |-> lnodes]
           ends == Swaps(start)
           T == {i \in Nat : i <= MaxNodes => Turned(ends[i], lists[l], lnodes, ns, i)}
<1>1. /\ Exists(l) /\ (lists[l].size = 0 => lists[l].first = NULL)
      /\ lnodes' = ends[MaxNodes].mem /\ lists' = lists /\ iterator' = iterator
  BY DEF llist_reverse, Walkable
<1>2. ends[0] = start /\ \A i \in 1 .. MaxNodes : ends[i] = SwapEnds(ends[i - 1])
  BY Turns
<1> HIDE DEF ends
<1>3. /\ Linked(lists[l], lnodes, ns) /\ Len(ns) \in Nat /\ lnodes \in Memory
      /\ lists[l].size = Len(ns) /\ ns \in Seq(Nodes) /\ lists[l] \in LListType
  BY <1>1, ListOf
<1>4. Turned(start, lists[l], lnodes, ns, 0)
  <2>1. CASE Len(ns) = 0
    <3>1. lists[l].first = NULL /\ lists[l].last = NULL
      BY <1>1, <1>3, <2>1 DEF Linked
    <3> QED BY <1>3, <2>1, <3>1 DEF Turned
  <2>2. CASE Len(ns) # 0
    <3>1. 1 \in 1 .. Len(ns) /\ 1 <= Len(ns) + 2 - 1 /\ Len(ns) + 1 - 1 = Len(ns) /\ Len(ns) > 0
          /\ 1 > 0 /\ \A i \in 1 .. Len(ns) : ~(i < 1 \/ i > Len(ns) + 1 - 1)
      BY <1>3, <2>2
    <3>2. lists[l].first = ns[1] /\ lists[l].last = ns[Len(ns) + 1 - 1]
      BY <1>3, <3>1 DEF Linked
    <3>3. \A i \in 1 .. Len(ns) :
            lnodes[ns[i]].data = lnodes[ns[IF i < 1 \/ i > Len(ns) + 1 - 1
                                           THEN Len(ns) + 1 - i ELSE i]].data
      BY <3>1
    <3> QED BY <1>3, <3>1, <3>2, <3>3 DEF Turned
  <2> QED BY <2>1, <2>2
<1>5. 0 \in T
  BY <1>2, <1>4
<1>6. ASSUME NEW i \in Nat, i \in T PROVE i + 1 \in T
  <2> SUFFICES ASSUME i + 1 <= MaxNodes PROVE Turned(ends[i + 1], lists[l], lnodes, ns, i + 1)
    BY <1>6
  <2>1. i + 1 \in 1 .. MaxNodes /\ i <= MaxNodes /\ (i + 1) - 1 = i
    BY NodesAre
  <2>2. ends[i + 1] = SwapEnds(ends[i])
    BY <1>2, <2>1
  <2>3. Turned(ends[i], lists[l], lnodes, ns, i)
    BY <1>6, <2>1
  <2> QED BY <2>2, <2>3, Turn
<1> HIDE DEF T
<1>7. MaxNodes \in T
  BY <1>5, <1>6, SetInduction, NodesAre
<1>8. Turned(ends[MaxNodes], lists[l], lnodes, ns, MaxNodes)
  BY <1>7, NodesAre DEF T
<1>9. lnodes' \in Memory /\ Linked(lists[l], lnodes', ns)
      /\ \A e \in Nodes \ Elems(ns) : lnodes'[e] = lnodes[e]
  BY <1>1, <1>8 DEF Turned
<1>10. \A i \in 1 .. Len(ns) : lnodes'[ns[i]].data = lnodes[ns[Len(ns) + 1 - i]].data
  <2>1. PICK w : w = ends[MaxNodes]
    OBVIOUS
  <2>2. Turned(w, lists[l], lnodes, ns, MaxNodes) /\ lnodes' = w.mem
    BY <1>1, <1>8, <2>1
  <2> HIDE DEF ns
  <2>3. \A i \in 1 .. Len(ns) : w.mem[ns[i]].data = lnodes[ns[Len(ns) + 1 - i]].data
    BY ONLY <2>2, TurnedRound
  <2> QED BY <2>2, <2>3
<1>11. AllLinked(lists, lnodes, N) /\ lists[l] # None /\ IteratorOK(lists, iterator, N)
  BY <1>1 DEF LInv, Exists
<1>12. \A m \in Lists \ {l} : Elems(ns) \cap Elems(N[m]) = {}
  BY <1>11 DEF AllLinked
<1>13. Holds(lists[l], lnodes', ns) /\ lists[l] \in LListType \cup {None}
  BY <1>3, <1>9, <1>11 DEF Holds
<1>14. AllLinked([lists EXCEPT ![l] = lists[l]], lnodes', [N EXCEPT ![l] = ns])
  BY <1>3, <1>9, <1>11, <1>12, <1>13, OneChanges
<1>15. [lists EXCEPT ![l] = lists[l]] = lists /\ [N EXCEPT ![l] = ns] = N
  BY <1>11 DEF AllLinked
<1>16. AllLinked(lists', lnodes', N) /\ IteratorOK(lists', iterator', N)
  BY <1>1, <1>11, <1>14, <1>15
<1>17. cursor' = cursor
  <2>1. CursorOf(lists', lnodes', iterator) = CursorOf(lists, lnodes, iterator)
    BY <1>1, <1>11, <1>16, CursorKept
  <2> QED BY <1>1, <2>1 DEF cursor
<1>18. items' = [items EXCEPT ![l] = DataIn(lnodes', N[l])]
  <2>1. /\ \A m \in Lists \ {l} : lists'[m] = lists[m] /\ N[m] = N[m]
        /\ lists'[l] # None
    BY <1>1, <1>11
  <2>2. \A e \in Nodes \ (Elems(N[l]) \cup Elems(N[l])) : lnodes'[e].data = lnodes[e].data
    BY <1>9
  <2>3. LInv(N) /\ l \in Lists /\ AllLinked(lists', lnodes', N)
    BY <1>16
  <2>4. lists'[l] # None => items' = [items EXCEPT ![l] = DataIn(lnodes', N[l])]
    BY ONLY <2>1, <2>2, <2>3, ItemsBecome
  <2> QED BY <2>1, <2>4
<1>19. DataIn(lnodes', N[l]) = Reverse(items[l])
  <2>1. Len(items[l]) = Len(ns) /\ \A i \in 1 .. Len(ns) : items[l][i] = lnodes[ns[i]].data
    BY <1>1, ItemsOfList
  <2>2. \A i \in 1 .. Len(ns) : /\ Len(ns) + 1 - i \in 1 .. Len(ns)
                                /\ Len(ns) + 1 - i = (Len(ns) - i) + 1
    BY <1>3
  <2>3. ASSUME NEW i \in 1 .. Len(ns)
        PROVE  lnodes'[ns[i]].data = items[l][(Len(ns) - i) + 1]
    <3>1. PICK j \in 1 .. Len(ns) : j = Len(ns) + 1 - i /\ j = (Len(ns) - i) + 1
      BY <2>2
    <3>2. lnodes'[ns[i]].data = lnodes[ns[j]].data
      BY <1>10, <3>1
    <3>3. items[l][j] = lnodes[ns[j]].data
      BY <2>1
    <3> QED BY <3>1, <3>2, <3>3
  <2> QED BY <2>1, <2>3 DEF DataIn, Reverse
<1>20. Sequence!Returns("reverse", l, <<>>, None) /\ llast'[2] = l
  <2>1. Returns("reverse", l, <<>>, None)
    BY DEF llist_reverse
  <2> QED BY <2>1, ReturnsToo
<1>21. Sequence!Exists(l)
  BY <1>1, SequenceState, ItemsOfList
<1>22. items' = [items EXCEPT ![l] = Reverse(items[l])] /\ iterator'.list = iterator.list
  BY <1>1, <1>18, <1>19
<1>23. Sequence!Turn(l)
  BY <1>17, <1>20, <1>21, <1>22, Zenon
     DEF Sequence!Turn, Sequence!Only, items, ItemsOf, cursor, CursorOf, NodesOf, DataOf, DataIn,
         Exists, Reverse, Sequence!Reverse
<1> QED BY <1>16, <1>20, <1>23 DEF LListInv, LInv, Sequence!Next, Sequence!Call

\* The loop of llist_add_all, turn by turn.
LEMMA Appends ==
  ASSUME NEW h, NEW xs, Len(xs) \in Nat
  PROVE  /\ Appended(h, xs)[0] = h
         /\ \A i \in 1 .. Len(xs) :
              Appended(h, xs)[i] = llist_add_last_entry(Appended(h, xs)[i - 1], xs[i])
<1> DEFINE Add(g, i) == llist_add_last_entry(g, xs[i])
           Steps(f, n) == [i \in 0 .. n |-> IF i = 0 THEN h ELSE Add(f[i - 1], i)]
           T == {n \in Nat : \E g : g = Steps(g, n)}
<1>1. 0 \in T
  <2> DEFINE s == [i \in 0 .. 0 |-> h]
  <2>1. s = Steps(s, 0)
    OBVIOUS
  <2> QED BY <2>1
<1>2. ASSUME NEW n \in Nat, n \in T PROVE n + 1 \in T
  <2> HIDE DEF Add
  <2>1. PICK p : p = Steps(p, n)
    BY <1>2
  <2> DEFINE s == [i \in 0 .. n + 1 |-> IF i = n + 1 THEN Add(p[n], n + 1) ELSE p[i]]
  <2>2. \A i \in 0 .. n + 1 : s[i] = IF i = 0 THEN h ELSE Add(s[i - 1], i)
    <3>1. \A i \in 0 .. n : p[i] = IF i = 0 THEN h ELSE Add(p[i - 1], i)
      BY <2>1
    <3>2. \A i \in 0 .. n : s[i] = p[i]
      OBVIOUS
    <3>3. s[n + 1] = Add(p[n], n + 1) /\ s[n] = p[n]
      BY <3>2
    <3> HIDE DEF s, Add
    <3> TAKE i \in 0 .. n + 1
    <3>4. CASE i = n + 1
      <4>1. i - 1 = n /\ i # 0
        BY <3>4
      <4> QED BY <3>3, <3>4, <4>1
    <3>5. CASE i # n + 1
      <4>1. i \in 0 .. n /\ (i # 0 => i - 1 \in 0 .. n)
        BY <3>5
      <4>2. s[i] = p[i] /\ p[i] = IF i = 0 THEN h ELSE Add(p[i - 1], i)
        BY <3>1, <3>2, <4>1
      <4>3. i # 0 => p[i - 1] = s[i - 1]
        BY <3>2, <4>1
      <4> QED BY <4>2, <4>3
    <3> QED BY <3>4, <3>5
  <2>3. s = Steps(s, n + 1)
    BY <2>2
  <2> HIDE DEF s
  <2>4. \E q : q = Steps(q, n + 1)
    BY <2>3
  <2> QED BY <2>4
<1> HIDE DEF T
<1>3. Len(xs) \in T
  BY <1>1, <1>2, SetInduction
<1> DEFINE at == CHOOSE g : g = Steps(g, Len(xs))
<1>4. at = Steps(at, Len(xs))
  BY <1>3 DEF T
<1>5. Appended(h, xs) = at
  BY DEF Appended
<1> HIDE DEF at
<1> QED BY <1>4, <1>5

\* The nodes that can be allocated are those in no list.
LEMMA FreeIs ==
  ASSUME NEW ls, NEW mem, NEW N, AllLinked(ls, mem, N)
  PROVE  {e \in Nodes : mem[e] = Freed} = {e \in Nodes : \A l \in Lists : e \notin Elems(N[l])}
<1>1. ASSUME NEW e \in Nodes, NEW l \in Lists, e \in Elems(N[l]) PROVE mem[e] # Freed
  <2>1. Holds(ls[l], mem, N[l])
    BY DEF AllLinked
  <2> QED BY <1>1, <2>1, InUse
<1>2. \A e \in Nodes : (\A l \in Lists : e \notin Elems(N[l])) => mem[e] = Freed
  BY DEF AllLinked
<1> QED BY <1>1, <1>2

FreeIn(mem) == {e \in Nodes : mem[e] = Freed}

\* The nodes ms are ns and then one for each of the first i of xs.
Extended(ns, ms, mem, mem2, xs, i) ==
  /\ Len(ms) = Len(ns) + i
  /\ \A j \in 1 .. Len(ns) : ms[j] = ns[j] /\ mem2[ns[j]].data = mem[ns[j]].data
  /\ \A j \in 1 .. i : mem2[ms[Len(ns) + j]].data = xs[j]
  /\ \A d \in Nodes \ Elems(ms) : mem2[d].data = mem[d].data

LEMMA ExtendedBy ==
  ASSUME NEW ns \in Seq(Nodes), NEW ms \in Seq(Nodes), NEW mem, NEW mem2, NEW xs, NEW i \in Nat,
         Extended(ns, ms, mem, mem2, xs, i), NEW e \in Nodes, e \notin Elems(ms),
         NEW mem3, mem3[e].data = xs[i + 1], \A d \in Nodes \ {e} : mem3[d].data = mem2[d].data
  PROVE  Extended(ns, Ins(ms, Len(ms) + 1, e), mem, mem3, xs, i + 1)
<1> DEFINE ms2 == Ins(ms, Len(ms) + 1, e)
<1>1. Len(ns) \in Nat /\ Len(ms) \in Nat /\ Len(ms) = Len(ns) + i
      /\ \A j \in 1 .. Len(ns) : ns[j] \in Nodes
  BY DEF Extended
<1>2. /\ Len(ms2) = Len(ms) + 1 /\ Elems(ms2) = Elems(ms) \cup {e}
      /\ \A j \in 1 .. Len(ms) + 1 : ms2[j] = IF j < Len(ms) + 1 THEN ms[j]
                                             ELSE IF j = Len(ms) + 1 THEN e ELSE ms[j - 1]
  <2>1. Len(ms) + 1 \in 1 .. Len(ms) + 1
    BY <1>1
  <2>2. PICK k \in 1 .. Len(ms) + 1 : k = Len(ms) + 1
    BY <2>1
  <2>3. /\ Len(Ins(ms, k, e)) = Len(ms) + 1 /\ Elems(Ins(ms, k, e)) = Elems(ms) \cup {e}
        /\ \A j \in 1 .. Len(ms) + 1 :
             Ins(ms, k, e)[j] = IF j < k THEN ms[j] ELSE IF j = k THEN e ELSE ms[j - 1]
    BY ONLY ms \in Seq(Nodes), e \in Nodes, k \in 1 .. Len(ms) + 1, InsIs
  <2>4. ms2 = Ins(ms, k, e)
    BY <2>2
  <2> HIDE DEF ms2
  <2> QED BY <2>2, <2>3, <2>4
<1> HIDE DEF ms2
<1>3. \A j \in 1 .. Len(ms) : ms2[j] = ms[j] /\ ms[j] \in Nodes /\ ms[j] # e
  <2> TAKE j \in 1 .. Len(ms)
  <2>1. j \in 1 .. Len(ms) + 1 /\ j < Len(ms) + 1
    BY <1>1
  <2>2. ms[j] \in Nodes /\ ms[j] # e
    BY DEF Elems
  <2> QED BY <1>2, <2>1, <2>2
<1>4. Len(ms2) = Len(ns) + (i + 1)
  BY <1>1, <1>2
<1>5. ASSUME NEW j \in 1 .. Len(ns)
      PROVE  ms2[j] = ns[j] /\ mem3[ns[j]].data = mem[ns[j]].data
  <2>1. j \in 1 .. Len(ms)
    BY <1>1
  <2>2. ms[j] = ns[j] /\ mem2[ns[j]].data = mem[ns[j]].data
    BY DEF Extended
  <2> QED BY <1>3, <2>1, <2>2
<1>6. ASSUME NEW j \in 1 .. i + 1 PROVE mem3[ms2[Len(ns) + j]].data = xs[j]
  <2>1. CASE j = i + 1
    <3>1. Len(ns) + j = Len(ms) + 1 /\ Len(ms) + 1 \in 1 .. Len(ms) + 1
      BY <1>1, <2>1
    <3>2. ms2[Len(ms) + 1] = e
      BY <1>1, <1>2, <3>1
    <3> QED BY <2>1, <3>1, <3>2
  <2>2. CASE j # i + 1
    <3>1. j \in 1 .. i /\ Len(ns) + j \in 1 .. Len(ms)
      BY <1>1, <2>2
    <3>2. mem2[ms[Len(ns) + j]].data = xs[j]
      BY <3>1 DEF Extended
    <3> QED BY <1>3, <3>1, <3>2
  <2> QED BY <2>1, <2>2
<1>7. \A d \in Nodes \ Elems(ms2) : mem3[d].data = mem[d].data
  BY <1>2 DEF Extended
<1>8. Extended(ns, ms2, mem, mem3, xs, i + 1)
  BY <1>4, <1>5, <1>6, <1>7 DEF Extended
<1> QED BY <1>8 DEF ms2

\* After i turns of the loop that adds xs to list l.
Growing(h, N, l, xs, i) ==
  /\ h \in [list : LListType, mem : Memory]
  /\ h.list = lists[l] \/ h.list.size # 0
  /\ Cardinality(FreeIn(h.mem)) >= Len(xs) - i
  /\ \E M : /\ AllLinked([lists EXCEPT ![l] = h.list], h.mem, M)
            /\ Extended(N[l], M[l], lnodes, h.mem, xs, i)
            /\ \A m \in Lists \ {l} : M[m] = N[m]

LEMMA GrowsBy ==
  ASSUME NEW N, LInv(N), NEW l \in Lists, Exists(l), NEW xs, Len(xs) \in Nat,
         NEW i \in Nat, i < Len(xs), NEW h, Growing(h, N, l, xs, i), xs[i + 1] \in Data
  PROVE  Growing(llist_add_last_entry(h, xs[i + 1]), N, l, xs, i + 1)
<1> DEFINE ls == [lists EXCEPT ![l] = h.list]
           e == Allocate(h.mem)
           x == xs[i + 1]
           g == llist_add_last_entry(h, x)
<1>1. PICK M : /\ AllLinked(ls, h.mem, M)
               /\ Extended(N[l], M[l], lnodes, h.mem, xs, i)
               /\ \A m \in Lists \ {l} : M[m] = N[m]
  BY DEF Growing
<1>2. /\ h \in [list : LListType, mem : Memory] /\ h.list \in LListType /\ h.mem \in Memory
      /\ h = [list |-> h.list, mem |-> h.mem]
  BY DEF Growing
<1>3. lists \in [Lists -> LListType \cup {None}] /\ N[l] \in Seq(Nodes)
  BY DEF LInv, AllLinked
<1>4. ls[l] = h.list /\ h.list # None
  BY <1>2, <1>3, LListAssumption, NodesAre DEF LListType
<1>5. IsFiniteSet(FreeIn(h.mem)) /\ Cardinality(FreeIn(h.mem)) \in Nat
  BY NodesAre, FS_Subset, FS_CardinalityType DEF FreeIn
<1>6. FreeIn(h.mem) # {} /\ Cardinality(FreeIn(h.mem)) >= Len(xs) - i /\ x \in Data
  <2>1. Cardinality(FreeIn(h.mem)) >= Len(xs) - i
    BY DEF Growing
  <2> QED BY <1>5, <2>1, FS_EmptySet
<1>7. e \in Nodes /\ h.mem[e] = Freed
  BY <1>6, Allocated DEF FreeIn
<1>8. Linked(h.list, h.mem, M[l]) /\ M[l] \in Seq(Nodes) /\ Len(M[l]) \in Nat
      /\ M \in [Lists -> Seq(Nodes)] /\ e \notin Elems(M[l])
  <2>1. Holds(ls[l], h.mem, M[l]) /\ M \in [Lists -> Seq(Nodes)]
    BY <1>1 DEF AllLinked
  <2>2. \A d \in Elems(M[l]) : h.mem[d] # Freed
    BY <2>1, InUse
  <2> QED BY <1>4, <1>7, <2>1, <2>2 DEF Holds
<1> DEFINE k == Len(M[l]) + 1
<1> HIDE DEF x
<1>9. InsertsNode(h.list, h.mem, M[l], k, e, x, g.list, g.mem)
  <2>1. \E d \in Nodes : h.mem[d] = Freed
    BY <1>7
  <2> QED BY <1>2, <1>6, <1>8, <2>1, InsertsLast
<1>10. g \in [list : LListType, mem : Memory] /\ g.list.size # 0
  <2>1. g = [list |-> g.list, mem |-> g.mem]
    BY DEF llist_add_last_entry, OnlyEntry
  <2>2. g.list \in LListType /\ g.mem \in Memory /\ g.list.size = h.list.size + 1
    BY <1>9 DEF InsertsNode
  <2>3. h.list.size \in Nat
    BY <1>2 DEF LListType
  <2> HIDE DEF g
  <2> QED BY <2>1, <2>2, <2>3
<1> HIDE DEF e, g
<1> DEFINE M2 == [M EXCEPT ![l] = Ins(M[l], k, e)]
<1>0. k \in 1 .. Len(M[l]) + 1
  BY <1>8
<1>11. AllLinked([ls EXCEPT ![l] = g.list], g.mem, M2)
  <2> HIDE DEF ls, k
  <2> QED BY <1>0, <1>1, <1>4, <1>6, <1>7, <1>9, AddsOne
<1>12. [ls EXCEPT ![l] = g.list] = [lists EXCEPT ![l] = g.list]
  BY <1>3
<1>13. /\ Elems(M2[l]) = Elems(M[l]) \cup {e} /\ \A m \in Lists \ {l} : M2[m] = M[m]
       /\ M2[l] = Ins(M[l], Len(M[l]) + 1, e)
  <2>1. Elems(Ins(M[l], k, e)) = Elems(M[l]) \cup {e}
    BY <1>0, <1>7, <1>8, InsIs
  <2> QED BY <1>8, <2>1
<1> HIDE DEF M2
<1>14. Cardinality(FreeIn(g.mem)) >= Len(xs) - (i + 1)
  <2> HIDE DEF ls, k
  <2>1. FreeIn(h.mem) = {d \in Nodes : \A m \in Lists : d \notin Elems(M[m])}
    BY <1>1, FreeIs DEF FreeIn
  <2>2. FreeIn(g.mem) = {d \in Nodes : \A m \in Lists : d \notin Elems(M2[m])}
    BY <1>11, FreeIs DEF FreeIn
  <2>3. FreeIn(g.mem) = FreeIn(h.mem) \ {e}
    BY <1>13, <2>1, <2>2
  <2>4. Cardinality(FreeIn(h.mem) \ {e}) = Cardinality(FreeIn(h.mem)) - 1
    <3>1. e \in FreeIn(h.mem)
      BY <1>7 DEF FreeIn
    <3> QED BY <1>5, <3>1, FS_RemoveElement
  <2> QED BY <1>5, <1>6, <2>3, <2>4
<1>15. Extended(N[l], M2[l], lnodes, g.mem, xs, i + 1)
  <2>1. g.mem[e].data = xs[i + 1] /\ \A d \in Nodes \ {e} : g.mem[d].data = h.mem[d].data
    BY <1>9 DEF InsertsNode, x
  <2>2. PICK ns, ms, mem, mem2, mem3 :
          ns = N[l] /\ ms = M[l] /\ mem = lnodes /\ mem2 = h.mem /\ mem3 = g.mem
    OBVIOUS
  <2>3. /\ ns \in Seq(Nodes) /\ ms \in Seq(Nodes) /\ e \in Nodes /\ e \notin Elems(ms)
        /\ mem3[e].data = xs[i + 1] /\ i \in Nat
    BY <1>3, <1>7, <1>8, <2>1, <2>2
  <2>4. Extended(ns, ms, mem, mem2, xs, i)
    BY <1>1, <2>2
  <2>5. \A d \in Nodes \ {e} : mem3[d].data = mem2[d].data
    BY <2>1, <2>2
  <2>6. Extended(ns, Ins(ms, Len(ms) + 1, e), mem, mem3, xs, i + 1)
    BY ONLY <2>3, <2>4, <2>5, ExtendedBy
  <2> QED BY <1>13, <2>2, <2>6
<1>16. \E L : /\ AllLinked([lists EXCEPT ![l] = g.list], g.mem, L)
              /\ Extended(N[l], L[l], lnodes, g.mem, xs, i + 1)
              /\ \A m \in Lists \ {l} : L[m] = N[m]
  BY <1>1, <1>11, <1>12, <1>13, <1>15
<1>17. Growing(g, N, l, xs, i + 1)
  BY <1>10, <1>14, <1>16 DEF Growing
<1> QED BY <1>17 DEF g, x

\* llist_add_all appends the other list's items.
LEMMA AddedAll ==
  ASSUME NEW N, LInv(N), NEW l \in Lists, NEW m \in Lists, llist_add_all(l, m)
  PROVE  LListInv' /\ Sequence!Next
<1> DEFINE n == lists[m].size
           xs == [i \in 1 .. n |-> lnodes[llist_get_entry(With(m), i - 1)].data]
           more == Appended(With(l), xs)
           T == {i \in Nat : i <= n => Growing(more[i], N, l, xs, i)}
<1>1. /\ l # m /\ Exists(l) /\ Exists(m) /\ CanAllocate(n)
      /\ Becomes(l, more[n]) /\ iterator' = iterator /\ Returns("add_all", l, <<m>>, None)
  BY DEF llist_add_all, Adds
<1>2. Linked(lists[m], lnodes, N[m]) /\ n \in Nat /\ n = Len(N[m])
  BY <1>1, ListOf
<1>3. Len(xs) = n /\ \A i \in 1 .. n : xs[i] \in Data /\ xs[i] = lnodes[N[m][i]].data
  <2>1. Len(xs) = n
    BY <1>2
  <2>2. ASSUME NEW i \in 1 .. n PROVE xs[i] \in Data /\ xs[i] = lnodes[N[m][i]].data
    <3>1. i - 1 \in 0 .. Len(N[m]) - 1 /\ (i - 1) + 1 = i
      BY <1>2
    <3>2. llist_get_entry(With(m), i - 1) = N[m][i]
      BY <1>2, <3>1, EntryFound DEF With
    <3>3. lnodes[N[m][i]].data \in Data
      BY <1>2 DEF Linked
    <3> QED BY <3>2, <3>3
  <2> QED BY <2>1, <2>2
<1>0. xs = [i \in 1 .. n |-> xs[i]]
  OBVIOUS
<1> HIDE DEF xs
<1>4. more[0] = With(l) /\ \A i \in 1 .. n : more[i] = llist_add_last_entry(more[i - 1], xs[i])
  BY <1>2, <1>3, Appends
<1> HIDE DEF more
<1>5. Growing(With(l), N, l, xs, 0)
  <2>1. /\ lists[l] \in LListType /\ lnodes \in Memory /\ AllLinked(lists, lnodes, N)
        /\ Len(N[l]) \in Nat
    BY <1>1, ListOf DEF LInv
  <2>2. [lists EXCEPT ![l] = lists[l]] = lists
    BY <2>1 DEF AllLinked
  <2>3. Cardinality(FreeIn(lnodes)) >= Len(xs) - 0
    <3>1. Cardinality(FreeIn(lnodes)) >= n
      BY <1>1 DEF CanAllocate, FreeIn
    <3> QED BY <1>2, <1>3, <3>1
  <2>4. With(l).list = lists[l] /\ With(l).mem = lnodes
        /\ With(l) \in [list : LListType, mem : Memory]
    BY <2>1 DEF With
  <2>5. Extended(N[l], N[l], lnodes, lnodes, xs, 0)
    BY <2>1 DEF Extended
  <2>6. \E M : /\ AllLinked(lists, lnodes, M) /\ Extended(N[l], M[l], lnodes, lnodes, xs, 0)
               /\ \A j \in Lists \ {l} : M[j] = N[j]
    BY <2>1, <2>5
  <2> QED BY <2>2, <2>3, <2>4, <2>6 DEF Growing
<1>6. 0 \in T
  BY <1>2, <1>4, <1>5
<1>7. ASSUME NEW i \in Nat, i \in T PROVE i + 1 \in T
  <2> SUFFICES ASSUME i + 1 <= n PROVE Growing(more[i + 1], N, l, xs, i + 1)
    BY <1>7
  <2>1. i + 1 \in 1 .. n /\ (i + 1) - 1 = i /\ i <= n /\ i < Len(xs) /\ Len(xs) \in Nat
    BY <1>2, <1>3
  <2>2. more[i + 1] = llist_add_last_entry(more[i], xs[i + 1]) /\ xs[i + 1] \in Data
    BY <1>3, <1>4, <2>1
  <2>3. Growing(more[i], N, l, xs, i)
    BY <1>7, <2>1
  <2> QED BY <1>1, <2>1, <2>2, <2>3, GrowsBy
<1> HIDE DEF T
<1>8. n \in T
  BY <1>2, <1>6, <1>7, SetInduction
<1> DEFINE h == more[n]
<1>9. Growing(h, N, l, xs, n)
  BY <1>2, <1>8 DEF T
<1> HIDE DEF h
<1>10. PICK M : /\ AllLinked([lists EXCEPT ![l] = h.list], h.mem, M)
                /\ Extended(N[l], M[l], lnodes, h.mem, xs, n)
                /\ \A j \in Lists \ {l} : M[j] = N[j]
  BY <1>9 DEF Growing
<1>11. lists' = [lists EXCEPT ![l] = h.list] /\ lnodes' = h.mem
  BY <1>1 DEF Becomes, h
<1>12. AllLinked(lists', lnodes', M) /\ M[l] \in Seq(Nodes) /\ N[l] \in Seq(Nodes)
       /\ lists \in [Lists -> LListType \cup {None}] /\ M \in [Lists -> Seq(Nodes)]
  <2>1. AllLinked(lists', lnodes', M)
    BY <1>10, <1>11
  <2>2. M \in [Lists -> Seq(Nodes)]
    BY <2>1 DEF AllLinked
  <2> QED BY <2>1, <2>2 DEF LInv, AllLinked
<1>13. /\ Len(N[l]) \in Nat /\ Len(M[l]) = Len(N[l]) + n
       /\ \A j \in 1 .. Len(N[l]) :
            M[l][j] = N[l][j] /\ lnodes'[N[l][j]].data = lnodes[N[l][j]].data
       /\ \A j \in 1 .. n : lnodes'[M[l][Len(N[l]) + j]].data = xs[j]
       /\ \A d \in Nodes \ Elems(M[l]) : lnodes'[d].data = lnodes[d].data
  BY <1>10, <1>11, <1>12 DEF Extended
<1>30. n \in Nat /\ Len(N[l]) \in Nat /\ Len(M[l]) = Len(N[l]) + n
  BY <1>2, <1>13
<1> HIDE DEF n
<1>14. /\ lists'[l] # None /\ \A j \in Lists \ {l} : lists'[j] = lists[j]
       /\ lists'[l] = lists[l] \/ lists'[l].size # 0
  <2>1. h.list \in LListType /\ (h.list = lists[l] \/ h.list.size # 0)
    BY <1>9 DEF Growing
  <2>2. h.list # None
    BY <2>1, LListAssumption, NodesAre DEF LListType
  <2> QED BY <1>11, <1>12, <2>1, <2>2
<1>15. Elems(N[l]) \subseteq Elems(M[l])
  <2> SUFFICES ASSUME NEW j \in 1 .. Len(N[l]) PROVE N[l][j] \in Elems(M[l])
    BY DEF Elems
  <2>1. j \in 1 .. Len(M[l])
    BY <1>30
  <2> QED BY <1>13, <2>1 DEF Elems
<1>16. IteratorOK(lists', iterator', M)
  <2>1. CASE iterator = NoIterator
    BY <1>1, <2>1 DEF IteratorOK
  <2>2. CASE iterator # NoIterator
    <3>1. /\ iterator \in [list : Lists, entry : Nodes \cup {NULL}]
          /\ lists[iterator.list] # None /\ iterator.list \in Lists
          /\ lists[iterator.list].size = 0 => lists[iterator.list].first = NULL
          /\ iterator.entry \in Elems(N[iterator.list]) \cup {NULL}
      BY <2>2 DEF LInv, IteratorOK
    <3>2. CASE iterator.list = l
      BY <1>1, <1>14, <1>15, <3>1, <3>2 DEF IteratorOK
    <3>3. CASE iterator.list # l
      BY <1>1, <1>10, <1>14, <3>1, <3>3 DEF IteratorOK
    <3> QED BY <3>2, <3>3
  <2> QED BY <2>1, <2>2
<1>17. items' = [items EXCEPT ![l] = DataIn(lnodes', M[l])]
  <2>1. \A j \in Lists \ {l} : lists'[j] = lists[j] /\ M[j] = N[j]
    BY <1>10, <1>14
  <2>2. \A e \in Nodes \ (Elems(N[l]) \cup Elems(M[l])) : lnodes'[e].data = lnodes[e].data
    BY <1>13
  <2>3. LInv(N) /\ l \in Lists /\ AllLinked(lists', lnodes', M)
    BY <1>12
  <2>4. lists'[l] # None => items' = [items EXCEPT ![l] = DataIn(lnodes', M[l])]
    BY ONLY <2>1, <2>2, <2>3, ItemsBecome
  <2> QED BY <1>14, <2>4
<1>18. /\ items[l] \in Seq(Data) /\ items[m] \in Seq(Data)
       /\ Len(items[l]) = Len(N[l]) /\ Len(items[m]) = n
       /\ \A j \in 1 .. Len(N[l]) : items[l][j] = lnodes[N[l][j]].data
       /\ \A j \in 1 .. n : items[m][j] = xs[j]
  BY <1>1, <1>2, <1>3, ItemsOfList
<1>19. DataIn(lnodes', M[l]) = items[l] \o items[m]
  <2>1. PICK s1, s2 : s1 = items[l] /\ s2 = items[m]
    OBVIOUS
  <2>8. s1 \in Seq(Data) /\ s2 \in Seq(Data)
    BY <1>18, <2>1
  <2>2. /\ s1 \o s2 \in Seq(Data) /\ Len(s1 \o s2) = Len(s1) + Len(s2)
        /\ \A i \in 1 .. Len(s1) + Len(s2) : (s1 \o s2)[i] = IF i <= Len(s1) THEN s1[i]
                                                            ELSE s2[i - Len(s1)]
    BY ONLY <2>8, ConcatProperties
  <2>3. Len(s1) = Len(N[l]) /\ Len(s2) = n
    BY <1>18, <2>1
  <2>4. ASSUME NEW i \in 1 .. Len(M[l]) PROVE lnodes'[M[l][i]].data = (s1 \o s2)[i]
    <3>1. i \in 1 .. Len(s1) + Len(s2)
      BY <1>13, <2>3
    <3>2. CASE i <= Len(N[l])
      <4>1. i \in 1 .. Len(N[l])
        BY <1>13, <3>2
      <4>2. (s1 \o s2)[i] = s1[i]
        BY <2>2, <2>3, <3>1, <3>2
      <4> QED BY <1>13, <1>18, <2>1, <4>1, <4>2
    <3>3. CASE ~(i <= Len(N[l]))
      <4>1. i - Len(N[l]) \in 1 .. n /\ Len(N[l]) + (i - Len(N[l])) = i
        BY <1>30, <3>3
      <4>2. (s1 \o s2)[i] = s2[i - Len(N[l])]
        BY <2>2, <2>3, <3>1, <3>3
      <4>3. lnodes'[M[l][i]].data = xs[i - Len(N[l])]
        BY <1>13, <4>1
      <4> QED BY <1>18, <2>1, <4>1, <4>2, <4>3
    <3> QED BY <3>2, <3>3
  <2>5. Len(s1 \o s2) = Len(M[l])
    BY <1>13, <2>2, <2>3
  <2>6. s1 \o s2 = [i \in 1 .. Len(M[l]) |-> (s1 \o s2)[i]]
    <3>1. PICK s3 \in Seq(Data) : s3 = s1 \o s2
      BY <2>2
    <3>2. s3 = [i \in 1 .. Len(s3) |-> s3[i]]
      OBVIOUS
    <3> QED BY <2>5, <3>1, <3>2
  <2>7. DataIn(lnodes', M[l]) = [i \in 1 .. Len(M[l]) |-> (s1 \o s2)[i]]
    BY <2>4 DEF DataIn
  <2> QED BY <2>1, <2>6, <2>7
<1>20. items' = [items EXCEPT ![l] = items[l] \o items[m]]
  BY <1>17, <1>19
<1>21. Len(items'[l]) = Len(M[l])
  <2>1. items'[l] = DataIn(lnodes', M[l])
    <3>1. l \in DOMAIN items
      BY DEF items, ItemsOf
    <3> QED BY <1>17, <3>1
  <2> QED BY <1>13, <2>1 DEF DataIn
<1>22. cursor' = IF l = iterator.list /\ cursor = Len(items[l]) THEN Len(items'[l]) ELSE cursor
  <2>1. CASE iterator.list = l
    <3>1. iterator.list # None
      BY <2>1, LListAssumption
    <3>2. cursor \in 0 .. Len(N[l]) /\ iterator.entry = After(N[l], cursor)
      BY <2>1, <3>1, CursorIs DEF LInv, cursor
    <3> DEFINE d == IF cursor = Len(N[l]) THEN Len(M[l]) ELSE cursor
    <3>3. d \in 0 .. Len(M[l]) /\ iterator.entry = After(M[l], d)
      <4>1. CASE cursor = Len(N[l])
        <5>1. d = Len(M[l]) /\ d \in 0 .. Len(M[l])
          BY <1>30, <4>1
        <5> HIDE DEF d
        <5> QED BY <3>2, <4>1, <5>1 DEF After
      <4>2. CASE cursor # Len(N[l])
        <5>1. cursor + 1 \in 1 .. Len(N[l]) /\ cursor # Len(M[l]) /\ cursor \in 0 .. Len(M[l])
          BY <1>30, <3>2, <4>2
        <5>2. M[l][cursor + 1] = N[l][cursor + 1]
          BY <1>13, <5>1
        <5> QED BY <3>2, <4>2, <5>1, <5>2 DEF After
      <4> QED BY <4>1, <4>2
    <3> HIDE DEF d
    <3>4. CursorOf(lists', lnodes', iterator') = d
      BY <1>1, <1>12, <1>16, <2>1, <3>1, <3>3, CursorAt
    <3> QED BY <1>18, <1>21, <2>1, <3>4 DEF cursor, d
  <2>2. CASE iterator.list # l
    <3>1. iterator' = iterator /\ AllLinked(lists, lnodes, N) /\ IteratorOK(lists, iterator, N)
      BY <1>1 DEF LInv
    <3>2. iterator.list # None => M[iterator.list] = N[iterator.list]
      BY <1>10, <2>2, <3>1, CursorIs
    <3>3. CursorOf(lists', lnodes', iterator') = CursorOf(lists, lnodes, iterator)
      BY <1>12, <1>16, <3>1, <3>2, CursorKept
    <3> QED BY <2>2, <3>3 DEF cursor
  <2> QED BY <2>1, <2>2
<1>23. Sequence!Returns("add_all", l, <<m>>, None) /\ llast'[2] = l
  BY <1>1, ReturnsToo
<1>24. Sequence!Exists(l) /\ Sequence!Exists(m)
  BY <1>1, SequenceState, ItemsOfList
<1>25. Sequence!AddAll(l, m)
  BY <1>1, <1>20, <1>22, <1>23, <1>24, Zenon
     DEF Sequence!AddAll, Sequence!Size, items, ItemsOf, cursor, CursorOf, NodesOf, DataOf,
         DataIn, Exists
<1> QED BY <1>12, <1>16, <1>23, <1>25 DEF LListInv, LInv, Sequence!Next, Sequence!Call

-----------------------------------------------------------------------------
(***************************************************************************)
(* The invariant holds, and what it says.                                  *)
(***************************************************************************)
LEMMA InvInit == LListInit => LListInv
<1> SUFFICES ASSUME LListInit PROVE LListInv
  OBVIOUS
<1> DEFINE N == [l \in Lists |-> << >>]
<1>1. lists = [l \in Lists |-> None] /\ lnodes = [e \in Nodes |-> Freed]
      /\ iterator = NoIterator
  BY DEF LListInit
<1>2. Freed \in LNode /\ << >> \in Seq(Nodes) /\ Elems(<< >>) = {}
  BY DEF Freed, LNode, Elems
<1>3. AllLinked(lists, lnodes, N)
  BY <1>1, <1>2 DEF AllLinked, Memory, Holds
<1>4. IteratorOK(lists, iterator, N)
  BY <1>1 DEF IteratorOK
<1> HIDE DEF N
<1> QED BY <1>3, <1>4 DEF LListInv, LInv

\* The initial states are initial states of the sequences.
LEMMA SequenceInit == LListInit => Sequence!Init
<1> SUFFICES ASSUME LListInit PROVE Sequence!Init
  OBVIOUS
<1>1. lists = [l \in Lists |-> None] /\ iterator = NoIterator
      /\ llast = <<None, None, <<>>, None>>
  BY DEF LListInit
<1>2. ItemsOf(lists, lnodes) = [l \in Lists |-> None]
  BY <1>1 DEF ItemsOf
<1>3. iterator.list = None /\ CursorOf(lists, lnodes, iterator) = 0
  BY <1>1 DEF NoIterator, CursorOf
<1> QED BY <1>1, <1>2, <1>3
     DEF Sequence!Init, ItemsOf, CursorOf, NodesOf, DataOf, DataIn, Exists

\* Each call keeps the invariant, and is a call on the sequences, or changes nothing.
LEMMA InvStep ==
  LListInv /\ [LListNext]_llistVars => LListInv' /\ [Sequence!Next]_(Sequence!vars)
<1> SUFFICES ASSUME LListInv, [LListNext]_llistVars
             PROVE  LListInv' /\ [Sequence!Next]_(Sequence!vars)
  OBVIOUS
<1>1. PICK N : LInv(N)
  BY DEF LListInv
<1>2. CASE UNCHANGED llistVars
  <2>1. lists' = lists /\ lnodes' = lnodes /\ iterator' = iterator /\ llast' = llast
    BY <1>2 DEF llistVars
  <2>2. LListInv'
    BY <1>1, <2>1, KeptInv
  <2>3. UNCHANGED Sequence!vars
    BY <2>1 DEF Sequence!vars, NodesOf, DataOf, Exists
  <2> QED BY <2>2, <2>3
<1>3. CASE LListNext
  <2>1. PICK l \in Lists :
          \/ llist_new(l) \/ llist_free(l) \/ llist_clear(l)
          \/ LListAdd(l) \/ LListRemove(l) \/ LListRead(l)
          \/ \E m \in Lists : llist_add_all(l, m) \/ llist_clone(l, m)
          \/ llist_reverse(l)
          \/ llist_iterator(l) \/ llist_iterator_next(l) \/ llist_iterator_remove(l)
    BY <1>3 DEF LListNext
  <2>2. CASE llist_new(l)
    BY <1>1, <2>2, Made
  <2>3. CASE llist_free(l) \/ llist_clear(l)
    BY <1>1, <2>3, Dropped
  <2>4. CASE LListAdd(l)
    BY <1>1, <2>4, Added
  <2>5. CASE LListRemove(l)
    BY <1>1, <2>5, Removed
  <2>6. CASE LListRead(l)
    BY <1>1, <2>6, Read
  <2>7. CASE \E m \in Lists : llist_add_all(l, m) \/ llist_clone(l, m)
    BY <1>1, <2>7, AddedAll, Cloned
  <2>8. CASE llist_reverse(l)
    BY <1>1, <2>8, Reversed
  <2>9. CASE llist_iterator(l) \/ llist_iterator_next(l) \/ llist_iterator_remove(l)
    BY <1>1, <2>9, Iterated
  <2> QED BY <2>1, <2>2, <2>3, <2>4, <2>5, <2>6, <2>7, <2>8, <2>9
<1> QED BY <1>2, <1>3

LEMMA InvWellLinked == LListInv => WellLinked
<1> SUFFICES ASSUME LListInv PROVE WellLinked
  OBVIOUS
<1>1. PICK N : LInv(N)
  BY DEF LListInv
<1>2. ASSUME NEW l \in Lists, Exists(l), lists[l].size > 0
      PROVE  /\ NodesOf(l) = N[l] /\ Linked(lists[l], lnodes, N[l]) /\ N[l] \in Seq(Nodes)
             /\ Len(N[l]) \in Nat /\ Len(N[l]) > 0 /\ lists[l].size = Len(N[l])
             /\ Range(N[l]) = Elems(N[l])
  <2>1. lists[l].size # 0
    BY <1>2
  <2>2. NodesOf(l) = N[l]
    BY <1>1, <1>2, <2>1, NodesOfList
  <2>3. Linked(lists[l], lnodes, N[l]) /\ N[l] \in Seq(Nodes) /\ lists[l].size = Len(N[l])
        /\ Len(N[l]) \in Nat
    BY <1>1, <1>2, ListOf
  <2>4. Range(N[l]) = Elems(N[l])
    BY <2>3 DEF Range, Elems
  <2> QED BY <1>2, <2>2, <2>3, <2>4
<1>3. ASSUME NEW l \in Lists, Exists(l), lists[l].size > 0
      PROVE  LET ns == NodesOf(l)
             IN  /\ Len(ns) = lists[l].size /\ Last(ns) = lists[l].last /\ IsInjective(ns)
                 /\ \A i \in 1 .. Len(ns) :
                      /\ lnodes[ns[i]].data # None
                      /\ lnodes[ns[i]].previous = IF i = 1 THEN NULL ELSE ns[i - 1]
                 /\ \A m \in Lists \ {l} : Exists(m) /\ lists[m].size > 0 =>
                      Range(ns) \cap Range(NodesOf(m)) = {}
  <2> DEFINE ns == N[l]
  <2>1. NodesOf(l) = ns /\ Linked(lists[l], lnodes, ns) /\ ns \in Seq(Nodes)
        /\ Len(ns) \in Nat /\ Len(ns) > 0 /\ lists[l].size = Len(ns) /\ Range(ns) = Elems(ns)
    BY <1>2, <1>3
  <2>2. Last(ns) = lists[l].last
    BY <2>1 DEF Last, Linked
  <2>3. IsInjective(ns)
    <3>1. \A i, j \in 1 .. Len(ns) : ns[i] = ns[j] => i = j
      BY <2>1 DEF Linked
    <3>2. DOMAIN ns = 1 .. Len(ns)
      BY <2>1
    <3> QED BY <3>1, <3>2 DEF IsInjective
  <2>4. \A i \in 1 .. Len(ns) :
          /\ lnodes[ns[i]].data # None
          /\ lnodes[ns[i]].previous = IF i = 1 THEN NULL ELSE ns[i - 1]
    BY <2>1, LListAssumption DEF Linked, Before
  <2>5. ASSUME NEW m \in Lists \ {l}, Exists(m), lists[m].size > 0
        PROVE  Range(ns) \cap Range(NodesOf(m)) = {}
    <3>1. Range(NodesOf(m)) = Elems(N[m])
      BY <1>2, <2>5
    <3>2. Elems(N[l]) \cap Elems(N[m]) = {}
      BY <1>1, <2>5 DEF LInv, AllLinked
    <3> QED BY <2>1, <3>1, <3>2
  <2> QED BY <2>1, <2>2, <2>3, <2>4, <2>5
<1> QED BY <1>3 DEF WellLinked

LEMMA InvNoNodeLost == LListInv => NoNodeLost
<1> SUFFICES ASSUME LListInv PROVE NoNodeLost
  OBVIOUS
<1>1. PICK N : LInv(N)
  BY DEF LListInv
<1> DEFINE used == {e \in Nodes : lnodes[e] # Freed}
           held == {m \in Lists : Exists(m) /\ lists[m].size > 0}
<1>2. ASSUME NEW l \in held PROVE Range(NodesOf(l)) = Elems(N[l])
  <2>1. l \in Lists /\ Exists(l) /\ lists[l].size # 0
    BY <1>2
  <2>2. NodesOf(l) = N[l] /\ N[l] \in Seq(Nodes)
    BY <1>1, <2>1, NodesOfList, ListOf
  <2> QED BY <2>2 DEF Range, Elems
<1>3. ASSUME NEW l \in Lists, NEW e \in Elems(N[l]) PROVE l \in held /\ e \in used
  <2>1. Holds(lists[l], lnodes, N[l])
    BY <1>1 DEF LInv, AllLinked
  <2>2. e \in used
    BY <2>1, InUse
  <2>3. Exists(l)
    BY <2>1 DEF Holds, Elems, Exists
  <2>4. lists[l].size = Len(N[l]) /\ Len(N[l]) \in Nat
    BY <1>1, <2>3, ListOf
  <2>5. Len(N[l]) # 0
    BY DEF Elems
  <2> QED BY <2>2, <2>3, <2>4, <2>5
<1>4. ASSUME NEW e \in used PROVE \E l \in Lists : e \in Elems(N[l])
  BY <1>1 DEF LInv, AllLinked
<1>5. used = UNION {Range(NodesOf(l)) : l \in held}
  <2> HIDE DEF used, held
  <2>1. \A e \in used : \E l \in held : e \in Range(NodesOf(l))
    BY <1>2, <1>3, <1>4
  <2>2. \A l \in held : \A e \in Range(NodesOf(l)) : e \in used
    BY <1>2, <1>3 DEF held
  <2> QED BY <2>1, <2>2
<1>6. iterator.entry \in used \cup {NULL}
  <2>1. CASE iterator = NoIterator
    BY <2>1 DEF NoIterator
  <2>2. CASE iterator # NoIterator
    <3>1. iterator.list \in Lists /\ iterator.entry \in Elems(N[iterator.list]) \cup {NULL}
      BY <1>1, <2>2 DEF LInv, IteratorOK
    <3> QED BY <1>3, <3>1
  <2> QED BY <2>1, <2>2
<1> QED BY <1>5, <1>6 DEF NoNodeLost

(***************************************************************************)
(* For any number of lists and nodes, every list is linked both ways from  *)
(* its first node to its last, and no two lists share a node, whatever     *)
(* calls of llist.c made them.                                             *)
(***************************************************************************)
THEOREM WellLinkedAlways == LListSpec => []WellLinked
<1>1. LListInit => LListInv
  BY InvInit
<1>2. LListInv /\ [LListNext]_llistVars => LListInv'
  BY InvStep
<1>3. LListInv => WellLinked
  BY InvWellLinked
<1> QED BY <1>1, <1>2, <1>3, PTL DEF LListSpec

(***************************************************************************)
(* For any number of lists and nodes, each allocated node is in a list,    *)
(* and the iterator never stands on a freed node, whatever calls of        *)
(* llist.c were made.                                                      *)
(***************************************************************************)
THEOREM NoNodeLostAlways == LListSpec => []NoNodeLost
<1>1. LListInit => LListInv
  BY InvInit
<1>2. LListInv /\ [LListNext]_llistVars => LListInv'
  BY InvStep
<1>3. LListInv => NoNodeLost
  BY InvNoNodeLost
<1> QED BY <1>1, <1>2, <1>3, PTL DEF LListSpec

(***************************************************************************)
(* For any number of lists and nodes, every call of llist.c does to linked *)
(* nodes what ListSpec says it does to a sequence, returns the same, and   *)
(* leaves an iterator at the same place of it.                             *)
(***************************************************************************)
THEOREM ListsAreSequencesAlways == LListSpec => ListsAreSequences
<1>1. LListInit => LListInv
  BY InvInit
<1>2. LListInit => Sequence!Init
  BY SequenceInit
<1>3. LListInv /\ [LListNext]_llistVars => LListInv' /\ [Sequence!Next]_(Sequence!vars)
  BY InvStep
<1> QED BY <1>1, <1>2, <1>3, PTL DEF LListSpec, ListsAreSequences, Sequence!Spec
===============================================================================
