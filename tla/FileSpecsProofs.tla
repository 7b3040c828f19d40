--------------------------- MODULE FileSpecsProofs ----------------------------
(***************************************************************************)
(* Lemmas about the lists of FileSpecs (llist.c) that the proofs about      *)
(* MakePlan and ApplyPlan share.                                            *)
(***************************************************************************)
EXTENDS FileSpecs, SequenceTheorems, TLAPS

\* No elements in an empty list.
LEMMA EmptyElems == Elems(<<>>) = {}
  BY DEF Elems

(***************************************************************************)
(* Removing the i-th element of a list.                                    *)
(***************************************************************************)
LEMMA WithoutType ==
  ASSUME NEW S, NEW list \in Seq(S), NEW i \in 1 .. Len(list)
  PROVE  /\ Without(list, i) \in Seq(S)
         /\ Len(Without(list, i)) = Len(list) - 1
         /\ \A j \in 1 .. Len(list) - 1 :
              Without(list, i)[j] = IF j < i THEN list[j] ELSE list[j + 1]
<1> DEFINE n == Len(list) - 1
           w == [j \in 1 .. n |-> IF j < i THEN list[j] ELSE list[j + 1]]
<1>1. n \in Nat
  OBVIOUS
<1>2. \A j \in 1 .. n : list[j] \in S /\ list[j + 1] \in S
  OBVIOUS
<1>3. w \in [1 .. n -> S]
  BY <1>1, <1>2
<1>4. w \in Seq(S)
  BY <1>1, <1>3, SeqDef
<1>5. Len(w) = n
  <2>1. DOMAIN w = 1 .. n /\ DOMAIN w = 1 .. Len(w) /\ Len(w) \in Nat
    BY <1>4, LenProperties
  <2> QED
    BY <2>1, <1>1
<1> QED
  BY <1>1, <1>4, <1>5 DEF Without

\* The elements that are left after llist_iterator_remove.
LEMMA WithoutElems ==
  ASSUME NEW S, NEW list \in Seq(S), NEW i \in 1 .. Len(list),
         \A j, k \in 1 .. Len(list) : list[j] = list[k] => j = k
  PROVE  /\ Elems(Without(list, i)) = Elems(list) \ {list[i]}
         /\ \A j, k \in 1 .. Len(Without(list, i)) :
              Without(list, i)[j] = Without(list, i)[k] => j = k
<1> DEFINE w == Without(list, i)
<1>1. /\ w \in Seq(S) /\ Len(w) = Len(list) - 1
      /\ \A j \in 1 .. Len(list) - 1 :
           w[j] = IF j < i THEN list[j] ELSE list[j + 1]
  BY WithoutType
<1> HIDE DEF w
<1>2. ASSUME NEW j \in 1 .. Len(w) PROVE w[j] \in Elems(list) \ {list[i]}
  <2>1. CASE j < i
    <3>1. j \in 1 .. Len(list) /\ j # i /\ w[j] = list[j]
      BY <1>1, <2>1
    <3> QED
      BY <3>1 DEF Elems
  <2>2. CASE ~(j < i)
    <3>1. j + 1 \in 1 .. Len(list) /\ j + 1 # i /\ w[j] = list[j + 1]
      BY <1>1, <2>2
    <3> QED
      BY <3>1 DEF Elems
  <2> QED
    BY <2>1, <2>2
<1>3. ASSUME NEW j \in 1 .. Len(list), j # i PROVE list[j] \in Elems(w)
  <2>1. CASE j < i
    BY <1>1, <2>1 DEF Elems
  <2>2. CASE ~(j < i)
    <3>1. j - 1 \in 1 .. Len(w) /\ w[j - 1] = list[j]
      BY <1>1, <1>3, <2>2
    <3> QED
      BY <3>1 DEF Elems
  <2> QED
    BY <2>1, <2>2
<1>4. Elems(w) = Elems(list) \ {list[i]}
  BY <1>2, <1>3 DEF Elems
<1>5. ASSUME NEW j \in 1 .. Len(w), NEW k \in 1 .. Len(w), w[j] = w[k]
      PROVE  j = k
  <2> DEFINE at(m) == IF m < i THEN m ELSE m + 1
  <2>1. \A m \in 1 .. Len(w) : at(m) \in 1 .. Len(list) /\ w[m] = list[at(m)]
    BY <1>1
  <2>2. list[at(j)] = list[at(k)]
    BY <2>1, <1>5
  <2>3. at(j) = at(k)
    BY <2>1, <2>2
  <2> QED
    BY <2>3, <1>1
<1> QED
  BY <1>4, <1>5 DEF w

\* llist_add_first: the new element comes before the others.
LEMMA ConsElems ==
  ASSUME NEW S, NEW list \in Seq(S), NEW x \in S
  PROVE  /\ <<x>> \o list \in Seq(S)
         /\ Len(<<x>> \o list) = Len(list) + 1
         /\ (<<x>> \o list)[1] = x
         /\ \A i \in 1 .. Len(list) : (<<x>> \o list)[i + 1] = list[i]
         /\ Elems(<<x>> \o list) = Elems(list) \cup {x}
<1> DEFINE longer == <<x>> \o list
<1>1. <<x>> \in Seq(S) /\ Len(<<x>>) = 1 /\ <<x>>[1] = x
  OBVIOUS
<1>2. /\ longer \in Seq(S) /\ Len(longer) = Len(list) + 1
      /\ \A i \in 1 .. Len(list) + 1 :
           longer[i] = IF i <= 1 THEN <<x>>[i] ELSE list[i - 1]
  <2>1. /\ longer \in Seq(S) /\ Len(longer) = Len(<<x>>) + Len(list)
        /\ \A i \in 1 .. Len(<<x>>) + Len(list) :
             longer[i] = IF i <= Len(<<x>>) THEN <<x>>[i] ELSE list[i - Len(<<x>>)]
    BY <1>1, ConcatProperties, Zenon
  <2> QED
    BY <1>1, <2>1
<1> HIDE DEF longer
<1>3. longer[1] = x /\ \A i \in 1 .. Len(list) : longer[i + 1] = list[i]
  BY <1>1, <1>2
<1>4. Elems(longer) \subseteq Elems(list) \cup {x}
  <2> SUFFICES ASSUME NEW i \in 1 .. Len(longer) PROVE longer[i] \in Elems(list) \cup {x}
    BY DEF Elems
  <2>1. CASE i = 1
    BY <1>3, <2>1
  <2>2. CASE i # 1
    <3>1. i - 1 \in 1 .. Len(list) /\ longer[i] = list[i - 1]
      BY <1>2, <2>2
    <3> QED
      BY <3>1 DEF Elems
  <2> QED
    BY <2>1, <2>2
<1>5. Elems(list) \cup {x} \subseteq Elems(longer)
  BY <1>2, <1>3 DEF Elems
<1> QED
  BY <1>2, <1>3, <1>4, <1>5 DEF longer

\* What llist_add puts at the end.
LEMMA AppendElems ==
  ASSUME NEW S, NEW list \in Seq(S), NEW x \in S
  PROVE  /\ Append(list, x) \in Seq(S)
         /\ Len(Append(list, x)) = Len(list) + 1
         /\ Append(list, x)[Len(list) + 1] = x
         /\ \A i \in 1 .. Len(list) : Append(list, x)[i] = list[i]
         /\ Elems(Append(list, x)) = Elems(list) \cup {x}
<1>1. /\ Append(list, x) \in Seq(S)
      /\ Len(Append(list, x)) = Len(list) + 1
      /\ Append(list, x)[Len(list) + 1] = x
      /\ \A i \in 1 .. Len(list) : Append(list, x)[i] = list[i]
  BY AppendProperties
<1>2. \A i \in 1 .. Len(list) + 1 : i \in 1 .. Len(list) \/ i = Len(list) + 1
  OBVIOUS
<1>3. 1 .. Len(list) \subseteq 1 .. Len(list) + 1 /\ Len(list) + 1 \in 1 .. Len(list) + 1
  OBVIOUS
<1> QED
  BY <1>1, <1>2, <1>3 DEF Elems

=============================================================================
