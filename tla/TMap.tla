--------------------------------- MODULE TMap ---------------------------------
(***************************************************************************)
(* tmap.c: a map as a red-black tree, at the level of its pointers.  A     *)
(* node is named by its key, and 0 is the node `nil' that stands for every *)
(* missing child and parent.  When tmap_remove_node copies the contents of *)
(* another node, the node therefore changes its name.  left and right are  *)
(* child[Left] and child[Right], so that one operator stands for the two   *)
(* mirror images of a piece of code.                                       *)
(***************************************************************************)
EXTENDS Integers, FiniteSets, Sequences, SequencesExt

CONSTANTS TKeys,                \* pointers that are not NULL, as integers
          IntValues,            \* how many values an int has
          TEntries,             \* the pairs of key and value that are put
          TRanges,              \* intervals that tmap_iterator_partial matches
          NoValue

\* No two keys are further apart than an int can say: ptrcmp would put them in
\* the wrong order, or take one for the other.
ASSUME TMapAssumption ==
  /\ 0 \notin TKeys /\ IntValues \div 2 \in Nat \ {0}
  /\ \A k1, k2 \in TKeys : k1 - k2 \in -(IntValues \div 2) .. (IntValues \div 2 - 1)

nil == 0
Left == "left"
Right == "right"
Other(side) == IF side = Left THEN Right ELSE Left
TNodes == TKeys \cup {nil}

VARIABLES tree,                 \* struct _TMap and its nodes
          titerator,            \* struct _TMapIteratorPriv
          tcurrent,             \* the key of the value returned last
          tlast                 \* the last call and what it returned

tmapVars == <<tree, titerator, tcurrent, tlast>>

TReturns(op, args, value) == tlast' = <<op, args, value>>
TNoIterator == [n0 |-> nil, n1 |-> nil]

EmptyTree ==
  [root |-> nil, size |-> 0,
   child |-> [side \in {Left, Right} |-> [n \in TNodes |-> nil]],
   parent |-> [n \in TNodes |-> nil], red |-> [n \in TNodes |-> FALSE],
   value |-> [n \in TNodes |-> NoValue]]

\* A loop runs at most this often: once per node, and once to find its end.
\* (The state before a round is named in a set, which TLC evaluates once.)
Rounds == Cardinality(TKeys) + 1
Loop(Body(_), s) ==
  LET after[i \in 0 .. Rounds] ==
        IF i = 0 THEN s
        ELSE CHOOSE next \in {Body(before) : before \in {after[i - 1]}} : TRUE
  IN  after[Rounds]

-----------------------------------------------------------------------------
\* tmap_rotate_left and tmap_rotate_right: node goes down on that side.
rotate(t, side, node) ==
  LET up == t.child[Other(side)][node]
      mid == t.child[side][up]
      p == t.parent[node]
      child == [t.child EXCEPT ![Other(side)][node] = mid, ![side][up] = node]
      parent == [t.parent EXCEPT ![up] = p, ![node] = up]
  IN  [t EXCEPT !.root = IF p = nil THEN up ELSE @,
                !.child = IF p = nil THEN child
                          ELSE IF node = t.child[side][p]
                          THEN [child EXCEPT ![side][p] = up]
                          ELSE [child EXCEPT ![Other(side)][p] = up],
                !.parent = IF mid = nil THEN parent ELSE [parent EXCEPT ![mid] = node]]

\* One round of the loop of tmap_insert_rebalance on s.node.
InsertRound(s) ==
  LET t == s.t
      p == t.parent[s.node]
      g == t.parent[p]
      side == IF p = t.child[Left][g] THEN Left ELSE Right
      uncle == t.child[Other(side)][g]
      inner == s.node = t.child[Other(side)][p]
      turned == IF inner THEN rotate(t, side, p) ELSE t
      node == IF inner THEN p ELSE s.node
      top == turned.parent[node]
  IN  CASE ~(t.red[p] /\ g # nil) -> s
        [] t.red[p] /\ g # nil /\ t.red[uncle] ->
             [t |-> [t EXCEPT !.red = [@ EXCEPT ![p] = FALSE, ![uncle] = FALSE, ![g] = TRUE]],
              node |-> g]
        [] OTHER ->
             [t |-> rotate([turned EXCEPT !.red = [@ EXCEPT ![top] = FALSE, ![g] = TRUE]],
                           Other(side), g),
              node |-> node]

tmap_insert_rebalance(t, node) ==
  LET done == Loop(InsertRound, [t |-> t, node |-> node]).t
  IN  [done EXCEPT !.red[done.root] = FALSE]

\* One round of the loop of tmap_delete_rebalance: s.node lacks a black node.
DeleteRound(s) ==
  LET side == IF s.node = s.t.child[Left][s.parent] THEN Left ELSE Right
      far == Other(side)
      sib1 == s.t.child[far][s.parent]
      t1 == IF s.t.red[sib1]
            THEN rotate([s.t EXCEPT !.red = [@ EXCEPT ![sib1] = FALSE, ![s.parent] = TRUE]],
                        side, s.parent)
            ELSE s.t
      sib2 == t1.child[far][s.parent]
      near2 == t1.child[side][sib2]
      t2 == IF t1.red[t1.child[far][sib2]] THEN t1
            ELSE rotate([t1 EXCEPT !.red = [@ EXCEPT ![near2] = FALSE, ![sib2] = TRUE]],
                        far, sib2)
      sib3 == t2.child[far][s.parent]
      t3 == rotate([t2 EXCEPT !.red = [@ EXCEPT ![sib3] = t2.red[s.parent],
                                                ![s.parent] = FALSE,
                                                ![t2.child[far][sib3]] = FALSE]],
                   side, s.parent)
  IN  CASE s.node = s.t.root \/ s.t.red[s.node] -> s
        [] s.node # s.t.root /\ ~s.t.red[s.node]
           /\ ~t1.red[near2] /\ ~t1.red[t1.child[far][sib2]] ->
             [t |-> [t1 EXCEPT !.red[sib2] = TRUE],
              node |-> s.parent, parent |-> t1.parent[s.parent]]
        [] OTHER -> [t |-> t3, node |-> t3.root, parent |-> s.parent]

delete_rebalance_recolours(t, node, parent) == [t EXCEPT !.red[node] = FALSE]
tmap_delete_rebalance(t, node, parent) ==
  LET done == Loop(DeleteRound, [t |-> t, node |-> node, parent |-> parent])
  IN  [done.t EXCEPT !.red[done.node] = FALSE]

-----------------------------------------------------------------------------
\* The node furthest to one side below n (tmap_first_node, tmap_last_node).
Furthest(t, side, n) ==
  Loop(LAMBDA m : IF t.child[side][m] = nil THEN m ELSE t.child[side][m], n)

\* The default comparator: the difference of two pointers as an int.
ptrcmp(k1, k2) == ((k1 - k2 + IntValues \div 2) % IntValues) - IntValues \div 2
SideOf(key, node) == IF ptrcmp(key, node) > 0 THEN Right ELSE Left

\* The walk down from the root: where key is or would be, and the node above.
Descent(t, key) ==
  LET Down(s) == IF s.node = nil \/ ptrcmp(key, s.node) = 0 THEN s
                 ELSE [node |-> t.child[SideOf(key, s.node)][s.node], parent |-> s.node]
  IN  Loop(Down, [node |-> t.root, parent |-> nil])

tmap_get_node(t, key) == Descent(t, key).node

successor_below(t, node) == Furthest(t, Left, t.child[Right][node])
successor_parent(t, node) ==
  IF t.child[Right][node] # nil THEN Furthest(t, Left, t.child[Right][node])
  ELSE t.parent[node]

successor(t, node) ==
  LET Up(s) == IF s.node = t.child[Right][s.parent]
               THEN [node |-> s.parent, parent |-> t.parent[s.parent]] ELSE s
  IN  IF t.child[Right][node] # nil THEN Furthest(t, Left, t.child[Right][node])
      ELSE Loop(Up, [node |-> node, parent |-> t.parent[node]]).parent

Inserted(t, key, v) ==
  LET p == Descent(t, key).parent
      new == [t EXCEPT !.size = @ + 1, !.value[key] = v, !.parent[key] = p,
                       !.red[key] = TRUE]
  IN  IF p = nil THEN [new EXCEPT !.root = key, !.red[key] = FALSE]
      ELSE tmap_insert_rebalance(
             [new EXCEPT !.child[SideOf(key, p)][p] = key], key)

tmap_put(key, v) ==
  /\ LET node == tmap_get_node(tree, key)
     IN  /\ TReturns("put", <<key, v>>, tree.value[node])
         /\ tree' = IF node # nil THEN [tree EXCEPT !.value[node] = v]
                    ELSE Inserted(tree, key, v)
  /\ UNCHANGED <<titerator, tcurrent>>

\* The node that is taken out of the tree: node, or the one whose key node gets.
Splice(t, node) ==
  IF nil \in {t.child[Left][node], t.child[Right][node]} THEN node
  ELSE Furthest(t, Right, t.child[Left][node])

\* t without n, which has at most one child.
SplicedOut(t, n) ==
  LET c == t.child[IF t.child[Left][n] = nil THEN Right ELSE Left][n]
      p == t.parent[n]
      t1 == [t EXCEPT !.size = @ - 1, !.parent = IF c = nil THEN @ ELSE [@ EXCEPT ![c] = p]]
      side == IF n = t.child[Left][p] THEN Left ELSE Right
      t2 == [t1 EXCEPT !.child[side][p] = c]
  IN  CASE p = nil -> [t1 EXCEPT !.root = c]
        [] p # nil /\ t.red[n] -> t2
        [] OTHER -> tmap_delete_rebalance(t2, c, p)

\* The node named `from' gets the name `to', and from is free.
Renamed(t, from, to) ==
  LET At(n) == IF n = from THEN to ELSE n
      Fields(f) == [n \in TNodes |-> IF n = to THEN f[from] ELSE f[n]]
  IN  IF from = to THEN t
      ELSE [t EXCEPT !.root = At(@),
                     !.child = [side \in {Left, Right} |->
                                  LET f == Fields(t.child[side]) IN [n \in TNodes |-> At(f[n])]],
                     !.parent = LET f == Fields(t.parent) IN [n \in TNodes |-> At(f[n])],
                     !.red = Fields(@)]

\* The fields of a freed node are of no interest.
Cleared(t, n) ==
  [t EXCEPT !.child[Left][n] = nil, !.child[Right][n] = nil, !.parent[n] = nil,
            !.red[n] = FALSE, !.value[n] = NoValue]

\* An iterator that stands on node, or on the one taken out, is forgotten.
RemoveNode(node) ==
  LET s == Splice(tree, node)
  IN  /\ tree' = Cleared(Renamed(SplicedOut(tree, s), node, s), node)
      /\ IF {titerator.n0, titerator.n1} \cap {node, s} # {}
         THEN titerator' = TNoIterator /\ tcurrent' = nil
         ELSE /\ tcurrent' = IF tcurrent = node THEN nil ELSE tcurrent
              /\ UNCHANGED titerator

tmap_remove(key) ==
  /\ LET node == tmap_get_node(tree, key)
     IN  /\ TReturns("remove", <<key>>, tree.value[node])
         /\ IF node = nil THEN UNCHANGED <<tree, titerator, tcurrent>>
            ELSE RemoveNode(node)

\* Also tmap_contains_key.
tmap_get(key) ==
  /\ TReturns("get", <<key>>, tree.value[tmap_get_node(tree, key)])
  /\ UNCHANGED <<tree, titerator, tcurrent>>

tmap_size ==
  TReturns("size", <<>>, tree.size) /\ UNCHANGED <<tree, titerator, tcurrent>>

\* Frees the nodes from the root down.
tmap_clear ==
  /\ TReturns("clear", <<>>, NoValue)
  /\ tree' = EmptyTree /\ titerator' = TNoIterator /\ tcurrent' = nil

\* tmap_foreach_key and tmap_foreach_value: the children before the parent.
tmap_foreach ==
  LET below[n \in TNodes] ==
        IF n = nil THEN <<>>
        ELSE below[tree.child[Left][n]] \o below[tree.child[Right][n]] \o <<n>>
  IN  /\ TReturns("foreach", {}, below[tree.root])
      /\ UNCHANGED <<tree, titerator, tcurrent>>

-----------------------------------------------------------------------------
tmap_iterator ==
  /\ TReturns("iterator", <<>>, NoValue)
  /\ titerator' = [n0 |-> Furthest(tree, Left, tree.root), n1 |-> nil]
  /\ tcurrent' = nil /\ UNCHANGED tree

\* The matching node nearest to one end of the range, from a matching node n.
Outermost(t, side, n, range) ==
  LET Down(s) == IF s.nn = nil THEN s
                 ELSE IF s.nn \in range THEN [nx |-> s.nn, nn |-> t.child[side][s.nn]]
                 ELSE [s EXCEPT !.nn = t.child[Other(side)][@]]
  IN  Loop(Down, [nx |-> n, nn |-> t.child[side][n]]).nx

tmap_iterator_partial(range) ==
  LET Down(m) == IF m = nil \/ m \in range THEN m
                 ELSE tree.child[IF \A k \in range : k > m THEN Right ELSE Left][m]
      n == Loop(Down, tree.root)
  IN  /\ TReturns("partial", <<range>>, n # nil)
      /\ titerator' = IF n = nil THEN TNoIterator
                      ELSE [n0 |-> Outermost(tree, Left, n, range),
                            n1 |-> Outermost(tree, Right, n, range)]
      /\ tcurrent' = nil /\ UNCHANGED tree

tmap_iterator_next ==
  LET n0 == titerator.n0
  IN  /\ TReturns("next", <<>>, tree.value[n0])
      /\ IF n0 = nil THEN UNCHANGED <<titerator, tcurrent>>
         ELSE /\ titerator' = [titerator EXCEPT
                   !.n0 = IF n0 = titerator.n1 THEN nil ELSE successor(tree, n0)]
              /\ tcurrent' = n0
      /\ UNCHANGED tree

-----------------------------------------------------------------------------
\* tmap_new
TMapInit ==
  tree = EmptyTree /\ titerator = TNoIterator /\ tcurrent = nil /\ tlast = <<NoValue, <<>>, NoValue>>

TMapNext ==
  \/ \E entry \in TEntries : tmap_put(entry[1], entry[2])
  \/ \E key \in TKeys : tmap_remove(key) \/ tmap_get(key)
  \/ tmap_size \/ tmap_clear \/ tmap_foreach
  \/ tmap_iterator \/ tmap_iterator_next
  \/ \E range \in TRanges : tmap_iterator_partial(range)

-----------------------------------------------------------------------------
(***************************************************************************)
(* What tmap_verify tests, and more: no red node has a red child, all ways *)
(* down to nil have the same number of black nodes, keys are in order, and *)
(* parents and children agree, whatever was put and removed.               *)
(***************************************************************************)
TMapBalanced ==
  LET Child(side, n) == tree.child[side][n]
      blacks[n \in TNodes] ==       \* on every way down from n, or 0
        IF n = nil THEN 1
        ELSE LET b == blacks[Child(Left, n)]
             IN  IF b = 0 \/ b # blacks[Child(Right, n)] THEN 0
                 ELSE b + (IF tree.red[n] THEN 0 ELSE 1)
      order[n \in TNodes] ==
        IF n = nil THEN <<>> ELSE order[Child(Left, n)] \o <<n>> \o order[Child(Right, n)]
      inOrder == order[tree.root]
  IN  /\ blacks[tree.root] # 0
      /\ \A n \in Range(inOrder), side \in {Left, Right} :
           /\ tree.red[n] => ~tree.red[Child(side, n)]
           /\ Child(side, n) # nil => tree.parent[Child(side, n)] = n
      /\ \A i, j \in 1 .. Len(inOrder) : i < j => inOrder[i] < inOrder[j]
      /\ tree.size = Len(inOrder) /\ tree.parent[tree.root] = nil
      /\ Range(inOrder) = {k \in TKeys : tree.value[k] # NoValue}

(***************************************************************************)
(* The tree implements a map, whose iterator comes to each key of the map, *)
(* or of the range of tmap_iterator_partial, exactly once, also when the   *)
(* entry it is at is removed.                                              *)
(***************************************************************************)
KeysFrom(n0, n1) ==
  LET from[n \in TNodes, i \in 0 .. Rounds] ==
        IF n = nil \/ i = Rounds THEN {}
        ELSE {n} \cup (IF n = n1 THEN {} ELSE from[successor(tree, n), i + 1])
  IN  from[n0, 0]

SortedMap == INSTANCE MapSpec WITH
  Keys <- TKeys, Values <- {entry[2] : entry \in TEntries}, Ranges <- TRanges,
  None <- NoValue,
  dict <- [k \in TKeys |-> tree.value[tmap_get_node(tree, k)]],
  todo <- KeysFrom(titerator.n0, titerator.n1),
  current <- IF tcurrent = nil THEN NoValue ELSE tcurrent,
  last <- tlast

TMapIsMap == SortedMap!Spec

(***************************************************************************)
(* The iterator of a sorted map returns the values in the order of their   *)
(* keys.                                                                   *)
(***************************************************************************)
TMapInOrder == titerator.n0 # nil => tcurrent < titerator.n0
==============================================================================
