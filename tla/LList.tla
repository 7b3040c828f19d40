-------------------------------- MODULE LList --------------------------------
(***************************************************************************)
(* llist.c: doubly linked lists, at the level of their pointers.           *)
(*                                                                         *)
(* The memory is a function from LNodes to their fields.  Freed memory is  *)
(* used again as soon as possible, so that a stale pointer does harm.  A   *)
(* call is one action; its effect on one list is an operator from a list   *)
(* with its memory to the same afterwards.                                 *)
(***************************************************************************)
EXTENDS Integers, Sequences, SequencesExt

CONSTANTS Lists, Data, None,
          MaxNodes               \* bound on the LNodes allocated at a time

ASSUME LListAssumption ==
  /\ MaxNodes \in Nat /\ None \notin Lists /\ None \notin Data
  /\ None \notin [first : Nat, last : Nat, size : Nat] /\ None \notin Seq(Data)

Nodes == 1 .. MaxNodes
NULL == 0                        \* the null pointer
Freed == [data |-> None, next |-> NULL, previous |-> NULL]

VARIABLES lists,                 \* struct _LList, None after llist_free
          lnodes,                \* struct _LNode
          iterator,              \* struct _LListIteratorPriv
          llast                  \* the last call and what it returned

llistVars == <<lists, lnodes, iterator, llast>>

NoIterator == [list |-> None, entry |-> NULL]
NewList == [first |-> NULL, last |-> NULL, size |-> 0]

Exists(l) == lists[l] # None
With(l) == [list |-> lists[l], mem |-> lnodes]      \* l and the memory
Returns(op, l, args, value) == llast' = <<op, l, args, value>>

\* l becomes h.list in the memory h.mem.
Becomes(l, h) == lists' = [lists EXCEPT ![l] = h.list] /\ lnodes' = h.mem
Keep == UNCHANGED <<lists, lnodes, iterator>>

CanAllocate(n) == Cardinality({e \in Nodes : lnodes[e] = Freed}) >= n
AllocateAll(n) ==
  CHOOSE s \in [1 .. n -> {e \in Nodes : lnodes[e] = Freed}] : IsInjective(s)
Allocate(mem) == CHOOSE e \in Nodes : mem[e] = Freed /\ \A d \in 1 .. e - 1 : mem[d] # Freed

\* The pointer in `entry' after 0, 1, 2... steps of `entry = entry->next' or
\* `entry = entry->previous' in a loop that ends at NULL, and the nodes on the
\* way, cut off after MaxNodes.
NextOf(mem) == [e \in Nodes |-> mem[e].next]
PreviousOf(mem) == [e \in Nodes |-> mem[e].previous]
Walk(entry, link) ==
  LET at[i \in 0 .. MaxNodes] ==
        IF i = 0 THEN entry ELSE IF at[i - 1] = NULL THEN NULL ELSE link[at[i - 1]]
  IN  at
Chain(first, mem) ==
  LET at == Walk(first, NextOf(mem))
  IN  [i \in 1 .. Cardinality({j \in 1 .. MaxNodes : at[j - 1] # NULL}) |-> at[i - 1]]

NodesOf(l) == Chain(lists[l].first, lnodes)
DataOf(l) == LET ns == NodesOf(l) IN [i \in 1 .. Len(ns) |-> lnodes[ns[i]].data]

-----------------------------------------------------------------------------
(***************************************************************************)
(* The building blocks.                                                    *)
(***************************************************************************)
\* An empty list gets entry e: add_first and add_last_entry alike.
OnlyEntry(h, e, x) ==
  [list |-> [first |-> e, last |-> e, size |-> 1],
   mem |-> [h.mem EXCEPT ![e] = [data |-> x, next |-> NULL, previous |-> NULL]]]

add_first(h, x) ==
  LET e == Allocate(h.mem)
      f == h.list.first
  IN  IF h.list.size = 0 THEN OnlyEntry(h, e, x)
      ELSE [list |-> [first |-> e, last |-> h.list.last, size |-> h.list.size + 1],
            mem |-> [h.mem EXCEPT ![e] = [data |-> x, next |-> f, previous |-> NULL],
                                  ![f].previous = e]]

llist_add_last_entry(h, x) ==
  LET e == Allocate(h.mem)
      t == h.list.last
  IN  IF h.list.size = 0 THEN OnlyEntry(h, e, x)
      ELSE [list |-> [first |-> h.list.first, last |-> e, size |-> h.list.size + 1],
            mem |-> [h.mem EXCEPT ![e] = [data |-> x, next |-> NULL, previous |-> t],
                                  ![t].next = e]]

\* A new entry between node and the one before it.
InsertBefore(h, node, x) ==
  LET e == Allocate(h.mem)
      p == h.mem[node].previous
      mem == [h.mem EXCEPT ![e] = [data |-> x, next |-> node, previous |-> p],
                           ![node].previous = e]
  IN  [list |-> [first |-> IF p = NULL THEN e ELSE h.list.first,
                 last |-> h.list.last, size |-> h.list.size + 1],
       mem |-> IF p = NULL THEN mem ELSE [mem EXCEPT ![p].next = e]]

remove_entry_leaks(h, e) ==
  [list |-> [h.list EXCEPT !.size = @ - 1,
                           !.first = IF e = @ THEN h.mem[e].next ELSE @,
                           !.last = IF e = @ THEN h.mem[e].previous ELSE @],
   mem |-> [n \in Nodes |->
              [h.mem[n] EXCEPT !.next = IF @ = e THEN h.mem[e].next ELSE @,
                               !.previous = IF @ = e THEN h.mem[e].previous ELSE @]]]

remove_entry_one_way(h, e) ==
  [list |-> [h.list EXCEPT !.size = @ - 1,
                           !.first = IF e = @ THEN h.mem[e].next ELSE @,
                           !.last = IF e = @ THEN h.mem[e].previous ELSE @],
   mem |-> [n \in Nodes |->
              IF n = e THEN Freed
              ELSE [h.mem[n] EXCEPT !.next = IF @ = e THEN h.mem[e].next ELSE @]]]

llist_remove_entry(h, e) ==
  LET n == h.mem[e].next
      p == h.mem[e].previous
      free == [h.mem EXCEPT ![e] = Freed]
      less == [h.list EXCEPT !.size = @ - 1]
  IN  CASE h.list.size = 1 ->
             [list |-> NewList, mem |-> free]
        [] h.list.size # 1 /\ e = h.list.first ->
             [list |-> [less EXCEPT !.first = n], mem |-> [free EXCEPT ![n].previous = NULL]]
        [] h.list.size # 1 /\ e # h.list.first /\ e = h.list.last ->
             [list |-> [less EXCEPT !.last = p], mem |-> [free EXCEPT ![p].next = NULL]]
        [] OTHER ->
             [list |-> less, mem |-> [free EXCEPT ![n].previous = p, ![p].next = n]]

remove_first(h) ==
  LET e == h.list.first
      n == h.mem[e].next
      free == [h.mem EXCEPT ![e] = Freed]
  IN  [list |-> [first |-> n, last |-> IF n = NULL THEN NULL ELSE h.list.last,
                 size |-> h.list.size - 1],
       mem |-> IF n = NULL THEN free ELSE [free EXCEPT ![n].previous = NULL]]

remove_last(h) ==
  LET e == h.list.last
      p == h.mem[e].previous
      free == [h.mem EXCEPT ![e] = Freed]
  IN  [list |-> [first |-> IF p = NULL THEN NULL ELSE h.list.first, last |-> p,
                 size |-> h.list.size - 1],
       mem |-> IF p = NULL THEN free ELSE [free EXCEPT ![p].next = NULL]]

\* From the nearer end; index counts from 0.
llist_get_entry(h, index) ==
  IF index < h.list.size \div 2 THEN Walk(h.list.first, NextOf(h.mem))[index]
  ELSE Walk(h.list.last, PreviousOf(h.mem))[h.list.size - 1 - index]

-----------------------------------------------------------------------------
llist_new(l) ==
  /\ ~Exists(l) /\ lists' = [lists EXCEPT ![l] = NewList]
  /\ UNCHANGED <<lnodes, iterator>> /\ Returns("new", l, <<>>, None)

\* A clone of an empty list has no valid first pointer: until something is
\* added to it, its callers do not walk through it.
Walkable(l) == Exists(l) /\ (lists[l].size = 0 => lists[l].first = NULL)

\* The nodes of l are freed; callers forget an iterator of l.
FreeNodes(l, to) ==
  /\ Walkable(l)
  /\ Becomes(l, [list |-> to,
                 mem |-> [e \in Nodes |-> IF e \in Range(NodesOf(l)) THEN Freed
                                          ELSE lnodes[e]]])
  /\ iterator' = IF iterator.list = l THEN NoIterator ELSE iterator

llist_free(l) == FreeNodes(l, None) /\ Returns("free", l, <<>>, None)
llist_clear(l) == FreeNodes(l, NewList) /\ Returns("clear", l, <<>>, None)

Adds(l, op, args, h) ==
  /\ Becomes(l, h) /\ UNCHANGED iterator /\ Returns(op, l, args, None)

llist_add_first(l, x) == Adds(l, "add_first", <<x>>, add_first(With(l), x))
llist_add_last(l, x) == Adds(l, "add_last", <<x>>, llist_add_last_entry(With(l), x))

llist_add_at(l, i, x) ==
  LET h == With(l)
  IN  Adds(l, "add_at", <<i, x>>,
           CASE i > h.list.size -> h
             [] i = h.list.size -> llist_add_last_entry(h, x)
             [] OTHER -> InsertBefore(h, llist_get_entry(h, i), x))

lnode_add_after(l, i, x) ==
  LET h == With(l)
      n == lnodes[NodesOf(l)[i]].next
  IN  Adds(l, "add_after", <<i, x>>,
           IF n = NULL THEN llist_add_last_entry(h, x) ELSE InsertBefore(h, n, x))

lnode_add_before(l, i, x) ==
  LET h == With(l)
      n == NodesOf(l)[i]
  IN  Adds(l, "add_before", <<i, x>>,
           IF lnodes[n].previous = NULL THEN add_first(h, x) ELSE InsertBefore(h, n, x))

\* h with the first 0, 1, 2... of xs added at its end.
Appended(h, xs) ==
  LET more[i \in 0 .. Len(xs)] ==
        IF i = 0 THEN h ELSE llist_add_last_entry(more[i - 1], xs[i])
  IN  more

\* Appends every element of m, each found anew by its index.
llist_add_all(l, m) ==
  LET n == lists[m].size
      xs == [i \in 1 .. n |-> lnodes[llist_get_entry(With(m), i - 1)].data]
  IN  /\ l # m /\ Exists(l) /\ Exists(m) /\ CanAllocate(n)
      /\ Adds(l, "add_all", <<m>>, Appended(With(l), xs)[n])

\* Entry e goes; callers forget an iterator that was about to return it.
Removes(l, op, args, e, h) ==
  /\ Becomes(l, h)
  /\ iterator' = IF iterator = [list |-> l, entry |-> e] THEN NoIterator ELSE iterator
  /\ Returns(op, l, args, lnodes[e].data)

RemovesEntry(l, op, args, e) == Removes(l, op, args, e, llist_remove_entry(With(l), e))
RemovesNothing(l, op, args) == Keep /\ Returns(op, l, args, None)

llist_remove_first(l) ==
  IF lists[l].size = 0 THEN RemovesNothing(l, "remove_first", <<>>)
  ELSE Removes(l, "remove_first", <<>>, lists[l].first, remove_first(With(l)))

llist_remove_last(l) ==
  IF lists[l].size = 0 THEN RemovesNothing(l, "remove_last", <<>>)
  ELSE Removes(l, "remove_last", <<>>, lists[l].last, remove_last(With(l)))

llist_remove(l, x) ==
  LET found == {i \in 1 .. Len(NodesOf(l)) : lnodes[NodesOf(l)[i]].data = x}
  IN  IF found = {} THEN RemovesNothing(l, "remove", <<x>>)
      ELSE RemovesEntry(l, "remove", <<x>>, NodesOf(l)[Min(found)])

llist_remove_at(l, i) ==
  IF i >= lists[l].size THEN RemovesNothing(l, "remove_at", <<i>>)
  ELSE RemovesEntry(l, "remove_at", <<i>>, llist_get_entry(With(l), i))

lnode_remove(l, i) == RemovesEntry(l, "remove_node", <<i>>, NodesOf(l)[i])

-----------------------------------------------------------------------------
llist_get(l, i) ==
  /\ Keep
  /\ Returns("get", l, <<i>>, IF i >= lists[l].size THEN None
                              ELSE lnodes[llist_get_entry(With(l), i)].data)

\* Returns the data at i, and stores the same again instead of x (llist.c:302).
llist_set(l, i, x) ==
  /\ Keep
  /\ Returns("set", l, <<i, x>>, IF i >= lists[l].size THEN None
                                 ELSE lnodes[llist_get_entry(With(l), i)].data)

\* llist_index_of goes forward from 0, llist_last_index_of back from size - 1.
llist_index_of(l, x) ==
  LET found == {i \in 1 .. Len(NodesOf(l)) : lnodes[NodesOf(l)[i]].data = x}
      back == Walk(lists[l].last, PreviousOf(lnodes))
      backFound == {i \in 0 .. MaxNodes : back[i] # NULL /\ lnodes[back[i]].data = x}
  IN  /\ Keep
      /\ Returns("index_of", l, <<x>>,
                 <<IF found = {} THEN -1 ELSE Min(found) - 1,
                   IF backFound = {} THEN -1 ELSE lists[l].size - 1 - Min(backFound)>>)

\* llist_to_array and llist_size.
llist_to_array(l) == Keep /\ Returns("to_array", l, <<>>, <<DataOf(l), lists[l].size>>)

\* llist_get_first and llist_get_last.
llist_get_ends(l) ==
  /\ Keep
  /\ Returns("ends", l, <<>>, IF lists[l].size = 0 THEN <<None, None>>
                              ELSE <<lnodes[lists[l].first].data, lnodes[lists[l].last].data>>)

\* The nodes of m, linked in the order of l's; m's first pointer is only set
\* when there is a node.
llist_clone(l, m) ==
  LET from == NodesOf(l)
      to == AllocateAll(Len(from))
      At(i) == IF i \in 1 .. Len(to) THEN to[i] ELSE NULL
  IN  /\ Walkable(l) /\ ~Exists(m) /\ CanAllocate(Len(from))
      /\ lnodes' = [e \in Nodes |->
                      IF \E i \in 1 .. Len(to) : to[i] = e
                      THEN LET i == CHOOSE i \in 1 .. Len(to) : to[i] = e
                           IN  [data |-> lnodes[from[i]].data, next |-> At(i + 1),
                                previous |-> At(i - 1)]
                      ELSE lnodes[e]]
      /\ \E garbage \in Nodes \cup {NULL} :
           /\ from # <<>> => garbage = NULL
           /\ lists' = [lists EXCEPT ![m] =
                          [first |-> IF from = <<>> THEN garbage ELSE to[1],
                           last |-> At(Len(to)), size |-> lists[l].size]]
      /\ UNCHANGED iterator /\ Returns("clone", l, <<m>>, None)

\* Swaps the data from both ends until they meet.
SwapEnds(w) ==
  LET met == w.head = w.tail \/ w.mem[w.head].previous = w.tail
  IN  IF met THEN w
      ELSE [head |-> w.mem[w.head].next, tail |-> w.mem[w.tail].previous,
            mem |-> [w.mem EXCEPT ![w.head].data = w.mem[w.tail].data,
                                  ![w.tail].data = w.mem[w.head].data]]

Swaps(start) ==                 \* head, tail and memory after 0, 1, 2... turns
  LET ends[i \in 0 .. MaxNodes] == IF i = 0 THEN start ELSE SwapEnds(ends[i - 1])
  IN  ends

llist_reverse(l) ==
  LET ends == Swaps([head |-> lists[l].first, tail |-> lists[l].last, mem |-> lnodes])
  IN  /\ Walkable(l)
      /\ lnodes' = ends[MaxNodes].mem
      /\ UNCHANGED <<lists, iterator>> /\ Returns("reverse", l, <<>>, None)

-----------------------------------------------------------------------------
llist_iterator(l) ==
  /\ Walkable(l) /\ iterator' = [list |-> l, entry |-> lists[l].first]
  /\ UNCHANGED <<lists, lnodes>> /\ Returns("iterator", l, <<>>, None)

llist_iterator_next(l) ==
  /\ iterator.list = l /\ iterator.entry # NULL
  /\ iterator' = [iterator EXCEPT !.entry = lnodes[iterator.entry].next]
  /\ UNCHANGED <<lists, lnodes>>
  /\ Returns("next", l, <<>>, lnodes[iterator.entry].data)

\* Ends the program (internal_error) before the first next().
iterator_remove_next(l) ==
  /\ iterator.list = l /\ lists[l].first # iterator.entry
  /\ Becomes(l, llist_remove_entry(With(l), IF iterator.entry = NULL THEN lists[l].first
                                            ELSE lnodes[iterator.entry].previous))
  /\ UNCHANGED iterator /\ Returns("iterator_remove", l, <<>>, None)

llist_iterator_remove(l) ==
  /\ iterator.list = l /\ lists[l].first # iterator.entry
  /\ Becomes(l, llist_remove_entry(With(l), IF iterator.entry = NULL THEN lists[l].last
                                            ELSE lnodes[iterator.entry].previous))
  /\ UNCHANGED iterator /\ Returns("iterator_remove", l, <<>>, None)

-----------------------------------------------------------------------------
LListInit ==
  /\ lists = [l \in Lists |-> None] /\ lnodes = [e \in Nodes |-> Freed]
  /\ iterator = NoIterator /\ llast = <<None, None, <<>>, None>>

LListAdd(l) ==
  /\ Exists(l)
  /\ \E x \in Data :
       \/ CanAllocate(1) /\ (llist_add_first(l, x) \/ llist_add_last(l, x))
       \/ \E i \in 0 .. lists[l].size + 1 : CanAllocate(1) /\ llist_add_at(l, i, x)
       \/ \E i \in 1 .. lists[l].size :
            CanAllocate(1) /\ (lnode_add_after(l, i, x) \/ lnode_add_before(l, i, x))

LListRemove(l) ==
  /\ Exists(l)
  /\ \/ llist_remove_first(l) \/ llist_remove_last(l)
     \/ \E x \in Data : Walkable(l) /\ llist_remove(l, x)
     \/ \E i \in 0 .. lists[l].size : llist_remove_at(l, i)
     \/ \E i \in 1 .. lists[l].size : lnode_remove(l, i)

LListRead(l) ==
  /\ Walkable(l)
  /\ \/ \E i \in 0 .. lists[l].size : llist_get(l, i)
     \/ \E x \in Data : llist_index_of(l, x)
     \/ \E i \in 0 .. lists[l].size, x \in Data : llist_set(l, i, x)
     \/ llist_to_array(l) \/ llist_get_ends(l)

LListNext ==
  \E l \in Lists :
    \/ llist_new(l) \/ llist_free(l) \/ llist_clear(l)
    \/ LListAdd(l) \/ LListRemove(l) \/ LListRead(l)
    \/ \E m \in Lists : llist_add_all(l, m) \/ llist_clone(l, m)
    \/ llist_reverse(l)
    \/ llist_iterator(l) \/ llist_iterator_next(l) \/ llist_iterator_remove(l)

LListSpec == LListInit /\ [][LListNext]_llistVars

-----------------------------------------------------------------------------
(***************************************************************************)
(* Every list is linked both ways: from first, next leads through size     *)
(* distinct allocated nodes to last, and previous leads back; no two lists *)
(* share a node, whatever sequence of calls made them (llist.c).           *)
(***************************************************************************)
WellLinked ==
  \A l \in Lists : Exists(l) /\ lists[l].size > 0 =>
    LET ns == NodesOf(l)
    IN  /\ Len(ns) = lists[l].size /\ Last(ns) = lists[l].last /\ IsInjective(ns)
        /\ \A i \in 1 .. Len(ns) :
             /\ lnodes[ns[i]].data # None
             /\ lnodes[ns[i]].previous = IF i = 1 THEN NULL ELSE ns[i - 1]
        /\ \A m \in Lists \ {l} : Exists(m) /\ lists[m].size > 0 =>
             Range(ns) \cap Range(NodesOf(m)) = {}

(***************************************************************************)
(* No node is lost: each allocated node is in a list, and the iterator     *)
(* never stands on a freed one.                                            *)
(***************************************************************************)
NoNodeLost ==
  LET used == {e \in Nodes : lnodes[e] # Freed}
  IN  /\ used = UNION {Range(NodesOf(l)) : l \in {m \in Lists : Exists(m) /\ lists[m].size > 0}}
      /\ iterator.entry \in used \cup {NULL}

(***************************************************************************)
(* The pointers implement sequences: every call on linked nodes does what  *)
(* ListSpec says the same call does to a sequence, and returns the same.   *)
(***************************************************************************)
Sequence == INSTANCE ListSpec WITH
  items <- [l \in Lists |-> IF ~Exists(l) THEN None
                            ELSE IF lists[l].size = 0 THEN <<>> ELSE DataOf(l)],
  iterated <- iterator.list,
  cursor <- IF iterator.list = None THEN 0
            ELSE IF iterator.entry = NULL THEN lists[iterator.list].size
            ELSE Len(NodesOf(iterator.list)) - Len(Chain(iterator.entry, lnodes)),
  last <- llast

ListsAreSequences == Sequence!Spec
==============================================================================
