------------------------------- MODULE ListSpec -------------------------------
(***************************************************************************)
(* What llist.h promises: lists as sequences, and one iterator.  The       *)
(* iterator is the number of items before the one that next() returns; a   *)
(* list may be changed under it, except that the item it is about to       *)
(* return must stay.                                                       *)
(***************************************************************************)
EXTENDS Integers, Sequences, SequencesExt

CONSTANTS Lists,      \* the lists of a program
          Data,       \* what they hold
          None        \* no list, no iterator, no result

VARIABLES items,      \* items[l] is a sequence, or None after llist_free
          iterated,   \* the list being iterated
          cursor,     \* how many of its items come before the next one
          last        \* the last call, its arguments and what it returned

vars == <<items, iterated, cursor, last>>

Init == /\ items = [l \in Lists |-> None]
        /\ iterated = None /\ cursor = 0 /\ last = <<None, None, <<>>, None>>

Exists(l) == items[l] # None
Size(l) == Len(items[l])
Has(l, x) == \E i \in 1 .. Size(l) : items[l][i] = x
FirstIndex(l, x) == CHOOSE i \in 1 .. Size(l) :
                      items[l][i] = x /\ \A j \in 1 .. i - 1 : items[l][j] # x
LastIndex(l, x) == CHOOSE i \in 1 .. Size(l) :
                     items[l][i] = x /\ \A j \in i + 1 .. Size(l) : items[l][j] # x

Returns(op, l, args, value) ==
  last'[1] = op /\ last'[3] = args /\ last' = <<op, l, args, value>>
Only(list) == items' = list /\ UNCHANGED <<iterated, cursor>>
StopIterating == iterated' = None /\ cursor' = 0

\* An item goes in at index i; an iterator stays on its item, or at the end.
Insert(l, i, x) ==
  /\ items' = [items EXCEPT ![l] = InsertAt(@, i, x)]
  /\ cursor' = IF l = iterated /\ i <= cursor + 1 THEN cursor + 1 ELSE cursor
  /\ UNCHANGED iterated

\* The i-th item goes out; if the iterator was about to return it, it is void.
Delete(l, i) ==
  /\ items' = [items EXCEPT ![l] = RemoveAt(@, i)]
  /\ IF l = iterated /\ i = cursor + 1 THEN StopIterating
     ELSE /\ cursor' = IF l = iterated /\ i <= cursor THEN cursor - 1 ELSE cursor
          /\ UNCHANGED iterated

-----------------------------------------------------------------------------
New(l) ==
  Returns("new", l, <<>>, None) /\ ~Exists(l) /\ Only([items EXCEPT ![l] = <<>>])

Drop(op, l, to) ==
  /\ Returns(op, l, <<>>, None)
  /\ Exists(l) /\ items' = [items EXCEPT ![l] = to]
  /\ IF l = iterated THEN StopIterating ELSE UNCHANGED <<iterated, cursor>>

AddAt(op, l, i, x, args) == Returns(op, l, args, None) /\ Insert(l, i, x)

Adding(l) ==
  \E x \in Data :
    \/ AddAt("add_first", l, 1, x, <<x>>)
    \/ AddAt("add_last", l, Size(l) + 1, x, <<x>>)
    \/ \E i \in 0 .. Size(l) : AddAt("add_at", l, i + 1, x, <<i, x>>)
    \/ \E i \in 1 .. Size(l) : \/ AddAt("add_after", l, i + 1, x, <<i, x>>)
                               \/ AddAt("add_before", l, i, x, <<i, x>>)

RemoveFrom(op, l, i, args) == Returns(op, l, args, items[l][i]) /\ Delete(l, i)

Removing(l) ==
  \/ Size(l) > 0 /\ RemoveFrom("remove_first", l, 1, <<>>)
  \/ Size(l) > 0 /\ RemoveFrom("remove_last", l, Size(l), <<>>)
  \/ \E i \in 1 .. Size(l) : RemoveFrom("remove_at", l, i, <<i - 1>>)
  \/ \E i \in 1 .. Size(l) : RemoveFrom("remove_node", l, i, <<i>>)
  \/ \E x \in Data : Has(l, x) /\ RemoveFrom("remove", l, FirstIndex(l, x), <<x>>)

\* What only looks at the list, and what finds nothing to do.
Reading(l) ==
  /\ \/ \E i \in 0 .. Size(l) :
          Returns("get", l, <<i>>, IF i < Size(l) THEN items[l][i + 1] ELSE None)
     \/ \E i \in 0 .. Size(l), x \in Data :      \* nothing is set
          Returns("set", l, <<i, x>>, IF i < Size(l) THEN items[l][i + 1] ELSE None)
     \/ \E x \in Data :
          Returns("index_of", l, <<x>>,
                  IF Has(l, x) THEN <<FirstIndex(l, x) - 1, LastIndex(l, x) - 1>>
                  ELSE <<-1, -1>>)
     \/ Returns("to_array", l, <<>>, <<items[l], Size(l)>>)
     \/ Returns("ends", l, <<>>, IF Size(l) = 0 THEN <<None, None>>
                                ELSE <<items[l][1], items[l][Size(l)]>>)
     \/ Size(l) = 0 /\ \E op \in {"remove_first", "remove_last"} :
          Returns(op, l, <<>>, None)
     \/ Returns("remove_at", l, <<Size(l)>>, None)
     \/ \E x \in Data : Returns("remove", l, <<x>>, None) /\ ~Has(l, x)
     \/ \E x \in Data : Returns("add_at", l, <<Size(l) + 1, x>>, None)
  /\ Only(items)

AddAll(l, m) ==
  /\ Returns("add_all", l, <<m>>, None)
  /\ l # m /\ Exists(l) /\ Exists(m)
  /\ items' = [items EXCEPT ![l] = @ \o items[m]]
  /\ cursor' = IF l = iterated /\ cursor = Size(l) THEN Size(l)' ELSE cursor
  /\ UNCHANGED iterated

Clone(l, m) ==
  /\ Returns("clone", l, <<m>>, None)
  /\ Exists(l) /\ ~Exists(m) /\ Only([items EXCEPT ![m] = items[l]])

Turn(l) ==
  /\ Returns("reverse", l, <<>>, None)
  /\ Exists(l) /\ Only([items EXCEPT ![l] = Reverse(@)])

Iterate(l) ==
  /\ Returns("iterator", l, <<>>, None)
  /\ Exists(l) /\ iterated' = l /\ cursor' = 0 /\ UNCHANGED items

IterateNext(l) ==
  /\ iterated = l /\ cursor < Size(l)
  /\ Returns("next", l, <<>>, items[l][cursor + 1])
  /\ cursor' = cursor + 1 /\ UNCHANGED <<items, iterated>>

\* The item returned last leaves the list, the one to return next stays.
IterateRemove(l) ==
  /\ Returns("iterator_remove", l, <<>>, None)
  /\ iterated = l /\ cursor > 0 /\ cursor' = cursor - 1
  /\ items' = [items EXCEPT ![l] = RemoveAt(@, cursor)]
  /\ UNCHANGED iterated

Call(l) ==
  \/ New(l) \/ Drop("clear", l, <<>>) \/ Drop("free", l, None)
  \/ Exists(l) /\ (Adding(l) \/ Removing(l) \/ Reading(l))
  \/ \E m \in Lists : AddAll(l, m) \/ Clone(l, m)
  \/ Turn(l) \/ Iterate(l) \/ IterateNext(l) \/ IterateRemove(l)

Next == \E l \in Lists : last'[2] = l /\ Call(l)

Spec == Init /\ [][Next]_vars
==============================================================================
