------------------------------- MODULE MapSpec -------------------------------
(***************************************************************************)
(* What hmap.h and tmap.h promise: a finite map, and one iterator over its *)
(* values.  `todo' holds the keys that the iterator has still to come to.  *)
(* The entry that next() returned last may be removed from the map without *)
(* harm to the iteration; what else a change of the map does to it differs *)
(* between the two.                                                        *)
(***************************************************************************)
EXTENDS FiniteSets, Sequences, Functions

CONSTANTS Keys, Values,
          Ranges,     \* the sets of keys that a partial iterator can match
          None

VARIABLES dict,       \* dict[k] is the value of k, or None
          todo,       \* the keys still to be iterated
          current,    \* the key of the value that next() returned last
          last        \* the last call, its arguments and what it returned

vars == <<dict, todo, current, last>>

Init == /\ dict = [k \in Keys |-> None] /\ todo = {}
        /\ current = None /\ last = <<None, <<>>, None>>

Present == {k \in Keys : dict[k] # None}
Returns(op, args, value) ==
  last'[1] = op /\ last'[2] = args /\ last' = <<op, args, value>>

\* The iterator becomes void, and callers forget it.
Forget == todo' = {} /\ current' = None

Put(k, v) ==
  /\ Returns("put", <<k, v>>, dict[k])
  /\ dict' = [dict EXCEPT ![k] = v]
  /\ IF dict[k] # None THEN UNCHANGED <<todo, current>>
     ELSE Forget \/ (todo' \in {todo, todo \cup {k}} /\ UNCHANGED current)

Remove(k) ==
  /\ Returns("remove", <<k>>, dict[k])
  /\ dict' = [dict EXCEPT ![k] = None]
  /\ CASE dict[k] = None -> UNCHANGED <<todo, current>>
       [] dict[k] # None /\ k = current -> current' = None /\ UNCHANGED todo
       [] OTHER -> Forget \/ (todo' = todo \ {k} /\ UNCHANGED current)

Get(k) == Returns("get", <<k>>, dict[k]) /\ UNCHANGED <<dict, todo, current>>

Size == Returns("size", <<>>, Cardinality(Present)) /\ UNCHANGED <<dict, todo, current>>

Clear ==
  /\ Returns("clear", <<>>, None)
  /\ dict' = [k \in Keys |-> None] /\ Forget

\* Each key is visited once, also when the callback removes what it visits.
ForEach ==
  /\ last'[1] = "foreach"
  /\ LET removed == last'[2]
         visited == last'[3]
     IN  /\ IsInjective(visited) /\ Range(visited) = Present
         /\ dict' = [k \in Keys |-> IF k \in removed THEN None ELSE dict[k]]
         /\ IF removed = {} THEN UNCHANGED <<todo, current>> ELSE Forget

Iterator ==
  /\ Returns("iterator", <<>>, None)
  /\ todo' = Present /\ current' = None /\ UNCHANGED dict

IteratorPartial(range) ==
  /\ Returns("partial", <<range>>, range \cap Present # {})
  /\ todo' = range \cap Present /\ current' = None /\ UNCHANGED dict

IteratorNext ==
  /\ last'[1] = "next"
  /\ \/ todo = {} /\ Returns("next", <<>>, None) /\ UNCHANGED <<todo, current>>
     \/ \E k \in todo : /\ Returns("next", <<>>, dict[k])
                        /\ todo' = todo \ {k} /\ current' = k
  /\ UNCHANGED dict

Next ==
  \/ \E k \in Keys : Remove(k) \/ Get(k) \/ \E v \in Values : Put(k, v)
  \/ Size \/ Clear \/ ForEach \/ Iterator \/ IteratorNext
  \/ \E range \in Ranges : IteratorPartial(range)

Spec == Init /\ [][Next]_vars
==============================================================================
