----------------------------- MODULE MCContainers -----------------------------
(***************************************************************************)
(* The containers of the program, each on its own: a behaviour calls the   *)
(* functions of one of them.  The record of the last call is compared with *)
(* the abstract specification at every step, but no action reads it, so    *)
(* that two states that differ only there need not be told apart.          *)
(***************************************************************************)
EXTENDS LList, HMap, TMap

\* The hashes of the keys: "null" is the null pointer, which hashes to 0.
\* With 2 buckets and after a rehash with 5, some collide and some move.
Hashes == [k \in HKeys |->
             CASE k = "null" -> 0 [] k = "p" -> 5 [] k = "q" -> 3 [] k = "r" -> 6]

\* Each key with a value of its own, and a second value for one of them.
SmallKeys == 1 .. 5
SomeEntries == {<<k, 10 * k>> : k \in TKeys} \cup {<<2, 99>>}


LListCall == LListNext /\ UNCHANGED <<hmapVars, tmapVars>>
HMapCall == HMapNext /\ UNCHANGED <<llistVars, tmapVars>>
\* All the calls on trees of few keys, and large trees that only grow and shrink.
SmallTree == \A k \in TKeys : tree.value[k] # NoValue => k \in SmallKeys
TMapCall == TMapNext /\ SmallTree' /\ UNCHANGED <<llistVars, hmapVars>>
TreeCall == \E k \in TKeys : (tmap_put(k, 10 * k) \/ tmap_remove(k))
                             /\ UNCHANGED <<llistVars, hmapVars>>

VARIABLE subject      \* the container of this behaviour

Init ==
  /\ LListInit /\ HMapInit /\ TMapInit
  /\ subject \in {"llist", "hmap", "tmap", "tree"}

Next ==
  \/ subject = "llist" /\ LListCall /\ UNCHANGED subject
  \/ subject = "hmap" /\ HMapCall /\ UNCHANGED subject
  \/ subject = "tmap" /\ TMapCall /\ UNCHANGED subject
  \/ subject = "tree" /\ TreeCall /\ UNCHANGED subject

Spec == Init /\ [][Next]_<<llistVars, hmapVars, tmapVars, subject>>

ContainerState == <<subject, lists, lnodes, iterator, hdata, hiterator, tree, titerator, tcurrent>>
==============================================================================
