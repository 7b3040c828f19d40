---------------------------- MODULE SessionProofs -----------------------------
(***************************************************************************)
(* Sessions of qmv and qcp: listing, editing, planning and applying, one    *)
(* round after the other, for any files, any names typed by the user, any   *)
(* commands that fail, and any number of retries.                           *)
(*                                                                          *)
(* The proofs are about sessions in which each plan is made from a fresh    *)
(* listing.  The runs that expect a violation show what goes wrong in the   *)
(* others.                                                                  *)
(***************************************************************************)
EXTENDS QCmd, ApplyPlanProofs, MakePlanFilesProofs

USE DEF First, NULL

-----------------------------------------------------------------------------
(***************************************************************************)
(* What else holds while make_plan runs: where its local variables have    *)
(* been cleared, and where the links of FileSpecs lead.                    *)
(***************************************************************************)
LocalsInv ==
  /\ pc # "topologic_sort" => changed = FALSE
  /\ ~InCross => map_new = EmptyMap
  /\ ~Walking => s1 = NULL /\ s2 = NULL /\ prev_circular = NULL /\ tmp_count = 0
  /\ Planned => it = First /\ map = EmptyMap

\* Only qmv links FileSpecs and adds some to the plan.
PlainInv ==
  program # "qmv" => /\ Pending \subseteq Listed
                     /\ \A s \in Refs : prev_spec[s] = NULL /\ next_spec[s] = NULL

Known == Listed \cup Pending

LeadInv ==
  \A s \in Known : prev_spec[s] \in Known \cup {NULL} /\ next_spec[s] \in Known \cup {NULL}

UnlinkedInv ==
  \A i \in Listed \ (Pending \cup Unchecked) : prev_spec[i] = NULL /\ next_spec[i] = NULL

\* make_plan leaves the directory, the options and the listing alone.
LEMMA MakePlanKeeps ==
  ASSUME make_plan
  PROVE  UNCHANGED <<fs, work_files, external, options, printed, scenario>>
  BY DEF make_plan, CrossReferenceResolve, EndScan, previous_scan, duplicate_scan,
         old_missing_scan, no_change_scan, dest_exists, topologic_sort, EndTopologicPass,
         cross_map, cross_reference, FollowToDeadEnd, FollowToStart, FollowOn, TryNextTmp,
         ReplaceStart, CollectCircular, AddExtraRename, new_exists_map, new_exists_source,
         new_exists_dest, apply_unchecked, Refuse, dataVars, fieldVars, envVars

\* Every step of make_plan leaves its local variables cleared where they have to be.
LEMMA NextLocalsInv ==
  ASSUME PlanInv, LocalsInv, make_plan
  PROVE  LocalsInv'
<1> USE DEF sortVars, crossVars
<1>1. CASE EndScan
  <2>1. /\ pc \in Scans /\ pc' = NextScan[pc] /\ it' = 1
        /\ map' = IF pc \in KeepsMap THEN map ELSE EmptyMap
        /\ map_new' = IF pc = "cross_reference" THEN EmptyMap ELSE map_new
        /\ UNCHANGED <<changed, s1, s2, prev_circular, tmp_count>>
    BY <1>1 DEF EndScan
  <2>2. pc \notin {"topologic_sort", "follow", "temporary", "collect"}
    BY <2>1, ScanNames
  <2>3. pc' \in {"cross_map", "cross_reference"} => pc = "cross_map"
    BY <2>1, ScanNames DEF ChecksDone
  <2>4. pc' = "planned" => pc = "apply_unchecked"
    BY <2>1, ScanNames DEF ChecksDone
  <2>5. pc' \notin {"follow", "temporary", "collect"}
    BY <2>1, ScanNames DEF ChecksDone
  <2>6. changed' = FALSE
    BY <2>1, <2>2 DEF LocalsInv
  <2>7. s1' = NULL /\ s2' = NULL /\ prev_circular' = NULL /\ tmp_count' = 0
    BY <2>1, <2>2 DEF LocalsInv, Walking
  <2>8. pc' \notin {"cross_map", "cross_reference", "follow", "temporary", "collect"} =>
          map_new' = EmptyMap
    <3>1. pc = "cross_map" => pc' = "cross_reference"
      BY <2>1, ScanNames
    <3>2. pc \notin {"cross_map", "cross_reference"} => map_new = EmptyMap
      BY <2>2 DEF LocalsInv, InCross
    <3> QED
      BY <2>1, <3>1, <3>2
  <2>9. pc' = "planned" => it' = 1 /\ map' = EmptyMap
    BY <2>1, <2>4 DEF KeepsMap
  <2> QED
    BY <2>5, <2>6, <2>7, <2>8, <2>9 DEF LocalsInv, InCross, Planned
<1>2. CASE EndTopologicPass
  <2>1. /\ pc = "topologic_sort" /\ pc' \in {"topologic_sort", "cross_map"} /\ changed' = FALSE
        /\ UNCHANGED <<map_new, s1, s2, prev_circular, tmp_count>>
    BY <1>2, ScanNames DEF EndTopologicPass
  <2> QED
    BY <2>1 DEF LocalsInv, InCross, Walking, Planned
<1>3. CASE topologic_sort
  BY <1>3 DEF topologic_sort, LocalsInv, InCross, Walking, Planned
<1>4. CASE \/ previous_scan \/ duplicate_scan \/ old_missing_scan \/ no_change_scan \/ dest_exists
           \/ new_exists_map \/ new_exists_source \/ new_exists_dest \/ apply_unchecked
  <2>1. /\ pc' = pc /\ UNCHANGED <<changed, map_new, s1, s2, prev_circular, tmp_count>>
        /\ pc \notin {"planned", "topologic_sort"}
    BY <1>4 DEF previous_scan, duplicate_scan, old_missing_scan, no_change_scan, dest_exists,
         new_exists_map, new_exists_source, new_exists_dest, apply_unchecked, Refuse, InScan
  <2> QED
    BY <2>1 DEF LocalsInv, InCross, Walking, Planned
<1>5. CASE CrossReferenceResolve
  <2>1. changed' = changed /\ pc \in {"cross_map", "cross_reference", "follow", "temporary", "collect"}
    BY <1>5 DEF CrossReferenceResolve, cross_map, cross_reference, FollowToDeadEnd, FollowToStart,
         FollowOn, TryNextTmp, ReplaceStart, CollectCircular, AddExtraRename, InScan
  <2>2. pc' \in {"cross_map", "cross_reference", "follow", "temporary", "collect"}
    BY <1>5 DEF CrossReferenceResolve, cross_map, cross_reference, FollowToDeadEnd, FollowToStart,
         FollowOn, TryNextTmp, ReplaceStart, CollectCircular, AddExtraRename, InScan, NextReference
  <2>3. pc' \in {"cross_map", "cross_reference"} =>
          s1' = NULL /\ s2' = NULL /\ prev_circular' = NULL /\ tmp_count' = 0
    BY <1>5 DEF CrossReferenceResolve, cross_map, cross_reference, FollowToDeadEnd, FollowToStart,
         FollowOn, TryNextTmp, ReplaceStart, CollectCircular, AddExtraRename, InScan, NextReference,
         LocalsInv, Walking
  <2> QED
    BY <2>1, <2>2, <2>3 DEF LocalsInv, InCross, Walking, Planned
<1> QED
  BY <1>1, <1>2, <1>3, <1>4, <1>5 DEF make_plan

\* Without qmv, a step of make_plan links nothing, and plans listed files only.
LEMMA NextPlainInv ==
  ASSUME PlanInv, PlainInv, make_plan
  PROVE  PlainInv'
<1> SUFFICES ASSUME program # "qmv"
             PROVE  /\ Pending' \subseteq Listed
                    /\ \A s \in Refs : prev_spec'[s] = NULL /\ next_spec'[s] = NULL
  BY MakePlanKeeps DEF PlainInv, program, Listed
<1> USE DEF dataVars, fieldVars, planVars, sortVars, crossVars, localVars, envVars
<1>1. Pending \subseteq Listed /\ \A s \in Refs : prev_spec[s] = NULL /\ next_spec[s] = NULL
  BY DEF PlainInv
<1>2. ~InSort /\ ~InCross /\ StatusInv /\ TypeInv
  BY StateFacts DEF TypeInv, Shape
<1>3. /\ ~dest_exists /\ ~topologic_sort /\ ~EndTopologicPass /\ ~CrossReferenceResolve
  BY <1>2 DEF InSort, InCross, dest_exists, topologic_sort, EndTopologicPass, CrossReferenceResolve,
         cross_map, cross_reference, FollowToDeadEnd, FollowToStart, FollowOn, TryNextTmp,
         ReplaceStart, CollectCircular, AddExtraRename, InScan
<1>4. UNCHANGED <<prev_spec, next_spec>>
  BY <1>3 DEF make_plan, EndScan, previous_scan, duplicate_scan, old_missing_scan, no_change_scan,
         new_exists_map, new_exists_source, new_exists_dest, apply_unchecked, Refuse
<1>5. CASE apply_unchecked
  <2>1. (it \in Unchecked /\ Accepts(it)) \/ Keeps
    BY <1>5, AcceptingScans
  <2>2. Pending' \subseteq Pending \cup Unchecked
    BY <2>1, AcceptFacts, KeepFacts
  <2> QED
    BY <1>1, <1>4, <2>2 DEF Unchecked
<1>6. CASE previous_scan
  <2>1. spec \in Unchecked
    BY <1>2, <1>6, StateFacts DEF previous_scan, InScan, StatusInv
  <2>2. ok' = ok
    BY <1>6, <2>1 DEF previous_scan, Unchecked, OkStatus
  <2> QED
    BY <1>1, <1>4, <2>2 DEF Pending
<1>7. CASE ~apply_unchecked /\ ~previous_scan
  <2>1. ok' = ok
    BY <1>3, <1>7 DEF make_plan, EndScan, duplicate_scan, old_missing_scan, no_change_scan,
         new_exists_map, new_exists_source, new_exists_dest, Refuse
  <2> QED
    BY <1>1, <1>4, <2>1 DEF Pending
<1> QED
  BY <1>5, <1>6, <1>7

\* These steps leave the plan and all links as they are.
LinksStay ==
  \/ EndScan \/ previous_scan \/ duplicate_scan \/ old_missing_scan
  \/ no_change_scan \/ EndTopologicPass \/ cross_map \/ cross_reference
  \/ TryNextTmp \/ new_exists_map \/ new_exists_source \/ new_exists_dest

LEMMA LinksStayFacts ==
  ASSUME PlanInv, LinksStay
  PROVE  /\ UNCHANGED <<prev_spec, next_spec>> /\ Pending' = Pending /\ Listed' = Listed
         /\ pc # "collect" /\ pc' # "collect"
<1> USE DEF dataVars, fieldVars, planVars, sortVars, crossVars, localVars, envVars
<1>1. pc # "collect" /\ pc' # "collect" /\ UNCHANGED <<prev_spec, next_spec, printed>>
  BY ScanNames
     DEF LinksStay, EndScan, previous_scan, duplicate_scan, old_missing_scan, no_change_scan,
         EndTopologicPass, cross_map, cross_reference, TryNextTmp, new_exists_map,
         new_exists_source, new_exists_dest, Refuse, InScan, ChecksDone
<1>2. ok' = ok
  <2>1. CASE previous_scan
    <3>1. spec \in Unchecked
      BY <2>1, StateFacts DEF previous_scan, InScan, StatusInv
    <3> QED
      BY <2>1, <3>1 DEF previous_scan, Unchecked, OkStatus
  <2>2. CASE ~previous_scan
    BY <2>2 DEF LinksStay, EndScan, duplicate_scan, old_missing_scan, no_change_scan,
           EndTopologicPass, cross_map, cross_reference, TryNextTmp, new_exists_map,
           new_exists_source, new_exists_dest, Refuse
  <2> QED
    BY <2>1, <2>2
<1> QED
  BY <1>1, <1>2 DEF Pending, Listed

\* Every link leads to a listed or planned FileSpec.
LEMMA NextLeadInv ==
  ASSUME PlanInv, LeadInv, make_plan
  PROVE  LeadInv'
<1>1. /\ DataTypeOK /\ StatusInv /\ LinksInv /\ Listed \subseteq Refs /\ NULL \notin Refs
      /\ Unchecked \subseteq Listed /\ Pending \subseteq Refs
  BY StateFacts
<1>2. /\ Unchecked \subseteq Known /\ Known \subseteq Refs /\ Pending \subseteq Known
      /\ Listed \subseteq Known
      /\ \A s \in Known : prev_spec[s] \in Known \cup {NULL} /\ next_spec[s] \in Known \cup {NULL}
      /\ prev_spec \in [Refs -> Refs \cup {NULL}] /\ next_spec \in [Refs -> Refs \cup {NULL}]
  BY <1>1 DEF Known, LeadInv, DataTypeOK
<1>a. CASE LinksStay
  BY <1>2, <1>a, LinksStayFacts DEF LeadInv, Known
<1>b. CASE dest_exists \/ topologic_sort \/ apply_unchecked
  <2>1. CASE Keeps
    BY <1>2, <2>1, KeepFacts DEF Keeps, LeadInv, Known
  <2>2. CASE ~Keeps
    <3>1. PICK x \in Unchecked :
            /\ Accepts(x)
            /\ \/ UNCHANGED <<prev_spec, next_spec>>
               \/ \E d \in Pending : /\ prev_spec' = [prev_spec EXCEPT ![x] = d]
                                     /\ next_spec' = [next_spec EXCEPT ![d] = x]
      BY <1>b, <2>2, AcceptingScans
    <3>2. Known' = Known /\ x \in Known
      BY <1>2, <3>1, AcceptFacts DEF Known
    <3> QED
      BY <1>2, <3>1, <3>2 DEF LeadInv
  <2> QED
    BY <2>1, <2>2
<1>c. CASE FollowToDeadEnd \/ (FollowToStart /\ pc' # "temporary")
  <2>1. /\ \A s \in Refs : next_spec'[s] \in {next_spec[s], NULL}
        /\ prev_spec' = prev_spec /\ Pending' = Pending /\ Listed' = Listed
    BY <1>c, DeadEndFacts
  <2> QED
    BY <1>2, <2>1 DEF LeadInv, Known
<1>d. CASE (FollowToStart /\ pc' = "temporary") \/ FollowOn
  <2>1. /\ UNCHANGED <<ok, prev_spec>> /\ pc = "follow"
        /\ \/ next_spec' = [next_spec EXCEPT ![prev_circular] = NULL]
           \/ next_spec' = [next_spec EXCEPT ![prev_circular] = Following] /\ ~DeadEnd
    BY <1>d DEF FollowToStart, FollowOn, planVars
  <2>2. ~DeadEnd => Following \in Listed
    <3>1. s2 \in Listed
      BY <1>1, <2>1, WalkFacts
    <3>2. Following \in Listed \cup {NULL}
      BY <3>1, StateFacts DEF Following, TypeInv, Shape
    <3> QED
      BY <1>1, <3>2 DEF DeadEnd
  <2>3. Known' = Known
    BY <2>1, MakePlanKeeps DEF Known, Pending, Listed
  <2> QED
    BY <1>2, <2>1, <2>2, <2>3 DEF LeadInv
<1>e. CASE ReplaceStart
  <2> DEFINE t == new_file_spec
  <2>1. /\ s1 \in Unchecked
        /\ Pending' = Pending \cup {t} /\ Listed' = Listed
        /\ next_spec'[s1] = NULL /\ next_spec'[t] = next_spec[s1]
        /\ prev_spec'[s1] = NULL /\ prev_spec'[t] = NULL
        /\ \A s \in Refs \ {s1, t} : /\ next_spec'[s] = next_spec[s]
                                     /\ prev_spec'[s] = prev_spec[s]
    BY <1>e, ReplaceStartFacts
  <2> HIDE DEF t
  <2>2. Known' = Known \cup {t} /\ s1 \in Known
    BY <1>2, <2>1 DEF Known
  <2> SUFFICES ASSUME NEW s \in Known'
               PROVE  prev_spec'[s] \in Known' \cup {NULL} /\ next_spec'[s] \in Known' \cup {NULL}
    BY DEF LeadInv
  <2>3. s \in Known \/ s = t
    BY <2>2
  <2> QED
    BY <1>2, <2>1, <2>2, <2>3
<1>f. CASE CollectCircular
  <2>1. /\ s2 \in Unchecked /\ Pending' = Pending \cup {s2} /\ Listed' = Listed
        /\ UNCHANGED <<prev_spec, next_spec>>
    BY <1>f, CollectFacts
  <2> QED
    BY <1>2, <2>1 DEF LeadInv, Known
<1>g. CASE AddExtraRename
  <2> DEFINE t == prev_circular
             e == new_file_spec
             k == CHOOSE i \in 1 .. Len(ok) : ok[i] = t
  <2>1. /\ k \in 1 .. Len(ok)
        /\ Pending' = Pending \cup {e} /\ Listed' = Listed
        /\ prev_spec'[e] = NULL /\ next_spec'[e] = ok[1]
        /\ \A i \in 1 .. k : /\ prev_spec'[ok[i]] = IF i = 1 THEN e ELSE ok[i - 1]
                             /\ next_spec'[ok[i]] = IF i = k THEN NULL ELSE ok[i + 1]
        /\ \A s \in Refs \ {e} : (\A i \in 1 .. k : ok[i] # s) =>
             prev_spec'[s] = prev_spec[s] /\ next_spec'[s] = next_spec[s]
    BY <1>g, AddExtraFacts
  <2> HIDE DEF t, e, k
  <2>2. Known' = Known \cup {e} /\ \A i \in 1 .. Len(ok) : ok[i] \in Known
    BY <1>2, <2>1 DEF Known, Pending, Elems
  <2>3. ASSUME NEW i \in 1 .. k
        PROVE  /\ prev_spec'[ok[i]] \in Known' \cup {NULL}
               /\ next_spec'[ok[i]] \in Known' \cup {NULL}
    <3>1. i # 1 => i - 1 \in 1 .. Len(ok)
      BY <2>1
    <3>2. i # k => i + 1 \in 1 .. Len(ok)
      BY <2>1
    <3> QED
      BY <2>1, <2>2, <3>1, <3>2
  <2>4. 1 \in 1 .. Len(ok)
    BY <2>1
  <2> SUFFICES ASSUME NEW s \in Known'
               PROVE  prev_spec'[s] \in Known' \cup {NULL} /\ next_spec'[s] \in Known' \cup {NULL}
    BY DEF LeadInv
  <2>5. CASE s = e
    BY <2>1, <2>2, <2>4, <2>5
  <2>6. CASE \E i \in 1 .. k : ok[i] = s
    BY <2>3, <2>6
  <2>7. CASE s # e /\ \A i \in 1 .. k : ok[i] # s
    BY <1>2, <2>1, <2>2, <2>7
  <2> QED
    BY <2>5, <2>6, <2>7
<1> QED
  BY <1>a, <1>b, <1>c, <1>d, <1>e, <1>f, <1>g DEF make_plan, CrossReferenceResolve, LinksStay

\* A file that was refused or replaced has no links.
LEMMA NextUnlinkedInv ==
  ASSUME PlanInv, UnlinkedInv, make_plan
  PROVE  UnlinkedInv'
<1>1. /\ DataTypeOK /\ StatusInv /\ LinksInv /\ Listed \subseteq Refs /\ NULL \notin Refs
      /\ Unchecked \subseteq Listed /\ Pending \subseteq Refs
      /\ prev_spec \in [Refs -> Refs \cup {NULL}] /\ next_spec \in [Refs -> Refs \cup {NULL}]
  BY StateFacts DEF DataTypeOK
<1>2. /\ \A i \in Listed \ (Pending \cup Unchecked) : prev_spec[i] = NULL /\ next_spec[i] = NULL
      /\ \A i \in Unchecked : prev_spec[i] = NULL
      /\ pc \notin Crossing => \A i \in Unchecked : next_spec[i] = NULL
  BY <1>1 DEF UnlinkedInv, StatusInv
<1>3. ASSUME pc \notin Crossing, UNCHANGED <<prev_spec, next_spec>>, Pending \subseteq Pending',
             Listed' = Listed
      PROVE  UnlinkedInv'
  BY <1>2, <1>3 DEF UnlinkedInv
<1>a. CASE LinksStay
  <2>1. UNCHANGED <<prev_spec, next_spec>> /\ Pending' = Pending /\ Listed' = Listed
    BY <1>a, LinksStayFacts
  <2>2. CASE pc \notin Crossing
    BY <1>3, <2>1, <2>2
  <2>3. CASE pc \in Crossing
    <3>1. status' = status
      BY <1>a, <2>3 DEF LinksStay, Crossing, EndScan, previous_scan, duplicate_scan, old_missing_scan,
         no_change_scan, EndTopologicPass, cross_map, cross_reference, TryNextTmp, new_exists_map,
         new_exists_source, new_exists_dest, Refuse, InScan, dataVars, fieldVars
    <3> QED
      BY <1>2, <2>1, <3>1 DEF UnlinkedInv, Unchecked
  <2> QED
    BY <2>2, <2>3
<1>b. CASE dest_exists \/ topologic_sort \/ apply_unchecked
  <2>0. pc \notin Crossing
    BY <1>b, AcceptingScans DEF Crossing
  <2>1. CASE Keeps
    BY <1>3, <2>0, <2>1, KeepFacts DEF Keeps
  <2>2. CASE ~Keeps
    <3>1. PICK x \in Unchecked :
            /\ Accepts(x)
            /\ \/ UNCHANGED <<prev_spec, next_spec>>
               \/ \E d \in Pending : /\ prev_spec' = [prev_spec EXCEPT ![x] = d]
                                     /\ next_spec' = [next_spec EXCEPT ![d] = x]
      BY <1>b, <2>2, AcceptingScans
    <3>2. Pending' = Pending \cup {x} /\ Unchecked' = Unchecked \ {x} /\ Listed' = Listed
      BY <3>1, AcceptFacts
    <3> QED
      BY <1>1, <1>2, <3>1, <3>2 DEF UnlinkedInv
  <2> QED
    BY <2>1, <2>2
<1>c. CASE FollowToDeadEnd \/ (FollowToStart /\ pc' # "temporary")
  <2>1. /\ s1 \in Unchecked /\ Unchecked' = Unchecked \ {s1} /\ Pending' = Pending /\ Listed' = Listed
        /\ \A s \in Refs \ Unchecked : next_spec'[s] = next_spec[s]
        /\ prev_spec' = prev_spec
    BY <1>c, DeadEndFacts
  <2>2. next_spec'[s1] = NULL
    <3>1. CASE FollowToDeadEnd
      BY <1>1, <2>1, <3>1 DEF FollowToDeadEnd
    <3>2. CASE FollowToStart /\ pc' # "temporary"
      BY <3>2 DEF FollowToStart
    <3> QED
      BY <1>c, <3>1, <3>2
  <2> QED
    BY <1>1, <1>2, <2>1, <2>2 DEF UnlinkedInv
<1>d. CASE (FollowToStart /\ pc' = "temporary") \/ FollowOn
  <2>1. /\ UNCHANGED <<ok, prev_spec>> /\ pc = "follow"
        /\ \E x : next_spec' = [next_spec EXCEPT ![prev_circular] = x]
    BY <1>d DEF FollowToStart, FollowOn, planVars
  <2>2. prev_circular \in Unchecked
    BY <2>1, WalkFacts
  <2>3. status' = status
    BY <1>d DEF FollowToStart, FollowOn, NextReference
  <2>4. Pending' = Pending /\ Listed' = Listed /\ Unchecked' = Unchecked
    BY <2>1, <2>3, MakePlanKeeps DEF Pending, Listed, Unchecked
  <2> QED
    BY <1>1, <1>2, <2>1, <2>2, <2>4 DEF UnlinkedInv
<1>e. CASE ReplaceStart
  <2> DEFINE t == new_file_spec
  <2>1. /\ s1 \in Unchecked /\ t \in Refs \ Listed
        /\ Pending' = Pending \cup {t} /\ Listed' = Listed /\ Unchecked' = Unchecked \ {s1}
        /\ next_spec'[s1] = NULL /\ prev_spec'[s1] = NULL
        /\ \A s \in Refs \ {s1, t} : /\ next_spec'[s] = next_spec[s]
                                     /\ prev_spec'[s] = prev_spec[s]
    BY <1>e, ReplaceStartFacts
  <2> HIDE DEF t
  <2> QED
    BY <1>1, <1>2, <2>1 DEF UnlinkedInv
<1>f. CASE CollectCircular
  <2>1. /\ s2 \in Unchecked /\ Pending' = Pending \cup {s2} /\ Listed' = Listed
        /\ Unchecked' = Unchecked \ {s2}
        /\ UNCHANGED <<prev_spec, next_spec>>
    BY <1>f, CollectFacts
  <2> QED
    BY <1>2, <2>1 DEF UnlinkedInv
<1>g. CASE AddExtraRename
  <2> DEFINE t == prev_circular
             e == new_file_spec
             k == CHOOSE i \in 1 .. Len(ok) : ok[i] = t
  <2>1. /\ k \in 1 .. Len(ok) /\ e \in Refs \ Listed
        /\ Pending' = Pending \cup {e} /\ Listed' = Listed /\ Unchecked' = Unchecked
        /\ \A s \in Refs \ {e} : (\A i \in 1 .. k : ok[i] # s) =>
             prev_spec'[s] = prev_spec[s] /\ next_spec'[s] = next_spec[s]
    BY <1>g, AddExtraFacts
  <2> HIDE DEF t, e, k
  <2>2. \A i \in 1 .. k : ok[i] \in Pending
    BY <2>1 DEF Pending, Elems
  <2> QED
    BY <1>1, <1>2, <2>1, <2>2 DEF UnlinkedInv
<1> QED
  BY <1>a, <1>b, <1>c, <1>d, <1>e, <1>f, <1>g DEF make_plan, CrossReferenceResolve, LinksStay

-----------------------------------------------------------------------------
(***************************************************************************)
(* The sessions in which each plan is made from a fresh listing: files are *)
(* edited again only as long as there is no plan, and no list is imported  *)
(* while an edit waits to be continued.                                    *)
(***************************************************************************)
EachPlanFresh ==
  /\ Commands \cap {"import", "edit", "edit all"} = {}
  /\ ~({"first import", "broken edit"} \subseteq Commands)

\* While make_plan runs.
MakingInv ==
  /\ PlanInv /\ ReadyInv /\ FilesInv /\ FeasibleInv
  /\ LocalsInv /\ PlainInv /\ LeadInv /\ UnlinkedInv

\* Before make_plan runs: nothing is checked, linked or freed.
FreshFiles ==
  /\ Len(printed) <= MaxSpecs
  /\ \A i, j \in Listed : printed[i] = printed[j] => i = j
  /\ \E names \in [Listed -> FileNames] : FreshSpecs(names)

\* After make_plan: the plan, or what is left of it, and the other files.
HeldInv ==
  /\ LoopInv /\ Distinct(work_files)
  /\ Pending \cap (Elems(error) \cup Elems(no_change)) = {}
  /\ \A s \in Reachable : status[s] \in FileSpecStatus
  /\ \A s \in Reachable \ Pending : prev_spec[s] = NULL /\ next_spec[s] = NULL

\* Where the session stands, and what the functions that do not run have left.
StagesInv ==
  /\ scenario \in DOMAIN Scenarios /\ external = 0
  /\ stage # "plan" => InitLocals("planned")
  /\ applying <=> stage = "apply"
  /\ stage \in {"list", "free", "edit"} => ~plan
  /\ stage \in {"plan", "run", "apply"} => plan
  /\ ~plan => EmptyPlan
  /\ edit_file_list # <<>> =>
       edit_file_list = work_files /\ "broken edit" \in Commands /\ ~plan /\ stage # "free"

SessionInv ==
  /\ SessionTypeOK /\ StagesInv
  /\ ~plan /\ stage # "free" => FreshFiles
  /\ stage = "plan" => MakingInv
  /\ plan /\ stage # "plan" => HeldInv

-----------------------------------------------------------------------------
\* An edit of freshly listed files leads to a start of make_plan.
LEMMA StartMaking == PlanStart => MakingInv
<1> SUFFICES ASSUME PlanStart PROVE MakingInv
  OBVIOUS
<1>1. PlanInv /\ ReadyInv /\ FilesInv /\ FeasibleInv
  BY StartPlanInv, StartReady, StartFilesInv, StartFeasible
<1>2. PICK names \in [Listed -> FileNames] : FreshSpecs(names)
  BY DEF PlanStart
<1>3. /\ \A s \in Refs : prev_spec[s] = NULL /\ next_spec[s] = NULL
      /\ Listed \subseteq Refs /\ Pending = {}
  BY <1>1, <1>2, StateFacts, EmptyElems DEF FreshSpecs, PlanStart, EmptyPlan, Pending
<1>4. LocalsInv
  BY DEF LocalsInv, PlanStart, InitLocals, InCross, Walking, Planned
<1>5. PlainInv /\ LeadInv /\ UnlinkedInv
  BY <1>3 DEF PlainInv, LeadInv, UnlinkedInv, Known
<1> QED
  BY <1>1, <1>4, <1>5 DEF MakingInv

\* Every step of make_plan keeps its invariant.
LEMMA NextMaking ==
  ASSUME MakingInv, make_plan \/ UNCHANGED makePlanVars
  PROVE  MakingInv'
<1>1. [PlanNext]_makePlanVars
  BY DEF PlanNext
<1>2. PlanInv' /\ ReadyInv' /\ FilesInv' /\ FeasibleInv'
  BY <1>1, NextPlanInv, NextReady, NextFilesInv, NextFeasible DEF MakingInv
<1>3. CASE make_plan
  BY <1>2, <1>3, NextLocalsInv, NextPlainInv, NextLeadInv, NextUnlinkedInv DEF MakingInv
<1>4. CASE UNCHANGED makePlanVars
  <2>1. /\ UNCHANGED <<pc, it, map, map_new, changed, s1, s2, prev_circular, tmp_count,
                       prev_spec, next_spec, status, options>>
        /\ Pending' = Pending /\ Listed' = Listed /\ Unchecked' = Unchecked
    BY <1>4 DEF makePlanVars, dataVars, fieldVars, planVars, sortVars, crossVars, localVars,
                envVars, Pending, Listed, Unchecked
  <2>2. LocalsInv'
    BY <2>1 DEF MakingInv, LocalsInv, InCross, Walking, Planned
  <2>3. PlainInv' /\ LeadInv' /\ UnlinkedInv'
    BY <2>1 DEF MakingInv, PlainInv, LeadInv, UnlinkedInv, Known, program
  <2> QED
    BY <1>2, <2>2, <2>3 DEF MakingInv
<1> QED
  BY <1>3, <1>4

\* What is fresh stays so as long as no FileSpec changes.
LEMMA FreshStays ==
  ASSUME FreshFiles, UNCHANGED <<fieldVars, work_files, printed>>
  PROVE  FreshFiles'
<1>1. PICK names \in [Listed -> FileNames] : FreshSpecs(names)
  BY DEF FreshFiles
<1>2. Listed' = Listed /\ FreshSpecs(names)'
  BY <1>1 DEF Listed, FreshSpecs, fieldVars
<1> QED
  BY <1>1, <1>2 DEF FreshFiles

\* A plan that make_plan has finished is one that can be applied or kept.
LEMMA MadeHeld ==
  ASSUME MakingInv, Planned, external = 0, ApplyTypeOK, ~applying, edit_file_list = <<>>
  PROVE  HeldInv
<1>1. /\ StatusInv /\ LinksInv /\ ListsInv /\ DoneInv /\ ReadyInv /\ PlainInv /\ UnlinkedInv
      /\ Pending \subseteq Refs /\ Unchecked = {}
      /\ \A i \in Listed : /\ old_name[i] \in FileNames /\ new_name[i] \in FileNames
                           /\ status[i] \in FileSpecStatus
  BY StateFacts DEF MakingInv, FilesInv, DoneInv
<1>2. Sorted /\ Mirrored /\ NoRepeat
  BY <1>1 DEF LinksInv, Planned
<1>3. ASSUME NEW s \in Pending PROVE old_name[s] \in FileNames /\ new_name[s] \in FileNames
  <2>1. CASE program = "qmv"
    BY <1>1, <2>1 DEF ReadyInv, Undisturbed, Ready, SourcesInv
  <2>2. CASE program # "qmv"
    BY <1>1, <2>2 DEF PlainInv
  <2> QED
    BY <2>1, <2>2
<1>4. LoopInv
  BY <1>1, <1>2, <1>3 DEF LoopInv, PendingOK, StatusInv
<1>5. Distinct(work_files)
  <2>1. work_files = [i \in Listed |-> i] /\ Len(work_files) = Len(printed)
    BY StateFacts DEF MakingInv, TypeInv, FilesKept
  <2> QED
    BY <2>1 DEF Distinct, Listed
<1>6. Elems(work_files) = Listed
  BY FilesListed DEF MakingInv
<1>7. /\ Elems(error) = {i \in Listed : status[i] \in ErrorStatus}
      /\ Elems(no_change) = {i \in Listed : status[i] = "NO_CHANGE"}
      /\ \A s \in Pending : status[s] \in OkStatus
  BY <1>1 DEF ListsInv, StatusInv
<1>8. Pending \cap (Elems(error) \cup Elems(no_change)) = {}
  BY <1>7 DEF ErrorStatus, OkStatus
<1>9. Reachable = Listed \cup Pending
  BY <1>6, <1>7, EmptyElems DEF Reachable, Pending
<1>10. \A s \in Reachable : status[s] \in FileSpecStatus
  BY <1>1, <1>7, <1>9 DEF FileSpecStatus
<1>11. \A s \in Reachable \ Pending : prev_spec[s] = NULL /\ next_spec[s] = NULL
  BY <1>1, <1>9 DEF UnlinkedInv
<1> QED
  BY <1>4, <1>5, <1>8, <1>10, <1>11 DEF HeldInv

\* A step of apply_plan that carries out no rename leaves the plan as it is.
LEMMA HeldStays ==
  ASSUME HeldInv, [ApplyNext]_applyVars,
         UNCHANGED <<fieldVars, planVars, work_files, edit_file_list>>
  PROVE  HeldInv'
<1>1. LoopInv'
  BY LoopStep DEF HeldInv
<1>2. /\ Pending' = Pending /\ Elems(error)' = Elems(error) /\ Elems(no_change)' = Elems(no_change)
      /\ Reachable' = Reachable
      /\ UNCHANGED <<status, prev_spec, next_spec, work_files>>
  BY DEF Pending, Elems, Reachable, fieldVars, planVars
<1> QED
  BY <1>1, <1>2 DEF HeldInv, Distinct

\* llist_remove takes the element that it is given, if the list has it.
LEMMA RemoveElems ==
  ASSUME NEW S, NEW list \in Seq(S), Distinct(list), NEW s
  PROVE  Distinct(Remove(list, s)) /\ Elems(Remove(list, s)) = Elems(list) \ {s}
<1>1. CASE s \notin Elems(list)
  BY <1>1 DEF Remove
<1>2. CASE s \in Elems(list)
  <2> DEFINE k == CHOOSE i \in 1 .. Len(list) : list[i] = s
  <2>1. k \in 1 .. Len(list) /\ list[k] = s
    BY <1>2 DEF Elems
  <2> HIDE DEF k
  <2>2. /\ Elems(Without(list, k)) = Elems(list) \ {s}
        /\ Distinct(Without(list, k))
    BY <2>1, WithoutElems DEF Distinct
  <2> QED
    BY <1>2, <2>2 DEF Remove, k
<1> QED
  BY <1>1, <1>2

\* A rename that was carried out leaves every list, and no link leads to it.
LEMMA HeldSucceeds ==
  ASSUME HeldInv, Succeed, edit_file_list = <<>>, edit_file_list' = <<>>
  PROVE  HeldInv'
<1> DEFINE r == rename
<1>1. /\ r \in Pending /\ prev_spec[r] = NULL /\ Pending' = Pending \ {r}
      /\ next_spec' = next_spec /\ status' = [status EXCEPT ![r] = "FREED"]
      /\ UNCHANGED <<old_name, new_name>>
  BY SucceedEffect DEF HeldInv
<1>2. /\ error' = error /\ no_change' = no_change /\ work_files' = Remove(work_files, r)
      /\ prev_spec' = IF next_spec[r] = NULL THEN prev_spec
                      ELSE [prev_spec EXCEPT ![next_spec[r]] = NULL]
  BY <1>1 DEF Succeed, free_file_spec
<1>3. /\ DataTypeOK /\ work_files \in Seq(Refs) /\ prev_spec \in [Refs -> Refs \cup {NULL}]
      /\ status \in [Refs -> FileSpecStatus \cup MemoryStatus]
      /\ error \in Seq(Refs) /\ no_change \in Seq(Refs) /\ ok \in Seq(Refs)
  BY DEF HeldInv, LoopInv, ApplyTypeOK, DataTypeOK
<1>4. LoopInv'
  <2>1. [ApplyNext]_applyVars
    BY DEF ApplyNext, apply_plan
  <2> QED
    BY <2>1, LoopStep DEF HeldInv
<1> HIDE DEF r
<1>5. Distinct(work_files)' /\ Elems(work_files)' = Elems(work_files) \ {r}
  <2>1. /\ Distinct(Remove(work_files, r))
        /\ Elems(Remove(work_files, r)) = Elems(work_files) \ {r}
    BY <1>3, RemoveElems DEF HeldInv
  <2> QED
    BY <1>2, <2>1 DEF Distinct, Elems
<1>6. Elems(error)' = Elems(error) /\ Elems(no_change)' = Elems(no_change)
  BY <1>2 DEF Elems
<1>7. /\ Reachable = Elems(work_files) \cup Pending \cup Elems(error) \cup Elems(no_change)
      /\ Reachable' = Elems(work_files)' \cup Pending' \cup Elems(error)' \cup Elems(no_change)'
  BY EmptyElems DEF Reachable, Pending
<1>8. Reachable' = Reachable \ {r} /\ Reachable \subseteq Refs
  <2>1. r \notin Elems(error) \cup Elems(no_change)
    BY <1>1 DEF HeldInv
  <2>2. Reachable \subseteq Refs
    BY <1>3, <1>7 DEF Pending, Elems
  <2> QED
    BY <1>1, <1>5, <1>6, <1>7, <2>1, <2>2
<1>9. \A s \in Reachable' : status'[s] \in FileSpecStatus
  BY <1>1, <1>3, <1>8 DEF HeldInv
<1>10. \A s \in Reachable' \ Pending' : prev_spec'[s] = NULL /\ next_spec'[s] = NULL
  BY <1>1, <1>2, <1>3, <1>8 DEF HeldInv
<1>11. Pending' \cap (Elems(error)' \cup Elems(no_change)') = {}
  BY <1>1, <1>6 DEF HeldInv
<1> QED
  BY <1>4, <1>5, <1>9, <1>10, <1>11 DEF HeldInv
-----------------------------------------------------------------------------
(***************************************************************************)
(* A listing: when no list leads to an old FileSpec, the new ones have the *)
(* names that were printed, and all memory is new.                         *)
(***************************************************************************)
LEMMA SelectionFacts ==
  ASSUME scenario \in DOMAIN Scenarios, NEW kept \in Selections(Len(Listing)),
         NEW names, names = [i \in DOMAIN kept |-> Listing[kept[i]]]
  PROVE  /\ names \in Seq(Listable) /\ Len(names) <= MaxSpecs
         /\ \A i, j \in 1 .. Len(names) : names[i] = names[j] => i = j
<1>1. /\ Listing \in Seq(Listable) /\ Len(Listing) <= MaxSpecs /\ MaxSpecs \in Nat
      /\ \A i, j \in 1 .. Len(Listing) : Listing[i] = Listing[j] => i = j
  BY ScenarioAssumption, DataAssumption DEF Listing
<1>2. PICK n : n = Len(Listing)
  OBVIOUS
<1>3. n \in Nat /\ n <= MaxSpecs
  BY <1>1, <1>2
<1>4. PICK k \in 0 .. n : /\ kept \in [1 .. k -> 1 .. n]
                          /\ \A i, j \in 1 .. k : i < j => kept[i] < kept[j]
  BY <1>2 DEF Selections
<1>5. \A i, j \in 1 .. k : kept[i] = kept[j] => i = j
  <2> SUFFICES ASSUME NEW i \in 1 .. k, NEW j \in 1 .. k, kept[i] = kept[j], i # j PROVE FALSE
    OBVIOUS
  <2>1. kept[i] \in Int /\ kept[j] \in Int /\ (i < j \/ j < i)
    BY <1>4
  <2> QED
    BY <1>4, <2>1
<1>6. names \in [1 .. k -> Listable] /\ \A i \in 1 .. k : names[i] = Listing[kept[i]]
  BY <1>1, <1>2, <1>4
<1>7. names \in Seq(Listable) /\ Len(names) = k
  <2>1. names \in Seq(Listable)
    BY <1>3, <1>4, <1>6, SeqDef
  <2>2. DOMAIN names = 1 .. k /\ DOMAIN names = 1 .. Len(names) /\ Len(names) \in Nat
    BY <1>6, <2>1, LenProperties
  <2> QED
    BY <1>4, <2>1, <2>2
<1>8. k <= MaxSpecs
  BY <1>1, <1>3, <1>4
<1>9. ASSUME NEW i \in 1 .. k, NEW j \in 1 .. k, names[i] = names[j] PROVE i = j
  <2>1. /\ kept[i] \in 1 .. Len(Listing) /\ kept[j] \in 1 .. Len(Listing)
        /\ Listing[kept[i]] = Listing[kept[j]]
    BY <1>2, <1>4, <1>6, <1>9
  <2>2. kept[i] = kept[j]
    BY <1>1, <2>1
  <2> QED
    BY <1>5, <2>2
<1> QED
  BY <1>7, <1>8, <1>9

LEMMA NewSpecsFresh ==
  ASSUME Reachable = {}, NEW names \in Seq(Listable), Len(names) <= MaxSpecs,
         \A i, j \in 1 .. Len(names) : names[i] = names[j] => i = j,
         NewSpecs(names)
  PROVE  FreshFiles' /\ printed' = names
<1>1. NotReused = {} /\ MaxSpecs \in Nat /\ Len(names) \in Nat
  BY DataAssumption DEF NotReused
<1> DEFINE base == CHOOSE n \in 0 .. MaxSpecs :
                     NotReused \subseteq 1 .. n /\ (n = 0 \/ n \in NotReused)
<1>2. base = 0
  <2>1. 0 \in 0 .. MaxSpecs /\ NotReused \subseteq 1 .. 0
    BY <1>1
  <2>2. base \in 0 .. MaxSpecs /\ NotReused \subseteq 1 .. base /\ (base = 0 \/ base \in NotReused)
    BY <2>1
  <2> QED
    BY <1>1, <2>2
<1> HIDE DEF base
<1>3. /\ work_files' = [i \in 1 .. Len(names) |-> base + i]
      /\ printed' = names
      /\ old_name' = [s \in Refs |-> IF s \in base + 1 .. base + Len(names) THEN names[s - base]
                                     ELSE IF s \in NotReused THEN old_name[s] ELSE NoFile]
      /\ new_name' = [s \in Refs |-> IF s \in base + 1 .. base + Len(names) THEN names[s - base]
                                     ELSE IF s \in NotReused THEN new_name[s] ELSE NoFile]
      /\ status' = [s \in Refs |-> IF s \in base + 1 .. base + Len(names) THEN "UNCHECKED"
                                   ELSE IF s \in NotReused THEN status[s] ELSE "FREE"]
      /\ prev_spec' = [s \in Refs |-> IF s \in NotReused THEN prev_spec[s] ELSE NULL]
      /\ next_spec' = [s \in Refs |-> IF s \in NotReused THEN next_spec[s] ELSE NULL]
  BY DEF NewSpecs, base
<1>4. 1 .. Len(names) \subseteq Refs /\ Refs \subseteq Int
  BY <1>1 DEF Refs
<1>5. /\ base + 1 .. base + Len(names) = 1 .. Len(names)
      /\ \A i \in Int : base + i = i /\ i - base = i
  BY <1>1, <1>2
<1>6. Listed' = 1 .. Len(names)
  BY <1>3 DEF Listed
<1>7. work_files' = [i \in Listed' |-> i]
  <2>1. \A i \in 1 .. Len(names) : base + i = i
    BY <1>5
  <2> QED
    BY <1>3, <1>6, <2>1
<1>8. /\ old_name' = [s \in Refs |-> IF s \in Listed' THEN printed'[s] ELSE NoFile]
      /\ new_name' = [s \in Refs |-> IF s \in Listed' THEN names[s] ELSE NoFile]
  <2>1. \A s \in Refs : names[s - base] = names[s]
    BY <1>4, <1>5
  <2> QED
    BY <1>1, <1>3, <1>5, <1>6, <2>1
<1>9. status' = [s \in Refs |-> IF s \in Listed' THEN "UNCHECKED" ELSE "FREE"]
  BY <1>1, <1>3, <1>5, <1>6
<1>10. prev_spec' = [s \in Refs |-> NULL] /\ next_spec' = [s \in Refs |-> NULL]
  BY <1>1, <1>3
<1>11. names \in [Listed' -> FileNames]
  BY <1>6, PlanAssumption
<1>12. FreshSpecs(names)'
  BY <1>7, <1>8, <1>9, <1>10 DEF FreshSpecs
<1>13. Len(printed') <= MaxSpecs /\ \A i, j \in Listed' : printed'[i] = printed'[j] => i = j
  BY <1>3, <1>6
<1> QED
  BY <1>3, <1>11, <1>12, <1>13 DEF FreshFiles

-----------------------------------------------------------------------------
(***************************************************************************)
(* An edit.  The files to edit are all the listed ones, or, in an edit     *)
(* continued after a new listing, none.                                    *)
(***************************************************************************)
\* What FreshSpecs says of the state.
LEMMA FreshFacts ==
  ASSUME FreshFiles, SessionTypeOK
  PROVE  /\ Len(printed) \in Nat /\ Listed \subseteq Refs /\ Len(work_files) = Len(printed)
         /\ work_files = [i \in Listed |-> i] /\ Elems(work_files) = Listed
         /\ old_name = [s \in Refs |-> IF s \in Listed THEN printed[s] ELSE NoFile]
         /\ \A s \in Listed : new_name[s] \in FileNames
         /\ \A s \in Refs \ Listed : new_name[s] = NoFile
         /\ status = [s \in Refs |-> IF s \in Listed THEN "UNCHECKED" ELSE "FREE"]
         /\ prev_spec = [s \in Refs |-> NULL] /\ next_spec = [s \in Refs |-> NULL]
<1>1. PICK names \in [Listed -> FileNames] : FreshSpecs(names)
  BY DEF FreshFiles
<1>2. printed \in Seq(Listable) /\ MaxSpecs \in Nat /\ Len(printed) <= MaxSpecs
  BY DataAssumption DEF SessionTypeOK, PlanTypeOK, FreshFiles
<1>3. Len(printed) \in Nat /\ Listed \subseteq Refs
  BY <1>2 DEF Listed, Refs
<1>4. work_files = [i \in Listed |-> i] /\ work_files \in Seq(Refs)
  BY <1>1 DEF FreshSpecs, SessionTypeOK, PlanTypeOK, DataTypeOK
<1>5. Len(work_files) = Len(printed)
  <2>1. DOMAIN work_files = 1 .. Len(work_files) /\ Len(work_files) \in Nat
        /\ DOMAIN work_files = 1 .. Len(printed)
    BY <1>4, LenProperties DEF Listed
  <2> QED
    BY <1>3, <2>1
<1>6. Elems(work_files) = Listed
  BY <1>4, <1>5 DEF Elems, Listed
<1> QED
  BY <1>1, <1>3, <1>4, <1>5, <1>6 DEF FreshSpecs

\* FreshSpecs from its parts.
LEMMA FreshFrom ==
  ASSUME FreshFiles, SessionTypeOK,
         UNCHANGED <<old_name, prev_spec, next_spec, work_files, printed, status>>,
         new_name' \in [Refs -> FileNames \cup {NoFile}],
         \A s \in Listed : new_name'[s] \in FileNames,
         \A s \in Refs \ Listed : new_name'[s] = NoFile
  PROVE  FreshFiles'
<1>0. PICK names : names = [s \in Listed |-> new_name'[s]]
  OBVIOUS
<1>1. names \in [Listed -> FileNames]
  BY <1>0
<1>2. Listed' = Listed
  BY DEF Listed
<1>3. new_name' = [s \in Refs |-> IF s \in Listed THEN names[s] ELSE NoFile]
  BY <1>0
<1>4. FreshSpecs(names)'
  BY <1>2, <1>3, FreshFacts DEF FreshSpecs
<1> QED
  BY <1>1, <1>2, <1>4 DEF FreshFiles

\* The names typed in the editor go to the files of the list.
LEMMA RenamedFacts ==
  ASSUME FreshFiles, SessionTypeOK, scenario \in DOMAIN Scenarios,
         NEW files, files \in {<<>>, work_files},
         NEW k \in 0 .. Len(files), NEW names \in [1 .. Len(files) -> NewNames]
  PROVE  /\ Renamed(files, k, names) \in [Refs -> FileNames \cup {NoFile}]
         /\ \A s \in Listed : Renamed(files, k, names)[s] \in FileNames
         /\ \A s \in Refs \ Listed : Renamed(files, k, names)[s] = NoFile
<1>1. /\ Listed \subseteq Refs /\ Len(work_files) = Len(printed) /\ Len(printed) \in Nat
      /\ work_files = [i \in Listed |-> i]
      /\ \A s \in Listed : new_name[s] \in FileNames
      /\ \A s \in Refs \ Listed : new_name[s] = NoFile
  BY FreshFacts
<1>2. new_name \in [Refs -> FileNames \cup {NoFile}]
  BY DEF SessionTypeOK, PlanTypeOK, DataTypeOK
<1>3. NewNames \subseteq FileNames
  BY ScenarioAssumption DEF NewNames
<1>4. \A i \in 1 .. k : i \in 1 .. Len(files) /\ files[i] \in Listed
  BY <1>1 DEF Listed
<1>5. ASSUME NEW s, \E i \in 1 .. k : files[i] = s
      PROVE  s \in Listed /\ names[CHOOSE i \in 1 .. k : files[i] = s] \in FileNames
  <2> DEFINE c == CHOOSE i \in 1 .. k : files[i] = s
  <2>1. c \in 1 .. k /\ files[c] = s
    BY <1>5
  <2> HIDE DEF c
  <2>2. c \in 1 .. Len(files) /\ s \in Listed
    BY <1>4, <2>1
  <2> QED
    BY <1>3, <2>2 DEF c
<1> QED
  BY <1>1, <1>2, <1>5 DEF Renamed

\* An edit that breaks off has changed some new names.
LEMMA BrokenEditFresh ==
  ASSUME FreshFiles, SessionTypeOK, scenario \in DOMAIN Scenarios,
         NEW files, files \in {<<>>, work_files}, EditBroken(files)
  PROVE  FreshFiles' /\ new_name' \in [Refs -> FileNames \cup {NoFile}]
<1>1. PICK names \in [1 .. Len(files) -> NewNames], k \in 0 .. Len(files) :
        new_name' = Renamed(files, k, names)
  BY DEF EditBroken
<1>2. /\ new_name' \in [Refs -> FileNames \cup {NoFile}]
      /\ \A s \in Listed : new_name'[s] \in FileNames
      /\ \A s \in Refs \ Listed : new_name'[s] = NoFile
  BY <1>1, RenamedFacts
<1>3. UNCHANGED <<old_name, prev_spec, next_spec, work_files, printed, status>>
  BY DEF EditBroken, idleVars, envVars
<1> QED
  BY <1>2, <1>3, FreshFrom

\* After an edit that succeeds, make_plan can start.
LEMMA EditStarts ==
  ASSUME SessionTypeOK, FreshFiles, StagesInv, ~plan, stage # "plan",
         NEW files, files \in {<<>>, work_files}, EditSucceeds(files)
  PROVE  PlanStart'
<1>1. PICK names \in [1 .. Len(files) -> NewNames] : new_name' = Renamed(files, Len(files), names)
  BY DEF EditSucceeds
<1>2. /\ scenario \in DOMAIN Scenarios /\ external = 0 /\ InitLocals("planned")
      /\ printed \in Seq(Listable) /\ work_files \in Seq(Refs)
      /\ fs \in [FileNames -> FileNames \cup {NoFile, Partial}] /\ options \in Setups
  BY DEF StagesInv, SessionTypeOK, PlanTypeOK, DataTypeOK
<1>3. Len(files) \in 0 .. Len(files)
  BY <1>2
<1>4. /\ new_name' \in [Refs -> FileNames \cup {NoFile}]
      /\ \A s \in Listed : new_name'[s] \in FileNames
      /\ \A s \in Refs \ Listed : new_name'[s] = NoFile
  BY <1>1, <1>2, <1>3, RenamedFacts
<1>5. UNCHANGED <<fs, old_name, prev_spec, next_spec, work_files, external, options, printed,
                  scenario, it, map, pending, changed, map_new, s1, s2, prev_circular, tmp_count>>
  BY DEF EditSucceeds, sortVars, crossVars, envVars
<1>6. status' = status
  <2>1. /\ status = [s \in Refs |-> IF s \in Listed THEN "UNCHECKED" ELSE "FREE"]
        /\ Elems(work_files) = Listed
    BY FreshFacts
  <2>2. Elems(files) \subseteq Listed
    BY <2>1, EmptyElems
  <2>3. status' = [s \in Refs |-> IF s \in Elems(files) THEN "UNCHECKED" ELSE status[s]]
    BY DEF EditSucceeds
  <2> QED
    BY <2>1, <2>2, <2>3
<1>7. FreshFiles'
  BY <1>4, <1>5, <1>6, FreshFrom
<1>8. EmptyPlan' /\ InitLocals("previous_scan")'
  BY <1>2, <1>5 DEF EditSucceeds, EmptyPlan, InitLocals
<1> QED
  BY <1>2, <1>5, <1>7, <1>8 DEF PlanStart, FreshFiles, Listed
-----------------------------------------------------------------------------
(***************************************************************************)
(* Every step of a session keeps its invariant.                            *)
(***************************************************************************)
SessionUnchanged == UNCHANGED <<dataVars, localVars, envVars, loopVars>>

OthersTyped ==
  /\ stage \in {"list", "free", "edit", "plan", "run", "apply", "prompt", "exited"}
  /\ {interactive, plan, accept_reedit, exit_warned, importing} \subseteq BOOLEAN
  /\ edit_file_list \in Seq(Refs)
  /\ lists \in 0 .. MaxLists /\ edits \in 0 .. MaxEdits

\* The types of all variables, from those of the data.
LEMMA TypesFrom ==
  ASSUME SessionTypeOK, DataTypeOK', printed' \in Seq(Listable),
         UNCHANGED <<localVars, loopVars, external, scenario>>
  PROVE  PlanTypeOK' /\ ApplyTypeOK'
<1>1. /\ UNCHANGED <<pc, it, map, pending, map_new, s1, s2, prev_circular, tmp_count, pos, external,
                     scenario>>
      /\ changed' = changed /\ applying' = applying /\ fail' = fail
  BY DEF localVars, sortVars, crossVars, loopVars
<1>2. changed' \in BOOLEAN /\ applying' \in BOOLEAN /\ fail' \in BOOLEAN
  <2>1. changed \in BOOLEAN /\ applying \in BOOLEAN /\ fail \in BOOLEAN
    BY DEF SessionTypeOK, PlanTypeOK, ApplyTypeOK
  <2> QED
    BY <1>1, <2>1
<1>3. /\ pc' \in Scans \cup {"topologic_sort", "follow", "temporary", "collect", "planned"}
      /\ it' \in Nat \ {0} /\ map' \in [FileNames -> Refs \cup {NULL}] /\ pending' \in Seq(Refs)
      /\ map_new' \in [FileNames -> Refs \cup {NULL}]
      /\ {s1', s2', prev_circular'} \subseteq Refs \cup {NULL} /\ tmp_count' \in 0 .. MaxTmp
      /\ external' \in 0 .. Scenarios[scenario'].external /\ pos' \in Nat \ {0}
  BY <1>1 DEF SessionTypeOK, PlanTypeOK, ApplyTypeOK
<1>4. PlanTypeOK'
  <2>1. Scans' = Scans
    BY DEF Scans, NextScan
  <2> QED
    BY <1>2, <1>3, <2>1 DEF PlanTypeOK
<1>5. ApplyTypeOK'
  BY <1>2, <1>3 DEF ApplyTypeOK
<1> QED
  BY <1>4, <1>5

\* Types stay if only stage and the like change.
LEMMA TypesStay ==
  ASSUME SessionTypeOK, SessionUnchanged
  PROVE  PlanTypeOK' /\ ApplyTypeOK'
<1>1. DataTypeOK'
  BY DEF SessionTypeOK, SessionUnchanged, PlanTypeOK, DataTypeOK, dataVars, fieldVars, planVars, envVars
<1>2. printed' \in Seq(Listable)
  BY DEF SessionTypeOK, SessionUnchanged, PlanTypeOK, envVars
<1> QED
  BY <1>1, <1>2, TypesFrom DEF SessionUnchanged, envVars

\* The program does nothing that it keeps, except to forget an edit.
LEMMA QuietStep ==
  ASSUME SessionInv, stage \notin {"plan", "apply", "free"}, SessionUnchanged,
         UNCHANGED <<plan, goal>>, OthersTyped',
         stage' \in {stage, "prompt", "exited"}, edit_file_list' \in {edit_file_list, <<>>}
  PROVE  SessionInv'
<1> USE DEF SessionUnchanged, dataVars, fieldVars, planVars, localVars, sortVars, crossVars, envVars,
            loopVars
<1>1. SessionTypeOK'
  <2>1. PlanTypeOK' /\ ApplyTypeOK' /\ goal' = goal
    BY TypesStay DEF SessionInv
  <2>2. goal' \in [FileNames -> FileNames \cup {NoFile, Partial}]
    BY <2>1 DEF SessionInv, SessionTypeOK
  <2> QED
    BY <2>1, <2>2 DEF SessionTypeOK, OthersTyped
<1>2. StagesInv'
  BY DEF SessionInv, StagesInv, InitLocals, EmptyPlan, Commands
<1>3. ~plan' /\ stage' # "free" => FreshFiles'
  BY FreshStays DEF SessionInv
<1>4. plan' /\ stage' # "plan" => HeldInv'
  <2> SUFFICES ASSUME plan PROVE HeldInv'
    OBVIOUS
  <2>1. HeldInv /\ edit_file_list = <<>>
    BY DEF SessionInv, StagesInv
  <2>2. [ApplyNext]_applyVars
    BY DEF applyVars
  <2> QED
    BY <2>1, <2>2, HeldStays
<1> QED
  BY <1>1, <1>2, <1>3, <1>4 DEF SessionInv

\* Nothing changes at all.
LEMMA StutterStep ==
  ASSUME SessionInv, UNCHANGED vars
  PROVE  SessionInv'
<1> USE DEF vars, idleVars, sessionVars, editVars, countVars
<1>1. SessionUnchanged /\ OthersTyped'
  BY DEF SessionUnchanged, SessionInv, SessionTypeOK, OthersTyped, envVars, MaxLists, MaxEdits
<1>2. SessionTypeOK'
  <2>1. PlanTypeOK' /\ ApplyTypeOK' /\ goal' = goal
    BY <1>1, TypesStay DEF SessionInv
  <2>2. goal' \in [FileNames -> FileNames \cup {NoFile, Partial}]
    BY <2>1 DEF SessionInv, SessionTypeOK
  <2> QED
    BY <1>1, <2>1, <2>2 DEF SessionTypeOK, OthersTyped
<1>3. StagesInv'
  BY DEF SessionInv, StagesInv, InitLocals, EmptyPlan, Commands, dataVars, planVars, localVars,
         sortVars, crossVars, envVars, loopVars
<1>4. ~plan' /\ stage' # "free" => FreshFiles'
  BY FreshStays DEF SessionInv, dataVars, envVars
<1>5. stage' = "plan" => MakingInv'
  BY NextMaking DEF SessionInv, makePlanVars
<1>6. plan' /\ stage' # "plan" => HeldInv'
  <2>1. [ApplyNext]_applyVars
    BY DEF applyVars
  <2> QED
    BY <2>1, HeldStays DEF SessionInv, dataVars
<1> QED
  BY <1>2, <1>3, <1>4, <1>5, <1>6 DEF SessionInv

\* A listing or an import begins: the old plan goes, or there was none.
LEMMA ListStep ==
  ASSUME SessionInv, EachPlanFresh, (stage = "list" /\ list_files) \/ list_command \/ import_command
  PROVE  SessionInv'
<1> USE DEF idleVars, editVars, countVars
<1>1. CASE (stage = "list" /\ list_files) \/ list_command
  <2>1. /\ stage \in {"list", "prompt"} /\ list_files
    BY <1>1 DEF list_command, AtPrompt
  <2>2. /\ lists < MaxLists /\ lists' = lists + 1 /\ stage' = "free" /\ importing' = FALSE
        /\ edit_file_list' = <<>> /\ plan' = FALSE
        /\ ok' = <<>> /\ error' = <<>> /\ no_change' = <<>>
        /\ UNCHANGED <<fs, fieldVars, work_files, localVars, envVars, loopVars, interactive,
                       accept_reedit, exit_warned, edits, goal>>
    BY <2>1 DEF list_files
  <2>3. DataTypeOK'
    BY <2>2 DEF SessionInv, SessionTypeOK, PlanTypeOK, DataTypeOK, fieldVars, envVars
  <2>4. PlanTypeOK' /\ ApplyTypeOK'
    BY <2>2, <2>3, TypesFrom DEF SessionInv, SessionTypeOK, PlanTypeOK, envVars
  <2>5. lists' \in 0 .. MaxLists' /\ edits' \in 0 .. MaxEdits'
    <3>1. scenario' = scenario /\ lists \in 0 .. MaxLists /\ edits \in 0 .. MaxEdits
          /\ scenario \in DOMAIN Scenarios
      BY <2>2 DEF SessionInv, SessionTypeOK, StagesInv, envVars
    <3>2. MaxLists \in Nat /\ MaxLists' = MaxLists /\ MaxEdits' = MaxEdits
      BY <3>1, SessionAssumption DEF MaxLists, MaxEdits
    <3> QED
      BY <2>2, <3>1, <3>2
  <2>6. SessionTypeOK'
    <3>1. /\ interactive' \in BOOLEAN /\ accept_reedit' \in BOOLEAN /\ exit_warned' \in BOOLEAN
          /\ goal' \in [FileNames -> FileNames \cup {NoFile, Partial}]
      <4>1. /\ interactive \in BOOLEAN /\ accept_reedit \in BOOLEAN /\ exit_warned \in BOOLEAN
            /\ goal \in [FileNames -> FileNames \cup {NoFile, Partial}]
        BY DEF SessionInv, SessionTypeOK
      <4> QED
        BY <2>2, <4>1
    <3>2. edit_file_list' \in Seq(Refs)
      BY <2>2
    <3> QED
      BY <2>2, <2>4, <2>5, <3>1, <3>2 DEF SessionTypeOK
  <2>7. StagesInv'
    BY <2>1, <2>2 DEF SessionInv, StagesInv, EmptyPlan, InitLocals, localVars, sortVars,
           crossVars, envVars, loopVars, Commands
  <2> QED
    BY <2>2, <2>6, <2>7 DEF SessionInv
<1>2. CASE import_command
  <2>1. /\ stage = "prompt" /\ ~plan /\ "first import" \in Commands /\ lists < MaxLists
        /\ lists' = lists + 1 /\ stage' = "free" /\ importing' = TRUE
        /\ UNCHANGED <<dataVars, localVars, envVars, loopVars, interactive, plan, editVars,
                       exit_warned, edits, goal>>
    BY <1>2 DEF import_command, AtPromptOnceOr, EachPlanFresh
  <2>2. edit_file_list = <<>>
    BY <2>1 DEF SessionInv, StagesInv, EachPlanFresh
  <2>3. PlanTypeOK' /\ ApplyTypeOK'
    BY <2>1, TypesStay DEF SessionInv, SessionUnchanged
  <2>5. lists' \in 0 .. MaxLists' /\ edits' \in 0 .. MaxEdits'
    <3>1. scenario' = scenario /\ lists \in 0 .. MaxLists /\ edits \in 0 .. MaxEdits
          /\ scenario \in DOMAIN Scenarios
      BY <2>1 DEF SessionInv, SessionTypeOK, StagesInv, envVars
    <3>2. MaxLists \in Nat /\ MaxLists' = MaxLists /\ MaxEdits' = MaxEdits
      BY <3>1, SessionAssumption DEF MaxLists, MaxEdits
    <3> QED
      <4>1. lists' = lists + 1 /\ edits' = edits /\ lists < MaxLists
        BY <2>1
      <4> QED
        BY <3>1, <3>2, <4>1
  <2>6. SessionTypeOK'
    BY <2>1, <2>3, <2>5 DEF SessionInv, SessionTypeOK
  <2>7. StagesInv'
    BY <2>1, <2>2 DEF SessionInv, StagesInv, EmptyPlan, InitLocals, localVars, sortVars,
           crossVars, envVars, loopVars, Commands, dataVars, planVars
  <2> QED
    BY <2>1, <2>6, <2>7 DEF SessionInv
<1> QED
  BY <1>1, <1>2

\* One of the old FileSpecs is freed.
LEMMA FreeStep ==
  ASSUME SessionInv, FreeWorkFile
  PROVE  SessionInv'
<1> USE DEF idleVars, sessionVars, editVars, countVars
<1> DEFINE s == Head(work_files)
<1>1. /\ stage = "free" /\ work_files # <<>> /\ work_files' = Tail(work_files)
      /\ UNCHANGED <<fs, planVars, idleVars, sessionVars>>
      /\ free_file_spec(s)
  BY DEF FreeWorkFile
<1>2. /\ work_files \in Seq(Refs) /\ prev_spec \in [Refs -> Refs \cup {NULL}]
      /\ next_spec \in [Refs -> Refs \cup {NULL}]
      /\ status \in [Refs -> FileSpecStatus \cup MemoryStatus]
  BY DEF SessionInv, SessionTypeOK, PlanTypeOK, DataTypeOK
<1>3. s \in Refs /\ work_files' \in Seq(Refs)
  BY <1>1, <1>2
<1> HIDE DEF s
<1>4. /\ prev_spec' \in [Refs -> Refs \cup {NULL}] /\ next_spec' \in [Refs -> Refs \cup {NULL}]
      /\ status' \in [Refs -> FileSpecStatus \cup MemoryStatus]
      /\ UNCHANGED <<old_name, new_name>>
  <2>1. next_spec' = next_spec \/ next_spec' = [next_spec EXCEPT ![prev_spec[s]] = next_spec[s]]
    BY <1>1 DEF free_file_spec
  <2>2. prev_spec' = prev_spec \/ prev_spec' = [prev_spec EXCEPT ![next_spec[s]] = prev_spec[s]]
    BY <1>1 DEF free_file_spec
  <2>3. status' = [status EXCEPT ![s] = "FREED"] /\ UNCHANGED <<old_name, new_name>>
    BY <1>1 DEF free_file_spec
  <2>4. prev_spec[s] \in Refs \cup {NULL} /\ next_spec[s] \in Refs \cup {NULL}
    BY <1>2, <1>3
  <2> QED
    BY <1>2, <2>1, <2>2, <2>3, <2>4 DEF MemoryStatus
<1>5. DataTypeOK'
  BY <1>1, <1>3, <1>4 DEF SessionInv, SessionTypeOK, PlanTypeOK, DataTypeOK, planVars, envVars
<1>6. PlanTypeOK' /\ ApplyTypeOK'
  BY <1>1, <1>5, TypesFrom DEF SessionInv, SessionTypeOK, PlanTypeOK, envVars
<1>7. SessionTypeOK'
  BY <1>1, <1>6 DEF SessionInv, SessionTypeOK, envVars, MaxLists, MaxEdits
<1>8. StagesInv'
  BY <1>1 DEF SessionInv, StagesInv, EmptyPlan, InitLocals, localVars, sortVars,
         crossVars, envVars, loopVars, Commands, planVars
<1> QED
  BY <1>1, <1>7, <1>8 DEF SessionInv, StagesInv

\* The new FileSpecs take the place of the old ones.
LEMMA TakeStep ==
  ASSUME SessionInv, TakeListing
  PROVE  SessionInv'
<1> USE DEF editVars, countVars
<1>1. PICK kept \in Selections(Len(Listing)) :
        NewSpecs([i \in DOMAIN kept |-> Listing[kept[i]]])
  BY DEF TakeListing
<1>2. PICK names : names = [i \in DOMAIN kept |-> Listing[kept[i]]]
  OBVIOUS
<1>3. /\ stage = "free" /\ work_files = <<>> /\ stage' \in {"prompt", "edit", "exited"}
      /\ importing' = FALSE
      /\ UNCHANGED <<fs, planVars, localVars, external, options, scenario, loopVars,
                     interactive, plan, editVars, exit_warned, countVars, goal>>
  BY DEF TakeListing
<1>4. /\ SessionTypeOK /\ StagesInv /\ scenario \in DOMAIN Scenarios /\ ~plan /\ EmptyPlan
      /\ edit_file_list = <<>>
  BY <1>3 DEF SessionInv, StagesInv
<1>5. Reachable = {}
  BY <1>3, <1>4, EmptyElems DEF Reachable, EmptyPlan
<1>6. /\ names \in Seq(Listable) /\ Len(names) <= MaxSpecs
      /\ \A i, j \in 1 .. Len(names) : names[i] = names[j] => i = j
  BY <1>2, <1>4, SelectionFacts
<1>7. NewSpecs(names)
  BY <1>1, <1>2
<1>8. FreshFiles' /\ printed' = names
  BY <1>5, <1>6, <1>7, NewSpecsFresh
<1>9. /\ Len(names) \in Nat /\ Listed' = 1 .. Len(names) /\ Listed' \subseteq Refs
      /\ Listable \subseteq FileNames
  BY <1>6, <1>8, DataAssumption, PlanAssumption DEF Listed, Refs
<1>10. PICK new \in [Listed' -> FileNames] : FreshSpecs(new)'
  BY <1>8 DEF FreshFiles
<1>11. /\ old_name' \in [Refs -> FileNames \cup {NoFile}]
       /\ new_name' \in [Refs -> FileNames \cup {NoFile}]
       /\ status' \in [Refs -> FileSpecStatus \cup MemoryStatus]
       /\ prev_spec' \in [Refs -> Refs \cup {NULL}] /\ next_spec' \in [Refs -> Refs \cup {NULL}]
  <2>1. \A s \in Listed' : printed'[s] \in FileNames
    BY <1>6, <1>8, <1>9
  <2> QED
    BY <1>10, <2>1 DEF FreshSpecs, FileSpecStatus, MemoryStatus
<1>12. work_files' \in Seq(Refs)
  <2>1. work_files' \in [1 .. Len(names) -> Refs]
    BY <1>9, <1>10 DEF FreshSpecs
  <2> QED
    BY <1>9, <2>1, SeqDef
<1>13. DataTypeOK'
  BY <1>3, <1>4, <1>11, <1>12 DEF SessionTypeOK, PlanTypeOK, DataTypeOK, planVars
<1>14. PlanTypeOK' /\ ApplyTypeOK'
  BY <1>3, <1>4, <1>6, <1>8, <1>13, TypesFrom
<1>15. SessionTypeOK'
  BY <1>3, <1>4, <1>14 DEF SessionTypeOK, MaxLists, MaxEdits
<1>16. StagesInv'
  BY <1>3, <1>4 DEF StagesInv, EmptyPlan, InitLocals, localVars, sortVars,
         crossVars, loopVars, Commands, planVars
<1> QED
  BY <1>3, <1>4, <1>8, <1>15, <1>16 DEF SessionInv
\* The files are edited: the editor succeeds, or the edit is to be continued.
LEMMA EditStep ==
  ASSUME SessionInv, stage \in {"edit", "prompt"}, ~plan, edit_files(TRUE)
  PROVE  SessionInv'
<1> USE DEF editVars, countVars, idleVars
<1> DEFINE files == FilesToEdit(TRUE)
<1>1. /\ SessionTypeOK /\ StagesInv /\ FreshFiles /\ scenario \in DOMAIN Scenarios
      /\ edits < MaxEdits /\ edits' = edits + 1 /\ ~applying
  BY DEF SessionInv, StagesInv, edit_files
<1>2. files \in {<<>>, work_files}
  BY <1>1 DEF FilesToEdit, StagesInv
<1> HIDE DEF files
<1>3. work_files \in Seq(Refs) /\ files \in Seq(Refs)
  <2>1. work_files \in Seq(Refs) /\ <<>> \in Seq(Refs)
    BY <1>1 DEF SessionTypeOK, PlanTypeOK, DataTypeOK
  <2> QED
    BY <1>2, <2>1
<1>4. /\ lists \in 0 .. MaxLists /\ edits \in 0 .. MaxEdits /\ MaxEdits \in Nat
      /\ scenario' = scenario => /\ MaxLists' = MaxLists /\ MaxEdits' = MaxEdits
                                 /\ edits' \in 0 .. MaxEdits' /\ Commands' = Commands
  <2>1. lists \in 0 .. MaxLists /\ edits \in 0 .. MaxEdits /\ MaxEdits \in Nat
    BY <1>1, SessionAssumption DEF SessionTypeOK, MaxEdits
  <2>2. edits' \in 0 .. MaxEdits
    BY <1>1, <2>1
  <2> QED
    BY <2>1, <2>2 DEF MaxEdits, MaxLists, Commands
<1>5. /\ interactive \in BOOLEAN /\ exit_warned \in BOOLEAN /\ importing \in BOOLEAN
      /\ accept_reedit \in BOOLEAN /\ plan \in BOOLEAN /\ edit_file_list \in Seq(Refs)
      /\ goal \in [FileNames -> FileNames \cup {NoFile, Partial}]
  BY <1>1 DEF SessionTypeOK
<1>6. CASE EditSucceeds(files)
  <2>1. PlanStart'
    BY <1>1, <1>2, <1>6, EditStarts
  <2>2. MakingInv'
    <3>1. PlanStart => MakingInv
      BY StartMaking
    <3>2. PlanStart' => MakingInv'
      BY StartMaking, PTL
    <3> QED
      BY <2>1, <3>2
  <2>3. PlanTypeOK' /\ DataTypeOK'
    BY <2>2 DEF MakingInv, PlanInv, TypeInv, PlanTypeOK
  <2>4. /\ stage' = "plan" /\ plan' = TRUE /\ accept_reedit' = FALSE /\ edit_file_list' = <<>>
        /\ UNCHANGED <<envVars, loopVars, interactive, exit_warned, importing, lists, goal>>
    BY <1>6 DEF EditSucceeds
  <2>5. ApplyTypeOK'
    <3>1. applying \in BOOLEAN /\ fail \in BOOLEAN /\ pos \in Nat \ {0}
      BY <1>1 DEF SessionTypeOK, ApplyTypeOK
    <3> QED
      BY <2>3, <2>4, <3>1 DEF ApplyTypeOK, loopVars
  <2>6. scenario' = scenario /\ external' = external
    BY <2>4 DEF envVars
  <2>7. SessionTypeOK'
    <3>1. /\ interactive' \in BOOLEAN /\ exit_warned' \in BOOLEAN /\ importing' \in BOOLEAN
          /\ goal' \in [FileNames -> FileNames \cup {NoFile, Partial}]
      BY <1>5, <2>4
    <3>2. edit_file_list' \in Seq(Refs)
      BY <2>4
    <3>3. lists' \in 0 .. MaxLists' /\ edits' \in 0 .. MaxEdits'
      BY <1>4, <2>4, <2>6
    <3> QED
      BY <2>3, <2>4, <2>5, <3>1, <3>2, <3>3 DEF SessionTypeOK
  <2>8. StagesInv'
    BY <1>1, <2>4, <2>6 DEF StagesInv, loopVars
  <2> QED
    BY <2>2, <2>4, <2>7, <2>8 DEF SessionInv
<1>7. CASE EditNotStarted
  <2>1. /\ SessionUnchanged /\ edit_file_list' = <<>> /\ stage' = "prompt" /\ interactive' = TRUE
        /\ UNCHANGED <<plan, accept_reedit, exit_warned, importing, lists, goal>>
    BY <1>7 DEF EditNotStarted, ToPrompt, SessionUnchanged
  <2>2. scenario' = scenario
    BY <2>1 DEF SessionUnchanged, envVars
  <2>3. OthersTyped'
    <3>1. /\ accept_reedit' \in BOOLEAN /\ exit_warned' \in BOOLEAN /\ importing' \in BOOLEAN
          /\ plan' \in BOOLEAN
      BY <1>5, <2>1
    <3>2. edit_file_list' \in Seq(Refs)
      BY <2>1
    <3>3. lists' \in 0 .. MaxLists' /\ edits' \in 0 .. MaxEdits'
      BY <1>4, <2>1, <2>2
    <3> QED
      BY <2>1, <3>1, <3>2, <3>3 DEF OthersTyped
  <2> QED
    BY <2>1, <2>3, QuietStep
<1>8. CASE "broken edit" \in Commands /\ EditBroken(files)
  <2>1. /\ stage' = "prompt" /\ interactive' = TRUE
        /\ accept_reedit' = TRUE /\ edit_file_list' = files
        /\ UNCHANGED <<fs, old_name, prev_spec, next_spec, status, planVars, work_files,
                       localVars, envVars, loopVars, plan, exit_warned, importing, lists, goal>>
    BY <1>8 DEF EditBroken, ToPrompt
  <2>2. FreshFiles' /\ new_name' \in [Refs -> FileNames \cup {NoFile}]
    BY <1>1, <1>2, <1>8, BrokenEditFresh
  <2>3. DataTypeOK'
    BY <1>1, <2>1, <2>2 DEF SessionTypeOK, PlanTypeOK, DataTypeOK, planVars, envVars
  <2>4. PlanTypeOK' /\ ApplyTypeOK'
    BY <1>1, <2>1, <2>3, TypesFrom DEF SessionTypeOK, PlanTypeOK, envVars
  <2>5. scenario' = scenario /\ plan' = FALSE
    <3>1. plan \in BOOLEAN /\ plan' = plan
      BY <1>1, <2>1 DEF SessionTypeOK
    <3> QED
      BY <2>1, <3>1 DEF envVars
  <2>6. SessionTypeOK'
    <3>1. /\ exit_warned' \in BOOLEAN /\ importing' \in BOOLEAN
          /\ goal' \in [FileNames -> FileNames \cup {NoFile, Partial}]
      BY <1>5, <2>1
    <3>2. edit_file_list' \in Seq(Refs)
      BY <1>3, <2>1
    <3>3. lists' \in 0 .. MaxLists' /\ edits' \in 0 .. MaxEdits'
      BY <1>4, <2>1, <2>5
    <3> QED
      BY <2>1, <2>4, <2>5, <3>1, <3>2, <3>3 DEF SessionTypeOK
  <2>7. StagesInv'
    <3>1. edit_file_list' # <<>> => edit_file_list' = work_files' /\ "broken edit" \in Commands'
      BY <1>2, <1>4, <1>8, <2>1, <2>5
    <3>2. EmptyPlan' /\ InitLocals("planned")' /\ external' = 0 /\ scenario' \in DOMAIN Scenarios
      BY <1>1, <2>1 DEF StagesInv, EmptyPlan, InitLocals, planVars, localVars, sortVars, crossVars,
             envVars
    <3> QED
      BY <1>1, <2>1, <2>5, <3>1, <3>2 DEF StagesInv, loopVars
  <2> QED
    BY <2>1, <2>2, <2>5, <2>6, <2>7 DEF SessionInv
<1> QED
  BY <1>6, <1>7, <1>8 DEF edit_files, files

\* One iteration of a loop of make_plan.
LEMMA MakeStep ==
  ASSUME SessionInv, PlanStep
  PROVE  SessionInv'
<1> USE DEF sessionVars, editVars, countVars
<1>1. /\ stage = "plan" /\ make_plan
      /\ UNCHANGED <<loopVars, stage, interactive, plan, edit_file_list, accept_reedit, exit_warned,
                     importing, lists, edits, goal>>
  BY DEF PlanStep
<1>2. UNCHANGED <<fs, work_files, external, options, printed, scenario>>
  BY <1>1, MakePlanKeeps
<1>3. MakingInv'
  BY <1>1, NextMaking DEF SessionInv
<1>4. PlanTypeOK' /\ DataTypeOK'
  BY <1>3 DEF MakingInv, PlanInv, TypeInv, PlanTypeOK
<1>5. ApplyTypeOK'
  <2>1. applying \in BOOLEAN /\ fail \in BOOLEAN /\ pos \in Nat \ {0}
    BY DEF SessionInv, SessionTypeOK, ApplyTypeOK
  <2> QED
    BY <1>1, <1>4, <2>1 DEF ApplyTypeOK, loopVars
<1>6. SessionTypeOK'
  <2>1. /\ interactive \in BOOLEAN /\ plan \in BOOLEAN /\ accept_reedit \in BOOLEAN
        /\ exit_warned \in BOOLEAN /\ importing \in BOOLEAN
        /\ edit_file_list \in Seq(Refs) /\ lists \in 0 .. MaxLists /\ edits \in 0 .. MaxEdits
        /\ goal \in [FileNames -> FileNames \cup {NoFile, Partial}]
    BY DEF SessionInv, SessionTypeOK
  <2>2. /\ interactive' \in BOOLEAN /\ plan' \in BOOLEAN /\ accept_reedit' \in BOOLEAN
        /\ exit_warned' \in BOOLEAN /\ importing' \in BOOLEAN
    BY <1>1, <2>1
  <2>3. MaxLists' = MaxLists /\ MaxEdits' = MaxEdits
    BY <1>2 DEF MaxLists, MaxEdits
  <2>4. /\ edit_file_list' \in Seq(Refs) /\ lists' \in 0 .. MaxLists' /\ edits' \in 0 .. MaxEdits'
        /\ goal' \in [FileNames -> FileNames \cup {NoFile, Partial}]
    BY <1>1, <2>1, <2>3
  <2> QED
    BY <1>1, <1>4, <1>5, <2>2, <2>4 DEF SessionTypeOK
<1>7. StagesInv'
  <2>1. plan /\ edit_file_list = <<>> /\ ~applying /\ external = 0 /\ scenario \in DOMAIN Scenarios
    BY <1>1 DEF SessionInv, StagesInv
  <2>2. plan' /\ edit_file_list' = <<>> /\ ~applying' /\ stage' = "plan"
    BY <1>1, <2>1 DEF loopVars
  <2> QED
    BY <1>2, <2>1, <2>2 DEF StagesInv
<1> QED
  BY <1>1, <1>3, <1>6, <1>7 DEF SessionInv, StagesInv

\* What a plan is meant to do is decided for every file name.
LEMMA GoalType ==
  ASSUME PlanInv
  PROVE  AllAtOnce \in [FileNames -> FileNames \cup {NoFile, Partial}]
<1>1. fs \in [FileNames -> FileNames \cup {NoFile, Partial}]
  BY StateFacts DEF DataTypeOK
<1>2. \A s \in Accepted : old_name[s] \in FileNames
  BY FilesListed, StateFacts DEF Accepted
<1>3. ASSUME NEW n \in FileNames, \E s \in Accepted : new_name[s] = n
      PROVE  fs[old_name[CHOOSE s \in Accepted : new_name[s] = n]] \in FileNames \cup {NoFile, Partial}
  <2> DEFINE c == CHOOSE s \in Accepted : new_name[s] = n
  <2>1. c \in Accepted
    BY <1>3
  <2> HIDE DEF c
  <2>2. old_name[c] \in FileNames
    BY <1>2, <2>1
  <2> QED
    BY <1>1, <2>2 DEF c
<1> QED
  BY <1>1, <1>3 DEF AllAtOnce

\* make_plan returns.
LEMMA MadeStep ==
  ASSUME SessionInv, PlanMade
  PROVE  SessionInv'
<1> USE DEF editVars, countVars, idleVars
<1>1. /\ stage = "plan" /\ Planned /\ stage' \in {"prompt", "run", "exited"}
      /\ interactive' = TRUE \/ interactive' = interactive
      /\ goal' = IF simulate THEN fs ELSE AllAtOnce
      /\ UNCHANGED <<dataVars, localVars, envVars, loopVars, plan, edit_file_list, accept_reedit,
                     exit_warned, importing, lists, edits>>
  BY DEF PlanMade, ToPrompt
<1>2. /\ MakingInv /\ PlanInv /\ SessionTypeOK /\ plan /\ ~applying /\ external = 0
      /\ edit_file_list = <<>> /\ scenario \in DOMAIN Scenarios
  BY <1>1 DEF SessionInv, StagesInv, MakingInv
<1>3. HeldInv
  BY <1>1, <1>2, MadeHeld DEF SessionTypeOK
<1>4. HeldInv'
  <2>1. [ApplyNext]_applyVars
    BY <1>1 DEF applyVars
  <2> QED
    BY <1>1, <1>3, <2>1, HeldStays DEF dataVars
<1>5. InitLocals("planned")
  <2>1. pending = <<>>
    BY <1>1, <1>2, StateFacts DEF SortInv, InSort, Planned
  <2> QED
    BY <1>1, <1>2, <2>1 DEF MakingInv, LocalsInv, InitLocals, Planned, InCross, Walking
<1>6. SessionTypeOK'
  <2>1. PlanTypeOK' /\ ApplyTypeOK'
    BY <1>1, <1>2, TypesStay DEF SessionUnchanged
  <2>2. goal' \in [FileNames -> FileNames \cup {NoFile, Partial}]
    BY <1>1, <1>2, GoalType DEF SessionTypeOK, PlanTypeOK, DataTypeOK
  <2>3. /\ interactive \in BOOLEAN /\ plan \in BOOLEAN /\ accept_reedit \in BOOLEAN
        /\ exit_warned \in BOOLEAN /\ importing \in BOOLEAN
        /\ lists \in 0 .. MaxLists /\ edits \in 0 .. MaxEdits
    BY <1>2 DEF SessionTypeOK
  <2>4. /\ interactive' \in BOOLEAN /\ plan' \in BOOLEAN /\ accept_reedit' \in BOOLEAN
        /\ exit_warned' \in BOOLEAN /\ importing' \in BOOLEAN
    BY <1>1, <2>3
  <2>5. MaxLists' = MaxLists /\ MaxEdits' = MaxEdits
    BY <1>1 DEF MaxLists, MaxEdits, envVars
  <2>6. edit_file_list' \in Seq(Refs) /\ lists' \in 0 .. MaxLists' /\ edits' \in 0 .. MaxEdits'
    BY <1>1, <1>2, <2>3, <2>5
  <2> QED
    BY <1>1, <2>1, <2>2, <2>4, <2>6 DEF SessionTypeOK
<1>7. StagesInv'
  <2>1. plan' /\ edit_file_list' = <<>> /\ ~applying'
    BY <1>1, <1>2 DEF loopVars
  <2>2. InitLocals("planned")' /\ external' = 0 /\ scenario' \in DOMAIN Scenarios
    BY <1>1, <1>2, <1>5 DEF InitLocals, localVars, sortVars, crossVars, envVars
  <2> QED
    BY <1>1, <2>1, <2>2 DEF StagesInv
<1> QED
  BY <1>1, <1>2, <1>4, <1>6, <1>7 DEF SessionInv
\* apply_plan starts, goes on, or ends.
ApplyPart ==
  \/ (StartApply \/ Skip \/ Succeed \/ Fail) /\ stage' = "apply"
  \/ (ApplyEmptyPlan \/ EndApply) /\ stage' \in {"prompt", "exited"}

LEMMA ApplyPartFacts ==
  ASSUME ApplyPart
  PROVE  /\ [ApplyNext]_applyVars
         /\ Succeed \/ UNCHANGED <<fieldVars, planVars, work_files>>
         /\ (applying = TRUE <=> stage = "apply") => (applying' = TRUE <=> stage' = "apply")
<1>1. [ApplyNext]_applyVars
  BY DEF ApplyPart, ApplyNext, apply_plan
<1>2. Succeed \/ UNCHANGED <<fieldVars, planVars, work_files>>
  BY DEF ApplyPart, StartApply, ApplyEmptyPlan, Skip, Fail, EndApply, applyVars, dataVars
<1>3. CASE Succeed /\ stage' = "apply"
  BY <1>1, <1>2, <1>3 DEF Succeed, InLoop, loopVars
<1>4. CASE ApplyEmptyPlan /\ stage' \in {"prompt", "exited"}
  BY <1>1, <1>2, <1>4 DEF ApplyEmptyPlan, applyVars, loopVars
<1>5. CASE (StartApply \/ Skip \/ Fail) /\ stage' = "apply"
  BY <1>1, <1>2, <1>5 DEF StartApply, Skip, Fail, InLoop
<1>6. CASE EndApply /\ stage' \in {"prompt", "exited"}
  BY <1>1, <1>2, <1>6 DEF EndApply
<1> QED
  BY <1>3, <1>4, <1>5, <1>6 DEF ApplyPart

LEMMA ApplyPartStep ==
  ASSUME SessionInv, stage \in {"run", "apply", "prompt"}, plan, ApplyPart,
         UNCHANGED <<localVars, envVars, plan, edit_file_list, accept_reedit, exit_warned,
                     importing, lists, edits, goal>>,
         interactive' = interactive \/ interactive' = TRUE
  PROVE  SessionInv'
<1>1. /\ [ApplyNext]_applyVars
      /\ Succeed \/ UNCHANGED <<fieldVars, planVars, work_files>>
      /\ stage' \in {"apply", "prompt", "exited"}
  BY ApplyPartFacts DEF ApplyPart
<1>2. /\ SessionTypeOK /\ StagesInv /\ HeldInv /\ edit_file_list = <<>> /\ external = 0
      /\ scenario \in DOMAIN Scenarios /\ InitLocals("planned")
  BY DEF SessionInv, StagesInv
<1>3. HeldInv'
  <2>1. CASE Succeed
    BY <1>2, <2>1, HeldSucceeds
  <2>2. CASE UNCHANGED <<fieldVars, planVars, work_files>>
    BY <1>1, <1>2, <2>2, HeldStays
  <2> QED
    BY <1>1, <2>1, <2>2
<1>4. DataTypeOK' /\ ApplyTypeOK'
  BY <1>3 DEF HeldInv, LoopInv, ApplyTypeOK
<1>5. PlanTypeOK'
  <2>1. /\ pc' = pc /\ it' = it /\ map' = map /\ pending' = pending /\ map_new' = map_new
        /\ s1' = s1 /\ s2' = s2 /\ prev_circular' = prev_circular /\ tmp_count' = tmp_count
        /\ external' = external /\ printed' = printed /\ scenario' = scenario /\ changed' = changed
    BY DEF localVars, sortVars, crossVars, envVars
  <2>2. changed' \in BOOLEAN
    <3>1. changed \in BOOLEAN
      BY <1>2 DEF SessionTypeOK, PlanTypeOK
    <3> QED
      BY <2>1, <3>1
  <2>3. Scans' = Scans
    BY DEF Scans, NextScan
  <2>4. /\ pc' \in Scans \cup {"topologic_sort", "follow", "temporary", "collect", "planned"}
        /\ it' \in Nat \ {0} /\ map' \in [FileNames -> Refs \cup {NULL}] /\ pending' \in Seq(Refs)
        /\ map_new' \in [FileNames -> Refs \cup {NULL}]
        /\ {s1', s2', prev_circular'} \subseteq Refs \cup {NULL} /\ tmp_count' \in 0 .. MaxTmp
        /\ external' \in 0 .. Scenarios[scenario'].external /\ printed' \in Seq(Listable)
    BY <1>2, <2>1 DEF SessionTypeOK, PlanTypeOK
  <2> QED
    BY <1>4, <2>2, <2>3, <2>4 DEF PlanTypeOK
<1>6. scenario' = scenario /\ external' = external
  BY DEF envVars
<1>7. SessionTypeOK'
  <2>3. /\ interactive \in BOOLEAN /\ plan \in BOOLEAN /\ accept_reedit \in BOOLEAN
        /\ exit_warned \in BOOLEAN /\ importing \in BOOLEAN
        /\ lists \in 0 .. MaxLists /\ edits \in 0 .. MaxEdits
        /\ goal \in [FileNames -> FileNames \cup {NoFile, Partial}]
    BY <1>2 DEF SessionTypeOK
  <2>4. /\ interactive' \in BOOLEAN /\ plan' \in BOOLEAN /\ accept_reedit' \in BOOLEAN
        /\ exit_warned' \in BOOLEAN /\ importing' \in BOOLEAN
    BY <2>3
  <2>5. MaxLists' = MaxLists /\ MaxEdits' = MaxEdits
    BY <1>6 DEF MaxLists, MaxEdits
  <2>6. /\ edit_file_list' \in Seq(Refs) /\ lists' \in 0 .. MaxLists' /\ edits' \in 0 .. MaxEdits'
        /\ goal' \in [FileNames -> FileNames \cup {NoFile, Partial}]
    BY <1>2, <2>3, <2>5
  <2> QED
    BY <1>1, <1>4, <1>5, <2>4, <2>6 DEF SessionTypeOK
<1>8. StagesInv'
  <2>1. plan' /\ edit_file_list' = <<>> /\ external' = 0 /\ scenario' \in DOMAIN Scenarios
    BY <1>2, <1>6
  <2>2. InitLocals("planned")'
    BY <1>2 DEF InitLocals, localVars, sortVars, crossVars
  <2>3. applying = TRUE <=> stage = "apply"
    BY <1>2 DEF StagesInv
  <2>4. applying' = TRUE <=> stage' = "apply"
    BY <2>3, ApplyPartFacts
  <2>5. applying' \in BOOLEAN
    BY <1>4 DEF ApplyTypeOK
  <2>6. applying' <=> stage' = "apply"
    BY <2>4, <2>5
  <2> QED
    BY <1>1, <2>1, <2>2, <2>6 DEF StagesInv
<1> QED
  BY <1>1, <1>3, <1>7, <1>8 DEF SessionInv

\* apply_plan as the program calls it: after make_plan, or for `apply'.
LEMMA ApplyStages ==
  ASSUME SessionInv, ApplyStep \/ ApplyDone \/ (RunPlan /\ stage' = "apply") \/ apply_command
  PROVE  SessionInv'
<1> USE DEF sessionVars, editVars, countVars, idleVars
<1>1. CASE ApplyStep
  <2>1. /\ stage = "apply" /\ stage' = "apply" /\ (Skip \/ Succeed \/ Fail)
        /\ UNCHANGED <<localVars, envVars, interactive, plan, edit_file_list, accept_reedit,
                       exit_warned, importing, lists, edits, goal>>
    BY <1>1 DEF ApplyStep
  <2>2. plan
    BY <2>1 DEF SessionInv, StagesInv
  <2> QED
    BY <2>1, <2>2, ApplyPartStep DEF ApplyPart
<1>2. CASE ApplyDone
  <2>1. /\ stage = "apply" /\ stage' \in {"prompt", "exited"} /\ EndApply
        /\ interactive' = interactive \/ interactive' = TRUE
        /\ UNCHANGED <<localVars, envVars, plan, edit_file_list, accept_reedit,
                       exit_warned, importing, lists, edits, goal>>
    BY <1>2 DEF ApplyDone, ToPrompt
  <2>2. plan
    BY <2>1 DEF SessionInv, StagesInv
  <2> QED
    BY <2>1, <2>2, ApplyPartStep DEF ApplyPart
<1>3. CASE RunPlan /\ stage' = "apply"
  <2>1. /\ stage = "run" /\ StartApply /\ interactive' = interactive
        /\ UNCHANGED <<localVars, envVars, plan, edit_file_list, accept_reedit,
                       exit_warned, importing, lists, edits, goal>>
    BY <1>3 DEF RunPlan, ToPrompt
  <2>2. plan
    BY <2>1 DEF SessionInv, StagesInv
  <2> QED
    BY <1>3, <2>1, <2>2, ApplyPartStep DEF ApplyPart
<1>4. CASE apply_command
  <2>1. /\ stage = "prompt" /\ plan /\ interactive' = interactive
        /\ UNCHANGED <<localVars, envVars, plan, edit_file_list, accept_reedit,
                       exit_warned, importing, lists, edits, goal>>
        /\ \/ StartApply /\ stage' = "apply"
           \/ ApplyEmptyPlan /\ stage' = "prompt"
    BY <1>4 DEF apply_command, AtPrompt
  <2> QED
    BY <2>1, ApplyPartStep DEF ApplyPart
<1> QED
  BY <1>1, <1>2, <1>3, <1>4

\* Where the program neither lists, edits nor runs anything.
QuietAction ==
  \/ ListFails \/ quit_command \/ terminate_program
  \/ RunPlan /\ stage' # "apply"

LEMMA QuietActions ==
  ASSUME SessionInv, QuietAction
  PROVE  SessionInv'
<1> USE DEF editVars, countVars, idleVars
<1>1. /\ stage \in {"list", "prompt", "run"} /\ stage' \in {stage, "prompt", "exited"}
      /\ SessionUnchanged
      /\ UNCHANGED <<plan, edit_file_list, accept_reedit, importing, lists, edits, goal>>
      /\ interactive' = interactive \/ interactive' = TRUE
      /\ exit_warned' = exit_warned \/ exit_warned' = TRUE
  <2>1. CASE ListFails
    BY <2>1 DEF ListFails, SessionUnchanged
  <2>2. CASE quit_command
    BY <2>2 DEF quit_command, AtPrompt, SessionUnchanged
  <2>3. CASE terminate_program
    BY <2>3 DEF terminate_program, AtPrompt, SessionUnchanged
  <2>4. CASE RunPlan /\ stage' # "apply"
    BY <2>4 DEF RunPlan, ToPrompt, SessionUnchanged
  <2> QED
    BY <2>1, <2>2, <2>3, <2>4 DEF QuietAction
<1>2. OthersTyped'
  <2>1. /\ interactive \in BOOLEAN /\ plan \in BOOLEAN /\ accept_reedit \in BOOLEAN
        /\ exit_warned \in BOOLEAN /\ importing \in BOOLEAN
        /\ edit_file_list \in Seq(Refs) /\ lists \in 0 .. MaxLists /\ edits \in 0 .. MaxEdits
    BY DEF SessionInv, SessionTypeOK
  <2>2. /\ interactive' \in BOOLEAN /\ plan' \in BOOLEAN /\ accept_reedit' \in BOOLEAN
        /\ exit_warned' \in BOOLEAN /\ importing' \in BOOLEAN
    BY <1>1, <2>1
  <2>3. MaxLists' = MaxLists /\ MaxEdits' = MaxEdits
    BY <1>1 DEF SessionUnchanged, envVars, MaxLists, MaxEdits
  <2>4. edit_file_list' \in Seq(Refs) /\ lists' \in 0 .. MaxLists' /\ edits' \in 0 .. MaxEdits'
    BY <1>1, <2>1, <2>3
  <2> QED
    BY <1>1, <2>2, <2>4 DEF OthersTyped
<1> QED
  BY <1>1, <1>2, QuietStep

\* The actions of a session, by what they do to it.
LEMMA SessionActions ==
  ASSUME SessionInv, EachPlanFresh, [Next]_vars
  PROVE  \/ (stage = "list" /\ list_files) \/ list_command \/ import_command
         \/ FreeWorkFile \/ TakeListing
         \/ stage \in {"edit", "prompt"} /\ ~plan /\ edit_files(TRUE)
         \/ PlanStep \/ PlanMade
         \/ ApplyStep \/ ApplyDone \/ (RunPlan /\ stage' = "apply") \/ apply_command
         \/ QuietAction \/ UNCHANGED vars
<1>1. stage = "edit" => ~plan
  BY DEF SessionInv, StagesInv
<1>2. edit_command => stage = "prompt" /\ ~plan /\ edit_files(TRUE)
  BY DEF edit_command, AtPrompt, AtPromptOnceOr, EachPlanFresh
<1> QED
  BY <1>1, <1>2 DEF Next, noncommandmode_run, commandmode_mainloop, Exited, QuietAction

\* The invariant is inductive.
LEMMA SessionStep == SessionInv /\ EachPlanFresh /\ [Next]_vars => SessionInv'
<1> SUFFICES ASSUME SessionInv, EachPlanFresh, [Next]_vars PROVE SessionInv'
  OBVIOUS
<1> QED
  BY SessionActions, ListStep, FreeStep, TakeStep, EditStep, MakeStep, MadeStep, ApplyStages,
     QuietActions, StutterStep

\* The commands of a session do not change.
LEMMA OptionsStay ==
  ASSUME SessionInv, EachPlanFresh, [Next]_vars
  PROVE  UNCHANGED <<options, scenario>>
<1> USE DEF idleVars, sessionVars, editVars, countVars, envVars, dataVars
<1>1. CASE (stage = "list" /\ list_files) \/ list_command \/ import_command \/ FreeWorkFile \/ TakeListing
  BY <1>1 DEF list_files, list_command, import_command, FreeWorkFile, TakeListing
<1>2. CASE edit_files(TRUE)
  BY <1>2 DEF edit_files, EditSucceeds, EditNotStarted, EditBroken
<1>3. CASE PlanStep \/ PlanMade
  BY <1>3, MakePlanKeeps DEF PlanStep, PlanMade
<1>4. CASE ApplyStep \/ ApplyDone \/ RunPlan \/ apply_command
  BY <1>4 DEF ApplyStep, ApplyDone, RunPlan, apply_command
<1>5. CASE QuietAction \/ UNCHANGED vars
  BY <1>5 DEF QuietAction, ListFails, quit_command, terminate_program, RunPlan, vars
<1> QED
  BY <1>1, <1>2, <1>3, <1>4, <1>5, SessionActions

\* The program starts with no plan and no files.
LEMMA SessionInit == Init => SessionInv
<1> SUFFICES ASSUME Init PROVE SessionInv
  OBVIOUS
<1>1. /\ scenario \in DOMAIN Scenarios /\ Scenarios[scenario].setups \subseteq Setups
      /\ Scenarios[scenario].external \in Nat /\ MaxLists \in Nat /\ MaxEdits \in Nat
      /\ MaxSpecs \in Nat /\ MaxTmp \in Nat
  BY ScenarioAssumption, SessionAssumption, DataAssumption, PlanAssumption
     DEF Init, MaxLists, MaxEdits
<1>2. /\ fs \in [FileNames -> FileNames \cup {NoFile, Partial}] /\ goal = fs /\ options \in Setups
      /\ work_files = <<>> /\ printed = <<>> /\ EmptyPlan
      /\ old_name = [s \in Refs |-> NoFile] /\ new_name = [s \in Refs |-> NoFile]
      /\ prev_spec = [s \in Refs |-> NULL] /\ next_spec = [s \in Refs |-> NULL]
      /\ status = [s \in Refs |-> "FREE"]
      /\ InitLocals("planned") /\ external = 0
      /\ applying = FALSE /\ pos = 1 /\ fail = FALSE
      /\ stage \in {"list", "prompt"} /\ interactive \in BOOLEAN
      /\ plan = FALSE
      /\ edit_file_list = <<>> /\ accept_reedit = FALSE /\ exit_warned = FALSE
      /\ importing = FALSE /\ lists = 0 /\ edits = 0
  BY <1>1 DEF Init
<1>3. DataTypeOK
  BY <1>2 DEF DataTypeOK, EmptyPlan, MemoryStatus
<1>4. PlanTypeOK
  <2>1. /\ pc = "planned" /\ it = 1 /\ map = EmptyMap /\ pending = <<>> /\ changed = FALSE
        /\ map_new = EmptyMap /\ s1 = NULL /\ s2 = NULL /\ prev_circular = NULL /\ tmp_count = 0
    BY <1>2 DEF InitLocals
  <2>2. changed \in BOOLEAN
    BY <2>1
  <2>3. EmptyMap \in [FileNames -> Refs \cup {NULL}]
    BY DEF EmptyMap
  <2>4. pending \in Seq(Refs) /\ printed \in Seq(Listable)
    BY <1>2, <2>1
  <2>5. it \in Nat \ {0} /\ tmp_count \in 0 .. MaxTmp /\ external \in 0 .. Scenarios[scenario].external
    BY <1>1, <1>2, <2>1
  <2> QED
    BY <1>3, <2>1, <2>2, <2>3, <2>4, <2>5 DEF PlanTypeOK
<1>5. ApplyTypeOK
  <2>1. applying \in BOOLEAN /\ fail \in BOOLEAN
    BY <1>2
  <2>2. pos \in Nat \ {0}
    BY <1>2
  <2> QED
    BY <1>3, <2>1, <2>2 DEF ApplyTypeOK
<1>6. SessionTypeOK
  <2>1. /\ plan \in BOOLEAN /\ accept_reedit \in BOOLEAN /\ exit_warned \in BOOLEAN
        /\ importing \in BOOLEAN
    BY <1>2
  <2>2. lists \in 0 .. MaxLists /\ edits \in 0 .. MaxEdits /\ edit_file_list \in Seq(Refs)
    BY <1>1, <1>2
  <2> QED
    BY <1>2, <1>4, <1>5, <2>1, <2>2 DEF SessionTypeOK
<1>7. StagesInv
  BY <1>1, <1>2 DEF StagesInv
<1>8. FreshFiles
  <2>1. Listed = {} /\ Len(printed) = 0
    BY <1>2 DEF Listed
  <2>2. PICK names : names = [s \in Listed |-> NoFile]
    OBVIOUS
  <2>3. names \in [Listed -> FileNames]
    BY <2>1, <2>2
  <2>4. work_files = [i \in Listed |-> i]
    BY <1>2, <2>1
  <2>5. FreshSpecs(names)
    BY <1>2, <2>1, <2>4 DEF FreshSpecs
  <2> QED
    <3>1. Len(printed) <= MaxSpecs /\ \A i, j \in Listed : printed[i] = printed[j] => i = j
      BY <1>1, <2>1
    <3> QED
      BY <2>3, <2>5, <3>1 DEF FreshFiles
<1> QED
  BY <1>2, <1>6, <1>7, <1>8 DEF SessionInv

\* So the invariant holds throughout.
LEMMA SessionAlways == Spec /\ EachPlanFresh => [](SessionInv /\ EachPlanFresh)
<1>1. Init => SessionInv
  BY SessionInit
<1>2. SessionInv /\ EachPlanFresh /\ [Next]_vars => (SessionInv /\ EachPlanFresh)'
  BY SessionStep, OptionsStay DEF EachPlanFresh, Commands
<1> QED
  BY <1>1, <1>2, PTL DEF Spec

(***************************************************************************)
(* Sessions of any length: every variable keeps its type.                  *)
(***************************************************************************)
THEOREM SessionTypeOKAlways == Spec /\ EachPlanFresh => []SessionTypeOK
<1>1. SessionInv => SessionTypeOK
  BY DEF SessionInv
<1> QED
  BY <1>1, SessionAlways, PTL

(***************************************************************************)
(* Sessions of any length: no list that a later command reads, and no link *)
(* of a FileSpec in one, leads to freed memory.                            *)
(***************************************************************************)
THEOREM NoFreedSpecInUseAlways == Spec /\ EachPlanFresh => []NoFreedSpecInUse
<1>1. ASSUME SessionInv PROVE NoFreedSpecInUse
  <2> SUFFICES ASSUME stage # "free", NEW s \in Reachable, NEW t \in {s, prev_spec[s], next_spec[s]} \ {NULL}
               PROVE  status[t] \in FileSpecStatus
    BY DEF NoFreedSpecInUse
  <2>1. CASE ~plan
    <3>1. FreshFiles /\ EmptyPlan /\ edit_file_list \in {<<>>, work_files} /\ SessionTypeOK
      BY <1>1, <2>1 DEF SessionInv, StagesInv
    <3>2. /\ Elems(work_files) = Listed /\ Listed \subseteq Refs
          /\ status = [u \in Refs |-> IF u \in Listed THEN "UNCHECKED" ELSE "FREE"]
          /\ prev_spec = [u \in Refs |-> NULL] /\ next_spec = [u \in Refs |-> NULL]
      BY <3>1, FreshFacts
    <3>3. Reachable \subseteq Listed
      BY <3>1, <3>2, EmptyElems DEF Reachable, EmptyPlan
    <3>4. s \in Listed /\ t = s
      BY <3>2, <3>3
    <3> QED
      BY <3>2, <3>4 DEF FileSpecStatus
  <2>2. CASE plan /\ stage = "plan"
    <3>1. MakingInv /\ PlanInv /\ LeadInv /\ ListsInv /\ edit_file_list = <<>>
      BY <1>1, <2>2 DEF SessionInv, StagesInv, MakingInv, FilesInv
    <3>2. /\ Elems(work_files) = Listed
          /\ \A u \in Listed : status[u] \in FileSpecStatus
          /\ \A u \in Pending : status[u] \in OkStatus
          /\ Elems(error) \subseteq Listed /\ Elems(no_change) \subseteq Listed
      BY <3>1, FilesListed, StateFacts DEF StatusInv, ListsInv
    <3>3. Reachable \subseteq Known
      BY <3>1, <3>2, EmptyElems DEF Reachable, Known, Pending
    <3>4. t \in Known
      BY <3>1, <3>3 DEF LeadInv
    <3> QED
      BY <3>2, <3>4 DEF Known, FileSpecStatus
  <2>3. CASE plan /\ stage # "plan"
    <3>1. HeldInv /\ Mirrored /\ Pending \subseteq Reachable
      BY <1>1, <2>3 DEF SessionInv, HeldInv, LoopInv, Reachable, Pending
    <3>2. t \in Reachable
      BY <3>1 DEF HeldInv, Mirrored
    <3> QED
      BY <3>1, <3>2 DEF HeldInv
  <2> QED
    BY <2>1, <2>2, <2>3
<1> QED
  BY <1>1, SessionAlways, PTL
-----------------------------------------------------------------------------
(***************************************************************************)
(* The files.  Only the commands that apply_plan runs touch them.          *)
(***************************************************************************)
\* qmv runs mv and qcp runs cp, or nothing is run at all (--dummy).
OwnCommand ==
  \/ simulate
  \/ program = "qmv" /\ Command = "mv"
  \/ program = "qcp" /\ Command = "cp"

(***************************************************************************)
(* qcp: a destination is no source, and holds nothing but what was copied  *)
(* there in vain.                                                          *)
(***************************************************************************)
CopySafe ==
  /\ NamesDistinct
  /\ \A s, t \in Pending : new_name[s] # old_name[t]
  /\ \A s \in Pending : /\ fs[new_name[s]] \in {NoFile, Partial, fs[old_name[s]]}
                        /\ fs[new_name[s]] # new_name[s]

\* qcp: whatever was copied is still where it was at first.
Home == program = "qcp" => \A n \in FileNames : fs[n] \in FileNames => fs[fs[n]] = fs[n]

OwnInv ==
  /\ Home
  /\ plan /\ stage # "plan" /\ ~simulate => /\ program = "qmv" => SafeInv
                                            /\ program = "qcp" => CopySafe

\* A plan that is kept was just made, or kept before.
LEMMA KeptPlan ==
  ASSUME SessionInv, EachPlanFresh, [Next]_vars, plan', stage' # "plan"
  PROVE  \/ stage = "plan" /\ PlanMade
         \/ plan /\ stage # "plan" /\ [ApplyNext]_applyVars
<1> USE DEF idleVars, sessionVars, editVars, countVars
<1>1. stage \in {"list", "free", "edit"} => ~plan
  BY DEF SessionInv, StagesInv
<1>2. CASE (stage = "list" /\ list_files) \/ list_command
  BY <1>2 DEF list_command, list_files
<1>3. CASE import_command \/ FreeWorkFile \/ TakeListing
  BY <1>1, <1>3 DEF import_command, AtPromptOnceOr, EachPlanFresh, FreeWorkFile, TakeListing
<1>4. CASE stage \in {"edit", "prompt"} /\ ~plan /\ edit_files(TRUE)
  BY <1>4 DEF edit_files, EditSucceeds, EditNotStarted, EditBroken
<1>5. CASE PlanStep \/ PlanMade
  BY <1>5 DEF PlanStep, PlanMade
<1>6. CASE ApplyStep \/ ApplyDone \/ RunPlan \/ apply_command
  <2>1. [ApplyNext]_applyVars
    BY <1>6 DEF ApplyStep, ApplyDone, RunPlan, apply_command, ApplyNext, apply_plan, applyVars
  <2>2. plan' = plan /\ stage # "plan"
    BY <1>6 DEF ApplyStep, ApplyDone, RunPlan, apply_command, AtPrompt
  <2> QED
    BY <2>1, <2>2
<1>7. CASE QuietAction /\ ~RunPlan
  <2>1. plan' = plan /\ stage # "plan" /\ UNCHANGED applyVars
    BY <1>7 DEF QuietAction, ListFails, quit_command, terminate_program, AtPrompt, applyVars
  <2> QED
    BY <2>1
<1>8. CASE UNCHANGED vars
  BY <1>8 DEF vars, applyVars
<1> QED
  BY <1>2, <1>3, <1>4, <1>5, <1>6, <1>7, <1>8, SessionActions

\* The directory changes only when apply_plan runs a command.
LEMMA FilesStay ==
  ASSUME SessionInv, EachPlanFresh, [Next]_vars
  PROVE  fs' = fs \/ (ApplyStep /\ plan /\ stage = "apply")
<1> USE DEF idleVars, sessionVars, editVars, countVars, dataVars
<1>1. stage = "apply" => plan
  BY DEF SessionInv, StagesInv
<1>2. CASE (stage = "list" /\ list_files) \/ list_command \/ import_command \/ FreeWorkFile \/ TakeListing
  BY <1>2 DEF list_files, list_command, import_command, FreeWorkFile, TakeListing
<1>3. CASE edit_files(TRUE)
  BY <1>3 DEF edit_files, EditSucceeds, EditNotStarted, EditBroken
<1>4. CASE PlanStep \/ PlanMade
  BY <1>4, MakePlanKeeps DEF PlanStep, PlanMade
<1>5. CASE ApplyDone \/ RunPlan \/ apply_command
  BY <1>5 DEF ApplyDone, RunPlan, apply_command, StartApply, ApplyEmptyPlan, EndApply, applyVars
<1>6. CASE QuietAction \/ UNCHANGED vars
  BY <1>6 DEF QuietAction, ListFails, quit_command, terminate_program, RunPlan, StartApply, vars
<1>7. CASE ApplyStep
  BY <1>1, <1>7 DEF ApplyStep
<1> QED
  BY <1>2, <1>3, <1>4, <1>5, <1>6, <1>7, SessionActions

\* qcp's plan, as make_plan made it, copies to names that do not exist.
LEMMA MadeCopySafe ==
  ASSUME MakingInv, Planned, external = 0, program = "qcp"
  PROVE  /\ CopySafe
         /\ \A s \in Pending : ~file_exists(new_name[s]) /\ file_exists(old_name[s])
<1>1. /\ PlanInv /\ FeasibleParts /\ CopyInv /\ LeftInv /\ DestInv /\ StatusInv
      /\ Pending \subseteq Listed /\ Elems(work_files) = Listed
      /\ \A i \in Listed : old_name[i] \in FileNames /\ new_name[i] \in FileNames
  BY StateFacts, FilesListed DEF MakingInv, PlainInv, FeasibleInv, FeasibleParts, NamesInv
<1>2. Left = Candidates
  BY <1>1 DEF LeftInv, Planned, Checks
<1>3. ASSUME NEW s \in Pending
      PROVE  /\ s \in Listed /\ file_exists(old_name[s]) /\ old_name[s] # new_name[s]
             /\ ~file_exists(new_name[s])
             /\ new_name[s] \in FileNames
  <2>1. status[s] \in OkStatus /\ s \in Listed
    BY <1>1 DEF StatusInv
  <2>2. s \in Left /\ status[s] # "NEW_EXISTS"
    BY <2>1 DEF Left, LeftStatus, OkStatus
  <2> QED
    BY <1>1, <1>2, <2>1, <2>2 DEF CopyInv, Planned, Candidates
<1>4. \A s, t \in Pending : new_name[s] = new_name[t] => s = t
  BY <1>1 DEF DestInv
<1>5. \A s, t \in Pending : old_name[s] = old_name[t] => s = t
  BY <1>1, OldNamesDiffer
<1>6. NamesDistinct
  BY <1>3, <1>4, <1>5 DEF NamesDistinct
<1>7. \A s, t \in Pending : new_name[s] # old_name[t]
  BY <1>3
<1>8. \A s \in Pending : fs[new_name[s]] = NoFile /\ NoFile # new_name[s]
  BY <1>3, DataAssumption DEF file_exists
<1> QED
  BY <1>3, <1>6, <1>7, <1>8 DEF CopySafe

\* qmv's plan, as make_plan made it, is safe to apply.
LEMMA MadeMoveSafe ==
  ASSUME MakingInv, Planned, external = 0, program = "qmv"
  PROVE  SafeInv
  BY PlannedReady DEF MakingInv, PlanIsReady, PlanReady, SafeInv

\* What a command of qcp leaves in the directory, however it ends.
LEMMA CopyEffect ==
  ASSUME DataTypeOK, PendingOK, Command = "cp", CopySafe, Home, program = "qcp",
         NEW r \in Pending, PerformFailed(r)
  PROVE  /\ fs' \in [FileNames -> FileNames \cup {NoFile, Partial}]
         /\ \A n \in FileNames \ {new_name[r]} : fs'[n] = fs[n]
         /\ fs'[new_name[r]] \in {fs[new_name[r]], Partial, fs[old_name[r]]}
         /\ fs'[new_name[r]] # new_name[r]
         /\ old_name[r] \in FileNames \ {new_name[r]} /\ new_name[r] \in FileNames
<1>1. /\ fs \in [FileNames -> FileNames \cup {NoFile, Partial}]
      /\ old_name[r] \in FileNames /\ new_name[r] \in FileNames /\ old_name[r] # new_name[r]
      /\ fs[new_name[r]] # new_name[r] /\ Partial \notin FileNames
  BY DataAssumption DEF DataTypeOK, PendingOK, CopySafe, NamesDistinct
<1>2. fs[old_name[r]] # new_name[r]
  BY <1>1 DEF Home
<1>3. \/ fs' = fs \/ fs' = [fs EXCEPT ![new_name[r]] = Partial]
      \/ fs' = [fs EXCEPT ![new_name[r]] = fs[old_name[r]]]
  BY DEF PerformFailed, PerformOk, Copy, Interrupted
<1> QED
  BY <1>1, <1>2, <1>3

\* A command of qcp leaves the rest of the plan safe, and every file at home.
LEMMA CopyKeepsSafe ==
  ASSUME DataTypeOK, PendingOK, Command = "cp", CopySafe, Home, program = "qcp",
         NEW r \in Pending, PerformFailed(r),
         Pending' \subseteq Pending, UNCHANGED <<old_name, new_name, options>>
  PROVE  CopySafe' /\ Home'
<1>1. /\ \A n \in FileNames \ {new_name[r]} : fs'[n] = fs[n]
      /\ fs'[new_name[r]] \in {fs[new_name[r]], Partial, fs[old_name[r]]}
      /\ fs'[new_name[r]] # new_name[r]
      /\ old_name[r] \in FileNames \ {new_name[r]} /\ new_name[r] \in FileNames
      /\ Partial \notin FileNames
  BY CopyEffect, DataAssumption
<1>2. /\ \A s \in Pending : /\ old_name[s] \in FileNames /\ new_name[s] \in FileNames
                            /\ new_name[r] # old_name[s]
                            /\ fs[new_name[s]] \in {NoFile, Partial, fs[old_name[s]]}
                            /\ fs[new_name[s]] # new_name[s]
                            /\ s # r => new_name[s] # new_name[r]
      /\ \A s, t \in Pending : new_name[s] # old_name[t]
      /\ NamesDistinct
  BY DEF CopySafe, PendingOK, NamesDistinct
<1>3. NamesDistinct'
  BY <1>2 DEF NamesDistinct
<1>4. ASSUME NEW s \in Pending'
      PROVE  /\ fs'[new_name[s]] \in {NoFile, Partial, fs'[old_name[s]]}
             /\ fs'[new_name[s]] # new_name[s]
  <2>1. s \in Pending /\ fs'[old_name[s]] = fs[old_name[s]]
    BY <1>1, <1>2
  <2>2. CASE s = r
    BY <1>1, <1>2, <2>1, <2>2
  <2>3. CASE s # r
    BY <1>1, <1>2, <2>1, <2>3
  <2> QED
    BY <2>2, <2>3
<1>5. CopySafe'
  BY <1>2, <1>3, <1>4 DEF CopySafe
<1>6. Home'
  <2> SUFFICES ASSUME NEW n \in FileNames, fs'[n] \in FileNames PROVE fs'[fs'[n]] = fs'[n]
    BY DEF Home
  <2>1. PICK m \in FileNames : fs[m] = fs'[n]
    BY <1>1, <1>2
  <2>2. fs[fs[m]] = fs[m]
    BY <2>1 DEF Home
  <2>3. fs[m] # new_name[r]
    BY <1>2, <2>2
  <2> QED
    BY <1>1, <2>1, <2>2, <2>3
<1> QED
  BY <1>5, <1>6

\* What the loop of apply_plan does to the directory.
LEMMA LoopCommand ==
  ASSUME HeldInv, Succeed \/ Fail, ~simulate
  PROVE  /\ rename \in Pending /\ prev_spec[rename] = NULL /\ PerformFailed(rename)
         /\ Pending' \subseteq Pending /\ UNCHANGED <<old_name, new_name, options>>
<1>1. CASE Succeed
  <2>1. PerformOk(rename) /\ options' = options
    BY <1>1 DEF Succeed
  <2> QED
    BY <1>1, <2>1, SucceedEffect DEF HeldInv, PerformFailed
<1>2. CASE Fail
  <2>1. /\ PerformFailed(rename) /\ prev_spec[rename] = NULL /\ InLoop
        /\ UNCHANGED <<old_name, new_name, options, ok>>
    BY <1>2 DEF Fail, DependsOnFailed, fieldVars, planVars
  <2>2. rename \in Pending
    BY <2>1, PendingInRefs DEF HeldInv, LoopInv, ApplyTypeOK, InLoop, rename
  <2> QED
    BY <2>1, <2>2 DEF Pending
<1> QED
  BY <1>1, <1>2

\* With --dummy, the directory never changes.
LEMMA DummyStay ==
  ASSUME ApplyStep, simulate
  PROVE  fs' = fs
  BY DEF ApplyStep, Skip, Succeed, Fail, dataVars

\* Other steps than those of the loop leave qcp's plan as it is.
LEMMA CopyStays ==
  ASSUME CopySafe, UNCHANGED <<fs, ok, old_name, new_name>>
  PROVE  CopySafe'
<1>1. Pending' = Pending
  BY DEF Pending
<1> QED
  BY <1>1 DEF CopySafe, NamesDistinct

LEMMA OwnStep ==
  ASSUME SessionInv, EachPlanFresh, OwnCommand, OwnInv, [Next]_vars
  PROVE  OwnInv'
<1>1. UNCHANGED <<options, scenario>>
  BY OptionsStay
<1>2. program' = program /\ simulate' = simulate /\ Command' = Command
  BY <1>1 DEF program, simulate, Command, force_command
<1>3. Home'
  <2>1. CASE fs' = fs
    BY <1>2, <2>1 DEF OwnInv, Home
  <2>2. CASE fs' # fs /\ program = "qcp"
    <3>1. ApplyStep /\ plan /\ stage = "apply" /\ ~simulate
      BY <2>2, FilesStay, DummyStay
    <3>2. HeldInv /\ CopySafe /\ Home /\ Command = "cp"
      BY <2>2, <3>1 DEF SessionInv, OwnInv, OwnCommand
    <3>3. Succeed \/ Fail
      BY <2>2, <3>1 DEF ApplyStep, Skip, dataVars
    <3> QED
      BY <2>2, <3>1, <3>2, <3>3, LoopCommand, CopyKeepsSafe DEF HeldInv, LoopInv, ApplyTypeOK
  <2> QED
    BY <1>2, <2>1, <2>2 DEF Home
<1>4. ASSUME plan', stage' # "plan", ~simulate, program = "qmv"
      PROVE  SafeInv'
  <2>1. CASE stage = "plan" /\ PlanMade
    <3>1. MakingInv /\ Planned /\ external = 0
      BY <2>1 DEF SessionInv, StagesInv, PlanMade
    <3>2. SafeInv
      BY <1>4, <3>1, MadeMoveSafe
    <3>3. HeldInv /\ [ApplyNext]_applyVars
      BY <2>1, <3>1, MadeHeld DEF SessionInv, StagesInv, SessionTypeOK, PlanMade, applyVars, idleVars
    <3> QED
      BY <1>4, <3>2, <3>3, SafeStep DEF HeldInv, OwnCommand
  <2>2. CASE plan /\ stage # "plan" /\ [ApplyNext]_applyVars
    BY <1>4, <2>2, SafeStep DEF SessionInv, HeldInv, OwnInv, OwnCommand
  <2> QED
    BY <1>4, <2>1, <2>2, KeptPlan
<1>5. ASSUME plan', stage' # "plan", ~simulate, program = "qcp"
      PROVE  CopySafe'
  <2>1. CASE stage = "plan" /\ PlanMade
    <3>1. MakingInv /\ Planned /\ external = 0 /\ UNCHANGED <<fs, ok, old_name, new_name>>
      BY <2>1 DEF SessionInv, StagesInv, PlanMade, dataVars, fieldVars, planVars
    <3> QED
      BY <1>5, <3>1, MadeCopySafe, CopyStays
  <2>2. CASE plan /\ stage # "plan" /\ [ApplyNext]_applyVars
    <3>1. HeldInv /\ CopySafe /\ Home /\ Command = "cp"
      BY <1>5, <2>2 DEF SessionInv, OwnInv, OwnCommand
    <3>2. CASE Succeed \/ Fail
      BY <1>5, <3>1, <3>2, LoopCommand, CopyKeepsSafe DEF HeldInv, LoopInv, ApplyTypeOK
    <3>3. CASE ~(Succeed \/ Fail)
      <4>1. UNCHANGED <<fs, ok, old_name, new_name>>
        BY <2>2, <3>3 DEF ApplyNext, apply_plan, StartApply, ApplyEmptyPlan, Skip, EndApply, applyVars,
               dataVars, fieldVars, planVars
      <4> QED
        BY <3>1, <4>1, CopyStays
    <3> QED
      BY <3>2, <3>3
  <2> QED
    BY <1>5, <2>1, <2>2, KeptPlan
<1> QED
  BY <1>2, <1>3, <1>4, <1>5 DEF OwnInv

\* The commands that are run are the same throughout, so the invariant holds throughout.
LEMMA OwnAlways ==
  Spec /\ EachPlanFresh /\ OwnCommand => [](SessionInv /\ EachPlanFresh /\ OwnCommand /\ OwnInv)
<1>1. Init => OwnInv
  BY DEF Init, OwnInv, Home
<1>2. SessionInv /\ EachPlanFresh /\ OwnCommand /\ OwnInv /\ [Next]_vars => OwnInv' /\ OwnCommand'
  <2> SUFFICES ASSUME SessionInv, EachPlanFresh, OwnCommand, OwnInv, [Next]_vars
               PROVE  OwnInv' /\ OwnCommand'
    OBVIOUS
  <2>1. options' = options
    BY OptionsStay
  <2> QED
    BY <2>1, OwnStep DEF OwnCommand, program, simulate, Command, force_command
<1> QED
  BY <1>1, <1>2, SessionAlways, PTL DEF Spec

(***************************************************************************)
(* No file of the user is destroyed in a session, however many listings,   *)
(* edits, plans, failures and retries it has.                              *)
(***************************************************************************)
THEOREM SessionLosesNothingAlways == Spec /\ EachPlanFresh /\ OwnCommand => SessionLosesNothing
<1>1. ASSUME SessionInv, EachPlanFresh, OwnCommand, OwnInv, [Next]_vars
      PROVE  [Contents \subseteq Contents']_vars
  <2>1. CASE fs' = fs
    BY <2>1 DEF Contents
  <2>2. CASE fs' # fs
    <3>1. ApplyStep /\ plan /\ stage = "apply" /\ ~simulate
      BY <1>1, <2>2, FilesStay, DummyStay
    <3>2. HeldInv /\ LoopInv /\ DataTypeOK /\ PendingOK
      BY <1>1, <3>1 DEF SessionInv, HeldInv, LoopInv, ApplyTypeOK
    <3>3. Succeed \/ Fail
      BY <2>2, <3>1 DEF ApplyStep, Skip, dataVars
    <3>4. /\ rename \in Pending /\ prev_spec[rename] = NULL /\ PerformFailed(rename)
      BY <3>1, <3>2, <3>3, LoopCommand
    <3>5. CASE program = "qmv"
      BY <1>1, <3>1, <3>2, <3>4, <3>5, CommandLosesNothing DEF OwnInv, OwnCommand
    <3>6. CASE program = "qcp"
      <4>1. CopySafe /\ Home /\ Command = "cp"
        BY <1>1, <3>1, <3>6 DEF OwnInv, OwnCommand
      <4>2. /\ \A n \in FileNames \ {new_name[rename]} : fs'[n] = fs[n]
            /\ old_name[rename] \in FileNames \ {new_name[rename]}
        BY <3>2, <3>4, <3>6, <4>1, CopyEffect
      <4>3. fs[new_name[rename]] \in {NoFile, Partial, fs[old_name[rename]]}
        BY <3>4, <4>1 DEF CopySafe
      <4> SUFFICES ASSUME NEW n \in FileNames, fs[n] \notin {NoFile, Partial}
                   PROVE  \E m \in FileNames : fs'[m] = fs[n]
        BY DEF Contents
      <4>4. CASE n = new_name[rename]
        BY <4>2, <4>3, <4>4
      <4>5. CASE n # new_name[rename]
        BY <4>2, <4>5
      <4> QED
        BY <4>4, <4>5
    <3> QED
      BY <1>1, <3>1, <3>5, <3>6 DEF OwnCommand
  <2> QED
    BY <2>1, <2>2
<1> QED
  BY <1>1, OwnAlways, PTL DEF Spec, SessionLosesNothing

(***************************************************************************)
(* In a session of qcp the originals of copies keep their names and their  *)
(* contents; with --dummy every file does.                                 *)
(***************************************************************************)
THEOREM OriginalsKeptAlways == Spec /\ EachPlanFresh /\ OwnCommand => OriginalsKept
<1>1. ASSUME SessionInv, EachPlanFresh, OwnCommand, OwnInv, [Next]_vars
      PROVE  [program = "qcp" \/ simulate => \A n \in FileNames : fs[n] = n => fs'[n] = n]_vars
  <2>1. CASE fs' = fs
    BY <2>1
  <2>2. CASE fs' # fs /\ program = "qcp"
    <3>1. ApplyStep /\ plan /\ stage = "apply" /\ ~simulate
      BY <1>1, <2>2, FilesStay, DummyStay
    <3>2. HeldInv /\ LoopInv /\ DataTypeOK /\ PendingOK
      BY <1>1, <3>1 DEF SessionInv, HeldInv, LoopInv, ApplyTypeOK
    <3>3. Succeed \/ Fail
      BY <2>2, <3>1 DEF ApplyStep, Skip, dataVars
    <3>4. /\ rename \in Pending /\ prev_spec[rename] = NULL /\ PerformFailed(rename)
      BY <3>1, <3>2, <3>3, LoopCommand
    <3>5. CopySafe /\ Home /\ Command = "cp"
      BY <1>1, <2>2, <3>1 DEF OwnInv, OwnCommand
    <3>6. \A n \in FileNames \ {new_name[rename]} : fs'[n] = fs[n]
      BY <2>2, <3>2, <3>4, <3>5, CopyEffect
    <3>7. fs[new_name[rename]] # new_name[rename]
      BY <3>4, <3>5 DEF CopySafe
    <3> QED
      BY <3>6, <3>7
  <2>3. CASE fs' # fs /\ simulate
    BY <1>1, <2>3, FilesStay, DummyStay
  <2> QED
    BY <2>1, <2>2, <2>3
<1> QED
  BY <1>1, OwnAlways, PTL DEF Spec, OriginalsKept
-----------------------------------------------------------------------------
(***************************************************************************)
(* What the user asked for.  goal is the directory after all accepted      *)
(* renames at once; while the plan is applied, it is the directory that    *)
(* the rest of the plan still leads to.                                    *)
(***************************************************************************)
\* t puts a file under the name that s is to take one from (a temporary name).
Fills(t, s) == new_name[t] = old_name[s] /\ prev_spec[t] # s

\* t waits for s and then takes its place.
Replaces(t, s) == new_name[t] = old_name[s] /\ prev_spec[t] = s

FillsNone(t) == \A s \in Pending : ~Fills(t, s)
FilledByNone(s) == \A t \in Pending : ~Fills(t, s)

\* A rename that can never be done: its source is gone, and nothing will bring it.
Stuck == \E s \in Pending : ~file_exists(old_name[s]) /\ FilledByNone(s)

\* mv: goal is where the rest of the plan moves the files to.
Moved ==
  /\ \A t \in Pending : FillsNone(t) /\ FilledByNone(t) => goal[new_name[t]] = fs[old_name[t]]
  /\ \A t, u \in Pending : FillsNone(t) /\ Fills(u, t) => goal[new_name[t]] = fs[old_name[u]]
  /\ \A s \in Pending : (\A t \in Pending : ~Replaces(t, s)) => goal[old_name[s]] = NoFile
  /\ \A n \in FileNames :
       (\A s \in Pending : n # old_name[s] /\ n # new_name[s]) => goal[n] = fs[n]

\* cp: goal has in addition what the rest of the plan copies.
Copied ==
  /\ \A s \in Pending : goal[new_name[s]] = fs[old_name[s]]
  /\ \A n \in FileNames : (\A s \in Pending : n # new_name[s]) => goal[n] = fs[n]

GoalInv ==
  plan /\ stage # "plan" =>
    /\ simulate => goal = fs
    /\ ~simulate /\ program = "qmv" => Stuck \/ Moved
    /\ ~simulate /\ program = "qcp" => Copied

\* What fills a source is done first, and the source waits for it.
LEMMA FillsFirst ==
  ASSUME LoopInv, SafeInv, ~simulate, NEW t \in Pending, NEW s \in Pending, Fills(t, s)
  PROVE  prev_spec[t] = NULL /\ prev_spec[s] # NULL /\ s # t
<1>1. s # t
  BY DEF Fills, SafeInv, NamesDistinct
<1>2. ASSUME prev_spec[t] # NULL PROVE FALSE
  <2>1. prev_spec[t] \in Pending /\ old_name[prev_spec[t]] = new_name[t]
    BY <1>2 DEF LoopInv, Mirrored, SafeInv, Vacated
  <2> QED
    BY <2>1 DEF Fills, SafeInv, NamesDistinct
<1>3. prev_spec[s] # NULL
  BY <1>1, <1>2, SourceNotFilledBy DEF Fills
<1> QED
  BY <1>1, <1>2, <1>3

\* A rename that waits for nothing has its own source, and disturbs no other one.
LEMMA TurnFacts ==
  ASSUME LoopInv, SafeInv, ~simulate, NEW r \in Pending, prev_spec[r] = NULL
  PROVE  /\ FilledByNone(r)
         /\ \A s \in Pending : old_name[s] = new_name[r] => Fills(r, s)
         /\ \A u, t \in Pending : Fills(u, t) => old_name[u] # new_name[r]
         /\ \A s \in Pending : FilledByNone(s) => old_name[s] # new_name[r]
         /\ \A s \in Pending : ~Replaces(r, s)
<1>1. FilledByNone(r)
  BY FillsFirst DEF FilledByNone
<1>2. Pending \subseteq Refs /\ NULL \notin Refs
  BY RefsNotNull, PendingInRefs DEF LoopInv, ApplyTypeOK
<1>3. \A s \in Pending : old_name[s] = new_name[r] => Fills(r, s)
  BY <1>2 DEF Fills
<1>4. ASSUME NEW u \in Pending, NEW t \in Pending, Fills(u, t), old_name[u] = new_name[r]
      PROVE  FALSE
  BY <1>3, <1>4, FillsFirst
<1>5. \A s \in Pending : FilledByNone(s) => old_name[s] # new_name[r]
  BY <1>3 DEF FilledByNone
<1>6. \A s \in Pending : ~Replaces(r, s)
  BY <1>2 DEF Replaces
<1> QED
  BY <1>1, <1>3, <1>4, <1>5, <1>6

\* A rename that was carried out leaves the relations among the others as they were.
LEMMA RelationsStay ==
  ASSUME HeldInv, SafeInv, ~simulate, Succeed, NEW r, r = rename
  PROVE  /\ r \in Pending /\ prev_spec[r] = NULL /\ Pending' = Pending \ {r}
         /\ UNCHANGED <<old_name, new_name>>
         /\ \A t, s \in Pending' : /\ Fills(t, s)' <=> Fills(t, s)
                                   /\ Replaces(t, s)' <=> Replaces(t, s)
         /\ \A t \in Pending' : FillsNone(t)' => FillsNone(t)
         /\ \A t \in Pending' : FilledByNone(t)' /\ ~Fills(r, t) => FilledByNone(t)
         /\ \A t \in Pending' : FilledByNone(t) => FilledByNone(t)'
<1>1. /\ r \in Pending /\ prev_spec[r] = NULL /\ Pending' = Pending \ {r}
      /\ \A u \in Pending' :
           prev_spec'[u] = IF prev_spec[u] = r THEN NULL ELSE prev_spec[u]
      /\ UNCHANGED <<old_name, new_name>>
  BY SucceedEffect DEF HeldInv
<1>2. Pending \subseteq Refs /\ NULL \notin Refs
  BY RefsNotNull, PendingInRefs DEF HeldInv, LoopInv, ApplyTypeOK
<1>3. ASSUME NEW t \in Pending', NEW s \in Pending'
      PROVE  (Fills(t, s)' <=> Fills(t, s)) /\ (Replaces(t, s)' <=> Replaces(t, s))
  <2>1. prev_spec'[t] = s <=> prev_spec[t] = s
    BY <1>1, <1>2
  <2> QED
    BY <1>1, <2>1 DEF Fills, Replaces
<1>4. FilledByNone(r)
  BY <1>1, TurnFacts DEF HeldInv
<1>5. \A t \in Pending' : FillsNone(t)' => FillsNone(t)
  BY <1>1, <1>3, <1>4 DEF FillsNone, FilledByNone
<1>6. \A t \in Pending' : FilledByNone(t)' /\ ~Fills(r, t) => FilledByNone(t)
  BY <1>1, <1>3 DEF FilledByNone
<1>7. \A t \in Pending' : FilledByNone(t) => FilledByNone(t)'
  BY <1>1, <1>3 DEF FilledByNone
<1> QED
  BY <1>1, <1>3, <1>5, <1>6, <1>7

\* A rename that was carried out brings the directory nearer to the goal.
LEMMA SucceedMoves ==
  ASSUME HeldInv, SafeInv, ~simulate, Command = "mv", Succeed, Moved, goal' = goal
  PROVE  Moved'
<1>1. PICK r : r = rename
  OBVIOUS
<1>2. /\ r \in Pending /\ prev_spec[r] = NULL /\ Pending' = Pending \ {r}
      /\ UNCHANGED <<old_name, new_name>>
      /\ \A t, s \in Pending' : /\ Fills(t, s)' <=> Fills(t, s)
                                /\ Replaces(t, s)' <=> Replaces(t, s)
      /\ \A t \in Pending' : FillsNone(t)' => FillsNone(t)
      /\ \A t \in Pending' : FilledByNone(t)' /\ ~Fills(r, t) => FilledByNone(t)
  BY <1>1, RelationsStay
<1>3. /\ FilledByNone(r)
      /\ \A s \in Pending : old_name[s] = new_name[r] => Fills(r, s)
      /\ \A u, t \in Pending : Fills(u, t) => old_name[u] # new_name[r]
      /\ \A s \in Pending : ~Replaces(r, s)
  BY <1>2, TurnFacts DEF HeldInv
<1>4. /\ \A s \in Pending : old_name[s] \in FileNames /\ new_name[s] \in FileNames
      /\ \A s, t \in Pending : old_name[s] = old_name[t] => s = t
      /\ \A s \in Pending : old_name[s] # new_name[s]
      /\ fs \in [FileNames -> FileNames \cup {NoFile, Partial}]
  BY DEF HeldInv, LoopInv, PendingOK, SafeInv, NamesDistinct, ApplyTypeOK, DataTypeOK
<1>5. /\ fs'[old_name[r]] = NoFile /\ fs'[new_name[r]] = fs[old_name[r]]
      /\ \A n \in FileNames \ {old_name[r], new_name[r]} : fs'[n] = fs[n]
  <2>1. fs' = Move(fs, old_name[r], new_name[r])
    BY <1>1 DEF Succeed, PerformOk
  <2> QED
    BY <1>2, <1>4, <2>1 DEF Move
<1>6. ASSUME NEW t \in Pending', FillsNone(t)', FilledByNone(t)'
      PROVE  goal[new_name[t]] = fs'[old_name[t]]
  <2>1. t \in Pending /\ t # r /\ FillsNone(t)
    BY <1>2, <1>6
  <2>2. CASE Fills(r, t)
    <3>1. goal[new_name[t]] = fs[old_name[r]]
      BY <1>2, <2>1, <2>2 DEF Moved
    <3> QED
      BY <1>5, <2>2, <3>1 DEF Fills
  <2>3. CASE ~Fills(r, t)
    <3>1. goal[new_name[t]] = fs[old_name[t]]
      BY <1>2, <1>6, <2>1, <2>3 DEF Moved
    <3>2. old_name[t] \in FileNames \ {old_name[r], new_name[r]}
      BY <1>2, <1>3, <1>4, <2>1, <2>3
    <3> QED
      BY <1>5, <3>1, <3>2
  <2> QED
    BY <2>2, <2>3
<1>7. ASSUME NEW t \in Pending', NEW u \in Pending', FillsNone(t)', Fills(u, t)'
      PROVE  goal[new_name[t]] = fs'[old_name[u]]
  <2>1. t \in Pending /\ u \in Pending /\ u # r /\ FillsNone(t) /\ Fills(u, t)
    BY <1>2, <1>7
  <2>2. goal[new_name[t]] = fs[old_name[u]]
    BY <2>1 DEF Moved
  <2>3. old_name[u] \in FileNames \ {old_name[r], new_name[r]}
    BY <1>2, <1>3, <1>4, <2>1
  <2> QED
    BY <1>5, <2>2, <2>3
<1>8. ASSUME NEW s \in Pending', \A t \in Pending' : ~Replaces(t, s)'
      PROVE  goal[old_name[s]] = NoFile
  <2>1. s \in Pending /\ \A t \in Pending : ~Replaces(t, s)
    BY <1>2, <1>3, <1>8
  <2> QED
    BY <2>1 DEF Moved
<1>9. ASSUME NEW n \in FileNames, \A s \in Pending' : n # old_name[s] /\ n # new_name[s]
      PROVE  goal[n] = fs'[n]
  <2>1. CASE n \notin {old_name[r], new_name[r]}
    <3>1. \A s \in Pending : n # old_name[s] /\ n # new_name[s]
      BY <1>2, <1>9, <2>1
    <3> QED
      BY <1>5, <2>1, <3>1 DEF Moved
  <2>2. CASE n = old_name[r]
    <3>1. \A t \in Pending : ~Replaces(t, r)
      BY <1>2, <1>3, <1>9, <2>2 DEF Replaces
    <3> QED
      BY <1>2, <1>5, <2>2, <3>1 DEF Moved
  <2>3. CASE n = new_name[r]
    <3>1. \A s \in Pending : ~Fills(r, s)
      BY <1>2, <1>3, <1>9, <2>3 DEF Fills, FilledByNone
    <3>2. FillsNone(r)
      BY <3>1 DEF FillsNone
    <3> QED
      BY <1>2, <1>3, <1>5, <2>3, <3>2 DEF Moved
  <2> QED
    BY <2>1, <2>2, <2>3
<1>10. /\ \A t \in Pending' : FillsNone(t)' /\ FilledByNone(t)' => goal[new_name[t]] = fs'[old_name[t]]
       /\ \A t, u \in Pending' : FillsNone(t)' /\ Fills(u, t)' => goal[new_name[t]] = fs'[old_name[u]]
       /\ \A s \in Pending' : (\A t \in Pending' : ~Replaces(t, s)') => goal[old_name[s]] = NoFile
       /\ \A n \in FileNames :
            (\A s \in Pending' : n # old_name[s] /\ n # new_name[s]) => goal[n] = fs'[n]
  BY <1>6, <1>7, <1>8, <1>9
<1> QED
  BY <1>2, <1>10 DEF Moved

\* The relations among the renames depend on names and links only.
LEMMA RelationsKept ==
  ASSUME UNCHANGED <<ok, old_name, new_name, prev_spec>>
  PROVE  /\ Pending' = Pending
         /\ \A t, s \in Pending : /\ Fills(t, s)' <=> Fills(t, s)
                                  /\ Replaces(t, s)' <=> Replaces(t, s)
         /\ \A t \in Pending : /\ FillsNone(t)' <=> FillsNone(t)
                               /\ FilledByNone(t)' <=> FilledByNone(t)
<1>1. Pending' = Pending
  BY DEF Pending
<1>2. \A t, s \in Pending : (Fills(t, s)' <=> Fills(t, s)) /\ (Replaces(t, s)' <=> Replaces(t, s))
  BY DEF Fills, Replaces
<1> QED
  BY <1>1, <1>2 DEF FillsNone, FilledByNone

\* A command that fails leaves the goal reachable, or its own source is gone.
LEMMA FailMoves ==
  ASSUME HeldInv, SafeInv, ~simulate, Command = "mv", Fail, Moved, goal' = goal
  PROVE  Stuck' \/ Moved'
<1>1. PICK r : r = rename
  OBVIOUS
<1>2. /\ r \in Pending /\ prev_spec[r] = NULL /\ PerformFailed(r)
      /\ UNCHANGED <<ok, old_name, new_name, prev_spec>>
  BY <1>1, LoopCommand DEF Fail, fieldVars, planVars
<1>3. /\ FilledByNone(r)
      /\ \A s \in Pending : old_name[s] = new_name[r] => Fills(r, s)
      /\ \A u, t \in Pending : Fills(u, t) => old_name[u] # new_name[r]
      /\ \A s \in Pending : FilledByNone(s) => old_name[s] # new_name[r]
  BY <1>2, TurnFacts DEF HeldInv
<1>4. /\ \A s \in Pending : old_name[s] \in FileNames /\ new_name[s] \in FileNames
      /\ old_name[r] # new_name[r]
      /\ fs \in [FileNames -> FileNames \cup {NoFile, Partial}]
  BY <1>2 DEF HeldInv, LoopInv, PendingOK, SafeInv, NamesDistinct, ApplyTypeOK, DataTypeOK
<1>5. /\ Pending' = Pending
      /\ \A t, s \in Pending : /\ Fills(t, s)' <=> Fills(t, s)
                               /\ Replaces(t, s)' <=> Replaces(t, s)
      /\ \A t \in Pending : /\ FillsNone(t)' <=> FillsNone(t)
                            /\ FilledByNone(t)' <=> FilledByNone(t)
  BY <1>2, RelationsKept
<1>6. CASE PerformOk(r)
  <2>1. fs'[old_name[r]] = NoFile
    BY <1>2, <1>4, <1>6 DEF PerformOk, Move
  <2>2. r \in Pending' /\ FilledByNone(r)' /\ old_name'[r] = old_name[r]
    BY <1>2, <1>3, <1>5
  <2>3. Stuck'
    BY <2>1, <2>2 DEF Stuck, file_exists
  <2> QED
    BY <2>3
<1>7. CASE ~PerformOk(r)
  <2>1. \A n \in FileNames \ {new_name[r]} : fs'[n] = fs[n]
    BY <1>2, <1>4, <1>7 DEF PerformFailed, Interrupted
  <2>2. ASSUME NEW t \in Pending, FillsNone(t), FilledByNone(t)
        PROVE  goal[new_name[t]] = fs'[old_name[t]]
    BY <1>3, <1>4, <2>1, <2>2 DEF Moved
  <2>3. ASSUME NEW t \in Pending, NEW u \in Pending, FillsNone(t), Fills(u, t)
        PROVE  goal[new_name[t]] = fs'[old_name[u]]
    BY <1>3, <1>4, <2>1, <2>3 DEF Moved
  <2>4. ASSUME NEW n \in FileNames, \A s \in Pending : n # old_name[s] /\ n # new_name[s]
        PROVE  goal[n] = fs'[n]
    BY <1>2, <2>1, <2>4 DEF Moved
  <2>5. \A s \in Pending : (\A t \in Pending : ~Replaces(t, s)) => goal[old_name[s]] = NoFile
    BY DEF Moved
  <2>6. /\ \A t \in Pending' : FillsNone(t)' /\ FilledByNone(t)' => goal[new_name[t]] = fs'[old_name[t]]
        /\ \A t, u \in Pending' : FillsNone(t)' /\ Fills(u, t)' => goal[new_name[t]] = fs'[old_name[u]]
        /\ \A s \in Pending' : (\A t \in Pending' : ~Replaces(t, s)') => goal[old_name[s]] = NoFile
        /\ \A n \in FileNames :
             (\A s \in Pending' : n # old_name[s] /\ n # new_name[s]) => goal[n] = fs'[n]
    BY <1>5, <2>2, <2>3, <2>4, <2>5
  <2>7. Moved'
    BY <1>2, <2>6 DEF Moved
  <2> QED
    BY <2>7
<1> QED
  BY <1>6, <1>7

\* A plan that is stuck stays so.
LEMMA StaysStuck ==
  ASSUME HeldInv, SafeInv, ~simulate, Command = "mv", Succeed \/ Fail, Stuck
  PROVE  Stuck'
<1>1. PICK r : r = rename
  OBVIOUS
<1>2. PICK s \in Pending : ~file_exists(old_name[s]) /\ FilledByNone(s)
  BY DEF Stuck
<1>3. r \in Pending /\ prev_spec[r] = NULL /\ PerformFailed(r) /\ UNCHANGED <<old_name, new_name>>
  BY <1>1, LoopCommand
<1>4. /\ \A u \in Pending : FilledByNone(u) => old_name[u] # new_name[r]
      /\ old_name[s] \in FileNames /\ old_name[r] \in FileNames /\ new_name[r] \in FileNames
      /\ fs \in [FileNames -> FileNames \cup {NoFile, Partial}]
  BY <1>3, TurnFacts DEF HeldInv, LoopInv, PendingOK, ApplyTypeOK, DataTypeOK
<1>5. fs'[old_name[s]] = NoFile
  <2>1. old_name[s] # new_name[r] /\ fs[old_name[s]] = NoFile
    BY <1>2, <1>4 DEF file_exists
  <2> QED
    BY <1>3, <1>4, <2>1 DEF PerformFailed, PerformOk, Move, Interrupted
<1>6. s \in Pending' /\ FilledByNone(s)'
  <2>1. CASE Succeed
    <3>1. PerformOk(r)
      BY <1>1, <2>1 DEF Succeed
    <3>2. s # r
      BY <1>2, <3>1 DEF PerformOk, CanPerform
    <3> QED
      BY <1>1, <1>2, <2>1, <3>2, RelationsStay
  <2>2. CASE Fail
    <3>1. UNCHANGED <<ok, old_name, new_name, prev_spec>>
      BY <2>2 DEF Fail, fieldVars, planVars
    <3> QED
      BY <1>2, <3>1, RelationsKept
  <2> QED
    BY <2>1, <2>2
<1> QED
  BY <1>3, <1>5, <1>6 DEF Stuck, file_exists

-----------------------------------------------------------------------------
(***************************************************************************)
(* When make_plan returns.  A listed file that the plan accepts is in it   *)
(* itself, or as the first file of a circular set: a copy takes its new    *)
(* name, and an extra rename brings it to the temporary name in between.   *)
(***************************************************************************)
\* x and y stand for c: x moves the file of c to the name from which y takes it.
StandFor(x, y, c) ==
  /\ x \in Extras /\ y \in Extras /\ c \in Accepted
  /\ old_name[x] = old_name[c] /\ new_name[x] = old_name[y] /\ new_name[y] = new_name[c]

LEMMA AcceptedFacts ==
  ASSUME MakingInv, Planned, external = 0, program = "qmv"
  PROVE  /\ Accepted \subseteq Listed
         /\ \A s \in Pending : s \in Accepted \/ \E x, y, c : StandFor(x, y, c) /\ s \in {x, y}
         /\ \A c \in Accepted : c \in Pending \/ \E x, y : StandFor(x, y, c)
         /\ \A x, y, c : StandFor(x, y, c) => Fills(x, y)
         /\ \A c \in Accepted : file_exists(old_name[c]) /\ old_name[c] \in FileNames
         /\ \A c, d \in Accepted : new_name[c] = new_name[d] => c = d
         /\ \A c, d \in Accepted : old_name[c] = old_name[d] => c = d
<1>1. /\ PlanInv /\ StartsInv /\ ListsInv /\ StatusInv /\ LeftInv /\ Elems(work_files) = Listed
      /\ SourcesInv /\ DestInv /\ Sorted /\ NoRepeat
      /\ \A i \in Listed : old_name[i] \in FileNames
  BY StateFacts, FilesListed
     DEF MakingInv, FilesInv, FeasibleInv, FeasibleParts, ReadyInv, Undisturbed, Ready,
         NamesInv, LinksInv, Planned
<1>2. Accepted = {s \in Listed : status[s] \in OkStatus}
  BY <1>1 DEF Accepted
<1>3. Accepted \subseteq Candidates
  BY <1>1, <1>2 DEF LeftInv, Planned, Checks, Left, LeftStatus
<1>4. \A c \in Accepted : c \in Pending \/ c \in Starts
  BY <1>1, <1>2 DEF ListsInv, Starts, OkStatus
<1>5. ASSUME NEW c \in Starts
      PROVE  \E x, y : StandFor(x, y, c) /\ Fills(x, y)
  <2>1. PICK i \in 1 .. Len(ok), j \in 1 .. Len(ok) :
          /\ i < j
          /\ {ok[i], ok[j]} \cap Elems(work_files) = {}
          /\ old_name[ok[i]] = old_name[c] /\ new_name[ok[j]] = new_name[c]
          /\ new_name[ok[i]] = old_name[ok[j]]
    BY <1>1, <1>5 DEF StartsInv, Planned, ByTemporaryName
  <2>2. PICK x, y : x = ok[i] /\ y = ok[j]
    OBVIOUS
  <2>3. x \in Extras /\ y \in Extras
    BY <1>1, <2>1, <2>2 DEF Extras, Pending, Elems
  <2>4. c \in Accepted
    BY <1>2, <1>5 DEF Starts, OkStatus
  <2>5. prev_spec[x] # y
    <3> SUFFICES ASSUME prev_spec[x] = y PROVE FALSE
      OBVIOUS
    <3>1. y # NULL
      BY <1>1, <2>3, StateFacts, RefsNotNull DEF Extras
    <3>2. PICK k \in 1 .. i - 1 : ok[k] = y
      BY <1>1, <2>1, <2>2, <3>1 DEF Sorted
    <3>3. k \in 1 .. Len(ok) /\ k # j
      BY <2>1, <3>2
    <3> QED
      BY <1>1, <2>1, <2>2, <3>2, <3>3 DEF NoRepeat
  <2> QED
    BY <2>1, <2>2, <2>3, <2>4, <2>5 DEF StandFor, Fills
<1>6. \A s, t \in Pending : /\ new_name[s] = new_name[t] => s = t
                            /\ old_name[s] = old_name[t] => s = t
  BY <1>1 DEF SourcesInv, DestInv
<1>7. ASSUME NEW s \in Pending
      PROVE  s \in Accepted \/ \E x, y, c : StandFor(x, y, c) /\ s \in {x, y}
  <2>1. CASE s \in Listed
    BY <1>1, <1>2, <2>1 DEF StatusInv
  <2>2. CASE s \notin Listed
    <3>1. PICK c \in Starts : old_name[s] = old_name[c] \/ new_name[s] = new_name[c]
      BY <1>1, <2>2 DEF StartsInv, Extras
    <3>2. PICK x, y : StandFor(x, y, c)
      BY <1>5
    <3>3. s = x \/ s = y
      BY <1>6, <3>1, <3>2 DEF StandFor, Extras
    <3> QED
      BY <3>2, <3>3
  <2> QED
    BY <2>1, <2>2
<1>8. ASSUME NEW x, NEW y, NEW c, StandFor(x, y, c) PROVE Fills(x, y)
  <2>1. c \in Starts
    <3>1. c \in Pending => c = x
      BY <1>6, <1>8 DEF StandFor, Extras
    <3>2. c \in Listed /\ x \notin Listed
      BY <1>2, <1>8 DEF StandFor, Extras
    <3> QED
      BY <1>4, <1>8, <3>1, <3>2 DEF StandFor
  <2>2. PICK v, w : StandFor(v, w, c) /\ Fills(v, w)
    BY <1>5, <2>1
  <2>3. v = x /\ w = y
    BY <1>6, <1>8, <2>2 DEF StandFor, Extras
  <2> QED
    BY <2>2, <2>3
<1>9. \A c \in Accepted : /\ file_exists(old_name[c]) /\ old_name[c] \in FileNames
                          /\ c \in Listed
  BY <1>1, <1>2, <1>3 DEF Candidates
<1>10. \A c, d \in Accepted : new_name[c] = new_name[d] => c = d
  BY <1>1, <1>2, <1>3 DEF Candidates
<1>11. \A c, d \in Accepted : old_name[c] = old_name[d] => c = d
  BY <1>1, <1>2, OldNamesDiffer
<1>12. \A c \in Accepted : c \in Pending \/ \E x, y : StandFor(x, y, c)
  BY <1>4, <1>5
<1> QED
  BY <1>2, <1>7, <1>8, <1>9, <1>10, <1>11, <1>12

\* The goal, name by name.
LEMMA AllAtOnceFacts ==
  ASSUME \A c, d \in Accepted : new_name[c] = new_name[d] => c = d
  PROVE  /\ \A c \in Accepted : new_name[c] \in FileNames =>
                                  AllAtOnce[new_name[c]] = fs[old_name[c]]
         /\ \A n \in FileNames : (\A c \in Accepted : new_name[c] # n) =>
              AllAtOnce[n] = IF Moves /\ \E c \in Accepted : old_name[c] = n THEN NoFile ELSE fs[n]
<1>1. ASSUME NEW c \in Accepted, new_name[c] \in FileNames
      PROVE  AllAtOnce[new_name[c]] = fs[old_name[c]]
  <2> DEFINE d == CHOOSE s \in Accepted : new_name[s] = new_name[c]
  <2>1. d \in Accepted /\ new_name[d] = new_name[c]
    OBVIOUS
  <2>2. AllAtOnce[new_name[c]] = fs[old_name[d]]
    BY <1>1 DEF AllAtOnce
  <2> HIDE DEF d
  <2>3. d = c
    BY <2>1
  <2> QED
    BY <2>2, <2>3
<1>2. ASSUME NEW n \in FileNames, \A c \in Accepted : new_name[c] # n
      PROVE  AllAtOnce[n] = IF Moves /\ \E c \in Accepted : old_name[c] = n THEN NoFile ELSE fs[n]
  BY <1>2 DEF AllAtOnce
<1> QED
  BY <1>1, <1>2

\* The plan that make_plan returns leads to the goal.
LEMMA MadeMoves ==
  ASSUME MakingInv, Planned, external = 0, program = "qmv", ~simulate, Command = "mv"
  PROVE  /\ \A t \in Pending :
              FillsNone(t) /\ FilledByNone(t) => AllAtOnce[new_name[t]] = fs[old_name[t]]
         /\ \A t, u \in Pending :
              FillsNone(t) /\ Fills(u, t) => AllAtOnce[new_name[t]] = fs[old_name[u]]
         /\ \A s \in Pending :
              (\A t \in Pending : ~Replaces(t, s)) => AllAtOnce[old_name[s]] = NoFile
         /\ \A n \in FileNames :
              (\A s \in Pending : n # old_name[s] /\ n # new_name[s]) => AllAtOnce[n] = fs[n]
<1>1. /\ Accepted \subseteq Listed
      /\ \A s \in Pending : s \in Accepted \/ \E x, y, c : StandFor(x, y, c) /\ s \in {x, y}
      /\ \A c \in Accepted : c \in Pending \/ \E x, y : StandFor(x, y, c)
      /\ \A x, y, c : StandFor(x, y, c) => Fills(x, y)
      /\ \A c \in Accepted : file_exists(old_name[c]) /\ old_name[c] \in FileNames
      /\ \A c, d \in Accepted : new_name[c] = new_name[d] => c = d
      /\ \A c, d \in Accepted : old_name[c] = old_name[d] => c = d
  BY AcceptedFacts
<1>2. /\ \A c \in Accepted : new_name[c] \in FileNames =>
                               AllAtOnce[new_name[c]] = fs[old_name[c]]
      /\ \A n \in FileNames : (\A c \in Accepted : new_name[c] # n) =>
           AllAtOnce[n] = IF Moves /\ \E c \in Accepted : old_name[c] = n THEN NoFile ELSE fs[n]
  BY <1>1, AllAtOnceFacts
<1>3. Moves
  BY DEF Moves, Command
<1>4. /\ PlanReady /\ \A s \in Pending : prev_spec[s] = NULL => ~file_exists(new_name[s])
  BY PlannedReady DEF MakingInv, PlanIsReady
<1>5. /\ \A s \in Pending : old_name[s] \in FileNames /\ new_name[s] \in FileNames
      /\ \A s, t \in Pending : /\ new_name[s] = new_name[t] => s = t
                               /\ old_name[s] = old_name[t] => s = t
      /\ Mirrored
      /\ \A s \in Pending : prev_spec[s] # NULL => old_name[prev_spec[s]] = new_name[s]
  BY <1>4 DEF PlanReady, NamesDistinct, Vacated
<1>6. ASSUME NEW u \in Pending, NEW t \in Pending, Fills(u, t)
      PROVE  ~file_exists(old_name[t])
  <2>1. CASE prev_spec[u] = NULL
    BY <1>4, <1>6, <2>1 DEF Fills
  <2>2. CASE prev_spec[u] # NULL
    <3>1. prev_spec[u] \in Pending /\ old_name[prev_spec[u]] = old_name[t]
      BY <1>5, <1>6, <2>2 DEF Mirrored, Fills
    <3> QED
      BY <1>5, <1>6, <3>1 DEF Fills
  <2> QED
    BY <2>1, <2>2
<1>7. \A x, y, c : StandFor(x, y, c) =>
        /\ x \in Pending /\ y \in Pending /\ x \notin Accepted /\ y \notin Accepted /\ c \in Accepted
        /\ old_name[x] = old_name[c] /\ new_name[x] = old_name[y] /\ new_name[y] = new_name[c]
        /\ ~file_exists(old_name[y]) /\ file_exists(old_name[x])
  BY <1>1, <1>6 DEF StandFor, Extras
<1>8. ASSUME NEW s \in Pending, \A t \in Pending : ~Replaces(t, s), NEW c \in Accepted,
             new_name[c] = old_name[s]
      PROVE  ~file_exists(old_name[s]) /\ \E w \in Pending : new_name[w] = old_name[s] /\ Fills(w, s)
                                                               /\ (w \in Accepted \/ \E x : StandFor(x, w, c))
  <2>1. PICK w \in Pending : /\ new_name[w] = new_name[c]
                             /\ w \in Accepted \/ \E x : StandFor(x, w, c)
    BY <1>1, <1>7
  <2>2. Fills(w, s)
    BY <1>8, <2>1 DEF Fills, Replaces
  <2> QED
    BY <1>6, <1>8, <2>1, <2>2
<1>9. ASSUME NEW t \in Pending, FillsNone(t), FilledByNone(t)
      PROVE  AllAtOnce[new_name[t]] = fs[old_name[t]]
  <2>1. ASSUME NEW x, NEW y, NEW c, StandFor(x, y, c) PROVE t # x /\ t # y
    BY <1>1, <1>7, <1>9, <2>1 DEF FillsNone, FilledByNone
  <2>2. t \in Accepted
    BY <1>1, <2>1
  <2> QED
    BY <1>2, <1>5, <2>2
<1>10. ASSUME NEW t \in Pending, NEW u \in Pending, FillsNone(t), Fills(u, t)
       PROVE  AllAtOnce[new_name[t]] = fs[old_name[u]]
  <2>1. ~file_exists(old_name[t])
    BY <1>6, <1>10
  <2>2. PICK x, y, c : StandFor(x, y, c) /\ t \in {x, y}
    BY <1>1, <2>1
  <2>3. t = y
    BY <1>7, <2>1, <2>2
  <2>4. u = x
    BY <1>5, <1>7, <1>10, <2>2, <2>3 DEF Fills
  <2>5. new_name[t] = new_name[c] /\ old_name[u] = old_name[c] /\ c \in Accepted
    BY <1>7, <2>2, <2>3, <2>4
  <2> QED
    BY <1>2, <1>5, <2>5
<1>11. ASSUME NEW s \in Pending, \A t \in Pending : ~Replaces(t, s)
       PROVE  AllAtOnce[old_name[s]] = NoFile
  <2>1. CASE file_exists(old_name[s])
    <3>1. \A c \in Accepted : new_name[c] # old_name[s]
      BY <1>8, <1>11, <2>1
    <3>2. \E c \in Accepted : old_name[c] = old_name[s]
      BY <1>1, <1>7, <2>1
    <3> QED
      BY <1>2, <1>3, <1>5, <3>1, <3>2
  <2>2. CASE ~file_exists(old_name[s])
    <3>1. PICK x, y, c : StandFor(x, y, c) /\ s \in {x, y}
      BY <1>1, <2>2
    <3>2. s = y
      BY <1>7, <2>2, <3>1
    <3>3. ASSUME NEW d \in Accepted, new_name[d] = old_name[s] PROVE FALSE
      <4>1. PICK w \in Pending : /\ new_name[w] = old_name[s]
                                 /\ w \in Accepted \/ \E v : StandFor(v, w, d)
        BY <1>8, <1>11, <3>3
      <4>2. w = x
        BY <1>5, <1>7, <3>1, <3>2, <4>1
      <4> QED
        BY <1>7, <3>1, <4>1, <4>2
    <3>4. \A d \in Accepted : new_name[d] # old_name[s]
      BY <3>3
    <3> QED
      BY <1>2, <1>5, <2>2, <3>4 DEF file_exists
  <2> QED
    BY <2>1, <2>2
<1>12. ASSUME NEW n \in FileNames, \A s \in Pending : n # old_name[s] /\ n # new_name[s]
       PROVE  AllAtOnce[n] = fs[n]
  <2>1. \A c \in Accepted : new_name[c] # n /\ old_name[c] # n
    BY <1>1, <1>7, <1>12
  <2> QED
    BY <1>2, <2>1
<1> QED
  BY <1>9, <1>10, <1>11, <1>12

\* qcp: so does its plan, in which every accepted file is itself.
LEMMA MadeCopies ==
  ASSUME MakingInv, Planned, external = 0, program = "qcp", Command = "cp"
  PROVE  /\ \A s \in Pending : AllAtOnce[new_name[s]] = fs[old_name[s]]
         /\ \A n \in FileNames : (\A s \in Pending : n # new_name[s]) => AllAtOnce[n] = fs[n]
<1>1. /\ PlanInv /\ StartsInv /\ ListsInv /\ StatusInv /\ Elems(work_files) = Listed
      /\ DestInv /\ Pending \subseteq Listed
      /\ \A i \in Listed : new_name[i] \in FileNames
  BY StateFacts, FilesListed DEF MakingInv, FilesInv, PlainInv, NamesInv
<1>2. Starts = {}
  <2> SUFFICES ASSUME NEW c \in Starts PROVE FALSE
    OBVIOUS
  <2>1. \E i \in 1 .. Len(ok) : ok[i] \notin Listed
    BY <1>1 DEF StartsInv, Planned, ByTemporaryName
  <2> QED
    BY <1>1, <2>1 DEF Pending, Elems
<1>3. Accepted = Pending
  <2>1. Accepted = {s \in Listed : status[s] \in OkStatus}
    BY <1>1 DEF Accepted
  <2> QED
    BY <1>1, <1>2, <2>1 DEF ListsInv, Starts, StatusInv, OkStatus
<1>4. \A c, d \in Accepted : new_name[c] = new_name[d] => c = d
  BY <1>1, <1>3 DEF DestInv
<1>5. /\ \A c \in Accepted : new_name[c] \in FileNames =>
                               AllAtOnce[new_name[c]] = fs[old_name[c]]
      /\ \A n \in FileNames : (\A c \in Accepted : new_name[c] # n) =>
           AllAtOnce[n] = IF Moves /\ \E c \in Accepted : old_name[c] = n THEN NoFile ELSE fs[n]
  BY <1>4, AllAtOnceFacts
<1>6. ~Moves
  BY DEF Moves, Command
<1> QED
  BY <1>1, <1>3, <1>5, <1>6

\* A command of qcp, done or failed, leaves the rest of the plan with the same goal.
LEMMA CopiesOn ==
  ASSUME HeldInv, CopySafe, Home, Command = "cp", program = "qcp", ~simulate,
         Succeed \/ Fail, Copied, goal' = goal
  PROVE  Copied'
<1>1. PICK r : r = rename
  OBVIOUS
<1>2. r \in Pending /\ PerformFailed(r) /\ UNCHANGED <<old_name, new_name>>
  BY <1>1, LoopCommand
<1>3. \A n \in FileNames \ {new_name[r]} : fs'[n] = fs[n]
  BY <1>2, CopyEffect DEF HeldInv, LoopInv, ApplyTypeOK
<1>4. /\ \A s \in Pending : /\ old_name[s] \in FileNames /\ new_name[s] \in FileNames
                            /\ old_name[s] # new_name[r]
      /\ \A s, t \in Pending : new_name[s] = new_name[t] => s = t
      /\ fs \in [FileNames -> FileNames \cup {NoFile, Partial}]
  BY <1>2 DEF HeldInv, LoopInv, PendingOK, CopySafe, NamesDistinct, ApplyTypeOK, DataTypeOK
<1>5. /\ Pending' \subseteq Pending
      /\ \A n \in FileNames : (\A s \in Pending' : n # new_name[s]) => goal[n] = fs'[n]
  <2>1. CASE Succeed
    <3>1. Pending' = Pending \ {r}
      BY <1>1, <2>1, SucceedEffect DEF HeldInv
    <3>2. fs'[new_name[r]] = fs[old_name[r]]
      BY <1>1, <1>2, <1>4, <2>1 DEF Succeed, PerformOk, Copy
    <3>3. ASSUME NEW n \in FileNames, \A s \in Pending' : n # new_name[s] PROVE goal[n] = fs'[n]
      <4>1. CASE n = new_name[r]
        BY <1>2, <3>2, <4>1 DEF Copied
      <4>2. CASE n # new_name[r]
        BY <1>3, <3>1, <3>3, <4>2 DEF Copied
      <4> QED
        BY <4>1, <4>2
    <3> QED
      BY <3>1, <3>3
  <2>2. CASE Fail
    <3>1. Pending' = Pending
      BY <2>2 DEF Fail, planVars, Pending
    <3> QED
      BY <1>2, <1>3, <3>1 DEF Copied
  <2> QED
    BY <2>1, <2>2
<1>6. \A s \in Pending' : goal[new_name[s]] = fs'[old_name[s]]
  BY <1>3, <1>4, <1>5 DEF Copied
<1> QED
  BY <1>2, <1>5, <1>6 DEF Copied

\* The goal is set when make_plan returns, and only then.
LEMMA GoalStays ==
  ASSUME SessionInv, EachPlanFresh, [Next]_vars
  PROVE  goal' = goal \/ PlanMade
<1> USE DEF idleVars, sessionVars, editVars, countVars
<1>1. CASE (stage = "list" /\ list_files) \/ list_command \/ import_command \/ FreeWorkFile \/ TakeListing
  BY <1>1 DEF list_files, list_command, import_command, FreeWorkFile, TakeListing
<1>2. CASE edit_files(TRUE)
  BY <1>2 DEF edit_files, EditSucceeds, EditNotStarted, EditBroken
<1>3. CASE PlanStep
  BY <1>3 DEF PlanStep
<1>4. CASE ApplyStep \/ ApplyDone \/ RunPlan \/ apply_command
  BY <1>4 DEF ApplyStep, ApplyDone, RunPlan, apply_command
<1>5. CASE QuietAction \/ UNCHANGED vars
  BY <1>5 DEF QuietAction, ListFails, quit_command, terminate_program, RunPlan, vars
<1> QED
  BY <1>1, <1>2, <1>3, <1>4, <1>5, SessionActions

\* What these formulas say depends on the plan and the directory only.
LEMMA GoalKept ==
  ASSUME UNCHANGED <<fs, ok, old_name, new_name, prev_spec>>, goal' = goal
  PROVE  (Stuck => Stuck') /\ (Moved => Moved') /\ (Copied => Copied')
<1>1. /\ Pending' = Pending
      /\ \A t, s \in Pending : /\ Fills(t, s)' <=> Fills(t, s)
                               /\ Replaces(t, s)' <=> Replaces(t, s)
      /\ \A t \in Pending : /\ FillsNone(t)' <=> FillsNone(t)
                            /\ FilledByNone(t)' <=> FilledByNone(t)
  BY RelationsKept
<1>2. Stuck => Stuck'
  BY <1>1 DEF Stuck, file_exists
<1>3. ASSUME Moved PROVE Moved'
  <2>1. /\ \A t \in Pending' : FillsNone(t)' /\ FilledByNone(t)' => goal[new_name[t]] = fs[old_name[t]]
        /\ \A t, u \in Pending' : FillsNone(t)' /\ Fills(u, t)' => goal[new_name[t]] = fs[old_name[u]]
        /\ \A s \in Pending' : (\A t \in Pending' : ~Replaces(t, s)') => goal[old_name[s]] = NoFile
        /\ \A n \in FileNames :
             (\A s \in Pending' : n # old_name[s] /\ n # new_name[s]) => goal[n] = fs[n]
    BY <1>1, <1>3 DEF Moved
  <2> QED
    BY <2>1 DEF Moved
<1>4. Copied => Copied'
  BY <1>1 DEF Copied
<1> QED
  BY <1>2, <1>3, <1>4

\* When make_plan returns, the plan leads to the goal.
LEMMA MadeGoal ==
  ASSUME SessionInv, EachPlanFresh, OwnCommand, PlanMade
  PROVE  GoalInv'
<1>1. /\ MakingInv /\ Planned /\ external = 0
      /\ goal' = IF simulate THEN fs ELSE AllAtOnce
      /\ UNCHANGED <<fs, ok, old_name, new_name, prev_spec, options>>
  BY DEF SessionInv, StagesInv, PlanMade, dataVars, fieldVars, planVars
<1>2. program' = program /\ simulate' = simulate
  BY <1>1 DEF program, simulate
<1>3. /\ Pending' = Pending
      /\ \A t, s \in Pending : /\ Fills(t, s)' <=> Fills(t, s)
                               /\ Replaces(t, s)' <=> Replaces(t, s)
      /\ \A t \in Pending : /\ FillsNone(t)' <=> FillsNone(t)
                            /\ FilledByNone(t)' <=> FilledByNone(t)
  BY <1>1, RelationsKept
<1>4. ASSUME ~simulate, program = "qmv" PROVE Moved'
  <2>1. PICK g : g = AllAtOnce
    OBVIOUS
  <2>2. /\ \A t \in Pending :
              FillsNone(t) /\ FilledByNone(t) => g[new_name[t]] = fs[old_name[t]]
        /\ \A t, u \in Pending :
              FillsNone(t) /\ Fills(u, t) => g[new_name[t]] = fs[old_name[u]]
        /\ \A s \in Pending :
              (\A t \in Pending : ~Replaces(t, s)) => g[old_name[s]] = NoFile
        /\ \A n \in FileNames :
              (\A s \in Pending : n # old_name[s] /\ n # new_name[s]) => g[n] = fs[n]
    BY <1>1, <1>4, <2>1, MadeMoves DEF OwnCommand
  <2>3. goal' = g
    BY <1>1, <1>4, <2>1
  <2>4. /\ \A t \in Pending' : FillsNone(t)' /\ FilledByNone(t)' => g[new_name[t]] = fs[old_name[t]]
        /\ \A t, u \in Pending' : FillsNone(t)' /\ Fills(u, t)' => g[new_name[t]] = fs[old_name[u]]
        /\ \A s \in Pending' : (\A t \in Pending' : ~Replaces(t, s)') => g[old_name[s]] = NoFile
        /\ \A n \in FileNames :
             (\A s \in Pending' : n # old_name[s] /\ n # new_name[s]) => g[n] = fs[n]
    BY <1>3, <2>2
  <2> QED
    BY <1>1, <2>3, <2>4 DEF Moved
<1>5. ASSUME ~simulate, program = "qcp" PROVE Copied'
  <2>1. PICK g : g = AllAtOnce
    OBVIOUS
  <2>2. /\ \A s \in Pending : g[new_name[s]] = fs[old_name[s]]
        /\ \A n \in FileNames : (\A s \in Pending : n # new_name[s]) => g[n] = fs[n]
    BY <1>1, <1>5, <2>1, MadeCopies DEF OwnCommand
  <2>3. goal' = g
    BY <1>1, <1>5, <2>1
  <2> QED
    BY <1>1, <1>3, <2>2, <2>3 DEF Copied
<1>6. simulate => goal' = fs'
  BY <1>1
<1> QED
  BY <1>2, <1>4, <1>5, <1>6 DEF GoalInv

\* The rest of the plan always leads to the goal, unless it is stuck.
LEMMA GoalStep ==
  ASSUME SessionInv, EachPlanFresh, OwnCommand, OwnInv, GoalInv, [Next]_vars
  PROVE  GoalInv'
<1>1. CASE PlanMade
  BY <1>1, MadeGoal
<1>2. CASE ~PlanMade
  <2> SUFFICES ASSUME plan', stage' # "plan"
               PROVE  /\ simulate' => goal' = fs'
                      /\ ~simulate' /\ program' = "qmv" => Stuck' \/ Moved'
                      /\ ~simulate' /\ program' = "qcp" => Copied'
    BY DEF GoalInv
  <2>1. plan /\ stage # "plan" /\ [ApplyNext]_applyVars /\ goal' = goal /\ HeldInv
    BY <1>2, KeptPlan, GoalStays DEF SessionInv
  <2>2. program' = program /\ simulate' = simulate
    BY OptionsStay DEF program, simulate
  <2>3. ASSUME simulate PROVE goal' = fs'
    <3>1. goal = fs
      BY <2>1, <2>3 DEF GoalInv
    <3>2. fs' = fs
      BY <2>3, FilesStay, DummyStay
    <3> QED
      BY <2>1, <3>1, <3>2
  <2>4. ASSUME ~(Succeed \/ Fail)
        PROVE  (Stuck => Stuck') /\ (Moved => Moved') /\ (Copied => Copied')
    <3>1. UNCHANGED <<fs, ok, old_name, new_name, prev_spec>>
      BY <2>1, <2>4 DEF ApplyNext, apply_plan, StartApply, ApplyEmptyPlan, Skip, EndApply, applyVars,
             dataVars, fieldVars, planVars
    <3> QED
      BY <2>1, <3>1, GoalKept
  <2>5. ASSUME ~simulate, program = "qmv" PROVE Stuck' \/ Moved'
    <3>1. SafeInv /\ Command = "mv" /\ (Stuck \/ Moved)
      BY <2>1, <2>5 DEF OwnInv, OwnCommand, GoalInv
    <3>2. CASE Succeed \/ Fail
      BY <2>1, <2>5, <3>1, <3>2, StaysStuck, SucceedMoves, FailMoves
    <3> QED
      BY <2>4, <3>1, <3>2
  <2>6. ASSUME ~simulate, program = "qcp" PROVE Copied'
    <3>1. CopySafe /\ Home /\ Command = "cp" /\ Copied
      BY <2>1, <2>6 DEF OwnInv, OwnCommand, GoalInv
    <3>2. CASE Succeed \/ Fail
      BY <2>1, <2>6, <3>1, <3>2, CopiesOn
    <3> QED
      BY <2>4, <3>1, <3>2
  <2> QED
    BY <2>2, <2>3, <2>5, <2>6
<1> QED
  BY <1>1, <1>2

\* So whenever the plan is empty, the goal is reached.
LEMMA GoalReached ==
  ASSUME SessionInv, OwnCommand, GoalInv
  PROVE  PlanCarriedOut
<1> SUFFICES ASSUME stage \in {"prompt", "exited"}, plan, ok = <<>> PROVE fs = goal
  BY DEF PlanCarriedOut
<1>1. Pending = {}
  BY EmptyElems DEF Pending
<1>2. /\ fs \in [FileNames -> FileNames \cup {NoFile, Partial}]
      /\ goal \in [FileNames -> FileNames \cup {NoFile, Partial}]
  BY DEF SessionInv, SessionTypeOK, ApplyTypeOK, DataTypeOK
<1>3. CASE simulate
  BY <1>3 DEF GoalInv
<1>4. CASE ~simulate
  <2>1. ~Stuck
    BY <1>1 DEF Stuck
  <2>2. Moved \/ Copied
    BY <1>4, <2>1 DEF GoalInv, OwnCommand
  <2>3. \A n \in FileNames : goal[n] = fs[n]
    BY <1>1, <2>2 DEF Moved, Copied
  <2> QED
    BY <1>2, <2>3
<1> QED
  BY <1>3, <1>4

(***************************************************************************)
(* A plan that has been carried out, at once or after any failures and     *)
(* retries, has done what the user asked for: all accepted files were      *)
(* renamed or copied as if at the same moment, all other files are where   *)
(* they were, and no temporary name is left over.                          *)
(***************************************************************************)
THEOREM PlanCarriedOutAlways == Spec /\ EachPlanFresh /\ OwnCommand => []PlanCarriedOut
<1>1. Init => GoalInv
  BY DEF Init, GoalInv
<1>2. SessionInv /\ EachPlanFresh /\ OwnCommand /\ OwnInv /\ GoalInv /\ [Next]_vars => GoalInv'
  BY GoalStep
<1>3. SessionInv /\ OwnCommand /\ GoalInv => PlanCarriedOut
  BY GoalReached
<1> QED
  BY <1>1, <1>2, <1>3, OwnAlways, PTL DEF Spec
==============================================================================
