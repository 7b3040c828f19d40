------------------------------- MODULE MakePlan -------------------------------
(***************************************************************************)
(* make_plan (plan.c): from the old and the new name of every FileSpec in  *)
(* work_files, decide which renames can be done, in which order, and which *)
(* are refused.                                                            *)
(*                                                                         *)
(* make_plan is a sequence of scans over work_files.  One action is one    *)
(* iteration of a loop of the code, so that other processes can change the *)
(* directory between two of its file_exists calls.  pc names the loop,     *)
(* `it' is its iterator (the index of the element that next() returns),    *)
(* and `map' is the hash map local to the scan, an absent key being NULL.  *)
(***************************************************************************)
EXTENDS FileSpecs

CONSTANTS
  MaxTmp,       \* bound on the temporary names tried for one circular set
  Listable,     \* the names that a listing can contain
  TmpName,      \* TmpName[<<n, k>>] is xasprintf("%s-%d", n, k)
  Scenarios     \* what a behaviour starts from, by the name of the scenario:
                \*   listing      the names that ls printed, in order
                \*   directories  the sets of files that can be there at first
                \*   names        the names that a user types in the editor
                \*   setups       the ways to start the program
                \*   external     bound on what other processes do meanwhile

ASSUME PlanAssumption ==
  /\ MaxTmp \in Nat \ {0}
  /\ Listable \subseteq FileNames
  /\ TmpName \in [Listable \X (1 .. MaxTmp) -> FileNames]
  /\ \A x, y \in Listable \X (1 .. MaxTmp) : TmpName[x] = TmpName[y] => x = y

ASSUME ScenarioAssumption ==   \* process_ls_output drops a file already listed
  \A c \in DOMAIN Scenarios :
    LET listing == Scenarios[c].listing
    IN  /\ listing \in Seq(Listable) /\ Len(listing) <= MaxSpecs
        /\ \A i, j \in 1 .. Len(listing) : listing[i] = listing[j] => i = j
        /\ \A files \in Scenarios[c].directories : files \subseteq FileNames
        /\ Scenarios[c].names \subseteq FileNames
        /\ Scenarios[c].setups \subseteq Setups
        /\ Scenarios[c].external \in Nat

VARIABLES
  pc, it, map,                                \* the loop, its iterator, its map
  pending, changed,                           \* topologic_sort
  map_new, s1, s2, prev_circular, tmp_count,  \* cross_reference_resolve
  external,                                   \* what other processes did
  printed,                                    \* the names that ls printed for
                                              \* work_files, in their order
  scenario                                    \* constant in a behaviour

sortVars  == <<pending, changed>>
crossVars == <<map_new, s1, s2, prev_circular, tmp_count>>
localVars == <<pc, it, map, sortVars, crossVars>>
envVars   == <<external, options, printed, scenario>>
makePlanVars == <<dataVars, localVars, envVars>>

NewNames == Scenarios[scenario].names

EmptyMap == [n \in FileNames |-> NULL]

-----------------------------------------------------------------------------
(***************************************************************************)
(* make_plan's sequence of loops.                                          *)
(***************************************************************************)
ChecksDone ==
  CASE program = "qmv" -> "dest_exists"
    [] program = "qcp" -> "new_exists_map"
    [] OTHER -> "apply_unchecked"

NextScan ==
  [previous_scan     |-> "duplicate_scan",
   duplicate_scan    |-> "old_missing_scan",
   old_missing_scan  |-> "no_change_scan",
   no_change_scan    |-> ChecksDone,
   dest_exists       |-> "topologic_sort",        \* topologic_sort
   topologic_sort    |-> "cross_map",
   cross_map         |-> "cross_reference",       \* cross_reference_resolve
   cross_reference   |-> "apply_unchecked",
   new_exists_map    |-> "new_exists_source",     \* new_exists_scan
   new_exists_source |-> "new_exists_dest",
   new_exists_dest   |-> "apply_unchecked",
   apply_unchecked   |-> "planned"]

\* The loops over work_files.
Scans == DOMAIN NextScan \ {"topologic_sort"}

\* These loops leave their map to the next loop of the same function.
KeepsMap == {"dest_exists", "cross_map", "new_exists_map"}

More == it <= Len(work_files)
spec == work_files[it]

\* The body of loop `scan' runs on the next element of work_files.
InScan(scan) == pc = scan /\ More /\ it' = it + 1 /\ pc' = pc

EndScan ==
  /\ pc \in Scans /\ ~More
  /\ pc' = NextScan[pc]
  /\ it' = First
  /\ map' = IF pc \in KeepsMap THEN map ELSE EmptyMap
  /\ map_new' = IF pc = "cross_reference" THEN EmptyMap ELSE map_new
  /\ UNCHANGED <<dataVars, sortVars, s1, s2, prev_circular, tmp_count, envVars>>

-----------------------------------------------------------------------------
\* Files already in a plan keep their place in the next one.
previous_scan ==
  /\ InScan("previous_scan")
  /\ ok' = IF status[spec] \in OkStatus THEN llist_add(ok, spec) ELSE ok
  /\ no_change' = IF status[spec] = "NO_CHANGE" THEN llist_add(no_change, spec)
                                                ELSE no_change
  /\ error' = IF status[spec] \in ErrorStatus THEN llist_add(error, spec) ELSE error
  /\ UNCHANGED <<fs, fieldVars, work_files, map, sortVars, crossVars, envVars>>

\* The specs of a new destination clash that were not yet known as duplicates.
NewDuplicatesRepeated(spec2) == <<spec2, spec>>
NewDuplicates(spec2) == IF status[spec2] = "UNCHECKED" THEN <<spec2, spec>> ELSE <<spec>>

duplicate_scan_none ==
  InScan("duplicate_scan") /\ UNCHANGED <<dataVars, map, sortVars, crossVars, envVars>>

duplicate_scan ==
  /\ InScan("duplicate_scan")
  /\ IF status[spec] # "UNCHECKED" THEN UNCHANGED <<map, status, error>>
     ELSE /\ map' = [map EXCEPT ![new_name[spec]] = spec]
          /\ LET spec2 == map[new_name[spec]]
             IN  IF spec2 = NULL THEN UNCHANGED <<status, error>>
                 ELSE /\ status' = [status EXCEPT ![spec2] = "DUPLICATE",
                                                  ![spec]  = "DUPLICATE"]
                      /\ error' = error \o NewDuplicates(spec2)
  /\ UNCHANGED <<fs, old_name, new_name, prev_spec, next_spec, ok, no_change,
                 work_files, sortVars, crossVars, envVars>>

\* A scan that gives the unchecked specs that satisfy `bad' an error status.
Refuse(scan, bad, newStatus) ==
  /\ InScan(scan)
  /\ IF status[spec] = "UNCHECKED" /\ bad
     THEN /\ status' = [status EXCEPT ![spec] = newStatus]
          /\ error' = llist_add(error, spec)
     ELSE UNCHANGED <<status, error>>
  /\ UNCHANGED <<fs, old_name, new_name, prev_spec, next_spec, ok, no_change,
                 work_files, map, sortVars, crossVars, envVars>>

old_missing_scan ==
  Refuse("old_missing_scan", ~file_exists(old_name[spec]), "OLD_MISSING")

no_change_scan ==
  /\ InScan("no_change_scan")
  /\ IF status[spec] = "UNCHECKED" /\ old_name[spec] = new_name[spec]
     THEN /\ status' = [status EXCEPT ![spec] = "NO_CHANGE"]
          /\ no_change' = llist_add(no_change, spec)
     ELSE UNCHANGED <<status, no_change>>
  /\ UNCHANGED <<fs, old_name, new_name, prev_spec, next_spec, ok, error,
                 work_files, map, sortVars, crossVars, envVars>>

-----------------------------------------------------------------------------
(***************************************************************************)
(* topologic_sort (qmv).  map is `available': the renames in the plan, by  *)
(* the name that they vacate and that no other rename has claimed yet.     *)
(***************************************************************************)
dest_exists ==
  /\ InScan("dest_exists")
  /\ CASE status[spec] # "UNCHECKED" ->
            UNCHANGED <<map, status, ok, pending>>
       [] status[spec] = "UNCHECKED" /\ ~file_exists(new_name[spec]) ->
            /\ map' = [map EXCEPT ![old_name[spec]] = spec]
            /\ status' = [status EXCEPT ![spec] = "APPLY"]
            /\ ok' = llist_add(ok, spec)
            /\ UNCHANGED pending
       [] status[spec] = "UNCHECKED" /\ file_exists(new_name[spec]) ->
            /\ pending' = llist_add(pending, spec)
            /\ UNCHANGED <<map, status, ok>>
  /\ UNCHANGED <<fs, old_name, new_name, prev_spec, next_spec, error, no_change,
                 work_files, changed, crossVars, envVars>>

\* `available' once p, that takes the place of depend, is in the plan.
ClaimOnly(p) == [map EXCEPT ![new_name[p]] = NULL]
Claim(p) == [map EXCEPT ![old_name[p]] = p, ![new_name[p]] = NULL]

topologic_sort ==
  /\ pc = "topologic_sort" /\ it <= Len(pending)
  /\ LET p == pending[it]
         depend == map[new_name[p]]
     IN  IF depend = NULL
         THEN it' = it + 1 /\ UNCHANGED <<fieldVars, ok, map, sortVars>>
         ELSE /\ pending' = Without(pending, it)
              /\ prev_spec' = [prev_spec EXCEPT ![p] = depend]
              /\ next_spec' = [next_spec EXCEPT ![depend] = p]
              /\ map' = Claim(p)
              /\ status' = [status EXCEPT ![p] = "APPLY"]
              /\ ok' = llist_add(ok, p)
              /\ changed' = TRUE
              /\ UNCHANGED <<it, old_name, new_name>>
  /\ UNCHANGED <<fs, error, no_change, work_files, pc, crossVars, envVars>>

\* do { ... } while (changed)
EndTopologicPass ==
  /\ pc = "topologic_sort" /\ it > Len(pending)
  /\ it' = First
  /\ changed' = FALSE
  /\ IF changed THEN UNCHANGED <<pc, map, pending>>
     ELSE pc' = NextScan[pc] /\ map' = EmptyMap /\ pending' = <<>>
  /\ UNCHANGED <<dataVars, crossVars, envVars>>

-----------------------------------------------------------------------------
(***************************************************************************)
(* cross_reference_resolve (qmv).  map is map_old.                         *)
(***************************************************************************)
cross_map ==
  /\ InScan("cross_map")
  /\ map' = IF status[spec] = "UNCHECKED"
            THEN [map EXCEPT ![old_name[spec]] = spec] ELSE map
  /\ map_new' = IF status[spec] \in {"UNCHECKED", "APPLY"}
                THEN [map_new EXCEPT ![new_name[spec]] = spec] ELSE map_new
  /\ UNCHANGED <<dataVars, sortVars, s1, s2, prev_circular, tmp_count, envVars>>

cross_reference ==
  /\ pc = "cross_reference" /\ More
  /\ IF status[spec] # "UNCHECKED"
     THEN it' = it + 1 /\ UNCHANGED <<pc, s1, s2, prev_circular, tmp_count>>
     ELSE /\ pc' = "follow" /\ it' = it
          /\ s1' = spec /\ s2' = spec /\ prev_circular' = spec
          /\ tmp_count' = 1
  /\ UNCHANGED <<dataVars, map, sortVars, map_new, envVars>>

\* Back in the loop over work_files, with s1, s2 and the others out of scope.
NextReference ==
  /\ pc' = "cross_reference" /\ it' = it + 1
  /\ s1' = NULL /\ s2' = NULL /\ prev_circular' = NULL /\ tmp_count' = 0

\* Where the walk from new to old names goes from s2.
FollowingFromStart == map[new_name[s1]]
Following == map[new_name[s2]]

\* The walk reached a file that stays, so the destination of s1 is taken.
DeadEnd == Following \notin {s \in Refs : status[s] = "UNCHECKED"}

FollowToDeadEnd ==
  /\ pc = "follow" /\ DeadEnd
  /\ next_spec' = [next_spec EXCEPT ![s1] = NULL]
  /\ status' = [status EXCEPT ![s1] = "NEW_EXISTS"]
  /\ error' = llist_add(error, s1)
  /\ NextReference
  /\ UNCHANGED <<fs, old_name, new_name, prev_spec, ok, no_change, work_files,
                 map, sortVars, map_new, envVars>>

\* next_spec = NULL in s1 itself is a dead end to the code.
FollowToStart ==
  /\ pc = "follow" /\ ~DeadEnd /\ Following = s1
  /\ next_spec' = [next_spec EXCEPT ![prev_circular] = NULL]
  /\ IF next_spec'[s1] = NULL
     THEN /\ status' = [status EXCEPT ![s1] = "NEW_EXISTS"]
          /\ error' = llist_add(error, s1)
          /\ NextReference
     ELSE /\ pc' = "temporary"
          /\ UNCHANGED <<status, error, it, s1, s2, prev_circular, tmp_count>>
  /\ UNCHANGED <<fs, old_name, new_name, prev_spec, ok, no_change, work_files,
                 map, sortVars, map_new, envVars>>

FollowOn ==
  /\ pc = "follow" /\ ~DeadEnd /\ Following # s1
  /\ next_spec' = [next_spec EXCEPT ![prev_circular] = Following]
  /\ s2' = Following
  /\ prev_circular' = Following
  /\ UNCHANGED <<fs, old_name, new_name, prev_spec, status, planVars, work_files,
                 pc, it, map, sortVars, map_new, s1, tmp_count, envVars>>

tmp_name == TmpName[<<old_name[s1], tmp_count>>]
TmpTakenByFile == file_exists(tmp_name)
TmpTaken == file_exists(tmp_name) \/ map_new[tmp_name] # NULL

TryNextTmp ==
  /\ pc = "temporary" /\ tmp_count < MaxTmp
  /\ TmpTaken
  /\ tmp_count' = tmp_count + 1
  /\ UNCHANGED <<dataVars, pc, it, map, sortVars, map_new, s1, s2, prev_circular,
                 envVars>>

(***************************************************************************)
(* A copy of s1, `t', takes the place of s1 in the plan: its old name will *)
(* be the temporary name.  tmp_name is from here on the new name that      *)
(* AddExtraRename gives, kept in old_name[t].                              *)
(***************************************************************************)
ReplaceStart ==
  /\ pc = "temporary"
  /\ ~TmpTaken /\ CanAllocate
  /\ LET t == new_file_spec
     IN  /\ ok' = llist_add_first(ok, t)
         /\ status' = [status EXCEPT ![t] = "CIRCULAR", ![s1] = "APPLY"]
         /\ old_name' = [old_name EXCEPT ![t] = tmp_name]
         /\ new_name' = [new_name EXCEPT ![t] = new_name[s1]]
         /\ next_spec' = [next_spec EXCEPT ![t] = next_spec[s1], ![s1] = NULL]
         /\ prev_spec' = [prev_spec EXCEPT ![t] = prev_spec[s1], ![s1] = NULL]
         /\ prev_circular' = t
         /\ s2' = next_spec[s1]
  /\ pc' = "collect"
  /\ UNCHANGED <<fs, error, no_change, work_files, it, map, sortVars, map_new,
                 s1, tmp_count, envVars>>

CollectCircular ==
  /\ pc = "collect" /\ s2 # NULL
  /\ status' = [status EXCEPT ![s2] = "CIRCULAR"]
  /\ ok' = llist_add_first(ok, s2)
  /\ s2' = next_spec[s2]
  /\ UNCHANGED <<fs, old_name, new_name, prev_spec, next_spec, error, no_change,
                 work_files, pc, it, map, sortVars, map_new, s1, prev_circular,
                 tmp_count, envVars>>

\* The specs of the circular set in the plan, in order: e, ..., t.
CircularSet(e, t) ==
  <<e>> \o SubSeq(ok, 1, CHOOSE i \in 1 .. Len(ok) : ok[i] = t)

\* f with the elements of list changed so that f[list[i]] = list[i + step].
BeforeNothing(f, list) == f
Before(f, list) ==
  [s \in Refs |-> IF \E i \in 2 .. Len(list) : list[i] = s
                  THEN list[(CHOOSE i \in 2 .. Len(list) : list[i] = s) - 1]
                  ELSE f[s]]
AfterNothing(f, list) == f
After(f, list) ==
  [s \in Refs |-> IF \E i \in 1 .. Len(list) - 1 : list[i] = s
                  THEN list[(CHOOSE i \in 1 .. Len(list) - 1 : list[i] = s) + 1]
                  ELSE f[s]]

(***************************************************************************)
(* The extra rename `e', of s1's old name to the temporary name, goes      *)
(* first; then each rename of the set depends on the one before it.        *)
(***************************************************************************)
AddExtraRename ==
  /\ pc = "collect" /\ s2 = NULL
  /\ CanAllocate
  /\ LET t == prev_circular
         e == new_file_spec
     IN  /\ ok' = llist_add_first(ok, e)
         /\ status' = [status EXCEPT ![e] = "CIRCULAR"]
         /\ old_name' = [old_name EXCEPT ![e] = old_name[s1]]
         /\ new_name' = [new_name EXCEPT ![e] = old_name[t]]
         /\ prev_spec' = Before(prev_spec, CircularSet(e, t))
         /\ next_spec' = [After(next_spec, CircularSet(e, t)) EXCEPT ![t] = NULL]
  /\ NextReference
  /\ UNCHANGED <<fs, error, no_change, work_files, map, sortVars, map_new, envVars>>

-----------------------------------------------------------------------------
(***************************************************************************)
(* new_exists_scan (qcp): map holds the old names of the unchecked specs.  *)
(***************************************************************************)
new_exists_map ==
  /\ InScan("new_exists_map")
  /\ map' = IF status[spec] = "UNCHECKED"
            THEN [map EXCEPT ![old_name[spec]] = spec] ELSE map
  /\ UNCHANGED <<dataVars, sortVars, crossVars, envVars>>

new_exists_source ==
  Refuse("new_exists_source", map[new_name[spec]] # NULL, "NEW_EXISTS")

new_exists_dest ==
  Refuse("new_exists_dest", file_exists(new_name[spec]), "NEW_EXISTS")

apply_unchecked ==
  /\ InScan("apply_unchecked")
  /\ IF status[spec] = "UNCHECKED"
     THEN /\ status' = [status EXCEPT ![spec] = "APPLY"]
          /\ ok' = llist_add(ok, spec)
     ELSE UNCHANGED <<status, ok>>
  /\ UNCHANGED <<fs, old_name, new_name, prev_spec, next_spec, error, no_change,
                 work_files, map, sortVars, crossVars, envVars>>

-----------------------------------------------------------------------------
(***************************************************************************)
(* Another process creates, replaces or removes a file.                    *)
(***************************************************************************)
OtherProcess ==
  /\ external < Scenarios[scenario].external /\ pc # "planned"
  /\ external' = external + 1
  /\ \E n \in FileNames : fs' = [fs EXCEPT ![n] = IF file_exists(n) THEN NoFile ELSE n]
  /\ UNCHANGED <<fieldVars, planVars, work_files, localVars, options, printed, scenario>>

CrossReferenceResolve ==
  \/ cross_map \/ cross_reference
  \/ FollowToDeadEnd \/ FollowToStart \/ FollowOn
  \/ TryNextTmp \/ ReplaceStart \/ CollectCircular \/ AddExtraRename

make_plan ==
  \/ EndScan
  \/ previous_scan \/ duplicate_scan \/ old_missing_scan \/ no_change_scan
  \/ dest_exists \/ topologic_sort \/ EndTopologicPass
  \/ CrossReferenceResolve
  \/ new_exists_map \/ new_exists_source \/ new_exists_dest
  \/ apply_unchecked

(***************************************************************************)
(* make_plan is called right after `edit all' on a fresh listing: nothing  *)
(* is checked, each file has the new name the user typed, and any of the   *)
(* listed files may have disappeared since.                                *)
(***************************************************************************)
Listed == 1 .. Len(printed)

FreshSpecs(names) ==
  /\ work_files = [i \in Listed |-> i]
  /\ old_name = [s \in Refs |-> IF s \in Listed THEN printed[s] ELSE NoFile]
  /\ new_name = [s \in Refs |-> IF s \in Listed THEN names[s] ELSE NoFile]
  /\ status = [s \in Refs |-> IF s \in Listed THEN "UNCHECKED" ELSE "FREE"]
  /\ prev_spec = [s \in Refs |-> NULL]
  /\ next_spec = [s \in Refs |-> NULL]

EmptyPlan == ok = <<>> /\ error = <<>> /\ no_change = <<>>

InitLocals(start) ==
  /\ pc = start /\ it = First /\ map = EmptyMap
  /\ pending = <<>> /\ changed = FALSE
  /\ map_new = EmptyMap
  /\ s1 = NULL /\ s2 = NULL /\ prev_circular = NULL /\ tmp_count = 0

PlanInit ==
  /\ scenario \in DOMAIN Scenarios /\ printed = Scenarios[scenario].listing
  /\ \E names \in [Listed -> NewNames] : FreshSpecs(names)
  /\ \E files \in Scenarios[scenario].directories :
        fs = [n \in FileNames |-> IF n \in files THEN n ELSE NoFile]
  /\ EmptyPlan
  /\ options \in Scenarios[scenario].setups
  /\ InitLocals("previous_scan")
  /\ external = 0

Planned == pc = "planned"

PlanDone == Planned /\ UNCHANGED makePlanVars

PlanNext == make_plan \/ OtherProcess \/ PlanDone

\* make_plan has no lock and no wait: the process that runs it is scheduled.
PlanSpec == PlanInit /\ [][PlanNext]_makePlanVars /\ WF_makePlanVars(make_plan)

-----------------------------------------------------------------------------
PlanTypeOK ==
  /\ DataTypeOK
  /\ pc \in Scans \cup {"topologic_sort", "follow", "temporary", "collect", "planned"}
  /\ it \in Nat \ {0}
  /\ map \in [FileNames -> Refs \cup {NULL}]
  /\ pending \in Seq(Refs)
  /\ changed \in BOOLEAN
  /\ map_new \in [FileNames -> Refs \cup {NULL}]
  /\ {s1, s2, prev_circular} \subseteq Refs \cup {NULL}
  /\ tmp_count \in 0 .. MaxTmp
  /\ external \in 0 .. Scenarios[scenario].external
  /\ printed \in Seq(Listable)

(***************************************************************************)
(* The list of renames to do is sorted by dependency, as qcmd.h requires   *)
(* of it before apply_plan runs: what a rename waits for comes before it.  *)
(***************************************************************************)
PlanSorted == Planned => Sorted

(***************************************************************************)
(* prev_spec and next_spec of the planned renames mirror each other: that  *)
(* is what lets free_file_spec release the rename that waits for the freed *)
(* one, and only that one.                                                 *)
(***************************************************************************)
PlanLinksMirrored == Planned => Mirrored /\ NoRepeat

(***************************************************************************)
(* No two planned renames, those to and from a temporary name included,    *)
(* have the same destination, whatever other processes do meanwhile.       *)
(***************************************************************************)
OneDestinationEach ==
  Planned => \A s, t \in Pending : new_name[s] = new_name[t] => s = t

(***************************************************************************)
(* Undisturbed, qmv makes a plan that can be applied without ever moving   *)
(* a file onto another one: "their destination name won't exist when they  *)
(* are to be renamed" (plan.c, topologic_sort), and the temporary names of *)
(* circular sets are filled and vacated in the right order.                *)
(***************************************************************************)
PlanIsReady ==
  Planned /\ external = 0 /\ program = "qmv" =>
    /\ PlanReady
    /\ \A s \in Pending : prev_spec[s] = NULL => ~file_exists(new_name[s])

(***************************************************************************)
(* Each listed file is in exactly one list of the plan, once, except the   *)
(* first file of a circular set: two specs of the plan stand for it, one   *)
(* that moves it to a temporary name and one that moves it from there.     *)
(***************************************************************************)
Occurrences(s) == {i \in 1 .. Len(ok) : ok[i] = s}

ByTemporaryName(s) ==
  \E i, j \in 1 .. Len(ok) :
    /\ i < j
    /\ {ok[i], ok[j]} \cap Elems(work_files) = {}
    /\ old_name[ok[i]] = old_name[s] /\ new_name[ok[j]] = new_name[s]
    /\ new_name[ok[i]] = old_name[ok[j]]

EachFileOnce ==
  Planned => \A s \in Elems(work_files) :
    LET places == Cardinality(Occurrences(s))
                  + Cardinality({i \in 1 .. Len(error) : error[i] = s})
                  + Cardinality({i \in 1 .. Len(no_change) : no_change[i] = s})
    IN  places = (IF ByTemporaryName(s) THEN 0 ELSE 1)

(***************************************************************************)
(* Undisturbed, the plan accepts exactly the renames that can be done.     *)
(* Among the files that exist, change their name and share their           *)
(* destination with no other file, qmv accepts the largest set in which    *)
(* every destination is unused or vacated by a member of the set (so       *)
(* chains and cycles are accepted, however they are listed); qcp accepts   *)
(* those with an unused destination; another command gets them all.        *)
(***************************************************************************)
Candidates ==
  {s \in Elems(work_files) :
     /\ \A t \in Elems(work_files) : t # s => new_name[t] # new_name[s]
     /\ file_exists(old_name[s])
     /\ old_name[s] # new_name[s]}

AllVacated(set) ==
  \A s \in set : \/ ~file_exists(new_name[s])
                  \/ \E t \in set : old_name[t] = new_name[s]

Feasible ==
  CASE program = "qmv" -> UNION {set \in SUBSET Candidates : AllVacated(set)}
    [] program = "qcp" -> {s \in Candidates : ~file_exists(new_name[s])}
    [] OTHER -> Candidates

PlanIsFeasibleSet ==
  Planned /\ external = 0 => {s \in Elems(work_files) : status[s] \in OkStatus} = Feasible

(***************************************************************************)
(* make_plan returns: neither topologic_sort's passes nor the walk through *)
(* cross references, nor the search for a temporary name, go on forever.   *)
(***************************************************************************)
PlanTerminates == <>Planned
==============================================================================
