------------------------- MODULE MakePlanFilesProofs --------------------------
(***************************************************************************)
(* Where the listed files end up: each is in one list of the plan, once,    *)
(* unless two extra renames stand for it; and, if no other process          *)
(* interferes, the files that are planned are exactly those that can be     *)
(* renamed: for any listing, any names typed by the user and any of the     *)
(* programs.                                                                *)
(***************************************************************************)
EXTENDS MakePlanProofs, FiniteSetTheorems

USE DEF First, NULL

-----------------------------------------------------------------------------
(***************************************************************************)
(* The lists of refused and unchanged files hold each of these files once. *)
(***************************************************************************)
Distinct(list) == \A i, j \in 1 .. Len(list) : list[i] = list[j] => i = j

ListsInv ==
  /\ Distinct(error) /\ Distinct(no_change)
  /\ Elems(error) = {i \in Listed : status[i] \in ErrorStatus}
  /\ Elems(no_change) = {i \in Listed : status[i] = "NO_CHANGE"}
  /\ \A i \in Listed : status[i] = "CIRCULAR" => i \in Pending

\* An element that is not in the list yet goes to its end.
LEMMA DistinctAppend ==
  ASSUME NEW S, NEW list \in Seq(S), Distinct(list), NEW x \in S, x \notin Elems(list)
  PROVE  Distinct(Append(list, x))
<1>1. /\ Len(Append(list, x)) = Len(list) + 1
      /\ Append(list, x)[Len(list) + 1] = x
      /\ \A i \in 1 .. Len(list) : Append(list, x)[i] = list[i]
  BY AppendElems
<1>2. \A i \in 1 .. Len(list) : list[i] # x
  BY DEF Elems
<1>3. \A i \in 1 .. Len(list) + 1 : i \in 1 .. Len(list) \/ i = Len(list) + 1
  OBVIOUS
<1> QED
  BY <1>1, <1>2, <1>3 DEF Distinct

-----------------------------------------------------------------------------
(***************************************************************************)
(* What a step does to the listed files: nothing, or one unchecked file is *)
(* refused, left alone or planned.  Only a clash of destinations refuses   *)
(* two at a time.                                                          *)
(***************************************************************************)
Others(x) == \A i \in Listed \ {x} : status'[i] = status[i]

LeavesFiles ==
  /\ \A i \in Listed : status'[i] = status[i]
  /\ UNCHANGED <<error, no_change>> /\ Pending \subseteq Pending'

RefusesFile(x) ==
  /\ Others(x) /\ status'[x] \in {"OLD_MISSING", "NEW_EXISTS"}
  /\ error' = Append(error, x) /\ no_change' = no_change /\ Pending' = Pending

KeepsFile(x) ==
  /\ Others(x) /\ status'[x] = "NO_CHANGE"
  /\ error' = error /\ no_change' = Append(no_change, x) /\ Pending' = Pending

PlansFile(x) ==
  /\ Others(x) /\ status'[x] \in OkStatus
  /\ UNCHANGED <<error, no_change>> /\ Pending \subseteq Pending'
  /\ status'[x] = "CIRCULAR" => x \in Pending'

FileStep ==
  \/ LeavesFiles
  \/ \E x \in Unchecked : RefusesFile(x) \/ KeepsFile(x) \/ PlansFile(x)

\* The names of the listed files never change.
NamesStay ==
  /\ Listed' = Listed /\ work_files' = work_files
  /\ \A i \in Listed : old_name'[i] = old_name[i] /\ new_name'[i] = new_name[i]

\* One case for each action of make_plan.
LEMMA FileSteps ==
  ASSUME PlanInv, make_plan
  PROVE  NamesStay /\ (FileStep \/ duplicate_scan)
<1> USE DEF dataVars, fieldVars, planVars, sortVars, crossVars, localVars, envVars
<1>1. /\ TypeInv /\ StatusInv /\ DataTypeOK /\ Listed \subseteq Refs
      /\ More => it \in Listed /\ spec = it
      /\ Unchecked \subseteq Listed
  BY StateFacts
<1>2. status \in [Refs -> FileSpecStatus \cup MemoryStatus]
  BY <1>1 DEF DataTypeOK
<1>3. /\ \A i \in Listed : status[i] = "UNCHECKED" => i \in Unchecked
      /\ printed' = printed /\ scenario' = scenario => Listed' = Listed
      /\ ok' = ok => Pending' = Pending
  BY DEF Unchecked, Listed, Pending
<1>a. CASE EndScan \/ EndTopologicPass \/ cross_map \/ cross_reference \/ TryNextTmp
           \/ new_exists_map \/ FollowOn \/ (FollowToStart /\ pc' = "temporary")
  <2>1. UNCHANGED <<old_name, new_name, status, planVars, work_files, printed, scenario>>
    BY <1>a DEF EndScan, EndTopologicPass, cross_map, cross_reference, TryNextTmp,
         new_exists_map, FollowOn, FollowToStart, NextReference
  <2> QED
    BY <1>3, <2>1 DEF FileStep, LeavesFiles, NamesStay
<1>b. CASE previous_scan
  <2>1. /\ spec \in Unchecked
        /\ UNCHANGED <<fs, fieldVars, work_files, map, sortVars, crossVars, envVars>>
    BY <1>1, <1>b DEF previous_scan, InScan, StatusInv
  <2>2. UNCHANGED planVars
    BY <1>b, <2>1 DEF previous_scan, Unchecked, OkStatus, ErrorStatus
  <2> QED
    BY <1>3, <2>1, <2>2 DEF FileStep, LeavesFiles, NamesStay
<1>c. CASE duplicate_scan
  <2>1. UNCHANGED <<old_name, new_name, work_files, printed, scenario>>
    BY <1>c DEF duplicate_scan
  <2> QED
    BY <1>3, <1>c, <2>1 DEF NamesStay
<1>d. CASE old_missing_scan \/ new_exists_source \/ new_exists_dest \/ no_change_scan
  <2>1. /\ it \in Listed /\ spec = it
        /\ UNCHANGED <<old_name, new_name, ok, work_files, printed, scenario>>
    BY <1>1, <1>d DEF old_missing_scan, new_exists_source, new_exists_dest, no_change_scan,
           Refuse, InScan
  <2>2. \/ UNCHANGED <<status, error, no_change>>
        \/ /\ it \in Unchecked
           /\ \/ /\ \E st \in {"OLD_MISSING", "NEW_EXISTS"} :
                      status' = [status EXCEPT ![it] = st]
                 /\ error' = Append(error, it) /\ no_change' = no_change
              \/ /\ status' = [status EXCEPT ![it] = "NO_CHANGE"]
                 /\ error' = error /\ no_change' = Append(no_change, it)
    <3>1. CASE no_change_scan
      BY <1>3, <2>1, <3>1 DEF no_change_scan, llist_add
    <3>2. CASE old_missing_scan
      BY <1>3, <2>1, <3>2 DEF old_missing_scan, Refuse, llist_add
    <3>3. CASE new_exists_source \/ new_exists_dest
      BY <1>3, <2>1, <3>3 DEF new_exists_source, new_exists_dest, Refuse, llist_add
    <3> QED
      BY <1>d, <3>1, <3>2, <3>3
  <2>3. CASE UNCHANGED <<status, error, no_change>>
    BY <1>3, <2>1, <2>3 DEF FileStep, LeavesFiles, NamesStay
  <2>4. CASE ~UNCHANGED <<status, error, no_change>>
    <3>1. /\ it \in Unchecked /\ Others(it) /\ Listed' = Listed /\ Pending' = Pending
          /\ \/ /\ status'[it] \in {"OLD_MISSING", "NEW_EXISTS"}
                /\ error' = Append(error, it) /\ no_change' = no_change
             \/ /\ status'[it] = "NO_CHANGE"
                /\ error' = error /\ no_change' = Append(no_change, it)
      BY <1>1, <1>2, <1>3, <2>1, <2>2, <2>4 DEF Others
    <3> QED
      BY <2>1, <3>1 DEF FileStep, RefusesFile, KeepsFile, NamesStay
  <2> QED
    BY <2>3, <2>4
<1>e. CASE dest_exists \/ topologic_sort \/ apply_unchecked
  <2>1. /\ UNCHANGED <<error, no_change, work_files>>
        /\ Keeps \/ \E x \in Unchecked : Accepts(x)
    BY <1>e, AcceptingScans DEF dest_exists, topologic_sort, apply_unchecked
  <2>2. CASE Keeps
    BY <1>3, <2>1, <2>2, KeepFacts DEF FileStep, LeavesFiles, NamesStay
  <2>3. ASSUME NEW x \in Unchecked, Accepts(x)
        PROVE  NamesStay /\ FileStep
    <3>1. /\ Others(x) /\ status'[x] = "APPLY" /\ Pending \subseteq Pending'
          /\ Listed' = Listed /\ UNCHANGED <<old_name, new_name>>
      BY <1>1, <2>3, AcceptFacts DEF Others
    <3> QED
      BY <2>1, <3>1 DEF FileStep, PlansFile, NamesStay, OkStatus
  <2> QED
    BY <2>1, <2>2, <2>3
<1>f. CASE FollowToDeadEnd \/ (FollowToStart /\ pc' # "temporary")
  <2>1. /\ s1 \in Unchecked /\ Pending' = Pending /\ Listed' = Listed
        /\ status'[s1] = "NEW_EXISTS" /\ \A s \in Refs \ {s1} : status'[s] = status[s]
        /\ UNCHANGED <<old_name, new_name, work_files>>
    BY <1>f, DeadEndFacts
  <2>2. error' = Append(error, s1) /\ no_change' = no_change
    BY <1>f DEF FollowToDeadEnd, FollowToStart, llist_add
  <2>3. Others(s1)
    BY <1>1, <2>1 DEF Others
  <2> QED
    BY <2>1, <2>2, <2>3 DEF FileStep, RefusesFile, NamesStay
<1>g. CASE ReplaceStart
  <2>1. LET t == new_file_spec
        IN  /\ s1 \in Unchecked /\ t \in Refs \ Listed
            /\ Pending' = Pending \cup {t} /\ Listed' = Listed
            /\ status'[s1] = "APPLY"
            /\ \A s \in Refs \ {s1, t} : status'[s] = status[s]
            /\ \A s \in Refs \ {t} : old_name'[s] = old_name[s] /\ new_name'[s] = new_name[s]
            /\ work_files' = work_files
    BY <1>g, ReplaceStartFacts
  <2>2. error' = error /\ no_change' = no_change
    BY <1>g DEF ReplaceStart
  <2>3. Others(s1)
    BY <1>1, <2>1 DEF Others
  <2> QED
    BY <1>1, <2>1, <2>2, <2>3 DEF FileStep, PlansFile, NamesStay, OkStatus
<1>h. CASE CollectCircular
  <2>1. /\ s2 \in Unchecked /\ Pending' = Pending \cup {s2} /\ Listed' = Listed
        /\ status'[s2] = "CIRCULAR" /\ \A s \in Refs \ {s2} : status'[s] = status[s]
        /\ UNCHANGED <<old_name, new_name, work_files>>
    BY <1>h, CollectFacts
  <2>2. error' = error /\ no_change' = no_change
    BY <1>h DEF CollectCircular
  <2>3. Others(s2)
    BY <1>1, <2>1 DEF Others
  <2> QED
    BY <2>1, <2>2, <2>3 DEF FileStep, PlansFile, NamesStay, OkStatus
<1>i. CASE AddExtraRename
  <2>1. LET e == new_file_spec
        IN  /\ e \in Refs \ Listed
            /\ Pending' = Pending \cup {e} /\ Listed' = Listed
            /\ \A s \in Refs \ {e} : status'[s] = status[s]
            /\ \A s \in Refs \ {e} : old_name'[s] = old_name[s] /\ new_name'[s] = new_name[s]
            /\ work_files' = work_files
    BY <1>i, AddExtraFacts
  <2>2. error' = error /\ no_change' = no_change
    BY <1>i DEF AddExtraRename
  <2> QED
    BY <1>1, <2>1, <2>2 DEF FileStep, LeavesFiles, NamesStay
<1> QED
  BY <1>a, <1>b, <1>c, <1>d, <1>e, <1>f, <1>g, <1>h, <1>i DEF make_plan, CrossReferenceResolve

-----------------------------------------------------------------------------
(***************************************************************************)
(* Duplicates are the files that share their new name with another one.    *)
(* While they are searched for, map has the last file for each new name.   *)
(***************************************************************************)
SharesBefore(i, n) == \E j \in Listed \ {i} : j < n /\ new_name[j] = new_name[i]
Shares(i) == \E j \in Listed \ {i} : new_name[j] = new_name[i]

DuplicateInv ==
  /\ pc = "duplicate_scan" =>
       /\ \A i \in Listed : status[i] \in {"UNCHECKED", "DUPLICATE"}
       /\ \A i \in Listed : i < it => map[new_name[i]] # NULL
       /\ \A n \in FileNames : map[n] # NULL => map[n] < it /\ new_name[map[n]] = n
       /\ \A i \in Listed : status[i] = "DUPLICATE" <=> i < it /\ SharesBefore(i, it)
  /\ pc \notin {"previous_scan", "duplicate_scan"} =>
       \A i \in Listed : status[i] = "DUPLICATE" <=> Shares(i)

\* A file whose new name was met before, and the last file that it was met at.
LEMMA DuplicateFacts ==
  ASSUME PlanInv, DuplicateInv, duplicate_scan
  PROVE  LET d == map[new_name[it]]
         IN  /\ pc = "duplicate_scan" /\ pc' = pc /\ it' = it + 1
             /\ it \in Unchecked /\ it \in Nat
             /\ map' = [map EXCEPT ![new_name[it]] = it]
             /\ ok' = ok /\ no_change' = no_change /\ printed' = printed /\ scenario' = scenario
             /\ d = NULL => UNCHANGED <<status, error>>
             /\ d # NULL =>
                  /\ d \in Listed /\ d < it /\ new_name[d] = new_name[it]
                  /\ status[d] \in {"UNCHECKED", "DUPLICATE"}
                  /\ status'[d] = "DUPLICATE" /\ status'[it] = "DUPLICATE"
                  /\ \A i \in Listed \ {d, it} : status'[i] = status[i]
                  /\ error' = IF status[d] = "UNCHECKED" THEN Append(Append(error, d), it)
                              ELSE Append(error, it)
<1> USE DEF dataVars, fieldVars, planVars, sortVars, crossVars, localVars, envVars
<1> DEFINE d == map[new_name[it]]
<1>1. /\ TypeInv /\ DataTypeOK /\ Listed \subseteq Refs /\ it \in Nat \ {0}
      /\ More => it \in Listed /\ spec = it
      /\ \A i \in Listed : new_name[i] \in FileNames
  BY StateFacts
<1>2. status \in [Refs -> FileSpecStatus \cup MemoryStatus] /\ error \in Seq(Refs)
  BY <1>1 DEF DataTypeOK
<1>3. /\ pc = "duplicate_scan" /\ pc' = pc /\ it' = it + 1 /\ it \in Listed /\ spec = it
      /\ UNCHANGED <<ok, no_change, printed, scenario>>
  BY <1>1 DEF duplicate_scan, InScan
<1>4. status[it] = "UNCHECKED"
  <2>1. ~(it < it)
    BY <1>1
  <2> QED
    BY <1>3, <2>1 DEF DuplicateInv
<1>5. /\ map' = [map EXCEPT ![new_name[it]] = it]
      /\ d = NULL => UNCHANGED <<status, error>>
      /\ d # NULL => /\ status' = [status EXCEPT ![d] = "DUPLICATE", ![it] = "DUPLICATE"]
                     /\ error' = error \o NewDuplicates(d)
  BY <1>3, <1>4 DEF duplicate_scan
<1>6. ASSUME d # NULL
      PROVE  /\ d \in Listed /\ d < it /\ new_name[d] = new_name[it]
             /\ status[d] \in {"UNCHECKED", "DUPLICATE"}
             /\ status'[d] = "DUPLICATE" /\ status'[it] = "DUPLICATE"
             /\ \A i \in Listed \ {d, it} : status'[i] = status[i]
             /\ error' = IF status[d] = "UNCHECKED" THEN Append(Append(error, d), it)
                         ELSE Append(error, it)
  <2>1. d \in Listed
    BY <1>1, <1>3, <1>6 DEF TypeInv, Shape
  <2>2. /\ d < it /\ new_name[d] = new_name[it]
        /\ status[d] \in {"UNCHECKED", "DUPLICATE"}
    BY <1>1, <1>3, <1>6, <2>1 DEF DuplicateInv
  <2> HIDE DEF d
  <2>3. /\ status'[d] = "DUPLICATE" /\ status'[it] = "DUPLICATE"
        /\ \A i \in Listed \ {d, it} : status'[i] = status[i]
    BY <1>1, <1>2, <1>3, <1>5, <1>6, <2>1
  <2>4. error \o <<it>> = Append(error, it) /\ error \o <<d, it>> = Append(Append(error, d), it)
    BY <1>1, <1>2, <1>3, <2>1
  <2>5. error' = IF status[d] = "UNCHECKED" THEN error \o <<d, it>> ELSE error \o <<it>>
    BY <1>3, <1>5, <1>6 DEF NewDuplicates
  <2> QED
    BY <2>1, <2>2, <2>3, <2>4, <2>5
<1> QED
  BY <1>1, <1>3, <1>4, <1>5, <1>6 DEF Unchecked

LEMMA NextDuplicateInv ==
  ASSUME PlanInv, DuplicateInv, make_plan
  PROVE  DuplicateInv'
<1> USE DEF dataVars, fieldVars, planVars, sortVars, crossVars, localVars, envVars
<1>1. /\ StatusInv /\ Listed \subseteq Refs /\ it \in Nat \ {0} /\ Listed \subseteq Nat
      /\ Len(work_files) = Len(printed) /\ Len(printed) \in Nat
      /\ \A i \in Listed : new_name[i] \in FileNames
      /\ map \in [FileNames -> Refs \cup {NULL}] /\ NULL \notin Refs
      /\ Unchecked \subseteq Listed
  BY StateFacts
<1>2. NamesStay /\ (FileStep \/ duplicate_scan)
  BY FileSteps
<1>3. /\ Listed' = Listed /\ \A i \in Listed : new_name'[i] = new_name[i]
      /\ \A i \in Listed : Shares(i)' <=> Shares(i)
  BY <1>2 DEF NamesStay, Shares
<1>a. CASE EndScan
  <2>1. /\ pc \in Scans /\ pc' = NextScan[pc] /\ ~More /\ it' = 1 /\ UNCHANGED <<status, new_name>>
        /\ pc = "previous_scan" => map' = EmptyMap
    BY <1>a DEF EndScan, KeepsMap
  <2>2. /\ pc' = "duplicate_scan" => pc = "previous_scan"
        /\ pc' # "previous_scan"
        /\ pc = "previous_scan" => pc' = "duplicate_scan"
    BY <2>1, ScanNames DEF ChecksDone
  <2>3. CASE pc = "previous_scan"
    <3>1. \A i \in Listed : status[i] = "UNCHECKED"
      BY <1>1, <2>3 DEF StatusInv, Unchecked
    <3>2. \A i \in Listed : ~(i < 1)
      BY <1>1 DEF Listed
    <3>3. \A n \in FileNames : map'[n] = NULL
      BY <2>1, <2>3 DEF EmptyMap
    <3> QED
      BY <1>3, <2>1, <2>2, <2>3, <3>1, <3>2, <3>3 DEF DuplicateInv
  <2>4. CASE pc = "duplicate_scan"
    <3>1. \A i \in Listed : i < it
      BY <1>1, <2>1 DEF More, Listed
    <3>2. \A i \in Listed : SharesBefore(i, it) <=> Shares(i)
      BY <3>1 DEF SharesBefore, Shares
    <3> QED
      BY <1>3, <2>1, <2>2, <2>4, <3>1, <3>2 DEF DuplicateInv
  <2>5. CASE pc \notin {"previous_scan", "duplicate_scan"}
    BY <1>3, <2>1, <2>2, <2>5 DEF DuplicateInv
  <2> QED
    BY <2>3, <2>4, <2>5
<1>b. CASE previous_scan
  BY <1>b DEF previous_scan, InScan, DuplicateInv
<1>c. CASE duplicate_scan
  <2> DEFINE d == map[new_name[it]]
  <2>1. /\ pc = "duplicate_scan" /\ pc' = pc /\ it' = it + 1 /\ it \in Unchecked
        /\ map' = [map EXCEPT ![new_name[it]] = it]
        /\ d = NULL => status' = status
        /\ d # NULL =>
             /\ d \in Listed /\ d < it /\ new_name[d] = new_name[it]
             /\ status'[d] = "DUPLICATE" /\ status'[it] = "DUPLICATE"
             /\ \A i \in Listed \ {d, it} : status'[i] = status[i]
    BY <1>c, DuplicateFacts
  <2>2. /\ \A i \in Listed : status[i] \in {"UNCHECKED", "DUPLICATE"}
        /\ \A i \in Listed : i < it => map[new_name[i]] # NULL
        /\ \A n \in FileNames : map[n] # NULL => map[n] < it /\ new_name[map[n]] = n
        /\ \A i \in Listed : status[i] = "DUPLICATE" <=> i < it /\ SharesBefore(i, it)
    BY <2>1 DEF DuplicateInv
  <2>3. it \in Listed /\ status[it] = "UNCHECKED" /\ it # NULL
    BY <1>1, <2>1 DEF Unchecked
  <2>4. \A i \in Listed : i < it + 1 <=> i < it \/ i = it
    BY <1>1
  <2>5. /\ \A n \in FileNames : map'[n] = IF n = new_name[it] THEN it ELSE map[n]
        /\ \A n \in FileNames : map[n] \in Listed \cup {NULL}
        /\ \A j \in Listed : j < it => j < it + 1
    BY <1>1, <2>1, StateFacts DEF TypeInv, Shape
  <2>6. \A n \in FileNames : map'[n] # NULL => map'[n] < it + 1 /\ new_name[map'[n]] = n
    BY <1>1, <2>2, <2>5
  <2>7. \A i \in Listed : i < it + 1 => map'[new_name[i]] # NULL
    BY <1>1, <2>2, <2>3, <2>4, <2>5
  <2>8. \A i \in Listed : status'[i] \in {"UNCHECKED", "DUPLICATE"}
    BY <2>1, <2>2
  <2>9. ASSUME NEW i \in Listed
        PROVE  status'[i] = "DUPLICATE" <=> i < it + 1 /\ SharesBefore(i, it + 1)
    <3>1. SharesBefore(i, it + 1) <=>
            SharesBefore(i, it) \/ (i # it /\ new_name[i] = new_name[it])
      BY <2>3, <2>4 DEF SharesBefore
    <3>2. CASE d = NULL
      <4>1. \A j \in Listed : j < it => new_name[j] # new_name[it]
        BY <2>2, <3>2
      <4>2. ~(it < it)
        BY <1>1
      <4>3. i < it => ~(i # it /\ new_name[i] = new_name[it])
        BY <4>1
      <4>4. ~SharesBefore(it, it)
        BY <4>1 DEF SharesBefore
      <4> QED
        BY <2>1, <2>2, <2>4, <3>1, <3>2, <4>2, <4>3, <4>4
    <3>3. CASE d # NULL
      <4>1. SharesBefore(it, it)
        <5>1. d \in Listed /\ d < it /\ new_name[d] = new_name[it] /\ d # it
          BY <1>1, <2>1, <3>3
        <5> HIDE DEF d
        <5> QED
          BY <5>1 DEF SharesBefore
      <4>2. i < it /\ i # d /\ new_name[i] = new_name[it] => SharesBefore(i, it)
        BY <2>1, <3>3 DEF SharesBefore
      <4>3. i = d => i < it /\ i # it /\ new_name[i] = new_name[it]
        BY <1>1, <2>1, <2>3, <3>3
      <4> QED
        BY <2>1, <2>2, <2>3, <2>4, <3>1, <3>3, <4>1, <4>2, <4>3
    <3> QED
      BY <3>2, <3>3
  <2>11. \A i \in Listed : SharesBefore(i, it)' <=> SharesBefore(i, it + 1)
    BY <1>3, <2>1 DEF SharesBefore
  <2>12. \A n \in FileNames : map'[n] # NULL => map'[n] \in Listed
    BY <1>1, <2>1, <2>3, <2>5, StateFacts DEF TypeInv, Shape
  <2> QED
    BY <1>3, <2>1, <2>6, <2>7, <2>8, <2>9, <2>11, <2>12 DEF DuplicateInv
<1>d. CASE ~EndScan /\ ~previous_scan /\ ~duplicate_scan
  <2>1. pc \notin {"previous_scan", "duplicate_scan"} /\ pc' \notin {"previous_scan", "duplicate_scan"}
    BY <1>d, ScanNames
       DEF make_plan, CrossReferenceResolve, old_missing_scan, no_change_scan, dest_exists,
           topologic_sort, EndTopologicPass, cross_map, cross_reference, FollowToDeadEnd,
           FollowToStart, FollowOn, TryNextTmp, ReplaceStart, CollectCircular, AddExtraRename,
           new_exists_map, new_exists_source, new_exists_dest, apply_unchecked, Refuse, InScan,
           NextReference
  <2>2. \A i \in Listed : status'[i] = "DUPLICATE" <=> status[i] = "DUPLICATE"
    BY <1>2, <1>d DEF FileStep, LeavesFiles, RefusesFile, KeepsFile, PlansFile, Others,
         Unchecked, OkStatus
  <2> QED
    BY <1>3, <2>1, <2>2 DEF DuplicateInv
<1> QED
  BY <1>a, <1>b, <1>c, <1>d

LEMMA NextListsInv ==
  ASSUME PlanInv, DuplicateInv, ListsInv, make_plan
  PROVE  ListsInv'
<1>1. /\ DataTypeOK /\ Listed \subseteq Refs /\ Unchecked \subseteq Listed
  BY StateFacts
<1>2. error \in Seq(Refs) /\ no_change \in Seq(Refs)
  BY <1>1 DEF DataTypeOK
<1>3. NamesStay /\ (FileStep \/ duplicate_scan)
  BY FileSteps
<1>4. Listed' = Listed
  BY <1>3 DEF NamesStay
<1>5. /\ Distinct(error) /\ Distinct(no_change)
      /\ Elems(error) = {i \in Listed : status[i] \in ErrorStatus}
      /\ Elems(no_change) = {i \in Listed : status[i] = "NO_CHANGE"}
      /\ \A i \in Listed : status[i] = "CIRCULAR" => i \in Pending
  BY DEF ListsInv
<1>6. \A x \in Unchecked : x \in Listed /\ x \in Refs /\ status[x] = "UNCHECKED"
                           /\ x \notin Elems(error) /\ x \notin Elems(no_change)
  BY <1>1, <1>5 DEF Unchecked, ErrorStatus
<1>a. CASE LeavesFiles
  BY <1>4, <1>5, <1>a DEF LeavesFiles, ListsInv, Distinct, Elems
<1>b. ASSUME NEW x \in Unchecked, RefusesFile(x) PROVE ListsInv'
  <2>1. /\ Distinct(error') /\ Elems(error') = Elems(error) \cup {x} /\ no_change' = no_change
        /\ Pending' = Pending /\ status'[x] \in {"OLD_MISSING", "NEW_EXISTS"}
        /\ \A i \in Listed \ {x} : status'[i] = status[i]
    BY <1>2, <1>5, <1>6, <1>b, AppendElems, DistinctAppend DEF RefusesFile, Others
  <2>2. /\ Elems(error') = {i \in Listed : status'[i] \in ErrorStatus}
        /\ Elems(no_change') = {i \in Listed : status'[i] = "NO_CHANGE"}
    BY <1>5, <1>6, <2>1 DEF ErrorStatus
  <2> QED
    BY <1>4, <1>5, <2>1, <2>2 DEF ListsInv, Distinct, Elems
<1>c. ASSUME NEW x \in Unchecked, KeepsFile(x) PROVE ListsInv'
  <2>1. /\ Distinct(no_change') /\ Elems(no_change') = Elems(no_change) \cup {x}
        /\ error' = error /\ Pending' = Pending /\ status'[x] = "NO_CHANGE"
        /\ \A i \in Listed \ {x} : status'[i] = status[i]
    BY <1>2, <1>5, <1>6, <1>c, AppendElems, DistinctAppend DEF KeepsFile, Others
  <2>2. /\ Elems(error') = {i \in Listed : status'[i] \in ErrorStatus}
        /\ Elems(no_change') = {i \in Listed : status'[i] = "NO_CHANGE"}
    BY <1>5, <1>6, <2>1 DEF ErrorStatus
  <2> QED
    BY <1>4, <1>5, <2>1, <2>2 DEF ListsInv, Distinct, Elems
<1>d. ASSUME NEW x \in Unchecked, PlansFile(x) PROVE ListsInv'
  <2>1. /\ error' = error /\ no_change' = no_change /\ status'[x] \in {"APPLY", "CIRCULAR"}
        /\ \A i \in Listed \ {x} : status'[i] = status[i]
        /\ \A i \in Listed : status'[i] = "CIRCULAR" => i \in Pending'
    BY <1>5, <1>d DEF PlansFile, Others, OkStatus
  <2>2. /\ Elems(error) = {i \in Listed : status'[i] \in ErrorStatus}
        /\ Elems(no_change) = {i \in Listed : status'[i] = "NO_CHANGE"}
    BY <1>5, <1>6, <2>1 DEF ErrorStatus
  <2> QED
    BY <1>4, <1>5, <2>1, <2>2 DEF ListsInv, Distinct, Elems
<1>e. CASE duplicate_scan
  <2> DEFINE d == map[new_name[it]]
  <2>1. /\ it \in Unchecked /\ it \in Nat /\ no_change' = no_change /\ ok' = ok
        /\ d = NULL => UNCHANGED <<status, error>>
        /\ d # NULL =>
             /\ d \in Listed /\ d < it
             /\ status[d] \in {"UNCHECKED", "DUPLICATE"}
             /\ status'[d] = "DUPLICATE" /\ status'[it] = "DUPLICATE"
             /\ \A i \in Listed \ {d, it} : status'[i] = status[i]
             /\ error' = IF status[d] = "UNCHECKED" THEN Append(Append(error, d), it)
                         ELSE Append(error, it)
    BY <1>e, DuplicateFacts
  <2> HIDE DEF d
  <2>2. Pending' = Pending
    BY <2>1 DEF Pending, Elems
  <2>3. CASE d = NULL
    BY <1>4, <1>5, <2>1, <2>2, <2>3 DEF ListsInv, Distinct, Elems
  <2>4. CASE d # NULL
    <3>1. d \in Listed /\ d \in Refs /\ d # it /\ it \in Refs
      <4>1. d \in Listed /\ d < it /\ ~(it < it)
        BY <2>1, <2>4
      <4> QED
        BY <1>1, <1>6, <2>1, <4>1
    <3>2. Distinct(error') /\ Elems(error') = Elems(error) \cup {d, it}
      <4>1. CASE status[d] = "UNCHECKED"
        <5>1. d \notin Elems(error)
          BY <1>5, <4>1 DEF ErrorStatus
        <5>2. /\ Append(error, d) \in Seq(Refs) /\ Distinct(Append(error, d))
              /\ Elems(Append(error, d)) = Elems(error) \cup {d}
          BY <1>2, <1>5, <3>1, <5>1, AppendElems, DistinctAppend
        <5>3. PICK more \in Seq(Refs) :
                more = Append(error, d) /\ Distinct(more) /\ Elems(more) = Elems(error) \cup {d}
          BY <5>2
        <5>4. it \notin Elems(more) /\ error' = Append(more, it)
          BY <1>6, <2>1, <2>4, <3>1, <4>1, <5>3
        <5>5. Distinct(Append(more, it)) /\ Elems(Append(more, it)) = Elems(more) \cup {it}
          <6>1. Distinct(Append(more, it))
            BY <3>1, <5>3, <5>4, DistinctAppend
          <6>2. Elems(Append(more, it)) = Elems(more) \cup {it}
            BY <3>1, AppendElems
          <6> QED
            BY <6>1, <6>2
        <5> QED
          BY <5>3, <5>4, <5>5
      <4>2. CASE status[d] = "DUPLICATE"
        <5>1. d \in Elems(error)
          BY <1>5, <3>1, <4>2 DEF ErrorStatus
        <5>2. error' = Append(error, it)
          BY <2>1, <2>4, <4>2
        <5> QED
          BY <1>2, <1>5, <1>6, <2>1, <3>1, <5>1, <5>2, AppendElems, DistinctAppend
      <4> QED
        BY <2>1, <2>4, <4>1, <4>2
    <3>3. /\ status'[d] = "DUPLICATE" /\ status'[it] = "DUPLICATE" /\ it \in Listed
          /\ status[d] \in {"UNCHECKED", "DUPLICATE"} /\ status[it] = "UNCHECKED"
          /\ \A i \in Listed \ {d, it} : status'[i] = status[i]
      BY <1>6, <2>1, <2>4
    <3>4. Elems(error') = {i \in Listed : status'[i] \in ErrorStatus}
      BY <1>5, <3>1, <3>2, <3>3 DEF ErrorStatus
    <3>5. Elems(no_change) = {i \in Listed : status'[i] = "NO_CHANGE"}
      BY <1>5, <3>1, <3>3
    <3>6. \A i \in Listed : status'[i] = "CIRCULAR" => i \in Pending
      BY <1>5, <3>1, <3>3
    <3> QED
      BY <1>4, <1>5, <2>1, <2>2, <3>2, <3>4, <3>5, <3>6 DEF ListsInv, Distinct, Elems
  <2> QED
    BY <2>3, <2>4
<1> QED
  BY <1>3, <1>a, <1>b, <1>c, <1>d, <1>e DEF FileStep

-----------------------------------------------------------------------------
(***************************************************************************)
(* The first file of a circular set is not in the plan itself: a copy and  *)
(* an extra rename, which no list of files knows, stand for it.            *)
(***************************************************************************)
Starts == {c \in Listed : status[c] = "APPLY" /\ c \notin Pending}
Extras == Pending \ Listed

\* Another file moves to the name that c has.
TakesPlace(c) == \E z \in Pending \cap Listed : new_name[z] = old_name[c]

StartsInv ==
  /\ \A c \in Starts : \/ pc = "collect" /\ c = s1
                       \/ ByTemporaryName(c) /\ TakesPlace(c)
  /\ pc = "collect" => /\ s1 \in Starts
                       /\ prev_circular \in Extras /\ new_name[prev_circular] = new_name[s1]
                       /\ s2 = NULL => TakesPlace(s1)
  /\ \A x \in Extras : \E c \in Starts : old_name[x] = old_name[c] \/ new_name[x] = new_name[c]

LEMMA FilesListed ==
  ASSUME PlanInv
  PROVE  Elems(work_files) = Listed
<1>1. work_files = [i \in Listed |-> i] /\ Len(work_files) = Len(printed)
  BY StateFacts DEF TypeInv, FilesKept
<1> QED
  BY <1>1 DEF Elems, Listed

\* Renames are added at both ends of the plan, none is removed or renamed.
PlanGrows ==
  /\ \E k \in {0, 1} : \A i \in 1 .. Len(ok) : i + k \in 1 .. Len(ok') /\ ok'[i + k] = ok[i]
  /\ \A s \in Pending : old_name'[s] = old_name[s] /\ new_name'[s] = new_name[s]

LEMMA StillByTemporaryName ==
  ASSUME PlanInv, NamesStay, PlanGrows, NEW c \in Listed
  PROVE  /\ ByTemporaryName(c) => ByTemporaryName(c)'
         /\ TakesPlace(c) => TakesPlace(c)'
<1>1. PICK k \in {0, 1} : \A i \in 1 .. Len(ok) : i + k \in 1 .. Len(ok') /\ ok'[i + k] = ok[i]
  BY DEF PlanGrows
<1>2. /\ \A i \in 1 .. Len(ok) : ok[i] \in Pending
      /\ \A s \in Pending : old_name'[s] = old_name[s] /\ new_name'[s] = new_name[s]
      /\ old_name'[c] = old_name[c] /\ new_name'[c] = new_name[c] /\ Listed' = Listed
      /\ Elems(work_files)' = Elems(work_files)
  BY DEF Pending, Elems, PlanGrows, NamesStay
<1>3. Pending \subseteq Pending'
  BY <1>1 DEF Pending, Elems
<1>4. ASSUME ByTemporaryName(c) PROVE ByTemporaryName(c)'
  <2>1. PICK i \in 1 .. Len(ok), j \in 1 .. Len(ok) :
          /\ i < j
          /\ {ok[i], ok[j]} \cap Elems(work_files) = {}
          /\ old_name[ok[i]] = old_name[c] /\ new_name[ok[j]] = new_name[c]
          /\ new_name[ok[i]] = old_name[ok[j]]
    BY <1>4 DEF ByTemporaryName
  <2>2. /\ i + k \in 1 .. Len(ok') /\ ok'[i + k] = ok[i]
        /\ j + k \in 1 .. Len(ok') /\ ok'[j + k] = ok[j]
    BY <1>1
  <2>3. i + k < j + k
    BY <2>1
  <2>4. /\ {ok[i], ok[j]} \cap Elems(work_files)' = {}
        /\ old_name'[ok[i]] = old_name'[c] /\ new_name'[ok[j]] = new_name'[c]
        /\ new_name'[ok[i]] = old_name'[ok[j]]
    BY <1>2, <2>1
  <2> QED
    BY <2>2, <2>3, <2>4 DEF ByTemporaryName
<1>5. TakesPlace(c) => TakesPlace(c)'
  BY <1>2, <1>3 DEF TakesPlace
<1> QED
  BY <1>4, <1>5

\* Outside of a circular set, no file becomes or ceases to be its first one.
LEMMA StartsKept ==
  ASSUME PlanInv, StartsInv, NamesStay, PlanGrows, pc # "collect", pc' # "collect",
         Starts' = Starts, Extras' = Extras
  PROVE  StartsInv'
<1>1. /\ \A c \in Starts : c \in Listed /\ ByTemporaryName(c) /\ TakesPlace(c)
      /\ \A x \in Extras : x \in Pending
  BY DEF StartsInv, Starts, Extras
<1>2. \A c \in Starts : ByTemporaryName(c)' /\ TakesPlace(c)'
  BY <1>1, StillByTemporaryName
<1>3. \A x \in Extras : \E c \in Starts : old_name'[x] = old_name'[c] \/ new_name'[x] = new_name'[c]
  BY <1>1 DEF StartsInv, PlanGrows, NamesStay
<1> QED
  BY <1>2, <1>3 DEF StartsInv

LEMMA NextStartsInv ==
  ASSUME PlanInv, StartsInv, make_plan
  PROVE  StartsInv'
<1> USE DEF dataVars, fieldVars, planVars, sortVars, crossVars, localVars, envVars
<1>1. /\ TypeInv /\ StatusInv /\ WalkInv /\ DataTypeOK /\ Listed \subseteq Refs
      /\ Unchecked \subseteq Listed /\ ok \in Seq(Refs)
      /\ Pending \subseteq Refs /\ Pending \cap Unchecked = {}
      /\ Len(ok) \in Nat
  BY StateFacts
<1>2. NamesStay /\ Listed' = Listed
  BY FileSteps DEF NamesStay
<1>3. ok' = ok => /\ Pending' = Pending
                  /\ \A i \in 1 .. Len(ok) : i + 0 \in 1 .. Len(ok') /\ ok'[i + 0] = ok[i]
  BY <1>1 DEF Pending
<1>a. CASE \/ EndScan \/ EndTopologicPass \/ cross_map \/ cross_reference \/ TryNextTmp
           \/ previous_scan \/ duplicate_scan \/ old_missing_scan \/ no_change_scan
           \/ new_exists_map \/ new_exists_source \/ new_exists_dest
           \/ FollowOn \/ FollowToStart \/ FollowToDeadEnd
  <2>1. /\ UNCHANGED <<old_name, new_name, ok>> /\ pc # "collect" /\ pc' # "collect"
    <3>1. CASE previous_scan
      <4>1. spec \in Unchecked
        BY <1>1, <3>1, StateFacts DEF previous_scan, InScan, StatusInv
      <4> QED
        BY <3>1, <4>1 DEF previous_scan, InScan, Unchecked, OkStatus
    <3>2. CASE ~previous_scan
      BY <1>a, <3>2, ScanNames
         DEF EndScan, EndTopologicPass, cross_map, cross_reference, TryNextTmp, duplicate_scan,
             old_missing_scan, no_change_scan, new_exists_map, new_exists_source, new_exists_dest,
             Refuse, InScan, FollowOn, FollowToStart, FollowToDeadEnd, NextReference, ChecksDone
    <3> QED
      BY <3>1, <3>2
  <2>2. \A i \in Listed : status'[i] = "APPLY" <=> status[i] = "APPLY"
    <3>1. CASE duplicate_scan \/ old_missing_scan \/ no_change_scan \/ new_exists_source \/ new_exists_dest
      <4>1. \A i \in Listed : status'[i] = status[i] \/ (i \in Unchecked /\ status'[i] # "APPLY")
                              \/ duplicate_scan
        <5>1. CASE ~duplicate_scan
          <6>1. it \in Listed /\ spec = it /\ status \in [Refs -> FileSpecStatus \cup MemoryStatus]
            BY <1>1, <3>1, <5>1, StateFacts
               DEF old_missing_scan, no_change_scan, new_exists_source, new_exists_dest, Refuse,
                   InScan, DataTypeOK
          <6>2. \/ status' = status
                \/ /\ status[it] = "UNCHECKED"
                   /\ \E st \in {"OLD_MISSING", "NEW_EXISTS", "NO_CHANGE"} :
                        status' = [status EXCEPT ![it] = st]
            BY <3>1, <5>1, <6>1
               DEF old_missing_scan, no_change_scan, new_exists_source, new_exists_dest, Refuse
          <6> QED
            BY <1>1, <6>1, <6>2 DEF Unchecked
        <5> QED
          BY <5>1
      <4>2. CASE duplicate_scan
        <5>1. pc = "duplicate_scan" /\ ok = <<>> /\ status \in [Refs -> FileSpecStatus \cup MemoryStatus]
          BY <1>1, <4>2 DEF duplicate_scan, InScan, StatusInv, Early, DataTypeOK
        <5>2. Pending = {}
          BY <5>1, EmptyElems DEF Pending
        <5>3. \A c \in Starts : FALSE
          BY <5>1, <5>2 DEF StartsInv, TakesPlace
        <5>4. \A i \in Listed : status[i] # "APPLY"
          BY <5>2, <5>3 DEF Starts
        <5>5. \A s \in Refs : status'[s] \in {status[s], "DUPLICATE"}
          BY <1>1, <4>2, <5>1 DEF duplicate_scan
        <5> QED
          BY <1>1, <5>4, <5>5
      <4> QED
        BY <4>1, <4>2 DEF Unchecked
    <3>2. CASE FollowToDeadEnd \/ (FollowToStart /\ pc' # "temporary")
      BY <1>1, <3>2, DeadEndFacts DEF Unchecked
    <3>3. CASE \/ EndScan \/ EndTopologicPass \/ cross_map \/ cross_reference \/ TryNextTmp
               \/ previous_scan \/ new_exists_map \/ FollowOn \/ (FollowToStart /\ pc' = "temporary")
      BY <3>3 DEF EndScan, EndTopologicPass, cross_map, cross_reference, TryNextTmp,
           previous_scan, new_exists_map, FollowOn, FollowToStart, NextReference
    <3> QED
      BY <1>a, <3>1, <3>2, <3>3
  <2>3. Starts' = Starts /\ Extras' = Extras
    BY <1>2, <1>3, <2>1, <2>2 DEF Starts, Extras
  <2>4. PlanGrows
    BY <1>3, <2>1 DEF PlanGrows
  <2> QED
    BY <1>2, <2>1, <2>3, <2>4, StartsKept
<1>b. CASE dest_exists \/ topologic_sort \/ apply_unchecked
  <2>1. /\ pc # "collect" /\ pc' # "collect"
        /\ Keeps \/ \E x \in Unchecked : Accepts(x)
    BY <1>b, AcceptingScans
  <2>2. CASE Keeps
    <3>1. Starts' = Starts /\ Extras' = Extras /\ PlanGrows
      BY <1>2, <1>3, <2>2, KeepFacts DEF Starts, Extras, PlanGrows
    <3> QED
      BY <1>2, <2>1, <3>1, StartsKept
  <2>3. ASSUME NEW x \in Unchecked, Accepts(x)
        PROVE  StartsInv'
    <3>1. /\ x \in Listed /\ Pending' = Pending \cup {x} /\ UNCHANGED <<old_name, new_name>>
          /\ \A s \in Refs \ {x} : status'[s] = status[s]
          /\ Len(ok') = Len(ok) + 1 /\ \A i \in 1 .. Len(ok) : ok'[i] = ok[i]
      BY <2>3, AcceptFacts
    <3>2. status[x] # "APPLY"
      BY <2>3 DEF Unchecked
    <3>3. Starts' = Starts /\ Extras' = Extras
      BY <1>1, <1>2, <3>1, <3>2 DEF Starts, Extras
    <3>4. \A i \in 1 .. Len(ok) : i + 0 \in 1 .. Len(ok') /\ ok'[i + 0] = ok[i]
      BY <1>1, <3>1
    <3>5. PlanGrows
      BY <3>1, <3>4 DEF PlanGrows
    <3> QED
      BY <1>2, <2>1, <3>3, <3>5, StartsKept
  <2> QED
    BY <2>1, <2>2, <2>3
<1>c. CASE ReplaceStart
  <2> DEFINE t == new_file_spec
  <2>1. /\ pc = "temporary" /\ pc' = "collect" /\ s1' = s1 /\ s1 \in Unchecked
        /\ prev_circular' = t /\ s2' = next_spec[s1]
        /\ t \in Refs \ Listed /\ t \notin Pending /\ Pending' = Pending \cup {t}
        /\ status'[s1] = "APPLY" /\ \A s \in Refs \ {s1, t} : status'[s] = status[s]
        /\ new_name'[t] = new_name[s1]
        /\ \A s \in Refs \ {t} : old_name'[s] = old_name[s] /\ new_name'[s] = new_name[s]
        /\ ok' = <<t>> \o ok
    BY <1>c, ReplaceStartFacts
  <2> HIDE DEF t
  <2>2. s2' # NULL
    <3>1. PICK n \in Nat \ {0, 1} : \E p \in [1 .. n -> Unchecked] : Walk(n, p) /\ p[1] = s1
      BY <1>1, <2>1 DEF WalkInv
    <3>2. PICK p \in [1 .. n -> Unchecked] : Walk(n, p) /\ p[1] = s1
      BY <3>1
    <3>3. 1 \in 1 .. n - 1 /\ 1 + 1 \in 1 .. n
      BY <3>1
    <3>4. next_spec[s1] = p[1 + 1]
      BY <3>2, <3>3 DEF Walk
    <3> QED
      BY <1>1, <2>1, <3>2, <3>3, <3>4, StateFacts
  <2>3. PlanGrows
    <3>1. \A i \in 1 .. Len(ok) : i + 1 \in 1 .. Len(ok') /\ ok'[i + 1] = ok[i]
      BY <1>1, <2>1, FrontFacts
    <3> QED
      BY <1>1, <2>1, <3>1 DEF PlanGrows
  <2>4. /\ s1 \in Listed /\ s1 \in Refs /\ s1 # t /\ s1 \notin Pending /\ status[s1] = "UNCHECKED"
    BY <1>1, <2>1 DEF Unchecked
  <2>5. Starts' = Starts \cup {s1} /\ Extras' = Extras \cup {t}
    BY <1>1, <1>2, <2>1, <2>4 DEF Starts, Extras
  <2>6. \A c \in Starts : c \in Listed /\ ByTemporaryName(c) /\ TakesPlace(c)
    BY <2>1 DEF StartsInv, Starts
  <2>7. \A c \in Starts : ByTemporaryName(c)' /\ TakesPlace(c)'
    BY <1>2, <2>3, <2>6, StillByTemporaryName
  <2>8. \A x \in Extras : \E c \in Starts : old_name'[x] = old_name'[c] \/ new_name'[x] = new_name'[c]
    BY <1>2, <2>3, <2>6 DEF StartsInv, PlanGrows, NamesStay, Extras
  <2>9. new_name'[s1] = new_name[s1]
    BY <2>1, <2>4
  <2> QED
    BY <2>1, <2>2, <2>5, <2>7, <2>8, <2>9 DEF StartsInv
<1>d. CASE CollectCircular
  <2>1. /\ pc = "collect" /\ pc' = pc /\ map' = map /\ s1' = s1 /\ prev_circular' = prev_circular
        /\ s2' = next_spec[s2] /\ s2 # NULL /\ s2 \in Unchecked /\ s2 \notin Pending /\ s2 \in Refs
        /\ Pending' = Pending \cup {s2}
        /\ status'[s2] = "CIRCULAR" /\ \A s \in Refs \ {s2} : status'[s] = status[s]
        /\ ok' = <<s2>> \o ok /\ UNCHANGED <<old_name, new_name>>
    BY <1>d, CollectFacts
  <2>2. PlanGrows
    <3>1. \A i \in 1 .. Len(ok) : i + 1 \in 1 .. Len(ok') /\ ok'[i + 1] = ok[i]
      BY <1>1, <2>1, FrontFacts
    <3> QED
      BY <2>1, <3>1 DEF PlanGrows
  <2>3. /\ s2 \in Listed /\ status[s2] = "UNCHECKED"
    BY <1>1, <2>1 DEF Unchecked
  <2>4. Starts' = Starts /\ Extras' = Extras
    BY <1>1, <1>2, <2>1, <2>3 DEF Starts, Extras
  <2>5. s1 \in Listed /\ s1 \in Starts /\ prev_circular \in Extras /\ new_name[prev_circular] = new_name[s1]
    BY <2>1 DEF StartsInv, Starts
  <2>6. \A c \in Starts \ {s1} : c \in Listed /\ ByTemporaryName(c) /\ TakesPlace(c)
    BY <2>1 DEF StartsInv, Starts
  <2>7. \A c \in Starts \ {s1} : ByTemporaryName(c)' /\ TakesPlace(c)'
    BY <1>2, <2>2, <2>6, StillByTemporaryName
  <2>8. ASSUME s2' = NULL PROVE TakesPlace(s1)'
    <3>1. PICK n \in Nat : \E p \in [1 .. n -> Unchecked] :
            /\ Walk(n, p)
            /\ IF n = 0 THEN s2 = NULL
               ELSE p[1] = s2 /\ next_spec[p[n]] = NULL /\ map[new_name[p[n]]] = s1
      BY <1>1, <2>1 DEF WalkInv
    <3>2. PICK p \in [1 .. n -> Unchecked] :
            /\ n # 0 /\ Walk(n, p) /\ p[1] = s2 /\ map[new_name[p[n]]] = s1
      BY <2>1, <3>1
    <3>3. n = 1
      <4> SUFFICES ASSUME n # 1 PROVE FALSE
        OBVIOUS
      <4>1. 1 \in 1 .. n - 1 /\ 1 + 1 \in 1 .. n
        BY <3>1, <3>2
      <4>2. next_spec[s2] = p[1 + 1]
        BY <3>2, <4>1 DEF Walk
      <4>3. p[1 + 1] \in Refs /\ NULL \notin Refs
        BY <1>1, <3>2, <4>1, StateFacts
      <4> QED
        BY <2>1, <2>8, <4>2, <4>3
    <3>4. map[new_name[s2]] = s1 /\ new_name[s2] \in FileNames /\ s1 # NULL
      BY <2>3, <2>5, <3>2, <3>3, StateFacts
    <3>5. new_name[s2] = old_name[s1]
      BY <1>1, <2>1, <3>4 DEF WalkInv, Crossing
    <3> QED
      BY <1>2, <2>1, <2>3, <3>5 DEF TakesPlace
  <2>9. \A x \in Extras : \E c \in Starts : old_name[x] = old_name[c] \/ new_name[x] = new_name[c]
    BY DEF StartsInv
  <2> QED
    BY <2>1, <2>4, <2>5, <2>7, <2>8, <2>9 DEF StartsInv
<1>e. CASE AddExtraRename
  <2> DEFINE t == prev_circular
             e == new_file_spec
  <2>1. /\ pc = "collect" /\ pc' = "cross_reference" /\ s2 = NULL
        /\ t \in Pending /\ e \in Refs \ Listed /\ e \notin Pending
        /\ Pending' = Pending \cup {e}
        /\ \A s \in Refs \ {e} : status'[s] = status[s]
        /\ old_name'[e] = old_name[s1] /\ new_name'[e] = old_name[t]
        /\ \A s \in Refs \ {e} : old_name'[s] = old_name[s] /\ new_name'[s] = new_name[s]
        /\ ok' = <<e>> \o ok /\ work_files' = work_files
    BY <1>e, AddExtraFacts
  <2> HIDE DEF e
  <2>2. \A i \in 1 .. Len(ok) : i + 1 \in 1 .. Len(ok') /\ ok'[i + 1] = ok[i]
    BY <1>1, <2>1, FrontFacts
  <2>3. PlanGrows
    BY <1>1, <2>1, <2>2 DEF PlanGrows
  <2>4. Starts' = Starts /\ Extras' = Extras \cup {e}
    BY <1>1, <1>2, <2>1 DEF Starts, Extras
  <2>5. /\ s1 \in Listed /\ s1 \in Starts /\ t \in Extras /\ new_name[t] = new_name[s1] /\ TakesPlace(s1)
    BY <2>1 DEF StartsInv, Starts
  <2>6. \A c \in Starts \ {s1} : c \in Listed /\ ByTemporaryName(c) /\ TakesPlace(c)
    BY <2>1 DEF StartsInv, Starts
  <2>7. \A c \in Starts \ {s1} : ByTemporaryName(c)' /\ TakesPlace(c)'
    BY <1>2, <2>3, <2>6, StillByTemporaryName
  <2> PICK c \in Listed : c = s1
    BY <2>5
  <2>8. TakesPlace(c)'
    BY <1>2, <2>3, <2>5, StillByTemporaryName
  <2>9. ByTemporaryName(c)'
    <3>1. PICK k \in 1 .. Len(ok) : ok[k] = t
      BY <2>1 DEF Pending, Elems
    <3>2. k + 1 \in 1 .. Len(ok') /\ ok'[k + 1] = t /\ 1 < k + 1 /\ 1 \in 1 .. Len(ok') /\ ok'[1] = e
      <4>1. Len(ok') = Len(ok) + 1 /\ ok'[1] = e
        BY <1>1, <2>1, FrontFacts
      <4> QED
        BY <1>1, <2>2, <3>1, <4>1
    <3>3. {e, t} \cap Elems(work_files)' = {}
      BY <2>1, <2>5, FilesListed DEF Extras, Elems
    <3>4. /\ old_name'[e] = old_name'[c] /\ new_name'[t] = new_name'[c]
          /\ new_name'[e] = old_name'[t]
      BY <1>1, <2>1, <2>5
    <3> QED
      BY <3>2, <3>3, <3>4 DEF ByTemporaryName
  <2>10. \A x \in Extras : \E d \in Starts : old_name'[x] = old_name'[d] \/ new_name'[x] = new_name'[d]
    BY <1>2, <2>3 DEF StartsInv, PlanGrows, NamesStay, Starts, Extras
  <2>11. c \in Starts /\ old_name'[e] = old_name'[c]
    BY <1>1, <2>1, <2>5
  <2> QED
    BY <2>1, <2>4, <2>5, <2>7, <2>8, <2>9, <2>10, <2>11 DEF StartsInv
<1> QED
  BY <1>a, <1>b, <1>c, <1>d, <1>e DEF make_plan, CrossReferenceResolve

-----------------------------------------------------------------------------
(***************************************************************************)
(* The invariant: with the end of the last loop, no file is unchecked.     *)
(***************************************************************************)
DoneInv ==
  /\ pc = "apply_unchecked" => \A i \in Unchecked : it <= i
  /\ Planned => Unchecked = {}

FilesInv == ListsInv /\ DuplicateInv /\ StartsInv /\ DoneInv

LEMMA NextDoneInv ==
  ASSUME PlanInv, DoneInv, make_plan
  PROVE  DoneInv'
<1>1. /\ it \in Nat \ {0} /\ Unchecked \subseteq Listed /\ Listed \subseteq Nat
      /\ Len(work_files) = Len(printed) /\ Len(printed) \in Nat
  BY StateFacts
<1>2. \A i \in Unchecked : i \in Nat /\ 1 <= i /\ i <= Len(printed)
  BY <1>1 DEF Listed
<1>3. CASE EndScan
  <2>1. /\ ~More /\ pc \in Scans /\ pc' = NextScan[pc] /\ it' = 1 /\ Unchecked' = Unchecked
    BY <1>3 DEF EndScan, dataVars, fieldVars, envVars, Unchecked, Listed
  <2>2. pc' = "planned" => pc = "apply_unchecked"
    BY <2>1, ScanNames DEF ChecksDone
  <2>3. pc = "apply_unchecked" => Unchecked = {}
    <3> SUFFICES ASSUME pc = "apply_unchecked", NEW i \in Unchecked PROVE FALSE
      OBVIOUS
    <3>1. it <= i /\ ~(it <= Len(printed))
      BY <1>1, <2>1 DEF DoneInv, More
    <3> QED
      BY <1>1, <1>2, <3>1
  <2> QED
    BY <1>2, <2>1, <2>2, <2>3 DEF DoneInv, Planned
<1>4. CASE apply_unchecked
  <2>1. /\ pc = "apply_unchecked" /\ pc' = pc /\ it' = it + 1
        /\ (it \in Unchecked /\ Accepts(it)) \/ Keeps
        /\ it \in Listed /\ spec = it
        /\ it \in Unchecked => ~Keeps
    <3>1. /\ pc = "apply_unchecked" /\ pc' = pc /\ it' = it + 1 /\ it \in Listed /\ spec = it
          /\ (it \in Unchecked /\ Accepts(it)) \/ Keeps
      BY <1>4, AcceptingScans, StateFacts DEF apply_unchecked, InScan
    <3>2. it \in Unchecked => status' # status
      BY <1>1, <1>4, <3>1, StateFacts DEF apply_unchecked, Unchecked, DataTypeOK
    <3> QED
      BY <3>1, <3>2 DEF Keeps
  <2>2. Unchecked' = Unchecked \ {it}
    BY <2>1, AcceptFacts, KeepFacts
  <2>3. \A i \in Unchecked \ {it} : it + 1 <= i
    <3> SUFFICES ASSUME NEW i \in Unchecked, i # it PROVE it + 1 <= i
      OBVIOUS
    <3>1. it <= i
      BY <2>1 DEF DoneInv
    <3> QED
      BY <1>1, <1>2, <3>1
  <2> QED
    BY <2>1, <2>2, <2>3 DEF DoneInv, Planned
<1>5. CASE ~EndScan /\ ~apply_unchecked
  <2>1. pc' \notin {"apply_unchecked", "planned"}
    BY <1>5, ScanNames
       DEF make_plan, CrossReferenceResolve, EndTopologicPass, cross_map, cross_reference, TryNextTmp,
           previous_scan, duplicate_scan, old_missing_scan, no_change_scan, new_exists_map,
           new_exists_source, new_exists_dest, Refuse, InScan, FollowOn, FollowToStart,
           FollowToDeadEnd, NextReference, dest_exists, topologic_sort, ReplaceStart,
           CollectCircular, AddExtraRename, localVars, sortVars, crossVars
  <2> QED
    BY <2>1 DEF DoneInv, Planned
<1> QED
  BY <1>3, <1>4, <1>5

\* Other processes change neither the lists nor the variables of make_plan.
LEMMA StillFilesInv ==
  ASSUME FilesInv, UNCHANGED <<fieldVars, planVars, work_files, localVars, printed, scenario>>
  PROVE  FilesInv'
<1> USE DEF fieldVars, planVars, sortVars, crossVars, localVars
<1>1. /\ Listed' = Listed /\ Pending' = Pending /\ Unchecked' = Unchecked
  BY DEF Listed, Pending, Unchecked
<1>2. ListsInv'
  BY <1>1 DEF FilesInv, ListsInv, Distinct, Elems
<1>3. DuplicateInv'
  BY <1>1 DEF FilesInv, DuplicateInv, SharesBefore, Shares
<1>4. Starts' = Starts /\ Extras' = Extras
  BY <1>1 DEF Starts, Extras
<1>5. ASSUME NEW c \in Starts
      PROVE  /\ ByTemporaryName(c) => ByTemporaryName(c)'
             /\ TakesPlace(c) => TakesPlace(c)'
  <2>1. UNCHANGED <<ok, old_name, new_name, Elems(work_files)>>
    BY DEF Elems
  <2>2. ByTemporaryName(c)' <=> ByTemporaryName(c)
    BY <2>1 DEF ByTemporaryName
  <2>3. TakesPlace(c)' <=> TakesPlace(c)
    BY <1>1 DEF TakesPlace
  <2> QED
    BY <2>2, <2>3
<1>6. s1' = s1 /\ (TakesPlace(s1) => TakesPlace(s1)')
  BY <1>1 DEF TakesPlace
<1>7. StartsInv'
  BY <1>4, <1>5, <1>6 DEF FilesInv, StartsInv
<1> QED
  BY <1>1, <1>2, <1>3, <1>7 DEF FilesInv, DoneInv, Planned

LEMMA StartFilesInv == PlanStart => FilesInv
<1> SUFFICES ASSUME PlanStart PROVE FilesInv
  OBVIOUS
<1>1. PlanInv
  BY StartPlanInv
<1>2. /\ pc = "previous_scan" /\ ok = <<>> /\ error = <<>> /\ no_change = <<>>
      /\ \A i \in Listed : status[i] = "UNCHECKED"
  BY <1>1, StateFacts DEF PlanStart, InitLocals, EmptyPlan, FreshSpecs
<1>3. Pending = {} /\ Elems(error) = {} /\ Elems(no_change) = {}
  BY <1>2, EmptyElems DEF Pending
<1>4. ListsInv
  BY <1>2, <1>3 DEF ListsInv, Distinct, ErrorStatus
<1>5. DuplicateInv
  BY <1>2 DEF DuplicateInv
<1>6. StartsInv
  BY <1>2, <1>3 DEF StartsInv, Starts, Extras
<1> QED
  BY <1>2, <1>4, <1>5, <1>6 DEF FilesInv, DoneInv, Planned

\* Every step keeps the invariant.
LEMMA NextFilesInv == PlanInv /\ FilesInv /\ [PlanNext]_makePlanVars => FilesInv'
<1> SUFFICES ASSUME PlanInv, FilesInv, [PlanNext]_makePlanVars PROVE FilesInv'
  OBVIOUS
<1>1. CASE make_plan
  BY <1>1, NextListsInv, NextDuplicateInv, NextStartsInv, NextDoneInv DEF FilesInv
<1>2. CASE OtherProcess \/ PlanDone \/ UNCHANGED makePlanVars
  BY <1>2, StillFilesInv DEF OtherProcess, PlanDone, makePlanVars, dataVars, envVars
<1> QED
  BY <1>1, <1>2 DEF PlanNext

\* So it holds throughout.
LEMMA FilesAlways == PlanSpec => [](PlanInv /\ FilesInv)
<1>1. PlanInit => PlanInv /\ FilesInv
  BY InitStarts, StartPlanInv, StartFilesInv
<1> QED
  BY <1>1, NextPlanInv, NextFilesInv, PTL DEF PlanSpec

-----------------------------------------------------------------------------
\* How often a file is in a list without repetitions.
LEMMA OncePlace ==
  ASSUME NEW S, NEW list \in Seq(S), Distinct(list), NEW s
  PROVE  Cardinality({i \in 1 .. Len(list) : list[i] = s}) = (IF s \in Elems(list) THEN 1 ELSE 0)
<1> DEFINE places == {i \in 1 .. Len(list) : list[i] = s}
<1>1. CASE s \in Elems(list)
  <2>1. PICK i \in 1 .. Len(list) : list[i] = s
    BY <1>1 DEF Elems
  <2>2. places = {i}
    BY <2>1 DEF Distinct
  <2> QED
    BY <1>1, <2>2, FS_Singleton
<1>2. CASE s \notin Elems(list)
  <2>1. places = {}
    BY <1>2 DEF Elems
  <2> QED
    BY <1>2, <2>1, FS_EmptySet
<1> QED
  BY <1>1, <1>2

(***************************************************************************)
(* Extra renames stand for no other file: their sources are the old names  *)
(* of the first files, their destinations the new names of these, which    *)
(* no other file of the plan has.                                          *)
(***************************************************************************)
LEMMA StandForStarts ==
  ASSUME PlanInv, FilesInv, Planned, NEW s \in Listed, ByTemporaryName(s)
  PROVE  s \in Starts
<1>1. /\ NamesInv /\ DestInv /\ StartsInv /\ DuplicateInv /\ Elems(work_files) = Listed
  BY StateFacts, FilesListed DEF FilesInv, NamesInv
<1>2. PICK i \in 1 .. Len(ok), j \in 1 .. Len(ok) :
        /\ i < j
        /\ {ok[i], ok[j]} \cap Listed = {}
        /\ old_name[ok[i]] = old_name[s] /\ new_name[ok[j]] = new_name[s]
        /\ new_name[ok[i]] = old_name[ok[j]]
  BY <1>1 DEF ByTemporaryName
<1> DEFINE x == ok[i]
           y == ok[j]
<1>3. x \in Extras /\ y \in Extras /\ x \in Pending /\ y \in Pending
  BY <1>2 DEF Extras, Pending, Elems
<1>4. /\ old_name[x] = old_name[s] /\ new_name[y] = new_name[s] /\ new_name[x] = old_name[y]
  BY <1>2
<1> HIDE DEF x, y
<1>5. PICK c \in Starts, d \in Starts :
        /\ old_name[x] = old_name[c] \/ new_name[x] = new_name[c]
        /\ old_name[y] = old_name[d] \/ new_name[y] = new_name[d]
  BY <1>1, <1>3 DEF StartsInv
<1>6. c \in Listed /\ d \in Listed /\ TakesPlace(d) /\ status[d] # "DUPLICATE"
  BY <1>1 DEF StartsInv, Starts, Planned
<1>7. CASE old_name[x] = old_name[c]
  BY <1>4, <1>6, <1>7, OldNamesDiffer
<1>8. CASE new_name[y] = new_name[d]
  <2>1. ~Shares(d)
    BY <1>1, <1>6 DEF DuplicateInv, Planned
  <2> QED
    BY <1>4, <1>6, <1>8, <2>1 DEF Shares
<1>9. CASE old_name[y] = old_name[d]
  <2>1. PICK z \in Pending \cap Listed : new_name[z] = old_name[d]
    BY <1>6 DEF TakesPlace
  <2>2. z = x
    BY <1>1, <1>3, <1>4, <1>9, <2>1 DEF DestInv
  <2> QED
    BY <1>3, <2>1, <2>2 DEF Extras
<1> QED
  BY <1>5, <1>7, <1>8, <1>9

(***************************************************************************)
(* Each listed file ends up in exactly one list of the plan, once; only    *)
(* for the first file of a circular set do two extra renames stand.        *)
(***************************************************************************)
THEOREM EachFileOnceAlways == PlanSpec => []EachFileOnce
<1>1. ASSUME PlanInv, FilesInv PROVE EachFileOnce
  <2> SUFFICES ASSUME Planned, NEW s \in Elems(work_files)
               PROVE  Cardinality(Occurrences(s))
                      + Cardinality({i \in 1 .. Len(error) : error[i] = s})
                      + Cardinality({i \in 1 .. Len(no_change) : no_change[i] = s})
                      = (IF ByTemporaryName(s) THEN 0 ELSE 1)
    BY DEF EachFileOnce
  <2>1. /\ ListsInv /\ StartsInv /\ DoneInv /\ StatusInv /\ NoRepeat
        /\ error \in Seq(Refs) /\ no_change \in Seq(Refs) /\ ok \in Seq(Refs)
        /\ s \in Listed /\ status[s] \in FileSpecStatus
    BY <1>1, FilesListed, StateFacts DEF FilesInv, LinksInv, DataTypeOK
  <2>2. Distinct(ok)
    BY <2>1 DEF Distinct, NoRepeat
  <2>3. /\ Cardinality(Occurrences(s)) = IF s \in Pending THEN 1 ELSE 0
        /\ Cardinality({i \in 1 .. Len(error) : error[i] = s}) = IF s \in Elems(error) THEN 1 ELSE 0
        /\ Cardinality({i \in 1 .. Len(no_change) : no_change[i] = s}) =
              IF s \in Elems(no_change) THEN 1 ELSE 0
    BY <2>1, <2>2, OncePlace DEF Occurrences, Pending, ListsInv
  <2>4. /\ s \in Elems(error) <=> status[s] \in ErrorStatus
        /\ s \in Elems(no_change) <=> status[s] = "NO_CHANGE"
        /\ s \in Pending => status[s] \in OkStatus
        /\ status[s] = "CIRCULAR" => s \in Pending
        /\ status[s] # "UNCHECKED"
    BY <2>1 DEF ListsInv, StatusInv, DoneInv, Unchecked
  <2>5. ByTemporaryName(s) => s \in Starts
    BY <1>1, <2>1, StandForStarts
  <2>6. s \in Starts => ByTemporaryName(s) /\ s \notin Pending /\ status[s] = "APPLY"
    BY <2>1 DEF StartsInv, Starts, Planned
  <2>7. s \notin Starts /\ status[s] = "APPLY" => s \in Pending
    BY <2>1 DEF Starts
  <2> QED
    BY <2>1, <2>3, <2>4, <2>5, <2>6, <2>7 DEF FileSpecStatus, ErrorStatus, OkStatus
<1>2. PlanInv /\ FilesInv => EachFileOnce
  BY <1>1
<1> QED
  BY <1>2, FilesAlways, PTL


-----------------------------------------------------------------------------
Checks   == {"previous_scan", "duplicate_scan", "old_missing_scan", "no_change_scan"}
CopyScans == {"new_exists_map", "new_exists_source", "new_exists_dest"}

\* The files that passed the checks, or may still pass them.
LeftStatus == {"UNCHECKED", "NEW_EXISTS"} \cup OkStatus
Left == {i \in Listed : status[i] \in LeftStatus}

\* A set of candidates all of which can be renamed.
Doable(set) == set \subseteq Candidates /\ AllVacated(set)

(***************************************************************************)
(* Why a file is refused, and which files are left: past the checks, the   *)
(* candidates.                                                             *)
(***************************************************************************)
RefusedInv ==
  \A i \in Listed : /\ status[i] = "OLD_MISSING" => ~file_exists(old_name[i])
                    /\ status[i] = "NO_CHANGE" => old_name[i] = new_name[i]
                    /\ status[i] = "NEW_EXISTS" => i \notin Feasible

LeftInv ==
  /\ pc \in Checks => Left = Unchecked
  /\ pc = "old_missing_scan" => \A i \in Left : i < it => file_exists(old_name[i])
  /\ pc = "no_change_scan" => \A i \in Left : /\ file_exists(old_name[i])
                                              /\ i < it => old_name[i] # new_name[i]
  /\ pc \notin Checks => Left = Candidates

\* qcp: the names in the map exist, the destinations that passed do not.
CopyInv ==
  /\ pc \in CopyScans => program = "qcp"
  /\ pc \in {"new_exists_map", "new_exists_source"} =>
       \A n \in FileNames : map[n] # NULL => file_exists(n)
  /\ pc = "new_exists_dest" => \A i \in Unchecked : i < it => ~file_exists(new_name[i])
  /\ program = "qcp" /\ pc \in {"apply_unchecked", "planned"} =>
       \A i \in Left : status[i] # "NEW_EXISTS" => ~file_exists(new_name[i])

(***************************************************************************)
(* topologic_sort (qmv): what is still unchecked has a destination that    *)
(* exists; `available' has the planned renames whose source no other one   *)
(* moves to; a pass without a change has met no available destination.     *)
(***************************************************************************)
SortedInv ==
  /\ pc = "dest_exists" =>
       \A i \in Unchecked : i < it => i \in Elems(pending) /\ file_exists(new_name[i])
  /\ pc \in {"topologic_sort", "cross_map"} \cup Crossing =>
       \A i \in Unchecked : file_exists(new_name[i])
  /\ pc = "topologic_sort" => Unchecked \subseteq Elems(pending)
  /\ InSort => \A t \in Pending : \/ map[old_name[t]] = t
                                  \/ \E q \in Pending : new_name[q] = old_name[t]
  /\ pc = "topologic_sort" /\ ~changed =>
       \A i \in 1 .. Len(pending) : i < it => map[new_name[pending[i]]] = NULL

(***************************************************************************)
(* cross_reference_resolve (qmv): no planned rename vacates a destination  *)
(* that an unchecked file waits for; map has the unchecked files by their  *)
(* old names; whatever set the first file can be renamed in holds the file *)
(* that the walk has reached.                                              *)
(***************************************************************************)
CrossInv ==
  /\ InCross => \A t \in Listed, u \in Unchecked :
                  status[t] \in OkStatus /\ old_name[t] = new_name[u] => pc = "collect" /\ t = s1
  /\ pc = "cross_map" => \A u \in Unchecked : u < it => map[old_name[u]] = u
  /\ pc \in Crossing => \A u \in Unchecked : map[old_name[u]] = u
  /\ pc = "follow" => \A set : Doable(set) /\ s1 \in set => s2 \in set

\* The source of an extra rename is a first file, or a free temporary name.
ExtrasInv ==
  \A x \in Extras : (\E c \in Starts : old_name[x] = old_name[c]) \/ ~file_exists(old_name[x])

FeasibleParts == RefusedInv /\ LeftInv /\ CopyInv /\ SortedInv /\ CrossInv /\ ExtrasInv

FeasibleInv == external = 0 => FeasibleParts

-----------------------------------------------------------------------------
\* If no process interferes, the same sets of files can be renamed after a step.
LEMMA FeasibleStays ==
  ASSUME PlanInv, NamesStay, fs' = fs, options' = options
  PROVE  /\ Candidates' = Candidates /\ Feasible' = Feasible
         /\ \A set : Doable(set)' <=> Doable(set)
<1>1. /\ Elems(work_files) = Listed /\ Elems(work_files)' = Listed /\ Listed' = Listed
      /\ \A i \in Listed : old_name'[i] = old_name[i] /\ new_name'[i] = new_name[i]
  BY FilesListed DEF NamesStay, Elems
<1>2. Candidates' = Candidates
  BY <1>1 DEF Candidates, file_exists
<1>3. Candidates \subseteq Listed
  BY <1>1 DEF Candidates
<1>4. ASSUME NEW set, set \subseteq Listed
      PROVE  AllVacated(set)' <=> AllVacated(set)
  BY <1>1, <1>4 DEF AllVacated, file_exists
<1>5. {set \in SUBSET Candidates : AllVacated(set)}' = {set \in SUBSET Candidates : AllVacated(set)}
  BY <1>2, <1>3, <1>4
<1>6. {s \in Candidates : ~file_exists(new_name[s])}' = {s \in Candidates : ~file_exists(new_name[s])}
  BY <1>1, <1>2, <1>3 DEF file_exists
<1>7. Feasible' = Feasible
  BY <1>2, <1>5, <1>6 DEF Feasible, program
<1> QED
  BY <1>2, <1>3, <1>4, <1>7 DEF Doable

LEMMA UndisturbedStep ==
  ASSUME PlanInv, [PlanNext]_makePlanVars, external' = 0
  PROVE  /\ external = 0 /\ fs' = fs /\ printed' = printed /\ scenario' = scenario /\ options' = options
         /\ make_plan \/ UNCHANGED makePlanVars
<1> USE DEF dataVars, fieldVars, planVars, sortVars, crossVars, localVars, envVars
<1>1. external \in Nat
  BY DEF PlanInv, TypeInv, PlanTypeOK
<1>2. ~OtherProcess
  BY <1>1 DEF OtherProcess
<1>3. CASE PlanDone \/ UNCHANGED makePlanVars
  BY <1>3 DEF PlanDone, makePlanVars
<1>4. CASE make_plan
  <2>1. UNCHANGED <<external, options, printed, scenario, fs>>
    BY <1>4 DEF make_plan, CrossReferenceResolve, EndScan, previous_scan, duplicate_scan,
         old_missing_scan, no_change_scan, dest_exists, topologic_sort, EndTopologicPass,
         cross_map, cross_reference, FollowToDeadEnd, FollowToStart, FollowOn, TryNextTmp,
         ReplaceStart, CollectCircular, AddExtraRename, new_exists_map, new_exists_source,
         new_exists_dest, apply_unchecked, Refuse
  <2> QED
    BY <1>4, <2>1
<1> QED
  BY <1>2, <1>3, <1>4 DEF PlanNext

\* Before a file is planned, and in topologic_sort, which files the plan has.
LEMMA PlannedFiles ==
  ASSUME PlanInv, FilesInv
  PROVE  /\ pc \in Early => \A i \in Listed : status[i] \notin OkStatus
         /\ pc \in Sorting => \A i \in Listed : status[i] \in OkStatus => i \in Pending
<1>1. StatusInv /\ StartsInv /\ ListsInv
  BY StateFacts DEF FilesInv
<1>2. ASSUME Extras = {}, pc # "collect" PROVE \A i \in Listed : status[i] \in OkStatus => i \in Pending
  <2>1. ASSUME NEW c \in Starts PROVE \E x \in Pending : x \notin Elems(work_files)
    <3>1. \E i \in 1 .. Len(ok) : ok[i] \notin Elems(work_files)
      BY <1>1, <1>2 DEF StartsInv, ByTemporaryName
    <3>2. \A i \in 1 .. Len(ok) : ok[i] \in Pending
      BY DEF Pending, Elems
    <3> QED
      BY <3>1, <3>2
  <2>2. Starts = {}
    BY <1>2, <2>1, FilesListed DEF Extras
  <2> QED
    BY <1>1, <2>2 DEF ListsInv, Starts, OkStatus
<1>3. pc \in Early => Pending = {} /\ Extras = {} /\ pc # "collect"
  BY <1>1, EmptyElems DEF StatusInv, Pending, Extras, Early
<1>4. pc \in Sorting => Extras = {} /\ pc # "collect"
  BY <1>1 DEF StatusInv, Extras, Sorting
<1> QED
  BY <1>2, <1>3, <1>4

-----------------------------------------------------------------------------
\* The walk closes where it started.
LoopClosed == Following = s1 /\ next_spec'[s1] = NULL

\* The reason for which a step refuses a file or leaves it alone.
LEMMA WhyRefused ==
  ASSUME PlanInv, make_plan, NEW i \in Listed
  PROVE  /\ status'[i] = "OLD_MISSING" =>
              \/ status[i] = "OLD_MISSING"
              \/ pc = "old_missing_scan" /\ ~file_exists(old_name[i])
         /\ status'[i] = "NO_CHANGE" =>
              \/ status[i] = "NO_CHANGE"
              \/ pc = "no_change_scan" /\ old_name[i] = new_name[i]
         /\ status'[i] = "NEW_EXISTS" =>
              \/ status[i] = "NEW_EXISTS"
              \/ /\ i \in Unchecked
                 /\ \/ pc = "new_exists_source" /\ map[new_name[i]] # NULL
                    \/ pc = "new_exists_dest" /\ file_exists(new_name[i])
                    \/ FollowToDeadEnd /\ i = s1
                    \/ FollowToStart /\ LoopClosed /\ i = s1
<1> USE DEF dataVars, fieldVars, planVars, sortVars, crossVars, localVars, envVars
<1>1. /\ TypeInv /\ StatusInv /\ DataTypeOK /\ Listed \subseteq Refs
      /\ More => it \in Listed /\ spec = it
      /\ Unchecked \subseteq Listed
  BY StateFacts
<1>2. status \in [Refs -> FileSpecStatus \cup MemoryStatus] /\ i \in Refs
  BY <1>1 DEF DataTypeOK
<1>3. status[i] = "UNCHECKED" => i \in Unchecked
  BY DEF Unchecked
<1>a. CASE EndScan \/ EndTopologicPass \/ cross_map \/ cross_reference \/ TryNextTmp
           \/ new_exists_map \/ FollowOn \/ (FollowToStart /\ pc' = "temporary") \/ previous_scan
  <2>1. status' = status
    BY <1>a DEF EndScan, EndTopologicPass, cross_map, cross_reference, TryNextTmp,
         new_exists_map, FollowOn, FollowToStart, NextReference, previous_scan
  <2> QED
    BY <2>1
<1>b. CASE duplicate_scan
  <2>1. status'[i] \in {status[i], "DUPLICATE"}
    BY <1>1, <1>2, <1>b DEF duplicate_scan
  <2> QED
    BY <2>1
<1>c. CASE old_missing_scan \/ no_change_scan
  <2>1. it \in Listed /\ spec = it
    BY <1>1, <1>c DEF old_missing_scan, no_change_scan, Refuse, InScan
  <2>2. CASE old_missing_scan
    BY <1>2, <2>1, <2>2 DEF old_missing_scan, Refuse, InScan
  <2>3. CASE no_change_scan
    BY <1>2, <2>1, <2>3 DEF no_change_scan, InScan
  <2> QED
    BY <1>c, <2>2, <2>3
<1>d. CASE new_exists_source \/ new_exists_dest
  <2>1. it \in Listed /\ spec = it
    BY <1>1, <1>d DEF new_exists_source, new_exists_dest, Refuse, InScan
  <2>2. CASE new_exists_source
    BY <1>2, <1>3, <2>1, <2>2 DEF new_exists_source, Refuse, InScan
  <2>3. CASE new_exists_dest
    BY <1>2, <1>3, <2>1, <2>3 DEF new_exists_dest, Refuse, InScan
  <2> QED
    BY <1>d, <2>2, <2>3
<1>e. CASE dest_exists \/ topologic_sort \/ apply_unchecked
  <2>1. Keeps \/ \E x \in Unchecked : Accepts(x)
    BY <1>e, AcceptingScans
  <2>2. status'[i] \in {status[i], "APPLY"}
    BY <1>2, <2>1 DEF Keeps, Accepts
  <2> QED
    BY <2>2
<1>f. CASE FollowToDeadEnd \/ (FollowToStart /\ pc' # "temporary")
  <2>1. /\ s1 \in Unchecked /\ status'[s1] = "NEW_EXISTS"
        /\ \A s \in Refs \ {s1} : status'[s] = status[s]
    BY <1>f, DeadEndFacts
  <2>2. FollowToStart /\ pc' # "temporary" => LoopClosed
    BY DEF FollowToStart, LoopClosed
  <2> QED
    BY <1>2, <1>f, <2>1, <2>2
<1>g. CASE ReplaceStart
  <2>1. status'[i] \in {status[i], "APPLY"}
    BY <1>2, <1>g, ReplaceStartFacts
  <2> QED
    BY <2>1
<1>h. CASE CollectCircular
  <2>1. status'[i] \in {status[i], "CIRCULAR"}
    BY <1>2, <1>h, CollectFacts
  <2> QED
    BY <2>1
<1>i. CASE AddExtraRename
  <2>1. status'[i] = status[i]
    BY <1>2, <1>i, AddExtraFacts
  <2> QED
    BY <2>1
<1> QED
  BY <1>a, <1>b, <1>c, <1>d, <1>e, <1>f, <1>g, <1>h, <1>i DEF make_plan, CrossReferenceResolve

\* A candidate that is unchecked is not at both ends of a closed walk of one.
LEMMA NoLoopOfOne ==
  ASSUME PlanInv, LeftInv, FollowToStart, LoopClosed
  PROVE  FALSE
<1>1. /\ WalkInv /\ pc = "follow" /\ Following = s1 /\ s1 \in Unchecked /\ prev_circular = s2
      /\ next_spec' = [next_spec EXCEPT ![s2] = NULL] /\ next_spec'[s1] = NULL
      /\ s2 \in Unchecked /\ s1 # NULL /\ new_name[s2] \in FileNames
      /\ DataTypeOK /\ Unchecked \subseteq Refs /\ NULL \notin Refs /\ Unchecked \subseteq Listed
  BY WalkFacts, StateFacts DEF FollowToStart, LoopClosed
<1>2. s1 = s2
  <2> SUFFICES ASSUME s1 # s2 PROVE FALSE
    OBVIOUS
  <2>1. PICK n \in Nat \ {0} : \E p \in [1 .. n -> Unchecked] : Walk(n, p) /\ p[1] = s1 /\ p[n] = s2
    BY <1>1 DEF WalkInv
  <2>2. PICK p \in [1 .. n -> Unchecked] : Walk(n, p) /\ p[1] = s1 /\ p[n] = s2
    BY <2>1
  <2>3. n # 1
    BY <2>2
  <2>4. 1 \in 1 .. n - 1 /\ 1 + 1 \in 1 .. n
    BY <2>1, <2>3
  <2>5. next_spec[s1] = p[1 + 1]
    BY <2>2, <2>4 DEF Walk
  <2>6. p[1 + 1] \in Refs
    BY <1>1, <2>2, <2>4
  <2>7. next_spec'[s1] = next_spec[s1]
    BY <1>1 DEF DataTypeOK
  <2> QED
    BY <1>1, <2>5, <2>6, <2>7
<1>3. old_name[s1] = new_name[s1]
  BY <1>1, <1>2 DEF WalkInv, Crossing, Following
<1>4. s1 \in Candidates
  BY <1>1 DEF LeftInv, Left, LeftStatus, Unchecked, Checks
<1> QED
  BY <1>3, <1>4 DEF Candidates

(***************************************************************************)
(* A set of files that can all be renamed, and that has the file that the  *)
(* walk stands on, has the unchecked file that the walk goes to next.      *)
(***************************************************************************)
LEMMA WalkStaysIn ==
  ASSUME PlanInv, RefusedInv, LeftInv, SortedInv, CrossInv, pc = "follow",
         NEW set, Doable(set), s2 \in set
  PROVE  Following \in set /\ Following \in Unchecked
<1>1. /\ s2 \in Unchecked /\ Unchecked \subseteq Listed
  BY WalkFacts, StateFacts
<1>2. file_exists(new_name[s2])
  BY <1>1 DEF SortedInv, Crossing
<1>3. PICK t \in set : old_name[t] = new_name[s2]
  BY <1>2 DEF Doable, AllVacated
<1>4. t \in Left /\ set \in SUBSET Candidates
  BY DEF Doable, LeftInv, Checks
<1>5. status[t] \notin OkStatus
  BY <1>1, <1>3, <1>4 DEF CrossInv, InCross, Left
<1>6. status[t] # "NEW_EXISTS"
  <2>1. program = "qmv"
    BY StateFacts DEF TypeInv, Shape, InCross
  <2>2. t \in Feasible
    BY <1>4, <2>1 DEF Feasible, Doable
  <2> QED
    BY <1>4, <2>2 DEF RefusedInv, Left
<1>7. t \in Unchecked
  BY <1>4, <1>5, <1>6 DEF Left, LeftStatus, Unchecked
<1>8. map[new_name[s2]] = t
  BY <1>3, <1>7 DEF CrossInv, Crossing
<1> QED
  BY <1>7, <1>8 DEF Following

\* A dead end refuses a file that no feasible set has.
LEMMA DeadEndInfeasible ==
  ASSUME PlanInv, RefusedInv, LeftInv, SortedInv, CrossInv, FollowToDeadEnd
  PROVE  s1 \notin Feasible
<1> SUFFICES ASSUME s1 \in Feasible PROVE FALSE
  OBVIOUS
<1>1. pc = "follow" /\ DeadEnd
  BY DEF FollowToDeadEnd
<1>2. program = "qmv"
  BY <1>1, StateFacts DEF TypeInv, Shape, InCross
<1>3. PICK set : Doable(set) /\ s1 \in set
  BY <1>2 DEF Feasible, Doable
<1>4. s2 \in set
  BY <1>1, <1>3 DEF CrossInv
<1>5. Following \in Unchecked /\ Unchecked \subseteq Refs
  BY <1>1, <1>3, <1>4, WalkStaysIn, StateFacts
<1> QED
  BY <1>1, <1>5 DEF DeadEnd, Unchecked

LEMMA NextRefusedInv ==
  ASSUME PlanInv, FeasibleParts, make_plan, fs' = fs, options' = options
  PROVE  RefusedInv'
<1>1. NamesStay /\ Listed' = Listed
  BY FileSteps DEF NamesStay
<1>2. Feasible' = Feasible
  BY <1>1, FeasibleStays
<1> SUFFICES ASSUME NEW i \in Listed
             PROVE  /\ status'[i] = "OLD_MISSING" => ~file_exists(old_name[i])
                    /\ status'[i] = "NO_CHANGE" => old_name[i] = new_name[i]
                    /\ status'[i] = "NEW_EXISTS" => i \notin Feasible
  BY <1>1, <1>2 DEF RefusedInv, NamesStay, file_exists
<1>3. /\ status[i] = "OLD_MISSING" => ~file_exists(old_name[i])
      /\ status[i] = "NO_CHANGE" => old_name[i] = new_name[i]
      /\ status[i] = "NEW_EXISTS" => i \notin Feasible
  BY DEF FeasibleParts, RefusedInv
<1>4. ASSUME pc \in CopyScans, file_exists(new_name[i]) PROVE i \notin Feasible
  <2>1. program = "qcp"
    BY <1>4 DEF FeasibleParts, CopyInv
  <2> QED
    BY <1>4, <2>1 DEF Feasible
<1>5. pc = "new_exists_source" /\ map[new_name[i]] # NULL => i \notin Feasible
  <2>1. new_name[i] \in FileNames
    BY StateFacts
  <2> QED
    BY <1>4, <2>1 DEF FeasibleParts, CopyInv, CopyScans
<1>6. pc = "new_exists_dest" /\ file_exists(new_name[i]) => i \notin Feasible
  BY <1>4 DEF CopyScans
<1>7. FollowToDeadEnd /\ i = s1 => i \notin Feasible
  BY DeadEndInfeasible DEF FeasibleParts
<1>8. ~(FollowToStart /\ LoopClosed)
  BY NoLoopOfOne DEF FeasibleParts
<1> QED
  BY <1>3, <1>5, <1>6, <1>7, <1>8, WhyRefused

LEMMA NextLeftInv ==
  ASSUME PlanInv, FilesInv, FeasibleParts, make_plan, fs' = fs, options' = options
  PROVE  LeftInv'
<1> USE DEF dataVars, fieldVars, planVars, sortVars, crossVars, localVars, envVars
<1>1. /\ NamesStay /\ Listed' = Listed /\ \A i \in Listed : old_name'[i] = old_name[i] /\ new_name'[i] = new_name[i]
  BY FileSteps DEF NamesStay
<1>2. Candidates' = Candidates
  BY <1>1, FeasibleStays
<1>3. /\ it \in Nat \ {0} /\ Listed \subseteq Nat /\ Unchecked \subseteq Listed
      /\ Len(work_files) = Len(printed) /\ Len(printed) \in Nat
      /\ \A i \in Listed : status[i] \in FileSpecStatus
      /\ More => it \in Listed /\ spec = it
  BY StateFacts
<1>4. /\ Early = Checks \cup CopyScans
      /\ Checks = {"previous_scan", "duplicate_scan", "old_missing_scan", "no_change_scan"}
  BY DEF Early, Checks, CopyScans
<1>5. Unchecked \subseteq Left
  BY DEF Unchecked, Left, LeftStatus
<1>6. LeftInv
  BY DEF FeasibleParts
<1>a. CASE EndScan
  <2>1. /\ pc \in Scans /\ pc' = NextScan[pc] /\ ~More /\ it' = 1 /\ Keeps
    BY <1>a DEF EndScan, Keeps
  <2>2. /\ pc' = "old_missing_scan" => pc = "duplicate_scan"
        /\ pc' = "no_change_scan" => pc = "old_missing_scan"
        /\ pc' \in Checks => pc \in Checks
        /\ pc' \notin Checks => pc \notin Checks \/ pc = "no_change_scan"
    BY <1>4, <2>1, ScanNames DEF ChecksDone
  <2>3. \A i \in Listed : i < it /\ ~(i < 1)
    BY <1>3, <2>1 DEF More, Listed
  <2>4. Unchecked' = Unchecked /\ Left' = Left
    BY <1>1, <2>1, KeepFacts DEF Left
  <2>5. Left \subseteq Listed
    BY DEF Left
  <2>6. pc = "no_change_scan" => Left = Candidates
    <3> SUFFICES ASSUME pc = "no_change_scan" PROVE Left = Candidates
      OBVIOUS
    <3>1. \A i \in Listed : status[i] = "DUPLICATE" <=> Shares(i)
      BY DEF FilesInv, DuplicateInv
    <3>2. \A i \in Left : file_exists(old_name[i]) /\ old_name[i] # new_name[i]
      BY <1>6, <2>3, <2>5 DEF LeftInv
    <3>3. \A i \in Listed : i \in Candidates <=>
             ~Shares(i) /\ file_exists(old_name[i]) /\ old_name[i] # new_name[i]
      BY FilesListed DEF Candidates, Shares
    <3>4. Candidates \subseteq Listed
      BY FilesListed DEF Candidates
    <3>5. \A i \in Listed : i \in Left <=> status[i] \notin {"DUPLICATE", "OLD_MISSING", "NO_CHANGE"}
      BY <1>3 DEF Left, LeftStatus, FileSpecStatus, ErrorStatus, OkStatus
    <3>6. \A i \in Listed : /\ status[i] = "OLD_MISSING" => ~file_exists(old_name[i])
                            /\ status[i] = "NO_CHANGE" => old_name[i] = new_name[i]
      BY DEF FeasibleParts, RefusedInv
    <3> QED
      BY <2>5, <3>1, <3>2, <3>3, <3>4, <3>5, <3>6
  <2>7. pc = "old_missing_scan" => \A i \in Left : file_exists(old_name[i])
    BY <1>6, <2>3, <2>5 DEF LeftInv
  <2> QED
    BY <1>1, <1>2, <1>6, <2>1, <2>2, <2>3, <2>4, <2>5, <2>6, <2>7 DEF LeftInv, file_exists
<1>b. CASE ~EndScan /\ pc \notin Checks
  <2>1. pc' \notin Checks
    BY <1>4, <1>b, ScanNames
       DEF make_plan, CrossReferenceResolve, EndTopologicPass, cross_map, cross_reference, TryNextTmp,
           previous_scan, duplicate_scan, old_missing_scan, no_change_scan, new_exists_map,
           new_exists_source, new_exists_dest, Refuse, InScan, FollowOn, FollowToStart,
           FollowToDeadEnd, NextReference, dest_exists, topologic_sort, ReplaceStart,
           CollectCircular, AddExtraRename, apply_unchecked
  <2>2. ~duplicate_scan
    BY <1>4, <1>b DEF duplicate_scan, InScan
  <2>3. FileStep
    BY <2>2, FileSteps
  <2>4. ASSUME NEW i \in Listed PROVE status'[i] \in LeftStatus <=> status[i] \in LeftStatus
    <3>1. status'[i] \in {"OLD_MISSING", "NO_CHANGE"} => status'[i] = status[i]
      BY <1>4, <1>b, WhyRefused
    <3>2. \/ status'[i] = status[i]
          \/ status[i] = "UNCHECKED" /\ status'[i] \in {"OLD_MISSING", "NEW_EXISTS", "NO_CHANGE"} \cup OkStatus
      BY <2>3 DEF FileStep, LeavesFiles, RefusesFile, KeepsFile, PlansFile, Others, Unchecked
    <3> QED
      BY <3>1, <3>2 DEF LeftStatus
  <2>5. Left' = Left
    BY <1>1, <2>4 DEF Left
  <2> QED
    BY <1>2, <1>4, <1>6, <1>b, <2>1, <2>5 DEF LeftInv
<1>c. CASE pc \in Checks /\ (previous_scan \/ duplicate_scan)
  <2>1. pc' \in {"previous_scan", "duplicate_scan"}
    BY <1>c DEF previous_scan, duplicate_scan, InScan
  <2>2. \A i \in Listed : status'[i] \in {status[i], "DUPLICATE"}
    <3>1. CASE previous_scan
      BY <3>1 DEF previous_scan
    <3>2. CASE duplicate_scan
      <4>1. DataTypeOK /\ Listed \subseteq Refs /\ it \in Refs
        BY <1>3, <3>2, StateFacts DEF duplicate_scan, InScan
      <4> QED
        BY <3>2, <4>1 DEF duplicate_scan, DataTypeOK
    <3> QED
      BY <1>c, <3>1, <3>2
  <2>3. Left' = Unchecked'
    <3>1. \A i \in Listed : status'[i] \in LeftStatus <=> status'[i] = "UNCHECKED"
      BY <1>4, <1>6, <1>c, <2>2 DEF LeftInv, Left, Unchecked, LeftStatus, OkStatus
    <3> QED
      BY <1>1, <3>1 DEF Left, Unchecked
  <2> QED
    BY <1>4, <2>1, <2>3 DEF LeftInv
<1>d. CASE old_missing_scan \/ no_change_scan
  <2>1. /\ pc \in {"old_missing_scan", "no_change_scan"} /\ pc' = pc /\ it' = it + 1
        /\ it \in Listed /\ spec = it
    BY <1>3, <1>d DEF old_missing_scan, no_change_scan, Refuse, InScan
  <2>2. \A i \in Listed \ {it} : status'[i] = status[i]
    <3>1. \/ status' = status
          \/ \E st \in {"OLD_MISSING", "NO_CHANGE"} : status' = [status EXCEPT ![it] = st]
      BY <1>d, <2>1 DEF old_missing_scan, no_change_scan, Refuse
    <3>2. DataTypeOK /\ Listed \subseteq Refs
      BY StateFacts
    <3> QED
      BY <3>1, <3>2 DEF DataTypeOK
  <2>3. /\ it \in Left' => it \in Left /\ status'[it] = status[it]
        /\ pc = "old_missing_scan" /\ it \in Left' => file_exists(old_name[it])
        /\ pc = "no_change_scan" /\ it \in Left' => old_name[it] # new_name[it]
    <3>1. DataTypeOK /\ Listed \subseteq Refs
      BY StateFacts
    <3>2. \/ /\ status'[it] = status[it]
             /\ status[it] = "UNCHECKED" =>
                  IF pc = "old_missing_scan" THEN file_exists(old_name[it])
                  ELSE old_name[it] # new_name[it]
          \/ status'[it] \in {"OLD_MISSING", "NO_CHANGE"}
      BY <1>d, <2>1, <3>1 DEF old_missing_scan, no_change_scan, Refuse, InScan, DataTypeOK
    <3>3. Left = Unchecked
      BY <1>4, <1>6, <2>1 DEF LeftInv
    <3> QED
      BY <1>1, <2>1, <3>2, <3>3 DEF Left, LeftStatus, OkStatus, Unchecked
  <2>4. /\ Left' \subseteq Left /\ Left' = Unchecked'
    <3>1. \A i \in Listed : i \in Left' => i \in Left /\ status'[i] = status[i]
      BY <1>1, <2>2, <2>3 DEF Left
    <3>2. Left = Unchecked
      BY <1>4, <1>6, <2>1 DEF LeftInv
    <3> QED
      BY <1>1, <3>1, <3>2 DEF Left, Unchecked, LeftStatus
  <2>5. \A i \in Listed : i < it + 1 => i = it \/ i < it
    BY <1>3
  <2>6. Left' \subseteq Listed
    BY <1>1 DEF Left
  <2> QED
    BY <1>1, <1>4, <1>6, <2>1, <2>3, <2>4, <2>5, <2>6 DEF LeftInv, file_exists
<1>e. ASSUME pc \in Checks, make_plan PROVE EndScan \/ previous_scan \/ duplicate_scan \/ old_missing_scan \/ no_change_scan
  BY <1>4, <1>e DEF make_plan, CrossReferenceResolve, EndTopologicPass, cross_map, cross_reference, TryNextTmp,
           new_exists_map, new_exists_source, new_exists_dest, Refuse, InScan, FollowOn, FollowToStart,
           FollowToDeadEnd, dest_exists, topologic_sort, ReplaceStart,
           CollectCircular, AddExtraRename, apply_unchecked
<1> QED
  BY <1>a, <1>b, <1>c, <1>d, <1>e

LEMMA NextCopyInv ==
  ASSUME PlanInv, FilesInv, FeasibleParts, LeftInv', make_plan, fs' = fs, options' = options
  PROVE  CopyInv'
<1> USE DEF dataVars, fieldVars, planVars, sortVars, crossVars, localVars, envVars
<1>1. /\ NamesStay /\ Listed' = Listed /\ program' = program
      /\ \A i \in Listed : old_name'[i] = old_name[i] /\ new_name'[i] = new_name[i]
  BY FileSteps DEF NamesStay, program
<1>2. /\ it \in Nat \ {0} /\ Listed \subseteq Nat /\ Unchecked \subseteq Listed
      /\ Len(work_files) = Len(printed) /\ Len(printed) \in Nat
      /\ map \in [FileNames -> Refs \cup {NULL}]
      /\ \A i \in Listed : old_name[i] \in FileNames
      /\ More => it \in Listed /\ spec = it
  BY StateFacts
<1>3. CopyInv /\ LeftInv /\ RefusedInv
  BY DEF FeasibleParts
<1>4. CopyScans = {"new_exists_map", "new_exists_source", "new_exists_dest"}
  BY DEF CopyScans
<1>a. CASE EndScan
  <2>1. /\ pc \in Scans /\ pc' = NextScan[pc] /\ ~More /\ it' = 1 /\ Keeps
        /\ map' = IF pc = "new_exists_map" THEN map ELSE IF pc \in KeepsMap THEN map ELSE EmptyMap
    BY <1>a DEF EndScan, Keeps, KeepsMap
  <2>2. /\ pc' = "new_exists_map" => program = "qcp" /\ pc = "no_change_scan"
        /\ pc' = "new_exists_source" => pc = "new_exists_map"
        /\ pc' = "new_exists_dest" => pc = "new_exists_source"
        /\ pc' = "apply_unchecked" => pc = "new_exists_dest" \/ program # "qcp"
        /\ pc' = "planned" => pc = "apply_unchecked"
    <3>1. InCross => program = "qmv"
      BY StateFacts DEF TypeInv, Shape
    <3> QED
      BY <2>1, <3>1, ScanNames DEF ChecksDone, InCross
  <2>3. \A i \in Unchecked : i < it /\ ~(i < 1)
    BY <1>2, <2>1 DEF More, Listed
  <2>4. Unchecked' = Unchecked /\ Left' = Left
    BY <1>1, <2>1, KeepFacts DEF Left
  <2>5. pc = "new_exists_dest" => \A i \in Left : status[i] # "NEW_EXISTS" => i \in Unchecked
    BY PlannedFiles DEF Left, LeftStatus, Unchecked, Early
  <2>6. pc' = "new_exists_map" => map' = EmptyMap
    BY <2>1, <2>2 DEF KeepsMap
  <2>7. /\ Left \subseteq Listed /\ status' = status
    BY <2>1 DEF Left, Keeps
  <2>8. pc' \in {"new_exists_map", "new_exists_source"} =>
           \A n \in FileNames : map'[n] # NULL => file_exists(n)
    BY <1>3, <2>1, <2>2, <2>6 DEF CopyInv, EmptyMap
  <2>9. program = "qcp" /\ pc' \in {"apply_unchecked", "planned"} =>
           \A i \in Left : status[i] # "NEW_EXISTS" => ~file_exists(new_name[i])
    BY <1>3, <2>2, <2>3, <2>5 DEF CopyInv
  <2> QED
    BY <1>1, <1>2, <1>3, <1>4, <2>1, <2>2, <2>3, <2>4, <2>7, <2>8, <2>9 DEF CopyInv, file_exists
<1>b. CASE new_exists_map
  <2>1. /\ pc = "new_exists_map" /\ pc' = pc /\ it \in Listed
        /\ map' = IF it \in Unchecked THEN [map EXCEPT ![old_name[it]] = it] ELSE map
    BY <1>2, <1>b DEF new_exists_map, InScan, Unchecked
  <2>2. it \in Unchecked => file_exists(old_name[it])
    BY <1>3, <2>1 DEF LeftInv, Left, LeftStatus, Unchecked, Checks, Candidates
  <2>3. \A n \in FileNames : map'[n] # NULL => file_exists(n)
    BY <1>2, <1>3, <2>1, <2>2 DEF CopyInv
  <2> QED
    BY <1>1, <1>3, <1>4, <2>1, <2>3 DEF CopyInv, file_exists
<1>c. CASE new_exists_source
  BY <1>1, <1>3, <1>4, <1>c DEF new_exists_source, Refuse, InScan, CopyInv, file_exists
<1>d. CASE new_exists_dest
  <2>1. /\ pc = "new_exists_dest" /\ pc' = pc /\ it' = it + 1 /\ it \in Listed /\ spec = it
    BY <1>2, <1>d DEF new_exists_dest, Refuse, InScan
  <2>2. FileStep
    BY <2>1, FileSteps DEF duplicate_scan, InScan
  <2>3. Unchecked' \subseteq Unchecked
    BY <1>1, <2>2 DEF FileStep, LeavesFiles, RefusesFile, KeepsFile, PlansFile, Others, Unchecked, OkStatus
  <2>4. it \in Unchecked' => ~file_exists(new_name[it])
    <3>1. DataTypeOK /\ Listed \subseteq Refs
      BY StateFacts
    <3> QED
      BY <1>1, <1>d, <2>1, <3>1 DEF new_exists_dest, Refuse, Unchecked, DataTypeOK
  <2>5. \A i \in Listed : i < it + 1 => i = it \/ i < it
    BY <1>2
  <2> QED
    BY <1>1, <1>2, <1>3, <1>4, <2>1, <2>3, <2>4, <2>5 DEF CopyInv, file_exists
<1>e. CASE apply_unchecked
  <2>1. /\ pc = "apply_unchecked" /\ pc' = pc
        /\ Keeps \/ \E x \in Unchecked : Accepts(x)
    BY <1>e, AcceptingScans
  <2>2. \A i \in Listed : status'[i] = status[i] \/ status[i] = "UNCHECKED"
    <3>1. DataTypeOK /\ Listed \subseteq Refs
      BY StateFacts
    <3> QED
      BY <2>1, <3>1 DEF Keeps, Accepts, DataTypeOK, Unchecked
  <2>3. \A i \in Listed : i \in Left' /\ status'[i] # "NEW_EXISTS" => i \in Left /\ status[i] # "NEW_EXISTS"
    BY <1>1, <2>2 DEF Left, LeftStatus
  <2>4. Left' \subseteq Listed
    BY <1>1 DEF Left
  <2>5. program = "qcp" => \A i \in Left' : status'[i] # "NEW_EXISTS" => ~file_exists(new_name[i])
    BY <1>3, <2>1, <2>3, <2>4 DEF CopyInv
  <2>6. /\ pc' = "apply_unchecked" /\ pc' \notin CopyScans
        /\ program = "qcp" => \A i \in Left' : status'[i] # "NEW_EXISTS" => ~file_exists(new_name'[i])
    BY <1>1, <1>4, <2>1, <2>4, <2>5
  <2> QED
    BY <1>1, <1>4, <2>6 DEF CopyInv, file_exists
<1>f. CASE pc \notin CopyScans /\ ~EndScan /\ ~apply_unchecked
  <2>1. pc' \notin CopyScans \cup {"apply_unchecked", "planned"}
    BY <1>4, <1>f, ScanNames
       DEF make_plan, CrossReferenceResolve, EndTopologicPass, cross_map, cross_reference, TryNextTmp,
           previous_scan, duplicate_scan, old_missing_scan, no_change_scan, new_exists_map,
           new_exists_source, new_exists_dest, Refuse, InScan, FollowOn, FollowToStart,
           FollowToDeadEnd, NextReference, dest_exists, topologic_sort, ReplaceStart,
           CollectCircular, AddExtraRename
  <2> QED
    BY <1>4, <2>1 DEF CopyInv
<1>g. ASSUME pc \in CopyScans
      PROVE  EndScan \/ new_exists_map \/ new_exists_source \/ new_exists_dest
  BY <1>4, <1>g DEF make_plan, CrossReferenceResolve, EndTopologicPass, cross_map, cross_reference, TryNextTmp,
           previous_scan, duplicate_scan, old_missing_scan, no_change_scan,
           Refuse, InScan, FollowOn, FollowToStart,
           FollowToDeadEnd, dest_exists, topologic_sort, ReplaceStart,
           CollectCircular, AddExtraRename, apply_unchecked
<1> QED
  BY <1>a, <1>b, <1>c, <1>d, <1>e, <1>f, <1>g

LEMMA NextExtrasInv ==
  ASSUME PlanInv, FilesInv, ExtrasInv, make_plan, fs' = fs
  PROVE  ExtrasInv'
<1> USE DEF dataVars, fieldVars, planVars, sortVars, crossVars, localVars, envVars
<1>1. /\ NamesStay /\ Listed' = Listed
      /\ \A i \in Listed : old_name'[i] = old_name[i]
      /\ DataTypeOK /\ Listed \subseteq Refs /\ Unchecked \subseteq Listed
      /\ Pending \subseteq Refs /\ Pending \cap Unchecked = {}
  BY FileSteps, StateFacts DEF NamesStay
<1>2. ASSUME Starts \subseteq Starts', Extras' \subseteq Extras, old_name' = old_name
      PROVE  ExtrasInv'
  BY <1>1, <1>2 DEF ExtrasInv, Starts, file_exists
<1>3. \A c \in Starts : c \in Listed /\ status[c] = "APPLY" /\ c \notin Pending
  BY DEF Starts
<1>a. CASE ReplaceStart
  <2> DEFINE t == new_file_spec
  <2>1. /\ s1 \in Unchecked /\ t \in Refs \ Listed /\ Pending' = Pending \cup {t} /\ ~TmpTaken
        /\ \A s \in Refs \ {s1, t} : status'[s] = status[s]
        /\ status'[s1] = "APPLY" /\ old_name'[t] = tmp_name
        /\ \A s \in Refs \ {t} : old_name'[s] = old_name[s]
        /\ t \notin Pending
    BY <1>a, ReplaceStartFacts
  <2> HIDE DEF t
  <2>2. Starts \subseteq Starts' /\ Extras' = Extras \cup {t} /\ t \notin Extras /\ Extras \subseteq Refs
    BY <1>1, <1>3, <2>1 DEF Starts, Extras
  <2>3. ~file_exists(tmp_name)
    BY <2>1 DEF TmpTaken
  <2> QED
    BY <1>1, <1>3, <2>1, <2>2, <2>3 DEF ExtrasInv, file_exists
<1>b. CASE AddExtraRename
  <2> DEFINE e == new_file_spec
  <2>1. /\ pc = "collect" /\ e \in Refs \ Listed /\ Pending' = Pending \cup {e}
        /\ \A s \in Refs \ {e} : status'[s] = status[s]
        /\ old_name'[e] = old_name[s1]
        /\ \A s \in Refs \ {e} : old_name'[s] = old_name[s]
        /\ e \notin Pending
    BY <1>b, AddExtraFacts
  <2> HIDE DEF e
  <2>2. Starts \subseteq Starts' /\ Extras' = Extras \cup {e} /\ e \notin Extras /\ Extras \subseteq Refs
    BY <1>1, <1>3, <2>1 DEF Starts, Extras
  <2>3. PICK c \in Starts : c = s1
    BY <2>1 DEF FilesInv, StartsInv
  <2>4. old_name'[e] = old_name'[c]
    BY <1>1, <1>3, <2>1, <2>3
  <2> QED
    BY <1>1, <1>3, <2>1, <2>2, <2>3, <2>4 DEF ExtrasInv, file_exists
<1>c. CASE ~ReplaceStart /\ ~AddExtraRename
  <2>1. old_name' = old_name
    BY <1>c DEF make_plan, CrossReferenceResolve, EndScan, previous_scan, duplicate_scan,
         old_missing_scan, no_change_scan, dest_exists, topologic_sort, EndTopologicPass,
         cross_map, cross_reference, FollowToDeadEnd, FollowToStart, FollowOn, TryNextTmp,
         CollectCircular, new_exists_map, new_exists_source,
         new_exists_dest, apply_unchecked, Refuse
  <2>2. ASSUME NEW c \in Starts PROVE c \in Starts'
    <3>1. status'[c] = "APPLY" /\ c \notin Pending'
      <4>1. CASE CollectCircular
        BY <1>1, <1>3, <4>1, CollectFacts DEF Unchecked
      <4>2. CASE dest_exists \/ topologic_sort \/ apply_unchecked
        <5>1. Keeps \/ \E x \in Unchecked : Accepts(x)
          BY <4>2, AcceptingScans
        <5>2. ASSUME NEW x \in Unchecked, Accepts(x) PROVE status'[c] = "APPLY" /\ c \notin Pending'
          <6>1. c # x
            BY <1>3 DEF Unchecked
          <6> QED
            BY <1>1, <1>3, <5>2, <6>1, AcceptFacts
        <5> QED
          BY <1>3, <5>1, <5>2, KeepFacts DEF Keeps
      <4>3. CASE ~CollectCircular /\ ~dest_exists /\ ~topologic_sort /\ ~apply_unchecked
        <5>1. CASE previous_scan \/ duplicate_scan
          BY <1>3, <5>1, PlannedFiles DEF previous_scan, duplicate_scan, InScan, Early, OkStatus
        <5>2. CASE ~previous_scan /\ ~duplicate_scan
          <6>1. ok' = ok
            BY <1>c, <4>3, <5>2 DEF make_plan, CrossReferenceResolve, EndScan,
                 old_missing_scan, no_change_scan, EndTopologicPass,
                 cross_map, cross_reference, FollowToDeadEnd, FollowToStart, FollowOn, TryNextTmp,
                 new_exists_map, new_exists_source, new_exists_dest, Refuse
          <6>2. FileStep
            BY <5>2, FileSteps
          <6>3. status'[c] = "APPLY"
            BY <1>3, <6>2 DEF FileStep, LeavesFiles, RefusesFile, KeepsFile, PlansFile, Others, Unchecked
          <6> QED
            BY <1>3, <6>1, <6>3 DEF Pending
        <5> QED
          BY <5>1, <5>2
      <4> QED
        BY <4>1, <4>2, <4>3
    <3> QED
      BY <1>1, <1>3, <3>1 DEF Starts
  <2>3. Extras' \subseteq Extras
    <3>1. CASE CollectCircular
      BY <1>1, <3>1, CollectFacts DEF Extras
    <3>2. CASE dest_exists \/ topologic_sort \/ apply_unchecked
      <4>1. Keeps \/ \E x \in Unchecked : Accepts(x)
        BY <3>2, AcceptingScans
      <4> QED
        BY <1>1, <4>1, KeepFacts, AcceptFacts DEF Extras
    <3>3. CASE ~CollectCircular /\ ~dest_exists /\ ~topologic_sort /\ ~apply_unchecked
      <4>1. CASE previous_scan
        <5>1. \A i \in Listed : status[i] \notin OkStatus
          BY <4>1, PlannedFiles DEF previous_scan, InScan, Early
        <5>2. ok' = ok
          BY <4>1, <5>1, StateFacts DEF previous_scan, InScan
        <5> QED
          BY <1>1, <5>2 DEF Extras, Pending
      <4>2. CASE ~previous_scan
        <5>1. ok' = ok
          BY <1>c, <3>3, <4>2 DEF make_plan, CrossReferenceResolve, EndScan, duplicate_scan,
               old_missing_scan, no_change_scan, EndTopologicPass,
               cross_map, cross_reference, FollowToDeadEnd, FollowToStart, FollowOn, TryNextTmp,
               new_exists_map, new_exists_source, new_exists_dest, Refuse
        <5> QED
          BY <1>1, <5>1 DEF Extras, Pending
      <4> QED
        BY <4>1, <4>2
    <3> QED
      BY <3>1, <3>2, <3>3
  <2> QED
    BY <1>2, <2>1, <2>2, <2>3
<1> QED
  BY <1>a, <1>b, <1>c

-----------------------------------------------------------------------------
\* Which loops lead into topologic_sort and cross_reference_resolve.
LEMMA SortingSteps ==
  ASSUME PlanInv, make_plan
  PROVE  /\ pc' = "dest_exists" => dest_exists \/ (EndScan /\ pc = "no_change_scan")
         /\ pc' = "topologic_sort" =>
              topologic_sort \/ (EndTopologicPass /\ changed) \/ (EndScan /\ pc = "dest_exists")
         /\ pc' = "cross_map" => cross_map \/ (EndTopologicPass /\ ~changed)
         /\ pc' \in Crossing =>
              \/ EndScan /\ pc = "cross_map" /\ pc' = "cross_reference"
              \/ cross_reference \/ FollowToDeadEnd \/ FollowToStart \/ FollowOn
              \/ TryNextTmp \/ ReplaceStart \/ CollectCircular \/ AddExtraRename
<1>1. Crossing = {"cross_reference", "follow", "temporary", "collect"}
  BY DEF Crossing
<1>2. CASE EndScan
  BY <1>1, <1>2, ScanNames DEF EndScan, ChecksDone
<1>3. CASE EndTopologicPass
  BY <1>1, <1>3, ScanNames DEF EndTopologicPass, localVars
<1>4. CASE ~EndScan /\ ~EndTopologicPass
  BY <1>1, <1>4, ScanNames
     DEF make_plan, CrossReferenceResolve, cross_map, cross_reference, TryNextTmp,
         previous_scan, duplicate_scan, old_missing_scan, no_change_scan, new_exists_map,
         new_exists_source, new_exists_dest, Refuse, InScan, FollowOn, FollowToStart,
         FollowToDeadEnd, NextReference, dest_exists, topologic_sort, ReplaceStart,
         CollectCircular, AddExtraRename, apply_unchecked
<1> QED
  BY <1>2, <1>3, <1>4

\* From the search for cross references on, files only cease to be unchecked.
LEMMA CrossingShrinks ==
  ASSUME PlanInv, make_plan, pc \in Crossing \cup {"cross_map"}
  PROVE  Unchecked' \subseteq Unchecked
<1>1. ~duplicate_scan
  BY DEF duplicate_scan, InScan, Crossing
<1>2. FileStep /\ Listed' = Listed
  BY <1>1, FileSteps DEF NamesStay
<1> QED
  BY <1>2 DEF FileStep, LeavesFiles, RefusesFile, KeepsFile, PlansFile, Others, Unchecked, OkStatus

LEMMA NextSortedInv ==
  ASSUME PlanInv, FilesInv, FeasibleParts, make_plan, fs' = fs, options' = options
  PROVE  SortedInv'
<1> USE DEF dataVars, fieldVars, planVars, sortVars, crossVars, localVars, envVars
<1>1. /\ NamesStay /\ Listed' = Listed
      /\ \A i \in Listed : old_name'[i] = old_name[i] /\ new_name'[i] = new_name[i]
  BY FileSteps DEF NamesStay
<1>2. /\ it \in Nat \ {0} /\ Listed \subseteq Nat /\ Unchecked \subseteq Listed
      /\ Len(work_files) = Len(printed) /\ Len(printed) \in Nat
      /\ map \in [FileNames -> Refs \cup {NULL}] /\ NULL \notin Refs
      /\ \A i \in Listed : old_name[i] \in FileNames /\ new_name[i] \in FileNames
      /\ More => it \in Listed /\ spec = it
      /\ Listed \subseteq Refs /\ StatusInv /\ SortInv /\ DataTypeOK
      /\ pending \in Seq(Refs) /\ pending \in Seq(Listed)
  BY StateFacts DEF TypeInv, PlanTypeOK, Shape
<1>3. SortedInv /\ LeftInv
  BY DEF FeasibleParts
<1>4. /\ Crossing = {"cross_reference", "follow", "temporary", "collect"}
      /\ Sorting = {"dest_exists", "topologic_sort", "cross_map"}
      /\ InSort <=> pc \in {"dest_exists", "topologic_sort"}
  BY DEF Crossing, Sorting, InSort
<1>5. InSort => Pending \subseteq Listed
  BY <1>2, <1>4 DEF StatusInv
<1>a. CASE EndScan
  <2>1. /\ pc \in Scans /\ pc' = NextScan[pc] /\ ~More /\ it' = 1 /\ Keeps /\ pending' = pending
        /\ map' = IF pc \in KeepsMap THEN map ELSE EmptyMap
    BY <1>a DEF EndScan, Keeps
  <2>2. \A i \in Unchecked : i < it /\ ~(i < 1)
    BY <1>2, <2>1 DEF More, Listed
  <2>3. Unchecked' = Unchecked /\ Pending' = Pending /\ UNCHANGED <<old_name, new_name>>
    BY <2>1, KeepFacts
  <2>4. CASE pc = "no_change_scan"
    <3>1. Pending = {} /\ pc' \notin {"topologic_sort", "cross_map"} \cup Crossing
      BY <1>2, <1>4, <2>1, <2>4, EmptyElems, ScanNames DEF StatusInv, Early, Pending, ChecksDone
    <3> QED
      BY <1>4, <2>1, <2>2, <2>3, <3>1 DEF SortedInv, InSort
  <2>5. CASE pc = "dest_exists"
    <3>1. pc' = "topologic_sort" /\ map' = map
      BY <2>1, <2>5, ScanNames DEF KeepsMap
    <3>2. \A i \in 1 .. Len(pending) : ~(i < 1)
      OBVIOUS
    <3>3. \A i \in Unchecked : i \in Elems(pending) /\ file_exists(new_name[i])
      BY <1>3, <2>2, <2>5 DEF SortedInv
    <3>4. \A t \in Pending : \/ map[old_name[t]] = t
                             \/ \E q \in Pending : new_name[q] = old_name[t]
      BY <1>3, <1>4, <2>5 DEF SortedInv
    <3>5. Elems(pending)' = Elems(pending)
      BY <2>1 DEF Elems
    <3> QED
      BY <1>4, <2>1, <2>3, <3>1, <3>2, <3>3, <3>4, <3>5 DEF SortedInv, file_exists
  <2>6. CASE pc \notin {"no_change_scan", "dest_exists"}
    <3>1. pc' \notin {"dest_exists", "topologic_sort", "cross_map"}
          /\ (pc' \in Crossing => pc = "cross_map")
      BY <1>4, <2>1, <2>6, ScanNames DEF ChecksDone
    <3> QED
      BY <1>3, <1>4, <2>3, <3>1 DEF SortedInv, InSort, file_exists
  <2> QED
    BY <2>4, <2>5, <2>6
<1>b. CASE dest_exists
  <2>1. /\ pc = "dest_exists" /\ pc' = pc /\ it' = it + 1 /\ it \in Listed
        /\ \/ /\ it \in Unchecked /\ Accepts(it)
              /\ map' = [map EXCEPT ![old_name[it]] = it] /\ pending' = pending
           \/ /\ Keeps /\ map' = map
              /\ \/ pending' = pending
                 \/ it \in Unchecked /\ pending' = Append(pending, it)
    BY <1>b, AcceptingScans
  <2>2. \A i \in Listed : i < it + 1 => i = it \/ i < it
    BY <1>2
  <2>3. it \in Unchecked' => it \in Elems(pending') /\ file_exists(new_name[it])
    <3> SUFFICES ASSUME it \in Unchecked' PROVE it \in Elems(pending') /\ file_exists(new_name[it])
      OBVIOUS
    <3>1. status'[it] = "UNCHECKED"
      BY DEF Unchecked
    <3>2. spec = it
      BY <1>2, <1>b DEF dest_exists, InScan
    <3>3. status[it] = "UNCHECKED" /\ file_exists(new_name[it]) /\ pending' = Append(pending, it)
      BY <1>2, <1>b, <2>1, <3>1, <3>2 DEF dest_exists, InScan, llist_add, DataTypeOK
    <3> QED
      BY <1>2, <2>1, <3>3, AppendElems
  <2>4. Elems(pending) \subseteq Elems(pending')
    <3>1. CASE pending' = pending
      BY <3>1 DEF Elems
    <3>2. CASE pending' = Append(pending, it)
      BY <1>2, <2>1, <3>2, AppendElems
    <3> QED
      BY <2>1, <3>1, <3>2
  <2>5. CASE Keeps /\ map' = map
    <3>1. Unchecked' = Unchecked /\ Pending' = Pending /\ UNCHANGED <<old_name, new_name>>
      BY <2>5, KeepFacts
    <3>2. \A i \in Unchecked' : i < it + 1 => i \in Elems(pending') /\ file_exists(new_name[i])
      BY <1>2, <1>3, <2>1, <2>2, <2>3, <2>4, <3>1 DEF SortedInv
    <3> QED
      BY <1>3, <1>4, <2>1, <2>5, <3>1, <3>2 DEF SortedInv, InSort, file_exists, Elems
  <2>6. CASE it \in Unchecked /\ Accepts(it) /\ map' = [map EXCEPT ![old_name[it]] = it] /\ pending' = pending
    <3>1. /\ Unchecked' = Unchecked \ {it} /\ Pending' = Pending \cup {it}
          /\ UNCHANGED <<old_name, new_name>>
      BY <2>6, AcceptFacts
    <3>2. \A i \in Unchecked' : i < it + 1 => i \in Elems(pending) /\ file_exists(new_name[i])
      BY <1>2, <1>3, <2>1, <2>2, <3>1 DEF SortedInv
    <3>3. ASSUME NEW t \in Pending \cup {it}
          PROVE  map'[old_name[t]] = t \/ \E q \in Pending \cup {it} : new_name[q] = old_name[t]
      <4>1. CASE t = it
        BY <1>2, <2>1, <2>6, <4>1
      <4>2. CASE t # it
        <5>1. t \in Listed /\ old_name[t] # old_name[it] /\ t \in Pending
          BY <1>4, <1>5, <2>1, <4>2, OldNamesDiffer
        <5>2. map'[old_name[t]] = map[old_name[t]]
          BY <1>2, <2>1, <2>6, <5>1
        <5> QED
          BY <1>3, <1>4, <2>1, <5>1, <5>2 DEF SortedInv
      <4> QED
        BY <4>1, <4>2
    <3> QED
      BY <1>4, <2>1, <2>6, <3>1, <3>2, <3>3 DEF SortedInv, InSort, file_exists, Elems
  <2> QED
    BY <2>1, <2>5, <2>6
<1>c. CASE topologic_sort
  <2>1. /\ pc = "topologic_sort" /\ pc' = pc
        /\ \/ Keeps /\ UNCHANGED <<map, pending>>
           \/ LET p == pending[it]
              IN  /\ it \in 1 .. Len(pending) /\ p \in Unchecked /\ Accepts(p)
                  /\ map' = Claim(p)
                  /\ pending' = Without(pending, it)
    BY <1>c, AcceptingScans
  <2>2. CASE Keeps /\ UNCHANGED <<map, pending>>
    <3>1. Unchecked' = Unchecked /\ Pending' = Pending /\ UNCHANGED <<old_name, new_name>>
      BY <2>2, KeepFacts
    <3>2. it' = it + 1 /\ changed' = changed /\ map[new_name[pending[it]]] = NULL
      <4>1. CASE map[new_name[pending[it]]] = NULL
        BY <1>c, <4>1 DEF topologic_sort
      <4>2. CASE map[new_name[pending[it]]] # NULL
        <5>1. ok' = Append(ok, pending[it]) /\ ok' = ok /\ ok \in Seq(Refs)
          BY <1>2, <1>c, <2>2, <4>2 DEF topologic_sort, llist_add, Keeps, DataTypeOK
        <5>2. it \in 1 .. Len(pending) /\ pending \in Seq(Refs)
          BY <1>2, <1>c DEF topologic_sort
        <5>3. PICK x \in Refs : x = pending[it]
          BY <5>2
        <5>4. Len(Append(ok, x)) = Len(ok) + 1 /\ Len(ok) \in Nat
          BY <5>1, AppendElems
        <5>5. Append(ok, x) = ok
          BY <5>1, <5>3
        <5>6. Len(ok) = Len(ok) + 1
          BY <5>4, <5>5
        <5> QED
          BY <5>4, <5>6
      <4> QED
        BY <4>1, <4>2
    <3>3. \A i \in 1 .. Len(pending) : i < it + 1 => i = it \/ i < it
      BY <1>2
    <3>4. ~changed => \A i \in 1 .. Len(pending) : i < it + 1 => map[new_name[pending[i]]] = NULL
      BY <1>3, <2>1, <3>2, <3>3 DEF SortedInv
    <3>5. Elems(pending)' = Elems(pending)
      BY <2>2 DEF Elems
    <3> QED
      BY <1>3, <1>4, <2>1, <2>2, <3>1, <3>2, <3>4, <3>5 DEF SortedInv, InSort, file_exists
  <2>3. CASE ~(Keeps /\ UNCHANGED <<map, pending>>)
    <3>1. PICK p \in Unchecked : /\ p = pending[it] /\ it \in 1 .. Len(pending) /\ Accepts(p)
                                 /\ map' = Claim(p) /\ pending' = Without(pending, it)
      BY <2>1, <2>3
    <3>2. /\ Unchecked' = Unchecked \ {p} /\ Pending' = Pending \cup {p}
          /\ UNCHANGED <<old_name, new_name>> /\ status' # status
      BY <1>2, <3>1, AcceptFacts DEF Unchecked
    <3>3. changed' = TRUE
      BY <1>c, <3>2 DEF topologic_sort
    <3>4. Elems(pending) \subseteq Elems(pending') \cup {p}
      <4>1. \A j, k \in 1 .. Len(pending) : pending[j] = pending[k] => j = k
        BY <1>2, <1>4, <2>1 DEF SortInv
      <4>2. Elems(Without(pending, it)) = Elems(pending) \ {pending[it]}
        BY <1>2, <3>1, <4>1, WithoutElems
      <4> QED
        BY <3>1, <4>2
    <3>5. Unchecked' \subseteq Elems(pending') /\ \A i \in Unchecked' : file_exists(new_name[i])
      BY <1>3, <2>1, <3>2, <3>4 DEF SortedInv
    <3>6. p \in Listed /\ old_name[p] # new_name[p]
      BY <1>2, <1>3, <2>1 DEF LeftInv, Left, LeftStatus, Unchecked, Checks, Candidates
    <3>7. ASSUME NEW t \in Pending \cup {p}
          PROVE  map'[old_name[t]] = t \/ \E q \in Pending \cup {p} : new_name[q] = old_name[t]
      <4>1. map' = [map EXCEPT ![old_name[p]] = p, ![new_name[p]] = NULL]
        BY <3>1 DEF Claim
      <4>2. CASE t = p
        BY <1>2, <3>6, <4>1, <4>2
      <4>3. CASE t # p
        <5>1. t \in Listed /\ old_name[t] # old_name[p] /\ t \in Pending
          BY <1>4, <1>5, <2>1, <3>6, <4>3, OldNamesDiffer
        <5>2. CASE old_name[t] = new_name[p]
          BY <5>2
        <5>3. CASE old_name[t] # new_name[p]
          <6>1. map'[old_name[t]] = map[old_name[t]]
            BY <1>2, <3>6, <4>1, <5>1, <5>3
          <6> QED
            BY <1>3, <1>4, <2>1, <5>1, <6>1 DEF SortedInv
        <5> QED
          BY <5>2, <5>3
      <4> QED
        BY <4>2, <4>3
    <3>8. Elems(pending)' = Elems(pending')
      BY DEF Elems
    <3> QED
      BY <1>4, <2>1, <3>2, <3>3, <3>5, <3>7, <3>8 DEF SortedInv, InSort, file_exists
  <2> QED
    BY <2>2, <2>3
<1>d. CASE EndTopologicPass
  <2>1. /\ pc = "topologic_sort" /\ it' = 1 /\ Keeps
        /\ changed => UNCHANGED <<pc, map, pending>>
        /\ ~changed => pc' = "cross_map"
    BY <1>d, ScanNames DEF EndTopologicPass, Keeps
  <2>2. Unchecked' = Unchecked /\ Pending' = Pending /\ UNCHANGED <<old_name, new_name>>
    BY <2>1, KeepFacts
  <2>3. \A i \in 1 .. Len(pending') : ~(i < 1)
    OBVIOUS
  <2>4. pending' = pending => Elems(pending)' = Elems(pending)
    BY DEF Elems
  <2> QED
    BY <1>3, <1>4, <2>1, <2>2, <2>3, <2>4 DEF SortedInv, InSort, file_exists
<1>e. CASE ~EndScan /\ ~EndTopologicPass /\ ~dest_exists /\ ~topologic_sort
  <2>1. /\ pc' \notin {"dest_exists", "topologic_sort"}
        /\ pc' \in Crossing \cup {"cross_map"} => pc \in Crossing \cup {"cross_map"}
    BY <1>4, <1>e, SortingSteps
       DEF cross_map, cross_reference, TryNextTmp, InScan, FollowOn, FollowToStart,
           FollowToDeadEnd, ReplaceStart, CollectCircular, AddExtraRename
  <2>2. CASE pc' \notin Crossing \cup {"cross_map"}
    BY <1>4, <2>1, <2>2 DEF SortedInv, InSort
  <2>3. CASE pc \in Crossing \cup {"cross_map"}
    <3>1. Unchecked' \subseteq Unchecked
      BY <2>3, CrossingShrinks
    <3>2. \A i \in Unchecked : file_exists(new_name[i])
      BY <1>3, <2>3 DEF SortedInv
    <3> QED
      BY <1>1, <1>2, <1>4, <2>1, <3>1, <3>2 DEF SortedInv, InSort, file_exists
  <2> QED
    BY <2>1, <2>2, <2>3
<1> QED
  BY <1>a, <1>b, <1>c, <1>d, <1>e

LEMMA NextCrossInv ==
  ASSUME PlanInv, FilesInv, ReadyInv, FeasibleParts, external = 0, make_plan,
         fs' = fs, options' = options
  PROVE  CrossInv'
<1> USE DEF dataVars, fieldVars, planVars, sortVars, crossVars, localVars, envVars
<1>1. /\ NamesStay /\ Listed' = Listed
      /\ \A i \in Listed : old_name'[i] = old_name[i] /\ new_name'[i] = new_name[i]
  BY FileSteps DEF NamesStay
<1>2. /\ it \in Nat \ {0} /\ Listed \subseteq Nat /\ Unchecked \subseteq Listed
      /\ Len(work_files) = Len(printed) /\ Len(printed) \in Nat
      /\ map \in [FileNames -> Refs \cup {NULL}] /\ NULL \notin Refs
      /\ \A i \in Listed : old_name[i] \in FileNames /\ new_name[i] \in FileNames
      /\ More => it \in Listed /\ spec = it
      /\ Listed \subseteq Refs /\ StatusInv /\ DestInv /\ DataTypeOK
      /\ pending \in Seq(Refs)
  BY StateFacts DEF TypeInv, PlanTypeOK, NamesInv
<1>3. SortedInv /\ LeftInv /\ CrossInv
  BY DEF FeasibleParts
<1>4. /\ Crossing = {"cross_reference", "follow", "temporary", "collect"}
      /\ Sorting = {"dest_exists", "topologic_sort", "cross_map"}
      /\ InCross <=> pc \in Crossing \cup {"cross_map"}
      /\ InSort <=> pc \in {"dest_exists", "topologic_sort"}
  BY DEF Crossing, Sorting, InCross, InSort
<1>5. \A set : Doable(set)' <=> Doable(set)
  BY <1>1, FeasibleStays
<1>6. \A i \in Unchecked : i < it \/ it <= i
  BY <1>2
\* In a step that neither plans a file nor moves the walk, everything stays.
<1>7. ASSUME pc \in Crossing \cup {"cross_map"}, pc' \in Crossing \ {"collect"}, pc # "collect",
             map' = map, Unchecked' \subseteq Unchecked,
             \A i \in Listed : status'[i] \in OkStatus => status[i] \in OkStatus,
             pc = "cross_map" => \A i \in Unchecked : i < it,
             pc' = "follow" => \A set : Doable(set) /\ s1' \in set => s2' \in set
      PROVE  CrossInv'
  <2>1. \A u \in Unchecked : map[old_name[u]] = u
    BY <1>3, <1>7 DEF CrossInv
  <2>2. \A t \in Listed, u \in Unchecked :
          status[t] \in OkStatus => old_name[t] # new_name[u]
    BY <1>3, <1>4, <1>7 DEF CrossInv
  <2>3. \A t \in Listed, u \in Unchecked' :
          status'[t] \in OkStatus => old_name'[t] # new_name'[u]
    BY <1>1, <1>2, <1>7, <2>2
  <2>4. \A u \in Unchecked' : map'[old_name'[u]] = u
    BY <1>1, <1>2, <1>7, <2>1
  <2> QED
    BY <1>1, <1>4, <1>5, <1>7, <2>3, <2>4 DEF CrossInv
<1>a. CASE EndScan
  <2>1. /\ pc \in Scans /\ pc' = NextScan[pc] /\ ~More /\ Keeps
        /\ map' = IF pc \in KeepsMap THEN map ELSE EmptyMap
    BY <1>a DEF EndScan, Keeps
  <2>2. \A i \in Unchecked : i < it
    BY <1>2, <2>1 DEF More, Listed
  <2>3. Unchecked' = Unchecked /\ status' = status
    BY <2>1, KeepFacts
  <2>4. CASE pc = "cross_map"
    <3>1. pc' = "cross_reference" /\ map' = map
      BY <2>1, <2>4, ScanNames DEF KeepsMap
    <3> QED
      BY <1>4, <1>7, <2>2, <2>3, <2>4, <3>1
  <2>5. CASE pc # "cross_map"
    <3>1. pc' \notin Crossing \cup {"cross_map"}
      BY <1>4, <2>1, <2>5, ScanNames DEF ChecksDone
    <3> QED
      BY <1>4, <3>1 DEF CrossInv, InCross
  <2> QED
    BY <2>4, <2>5
<1>b. CASE EndTopologicPass
  <2>1. /\ pc = "topologic_sort" /\ it' = 1 /\ Keeps /\ it > Len(pending)
        /\ changed => pc' = pc
        /\ ~changed => pc' = "cross_map"
    BY <1>b, ScanNames DEF EndTopologicPass, Keeps
  <2>2. CASE changed
    BY <1>4, <2>1, <2>2 DEF CrossInv, InCross
  <2>3. CASE ~changed
    <3>1. ASSUME NEW t \in Listed, NEW u \in Unchecked, status[t] \in OkStatus, old_name[t] = new_name[u]
          PROVE  FALSE
      <4>1. t \in Pending /\ t # NULL
        BY <1>2, <1>4, <2>1, <3>1, PlannedFiles
      <4>2. PICK i \in 1 .. Len(pending) : pending[i] = u
        BY <1>3, <2>1 DEF SortedInv, Elems
      <4>3. i < it
        BY <1>2, <2>1
      <4>4. map[old_name[t]] # t
        BY <1>3, <2>1, <2>3, <3>1, <4>1, <4>2, <4>3 DEF SortedInv
      <4>5. PICK q \in Pending : new_name[q] = old_name[t]
        BY <1>3, <1>4, <2>1, <4>1, <4>4 DEF SortedInv
      <4> QED
        BY <1>2, <3>1, <4>5 DEF DestInv
    <3>2. /\ Unchecked' = Unchecked /\ status' = status
      BY <2>1, KeepFacts
    <3>3. \A i \in Unchecked : ~(i < 1)
      BY <1>2
    <3>4. \A t \in Listed, u \in Unchecked :
            status'[t] \in OkStatus => old_name'[t] # new_name'[u]
      BY <1>1, <1>2, <3>1, <3>2
    <3>5. pc' = "cross_map" /\ it' = 1 /\ InCross'
      BY <2>1, <2>3 DEF InCross
    <3> QED
      BY <1>1, <1>4, <3>2, <3>3, <3>4, <3>5 DEF CrossInv
  <2> QED
    BY <2>2, <2>3
<1>c. CASE cross_map
  <2>1. /\ pc = "cross_map" /\ pc' = pc /\ it' = it + 1 /\ it \in Listed /\ spec = it
        /\ map' = IF it \in Unchecked THEN [map EXCEPT ![old_name[it]] = it] ELSE map
        /\ UNCHANGED <<old_name, new_name, status>> /\ Unchecked' = Unchecked
    BY <1>1, <1>2, <1>c DEF cross_map, InScan, Unchecked
  <2>2. ASSUME NEW u \in Unchecked, u < it + 1 PROVE map'[old_name[u]] = u
    <3>1. CASE u = it
      BY <1>2, <2>1, <3>1
    <3>2. CASE u # it
      <4>1. u < it /\ u \in Listed
        <5>1. u \in Listed /\ u \in Nat /\ it \in Nat
          BY <1>2
        <5> QED
          BY <2>2, <3>2, <5>1
      <4>2. old_name[u] # old_name[it]
        BY <2>1, <3>2, <4>1, OldNamesDiffer
      <4>3. map'[old_name[u]] = map[old_name[u]]
        BY <1>2, <2>1, <4>1, <4>2
      <4> QED
        BY <1>3, <2>1, <4>1, <4>3 DEF CrossInv
    <3> QED
      BY <3>1, <3>2
  <2>3. \A t \in Listed, u \in Unchecked :
          status[t] \in OkStatus => old_name[t] # new_name[u]
    BY <1>3, <1>4, <2>1 DEF CrossInv
  <2> QED
    BY <1>1, <1>4, <2>1, <2>2, <2>3 DEF CrossInv
<1>d. CASE cross_reference
  <2>1. /\ pc = "cross_reference" /\ pc' \in {"cross_reference", "follow"} /\ map' = map
        /\ Unchecked' = Unchecked /\ status' = status
        /\ pc' = "follow" => s1' = s2'
    BY <1>1, <1>d DEF cross_reference, Unchecked
  <2> QED
    BY <1>4, <1>7, <2>1
<1>e. CASE FollowOn
  <2>1. /\ pc = "follow" /\ pc' = pc /\ map' = map /\ s1' = s1 /\ s2' = Following
        /\ Unchecked' = Unchecked /\ status' = status
    BY <1>1, <1>e DEF FollowOn, Unchecked
  <2>2. \A set : Doable(set) /\ s1' \in set => s2' \in set
    <3> SUFFICES ASSUME NEW set, Doable(set), s1 \in set PROVE Following \in set
      BY <2>1
    <3>1. s2 \in set
      BY <1>3, <2>1 DEF CrossInv
    <3> QED
      BY <2>1, <3>1, WalkStaysIn DEF FeasibleParts
  <2> QED
    BY <1>4, <1>7, <2>1, <2>2
<1>f. CASE FollowToDeadEnd \/ (FollowToStart /\ pc' # "temporary")
  <2>1. /\ pc = "follow" /\ pc' = "cross_reference" /\ map' = map /\ Unchecked' \subseteq Unchecked
        /\ status'[s1] = "NEW_EXISTS" /\ \A s \in Refs \ {s1} : status'[s] = status[s]
    BY <1>f, DeadEndFacts
  <2>2. \A i \in Listed : status'[i] \in OkStatus => status[i] \in OkStatus
    BY <1>2, <2>1 DEF OkStatus
  <2> QED
    BY <1>4, <1>7, <2>1, <2>2
<1>g. CASE TryNextTmp \/ (FollowToStart /\ pc' = "temporary")
  <2>1. /\ pc \in {"follow", "temporary"} /\ pc' = "temporary" /\ map' = map
        /\ Unchecked' = Unchecked /\ status' = status
    BY <1>1, <1>g DEF TryNextTmp, FollowToStart, NextReference, Unchecked
  <2> QED
    BY <1>4, <1>7, <2>1
<1>h. CASE ReplaceStart
  <2> DEFINE t == new_file_spec
  <2>1. /\ pc = "temporary" /\ pc' = "collect" /\ map' = map /\ s1' = s1 /\ s1 \in Unchecked
        /\ t \in Refs \ Listed /\ Unchecked' = Unchecked \ {s1}
        /\ \A s \in Refs \ {s1, t} : status'[s] = status[s]
    BY <1>h, ReplaceStartFacts
  <2> HIDE DEF t
  <2>2. \A i \in Listed, u \in Unchecked :
          status[i] \in OkStatus => old_name[i] # new_name[u]
    BY <1>3, <1>4, <2>1 DEF CrossInv
  <2>3. \A i \in Listed, u \in Unchecked' :
          status'[i] \in OkStatus /\ old_name'[i] = new_name'[u] => i = s1
    BY <1>1, <1>2, <2>1, <2>2
  <2>4. \A u \in Unchecked' : map'[old_name'[u]] = u
    BY <1>1, <1>2, <1>3, <1>4, <2>1 DEF CrossInv
  <2> QED
    BY <1>1, <1>4, <2>1, <2>3, <2>4 DEF CrossInv
<1>i. CASE CollectCircular
  <2>1. /\ pc = "collect" /\ pc' = pc /\ map' = map /\ s1' = s1 /\ s2 # NULL
        /\ s2 \in Unchecked /\ Unchecked' = Unchecked \ {s2}
        /\ status'[s2] = "CIRCULAR" /\ \A s \in Refs \ {s2} : status'[s] = status[s]
    BY <1>i, CollectFacts
  <2>2. \E q \in Pending : new_name[q] = old_name[s2]
    <3>1. Ready
      <4>1. program = "qmv"
        BY <1>4, <2>1, StateFacts DEF TypeInv, Shape
      <4> QED
        BY <4>1 DEF ReadyInv, Undisturbed
    <3>2. PICK k \in 1 .. Len(ok) : Collected(k)
      BY <2>1, <3>1 DEF Ready, OrderInv
    <3>3. 1 \in 1 .. Len(ok) /\ new_name[ok[1]] = old_name[s2]
      BY <1>2, <2>1, <3>2 DEF Collected, DataTypeOK
    <3> QED
      BY <3>3 DEF Pending, Elems
  <2>3. \A u \in Unchecked : old_name[s2] # new_name[u]
    BY <1>2, <2>2 DEF DestInv
  <2>4. \A i \in Listed, u \in Unchecked :
          status[i] \in OkStatus /\ old_name[i] = new_name[u] => i = s1
    BY <1>3, <1>4, <2>1 DEF CrossInv
  <2>5. \A i \in Listed, u \in Unchecked' :
          status'[i] \in OkStatus /\ old_name'[i] = new_name'[u] => i = s1
    BY <1>1, <1>2, <2>1, <2>3, <2>4
  <2>6. \A u \in Unchecked' : map'[old_name'[u]] = u
    BY <1>1, <1>2, <1>3, <1>4, <2>1 DEF CrossInv
  <2> QED
    BY <1>1, <1>4, <2>1, <2>5, <2>6 DEF CrossInv
<1>j. CASE AddExtraRename
  <2> DEFINE e == new_file_spec
  <2>1. /\ pc = "collect" /\ pc' = "cross_reference" /\ s2 = NULL /\ map' = map
        /\ Unchecked' = Unchecked /\ e \in Refs \ Listed
        /\ \A s \in Refs \ {e} : status'[s] = status[s]
    BY <1>j, AddExtraFacts
  <2> HIDE DEF e
  <2>2. PICK z \in Pending \cap Listed : new_name[z] = old_name[s1]
    BY <2>1 DEF FilesInv, StartsInv, TakesPlace
  <2>3. \A u \in Unchecked : old_name[s1] # new_name[u]
    BY <1>2, <2>2 DEF DestInv
  <2>4. \A i \in Listed, u \in Unchecked : status[i] \in OkStatus => old_name[i] # new_name[u]
    BY <1>3, <1>4, <2>1, <2>3 DEF CrossInv
  <2>5. ASSUME NEW i \in Listed, NEW u \in Unchecked', status'[i] \in OkStatus
        PROVE  old_name'[i] # new_name'[u]
    <3>1. u \in Unchecked /\ u \in Listed /\ status[i] \in OkStatus
      BY <1>2, <2>1, <2>5
    <3>2. old_name[i] # new_name[u]
      BY <2>4, <3>1
    <3> QED
      BY <1>1, <3>1, <3>2
  <2>6. \A u \in Unchecked' : map'[old_name'[u]] = u
    BY <1>1, <1>2, <1>3, <1>4, <2>1 DEF CrossInv
  <2> QED
    BY <1>1, <1>4, <2>1, <2>5, <2>6 DEF CrossInv
<1>k. CASE pc' \notin Crossing \cup {"cross_map"}
  BY <1>4, <1>k DEF CrossInv, InCross
<1> QED
  BY <1>a, <1>b, <1>c, <1>d, <1>e, <1>f, <1>g, <1>h, <1>i, <1>j, <1>k, SortingSteps

-----------------------------------------------------------------------------
LEMMA StartFeasible == PlanStart => FeasibleInv
<1> SUFFICES ASSUME PlanStart PROVE FeasibleParts
  BY DEF FeasibleInv
<1>1. PlanInv
  BY StartPlanInv
<1>2. /\ pc = "previous_scan" /\ Pending = {}
      /\ \A i \in Listed : status[i] = "UNCHECKED"
  BY <1>1, EmptyElems, StateFacts DEF PlanStart, InitLocals, EmptyPlan, FreshSpecs, Pending
<1>3. Left = Unchecked
  BY <1>2 DEF Left, Unchecked, LeftStatus, OkStatus
<1>4. RefusedInv /\ LeftInv /\ CopyInv
  BY <1>2, <1>3 DEF RefusedInv, LeftInv, CopyInv, Checks, CopyScans
<1>5. SortedInv /\ CrossInv /\ ExtrasInv
  BY <1>2 DEF SortedInv, CrossInv, ExtrasInv, InSort, InCross, Crossing, Extras
<1> QED
  BY <1>4, <1>5 DEF FeasibleParts

LEMMA StillFeasible ==
  ASSUME PlanInv, FeasibleParts, UNCHANGED makePlanVars
  PROVE  FeasibleParts'
<1> USE DEF makePlanVars, dataVars, fieldVars, planVars, sortVars, crossVars, localVars, envVars
<1>1. /\ UNCHANGED <<fs, old_name, new_name, status, ok, work_files, pc, it, map, pending, changed,
                     s1, s2, options, printed, scenario>>
      /\ Listed' = Listed /\ Pending' = Pending /\ Unchecked' = Unchecked
  BY DEF Listed, Pending, Unchecked
<1>2. NamesStay
  BY <1>1 DEF NamesStay
<1>3. /\ Candidates' = Candidates /\ Feasible' = Feasible
      /\ \A set : Doable(set)' <=> Doable(set)
  BY <1>1, <1>2, FeasibleStays
<1>4. Left' = Left /\ Starts' = Starts /\ Extras' = Extras /\ Elems(pending)' = Elems(pending)
  BY <1>1 DEF Left, Starts, Extras, Elems
<1>5. RefusedInv' /\ LeftInv'
  BY <1>1, <1>3, <1>4 DEF FeasibleParts, RefusedInv, LeftInv, file_exists
<1>6. CopyInv' /\ ExtrasInv'
  BY <1>1, <1>4 DEF FeasibleParts, CopyInv, ExtrasInv, file_exists, program
<1>7. SortedInv'
  BY <1>1, <1>4 DEF FeasibleParts, SortedInv, InSort, file_exists
<1>8. CrossInv'
  BY <1>1, <1>3 DEF FeasibleParts, CrossInv, InCross
<1> QED
  BY <1>5, <1>6, <1>7, <1>8 DEF FeasibleParts

\* Every step keeps the invariant.
LEMMA NextFeasible ==
  PlanInv /\ FilesInv /\ ReadyInv /\ FeasibleInv /\ [PlanNext]_makePlanVars => FeasibleInv'
<1> SUFFICES ASSUME PlanInv, FilesInv, ReadyInv, FeasibleInv, [PlanNext]_makePlanVars, external' = 0
             PROVE  FeasibleParts'
  BY DEF FeasibleInv
<1>1. /\ external = 0 /\ fs' = fs /\ options' = options /\ FeasibleParts
      /\ make_plan \/ UNCHANGED makePlanVars
  BY UndisturbedStep DEF FeasibleInv
<1>2. CASE make_plan
  <2>1. RefusedInv'
    BY <1>1, <1>2, NextRefusedInv
  <2>2. LeftInv'
    BY <1>1, <1>2, NextLeftInv
  <2>3. CopyInv'
    BY <1>1, <1>2, <2>2, NextCopyInv
  <2>4. SortedInv' /\ CrossInv'
    BY <1>1, <1>2, NextSortedInv, NextCrossInv
  <2>5. ExtrasInv'
    BY <1>1, <1>2, NextExtrasInv DEF FeasibleParts
  <2> QED
    BY <2>1, <2>2, <2>3, <2>4, <2>5 DEF FeasibleParts
<1>3. CASE UNCHANGED makePlanVars
  BY <1>1, <1>3, StillFeasible
<1> QED
  BY <1>1, <1>2, <1>3

\* So it holds throughout.
LEMMA FeasibleAlways == PlanSpec => [](PlanInv /\ FilesInv /\ ReadyInv /\ FeasibleInv)
<1>1. PlanInit => FeasibleInv
  BY InitStarts, StartFeasible
<1> QED
  BY <1>1, FilesAlways, ReadyAlways, NextFeasible, PTL DEF PlanSpec

\* In a finished plan of qmv, a destination is unused or vacated by a planned file.
LEMMA PlannedVacated ==
  ASSUME PlanInv, FilesInv, Ready, FeasibleParts, Planned, NEW s \in Listed, status[s] \in OkStatus
  PROVE  \/ ~file_exists(new_name[s])
         \/ \E t \in Listed : status[t] \in OkStatus /\ old_name[t] = new_name[s]
<1>1. /\ StatusInv /\ ListsInv /\ StartsInv /\ ExtrasInv /\ InOrder(Pending)
  BY StateFacts DEF FilesInv, FeasibleParts, Ready, OrderInv, Planned
<1>2. ASSUME NEW q \in Pending
      PROVE  \/ ~file_exists(new_name[q])
             \/ \E t \in Listed : status[t] \in OkStatus /\ old_name[t] = new_name[q]
  <2>1. CASE prev_spec[q] = NULL
    BY <1>1, <2>1 DEF InOrder
  <2>2. CASE prev_spec[q] # NULL
    <3>1. PICK p \in Pending : old_name[p] = new_name[q]
      BY <1>1, <2>2 DEF InOrder
    <3>2. CASE p \in Listed
      BY <1>1, <3>1, <3>2 DEF StatusInv
    <3>3. CASE p \in Extras
      BY <1>1, <3>1, <3>3 DEF ExtrasInv, Starts, OkStatus
    <3> QED
      BY <3>2, <3>3 DEF Extras
  <2> QED
    BY <2>1, <2>2
<1>3. CASE s \in Pending
  BY <1>2, <1>3
<1>4. CASE s \in Starts
  <2>1. \E j \in 1 .. Len(ok) : new_name[ok[j]] = new_name[s]
    BY <1>1, <1>4 DEF StartsInv, Planned, ByTemporaryName
  <2>2. PICK q \in Pending : new_name[q] = new_name[s]
    BY <2>1 DEF Pending, Elems
  <2>3. \/ ~file_exists(new_name[q])
        \/ \E t \in Listed : status[t] \in OkStatus /\ old_name[t] = new_name[q]
    BY <1>2
  <2> QED
    BY <2>2, <2>3
<1> QED
  BY <1>1, <1>3, <1>4 DEF Starts, ListsInv, OkStatus

(***************************************************************************)
(* Undisturbed, qmv accepts the largest set of files that can be renamed   *)
(* together, qcp the files whose destination does not exist, and another   *)
(* command every file that exists, changes its name and shares its new     *)
(* name with no other file.                                                *)
(***************************************************************************)
THEOREM PlanIsFeasibleSetAlways == PlanSpec => []PlanIsFeasibleSet
<1>1. ASSUME PlanInv, FilesInv, ReadyInv, FeasibleInv PROVE PlanIsFeasibleSet
  <2> SUFFICES ASSUME Planned, external = 0
               PROVE  {s \in Elems(work_files) : status[s] \in OkStatus} = Feasible
    BY DEF PlanIsFeasibleSet
  <2> DEFINE accepted == {s \in Listed : status[s] \in OkStatus}
  <2>1. /\ FeasibleParts /\ RefusedInv /\ Elems(work_files) = Listed
        /\ Left = Candidates /\ Unchecked = {}
    BY <1>1, FilesListed DEF FeasibleInv, FeasibleParts, LeftInv, Planned, Checks, FilesInv, DoneInv
  <2>2. /\ accepted \subseteq Candidates
        /\ \A s \in Candidates : s \in accepted \/ status[s] = "NEW_EXISTS"
        /\ Candidates \subseteq Listed
    BY <2>1 DEF Left, LeftStatus, Unchecked
  <2>3. Feasible \subseteq accepted
    <3>1. Feasible \subseteq Candidates
      BY Zenon DEF Feasible
    <3> QED
      BY <2>1, <2>2, <3>1 DEF RefusedInv
  <2>4. accepted \subseteq Feasible
    <3>1. CASE program = "qmv"
      <4>1. Ready
        BY <1>1, <3>1 DEF ReadyInv, Undisturbed
      <4>2. AllVacated(accepted)
        BY <1>1, <2>1, <4>1, PlannedVacated DEF AllVacated
      <4> QED
        BY <2>2, <3>1, <4>2 DEF Feasible
    <3>2. CASE program = "qcp"
      <4>1. \A s \in accepted : ~file_exists(new_name[s])
        BY <2>1, <3>2 DEF FeasibleParts, CopyInv, Planned, Left, LeftStatus, OkStatus
      <4> QED
        BY <2>2, <3>2, <4>1 DEF Feasible
    <3>3. CASE program \notin {"qmv", "qcp"}
      BY <2>2, <3>3 DEF Feasible
    <3> QED
      BY <3>1, <3>2, <3>3
  <2> QED
    BY <2>1, <2>3, <2>4
<1>2. PlanInv /\ FilesInv /\ ReadyInv /\ FeasibleInv => PlanIsFeasibleSet
  BY <1>1
<1> QED
  BY <1>2, FeasibleAlways, PTL

==============================================================================
