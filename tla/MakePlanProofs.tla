---------------------------- MODULE MakePlanProofs ----------------------------
(***************************************************************************)
(* The plan that make_plan makes is sorted, linked both ways, and has one   *)
(* rename for each destination: for any listing, any names typed by the     *)
(* user, and any changes that other processes make to the directory.        *)
(* Undisturbed by other processes, qmv makes plans that apply_plan can work *)
(* off without moving a file onto another one.  The types and the inductive *)
(* invariant come first, then what each kind of step does to the plan and   *)
(* to the files that are not in it yet, then the theorems.                  *)
(***************************************************************************)
EXTENDS MakePlan, FileSpecsProofs

USE DEF First, NULL

-----------------------------------------------------------------------------
(***************************************************************************)
(* The part of the inductive invariant that is about types: what the       *)
(* iterator, the maps and the walk along cross references refer to.        *)
(***************************************************************************)
InSort  == pc \in {"dest_exists", "topologic_sort"}
InCross == pc \in {"cross_map", "cross_reference", "follow", "temporary", "collect"}
Walking == pc \in {"follow", "temporary", "collect"}

FilesKept ==
  /\ scenario \in DOMAIN Scenarios
  /\ Len(printed) <= MaxSpecs
  /\ \A i, j \in Listed : printed[i] = printed[j] => i = j
  /\ work_files = [i \in Listed |-> i]
  /\ \A i \in Listed : /\ old_name[i] = printed[i]
                       /\ new_name[i] \in FileNames
                       /\ status[i] \in FileSpecStatus

Shape ==
  /\ \A n \in FileNames : map[n] \in Listed \cup {NULL}
  /\ pending \in Seq(Listed)
  /\ InSort \/ InCross => program = "qmv"
  /\ Walking => s1 \in Listed /\ it = s1 /\ tmp_count # 0
  /\ pc = "follow" => s2 \in Listed /\ prev_circular = s2
  /\ pc = "collect" => prev_circular \in Pending

TypeInv == PlanTypeOK /\ FilesKept /\ Shape

\* What is listed, and what the iterator of a loop over work_files stands on.
LEMMA ListedFacts ==
  ASSUME TypeInv
  PROVE  /\ Len(printed) \in Nat /\ Listed \subseteq Refs /\ NULL \notin Refs
         /\ Len(work_files) = Len(printed)
         /\ \A i \in Listed : work_files[i] = i /\ printed[i] \in Listable
         /\ Listable \subseteq FileNames
         /\ More => it \in Listed /\ spec = it
<1>1. /\ printed \in Seq(Listable) /\ Len(printed) <= MaxSpecs /\ MaxSpecs \in Nat
      /\ Listable \subseteq FileNames
  BY PlanAssumption, DataAssumption DEF TypeInv, FilesKept, PlanTypeOK
<1>2. Len(printed) \in Nat
  BY <1>1
<1>3. Listed \subseteq Refs /\ NULL \notin Refs
  BY <1>1, <1>2 DEF Listed, Refs
<1>4. Len(work_files) = Len(printed)
  <2>1. DOMAIN work_files = 1 .. Len(work_files) /\ Len(work_files) \in Nat
    BY LenProperties DEF TypeInv, PlanTypeOK, DataTypeOK
  <2>2. DOMAIN work_files = 1 .. Len(printed)
    BY DEF TypeInv, FilesKept, Listed
  <2> QED
    BY <1>2, <2>1, <2>2
<1>5. \A i \in Listed : work_files[i] = i /\ printed[i] \in Listable
  BY <1>1 DEF TypeInv, FilesKept, Listed
<1>6. More => it \in Listed /\ spec = it
  BY <1>2, <1>4, <1>5 DEF More, spec, TypeInv, PlanTypeOK, Listed
<1> QED
  BY <1>1, <1>2, <1>3, <1>4, <1>5, <1>6

\* The loops of make_plan by name, and what follows each of them.
LEMMA ScanNames ==
  /\ Scans = {"previous_scan", "duplicate_scan", "old_missing_scan", "no_change_scan",
              "dest_exists", "cross_map", "cross_reference", "new_exists_map",
              "new_exists_source", "new_exists_dest", "apply_unchecked"}
  /\ NextScan["topologic_sort"] = "cross_map"
  /\ NextScan["previous_scan"] = "duplicate_scan"
  /\ NextScan["duplicate_scan"] = "old_missing_scan"
  /\ NextScan["old_missing_scan"] = "no_change_scan"
  /\ NextScan["no_change_scan"] = ChecksDone
  /\ NextScan["dest_exists"] = "topologic_sort"
  /\ NextScan["cross_map"] = "cross_reference"
  /\ NextScan["cross_reference"] = "apply_unchecked"
  /\ NextScan["new_exists_map"] = "new_exists_source"
  /\ NextScan["new_exists_source"] = "new_exists_dest"
  /\ NextScan["new_exists_dest"] = "apply_unchecked"
  /\ NextScan["apply_unchecked"] = "planned"
  BY DEF Scans, NextScan

(***************************************************************************)
(* The circular set is the part of the list up to t, after e.              *)
(***************************************************************************)
LEMMA CircularSetType ==
  ASSUME NEW e \in Refs, NEW t \in Elems(ok), ok \in Seq(Refs)
  PROVE  LET k == CHOOSE i \in 1 .. Len(ok) : ok[i] = t
             set == CircularSet(e, t)
         IN  /\ k \in 1 .. Len(ok) /\ ok[k] = t
             /\ set \in Seq(Refs) /\ Len(set) = k + 1
             /\ set[1] = e /\ \A i \in 1 .. k : set[i + 1] = ok[i]
<1> DEFINE k == CHOOSE i \in 1 .. Len(ok) : ok[i] = t
           part == SubSeq(ok, 1, k)
<1>1. k \in 1 .. Len(ok) /\ ok[k] = t
  BY DEF Elems
<1> HIDE DEF k
<1>2. /\ part \in Seq(Refs) /\ Len(part) = k
      /\ \A i \in 1 .. k : part[i] = ok[i]
  <2>1. \A i \in 1 .. k : ok[i] \in Refs
    BY <1>1
  <2> DEFINE n == k
  <2>2. 1 \in Int /\ n \in Int
    BY <1>1
  <2> HIDE DEF n
  <2>3. ASSUME NEW m \in Int, \A i \in m .. n : ok[i] \in Refs
        PROVE  /\ SubSeq(ok, m, n) \in Seq(Refs)
               /\ Len(SubSeq(ok, m, n)) = IF m <= n THEN n - m + 1 ELSE 0
               /\ \A i \in 1 .. n - m + 1 : SubSeq(ok, m, n)[i] = ok[m + i - 1]
    BY <2>2, <2>3, SubSeqProperties
  <2>4. /\ part \in Seq(Refs)
        /\ Len(part) = IF 1 <= k THEN k - 1 + 1 ELSE 0
        /\ \A i \in 1 .. k - 1 + 1 : part[i] = ok[1 + i - 1]
    BY <2>1, <2>2, <2>3 DEF n
  <2> QED
    BY <1>1, <2>4
<1> HIDE DEF part
<1>3. /\ <<e>> \o part \in Seq(Refs) /\ Len(<<e>> \o part) = k + 1
      /\ (<<e>> \o part)[1] = e /\ \A i \in 1 .. k : (<<e>> \o part)[i + 1] = ok[i]
  BY <1>2, ConsElems
<1> QED
  BY <1>1, <1>3 DEF CircularSet, k, part

\* Relinking leaves links from FileSpecs to FileSpecs.
LEMMA RelinkType ==
  ASSUME NEW f \in [Refs -> Refs \cup {NULL}], NEW list \in Seq(Refs)
  PROVE  Before(f, list) \in [Refs -> Refs \cup {NULL}]
         /\ After(f, list) \in [Refs -> Refs \cup {NULL}]
<1>1. \A s \in Refs : (\E i \in 2 .. Len(list) : list[i] = s) =>
        list[(CHOOSE i \in 2 .. Len(list) : list[i] = s) - 1] \in Refs
  <2> SUFFICES ASSUME NEW s \in Refs, \E i \in 2 .. Len(list) : list[i] = s
               PROVE  list[(CHOOSE i \in 2 .. Len(list) : list[i] = s) - 1] \in Refs
    OBVIOUS
  <2> DEFINE j == CHOOSE i \in 2 .. Len(list) : list[i] = s
  <2>1. j \in 2 .. Len(list)
    OBVIOUS
  <2> HIDE DEF j
  <2>2. j - 1 \in 1 .. Len(list)
    BY <2>1
  <2>3. list[j - 1] \in Refs
    BY <2>2
  <2> QED
    BY <2>3 DEF j
<1>2. \A s \in Refs : (\E i \in 1 .. Len(list) - 1 : list[i] = s) =>
        list[(CHOOSE i \in 1 .. Len(list) - 1 : list[i] = s) + 1] \in Refs
  <2> SUFFICES ASSUME NEW s \in Refs, \E i \in 1 .. Len(list) - 1 : list[i] = s
               PROVE  list[(CHOOSE i \in 1 .. Len(list) - 1 : list[i] = s) + 1] \in Refs
    OBVIOUS
  <2> DEFINE j == CHOOSE i \in 1 .. Len(list) - 1 : list[i] = s
  <2>1. j \in 1 .. Len(list) - 1
    OBVIOUS
  <2> HIDE DEF j
  <2>2. j + 1 \in 1 .. Len(list)
    BY <2>1
  <2>3. list[j + 1] \in Refs
    BY <2>2
  <2> QED
    BY <2>3 DEF j
<1> QED
  BY <1>1, <1>2 DEF Before, After

(***************************************************************************)
(* make_plan can start in any directory, right after a listing of any      *)
(* files: nothing is checked, and nothing is planned.                      *)
(***************************************************************************)
PlanStart ==
  /\ scenario \in DOMAIN Scenarios
  /\ printed \in Seq(Listable) /\ Len(printed) <= MaxSpecs
  /\ \A i, j \in Listed : printed[i] = printed[j] => i = j
  /\ \E names \in [Listed -> FileNames] : FreshSpecs(names)
  /\ fs \in [FileNames -> FileNames \cup {NoFile, Partial}]
  /\ EmptyPlan /\ options \in Setups
  /\ InitLocals("previous_scan")
  /\ external = 0

\* The initial states of MakePlan are such states.
LEMMA InitStarts == PlanInit => PlanStart
<1> SUFFICES ASSUME PlanInit PROVE PlanStart
  OBVIOUS
<1>1. /\ scenario \in DOMAIN Scenarios /\ printed = Scenarios[scenario].listing
      /\ printed \in Seq(Listable) /\ Len(printed) <= MaxSpecs
      /\ \A i, j \in Listed : printed[i] = printed[j] => i = j
      /\ NewNames \subseteq FileNames
      /\ Scenarios[scenario].setups \subseteq Setups
  BY ScenarioAssumption DEF PlanInit, NewNames, Listed
<1>2. \E names \in [Listed -> FileNames] : FreshSpecs(names)
  <2>1. PICK names \in [Listed -> NewNames] : FreshSpecs(names)
    BY DEF PlanInit
  <2>2. names \in [Listed -> FileNames]
    BY <1>1, <2>1
  <2> QED
    BY <2>1, <2>2
<1>3. fs \in [FileNames -> FileNames \cup {NoFile, Partial}]
  BY DEF PlanInit
<1>4. EmptyPlan /\ InitLocals("previous_scan") /\ external = 0 /\ options \in Setups
  BY <1>1 DEF PlanInit
<1> QED
  BY <1>1, <1>2, <1>3, <1>4 DEF PlanStart

\* make_plan starts in a state of the right types.
LEMMA StartTypeInv == PlanStart => TypeInv
<1> SUFFICES ASSUME PlanStart PROVE TypeInv
  OBVIOUS
<1>1. /\ scenario \in DOMAIN Scenarios
      /\ printed \in Seq(Listable) /\ Len(printed) <= MaxSpecs /\ MaxSpecs \in Nat
      /\ \A i, j \in Listed : printed[i] = printed[j] => i = j
      /\ Scenarios[scenario].external \in Nat
      /\ Listable \subseteq FileNames
  BY ScenarioAssumption, PlanAssumption, DataAssumption DEF PlanStart
<1>2. PICK names \in [Listed -> FileNames] : FreshSpecs(names)
  BY DEF PlanStart
<1>3. Listed \subseteq Refs
  BY <1>1 DEF Listed, Refs
<1>4. /\ old_name \in [Refs -> FileNames \cup {NoFile}]
      /\ new_name \in [Refs -> FileNames \cup {NoFile}]
      /\ prev_spec \in [Refs -> Refs \cup {NULL}]
      /\ next_spec \in [Refs -> Refs \cup {NULL}]
      /\ status \in [Refs -> FileSpecStatus \cup MemoryStatus]
  BY <1>1, <1>2 DEF FreshSpecs, Listed, FileSpecStatus, MemoryStatus
<1>5. work_files \in Seq(Refs)
  <2>1. work_files \in [1 .. Len(printed) -> Refs] /\ Len(printed) \in Nat
    BY <1>1, <1>2, <1>3 DEF FreshSpecs, Listed
  <2> QED
    BY <2>1, SeqDef
<1>6. DataTypeOK
  <2>1. fs \in [FileNames -> FileNames \cup {NoFile, Partial}]
    BY DEF PlanStart
  <2>2. ok \in Seq(Refs) /\ error \in Seq(Refs) /\ no_change \in Seq(Refs)
    BY DEF PlanStart, EmptyPlan
  <2>3. options \in Setups
    BY <1>1 DEF PlanStart
  <2> QED
    BY <1>4, <1>5, <2>1, <2>2, <2>3 DEF DataTypeOK
<1>7. PlanTypeOK
  <2>1. external \in 0 .. Scenarios[scenario].external /\ tmp_count \in 0 .. MaxTmp
    BY <1>1, PlanAssumption DEF PlanStart, InitLocals
  <2>2. pc \in Scans /\ it \in Nat \ {0}
    BY ScanNames DEF PlanStart, InitLocals
  <2>3. pending \in Seq(Refs)
    BY DEF PlanStart, InitLocals
  <2>6. changed \in BOOLEAN
    BY DEF PlanStart, InitLocals
  <2>4. map \in [FileNames -> Refs \cup {NULL}] /\ map_new \in [FileNames -> Refs \cup {NULL}]
    BY DEF PlanStart, InitLocals, EmptyMap
  <2>5. {s1, s2, prev_circular} \subseteq Refs \cup {NULL}
    BY DEF PlanStart, InitLocals
  <2> QED
    BY <1>1, <1>6, <2>1, <2>2, <2>3, <2>4, <2>5, <2>6 DEF PlanTypeOK
<1>8. FilesKept
  BY <1>1, <1>2, <1>3 DEF FilesKept, FreshSpecs, FileSpecStatus, Listed
<1>9. Shape
  BY DEF Shape, PlanStart, InitLocals, EmptyMap, InSort, InCross, Walking
<1> QED
  BY <1>7, <1>8, <1>9 DEF TypeInv

\* No step of make_plan or of another process leaves these types.
LEMMA NextTypeInv == TypeInv /\ [PlanNext]_makePlanVars => TypeInv'
<1> SUFFICES ASSUME TypeInv, [PlanNext]_makePlanVars PROVE TypeInv'
  OBVIOUS
<1> USE DEF dataVars, fieldVars, planVars, sortVars, crossVars, localVars, envVars
<1>1. /\ Len(printed) \in Nat /\ Listed \subseteq Refs /\ NULL \notin Refs
      /\ \A i \in Listed : printed[i] \in Listable
      /\ Listable \subseteq FileNames
      /\ More => it \in Listed /\ spec = it
  BY ListedFacts
<1>2. /\ DataTypeOK /\ it \in Nat \ {0}
      /\ map \in [FileNames -> Refs \cup {NULL}]
      /\ pending \in Seq(Refs)
  BY DEF TypeInv, PlanTypeOK
<1>3. More => status[spec] \in FileSpecStatus /\ old_name[spec] \in FileNames
              /\ new_name[spec] \in FileNames
  BY <1>1 DEF TypeInv, FilesKept
<1>4. More => spec \in Refs /\ Append(ok, spec) \in Seq(Refs)
              /\ Append(error, spec) \in Seq(Refs) /\ Append(no_change, spec) \in Seq(Refs)
  BY <1>1, <1>2, AppendProperties DEF DataTypeOK
<1>a. CASE EndScan
  <2>1. /\ pc \in Scans /\ pc' = NextScan[pc] /\ it' = 1
        /\ map' \in {map, EmptyMap} /\ map_new' \in {map_new, EmptyMap}
        /\ UNCHANGED <<dataVars, sortVars, s1, s2, prev_circular, tmp_count, envVars>>
    BY <1>a DEF EndScan
  <2>2. /\ pc' \in Scans \cup {"topologic_sort", "planned"}
        /\ (InSort \/ InCross)' => program = "qmv"
        /\ ~Walking'
    BY <2>1, ScanNames DEF ChecksDone, TypeInv, Shape, InSort, InCross, Walking
  <2>3. PlanTypeOK'
    BY <2>1, <2>2 DEF TypeInv, PlanTypeOK, DataTypeOK, EmptyMap, Scans, NextScan
  <2>4. FilesKept'
    BY <2>1 DEF TypeInv, FilesKept, Listed
  <2>5. Shape'
    BY <2>1, <2>2 DEF TypeInv, Shape, EmptyMap, Listed, Walking, program
  <2> QED
    BY <2>3, <2>4, <2>5 DEF TypeInv
<1>b. CASE previous_scan
  <2>1. More /\ pc' = pc /\ it' = it + 1
    BY <1>b DEF previous_scan, InScan
  <2>2. PlanTypeOK'
    <3>1. /\ ok' \in {ok, Append(ok, spec)}
          /\ error' \in {error, Append(error, spec)}
          /\ no_change' \in {no_change, Append(no_change, spec)}
          /\ UNCHANGED <<fs, fieldVars, work_files, map, sortVars, crossVars, envVars>>
      BY <1>b DEF previous_scan, llist_add
    <3>2. /\ ok' \in Seq(Refs) /\ error' \in Seq(Refs) /\ no_change' \in Seq(Refs)
      BY <1>2, <1>4, <2>1, <3>1 DEF DataTypeOK
    <3>3. DataTypeOK'
      BY <1>2, <3>1, <3>2 DEF DataTypeOK
    <3> QED
      BY <1>2, <2>1, <3>1, <3>3 DEF TypeInv, PlanTypeOK, Scans, NextScan
  <2>3. FilesKept'
    BY <1>b DEF previous_scan, TypeInv, FilesKept, Listed
  <2>4. Shape'
    BY <1>b DEF previous_scan, InScan, TypeInv, Shape, Listed, InSort, InCross, Walking,
                program
  <2> QED
    BY <2>2, <2>3, <2>4 DEF TypeInv
<1>c. CASE duplicate_scan
  <2>1. More /\ pc' = pc /\ it' = it + 1 /\ pc = "duplicate_scan"
    BY <1>c DEF duplicate_scan, InScan
  <2>2. map[new_name[spec]] \in Listed \cup {NULL}
    BY <1>3, <2>1 DEF TypeInv, Shape
  <2>3. /\ status' \in [Refs -> FileSpecStatus \cup MemoryStatus]
        /\ \A i \in Listed : status'[i] \in FileSpecStatus
        /\ error' \in Seq(Refs)
        /\ map' \in [FileNames -> Refs \cup {NULL}]
        /\ \A n \in FileNames : map'[n] \in Listed \cup {NULL}
    <3>1. CASE status[spec] # "UNCHECKED"
      BY <1>1, <1>2, <1>c, <3>1 DEF duplicate_scan, TypeInv, FilesKept, Shape, DataTypeOK
    <3>2. CASE status[spec] = "UNCHECKED"
      <4>1. /\ map' = [map EXCEPT ![new_name[spec]] = spec]
            /\ LET spec2 == map[new_name[spec]]
               IN  IF spec2 = NULL THEN UNCHANGED <<status, error>>
                   ELSE /\ status' = [status EXCEPT ![spec2] = "DUPLICATE",
                                                    ![spec]  = "DUPLICATE"]
                        /\ error' = error \o NewDuplicates(spec2)
        BY <1>c, <3>2 DEF duplicate_scan
      <4>2. map[new_name[spec]] # NULL =>
              NewDuplicates(map[new_name[spec]]) \in Seq(Refs)
        BY <1>1, <2>1, <2>2 DEF NewDuplicates
      <4>3. /\ map' \in [FileNames -> Refs \cup {NULL}]
            /\ \A n \in FileNames : map'[n] \in Listed \cup {NULL}
        BY <1>1, <1>2, <2>1, <4>1 DEF TypeInv, Shape
      <4>4. error' \in Seq(Refs)
        <5>1. CASE map[new_name[spec]] = NULL
          BY <1>2, <4>1, <5>1 DEF DataTypeOK
        <5>2. CASE map[new_name[spec]] # NULL
          <6>1. error' = error \o NewDuplicates(map[new_name[spec]])
            BY <4>1, <5>2
          <6>2. error \in Seq(Refs)
            BY <1>2 DEF DataTypeOK
          <6> QED
            BY <4>2, <5>2, <6>1, <6>2, ConcatProperties
        <5> QED
          BY <5>1, <5>2
      <4>5. /\ status' \in [Refs -> FileSpecStatus \cup MemoryStatus]
            /\ \A i \in Listed : status'[i] \in FileSpecStatus
        <5>1. CASE map[new_name[spec]] = NULL
          BY <1>2, <4>1, <5>1 DEF TypeInv, FilesKept, DataTypeOK
        <5>2. CASE map[new_name[spec]] # NULL
          <6>1. /\ status \in [Refs -> FileSpecStatus \cup MemoryStatus]
                /\ \A i \in Listed : status[i] \in FileSpecStatus
            BY <1>1, <1>2 DEF TypeInv, FilesKept, DataTypeOK
          <6>2. PICK a, b : status' = [status EXCEPT ![a] = "DUPLICATE", ![b] = "DUPLICATE"]
            BY <4>1, <5>2
          <6>3. "DUPLICATE" \in FileSpecStatus
            BY DEF FileSpecStatus, ErrorStatus
          <6>4. /\ DOMAIN status' = Refs
                /\ status' = [r \in Refs |-> status'[r]]
                /\ \A r \in Refs : status'[r] \in {status[r], "DUPLICATE"}
            BY <6>1, <6>2
          <6>5. \A r \in Refs : status'[r] \in FileSpecStatus \cup MemoryStatus
            BY <6>1, <6>3, <6>4
          <6>6. \A r \in Listed : r \in Refs
            BY <1>1 DEF TypeInv, Shape
          <6> QED
            BY <6>1, <6>3, <6>4, <6>5, <6>6
        <5> QED
          BY <5>1, <5>2
      <4> QED
        BY <4>3, <4>4, <4>5
    <3> QED
      BY <3>1, <3>2
  <2>4. PlanTypeOK'
    BY <1>c, <2>1, <2>3 DEF duplicate_scan, TypeInv, PlanTypeOK, DataTypeOK, Scans, NextScan
  <2>5. FilesKept'
    BY <1>c, <2>3 DEF duplicate_scan, TypeInv, FilesKept, Listed
  <2>6. Shape'
    BY <1>c, <2>1, <2>3 DEF duplicate_scan, TypeInv, Shape, Listed, InSort, InCross,
                            Walking
  <2> QED
    BY <2>4, <2>5, <2>6 DEF TypeInv
<1>d. CASE old_missing_scan \/ new_exists_source \/ new_exists_dest
  <2>1. /\ More /\ pc' = pc /\ it' = it + 1
        /\ \/ UNCHANGED <<status, error>>
           \/ \E e \in ErrorStatus : status' = [status EXCEPT ![spec] = e]
                                     /\ error' = Append(error, spec)
        /\ UNCHANGED <<fs, old_name, new_name, prev_spec, next_spec, ok, no_change,
                       work_files, map, sortVars, crossVars, envVars>>
    BY <1>d DEF old_missing_scan, new_exists_source, new_exists_dest, Refuse, InScan, llist_add,
                ErrorStatus
  <2>5. DataTypeOK'
    <3>1. status' \in [Refs -> FileSpecStatus \cup MemoryStatus]
      BY <1>2, <2>1 DEF DataTypeOK, FileSpecStatus, MemoryStatus
    <3>2. error' \in Seq(Refs)
      BY <1>2, <1>4, <2>1 DEF DataTypeOK
    <3> QED
      BY <1>2, <2>1, <3>1, <3>2 DEF DataTypeOK
  <2>2. PlanTypeOK'
    BY <2>1, <2>5 DEF TypeInv, PlanTypeOK, Scans, NextScan
  <2>3. FilesKept'
    BY <1>1, <1>2, <2>1 DEF TypeInv, FilesKept, DataTypeOK, Listed, FileSpecStatus
  <2>4. Shape'
    <3>1. pc \notin {"follow", "temporary", "collect"}
      BY <1>d DEF old_missing_scan, new_exists_source, new_exists_dest, Refuse, InScan
    <3> QED
      BY <2>1, <3>1 DEF TypeInv, Shape, Listed, InSort, InCross, Walking, program
  <2> QED
    BY <2>2, <2>3, <2>4 DEF TypeInv
<1>e. CASE no_change_scan
  <2>1. /\ More /\ pc' = pc /\ it' = it + 1 /\ pc = "no_change_scan"
        /\ \/ UNCHANGED <<status, no_change>>
           \/ /\ status' = [status EXCEPT ![spec] = "NO_CHANGE"]
              /\ no_change' = Append(no_change, spec)
        /\ UNCHANGED <<fs, old_name, new_name, prev_spec, next_spec, ok, error,
                       work_files, map, sortVars, crossVars, envVars>>
    BY <1>e DEF no_change_scan, InScan, llist_add
  <2>5. DataTypeOK'
    <3>1. status' \in [Refs -> FileSpecStatus \cup MemoryStatus]
      BY <1>2, <2>1 DEF DataTypeOK, FileSpecStatus, MemoryStatus
    <3>2. no_change' \in Seq(Refs)
      BY <1>2, <1>4, <2>1 DEF DataTypeOK
    <3> QED
      BY <1>2, <2>1, <3>1, <3>2 DEF DataTypeOK
  <2>2. PlanTypeOK'
    BY <2>1, <2>5 DEF TypeInv, PlanTypeOK, Scans, NextScan
  <2>3. FilesKept'
    BY <1>1, <1>2, <2>1 DEF TypeInv, FilesKept, DataTypeOK, Listed, FileSpecStatus
  <2>4. Shape'
    BY <2>1 DEF TypeInv, Shape, Listed, InSort, InCross, Walking, program
  <2> QED
    BY <2>2, <2>3, <2>4 DEF TypeInv
<1>f. CASE dest_exists
  <2>1. /\ More /\ pc' = pc /\ it' = it + 1 /\ pc = "dest_exists"
        /\ \/ UNCHANGED <<map, status, ok, pending>>
           \/ /\ map' = [map EXCEPT ![old_name[spec]] = spec]
              /\ status' = [status EXCEPT ![spec] = "APPLY"]
              /\ ok' = Append(ok, spec) /\ UNCHANGED pending
           \/ pending' = Append(pending, spec) /\ UNCHANGED <<map, status, ok>>
        /\ UNCHANGED <<fs, old_name, new_name, prev_spec, next_spec, error, no_change,
                       work_files, changed, crossVars, envVars>>
    BY <1>f DEF dest_exists, InScan, llist_add
  <2>2. /\ map' \in [FileNames -> Refs \cup {NULL}]
        /\ \A n \in FileNames : map'[n] \in Listed \cup {NULL}
    <3>1. spec \in Listed /\ \A n \in FileNames : map[n] \in Listed \cup {NULL}
      BY <1>1, <2>1 DEF TypeInv, Shape
    <3>2. map' = map \/ map' = [map EXCEPT ![old_name[spec]] = spec]
      BY <2>1
    <3> QED
      BY <1>1, <1>2, <3>1, <3>2
  <2>3. pending' \in Seq(Listed) /\ pending' \in Seq(Refs)
    <3>1. spec \in Listed /\ spec \in Refs
      BY <1>1, <1>2, <2>1 DEF TypeInv, Shape
    <3>2. pending \in Seq(Listed) /\ pending \in Seq(Refs)
      BY <1>1, <1>2 DEF TypeInv, Shape
    <3>3. Append(pending, spec) \in Seq(Listed) /\ Append(pending, spec) \in Seq(Refs)
      BY <3>1, <3>2
    <3>4. pending' = pending \/ pending' = Append(pending, spec)
      BY <2>1
    <3> QED
      BY <3>2, <3>3, <3>4
  <2>4. PlanTypeOK'
    <3>2. status' \in [Refs -> FileSpecStatus \cup MemoryStatus]
      BY <1>2, <2>1 DEF DataTypeOK, FileSpecStatus, OkStatus, MemoryStatus
    <3>3. ok' \in Seq(Refs)
      BY <1>2, <1>4, <2>1 DEF DataTypeOK
    <3>1. DataTypeOK'
      BY <1>2, <2>1, <3>2, <3>3 DEF DataTypeOK
    <3> QED
      BY <2>1, <2>2, <2>3, <3>1 DEF TypeInv, PlanTypeOK, Scans, NextScan
  <2>5. FilesKept'
    BY <1>1, <1>2, <2>1
       DEF TypeInv, FilesKept, DataTypeOK, Listed, FileSpecStatus, OkStatus
  <2>6. Shape'
    BY <2>1, <2>2, <2>3 DEF TypeInv, Shape, Listed, InSort, InCross, Walking, program
  <2> QED
    BY <2>4, <2>5, <2>6 DEF TypeInv
<1>g. CASE topologic_sort
  <2> DEFINE p == pending[it]
             depend == map[new_name[p]]
  <2>1. /\ it \in 1 .. Len(pending) /\ pc = "topologic_sort" /\ pc' = pc
        /\ UNCHANGED <<fs, error, no_change, work_files, crossVars, envVars>>
    BY <1>2, <1>g DEF topologic_sort
  <2>2. p \in Listed /\ new_name[p] \in FileNames /\ old_name[p] \in FileNames
    BY <1>1, <2>1 DEF TypeInv, Shape, FilesKept
  <2>3. depend \in Listed \cup {NULL}
    BY <2>2 DEF TypeInv, Shape
  <2>4. CASE depend = NULL
    <3>1. it' = it + 1 /\ UNCHANGED <<fieldVars, ok, map, sortVars>>
      BY <1>g, <2>4 DEF topologic_sort
    <3>2. PlanTypeOK'
      BY <2>1, <3>1 DEF TypeInv, PlanTypeOK, DataTypeOK, Scans, NextScan
    <3>3. FilesKept'
      BY <2>1, <3>1 DEF TypeInv, FilesKept, Listed
    <3>4. Shape'
      BY <2>1, <3>1 DEF TypeInv, Shape, Listed, InSort, InCross, Walking, program
    <3> QED
      BY <3>2, <3>3, <3>4 DEF TypeInv
  <2>5. CASE depend # NULL
    <3>1. /\ pending' = Without(pending, it)
          /\ prev_spec' = [prev_spec EXCEPT ![p] = depend]
          /\ next_spec' = [next_spec EXCEPT ![depend] = p]
          /\ map' = [map EXCEPT ![old_name[p]] = p, ![new_name[p]] = NULL]
          /\ status' = [status EXCEPT ![p] = "APPLY"]
          /\ ok' = Append(ok, p)
          /\ changed' = TRUE
          /\ UNCHANGED <<it, old_name, new_name>>
      BY <1>g, <2>5 DEF topologic_sort, Claim, llist_add
    <3>2. pending' \in Seq(Listed) /\ pending' \in Seq(Refs)
      BY <1>2, <2>1, <3>1, WithoutType DEF TypeInv, Shape
    <3>3. /\ map' \in [FileNames -> Refs \cup {NULL}]
          /\ \A n \in FileNames : map'[n] \in Listed \cup {NULL}
      BY <1>1, <1>2, <2>2, <3>1 DEF TypeInv, Shape
    <3>4. DataTypeOK'
      BY <1>1, <1>2, <2>1, <2>2, <2>3, <2>5, <3>1
         DEF DataTypeOK, FileSpecStatus, OkStatus
    <3>5. PlanTypeOK'
      BY <2>1, <3>1, <3>2, <3>3, <3>4 DEF TypeInv, PlanTypeOK, Scans, NextScan
    <3>6. FilesKept'
      BY <1>1, <1>2, <2>1, <2>2, <3>1
         DEF TypeInv, FilesKept, DataTypeOK, Listed, FileSpecStatus, OkStatus
    <3>7. Shape'
      BY <2>1, <3>1, <3>2, <3>3
         DEF TypeInv, Shape, Listed, InSort, InCross, Walking, program
    <3> QED
      BY <3>5, <3>6, <3>7 DEF TypeInv
  <2> QED
    BY <2>4, <2>5
<1>h. CASE EndTopologicPass
  <2>1. /\ pc = "topologic_sort" /\ it' = 1 /\ changed' = FALSE
        /\ \/ UNCHANGED <<pc, map, pending>>
           \/ pc' = "cross_map" /\ map' = EmptyMap /\ pending' = <<>>
        /\ UNCHANGED <<dataVars, crossVars, envVars>>
    BY <1>h, ScanNames DEF EndTopologicPass
  <2>2. pending' \in Seq(Listed) /\ pending' \in Seq(Refs)
    BY <1>2, <2>1, EmptySeq DEF TypeInv, Shape
  <2>3. changed' \in BOOLEAN
    BY <2>1
  <2>4. PlanTypeOK'
    BY <2>1, <2>2, <2>3 DEF TypeInv, PlanTypeOK, DataTypeOK, EmptyMap, Scans, NextScan
  <2>5. FilesKept'
    BY <2>1 DEF TypeInv, FilesKept, Listed
  <2>6. Shape'
    BY <2>1, <2>2
       DEF TypeInv, Shape, Listed, InSort, InCross, Walking, program, EmptyMap
  <2> QED
    BY <2>4, <2>5, <2>6 DEF TypeInv
<1>i. CASE cross_map \/ new_exists_map
  <2>1. /\ More /\ pc' = pc /\ it' = it + 1 /\ ~Walking
        /\ map' \in {map, [map EXCEPT ![old_name[spec]] = spec]}
        /\ map_new' \in {map_new, [map_new EXCEPT ![new_name[spec]] = spec]}
        /\ UNCHANGED <<dataVars, sortVars, s1, s2, prev_circular, tmp_count, envVars>>
    BY <1>i DEF cross_map, new_exists_map, InScan, Walking
  <2>2. /\ map' \in [FileNames -> Refs \cup {NULL}]
        /\ \A n \in FileNames : map'[n] \in Listed \cup {NULL}
    <3>1. spec \in Listed /\ \A n \in FileNames : map[n] \in Listed \cup {NULL}
      BY <1>1, <2>1 DEF TypeInv, Shape
    <3>2. map' = map \/ map' = [map EXCEPT ![old_name[spec]] = spec]
      BY <2>1
    <3> QED
      BY <1>1, <1>2, <3>1, <3>2
  <2>3. PlanTypeOK'
    <3>1. map_new' \in [FileNames -> Refs \cup {NULL}]
      BY <1>4, <2>1 DEF TypeInv, PlanTypeOK
    <3>2. DataTypeOK' /\ it' \in Nat \ {0}
      BY <1>2, <2>1 DEF DataTypeOK
    <3> QED
      BY <2>1, <2>2, <3>1, <3>2 DEF TypeInv, PlanTypeOK, Scans, NextScan
  <2>4. FilesKept'
    BY <2>1 DEF TypeInv, FilesKept, Listed
  <2>5. Shape'
    BY <2>1, <2>2 DEF TypeInv, Shape, Listed, InSort, InCross, Walking, program
  <2> QED
    BY <2>3, <2>4, <2>5 DEF TypeInv
<1>j. CASE cross_reference
  <2>1. /\ pc = "cross_reference" /\ More
        /\ \/ it' = it + 1 /\ UNCHANGED <<pc, s1, s2, prev_circular, tmp_count>>
           \/ /\ pc' = "follow" /\ it' = it
              /\ s1' = spec /\ s2' = spec /\ prev_circular' = spec /\ tmp_count' = 1
        /\ UNCHANGED <<dataVars, map, sortVars, map_new, envVars>>
    BY <1>j DEF cross_reference
  <2>2. tmp_count' \in 0 .. MaxTmp /\ {s1', s2', prev_circular'} \subseteq Refs \cup {NULL}
    BY <1>4, <2>1, PlanAssumption DEF TypeInv, PlanTypeOK
  <2>3. PlanTypeOK'
    BY <2>1, <2>2 DEF TypeInv, PlanTypeOK, DataTypeOK, Scans, NextScan
  <2>4. FilesKept'
    BY <2>1 DEF TypeInv, FilesKept, Listed
  <2>5. Shape'
    BY <1>1, <2>1 DEF TypeInv, Shape, Listed, InSort, InCross, Walking, program
  <2> QED
    BY <2>3, <2>4, <2>5 DEF TypeInv
<1>5. pc = "follow" => /\ s1 \in Listed /\ s2 \in Listed /\ it = s1 /\ prev_circular = s2
                       /\ Following \in Listed \cup {NULL}
                       /\ ~DeadEnd => Following \in Listed
  BY <1>1 DEF TypeInv, Shape, FilesKept, Walking, Following, DeadEnd
<1>k. CASE FollowToDeadEnd \/ (FollowToStart /\ pc' # "temporary")
  <2>1. /\ pc = "follow"
        /\ \E s \in {s1, prev_circular} : next_spec' = [next_spec EXCEPT ![s] = NULL]
        /\ status' = [status EXCEPT ![s1] = "NEW_EXISTS"]
        /\ error' = Append(error, s1)
        /\ NextReference
        /\ UNCHANGED <<fs, old_name, new_name, prev_spec, ok, no_change, work_files,
                       map, sortVars, map_new, envVars>>
    BY <1>k DEF FollowToDeadEnd, FollowToStart, llist_add
  <2>2. s1 \in Refs /\ error' \in Seq(Refs)
    BY <1>1, <1>2, <1>5, <2>1, AppendProperties DEF DataTypeOK
  <2>3. DataTypeOK'
    BY <1>2, <2>1, <2>2 DEF DataTypeOK, FileSpecStatus, ErrorStatus
  <2>4. PlanTypeOK'
    BY <2>1, <2>3, PlanAssumption DEF NextReference, TypeInv, PlanTypeOK, Scans, NextScan
  <2>5. FilesKept'
    BY <1>2, <2>1, <2>2
       DEF TypeInv, FilesKept, DataTypeOK, Listed, FileSpecStatus, ErrorStatus
  <2>6. Shape'
    BY <2>1 DEF NextReference, TypeInv, Shape, Listed, InSort, InCross, Walking, program
  <2> QED
    BY <2>4, <2>5, <2>6 DEF TypeInv
<1>l. CASE (FollowToStart /\ pc' = "temporary") \/ FollowOn
  <2>1. /\ pc = "follow" /\ Following \in Listed
        /\ \E s \in Listed \cup {NULL} : next_spec' = [next_spec EXCEPT ![prev_circular] = s]
        /\ \/ pc' = "temporary" /\ UNCHANGED <<s2, prev_circular>>
           \/ pc' = "follow" /\ s2' = Following /\ prev_circular' = Following
        /\ UNCHANGED <<fs, old_name, new_name, prev_spec, status, planVars, work_files, it,
                       map, sortVars, map_new, s1, tmp_count, envVars>>
    BY <1>5, <1>l DEF FollowToStart, FollowOn, NextReference
  <2>2. DataTypeOK'
    <3>1. next_spec' \in [Refs -> Refs \cup {NULL}]
      BY <1>1, <1>2, <2>1 DEF DataTypeOK
    <3> QED
      BY <1>2, <2>1, <3>1 DEF DataTypeOK
  <2>3. PlanTypeOK'
    BY <1>1, <2>1, <2>2 DEF TypeInv, PlanTypeOK, Scans, NextScan
  <2>4. FilesKept'
    BY <2>1 DEF TypeInv, FilesKept, Listed
  <2>5. Shape'
    BY <2>1 DEF TypeInv, Shape, Listed, InSort, InCross, Walking, program
  <2> QED
    BY <2>3, <2>4, <2>5 DEF TypeInv
<1>m. CASE TryNextTmp
  <2>1. /\ pc' = pc /\ tmp_count' = tmp_count + 1 /\ tmp_count < MaxTmp
        /\ UNCHANGED <<dataVars, it, map, sortVars, map_new, s1, s2, prev_circular, envVars>>
    BY <1>m DEF TryNextTmp
  <2>2. tmp_count' \in 0 .. MaxTmp /\ tmp_count' # 0
    BY <2>1, PlanAssumption DEF TypeInv, PlanTypeOK
  <2>3. PlanTypeOK'
    BY <2>1, <2>2 DEF TypeInv, PlanTypeOK, DataTypeOK, Scans, NextScan
  <2>4. FilesKept'
    BY <2>1 DEF TypeInv, FilesKept, Listed
  <2>5. Shape'
    BY <2>1, <2>2
       DEF TypeInv, Shape, Listed, InSort, InCross, Walking, program, Pending
  <2> QED
    BY <2>3, <2>4, <2>5 DEF TypeInv
<1>6. CanAllocate => /\ new_file_spec \in Refs /\ status[new_file_spec] = "FREE"
                     /\ new_file_spec \notin Listed
  BY DEF CanAllocate, new_file_spec, TypeInv, FilesKept, FileSpecStatus, ErrorStatus, OkStatus
<1>7. Walking => tmp_name \in FileNames
  BY <1>1, PlanAssumption DEF TypeInv, PlanTypeOK, Shape, FilesKept, tmp_name
<1>n. CASE ReplaceStart
  <2> DEFINE t == new_file_spec
  <2>1. /\ pc = "temporary" /\ CanAllocate /\ pc' = "collect"
        /\ ok' = <<t>> \o ok
        /\ status' = [status EXCEPT ![t] = "CIRCULAR", ![s1] = "APPLY"]
        /\ old_name' = [old_name EXCEPT ![t] = tmp_name]
        /\ new_name' = [new_name EXCEPT ![t] = new_name[s1]]
        /\ next_spec' = [next_spec EXCEPT ![t] = next_spec[s1], ![s1] = NULL]
        /\ prev_spec' = [prev_spec EXCEPT ![t] = prev_spec[s1], ![s1] = NULL]
        /\ prev_circular' = t
        /\ s2' = next_spec[s1]
        /\ UNCHANGED <<fs, error, no_change, work_files, it, map, sortVars, map_new,
                       s1, tmp_count, envVars>>
    BY <1>n DEF ReplaceStart, llist_add_first
  <2>2. /\ s1 \in Listed /\ s1 \in Refs /\ t \in Refs /\ t \notin Listed
        /\ tmp_name \in FileNames /\ new_name[s1] \in FileNames
    BY <1>1, <1>6, <1>7, <2>1 DEF TypeInv, Shape, FilesKept, Walking
  <2>3. /\ ok' \in Seq(Refs) /\ t \in Elems(ok')
    BY <1>2, <2>1, <2>2, ConsElems DEF DataTypeOK
  <2>4. DataTypeOK'
    BY <1>2, <2>1, <2>2, <2>3 DEF DataTypeOK, FileSpecStatus, OkStatus
  <2>5. PlanTypeOK'
    <3>1. {s1', s2', prev_circular'} \subseteq Refs \cup {NULL}
      BY <1>2, <2>1, <2>2 DEF DataTypeOK
    <3> QED
      BY <2>1, <2>4, <3>1 DEF TypeInv, PlanTypeOK, Scans, NextScan
  <2>6. FilesKept'
    BY <1>1, <1>2, <2>1, <2>2
       DEF TypeInv, FilesKept, DataTypeOK, Listed, FileSpecStatus, OkStatus
  <2>7. Shape'
    BY <2>1, <2>3 DEF TypeInv, Shape, Listed, InSort, InCross, Walking, program, Pending
  <2> QED
    BY <2>5, <2>6, <2>7 DEF TypeInv
<1>o. CASE CollectCircular
  <2>1. /\ pc = "collect" /\ s2 # NULL /\ pc' = pc
        /\ status' = [status EXCEPT ![s2] = "CIRCULAR"]
        /\ ok' = <<s2>> \o ok
        /\ s2' = next_spec[s2]
        /\ UNCHANGED <<fs, old_name, new_name, prev_spec, next_spec, error, no_change,
                       work_files, it, map, sortVars, map_new, s1, prev_circular,
                       tmp_count, envVars>>
    BY <1>o DEF CollectCircular, llist_add_first
  <2>2. s2 \in Refs
    BY <2>1 DEF TypeInv, PlanTypeOK
  <2>3. ok' \in Seq(Refs) /\ Elems(ok) \subseteq Elems(ok')
    BY <1>2, <2>1, <2>2, ConsElems DEF DataTypeOK
  <2>4. DataTypeOK'
    BY <1>2, <2>1, <2>2, <2>3 DEF DataTypeOK, FileSpecStatus, OkStatus
  <2>5. PlanTypeOK'
    BY <1>2, <2>1, <2>2, <2>4 DEF TypeInv, PlanTypeOK, DataTypeOK, Scans, NextScan
  <2>6. FilesKept'
    BY <1>1, <1>2, <2>1, <2>2
       DEF TypeInv, FilesKept, DataTypeOK, Listed, FileSpecStatus, OkStatus
  <2>7. Shape'
    BY <2>1, <2>3 DEF TypeInv, Shape, Listed, InSort, InCross, Walking, program, Pending
  <2> QED
    BY <2>5, <2>6, <2>7 DEF TypeInv
<1>p. CASE AddExtraRename
  <2> DEFINE t == prev_circular
             e == new_file_spec
             set == CircularSet(e, t)
  <2>1. /\ pc = "collect" /\ CanAllocate
        /\ ok' = <<e>> \o ok
        /\ status' = [status EXCEPT ![e] = "CIRCULAR"]
        /\ old_name' = [old_name EXCEPT ![e] = old_name[s1]]
        /\ new_name' = [new_name EXCEPT ![e] = old_name[t]]
        /\ prev_spec' = Before(prev_spec, set)
        /\ next_spec' = [After(next_spec, set) EXCEPT ![t] = NULL]
        /\ NextReference
        /\ UNCHANGED <<fs, error, no_change, work_files, map, sortVars, map_new, envVars>>
    BY <1>p DEF AddExtraRename, llist_add_first
  <2>2. /\ s1 \in Refs /\ t \in Pending /\ t \in Refs /\ e \in Refs /\ e \notin Listed
    BY <1>1, <1>6, <2>1 DEF TypeInv, PlanTypeOK, DataTypeOK, Shape, Walking, Pending, Elems
  <2>3. /\ ok' \in Seq(Refs)
    BY <1>2, <2>1, <2>2, ConsElems DEF DataTypeOK
  <2>4. set \in Seq(Refs)
    BY <1>2, <2>2, CircularSetType DEF DataTypeOK, Pending
  <2>5. /\ prev_spec' \in [Refs -> Refs \cup {NULL}]
        /\ next_spec' \in [Refs -> Refs \cup {NULL}]
    BY <1>2, <2>1, <2>4, RelinkType DEF DataTypeOK
  <2>6. /\ old_name' \in [Refs -> FileNames \cup {NoFile}]
        /\ new_name' \in [Refs -> FileNames \cup {NoFile}]
        /\ status' \in [Refs -> FileSpecStatus \cup MemoryStatus]
    BY <1>2, <2>1, <2>2 DEF DataTypeOK, FileSpecStatus, OkStatus
  <2>7. DataTypeOK'
    BY <1>2, <2>1, <2>3, <2>5, <2>6 DEF DataTypeOK
  <2>8. PlanTypeOK'
    BY <1>2, <2>1, <2>7, PlanAssumption
       DEF NextReference, TypeInv, PlanTypeOK, Scans, NextScan
  <2>9. FilesKept'
    BY <1>1, <1>2, <2>1, <2>2
       DEF TypeInv, FilesKept, DataTypeOK, Listed, FileSpecStatus, OkStatus
  <2>10. Shape'
    BY <2>1 DEF NextReference, TypeInv, Shape, Listed, InSort, InCross, Walking, program
  <2> QED
    BY <2>8, <2>9, <2>10 DEF TypeInv
<1>q. CASE apply_unchecked
  <2>1. /\ More /\ pc' = pc /\ it' = it + 1 /\ pc = "apply_unchecked"
        /\ \/ UNCHANGED <<status, ok>>
           \/ /\ status' = [status EXCEPT ![spec] = "APPLY"]
              /\ ok' = Append(ok, spec)
        /\ UNCHANGED <<fs, old_name, new_name, prev_spec, next_spec, error, no_change,
                       work_files, map, sortVars, crossVars, envVars>>
    BY <1>q DEF apply_unchecked, InScan, llist_add
  <2>2. status' \in [Refs -> FileSpecStatus \cup MemoryStatus]
    BY <1>2, <2>1 DEF DataTypeOK, FileSpecStatus, OkStatus
  <2>3. ok' \in Seq(Refs)
    BY <1>2, <1>4, <2>1 DEF DataTypeOK
  <2>4. DataTypeOK'
    BY <1>2, <2>1, <2>2, <2>3 DEF DataTypeOK
  <2>5. PlanTypeOK'
    BY <2>1, <2>4 DEF TypeInv, PlanTypeOK, Scans, NextScan
  <2>6. FilesKept'
    BY <1>1, <1>2, <2>1
       DEF TypeInv, FilesKept, DataTypeOK, Listed, FileSpecStatus, OkStatus
  <2>7. Shape'
    BY <2>1 DEF TypeInv, Shape, Listed, InSort, InCross, Walking, program
  <2> QED
    BY <2>5, <2>6, <2>7 DEF TypeInv
<1>r. CASE OtherProcess
  <2>1. /\ external < Scenarios[scenario].external /\ external' = external + 1
        /\ fs' \in [FileNames -> FileNames \cup {NoFile, Partial}]
        /\ UNCHANGED <<fieldVars, planVars, work_files, localVars, options, printed, scenario>>
    BY <1>2, <1>r DEF OtherProcess, DataTypeOK
  <2>2. external' \in 0 .. Scenarios[scenario].external
    BY <2>1, ScenarioAssumption DEF TypeInv, PlanTypeOK, FilesKept
  <2>3. PlanTypeOK'
    BY <2>1, <2>2 DEF TypeInv, PlanTypeOK, DataTypeOK, Scans, NextScan
  <2>4. FilesKept'
    BY <2>1 DEF TypeInv, FilesKept, Listed
  <2>5. Shape'
    BY <2>1 DEF TypeInv, Shape, Listed, InSort, InCross, Walking, program, Pending
  <2> QED
    BY <2>3, <2>4, <2>5 DEF TypeInv
<1>s. CASE PlanDone \/ UNCHANGED makePlanVars
  <2>1. UNCHANGED makePlanVars
    BY <1>s DEF PlanDone
  <2> QED
    BY <2>1 DEF makePlanVars, TypeInv, PlanTypeOK, DataTypeOK, FilesKept, Shape, Listed,
                InSort, InCross, Walking, program, Pending, Scans, NextScan
<1> QED
  BY <1>a, <1>b, <1>c, <1>d, <1>e, <1>f, <1>g, <1>h, <1>i, <1>j, <1>k, <1>l, <1>m, <1>n,
     <1>o, <1>p, <1>q, <1>r, <1>s
     DEF PlanNext, make_plan, CrossReferenceResolve


-----------------------------------------------------------------------------
(***************************************************************************)
(* The part of the inductive invariant that is about order and links.      *)
(***************************************************************************)
Early    == {"previous_scan", "duplicate_scan", "old_missing_scan", "no_change_scan",
             "new_exists_map", "new_exists_source", "new_exists_dest"}
Sorting  == {"dest_exists", "topologic_sort", "cross_map"}
Crossing == {"cross_reference", "follow", "temporary", "collect"}

\* The files that are neither planned nor refused yet.
Unchecked == {i \in Listed : status[i] = "UNCHECKED"}

StatusInv ==
  /\ \A s \in Refs : status[s] = "FREE" => prev_spec[s] = NULL /\ next_spec[s] = NULL
  /\ \A s \in Pending : status[s] \in OkStatus
  /\ \A i \in Unchecked : prev_spec[i] = NULL
  /\ pc \notin Crossing => \A i \in Unchecked : next_spec[i] = NULL
  /\ pc \in Early => ok = <<>>
  /\ pc \in Sorting => \A s \in Pending : s \in Listed /\ status[s] = "APPLY"
  /\ pc = "previous_scan" => Unchecked = Listed
  /\ pc \in Crossing => \A i \in Unchecked : it <= i

(***************************************************************************)
(* Destinations: those of the plan, those of the unchecked files, and the  *)
(* temporary names, which no file has as its new name (map_new).           *)
(***************************************************************************)
Temporary(name, file) == \E k \in 1 .. MaxTmp : name = TmpName[<<file, k>>]

DestInv ==
  /\ pc = "duplicate_scan" => \A i \in Unchecked : i < it => map[new_name[i]] = i
  /\ pc \notin {"previous_scan", "duplicate_scan"} =>
       \A i, j \in Unchecked : new_name[i] = new_name[j] => i = j
  /\ \A s, t \in Pending : new_name[s] = new_name[t] => s = t
  /\ \A s \in Pending, i \in Unchecked : new_name[s] # new_name[i]

TmpInv ==
  /\ pc = "cross_map" =>
       \A i \in Unchecked \cup Pending : i < it => map_new[new_name[i]] # NULL
  /\ pc \in Crossing =>
       /\ \A i \in Unchecked : map_new[new_name[i]] # NULL
       /\ \A s \in Pending :
            \/ map_new[new_name[s]] # NULL
            \/ \E c \in Listed \ Unchecked : /\ Temporary(new_name[s], printed[c])
                                             /\ pc = "collect" => c # s1
  /\ pc = "collect" => /\ map_new[tmp_name] = NULL
                       /\ old_name[prev_circular] = tmp_name
                       /\ s1 \notin Unchecked

NamesInv == DestInv /\ TmpInv

(***************************************************************************)
(* The walk along cross references goes through unchecked files, to none   *)
(* of them twice; next_spec leads along the same way, then through what is *)
(* left of it while the circular set is collected.                         *)
(***************************************************************************)
Walk(n, p) ==
  /\ p \in [1 .. n -> Unchecked]
  /\ \A i, j \in 1 .. n : p[i] = p[j] => i = j
  /\ \A i \in 1 .. n - 1 : /\ next_spec[p[i]] = p[i + 1]
                           /\ map[new_name[p[i]]] = p[i + 1]

WalkInv ==
  /\ pc \in {"cross_map"} \cup Crossing =>
       \A n \in FileNames : map[n] # NULL => old_name[map[n]] = n
  /\ pc = "follow" =>
       \E n \in Nat \ {0} : \E p \in [1 .. n -> Unchecked] :
         Walk(n, p) /\ p[1] = s1 /\ p[n] = s2
  /\ pc = "temporary" =>
       \E n \in Nat \ {0, 1} : \E p \in [1 .. n -> Unchecked] :
         Walk(n, p) /\ p[1] = s1 /\ next_spec[p[n]] = NULL /\ map[new_name[p[n]]] = s1
  /\ pc = "collect" =>
       \E n \in Nat : \E p \in [1 .. n -> Unchecked] :
         /\ Walk(n, p)
         /\ IF n = 0 THEN s2 = NULL
            ELSE p[1] = s2 /\ next_spec[p[n]] = NULL /\ map[new_name[p[n]]] = s1

(***************************************************************************)
(* While a circular set is collected, its members stand before the rest of *)
(* the plan, the copy of its first file last among them, and have no final *)
(* links yet.                                                              *)
(***************************************************************************)
Rest(k) == {ok[i] : i \in k + 1 .. Len(ok)}

RestLinked(k) ==
  /\ \A i \in k + 1 .. Len(ok) :
       prev_spec[ok[i]] # NULL => \E j \in k + 1 .. i - 1 : ok[j] = prev_spec[ok[i]]
  /\ \A s \in Rest(k) :
       /\ prev_spec[s] # NULL => prev_spec[s] \in Rest(k) /\ next_spec[prev_spec[s]] = s
       /\ next_spec[s] # NULL => next_spec[s] \in Rest(k) /\ prev_spec[next_spec[s]] = s

LinksInv ==
  /\ NoRepeat
  /\ pc # "collect" => Sorted /\ Mirrored
  /\ pc = "collect" => \E k \in 1 .. Len(ok) : ok[k] = prev_circular /\ RestLinked(k)

\* `available' and the pending renames of topologic_sort.
SortInv ==
  /\ ~InSort => pending = <<>>
  /\ InSort => \A n \in FileNames : map[n] # NULL =>
                 map[n] \in Pending /\ old_name[map[n]] = n /\ next_spec[map[n]] = NULL
  /\ InSort => /\ \A i \in 1 .. Len(pending) : /\ pending[i] \in Unchecked
                                               /\ pc = "dest_exists" => pending[i] < it
               /\ \A i, j \in 1 .. Len(pending) : pending[i] = pending[j] => i = j

PlanInv == TypeInv /\ StatusInv /\ NamesInv /\ WalkInv /\ LinksInv /\ SortInv

\* What every step can rely on.
LEMMA StateFacts ==
  ASSUME PlanInv
  PROVE  /\ TypeInv /\ StatusInv /\ NamesInv /\ WalkInv /\ LinksInv /\ SortInv
         /\ DataTypeOK /\ it \in Nat \ {0}
         /\ map \in [FileNames -> Refs \cup {NULL}]
         /\ map_new \in [FileNames -> Refs \cup {NULL}]
         /\ Len(printed) \in Nat /\ Listed \subseteq Refs /\ NULL \notin Refs
         /\ Listed \subseteq Nat /\ Len(work_files) = Len(printed)
         /\ \A i \in Listed : /\ old_name[i] = printed[i] /\ printed[i] \in FileNames
                              /\ old_name[i] \in FileNames /\ new_name[i] \in FileNames
                              /\ status[i] \in FileSpecStatus
         /\ More => it \in Listed /\ spec = it
         /\ Unchecked \subseteq Listed
         /\ Pending \subseteq Refs /\ ok \in Seq(Refs) /\ Pending \cap Unchecked = {}
         /\ CanAllocate => /\ new_file_spec \in Refs /\ new_file_spec \notin Listed
                           /\ status[new_file_spec] = "FREE" /\ new_file_spec \notin Pending
<1>1. TypeInv /\ StatusInv /\ NamesInv /\ WalkInv /\ LinksInv /\ SortInv
  BY DEF PlanInv
<1>2. /\ DataTypeOK /\ it \in Nat \ {0} /\ map \in [FileNames -> Refs \cup {NULL}]
      /\ map_new \in [FileNames -> Refs \cup {NULL}]
      /\ \A i \in Listed : status[i] \in FileSpecStatus
  BY <1>1 DEF TypeInv, PlanTypeOK, FilesKept
<1>3. /\ Len(printed) \in Nat /\ Listed \subseteq Refs /\ NULL \notin Refs
      /\ Len(work_files) = Len(printed)
      /\ \A i \in Listed : printed[i] \in FileNames
      /\ More => it \in Listed /\ spec = it
  BY <1>1, ListedFacts
<1>4. \A i \in Listed : old_name[i] = printed[i] /\ new_name[i] \in FileNames
  BY <1>1 DEF TypeInv, FilesKept
<1>5. Listed \subseteq Nat
  BY <1>3 DEF Listed
<1>6. Unchecked \subseteq Listed
  BY DEF Unchecked
<1>7. Pending \subseteq Refs /\ ok \in Seq(Refs)
  BY <1>2 DEF DataTypeOK, Pending, Elems
<1>8. Pending \cap Unchecked = {}
  BY <1>1 DEF StatusInv, Unchecked, OkStatus
<1>9. CanAllocate => /\ new_file_spec \in Refs /\ new_file_spec \notin Listed
                     /\ status[new_file_spec] = "FREE" /\ new_file_spec \notin Pending
  BY <1>1, <1>2 DEF CanAllocate, new_file_spec, StatusInv, FileSpecStatus, ErrorStatus, OkStatus
<1> QED
  BY <1>1, <1>2, <1>3, <1>4, <1>5, <1>6, <1>7, <1>8, <1>9

-----------------------------------------------------------------------------
(***************************************************************************)
(* What the kinds of steps do to the plan and to the unchecked files.      *)
(***************************************************************************)
Keeps == UNCHANGED <<old_name, new_name, prev_spec, next_spec, status, ok, printed, scenario>>

LEMMA KeepFacts ==
  ASSUME Keeps
  PROVE  /\ Unchecked' = Unchecked /\ Pending' = Pending /\ Listed' = Listed
         /\ UNCHANGED <<old_name, new_name, prev_spec, next_spec, status, ok, printed, scenario>>
  BY DEF Keeps, Unchecked, Pending, Listed

Accepts(x) ==
  /\ status' = [status EXCEPT ![x] = "APPLY"]
  /\ ok' = Append(ok, x)
  /\ UNCHANGED <<old_name, new_name, printed, scenario>>

LEMMA AcceptFacts ==
  ASSUME PlanInv, NEW x \in Unchecked, Accepts(x)
  PROVE  /\ x \in Listed /\ x \in Refs /\ x \notin Pending
         /\ Unchecked' = Unchecked \ {x} /\ Pending' = Pending \cup {x} /\ Listed' = Listed
         /\ status'[x] = "APPLY" /\ \A s \in Refs \ {x} : status'[s] = status[s]
         /\ Len(ok) \in Nat /\ Len(ok') = Len(ok) + 1 /\ ok'[Len(ok) + 1] = x
         /\ \A i \in 1 .. Len(ok) : ok'[i] = ok[i] /\ ok[i] \in Pending
         /\ UNCHANGED <<old_name, new_name, printed, scenario>>
<1>1. /\ DataTypeOK /\ Listed \subseteq Refs /\ Unchecked \subseteq Listed
      /\ ok \in Seq(Refs) /\ Pending \cap Unchecked = {}
  BY StateFacts
<1>2. /\ status' = [status EXCEPT ![x] = "APPLY"]
      /\ ok' = Append(ok, x)
      /\ UNCHANGED <<old_name, new_name, printed, scenario>>
  BY DEF Accepts
<1>3. Listed' = Listed
  BY <1>2 DEF Listed
<1>4. status'[x] = "APPLY" /\ \A s \in Refs \ {x} : status'[s] = status[s]
  BY <1>1, <1>2 DEF DataTypeOK
<1>5. Unchecked' = Unchecked \ {x}
  BY <1>1, <1>3, <1>4 DEF Unchecked
<1>6. Pending' = Pending \cup {x}
  BY <1>1, <1>2, AppendElems DEF Pending
<1>7. /\ Len(ok) \in Nat /\ Len(ok') = Len(ok) + 1 /\ ok'[Len(ok) + 1] = x
      /\ \A i \in 1 .. Len(ok) : ok'[i] = ok[i]
  BY <1>1, <1>2, AppendElems
<1>8. \A i \in 1 .. Len(ok) : ok[i] \in Pending
  BY DEF Pending, Elems
<1> QED
  BY <1>1, <1>2, <1>3, <1>4, <1>5, <1>6, <1>7, <1>8

\* The scans that can accept a file accept an unchecked one, or change nothing.
LEMMA AcceptingScans ==
  ASSUME PlanInv
  PROVE  /\ dest_exists =>
              /\ pc = "dest_exists" /\ pc' = pc /\ it' = it + 1 /\ it \in Listed
              /\ map_new' = map_new /\ UNCHANGED <<prev_spec, next_spec, work_files>>
              /\ \/ /\ it \in Unchecked /\ Accepts(it)
                    /\ map' = [map EXCEPT ![old_name[it]] = it] /\ pending' = pending
                 \/ /\ Keeps /\ map' = map
                    /\ \/ pending' = pending
                       \/ it \in Unchecked /\ pending' = Append(pending, it)
         /\ topologic_sort =>
              /\ pc = "topologic_sort" /\ pc' = pc /\ map_new' = map_new
              /\ UNCHANGED work_files
              /\ \/ Keeps /\ UNCHANGED <<map, pending>>
                 \/ LET p == pending[it]
                        depend == map[new_name[p]]
                    IN  /\ it \in 1 .. Len(pending) /\ p \in Unchecked /\ Accepts(p)
                        /\ depend \in Pending /\ old_name[depend] = new_name[p]
                        /\ next_spec[depend] = NULL
                        /\ prev_spec' = [prev_spec EXCEPT ![p] = depend]
                        /\ next_spec' = [next_spec EXCEPT ![depend] = p]
                        /\ map' = Claim(p)
                        /\ pending' = Without(pending, it)
         /\ apply_unchecked =>
              /\ pc = "apply_unchecked" /\ pc' = pc /\ UNCHANGED map
              /\ UNCHANGED <<prev_spec, next_spec, work_files>>
              /\ (it \in Unchecked /\ Accepts(it)) \/ Keeps
<1> USE DEF dataVars, fieldVars, planVars, sortVars, crossVars, localVars, envVars
<1>1. /\ SortInv /\ TypeInv /\ it \in Nat \ {0} /\ Unchecked \subseteq Listed
      /\ (More => it \in Listed /\ spec = it)
      /\ \A i \in Listed : new_name[i] \in FileNames
  BY StateFacts
<1>2. ASSUME dest_exists
      PROVE  /\ pc = "dest_exists" /\ pc' = pc /\ it' = it + 1 /\ it \in Listed
             /\ map_new' = map_new /\ UNCHANGED <<prev_spec, next_spec, work_files>>
             /\ \/ /\ it \in Unchecked /\ Accepts(it)
                   /\ map' = [map EXCEPT ![old_name[it]] = it] /\ pending' = pending
                \/ /\ Keeps /\ map' = map
                   /\ \/ pending' = pending
                      \/ it \in Unchecked /\ pending' = Append(pending, it)
  <2>1. it \in Listed /\ spec = it
    BY <1>1, <1>2 DEF dest_exists, InScan
  <2>2. status[it] = "UNCHECKED" => it \in Unchecked
    BY <2>1 DEF Unchecked
  <2> QED
    BY <1>2, <2>1, <2>2 DEF dest_exists, InScan, Accepts, Keeps, llist_add
<1>3. ASSUME topologic_sort
      PROVE  /\ pc = "topologic_sort" /\ pc' = pc /\ map_new' = map_new
             /\ UNCHANGED work_files
             /\ \/ Keeps /\ UNCHANGED <<map, pending>>
                \/ LET p == pending[it]
                       depend == map[new_name[p]]
                   IN  /\ it \in 1 .. Len(pending) /\ p \in Unchecked /\ Accepts(p)
                       /\ depend \in Pending /\ old_name[depend] = new_name[p]
                       /\ next_spec[depend] = NULL
                       /\ prev_spec' = [prev_spec EXCEPT ![p] = depend]
                       /\ next_spec' = [next_spec EXCEPT ![depend] = p]
                       /\ map' = Claim(p)
                       /\ pending' = Without(pending, it)
  <2> DEFINE p == pending[it]
             depend == map[new_name[p]]
  <2>1. pc = "topologic_sort" /\ pc' = pc /\ map_new' = map_new /\ UNCHANGED work_files
    BY <1>3 DEF topologic_sort
  <2>2. it \in 1 .. Len(pending)
    BY <1>1, <1>3 DEF topologic_sort, TypeInv, PlanTypeOK
  <2>3. p \in Unchecked /\ new_name[p] \in FileNames
    BY <1>1, <2>1, <2>2 DEF SortInv, InSort
  <2>4. CASE depend = NULL
    BY <1>3, <2>1, <2>4 DEF topologic_sort, Keeps
  <2>5. CASE depend # NULL
    <3>1. /\ depend \in Pending /\ old_name[depend] = new_name[p] /\ next_spec[depend] = NULL
      BY <1>1, <2>1, <2>3, <2>5 DEF SortInv, InSort
    <3>2. /\ prev_spec' = [prev_spec EXCEPT ![p] = depend]
          /\ next_spec' = [next_spec EXCEPT ![depend] = p]
          /\ map' = Claim(p) /\ pending' = Without(pending, it)
          /\ Accepts(p)
      BY <1>3, <2>5 DEF topologic_sort, Accepts, llist_add
    <3> QED
      BY <2>1, <2>2, <2>3, <3>1, <3>2
  <2> QED
    BY <2>4, <2>5
<1>4. ASSUME apply_unchecked
      PROVE  /\ pc = "apply_unchecked" /\ pc' = pc /\ UNCHANGED map
             /\ UNCHANGED <<prev_spec, next_spec, work_files>>
             /\ (it \in Unchecked /\ Accepts(it)) \/ Keeps
  <2>1. it \in Listed /\ spec = it
    BY <1>1, <1>4 DEF apply_unchecked, InScan
  <2>2. status[it] = "UNCHECKED" => it \in Unchecked
    BY <2>1 DEF Unchecked
  <2> QED
    BY <1>4, <2>1, <2>2 DEF apply_unchecked, InScan, Accepts, Keeps, llist_add
<1> QED
  BY <1>2, <1>3, <1>4

\* The walk stands on unchecked files.
LEMMA WalkFacts ==
  ASSUME PlanInv
  PROVE  /\ Walking => s1 \in Listed /\ s1 \in Refs /\ it = s1
         /\ pc \in {"follow", "temporary"} => s1 \in Unchecked
         /\ pc = "follow" => s2 \in Unchecked /\ prev_circular = s2
         /\ pc = "collect" => /\ s1 \notin Unchecked /\ prev_circular \in Pending
                              /\ s2 # NULL => s2 \in Unchecked
<1>1. TypeInv /\ WalkInv /\ NamesInv /\ Listed \subseteq Refs
  BY StateFacts
<1>2. Walking => s1 \in Listed /\ s1 \in Refs /\ it = s1
  BY <1>1 DEF TypeInv, Shape
<1>3. pc = "follow" => s1 \in Unchecked /\ s2 \in Unchecked
  <2> SUFFICES ASSUME pc = "follow" PROVE s1 \in Unchecked /\ s2 \in Unchecked
    OBVIOUS
  <2>1. PICK n \in Nat \ {0} : \E p \in [1 .. n -> Unchecked] : p[1] = s1 /\ p[n] = s2
    BY <1>1 DEF WalkInv
  <2>2. 1 \in 1 .. n /\ n \in 1 .. n
    OBVIOUS
  <2> QED
    BY <2>1, <2>2
<1>4. pc = "temporary" => s1 \in Unchecked
  <2> SUFFICES ASSUME pc = "temporary" PROVE s1 \in Unchecked
    OBVIOUS
  <2>1. PICK n \in Nat \ {0, 1} : \E p \in [1 .. n -> Unchecked] : p[1] = s1
    BY <1>1 DEF WalkInv
  <2>2. 1 \in 1 .. n
    OBVIOUS
  <2> QED
    BY <2>1, <2>2
<1>5. pc = "collect" /\ s2 # NULL => s2 \in Unchecked
  <2> SUFFICES ASSUME pc = "collect", s2 # NULL PROVE s2 \in Unchecked
    OBVIOUS
  <2>1. PICK n \in Nat : \E p \in [1 .. n -> Unchecked] : n # 0 /\ p[1] = s2
    BY <1>1 DEF WalkInv
  <2>2. 1 \in 1 .. n
    BY <2>1
  <2> QED
    BY <2>1, <2>2
<1> QED
  BY <1>1, <1>2, <1>3, <1>4, <1>5 DEF TypeInv, Shape, NamesInv, TmpInv, Walking

\* A dead end refuses the file that the walk started from, and no other.
LEMMA DeadEndFacts ==
  ASSUME PlanInv, FollowToDeadEnd \/ (FollowToStart /\ pc' # "temporary")
  PROVE  /\ pc = "follow" /\ pc' = "cross_reference" /\ it = s1 /\ it' = s1 + 1
         /\ s1 \in Unchecked
         /\ Unchecked' = Unchecked \ {s1} /\ Pending' = Pending /\ Listed' = Listed
         /\ status'[s1] = "NEW_EXISTS" /\ \A s \in Refs \ {s1} : status'[s] = status[s]
         /\ \A s \in Refs : next_spec'[s] \in {next_spec[s], NULL}
         /\ \A s \in Refs \ Unchecked : next_spec'[s] = next_spec[s]
         /\ UNCHANGED <<old_name, new_name, prev_spec, ok, map, map_new, work_files, printed, scenario>>
<1> USE DEF dataVars, fieldVars, planVars, sortVars, crossVars, localVars, envVars
<1>1. /\ DataTypeOK /\ Unchecked \subseteq Listed /\ Listed \subseteq Refs
  BY StateFacts
<1>2. /\ pc = "follow" /\ NextReference
      /\ \/ next_spec' = [next_spec EXCEPT ![s1] = NULL]
         \/ next_spec' = [next_spec EXCEPT ![prev_circular] = NULL]
      /\ status' = [status EXCEPT ![s1] = "NEW_EXISTS"]
      /\ UNCHANGED <<old_name, new_name, prev_spec, ok, map, map_new, work_files, printed, scenario>>
  BY DEF FollowToDeadEnd, FollowToStart, NextReference
<1>3. it = s1 /\ s1 \in Unchecked /\ prev_circular \in Unchecked
  BY <1>2, WalkFacts DEF Walking
<1>4. Pending' = Pending /\ Listed' = Listed
  BY <1>2 DEF Pending, Listed
<1>5. status'[s1] = "NEW_EXISTS" /\ \A s \in Refs \ {s1} : status'[s] = status[s]
  BY <1>1, <1>2, <1>3 DEF DataTypeOK
<1>6. Unchecked' = Unchecked \ {s1}
  BY <1>1, <1>4, <1>5 DEF Unchecked
<1>7. /\ \A s \in Refs : next_spec'[s] \in {next_spec[s], NULL}
      /\ \A s \in Refs \ Unchecked : next_spec'[s] = next_spec[s]
  BY <1>1, <1>2, <1>3 DEF DataTypeOK
<1> QED
  BY <1>2, <1>3, <1>4, <1>5, <1>6, <1>7 DEF NextReference

\* The copy of the first file of a circular set takes its place.
LEMMA ReplaceStartFacts ==
  ASSUME PlanInv, ReplaceStart
  PROVE  LET t == new_file_spec
         IN  /\ pc = "temporary" /\ pc' = "collect" /\ it' = it /\ map' = map
             /\ map_new' = map_new
             /\ s1' = s1 /\ s1 \in Unchecked /\ prev_circular' = t
             /\ s2' = next_spec[s1] /\ tmp_name' = tmp_name /\ ~TmpTaken
             /\ t \in Refs \ Listed /\ t \notin Pending /\ status[t] = "FREE"
             /\ Unchecked' = Unchecked \ {s1} /\ Pending' = Pending \cup {t}
             /\ Listed' = Listed
             /\ status'[s1] = "APPLY" /\ status'[t] = "CIRCULAR"
             /\ \A s \in Refs \ {s1, t} : status'[s] = status[s]
             /\ next_spec'[s1] = NULL /\ next_spec'[t] = next_spec[s1]
             /\ prev_spec'[s1] = NULL /\ prev_spec'[t] = NULL
             /\ \A s \in Refs \ {s1, t} : /\ next_spec'[s] = next_spec[s]
                                          /\ prev_spec'[s] = prev_spec[s]
             /\ old_name'[t] = tmp_name /\ new_name'[t] = new_name[s1]
             /\ \A s \in Refs \ {t} : /\ old_name'[s] = old_name[s]
                                      /\ new_name'[s] = new_name[s]
             /\ ok' = <<t>> \o ok /\ UNCHANGED <<work_files, printed, scenario>>
<1> USE DEF dataVars, fieldVars, planVars, sortVars, crossVars, localVars, envVars
<1> DEFINE t == new_file_spec
<1>1. /\ DataTypeOK /\ StatusInv /\ Unchecked \subseteq Listed /\ Listed \subseteq Refs
      /\ ok \in Seq(Refs)
      /\ CanAllocate => /\ t \in Refs /\ t \notin Listed
                        /\ status[t] = "FREE" /\ t \notin Pending
  BY StateFacts
<1>2. /\ pc = "temporary" /\ CanAllocate /\ pc' = "collect" /\ ~TmpTaken
      /\ ok' = <<t>> \o ok
      /\ status' = [status EXCEPT ![t] = "CIRCULAR", ![s1] = "APPLY"]
      /\ old_name' = [old_name EXCEPT ![t] = tmp_name]
      /\ new_name' = [new_name EXCEPT ![t] = new_name[s1]]
      /\ next_spec' = [next_spec EXCEPT ![t] = next_spec[s1], ![s1] = NULL]
      /\ prev_spec' = [prev_spec EXCEPT ![t] = prev_spec[s1], ![s1] = NULL]
      /\ prev_circular' = t
      /\ s2' = next_spec[s1]
      /\ UNCHANGED <<fs, error, no_change, work_files, it, map, sortVars, map_new,
                     s1, tmp_count, envVars>>
  BY DEF ReplaceStart, llist_add_first
<1>3. s1 \in Unchecked /\ s1 \in Refs /\ t \in Refs \ Listed /\ t # s1 /\ t \notin Pending
      /\ status[t] = "FREE"
  BY <1>1, <1>2, WalkFacts
<1> HIDE DEF t
<1>4. prev_spec[s1] = NULL
  BY <1>1, <1>3 DEF StatusInv
<1>5. /\ next_spec'[s1] = NULL /\ next_spec'[t] = next_spec[s1]
      /\ prev_spec'[s1] = NULL /\ prev_spec'[t] = NULL
      /\ \A s \in Refs \ {s1, t} : /\ next_spec'[s] = next_spec[s]
                                   /\ prev_spec'[s] = prev_spec[s]
  BY <1>1, <1>2, <1>3, <1>4 DEF DataTypeOK
<1>6. /\ old_name'[t] = tmp_name /\ new_name'[t] = new_name[s1]
      /\ \A s \in Refs \ {t} : old_name'[s] = old_name[s] /\ new_name'[s] = new_name[s]
  BY <1>1, <1>2, <1>3 DEF DataTypeOK
<1>7. /\ status'[s1] = "APPLY" /\ status'[t] = "CIRCULAR"
      /\ \A s \in Refs \ {s1, t} : status'[s] = status[s]
  BY <1>1, <1>2, <1>3 DEF DataTypeOK
<1>8. Listed' = Listed
  BY <1>2 DEF Listed
<1>9. Unchecked' = Unchecked \ {s1}
  BY <1>1, <1>3, <1>7, <1>8 DEF Unchecked
<1>10. Pending' = Pending \cup {t}
  BY <1>1, <1>2, <1>3, ConsElems DEF Pending
<1>11. tmp_name' = tmp_name
  BY <1>2, <1>3, <1>6 DEF tmp_name
<1> QED
  BY <1>2, <1>3, <1>5, <1>6, <1>7, <1>8, <1>9, <1>10, <1>11 DEF t

\* One more member of the circular set goes to the front of the plan.
LEMMA CollectFacts ==
  ASSUME PlanInv, CollectCircular
  PROVE  /\ pc = "collect" /\ pc' = pc /\ it' = it /\ map' = map /\ map_new' = map_new
         /\ s1' = s1 /\ prev_circular' = prev_circular /\ tmp_name' = tmp_name
         /\ s2' = next_spec[s2] /\ s2 # NULL
         /\ s2 \in Unchecked /\ s2 \notin Pending /\ s2 \in Refs
         /\ Unchecked' = Unchecked \ {s2} /\ Pending' = Pending \cup {s2}
         /\ Listed' = Listed
         /\ status'[s2] = "CIRCULAR" /\ \A s \in Refs \ {s2} : status'[s] = status[s]
         /\ ok' = <<s2>> \o ok
         /\ UNCHANGED <<old_name, new_name, prev_spec, next_spec, work_files, printed, scenario>>
<1> USE DEF dataVars, fieldVars, planVars, sortVars, crossVars, localVars, envVars
<1>1. /\ DataTypeOK /\ Unchecked \subseteq Listed /\ Listed \subseteq Refs
      /\ ok \in Seq(Refs) /\ Pending \cap Unchecked = {}
  BY StateFacts
<1>2. /\ pc = "collect" /\ s2 # NULL /\ pc' = pc
      /\ status' = [status EXCEPT ![s2] = "CIRCULAR"]
      /\ ok' = <<s2>> \o ok
      /\ s2' = next_spec[s2]
      /\ UNCHANGED <<fs, old_name, new_name, prev_spec, next_spec, error, no_change,
                     work_files, it, map, sortVars, map_new, s1, prev_circular,
                     tmp_count, envVars>>
  BY DEF CollectCircular, llist_add_first
<1>3. s2 \in Unchecked /\ s2 \notin Pending /\ s2 \in Refs
  BY <1>1, <1>2, WalkFacts
<1>4. status'[s2] = "CIRCULAR" /\ \A s \in Refs \ {s2} : status'[s] = status[s]
  BY <1>1, <1>2, <1>3 DEF DataTypeOK
<1>5. Listed' = Listed /\ tmp_name' = tmp_name
  BY <1>2 DEF Listed, tmp_name
<1>6. Unchecked' = Unchecked \ {s2}
  BY <1>1, <1>4, <1>5 DEF Unchecked
<1>7. Pending' = Pending \cup {s2}
  BY <1>1, <1>2, <1>3, ConsElems DEF Pending
<1> QED
  BY <1>2, <1>3, <1>4, <1>5, <1>6, <1>7

(***************************************************************************)
(* Relinking: along a list without repetitions, each FileSpec but the      *)
(* first has the one before it as its prev_spec, and each but the last the *)
(* one after it as its next_spec.                                          *)
(***************************************************************************)
LEMMA RelinkValues ==
  ASSUME NEW f, NEW list \in Seq(Refs),
         \A i, j \in 1 .. Len(list) : list[i] = list[j] => i = j
  PROVE  /\ \A i \in 2 .. Len(list) : Before(f, list)[list[i]] = list[i - 1]
         /\ \A i \in 1 .. Len(list) - 1 : After(f, list)[list[i]] = list[i + 1]
         /\ \A s \in Refs : (\A i \in 2 .. Len(list) : list[i] # s) => Before(f, list)[s] = f[s]
         /\ \A s \in Refs : (\A i \in 1 .. Len(list) - 1 : list[i] # s) => After(f, list)[s] = f[s]
<1>1. ASSUME NEW i \in 2 .. Len(list) PROVE Before(f, list)[list[i]] = list[i - 1]
  <2>1. i \in 1 .. Len(list) /\ list[i] \in Refs /\ \A j \in 2 .. Len(list) : j \in 1 .. Len(list)
    OBVIOUS
  <2>2. (CHOOSE j \in 2 .. Len(list) : list[j] = list[i]) = i
    BY <2>1
  <2> QED
    BY <2>1, <2>2 DEF Before
<1>2. ASSUME NEW i \in 1 .. Len(list) - 1 PROVE After(f, list)[list[i]] = list[i + 1]
  <2>1. /\ i \in 1 .. Len(list) /\ list[i] \in Refs
        /\ \A j \in 1 .. Len(list) - 1 : j \in 1 .. Len(list)
    OBVIOUS
  <2>2. (CHOOSE j \in 1 .. Len(list) - 1 : list[j] = list[i]) = i
    BY <2>1
  <2> QED
    BY <2>1, <2>2 DEF After
<1> QED
  BY <1>1, <1>2 DEF Before, After

\* The extra rename goes first, and the circular set becomes one chain.
LEMMA AddExtraFacts ==
  ASSUME PlanInv, AddExtraRename
  PROVE  LET t == prev_circular
             e == new_file_spec
             k == CHOOSE i \in 1 .. Len(ok) : ok[i] = t
         IN  /\ pc = "collect" /\ pc' = "cross_reference" /\ s2 = NULL
             /\ it = s1 /\ it' = s1 + 1 /\ s1 \notin Unchecked /\ map' = map
             /\ map_new' = map_new
             /\ t \in Pending /\ k \in 1 .. Len(ok) /\ ok[k] = t
             /\ e \in Refs \ Listed /\ e \notin Pending /\ status[e] = "FREE"
             /\ Unchecked' = Unchecked /\ Pending' = Pending \cup {e} /\ Listed' = Listed
             /\ status'[e] = "CIRCULAR" /\ \A s \in Refs \ {e} : status'[s] = status[s]
             /\ old_name'[e] = old_name[s1] /\ new_name'[e] = old_name[t]
             /\ \A s \in Refs \ {e} : /\ old_name'[s] = old_name[s]
                                      /\ new_name'[s] = new_name[s]
             /\ prev_spec'[e] = NULL /\ next_spec'[e] = ok[1]
             /\ \A i \in 1 .. k :
                  /\ prev_spec'[ok[i]] = IF i = 1 THEN e ELSE ok[i - 1]
                  /\ next_spec'[ok[i]] = IF i = k THEN NULL ELSE ok[i + 1]
             /\ \A s \in Refs \ {e} : (\A i \in 1 .. k : ok[i] # s) =>
                  prev_spec'[s] = prev_spec[s] /\ next_spec'[s] = next_spec[s]
             /\ ok' = <<e>> \o ok /\ UNCHANGED <<work_files, printed, scenario>>
<1> USE DEF dataVars, fieldVars, planVars, sortVars, crossVars, localVars, envVars
<1> DEFINE t == prev_circular
           e == new_file_spec
           k == CHOOSE i \in 1 .. Len(ok) : ok[i] = t
           set == CircularSet(e, t)
<1>1. /\ DataTypeOK /\ StatusInv /\ LinksInv /\ Unchecked \subseteq Listed /\ Listed \subseteq Refs
      /\ ok \in Seq(Refs) /\ NULL \notin Refs
      /\ CanAllocate => /\ e \in Refs /\ e \notin Listed
                        /\ status[e] = "FREE" /\ e \notin Pending
  BY StateFacts
<1>2. /\ pc = "collect" /\ CanAllocate /\ s2 = NULL
      /\ ok' = <<e>> \o ok
      /\ status' = [status EXCEPT ![e] = "CIRCULAR"]
      /\ old_name' = [old_name EXCEPT ![e] = old_name[s1]]
      /\ new_name' = [new_name EXCEPT ![e] = old_name[t]]
      /\ prev_spec' = Before(prev_spec, set)
      /\ next_spec' = [After(next_spec, set) EXCEPT ![t] = NULL]
      /\ NextReference
      /\ UNCHANGED <<fs, error, no_change, work_files, map, sortVars, map_new, envVars>>
  BY DEF AddExtraRename, llist_add_first
<1>3. /\ e \in Refs \ Listed /\ e \notin Pending /\ status[e] = "FREE"
      /\ s1 \in Refs /\ it = s1 /\ s1 \notin Unchecked /\ t \in Pending
  BY <1>1, <1>2, WalkFacts DEF Walking
<1> HIDE DEF t, e
<1>4. /\ k \in 1 .. Len(ok) /\ ok[k] = t
      /\ set \in Seq(Refs) /\ Len(set) = k + 1
      /\ set[1] = e /\ \A i \in 1 .. k : set[i + 1] = ok[i]
  BY <1>1, <1>3, CircularSetType DEF Pending
<1> HIDE DEF k, set
<1>5. \A i \in 1 .. Len(ok) : ok[i] \in Pending /\ ok[i] # e /\ ok[i] \in Refs
  BY <1>1, <1>3 DEF Pending, Elems
<1>6. \A i, j \in 1 .. Len(ok) : ok[i] = ok[j] => i = j
  BY <1>1 DEF LinksInv, NoRepeat
<1>7. \A i \in 1 .. k : i \in 1 .. Len(ok)
  BY <1>1, <1>4
<1>8. \A i \in 2 .. k + 1 : i - 1 \in 1 .. k /\ set[i] = ok[i - 1]
  <2> SUFFICES ASSUME NEW i \in 2 .. k + 1 PROVE i - 1 \in 1 .. k /\ set[i] = ok[i - 1]
    OBVIOUS
  <2>1. i - 1 \in 1 .. k /\ (i - 1) + 1 = i
    BY <1>4
  <2> QED
    BY <1>4, <2>1
<1>9. ASSUME NEW i \in 1 .. Len(set), NEW j \in 1 .. Len(set), set[i] = set[j] PROVE i = j
  <2>1. \A m \in 1 .. Len(set) : m = 1 \/ m \in 2 .. k + 1
    BY <1>4
  <2>2. CASE i = 1 \/ j = 1
    <3>1. \A m \in 2 .. k + 1 : set[m] # e
      BY <1>5, <1>7, <1>8
    <3> QED
      BY <1>4, <1>9, <2>1, <2>2, <3>1
  <2>3. CASE i \in 2 .. k + 1 /\ j \in 2 .. k + 1
    <3>1. i - 1 = j - 1
      BY <1>6, <1>7, <1>8, <1>9, <2>3
    <3> QED
      BY <2>3, <3>1
  <2> QED
    BY <2>1, <2>2, <2>3
<1>10. /\ \A i \in 2 .. k + 1 : Before(prev_spec, set)[set[i]] = set[i - 1]
       /\ \A i \in 1 .. k : After(next_spec, set)[set[i]] = set[i + 1]
       /\ \A s \in Refs : (\A i \in 2 .. k + 1 : set[i] # s) =>
            Before(prev_spec, set)[s] = prev_spec[s]
       /\ \A s \in Refs : (\A i \in 1 .. k : set[i] # s) =>
            After(next_spec, set)[s] = next_spec[s]
  <2>1. Len(set) = k + 1 /\ Len(set) - 1 = k
    BY <1>4
  <2>2. /\ \A i \in 2 .. Len(set) : Before(prev_spec, set)[set[i]] = set[i - 1]
        /\ \A i \in 1 .. Len(set) - 1 : After(next_spec, set)[set[i]] = set[i + 1]
        /\ \A s \in Refs : (\A i \in 2 .. Len(set) : set[i] # s) =>
             Before(prev_spec, set)[s] = prev_spec[s]
        /\ \A s \in Refs : (\A i \in 1 .. Len(set) - 1 : set[i] # s) =>
             After(next_spec, set)[s] = next_spec[s]
    <3>1. \A i, j \in 1 .. Len(set) : set[i] = set[j] => i = j
      BY <1>9
    <3>2. \A f : /\ \A i \in 2 .. Len(set) : Before(f, set)[set[i]] = set[i - 1]
                 /\ \A i \in 1 .. Len(set) - 1 : After(f, set)[set[i]] = set[i + 1]
                 /\ \A s \in Refs : (\A i \in 2 .. Len(set) : set[i] # s) =>
                       Before(f, set)[s] = f[s]
                 /\ \A s \in Refs : (\A i \in 1 .. Len(set) - 1 : set[i] # s) =>
                       After(f, set)[s] = f[s]
      BY <1>4, <3>1, RelinkValues, Zenon
    <3> QED
      BY <3>2, Zenon
  <2> QED
    BY <2>1, <2>2, Zenon
<1>11. DOMAIN After(next_spec, set) = Refs
  BY DEF After
<1>12. prev_spec'[e] = NULL
  <2>1. \A i \in 2 .. k + 1 : set[i] # e
    BY <1>5, <1>7, <1>8
  <2> QED
    BY <1>1, <1>2, <1>3, <1>10, <2>1 DEF StatusInv
<1>13. next_spec'[e] = ok[1]
  <2>1. 1 \in 1 .. k /\ set[1 + 1] = ok[1]
    BY <1>4
  <2>2. e # t
    BY <1>3
  <2> QED
    BY <1>2, <1>3, <1>4, <1>10, <1>11, <2>1, <2>2
<1>14. ASSUME NEW i \in 1 .. k
       PROVE  /\ prev_spec'[ok[i]] = IF i = 1 THEN e ELSE ok[i - 1]
              /\ next_spec'[ok[i]] = IF i = k THEN NULL ELSE ok[i + 1]
  <2>1. i + 1 \in 2 .. k + 1 /\ set[i + 1] = ok[i] /\ (i + 1) - 1 = i
    BY <1>4
  <2>2. prev_spec'[ok[i]] = set[i]
    BY <1>2, <1>10, <2>1
  <2>3. set[i] = IF i = 1 THEN e ELSE ok[i - 1]
    BY <1>4, <1>8
  <2>4. CASE i = k
    BY <1>2, <1>3, <1>4, <1>5, <1>7, <1>11, <2>2, <2>3, <2>4
  <2>5. CASE i # k
    <3>1. i + 1 \in 1 .. k /\ set[(i + 1) + 1] = ok[i + 1]
      BY <1>4, <2>5
    <3>2. ok[i] # t
      BY <1>4, <1>6, <1>7, <2>5
    <3>3. After(next_spec, set)[ok[i]] = ok[i + 1]
      BY <1>10, <2>1, <3>1
    <3>4. next_spec'[ok[i]] = ok[i + 1]
      BY <1>2, <1>5, <1>7, <1>11, <3>2, <3>3
    <3> QED
      BY <2>2, <2>3, <2>5, <3>4
  <2> QED
    BY <2>4, <2>5
<1>15. ASSUME NEW s \in Refs \ {e}, \A i \in 1 .. k : ok[i] # s
       PROVE  prev_spec'[s] = prev_spec[s] /\ next_spec'[s] = next_spec[s]
  <2>1. \A i \in 2 .. k + 1 : set[i] # s
    BY <1>8, <1>15
  <2>2. \A i \in 1 .. k : set[i] # s
    <3> SUFFICES ASSUME NEW i \in 1 .. k PROVE set[i] # s
      OBVIOUS
    <3>1. i = 1 \/ i \in 2 .. k + 1
      BY <1>4
    <3> QED
      BY <1>4, <2>1, <3>1
  <2>3. s # t
    BY <1>4, <1>15
  <2> QED
    BY <1>2, <1>10, <1>11, <2>1, <2>2, <2>3
<1>16. /\ old_name'[e] = old_name[s1] /\ new_name'[e] = old_name[t]
       /\ \A s \in Refs \ {e} : old_name'[s] = old_name[s] /\ new_name'[s] = new_name[s]
  BY <1>1, <1>2, <1>3 DEF DataTypeOK
<1>17. /\ status'[e] = "CIRCULAR"
       /\ \A s \in Refs \ {e} : status'[s] = status[s]
  BY <1>1, <1>2, <1>3 DEF DataTypeOK
<1>18. Listed' = Listed
  BY <1>2 DEF Listed
<1>19. Unchecked' = Unchecked
  BY <1>1, <1>3, <1>17, <1>18 DEF Unchecked
<1>20. Pending' = Pending \cup {e}
  BY <1>1, <1>2, <1>3, ConsElems DEF Pending
<1> QED
  BY <1>2, <1>3, <1>4, <1>12, <1>13, <1>14, <1>15, <1>16, <1>17, <1>18, <1>19, <1>20
     DEF NextReference, t, e, k

-----------------------------------------------------------------------------
\* The statuses.
LEMMA NextStatusInv == PlanInv /\ [PlanNext]_makePlanVars => StatusInv'
<1> SUFFICES ASSUME PlanInv, [PlanNext]_makePlanVars PROVE StatusInv'
  OBVIOUS
<1> USE DEF dataVars, fieldVars, planVars, sortVars, crossVars, localVars, envVars
<1>1. /\ TypeInv /\ StatusInv /\ DataTypeOK /\ it \in Nat \ {0}
      /\ Len(printed) \in Nat /\ Listed \subseteq Refs /\ NULL \notin Refs
      /\ Listed \subseteq Nat /\ Len(work_files) = Len(printed)
      /\ More => it \in Listed /\ spec = it
      /\ Unchecked \subseteq Listed
      /\ Pending \subseteq Refs /\ ok \in Seq(Refs) /\ Pending \cap Unchecked = {}
      /\ CanAllocate => /\ new_file_spec \in Refs /\ new_file_spec \notin Listed
                        /\ status[new_file_spec] = "FREE" /\ new_file_spec \notin Pending
  BY StateFacts
<1>2. /\ status \in [Refs -> FileSpecStatus \cup MemoryStatus]
      /\ prev_spec \in [Refs -> Refs \cup {NULL}] /\ next_spec \in [Refs -> Refs \cup {NULL}]
  BY <1>1 DEF DataTypeOK
<1>a. CASE EndScan
  <2>1. /\ pc \in Scans /\ pc' = NextScan[pc] /\ ~More /\ it' = 1
        /\ UNCHANGED <<dataVars, sortVars, s1, s2, prev_circular, tmp_count, envVars>>
    BY <1>a DEF EndScan
  <2>2. /\ pc' = "cross_reference" => pc = "cross_map"
        /\ pc' \in Sorting => pc \in Early \cup Sorting
        /\ pc' \in Early => pc \in Early
        /\ pc' # "previous_scan"
        /\ pc' \in Crossing => pc' = "cross_reference"
        /\ pc \in Crossing => pc = "cross_reference"
    BY <2>1, ScanNames DEF ChecksDone, Early, Sorting, Crossing
  <2>3. pc \in Crossing => Unchecked = {}
    BY <1>1, <2>1, <2>2 DEF StatusInv, More, Listed
  <2>4. Unchecked' = Unchecked /\ Pending' = Pending /\ Listed' = Listed
    BY <2>1 DEF Unchecked, Pending, Listed
  <2>5. pc' \in Crossing => \A i \in Unchecked : 1 <= i
    BY <1>1 DEF Listed
  <2>6. pc' \notin Crossing => \A i \in Unchecked : next_spec[i] = NULL
    BY <1>1, <2>3 DEF StatusInv
  <2>7. ok = <<>> => Pending = {}
    BY EmptyElems DEF Pending
  <2> QED
    BY <1>1, <2>1, <2>2, <2>4, <2>5, <2>6, <2>7 DEF StatusInv
<1>b. CASE previous_scan
  <2>1. /\ More /\ pc' = pc /\ pc = "previous_scan" /\ spec \in Unchecked
        /\ UNCHANGED <<fs, fieldVars, work_files, map, sortVars, crossVars, envVars>>
    BY <1>1, <1>b DEF previous_scan, InScan, StatusInv
  <2>2. ok' = ok
    BY <1>b, <2>1 DEF previous_scan, Unchecked, OkStatus
  <2>3. Unchecked' = Unchecked /\ Pending' = Pending /\ Listed' = Listed
    BY <2>1, <2>2 DEF Unchecked, Pending, Listed
  <2> QED
    BY <1>1, <2>1, <2>2, <2>3 DEF StatusInv, Crossing, Sorting
<1>c. CASE \/ duplicate_scan \/ old_missing_scan \/ no_change_scan
           \/ new_exists_map \/ new_exists_source \/ new_exists_dest
  <2>1. /\ pc' = pc /\ pc \in Early /\ pc # "previous_scan"
        /\ UNCHANGED <<fs, old_name, new_name, prev_spec, next_spec, ok, work_files, envVars>>
    BY <1>c DEF duplicate_scan, old_missing_scan, no_change_scan, new_exists_map,
                new_exists_source, new_exists_dest, Refuse, InScan, Early
  <2>2. \A s \in Refs : status'[s] = status[s] \/ status'[s] \in ErrorStatus \cup {"NO_CHANGE"}
    BY <1>1, <1>2, <1>c
       DEF duplicate_scan, old_missing_scan, no_change_scan, new_exists_map,
           new_exists_source, new_exists_dest, Refuse, ErrorStatus
  <2>3. /\ Listed' = Listed /\ Pending' = Pending /\ Pending = {}
        /\ Unchecked' \subseteq Unchecked
    BY <1>1, <2>1, <2>2, EmptyElems
       DEF Unchecked, Pending, Listed, ErrorStatus, StatusInv
  <2>4. \A s \in Refs : status'[s] = "FREE" => status[s] = "FREE"
    BY <2>2 DEF ErrorStatus
  <2> QED
    BY <1>1, <2>1, <2>3, <2>4 DEF StatusInv, Crossing, Early, Sorting
<1>d. CASE dest_exists \/ topologic_sort \/ apply_unchecked
  <2>1. /\ pc' = pc /\ pc \in Sorting \cup {"apply_unchecked"}
        /\ \/ Keeps
           \/ \E x \in Unchecked :
                /\ Accepts(x)
                /\ \/ UNCHANGED <<prev_spec, next_spec>>
                   \/ \E d \in Pending : /\ prev_spec' = [prev_spec EXCEPT ![x] = d]
                                         /\ next_spec' = [next_spec EXCEPT ![d] = x]
    BY <1>d, AcceptingScans DEF Sorting
  <2>2. CASE Keeps
    BY <1>1, <2>1, <2>2, KeepFacts DEF StatusInv, Sorting, Crossing, Early
  <2>3. CASE ~Keeps
    <3>1. PICK x \in Unchecked :
            /\ Accepts(x)
            /\ \/ UNCHANGED <<prev_spec, next_spec>>
               \/ \E d \in Pending : /\ prev_spec' = [prev_spec EXCEPT ![x] = d]
                                     /\ next_spec' = [next_spec EXCEPT ![d] = x]
      BY <2>1, <2>3
    <3>2. /\ x \in Listed /\ x \in Refs /\ Pending' = Pending \cup {x}
          /\ Unchecked' = Unchecked \ {x} /\ Listed' = Listed
          /\ status'[x] = "APPLY" /\ \A s \in Refs \ {x} : status'[s] = status[s]
      BY <3>1, AcceptFacts
    <3>3. \A s \in Refs : s # x /\ s \notin Pending =>
            prev_spec'[s] = prev_spec[s] /\ next_spec'[s] = next_spec[s]
      BY <1>1, <1>2, <3>1
    <3>4. \A s \in Refs : status'[s] = "FREE" => s # x /\ s \notin Pending /\ status[s] = "FREE"
      BY <1>1, <3>2 DEF StatusInv, OkStatus
    <3>5. \A s \in Pending' : status'[s] \in OkStatus
      BY <1>1, <3>2 DEF StatusInv, OkStatus
    <3>6. pc \in Sorting => \A s \in Pending' : s \in Listed /\ status'[s] = "APPLY"
      BY <1>1, <3>2 DEF StatusInv
    <3>7. pc \notin Crossing /\ pc \notin Early
      BY <2>1 DEF Sorting, Crossing, Early
    <3> QED
      BY <1>1, <2>1, <3>2, <3>3, <3>4, <3>5, <3>6, <3>7 DEF StatusInv, Early
  <2> QED
    BY <2>2, <2>3
<1>e. CASE EndTopologicPass \/ cross_map
  <2>1. Keeps /\ pc \in Sorting /\ pc' \in Sorting
    BY <1>e, ScanNames DEF EndTopologicPass, cross_map, InScan, Keeps, Sorting
  <2> QED
    BY <1>1, <2>1, KeepFacts DEF StatusInv, Sorting, Crossing, Early
<1>f. CASE cross_reference \/ TryNextTmp
  <2>1. /\ Keeps /\ pc \in Crossing /\ pc' \in Crossing
        /\ it' = it \/ (it' = it + 1 /\ it \notin Unchecked)
    BY <1>1, <1>f DEF cross_reference, TryNextTmp, Keeps, Crossing, Unchecked
  <2>2. \A i \in Unchecked : it <= i => it' <= i
    BY <1>1, <2>1
  <2> QED
    BY <1>1, <2>1, <2>2, KeepFacts DEF StatusInv, Sorting, Crossing, Early
<1>g. CASE OtherProcess \/ PlanDone \/ UNCHANGED makePlanVars
  <2>1. Keeps /\ pc' = pc /\ it' = it
    BY <1>g DEF OtherProcess, PlanDone, makePlanVars, Keeps
  <2> QED
    BY <1>1, <2>1, KeepFacts DEF StatusInv
<1>h. CASE FollowToDeadEnd \/ (FollowToStart /\ pc' # "temporary")
  <2>1. /\ pc = "follow" /\ pc' = "cross_reference" /\ it = s1 /\ it' = s1 + 1
        /\ s1 \in Unchecked
        /\ Unchecked' = Unchecked \ {s1} /\ Pending' = Pending /\ Listed' = Listed
        /\ status'[s1] = "NEW_EXISTS" /\ \A s \in Refs \ {s1} : status'[s] = status[s]
        /\ \A s \in Refs : next_spec'[s] \in {next_spec[s], NULL}
        /\ UNCHANGED <<prev_spec, ok>>
    BY <1>h, DeadEndFacts
  <2>2. \A i \in Unchecked' : it' <= i
    BY <1>1, <2>1 DEF StatusInv, Crossing
  <2>3. \A s \in Pending' : status'[s] \in OkStatus
    BY <1>1, <2>1 DEF StatusInv
  <2>4. \A s \in Refs : status'[s] = "FREE" => prev_spec'[s] = NULL /\ next_spec'[s] = NULL
    BY <1>1, <2>1 DEF StatusInv
  <2>5. \A i \in Unchecked' : prev_spec'[i] = NULL
    BY <1>1, <2>1 DEF StatusInv
  <2>6. pc' \in Crossing /\ pc' \notin Sorting /\ pc' \notin Early /\ pc' # "previous_scan"
    BY <2>1 DEF Sorting, Crossing, Early
  <2> QED
    BY <2>2, <2>3, <2>4, <2>5, <2>6 DEF StatusInv
<1>i. CASE (FollowToStart /\ pc' = "temporary") \/ FollowOn
  <2>1. /\ UNCHANGED <<status, ok, prev_spec, printed, scenario, it>>
        /\ pc = "follow" /\ pc' \in Crossing
        /\ \E x : next_spec' = [next_spec EXCEPT ![prev_circular] = x]
    BY <1>i DEF FollowToStart, FollowOn, Crossing, NextReference
  <2>2. prev_circular \in Refs /\ status[prev_circular] # "FREE"
    BY <1>1, <2>1, WalkFacts DEF Unchecked
  <2>3. \A s \in Refs : status'[s] = "FREE" => next_spec'[s] = next_spec[s]
    BY <1>2, <2>1, <2>2
  <2>4. Unchecked' = Unchecked /\ Pending' = Pending /\ Listed' = Listed
    BY <2>1 DEF Unchecked, Pending, Listed
  <2>5. pc \in Crossing /\ pc' \notin Sorting /\ pc' \notin Early /\ pc' # "previous_scan"
    BY <2>1 DEF Sorting, Crossing, Early
  <2> QED
    BY <1>1, <2>1, <2>3, <2>4, <2>5 DEF StatusInv
<1>j. CASE ReplaceStart
  <2> DEFINE t == new_file_spec
  <2>1. /\ pc = "temporary" /\ pc' = "collect" /\ it' = it
        /\ t \in Refs \ Listed
        /\ Unchecked' = Unchecked \ {s1} /\ Pending' = Pending \cup {t} /\ Listed' = Listed
        /\ status'[s1] = "APPLY" /\ status'[t] = "CIRCULAR" /\ s1 \in Unchecked
        /\ \A s \in Refs \ {s1, t} : status'[s] = status[s]
        /\ \A s \in Refs \ {s1, t} : next_spec'[s] = next_spec[s] /\ prev_spec'[s] = prev_spec[s]
    BY <1>j, ReplaceStartFacts
  <2>2. pc' \in Crossing /\ pc \in Crossing /\ pc' \notin Sorting /\ pc' \notin Early
        /\ pc' # "previous_scan"
    BY <2>1 DEF Sorting, Crossing, Early
  <2>3. \A s \in Pending' : status'[s] \in OkStatus
    BY <1>1, <2>1 DEF StatusInv, OkStatus
  <2>4. \A s \in Refs : status'[s] = "FREE" => prev_spec'[s] = NULL /\ next_spec'[s] = NULL
    BY <1>1, <2>1 DEF StatusInv
  <2>5. \A i \in Unchecked' : prev_spec'[i] = NULL /\ it' <= i
    BY <1>1, <2>1, <2>2 DEF StatusInv
  <2> QED
    BY <2>2, <2>3, <2>4, <2>5 DEF StatusInv
<1>k. CASE CollectCircular
  <2>1. /\ pc = "collect" /\ pc' = pc /\ it' = it
        /\ s2 \in Unchecked
        /\ Unchecked' = Unchecked \ {s2} /\ Pending' = Pending \cup {s2}
        /\ status'[s2] = "CIRCULAR" /\ \A s \in Refs \ {s2} : status'[s] = status[s]
        /\ UNCHANGED <<prev_spec, next_spec>>
    BY <1>k, CollectFacts
  <2>2. pc' \in Crossing /\ pc \in Crossing /\ pc' \notin Sorting /\ pc' \notin Early
        /\ pc' # "previous_scan"
    BY <2>1 DEF Sorting, Crossing, Early
  <2>3. \A s \in Pending' : status'[s] \in OkStatus
    BY <1>1, <2>1 DEF StatusInv, OkStatus
  <2>4. \A s \in Refs : status'[s] = "FREE" => prev_spec'[s] = NULL /\ next_spec'[s] = NULL
    BY <1>1, <2>1 DEF StatusInv
  <2>5. \A i \in Unchecked' : prev_spec'[i] = NULL /\ it' <= i
    BY <1>1, <2>1, <2>2 DEF StatusInv
  <2> QED
    BY <2>2, <2>3, <2>4, <2>5 DEF StatusInv
<1>l. CASE AddExtraRename
  <2> DEFINE e == new_file_spec
             t == prev_circular
             k == CHOOSE i \in 1 .. Len(ok) : ok[i] = t
  <2>1. /\ pc = "collect" /\ pc' = "cross_reference"
        /\ it = s1 /\ it' = s1 + 1 /\ s1 \notin Unchecked
        /\ k \in 1 .. Len(ok)
        /\ e \in Refs \ Listed
        /\ Unchecked' = Unchecked /\ Pending' = Pending \cup {e}
        /\ status'[e] = "CIRCULAR" /\ \A s \in Refs \ {e} : status'[s] = status[s]
        /\ \A s \in Refs \ {e} : (\A i \in 1 .. k : ok[i] # s) =>
             prev_spec'[s] = prev_spec[s] /\ next_spec'[s] = next_spec[s]
    BY <1>l, AddExtraFacts
  <2> HIDE DEF e, k, t
  <2>2. pc' \in Crossing /\ pc \in Crossing /\ pc' \notin Sorting /\ pc' \notin Early
        /\ pc' # "previous_scan"
    BY <2>1 DEF Sorting, Crossing, Early
  <2>3. \A s \in Pending' : status'[s] \in OkStatus
    BY <1>1, <2>1 DEF StatusInv, OkStatus
  <2>4. \A s \in Refs \ {e} : s \notin Pending =>
          prev_spec'[s] = prev_spec[s] /\ next_spec'[s] = next_spec[s]
    <3> SUFFICES ASSUME NEW s \in Refs \ {e}, s \notin Pending
                 PROVE  prev_spec'[s] = prev_spec[s] /\ next_spec'[s] = next_spec[s]
      OBVIOUS
    <3>1. Len(ok) \in Nat
      BY <1>1
    <3>2. 1 .. k \subseteq 1 .. Len(ok)
      BY <2>1, <3>1
    <3>3. \A i \in 1 .. Len(ok) : ok[i] # s
      BY DEF Pending, Elems
    <3> QED
      BY <2>1, <3>2, <3>3
  <2>5. \A s \in Refs : status'[s] = "FREE" => prev_spec'[s] = NULL /\ next_spec'[s] = NULL
    BY <1>1, <2>1, <2>4 DEF StatusInv, OkStatus
  <2>6. \A i \in Unchecked' : prev_spec'[i] = NULL /\ it' <= i
    <3>1. \A i \in Unchecked : it <= i /\ i # it
      BY <1>1, <2>1, <2>2 DEF StatusInv
    <3>2. \A i \in Unchecked : it + 1 <= i
      BY <1>1, <3>1
    <3>3. \A i \in Unchecked : i \in Refs \ {e} /\ i \notin Pending /\ prev_spec[i] = NULL
      BY <1>1, <2>1 DEF StatusInv
    <3> QED
      BY <2>1, <2>4, <3>2, <3>3
  <2> QED
    BY <2>2, <2>3, <2>5, <2>6 DEF StatusInv
<1> QED
  BY <1>a, <1>b, <1>c, <1>d, <1>e, <1>f, <1>g, <1>h, <1>i, <1>j, <1>k, <1>l
     DEF PlanNext, make_plan, CrossReferenceResolve

-----------------------------------------------------------------------------
\* Temporary names of two files differ.
LEMMA TemporaryDiffers ==
  ASSUME PlanInv, Walking, NEW c \in Listed, c # s1, NEW name, Temporary(name, printed[c])
  PROVE  name # tmp_name
<1>1. /\ TypeInv /\ \A i \in Listed : old_name[i] = printed[i]
      /\ \A i \in Listed : printed[i] \in Listable
  BY StateFacts, ListedFacts
<1>2. /\ s1 \in Listed /\ tmp_count \in 1 .. MaxTmp
  BY <1>1, PlanAssumption DEF TypeInv, PlanTypeOK, Shape
<1>3. printed[c] # printed[s1]
  BY <1>1, <1>2 DEF TypeInv, FilesKept, Listed
<1>4. PICK k \in 1 .. MaxTmp : name = TmpName[<<printed[c], k>>]
  BY DEF Temporary
<1>5. <<printed[c], k>> # <<printed[s1], tmp_count>>
  BY <1>3
<1> QED
  BY <1>1, <1>2, <1>4, <1>5, PlanAssumption DEF tmp_name

\* The destinations.
LEMMA NextDestInv == PlanInv /\ [PlanNext]_makePlanVars => DestInv'
<1> SUFFICES ASSUME PlanInv, [PlanNext]_makePlanVars PROVE DestInv'
  OBVIOUS
<1> USE DEF dataVars, fieldVars, planVars, sortVars, crossVars, localVars, envVars
<1>1. /\ TypeInv /\ StatusInv /\ DestInv /\ TmpInv /\ DataTypeOK /\ it \in Nat \ {0}
      /\ map \in [FileNames -> Refs \cup {NULL}]
      /\ map_new \in [FileNames -> Refs \cup {NULL}]
      /\ Len(printed) \in Nat /\ Listed \subseteq Refs /\ NULL \notin Refs
      /\ Listed \subseteq Nat /\ Len(work_files) = Len(printed)
      /\ \A i \in Listed : new_name[i] \in FileNames
      /\ More => it \in Listed /\ spec = it
      /\ Unchecked \subseteq Listed
      /\ Pending \subseteq Refs /\ ok \in Seq(Refs) /\ Pending \cap Unchecked = {}
  BY StateFacts DEF NamesInv
<1>2. status \in [Refs -> FileSpecStatus \cup MemoryStatus]
  BY <1>1 DEF DataTypeOK
<1>3. /\ Crossing = {"cross_reference", "follow", "temporary", "collect"}
      /\ Early \cap Crossing = {} /\ "cross_map" \notin Early
  BY DEF Early, Crossing
<1>a. CASE EndScan
  <2>1. pc \in Scans /\ pc' = NextScan[pc] /\ ~More /\ it' = 1 /\ Keeps
    BY <1>a DEF EndScan, Keeps
  <2>2. /\ pc' = "duplicate_scan" => pc = "previous_scan"
        /\ pc = "previous_scan" => pc' = "duplicate_scan"
        /\ pc' # "previous_scan"
    BY <2>1, ScanNames DEF ChecksDone
  <2>3. \A i \in Listed : i < it
    BY <1>1, <2>1 DEF More, Listed
  <2>4. pc = "duplicate_scan" => \A i \in Unchecked : map[new_name[i]] = i
    BY <1>1, <2>3 DEF DestInv
  <2>5. pc = "duplicate_scan" => \A i, j \in Unchecked : new_name[i] = new_name[j] => i = j
    BY <2>4
  <2>6. \A i \in Unchecked : ~(i < 1)
    BY <1>1
  <2> QED
    BY <1>1, <2>1, <2>2, <2>5, <2>6, KeepFacts DEF DestInv
<1>b. CASE previous_scan
  <2>1. /\ Keeps /\ pc = "previous_scan" /\ pc' = pc
    <3>1. More /\ pc' = pc /\ pc = "previous_scan" /\ spec \in Unchecked
      BY <1>1, <1>b DEF previous_scan, InScan, StatusInv
    <3> QED
      BY <1>b, <3>1 DEF previous_scan, Keeps, Unchecked, OkStatus
  <2> QED
    BY <1>1, <2>1, KeepFacts DEF DestInv
<1>c. CASE duplicate_scan
  <2>1. /\ pc = "duplicate_scan" /\ pc' = pc /\ it' = it + 1 /\ it \in Listed /\ spec = it
        /\ UNCHANGED <<old_name, new_name, ok, printed, scenario>>
    BY <1>1, <1>c DEF duplicate_scan, InScan
  <2>2. Listed' = Listed /\ Pending' = Pending /\ Pending = {}
    BY <1>1, <2>1, EmptyElems DEF Listed, Pending, StatusInv, Early
  <2>3. \A i \in Unchecked : i < it + 1 => i < it \/ i = it
    BY <1>1
  <2>4. ASSUME NEW i \in Unchecked', i < it + 1
        PROVE  map'[new_name[i]] = i
    <3>1. CASE status[it] # "UNCHECKED"
      <4>1. map' = map /\ i \in Unchecked /\ i # it
        BY <1>c, <2>1, <2>2, <2>4, <3>1 DEF duplicate_scan, Unchecked
      <4> QED
        BY <1>1, <2>1, <2>3, <2>4, <4>1 DEF DestInv
    <3>2. CASE status[it] = "UNCHECKED" /\ map[new_name[it]] = NULL
      <4>1. map' = [map EXCEPT ![new_name[it]] = it] /\ i \in Unchecked
        BY <1>c, <2>1, <2>2, <2>4, <3>2 DEF duplicate_scan, Unchecked
      <4>2. i # it => map[new_name[i]] = i /\ i # NULL
        BY <1>1, <2>1, <2>3, <2>4, <4>1 DEF DestInv
      <4> QED
        BY <1>1, <2>1, <3>2, <4>1, <4>2
    <3>3. CASE status[it] = "UNCHECKED" /\ map[new_name[it]] # NULL
      <4> DEFINE spec2 == map[new_name[it]]
      <4>1. /\ map' = [map EXCEPT ![new_name[it]] = it]
            /\ status' = [status EXCEPT ![spec2] = "DUPLICATE", ![it] = "DUPLICATE"]
        BY <1>c, <2>1, <3>3 DEF duplicate_scan
      <4>2. spec2 \in Refs
        BY <1>1, <2>1, <3>3
      <4>3. i \in Unchecked /\ i # it /\ i # spec2
        BY <1>1, <1>2, <2>1, <2>2, <2>4, <4>1, <4>2 DEF Unchecked
      <4>4. map[new_name[i]] = i
        BY <1>1, <2>1, <2>3, <2>4, <4>3 DEF DestInv
      <4> QED
        BY <1>1, <2>1, <4>1, <4>3, <4>4
    <3> QED
      BY <3>1, <3>2, <3>3
  <2> QED
    BY <2>1, <2>2, <2>4 DEF DestInv
<1>d. CASE \/ old_missing_scan \/ no_change_scan
           \/ new_exists_map \/ new_exists_source \/ new_exists_dest
  <2>1. /\ pc' = pc /\ pc \in Early /\ pc \notin {"previous_scan", "duplicate_scan"}
        /\ UNCHANGED <<old_name, new_name, ok, printed, scenario>>
    BY <1>d DEF old_missing_scan, no_change_scan, new_exists_map,
                new_exists_source, new_exists_dest, Refuse, InScan, Early
  <2>2. \A s \in Refs : status'[s] = status[s] \/ status'[s] \in ErrorStatus \cup {"NO_CHANGE"}
    BY <1>1, <1>2, <1>d
       DEF old_missing_scan, no_change_scan, new_exists_map,
           new_exists_source, new_exists_dest, Refuse, ErrorStatus
  <2>3. Pending' = Pending /\ Pending = {} /\ Unchecked' \subseteq Unchecked
    BY <1>1, <2>1, <2>2, EmptyElems
       DEF Unchecked, Pending, Listed, ErrorStatus, StatusInv
  <2> QED
    BY <1>1, <2>1, <2>3 DEF DestInv
<1>e. CASE dest_exists \/ topologic_sort \/ apply_unchecked
  <2>1. /\ pc' = pc /\ pc \in {"dest_exists", "topologic_sort", "apply_unchecked"}
        /\ Keeps \/ \E x \in Unchecked : Accepts(x)
    BY <1>e, AcceptingScans
  <2>3. CASE Keeps
    BY <1>1, <2>1, <2>3, KeepFacts DEF DestInv
  <2>4. CASE \E x \in Unchecked : Accepts(x)
    <3>1. PICK x \in Unchecked : Accepts(x)
      BY <2>4
    <3>2. /\ Pending' = Pending \cup {x} /\ Unchecked' = Unchecked \ {x}
          /\ new_name' = new_name
      BY <3>1, AcceptFacts
    <3>3. /\ \A i, j \in Unchecked : new_name[i] = new_name[j] => i = j
          /\ \A r, s \in Pending : new_name[r] = new_name[s] => r = s
          /\ \A s \in Pending, i \in Unchecked : new_name[s] # new_name[i]
      BY <1>1, <2>1 DEF DestInv
    <3> QED
      BY <2>1, <3>2, <3>3 DEF DestInv
  <2> QED
    BY <2>1, <2>3, <2>4
<1>f. CASE \/ EndTopologicPass \/ cross_map \/ cross_reference \/ TryNextTmp
           \/ OtherProcess \/ PlanDone \/ UNCHANGED makePlanVars
  <2>1. /\ Keeps
        /\ \/ UNCHANGED <<pc, it, map>>
           \/ /\ pc \notin {"previous_scan", "duplicate_scan"}
              /\ pc' \notin {"previous_scan", "duplicate_scan"}
    BY <1>f, ScanNames DEF EndTopologicPass, cross_map, cross_reference, TryNextTmp, InScan,
                           OtherProcess, PlanDone, makePlanVars, Keeps
  <2>2. /\ Unchecked' = Unchecked /\ Pending' = Pending /\ new_name' = new_name
    BY <2>1, KeepFacts
  <2>3. CASE UNCHANGED <<pc, it, map>>
    BY <1>1, <2>2, <2>3 DEF DestInv
  <2>4. CASE /\ pc \notin {"previous_scan", "duplicate_scan"}
             /\ pc' \notin {"previous_scan", "duplicate_scan"}
    BY <1>1, <2>2, <2>4 DEF DestInv
  <2> QED
    BY <2>1, <2>3, <2>4
<1>g. CASE FollowToDeadEnd \/ FollowToStart \/ FollowOn
  <2>1. CASE FollowToDeadEnd \/ (FollowToStart /\ pc' # "temporary")
    <3>1. /\ pc = "follow" /\ pc' = "cross_reference"
          /\ Unchecked' = Unchecked \ {s1} /\ Pending' = Pending /\ new_name' = new_name
      BY <2>1, DeadEndFacts
    <3> QED
      BY <1>1, <3>1 DEF DestInv
  <2>2. CASE (FollowToStart /\ pc' = "temporary") \/ FollowOn
    <3>1. /\ UNCHANGED <<status, ok, new_name, printed, scenario>>
          /\ pc = "follow" /\ pc' \in {"follow", "temporary"}
      BY <2>2 DEF FollowToStart, FollowOn, NextReference
    <3>2. Unchecked' = Unchecked /\ Pending' = Pending
      BY <3>1 DEF Unchecked, Pending, Listed
    <3> QED
      BY <1>1, <3>1, <3>2 DEF DestInv
  <2> QED
    BY <1>g, <2>1, <2>2
<1>h. CASE ReplaceStart
  <2> DEFINE t == new_file_spec
  <2>1. /\ pc = "temporary" /\ pc' = "collect" /\ s1 \in Unchecked
        /\ t \in Refs \ Listed /\ t \notin Pending
        /\ Unchecked' = Unchecked \ {s1} /\ Pending' = Pending \cup {t}
        /\ new_name'[t] = new_name[s1]
        /\ \A s \in Refs \ {t} : new_name'[s] = new_name[s]
    BY <1>h, ReplaceStartFacts
  <2> HIDE DEF t
  <2>2. /\ \A s \in Pending : new_name'[s] = new_name[s]
        /\ \A i \in Unchecked : new_name'[i] = new_name[i]
    BY <1>1, <2>1
  <2>3. /\ \A i, j \in Unchecked : new_name[i] = new_name[j] => i = j
        /\ \A r, s \in Pending : new_name[r] = new_name[s] => r = s
        /\ \A s \in Pending, i \in Unchecked : new_name[s] # new_name[i]
    BY <1>1, <2>1 DEF DestInv
  <2>4. /\ \A r, s \in Pending' : new_name'[r] = new_name'[s] => r = s
        /\ \A s \in Pending', i \in Unchecked' : new_name'[s] # new_name'[i]
        /\ \A i, j \in Unchecked' : new_name'[i] = new_name'[j] => i = j
    BY <2>1, <2>2, <2>3
  <2> QED
    BY <2>1, <2>4 DEF DestInv
<1>i. CASE CollectCircular
  <2>1. /\ pc = "collect" /\ pc' = pc /\ s2 \in Unchecked
        /\ Unchecked' = Unchecked \ {s2} /\ Pending' = Pending \cup {s2}
        /\ new_name' = new_name
    BY <1>i, CollectFacts
  <2> QED
    BY <1>1, <2>1 DEF DestInv
<1>j. CASE AddExtraRename
  <2> DEFINE e == new_file_spec
  <2>1. /\ pc = "collect" /\ pc' = "cross_reference"
        /\ e \in Refs \ Listed /\ e \notin Pending
        /\ Unchecked' = Unchecked /\ Pending' = Pending \cup {e}
        /\ new_name'[e] = old_name[prev_circular]
        /\ \A s \in Refs \ {e} : new_name'[s] = new_name[s]
    BY <1>j, AddExtraFacts
  <2> HIDE DEF e
  <2>2. /\ \A s \in Pending : new_name'[s] = new_name[s]
        /\ \A i \in Unchecked : new_name'[i] = new_name[i]
    BY <1>1, <2>1
  <2>3. new_name'[e] = tmp_name /\ map_new[tmp_name] = NULL
    BY <1>1, <2>1 DEF TmpInv
  <2>4. /\ \A i \in Unchecked : new_name[i] # tmp_name
        /\ \A s \in Pending :
             \/ new_name[s] # tmp_name
             \/ \E c \in Listed : Temporary(new_name[s], printed[c]) /\ c # s1
    BY <1>1, <1>3, <2>1, <2>3 DEF TmpInv
  <2>5. \A s \in Pending : new_name[s] # tmp_name
    BY <2>1, <2>4, TemporaryDiffers DEF Walking
  <2>6. /\ \A r, s \in Pending' : new_name'[r] = new_name'[s] => r = s
        /\ \A s \in Pending', i \in Unchecked' : new_name'[s] # new_name'[i]
        /\ \A i, j \in Unchecked' : new_name'[i] = new_name'[j] => i = j
    BY <1>1, <2>1, <2>2, <2>3, <2>4, <2>5 DEF DestInv
  <2> QED
    BY <2>1, <2>6 DEF DestInv
<1> QED
  BY <1>a, <1>b, <1>c, <1>d, <1>e, <1>f, <1>g, <1>h, <1>i, <1>j
     DEF PlanNext, make_plan, CrossReferenceResolve

\* The temporary names.
LEMMA NextTmpInv == PlanInv /\ [PlanNext]_makePlanVars => TmpInv'
<1> SUFFICES ASSUME PlanInv, [PlanNext]_makePlanVars PROVE TmpInv'
  OBVIOUS
<1> USE DEF dataVars, fieldVars, planVars, sortVars, crossVars, localVars, envVars
<1>1. /\ TypeInv /\ StatusInv /\ DestInv /\ TmpInv /\ DataTypeOK /\ it \in Nat \ {0}
      /\ map \in [FileNames -> Refs \cup {NULL}]
      /\ map_new \in [FileNames -> Refs \cup {NULL}]
      /\ Len(printed) \in Nat /\ Listed \subseteq Refs /\ NULL \notin Refs
      /\ Listed \subseteq Nat /\ Len(work_files) = Len(printed)
      /\ \A i \in Listed : new_name[i] \in FileNames
      /\ More => it \in Listed /\ spec = it
      /\ Unchecked \subseteq Listed
      /\ Pending \subseteq Refs /\ ok \in Seq(Refs) /\ Pending \cap Unchecked = {}
  BY StateFacts DEF NamesInv
<1>2. status \in [Refs -> FileSpecStatus \cup MemoryStatus]
  BY <1>1 DEF DataTypeOK
<1>3. /\ Crossing = {"cross_reference", "follow", "temporary", "collect"}
      /\ Early \cap Crossing = {} /\ "cross_map" \notin Early
  BY DEF Early, Crossing
<1>4. pc \in Crossing => /\ \A i \in Unchecked : map_new[new_name[i]] # NULL
                         /\ \A s \in Pending :
                              \/ map_new[new_name[s]] # NULL
                              \/ \E c \in Listed \ Unchecked :
                                   Temporary(new_name[s], printed[c])
  BY <1>1 DEF TmpInv
<1>a. CASE EndScan
  <2>1. /\ pc \in Scans /\ pc' = NextScan[pc] /\ ~More /\ it' = 1 /\ Keeps
        /\ pc # "cross_reference" => map_new' = map_new
    BY <1>a DEF EndScan, Keeps
  <2>2. /\ pc' # "cross_map"
        /\ pc' \in Crossing => pc = "cross_map" /\ pc' = "cross_reference"
    BY <1>3, <2>1, ScanNames DEF ChecksDone
  <2>3. \A i \in Listed : i < it
    BY <1>1, <2>1 DEF More, Listed
  <2>4. pc = "cross_map" => \A i \in Unchecked \cup Pending : map_new[new_name[i]] # NULL
    BY <1>1, <2>3 DEF TmpInv, StatusInv, Sorting
  <2> QED
    BY <1>3, <2>1, <2>2, <2>4, KeepFacts DEF TmpInv
<1>b. CASE \/ previous_scan \/ duplicate_scan \/ old_missing_scan \/ no_change_scan
           \/ new_exists_map \/ new_exists_source \/ new_exists_dest
           \/ dest_exists \/ topologic_sort \/ apply_unchecked
  <2>1. /\ pc' = pc
        /\ pc \in Early \cup {"dest_exists", "topologic_sort", "apply_unchecked"}
    BY <1>b DEF previous_scan, duplicate_scan, old_missing_scan, no_change_scan,
                new_exists_map, new_exists_source, new_exists_dest, Refuse, InScan,
                dest_exists, topologic_sort, apply_unchecked, Early
  <2> QED
    BY <1>3, <2>1 DEF TmpInv
<1>c. CASE EndTopologicPass
  <2>1. /\ Keeps /\ pc = "topologic_sort" /\ pc' \in {"topologic_sort", "cross_map"} /\ it' = 1
    BY <1>c, ScanNames DEF EndTopologicPass, Keeps
  <2>2. \A i \in Unchecked \cup Pending : ~(i < 1)
    BY <1>1, <2>1 DEF StatusInv, Sorting
  <2> QED
    BY <1>3, <2>1, <2>2, KeepFacts DEF TmpInv
<1>d. CASE cross_map
  <2>1. /\ Keeps /\ pc = "cross_map" /\ pc' = pc /\ it' = it + 1 /\ it \in Listed
        /\ map_new' = IF status[it] \in {"UNCHECKED", "APPLY"}
                      THEN [map_new EXCEPT ![new_name[it]] = it] ELSE map_new
    BY <1>1, <1>d DEF cross_map, InScan, Keeps
  <2>2. ASSUME NEW i \in Unchecked \cup Pending, i < it + 1
        PROVE  map_new'[new_name[i]] # NULL
    <3>1. i \in Listed /\ status[i] \in {"UNCHECKED", "APPLY"}
      BY <1>1, <2>1 DEF StatusInv, Sorting, Unchecked
    <3>2. i < it => map_new[new_name[i]] # NULL
      BY <1>1, <2>1 DEF TmpInv
    <3>3. i < it \/ i = it
      BY <1>1, <2>2, <3>1
    <3> QED
      BY <1>1, <2>1, <3>1, <3>2, <3>3
  <2> QED
    BY <1>3, <2>1, <2>2, KeepFacts DEF TmpInv
<1>e. CASE cross_reference \/ TryNextTmp
  <2>1. /\ Keeps /\ pc \in Crossing /\ pc' \in Crossing /\ pc' # "collect" /\ map_new' = map_new
        /\ pc' # "cross_map"
    BY <1>3, <1>e DEF cross_reference, TryNextTmp, Keeps
  <2>2. printed' = printed
    BY <2>1 DEF Keeps
  <2> QED
    BY <1>4, <2>1, <2>2, KeepFacts DEF TmpInv, Temporary
<1>f. CASE OtherProcess \/ PlanDone \/ UNCHANGED makePlanVars
  <2>1. /\ Keeps
        /\ UNCHANGED <<pc, it, map_new, s1, tmp_count, prev_circular>>
    BY <1>f DEF OtherProcess, PlanDone, makePlanVars, Keeps
  <2>2. printed' = printed /\ tmp_name' = tmp_name
    BY <2>1 DEF Keeps, tmp_name
  <2>3. /\ Unchecked' = Unchecked /\ Pending' = Pending /\ Listed' = Listed
        /\ new_name' = new_name /\ old_name' = old_name
    BY <2>1, KeepFacts
  <2>4. pc' = "cross_map" =>
          \A i \in Unchecked' \cup Pending' : i < it' => map_new'[new_name'[i]] # NULL
    BY <1>1, <2>1, <2>3 DEF TmpInv
  <2>5. pc' = "collect" => /\ map_new'[tmp_name'] = NULL
                           /\ old_name'[prev_circular'] = tmp_name'
                           /\ s1' \notin Unchecked'
    BY <1>1, <2>1, <2>2, <2>3 DEF TmpInv
  <2>6. pc' \in Crossing =>
          /\ \A i \in Unchecked' : map_new'[new_name'[i]] # NULL
          /\ \A s \in Pending' :
               \/ map_new'[new_name'[s]] # NULL
               \/ \E c \in Listed \ Unchecked' : /\ Temporary(new_name'[s], printed[c])
                                                 /\ pc' = "collect" => c # s1'
    BY <1>1, <2>1, <2>3 DEF TmpInv
  <2>7. (pc \in Crossing =>
          /\ \A i \in Unchecked : map_new[new_name[i]] # NULL
          /\ \A s \in Pending :
               \/ map_new[new_name[s]] # NULL
               \/ \E c \in Listed \ Unchecked : /\ Temporary(new_name[s], printed[c])
                                                /\ pc = "collect" => c # s1)'
    BY <2>2, <2>3, <2>6 DEF Temporary
  <2> QED
    BY <2>4, <2>5, <2>7 DEF TmpInv
<1>g. CASE FollowToDeadEnd \/ (FollowToStart /\ pc' # "temporary")
  <2>1. /\ pc = "follow" /\ pc' = "cross_reference"
        /\ Unchecked' = Unchecked \ {s1} /\ Pending' = Pending /\ Listed' = Listed
        /\ UNCHANGED <<new_name, map_new, printed, scenario>>
    BY <1>g, DeadEndFacts
  <2>2. printed' = printed
    BY <2>1
  <2> QED
    BY <1>3, <1>4, <2>1, <2>2 DEF TmpInv, Temporary
<1>h. CASE (FollowToStart /\ pc' = "temporary") \/ FollowOn
  <2>1. /\ UNCHANGED <<status, ok, new_name, printed, scenario, map_new>>
        /\ pc = "follow" /\ pc' \in {"follow", "temporary"}
    BY <1>h DEF FollowToStart, FollowOn, NextReference
  <2>2. Unchecked' = Unchecked /\ Pending' = Pending /\ Listed' = Listed /\ printed' = printed
    BY <2>1 DEF Unchecked, Pending, Listed
  <2> QED
    BY <1>3, <1>4, <2>1, <2>2 DEF TmpInv, Temporary
<1>i. CASE ReplaceStart
  <2> DEFINE t == new_file_spec
  <2>1. /\ pc = "temporary" /\ pc' = "collect" /\ map_new' = map_new /\ s1' = s1
        /\ s1 \in Unchecked /\ prev_circular' = t /\ tmp_name' = tmp_name /\ ~TmpTaken
        /\ t \in Refs \ Listed
        /\ Unchecked' = Unchecked \ {s1} /\ Pending' = Pending \cup {t} /\ Listed' = Listed
        /\ old_name'[t] = tmp_name /\ new_name'[t] = new_name[s1]
        /\ \A s \in Refs \ {t} : new_name'[s] = new_name[s]
        /\ printed' = printed /\ scenario' = scenario
    BY <1>i, ReplaceStartFacts
  <2> HIDE DEF t
  <2>2. \A i \in Unchecked' : map_new'[new_name'[i]] # NULL
    BY <1>1, <1>3, <1>4, <2>1
  <2>3. printed' = printed
    BY <2>1
  <2>4. ASSUME NEW s \in Pending'
        PROVE  \/ map_new'[new_name'[s]] # NULL
               \/ \E c \in Listed \ Unchecked' : Temporary(new_name'[s], printed[c]) /\ c # s1
    <3>1. CASE s = t
      BY <1>3, <1>4, <2>1, <3>1
    <3>2. CASE s \in Pending \ {t}
      <4>1. new_name'[s] = new_name[s]
        BY <1>1, <2>1, <3>2
      <4>2. \A c \in Listed \ Unchecked : c \in Listed \ Unchecked' /\ c # s1
        BY <2>1
      <4>3. \/ map_new[new_name[s]] # NULL
            \/ \E c \in Listed \ Unchecked : Temporary(new_name[s], printed[c])
        BY <1>3, <1>4, <2>1, <3>2
      <4> QED
        BY <2>1, <4>1, <4>2, <4>3
    <3> QED
      BY <2>1, <3>1, <3>2
  <2>5. map_new'[tmp_name'] = NULL /\ s1' \notin Unchecked' /\ old_name'[prev_circular'] = tmp_name'
    BY <2>1 DEF TmpTaken
  <2> QED
    BY <1>3, <2>1, <2>2, <2>3, <2>4, <2>5 DEF TmpInv, Temporary
<1>j. CASE CollectCircular
  <2>1. /\ pc = "collect" /\ pc' = pc /\ map_new' = map_new
        /\ s1' = s1 /\ prev_circular' = prev_circular /\ tmp_name' = tmp_name
        /\ s2 \in Unchecked
        /\ Unchecked' = Unchecked \ {s2} /\ Pending' = Pending \cup {s2} /\ Listed' = Listed
        /\ UNCHANGED <<old_name, new_name, printed, scenario>>
    BY <1>j, CollectFacts
  <2>2. printed' = printed
    BY <2>1
  <2>3. /\ \A s \in Pending' :
             \/ map_new[new_name[s]] # NULL
             \/ \E c \in Listed \ Unchecked' : Temporary(new_name[s], printed[c]) /\ c # s1
        /\ \A i \in Unchecked' : map_new[new_name[i]] # NULL
    BY <1>1, <1>3, <2>1 DEF TmpInv
  <2>4. /\ map_new[tmp_name] = NULL /\ old_name[prev_circular] = tmp_name
        /\ s1 \notin Unchecked'
    BY <1>1, <2>1 DEF TmpInv
  <2> QED
    BY <1>3, <2>1, <2>2, <2>3, <2>4 DEF TmpInv, Temporary
<1>k. CASE AddExtraRename
  <2> DEFINE e == new_file_spec
  <2>1. /\ pc = "collect" /\ pc' = "cross_reference" /\ map_new' = map_new
        /\ s1 \notin Unchecked
        /\ e \in Refs \ Listed /\ e \notin Pending
        /\ Unchecked' = Unchecked /\ Pending' = Pending \cup {e} /\ Listed' = Listed
        /\ new_name'[e] = old_name[prev_circular]
        /\ \A s \in Refs \ {e} : new_name'[s] = new_name[s]
        /\ printed' = printed /\ scenario' = scenario
    BY <1>k, AddExtraFacts
  <2> HIDE DEF e
  <2>2. new_name'[e] = tmp_name /\ s1 \in Listed \ Unchecked /\ printed' = printed
    BY <1>1, <2>1, WalkFacts DEF TmpInv, Walking
  <2>3. Temporary(tmp_name, printed[s1])
    <3>1. old_name[s1] = printed[s1]
      BY <2>2, StateFacts
    <3>2. tmp_count \in 1 .. MaxTmp
      BY <1>1, <2>1, PlanAssumption DEF TypeInv, PlanTypeOK, Shape, Walking
    <3> QED
      BY <3>1, <3>2 DEF Temporary, tmp_name
  <2>4. ASSUME NEW s \in Pending'
        PROVE  \/ map_new[new_name'[s]] # NULL
               \/ \E c \in Listed \ Unchecked' : Temporary(new_name'[s], printed[c])
    <3>1. CASE s = e
      BY <2>1, <2>2, <2>3, <3>1
    <3>2. CASE s \in Pending \ {e}
      BY <1>1, <1>3, <1>4, <2>1, <3>2
    <3> QED
      BY <2>1, <3>1, <3>2
  <2>5. \A i \in Unchecked' : map_new[new_name'[i]] # NULL
    BY <1>1, <1>3, <1>4, <2>1
  <2> QED
    BY <1>3, <2>1, <2>2, <2>4, <2>5 DEF TmpInv, Temporary
<1> QED
  BY <1>a, <1>b, <1>c, <1>d, <1>e, <1>f, <1>g, <1>h, <1>i, <1>j, <1>k
     DEF PlanNext, make_plan, CrossReferenceResolve

-----------------------------------------------------------------------------
(***************************************************************************)
(* What is left of a walk after its first file.                            *)
(***************************************************************************)
TailOf(m, q, n, p) ==
    /\ m \in Nat /\ m = n - 1 /\ Walk(m, q)
    /\ q \in [1 .. m -> Unchecked \ {p[1]}]
    /\ n # 1 => q[m] = p[n] /\ next_spec[p[1]] = q[1]

LEMMA WalkTail ==
  ASSUME NEW n \in Nat \ {0}, NEW p, Walk(n, p)
  PROVE  \E m, q : TailOf(m, q, n, p)
<1>m. PICK m : m = n - 1
  OBVIOUS
<1>q. PICK q : q = [i \in 1 .. m |-> p[i + 1]]
  OBVIOUS
<1>1. /\ p \in [1 .. n -> Unchecked]
      /\ \A i, j \in 1 .. n : p[i] = p[j] => i = j
      /\ \A i \in 1 .. n - 1 : next_spec[p[i]] = p[i + 1] /\ map[new_name[p[i]]] = p[i + 1]
  BY DEF Walk
<1>2. \A i \in 1 .. m : i + 1 \in 1 .. n /\ i + 1 # 1 /\ q[i] = p[i + 1]
  BY <1>m, <1>q
<1>3. q \in [1 .. m -> Unchecked \ {p[1]}]
  <2>1. 1 \in 1 .. n
    OBVIOUS
  <2>2. \A i \in 1 .. m : p[i + 1] \in Unchecked \ {p[1]}
    BY <1>1, <1>2, <2>1
  <2> QED
    BY <1>q, <2>2
<1>4. \A i, j \in 1 .. m : q[i] = q[j] => i = j
  <2> SUFFICES ASSUME NEW i \in 1 .. m, NEW j \in 1 .. m, q[i] = q[j] PROVE i = j
    OBVIOUS
  <2>1. i + 1 = j + 1
    BY <1>1, <1>2
  <2> QED
    BY <2>1
<1>5. \A i \in 1 .. m - 1 : /\ next_spec[q[i]] = q[i + 1]
                                  /\ map[new_name[q[i]]] = q[i + 1]
  <2> SUFFICES ASSUME NEW i \in 1 .. m - 1
               PROVE  next_spec[q[i]] = q[i + 1] /\ map[new_name[q[i]]] = q[i + 1]
    OBVIOUS
  <2>1. i + 1 \in 1 .. n - 1 /\ i \in 1 .. n - 1 /\ i + 1 \in 1 .. m /\ i \in 1 .. m
    BY <1>m
  <2> QED
    BY <1>1, <1>2, <2>1
<1>6. n # 1 => q[m] = p[n] /\ next_spec[p[1]] = q[1]
  <2> SUFFICES ASSUME n # 1
               PROVE  q[m] = p[n] /\ next_spec[p[1]] = q[1]
    OBVIOUS
  <2>1. 1 \in 1 .. m /\ m \in 1 .. m /\ 1 + 1 = 2 /\ m + 1 = n /\ 1 \in 1 .. n - 1
    BY <1>m
  <2> QED
    BY <1>1, <1>2, <2>1
<1>7. q \in [1 .. m -> Unchecked] /\ m \in Nat
  BY <1>3, <1>m
<1>8. Walk(m, q)
  BY <1>4, <1>5, <1>7 DEF Walk
<1>9. TailOf(m, q, n, p)
  BY <1>m, <1>3, <1>6, <1>7, <1>8 DEF TailOf
<1> QED
  BY <1>9

(***************************************************************************)
(* One step further, the walk meets a file that it has not met yet: only   *)
(* one unchecked file has a given new name.                                *)
(***************************************************************************)
LEMMA WalkMore ==
  ASSUME PlanInv, FollowOn, NEW n \in Nat \ {0}, NEW p, Walk(n, p), p[1] = s1, p[n] = s2,
         NEW q, q = [i \in 1 .. n + 1 |-> IF i = n + 1 THEN Following ELSE p[i]]
  PROVE  Walk(n + 1, q)' /\ q[1] = s1' /\ q[n + 1] = s2' /\ n + 1 \in Nat \ {0}
<1> USE DEF dataVars, fieldVars, planVars, sortVars, crossVars, localVars, envVars
<1>1. /\ TypeInv /\ DestInv /\ WalkInv /\ DataTypeOK /\ Unchecked \subseteq Listed
      /\ Listed \subseteq Refs /\ NULL \notin Refs
      /\ \A i \in Listed : new_name[i] \in FileNames
  BY StateFacts DEF NamesInv
<1>2. /\ pc = "follow" /\ ~DeadEnd /\ Following # s1 /\ prev_circular = s2 /\ s2 \in Unchecked
      /\ next_spec' = [next_spec EXCEPT ![s2] = Following]
      /\ s2' = Following /\ s1' = s1
      /\ UNCHANGED <<status, old_name, new_name, map, printed, scenario, pc>>
  BY WalkFacts DEF FollowOn
<1>3. Following \in Unchecked /\ Following # NULL
  BY <1>1, <1>2 DEF DeadEnd, Following, TypeInv, Shape, Unchecked
<1>4. /\ p \in [1 .. n -> Unchecked]
      /\ \A i, j \in 1 .. n : p[i] = p[j] => i = j
      /\ \A i \in 1 .. n - 1 : next_spec[p[i]] = p[i + 1] /\ map[new_name[p[i]]] = p[i + 1]
  BY DEF Walk
<1>5. /\ \A i, j \in Unchecked : new_name[i] = new_name[j] => i = j
      /\ \A m \in FileNames : map[m] # NULL => old_name[map[m]] = m
  BY <1>1, <1>2 DEF DestInv, WalkInv, Crossing
<1>6. \A j \in 1 .. n : p[j] # Following
  <2> SUFFICES ASSUME NEW j \in 1 .. n, p[j] = Following PROVE FALSE
    OBVIOUS
  <2>1. j # 1
    BY <1>2
  <2>2. j - 1 \in 1 .. n - 1 /\ (j - 1) + 1 = j /\ j - 1 \in 1 .. n /\ n \in 1 .. n /\ j - 1 # n
    BY <2>1
  <2>3. map[new_name[p[j - 1]]] = Following /\ map[new_name[p[n]]] = Following
    BY <1>4, <2>2 DEF Following
  <2>4. p[j - 1] \in Unchecked /\ p[n] \in Unchecked
    BY <1>4, <2>2
  <2>5. new_name[p[j - 1]] = new_name[p[n]]
    BY <1>1, <1>3, <1>5, <2>3, <2>4
  <2> QED
    BY <1>4, <1>5, <2>2, <2>4, <2>5
<1>7. /\ \A i \in 1 .. n : i \in 1 .. n + 1 /\ i # n + 1 /\ q[i] = p[i]
      /\ q[n + 1] = Following
      /\ \A i \in 1 .. n + 1 : i \in 1 .. n \/ i = n + 1
  OBVIOUS
<1>8. Unchecked' = Unchecked
  BY <1>2 DEF Unchecked, Listed
<1>9. q \in [1 .. n + 1 -> Unchecked]
  BY <1>3, <1>4, <1>7
<1>10. \A i, j \in 1 .. n + 1 : q[i] = q[j] => i = j
  BY <1>4, <1>6, <1>7
<1>11. ASSUME NEW i \in 1 .. (n + 1) - 1
       PROVE  next_spec'[q[i]] = q[i + 1] /\ map'[new_name'[q[i]]] = q[i + 1]
  <2>1. i \in 1 .. n /\ n \in 1 .. n
    OBVIOUS
  <2>2. CASE i = n
    BY <1>1, <1>2, <1>7, <2>1, <2>2 DEF Following, DataTypeOK
  <2>3. CASE i # n
    <3>1. i \in 1 .. n - 1 /\ i + 1 \in 1 .. n
      BY <2>1, <2>3
    <3>2. p[i] # s2 /\ p[i] \in Refs
      BY <1>1, <1>4, <2>1, <2>3
    <3> QED
      BY <1>1, <1>2, <1>4, <1>7, <2>1, <3>1, <3>2 DEF DataTypeOK
  <2> QED
    BY <2>2, <2>3
<1>12. 1 \in 1 .. n /\ n + 1 \in Nat \ {0}
  OBVIOUS
<1> QED
  BY <1>2, <1>7, <1>8, <1>9, <1>10, <1>11, <1>12 DEF Walk

\* The walk along cross references.
LEMMA NextWalkInv == PlanInv /\ [PlanNext]_makePlanVars => WalkInv'
<1> SUFFICES ASSUME PlanInv, [PlanNext]_makePlanVars PROVE WalkInv'
  OBVIOUS
<1> USE DEF dataVars, fieldVars, planVars, sortVars, crossVars, localVars, envVars
<1>1. /\ TypeInv /\ WalkInv /\ DataTypeOK
      /\ map \in [FileNames -> Refs \cup {NULL}]
      /\ Listed \subseteq Refs /\ NULL \notin Refs
      /\ \A i \in Listed : old_name[i] \in FileNames /\ new_name[i] \in FileNames
      /\ More => it \in Listed /\ spec = it
      /\ Unchecked \subseteq Listed
      /\ \A n \in FileNames : map[n] \in Listed \cup {NULL}
  BY StateFacts DEF TypeInv, Shape
<1>2. Crossing = {"cross_reference", "follow", "temporary", "collect"}
  BY DEF Crossing
<1>3. pc \in {"cross_map"} \cup Crossing =>
        \A n \in FileNames : map[n] # NULL => old_name[map[n]] = n
  BY <1>1 DEF WalkInv
<1>a. CASE EndScan
  <2>1. /\ pc \in Scans /\ pc' = NextScan[pc] /\ old_name' = old_name
        /\ map' = IF pc \in KeepsMap THEN map ELSE EmptyMap
    BY <1>a DEF EndScan
  <2>2. /\ pc' \notin {"cross_map", "follow", "temporary", "collect"}
        /\ pc' = "cross_reference" => pc = "cross_map"
    BY <2>1, ScanNames DEF ChecksDone
  <2> QED
    BY <1>2, <1>3, <2>1, <2>2 DEF WalkInv, KeepsMap
<1>b. CASE \/ previous_scan \/ duplicate_scan \/ old_missing_scan \/ no_change_scan
           \/ new_exists_map \/ new_exists_source \/ new_exists_dest
           \/ dest_exists \/ topologic_sort \/ apply_unchecked
  <2>1. /\ pc' = pc
        /\ pc \in Early \cup {"dest_exists", "topologic_sort", "apply_unchecked"}
    BY <1>b DEF previous_scan, duplicate_scan, old_missing_scan, no_change_scan,
                new_exists_map, new_exists_source, new_exists_dest, Refuse, InScan,
                dest_exists, topologic_sort, apply_unchecked, Early
  <2> QED
    BY <1>2, <2>1 DEF WalkInv, Early
<1>c. CASE EndTopologicPass
  <2>1. /\ pc = "topologic_sort" /\ pc' \in {"topologic_sort", "cross_map"}
        /\ pc' = "cross_map" => map' = EmptyMap
    BY <1>c, ScanNames DEF EndTopologicPass
  <2> QED
    BY <1>2, <2>1 DEF WalkInv, EmptyMap
<1>d. CASE cross_map
  <2>1. /\ pc = "cross_map" /\ pc' = pc /\ it \in Listed /\ old_name' = old_name
        /\ map' = map \/ map' = [map EXCEPT ![old_name[it]] = it]
    BY <1>1, <1>d DEF cross_map, InScan
  <2> QED
    BY <1>1, <1>2, <1>3, <2>1 DEF WalkInv
<1>e. CASE cross_reference
  <2>1. /\ Keeps /\ map' = map /\ pc = "cross_reference"
        /\ \/ pc' = "cross_reference"
           \/ pc' = "follow" /\ it \in Unchecked /\ s1' = it /\ s2' = it
    BY <1>1, <1>e DEF cross_reference, Keeps, Unchecked
  <2>2. pc' = "follow" => \E n \in Nat \ {0} : \E p \in [1 .. n -> Unchecked'] :
                            Walk(n, p)' /\ p[1] = s1' /\ p[n] = s2'
    <3> SUFFICES ASSUME pc' = "follow"
                 PROVE  \E n \in Nat \ {0} : \E p \in [1 .. n -> Unchecked'] :
                            Walk(n, p)' /\ p[1] = s1' /\ p[n] = s2'
      OBVIOUS
    <3>0. PICK p : p = [i \in 1 .. 1 |-> it]
      OBVIOUS
    <3>1. p \in [1 .. 1 -> Unchecked'] /\ p[1] = it
      BY <2>1, <3>0, KeepFacts
    <3>2. Walk(1, p)'
      BY <3>1 DEF Walk
    <3>3. 1 \in Nat \ {0} /\ p[1] = s1' /\ p[1] = s2'
      BY <2>1, <3>1
    <3> QED
      BY <3>1, <3>2, <3>3, Zenon
  <2>3. \A n \in FileNames : map'[n] # NULL => old_name'[map'[n]] = n
    BY <1>2, <1>3, <2>1, KeepFacts
  <2> QED
    BY <2>1, <2>2, <2>3 DEF WalkInv
<1>f. CASE FollowToDeadEnd \/ (FollowToStart /\ pc' # "temporary")
  <2>1. pc = "follow" /\ pc' = "cross_reference" /\ UNCHANGED <<old_name, map>>
    BY <1>f, DeadEndFacts
  <2> QED
    BY <1>2, <1>3, <2>1 DEF WalkInv
<1>g. CASE FollowToStart /\ pc' = "temporary"
  <2>1. /\ pc = "follow" /\ Following = s1 /\ ~DeadEnd
        /\ next_spec' = [next_spec EXCEPT ![prev_circular] = NULL]
        /\ next_spec'[s1] # NULL /\ s1' = s1
        /\ UNCHANGED <<status, old_name, new_name, map, printed, scenario>>
    BY <1>g DEF FollowToStart, NextReference
  <2>2. prev_circular = s2 /\ s2 \in Refs /\ s1 \in Refs
    BY <1>1, <2>1, WalkFacts
  <2>3. PICK n \in Nat \ {0} : \E p \in [1 .. n -> Unchecked] :
               Walk(n, p) /\ p[1] = s1 /\ p[n] = s2
    BY <1>1, <2>1 DEF WalkInv
  <2>4. PICK p \in [1 .. n -> Unchecked] : Walk(n, p) /\ p[1] = s1 /\ p[n] = s2
    BY <2>3
  <2>5. Unchecked' = Unchecked
    BY <2>1 DEF Unchecked, Listed
  <2>6. n # 1
    BY <1>1, <2>1, <2>2, <2>4 DEF DataTypeOK
  <2>7. Walk(n, p)'
    <3>1. \A i \in 1 .. n - 1 : i \in 1 .. n /\ n \in 1 .. n /\ i # n
      OBVIOUS
    <3>2. \A i \in 1 .. n - 1 : p[i] # s2 /\ p[i] \in Refs
      BY <1>1, <2>4, <3>1 DEF Walk
    <3>3. \A i \in 1 .. n - 1 : next_spec'[p[i]] = next_spec[p[i]]
      BY <1>1, <2>1, <2>2, <3>2 DEF DataTypeOK
    <3> QED
      BY <2>1, <2>4, <2>5, <3>3 DEF Walk
  <2>8. next_spec'[p[n]] = NULL /\ map'[new_name'[p[n]]] = s1'
    BY <1>1, <2>1, <2>2, <2>4 DEF Following, DataTypeOK
  <2>9. pc' = "temporary" => \E m \in Nat \ {0, 1} : \E w \in [1 .. m -> Unchecked'] :
          /\ Walk(m, w)' /\ w[1] = s1'
          /\ next_spec'[w[m]] = NULL /\ map'[new_name'[w[m]]] = s1'
    BY <2>4, <2>5, <2>6, <2>7, <2>8, <2>1
  <2> QED
    BY <1>2, <1>3, <1>g, <2>1, <2>9 DEF WalkInv
<1>h. CASE FollowOn
  <2>1. pc = "follow" /\ pc' = pc /\ UNCHANGED <<old_name, map>>
    BY <1>h DEF FollowOn
  <2>2. PICK n \in Nat \ {0} : \E p \in [1 .. n -> Unchecked] :
               Walk(n, p) /\ p[1] = s1 /\ p[n] = s2
    BY <1>1, <2>1 DEF WalkInv
  <2>3. PICK p \in [1 .. n -> Unchecked] : Walk(n, p) /\ p[1] = s1 /\ p[n] = s2
    BY <2>2
  <2>q. PICK q : q = [i \in 1 .. n + 1 |-> IF i = n + 1 THEN Following ELSE p[i]]
    OBVIOUS
  <2>4. Walk(n + 1, q)' /\ q[1] = s1' /\ q[n + 1] = s2' /\ n + 1 \in Nat \ {0}
    BY <1>h, <2>3, <2>q, WalkMore
  <2>5. q \in [1 .. n + 1 -> Unchecked']
    BY <2>4 DEF Walk
  <2>6. \E m \in Nat \ {0} : \E w \in [1 .. m -> Unchecked'] :
          Walk(m, w)' /\ w[1] = s1' /\ w[m] = s2'
    BY <2>4, <2>5
  <2> QED
    BY <1>2, <1>3, <2>1, <2>6 DEF WalkInv
<1>i. CASE TryNextTmp
  <2>1. /\ pc = "temporary" /\ pc' = pc /\ Keeps /\ map' = map /\ s1' = s1
    BY <1>i DEF TryNextTmp, Keeps
  <2>2. \A n, p : Walk(n, p)' <=> Walk(n, p)
    BY <2>1, KeepFacts DEF Walk
  <2> QED
    BY <1>1, <1>2, <1>3, <2>1, <2>2, KeepFacts DEF WalkInv
<1>j. CASE ReplaceStart
  <2> DEFINE t == new_file_spec
  <2>1. /\ pc = "temporary" /\ pc' = "collect" /\ map' = map
        /\ s1' = s1 /\ s1 \in Unchecked /\ s2' = next_spec[s1]
        /\ t \in Refs \ Listed
        /\ Unchecked' = Unchecked \ {s1}
        /\ \A s \in Refs \ {s1, t} : next_spec'[s] = next_spec[s]
        /\ \A s \in Refs \ {t} : /\ old_name'[s] = old_name[s]
                                 /\ new_name'[s] = new_name[s]
    BY <1>j, ReplaceStartFacts
  <2> HIDE DEF t
  <2>2. PICK n \in Nat \ {0, 1} : \E p \in [1 .. n -> Unchecked] :
          Walk(n, p) /\ p[1] = s1 /\ next_spec[p[n]] = NULL /\ map[new_name[p[n]]] = s1
    BY <1>1, <2>1 DEF WalkInv
  <2>3. PICK p \in [1 .. n -> Unchecked] :
          Walk(n, p) /\ p[1] = s1 /\ next_spec[p[n]] = NULL /\ map[new_name[p[n]]] = s1
    BY <2>2
  <2>t. n \in Nat \ {0} /\ n # 1
    OBVIOUS
  <2>q. PICK m, q : TailOf(m, q, n, p)
    BY <2>3, <2>t, WalkTail, Zenon
  <2>p. /\ m \in Nat /\ m = n - 1 /\ Walk(m, q)
        /\ q \in [1 .. m -> Unchecked \ {p[1]}]
        /\ n # 1 => q[m] = p[n] /\ next_spec[p[1]] = q[1]
    BY <2>q DEF TailOf
  <2>4. /\ Walk(m, q) /\ m \in Nat /\ m # 0
        /\ q \in [1 .. m -> Unchecked \ {s1}]
        /\ q[1] = next_spec[s1] /\ q[m] = p[n]
    BY <2>3, <2>t, <2>p
  <2>5. \A i \in 1 .. m : q[i] \in Unchecked \ {s1} /\ q[i] \in Refs \ {s1, t}
    BY <1>1, <2>1, <2>4
  <2>6. Walk(m, q)'
    <3>1. \A i \in 1 .. m - 1 : i \in 1 .. m
      BY <2>4
    <3>2. \A i \in 1 .. m - 1 : /\ next_spec'[q[i]] = q[i + 1]
                                /\ map'[new_name'[q[i]]] = q[i + 1]
      <4> SUFFICES ASSUME NEW i \in 1 .. m - 1
                   PROVE  /\ next_spec'[q[i]] = q[i + 1]
                          /\ map'[new_name'[q[i]]] = q[i + 1]
        OBVIOUS
      <4>1. next_spec[q[i]] = q[i + 1] /\ map[new_name[q[i]]] = q[i + 1]
        BY <2>4 DEF Walk
      <4>2. q[i] \in Refs \ {s1, t}
        BY <2>5, <3>1
      <4>3. next_spec'[q[i]] = next_spec[q[i]] /\ new_name'[q[i]] = new_name[q[i]]
        BY <2>1, <4>2
      <4> QED
        BY <2>1, <4>1, <4>3
    <3>3. /\ q \in [1 .. m -> Unchecked']
          /\ \A i, j \in 1 .. m : q[i] = q[j] => i = j
      BY <2>1, <2>4 DEF Walk
    <3> QED
      BY <3>2, <3>3 DEF Walk
  <2>7. m \in 1 .. m
    BY <2>4
  <2>8. q[1] = s2' /\ next_spec'[q[m]] = NULL /\ map'[new_name'[q[m]]] = s1'
    BY <2>1, <2>3, <2>4, <2>5, <2>7
  <2>9. \A x \in FileNames : map'[x] # NULL => old_name'[map'[x]] = x
    BY <1>1, <1>2, <1>3, <2>1
  <2>10. \E k \in Nat : \E w \in [1 .. k -> Unchecked'] :
           /\ Walk(k, w)'
           /\ IF k = 0 THEN s2' = NULL
              ELSE w[1] = s2' /\ next_spec'[w[k]] = NULL /\ map'[new_name'[w[k]]] = s1'
    BY <2>1, <2>4, <2>6, <2>8
  <2> QED
    BY <2>1, <2>9, <2>10 DEF WalkInv
<1>k. CASE CollectCircular
  <2>1. /\ pc = "collect" /\ pc' = pc /\ map' = map /\ s1' = s1 /\ s2 # NULL
        /\ s2' = next_spec[s2] /\ Unchecked' = Unchecked \ {s2}
        /\ UNCHANGED <<old_name, new_name, next_spec>>
    BY <1>k, CollectFacts
  <2>2. PICK n \in Nat : \E p \in [1 .. n -> Unchecked] :
          /\ Walk(n, p)
          /\ IF n = 0 THEN s2 = NULL
             ELSE p[1] = s2 /\ next_spec[p[n]] = NULL /\ map[new_name[p[n]]] = s1
    BY <1>1, <2>1 DEF WalkInv
  <2>3. n # 0 /\ n \in Nat \ {0}
    BY <2>1, <2>2
  <2>4. PICK p \in [1 .. n -> Unchecked] :
          Walk(n, p) /\ p[1] = s2 /\ next_spec[p[n]] = NULL /\ map[new_name[p[n]]] = s1
    BY <2>2, <2>3
  <2>q. PICK m, q : TailOf(m, q, n, p)
    BY <2>3, <2>4, WalkTail, Zenon
  <2>p. /\ m \in Nat /\ m = n - 1 /\ Walk(m, q)
        /\ q \in [1 .. m -> Unchecked \ {p[1]}]
        /\ n # 1 => q[m] = p[n] /\ next_spec[p[1]] = q[1]
    BY <2>q DEF TailOf
  <2>5. /\ Walk(m, q) /\ m \in Nat
        /\ q \in [1 .. m -> Unchecked \ {s2}]
        /\ n # 1 => q[1] = next_spec[s2] /\ q[m] = p[n]
    BY <2>4, <2>p
  <2>6. (m = 0 <=> n = 1)
    BY <2>3, <2>p
  <2>7. Walk(m, q)'
    BY <2>1, <2>5 DEF Walk
  <2>8. IF m = 0 THEN s2' = NULL
        ELSE q[1] = s2' /\ next_spec'[q[m]] = NULL /\ map'[new_name'[q[m]]] = s1'
    BY <2>1, <2>4, <2>5, <2>6
  <2>9. \E k \in Nat : \E w \in [1 .. k -> Unchecked'] :
          /\ Walk(k, w)'
          /\ IF k = 0 THEN s2' = NULL
             ELSE w[1] = s2' /\ next_spec'[w[k]] = NULL /\ map'[new_name'[w[k]]] = s1'
    BY <2>1, <2>5, <2>7, <2>8
  <2> QED
    BY <1>2, <1>3, <2>1, <2>9 DEF WalkInv
<1>l. CASE AddExtraRename
  <2> DEFINE e == new_file_spec
  <2>1. /\ pc = "collect" /\ pc' = "cross_reference" /\ map' = map
        /\ e \in Refs \ Listed
        /\ \A s \in Refs \ {e} : old_name'[s] = old_name[s]
    BY <1>l, AddExtraFacts
  <2> HIDE DEF e
  <2>2. \A x \in FileNames : map'[x] # NULL => old_name'[map'[x]] = x
    BY <1>1, <1>2, <1>3, <2>1
  <2> QED
    BY <2>1, <2>2 DEF WalkInv
<1>m. CASE OtherProcess \/ PlanDone \/ UNCHANGED makePlanVars
  <2>1. Keeps /\ UNCHANGED <<pc, map, s1, s2>>
    BY <1>m DEF OtherProcess, PlanDone, makePlanVars, Keeps
  <2>2. \A n, p : Walk(n, p)' <=> Walk(n, p)
    BY <2>1, KeepFacts DEF Walk
  <2> QED
    BY <1>1, <2>1, <2>2, KeepFacts DEF WalkInv
<1> QED
  BY <1>a, <1>b, <1>c, <1>d, <1>e, <1>f, <1>g, <1>h, <1>i, <1>j, <1>k, <1>l, <1>m
     DEF PlanNext, make_plan, CrossReferenceResolve

-----------------------------------------------------------------------------
(***************************************************************************)
(* The links of the plan.  They stay as they are when the plan does, and   *)
(* so do the links of its members.                                         *)
(***************************************************************************)
LEMMA LinksKept ==
  ASSUME PlanInv, pc # "collect", ok' = ok,
         \A s \in Pending : prev_spec'[s] = prev_spec[s] /\ next_spec'[s] = next_spec[s]
  PROVE  NoRepeat' /\ Sorted' /\ Mirrored'
<1>1. NoRepeat /\ Sorted /\ Mirrored
  BY StateFacts DEF LinksInv
<1>2. Pending' = Pending
  BY DEF Pending
<1>3. \A i \in 1 .. Len(ok) : ok[i] \in Pending
  BY DEF Pending, Elems
<1>4. Sorted'
  BY <1>1, <1>3 DEF Sorted
<1>5. Mirrored'
  BY <1>1, <1>2 DEF Mirrored
<1>6. NoRepeat'
  BY <1>1 DEF NoRepeat
<1> QED
  BY <1>4, <1>5, <1>6

\* A rename goes to the end of the plan, with or without one to wait for.
LEMMA AcceptLinks ==
  ASSUME PlanInv, pc \notin Crossing, NEW x \in Unchecked, Accepts(x),
         \/ UNCHANGED <<prev_spec, next_spec>>
         \/ \E d \in Pending : /\ next_spec[d] = NULL
                               /\ prev_spec' = [prev_spec EXCEPT ![x] = d]
                               /\ next_spec' = [next_spec EXCEPT ![d] = x]
  PROVE  NoRepeat' /\ Sorted' /\ Mirrored'
<1>1. /\ NoRepeat /\ Sorted /\ Mirrored
      /\ prev_spec[x] = NULL /\ next_spec[x] = NULL
      /\ DataTypeOK /\ Pending \subseteq Refs /\ NULL \notin Refs
  BY StateFacts DEF LinksInv, StatusInv, Crossing
<1>2. /\ x \in Refs /\ x \notin Pending /\ Pending' = Pending \cup {x}
      /\ Len(ok) \in Nat /\ Len(ok') = Len(ok) + 1 /\ ok'[Len(ok) + 1] = x
      /\ \A i \in 1 .. Len(ok) : ok'[i] = ok[i] /\ ok[i] \in Pending
  BY AcceptFacts
<1>3. \A i \in 1 .. Len(ok) + 1 : i \in 1 .. Len(ok) \/ i = Len(ok) + 1
  BY <1>2
<1>4. NoRepeat'
  BY <1>1, <1>2, <1>3 DEF NoRepeat
<1>5. /\ prev_spec'[x] # NULL => /\ prev_spec'[x] \in Pending
                                 /\ next_spec'[prev_spec'[x]] = x
      /\ next_spec'[x] = NULL
      /\ \A s \in Pending : /\ prev_spec'[s] = prev_spec[s]
                            /\ next_spec'[s] # next_spec[s] =>
                                 next_spec[s] = NULL /\ next_spec'[s] = x /\ prev_spec'[x] = s
  BY <1>1, <1>2 DEF DataTypeOK
<1>6. Sorted'
  <2> SUFFICES ASSUME NEW i \in 1 .. Len(ok) + 1, prev_spec'[ok'[i]] # NULL
               PROVE  \E j \in 1 .. i - 1 : ok'[j] = prev_spec'[ok'[i]]
    BY <1>2 DEF Sorted
  <2>1. CASE i = Len(ok) + 1
    <3>1. PICK j \in 1 .. Len(ok) : ok[j] = prev_spec'[x]
      BY <1>2, <1>5, <2>1 DEF Pending, Elems
    <3> QED
      BY <1>2, <2>1, <3>1
  <2>2. CASE i \in 1 .. Len(ok)
    <3>1. PICK j \in 1 .. i - 1 : ok[j] = prev_spec[ok[i]]
      BY <1>1, <1>2, <1>5, <2>2 DEF Sorted
    <3>2. j \in 1 .. Len(ok)
      BY <1>2, <2>2
    <3> QED
      BY <1>2, <1>5, <2>2, <3>1, <3>2
  <2> QED
    BY <1>3, <2>1, <2>2
<1>7. Mirrored'
  <2> SUFFICES ASSUME NEW s \in Pending \cup {x}
               PROVE  /\ prev_spec'[s] # NULL => /\ prev_spec'[s] \in Pending \cup {x}
                                                 /\ next_spec'[prev_spec'[s]] = s
                      /\ next_spec'[s] # NULL => /\ next_spec'[s] \in Pending \cup {x}
                                                 /\ prev_spec'[next_spec'[s]] = s
    BY <1>2 DEF Mirrored
  <2>1. CASE s = x
    BY <1>5, <2>1
  <2>2. CASE s \in Pending
    <3>1. ASSUME prev_spec'[s] # NULL
          PROVE  prev_spec'[s] \in Pending /\ next_spec'[prev_spec'[s]] = s
      <4>1. prev_spec'[s] = prev_spec[s] /\ prev_spec[s] \in Pending /\ next_spec[prev_spec[s]] = s
        BY <1>1, <1>5, <2>2, <3>1 DEF Mirrored
      <4>2. s # NULL
        BY <1>1, <2>2
      <4> QED
        BY <1>5, <4>1, <4>2
    <3>2. ASSUME next_spec'[s] # NULL
          PROVE  next_spec'[s] \in Pending \cup {x} /\ prev_spec'[next_spec'[s]] = s
      <4>1. CASE next_spec'[s] = next_spec[s]
        BY <1>1, <1>5, <2>2, <3>2, <4>1 DEF Mirrored
      <4>2. CASE next_spec'[s] # next_spec[s]
        BY <1>5, <2>2, <4>2
      <4> QED
        BY <4>1, <4>2
    <3> QED
      BY <3>1, <3>2
  <2> QED
    BY <2>1, <2>2
<1> QED
  BY <1>4, <1>6, <1>7

\* A rename goes to the front of the plan.
LEMMA FrontFacts ==
  ASSUME NEW x \in Refs, ok \in Seq(Refs), NoRepeat, x \notin Pending, ok' = <<x>> \o ok
  PROVE  /\ Len(ok) \in Nat /\ Len(ok') = Len(ok) + 1
         /\ ok'[1] = x
         /\ \A i \in 1 .. Len(ok) : i + 1 \in 1 .. Len(ok') /\ ok'[i + 1] = ok[i]
         /\ \A i \in 1 .. Len(ok') : i = 1 \/ (i - 1 \in 1 .. Len(ok) /\ ok'[i] = ok[i - 1])
         /\ NoRepeat'
<1>1. /\ Len(ok) \in Nat /\ Len(ok') = Len(ok) + 1
      /\ ok'[1] = x /\ \A i \in 1 .. Len(ok) : ok'[i + 1] = ok[i]
  BY ConsElems
<1>2. \A i \in 1 .. Len(ok) : i + 1 \in 1 .. Len(ok')
  BY <1>1
<1>3. \A i \in 1 .. Len(ok') : i = 1 \/ (i - 1 \in 1 .. Len(ok) /\ ok'[i] = ok[i - 1])
  <2> SUFFICES ASSUME NEW i \in 1 .. Len(ok'), i # 1
               PROVE  i - 1 \in 1 .. Len(ok) /\ ok'[i] = ok[i - 1]
    OBVIOUS
  <2>1. i - 1 \in 1 .. Len(ok) /\ (i - 1) + 1 = i
    BY <1>1
  <2> QED
    BY <1>1, <2>1
<1>4. NoRepeat'
  <2> SUFFICES ASSUME NEW i \in 1 .. Len(ok'), NEW j \in 1 .. Len(ok'), ok'[i] = ok'[j]
               PROVE  i = j
    BY DEF NoRepeat
  <2>1. \A m \in 1 .. Len(ok) : ok[m] # x
    BY DEF Pending, Elems
  <2>2. CASE i = 1 \/ j = 1
    BY <1>1, <1>3, <2>1, <2>2
  <2>3. CASE i # 1 /\ j # 1
    <3>1. /\ i - 1 \in 1 .. Len(ok) /\ j - 1 \in 1 .. Len(ok)
          /\ ok[i - 1] = ok[j - 1]
      BY <1>3, <2>3
    <3>2. i - 1 = j - 1
      BY <3>1 DEF NoRepeat
    <3> QED
      BY <3>2
  <2> QED
    BY <2>2, <2>3
<1> QED
  BY <1>1, <1>2, <1>3, <1>4

\* What stands after some member of the plan stays after it.
LEMMA FrontRest ==
  ASSUME NEW x \in Refs, ok \in Seq(Refs), NoRepeat, x \notin Pending, ok' = <<x>> \o ok
  PROVE  /\ Rest(1)' = Pending
         /\ \A k \in 1 .. Len(ok) : Rest(k + 1)' = Rest(k)
<1>1. /\ Len(ok) \in Nat /\ Len(ok') = Len(ok) + 1
      /\ \A i \in 1 .. Len(ok) : i + 1 \in 1 .. Len(ok') /\ ok'[i + 1] = ok[i]
      /\ \A i \in 1 .. Len(ok') : i = 1 \/ (i - 1 \in 1 .. Len(ok) /\ ok'[i] = ok[i - 1])
  BY FrontFacts
<1>2. ASSUME NEW k \in 0 .. Len(ok)
      PROVE  {ok'[i] : i \in (k + 1) + 1 .. Len(ok')} = {ok[i] : i \in k + 1 .. Len(ok)}
  <2>1. ASSUME NEW i \in (k + 1) + 1 .. Len(ok')
        PROVE  i - 1 \in k + 1 .. Len(ok) /\ ok'[i] = ok[i - 1]
    <3>1. i \in 1 .. Len(ok') /\ i # 1 /\ i - 1 \in k + 1 .. Len(ok)
      BY <1>1
    <3> QED
      BY <1>1, <3>1
  <2>2. \A i \in k + 1 .. Len(ok) : i + 1 \in (k + 1) + 1 .. Len(ok') /\ ok'[i + 1] = ok[i]
    BY <1>1
  <2> QED
    BY <2>1, <2>2
<1>3. ASSUME NEW k \in 1 .. Len(ok) PROVE Rest(k + 1)' = Rest(k)
  BY <1>2, <1>3 DEF Rest
<1>4. Rest(1)' = Pending
  <2>1. /\ 0 \in 0 .. Len(ok) /\ (0 + 1) + 1 = 2 /\ 1 + 1 = 2 /\ 0 + 1 = 1
    BY <1>1
  <2>2. {ok'[i] : i \in 2 .. Len(ok')} = {ok[i] : i \in 1 .. Len(ok)}
    BY <1>2, <2>1
  <2> QED
    BY <2>1, <2>2 DEF Rest, Pending, Elems
<1> QED
  BY <1>3, <1>4

\* The links of the plan.
LEMMA NextLinksInv == PlanInv /\ [PlanNext]_makePlanVars => LinksInv'
<1> SUFFICES ASSUME PlanInv, [PlanNext]_makePlanVars PROVE LinksInv'
  OBVIOUS
<1> USE DEF dataVars, fieldVars, planVars, sortVars, crossVars, localVars, envVars
<1>1. /\ StatusInv /\ LinksInv /\ DataTypeOK
      /\ Listed \subseteq Refs /\ NULL \notin Refs /\ Unchecked \subseteq Listed
      /\ Pending \subseteq Refs /\ ok \in Seq(Refs) /\ Pending \cap Unchecked = {}
  BY StateFacts
<1>2. /\ NoRepeat
      /\ pc # "collect" => Sorted /\ Mirrored
      /\ pc = "collect" => \E k \in 1 .. Len(ok) : ok[k] = prev_circular /\ RestLinked(k)
  BY <1>1 DEF LinksInv
<1>3. \A i \in 1 .. Len(ok) : ok[i] \in Pending
  BY DEF Pending, Elems
<1>a. CASE \/ EndScan \/ previous_scan \/ duplicate_scan \/ old_missing_scan
           \/ no_change_scan \/ EndTopologicPass \/ cross_map \/ cross_reference
           \/ TryNextTmp \/ new_exists_map \/ new_exists_source \/ new_exists_dest
  <2>1. pc # "collect" /\ pc' # "collect" /\ UNCHANGED <<prev_spec, next_spec>>
    BY <1>a, ScanNames
       DEF EndScan, previous_scan, duplicate_scan, old_missing_scan, no_change_scan,
           EndTopologicPass, cross_map, cross_reference, TryNextTmp, new_exists_map,
           new_exists_source, new_exists_dest, Refuse, InScan, ChecksDone
  <2>2. ok' = ok
    <3>1. CASE previous_scan
      <4>1. spec \in Unchecked
        BY <1>1, <3>1, StateFacts DEF previous_scan, InScan, StatusInv
      <4> QED
        BY <3>1, <4>1 DEF previous_scan, Unchecked, OkStatus
    <3>2. CASE ~previous_scan
      BY <1>a, <3>2 DEF EndScan, duplicate_scan, old_missing_scan, no_change_scan,
             EndTopologicPass, cross_map, cross_reference, TryNextTmp, new_exists_map,
             new_exists_source, new_exists_dest, Refuse
    <3> QED
      BY <3>1, <3>2
  <2> QED
    BY <2>1, <2>2, LinksKept DEF LinksInv
<1>b. CASE dest_exists \/ topologic_sort \/ apply_unchecked
  <2>1. /\ pc' = pc /\ pc \notin Crossing
        /\ \/ Keeps
           \/ \E x \in Unchecked :
                /\ Accepts(x)
                /\ \/ UNCHANGED <<prev_spec, next_spec>>
                   \/ \E d \in Pending : /\ next_spec[d] = NULL
                                         /\ prev_spec' = [prev_spec EXCEPT ![x] = d]
                                         /\ next_spec' = [next_spec EXCEPT ![d] = x]
    BY <1>b, AcceptingScans DEF Crossing
  <2>2. pc # "collect"
    BY <2>1 DEF Crossing
  <2>3. CASE Keeps
    BY <2>1, <2>2, <2>3, LinksKept DEF LinksInv, Keeps
  <2>4. CASE ~Keeps
    BY <2>1, <2>2, <2>4, AcceptLinks DEF LinksInv
  <2> QED
    BY <2>3, <2>4
<1>c. CASE FollowToDeadEnd \/ (FollowToStart /\ pc' # "temporary")
  <2>1. /\ pc = "follow" /\ pc' = "cross_reference"
        /\ \A s \in Refs \ Unchecked : next_spec'[s] = next_spec[s]
        /\ UNCHANGED <<prev_spec, ok>>
    BY <1>c, DeadEndFacts
  <2> QED
    BY <1>1, <2>1, LinksKept DEF LinksInv
<1>d. CASE (FollowToStart /\ pc' = "temporary") \/ FollowOn
  <2>1. /\ UNCHANGED <<ok, prev_spec>> /\ pc = "follow" /\ pc' # "collect"
        /\ \E x : next_spec' = [next_spec EXCEPT ![prev_circular] = x]
    BY <1>d DEF FollowToStart, FollowOn
  <2>2. prev_circular \in Unchecked
    BY <2>1, WalkFacts
  <2>3. \A s \in Pending : next_spec'[s] = next_spec[s]
    BY <1>1, <2>1, <2>2 DEF DataTypeOK
  <2> QED
    BY <2>1, <2>3, LinksKept DEF LinksInv
<1>e. CASE ReplaceStart
  <2> DEFINE t == new_file_spec
  <2>1. /\ pc = "temporary" /\ pc' = "collect" /\ prev_circular' = t
        /\ s1 \in Unchecked
        /\ t \in Refs \ Listed /\ t \notin Pending
        /\ \A s \in Refs \ {s1, t} : /\ next_spec'[s] = next_spec[s]
                                     /\ prev_spec'[s] = prev_spec[s]
        /\ ok' = <<t>> \o ok
    BY <1>e, ReplaceStartFacts
  <2> HIDE DEF t
  <2>2. /\ Len(ok) \in Nat /\ Len(ok') = Len(ok) + 1
        /\ ok'[1] = t
        /\ \A i \in 1 .. Len(ok) : i + 1 \in 1 .. Len(ok') /\ ok'[i + 1] = ok[i]
        /\ NoRepeat'
    BY <1>1, <1>2, <2>1, FrontFacts
  <2>3. Sorted /\ Mirrored
    BY <1>2, <2>1
  <2>4. \A s \in Pending : next_spec'[s] = next_spec[s] /\ prev_spec'[s] = prev_spec[s]
    BY <1>1, <2>1
  <2>5. \A i \in 2 .. Len(ok') : i - 1 \in 1 .. Len(ok) /\ ok'[i] = ok[i - 1]
    <3> SUFFICES ASSUME NEW i \in 2 .. Len(ok')
                 PROVE  i - 1 \in 1 .. Len(ok) /\ ok'[i] = ok[i - 1]
      OBVIOUS
    <3>1. i - 1 \in 1 .. Len(ok) /\ (i - 1) + 1 = i
      BY <2>2
    <3> QED
      BY <2>2, <3>1
  <2>6. Rest(1)' = Pending
    BY <1>1, <1>2, <2>1, FrontRest
  <2>7. \A i \in 2 .. Len(ok') : prev_spec'[ok'[i]] # NULL =>
          \E j \in 2 .. i - 1 : ok'[j] = prev_spec'[ok'[i]]
    <3> SUFFICES ASSUME NEW i \in 2 .. Len(ok'), prev_spec'[ok'[i]] # NULL
                 PROVE  \E j \in 2 .. i - 1 : ok'[j] = prev_spec'[ok'[i]]
      OBVIOUS
    <3>1. i - 1 \in 1 .. Len(ok) /\ ok'[i] = ok[i - 1]
      BY <2>5
    <3>2. prev_spec'[ok'[i]] = prev_spec[ok[i - 1]]
      BY <1>3, <2>4, <3>1
    <3>3. PICK j \in 1 .. (i - 1) - 1 : ok[j] = prev_spec[ok[i - 1]]
      BY <2>3, <3>1, <3>2 DEF Sorted
    <3>4. j + 1 \in 2 .. i - 1 /\ j \in 1 .. Len(ok)
      BY <2>2, <3>1
    <3> QED
      BY <2>2, <3>2, <3>3, <3>4
  <2>8. \A s \in Pending :
          /\ prev_spec'[s] # NULL => prev_spec'[s] \in Pending /\ next_spec'[prev_spec'[s]] = s
          /\ next_spec'[s] # NULL => next_spec'[s] \in Pending /\ prev_spec'[next_spec'[s]] = s
    BY <2>3, <2>4 DEF Mirrored
  <2>9. RestLinked(1)'
    BY <2>6, <2>7, <2>8 DEF RestLinked
  <2>10. 1 \in 1 .. Len(ok')
    BY <2>2
  <2> QED
    BY <2>1, <2>2, <2>9, <2>10 DEF LinksInv
<1>f. CASE CollectCircular
  <2>1. /\ pc = "collect" /\ pc' = pc /\ prev_circular' = prev_circular
        /\ s2 \notin Pending /\ s2 \in Refs
        /\ ok' = <<s2>> \o ok
        /\ UNCHANGED <<prev_spec, next_spec>>
    BY <1>f, CollectFacts
  <2>2. /\ Len(ok) \in Nat /\ Len(ok') = Len(ok) + 1
        /\ \A i \in 1 .. Len(ok) : i + 1 \in 1 .. Len(ok') /\ ok'[i + 1] = ok[i]
        /\ \A i \in 1 .. Len(ok') : i = 1 \/ (i - 1 \in 1 .. Len(ok) /\ ok'[i] = ok[i - 1])
        /\ NoRepeat'
    BY <1>1, <1>2, <2>1, FrontFacts
  <2>3. PICK k \in 1 .. Len(ok) : ok[k] = prev_circular /\ RestLinked(k)
    BY <1>2, <2>1
  <2>4. k + 1 \in 1 .. Len(ok') /\ ok'[k + 1] = prev_circular'
    BY <2>1, <2>2, <2>3
  <2>5. \A i \in (k + 1) + 1 .. Len(ok') : i - 1 \in k + 1 .. Len(ok) /\ ok'[i] = ok[i - 1]
    <3> SUFFICES ASSUME NEW i \in (k + 1) + 1 .. Len(ok')
                 PROVE  i - 1 \in k + 1 .. Len(ok) /\ ok'[i] = ok[i - 1]
      OBVIOUS
    <3>1. i \in 1 .. Len(ok') /\ i # 1 /\ i - 1 \in k + 1 .. Len(ok)
      BY <2>2
    <3>2. ok'[i] = IF i = 1 THEN ok'[1] ELSE ok[i - 1]
      BY <2>2, <3>1
    <3> QED
      BY <3>1, <3>2
  <2>6. Rest(k + 1)' = Rest(k)
    BY <1>1, <1>2, <2>1, FrontRest
  <2>7. \A i \in (k + 1) + 1 .. Len(ok') : prev_spec'[ok'[i]] # NULL =>
          \E j \in (k + 1) + 1 .. i - 1 : ok'[j] = prev_spec'[ok'[i]]
    <3> SUFFICES ASSUME NEW i \in (k + 1) + 1 .. Len(ok'), prev_spec'[ok'[i]] # NULL
                 PROVE  \E j \in (k + 1) + 1 .. i - 1 : ok'[j] = prev_spec'[ok'[i]]
      OBVIOUS
    <3>1. i - 1 \in k + 1 .. Len(ok) /\ ok'[i] = ok[i - 1]
      BY <2>5
    <3>2. PICK j \in k + 1 .. (i - 1) - 1 : ok[j] = prev_spec[ok[i - 1]]
      BY <2>1, <2>3, <3>1 DEF RestLinked
    <3>3. i \in Int /\ j \in Int /\ k \in Int
      BY <2>2
    <3>4. k + 1 <= j /\ j <= (i - 1) - 1 /\ i - 1 <= Len(ok) /\ 1 <= k
      BY <2>2, <3>1, <3>3
    <3>5. j + 1 \in (k + 1) + 1 .. i - 1 /\ j \in 1 .. Len(ok)
      BY <2>2, <3>3, <3>4
    <3> QED
      BY <2>1, <2>2, <3>1, <3>2, <3>5
  <2>8. RestLinked(k + 1)'
    BY <2>1, <2>3, <2>6, <2>7 DEF RestLinked
  <2> QED
    BY <2>1, <2>2, <2>4, <2>8 DEF LinksInv
<1>g. CASE AddExtraRename
  <2>k. PICK k \in 1 .. Len(ok) : ok[k] = prev_circular /\ RestLinked(k)
    BY <1>2, <1>g DEF AddExtraRename
  <2>e. PICK e : e = new_file_spec
    OBVIOUS
  <2>1. /\ pc' = "cross_reference" /\ e \in Refs /\ e \notin Pending
        /\ Pending' = Pending \cup {e}
        /\ prev_spec'[e] = NULL /\ next_spec'[e] = ok[1]
        /\ \A i \in 1 .. k :
             /\ prev_spec'[ok[i]] = IF i = 1 THEN e ELSE ok[i - 1]
             /\ next_spec'[ok[i]] = IF i = k THEN NULL ELSE ok[i + 1]
        /\ \A s \in Refs \ {e} : (\A i \in 1 .. k : ok[i] # s) =>
             prev_spec'[s] = prev_spec[s] /\ next_spec'[s] = next_spec[s]
        /\ ok' = <<e>> \o ok
    <3>1. k = CHOOSE i \in 1 .. Len(ok) : ok[i] = prev_circular
      BY <1>2, <2>k DEF NoRepeat
    <3> QED
      BY <1>g, <2>e, <3>1, AddExtraFacts
  <2>2. /\ Len(ok) \in Nat /\ Len(ok') = Len(ok) + 1 /\ ok'[1] = e
        /\ \A i \in 1 .. Len(ok) : i + 1 \in 1 .. Len(ok') /\ ok'[i + 1] = ok[i]
        /\ \A i \in 1 .. Len(ok') : i = 1 \/ (i - 1 \in 1 .. Len(ok) /\ ok'[i] = ok[i - 1])
        /\ NoRepeat'
    BY <1>1, <1>2, <2>1, FrontFacts
  <2>3. \A i \in k + 1 .. Len(ok) : /\ i \in 1 .. Len(ok) /\ ok[i] \in Rest(k)
                                    /\ prev_spec'[ok[i]] = prev_spec[ok[i]]
                                    /\ next_spec'[ok[i]] = next_spec[ok[i]]
    <3> SUFFICES ASSUME NEW i \in k + 1 .. Len(ok)
                 PROVE  /\ i \in 1 .. Len(ok) /\ ok[i] \in Rest(k)
                        /\ prev_spec'[ok[i]] = prev_spec[ok[i]]
                        /\ next_spec'[ok[i]] = next_spec[ok[i]]
      OBVIOUS
    <3>1. i \in 1 .. Len(ok) /\ \A m \in 1 .. k : m \in 1 .. Len(ok) /\ m # i
      OBVIOUS
    <3>2. \A m \in 1 .. k : ok[m] # ok[i]
      BY <1>2, <3>1 DEF NoRepeat
    <3>3. ok[i] \in Refs \ {e}
      BY <1>1, <1>3, <2>1, <3>1
    <3> QED
      BY <2>1, <3>1, <3>2, <3>3 DEF Rest
  <2>4. \A s \in Rest(k) : /\ prev_spec'[s] = prev_spec[s] /\ next_spec'[s] = next_spec[s]
                           /\ s \in Pending
    BY <1>3, <2>3 DEF Rest
  <2>5. \A i \in 1 .. Len(ok) : i \in 1 .. k \/ i \in k + 1 .. Len(ok)
    OBVIOUS
  <2>6. Sorted'
    <3> SUFFICES ASSUME NEW i \in 1 .. Len(ok'), prev_spec'[ok'[i]] # NULL
                 PROVE  \E j \in 1 .. i - 1 : ok'[j] = prev_spec'[ok'[i]]
      BY DEF Sorted
    <3>1. i # 1 /\ i - 1 \in 1 .. Len(ok) /\ ok'[i] = ok[i - 1]
      BY <2>1, <2>2
    <3>2. CASE i - 1 = 1
      <4>1. prev_spec'[ok'[i]] = e /\ 1 \in 1 .. i - 1
        BY <2>1, <2>k, <3>1, <3>2
      <4> QED
        BY <2>2, <4>1
    <3>3. CASE i - 1 # 1 /\ i - 1 \in 1 .. k
      <4>1. prev_spec'[ok'[i]] = ok[(i - 1) - 1]
        BY <2>1, <3>1, <3>3
      <4>2. i - 1 \in 1 .. Len(ok') /\ i - 1 # 1 /\ i - 1 \in 1 .. i - 1
        BY <2>2, <3>1, <3>3
      <4>3. ok'[i - 1] = ok[(i - 1) - 1]
        BY <2>2, <4>2
      <4> QED
        BY <4>1, <4>2, <4>3
    <3>4. CASE i - 1 \in k + 1 .. Len(ok)
      <4>1. PICK j \in k + 1 .. (i - 1) - 1 : ok[j] = prev_spec[ok[i - 1]]
        BY <2>3, <2>k, <3>1, <3>4 DEF RestLinked
      <4>2. j + 1 \in 1 .. i - 1 /\ j \in 1 .. Len(ok)
        BY <2>2, <3>1
      <4> QED
        BY <2>2, <2>3, <3>1, <3>4, <4>1, <4>2
    <3> QED
      BY <2>5, <3>1, <3>2, <3>3, <3>4
  <2>7. Mirrored'
    <3> DEFINE Linked(s) ==
                 /\ prev_spec'[s] # NULL => /\ prev_spec'[s] \in Pending \cup {e}
                                            /\ next_spec'[prev_spec'[s]] = s
                 /\ next_spec'[s] # NULL => /\ next_spec'[s] \in Pending \cup {e}
                                            /\ prev_spec'[next_spec'[s]] = s
    <3>1. Linked(e)
      <4>1. 1 \in 1 .. k /\ 1 \in 1 .. Len(ok)
        BY <2>k
      <4> QED
        BY <1>3, <2>1, <4>1
    <3>2. ASSUME NEW i \in 1 .. k PROVE Linked(ok[i])
      <4>1. i \in 1 .. Len(ok)
        BY <2>k
      <4>2. CASE i = 1
        <5>1. prev_spec'[ok[i]] = e /\ next_spec'[e] = ok[i]
          BY <2>1, <4>2
        <5>2. CASE i = k
          BY <2>1, <5>1, <5>2
        <5>3. CASE i # k
          <6>1. i + 1 \in 1 .. k /\ i + 1 # 1 /\ (i + 1) - 1 = i /\ i + 1 \in 1 .. Len(ok)
            BY <2>k, <5>3
          <6>2. next_spec'[ok[i]] = ok[i + 1] /\ prev_spec'[ok[i + 1]] = ok[i]
            BY <2>1, <5>3, <6>1
          <6> QED
            BY <1>3, <5>1, <6>1, <6>2
        <5> QED
          BY <5>2, <5>3
      <4>3. CASE i # 1
        <5>1. i - 1 \in 1 .. k /\ i - 1 # k /\ (i - 1) + 1 = i /\ i - 1 \in 1 .. Len(ok)
          BY <2>k, <4>3
        <5>2. prev_spec'[ok[i]] = ok[i - 1] /\ next_spec'[ok[i - 1]] = ok[i]
          BY <2>1, <4>3, <5>1
        <5>3. CASE i = k
          BY <1>3, <2>1, <5>1, <5>2, <5>3
        <5>4. CASE i # k
          <6>1. i + 1 \in 1 .. k /\ i + 1 # 1 /\ (i + 1) - 1 = i /\ i + 1 \in 1 .. Len(ok)
            BY <2>k, <5>4
          <6>2. next_spec'[ok[i]] = ok[i + 1] /\ prev_spec'[ok[i + 1]] = ok[i]
            BY <2>1, <5>4, <6>1
          <6> QED
            BY <1>3, <5>1, <5>2, <6>1, <6>2
        <5> QED
          BY <5>3, <5>4
      <4> QED
        BY <4>2, <4>3
    <3>3. ASSUME NEW s \in Rest(k) PROVE Linked(s)
      BY <2>4, <2>k DEF RestLinked
    <3>4. \A s \in Pending : (\E i \in 1 .. k : s = ok[i]) \/ s \in Rest(k)
      BY <2>5 DEF Pending, Elems, Rest
    <3>5. \A s \in Pending \cup {e} : Linked(s)
      BY <3>1, <3>2, <3>3, <3>4
    <3> QED
      BY <2>1, <3>5 DEF Mirrored
  <2> QED
    BY <2>1, <2>2, <2>6, <2>7 DEF LinksInv
<1>h. CASE OtherProcess \/ PlanDone \/ UNCHANGED makePlanVars
  <2>1. Keeps /\ UNCHANGED <<pc, prev_circular>>
    BY <1>h DEF OtherProcess, PlanDone, makePlanVars, Keeps
  <2>2. pc # "collect" => NoRepeat' /\ Sorted' /\ Mirrored'
    BY <2>1, LinksKept DEF Keeps
  <2>3. pc = "collect" => \E k \in 1 .. Len(ok') : ok'[k] = prev_circular' /\ RestLinked(k)'
    <3>1. UNCHANGED <<ok, prev_spec, next_spec>>
      BY <2>1 DEF Keeps
    <3>2. ASSUME NEW k \in 1 .. Len(ok), RestLinked(k) PROVE RestLinked(k)'
      <4>1. Rest(k)' = Rest(k)
        BY <3>1 DEF Rest
      <4> QED
        BY <3>1, <3>2, <4>1 DEF RestLinked
    <3> QED
      BY <1>2, <2>1, <3>1, <3>2
  <2>4. NoRepeat'
    BY <1>2, <2>1 DEF Keeps, NoRepeat
  <2> QED
    BY <2>1, <2>2, <2>3, <2>4 DEF LinksInv
<1> QED
  BY <1>a, <1>b, <1>c, <1>d, <1>e, <1>f, <1>g, <1>h
     DEF PlanNext, make_plan, CrossReferenceResolve

(***************************************************************************)
(* `available' holds renames of the plan that no other one waits for yet,  *)
(* by the name that they vacate.                                           *)
(***************************************************************************)
LEMMA NextSortInv == PlanInv /\ [PlanNext]_makePlanVars => SortInv'
<1> SUFFICES ASSUME PlanInv, [PlanNext]_makePlanVars PROVE SortInv'
  OBVIOUS
<1> USE DEF dataVars, fieldVars, planVars, sortVars, crossVars, localVars, envVars
<1>1. /\ TypeInv /\ StatusInv /\ SortInv /\ DataTypeOK /\ it \in Nat \ {0}
      /\ map \in [FileNames -> Refs \cup {NULL}] /\ pending \in Seq(Refs)
      /\ Listed \subseteq Refs /\ NULL \notin Refs /\ Unchecked \subseteq Listed
      /\ Listed \subseteq Nat
      /\ \A i \in Listed : old_name[i] \in FileNames /\ new_name[i] \in FileNames
      /\ Pending \subseteq Refs /\ Pending \cap Unchecked = {}
  BY StateFacts DEF TypeInv, PlanTypeOK
<1>a. CASE EndScan
  <2>1. /\ pc \in Scans /\ pc' = NextScan[pc] /\ Keeps /\ pending' = pending
        /\ map' = IF pc \in KeepsMap THEN map ELSE EmptyMap
    BY <1>a DEF EndScan, Keeps
  <2>2. /\ pc # "topologic_sort" /\ pc' # "cross_map"
        /\ pc' = "dest_exists" => pc = "no_change_scan"
        /\ pc' = "topologic_sort" <=> pc = "dest_exists"
    BY <2>1, ScanNames DEF ChecksDone
  <2>3. CASE pc = "dest_exists"
    <3>1. InSort /\ InSort' /\ map' = map /\ pc' = "topologic_sort"
      BY <2>1, <2>2, <2>3 DEF InSort, KeepsMap
    <3> QED
      BY <1>1, <2>1, <3>1, KeepFacts DEF SortInv
  <2>4. CASE pc # "dest_exists"
    <3>1. ~InSort /\ pending' = <<>> /\ Len(pending') = 0
      BY <1>1, <2>1, <2>2, <2>4 DEF InSort, SortInv
    <3>2. InSort' => map' = EmptyMap
      BY <2>1, <2>2, <2>4 DEF InSort, KeepsMap
    <3> QED
      BY <3>1, <3>2 DEF SortInv, EmptyMap
  <2> QED
    BY <2>3, <2>4
<1>b. CASE dest_exists
  <2>1. /\ pc = "dest_exists" /\ pc' = pc /\ it' = it + 1 /\ it \in Listed
        /\ UNCHANGED <<prev_spec, next_spec>> /\ InSort /\ InSort'
        /\ \/ /\ it \in Unchecked /\ Accepts(it)
              /\ map' = [map EXCEPT ![old_name[it]] = it] /\ pending' = pending
           \/ /\ Keeps /\ map' = map
              /\ \/ pending' = pending
                 \/ it \in Unchecked /\ pending' = Append(pending, it)
    BY <1>b, AcceptingScans DEF InSort
  <2>2. /\ \A n \in FileNames : map[n] # NULL =>
             map[n] \in Pending /\ old_name[map[n]] = n /\ next_spec[map[n]] = NULL
        /\ \A i \in 1 .. Len(pending) : pending[i] \in Unchecked /\ pending[i] < it
        /\ \A i, j \in 1 .. Len(pending) : pending[i] = pending[j] => i = j
    BY <1>1, <2>1 DEF SortInv
  <2>6. \A i \in 1 .. Len(pending) : pending[i] # it /\ pending[i] < it + 1
    <3> SUFFICES ASSUME NEW i \in 1 .. Len(pending)
                 PROVE  pending[i] # it /\ pending[i] < it + 1
      OBVIOUS
    <3>1. pending[i] \in Nat /\ pending[i] < it
      BY <1>1, <2>2
    <3> QED
      BY <1>1, <3>1
  <2>3. CASE it \in Unchecked /\ Accepts(it) /\ map' = [map EXCEPT ![old_name[it]] = it]
             /\ pending' = pending
    <3>1. /\ Unchecked' = Unchecked \ {it} /\ Pending' = Pending \cup {it}
          /\ old_name' = old_name
      BY <2>3, AcceptFacts
    <3>2. next_spec[it] = NULL
      BY <1>1, <2>1, <2>3 DEF StatusInv, Crossing
    <3>4. \A n \in FileNames : map'[n] # NULL =>
            map'[n] \in Pending' /\ old_name[map'[n]] = n /\ next_spec[map'[n]] = NULL
      BY <1>1, <2>1, <2>2, <2>3, <3>1, <3>2
    <3> QED
      BY <2>1, <2>2, <2>3, <2>6, <3>1, <3>4 DEF SortInv
  <2>4. CASE Keeps /\ map' = map /\ pending' = pending
    BY <2>1, <2>2, <2>4, <2>6, KeepFacts DEF SortInv
  <2>5. CASE Keeps /\ map' = map /\ it \in Unchecked /\ pending' = Append(pending, it)
    <3>1. /\ Len(pending) \in Nat /\ Len(pending') = Len(pending) + 1
          /\ pending'[Len(pending) + 1] = it
          /\ \A i \in 1 .. Len(pending) : pending'[i] = pending[i]
      BY <1>1, <2>5, AppendElems
    <3>2. \A i \in 1 .. Len(pending) + 1 : i \in 1 .. Len(pending) \/ i = Len(pending) + 1
      BY <3>1
    <3>3. \A i \in 1 .. Len(pending') : pending'[i] \in Unchecked /\ pending'[i] < it + 1
      <4>1. it < it + 1
        BY <1>1
      <4> QED
        BY <2>2, <2>5, <2>6, <3>1, <3>2, <4>1
    <3>5. \A i, j \in 1 .. Len(pending') : pending'[i] = pending'[j] => i = j
      BY <2>2, <2>6, <3>1, <3>2
    <3> QED
      BY <2>1, <2>2, <2>5, <3>3, <3>5, KeepFacts DEF SortInv
  <2> QED
    BY <2>1, <2>3, <2>4, <2>5
<1>c. CASE topologic_sort
  <2>1. pc = "topologic_sort" /\ pc' = pc /\ InSort /\ InSort'
    BY <1>c, AcceptingScans DEF InSort
  <2>2. /\ \A n \in FileNames : map[n] # NULL =>
             map[n] \in Pending /\ old_name[map[n]] = n /\ next_spec[map[n]] = NULL
        /\ \A i \in 1 .. Len(pending) : pending[i] \in Unchecked
        /\ \A i, j \in 1 .. Len(pending) : pending[i] = pending[j] => i = j
    BY <1>1, <2>1 DEF SortInv
  <2>3. CASE Keeps /\ UNCHANGED <<map, pending>>
    BY <2>1, <2>2, <2>3, KeepFacts DEF SortInv
  <2>4. CASE ~(Keeps /\ UNCHANGED <<map, pending>>)
    <3>p. PICK p : p = pending[it]
      OBVIOUS
    <3>d. PICK d : d = map[new_name[p]]
      OBVIOUS
    <3>1. /\ it \in 1 .. Len(pending) /\ p \in Unchecked /\ Accepts(p)
          /\ d \in Pending /\ old_name[d] = new_name[p]
          /\ next_spec' = [next_spec EXCEPT ![d] = p]
          /\ map' = Claim(p)
          /\ pending' = Without(pending, it)
      BY <1>c, <2>4, <3>p, <3>d, AcceptingScans
    <3>2. /\ Unchecked' = Unchecked \ {p} /\ Pending' = Pending \cup {p}
          /\ old_name' = old_name
      BY <3>1, AcceptFacts
    <3>3. /\ Elems(pending') = Elems(pending) \ {p}
          /\ \A i, j \in 1 .. Len(pending') : pending'[i] = pending'[j] => i = j
      BY <1>1, <2>2, <3>1, <3>p, WithoutElems
    <3>4. \A i \in 1 .. Len(pending') : pending'[i] \in Unchecked'
      <4>1. \A x \in Elems(pending) : x \in Unchecked
        BY <2>2 DEF Elems
      <4>2. \A i \in 1 .. Len(pending') : pending'[i] \in Elems(pending')
        BY DEF Elems
      <4> QED
        BY <3>2, <3>3, <4>1, <4>2
    <3>5. next_spec[p] = NULL
      BY <1>1, <2>1, <3>1 DEF StatusInv, Crossing
    <3>6. map' = [map EXCEPT ![old_name[p]] = p, ![new_name[p]] = NULL]
      BY <3>1 DEF Claim
    <3>7. ASSUME NEW n \in FileNames, map'[n] # NULL
          PROVE  map'[n] \in Pending' /\ old_name[map'[n]] = n /\ next_spec'[map'[n]] = NULL
      <4>1. n # new_name[p]
        BY <1>1, <3>6, <3>7
      <4>2. CASE n = old_name[p]
        <5>1. map'[n] = p /\ p # d
          BY <1>1, <3>1, <3>6, <4>1, <4>2
        <5>2. next_spec'[p] = NULL
          BY <1>1, <3>1, <3>5, <5>1 DEF DataTypeOK
        <5> QED
          BY <3>2, <4>2, <5>1, <5>2
      <4>3. CASE n # old_name[p]
        <5>1. map'[n] = map[n]
          BY <1>1, <3>6, <4>1, <4>3
        <5>2. map[n] \in Pending /\ old_name[map[n]] = n /\ next_spec[map[n]] = NULL
          BY <2>2, <3>7, <5>1
        <5>3. map[n] # d
          BY <3>1, <4>1, <5>2
        <5> QED
          BY <1>1, <3>1, <3>2, <5>1, <5>2, <5>3 DEF DataTypeOK
      <4> QED
        BY <4>2, <4>3
    <3> QED
      BY <2>1, <3>2, <3>3, <3>4, <3>7 DEF SortInv
  <2> QED
    BY <2>3, <2>4
<1>d. CASE EndTopologicPass
  <2>1. /\ Keeps
        /\ \/ pc' = "topologic_sort" /\ pc = pc' /\ UNCHANGED <<map, pending>>
           \/ pc' = "cross_map" /\ pending' = <<>>
    BY <1>d, ScanNames DEF EndTopologicPass, Keeps
  <2>2. CASE pc' = "topologic_sort" /\ pc = pc' /\ UNCHANGED <<map, pending>>
    BY <1>1, <2>1, <2>2, KeepFacts DEF SortInv, InSort
  <2>3. CASE pc' = "cross_map" /\ pending' = <<>>
    BY <2>3 DEF SortInv, InSort
  <2> QED
    BY <2>1, <2>2, <2>3
<1>e. CASE \/ previous_scan \/ duplicate_scan \/ old_missing_scan \/ no_change_scan
           \/ new_exists_map \/ new_exists_source \/ new_exists_dest \/ apply_unchecked
           \/ CrossReferenceResolve
  <2>1. pending' = pending /\ ~InSort /\ ~InSort'
    BY <1>e DEF previous_scan, duplicate_scan, old_missing_scan, no_change_scan,
                new_exists_map, new_exists_source, new_exists_dest, Refuse, InScan,
                apply_unchecked, CrossReferenceResolve, cross_map, cross_reference,
                FollowToDeadEnd, FollowToStart, FollowOn, TryNextTmp, ReplaceStart,
                CollectCircular, AddExtraRename, NextReference, InSort
  <2> QED
    BY <1>1, <2>1 DEF SortInv
<1>f. CASE OtherProcess \/ PlanDone \/ UNCHANGED makePlanVars
  <2>1. Keeps /\ UNCHANGED <<pc, it, map, pending>>
    BY <1>f DEF OtherProcess, PlanDone, makePlanVars, Keeps
  <2> QED
    BY <1>1, <2>1, KeepFacts DEF SortInv, InSort
<1> QED
  BY <1>a, <1>b, <1>c, <1>d, <1>e, <1>f DEF PlanNext, make_plan

\* make_plan starts with an empty plan and no links.
LEMMA StartPlanInv == PlanStart => PlanInv
<1> SUFFICES ASSUME PlanStart PROVE PlanInv
  OBVIOUS
<1>1. TypeInv
  BY StartTypeInv
<1>2. PICK names \in [Listed -> FileNames] : FreshSpecs(names)
  BY DEF PlanStart
<1>3. /\ pc = "previous_scan" /\ pending = <<>>
      /\ ok = <<>> /\ Pending = {} /\ Len(ok) = 0
      /\ \A s \in Refs : prev_spec[s] = NULL /\ next_spec[s] = NULL
      /\ Listed \subseteq Refs
  BY <1>1, <1>2, EmptyElems, ListedFacts DEF PlanStart, InitLocals, EmptyPlan, Pending, FreshSpecs
<1>4. Unchecked = Listed
  BY <1>2, <1>3 DEF FreshSpecs, Unchecked
<1>5. StatusInv
  BY <1>3, <1>4 DEF StatusInv, Early, Sorting, Crossing
<1>6. NamesInv
  BY <1>3 DEF NamesInv, DestInv, TmpInv, Crossing
<1>7. WalkInv
  BY <1>3 DEF WalkInv, Crossing
<1>8. LinksInv
  BY <1>3 DEF LinksInv, NoRepeat, Sorted, Mirrored
<1>9. SortInv
  BY <1>3 DEF SortInv, InSort
<1> QED
  BY <1>1, <1>5, <1>6, <1>7, <1>8, <1>9 DEF PlanInv

\* Every step keeps the invariant.
LEMMA NextPlanInv == PlanInv /\ [PlanNext]_makePlanVars => PlanInv'
  BY NextTypeInv, NextStatusInv, NextDestInv, NextTmpInv, NextWalkInv, NextLinksInv,
     NextSortInv DEF PlanInv, NamesInv

\* So it holds throughout.
LEMMA PlanInvAlways == PlanSpec => []PlanInv
<1>1. PlanInit => PlanInv
  BY InitStarts, StartPlanInv
<1> QED
  BY <1>1, NextPlanInv, PTL DEF PlanSpec

-----------------------------------------------------------------------------
(***************************************************************************)
(* Every variable of make_plan keeps its type: its loops only read fields  *)
(* of FileSpecs that exist.                                                *)
(***************************************************************************)
THEOREM PlanTypeOKAlways == PlanSpec => []PlanTypeOK
<1>1. PlanInv => PlanTypeOK
  BY DEF PlanInv, TypeInv
<1> QED
  BY <1>1, PlanInvAlways, PTL

(***************************************************************************)
(* The plan that make_plan hands to apply_plan lists each rename after the *)
(* one that it waits for, as qcmd.h requires.                              *)
(***************************************************************************)
THEOREM PlanSortedAlways == PlanSpec => []PlanSorted
<1>1. PlanInv => PlanSorted
  BY DEF PlanInv, LinksInv, PlanSorted, Planned
<1> QED
  BY <1>1, PlanInvAlways, PTL

(***************************************************************************)
(* prev_spec and next_spec of the planned renames mirror each other, and   *)
(* no rename is planned twice.                                             *)
(***************************************************************************)
THEOREM PlanLinksMirroredAlways == PlanSpec => []PlanLinksMirrored
<1>1. PlanInv => PlanLinksMirrored
  BY DEF PlanInv, LinksInv, PlanLinksMirrored, Planned
<1> QED
  BY <1>1, PlanInvAlways, PTL

(***************************************************************************)
(* No two planned renames, those to and from a temporary name included,    *)
(* have the same destination, whatever other processes do to the directory *)
(* while the plan is made.                                                 *)
(***************************************************************************)
THEOREM OneDestinationEachAlways == PlanSpec => []OneDestinationEach
<1>1. PlanInv => OneDestinationEach
  BY DEF PlanInv, NamesInv, DestInv, OneDestinationEach
<1> QED
  BY <1>1, PlanInvAlways, PTL

-----------------------------------------------------------------------------
\* What the scans before topologic_sort leave unchecked.
CheckedInv ==
  /\ pc \notin {"new_exists_map", "new_exists_source", "new_exists_dest"}
  /\ pc = "old_missing_scan" => \A i \in Unchecked : i < it => file_exists(old_name[i])
  /\ pc \notin {"previous_scan", "duplicate_scan", "old_missing_scan"} =>
       \A i \in Unchecked : file_exists(old_name[i])
  /\ pc = "no_change_scan" => \A i \in Unchecked : i < it => old_name[i] # new_name[i]
  /\ pc \notin Early => \A i \in Unchecked : old_name[i] # new_name[i]
  /\ pc \in {"apply_unchecked", "planned"} => Unchecked = {}

(***************************************************************************)
(* Sources: those of the plan are distinct and no unchecked file's, and    *)
(* each of them exists or is the temporary name of a circular set, which   *)
(* the first file of that set will be moved to.                            *)
(***************************************************************************)
SourcesInv ==
  /\ \A s \in Pending :
       /\ old_name[s] \in FileNames /\ new_name[s] \in FileNames
       /\ old_name[s] # new_name[s]
       /\ \A i \in Unchecked : old_name[s] # old_name[i]
       /\ \A t \in Pending : old_name[s] = old_name[t] => s = t
       /\ ~file_exists(old_name[s]) =>
            /\ pc \notin Sorting
            /\ \E c \in Listed \ Unchecked : Temporary(old_name[s], printed[c])
  /\ pc = "collect" => /\ file_exists(old_name[s1])
                       /\ ~file_exists(tmp_name)
                       /\ \A s \in Pending : old_name[s] # old_name[s1]

(***************************************************************************)
(* In a part of the plan, every destination is free, or vacated by the     *)
(* rename waited for; and a source that does not exist yet is filled by a  *)
(* rename that the one it belongs to waits for, maybe through others.      *)
(***************************************************************************)
InOrder(part) ==
  \A s \in part :
    /\ IF prev_spec[s] = NULL THEN ~file_exists(new_name[s])
       ELSE prev_spec[s] \in part /\ old_name[prev_spec[s]] = new_name[s]
    /\ ~file_exists(old_name[s]) =>
         \E e \in part : \E chain \in SUBSET part :
           /\ new_name[e] = old_name[s]
           /\ {s, e} \subseteq chain
           /\ \A u \in chain \ {e} : prev_spec[u] \in chain

(***************************************************************************)
(* k members of a circular set are collected: each is moved to the name of *)
(* the one before it, the first one to the name of the member that comes   *)
(* next.  Only the last one, the copy, has a source that does not exist.   *)
(***************************************************************************)
Collected(k) ==
  /\ ok[k] = prev_circular
  /\ InOrder(Rest(k))
  /\ \A i \in 2 .. k : new_name[ok[i]] = old_name[ok[i - 1]]
  /\ new_name[ok[1]] = IF s2 = NULL THEN old_name[s1] ELSE old_name[s2]
  /\ \A i \in 1 .. k - 1 : file_exists(old_name[ok[i]])

OrderInv == IF pc = "collect" THEN \E k \in 1 .. Len(ok) : Collected(k) ELSE InOrder(Pending)

Ready == CheckedInv /\ SourcesInv /\ OrderInv

\* Only mv moves files, and only if no other process interferes is it safe.
Undisturbed == external = 0 /\ program = "qmv"

ReadyInv == Undisturbed => Ready

-----------------------------------------------------------------------------
\* Nothing but make_plan happened if nothing happened to the directory.
LEMMA UndisturbedFacts ==
  ASSUME PlanInv, [PlanNext]_makePlanVars, Undisturbed'
  PROVE  /\ Undisturbed /\ fs' = fs /\ printed' = printed /\ scenario' = scenario
         /\ make_plan \/ UNCHANGED makePlanVars
<1> USE DEF dataVars, fieldVars, planVars, sortVars, crossVars, localVars, envVars
<1>1. external \in Nat
  BY DEF PlanInv, TypeInv, PlanTypeOK
<1>2. ~OtherProcess
  BY <1>1 DEF OtherProcess, Undisturbed
<1>3. CASE PlanDone \/ UNCHANGED makePlanVars
  BY <1>3 DEF PlanDone, makePlanVars, Undisturbed, program
<1>4. CASE make_plan
  <2>1. UNCHANGED <<external, options, printed, scenario, fs>>
    BY <1>4 DEF make_plan, CrossReferenceResolve, EndScan, previous_scan, duplicate_scan,
         old_missing_scan, no_change_scan, dest_exists, topologic_sort, EndTopologicPass,
         cross_map, cross_reference, FollowToDeadEnd, FollowToStart, FollowOn, TryNextTmp,
         ReplaceStart, CollectCircular, AddExtraRename, new_exists_map, new_exists_source,
         new_exists_dest, apply_unchecked, Refuse
  <2> QED
    BY <1>4, <2>1 DEF Undisturbed, program
<1> QED
  BY <1>2, <1>3, <1>4 DEF PlanNext

\* No file is listed twice.
LEMMA OldNamesDiffer ==
  ASSUME PlanInv
  PROVE  \A i, j \in Listed : old_name[i] = old_name[j] => i = j
<1>1. TypeInv /\ \A i \in Listed : old_name[i] = printed[i]
  BY StateFacts
<1> QED
  BY <1>1 DEF TypeInv, FilesKept, Listed

-----------------------------------------------------------------------------
\* What was checked of a file stays true of the files still unchecked.
LEMMA StillChecked ==
  ASSUME CheckedInv, fs' = fs, pc \notin Early, pc' \notin Early,
         pc' \in {"apply_unchecked", "planned"} => pc' = pc,
         Unchecked' \subseteq Unchecked,
         \A i \in Unchecked : old_name'[i] = old_name[i] /\ new_name'[i] = new_name[i]
  PROVE  CheckedInv'
  BY DEF CheckedInv, Early, file_exists

LEMMA NextCheckedInv ==
  ASSUME PlanInv, CheckedInv, make_plan, fs' = fs, program = "qmv"
  PROVE  CheckedInv'
<1> USE DEF dataVars, fieldVars, planVars, sortVars, crossVars, localVars, envVars
<1>1. /\ TypeInv /\ StatusInv /\ DataTypeOK /\ it \in Nat \ {0}
      /\ Len(printed) \in Nat /\ Listed \subseteq Refs
      /\ Listed \subseteq Nat /\ Len(work_files) = Len(printed)
      /\ More => it \in Listed /\ spec = it
      /\ Unchecked \subseteq Listed
  BY StateFacts
<1>2. status \in [Refs -> FileSpecStatus \cup MemoryStatus]
  BY <1>1 DEF DataTypeOK
<1>3. /\ Crossing = {"cross_reference", "follow", "temporary", "collect"}
      /\ Early = {"previous_scan", "duplicate_scan", "old_missing_scan", "no_change_scan",
                  "new_exists_map", "new_exists_source", "new_exists_dest"}
  BY DEF Early, Crossing
<1>a. CASE EndScan
  <2>1. /\ pc \in Scans /\ pc' = NextScan[pc] /\ ~More /\ it' = 1 /\ Keeps
    BY <1>a DEF EndScan, Keeps
  <2>2. /\ pc' \in {"duplicate_scan", "old_missing_scan", "no_change_scan", "dest_exists",
                    "topologic_sort", "cross_reference", "apply_unchecked", "planned"}
        /\ pc' = "old_missing_scan" => pc = "duplicate_scan"
        /\ pc' = "no_change_scan" => pc = "old_missing_scan"
        /\ pc' = "dest_exists" => pc = "no_change_scan"
        /\ pc' = "topologic_sort" => pc = "dest_exists"
        /\ pc' = "cross_reference" => pc = "cross_map"
        /\ pc' = "apply_unchecked" => pc = "cross_reference"
        /\ pc' = "planned" => pc = "apply_unchecked"
    BY <2>1, ScanNames DEF ChecksDone, CheckedInv
  <2>3. \A i \in Unchecked : i < it /\ ~(i < 1) /\ ~(it <= i)
    BY <1>1, <2>1 DEF More, Listed
  <2>4. pc = "cross_reference" => Unchecked = {}
    BY <1>1, <1>3, <2>3 DEF StatusInv
  <2>5. /\ Unchecked' = Unchecked /\ old_name' = old_name /\ new_name' = new_name
    BY <2>1, KeepFacts
  <2>6. /\ pc' \notin {"duplicate_scan", "old_missing_scan"} =>
             \A i \in Unchecked : file_exists(old_name[i])
        /\ pc' \notin Early => \A i \in Unchecked : old_name[i] # new_name[i]
        /\ pc' \in {"apply_unchecked", "planned"} => Unchecked = {}
    BY <1>3, <2>2, <2>3, <2>4 DEF CheckedInv
  <2> QED
    BY <1>3, <2>1, <2>2, <2>3, <2>5, <2>6 DEF CheckedInv, file_exists
<1>b. CASE previous_scan \/ duplicate_scan
  <2>1. pc' \in {"previous_scan", "duplicate_scan"}
    BY <1>b DEF previous_scan, duplicate_scan, InScan
  <2> QED
    BY <1>3, <2>1 DEF CheckedInv
<1>c. CASE old_missing_scan
  <2>1. /\ pc = "old_missing_scan" /\ pc' = pc /\ it' = it + 1 /\ it \in Listed /\ spec = it
        /\ UNCHANGED <<old_name, new_name, printed, scenario>>
        /\ IF status[it] = "UNCHECKED" /\ ~file_exists(old_name[it])
           THEN status' = [status EXCEPT ![it] = "OLD_MISSING"]
           ELSE status' = status
    BY <1>1, <1>c DEF old_missing_scan, Refuse, InScan
  <2>2. ASSUME NEW i \in Unchecked', i < it + 1
        PROVE  file_exists(old_name[i])
    <3>1. i \in Unchecked /\ (i = it => file_exists(old_name[it]))
      BY <1>1, <1>2, <2>1, <2>2 DEF Unchecked, Listed
    <3>2. i < it \/ i = it
      BY <1>1, <2>2, <3>1
    <3> QED
      BY <2>1, <3>1, <3>2 DEF CheckedInv
  <2> QED
    BY <1>3, <2>1, <2>2 DEF CheckedInv, file_exists
<1>d. CASE no_change_scan
  <2>1. /\ pc = "no_change_scan" /\ pc' = pc /\ it' = it + 1 /\ it \in Listed /\ spec = it
        /\ UNCHANGED <<old_name, new_name, printed, scenario>>
        /\ IF status[it] = "UNCHECKED" /\ old_name[it] = new_name[it]
           THEN status' = [status EXCEPT ![it] = "NO_CHANGE"]
           ELSE status' = status
    BY <1>1, <1>d DEF no_change_scan, InScan
  <2>2. ASSUME NEW i \in Unchecked'
        PROVE  i \in Unchecked /\ (i < it + 1 => old_name[i] # new_name[i])
    <3>1. i \in Unchecked /\ (i = it => old_name[it] # new_name[it])
      BY <1>1, <1>2, <2>1, <2>2 DEF Unchecked, Listed
    <3>2. i < it + 1 => i < it \/ i = it
      BY <1>1, <3>1
    <3> QED
      BY <2>1, <3>1, <3>2 DEF CheckedInv
  <2>3. \A i \in Unchecked : file_exists(old_name[i])
    BY <2>1 DEF CheckedInv
  <2> QED
    BY <1>3, <2>1, <2>2, <2>3 DEF CheckedInv, file_exists
<1>e. CASE new_exists_map \/ new_exists_source \/ new_exists_dest
  BY <1>e DEF new_exists_map, new_exists_source, new_exists_dest, Refuse, InScan, CheckedInv
<1>f. CASE dest_exists \/ topologic_sort \/ apply_unchecked
  <2>1. /\ pc' = pc /\ pc \in {"dest_exists", "topologic_sort", "apply_unchecked"}
        /\ Keeps \/ \E x \in Unchecked : Accepts(x)
    BY <1>f, AcceptingScans
  <2>2. Unchecked' \subseteq Unchecked /\ old_name' = old_name /\ new_name' = new_name
    BY <2>1, KeepFacts, AcceptFacts
  <2> QED
    BY <1>3, <2>1, <2>2, StillChecked
<1>g. CASE EndTopologicPass \/ cross_map \/ cross_reference \/ TryNextTmp
  <2>1. /\ Keeps /\ pc \notin Early
        /\ pc' \in {"topologic_sort", "cross_map"} \cup Crossing
    BY <1>3, <1>g, ScanNames
       DEF EndTopologicPass, cross_map, cross_reference, TryNextTmp, InScan, Keeps
  <2>2. Unchecked' = Unchecked /\ old_name' = old_name /\ new_name' = new_name
    BY <2>1, KeepFacts
  <2> QED
    BY <1>3, <2>1, <2>2, StillChecked
<1>h. CASE \/ FollowToDeadEnd \/ FollowToStart \/ FollowOn
           \/ ReplaceStart \/ CollectCircular \/ AddExtraRename
  <2>1. CASE FollowToDeadEnd \/ (FollowToStart /\ pc' # "temporary")
    <3>1. /\ pc = "follow" /\ pc' = "cross_reference"
          /\ Unchecked' \subseteq Unchecked
          /\ UNCHANGED <<old_name, new_name>>
      BY <2>1, DeadEndFacts
    <3> QED
      BY <1>3, <3>1, StillChecked
  <2>2. CASE (FollowToStart /\ pc' = "temporary") \/ FollowOn
    <3>1. /\ UNCHANGED <<status, old_name, new_name, printed, scenario>>
          /\ pc = "follow" /\ pc' \in {"follow", "temporary"}
      BY <2>2 DEF FollowToStart, FollowOn, NextReference
    <3>2. Unchecked' = Unchecked
      BY <3>1 DEF Unchecked, Listed
    <3> QED
      BY <1>3, <3>1, <3>2, StillChecked
  <2>3. CASE ReplaceStart
    <3>1. /\ pc = "temporary" /\ pc' = "collect" /\ Unchecked' \subseteq Unchecked
          /\ \A i \in Listed : old_name'[i] = old_name[i] /\ new_name'[i] = new_name[i]
      BY <1>1, <2>3, ReplaceStartFacts
    <3> QED
      BY <1>1, <1>3, <3>1, StillChecked
  <2>4. CASE CollectCircular
    <3>1. /\ pc = "collect" /\ pc' = pc /\ Unchecked' \subseteq Unchecked
          /\ UNCHANGED <<old_name, new_name>>
      BY <2>4, CollectFacts
    <3> QED
      BY <1>3, <3>1, StillChecked
  <2>5. CASE AddExtraRename
    <3>1. /\ pc = "collect" /\ pc' = "cross_reference" /\ Unchecked' = Unchecked
          /\ \A i \in Listed : old_name'[i] = old_name[i] /\ new_name'[i] = new_name[i]
      BY <1>1, <2>5, AddExtraFacts
    <3> QED
      BY <1>1, <1>3, <3>1, StillChecked
  <2> QED
    BY <1>h, <2>1, <2>2, <2>3, <2>4, <2>5
<1> QED
  BY <1>a, <1>b, <1>c, <1>d, <1>e, <1>f, <1>g, <1>h DEF make_plan, CrossReferenceResolve

-----------------------------------------------------------------------------
\* The sources of a plan that does not change.
LEMMA SourcesKept ==
  ASSUME SourcesInv, fs' = fs, pc' # "collect",
         pc' \in Sorting => pc \in Sorting \/ Pending = {},
         UNCHANGED <<old_name, new_name, ok, printed, scenario>>,
         Unchecked' \subseteq Unchecked
  PROVE  SourcesInv'
<1>1. Pending' = Pending /\ Listed' = Listed /\ printed' = printed
  BY DEF Pending, Listed
<1> QED
  BY <1>1 DEF SourcesInv, file_exists, Temporary

LEMMA NextSourcesInv ==
  ASSUME PlanInv, Ready, make_plan, fs' = fs, program = "qmv"
  PROVE  SourcesInv'
<1> USE DEF dataVars, fieldVars, planVars, sortVars, crossVars, localVars, envVars
<1>1. /\ TypeInv /\ StatusInv /\ TmpInv /\ DataTypeOK
      /\ CheckedInv /\ SourcesInv
      /\ Listed \subseteq Refs /\ Unchecked \subseteq Listed
      /\ Pending \subseteq Refs /\ ok \in Seq(Refs) /\ Pending \cap Unchecked = {}
      /\ \A i \in Listed : /\ old_name[i] = printed[i]
                           /\ old_name[i] \in FileNames /\ new_name[i] \in FileNames
  BY StateFacts DEF NamesInv, Ready
<1>2. \A i, j \in Listed : old_name[i] = old_name[j] => i = j
  BY OldNamesDiffer
<1>3. /\ Crossing = {"cross_reference", "follow", "temporary", "collect"}
      /\ Sorting = {"dest_exists", "topologic_sort", "cross_map"}
      /\ Early = {"previous_scan", "duplicate_scan", "old_missing_scan", "no_change_scan",
                  "new_exists_map", "new_exists_source", "new_exists_dest"}
  BY DEF Early, Crossing, Sorting
<1>4. pc \in Early => Pending = {}
  BY <1>1, EmptyElems DEF StatusInv, Pending
<1>a. CASE EndScan \/ EndTopologicPass \/ cross_map \/ cross_reference \/ TryNextTmp
  <2>1. /\ Keeps /\ pc' # "collect"
        /\ pc' \in Sorting => pc \in Sorting \cup Early
    BY <1>3, <1>a, ScanNames
       DEF EndScan, EndTopologicPass, cross_map, cross_reference, TryNextTmp, InScan, Keeps,
           ChecksDone
  <2>2. Unchecked' = Unchecked /\ UNCHANGED <<old_name, new_name, ok, printed, scenario>>
    BY <2>1, KeepFacts
  <2> QED
    BY <1>1, <1>4, <2>1, <2>2, SourcesKept
<1>b. CASE \/ previous_scan \/ duplicate_scan \/ old_missing_scan \/ no_change_scan
           \/ new_exists_map \/ new_exists_source \/ new_exists_dest
  <2>1. pc' = pc /\ pc \in Early
    BY <1>3, <1>b DEF previous_scan, duplicate_scan, old_missing_scan, no_change_scan,
           new_exists_map, new_exists_source, new_exists_dest, Refuse, InScan
  <2>2. ok' = ok
    <3>1. CASE previous_scan
      <4>1. spec \in Unchecked
        BY <1>1, <3>1, StateFacts DEF previous_scan, InScan, StatusInv
      <4> QED
        BY <3>1, <4>1 DEF previous_scan, Unchecked, OkStatus
    <3>2. CASE ~previous_scan
      BY <1>b, <3>2 DEF duplicate_scan, old_missing_scan, no_change_scan, new_exists_map,
             new_exists_source, new_exists_dest, Refuse
    <3> QED
      BY <3>1, <3>2
  <2>3. Pending' = {}
    BY <1>4, <2>1, <2>2 DEF Pending
  <2> QED
    BY <1>3, <2>1, <2>3 DEF SourcesInv
<1>c. CASE dest_exists \/ topologic_sort \/ apply_unchecked
  <2>1. /\ pc' = pc /\ pc \in {"dest_exists", "topologic_sort", "apply_unchecked"}
        /\ Keeps \/ \E x \in Unchecked : Accepts(x)
    BY <1>c, AcceptingScans
  <2>2. CASE Keeps
    BY <1>1, <2>1, <2>2, SourcesKept, KeepFacts
  <2>3. CASE \E x \in Unchecked : Accepts(x)
    <3>1. PICK x \in Unchecked : Accepts(x)
      BY <2>3
    <3>2. /\ x \in Listed /\ x \notin Pending
          /\ Pending' = Pending \cup {x} /\ Unchecked' = Unchecked \ {x} /\ Listed' = Listed
          /\ UNCHANGED <<old_name, new_name, printed, scenario>>
      BY <3>1, AcceptFacts
    <3>3. printed' = printed
      BY <3>2
    <3>4. file_exists(old_name[x]) /\ old_name[x] # new_name[x]
      BY <1>1, <1>3, <2>1 DEF CheckedInv
    <3>5. ASSUME NEW s \in Pending'
          PROVE  /\ old_name[s] \in FileNames /\ new_name[s] \in FileNames
                 /\ old_name[s] # new_name[s]
                 /\ \A i \in Unchecked' : old_name[s] # old_name[i]
                 /\ \A t \in Pending' : old_name[s] = old_name[t] => s = t
                 /\ ~file_exists(old_name[s]) =>
                      /\ pc \notin Sorting
                      /\ \E c \in Listed \ Unchecked' : Temporary(old_name[s], printed[c])
      <4>1. CASE s = x
        BY <1>1, <1>2, <3>1, <3>2, <3>4, <4>1 DEF SourcesInv
      <4>2. CASE s \in Pending
        BY <1>1, <3>1, <3>2, <4>2 DEF SourcesInv
      <4> QED
        BY <3>2, <4>1, <4>2
    <3> QED
      BY <1>3, <2>1, <3>2, <3>3, <3>5 DEF SourcesInv, file_exists, Temporary
  <2> QED
    BY <2>1, <2>2, <2>3
<1>d. CASE FollowToDeadEnd \/ FollowToStart \/ FollowOn
  <2>1. CASE FollowToDeadEnd \/ (FollowToStart /\ pc' # "temporary")
    <3>1. /\ pc' = "cross_reference" /\ Unchecked' \subseteq Unchecked
          /\ UNCHANGED <<old_name, new_name, ok, printed, scenario>>
      BY <2>1, DeadEndFacts
    <3> QED
      BY <1>1, <1>3, <3>1, SourcesKept
  <2>2. CASE (FollowToStart /\ pc' = "temporary") \/ FollowOn
    <3>1. /\ UNCHANGED <<status, old_name, new_name, ok, printed, scenario>>
          /\ pc = "follow" /\ pc' \in {"follow", "temporary"}
      BY <2>2 DEF FollowToStart, FollowOn, NextReference
    <3>2. Unchecked' = Unchecked
      BY <3>1 DEF Unchecked, Listed
    <3> QED
      BY <1>1, <1>3, <3>1, <3>2, SourcesKept
  <2> QED
    BY <1>d, <2>1, <2>2
<1>e. CASE ReplaceStart
  <2>t. PICK t : t = new_file_spec
    OBVIOUS
  <2>1. /\ pc = "temporary" /\ pc' = "collect" /\ s1' = s1 /\ s1 \in Unchecked
        /\ tmp_name' = tmp_name /\ ~TmpTaken
        /\ t \in Refs \ Listed /\ t \notin Pending
        /\ Unchecked' = Unchecked \ {s1} /\ Pending' = Pending \cup {t} /\ Listed' = Listed
        /\ old_name'[t] = tmp_name /\ new_name'[t] = new_name[s1]
        /\ \A s \in Refs \ {t} : old_name'[s] = old_name[s] /\ new_name'[s] = new_name[s]
        /\ printed' = printed /\ scenario' = scenario
    BY <1>e, <2>t, ReplaceStartFacts
  <2>2. printed' = printed
    BY <2>1
  <2>3. /\ \A i \in Listed : old_name'[i] = old_name[i]
        /\ \A s \in Pending : old_name'[s] = old_name[s] /\ new_name'[s] = new_name[s]
    BY <1>1, <2>1
  <2>4. ~file_exists(tmp_name) /\ map_new[tmp_name] = NULL
    BY <2>1 DEF TmpTaken
  <2>5. tmp_name \in FileNames /\ Temporary(tmp_name, printed[s1])
    <3>1. tmp_count \in 1 .. MaxTmp
      BY <1>1, <2>1, PlanAssumption DEF TypeInv, PlanTypeOK, Shape, Walking
    <3>2. old_name[s1] = printed[s1] /\ printed[s1] \in Listable
      BY <1>1, <2>1, ListedFacts
    <3> QED
      BY <3>1, <3>2, PlanAssumption DEF tmp_name, Temporary
  <2>6. tmp_name # new_name[s1]
    BY <1>1, <1>3, <2>1, <2>4 DEF TmpInv
  <2>7. \A i \in Unchecked : file_exists(old_name[i])
    BY <1>1, <2>1 DEF CheckedInv
  <2>8. \A s \in Pending : old_name[s] # tmp_name
    <3> SUFFICES ASSUME NEW s \in Pending, ~file_exists(old_name[s])
                 PROVE  old_name[s] # tmp_name
      BY <2>4
    <3>1. PICK c \in Listed \ Unchecked : Temporary(old_name[s], printed[c])
      BY <1>1 DEF SourcesInv
    <3> QED
      BY <2>1, <3>1, TemporaryDiffers DEF Walking
  <2>9. ASSUME NEW s \in Pending'
        PROVE  /\ old_name'[s] \in FileNames /\ new_name'[s] \in FileNames
               /\ old_name'[s] # new_name'[s]
               /\ \A i \in Unchecked' : old_name'[s] # old_name[i]
               /\ \A r \in Pending' : old_name'[s] = old_name'[r] => s = r
               /\ ~file_exists(old_name'[s]) =>
                    \E c \in Listed \ Unchecked' : Temporary(old_name'[s], printed[c])
               /\ old_name'[s] # old_name[s1]
    <3>1. CASE s = t
      <4>1. old_name'[s] = tmp_name /\ new_name'[s] = new_name[s1]
        BY <2>1, <3>1
      <4>2. s1 \in Listed \ Unchecked'
        BY <1>1, <2>1
      <4>3. \A i \in Unchecked : old_name[i] # tmp_name
        BY <2>4, <2>7
      <4>4. \A r \in Pending' : old_name'[r] = tmp_name => r = t
        BY <2>1, <2>3, <2>8
      <4> QED
        BY <1>1, <2>1, <2>5, <2>6, <3>1, <4>1, <4>2, <4>3, <4>4
    <3>2. CASE s \in Pending
      <4>1. old_name'[s] = old_name[s] /\ new_name'[s] = new_name[s]
        BY <2>3, <3>2
      <4>2. \A r \in Pending' : old_name[s] = old_name'[r] => s = r
        BY <1>1, <2>1, <2>3, <2>8, <3>2 DEF SourcesInv
      <4> QED
        BY <1>1, <2>1, <3>2, <4>1, <4>2 DEF SourcesInv
    <3> QED
      BY <2>1, <3>1, <3>2
  <2>10. file_exists(old_name[s1]) /\ old_name'[s1] = old_name[s1]
    BY <1>1, <2>1, <2>3, <2>7
  <2>11. \A i \in Unchecked' : old_name'[i] = old_name[i]
    BY <1>1, <2>1, <2>3
  <2> QED
    BY <1>3, <2>1, <2>2, <2>4, <2>9, <2>10, <2>11 DEF SourcesInv, file_exists, Temporary
<1>f. CASE CollectCircular
  <2>1. /\ pc = "collect" /\ pc' = pc /\ s1' = s1 /\ tmp_name' = tmp_name
        /\ s2 \in Unchecked /\ s2 \notin Pending
        /\ Unchecked' = Unchecked \ {s2} /\ Pending' = Pending \cup {s2} /\ Listed' = Listed
        /\ UNCHANGED <<old_name, new_name, printed, scenario>>
    BY <1>f, CollectFacts
  <2>2. printed' = printed
    BY <2>1
  <2>3. s1 \in Listed /\ s1 \notin Unchecked
    BY <2>1, WalkFacts DEF Walking
  <2>4. file_exists(old_name[s2]) /\ old_name[s2] # new_name[s2]
    BY <1>1, <1>3, <2>1 DEF CheckedInv
  <2>5. ASSUME NEW s \in Pending'
        PROVE  /\ old_name[s] \in FileNames /\ new_name[s] \in FileNames
               /\ old_name[s] # new_name[s]
               /\ \A i \in Unchecked' : old_name[s] # old_name[i]
               /\ \A r \in Pending' : old_name[s] = old_name[r] => s = r
               /\ ~file_exists(old_name[s]) =>
                    \E c \in Listed \ Unchecked' : Temporary(old_name[s], printed[c])
               /\ old_name[s] # old_name[s1]
    <3>1. CASE s = s2
      BY <1>1, <1>2, <2>1, <2>3, <2>4, <3>1 DEF SourcesInv
    <3>2. CASE s \in Pending
      BY <1>1, <2>1, <3>2 DEF SourcesInv
    <3> QED
      BY <2>1, <3>1, <3>2
  <2>6. file_exists(old_name[s1]) /\ ~file_exists(tmp_name)
    BY <1>1, <2>1 DEF SourcesInv
  <2> QED
    BY <1>3, <2>1, <2>2, <2>5, <2>6 DEF SourcesInv, file_exists, Temporary
<1>g. CASE AddExtraRename
  <2>e. PICK e : e = new_file_spec
    OBVIOUS
  <2>1. /\ pc = "collect" /\ pc' = "cross_reference" /\ prev_circular \in Pending
        /\ e \in Refs \ Listed /\ e \notin Pending
        /\ Unchecked' = Unchecked /\ Pending' = Pending \cup {e} /\ Listed' = Listed
        /\ old_name'[e] = old_name[s1] /\ new_name'[e] = old_name[prev_circular]
        /\ \A s \in Refs \ {e} : old_name'[s] = old_name[s] /\ new_name'[s] = new_name[s]
        /\ printed' = printed /\ scenario' = scenario
    BY <1>g, <2>e, AddExtraFacts
  <2>2. printed' = printed
    BY <2>1
  <2>3. s1 \in Listed /\ s1 \notin Unchecked
    BY <2>1, WalkFacts DEF Walking
  <2>4. /\ \A i \in Listed : old_name'[i] = old_name[i]
        /\ \A s \in Pending : old_name'[s] = old_name[s] /\ new_name'[s] = new_name[s]
    BY <1>1, <2>1
  <2>5. /\ file_exists(old_name[s1]) /\ ~file_exists(tmp_name)
        /\ old_name[prev_circular] = tmp_name
        /\ \A s \in Pending : old_name[s] # old_name[s1]
    BY <1>1, <2>1 DEF SourcesInv, TmpInv
  <2>6. old_name[prev_circular] \in FileNames /\ old_name[s1] # old_name[prev_circular]
    BY <1>1, <2>1, <2>5 DEF SourcesInv
  <2>7. ASSUME NEW s \in Pending'
        PROVE  /\ old_name'[s] \in FileNames /\ new_name'[s] \in FileNames
               /\ old_name'[s] # new_name'[s]
               /\ \A i \in Unchecked' : old_name'[s] # old_name[i]
               /\ \A r \in Pending' : old_name'[s] = old_name'[r] => s = r
               /\ ~file_exists(old_name'[s]) =>
                    \E c \in Listed \ Unchecked' : Temporary(old_name'[s], printed[c])
    <3>1. CASE s = e
      <4>1. \A i \in Unchecked : old_name[s1] # old_name[i]
        BY <1>1, <1>2, <2>3
      <4>2. \A r \in Pending' : old_name'[r] = old_name[s1] => r = e
        BY <2>1, <2>4, <2>5
      <4> QED
        BY <1>1, <2>1, <2>3, <2>5, <2>6, <3>1, <4>1, <4>2
    <3>2. CASE s \in Pending
      <4>1. old_name'[s] = old_name[s] /\ new_name'[s] = new_name[s]
        BY <2>4, <3>2
      <4>2. \A r \in Pending' : old_name[s] = old_name'[r] => s = r
        BY <1>1, <2>1, <2>4, <2>5, <3>2 DEF SourcesInv
      <4> QED
        BY <1>1, <2>1, <3>2, <4>1, <4>2 DEF SourcesInv
    <3> QED
      BY <2>1, <3>1, <3>2
  <2>8. \A i \in Unchecked' : old_name'[i] = old_name[i]
    BY <1>1, <2>1, <2>4
  <2> QED
    BY <1>3, <2>1, <2>2, <2>7, <2>8 DEF SourcesInv, file_exists, Temporary
<1> QED
  BY <1>a, <1>b, <1>c, <1>d, <1>e, <1>f, <1>g DEF make_plan, CrossReferenceResolve

-----------------------------------------------------------------------------
\* A part of the plan whose renames do not change.
LEMMA StillInOrder ==
  ASSUME NEW part, InOrder(part), fs' = fs,
         \A s \in part : /\ prev_spec'[s] = prev_spec[s]
                         /\ old_name'[s] = old_name[s] /\ new_name'[s] = new_name[s]
  PROVE  InOrder(part)'
<1> SUFFICES ASSUME NEW s \in part
             PROVE  /\ IF prev_spec'[s] = NULL THEN ~file_exists(new_name[s])'
                       ELSE prev_spec'[s] \in part /\ old_name'[prev_spec'[s]] = new_name'[s]
                    /\ ~file_exists(old_name[s])' =>
                         \E e \in part : \E chain \in SUBSET part :
                           /\ new_name'[e] = old_name'[s]
                           /\ {s, e} \subseteq chain
                           /\ \A u \in chain \ {e} : prev_spec'[u] \in chain
  BY DEF InOrder
<1>1. IF prev_spec'[s] = NULL THEN ~file_exists(new_name[s])'
      ELSE prev_spec'[s] \in part /\ old_name'[prev_spec'[s]] = new_name'[s]
  BY DEF InOrder, file_exists
<1>2. ASSUME ~file_exists(old_name[s])'
      PROVE  \E e \in part : \E chain \in SUBSET part :
               /\ new_name'[e] = old_name'[s]
               /\ {s, e} \subseteq chain
               /\ \A u \in chain \ {e} : prev_spec'[u] \in chain
  <2>1. PICK e \in part, chain \in SUBSET part :
               /\ new_name[e] = old_name[s]
               /\ {s, e} \subseteq chain
               /\ \A u \in chain \ {e} : prev_spec[u] \in chain
    BY <1>2 DEF InOrder, file_exists
  <2>2. \A u \in chain \ {e} : prev_spec'[u] \in chain
    BY <2>1
  <2> QED
    BY <2>1, <2>2
<1> QED
  BY <1>1, <1>2

\* Two parts of the plan, each in order, one of them maybe waiting for the other.
LEMMA BothInOrder ==
  ASSUME NEW first, NEW part, InOrder(part)',
         \A s \in first :
           /\ IF prev_spec'[s] = NULL THEN ~file_exists(new_name[s])'
              ELSE prev_spec'[s] \in first \cup part /\ old_name'[prev_spec'[s]] = new_name'[s]
           /\ ~file_exists(old_name[s])' =>
                \E e \in first : /\ new_name'[e] = old_name'[s]
                                 /\ \A u \in first \ {e} : prev_spec'[u] \in first
  PROVE  InOrder(first \cup part)'
<1> DEFINE both == first \cup part
           FreeOrVacated(s) ==
             IF prev_spec'[s] = NULL THEN ~file_exists(new_name[s])'
             ELSE prev_spec'[s] \in both /\ old_name'[prev_spec'[s]] = new_name'[s]
           Filled(s) ==
             ~file_exists(old_name[s])' =>
               \E e \in both : \E chain \in SUBSET both :
                 /\ new_name'[e] = old_name'[s]
                 /\ {s, e} \subseteq chain
                 /\ \A u \in chain \ {e} : prev_spec'[u] \in chain
<1>1. ASSUME NEW s \in first PROVE FreeOrVacated(s) /\ Filled(s)
  <2>1. ASSUME ~file_exists(old_name[s])'
        PROVE  \E e \in both : \E chain \in SUBSET both :
                 /\ new_name'[e] = old_name'[s]
                 /\ {s, e} \subseteq chain
                 /\ \A u \in chain \ {e} : prev_spec'[u] \in chain
    <3>1. PICK e \in first : /\ new_name'[e] = old_name'[s]
                             /\ \A u \in first \ {e} : prev_spec'[u] \in first
      BY <2>1
    <3>2. e \in both /\ first \in SUBSET both /\ {s, e} \subseteq first
      OBVIOUS
    <3> QED
      BY <3>1, <3>2
  <2> QED
    BY <2>1
<1>2. ASSUME NEW s \in part PROVE FreeOrVacated(s) /\ Filled(s)
  <2>1. FreeOrVacated(s)
    BY DEF InOrder
  <2>2. ASSUME ~file_exists(old_name[s])'
        PROVE  \E e \in both : \E chain \in SUBSET both :
                 /\ new_name'[e] = old_name'[s]
                 /\ {s, e} \subseteq chain
                 /\ \A u \in chain \ {e} : prev_spec'[u] \in chain
    <3>1. PICK e \in part, chain \in SUBSET part :
                 /\ new_name'[e] = old_name'[s]
                 /\ {s, e} \subseteq chain
                 /\ \A u \in chain \ {e} : prev_spec'[u] \in chain
      BY <2>2 DEF InOrder
    <3>2. e \in both /\ chain \in SUBSET both
      OBVIOUS
    <3> QED
      BY <3>1, <3>2
  <2> QED
    BY <2>1, <2>2
<1>3. \A s \in both : FreeOrVacated(s) /\ Filled(s)
  BY <1>1, <1>2
<1> QED
  BY <1>3 DEF InOrder

\* A plan that does not change.
LEMMA OrderKept ==
  ASSUME OrderInv, pc # "collect", pc' # "collect", fs' = fs,
         UNCHANGED <<old_name, new_name, prev_spec, ok>>
  PROVE  OrderInv'
<1>p. PICK part : part = Pending
  OBVIOUS
<1>1. InOrder(part)
  BY <1>p DEF OrderInv, InOrder
<1>2. InOrder(part)'
  BY <1>1, StillInOrder
<1>3. Pending' = part
  BY <1>p DEF Pending
<1> QED
  BY <1>2, <1>3 DEF OrderInv, InOrder

\* Where a walk goes on from its first file.
LEMMA WalkNext ==
  ASSUME PlanInv, pc \in Crossing, NEW n \in Nat \ {0}, NEW p \in [1 .. n -> Unchecked],
         Walk(n, p), n = 1 => next_spec[p[1]] = NULL /\ map[new_name[p[1]]] = s1, s1 \in Refs
  PROVE  new_name[p[1]] = IF next_spec[p[1]] = NULL THEN old_name[s1]
                          ELSE old_name[next_spec[p[1]]]
<1>1. /\ WalkInv /\ Listed \subseteq Refs /\ Unchecked \subseteq Listed /\ NULL \notin Refs
      /\ \A i \in Listed : new_name[i] \in FileNames
  BY StateFacts
<1>2. \A name \in FileNames : map[name] # NULL => old_name[map[name]] = name
  BY <1>1 DEF WalkInv
<1>3. 1 \in 1 .. n /\ p[1] \in Unchecked /\ new_name[p[1]] \in FileNames
  BY <1>1
<1>4. CASE n = 1
  BY <1>1, <1>2, <1>3, <1>4
<1>5. CASE n # 1
  <2>1. 1 \in 1 .. n - 1 /\ 1 + 1 = 2 /\ 2 \in 1 .. n
    BY <1>5
  <2>2. next_spec[p[1]] = p[2] /\ map[new_name[p[1]]] = p[2] /\ p[2] \in Refs
    BY <1>1, <2>1 DEF Walk
  <2> QED
    BY <1>1, <1>2, <1>3, <2>2
<1> QED
  BY <1>4, <1>5

LEMMA NextOrderInv ==
  ASSUME PlanInv, Ready, make_plan, fs' = fs, program = "qmv"
  PROVE  OrderInv'
<1> USE DEF dataVars, fieldVars, planVars, sortVars, crossVars, localVars, envVars
<1>1. /\ TypeInv /\ StatusInv /\ LinksInv /\ DataTypeOK
      /\ CheckedInv /\ SourcesInv /\ OrderInv
      /\ Listed \subseteq Refs /\ Unchecked \subseteq Listed /\ NULL \notin Refs
      /\ Pending \subseteq Refs /\ ok \in Seq(Refs) /\ Pending \cap Unchecked = {}
      /\ \A i \in Listed : old_name[i] \in FileNames /\ new_name[i] \in FileNames
  BY StateFacts DEF Ready
<1>2. /\ Crossing = {"cross_reference", "follow", "temporary", "collect"}
      /\ Early = {"previous_scan", "duplicate_scan", "old_missing_scan", "no_change_scan",
                  "new_exists_map", "new_exists_source", "new_exists_dest"}
  BY DEF Early, Crossing
<1>3. NoRepeat /\ \A i \in 1 .. Len(ok) : ok[i] \in Pending
  BY <1>1 DEF LinksInv, Pending, Elems
<1>a. CASE \/ EndScan \/ previous_scan \/ duplicate_scan \/ old_missing_scan
           \/ no_change_scan \/ EndTopologicPass \/ cross_map \/ cross_reference
           \/ TryNextTmp \/ new_exists_map \/ new_exists_source \/ new_exists_dest
  <2>1. /\ pc # "collect" /\ pc' # "collect"
        /\ UNCHANGED <<old_name, new_name, prev_spec>>
    BY <1>a, ScanNames
       DEF EndScan, previous_scan, duplicate_scan, old_missing_scan, no_change_scan,
           EndTopologicPass, cross_map, cross_reference, TryNextTmp, new_exists_map,
           new_exists_source, new_exists_dest, Refuse, InScan, ChecksDone
  <2>2. ok' = ok
    <3>1. CASE previous_scan
      <4>1. spec \in Unchecked
        BY <1>1, <3>1, StateFacts DEF previous_scan, InScan, StatusInv
      <4> QED
        BY <3>1, <4>1 DEF previous_scan, Unchecked, OkStatus
    <3>2. CASE ~previous_scan
      BY <1>a, <3>2 DEF EndScan, duplicate_scan, old_missing_scan, no_change_scan,
             EndTopologicPass, cross_map, cross_reference, TryNextTmp, new_exists_map,
             new_exists_source, new_exists_dest, Refuse
    <3> QED
      BY <3>1, <3>2
  <2> QED
    BY <1>1, <2>1, <2>2, OrderKept
<1>b. CASE dest_exists \/ topologic_sort \/ apply_unchecked
  <2>1. /\ pc' = pc /\ pc \in {"dest_exists", "topologic_sort", "apply_unchecked"}
        /\ \/ Keeps
           \/ \E x \in Unchecked :
                /\ Accepts(x)
                /\ \/ UNCHANGED prev_spec /\ dest_exists /\ x = it
                   \/ \E d \in Pending : /\ prev_spec' = [prev_spec EXCEPT ![x] = d]
                                         /\ old_name[d] = new_name[x]
    <3>1. CASE apply_unchecked
      BY <1>1, <3>1, AcceptingScans DEF CheckedInv
    <3>2. CASE dest_exists \/ topologic_sort
      BY <3>2, AcceptingScans
    <3> QED
      BY <1>b, <3>1, <3>2
  <2>2. CASE Keeps
    BY <1>1, <2>1, <2>2, OrderKept DEF Keeps
  <2>3. CASE ~Keeps
    <3>1. PICK x \in Unchecked :
                /\ Accepts(x)
                /\ \/ UNCHANGED prev_spec /\ dest_exists /\ x = it
                   \/ \E d \in Pending : /\ prev_spec' = [prev_spec EXCEPT ![x] = d]
                                         /\ old_name[d] = new_name[x]
      BY <2>1, <2>3
    <3>2. /\ x \in Refs /\ x \notin Pending /\ Pending' = Pending \cup {x}
          /\ status'[x] = "APPLY" /\ UNCHANGED <<old_name, new_name>>
      BY <3>1, AcceptFacts
    <3>3. dest_exists /\ x = it => ~file_exists(new_name[x])
      <4> SUFFICES ASSUME dest_exists, x = it, file_exists(new_name[x]) PROVE FALSE
        OBVIOUS
      <4>1. spec = x /\ status[x] = "UNCHECKED"
        BY StateFacts DEF dest_exists, InScan, Unchecked
      <4>2. status' = status
        BY <4>1 DEF dest_exists
      <4> QED
        BY <3>2, <4>1, <4>2
    <3>4. prev_spec[x] = NULL
      BY <1>1 DEF StatusInv
    <3>5. file_exists(old_name[x])
      BY <1>1, <2>1 DEF CheckedInv
    <3>6. \A s \in Pending : prev_spec'[s] = prev_spec[s]
      BY <1>1, <3>1, <3>2 DEF DataTypeOK
    <3>7. IF prev_spec'[x] = NULL THEN ~file_exists(new_name[x])
          ELSE prev_spec'[x] \in Pending /\ old_name[prev_spec'[x]] = new_name[x]
      BY <1>1, <3>1, <3>2, <3>3, <3>4 DEF DataTypeOK
    <3>p. PICK part : part = Pending
      OBVIOUS
    <3>8. InOrder(part)
      BY <1>1, <2>1, <3>p DEF OrderInv, InOrder
    <3>9. InOrder(part)'
      BY <3>2, <3>6, <3>8, <3>p, StillInOrder
    <3>10. InOrder({x} \cup part)'
      <4>1. \A s \in {x} :
              /\ IF prev_spec'[s] = NULL THEN ~file_exists(new_name[s])'
                 ELSE prev_spec'[s] \in {x} \cup part /\ old_name'[prev_spec'[s]] = new_name'[s]
              /\ file_exists(old_name[s])'
        BY <3>2, <3>5, <3>7, <3>p DEF file_exists
      <4> QED
        BY <3>9, <4>1, BothInOrder
    <3>11. Pending' = {x} \cup part
      BY <3>2, <3>p
    <3> QED
      BY <2>1, <3>10, <3>11 DEF OrderInv, InOrder
  <2> QED
    BY <2>2, <2>3
<1>c. CASE FollowToDeadEnd \/ FollowToStart \/ FollowOn
  <2>1. /\ pc = "follow" /\ pc' \in {"cross_reference", "temporary", "follow"}
        /\ UNCHANGED <<old_name, new_name, prev_spec, ok>>
    BY <1>c DEF FollowToDeadEnd, FollowToStart, FollowOn, NextReference
  <2> QED
    BY <1>1, <2>1, OrderKept
<1>d. CASE ReplaceStart
  <2>t. PICK t : t = new_file_spec
    OBVIOUS
  <2>1. /\ pc = "temporary" /\ pc' = "collect" /\ prev_circular' = t
        /\ s1 \in Unchecked /\ s1' = s1 /\ s2' = next_spec[s1]
        /\ t \in Refs \ Listed /\ t \notin Pending
        /\ new_name'[t] = new_name[s1]
        /\ \A s \in Refs \ {s1, t} : prev_spec'[s] = prev_spec[s]
        /\ \A s \in Refs \ {t} : old_name'[s] = old_name[s] /\ new_name'[s] = new_name[s]
        /\ ok' = <<t>> \o ok
    BY <1>d, <2>t, ReplaceStartFacts
  <2>2. Len(ok) \in Nat /\ Len(ok') = Len(ok) + 1 /\ ok'[1] = t /\ Rest(1)' = Pending
    BY <1>1, <1>3, <2>1, FrontFacts, FrontRest
  <2>p. PICK part : part = Pending
    OBVIOUS
  <2>3. \A s \in part : /\ prev_spec'[s] = prev_spec[s]
                        /\ old_name'[s] = old_name[s] /\ new_name'[s] = new_name[s]
    BY <1>1, <2>1, <2>p
  <2>4. InOrder(part)
    BY <1>1, <2>1, <2>p DEF OrderInv, InOrder
  <2>5. InOrder(part)'
    BY <2>3, <2>4, StillInOrder
  <2>6. InOrder(Rest(1))'
    BY <2>2, <2>5, <2>p DEF InOrder
  <2>7. new_name[s1] = IF next_spec[s1] = NULL THEN old_name[s1] ELSE old_name[next_spec[s1]]
    <3>1. PICK n \in Nat \ {0, 1} : \E p \in [1 .. n -> Unchecked] : Walk(n, p) /\ p[1] = s1
      BY <2>1, StateFacts DEF WalkInv
    <3>2. PICK p \in [1 .. n -> Unchecked] : Walk(n, p) /\ p[1] = s1
      BY <3>1
    <3> QED
      BY <1>1, <1>2, <2>1, <3>2, WalkNext
  <2>8. s2' # NULL => old_name'[s2'] = old_name[s2']
    <3>1. s2' # NULL => s2' \in Listed
      <4>1. PICK n \in Nat \ {0, 1} : \E p \in [1 .. n -> Unchecked] : Walk(n, p) /\ p[1] = s1
        BY <2>1, StateFacts DEF WalkInv
      <4>2. PICK p \in [1 .. n -> Unchecked] : Walk(n, p) /\ p[1] = s1
        BY <4>1
      <4>3. 1 \in 1 .. n - 1 /\ 1 + 1 = 2 /\ 2 \in 1 .. n
        OBVIOUS
      <4> QED
        BY <1>1, <2>1, <4>2, <4>3 DEF Walk
    <3> QED
      BY <1>1, <2>1, <3>1
  <2>9. old_name'[s1'] = old_name[s1]
    BY <1>1, <2>1
  <2>10. new_name'[ok'[1]] = IF s2' = NULL THEN old_name'[s1'] ELSE old_name'[s2']
    BY <2>1, <2>2, <2>7, <2>8, <2>9
  <2>11. Collected(1)'
    <3>1. (\A i \in 2 .. 1 : FALSE) /\ (\A i \in 1 .. 1 - 1 : FALSE)
      OBVIOUS
    <3> QED
      BY <2>1, <2>2, <2>6, <2>10, <3>1 DEF Collected
  <2> QED
    BY <2>1, <2>2, <2>11 DEF OrderInv
<1>e. CASE CollectCircular
  <2>1. /\ pc = "collect" /\ pc' = pc /\ prev_circular' = prev_circular
        /\ s1' = s1 /\ s2' = next_spec[s2] /\ s2 # NULL
        /\ s2 \in Unchecked /\ s2 \notin Pending /\ s2 \in Refs
        /\ ok' = <<s2>> \o ok
        /\ UNCHANGED <<old_name, new_name, prev_spec>>
    BY <1>e, CollectFacts
  <2>2. PICK k \in 1 .. Len(ok) : Collected(k)
    BY <1>1, <2>1 DEF OrderInv
  <2>3. /\ Len(ok) \in Nat /\ Len(ok') = Len(ok) + 1 /\ ok'[1] = s2
        /\ \A i \in 1 .. Len(ok) : i + 1 \in 1 .. Len(ok') /\ ok'[i + 1] = ok[i]
        /\ \A i \in 1 .. Len(ok') : i = 1 \/ (i - 1 \in 1 .. Len(ok) /\ ok'[i] = ok[i - 1])
        /\ Rest(k + 1)' = Rest(k)
    BY <1>1, <1>3, <2>1, FrontFacts, FrontRest
  <2>p. PICK part : part = Rest(k)
    OBVIOUS
  <2>4. InOrder(part)
    BY <2>2, <2>p DEF Collected, InOrder
  <2>5. InOrder(part)'
    BY <2>1, <2>4, StillInOrder
  <2>6. InOrder(Rest(k + 1))'
    BY <2>3, <2>5, <2>p DEF InOrder
  <2>7. new_name[s2] = IF next_spec[s2] = NULL THEN old_name[s1] ELSE old_name[next_spec[s2]]
    <3>1. PICK n \in Nat : \E p \in [1 .. n -> Unchecked] :
            Walk(n, p) /\ n # 0 /\ p[1] = s2 /\ next_spec[p[n]] = NULL /\ map[new_name[p[n]]] = s1
      BY <2>1, StateFacts DEF WalkInv
    <3>2. PICK p \in [1 .. n -> Unchecked] :
            Walk(n, p) /\ n # 0 /\ p[1] = s2 /\ next_spec[p[n]] = NULL /\ map[new_name[p[n]]] = s1
      BY <3>1
    <3>3. s1 \in Refs
      BY <2>1, WalkFacts DEF Walking
    <3> QED
      BY <1>2, <2>1, <3>2, <3>3, WalkNext
  <2>8. ok[k] = prev_circular /\ new_name[ok[1]] = old_name[s2]
    BY <2>1, <2>2 DEF Collected
  <2>9. ASSUME NEW i \in 2 .. k + 1
        PROVE  new_name[ok'[i]] = old_name[ok'[i - 1]]
    <3>1. i \in 1 .. Len(ok') /\ i # 1 /\ i - 1 \in 1 .. Len(ok')
      BY <2>3
    <3>2. i - 1 \in 1 .. Len(ok) /\ ok'[i] = ok[i - 1]
      BY <2>3, <3>1
    <3>3. CASE i = 2
      BY <2>3, <2>8, <3>2, <3>3
    <3>4. CASE i # 2
      <4>1. i - 1 \in 2 .. k /\ i - 1 # 1
        BY <3>4
      <4>2. ok'[i - 1] = ok[(i - 1) - 1]
        BY <2>3, <3>1, <4>1
      <4>3. new_name[ok[i - 1]] = old_name[ok[(i - 1) - 1]]
        BY <2>2, <4>1 DEF Collected
      <4> QED
        BY <3>2, <4>2, <4>3
    <3> QED
      BY <3>3, <3>4
  <2>10. ASSUME NEW i \in 1 .. (k + 1) - 1
         PROVE  file_exists(old_name[ok'[i]])
    <3>1. CASE i = 1
      BY <1>1, <1>2, <2>1, <2>3, <3>1 DEF CheckedInv
    <3>2. CASE i # 1
      <4>1. i - 1 \in 1 .. k - 1 /\ i \in 1 .. Len(ok')
        BY <2>3, <3>2
      <4>2. ok'[i] = ok[i - 1]
        BY <2>3, <3>2, <4>1
      <4> QED
        BY <2>2, <4>1, <4>2 DEF Collected
    <3> QED
      BY <3>1, <3>2
  <2>11. k + 1 \in 1 .. Len(ok') /\ ok'[k + 1] = prev_circular'
    BY <2>1, <2>3, <2>8
  <2>12. Collected(k + 1)'
    BY <2>1, <2>3, <2>6, <2>7, <2>9, <2>10, <2>11 DEF Collected, file_exists
  <2> QED
    BY <2>1, <2>11, <2>12 DEF OrderInv
<1>f. CASE AddExtraRename
  <2>1. PICK k \in 1 .. Len(ok) : Collected(k)
    BY <1>1, <1>f DEF OrderInv, AddExtraRename
  <2>e. PICK e : e = new_file_spec
    OBVIOUS
  <2>2. /\ pc = "collect" /\ pc' = "cross_reference" /\ s2 = NULL
        /\ e \in Refs /\ e \notin Pending /\ Pending' = Pending \cup {e}
        /\ old_name'[e] = old_name[s1] /\ new_name'[e] = old_name[prev_circular]
        /\ \A s \in Refs \ {e} : old_name'[s] = old_name[s] /\ new_name'[s] = new_name[s]
        /\ prev_spec'[e] = NULL
        /\ \A i \in 1 .. k : prev_spec'[ok[i]] = IF i = 1 THEN e ELSE ok[i - 1]
        /\ \A s \in Refs \ {e} : (\A i \in 1 .. k : ok[i] # s) => prev_spec'[s] = prev_spec[s]
    <3>1. k = CHOOSE i \in 1 .. Len(ok) : ok[i] = prev_circular
      BY <1>3, <2>1 DEF NoRepeat, Collected
    <3> QED
      BY <1>f, <2>e, <3>1, AddExtraFacts
  <2>3. \A s \in Pending : /\ s # e /\ s # NULL
                           /\ old_name'[s] = old_name[s] /\ new_name'[s] = new_name[s]
    BY <1>1, <2>2
  <2>p. PICK part : part = Rest(k)
    OBVIOUS
  <2>4. ASSUME NEW s \in part
        PROVE  s \in Pending /\ prev_spec'[s] = prev_spec[s]
    <3>1. PICK j \in k + 1 .. Len(ok) : s = ok[j]
      BY <2>p DEF Rest
    <3>2. j \in 1 .. Len(ok) /\ \A i \in 1 .. k : i \in 1 .. Len(ok) /\ i # j
      OBVIOUS
    <3>3. \A i \in 1 .. k : ok[i] # s
      BY <1>3, <3>1, <3>2 DEF NoRepeat
    <3> QED
      BY <1>1, <1>3, <2>2, <3>1, <3>2, <3>3
  <2>5. InOrder(part)
    BY <2>1, <2>p DEF Collected, InOrder
  <2>6. InOrder(part)'
    BY <2>3, <2>4, <2>5, StillInOrder
  <2> DEFINE set == {e} \cup {ok[i] : i \in 1 .. k}
  <2>7. \A i \in 1 .. k : i \in 1 .. Len(ok) /\ ok[i] \in Pending
    BY <1>3
  <2>8. Pending' = set \cup part
    <3>1. \A i \in 1 .. Len(ok) : i \in 1 .. k \/ i \in k + 1 .. Len(ok)
      OBVIOUS
    <3>2. \A i \in k + 1 .. Len(ok) : i \in 1 .. Len(ok)
      OBVIOUS
    <3>3. Pending = {ok[i] : i \in 1 .. k} \cup {ok[i] : i \in k + 1 .. Len(ok)}
      BY <2>7, <3>1, <3>2 DEF Pending, Elems
    <3> QED
      BY <2>2, <2>p, <3>3 DEF Rest
  <2>9. /\ ok[k] = prev_circular
        /\ \A i \in 2 .. k : new_name[ok[i]] = old_name[ok[i - 1]]
        /\ new_name[ok[1]] = old_name[s1]
        /\ \A i \in 1 .. k - 1 : file_exists(old_name[ok[i]])
    BY <2>1, <2>2 DEF Collected
  <2>10. /\ file_exists(old_name[s1]) /\ ~file_exists(old_name[prev_circular])
    BY <1>1, <2>2, StateFacts DEF SourcesInv, NamesInv, TmpInv, Crossing
  <2>11. ASSUME NEW i \in 1 .. k
         PROVE  /\ prev_spec'[ok[i]] \in set /\ prev_spec'[ok[i]] # NULL
                /\ old_name'[prev_spec'[ok[i]]] = new_name'[ok[i]]
    <3>1. CASE i = 1
      BY <1>1, <2>2, <2>3, <2>7, <2>9, <3>1
    <3>2. CASE i # 1
      <4>1. i \in 2 .. k /\ i - 1 \in 1 .. k
        BY <3>2
      <4>2. prev_spec'[ok[i]] = ok[i - 1] /\ new_name[ok[i]] = old_name[ok[i - 1]]
        BY <2>2, <2>9, <3>2, <4>1
      <4> QED
        BY <2>3, <2>7, <4>1, <4>2
    <3> QED
      BY <3>1, <3>2
  <2>12. \A u \in set \ {e} : prev_spec'[u] \in set
    BY <2>11
  <2>13. ASSUME NEW s \in set
         PROVE  /\ IF prev_spec'[s] = NULL THEN ~file_exists(new_name[s])'
                   ELSE prev_spec'[s] \in set \cup part /\ old_name'[prev_spec'[s]] = new_name'[s]
                /\ ~file_exists(old_name[s])' =>
                     \E c \in set : /\ new_name'[c] = old_name'[s]
                                    /\ \A u \in set \ {c} : prev_spec'[u] \in set
    <3>1. CASE s = e
      BY <2>2, <2>10, <3>1 DEF file_exists
    <3>2. CASE s # e
      <4>1. PICK i \in 1 .. k : s = ok[i]
        BY <3>2
      <4>2. ~file_exists(old_name[s])' => i = k
        <5>1. i # k => i \in 1 .. k - 1
          OBVIOUS
        <5> QED
          BY <2>3, <2>7, <2>9, <4>1, <5>1 DEF file_exists
      <4>3. i = k => new_name'[e] = old_name'[s]
        BY <2>2, <2>3, <2>7, <2>9, <4>1
      <4> QED
        BY <2>11, <2>12, <4>1, <4>2, <4>3
    <3> QED
      BY <3>1, <3>2
  <2>s. PICK first : first = set
    OBVIOUS
  <2>14. InOrder(first \cup part)'
    BY <2>6, <2>13, <2>s, BothInOrder
  <2>15. Pending' = first \cup part
    BY <2>8, <2>s
  <2> QED
    BY <2>2, <2>14, <2>15 DEF OrderInv, InOrder
<1> QED
  BY <1>a, <1>b, <1>c, <1>d, <1>e, <1>f DEF make_plan, CrossReferenceResolve

-----------------------------------------------------------------------------
LEMMA StartReady == PlanStart => ReadyInv
<1> SUFFICES ASSUME PlanStart PROVE Ready
  BY DEF ReadyInv
<1>1. PlanInv
  BY StartPlanInv
<1>2. pc = "previous_scan" /\ Pending = {}
  BY EmptyElems DEF PlanStart, InitLocals, EmptyPlan, Pending
<1> QED
  BY <1>2 DEF Ready, CheckedInv, SourcesInv, OrderInv, InOrder, Early

LEMMA NextReady ==
  PlanInv /\ ReadyInv /\ [PlanNext]_makePlanVars => ReadyInv'
<1> SUFFICES ASSUME PlanInv, ReadyInv, [PlanNext]_makePlanVars, Undisturbed'
             PROVE  Ready'
  BY DEF ReadyInv
<1>1. /\ Undisturbed /\ Ready /\ fs' = fs /\ program = "qmv"
      /\ make_plan \/ UNCHANGED makePlanVars
  BY UndisturbedFacts DEF ReadyInv, Undisturbed
<1>2. CASE make_plan
  BY <1>1, <1>2, NextCheckedInv, NextSourcesInv, NextOrderInv DEF Ready
<1>3. CASE UNCHANGED makePlanVars
  <2>1. /\ UNCHANGED <<fs, old_name, new_name, prev_spec, next_spec, status, ok, pc, it,
                       s1, s2, prev_circular, tmp_count, printed, scenario>>
    BY <1>3 DEF makePlanVars, dataVars, fieldVars, planVars, sortVars, crossVars, localVars,
                envVars
  <2>2. /\ Unchecked' = Unchecked /\ Pending' = Pending /\ Listed' = Listed
        /\ printed' = printed /\ tmp_name' = tmp_name
    BY <2>1 DEF Unchecked, Pending, Listed, tmp_name
  <2>3. CheckedInv'
    BY <1>1, <2>1, <2>2 DEF Ready, CheckedInv, file_exists
  <2>4. SourcesInv'
    BY <1>1, <2>1, <2>2 DEF Ready, SourcesInv, file_exists, Temporary
  <2>5. OrderInv'
    <3>1. CASE pc = "collect"
      <4>1. PICK k \in 1 .. Len(ok) : Collected(k)
        BY <1>1, <3>1 DEF Ready, OrderInv
      <4>p. PICK part : part = Rest(k)
        OBVIOUS
      <4>2. InOrder(part)'
        BY <1>1, <2>1, <4>1, <4>p, StillInOrder DEF Collected
      <4>3. Rest(k)' = part
        BY <2>1, <4>p DEF Rest
      <4>4. InOrder(Rest(k))'
        BY <4>2, <4>3 DEF InOrder
      <4>5. Collected(k)'
        BY <1>1, <2>1, <4>1, <4>4 DEF Collected, file_exists
      <4> QED
        BY <2>1, <3>1, <4>1, <4>5 DEF OrderInv
    <3>2. CASE pc # "collect"
      BY <1>1, <2>1, <3>2, OrderKept DEF Ready
    <3> QED
      BY <3>1, <3>2
  <2> QED
    BY <2>3, <2>4, <2>5 DEF Ready
<1> QED
  BY <1>1, <1>2, <1>3

\* The invariant is inductive.
LEMMA ReadyAlways == PlanSpec => [](PlanInv /\ ReadyInv)
<1>1. PlanInit => PlanInv /\ ReadyInv
  BY InitStarts, StartPlanInv, StartReady
<1> QED
  BY <1>1, NextPlanInv, NextReady, PTL DEF PlanSpec

\* Of two renames one of which fills the source of the other, that one comes first.
LEMMA PlannedSourcesOrdered ==
  ASSUME PlanInv, Ready, Planned
  PROVE  SourcesOrdered
<1> SUFFICES ASSUME NEW s \in Pending, NEW t \in Pending, new_name[t] = old_name[s]
             PROVE  prev_spec[t] = s \/ WaitsFor(s, t)
  BY DEF SourcesOrdered
<1>1. DestInv /\ SourcesInv /\ InOrder(Pending)
  BY StateFacts DEF NamesInv, Ready, OrderInv, Planned
<1>2. CASE prev_spec[t] # NULL
  <2>1. prev_spec[t] \in Pending /\ old_name[prev_spec[t]] = old_name[s]
    BY <1>1, <1>2 DEF InOrder
  <2> QED
    BY <1>1, <2>1 DEF SourcesInv
<1>3. CASE prev_spec[t] = NULL
  <2>1. ~file_exists(old_name[s])
    BY <1>1, <1>3 DEF InOrder
  <2>2. PICK e \in Pending, chain \in SUBSET Pending :
          /\ new_name[e] = old_name[s]
          /\ {s, e} \subseteq chain
          /\ \A u \in chain \ {e} : prev_spec[u] \in chain
    BY <1>1, <2>1 DEF InOrder
  <2>3. e = t
    BY <1>1, <2>2 DEF DestInv
  <2> QED
    BY <2>2, <2>3 DEF WaitsFor
<1> QED
  BY <1>2, <1>3

\* What make_plan ends with, undisturbed, is a plan that apply_plan can start on.
LEMMA PlannedReady == PlanInv /\ ReadyInv => PlanIsReady
<1> SUFFICES ASSUME PlanInv, ReadyInv, Planned, external = 0, program = "qmv"
             PROVE  /\ PlanReady
                    /\ \A s \in Pending : prev_spec[s] = NULL => ~file_exists(new_name[s])
  BY DEF PlanIsReady
<1>1. /\ Ready /\ SourcesInv /\ InOrder(Pending) /\ StatusInv /\ DestInv
      /\ Sorted /\ Mirrored /\ NoRepeat
  BY StateFacts DEF ReadyInv, Undisturbed, Ready, OrderInv, Planned, NamesInv, LinksInv
<1>2. SourcesOrdered
  BY <1>1, PlannedSourcesOrdered
<1>3. \A s \in Pending : prev_spec[s] = NULL => ~file_exists(new_name[s])
  BY <1>1 DEF InOrder
<1>4. Vacated
  BY <1>1, <1>3 DEF Vacated, InOrder, file_exists
<1>5. NamesDistinct
  BY <1>1 DEF NamesDistinct, SourcesInv, DestInv
<1>6. \A s \in Pending : status[s] \in OkStatus /\ {old_name[s], new_name[s]} \subseteq FileNames
  BY <1>1 DEF StatusInv, SourcesInv
<1> QED
  BY <1>1, <1>2, <1>3, <1>4, <1>5, <1>6 DEF PlanReady

(***************************************************************************)
(* Undisturbed, make_plan gives qmv a plan that apply_plan can work off    *)
(* without overwriting a file: every destination is free or vacated first, *)
(* and the temporary names of circular sets are filled before they are     *)
(* vacated.  With RestOfPlanReadyAlways and NoFileLostAlways, which start  *)
(* from such a plan, no file is lost from the edit to the last mv.         *)
(***************************************************************************)
THEOREM PlanIsReadyAlways == PlanSpec => []PlanIsReady
  BY PlannedReady, ReadyAlways, PTL

==============================================================================
