---------------------------- MODULE ApplyPlanProofs ----------------------------
(***************************************************************************)
(* Proofs about ApplyPlan, for any number of renames and any file names.   *)
(***************************************************************************)
EXTENDS ApplyPlan, FileSpecsProofs

USE DEF First

-----------------------------------------------------------------------------
(***************************************************************************)
(* The part of the inductive invariant that holds for any command: the     *)
(* links between the renames, and where a pass without failure stands.     *)
(***************************************************************************)
PendingOK ==
  \A s \in Pending : /\ status[s] \in OkStatus
                     /\ old_name[s] \in FileNames /\ new_name[s] \in FileNames

LoopInv ==
  /\ ApplyTypeOK
  /\ Sorted /\ Mirrored /\ NoRepeat
  /\ PendingOK
  /\ applying /\ ~fail => pos = 1

\* NULL is no FileSpec.
LEMMA RefsNotNull == NULL \notin Refs
  BY DataAssumption DEF NULL, Refs

\* What the plan lists are FileSpecs.
LEMMA PendingInRefs ==
  ASSUME DataTypeOK
  PROVE  /\ Pending \subseteq Refs
         /\ \A i \in 1 .. Len(ok) : ok[i] \in Pending
  BY DEF DataTypeOK, Pending, Elems

\* llist_remove leaves a list of FileSpecs.
LEMMA RemoveType ==
  ASSUME NEW S, NEW list \in Seq(S), NEW s
  PROVE  Remove(list, s) \in Seq(S)
<1>1. CASE s \notin Elems(list)
  BY <1>1 DEF Remove
<1>2. CASE s \in Elems(list)
  <2>1. (CHOOSE i \in 1 .. Len(list) : list[i] = s) \in 1 .. Len(list)
    BY <1>2 DEF Elems
  <2> QED
    BY <1>2, <2>1, WithoutType DEF Remove
<1> QED
  BY <1>1, <1>2

(***************************************************************************)
(* What a successful rename does to the rest of the plan: it leaves the    *)
(* list, and the rename that waited for it waits no more.                  *)
(***************************************************************************)
LEMMA SucceedEffect ==
  ASSUME LoopInv, Succeed
  PROVE  /\ rename \in Pending /\ prev_spec[rename] = NULL
         /\ Pending' = Pending \ {rename}
         /\ prev_spec' \in [Refs -> Refs \cup {NULL}]
         /\ \A u \in Pending' :
              prev_spec'[u] = IF prev_spec[u] = rename THEN NULL ELSE prev_spec[u]
         /\ next_spec' = next_spec
         /\ status' = [status EXCEPT ![rename] = "FREED"]
         /\ UNCHANGED <<old_name, new_name>>
<1> DEFINE s == rename
<1>1. /\ pos \in 1 .. Len(ok) /\ s = ok[pos] /\ ok \in Seq(Refs)
      /\ prev_spec[s] = NULL /\ ok' = Without(ok, pos)
      /\ prev_spec \in [Refs -> Refs \cup {NULL}]
      /\ next_spec \in [Refs -> Refs \cup {NULL}]
  BY DEF LoopInv, ApplyTypeOK, DataTypeOK, Succeed, InLoop, DependsOnFailed, rename
<1>2. s \in Pending /\ s \in Refs
  BY <1>1 DEF Pending, Elems
<1>3. Pending' = Pending \ {s}
  BY <1>1, WithoutElems DEF LoopInv, NoRepeat, Pending
<1>4. /\ next_spec' = next_spec
      /\ prev_spec' = IF next_spec[s] = NULL THEN prev_spec
                      ELSE [prev_spec EXCEPT ![next_spec[s]] = NULL]
      /\ status' = [status EXCEPT ![s] = "FREED"]
      /\ UNCHANGED <<old_name, new_name>>
  BY <1>1 DEF Succeed, free_file_spec
<1>5. prev_spec' \in [Refs -> Refs \cup {NULL}]
  BY <1>1, <1>2, <1>4
<1>6. ASSUME NEW u \in Pending'
      PROVE  prev_spec'[u] = IF prev_spec[u] = s THEN NULL ELSE prev_spec[u]
  <2>0. Pending \subseteq Refs
    BY <1>1 DEF Pending, Elems
  <2>1. u \in Pending /\ u \in Refs /\ u # NULL /\ s # NULL
    BY <1>2, <1>3, <1>6, <2>0, RefsNotNull
  <2>2. prev_spec[u] = s => next_spec[s] = u
    BY <2>1 DEF LoopInv, Mirrored
  <2>3. next_spec[s] = u => prev_spec[u] = s
    BY <1>2, <2>1 DEF LoopInv, Mirrored
  <2> QED
    BY <1>1, <1>4, <2>1, <2>2, <2>3
<1> QED
  BY <1>1, <1>2, <1>3, <1>4, <1>5, <1>6

\* A successful rename keeps the rest of the plan sorted and its links mirrored.
LEMMA SucceedKeepsLinks ==
  ASSUME LoopInv, Succeed
  PROVE  Sorted' /\ Mirrored' /\ NoRepeat' /\ PendingOK'
<1>1. /\ pos \in 1 .. Len(ok) /\ rename = ok[pos] /\ ok \in Seq(Refs)
      /\ ok' = Without(ok, pos)
      /\ status \in [Refs -> FileSpecStatus \cup MemoryStatus]
      /\ next_spec \in [Refs -> Refs \cup {NULL}]
      /\ Sorted /\ Mirrored /\ NoRepeat /\ PendingOK
  BY DEF LoopInv, ApplyTypeOK, DataTypeOK, Succeed, InLoop, rename
<1>2. /\ rename \in Pending /\ prev_spec[rename] = NULL
      /\ Pending' = Pending \ {rename}
      /\ \A u \in Pending' :
           prev_spec'[u] = IF prev_spec[u] = rename THEN NULL ELSE prev_spec[u]
      /\ next_spec' = next_spec
      /\ status' = [status EXCEPT ![rename] = "FREED"]
      /\ UNCHANGED <<old_name, new_name>>
  BY SucceedEffect
<1>3. Pending \subseteq Refs /\ NULL \notin Refs
  BY <1>1, RefsNotNull DEF Pending, Elems
<1>4. /\ Len(ok') = Len(ok) - 1
      /\ \A j \in 1 .. Len(ok) - 1 :
           ok'[j] = IF j < pos THEN ok[j] ELSE ok[j + 1]
  BY <1>1, WithoutType
<1>5. NoRepeat'
  BY <1>1, WithoutElems DEF NoRepeat
<1>6. PendingOK'
  BY <1>1, <1>2, <1>3 DEF PendingOK
<1>7. Mirrored'
  <2> SUFFICES ASSUME NEW u \in Pending'
               PROVE  /\ prev_spec'[u] # NULL =>
                           /\ prev_spec'[u] \in Pending'
                           /\ next_spec'[prev_spec'[u]] = u
                      /\ next_spec'[u] # NULL =>
                           /\ next_spec'[u] \in Pending'
                           /\ prev_spec'[next_spec'[u]] = u
    BY DEF Mirrored
  <2>1. u \in Pending /\ u # rename /\ u # NULL
    BY <1>2, <1>3
  <2>2. prev_spec'[u] # NULL => /\ prev_spec'[u] \in Pending'
                                /\ next_spec'[prev_spec'[u]] = u
    BY <1>1, <1>2, <2>1 DEF Mirrored
  <2>3. next_spec[u] # NULL => /\ next_spec[u] \in Pending
                               /\ prev_spec[next_spec[u]] = u
    BY <1>1, <2>1 DEF Mirrored
  <2>4. next_spec[u] # NULL => next_spec[u] \in Pending'
    BY <1>2, <2>1, <2>3
  <2> QED
    BY <1>2, <2>1, <2>2, <2>3, <2>4
<1>8. Sorted'
  <2> SUFFICES ASSUME NEW i \in 1 .. Len(ok'), prev_spec'[ok'[i]] # NULL
               PROVE  \E j \in 1 .. i - 1 : ok'[j] = prev_spec'[ok'[i]]
    BY DEF Sorted
  <2> DEFINE k == IF i < pos THEN i ELSE i + 1
  <2>1. k \in 1 .. Len(ok) /\ ok'[i] = ok[k] /\ ok'[i] \in Pending'
    BY <1>1, <1>4 DEF Pending, Elems
  <2>2. prev_spec'[ok'[i]] = prev_spec[ok[k]] /\ prev_spec[ok[k]] # rename
    BY <1>2, <2>1
  <2>3. PICK j \in 1 .. k - 1 : ok[j] = prev_spec[ok[k]]
    BY <1>1, <2>1, <2>2 DEF Sorted
  <2>4. j # pos
    BY <1>1, <2>2, <2>3
  <2>5. CASE j < pos
    <3>1. j \in 1 .. i - 1 /\ j \in 1 .. Len(ok) - 1
      BY <1>1, <1>4, <2>3, <2>5
    <3>2. ok'[j] = ok[j]
      BY <1>4, <2>5, <3>1
    <3> QED
      BY <3>1, <3>2, <2>2, <2>3
  <2>6. CASE j > pos
    <3>1. j - 1 \in 1 .. i - 1 /\ j - 1 \in 1 .. Len(ok) - 1
      BY <1>1, <1>4, <2>3, <2>6
    <3>2. ~(j - 1 < pos) /\ (j - 1) + 1 = j
      BY <1>1, <2>3, <2>6
    <3>3. ok'[j - 1] = ok[j]
      BY <1>4, <3>1, <3>2
    <3> QED
      BY <3>1, <3>3, <2>2, <2>3
  <2> QED
    BY <1>1, <2>4, <2>5, <2>6
<1> QED
  BY <1>5, <1>6, <1>7, <1>8

-----------------------------------------------------------------------------
(***************************************************************************)
(* The links depend on the plan and on the specs, not on the directory.    *)
(***************************************************************************)
Links == Sorted /\ Mirrored /\ NoRepeat /\ PendingOK

\* A step that leaves the plan and the specs alone keeps the links.
LEMMA LinksUnchanged ==
  ASSUME Links, UNCHANGED <<ok, fieldVars>>
  PROVE  Links'
<1>1. Pending' = Pending
  BY DEF Pending, Elems
<1>2. Sorted' /\ NoRepeat'
  BY DEF Links, Sorted, NoRepeat, fieldVars
<1>3. Mirrored' /\ PendingOK'
  BY <1>1 DEF Links, Mirrored, PendingOK, fieldVars
<1> QED
  BY <1>2, <1>3 DEF Links

\* Every plan that apply_plan can be given satisfies the loop invariant.
LEMMA LoopInit == ApplyInit => LoopInv
<1> SUFFICES ASSUME ApplyInit PROVE LoopInv
  OBVIOUS
<1>1. ok \in Seq(Refs) /\ Len(ok) = MaxSpecs /\ \A i \in Refs : ok[i] = i
  <2>1. ok \in [1 .. MaxSpecs -> Refs]
    BY DEF ApplyInit, Refs
  <2>2. ok \in Seq(Refs)
    BY <2>1, SeqDef, DataAssumption
  <2> QED
    BY <2>1, <2>2, LenProperties, DataAssumption DEF ApplyInit, Refs
<1>2. fs \in [FileNames -> FileNames \cup {NoFile, Partial}]
  BY DEF ApplyInit
<1>3. next_spec \in [Refs -> Refs \cup {NULL}]
  BY DEF ApplyInit, FollowerOf
<1>4. DataTypeOK
  BY <1>1, <1>2, <1>3 DEF ApplyInit, DataTypeOK, FileSpecStatus
<1>5. PendingOK
  BY DEF ApplyInit, PlanReady, PendingOK
<1>6. Sorted /\ Mirrored /\ NoRepeat /\ ~applying /\ fail = FALSE /\ pos = 1
  BY DEF ApplyInit, PlanReady
<1>7. applying \in BOOLEAN /\ fail \in BOOLEAN
  BY DEF ApplyInit
<1>8. pos \in Nat \ {0}
  BY <1>6
<1> QED
  BY <1>4, <1>5, <1>6, <1>7, <1>8 DEF LoopInv, ApplyTypeOK

(***************************************************************************)
(* Every step keeps the loop invariant.                                    *)
(***************************************************************************)
LEMMA LoopStep == LoopInv /\ [ApplyNext]_applyVars => LoopInv'
<1> SUFFICES ASSUME LoopInv, [ApplyNext]_applyVars PROVE LoopInv'
  OBVIOUS
<1> USE DEF LoopInv
<1>0. ASSUME UNCHANGED <<ok, fieldVars>>
      PROVE  Sorted' /\ Mirrored' /\ NoRepeat' /\ PendingOK'
  BY <1>0, LinksUnchanged DEF Links
<1>1. CASE StartApply
  <2>1. DataTypeOK'
    BY <1>1 DEF StartApply, ApplyTypeOK, DataTypeOK, dataVars, fieldVars, planVars
  <2>2. applying' = TRUE /\ fail' = FALSE /\ pos' = 1 /\ UNCHANGED <<ok, fieldVars>>
    BY <1>1 DEF StartApply, dataVars, planVars
  <2>3. pos' \in Nat \ {0}
    BY <2>2
  <2> QED
    BY <1>0, <2>1, <2>2, <2>3 DEF ApplyTypeOK
<1>2. CASE Skip
  <2>1. UNCHANGED <<dataVars, applying, fail>> /\ pos' = pos + 1
    BY <1>2 DEF Skip
  <2>2. ~(applying /\ ~fail)
    <3> SUFFICES ASSUME applying, ~fail PROVE FALSE
      OBVIOUS
    <3>1. pos = 1 /\ 1 \in 1 .. Len(ok) /\ rename = ok[1]
      BY <1>2 DEF Skip, InLoop, rename, ApplyTypeOK, DataTypeOK
    <3>2. ok[1] \in Pending
      BY <3>1 DEF Pending, Elems
    <3>3. prev_spec[ok[1]] = NULL
      BY <3>1 DEF Sorted
    <3>4. status[ok[1]] \in OkStatus
      BY <3>2 DEF PendingOK
    <3> QED
      BY <1>2, <3>1, <3>3, <3>4 DEF Skip, Eligible, DependsOnFailed
  <2>3. DataTypeOK' /\ UNCHANGED <<ok, fieldVars>>
    BY <2>1 DEF ApplyTypeOK, DataTypeOK, dataVars, fieldVars, planVars
  <2>4. pos' \in Nat \ {0}
    BY <2>1 DEF ApplyTypeOK
  <2> QED
    BY <1>0, <2>1, <2>2, <2>3, <2>4 DEF ApplyTypeOK
<1>3. CASE Succeed
  <2>1. Sorted' /\ Mirrored' /\ NoRepeat' /\ PendingOK'
    BY <1>3, SucceedKeepsLinks
  <2>2. ok' \in Seq(Refs)
    BY <1>3, WithoutType DEF Succeed, InLoop, ApplyTypeOK, DataTypeOK
  <2>3. work_files' \in Seq(Refs)
    BY <1>3, RemoveType DEF Succeed, ApplyTypeOK, DataTypeOK
  <2>4. /\ prev_spec' \in [Refs -> Refs \cup {NULL}]
        /\ next_spec' \in [Refs -> Refs \cup {NULL}]
        /\ status' \in [Refs -> FileSpecStatus \cup MemoryStatus]
        /\ old_name' \in [Refs -> FileNames \cup {NoFile}]
        /\ new_name' \in [Refs -> FileNames \cup {NoFile}]
    <3>1. /\ prev_spec' \in [Refs -> Refs \cup {NULL}]
          /\ next_spec' = next_spec
          /\ status' = [status EXCEPT ![rename] = "FREED"]
          /\ UNCHANGED <<old_name, new_name>>
      BY <1>3, SucceedEffect
    <3> QED
      BY <3>1 DEF ApplyTypeOK, DataTypeOK, MemoryStatus
  <2>5. fs' \in [FileNames -> FileNames \cup {NoFile, Partial}]
    <3>1. rename \in Pending
      BY <1>3, SucceedEffect
    <3>2. old_name[rename] \in FileNames /\ new_name[rename] \in FileNames
      BY <3>1 DEF PendingOK
    <3> QED
      BY <1>3, <3>2 DEF Succeed, PerformOk, CanPerform, Move, Copy, ApplyTypeOK, DataTypeOK
  <2> QED
    BY <1>3, <2>1, <2>2, <2>3, <2>4, <2>5
    DEF Succeed, loopVars, ApplyTypeOK, DataTypeOK
<1>4. CASE Fail
  <2>1. old_name[rename] \in FileNames /\ new_name[rename] \in FileNames
    <3>1. rename \in Pending
      BY <1>4 DEF Fail, InLoop, rename, Pending, Elems, ApplyTypeOK, DataTypeOK
    <3> QED
      BY <3>1 DEF PendingOK
  <2>2. fs' \in [FileNames -> FileNames \cup {NoFile, Partial}]
    BY <1>4, <2>1 DEF Fail, PerformFailed, PerformOk, CanPerform, Interrupted, Move, Copy,
                      ApplyTypeOK, DataTypeOK
  <2>3. DataTypeOK' /\ UNCHANGED <<ok, fieldVars>>
    BY <1>4, <2>2 DEF Fail, ApplyTypeOK, DataTypeOK, fieldVars, planVars
  <2>4. pos' \in Nat \ {0}
    BY <1>4 DEF Fail, ApplyTypeOK
  <2>5. fail' = TRUE /\ applying' = applying
    BY <1>4 DEF Fail
  <2> QED
    BY <1>0, <2>3, <2>4, <2>5 DEF ApplyTypeOK
<1>5. CASE EndApply
  <2>1. DataTypeOK' /\ UNCHANGED <<ok, fieldVars>>
    BY <1>5 DEF EndApply, ApplyTypeOK, DataTypeOK, dataVars, fieldVars, planVars
  <2>2. applying' = FALSE /\ pos' = 1 /\ fail' = fail
    BY <1>5 DEF EndApply
  <2>3. pos' \in Nat \ {0}
    BY <2>2
  <2> QED
    BY <1>0, <2>1, <2>2, <2>3 DEF ApplyTypeOK
<1>6. CASE UNCHANGED applyVars
  <2>1. DataTypeOK' /\ UNCHANGED <<ok, fieldVars>>
    BY <1>6 DEF ApplyTypeOK, DataTypeOK, applyVars, dataVars, fieldVars, planVars
  <2>2. UNCHANGED <<applying, pos, fail>>
    BY <1>6 DEF applyVars, loopVars
  <2> QED
    BY <1>0, <2>1, <2>2 DEF ApplyTypeOK
<1> QED
  BY <1>1, <1>2, <1>3, <1>4, <1>5, <1>6 DEF ApplyNext, apply_plan, ApplyEmptyPlan

\* The loop invariant holds throughout, whatever fails.
LEMMA LoopInvariant == ApplySpec => []LoopInv
  BY LoopInit, LoopStep, PTL DEF ApplySpec

(***************************************************************************)
(* The state of apply_plan is always well formed.                          *)
(***************************************************************************)
THEOREM ApplyTypeCorrect == ApplySpec => []ApplyTypeOK
  BY LoopInvariant, PTL DEF LoopInv

(***************************************************************************)
(* A pass of apply_plan in which no command failed carries out the whole   *)
(* plan, for any number of renames and any command.                        *)
(***************************************************************************)
THEOREM OnePassSufficesAlways == ApplySpec => []OnePassSuffices
<1>1. LoopInv => OnePassSuffices
  <2> SUFFICES ASSUME LoopInv, applying, pos > Len(ok), ~fail PROVE ok = <<>>
    BY DEF OnePassSuffices
  <2>1. ok \in Seq(Refs) /\ pos = 1
    BY DEF LoopInv, ApplyTypeOK, DataTypeOK
  <2>2. Len(ok) = 0
    BY <2>1, LenProperties
  <2> QED
    BY <2>1, <2>2, EmptySeq
<1> QED
  BY <1>1, LoopInvariant, PTL

-----------------------------------------------------------------------------
(***************************************************************************)
(* The part of the invariant that makes mv safe.                           *)
(***************************************************************************)
SafeInv ==
  /\ NamesDistinct
  /\ SourcesOrdered
  /\ simulate \/ Vacated

\* A rename that is about to be done is not awaited by its own source.
LEMMA SourceNotFilledBy ==
  ASSUME LoopInv, SafeInv,
         NEW s \in Pending, NEW u \in Pending, u # s,
         prev_spec[s] = NULL, prev_spec[u] = NULL
  PROVE  new_name[s] # old_name[u]
<1> SUFFICES ASSUME new_name[s] = old_name[u] PROVE FALSE
  OBVIOUS
<1>1. Pending \subseteq Refs /\ NULL \notin Refs
  BY RefsNotNull DEF LoopInv, ApplyTypeOK, DataTypeOK, Pending, Elems
<1>2. prev_spec[s] = u \/ WaitsFor(u, s)
  BY DEF SafeInv, SourcesOrdered
<1>3. prev_spec[s] # u
  BY <1>1
<1>4. PICK chain \in SUBSET Pending :
        {u, s} \subseteq chain /\ \A v \in chain \ {s} : prev_spec[v] \in chain
  BY <1>2, <1>3 DEF WaitsFor
<1>5. prev_spec[u] \in Refs
  BY <1>1, <1>4
<1> QED
  BY <1>1, <1>5

\* A successful rename keeps the order of those that fill and vacate a name.
LEMMA SucceedKeepsOrder ==
  ASSUME LoopInv, SafeInv, Succeed
  PROVE  NamesDistinct' /\ SourcesOrdered'
<1>1. /\ rename \in Pending /\ prev_spec[rename] = NULL
      /\ Pending' = Pending \ {rename}
      /\ \A u \in Pending' :
           prev_spec'[u] = IF prev_spec[u] = rename THEN NULL ELSE prev_spec[u]
      /\ old_name' = old_name /\ new_name' = new_name
  BY SucceedEffect
<1>2. Pending \subseteq Refs /\ NULL \notin Refs
  BY RefsNotNull DEF LoopInv, ApplyTypeOK, DataTypeOK, Pending, Elems
<1>3. NamesDistinct'
  BY <1>1 DEF SafeInv, NamesDistinct
<1>4. SourcesOrdered'
  <2> SUFFICES ASSUME NEW s \in Pending', NEW t \in Pending', new_name'[t] = old_name'[s]
               PROVE  prev_spec'[t] = s \/ WaitsFor(s, t)'
    BY DEF SourcesOrdered
  <2>1. prev_spec[t] = s \/ WaitsFor(s, t)
    BY <1>1 DEF SafeInv, SourcesOrdered
  <2>2. CASE prev_spec[t] = s
    BY <1>1, <2>2
  <2>3. CASE WaitsFor(s, t)
    <3>1. PICK chain \in SUBSET Pending :
            {s, t} \subseteq chain /\ \A u \in chain \ {t} : prev_spec[u] \in chain
      BY <2>3 DEF WaitsFor
    <3>2. rename \notin chain
      BY <1>1, <1>2, <3>1
    <3>3. chain \in SUBSET Pending'
      BY <1>1, <3>1, <3>2
    <3>4. \A u \in chain \ {t} : prev_spec'[u] \in chain
      BY <1>1, <3>1, <3>2, <3>3
    <3> QED
      BY <3>1, <3>3, <3>4 DEF WaitsFor
  <2> QED
    BY <2>1, <2>2, <2>3
<1> QED
  BY <1>3, <1>4

(***************************************************************************)
(* What a command can do to the directory, for the specs s that are done   *)
(* or tried and u that are not.                                            *)
(***************************************************************************)
LEMMA CommandKeepsVacated ==
  ASSUME Command = "mv", LoopInv, SafeInv, ~simulate,
         NEW s \in Pending, prev_spec[s] = NULL,
         PerformFailed(s),
         NEW u \in Pending, prev_spec[u] = NULL
  PROVE  \/ fs'[new_name[u]] \in {NoFile, Partial}
         \/ fs'[old_name[u]] = NoFile
<1>1. /\ fs \in [FileNames -> FileNames \cup {NoFile, Partial}]
      /\ old_name[s] \in FileNames /\ new_name[s] \in FileNames
      /\ old_name[u] \in FileNames /\ new_name[u] \in FileNames
  BY DEF LoopInv, ApplyTypeOK, DataTypeOK, PendingOK
<1>2. fs[new_name[u]] \in {NoFile, Partial} \/ fs[old_name[u]] = NoFile
  BY DEF SafeInv, Vacated, file_exists
<1>3. /\ old_name[s] # new_name[s]
      /\ u # s => new_name[u] # new_name[s] /\ old_name[u] # old_name[s]
  BY DEF SafeInv, NamesDistinct
<1>4. u # s => new_name[s] # old_name[u]
  BY SourceNotFilledBy
<1>5. CASE UNCHANGED fs
  BY <1>2, <1>5
<1>6. CASE fs' = Interrupted(fs, new_name[s])
  BY <1>1, <1>2, <1>3, <1>4, <1>6 DEF Interrupted
<1>7. CASE fs' = Move(fs, old_name[s], new_name[s])
  BY <1>1, <1>2, <1>3, <1>4, <1>7 DEF Move
<1> QED
  BY <1>5, <1>6, <1>7 DEF PerformFailed, PerformOk, CanPerform

\* The options that main has set stay as they are.
LEMMA OptionsKept ==
  ASSUME [ApplyNext]_applyVars
  PROVE  Command' = Command /\ simulate' = simulate
<1>1. options' = options
  BY DEF ApplyNext, apply_plan, StartApply, ApplyEmptyPlan, Skip, Succeed, Fail,
         EndApply, applyVars, dataVars
<1> QED
  BY <1>1 DEF Command, program, force_command, simulate

\* Every step of qmv keeps the safety invariant: no pending destination gets filled.
LEMMA SafeStep ==
  ASSUME Command = "mv", LoopInv, SafeInv, [ApplyNext]_applyVars
  PROVE  SafeInv'
<1>0. simulate' = simulate
  BY OptionsKept
<1>1. ASSUME UNCHANGED <<ok, fieldVars>>
      PROVE  NamesDistinct' /\ SourcesOrdered'
  <2>1. Pending' = Pending
    BY <1>1 DEF Pending, Elems
  <2>2. \A s, t \in Pending : WaitsFor(s, t) => WaitsFor(s, t)'
    BY <1>1, <2>1 DEF WaitsFor, fieldVars
  <2> QED
    BY <1>1, <2>1, <2>2 DEF SafeInv, NamesDistinct, SourcesOrdered, fieldVars
<1>2. ASSUME UNCHANGED dataVars PROVE SafeInv'
  <2>1. Vacated => Vacated'
    BY <1>2 DEF Vacated, Pending, Elems, file_exists, dataVars, fieldVars, planVars
  <2>2. NamesDistinct' /\ SourcesOrdered'
    BY <1>1, <1>2 DEF dataVars, planVars
  <2> QED
    BY <1>0, <2>1, <2>2 DEF SafeInv
<1>3. CASE Succeed
  <2>1. NamesDistinct' /\ SourcesOrdered'
    BY <1>3, SucceedKeepsOrder
  <2>2. ASSUME ~simulate PROVE Vacated'
    <3>1. /\ rename \in Pending /\ prev_spec[rename] = NULL
          /\ Pending' = Pending \ {rename}
          /\ \A u \in Pending' :
               prev_spec'[u] = IF prev_spec[u] = rename THEN NULL ELSE prev_spec[u]
          /\ old_name' = old_name /\ new_name' = new_name
      BY <1>3, SucceedEffect
    <3>2. PerformOk(rename) /\ PerformFailed(rename)
      BY <1>3, <2>2 DEF Succeed, PerformFailed
    <3> SUFFICES ASSUME NEW u \in Pending'
                 PROVE  IF prev_spec'[u] = NULL
                        THEN \/ fs'[new_name[u]] \in {NoFile, Partial}
                             \/ fs'[old_name[u]] = NoFile
                        ELSE old_name[prev_spec'[u]] = new_name[u]
      BY <3>1 DEF Vacated, file_exists
    <3>3. CASE prev_spec[u] = NULL
      BY <2>2, <3>1, <3>2, <3>3, CommandKeepsVacated
    <3>4. CASE prev_spec[u] = rename
      <4>1. rename # NULL
        BY <3>1, RefsNotNull DEF LoopInv, ApplyTypeOK, DataTypeOK, Pending, Elems
      <4>2. old_name[rename] = new_name[u] /\ old_name[rename] # new_name[rename]
        BY <2>2, <3>1, <3>4, <4>1 DEF SafeInv, Vacated, NamesDistinct
      <4>3. /\ fs \in [FileNames -> FileNames \cup {NoFile, Partial}]
            /\ old_name[rename] \in FileNames /\ new_name[rename] \in FileNames
        BY <3>1 DEF LoopInv, ApplyTypeOK, DataTypeOK, PendingOK
      <4>4. fs' = Move(fs, old_name[rename], new_name[rename])
        BY <3>2 DEF PerformOk, CanPerform
      <4>5. fs'[new_name[u]] = NoFile
        BY <4>2, <4>3, <4>4 DEF Move
      <4> QED
        BY <3>1, <3>4, <4>5
    <3>5. CASE prev_spec[u] # NULL /\ prev_spec[u] # rename
      BY <2>2, <3>1, <3>5 DEF SafeInv, Vacated
    <3> QED
      BY <3>3, <3>4, <3>5
  <2> QED
    BY <1>0, <2>1, <2>2 DEF SafeInv
<1>4. CASE Fail
  <2>1. UNCHANGED <<ok, fieldVars>> /\ ~simulate /\ PerformFailed(rename)
    BY <1>4 DEF Fail, planVars
  <2>2. rename \in Pending /\ prev_spec[rename] = NULL
    BY <1>4 DEF Fail, InLoop, DependsOnFailed, rename, Pending, Elems,
                LoopInv, ApplyTypeOK, DataTypeOK
  <2>3. Pending' = Pending /\ UNCHANGED <<old_name, new_name, prev_spec>>
    BY <2>1 DEF Pending, Elems, fieldVars
  <2>4. Vacated'
    <3> SUFFICES ASSUME NEW u \in Pending
                 PROVE  IF prev_spec[u] = NULL
                        THEN \/ fs'[new_name[u]] \in {NoFile, Partial}
                             \/ fs'[old_name[u]] = NoFile
                        ELSE old_name[prev_spec[u]] = new_name[u]
      BY <2>3 DEF Vacated, file_exists
    <3>1. CASE prev_spec[u] = NULL
      BY <2>1, <2>2, <3>1, CommandKeepsVacated
    <3>2. CASE prev_spec[u] # NULL
      BY <2>1, <3>2 DEF SafeInv, Vacated
    <3> QED
      BY <3>1, <3>2
  <2> QED
    BY <1>1, <2>1, <2>4 DEF SafeInv
<1>5. CASE StartApply \/ Skip \/ EndApply \/ ApplyEmptyPlan \/ UNCHANGED applyVars
  BY <1>2, <1>5 DEF StartApply, Skip, EndApply, ApplyEmptyPlan, applyVars
<1> QED
  BY <1>3, <1>4, <1>5 DEF ApplyNext, apply_plan

\* The safety invariant holds throughout for mv, whatever fails.
LEMMA SafeInvariant == ApplySpec /\ Command = "mv" => [](SafeInv /\ Command = "mv")
<1>1. ApplyInit => SafeInv
  BY DEF ApplyInit, PlanReady, SafeInv
<1>2. LoopInv /\ SafeInv /\ Command = "mv" /\ [ApplyNext]_applyVars
        => (SafeInv /\ Command = "mv")'
  BY SafeStep, OptionsKept
<1> QED
  BY <1>1, <1>2, LoopInvariant, PTL DEF ApplySpec

(***************************************************************************)
(* After any successes and failures, what is left of qmv's plan is a plan  *)
(* that can be applied: repeating `apply' is safe.                         *)
(***************************************************************************)
THEOREM RestOfPlanReadyAlways == ApplySpec /\ Command = "mv" => []RestOfPlanReady
<1>1. LoopInv /\ SafeInv => RestOfPlanReady
  BY DEF LoopInv, SafeInv, PendingOK, RestOfPlanReady
<1> QED
  BY <1>1, LoopInvariant, SafeInvariant, PTL

\* No command that perform_command runs for a ready rename replaces a file.
LEMMA CommandLosesNothing ==
  ASSUME Command = "mv", LoopInv, SafeInv, ~simulate,
         NEW s \in Pending, prev_spec[s] = NULL, PerformFailed(s)
  PROVE  Contents \subseteq Contents'
<1>1. /\ fs \in [FileNames -> FileNames \cup {NoFile, Partial}]
      /\ old_name[s] \in FileNames /\ new_name[s] \in FileNames
  BY DEF LoopInv, ApplyTypeOK, DataTypeOK, PendingOK
<1>2. CASE UNCHANGED fs
  BY <1>2 DEF Contents
<1>3. CASE file_exists(old_name[s])
  <2>1. fs[new_name[s]] \in {NoFile, Partial}
    BY <1>3 DEF SafeInv, Vacated
  <2> SUFFICES ASSUME NEW n \in FileNames, fs[n] \notin {NoFile, Partial}
               PROVE  \E m \in FileNames : fs'[m] = fs[n]
    BY DEF Contents
  <2>2. n # new_name[s]
    BY <2>1
  <2>3. CASE fs' = Interrupted(fs, new_name[s])
    BY <1>1, <2>2, <2>3 DEF Interrupted
  <2>4. CASE fs' = Move(fs, old_name[s], new_name[s])
    <3>1. CASE n = old_name[s]
      BY <1>1, <2>2, <2>4, <3>1 DEF Move
    <3>2. CASE n # old_name[s]
      BY <1>1, <2>2, <2>4, <3>2 DEF Move
    <3> QED
      BY <3>1, <3>2
  <2> QED
    BY <2>3, <2>4 DEF PerformFailed, PerformOk, CanPerform
<1> QED
  BY <1>2, <1>3 DEF PerformFailed, PerformOk, CanPerform

(***************************************************************************)
(* mv, as apply_plan runs it on a ready plan, never destroys a file: not   *)
(* when commands fail at any point, and not when the plan is applied again.*)
(***************************************************************************)
THEOREM NoFileLostAlways == ApplySpec /\ Command = "mv" => NoFileLost
<1>1. ASSUME LoopInv, SafeInv, Command = "mv", [ApplyNext]_applyVars
      PROVE  [Contents \subseteq Contents']_applyVars
  <2>1. ASSUME UNCHANGED fs PROVE Contents \subseteq Contents'
    BY <2>1 DEF Contents
  <2>2. CASE Succeed
    <3>1. CASE simulate
      BY <2>1, <2>2, <3>1 DEF Succeed
    <3>2. CASE ~simulate
      <4>1. PerformFailed(rename)
        BY <2>2, <3>2 DEF Succeed, PerformFailed
      <4>2. rename \in Pending /\ prev_spec[rename] = NULL
        BY <1>1, <2>2, SucceedEffect
      <4> QED
        BY <1>1, <3>2, <4>1, <4>2, CommandLosesNothing
    <3> QED
      BY <3>1, <3>2
  <2>3. CASE Fail
    <3>1. PerformFailed(rename) /\ ~simulate
      BY <2>3 DEF Fail
    <3>2. rename \in Pending /\ prev_spec[rename] = NULL
      BY <1>1, <2>3 DEF Fail, InLoop, DependsOnFailed, rename, Pending, Elems,
                        LoopInv, ApplyTypeOK, DataTypeOK
    <3> QED
      BY <1>1, <3>1, <3>2, CommandLosesNothing
  <2>4. CASE StartApply \/ Skip \/ EndApply \/ ApplyEmptyPlan
    BY <2>1, <2>4 DEF StartApply, Skip, EndApply, ApplyEmptyPlan, applyVars, dataVars
  <2> QED
    BY <1>1, <2>2, <2>3, <2>4 DEF ApplyNext, apply_plan
<1>2. LoopInv /\ SafeInv /\ Command = "mv" /\ [ApplyNext]_applyVars
        => [Contents \subseteq Contents']_applyVars
  BY <1>1
<1> QED
  BY <1>2, SafeInvariant, LoopInvariant, PTL DEF ApplySpec, NoFileLost
==============================================================================
