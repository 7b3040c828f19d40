------------------------------- MODULE ApplyPlan -------------------------------
(***************************************************************************)
(* apply_plan (apply.c): run mv or cp for each rename of plan->ok, in      *)
(* order, skipping those that wait for a rename that was not done; a       *)
(* rename that succeeds leaves the plan, so that the rest can be retried.  *)
(*                                                                         *)
(* One action is one iteration of the loop.  The child process that runs   *)
(* the command succeeds, fails before it did anything or half way through  *)
(* a copy, or is reported as failed although it did its work (it was       *)
(* killed late, or wait() failed).                                         *)
(***************************************************************************)
EXTENDS FileSpecs

VARIABLES
  applying,       \* apply_plan runs
  pos,            \* its iterator over plan->ok
  fail

loopVars == <<applying, pos, fail>>
applyVars == <<dataVars, loopVars>>

rename == ok[pos]

CommandAlwaysMv == IF force_command # "" THEN force_command ELSE "mv"
Command == IF force_command # "" THEN force_command
           ELSE IF program = "qmv" THEN "mv" ELSE "cp"

\* Without a source, or from a file to itself, mv and cp can only fail.
CanPerform(s) == file_exists(old_name[s]) /\ old_name[s] # new_name[s]

\* The command does its work.
PerformOk(s) ==
  /\ CanPerform(s)
  /\ fs' = IF Command = "mv" THEN Move(fs, old_name[s], new_name[s])
                             ELSE Copy(fs, old_name[s], new_name[s])

\* wait_child_and_check_status reports a failure: of nothing, of half a copy
\* (mv copies from one file system to another), or of a complete job.
PerformFailed(s) ==
  \/ UNCHANGED fs
  \/ CanPerform(s) /\ fs' = Interrupted(fs, new_name[s])
  \/ PerformOk(s)

-----------------------------------------------------------------------------
StartApply ==
  /\ ~applying /\ ok # <<>>
  /\ applying' = TRUE /\ pos' = First /\ fail' = FALSE
  /\ UNCHANGED dataVars

\* "No changes made - plan is empty."
ApplyEmptyPlan == ~applying /\ ok = <<>> /\ UNCHANGED applyVars

InLoop == applying /\ pos <= Len(ok)
EligibleApplyOnly == status[rename] = "APPLY"
Eligible == status[rename] \in OkStatus
DependsOnNothing == FALSE
DependsOnFailed == prev_spec[rename] # NULL

SkipStays ==
  /\ InLoop /\ (~Eligible \/ DependsOnFailed)
  /\ UNCHANGED applyVars

Skip ==
  /\ InLoop /\ (~Eligible \/ DependsOnFailed)
  /\ pos' = pos + 1
  /\ UNCHANGED <<dataVars, applying, fail>>

Succeed ==
  /\ InLoop /\ Eligible /\ ~DependsOnFailed
  /\ IF simulate THEN UNCHANGED fs ELSE PerformOk(rename)
  /\ ok' = Without(ok, pos)
  /\ work_files' = Remove(work_files, rename)
  /\ free_file_spec(rename)
  /\ UNCHANGED <<error, no_change, loopVars, options>>

Fail ==
  /\ InLoop /\ Eligible /\ ~DependsOnFailed
  /\ ~simulate
  /\ PerformFailed(rename)
  /\ fail' = TRUE
  /\ pos' = pos + 1
  /\ UNCHANGED <<fieldVars, planVars, work_files, applying, options>>

EndApply ==
  /\ applying /\ pos > Len(ok)
  /\ applying' = FALSE /\ pos' = First
  /\ UNCHANGED <<dataVars, fail>>

apply_plan == Skip \/ Succeed \/ Fail \/ EndApply

(***************************************************************************)
(* Any plan in which what a rename waits for comes first, with any         *)
(* directory that the plan is ready for.                                   *)
(***************************************************************************)
FollowerOf(s) ==
  IF \E t \in Refs : prev_spec[t] = s THEN CHOOSE t \in Refs : prev_spec[t] = s
  ELSE NULL

ApplyInit ==
  /\ ok = [i \in Refs |-> i] /\ work_files = ok
  /\ error = <<>> /\ no_change = <<>>
  /\ old_name \in [Refs -> FileNames]
  /\ new_name \in [Refs -> FileNames]
  /\ NamesDistinct
  /\ prev_spec \in [Refs -> Refs \cup {NULL}] /\ Sorted
  /\ next_spec = [s \in Refs |-> FollowerOf(s)]
  /\ status \in [Refs -> OkStatus]
  /\ \E files \in SUBSET FileNames :
        fs = [n \in FileNames |-> IF n \in files THEN n ELSE NoFile]
  /\ options \in Setups
  /\ PlanReady
  /\ applying = FALSE /\ pos = First /\ fail = FALSE

ApplyNext == StartApply \/ ApplyEmptyPlan \/ apply_plan

\* The loop never waits for anything but its children, which terminate.
ApplySpec == ApplyInit /\ [][ApplyNext]_applyVars /\ WF_applyVars(apply_plan)

-----------------------------------------------------------------------------
ApplyTypeOK ==
  /\ DataTypeOK
  /\ applying \in BOOLEAN /\ fail \in BOOLEAN
  /\ pos \in Nat \ {0}

(***************************************************************************)
(* mv never replaces a file of the user, whatever fails, at whatever       *)
(* point, and however often `apply' is repeated on the rest of the plan.   *)
(***************************************************************************)
NoFileLost == [][Contents \subseteq Contents']_applyVars

(***************************************************************************)
(* What is left of the plan after any number of successes and failures is  *)
(* again a plan that can be applied: apply_plan's "Retry with `apply'".    *)
(***************************************************************************)
RestOfPlanReady ==
  /\ Sorted /\ Mirrored /\ NoRepeat
  /\ NamesDistinct /\ (simulate \/ Vacated) /\ SourcesOrdered
  /\ \A s \in Pending : /\ status[s] \in OkStatus
                         /\ {old_name[s], new_name[s]} \subseteq FileNames

(***************************************************************************)
(* A pass in which no command failed leaves nothing behind: no rename is   *)
(* skipped as "depends on failed" when nothing failed, so the return value *)
(* !fail of apply_plan tells whether the plan was carried out.             *)
(***************************************************************************)
OnePassSuffices == applying /\ pos > Len(ok) /\ ~fail => ok = <<>>

\* apply_plan returns: each iteration shortens the list or advances in it.
ApplyTerminates == applying ~> ~applying
==============================================================================
