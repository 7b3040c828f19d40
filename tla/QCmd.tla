--------------------------------- MODULE QCmd ---------------------------------
(***************************************************************************)
(* A session of qmv, qcp or qcmd: noncommandmode_run (qcmd.c), the command *)
(* loop (interactive.c), edit_files (edit.c), list_files and               *)
(* import_command (list.c), composed with make_plan and apply_plan.        *)
(*                                                                         *)
(* The program is single-threaded: `stage' says which of its functions     *)
(* runs.  The user chooses the commands at the prompt, the files listed,   *)
(* the names typed in the editor, and where an edit goes wrong.            *)
(***************************************************************************)
EXTENDS MakePlan, ApplyPlan

\* A scenario also says what the user does:
\*   commands   the commands used: "first import" and "first edit all" while
\*              there is no plan yet, "broken edit" if an edit may break off
\*   lists      bound on the listings and imports of the session
\*   edits      bound on its edits
ASSUME SessionAssumption ==
  \A c \in DOMAIN Scenarios :
    /\ Scenarios[c].commands \subseteq
         {"list", "import", "first import", "edit", "edit all", "first edit all",
          "broken edit", "apply", "quit", "eof"}
    /\ Scenarios[c].lists \in Nat /\ Scenarios[c].edits \in Nat

VARIABLES
  stage,            \* "list", "free", "edit", "plan", "run", "apply",
                    \* "prompt", "exited"
  interactive,      \* in the command loop, for good
  plan,             \* plan != NULL
  edit_file_list, accept_reedit,                          \* edit.c
  exit_warned,                                            \* interactive.c
  importing,        \* work_files are being freed by import_command
  lists, edits,     \* how many so far
  goal              \* the directory that the last plan is meant to lead to

Listing == Scenarios[scenario].listing
Commands == Scenarios[scenario].commands
MaxLists == Scenarios[scenario].lists
MaxEdits == Scenarios[scenario].edits

editVars == <<edit_file_list, accept_reedit>>
countVars == <<lists, edits>>
sessionVars == <<stage, interactive, plan, editVars, exit_warned, importing,
                 countVars, goal>>
idleVars == <<localVars, envVars, loopVars>>
vars == <<dataVars, idleVars, sessionVars>>

ToPrompt == stage' = "prompt" /\ interactive' = TRUE
AtPrompt(command) == stage = "prompt" /\ command \in Commands

\* A command that the user gives at any time, or only as long as there is no plan.
AtPromptOnceOr(command, first) ==
  /\ stage = "prompt"
  /\ command \in Commands \/ (first \in Commands /\ ~plan)

-----------------------------------------------------------------------------
(***************************************************************************)
(* list_files.  The old plan and the old FileSpecs go, one after another,  *)
(* before the names that ls prints become new ones.                        *)
(***************************************************************************)
list_files_keeps_edit_list ==
  /\ lists < MaxLists
  /\ lists' = lists + 1
  /\ stage' = "free" /\ importing' = FALSE
  /\ plan' = FALSE /\ ok' = <<>> /\ error' = <<>> /\ no_change' = <<>>
  /\ UNCHANGED <<fs, fieldVars, work_files, idleVars, interactive, editVars,
                 exit_warned, edits, goal>>

list_files ==
  /\ lists < MaxLists
  /\ lists' = lists + 1
  /\ stage' = "free" /\ importing' = FALSE
  /\ edit_file_list' = <<>>
  /\ plan' = FALSE /\ ok' = <<>> /\ error' = <<>> /\ no_change' = <<>>
  /\ UNCHANGED <<fs, fieldVars, work_files, idleVars, interactive, accept_reedit,
                 exit_warned, edits, goal>>

list_command == AtPrompt("list") /\ list_files

\* ls cannot be started, or the directory not entered: list_files returns false
\* before it changes anything that is modelled here.
ListFails ==
  /\ stage = "list"
  /\ stage' = IF interactive THEN "prompt" ELSE "exited"
  /\ UNCHANGED <<dataVars, idleVars, interactive, plan, editVars, exit_warned,
                 importing, countVars, goal>>

\* import_command frees the old FileSpecs and leaves all else as it is.
import_command ==
  /\ AtPromptOnceOr("import", "first import") /\ lists < MaxLists
  /\ lists' = lists + 1
  /\ stage' = "free" /\ importing' = TRUE
  /\ UNCHANGED <<dataVars, idleVars, interactive, plan, editVars, exit_warned,
                 edits, goal>>

FreeWorkFile ==
  /\ stage = "free" /\ work_files # <<>>
  /\ free_file_spec(Head(work_files))
  /\ work_files' = Tail(work_files)
  /\ UNCHANGED <<fs, planVars, idleVars, sessionVars>>

\* What the lists that a later command reads lead to.
Reachable == Elems(work_files) \cup Elems(ok) \cup Elems(error)
               \cup Elems(no_change) \cup Elems(edit_file_list)

\* Memory is taken again once no list leads to a FileSpec; before that, the use
\* of a freed FileSpec stays visible.
NotReused == IF Reachable = {} THEN {} ELSE {s \in Refs : status[s] # "FREE"}

\* Distinct FileSpecs for the given names, unchanged and unchecked.
NewSpecs(names) ==
  LET base == CHOOSE n \in 0 .. MaxSpecs :
                NotReused \subseteq 1 .. n /\ (n = 0 \/ n \in NotReused)
      Memory(f, blank) == [s \in Refs |-> IF s \in NotReused THEN f[s] ELSE blank]
      Named(f) == [s \in Refs |-> IF s \in base + 1 .. base + Len(names)
                                  THEN names[s - base] ELSE Memory(f, NoFile)[s]]
  IN  /\ base + Len(names) <= MaxSpecs
      /\ work_files' = [i \in 1 .. Len(names) |-> base + i]
      /\ printed' = names
      /\ old_name' = Named(old_name)
      /\ new_name' = Named(new_name)
      /\ status' = [s \in Refs |-> IF s \in base + 1 .. base + Len(names) THEN "UNCHECKED"
                                   ELSE Memory(status, "FREE")[s]]
      /\ prev_spec' = Memory(prev_spec, NULL) /\ next_spec' = Memory(next_spec, NULL)

\* What ls prints depends on its arguments; an imported file names anything.
Printable == IF importing THEN Elems(Listing)
             ELSE {n \in Elems(Listing) : file_exists(n)}

\* The ways to go through n names, in order, and to leave out some.
Selections(n) ==
  UNION {{f \in [1 .. k -> 1 .. n] : \A i, j \in 1 .. k : i < j => f[i] < f[j]} :
         k \in 0 .. n}

TakeListing ==
  /\ stage = "free" /\ work_files = <<>>
  /\ \E kept \in Selections(Len(Listing)) :
       /\ \A i \in DOMAIN kept : Listing[kept[i]] \in Printable
       /\ NewSpecs([i \in DOMAIN kept |-> Listing[kept[i]]])
       /\ \/ interactive /\ stage' = "prompt"
          \/ ~interactive /\ kept # <<>> /\ stage' = "edit"
          \/ ~interactive /\ stage' = "exited"   \* no files, or ls broke off
  /\ importing' = FALSE
  /\ UNCHANGED <<fs, planVars, localVars, external, options, scenario, loopVars,
                 interactive, plan, editVars, exit_warned, countVars, goal>>

-----------------------------------------------------------------------------
(***************************************************************************)
(* edit_files.  Unless the last edit is to be continued, the files to edit *)
(* are those of the plan's errors, or all.                                 *)
(***************************************************************************)
FilesToEdit(all) ==
  IF accept_reedit THEN edit_file_list
  ELSE IF all THEN work_files ELSE IF plan THEN error ELSE <<>>

\* new_name after the first k files of the list got the names that were typed.
Renamed(files, k, names) ==
  [s \in Refs |-> IF \E i \in 1 .. k : files[i] = s
                  THEN names[CHOOSE i \in 1 .. k : files[i] = s] ELSE new_name[s]]

\* The edit is complete, its files are unchecked again, and make_plan starts.
EditSucceeds(files) ==
  /\ files # <<>> \/ accept_reedit
  /\ \E names \in [1 .. Len(files) -> NewNames] :
       new_name' = Renamed(files, Len(files), names)
  /\ status' = [s \in Refs |-> IF s \in Elems(files) THEN "UNCHECKED" ELSE status[s]]
  /\ accept_reedit' = FALSE /\ edit_file_list' = <<>>
  /\ stage' = "plan" /\ plan' = TRUE
  /\ ok' = <<>> /\ error' = <<>> /\ no_change' = <<>>
  /\ pc' = "previous_scan"
  /\ UNCHANGED <<fs, old_name, prev_spec, next_spec, work_files, it, map, sortVars,
                 crossVars, envVars, loopVars, interactive, exit_warned, importing,
                 lists, goal>>

\* Nothing to edit, or the file to edit cannot be written.
EditNotStarted ==
  /\ ~accept_reedit
  /\ edit_file_list' = <<>>
  /\ ToPrompt
  /\ UNCHANGED <<dataVars, idleVars, plan, accept_reedit, exit_warned, importing,
                 lists, goal>>

\* The editor fails, or the edited file is not as expected after its k-th name.
EditBroken(files) ==
  /\ files # <<>> \/ accept_reedit
  /\ \E names \in [1 .. Len(files) -> NewNames], k \in 0 .. Len(files) :
       new_name' = Renamed(files, k, names)
  /\ accept_reedit' = TRUE /\ edit_file_list' = files
  /\ ToPrompt
  /\ UNCHANGED <<fs, old_name, prev_spec, next_spec, status, planVars, work_files,
                 idleVars, plan, exit_warned, importing, lists, goal>>

edit_files(all) ==
  /\ edits < MaxEdits /\ edits' = edits + 1
  /\ \/ EditSucceeds(FilesToEdit(all))
     \/ EditNotStarted
     \/ "broken edit" \in Commands /\ EditBroken(FilesToEdit(all))

edit_command ==
  /\ work_files # <<>>
  /\ \/ AtPrompt("edit") /\ edit_files(FALSE)
     \/ AtPromptOnceOr("edit all", "first edit all") /\ edit_files(TRUE)

-----------------------------------------------------------------------------
(***************************************************************************)
(* make_plan runs, and returns to edit_command or to noncommandmode_run,   *)
(* which goes on only with a plan without errors.                          *)
(***************************************************************************)
PlanStep == stage = "plan" /\ make_plan /\ UNCHANGED <<loopVars, sessionVars>>

\* The directory after all the accepted renames or copies are done at once.
Accepted == {s \in Elems(work_files) : status[s] \in OkStatus}

Moves == force_command = "mv" \/ (force_command = "" /\ program = "qmv")

AllAtOnce ==
  [n \in FileNames |->
     IF \E s \in Accepted : new_name[s] = n
     THEN fs[old_name[CHOOSE s \in Accepted : new_name[s] = n]]
     ELSE IF Moves /\ \E s \in Accepted : old_name[s] = n
     THEN NoFile ELSE fs[n]]

PlanMade ==
  /\ stage = "plan" /\ Planned
  /\ goal' = IF simulate THEN fs ELSE AllAtOnce
  /\ IF interactive \/ error # <<>> THEN ToPrompt
     ELSE /\ stage' = IF ok = <<>> THEN "exited" ELSE "run"
          /\ UNCHANGED interactive
  /\ UNCHANGED <<dataVars, idleVars, plan, editVars, exit_warned, importing,
                 countVars>>

\* noncommandmode_run applies the plan, unless the directory cannot be entered.
RunPlan ==
  /\ stage = "run"
  /\ \/ StartApply /\ stage' = "apply" /\ UNCHANGED interactive
     \/ ToPrompt /\ UNCHANGED <<dataVars, loopVars>>
  /\ UNCHANGED <<localVars, envVars, plan, editVars, exit_warned, importing,
                 countVars, goal>>

-----------------------------------------------------------------------------
apply_command ==
  /\ AtPrompt("apply") /\ plan
  /\ \/ StartApply /\ stage' = "apply"
     \/ ApplyEmptyPlan /\ UNCHANGED stage
  /\ UNCHANGED <<localVars, envVars, interactive, plan, editVars, exit_warned,
                 importing, countVars, goal>>

ApplyStep ==
  /\ stage = "apply" /\ (Skip \/ Succeed \/ Fail)
  /\ UNCHANGED <<localVars, envVars, sessionVars>>

ApplyDone ==
  /\ stage = "apply" /\ EndApply
  /\ \/ ToPrompt     \* a command failed, or the return to the old directory
     \/ ~interactive /\ ~fail /\ stage' = "exited" /\ UNCHANGED interactive
  /\ UNCHANGED <<localVars, envVars, plan, editVars, exit_warned, importing,
                 countVars, goal>>

quit_command ==
  /\ AtPrompt("quit")
  /\ stage' = "exited"
  /\ UNCHANGED <<dataVars, idleVars, interactive, plan, editVars, exit_warned,
                 importing, countVars, goal>>

\* End of file at the prompt.
Unapplied == plan /\ (error # <<>> \/ ok # <<>>)

terminate_program ==
  /\ AtPrompt("eof")
  /\ IF ~Unapplied \/ exit_warned
     THEN stage' = "exited" /\ UNCHANGED exit_warned
     ELSE exit_warned' = TRUE /\ UNCHANGED stage
  /\ UNCHANGED <<dataVars, idleVars, interactive, plan, editVars, importing,
                 countVars, goal>>

commandmode_mainloop ==
  \/ list_command \/ import_command \/ edit_command \/ apply_command
  \/ quit_command \/ terminate_program

\* What happens without the user: the program's own steps.
noncommandmode_run ==
  \/ stage = "list" /\ list_files
  \/ ListFails
  \/ FreeWorkFile \/ TakeListing
  \/ stage = "edit" /\ edit_files(TRUE)
  \/ PlanStep \/ PlanMade \/ RunPlan
  \/ ApplyStep \/ ApplyDone

Exited == stage = "exited" /\ UNCHANGED vars

Init ==
  /\ scenario \in DOMAIN Scenarios
  /\ \E files \in Scenarios[scenario].directories :
       fs = [n \in FileNames |-> IF n \in files THEN n ELSE NoFile]
  /\ goal = fs /\ options \in Scenarios[scenario].setups
  /\ work_files = <<>> /\ printed = <<>> /\ EmptyPlan
  /\ old_name = [s \in Refs |-> NoFile] /\ new_name = [s \in Refs |-> NoFile]
  /\ prev_spec = [s \in Refs |-> NULL] /\ next_spec = [s \in Refs |-> NULL]
  /\ status = [s \in Refs |-> "FREE"]
  /\ InitLocals("planned") /\ external = 0
  /\ applying = FALSE /\ pos = First /\ fail = FALSE
  /\ \/ stage = "list" /\ interactive \in BOOLEAN   \* qmv FILE..., qmv -i FILE...
     \/ stage = "prompt" /\ interactive = TRUE      \* qmv -i
  /\ plan = FALSE
  /\ edit_file_list = <<>> /\ accept_reedit = FALSE /\ exit_warned = FALSE
  /\ importing = FALSE /\ lists = 0 /\ edits = 0

Next == noncommandmode_run \/ commandmode_mainloop \/ Exited

\* The program runs on its own, its children end; whether the user goes on is up to the user.
Spec == Init /\ [][Next]_vars /\ WF_vars(noncommandmode_run)

-----------------------------------------------------------------------------
SessionTypeOK ==
  /\ PlanTypeOK /\ ApplyTypeOK
  /\ stage \in {"list", "free", "edit", "plan", "run", "apply", "prompt", "exited"}
  /\ {interactive, plan, accept_reedit, exit_warned, importing} \subseteq BOOLEAN
  /\ edit_file_list \in Seq(Refs)
  /\ lists \in 0 .. MaxLists /\ edits \in 0 .. MaxEdits
  /\ goal \in [FileNames -> FileNames \cup {NoFile, Partial}]

(***************************************************************************)
(* No file of the user is destroyed in a session: not by the plan, not by  *)
(* commands that fail in the middle of it, not by applying the rest.       *)
(***************************************************************************)
SessionLosesNothing == [][Contents \subseteq Contents']_vars

(***************************************************************************)
(* A plan that has been carried out, at once or after failures and         *)
(* retries, has done what the user asked for: the directory is the one in  *)
(* which all accepted files were renamed (or copied) at the same moment,   *)
(* and no temporary name is left over.                                     *)
(***************************************************************************)
PlanCarriedOut ==
  stage \in {"prompt", "exited"} /\ plan /\ ok = <<>> => fs = goal

(***************************************************************************)
(* The original of a copy keeps its name and its content, and with --dummy *)
(* every file does.                                                        *)
(***************************************************************************)
OriginalsKept ==
  [][program = "qcp" \/ simulate => \A n \in FileNames : fs[n] = n => fs'[n] = n]_vars

(***************************************************************************)
(* A FileSpec is "freed when no longer used" (list.c): no list that a      *)
(* later command reads, and no link of a FileSpec in one, leads to freed   *)
(* memory.                                                                 *)
(***************************************************************************)
NoFreedSpecInUse ==
  stage # "free" =>
    \A s \in Reachable : \A t \in {s, prev_spec[s], next_spec[s]} \ {NULL} :
      status[t] \in FileSpecStatus

(***************************************************************************)
(* Renames are sorted "so that their destination name won't exist when     *)
(* they are to be renamed" (plan.c): what waits for nothing has a free     *)
(* destination when a plan has been made.                                  *)
(***************************************************************************)
DestinationFree ==
  stage = "plan" /\ Planned /\ program = "qmv" =>
    \A s \in Pending : prev_spec[s] = NULL => ~file_exists(new_name[s])

(***************************************************************************)
(* prev_spec of a planned rename "must be completed first" (qcmd.h): it is *)
(* in the plan, and it is what vacates the destination.                    *)
(***************************************************************************)
WaitsForTheRightOne ==
  stage = "plan" /\ Planned =>
    \A s \in Pending : prev_spec[s] # NULL =>
      prev_spec[s] \in Pending /\ old_name[prev_spec[s]] = new_name[s]

(***************************************************************************)
(* The program always comes back to its prompt or exits: no edit, plan or  *)
(* apply hangs.                                                            *)
(***************************************************************************)
AlwaysReturns == []<>(stage \in {"prompt", "exited"})
==============================================================================
