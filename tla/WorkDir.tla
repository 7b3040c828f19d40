------------------------------- MODULE WorkDir -------------------------------
(***************************************************************************)
(* The directories of a session (list.c, apply.c, plan.c).  `list DIR'     *)
(* makes DIR the work directory: ls runs there, make_plan puts DIR in      *)
(* front of every name that it checks, and apply_plan enters DIR before it *)
(* runs mv with the bare names.  DIR is entered by cwd_to_work_directory,  *)
(* which keeps the way back in the descriptor old_dir, and left by         *)
(* cwd_from_work_directory.                                                *)
(*                                                                         *)
(* A file of the same name is in every directory, and is the only one that *)
(* is listed.  A call is one action: meanwhile only children of the        *)
(* program run, and what they see of it is part of the action.             *)
(***************************************************************************)
EXTENDS Integers, Sequences, FiniteSetsExt

CONSTANTS
  Home,         \* the directory in which the program is started
  Dirs,         \* the directories there are, as paths from the root
  File,         \* the name that ls prints
  DirArgs,      \* the arguments of list, Here for list without one
  NewNames,     \* the names typed in the editor
  Faults,       \* which system calls fail in which call: pairs of their names
  MaxFd,        \* bound on the number of a descriptor
  None

\* A name as it is given: a path from the root, or from the current directory.
Relative(path) == [absolute |-> FALSE, path |-> path]
Absolute(path) == [absolute |-> TRUE, path |-> path]
Here == Relative(<<>>)                                      \* "."

ASSUME WorkDirAssumption ==
  /\ Home \in Dirs /\ Dirs \subseteq Seq(STRING) /\ None \notin Dirs /\ File \in STRING
  /\ DirArgs \cup NewNames \subseteq [absolute : BOOLEAN, path : Seq(STRING)]
  /\ \A arg \in DirArgs : arg.path # <<>> => arg.path[Len(arg.path)] # File
  /\ MaxFd \in Nat /\ MaxFd >= 4      \* one for old_dir, and one for the pipe of ls
  /\ Faults \subseteq {"first list", "list", "apply"} \X {"open", "chdir", "fchdir", "ls"}

Resolve(dir, name) == IF name.absolute THEN name.path ELSE dir \o name.path

cat_files_name(dir, name) == name
cat_files(dir, name) ==
  IF dir = Here THEN name ELSE [dir EXCEPT !.path = @ \o name.path]

VARIABLES
  process,          \* cwd, old_dir, and what the descriptors of the program refer to
  work_directory,
  listed,           \* the path of the listed file
  plan,             \* the typed name, and the paths that were checked
  mv                \* the paths that the last call renamed

workDirVars == <<process, work_directory, listed, plan, mv>>

-----------------------------------------------------------------------------
(***************************************************************************)
(* The outcomes of a function for the process p: its result, and p         *)
(* afterwards.  A descriptor that is opened is the lowest closed one.      *)
(***************************************************************************)
Outcome(result, p) == [ok |-> result, process |-> p]
If(condition, outcome) == IF condition THEN {outcome} ELSE {}

Fds == 3 .. MaxFd
Lowest(p) == Min({n \in Fds : p.fd[n] = None})
Open(p, what) == [p EXCEPT !.fd[Lowest(p)] = what]
Close(p, n) == [p EXCEPT !.fd = [@ EXCEPT ![n] = None]]

cwd_to_work_directory(p, dir, call) ==
  LET opened == [Open(p, p.cwd) EXCEPT !.old_dir = Lowest(p)]
      target == Resolve(p.cwd, dir)
  IN  IF dir = Here THEN {Outcome(TRUE, [p EXCEPT !.old_dir = -1])}
      ELSE If(<<call, "open">> \in Faults, Outcome(FALSE, [p EXCEPT !.old_dir = -1]))
           \cup If(target \notin Dirs \/ <<call, "chdir">> \in Faults,
                   Outcome(FALSE, Close(opened, opened.old_dir)))
           \cup If(target \in Dirs, Outcome(TRUE, [opened EXCEPT !.cwd = target]))

from_leaks(p, call) ==
  IF p.old_dir = -1 THEN {Outcome(TRUE, p)}
  ELSE {Outcome(TRUE, [p EXCEPT !.cwd = p.fd[p.old_dir], !.old_dir = -1])}

cwd_from_work_directory(p, call) ==
  IF p.old_dir = -1 THEN {Outcome(TRUE, p)}
  ELSE LET back == p.fd[p.old_dir] \in Dirs
           closed == Close(p, p.old_dir)
       IN  If(back, Outcome(TRUE, [closed EXCEPT !.cwd = p.fd[p.old_dir], !.old_dir = -1]))
           \cup If(~back \/ <<call, "fchdir">> \in Faults, Outcome(FALSE, closed))

(***************************************************************************)
(* list_files.  The work directory is `.' from the start, and dir as soon  *)
(* as dir was entered; the old plan goes when ls runs and the program is   *)
(* back where it was.                                                      *)
(***************************************************************************)
ListFailed(dir, p) ==
  /\ work_directory' = dir /\ process' = p
  /\ UNCHANGED <<listed, plan>> /\ mv' = None

run_ls(dir, p, call, printed) ==
  LET piped == Open(p, "pipe")
      Cleaned(q) == Close(q, Lowest(p))
  IN  \/ /\ <<call, "ls">> \in Faults                \* close(old_dir), which is -1
         /\ ListFailed(dir, [p EXCEPT !.old_dir = -1])
      \/ \E back \in cwd_from_work_directory(piped, call) :
           \/ ~back.ok /\ ListFailed(dir, Cleaned(back.process))
           \/ /\ back.ok
              /\ process' = Cleaned(back.process) /\ work_directory' = dir
              /\ listed' = printed /\ plan' = None /\ mv' = None

\* An argument that is no directory goes to ls, which finds no such file.
list_files(dir) ==
  LET call == IF listed = None THEN "first list" ELSE "list"
      FileOf(p) == Resolve(p.cwd, Relative(<<File>>))
  IN  \/ dir = Here /\ run_ls(Here, process, call, FileOf(process))
      \/ /\ dir # Here /\ Resolve(process.cwd, dir) \notin Dirs
         /\ run_ls(Here, process, call, None)
      \/ /\ dir # Here /\ Resolve(process.cwd, dir) \in Dirs
         /\ \E entered \in cwd_to_work_directory(process, dir, call) :
              \/ ~entered.ok /\ ListFailed(Here, entered.process)
              \/ entered.ok /\ run_ls(dir, entered.process, call, FileOf(entered.process))

(***************************************************************************)
(* edit_files and make_plan: a missing old file is not planned.            *)
(***************************************************************************)
Checked(name) == Resolve(process.cwd, cat_files(work_directory, name))

edit_command ==
  /\ listed # None
  /\ \E name \in NewNames :
       plan' = IF \E d \in Dirs : Checked(Relative(<<File>>)) = Append(d, File)
               THEN [new_name |-> name,
                     paths |-> <<Checked(Relative(<<File>>)), Checked(name)>>]
               ELSE None
  /\ mv' = None /\ UNCHANGED <<process, work_directory, listed>>

\* mv is done and nothing is left of the plan, or it failed and the plan stays.
apply_plan ==
  /\ plan # None
  /\ \E entered \in cwd_to_work_directory(process, work_directory, "apply") :
       \/ ~entered.ok /\ process' = entered.process /\ mv' = None /\ UNCHANGED plan
       \/ /\ entered.ok
          /\ mv' = <<Resolve(entered.process.cwd, Relative(<<File>>)),
                     Resolve(entered.process.cwd, plan.new_name)>>
          /\ plan' \in {plan, None}
          /\ \E back \in cwd_from_work_directory(entered.process, "apply") :
               process' = back.process
  /\ UNCHANGED <<work_directory, listed>>

-----------------------------------------------------------------------------
WorkDirInit ==
  /\ process = [cwd |-> Home, old_dir |-> -1, fd |-> [n \in Fds |-> None]]
  /\ work_directory = Here /\ listed = None /\ plan = None /\ mv = None

WorkDirNext == (\E dir \in DirArgs : list_files(dir)) \/ edit_command \/ apply_plan

WorkDirSpec == WorkDirInit /\ [][WorkDirNext]_workDirVars

-----------------------------------------------------------------------------
(***************************************************************************)
(* "Apply the current plan, i.e. rename files.  Only those files marked as *)
(* OK in the plan will be renamed" (interactive.c): what mv is given are   *)
(* the paths that make_plan checked.                                       *)
(***************************************************************************)
RenamesOnlyChecked == [][mv' # None => mv' = plan.paths]_workDirVars

(***************************************************************************)
(* And the file that is renamed is the one that was listed.                *)
(***************************************************************************)
RenamesThePlan == [][mv' # None => mv' = plan.paths /\ mv'[1] = listed]_workDirVars

(***************************************************************************)
(* Between two commands the program is where it was started, and no        *)
(* descriptor was left open, however it entered other directories (list.c).*)
(***************************************************************************)
BackHome == process.cwd = Home /\ \A n \in Fds : process.fd[n] = None
==============================================================================
