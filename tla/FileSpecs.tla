------------------------------ MODULE FileSpecs ------------------------------
(***************************************************************************)
(* The data that qmv, qcp and qcmd share (qcmd.h): the FileSpec records,   *)
(* the list work_files of the files being renamed, the three lists of an   *)
(* ApplyPlan, and the directory the renames act on.                        *)
(*                                                                         *)
(* A FileSpec is a reference; each field of struct _FileSpec is a function *)
(* from references to values, so `spec->status' is status[spec].           *)
(*                                                                         *)
(* The directory maps a file name to what is stored under it.  A file's    *)
(* content is named after the name the file had at first, so a file that   *)
(* was moved is recognised wherever it ends up.                            *)
(***************************************************************************)
EXTENDS Naturals, Sequences, FiniteSets

CONSTANTS FileNames,    \* every name a file can have
          NoFile,       \* what the directory holds under an unused name
          Partial,      \* the content of a file that was not copied to its end
          MaxSpecs,     \* bound on the FileSpecs ever allocated
          Setups        \* the ways to start the program: its name and options

ASSUME DataAssumption ==
          /\ NoFile \notin FileNames /\ Partial \notin FileNames
          /\ NoFile # Partial
          /\ MaxSpecs \in Nat

ASSUME SetupAssumption ==
          /\ Setups \subseteq [program : {"qmv", "qcp", "qcmd"},
                               force_command : {"", "mv", "cp"},
                               simulate : BOOLEAN]
          /\ \A o \in Setups : o.program = "qcmd" => o.force_command # ""

(***************************************************************************)
(* References.  Freed memory is not reused here as long as a list leads to *)
(* a FileSpec, so that the use of a freed one stays visible.               *)
(***************************************************************************)
NULL == 0
Refs == 1 .. MaxSpecs

ErrorStatus == {"OLD_MISSING", "DUPLICATE", "NEW_EXISTS"}
OkStatus    == {"APPLY", "CIRCULAR"}
FileSpecStatus == {"UNCHECKED", "NO_CHANGE"} \cup ErrorStatus \cup OkStatus
MemoryStatus == {"FREE", "FREED"}

VARIABLES
  fs,                                                     \* the directory
  old_name, new_name, prev_spec, next_spec, status,       \* struct _FileSpec
  ok, error, no_change,                                   \* struct _ApplyPlan
  work_files,                                             \* qcmd.c
  options                                                 \* set once, by main

fieldVars == <<old_name, new_name, prev_spec, next_spec, status>>
planVars  == <<ok, error, no_change>>
dataVars  == <<fs, fieldVars, planVars, work_files, options>>

\* The base name it was started under, --command=, and --dummy.
program == options.program
force_command == options.force_command
simulate == options.simulate

Elems(list) == {list[i] : i \in 1 .. Len(list)}

(***************************************************************************)
(* llist.c.  An iterator is the index of the element that next() returns.  *)
(***************************************************************************)
FirstFromZero == 0
First == 1

llist_add_in_front(list, x) == <<x>> \o list
llist_add(list, x) == Append(list, x)
llist_add_first(list, x) == <<x>> \o list

\* list without its i-th element (llist_iterator_remove).
Without(list, i) == [j \in 1 .. Len(list) - 1 |-> IF j < i THEN list[j] ELSE list[j + 1]]

(***************************************************************************)
(* io-utils.c file_exists, applied to a name in work_directory.            *)
(***************************************************************************)
file_exists(n) == fs[n] # NoFile

\* The files of the user: what is in the directory and worth keeping.
Contents == {fs[n] : n \in FileNames} \ {NoFile, Partial}

(***************************************************************************)
(* mv(1) and cp(1), as perform_command runs them: the destination, when it *)
(* exists, is replaced without a question.                                 *)
(***************************************************************************)
Move(dir, from, to) == [dir EXCEPT ![from] = NoFile, ![to] = dir[from]]
Copy(dir, from, to) == [dir EXCEPT ![to] = dir[from]]
Interrupted(dir, to) == [dir EXCEPT ![to] = Partial]

\* list without s, which it holds at most once (llist_remove).
Remove(list, s) ==
  IF s \notin Elems(list) THEN list
  ELSE Without(list, CHOOSE i \in 1 .. Len(list) : list[i] = s)

(***************************************************************************)
(* free_file_spec takes s out of its chain of prev_spec and next_spec.     *)
(***************************************************************************)
free_file_spec_unlinked(s) ==
  /\ status' = [status EXCEPT ![s] = "FREED"]
  /\ UNCHANGED <<old_name, new_name, prev_spec, next_spec>>

free_file_spec(s) ==
  /\ next_spec' = IF prev_spec[s] = NULL THEN next_spec
                  ELSE [next_spec EXCEPT ![prev_spec[s]] = next_spec[s]]
  /\ prev_spec' = IF next_spec[s] = NULL THEN prev_spec
                  ELSE [prev_spec EXCEPT ![next_spec[s]] = prev_spec[s]]
  /\ status' = [status EXCEPT ![s] = "FREED"]
  /\ UNCHANGED <<old_name, new_name>>

(***************************************************************************)
(* new_file_spec takes memory that is not in use.                          *)
(***************************************************************************)
CanAllocate == \E s \in Refs : status[s] = "FREE"
new_file_spec == CHOOSE s \in Refs : status[s] = "FREE"

DataTypeOK ==
  /\ fs \in [FileNames -> FileNames \cup {NoFile, Partial}]
  /\ old_name \in [Refs -> FileNames \cup {NoFile}]
  /\ new_name \in [Refs -> FileNames \cup {NoFile}]
  /\ prev_spec \in [Refs -> Refs \cup {NULL}]
  /\ next_spec \in [Refs -> Refs \cup {NULL}]
  /\ status \in [Refs -> FileSpecStatus \cup MemoryStatus]
  /\ ok \in Seq(Refs)
  /\ error \in Seq(Refs)
  /\ no_change \in Seq(Refs)
  /\ work_files \in Seq(Refs)
  /\ options \in Setups

-----------------------------------------------------------------------------
(***************************************************************************)
(* What apply_plan expects of the plan that make_plan hands to it, and     *)
(* what stays true of the rest of the plan while it is applied.            *)
(***************************************************************************)
Pending == Elems(ok)

\* What a rename waits for comes before it in the list (qcmd.h).
Sorted ==
  \A i \in 1 .. Len(ok) :
    prev_spec[ok[i]] # NULL => \E j \in 1 .. i - 1 : ok[j] = prev_spec[ok[i]]

\* prev_spec and next_spec mirror each other and stay within the list.
Mirrored ==
  \A s \in Pending :
    /\ prev_spec[s] # NULL => prev_spec[s] \in Pending /\ next_spec[prev_spec[s]] = s
    /\ next_spec[s] # NULL => next_spec[s] \in Pending /\ prev_spec[next_spec[s]] = s

NoRepeat == \A i, j \in 1 .. Len(ok) : ok[i] = ok[j] => i = j

\* No two renames have the same source or the same destination.
NamesDistinct ==
  \A s, t \in Pending :
    /\ new_name[s] = new_name[t] => s = t
    /\ old_name[s] = old_name[t] => s = t
    /\ old_name[s] # new_name[s]

\* A rename waits for the one that vacates its destination, or nothing is
\* lost at the destination, or (its command reported a failure that was none)
\* it has no source any more.
Vacated ==
  \A s \in Pending :
    IF prev_spec[s] = NULL
    THEN fs[new_name[s]] \in {NoFile, Partial} \/ ~file_exists(old_name[s])
    ELSE old_name[prev_spec[s]] = new_name[s]

\* s cannot be reached before t: from s, prev_spec leads to t.
WaitsFor(s, t) ==
  \E chain \in SUBSET Pending :
    /\ {s, t} \subseteq chain
    /\ \A u \in chain \ {t} : prev_spec[u] \in chain

\* t fills a name that s vacates, or fills the temporary name for s.
SourcesOrdered ==
  \A s, t \in Pending :
    new_name[t] = old_name[s] => prev_spec[t] = s \/ WaitsFor(s, t)

PlanReady ==
  /\ Sorted /\ Mirrored /\ NoRepeat
  /\ NamesDistinct /\ Vacated /\ SourcesOrdered
  /\ \A s \in Pending : /\ status[s] \in OkStatus
                         /\ {old_name[s], new_name[s]} \subseteq FileNames
==============================================================================
