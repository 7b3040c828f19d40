# A TLA+ model of renameutils

renameutils lets a user rename or copy many files by editing their names in a
text editor (`qmv`, `qcp`, `qcmd`), rename or copy one file with a line editor
(`imv`, `icp`), and remove URL encoding from file names (`deurlname`). This
directory models the part that decides what happens to the user's files, and
checks and proves that it does not lose any of them.

## The system

| part | state | operations | talks to |
|---|---|---|---|
| planning (`plan.c`) | `FileSpec` records with a status and the links `prev_spec`, `next_spec`; the lists `ok`, `error`, `no_change` of the plan; local maps and iterators | `make_plan`: `previous_scan`, `duplicate_scan`, `old_missing_scan`, `no_change_scan`, then `topologic_sort` and `cross_reference_resolve` (qmv) or `new_exists_scan` (qcp), then `apply_unchecked` | reads the directory (`file_exists`), which other processes change |
| applying (`apply.c`) | iterator, `fail` | `apply_plan`, one child process per rename | runs `mv`/`cp`; removes specs from `plan->ok` and `work_files`, frees them |
| session (`qcmd.c`, `interactive.c`) | `plan`, `exit_warned`, mode | `noncommandmode_run`, the command loop and its commands | calls all others |
| editing (`edit.c`) | `edit_file_list`, `accept_reedit` | `edit_files` | the editor, the edit formats; resets statuses |
| listing (`list.c`) | `work_files`, `work_directory`, `old_dir`, `ls_options` | `list_files`, `import_command`, `new_file_spec`, `free_file_spec` | runs `ls`; frees all specs |
| edit formats (`editformats/`) | their options | `output`, `input`, `parse_options` | the edited file, `quote.c`, `tab-utils.c` |
| `icmd.c`, `deurlname.c` | one name each | check, prompt, run a command; decode, rename | `mv`, `cp`, `rename(2)` |
| containers (`common/`) | linked list, hash map, tree map, string buffer | the usual ones | used by all |

The programs are single-threaded. What is hard in them is not concurrency
inside a program but

* the *order* of renames: chains (`a -> b`, `b -> c`) must be done from the end,
  circular sets (`a -> b`, `b -> a`) need a temporary name;
* *failure* of one rename of several, half-done copies, a command that did its
  work but is reported as failed, and `apply` repeated on the rest;
* *other processes* that change the directory between two checks;
* *stale state*: statuses, links, names and pointers that survive from one
  command of the session to the next.

What makes each part correct: planning accepts exactly the renames that can be
done and orders them so that no file is ever moved onto another; applying loses
no file whatever fails, and leaves a rest that can be applied; a session reads
no freed `FileSpec`, always returns to its prompt, and a plan that has been
worked off has put the directory in the state that the user asked for.

## Modules

| module | models |
|---|---|
| `FileSpecs` | `qcmd.h`, the list operations the planner uses, `file_exists`, `new_file_spec`, `free_file_spec`, what `mv` and `cp` do; the predicates (`Sorted`, `Mirrored`, `Vacated`, `SourcesOrdered`, `PlanReady`) that make a plan fit to be applied |
| `MakePlan` | `plan.c` |
| `ApplyPlan` | `apply.c` |
| `QCmd` | `qcmd.c`, `interactive.c`, `edit.c`, `list.c`: a session, composed of `MakePlan` and `ApplyPlan` over the same variables |
| `WorkDir` | `work_directory`, `old_dir`, the current directory and the descriptors of a session: `list.c`, and what `plan.c` and `apply.c` do with them |
| `EditFormats` | `editformats/*.c` with `quote.c`, `tab-utils.c` and `read_line`: the file that is written, what the user makes of it, and what is read back |
| `ICmd` | `icmd.c`: arguments, prompt, question, command |
| `Deurlname` | `deurlname.c` |
| `LList`, `HMap`, `TMap` | `common/llist.c`, `hmap.c` and `tmap.c` with their nodes, pointers, buckets, colours and iterators |
| `ListSpec`, `MapSpec` | what these containers promise: sequences with a cursor, and maps with a cursor |
| `FileSpecsProofs` | what adding to and removing from a list does, for both proofs |
| `ApplyPlanProofs` | theorems about `ApplyPlan` |
| `MakePlanProofs` | theorems about `MakePlan`: the types, the inductive invariant and what each kind of step does; the proof that every step keeps it, and the theorems, the last of which is that undisturbed, its plans are what `apply_plan` is entitled to |
| `MakePlanFilesProofs` | theorems about `MakePlan`: every listed file is somewhere, once; undisturbed, the plan is the largest feasible set |
| `SessionProofs` | theorems about `QCmd`: whole sessions, composed of the invariants of `MakePlan` and `ApplyPlan` |
| `ProgramsProofs` | theorems about `WorkDir`, `ICmd`, `Deurlname` and `EditFormats` |
| `LListProofs` | theorems about `LList`: its pointers, its memory, and that it implements `ListSpec` |
| `HMapProofs` | theorems about `HMap`: its buckets, and that it implements `MapSpec` |
| `MCMakePlan`, `MCApplyPlan`, `MCQCmd`, `MCWorkDir`, `MCEditFormats` | names, listings, directories and commands for TLC |
| `MCContainers`, `MCPrograms` | compositions for TLC of parts that have no variables in common, one of which runs in a behaviour |

How the state corresponds to the code:

* A `FileSpec *` is a reference in `Refs`, `NULL` is 0; every field is a function
  on references, so `spec->status` is `status[spec]`. Memory that was freed has
  status `"FREED"` and is not reused as long as any list leads to a `FileSpec`, so that
  a use of it stays visible; once no list does, a listing starts on fresh memory
  (`NotReused`).
* `printed` is what `ls` printed for the present `work_files`: any selection of the
  scenario's listing, in its order (`Selections`), of which the files exist, unless
  the names were imported.
* The directory `fs` maps a name to a content. The content of a file is the name
  it had at first, so "no file is lost" is `Contents \subseteq Contents'`, where
  `Contents` is the set of contents of the directory. A copy that was cut off
  leaves `Partial`. Directories, links and permissions are not modelled.
* The program's name, `--command` and `--dummy` are set once, by `main` (`options`).
  Commands other than `mv` and `cp` are not modelled.
* A hash map local to a scan is a function from names to references.
* In `MakePlan` one action is one iteration of a loop of the C code; `pc` names the
  loop and `it` is its iterator. In `ApplyPlan` one action is one iteration of the
  loop of `apply_plan`, with the whole life of its child process. In `QCmd`, `stage`
  names the function that runs.
* The child process succeeds, fails having done nothing, leaves half a copy, or
  does its work and is reported as failed (`wait` fails, a signal comes late).
  Without a source, or from a name to itself, it can only fail. An existing
  destination is replaced, because `perform_command` runs plain `mv --` or `cp --`.
* The text of the edited file is abstracted to the names it yields and to whether,
  and after which name, reading it fails. Failures of `fork`, `open` or `chdir`
  appear as the outcome they have for the caller.

A name for a temporary file is `TmpName[<<n, k>>]`, the function that
`xasprintf("%s-%d", n, k)` computes; it is assumed injective on the names that can
be listed. In the instances a name is a tuple, so that `a-1` can also be typed by
the user or be in the way.

### Work directory

`WorkDir` keeps what the session model leaves out: where the program is. A path is a
sequence, a name is absolute or relative, `process` holds the current directory,
`old_dir` and the table of descriptors, in which the lowest free one is taken, as
`open` and `pipe` do. `Faults` says which system call fails in which call. The same
file name is in every directory, so that a rename in the wrong one is possible and
seen. An argument of `list` that is no directory goes to `ls`, which finds no such
file: the listing succeeds with nothing listed; arguments that name plain files are left
out. Beyond finding `failed_list` the code departs from what one expects here in three
places. When `chdir` fails, `old_dir` keeps the number of a closed descriptor
(`list.c:287`), which the pipe of the next `ls` gets: the program is back home all the
same (`BackHome`), but a `list` without argument then fails, again and again, until
another command sets `old_dir` anew, although "If no files are specified, select all
files in current directory" (`qcmd.1:292`). When `run_ls` fails, `old_dir` is set to -1
before it is closed (`list.c:354`), and the program stays in the listed directory. And
an absolute new name is checked as `DIR//name` but used as `/name`. The passing run
leaves out the last two, and for `RenamesThePlan` what fails after files were listed.

### Edit formats

A line is a sequence of characters: letters, the octal digits 0 and 1, a blank, a tab, a
newline, a backslash, a control character that has no abbreviation, and the end of
a line of the file, which is no character of a name that is typed. `output` writes
the file of a format, `user_types`, `user_loses_line` and `user_swaps_lines` are what
happens to it in the editor, `input` reads it line by line. `Input` is undefined
where the code uses a pointer that is `NULL`. `EarlierName` is the new name that a
file got in an earlier edit of the session. What is written is read back except for
names that the columns cannot represent, and `DualReadable` says which these are: a
name of one blank, a name that ends in blanks and is on a line of its own, one that
ends in a backslash, and, with an `indicator1`, one that ends right before the
column. In a single-column file without separating lines, a lost line shifts the
names; `NamesNotMixedUp` is about the others.

### Single renames

`ICmd` takes a command line apart twice: as `icmd.c` does, and as `mv` does with the
new name added. `ReadAlike` leaves out the command lines that the program does not
understand: an option with its value in the same argument (`-S.bak file`: the file is
taken for the value, against `icmd.1:63`), `-tDIR`, `-t DIR` (whose value the program
takes for the file, as `icmd.c:54` wants it), abbreviated long options and a
lone `-`. The typing of a name, the check whether there is such a file, the question and
the start of `mv` are steps of their own, between which other programs create and remove
that file. `lasting` is a history variable that no action reads: the files that were there
all the time since the name was typed. `NoOverwriteUnasked` is about these; a file created
after the check, also one that was there before and was away at the check, is
replaced without a question, as `mv` runs without `-n`. `Deurlname` decodes a name by character code,
skipping the codes of NUL and of the slash; two files whose decoded names are equal
replace each other, because `rename(2)` does not ask.

### Containers

`ListsAreSequences`, `HMapIsMap` and `TMapIsMap` are refinements: `LList` implements
`ListSpec`, `HMap` and `TMap` implement `MapSpec`, under refinement mappings that
follow the pointers of a list, the chains of the buckets, and the tree in order. The
abstract specifications know values, not memory: a map or a sequence, the position
of the iterator, and the record of the last call and its result. `llast`, `hlast`
and `tlast` are that record in the detailed modules; no action reads them, so the
run's `VIEW` leaves them out of the fingerprint of a state. Met on the way:
`llist_set` stores the old data again (`llist.c:302`; no program calls it, and
`ListSpec` describes it as it is), the clone of an empty list has an uninitialised
first pointer (`llist.c:390`), which nothing in the model walks along,
`llist_add_all` of a list to itself does not end, and the default comparator of a tree
map cuts the difference of two pointers off to an `int` (`tmap.c:67`): `ptrcmp` does so
too, with an `int` of `IntValues` values, and `TMapAssumption` keeps to keys that are not
further apart, as a node is named by its key.

## Runs

Bounds: `MaxSpecs` is large enough for every `FileSpec` that a run can allocate,
`MaxTmp` for every temporary name that a run can find taken; running out of either
would be a deadlock, which TLC would report. `Scenarios` gives `MakePlan` and `QCmd`
their instances: a behaviour starts with the name of one, and with it go the
listing, the names that can be typed, the commands and the bounds `lists`, `edits`
and `external` (changes by other processes).

| run | instance | checks |
|---|---|---|
| `plan` | *quiet*: qmv, qcp and qcmd; 4 files, 5 typed names, one file may be gone, `a-1` may exist: two circular sets, chains into them, shared destinations and taken temporary names all occur. *disturbed*: 3 files and another process that creates or removes any file at any moment | undisturbed, the plan is ready to be applied (`PlanIsReady`) and accepts exactly the largest feasible set (`PlanIsFeasibleSet`, against a definition that does not mention the algorithm); in any case it is sorted, its links mirror each other, no two renames share a destination, each file is listed once, and `make_plan` returns |
| `apply` | qmv, with and without `--dummy`; every ready plan of 3 renames among 4 names in every directory | `NoFileLost`, `RestOfPlanReady`, `OnePassSuffices`, `ApplyTerminates` |
| `session` | *round*: qmv, qcp and `--dummy`, 3 files, one edit, any failures and retries. *rounds*: 2 files, two rounds of list or import, edit, apply. *editing*: edits of all kinds, broken ones included, and a new listing, without applying | `PlanCarriedOut`: the plan worked off has led to the simultaneous renaming or copying; no loss, no freed memory in use, originals of copies stay, every command returns to the prompt in spite of what earlier ones left behind |
| `containers` | lists `a` and `b` with 3 nodes, a hash map of 3 keys and `NULL` that starts with 2 buckets (so that it is rehashed), a tree map of up to 8 keys, which is the least with rotations of every kind in a removal | the refinements, and what no abstract specification sees: pointers in both directions agree, no node is lost, every entry is in its bucket, the tree is ordered and balanced |
| `programs` | one of four in a behaviour: `EditFormats` with all formats and options, 2 files, names with every kind of character; `ICmd` with command lines of every kind of option; `Deurlname` with 2 arguments; `WorkDir` with 6 directories, each of the same names, arguments that are no directory, and failures of `open` and `chdir` as long as no files are listed, and of `open` before `mv` | names typed are read back, and no name goes to another file; exactly the file asked for is renamed, and none that was there all the time is replaced without a question, with other programs at work between any two steps; each argument is renamed to its decoded name in its own directory; the files renamed are those that were checked and listed, and the program ends where it began, without open descriptors, although `old_dir` may be left over |

Three files are the least with a circular set of three, or one of two and a third
rename that uses or wants its names; four files are needed for two circular sets.
Two files are enough to mix up names in an edited file. `programs` does not check for
deadlock, because these programs end.

Fairness: `make_plan`, `apply_plan` and the session's own steps
(`noncommandmode_run`) are weakly fair: they are straight-line code of one process,
wait only for their children (`ls`, the editor, `mv`, `cp`), and these end. Nothing
is assumed of the user or of other processes.

Seven runs show where the code departs from what its comments or its manual say;
each is a finding in `PROJECT.json`. The first six concern the interactive mode:

* `duplicate_after_edit`: `duplicate_scan` compares unchecked specs only, so a
  corrected file can get the destination of a rename already accepted.
* `circular_after_edit`: the first file of a circular set is left in `work_files` as
  a plain rename; made anew, the plan moves it onto the next file of the set.
* `edit_all_twice`: an edit resets statuses but not links; a rename then waits for
  one that is in no plan.
* `broken_edit`: names read before an edit broke off replace those that the
  current plan was checked with.
* `import_with_plan`: `import_command` frees the specs that the plan points to.
* `failed_list`: a `list` that fails resets `work_directory` but keeps the plan: list
  `a`, edit, `list b` which cannot be entered, `apply`, and the plan made and checked
  for `a` is applied in the directory where the program was started, to files that were
  neither listed nor checked.
* `swapped_names`: with the option `swap`, the new name is read from the first line
  but the old name is still written there.

Met on the way, plain from the code, and not given a run of their own: `quit` does
not warn of unapplied changes (`interactive.c:317`, `qcmd.1:325`); `exit_warned` is
never reset; `accept_reedit` survives a new listing and a change of format
(`edit.c:90`); `previous_scan` lists old renames in the order of the listing, so that
one that waits for a later one is skipped in the first pass of `apply`;
`qcmd --command=mv` checks no destinations (`plan.c:380`).

## Proofs

`ApplyPlanProofs` proves, for every number of renames, every set of names, every
directory and every option, from `DataAssumption`:

* `ApplyTypeCorrect` and `OnePassSufficesAlways`, for `mv` and `cp`;
* `RestOfPlanReadyAlways` and `NoFileLostAlways`, for `mv`.

`ApplyInit` is any plan that satisfies `PlanReady`; that `make_plan` makes such plans
is `PlanIsReady`, proved below. The invariants are not inductive as they
stand. `LoopInv` adds to the types that the list is sorted and without repetition,
that links mirror each other within the list, and that as long as nothing failed the
iterator is at the first element; from this, `free_file_spec` releases exactly the
rename that waited. `SafeInv` adds that names are distinct, that a destination is
free, or vacated by the rename waited for (`Vacated`), and that a rename into the
name that another one vacates waits for it or is waited for (`SourcesOrdered`): the
latter is what keeps a successful rename from filling the source of one that is
still to be done, and it needs the chain of links as a set (`WaitsFor`), because in
a circular set the two are several links apart. `SucceedEffect` states once what a
successful rename does to list and links, `CommandKeepsVacated` what a command, done
or failed, does to the directory.

`MakePlanProofs` proves, for every listing, all typed names, every program and every
interference by other processes, from `DataAssumption`, `PlanAssumption` (temporary
names are injective) and `ScenarioAssumption` (no file is listed twice):

* `PlanTypeOKAlways`, `PlanSortedAlways`, `PlanLinksMirroredAlways` and
  `OneDestinationEachAlways`.

`PlanInv` is inductive. Its parts, beyond types: which statuses and lists go together
in which scan (`StatusInv`); destinations are distinct among planned and unchecked
files (`DestInv`), and a temporary name is none of them, because `map_new` knows each
of these and a file's temporary names are its own (`TmpInv`); the walk along cross
references visits unchecked files, none twice, because both the new names and the old
names of unchecked files are distinct, so the first file it can meet again is the
one it started from (`WalkInv`); while a circular set is collected, its members stand
in front of a rest of the plan that is sorted and linked already (`LinksInv`,
`RestLinked`); and the files in `available` are planned renames that nothing waits
for yet (`SortInv`). The hard step is `AddExtraRename`, which links a whole circular
set at once (`AddExtraFacts`).

On top of `PlanInv`, `PlanIsReadyAlways`: as long as no
other process touches the directory, the plan `qmv` makes moves no file onto another
one, whatever the listing and the typed names. With `RestOfPlanReadyAlways` and
`NoFileLostAlways` this covers the way from a first edit to its last `mv`. `ReadyInv`
adds to `PlanInv` what the checks leave unchecked (`CheckedInv`); that the sources in
the plan are distinct, and exist unless they are the temporary name of a circular set
(`SourcesInv`); and that every destination is free or vacated by the rename waited
for, while a source that does not exist yet is filled by a rename it waits for,
directly or through others (`InOrder`). `InOrder` speaks of a part of the plan,
because the members of a circular set are not in order before `AddExtraRename` closes
the chain; until then `Collected` says what they are, and only the rest of the plan is
in order.

`MakePlanFilesProofs` goes on to prove

* `EachFileOnceAlways`, with any interference: `FilesInv` says, for every scan and every
  position in it, in which list a file is by its status (`ListsInv`, `DoneInv`), that
  the map of `duplicate_scan` holds what was passed (`DuplicateInv`), and which files
  lead into the circular sets and chains not yet walked (`StartsInv`);
* `PlanIsFeasibleSetAlways`, undisturbed: the planned renames are the largest set that
  can be done, by a definition that knows nothing of scans. One half is that what is
  planned is vacated (`PlannedVacated`, from `ReadyInv`). The other is that each
  refusal is forced (`RefusedInv`): the walk that refuses a file has followed the names
  wanted to a file that stays where it is (`WalkStaysIn`, `DeadEndInfeasible`), so no
  feasible set contains any file on the way. For `qcp` the plan is every copy to a
  free name (`CopyInv`).

`SessionProofs` puts these together, for sessions of any length: any listings, edits, names
typed, failing commands and retries, of qmv and qcp.

* `SessionTypeOKAlways` and `NoFreedSpecInUseAlways`, if each plan is made from a fresh
  listing (`EachPlanFresh`): files are edited again only as long as there is no plan, also
  after an edit that broke off, and no list is imported then. This is a condition on the
  commands that the user gives; the scenarios *round* and *rounds* meet it. The
  runs `duplicate_after_edit`, `circular_after_edit`, `edit_all_twice`, `broken_edit` and
  `import_with_plan` show that each part of it is needed: what they do instead leads to
  overwritten files or to freed memory;
* `SessionLosesNothingAlways`, `OriginalsKeptAlways` and `PlanCarriedOutAlways`, if in
  addition qmv runs `mv` and qcp runs `cp`, or nothing is run (`OwnCommand`). With
  `--command` the checks of one program go with the command of another: `qcp --command=mv`
  moves the originals away, `qcmd --command=mv` checks no destination.

`SessionInv` says what each function of the session leaves to the next (`StagesInv`): before
an edit, files nobody has touched (`FreshFiles`), from which `make_plan` can start (`StartMaking`);
while it runs, all of its invariants and where its links lead (`MakingInv`); then a plan
that can be applied or kept, with no link out of the lists in use (`HeldInv`). It needs
to know that a listing takes over nothing from an earlier one (`NewSpecsFresh`), and that
the links that refusing walks leave behind stay within the listed files (`LeadInv`).

For the files, `OwnInv` adds `SafeInv` for qmv and `CopySafe` for qcp, and that whatever qcp
has copied is still at home. `PlanCarriedOut` speaks of the end only; `GoalInv` says of every
point on the way which directory the rest of the plan still leads to. For `mv` that is
each file to where its last rename brings it, through a temporary name if another rename
`Fills` its source (`Moved`). Two things make this work: a rename whose turn it is has
its source filled by nobody and disturbs the source of no other one (`TurnFacts`), and a
rename that was done but reported as failed leaves the plan stuck for ever, so that it is
never carried out (`Stuck`, `StaysStuck`). That what `make_plan` returns leads to all
accepted renames at once (`MadeMoves`) rests on the two extra renames that stand for the
first file of a circular set (`StandFor`).

`ProgramsProofs` proves, for every set of directories and names,

* `BackHomeAlways`, whatever directories cannot be opened or entered, if `ls` runs and
  `fchdir` succeeds. The invariant `HomeInv` has to allow for a stale `old_dir`: the
  pipe of the next `ls` can then take its number, and it is only because a pipe is no
  directory that `fchdir` fails and the program stays where it is;
* `RenamesThePlanAlways`, for any arguments of `list`, if new names are relative and
  nothing fails but the opening and entering of directories as long as no files are
  listed, and the opening of `.` before `mv`. Each
  part of the hypothesis is one of the faults that section "Work directory" names: without
  it TLC finds a counterexample, that of `failed_list` or a like one. `PathsInv`
  relates the paths checked to the work directory, through the associativity of
  putting directories in front of names (`CatFiles`);
* `NoOverwriteUnaskedAlways`, for any command line and other programs at work at any
  moment. `AskedInv` says that the lasting files exist, so that none of them passes
  the check without a question, and that nothing is added to them afterwards;
* `RenamesOneFileAlways`, for command lines of any length, from `ICmdAssumption` (the
  program knows the options of `mv` that have a value, but for the two that name a
  directory). The two readings of the command line, `Scanned` and `ReadByMv`, are compared
  argument by argument: `Agree` says that as long as no `--target-directory` was seen
  they have found the same operands, expect an option's value or not together, and
  take all that follows for operands or not together (`AgreeStep`, `AgreeOnLine`); and
  that no operand has been found under POSIXLY_CORRECT without ending the options. Only
  then does it follow that the name added, with or without `--`, is the second operand
  (`TwoOperands`);
* `EachFileDecodedAlways`, for names and directories of any length, from `UrlAssumption`
  (codes are different, have two digits, and no digit is `%` or a slash; a directory
  ends in a slash). `Flattens` and `PiecesStand` say where the piece written for each
  character stands in a name; `DecodesWritten` is an induction over the pieces, each of
  which is copied (`PlainPiece`), decoded (`CodeDecoded`) or kept (`CodeKept`: the digits
  that are left are not taken for the begin of another code). `UrlInv` is the invariant
  over the files: each has its meant name as soon as its turn is over;
* `DequoteQuoted`, for names of any length: quoting loses nothing. `FoldExists` gives the fold
  over a text as a function of sets of positions, with which `DequoteRounds` names the
  states of `dequote_output_file` after each character. Each escape leads from the name
  read so far to that name with one more character, and no unfinished escape (`PlainRead`,
  `BackslashRead`, `LetterRead`, `DigitsRead`); the rest is an induction over the pieces of the
  quoted name, for which `PiecesStand` serves again;
* `LineFormatsReadBackAlways`, for the single-column and destination-only formats, any
  number of files, any names, indicators and suboptions in any order, from
  `FormatsAssumption` (names and indicators are sequences, and the suboptions `swap` and
  `separate` are flags). `LinesInv` says that between `output` and `input` the file
  consists of one block of lines for each name the user wants, as long as no line was lost
  or moved; its shape, that of the composition of the blocks, is the same whether `output`
  wrote a name or the user typed it (`OutputIs`). `ReadBack` follows `input` from block to
  block: what is left of the file begins with the next block (`AtBlock`), and reading it
  assigns the name and drops exactly its lines (`OneRead`).

`LListProofs` proves `WellLinkedAlways`, `NoNodeLostAlways` and the refinement
`ListsAreSequencesAlways`, for any number of nodes, any lists and data, and calls in
any order, from `LListAssumption` (`None` is no list, no datum, no list header and no
sequence of data). The inductive invariant `LListInv` says that there is a sequence of nodes `N[l]` for every
list, such that the list's pointers are those of the sequence (`Linked`), no node is in
two of them, the allocated nodes are those in one of them, and the iterator stands on
a node of its list or at its end. A sequence is what the invariant needs, rather than
a set: each of the calls puts a node into it (`InsertsNode`) or takes one out of it
(`TakesNode`), and `Inserted` and `Taken` say once that the pointers are right again.
`TakesEntry` covers the four cases of `llist_remove_entry`; `llist_iterator_remove`
always finds an entry to take, because it ends the program when the next entry is the
first of the list, and an iterator on any other entry, or at the end, has one before
it. The loops of the code
(`Walk`, `Swaps`, `Appended`) are recursive functions. As the induction theorems of the
library cannot be used, `SetInduction` states induction for sets of numbers, from the
well-foundedness of `<`; `WalkSteps`, `Forward`, `Backward`, `Turns` and `Appends` use it
to say where a loop is after so many turns, and `ChainOfList` that following `next` from
`first` finds all of `N[l]`.

For the refinement, `ItemsAre` and `CursorIs` say what the mapping makes of a state with
`LListInv`: a list's items are the data of the nodes `N[l]`, in order, and the cursor is
the one place after which the iterator's node comes (`OnePlace`). `InvStep` then proves
of every step of `LList` that it keeps `LListInv` and is a step, or a stutter, of
`ListSpec`. `Grown` and `Shrunk` do this for all the calls that add or remove one item,
with `DataInserted` and `DataTaken` for the items and `AfterInserted` and `AfterTaken` for
the cursor. `FirstFound` and `LastFound` show that the two searches of
`llist_index_of` and `llist_last_index_of` find the first and the last place. The two loops
need an invariant of their own: `Turned` says what has changed places after so many
turns of `llist_reverse`, and that the ends have met when the loop is left
(`TurnedRound`); `Growing` what `llist_add_all` has appended so far, with enough nodes
left for the rest, and an iterator at the end ends up after all that is appended.

`HMapProofs` proves `HMapWellFormedAlways` and the refinement `HMapIsMapAlways`, for any
keys and values, any hash function and any initial capacity, from `HMapAssumption` (finitely
many keys, and `NoKey` is no key and no value, because callers put no null pointers). The
inductive invariant `HMapInv` says that the keys with a value are `Linked` into the buckets:
every one is the head of the bucket of its hash or the `next` of exactly one other, in the
same bucket, and there is a rank that decreases along `next`. The rank is what keeps
a chain from coming round again, and it does more: it orders each bucket (`RankOrder`), so
that what a loop along the chain visits from an entry on is the set of the entries in its bucket
that rank no higher (`FromHolds`), and what an iterator has still to come to is a set of
keys too (`Ahead`). Here too the loops are recursive functions, unfolded by
`EntryAtSteps`, `RehashSteps` and `ForEachSteps` with `LoopInduction`; that they get to the
end in `LoopSteps` turns is a count of the entries moved or visited (`RehashInv`,
`ForEachInv`, by the pigeonhole principle in `DownEnds` and `ForEachEnds`). `PutAtEnd`,
`PutInFront` and `TakeOut` say once what the three ways to change a chain do to the links.
A rehash changes the ranks, and no caller keeps an iterator across it; the other calls keep
the ranks of all other entries, which is why an iterator goes on undisturbed
(`IteratorPassesPut`, `IteratorPassesRemove`). The entry that was returned last is
behind the iterator, so its removal takes nothing from what is to come.

Only model-checked: liveness, which the provers cannot do; sessions in which a plan is made
from another one (`SessionTypeOK` and `NoFreedSpecInUse` of the scenario *editing*); the
tree map and its refinement; the dual-column format, and `NamesNotMixedUp`. Whether a
dual-column file is read back depends on the width of the columns and the indicators
together: with an `indicator1` of blanks that is as wide as the column, every line looks
like the second half of a pair. The suboptions of the run have no such indicator, and the
theorem would need the exact condition under which tabs and blanks up to a column are
told from a name. `NamesNotMixedUp` is about lines that are out of place, and is false for
indicators for which the quoted name and the indicator of another line can be confused,
such as one that ends in a backslash.

## Plan

1. Done: `FileSpecs`, `MakePlan`, `ApplyPlan`, `QCmd`, and proofs about them.
2. Done: the containers and their refinements.
3. Done: `WorkDir`, `EditFormats`, `ICmd`, `Deurlname`.
4. Done: proofs that plans are sorted, linked, without shared destinations and ready
   to be applied.
5. Done: proofs that a plan is complete, about `WorkDir`, `ICmd`, `Deurlname`, `LList` and
   `HMap`, and that the latter two implement `ListSpec` and `MapSpec`.
6. Done: proofs about whole sessions: nothing is lost, and a plan carried out has done
   what was asked for.
7. Done: proofs that quoting loses nothing, and that the formats with a line or two for
   each name are read back.
8. Left: theorems about `TMap` and the dual-column format.

## Not modelled

* gnulib (`gnulib-lib/`), which is five sixths of the C code in the repository, and is
  a third-party library whose functions (`getopt`, `regex`, `quotearg`, replacements
  of the C library) the programs use as they are. Translations and the build system
  are no code of the program. The programs' own code is 8300 lines.
* Messages, help and version texts, completion (`error.c`, `display.c`, parts of
  `interactive.c` and of the `main` functions): they print and change no state.
* `variables.c` sets and prints five settings, each read in one place.
* `intutil.c` parses the two numbers of the dual-column format; the growth of
  `strbuf.c`; the functions of `io-utils.c` that no program calls.
* `list.c` with several arguments, and the options that it passes to `ls`.
* Read errors of the edited file, and a tab size of 0, which divides by zero.
