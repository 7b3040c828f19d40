-------------------------------- MODULE ICmd --------------------------------
(***************************************************************************)
(* imv and icp (icmd.c): find the one file among the arguments, let the    *)
(* user edit its name, and run mv or cp with all the arguments and the new *)
(* name.  The program and mv each read the arguments in their own way.     *)
(*                                                                         *)
(* An argument is a word, a cluster of short options, a long option, or    *)
(* `--'.  A file may have any of them as its name.                         *)
(***************************************************************************)
EXTENDS Naturals, Sequences, SequencesExt

CONSTANTS
  CommandLines,     \* the arguments after those of the program itself
  MvOptions,        \* the options of mv with a value
  arg_options,      \* those that the program takes for them
  TypedFiles,       \* what may be left of the line typed at the prompt, trimmed
  FilesAtStart      \* the sets of files that may exist

\* The program knows the options of mv that have a value, except the two that
\* name a directory: "Do not include -t, --target-directory" (icmd.c:54).
ASSUME ICmdAssumption ==
  /\ arg_options = MvOptions \ {"t", "target-directory"}
  /\ \A line \in CommandLines :
       /\ line \in Seq(ToSet(line))
       /\ \A arg \in ToSet(line) :
            CASE arg.kind = "short" ->
                   arg.letters \in Seq(ToSet(arg.letters) \ {"target-directory"})
              [] arg.kind = "long" -> arg.name # "t"
              [] OTHER -> TRUE

Dashes == [kind |-> "dashes"]
Word(name) == [kind |-> "word", name |-> name]
Short(letters) == [kind |-> "short", letters |-> letters]
Long(name) == [kind |-> "long", name |-> name]
LongWith(name) == [kind |-> "longwith", name |-> name]     \* --name=value
Nothing == [kind |-> "nothing"]                            \* an empty line

VARIABLES
  args, posixly_correct, pass_through,
  exists,           \* the files that exist
  lasting,          \* history: those that did ever since the name was typed
  newname,
  agreed,           \* the name for which the user has said yes to the question
  ran,              \* the arguments of the command
  phase             \* "start", "prompt", "check", "question", "exec", "run", "exit"

icmdVars == <<args, posixly_correct, pass_through, exists, lasting, newname, agreed, ran, phase>>

-----------------------------------------------------------------------------
\* The scan of the arguments for files, in main: what one argument changes,
\* and the variables after each of them.
ScanOne(posix, s, arg) ==
  LET noted == [s EXCEPT !.has_target_dir = @ \/ arg.name = "target-directory"]
      added == [s EXCEPT !.files = Append(@, arg)]
  IN  IF s.skip_opt_arg THEN [s EXCEPT !.skip_opt_arg = FALSE]
      ELSE IF s.no_more_opts THEN added
      ELSE CASE arg = Dashes -> [s EXCEPT !.no_more_opts = TRUE]
             [] arg.kind \in {"long", "longwith"} ->
                  [noted EXCEPT !.skip_opt_arg = arg.kind = "long" /\ arg.name \in arg_options]
             [] arg.kind = "short" ->
                  [s EXCEPT !.skip_opt_arg = arg_options \cap ToSet(arg.letters) # {}]
             [] OTHER -> [added EXCEPT !.no_more_opts = posix]
Scanned(posix, arguments) ==
  LET after[n \in 0 .. Len(arguments)] ==
        IF n = 0 THEN [skip_opt_arg |-> FALSE, no_more_opts |-> FALSE,
                       has_target_dir |-> FALSE, files |-> <<>>]
        ELSE ScanOne(posix, after[n - 1], arguments[n])
  IN  after
Scan(arguments) == Scanned(posixly_correct, arguments)[Len(arguments)]

\* The operands that mv finds with getopt_long, a library.  A value of a short
\* option may be in the same argument, and `-' is an operand.
ReadOne(posix, s, arg) ==
  LET WantsNext(letters) ==
        /\ letters # <<>> /\ Last(letters) \in MvOptions
        /\ ToSet(Front(letters)) \cap MvOptions = {}
      added == [s EXCEPT !.operands = Append(@, arg)]
  IN  IF s.value THEN [s EXCEPT !.value = FALSE]
      ELSE IF s.only_operands THEN added
      ELSE CASE arg = Dashes -> [s EXCEPT !.only_operands = TRUE]
             [] arg.kind = "long" -> [s EXCEPT !.value = arg.name \in MvOptions]
             [] arg.kind = "longwith" -> s
             [] arg.kind = "short" /\ arg.letters # <<>> ->
                  [s EXCEPT !.value = WantsNext(arg.letters)]
             [] OTHER -> [added EXCEPT !.only_operands = posix]
ReadByMv(posix, arguments) ==
  LET after[n \in 0 .. Len(arguments)] ==
        IF n = 0 THEN [value |-> FALSE, only_operands |-> FALSE, operands |-> <<>>]
        ELSE ReadOne(posix, after[n - 1], arguments[n])
  IN  after
Operands(arguments) == ReadByMv(posixly_correct, arguments)[Len(arguments)].operands

WithNewName_no_dashes(arguments, name) == Append(arguments, name)
WithNewName(arguments, name) ==
  IF posixly_correct \/ Scan(arguments).no_more_opts THEN Append(arguments, name)
  ELSE arguments \o <<Dashes, name>>

-----------------------------------------------------------------------------
ICmdInit ==
  /\ args \in CommandLines
  /\ posixly_correct \in BOOLEAN /\ pass_through \in BOOLEAN
  /\ exists \in FilesAtStart
  /\ lasting = {} /\ newname = Nothing /\ agreed = Nothing
  /\ ran = <<>> /\ phase = "start"

Exit == phase' = "exit" /\ UNCHANGED <<newname, agreed, ran, lasting>>
Stays == UNCHANGED <<args, posixly_correct, pass_through, exists>>

\* A missing value or file, too many files, or a file that does not exist end
\* the program; several files, or a directory for them, go to the command.
main ==
  /\ phase = "start" /\ Stays
  /\ LET scan == Scan(args)
         refused == \/ scan.skip_opt_arg \/ scan.files = <<>>
                    \/ ~pass_through /\ Len(scan.files) > 1
         passed_on == Len(scan.files) > 1 \/ scan.has_target_dir
     IN  \/ refused /\ Exit
         \/ ~refused /\ passed_on /\ phase' = "run" /\ ran' = args
            /\ UNCHANGED <<newname, agreed, lasting>>
         \/ ~refused /\ passed_on /\ Exit                 \* it cannot be run
         \/ ~refused /\ ~passed_on /\ scan.files[1] \notin exists /\ Exit
         \/ ~refused /\ ~passed_on /\ scan.files[1] \in exists /\ phase' = "prompt"
            /\ UNCHANGED <<newname, agreed, ran, lasting>>

srcfile == Scan(args).files[1]

\* The line typed at the prompt; an empty one, the old name, end of file and an
\* interrupt end the program.
readline ==
  /\ phase = "prompt" /\ Stays
  /\ \/ Exit
     \/ /\ newname' \in TypedFiles \ {srcfile}
        /\ phase' = "check" /\ lasting' = exists
        /\ UNCHANGED <<agreed, ran>>

check_overwrites(name) ==
  phase' = "exec" /\ UNCHANGED <<newname, agreed, ran, lasting>>
check_newname(name) ==
  /\ phase' = IF name \in exists THEN "question" ELSE "exec"
  /\ UNCHANGED <<newname, agreed, ran, lasting>>

check == phase = "check" /\ Stays /\ check_newname(newname)

\* Anything but yes goes back to the prompt, with the name that was typed.
yesno ==
  /\ phase = "question" /\ Stays
  /\ \/ phase' = "exec" /\ agreed' = newname /\ UNCHANGED <<newname, ran, lasting>>
     \/ phase' = "prompt" /\ UNCHANGED <<newname, agreed, ran, lasting>>
     \/ Exit                                                    \* an interrupt

\* The command takes the place of the program, or cannot be run.
execvp ==
  /\ phase = "exec" /\ Stays
  /\ \/ phase' = "run" /\ ran' = WithNewName(args, newname)
        /\ UNCHANGED <<newname, agreed, lasting>>
     \/ Exit

\* Other programs create and remove the file of the new name.
other_program ==
  /\ phase \in {"check", "question", "exec"}
  /\ exists' \in {exists \cup {newname}, exists \ {newname}}
  /\ lasting' = lasting \cap exists'
  /\ UNCHANGED <<args, posixly_correct, pass_through, newname, agreed, ran, phase>>

ICmdNext == main \/ readline \/ check \/ yesno \/ execvp \/ other_program

ICmdSpec == ICmdInit /\ [][ICmdNext]_icmdVars

-----------------------------------------------------------------------------
\* Arguments that the program and mv read differently: `-', a value in the same
\* argument as its short option, where the program skips the next argument as
\* well (icmd.c:245), and `-t', whose value the program takes for a file.
ReadAlike(arg) ==
  arg.kind = "short" =>
    /\ arg.letters # <<>> /\ ToSet(Front(arg.letters)) \cap MvOptions = {}
    /\ Last(arg.letters) # "t"

\* When the user has typed a name, the command renames that one file to that
\* one name: these are the two operands that it finds, wherever options, their
\* values and `--' stand and whatever the names look like (icmd.c:215, :352).
RenamesOneFile ==
  (phase = "run" /\ newname # Nothing /\ \A i \in 1 .. Len(args) : ReadAlike(args[i]))
  => Operands(ran) = <<srcfile, newname>>

\* A file that was there all the time from the typing of the new name to the
\* start of the command is replaced only if the user has agreed to overwrite
\* that name, whatever other programs create and remove between the check and
\* its use (icmd.c:341, :362); a file created after the check is not noticed.
NoOverwriteUnasked ==
  (phase = "run" /\ newname \in lasting) => agreed = newname
==============================================================================
