----------------------------- MODULE EditFormats -----------------------------
(***************************************************************************)
(* The file that the user edits: what the edit formats write for a list of *)
(* FileSpecs, and which new names they read from what the user has made of *)
(* it (editformats/*.c, quote.c, common/tab-utils.c).                      *)
(*                                                                         *)
(* A name or a line is a sequence of characters.  A character is a string; *)
(* "NL" and "TAB" are the control characters with an abbreviation, "CTRL"  *)
(* is one without, number 001.  The newline at the end of a line of the    *)
(* file is "EOL".                                                          *)
(***************************************************************************)
EXTENDS Integers, Sequences, SequencesExt

CONSTANTS OldNames, TypedNames,      \* sets of names
          Formats,                   \* sets of format and suboptions
          EarlierName,               \* a new name from an earlier edit
          MaxFiles                   \* bound on the number of FileSpecs

Suboptions == UNION {Range(f.suboptions) : f \in Formats}
Marks == {sub.value : sub \in {s \in Suboptions : s.name \in {"indicator1", "indicator2"}}}

\* Names and indicators are sequences.
ASSUME FormatsAssumption ==
  /\ MaxFiles \in Nat
  /\ \A text \in OldNames \cup TypedNames \cup {EarlierName} \cup Marks :
       text \in Seq(Range(text))
  /\ \A f \in Formats : /\ f.format \in {"dual-column", "single-column", "destination-only"}
                        /\ f.suboptions \in Seq(Range(f.suboptions))
  /\ \A sub \in Suboptions : sub.name \in {"swap", "separate"} => sub.value \in BOOLEAN

VARIABLES format, options,           \* the options are static variables there
          real_width,
          specs,                     \* old_name and new_name of each FileSpec
          lines,                     \* the file
          stage,                     \* "listed", "editing", "read"
          earlier,                   \* the new names before the edit
          meant,                     \* the new names the user wants
          broken,                    \* the user has lost a line
          result                     \* of input: "ok", "failed", "undefined"

formatVars ==
  <<format, options, real_width, specs, lines, stage, earlier, meant, broken, result>>

-----------------------------------------------------------------------------
(***************************************************************************)
(* quote.c                                                                 *)
(***************************************************************************)
Control == [n |-> "NL", t |-> "TAB"]                  \* c_abbrevs
Octal == {"0", "1"}
CharOf(digits) == IF digits = <<"0", "0", "1">> THEN "CTRL" ELSE "?"

Escape(char) ==
  CASE char = "\\" -> <<"\\", "\\">>
    [] char \in {"NL", "TAB"} -> <<"\\", CHOOSE c \in DOMAIN Control : Control[c] = char>>
    [] char = "CTRL" -> <<"\\", "0", "0", "1">>
    [] OTHER -> <<char>>

quote_output_file(name) == FlattenSeq([i \in 1 .. Len(name) |-> Escape(name[i])])

\* One character; those of an escape that is not complete are in s.escape.
DequoteChar(s, char) ==
  CASE s.escape = <<>> /\ char = "\\" -> [s EXCEPT !.escape = <<char>>]
    [] s.escape = <<>> /\ char # "\\" -> [s EXCEPT !.name = Append(@, char)]
    [] Len(s.escape) = 1 /\ char \in Octal -> [s EXCEPT !.escape = Append(@, char)]
    [] Len(s.escape) = 1 /\ char \notin Octal ->
         [s EXCEPT !.escape = <<>>,
                   !.name = Append(@, IF char \in DOMAIN Control THEN Control[char] ELSE char)]
    [] Len(s.escape) = 3 /\ char \in Octal ->
         [s EXCEPT !.escape = <<>>,
                   !.name = Append(@, CharOf(Append(Tail(s.escape), char)))]
    [] OTHER -> [s EXCEPT !.escape = Append(@, char), !.valid = @ /\ char \in Octal]

\* The name and whether dequote_output_file returns one; without it, the
\* callers go on with a null pointer.
dequote_output_file(text) ==
  LET start == [name |-> <<>>, escape |-> <<>>, valid |-> TRUE]
      end == FoldLeft(DequoteChar, start, text)
  IN  [name |-> end.name, valid |-> end.valid /\ end.escape = <<>>]

-----------------------------------------------------------------------------
(***************************************************************************)
(* tab-utils.c, for a tab size that is not 0 where a text is read.         *)
(***************************************************************************)
Blanks == {" ", "TAB"}
Repeat(char, n) == [i \in 1 .. n |-> char]

tab_to(from, to, tabsize) ==
  LET stop == IF tabsize = 0 \/ from \div tabsize >= to \div tabsize THEN from
              ELSE (to \div tabsize) * tabsize
      tabs == IF stop = from THEN 0 ELSE (to \div tabsize) - (from \div tabsize)
  IN  Repeat("TAB", tabs) \o Repeat(" ", to - stop)

tab_index(text, pos, tabsize) ==
  LET Column(s, char) ==
        IF s.column >= pos THEN s
        ELSE [p |-> s.p + 1,
              column |-> IF char = "TAB" THEN (s.column \div tabsize + 1) * tabsize
                         ELSE s.column + 1]
      Index(s) == IF s.column > pos THEN s.p - 1 ELSE s.p
  IN  Index(FoldLeft(Column, [p |-> 0, column |-> 0], text))

chomp(line) == IF line # <<>> /\ Last(line) = "EOL" THEN Front(line) ELSE line
starts_with(line, text) == IsPrefix(text, line)
From(line, i) == SubSeq(line, i + 1, Len(line))
AllBlank(line, n) == \A i \in 1 .. n : line[i] \in Blanks

-----------------------------------------------------------------------------
(***************************************************************************)
(* parse_options: each suboption sets an option; an unknown one, and help, *)
(* end it, and the former resets them all.                                 *)
(***************************************************************************)
Default == [swap |-> FALSE, separate |-> FALSE, spaces |-> FALSE, tabsize |-> 8, width |-> 40,
            autowidth |-> TRUE, indicator1 |-> <<>>, indicator2 |-> <<>>]

Known(f) ==
  CASE f = "dual-column" -> DOMAIN Default
    [] f = "single-column" -> {"swap", "separate", "indicator1", "indicator2"}
    [] f = "destination-only" -> {"separate"}

SetOption(f, s, sub) ==
  CASE s.done -> s
    [] ~s.done /\ sub.name \in Known(f) ->
         [s EXCEPT !.set = IF sub.name = "width"
                           THEN [@ EXCEPT !.width = sub.value, !.autowidth = FALSE]
                           ELSE [@ EXCEPT ![sub.name] = sub.value]]
    [] OTHER -> [done |-> TRUE, set |-> IF sub.name = "help" THEN s.set ELSE Default]

parse_options(f, suboptions) ==
  FoldLeft(LAMBDA s, sub : SetOption(f, s, sub), [done |-> FALSE, set |-> Default],
           suboptions).set

-----------------------------------------------------------------------------
(***************************************************************************)
(* output.  In a dual-column line the old name is followed by blanks up to *)
(* the column real_width; what looks like such blanks in the old name is   *)
(* escaped; an old name that is too long gets a line of its own.           *)
(***************************************************************************)
quote_nothing(text, width) == text
quote_first_last(text, width) ==
  LET inner == IF width # 0 /\ Last(text) = " " THEN Front(text) \o <<"\\", " ">> ELSE text
  IN  IF width # 0 /\ AllBlank(text, tab_index(text, width, options.tabsize))
      THEN <<"\\">> \o inner ELSE inner

\* The width grows with the names; the first names are quoted for a smaller one.
Layout(files) ==
  LET Add(s, spec) ==
        LET old == quote_first_last(quote_output_file(spec.old_name), s.width)
            shown == IF options.swap THEN quote_output_file(spec.new_name) ELSE old
        IN  [olds |-> Append(s.olds, old),
             width |-> IF options.autowidth /\ Len(shown) + 1 > s.width
                       THEN Len(shown) + 1 ELSE s.width]
  IN  FoldLeft(Add, [olds |-> <<>>, width |-> options.width], files)

DualLines(old, new, width) ==
  LET tabsize == IF options.spaces THEN 0 ELSE options.tabsize
      first == options.indicator1 \o old
      second == options.indicator2 \o quote_output_file(new) \o <<"EOL">>
  IN  IF Len(old) >= width + Len(options.indicator1)
      THEN <<first \o <<"EOL">>, tab_to(0, width, tabsize) \o second>>
      ELSE <<first \o tab_to(Len(first), width, tabsize) \o second>>

LinesOf(spec, old, width) ==
  CASE format = "dual-column" -> DualLines(old, spec.new_name, width)
    [] format = "single-column" ->
         <<options.indicator1 \o quote_output_file(spec.old_name) \o <<"EOL">>,
           options.indicator2 \o quote_output_file(spec.new_name) \o <<"EOL">>>>
    [] format = "destination-only" -> <<quote_output_file(spec.new_name) \o <<"EOL">>>>

Output(files, layout) ==
  FlattenSeq([i \in 1 .. Len(files) |->
    LinesOf(files[i], layout.olds[i], layout.width)
    \o IF options.separate /\ i < Len(files) THEN <<<<"EOL">>>> ELSE <<>>])

-----------------------------------------------------------------------------
(***************************************************************************)
(* input.  It reads the lines of one FileSpec after the other, in s.file,  *)
(* and stops at the first that it refuses; what it has assigned before     *)
(* stays.  A null pointer that is used makes the outcome undefined.        *)
(***************************************************************************)
Ends(s, how) == [s EXCEPT !.result = how]
Assigned(s, i, name) == [s EXCEPT !.specs[i].new_name = name]
OldFirst(first, second) == IF options.swap THEN <<second, first>> ELSE <<first, second>>

\* The line that separates two FileSpecs, after the first k lines.
NotSeparated(s, i, k) ==
  options.separate /\ i < Len(s.specs) /\ (Len(s.file) = k \/ chomp(s.file[k + 1]) # <<>>)
AfterLines(s, i, k) ==
  [s EXCEPT !.file = From(@, IF options.separate /\ i < Len(s.specs) THEN k + 1 ELSE k)]

destination_only(s, i) ==
  LET new == dequote_output_file(chomp(s.file[1]))
  IN  CASE s.file = <<>> \/ NotSeparated(s, i, 1) -> Ends(s, "failed")
        [] ~new.valid -> Ends(s, "undefined")
        [] OTHER -> AfterLines(IF new.name = <<>> THEN s ELSE Assigned(s, i, new.name), i, 1)

single_column(s, i) ==
  LET first == chomp(s.file[1])
      second == chomp(s.file[2])
      names == OldFirst(dequote_output_file(From(first, Len(options.indicator1))),
                        dequote_output_file(From(second, Len(options.indicator2))))
      old == names[1]
      new == names[2]
      matches == old.name = s.specs[i].old_name
  IN  CASE Len(s.file) < 2 \/ NotSeparated(s, i, 2) -> Ends(s, "failed")
        [] ~starts_with(first, options.indicator1) -> Ends(s, "failed")
        [] ~starts_with(second, options.indicator2) -> Ends(s, "failed")
        [] ~old.valid \/ (matches /\ ~new.valid) -> Ends(s, "undefined")
        [] OTHER -> AfterLines(IF matches /\ new.name # <<>> THEN Assigned(s, i, new.name)
                               ELSE s, i, 2)

OldUnchecked(s, i, first, second) == Assigned(s, i, second.name)

\* Both functions end by comparing the old name and keeping the new one.
OldMatches(s, i, first, second) ==
  LET names == OldFirst(first, second)
  IN  CASE ~names[1].valid -> Ends(s, "undefined")
        [] names[1].name # s.specs[i].old_name -> Ends(s, "failed")
        [] ~names[2].valid -> Ends(s, "undefined")
        [] OTHER -> Assigned(s, i, names[2].name)

StripTrailing(text) ==
  LET n == CHOOSE n \in 0 .. Len(text) : /\ n = 0 \/ text[n] \notin Blanks
                                         /\ \A k \in n + 1 .. Len(text) : text[k] \in Blanks
  IN  SubSeq(text, 1, n)

process_dual_line(s, i, line1, line2) ==
  LET first == dequote_output_file(From(chomp(line1), Len(options.indicator1)))
      rest == From(chomp(line2), tab_index(chomp(line2), real_width, options.tabsize))
      second == dequote_output_file(From(rest, Len(options.indicator2)))
  IN  CASE ~starts_with(line1, options.indicator1) -> Ends(s, "failed")
        [] ~first.valid -> Ends(s, "undefined")
        [] ~starts_with(rest, options.indicator2) -> Ends(s, "failed")
        [] OTHER -> OldMatches(s, i, [first EXCEPT !.name = StripTrailing(@)], second)

\* A backslash before the blanks keeps the one after it in the old name.
process_single_line(s, i, line1) ==
  LET line == chomp(line1)
      d == tab_index(line, real_width, options.tabsize)
      last == Len(StripTrailing(SubSeq(line, 1, d)))
      cut == IF last > 0 /\ line[last] = "\\" THEN last + 1 ELSE last
      first == dequote_output_file(SubSeq(line, Len(options.indicator1) + 1, cut))
      rest == IF cut = d THEN <<>> ELSE From(line, d)
      second == dequote_output_file(From(rest, Len(options.indicator2)))
  IN  CASE ~starts_with(line1, options.indicator1) \/ d = Len(line) -> Ends(s, "failed")
        [] last = 0 -> Ends(s, "undefined")
        [] last = d -> Ends(s, "failed")
        [] ~starts_with(rest, options.indicator2) -> Ends(s, "failed")
        [] OTHER -> OldMatches(s, i, first, second)

\* A second line with blanks up to the column of the new names goes with the
\* first.  The line that separates is used without a test that there is one.
AfterSpec(read, i, used) ==
  CASE read.result # "ok" -> read
    [] read.result = "ok" /\ NotSeparated(read, i, used) ->
         Ends(read, IF Len(read.file) = used THEN "undefined" ELSE "failed")
    [] OTHER -> AfterLines(read, i, used)

dual_column(s, i) ==
  LET line2 == s.file[2]
      paired == Len(s.file) > 1 /\ AllBlank(line2, tab_index(line2, real_width, options.tabsize))
  IN  IF s.file = <<>> \/ (Len(s.file) = 1 /\ i < Len(s.specs)) THEN Ends(s, "failed")
      ELSE IF paired THEN AfterSpec(process_dual_line(s, i, s.file[1], line2), i, 2)
      ELSE AfterSpec(process_single_line(s, i, s.file[1]), i, 1)

InputOne(s, i) ==
  CASE s.result # "ok" -> s
    [] s.result = "ok" /\ format = "dual-column" -> dual_column(s, i)
    [] s.result = "ok" /\ format = "single-column" -> single_column(s, i)
    [] s.result = "ok" /\ format = "destination-only" -> destination_only(s, i)

\* A dual-column file must be read to its end.
AllRead(s) ==
  IF s.result = "ok" /\ format = "dual-column" /\ s.file # <<>> THEN Ends(s, "failed") ELSE s

Input(file) ==
  LET start == [file |-> file, specs |-> specs, result |-> "ok"]
  IN  AllRead(FoldLeft(InputOne, start, [i \in 1 .. Len(specs) |-> i]))

-----------------------------------------------------------------------------
(***************************************************************************)
(* Files are listed; the edit command writes the file, the user edits it,  *)
(* and the command reads it.                                               *)
(***************************************************************************)
FormatsInit ==
  \E f \in Formats, n \in 1 .. MaxFiles :
    \E names \in [1 .. n -> OldNames], renamed \in SUBSET (1 .. n) :
      /\ IsInjective(names)
      /\ format = f.format
      /\ options = parse_options(f.format, f.suboptions)
      /\ real_width = 0
      /\ earlier = [i \in 1 .. n |-> IF i \in renamed THEN EarlierName ELSE names[i]]
      /\ meant = earlier
      /\ specs = [i \in 1 .. n |-> [old_name |-> names[i], new_name |-> earlier[i]]]
      /\ lines = <<>>
      /\ stage = "listed"
      /\ broken = FALSE
      /\ result = "none"

output ==
  /\ stage = "listed"
  /\ stage' = "editing"
  /\ LET layout == Layout(specs)
     IN  /\ real_width' = IF format = "dual-column" THEN layout.width ELSE real_width
         /\ lines' = Output(specs, layout)
  /\ UNCHANGED <<format, options, specs, earlier, meant, broken, result>>

\* A name takes the place of another where it stands; the rest of the file is
\* what output writes for it.
user_types(i, name) ==
  /\ stage = "editing" /\ ~broken /\ meant[i] = earlier[i]
  /\ meant' = [meant EXCEPT ![i] = name]
  /\ lines' = Output([k \in 1 .. Len(specs) |-> [specs[k] EXCEPT !.new_name = meant'[k]]],
                     [Layout(specs) EXCEPT !.width = real_width])
  /\ UNCHANGED <<format, options, real_width, specs, stage, earlier, broken, result>>

user_loses_line ==
  /\ stage = "editing" /\ ~broken
  /\ broken' = TRUE
  /\ \E k \in 1 .. Len(lines) : lines' = RemoveAt(lines, k)
  /\ UNCHANGED <<format, options, real_width, specs, stage, earlier, meant, result>>

user_swaps_lines ==
  /\ stage = "editing" /\ ~broken
  /\ broken' = TRUE
  /\ \E k \in 1 .. Len(lines) - 1 :
       lines' = [lines EXCEPT ![k] = lines[k + 1], ![k + 1] = lines[k]]
  /\ UNCHANGED <<format, options, real_width, specs, stage, earlier, meant, result>>

input ==
  /\ stage = "editing"
  /\ stage' = "read"
  /\ LET read == Input(lines) IN specs' = read.specs /\ result' = read.result
  /\ UNCHANGED <<format, options, real_width, lines, earlier, meant, broken>>

FormatsNext ==
  \/ output
  \/ \E i \in 1 .. Len(specs), name \in TypedNames : user_types(i, name)
  \/ user_loses_line
  \/ user_swaps_lines
  \/ input

FormatsSpec == FormatsInit /\ [][FormatsNext]_formatVars

-----------------------------------------------------------------------------
(***************************************************************************)
(* Names the dual-column format can read back.  It takes the end of an old *)
(* name for a backslash that keeps a blank, or for blanks of the column,   *)
(* or leaves no blank after it, in these cases (dual-column.c:228, :280,   *)
(* :454, :506).                                                            *)
(***************************************************************************)
OneLine(i) == Len(Layout(specs).olds[i]) < real_width + Len(options.indicator1)
DualReadable(i) ==
  LET old == specs[i].old_name
  IN  /\ Last(old) # "\\"
      /\ Last(old) \in Blanks => OneLine(i) /\ Len(old) > 1
      /\ OneLine(i) => Len(Layout(specs).olds[i]) + Len(options.indicator1) < real_width
      /\ meant[i] # <<>>

\* What the user types is what the program reads: if the user has typed names
\* and left the lines alone, the file is accepted and each FileSpec has the
\* name typed for it, whatever blanks, control characters and backslashes are
\* in it; an empty name leaves it as it was (output and input of each format;
\* `swap' aside, where output does not swap the names and input does).
TypedNamesRead ==
  (/\ stage = "read" /\ ~broken /\ ~options.swap
   /\ format = "dual-column" => \A i \in 1 .. Len(specs) : DualReadable(i))
  => /\ result = "ok"
     /\ \A i \in 1 .. Len(specs) :
          specs[i].new_name = IF meant[i] = <<>> THEN earlier[i] ELSE meant[i]

\* One lost line, or two lines in the wrong order, never give a FileSpec a name
\* that another one has or that was typed for another one.  That is what the
\* old names are in the file for (dual-column.c:471, single-column.c:244); in a
\* single-column file without separating lines it does not hold, nor for two
\* old names that differ in the blanks at their end (dual-column.c:454), nor
\* where the user leaves a new name empty and its line looks like half a pair.
NamesNotMixedUp ==
  (/\ stage = "read" /\ ~options.swap
   /\ format = "dual-column" \/ (format = "single-column" /\ options.separate)
   /\ <<>> \notin Range(meant)
   /\ \A i, k \in 1 .. Len(specs) :
        i # k => StripTrailing(specs[i].old_name) # StripTrailing(specs[k].old_name))
  => \A i, k \in 1 .. Len(specs) :
       (i # k /\ specs[i].new_name \notin {earlier[i], meant[i]})
       => specs[i].new_name \notin {specs[k].old_name, earlier[k], meant[k]}

\* "Swap location of old and new names when editing.  I.e. the first line will
\* contain the destination file name, and the next line the source file name"
\* (qcmd.1:260): the first line of a single-column file is the new name.
SwapPutsNewNameFirst ==
  (stage = "editing" /\ ~broken /\ format = "single-column" /\ options.swap)
  => lines[1] = options.indicator1 \o quote_output_file(meant[1]) \o <<"EOL">>
==============================================================================
