-------------------------------- MODULE MCQCmd --------------------------------
(***************************************************************************)
(* Instances of QCmd.  File names are tuples, as in MCMakePlan.            *)
(***************************************************************************)
EXTENDS QCmd

A == <<"a">>
B == <<"b">>
C == <<"c">>
D == <<"d">>
BaseNames == {A, B, C, D}

AllNames == BaseNames \cup {Append(n, k) : n \in BaseNames, k \in 1 .. MaxTmp}
Suffixed == [p \in BaseNames \X (1 .. MaxTmp) |-> Append(p[1], p[2])]

TwoFiles == <<A, B>>
ThreeFiles == <<A, B, C>>

\* `a-1' is a name the user can choose, and a file that can be in the way.
Typed == BaseNames \cup {<<"a", 1>>}

\* The files that can be listed exist; `d' or `a-1' is free, or in the way.
ThreePlus == {{A, B, C}, {A, B, C, D}, {A, B, C, <<"a", 1>>}}
TwoPlus == {{A, B}, {A, B, C}}

\* How the program is started.
Started(name, dummy) == [program |-> name, force_command |-> "", simulate |-> dummy]
MoveOnly == {Started("qmv", FALSE)}
MoveOrCopy == {Started("qmv", FALSE), Started("qcp", FALSE)}
MoveCopyDummy == MoveOrCopy \cup {Started("qmv", TRUE)}

User(files, typed, present, started, used, nlists, nedits) ==
  [listing |-> files, names |-> typed, directories |-> present, setups |-> started, external |-> 0,
   commands |-> used, lists |-> nlists, edits |-> nedits]

\* One round: list, edit everything, apply as often as it takes, leave.
\* Round after round, each on a new listing.
\* Edit again and again, in full, the errors only, or breaking off, before a
\* new listing; the plans are made but not applied.
Sessions ==
  [round |-> User(ThreeFiles, Typed, ThreePlus, MoveCopyDummy, {"apply", "quit", "eof"}, 1, 1),
   rounds |-> User(TwoFiles, BaseNames, TwoPlus, MoveOrCopy,
                   {"list", "first import", "first edit all", "apply", "quit", "eof"}, 2, 2),
   editing |-> User(TwoFiles, BaseNames, TwoPlus, MoveOnly,
                    {"list", "edit", "edit all", "broken edit", "eof"}, 2, 2)]

\* Correct the errors of a plan and make it anew.
CorrectErrors ==
  [correct |-> User(ThreeFiles, BaseNames, ThreePlus, MoveOnly, {"first edit all", "edit", "eof"}, 1, 2)]
\* Edit everything once more.
EditTwice ==
  [twice |-> User(TwoFiles, BaseNames, TwoPlus, MoveOnly, {"edit all", "apply", "eof"}, 1, 2)]
\* Edit everything once more, but the second edit breaks off.
BreakSecondEdit ==
  [broken |-> User(TwoFiles, BaseNames, TwoPlus, MoveOnly,
                   {"edit all", "broken edit", "apply", "eof"}, 1, 2)]
\* Import a list of files at any time.
ImportAnyTime ==
  [import |-> User(TwoFiles, BaseNames, TwoPlus, MoveOnly,
                   {"first edit all", "import", "apply", "eof"}, 2, 2)]
==============================================================================
