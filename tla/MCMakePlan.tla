------------------------------ MODULE MCMakePlan ------------------------------
(***************************************************************************)
(* Instances of MakePlan.  A file name is a tuple: <<"a">> is `a' and      *)
(* <<"a", 1>> is `a-1', the name that "%s-%d" makes of it.                 *)
(***************************************************************************)
EXTENDS MakePlan

Files3 == <<<<"a">>, <<"b">>, <<"c">>>>
Files4 == <<<<"a">>, <<"b">>, <<"c">>, <<"d">>>>

BaseNames == {<<"a">>, <<"b">>, <<"c">>, <<"d">>}

AllNames == BaseNames \cup {Append(n, k) : n \in BaseNames, k \in 1 .. MaxTmp}
Suffixed == [p \in BaseNames \X (1 .. MaxTmp) |-> Append(p[1], p[2])]

\* `a-1' is a name the user can choose, and a file that can be in the way.
Typed == BaseNames \cup {<<"a", 1>>}

\* At most one of the files that were listed has disappeared since.
AlmostAll == {BaseNames \ missing : missing \in {{}} \cup {{n} : n \in BaseNames}}
AlmostAllAndTmp == AlmostAll \cup {files \cup {<<"a", 1>>} : files \in AlmostAll}

\* How the program is started.
Started(name, dummy) == [program |-> name, force_command |-> "", simulate |-> dummy]
MoveOrCopy == {Started("qmv", FALSE), Started("qcp", FALSE)}
AllPrograms ==
  MoveOrCopy \cup {[program |-> "qcmd", force_command |-> "cp", simulate |-> FALSE]}

\* Four files and no one else, or three files and another process, which can
\* remove any of them before the first step.
QuietOrDisturbed ==
  [quiet |-> [listing |-> Files4, names |-> Typed, directories |-> AlmostAllAndTmp,
              setups |-> AllPrograms, external |-> 0],
   disturbed |-> [listing |-> Files3, names |-> Typed,
                  directories |-> {BaseNames, BaseNames \ {<<"d">>}},
                  setups |-> MoveOrCopy, external |-> 1]]
==============================================================================
