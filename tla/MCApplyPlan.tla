------------------------------ MODULE MCApplyPlan ------------------------------
(***************************************************************************)
(* Instances of ApplyPlan: every ready plan of MaxSpecs renames among four *)
(* names, in every directory of files with these names.                    *)
(***************************************************************************)
EXTENDS ApplyPlan

FourNames == {"a", "b", "c", "d"}

\* How the program is started.
Started(name, dummy) == [program |-> name, force_command |-> "", simulate |-> dummy]
MoveOrDummy == {Started("qmv", FALSE), Started("qmv", TRUE)}
==============================================================================
