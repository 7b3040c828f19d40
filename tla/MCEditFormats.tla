---------------------------- MODULE MCEditFormats ----------------------------
(***************************************************************************)
(* Instances of EditFormats: two files with names that are hard to quote,  *)
(* narrow columns, so that a name of four characters is a long one.        *)
(***************************************************************************)
EXTENDS EditFormats

SomeNames == {<<"x">>, <<" ", "x">>, <<"x", " ">>, <<"x", "NL">>, <<"CTRL", "1">>,
              <<"x", "\\">>, <<"x", "x", "x", "x">>}
SomeTyped == {<<"y">>, <<" ", "y">>, <<"y", " ">>, <<"\\", "n">>, <<"NL", "0">>, <<>>}
Renamed == <<"z">>

Width(n) == [name |-> "width", value |-> n]
Tabs(n) == [name |-> "tabsize", value |-> n]
Flag(name) == [name |-> name, value |-> TRUE]
Mark(name, text) == [name |-> name, value |-> text]
Of(f, subs) == [format |-> f, suboptions |-> subs]

SwapOnly == {Of("single-column", <<Flag("swap")>>)}
SomeFormats ==
  {Of("dual-column", <<>>),
   Of("dual-column", <<Width(3), Tabs(2)>>),
   Of("dual-column", <<Width(5), Flag("separate"), Tabs(4), Flag("spaces")>>),
   Of("dual-column", <<Width(1), Flag("autowidth"), Tabs(2), Mark("indicator2", <<">">>)>>),
   Of("dual-column", <<Width(4), Mark("indicator1", <<"<">>)>>),
   Of("single-column", <<Flag("separate"), Flag("unknown"), Flag("swap")>>),
   Of("single-column", <<Flag("separate"), Mark("indicator1", <<"<">>)>>),
   Of("destination-only", <<Flag("separate"), Flag("help")>>)}
==============================================================================
