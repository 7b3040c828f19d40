------------------------------ MODULE MCWorkDir ------------------------------
(***************************************************************************)
(* Instances of WorkDir: a home directory with two subdirectories, both  *)
(* with a subdirectory of the name of the first.                           *)
(***************************************************************************)
EXTENDS WorkDir

Start == <<"home">>
SomeDirs == {<<>>, Start, <<"home", "a">>, <<"home", "b">>,
             <<"home", "a", "a">>, <<"home", "b", "a">>}
RelativeArgs == {Here} \cup {Relative(path) : path \in
                              {<<"a">>, <<"b">>, <<"a", "a">>, <<"b", "a">>, <<"none">>}}
AllArgs == RelativeArgs \cup {Absolute(dir) : dir \in SomeDirs}
BareNames == {Relative(<<"n">>), Relative(<<"a", "n">>), Relative(<<"a", "a", "n">>)}

\* The current directory cannot be opened, when no files are listed yet or when
\* the work directory is entered for mv; or the first directories cannot be
\* entered.
EnteringFails == {<<"first list", "open">>, <<"first list", "chdir">>, <<"apply", "open">>}
\* Another directory cannot be entered, once files have been listed.
ListFails == {<<"list", "chdir">>}
==============================================================================
