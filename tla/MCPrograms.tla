------------------------------ MODULE MCPrograms -----------------------------
(***************************************************************************)
(* The smaller parts of the programs, each on its own: a behaviour is one  *)
(* of the edit file, of imv, of deurlname, or of the work directory.       *)
(***************************************************************************)
EXTENDS MCEditFormats, MCWorkDir, ICmd, Deurlname

VARIABLE subject      \* the part of this behaviour

-----------------------------------------------------------------------------
\* imv: some of the ways to write options, with and without their values, and
\* files that look like options.
SomeArguments ==
  {Word("a"), Word("b"), Dashes, Short(<<"f">>), Short(<<"S">>), Short(<<"S", "x">>),
   Short(<<"f", "S">>), Short(<<>>), Short(<<"t">>), Long("suffix"), Long("verbose"),
   Long("target-directory"), LongWith("suffix"), LongWith("target-directory")}
SomeCommandLines == UNION {[1 .. n -> SomeArguments] : n \in 1 .. 2}
                    \cup [1 .. 3 -> {Word("a"), Dashes, Short(<<"f">>), Short(<<"S">>)}]
SomeTypedFiles == {Word("a"), Word("b"), Short(<<"f">>), Dashes}
SomeFiles == {{Word("a"), Short(<<"f">>)}, {Word("a"), Word("b"), Dashes}}

-----------------------------------------------------------------------------
\* deurlname: a letter that is no hexadecimal digit, and two digits.
SomeCodes == [c \in {"G", "%", "/", "NUL", "4", "7"} |->
                CASE c = "G" -> <<"4", "7">> [] c = "%" -> <<"2", "5">>
                  [] c = "/" -> <<"2", "f">> [] c = "NUL" -> <<"0", "0">>
                  [] c = "4" -> <<"3", "4">> [] c = "7" -> <<"3", "7">>]
SomeUrlNames == {<<"G">>, <<"%", "4", "G">>, <<"G", "%", "4", "7">>, <<"G", "/", "G">>,
                 <<"NUL", "G">>, <<"%">>, <<"4", "G">>}
SomeUrlDirs == {<<>>, <<"%", "4", "7", "/">>}

-----------------------------------------------------------------------------
NoFormats ==
  /\ format = "" /\ options = <<>> /\ real_width = 0 /\ specs = <<>> /\ lines = <<>>
  /\ stage = "" /\ earlier = <<>> /\ meant = <<>> /\ broken = FALSE /\ result = ""
NoICmd ==
  /\ args = <<>> /\ posixly_correct = FALSE /\ pass_through = FALSE /\ exists = {}
  /\ lasting = {} /\ newname = Nothing /\ agreed = Nothing /\ ran = <<>> /\ phase = ""
NoUrls == downloads = <<>> /\ next = 0 /\ contents = <<>> /\ failed = {}

Init ==
  /\ WorkDirInit
  /\ \/ subject = "formats" /\ FormatsInit /\ NoICmd /\ NoUrls
     \/ subject = "icmd" /\ NoFormats /\ ICmdInit /\ NoUrls
     \/ subject = "deurlname" /\ NoFormats /\ NoICmd /\ UrlInit
     \/ subject = "workdir" /\ NoFormats /\ NoICmd /\ NoUrls

EditStep == FormatsNext /\ UNCHANGED <<icmdVars, urlVars, workDirVars>>
ICmdStep == ICmdNext /\ UNCHANGED <<formatVars, urlVars, workDirVars>>
UrlStep == rename_next /\ UNCHANGED <<formatVars, icmdVars, workDirVars>>
WorkDirStep == WorkDirNext /\ UNCHANGED <<formatVars, icmdVars, urlVars>>

Next ==
  \/ subject = "formats" /\ EditStep /\ UNCHANGED subject
  \/ subject = "icmd" /\ ICmdStep /\ UNCHANGED subject
  \/ subject = "deurlname" /\ UrlStep /\ UNCHANGED subject
  \/ subject = "workdir" /\ WorkDirStep /\ UNCHANGED subject

Spec == Init /\ [][Next]_<<formatVars, icmdVars, urlVars, workDirVars, subject>>
==============================================================================
