------------------------------ MODULE Deurlname ------------------------------
(***************************************************************************)
(* deurlname (deurlname.c): each file of the command line gets the name in *)
(* which the encoded characters of the last component are decoded.  A name *)
(* is a sequence of characters; a character is a string, "NUL" the null    *)
(* character.                                                              *)
(***************************************************************************)
EXTENDS Integers, Sequences, FiniteSetsExt, SequencesExt

CONSTANTS
  UrlNames,         \* the names that the files should have
  Code,             \* the hexadecimal digits of each character
  UrlDirs,          \* the directories of the files, with the slash at the end
  MaxArgs           \* bound on the number of files

\* Two hexadecimal digits for each character.  A directory ends in a slash.
ASSUME UrlAssumption ==
  /\ {"%", "/", "NUL"} \subseteq DOMAIN Code /\ IsInjective(Code)
  /\ \A char \in DOMAIN Code : /\ Code[char] \in Seq(STRING \ {"%", "/"})
                               /\ Len(Code[char]) = 2
  /\ UrlNames \subseteq Seq(DOMAIN Code)
  /\ \A dir \in UrlDirs : /\ dir \in Seq(STRING)
                          /\ dir # <<>> => Last(dir) = "/"

VARIABLES
  downloads,        \* the files of the command line: path and meant path
  next,             \* the index of the next one
  contents,         \* what is in the files that exist, by their path
  failed            \* the indices of those that could not be renamed

urlVars == <<downloads, next, contents, failed>>

-----------------------------------------------------------------------------
(***************************************************************************)
(* The loop over the characters from the index first: two are skipped      *)
(* after one that was decoded.                                             *)
(***************************************************************************)
Digits == UNION {ToSet(Code[char]) : char \in DOMAIN Code}
IsCode(text, i) ==
  text[i] = "%" /\ i + 2 <= Len(text) /\ {text[i + 1], text[i + 2]} \subseteq Digits
CharAt(text, i) == CHOOSE char \in DOMAIN Code : Code[char] = SubSeq(text, i + 1, i + 2)

DecodeOne(text, s, i) ==
  CASE s.skip > 0 -> [s EXCEPT !.skip = @ - 1]
    [] s.skip = 0 /\ IsCode(text, i) /\ CharAt(text, i) \notin {"NUL", "/"} ->
         [skip |-> 2, text |-> Append(s.text, CharAt(text, i))]
    [] OTHER -> [s EXCEPT !.text = Append(@, text[i])]
Decoded(text, first) ==
  LET after[i \in first - 1 .. Len(text)] ==
        IF i = first - 1 THEN [skip |-> 0, text |-> SubSeq(text, 1, first - 1)]
        ELSE DecodeOne(text, after[i - 1], i)
  IN  after
Decode(text, first) == Decoded(text, first)[Len(text)].text

newname_of_path(name) == Decode(name, 1)
newname_of(name) == Decode(name, 1 + Max({0} \cup {i \in 1 .. Len(name) : name[i] = "/"}))

\* rename(2) of a file to another name replaces the file that has it.
rename(files, name, new) ==
  [path \in (DOMAIN files \ {name}) \cup {new} |->
     IF path = new THEN files[name] ELSE files[path]]

-----------------------------------------------------------------------------
(***************************************************************************)
(* The files have names in which some characters are encoded, `%' and what *)
(* cannot be in a file name always.  The latter stay encoded.              *)
(***************************************************************************)
Written(name, encoded) ==
  FlattenSeq([i \in 1 .. Len(name) |->
    IF i \in encoded THEN <<"%">> \o Code[name[i]] ELSE <<name[i]>>])
Where(name, characters) == {i \in 1 .. Len(name) : name[i] \in characters}
Download(dir, name, encoded) ==
  [path |-> dir \o Written(name, encoded \cup Where(name, {"%", "/", "NUL"})),
   meant |-> dir \o Written(name, Where(name, {"/", "NUL"}))]
Downloads ==
  UNION {{Download(dir, name, encoded) : dir \in UrlDirs, encoded \in SUBSET (1 .. Len(name))}
         : name \in UrlNames}

UrlInit ==
  /\ \E n \in 1 .. MaxArgs : downloads \in [1 .. n -> Downloads]
  /\ \A i, k \in DOMAIN downloads : i # k => downloads[i].path # downloads[k].path
  /\ next = 1 /\ failed = {}
  /\ contents = [path \in {downloads[i].path : i \in DOMAIN downloads} |->
                   CHOOSE i \in DOMAIN downloads : downloads[i].path = path]

rename_next ==
  /\ next <= Len(downloads)
  /\ next' = next + 1
  /\ LET name == downloads[next].path
         newname == newname_of(name)
     IN  \/ name # newname /\ name \in DOMAIN contents
            /\ contents' = rename(contents, name, newname) /\ UNCHANGED failed
         \/ name # newname /\ UNCHANGED contents /\ failed' = failed \cup {next}
         \/ name = newname /\ UNCHANGED <<contents, failed>>
  /\ UNCHANGED downloads

UrlSpec == UrlInit /\ [][rename_next]_urlVars

-----------------------------------------------------------------------------
(***************************************************************************)
(* At the end each file has the name that was encoded, or its old one if   *)
(* it could not be renamed, whatever is done with the others, and whether  *)
(* or not a code remains in the name, decoding makes a new one, or a       *)
(* directory looks encoded (deurlname.c:117).  It takes that no name is    *)
(* wanted by two files, or by one while another has it: nothing asks       *)
(* before a file is replaced.                                              *)
(***************************************************************************)
Apart ==
  \A i, k \in DOMAIN downloads :
    i # k => downloads[i].meant \notin {downloads[k].path, downloads[k].meant}
EachFileDecoded ==
  (next > Len(downloads) /\ Apart)
  => \A i \in DOMAIN downloads :
       LET path == IF i \in failed THEN downloads[i].path ELSE downloads[i].meant
       IN  path \in DOMAIN contents /\ contents[path] = i
==============================================================================
