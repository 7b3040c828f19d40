---------------------------- MODULE ProgramsProofs ----------------------------
(***************************************************************************)
(* The work directory, for any directories, names and sessions; the        *)
(* question and the one file of imv and icp, for any arguments; deurlname, *)
(* for any files; and the file the user edits, for any names and any       *)
(* indicators, in the formats with a line or two for each name.            *)
(***************************************************************************)
EXTENDS WorkDir, ICmd, Deurlname, EditFormats, WellFoundedInduction, SequenceTheorems, TLAPS

-----------------------------------------------------------------------------
(***************************************************************************)
(* The process between two commands, and when it has entered dir.          *)
(***************************************************************************)
AtHome(way) == [cwd |-> Home, old_dir |-> way, fd |-> [n \in Fds |-> None]]
Away(dir) == [cwd |-> Resolve(Home, dir), old_dir |-> 3,
              fd |-> [n \in Fds |-> IF n = 3 THEN Home ELSE None]]

LEMMA TwoFds == {3, 4} \subseteq Fds /\ \A n \in Fds : n \in Nat /\ n >= 3
<1>1. MaxFd \in Nat /\ MaxFd >= 4
  BY WorkDirAssumption
<1> QED BY <1>1 DEF Fds

LEMMA LowestIs ==
  ASSUME NEW p, NEW n \in Fds, p.fd[n] = None,
         \A d \in Fds : p.fd[d] = None => n <= d
  PROVE  Lowest(p) = n
<1> DEFINE closed == {d \in Fds : p.fd[d] = None}
<1>1. \A x \in closed : (\A y \in closed : x <= y) => x = n
  BY TwoFds
<1>2. n \in closed /\ \A y \in closed : n <= y
  OBVIOUS
<1> HIDE DEF closed
<1>3. Min(closed) = n
  BY <1>1, <1>2 DEF Min
<1> QED BY <1>3 DEF Lowest, closed

LEMMA LowestAtHome == \A way : Lowest(AtHome(way)) = 3
  BY LowestIs, TwoFds DEF AtHome

LEMMA LowestAway == \A dir : Lowest(Away(dir)) = 4
<1> TAKE dir
<1> Home # None
  BY WorkDirAssumption
<1>1. 4 \in Fds /\ Away(dir).fd[4] = None
  BY TwoFds DEF Away
<1>2. \A d \in Fds : Away(dir).fd[d] = None => 4 <= d
  BY TwoFds DEF Away
<1> QED BY <1>1, <1>2, LowestIs

(***************************************************************************)
(* Opening and closing, for a process that is given by its parts.          *)
(***************************************************************************)
Process(dir, way, fds) == [cwd |-> dir, old_dir |-> way, fd |-> fds]

AllClosed == [n \in Fds |-> None]
WithWay   == [n \in Fds |-> IF n = 3 THEN Home ELSE None]
WithPipe  == [n \in Fds |-> IF n = 4 THEN "pipe" ELSE None]
WithBoth  == [n \in Fds |-> IF n = 3 THEN Home ELSE IF n = 4 THEN "pipe" ELSE None]

LEMMA ProcessesAre ==
  /\ \A way : AtHome(way) = Process(Home, way, AllClosed)
  /\ \A dir : Away(dir) = Process(Resolve(Home, dir), 3, WithWay)
  BY DEF AtHome, Away, Process, AllClosed, WithWay

LEMMA FdsAre ==
  /\ [AllClosed EXCEPT ![3] = Home] = WithWay
  /\ [WithWay EXCEPT ![3] = None] = AllClosed
  /\ [AllClosed EXCEPT ![3] = "pipe"] = [n \in Fds |-> IF n = 3 THEN "pipe" ELSE None]
  /\ [WithWay EXCEPT ![4] = "pipe"] = WithBoth
  /\ [WithBoth EXCEPT ![3] = None] = WithPipe
  /\ [WithPipe EXCEPT ![4] = None] = AllClosed
  /\ WithWay[3] = Home /\ WithBoth[3] = Home
<1>1. [AllClosed EXCEPT ![3] = Home] = WithWay
  BY TwoFds DEF AllClosed, WithWay
<1>2. [WithWay EXCEPT ![3] = None] = AllClosed
  BY TwoFds DEF AllClosed, WithWay
<1>3. [AllClosed EXCEPT ![3] = "pipe"] = [n \in Fds |-> IF n = 3 THEN "pipe" ELSE None]
  BY TwoFds DEF AllClosed
<1>4. [WithWay EXCEPT ![4] = "pipe"] = WithBoth
  <2> DEFINE f == [WithWay EXCEPT ![4] = "pipe"]
  <2>1. f \in [Fds -> {f[n] : n \in Fds}] /\ WithBoth \in [Fds -> {WithBoth[n] : n \in Fds}]
    BY DEF WithWay, WithBoth
  <2>2. \A n \in Fds : f[n] = WithBoth[n]
    BY TwoFds DEF WithWay, WithBoth
  <2> HIDE DEF f
  <2>3. f = WithBoth
    BY <2>1, <2>2
  <2> QED BY <2>3 DEF f
<1>5. [WithBoth EXCEPT ![3] = None] = WithPipe
  <2> DEFINE f == [WithBoth EXCEPT ![3] = None]
  <2>1. f \in [Fds -> {f[n] : n \in Fds}] /\ WithPipe \in [Fds -> {WithPipe[n] : n \in Fds}]
    BY DEF WithPipe, WithBoth
  <2>2. \A n \in Fds : f[n] = WithPipe[n]
    BY TwoFds DEF WithPipe, WithBoth
  <2> HIDE DEF f
  <2>3. f = WithPipe
    BY <2>1, <2>2
  <2> QED BY <2>3 DEF f
<1>6. [WithPipe EXCEPT ![4] = None] = AllClosed
  BY TwoFds DEF WithPipe, AllClosed
<1>7. WithWay[3] = Home /\ WithBoth[3] = Home
  BY TwoFds DEF WithBoth, WithWay
<1> QED BY <1>1, <1>2, <1>3, <1>4, <1>5, <1>6, <1>7

LEMMA Closing ==
  ASSUME NEW dir, NEW way, NEW fds, NEW n
  PROVE  Close(Process(dir, way, fds), n) = Process(dir, way, [fds EXCEPT ![n] = None])
  BY DEF Close, Process

LEMMA Opening ==
  ASSUME NEW dir, NEW way, NEW fds, NEW n, NEW what, Lowest(Process(dir, way, fds)) = n
  PROVE  Open(Process(dir, way, fds), what) = Process(dir, way, [fds EXCEPT ![n] = what])
  BY DEF Open, Process

Return(p, to) == [p EXCEPT !.cwd = to, !.old_dir = -1]

LEMMA Returning ==
  ASSUME NEW dir, NEW way, NEW fds, NEW to
  PROVE  Return(Process(dir, way, fds), to) = Process(to, -1, fds)
<1> DEFINE p == Process(dir, way, fds)
<1>1. [p EXCEPT !.cwd = to] = Process(to, way, fds)
  BY DEF Process
<1>2. [Process(to, way, fds) EXCEPT !.old_dir = -1] = Process(to, -1, fds)
  BY DEF Process
<1> HIDE DEF p
<1>3. [p EXCEPT !.cwd = to, !.old_dir = -1] = [[p EXCEPT !.cwd = to] EXCEPT !.old_dir = -1]
  OBVIOUS
<1>4. [p EXCEPT !.cwd = to, !.old_dir = -1] = Process(to, -1, fds)
  BY <1>1, <1>2, <1>3
<1> QED BY <1>4 DEF p, Return

LEMMA WayBack ==
  ASSUME NEW p, NEW call, <<call, "fchdir">> \notin Faults,
         p.old_dir # -1, p.fd[p.old_dir] \in Dirs
  PROVE  cwd_from_work_directory(p, call)
         = {Outcome(TRUE, Return(Close(p, p.old_dir), p.fd[p.old_dir]))}
<1> DEFINE left == [Close(p, p.old_dir) EXCEPT !.cwd = p.fd[p.old_dir], !.old_dir = -1]
           kept == Close(p, p.old_dir)
<1>1. cwd_from_work_directory(p, call)
      = If(p.fd[p.old_dir] \in Dirs, Outcome(TRUE, left))
        \cup If(p.fd[p.old_dir] \notin Dirs \/ <<call, "fchdir">> \in Faults,
               Outcome(FALSE, kept))
  BY Zenon DEF cwd_from_work_directory
<1> HIDE DEF left, kept
<1>2. cwd_from_work_directory(p, call) = {Outcome(TRUE, left)}
  BY <1>1 DEF If
<1> QED BY <1>2 DEF left, Return

LEMMA Entering ==
  ASSUME NEW way, NEW dir, NEW call,
         NEW e \in cwd_to_work_directory(AtHome(way), dir, call)
  PROVE  \/ dir = Here /\ e = Outcome(TRUE, AtHome(-1))
         \/ dir # Here /\ <<call, "open">> \in Faults /\ e = Outcome(FALSE, AtHome(-1))
         \/ /\ dir # Here /\ e = Outcome(FALSE, AtHome(3))
            /\ Resolve(Home, dir) \notin Dirs \/ <<call, "chdir">> \in Faults
         \/ dir # Here /\ Resolve(Home, dir) \in Dirs /\ e = Outcome(TRUE, Away(dir))
<1> DEFINE p == AtHome(way)
           opened == [Open(p, p.cwd) EXCEPT !.old_dir = Lowest(p)]
<1>1. Lowest(p) = 3 /\ p = Process(Home, way, AllClosed)
  BY LowestAtHome, ProcessesAre
<1> HIDE DEF p
<1>2. p.cwd = Home /\ [p EXCEPT !.old_dir = -1] = AtHome(-1)
  BY <1>1, ProcessesAre DEF Process
<1>3. Open(p, Home) = Process(Home, way, WithWay)
  BY <1>1, Opening, FdsAre
<1>4. opened = Process(Home, 3, WithWay)
  BY <1>1, <1>2, <1>3 DEF Process
<1> HIDE DEF opened
<1>5. Close(opened, opened.old_dir) = AtHome(3)
  <2>1. opened.old_dir = 3
    BY <1>4 DEF Process
  <2>2. Close(Process(Home, 3, WithWay), 3) = Process(Home, 3, [WithWay EXCEPT ![3] = None])
    BY Closing
  <2> QED BY <1>4, <2>1, <2>2, ProcessesAre, FdsAre
<1>6. [opened EXCEPT !.cwd = Resolve(p.cwd, dir)] = Away(dir)
  <2>1. [opened EXCEPT !.cwd = Resolve(Home, dir)] = Process(Resolve(Home, dir), 3, WithWay)
    BY <1>4 DEF Process
  <2> QED BY <1>2, <2>1, ProcessesAre
<1>7. e \in cwd_to_work_directory(p, dir, call)
  BY DEF p
<1>8. CASE dir = Here
  BY <1>2, <1>7, <1>8 DEF cwd_to_work_directory
<1>9. CASE dir # Here
  BY <1>2, <1>5, <1>6, <1>7, <1>9 DEF cwd_to_work_directory, If, opened
<1> QED BY <1>8, <1>9

LEMMA Leaving ==
  ASSUME NEW dir, NEW call, <<call, "fchdir">> \notin Faults
  PROVE  cwd_from_work_directory(Away(dir), call) = {Outcome(TRUE, AtHome(-1))}
<1> DEFINE p == Away(dir)
           closed == Close(p, p.old_dir)
<1>1. p = Process(Resolve(Home, dir), 3, WithWay)
  BY ProcessesAre
<1> HIDE DEF p
<1>2. p.old_dir = 3 /\ p.fd[p.old_dir] = Home
  BY <1>1, FdsAre DEF Process
<1>3. closed = Process(Resolve(Home, dir), 3, AllClosed)
  BY <1>1, <1>2, Closing, FdsAre
<1> HIDE DEF closed
<1>4. Return(closed, Home) = AtHome(-1)
  BY <1>3, Returning, ProcessesAre
<1>5. Home \in Dirs
  BY WorkDirAssumption
<1>6. cwd_from_work_directory(p, call) = {Outcome(TRUE, AtHome(-1))}
  <2>1. p.old_dir # -1 /\ p.fd[p.old_dir] \in Dirs
    BY <1>2, <1>5
  <2>2. cwd_from_work_directory(p, call)
        = {Outcome(TRUE, Return(Close(p, p.old_dir), p.fd[p.old_dir]))}
    BY <2>1, WayBack, Zenon
  <2> QED BY <1>2, <1>4, <2>2 DEF closed
<1> QED BY <1>6 DEF p

\* run_ls knows the descriptor of its pipe.
LEMMA LeavingWithPipe ==
  ASSUME NEW dir, NEW call, <<call, "fchdir">> \notin Faults,
         NEW back \in cwd_from_work_directory(Open(Away(dir), "pipe"), call)
  PROVE  back.ok /\ Close(back.process, Lowest(Away(dir))) = AtHome(-1)
<1> DEFINE p == Open(Away(dir), "pipe")
           closed == Close(p, p.old_dir)
<1>1. p = Process(Resolve(Home, dir), 3, WithBoth)
  <2>1. Lowest(Process(Resolve(Home, dir), 3, WithWay)) = 4
    BY LowestAway, ProcessesAre
  <2> QED BY <2>1, Opening, ProcessesAre, FdsAre
<1> HIDE DEF p
<1>2. p.old_dir = 3 /\ p.fd[p.old_dir] = Home
  BY <1>1, FdsAre DEF Process
<1>3. closed = Process(Resolve(Home, dir), 3, WithPipe)
  <2>1. Close(p, 3) = Process(Resolve(Home, dir), 3, [WithBoth EXCEPT ![3] = None])
    BY <1>1, Closing
  <2> QED BY <1>2, <2>1, FdsAre
<1> HIDE DEF closed
<1>4. Return(closed, Home) = Process(Home, -1, WithPipe)
  BY <1>3, Returning
<1>5. back \in cwd_from_work_directory(p, call) /\ Home \in Dirs
  BY WorkDirAssumption DEF p
<1>6. cwd_from_work_directory(p, call) = {Outcome(TRUE, Return(closed, Home))}
  <2>1. p.old_dir # -1 /\ p.fd[p.old_dir] \in Dirs
    BY <1>2, <1>5
  <2>2. cwd_from_work_directory(p, call)
        = {Outcome(TRUE, Return(Close(p, p.old_dir), p.fd[p.old_dir]))}
    BY <2>1, WayBack, Zenon
  <2> QED BY <1>2, <2>2 DEF closed
<1>7. back = Outcome(TRUE, Process(Home, -1, WithPipe))
  BY <1>4, <1>5, <1>6
<1>8. back.ok /\ back.process = Process(Home, -1, WithPipe)
  BY <1>7 DEF Outcome
<1>9. Close(back.process, 4) = AtHome(-1)
  <2>1. Close(back.process, 4) = Process(Home, -1, [WithPipe EXCEPT ![4] = None])
    BY <1>8, Closing
  <2> QED BY <2>1, ProcessesAre, FdsAre
<1> QED BY <1>8, <1>9, LowestAway

(***************************************************************************)
(* What the three commands do from home.                                   *)
(***************************************************************************)
Calls == {"first list", "list", "apply"}
ListCall == IF listed = None THEN "first list" ELSE "list"
FileIn(dir) == Resolve(Resolve(Home, dir), Relative(<<File>>))

\* ls runs, and the program finds its way back from every directory.
ReturnsFromDirs ==
  \A call \in Calls : <<call, "ls">> \notin Faults /\ <<call, "fchdir">> \notin Faults

LEMMA ResolveHere == Resolve(Home, Here) = Home
<1>1. Home \in Seq(STRING)
  BY WorkDirAssumption
<1>2. Home \o <<>> = Home
  BY <1>1
<1> QED BY <1>2 DEF Resolve, Here, Relative

LEMMA AtHomeAgain ==
  ASSUME NEW call
  PROVE  cwd_from_work_directory(AtHome(-1), call) = {Outcome(TRUE, AtHome(-1))}
  BY DEF AtHome, cwd_from_work_directory

\* ls in the directory where the program is.
LEMMA ListingHere ==
  ASSUME NEW way \in {-1, 3}, NEW call \in Calls, NEW printed, ReturnsFromDirs,
         way = 3 => "pipe" \notin Dirs,
         run_ls(Here, AtHome(way), call, printed)
  PROVE  \/ /\ way = -1 /\ process' = AtHome(-1)
            /\ work_directory' = Here /\ listed' = printed
            /\ plan' = None /\ mv' = None
         \/ /\ way = 3 /\ process' = AtHome(3)
            /\ work_directory' = Here /\ UNCHANGED <<listed, plan>> /\ mv' = None
<1> DEFINE p == AtHome(way)
           piped == Open(p, "pipe")
           fds == [AllClosed EXCEPT ![3] = "pipe"]
<1>1. piped = Process(Home, way, fds)
  <2>1. Lowest(Process(Home, way, AllClosed)) = 3
    BY LowestAtHome, ProcessesAre
  <2> QED BY <2>1, Opening, ProcessesAre
<1>2. fds[3] = "pipe" /\ [fds EXCEPT ![3] = None] = AllClosed
  BY TwoFds DEF AllClosed
<1> HIDE DEF fds
<1>3. Close(piped, 3) = AtHome(way)
  BY <1>1, <1>2, Closing, ProcessesAre
<1>4. Close(AtHome(way), 3) = AtHome(way)
  <2>1. Close(AtHome(way), 3) = Process(Home, way, [AllClosed EXCEPT ![3] = None])
    BY Closing, ProcessesAre
  <2>2. [AllClosed EXCEPT ![3] = None] = AllClosed
    BY TwoFds DEF AllClosed
  <2> QED BY <2>1, <2>2, ProcessesAre
<1>5. piped.old_dir = way /\ piped.fd = fds
  BY <1>1 DEF Process
<1>6. <<call, "ls">> \notin Faults
  BY DEF ReturnsFromDirs
<1>7. PICK back \in cwd_from_work_directory(piped, call) :
        \/ ~back.ok /\ ListFailed(Here, Close(back.process, 3))
        \/ /\ back.ok
           /\ process' = Close(back.process, 3) /\ work_directory' = Here
           /\ listed' = printed /\ plan' = None /\ mv' = None
  BY <1>6, LowestAtHome DEF run_ls
<1> HIDE DEF p, piped
<1>9. CASE way = -1
  <2>1. back = Outcome(TRUE, piped)
    BY <1>5, <1>7, <1>9 DEF cwd_from_work_directory
  <2>2. back.ok /\ back.process = piped
    BY <2>1 DEF Outcome
  <2> QED BY <1>3, <1>7, <1>9, <2>2
<1>10. CASE way = 3
  <2>1. piped.old_dir # -1 /\ piped.fd[piped.old_dir] \notin Dirs /\ piped.old_dir = 3
    BY <1>2, <1>5, <1>10
  <2>2. back = Outcome(FALSE, Close(piped, 3))
    BY <1>7, <2>1 DEF cwd_from_work_directory, If
  <2>3. ~back.ok /\ back.process = AtHome(3)
    BY <1>3, <1>10, <2>2 DEF Outcome
  <2> QED BY <1>4, <1>7, <1>10, <2>3 DEF ListFailed
<1> QED BY <1>9, <1>10

LEMMA ListingAway ==
  ASSUME NEW dir, NEW call \in Calls, NEW printed, ReturnsFromDirs,
         run_ls(dir, Away(dir), call, printed)
  PROVE  /\ process' = AtHome(-1) /\ work_directory' = dir /\ listed' = printed
         /\ plan' = None /\ mv' = None
<1> DEFINE p == Away(dir)
<1>1. <<call, "ls">> \notin Faults /\ <<call, "fchdir">> \notin Faults
  BY DEF ReturnsFromDirs
<1>2. PICK back \in cwd_from_work_directory(Open(p, "pipe"), call) :
        \/ ~back.ok
        \/ /\ back.ok
           /\ process' = Close(back.process, Lowest(p)) /\ work_directory' = dir
           /\ listed' = printed /\ plan' = None /\ mv' = None
  BY <1>1 DEF run_ls
<1>3. back.ok /\ Close(back.process, Lowest(p)) = AtHome(-1)
  BY <1>1, <1>2, LeavingWithPipe
<1> HIDE DEF p
<1> QED BY <1>2, <1>3

\* The directory is listed; or the argument was none, and nothing is listed; or
\* there was a failure, and all else stays.
Listed(dir) ==
  /\ Resolve(Home, dir) \in Dirs
  /\ process' = AtHome(-1) /\ work_directory' = dir /\ listed' = FileIn(dir)
  /\ plan' = None /\ mv' = None
NothingListed ==
  /\ process' = AtHome(-1) /\ work_directory' = Here /\ listed' = None
  /\ plan' = None /\ mv' = None
NotListed(way, call) ==
  /\ \/ way = 3
     \/ <<call, "open">> \in Faults \/ <<call, "chdir">> \in Faults
  /\ \/ process' = AtHome(-1)
     \/ process' = AtHome(3) /\ (way = 3 \/ <<call, "chdir">> \in Faults)
  /\ work_directory' = Here /\ UNCHANGED <<listed, plan>> /\ mv' = None

LEMMA Listing ==
  ASSUME NEW way \in {-1, 3}, NEW dir, ReturnsFromDirs, process = AtHome(way),
         way = 3 => "pipe" \notin Dirs, list_files(dir)
  PROVE  Listed(dir) \/ NothingListed \/ NotListed(way, ListCall)
<1> DEFINE call == ListCall
<1>1. call \in Calls /\ process.cwd = Home
  BY DEF ListCall, Calls, AtHome
<1>2. CASE dir = Here /\ run_ls(Here, process, call, Resolve(process.cwd, Relative(<<File>>)))
  <2>1. Resolve(Home, Here) = Home /\ Home \in Dirs
    BY ResolveHere, WorkDirAssumption
  <2>2. FileIn(Here) = Resolve(process.cwd, Relative(<<File>>))
    BY <1>1, <2>1 DEF FileIn
  <2>3. run_ls(Here, AtHome(way), call, FileIn(Here))
    BY <1>2, <2>2
  <2> HIDE DEF call
  <2> QED BY <1>1, <1>2, <2>1, <2>3, ListingHere DEF Listed, NotListed
<1>3. CASE run_ls(Here, process, call, None)
  <2>1. run_ls(Here, AtHome(way), call, None)
    BY <1>3
  <2> HIDE DEF call
  <2> QED BY <1>1, <2>1, ListingHere DEF NothingListed, NotListed
<1>4. ASSUME dir # Here, Resolve(Home, dir) \in Dirs,
             NEW e \in cwd_to_work_directory(AtHome(way), dir, call),
             \/ ~e.ok /\ ListFailed(Here, e.process)
             \/ /\ e.ok
                /\ run_ls(dir, e.process, call, Resolve(e.process.cwd, Relative(<<File>>)))
      PROVE  Listed(dir) \/ NotListed(way, call)
  <2> HIDE DEF call
  <2>1. CASE <<call, "open">> \in Faults /\ e = Outcome(FALSE, AtHome(-1))
    <3>1. ~e.ok /\ e.process = AtHome(-1)
      BY <2>1 DEF Outcome
    <3> QED BY <1>4, <2>1, <3>1 DEF ListFailed, NotListed
  <2>2. CASE <<call, "chdir">> \in Faults /\ e = Outcome(FALSE, AtHome(3))
    <3>1. ~e.ok /\ e.process = AtHome(3)
      BY <2>2 DEF Outcome
    <3> QED BY <1>4, <2>2, <3>1 DEF ListFailed, NotListed
  <2>3. CASE e = Outcome(TRUE, Away(dir))
    <3>1. e.ok /\ e.process = Away(dir)
      BY <2>3 DEF Outcome
    <3>2. Away(dir).cwd = Resolve(Home, dir)
      BY DEF Away
    <3>3. run_ls(dir, Away(dir), call, FileIn(dir))
      BY <1>4, <3>1, <3>2 DEF FileIn
    <3> QED BY <1>1, <1>4, <3>3, ListingAway DEF Listed
  <2> QED BY <1>4, <2>1, <2>2, <2>3, Entering
<1>5. \/ dir = Here /\ run_ls(Here, process, call, Resolve(process.cwd, Relative(<<File>>)))
      \/ run_ls(Here, process, call, None)
      \/ /\ dir # Here /\ Resolve(Home, dir) \in Dirs
         /\ \E e \in cwd_to_work_directory(AtHome(way), dir, call) :
              \/ ~e.ok /\ ListFailed(Here, e.process)
              \/ /\ e.ok
                 /\ run_ls(dir, e.process, call, Resolve(e.process.cwd, Relative(<<File>>)))
  <2> list_files(dir)
    OBVIOUS
  <2> QED BY ONLY list_files(dir), <1>1, process = AtHome(way) DEF list_files, ListCall
<1> QED BY <1>2, <1>3, <1>4, <1>5

LEMMA Applying ==
  ASSUME NEW way \in {-1, 3}, ReturnsFromDirs, process = AtHome(way), apply_plan
  PROVE  \/ /\ process' = AtHome(-1) /\ plan' \in {plan, None}
            /\ mv' = <<FileIn(work_directory),
                       Resolve(Resolve(Home, work_directory), plan.new_name)>>
         \/ /\ mv' = None /\ UNCHANGED plan
            /\ \/ process' = AtHome(-1)
               \/ /\ process' = AtHome(3)
                  /\ \/ <<"apply", "chdir">> \in Faults
                     \/ work_directory # Here /\ Resolve(Home, work_directory) \notin Dirs
<1> DEFINE dir == work_directory
<1>1. PICK e \in cwd_to_work_directory(AtHome(way), dir, "apply") :
        \/ ~e.ok /\ process' = e.process /\ mv' = None /\ UNCHANGED plan
        \/ /\ e.ok
           /\ mv' = <<Resolve(e.process.cwd, Relative(<<File>>)),
                      Resolve(e.process.cwd, plan.new_name)>>
           /\ plan' \in {plan, None}
           /\ \E back \in cwd_from_work_directory(e.process, "apply") :
                process' = back.process
  BY DEF apply_plan
<1> HIDE DEF dir
<1>2. <<"apply", "fchdir">> \notin Faults
  BY DEF ReturnsFromDirs, Calls
<1>3. CASE dir = Here /\ e = Outcome(TRUE, AtHome(-1))
  <2>1. e.ok /\ e.process = AtHome(-1)
    BY <1>3 DEF Outcome
  <2>2. AtHome(-1).cwd = Home /\ Home = Resolve(Home, dir)
    BY <1>3, ResolveHere DEF AtHome
  <2>3. process' = AtHome(-1)
    BY <1>1, <2>1, AtHomeAgain DEF Outcome
  <2> QED BY <1>1, <2>1, <2>2, <2>3 DEF FileIn, dir
<1>4. CASE e = Outcome(FALSE, AtHome(-1))
  BY <1>1, <1>4 DEF Outcome
<1>5. CASE /\ dir # Here /\ e = Outcome(FALSE, AtHome(3))
           /\ Resolve(Home, dir) \notin Dirs \/ <<"apply", "chdir">> \in Faults
  <2>1. ~e.ok /\ e.process = AtHome(3)
    BY <1>5 DEF Outcome
  <2> QED BY <1>1, <1>5, <2>1 DEF dir
<1>6. CASE e = Outcome(TRUE, Away(dir))
  <2>1. e.ok /\ e.process = Away(dir)
    BY <1>6 DEF Outcome
  <2>2. Away(dir).cwd = Resolve(Home, dir)
    BY DEF Away
  <2>3. process' = AtHome(-1)
    BY <1>1, <1>2, <2>1, Leaving DEF Outcome
  <2> QED BY <1>1, <2>1, <2>2, <2>3 DEF FileIn, dir
<1> QED BY <1>1, <1>3, <1>4, <1>5, <1>6, Entering

-----------------------------------------------------------------------------
(***************************************************************************)
(* Between two commands the program is where it was started, whatever      *)
(* directories cannot be opened or entered, provided that ls runs and that *)
(* fchdir finds the way back; old_dir may be left over from a directory    *)
(* that could not be entered.                                              *)
(***************************************************************************)
HomeInv == process \in {AtHome(-1), AtHome(3)}

LEMMA HomeStep ==
  ASSUME ReturnsFromDirs, "pipe" \notin Dirs, HomeInv, [WorkDirNext]_workDirVars
  PROVE  HomeInv'
<1> PICK way \in {-1, 3} : process = AtHome(way)
  BY DEF HomeInv
<1>1. ASSUME NEW dir, list_files(dir) PROVE HomeInv'
  BY <1>1, Listing DEF HomeInv, Listed, NothingListed, NotListed
<1>2. CASE edit_command
  BY <1>2 DEF edit_command, HomeInv
<1>3. CASE apply_plan
  BY <1>3, Applying DEF HomeInv
<1>4. CASE UNCHANGED workDirVars
  BY <1>4 DEF workDirVars, HomeInv
<1> QED BY <1>1, <1>2, <1>3, <1>4 DEF WorkDirNext

(***************************************************************************)
(* BackHome (list.c): for any directories, any names, and any commands in  *)
(* any order.                                                              *)
(***************************************************************************)
THEOREM BackHomeAlways ==
  ASSUME ReturnsFromDirs, "pipe" \notin Dirs
  PROVE  WorkDirSpec => []BackHome
<1>1. WorkDirInit => HomeInv
  BY DEF WorkDirInit, HomeInv, AtHome
<1>2. HomeInv /\ [WorkDirNext]_workDirVars => HomeInv'
  BY HomeStep
<1>3. HomeInv => BackHome
  BY DEF HomeInv, BackHome, AtHome
<1> QED BY <1>1, <1>2, <1>3, PTL DEF WorkDirSpec

(***************************************************************************)
(* If directories may fail to be opened or entered as long as no files are *)
(* listed, and `.' to be opened before mv, then old_dir is not left over   *)
(* once files are listed, and what is planned is what was listed.          *)
(***************************************************************************)
FailsBeforeListed ==
  Faults \subseteq {<<"first list", "open">>, <<"first list", "chdir">>, <<"apply", "open">>}
NamesRelative == \A name \in NewNames : ~name.absolute

PathsInv ==
  /\ \/ process = AtHome(-1)
     \/ process = AtHome(3) /\ listed = None
  /\ work_directory \in DirArgs \cup {Here} /\ Resolve(Home, work_directory) \in Dirs
  /\ listed # None => listed = FileIn(work_directory)
  /\ plan # None =>
       /\ listed # None /\ plan.new_name \in NewNames
       /\ plan.paths = <<FileIn(work_directory),
                         Resolve(Resolve(Home, work_directory), plan.new_name)>>

Names == [absolute : BOOLEAN, path : Seq(STRING)]

LEMMA Concat3 ==
  ASSUME NEW S, NEW a \in Seq(S), NEW b \in Seq(S), NEW c \in Seq(S)
  PROVE  a \o (b \o c) = (a \o b) \o c
  OBVIOUS

LEMMA CatFiles ==
  ASSUME NEW dir \in Names, NEW name \in Names, ~name.absolute
  PROVE  Resolve(Home, cat_files(dir, name)) = Resolve(Resolve(Home, dir), name)
<1>1. Home \in Seq(STRING) /\ dir.path \in Seq(STRING) /\ name.path \in Seq(STRING)
  BY WorkDirAssumption DEF Names
<1>2. CASE dir = Here
  BY <1>2, ResolveHere DEF cat_files
<1>3. CASE dir # Here
  <2>1. cat_files(dir, name) = [dir EXCEPT !.path = dir.path \o name.path]
    BY <1>3 DEF cat_files
  <2>2. /\ cat_files(dir, name).absolute = dir.absolute
        /\ cat_files(dir, name).path = dir.path \o name.path
    BY <2>1 DEF Names
  <2>3. Home \o (dir.path \o name.path) = (Home \o dir.path) \o name.path
    <3>1. PICK S : S = STRING
      OBVIOUS
    <3>2. PICK a \in Seq(S), b \in Seq(S), c \in Seq(S) :
            a = Home /\ b = dir.path /\ c = name.path
      BY <1>1, <3>1, Zenon
    <3>3. a \o (b \o c) = (a \o b) \o c
      BY Concat3
    <3> QED BY <3>2, <3>3
  <2> QED BY <2>2, <2>3 DEF Resolve
<1> QED BY <1>2, <1>3

LEMMA NamesOfConstants ==
  /\ DirArgs \cup {Here} \subseteq Names /\ NewNames \subseteq Names
  /\ Relative(<<File>>) \in Names /\ ~Relative(<<File>>).absolute
<1>1. DirArgs \subseteq Names /\ NewNames \subseteq Names
  BY WorkDirAssumption DEF Names
<1>2. Here \in Names
  BY DEF Names, Here, Relative
<1>3. Relative(<<File>>) \in Names /\ ~Relative(<<File>>).absolute
  <2>1. File \in STRING
    BY WorkDirAssumption
  <2>2. \A S : File \in S => <<File>> \in Seq(S)
    OBVIOUS
  <2>3. <<File>> \in Seq(STRING)
    BY <2>1, <2>2
  <2> QED BY <2>3 DEF Names, Relative
<1> QED BY <1>1, <1>2, <1>3

LEMMA NoLaterFailures ==
  ASSUME FailsBeforeListed
  PROVE  /\ ReturnsFromDirs /\ <<"apply", "chdir">> \notin Faults
         /\ \A what \in {"open", "chdir"} : <<"list", what>> \notin Faults
<1>1. \A call : \A what \in {"fchdir", "ls"} : <<call, what>> \notin Faults
  BY DEF FailsBeforeListed
<1>2. /\ <<"apply", "chdir">> \notin Faults
      /\ <<"list", "open">> \notin Faults /\ <<"list", "chdir">> \notin Faults
  BY DEF FailsBeforeListed
<1> QED BY <1>1, <1>2 DEF ReturnsFromDirs

LEMMA PathsStep ==
  ASSUME FailsBeforeListed, NamesRelative, "pipe" \notin Dirs,
         PathsInv, [WorkDirNext]_workDirVars
  PROVE  /\ PathsInv'
         /\ mv' # None /\ ~UNCHANGED workDirVars => mv' = plan.paths /\ mv'[1] = listed
<1>1. ASSUME NEW dir \in DirArgs, list_files(dir)
      PROVE  PathsInv' /\ mv' = None
  <2>1. PICK way \in {-1, 3} : process = AtHome(way) /\ (way = 3 => listed = None)
    BY DEF PathsInv
  <2>2. CASE Listed(dir)
    BY <2>2 DEF Listed, PathsInv, FileIn
  <2>3. CASE NothingListed
    <3>1. Resolve(Home, Here) \in Dirs
      BY ResolveHere, WorkDirAssumption
    <3> QED BY <2>3, <3>1 DEF NothingListed, PathsInv
  <2>4. CASE NotListed(way, ListCall)
    <3>1. listed = None
      BY <2>1, <2>4, NoLaterFailures DEF NotListed, ListCall
    <3>2. Resolve(Home, Here) \in Dirs
      BY ResolveHere, WorkDirAssumption
    <3> QED BY <2>4, <3>1, <3>2 DEF NotListed, PathsInv
  <2> QED BY <1>1, <2>1, <2>2, <2>3, <2>4, Listing, NoLaterFailures
<1>2. CASE edit_command
  <2>1. PICK name \in NewNames :
          plan' \in {None, [new_name |-> name,
                            paths |-> <<Checked(Relative(<<File>>)), Checked(name)>>]}
    BY <1>2 DEF edit_command
  <2>2. process.cwd = Home /\ work_directory \in Names
    BY NamesOfConstants DEF PathsInv, AtHome
  <2>3. Checked(Relative(<<File>>)) = FileIn(work_directory)
    BY <2>2, CatFiles, NamesOfConstants DEF Checked, FileIn
  <2>4. Checked(name) = Resolve(Resolve(Home, work_directory), name)
    BY <2>2, CatFiles, NamesOfConstants DEF Checked, NamesRelative
  <2>5. plan' # None =>
          /\ plan'.new_name = name
          /\ plan'.paths = <<FileIn(work_directory),
                             Resolve(Resolve(Home, work_directory), name)>>
    BY <2>1, <2>3, <2>4
  <2> QED BY <1>2, <2>5 DEF edit_command, PathsInv, FileIn
<1>3. CASE apply_plan
  <2>1. plan # None /\ UNCHANGED <<work_directory, listed>> /\ process = AtHome(-1)
    BY <1>3 DEF apply_plan, PathsInv
  <2>2. Resolve(Home, work_directory) \in Dirs
    BY DEF PathsInv
  <2>3. CASE /\ process' = AtHome(-1) /\ plan' \in {plan, None}
             /\ mv' = <<FileIn(work_directory),
                        Resolve(Resolve(Home, work_directory), plan.new_name)>>
    <3>1. mv' = plan.paths /\ mv'[1] = listed
      BY <2>1, <2>3 DEF PathsInv
    <3> QED BY <2>1, <2>3, <3>1 DEF PathsInv, FileIn
  <2>4. CASE mv' = None /\ UNCHANGED plan /\ process' = AtHome(-1)
    BY <2>1, <2>4 DEF PathsInv, FileIn
  <2> QED BY <1>3, <2>1, <2>2, <2>3, <2>4, Applying, NoLaterFailures
<1>4. CASE UNCHANGED workDirVars
  BY <1>4 DEF workDirVars, PathsInv, FileIn
<1> QED BY <1>1, <1>2, <1>3, <1>4 DEF WorkDirNext, edit_command

LEMMA PathsInit == WorkDirInit => PathsInv
  BY ResolveHere, WorkDirAssumption DEF WorkDirInit, PathsInv, AtHome

(***************************************************************************)
(* RenamesThePlan (interactive.c, apply.c): what mv is given are the paths *)
(* that make_plan checked, and the file that was listed.                   *)
(***************************************************************************)
THEOREM RenamesThePlanAlways ==
  ASSUME FailsBeforeListed, NamesRelative, "pipe" \notin Dirs
  PROVE  WorkDirSpec => RenamesThePlan
<1>1. PathsInv /\ [WorkDirNext]_workDirVars => PathsInv'
  BY PathsStep
<1>2. PathsInv /\ [WorkDirNext]_workDirVars
      => [mv' # None => mv' = plan.paths /\ mv'[1] = listed]_workDirVars
  BY PathsStep
<1> QED BY <1>1, <1>2, PathsInit, PTL DEF WorkDirSpec, RenamesThePlan

-----------------------------------------------------------------------------
(***************************************************************************)
(* NoOverwriteUnasked (icmd.c:341, :362), for any arguments, any names     *)
(* typed and any files that come and go meanwhile: a file that was there   *)
(* all the time is there at the check, so no name with such a file passes  *)
(* without a question, and none of them appears later.                     *)
(***************************************************************************)
AskedInv ==
  /\ lasting \subseteq exists
  /\ phase = "start" => lasting = {}
  /\ phase \in {"exec", "run"} /\ newname \in lasting => agreed = newname

THEOREM NoOverwriteUnaskedAlways == ICmdSpec => []NoOverwriteUnasked
<1>1. ICmdInit => AskedInv
  BY DEF ICmdInit, AskedInv
<1>2. AskedInv /\ [ICmdNext]_icmdVars => AskedInv'
  <2> SUFFICES ASSUME AskedInv, [ICmdNext]_icmdVars PROVE AskedInv'
    OBVIOUS
  <2> USE DEF AskedInv
  <2>1. CASE main
    <3>1. phase = "start" /\ lasting' = lasting /\ exists' = exists /\ phase' # "start"
      BY <2>1 DEF main, Exit, Stays
    <3> QED BY <3>1
  <2>2. CASE readline
    BY <2>2 DEF readline, Exit, Stays
  <2>3. CASE check
    <3>1. lasting' = lasting /\ exists' = exists /\ newname' = newname /\ phase' # "start"
      BY <2>3 DEF check, check_newname, Stays
    <3>2. phase' # "run" /\ (phase' = "exec" => newname \notin exists)
      BY <2>3 DEF check, check_newname
    <3> QED BY <3>1, <3>2
  <2>4. CASE yesno
    BY <2>4 DEF yesno, Exit, Stays
  <2>5. CASE execvp
    BY <2>5 DEF execvp, Exit, Stays
  <2>6. CASE other_program
    BY <2>6 DEF other_program
  <2>7. CASE UNCHANGED icmdVars
    BY <2>7 DEF icmdVars
  <2> QED BY <2>1, <2>2, <2>3, <2>4, <2>5, <2>6, <2>7 DEF ICmdNext
<1>3. AskedInv => NoOverwriteUnasked
  BY DEF AskedInv, NoOverwriteUnasked
<1> QED BY <1>1, <1>2, <1>3, PTL DEF ICmdSpec

-----------------------------------------------------------------------------
(***************************************************************************)
(* Induction over the natural numbers, in the form of sets, for the loops  *)
(* over the arguments.                                                     *)
(***************************************************************************)
Below == OpToRel(<, Nat)

LEMMA Least ==
  ASSUME NEW T, T \subseteq Nat, T # {}
  PROVE  \E x \in T : \A y \in T : x <= y
<1>1. IsWellFoundedOn(Below, Nat)
  BY NatLessThanWellFounded DEF Below
<1>2. \A x, y \in Nat : <<y, x>> \in Below <=> y < x
  BY DEF Below, OpToRel
<1>3. PICK x \in T : \A y \in T : ~ (<<y, x>> \in Below)
  BY <1>1, WFMin
<1>4. \A y \in T : x \in Nat /\ y \in Nat /\ ~(y < x)
  BY <1>2, <1>3
<1>5. \A y \in T : x <= y
  BY <1>4
<1> QED BY <1>5

LEMMA SetInduction ==
  ASSUME NEW T, 0 \in T, \A n \in Nat : n \in T => n + 1 \in T
  PROVE  Nat \subseteq T
<1> SUFFICES ASSUME Nat \ T # {} PROVE FALSE
  OBVIOUS
<1>1. PICK m \in Nat \ T : \A y \in Nat \ T : m <= y
  BY Least
<1>2. m # 0 /\ m - 1 \in Nat
  BY <1>1
<1>3. m - 1 \in T
  BY <1>1, <1>2
<1> QED BY <1>1, <1>2, <1>3

-----------------------------------------------------------------------------
(***************************************************************************)
(* The two readings of the arguments, argument by argument.                *)
(***************************************************************************)
ScanStart == [skip_opt_arg |-> FALSE, no_more_opts |-> FALSE,
              has_target_dir |-> FALSE, files |-> <<>>]
ReadStart == [value |-> FALSE, only_operands |-> FALSE, operands |-> <<>>]

LEMMA ScanSteps ==
  ASSUME NEW posix, NEW arguments, Len(arguments) \in Nat
  PROVE  /\ Scanned(posix, arguments)[0] = ScanStart
         /\ \A n \in 1 .. Len(arguments) :
              Scanned(posix, arguments)[n] = ScanOne(posix, Scanned(posix, arguments)[n - 1], arguments[n])
<1> DEFINE Steps(f, n) == [i \in 0 .. n |-> IF i = 0 THEN ScanStart
                                            ELSE ScanOne(posix, f[i - 1], arguments[i])]
           T == {n \in Nat : \E g : g = Steps(g, n)}
<1>1. 0 \in T
  <2> DEFINE h == [i \in 0 .. 0 |-> ScanStart]
  <2>1. h = Steps(h, 0)
    OBVIOUS
  <2> QED BY <2>1
<1>2. ASSUME NEW n \in Nat, n \in T PROVE n + 1 \in T
  <2>1. PICK p : p = Steps(p, n)
    BY <1>2
  <2> DEFINE h == [i \in 0 .. n + 1 |-> IF i = n + 1 THEN ScanOne(posix, p[n], arguments[n + 1])
                                        ELSE p[i]]
  <2>2. \A i \in 0 .. n + 1 : h[i] = IF i = 0 THEN ScanStart
                                      ELSE ScanOne(posix, h[i - 1], arguments[i])
    <3>1. \A i \in 0 .. n : p[i] = IF i = 0 THEN ScanStart ELSE ScanOne(posix, p[i - 1], arguments[i])
      BY <2>1
    <3>2. \A i \in 0 .. n : h[i] = p[i]
      OBVIOUS
    <3>3. h[n + 1] = ScanOne(posix, p[n], arguments[n + 1]) /\ h[n] = p[n]
      BY <3>2
    <3> HIDE DEF h
    <3> QED BY <3>1, <3>2, <3>3
  <2>3. h = Steps(h, n + 1)
    BY <2>2
  <2> HIDE DEF h
  <2>4. \E q : q = Steps(q, n + 1)
    BY <2>3
  <2> QED BY <2>4
<1> HIDE DEF T
<1>3. Len(arguments) \in T
  BY <1>1, <1>2, SetInduction
<1> DEFINE at == CHOOSE g : g = Steps(g, Len(arguments))
<1>4. at = Steps(at, Len(arguments))
  BY <1>3 DEF T
<1>5. Scanned(posix, arguments) = at
  BY DEF Scanned, ScanStart
<1> HIDE DEF at
<1> QED BY <1>4, <1>5

LEMMA ReadSteps ==
  ASSUME NEW posix, NEW arguments, Len(arguments) \in Nat
  PROVE  /\ ReadByMv(posix, arguments)[0] = ReadStart
         /\ \A n \in 1 .. Len(arguments) :
              ReadByMv(posix, arguments)[n] = ReadOne(posix, ReadByMv(posix, arguments)[n - 1], arguments[n])
<1> DEFINE Steps(f, n) == [i \in 0 .. n |-> IF i = 0 THEN ReadStart
                                            ELSE ReadOne(posix, f[i - 1], arguments[i])]
           T == {n \in Nat : \E g : g = Steps(g, n)}
<1>1. 0 \in T
  <2> DEFINE h == [i \in 0 .. 0 |-> ReadStart]
  <2>1. h = Steps(h, 0)
    OBVIOUS
  <2> QED BY <2>1
<1>2. ASSUME NEW n \in Nat, n \in T PROVE n + 1 \in T
  <2>1. PICK p : p = Steps(p, n)
    BY <1>2
  <2> DEFINE h == [i \in 0 .. n + 1 |-> IF i = n + 1 THEN ReadOne(posix, p[n], arguments[n + 1])
                                        ELSE p[i]]
  <2>2. \A i \in 0 .. n + 1 : h[i] = IF i = 0 THEN ReadStart
                                      ELSE ReadOne(posix, h[i - 1], arguments[i])
    <3>1. \A i \in 0 .. n : p[i] = IF i = 0 THEN ReadStart ELSE ReadOne(posix, p[i - 1], arguments[i])
      BY <2>1
    <3>2. \A i \in 0 .. n : h[i] = p[i]
      OBVIOUS
    <3>3. h[n + 1] = ReadOne(posix, p[n], arguments[n + 1]) /\ h[n] = p[n]
      BY <3>2
    <3> HIDE DEF h
    <3> QED BY <3>1, <3>2, <3>3
  <2>3. h = Steps(h, n + 1)
    BY <2>2
  <2> HIDE DEF h
  <2>4. \E q : q = Steps(q, n + 1)
    BY <2>3
  <2> QED BY <2>4
<1> HIDE DEF T
<1>3. Len(arguments) \in T
  BY <1>1, <1>2, SetInduction
<1> DEFINE at == CHOOSE g : g = Steps(g, Len(arguments))
<1>4. at = Steps(at, Len(arguments))
  BY <1>3 DEF T
<1>5. ReadByMv(posix, arguments) = at
  BY DEF ReadByMv, ReadStart
<1> HIDE DEF at
<1> QED BY <1>4, <1>5

(***************************************************************************)
(* What is added to the arguments is read after all of them.               *)
(***************************************************************************)
LEMMA ReadAppended ==
  ASSUME NEW posix, NEW S, NEW arguments \in Seq(S), NEW x \in S
  PROVE  /\ Append(arguments, x) \in Seq(S)
         /\ Len(Append(arguments, x)) = Len(arguments) + 1
         /\ ReadByMv(posix, Append(arguments, x))[Len(arguments) + 1]
              = ReadOne(posix, ReadByMv(posix, arguments)[Len(arguments)], x)
<1> DEFINE more == Append(arguments, x)
           T == {n \in Nat : n \in 0 .. Len(arguments)
                             => ReadByMv(posix, more)[n] = ReadByMv(posix, arguments)[n]}
<1>1. more \in Seq(S) /\ Len(more) = Len(arguments) + 1 /\ Len(arguments) \in Nat
      /\ more[Len(arguments) + 1] = x /\ \A i \in 1 .. Len(arguments) : more[i] = arguments[i]
  OBVIOUS
<1> HIDE DEF more
<1>2. /\ ReadByMv(posix, more)[0] = ReadStart
      /\ \A n \in 1 .. Len(arguments) + 1 :
           ReadByMv(posix, more)[n] = ReadOne(posix, ReadByMv(posix, more)[n - 1], more[n])
  BY <1>1, ReadSteps
<1>3. /\ ReadByMv(posix, arguments)[0] = ReadStart
      /\ \A n \in 1 .. Len(arguments) :
           ReadByMv(posix, arguments)[n] = ReadOne(posix, ReadByMv(posix, arguments)[n - 1], arguments[n])
  BY <1>1, ReadSteps
<1>4. 0 \in T
  BY <1>2, <1>3
<1>5. ASSUME NEW n \in Nat, n \in T PROVE n + 1 \in T
  <2> SUFFICES ASSUME n + 1 \in 0 .. Len(arguments)
               PROVE  ReadByMv(posix, more)[n + 1] = ReadByMv(posix, arguments)[n + 1]
    OBVIOUS
  <2>1. n + 1 \in 1 .. Len(arguments) /\ n \in 0 .. Len(arguments) /\ n + 1 - 1 = n
        /\ n + 1 \in 1 .. Len(arguments) + 1
    BY <1>1
  <2> QED BY <1>1, <1>2, <1>3, <1>5, <2>1
<1> HIDE DEF T
<1>6. Len(arguments) \in T
  BY <1>1, <1>4, <1>5, SetInduction
<1>7. ReadByMv(posix, more)[Len(arguments)] = ReadByMv(posix, arguments)[Len(arguments)]
  BY <1>1, <1>6 DEF T
<1>8. Len(arguments) + 1 \in 1 .. Len(arguments) + 1 /\ Len(arguments) + 1 - 1 = Len(arguments)
  BY <1>1
<1> QED BY <1>1, <1>2, <1>7, <1>8 DEF more

-----------------------------------------------------------------------------
(***************************************************************************)
(* Unless an option names a target directory, the program and mv agree     *)
(* after each of the arguments: on whether the next one is a value, on     *)
(* whether options may follow, and on the files so far.                    *)
(***************************************************************************)
ScanState(S) == [skip_opt_arg : BOOLEAN, no_more_opts : BOOLEAN, has_target_dir : BOOLEAN,
                 files : Seq(S)]
ReadState(S) == [value : BOOLEAN, only_operands : BOOLEAN, operands : Seq(S)]
Agree(s, r) ==
  \/ s.has_target_dir
  \/ s.skip_opt_arg = r.value /\ s.no_more_opts = r.only_operands /\ s.files = r.operands
\* After a file no option follows, if so wanted.
Stops(posix, s) == posix /\ s.files # <<>> => s.no_more_opts

\* The line at which the two would part: a cluster of options, the last with a value.
LEMMA SameValue ==
  ASSUME NEW letters, letters \in Seq(ToSet(letters) \ {"target-directory"}), letters # <<>>,
         ToSet(Front(letters)) \cap MvOptions = {}, Last(letters) # "t"
  PROVE  (arg_options \cap ToSet(letters) # {})
           <=> (Last(letters) \in MvOptions /\ ToSet(Front(letters)) \cap MvOptions = {})
<1>1. Len(letters) \in Nat /\ Len(letters) > 0 /\ DOMAIN letters = 1 .. Len(letters)
  OBVIOUS
<1>2. Len(letters) \in DOMAIN letters
  BY <1>1
<1>3. Last(letters) \in ToSet(letters)
  BY <1>2 DEF Last, ToSet
<1>4. ASSUME NEW c \in ToSet(letters), c # Last(letters)
      PROVE  c \in ToSet(Front(letters))
  <2>1. PICK i \in DOMAIN letters : letters[i] = c
    BY DEF ToSet
  <2>2. i # Len(letters)
    BY <1>4, <2>1 DEF Last
  <2>3. i \in 1 .. Len(letters) - 1
    BY <1>1, <2>1, <2>2
  <2>4. DOMAIN Front(letters) = 1 .. Len(letters) - 1 /\ Front(letters)[i] = letters[i]
    BY <1>1, <2>3 DEF Front
  <2> QED BY <2>1, <2>3, <2>4 DEF ToSet
<1>5. Last(letters) # "target-directory"
  BY <1>2 DEF Last
<1> QED BY <1>3, <1>4, <1>5, ICmdAssumption


\* The fields after one argument.
ScanIs(t, skip, no_more, target, fs) ==
  t = [skip_opt_arg |-> skip, no_more_opts |-> no_more, has_target_dir |-> target, files |-> fs]
ReadIs(t, value, only, ops) ==
  t = [value |-> value, only_operands |-> only, operands |-> ops]

ScanCase(posix, s, arg, skip, no_more, target, fs) ==
  /\ skip => ScanIs(ScanOne(posix, s, arg), FALSE, no_more, target, fs)
  /\ ~skip /\ no_more => ScanIs(ScanOne(posix, s, arg), skip, no_more, target, Append(fs, arg))
  /\ ~skip /\ ~no_more /\ arg = Dashes => ScanIs(ScanOne(posix, s, arg), skip, TRUE, target, fs)
  /\ ~skip /\ ~no_more /\ arg # Dashes /\ arg.kind \in {"long", "longwith"}
     => ScanIs(ScanOne(posix, s, arg), arg.kind = "long" /\ arg.name \in arg_options, no_more,
               target \/ arg.name = "target-directory", fs)
  /\ ~skip /\ ~no_more /\ arg # Dashes /\ arg.kind = "short"
     => ScanIs(ScanOne(posix, s, arg), arg_options \cap ToSet(arg.letters) # {}, no_more, target, fs)
  /\ ~skip /\ ~no_more /\ arg # Dashes /\ arg.kind \notin {"long", "longwith", "short"}
     => ScanIs(ScanOne(posix, s, arg), skip, posix, target, Append(fs, arg))

LEMMA ScanCases ==
  ASSUME NEW posix, NEW skip, NEW no_more, NEW target, NEW fs, NEW arg, NEW s,
         ScanIs(s, skip, no_more, target, fs)
  PROVE  ScanCase(posix, s, arg, skip, no_more, target, fs)
<1>1. skip => ScanOne(posix, s, arg) = [s EXCEPT !.skip_opt_arg = FALSE]
  BY DEF ScanOne, ScanIs
<1>2. ~skip /\ no_more => ScanOne(posix, s, arg) = [s EXCEPT !.files = Append(fs, arg)]
  BY DEF ScanOne, ScanIs
<1>3. ~skip /\ ~no_more /\ arg = Dashes => ScanOne(posix, s, arg) = [s EXCEPT !.no_more_opts = TRUE]
  BY DEF ScanOne, ScanIs, Dashes
<1>4. ~skip /\ ~no_more /\ arg # Dashes /\ arg.kind \in {"long", "longwith"}
      => ScanOne(posix, s, arg)
           = [[s EXCEPT !.has_target_dir = target \/ arg.name = "target-directory"]
                EXCEPT !.skip_opt_arg = arg.kind = "long" /\ arg.name \in arg_options]
  BY DEF ScanOne, ScanIs
<1>5. ~skip /\ ~no_more /\ arg # Dashes /\ arg.kind = "short"
      => ScanOne(posix, s, arg) = [s EXCEPT !.skip_opt_arg = arg_options \cap ToSet(arg.letters) # {}]
  BY DEF ScanOne, ScanIs
<1>6. ~skip /\ ~no_more /\ arg # Dashes /\ arg.kind \notin {"long", "longwith", "short"}
      => ScanOne(posix, s, arg) = [[s EXCEPT !.files = Append(fs, arg)]
                              EXCEPT !.no_more_opts = posix]
  BY DEF ScanOne, ScanIs
<1> QED BY <1>1, <1>2, <1>3, <1>4, <1>5, <1>6, ZenonT(60) DEF ScanIs, ScanCase

LEMMA ReadCases ==
  ASSUME NEW posix, NEW value, NEW only, NEW ops, NEW arg, NEW r,
         ReadIs(r, value, only, ops)
  PROVE /\ value => ReadIs(ReadOne(posix, r, arg), FALSE, only, ops)
        /\ ~value /\ only => ReadIs(ReadOne(posix, r, arg), value, only, Append(ops, arg))
        /\ ~value /\ ~only /\ arg = Dashes => ReadIs(ReadOne(posix, r, arg), value, TRUE, ops)
        /\ ~value /\ ~only /\ arg # Dashes /\ arg.kind = "long"
           => ReadIs(ReadOne(posix, r, arg), arg.name \in MvOptions, only, ops)
        /\ ~value /\ ~only /\ arg # Dashes /\ arg.kind = "longwith"
           => ReadIs(ReadOne(posix, r, arg), value, only, ops)
        /\ ~value /\ ~only /\ arg # Dashes /\ arg.kind = "short" /\ arg.letters # <<>>
           => ReadIs(ReadOne(posix, r, arg), Last(arg.letters) \in MvOptions
                                      /\ ToSet(Front(arg.letters)) \cap MvOptions = {}, only, ops)
        /\ ~value /\ ~only /\ arg # Dashes /\ arg.kind \notin {"long", "longwith", "short"}
           => ReadIs(ReadOne(posix, r, arg), value, posix, Append(ops, arg))
<1>1. value => ReadOne(posix, r, arg) = [r EXCEPT !.value = FALSE]
  BY DEF ReadOne, ReadIs
<1>2. ~value /\ only => ReadOne(posix, r, arg) = [r EXCEPT !.operands = Append(ops, arg)]
  BY DEF ReadOne, ReadIs
<1>3. ~value /\ ~only /\ arg = Dashes => ReadOne(posix, r, arg) = [r EXCEPT !.only_operands = TRUE]
  BY DEF ReadOne, ReadIs, Dashes
<1>4. ~value /\ ~only /\ arg # Dashes /\ arg.kind = "long"
      => ReadOne(posix, r, arg) = [r EXCEPT !.value = arg.name \in MvOptions]
  BY DEF ReadOne, ReadIs
<1>5. ~value /\ ~only /\ arg # Dashes /\ arg.kind = "longwith" => ReadOne(posix, r, arg) = r
  BY DEF ReadOne, ReadIs
<1>6. ~value /\ ~only /\ arg # Dashes /\ arg.kind = "short" /\ arg.letters # <<>>
      => ReadOne(posix, r, arg) = [r EXCEPT !.value = /\ Last(arg.letters) \in MvOptions
                                               /\ ToSet(Front(arg.letters)) \cap MvOptions = {}]
  BY DEF ReadOne, ReadIs
<1>7. ~value /\ ~only /\ arg # Dashes /\ arg.kind \notin {"long", "longwith", "short"}
      => ReadOne(posix, r, arg) = [[r EXCEPT !.operands = Append(ops, arg)]
                              EXCEPT !.only_operands = posix]
  BY DEF ReadOne, ReadIs
<1> QED BY <1>1, <1>2, <1>3, <1>4, <1>5, <1>6, <1>7, ZenonT(60) DEF ReadIs

\* An argument as the command lines have them.
Formed(arg) ==
  /\ arg.kind = "short" => arg.letters \in Seq(ToSet(arg.letters) \ {"target-directory"})
  /\ arg.kind = "long" => arg.name # "t"

LEMMA ScanFine ==
  ASSUME NEW posix, NEW S, NEW t, NEW a \in BOOLEAN, NEW b \in BOOLEAN, NEW c \in BOOLEAN, NEW f \in Seq(S),
         ScanIs(t, a, b, c, f), posix /\ f # <<>> => b
  PROVE  t \in ScanState(S) /\ Stops(posix, t)
BY DEF ScanIs, ScanState, Stops

LEMMA AgreeIs ==
  ASSUME NEW s, NEW r, NEW a, NEW b, NEW c, NEW f, NEW a2, NEW b2, NEW f2,
         ScanIs(s, a, b, c, f), ReadIs(r, a2, b2, f2), c \/ (a = a2 /\ b = b2 /\ f = f2)
  PROVE  Agree(s, r)
BY DEF ScanIs, ReadIs, Agree

LEMMA AgreeStep ==
  ASSUME NEW posix \in BOOLEAN, NEW S, NEW s \in ScanState(S), NEW r \in ReadState(S),
         Agree(s, r), Stops(posix, s),
         NEW arg \in S, ReadAlike(arg), Formed(arg)
  PROVE  /\ ScanOne(posix, s, arg) \in ScanState(S) /\ ReadOne(posix, r, arg) \in ReadState(S)
         /\ Agree(ScanOne(posix, s, arg), ReadOne(posix, r, arg)) /\ Stops(posix, ScanOne(posix, s, arg))
<1>1. PICK skip \in BOOLEAN, no_more \in BOOLEAN, target \in BOOLEAN, fs \in Seq(S) :
        ScanIs(s, skip, no_more, target, fs)
  BY DEF ScanState, ScanIs
<1>2. PICK value \in BOOLEAN, only \in BOOLEAN, ops \in Seq(S) :
        ReadIs(r, value, only, ops)
  BY DEF ReadState, ReadIs
<1>3. target \/ (skip = value /\ no_more = only /\ fs = ops)
  BY <1>1, <1>2 DEF Agree, ScanIs, ReadIs
<1>4. posix /\ fs # <<>> => no_more
  BY <1>1 DEF Stops, ScanIs
<1>5. Append(fs, arg) \in Seq(S) /\ Append(ops, arg) \in Seq(S)
  OBVIOUS
<1>6. PICK s2, r2 : s2 = ScanOne(posix, s, arg) /\ r2 = ReadOne(posix, r, arg)
  OBVIOUS
<1>7. PICK known \in BOOLEAN, takes \in BOOLEAN, named \in BOOLEAN :
        /\ known = (arg_options \cap ToSet(arg.letters) # {})
        /\ takes = (arg.kind = "long" /\ arg.name \in arg_options)
        /\ named = (target \/ arg.name = "target-directory")
  OBVIOUS
<1>8. PICK wants \in BOOLEAN, valued \in BOOLEAN :
        /\ wants = (/\ Last(arg.letters) \in MvOptions
                    /\ ToSet(Front(arg.letters)) \cap MvOptions = {})
        /\ valued = (arg.name \in MvOptions)
  <2>1. (/\ Last(arg.letters) \in MvOptions
         /\ ToSet(Front(arg.letters)) \cap MvOptions = {}) \in BOOLEAN
    OBVIOUS
  <2>2. (arg.name \in MvOptions) \in BOOLEAN
    OBVIOUS
  <2> QED BY <2>1, <2>2, Zenon
<1>9. /\ skip => ScanIs(s2, FALSE, no_more, target, fs)
      /\ ~skip /\ no_more => ScanIs(s2, skip, no_more, target, Append(fs, arg))
      /\ ~skip /\ ~no_more /\ arg = Dashes => ScanIs(s2, skip, TRUE, target, fs)
      /\ ~skip /\ ~no_more /\ arg # Dashes /\ arg.kind \in {"long", "longwith"}
         => ScanIs(s2, takes, no_more, named, fs)
      /\ ~skip /\ ~no_more /\ arg # Dashes /\ arg.kind = "short"
         => ScanIs(s2, known, no_more, target, fs)
      /\ ~skip /\ ~no_more /\ arg # Dashes /\ arg.kind \notin {"long", "longwith", "short"}
         => ScanIs(s2, skip, posix, target, Append(fs, arg))
  <2>0. ScanCase(posix, s, arg, skip, no_more, target, fs)
    BY <1>1, ScanCases
  <2>1. skip => ScanIs(s2, FALSE, no_more, target, fs)
    BY <1>6, <2>0 DEF ScanCase
  <2>2. ~skip /\ no_more => ScanIs(s2, skip, no_more, target, Append(fs, arg))
    BY <1>6, <2>0 DEF ScanCase
  <2>3. ~skip /\ ~no_more /\ arg = Dashes => ScanIs(s2, skip, TRUE, target, fs)
    BY <1>6, <2>0 DEF ScanCase
  <2>4. ~skip /\ ~no_more /\ arg # Dashes /\ arg.kind \in {"long", "longwith"}
         => ScanIs(s2, takes, no_more, named, fs)
    <3>1. ~skip /\ ~no_more /\ arg # Dashes /\ arg.kind \in {"long", "longwith"}
          => ScanIs(s2, arg.kind = "long" /\ arg.name \in arg_options, no_more,
                    target \/ arg.name = "target-directory", fs)
      BY <1>6, <2>0 DEF ScanCase
    <3> QED BY <1>7, <3>1, Zenon
  <2>5. ~skip /\ ~no_more /\ arg # Dashes /\ arg.kind = "short"
         => ScanIs(s2, known, no_more, target, fs)
    <3>1. ~skip /\ ~no_more /\ arg # Dashes /\ arg.kind = "short"
          => ScanIs(s2, arg_options \cap ToSet(arg.letters) # {}, no_more, target, fs)
      BY <1>6, <2>0 DEF ScanCase
    <3> QED BY <1>7, <3>1, Zenon
  <2>6. ~skip /\ ~no_more /\ arg # Dashes /\ arg.kind \notin {"long", "longwith", "short"}
         => ScanIs(s2, skip, posix, target, Append(fs, arg))
    BY <1>6, <2>0 DEF ScanCase
  <2> QED BY <2>1, <2>2, <2>3, <2>4, <2>5, <2>6
<1>10. arg.kind = "short" => arg.letters # <<>> /\ (known <=> wants)
  BY <1>7, <1>8, SameValue DEF ReadAlike, Formed
<1>11. arg.kind = "long" /\ arg.name # "target-directory" => (takes <=> valued)
  BY <1>7, <1>8, ICmdAssumption DEF Formed
<1>12. /\ value => ReadIs(r2, FALSE, only, ops)
       /\ ~value /\ only => ReadIs(r2, value, only, Append(ops, arg))
       /\ ~value /\ ~only /\ arg = Dashes => ReadIs(r2, value, TRUE, ops)
       /\ ~value /\ ~only /\ arg # Dashes /\ arg.kind = "long" => ReadIs(r2, valued, only, ops)
       /\ ~value /\ ~only /\ arg # Dashes /\ arg.kind = "longwith" => ReadIs(r2, value, only, ops)
       /\ ~value /\ ~only /\ arg # Dashes /\ arg.kind = "short" => ReadIs(r2, wants, only, ops)
       /\ ~value /\ ~only /\ arg # Dashes /\ arg.kind \notin {"long", "longwith", "short"}
          => ReadIs(r2, value, posix, Append(ops, arg))
  BY <1>2, <1>6, <1>8, <1>10, ReadCases, ZenonT(60)
<1>13. /\ s2 \in ScanState(S) /\ Stops(posix, s2) /\ r2 \in ReadState(S)
  <2>2. ASSUME NEW a \in BOOLEAN, NEW b \in BOOLEAN, NEW f \in Seq(S), ReadIs(r2, a, b, f)
        PROVE  r2 \in ReadState(S)
    BY <2>2 DEF ReadIs, ReadState
  <2>3. s2 \in ScanState(S) /\ Stops(posix, s2)
    <3>1. CASE skip
      BY <1>4, <1>9, <3>1, ScanFine, ZenonT(60)
    <3>2. CASE ~skip /\ no_more
      BY <1>5, <1>9, <3>2, ScanFine
    <3>3. CASE ~skip /\ ~no_more /\ arg = Dashes
      BY <1>9, <3>3, ScanFine, ZenonT(60)
    <3>4. CASE ~skip /\ ~no_more /\ arg # Dashes /\ arg.kind \in {"long", "longwith"}
      BY <1>4, <1>9, <3>4, ScanFine, ZenonT(60)
    <3>5. CASE ~skip /\ ~no_more /\ arg # Dashes /\ arg.kind = "short"
      BY <1>4, <1>9, <3>5, ScanFine, ZenonT(60)
    <3>6. CASE ~skip /\ ~no_more /\ arg # Dashes /\ arg.kind \notin {"long", "longwith", "short"}
      <4>1. ScanIs(s2, skip, posix, target, Append(fs, arg))
        BY <1>9, <3>6
      <4>2. posix /\ Append(fs, arg) # <<>> => posix
        OBVIOUS
      <4> QED BY <1>5, <4>1, <4>2, ScanFine, ZenonT(60)
    <3> QED BY <3>1, <3>2, <3>3, <3>4, <3>5, <3>6
  <2>5. r2 \in ReadState(S)
    BY <1>5, <1>12, <2>2
  <2> QED BY <2>3, <2>5
<1>14. Agree(s2, r2)
  <2>2. CASE target
    <3>1. \/ \E a, b, f : ScanIs(s2, a, b, target, f)
          \/ \E a, b, f : ScanIs(s2, a, b, named, f)
      BY <1>9
    <3>2. named = TRUE /\ target = TRUE
      BY <1>7, <2>2
    <3>3. s2.has_target_dir = target \/ s2.has_target_dir = named
      BY <3>1 DEF ScanIs
    <3> QED BY <3>2, <3>3 DEF Agree
  <2>3. CASE ~target
    <3> skip = value /\ no_more = only /\ fs = ops
      BY <1>3, <2>3
    <3>1. CASE skip
      <4>1. ScanIs(s2, FALSE, no_more, target, fs) /\ ReadIs(r2, FALSE, only, ops)
        BY <1>9, <1>12, <3>1
      <4> QED BY <4>1, AgreeIs
    <3>2. CASE ~skip /\ no_more
      <4>1. /\ ScanIs(s2, skip, no_more, target, Append(fs, arg))
            /\ ReadIs(r2, value, only, Append(ops, arg))
        BY <1>9, <1>12, <3>2
      <4> QED BY <4>1, AgreeIs
    <3>3. CASE ~skip /\ ~no_more /\ arg = Dashes
      <4>1. ScanIs(s2, skip, TRUE, target, fs) /\ ReadIs(r2, value, TRUE, ops)
        BY <1>9, <1>12, <3>3
      <4> QED BY <4>1, AgreeIs
    <3>4. CASE ~skip /\ ~no_more /\ arg # Dashes /\ arg.kind = "long"
      <4>1. ScanIs(s2, takes, no_more, named, fs) /\ ReadIs(r2, valued, only, ops)
        BY <1>9, <1>12, <3>4
      <4>2. named \/ takes = valued
        BY <1>7, <1>11, <3>4
      <4> QED BY <4>1, <4>2, AgreeIs
    <3>5. CASE ~skip /\ ~no_more /\ arg # Dashes /\ arg.kind = "longwith"
      <4>1. ScanIs(s2, takes, no_more, named, fs) /\ ReadIs(r2, value, only, ops)
        BY <1>9, <1>12, <3>5
      <4>2. takes = value
        BY <1>7, <3>5
      <4> QED BY <4>1, <4>2, AgreeIs
    <3>6. CASE ~skip /\ ~no_more /\ arg # Dashes /\ arg.kind = "short"
      <4>1. ScanIs(s2, known, no_more, target, fs) /\ ReadIs(r2, wants, only, ops)
        BY <1>9, <1>12, <3>6
      <4> QED BY <1>10, <3>6, <4>1, AgreeIs
    <3>7. CASE ~skip /\ ~no_more /\ arg # Dashes /\ arg.kind \notin {"long", "longwith", "short"}
      <4>1. /\ ScanIs(s2, skip, posix, target, Append(fs, arg))
            /\ ReadIs(r2, value, posix, Append(ops, arg))
        BY <1>9, <1>12, <3>7
      <4> QED BY <1>5, <4>1, AgreeIs
    <3> QED BY <3>1, <3>2, <3>3, <3>4, <3>5, <3>6, <3>7
  <2> QED BY <2>2, <2>3
<1> QED BY <1>6, <1>13, <1>14

(***************************************************************************)
(* So the two agree on whole command lines.                                *)
(***************************************************************************)
Alike(line) == \A i \in 1 .. Len(line) : ReadAlike(line[i])

LEMMA AgreeOnLine ==
  ASSUME NEW line \in CommandLines, Alike(line), NEW posix \in BOOLEAN
  PROVE  /\ line \in Seq(ToSet(line))
         /\ Scanned(posix, line)[Len(line)] \in ScanState(ToSet(line))
         /\ Stops(posix, Scanned(posix, line)[Len(line)])
         /\ ReadByMv(posix, line)[Len(line)] \in ReadState(ToSet(line))
         /\ Agree(Scanned(posix, line)[Len(line)], ReadByMv(posix, line)[Len(line)])
<1>1. /\ line \in Seq(ToSet(line))
      /\ \A arg \in ToSet(line) : Formed(arg)
  BY ICmdAssumption DEF Formed
<1>2. PICK S : S = ToSet(line)
  OBVIOUS
<1>3. Len(line) \in Nat /\ line \in Seq(S) /\ \A i \in 1 .. Len(line) : line[i] \in S
  BY <1>1, <1>2
<1> DEFINE T == {n \in Nat : n \in 0 .. Len(line)
                   => /\ Scanned(posix, line)[n] \in ScanState(S) /\ Stops(posix, Scanned(posix, line)[n])
                      /\ ReadByMv(posix, line)[n] \in ReadState(S)
                      /\ Agree(Scanned(posix, line)[n], ReadByMv(posix, line)[n])}
<1>4. /\ Scanned(posix, line)[0] = ScanStart /\ ReadByMv(posix, line)[0] = ReadStart
      /\ \A n \in 1 .. Len(line) : Scanned(posix, line)[n] = ScanOne(posix, Scanned(posix, line)[n - 1], line[n])
      /\ \A n \in 1 .. Len(line) : ReadByMv(posix, line)[n] = ReadOne(posix, ReadByMv(posix, line)[n - 1], line[n])
  BY <1>3, ScanSteps, ReadSteps
<1>5. 0 \in T
  <2>1. <<>> \in Seq(S)
    OBVIOUS
  <2>2. ScanStart \in ScanState(S) /\ ReadStart \in ReadState(S)
    BY <2>1 DEF ScanStart, ReadStart, ScanState, ReadState
  <2>3. Agree(ScanStart, ReadStart) /\ Stops(posix, ScanStart)
    BY DEF ScanStart, ReadStart, Agree, Stops
  <2> QED BY <1>4, <2>2, <2>3
<1>6. ASSUME NEW n \in Nat, n \in T PROVE n + 1 \in T
  <2> SUFFICES ASSUME n + 1 \in 0 .. Len(line)
               PROVE  /\ Scanned(posix, line)[n + 1] \in ScanState(S) /\ Stops(posix, Scanned(posix, line)[n + 1])
                      /\ ReadByMv(posix, line)[n + 1] \in ReadState(S)
                      /\ Agree(Scanned(posix, line)[n + 1], ReadByMv(posix, line)[n + 1])
    OBVIOUS
  <2>1. n + 1 \in 1 .. Len(line) /\ n \in 0 .. Len(line) /\ n + 1 - 1 = n
    BY <1>3
  <2>2. PICK s, r, arg : s = Scanned(posix, line)[n] /\ r = ReadByMv(posix, line)[n] /\ arg = line[n + 1]
    OBVIOUS
  <2>3. /\ s \in ScanState(S) /\ r \in ReadState(S) /\ Agree(s, r) /\ Stops(posix, s)
        /\ arg \in S /\ ReadAlike(arg) /\ Formed(arg)
    BY <1>1, <1>2, <1>3, <1>6, <2>1, <2>2 DEF Alike
  <2>4. /\ ScanOne(posix, s, arg) \in ScanState(S) /\ ReadOne(posix, r, arg) \in ReadState(S)
        /\ Agree(ScanOne(posix, s, arg), ReadOne(posix, r, arg)) /\ Stops(posix, ScanOne(posix, s, arg))
    BY <2>3, AgreeStep
  <2> QED BY <1>4, <2>1, <2>2, <2>4
<1> HIDE DEF T
<1>7. Len(line) \in T
  BY <1>3, <1>5, <1>6, SetInduction
<1> QED BY <1>1, <1>2, <1>3, <1>7 DEF T

-----------------------------------------------------------------------------
(***************************************************************************)
(* RenamesOneFile (icmd.c:215, :352), for any command lines: once the user *)
(* has been asked for a name, the arguments hold one file and no option is *)
(* left without its value; the two that mv reads are that file and the new *)
(* name, which `--' or an earlier file keeps from being read otherwise.    *)
(***************************************************************************)
OneFile ==
  /\ ~Scan(args).skip_opt_arg /\ ~Scan(args).has_target_dir
  /\ Scan(args).files # <<>> /\ ~(Len(Scan(args).files) > 1)
OneFileInv ==
  /\ args \in CommandLines /\ posixly_correct \in BOOLEAN
  /\ phase \in {"start", "prompt", "check", "question", "exec", "run", "exit"}
  /\ phase = "start" => newname = Nothing
  /\ phase \in {"prompt", "check", "question", "exec"} => OneFile
  /\ phase = "run" /\ newname # Nothing => OneFile /\ ran = WithNewName(args, newname)

LEMMA TwoOperands ==
  ASSUME NEW line \in CommandLines, NEW name, Alike(line), posixly_correct \in BOOLEAN,
         ~Scan(line).skip_opt_arg, ~Scan(line).has_target_dir,
         Scan(line).files # <<>>, ~(Len(Scan(line).files) > 1)
  PROVE  Operands(WithNewName(line, name)) = <<Scan(line).files[1], name>>
<1>1. PICK S : S = ToSet(line) \cup {Dashes, name}
  OBVIOUS
<1>2. PICK posix \in BOOLEAN : posix = posixly_correct
  OBVIOUS
<1>3. PICK s, r : s = Scan(line) /\ r = ReadByMv(posix, line)[Len(line)]
  OBVIOUS
<1>4. /\ line \in Seq(ToSet(line)) /\ s \in ScanState(ToSet(line)) /\ Stops(posix, s)
      /\ r \in ReadState(ToSet(line)) /\ Agree(s, r)
  <2>1. s = Scanned(posix, line)[Len(line)]
    BY <1>3, <1>2 DEF Scan
  <2> QED BY <1>3, <2>1, AgreeOnLine
<1>5. /\ s.files \in Seq(ToSet(line)) /\ Len(s.files) = 1 /\ s.files # <<>>
      /\ r.operands = s.files /\ r.only_operands = s.no_more_opts /\ r.value = FALSE
  <2>1. s.files \in Seq(ToSet(line)) /\ s.skip_opt_arg \in BOOLEAN /\ r.value \in BOOLEAN
    BY <1>4 DEF ScanState, ReadState
  <2>2. ~s.has_target_dir /\ ~s.skip_opt_arg /\ s.files # <<>> /\ ~(Len(s.files) > 1)
    BY <1>3
  <2>3. \A f \in Seq(ToSet(line)) : f # <<>> /\ ~(Len(f) > 1) => Len(f) = 1
    <3> TAKE f \in Seq(ToSet(line))
    <3>1. f # <<>> => Len(f) \in Nat \ {0}
      BY EmptySeq
    <3>2. \A n \in Nat \ {0} : ~(n > 1) => n = 1
      OBVIOUS
    <3> QED BY <3>1, <3>2, Zenon
  <2> QED BY <1>4, <2>1, <2>2, <2>3 DEF Agree
<1>6. PICK file \in ToSet(line) : s.files = <<file>> /\ s.files[1] = file
  BY <1>5
<1>7. PICK only \in BOOLEAN : only = r.only_operands /\ (posix => only)
  BY <1>4, <1>5 DEF ReadState, Stops
<1>8. ReadIs(r, FALSE, only, <<file>>)
  BY <1>4, <1>5, <1>6, <1>7 DEF ReadState, ReadIs
<1>9. line \in Seq(S) /\ Len(line) \in Nat /\ name \in S /\ Dashes \in S
  BY <1>1, <1>4
<1>10. Append(<<file>>, name) = <<file, name>>
  <2> DEFINE both == Append(<<file>>, name)
  <2>1. <<file>> \in Seq(S \cup ToSet(line)) /\ Len(<<file>>) = 1
    OBVIOUS
  <2>2. both \in Seq(S \cup ToSet(line)) /\ Len(both) = 2 /\ both[1] = file /\ both[2] = name
    BY <1>9, <2>1
  <2> HIDE DEF both
  <2>3. both = <<file, name>>
    BY <2>2
  <2> QED BY <2>3 DEF both
<1>11. CASE only
  <2>1. WithNewName(line, name) = Append(line, name)
    BY <1>3, <1>5, <1>7, <1>11, <1>2 DEF WithNewName
  <2>2. /\ Len(Append(line, name)) = Len(line) + 1
        /\ ReadByMv(posix, Append(line, name))[Len(line) + 1] = ReadOne(posix, r, name)
    BY <1>3, <1>9, ReadAppended
  <2>3. ReadIs(ReadOne(posix, r, name), FALSE, only, <<file, name>>)
    BY <1>8, <1>10, <1>11, ReadCases
  <2> QED BY <1>3, <1>6, <2>1, <2>2, <2>3, <1>2 DEF Operands, ReadIs
<1>12. CASE ~only
  <2>1. WithNewName(line, name) = line \o <<Dashes, name>>
    BY <1>3, <1>5, <1>7, <1>12, <1>2 DEF WithNewName
  <2>2. PICK first : first = Append(line, Dashes)
    OBVIOUS
  <2>3. line \o <<Dashes, name>> = Append(first, name)
    BY <1>9, <2>2
  <2>4. /\ first \in Seq(S) /\ Len(first) = Len(line) + 1
        /\ ReadByMv(posix, first)[Len(line) + 1] = ReadOne(posix, r, Dashes)
    BY <1>3, <1>9, <2>2, ReadAppended
  <2>5. ReadIs(ReadOne(posix, r, Dashes), FALSE, TRUE, <<file>>)
    BY <1>8, <1>12, ReadCases
  <2>6. PICK d : d = ReadOne(posix, r, Dashes)
    OBVIOUS
  <2>7. /\ Len(Append(first, name)) = Len(line) + 2
        /\ ReadByMv(posix, Append(first, name))[Len(line) + 2] = ReadOne(posix, d, name)
    <3>1. /\ Len(Append(first, name)) = Len(first) + 1
          /\ ReadByMv(posix, Append(first, name))[Len(first) + 1]
               = ReadOne(posix, ReadByMv(posix, first)[Len(first)], name)
      BY <1>9, <2>4, ReadAppended
    <3>2. Len(first) + 1 = Len(line) + 2
      BY <1>9, <2>4
    <3> QED BY <2>4, <2>6, <3>1, <3>2
  <2>8. ReadIs(ReadOne(posix, d, name), FALSE, TRUE, <<file, name>>)
    BY <1>10, <2>5, <2>6, ReadCases, ZenonT(60)
  <2>9. Operands(Append(first, name)) = <<file, name>>
    BY <1>3, <1>2, <2>7, <2>8 DEF Operands, ReadIs
  <2> QED BY <1>3, <1>6, <2>1, <2>3, <2>9
<1> QED BY <1>11, <1>12

LEMMA OneFileStep == OneFileInv /\ [ICmdNext]_icmdVars => OneFileInv'
<1> SUFFICES ASSUME OneFileInv, [ICmdNext]_icmdVars PROVE OneFileInv'
  OBVIOUS
<1> USE DEF OneFileInv
<1>1. UNCHANGED <<args, posixly_correct>>
      => Scan(args)' = Scan(args) /\ OneFile' = OneFile
         /\ (UNCHANGED newname => WithNewName(args, newname)' = WithNewName(args, newname))
  BY DEF Scan, OneFile, WithNewName
<1>2. UNCHANGED <<args, posixly_correct>>
  BY DEF ICmdNext, main, readline, check, yesno, execvp, other_program, Stays, icmdVars
<1>3. CASE main
  <2>1. newname' = newname /\ newname = Nothing
    BY <1>3 DEF main, Exit
  <2>2. phase' \in {"exit", "run"} \/ (phase' = "prompt" /\ OneFile)
    <3> SUFFICES ASSUME ~Exit PROVE phase' = "run" \/ (phase' = "prompt" /\ OneFile)
      BY DEF Exit
    <3> QED BY <1>3 DEF main, OneFile
  <2> QED BY <1>1, <1>2, <2>1, <2>2
<1>4. CASE readline
  BY <1>1, <1>2, <1>4 DEF readline, Exit
<1>5. CASE check
  BY <1>1, <1>2, <1>5 DEF check, check_newname
<1>6. CASE yesno
  BY <1>1, <1>2, <1>6 DEF yesno, Exit
<1>7. CASE execvp
  BY <1>1, <1>2, <1>7 DEF execvp, Exit
<1>8. CASE other_program
  BY <1>1, <1>2, <1>8 DEF other_program
<1>9. CASE UNCHANGED icmdVars
  BY <1>1, <1>2, <1>9 DEF icmdVars
<1> QED BY <1>3, <1>4, <1>5, <1>6, <1>7, <1>8, <1>9 DEF ICmdNext

\* imv and icp rename the one file that the user was asked about, whatever the
\* command line holds (icmd.c:215): mv reads that file and the new name.
THEOREM RenamesOneFileAlways == ICmdSpec => []RenamesOneFile
<1>1. ICmdInit => OneFileInv
  BY DEF ICmdInit, OneFileInv
<1>2. OneFileInv => RenamesOneFile
  <2> SUFFICES ASSUME OneFileInv, phase = "run", newname # Nothing, Alike(args)
               PROVE  Operands(ran) = <<srcfile, newname>>
    BY DEF RenamesOneFile, Alike
  <2> QED BY TwoOperands DEF OneFileInv, OneFile, srcfile
<1> QED BY <1>1, <1>2, OneFileStep, PTL DEF ICmdSpec

-----------------------------------------------------------------------------
(***************************************************************************)
(* The names in which characters are encoded, piece by piece.              *)
(***************************************************************************)
\* F holds the concatenations of the first 0, 1, 2... sequences.
Flattening(F, seqs, X) ==
  /\ F[0] = <<>>
  /\ \A k \in 0 .. Len(seqs) - 1 : F[k + 1] = F[k] \o seqs[k + 1]
  /\ \A k \in 0 .. Len(seqs) : F[k] \in Seq(X)

LEMMA ConcatIs ==
  ASSUME NEW X, NEW s \in Seq(X), NEW t \in Seq(X), NEW u, u = s \o t
  PROVE  /\ u \in Seq(X) /\ Len(u) = Len(s) + Len(t)
         /\ Len(s) \in Nat /\ Len(t) \in Nat /\ Len(u) \in Nat
         /\ \A j \in 1 .. Len(s) : u[j] = s[j]
         /\ \A j \in 1 .. Len(t) : u[Len(s) + j] = t[j]
<1>1. u \in Seq(X) /\ Len(u) = Len(s) + Len(t) /\ Len(s) \in Nat /\ Len(t) \in Nat
  BY ConcatProperties
<1>2. \A j \in 1 .. Len(s) + Len(t) : u[j] = IF j <= Len(s) THEN s[j] ELSE t[j - Len(s)]
  BY ConcatProperties
<1>3. ASSUME NEW j \in 1 .. Len(s) PROVE u[j] = s[j]
  BY <1>1, <1>2
<1>4. ASSUME NEW j \in 1 .. Len(t) PROVE u[Len(s) + j] = t[j]
  <2>1. Len(s) + j \in 1 .. Len(s) + Len(t) /\ ~(Len(s) + j <= Len(s)) /\ Len(s) + j - Len(s) = j
    BY <1>1
  <2> QED BY <1>2, <2>1
<1> QED BY <1>1, <1>3, <1>4

LEMMA Flattens ==
  ASSUME NEW X, NEW seqs \in Seq(Seq(X))
  PROVE  \E F : Flattening(F, seqs, X) /\ FlattenSeq(seqs) = F[Len(seqs)]
<1>1. PICK n \in Nat : n = Len(seqs) /\ \A i \in 1 .. n : seqs[i] \in Seq(X)
  OBVIOUS
<1>2. CASE n = 0
  <2> DEFINE F == [k \in 0 .. 0 |-> <<>>]
  <2>1. FlattenSeq(seqs) = <<>>
    <3>1. seqs = <<>>
      BY <1>1, <1>2, EmptySeq
    <3> QED BY <1>1, <1>2, <3>1 DEF FlattenSeq
  <2>2. Flattening(F, seqs, X)
    BY <1>1, <1>2 DEF Flattening
  <2>3. F[n] = <<>>
    BY <1>2
  <2> QED BY <1>1, <2>1, <2>2, <2>3
<1>3. CASE n # 0
  <2> DEFINE Steps(f, m) == [i \in 1 .. m |-> IF i = 1 THEN seqs[i] ELSE f[i - 1] \o seqs[i]]
             T == {m \in Nat : \E g : g = Steps(g, m)}
  <2>1. 0 \in T
    <3> DEFINE h == [i \in 1 .. 0 |-> <<>>]
    <3>1. h = Steps(h, 0)
      OBVIOUS
    <3> QED BY <3>1
  <2>2. ASSUME NEW m \in Nat, m \in T PROVE m + 1 \in T
    <3>1. PICK p : p = Steps(p, m)
      BY <2>2
    <3> DEFINE h == [i \in 1 .. m + 1 |-> IF i = m + 1
                       THEN IF m + 1 = 1 THEN seqs[m + 1] ELSE p[m] \o seqs[m + 1] ELSE p[i]]
    <3>2. \A i \in 1 .. m + 1 : h[i] = IF i = 1 THEN seqs[i] ELSE h[i - 1] \o seqs[i]
      <4>1. \A i \in 1 .. m : p[i] = IF i = 1 THEN seqs[i] ELSE p[i - 1] \o seqs[i]
        BY <3>1
      <4>2. \A i \in 1 .. m : h[i] = p[i]
        OBVIOUS
      <4>3. h[m + 1] = IF m + 1 = 1 THEN seqs[m + 1] ELSE p[m] \o seqs[m + 1]
        OBVIOUS
      <4>4. m # 0 => h[m] = p[m]
        BY <4>2
      <4> HIDE DEF h
      <4>5. \A i \in 1 .. m : i = 1 \/ (i - 1) \in 1 .. m
        OBVIOUS
      <4>6. \A i \in 1 .. m + 1 : i \in 1 .. m \/ i = m + 1
        OBVIOUS
      <4>7. m = 0 <=> m + 1 = 1
        OBVIOUS
      <4>9. ASSUME NEW i \in 1 .. m
            PROVE  h[i] = IF i = 1 THEN seqs[i] ELSE h[i - 1] \o seqs[i]
        <5>1. CASE i = 1
          BY <4>1, <4>2, <5>1
        <5>2. CASE i # 1
          <6>1. h[i] = p[i] /\ h[i - 1] = p[i - 1]
            BY <4>2, <4>5, <5>2
          <6> QED BY <4>1, <5>2, <6>1
        <5> QED BY <5>1, <5>2
      <4> SUFFICES ASSUME NEW i \in 1 .. m + 1
                   PROVE  h[i] = IF i = 1 THEN seqs[i] ELSE h[i - 1] \o seqs[i]
        OBVIOUS
      <4>11. CASE i = m + 1
        <5>1. i - 1 = m /\ (i = 1 <=> m + 1 = 1)
          BY <4>11
        <5>2. h[i] = IF i = 1 THEN seqs[i] ELSE p[m] \o seqs[i]
          BY <4>3, <4>11, <5>1
        <5>3. i # 1 => h[i - 1] = p[m]
          BY <4>4, <4>7, <5>1
        <5> QED BY <5>2, <5>3
      <4>12. CASE i \in 1 .. m
        BY <4>9, <4>12
      <4> QED BY <4>6, <4>11, <4>12
    <3>3. h = Steps(h, m + 1)
      BY <3>2
    <3> HIDE DEF h
    <3>4. \E q : q = Steps(q, m + 1)
      BY <3>3
    <3>5. m + 1 \in Nat
      OBVIOUS
    <3> HIDE DEF Steps
    <3> QED BY <3>4, <3>5
  <2> HIDE DEF T
  <2>3. n \in T
    BY <2>1, <2>2, SetInduction
  <2> DEFINE at == CHOOSE g : g = Steps(g, n)
  <2>4. at = Steps(at, n)
    BY <2>3 DEF T
  <2>5. FlattenSeq(seqs) = at[n]
    BY <1>1, <1>3 DEF FlattenSeq
  <2> HIDE DEF at
  <2>6. \A i \in 1 .. n : at[i] = IF i = 1 THEN seqs[i] ELSE at[i - 1] \o seqs[i]
    BY <2>4
  <2> DEFINE F == [k \in 0 .. n |-> IF k = 0 THEN <<>> ELSE at[k]]
  <2>7. F[0] = <<>> /\ \A k \in 1 .. n : F[k] = at[k]
    BY <1>1
  <2> HIDE DEF F
  <2>8. \A k \in 0 .. n - 1 : F[k + 1] = F[k] \o seqs[k + 1]
    <3> TAKE k \in 0 .. n - 1
    <3>1. k + 1 \in 1 .. n /\ k + 1 - 1 = k
      BY <1>1
    <3>2. CASE k = 0
      <4>1. <<>> \o seqs[1] = seqs[1]
        BY <1>1, <1>3
      <4>2. k + 1 = 1 /\ F[1] = at[1] /\ at[1] = seqs[1] /\ F[k] = <<>>
        BY <2>6, <2>7, <3>1, <3>2
      <4> QED BY <4>1, <4>2
    <3>3. CASE k # 0
      <4>1. k \in 1 .. n /\ k + 1 # 1
        BY <1>1, <3>3
      <4>2. F[k + 1] = at[k + 1] /\ F[k] = at[k]
        BY <2>7, <3>1, <4>1
      <4>3. at[k + 1] = at[k] \o seqs[k + 1]
        <5>1. PICK j \in 1 .. n : j = k + 1 /\ j # 1 /\ j - 1 = k
          BY <3>1, <4>1
        <5>2. at[j] = at[j - 1] \o seqs[j]
          BY <2>6, <5>1
        <5> QED BY <5>1, <5>2
      <4> QED BY <4>2, <4>3
    <3> QED BY <3>2, <3>3
  <2> DEFINE U == {m \in Nat : m \in 0 .. n => F[m] \in Seq(X)}
  <2>9. 0 \in U
    <3>1. <<>> \in Seq(X)
      OBVIOUS
    <3> QED BY <2>7, <3>1
  <2>10. ASSUME NEW m \in Nat, m \in U PROVE m + 1 \in U
    <3> SUFFICES ASSUME m + 1 \in 0 .. n PROVE F[m + 1] \in Seq(X)
      OBVIOUS
    <3>1. m \in 0 .. n /\ m + 1 \in 1 .. n /\ m \in 0 .. n - 1
      BY <1>1
    <3>2. F[m + 1] = F[m] \o seqs[m + 1]
      BY <2>8, <3>1
    <3>3. F[m] \in Seq(X) /\ seqs[m + 1] \in Seq(X)
      BY <1>1, <2>10, <3>1
    <3> QED BY <3>1, <3>2, <3>3, ConcatIs
  <2> HIDE DEF U
  <2>11. Nat \subseteq U
    BY <2>9, <2>10, SetInduction
  <2>12. \A k \in 0 .. n : F[k] \in Seq(X)
    BY <1>1, <2>11 DEF U
  <2>13. n \in 1 .. n
    BY <1>3
  <2>14. Flattening(F, seqs, X) /\ FlattenSeq(seqs) = F[n]
    BY <1>1, <2>5, <2>7, <2>8, <2>12, <2>13 DEF Flattening
  <2> QED BY <1>1, <2>14
<1> QED BY <1>2, <1>3

\* Each sequence stands in the whole where the earlier ones end.
Stand(F, seqs, n) ==
  \A k \in 1 .. n :
    /\ Len(F[k - 1]) \in Nat /\ Len(seqs[k]) \in Nat /\ Len(F[n]) \in Nat
    /\ Len(F[k]) = Len(F[k - 1]) + Len(seqs[k]) /\ Len(F[k]) <= Len(F[n])
    /\ \A j \in 1 .. Len(seqs[k]) : F[n][Len(F[k - 1]) + j] = seqs[k][j]

LEMMA PiecesStand ==
  ASSUME NEW X, NEW seqs \in Seq(Seq(X)), NEW F, Flattening(F, seqs, X), NEW n \in Nat,
         n = Len(seqs)
  PROVE  Stand(F, seqs, n)
<1>1. /\ \A k \in 0 .. n - 1 : F[k + 1] = F[k] \o seqs[k + 1]
      /\ \A k \in 1 .. n : seqs[k] \in Seq(X)
      /\ \A k \in 0 .. n : F[k] \in Seq(X)
  <2>1. \A k \in 1 .. n : seqs[k] \in Seq(X)
    BY ElementOfSeq
  <2> QED BY <2>1 DEF Flattening
<1> DEFINE Begins(k, m) == /\ Len(F[k]) <= Len(F[m])
                           /\ \A j \in 1 .. Len(F[k]) : F[m][j] = F[k][j]
           T == {m \in Nat : m <= n => \A k \in 0 .. m : Begins(k, m)}
<1>2. 0 \in T
  <2>1. \A k \in 0 .. 0 : k = 0
    OBVIOUS
  <2>2. Len(F[0]) \in Nat
    BY <1>1
  <2> QED BY <2>1, <2>2
<1>3. ASSUME NEW m \in Nat, m \in T PROVE m + 1 \in T
  <2> SUFFICES ASSUME m + 1 <= n, NEW k \in 0 .. m + 1 PROVE Begins(k, m + 1)
    OBVIOUS
  <2>1. m \in 0 .. n /\ m + 1 \in 1 .. n /\ m \in 0 .. n - 1 /\ m <= n /\ m + 1 \in 0 .. n
    OBVIOUS
  <2>2. F[m + 1] = F[m] \o seqs[m + 1] /\ F[m] \in Seq(X) /\ seqs[m + 1] \in Seq(X)
    <3>1. F[m + 1] = F[m] \o seqs[m + 1]
      BY <1>1, <2>1
    <3> QED BY <1>1, <2>1, <3>1
  <2>3. /\ Len(F[m + 1]) = Len(F[m]) + Len(seqs[m + 1])
        /\ Len(F[m]) \in Nat /\ Len(seqs[m + 1]) \in Nat
        /\ Len(F[m + 1]) \in Nat
        /\ \A j \in 1 .. Len(F[m]) : F[m + 1][j] = F[m][j]
    <3>1. PICK s, t, u : s = F[m] /\ t = seqs[m + 1] /\ u = F[m + 1]
      OBVIOUS
    <3>2. s \in Seq(X) /\ t \in Seq(X) /\ u = s \o t
      BY <2>2, <3>1
    <3>3. /\ Len(u) = Len(s) + Len(t) /\ Len(s) \in Nat /\ Len(t) \in Nat /\ Len(u) \in Nat
          /\ \A j \in 1 .. Len(s) : u[j] = s[j]
      BY ONLY <3>2, ConcatIs
    <3> QED BY <3>1, <3>3
  <2>4. CASE k = m + 1
    <3>1. Len(F[m + 1]) \in Nat
      BY <2>3
    <3>2. Begins(m + 1, m + 1)
      BY <3>1
    <3> QED BY <2>4, <3>2
  <2>5. CASE k # m + 1
    <3>1. k \in 0 .. m /\ k \in 0 .. n
      BY <2>1, <2>5
    <3>2. Begins(k, m)
      BY <1>3, <2>1, <3>1
    <3>3. Len(F[k]) \in Nat
      BY <1>1, <3>1
    <3>4. \A j \in 1 .. Len(F[k]) : j \in 1 .. Len(F[m])
      BY <2>3, <3>2, <3>3
    <3>5. Len(F[k]) <= Len(F[m + 1])
      <4>1. \A x, y, z, d \in Nat : x <= y /\ z = y + d => x <= z
        OBVIOUS
      <4> QED BY <2>3, <3>2, <3>3, <4>1
    <3>6. \A j \in 1 .. Len(F[k]) : F[m + 1][j] = F[k][j]
      BY <2>3, <3>2, <3>4
    <3> QED BY <3>5, <3>6
  <2> QED BY <2>4, <2>5
<1> HIDE DEF T
<1>4. n \in T
  BY <1>2, <1>3, SetInduction
<1>5. \A k \in 0 .. n : Begins(k, n)
  BY <1>4 DEF T
<1> SUFFICES ASSUME NEW k \in 1 .. n
             PROVE  /\ Len(F[k - 1]) \in Nat /\ Len(seqs[k]) \in Nat /\ Len(F[n]) \in Nat
                    /\ Len(F[k]) = Len(F[k - 1]) + Len(seqs[k]) /\ Len(F[k]) <= Len(F[n])
                    /\ \A j \in 1 .. Len(seqs[k]) : F[n][Len(F[k - 1]) + j] = seqs[k][j]
  BY DEF Stand
<1>6. k - 1 \in 0 .. n /\ k \in 0 .. n /\ n \in 0 .. n /\ k - 1 \in 0 .. n - 1 /\ k - 1 + 1 = k
  OBVIOUS
<1>7. PICK s, t, u : s = F[k - 1] /\ t = seqs[k] /\ u = F[k]
  OBVIOUS
<1>8. /\ Len(u) = Len(s) + Len(t) /\ Len(s) \in Nat /\ Len(t) \in Nat /\ Len(u) \in Nat
      /\ Len(F[n]) \in Nat /\ \A j \in 1 .. Len(t) : u[Len(s) + j] = t[j]
  <2>1. F[k - 1 + 1] = F[k - 1] \o seqs[k - 1 + 1]
    BY <1>1, <1>6
  <2>2. s \in Seq(X) /\ t \in Seq(X) /\ u = s \o t
    BY <1>1, <1>6, <1>7, <2>1
  <2>3. /\ Len(u) = Len(s) + Len(t) /\ Len(s) \in Nat /\ Len(t) \in Nat /\ Len(u) \in Nat
        /\ \A j \in 1 .. Len(t) : u[Len(s) + j] = t[j]
    BY ONLY <2>2, ConcatIs
  <2>4. Len(F[n]) \in Nat
    BY <1>1, <1>6
  <2> QED BY <2>3, <2>4
<1>9. Begins(k, n)
  BY <1>5, <1>6
<1>10. \A j \in 1 .. Len(t) : Len(s) + j \in 1 .. Len(u)
  <2>1. \A x, y, z \in Nat : z = x + y => \A j \in 1 .. y : x + j \in 1 .. z
    OBVIOUS
  <2> QED BY <1>8, <2>1
<1>11. \A j \in 1 .. Len(t) : F[n][Len(s) + j] = t[j]
  BY <1>7, <1>8, <1>9, <1>10
<1> QED BY <1>7, <1>8, <1>9, <1>11

-----------------------------------------------------------------------------
(***************************************************************************)
(* The loop over the characters of a name.                                 *)
(***************************************************************************)
DecodeStart(text, first) == [skip |-> 0, text |-> SubSeq(text, 1, first - 1)]

LEMMA DecodeSteps ==
  ASSUME NEW text, NEW first \in Nat \ {0}, Len(text) \in Nat, first - 1 <= Len(text)
  PROVE  /\ Decoded(text, first)[first - 1] = DecodeStart(text, first)
         /\ \A i \in first .. Len(text) :
              Decoded(text, first)[i] = DecodeOne(text, Decoded(text, first)[i - 1], i)
<1>1. PICK a \in Nat : a = first - 1
  OBVIOUS
<1>2. PICK n \in Nat : a + n = Len(text)
  <2>1. Len(text) - a \in Nat /\ a + (Len(text) - a) = Len(text)
    BY <1>1
  <2> QED BY <2>1
<1> DEFINE Start == DecodeStart(text, first)
           Steps(f, m) == [i \in a .. a + m |-> IF i = a THEN Start
                                               ELSE DecodeOne(text, f[i - 1], i)]
           T == {m \in Nat : \E g : g = Steps(g, m)}
<1> HIDE DEF Start
<1>3. 0 \in T
  <2> DEFINE h == [i \in a .. a + 0 |-> Start]
  <2>1. h = Steps(h, 0)
    OBVIOUS
  <2> QED BY <2>1
<1>4. ASSUME NEW m \in Nat, m \in T PROVE m + 1 \in T
  <2>1. PICK p : p = Steps(p, m)
    BY <1>4
  <2> DEFINE h == [i \in a .. a + (m + 1) |-> IF i = a + (m + 1)
                                              THEN DecodeOne(text, p[a + m], a + (m + 1)) ELSE p[i]]
  <2>2. \A i \in a .. a + (m + 1) : h[i] = IF i = a THEN Start ELSE DecodeOne(text, h[i - 1], i)
    <3>1. \A i \in a .. a + m : p[i] = IF i = a THEN Start ELSE DecodeOne(text, p[i - 1], i)
      BY <2>1
    <3>2. \A i \in a .. a + m : h[i] = p[i]
      OBVIOUS
    <3>3. h[a + (m + 1)] = DecodeOne(text, p[a + m], a + (m + 1)) /\ h[a + m] = p[a + m]
      BY <3>2
    <3> HIDE DEF h
    <3>4. SUFFICES ASSUME NEW i \in a .. a + (m + 1)
                   PROVE  h[i] = IF i = a THEN Start ELSE DecodeOne(text, h[i - 1], i)
      OBVIOUS
    <3>5. CASE i = a + (m + 1)
      <4>1. i # a /\ i - 1 = a + m
        BY <3>5
      <4> QED BY <3>3, <3>5, <4>1
    <3>6. CASE i # a + (m + 1)
      <4>1. i \in a .. a + m /\ (i # a => i - 1 \in a .. a + m)
        BY <3>6
      <4>2. h[i] = p[i] /\ (i # a => h[i - 1] = p[i - 1])
        BY <3>2, <4>1
      <4>3. p[i] = IF i = a THEN Start ELSE DecodeOne(text, p[i - 1], i)
        BY <3>1, <4>1
      <4>4. CASE i = a
        BY <4>2, <4>3, <4>4
      <4>5. CASE i # a
        BY <4>2, <4>3, <4>5
      <4> QED BY <4>4, <4>5
    <3> QED BY <3>5, <3>6
  <2>3. h = Steps(h, m + 1)
    BY <2>2
  <2> HIDE DEF h
  <2>4. \E q : q = Steps(q, m + 1)
    BY <2>3
  <2> QED BY <2>4
<1> HIDE DEF T
<1>5. n \in T
  BY <1>3, <1>4, SetInduction
<1> DEFINE at == CHOOSE g : g = Steps(g, n)
<1>6. at = Steps(at, n)
  BY <1>5 DEF T
<1>7. Decoded(text, first) = at
  BY <1>1, <1>2 DEF Decoded, DecodeStart, Start
<1> HIDE DEF at
<1>8. \A i \in a .. a + n : at[i] = IF i = a THEN Start ELSE DecodeOne(text, at[i - 1], i)
  BY <1>6
<1>9. at[a] = Start
  BY <1>8
<1>10. ASSUME NEW i \in first .. Len(text) PROVE at[i] = DecodeOne(text, at[i - 1], i)
  <2>1. i \in a .. a + n /\ i # a
    BY <1>1, <1>2
  <2> QED BY <1>8, <2>1
<1> QED BY <1>1, <1>7, <1>9, <1>10 DEF Start

(***************************************************************************)
(* One character: it is copied, begins a code, or is skipped.              *)
(***************************************************************************)
At0(text) == [skip |-> 0, text |-> text]

LEMMA CharacterCopied ==
  ASSUME NEW path, NEW text, NEW i,
         ~(IsCode(path, i) /\ CharAt(path, i) \notin {"NUL", "/"})
  PROVE  DecodeOne(path, At0(text), i) = At0(Append(text, path[i]))
<1>1. PICK s : s = At0(text)
  OBVIOUS
<1>2. s.skip = 0 /\ ~(s.skip > 0) /\ s.text = text
  BY <1>1 DEF At0
<1>3. ~(s.skip = 0 /\ IsCode(path, i) /\ CharAt(path, i) \notin {"NUL", "/"})
  OBVIOUS
<1>4. DecodeOne(path, s, i) = [s EXCEPT !.text = Append(@, path[i])]
  BY ONLY <1>2, <1>3, Zenon DEF DecodeOne
<1>5. [s EXCEPT !.text = Append(@, path[i])] = At0(Append(text, path[i]))
  BY <1>1, SMTT(30) DEF At0
<1> QED BY <1>1, <1>4, <1>5

LEMMA CharacterDecoded ==
  ASSUME NEW path, NEW text, NEW i, NEW char, char \notin {"NUL", "/"},
         IsCode(path, i), CharAt(path, i) = char
  PROVE  DecodeOne(path, DecodeOne(path, DecodeOne(path, At0(text), i), i + 1), i + 2)
           = At0(Append(text, char))
<1>1. DecodeOne(path, At0(text), i) = [skip |-> 2, text |-> Append(text, char)]
  BY DEF DecodeOne, At0
<1>2. DecodeOne(path, [skip |-> 2, text |-> Append(text, char)], i + 1)
        = [skip |-> 1, text |-> Append(text, char)]
  BY DEF DecodeOne
<1>3. DecodeOne(path, [skip |-> 1, text |-> Append(text, char)], i + 2)
        = [skip |-> 0, text |-> Append(text, char)]
  BY DEF DecodeOne
<1> QED BY <1>1, <1>2, <1>3 DEF At0

LEMMA Tuples ==
  ASSUME NEW X, NEW a \in X, NEW b \in X, NEW c \in X
  PROVE  /\ <<a>> \in Seq(X) /\ <<a, b>> \in Seq(X) /\ <<a, b, c>> \in Seq(X)
         /\ <<a>> \o <<b, c>> = <<a, b, c>>
<1>1. PICK s, t, u, v : s = <<a>> /\ t = <<b, c>> /\ u = <<a, b, c>> /\ v = s \o t
  OBVIOUS
<1>2. /\ s \in Seq(X) /\ t \in Seq(X) /\ u \in Seq(X) /\ Len(s) = 1 /\ Len(t) = 2 /\ Len(u) = 3
      /\ s[1] = a /\ t[1] = b /\ t[2] = c /\ u[1] = a /\ u[2] = b /\ u[3] = c
  BY <1>1
<1>3. /\ v \in Seq(X) /\ Len(v) = Len(s) + Len(t)
      /\ \A j \in 1 .. Len(s) : v[j] = s[j]
      /\ \A j \in 1 .. Len(t) : v[Len(s) + j] = t[j]
  <2>1. s \in Seq(X) /\ t \in Seq(X) /\ v = s \o t
    BY <1>1, <1>2
  <2> QED BY ONLY <2>1, ConcatIs
<1>4. Len(v) = 3 /\ v[1] = a /\ v[1 + 1] = b /\ v[1 + 2] = c
  BY <1>2, <1>3
<1>5. \A i \in 1 .. 3 : v[i] = u[i]
  BY <1>2, <1>4
<1>6. v = u
  BY <1>2, <1>3, <1>4, <1>5, SeqEqual
<1>7. <<a, b>> \in Seq(X)
  OBVIOUS
<1> QED BY <1>1, <1>2, <1>6, <1>7

(***************************************************************************)
(* A written name is the concatenation of what stands for its characters.  *)
(***************************************************************************)
Chars == STRING \cup DOMAIN Code
Pieces(name, encoded) ==
  [i \in 1 .. Len(name) |-> IF i \in encoded THEN <<"%">> \o Code[name[i]] ELSE <<name[i]>>]

LEMMA CodeIs ==
  ASSUME NEW char \in DOMAIN Code
  PROVE  /\ Code[char] \in Seq(Chars) /\ Len(Code[char]) = 2
         /\ Code[char] = <<Code[char][1], Code[char][2]>>
         /\ {Code[char][1], Code[char][2]} \subseteq Digits
         /\ \A j \in {1, 2} : Code[char][j] \in STRING /\ Code[char][j] \notin {"%", "/"}
<1>1. Code[char] \in Seq(STRING \ {"%", "/"}) /\ Len(Code[char]) = 2
  BY UrlAssumption DEF UrlAssumption
<1>2. PICK s : s = Code[char]
  OBVIOUS
<1>3. s \in Seq(STRING \ {"%", "/"}) /\ Len(s) = 2
  BY <1>1, <1>2
<1>4. s[1] \in STRING \ {"%", "/"} /\ s[2] \in STRING \ {"%", "/"}
  BY <1>3, ElementOfSeq
<1>5. s = <<s[1], s[2]>>
  BY <1>3
<1>6. s \in Seq(Chars)
  <2>1. s[1] \in Chars /\ s[2] \in Chars
    BY <1>4 DEF Chars
  <2> QED BY <1>5, <2>1, Tuples
<1>7. {s[1], s[2]} \subseteq ToSet(s)
  BY <1>3 DEF ToSet
<1>8. ToSet(s) \subseteq Digits
  BY <1>2, Zenon DEF Digits
<1> QED BY <1>1, <1>2, <1>4, <1>5, <1>6, <1>7, <1>8

LEMMA PiecesAre ==
  ASSUME NEW name \in Seq(DOMAIN Code), NEW encoded
  PROVE  /\ Pieces(name, encoded) \in Seq(Seq(Chars))
         /\ Len(Pieces(name, encoded)) = Len(name)
         /\ Written(name, encoded) = FlattenSeq(Pieces(name, encoded))
         /\ \A i \in 1 .. Len(name) :
              /\ i \in encoded => Pieces(name, encoded)[i]
                                    = <<"%", Code[name[i]][1], Code[name[i]][2]>>
              /\ i \notin encoded => Pieces(name, encoded)[i] = <<name[i]>>
<1>1. PICK n \in Nat : n = Len(name)
  OBVIOUS
<1>2. \A i \in 1 .. n : name[i] \in DOMAIN Code
  BY <1>1
<1>3. ASSUME NEW i \in 1 .. n
      PROVE  /\ i \in encoded => Pieces(name, encoded)[i]
                                    = <<"%", Code[name[i]][1], Code[name[i]][2]>>
             /\ i \notin encoded => Pieces(name, encoded)[i] = <<name[i]>>
             /\ Pieces(name, encoded)[i] \in Seq(Chars)
  <2>1. PICK char \in DOMAIN Code : char = name[i]
    BY <1>2
  <2>2. Pieces(name, encoded)[i] = IF i \in encoded THEN <<"%">> \o Code[name[i]] ELSE <<name[i]>>
    BY <1>1 DEF Pieces
  <2>3. PICK a, b : Code[char] = <<a, b>> /\ a = Code[char][1] /\ b = Code[char][2]
                    /\ a \in STRING /\ b \in STRING
    BY CodeIs
  <2>4. "%" \in Chars /\ a \in Chars /\ b \in Chars /\ char \in Chars
    <3>1. STRING \subseteq Chars /\ DOMAIN Code \subseteq Chars
      BY DEF Chars
    <3>2. "%" \in DOMAIN Code
      BY UrlAssumption DEF UrlAssumption
    <3> QED BY <2>3, <3>1, <3>2, Zenon
  <2>5. /\ <<"%">> \o <<a, b>> = <<"%", a, b>>
        /\ <<"%", a, b>> \in Seq(Chars) /\ <<char>> \in Seq(Chars)
    BY <2>4, Tuples
  <2> QED BY <2>1, <2>2, <2>3, <2>5
<1>4. Pieces(name, encoded) \in Seq(Seq(Chars)) /\ Len(Pieces(name, encoded)) = n
  <2>1. Pieces(name, encoded) = [i \in 1 .. n |-> Pieces(name, encoded)[i]]
    BY <1>1 DEF Pieces
  <2>2. PICK p : p = Pieces(name, encoded)
    OBVIOUS
  <2>3. p \in [1 .. n -> Seq(Chars)]
    BY <1>3, <2>1, <2>2
  <2>4. p \in Seq(Seq(Chars)) /\ Len(p) = n
    BY <2>3
  <2> QED BY <2>2, <2>4
<1>5. Written(name, encoded) = FlattenSeq(Pieces(name, encoded))
  BY DEF Written, Pieces
<1> QED BY <1>1, <1>3, <1>4, <1>5

(***************************************************************************)
(* What is done with the piece of one character, of which text has been    *)
(* read: in D are the states of the loop.                                  *)
(***************************************************************************)
Follows(D, path, p) == \A i \in p + 1 .. Len(path) : D[i] = DecodeOne(path, D[i - 1], i)

LEMMA Appended ==
  ASSUME NEW X, NEW text \in Seq(X), NEW a \in X
  PROVE  Append(text, a) = text \o <<a>> /\ Append(text, a) \in Seq(X)
<1>1. PICK s, t, u : s = <<a>> /\ t = Append(text, a) /\ u = text \o <<a>>
  OBVIOUS
<1>2. /\ s \in Seq(X) /\ Len(s) = 1 /\ s[1] = a /\ t \in Seq(X) /\ Len(t) = Len(text) + 1
      /\ \A i \in 1 .. Len(text) : t[i] = text[i]
      /\ t[Len(text) + 1] = a
  BY <1>1
<1>3. /\ u \in Seq(X) /\ Len(u) = Len(text) + Len(s)
      /\ \A j \in 1 .. Len(text) : u[j] = text[j]
      /\ \A j \in 1 .. Len(s) : u[Len(text) + j] = s[j]
  <2>1. s \in Seq(X) /\ u = text \o s
    BY <1>1, <1>2
  <2> QED BY ONLY text \in Seq(X), <2>1, ConcatIs
<1>4. Len(text) \in Nat /\ Len(u) = Len(t) /\ u[Len(text) + 1] = t[Len(text) + 1]
  BY <1>2, <1>3
<1>5. \A i \in 1 .. Len(u) : u[i] = t[i]
  <2>1. \A i \in 1 .. Len(u) : i \in 1 .. Len(text) \/ i = Len(text) + 1
    BY <1>2, <1>4
  <2> QED BY <1>2, <1>3, <1>4, <2>1
<1>6. u = t
  BY <1>2, <1>3, <1>4, <1>5, SeqEqual
<1> QED BY <1>1, <1>2, <1>6

LEMMA PlainPiece ==
  ASSUME NEW path, Len(path) \in Nat, NEW D, NEW p \in Nat, Follows(D, path, p),
         NEW text \in Seq(Chars), D[p] = At0(text),
         NEW char \in DOMAIN Code, char # "%",
         p + 1 <= Len(path), path[p + 1] = char
  PROVE  D[p + 1] = At0(text \o <<char>>)
<1>1. D[p + 1] = DecodeOne(path, At0(text), p + 1)
  <2>1. PICK i : i = p + 1 /\ i \in p + 1 .. Len(path) /\ i - 1 = p
    OBVIOUS
  <2> QED BY <2>1 DEF Follows
<1>2. ~IsCode(path, p + 1)
  BY DEF IsCode
<1>3. DecodeOne(path, At0(text), p + 1) = At0(Append(text, char))
  BY <1>2, CharacterCopied
<1>4. Append(text, char) = text \o <<char>>
  BY Appended DEF Chars
<1> QED BY <1>1, <1>3, <1>4

\* The states after the three characters of a code.
LEMMA ThreeSteps ==
  ASSUME NEW path, Len(path) \in Nat, NEW D, NEW p \in Nat, Follows(D, path, p),
         p + 3 <= Len(path)
  PROVE  /\ D[p + 1] = DecodeOne(path, D[p], p + 1)
         /\ D[p + 2] = DecodeOne(path, D[p + 1], p + 2)
         /\ D[p + 3] = DecodeOne(path, D[p + 2], p + 3)
<1>1. \A i \in p + 1 .. Len(path) : D[i] = DecodeOne(path, D[i - 1], i)
  BY DEF Follows
<1>2. PICK i : i = p + 1 /\ i \in p + 1 .. Len(path) /\ i - 1 = p
  OBVIOUS
<1>3. PICK j : j = p + 2 /\ j \in p + 1 .. Len(path) /\ j - 1 = p + 1
  OBVIOUS
<1>4. PICK k : k = p + 3 /\ k \in p + 1 .. Len(path) /\ k - 1 = p + 2
  OBVIOUS
<1>5. D[i] = DecodeOne(path, D[i - 1], i)
  BY <1>1, <1>2
<1>6. D[j] = DecodeOne(path, D[j - 1], j)
  BY <1>1, <1>3
<1>7. D[k] = DecodeOne(path, D[k - 1], k)
  BY <1>1, <1>4
<1> QED BY <1>2, <1>3, <1>4, <1>5, <1>6, <1>7

\* The three characters of a code.
Coded(path, p, char) ==
  /\ p + 3 <= Len(path) /\ path[p + 1] = "%"
  /\ path[p + 2] = Code[char][1] /\ path[p + 3] = Code[char][2]

LEMMA CodeIsRead ==
  ASSUME NEW path, Len(path) \in Nat, NEW p \in Nat, NEW char \in DOMAIN Code,
         Coded(path, p, char)
  PROVE  IsCode(path, p + 1) /\ CharAt(path, p + 1) = char
<1>1. PICK a, b : /\ a = Code[char][1] /\ b = Code[char][2] /\ Code[char] = <<a, b>>
                  /\ {a, b} \subseteq Digits /\ a \in Chars /\ b \in Chars
  BY CodeIs DEF Chars
<1>2. path[p + 2] = a /\ path[p + 3] = b /\ path[p + 1] = "%" /\ p + 3 <= Len(path)
  BY <1>1 DEF Coded
<1>3. PICK i : i = p + 1 /\ i + 1 = p + 2 /\ i + 2 = p + 3 /\ i \in Nat
  OBVIOUS
<1>4. IsCode(path, i)
  BY <1>1, <1>2, <1>3 DEF IsCode
<1>5. PICK s : s = SubSeq(path, i + 1, i + 2)
  OBVIOUS
<1>6. s \in Seq(Chars) /\ Len(s) = 2 /\ s[1] = a /\ s[2] = b
  <2>1. \A j \in i + 1 .. i + 2 : path[j] \in Chars
    <3>1. \A j \in i + 1 .. i + 2 : j = p + 2 \/ j = p + 3
      BY <1>3
    <3> QED BY <1>1, <1>2, <3>1
  <2>2. PICK m, n : m = i + 1 /\ n = i + 2 /\ m \in Int /\ n \in Int
                    /\ m <= n /\ n - m + 1 = 2 /\ m + 1 - 1 = p + 2 /\ m + 2 - 1 = p + 3
    BY <1>3
  <2>3. \A j \in m .. n : path[j] \in Chars
    BY <2>1, <2>2
  <2>4. /\ SubSeq(path, m, n) \in Seq(Chars)
        /\ Len(SubSeq(path, m, n)) = IF m <= n THEN n - m + 1 ELSE 0
        /\ \A j \in 1 .. n - m + 1 : SubSeq(path, m, n)[j] = path[m + j - 1]
    <3>1. m \in Int /\ n \in Int
      BY <2>2
    <3> QED BY ONLY <3>1, <2>3, SubSeqProperties
  <2>5. 1 \in 1 .. n - m + 1 /\ 2 \in 1 .. n - m + 1
    <3>1. \A z : z = 2 => 1 \in 1 .. z /\ 2 \in 1 .. z
      OBVIOUS
    <3> QED BY ONLY <2>2, <3>1
  <2>6. s[1] = path[m + 1 - 1] /\ s[2] = path[m + 2 - 1]
    BY <1>5, <2>2, <2>4, <2>5
  <2> QED BY <1>2, <1>5, <2>2, <2>4, <2>6
<1>7. s = Code[char]
  <2>1. s = <<s[1], s[2]>>
    BY <1>6
  <2> QED BY <1>1, <1>6, <2>1
<1>8. CharAt(path, i) = char
  <2>1. \A d \in DOMAIN Code : Code[d] = s => d = char
    BY <1>7, UrlAssumption DEF UrlAssumption, IsInjective
  <2>2. CharAt(path, i) = CHOOSE d \in DOMAIN Code : Code[d] = s
    BY <1>5 DEF CharAt
  <2> QED BY <1>7, <2>1, <2>2
<1> QED BY <1>3, <1>4, <1>8

LEMMA CodeDecoded ==
  ASSUME NEW path, Len(path) \in Nat, NEW D, NEW p \in Nat, Follows(D, path, p),
         NEW text \in Seq(Chars), D[p] = At0(text),
         NEW char \in DOMAIN Code, char \notin {"NUL", "/"}, Coded(path, p, char)
  PROVE  D[p + 3] = At0(text \o <<char>>)
<1>1. p + 3 <= Len(path)
  BY DEF Coded
<1>2. /\ D[p + 1] = DecodeOne(path, D[p], p + 1)
      /\ D[p + 2] = DecodeOne(path, D[p + 1], p + 2)
      /\ D[p + 3] = DecodeOne(path, D[p + 2], p + 3)
  BY <1>1, ThreeSteps
<1>3. PICK i : i = p + 1 /\ i + 1 = p + 2 /\ i + 2 = p + 3
  OBVIOUS
<1>4. IsCode(path, i) /\ CharAt(path, i) = char
  BY <1>3, CodeIsRead
<1>5. DecodeOne(path, DecodeOne(path, DecodeOne(path, At0(text), i), i + 1), i + 2)
        = At0(Append(text, char))
  BY ONLY <1>4, char \notin {"NUL", "/"}, CharacterDecoded
<1>6. Append(text, char) = text \o <<char>>
  BY Appended DEF Chars
<1> QED BY <1>2, <1>3, <1>5, <1>6

\* The code of a slash or a null character stays: its digits are no code.
LEMMA CodeKept ==
  ASSUME NEW path, Len(path) \in Nat, NEW D, NEW p \in Nat, Follows(D, path, p),
         NEW text \in Seq(Chars), D[p] = At0(text),
         NEW char \in DOMAIN Code, char \in {"NUL", "/"}, Coded(path, p, char)
  PROVE  D[p + 3] = At0(text \o <<"%", Code[char][1], Code[char][2]>>)
<1>1. p + 3 <= Len(path)
  BY DEF Coded
<1>2. /\ D[p + 1] = DecodeOne(path, D[p], p + 1)
      /\ D[p + 2] = DecodeOne(path, D[p + 1], p + 2)
      /\ D[p + 3] = DecodeOne(path, D[p + 2], p + 3)
  BY <1>1, ThreeSteps
<1>3. PICK a, b : /\ a = Code[char][1] /\ b = Code[char][2]
                  /\ a \in Chars /\ b \in Chars /\ a # "%" /\ b # "%"
  BY CodeIs DEF Chars
<1>4. path[p + 1] = "%" /\ path[p + 2] = a /\ path[p + 3] = b
  BY <1>3 DEF Coded
<1>5. "%" \in Chars
  BY UrlAssumption DEF UrlAssumption, Chars
<1>6. PICK s, t, u : s = Append(text, "%") /\ t = Append(s, a) /\ u = Append(t, b)
  OBVIOUS
<1>7. s \in Seq(Chars) /\ t \in Seq(Chars) /\ u \in Seq(Chars)
  BY <1>3, <1>5, <1>6
<1>8. D[p + 1] = At0(s)
  <2>1. CharAt(path, p + 1) = char
    BY CodeIsRead
  <2>2. DecodeOne(path, At0(text), p + 1) = At0(Append(text, path[p + 1]))
    BY <2>1, CharacterCopied
  <2> QED BY <1>2, <1>4, <1>6, <2>2
<1>9. D[p + 2] = At0(t)
  <2>1. ~IsCode(path, p + 2)
    BY <1>3, <1>4 DEF IsCode
  <2>2. DecodeOne(path, At0(s), p + 2) = At0(Append(s, path[p + 2]))
    BY <2>1, CharacterCopied
  <2> QED BY <1>2, <1>4, <1>6, <1>8, <2>2
<1>10. D[p + 3] = At0(u)
  <2>1. ~IsCode(path, p + 3)
    BY <1>3, <1>4 DEF IsCode
  <2>2. DecodeOne(path, At0(t), p + 3) = At0(Append(t, path[p + 3]))
    BY <2>1, CharacterCopied
  <2> QED BY <1>2, <1>4, <1>6, <1>9, <2>2
<1>11. u = text \o <<"%", a, b>>
  <2>1. s = text \o <<"%">> /\ t = s \o <<a>> /\ u = t \o <<b>>
    BY <1>3, <1>5, <1>6, <1>7, Appended, ZenonT(60)
  <2>2. <<"%">> \in Seq(Chars) /\ <<a>> \in Seq(Chars) /\ <<b>> \in Seq(Chars) /\ <<a, b>> \in Seq(Chars)
    BY <1>3, <1>5, Tuples
  <2>3. <<a>> \o <<b>> = <<a, b>>
    <3>1. Append(<<a>>, b) = <<a>> \o <<b>>
      BY <1>3, <2>2, Appended
    <3>2. Append(<<a>>, b) = <<a, b>>
      <4>1. PICK v, w, x : v = <<a>> /\ w = Append(v, b) /\ x = <<a, b>>
        OBVIOUS
      <4>2. /\ v \in Seq(Chars) /\ Len(v) = 1 /\ v[1] = a
            /\ x \in Seq(Chars) /\ Len(x) = 2 /\ x[1] = a /\ x[2] = b
        BY <1>3, <4>1
      <4>3. w \in Seq(Chars) /\ Len(w) = 2 /\ w[1] = a /\ w[2] = b
        BY <1>3, <4>1, <4>2
      <4>4. \A j \in 1 .. 2 : w[j] = x[j]
        BY <4>2, <4>3
      <4>5. w = x
        BY <4>2, <4>3, <4>4, SeqEqual
      <4> QED BY <4>1, <4>5
    <3> QED BY <3>1, <3>2
  <2>4. t \o <<b>> = s \o (<<a>> \o <<b>>)
    BY <1>7, <2>1, <2>2, ConcatAssociative
  <2>5. s \o <<a, b>> = text \o (<<"%">> \o <<a, b>>)
    BY <1>7, <2>1, <2>2, ConcatAssociative
  <2>6. <<"%">> \o <<a, b>> = <<"%", a, b>>
    BY <1>3, <1>5, Tuples
  <2> QED BY <2>1, <2>3, <2>4, <2>5, <2>6
<1> QED BY <1>3, <1>10, <1>11

(***************************************************************************)
(* The whole name: what was encoded is decoded, except what cannot be in   *)
(* a file name.                                                            *)
(***************************************************************************)
Kept(name) == Where(name, {"/", "NUL"})

LEMMA DecodesWritten ==
  ASSUME NEW dir \in Seq(Chars), NEW name \in Seq(DOMAIN Code), NEW encoded,
         Where(name, {"%", "/", "NUL"}) \subseteq encoded,
         NEW path, path = dir \o Written(name, encoded)
  PROVE  /\ path \in Seq(Chars) /\ dir \o Written(name, Kept(name)) \in Seq(Chars)
         /\ Decode(path, Len(dir) + 1) = dir \o Written(name, Kept(name))
<1>1. PICK n \in Nat : n = Len(name)
  OBVIOUS
<1>2. PICK kept : kept = Kept(name)
  OBVIOUS
<1>3. \A i \in 1 .. n : /\ name[i] \in DOMAIN Code
                        /\ i \in kept <=> name[i] \in {"/", "NUL"}
                        /\ name[i] \in {"%", "/", "NUL"} => i \in encoded
  BY <1>1, <1>2 DEF Kept, Where
<1>4. PICK P, K : P = Pieces(name, encoded) /\ K = Pieces(name, kept)
  OBVIOUS
<1>5. /\ P \in Seq(Seq(Chars)) /\ Len(P) = n /\ Written(name, encoded) = FlattenSeq(P)
      /\ \A i \in 1 .. n : /\ i \in encoded => P[i] = <<"%", Code[name[i]][1], Code[name[i]][2]>>
                           /\ i \notin encoded => P[i] = <<name[i]>>
  BY <1>1, <1>4, PiecesAre
<1>6. /\ K \in Seq(Seq(Chars)) /\ Len(K) = n /\ Written(name, kept) = FlattenSeq(K)
      /\ \A i \in 1 .. n : /\ i \in kept => K[i] = <<"%", Code[name[i]][1], Code[name[i]][2]>>
                           /\ i \notin kept => K[i] = <<name[i]>>
  BY <1>1, <1>4, PiecesAre
<1>7. PICK F : Flattening(F, P, Chars) /\ FlattenSeq(P) = F[n]
  BY <1>5, Flattens
<1>8. PICK G : Flattening(G, K, Chars) /\ FlattenSeq(K) = G[n]
  BY <1>6, Flattens
<1>9. /\ F[0] = <<>> /\ \A k \in 0 .. n : F[k] \in Seq(Chars)
      /\ G[0] = <<>> /\ \A k \in 0 .. n : G[k] \in Seq(Chars)
      /\ \A k \in 0 .. n - 1 : G[k + 1] = G[k] \o K[k + 1]
  BY <1>5, <1>6, <1>7, <1>8 DEF Flattening
<1>10. PICK d \in Nat : d = Len(dir)
  OBVIOUS
<1>11. /\ path \in Seq(Chars) /\ Len(path) = d + Len(F[n]) /\ Len(path) \in Nat /\ Len(F[n]) \in Nat
       /\ \A j \in 1 .. d : path[j] = dir[j]
       /\ \A j \in 1 .. Len(F[n]) : path[d + j] = F[n][j]
  <2>1. n \in 0 .. n
    OBVIOUS
  <2>2. PICK w : w = F[n] /\ w \in Seq(Chars) /\ path = dir \o w
    BY <1>5, <1>7, <1>9, <2>1
  <2>3. /\ path \in Seq(Chars) /\ Len(path) = Len(dir) + Len(w) /\ Len(dir) \in Nat
        /\ Len(w) \in Nat /\ Len(path) \in Nat
        /\ \A j \in 1 .. Len(dir) : path[j] = dir[j]
        /\ \A j \in 1 .. Len(w) : path[Len(dir) + j] = w[j]
    BY ONLY dir \in Seq(Chars), <2>2, ConcatIs
  <2> QED BY <1>10, <2>2, <2>3
<1>12. \A k \in 1 .. n :
         /\ Len(F[k - 1]) \in Nat /\ Len(P[k]) \in Nat
         /\ Len(F[k]) = Len(F[k - 1]) + Len(P[k]) /\ Len(F[k]) <= Len(F[n])
         /\ \A j \in 1 .. Len(P[k]) : F[n][Len(F[k - 1]) + j] = P[k][j]
  <2>1. P \in Seq(Seq(Chars)) /\ Flattening(F, P, Chars) /\ n \in Nat /\ n = Len(P)
    BY <1>5, <1>7
  <2>2. Stand(F, P, n)
    BY ONLY <2>1, PiecesStand
  <2> QED BY <2>2 DEF Stand
<1>13. PICK D : D = Decoded(path, d + 1)
  OBVIOUS
<1>14. D[d] = DecodeStart(path, d + 1) /\ \A i \in d + 1 .. Len(path) : D[i] = DecodeOne(path, D[i - 1], i)
  <2>1. d + 1 \in Nat \ {0} /\ d + 1 - 1 = d /\ d <= Len(path)
    BY <1>11
  <2>2. PICK f : f = d + 1 /\ f \in Nat \ {0} /\ f - 1 = d /\ f - 1 <= Len(path)
    BY <2>1
  <2>3. /\ Decoded(path, f)[f - 1] = DecodeStart(path, f)
        /\ \A i \in f .. Len(path) : Decoded(path, f)[i] = DecodeOne(path, Decoded(path, f)[i - 1], i)
    BY ONLY <2>2, <1>11, DecodeSteps, SMTT(30)
  <2> QED BY <1>13, <2>2, <2>3
<1>15. D[d] = At0(dir)
  <2>1. \A j \in 1 .. d : path[j] \in Chars
    BY <1>10, <1>11
  <2>2. SubSeq(path, 1, d) = dir
    <3>1. PICK s : s = SubSeq(path, 1, d)
      OBVIOUS
    <3>2. s \in Seq(Chars) /\ Len(s) = d /\ \A j \in 1 .. d : s[j] = path[j]
      <4>1. /\ SubSeq(path, 1, d) \in Seq(Chars)
            /\ Len(SubSeq(path, 1, d)) = IF 1 <= d THEN d - 1 + 1 ELSE 0
            /\ \A j \in 1 .. d - 1 + 1 : SubSeq(path, 1, d)[j] = path[1 + j - 1]
        <5>1. 1 \in Int /\ d \in Int
          OBVIOUS
        <5> QED BY ONLY <5>1, <2>1, SubSeqProperties
      <4>2. ASSUME NEW j \in 1 .. d PROVE s[j] = path[j]
        <5>1. PICK i : i = 1 + j - 1 /\ i = j /\ j \in 1 .. d - 1 + 1
          OBVIOUS
        <5> QED BY <3>1, <4>1, <5>1
      <4>3. Len(s) = d
        BY <3>1, <4>1
      <4> QED BY <3>1, <4>1, <4>2, <4>3
    <3>3. s = dir
      BY <1>10, <1>11, <3>2, SeqEqual
    <3> QED BY <3>1, <3>3
  <2> QED BY <1>14, <2>2 DEF DecodeStart, At0
<1> DEFINE T == {k \in Nat : k \in 0 .. n => D[d + Len(F[k])] = At0(dir \o G[k])}
<1>16. 0 \in T
  <2>1. dir \o <<>> = dir
    BY ConcatEmptySeq
  <2>2. d + Len(F[0]) = d
    BY <1>9
  <2> QED BY <1>9, <1>15, <2>1, <2>2
<1>17. ASSUME NEW k \in Nat, k \in T PROVE k + 1 \in T
  <2> SUFFICES ASSUME k + 1 \in 0 .. n PROVE D[d + Len(F[k + 1])] = At0(dir \o G[k + 1])
    OBVIOUS
  <2>1. PICK m : m = k + 1 /\ m \in 1 .. n /\ m - 1 = k /\ k \in 0 .. n /\ k \in 0 .. n - 1
    OBVIOUS
  <2>2. PICK p \in Nat : p = d + Len(F[k]) /\ Len(F[k]) \in Nat
    <3>1. F[k] \in Seq(Chars)
      BY <1>9, <2>1
    <3>2. PICK x \in Nat : x = Len(F[k])
      BY <3>1
    <3> QED BY <3>2
  <2>3. D[p] = At0(dir \o G[k])
    BY <1>17, <2>1, <2>2
  <2>4. PICK text : text = dir \o G[k] /\ text \in Seq(Chars)
    <3>1. G[k] \in Seq(Chars)
      BY <1>9, <2>1
    <3>2. dir \o G[k] \in Seq(Chars)
      BY <3>1, ConcatProperties
    <3> QED BY <3>2
  <2>5. dir \o G[m] = text \o K[m]
    <3>1. G[m] = G[k] \o K[m]
      BY <1>9, <2>1
    <3>2. G[k] \in Seq(Chars) /\ K[m] \in Seq(Chars)
      BY <1>6, <1>9, <2>1, ElementOfSeq
    <3>3. PICK s, t : s = G[k] /\ t = K[m]
      OBVIOUS
    <3>4. (dir \o s) \o t = dir \o (s \o t)
      <4>1. dir \in Seq(Chars) /\ s \in Seq(Chars) /\ t \in Seq(Chars)
        BY <3>2, <3>3
      <4> QED BY ONLY <4>1, ConcatAssociative
    <3> QED BY <2>4, <3>1, <3>3, <3>4
  <2>6. PICK char \in DOMAIN Code : char = name[m]
    BY <1>3, <2>1
  <2>7. PICK piece : piece = P[m] /\ Len(piece) \in Nat /\ d + Len(F[m]) = p + Len(piece)
                     /\ p + Len(piece) <= Len(path)
    <3>1. PICK l \in Nat : l = Len(P[m])
      BY <1>12, <2>1
    <3>2. PICK x, y, z : x \in Nat /\ z \in Nat /\ x = Len(F[k]) /\ y = Len(F[m]) /\ z = Len(F[n])
      BY <1>11, <2>2
    <3>4. y = x + l /\ y <= z
      BY <1>12, <2>1, <3>1, <3>2
    <3>3. d + y = p + l /\ p + l <= Len(path)
      BY <1>11, <2>2, <3>2, <3>4, SMTT(30)
    <3> QED BY <3>1, <3>2, <3>3
  <2>8. \A j \in 1 .. Len(piece) : path[p + j] = piece[j]
    <3> TAKE j \in 1 .. Len(piece)
    <3>1. F[n][Len(F[k]) + j] = piece[j]
      BY <1>12, <2>1, <2>7
    <3>2. PICK q : q = Len(F[k]) + j /\ q \in 1 .. Len(F[n]) /\ d + q = p + j
      <4>1. PICK x \in Nat, l \in Nat, z \in Nat :
              x = Len(F[k]) /\ l = Len(piece) /\ z = Len(F[n])
        BY <1>11, <2>2, <2>7
      <4>2. p = d + x /\ p + l <= d + z
        BY <1>11, <2>2, <2>7, <4>1
      <4>3. j \in 1 .. l
        BY <4>1
      <4>4. x + j \in 1 .. z /\ d + (x + j) = p + j
        BY <4>2, <4>3
      <4> QED BY <4>1, <4>4
    <3> QED BY <1>11, <3>1, <3>2
  <2>9. Follows(D, path, p)
    <3>1. \A i \in p + 1 .. Len(path) : i \in d + 1 .. Len(path)
      <4>1. p >= d /\ Len(path) \in Nat
        BY <1>11, <2>2
      <4> QED BY ONLY <4>1, p \in Nat, d \in Nat
    <3> QED BY <1>14, <3>1 DEF Follows
  <2>14. /\ Len(path) \in Nat /\ Follows(D, path, p) /\ p \in Nat
         /\ text \in Seq(Chars) /\ D[p] = At0(text) /\ char \in DOMAIN Code
    BY <1>11, <2>3, <2>4, <2>9
  <2> HIDE DEF T
  <2>10. CASE m \notin encoded
    <3>1. piece = <<char>> /\ K[m] = <<char>> /\ char # "%"
      BY <1>3, <1>5, <1>6, <2>1, <2>6, <2>7, <2>10
    <3>2. Len(piece) = 1 /\ piece[1] = char /\ 1 \in 1 .. Len(piece)
      BY <3>1
    <3>3. path[p + 1] = char /\ p + 1 <= Len(path)
      BY <2>7, <2>8, <3>2
    <3>4. D[p + 1] = At0(text \o <<char>>)
      BY ONLY <2>14, <3>1, <3>3, PlainPiece
    <3> QED BY <2>1, <2>5, <2>7, <3>1, <3>2, <3>4
  <2>11. ASSUME m \in encoded
         PROVE  Coded(path, p, char) /\ Len(piece) = 3
    <3>1. PICK a, b : a = Code[char][1] /\ b = Code[char][2] /\ piece = <<"%", a, b>>
      BY <1>5, <2>1, <2>6, <2>7, <2>11
    <3>2. Len(piece) = 3 /\ piece[1] = "%" /\ piece[2] = a /\ piece[3] = b
          /\ {1, 2, 3} \subseteq 1 .. Len(piece)
      BY <3>1
    <3> QED BY <2>7, <2>8, <3>1, <3>2 DEF Coded
  <2>12. CASE m \in encoded /\ m \notin kept
    <3>1. K[m] = <<char>> /\ char \notin {"NUL", "/"}
      BY <1>3, <1>6, <2>1, <2>6, <2>12
    <3>2. D[p + 3] = At0(text \o <<char>>)
      <4>1. Coded(path, p, char)
        BY <2>11, <2>12
      <4>2. char \notin {"NUL", "/"}
        BY <3>1
      <4> QED BY ONLY <2>14, <4>1, <4>2, CodeDecoded
    <3> QED BY <2>1, <2>5, <2>7, <2>11, <2>12, <3>1, <3>2
  <2>13. CASE m \in kept
    <3>1. /\ K[m] = <<"%", Code[char][1], Code[char][2]>> /\ char \in {"NUL", "/"}
          /\ m \in encoded
      BY <1>3, <1>6, <2>1, <2>6, <2>13
    <3>2. D[p + 3] = At0(text \o <<"%", Code[char][1], Code[char][2]>>)
      <4>1. Coded(path, p, char)
        BY <2>11, <3>1
      <4>2. char \in {"NUL", "/"}
        BY <3>1
      <4> QED BY ONLY <2>14, <4>1, <4>2, CodeKept
    <3> QED BY <2>1, <2>5, <2>7, <2>11, <3>1, <3>2
  <2> QED BY <2>10, <2>12, <2>13
<1> HIDE DEF T
<1>18. D[Len(path)] = At0(dir \o G[n])
  <2>1. n \in T
    BY <1>16, <1>17, SetInduction
  <2>2. D[d + Len(F[n])] = At0(dir \o G[n])
    BY <2>1 DEF T
  <2> QED BY <1>11, <2>2
<1>19. dir \o G[n] \in Seq(Chars)
  <2>1. G[n] \in Seq(Chars)
    BY <1>9
  <2> QED BY <2>1, ConcatProperties
<1>20. Decode(path, d + 1) = dir \o G[n]
  BY <1>13, <1>18 DEF Decode, At0
<1> QED BY <1>2, <1>6, <1>8, <1>10, <1>11, <1>19, <1>20

(***************************************************************************)
(* The last component begins behind the directory: no slash is written in  *)
(* it.                                                                     *)
(***************************************************************************)
LEMMA NoSlashWritten ==
  ASSUME NEW name \in Seq(DOMAIN Code), NEW encoded,
         Where(name, {"%", "/", "NUL"}) \subseteq encoded
  PROVE  Written(name, encoded) \in Seq(Chars \ {"/"})
<1> DEFINE X == Chars \ {"/"}
<1>1. PICK n \in Nat : n = Len(name)
  OBVIOUS
<1>2. \A i \in 1 .. n : name[i] \in DOMAIN Code /\ (name[i] = "/" => i \in encoded)
  BY <1>1 DEF Where
<1>3. PICK P : P = Pieces(name, encoded)
  OBVIOUS
<1>4. /\ Len(P) = n /\ Written(name, encoded) = FlattenSeq(P) /\ P \in Seq(Seq(Chars))
      /\ \A i \in 1 .. n : /\ i \in encoded => P[i] = <<"%", Code[name[i]][1], Code[name[i]][2]>>
                           /\ i \notin encoded => P[i] = <<name[i]>>
  BY <1>1, <1>3, PiecesAre
<1>5. "%" \in X
  BY UrlAssumption DEF UrlAssumption, Chars
<1>6. \A char \in DOMAIN Code : Code[char][1] \in X /\ Code[char][2] \in X
  BY CodeIs DEF Chars
<1>7. \A char \in DOMAIN Code : char # "/" => char \in X
  BY DEF Chars
<1> HIDE DEF X
<1>8. ASSUME NEW i \in 1 .. n PROVE P[i] \in Seq(X)
  <2>1. PICK char \in DOMAIN Code : char = name[i]
    BY <1>2
  <2>2. CASE i \in encoded
    <3>1. PICK a, b : a = Code[char][1] /\ b = Code[char][2] /\ a \in X /\ b \in X
      BY <1>6
    <3>2. P[i] = <<"%", a, b>>
      BY <1>4, <2>1, <2>2, <3>1
    <3>3. <<"%", a, b>> \in Seq(X)
      BY <1>5, <3>1, Tuples
    <3> QED BY <3>2, <3>3
  <2>3. CASE i \notin encoded
    <3>1. P[i] = <<char>> /\ char \in X
      BY <1>2, <1>4, <1>7, <2>1, <2>3
    <3>2. <<char>> \in Seq(X)
      BY <3>1, Tuples
    <3> QED BY <3>1, <3>2
  <2> QED BY <2>2, <2>3
<1>9. P \in Seq(Seq(X))
  <2>1. P \in [1 .. n -> Seq(Chars)]
    BY <1>4, LenProperties
  <2>2. P \in [1 .. n -> Seq(X)]
    BY <1>8, <2>1
  <2> QED BY <2>2
<1>10. PICK F : Flattening(F, P, X) /\ FlattenSeq(P) = F[n]
  BY <1>4, <1>9, Flattens
<1>11. F[n] \in Seq(X)
  BY <1>4, <1>10 DEF Flattening
<1> QED BY <1>4, <1>10, <1>11 DEF X

LEMMA NewnameIsMeant ==
  ASSUME NEW dir \in UrlDirs, NEW name \in UrlNames, NEW encoded,
         Where(name, {"%", "/", "NUL"}) \subseteq encoded,
         NEW path, path = dir \o Written(name, encoded)
  PROVE  newname_of(path) = dir \o Written(name, Kept(name))
<1>1. name \in Seq(DOMAIN Code) /\ dir \in Seq(STRING) /\ (dir # <<>> => Last(dir) = "/")
  BY UrlAssumption DEF UrlAssumption
<1>2. dir \in Seq(Chars)
  <2>1. STRING \subseteq Chars
    BY DEF Chars
  <2> QED BY <1>1, <2>1, SeqMonotonic
<1>3. PICK d \in Nat : d = Len(dir)
  BY <1>1
<1>4. PICK w : w = Written(name, encoded) /\ w \in Seq(Chars \ {"/"})
  BY <1>1, NoSlashWritten
<1>5. w \in Seq(Chars) /\ path = dir \o w
  BY <1>4, SeqMonotonic
<1>6. /\ path \in Seq(Chars) /\ Len(path) = Len(dir) + Len(w)
      /\ Len(dir) \in Nat /\ Len(w) \in Nat /\ Len(path) \in Nat
      /\ \A j \in 1 .. Len(dir) : path[j] = dir[j]
      /\ \A j \in 1 .. Len(w) : path[Len(dir) + j] = w[j]
  BY ONLY <1>2, <1>5, ConcatIs
<1>7. \A j \in 1 .. Len(w) : w[j] # "/"
  BY <1>4, ElementOfSeq
<1> DEFINE S == {0} \cup {i \in 1 .. Len(path) : path[i] = "/"}
<1>8. d \in S
  <2>1. CASE dir = <<>>
    <3>1. d = 0
      BY <1>3, <2>1
    <3> QED BY <3>1
  <2>2. CASE dir # <<>>
    <3>1. d # 0 /\ dir[d] = "/"
      BY <1>1, <1>3, <2>2, EmptySeq DEF Last
    <3>2. d \in 1 .. d /\ d \in 1 .. Len(path)
      BY <1>3, <1>6, <3>1
    <3> QED BY <1>3, <1>6, <3>1, <3>2
  <2> QED BY <2>1, <2>2
<1>9. ASSUME NEW i \in S PROVE i \in Nat /\ i <= d
  <2>1. i \in Nat
    OBVIOUS
  <2>2. ASSUME i > d PROVE FALSE
    <3>1. i \in 1 .. Len(path) /\ path[i] = "/"
      BY <1>3, <2>2
    <3>2. PICK j : j = i - d /\ j \in 1 .. Len(w) /\ Len(dir) + j = i
      BY <1>3, <1>6, <2>2, <3>1
    <3>3. path[Len(dir) + j] = w[j] /\ w[j] # "/"
      BY <1>6, <1>7, <3>2
    <3> QED BY <3>1, <3>2, <3>3
  <2> QED BY <1>3, <2>1, <2>2
<1> HIDE DEF S
<1>10. Max(S) = d
  <2>1. \A x \in S : (\A y \in S : x >= y) => x = d
    BY <1>8, <1>9
  <2>2. \A y \in S : d >= y
    BY <1>9
  <2> QED BY <1>8, <2>1, <2>2 DEF Max
<1>11. newname_of(path) = Decode(path, 1 + d)
  BY <1>10 DEF newname_of, S
<1>12. Decode(path, Len(dir) + 1) = dir \o Written(name, Kept(name))
  BY ONLY <1>1, <1>2, path = dir \o Written(name, encoded),
          Where(name, {"%", "/", "NUL"}) \subseteq encoded, DecodesWritten
<1>13. 1 + d = Len(dir) + 1
  BY <1>3
<1> QED BY <1>11, <1>12, <1>13

LEMMA NewnameOfDownload ==
  ASSUME NEW download \in Downloads
  PROVE  newname_of(download.path) = download.meant
<1>1. PICK name \in UrlNames, dir \in UrlDirs :
        \E encoded \in SUBSET (1 .. Len(name)) : download = Download(dir, name, encoded)
  <2> DEFINE Of(name) == {Download(dir, name, encoded) :
                            dir \in UrlDirs, encoded \in SUBSET (1 .. Len(name))}
  <2>1. PICK name \in UrlNames : download \in Of(name)
    <3>1. Downloads = UNION {Of(name) : name \in UrlNames}
      BY DEF Downloads
    <3> HIDE DEF Of
    <3> QED BY <3>1
  <2>2. \E dir \in UrlDirs, encoded \in SUBSET (1 .. Len(name)) : download = Download(dir, name, encoded)
    BY <2>1
  <2> QED BY <2>2
<1>2. PICK encoded, all : /\ download = Download(dir, name, encoded)
                          /\ all = encoded \cup Where(name, {"%", "/", "NUL"})
  BY <1>1
<1>3. Where(name, {"%", "/", "NUL"}) \subseteq all
  BY <1>2
<1>4. PICK path : path = dir \o Written(name, all)
  OBVIOUS
<1>5. newname_of(path) = dir \o Written(name, Kept(name))
  BY ONLY dir \in UrlDirs, name \in UrlNames, <1>3, <1>4, NewnameIsMeant
<1> QED BY <1>2, <1>4, <1>5 DEF Download, Kept

(***************************************************************************)
(* Each file has the meant name once its turn is over, unless it failed.   *)
(***************************************************************************)
PathNow(i) == IF i < next /\ i \notin failed THEN downloads[i].meant ELSE downloads[i].path
EachAtItsPath ==
  \A i \in DOMAIN downloads : PathNow(i) \in DOMAIN contents /\ contents[PathNow(i)] = i
UrlInv ==
  /\ next \in Nat \ {0} /\ failed \subseteq 1 .. next - 1
  /\ Len(downloads) \in Nat /\ downloads \in [1 .. Len(downloads) -> Downloads]
  /\ \A i, k \in DOMAIN downloads : i # k => downloads[i].path # downloads[k].path
  /\ Apart => EachAtItsPath

LEMMA UrlInvInit == UrlInit => UrlInv
<1> SUFFICES ASSUME UrlInit PROVE UrlInv
  OBVIOUS
<1>1. next = 1 /\ failed = {}
  BY DEF UrlInit
<1>2. Len(downloads) \in Nat /\ downloads \in [1 .. Len(downloads) -> Downloads]
  <2>1. PICK n \in 1 .. MaxArgs : downloads \in [1 .. n -> Downloads]
    BY DEF UrlInit
  <2>2. n \in Nat
    OBVIOUS
  <2>3. Len(downloads) = n
    BY <2>1, <2>2
  <2> QED BY <2>1, <2>2, <2>3
<1>3. \A i, k \in DOMAIN downloads : i # k => downloads[i].path # downloads[k].path
  BY DEF UrlInit
<1>4. ASSUME NEW i \in DOMAIN downloads
      PROVE  PathNow(i) \in DOMAIN contents /\ contents[PathNow(i)] = i
  <2>1. PathNow(i) = downloads[i].path
    <3>1. i \in Nat /\ ~(i < 1)
      BY <1>2
    <3> QED BY <1>1, <3>1 DEF PathNow
  <2>2. PICK path : path = downloads[i].path
    OBVIOUS
  <2>3. path \in {downloads[k].path : k \in DOMAIN downloads}
    BY <2>2
  <2>4. path \in DOMAIN contents /\ contents[path] = CHOOSE k \in DOMAIN downloads : downloads[k].path = path
    BY <2>3, Zenon DEF UrlInit
  <2>5. \A k \in DOMAIN downloads : downloads[k].path = path => k = i
    BY <1>3, <2>2
  <2> QED BY <2>1, <2>2, <2>4, <2>5
<1>5. EachAtItsPath
  BY <1>4 DEF EachAtItsPath
<1> QED BY <1>1, <1>2, <1>3, <1>5 DEF UrlInv

LEMMA UrlInvStep == UrlInv /\ [rename_next]_urlVars => UrlInv'
<1> SUFFICES ASSUME UrlInv, [rename_next]_urlVars PROVE UrlInv'
  OBVIOUS
<1>1. CASE UNCHANGED urlVars
  BY <1>1 DEF urlVars, UrlInv, Apart, EachAtItsPath, PathNow
<1>2. CASE rename_next
  <2>1. /\ next \in Nat \ {0} /\ failed \subseteq 1 .. next - 1
        /\ Len(downloads) \in Nat /\ downloads \in [1 .. Len(downloads) -> Downloads]
        /\ \A i, k \in DOMAIN downloads : i # k => downloads[i].path # downloads[k].path
        /\ Apart => EachAtItsPath
    BY DEF UrlInv
  <2>2. downloads' = downloads /\ next' = next + 1 /\ next <= Len(downloads)
    BY <1>2 DEF rename_next
  <2>3. PICK n \in Nat : n = next /\ n \in DOMAIN downloads
    BY <2>1, <2>2
  <2>4. PICK name, new : name = downloads[n].path /\ new = downloads[n].meant
    OBVIOUS
  <2>5. newname_of(name) = new
    <3>1. PICK download : download = downloads[n] /\ download \in Downloads
      BY <2>1, <2>3
    <3>2. newname_of(download.path) = download.meant
      BY <3>1, NewnameOfDownload
    <3> QED BY <2>4, <3>1, <3>2
  <2>6. \/ name # new /\ name \in DOMAIN contents
           /\ contents' = rename(contents, name, new) /\ UNCHANGED failed
        \/ name # new /\ UNCHANGED contents /\ failed' = failed \cup {n}
        \/ name = new /\ UNCHANGED <<contents, failed>>
    BY <1>2, <2>3, <2>4, <2>5 DEF rename_next
  <2>7. next' \in Nat \ {0} /\ failed' \subseteq 1 .. next' - 1
    <3>1. failed' \subseteq failed \cup {n}
      BY <2>6
    <3>2. failed \cup {n} \subseteq 1 .. n
      BY <2>1, <2>3
    <3>3. next' - 1 = n /\ next' \in Nat \ {0}
      BY <2>2, <2>3
    <3> QED BY <3>1, <3>2, <3>3
  <2>8. Apart' => EachAtItsPath'
    <3> SUFFICES ASSUME Apart' PROVE EachAtItsPath'
      OBVIOUS
    <3>1. Apart /\ EachAtItsPath
      BY <2>1, <2>2 DEF Apart
    <3>2. \A i \in DOMAIN downloads : i # n =>
            /\ new \notin {downloads[i].path, downloads[i].meant}
            /\ downloads[i].meant # name
      BY <2>3, <2>4, <3>1 DEF Apart
    <3>3. \A i \in DOMAIN downloads : i # n => downloads[i].path # name
      BY <2>1, <2>3, <2>4
    <3>4. ASSUME NEW i \in DOMAIN downloads, i # n PROVE PathNow(i)' = PathNow(i)
      <4>1. i \in Nat /\ (i < next' <=> i < next)
        BY <2>1, <2>2, <2>3, <3>4
      <4>2. i \in failed' <=> i \in failed
        BY <2>6, <3>4
      <4> QED BY <2>2, <4>1, <4>2 DEF PathNow
    <3>5. \A i \in DOMAIN downloads : i # n => PathNow(i) # name /\ PathNow(i) # new
      BY <3>2, <3>3 DEF PathNow
    <3>6. n \notin failed /\ ~(n < next) /\ n < next'
      BY <2>1, <2>2, <2>3
    <3>7. name \in DOMAIN contents /\ contents[name] = n
      <4>1. PathNow(n) = name
        BY <2>4, <3>6 DEF PathNow
      <4> QED BY <2>3, <3>1, <4>1 DEF EachAtItsPath
    <3>8. \A i \in DOMAIN downloads : PathNow(i) \in DOMAIN contents /\ contents[PathNow(i)] = i
      BY <3>1 DEF EachAtItsPath
    <3>9. CASE name # new /\ contents' = rename(contents, name, new) /\ UNCHANGED failed
      <4>1. /\ DOMAIN contents' = (DOMAIN contents \ {name}) \cup {new}
            /\ contents'[new] = contents[name]
            /\ \A path \in DOMAIN contents \ {name} : path # new => contents'[path] = contents[path]
        BY <3>9 DEF rename
      <4>2. PathNow(n)' = new
        BY <2>2, <2>4, <3>6, <3>9 DEF PathNow
      <4>3. ASSUME NEW i \in DOMAIN downloads
            PROVE  PathNow(i)' \in DOMAIN contents' /\ contents'[PathNow(i)'] = i
        <5>1. CASE i = n
          BY <3>7, <4>1, <4>2, <5>1
        <5>2. CASE i # n
          <6>1. PICK path : path = PathNow(i) /\ path = PathNow(i)' /\ path # name /\ path # new
                            /\ path \in DOMAIN contents /\ contents[path] = i
            BY <3>4, <3>5, <3>8, <5>2
          <6> QED BY <4>1, <6>1
        <5> QED BY <5>1, <5>2
      <4> QED BY <2>2, <4>3 DEF EachAtItsPath
    <3>10. CASE contents' = contents /\ (name # new => n \in failed')
      <4>1. PathNow(n)' = name
        BY <2>2, <2>4, <3>10 DEF PathNow
      <4>2. ASSUME NEW i \in DOMAIN downloads
            PROVE  PathNow(i)' \in DOMAIN contents' /\ contents'[PathNow(i)'] = i
        <5>1. CASE i = n
          BY <3>7, <3>10, <4>1, <5>1
        <5>2. CASE i # n
          BY <3>4, <3>8, <3>10, <5>2
        <5> QED BY <5>1, <5>2
      <4> QED BY <2>2, <4>2 DEF EachAtItsPath
    <3> QED BY <2>6, <3>9, <3>10
  <2> QED BY <2>1, <2>2, <2>7, <2>8 DEF UrlInv
<1> QED BY <1>1, <1>2

\* At the end, each file whose name was decoded has the name that was meant, and
\* each one that could not be renamed its old one (deurlname.c:101 and 117): for
\* any names, codes, directories and failures.
THEOREM EachFileDecodedAlways == UrlSpec => []EachFileDecoded
<1>1. UrlInv => EachFileDecoded
  <2> SUFFICES ASSUME UrlInv, next > Len(downloads), Apart, NEW i \in DOMAIN downloads,
                      NEW path, path = IF i \in failed THEN downloads[i].path ELSE downloads[i].meant
               PROVE  path \in DOMAIN contents /\ contents[path] = i
    BY DEF EachFileDecoded
  <2>1. i < next
    BY DEF UrlInv
  <2>2. path = PathNow(i)
    BY <2>1 DEF PathNow
  <2> QED BY <2>2 DEF UrlInv, EachAtItsPath
<1> QED BY <1>1, UrlInvInit, UrlInvStep, PTL DEF UrlSpec

-----------------------------------------------------------------------------
(***************************************************************************)
(* FoldLeft over a sequence of n elements is a function of each set of     *)
(* positions, which takes the greatest of them last.  There is one.        *)
(***************************************************************************)
LEMMA GreatestIs ==
  ASSUME NEW n \in Nat, NEW s \in SUBSET (1 .. n), s # {}
  PROVE  Max(s) \in s /\ \A y \in s : Max(s) >= y
<1> DEFINE T == {m \in Nat : \A u \in SUBSET (1 .. m) :
                               u # {} => \E x \in u : \A y \in u : x >= y}
<1>1. 0 \in T
  <2>1. 1 .. 0 = {}
    OBVIOUS
  <2> QED BY <2>1
<1>2. ASSUME NEW m \in Nat, m \in T PROVE m + 1 \in T
  <2> SUFFICES ASSUME NEW u \in SUBSET (1 .. m + 1), u # {}
               PROVE  \E x \in u : \A y \in u : x >= y
    OBVIOUS
  <2>1. CASE m + 1 \in u
    BY <2>1
  <2>2. CASE m + 1 \notin u
    <3>1. u \in SUBSET (1 .. m)
      <4>1. \A i \in 1 .. m + 1 : i \in 1 .. m \/ i = m + 1
        OBVIOUS
      <4> QED BY <2>2, <4>1
    <3> QED BY <1>2, <3>1
  <2> QED BY <2>1, <2>2
<1> HIDE DEF T
<1>3. n \in T
  BY <1>1, <1>2, SetInduction
<1>4. \E x \in s : \A y \in s : x >= y
  BY <1>3 DEF T
<1> QED BY <1>4 DEF Max

LEMMA GreatestOf ==
  ASSUME NEW n \in Nat
  PROVE  Max(1 .. n + 1) = n + 1 /\ (1 .. n + 1) \ {n + 1} = 1 .. n
<1>1. \A x \in 1 .. n + 1 : (\A y \in 1 .. n + 1 : x >= y) => x = n + 1
  OBVIOUS
<1>2. n + 1 \in 1 .. n + 1 /\ \A y \in 1 .. n + 1 : n + 1 >= y
  OBVIOUS
<1> QED BY <1>1, <1>2 DEF Max

LEMMA InitialSegment ==
  ASSUME NEW n \in Nat, NEW k \in 1 .. n
  PROVE  /\ 1 .. k \in SUBSET (1 .. n) /\ 1 .. k # {}
         /\ Max(1 .. k) = k /\ (1 .. k) \ {k} = 1 .. k - 1
<1>1. k - 1 \in Nat /\ k - 1 + 1 = k
  OBVIOUS
<1>2. Max(1 .. k) = k /\ (1 .. k) \ {k} = 1 .. k - 1
  BY <1>1, GreatestOf
<1> QED BY <1>2

\* g is the fold over each subset of the positions 1 .. n.
FoldOf(g, f, base, seq, n) ==
  \A s \in SUBSET (1 .. n) :
    g[s] = IF s = {} THEN base ELSE f[<<g[s \ {Max(s)}], seq[Max(s)]>>]

HasFold(f, base, seq, n, S) ==
  \E g \in [SUBSET (1 .. n) -> S] : FoldOf(g, f, base, seq, n)

LEMMA FoldExists ==
  ASSUME NEW S, NEW X, NEW base \in S, NEW f \in [S \X X -> S],
         NEW n \in Nat, NEW seq \in [1 .. n -> X]
  PROVE  HasFold(f, base, seq, n, S)
<1> DEFINE T == {m \in Nat : m <= n => HasFold(f, base, seq, m, S)}
<1>1. 0 \in T
  <2> DEFINE g == [s \in SUBSET (1 .. 0) |-> base]
  <2>1. g \in [SUBSET (1 .. 0) -> S] /\ FoldOf(g, f, base, seq, 0)
    BY DEF FoldOf
  <2> HIDE DEF g
  <2> QED BY <2>1 DEF HasFold
<1>2. ASSUME NEW m \in Nat, m \in T PROVE m + 1 \in T
  <2> SUFFICES ASSUME m + 1 <= n PROVE HasFold(f, base, seq, m + 1, S)
    OBVIOUS
  <2>1. PICK p \in [SUBSET (1 .. m) -> S] : FoldOf(p, f, base, seq, m)
    <3>1. HasFold(f, base, seq, m, S)
      BY <1>2
    <3> QED BY <3>1 DEF HasFold
  <2> DEFINE g == [s \in SUBSET (1 .. m + 1) |->
                     IF m + 1 \in s THEN f[<<p[s \ {m + 1}], seq[m + 1]>>] ELSE p[s]]
  <2>2. \A s \in SUBSET (1 .. m + 1) :
          /\ s \ {m + 1} \in SUBSET (1 .. m)
          /\ m + 1 \notin s => s \in SUBSET (1 .. m)
    <3>1. \A i \in 1 .. m + 1 : i \in 1 .. m \/ i = m + 1
      OBVIOUS
    <3> QED BY <3>1
  <2>3. m + 1 \in 1 .. n /\ seq[m + 1] \in X
    OBVIOUS
  <2>4. \A s \in SUBSET (1 .. m + 1) :
          g[s] = IF m + 1 \in s THEN f[<<p[s \ {m + 1}], seq[m + 1]>>] ELSE p[s]
    OBVIOUS
  <2>5. g \in [SUBSET (1 .. m + 1) -> S]
    <3>1. ASSUME NEW s \in SUBSET (1 .. m + 1)
          PROVE (IF m + 1 \in s THEN f[<<p[s \ {m + 1}], seq[m + 1]>>] ELSE p[s]) \in S
      <4>1. p[s \ {m + 1}] \in S /\ (m + 1 \notin s => p[s] \in S)
        BY <2>2
      <4>2. <<p[s \ {m + 1}], seq[m + 1]>> \in S \X X
        BY <2>3, <4>1
      <4> QED BY <4>1, <4>2
    <3> QED BY <3>1
  <2> HIDE DEF g
  <2>6. \A s \in SUBSET (1 .. m) : s \in SUBSET (1 .. m + 1) /\ m + 1 \notin s /\ g[s] = p[s]
    <3>1. \A s \in SUBSET (1 .. m) : s \in SUBSET (1 .. m + 1) /\ m + 1 \notin s
      OBVIOUS
    <3> QED BY <2>4, <3>1
  <2>7. ASSUME NEW s \in SUBSET (1 .. m + 1)
        PROVE  g[s] = IF s = {} THEN base ELSE f[<<g[s \ {Max(s)}], seq[Max(s)]>>]
    <3>1. CASE m + 1 \in s
      <4>1. Max(s) = m + 1
        <5>1. \A x \in s : (\A y \in s : x >= y) => x = m + 1
          BY <3>1
        <5>2. \A y \in s : m + 1 >= y
          OBVIOUS
        <5> QED BY <3>1, <5>1, <5>2 DEF Max
      <4>2. g[s \ {m + 1}] = p[s \ {m + 1}]
        BY <2>2, <2>6
      <4> QED BY <2>4, <3>1, <4>1, <4>2
    <3>2. CASE m + 1 \notin s
      <4>1. s \in SUBSET (1 .. m) /\ g[s] = p[s]
        BY <2>2, <2>4, <3>2
      <4>2. p[s] = IF s = {} THEN base ELSE f[<<p[s \ {Max(s)}], seq[Max(s)]>>]
        BY <2>1, <4>1 DEF FoldOf
      <4>3. g[s \ {Max(s)}] = p[s \ {Max(s)}]
        BY <2>6, <4>1
      <4> QED BY <4>1, <4>2, <4>3
    <3> QED BY <3>1, <3>2
  <2> QED BY <2>5, <2>7 DEF FoldOf, HasFold
<1> HIDE DEF T
<1>3. n \in T
  BY <1>1, <1>2, SetInduction
<1> QED BY <1>3 DEF T

-----------------------------------------------------------------------------
(***************************************************************************)
(* dequote_output_file, character by character.                            *)
(***************************************************************************)
Characters == {"\\", "NL", "TAB", "CTRL", "EOL", " ", "n", "t", "0", "1", "?"}
              \cup UNION {Range(text) : text \in OldNames \cup TypedNames \cup {EarlierName} \cup Marks}
Texts == Seq(Characters)
DequoteStates == [name : Texts, escape : Texts, valid : BOOLEAN]
DequoteStart == [name |-> <<>>, escape |-> <<>>, valid |-> TRUE]

LEMMA AppendInSeq ==
  ASSUME NEW C, NEW t \in Seq(C), NEW c \in C
  PROVE  Append(t, c) \in Seq(C) /\ <<c>> \in Seq(C) /\ <<>> \in Seq(C)
OBVIOUS

LEMMA DequoteTyped ==
  ASSUME NEW s \in DequoteStates, NEW char \in Characters
  PROVE  DequoteChar(s, char) \in DequoteStates
<1>1. s.name \in Texts /\ s.escape \in Texts /\ s.valid \in BOOLEAN
  BY DEF DequoteStates
<1>2. \A t \in Texts, c \in Characters : Append(t, c) \in Texts
  BY AppendInSeq DEF Texts
<1>3. <<char>> \in Texts /\ <<>> \in Texts
  BY AppendInSeq DEF Texts
<1>4. \A name \in Texts, escape \in Texts, valid \in BOOLEAN :
        [[s EXCEPT !.name = name, !.escape = escape] EXCEPT !.valid = valid] \in DequoteStates
  BY DEF DequoteStates
<1>5. Append(s.name, char) \in Texts /\ Append(s.escape, char) \in Texts
  BY <1>1, <1>2
<1>6. (IF char \in DOMAIN Control THEN Control[char] ELSE char) \in Characters
  <2>1. DOMAIN Control = {"n", "t"} /\ Control["n"] = "NL" /\ Control["t"] = "TAB"
    BY DEF Control
  <2>2. "NL" \in Characters /\ "TAB" \in Characters
    BY DEF Characters
  <2>3. \A c \in DOMAIN Control : Control[c] \in Characters
    BY <2>1, <2>2, Zenon
  <2> QED BY <2>3, Zenon
<1>7. \A t : CharOf(t) \in Characters
  <2>1. "CTRL" \in Characters /\ "?" \in Characters
    BY DEF Characters
  <2> QED BY <2>1, Zenon DEF CharOf
<1>8. Append(s.name, IF char \in DOMAIN Control THEN Control[char] ELSE char) \in Texts
  BY <1>1, <1>2, <1>6
<1>9. Append(s.name, CharOf(Append(Tail(s.escape), char))) \in Texts
  BY <1>1, <1>2, <1>7
<1>11. [s EXCEPT !.escape = <<char>>] \in DequoteStates
  BY <1>3 DEF DequoteStates
<1>12. [s EXCEPT !.name = Append(@, char)] \in DequoteStates
  BY <1>5 DEF DequoteStates
<1>13. [s EXCEPT !.escape = Append(@, char)] \in DequoteStates
  BY <1>5 DEF DequoteStates
<1>14. [s EXCEPT !.escape = <<>>,
                 !.name = Append(@, IF char \in DOMAIN Control THEN Control[char] ELSE char)]
       \in DequoteStates
  BY <1>3, <1>8 DEF DequoteStates
<1>15. [s EXCEPT !.escape = <<>>, !.name = Append(@, CharOf(Append(Tail(s.escape), char)))]
       \in DequoteStates
  BY <1>3, <1>9 DEF DequoteStates
<1>16. [s EXCEPT !.escape = Append(@, char), !.valid = @ /\ char \in Octal] \in DequoteStates
  BY <1>5 DEF DequoteStates
<1> QED BY <1>11, <1>12, <1>13, <1>14, <1>15, <1>16 DEF DequoteChar

Dequoting(at, text, n) ==
  /\ at \in [0 .. n -> DequoteStates] /\ at[0] = DequoteStart
  /\ \A k \in 1 .. n : at[k] = DequoteChar(at[k - 1], text[k])

LEMMA DequoteRounds ==
  ASSUME NEW text \in Texts, NEW n \in Nat, n = Len(text)
  PROVE  \E at : /\ Dequoting(at, text, n)
                 /\ dequote_output_file(text) =
                      [name |-> at[n].name, valid |-> at[n].valid /\ at[n].escape = <<>>]
<1> DEFINE f == [p \in DequoteStates \X Characters |-> DequoteChar(p[1], p[2])]
           Steps(g) == [s \in SUBSET (DOMAIN text) |->
                          IF s = {} THEN DequoteStart
                          ELSE DequoteChar(g[s \ {Max(s)}], text[Max(s)])]
           it == CHOOSE g : g = Steps(g)
<1>1. DOMAIN text = 1 .. n /\ text \in [1 .. n -> Characters]
  BY DEF Texts
<1>2. FoldLeft(DequoteChar, DequoteStart, text) = it[DOMAIN text]
  BY DEF FoldLeft, MapThenFoldSet
<1>3. DequoteStart \in DequoteStates
  BY DEF DequoteStart, DequoteStates, Texts
<1>4. \A s \in DequoteStates, c \in Characters :
        DequoteChar(s, c) \in DequoteStates /\ f[<<s, c>>] = DequoteChar(s, c)
  BY DequoteTyped
<1>5. f \in [DequoteStates \X Characters -> DequoteStates]
  BY <1>4
<1> HIDE DEF f
<1>6. ASSUME NEW g \in [SUBSET (1 .. n) -> DequoteStates],
             NEW s \in SUBSET (1 .. n), s # {}
      PROVE  f[<<g[s \ {Max(s)}], text[Max(s)]>>] = DequoteChar(g[s \ {Max(s)}], text[Max(s)])
  <2>1. Max(s) \in 1 .. n
    BY <1>6, GreatestIs
  <2>2. g[s \ {Max(s)}] \in DequoteStates /\ text[Max(s)] \in Characters
    BY <1>1, <2>1
  <2> QED BY <1>4, <2>2
<1>7. PICK g \in [SUBSET (1 .. n) -> DequoteStates] : FoldOf(g, f, DequoteStart, text, n)
  BY <1>1, <1>3, <1>5, FoldExists DEF HasFold
<1>8. g = Steps(g)
  BY <1>1, <1>6, <1>7 DEF FoldOf
<1>9. it = Steps(it)
  BY <1>8
<1> HIDE DEF it
<1>10. \A s \in SUBSET (1 .. n) :
         it[s] = IF s = {} THEN DequoteStart ELSE DequoteChar(it[s \ {Max(s)}], text[Max(s)])
  BY <1>1, <1>9
<1>11. it[1 .. 0] = DequoteStart
  <2>1. 1 .. 0 = {} /\ {} \in SUBSET (1 .. n)
    OBVIOUS
  <2> QED BY <1>10, <2>1
<1>12. ASSUME NEW k \in 1 .. n
       PROVE  it[1 .. k] = DequoteChar(it[1 .. k - 1], text[k])
  BY <1>10, InitialSegment
<1> DEFINE at == [k \in 0 .. n |-> it[1 .. k]]
           T == {k \in Nat : k <= n => it[1 .. k] \in DequoteStates}
<1>13. 0 \in T
  BY <1>3, <1>11
<1>14. ASSUME NEW k \in Nat, k \in T PROVE k + 1 \in T
  <2> SUFFICES ASSUME k + 1 <= n PROVE it[1 .. k + 1] \in DequoteStates
    OBVIOUS
  <2>1. k + 1 \in 1 .. n /\ k + 1 - 1 = k /\ it[1 .. k] \in DequoteStates
    BY <1>14
  <2>2. it[1 .. k + 1] = DequoteChar(it[1 .. k], text[k + 1])
    BY <1>12, <2>1
  <2> QED BY <1>1, <1>4, <2>1, <2>2
<1> HIDE DEF T
<1>15. \A k \in 0 .. n : it[1 .. k] \in DequoteStates
  <2>1. \A k \in Nat : k \in T
    BY <1>13, <1>14, SetInduction
  <2> QED BY <2>1 DEF T
<1>16. Dequoting(at, text, n) /\ at[n] = it[1 .. n]
  <2>1. at \in [0 .. n -> DequoteStates] /\ at[0] = DequoteStart /\ at[n] = it[1 .. n]
    BY <1>11, <1>15
  <2>2. ASSUME NEW k \in 1 .. n PROVE at[k] = DequoteChar(at[k - 1], text[k])
    <3>1. k \in 0 .. n /\ k - 1 \in 0 .. n
      OBVIOUS
    <3> QED BY <1>12, <3>1
  <2> QED BY <2>1, <2>2 DEF Dequoting
<1>17. dequote_output_file(text) =
         [name |-> at[n].name, valid |-> at[n].valid /\ at[n].escape = <<>>]
  BY <1>1, <1>2, <1>16 DEF dequote_output_file, DequoteStart
<1> QED BY <1>16, <1>17

-----------------------------------------------------------------------------
(***************************************************************************)
(* What quote_output_file writes for a character is read as the character. *)
(***************************************************************************)
State(name, escape, valid) == [name |-> name, escape |-> escape, valid |-> valid]
Within(name, escape) == State(name, escape, TRUE)
Read(name) == Within(name, <<>>)

LEMMA ControlIs ==
  /\ DOMAIN Control = {"n", "t"} /\ Control["n"] = "NL" /\ Control["t"] = "TAB"
  /\ (CHOOSE c \in DOMAIN Control : Control[c] = "NL") = "n"
  /\ (CHOOSE c \in DOMAIN Control : Control[c] = "TAB") = "t"
<1>1. DOMAIN Control = {"n", "t"} /\ Control["n"] = "NL" /\ Control["t"] = "TAB"
  BY DEF Control
<1>2. \A c \in DOMAIN Control : (Control[c] = "NL" => c = "n") /\ (Control[c] = "TAB" => c = "t")
  BY <1>1
<1> QED BY <1>1, <1>2

LEMMA EscapeIs ==
  ASSUME NEW c \in Characters
  PROVE  /\ c = "\\" => Escape(c) = <<"\\", "\\">>
         /\ c = "NL" => Escape(c) = <<"\\", "n">>
         /\ c = "TAB" => Escape(c) = <<"\\", "t">>
         /\ c = "CTRL" => Escape(c) = <<"\\", "0", "0", "1">>
         /\ c \notin {"\\", "NL", "TAB", "CTRL"} => Escape(c) = <<c>>
<1>1. CASE c = "\\"
  BY <1>1 DEF Escape
<1>2. CASE c = "NL"
  BY <1>2, ControlIs DEF Escape
<1>3. CASE c = "TAB"
  BY <1>3, ControlIs DEF Escape
<1>4. CASE c = "CTRL"
  BY <1>4 DEF Escape
<1>5. CASE c \notin {"\\", "NL", "TAB", "CTRL"}
  BY <1>5 DEF Escape
<1> QED BY <1>1, <1>2, <1>3, <1>4, <1>5

LEMMA EscapeTyped ==
  ASSUME NEW c \in Characters
  PROVE  Escape(c) \in Texts
<1>1. {"\\", "NL", "TAB", "CTRL", "n", "t", "0", "1"} \subseteq Characters
  BY DEF Characters
<1>2. \A C : \A x, y, z, v \in C : /\ <<x>> \in Seq(C) /\ <<x, y>> \in Seq(C)
                                  /\ <<x, y, z, v>> \in Seq(C)
  OBVIOUS
<1>3. <<c>> \in Texts /\ <<"\\", "\\">> \in Texts /\ <<"\\", "n">> \in Texts
      /\ <<"\\", "t">> \in Texts /\ <<"\\", "0", "0", "1">> \in Texts
  BY <1>1, <1>2 DEF Texts
<1> QED BY <1>3, EscapeIs

LEMMA Longer ==
  ASSUME NEW x \in Characters, NEW y \in Characters, NEW z \in Characters
  PROVE  Append(<<x>>, y) = <<x, y>> /\ Append(<<x, y>>, z) = <<x, y, z>>
<1>1. Append(<<x>>, y) = <<x, y>>
  <2>1. PICK s, t, u : s = <<x>> /\ t = Append(s, y) /\ u = <<x, y>>
    OBVIOUS
  <2>2. s \in Seq(Characters) /\ u \in Seq(Characters) /\ Len(s) = 1 /\ Len(u) = 2 /\ u[1] = x /\ u[2] = y /\ s[1] = x
    BY <2>1
  <2>3. t \in Seq(Characters) /\ Len(t) = 2 /\ t[1] = x /\ t[2] = y
    BY <2>1, <2>2
  <2>4. \A i \in 1 .. 2 : t[i] = u[i]
    BY <2>2, <2>3
  <2> QED BY <2>1, <2>2, <2>3, <2>4, SeqEqual
<1>2. Append(<<x, y>>, z) = <<x, y, z>>
  <2>1. PICK s, t, u : s = <<x, y>> /\ t = Append(s, z) /\ u = <<x, y, z>>
    OBVIOUS
  <2>2. /\ s \in Seq(Characters) /\ u \in Seq(Characters) /\ Len(s) = 2 /\ Len(u) = 3
        /\ u[1] = x /\ u[2] = y /\ u[3] = z /\ s[1] = x /\ s[2] = y
    BY <2>1
  <2>3. t \in Seq(Characters) /\ Len(t) = 3 /\ t[1] = x /\ t[2] = y /\ t[3] = z
    BY <2>1, <2>2
  <2>4. \A i \in 1 .. 3 : t[i] = u[i]
    BY <2>2, <2>3
  <2> QED BY <2>1, <2>2, <2>3, <2>4, SeqEqual
<1> QED BY <1>1, <1>2

LEMMA LongerTail ==
  ASSUME NEW x \in Characters, NEW y \in Characters, NEW z \in Characters, NEW v \in Characters
  PROVE  Append(Tail(<<x, y, z>>), v) = <<y, z, v>>
<1>1. PICK s, r, t, u : s = <<x, y, z>> /\ r = Tail(s) /\ t = Append(r, v) /\ u = <<y, z, v>>
  OBVIOUS
<1>2. /\ s \in Seq(Characters) /\ u \in Seq(Characters) /\ Len(s) = 3 /\ Len(u) = 3
      /\ u[1] = y /\ u[2] = z /\ u[3] = v /\ s[2] = y /\ s[3] = z
  BY <1>1
<1>3. r \in Seq(Characters) /\ Len(r) = 2 /\ r[1] = y /\ r[2] = z
  BY <1>1, <1>2
<1>4. t \in Seq(Characters) /\ Len(t) = 3 /\ t[1] = y /\ t[2] = z /\ t[3] = v
  BY <1>1, <1>3
<1>5. \A i \in 1 .. 3 : t[i] = u[i]
  BY <1>2, <1>4
<1> QED BY <1>1, <1>2, <1>4, <1>5, SeqEqual

\* The branches of DequoteChar.
LEMMA DequoteCases ==
  ASSUME NEW s, NEW char
  PROVE  /\ s.escape = <<>> /\ char = "\\" => DequoteChar(s, char) = [s EXCEPT !.escape = <<char>>]
         /\ s.escape = <<>> /\ char # "\\" =>
              DequoteChar(s, char) = [s EXCEPT !.name = Append(@, char)]
         /\ s.escape # <<>> /\ Len(s.escape) = 1 /\ char \in Octal =>
              DequoteChar(s, char) = [s EXCEPT !.escape = Append(@, char)]
         /\ s.escape # <<>> /\ Len(s.escape) = 1 /\ char \notin Octal =>
              DequoteChar(s, char) =
                [s EXCEPT !.escape = <<>>,
                          !.name = Append(@, IF char \in DOMAIN Control THEN Control[char] ELSE char)]
         /\ s.escape # <<>> /\ Len(s.escape) = 3 /\ char \in Octal =>
              DequoteChar(s, char) =
                [s EXCEPT !.escape = <<>>, !.name = Append(@, CharOf(Append(Tail(s.escape), char)))]
         /\ s.escape # <<>> /\ Len(s.escape) = 2 =>
              DequoteChar(s, char) =
                [s EXCEPT !.escape = Append(@, char), !.valid = @ /\ char \in Octal]
<1>1. Len(<<>>) = 0
  OBVIOUS
<1>2. CASE s.escape = <<>>
  <2>1. Len(s.escape) # 1 /\ Len(s.escape) # 3
    BY <1>1, <1>2
  <2> HIDE <1>1
  <2>2. CASE char = "\\"
    BY <1>2, <2>1, <2>2 DEF DequoteChar
  <2>3. CASE char # "\\"
    BY <1>2, <2>1, <2>3 DEF DequoteChar
  <2> QED BY <1>2, <2>2, <2>3
<1>3. CASE s.escape # <<>> /\ Len(s.escape) = 1
  BY <1>3 DEF DequoteChar
<1>4. CASE s.escape # <<>> /\ Len(s.escape) = 2
  BY <1>4 DEF DequoteChar
<1>5. CASE s.escape # <<>> /\ Len(s.escape) = 3
  BY <1>5 DEF DequoteChar
<1> QED BY <1>2, <1>3, <1>4, <1>5

LEMMA Fields ==
  ASSUME NEW name, NEW escape, NEW valid
  PROVE  /\ State(name, escape, valid).name = name /\ State(name, escape, valid).escape = escape
         /\ State(name, escape, valid).valid = valid
BY DEF State

LEMMA NewEscape ==
  ASSUME NEW name, NEW escape, NEW valid, NEW e
  PROVE  [State(name, escape, valid) EXCEPT !.escape = e] = State(name, e, valid)
BY DEF State

LEMMA NewName ==
  ASSUME NEW name, NEW escape, NEW valid, NEW m
  PROVE  [State(name, escape, valid) EXCEPT !.name = m] = State(m, escape, valid)
BY DEF State

LEMMA PlainRead ==
  ASSUME NEW name \in Texts, NEW c \in Characters, c # "\\"
  PROVE  DequoteChar(Read(name), c) = Read(Append(name, c))
<1>0. PICK yes, none, m : yes = TRUE /\ none = <<>> /\ m = Append(name, c)
  OBVIOUS
<1>1. PICK s : s = State(name, none, yes)
  OBVIOUS
<1>2. s.escape = none /\ s.name = name
  BY <1>1, Fields
<1>3. DequoteChar(s, c) = [s EXCEPT !.name = Append(@, c)]
  <2>1. s.escape = <<>>
    BY <1>0, <1>2
  <2> QED BY ONLY <2>1, c # "\\", DequoteCases, Zenon
<1>4. [s EXCEPT !.name = m] = State(m, none, yes)
  BY ONLY <1>1, NewName
<1>5. [s EXCEPT !.name = Append(@, c)] = [s EXCEPT !.name = m]
  BY <1>0, <1>2
<1> QED BY <1>0, <1>1, <1>3, <1>4, <1>5 DEF Read, Within

LEMMA BackslashRead ==
  ASSUME NEW name \in Texts
  PROVE  DequoteChar(Read(name), "\\") = Within(name, <<"\\">>)
<1>0. PICK yes : yes = TRUE
  OBVIOUS
<1>1. PICK s : s = State(name, <<>>, yes)
  OBVIOUS
<1>2. s.escape = <<>>
  BY <1>1, Fields
<1>3. DequoteChar(s, "\\") = [s EXCEPT !.escape = <<"\\">>]
  BY <1>2, DequoteCases
<1>4. [s EXCEPT !.escape = <<"\\">>] = State(name, <<"\\">>, yes)
  BY <1>1, NewEscape
<1> QED BY <1>0, <1>1, <1>3, <1>4 DEF Read, Within

LEMMA LetterRead ==
  ASSUME NEW name \in Texts, NEW c \in Characters, c \notin Octal
  PROVE  DequoteChar(Within(name, <<"\\">>), c)
         = Read(Append(name, IF c \in DOMAIN Control THEN Control[c] ELSE c))
<1>0. PICK yes, none, b : yes = TRUE /\ none = <<>> /\ b = "\\"
  OBVIOUS
<1>1. PICK s : s = State(name, <<b>>, yes)
  OBVIOUS
<1>2. s.escape = <<b>> /\ s.name = name
  BY <1>1, Fields
<1>3. Len(<<b>>) = 1 /\ <<b>> # <<>>
  OBVIOUS
<1>4. PICK m : m = Append(name, IF c \in DOMAIN Control THEN Control[c] ELSE c)
  OBVIOUS
<1>5. DequoteChar(s, c) = [s EXCEPT !.escape = none, !.name = m]
  BY <1>0, <1>2, <1>3, <1>4, DequoteCases
<1>6. [s EXCEPT !.escape = none, !.name = m] = State(m, none, yes)
  <2>1. PICK t : t = [s EXCEPT !.escape = none]
    OBVIOUS
  <2>2. t = State(name, none, yes)
    BY ONLY <1>1, <2>1, NewEscape
  <2>3. [t EXCEPT !.name = m] = State(m, none, yes)
    BY ONLY <2>2 DEF State
  <2> QED BY <2>1, <2>3
<1> QED BY <1>0, <1>1, <1>4, <1>5, <1>6 DEF Read, Within

LEMMA DigitsRead ==
  ASSUME NEW name \in Texts
  PROVE  /\ DequoteChar(Within(name, <<"\\">>), "0") = Within(name, <<"\\", "0">>)
         /\ DequoteChar(Within(name, <<"\\", "0">>), "0") = Within(name, <<"\\", "0", "0">>)
         /\ DequoteChar(Within(name, <<"\\", "0", "0">>), "1") = Read(Append(name, "CTRL"))
<1>1. PICK b, o, i, yes, none : b = "\\" /\ o = "0" /\ i = "1" /\ yes = TRUE /\ none = <<>>
  OBVIOUS
<1>2. o \in Octal /\ i \in Octal /\ b \in Characters /\ o \in Characters /\ i \in Characters
  BY <1>1 DEF Octal, Characters
<1>3. DequoteChar(State(name, <<b>>, yes), o) = State(name, <<b, o>>, yes)
  <2>1. PICK s : s = State(name, <<b>>, yes)
    OBVIOUS
  <2>2. s.escape = <<b>>
    BY <2>1, Fields
  <2>3. Len(<<b>>) = 1 /\ <<b>> # <<>>
    OBVIOUS
  <2>4. DequoteChar(s, o) = [s EXCEPT !.escape = Append(<<b>>, o)]
    BY <1>2, <2>2, <2>3, DequoteCases
  <2>5. Append(<<b>>, o) = <<b, o>>
    BY <1>2, Longer
  <2>6. [s EXCEPT !.escape = <<b, o>>] = State(name, <<b, o>>, yes)
    BY <2>1, NewEscape
  <2> QED BY <2>1, <2>4, <2>5, <2>6
<1>4. DequoteChar(State(name, <<b, o>>, yes), o) = State(name, <<b, o, o>>, yes)
  <2>1. PICK s : s = State(name, <<b, o>>, yes)
    OBVIOUS
  <2>2. s.escape = <<b, o>> /\ s.valid = yes
    BY <2>1, Fields
  <2>3. Len(<<b, o>>) = 2 /\ <<b, o>> # <<>>
    OBVIOUS
  <2>4. DequoteChar(s, o) = [s EXCEPT !.escape = Append(@, o), !.valid = @ /\ o \in Octal]
    BY <2>2, <2>3, DequoteCases
  <2>5. (s.valid /\ o \in Octal) = yes
    BY <1>1, <1>2, <2>2
  <2>6. DequoteChar(s, o) = [s EXCEPT !.escape = Append(<<b, o>>, o), !.valid = yes]
    BY <2>2, <2>4, <2>5, Zenon
  <2>7. Append(<<b, o>>, o) = <<b, o, o>>
    BY <1>2, Longer
  <2>8. PICK e : e = <<b, o, o>>
    OBVIOUS
  <2>9. [s EXCEPT !.escape = e, !.valid = yes] = State(name, e, yes)
    <3>1. PICK t : t = [s EXCEPT !.escape = e]
      OBVIOUS
    <3>2. t = State(name, e, yes)
      BY ONLY <2>1, <3>1, NewEscape
    <3>3. [t EXCEPT !.valid = yes] = State(name, e, yes)
      BY ONLY <3>2 DEF State
    <3> QED BY <3>1, <3>3
  <2> QED BY <2>1, <2>6, <2>7, <2>8, <2>9
<1>5. DequoteChar(State(name, <<b, o, o>>, yes), i) = State(Append(name, "CTRL"), <<>>, yes)
  <2>1. PICK s : s = State(name, <<b, o, o>>, yes)
    OBVIOUS
  <2>2. s.escape = <<b, o, o>> /\ s.name = name
    BY <2>1, Fields
  <2>3. Len(<<b, o, o>>) = 3 /\ <<b, o, o>> # <<>>
    OBVIOUS
  <2>4. PICK m : m = Append(name, CharOf(Append(Tail(<<b, o, o>>), i)))
    OBVIOUS
  <2>5. DequoteChar(s, i) = [s EXCEPT !.escape = none, !.name = m]
    <3>1. s.escape # <<>> /\ Len(s.escape) = 3
      BY <2>2, <2>3
    <3>2. DequoteChar(s, i) =
            [s EXCEPT !.escape = <<>>, !.name = Append(@, CharOf(Append(Tail(s.escape), i)))]
      BY <1>2, <3>1, DequoteCases
    <3>3. m = Append(s.name, CharOf(Append(Tail(s.escape), i)))
      BY <2>2, <2>4
    <3> QED BY <1>1, <3>2, <3>3
  <2>6. Append(Tail(<<b, o, o>>), i) = <<o, o, i>>
    BY ONLY <1>2, LongerTail
  <2>7. CharOf(<<o, o, i>>) = "CTRL"
    BY <1>1 DEF CharOf
  <2>8. [s EXCEPT !.escape = none, !.name = m] = State(m, none, yes)
    <3>1. PICK t : t = [s EXCEPT !.escape = none]
      OBVIOUS
    <3>2. t = State(name, none, yes)
      BY ONLY <2>1, <3>1, NewEscape
    <3>3. [t EXCEPT !.name = m] = State(m, none, yes)
      BY ONLY <3>2 DEF State
    <3> QED BY <3>1, <3>3
  <2> QED BY <1>1, <2>1, <2>4, <2>5, <2>6, <2>7, <2>8
<1> QED BY <1>1, <1>3, <1>4, <1>5 DEF Within, Read

\* The states at from, from + 1 ... while what stands for c is read.
LEMMA CharacterRead ==
  ASSUME NEW name \in Texts, NEW c \in Characters, NEW at, NEW from \in Nat,
         at[from] = Read(name),
         \A j \in 1 .. Len(Escape(c)) :
           at[from + j] = DequoteChar(at[from + j - 1], Escape(c)[j])
  PROVE  at[from + Len(Escape(c))] = Read(Append(name, c))
<1>1. \A j \in Nat : from + (j + 1) - 1 = from + j
  OBVIOUS
<1>2. \A j \in Nat : j + 1 \in 1 .. Len(Escape(c)) =>
        at[from + (j + 1)] = DequoteChar(at[from + j], Escape(c)[j + 1])
  BY <1>1
<1>3. 1 \in 1 .. Len(Escape(c)) => at[from + 1] = DequoteChar(Read(name), Escape(c)[1])
  <2>1. from + 0 = from /\ 0 + 1 = 1
    OBVIOUS
  <2> QED BY <1>2, <2>1
<1>4. 2 \in 1 .. Len(Escape(c)) => at[from + 2] = DequoteChar(at[from + 1], Escape(c)[2])
  <2>1. 1 + 1 = 2
    OBVIOUS
  <2> QED BY <1>2, <2>1
<1>5. CASE c \notin {"\\", "NL", "TAB", "CTRL"}
  <2>1. Escape(c) = <<c>>
    BY <1>5, EscapeIs
  <2>2. Len(Escape(c)) = 1 /\ Escape(c)[1] = c
    BY <2>1
  <2> QED BY <1>3, <1>5, <2>2, PlainRead
<1>6. CASE c \in {"\\", "NL", "TAB"}
  <2>1. PICK d \in Characters : /\ Escape(c) = <<"\\", d>> /\ d \notin Octal
                             /\ (IF d \in DOMAIN Control THEN Control[d] ELSE d) = c
    <3>1. {"\\", "n", "t"} \subseteq Characters /\ {"\\", "n", "t"} \cap Octal = {}
      BY DEF Characters, Octal
    <3> QED BY <1>6, <3>1, EscapeIs, ControlIs
  <2>2. Len(Escape(c)) = 2 /\ Escape(c)[1] = "\\" /\ Escape(c)[2] = d
    BY <2>1
  <2>3. at[from + 1] = Within(name, <<"\\">>)
    BY <1>3, <2>2, BackslashRead
  <2>4. at[from + 2] = Read(Append(name, c))
    BY <1>4, <2>1, <2>2, <2>3, LetterRead
  <2> QED BY <2>2, <2>4
<1>7. CASE c = "CTRL"
  <2>1. Escape(c) = <<"\\", "0", "0", "1">>
    BY <1>7, EscapeIs
  <2>2. /\ Len(Escape(c)) = 4 /\ Escape(c)[1] = "\\" /\ Escape(c)[2] = "0"
        /\ Escape(c)[3] = "0" /\ Escape(c)[4] = "1"
    BY <2>1
  <2>3. at[from + 1] = Within(name, <<"\\">>)
    BY <1>3, <2>2, BackslashRead
  <2>4. at[from + 2] = Within(name, <<"\\", "0">>)
    BY <1>4, <2>2, <2>3, DigitsRead
  <2>5. at[from + 3] = Within(name, <<"\\", "0", "0">>)
    <3>1. at[from + 3] = DequoteChar(at[from + 2], Escape(c)[3])
      <4>1. 2 + 1 = 3 /\ 3 \in 1 .. Len(Escape(c))
        BY <2>2
      <4> QED BY <1>2, <4>1
    <3> QED BY <2>2, <2>4, <3>1, DigitsRead
  <2>6. at[from + 4] = Read(Append(name, c))
    <3>1. at[from + 4] = DequoteChar(at[from + 3], Escape(c)[4])
      <4>1. 3 + 1 = 4 /\ 4 \in 1 .. Len(Escape(c))
        BY <2>2
      <4> QED BY <1>2, <4>1
    <3> QED BY <1>7, <2>2, <2>5, <3>1, DigitsRead
  <2> QED BY <2>2, <2>6
<1> QED BY <1>5, <1>6, <1>7

-----------------------------------------------------------------------------
(***************************************************************************)
(* Every name is read back as it was, whatever characters are in it.       *)
(***************************************************************************)
LEMMA OneLonger ==
  ASSUME NEW X, NEW s \in Seq(X), NEW k \in Nat, k + 1 <= Len(s)
  PROVE  /\ SubSeq(s, 1, k) \in Seq(X)
         /\ SubSeq(s, 1, k + 1) = Append(SubSeq(s, 1, k), s[k + 1])
<1>1. Len(s) \in Nat /\ k + 1 \in 1 .. Len(s) /\ 1 \in 1 .. Len(s)
  OBVIOUS
<1>2. SubSeq(s, 1, k) \in Seq(X)
  <2>1. \A i \in 1 .. k : i \in 1 .. Len(s)
    BY <1>1
  <2>2. \A i \in 1 .. k : s[i] \in X
    BY <2>1, ElementOfSeq
  <2> QED BY <2>2, SubSeqProperties
<1>3. SubSeq(s, 1, k + 1) = SubSeq(s, 1, k) \o <<s[k + 1]>>
  <2>1. k + 1 \in 1 .. Len(s) /\ k + 1 - 1 = k
    BY <1>1
  <2> QED BY <1>1, <2>1, SubSeqRecursiveSecond
<1>4. s[k + 1] \in X
  BY <1>1, ElementOfSeq
<1> QED BY <1>2, <1>3, <1>4, AppendIsConcat

Escapes(name) == [i \in 1 .. Len(name) |-> Escape(name[i])]

LEMMA EscapesAre ==
  ASSUME NEW name \in Texts
  PROVE  /\ Escapes(name) \in Seq(Texts) /\ Len(Escapes(name)) = Len(name)
         /\ \A i \in 1 .. Len(name) : Escapes(name)[i] = Escape(name[i])
         /\ quote_output_file(name) = FlattenSeq(Escapes(name))
<1>1. PICK n \in Nat : n = Len(name)
  BY DEF Texts
<1>2. \A i \in 1 .. n : Escape(name[i]) \in Texts
  <2>1. \A i \in 1 .. n : name[i] \in Characters
    BY <1>1, ElementOfSeq DEF Texts
  <2> QED BY <2>1, EscapeTyped
<1>3. Escapes(name) \in [1 .. n -> Texts]
  BY <1>1, <1>2 DEF Escapes
<1>4. quote_output_file(name) = FlattenSeq(Escapes(name))
  BY DEF quote_output_file, Escapes
<1>5. \A i \in 1 .. n : Escapes(name)[i] = Escape(name[i])
  BY <1>1 DEF Escapes
<1>6. Len(Escapes(name)) = n /\ Escapes(name) \in Seq(Texts)
  BY <1>3
<1> QED BY <1>1, <1>4, <1>5, <1>6

LEMMA QuotedTyped ==
  ASSUME NEW name \in Texts
  PROVE  quote_output_file(name) \in Texts
<1>1. PICK F : /\ Flattening(F, Escapes(name), Characters)
               /\ FlattenSeq(Escapes(name)) = F[Len(Escapes(name))]
  BY EscapesAre, Flattens DEF Texts
<1>2. Len(Escapes(name)) \in 0 .. Len(Escapes(name))
  BY EscapesAre DEF Texts
<1> QED BY <1>1, <1>2, EscapesAre DEF Flattening, Texts

\* Quoting loses nothing: of every name, with any control characters,
\* backslashes, digits and blanks in it, dequote_output_file gets back from
\* what quote_output_file writes exactly that name (quote.c:84).
THEOREM DequoteQuoted ==
  ASSUME NEW name \in Texts
  PROVE  dequote_output_file(quote_output_file(name)) = [name |-> name, valid |-> TRUE]
<1>1. PICK n, P, text : /\ n \in Nat /\ n = Len(name) /\ P = Escapes(name)
                      /\ text = quote_output_file(name)
  BY DEF Texts
<1>2. /\ P \in Seq(Texts) /\ Len(P) = n /\ text = FlattenSeq(P) /\ text \in Texts
      /\ \A i \in 1 .. n : P[i] = Escape(name[i]) /\ name[i] \in Characters
  <2>1. \A i \in 1 .. n : name[i] \in Characters
    BY <1>1, ElementOfSeq DEF Texts
  <2> QED BY <1>1, <2>1, EscapesAre, QuotedTyped
<1>3. PICK F : Flattening(F, P, Characters) /\ text = F[n]
  <2>1. P \in Seq(Seq(Characters))
    BY <1>2 DEF Texts
  <2>2. \E F : Flattening(F, P, Characters) /\ FlattenSeq(P) = F[Len(P)]
    BY ONLY <2>1, Flattens
  <2> QED BY <1>2, <2>2
<1>4. Stand(F, P, n)
  <2>1. P \in Seq(Seq(Characters))
    BY <1>2 DEF Texts
  <2> QED BY ONLY <1>1, <1>2, <1>3, <2>1, PiecesStand
<1>5. PICK m \in Nat : m = Len(text)
  BY <1>2 DEF Texts
<1>6. PICK at : /\ Dequoting(at, text, m)
                /\ dequote_output_file(text) =
                     [name |-> at[m].name, valid |-> at[m].valid /\ at[m].escape = <<>>]
  BY <1>2, <1>5, DequoteRounds
<1> DEFINE T == {k \in Nat : k <= n => at[Len(F[k])] = Read(SubSeq(name, 1, k))}
<1>7. 0 \in T
  <2>1. Len(F[0]) = 0
    BY <1>3 DEF Flattening
  <2>2. SubSeq(name, 1, 0) = <<>>
    BY SubSeqEmpty
  <2>3. at[0] = Read(<<>>)
    BY <1>6 DEF Dequoting, DequoteStart, Read, Within, State
  <2> QED BY <2>1, <2>2, <2>3
<1>8. ASSUME NEW k \in Nat, k \in T PROVE k + 1 \in T
  <2> SUFFICES ASSUME k + 1 <= n PROVE at[Len(F[k + 1])] = Read(SubSeq(name, 1, k + 1))
    OBVIOUS
  <2>1. k + 1 \in 1 .. n /\ k + 1 - 1 = k /\ at[Len(F[k])] = Read(SubSeq(name, 1, k))
    <3>1. k + 1 \in 1 .. n /\ k + 1 - 1 = k /\ k <= n
      BY <1>1
    <3>2. k \in T
      BY <1>8
    <3> QED BY <3>1, <3>2
  <2>2. PICK i \in 1 .. n : i = k + 1 /\ i - 1 = k
    BY <2>1
  <2>3. /\ Len(F[k]) \in Nat /\ Len(P[i]) \in Nat /\ Len(F[n]) \in Nat
        /\ Len(F[i]) = Len(F[k]) + Len(P[i]) /\ Len(F[i]) <= Len(F[n])
        /\ \A j \in 1 .. Len(P[i]) : F[n][Len(F[k]) + j] = P[i][j]
    <3>1. /\ Len(F[i - 1]) \in Nat /\ Len(P[i]) \in Nat /\ Len(F[n]) \in Nat
          /\ Len(F[i]) = Len(F[i - 1]) + Len(P[i]) /\ Len(F[i]) <= Len(F[n])
          /\ \A j \in 1 .. Len(P[i]) : F[n][Len(F[i - 1]) + j] = P[i][j]
      BY ONLY <1>4, i \in 1 .. n, Zenon DEF Stand
    <3> QED BY <2>2, <3>1
  <2>4. PICK c \in Characters, from \in Nat : c = name[i] /\ from = Len(F[k])
    BY <1>2, <2>3
  <2>5. /\ P[i] = Escape(c) /\ Len(Escape(c)) \in Nat
        /\ Len(F[k + 1]) = from + Len(Escape(c)) /\ from + Len(Escape(c)) <= m
        /\ \A j \in 1 .. Len(Escape(c)) : text[from + j] = Escape(c)[j]
    BY <1>2, <1>3, <1>5, <2>2, <2>3, <2>4
  <2>6. ASSUME NEW j \in 1 .. Len(Escape(c))
        PROVE  at[from + j] = DequoteChar(at[from + j - 1], Escape(c)[j])
    <3>1. from + j \in 1 .. m
      BY <2>5
    <3> QED BY <1>6, <2>5, <3>1 DEF Dequoting
  <2>7. PICK w \in Texts : w = SubSeq(name, 1, k) /\ SubSeq(name, 1, k + 1) = Append(w, c)
    BY <1>1, <2>2, <2>4, OneLonger DEF Texts
  <2>8. at[from] = Read(w)
    BY <2>1, <2>4, <2>7
  <2>9. at[from + Len(Escape(c))] = Read(Append(w, c))
    BY ONLY w \in Texts, c \in Characters, from \in Nat, <2>6, <2>8, CharacterRead
  <2> QED BY <2>5, <2>7, <2>9
<1> HIDE DEF T
<1>9. at[Len(F[n])] = Read(SubSeq(name, 1, n))
  <2>1. \A k \in Nat : k \in T => k + 1 \in T
    BY <1>8
  <2>2. n \in T
    BY <1>1, <1>7, <2>1, SetInduction
  <2> QED BY <2>2 DEF T
<1>10. at[m] = Read(name)
  BY <1>1, <1>3, <1>5, <1>9, SubSeqFull DEF Texts
<1>11. /\ at[m].name = name /\ at[m].escape = <<>> /\ at[m].valid = TRUE
  BY <1>10 DEF Read, Within, State
<1> QED BY <1>1, <1>6, <1>11

-----------------------------------------------------------------------------
(***************************************************************************)
(* A line of the file, without its end and its indicator.                  *)
(***************************************************************************)
LEMMA RestIs ==
  ASSUME NEW X, NEW s \in Seq(X), NEW i \in Nat, i <= Len(s)
  PROVE  /\ From(s, i) \in Seq(X) /\ Len(From(s, i)) = Len(s) - i
         /\ \A k \in 1 .. Len(s) - i : From(s, i)[k] = s[i + k]
<1>1. Len(s) \in Nat /\ i + 1 \in Int /\ Len(s) \in Int
  OBVIOUS
<1>2. \A k \in i + 1 .. Len(s) : s[k] \in X
  <2>1. \A k \in i + 1 .. Len(s) : k \in 1 .. Len(s)
    BY <1>1
  <2> QED BY <2>1, ElementOfSeq
<1>3. /\ SubSeq(s, i + 1, Len(s)) \in Seq(X)
      /\ Len(SubSeq(s, i + 1, Len(s))) = IF i + 1 <= Len(s) THEN Len(s) - (i + 1) + 1 ELSE 0
      /\ \A k \in 1 .. Len(s) - (i + 1) + 1 : SubSeq(s, i + 1, Len(s))[k] = s[(i + 1) + k - 1]
  BY <1>1, <1>2, SubSeqProperties
<1>4. Len(s) - (i + 1) + 1 = Len(s) - i /\ \A k \in Int : (i + 1) + k - 1 = i + k
  BY <1>1
<1>5. (IF i + 1 <= Len(s) THEN Len(s) - (i + 1) + 1 ELSE 0) = Len(s) - i
  BY <1>1
<1>6. PICK r, m : r = SubSeq(s, i + 1, Len(s)) /\ m = Len(s) - i
  OBVIOUS
<1>7. ASSUME NEW k \in 1 .. m PROVE r[k] = s[i + k]
  <2>1. k \in 1 .. Len(s) - (i + 1) + 1 /\ (i + 1) + k - 1 = i + k
    BY <1>1, <1>4, <1>6
  <2> QED BY <1>3, <1>6, <2>1
<1>8. r \in Seq(X) /\ Len(r) = m
  BY <1>3, <1>5, <1>6
<1>9. r = From(s, i)
  BY <1>6 DEF From
<1> QED BY <1>6, <1>7, <1>8, <1>9

LEMMA RestTyped ==
  ASSUME NEW X, NEW s \in Seq(X), NEW i \in Nat
  PROVE  From(s, i) \in Seq(X)
<1>1. \A k \in i + 1 .. Len(s) : k \in 1 .. Len(s)
  OBVIOUS
<1>2. \A k \in i + 1 .. Len(s) : s[k] \in X
  BY <1>1, ElementOfSeq
<1>3. i + 1 \in Int /\ Len(s) \in Int
  OBVIOUS
<1> QED BY <1>2, <1>3, SubSeqProperties DEF From

LEMMA RestOfRest ==
  ASSUME NEW X, NEW s \in Seq(X), NEW i \in Nat, NEW k \in Nat, i + k <= Len(s)
  PROVE  From(From(s, i), k) = From(s, i + k)
<1>1. PICK r, u, v : r = From(s, i) /\ u = From(r, k) /\ v = From(s, i + k)
  OBVIOUS
<1>2. Len(s) \in Nat /\ i <= Len(s) /\ k <= Len(s) - i /\ i + k \in Nat
  OBVIOUS
<1>3. /\ r \in Seq(X) /\ Len(r) = Len(s) - i
      /\ \A j \in 1 .. Len(s) - i : r[j] = s[i + j]
  BY <1>1, <1>2, RestIs
<1>4. /\ u \in Seq(X) /\ Len(u) = Len(r) - k
      /\ \A j \in 1 .. Len(r) - k : u[j] = r[k + j]
  BY <1>1, <1>2, <1>3, RestIs
<1>5. /\ v \in Seq(X) /\ Len(v) = Len(s) - (i + k)
      /\ \A j \in 1 .. Len(s) - (i + k) : v[j] = s[(i + k) + j]
  BY <1>1, <1>2, RestIs
<1>6. Len(u) = Len(v)
  BY <1>2, <1>3, <1>4, <1>5
<1>7. ASSUME NEW j \in 1 .. Len(u) PROVE u[j] = v[j]
  <2>1. k + j \in 1 .. Len(s) - i /\ i + (k + j) = (i + k) + j
    BY <1>2, <1>3, <1>4
  <2> QED BY <1>3, <1>4, <1>5, <1>6, <2>1
<1>8. u = v
  BY <1>4, <1>5, <1>6, <1>7, SeqEqual
<1> QED BY <1>1, <1>8

LEMMA EndTaken ==
  ASSUME NEW text \in Texts
  PROVE  /\ text \o <<"EOL">> \in Texts
         /\ chomp(text \o <<"EOL">>) = text
<1>1. PICK e, line : e = <<"EOL">> /\ line = text \o e
  OBVIOUS
<1>2. e \in Texts /\ Len(e) = 1 /\ e[1] = "EOL"
  <2>1. "EOL" \in Characters
    BY DEF Characters
  <2>2. \A C : \A x \in C : <<x>> \in Seq(C)
    OBVIOUS
  <2> QED BY <1>1, <2>1, <2>2 DEF Texts
<1>3. /\ line \in Texts /\ Len(line) = Len(text) + 1 /\ Len(text) \in Nat
      /\ \A j \in 1 .. Len(text) : line[j] = text[j]
      /\ line[Len(text) + 1] = "EOL"
  <2>1. /\ line \in Seq(Characters) /\ Len(line) = Len(text) + Len(e) /\ Len(text) \in Nat
        /\ \A j \in 1 .. Len(text) : line[j] = text[j]
        /\ \A j \in 1 .. Len(e) : line[Len(text) + j] = e[j]
    BY ONLY text \in Texts, <1>1, <1>2, ConcatIs DEF Texts
  <2> QED BY <1>2, <2>1 DEF Texts
<1>4. line # <<>> /\ Last(line) = "EOL"
  <2>1. Len(line) # 0
    BY <1>3
  <2>2. Len(<<>>) = 0
    OBVIOUS
  <2>3. line # <<>>
    BY <2>1, <2>2
  <2> QED BY <1>3, <2>3 DEF Last
<1>5. chomp(line) = SubSeq(line, 1, Len(text))
  <2>1. Len(line) - 1 = Len(text)
    BY <1>3
  <2> QED BY <1>4, <2>1 DEF chomp, Front
<1>6. SubSeq(line, 1, Len(text)) = text
  <2>1. PICK u : u = SubSeq(line, 1, Len(text))
    OBVIOUS
  <2>2. \A j \in 1 .. Len(text) : line[j] \in Characters
    BY <1>3, ElementOfSeq DEF Texts
  <2>3. /\ u \in Seq(Characters) /\ Len(u) = Len(text)
        /\ \A j \in 1 .. Len(text) : u[j] = line[j]
    <3>1. 1 \in Int /\ Len(text) \in Int /\ Len(text) - 1 + 1 = Len(text)
      BY <1>3
    <3>2. /\ SubSeq(line, 1, Len(text)) \in Seq(Characters)
          /\ Len(SubSeq(line, 1, Len(text))) = IF 1 <= Len(text) THEN Len(text) - 1 + 1 ELSE 0
          /\ \A j \in 1 .. Len(text) - 1 + 1 : SubSeq(line, 1, Len(text))[j] = line[1 + j - 1]
      BY <2>2, <3>1, SubSeqProperties
    <3>3. \A j \in Int : 1 + j - 1 = j
      OBVIOUS
    <3> QED BY <1>3, <2>1, <3>1, <3>2, <3>3
  <2>4. \A j \in 1 .. Len(text) : u[j] = text[j]
    BY <1>3, <2>3
  <2> QED BY <2>1, <2>3, <2>4, SeqEqual DEF Texts
<1> QED BY <1>1, <1>3, <1>5, <1>6

LEMMA MarkTaken ==
  ASSUME NEW mark \in Texts, NEW text \in Texts
  PROVE  /\ mark \o text \in Texts /\ Len(mark) \in Nat
         /\ starts_with(mark \o text, mark)
         /\ From(mark \o text, Len(mark)) = text
<1>1. PICK line : line = mark \o text
  OBVIOUS
<1>2. /\ line \in Seq(Characters) /\ Len(line) = Len(mark) + Len(text)
      /\ Len(mark) \in Nat /\ Len(text) \in Nat /\ Len(line) \in Nat
      /\ \A j \in 1 .. Len(mark) : line[j] = mark[j]
      /\ \A j \in 1 .. Len(text) : line[Len(mark) + j] = text[j]
  BY ONLY mark \in Texts, text \in Texts, <1>1, ConcatIs DEF Texts
<1>3. starts_with(line, mark)
  <2>1. Len(mark) <= Len(line)
    BY <1>2
  <2>2. PICK u, v : u = SubSeq(mark, 1, Len(mark)) /\ v = SubSeq(line, 1, Len(mark))
    OBVIOUS
  <2>3. u = mark
    BY <2>2, SubSeqFull DEF Texts
  <2>4. v = mark
    <3>1. \A j \in 1 .. Len(mark) : line[j] \in Characters
      <4>1. \A j \in 1 .. Len(mark) : j \in 1 .. Len(line)
        BY <1>2
      <4> QED BY <1>2, <4>1, ElementOfSeq
    <3>2. 1 \in Int /\ Len(mark) \in Int /\ Len(mark) - 1 + 1 = Len(mark)
      BY <1>2
    <3>3. /\ SubSeq(line, 1, Len(mark)) \in Seq(Characters)
          /\ Len(SubSeq(line, 1, Len(mark))) = IF 1 <= Len(mark) THEN Len(mark) - 1 + 1 ELSE 0
          /\ \A j \in 1 .. Len(mark) - 1 + 1 : SubSeq(line, 1, Len(mark))[j] = line[1 + j - 1]
      BY <3>1, <3>2, SubSeqProperties
    <3>4. \A j \in Int : 1 + j - 1 = j
      OBVIOUS
    <3>5. v \in Seq(Characters) /\ Len(v) = Len(mark)
          /\ \A j \in 1 .. Len(mark) : v[j] = mark[j]
      BY <1>2, <2>2, <3>2, <3>3, <3>4
    <3> QED BY <3>5, SeqEqual DEF Texts
  <2> QED BY <2>1, <2>2, <2>3, <2>4 DEF starts_with, IsPrefix
<1>4. From(line, Len(mark)) = text
  <2>1. PICK r : r = From(line, Len(mark))
    OBVIOUS
  <2>2. Len(mark) <= Len(line) /\ Len(line) - Len(mark) = Len(text)
    BY <1>2
  <2>3. /\ r \in Seq(Characters) /\ Len(r) = Len(text)
        /\ \A k \in 1 .. Len(text) : r[k] = line[Len(mark) + k]
    <3>1. PICK i \in Nat : i = Len(mark)
      BY <1>2
    <3>2. /\ From(line, i) \in Seq(Characters) /\ Len(From(line, i)) = Len(line) - i
          /\ \A k \in 1 .. Len(line) - i : From(line, i)[k] = line[i + k]
      <4>1. line \in Seq(Characters) /\ i <= Len(line)
        BY <1>2, <2>2, <3>1
      <4> QED BY ONLY <4>1, i \in Nat, RestIs
    <3> QED BY <2>1, <2>2, <3>1, <3>2
  <2>4. \A k \in 1 .. Len(text) : r[k] = text[k]
    BY <1>2, <2>3
  <2> QED BY <2>1, <2>3, <2>4, SeqEqual DEF Texts
<1> QED BY <1>1, <1>2, <1>3, <1>4 DEF Texts

-----------------------------------------------------------------------------
(***************************************************************************)
(* input in the formats with a line or two for each FileSpec.              *)
(***************************************************************************)
LineFormat ==
  /\ format \in {"single-column", "destination-only"}
  /\ options.indicator1 \in Texts /\ options.indicator2 \in Texts
Specs(n) == [1 .. n -> [old_name : Texts, new_name : Texts]]
ReadStates(n) == [file : Seq(Texts), specs : Specs(n), result : {"ok", "failed", "undefined"}]

LEMMA DequoteIsTyped ==
  ASSUME NEW text \in Texts
  PROVE  dequote_output_file(text).name \in Texts
<1>1. PICK n \in Nat : n = Len(text)
  BY DEF Texts
<1>2. PICK at : /\ Dequoting(at, text, n)
                /\ dequote_output_file(text) =
                     [name |-> at[n].name, valid |-> at[n].valid /\ at[n].escape = <<>>]
  BY <1>1, DequoteRounds
<1>3. at[n] \in DequoteStates
  BY <1>2 DEF Dequoting
<1> QED BY <1>2, <1>3 DEF DequoteStates

LEMMA ChompTyped ==
  ASSUME NEW line \in Texts
  PROVE  chomp(line) \in Texts
<1>1. \A k \in 1 .. Len(line) - 1 : k \in 1 .. Len(line)
  BY DEF Texts
<1>2. \A k \in 1 .. Len(line) - 1 : line[k] \in Characters
  BY <1>1, ElementOfSeq DEF Texts
<1>3. 1 \in Int /\ Len(line) - 1 \in Int
  BY DEF Texts
<1>4. Front(line) \in Texts
  BY <1>2, <1>3, SubSeqProperties DEF Front, Texts
<1> QED BY <1>4 DEF chomp

LEMMA EndsTyped ==
  ASSUME NEW n \in Nat, NEW s \in ReadStates(n), NEW how \in {"failed", "undefined"}
  PROVE  Ends(s, how) \in ReadStates(n)
BY DEF Ends, ReadStates

LEMMA AssignedTyped ==
  ASSUME NEW n \in Nat, NEW s \in ReadStates(n), NEW i \in 1 .. n, NEW name \in Texts
  PROVE  Assigned(s, i, name) \in ReadStates(n)
<1>1. s.specs \in Specs(n) /\ s.specs[i] \in [old_name : Texts, new_name : Texts]
  BY DEF ReadStates, Specs
<1>2. [s.specs[i] EXCEPT !.new_name = name] \in [old_name : Texts, new_name : Texts]
  BY <1>1
<1>3. [s.specs EXCEPT ![i].new_name = name] \in Specs(n)
  BY <1>1, <1>2 DEF Specs
<1> QED BY <1>3 DEF Assigned, ReadStates

LEMMA AfterLinesTyped ==
  ASSUME NEW n \in Nat, NEW s \in ReadStates(n), NEW i \in 1 .. n, NEW k \in Nat
  PROVE  AfterLines(s, i, k) \in ReadStates(n)
<1>1. PICK m \in Nat : m = IF options.separate /\ i < Len(s.specs) THEN k + 1 ELSE k
  OBVIOUS
<1>2. s.file \in Seq(Texts)
  BY DEF ReadStates
<1>3. From(s.file, m) \in Seq(Texts)
  BY <1>2, RestTyped
<1>4. AfterLines(s, i, k) = [s EXCEPT !.file = From(s.file, m)]
  BY <1>1 DEF AfterLines
<1> QED BY <1>3, <1>4 DEF ReadStates

LEMMA DestinationTyped ==
  ASSUME NEW n \in Nat, NEW s \in ReadStates(n), NEW i \in 1 .. n
  PROVE  destination_only(s, i) \in ReadStates(n)
<1>1. PICK new : new = dequote_output_file(chomp(s.file[1]))
  OBVIOUS
<1>2. destination_only(s, i) =
        CASE s.file = <<>> \/ NotSeparated(s, i, 1) -> Ends(s, "failed")
          [] ~new.valid -> Ends(s, "undefined")
          [] OTHER -> AfterLines(IF new.name = <<>> THEN s ELSE Assigned(s, i, new.name), i, 1)
  BY <1>1 DEF destination_only
<1>3. Ends(s, "failed") \in ReadStates(n) /\ Ends(s, "undefined") \in ReadStates(n)
  BY EndsTyped
<1>4. ASSUME s.file # <<>>
      PROVE  AfterLines(IF new.name = <<>> THEN s ELSE Assigned(s, i, new.name), i, 1) \in ReadStates(n)
  <2>1. s.file \in Seq(Texts)
    BY DEF ReadStates
  <2>2. s.file[1] \in Texts
    <3>1. 1 \in 1 .. Len(s.file)
      BY <1>4, <2>1, EmptySeq
    <3> QED BY <2>1, <3>1, ElementOfSeq
  <2>3. new.name \in Texts
    BY <1>1, <2>2, ChompTyped, DequoteIsTyped
  <2>4. (IF new.name = <<>> THEN s ELSE Assigned(s, i, new.name)) \in ReadStates(n)
    BY <2>3, AssignedTyped
  <2> QED BY <2>4, AfterLinesTyped
<1> HIDE DEF Ends, AfterLines, Assigned, NotSeparated, ReadStates
<1> QED BY <1>2, <1>3, <1>4

LEMMA SingleTyped ==
  ASSUME NEW n \in Nat, NEW s \in ReadStates(n), NEW i \in 1 .. n, LineFormat
  PROVE  single_column(s, i) \in ReadStates(n)
<1>1. PICK first, second : first = chomp(s.file[1]) /\ second = chomp(s.file[2])
  OBVIOUS
<1>2. PICK a, b : /\ a = dequote_output_file(From(first, Len(options.indicator1)))
                  /\ b = dequote_output_file(From(second, Len(options.indicator2)))
  OBVIOUS
<1>3. PICK names : names = OldFirst(a, b)
  OBVIOUS
<1>4. PICK matches : matches = (names[1].name = s.specs[i].old_name)
  OBVIOUS
<1>5. single_column(s, i) =
        CASE Len(s.file) < 2 \/ NotSeparated(s, i, 2) -> Ends(s, "failed")
          [] ~starts_with(first, options.indicator1) -> Ends(s, "failed")
          [] ~starts_with(second, options.indicator2) -> Ends(s, "failed")
          [] ~names[1].valid \/ (matches /\ ~names[2].valid) -> Ends(s, "undefined")
          [] OTHER -> AfterLines(IF matches /\ names[2].name # <<>> THEN Assigned(s, i, names[2].name)
                                 ELSE s, i, 2)
  BY <1>1, <1>2, <1>3, <1>4 DEF single_column
<1>6. Ends(s, "failed") \in ReadStates(n) /\ Ends(s, "undefined") \in ReadStates(n)
  BY EndsTyped
<1>7. ASSUME ~(Len(s.file) < 2)
      PROVE  AfterLines(IF matches /\ names[2].name # <<>> THEN Assigned(s, i, names[2].name)
                        ELSE s, i, 2) \in ReadStates(n)
  <2>1. s.file \in Seq(Texts)
    BY DEF ReadStates
  <2>2. s.file[1] \in Texts /\ s.file[2] \in Texts
    <3>1. 1 \in 1 .. Len(s.file) /\ 2 \in 1 .. Len(s.file)
      BY <1>7, <2>1
    <3> QED BY <2>1, <3>1, ElementOfSeq
  <2>3. /\ From(first, Len(options.indicator1)) \in Texts
        /\ From(second, Len(options.indicator2)) \in Texts
    <3>1. first \in Texts /\ second \in Texts
      BY <1>1, <2>2, ChompTyped
    <3>2. Len(options.indicator1) \in Nat /\ Len(options.indicator2) \in Nat
      BY DEF LineFormat, Texts
    <3> QED BY <3>1, <3>2, RestTyped DEF Texts
  <2>4. a.name \in Texts /\ b.name \in Texts
    BY <1>2, <2>3, DequoteIsTyped
  <2>5. names[2].name \in Texts
    BY <1>3, <2>4 DEF OldFirst
  <2>6. (IF matches /\ names[2].name # <<>> THEN Assigned(s, i, names[2].name) ELSE s) \in ReadStates(n)
    BY <2>5, AssignedTyped
  <2> QED BY <2>6, AfterLinesTyped
<1> QED BY <1>5, <1>6, <1>7

LEMMA InputOneTyped ==
  ASSUME NEW n \in Nat, NEW s \in ReadStates(n), NEW i \in 1 .. n, LineFormat
  PROVE  InputOne(s, i) \in ReadStates(n)
<1>1. s.result # "ok" => InputOne(s, i) = s
  BY DEF InputOne
<1>2. s.result = "ok" => \/ InputOne(s, i) = single_column(s, i)
                         \/ InputOne(s, i) = destination_only(s, i)
  BY DEF InputOne, LineFormat
<1> QED BY <1>1, <1>2, SingleTyped, DestinationTyped

Reading(at, base, n) ==
  /\ at \in [0 .. n -> ReadStates(n)] /\ at[0] = base
  /\ \A k \in 1 .. n : at[k] = InputOne(at[k - 1], k)

LEMMA InputRounds ==
  ASSUME NEW n \in Nat, NEW file \in Seq(Texts), specs \in Specs(n), LineFormat
  PROVE  \E at : /\ Reading(at, [file |-> file, specs |-> specs, result |-> "ok"], n)
                 /\ Input(file) = at[n]
<1> DEFINE States == ReadStates(n)
           start == [file |-> file, specs |-> specs, result |-> "ok"]
           turns == [i \in 1 .. n |-> i]
           f == [p \in States \X (1 .. n) |-> InputOne(p[1], p[2])]
           Steps(g) == [s \in SUBSET (DOMAIN turns) |->
                          IF s = {} THEN start ELSE InputOne(g[s \ {Max(s)}], turns[Max(s)])]
           it == CHOOSE g : g = Steps(g)
<1>1. DOMAIN turns = 1 .. n /\ turns \in [1 .. n -> 1 .. n] /\ \A k \in 1 .. n : turns[k] = k
  OBVIOUS
<1>2. FoldLeft(InputOne, start, turns) = it[DOMAIN turns]
  BY DEF FoldLeft, MapThenFoldSet
<1>3. start \in States
  BY DEF ReadStates
<1>4. \A s \in States, k \in 1 .. n :
        InputOne(s, k) \in States /\ f[<<s, k>>] = InputOne(s, k)
  BY InputOneTyped
<1>5. f \in [States \X (1 .. n) -> States]
  BY <1>4
<1>6. Input(file) = AllRead(it[1 .. n])
  <2>1. Len(specs) = n
    BY DEF Specs
  <2> QED BY <1>1, <1>2, <2>1 DEF Input
<1> HIDE DEF f, turns, start, States
<1>7. ASSUME NEW g \in [SUBSET (1 .. n) -> States],
             NEW s \in SUBSET (1 .. n), s # {}
      PROVE  f[<<g[s \ {Max(s)}], turns[Max(s)]>>] = InputOne(g[s \ {Max(s)}], turns[Max(s)])
  <2>1. Max(s) \in 1 .. n
    BY <1>7, GreatestIs
  <2>2. g[s \ {Max(s)}] \in States /\ turns[Max(s)] \in 1 .. n
    BY <1>1, <2>1
  <2> QED BY <1>4, <2>2
<1>8. PICK g \in [SUBSET (1 .. n) -> States] : FoldOf(g, f, start, turns, n)
  <2>1. HasFold(f, start, turns, n, States)
    BY ONLY <1>1, <1>3, <1>5, n \in Nat, FoldExists
  <2> QED BY <2>1 DEF HasFold
<1>9. g = Steps(g)
  BY <1>1, <1>7, <1>8 DEF FoldOf
<1>10. it = Steps(it)
  BY <1>9
<1> HIDE DEF it
<1>11. \A s \in SUBSET (1 .. n) :
         it[s] = IF s = {} THEN start ELSE InputOne(it[s \ {Max(s)}], turns[Max(s)])
  BY <1>1, <1>10
<1>12. it[1 .. 0] = start
  <2>1. 1 .. 0 = {} /\ {} \in SUBSET (1 .. n)
    OBVIOUS
  <2> QED BY <1>11, <2>1
<1>13. ASSUME NEW k \in 1 .. n
       PROVE  it[1 .. k] = InputOne(it[1 .. k - 1], k)
  <2>1. /\ 1 .. k \in SUBSET (1 .. n) /\ 1 .. k # {}
        /\ Max(1 .. k) = k /\ (1 .. k) \ {k} = 1 .. k - 1
    BY InitialSegment
  <2>2. it[1 .. k] = InputOne(it[(1 .. k) \ {Max(1 .. k)}], turns[Max(1 .. k)])
    BY <1>11, <2>1
  <2>3. turns[k] = k
    BY <1>1
  <2> QED BY <2>1, <2>2, <2>3
<1> DEFINE at == [k \in 0 .. n |-> it[1 .. k]]
           T == {k \in Nat : k <= n => it[1 .. k] \in States}
<1>14. 0 \in T
  BY <1>3, <1>12
<1>15. ASSUME NEW k \in Nat, k \in T PROVE k + 1 \in T
  <2> SUFFICES ASSUME k + 1 <= n PROVE it[1 .. k + 1] \in States
    OBVIOUS
  <2>1. k + 1 \in 1 .. n /\ k + 1 - 1 = k /\ it[1 .. k] \in States
    BY <1>15
  <2>2. it[1 .. k + 1] = InputOne(it[1 .. k], k + 1)
    BY <1>13, <2>1
  <2> QED BY <1>4, <2>1, <2>2
<1> HIDE DEF T
<1>16. \A k \in 0 .. n : it[1 .. k] \in States
  <2>1. \A k \in Nat : k \in T
    BY <1>14, <1>15, SetInduction
  <2> QED BY <2>1 DEF T
<1>17. Reading(at, start, n) /\ at[n] = it[1 .. n]
  <2>1. at \in [0 .. n -> States] /\ at[0] = start /\ at[n] = it[1 .. n]
    BY <1>12, <1>16
  <2>2. ASSUME NEW k \in 1 .. n PROVE at[k] = InputOne(at[k - 1], k)
    <3>1. k \in 0 .. n /\ k - 1 \in 0 .. n
      OBVIOUS
    <3> QED BY <1>13, <3>1
  <2> QED BY <2>1, <2>2 DEF Reading, States
<1>18. AllRead(at[n]) = at[n]
  BY DEF AllRead, LineFormat
<1> QED BY <1>6, <1>17, <1>18 DEF start

-----------------------------------------------------------------------------
(***************************************************************************)
(* The lines that stand for one FileSpec, for its new name.                *)
(***************************************************************************)
Line(text) == text \o <<"EOL">>
Marked(mark, name) == Line(mark \o quote_output_file(name))
Separator(i, n) == IF options.separate /\ i < n THEN <<<<"EOL">>>> ELSE <<>>
Block(old, new, i, n) ==
  (IF format = "single-column"
   THEN <<Marked(options.indicator1, old), Marked(options.indicator2, new)>>
   ELSE <<Line(quote_output_file(new))>>) \o Separator(i, n)
BlockSize(i, n) ==
  (IF format = "single-column" THEN 2 ELSE 1) + (IF options.separate /\ i < n THEN 1 ELSE 0)

LEMMA SeparatorIs ==
  ASSUME NEW i, NEW n
  PROVE  /\ Separator(i, n) \in Seq(Texts) /\ Line(<<>>) = <<"EOL">> /\ Line(<<>>) \in Texts
         /\ options.separate /\ i < n => Separator(i, n) = <<Line(<<>>)>>
         /\ ~(options.separate /\ i < n) => Separator(i, n) = <<>>
<1>1. <<>> \in Texts /\ "EOL" \in Characters /\ <<"EOL">> \in Texts
  <2>1. "EOL" \in Characters
    BY DEF Characters
  <2>2. \A C : \A x \in C : <<x>> \in Seq(C) /\ <<>> \in Seq(C)
    OBVIOUS
  <2> QED BY <2>1, <2>2 DEF Texts
<1>2. Line(<<>>) = <<"EOL">>
  BY <1>1, ConcatEmptySeq DEF Line, Texts
<1>3. <<<<"EOL">>>> \in Seq(Texts) /\ <<>> \in Seq(Texts)
  BY <1>1
<1> QED BY <1>1, <1>2, <1>3 DEF Separator

LEMMA BlockIs ==
  ASSUME NEW old \in Texts, NEW new \in Texts, NEW n \in Nat, NEW i \in 1 .. n, LineFormat
  PROVE  /\ Block(old, new, i, n) \in Seq(Texts)
         /\ Len(Block(old, new, i, n)) = BlockSize(i, n)
         /\ format = "single-column" =>
              /\ Block(old, new, i, n)[1] = Marked(options.indicator1, old)
              /\ Block(old, new, i, n)[2] = Marked(options.indicator2, new)
         /\ format # "single-column" => Block(old, new, i, n)[1] = Line(quote_output_file(new))
         /\ options.separate /\ i < n => Block(old, new, i, n)[BlockSize(i, n)] = Line(<<>>)
<1>1. PICK s, p, b : /\ s = Separator(i, n) /\ b = Block(old, new, i, n) /\ b = p \o s
                     /\ format = "single-column" =>
                          p = <<Marked(options.indicator1, old), Marked(options.indicator2, new)>>
                     /\ format # "single-column" => p = <<Line(quote_output_file(new))>>
  BY DEF Block
<1>2. /\ Marked(options.indicator1, old) \in Texts /\ Marked(options.indicator2, new) \in Texts
      /\ Line(quote_output_file(new)) \in Texts
  BY QuotedTyped, MarkTaken, EndTaken DEF Marked, Line, LineFormat
<1>3. /\ p \in Seq(Texts)
      /\ format = "single-column" =>
           /\ Len(p) = 2 /\ p[1] = Marked(options.indicator1, old)
           /\ p[2] = Marked(options.indicator2, new)
      /\ format # "single-column" => Len(p) = 1 /\ p[1] = Line(quote_output_file(new))
  <2>1. \A C : \A x, y \in C : <<x>> \in Seq(C) /\ <<x, y>> \in Seq(C)
    OBVIOUS
  <2>2. CASE format = "single-column"
    <3>1. PICK x \in Texts, y \in Texts :
            x = Marked(options.indicator1, old) /\ y = Marked(options.indicator2, new)
      BY <1>2
    <3>2. p = <<x, y>>
      BY <1>1, <2>2, <3>1
    <3>3. p \in Seq(Texts) /\ Len(p) = 2 /\ p[1] = x /\ p[2] = y
      BY <2>1, <3>2
    <3> QED BY <2>2, <3>1, <3>3
  <2>3. CASE format # "single-column"
    <3>1. PICK x \in Texts : x = Line(quote_output_file(new))
      BY <1>2
    <3>2. p = <<x>>
      BY <1>1, <2>3, <3>1
    <3>3. p \in Seq(Texts) /\ Len(p) = 1 /\ p[1] = x
      BY <2>1, <3>2
    <3> QED BY <2>3, <3>1, <3>3
  <2> QED BY <2>2, <2>3
<1>4. /\ s \in Seq(Texts)
      /\ options.separate /\ i < n => Len(s) = 1 /\ s[1] = Line(<<>>)
      /\ ~(options.separate /\ i < n) => Len(s) = 0
  BY <1>1, SeparatorIs
<1>5. /\ b \in Seq(Texts) /\ Len(b) = Len(p) + Len(s)
      /\ \A j \in 1 .. Len(p) : b[j] = p[j]
      /\ \A j \in 1 .. Len(s) : b[Len(p) + j] = s[j]
  BY ONLY <1>1, <1>3, <1>4, ConcatIs
<1>6. Len(b) = BlockSize(i, n)
  BY <1>3, <1>4, <1>5 DEF BlockSize
<1>7. format = "single-column" => b[1] = p[1] /\ b[2] = p[2]
  <2> SUFFICES ASSUME format = "single-column" PROVE b[1] = p[1] /\ b[2] = p[2]
    OBVIOUS
  <2>1. 1 \in 1 .. Len(p) /\ 2 \in 1 .. Len(p)
    <3>1. Len(p) = 2
      BY <1>3
    <3> QED BY <3>1
  <2> QED BY <1>5, <2>1
<1>8. format # "single-column" => b[1] = p[1]
  <2> SUFFICES ASSUME format # "single-column" PROVE b[1] = p[1]
    OBVIOUS
  <2>1. 1 \in 1 .. Len(p)
    <3>1. Len(p) = 1
      BY <1>3
    <3> QED BY <3>1
  <2> QED BY <1>5, <2>1
<1>9. options.separate /\ i < n => b[BlockSize(i, n)] = Line(<<>>)
  <2> SUFFICES ASSUME options.separate /\ i < n PROVE b[Len(p) + 1] = Line(<<>>) /\ BlockSize(i, n) = Len(p) + 1
    OBVIOUS
  <2>1. Len(s) = 1 /\ s[1] = Line(<<>>)
    BY <1>4
  <2>2. b[Len(p) + 1] = s[1]
    BY <1>5, <2>1
  <2>3. Len(p) = IF format = "single-column" THEN 2 ELSE 1
    BY <1>3
  <2>4. BlockSize(i, n) = (IF format = "single-column" THEN 2 ELSE 1) + 1
    BY DEF BlockSize
  <2> QED BY <2>1, <2>2, <2>3, <2>4
<1> QED BY <1>1, <1>3, <1>5, <1>6, <1>7, <1>8, <1>9

-----------------------------------------------------------------------------
(***************************************************************************)
(* One FileSpec is read from its lines, at the beginning of s.file.        *)
(***************************************************************************)
Given(s, i, new) == IF new = <<>> THEN s ELSE Assigned(s, i, new)
Advanced(s, i, n, new) == [Given(s, i, new) EXCEPT !.file = From(s.file, BlockSize(i, n))]

LEMMA LineRead ==
  ASSUME NEW mark \in Texts, NEW name \in Texts
  PROVE  /\ starts_with(chomp(Marked(mark, name)), mark)
         /\ dequote_output_file(From(chomp(Marked(mark, name)), Len(mark)))
            = [name |-> name, valid |-> TRUE]
         /\ dequote_output_file(chomp(Line(quote_output_file(name)))) = [name |-> name, valid |-> TRUE]
<1>1. PICK q \in Texts : q = quote_output_file(name)
  BY QuotedTyped
<1>2. dequote_output_file(q) = [name |-> name, valid |-> TRUE]
  BY <1>1, DequoteQuoted
<1>3. mark \o q \in Texts /\ starts_with(mark \o q, mark) /\ From(mark \o q, Len(mark)) = q
  BY <1>1, MarkTaken
<1>4. chomp(Line(mark \o q)) = mark \o q /\ chomp(Line(q)) = q
  BY <1>1, <1>3, EndTaken DEF Line
<1> QED BY <1>1, <1>2, <1>3, <1>4 DEF Marked

\* The beginning of s.file is a block.
AtBlock(s, old, new, i, n) ==
  /\ Len(s.file) >= BlockSize(i, n)
  /\ \A j \in 1 .. BlockSize(i, n) : s.file[j] = Block(old, new, i, n)[j]

LEMMA Separated ==
  ASSUME NEW n \in Nat, NEW i \in 1 .. n, NEW s \in ReadStates(n), LineFormat,
         NEW old \in Texts, NEW new \in Texts, AtBlock(s, old, new, i, n),
         NEW k \in Nat, k = IF format = "single-column" THEN 2 ELSE 1
  PROVE  /\ ~NotSeparated(s, i, k)
         /\ \A t \in ReadStates(n) : AfterLines(t, i, k) = [t EXCEPT !.file = From(t.file, BlockSize(i, n))]
<1>1. \A t \in ReadStates(n) : Len(t.specs) = n
  BY DEF ReadStates, Specs
<1>2. Line(<<>>) \in Texts /\ chomp(Line(<<>>)) = <<>>
  <2>1. <<>> \in Texts
    BY EmptySeq DEF Texts
  <2> QED BY <2>1, EndTaken DEF Line
<1>3. ASSUME options.separate /\ i < n
      PROVE  Len(s.file) # k /\ s.file[k + 1] = Line(<<>>) /\ BlockSize(i, n) = k + 1
  <2>1. BlockSize(i, n) = k + 1
    BY <1>3 DEF BlockSize
  <2>2. s.file[k + 1] = Line(<<>>)
    <3>1. Block(old, new, i, n)[BlockSize(i, n)] = Line(<<>>)
      BY <1>3, BlockIs
    <3>2. k + 1 \in 1 .. BlockSize(i, n)
      BY <2>1
    <3> QED BY <2>1, <3>1, <3>2 DEF AtBlock
  <2>3. Len(s.file) >= k + 1 /\ Len(s.file) \in Nat
    BY <2>1 DEF AtBlock, ReadStates
  <2> QED BY <2>1, <2>2, <2>3
<1>4. ~(options.separate /\ i < n) => BlockSize(i, n) = k
  BY DEF BlockSize
<1>5. ~NotSeparated(s, i, k)
  BY <1>1, <1>2, <1>3 DEF NotSeparated
<1>6. ASSUME NEW t \in ReadStates(n)
      PROVE  AfterLines(t, i, k) = [t EXCEPT !.file = From(t.file, BlockSize(i, n))]
  BY <1>1, <1>3, <1>4 DEF AfterLines
<1> QED BY <1>5, <1>6

LEMMA FileOfGiven ==
  ASSUME NEW n \in Nat, NEW i \in 1 .. n, NEW s \in ReadStates(n), NEW new \in Texts
  PROVE  Given(s, i, new) \in ReadStates(n) /\ Given(s, i, new).file = s.file
<1>1. Assigned(s, i, new) \in ReadStates(n)
  BY AssignedTyped
<1>2. Assigned(s, i, new).file = s.file
  BY DEF Assigned, ReadStates
<1> QED BY <1>1, <1>2 DEF Given

LEMMA OneRead ==
  ASSUME NEW n \in Nat, NEW i \in 1 .. n, NEW s \in ReadStates(n), LineFormat, ~options.swap,
         s.result = "ok", NEW new \in Texts,
         AtBlock(s, s.specs[i].old_name, new, i, n)
  PROVE  InputOne(s, i) = Advanced(s, i, n, new)
<1>1. PICK old \in Texts : old = s.specs[i].old_name
  BY DEF ReadStates, Specs
<1>2. /\ Len(s.file) \in Nat /\ Len(s.file) >= BlockSize(i, n)
      /\ \A j \in 1 .. BlockSize(i, n) : s.file[j] = Block(old, new, i, n)[j]
  BY <1>1 DEF AtBlock, ReadStates
<1>3. PICK good : good = Given(s, i, new)
  OBVIOUS
<1>4. good \in ReadStates(n) /\ good.file = s.file
  BY <1>3, FileOfGiven
<1>5. CASE format = "single-column"
  <2>1. PICK k \in Nat : k = 2
    OBVIOUS
  <2>2. /\ ~NotSeparated(s, i, k)
        /\ AfterLines(good, i, k) = [good EXCEPT !.file = From(s.file, BlockSize(i, n))]
    BY <1>1, <1>4, <1>5, <2>1, Separated
  <2>3. BlockSize(i, n) >= 2 /\ BlockSize(i, n) \in Nat
    BY <1>5 DEF BlockSize
  <2>4. /\ s.file[1] = Marked(options.indicator1, old) /\ s.file[2] = Marked(options.indicator2, new)
        /\ ~(Len(s.file) < 2)
    <3>1. /\ Block(old, new, i, n)[1] = Marked(options.indicator1, old)
          /\ Block(old, new, i, n)[2] = Marked(options.indicator2, new)
      BY <1>5, BlockIs
    <3>2. 1 \in 1 .. BlockSize(i, n) /\ 2 \in 1 .. BlockSize(i, n)
      BY <2>3
    <3>3. ~(Len(s.file) < 2)
      BY <1>2, <2>3
    <3> QED BY <1>2, <3>1, <3>2, <3>3
  <2>5. PICK first, second : first = chomp(s.file[1]) /\ second = chomp(s.file[2])
    OBVIOUS
  <2>6. PICK a, b : /\ a = dequote_output_file(From(first, Len(options.indicator1)))
                    /\ b = dequote_output_file(From(second, Len(options.indicator2)))
    OBVIOUS
  <2>7. /\ starts_with(first, options.indicator1) /\ starts_with(second, options.indicator2)
        /\ a = [name |-> old, valid |-> TRUE] /\ b = [name |-> new, valid |-> TRUE]
    BY <2>4, <2>5, <2>6, LineRead DEF LineFormat
  <2>8. OldFirst(a, b) = <<a, b>>
    BY DEF OldFirst
  <2>9. single_column(s, i) =
          LET names == OldFirst(a, b)
              matches == names[1].name = s.specs[i].old_name
          IN CASE Len(s.file) < 2 \/ NotSeparated(s, i, 2) -> Ends(s, "failed")
          [] ~starts_with(first, options.indicator1) -> Ends(s, "failed")
          [] ~starts_with(second, options.indicator2) -> Ends(s, "failed")
          [] ~names[1].valid \/ (matches /\ ~names[2].valid) -> Ends(s, "undefined")
          [] OTHER -> AfterLines(IF matches /\ names[2].name # <<>> THEN Assigned(s, i, names[2].name)
                                 ELSE s, i, 2)
    BY <2>5, <2>6 DEF single_column
  <2>10. /\ a.name = s.specs[i].old_name /\ a.valid /\ b.valid /\ b.name = new
    BY <1>1, <2>7
  <2>11. single_column(s, i) = AfterLines(IF new # <<>> THEN Assigned(s, i, new) ELSE s, i, 2)
    BY <2>1, <2>2, <2>4, <2>7, <2>8, <2>9, <2>10
  <2>12. (IF new # <<>> THEN Assigned(s, i, new) ELSE s) = good
    BY <1>3 DEF Given
  <2>13. InputOne(s, i) = single_column(s, i)
    BY <1>5 DEF InputOne
  <2> QED BY <1>3, <2>1, <2>2, <2>11, <2>12, <2>13 DEF Advanced
<1>6. CASE format # "single-column"
  <2>1. format = "destination-only"
    BY <1>6 DEF LineFormat
  <2>2. PICK k \in Nat : k = 1
    OBVIOUS
  <2>3. /\ ~NotSeparated(s, i, k)
        /\ AfterLines(good, i, k) = [good EXCEPT !.file = From(s.file, BlockSize(i, n))]
    BY <1>1, <1>4, <1>6, <2>2, Separated
  <2>4. BlockSize(i, n) >= 1 /\ BlockSize(i, n) \in Nat
    BY <1>6 DEF BlockSize
  <2>5. s.file[1] = Line(quote_output_file(new)) /\ s.file # <<>>
    <3>1. Len(s.file) # 0 /\ Len(<<>>) = 0
      BY <1>2, <2>4
    <3>2. s.file # <<>>
      BY <3>1
    <3>3. Block(old, new, i, n)[1] = Line(quote_output_file(new))
      BY <1>6, BlockIs
    <3>4. 1 \in 1 .. BlockSize(i, n)
      BY <2>4
    <3> QED BY <1>2, <3>2, <3>3, <3>4
  <2>6. PICK a : a = dequote_output_file(chomp(s.file[1]))
    OBVIOUS
  <2>7. a.valid /\ a.name = new
    <3>1. <<>> \in Texts
      BY EmptySeq DEF Texts
    <3>2. a = [name |-> new, valid |-> TRUE]
      BY <2>5, <2>6, <3>1, LineRead
    <3> QED BY <3>2
  <2>8. destination_only(s, i) = AfterLines(IF new = <<>> THEN s ELSE Assigned(s, i, new), i, 1)
    BY <2>2, <2>3, <2>5, <2>6, <2>7 DEF destination_only
  <2>9. InputOne(s, i) = destination_only(s, i)
    BY <2>1 DEF InputOne
  <2> QED BY <1>3, <2>2, <2>3, <2>8, <2>9 DEF Advanced, Given
<1> QED BY <1>5, <1>6

LEMMA AdvancedIs ==
  ASSUME NEW n \in Nat, NEW i \in 1 .. n, NEW s \in ReadStates(n), NEW new \in Texts
  PROVE  /\ Advanced(s, i, n, new).file = From(s.file, BlockSize(i, n))
         /\ Advanced(s, i, n, new).result = s.result
         /\ \A j \in 1 .. n :
              /\ Advanced(s, i, n, new).specs[j].old_name = s.specs[j].old_name
              /\ Advanced(s, i, n, new).specs[j].new_name =
                   IF j = i /\ new # <<>> THEN new ELSE s.specs[j].new_name
<1>1. PICK g, r : g = Given(s, i, new) /\ r = From(s.file, BlockSize(i, n))
  OBVIOUS
<1>2. g \in ReadStates(n)
  BY <1>1, FileOfGiven
<1>3. /\ Advanced(s, i, n, new).file = r /\ Advanced(s, i, n, new).result = g.result
      /\ Advanced(s, i, n, new).specs = g.specs
  <2>1. Advanced(s, i, n, new) = [g EXCEPT !.file = r]
    BY <1>1 DEF Advanced
  <2> QED BY <1>2, <2>1 DEF ReadStates
<1>4. s.specs \in Specs(n)
  BY DEF ReadStates
<1>5. CASE new = <<>>
  <2>1. g = s
    BY <1>1, <1>5 DEF Given
  <2> QED BY <1>1, <1>3, <1>5, <2>1
<1>6. CASE new # <<>>
  <2>1. g = [s EXCEPT !.specs[i].new_name = new]
    BY <1>1, <1>6 DEF Given, Assigned
  <2>2. g.result = s.result /\ g.specs = [s.specs EXCEPT ![i].new_name = new]
    BY <2>1 DEF ReadStates
  <2>3. ASSUME NEW j \in 1 .. n
        PROVE  /\ g.specs[j].old_name = s.specs[j].old_name
               /\ g.specs[j].new_name = IF j = i THEN new ELSE s.specs[j].new_name
    <3>1. s.specs[j] \in [old_name : Texts, new_name : Texts]
      BY <1>4 DEF Specs
    <3>2. CASE j = i
      <4>1. g.specs[j] = [s.specs[i] EXCEPT !.new_name = new]
        BY <1>4, <2>2, <3>2 DEF Specs
      <4> QED BY <3>1, <3>2, <4>1
    <3>3. CASE j # i
      <4>1. g.specs[j] = s.specs[j]
        BY <1>4, <2>2, <3>3 DEF Specs
      <4> QED BY <3>3, <4>1
    <3> QED BY <3>2, <3>3
  <2> QED BY <1>1, <1>3, <1>6, <2>2, <2>3
<1> QED BY <1>5, <1>6

-----------------------------------------------------------------------------
(***************************************************************************)
(* The lines of all FileSpecs, and what is read from them.                 *)
(***************************************************************************)
Blocks(names, n) == [i \in 1 .. n |-> Block(specs[i].old_name, names[i], i, n)]
NameRead(i, name) == IF name = <<>> THEN specs[i].new_name ELSE name

LEMMA BlocksAre ==
  ASSUME NEW n \in Nat, specs \in Specs(n), LineFormat, NEW names \in [1 .. n -> Texts]
  PROVE  /\ Blocks(names, n) \in Seq(Seq(Texts)) /\ Len(Blocks(names, n)) = n
         /\ \A i \in 1 .. n :
              /\ Blocks(names, n)[i] = Block(specs[i].old_name, names[i], i, n)
              /\ Len(Blocks(names, n)[i]) = BlockSize(i, n) /\ BlockSize(i, n) \in Nat
<1>1. ASSUME NEW i \in 1 .. n
      PROVE  /\ Block(specs[i].old_name, names[i], i, n) \in Seq(Texts)
             /\ Len(Block(specs[i].old_name, names[i], i, n)) = BlockSize(i, n)
             /\ BlockSize(i, n) \in Nat
  <2>1. specs[i].old_name \in Texts /\ names[i] \in Texts
    BY DEF Specs
  <2>2. BlockSize(i, n) \in Nat
    BY DEF BlockSize
  <2>3. PICK old \in Texts, new \in Texts : old = specs[i].old_name /\ new = names[i]
    BY <2>1
  <2>4. Block(old, new, i, n) \in Seq(Texts) /\ Len(Block(old, new, i, n)) = BlockSize(i, n)
    BY ONLY n \in Nat, i \in 1 .. n, LineFormat, BlockIs, old \in Texts, new \in Texts
  <2> QED BY <2>2, <2>3, <2>4
<1>2. Blocks(names, n) \in [1 .. n -> Seq(Texts)]
  BY <1>1 DEF Blocks
<1>3. Blocks(names, n) \in Seq(Seq(Texts)) /\ Len(Blocks(names, n)) = n
  BY <1>2
<1> QED BY <1>1, <1>3 DEF Blocks

LEMMA ReadBack ==
  ASSUME NEW n \in Nat, specs \in Specs(n), LineFormat, ~options.swap,
         NEW names \in [1 .. n -> Texts], NEW file, file = FlattenSeq(Blocks(names, n))
  PROVE  /\ file \in Seq(Texts) /\ Input(file).result = "ok" /\ Input(file).specs \in Specs(n)
         /\ \A i \in 1 .. n : Input(file).specs[i].new_name = NameRead(i, names[i])
<1>1. PICK P : P = Blocks(names, n)
  OBVIOUS
<1>2. /\ P \in Seq(Seq(Texts)) /\ Len(P) = n
      /\ \A i \in 1 .. n : /\ P[i] = Block(specs[i].old_name, names[i], i, n)
                           /\ Len(P[i]) = BlockSize(i, n) /\ BlockSize(i, n) \in Nat
  BY <1>1, BlocksAre
<1>3. PICK F : Flattening(F, P, Texts) /\ file = F[n]
  <2>1. \E F : Flattening(F, P, Texts) /\ FlattenSeq(P) = F[Len(P)]
    BY ONLY <1>2, Flattens
  <2> QED BY <1>1, <1>2, <2>1
<1>4. Stand(F, P, n)
  BY ONLY <1>2, <1>3, n \in Nat, PiecesStand
<1>5. file \in Seq(Texts)
  <2>1. n \in 0 .. Len(P)
    BY <1>2
  <2> QED BY <1>3, <2>1 DEF Flattening
<1>6. PICK at : /\ Reading(at, [file |-> file, specs |-> specs, result |-> "ok"], n)
                /\ Input(file) = at[n]
  BY <1>5, InputRounds
<1> DEFINE Good(k) == /\ at[k].file = From(file, Len(F[k])) /\ at[k].result = "ok"
                      /\ \A i \in 1 .. n :
                           /\ at[k].specs[i].old_name = specs[i].old_name
                           /\ at[k].specs[i].new_name =
                                IF i <= k THEN NameRead(i, names[i]) ELSE specs[i].new_name
           T == {k \in Nat : k <= n => Good(k)}
<1>7. 0 \in T
  <2>1. at[0] = [file |-> file, specs |-> specs, result |-> "ok"]
    BY <1>6 DEF Reading
  <2>2. Len(F[0]) = 0
    BY <1>3 DEF Flattening
  <2>3. From(file, 0) = file
    BY <1>5, SubSeqFull DEF From
  <2>4. \A i \in 1 .. n : ~(i <= 0)
    OBVIOUS
  <2> QED BY <2>1, <2>2, <2>3, <2>4
<1>8. ASSUME NEW k \in Nat, k \in T PROVE k + 1 \in T
  <2> SUFFICES ASSUME k + 1 <= n PROVE Good(k + 1)
    OBVIOUS
  <2>1. Good(k)
    BY <1>8
  <2>2. PICK i \in 1 .. n : i = k + 1 /\ i - 1 = k
    OBVIOUS
  <2>3. /\ Len(F[k]) \in Nat /\ Len(P[i]) \in Nat /\ Len(F[n]) \in Nat
        /\ Len(F[i]) = Len(F[k]) + Len(P[i]) /\ Len(F[i]) <= Len(F[n])
        /\ \A j \in 1 .. Len(P[i]) : F[n][Len(F[k]) + j] = P[i][j]
    <3>1. /\ Len(F[i - 1]) \in Nat /\ Len(P[i]) \in Nat /\ Len(F[n]) \in Nat
          /\ Len(F[i]) = Len(F[i - 1]) + Len(P[i]) /\ Len(F[i]) <= Len(F[n])
          /\ \A j \in 1 .. Len(P[i]) : F[n][Len(F[i - 1]) + j] = P[i][j]
      BY ONLY <1>4, i \in 1 .. n, Zenon DEF Stand
    <3> QED BY <2>2, <3>1
  <2>4. PICK s \in ReadStates(n), p \in Nat, size \in Nat, new \in Texts :
          s = at[k] /\ p = Len(F[k]) /\ size = BlockSize(i, n) /\ new = names[i]
    <3>1. k \in 0 .. n
      BY <2>2
    <3>2. at[k] \in ReadStates(n)
      BY <1>6, <3>1 DEF Reading
    <3> QED BY <1>2, <2>3, <3>2
  <2>5. /\ Len(P[i]) = size /\ p + size <= Len(file) /\ Len(file) \in Nat
        /\ \A j \in 1 .. size : file[p + j] = P[i][j]
    BY <1>2, <1>3, <2>3, <2>4
  <2>6. s.file = From(file, p)
    BY <2>1, <2>4
  <2>7. /\ Len(s.file) = Len(file) - p
        /\ \A j \in 1 .. Len(file) - p : s.file[j] = file[p + j]
    <3>1. p <= Len(file)
      BY <2>5
    <3>2. /\ Len(From(file, p)) = Len(file) - p
          /\ \A j \in 1 .. Len(file) - p : From(file, p)[j] = file[p + j]
      BY ONLY <1>5, <3>1, p \in Nat, RestIs
    <3> QED BY <2>6, <3>2
  <2>8. AtBlock(s, s.specs[i].old_name, new, i, n)
    <3>1. P[i] = Block(s.specs[i].old_name, new, i, n)
      BY <1>2, <2>1, <2>4
    <3>2. Len(s.file) >= size
      BY <2>5, <2>7
    <3>3. ASSUME NEW j \in 1 .. size PROVE s.file[j] = P[i][j]
      <4>1. j \in 1 .. Len(file) - p
        BY <2>5
      <4> QED BY <2>5, <2>7, <4>1
    <3> QED BY <2>4, <3>1, <3>2, <3>3 DEF AtBlock
  <2>9. at[i] = Advanced(s, i, n, new)
    <3>1. at[i] = InputOne(s, i)
      BY <1>6, <2>2, <2>4 DEF Reading
    <3>2. s.result = "ok"
      BY <2>1, <2>4
    <3> QED BY <2>8, <3>1, <3>2, OneRead
  <2>10. at[i].file = From(file, Len(F[i]))
    <3>1. From(From(file, p), size) = From(file, p + size)
      BY <1>5, <2>5, RestOfRest
    <3>2. at[i].file = From(s.file, size)
      BY <2>4, <2>9, AdvancedIs
    <3> QED BY <2>3, <2>4, <2>5, <2>6, <3>1, <3>2
  <2>11. at[i].result = "ok"
    BY <2>1, <2>4, <2>9, AdvancedIs
  <2>12. ASSUME NEW j \in 1 .. n
         PROVE  /\ at[i].specs[j].old_name = specs[j].old_name
                /\ at[i].specs[j].new_name =
                     IF j <= i THEN NameRead(j, names[j]) ELSE specs[j].new_name
    <3>1. /\ at[i].specs[j].old_name = s.specs[j].old_name
          /\ at[i].specs[j].new_name = IF j = i /\ new # <<>> THEN new ELSE s.specs[j].new_name
      BY <2>9, AdvancedIs
    <3>2. /\ s.specs[j].old_name = specs[j].old_name
          /\ s.specs[j].new_name = IF j <= k THEN NameRead(j, names[j]) ELSE specs[j].new_name
      BY <2>1, <2>4
    <3>3. CASE j = i
      <4>1. ~(j <= k) /\ j <= i
        BY <2>2, <3>3
      <4> QED BY <2>4, <3>1, <3>2, <3>3, <4>1 DEF NameRead
    <3>4. CASE j # i
      <4>1. j <= k <=> j <= i
        BY <2>2, <3>4
      <4> QED BY <3>1, <3>2, <3>4, <4>1
    <3> QED BY <3>3, <3>4
  <2> QED BY <2>2, <2>10, <2>11, <2>12
<1> HIDE DEF T
<1>9. n \in T
  BY <1>7, <1>8, SetInduction
<1>10. Good(n)
  BY <1>9 DEF T
<1>11. \A i \in 1 .. n : i <= n
  OBVIOUS
<1>12. at[n] \in ReadStates(n)
  BY <1>6 DEF Reading
<1>13. at[n].specs \in Specs(n)
  BY <1>12 DEF ReadStates
<1> QED BY <1>5, <1>6, <1>10, <1>11, <1>13

-----------------------------------------------------------------------------
(***************************************************************************)
(* parse_options, suboption by suboption.                                  *)
(***************************************************************************)
LineFormats == {"single-column", "destination-only"}
OptionRecords ==
  [swap : BOOLEAN, separate : BOOLEAN, spaces : BOOLEAN, tabsize : Nat, width : Nat,
   autowidth : BOOLEAN, indicator1 : Texts, indicator2 : Texts]
OptionStates == [done : BOOLEAN, set : OptionRecords]

LEMMA TextsAre ==
  ASSUME NEW text \in OldNames \cup TypedNames \cup {EarlierName} \cup Marks
  PROVE  text \in Texts
<1>1. Range(text) \subseteq Characters
  BY DEF Characters
<1>2. text \in Seq(Range(text))
  BY FormatsAssumption
<1>3. \A R, C : R \subseteq C => Seq(R) \subseteq Seq(C)
  OBVIOUS
<1> QED BY <1>1, <1>2, <1>3 DEF Texts

LEMMA DefaultTyped == Default \in OptionRecords
<1>1. <<>> \in Texts
  BY EmptySeq DEF Texts
<1> QED BY <1>1 DEF Default, OptionRecords

LEMMA OptionTyped ==
  ASSUME NEW f \in LineFormats, NEW s \in OptionStates, NEW sub \in Suboptions
  PROVE  SetOption(f, s, sub) \in OptionStates
<1>1. s.done \in BOOLEAN /\ s.set \in OptionRecords
  BY DEF OptionStates
<1>2. \A done \in BOOLEAN, set \in OptionRecords : [done |-> done, set |-> set] \in OptionStates
  BY DEF OptionStates
<1>3. ASSUME sub.name \in Known(f)
      PROVE  [s EXCEPT !.set = IF sub.name = "width"
                               THEN [@ EXCEPT !.width = sub.value, !.autowidth = FALSE]
                               ELSE [@ EXCEPT ![sub.name] = sub.value]] \in OptionStates
  <2>1. sub.name \in {"swap", "separate", "indicator1", "indicator2"}
    BY <1>3 DEF Known, LineFormats
  <2>2. sub.name \in {"indicator1", "indicator2"} => sub.value \in Texts
    <3>1. sub.name \in {"indicator1", "indicator2"} => sub.value \in Marks
      BY DEF Marks
    <3> QED BY <3>1, TextsAre
  <2>3. sub.name \in {"swap", "separate"} => sub.value \in BOOLEAN
    BY FormatsAssumption
  <2>4. PICK set, name, value : set = s.set /\ name = sub.name /\ value = sub.value
    OBVIOUS
  <2>5. [set EXCEPT ![name] = value] \in OptionRecords
    <3>1. CASE name = "swap"
      BY <1>1, <2>3, <2>4, <3>1 DEF OptionRecords
    <3>2. CASE name = "separate"
      BY <1>1, <2>3, <2>4, <3>2 DEF OptionRecords
    <3>3. CASE name = "indicator1"
      BY <1>1, <2>2, <2>4, <3>3 DEF OptionRecords
    <3>4. CASE name = "indicator2"
      BY <1>1, <2>2, <2>4, <3>4 DEF OptionRecords
    <3> QED BY <2>1, <2>4, <3>1, <3>2, <3>3, <3>4
  <2>6. [s EXCEPT !.set = [set EXCEPT ![name] = value]] \in OptionStates
    BY <2>5 DEF OptionStates
  <2> QED BY <2>1, <2>4, <2>6
<1>4. [done |-> TRUE, set |-> IF sub.name = "help" THEN s.set ELSE Default] \in OptionStates
  BY <1>1, <1>2, DefaultTyped
<1> QED BY <1>3, <1>4 DEF SetOption

LEMMA OptionsTyped ==
  ASSUME NEW f \in LineFormats, NEW suboptions \in Seq(Suboptions)
  PROVE  parse_options(f, suboptions) \in OptionRecords
<1> DEFINE start == [done |-> FALSE, set |-> Default]
           func == [p \in OptionStates \X Suboptions |-> SetOption(f, p[1], p[2])]
           Steps(g) == [s \in SUBSET (DOMAIN suboptions) |->
                          IF s = {} THEN start
                          ELSE SetOption(f, g[s \ {Max(s)}], suboptions[Max(s)])]
           it == CHOOSE g : g = Steps(g)
<1>1. PICK n \in Nat : n = Len(suboptions)
  OBVIOUS
<1>2. DOMAIN suboptions = 1 .. n /\ suboptions \in [1 .. n -> Suboptions]
  BY <1>1
<1>3. parse_options(f, suboptions) = it[DOMAIN suboptions].set
  BY DEF parse_options, FoldLeft, MapThenFoldSet
<1>4. start \in OptionStates
  BY DefaultTyped DEF OptionStates
<1>5. \A s \in OptionStates, sub \in Suboptions :
        SetOption(f, s, sub) \in OptionStates /\ func[<<s, sub>>] = SetOption(f, s, sub)
  BY OptionTyped
<1>6. func \in [OptionStates \X Suboptions -> OptionStates]
  BY <1>5
<1> HIDE DEF func, start
<1>7. ASSUME NEW g \in [SUBSET (1 .. n) -> OptionStates], NEW s \in SUBSET (1 .. n), s # {}
      PROVE  func[<<g[s \ {Max(s)}], suboptions[Max(s)]>>] =
               SetOption(f, g[s \ {Max(s)}], suboptions[Max(s)])
  <2>1. Max(s) \in 1 .. n
    BY <1>7, GreatestIs
  <2>2. g[s \ {Max(s)}] \in OptionStates /\ suboptions[Max(s)] \in Suboptions
    BY <1>2, <2>1
  <2> QED BY <1>5, <2>2
<1>8. PICK g \in [SUBSET (1 .. n) -> OptionStates] : FoldOf(g, func, start, suboptions, n)
  BY <1>2, <1>4, <1>6, FoldExists DEF HasFold
<1>9. g = Steps(g)
  BY <1>2, <1>7, <1>8 DEF FoldOf
<1>10. it = Steps(it)
  BY <1>9
<1> HIDE DEF it
<1>11. \A s \in SUBSET (1 .. n) :
         it[s] = IF s = {} THEN start ELSE SetOption(f, it[s \ {Max(s)}], suboptions[Max(s)])
  BY <1>2, <1>10
<1>12. ASSUME NEW k \in 1 .. n
      PROVE  it[1 .. k] = SetOption(f, it[1 .. k - 1], suboptions[k])
  BY <1>11, InitialSegment
<1> DEFINE T == {k \in Nat : k <= n => it[1 .. k] \in OptionStates}
<1>13. 0 \in T
  <2>1. 1 .. 0 = {} /\ {} \in SUBSET (1 .. n)
    OBVIOUS
  <2> QED BY <1>4, <1>11, <2>1
<1>14. ASSUME NEW k \in Nat, k \in T PROVE k + 1 \in T
  <2> SUFFICES ASSUME k + 1 <= n PROVE it[1 .. k + 1] \in OptionStates
    OBVIOUS
  <2>1. k + 1 \in 1 .. n /\ k + 1 - 1 = k /\ it[1 .. k] \in OptionStates
    BY <1>14
  <2>2. it[1 .. k + 1] = SetOption(f, it[1 .. k], suboptions[k + 1])
    BY <1>12, <2>1
  <2>3. suboptions[k + 1] \in Suboptions
    BY <1>2, <2>1
  <2> QED BY <1>5, <2>1, <2>2, <2>3
<1> HIDE DEF T
<1>15. n \in T
  BY <1>13, <1>14, SetInduction
<1>16. it[1 .. n] \in OptionStates
  BY <1>15 DEF T
<1> QED BY <1>2, <1>3, <1>16 DEF OptionStates

LEMMA OutputIs ==
  ASSUME NEW n \in Nat, LineFormat, NEW names \in [1 .. n -> Texts], NEW layout, NEW files,
         Len(files) = n,
         \A i \in 1 .. n : files[i].old_name = specs[i].old_name /\ files[i].new_name = names[i]
  PROVE  Output(files, layout) = FlattenSeq(Blocks(names, n))
<1>1. ASSUME NEW i \in 1 .. n
      PROVE  LinesOf(files[i], layout.olds[i], layout.width) \o Separator(i, n) =
               Block(specs[i].old_name, names[i], i, n)
  <2>1. LinesOf(files[i], layout.olds[i], layout.width) =
          IF format = "single-column"
          THEN <<Marked(options.indicator1, specs[i].old_name), Marked(options.indicator2, names[i])>>
          ELSE <<Line(quote_output_file(names[i]))>>
    BY DEF LinesOf, LineFormat, Marked, Line
  <2> QED BY <2>1 DEF Block
<1>2. [i \in 1 .. n |-> LinesOf(files[i], layout.olds[i], layout.width) \o Separator(i, n)] =
        Blocks(names, n)
  BY <1>1 DEF Blocks
<1> QED BY <1>2 DEF Output, Separator

-----------------------------------------------------------------------------
(***************************************************************************)
(* Between output and input, the lines are those of the names the user     *)
(* wants, as long as no line was lost or moved.                            *)
(***************************************************************************)
Edited(n) ==
  /\ specs \in Specs(n) /\ LineFormat
  /\ meant \in [1 .. n -> Texts] /\ earlier \in [1 .. n -> Texts]
  /\ \A i \in 1 .. n : specs[i].new_name = earlier[i]
  /\ stage = "listed" => meant = earlier
  /\ stage = "editing" /\ ~broken => lines = FlattenSeq(Blocks(meant, n))

LinesInv ==
  format # "dual-column" => /\ stage \in {"listed", "editing", "read"}
                            /\ stage # "read" => \E n \in 1 .. MaxFiles : Edited(n)
                            /\ TypedNamesRead

LEMMA LinesInit == FormatsInit => LinesInv
<1> SUFFICES ASSUME FormatsInit, format # "dual-column" PROVE LinesInv
  BY DEF LinesInv
<1>1. PICK f \in Formats, n \in 1 .. MaxFiles :
        \E names \in [1 .. n -> OldNames], renamed \in SUBSET (1 .. n) :
          /\ format = f.format /\ options = parse_options(f.format, f.suboptions)
          /\ earlier = [i \in 1 .. n |-> IF i \in renamed THEN EarlierName ELSE names[i]]
          /\ meant = earlier
          /\ specs = [i \in 1 .. n |-> [old_name |-> names[i], new_name |-> earlier[i]]]
          /\ stage = "listed"
  BY DEF FormatsInit
<1>2. PICK names \in [1 .. n -> OldNames], renamed \in SUBSET (1 .. n) :
        /\ format = f.format /\ options = parse_options(f.format, f.suboptions)
        /\ earlier = [i \in 1 .. n |-> IF i \in renamed THEN EarlierName ELSE names[i]]
        /\ meant = earlier
        /\ specs = [i \in 1 .. n |-> [old_name |-> names[i], new_name |-> earlier[i]]]
        /\ stage = "listed"
  BY <1>1
<1>3. f.format \in LineFormats
  BY <1>2, FormatsAssumption DEF LineFormats
<1>4. f.suboptions \in Seq(Suboptions)
  <2>1. f.suboptions \in Seq(Range(f.suboptions))
    BY FormatsAssumption
  <2>2. Range(f.suboptions) \subseteq Suboptions
    BY DEF Suboptions
  <2>3. \A R, C : R \subseteq C => Seq(R) \subseteq Seq(C)
    OBVIOUS
  <2> QED BY <2>1, <2>2, <2>3
<1>5. options \in OptionRecords
  BY <1>2, <1>3, <1>4, OptionsTyped
<1>6. LineFormat
  BY <1>2, <1>3, <1>5 DEF LineFormat, LineFormats, OptionRecords
<1>7. EarlierName \in Texts /\ \A i \in 1 .. n : names[i] \in Texts
  BY TextsAre
<1>8. earlier \in [1 .. n -> Texts] /\ specs \in Specs(n)
  BY <1>2, <1>7 DEF Specs
<1>9. \A i \in 1 .. n : specs[i].new_name = earlier[i]
  BY <1>2
<1>10. Edited(n)
  BY <1>2, <1>6, <1>8, <1>9 DEF Edited
<1> QED BY <1>2, <1>10 DEF LinesInv, TypedNamesRead

LEMMA SameBlocks ==
  ASSUME UNCHANGED <<format, options, specs>>, NEW n
  PROVE  Blocks(meant, n)' = Blocks(meant', n) /\ LineFormat' = LineFormat /\ Specs(n)' = Specs(n)
BY DEF Blocks, Block, Separator, Marked, Line, LineFormat, Specs, Texts, Characters, Range,
       Marks, Suboptions, quote_output_file, Escape, Control, FlattenSeq

LEMMA SameEdited ==
  ASSUME UNCHANGED <<format, options, specs, earlier>>, NEW n, Edited(n),
         meant' \in [1 .. n -> Texts], stage' # "listed",
         stage' = "editing" /\ ~broken' => lines' = FlattenSeq(Blocks(meant', n))
  PROVE  Edited(n)'
<1>1. Specs(n)' = Specs(n) /\ LineFormat' = LineFormat /\ Blocks(meant, n)' = Blocks(meant', n)
  BY SameBlocks
<1>2. specs' \in Specs(n)' /\ LineFormat' /\ \A i \in 1 .. n : specs'[i].new_name = earlier'[i]
  BY <1>1 DEF Edited
<1>3. meant' \in [1 .. n -> Texts'] /\ earlier' \in [1 .. n -> Texts']
  BY DEF Edited, Texts, Characters, Marks, Suboptions, Range
<1>4. stage' = "editing" /\ ~broken' => lines' = FlattenSeq(Blocks(meant, n)')
  BY <1>1
<1>5. FlattenSeq(Blocks(meant, n))' = FlattenSeq(Blocks(meant, n)')
  BY DEF FlattenSeq
<1> QED BY <1>2, <1>3, <1>4, <1>5 DEF Edited

LEMMA LinesNext ==
  ASSUME LinesInv, [FormatsNext]_formatVars
  PROVE  LinesInv'
<1> SUFFICES ASSUME format # "dual-column" PROVE LinesInv'
  BY DEF LinesInv, formatVars, FormatsNext, output, user_types, user_loses_line,
         user_swaps_lines, input
<1>1. CASE UNCHANGED formatVars
  <2>1. TypedNamesRead' = TypedNamesRead /\ stage' = stage /\ stage \in {"listed", "editing", "read"}
    BY <1>1 DEF formatVars, TypedNamesRead, DualReadable, OneLine, LinesInv
  <2>2. ASSUME NEW n \in 1 .. MaxFiles, Edited(n) PROVE Edited(n)'
    <3>1. UNCHANGED <<format, options, specs, earlier, meant, stage, broken, lines>>
      BY <1>1 DEF formatVars
    <3>2. /\ Specs(n)' = Specs(n) /\ LineFormat' = LineFormat
          /\ Blocks(meant, n)' = Blocks(meant', n)
      BY <3>1, SameBlocks
    <3>3. FlattenSeq(Blocks(meant, n))' = FlattenSeq(Blocks(meant, n)')
      BY DEF FlattenSeq
    <3>4. /\ meant' \in [1 .. n -> Texts'] /\ earlier' \in [1 .. n -> Texts']
          /\ \A i \in 1 .. n : specs'[i].new_name = earlier'[i]
          /\ stage' = "listed" => meant' = earlier'
      BY <2>2, <3>1 DEF Edited, Texts, Characters, Marks, Suboptions, Range
    <3>5. stage' = "editing" /\ ~broken' => lines' = FlattenSeq(Blocks(meant, n))'
      <4>1. Blocks(meant, n)' = Blocks(meant, n)
        BY <3>1, <3>2
      <4> QED BY <2>2, <3>1, <3>3, <4>1 DEF Edited
    <3>6. specs' \in Specs(n)' /\ LineFormat'
      BY <2>2, <3>1, <3>2 DEF Edited
    <3> QED BY <3>4, <3>5, <3>6 DEF Edited
  <2>3. TypedNamesRead
    BY DEF LinesInv
  <2>4. (stage # "read" => \E n \in 1 .. MaxFiles : Edited(n))'
    BY <2>1, <2>2 DEF LinesInv
  <2> QED BY <2>1, <2>3, <2>4 DEF LinesInv
<1>2. ASSUME output
      PROVE  LinesInv'
  <2>1. PICK n \in 1 .. MaxFiles : Edited(n)
    BY <1>2 DEF LinesInv, output
  <2>2. Len(specs) = n /\ n \in Nat /\ LineFormat
    BY <2>1, FormatsAssumption DEF Edited, Specs
  <2>3. meant = earlier /\ meant \in [1 .. n -> Texts] /\ stage' = "editing"
    BY <1>2, <2>1 DEF Edited, output
  <2>4. lines' = FlattenSeq(Blocks(meant, n))
    <3>1. \A i \in 1 .. n : specs[i].old_name = specs[i].old_name /\ specs[i].new_name = meant[i]
      BY <2>1, <2>3 DEF Edited
    <3>2. \A layout : Output(specs, layout) = FlattenSeq(Blocks(meant, n))
      BY <2>2, <2>3, <3>1, OutputIs
    <3> QED BY <1>2, <3>2 DEF output
  <2>5. UNCHANGED <<format, options, specs, earlier, meant>>
    BY <1>2 DEF output
  <2>6. Edited(n)'
    BY <2>1, <2>3, <2>4, <2>5, SameEdited
  <2> QED BY <2>1, <2>3, <2>6 DEF LinesInv, TypedNamesRead
<1>3. ASSUME NEW i \in 1 .. Len(specs), NEW name \in TypedNames, user_types(i, name)
      PROVE  LinesInv'
  <2>1. PICK n \in 1 .. MaxFiles : Edited(n)
    BY <1>3 DEF LinesInv, user_types
  <2>2. Len(specs) = n /\ n \in Nat /\ LineFormat
    BY <2>1, FormatsAssumption DEF Edited, Specs
  <2>3. meant' \in [1 .. n -> Texts] /\ stage' = "editing"
    BY <1>3, <2>1, TextsAre DEF Edited, user_types
  <2>4. lines' = FlattenSeq(Blocks(meant', n))
    <3> DEFINE files == [k \in 1 .. Len(specs) |-> [specs[k] EXCEPT !.new_name = meant'[k]]]
    <3>1. Len(files) = n
      BY <2>2
    <3>2. \A k \in 1 .. n : files[k].old_name = specs[k].old_name /\ files[k].new_name = meant'[k]
      <4>1. \A k \in 1 .. n : specs[k] \in [old_name : Texts, new_name : Texts]
        BY <2>1 DEF Edited, Specs
      <4> QED BY <2>2, <4>1
    <3>3. \E layout : lines' = Output(files, layout)
      BY <1>3 DEF user_types
    <3> HIDE DEF files
    <3>4. \A layout : Output(files, layout) = FlattenSeq(Blocks(meant', n))
      BY <2>2, <2>3, <3>1, <3>2, OutputIs
    <3> QED BY <3>3, <3>4
  <2>5. UNCHANGED <<format, options, specs, earlier>>
    BY <1>3 DEF user_types
  <2>6. Edited(n)'
    BY <2>1, <2>3, <2>4, <2>5, SameEdited
  <2> QED BY <2>1, <2>3, <2>6 DEF LinesInv, TypedNamesRead
<1>4. ASSUME user_loses_line \/ user_swaps_lines
      PROVE  LinesInv'
  <2>1. PICK n \in 1 .. MaxFiles : Edited(n)
    BY <1>4 DEF LinesInv, user_loses_line, user_swaps_lines
  <2>2. UNCHANGED <<format, options, specs, earlier, meant, stage>> /\ broken' /\ stage = "editing"
    BY <1>4 DEF user_loses_line, user_swaps_lines
  <2>3. Edited(n)'
    <3>1. meant' \in [1 .. n -> Texts]
      BY <2>1, <2>2 DEF Edited
    <3> QED BY <2>1, <2>2, <3>1, SameEdited
  <2> QED BY <2>1, <2>2, <2>3 DEF LinesInv, TypedNamesRead
<1>5. ASSUME input
      PROVE  LinesInv'
  <2>1. PICK n \in 1 .. MaxFiles : Edited(n)
    BY <1>5 DEF LinesInv, input
  <2>2. n \in Nat /\ specs \in Specs(n) /\ LineFormat /\ meant \in [1 .. n -> Texts]
    BY <2>1, FormatsAssumption DEF Edited
  <2>3. UNCHANGED <<format, options, earlier, meant, broken>> /\ stage' = "read"
    BY <1>5 DEF input
  <2>4. ASSUME ~broken, ~options.swap
        PROVE  /\ result' = "ok"
               /\ \A i \in 1 .. Len(specs') :
                    specs'[i].new_name = IF meant[i] = <<>> THEN earlier[i] ELSE meant[i]
    <3>1. lines = FlattenSeq(Blocks(meant, n))
      BY <1>5, <2>1, <2>4 DEF Edited, input
    <3>2. /\ Input(lines).result = "ok" /\ Input(lines).specs \in Specs(n)
          /\ \A i \in 1 .. n : Input(lines).specs[i].new_name = NameRead(i, meant[i])
      BY <2>2, <2>4, <3>1, ReadBack
    <3>3. result' = "ok" /\ specs' = Input(lines).specs /\ Len(specs') = n
      BY <1>5, <2>2, <3>2 DEF input, Specs
    <3>4. \A i \in 1 .. n : specs[i].new_name = earlier[i]
      BY <2>1 DEF Edited
    <3> QED BY <3>2, <3>3, <3>4 DEF NameRead
  <2>5. TypedNamesRead'
    BY <2>3, <2>4 DEF TypedNamesRead
  <2> QED BY <2>3, <2>5 DEF LinesInv
<1> QED BY <1>1, <1>2, <1>3, <1>4, <1>5 DEF FormatsNext

\* What the user types is what the program reads, in the single-column and
\* the destination-only format, for any number of files, any names, and any
\* indicators: for each of the actions of the program and of the user (output
\* and input of single-column.c and destination-only.c).
THEOREM LineFormatsReadBackAlways ==
  FormatsSpec => [](format # "dual-column" => TypedNamesRead)
<1>1. LinesInv => (format # "dual-column" => TypedNamesRead)
  BY DEF LinesInv
<1> QED BY <1>1, LinesInit, LinesNext, PTL DEF FormatsSpec
===============================================================================
