------------------------------- MODULE Shell -------------------------------
(***************************************************************************)
(* The shell: the processes and file descriptors by which it runs a        *)
(* command (sh.c), with init, which restarts it (init.c).  A process is    *)
(* the sequence of system calls it still makes; each is a step.            *)
(***************************************************************************)
EXTENDS Parser

CONSTANTS Lines,     \* what may be typed
          MaxLines,  \* bound on the lines typed
          NPROC,     \* process slots; init is 1
          NOFILE,    \* descriptors of a process
          NPipes     \* pipes that can be allocated

Parses == [s \in Lines |-> parsecmd(s)]

---------------------------------------------------------------------------
(* Running a command *)

VARIABLES pr,     \* the processes
          typed,  \* the lines read so far
          panic,  \* the kernel's panic("init exiting")
          failed  \* history: the calls that failed: fork(), init's exec()

vars == <<pr, typed, panic, failed>>

Slots == 1 .. NPROC
None == <<"none", 0>>
Console == <<"console", 0>>
Fds == 0 .. NOFILE - 1
Std == [i \in Fds |-> IF i <= 2 THEN Console ELSE None]

(* Mutant of runpipe: the shell of the pipeline keeps the write end. *)
runpipeKeeps(l, r) ==
  << <<"pipe">>,
     <<"fork", << <<"close", 1>>, <<"dup", 1>>, <<"closep", 0>>,
                  <<"closep", 1>> >> \o l>>,
     <<"fork", << <<"close", 0>>, <<"dup", 0>>, <<"closep", 0>>,
                  <<"closep", 1>> >> \o r>>,
     <<"closep", 0>>, <<"wait">>, <<"wait">>, <<"exit">> >>

(* A pipeline of l and r: dup and closep take p[0] or p[1]. *)
runpipe(l, r) ==
  << <<"pipe">>,
     <<"fork", << <<"close", 1>>, <<"dup", 1>>, <<"closep", 0>>,
                  <<"closep", 1>> >> \o l>>,
     <<"fork", << <<"close", 0>>, <<"dup", 0>>, <<"closep", 0>>,
                  <<"closep", 1>> >> \o r>>,
     <<"closep", 0>>, <<"closep", 1>>, <<"wait">>, <<"wait">>, <<"exit">> >>

runlist(l, r) == << <<"fork", l>>, <<"wait">> >> \o r

(* Mutant of runredir: the descriptor is not closed first. *)
runredirOpen(c, rest) == << <<"open", c.fd, c.file[1]>> >> \o rest

runredir(c, rest) ==
  << <<"close", c.fd>>, <<"open", c.fd, c.file[1]>> >> \o rest

(* The system calls of runcmd(c); what follows the last one is unreachable. *)
RECURSIVE runcmd(_)
runcmd(c) ==
  CASE c.type = "EXEC" /\ c.argv = <<>> -> << <<"exit">> >>
    [] c.type = "EXEC" /\ c.argv # <<>> -> << <<"exec", c.argv[1][1]>> >>
    [] c.type = "REDIR" -> runredir(c, runcmd(c.cmd))
    [] c.type = "LIST" -> runlist(runcmd(c.left), runcmd(c.right))
    [] c.type = "PIPE" -> runpipe(runcmd(c.left), runcmd(c.right))
    [] c.type = "BACK" -> << <<"fork", runcmd(c.cmd)>>, <<"exit">> >>

main == << <<"getcmd">> >>
InitLoop == << <<"start">> >>

---------------------------------------------------------------------------
(* System calls *)

At(p, op) == panic = "" /\ pr[p].st = "run" /\ Head(pr[p].code)[1] = op
Arg(p)    == Head(pr[p].code)[2]
Then(p)   == Tail(pr[p].code)
Step(p)   == [pr[p] EXCEPT !.code = Tail(@)]
Becomes(p, r) == pr' = [pr EXCEPT ![p] = r]

Children(p) == {q \in Slots : pr[q].st # "free" /\ pr[q].parent = p}
Freed == [st |-> "free", parent |-> 0, fd |-> [i \in Fds |-> None],
          code |-> <<>>, p |-> <<0, 0>>, line |-> 0]

(* exit(): descriptors are closed and children go to init. *)
Exit(p) ==
  /\ pr' = [q \in Slots |->
              IF q = p THEN [pr[p] EXCEPT !.st = "zombie", !.code = <<>>,
                                          !.fd = [i \in Fds |-> None]]
              ELSE IF q \in Children(p) THEN [pr[q] EXCEPT !.parent = 1]
              ELSE pr[q]]
  /\ panic' = IF p = 1 THEN "init exiting" ELSE ""

(* fork1(): the child runs code; without a slot the process gives up. *)
FreeSlots == {q \in Slots : pr[q].st = "free"}
Fork(p, child, parent) ==
  IF FreeSlots = {} THEN Exit(p) /\ failed' = failed \cup {"fork"}
  ELSE /\ pr' = [pr EXCEPT
                   ![Min(FreeSlots)] = [pr[p] EXCEPT !.parent = p,
                                                     !.code = child],
                   ![p].code = parent]
       /\ UNCHANGED <<panic, failed>>

FreeFd(p) == {i \in Fds : pr[p].fd[i] = None}

Close(p) ==
  /\ At(p, "close")
  /\ Becomes(p, [Step(p) EXCEPT !.fd[Arg(p)] = None])
  /\ UNCHANGED <<typed, panic, failed>>

Closep(p) ==
  /\ At(p, "closep")
  /\ Becomes(p, [Step(p) EXCEPT !.fd[pr[p].p[Arg(p) + 1]] = None])
  /\ UNCHANGED <<typed, panic, failed>>

Dup(p) ==
  /\ At(p, "dup")
  /\ Becomes(p, IF FreeFd(p) = {} THEN Step(p)
                ELSE [Step(p) EXCEPT
                        !.fd[Min(FreeFd(p))] = pr[p].fd[pr[p].p[Arg(p) + 1]]])
  /\ UNCHANGED <<typed, panic, failed>>

(* The file may not be there, or not be created. *)
Open(p) ==
  /\ At(p, "open")
  /\ \/ /\ FreeFd(p) # {}
        /\ Becomes(p, [Step(p) EXCEPT !.fd[Min(FreeFd(p))] =
             <<IF Arg(p) = 0 THEN "in" ELSE "out", Head(pr[p].code)[3]>>])
        /\ UNCHANGED panic
     \/ Exit(p)
  /\ UNCHANGED <<typed, failed>>

UsedPipes == {k \in 1 .. NPipes : \E q \in Slots, i \in Fds :
                pr[q].fd[i] \in {<<"pr", k>>, <<"pw", k>>}}

Pipe(p) ==
  LET k  == Min(1 .. NPipes \ UsedPipes)
      p0 == Min(FreeFd(p))
      p1 == Min(FreeFd(p) \ {p0})
  IN  /\ At(p, "pipe")
      /\ IF UsedPipes = 1 .. NPipes \/ Cardinality(FreeFd(p)) < 2 THEN Exit(p)
         ELSE /\ Becomes(p, [Step(p) EXCEPT !.p = <<p0, p1>>,
                               !.fd[p0] = <<"pr", k>>, !.fd[p1] = <<"pw", k>>])
              /\ UNCHANGED panic
      /\ UNCHANGED <<typed, failed>>

ForkCmd(p) ==
  /\ At(p, "fork")
  /\ Fork(p, Arg(p), Then(p))
  /\ UNCHANGED typed

(* wait() returns at once without children. *)
Wait(p) ==
  /\ At(p, "wait")
  /\ \/ Children(p) = {} /\ Becomes(p, Step(p))
     \/ \E q \in Children(p) :
          /\ pr[q].st = "zombie"
          /\ pr' = [pr EXCEPT ![q] = Freed, ![p] = Step(p)]
  /\ UNCHANGED <<typed, panic, failed>>

(* The first letter tells what a program does; any other name is no file. *)
Readers == {"r"}
Writers == {"w"}

Exec(p) ==
  LET c == Ch(typed[pr[p].line], Arg(p))
  IN  /\ At(p, "exec")
      /\ IF c \in Readers \cup Writers
         THEN /\ Becomes(p, [pr[p] EXCEPT !.code = << <<c, Arg(p)>> >>])
              /\ UNCHANGED panic
         ELSE Exit(p)
      /\ UNCHANGED <<typed, failed>>

ExitCall(p) ==
  /\ At(p, "exit")
  /\ Exit(p)
  /\ UNCHANGED <<typed, failed>>

Opened(o) == \E q \in Slots, i \in Fds : pr[q].fd[i] = o

(* A reader reads its input to the end: of a pipe there is none as long as *)
(* somebody has the write end.                                             *)
Reader(p) ==
  /\ \E c \in Readers : At(p, c)
  /\ pr[p].fd[0][1] = "pr" => ~Opened(<<"pw", pr[p].fd[0][2]>>)
  /\ Exit(p)
  /\ UNCHANGED <<typed, failed>>

(* A writer writes more than a pipe holds: a reader has to be there, or    *)
(* all read ends closed.                                                   *)
Writer(p) ==
  LET end == <<"pr", pr[p].fd[1][2]>>
  IN  /\ \E c \in Writers : At(p, c)
      /\ \/ pr[p].fd[1][1] # "pw" \/ ~Opened(end)
         \/ \E q \in Slots, c \in Readers : At(q, c) /\ pr[q].fd[0] = end
      /\ Exit(p)
      /\ UNCHANGED <<typed, failed>>

---------------------------------------------------------------------------
(* main() of the shell and of init *)

IsCd(s) == Len(s) >= 3 /\ SubSeq(s, 1, 3) = <<"c", "d", " ">>

(* A command line: end of file, cd, or a command for a child. *)
Getcmd(p) ==
  /\ At(p, "getcmd") /\ Len(typed) < MaxLines
  /\ \E s \in Lines :
       /\ typed' = Append(typed, s)
       /\ CASE s = <<>> -> Exit(p) /\ UNCHANGED failed
            [] IsCd(s) -> UNCHANGED <<pr, panic, failed>>
            [] OTHER -> Fork(p, << <<"parse">> >>, << <<"wait">> >> \o main)

Parse(p) ==
  LET c == Parses[Last(typed)]
  IN  /\ At(p, "parse")
      /\ IF c.err # "" THEN Exit(p)
         ELSE /\ Becomes(p, [pr[p] EXCEPT !.code = runcmd(c.cmd),
                                          !.line = Len(typed)])
              /\ UNCHANGED panic
      /\ UNCHANGED <<typed, failed>>

(* init: the child becomes the shell, which opens what it lacks of its     *)
(* three descriptors.                                                      *)
Start(p) ==
  /\ At(p, "start")
  /\ Fork(p, << <<"execsh">> >>, << <<"reap", Min(FreeSlots)>> >>)
  /\ UNCHANGED typed

WithStd(fd) == [i \in Fds |-> IF i <= 2 /\ fd[i] = None THEN Console
                              ELSE fd[i]]

(* Or the exec fails, and init tries again: here at most once. *)
ExecSh(p) ==
  /\ At(p, "execsh")
  /\ \/ /\ Becomes(p, [pr[p] EXCEPT !.code = main, !.fd = WithStd(@)])
        /\ UNCHANGED <<panic, failed>>
     \/ /\ "exec" \notin failed /\ failed' = failed \cup {"exec"}
        /\ Exit(p)
  /\ UNCHANGED typed

Reap(p) ==
  /\ At(p, "reap")
  /\ \E q \in Children(p) :
       /\ pr[q].st = "zombie"
       /\ pr' = [pr EXCEPT ![q] = Freed,
                           ![p].code = IF q = Arg(p) THEN InitLoop ELSE @]
  /\ UNCHANGED <<typed, panic, failed>>

Init ==
  /\ pr = [p \in Slots |-> IF p = 1 THEN [Freed EXCEPT !.st = "run",
                                            !.fd = Std, !.code = InitLoop]
                            ELSE Freed]
  /\ typed = <<>> /\ panic = "" /\ failed = {}

Run(p) == \/ Close(p) \/ Closep(p) \/ Dup(p) \/ Open(p) \/ Pipe(p)
          \/ ForkCmd(p) \/ Wait(p) \/ Exec(p) \/ ExitCall(p)
          \/ Reader(p) \/ Writer(p) \/ Getcmd(p) \/ Parse(p)
          \/ Start(p) \/ ExecSh(p) \/ Reap(p)

Next == \E p \in Slots : Run(p)

(* Some process that can go on does. *)
Spec == Init /\ [][Next]_vars /\ WF_vars(Next)

---------------------------------------------------------------------------
(* A process runs as long as it has system calls to make: runcmd() always  *)
(* ends in exit(), and init stays.                                         *)
TypeOK ==
  /\ \A p \in Slots : /\ pr[p].st \in {"free", "run", "zombie"}
                       /\ pr[p].st = "run" <=> pr[p].code # <<>>
                       /\ pr[p].parent \in 0 .. NPROC
  /\ pr[1].st = "run" \/ panic # ""

Cmd(n) == Parses[typed[n]].cmd

Prog(c) == {c.argv[i][1] : i \in DOMAIN c.argv \cap {1}}

(* The programs of a command, by the place of their names, with where the  *)
(* syntax says they read from and write to.                                *)
RECURSIVE Plumbing(_, _, _)
Plumbing(c, in, out) ==
  CASE c.type = "EXEC" -> {<<q, in, out>> : q \in Prog(c)}
    [] c.type = "REDIR" /\ c.fd = 0 ->
         Plumbing(c.cmd, <<"in", c.file[1]>>, out)
    [] c.type = "REDIR" /\ c.fd = 1 ->
         Plumbing(c.cmd, in, <<"out", c.file[1]>>)
    [] c.type = "PIPE" -> Plumbing(c.left, in, <<"pw", 0>>)
                          \cup Plumbing(c.right, <<"pr", 0>>, out)
    [] c.type = "LIST" -> Plumbing(c.left, in, out)
                          \cup Plumbing(c.right, in, out)
    [] c.type = "BACK" -> Plumbing(c.cmd, in, out)

EndOf(o) == IF o[1] \in {"pr", "pw"} THEN <<o[1], 0>> ELSE o

(* Every program runs with its input and output where the command line     *)
(* says, and no other descriptor open than the console on 2: no end of a   *)
(* pipe is inherited by a program that is not at it.  The shell itself     *)
(* keeps the console.                                                      *)
Plugged ==
  \A p \in Slots :
    /\ (\E c \in Readers \cup Writers : At(p, c)) =>
         /\ <<Arg(p), EndOf(pr[p].fd[0]), EndOf(pr[p].fd[1])>>
              \in Plumbing(Cmd(pr[p].line), Console, Console)
         /\ pr[p].fd[2] = Console
         /\ \A i \in Fds : i > 2 => pr[p].fd[i] = None
    /\ At(p, "getcmd") => pr[p].fd = Std

(* The programs of c that run in the foreground, and the pairs of which    *)
(* the first has to end before the second begins.                          *)
RECURSIVE Foreground(_)
Foreground(c) ==
  CASE c.type = "EXEC" -> Prog(c)
    [] c.type = "REDIR" -> Foreground(c.cmd)
    [] c.type \in {"PIPE", "LIST"} ->
         Foreground(c.left) \cup Foreground(c.right)
    [] c.type = "BACK" -> {}

RECURSIVE Sequenced(_)
Sequenced(c) ==
  CASE c.type = "EXEC" -> {}
    [] c.type \in {"REDIR", "BACK"} -> Sequenced(c.cmd)
    [] c.type = "PIPE" -> Sequenced(c.left) \cup Sequenced(c.right)
    [] c.type = "LIST" ->
         Sequenced(c.left) \cup Sequenced(c.right) \cup
         Foreground(c.left) \X {x[1] : x \in Plumbing(c.right, None, None)}

Runs(p, n, q) == /\ \E c \in Readers \cup Writers : At(p, c)
                 /\ pr[p].line = n /\ Arg(p) = q

(* Commands separated by ; and lines run one after the other: while the    *)
(* second runs no foreground program of the first is left.  (A fork that   *)
(* fails breaks this: the shell of a pipeline gives up without waiting.)   *)
InOrder ==
  "fork" \notin failed =>
    \A n, m \in DOMAIN typed :
      /\ n = m => \A x \in Sequenced(Cmd(n)) :
                    ~\E p, q \in Slots : Runs(p, n, x[1]) /\ Runs(q, n, x[2])
      /\ n < m /\ (\E q \in Slots : pr[q].line = m /\ pr[q].st = "run") =>
           \A x \in Foreground(Cmd(n)), p \in Slots : ~Runs(p, n, x)

(* Whatever is typed, and whichever fork, open, pipe or exec fails, in the *)
(* end a shell waits for a line and nothing of the commands is left:       *)
(* nobody waits for the end of a pipe somebody else holds open.  (Unless   *)
(* init itself finds no process to restart the shell.)                     *)
BackAtPrompt ==
  <>[](\/ panic # ""
       \/ /\ \E p \in Slots : At(p, "getcmd")
          /\ Cardinality({p \in Slots : pr[p].st # "free"}) = 2)

(* runcmd() builds what the command line says: every program runs at its   *)
(* ends of its pipes and files and when those before it are done.          *)
CommandsRun == TypeOK /\ Plugged /\ InOrder
============================================================================
