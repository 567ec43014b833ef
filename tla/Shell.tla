------------------------------- MODULE Shell -------------------------------
(***************************************************************************)
(* The shell of p2 (shell.c, single.c, basic.c, parser.c): it reads lines  *)
(* from a batch file or the terminal, cuts a line into jobs at ; or +, a   *)
(* job into a redirection and the stages of a pipeline, forks a child for  *)
(* every stage and waits.  Each system call of the shell is a step, and so *)
(* are the reads, writes and exits of the children that run meanwhile.     *)
(*                                                                         *)
(* A text is a sequence of tokens: words, blanks, and the separators.  A   *)
(* line of the input ends with a newline, which is not written down.       *)
(*                                                                         *)
(* Definitions named "..._bug" are deviations a careless edit could make;  *)
(* each stands before the definition it would replace and is used nowhere. *)
(***************************************************************************)
EXTENDS Integers, FiniteSets, SequencesExt

CONSTANTS
  Inputs,         \* [batch, rewinds : BOOLEAN, lines : Seq(texts)]; rewinds: with
                  \* this libc exit() in a child moves the offset of the file
                  \* back, by what the stream had read ahead
  Programs,       \* name -> [reads : BOOLEAN, writes : Nat]: what a program does
                  \* with its standard input and output; others cannot be executed
  Garbage,        \* what cmd_line, which main does not initialise, may contain
  MAX_LENGTH,     \* the longest line
  FILE_LENGTH,    \* what fgets takes of a line of a file; 4096 in the code
  PipeCapacity,   \* what a pipe holds
  MaxFailures     \* bound: system calls that fail

SEMICOLON == ";"
SEPARATORS == {SEMICOLON, "+", ">", "|", " "}
Token == SEPARATORS \cup STRING
Text == Seq(Token)
BUILTIN == {"quit", "pwd", "cd"}
SHELL == 0        \* as a holder of pipe ends; children are 1, 2, ...

ASSUME ShellAssumption ==
  /\ MAX_LENGTH \in Nat \ {0, 1} /\ FILE_LENGTH \in Nat /\ FILE_LENGTH > MAX_LENGTH + 1
  /\ PipeCapacity \in Nat \ {0} /\ MaxFailures \in Nat
  /\ Inputs \subseteq [batch : BOOLEAN, rewinds : BOOLEAN, lines : Seq(Text)]
  /\ \A in \in Inputs : in.rewinds =>       \* offset counts whole lines
       \A k \in DOMAIN in.lines : Len(in.lines[k]) < FILE_LENGTH - 1
  /\ Garbage \subseteq Text
  /\ DOMAIN Programs \cap (SEPARATORS \cup BUILTIN) = {}

VARIABLES
  given,        \* the input
  unread,       \* lines in the buffer of the stream
  offset,       \* lines of the file in front of its descriptor's offset
  sh,           \* what the shell does next, or "exited", "segv"
  cmd_line,     \* the line buffer of main
  mode_code, mysh_argv, i, child_pid,     \* locals of executeCurrentLine
  piped, pipe_argv, j, pipe_pid, pipe_fd, \* locals of executeSingleJob; a pipe
                \* is [n : Nat, rd, wr : sets of holders], n what it contains
  procs,        \* the shell's children: pid -> [kind, job, in, out, reads, todo,
                \* running]; in and out are pipes, or 0 if the terminal or a file
  failures,     \* system calls that failed
  asked,        \* history: the jobs of this line
  ran           \* history: the stages of it that were begun, <<job, stage>>

stream   == <<given, unread, offset>>
line     == <<cmd_line, mode_code, mysh_argv>>
pipeline == <<piped, pipe_argv, pipe_pid>>
vars == <<stream, sh, line, i, child_pid, pipeline, j, pipe_fd, procs, failures, ran, asked>>

-----------------------------------------------------------------------------
(* strtok, in a loop: the maximal runs without c.                          *)

Begins(text, c) == {k \in 1..Len(text) : text[k] # c /\ (k > 1 => text[k - 1] = c)}
EndOf(text, c, k) == Min({e \in k..Len(text) : e = Len(text) \/ text[e + 1] = c})

Split(text, c) ==
  LET begins == Begins(text, c)
      nth(n) == CHOOSE k \in begins : Cardinality({b \in begins : b <= k}) = n
  IN  [n \in 1..Cardinality(begins) |-> SubSeq(text, nth(n), EndOf(text, c, nth(n)))]

Words(text) == SelectSeq(text, LAMBDA x : x # " ")

\* What strtok leaves of a text: it ends behind its first run.
Cut(text, c) ==
  IF Begins(text, c) = {} THEN text
  ELSE SubSeq(text, 1, EndOf(text, c, Min(Begins(text, c))))

getCommandMode(text) ==
  (IF Contains(text, SEMICOLON) THEN 1 ELSE 0) + (IF Contains(text, "+") THEN 2 ELSE 0)

isEmptyLine(text) == Words(text) = <<>>

-----------------------------------------------------------------------------
(* Children.                                                               *)

NewPid == CHOOSE p \in 1..(Cardinality(DOMAIN procs) + 1) : p \notin DOMAIN procs
Quick(kind) == [kind |-> kind, job |-> i, in |-> 0, out |-> 0, reads |-> FALSE,
                todo |-> 0, running |-> TRUE]

\* fork, which returns pid in the shell.
Fork(pid, child) ==
  \/ /\ pid = NewPid
     /\ procs' = [p \in DOMAIN procs \cup {pid} |-> IF p = pid THEN child ELSE procs[p]]
     /\ UNCHANGED failures
  \/ /\ pid = -1 /\ failures < MaxFailures
     /\ failures' = failures + 1
     /\ UNCHANGED procs
Pids == {NewPid, -1}

Zombie(p) == p \in DOMAIN procs /\ ~procs[p].running
Reap(p) == procs' = Restrict(procs, DOMAIN procs \ {p})

\* A child inherits every end the shell has open, a stage of a pipeline closes
\* the one end of its pipes it does not use.
Inherit(p, quick) ==
  [k \in DOMAIN pipe_fd |->
     IF SHELL \notin pipe_fd[k].rd THEN pipe_fd[k]
     ELSE [pipe_fd[k] EXCEPT !.rd = IF ~quick /\ k = j THEN @ ELSE @ \cup {p},
                             !.wr = IF ~quick /\ k = j - 1 THEN @ ELSE @ \cup {p}]]

CloseInShell_bug(pipes, k) ==     \* forgets one end
  IF k \notin DOMAIN pipes THEN pipes ELSE [pipes EXCEPT ![k].rd = @ \ {SHELL}]

CloseInShell(pipes, k) ==
  IF k \notin DOMAIN pipes THEN pipes
  ELSE [pipes EXCEPT ![k].rd = @ \ {SHELL}, ![k].wr = @ \ {SHELL}]

Alive(p) == procs[p].running
Become(p, child) == procs' = [procs EXCEPT ![p] = child]

ChildReads(p) ==
  LET k == procs[p].in
  IN  /\ Alive(p) /\ procs[p].reads /\ k # 0
      /\ pipe_fd[k].n > 0
      /\ pipe_fd' = [pipe_fd EXCEPT ![k].n = @ - 1]
      /\ Become(p, [procs[p] EXCEPT !.todo = @ + 1])
      /\ UNCHANGED offset

\* End of file: the pipe is empty and nobody can write to it any more.
ChildReadsEOF(p) ==
  LET k == procs[p].in
  IN  /\ Alive(p) /\ procs[p].reads
      /\ k # 0 => pipe_fd[k].n = 0 /\ pipe_fd[k].wr = {}
      /\ Become(p, [procs[p] EXCEPT !.reads = FALSE])
      /\ UNCHANGED <<pipe_fd, offset>>

ChildWrites(p) ==
  LET k == procs[p].out
  IN  /\ Alive(p) /\ procs[p].todo > 0
      /\ k # 0 => pipe_fd[k].n < PipeCapacity
      /\ pipe_fd' = IF k = 0 THEN pipe_fd ELSE [pipe_fd EXCEPT ![k].n = @ + 1]
      /\ Become(p, [procs[p] EXCEPT !.todo = @ - 1])
      /\ UNCHANGED offset

\* exit, unlike _exit, gives back what the stream had read ahead.
ChildExits(p) ==
  /\ Alive(p) /\ ~procs[p].reads /\ procs[p].todo = 0
  /\ Become(p, [procs[p] EXCEPT !.running = FALSE])
  /\ pipe_fd' = [k \in DOMAIN pipe_fd |->
                   [pipe_fd[k] EXCEPT !.rd = @ \ {p}, !.wr = @ \ {p}]]
  /\ offset' = IF given.rewinds /\ procs[p].kind = "exit" /\ Len(unread) <= offset
               THEN offset - Len(unread) ELSE offset

ChildStep(p) ==
  /\ p \in DOMAIN procs
  /\ ChildReads(p) \/ ChildReadsEOF(p) \/ ChildWrites(p) \/ ChildExits(p)
  /\ UNCHANGED <<given, unread, sh, line, i, child_pid, pipeline, j, failures, ran, asked>>

-----------------------------------------------------------------------------
(* main.                                                                   *)

\* fgets refills an empty buffer from the file.
Buffered == IF unread # <<>> THEN unread
            ELSE SubSeq(given.lines, offset + 1, Len(given.lines))

\* Of a line that is longer, the rest is a line of its own for the next fgets.
Piece(size) == SubSeq(Head(Buffered), 1, Min({size - 1, Len(Head(Buffered))}))
Left(size) == IF Len(Head(Buffered)) < size - 1 THEN <<>>
              ELSE <<SubSeq(Head(Buffered), size, Len(Head(Buffered)))>>

Fgets(size) ==
  /\ sh = "read" /\ Buffered # <<>>
  /\ unread' = Left(size) \o Tail(Buffered)
  /\ offset' = IF unread = <<>> THEN Len(given.lines) ELSE offset
  /\ UNCHANGED given

\* executeCurrentLine, up to its loops.
Begin(text) ==
  /\ mode_code' = getCommandMode(text)
  /\ mysh_argv' = CASE mode_code' <= 1 -> Split(text, SEMICOLON)
                    [] mode_code' = 2  -> Split(text, "+")
                    [] OTHER           -> <<>>       \* an error message
  /\ sh' = IF mysh_argv' = <<>> THEN "read" ELSE "job"
  /\ i' = 1 /\ child_pid' = <<>> /\ asked' = mysh_argv' /\ ran' = <<>>
  /\ UNCHANGED <<pipeline, j, pipe_fd>>

\* strlen counts the newline.
TooLong == Min({FILE_LENGTH - 1, Len(Head(Buffered)) + 1}) > MAX_LENGTH

SkipLine ==
  /\ given.batch /\ Fgets(FILE_LENGTH)
  /\ TooLong \/ isEmptyLine(Piece(FILE_LENGTH))
  /\ UNCHANGED <<sh, line, i, child_pid, pipeline, j, pipe_fd, procs, failures, ran, asked>>

BatchLine ==
  /\ given.batch /\ Fgets(FILE_LENGTH)
  /\ ~TooLong /\ ~isEmptyLine(Piece(FILE_LENGTH))
  /\ cmd_line' = Piece(FILE_LENGTH) /\ sh' = "sync"
  /\ UNCHANGED <<mode_code, mysh_argv, i, child_pid, pipeline, j, pipe_fd, procs, failures,
                 ran, asked>>

\* The child that exits at once, and wait(NULL): any child will do, or none.
BatchFork ==
  /\ sh = "sync" /\ sh' = "syncwait"
  /\ \E pid \in Pids : Fork(pid, Quick("exit"))
  /\ UNCHANGED <<stream, line, i, child_pid, pipeline, j, pipe_fd, ran, asked>>

BatchWait ==
  /\ sh = "syncwait"
  /\ \/ \E p \in DOMAIN procs : Zombie(p) /\ Reap(p)
     \/ procs = <<>> /\ UNCHANGED procs
  /\ Begin(cmd_line)
  /\ UNCHANGED <<stream, cmd_line, failures>>

BatchEnd ==
  /\ given.batch /\ sh = "read" /\ Buffered = <<>> /\ sh' = "exited"
  /\ UNCHANGED <<stream, line, i, child_pid, pipeline, j, pipe_fd, procs, failures, ran, asked>>

\* The terminal.  strtok does not remove the newline of an empty line, which is
\* then a blank job.  parseSingleCommand is called first, on cmd_line itself, of
\* which the first word remains.
PromptLine ==
  LET text == IF Piece(MAX_LENGTH) = <<>> THEN <<" ">> ELSE Piece(MAX_LENGTH)
  IN  /\ ~given.batch /\ Fgets(MAX_LENGTH)
      /\ Begin(text) /\ cmd_line' = Cut(text, " ")
      /\ UNCHANGED <<procs, failures>>

\* At end of file fgets leaves cmd_line alone, and what is there runs again.
PromptEOF ==
  /\ ~given.batch /\ sh = "read" /\ Buffered = <<>>
  /\ Len(cmd_line) < MAX_LENGTH
  /\ Begin(cmd_line) /\ cmd_line' = Cut(cmd_line, " ")
  /\ UNCHANGED <<stream, procs, failures>>

\* Nothing was ever read, and strcpy copies garbage to the end of cmd_line2.
PromptGarbage ==
  /\ ~given.batch /\ sh = "read" /\ Buffered = <<>>
  /\ Len(cmd_line) >= MAX_LENGTH /\ sh' = "segv"
  /\ UNCHANGED <<stream, line, i, child_pid, pipeline, j, pipe_fd, procs, failures, ran, asked>>

-----------------------------------------------------------------------------
(* executeSingleJob.                                                       *)

Set_bug(seq, k, v) == Append(seq, v)
Set(seq, k, v) == IF k > Len(seq) THEN Append(seq, v) ELSE [seq EXCEPT ![k] = v]

\* strtok cuts the job at the first > behind something, before anybody looks for
\* pipes.  A redirection to nothing copies from NULL, and so does a job of > only.
Unredirected(job) == Cut(job, ">")
NoTarget(job) ==
  \/ Split(job, ">") = <<>>
  \/ Len(Split(job, ">")) > 1 /\ Words(Split(job, ">")[2]) = <<>>

\* After the last stage the sequential loop waits for the job, the parallel one
\* starts the next.
AfterJob_bug ==     \* waits when all jobs were started, as for +
  IF i < Len(mysh_argv) THEN sh' = "job" /\ i' = i + 1
  ELSE sh' = "wait" /\ i' = 1

AfterJob ==
  IF mode_code <= 1 THEN sh' = "wait" /\ i' = i
  ELSE IF i < Len(mysh_argv) THEN sh' = "job" /\ i' = i + 1
  ELSE sh' = "wait" /\ i' = 1

StartJob ==
  /\ sh = "job" /\ ~NoTarget(mysh_argv[i])
  /\ ~Contains(Unredirected(mysh_argv[i]), "|")
  /\ mysh_argv' = [mysh_argv EXCEPT ![i] = Unredirected(@)]
  /\ piped' = FALSE /\ pipe_argv' = <<Split(mysh_argv[i], ">")[1]>>
  /\ pipe_pid' = <<>> /\ pipe_fd' = <<>>
  /\ sh' = "stage" /\ j' = 1
  /\ UNCHANGED <<stream, cmd_line, mode_code, i, child_pid, procs, failures, ran, asked>>

\* A pipeline has a child of its own that exits at once and stands for the job
\* in child_pid; then all the pipes are made, or the shell exits.  A job of |
\* only has no stage.
StartPipeline ==
  LET job == Unredirected(mysh_argv[i])
      stages == Split(job, "|")
  IN  /\ sh = "job" /\ ~NoTarget(mysh_argv[i]) /\ Contains(job, "|")
      /\ \E pid \in Pids : Fork(pid, Quick("exit")) /\ child_pid' = Set(child_pid, i, pid)
      /\ piped' = TRUE /\ pipe_argv' = stages
      /\ mysh_argv' = [mysh_argv EXCEPT ![i] = Cut(job, "|")]
      /\ pipe_pid' = <<>>
      /\ pipe_fd' = [k \in 1..(Len(stages) - 1) |->
                       [n |-> 0, rd |-> {SHELL}, wr |-> {SHELL}]]
      /\ \/ stages = <<>> /\ AfterJob
         \/ stages # <<>> /\ sh' = "stage" /\ UNCHANGED i
         \/ Len(stages) > 1 /\ failures < MaxFailures /\ sh' = "exited" /\ UNCHANGED i
      /\ j' = 1
      /\ UNCHANGED <<stream, cmd_line, mode_code, ran, asked>>

BlankTarget ==
  /\ sh = "job" /\ NoTarget(mysh_argv[i]) /\ sh' = "segv"
  /\ UNCHANGED <<stream, line, i, child_pid, pipeline, j, pipe_fd, procs, failures, ran, asked>>

-----------------------------------------------------------------------------
(* executeAtomicCommand, for stage j of job i.                             *)

Argv == Words(pipe_argv[j])
Builtin == Argv[1] \in BUILTIN
Quits == Argv = <<"quit">>

\* argv[0] of a blank command is NULL.
BlankCommand ==
  /\ sh = "stage" /\ Argv = <<>> /\ sh' = "segv"
  /\ UNCHANGED <<stream, line, i, child_pid, pipeline, j, pipe_fd, procs, failures, ran, asked>>

Quit ==
  /\ sh = "stage" /\ Quits /\ sh' = "exited"
  /\ UNCHANGED <<stream, line, i, child_pid, pipeline, j, pipe_fd, procs, failures, ran, asked>>

\* A builtin runs in the shell, then a child is forked that exits at once.  One
\* that cannot be executed ends like one that reads and writes nothing.
Child ==
  LET name == Argv[1]
      does == IF name \in DOMAIN Programs THEN Programs[name]
              ELSE [reads |-> FALSE, writes |-> 0]
  IN  IF Builtin THEN Quick("_exit")
      ELSE [kind |-> "program", job |-> i, in |-> j - 1,
            out |-> IF j \in DOMAIN pipe_fd THEN j ELSE 0,
            reads |-> does.reads, todo |-> does.writes, running |-> TRUE]

\* The shell closes the pipe in front of the stage when both its ends are in use.
\* What it forked is child_pid[i], or pipe_pid[j] in a pipeline.  The first
\* stage is the end of what remains of the job, and is cut behind its first word.
Stage ==
  /\ sh = "stage" /\ Argv # <<>> /\ ~Quits
  /\ \E pid \in Pids :
       /\ Fork(pid, Child)
       /\ pipe_fd' = CloseInShell(IF pid = -1 THEN pipe_fd ELSE Inherit(pid, Builtin), j - 1)
       /\ IF piped THEN pipe_pid' = Append(pipe_pid, pid) /\ UNCHANGED child_pid
                   ELSE child_pid' = Set(child_pid, i, pid) /\ UNCHANGED pipe_pid
       /\ sh' = IF pid = -1 /\ ~Builtin THEN "exited" ELSE "stagewait"
  /\ mysh_argv' = IF j # 1 THEN mysh_argv
                  ELSE [mysh_argv EXCEPT ![i] =
                          SubSeq(@, 1, Len(@) - Len(pipe_argv[1])) \o Cut(pipe_argv[1], " ")]
  /\ ran' = Append(ran, <<i, j>>)
  /\ UNCHANGED <<stream, cmd_line, mode_code, i, piped, pipe_argv, j, asked>>

-----------------------------------------------------------------------------
(* Waiting: for a stage, then for the job or for all the jobs.             *)

AwaitStage_bug == UNCHANGED procs

AwaitStage ==
  IF piped /\ pipe_pid[j] > 0 THEN Zombie(pipe_pid[j]) /\ Reap(pipe_pid[j])
  ELSE UNCHANGED procs

MoreStages_bug == j + 1 < Len(pipe_argv)
MoreStages == j < Len(pipe_argv)

StageWait ==
  /\ sh = "stagewait" /\ AwaitStage
  /\ IF MoreStages THEN j' = j + 1 /\ sh' = "stage" /\ UNCHANGED i
     ELSE AfterJob /\ UNCHANGED j
  /\ UNCHANGED <<stream, line, child_pid, pipeline, pipe_fd, failures, ran, asked>>

\* waitpid(child_pid[i++]).
JobWait ==
  /\ sh = "wait" /\ child_pid[i] > 0
  /\ Zombie(child_pid[i]) /\ Reap(child_pid[i])
  /\ i' = i + 1
  /\ sh' = IF i = Len(mysh_argv) THEN "read" ELSE IF mode_code <= 1 THEN "job" ELSE "wait"
  /\ UNCHANGED <<stream, line, child_pid, pipeline, j, pipe_fd, failures, ran, asked>>

\* If fork failed i stays: the sequential loop starts the job again, or what
\* strtok has left of it; the parallel one tests the same entry for ever.
NoChildToWaitFor ==
  /\ sh = "wait" /\ child_pid[i] = -1
  /\ sh' = IF mode_code <= 1 THEN "job" ELSE "wait"
  /\ UNCHANGED <<stream, line, i, child_pid, pipeline, j, pipe_fd, procs, failures, ran, asked>>

-----------------------------------------------------------------------------
Init ==
  /\ given \in Inputs /\ unread = <<>> /\ offset = 0
  /\ sh = "read" /\ mode_code = 0 /\ mysh_argv = <<>>
  /\ cmd_line \in IF given.batch THEN {<<>>} ELSE Garbage
  /\ i = 1 /\ child_pid = <<>>
  /\ piped = FALSE /\ pipe_argv = <<>> /\ j = 1 /\ pipe_pid = <<>> /\ pipe_fd = <<>>
  /\ procs = <<>> /\ failures = 0 /\ ran = <<>> /\ asked = <<>>

ReadLine == SkipLine \/ BatchLine \/ BatchEnd \/ PromptLine \/ PromptEOF \/ PromptGarbage
Sync == BatchFork \/ BatchWait
SingleJob == StartJob \/ StartPipeline \/ BlankTarget \/ StageWait
AtomicCommand == Stage \/ BlankCommand \/ Quit
WaitForJobs == JobWait \/ NoChildToWaitFor
ShellStep == ReadLine \/ Sync \/ SingleJob \/ AtomicCommand \/ WaitForJobs

Next == ShellStep \/ \E p \in DOMAIN procs : ChildStep(p)

Spec == Init /\ [][Next]_vars

\* A line has fewer jobs than characters; each has one child at a time that the
\* shell still has to wait for, and one of them a stage that runs.
Pid == 1..(MAX_LENGTH + 1)

\* The kernel runs every process; a program is at its end when it has written
\* what it has to write.
Fairness == WF_vars(ShellStep) /\ \A p \in Pid : WF_vars(ChildStep(p))
FairSpec == Spec /\ Fairness

-----------------------------------------------------------------------------
Ended == sh \in {"exited", "segv"}

TypeOK ==
  /\ given \in Inputs /\ offset \in 0..Len(given.lines)
  /\ sh \in {"read", "sync", "syncwait", "job", "stage", "stagewait", "wait", "exited", "segv"}
  /\ mode_code \in 0..3 /\ i \in 1..(Len(mysh_argv) + 1)
  /\ child_pid \in Seq(Pid \cup {-1}) /\ Len(child_pid) <= Len(mysh_argv)
  /\ j \in 1..(Len(pipe_argv) + 1) /\ pipe_pid \in Seq(Pid \cup {-1})
  /\ DOMAIN procs \subseteq Pid
  /\ \A k \in DOMAIN pipe_fd : pipe_fd[k].n \in 0..PipeCapacity
  /\ failures \in 0..MaxFailures

\* When the shell reads the next line no child of an earlier one is left,
\* neither running nor a zombie: wait(NULL) of the batch loop cannot reap one
\* that somebody else waits for.
NoChildLeft == sh = "read" => procs = <<>>

\* Jobs separated by ; never overlap (shell.c: "execute multiple commands in
\* sequential"), also when a job is a pipeline or a builtin.
JobsDoNotOverlap ==
  mode_code <= 1 /\ ~Ended =>
    \A p, q \in DOMAIN procs :
      procs[p].kind = "program" /\ procs[q].kind # "exit" => procs[p].job = procs[q].job

\* The stages of a line: what strtok leaves in front of a redirection, at |.
StageCount(job) ==
  IF Contains(Unredirected(job), "|") THEN Len(Split(Unredirected(job), "|")) ELSE 1
Planned == UNION {{<<k, s>> : s \in 1..StageCount(asked[k])} : k \in DOMAIN asked}
Before(a, b) == a[1] < b[1] \/ (a[1] = b[1] /\ a[2] < b[2])

\* The stages of a line are begun each once and in its order, none that was not
\* asked for; one that was not begun comes after all that were, and when the
\* next line is read there is none, unless a system call failed.
EachOnceInOrder ==
  failures = 0 =>
    /\ Range(ran) \subseteq Planned
    /\ \A k \in 1..(Len(ran) - 1) : Before(ran[k], ran[k + 1])
    /\ \A s \in Planned \ Range(ran) :
         sh # "read" /\ \A k \in DOMAIN ran : Before(ran[k], s)

\* A stage that has more to write than its pipe holds waits for a reader that
\* is started after it.
Overfull ==
  \E p \in DOMAIN procs : Alive(p) /\ procs[p].todo > 0 /\ procs[p].out # 0
                            /\ pipe_fd[procs[p].out].n = PipeCapacity

\* A line comes to its end, whatever its jobs and pipes are, unless a pipe is
\* too small or a system call failed: readers see the end of what was written.
LineEnds ==
  sh = "job" ~> (sh = "read" \/ Ended \/ Overfull \/ failures > 0)

\* Lines of the file that have been taken from it.
Taken == IF unread = <<>> THEN offset ELSE Len(given.lines) - Len(unread)

\* No line of the file is taken twice, and none is left out (shell.c 157: "make
\* sure that all the lines are finished in order").
LinesInOrder == [][given.batch => Taken' \in {Taken, Taken + 1}]_vars
=============================================================================
