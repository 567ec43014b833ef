----------------------------- MODULE ShellProofs -----------------------------
(***************************************************************************)
(* Proofs about the shell, for any input, any programs and any number of   *)
(* failing system calls: which children there are at every point of a      *)
(* line, and which stages were begun.                                      *)
(***************************************************************************)
EXTENDS Shell, FiniteSetTheorems, SequenceTheorems, WellFoundedInduction, TLAPS

-----------------------------------------------------------------------------
(* The invariants.                                                         *)

Working == {"job", "stage", "stagewait", "wait"}     \* in the middle of a line

\* What was read, and what a line was cut into.
TextInv ==
  /\ sh \in {"read", "sync", "syncwait", "exited", "segv"} \cup Working
  /\ given \in Inputs /\ unread \in Seq(Text) /\ offset \in 0..Len(given.lines)
  /\ cmd_line \in Text
  /\ mysh_argv \in Seq(Text)
  /\ sh \in Working => mode_code \in 0..2 /\ i \in 1..Len(mysh_argv)

\* A child has a place in the table as long as it was not waited for.
ProcInv ==
  /\ \E S : procs \in [DOMAIN procs -> S]
  /\ IsFiniteSet(DOMAIN procs) /\ DOMAIN procs \subseteq Nat \ {0}
  /\ \A p \in DOMAIN procs : {"kind", "job"} \subseteq DOMAIN procs[p]
  /\ failures \in Nat

\* The stages of job i, and the children forked for them.
StageInv ==
  /\ child_pid \in Seq(Int) /\ pipe_pid \in Seq(Int) /\ piped \in BOOLEAN
  /\ \A k \in 1..Len(child_pid) : child_pid[k] = -1 => failures > 0
  /\ sh \in {"stage", "stagewait"} =>
       /\ j \in Nat \ {0} /\ pipe_argv \in Seq(Text) /\ j <= Len(pipe_argv)
       /\ Len(pipe_pid) = IF ~piped THEN 0 ELSE IF sh = "stage" THEN j - 1 ELSE j
       /\ ~piped => Len(pipe_argv) = 1

\* The jobs that have an entry in child_pid: those before i, job i once its
\* child was forked, and all while the shell waits for parallel ones.  Behind
\* them is at most what a failed fork left of job i.
Entered == IF sh = "wait" /\ mode_code = 2 THEN Len(mysh_argv)
           ELSE IF sh = "job" \/ (sh = "stage" /\ ~piped) THEN i - 1 ELSE i
EntriesInv ==
  sh \in Working =>
    /\ Len(child_pid) = Entered \/ Len(child_pid) = i
    /\ Entered <= Len(child_pid)

\* The first job whose child the shell has still to wait for.
First == IF sh = "wait" \/ mode_code <= 1 THEN i ELSE 1

\* Whose child p is: of job k, or of the stage the shell is waiting for.
OfJob(p) == \E k \in First..Entered : child_pid[k] = p
OfStage(p) == sh = "stagewait" /\ piped /\ pipe_pid[j] = p

ChildrenInv ==
  /\ sh \in {"read", "sync"} => DOMAIN procs = {}
  /\ sh = "syncwait" => \A p, q \in DOMAIN procs : p = q /\ procs[p].kind = "exit"
  /\ sh \in Working =>
       \A p \in DOMAIN procs : /\ OfJob(p) \/ OfStage(p)
                               /\ mode_code <= 1 => procs[p].job = i

\* The jobs of the line that nothing was cut from.
Untouched == IF sh = "job" THEN i ELSE i + 1

\* What strtok left of a line is what was asked for, from the job on that is
\* next; only a failed call lets a job be started again that was cut.
AskedInv ==
  /\ asked \in Seq(Text)
  /\ sh \in Working => Len(asked) = Len(mysh_argv)
  /\ failures = 0 =>
       /\ sh \in Working /\ ~(sh = "wait" /\ mode_code = 2) =>
            \A k \in Untouched..Len(asked) : mysh_argv[k] = asked[k]
       /\ sh \in {"stage", "stagewait"} => Len(pipe_argv) = StageCount(asked[i])

\* The stages in front of u, and no other, were begun.
RanTo(u) ==
  /\ \A k \in 1..(Len(ran) - 1) : Before(ran[k], ran[k + 1])
  /\ Range(ran) = {s \in Planned : Before(s, u)}

\* Where the shell is in its line.
Upto ==
  CASE sh = "job"                     -> <<i, 1>>
    [] sh = "stage"                   -> <<i, j>>
    [] sh = "stagewait"               -> <<i, j + 1>>
    [] sh = "wait" /\ mode_code <= 1  -> <<i + 1, 1>>
    [] OTHER                          -> <<Len(asked) + 1, 1>>

OrderInv ==
  /\ ran \in Seq(Nat \X Nat)
  /\ failures = 0 => \E u \in Nat \X Nat : RanTo(u) /\ (~Ended => u = Upto)

IInv == TextInv /\ ProcInv /\ StageInv /\ EntriesInv /\ ChildrenInv /\ AskedInv /\ OrderInv

\* A line has no more jobs than characters, and there is a pid for the child of
\* each of them and for a stage that runs.
LineBound ==
  /\ mode_code \in 0..3
  /\ cmd_line \in Text
  /\ sh \in {"sync", "syncwait"} => Len(cmd_line) <= MAX_LENGTH
  /\ mysh_argv \in Seq(Text) /\ Len(mysh_argv) <= MAX_LENGTH
  /\ i \in 1..(Len(mysh_argv) + 1)
PidBound ==
  /\ child_pid \in Seq(Pid \cup {-1}) /\ Len(child_pid) <= Len(mysh_argv)
  /\ pipe_pid \in Seq(Pid \cup {-1})
  /\ DOMAIN procs \subseteq Pid /\ failures \in 0..MaxFailures
PipesBounded(pipes) ==
  \A k \in DOMAIN pipes : {"n", "rd", "wr"} = DOMAIN pipes[k] /\ pipes[k].n \in 0..PipeCapacity
PipeBound ==
  /\ pipe_argv \in Seq(Text)
  /\ j \in 1..(Len(pipe_argv) + 1)
  /\ PipesBounded(pipe_fd)
BoundInv == LineBound /\ PidBound /\ PipeBound

-----------------------------------------------------------------------------
(* What the helpers return.                                                *)

LEMMA LeastElement ==
  ASSUME NEW S, S \subseteq Nat, S # {}
  PROVE  \E x \in S : \A y \in S : x <= y
<1> DEFINE Less == {ss \in Nat \X Nat : ss[1] < ss[2]}
<1>1. IsWellFoundedOn(Less, Nat)
    BY NatLessThanWellFounded DEF OpToRel
<1> HIDE DEF Less
<1>2. PICK x \in S : \A y \in S : ~ (<<y, x>> \in Less)
    BY <1>1, WFMin
<1>3. \A y \in S : ~(y < x)
    BY <1>2 DEF Less
<1>4. QED
    BY <1>3

\* A piece of a text is a text that is not longer.
Shorter(text) == {t \in Text : Len(t) <= Len(text)}

LEMMA EndOfRun ==
  ASSUME NEW text \in Text, NEW c, NEW k \in 1..Len(text)
  PROVE  EndOf(text, c, k) \in k..Len(text)
<1> DEFINE Ends == {e \in k..Len(text) : e = Len(text) \/ text[e + 1] = c}
<1>1. Len(text) \in Nat /\ Len(text) \in Ends
    BY DEF Text
<1>2. Ends \subseteq Nat
    BY <1>1
<1>3. Min(Ends) \in Ends
    BY <1>1, <1>2, LeastElement DEF Min
<1>4. Min(Ends) \in k..Len(text)
    BY <1>3
<1>5. QED
    BY <1>4 DEF EndOf

LEMMA PieceIsShorter ==
  ASSUME NEW text \in Text, NEW k \in 1..(Len(text) + 1), NEW e \in (k - 1)..Len(text)
  PROVE  SubSeq(text, k, e) \in Shorter(text) /\ Len(SubSeq(text, k, e)) = e - k + 1
<1>1. Len(text) \in Nat
    BY DEF Text
<1>2. SubSeq(text, k, e) \in Seq(Token) /\ Len(SubSeq(text, k, e)) = e - k + 1
    BY <1>1 DEF Text
<1>3. e - k + 1 <= Len(text)
    BY <1>1
<1>4. QED
    BY <1>2, <1>3 DEF Text, Shorter

LEMMA RunIsShorter ==
  ASSUME NEW text \in Text, NEW c, NEW k \in 1..Len(text)
  PROVE  SubSeq(text, k, EndOf(text, c, k)) \in Shorter(text)
<1>1. EndOf(text, c, k) \in k..Len(text) /\ Len(text) \in Nat
    BY EndOfRun DEF Text
<1>2. k \in 1..(Len(text) + 1) /\ EndOf(text, c, k) \in (k - 1)..Len(text)
    BY <1>1
<1>3. QED
    BY <1>2, PieceIsShorter

\* A set of numbers has an n-th element.
LEMMA NthElement ==
  ASSUME NEW L \in Nat, NEW B \in SUBSET (1..L), NEW n \in 1..Cardinality(B)
  PROVE  \E k \in B : Cardinality({b \in B : b <= k}) = n
<1> DEFINE Below(k) == {b \in B : b <= k}
           Reach == {k \in 0..L : Cardinality(Below(k)) >= n}
<1>0. \A b \in B : b \in Nat /\ 1 <= b /\ b <= L
    OBVIOUS
<1>1. IsFiniteSet(B)
  <2>1. IsFiniteSet(1..L)
      BY FS_Interval
  <2>2. QED
      BY <2>1, FS_Subset
<1>2. \A k : IsFiniteSet(Below(k)) /\ Cardinality(Below(k)) \in Nat
    BY <1>1, FS_Subset, FS_CardinalityType
<1>3. L \in Reach
  <2>1. Below(L) = B
      BY <1>0
  <2>2. Cardinality(B) \in Nat
      BY <1>1, FS_CardinalityType
  <2>3. QED
      BY <2>1, <2>2
<1>4. PICK k \in Reach : \A x \in Reach : k <= x
  <2>1. Reach \subseteq 0..L
      OBVIOUS
  <2> HIDE DEF Reach
  <2>2. Reach \subseteq Nat /\ Reach # {}
      BY <1>3, <2>1
  <2>3. QED
      BY <2>2, LeastElement
<1>4a. k \in 0..L /\ k \in Nat
    BY <1>4
<1>5. k # 0
  <2>0. \A b \in B : ~(b <= 0)
      BY <1>0
  <2>1. Below(0) = {}
      BY <2>0
  <2>2. Cardinality(Below(0)) = 0
      BY <2>1, FS_EmptySet
  <2>3. QED
      BY <1>4, <2>2
<1>6. Cardinality(Below(k - 1)) < n
  <2>0. k - 1 \in 0..L /\ ~(k <= k - 1)
      BY <1>4a, <1>5
  <2>1. k - 1 \notin Reach
    <3> HIDE DEF Reach
    <3>1. QED
        BY <1>4, <2>0
  <2>2. Cardinality(Below(k - 1)) \in Nat
      BY <1>2
  <2> HIDE DEF Below
  <2>3. QED
      BY <2>0, <2>1, <2>2
<1>7. Below(k) = Below(k - 1) \cup (B \cap {k})
  <2>1. \A b \in B : b <= k <=> b <= k - 1 \/ b = k
      BY <1>0, <1>4a
  <2>2. QED
      BY <2>1
<1>8. Cardinality(Below(k)) >= n
    BY <1>4
<1> HIDE DEF Below
<1>9. k \in B
  <2>1. k \notin B => Below(k) = Below(k - 1)
      BY <1>7
  <2>2. Cardinality(Below(k - 1)) \in Nat
      BY <1>2
  <2>3. QED
      BY <1>6, <1>8, <2>1, <2>2
<1>10. Cardinality(Below(k)) <= Cardinality(Below(k - 1)) + 1
  <2>1. Below(k) = Below(k - 1) \cup {k}
      BY <1>7, <1>9
  <2>2. Cardinality(Below(k - 1)) \in Nat /\ IsFiniteSet(Below(k - 1))
      BY <1>2
  <2>3. Cardinality(Below(k - 1) \cup {k})
           = IF k \in Below(k - 1) THEN Cardinality(Below(k - 1)) ELSE Cardinality(Below(k - 1)) + 1
      BY <2>2, FS_AddElement
  <2>4. QED
      BY <2>1, <2>2, <2>3
<1>11. Cardinality(Below(k)) = n
    BY <1>2, <1>6, <1>8, <1>10
<1>12. QED
    BY <1>9, <1>11 DEF Below

LEMMA SplitIsShorter ==
  ASSUME NEW text \in Text, NEW c
  PROVE  Split(text, c) \in Seq(Shorter(text)) /\ Len(Split(text, c)) <= Len(text)
<1> DEFINE begins == Begins(text, c)
           nth(n) == CHOOSE k \in begins : Cardinality({b \in begins : b <= k}) = n
           run(n) == SubSeq(text, nth(n), EndOf(text, c, nth(n)))
<1>1. Len(text) \in Nat /\ IsFiniteSet(1..Len(text)) /\ Cardinality(1..Len(text)) = Len(text)
  <2>1. PICK L \in Nat : L = Len(text)
      BY DEF Text
  <2>2. IsFiniteSet(1..L) /\ Cardinality(1..L) = L
      BY FS_Interval
  <2>3. QED
      BY <2>1, <2>2
<1>2. begins \in SUBSET (1..Len(text))
    BY DEF Begins
<1>3. Split(text, c) = [n \in 1..Cardinality(begins) |-> run(n)]
    BY DEF Split
<1> HIDE DEF begins
<1>4. Cardinality(begins) \in Nat /\ Cardinality(begins) <= Len(text)
    BY <1>1, <1>2, FS_Subset, FS_CardinalityType
<1>5. ASSUME NEW n \in 1..Cardinality(begins) PROVE run(n) \in Shorter(text)
  <2>1. \E k \in begins : Cardinality({b \in begins : b <= k}) = n
      BY <1>1, <1>2, NthElement
  <2>2. nth(n) \in begins
      BY <2>1
  <2>3. QED
      BY <1>2, <2>2, RunIsShorter
<1> HIDE DEF run
<1>6. QED
    BY <1>3, <1>4, <1>5

LEMMA SplitIsTexts ==
  ASSUME NEW text \in Text, NEW c
  PROVE  Split(text, c) \in Seq(Text) /\ Len(Split(text, c)) <= Len(text)
<1>1. Shorter(text) \subseteq Text
    BY DEF Shorter
<1>2. QED
    BY <1>1, SplitIsShorter, SeqMonotonic

LEMMA CutIsShorter ==
  ASSUME NEW text \in Text, NEW c
  PROVE  Cut(text, c) \in Shorter(text)
<1>1. text \in Shorter(text) /\ Len(text) \in Nat
    BY DEF Shorter, Text
<1>2. CASE Begins(text, c) # {}
  <2>1. Begins(text, c) \subseteq 1..Len(text)
      BY DEF Begins
  <2>2. PICK first : first = Min(Begins(text, c))
      OBVIOUS
  <2>3. first \in Begins(text, c)
    <3>1. Begins(text, c) \subseteq Nat
        BY <2>1
    <3>2. QED
        BY <1>2, <2>2, <3>1, LeastElement DEF Min
  <2>4. first \in 1..Len(text)
      BY <2>1, <2>3
  <2>5. EndOf(text, c, first) \in first..Len(text)
      BY <2>4, EndOfRun
  <2>6. 1 \in 1..(Len(text) + 1) /\ EndOf(text, c, first) \in (1 - 1)..Len(text)
      BY <1>1, <2>4, <2>5
  <2>7. QED
      BY <1>2, <2>2, <2>6, PieceIsShorter DEF Cut
<1>3. QED
    BY <1>1, <1>2 DEF Cut

LEMMA CutIsText ==
  ASSUME NEW text \in Text, NEW c
  PROVE  Cut(text, c) \in Text
BY CutIsShorter DEF Shorter

\* What remains of a job whose first stage was cut.
LEMMA RestIsText ==
  ASSUME NEW text \in Text, NEW first \in Text
  PROVE  SubSeq(text, 1, Len(text) - Len(first)) \o Cut(first, " ") \in Text
<1> DEFINE n == Len(text) - Len(first)
<1>1. Len(text) \in Nat /\ Len(first) \in Nat /\ n \in Int /\ n <= Len(text)
    BY DEF Text
<1> HIDE DEF n
<1>2. SubSeq(text, 1, n) \in Seq(Token)
  <2>1. CASE n >= 0
      BY <1>1, <2>1 DEF Text
  <2>2. CASE n < 0
    <3>1. SubSeq(text, 1, n) = [k \in 1..0 |-> text[k]]
        BY <1>1, <2>2 DEF SubSeq
    <3>2. 1..0 = {}
        OBVIOUS
    <3>3. SubSeq(text, 1, n) = <<>>
        BY <3>1, <3>2
    <3>4. <<>> \in Seq(Token)
        OBVIOUS
    <3>5. QED
        BY <3>3, <3>4, Zenon
  <2>3. QED
      BY <1>1, <2>1, <2>2
<1>3. PICK word : word = Cut(first, " ")
    OBVIOUS
<1>4. word \in Seq(Token)
    BY <1>3, CutIsText DEF Text
<1>5. SubSeq(text, 1, n) \o word \in Text
    BY <1>2, <1>4 DEF Text
<1>6. QED
    BY <1>3, <1>5 DEF n

LEMMA CountIsNat ==
  ASSUME NEW text \in Text
  PROVE  StageCount(text) \in Nat
<1>1. Unredirected(text) \in Text
    BY CutIsText DEF Unredirected
<1>2. Len(Split(Unredirected(text), "|")) \in Nat
    BY <1>1, SplitIsTexts
<1>3. QED
    BY <1>2 DEF StageCount

LEMMA SetEntry ==
  ASSUME NEW seq \in Seq(Int), NEW k \in Nat \ {0}, k <= Len(seq) + 1, NEW v \in Int
  PROVE  /\ Set(seq, k, v) \in Seq(Int)
         /\ Len(Set(seq, k, v)) = IF k > Len(seq) THEN k ELSE Len(seq)
         /\ Set(seq, k, v)[k] = v
         /\ \A m \in 1..Len(seq) : m # k => Set(seq, k, v)[m] = seq[m]
BY DEF Set

-----------------------------------------------------------------------------
(* fork and wait.                                                          *)

LEMMA NewPidIsNew ==
  ASSUME ProcInv
  PROVE  NewPid \in Nat \ {0} /\ NewPid \notin DOMAIN procs
<1>1. IsFiniteSet(DOMAIN procs)
    BY DEF ProcInv
<1>2. PICK n \in Nat : n = Cardinality(DOMAIN procs)
    BY <1>1, FS_CardinalityType
<1>3. Cardinality(1..(n + 1)) = n + 1
    BY FS_Interval
<1>4. ~(1..(n + 1) \subseteq DOMAIN procs)
  <2>1. SUFFICES ASSUME 1..(n + 1) \in SUBSET DOMAIN procs PROVE FALSE
      OBVIOUS
  <2>2. Cardinality(1..(n + 1)) <= Cardinality(DOMAIN procs)
      BY <1>1, <2>1, FS_Subset
  <2>3. QED
      BY <1>2, <1>3, <2>2
<1>5. \E p \in 1..(Cardinality(DOMAIN procs) + 1) : p \notin DOMAIN procs
    BY <1>2, <1>4
<1>6. NewPid \in 1..(Cardinality(DOMAIN procs) + 1) /\ NewPid \notin DOMAIN procs
    BY <1>5 DEF NewPid
<1>7. QED
    BY <1>2, <1>6

\* fork adds a child, or fails.
Added(pid, child) ==
  /\ pid \in Nat \ {0} /\ pid \notin DOMAIN procs
  /\ DOMAIN procs' = DOMAIN procs \cup {pid}
  /\ procs'[pid] = child /\ \A p \in DOMAIN procs : procs'[p] = procs[p]
  /\ failures' = failures
Failed(pid) == pid = -1 /\ procs' = procs /\ failures' = failures + 1

LEMMA ForkAddsOne ==
  ASSUME ProcInv, NEW pid, NEW child, Fork(pid, child), {"kind", "job"} \subseteq DOMAIN child
  PROVE  ProcInv' /\ (Added(pid, child) \/ Failed(pid)) /\ pid \in Int
<1>1. CASE pid = NewPid /\ failures' = failures
           /\ procs' = [p \in DOMAIN procs \cup {pid} |-> IF p = pid THEN child ELSE procs[p]]
  <2>1. pid \in Nat \ {0} /\ pid \notin DOMAIN procs
      BY <1>1, NewPidIsNew
  <2>2. Added(pid, child)
      BY <1>1, <2>1 DEF Added
  <2>3. IsFiniteSet(DOMAIN procs')
      BY <1>1, FS_AddElement DEF ProcInv
  <2>4. \E S : procs' \in [DOMAIN procs' -> S]
    <3>1. procs' \in [DOMAIN procs' -> {procs'[p] : p \in DOMAIN procs'}]
        BY <1>1
    <3>2. QED
        BY <3>1
  <2>5. \A p \in DOMAIN procs' : {"kind", "job"} \subseteq DOMAIN procs'[p]
      BY <2>2 DEF Added, ProcInv
  <2>6. QED
      BY <1>1, <2>1, <2>2, <2>3, <2>4, <2>5 DEF ProcInv, Added
<1>2. CASE pid = -1 /\ failures' = failures + 1 /\ UNCHANGED procs
    BY <1>2 DEF ProcInv, Failed
<1>3. QED
    BY <1>1, <1>2 DEF Fork

LEMMA ReapTakesOne ==
  ASSUME ProcInv, NEW q \in DOMAIN procs, Reap(q), UNCHANGED failures
  PROVE  /\ ProcInv'
         /\ DOMAIN procs' = DOMAIN procs \ {q}
         /\ \A p \in DOMAIN procs' : procs'[p] = procs[p]
<1>1. procs' = [p \in DOMAIN procs \ {q} |-> procs[p]]
    BY DEF Reap, Restrict
<1>2. /\ DOMAIN procs' = DOMAIN procs \ {q}
      /\ \A p \in DOMAIN procs' : procs'[p] = procs[p]
    BY <1>1
<1>3. IsFiniteSet(DOMAIN procs')
    BY <1>2, FS_RemoveElement DEF ProcInv
<1>4. \E S : procs' \in [DOMAIN procs' -> S]
  <2>1. procs' \in [DOMAIN procs' -> {procs[p] : p \in DOMAIN procs'}]
      BY <1>1
  <2>2. QED
      BY <2>1
<1>5. QED
    BY <1>2, <1>3, <1>4 DEF ProcInv

-----------------------------------------------------------------------------
(* The order of the stages.                                                *)

LEMMA PlannedStages ==
  ASSUME asked \in Seq(Text), NEW s
  PROVE  s \in Planned <=> \E k \in 1..Len(asked) : \E m \in 1..StageCount(asked[k]) : s = <<k, m>>
BY DEF Planned

LEMMA PlannedPairs ==
  ASSUME asked \in Seq(Text), NEW s \in Planned
  PROVE  /\ s[1] \in 1..Len(asked) /\ s[2] \in 1..StageCount(asked[s[1]])
         /\ s = <<s[1], s[2]>> /\ s \in Nat \X Nat
<1>1. PICK k \in 1..Len(asked) : \E m \in 1..StageCount(asked[k]) : s = <<k, m>>
    BY PlannedStages
<1>2. PICK m \in 1..StageCount(asked[k]) : s = <<k, m>>
    BY <1>1
<1>3. s[1] = k /\ s[2] = m
    BY <1>2
<1>4. asked[k] \in Text /\ StageCount(asked[k]) \in Nat
    BY CountIsNat
<1>5. k \in Nat /\ m \in Nat
    BY <1>4
<1>6. QED
    BY <1>2, <1>3, <1>5

\* Nothing was begun, and the shell is where it was, or has ended.
LEMMA OrderStays ==
  ASSUME OrderInv, UNCHANGED <<ran, asked>>, failures' = 0 => failures = 0,
         Ended' \/ (~Ended /\ Upto' = Upto)
  PROVE  OrderInv'
<1>1. ASSUME failures' = 0
      PROVE  \E u \in Nat \X Nat : RanTo(u)' /\ (~Ended' => u = Upto')
  <2>1. PICK u \in Nat \X Nat : RanTo(u) /\ (~Ended => u = Upto)
      BY <1>1 DEF OrderInv
  <2>2. RanTo(u)'
      BY <2>1 DEF RanTo, Planned
  <2>3. QED
      BY <2>1, <2>2
<1>2. ran' \in Seq(Nat \X Nat)
    BY DEF OrderInv
<1>3. QED
    BY <1>1, <1>2 DEF OrderInv

\* Behind the last stage of a job comes the first one of the next.
LEMMA JobDone ==
  ASSUME asked \in Seq(Text), NEW a \in 1..Len(asked), NEW n \in Nat,
         StageCount(asked[a]) = n, RanTo(<<a, n + 1>>)
  PROVE  RanTo(<<a + 1, 1>>)
<1>1. ASSUME NEW s \in Planned
      PROVE  Before(s, <<a, n + 1>>) <=> Before(s, <<a + 1, 1>>)
  <2>1. PICK k, m : k = s[1] /\ m = s[2]
      OBVIOUS
  <2>2. k \in 1..Len(asked) /\ m \in 1..StageCount(asked[k]) /\ k \in Nat /\ m \in Nat
      BY <2>1, PlannedPairs
  <2>3. k = a => m <= n
      BY <2>2
  <2>4. Before(s, <<a, n + 1>>) <=> k < a \/ (k = a /\ m < n + 1)
      BY <2>1 DEF Before
  <2>5. Before(s, <<a + 1, 1>>) <=> k < a + 1 \/ (k = a + 1 /\ m < 1)
      BY <2>1 DEF Before
  <2>6. m >= 1
      BY <2>2
  <2>7. QED
      BY <2>2, <2>3, <2>4, <2>5, <2>6
<1>2. {s \in Planned : Before(s, <<a, n + 1>>)} = {s \in Planned : Before(s, <<a + 1, 1>>)}
    BY <1>1
<1>3. QED
    BY <1>2 DEF RanTo

LEMMA NextStage ==
  ASSUME asked \in Seq(Text), ran \in Seq(Nat \X Nat),
         NEW a \in 1..Len(asked), NEW b \in 1..StageCount(asked[a]), RanTo(<<a, b>>),
         ran' = Append(ran, <<a, b>>), asked' = asked
  PROVE  ran' \in Seq(Nat \X Nat) /\ RanTo(<<a, b + 1>>)'
<1>1. asked[a] \in Text /\ StageCount(asked[a]) \in Nat /\ a \in Nat /\ b \in Nat
    BY CountIsNat
<1>2. PICK n \in Nat : n = Len(ran) /\ DOMAIN ran = 1..n
    OBVIOUS
<1>3. PICK last : last = <<a, b>>
    OBVIOUS
<1>4. last \in Nat \X Nat /\ last[1] = a /\ last[2] = b
    BY <1>1, <1>3
<1>5. /\ ran' \in Seq(Nat \X Nat) /\ Len(ran') = n + 1 /\ ran'[n + 1] = last
      /\ \A k \in 1..n : ran'[k] = ran[k]
    BY <1>2, <1>3, <1>4, AppendProperties
<1>6. \A k \in 1..n : ran[k] \in Planned /\ Before(ran[k], last)
  <2>1. Range(ran) = {s \in Planned : Before(s, last)}
      BY <1>3 DEF RanTo
  <2>2. \A k \in 1..n : ran[k] \in Range(ran)
      BY <1>2 DEF Range
  <2>3. QED
      BY <2>1, <2>2
<1>7. ASSUME NEW k \in 1..n PROVE Before(ran'[k], ran'[k + 1])
  <2>1. CASE k = n
      BY <2>1, <1>5, <1>6
  <2>2. CASE k # n
    <3>1. k \in 1..(Len(ran) - 1) /\ k + 1 \in 1..n
        BY <2>2, <1>2
    <3>2. Before(ran[k], ran[k + 1])
        BY <3>1 DEF RanTo
    <3>3. QED
        BY <3>1, <3>2, <1>5
  <2>3. QED
      BY <2>1, <2>2
<1>8. \A k \in 1..(Len(ran') - 1) : Before(ran'[k], ran'[k + 1])
  <2>1. Len(ran') - 1 = n
      BY <1>2, <1>5
  <2>2. QED
      BY <1>7, <2>1
<1>9. Range(ran') = Range(ran) \cup {last}
  <2>1. DOMAIN ran' = 1..(n + 1)
      BY <1>5
  <2>2. Range(ran') = {ran'[k] : k \in 1..(n + 1)} /\ Range(ran) = {ran[k] : k \in 1..n}
      BY <2>1, <1>2 DEF Range
  <2>3. \A k \in 1..(n + 1) : k \in 1..n \/ k = n + 1
      BY <1>2
  <2>4. 1..n \subseteq 1..(n + 1) /\ n + 1 \in 1..(n + 1)
      BY <1>2
  <2>5. QED
      BY <2>2, <2>3, <2>4, <1>5
<1>10. last \in Planned
    BY <1>3, PlannedStages
<1>11. ASSUME NEW s \in Planned
       PROVE  Before(s, <<a, b + 1>>) <=> Before(s, last) \/ s = last
  <2>1. PICK k, m : k = s[1] /\ m = s[2]
      OBVIOUS
  <2>2. k \in Nat /\ m \in Nat /\ s = <<k, m>>
      BY <2>1, PlannedPairs
  <2>3. Before(s, <<a, b + 1>>) <=> k < a \/ (k = a /\ m < b + 1)
      BY <2>1 DEF Before
  <2>4. Before(s, last) <=> k < a \/ (k = a /\ m < b)
      BY <2>1, <1>4 DEF Before
  <2>5. s = last <=> k = a /\ m = b
      BY <2>2, <1>3
  <2>6. QED
      BY <2>2, <2>3, <2>4, <2>5, <1>1
<1>12. Range(ran') = {s \in Planned : Before(s, <<a, b + 1>>)}
  <2>1. Range(ran) = {s \in Planned : Before(s, last)}
      BY <1>3 DEF RanTo
  <2>2. QED
      BY <2>1, <1>9, <1>10, <1>11
<1>13. Planned' = Planned
    BY DEF Planned
<1>14. RanTo(<<a, b + 1>>)'
    BY <1>8, <1>12, <1>13 DEF RanTo
<1>15. QED
    BY <1>5, <1>14

\* Where the shell is at the end of a line, all of it was begun.
LEMMA LineDone ==
  ASSUME asked \in Seq(Text), NEW s \in Planned
  PROVE  Before(s, <<Len(asked) + 1, 1>>)
<1>1. s[1] \in 1..Len(asked) /\ Len(asked) \in Nat
    BY PlannedPairs
<1>2. s[1] < Len(asked) + 1
    BY <1>1
<1>3. QED
    BY <1>2 DEF Before

-----------------------------------------------------------------------------
(* Reading a line.                                                         *)

LEMMA LeastOfTwo ==
  ASSUME NEW a \in Nat, NEW b \in Nat
  PROVE  Min({a, b}) \in {a, b} /\ Min({a, b}) <= a /\ Min({a, b}) <= b
<1>1. PICK x \in {a, b} : \A y \in {a, b} : x <= y
    OBVIOUS
<1>2. Min({a, b}) \in {a, b} /\ \A y \in {a, b} : Min({a, b}) <= y
    BY <1>1 DEF Min
<1>3. QED
    BY <1>2

LEMMA FgetsTakesText ==
  ASSUME TextInv, NEW size \in Nat \ {0}, Fgets(size)
  PROVE  /\ given' = given /\ unread' \in Seq(Text) /\ offset' \in 0..Len(given'.lines)
         /\ Head(Buffered) \in Text /\ sh = "read"
         /\ Piece(size) \in Text
         /\ Len(Piece(size)) = Min({size - 1, Len(Head(Buffered))})
<1>1. given.lines \in Seq(Text) /\ offset \in 0..Len(given.lines)
    BY ShellAssumption DEF TextInv
<1>2. SubSeq(given.lines, offset + 1, Len(given.lines)) \in Seq(Text)
    BY <1>1
<1>3. Buffered \in Seq(Text)
    BY <1>2 DEF Buffered, TextInv
<1>4. /\ Buffered # <<>> /\ unread' = Left(size) \o Tail(Buffered) /\ given' = given
      /\ sh = "read"
    BY DEF Fgets
<1>5. Tail(Buffered) \in Seq(Text) /\ Head(Buffered) \in Text
    BY <1>3, <1>4
<1>6. PICK all \in Text : all = Head(Buffered)
    BY <1>5
<1>7. Len(all) \in Nat /\ size - 1 \in Nat
    BY DEF Text
<1>8. Left(size) \in Seq(Text)
  <2>1. CASE Len(all) < size - 1
      BY <2>1, <1>6 DEF Left
  <2>2. CASE ~(Len(all) < size - 1)
    <3>1. size \in 1..(Len(all) + 1) /\ Len(all) \in (size - 1)..Len(all)
        BY <2>2, <1>7
    <3>2. SubSeq(all, size, Len(all)) \in Text
        BY <3>1, PieceIsShorter DEF Shorter
    <3>3. Left(size) = <<SubSeq(all, size, Len(all))>>
        BY <2>2, <1>6 DEF Left
    <3>4. QED
        BY <3>2, <3>3
  <2>3. QED
      BY <2>1, <2>2
<1>9. unread' \in Seq(Text)
    BY <1>4, <1>5, <1>8
<1>10. offset' \in 0..Len(given'.lines)
    BY <1>1, <1>4 DEF Fgets
<1>11. Piece(size) \in Text /\ Len(Piece(size)) = Min({size - 1, Len(all)})
  <2>1. PICK m : m = Min({size - 1, Len(all)})
      OBVIOUS
  <2>2. m \in {size - 1, Len(all)} /\ m <= size - 1 /\ m <= Len(all)
      BY <2>1, <1>7, LeastOfTwo
  <2>3. 1 \in 1..(Len(all) + 1) /\ m \in (1 - 1)..Len(all) /\ m - 1 + 1 = m
      BY <2>2, <1>7
  <2>4. SubSeq(all, 1, m) \in Text /\ Len(SubSeq(all, 1, m)) = m
      BY <2>3, PieceIsShorter DEF Shorter
  <2>5. QED
      BY <2>1, <2>4, <1>6 DEF Piece
<1>12. QED
    BY <1>4, <1>5, <1>6, <1>9, <1>10, <1>11

LEMMA Sizes == MAX_LENGTH \in Nat \ {0} /\ FILE_LENGTH \in Nat \ {0}
BY ShellAssumption

\* A line begins with no child, no job done and no stage begun.
LEMMA BeginKeeps ==
  ASSUME IInv, NEW text \in Text, Begin(text),
         given' = given, unread' \in Seq(Text), offset' \in 0..Len(given'.lines),
         cmd_line' \in Text, ProcInv', DOMAIN procs' = {}
  PROVE  IInv'
<1> USE DEF IInv
<1>1. /\ mode_code' = getCommandMode(text) /\ i' = 1 /\ child_pid' = <<>>
      /\ asked' = mysh_argv' /\ ran' = <<>>
      /\ sh' = IF mysh_argv' = <<>> THEN "read" ELSE "job"
      /\ UNCHANGED <<piped, pipe_argv, pipe_pid, j>>
    BY DEF Begin, pipeline
<1>2. mode_code' \in {0, 1, 2, 3}
  <2>1. PICK a \in {0, 1} : a = IF Contains(text, SEMICOLON) THEN 1 ELSE 0
      OBVIOUS
  <2>2. PICK b \in {0, 2} : b = IF Contains(text, "+") THEN 2 ELSE 0
      OBVIOUS
  <2>3. getCommandMode(text) = a + b
      BY <2>1, <2>2 DEF getCommandMode
  <2>4. QED
      BY <1>1, <2>3
<1>3. /\ mysh_argv' \in Seq(Text)
      /\ mode_code' = 3 => mysh_argv' = <<>>
  <2>1. mode_code' \in {0, 1} => mysh_argv' = Split(text, SEMICOLON)
      BY DEF Begin
  <2>2. mode_code' = 2 => mysh_argv' = Split(text, "+")
      BY DEF Begin
  <2>3. mode_code' = 3 => mysh_argv' = <<>>
      BY DEF Begin
  <2>4. mysh_argv' = Split(text, SEMICOLON) \/ mysh_argv' = Split(text, "+") \/ mysh_argv' = <<>>
      BY <1>2, <2>1, <2>2, <2>3
  <2>5. Split(text, SEMICOLON) \in Seq(Text) /\ Split(text, "+") \in Seq(Text) /\ <<>> \in Seq(Text)
      BY SplitIsTexts
  <2>6. QED
      BY <2>3, <2>4, <2>5
<1>4. sh' = "job" => 1 \in 1..Len(mysh_argv')
    BY <1>1, <1>3
<1>5. TextInv'
    BY <1>1, <1>2, <1>3, <1>4 DEF TextInv, Working
<1>6. StageInv'
    BY <1>1 DEF StageInv
<1>7. EntriesInv'
    BY <1>1 DEF EntriesInv, Entered, Working
<1>8. ChildrenInv'
    BY DEF ChildrenInv
<1>9. AskedInv'
  <2>1. sh' \in {"read", "job"}
      BY <1>1
  <2>2. QED
      BY <1>1, <1>3, <2>1 DEF AskedInv
<1>10. OrderInv'
  <2>1. ran' \in Seq(Nat \X Nat) /\ Len(ran') = 0 /\ Range(ran') = {}
      BY <1>1 DEF Range
  <2>2. PICK u \in Nat \X Nat : u = Upto'
    <3>1. Len(asked') \in Nat
        BY <1>1, <1>3
    <3>2. Upto' = <<1, 1>> \/ Upto' = <<Len(asked') + 1, 1>>
        BY <1>1 DEF Upto
    <3>3. QED
        BY <3>1, <3>2
  <2>3. ~ \E s \in Planned' : Before(s, u)
    <3>1. CASE sh' = "job"
      <4>1. u = <<1, 1>>
          BY <3>1, <2>2, <1>1 DEF Upto
      <4>2. ASSUME NEW s \in Planned' PROVE ~Before(s, u)
        <5>1. asked' \in Seq(Text)
            BY <1>1, <1>3
        <5>2. PICK k \in 1..Len(asked') : \E m \in 1..StageCount(asked'[k]) : s = <<k, m>>
            BY <5>1 DEF Planned
        <5>3. PICK m \in 1..StageCount(asked'[k]) : s = <<k, m>>
            BY <5>2
        <5>4. StageCount(asked'[k]) \in Nat
            BY <5>1, CountIsNat
        <5>5. k \in Nat /\ k >= 1 /\ m \in Nat /\ m >= 1
            BY <5>1, <5>4
        <5>6. QED
            BY <4>1, <5>3, <5>5 DEF Before
      <4>3. QED
          BY <4>2
    <3>2. CASE sh' # "job"
      <4>1. asked' = <<>>
          BY <3>2, <1>1
      <4>2. DOMAIN asked' = {}
          BY <4>1
      <4>3. Planned' = {}
          BY <4>2 DEF Planned
      <4>4. QED
          BY <4>3
    <3>3. QED
        BY <3>1, <3>2
  <2>4. RanTo(u)'
    <3>1. \A k \in 1..(Len(ran') - 1) : Before(ran'[k], ran'[k + 1])
        BY <2>1
    <3>2. Range(ran') = {s \in Planned' : Before(s, u)}
        BY <2>1, <2>3
    <3>3. QED
        BY <3>1, <3>2 DEF RanTo
  <2>5. QED
      BY <2>1, <2>2, <2>4 DEF OrderInv
<1>11. QED
    BY <1>5, <1>6, <1>7, <1>8, <1>9, <1>10

\* The shell ends.
LEMMA EndKeeps ==
  ASSUME IInv, sh' \in {"exited", "segv"},
         UNCHANGED <<stream, line, i, child_pid, pipeline, j, procs, failures, ran, asked>>
  PROVE  IInv'
<1> USE DEF IInv, stream, line, pipeline
<1>1. TextInv'
    BY DEF TextInv, Working
<1>2. ProcInv' /\ StageInv'
    BY DEF ProcInv, StageInv
<1>3. EntriesInv' /\ ChildrenInv'
    BY DEF EntriesInv, ChildrenInv, Working
<1>4. AskedInv'
    BY DEF AskedInv, Working
<1>5. OrderInv'
    BY OrderStays DEF Ended
<1>6. QED
    BY <1>1, <1>2, <1>3, <1>4, <1>5

LEMMA ReadKeeps ==
  ASSUME IInv, ReadLine
  PROVE  IInv'
<1> USE DEF IInv
<1>1. CASE SkipLine
  <2>1. Fgets(FILE_LENGTH)
      BY <1>1 DEF SkipLine
  <2>2. /\ given' = given /\ unread' \in Seq(Text) /\ offset' \in 0..Len(given'.lines)
        /\ sh = "read"
        /\ UNCHANGED <<sh, line, i, child_pid, pipeline, j, procs, failures, ran, asked>>
      BY <1>1, <2>1, Sizes, FgetsTakesText DEF SkipLine
  <2>3. TextInv'
      BY <2>2 DEF TextInv, line
  <2>4. ProcInv' /\ StageInv'
      BY <2>2 DEF pipeline, ProcInv, StageInv
  <2>5. EntriesInv' /\ ChildrenInv'
      BY <2>2 DEF EntriesInv, ChildrenInv, Working
  <2>6. AskedInv'
      BY <2>2 DEF AskedInv, Working
  <2>7. OrderInv'
      BY <2>2, OrderStays DEF Ended, Upto
  <2>8. QED
      BY <2>3, <2>4, <2>5, <2>6, <2>7
<1>2. CASE BatchLine
  <2>1. Fgets(FILE_LENGTH)
      BY <1>2 DEF BatchLine
  <2>2. /\ given' = given /\ unread' \in Seq(Text) /\ offset' \in 0..Len(given'.lines)
        /\ sh = "read" /\ sh' = "sync" /\ cmd_line' \in Text
        /\ UNCHANGED <<mode_code, mysh_argv, i, child_pid, pipeline, j, procs, failures,
                       ran, asked>>
      BY <1>2, <2>1, Sizes, FgetsTakesText DEF BatchLine
  <2>3. TextInv'
      BY <2>2 DEF TextInv, Working
  <2>4. ProcInv' /\ StageInv' /\ EntriesInv' /\ ChildrenInv'
      BY <2>2 DEF pipeline, ProcInv, StageInv, EntriesInv, ChildrenInv, Working
  <2>5. AskedInv'
      BY <2>2 DEF AskedInv, Working
  <2>6. OrderInv'
      BY <2>2, OrderStays DEF Ended, Upto
  <2>7. QED
      BY <2>3, <2>4, <2>5, <2>6
<1>3. CASE BatchEnd
    BY <1>3, EndKeeps DEF BatchEnd
<1>4. CASE PromptLine
  <2>1. PICK text : /\ text = IF Piece(MAX_LENGTH) = <<>> THEN <<" ">> ELSE Piece(MAX_LENGTH)
                    /\ Begin(text) /\ cmd_line' = Cut(text, " ")
      BY <1>4 DEF PromptLine
  <2>2. Fgets(MAX_LENGTH) /\ UNCHANGED <<procs, failures>>
      BY <1>4 DEF PromptLine
  <2>3. /\ given' = given /\ unread' \in Seq(Text) /\ offset' \in 0..Len(given'.lines)
        /\ sh = "read" /\ Piece(MAX_LENGTH) \in Text
      BY <2>2, Sizes, FgetsTakesText
  <2>4. text \in Text
    <3>1. PICK blank \in Token : blank = " "
        BY Zenon DEF Token, SEPARATORS
    <3>2. <<blank>> \in Text
        BY DEF Text
    <3>3. text \in {<<blank>>, Piece(MAX_LENGTH)}
        BY <2>1, <3>1
    <3>4. QED
        BY <2>3, <3>2, <3>3
  <2>5. cmd_line' \in Text
      BY <2>1, <2>4, CutIsText
  <2>6. ProcInv' /\ DOMAIN procs' = {}
      BY <2>2, <2>3 DEF ProcInv, ChildrenInv
  <2>7. QED
      BY <2>1, <2>3, <2>4, <2>5, <2>6, BeginKeeps
<1>5. CASE PromptEOF
  <2>1. /\ Begin(cmd_line) /\ UNCHANGED <<stream, procs, failures>> /\ sh = "read"
        /\ cmd_line' = Cut(cmd_line, " ")
      BY <1>5 DEF PromptEOF
  <2>2. /\ given' = given /\ unread' \in Seq(Text) /\ offset' \in 0..Len(given'.lines)
        /\ cmd_line \in Text /\ cmd_line' \in Text
      BY <2>1, CutIsText DEF stream, TextInv
  <2>3. ProcInv' /\ DOMAIN procs' = {}
      BY <2>1 DEF ProcInv, ChildrenInv
  <2>4. QED
      BY <2>1, <2>2, <2>3, BeginKeeps
<1>6. CASE PromptGarbage
    BY <1>6, EndKeeps DEF PromptGarbage
<1>7. QED
    BY <1>1, <1>2, <1>3, <1>4, <1>5, <1>6 DEF ReadLine

\* The child every batch line forks is the only one while the shell waits for it.
LEMMA SyncKeeps ==
  ASSUME IInv, Sync
  PROVE  IInv'
<1> USE DEF IInv
<1>1. CASE BatchFork
  <2>1. PICK pid : Fork(pid, Quick("exit"))
      BY <1>1 DEF BatchFork
  <2>2. /\ sh = "sync" /\ sh' = "syncwait"
        /\ UNCHANGED <<stream, line, i, child_pid, pipeline, j, ran, asked>>
      BY <1>1 DEF BatchFork
  <2>3. {"kind", "job"} \subseteq DOMAIN Quick("exit") /\ Quick("exit").kind = "exit"
      BY DEF Quick
  <2>4. ProcInv' /\ (Added(pid, Quick("exit")) \/ Failed(pid))
      BY <2>1, <2>3, ForkAddsOne
  <2>5. TextInv'
      BY <2>2 DEF TextInv, Working, stream, line
  <2>6. StageInv'
      BY <2>2, <2>4 DEF StageInv, Added, Failed, ProcInv, pipeline
  <2>7. EntriesInv'
      BY <2>2 DEF EntriesInv, Working
  <2>8. ChildrenInv'
      BY <2>2, <2>3, <2>4 DEF ChildrenInv, Added, Failed, Working
  <2>9. failures' = 0 => failures = 0
      BY <2>4 DEF Added, Failed, ProcInv
  <2>10. AskedInv'
      BY <2>2, <2>9 DEF AskedInv, Working
  <2>11. OrderInv'
      BY <2>2, <2>9, OrderStays DEF Ended, Upto
  <2>12. QED
      BY <2>4, <2>5, <2>6, <2>7, <2>8, <2>10, <2>11
<1>2. CASE BatchWait
  <2>1. /\ sh = "syncwait" /\ Begin(cmd_line) /\ UNCHANGED <<stream, cmd_line, failures>>
      BY <1>2 DEF BatchWait
  <2>2. /\ given' = given /\ unread' \in Seq(Text) /\ offset' \in 0..Len(given'.lines)
        /\ cmd_line \in Text /\ cmd_line' \in Text
      BY <2>1 DEF stream, TextInv
  <2>3. ProcInv' /\ DOMAIN procs' = {}
    <3>1. CASE procs = <<>> /\ UNCHANGED procs
        BY <3>1, <2>1 DEF ProcInv
    <3>2. CASE \E p \in DOMAIN procs : Zombie(p) /\ Reap(p)
      <4>1. PICK p \in DOMAIN procs : Reap(p)
          BY <3>2
      <4>2. ProcInv' /\ DOMAIN procs' = DOMAIN procs \ {p}
          BY <4>1, <2>1, ReapTakesOne
      <4>3. \A q \in DOMAIN procs : q = p
          BY <2>1 DEF ChildrenInv
      <4>4. QED
          BY <4>2, <4>3
    <3>3. QED
        BY <1>2, <3>1, <3>2 DEF BatchWait
  <2>4. QED
      BY <2>1, <2>2, <2>3, BeginKeeps
<1>3. QED
    BY <1>1, <1>2 DEF Sync

-----------------------------------------------------------------------------
(* The jobs of a line.                                                     *)

\* What strtok leaves of a job changes nothing about how many there are.
LEMMA ArgvStays ==
  ASSUME TextInv, NEW k \in 1..Len(mysh_argv), NEW v \in Text,
         mysh_argv' = [mysh_argv EXCEPT ![k] = v]
  PROVE  /\ mysh_argv' \in Seq(Text) /\ Len(mysh_argv') = Len(mysh_argv)
         /\ \A m \in 1..Len(mysh_argv) : m # k => mysh_argv'[m] = mysh_argv[m]
BY ExceptSeq DEF TextInv

LEMMA JobIsText ==
  ASSUME TextInv, sh \in Working
  PROVE  /\ i \in 1..Len(mysh_argv) /\ mysh_argv[i] \in Text
         /\ Unredirected(mysh_argv[i]) \in Text
<1>1. i \in 1..Len(mysh_argv) /\ mysh_argv[i] \in Text
    BY DEF TextInv
<1>2. QED
    BY <1>1, CutIsText DEF Unredirected

\* The job that is being cut is no longer what was asked for, the ones behind
\* it are.
LEMMA BehindStays ==
  ASSUME TextInv, AskedInv, sh \in Working, ~(sh = "wait" /\ mode_code = 2),
         \A m \in 1..Len(mysh_argv) : m # i => mysh_argv'[m] = mysh_argv[m],
         failures = 0
  PROVE  \A k \in (i + 1)..Len(asked) : mysh_argv'[k] = asked[k]
<1>1. i \in 1..Len(mysh_argv) /\ Len(asked) = Len(mysh_argv) /\ Len(asked) \in Nat
    BY DEF TextInv, AskedInv
<1>2. SUFFICES ASSUME NEW k \in (i + 1)..Len(asked) PROVE mysh_argv'[k] = asked[k]
    OBVIOUS
<1>3. k \in Untouched..Len(asked) /\ k \in 1..Len(mysh_argv) /\ k # i
    BY <1>1, <1>2 DEF Untouched
<1>4. QED
    BY <1>3 DEF AskedInv

\* A job without a pipe has one stage, a child of its own.
LEMMA StartJobKeeps ==
  ASSUME IInv, StartJob
  PROVE  IInv'
<1> USE DEF IInv
<1>1. /\ sh = "job" /\ sh' = "stage" /\ piped' = FALSE
      /\ pipe_argv' = <<Split(mysh_argv[i], ">")[1]>>
      /\ pipe_pid' = <<>> /\ j' = 1 /\ sh \in Working
      /\ UNCHANGED <<stream, cmd_line, mode_code, i, child_pid, procs, failures, ran, asked>>
    BY DEF StartJob, Working
<1>2. /\ mysh_argv' \in Seq(Text) /\ Len(mysh_argv') = Len(mysh_argv)
      /\ \A m \in 1..Len(mysh_argv) : m # i => mysh_argv'[m] = mysh_argv[m]
  <2>1. mysh_argv' = [mysh_argv EXCEPT ![i] = Unredirected(mysh_argv[i])]
      BY DEF StartJob
  <2>2. QED
      BY <1>1, <2>1, JobIsText, ArgvStays
<1>3. pipe_argv' \in Seq(Text) /\ Len(pipe_argv') = 1
  <2>1. Split(mysh_argv[i], ">") \in Seq(Text) /\ Split(mysh_argv[i], ">") # <<>>
      BY <1>1, JobIsText, SplitIsTexts DEF StartJob, NoTarget
  <2>2. Split(mysh_argv[i], ">")[1] \in Text
      BY <2>1
  <2>3. QED
      BY <1>1, <2>2
<1>4. TextInv'
    BY <1>1, <1>2 DEF TextInv, Working, stream
<1>5. ProcInv'
    BY <1>1 DEF ProcInv
<1>6. StageInv'
  <2>1. pipe_pid' \in Seq(Int) /\ Len(pipe_pid') = 0 /\ j' \in Nat \ {0}
      BY <1>1
  <2>2. child_pid' = child_pid /\ failures' = failures /\ piped' = FALSE /\ sh' = "stage"
      BY <1>1
  <2>3. \A k \in 1..Len(child_pid') : child_pid'[k] = -1 => failures' > 0
      BY <2>2 DEF StageInv
  <2>4. child_pid' \in Seq(Int) /\ piped' \in BOOLEAN
      BY <2>2 DEF StageInv
  <2>5. j' <= Len(pipe_argv')
      BY <1>1, <1>3
  <2>6. QED
      BY <1>3, <2>1, <2>2, <2>3, <2>4, <2>5 DEF StageInv
<1>7. EntriesInv' /\ Entered' = Entered /\ First' = First
    BY <1>1, <1>2 DEF EntriesInv, Entered, First, Working
<1>8. ChildrenInv'
    BY <1>1, <1>7 DEF ChildrenInv, Working, OfJob, OfStage
<1>9. AskedInv'
  <2>1. asked' \in Seq(Text) /\ Len(asked') = Len(mysh_argv')
      BY <1>1, <1>2 DEF AskedInv
  <2>2. ASSUME failures = 0
        PROVE  /\ \A k \in (i + 1)..Len(asked) : mysh_argv'[k] = asked[k]
               /\ StageCount(asked[i]) = 1
    <3>1. mysh_argv[i] = asked[i]
      <4>1. i \in i..Len(asked) /\ Untouched = i
          BY <1>1, JobIsText DEF AskedInv, Untouched
      <4>2. QED
          BY <2>2, <4>1, <1>1 DEF AskedInv
    <3>2. ~Contains(Unredirected(mysh_argv[i]), "|")
        BY DEF StartJob
    <3>3. StageCount(asked[i]) = 1
        BY <3>1, <3>2 DEF StageCount
    <3>4. QED
        BY <2>2, <3>3, <1>1, <1>2, BehindStays
  <2>3. Untouched' = i + 1 /\ sh' \in Working
      BY <1>1 DEF Untouched, Working
  <2>4. QED
      BY <1>1, <1>3, <2>1, <2>2, <2>3 DEF AskedInv
<1>10. OrderInv'
    BY <1>1, OrderStays DEF Ended, Upto
<1>11. QED
    BY <1>4, <1>5, <1>6, <1>7, <1>8, <1>9, <1>10

\* One more child, which has its entry at once.
LEMMA EntryIsMade ==
  ASSUME IInv, sh \in Working, Entered = i - 1,
         NEW pid \in Int, child_pid' = Set(child_pid, i, pid)
  PROVE  /\ child_pid' \in Seq(Int) /\ Len(child_pid') = i /\ child_pid'[i] = pid
         /\ \A k \in 1..(i - 1) : child_pid'[k] = child_pid[k]
         /\ i \in Nat \ {0} /\ i <= Len(mysh_argv) /\ Len(mysh_argv) \in Nat
<1>1. /\ child_pid \in Seq(Int) /\ i \in Nat \ {0} /\ i <= Len(mysh_argv)
      /\ Len(mysh_argv) \in Nat
    BY DEF IInv, StageInv, TextInv
<1>2. Len(child_pid) \in Nat /\ (Len(child_pid) = i - 1 \/ Len(child_pid) = i)
    BY <1>1 DEF IInv, EntriesInv
<1>3. i <= Len(child_pid) + 1
    BY <1>1, <1>2
<1>4. /\ child_pid' \in Seq(Int)
      /\ Len(child_pid') = IF i > Len(child_pid) THEN i ELSE Len(child_pid)
      /\ child_pid'[i] = pid
      /\ \A k \in 1..Len(child_pid) : k # i => child_pid'[k] = child_pid[k]
    BY <1>1, <1>3, SetEntry
<1>5. QED
    BY <1>1, <1>2, <1>4

\* The shell goes on behind job i, when every stage of it was begun.
LEMMA AfterJobOrder ==
  ASSUME TextInv, AskedInv, OrderInv, sh \in {"job", "stagewait"}, AfterJob,
         UNCHANGED <<mode_code, ran, asked>>, Len(mysh_argv') = Len(mysh_argv),
         failures' = 0 => failures = 0,
         \A m \in 1..Len(mysh_argv) : m # i => mysh_argv'[m] = mysh_argv[m],
         failures = 0 => \E n \in Nat : Upto = <<i, n + 1>> /\ StageCount(asked[i]) = n
  PROVE  AskedInv' /\ OrderInv'
<1>1. /\ i \in Nat \ {0} /\ i <= Len(asked) /\ Len(asked) \in Nat /\ mode_code \in 0..2
      /\ asked \in Seq(Text) /\ Len(asked) = Len(mysh_argv) /\ sh \in Working
    BY DEF TextInv, AskedInv, Working
<1>2. /\ sh' \in {"wait", "job"}
      /\ sh' = "wait" => (mode_code <= 1 /\ i' = i) \/ (mode_code = 2 /\ i = Len(asked) /\ i' = 1)
      /\ sh' = "job" => i' = i + 1 /\ mode_code = 2
    BY <1>1 DEF AfterJob
<1>3. AskedInv'
  <2>1. ASSUME failures = 0 PROVE \A k \in (i + 1)..Len(asked) : mysh_argv'[k] = asked[k]
      BY <1>1, <2>1, BehindStays DEF Working
  <2>2. ~(sh' = "wait" /\ mode_code' = 2) => Untouched' = i + 1
      BY <1>1, <1>2 DEF Untouched
  <2>3. asked' = asked /\ Len(asked') = Len(mysh_argv')
      BY <1>1
  <2>4. QED
      BY <1>1, <1>2, <2>1, <2>2, <2>3 DEF AskedInv
<1>4. OrderInv'
  <2>1. ASSUME failures' = 0
        PROVE  \E u \in Nat \X Nat : RanTo(u)' /\ (~Ended' => u = Upto')
    <3>1. PICK n \in Nat : Upto = <<i, n + 1>> /\ StageCount(asked[i]) = n
        BY <2>1
    <3>2. ~Ended
        BY DEF Ended
    <3>3. RanTo(<<i, n + 1>>)
        BY <2>1, <3>1, <3>2 DEF OrderInv
    <3>4. i \in 1..Len(asked)
        BY <1>1
    <3>5. RanTo(<<i + 1, 1>>)
        BY <1>1, <3>1, <3>3, <3>4, JobDone
    <3>6. PICK u : u = <<i + 1, 1>>
        OBVIOUS
    <3>6a. u \in Nat \X Nat
        BY <1>1, <3>6
    <3>7. RanTo(u)
        BY <3>5, <3>6
    <3>8. RanTo(u)'
      <4>1. Planned' = Planned
          BY DEF Planned
      <4>2. QED
          BY <3>7, <4>1 DEF RanTo
    <3>9. Upto' = u
      <4>1. CASE sh' = "job"
          BY <4>1, <1>2, <3>6 DEF Upto
      <4>2. CASE sh' = "wait" /\ mode_code <= 1
          BY <4>2, <1>2, <3>6, <1>1 DEF Upto
      <4>3. CASE sh' = "wait" /\ mode_code = 2
          BY <4>3, <1>2, <3>6, <1>1 DEF Upto
      <4>4. QED
          BY <4>1, <4>2, <4>3, <1>1, <1>2
    <3>10. QED
        BY <3>6a, <3>8, <3>9
  <2>2. QED
      BY <2>1 DEF OrderInv
<1>5. QED
    BY <1>3, <1>4

LEMMA StartPipelineKeeps ==
  ASSUME IInv, StartPipeline
  PROVE  IInv'
<1> USE DEF IInv
<1> DEFINE job == Unredirected(mysh_argv[i])
           stages == Split(job, "|")
<1>1. /\ sh = "job" /\ piped' = TRUE /\ pipe_pid' = <<>> /\ j' = 1
      /\ pipe_argv' = stages /\ mysh_argv' = [mysh_argv EXCEPT ![i] = Cut(job, "|")]
      /\ Contains(job, "|")
      /\ \/ stages = <<>> /\ AfterJob
         \/ stages # <<>> /\ sh' = "stage" /\ i' = i
         \/ stages # <<>> /\ sh' = "exited" /\ i' = i
      /\ UNCHANGED <<stream, cmd_line, mode_code, ran, asked>>
  <2>1. Len(<<>>) = 0
      OBVIOUS
  <2>2. Len(stages) > 1 => stages # <<>>
      BY <2>1
  <2>3. QED
      BY <2>2 DEF StartPipeline
<1>1a. mysh_argv[i] \in Text /\ job \in Text /\ i \in 1..Len(mysh_argv)
    BY <1>1, JobIsText DEF Working
<1>1b. stages \in Seq(Text) /\ Cut(job, "|") \in Text
    BY <1>1a, SplitIsTexts, CutIsText
<1>2. PICK pid : Fork(pid, Quick("exit")) /\ child_pid' = Set(child_pid, i, pid)
    BY DEF StartPipeline
<1>3. {"kind", "job"} \subseteq DOMAIN Quick("exit") /\ Quick("exit").job = i
    BY DEF Quick
<1>4. ProcInv' /\ (Added(pid, Quick("exit")) \/ Failed(pid)) /\ pid \in Int
    BY <1>2, <1>3, ForkAddsOne
<1>5. Entered = i - 1 /\ sh \in Working
    BY <1>1 DEF Entered, Working
<1>6. /\ child_pid' \in Seq(Int) /\ Len(child_pid') = i /\ child_pid'[i] = pid
      /\ \A k \in 1..(i - 1) : child_pid'[k] = child_pid[k]
      /\ i \in Nat \ {0} /\ i <= Len(mysh_argv) /\ Len(mysh_argv) \in Nat
    BY <1>2, <1>4, <1>5, EntryIsMade
<1>6a. asked \in Seq(Text) /\ Len(asked) = Len(mysh_argv) /\ mode_code \in {0, 1, 2}
    BY <1>5 DEF AskedInv, TextInv
<1>6b. failures = 0 => mysh_argv[i] = asked[i] /\ StageCount(asked[i]) = Len(stages)
  <2>1. SUFFICES ASSUME failures = 0 PROVE mysh_argv[i] = asked[i]
      BY <1>1 DEF StageCount
  <2>2. Untouched = i /\ i \in i..Len(asked)
      BY <1>1, <1>6, <1>6a DEF Untouched
  <2>3. QED
      BY <1>1, <1>5, <2>1, <2>2 DEF AskedInv
<1> HIDE DEF job, stages
<1>7. /\ mysh_argv' \in Seq(Text) /\ Len(mysh_argv') = Len(mysh_argv)
      /\ \A m \in 1..Len(mysh_argv) : m # i => mysh_argv'[m] = mysh_argv[m]
    BY <1>1, <1>1a, <1>1b, ArgvStays
<1>7a. \/ /\ stages # <<>> /\ sh' \in {"stage", "exited"} /\ i' = i
       \/ /\ stages = <<>> /\ mode_code <= 1 /\ sh' = "wait" /\ i' = i
       \/ /\ stages = <<>> /\ mode_code = 2 /\ i < Len(mysh_argv) /\ sh' = "job" /\ i' = i + 1
       \/ /\ stages = <<>> /\ mode_code = 2 /\ i = Len(mysh_argv) /\ sh' = "wait" /\ i' = 1
    BY <1>1, <1>6, <1>6a DEF AfterJob
<1>8. TextInv'
  <2>1. sh' \in {"read", "sync", "syncwait", "exited", "segv"} \cup Working
      BY <1>7a DEF Working
  <2>2. sh' \in Working => i' \in 1..Len(mysh_argv)
      BY <1>6, <1>7a
  <2>3. QED
      BY <1>1, <1>6a, <1>7, <2>1, <2>2 DEF TextInv, stream
<1>9. StageInv'
  <2>1. failures' \in Nat /\ failures' >= failures
      BY <1>4 DEF ProcInv, Added, Failed
  <2>2. \A k \in 1..Len(child_pid') : child_pid'[k] = -1 => failures' > 0
    <3> SUFFICES ASSUME NEW k \in 1..i, child_pid'[k] = -1 PROVE failures' > 0
        BY <1>6
    <3>1. CASE k = i
        BY <3>1, <1>4, <1>6 DEF Added, Failed, ProcInv
    <3>2. CASE k # i
      <4>1. k \in 1..(i - 1) /\ k \in 1..Len(child_pid)
          BY <3>2, <1>5, <1>6 DEF EntriesInv, StageInv
      <4>2. child_pid[k] = -1
          BY <4>1, <1>6
      <4>3. failures > 0 /\ failures \in Nat
          BY <4>1, <4>2 DEF StageInv, ProcInv
      <4>4. QED
          BY <4>3, <2>1
    <3>3. QED
        BY <3>1, <3>2
  <2>3. sh' = "stage" => pipe_argv' \in Seq(Text) /\ j' <= Len(pipe_argv')
    <3>1. stages # <<>> => Len(stages) >= 1
        BY <1>1b
    <3>2. QED
        BY <1>1, <1>1b, <1>7a, <3>1
  <2>4. sh' # "stagewait" /\ Len(pipe_pid') = 0 /\ pipe_pid' \in Seq(Int)
      BY <1>1, <1>7a
  <2>5. QED
      BY <1>1, <1>6, <2>2, <2>3, <2>4 DEF StageInv
<1>9a. sh' # "exited" => /\ Entered' = i /\ First' = First
                         /\ mode_code <= 1 => i' = i
    BY <1>1, <1>6, <1>6a, <1>7, <1>7a DEF Entered, First
<1>10. EntriesInv'
    BY <1>1, <1>6, <1>7a, <1>9a DEF EntriesInv, Working
<1>11. ChildrenInv'
  <2>1. SUFFICES ASSUME sh' # "exited", NEW p \in DOMAIN procs'
                 PROVE  /\ OfJob(p)'
                        /\ mode_code <= 1 => procs'[p].job = i
      BY <1>1, <1>7a, <1>9a, <2>1 DEF ChildrenInv, Working
  <2>2. First' \in 1..i /\ First' = First /\ Entered' = i
      BY <2>1, <1>1, <1>6, <1>9a DEF First
  <2>3. CASE p \in DOMAIN procs
    <3>1. OfJob(p) /\ (mode_code <= 1 => procs[p].job = i)
        BY <2>3, <1>1 DEF ChildrenInv, Working, OfStage
    <3>2. PICK k \in First..(i - 1) : child_pid[k] = p
        BY <3>1, <1>5 DEF OfJob
    <3>3. k \in First'..Entered' /\ child_pid'[k] = p
        BY <3>2, <2>2, <1>6
    <3>4. procs'[p] = procs[p]
        BY <2>3, <1>4 DEF Added, Failed
    <3>5. QED
        BY <3>1, <3>3, <3>4 DEF OfJob
  <2>4. CASE p \notin DOMAIN procs
    <3>1. p = pid /\ procs'[p] = Quick("exit")
        BY <2>4, <1>4 DEF Added, Failed
    <3>2. i \in First'..Entered' /\ child_pid'[i] = p
        BY <3>1, <2>2, <1>6
    <3>3. QED
        BY <3>1, <3>2, <1>3 DEF OfJob
  <2>5. QED
      BY <2>3, <2>4
<1>12. AskedInv' /\ OrderInv'
  <2>1. failures' = 0 => failures = 0
      BY <1>4 DEF ProcInv, Added, Failed
  <2>2. CASE stages = <<>>
    <3>1. AfterJob
        BY <1>1, <2>2
    <3>2. failures = 0 => Upto = <<i, 0 + 1>> /\ StageCount(asked[i]) = 0
        BY <1>1, <1>6b, <2>2 DEF Upto
    <3>3. UNCHANGED <<mode_code, ran, asked>> /\ sh \in {"job", "stagewait"}
        BY <1>1
    <3>4. QED
        BY <1>7, <2>1, <3>1, <3>2, <3>3, AfterJobOrder
  <2>3. CASE stages # <<>>
    <3>1. sh' \in {"stage", "exited"} /\ i' = i
        BY <2>3, <1>7a
    <3>2. ASSUME failures = 0
          PROVE  /\ \A k \in (i + 1)..Len(asked) : mysh_argv'[k] = asked[k]
                 /\ Len(pipe_argv') = StageCount(asked[i])
      <4>1. ~(sh = "wait" /\ mode_code = 2)
          BY <1>1
      <4>2. \A k \in (i + 1)..Len(asked) : mysh_argv'[k] = asked[k]
          BY <3>2, <4>1, <1>5, <1>7, BehindStays
      <4>3. QED
          BY <3>2, <4>2, <1>1, <1>6b
    <3>3. sh' = "stage" => Untouched' = i + 1
        BY <3>1 DEF Untouched
    <3>4. AskedInv'
        BY <1>1, <1>6a, <1>7, <2>1, <3>1, <3>2, <3>3 DEF AskedInv, Working
    <3>5. Ended' \/ (~Ended /\ Upto' = Upto)
        BY <1>1, <3>1 DEF Ended, Upto
    <3>6. OrderInv'
        BY <1>1, <2>1, <3>5, OrderStays
    <3>7. QED
        BY <3>4, <3>6
  <2>4. QED
      BY <2>2, <2>3
<1>13. QED
    BY <1>4, <1>8, <1>9, <1>10, <1>11, <1>12

\* The first stage is cut behind its first word, in the job it is the end of.
LEMMA StageCuts ==
  ASSUME IInv, Stage
  PROVE  /\ mysh_argv' \in Seq(Text) /\ Len(mysh_argv') = Len(mysh_argv)
         /\ \A m \in 1..Len(mysh_argv) : m # i => mysh_argv'[m] = mysh_argv[m]
<1>1. CASE mysh_argv' = mysh_argv
    BY <1>1 DEF IInv, TextInv
<1>2. CASE mysh_argv' # mysh_argv
  <2>1. sh = "stage"
      BY DEF Stage
  <2>2. i \in 1..Len(mysh_argv) /\ mysh_argv[i] \in Text /\ pipe_argv[1] \in Text
      BY <2>1 DEF IInv, TextInv, StageInv, Working
  <2>3. PICK v : v = SubSeq(mysh_argv[i], 1, Len(mysh_argv[i]) - Len(pipe_argv[1]))
                       \o Cut(pipe_argv[1], " ")
      OBVIOUS
  <2>4. v \in Text
      BY <2>2, <2>3, RestIsText
  <2>5. mysh_argv' = [mysh_argv EXCEPT ![i] = v]
      BY <1>2, <2>3 DEF Stage
  <2>6. QED
      BY <2>2, <2>4, <2>5, ArgvStays DEF IInv
<1>3. QED
    BY <1>1, <1>2

LEMMA StageKeeps ==
  ASSUME IInv, Stage
  PROVE  IInv'
<1> USE DEF IInv
<1>1. /\ sh = "stage" /\ sh' \in {"exited", "stagewait"} /\ ran' = Append(ran, <<i, j>>)
      /\ UNCHANGED <<stream, cmd_line, mode_code, i, piped, pipe_argv, j, asked>>
    BY DEF Stage
<1>2. PICK pid : /\ Fork(pid, Child)
                 /\ IF piped THEN pipe_pid' = Append(pipe_pid, pid) /\ UNCHANGED child_pid
                    ELSE child_pid' = Set(child_pid, i, pid) /\ UNCHANGED pipe_pid
    BY DEF Stage
<1>3. {"kind", "job"} \subseteq DOMAIN Child /\ Child.job = i
    BY DEF Child, Quick
<1>4. ProcInv' /\ (Added(pid, Child) \/ Failed(pid)) /\ pid \in Int
    BY <1>2, <1>3, ForkAddsOne
<1>5. i \in Nat \ {0} /\ i <= Len(mysh_argv) /\ j \in Nat \ {0} /\ Len(mysh_argv) \in Nat
    BY <1>1 DEF TextInv, StageInv, Working
<1>6. /\ child_pid' \in Seq(Int) /\ Len(child_pid') = i
      /\ \A k \in 1..Entered : child_pid'[k] = child_pid[k]
      /\ Entered \in {i - 1, i}
      /\ piped => Entered = i /\ child_pid' = child_pid
      /\ ~piped => Entered = i - 1 /\ child_pid'[i] = pid
  <2>1. CASE piped
    <3>1. Entered = i /\ child_pid' = child_pid
        BY <2>1, <1>1, <1>2 DEF Entered
    <3>2. child_pid \in Seq(Int) /\ Len(child_pid) = i
        BY <3>1, <1>1 DEF EntriesInv, StageInv, Working
    <3>3. QED
        BY <2>1, <3>1, <3>2
  <2>2. CASE ~piped
    <3>1. Entered = i - 1 /\ child_pid' = Set(child_pid, i, pid) /\ sh \in Working
        BY <2>2, <1>1, <1>2 DEF Entered, Working
    <3>2. QED
        BY <2>2, <3>1, <1>4, EntryIsMade
  <2>3. QED
      BY <2>1, <2>2
<1>7. /\ pipe_pid' \in Seq(Int)
      /\ piped => Len(pipe_pid') = j /\ pipe_pid'[j] = pid
      /\ ~piped => Len(pipe_pid') = 0
  <2>1. pipe_pid \in Seq(Int) /\ Len(pipe_pid) = IF ~piped THEN 0 ELSE j - 1
      BY <1>1 DEF StageInv
  <2>2. CASE piped
    <3>1. pipe_pid' = Append(pipe_pid, pid) /\ Len(pipe_pid) = j - 1
        BY <2>1, <2>2, <1>2
    <3>2. pipe_pid' \in Seq(Int) /\ Len(pipe_pid') = j /\ pipe_pid'[j] = pid
        BY <2>1, <3>1, <1>4, <1>5, AppendProperties
    <3>3. QED
        BY <2>2, <3>2
  <2>3. CASE ~piped
      BY <2>1, <2>3, <1>2
  <2>4. QED
      BY <2>2, <2>3
<1>8. /\ mysh_argv' \in Seq(Text) /\ Len(mysh_argv') = Len(mysh_argv)
      /\ \A m \in 1..Len(mysh_argv) : m # i => mysh_argv'[m] = mysh_argv[m]
    BY StageCuts
<1>9. TextInv'
    BY <1>1, <1>8 DEF TextInv, Working, stream
<1>10. failures \in Nat /\ failures' \in Nat /\ failures' >= failures
    BY <1>4 DEF ProcInv, Added, Failed
<1>11. StageInv'
  <2>1. ASSUME NEW k \in 1..i, child_pid'[k] = -1 PROVE failures' > 0
    <3>1. CASE k \in 1..Entered
      <4>1. child_pid[k] = -1 /\ k \in 1..Len(child_pid)
        <5>1. Entered <= Len(child_pid) /\ Len(child_pid) \in Nat
            BY <1>1 DEF EntriesInv, Working, StageInv
        <5>2. QED
            BY <5>1, <3>1, <2>1, <1>6
      <4>2. failures > 0
          BY <4>1 DEF StageInv
      <4>3. QED
          BY <4>2, <1>10
    <3>2. CASE k \notin 1..Entered
      <4>1. k = i /\ ~piped
          BY <3>2, <1>5, <1>6
      <4>2. pid = -1
          BY <4>1, <2>1, <1>6
      <4>3. QED
          BY <4>2, <1>4, <1>10 DEF Failed, Added
    <3>3. QED
        BY <3>1, <3>2
  <2>2. \A k \in 1..Len(child_pid') : child_pid'[k] = -1 => failures' > 0
      BY <2>1, <1>6
  <2>3. /\ piped' = piped /\ j' = j /\ (~piped => Len(pipe_argv') = 1) /\ piped \in BOOLEAN
        /\ pipe_argv' \in Seq(Text) /\ j' <= Len(pipe_argv')
      BY <1>1 DEF StageInv
  <2>4. QED
      BY <1>1, <1>5, <1>6, <1>7, <2>2, <2>3 DEF StageInv
<1>12. EntriesInv' /\ (sh' = "stagewait" => Entered' = i)
    BY <1>1, <1>5, <1>6 DEF EntriesInv, Entered, Working
<1>13. ChildrenInv'
  <2>1. SUFFICES ASSUME sh' = "stagewait", NEW p \in DOMAIN procs'
                 PROVE  /\ OfJob(p)' \/ OfStage(p)'
                        /\ mode_code <= 1 => procs'[p].job = i
      BY <1>1, <2>1 DEF ChildrenInv, Working
  <2>2. First' \in 1..i /\ First' = First /\ Entered' = i
      BY <2>1, <1>1, <1>5, <1>12 DEF First
  <2>3. CASE p \in DOMAIN procs
    <3>1. OfJob(p) /\ (mode_code <= 1 => procs[p].job = i)
        BY <2>3, <1>1 DEF ChildrenInv, Working, OfStage
    <3>2. PICK k \in First..Entered : child_pid[k] = p
        BY <3>1 DEF OfJob
    <3>3. k \in First'..Entered' /\ child_pid'[k] = p
        BY <3>2, <2>2, <1>5, <1>6
    <3>4. procs'[p] = procs[p]
        BY <2>3, <1>4 DEF Added, Failed
    <3>5. QED
        BY <3>1, <3>3, <3>4 DEF OfJob
  <2>4. CASE p \notin DOMAIN procs
    <3>1. p = pid /\ procs'[p] = Child
        BY <2>4, <1>4 DEF Added, Failed
    <3>2. CASE piped
        BY <3>1, <3>2, <2>1, <1>1, <1>3, <1>7 DEF OfStage
    <3>3. CASE ~piped
      <4>1. i \in First'..Entered' /\ child_pid'[i] = p
          BY <3>1, <3>3, <2>2, <1>5, <1>6
      <4>2. QED
          BY <4>1, <3>1, <1>3 DEF OfJob
    <3>4. QED
        BY <3>2, <3>3
  <2>5. QED
      BY <2>3, <2>4
<1>14. AskedInv'
  <2>1. ASSUME failures = 0 PROVE \A k \in (i + 1)..Len(asked) : mysh_argv'[k] = asked[k]
      BY <1>1, <1>8, <2>1, BehindStays DEF Working
  <2>2. sh' = "stagewait" => Untouched' = i + 1
      BY <1>1 DEF Untouched
  <2>3. asked' \in Seq(Text) /\ Len(asked') = Len(mysh_argv')
      BY <1>1, <1>8 DEF AskedInv, Working
  <2>4. failures = 0 => Len(pipe_argv') = StageCount(asked'[i'])
      BY <1>1 DEF AskedInv
  <2>5. QED
      BY <1>1, <1>10, <2>1, <2>2, <2>3, <2>4 DEF AskedInv, Working
<1>15. OrderInv'
  <2>1. asked \in Seq(Text) /\ ran \in Seq(Nat \X Nat) /\ i \in 1..Len(asked)
      BY <1>1, <1>5 DEF AskedInv, OrderInv, Working
  <2>2. ran' \in Seq(Nat \X Nat)
    <3>1. <<i, j>> \in Nat \X Nat
        BY <1>5
    <3>2. QED
        BY <1>1, <2>1, <3>1, AppendProperties
  <2>3. ASSUME failures' = 0
        PROVE  \E u \in Nat \X Nat : RanTo(u)' /\ (~Ended' => u = Upto')
    <3>1. failures = 0
        BY <2>3, <1>10
    <3>2. Upto = <<i, j>> /\ ~Ended
        BY <1>1 DEF Upto, Ended
    <3>3. RanTo(<<i, j>>)
        BY <3>1, <3>2 DEF OrderInv
    <3>4. j \in 1..StageCount(asked[i])
      <4>1. Len(pipe_argv) = StageCount(asked[i])
          BY <1>1, <3>1 DEF AskedInv
      <4>2. j <= Len(pipe_argv) /\ Len(pipe_argv) \in Nat
          BY <1>1 DEF StageInv
      <4>3. QED
          BY <4>1, <4>2, <1>5
    <3>5. PICK a \in Nat, b \in Nat : a = i /\ b = j
        BY <1>5
    <3>6. RanTo(<<a, b + 1>>)'
      <4>1. a \in 1..Len(asked) /\ b \in 1..StageCount(asked[a]) /\ RanTo(<<a, b>>)
          BY <2>1, <3>3, <3>4, <3>5
      <4>2. ran' = Append(ran, <<a, b>>) /\ asked' = asked
          BY <1>1, <3>5
      <4>3. QED
          BY <4>1, <4>2, <2>1, NextStage
    <3>7. PICK u : u = <<a, b + 1>>
        OBVIOUS
    <3>7a. u \in Nat \X Nat
        BY <3>7
    <3>8. ~Ended' => u = Upto'
        BY <1>1, <3>5, <3>7 DEF Ended, Upto
    <3>9. QED
        BY <3>6, <3>7, <3>7a, <3>8
  <2>4. QED
      BY <2>2, <2>3 DEF OrderInv
<1>16. QED
    BY <1>4, <1>9, <1>11, <1>12, <1>13, <1>14, <1>15

-----------------------------------------------------------------------------
(* Waiting.                                                                *)

\* Once the stage was waited for, the children that are left stand for jobs.
LEMMA AwaitStageLeaves ==
  ASSUME IInv, StageWait
  PROVE  /\ ProcInv'
         /\ DOMAIN procs' \subseteq DOMAIN procs
         /\ \A p \in DOMAIN procs' : procs'[p] = procs[p] /\ OfJob(p)
<1>1. sh = "stagewait" /\ AwaitStage /\ failures' = failures
    BY DEF StageWait
<1>2. /\ ProcInv
      /\ \A p \in DOMAIN procs : p \in Nat \ {0} /\ (OfJob(p) \/ (piped /\ pipe_pid[j] = p))
    BY <1>1 DEF IInv, ProcInv, ChildrenInv, OfStage, Working
<1>3. CASE piped /\ pipe_pid[j] > 0
  <2>1. pipe_pid[j] \in DOMAIN procs /\ Reap(pipe_pid[j])
      BY <1>1, <1>3 DEF AwaitStage, Zombie
  <2>2. /\ ProcInv' /\ DOMAIN procs' = DOMAIN procs \ {pipe_pid[j]}
        /\ \A p \in DOMAIN procs' : procs'[p] = procs[p]
      BY <1>1, <1>2, <2>1, ReapTakesOne
  <2>3. QED
      BY <1>2, <2>2
<1>4. CASE ~(piped /\ pipe_pid[j] > 0)
  <2>1. procs' = procs
      BY <1>1, <1>4 DEF AwaitStage
  <2>2. \A p \in DOMAIN procs : OfJob(p)
      BY <1>2, <1>4
  <2>3. QED
      BY <1>1, <1>2, <2>1, <2>2 DEF ProcInv
<1>5. QED
    BY <1>3, <1>4

LEMMA StageWaitKeeps ==
  ASSUME IInv, StageWait
  PROVE  IInv'
<1> USE DEF IInv
<1>1. /\ sh = "stagewait"
      /\ UNCHANGED <<stream, cmd_line, mode_code, mysh_argv, child_pid, piped, pipe_argv,
                     pipe_pid, failures, ran, asked>>
    BY DEF StageWait, line, pipeline
<1>2. /\ i \in Nat \ {0} /\ i <= Len(mysh_argv) /\ j \in Nat \ {0} /\ Len(mysh_argv) \in Nat
      /\ mode_code \in 0..2 /\ Len(child_pid) = i /\ Entered = i
    BY <1>1 DEF TextInv, StageInv, EntriesInv, Entered, Working
<1>3. ~piped => Len(pipe_argv) = 1
    BY <1>1 DEF StageInv
<1>4. \/ /\ j < Len(pipe_argv) /\ j' = j + 1 /\ sh' = "stage" /\ i' = i
      \/ mode_code <= 1 /\ j' = j /\ sh' = "wait" /\ i' = i
      \/ mode_code = 2 /\ i < Len(mysh_argv) /\ j' = j /\ sh' = "job" /\ i' = i + 1
      \/ mode_code = 2 /\ i = Len(mysh_argv) /\ j' = j /\ sh' = "wait" /\ i' = 1
    BY <1>2 DEF StageWait, AfterJob, MoreStages
<1>5. sh' = "stage" => piped
  <2>1. PICK n : n = Len(pipe_argv)
      OBVIOUS
  <2>2. sh' = "stage" => j < n
      BY <1>4, <2>1
  <2>3. j \in Nat /\ ~(j < 1)
      BY <1>2
  <2>4. ~piped => n = 1
      BY <1>3, <2>1
  <2>5. QED
      BY <2>2, <2>3, <2>4
<1>6. /\ Entered' = i /\ First' = First
      /\ mode_code <= 1 => i' = i
    BY <1>1, <1>2, <1>4, <1>5 DEF Entered, First
<1>7. ProcInv' /\ \A p \in DOMAIN procs' : procs'[p] = procs[p] /\ OfJob(p) /\ p \in DOMAIN procs
    BY AwaitStageLeaves
<1>8. TextInv'
  <2>1. sh' \in Working /\ i' \in 1..Len(mysh_argv)
      BY <1>2, <1>4 DEF Working
  <2>2. QED
      BY <1>1, <1>2, <2>1 DEF TextInv, stream
<1>9. StageInv'
  <2>1. pipe_argv \in Seq(Text) /\ Len(pipe_argv) \in Nat
      BY <1>1 DEF StageInv
  <2>2. sh' = "stage" => j' \in Nat \ {0} /\ j' = j + 1 /\ j' <= Len(pipe_argv)
      BY <1>2, <1>4, <2>1
  <2>3. sh' # "stagewait"
      BY <1>4
  <2>4. sh' = "stage" => Len(pipe_pid) = j' - 1
      BY <1>1, <1>2, <1>5, <2>2 DEF StageInv
  <2>5. QED
      BY <1>1, <1>5, <2>1, <2>2, <2>3, <2>4 DEF StageInv
<1>10. EntriesInv'
    BY <1>1, <1>2, <1>6 DEF EntriesInv
<1>11. ChildrenInv'
  <2>1. ASSUME NEW p \in DOMAIN procs'
        PROVE  OfJob(p)' /\ (mode_code <= 1 => procs'[p].job = i')
    <3>1. OfJob(p)'
        BY <1>1, <1>2, <1>6, <1>7 DEF OfJob
    <3>2. mode_code <= 1 => procs[p].job = i
        BY <1>1, <1>7 DEF ChildrenInv, Working
    <3>3. QED
        BY <3>1, <3>2, <1>6, <1>7
  <2>2. sh' \notin {"read", "sync", "syncwait"}
      BY <1>4
  <2>3. QED
      BY <1>1, <2>1, <2>2 DEF ChildrenInv
<1>12. AskedInv' /\ OrderInv'
  <2>1. CASE sh' = "stage"
    <3>1. i' = i /\ j' = j + 1
        BY <1>4, <2>1
    <3>2. Untouched' = Untouched
        BY <1>1, <2>1, <3>1 DEF Untouched
    <3>3. AskedInv'
        BY <1>1, <2>1, <3>1, <3>2 DEF AskedInv, Working
    <3>4. ~Ended /\ Upto' = Upto
        BY <1>1, <2>1, <3>1 DEF Ended, Upto
    <3>5. QED
        BY <1>1, <3>3, <3>4, OrderStays
  <2>2. CASE sh' # "stage"
    <3>1. AfterJob
        BY <2>2 DEF StageWait
    <3>2. j = Len(pipe_argv)
      <4>1. ~MoreStages
          BY <2>2 DEF StageWait
      <4>2. j <= Len(pipe_argv) /\ Len(pipe_argv) \in Nat
          BY <1>1 DEF StageInv
      <4>3. QED
          BY <1>2, <4>1, <4>2 DEF MoreStages
    <3>3. failures = 0 => Upto = <<i, j + 1>> /\ StageCount(asked[i]) = j
        BY <1>1, <3>2 DEF AskedInv, Upto
    <3>4. \A m \in 1..Len(mysh_argv) : m # i => mysh_argv'[m] = mysh_argv[m]
        BY <1>1
    <3>5. UNCHANGED <<mode_code, ran, asked>> /\ Len(mysh_argv') = Len(mysh_argv) /\ j \in Nat
        BY <1>1, <1>2
    <3>6. QED
        BY <1>1, <3>1, <3>3, <3>4, <3>5, AfterJobOrder
  <2>3. QED
      BY <2>1, <2>2
<1>13. QED
    BY <1>7, <1>8, <1>9, <1>10, <1>11, <1>12

LEMMA JobWaitKeeps ==
  ASSUME IInv, JobWait
  PROVE  IInv'
<1> USE DEF IInv
<1>1. /\ sh = "wait" /\ child_pid[i] \in DOMAIN procs /\ Reap(child_pid[i]) /\ i' = i + 1
      /\ sh' = IF i = Len(mysh_argv) THEN "read" ELSE IF mode_code <= 1 THEN "job" ELSE "wait"
      /\ UNCHANGED <<stream, cmd_line, mode_code, mysh_argv, child_pid, piped, pipe_argv,
                     pipe_pid, j, failures, ran, asked>>
    BY DEF JobWait, Zombie, line, pipeline
<1>2. /\ i \in Nat \ {0} /\ i <= Len(mysh_argv) /\ Len(mysh_argv) \in Nat
      /\ mode_code \in {0, 1, 2} /\ Len(child_pid) \in Nat
    BY <1>1 DEF TextInv, StageInv, Working
<1>3. First = i /\ Entered = IF mode_code = 2 THEN Len(mysh_argv) ELSE i
    BY <1>1 DEF First, Entered
<1>4. /\ ProcInv' /\ DOMAIN procs' = DOMAIN procs \ {child_pid[i]}
      /\ \A p \in DOMAIN procs' : procs'[p] = procs[p]
    BY <1>1, ReapTakesOne
<1>5. \A p \in DOMAIN procs' : \E k \in (i + 1)..Entered : child_pid[k] = p
  <2>1. SUFFICES ASSUME NEW p \in DOMAIN procs'
                 PROVE  \E k \in (i + 1)..Entered : child_pid[k] = p
      OBVIOUS
  <2>2. p \in DOMAIN procs /\ p # child_pid[i]
      BY <1>4
  <2>3. PICK k \in i..Entered : child_pid[k] = p
      BY <2>2, <1>1, <1>3 DEF ChildrenInv, OfJob, OfStage, Working
  <2>4. k # i
      BY <2>2, <2>3
  <2>5. k \in (i + 1)..Entered
      BY <2>3, <2>4, <1>2, <1>3
  <2>6. QED
      BY <2>3, <2>5
<1>6. CASE mode_code <= 1 \/ i = Len(mysh_argv)
  <2>1. DOMAIN procs' = {}
    <3>1. Entered = i
        BY <1>2, <1>3, <1>6
    <3>2. (i + 1)..Entered = {}
        BY <1>2, <3>1
    <3>3. QED
        BY <1>5, <3>2
  <2>2. sh' = "read" \/ (sh' = "job" /\ i < Len(mysh_argv))
      BY <1>1, <1>2, <1>6
  <2>3. TextInv'
      BY <1>1, <1>2, <2>2 DEF TextInv, Working, stream
  <2>4. StageInv'
      BY <1>1, <2>2 DEF StageInv
  <2>5. EntriesInv'
    <3>1. SUFFICES ASSUME sh' = "job" PROVE EntriesInv'
        BY <2>2 DEF EntriesInv, Working
    <3>2. mode_code # 2 /\ Entered = i
        BY <3>1, <1>1, <1>2, <1>3
    <3>3. Len(child_pid) = i
        BY <3>2, <1>1 DEF EntriesInv, Working
    <3>4. Entered' = i
        BY <3>1, <1>1, <1>2 DEF Entered
    <3>5. QED
        BY <3>3, <3>4, <1>1, <1>2 DEF EntriesInv
  <2>6. ChildrenInv'
      BY <2>1, <2>2 DEF ChildrenInv
  <2>7. AskedInv'
    <3>1. sh' = "job" => Untouched = i + 1 /\ Untouched' = i + 1 /\ mode_code # 2
        BY <1>1, <1>2 DEF Untouched
    <3>2. QED
        BY <1>1, <2>2, <3>1 DEF AskedInv, Working
  <2>8. OrderInv'
    <3>1. Len(asked) = Len(mysh_argv)
        BY <1>1 DEF AskedInv, Working
    <3>2. CASE sh' = "job"
      <4>1. mode_code <= 1
          BY <3>2, <1>1, <1>2
      <4>2. ~Ended /\ Upto' = Upto
          BY <1>1, <3>2, <4>1 DEF Ended, Upto
      <4>3. QED
          BY <1>1, <4>2, OrderStays
    <3>3. CASE sh' = "read"
      <4>1. i = Len(asked)
          BY <1>1, <1>2, <3>1, <3>3
      <4>2. Upto' = <<Len(asked) + 1, 1>>
          BY <1>1, <3>3 DEF Upto
      <4>3. Upto = <<Len(asked) + 1, 1>>
          BY <1>1, <1>2, <4>1 DEF Upto
      <4>4. ~Ended
          BY <1>1 DEF Ended
      <4>5. QED
          BY <1>1, <4>2, <4>3, <4>4, OrderStays
    <3>4. QED
        BY <2>2, <3>2, <3>3
  <2>9. QED
      BY <1>4, <2>3, <2>4, <2>5, <2>6, <2>7, <2>8
<1>7. CASE mode_code = 2 /\ i # Len(mysh_argv)
  <2>1. sh' = "wait" /\ i + 1 <= Len(mysh_argv)
      BY <1>1, <1>2, <1>7
  <2>2. TextInv'
      BY <1>1, <1>2, <2>1 DEF TextInv, Working, stream
  <2>3. StageInv'
      BY <1>1, <2>1 DEF StageInv
  <2>4. First' = i + 1 /\ Entered' = Entered /\ Entered = Len(mysh_argv)
      BY <1>1, <1>3, <1>7, <2>1 DEF First, Entered
  <2>5. EntriesInv'
    <3>1. Len(child_pid) = Len(mysh_argv)
        BY <1>1, <1>2, <1>7, <2>4 DEF EntriesInv, Working
    <3>2. QED
        BY <3>1, <1>1, <1>2, <2>4 DEF EntriesInv
  <2>6. ChildrenInv'
    <3>1. \A p \in DOMAIN procs' : OfJob(p)'
        BY <1>1, <1>5, <2>4 DEF OfJob
    <3>2. QED
        BY <1>1, <1>7, <2>1, <3>1 DEF ChildrenInv
  <2>7. AskedInv'
      BY <1>1, <1>7, <2>1 DEF AskedInv, Working
  <2>8. OrderInv'
    <3>1. ~Ended /\ Upto' = Upto
        BY <1>1, <1>7, <2>1 DEF Ended, Upto
    <3>2. QED
        BY <1>1, <3>1, OrderStays
  <2>9. QED
      BY <1>4, <2>2, <2>3, <2>5, <2>6, <2>7, <2>8
<1>8. QED
    BY <1>2, <1>6, <1>7

\* fork failed: the job has no child, so in sequence there is none at all.
LEMMA NoChildToWaitForKeeps ==
  ASSUME IInv, NoChildToWaitFor
  PROVE  IInv'
<1> USE DEF IInv
<1>1. /\ sh = "wait" /\ child_pid[i] = -1 /\ sh' = IF mode_code <= 1 THEN "job" ELSE "wait"
      /\ UNCHANGED <<stream, cmd_line, mode_code, mysh_argv, i, child_pid, piped, pipe_argv,
                     pipe_pid, j, procs, failures, ran, asked>>
    BY DEF NoChildToWaitFor, line, pipeline
<1>2. /\ i \in Nat \ {0} /\ i <= Len(mysh_argv) /\ Len(mysh_argv) \in Nat
      /\ mode_code \in {0, 1, 2} /\ Len(child_pid) \in Nat
    BY <1>1 DEF TextInv, StageInv, Working
<1>3. First = i /\ Entered = IF mode_code = 2 THEN Len(mysh_argv) ELSE i
    BY <1>1 DEF First, Entered
<1>4. Entered <= Len(child_pid) /\ (Len(child_pid) = Entered \/ Len(child_pid) = i)
    BY <1>1 DEF EntriesInv, Working
<1>5. failures \in Nat /\ failures > 0
  <2>1. i \in 1..Len(child_pid)
      BY <1>2, <1>3, <1>4
  <2>2. QED
      BY <1>1, <2>1 DEF StageInv, ProcInv
<1>6. mode_code <= 1 => DOMAIN procs = {}
  <2>1. SUFFICES ASSUME mode_code <= 1, NEW p \in DOMAIN procs PROVE FALSE
      OBVIOUS
  <2>2. PICK k \in i..i : child_pid[k] = p
      BY <1>1, <1>2, <1>3, <2>1 DEF ChildrenInv, OfJob, OfStage, Working
  <2>3. child_pid[i] = p /\ p \in Nat
      BY <1>2, <2>2 DEF ProcInv
  <2>4. QED
      BY <1>1, <2>3
<1>7. TextInv'
    BY <1>1 DEF TextInv, Working, stream
<1>8. ProcInv'
    BY <1>1 DEF ProcInv
<1>9. StageInv'
    BY <1>1 DEF StageInv
<1>10. EntriesInv'
    BY <1>1, <1>2, <1>3, <1>4 DEF EntriesInv, Entered
<1>11. ChildrenInv'
  <2>1. CASE mode_code <= 1
      BY <1>1, <1>6, <2>1 DEF ChildrenInv
  <2>2. CASE mode_code = 2
      BY <1>1, <2>2 DEF ChildrenInv, OfJob, OfStage, First, Entered, Working
  <2>3. QED
      BY <1>2, <2>1, <2>2
<1>12. AskedInv'
    BY <1>1, <1>5 DEF AskedInv, Working
<1>13. OrderInv'
    BY <1>1, <1>5 DEF OrderInv
<1>14. QED
    BY <1>7, <1>8, <1>9, <1>10, <1>11, <1>12, <1>13

-----------------------------------------------------------------------------
(* A step of a child.                                                      *)

LEMMA ChildStepKeeps ==
  ASSUME IInv, NEW p, ChildStep(p)
  PROVE  IInv'
<1> USE DEF IInv
<1>1. /\ p \in DOMAIN procs
      /\ UNCHANGED <<given, unread, sh, cmd_line, mode_code, mysh_argv, i, child_pid, piped,
                     pipe_argv, pipe_pid, j, failures, ran, asked>>
    BY DEF ChildStep, line, pipeline
<1>2. PICK child : Become(p, child) /\ child.kind = procs[p].kind /\ child.job = procs[p].job
                   /\ DOMAIN child = DOMAIN procs[p]
  <2>1. {"kind", "job"} \subseteq DOMAIN procs[p]
      BY <1>1 DEF ProcInv
  <2>2. CASE ChildReads(p)
      BY <2>1, <2>2 DEF ChildReads
  <2>3. CASE ChildReadsEOF(p)
      BY <2>1, <2>3 DEF ChildReadsEOF
  <2>4. CASE ChildWrites(p)
      BY <2>1, <2>4 DEF ChildWrites
  <2>5. CASE ChildExits(p)
    <3>1. PICK child : child = [procs[p] EXCEPT !.running = FALSE]
        OBVIOUS
    <3>2. Become(p, child)
        BY <2>5, <3>1 DEF ChildExits
    <3>3. child.kind = procs[p].kind /\ child.job = procs[p].job
        BY <2>1, <3>1
    <3>4. DOMAIN child = DOMAIN procs[p]
        BY <3>1
    <3>5. QED
        BY <3>2, <3>3, <3>4
  <2>6. QED
      BY <2>2, <2>3, <2>4, <2>5 DEF ChildStep
<1>3. procs' = [procs EXCEPT ![p] = child]
    BY <1>2 DEF Become
<1>4. /\ DOMAIN procs' = DOMAIN procs
      /\ \A q \in DOMAIN procs : /\ procs'[q].kind = procs[q].kind
                                 /\ procs'[q].job = procs[q].job
                                 /\ DOMAIN procs'[q] = DOMAIN procs[q]
  <2>1. PICK S : procs \in [DOMAIN procs -> S]
      BY DEF ProcInv
  <2>2. procs'[p] = child /\ DOMAIN procs' = DOMAIN procs
      BY <1>1, <1>3, <2>1
  <2>3. \A q \in DOMAIN procs : q # p => procs'[q] = procs[q]
      BY <1>3, <2>1
  <2>4. QED
      BY <1>2, <2>2, <2>3
<1>5. offset' \in 0..Len(given.lines)
  <2>1. offset \in 0..Len(given.lines) /\ Len(unread) \in Nat
      BY DEF TextInv
  <2>2. offset' = offset \/ (Len(unread) <= offset /\ offset' = offset - Len(unread))
      BY DEF ChildStep, ChildReads, ChildReadsEOF, ChildWrites, ChildExits
  <2>3. Len(given.lines) \in Nat
      BY ShellAssumption DEF TextInv
  <2>4. QED
      BY <2>1, <2>2, <2>3
<1>6. TextInv'
    BY <1>1, <1>5 DEF TextInv
<1>7. ProcInv'
  <2>1. \E S : procs' \in [DOMAIN procs' -> S]
    <3>1. PICK S : procs \in [DOMAIN procs -> S]
        BY DEF ProcInv
    <3>2. procs' \in [DOMAIN procs' -> S \cup {child}]
        BY <1>3, <3>1
    <3>3. QED
        BY <3>2
  <2>2. \A q \in DOMAIN procs' : {"kind", "job"} \subseteq DOMAIN procs'[q]
      BY <1>4 DEF ProcInv
  <2>3. QED
      BY <1>1, <1>4, <2>1, <2>2 DEF ProcInv
<1>8. StageInv' /\ EntriesInv'
    BY <1>1 DEF StageInv, EntriesInv, Entered
<1>9. ChildrenInv'
  <2>1. \A q : OfJob(q)' = OfJob(q) /\ OfStage(q)' = OfStage(q)
      BY <1>1 DEF OfJob, OfStage, First, Entered
  <2>2. QED
      BY <1>1, <1>4, <2>1 DEF ChildrenInv
<1>10. AskedInv'
    BY <1>1 DEF AskedInv, Untouched
<1>11. OrderInv'
    BY <1>1, OrderStays DEF Ended, Upto
<1>12. QED
    BY <1>6, <1>7, <1>8, <1>9, <1>10, <1>11

-----------------------------------------------------------------------------
(* The bounds.                                                             *)

\* Before a fork every child stands for a job of the line.
LEMMA FewChildren ==
  ASSUME IInv, BoundInv, sh \in {"sync", "job", "stage"}
  PROVE  Cardinality(DOMAIN procs) \in 0..MAX_LENGTH
<1>1. MAX_LENGTH \in Nat /\ IsFiniteSet(DOMAIN procs) /\ Cardinality(DOMAIN procs) \in Nat
    BY ShellAssumption, FS_CardinalityType DEF IInv, ProcInv
<1>2. CASE sh = "sync"
  <2>1. DOMAIN procs = {}
      BY <1>2 DEF IInv, ChildrenInv
  <2>2. QED
      BY <1>1, <2>1, FS_EmptySet
<1>3. CASE sh \in {"job", "stage"}
  <2> DEFINE entry == [p \in DOMAIN procs |-> CHOOSE k \in 1..MAX_LENGTH : child_pid[k] = p]
  <2>1. First \in Nat \ {0} /\ Entered \in Nat /\ Entered <= MAX_LENGTH
    <3>1. i \in Nat \ {0} /\ i <= Len(mysh_argv) /\ Len(mysh_argv) \in Nat
        BY <1>3 DEF IInv, TextInv, Working
    <3>2. Len(mysh_argv) <= MAX_LENGTH
        BY DEF BoundInv, LineBound
    <3>3. First \in {1, i} /\ Entered \in {i - 1, i}
        BY <1>3 DEF First, Entered
    <3>4. QED
        BY <1>1, <3>1, <3>2, <3>3
  <2>2. ASSUME NEW p \in DOMAIN procs PROVE \E k \in 1..MAX_LENGTH : child_pid[k] = p
    <3>1. OfJob(p)
        BY <1>3 DEF IInv, ChildrenInv, OfStage, Working
    <3>2. PICK k \in First..Entered : child_pid[k] = p
        BY <3>1 DEF OfJob
    <3>3. k \in 1..MAX_LENGTH
        BY <1>1, <2>1, <3>2
    <3>4. QED
        BY <3>2, <3>3
  <2>3. \A p \in DOMAIN procs : entry[p] \in 1..MAX_LENGTH /\ child_pid[entry[p]] = p
      BY <2>2
  <2>4. entry \in [DOMAIN procs -> 1..MAX_LENGTH]
      BY <2>3
  <2> HIDE DEF entry
  <2>5. entry \in Injection(DOMAIN procs, 1..MAX_LENGTH)
      BY <2>3, <2>4 DEF Injection, IsInjective
  <2>6. IsFiniteSet(1..MAX_LENGTH) /\ Cardinality(1..MAX_LENGTH) = MAX_LENGTH
      BY <1>1, FS_Interval
  <2>7. Cardinality(DOMAIN procs) <= MAX_LENGTH
      BY <2>5, <2>6, FS_Injection
  <2>8. QED
      BY <1>1, <2>7
<1>4. QED
    BY <1>2, <1>3

LEMMA ForkBound ==
  ASSUME IInv, BoundInv, sh \in {"sync", "job", "stage"}, NEW pid, NEW child, Fork(pid, child)
  PROVE  pid \in Pid \cup {-1} /\ DOMAIN procs' \subseteq Pid /\ failures' \in 0..MaxFailures
<1>1. MaxFailures \in Nat /\ MAX_LENGTH \in Nat
    BY ShellAssumption
<1>2. DOMAIN procs \subseteq Pid /\ failures \in 0..MaxFailures
    BY DEF BoundInv, PidBound
<1>3. CASE pid = NewPid /\ failures' = failures
           /\ procs' = [p \in DOMAIN procs \cup {pid} |-> IF p = pid THEN child ELSE procs[p]]
  <2>1. PICK n \in 0..MAX_LENGTH : n = Cardinality(DOMAIN procs)
      BY FewChildren
  <2>2. \E p \in 1..(n + 1) : p \notin DOMAIN procs
    <3>1. NewPid \in Nat \ {0} /\ NewPid \notin DOMAIN procs
        BY NewPidIsNew DEF IInv
    <3>2. Cardinality(1..(n + 1)) = n + 1
        BY <1>1, <2>1, FS_Interval
    <3>3. SUFFICES ASSUME 1..(n + 1) \in SUBSET DOMAIN procs PROVE FALSE
        OBVIOUS
    <3>4. Cardinality(1..(n + 1)) <= Cardinality(DOMAIN procs)
        BY <3>3, FS_Subset DEF IInv, ProcInv
    <3>5. QED
        BY <2>1, <3>2, <3>4
  <2>3. NewPid \in 1..(n + 1)
      BY <2>1, <2>2 DEF NewPid
  <2>4. NewPid \in Pid
      BY <1>1, <2>1, <2>3 DEF Pid
  <2>5. QED
      BY <1>2, <1>3, <2>4
<1>4. CASE pid = -1 /\ failures < MaxFailures /\ failures' = failures + 1 /\ UNCHANGED procs
    BY <1>1, <1>2, <1>4
<1>5. QED
    BY <1>3, <1>4 DEF Fork

\* The jobs of a line are texts that are not longer than it.
LEMMA BeginBound ==
  ASSUME NEW text \in Text, Len(text) <= MAX_LENGTH, Begin(text)
  PROVE  /\ mode_code' \in 0..3
         /\ mysh_argv' \in Seq(Text) /\ Len(mysh_argv') <= MAX_LENGTH
         /\ i' \in 1..(Len(mysh_argv') + 1)
         /\ child_pid' \in Seq(Pid \cup {-1}) /\ Len(child_pid') <= Len(mysh_argv')
<1>1. MAX_LENGTH \in Nat /\ Len(text) \in Nat
    BY ShellAssumption DEF Text
<1>2. mode_code' \in 0..3
  <2>1. PICK a \in {0, 1} : a = IF Contains(text, SEMICOLON) THEN 1 ELSE 0
      OBVIOUS
  <2>2. PICK b \in {0, 2} : b = IF Contains(text, "+") THEN 2 ELSE 0
      OBVIOUS
  <2>3. mode_code' = a + b
      BY <2>1, <2>2 DEF getCommandMode, Begin
  <2>4. QED
      BY <2>3
<1>3. \/ mysh_argv' = Split(text, SEMICOLON)
      \/ mysh_argv' = Split(text, "+")
      \/ mysh_argv' = <<>>
    BY <1>2 DEF Begin
<1>4. ASSUME NEW c PROVE Split(text, c) \in Seq(Text) /\ Len(Split(text, c)) <= MAX_LENGTH
  <2>1. Split(text, c) \in Seq(Text) /\ Len(Split(text, c)) <= Len(text)
      BY SplitIsTexts
  <2>2. Len(Split(text, c)) \in Nat
      BY <2>1
  <2>3. QED
      BY <1>1, <2>1, <2>2
<1>5. mysh_argv' \in Seq(Text) /\ Len(mysh_argv') <= MAX_LENGTH
  <2>1. CASE \E c : mysh_argv' = Split(text, c)
      BY <1>4, <2>1
  <2>2. CASE mysh_argv' = <<>>
      BY <1>1, <2>2
  <2>3. QED
      BY <1>3, <2>1, <2>2
<1>6. Len(mysh_argv') \in Nat
    BY <1>5
<1>7. child_pid' = <<>> /\ i' = 1
    BY DEF Begin
<1>8. child_pid' \in Seq(Pid \cup {-1}) /\ Len(child_pid') = 0
    BY <1>7
<1>9. QED
    BY <1>2, <1>5, <1>6, <1>7, <1>8

\* What a job is cut into can be cut further.
LEMMA JobBound ==
  ASSUME LineBound, NEW k \in 1..Len(mysh_argv), NEW v \in Text,
         mysh_argv' = [mysh_argv EXCEPT ![k] = v]
  PROVE  mysh_argv' \in Seq(Text) /\ Len(mysh_argv') = Len(mysh_argv)
BY ExceptSeq DEF LineBound

\* The child of a job gets its entry among those of the jobs.
LEMMA EntryBound ==
  ASSUME IInv, BoundInv, sh \in Working, Entered = i - 1,
         NEW pid \in Pid \cup {-1}, child_pid' = Set(child_pid, i, pid)
  PROVE  child_pid' \in Seq(Pid \cup {-1}) /\ Len(child_pid') <= Len(mysh_argv)
<1>1. pid \in Int
    BY ShellAssumption DEF Pid
<1>2. Len(child_pid') = i /\ i \in Nat /\ i <= Len(mysh_argv) /\ Len(mysh_argv) \in Nat
    BY <1>1, EntryIsMade
<1>3. child_pid \in Seq(Pid \cup {-1})
    BY DEF BoundInv, PidBound
<1>4. child_pid' \in Seq(Pid \cup {-1})
    BY <1>3 DEF Set
<1>5. QED
    BY <1>2, <1>4

\* Forking a child and closing the ends of a pipe leave in it what it holds.
LEMMA PipesKept ==
  ASSUME NEW pipes, PipesBounded(pipes), NEW k
  PROVE  PipesBounded(CloseInShell(pipes, k))
<1>1. CASE k \notin DOMAIN pipes
    BY <1>1 DEF CloseInShell
<1>2. CASE k \in DOMAIN pipes
  <2>1. PICK closed : closed = CloseInShell(pipes, k)
      OBVIOUS
  <2>2. DOMAIN closed = DOMAIN pipes
      BY <1>2, <2>1 DEF CloseInShell
  <2>3. ASSUME NEW m \in DOMAIN pipes
        PROVE  DOMAIN closed[m] = DOMAIN pipes[m] /\ closed[m].n = pipes[m].n
    <3>1. {"n", "rd", "wr"} = DOMAIN pipes[m]
        BY DEF PipesBounded
    <3>2. CASE m = k
        BY <1>2, <2>1, <3>1, <3>2 DEF CloseInShell
    <3>3. CASE m # k
        BY <1>2, <2>1, <3>3 DEF CloseInShell
    <3>4. QED
        BY <3>2, <3>3
  <2>4. QED
      BY <2>1, <2>2, <2>3 DEF PipesBounded
<1>3. QED
    BY <1>1, <1>2

LEMMA PipesInherited ==
  ASSUME PipesBounded(pipe_fd), NEW p, NEW quick
  PROVE  PipesBounded(Inherit(p, quick))
<1>1. PICK pipes : pipes = Inherit(p, quick)
    OBVIOUS
<1>2. DOMAIN pipes = DOMAIN pipe_fd
    BY <1>1 DEF Inherit
<1>3. ASSUME NEW m \in DOMAIN pipe_fd
      PROVE  DOMAIN pipes[m] = DOMAIN pipe_fd[m] /\ pipes[m].n = pipe_fd[m].n
  <2>1. {"n", "rd", "wr"} = DOMAIN pipe_fd[m]
      BY DEF PipesBounded
  <2>2. CASE SHELL \notin pipe_fd[m].rd
      BY <1>1, <2>2 DEF Inherit
  <2>3. CASE SHELL \in pipe_fd[m].rd
    <3>1. PICK rd, wr : pipes[m] = [pipe_fd[m] EXCEPT !.rd = rd, !.wr = wr]
        BY <1>1, <2>3 DEF Inherit
    <3>2. QED
        BY <2>1, <3>1
  <2>4. QED
      BY <2>2, <2>3
<1>4. QED
    BY <1>1, <1>2, <1>3 DEF PipesBounded

LEMMA ReadBound ==
  ASSUME IInv, BoundInv, ReadLine
  PROVE  BoundInv'
<1> USE DEF BoundInv
<1>1. UNCHANGED <<pipeline, j, pipe_fd, procs, failures>>
    BY DEF ReadLine, SkipLine, BatchLine, BatchEnd, PromptLine, PromptEOF, PromptGarbage, Begin
<1>2. PipeBound'
    BY <1>1 DEF PipeBound, PipesBounded, pipeline
<1>3. CASE SkipLine \/ BatchEnd \/ PromptGarbage
  <2>1. UNCHANGED <<line, i, child_pid>> /\ (sh' \in {"exited", "segv"} \/ sh' = sh)
      BY <1>3 DEF SkipLine, BatchEnd, PromptGarbage
  <2>2. LineBound' /\ PidBound'
      BY <1>1, <2>1 DEF LineBound, PidBound, line, pipeline
  <2>3. QED
      BY <1>2, <2>2
<1>4. CASE BatchLine
  <2>1. /\ cmd_line' = Piece(FILE_LENGTH) /\ Fgets(FILE_LENGTH) /\ ~TooLong
        /\ UNCHANGED <<mode_code, mysh_argv, i, child_pid>>
      BY <1>4 DEF BatchLine
  <2>2. PICK all \in Text : all = Head(Buffered)
      BY <2>1, Sizes, FgetsTakesText DEF IInv
  <2>3. cmd_line' \in Text /\ Len(cmd_line') = Min({FILE_LENGTH - 1, Len(all)})
      BY <2>1, <2>2, Sizes, FgetsTakesText DEF IInv
  <2>4. /\ Len(all) \in Nat /\ Len(all) + 1 \in Nat /\ MAX_LENGTH \in Nat
        /\ FILE_LENGTH - 1 \in Nat /\ FILE_LENGTH - 1 > MAX_LENGTH
      BY ShellAssumption DEF Text
  <2>5. Len(all) + 1 <= MAX_LENGTH
    <3>1. PICK m : m = Min({FILE_LENGTH - 1, Len(all) + 1})
        OBVIOUS
    <3>2. m \in {FILE_LENGTH - 1, Len(all) + 1}
        BY <3>1, <2>4, LeastOfTwo
    <3>3. ~(m > MAX_LENGTH)
        BY <2>1, <2>2, <3>1 DEF TooLong
    <3>4. QED
        BY <2>4, <3>2, <3>3
  <2>6. Len(cmd_line') <= MAX_LENGTH
    <3>1. PICK m : m = Min({FILE_LENGTH - 1, Len(all)})
        OBVIOUS
    <3>2. m \in {FILE_LENGTH - 1, Len(all)} /\ m <= Len(all)
        BY <3>1, <2>4, LeastOfTwo
    <3>3. QED
        BY <2>3, <2>4, <2>5, <3>1, <3>2
  <2>7. LineBound' /\ PidBound'
      BY <1>1, <2>1, <2>3, <2>6 DEF LineBound, PidBound, pipeline
  <2>8. QED
      BY <1>2, <2>7
<1>5. CASE PromptLine \/ PromptEOF
  <2>1. PICK text \in Text : Len(text) <= MAX_LENGTH /\ Begin(text) /\ cmd_line' = Cut(text, " ")
    <3>1. CASE PromptEOF
      <4>1. Begin(cmd_line) /\ cmd_line' = Cut(cmd_line, " ")
          BY <3>1, Zenon DEF PromptEOF
      <4>2. Len(cmd_line) < MAX_LENGTH
          BY <3>1, Zenon DEF PromptEOF
      <4>3. cmd_line \in Text
          BY DEF IInv, TextInv
      <4>4. Len(cmd_line) <= MAX_LENGTH
        <5>1. Len(cmd_line) \in Nat /\ MAX_LENGTH \in Nat
            BY <4>3, Sizes DEF Text
        <5>2. QED
            BY <4>2, <5>1
      <4>5. QED
          BY <4>1, <4>3, <4>4, Zenon
    <3>2. CASE PromptLine
      <4>1. PICK text : /\ text = IF Piece(MAX_LENGTH) = <<>> THEN <<" ">> ELSE Piece(MAX_LENGTH)
                        /\ Begin(text) /\ cmd_line' = Cut(text, " ")
          BY <3>2 DEF PromptLine
      <4>2. Fgets(MAX_LENGTH)
          BY <3>2 DEF PromptLine
      <4>3. PICK all \in Text : all = Head(Buffered)
          BY <4>2, Sizes, FgetsTakesText DEF IInv
      <4>4. /\ Piece(MAX_LENGTH) \in Text
            /\ Len(Piece(MAX_LENGTH)) = Min({MAX_LENGTH - 1, Len(all)})
          BY <4>2, <4>3, Sizes, FgetsTakesText DEF IInv
      <4>5. Len(Piece(MAX_LENGTH)) <= MAX_LENGTH
        <5>1. Len(all) \in Nat /\ MAX_LENGTH - 1 \in Nat /\ MAX_LENGTH \in Nat
            BY Sizes DEF Text
        <5>2. PICK m : m = Min({MAX_LENGTH - 1, Len(all)})
            OBVIOUS
        <5>3. m \in {MAX_LENGTH - 1, Len(all)} /\ m <= MAX_LENGTH - 1
            BY <5>1, <5>2, LeastOfTwo
        <5>4. QED
            BY <4>4, <5>1, <5>2, <5>3
      <4>6. text \in Text /\ Len(text) <= MAX_LENGTH
        <5>1. PICK blank \in Token : blank = " "
            BY Zenon DEF Token, SEPARATORS
        <5>2. <<blank>> \in Text
            BY DEF Text
        <5>3. CASE Piece(MAX_LENGTH) = <<>>
          <6>1. text = <<blank>>
              BY <4>1, <5>1, <5>3
          <6>2. Len(<<blank>>) = 1 /\ MAX_LENGTH \in Nat \ {0}
              BY Sizes
          <6>3. Len(text) <= MAX_LENGTH
              BY <6>1, <6>2
          <6>4. QED
              BY <5>2, <6>1, <6>3
        <5>4. CASE Piece(MAX_LENGTH) # <<>>
          <6>1. text = Piece(MAX_LENGTH)
              BY <4>1, <5>4, Zenon
          <6>2. QED
              BY <4>4, <4>5, <6>1
        <5>5. QED
            BY <5>3, <5>4
      <4>7. QED
          BY <4>1, <4>6
    <3>3. QED
        BY <1>5, <3>1, <3>2
  <2>2. cmd_line' \in Text
      BY <2>1, CutIsText
  <2>3. sh' \notin {"sync", "syncwait"}
      BY <2>1 DEF Begin
  <2>4. LineBound' /\ child_pid' \in Seq(Pid \cup {-1}) /\ Len(child_pid') <= Len(mysh_argv')
      BY <2>1, <2>2, <2>3, BeginBound DEF LineBound
  <2>5. PidBound'
      BY <1>1, <2>4 DEF PidBound, pipeline
  <2>6. QED
      BY <1>2, <2>4, <2>5
<1>6. QED
    BY <1>3, <1>4, <1>5 DEF ReadLine

LEMMA SyncBound ==
  ASSUME IInv, BoundInv, Sync
  PROVE  BoundInv'
<1> USE DEF BoundInv
<1>1. UNCHANGED <<cmd_line, pipeline, j, pipe_fd>>
    BY DEF Sync, BatchFork, BatchWait, Begin, line
<1>2. PipeBound'
    BY <1>1 DEF PipeBound, PipesBounded, pipeline
<1>3. CASE BatchFork
  <2>1. PICK pid : Fork(pid, Quick("exit"))
      BY <1>3 DEF BatchFork
  <2>2. sh = "sync" /\ UNCHANGED <<line, i, child_pid>> /\ sh' = "syncwait"
      BY <1>3 DEF BatchFork
  <2>3. DOMAIN procs' \subseteq Pid /\ failures' \in 0..MaxFailures
      BY <2>1, <2>2, ForkBound
  <2>4. LineBound' /\ PidBound'
      BY <1>1, <2>2, <2>3 DEF LineBound, PidBound, line, pipeline
  <2>5. QED
      BY <1>2, <2>4
<1>4. CASE BatchWait
  <2>1. Begin(cmd_line) /\ UNCHANGED failures /\ sh = "syncwait" /\ sh' \in {"read", "job"}
      BY <1>4 DEF BatchWait, Begin
  <2>2. LineBound' /\ child_pid' \in Seq(Pid \cup {-1}) /\ Len(child_pid') <= Len(mysh_argv')
      BY <1>1, <2>1, BeginBound DEF LineBound
  <2>3. DOMAIN procs' \subseteq DOMAIN procs
      BY <1>4 DEF BatchWait, Reap, Restrict
  <2>4. PidBound'
      BY <1>1, <2>1, <2>2, <2>3 DEF PidBound, pipeline
  <2>5. QED
      BY <1>2, <2>2, <2>4
<1>5. QED
    BY <1>3, <1>4 DEF Sync

LEMMA StartJobBound ==
  ASSUME IInv, BoundInv, StartJob
  PROVE  BoundInv'
<1> USE DEF BoundInv
<1>1. /\ sh = "job" /\ sh' = "stage" /\ j' = 1 /\ pipe_pid' = <<>> /\ pipe_fd' = <<>>
      /\ pipe_argv' = <<Split(mysh_argv[i], ">")[1]>>
      /\ UNCHANGED <<cmd_line, mode_code, i, child_pid, procs, failures>>
    BY DEF StartJob
<1>2. i \in 1..Len(mysh_argv)
    BY <1>1 DEF IInv, TextInv, Working
<1>3. mysh_argv' \in Seq(Text) /\ Len(mysh_argv') = Len(mysh_argv)
  <2>1. mysh_argv' = [mysh_argv EXCEPT ![i] = Unredirected(mysh_argv[i])]
      BY DEF StartJob
  <2>2. mysh_argv[i] \in Text
      BY <1>2 DEF LineBound
  <2>3. Unredirected(mysh_argv[i]) \in Text
      BY <2>2, CutIsText DEF Unredirected
  <2>4. QED
      BY <1>2, <2>1, <2>3, JobBound
<1>4. LineBound' /\ PidBound'
  <2>1. pipe_pid' \in Seq(Pid \cup {-1})
      BY <1>1
  <2>2. QED
      BY <1>1, <1>3, <2>1 DEF LineBound, PidBound
<1>5. PipeBound'
  <2>1. pipe_argv' \in Seq(Text) /\ Len(pipe_argv') = 1
    <3>1. mysh_argv[i] \in Text
        BY <1>2 DEF LineBound
    <3>2. Split(mysh_argv[i], ">") \in Seq(Text) /\ Split(mysh_argv[i], ">") # <<>>
        BY <3>1, SplitIsTexts DEF StartJob, NoTarget
    <3>3. Split(mysh_argv[i], ">")[1] \in Text
        BY <3>2
    <3>4. QED
        BY <1>1, <3>3
  <2>2. PipesBounded(pipe_fd')
      BY <1>1 DEF PipesBounded
  <2>3. j' \in 1..(Len(pipe_argv') + 1)
      BY <1>1, <2>1
  <2>4. QED
      BY <2>1, <2>2, <2>3 DEF PipeBound
<1>6. QED
    BY <1>4, <1>5

LEMMA StartPipelineBound ==
  ASSUME IInv, BoundInv, StartPipeline
  PROVE  BoundInv'
<1> USE DEF BoundInv
<1> DEFINE job == Unredirected(mysh_argv[i])
           stages == Split(job, "|")
<1>1. /\ sh = "job" /\ j' = 1 /\ pipe_argv' = stages /\ pipe_pid' = <<>>
      /\ mysh_argv' = [mysh_argv EXCEPT ![i] = Cut(job, "|")]
      /\ pipe_fd' = [k \in 1..(Len(stages) - 1) |-> [n |-> 0, rd |-> {SHELL}, wr |-> {SHELL}]]
      /\ i' \in {1, i, i + 1} /\ sh' \in {"job", "wait", "stage", "exited"}
      /\ UNCHANGED <<cmd_line, mode_code>>
    BY DEF StartPipeline, AfterJob
<1>2. PICK pid : Fork(pid, Quick("exit")) /\ child_pid' = Set(child_pid, i, pid)
    BY DEF StartPipeline
<1>3. i \in 1..Len(mysh_argv)
    BY <1>1 DEF IInv, TextInv, Working
<1>4. job \in Text
  <2>1. mysh_argv[i] \in Text
      BY <1>3 DEF LineBound
  <2>2. QED
      BY <2>1, CutIsText DEF Unredirected
<1> HIDE DEF job
<1>5. Cut(job, "|") \in Text
    BY <1>4, CutIsText
<1>6. stages \in Seq(Text)
    BY <1>4, SplitIsTexts
<1> HIDE DEF stages
<1>7. mysh_argv' \in Seq(Text) /\ Len(mysh_argv') = Len(mysh_argv)
    BY <1>1, <1>3, <1>5, JobBound
<1>8. pid \in Pid \cup {-1} /\ DOMAIN procs' \subseteq Pid /\ failures' \in 0..MaxFailures
    BY <1>1, <1>2, ForkBound
<1>9. child_pid' \in Seq(Pid \cup {-1}) /\ Len(child_pid') <= Len(mysh_argv)
  <2>1. Entered = i - 1 /\ sh \in Working
      BY <1>1 DEF Entered, Working
  <2>2. QED
      BY <1>2, <1>8, <2>1, EntryBound
<1>10. LineBound'
  <2>1. i' \in 1..(Len(mysh_argv) + 1)
      BY <1>1, <1>3
  <2>2. QED
      BY <1>1, <1>7, <2>1 DEF LineBound
<1>11. PidBound'
  <2>1. pipe_pid' \in Seq(Pid \cup {-1})
      BY <1>1
  <2>2. QED
      BY <1>7, <1>8, <1>9, <2>1 DEF PidBound
<1>12. PipeBound'
  <2>1. PipesBounded(pipe_fd')
      BY <1>1, ShellAssumption DEF PipesBounded
  <2>2. Len(stages) \in Nat
      BY <1>6
  <2>3. j' \in 1..(Len(pipe_argv') + 1)
      BY <1>1, <2>2
  <2>4. QED
      BY <1>1, <1>6, <2>1, <2>3 DEF PipeBound
<1>13. QED
    BY <1>10, <1>11, <1>12

LEMMA StageBound ==
  ASSUME IInv, BoundInv, Stage
  PROVE  BoundInv'
<1> USE DEF BoundInv
<1>1. /\ sh = "stage" /\ UNCHANGED <<cmd_line, mode_code, i, piped, pipe_argv, j>>
      /\ sh' \in {"exited", "stagewait"}
    BY DEF Stage
<1>2. PICK pid :
        /\ Fork(pid, Child)
        /\ pipe_fd' = CloseInShell(IF pid = -1 THEN pipe_fd ELSE Inherit(pid, Builtin), j - 1)
        /\ IF piped THEN pipe_pid' = Append(pipe_pid, pid) /\ UNCHANGED child_pid
           ELSE child_pid' = Set(child_pid, i, pid) /\ UNCHANGED pipe_pid
    BY DEF Stage
<1>3. i \in 1..Len(mysh_argv)
    BY <1>1 DEF IInv, TextInv, Working
<1>4. mysh_argv' \in Seq(Text) /\ Len(mysh_argv') = Len(mysh_argv)
    BY StageCuts
<1>5. pid \in Pid \cup {-1} /\ DOMAIN procs' \subseteq Pid /\ failures' \in 0..MaxFailures
    BY <1>1, <1>2, ForkBound
<1>6. LineBound'
    BY <1>1, <1>4 DEF LineBound
<1>7. PidBound'
  <2>1. CASE piped
    <3>1. pipe_pid' = Append(pipe_pid, pid) /\ child_pid' = child_pid
        BY <1>2, <2>1
    <3>2. pipe_pid' \in Seq(Pid \cup {-1})
        BY <1>5, <3>1 DEF PidBound
    <3>3. QED
        BY <1>4, <1>5, <3>1, <3>2 DEF PidBound
  <2>2. CASE ~piped
    <3>1. child_pid' = Set(child_pid, i, pid) /\ pipe_pid' = pipe_pid
        BY <1>2, <2>2
    <3>2. Entered = i - 1 /\ sh \in Working
        BY <1>1, <2>2 DEF Entered, Working
    <3>3. child_pid' \in Seq(Pid \cup {-1}) /\ Len(child_pid') <= Len(mysh_argv)
        BY <1>5, <3>1, <3>2, EntryBound
    <3>4. QED
        BY <1>4, <1>5, <3>1, <3>3 DEF PidBound
  <2>3. QED
      BY <2>1, <2>2
<1>8. PipeBound'
  <2>1. PICK pipes : pipes = IF pid = -1 THEN pipe_fd ELSE Inherit(pid, Builtin)
      OBVIOUS
  <2>2. PipesBounded(pipes)
      BY <2>1, PipesInherited DEF PipeBound
  <2>3. PipesBounded(pipe_fd')
      BY <1>2, <2>1, <2>2, PipesKept
  <2>4. QED
      BY <1>1, <2>3 DEF PipeBound
<1>9. QED
    BY <1>6, <1>7, <1>8

LEMMA WaitBound ==
  ASSUME IInv, BoundInv, StageWait \/ JobWait \/ NoChildToWaitFor
  PROVE  BoundInv'
<1> USE DEF BoundInv
<1>1. UNCHANGED <<cmd_line, mode_code, mysh_argv, child_pid, pipe_argv, pipe_pid, pipe_fd, failures>>
    BY DEF StageWait, JobWait, NoChildToWaitFor, line, pipeline
<1>2. i \in 1..Len(mysh_argv) /\ Len(mysh_argv) \in Nat
    BY DEF IInv, TextInv, StageWait, JobWait, NoChildToWaitFor, Working
<1>3. i' \in {1, i} \/ (i' = i + 1)
    BY DEF StageWait, AfterJob, JobWait, NoChildToWaitFor
<1>4. LineBound'
  <2>1. i' \in 1..(Len(mysh_argv) + 1)
      BY <1>2, <1>3
  <2>2. sh' \notin {"sync", "syncwait"}
      BY DEF StageWait, AfterJob, JobWait, NoChildToWaitFor
  <2>3. QED
      BY <1>1, <2>1, <2>2 DEF LineBound
<1>5. PidBound'
  <2>1. DOMAIN procs' \subseteq DOMAIN procs
      BY DEF StageWait, AwaitStage, JobWait, NoChildToWaitFor, Reap, Restrict
  <2>2. QED
      BY <1>1, <2>1 DEF PidBound
<1>6. PipeBound'
  <2>1. j' = j \/ (j < Len(pipe_argv) /\ j' = j + 1)
      BY DEF StageWait, MoreStages, JobWait, NoChildToWaitFor
  <2>2. j \in 1..(Len(pipe_argv) + 1) /\ Len(pipe_argv) \in Nat
      BY DEF PipeBound
  <2>3. j' \in 1..(Len(pipe_argv) + 1)
      BY <2>1, <2>2
  <2>4. QED
      BY <1>1, <2>3 DEF PipeBound
<1>7. QED
    BY <1>4, <1>5, <1>6

\* A child takes from a pipe that is not empty, and adds to one that is not full.
LEMMA ChildBound ==
  ASSUME BoundInv, NEW p, ChildStep(p)
  PROVE  BoundInv'
<1> USE DEF BoundInv
<1>1. UNCHANGED <<sh, line, i, child_pid, pipeline, j, failures>>
    BY DEF ChildStep
<1>2. LineBound'
    BY <1>1 DEF LineBound, line
<1>3. PidBound'
  <2>1. DOMAIN procs' = DOMAIN procs
      BY DEF ChildStep, ChildReads, ChildReadsEOF, ChildWrites, ChildExits, Become
  <2>2. QED
      BY <1>1, <2>1 DEF PidBound, line, pipeline
<1>4. PipesBounded(pipe_fd')
  <2>1. PipeCapacity \in Nat
      BY ShellAssumption
  <2>2. ASSUME NEW k, NEW m, pipe_fd' = [pipe_fd EXCEPT ![k].n = m],
               k \in DOMAIN pipe_fd => m \in 0..PipeCapacity
        PROVE  PipesBounded(pipe_fd')
    <3>1. DOMAIN pipe_fd' = DOMAIN pipe_fd
        BY <2>2
    <3>2. ASSUME NEW q \in DOMAIN pipe_fd
          PROVE  DOMAIN pipe_fd'[q] = DOMAIN pipe_fd[q] /\ pipe_fd'[q].n \in 0..PipeCapacity
      <4>1. DOMAIN pipe_fd[q] = {"n", "rd", "wr"} /\ pipe_fd[q].n \in 0..PipeCapacity
          BY DEF PipeBound, PipesBounded
      <4>2. CASE q = k
          BY <2>2, <4>1, <4>2
      <4>3. CASE q # k
          BY <2>2, <4>1, <4>3
      <4>4. QED
          BY <4>2, <4>3
    <3>3. QED
        BY <3>1, <3>2 DEF PipeBound, PipesBounded
  <2>3. ASSUME NEW k \in DOMAIN pipe_fd PROVE pipe_fd[k].n \in 0..PipeCapacity
      BY DEF PipeBound, PipesBounded
  <2>4. CASE ChildReads(p)
    <3>1. PICK k : /\ pipe_fd[k].n > 0
                   /\ pipe_fd' = [pipe_fd EXCEPT ![k].n = pipe_fd[k].n - 1]
        BY <2>4 DEF ChildReads
    <3>2. k \in DOMAIN pipe_fd => pipe_fd[k].n - 1 \in 0..PipeCapacity
        BY <2>1, <2>3, <3>1
    <3>3. QED
        BY <2>2, <3>1, <3>2
  <2>5. CASE ChildReadsEOF(p)
      BY <2>5 DEF ChildReadsEOF, PipeBound
  <2>6. CASE ChildWrites(p)
    <3>1. CASE pipe_fd' = pipe_fd
        BY <3>1 DEF PipeBound
    <3>2. CASE pipe_fd' # pipe_fd
      <4>1. PICK k : /\ pipe_fd[k].n < PipeCapacity
                     /\ pipe_fd' = [pipe_fd EXCEPT ![k].n = pipe_fd[k].n + 1]
          BY <2>6, <3>2 DEF ChildWrites
      <4>2. k \in DOMAIN pipe_fd => pipe_fd[k].n + 1 \in 0..PipeCapacity
          BY <2>1, <2>3, <4>1
      <4>3. QED
          BY <2>2, <4>1, <4>2
    <3>3. QED
        BY <3>1, <3>2
  <2>7. CASE ChildExits(p)
    <3>1. pipe_fd' = [k \in DOMAIN pipe_fd |->
                        [pipe_fd[k] EXCEPT !.rd = pipe_fd[k].rd \ {p}, !.wr = pipe_fd[k].wr \ {p}]]
        BY <2>7 DEF ChildExits
    <3>2. DOMAIN pipe_fd' = DOMAIN pipe_fd
        BY <3>1
    <3>3. ASSUME NEW q \in DOMAIN pipe_fd
          PROVE  DOMAIN pipe_fd'[q] = DOMAIN pipe_fd[q] /\ pipe_fd'[q].n = pipe_fd[q].n
      <4>1. {"n", "rd", "wr"} = DOMAIN pipe_fd[q]
          BY DEF PipeBound, PipesBounded
      <4>2. PICK rd, wr : pipe_fd'[q] = [pipe_fd[q] EXCEPT !.rd = rd, !.wr = wr]
          BY <3>1
      <4>3. QED
          BY <4>1, <4>2
    <3>4. QED
        BY <3>2, <3>3 DEF PipeBound, PipesBounded
  <2>8. QED
      BY <2>4, <2>5, <2>6, <2>7 DEF ChildStep
<1>5. PipeBound'
    BY <1>1, <1>4 DEF PipeBound, pipeline
<1>6. QED
    BY <1>2, <1>3, <1>5

-----------------------------------------------------------------------------
(* The theorems.                                                           *)

LEMMA InitInv ==
  ASSUME Init
  PROVE  IInv
<1> USE DEF Init
<1>1. /\ sh = "read" /\ procs = <<>> /\ ran = <<>> /\ asked = <<>> /\ mysh_argv = <<>>
      /\ child_pid = <<>> /\ pipe_pid = <<>> /\ failures = 0
    OBVIOUS
<1>2. <<>> \in Seq(Text) /\ <<>> \in Seq(Nat \X Nat)
    OBVIOUS
<1>3. TextInv
  <2>1. given.lines \in Seq(Text)
      BY ShellAssumption
  <2>2. unread \in Seq(Text) /\ <<>> \in Text
      BY DEF Text
  <2>3. offset \in 0..Len(given.lines)
      BY <2>1
  <2>4. cmd_line \in Text
    <3>1. cmd_line \in {<<>>} \/ cmd_line \in Garbage
        BY Zenon
    <3>2. Garbage \subseteq Text
        BY ShellAssumption
    <3>3. QED
        BY <2>2, <3>1, <3>2
  <2>5. QED
      BY <1>1, <1>2, <2>2, <2>3, <2>4 DEF TextInv, Working
<1>4. ProcInv
  <2>1. DOMAIN procs = {} /\ procs \in [DOMAIN procs -> {}]
      BY <1>1
  <2>2. IsFiniteSet({})
      BY FS_EmptySet
  <2>3. QED
      BY <1>1, <2>1, <2>2 DEF ProcInv
<1>5. StageInv
  <2>1. child_pid \in Seq(Int) /\ pipe_pid \in Seq(Int) /\ Len(child_pid) = 0 /\ piped = FALSE
      OBVIOUS
  <2>2. 1..Len(child_pid) = {}
      BY <2>1
  <2>3. QED
      BY <1>1, <2>1, <2>2 DEF StageInv
<1>6. EntriesInv /\ ChildrenInv
    BY <1>1 DEF EntriesInv, ChildrenInv, Working
<1>7. AskedInv
    BY <1>1, <1>2 DEF AskedInv, Working
<1>8. OrderInv
  <2>1. Len(ran) = 0 /\ DOMAIN ran = {} /\ DOMAIN asked = {} /\ Len(asked) = 0
      BY <1>1
  <2>2. Range(ran) = {} /\ Planned = {}
      BY <2>1 DEF Range, Planned
  <2>3. PICK u : u = <<1, 1>>
      OBVIOUS
  <2>4. u \in Nat \X Nat
      BY <2>3
  <2>5. RanTo(u)
      BY <2>1, <2>2 DEF RanTo
  <2>6. Upto = <<Len(asked) + 1, 1>>
      BY <1>1 DEF Upto
  <2>7. Upto = u
      BY <2>1, <2>3, <2>6
  <2>8. QED
      BY <1>1, <1>2, <2>4, <2>5, <2>7 DEF OrderInv
<1>9. QED
    BY <1>3, <1>4, <1>5, <1>6, <1>7, <1>8 DEF IInv

LEMMA StutterKeeps ==
  ASSUME IInv, UNCHANGED vars
  PROVE  IInv'
<1> USE DEF vars, stream, line, pipeline
<1>1. TextInv'
    BY DEF IInv, TextInv
<1>2. ProcInv' /\ StageInv'
    BY DEF IInv, ProcInv, StageInv
<1>3. EntriesInv' /\ ChildrenInv'
    BY DEF IInv, EntriesInv, Entered, ChildrenInv, OfJob, OfStage, First
<1>4. AskedInv'
    BY DEF IInv, AskedInv, Untouched
<1>5. OrderInv'
    BY OrderStays DEF IInv, Ended, Upto
<1>6. QED
    BY <1>1, <1>2, <1>3, <1>4, <1>5 DEF IInv

LEMMA NextInv ==
  ASSUME IInv, [Next]_vars
  PROVE  IInv'
<1>1. CASE ReadLine
    BY <1>1, ReadKeeps
<1>2. CASE Sync
    BY <1>2, SyncKeeps
<1>3. CASE SingleJob
  <2>1. CASE StartJob
      BY <2>1, StartJobKeeps
  <2>2. CASE StartPipeline
      BY <2>2, StartPipelineKeeps
  <2>3. CASE BlankTarget
      BY <2>3, EndKeeps DEF BlankTarget
  <2>4. CASE StageWait
      BY <2>4, StageWaitKeeps
  <2>5. QED
      BY <1>3, <2>1, <2>2, <2>3, <2>4 DEF SingleJob
<1>4. CASE AtomicCommand
  <2>1. CASE Stage
      BY <2>1, StageKeeps
  <2>2. CASE BlankCommand
      BY <2>2, EndKeeps DEF BlankCommand
  <2>3. CASE Quit
      BY <2>3, EndKeeps DEF Quit
  <2>4. QED
      BY <1>4, <2>1, <2>2, <2>3 DEF AtomicCommand
<1>5. CASE WaitForJobs
    BY <1>5, JobWaitKeeps, NoChildToWaitForKeeps DEF WaitForJobs
<1>6. CASE \E p \in DOMAIN procs : ChildStep(p)
    BY <1>6, ChildStepKeeps
<1>7. CASE UNCHANGED vars
    BY <1>7, StutterKeeps
<1>8. QED
    BY <1>1, <1>2, <1>3, <1>4, <1>5, <1>6, <1>7 DEF Next, ShellStep

LEMMA Invariance == Spec => []IInv
<1>1. Init => IInv
    BY InitInv
<1>2. IInv /\ [Next]_vars => IInv'
    BY NextInv
<1>3. QED
    BY <1>1, <1>2, PTL DEF Spec

LEMMA NextBound ==
  ASSUME IInv, BoundInv, [Next]_vars
  PROVE  BoundInv'
<1>1. CASE ReadLine
    BY <1>1, ReadBound
<1>2. CASE Sync
    BY <1>2, SyncBound
<1>3. CASE StartJob
    BY <1>3, StartJobBound
<1>4. CASE StartPipeline
    BY <1>4, StartPipelineBound
<1>5. CASE Stage
    BY <1>5, StageBound
<1>6. CASE StageWait \/ JobWait \/ NoChildToWaitFor
    BY <1>6, WaitBound
<1>7. CASE BlankTarget \/ BlankCommand \/ Quit \/ UNCHANGED vars
  <2>1. /\ UNCHANGED <<line, i, child_pid, pipeline, j, pipe_fd, procs, failures>>
        /\ sh' \in {"exited", "segv"} \/ sh' = sh
      BY <1>7 DEF BlankTarget, BlankCommand, Quit, vars
  <2>2. LineBound' /\ PidBound'
      BY <2>1 DEF BoundInv, LineBound, PidBound, line, pipeline
  <2>3. PipeBound'
      BY <2>1 DEF BoundInv, PipeBound, PipesBounded, pipeline
  <2>4. QED
      BY <2>2, <2>3 DEF BoundInv
<1>8. CASE \E p \in DOMAIN procs : ChildStep(p)
    BY <1>8, ChildBound
<1>9. QED
    BY <1>1, <1>2, <1>3, <1>4, <1>5, <1>6, <1>7, <1>8
    DEF Next, ShellStep, SingleJob, AtomicCommand, WaitForJobs

LEMMA InitBound ==
  ASSUME Init
  PROVE  BoundInv
<1> USE DEF Init
<1>1. MAX_LENGTH \in Nat /\ MaxFailures \in Nat
    BY ShellAssumption
<1>2. <<>> \in Seq(Text) /\ <<>> \in Text /\ <<>> \in Seq(Pid \cup {-1})
    BY DEF Text
<1>3. LineBound
  <2>1. cmd_line \in Text
      BY <1>2, ShellAssumption
  <2>2. QED
      BY <1>1, <1>2, <2>1 DEF LineBound
<1>4. PidBound
    BY <1>1, <1>2 DEF PidBound
<1>5. PipeBound
  <2>1. pipe_argv \in Seq(Text) /\ Len(pipe_argv) = 0 /\ j = 1
      BY <1>2
  <2>2. PipesBounded(pipe_fd)
      BY DEF PipesBounded
  <2>3. j \in 1..(Len(pipe_argv) + 1)
      BY <2>1
  <2>4. QED
      BY <2>1, <2>2, <2>3 DEF PipeBound
<1>6. QED
    BY <1>3, <1>4, <1>5 DEF BoundInv

\* The indexes of the shell stay within the line it executes, and the pids of
\* its children within one for each job and one for a stage: the table of jobs
\* and their children never outgrows the longest line.
THEOREM TypeOKHolds == Spec => []TypeOK
<1>1. Init => IInv /\ BoundInv
    BY InitInv, InitBound
<1>2. IInv /\ BoundInv /\ [Next]_vars => (IInv /\ BoundInv)'
    BY NextInv, NextBound
<1>3. IInv /\ BoundInv => TypeOK
  <2>1. SUFFICES ASSUME IInv, BoundInv PROVE TypeOK
      OBVIOUS
  <2>2. /\ given \in Inputs /\ offset \in 0..Len(given.lines)
        /\ sh \in {"read", "sync", "syncwait", "job", "stage", "stagewait", "wait", "exited", "segv"}
      BY <2>1 DEF IInv, TextInv, Working
  <2>3. mode_code \in 0..3 /\ i \in 1..(Len(mysh_argv) + 1)
      BY <2>1 DEF BoundInv, LineBound
  <2>4. /\ child_pid \in Seq(Pid \cup {-1}) /\ Len(child_pid) <= Len(mysh_argv)
        /\ pipe_pid \in Seq(Pid \cup {-1}) /\ DOMAIN procs \subseteq Pid
        /\ failures \in 0..MaxFailures
      BY <2>1 DEF BoundInv, PidBound
  <2>5. /\ j \in 1..(Len(pipe_argv) + 1)
        /\ \A k \in DOMAIN pipe_fd : pipe_fd[k].n \in 0..PipeCapacity
      BY <2>1 DEF BoundInv, PipeBound, PipesBounded
  <2>6. QED
      BY <2>2, <2>3, <2>4, <2>5 DEF TypeOK
<1>4. QED
    BY <1>1, <1>2, <1>3, PTL DEF Spec

\* When the shell reads a line, every child of the lines before was waited for:
\* the stages by executeSingleJob, the jobs by executeCurrentLine, the child
\* that exits at once by the batch loop.
THEOREM NoChildLeftHolds == Spec => []NoChildLeft
<1>1. IInv => NoChildLeft
  <2>1. SUFFICES ASSUME IInv, sh = "read" PROVE procs = <<>>
      BY DEF NoChildLeft
  <2>2. DOMAIN procs = {}
      BY <2>1 DEF IInv, ChildrenInv
  <2>3. PICK S : procs \in [{} -> S]
      BY <2>1, <2>2 DEF IInv, ProcInv
  <2>4. QED
      BY <2>3
<1>2. QED
    BY <1>1, Invariance, PTL

\* In the sequential mode no program runs while a child of another job is left,
\* other than one that exits at once.
THEOREM JobsDoNotOverlapHolds == Spec => []JobsDoNotOverlap
<1>1. IInv => JobsDoNotOverlap
  <2>1. SUFFICES ASSUME IInv, mode_code <= 1, ~Ended, NEW p \in DOMAIN procs,
                        NEW q \in DOMAIN procs,
                        procs[p].kind = "program", procs[q].kind # "exit"
                 PROVE  procs[p].job = procs[q].job
      BY DEF JobsDoNotOverlap
  <2>2. CASE sh \in Working
      BY <2>1, <2>2 DEF IInv, ChildrenInv
  <2>3. CASE sh \notin Working
      BY <2>1, <2>3 DEF IInv, TextInv, ChildrenInv, Ended
  <2>4. QED
      BY <2>2, <2>3
<1>2. QED
    BY <1>1, Invariance, PTL

\* Unless a system call failed, the stages of a line are begun each once and in
\* its order; none is left out, neither between two that were begun nor, when the
\* next line is read, behind them.
THEOREM EachOnceInOrderHolds == Spec => []EachOnceInOrder
<1>1. IInv => EachOnceInOrder
  <2>1. SUFFICES ASSUME IInv, failures = 0
                 PROVE  /\ Range(ran) \subseteq Planned
                        /\ \A k \in 1..(Len(ran) - 1) : Before(ran[k], ran[k + 1])
                        /\ \A s \in Planned \ Range(ran) :
                             sh # "read" /\ \A k \in DOMAIN ran : Before(ran[k], s)
      BY DEF EachOnceInOrder
  <2>2. PICK u \in Nat \X Nat : RanTo(u) /\ (~Ended => u = Upto)
      BY <2>1 DEF IInv, OrderInv
  <2>3. Range(ran) = {s \in Planned : Before(s, u)}
      BY <2>2 DEF RanTo
  <2>4. asked \in Seq(Text) /\ ran \in Seq(Nat \X Nat)
      BY <2>1 DEF IInv, AskedInv, OrderInv
  <2>5. ASSUME NEW s \in Planned, s \notin Range(ran)
        PROVE  sh # "read" /\ \A k \in DOMAIN ran : Before(ran[k], s)
    <3>1. ~Before(s, u)
        BY <2>3, <2>5
    <3>2. sh # "read"
      <4>1. SUFFICES ASSUME sh = "read" PROVE FALSE
          OBVIOUS
      <4>2. u = <<Len(asked) + 1, 1>>
          BY <2>2, <4>1 DEF Ended, Upto
      <4>3. QED
          BY <2>4, <3>1, <4>2, LineDone
    <3>3. ASSUME NEW k \in DOMAIN ran PROVE Before(ran[k], s)
      <4>1. ran[k] \in Range(ran)
          BY DEF Range
      <4>2. Before(ran[k], u)
          BY <2>3, <4>1
      <4>3. ran[k] \in Nat \X Nat /\ s \in Nat \X Nat
          BY <2>4, PlannedPairs
      <4>4. QED
          BY <3>1, <4>2, <4>3 DEF Before
    <3>4. QED
        BY <3>2, <3>3
  <2>6. QED
      BY <2>2, <2>3, <2>5 DEF RanTo
<1>2. QED
    BY <1>1, Invariance, PTL
=============================================================================
