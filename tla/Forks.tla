------------------------------- MODULE Forks -------------------------------
(***************************************************************************)
(* The programs that fork once or twice: the exercises of c_fork and       *)
(* z_atividade/tarefa3/fork_pid.c.  A program is what its processes do,    *)
(* as sequences of instructions; what is modelled is who waits for whom    *)
(* and what reaches the output, in which order and how often.              *)
(*                                                                         *)
(* stdio keeps text in the memory of the process: up to the end of the     *)
(* line if the output is a terminal, until it is flushed if it is not.     *)
(* fork copies that memory and execve throws it away.                      *)
(***************************************************************************)
EXTENDS Naturals, Sequences, SequencesExt

CONSTANTS
  REPETITIONS,  \* repetitions of the experiment of fork_pid (60 in the code)
  MAX_FAILURES  \* bound: calls that fail in one run

ASSUME ForksAssumption == {REPETITIONS, MAX_FAILURES} \subseteq Nat /\ REPETITIONS > 0

\* Instructions: printf of a line and of text without its end; printf and
\* setbuf(stdout, NULL); and the calls.
line(x) == <<"line", x>>
text(x) == <<"text", x>>
show(x) == <<"show", x>>
fflush == <<"fflush">>
open == <<"open">>
fork == <<"fork">>
wait == <<"wait">>
execve == <<"execve">>
dup2 == <<"dup2">>
again == <<"again">>

----------------------------------------------------------------------------
(* The programs: from the start; then the caller, the child and the caller *)
(* without a child, of the first fork and of the second.                   *)

After(parent, child, failed) == [parent |-> parent, child |-> child, failed |-> failed]

fork_syntax ==
  [start |-> <<line("head"), fork>>,
   forks |-> <<After(<<line("parent")>>, <<line("child")>>, <<line("none")>>)>>]

fork_sequence ==
  [start |-> <<fork>>,
   forks |-> <<After(<<text("1"), fflush>>, <<text("2"), fflush>>, <<>>)>>]

fork_wait_sequence ==
  [start |-> <<fork>>,
   forks |-> <<After(<<wait, text("1"), fflush>>, <<text("2"), fflush>>, <<>>)>>]

\* Each process sets its copies of the variables: 5 and 6, or 7 and 1.
fork_variables ==
  [start |-> <<line("head"), fork>>,
   forks |-> <<After(<<line("2"), line("6"), line("5"), line("6")>>,
                     <<line("2"), line("1"), line("7"), line("1")>>, <<line("none")>>)>>]

\* The last line goes where the input comes from.
fork_execve ==
  [start |-> <<line("head"), fork>>,
   forks |-> <<After(<<line("parent"), wait, line("waited"), dup2, line("x")>>,
                     <<line("child"), execve>>, <<dup2, line("x")>>)>>]

\* Nothing is done with the descriptor of the file. (c06_pipe is this program.)
fork_dup ==
  [start |-> <<line("head"), open, fork>>,
   forks |-> <<After(<<line("parent"), wait, line("waited"), line("x")>>,
                     <<line("child"), execve>>, <<line("x")>>)>>]

\* What a process prints before it sleeps, after it and at its end stands for
\* two lines. The second wait of a repetition has no child left to wait for.
fork_pid ==
  LET End == <<show("E")>>
      Woken == <<show("A")>> \o End
      Repeat == <<wait, wait, again>>
  IN  [start |-> <<fork>>, forks |-> <<After(Repeat, <<fork>>, Repeat), After(Woken, Woken, End)>>]

Program == [syntax |-> fork_syntax, sequence |-> fork_sequence,
            wait_sequence |-> fork_wait_sequence, variables |-> fork_variables,
            execve |-> fork_execve, dup |-> fork_dup, pid |-> fork_pid]

----------------------------------------------------------------------------
\* main, and the child and grandchild of each repetition.
Main == <<0, 0>>
Process == {Main} \cup ({1, 2} \X (1 .. REPETITIONS))

VARIABLES
  program,     \* the program that runs
  failures,    \* calls that failed
  terminal,    \* the output is one
  repetition,  \* of main
  todo,        \* what each process has left to do
  life,        \* none, running, ended (a zombie if main does not know) or waited
  stdout,      \* the text each process keeps
  redirected,  \* those whose descriptor 1 is no longer the output
  output       \* what was written, and by whom

forkVars == <<terminal, repetition, todo, life, stdout, redirected, output>>

Fails == failures < MAX_FAILURES /\ failures' = failures + 1
Succeeds == UNCHANGED failures

Running(p) == life[p] = "running"
At(p, call) == Running(p) /\ todo[p] # <<>> /\ Head(todo[p])[1] = call
Continue(p) == todo' = [todo EXCEPT ![p] = Tail(@)]

\* write() to descriptor 1; a terminal is both its ends.
Write(p, texts) ==
  output' = IF p \in redirected /\ ~terminal THEN output
            ELSE output \o [i \in DOMAIN texts |-> <<p, texts[i]>>]

Keep(p, texts) == stdout' = [stdout EXCEPT ![p] = texts]

printf(p) ==
  /\ \E kind \in {"line", "text", "show"} : At(p, kind)
  /\ LET kind == Head(todo[p])[1]
         kept == Append(stdout[p], Head(todo[p])[2])
     IN IF kind = "show" \/ (kind = "line" /\ terminal)
          THEN Write(p, kept) /\ Keep(p, <<>>)
          ELSE Keep(p, kept) /\ UNCHANGED output
  /\ Continue(p)
  /\ UNCHANGED <<failures, terminal, repetition, life, redirected>>

Flush(p) ==
  /\ At(p, "fflush")
  /\ Write(p, stdout[p]) /\ Keep(p, <<>>)
  /\ Continue(p)
  /\ UNCHANGED <<failures, terminal, repetition, life, redirected>>

\* A file that cannot be opened ends the program.
Open(p) ==
  /\ At(p, "open")
  /\ \/ Succeeds /\ Continue(p)
     \/ Fails /\ todo' = [todo EXCEPT ![p] = <<>>]
  /\ UNCHANGED <<terminal, repetition, life, stdout, redirected, output>>

\* The child starts with a copy of the text its parent has not written.
Fork(p) ==
  /\ At(p, "fork")
  /\ LET child == <<p[1] + 1, IF p = Main THEN repetition ELSE p[2]>>
         after == Program[program].forks[p[1] + 1]
     IN \/ /\ Succeeds
           /\ life' = [life EXCEPT ![child] = "running"]
           /\ stdout' = [stdout EXCEPT ![child] = stdout[p]]
           /\ todo' = [todo EXCEPT ![p] = after.parent, ![child] = after.child]
        \/ /\ Fails
           /\ todo' = [todo EXCEPT ![p] = after.failed]
           /\ UNCHANGED <<life, stdout>>
  /\ UNCHANGED <<terminal, repetition, redirected, output>>

\* Faulty variant: the parent does not wait for its child to end.
WaitAny_not(p) ==
  /\ At(p, "wait")
  /\ UNCHANGED life
  /\ Continue(p)
  /\ UNCHANGED <<failures, terminal, repetition, stdout, redirected, output>>

\* wait blocks while there is a child and none has ended; only main calls it.
WaitAny(p) ==
  /\ At(p, "wait")
  /\ LET children == {q \in Process : q[1] = 1 /\ life[q] \in {"running", "ended"}}
     IN \/ \E q \in children : life[q] = "ended" /\ life' = [life EXCEPT ![q] = "waited"]
        \/ children = {} /\ UNCHANGED life
  /\ Continue(p)
  /\ UNCHANGED <<failures, terminal, repetition, stdout, redirected, output>>

\* What the new program, ls, writes; if it cannot be run, the child ends.
Execve(p) ==
  /\ At(p, "execve")
  /\ \/ Succeeds /\ todo' = [todo EXCEPT ![p] = <<show("ls")>>] /\ Keep(p, <<>>)
     \/ Fails /\ Continue(p) /\ UNCHANGED stdout
  /\ UNCHANGED <<terminal, repetition, life, redirected, output>>

Dup2(p) ==
  /\ At(p, "dup2")
  /\ redirected' = redirected \cup {p}
  /\ Continue(p)
  /\ UNCHANGED <<failures, terminal, repetition, life, stdout, output>>

Again(p) ==
  /\ At(p, "again")
  /\ IF repetition < REPETITIONS
       THEN /\ repetition' = repetition + 1
            /\ todo' = [todo EXCEPT ![p] = Program[program].start]
       ELSE Continue(p) /\ UNCHANGED repetition
  /\ UNCHANGED <<failures, terminal, life, stdout, redirected, output>>

\* return from main and exit() write what is left.
ProcessExit(p) ==
  /\ Running(p) /\ todo[p] = <<>>
  /\ life' = [life EXCEPT ![p] = "ended"]
  /\ Write(p, stdout[p]) /\ Keep(p, <<>>)
  /\ UNCHANGED <<failures, terminal, repetition, todo, redirected>>

ForksInit ==
  /\ terminal \in IF program \in DOMAIN Program THEN BOOLEAN ELSE {TRUE}
  /\ repetition = 1
  /\ todo = [p \in Process |->
               IF p = Main /\ program \in DOMAIN Program THEN Program[program].start ELSE <<>>]
  /\ life = [p \in Process |->
               IF p = Main /\ program \in DOMAIN Program THEN "running" ELSE "none"]
  /\ stdout = [p \in Process |-> <<>>]
  /\ redirected = {}
  /\ output = <<>>

ForksNext ==
  \E p \in Process :
    \/ printf(p) \/ Flush(p) \/ Open(p) \/ Fork(p) \/ WaitAny(p)
    \/ Execve(p) \/ Dup2(p) \/ Again(p) \/ ProcessExit(p)

----------------------------------------------------------------------------
(***************************************************************************)
(* A wait puts what the child writes before what its parent writes after   *)
(* it: 2 before 1, the list of files before the last line, and the end of  *)
(* the child of a repetition before the next repetition. (Its grandchild,  *)
(* whom nobody waits for, may write later.)                                *)
(***************************************************************************)
Written(p, x) == Contains(output, <<p, x>>)
Before(x, y) ==
  \A j \in DOMAIN output : output[j][2] = y =>
    \A i \in DOMAIN output : output[i][2] = x => i < j
WaitOrdersOutput ==
  /\ program = "wait_sequence" => Before("2", "1") /\ (Written(Main, "1") => Written(<<1, 1>>, "2"))
  /\ program \in {"execve", "dup"} => Before("ls", "x") /\ Before("ls", "waited")
  /\ \A r \in 1 .. repetition - 1 : life[<<1, r>>] # "none" => Written(<<1, r>>, "E")

(***************************************************************************)
(* What a program printed before it forked is written once if the output   *)
(* is a terminal.  If not, it is written by each process that ends without *)
(* having become another program: as often as there are such processes,    *)
(* and not at all by one whose descriptor is not the output any more.      *)
(***************************************************************************)
Copies(x) == Cardinality({i \in DOMAIN output : output[i][2] = x})
BecameLs(p) == Written(p, "ls")
HeadIsCopied ==
  LET ended == {p \in Process : life[p] \in {"ended", "waited"}}
  IN  IF terminal THEN Copies("head") <= 1
      ELSE program \in {"syntax", "variables", "execve", "dup"} =>
             Copies("head") = Cardinality({p \in ended \ redirected : ~BecameLs(p)})

OutputIsOrderly == WaitOrdersOutput /\ HeadIsCopied

----------------------------------------------------------------------------
(* The inductive invariant behind OutputIsOrderly.                         *)

Child == <<1, 1>>

\* What a list of instructions calls and prints.
Calls(s, call) == \E i \in DOMAIN s : s[i][1] = call
Prints(s, x) == \E i \in DOMAIN s : s[i][1] \in {"line", "text", "show"} /\ s[i][2] = x

Text == {"head", "parent", "child", "none", "1", "2", "5", "6", "7", "waited", "x", "A", "E", "ls"}
Instruction == {fflush, open, fork, wait, execve, dup2, again} \cup ({"line", "text", "show"} \X Text)

ForksTypeOK ==
  /\ terminal \in BOOLEAN
  /\ repetition \in 1 .. REPETITIONS
  /\ todo \in [Process -> Seq(Instruction)]
  /\ life \in [Process -> {"none", "running", "ended", "waited"}]
  /\ stdout \in [Process -> Seq(Text)]
  /\ redirected \subseteq Process
  /\ output \in Seq(Process \X Text)

\* Who calls what: main waits and repeats, its child becomes another program,
\* and only main and the child of a repetition fork.
Headed == {"syntax", "variables", "execve", "dup"}
CallsSound ==
  /\ \A q \in Process :
       /\ \A call \in {"wait", "again", "dup2", "open"} : Calls(todo[q], call) => q = Main
       /\ Calls(todo[q], "execve") => q = Child /\ program \in {"execve", "dup"}
       /\ Calls(todo[q], "fork") => q = Main \/ (program = "pid" /\ q[1] = 1)
       /\ Calls(todo[q], "again") => program = "pid"
       /\ Calls(todo[q], "dup2") => program = "execve"
       /\ q \in redirected => q = Main /\ program = "execve"
       /\ program \in Headed =>
            /\ ~Calls(todo[q], "fflush")
            /\ Calls(todo[q], "show") \/ Prints(todo[q], "ls") => todo[q] = <<show("ls")>>
  /\ Calls(todo[Main], "fork") => life[<<1, repetition>>] = "none"
  /\ program # "pid" => repetition = 1

\* A process that does not run has nothing to do; one that never ran wrote nothing.
LivesSound ==
  \A q \in Process :
    /\ life[q] # "running" => todo[q] = <<>> /\ stdout[q] = <<>>
    /\ life[q] = "none" => \A i \in DOMAIN output : output[i][1] # q
    /\ life[q] # "none" => program \in DOMAIN Program /\ (q \in {Main, Child} \/ program = "pid")

(***************************************************************************)
(* What main prints after its wait, and what its child prints before it.   *)
(***************************************************************************)
Waiting == {"wait_sequence", "execve", "dup"}
LateTexts == IF program = "wait_sequence" THEN {"1"} ELSE {"waited", "x"}
EarlyText == IF program = "wait_sequence" THEN "2" ELSE "ls"

\* A text in the hands of a process: to be printed, kept or written.
Printed(q, x) == Contains(stdout[q], x) \/ Written(q, x)
HasText(q, x) == Prints(todo[q], x) \/ Printed(q, x)

\* Nothing late is printed before the wait.
Guarded(s) ==
  \A i \in DOMAIN s :
    s[i][1] \in {"line", "text", "show"} /\ s[i][2] \in LateTexts =>
      \E j \in 1 .. i - 1 : s[j][1] = "wait"

LateWaits ==
  program \in Waiting =>
    /\ \A q \in Process : HasText(q, EarlyText) => q = Child
    /\ \A q \in Process, x \in LateTexts : HasText(q, x) => q = Main
    /\ Calls(todo[Main], "fork") => \A x \in LateTexts : ~HasText(Main, x)
    /\ life[Child] = "running" =>
         Guarded(todo[Main]) /\ \A x \in LateTexts : ~Printed(Main, x)
    /\ \A x \in LateTexts : Before(EarlyText, x)

\* Its child does print, and main knows that there is one.
ChildPrints ==
  program = "wait_sequence" =>
    /\ life[Child] = "running" => HasText(Child, "2")
    /\ life[Child] \in {"ended", "waited"} => Written(Child, "2")
    /\ HasText(Main, "1") => life[Child] # "none"

(***************************************************************************)
(* The repetitions of fork_pid: the second wait finds no child.            *)
(***************************************************************************)
ChildGone(r) == life[<<1, r>>] \in {"none", "waited"}
RepetitionsSound ==
  program = "pid" =>
    /\ todo[Main] \in {<<fork>>, <<wait, wait, again>>, <<wait, again>>, <<again>>, <<>>}
    /\ \A r \in 1 .. REPETITIONS :
         /\ r < repetition => ChildGone(r)
         /\ r > repetition => life[<<1, r>>] = "none"
         /\ life[<<1, r>>] = "running" => HasText(<<1, r>>, "E") \/ Calls(todo[<<1, r>>], "fork")
         /\ life[<<1, r>>] \in {"ended", "waited"} => Written(<<1, r>>, "E")
    /\ todo[Main] \in {<<wait, again>>, <<again>>, <<>>} => ChildGone(repetition)

(***************************************************************************)
(* The first line: main prints it once, before it forks; a process has it  *)
(* once until it ends or becomes another program.                          *)
(***************************************************************************)
Heads(q) == {i \in DOMAIN stdout[q] : stdout[q][i] = "head"}
WrittenHeads(q) == {i \in DOMAIN output : output[i] = <<q, "head">>}
OnlyOne(S) == \A i, j \in S : i = j
HeadFirst ==
  /\ \A q \in Process :
       Prints(todo[q], "head") =>
         /\ q = Main /\ Head(todo[q]) = line("head") /\ ~Prints(Tail(todo[q]), "head")
         /\ \A r \in Process : ~Printed(r, "head")
  /\ terminal => \A q \in Process : /\ Heads(q) = {} /\ OnlyOne(WrittenHeads(q))
                                    /\ q # Main => WrittenHeads(q) = {}

HasEnded(q) == life[q] \in {"ended", "waited"} /\ q \notin redirected /\ ~BecameLs(q)
HeadKept ==
  ~terminal /\ program \in Headed =>
    \A q \in Process :
      /\ OnlyOne(Heads(q)) /\ OnlyOne(WrittenHeads(q))
      /\ WrittenHeads(q) # {} <=> HasEnded(q)
      /\ life[q] = "running" =>
           IF HasText(q, "ls")
             THEN q = Child /\ Heads(q) = {} /\ ~Prints(todo[q], "head") /\ ~Contains(stdout[q], "ls")
             ELSE Heads(q) # {} \/ Prints(todo[q], "head")

ForksInv ==
  /\ ForksTypeOK
  /\ CallsSound
  /\ LivesSound
  /\ LateWaits
  /\ ChildPrints
  /\ RepetitionsSound
  /\ HeadFirst
  /\ HeadKept
=============================================================================
