------------------------------- MODULE Forks -------------------------------
(***************************************************************************)
(* Three programs of linux_learning that fork: lec39/pipe.c, lec39/pipe1.c *)
(* ("ps -ef | grep systemd") and lec10 ("ls -l", main.c and process.c).    *)
(* None of them leaves when pipe or fork fails: without a child the parent *)
(* goes on alone.  One action is one system call.                          *)
(***************************************************************************)
EXTENDS Integers, Sequences

CONSTANTS Lines,    \* how many lines ps prints
          PipeSize  \* how many pieces the pipe holds

ForksAssumption == Lines \in Nat /\ PipeSize \in Nat

VARIABLES
  program, \* "pipe", "ps" or "ls"
  piped,   \* pipe() gave descriptors
  forked,  \* "no", "yes" or "failed"
  pc,      \* of the parent and the child
  fds,     \* the ends of the pipe each of them has open
  pipe,    \* how many pieces are in the pipe
  sent,    \* how many pieces the child has written
  got      \* what the parent, or grep in its place, has read: -1 for nothing sensible

vars == <<program, piped, forked, pc, fds, pipe, sent, got>>

Both == {"parent", "child"}

Init ==
  /\ program \in {"pipe", "ps", "ls"}
  /\ piped = FALSE /\ forked = "no"
  /\ pc = [p \in Both |-> IF p = "child" THEN "none" ELSE IF program = "ls" THEN "fork" ELSE "pipe"]
  /\ fds = [p \in Both |-> {}]
  /\ pipe = 0 /\ sent = 0 /\ got = 0

At(p, from, to) == pc[p] = from /\ pc' = [pc EXCEPT ![p] = to]

Pipe ==
  /\ At("parent", "pipe", "fork")
  /\ piped' \in BOOLEAN
  /\ fds' = IF piped' THEN [fds EXCEPT !["parent"] = {"read", "write"}] ELSE fds
  /\ UNCHANGED <<program, forked, pipe, sent, got>>

(* Where the two go from here; pipe1.c moves an end to stdin or stdout and *)
(* closes both descriptors, which keeps that end open.                     *)
ParentNext == IF program = "ls" THEN "exit" ELSE "close"
ChildNext == IF program = "ls" THEN "exec" ELSE "close"

Fork ==
  /\ \/ /\ forked' = "yes"
        /\ pc["parent"] = "fork"
        /\ pc' = [parent |-> ParentNext, child |-> ChildNext]
        /\ fds' = [fds EXCEPT !["child"] = fds["parent"]]
     \/ /\ forked' = "failed"
        /\ At("parent", "fork", ParentNext)
        /\ UNCHANGED fds
  /\ UNCHANGED <<program, piped, pipe, sent, got>>

ParentKeepsBoth == {"read", "write"}  \* fault: one close is missing
ParentKeeps == {"read"}
ChildKeeps == {"write"}

CloseParent ==
  /\ At("parent", "close", IF program = "ps" THEN "exec" ELSE "read")
  /\ fds' = [fds EXCEPT !["parent"] = @ \cap ParentKeeps]
  /\ UNCHANGED <<program, piped, forked, pipe, sent, got>>

CloseChild ==
  /\ At("child", "close", IF program = "ps" THEN "exec" ELSE "write")
  /\ fds' = [fds EXCEPT !["child"] = @ \cap ChildKeeps]
  /\ UNCHANGED <<program, piped, forked, pipe, sent, got>>

(* execlp and execvp come back only when they fail: then main returns, or  *)
(* (process.c) the child aborts.                                           *)
Exec(p) ==
  /\ \/ At(p, "exec", IF program = "ls" THEN "exit" ELSE IF p = "child" THEN "write" ELSE "read")
     \/ At(p, "exec", "failed")
  /\ UNCHANGED <<program, piped, forked, fds, pipe, sent, got>>

Goal == IF program = "ps" THEN Lines ELSE 1
NoReader == \A p \in Both : "read" \notin fds[p]
NoWriter == \A p \in Both : "write" \notin fds[p]

(* The message of pipe.c, or the lines of ps.  Without a pipe they do not  *)
(* get here, and without a reader the writer is killed.                    *)
Write ==
  /\ pc["child"] = "write"
  /\ IF sent = Goal \/ ~piped \/ NoReader
     THEN At("child", "write", "exit") /\ UNCHANGED <<pipe, sent>>
     ELSE pipe < PipeSize /\ pipe' = pipe + 1 /\ sent' = sent + 1 /\ UNCHANGED pc
  /\ UNCHANGED <<program, piped, forked, fds, got>>

Take ==
  /\ pipe > 0
  /\ pipe' = pipe - 1 /\ got' = got + 1
  /\ IF program = "pipe" THEN At("parent", "read", "exit") ELSE UNCHANGED pc

(* The end of the stream: grep ends, pipe.c prints what nobody wrote. *)
ReadNothing ==
  /\ At("parent", "read", "exit")
  /\ got' = IF program = "pipe" THEN -1 ELSE got
  /\ UNCHANGED pipe

(* read blocks while the pipe is empty and somebody could still write.     *)
(* Without a pipe grep reads from the terminal; the descriptors of pipe.c  *)
(* are not initialised then, and name nothing, or the terminal as well.    *)
Read ==
  /\ pc["parent"] = "read"
  /\ IF piped
     THEN Take \/ (pipe = 0 /\ NoWriter /\ ReadNothing)
     ELSE \/ program = "pipe" /\ ReadNothing
          \/ At("parent", "read", "terminal") /\ UNCHANGED <<pipe, got>>
  /\ UNCHANGED <<program, piped, forked, fds, sent>>

(* The end of a process closes its descriptors. *)
Exit(p) ==
  /\ At(p, "exit", "ended") \/ At(p, "failed", "ended")
  /\ fds' = [fds EXCEPT ![p] = {}]
  /\ UNCHANGED <<program, piped, forked, pipe, sent, got>>

ParentStep == Pipe \/ Fork \/ CloseParent \/ Exec("parent") \/ Read \/ Exit("parent")
ChildStep == CloseChild \/ Exec("child") \/ Write \/ Exit("child")

Next == ParentStep \/ ChildStep

(* Both processes are scheduled. *)
Fairness == WF_vars(ParentStep) /\ WF_vars(ChildStep)

Spec == Init /\ [][Next]_vars /\ Fairness

(* With a pipe and a child, pipe.c prints what the child wrote, in         *)
(* whatever order the two run: read cannot find the end of the stream      *)
(* before the child has written.  And grep stops only when ps has ended    *)
(* and every line it wrote was read.                                       *)
PipeWhole ==
  /\ got = -1 => ~piped \/ forked = "failed"
  /\ pc["parent"] = "exit" /\ program = "pipe" /\ piped /\ forked = "yes" => got = sent
  /\ pc["parent"] = "exit" /\ program = "ps" =>
       got = sent /\ pc["child"] \in {"none", "exit", "failed", "ended"}

(* Unless it reads from the terminal, each program ends, parent and child, *)
(* whatever fails: nobody keeps an end of the pipe open on which the other *)
(* waits.                                                                  *)
ForksEnd == <>(pc["parent"] \in {"terminal", "ended"} /\ pc["child"] \in {"none", "ended"})
=============================================================================
