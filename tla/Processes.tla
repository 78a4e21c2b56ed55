----------------------------- MODULE Processes -----------------------------
(***************************************************************************)
(* Programs that come in pairs: sender and receiver of a message queue,    *)
(* parent and child around a pipe, client and server of an echo.  The      *)
(* pairs share nothing: a behaviour is one of one of them.                 *)
(***************************************************************************)
EXTENDS Integers

CONSTANTS Types, Lengths, TextSize, QueueSize, MaxSends,  \* MessageQueue
          Lines, PipeSize,                                \* Forks
          Clients, Nobody, Ping, Backlog                  \* PingPong

VARIABLES which,
          exists, messages, accepted, received, lastError,
          program, piped, forked, at, fds, pipe, sent, got,
          server, backlog, served, size, client, conn, onWire, arrived, printed

Queue == INSTANCE MessageQueue
Forked == INSTANCE Forks WITH pc <- at
Echo == INSTANCE PingPong

ASSUME ProcessesAssumption ==
  Queue!MessageQueueAssumption /\ Forked!ForksAssumption /\ Echo!PingPongAssumption

queueVars == <<exists, messages, accepted, received, lastError>>
forkVars == <<program, piped, forked, at, fds, pipe, sent, got>>
echoVars == <<server, backlog, served, size, client, conn, onWire, arrived, printed>>
vars == <<which, queueVars, forkVars, echoVars>>

Init ==
  /\ which \in {"queue", "forks", "echo"}
  /\ Queue!Init /\ Forked!Init /\ Echo!Init

QueueStep == which = "queue" /\ Queue!Next /\ UNCHANGED <<which, forkVars, echoVars>>
ForkStep == which = "forks" /\ Forked!Next /\ UNCHANGED <<which, queueVars, echoVars>>
EchoStep == which = "echo" /\ Echo!Next /\ UNCHANGED <<which, queueVars, forkVars>>

Next == QueueStep \/ ForkStep \/ EchoStep

(* The fairness of each pair, for the behaviours that are its own. *)
Spec ==
  /\ Init /\ [][Next]_vars
  /\ which = "forks" => Forked!Fairness
  /\ which = "echo" => Echo!Fairness

(* The properties of the pairs, stated and explained in their modules. *)

(* lec36, lec39 and GameBook: what one program of a pair is given is what  *)
(* the other has sent, in order and to its end.                            *)
Delivered == Queue!MessagesInOrder /\ Forked!PipeWhole /\ Echo!EchoWhole

(* lec10, lec39 and GameBook: no program waits for ever for another.       *)
ProgramsEnd ==
  /\ which = "forks" => Forked!ForksEnd
  /\ which = "echo" => Echo!ClientsEnd
=============================================================================
