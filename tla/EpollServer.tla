---------------------------- MODULE EpollServer ----------------------------
(***************************************************************************)
(* The three echo-less servers of src/server: epoll.cc ("et", edge         *)
(* triggered clients), epoll_lt.cc ("lt", level triggered clients) and     *)
(* epoll_lt.c ("c", level triggered, read events only).  One thread sets a *)
(* listening socket up and then loops over epoll_wait, accept and recv.    *)
(* The handler of an event is split at its system calls, so that clients   *)
(* and the kernel act between any two of them.                             *)
(*                                                                         *)
(* External: sockets, descriptors and the ready list of epoll, modelled    *)
(* from the calls the servers make.                                        *)
(***************************************************************************)
EXTENDS Integers, FiniteSets, FiniteSetsExt, SequencesExt

CONSTANTS Variants,     \* the servers a behaviour may be of: a subset of {"et", "lt", "c"}
          Clients,      \* client connections, each made at most once
          FdLimits,     \* how many client descriptors the process may be allowed to have
          MaxEvents,    \* the length of the array epoll_wait fills (1024)
          RecvMax,      \* how much one recv takes, in pieces, for each server
          MaxSent,      \* bound: pieces sent by all clients together
          MaxStarts     \* bound: how often the server is started

ASSUME EpollAssumption ==
  /\ Variants \subseteq {"et", "lt", "c"}
  /\ "none" \notin Clients
  /\ FdLimits \subseteq Nat \ {0} /\ FdLimits # {} /\ IsFiniteSet(FdLimits)
  /\ MaxEvents \in Nat \ {0}
  /\ MaxSent \in Nat /\ MaxStarts \in Nat \ {0}
  /\ RecvMax \in [Variants -> Nat \ {0}]

VARIABLES
  variant,    \* which of the servers this is
  nfds,       \* how many client descriptors it may have open at a time
  pc,         \* where its only thread is
  step,       \* the setup call to be made next
  starts,     \* how often it has been started
  reuse,      \* SO_REUSEADDR and SO_REUSEPORT are set on the listening socket
  lingering,  \* connections of an earlier process still occupy the port
  backlog,    \* connections that wait to be accepted
  sock,       \* the connection a client descriptor refers to, or None
  blocking,   \* the client descriptors in blocking mode
  watched,    \* the descriptors registered with epoll
  ready,      \* the ready list of epoll
  batch,      \* the events of the last epoll_wait that are still to be handled
  new,        \* the descriptor accept has just returned
  conn,       \* each connection: "none", "pending", "open" or "closed"
  peer,       \* the client's end: "open", "fin" (shut down) or "rst" (reset)
  buf,        \* the pieces received by the kernel and not yet read
  sent        \* pieces sent so far

server == <<variant, nfds>>
process == <<pc, step, starts, reuse, lingering>>
descriptors == <<sock, blocking, watched, new>>
network == <<peer, sent>>
vars == <<server, process, backlog, descriptors, ready, batch, conn, network, buf>>

None == "none"
Listen == 0
Fds == 1..Max(FdLimits)
Piece == 0..MaxSent

(* The setup calls of each server, in order. *)
SetupET == <<"socket", "reuse", "nonblock", "bind", "listen", "epoll", "register">>
SetupLTLate == <<"socket", "nonblock", "bind", "reuse", "listen", "epoll", "register">>
                                  \* fault: the options are set after bind
SetupLT == <<"socket", "reuse", "nonblock", "bind", "listen", "epoll", "register">>
SetupC  == <<"socket", "nonblock", "bind", "listen", "reuse", "epoll", "register">>

(* The listening socket is level triggered in all of them. *)
ListenMaskEdge == {"in", "et"}     \* fault: the commented-out EPOLLET is taken in
ListenMask == {"in"}

(* How each server treats a client: the events it registers, whether it    *)
(* makes the descriptor non-blocking (epoll.cc and epoll_lt.cc pass        *)
(* O_NONBLOCK to F_SETFD, which leaves the mode alone), how much it reads  *)
(* at a time and whether it registers the client again after a read.       *)
ClientETOnce == [mask |-> {"in", "out", "et"}, nonblocking |-> FALSE,
                 recv |-> RecvMax["et"], rearm |-> FALSE]   \* fault: no EPOLL_CTL_MOD
ClientETLevel == [mask |-> {"in", "out"}, nonblocking |-> FALSE,
                  recv |-> RecvMax["et"], rearm |-> TRUE]   \* fault: EPOLLET left out
ClientET == [mask |-> {"in", "out", "et"}, nonblocking |-> FALSE,
             recv |-> RecvMax["et"], rearm |-> TRUE]
ClientLT == [mask |-> {"in", "out"}, nonblocking |-> FALSE,
             recv |-> RecvMax["lt"], rearm |-> TRUE]
ClientC  == [mask |-> {"in"}, nonblocking |-> TRUE,
             recv |-> RecvMax["c"], rearm |-> FALSE]

SetupCalls == CASE variant = "et" -> SetupET [] variant = "lt" -> SetupLT [] OTHER -> SetupC
client == CASE variant = "et" -> ClientET [] variant = "lt" -> ClientLT [] OTHER -> ClientC

TypeOK ==
  /\ variant \in Variants /\ nfds \in FdLimits
  /\ pc \in {"setup", "wait", "event", "setflags", "add", "mod", "exited"}
  /\ step \in 1..7
  /\ starts \in 1..MaxStarts
  /\ reuse \in BOOLEAN /\ lingering \in BOOLEAN
  /\ backlog \in Seq(Clients)
  /\ sock \in [Fds -> Clients \cup {None}]
  /\ blocking \subseteq Fds
  /\ watched \subseteq {Listen} \cup Fds
  /\ ready \in Seq({Listen} \cup Fds)
  /\ batch \in Seq([fd : {Listen} \cup Fds, events : SUBSET {"in", "out"}])
  /\ new \in Fds
  /\ conn \in [Clients -> {"none", "pending", "open", "closed"}]
  /\ peer \in [Clients -> {"open", "fin", "rst"}]
  /\ buf \in [Clients -> Piece]
  /\ sent \in Piece

Init ==
  /\ variant \in Variants /\ nfds \in FdLimits
  /\ pc = "setup" /\ step = 1 /\ starts = 1
  /\ reuse = FALSE /\ lingering = FALSE
  /\ backlog = <<>>
  /\ sock = [f \in Fds |-> None]
  /\ blocking = {} /\ watched = {}
  /\ ready = <<>> /\ batch = <<>>
  /\ new = 1
  /\ conn = [c \in Clients |-> "none"]
  /\ peer = [c \in Clients |-> "open"]
  /\ buf = [c \in Clients |-> 0]
  /\ sent = 0

-----------------------------------------------------------------------------
(* The kernel. *)

OpenFds == {f \in Fds : sock[f] # None}
OutOfFds == Cardinality(OpenFds) = nfds

Readable(c) == buf[c] > 0 \/ peer[c] # "open"

(* What holds at a descriptor of what it is registered for.  The servers   *)
(* never send, so a client is always writable.                             *)
Events(f) ==
  IF f = Listen
  THEN ListenMask \cap (IF backlog = <<>> THEN {} ELSE {"in"})
  ELSE client.mask \cap (IF Readable(sock[f]) THEN {"in", "out"} ELSE {"out"})

LevelTriggered(f) == "et" \notin (IF f = Listen THEN ListenMask ELSE client.mask)

(* S in the order its members have on a ready list.                        *)
Listing(S, q) ==
  {s \in [1..Cardinality(S) -> S] :
     /\ IsInjective(s) /\ ToSet(s) = S
     /\ \A i, j \in DOMAIN s :
          i < j => \E k, l \in DOMAIN q : k < l /\ q[k] = s[i] /\ q[l] = s[j]}

Enlist(q, f) == IF Contains(q, f) THEN q ELSE Append(q, f)

(* Something happened at a descriptor: it goes on the ready list if epoll watches it. *)
Notify(c) ==
  ready' = IF \E f \in watched \ {Listen} : sock[f] = c
           THEN Enlist(ready, CHOOSE f \in Fds : sock[f] = c)
           ELSE ready

(* The kernel closes what a process leaves open.  Where the server is the  *)
(* first to close, the connection keeps the port for a while.              *)
Lingers(cs) == lingering \/ \E c \in cs : peer[c] = "open"

Exit ==
  LET left == {c \in Clients : conn[c] \in {"pending", "open"}}
  IN  /\ pc' = "exited"
      /\ lingering' = Lingers(left)
      /\ conn' = [c \in Clients |-> IF c \in left THEN "closed" ELSE conn[c]]
      /\ buf' = [c \in Clients |-> IF c \in left THEN 0 ELSE buf[c]]
      /\ backlog' = <<>> /\ ready' = <<>> /\ batch' = <<>>
      /\ sock' = [f \in Fds |-> None]
      /\ blocking' = {} /\ watched' = {}
      /\ UNCHANGED <<server, step, starts, reuse, new, network>>

CloseFd(f) ==
  /\ sock' = [sock EXCEPT ![f] = None]
  /\ blocking' = blocking \ {f}
  /\ conn' = [conn EXCEPT ![sock[f]] = "closed"]
  /\ buf' = [buf EXCEPT ![sock[f]] = 0]
  /\ lingering' = Lingers({sock[f]})

-----------------------------------------------------------------------------
(* Setting up. *)

CanBind == ~lingering \/ reuse

SetupCall ==
  LET call == SetupCalls[step]
  IN  /\ pc = "setup"
      /\ call = "bind" => CanBind
      /\ reuse' = (reuse \/ call = "reuse")
      /\ step' = IF step < Len(SetupCalls) THEN step + 1 ELSE step
      /\ pc' = IF step < Len(SetupCalls) THEN "setup" ELSE "wait"
      /\ watched' = IF call = "register" THEN {Listen} ELSE watched
      /\ ready' = IF call = "register" /\ Events(Listen) # {} THEN <<Listen>> ELSE ready
      /\ UNCHANGED <<server, starts, lingering, backlog, sock, blocking, new, batch,
                     conn, network, buf>>

(* Every call but setsockopt is checked; the listening socket is closed.   *)
SetupFails ==
  /\ pc = "setup"
  /\ SetupCalls[step] # "reuse"
  /\ Exit

-----------------------------------------------------------------------------
(* The loop. *)

(* epoll_wait: the ready descriptors, in the order of the list; the level  *)
(* triggered ones go back to its end.  With nothing ready the loop goes    *)
(* round again after a second.                                             *)
Wait ==
  /\ pc = "wait" /\ ready # <<>>
  /\ \E live \in Listing({f \in ToSet(ready) : Events(f) # {}}, ready) :
       LET n == IF Len(live) < MaxEvents THEN Len(live) ELSE MaxEvents
           taken == SubSeq(live, 1, n)
       IN  /\ \E again \in Listing({f \in ToSet(taken) : LevelTriggered(f)}, taken) :
                ready' = SubSeq(live, n + 1, Len(live)) \o again
           /\ batch' = [i \in 1..n |-> [fd |-> taken[i], events |-> Events(taken[i])]]
           /\ pc' = IF n = 0 THEN "wait" ELSE "event"
  /\ UNCHANGED <<server, step, starts, reuse, lingering, backlog, descriptors,
                 conn, network, buf>>

(* An error other than EINTR ends the loop. *)
WaitFails == pc = "wait" /\ Exit

NextEvent ==
  /\ batch' = Tail(batch)
  /\ pc' = IF Len(batch) = 1 THEN "wait" ELSE "event"

Current == Head(batch).fd

Accept ==
  /\ pc = "event" /\ Current = Listen
  /\ ~OutOfFds
  /\ new' = CHOOSE f \in Fds \ OpenFds : \A g \in Fds \ OpenFds : f <= g
  /\ sock' = [sock EXCEPT ![new'] = Head(backlog)]
  /\ blocking' = blocking \cup {new'}
  /\ conn' = [conn EXCEPT ![Head(backlog)] = "open"]
  /\ backlog' = Tail(backlog)
  /\ pc' = "setflags"
  /\ UNCHANGED <<server, step, starts, reuse, lingering, watched, ready, batch,
                 network, buf>>

(* No descriptor is free: the failure is ignored and the connection stays. *)
AcceptFails ==
  /\ pc = "event" /\ Current = Listen
  /\ OutOfFds
  /\ NextEvent
  /\ UNCHANGED <<server, step, starts, reuse, lingering, backlog, descriptors, ready,
                 conn, network, buf>>

SetFlags ==
  /\ pc = "setflags"
  /\ blocking' = IF client.nonblocking THEN blocking \ {new} ELSE blocking
  /\ pc' = "add"
  /\ UNCHANGED <<server, step, starts, reuse, lingering, backlog, sock, watched, new,
                 ready, batch, conn, network, buf>>

AddClient ==
  /\ pc = "add"
  /\ watched' = watched \cup {new}
  /\ ready' = IF Events(new) # {} THEN Enlist(ready, new) ELSE ready
  /\ NextEvent
  /\ UNCHANGED <<server, step, starts, reuse, lingering, backlog, sock, blocking, new,
                 conn, network, buf>>

DropNewLeaks ==     \* fault: no close on the failure path
  /\ pc \in {"setflags", "add"}
  /\ NextEvent
  /\ UNCHANGED <<server, step, starts, reuse, lingering, backlog, descriptors, ready,
                 conn, network, buf>>

(* fcntl or EPOLL_CTL_ADD failed: the connection is given up. *)
DropNew ==
  /\ pc \in {"setflags", "add"}
  /\ CloseFd(new)
  /\ NextEvent
  /\ UNCHANGED <<server, step, starts, reuse, backlog, watched, new, ready, network>>

RecvDrains ==       \* fault: reads until there is nothing, on a blocking descriptor
  LET f == Current
      c == sock[f]
      m == IF buf[c] < client.recv THEN buf[c] ELSE client.recv
  IN  /\ pc = "event" /\ f # Listen
      /\ "in" \in Head(batch).events
      /\ Readable(c)
      /\ IF m = 0
         THEN CloseFd(f) /\ watched' = watched \ {f} /\ ready' \in Listing(ToSet(ready) \ {f}, ready) /\ NextEvent
         ELSE /\ buf' = [buf EXCEPT ![c] = @ - m]
              /\ UNCHANGED <<sock, blocking, watched, ready, conn, lingering, pc, batch>>
      /\ UNCHANGED <<server, step, starts, reuse, backlog, new, network>>

(* recv on a client.  At the end of the stream, or after an error, the     *)
(* descriptor is removed from epoll and closed; with nothing to read a     *)
(* blocking descriptor stops the thread, another gives EWOULDBLOCK.        *)
Recv ==
  LET f == Current
      c == sock[f]
      m == IF buf[c] < client.recv THEN buf[c] ELSE client.recv
  IN  /\ pc = "event" /\ f # Listen
      /\ "in" \in Head(batch).events
      /\ Readable(c) \/ f \notin blocking
      /\ IF m = 0 /\ peer[c] # "open"
         THEN /\ CloseFd(f)
              /\ watched' = watched \ {f}
              /\ ready' \in Listing(ToSet(ready) \ {f}, ready)
         ELSE /\ buf' = [buf EXCEPT ![c] = @ - m]
              /\ UNCHANGED <<sock, blocking, watched, ready, conn, lingering>>
      /\ IF m > 0 /\ client.rearm
         THEN pc' = "mod" /\ UNCHANGED batch
         ELSE NextEvent
      /\ UNCHANGED <<server, step, starts, reuse, backlog, new, network>>

(* EPOLL_CTL_MOD after a recv that read something: the kernel looks at the *)
(* descriptor afresh.                                                      *)
Rearm ==
  /\ pc = "mod"
  /\ ready' = IF Events(Current) # {} THEN Enlist(ready, Current) ELSE ready
  /\ NextEvent
  /\ UNCHANGED <<server, step, starts, reuse, lingering, backlog, descriptors, conn,
                 network, buf>>

(* A client that is only writable: a line is printed. *)
WritableRearms ==   \* fault: EPOLL_CTL_MOD here too
  /\ pc = "event" /\ Current # Listen
  /\ "in" \notin Head(batch).events
  /\ ready' = Enlist(ready, Current)
  /\ NextEvent
  /\ UNCHANGED <<server, step, starts, reuse, lingering, backlog, descriptors,
                 conn, network, buf>>
Writable ==
  /\ pc = "event" /\ Current # Listen
  /\ "in" \notin Head(batch).events
  /\ NextEvent
  /\ UNCHANGED <<server, step, starts, reuse, lingering, backlog, descriptors, ready,
                 conn, network, buf>>

Server ==
  \/ SetupCall \/ SetupFails \/ Wait \/ WaitFails \/ Accept \/ AcceptFails
  \/ SetFlags \/ AddClient \/ DropNew \/ Recv \/ Rearm \/ Writable

-----------------------------------------------------------------------------
(* The clients, and whoever starts and kills the server. *)

Listening ==
  pc # "exited" /\ (pc = "setup" => \E i \in 1..(step - 1) : SetupCalls[i] = "listen")

Connect(c) ==
  /\ Listening
  /\ conn[c] = "none"
  /\ conn' = [conn EXCEPT ![c] = "pending"]
  /\ backlog' = Append(backlog, c)
  /\ ready' = IF Listen \in watched THEN Enlist(ready, Listen) ELSE ready
  /\ UNCHANGED <<server, process, descriptors, batch, network, buf>>

Send(c) ==
  /\ conn[c] \in {"pending", "open"} /\ peer[c] = "open"
  /\ sent < MaxSent
  /\ sent' = sent + 1
  /\ buf' = [buf EXCEPT ![c] = @ + 1]
  /\ Notify(c)
  /\ UNCHANGED <<server, process, descriptors, backlog, batch, conn, peer>>

(* The client shuts its end down, or resets the connection. *)
HangUp(c, how) ==
  /\ conn[c] \in {"pending", "open"} /\ peer[c] = "open"
  /\ peer' = [peer EXCEPT ![c] = how]
  /\ Notify(c)
  /\ UNCHANGED <<server, process, descriptors, backlog, batch, conn, buf, sent>>

Kill == pc # "exited" /\ Exit

(* By the time of a restart the port may have become free by itself. *)
Restart ==
  /\ pc = "exited" /\ starts < MaxStarts
  /\ pc' = "setup" /\ step' = 1 /\ starts' = starts + 1
  /\ reuse' = FALSE
  /\ lingering' \in {lingering, FALSE}
  /\ UNCHANGED <<server, backlog, descriptors, ready, batch, conn, network, buf>>

World ==
  \/ \E c \in Clients : Connect(c) \/ Send(c) \/ \E how \in {"fin", "rst"} : HangUp(c, how)
  \/ Kill \/ Restart

Next == Server \/ World

Spec == Init /\ [][Next]_vars

(* The operating system keeps running the server's thread; clients, the    *)
(* killer and the operator owe nothing.                                    *)
FairSpec == Spec /\ WF_vars(Server)

-----------------------------------------------------------------------------
(* Properties. *)

(* Descriptors are reused as soon as they are closed.  Yet no two refer to *)
(* one connection, every open one is watched (but for one between accept   *)
(* and EPOLL_CTL_ADD), so that none is leaked on a failure path, and an    *)
(* event still to be handled is about a descriptor that is open and        *)
(* watched: closing one while a batch is handled leaves no event behind    *)
(* for the connection that gets the number next.                           *)
DescriptorsInOrder ==
  /\ \A f, g \in OpenFds : sock[f] = sock[g] => f = g
  /\ {c \in Clients : conn[c] = "open"} = {sock[f] : f \in OpenFds}
  /\ OpenFds = (watched \ {Listen}) \cup (IF pc \in {"setflags", "add"} THEN {new} ELSE {})
  /\ \A i \in 1..Len(batch) : batch[i].fd \in watched

(* A client that has something to be read is never forgotten: it is on the *)
(* ready list, or an event for it is still to be handled, or EPOLL_CTL_ADD *)
(* is still to come.  For edge triggered clients this rests on             *)
(* EPOLL_CTL_MOD: one recv need not empty the buffer.                      *)
NoLostEdge ==
  \A f \in watched \ {Listen} :
    Readable(sock[f]) => \/ Contains(ready, f)
                         \/ \E i \in 1..Len(batch) : batch[i].fd = f

(* In epoll.cc and epoll_lt.cc clients stay in blocking mode.  Even so the *)
(* one thread never blocks in recv: it only reads where there is something *)
(* to read at that moment, not merely when epoll_wait returned.            *)
RecvNeverBlocks ==
  pc = "event" /\ Current # Listen /\ "in" \in Head(batch).events
    => Readable(sock[Current]) \/ Current \notin blocking

(* Connections that linger after a kill do not keep epoll.cc or epoll_lt.cc *)
(* from binding the port again: the address is made reusable before bind,  *)
(* and on every path to it.  (epoll_lt.c sets the same options after       *)
(* listen, where they come too late.)                                      *)
RestartBinds == variant # "c" /\ pc = "setup" /\ SetupCalls[step] = "bind" => CanBind

(* Nothing is open, watched or ready outside the loop, a batch is empty    *)
(* between two waits, and from its third setup call on a server that makes *)
(* its address reusable in time has done so.                               *)
SetupInv ==
  /\ pc \in {"setup", "exited"} => OpenFds = {} /\ watched = {} /\ ready = <<>>
  /\ pc \notin {"setup", "exited"} => Listen \in watched
  /\ batch = <<>> <=> pc \in {"setup", "wait", "exited"}
  /\ pc = "exited" => backlog = <<>>
  /\ variant # "c" /\ pc = "setup" /\ step > 2 => reuse

(* The backlog holds pending connections, each once.                       *)
BacklogInv ==
  /\ IsInjective(backlog)
  /\ \A c \in ToSet(backlog) : conn[c] = "pending"
  /\ \A c \in Clients : buf[c] <= sent

(* No more descriptors are open than the process may have; only watched    *)
(* ones are on the ready list.                                             *)
ReadyInv ==
  /\ Cardinality(OpenFds) <= nfds
  /\ ToSet(ready) \subseteq watched

(* What an event of the batch says still holds when it is handled, or has  *)
(* put its descriptor on the ready list again.                             *)
EventInv(i) ==
  LET f == batch[i].fd
      handled == i = 1 /\ pc # "event"
  IN  /\ LevelTriggered(f) => Contains(ready, f)
      /\ f = Listen => backlog # <<>> \/ handled
      /\ f # Listen /\ "in" \in batch[i].events => Readable(sock[f]) \/ handled
      /\ f # Listen /\ "in" \notin batch[i].events /\ Readable(sock[f]) => Contains(ready, f)

BatchInv ==
  /\ \A i, j \in 1..Len(batch) : batch[i].fd = batch[j].fd => i = j
  /\ \A i \in 1..Len(batch) : EventInv(i)
  /\ pc = "mod" => Current # Listen
  /\ pc \in {"setflags", "add"} => Current = Listen /\ new \in OpenFds \ watched

(* The safety of the servers: the four properties, and what makes them     *)
(* inductive.                                                              *)
Inv ==
  /\ TypeOK /\ DescriptorsInOrder /\ NoLostEdge /\ RecvNeverBlocks /\ RestartBinds
  /\ SetupInv /\ BacklogInv /\ ReadyInv /\ BatchInv

(* What a client of the server has sent is read and its hanging up is      *)
(* noticed, however clients, accepts and other reads interleave and        *)
(* whatever part of the buffer one recv leaves behind.                     *)
PeersServed ==
  \A c \in Clients :
    conn[c] = "open" /\ Readable(c)
      ~> conn[c] = "closed" \/ ~Readable(c)

(* A connection does not wait for ever: it is accepted unless all          *)
(* descriptors stay in use.                                                *)
ConnectionsAccepted ==
  \A c \in Clients : conn[c] = "pending" ~> conn[c] # "pending" \/ OutOfFds

(* Clients that do nothing cost nothing: but for epoll_lt.cc, which is     *)
(* told over and over that its clients are writable, a server that keeps   *)
(* running always comes to an epoll_wait again that has nothing to return, *)
(* and so sleeps, unless it is out of descriptors.                         *)
SleepsWhenIdle ==
  variant # "lt" =>
    []<>((pc = "wait" /\ ready = <<>>) \/ pc = "exited" \/ OutOfFds)
=============================================================================
