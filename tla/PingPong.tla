------------------------------ MODULE PingPong ------------------------------
(***************************************************************************)
(* GameBook/chapter1_network: server.cpp echoes one message of one client  *)
(* and ends; client.cpp sends "ping" and prints what comes back.  Both use *)
(* blocking sockets and call send and recv once each.  Messages are        *)
(* counted in pieces, which TCP delivers in as many parts as it likes.     *)
(***************************************************************************)
EXTENDS Integers, SequencesExt

CONSTANTS Clients, Nobody,
          Ping,     \* how many pieces "ping" is
          Backlog   \* GetListenBacklog()

PingPongAssumption == Nobody \notin Clients /\ Ping \in Nat \ {0} /\ Backlog \in Nat

VARIABLES
  server,   \* where the server is
  backlog,  \* the connections it has not accepted
  served,   \* the client at newSocket
  size,     \* what its recv returned
  client,   \* where each client is
  conn,     \* "none", "open", "closed" or "reset" of each connection, as its client sees it
  onWire,   \* pieces under way, to the server and to the client
  arrived,  \* pieces that wait there to be received
  printed   \* how much each client received

vars == <<server, backlog, served, size, client, conn, onWire, arrived, printed>>

Ends == {"server", "client"}
Quiet == [c \in Clients |-> [e \in Ends |-> 0]]

Init ==
  /\ server = "setup"
  /\ backlog = <<>> /\ served = Nobody /\ size = 0
  /\ client = [c \in Clients |-> "off"]
  /\ conn = [c \in Clients |-> "none"]
  /\ onWire = Quiet /\ arrived = Quiet
  /\ printed = [c \in Clients |-> 0]

ServerGoes(from, to) == server = from /\ server' = to
ClientGoes(c, from, to) == client[c] = from /\ client' = [client EXCEPT ![c] = to]

(* socket, bind and listen; any of them may fail, and the server returns. *)
Setup ==
  /\ ServerGoes("setup", "accept") \/ ServerGoes("setup", "exited")
  /\ UNCHANGED <<backlog, served, size, client, conn, onWire, arrived, printed>>

Accept ==
  /\ ServerGoes("accept", "recv")
  /\ backlog # <<>>
  /\ served' = Head(backlog) /\ backlog' = Tail(backlog)
  /\ UNCHANGED <<size, client, conn, onWire, arrived, printed>>

(* The result of accept is not tested: recv fails on -1 then. *)
AcceptFails ==
  /\ ServerGoes("accept", "close")
  /\ UNCHANGED <<backlog, served, size, client, conn, onWire, arrived, printed>>

(* recv takes what is there; at the end of the stream size is 0. *)
ServerReceives ==
  /\ server = "recv"
  /\ size' = arrived[served]["server"]
  /\ size' > 0 \/ (conn[served] = "closed" /\ onWire[served]["server"] = 0)
  /\ server' = IF size' > 0 THEN "send" ELSE "close"
  /\ arrived' = [arrived EXCEPT ![served]["server"] = 0]
  /\ UNCHANGED <<backlog, served, client, conn, onWire, printed>>

ServerSendsFixed ==  \* fault: the size of the text, not what was received
  /\ ServerGoes("send", "close")
  /\ onWire' = [onWire EXCEPT ![served]["client"] = Ping]
  /\ UNCHANGED <<backlog, served, size, client, conn, arrived, printed>>
ServerSends ==
  /\ ServerGoes("send", "close")
  /\ onWire' = [onWire EXCEPT ![served]["client"] = size]
  /\ UNCHANGED <<backlog, served, size, client, conn, arrived, printed>>

(* close of the listening socket and the end of the process.  Connections  *)
(* in the backlog are reset, and so is the one of newSocket if something   *)
(* was not received; what is still under way to its client may be lost.    *)
ServerEnds ==
  LET reset == {c \in Clients : \/ c \in ToSet(backlog)
                                \/ c = served /\ arrived[c]["server"] + onWire[c]["server"] > 0}
  IN  /\ ServerGoes("close", "exited")
      /\ conn' = [c \in Clients |-> IF conn[c] # "open" THEN conn[c]
                                    ELSE IF c \in reset THEN "reset"
                                    ELSE IF c = served THEN "closed" ELSE conn[c]]
      /\ onWire' = [c \in Clients |->
                      [server |-> 0, client |-> IF c \in reset THEN 0 ELSE onWire[c]["client"]]]
      /\ backlog' = <<>>
      /\ UNCHANGED <<served, size, client, arrived, printed>>

Server ==
  \/ Setup \/ Accept \/ AcceptFails \/ ServerReceives \/ ServerSends \/ ServerEnds

Start(c) ==
  /\ ClientGoes(c, "off", "connect")
  /\ UNCHANGED <<server, backlog, served, size, conn, onWire, arrived, printed>>

(* connect waits while the backlog is full, and fails where nobody listens. *)
Connect(c) ==
  /\ IF server \in {"setup", "exited"}
     THEN ClientGoes(c, "connect", "ended") /\ UNCHANGED <<backlog, conn>>
     ELSE /\ ClientGoes(c, "connect", "send")
          /\ Len(backlog) < Backlog
          /\ backlog' = Append(backlog, c)
          /\ conn' = [conn EXCEPT ![c] = "open"]
  /\ UNCHANGED <<server, served, size, onWire, arrived, printed>>

(* The result of send is not tested. *)
ClientSends(c) ==
  /\ ClientGoes(c, "send", "recv")
  /\ onWire' = IF conn[c] = "open" THEN [onWire EXCEPT ![c]["server"] = Ping] ELSE onWire
  /\ UNCHANGED <<server, backlog, served, size, conn, arrived, printed>>

(* recv takes what is there, or finds the end of the stream or an error;   *)
(* the buffer was cleared, so that nothing else is printed.                *)
ClientReceives(c) ==
  /\ arrived[c]["client"] > 0 \/ (conn[c] # "open" /\ onWire[c]["client"] = 0)
  /\ ClientGoes(c, "recv", "ended")
  /\ printed' = [printed EXCEPT ![c] = arrived[c]["client"]]
  /\ UNCHANGED <<server, backlog, served, size, conn, onWire, arrived>>

Client(c) == Connect(c) \/ ClientSends(c) \/ ClientReceives(c)

(* The user stops a client: for the server the stream ends. *)
Kill(c) ==
  /\ ClientGoes(c, "send", "killed") \/ ClientGoes(c, "recv", "killed")
  /\ conn' = IF conn[c] = "open" THEN [conn EXCEPT ![c] = "closed"] ELSE conn
  /\ UNCHANGED <<server, backlog, served, size, onWire, arrived, printed>>

Deliver(c, e) ==
  /\ \E n \in 1..onWire[c][e] :
       /\ onWire' = [onWire EXCEPT ![c][e] = @ - n]
       /\ arrived' = [arrived EXCEPT ![c][e] = @ + n]
  /\ UNCHANGED <<server, backlog, served, size, client, conn, printed>>

Next ==
  \/ Server
  \/ \E c \in Clients : \/ Start(c) \/ Client(c) \/ Kill(c)
                        \/ \E e \in Ends : Deliver(c, e)

(* Both programs are scheduled and TCP delivers; nobody need start a       *)
(* client, or stop one.                                                    *)
Fairness ==
  /\ WF_vars(Server)
  /\ \A c \in Clients : WF_vars(Client(c)) /\ \A e \in Ends : WF_vars(Deliver(c, e))

Spec == Init /\ [][Next]_vars /\ Fairness

(* One client at most gets something back, and that is what the server had *)
(* of it; a client whose whole message was echoed, and that is not         *)
(* stopped, does not end without any of it.                                *)
EchoWhole ==
  \A c \in Clients :
    /\ printed[c] > 0 => c = served /\ printed[c] <= size
    /\ client[c] = "ended" /\ c = served /\ size = Ping => printed[c] > 0

(* A client that runs ends: also one that nobody accepted, one that waits  *)
(* for a place in the backlog, and one whose server received nothing.      *)
ClientsEnd ==
  \A c \in Clients : client[c] = "connect" ~> client[c] \in {"ended", "killed"}
=============================================================================
