---------------------------- MODULE MessageQueue ----------------------------
(***************************************************************************)
(* linux_learning/lec36: kfifo.c makes a System V message queue, send.c    *)
(* and rec.c put one message in and take one out.  Each is a process that  *)
(* reads its options, makes one call that does not wait, and ends; any     *)
(* number of them come and go.  The queue is the kernel's.                 *)
(***************************************************************************)
EXTENDS Integers, SequencesExt, FiniteSetsExt

CONSTANTS Types,     \* what -t is given as: -1 is also "not given"
          Lengths,   \* strlen of what -m is given as
          TextSize,  \* sizeof mtext, 1024
          QueueSize, \* msg_qbytes: how many bytes the kernel lets in
          MaxSends   \* bound: messages the queue accepts

MessageQueueAssumption ==
  Types \subseteq Int /\ Lengths \subseteq Nat /\ TextSize \in Nat

VARIABLES
  exists,    \* the queue was made
  messages,  \* what it holds: number, mtype, bytes of text with and without the end
  accepted,  \* history: the messages sent so far, by number
  received,  \* history: what rec printed, number and bytes that were in its buffer
  lastError  \* why the last process failed, "none" if it did not

vars == <<exists, messages, accepted, received, lastError>>

Init ==
  /\ exists = FALSE
  /\ messages = <<>> /\ accepted = <<>> /\ received = <<>>
  /\ lastError = "none"

Fail(why) ==
  lastError' = why /\ UNCHANGED <<exists, messages, accepted, received>>

(* kfifo.c; IPC_CREAT without IPC_EXCL also finds one that is there. *)
Create == exists' = TRUE /\ lastError' = "none" /\ UNCHANGED <<messages, accepted, received>>

Bytes == FoldSeq(LAMBDA m, sum : sum + m.len, 0, messages)

(* send.c: what is sent is the text with its '\0'.  The kernel refuses     *)
(* types below 1, and what does not fit at the moment.                     *)
SizeUnterminated(length) == length  \* fault: strlen without the + 1
Size(length) == length + 1

Send(type, length) ==
  LET len == Size(length)
  IN  IF len > TextSize THEN Fail("message_too_long")
      ELSE IF type = -1 THEN Fail("arguments_error")
      ELSE IF ~exists \/ type < 1 \/ Bytes + len > QueueSize THEN Fail("fail_to_send_message")
      ELSE LET m == [number |-> Len(accepted) + 1, mtype |-> type, text |-> length, len |-> len]
           IN  /\ messages' = Append(messages, m)
               /\ accepted' = Append(accepted, m)
               /\ lastError' = "none"
               /\ UNCHANGED <<exists, received>>

(* msgrcv: with 0 the first message, with type > 0 the first of that type, *)
(* with type < 0 the first of the lowest type that is at most -type.       *)
Matching(type) ==
  {i \in 1..Len(messages) :
     LET t == messages[i].mtype
     IN  \/ type = 0
         \/ type > 0 /\ t = type
         \/ type < 0 /\ t <= -type /\ \A j \in 1..Len(messages) : messages[j].mtype >= t}

(* rec.c *)
Receive(type) ==
  IF type = -1 THEN Fail("arguments_error")
  ELSE IF ~exists \/ Matching(type) = {} THEN Fail("fail_to_recv_message")
  ELSE LET i == Min(Matching(type))
       IN  /\ messages' = RemoveAt(messages, i)
           /\ received' = Append(received, messages[i])
           /\ lastError' = "none"
           /\ UNCHANGED <<exists, accepted>>

Next ==
  \/ Create
  \/ \E type \in Types, length \in Lengths : Len(accepted) < MaxSends /\ Send(type, length)
  \/ \E type \in Types : Receive(type)

Spec == Init /\ [][Next]_vars

(* However senders and receivers of several types race, and whichever of   *)
(* them fail: each accepted message comes out at most once, those of one   *)
(* type in the order they were sent, none is lost, and rec prints the text *)
(* that was sent and nothing after it, because the message it got brings   *)
(* its end with it and fits into the buffer.                               *)
MessagesInOrder ==
  LET out == received \o messages  \* what came out, then what is to come
  IN  /\ Len(out) = Len(accepted) /\ ToSet(out) = ToSet(accepted)
      /\ \A i, j \in 1..Len(out) :
           i < j /\ out[i].mtype = out[j].mtype => out[i].number < out[j].number
      /\ \A i \in 1..Len(received) : received[i].text < received[i].len /\ received[i].len <= TextSize
=============================================================================
