---------------------------- MODULE AbstractQueue ----------------------------
(***************************************************************************)
(* What concurrent_queue.h promises its callers: one FIFO sequence of      *)
(* values.  Put and Take happen at one instant each, a Take returns the    *)
(* oldest value, and a failed try_pop (Miss) is allowed only when the      *)
(* queue really is empty at that instant.                                  *)
(***************************************************************************)
EXTENDS Sequences

CONSTANTS Threads,   \* the callers
          Values,    \* what is stored
          NoValue,   \* no operation of the thread has returned yet
          Missed     \* the result of a try_pop that found the queue empty

VARIABLES items,     \* the values in the queue, oldest first
          outcome    \* outcome[t]: what t's latest pop returned

vars == <<items, outcome>>

Init == items = <<>> /\ outcome = [t \in Threads |-> NoValue]

\* t calls its next operation and forgets the result of the previous one
Begin(t) ==
  /\ outcome' = [outcome EXCEPT ![t] = NoValue]
  /\ UNCHANGED items

Put(v) ==
  /\ items' = Append(items, v)
  /\ UNCHANGED outcome

Take(t) ==
  /\ items # <<>>
  /\ outcome[t] = NoValue
  /\ outcome' = [outcome EXCEPT ![t] = Head(items)]
  /\ items' = Tail(items)

Miss(t) ==
  /\ items = <<>>
  /\ outcome[t] = NoValue
  /\ outcome' = [outcome EXCEPT ![t] = Missed]
  /\ UNCHANGED items

Next ==
  \/ \E v \in Values : Put(v)
  \/ \E t \in Threads : Begin(t) \/ Take(t) \/ Miss(t)

Spec == Init /\ [][Next]_vars
=============================================================================
