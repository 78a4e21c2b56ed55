------------------------------ MODULE TaskPool ------------------------------
(***************************************************************************)
(* What every pool under cppDemoPractice/ThreadPool promises about a task, *)
(* as its future shows it: it runs at most once, only after its submit,    *)
(* and it is thrown away unrun (broken_promise) only by a pool that is     *)
(* being destroyed.                                                        *)
(***************************************************************************)
CONSTANT Tasks

VARIABLES status,   \* status[t]: how far the task t has come
          closing   \* the destructor, or a failing constructor, has begun

vars == <<status, closing>>

Init == status = [t \in Tasks |-> "new"] /\ closing = FALSE

Move(t, from, to) ==
  /\ status[t] = from
  /\ status' = [status EXCEPT ![t] = to]
  /\ UNCHANGED closing

Submit(t) == Move(t, "new", "queued")
Start(t)  == Move(t, "queued", "running")
Finish(t) == Move(t, "running", "done")

Close == closing' = TRUE /\ UNCHANGED status

Drop ==
  /\ closing
  /\ \E lost \in SUBSET {t \in Tasks : status[t] = "queued"} :
       status' = [t \in Tasks |-> IF t \in lost THEN "dropped" ELSE status[t]]
  /\ UNCHANGED closing

Next == Close \/ Drop \/ \E t \in Tasks : Submit(t) \/ Start(t) \/ Finish(t)

Spec == Init /\ [][Next]_vars
=============================================================================
