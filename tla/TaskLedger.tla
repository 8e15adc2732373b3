----------------------------- MODULE TaskLedger -----------------------------
(***************************************************************************)
(* What the pool promises about each task it accepts, with slots, queue,   *)
(* locks and threads hidden.  A task is executed at most once: once a slot *)
(* has it, it never goes back to the queue.  Its result, once there, is    *)
(* handed to the caller or lost, and a finished task stays finished.       *)
(***************************************************************************)
CONSTANT Tasks

VARIABLE fate   \* fate[t]

Fates == {"new", "queued", "inflight", "answered", "returned", "lost",
          "undelivered", "discarded"}

LInit == fate = [t \in Tasks |-> "new"]

Moves(t, from, to) ==
    /\ fate[t] = from
    /\ fate' = [fate EXCEPT ![t] = to]

(* submit() *)
Accepts(t) == Moves(t, "new", "queued")

(* A slot took the task: its target may have been entered.                 *)
Delivers(t) == Moves(t, "queued", "inflight")

(* Delivery is given up and the target has not seen the task; or send()    *)
(* threw after the delivery, and a child may execute it for nobody.        *)
GivesUp(t) == Moves(t, "queued", "undelivered")

(* The slot produced the one result of the task.                           *)
Answers(t) == Moves(t, "inflight", "answered")

(* wait_one() returned the result, or threw in its place.                  *)
Returns(t) == Moves(t, "answered", "returned")
Loses(t)   == Moves(t, "answered", "lost")

(* stop_immediately() drops everything not answered yet.                   *)
Discards ==
    fate' = [t \in Tasks |-> IF fate[t] \in {"queued", "inflight"} THEN "discarded"
                             ELSE fate[t]]

LNext ==
    \/ \E t \in Tasks :
          Accepts(t) \/ Delivers(t) \/ GivesUp(t) \/ Answers(t) \/ Returns(t) \/ Loses(t)
    \/ Discards

LSpec == LInit /\ [][LNext]_fate
=============================================================================
