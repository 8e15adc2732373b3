--------------------------- MODULE WorkerContract ---------------------------
(***************************************************************************)
(* What one worker slot promises to the pool that owns it, with the child  *)
(* process, the socket and waitpid() hidden: a slot is stopped, idle or    *)
(* busy with one task, a task it takes is answered at most once, only an   *)
(* answer produced by the target (ok, exception) leaves the slot usable,   *)
(* and a task the slot refuses is not taken.                               *)
(*                                                                         *)
(* Worker implements this module; the slots of WorkerPool obey it.         *)
(***************************************************************************)
CONSTANTS Tasks,    \* task identifiers
          NoTask    \* "no task in flight"; not a member of Tasks

VARIABLES slot,     \* "stopped", "idle" or "busy"
          task,     \* the task in flight, or NoTask
          taken,    \* tasks accepted by the slot so far
          answer    \* answer[t]: the isolated_status returned for t, or "none"

cvars == <<slot, task, taken, answer>>

(* isolated_status of worker/specs.h *)
TargetStatus == {"ok", "exception"}
InfraStatus  == {"crash", "timeout", "protocol_error", "ipc_error", "internal_error"}
IsolatedStatus == TargetStatus \cup InfraStatus

CInit ==
    /\ slot = "stopped"
    /\ task = NoTask
    /\ taken = {}
    /\ answer = [t \in Tasks |-> "none"]

(* spawn() gives a stopped slot a fresh child. *)
Spawned ==
    /\ slot = "stopped"
    /\ slot' = "idle"
    /\ UNCHANGED <<task, taken, answer>>

(* send() returned accepted: from here on the slot owes an answer for t. *)
Accepts(t) ==
    /\ slot = "idle"
    /\ t \notin taken
    /\ slot' = "busy"
    /\ task' = t
    /\ taken' = taken \cup {t}
    /\ UNCHANGED answer

(* A poisoned channel or stop() takes an idle slot down; nothing is taken. *)
Retires ==
    /\ slot = "idle"
    /\ slot' = "stopped"
    /\ UNCHANGED <<task, taken, answer>>

(* receive() or expire_if_timed_out() produced the result of the task.     *)
Answers(s) ==
    /\ slot = "busy"
    /\ answer[task] = "none"
    /\ answer' = [answer EXCEPT ![task] = s]
    /\ slot' = IF s \in TargetStatus THEN "idle" ELSE "stopped"
    /\ task' = NoTask
    /\ UNCHANGED taken

(* stop() of a busy slot abandons the task: it will never be answered.     *)
Abandons ==
    /\ slot = "busy"
    /\ slot' = "stopped"
    /\ task' = NoTask
    /\ UNCHANGED <<taken, answer>>

CNext ==
    \/ Spawned
    \/ \E t \in Tasks : Accepts(t)
    \/ Retires
    \/ \E s \in IsolatedStatus : Answers(s)
    \/ Abandons

CSpec == CInit /\ [][CNext]_cvars
=============================================================================
