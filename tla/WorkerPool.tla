----------------------------- MODULE WorkerPool -----------------------------
(***************************************************************************)
(* worker/worker_pool.hpp: the queue of pending tasks, the fixed worker    *)
(* slots and the two mutexes, used by a consumer thread that calls         *)
(* wait_one() and a client thread that calls submit(), stop() and          *)
(* stop_immediately().                                                     *)
(*                                                                         *)
(* A slot is what WorkerContract says of a Worker: every call on it is one *)
(* step here, because the pool makes all of them under m_workers_mutex.    *)
(* The mutexes are not variables: a thread holds one exactly while its     *)
(* program counter is inside the block that locks it.  A critical section  *)
(* that is left without waiting for anything is a single step.             *)
(***************************************************************************)
EXTENDS Naturals, Sequences, FiniteSets

CONSTANTS NumWorkers,   \* worker_count
          MaxTasks,     \* bound: tasks submitted
          MaxAttempts   \* max_dispatch_attempts

ASSUME PoolAssumption ==
    /\ NumWorkers \in Nat \ {0}
    /\ MaxTasks \in Nat
    /\ MaxAttempts \in Nat \ {0}

Workers == 1..NumWorkers
Ids     == 1..MaxTasks
NoId    == 0

VARIABLES
    \* the pool
    pstate,     \* m_state
    pending,    \* m_pending: records [id, attempts]
    nextId,     \* m_next_task_id; m_submitted is nextId - 1
    finished,   \* m_finished
    \* the slots
    slot,       \* slot[w]: "stopped", "idle" or "busy"
    task,       \* task[w]: the task in flight, or NoId
    ready,      \* ready[w]: poll() would report the descriptor
    late,       \* late[w]: the deadline of the task has passed
    \* the consumer thread
    cpc,        \* where it is in wait_one()
    di,         \* slot index: loop of dispatch_pending_tasks(), slot to respawn
    item,       \* the task taken from the queue, or answered, NoId for none
    tries,      \* dispatch_attempts of item
    error,      \* what the last wait_one() threw, or "none"
    \* the client thread
    mpc,        \* where it is in submit(), stop() or stop_immediately()
    \* history
    owner,      \* owner[t]: the slot that accepted t, or 0
    answer,     \* answer[t]: the status a slot produced for t, or "none"
    returned,   \* tasks whose result wait_one() has returned
    undelivered,\* tasks for which wait_one() threw before a slot was busy with them
    discarded   \* tasks dropped by stop_immediately()

pool     == <<pstate, pending, nextId, finished>>
slots    == <<slot, task, ready, late>>
consumer == <<cpc, di, item, tries, error>>
history  == <<owner, answer, returned, undelivered, discarded>>
vars     == <<pool, slots, consumer, mpc, history>>

-----------------------------------------------------------------------------
(* "crash" stands for every status that costs the slot its child.          *)
ReceiveStatus == {"ok", "exception", "crash"}
KeepsChild(s) == s \in {"ok", "exception"}

Busy(w)   == slot[w] = "busy"
Least(S)  == CHOOSE w \in S : \A v \in S : w <= v

(* Mutant: a slot that executes a task does not count as work. *)
HasWork_QueueOnly == pending # <<>>

HasWork == pending # <<>> \/ \E w \in Workers : Busy(w)
Drained == pstate = "finishing" /\ ~HasWork

(* Who holds m_pending_mutex and m_workers_mutex across steps.             *)
InDispatch       == cpc \in {"dispatch", "redeliver"}
PendingLocked    == InDispatch \/ cpc = "cvblock"
WorkersLocked    == InDispatch \/ cpc \in {"polling", "respawn"}

Submitted == 1..(nextId - 1)
InQueue(t)  == \E i \in DOMAIN pending : pending[i].id = t
InFlight(t) == \E w \in Workers : task[w] = t

-----------------------------------------------------------------------------
(* The constructor spawned every child, or threw and there is no pool.     *)
Init ==
    /\ pstate = "accepting" /\ pending = <<>> /\ nextId = 1 /\ finished = 0
    /\ slot = [w \in Workers |-> "idle"]
    /\ task = [w \in Workers |-> NoId]
    /\ ready = [w \in Workers |-> FALSE]
    /\ late = [w \in Workers |-> FALSE]
    /\ cpc = "outside" /\ di = 1 /\ item = NoId /\ tries = 0 /\ error = "none"
    /\ mpc = "outside"
    /\ owner = [t \in Ids |-> 0]
    /\ answer = [t \in Ids |-> "none"]
    /\ returned = {} /\ undelivered = {} /\ discarded = {}

-----------------------------------------------------------------------------
(* The children and the clock                                              *)

(* An answer, a part of one, or a hang-up becomes readable.                *)
ChildEvent(w) ==
    /\ Busy(w) /\ ~ready[w]
    /\ ready' = [ready EXCEPT ![w] = TRUE]
    /\ UNCHANGED <<pool, slot, task, late, consumer, mpc, history>>

DeadlinePasses(w) ==
    /\ Busy(w) /\ ~late[w]
    /\ late' = [late EXCEPT ![w] = TRUE]
    /\ UNCHANGED <<pool, slot, task, ready, consumer, mpc, history>>

-----------------------------------------------------------------------------
(* submit(), stop(), stop_immediately()                                    *)

Submit ==
    /\ mpc = "outside" /\ ~PendingLocked
    /\ pstate = "accepting" /\ nextId \in Ids
    /\ pending' = Append(pending, [id |-> nextId, attempts |-> 0])
    /\ nextId' = nextId + 1
    /\ mpc' = "notify_one"
    /\ UNCHANGED <<pstate, finished, slots, consumer, history>>

(* The state changes without m_pending_mutex.                              *)
Stop ==
    /\ mpc = "outside"
    /\ pstate' = IF pstate = "accepting" THEN "finishing" ELSE pstate
    /\ mpc' = "notify_all"
    /\ UNCHANGED <<pending, nextId, finished, slots, consumer, history>>

(* Mutant: the state is left for later. *)
StopImmediately_LateStore ==
    /\ mpc = "outside"
    /\ mpc' = "stop_workers"
    /\ UNCHANGED <<pool, slots, consumer, history>>

StopImmediately ==
    /\ mpc = "outside"
    /\ pstate' = "stopped"
    /\ mpc' = "stop_workers"
    /\ UNCHANGED <<pending, nextId, finished, slots, consumer, history>>

(* Mutant: the slots are stopped without m_workers_mutex. *)
StopWorkers_Unlocked ==
    /\ mpc = "stop_workers" /\ ~PendingLocked
    /\ discarded' = discarded \cup {t \in Ids : InQueue(t) \/ InFlight(t)}
    /\ pending' = <<>>
    /\ slot' = [w \in Workers |-> "stopped"]
    /\ task' = [w \in Workers |-> NoId]
    /\ ready' = [w \in Workers |-> FALSE]
    /\ late' = [w \in Workers |-> FALSE]
    /\ mpc' = "notify_all"
    /\ UNCHANGED <<pstate, nextId, finished, consumer, owner, answer, returned, undelivered>>

(* Mutant: nobody is told. *)
StopWorkers_Silent ==
    /\ mpc = "stop_workers" /\ ~PendingLocked /\ ~WorkersLocked
    /\ discarded' = discarded \cup {t \in Ids : InQueue(t) \/ InFlight(t)}
    /\ pending' = <<>>
    /\ slot' = [w \in Workers |-> "stopped"]
    /\ task' = [w \in Workers |-> NoId]
    /\ ready' = [w \in Workers |-> FALSE]
    /\ late' = [w \in Workers |-> FALSE]
    /\ mpc' = "outside"
    /\ UNCHANGED <<pstate, nextId, finished, consumer, owner, answer, returned, undelivered>>

StopWorkers ==
    /\ mpc = "stop_workers" /\ ~PendingLocked /\ ~WorkersLocked
    /\ discarded' = discarded \cup {t \in Ids : InQueue(t) \/ InFlight(t)}
    /\ pending' = <<>>
    /\ slot' = [w \in Workers |-> "stopped"]
    /\ task' = [w \in Workers |-> NoId]
    /\ ready' = [w \in Workers |-> FALSE]
    /\ late' = [w \in Workers |-> FALSE]
    /\ mpc' = "notify_all"
    /\ UNCHANGED <<pstate, nextId, finished, consumer, owner, answer, returned, undelivered>>

(* notify_one() or notify_all(): there is a single consumer to wake.       *)
Notify ==
    /\ mpc \in {"notify_one", "notify_all"}
    /\ mpc' = "outside"
    /\ cpc' = IF cpc = "asleep" THEN "cvcheck" ELSE cpc
    /\ UNCHANGED <<pool, slots, di, item, tries, error, history>>

-----------------------------------------------------------------------------
(* wait_one()                                                              *)

Goto(l) ==
    /\ cpc' = l
    /\ UNCHANGED <<di, item, tries, error>>

Throw(e) ==
    /\ cpc' = "outside"
    /\ error' = e
    /\ item' = NoId
    /\ UNCHANGED <<di, tries>>

(* The consumer calls wait_one(), also after one that threw.               *)
WaitOne ==
    /\ cpc = "outside"
    /\ cpc' = "loop" /\ error' = "none"
    /\ UNCHANGED <<di, item, tries, pool, slots, mpc, history>>

Loop ==
    /\ cpc = "loop"
    /\ IF pstate = "stopped" THEN Throw("stopped") ELSE Goto("lock_both")
    /\ UNCHANGED <<pool, slots, mpc, history>>

LockForDispatch ==
    /\ cpc = "lock_both"
    /\ IF pstate = "stopped"
       THEN Throw("stopped")
       ELSE /\ cpc' = "dispatch" /\ di' = 1
            /\ UNCHANGED <<item, tries, error>>
    /\ UNCHANGED <<pool, slots, mpc, history>>

(* dispatch_pending_tasks(), slot by slot *)
DispatchEnds ==
    /\ cpc = "dispatch" /\ (pending = <<>> \/ di \notin Workers)
    /\ Goto("expire")
    /\ UNCHANGED <<pool, slots, mpc, history>>

NextSlot ==
    /\ di' = di + 1
    /\ cpc' = "dispatch"
    /\ item' = NoId
    /\ UNCHANGED <<tries, error>>

Dispatching(s) == cpc = "dispatch" /\ pending # <<>> /\ di \in Workers /\ slot[di] = s

DispatchSkip ==
    /\ Dispatching("busy")
    /\ NextSlot
    /\ UNCHANGED <<pool, slots, mpc, history>>

(* spawn_worker_or_throw() on a dead slot: the task stays in the queue.    *)
DispatchSpawn ==
    /\ Dispatching("stopped")
    /\ \/ slot' = [slot EXCEPT ![di] = "idle"] /\ UNCHANGED consumer
       \/ Throw("dispatch") /\ UNCHANGED slot
    /\ UNCHANGED <<pool, task, ready, late, mpc, history>>

SendAccepted(t) ==
    /\ slot' = [slot EXCEPT ![di] = "busy"]
    /\ task' = [task EXCEPT ![di] = t]
    /\ ready' = [ready EXCEPT ![di] = FALSE]
    /\ late' = [late EXCEPT ![di] = FALSE]
    /\ owner' = [owner EXCEPT ![t] = di]
    /\ NextSlot
    /\ UNCHANGED <<answer, returned, undelivered, discarded>>

(* serialize_error: no retry, the slot is still good.                      *)
SendUnserializable(t) ==
    /\ Throw("dispatch")
    /\ undelivered' = undelivered \cup {t}
    /\ UNCHANGED <<slots, owner, answer, returned, discarded>>

(* task.args = args (worker.hpp) throws after the delivery: the slot is    *)
(* idle, the exception passes through wait_one(), and nobody has the task  *)
(* but the child, whose answer belongs to no one.                          *)
SendThrows(t) ==
    /\ Throw("args")
    /\ undelivered' = undelivered \cup {t}
    /\ UNCHANGED <<slots, owner, answer, returned, discarded>>

(* timeout, disconnected, io_error: send() has shut the child down.        *)
SendPoisoned(t, n) ==
    /\ slot' = [slot EXCEPT ![di] = "stopped"]
    /\ cpc' = "redeliver" /\ item' = t /\ tries' = n + 1
    /\ UNCHANGED <<task, ready, late, di, error, history>>

DispatchSend ==
    /\ Dispatching("idle")
    /\ pending' = Tail(pending)
    /\ LET t == Head(pending).id
           n == Head(pending).attempts
       IN  \/ SendAccepted(t) \/ SendUnserializable(t) \/ SendThrows(t)
           \/ SendPoisoned(t, n)
    /\ UNCHANGED <<pstate, nextId, finished, mpc>>

(* Mutant: an item whose slot could not be respawned goes back and is thrown. *)
Redeliver_KeepsItem ==
    /\ cpc = "redeliver"
    /\ pending' = Append(pending, [id |-> item, attempts |-> 0])
    /\ \/ slot' = [slot EXCEPT ![di] = "idle"] /\ NextSlot /\ UNCHANGED undelivered
       \/ Throw("dispatch") /\ undelivered' = undelivered \cup {item} /\ UNCHANGED slot
    /\ UNCHANGED <<pstate, nextId, finished, task, ready, late, mpc,
                   owner, answer, returned, discarded>>

(* Mutant: one attempt too many. *)
Redeliver_OffByOne ==
    /\ cpc = "redeliver"
    /\ slot' = [slot EXCEPT ![di] = "idle"]
    /\ tries <= MaxAttempts
    /\ pending' = Append(pending, [id |-> item, attempts |-> tries])
    /\ NextSlot
    /\ UNCHANGED <<pstate, nextId, finished, task, ready, late, mpc, history>>

(* respawn_if_needed(), then back to the end of the queue within the budget *)
Redeliver ==
    /\ cpc = "redeliver"
    /\ \/ /\ slot' = [slot EXCEPT ![di] = "idle"]
          /\ tries < MaxAttempts
          /\ pending' = Append(pending, [id |-> item, attempts |-> tries])
          /\ NextSlot
          /\ UNCHANGED undelivered
       \/ /\ \/ slot' = [slot EXCEPT ![di] = "idle"] /\ tries >= MaxAttempts
             \/ UNCHANGED slot                     \* the respawn itself failed
          /\ Throw("dispatch")
          /\ undelivered' = undelivered \cup {item}
          /\ UNCHANGED pending
    /\ UNCHANGED <<pstate, nextId, finished, task, ready, late, mpc,
                   owner, answer, returned, discarded>>

(* Mutant: a task whose child died is queued for another execution. *)
Collect_Retries(w, s) ==
    /\ slot' = [slot EXCEPT ![w] = IF KeepsChild(s) THEN "idle" ELSE "stopped"]
    /\ task' = [task EXCEPT ![w] = NoId]
    /\ ready' = [ready EXCEPT ![w] = FALSE]
    /\ late' = [late EXCEPT ![w] = FALSE]
    /\ IF s = "crash"
       THEN /\ pending' = Append(pending, [id |-> task[w], attempts |-> 0])
            /\ Goto("loop")
            /\ UNCHANGED <<answer, finished>>
       ELSE /\ answer' = [answer EXCEPT ![task[w]] = s]
            /\ finished' = finished + 1
            /\ cpc' = "respawn" /\ di' = w /\ item' = task[w]
            /\ UNCHANGED <<tries, error, pending>>
    /\ UNCHANGED <<pstate, nextId, mpc, owner, returned, undelivered, discarded>>

(* Mutant: a slot whose child is gone is marked reusable. *)
Collect_KeepsSlot(w, s) ==
    /\ answer' = [answer EXCEPT ![task[w]] = s]
    /\ finished' = finished + 1
    /\ slot' = [slot EXCEPT ![w] = "idle"]
    /\ task' = [task EXCEPT ![w] = NoId]
    /\ ready' = [ready EXCEPT ![w] = FALSE]
    /\ late' = [late EXCEPT ![w] = FALSE]
    /\ cpc' = "respawn" /\ di' = w /\ item' = task[w]
    /\ UNCHANGED <<tries, error, pstate, pending, nextId, mpc,
                   owner, returned, undelivered, discarded>>

(* A slot produced an answer; respawn_if_needed() comes next.              *)
Collect(w, s) ==
    /\ answer' = [answer EXCEPT ![task[w]] = s]
    /\ finished' = finished + 1
    /\ slot' = [slot EXCEPT ![w] = IF KeepsChild(s) THEN "idle" ELSE "stopped"]
    /\ task' = [task EXCEPT ![w] = NoId]
    /\ ready' = [ready EXCEPT ![w] = FALSE]
    /\ late' = [late EXCEPT ![w] = FALSE]
    /\ cpc' = "respawn" /\ di' = w /\ item' = task[w]
    /\ UNCHANGED <<tries, error, pstate, pending, nextId, mpc,
                   owner, returned, undelivered, discarded>>

(* collect_expired_task(): the first slot past its deadline with nothing   *)
(* to read; the others wait for the next pass.                             *)
Expired == {w \in Workers : Busy(w) /\ late[w] /\ ~ready[w]}

CollectExpired ==
    /\ cpc = "expire"
    /\ IF pstate = "stopped"
       THEN Throw("stopped") /\ UNCHANGED <<pool, slots, mpc, history>>
       ELSE IF Expired # {}
            THEN Collect(Least(Expired), "timeout")
            ELSE Goto("work") /\ UNCHANGED <<pool, slots, mpc, history>>

(* respawn_if_needed(), then wait_one() returns; when spawning fails       *)
(* dispatch_error replaces the result.                                     *)
Respawn ==
    /\ cpc = "respawn"
    /\ \/ /\ slot' = [slot EXCEPT ![di] = "idle"]
          /\ cpc' = "outside" /\ item' = NoId
          /\ returned' = returned \cup {item}
          /\ UNCHANGED <<di, tries, error>>
       \/ /\ slot[di] = "stopped"
          /\ Throw("dispatch")
          /\ UNCHANGED <<slot, returned>>
    /\ UNCHANGED <<pool, task, ready, late, mpc, owner, answer, undelivered, discarded>>

CheckWork ==
    /\ cpc = "work"
    /\ IF HasWork THEN Goto("poll")
       ELSE IF pstate = "finishing" THEN Throw("drained")
       ELSE Goto("cvcheck")
    /\ UNCHANGED <<pool, slots, mpc, history>>

(* m_pending_cv.wait(): the predicate is evaluated under m_pending_mutex,  *)
(* which is given up only by the step that falls asleep.                   *)
CvCheck ==
    /\ cpc = "cvcheck"
    /\ IF pending # <<>> \/ pstate # "accepting" THEN Goto("loop") ELSE Goto("cvblock")
    /\ UNCHANGED <<pool, slots, mpc, history>>

CvBlock ==
    /\ cpc = "cvblock"
    /\ Goto("asleep")
    /\ UNCHANGED <<pool, slots, mpc, history>>

SpuriousWake ==
    /\ cpc = "asleep"
    /\ Goto("cvcheck")
    /\ UNCHANGED <<pool, slots, mpc, history>>

(* Nothing to poll: sleep without the lock and go round.                   *)
Poll ==
    /\ cpc = "poll"
    /\ IF pstate = "stopped" THEN Throw("stopped")
       ELSE IF \E w \in Workers : Busy(w) THEN Goto("polling")
       ELSE Goto("loop")
    /\ UNCHANGED <<pool, slots, mpc, history>>

(* poll() holds m_workers_mutex while it waits.  Of several readable slots *)
(* only the first is served.                                               *)
ReadySlots == {w \in Workers : Busy(w) /\ ready[w]}

CollectEvent ==
    /\ cpc = "polling" /\ ReadySlots # {}
    /\ \E s \in ReceiveStatus : Collect(Least(ReadySlots), s)

PollTimeout ==
    /\ cpc = "polling" /\ ReadySlots = {}
    /\ Goto("loop")
    /\ UNCHANGED <<pool, slots, mpc, history>>

(* poll() fails, or receive() throws over its copy of the task.            *)
PollFails ==
    /\ cpc = "polling"
    /\ Throw("poll")
    /\ UNCHANGED <<pool, slots, mpc, history>>

-----------------------------------------------------------------------------
InWaitOne ==
    \/ Loop \/ LockForDispatch
    \/ DispatchEnds \/ DispatchSkip \/ DispatchSpawn \/ DispatchSend \/ Redeliver
    \/ CollectExpired \/ Respawn
    \/ CheckWork \/ CvCheck \/ CvBlock
    \/ Poll \/ CollectEvent \/ PollTimeout \/ PollFails

InClientCall == StopWorkers \/ Notify

Environment ==
    \/ \E w \in Workers : ChildEvent(w) \/ DeadlinePasses(w)
    \/ SpuriousWake

Next ==
    \/ InWaitOne \/ WaitOne
    \/ InClientCall \/ Submit \/ Stop \/ StopImmediately
    \/ Environment

Spec == Init /\ [][Next]_vars

(* The consumer is inside worker::send(), with both mutexes.  That call    *)
(* ends if the request fits into the socket or the child reads or dies     *)
(* (Worker, MethodsReturn), so nothing obliges it to end.                  *)
Sending == Dispatching("idle")

(* The threads run; a mutex is taken by a thread for which it stays free.  *)
(* Nothing is promised to a thread that finds it free now and then.        *)
FairSpec == Spec /\ WF_vars(InWaitOne /\ ~Sending) /\ WF_vars(InClientCall)

-----------------------------------------------------------------------------
(* Properties *)

TypeOK ==
    /\ pstate \in {"accepting", "finishing", "stopped"}
    /\ pending \in Seq([id : Ids, attempts : 0..(MaxAttempts - 1)])
    /\ nextId \in 1..(MaxTasks + 1) /\ finished \in Nat
    /\ slot \in [Workers -> {"stopped", "idle", "busy"}]
    /\ task \in [Workers -> Ids \cup {NoId}]
    /\ ready \in [Workers -> BOOLEAN] /\ late \in [Workers -> BOOLEAN]
    /\ cpc \in {"outside", "loop", "lock_both", "dispatch", "redeliver", "expire",
                "respawn", "work", "cvcheck", "cvblock", "asleep", "poll", "polling"}
    /\ di \in 1..(NumWorkers + 1)
    /\ item \in Ids \cup {NoId} /\ tries \in 0..MaxAttempts
    /\ error \in {"none", "stopped", "drained", "dispatch", "args", "poll"}
    /\ mpc \in {"outside", "notify_one", "notify_all", "stop_workers"}
    /\ owner \in [Ids -> Workers \cup {0}]
    /\ answer \in [Ids -> ReceiveStatus \cup {"timeout", "none"}]
    /\ returned \subseteq Ids /\ undelivered \subseteq Ids /\ discarded \subseteq Ids

(* Results that were produced and then replaced by an exception.           *)
Lost == {t \in Ids : answer[t] # "none"} \ (returned \cup {item})

(* Every submitted task is in exactly one place: once in the queue, in one *)
(* slot, in the hands of wait_one(), or in one of its four final fates,    *)
(* through every order of requeues, respawns, exceptions and shutdowns.    *)
Places(t) ==
    {<<"queue", i>> : i \in {i \in DOMAIN pending : pending[i].id = t}}
    \cup {<<"slot", w>> : w \in {w \in Workers : task[w] = t}}
    \cup (IF item = t THEN {<<"item", 0>>} ELSE {})
    \cup (IF t \in returned THEN {<<"returned", 0>>} ELSE {})
    \cup (IF t \in Lost THEN {<<"lost", 0>>} ELSE {})
    \cup (IF t \in undelivered THEN {<<"undelivered", 0>>} ELSE {})
    \cup (IF t \in discarded THEN {<<"discarded", 0>>} ELSE {})

Conservation == \A t \in Submitted : Cardinality(Places(t)) = 1

(* Once stop_immediately() has stopped the slots, no wait_one() that was   *)
(* under way brings a child back: no process outlives the shutdown.        *)
NoRespawnAfterShutdown ==
    pstate = "stopped" /\ mpc # "stop_workers" =>
        /\ \A w \in Workers : slot[w] = "stopped"
        /\ pending = <<>>

(* wait_one() reports a drained pool only when every accepted task has had *)
(* its result returned (pool_state: "so wait_one() can drain results"), or *)
(* was the subject of the exception of an earlier call.                    *)
DrainedMeansReturned ==
    error = "drained" => Submitted \ (discarded \cup undelivered \cup Lost) \subseteq returned

(* stop_immediately() and the notifications return however unfair the      *)
(* mutexes are, whatever the children do: the waiting loop sees the state  *)
(* that was stored before the locks were asked for.  The one thing that can *)
(* keep them out for ever is a send() that never ends.                     *)
ClientCallsReturn == []<>(mpc = "outside") \/ <>[]Sending

(* The pool implements TaskLedger.                                         *)
Fate(t) ==
    CASE t \notin Submitted             -> "new"
      [] t \in discarded                -> "discarded"
      [] t \in undelivered              -> "undelivered"
      [] t \in returned                 -> "returned"
      [] t \in Lost                     -> "lost"
      [] answer[t] # "none" /\ item = t -> "answered"
      [] InFlight(t)                    -> "inflight"
      [] OTHER                          -> "queued"

Ledger == INSTANCE TaskLedger WITH
    Tasks <- Ids,
    fate  <- [t \in Ids |-> Fate(t)]

ImplementsLedger == Ledger!LSpec

(* Every slot only makes the steps WorkerContract allows: the pool model   *)
(* uses no power that Worker does not have.                                *)
Slot(w) == INSTANCE WorkerContract WITH
    Tasks  <- Ids,
    NoTask <- NoId,
    slot   <- slot[w],
    task   <- task[w],
    taken  <- {t \in Ids : owner[t] = w},
    answer <- [t \in Ids |-> IF owner[t] = w THEN answer[t] ELSE "none"]

SlotsKeepContract == [][\A w \in Workers : Slot(w)!CNext \/ UNCHANGED Slot(w)!cvars]_vars
=============================================================================
