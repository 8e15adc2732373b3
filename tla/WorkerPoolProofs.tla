-------------------------- MODULE WorkerPoolProofs --------------------------
(***************************************************************************)
(* Theorems about WorkerPool, for every number of slots, tasks and delivery *)
(* attempts, and after them about IsolatedRun, the run that drives it: its  *)
(* proofs reuse the lemmas of the pool.                                     *)
(***************************************************************************)
EXTENDS IsolatedRun, SequenceTheorems, FiniteSetTheorems, WellFoundedInduction, TLAPS

Records == [id : Ids, attempts : 0..(MaxAttempts - 1)]

(* A slot has a task exactly while it is busy, and wait_one() has a task in *)
(* its hands exactly between taking and passing it on.                      *)
Shapes ==
    /\ \A w \in Workers : Busy(w) <=> task[w] # NoId
    /\ item # NoId <=> cpc \in {"redeliver", "respawn"}
    /\ cpc \in {"redeliver", "respawn"} => di \in Workers /\ ~Busy(di)
    /\ cpc = "redeliver" => slot[di] = "stopped"

TypeInv == TypeOK /\ Shapes

(* After stop_immediately() nobody is left who could bring a child back:    *)
(* whoever held a mutex had to let it go before the slots were stopped, and *)
(* looks at the state again before the next one is taken.                   *)
ShutInv ==
    pstate = "stopped" /\ mpc # "stop_workers" =>
        /\ \A w \in Workers : slot[w] = "stopped"
        /\ pending = <<>>
        /\ ~PendingLocked /\ ~WorkersLocked

(* The places of a task: *)
IdsOf(q)    == {q[i].id : i \in DOMAIN q}
Distinct(q) == \A i, j \in DOMAIN q : q[i].id = q[j].id => i = j

Queued   == IdsOf(pending)
Running  == {task[w] : w \in Workers} \ {NoId}
InHands  == {item} \ {NoId}
Answered == {t \in Ids : answer[t] # "none"}

OneSlotEach == \A v, w \in Workers : task[v] = task[w] /\ task[v] # NoId => v = w

(* S is split into the queue Q, the slots R, the hands H of wait_one(), the *)
(* answers A and the final fates U and D; an answer may still be in hand.   *)
Split(S, Q, R, H, A, U, D) ==
    /\ S = Q \cup R \cup H \cup A \cup U \cup D
    /\ Q \cap (R \cup H \cup A \cup U \cup D) = {}
    /\ R \cap (H \cup A \cup U \cup D) = {}
    /\ (H \cup A) \cap (U \cup D) = {}
    /\ U \cap D = {}

(* All and only the submitted tasks are somewhere, none is anywhere twice,  *)
(* and a result is in hand until it is returned or lost.                    *)
HomeInv ==
    /\ Split(Submitted, Queued, Running, InHands, Answered, undelivered, discarded)
    /\ Distinct(pending)
    /\ OneSlotEach
    /\ returned \subseteq Answered \ InHands
    /\ cpc = "redeliver" => item \notin Answered
    /\ cpc = "respawn" => item \in Answered

(* A drained pool stays drained until the next call.                        *)
DrainInv ==
    error = "drained" => cpc = "outside" /\ pstate # "accepting" /\ ~HasWork

-----------------------------------------------------------------------------
(* Lemmas about the operators of the model                                 *)

LEMMA IdsAreIds == ASSUME NEW q \in Seq(Records) PROVE IdsOf(q) \subseteq Ids
  <1>1. \A i \in DOMAIN q : q[i] \in Records
    BY ElementOfSeq, LenProperties
  <1> QED
    BY <1>1 DEF IdsOf, Records

(* What Append does to the tasks of a queue.                               *)
LEMMA AppendIds ==
    ASSUME NEW q \in Seq(Records), NEW r \in Records
    PROVE  /\ Append(q, r) \in Seq(Records) /\ Append(q, r) # <<>>
           /\ IdsOf(Append(q, r)) = IdsOf(q) \cup {r.id}
           /\ Distinct(q) /\ r.id \notin IdsOf(q) => Distinct(Append(q, r))
  <1> DEFINE a == Append(q, r)
  <1>1. /\ a \in Seq(Records) /\ a # <<>>
        /\ DOMAIN q = 1..Len(q) /\ DOMAIN a = 1..(Len(q) + 1) /\ Len(q) \in Nat
        /\ \A i \in 1..Len(q) : a[i] = q[i]
        /\ a[Len(q) + 1] = r
    BY AppendProperties, LenProperties
  <1>2. DOMAIN a = DOMAIN q \cup {Len(q) + 1} /\ Len(q) + 1 \notin DOMAIN q
    BY <1>1
  <1> HIDE DEF a
  <1>3. IdsOf(a) = IdsOf(q) \cup {r.id}
    BY <1>1, <1>2 DEF IdsOf
  <1>4. Distinct(q) /\ r.id \notin IdsOf(q) => Distinct(a)
    BY <1>1, <1>2 DEF IdsOf, Distinct
  <1> QED
    BY <1>1, <1>3, <1>4 DEF a

(* What taking the head does to the tasks of a queue.                      *)
LEMMA TailIds ==
    ASSUME NEW q \in Seq(Records), q # <<>>
    PROVE  /\ Head(q) \in Records /\ Tail(q) \in Seq(Records)
           /\ IdsOf(q) = IdsOf(Tail(q)) \cup {Head(q).id}
           /\ Distinct(q) => Distinct(Tail(q)) /\ Head(q).id \notin IdsOf(Tail(q))
  <1> DEFINE r == Tail(q)
  <1>1. /\ Head(q) \in Records /\ r \in Seq(Records)
        /\ DOMAIN q = 1..Len(q) /\ DOMAIN r = 1..(Len(q) - 1) /\ Len(q) \in Nat \ {0}
        /\ \A i \in 1..(Len(q) - 1) : r[i] = q[i + 1]
        /\ Head(q) = q[1]
    BY HeadTailProperties, LenProperties, EmptySeq
  <1> HIDE DEF r
  <1>2. /\ \A i \in DOMAIN r : i \in Nat /\ i + 1 \in DOMAIN q /\ i + 1 # 1 /\ r[i] = q[i + 1]
        /\ 1 \in DOMAIN q
        /\ \A j \in DOMAIN q : j # 1 => j - 1 \in DOMAIN r /\ r[j - 1] = q[j]
    BY <1>1
  <1>3. IdsOf(q) = IdsOf(r) \cup {Head(q).id}
    <2>1. ASSUME NEW x \in IdsOf(q) PROVE x \in IdsOf(r) \cup {Head(q).id}
      BY <1>1, <1>2 DEF IdsOf
    <2>2. ASSUME NEW i \in DOMAIN r PROVE r[i].id \in IdsOf(q)
      <3>1. i + 1 \in DOMAIN q /\ r[i] = q[i + 1]
        BY <1>2
      <3> QED
        BY <3>1 DEF IdsOf
    <2>3. Head(q).id \in IdsOf(q)
      BY <1>1, <1>2 DEF IdsOf
    <2> QED
      BY <2>1, <2>2, <2>3 DEF IdsOf
  <1>4. ASSUME Distinct(q) PROVE Distinct(r) /\ Head(q).id \notin IdsOf(r)
    <2>1. ASSUME NEW i \in DOMAIN r, NEW j \in DOMAIN r, r[i].id = r[j].id PROVE i = j
      <3>1. i + 1 \in DOMAIN q /\ j + 1 \in DOMAIN q /\ q[i + 1].id = q[j + 1].id
        BY <1>2, <2>1
      <3>2. i + 1 = j + 1 /\ i \in Nat /\ j \in Nat
        BY <1>2, <1>4, <3>1 DEF Distinct
      <3> QED
        BY <3>2
    <2>2. ASSUME NEW i \in DOMAIN r PROVE r[i].id # Head(q).id
      <3>1. i + 1 \in DOMAIN q /\ i + 1 # 1 /\ r[i] = q[i + 1] /\ 1 \in DOMAIN q /\ Head(q) = q[1]
        BY <1>1, <1>2
      <3> QED
        BY <1>4, <3>1 DEF Distinct
    <2> QED
      BY <2>1, <2>2 DEF IdsOf, Distinct
  <1> QED
    BY <1>1, <1>3, <1>4 DEF r

(* The slot that is served is one of the candidates.                       *)
LEMMA LeastIn ==
    ASSUME NEW S \in SUBSET Workers, S # {}
    PROVE  Least(S) \in S
  <1>1. S \subseteq Nat
    BY DEF Workers
  <1>2. PICK n \in S : \A m \in S : <<m, n>> \notin OpToRel(<, Nat)
    BY <1>1, NatLessThanWellFounded, WFMin
  <1>3. ASSUME NEW m \in S, m < n PROVE FALSE
    <2>1. <<m, n>> \in Nat \X Nat /\ <<m, n>>[1] < <<m, n>>[2]
      BY <1>1, <1>3
    <2>2. <<m, n>> \in OpToRel(<, Nat)
      BY <2>1, Zenon DEF OpToRel
    <2> QED
      BY <1>2, <2>2
  <1>4. \A m \in S : n <= m
    BY <1>1, <1>3
  <1> QED
    BY <1>4 DEF Least

LEMMA LeastCandidates ==
    /\ Expired # {} => Least(Expired) \in Workers /\ Busy(Least(Expired))
    /\ ReadySlots # {} => Least(ReadySlots) \in Workers /\ Busy(Least(ReadySlots))
  <1>1. Expired \in SUBSET Workers /\ ReadySlots \in SUBSET Workers
    BY DEF Expired, ReadySlots
  <1>2. /\ Expired # {} => Least(Expired) \in Expired
        /\ ReadySlots # {} => Least(ReadySlots) \in ReadySlots
    BY <1>1, LeastIn
  <1> QED
    BY <1>2 DEF Expired, ReadySlots

-----------------------------------------------------------------------------
(* The type invariant                                                      *)

LEMMA TypeInit == ASSUME Init PROVE TypeInv
  <1> USE PoolAssumption DEF Init, Workers, Ids, NoId
  <1>1. pending \in Seq(Records)
    BY EmptySeq
  <1>2. ready \in [Workers -> BOOLEAN] /\ late \in [Workers -> BOOLEAN]
    BY Zenon
  <1>3. TypeOK
    BY <1>1, <1>2 DEF TypeOK, Records, ReceiveStatus
  <1> QED
    BY <1>3 DEF TypeInv, Shapes, Busy

(* An answer leaves the slot without a task and puts the task in hand.     *)
LEMMA TypeCollect ==
    ASSUME TypeInv, NEW w \in Workers, Busy(w),
           NEW s \in ReceiveStatus \cup {"timeout"}, Collect(w, s)
    PROVE  TypeInv'
  <1> USE PoolAssumption DEF TypeInv, TypeOK, Shapes, Busy, Collect, Workers, NoId
  <1>1. task[w] \in Ids
    OBVIOUS
  <1>2. answer' \in [Ids -> ReceiveStatus \cup {"timeout", "none"}]
    BY <1>1
  <1>3. slot' \in [Workers -> {"stopped", "idle", "busy"}] /\ task' \in [Workers -> Ids \cup {NoId}]
    OBVIOUS
  <1>4. ready' \in [Workers -> BOOLEAN] /\ late' \in [Workers -> BOOLEAN]
    BY Zenon
  <1>5. TypeOK'
    BY <1>1, <1>2, <1>3, <1>4 DEF Ids
  <1>6. Shapes'
    BY <1>1, <1>3 DEF Ids
  <1> QED
    BY <1>5, <1>6

LEMMA TypeStep == ASSUME TypeInv, [Next]_vars PROVE TypeInv'
  <1> USE PoolAssumption DEF TypeInv, TypeOK, Shapes, Busy, NoId, pool, slots, consumer, history
  <1>1. ASSUME NEW w \in Workers, ChildEvent(w) PROVE TypeInv'
    <2>1. ready' \in [Workers -> BOOLEAN]
      BY <1>1, Zenon DEF ChildEvent
    <2> QED
      BY <1>1, <2>1 DEF ChildEvent
  <1>2. ASSUME NEW w \in Workers, DeadlinePasses(w) PROVE TypeInv'
    <2>1. late' \in [Workers -> BOOLEAN]
      BY <1>2, Zenon DEF DeadlinePasses
    <2> QED
      BY <1>2, <2>1 DEF DeadlinePasses
  <1>3. CASE Submit
    <2>1. [id |-> nextId, attempts |-> 0] \in Records /\ pending \in Seq(Records)
      BY <1>3 DEF Submit, Records
    <2>2. pending' \in Seq(Records)
      BY <1>3, <2>1, AppendIds DEF Submit
    <2>3. nextId' \in 1..(MaxTasks + 1)
      BY <1>3 DEF Submit, Ids
    <2> QED
      BY <1>3, <2>2, <2>3 DEF Submit, Records
  <1>4. CASE Stop
    BY <1>4 DEF Stop
  <1>5. CASE StopImmediately
    BY <1>5 DEF StopImmediately
  <1>6. CASE StopWorkers
    <2>1. pending' \in Seq(Records)
      BY <1>6, EmptySeq DEF StopWorkers
    <2>2. ready' \in [Workers -> BOOLEAN] /\ late' \in [Workers -> BOOLEAN]
      BY <1>6, Zenon DEF StopWorkers
    <2>3. cpc \notin {"redeliver", "respawn"}
      BY <1>6 DEF StopWorkers, WorkersLocked, InDispatch
    <2> QED
      BY <1>6, <2>1, <2>2, <2>3 DEF StopWorkers, Records
  <1>7. CASE Notify
    BY <1>7 DEF Notify
  <1>8. CASE WaitOne
    BY <1>8 DEF WaitOne
  <1>9. CASE Loop
    BY <1>9 DEF Loop, Throw, Goto
  <1>10. CASE LockForDispatch
    BY <1>10 DEF LockForDispatch, Throw
  <1>11. CASE DispatchEnds
    BY <1>11 DEF DispatchEnds, Goto
  <1>12. CASE DispatchSkip
    BY <1>12 DEF DispatchSkip, Dispatching, NextSlot, Workers
  <1>13. CASE DispatchSpawn
    BY <1>13 DEF DispatchSpawn, Dispatching, Throw
  <1>14. CASE DispatchSend
    <2> DEFINE t == Head(pending).id
               n == Head(pending).attempts
    <2>0. /\ Head(pending) \in Records /\ Tail(pending) \in Seq(Records)
          /\ pending' = Tail(pending)
      <3>1. pending \in Seq(Records) /\ pending # <<>> /\ pending' = Tail(pending)
        BY <1>14 DEF DispatchSend, Dispatching, Records
      <3> QED
        BY <3>1, TailIds
    <2>1. /\ t \in Ids /\ t # NoId /\ n \in 0..(MaxAttempts - 1)
          /\ pending' \in Seq(Records)
      BY <2>0 DEF Records, Ids
    <2>2. di \in Workers /\ ~Busy(di) /\ cpc = "dispatch"
      BY <1>14 DEF DispatchSend, Dispatching
    <2> HIDE DEF t, n
    <2>3. CASE SendAccepted(t)
      <3>1. ready' \in [Workers -> BOOLEAN] /\ late' \in [Workers -> BOOLEAN]
        BY <2>3, Zenon DEF SendAccepted
      <3> QED
        BY <1>14, <2>1, <2>2, <2>3, <3>1 DEF DispatchSend, SendAccepted, NextSlot, Records, Workers
    <2>4. CASE SendUnserializable(t)
      BY <1>14, <2>1, <2>2, <2>4 DEF DispatchSend, SendUnserializable, Throw, Records
    <2>6. CASE SendThrows(t)
      BY <1>14, <2>1, <2>2, <2>6 DEF DispatchSend, SendThrows, Throw, Records
    <2>5. CASE SendPoisoned(t, n)
      BY <1>14, <2>1, <2>2, <2>5 DEF DispatchSend, SendPoisoned, Records
    <2> QED
      BY <1>14, <2>3, <2>4, <2>5, <2>6 DEF DispatchSend, t, n
  <1>15. CASE Redeliver
    <2>1. di \in Workers /\ ~Busy(di) /\ item \in Ids /\ cpc = "redeliver"
      BY <1>15 DEF Redeliver
    <2>2. CASE tries < MaxAttempts /\ pending' = Append(pending, [id |-> item, attempts |-> tries])
      <3>1. [id |-> item, attempts |-> tries] \in Records /\ pending \in Seq(Records)
        BY <2>1, <2>2 DEF Records
      <3>2. pending' \in Seq(Records)
        BY <2>2, <3>1, AppendIds
      <3>3. CASE NextSlot /\ UNCHANGED undelivered /\ slot' = [slot EXCEPT ![di] = "idle"]
        BY <1>15, <2>1, <3>2, <3>3 DEF Redeliver, NextSlot, Records, Workers
      <3>4. CASE Throw("dispatch") /\ undelivered' = undelivered \cup {item}
                 /\ (slot' = [slot EXCEPT ![di] = "idle"] \/ UNCHANGED slot)
        BY <1>15, <2>1, <3>2, <3>4 DEF Redeliver, Throw, Records, Workers
      <3> QED
        BY <1>15, <3>3, <3>4 DEF Redeliver
    <2>3. CASE /\ Throw("dispatch") /\ undelivered' = undelivered \cup {item} /\ UNCHANGED pending
               /\ slot' = [slot EXCEPT ![di] = "idle"] \/ UNCHANGED slot
      BY <1>15, <2>1, <2>3 DEF Redeliver, Throw, Workers
    <2> QED
      BY <1>15, <2>2, <2>3 DEF Redeliver
  <1>16. CASE CollectExpired
    <2>1. CASE pstate # "stopped" /\ Expired # {}
      <3>1. Least(Expired) \in Workers /\ Busy(Least(Expired))
        BY <2>1, LeastCandidates
      <3> QED
        BY <1>16, <2>1, <3>1, TypeCollect DEF CollectExpired
    <2>2. CASE ~(pstate # "stopped" /\ Expired # {})
      BY <1>16, <2>2 DEF CollectExpired, Throw, Goto
    <2> QED
      BY <2>1, <2>2
  <1>17. CASE Respawn
    BY <1>17 DEF Respawn, Throw
  <1>18. CASE CheckWork
    BY <1>18 DEF CheckWork, Goto, Throw
  <1>19. CASE CvCheck
    BY <1>19 DEF CvCheck, Goto
  <1>20. CASE CvBlock
    BY <1>20 DEF CvBlock, Goto
  <1>21. CASE SpuriousWake
    BY <1>21 DEF SpuriousWake, Goto
  <1>22. CASE Poll
    BY <1>22 DEF Poll, Goto, Throw
  <1>23. CASE CollectEvent
    <2>1. Least(ReadySlots) \in Workers /\ Busy(Least(ReadySlots))
      BY <1>23, LeastCandidates DEF CollectEvent
    <2> QED
      BY <1>23, <2>1, TypeCollect DEF CollectEvent
  <1>24. CASE PollTimeout
    BY <1>24 DEF PollTimeout, Goto
  <1>25. CASE PollFails
    BY <1>25 DEF PollFails, Throw
  <1>26. CASE UNCHANGED vars
    BY <1>26 DEF vars
  <1> QED
    BY <1>1, <1>2, <1>3, <1>4, <1>5, <1>6, <1>7, <1>8, <1>9, <1>10, <1>11, <1>12, <1>13,
       <1>14, <1>15, <1>16, <1>17, <1>18, <1>19, <1>20, <1>21, <1>22, <1>23, <1>24, <1>25, <1>26
       DEF Next, InWaitOne, InClientCall, Environment

(* Every variable keeps its type, and a slot or the hands of wait_one()    *)
(* hold a task exactly in the states that say so.                          *)
THEOREM PoolTypes == Spec => []TypeInv
  <1> QED
    BY TypeInit, TypeStep, PTL DEF Spec

-----------------------------------------------------------------------------
(* The shutdown                                                            *)

LEMMA ShutInit == ASSUME Init PROVE ShutInv
  BY DEF Init, ShutInv

LEMMA ShutStep == ASSUME TypeInv, ShutInv, [Next]_vars PROVE ShutInv'
  <1> DEFINE Shut == pstate = "stopped" /\ mpc # "stop_workers"
  <1> SUFFICES ASSUME Shut'
               PROVE  /\ \A w \in Workers : slot'[w] = "stopped"
                      /\ pending' = <<>>
                      /\ (~PendingLocked /\ ~WorkersLocked)'
    BY DEF ShutInv
  <1> USE DEF PendingLocked, WorkersLocked, InDispatch, pool, slots, consumer, history
  \* a step from a state that is not shut yet
  <1>1. CASE StopWorkers
    BY <1>1 DEF StopWorkers
  <1>2. CASE StopImmediately
    BY <1>2 DEF StopImmediately
  \* a step from a state that is shut already
  <1>3. ASSUME Shut
        PROVE  /\ \A w \in Workers : slot[w] = "stopped"
               /\ pending = <<>>
               /\ cpc \notin {"dispatch", "redeliver", "cvblock", "polling", "respawn"}
    BY <1>3 DEF ShutInv
  <1>4. ASSUME NEW w \in Workers, ChildEvent(w) \/ DeadlinePasses(w) PROVE FALSE
    BY <1>4, <1>3 DEF ChildEvent, DeadlinePasses, Busy
  <1>5. CASE Submit
    BY <1>5 DEF Submit
  <1>6. CASE Stop
    BY <1>6, <1>3 DEF Stop
  <1>7. CASE Notify \/ WaitOne \/ SpuriousWake
    BY <1>7, <1>3 DEF Notify, WaitOne, SpuriousWake, Goto
  <1>8. CASE Loop \/ LockForDispatch \/ CollectExpired \/ Poll
    <2>1. UNCHANGED <<pstate, mpc>>
      BY <1>8 DEF Loop, LockForDispatch, CollectExpired, Poll, Collect
    <2> QED
      BY <2>1, <1>8, <1>3 DEF Loop, LockForDispatch, CollectExpired, Poll, Throw
  <1>9. CASE CheckWork \/ CvCheck
    BY <1>9, <1>3 DEF CheckWork, CvCheck, Goto, Throw
  <1>10. CASE \/ DispatchEnds \/ DispatchSkip \/ DispatchSpawn \/ DispatchSend \/ Redeliver
              \/ Respawn \/ CvBlock \/ CollectEvent \/ PollTimeout \/ PollFails
    <2>1. cpc \in {"dispatch", "redeliver", "cvblock", "polling", "respawn"}
      BY <1>10 DEF DispatchEnds, DispatchSkip, DispatchSpawn, DispatchSend, Dispatching,
                   Redeliver, Respawn, CvBlock, CollectEvent, PollTimeout, PollFails
    <2>2. UNCHANGED <<pstate, mpc>>
      BY <1>10 DEF DispatchEnds, DispatchSkip, DispatchSpawn, DispatchSend, Redeliver, Respawn,
                   CvBlock, CollectEvent, PollTimeout, PollFails, Collect
    <2> QED
      BY <2>1, <2>2, <1>3
  <1>11. CASE UNCHANGED vars
    BY <1>11, <1>3 DEF vars
  <1> QED
    BY <1>1, <1>2, <1>4, <1>5, <1>6, <1>7, <1>8, <1>9, <1>10, <1>11
       DEF Next, InWaitOne, InClientCall, Environment

(* No wait_one() that was under way brings a child back once                *)
(* stop_immediately() has stopped the slots, and nothing is queued again.   *)
THEOREM NoChildAfterShutdown == Spec => []NoRespawnAfterShutdown
  <1>1. ShutInv => NoRespawnAfterShutdown
    BY DEF ShutInv, NoRespawnAfterShutdown
  <1> QED
    BY PoolTypes, ShutInit, ShutStep, <1>1, PTL DEF Spec

-----------------------------------------------------------------------------
(* Where a task is                                                         *)

(* A slot gets a task, or gives it up.                                     *)
LEMMA RunningPut ==
    ASSUME TypeInv, OneSlotEach, NEW w \in Workers, task[w] = NoId,
           NEW t \in Ids, t \notin Running, task' = [task EXCEPT ![w] = t]
    PROVE  Running' = Running \cup {t} /\ OneSlotEach'
  <1> USE DEF TypeInv, TypeOK, Running, OneSlotEach, Ids, NoId
  <1>1. /\ \A v \in Workers : task'[v] = IF v = w THEN t ELSE task[v]
        /\ t # NoId
    OBVIOUS
  <1> QED
    BY <1>1

LEMMA RunningTake ==
    ASSUME TypeInv, OneSlotEach, NEW w \in Workers, task[w] # NoId,
           task' = [task EXCEPT ![w] = NoId]
    PROVE  Running' = Running \ {task[w]} /\ task[w] \in Running /\ OneSlotEach'
  <1> USE DEF TypeInv, TypeOK, Running, OneSlotEach, Ids, NoId
  <1>1. \A v \in Workers : task'[v] = IF v = w THEN NoId ELSE task[v]
    OBVIOUS
  <1> QED
    BY <1>1

(* Most steps move no task.                                                *)
LEMMA HomeFrame ==
    ASSUME HomeInv,
           UNCHANGED <<pending, nextId, task, item, answer, returned, undelivered, discarded>>,
           cpc' \in {"redeliver", "respawn"} => cpc' = cpc
    PROVE  HomeInv'
  BY DEF HomeInv, Split, Submitted, Queued, IdsOf, Running, InHands, Answered, Distinct, OneSlotEach

LEMMA HomeInit == ASSUME Init PROVE HomeInv
  BY PoolAssumption
     DEF Init, HomeInv, Split, Submitted, Queued, IdsOf, Running, InHands, Answered, Distinct, OneSlotEach

(* The steps that move a task, in terms of where it is.                    *)
Enqueued ==
    /\ nextId \in Ids /\ nextId \notin Submitted
    /\ Submitted' = Submitted \cup {nextId}
    /\ Queued' = Queued \cup {nextId} /\ Distinct(pending)'
    /\ Running' = Running /\ OneSlotEach' = OneSlotEach
    /\ InHands' = InHands /\ Answered' = Answered
    /\ UNCHANGED <<undelivered, discarded, returned, cpc, item>>

LEMMA SubmitMoves ==
    ASSUME TypeInv, HomeInv, Submit
    PROVE  Enqueued
  <1>1. /\ nextId \in Ids /\ [id |-> nextId, attempts |-> 0] \in Records /\ pending \in Seq(Records)
        /\ nextId \in Nat \ {0}
    BY PoolAssumption DEF Submit, TypeInv, TypeOK, Records, Ids
  <1>2. nextId \notin Submitted /\ Submitted' = Submitted \cup {nextId}
    BY <1>1 DEF Submit, Submitted
  <1>3. Queued' = Queued \cup {nextId} /\ Distinct(pending)'
    BY <1>1, <1>2, AppendIds DEF Submit, Queued, HomeInv, Split
  <1> QED
    BY <1>1, <1>2, <1>3 DEF Submit, Running, InHands, Answered, OneSlotEach, consumer, slots, history, Enqueued

Dropped ==
    /\ Queued' = {} /\ Distinct(pending)' /\ Running' = {} /\ OneSlotEach'
    /\ discarded' = discarded \cup Queued \cup Running
    /\ InHands = {} /\ InHands' = {} /\ cpc' = cpc /\ cpc \notin {"redeliver", "respawn"}
    /\ Submitted' = Submitted /\ Answered' = Answered
    /\ UNCHANGED <<undelivered, returned>>

LEMMA StopMoves ==
    ASSUME TypeInv, HomeInv, StopWorkers
    PROVE  Dropped
  <1>1. InHands = {} /\ InHands' = {} /\ cpc' = cpc /\ cpc \notin {"redeliver", "respawn"}
    BY DEF StopWorkers, WorkersLocked, InDispatch, InHands, TypeInv, Shapes, consumer
  <1>2. Queued' = {} /\ Running' = {} /\ Distinct(pending)' /\ OneSlotEach'
    BY DEF StopWorkers, Queued, Running, IdsOf, Distinct, OneSlotEach, NoId
  <1>3. discarded' = discarded \cup Queued \cup Running
    <2>1. \A t \in Ids : InQueue(t) <=> t \in Queued
      BY DEF InQueue, Queued, IdsOf
    <2>2. \A t \in Ids : InFlight(t) <=> t \in Running
      BY DEF InFlight, Running, Ids, NoId
    <2>3. Queued \subseteq Ids
      <3>1. pending \in Seq(Records)
        BY DEF TypeInv, TypeOK, Records
      <3> QED
        BY <3>1, IdsAreIds DEF Queued
    <2>4. Running \subseteq Ids
      BY DEF Running, TypeInv, TypeOK
    <2> QED
      BY <2>1, <2>2, <2>3, <2>4 DEF StopWorkers
  <1>4. Submitted' = Submitted /\ Answered' = Answered /\ UNCHANGED <<undelivered, returned>>
    BY DEF StopWorkers, Submitted, Answered
  <1> QED
    BY <1>1, <1>2, <1>3, <1>4 DEF Dropped

(* The task at the head of the queue goes to the slot, to its fate, or into *)
(* the hands of wait_one().                                                 *)
Sent(t) ==
    /\ Queued = Queued' \cup {t} /\ t \notin Queued' /\ Distinct(pending)'
    /\ InHands = {} /\ t \notin Running
    /\ Submitted' = Submitted /\ Answered' = Answered
    /\ UNCHANGED <<returned, discarded>>
    /\ \/ /\ Running' = Running \cup {t} /\ OneSlotEach'
          /\ InHands' = {} /\ cpc' = "dispatch" /\ undelivered' = undelivered
       \/ /\ Running' = Running /\ OneSlotEach' = OneSlotEach
          /\ InHands' = {} /\ cpc' = "outside" /\ undelivered' = undelivered \cup {t}
       \/ /\ Running' = Running /\ OneSlotEach' = OneSlotEach
          /\ InHands' = {t} /\ cpc' = "redeliver" /\ item' = t
          /\ undelivered' = undelivered

LEMMA SendMoves == ASSUME TypeInv, HomeInv, DispatchSend PROVE \E t \in Ids : Sent(t)
  <1> DEFINE t == Head(pending).id
             n == Head(pending).attempts
  <1> USE DEF slots, history
  <1>1. /\ pending \in Seq(Records) /\ pending # <<>> /\ pending' = Tail(pending)
        /\ cpc = "dispatch" /\ di \in Workers /\ task[di] = NoId
    BY DEF DispatchSend, Dispatching, TypeInv, TypeOK, Shapes, Records, Busy
  <1>2. /\ Queued = Queued' \cup {t} /\ t \notin Queued' /\ Distinct(pending)'
        /\ t \in Ids /\ t # NoId
    <2>1. /\ Head(pending) \in Records /\ Distinct(pending)
          /\ IdsOf(pending) = IdsOf(Tail(pending)) \cup {t}
          /\ Distinct(Tail(pending)) /\ t \notin IdsOf(Tail(pending))
      BY <1>1, TailIds DEF HomeInv
    <2>2. t \in Ids /\ t # NoId
      BY <2>1 DEF Records, Ids, NoId
    <2> QED
      BY <1>1, <2>1, <2>2 DEF Queued
  <1>3. InHands = {} /\ t \notin Running
    BY <1>1, <1>2 DEF HomeInv, Split, InHands, TypeInv, Shapes
  <1>4. Submitted' = Submitted /\ Answered' = Answered /\ UNCHANGED <<returned, discarded>>
    BY DEF DispatchSend, SendAccepted, SendUnserializable, SendThrows, SendPoisoned, Submitted, Answered
  <1> HIDE DEF t, n
  <1>5. CASE SendAccepted(t)
    <2>1. Running' = Running \cup {t} /\ OneSlotEach'
      BY <1>1, <1>2, <1>3, <1>5, RunningPut DEF SendAccepted, HomeInv
    <2>2. InHands' = {} /\ cpc' = "dispatch" /\ undelivered' = undelivered
      BY <1>5 DEF SendAccepted, NextSlot, InHands
    <2> QED
      BY <1>2, <1>3, <1>4, <2>1, <2>2 DEF Sent
  <1>6. CASE SendUnserializable(t) \/ SendThrows(t)
    <2>1. InHands' = {} /\ cpc' = "outside" /\ undelivered' = undelivered \cup {t}
          /\ Running' = Running /\ OneSlotEach' = OneSlotEach
      BY <1>6 DEF SendUnserializable, SendThrows, Throw, InHands, Running, OneSlotEach
    <2> QED
      BY <1>2, <1>3, <1>4, <2>1 DEF Sent
  <1>7. CASE SendPoisoned(t, n)
    <2>1. InHands' = {t} /\ cpc' = "redeliver" /\ item' = t /\ undelivered' = undelivered
          /\ Running' = Running /\ OneSlotEach' = OneSlotEach
      BY <1>2, <1>7 DEF SendPoisoned, InHands, Running, OneSlotEach
    <2> QED
      BY <1>2, <1>3, <1>4, <2>1 DEF Sent
  <1> QED
    BY <1>5, <1>6, <1>7 DEF DispatchSend, t, n

Redelivered ==
    /\ item \in Ids /\ InHands = {item} /\ item \notin Answered /\ InHands' = {}
    /\ Submitted' = Submitted /\ Answered' = Answered
    /\ Running' = Running /\ OneSlotEach' = OneSlotEach
    /\ UNCHANGED <<returned, discarded>>
    /\ \/ /\ Queued' = Queued \cup {item} /\ item \notin Queued /\ Distinct(pending)'
          /\ cpc' = "dispatch" /\ undelivered' = undelivered
       \/ /\ Queued' = Queued /\ Distinct(pending)' = Distinct(pending)
          /\ cpc' = "outside" /\ undelivered' = undelivered \cup {item}

LEMMA RedeliverMoves ==
    ASSUME TypeInv, HomeInv, Redeliver
    PROVE  Redelivered
  <1>1. /\ cpc = "redeliver" /\ item \in Ids /\ item # NoId /\ InHands = {item}
        /\ item \notin Answered
    BY DEF Redeliver, HomeInv, InHands, TypeInv, TypeOK, Shapes
  <1>2. /\ Submitted' = Submitted /\ Answered' = Answered /\ Running' = Running
        /\ OneSlotEach' = OneSlotEach /\ UNCHANGED <<returned, discarded>>
    BY DEF Redeliver, Submitted, Answered, Running, OneSlotEach
  <1>3. CASE /\ tries < MaxAttempts /\ NextSlot /\ UNCHANGED undelivered
             /\ pending' = Append(pending, [id |-> item, attempts |-> tries])
    <2>1. [id |-> item, attempts |-> tries] \in Records /\ pending \in Seq(Records)
      BY <1>1, <1>3, PoolAssumption DEF Records, TypeInv, TypeOK
    <2>2. item \notin Queued
      BY <1>1 DEF HomeInv, Split
    <2>3. Queued' = Queued \cup {item} /\ Distinct(pending)'
      BY <1>3, <2>1, <2>2, AppendIds DEF Queued, HomeInv
    <2>4. InHands' = {} /\ cpc' = "dispatch"
      BY <1>3 DEF NextSlot, InHands
    <2> QED
      BY <1>1, <1>2, <1>3, <2>2, <2>3, <2>4 DEF Redelivered
  <1>4. CASE Throw("dispatch") /\ undelivered' = undelivered \cup {item} /\ UNCHANGED pending
    <2>1. InHands' = {} /\ cpc' = "outside" /\ Queued' = Queued /\ Distinct(pending)' = Distinct(pending)
      BY <1>4 DEF Throw, InHands, Queued
    <2> QED
      BY <1>1, <1>2, <1>4, <2>1 DEF Redelivered
  <1> QED
    BY <1>3, <1>4 DEF Redeliver

Collected(t) ==
    /\ t \in Ids /\ t \in Running
    /\ Running' = Running \ {t} /\ OneSlotEach'
    /\ Answered' = Answered \cup {t}
    /\ InHands = {} /\ InHands' = {t} /\ cpc' = "respawn" /\ item' = t
    /\ Queued' = Queued /\ Submitted' = Submitted /\ Distinct(pending)' = Distinct(pending)
    /\ UNCHANGED <<undelivered, discarded, returned>>

LEMMA CollectMoves ==
    ASSUME TypeInv, HomeInv, NEW w \in Workers, Busy(w),
           NEW s \in ReceiveStatus \cup {"timeout"}, Collect(w, s), cpc \notin {"redeliver", "respawn"}
    PROVE  Collected(task[w])
  <1>1. task[w] \in Ids /\ task[w] # NoId /\ item = NoId
    BY DEF TypeInv, TypeOK, Shapes
  <1>2. Running' = Running \ {task[w]} /\ task[w] \in Running /\ OneSlotEach'
    BY <1>1, RunningTake DEF HomeInv, Collect
  <1>3. Answered' = Answered \cup {task[w]}
    BY <1>1 DEF TypeInv, TypeOK, Collect, Answered, ReceiveStatus
  <1>4. InHands = {} /\ InHands' = {task[w]} /\ cpc' = "respawn" /\ item' = task[w]
    BY <1>1 DEF InHands, Collect
  <1>5. Queued' = Queued /\ Submitted' = Submitted /\ Distinct(pending)' = Distinct(pending)
        /\ UNCHANGED <<undelivered, discarded, returned>>
    BY DEF Collect, Queued, Submitted
  <1> QED
    BY <1>1, <1>2, <1>3, <1>4, <1>5 DEF Collected

HandedOver ==
    /\ item \in Ids /\ InHands = {item} /\ item \in Answered
    /\ InHands' = {} /\ cpc' = "outside"
    /\ returned' \in {returned, returned \cup {item}}
    /\ Submitted' = Submitted /\ Answered' = Answered /\ Running' = Running /\ Queued' = Queued
    /\ OneSlotEach' = OneSlotEach /\ Distinct(pending)' = Distinct(pending)
    /\ UNCHANGED <<undelivered, discarded>>

LEMMA RespawnMoves ==
    ASSUME TypeInv, HomeInv, Respawn
    PROVE  HandedOver
  <1>1. item \in Ids /\ InHands = {item} /\ item \in Answered
    BY DEF Respawn, HomeInv, InHands, TypeInv, TypeOK, Shapes
  <1> QED
    BY <1>1 DEF Respawn, Throw, Submitted, Answered, Running, OneSlotEach, Queued, InHands, pool, HandedOver

(* Every step makes one of these moves or none.                            *)
LEMMA TaskMoves ==
    ASSUME TypeInv, HomeInv, [Next]_vars
    PROVE  \/ Enqueued \/ Dropped \/ Redelivered \/ HandedOver
           \/ \E t \in Ids : Sent(t) \/ Collected(t)
           \/ /\ UNCHANGED <<pending, nextId, task, item, answer, returned, undelivered, discarded>>
              /\ cpc' \in {"redeliver", "respawn"} => cpc' = cpc
  <1> DEFINE Still == /\ UNCHANGED <<pending, nextId, task, item, answer, returned, undelivered, discarded>>
                      /\ cpc' \in {"redeliver", "respawn"} => cpc' = cpc
  <1>1. item = NoId <=> cpc \notin {"redeliver", "respawn"}
    BY DEF TypeInv, Shapes
  <1> USE DEF pool, slots, consumer, history
  <1>2. CASE CollectExpired
    <2>1. CASE pstate # "stopped" /\ Expired # {}
      <3>1. Collected(task[Least(Expired)])
        BY <1>2, <2>1, LeastCandidates, CollectMoves DEF CollectExpired
      <3> QED
        BY <3>1 DEF Collected
    <2>2. CASE ~(pstate # "stopped" /\ Expired # {})
      BY <1>1, <1>2, <2>2 DEF CollectExpired, Throw, Goto
    <2> QED
      BY <2>1, <2>2
  <1>3. CASE CollectEvent
    <2>1. Collected(task[Least(ReadySlots)])
      BY <1>3, LeastCandidates, CollectMoves DEF CollectEvent
    <2> QED
      BY <2>1 DEF Collected
  <1>4. CASE \/ Loop \/ LockForDispatch \/ DispatchEnds \/ DispatchSkip \/ DispatchSpawn
             \/ CheckWork \/ CvCheck \/ CvBlock \/ Poll \/ PollTimeout \/ PollFails \/ SpuriousWake
             \/ WaitOne
    BY <1>1, <1>4
       DEF Loop, LockForDispatch, DispatchEnds, DispatchSkip, DispatchSpawn, Dispatching,
           CheckWork, CvCheck, CvBlock, Poll, PollTimeout, PollFails, SpuriousWake, WaitOne,
           Throw, Goto, NextSlot
  <1>5. ASSUME \/ \E w \in Workers : ChildEvent(w) \/ DeadlinePasses(w)
               \/ Stop \/ StopImmediately \/ Notify \/ UNCHANGED vars
        PROVE  Still
    BY <1>5 DEF ChildEvent, DeadlinePasses, Stop, StopImmediately, Notify, vars
  <1> QED
    BY <1>2, <1>3, <1>4, <1>5, SubmitMoves, StopMoves, SendMoves, RedeliverMoves, RespawnMoves
       DEF Next, InWaitOne, InClientCall, Environment

LEMMA HomeStep == ASSUME TypeInv, HomeInv, [Next]_vars PROVE HomeInv'
  <1>1. CASE Enqueued
    BY <1>1 DEF Enqueued, HomeInv, Split
  <1>2. CASE Dropped
    BY <1>2 DEF Dropped, HomeInv, Split
  <1>3. ASSUME NEW t \in Ids, Sent(t) PROVE HomeInv'
    <2> DEFINE Common ==
          /\ Queued = Queued' \cup {t} /\ t \notin Queued' /\ Distinct(pending)'
          /\ InHands = {} /\ t \notin Running
          /\ Submitted' = Submitted /\ Answered' = Answered
          /\ returned' = returned /\ discarded' = discarded
    <2>1. Common
      BY <1>3 DEF Sent
    <2>2. CASE /\ Running' = Running \cup {t} /\ OneSlotEach' /\ InHands' = {}
               /\ cpc' = "dispatch" /\ undelivered' = undelivered
      BY <2>1, <2>2 DEF HomeInv, Split
    <2>3. CASE /\ Running' = Running /\ OneSlotEach' = OneSlotEach /\ InHands' = {}
               /\ cpc' = "outside" /\ undelivered' = undelivered \cup {t}
      BY <2>1, <2>3 DEF HomeInv, Split
    <2>4. CASE /\ Running' = Running /\ OneSlotEach' = OneSlotEach /\ InHands' = {t}
               /\ cpc' = "redeliver" /\ item' = t /\ undelivered' = undelivered
      BY <2>1, <2>4 DEF HomeInv, Split
    <2> QED
      BY <1>3, <2>2, <2>3, <2>4 DEF Sent
  <1>4. CASE Redelivered
    <2>1. CASE /\ Queued' = Queued \cup {item} /\ item \notin Queued /\ Distinct(pending)'
               /\ cpc' = "dispatch" /\ undelivered' = undelivered
      <3>1. /\ InHands = {item} /\ item \notin Answered /\ InHands' = {}
            /\ Submitted' = Submitted /\ Answered' = Answered
            /\ Running' = Running /\ OneSlotEach' = OneSlotEach
            /\ returned' = returned /\ discarded' = discarded
        BY <1>4 DEF Redelivered
      <3> QED
        BY <2>1, <3>1 DEF HomeInv, Split
    <2>2. CASE /\ Queued' = Queued /\ Distinct(pending)' = Distinct(pending)
               /\ cpc' = "outside" /\ undelivered' = undelivered \cup {item}
      BY <1>4, <2>2 DEF Redelivered, HomeInv, Split
    <2> QED
      BY <1>4, <2>1, <2>2 DEF Redelivered
  <1>5. CASE HandedOver
    BY <1>5 DEF HandedOver, HomeInv, Split
  <1>6. ASSUME NEW t \in Ids, Collected(t) PROVE HomeInv'
    BY <1>6 DEF Collected, HomeInv, Split
  <1> QED
    BY <1>1, <1>2, <1>3, <1>4, <1>5, <1>6, TaskMoves, HomeFrame

(* The places of the tasks are an inductive invariant.                     *)
THEOREM PoolHomes == Spec => []HomeInv
  BY PoolTypes, HomeInit, HomeStep, PTL DEF Spec

-----------------------------------------------------------------------------
(* What the invariants say                                                 *)

LEMMA OnePlace == ASSUME TypeInv, HomeInv, NEW t \in Submitted PROVE \E x : Places(t) = {x}
  <1>1. t \in Ids /\ t # NoId
    BY PoolAssumption DEF Submitted, TypeInv, TypeOK, Ids, NoId
  <1>2. Lost = Answered \ (returned \cup {item}) /\ returned \subseteq Answered \ InHands
    BY DEF Lost, Answered, HomeInv
  <1>3. item = t <=> t \in InHands
    BY <1>1 DEF InHands
  <1>4. t \in Running <=> \E w \in Workers : task[w] = t
    BY <1>1 DEF Running
  <1>5. t \in Queued <=> \E i \in DOMAIN pending : pending[i].id = t
    BY DEF Queued, IdsOf
  <1>6. Split(Submitted, Queued, Running, InHands, Answered, undelivered, discarded)
    BY DEF HomeInv
  <1> DEFINE q == {i \in DOMAIN pending : pending[i].id = t}
             r == {w \in Workers : task[w] = t}
  <1>7. CASE t \in Queued
    <2>1. PICK i \in DOMAIN pending : pending[i].id = t
      BY <1>7, <1>5
    <2>2. q = {i}
      BY <2>1 DEF HomeInv, Distinct
    <2>3. r = {} /\ item # t /\ t \notin returned \cup Lost \cup undelivered \cup discarded
      BY <1>2, <1>3, <1>4, <1>6, <1>7 DEF Split
    <2> QED
      <3>1. Places(t) = {<<"queue", i>>}
        BY <2>2, <2>3 DEF Places
      <3> QED
        BY <3>1
  <1>8. CASE t \in Running
    <2>1. PICK w \in Workers : task[w] = t
      BY <1>8, <1>4
    <2>2. r = {w}
      BY <1>1, <2>1 DEF HomeInv, OneSlotEach
    <2>3. q = {} /\ item # t /\ t \notin returned \cup Lost \cup undelivered \cup discarded
      BY <1>2, <1>3, <1>5, <1>6, <1>8 DEF Split
    <2> QED
      <3>1. Places(t) = {<<"slot", w>>}
        BY <2>2, <2>3 DEF Places
      <3> QED
        BY <3>1
  <1>9. CASE t \in InHands
    <2>1. q = {} /\ r = {} /\ item = t /\ t \notin returned \cup Lost \cup undelivered \cup discarded
      BY <1>2, <1>3, <1>4, <1>5, <1>6, <1>9 DEF Split
    <2> QED
      <3>1. Places(t) = {<<"item", 0>>}
        BY <2>1 DEF Places
      <3> QED
        BY <3>1
  <1>10. CASE t \in Answered \ InHands
    <2>1. q = {} /\ r = {} /\ item # t /\ t \notin undelivered \cup discarded
          /\ (t \in Lost <=> t \notin returned)
      BY <1>2, <1>3, <1>4, <1>5, <1>6, <1>10 DEF Split
    <2>2. CASE t \in returned
      <3>1. Places(t) = {<<"returned", 0>>}
        BY <2>1, <2>2 DEF Places
      <3> QED
        BY <3>1
    <2>3. CASE t \notin returned
      <3>1. Places(t) = {<<"lost", 0>>}
        BY <2>1, <2>3 DEF Places
      <3> QED
        BY <3>1
    <2> QED
      BY <2>2, <2>3
  <1>11. CASE t \in undelivered
    <2>1. q = {} /\ r = {} /\ item # t /\ t \notin returned \cup Lost \cup discarded
      BY <1>2, <1>3, <1>4, <1>5, <1>6, <1>11 DEF Split
    <2> QED
      <3>1. Places(t) = {<<"undelivered", 0>>}
        BY <1>11, <2>1 DEF Places
      <3> QED
        BY <3>1
  <1>12. CASE t \in discarded
    <2>1. q = {} /\ r = {} /\ item # t /\ t \notin returned \cup Lost \cup undelivered
      BY <1>2, <1>3, <1>4, <1>5, <1>6, <1>12 DEF Split
    <2> QED
      <3>1. Places(t) = {<<"discarded", 0>>}
        BY <1>12, <2>1 DEF Places
      <3> QED
        BY <3>1
  <1> QED
    BY <1>6, <1>7, <1>8, <1>9, <1>10, <1>11, <1>12 DEF Split

(* No order of requeues, respawns, exceptions and shutdowns loses a task or *)
(* has it in two places.                                                    *)
THEOREM TasksConserved == Spec => []Conservation
  <1>1. TypeInv /\ HomeInv => Conservation
    BY OnePlace, FS_Singleton DEF Conservation
  <1> QED
    BY PoolTypes, PoolHomes, <1>1, PTL

LEMMA DrainStep == ASSUME TypeInv, DrainInv, [Next]_vars PROVE DrainInv'
  <1> SUFFICES ASSUME error' = "drained"
               PROVE  (cpc = "outside" /\ pstate # "accepting" /\ ~HasWork)'
    BY DEF DrainInv
  <1> USE DEF HasWork, Busy, pool, slots, consumer, history
  \* the step that throws it
  <1>1. CASE CheckWork /\ error # "drained"
    BY <1>1 DEF CheckWork, Goto, Throw
  \* the other steps throw something else, or find it thrown already
  <1>2. ASSUME error = "drained"
        PROVE  cpc = "outside" /\ pstate # "accepting" /\ pending = <<>>
               /\ \A w \in Workers : slot[w] # "busy"
    BY <1>2 DEF DrainInv
  <1>3. CASE Loop \/ LockForDispatch \/ DispatchEnds \/ DispatchSkip \/ DispatchSpawn
    BY <1>2, <1>3 DEF Loop, LockForDispatch, DispatchEnds, DispatchSkip, DispatchSpawn,
                      Dispatching, Goto, Throw, NextSlot
  <1>4. CASE DispatchSend
    BY <1>2, <1>4 DEF DispatchSend, Dispatching, SendAccepted, SendUnserializable, SendThrows, SendPoisoned,
                      Throw, NextSlot
  <1>5. CASE Redeliver \/ Respawn
    BY <1>2, <1>5 DEF Redeliver, Respawn, Throw, NextSlot
  <1>6. CASE CollectExpired \/ CollectEvent
    BY <1>2, <1>6 DEF CollectExpired, CollectEvent, Collect, Goto, Throw
  <1>7. CASE (CheckWork /\ error = "drained") \/ CvCheck \/ CvBlock \/ SpuriousWake
             \/ Poll \/ PollTimeout \/ PollFails \/ WaitOne
    BY <1>2, <1>7 DEF CheckWork, CvCheck, CvBlock, SpuriousWake, Poll, PollTimeout, PollFails,
                      WaitOne, Goto, Throw
  <1>8. CASE StopWorkers \/ Notify \/ Submit \/ Stop \/ StopImmediately \/ UNCHANGED vars
    BY <1>2, <1>8 DEF StopWorkers, Notify, Submit, Stop, StopImmediately, vars
  <1>9. ASSUME NEW w \in Workers, ChildEvent(w) \/ DeadlinePasses(w) PROVE DrainInv'
    BY <1>2, <1>9 DEF ChildEvent, DeadlinePasses
  <1> QED
    BY <1>1, <1>3, <1>4, <1>5, <1>6, <1>7, <1>8, <1>9
       DEF Next, InWaitOne, InClientCall, Environment, DrainInv

(* "drained" is thrown, and stays the last word, only when every task that  *)
(* was accepted has a fate the caller was told of.                          *)
THEOREM DrainedIsDone == Spec => []DrainedMeansReturned
  <1>1. TypeInv /\ HomeInv /\ DrainInv => DrainedMeansReturned
    <2> SUFFICES ASSUME TypeInv, HomeInv, DrainInv, error = "drained",
                        NEW t \in Submitted \ (discarded \cup undelivered \cup Lost)
                 PROVE  t \in returned
      BY DEF DrainedMeansReturned
    <2>1. cpc = "outside" /\ pending = <<>> /\ \A w \in Workers : ~Busy(w)
      BY DEF DrainInv, HasWork
    <2>2. Queued = {} /\ Running = {} /\ InHands = {} /\ item = NoId
      BY <2>1 DEF Queued, IdsOf, Running, InHands, TypeInv, Shapes
    <2>3. t \in Answered /\ t \in Ids /\ t # NoId
      BY <2>2, PoolAssumption DEF HomeInv, Split, Answered, Ids, NoId
    <2> QED
      BY <2>2, <2>3 DEF Lost, Answered
  <1>2. Init => DrainInv
    BY DEF Init, DrainInv
  <1> QED
    BY PoolTypes, PoolHomes, <1>1, <1>2, DrainStep, PTL DEF Spec

-----------------------------------------------------------------------------
(* The ledger                                                              *)

(* The fate of a task is where it is.                                      *)
FateIsPlace ==
    \A t \in Ids :
        /\ t \notin Submitted => Fate(t) = "new"
        /\ t \in Queued \cup (InHands \ Answered) => Fate(t) = "queued"
        /\ t \in Running => Fate(t) = "inflight"
        /\ t \in Answered \cap InHands => Fate(t) = "answered"
        /\ t \in returned => Fate(t) = "returned"
        /\ t \in Answered \ (InHands \cup returned) => Fate(t) = "lost"
        /\ t \in undelivered => Fate(t) = "undelivered"
        /\ t \in discarded => Fate(t) = "discarded"

LEMMA FatesArePlaces == ASSUME TypeInv, HomeInv PROVE FateIsPlace
  <1> SUFFICES ASSUME NEW t \in Ids
               PROVE  /\ t \notin Submitted => Fate(t) = "new"
                      /\ t \in Queued \cup (InHands \ Answered) => Fate(t) = "queued"
                      /\ t \in Running => Fate(t) = "inflight"
                      /\ t \in Answered \cap InHands => Fate(t) = "answered"
                      /\ t \in returned => Fate(t) = "returned"
                      /\ t \in Answered \ (InHands \cup returned) => Fate(t) = "lost"
                      /\ t \in undelivered => Fate(t) = "undelivered"
                      /\ t \in discarded => Fate(t) = "discarded"
    BY DEF FateIsPlace
  <1>1. t # NoId
    BY DEF Ids, NoId
  <1>2. /\ t \in Lost <=> t \in Answered /\ t \notin returned /\ t \notin InHands
        /\ answer[t] # "none" <=> t \in Answered
        /\ InFlight(t) <=> t \in Running
        /\ item = t <=> t \in InHands
    BY <1>1 DEF Lost, Answered, InHands, InFlight, Running
  <1>3. /\ Split(Submitted, Queued, Running, InHands, Answered, undelivered, discarded)
        /\ returned \subseteq Answered \ InHands
    BY DEF HomeInv
  <1>4. Fate(t) = CASE t \notin Submitted -> "new"
                    [] t \in discarded    -> "discarded"
                    [] t \in undelivered  -> "undelivered"
                    [] t \in returned     -> "returned"
                    [] t \in Answered /\ t \notin returned /\ t \notin InHands -> "lost"
                    [] t \in Answered \cap InHands -> "answered"
                    [] t \in Running      -> "inflight"
                    [] OTHER              -> "queued"
    BY <1>2 DEF Fate
  <1> QED
    BY <1>3, <1>4 DEF Split

FateMap == [t \in Ids |-> Fate(t)]

(* One task changes its fate and the others keep theirs.                   *)
LEMMA OneMoves ==
    ASSUME NEW t \in Ids, NEW from, NEW to, Fate(t) = from, Fate(t)' = to,
           \A u \in Ids : u # t => Fate(u)' = Fate(u)
    PROVE  FateMap[t] = from /\ FateMap' = [FateMap EXCEPT ![t] = to]
  BY DEF FateMap

LEMMA LedgerStep ==
    ASSUME TypeInv, HomeInv, HomeInv', FateIsPlace, FateIsPlace', [Next]_vars
    PROVE  [Ledger!LNext]_FateMap
  <1> USE DEF Ledger!Moves, Ledger!LNext
  <1>0. FateMap = [t \in Ids |-> Fate(t)]
    BY DEF FateMap
  <1>1. CASE Enqueued
    <2>1. PICK t \in Ids : t = nextId
      BY <1>1 DEF Enqueued
    <2>2. Fate(t) = "new" /\ Fate(t)' = "queued"
      BY <1>1, <2>1 DEF Enqueued, FateIsPlace
    <2>3. \A u \in Ids : u # t => Fate(u)' = Fate(u)
      BY <1>1, <2>1 DEF Enqueued, FateIsPlace, HomeInv, Split
    <2>4. Ledger!Accepts(t)
      BY <1>0, <2>2, <2>3, OneMoves DEF Ledger!Accepts
    <2> QED
      BY <2>4
  <1>2. CASE Dropped
    <2>1. ASSUME NEW u \in Ids
          PROVE  Fate(u)' = IF Fate(u) \in {"queued", "inflight"} THEN "discarded" ELSE Fate(u)
      BY <1>2 DEF Dropped, FateIsPlace, HomeInv, Split
    <2>2. Ledger!Discards
      BY <1>0, <2>1 DEF Ledger!Discards, FateMap
    <2> QED
      BY <2>2
  <1>3. ASSUME NEW t \in Ids, Sent(t) PROVE [Ledger!LNext]_FateMap
    <2>1. Fate(t) = "queued"
      BY <1>3 DEF Sent, FateIsPlace
    <2>2. \A u \in Ids : u # t => Fate(u)' = Fate(u)
      BY <1>3 DEF Sent, FateIsPlace, HomeInv, Split
    <2>3. CASE Running' = Running \cup {t}
      <3>1. Fate(t)' = "inflight"
        BY <2>3 DEF FateIsPlace
      <3>2. Ledger!Delivers(t)
        BY <1>0, <2>1, <2>2, <3>1, OneMoves DEF Ledger!Delivers
      <3> QED
        BY <3>2
    <2>4. CASE undelivered' = undelivered \cup {t}
      <3>1. Fate(t)' = "undelivered"
        BY <2>4 DEF FateIsPlace
      <3>2. Ledger!GivesUp(t)
        BY <1>0, <2>1, <2>2, <3>1, OneMoves DEF Ledger!GivesUp
      <3> QED
        BY <3>2
    <2>5. CASE InHands' = {t}
      <3>1. t \notin Answered'
        BY <1>3 DEF Sent, HomeInv, Split
      <3>2. Fate(t)' = "queued"
        BY <2>5, <3>1 DEF FateIsPlace
      <3> QED
        BY <2>1, <2>2, <3>2 DEF FateMap
    <2> QED
      BY <1>3, <2>3, <2>4, <2>5 DEF Sent
  <1>4. CASE Redelivered
    <2>1. item \in Ids /\ Fate(item) = "queued"
      BY <1>4 DEF Redelivered, FateIsPlace
    <2>2. \A u \in Ids : u # item => Fate(u)' = Fate(u)
      BY <1>4 DEF Redelivered, FateIsPlace, HomeInv, Split
    <2>3. CASE Queued' = Queued \cup {item}
      <3>1. \A u \in Ids : u = item => Fate(u)' = "queued"
        BY <2>3 DEF FateIsPlace
      <3> QED
        BY <2>1, <2>2, <3>1 DEF FateMap
    <2>4. CASE undelivered' = undelivered \cup {item}
      <3>1. \A u \in Ids : u = item => Fate(u)' = "undelivered"
        BY <2>4 DEF FateIsPlace
      <3>2. \E u \in Ids : Ledger!GivesUp(u)
        BY <1>0, <2>1, <2>2, <3>1, OneMoves DEF Ledger!GivesUp
      <3> QED
        BY <3>2
    <2> QED
      BY <1>4, <2>3, <2>4 DEF Redelivered
  <1>5. CASE HandedOver
    <2>1. PICK t \in Ids : t = item
      BY <1>5 DEF HandedOver
    <2>2. Fate(t) = "answered"
      BY <1>5, <2>1 DEF HandedOver, FateIsPlace
    <2>3. \A u \in Ids : u # t => Fate(u)' = Fate(u)
      BY <1>5, <2>1 DEF HandedOver, FateIsPlace, HomeInv, Split
    <2>4. CASE returned' = returned \cup {item}
      <3>1. Fate(t)' = "returned"
        BY <2>1, <2>4 DEF FateIsPlace
      <3>2. Ledger!Returns(t)
        BY <1>0, <2>2, <2>3, <3>1, OneMoves DEF Ledger!Returns
      <3> QED
        BY <3>2
    <2>5. CASE returned' = returned
      <3>1. t \in Answered' /\ t \notin InHands' /\ t \notin returned'
        BY <1>5, <2>1, <2>5 DEF HandedOver, HomeInv
      <3>2. Fate(t)' = "lost"
        BY <3>1 DEF FateIsPlace
      <3>3. Ledger!Loses(t)
        BY <1>0, <2>2, <2>3, <3>2, OneMoves DEF Ledger!Loses
      <3> QED
        BY <3>3
    <2> QED
      BY <1>5, <2>4, <2>5 DEF HandedOver
  <1>6. ASSUME NEW t \in Ids, Collected(t) PROVE [Ledger!LNext]_FateMap
    <2>1. Fate(t) = "inflight" /\ Fate(t)' = "answered"
      BY <1>6 DEF Collected, FateIsPlace
    <2>2. \A u \in Ids : u # t => Fate(u)' = Fate(u)
      BY <1>6 DEF Collected, FateIsPlace, HomeInv, Split
    <2>3. Ledger!Answers(t)
      BY <1>0, <2>1, <2>2, OneMoves DEF Ledger!Answers
    <2> QED
      BY <2>3
  <1>7. CASE UNCHANGED <<pending, nextId, task, item, answer, returned, undelivered, discarded>>
    <2>1. \A u \in Ids : Fate(u)' = Fate(u)
      BY <1>7 DEF Fate, Submitted, Lost, InFlight
    <2> QED
      BY <2>1 DEF FateMap
  <1> QED
    BY <1>1, <1>2, <1>3, <1>4, <1>5, <1>6, <1>7, TaskMoves

(* A task is executed at most once, its result is handed over or lost, and  *)
(* a fate once final stays: the pool implements TaskLedger.                 *)
THEOREM PoolKeepsLedger == Spec => ImplementsLedger
  <1>1. Init => Ledger!LInit
    <2> SUFFICES ASSUME Init PROVE Ledger!LInit
      OBVIOUS
    <2>1. Submitted = {}
      BY DEF Init, Submitted
    <2>2. ASSUME NEW t \in Ids PROVE Fate(t) = "new"
      <3>1. /\ answer[t] = "none" /\ ~InFlight(t) /\ t \notin Submitted /\ t \notin Lost
            /\ t \notin returned \cup undelivered \cup discarded
        BY <2>1 DEF Init, InFlight, Lost, Ids, NoId
      <3> QED
        BY <3>1 DEF Fate
    <2> QED
      BY <2>2 DEF Ledger!LInit
  <1> QED
    BY PoolTypes, PoolHomes, FatesArePlaces, LedgerStep, <1>1, PTL
       DEF Spec, ImplementsLedger, Ledger!LSpec, FateMap

-----------------------------------------------------------------------------
(* The slots                                                               *)

(* A task has an owner from the moment a slot took it, and the slot that    *)
(* runs it is its owner.                                                    *)
OwnerInv ==
    /\ \A t \in Ids : owner[t] # 0 => t \in Running \cup Answered \cup discarded
    /\ \A w \in Workers : task[w] # NoId => owner[task[w]] = w

(* What is at the head of the queue is nowhere else and has no owner.      *)
LEMMA HeadIsFree ==
    ASSUME TypeInv, HomeInv, OwnerInv, pending # <<>>
    PROVE  /\ Head(pending).id \in Ids /\ Head(pending).id # NoId
           /\ Head(pending).id \notin Running \cup Answered
           /\ owner[Head(pending).id] = 0
  <1>1. pending \in Seq(Records)
    BY DEF TypeInv, TypeOK, Records
  <1>2. Head(pending) \in Records /\ Head(pending).id \in Queued
    BY <1>1, TailIds DEF Queued
  <1>3. Head(pending).id \in Ids /\ Head(pending).id # NoId
    BY <1>2 DEF Records, Ids, NoId
  <1>4. Head(pending).id \notin Running \cup Answered \cup discarded
    BY <1>2 DEF HomeInv, Split
  <1> QED
    BY <1>3, <1>4 DEF OwnerInv

(* The steps of the slots: spawned, given a task, or taken down.           *)
SlotSteps ==
    \/ UNCHANGED <<slot, task, owner, answer>>
    \/ DispatchSend \/ StopWorkers
    \/ /\ di \in Workers /\ slot[di] # "busy"
       /\ slot' = [slot EXCEPT ![di] = "idle"]
       /\ UNCHANGED <<task, owner, answer>>
    \/ \E w \in Workers, s \in ReceiveStatus \cup {"timeout"} : Busy(w) /\ Collect(w, s)

LEMMA StepsOfSlots == ASSUME TypeInv, [Next]_vars PROVE SlotSteps
  <1> USE DEF SlotSteps, slots, history
  <1>1. CASE DispatchSpawn
    BY <1>1 DEF DispatchSpawn, Dispatching
  <1>2. CASE Redeliver
    BY <1>2 DEF Redeliver, TypeInv, Shapes
  <1>3. CASE Respawn
    BY <1>3 DEF Respawn, TypeInv, Shapes, Busy
  <1>4. CASE CollectExpired
    BY <1>4, LeastCandidates DEF CollectExpired
  <1>5. CASE CollectEvent
    BY <1>5, LeastCandidates DEF CollectEvent
  <1>6. CASE \/ Loop \/ LockForDispatch \/ DispatchEnds \/ DispatchSkip \/ CheckWork \/ CvCheck
             \/ CvBlock \/ Poll \/ PollTimeout \/ PollFails \/ SpuriousWake \/ WaitOne
    BY <1>6 DEF Loop, LockForDispatch, DispatchEnds, DispatchSkip, CheckWork, CvCheck, CvBlock,
                Poll, PollTimeout, PollFails, SpuriousWake, WaitOne
  <1>7. CASE Submit \/ Stop \/ StopImmediately \/ Notify \/ UNCHANGED vars
    BY <1>7 DEF Submit, Stop, StopImmediately, Notify, vars
  <1>8. ASSUME NEW w \in Workers, ChildEvent(w) \/ DeadlinePasses(w) PROVE SlotSteps
    BY <1>8 DEF ChildEvent, DeadlinePasses
  <1> QED
    BY <1>1, <1>2, <1>3, <1>4, <1>5, <1>6, <1>7, <1>8
       DEF Next, InWaitOne, InClientCall, Environment

LEMMA OwnerStep ==
    ASSUME TypeInv, HomeInv, OwnerInv, [Next]_vars PROVE OwnerInv'
  <1>0. discarded \subseteq discarded'
    BY DEF Next, InWaitOne, InClientCall, Environment, history, vars,
           ChildEvent, DeadlinePasses, Submit, Stop, StopImmediately, StopWorkers, Notify, WaitOne,
           Loop, LockForDispatch, DispatchEnds, DispatchSkip, DispatchSpawn, DispatchSend,
           SendAccepted, SendUnserializable, SendThrows, SendPoisoned, Redeliver, CollectExpired, CollectEvent,
           Collect, Respawn, CheckWork, CvCheck, CvBlock, SpuriousWake, Poll, PollTimeout, PollFails
  <1>1. CASE UNCHANGED <<task, owner, answer>>
    BY <1>0, <1>1 DEF OwnerInv, Running, Answered
  <1>2. CASE DispatchSend
    <2> DEFINE t == Head(pending).id
    <2>1. /\ t \in Ids /\ t # NoId /\ t \notin Running /\ owner[t] = 0
          /\ di \in Workers /\ task[di] = NoId
      BY <1>2, HeadIsFree DEF DispatchSend, Dispatching, TypeInv, Shapes, Busy
    <2> HIDE DEF t
    <2>2. CASE SendAccepted(t)
      <3>1. Running' = Running \cup {t}
        BY <2>1, <2>2, RunningPut DEF SendAccepted, HomeInv
      <3>2. \A w \in Workers : task[w] # NoId => task[w] # t /\ task[w] \in Ids
        BY <2>1 DEF Running, TypeInv, TypeOK
      <3>3. \A u \in Ids : owner'[u] = IF u = t THEN di ELSE owner[u]
        BY <2>1, <2>2 DEF SendAccepted, TypeInv, TypeOK
      <3>4. \A w \in Workers : task'[w] = IF w = di THEN t ELSE task[w]
        BY <2>1, <2>2 DEF SendAccepted, TypeInv, TypeOK
      <3>5. Answered' = Answered
        BY <2>2 DEF SendAccepted, Answered
      <3> QED
        BY <1>0, <2>1, <3>1, <3>2, <3>3, <3>4, <3>5 DEF OwnerInv
    <2>3. CASE \/ SendUnserializable(t) \/ SendThrows(t)
               \/ SendPoisoned(t, Head(pending).attempts)
      BY <1>1, <2>3 DEF SendUnserializable, SendThrows, SendPoisoned, slots, history
    <2> QED
      BY <1>2, <2>2, <2>3 DEF DispatchSend, t
  <1>3. CASE StopWorkers
    <2>1. Dropped /\ UNCHANGED owner /\ \A w \in Workers : task'[w] = NoId
      BY <1>3, StopMoves DEF StopWorkers
    <2> QED
      BY <2>1 DEF Dropped, OwnerInv
  <1>4. ASSUME NEW w \in Workers, NEW s \in ReceiveStatus \cup {"timeout"}, Busy(w), Collect(w, s)
        PROVE  OwnerInv'
    <2>1. task[w] \in Ids /\ task[w] # NoId
      BY <1>4 DEF TypeInv, TypeOK, Shapes
    <2>2. Running' = Running \ {task[w]}
      BY <1>4, <2>1, RunningTake DEF HomeInv, Collect
    <2>3. Answered' = Answered \cup {task[w]}
      BY <1>4, <2>1 DEF TypeInv, TypeOK, Collect, Answered, ReceiveStatus
    <2>4. \A v \in Workers : task'[v] = IF v = w THEN NoId ELSE task[v]
      BY <1>4 DEF Collect, TypeInv, TypeOK
    <2>5. UNCHANGED <<owner, discarded>>
      BY <1>4 DEF Collect
    <2> QED
      BY <2>2, <2>3, <2>4, <2>5 DEF OwnerInv
  <1> QED
    BY <1>1, <1>2, <1>3, <1>4, StepsOfSlots DEF SlotSteps

(* What slot w shows to its contract is left alone.                        *)
SameView(w) ==
    /\ slot'[w] = slot[w] /\ task'[w] = task[w]
    /\ \A t \in Ids : (owner'[t] = w <=> owner[t] = w) /\ (owner[t] = w => answer'[t] = answer[t])

LEMMA ViewKept == ASSUME NEW w \in Workers, SameView(w) PROVE UNCHANGED Slot(w)!cvars
  <1>1. {t \in Ids : owner'[t] = w} = {t \in Ids : owner[t] = w}
    BY DEF SameView
  <1>2. [t \in Ids |-> IF owner'[t] = w THEN answer'[t] ELSE "none"]
        = [t \in Ids |-> IF owner[t] = w THEN answer[t] ELSE "none"]
    BY DEF SameView
  <1> QED
    BY <1>1, <1>2 DEF SameView, Slot!cvars

LEMMA SlotStep ==
    ASSUME TypeInv, HomeInv, OwnerInv, [Next]_vars, NEW w \in Workers
    PROVE  Slot(w)!CNext \/ UNCHANGED Slot(w)!cvars
  <1> DEFINE Taken == {t \in Ids : owner[t] = w}
             Seen  == [t \in Ids |-> IF owner[t] = w THEN answer[t] ELSE "none"]
  <1>1. CASE UNCHANGED <<slot, task, owner, answer>>
    BY <1>1, ViewKept DEF SameView
  <1>2. CASE DispatchSend
    <2>0. PICK t \in Ids : t = Head(pending).id
      BY <1>2, HeadIsFree DEF DispatchSend, Dispatching
    <2>1. /\ t # NoId /\ owner[t] = 0 /\ answer[t] = "none"
          /\ di \in Workers /\ slot[di] = "idle" /\ task[di] = NoId /\ w # 0
      BY <1>2, <2>0, HeadIsFree DEF DispatchSend, Dispatching, TypeInv, Shapes, Busy, Answered, Workers
    <2>2. CASE SendAccepted(Head(pending).id)
      <3>1. /\ \A u \in Ids : owner'[u] = IF u = t THEN di ELSE owner[u]
            /\ slot'[w] = IF w = di THEN "busy" ELSE slot[w]
            /\ task'[w] = IF w = di THEN t ELSE task[w]
            /\ answer' = answer
        BY <2>0, <2>1, <2>2 DEF SendAccepted, TypeInv, TypeOK
      <3>2. CASE w = di
        <4>1. Taken' = Taken \cup {t} /\ t \notin Taken
          BY <2>1, <3>1, <3>2
        <4>2. Seen' = Seen
          BY <2>1, <3>1, <3>2
        <4>3. Slot(w)!Accepts(t)
          BY <2>1, <3>1, <3>2, <4>1, <4>2 DEF Slot!Accepts
        <4> QED
          BY <4>3 DEF Slot!CNext
      <3>3. CASE w # di
        BY <2>1, <3>1, <3>3, ViewKept DEF SameView
      <3> QED
        BY <3>2, <3>3
    <2>3. CASE SendUnserializable(Head(pending).id) \/ SendThrows(Head(pending).id)
      BY <1>1, <2>3 DEF SendUnserializable, SendThrows, slots
    <2>4. CASE SendPoisoned(Head(pending).id, Head(pending).attempts)
      <3>1. /\ slot'[w] = IF w = di THEN "stopped" ELSE slot[w]
            /\ UNCHANGED <<task, owner, answer>>
        BY <2>1, <2>4 DEF SendPoisoned, TypeInv, TypeOK, history
      <3>2. CASE w = di
        <4>1. Slot(w)!Retires
          BY <2>1, <3>1, <3>2 DEF Slot!Retires
        <4> QED
          BY <4>1 DEF Slot!CNext
      <3>3. CASE w # di
        BY <3>1, <3>3, ViewKept DEF SameView
      <3> QED
        BY <3>2, <3>3
    <2> QED
      BY <1>2, <2>2, <2>3, <2>4 DEF DispatchSend
  <1>3. CASE StopWorkers
    <2>1. slot'[w] = "stopped" /\ task'[w] = NoId /\ UNCHANGED <<owner, answer>>
      BY <1>3 DEF StopWorkers
    <2>2. CASE slot[w] = "stopped"
      <3>1. task[w] = NoId
        BY <2>2 DEF TypeInv, Shapes, Busy
      <3> QED
        BY <2>1, <2>2, <3>1, ViewKept DEF SameView
    <2>3. CASE slot[w] = "idle"
      <3>1. task[w] = NoId
        BY <2>3 DEF TypeInv, Shapes, Busy
      <3>2. Slot(w)!Retires
        BY <2>1, <2>3, <3>1 DEF Slot!Retires
      <3> QED
        BY <3>2 DEF Slot!CNext
    <2>4. CASE slot[w] = "busy"
      <3>1. Slot(w)!Abandons
        BY <2>1, <2>4 DEF Slot!Abandons
      <3> QED
        BY <3>1 DEF Slot!CNext
    <2> QED
      BY <2>2, <2>3, <2>4 DEF TypeInv, TypeOK
  <1>4. CASE /\ di \in Workers /\ slot[di] # "busy"
             /\ slot' = [slot EXCEPT ![di] = "idle"]
             /\ UNCHANGED <<task, owner, answer>>
    <2>1. slot'[w] = IF w = di THEN "idle" ELSE slot[w]
      BY <1>4 DEF TypeInv, TypeOK
    <2>2. CASE w = di /\ slot[w] = "stopped"
      <3>1. Slot(w)!Spawned
        BY <1>4, <2>1, <2>2 DEF Slot!Spawned
      <3> QED
        BY <3>1 DEF Slot!CNext
    <2>3. CASE ~(w = di /\ slot[w] = "stopped")
      <3>1. slot'[w] = slot[w]
        BY <1>4, <2>1, <2>3 DEF TypeInv, TypeOK
      <3> QED
        BY <1>4, <3>1, ViewKept DEF SameView
    <2> QED
      BY <2>2, <2>3
  <1>5. ASSUME NEW v \in Workers, NEW s \in ReceiveStatus \cup {"timeout"}, Busy(v), Collect(v, s)
        PROVE  Slot(w)!CNext \/ UNCHANGED Slot(w)!cvars
    <2>1. task[v] \in Ids /\ task[v] \in Running /\ owner[task[v]] = v
      BY <1>5 DEF TypeInv, TypeOK, Shapes, Running, OwnerInv
    <2>2. answer[task[v]] = "none"
      BY <2>1 DEF HomeInv, Split, Answered
    <2>3. /\ slot'[w] = IF w = v THEN (IF KeepsChild(s) THEN "idle" ELSE "stopped") ELSE slot[w]
          /\ task'[w] = IF w = v THEN NoId ELSE task[w]
          /\ \A t \in Ids : answer'[t] = IF t = task[v] THEN s ELSE answer[t]
          /\ owner' = owner
      BY <1>5 DEF Collect, TypeInv, TypeOK
    <2>4. CASE w = v
      <3>1. Seen' = [Seen EXCEPT ![task[w]] = s] /\ Seen[task[w]] = "none"
        BY <2>1, <2>2, <2>3, <2>4
      <3>2. /\ s \in Slot(w)!IsolatedStatus
            /\ KeepsChild(s) <=> s \in Slot(w)!TargetStatus
        BY DEF ReceiveStatus, KeepsChild, Slot!IsolatedStatus, Slot!TargetStatus, Slot!InfraStatus
      <3>3. Slot(w)!Answers(s)
        BY <1>5, <2>3, <2>4, <3>1, <3>2 DEF Slot!Answers, Busy
      <3> QED
        BY <3>2, <3>3 DEF Slot!CNext
    <2>5. CASE w # v
      BY <2>1, <2>3, <2>5, ViewKept DEF SameView
    <2> QED
      BY <2>4, <2>5
  <1> QED
    BY <1>1, <1>2, <1>3, <1>4, <1>5, StepsOfSlots DEF SlotSteps

(* The pool asks of a slot only what WorkerContract, which the Worker was   *)
(* shown to implement, lets it do.                                          *)
THEOREM SlotsObeyContract == Spec => SlotsKeepContract
  <1>1. Init => OwnerInv
    BY DEF Init, OwnerInv, Workers, Ids, NoId
  <1>2. TypeInv /\ HomeInv /\ OwnerInv /\ [Next]_vars
        => [\A w \in Workers : Slot(w)!CNext \/ UNCHANGED Slot(w)!cvars]_vars
    BY SlotStep
  <1> QED
    BY PoolTypes, PoolHomes, <1>1, <1>2, OwnerStep, PTL DEF Spec, SlotsKeepContract

-----------------------------------------------------------------------------
(***************************************************************************)
(* run_isolated_fuzz() for any pool and any number of tasks.  The tasks     *)
(* wait_one() is through with are at most one more than those the recorder  *)
(* has seen, because the first exception ends the consumer; and who ended   *)
(* it without an exception found the pool drained, which it stays.          *)
(***************************************************************************)

(* The tasks that were answered or given up, and are not in the hands of    *)
(* wait_one() any more.                                                     *)
Ended == (Answered \ InHands) \cup undelivered

(* poll() is only called for somebody, and m_workers_mutex keeps it so;     *)
(* only stop_immediately() drops a task, after it has stored its state.     *)
ShutdownInv ==
    /\ cpc = "polling" => \E w \in Workers : Busy(w)
    /\ mpc = "stop_workers" \/ discarded # {} => pstate = "stopped"

RunTypes ==
    /\ main \in {"produce", "join", "destroy", "leave", "done"}
    /\ hpc \in {"waiting", "handling", "caught", "finished"}
    /\ consumerException \in BOOLEAN
    /\ outcome \in {"none", "returned", "threw_producer", "threw_consumer"}

(* How far the two threads are. *)
StageInv ==
    /\ hpc # "waiting" => cpc = "outside"
    /\ hpc \in {"waiting", "handling"} => error = "none"
    /\ consumerException => hpc = "finished"
    /\ main \notin {"produce", "join"} => hpc = "finished" /\ outcome # "none"
    /\ main \in {"produce", "join"} => outcome \in {"none", "threw_producer"}
    /\ main = "produce" => outcome = "none"
    /\ outcome = "none" => pstate # "stopped"
    /\ outcome = "returned" => ~consumerException
    /\ outcome = "threw_consumer" => consumerException

(* At most one task was ended and not recorded: the one in the consumer's   *)
(* hands, or the one its exception was about.                               *)
HandledInv ==
    /\ handled \subseteq returned
    /\ hpc = "waiting" => Ended = handled
    /\ hpc = "handling" => \E t \in returned \ handled : Ended = handled \cup {t}
    /\ \E t \in Ids \cup {NoId} : Ended \subseteq handled \cup {t}

(* A consumer that dropped its exception left a drained pool behind. *)
SwallowInv ==
    hpc = "finished" /\ ~consumerException =>
        /\ pstate # "accepting" /\ pending = <<>> /\ \A w \in Workers : ~Busy(w)
        /\ discarded = {}

(* Unless the producer shut the pool down, an exception ends the consumer   *)
(* because a task goes unrecorded or because there is nothing left to do,   *)
(* and only the first is kept.                                              *)
BlameInv ==
    outcome # "threw_producer" =>
        /\ hpc \in {"caught", "finished"} => error = "drained" \/ Submitted \ handled # {}
        /\ consumerException => Submitted \ handled # {}

PoolPart == TypeInv /\ HomeInv /\ DrainInv /\ ShutdownInv
RunInv == PoolPart /\ RunTypes /\ StageInv /\ HandledInv /\ SwallowInv /\ BlameInv

-----------------------------------------------------------------------------
(* What the run does with the pool are steps of the pool. *)
LEMMA PoolSteps == ASSUME [RunNext]_allvars PROVE [Next]_vars
  BY DEF RunNext, allvars, Consumer, CallWaitOne, InPool, Handle, Caught, Main, ProduceTask,
         ProduceEnds, ProduceThrows, InCall, Join, Destroy, Leave, RunEnvironment, Next

LEMMA ShutdownStep == ASSUME TypeInv, ShutdownInv, [Next]_vars PROVE ShutdownInv'
<1> USE DEF ShutdownInv, Busy, pool, slots, consumer, history
<1>1. CASE Loop \/ LockForDispatch \/ DispatchEnds \/ DispatchSkip \/ DispatchSpawn
  BY <1>1 DEF Loop, LockForDispatch, DispatchEnds, DispatchSkip, DispatchSpawn, Dispatching,
              Goto, Throw, NextSlot
<1>2. CASE DispatchSend
  BY <1>2 DEF DispatchSend, SendAccepted, SendUnserializable, SendThrows, SendPoisoned, Throw, NextSlot
<1>3. CASE Redeliver \/ Respawn
  BY <1>3 DEF Redeliver, Respawn, Throw, NextSlot
<1>4. CASE CollectExpired \/ CollectEvent
  BY <1>4 DEF CollectExpired, CollectEvent, Collect, Goto, Throw
<1>5. CASE CheckWork \/ CvCheck \/ CvBlock \/ SpuriousWake \/ Poll \/ PollTimeout \/ PollFails \/ WaitOne
  BY <1>5 DEF CheckWork, CvCheck, CvBlock, SpuriousWake, Poll, PollTimeout, PollFails, WaitOne,
              Goto, Throw
<1>6. CASE StopWorkers
  BY <1>6 DEF StopWorkers, WorkersLocked
<1>7. CASE Notify \/ Submit \/ Stop \/ StopImmediately \/ UNCHANGED vars
  BY <1>7 DEF Notify, Submit, Stop, StopImmediately, vars
<1>8. ASSUME NEW w \in Workers, ChildEvent(w) \/ DeadlinePasses(w) PROVE ShutdownInv'
  BY <1>8 DEF ChildEvent, DeadlinePasses
<1> QED
  BY <1>1, <1>2, <1>3, <1>4, <1>5, <1>6, <1>7, <1>8 DEF Next, InWaitOne, InClientCall, Environment

-----------------------------------------------------------------------------
(* What the client thread and the environment cannot do to the consumer.    *)
Aside ==
    /\ UNCHANGED <<answer, item, undelivered, returned, error>>
    /\ Ended' = Ended /\ Submitted \subseteq Submitted'
    /\ cpc = "outside" <=> cpc' = "outside"

LEMMA ClientStep ==
    ASSUME TypeInv, \/ Submit \/ Stop \/ StopImmediately \/ InClientCall \/ Environment
                    \/ UNCHANGED vars
    PROVE  Aside
<1> USE DEF pool, slots, consumer, history
<1>1. /\ UNCHANGED <<answer, item, undelivered, returned, error>>
      /\ cpc = "outside" <=> cpc' = "outside"
      /\ nextId' = nextId \/ nextId' = nextId + 1
  <2>1. CASE Environment
    BY <2>1 DEF Environment, ChildEvent, DeadlinePasses, SpuriousWake, Goto
  <2>2. CASE InClientCall
    BY <2>2 DEF InClientCall, StopWorkers, Notify
  <2>3. CASE Submit \/ Stop \/ StopImmediately \/ UNCHANGED vars
    BY <2>3 DEF Submit, Stop, StopImmediately, vars
  <2> QED BY <2>1, <2>2, <2>3
<1>2. Submitted \subseteq Submitted'
  BY <1>1, PoolAssumption DEF Submitted, TypeInv, TypeOK
<1>3. Ended' = Ended
  BY <1>1 DEF Ended, Answered, InHands
<1> QED BY <1>1, <1>2, <1>3 DEF Aside

(* How a step of wait_one() ends: not yet; with a result; with an exception *)
(* for which a task is to blame, or with one that says the pool is done.    *)
GoesOn  == cpc' # "outside" /\ error' = "none" /\ Ended' = Ended /\ returned' = returned
Returns == /\ cpc' = "outside" /\ error' = "none"
           /\ \E t \in Ids : returned' = returned \cup {t} /\ Ended' = Ended \cup {t} /\ t \notin Ended
Throws  == /\ cpc' = "outside" /\ error' # "none" /\ returned' = returned
           /\ Ended' = Ended \/ \E t \in Ids : Ended' = Ended \cup {t}
           /\ \/ error' = "stopped" /\ pstate = "stopped"
              \/ error' = "drained"
              \/ Submitted \ returned # {}

(* The tasks of the pool that are not returned. *)
LEMMA NotReturned ==
    ASSUME HomeInv
    PROVE  /\ returned \subseteq Ended
           /\ Ended \subseteq Submitted
           /\ (Queued \cup Running \cup InHands) \subseteq Submitted \ returned
           /\ (Queued \cup Running) \cap Ended = {} /\ InHands \cap Ended = {}
  BY DEF HomeInv, Split, Ended

LEMMA SendEnds ==
    ASSUME TypeInv, HomeInv, error = "none", DispatchSend
    PROVE  GoesOn \/ Throws
<1>1. /\ cpc' = "outside" => error' \in {"dispatch", "args"}
      /\ cpc' # "outside" => error' = error
      /\ returned' = returned
  BY DEF DispatchSend, SendAccepted, SendUnserializable, SendThrows, SendPoisoned, Throw, NextSlot, slots, history
<1>2. PICK t \in Ids : Sent(t)
  BY SendMoves
<1>3. t \in Queued /\ t \notin Answered /\ InHands = {} /\ Answered' = Answered
  BY <1>2 DEF Sent, HomeInv, Split
<1>4. t \in Submitted \ returned
  BY <1>3, NotReturned
<1>5. \/ cpc' # "outside" /\ undelivered' = undelivered /\ InHands' \in {{}, {t}}
      \/ cpc' = "outside" /\ undelivered' = undelivered \cup {t} /\ InHands' = {}
  BY <1>2 DEF Sent
<1>6. \/ cpc' # "outside" /\ Ended' = Ended
      \/ cpc' = "outside" /\ Ended' = Ended \cup {t}
  BY <1>3, <1>5 DEF Ended
<1> QED BY <1>1, <1>4, <1>6 DEF GoesOn, Throws

LEMMA RedeliverEnds ==
    ASSUME TypeInv, HomeInv, error = "none", Redeliver
    PROVE  GoesOn \/ Throws
<1>1. /\ cpc' = "outside" => error' = "dispatch"
      /\ cpc' # "outside" => error' = error
  BY DEF Redeliver, Throw, NextSlot
<1>2. Redelivered
  BY RedeliverMoves
<1>3. /\ item \in Ids /\ InHands = {item} /\ item \notin Answered
      /\ InHands' = {} /\ Answered' = Answered /\ returned' = returned
      /\ \/ cpc' # "outside" /\ undelivered' = undelivered
         \/ cpc' = "outside" /\ undelivered' = undelivered \cup {item}
  BY <1>2 DEF Redelivered
<1>4. item \in Submitted \ returned
  BY <1>3, NotReturned
<1>5. \/ cpc' # "outside" /\ Ended' = Ended
      \/ cpc' = "outside" /\ Ended' = Ended \cup {item}
  BY <1>3 DEF Ended
<1> QED BY <1>1, <1>3, <1>4, <1>5 DEF GoesOn, Throws

LEMMA RespawnEnds ==
    ASSUME TypeInv, HomeInv, error = "none", Respawn
    PROVE  Returns \/ Throws
<1>1. \/ returned' = returned \cup {item} /\ error' = error
      \/ returned' = returned /\ error' = "dispatch"
  BY DEF Respawn, Throw
<1>2. HandedOver
  BY RespawnMoves
<1>3. /\ item \in Ids /\ InHands = {item} /\ item \in Answered /\ cpc' = "outside"
      /\ InHands' = {} /\ Answered' = Answered /\ undelivered' = undelivered
  BY <1>2 DEF HandedOver
<1>4. item \in Submitted \ returned /\ item \notin Ended
  BY <1>3, NotReturned
<1>5. Ended' = Ended \cup {item}
  BY <1>3 DEF Ended
<1> QED BY <1>1, <1>3, <1>4, <1>5 DEF Returns, Throws

LEMMA CollectEnds ==
    ASSUME HomeInv, error = "none", NEW t \in Ids, Collected(t), error' = error
    PROVE  GoesOn
<1>1. t \in Running /\ Answered' = Answered \cup {t} /\ InHands = {} /\ InHands' = {t}
      /\ undelivered' = undelivered /\ returned' = returned /\ cpc' = "respawn"
  BY DEF Collected
<1>2. t \notin Answered
  BY <1>1 DEF HomeInv, Split
<1>3. Ended' = Ended
  BY <1>1, <1>2 DEF Ended
<1> QED BY <1>1, <1>3 DEF GoesOn

(* The steps that touch no task. *)
LEMMA QuietEnds ==
    ASSUME HomeInv, error = "none", UNCHANGED <<answer, undelivered, returned>>,
           InHands' = InHands,
           \/ cpc' # "outside" /\ error' = error
           \/ /\ cpc' = "outside" /\ error' # "none"
              /\ \/ error' = "stopped" /\ pstate = "stopped"
                 \/ error' = "drained"
                 \/ Queued \cup Running # {}
    PROVE  GoesOn \/ Throws
<1>1. Ended' = Ended
  BY DEF Ended, Answered
<1>2. Queued \cup Running # {} => Submitted \ returned # {}
  BY NotReturned
<1> QED BY <1>1, <1>2 DEF GoesOn, Throws

LEMMA WaitStep ==
    ASSUME TypeInv, HomeInv, ShutdownInv, error = "none", InWaitOne
    PROVE  GoesOn \/ Returns \/ Throws
<1> USE DEF pool, slots, consumer, history
<1>1. item = NoId <=> cpc \notin {"redeliver", "respawn"}
  BY DEF TypeInv, Shapes
<1>2. CASE Loop \/ LockForDispatch \/ DispatchEnds \/ DispatchSkip \/ CheckWork \/ CvCheck
           \/ CvBlock \/ Poll \/ PollTimeout
  <2>1. /\ UNCHANGED <<answer, undelivered, returned>> /\ InHands' = InHands
        /\ \/ cpc' # "outside" /\ error' = error
           \/ /\ cpc' = "outside" /\ error' # "none"
              /\ \/ error' = "stopped" /\ pstate = "stopped"
                 \/ error' = "drained"
    BY <1>1, <1>2 DEF Loop, LockForDispatch, DispatchEnds, DispatchSkip, Dispatching, CheckWork,
                      CvCheck, CvBlock, Poll, PollTimeout, Throw, Goto, NextSlot, InHands
  <2> QED BY <2>1, QuietEnds
<1>3. CASE DispatchSpawn
  <2>1. /\ UNCHANGED <<answer, undelivered, returned>> /\ InHands' = InHands
        /\ \/ cpc' # "outside" /\ error' = error
           \/ cpc' = "outside" /\ error' = "dispatch"
        /\ pending # <<>>
    <3>1. /\ cpc = "dispatch" /\ pending # <<>> /\ UNCHANGED <<answer, undelivered, returned>>
          /\ \/ UNCHANGED <<cpc, error, item>>
             \/ cpc' = "outside" /\ error' = "dispatch" /\ item' = NoId
      BY <1>3 DEF DispatchSpawn, Dispatching, Throw
    <3> QED BY <1>1, <3>1 DEF InHands
  <2>2. Queued # {}
    <3>1. pending \in Seq(Records)
      BY DEF TypeInv, TypeOK, Records
    <3>2. 1 \in DOMAIN pending
      BY <2>1, <3>1, EmptySeq, LenProperties
    <3> QED BY <3>2 DEF Queued, IdsOf
  <2> QED BY <2>1, <2>2, QuietEnds
<1>4. CASE PollFails
  <2>1. /\ UNCHANGED <<answer, undelivered, returned>> /\ InHands' = InHands
        /\ cpc' = "outside" /\ error' = "poll" /\ cpc = "polling"
    BY <1>1, <1>4 DEF PollFails, Throw, InHands
  <2>2. Running # {}
    BY <2>1 DEF ShutdownInv, Running, TypeInv, Shapes
  <2> QED BY <2>1, <2>2, QuietEnds
<1>5. CASE CollectExpired
  <2>1. CASE pstate # "stopped" /\ Expired # {}
    <3>1. Collected(task[Least(Expired)])
      BY <1>5, <2>1, LeastCandidates, CollectMoves DEF CollectExpired
    <3>2. error' = error
      BY <1>5, <2>1 DEF CollectExpired, Collect
    <3>3. task[Least(Expired)] \in Ids
      BY <3>1 DEF Collected
    <3> QED BY <3>1, <3>2, <3>3, CollectEnds
  <2>2. CASE ~(pstate # "stopped" /\ Expired # {})
    <3>1. /\ UNCHANGED <<answer, undelivered, returned>> /\ InHands' = InHands
          /\ \/ cpc' # "outside" /\ error' = error
             \/ cpc' = "outside" /\ error' = "stopped" /\ pstate = "stopped"
      BY <1>1, <1>5, <2>2 DEF CollectExpired, Throw, Goto, InHands
    <3> QED BY <3>1, QuietEnds
  <2> QED BY <2>1, <2>2
<1>6. CASE CollectEvent
  <2>1. Collected(task[Least(ReadySlots)])
    BY <1>6, LeastCandidates, CollectMoves DEF CollectEvent
  <2>2. error' = error
    BY <1>6 DEF CollectEvent, Collect
  <2>3. task[Least(ReadySlots)] \in Ids
    BY <2>1 DEF Collected
  <2> QED BY <2>1, <2>2, <2>3, CollectEnds
<1> QED BY <1>2, <1>3, <1>4, <1>5, <1>6, SendEnds, RedeliverEnds, RespawnEnds DEF InWaitOne

LEMMA WaitFrame == ASSUME InWaitOne PROVE UNCHANGED <<pstate, nextId, mpc, discarded, Submitted>>
<1> USE DEF pool, slots, consumer, history, Submitted
<1>1. CASE Loop \/ LockForDispatch \/ DispatchEnds \/ DispatchSkip \/ DispatchSpawn \/ CheckWork
           \/ CvCheck \/ CvBlock \/ Poll \/ PollTimeout \/ PollFails
  BY <1>1 DEF Loop, LockForDispatch, DispatchEnds, DispatchSkip, DispatchSpawn, CheckWork,
              CvCheck, CvBlock, Poll, PollTimeout, PollFails
<1>2. CASE DispatchSend \/ Redeliver \/ Respawn
  BY <1>2 DEF DispatchSend, SendAccepted, SendUnserializable, SendThrows, SendPoisoned, Redeliver, Respawn
<1>3. CASE CollectExpired \/ CollectEvent
  BY <1>3 DEF CollectExpired, CollectEvent, Collect
<1> QED BY <1>1, <1>2, <1>3 DEF InWaitOne

(* A pool that is drained stays so, whoever else calls it. *)
LEMMA DrainedStays ==
    ASSUME TypeInv, HomeInv, pstate # "accepting", pending = <<>>, \A w \in Workers : ~Busy(w),
           discarded = {},
           \/ Submit \/ Stop \/ StopImmediately \/ InClientCall \/ Environment \/ UNCHANGED vars
    PROVE  (pstate # "accepting" /\ pending = <<>> /\ (\A w \in Workers : ~Busy(w)) /\ discarded = {})'
<1> USE DEF pool, slots, consumer, history, Busy
<1>1. CASE StopWorkers
  <2>1. Queued = {} /\ Running = {}
    BY DEF Queued, IdsOf, Running, TypeInv, Shapes
  <2>2. discarded' = discarded \cup Queued \cup Running
    BY <1>1, StopMoves DEF Dropped
  <2> QED BY <1>1, <2>1, <2>2 DEF StopWorkers
<1>2. CASE Submit \/ Stop \/ StopImmediately \/ Notify \/ UNCHANGED vars
  BY <1>2 DEF Submit, Stop, StopImmediately, Notify, vars
<1>3. CASE Environment
  BY <1>3 DEF Environment, ChildEvent, DeadlinePasses, SpuriousWake
<1> QED BY <1>1, <1>2, <1>3 DEF InClientCall

-----------------------------------------------------------------------------
RunPart == RunTypes /\ StageInv /\ HandledInv /\ SwallowInv /\ BlameInv

(* The consumer thread. *)
LEMMA InPoolKeeps == ASSUME RunInv, InPool PROVE RunPart'
<1> USE DEF RunInv, PoolPart, RunPart
<1>0. /\ hpc = "waiting" /\ error = "none" /\ Ended = handled /\ consumerException = FALSE
      /\ InWaitOne /\ UNCHANGED <<main, handled, outcome>>
  BY DEF InPool, StageInv, HandledInv, RunTypes
<1>1. /\ hpc = "waiting" /\ error = "none" /\ Ended = handled /\ consumerException = FALSE
      /\ InWaitOne /\ UNCHANGED <<main, handled, outcome>>
      /\ \/ hpc' = "waiting" /\ cpc' # "outside" /\ consumerException' = FALSE
         \/ hpc' = "handling" /\ cpc' = "outside" /\ error' = "none" /\ consumerException' = FALSE
         \/ hpc' = "caught" /\ cpc' = "outside" /\ error' # "none" /\ consumerException' = FALSE
         \/ /\ hpc' = "finished" /\ cpc' = "outside" /\ error' \in {"args", "poll"}
            /\ consumerException' = TRUE
  BY <1>0 DEF InPool
<1>2. GoesOn \/ Returns \/ Throws
  BY <1>1, WaitStep
<1>3. UNCHANGED <<pstate, nextId, mpc, discarded, Submitted>>
  BY <1>1, WaitFrame
<1>4. RunTypes' /\ SwallowInv'
  BY <1>1 DEF RunTypes, SwallowInv
<1>5. StageInv'
  BY <1>1, <1>2, <1>3 DEF StageInv, GoesOn, Returns, Throws
<1>6. HandledInv'
  <2>1. CASE GoesOn
    BY <1>1, <2>1 DEF GoesOn, HandledInv
  <2>2. CASE Returns
    <3>1. PICK t \in Ids : returned' = returned \cup {t} /\ Ended' = Ended \cup {t} /\ t \notin Ended
      BY <2>2 DEF Returns
    <3>2. hpc' = "handling"
      BY <1>1, <2>2 DEF Returns
    <3> QED BY <1>1, <3>1, <3>2 DEF HandledInv
  <2>3. CASE Throws
    BY <1>1, <2>3 DEF Throws, HandledInv
  <2> QED BY <1>2, <2>1, <2>2, <2>3
<1>7. BlameInv'
  <2>1. CASE Throws
    <3>1. outcome # "threw_producer" => pstate # "stopped"
      BY <1>1 DEF StageInv, RunTypes
    <3>2. outcome # "threw_producer" => error' = "drained" \/ Submitted \ handled # {}
      BY <2>1, <3>1 DEF Throws, HandledInv
    <3> QED BY <1>1, <1>3, <3>2 DEF BlameInv
  <2>2. CASE GoesOn \/ Returns
    BY <1>1, <2>2 DEF GoesOn, Returns, BlameInv
  <2> QED BY <1>2, <2>1, <2>2
<1> QED BY <1>4, <1>5, <1>6, <1>7

LEMMA CallKeeps == ASSUME RunInv, CallWaitOne PROVE RunPart'
<1> USE DEF RunInv, PoolPart, RunPart
<1>1. /\ UNCHANGED <<main, hpc, consumerException, handled, outcome>> /\ hpc = "waiting"
      /\ UNCHANGED <<pstate, pending, slot, discarded, answer, undelivered, returned, nextId, item>>
      /\ cpc' # "outside" /\ error' = "none"
  BY DEF CallWaitOne, WaitOne, run, pool, slots, history
<1>2. Ended' = Ended /\ Submitted' = Submitted
  BY <1>1 DEF Ended, Answered, InHands, Submitted
<1> QED BY <1>1, <1>2 DEF RunTypes, StageInv, HandledInv, SwallowInv, BlameInv

LEMMA HandleKeeps == ASSUME RunInv, Handle \/ Caught PROVE RunPart'
<1> USE DEF RunInv, PoolPart, RunPart
<1>1. /\ UNCHANGED <<main, outcome>> /\ hpc \in {"handling", "caught"}
      /\ UNCHANGED <<pstate, pending, slot, discarded, answer, undelivered, returned, nextId, item,
                     cpc, error, mpc>>
  BY DEF Handle, Caught, vars, pool, slots, consumer, history
<1>2. Ended' = Ended /\ Submitted' = Submitted /\ ~consumerException
  BY <1>1 DEF Ended, Answered, InHands, Submitted, StageInv, RunTypes
<1>3. CASE Handle
  <2>1. PICK t \in returned \ handled :
           \/ handled' = handled \cup {t} /\ hpc' = "waiting" /\ consumerException' = consumerException
           \/ handled' = handled /\ hpc' = "caught" /\ consumerException' = consumerException
           \/ handled' = handled /\ hpc' = "finished" /\ consumerException' = TRUE
    BY <1>3 DEF Handle
  <2>2. t \in Submitted /\ Ended = handled \cup {t} /\ hpc = "handling"
    BY <1>3, <2>1, NotReturned DEF HandledInv, Handle
  <2>3. RunTypes' /\ StageInv'
    <3>1. main \in {"produce", "join"} /\ cpc = "outside" /\ error = "none"
      BY <2>2 DEF RunTypes, StageInv
    <3>2. RunTypes'
      BY <1>1, <1>2, <2>1 DEF RunTypes
    <3>3. /\ main' = main /\ outcome' = outcome /\ cpc' = "outside" /\ error' = "none"
          /\ outcome # "threw_consumer" /\ outcome # "returned"
          /\ main = "produce" => outcome = "none"
          /\ outcome = "none" => pstate' # "stopped"
          /\ outcome \in {"none", "threw_producer"}
      BY <1>1, <3>1 DEF StageInv
    <3>4. consumerException' => hpc' = "finished"
      BY <1>2, <2>1
    <3> QED BY <3>1, <3>2, <3>3, <3>4 DEF StageInv
  <2>4. HandledInv'
    BY <1>1, <1>2, <2>1, <2>2 DEF HandledInv
  <2>5. SwallowInv' /\ BlameInv'
    BY <1>1, <1>2, <2>1, <2>2 DEF SwallowInv, BlameInv
  <2> QED BY <2>3, <2>4, <2>5
<1>4. CASE Caught
  <2>1. hpc = "caught" /\ hpc' = "finished" /\ consumerException' = ~Drained /\ handled' = handled
    BY <1>4 DEF Caught
  <2>2. RunTypes' /\ StageInv'
    BY <1>1, <1>2, <2>1 DEF RunTypes, StageInv, Drained
  <2>3. HandledInv'
    BY <1>1, <1>2, <2>1 DEF HandledInv
  <2>4. SwallowInv'
    BY <1>1, <2>1 DEF SwallowInv, Drained, HasWork, Busy, ShutdownInv
  <2>5. BlameInv'
    <3>1. outcome # "threw_producer" => pstate # "stopped"
      BY <2>1 DEF StageInv, RunTypes
    <3>2. error = "drained" /\ outcome # "threw_producer" => Drained
      BY <3>1 DEF DrainInv, Drained, TypeInv, TypeOK
    <3> QED BY <1>1, <1>2, <2>1, <3>2 DEF BlameInv
  <2> QED BY <2>2, <2>3, <2>4, <2>5
<1> QED BY <1>3, <1>4

(* The main thread and the environment. *)
LEMMA OthersKeep ==
    ASSUME RunInv, Main \/ RunEnvironment \/ UNCHANGED allvars
    PROVE  RunPart'
<1> USE DEF RunInv, PoolPart, RunPart
<1>1. /\ \/ Submit \/ Stop \/ StopImmediately \/ InClientCall \/ Environment \/ UNCHANGED vars
      /\ UNCHANGED <<hpc, consumerException, handled>>
  BY DEF Main, RunEnvironment, ProduceTask, ProduceEnds, ProduceThrows, InCall, Join, Destroy,
         Leave, run, allvars
<1>2. Aside
  BY <1>1, ClientStep
<1>3. SwallowInv'
  BY <1>1, DrainedStays DEF SwallowInv
<1>4. HandledInv'
  BY <1>1, <1>2 DEF HandledInv, Aside
<1>5. RunTypes' /\ StageInv'
  <2>1. CASE UNCHANGED <<main, outcome>> /\ (pstate' = "stopped" => pstate = "stopped")
    BY <1>1, <1>2, <2>1 DEF RunTypes, StageInv, Aside
  <2>2. CASE ProduceTask \/ InCall \/ RunEnvironment \/ UNCHANGED allvars
    <3>1. UNCHANGED <<main, outcome>>
      BY <2>2 DEF ProduceTask, InCall, RunEnvironment, run, allvars
    <3>2. pstate' = pstate
      BY <2>2 DEF ProduceTask, Submit, InCall, InClientCall, StopWorkers, Notify, RunEnvironment,
                  Environment, ChildEvent, DeadlinePasses, SpuriousWake, allvars, vars, pool
    <3> QED BY <2>1, <3>1, <3>2
  <2>3. CASE ProduceEnds
    BY <1>1, <1>2, <2>3 DEF ProduceEnds, Stop, RunTypes, StageInv, Aside
  <2>4. CASE ProduceThrows \/ Join \/ Destroy \/ Leave
    BY <1>1, <1>2, <2>4 DEF ProduceThrows, Join, Destroy, Leave, vars, pool, RunTypes, StageInv, Aside
  <2> QED BY <2>2, <2>3, <2>4 DEF Main
<1>6. BlameInv'
  <2>1. outcome' # "threw_producer" => outcome # "threw_producer"
    BY DEF Main, RunEnvironment, ProduceTask, ProduceEnds, ProduceThrows, InCall, Join, Destroy,
           Leave, run, allvars
  <2> QED BY <1>1, <1>2, <2>1 DEF BlameInv, Aside
<1> QED BY <1>3, <1>4, <1>5, <1>6

LEMMA RunInductive == RunSpec => []RunInv
<1>1. RunInit => RunInv
  <2> SUFFICES ASSUME RunInit PROVE RunInv
    OBVIOUS
  <2>1. Init
    BY DEF RunInit
  <2>2. TypeInv /\ HomeInv
    BY <2>1, TypeInit, HomeInit
  <2>3. DrainInv /\ ShutdownInv
    BY <2>1 DEF Init, DrainInv, ShutdownInv
  <2>4. Ended = {} /\ returned = {}
    BY <2>1 DEF Init, Ended, Answered
  <2>5. RunTypes /\ StageInv
    BY <2>1 DEF Init, RunInit, RunTypes, StageInv
  <2>6. HandledInv /\ SwallowInv /\ BlameInv
    BY <2>4 DEF RunInit, HandledInv, SwallowInv, BlameInv
  <2> QED BY <2>2, <2>3, <2>5, <2>6 DEF RunInv, PoolPart
<1>2. RunInv /\ [RunNext]_allvars => RunInv'
  <2> SUFFICES ASSUME RunInv, [RunNext]_allvars PROVE RunInv'
    OBVIOUS
  <2>1. PoolPart'
    BY PoolSteps, TypeStep, HomeStep, DrainStep, ShutdownStep DEF RunInv, PoolPart
  <2>2. RunPart'
    BY InPoolKeeps, CallKeeps, HandleKeeps, OthersKeep DEF RunNext, Consumer
  <2> QED BY <2>1, <2>2 DEF RunInv, RunPart
<1> QED BY <1>1, <1>2, PTL DEF RunSpec

-----------------------------------------------------------------------------
(* The types of the run; only results that were returned are recorded.      *)
THEOREM RunTypesHold == RunSpec => []RunTypeOK
<1>1. RunInv => RunTypeOK
  BY DEF RunInv, PoolPart, TypeInv, RunTypes, HandledInv, RunTypeOK
<1> QED BY <1>1, RunInductive, PTL

(* A run that returns has hidden one task at most, the one an exception of  *)
(* the consumer was about; one that fails with that exception did leave a   *)
(* task unrecorded.                                                         *)
THEOREM OneSwallowedAtMost == RunSpec => []AtMostOneSwallowed
<1>1. RunInv => AtMostOneSwallowed
  <2> SUFFICES ASSUME RunInv PROVE AtMostOneSwallowed
    OBVIOUS
  <2> USE DEF RunInv, PoolPart
  <2>1. ASSUME main = "done", outcome = "returned" PROVE Cardinality(Submitted \ handled) <= 1
    <3>1. hpc = "finished" /\ ~consumerException /\ cpc = "outside"
      BY <2>1 DEF StageInv
    <3>2. Queued = {} /\ Running = {} /\ InHands = {} /\ discarded = {}
      BY <3>1 DEF SwallowInv, Queued, IdsOf, Running, InHands, TypeInv, Shapes
    <3>3. Submitted = Ended
      BY <3>2 DEF HomeInv, Split, Ended
    <3>4. PICK t : Submitted \ handled \subseteq {t}
      BY <3>3 DEF HandledInv
    <3>5. Submitted \ handled = {} \/ Submitted \ handled = {t}
      BY <3>4
    <3>6. CASE Submitted \ handled = {}
      <4>1. Cardinality({}) = 0
        BY FS_EmptySet
      <4> QED BY <3>6, <4>1
    <3>7. CASE Submitted \ handled = {t}
      <4>1. Cardinality({t}) = 1
        BY FS_Singleton
      <4> QED BY <3>7, <4>1
    <3> QED BY <3>5, <3>6, <3>7
  <2>2. outcome = "threw_consumer" => Submitted \ handled # {}
    BY DEF StageInv, BlameInv
  <2> QED BY <2>1, <2>2 DEF AtMostOneSwallowed
<1> QED BY <1>1, RunInductive, PTL
=============================================================================
