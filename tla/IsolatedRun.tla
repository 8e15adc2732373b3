----------------------------- MODULE IsolatedRun -----------------------------
(***************************************************************************)
(* run_isolated_fuzz() of fuzz/utils.hpp: the main thread feeds the pool   *)
(* and shuts it down, the consumer thread takes the results and hands them *)
(* to the recorder, and an exception of either one decides how fuzz() ends.*)
(* The calls of both threads into the pool are the actions of WorkerPool.  *)
(***************************************************************************)
EXTENDS WorkerPool

VARIABLES
    main,       \* where the main thread is
    hpc,        \* where the consumer thread is outside wait_one()
    consumerException,  \* consumer_exception is set
    handled,    \* tasks whose result went through the recorder
    outcome     \* how fuzz() is left: "none", "returned", "threw_producer", "threw_consumer"

run     == <<main, hpc, consumerException, handled, outcome>>
allvars == <<vars, run>>

RunInit ==
    /\ Init
    /\ main = "produce" /\ hpc = "waiting"
    /\ consumerException = FALSE /\ handled = {} /\ outcome = "none"

-----------------------------------------------------------------------------
(* The consumer thread *)

CallWaitOne ==
    /\ hpc = "waiting" /\ WaitOne
    /\ UNCHANGED run

(* What a copy of the arguments throws need not be a runtime_error.        *)
InPool ==
    /\ hpc = "waiting" /\ InWaitOne
    /\ \/ /\ hpc' = IF cpc' # "outside" THEN "waiting"
                    ELSE IF error' = "none" THEN "handling" ELSE "caught"
          /\ UNCHANGED consumerException
       \/ /\ cpc' = "outside" /\ error' \in {"args", "poll"}
          /\ hpc' = "finished"
          /\ consumerException' = TRUE
    /\ UNCHANGED <<main, handled, outcome>>

(* record_result() and publish(); an ok result touches neither.            *)
Handle ==
    /\ hpc = "handling"
    /\ \E t \in returned \ handled :
       \/ /\ handled' = handled \cup {t}
          /\ hpc' = "waiting"
          /\ UNCHANGED consumerException
       \/ /\ answer[t] # "ok"            \* the artifact or the index cannot be written
          /\ hpc' = "caught"
          /\ UNCHANGED <<handled, consumerException>>
       \/ /\ answer[t] # "ok"            \* an exception that is no runtime_error
          /\ hpc' = "finished"
          /\ consumerException' = TRUE
          /\ UNCHANGED handled
    /\ UNCHANGED <<vars, main, outcome>>

(* Mutant: a runtime_error only counts while the pool still accepts tasks. *)
Caught_OnlyWhileAccepting ==
    /\ hpc = "caught"
    /\ hpc' = "finished"
    /\ consumerException' = (pstate = "accepting")
    /\ UNCHANGED <<vars, main, handled, outcome>>

(* catch (const std::runtime_error&): kept unless the pool is drained.     *)
Caught ==
    /\ hpc = "caught"
    /\ hpc' = "finished"
    /\ consumerException' = ~Drained
    /\ UNCHANGED <<vars, main, handled, outcome>>

Consumer == CallWaitOne \/ InPool \/ Handle \/ Caught

-----------------------------------------------------------------------------
(* The main thread *)

ProduceTask ==
    /\ main = "produce" /\ Submit
    /\ UNCHANGED run

(* The providers are exhausted. *)
ProduceEnds ==
    /\ main = "produce" /\ Stop
    /\ main' = "join"
    /\ UNCHANGED <<hpc, consumerException, handled, outcome>>

(* A provider, a copy of the arguments or submit() throws. *)
ProduceThrows ==
    /\ main = "produce" /\ StopImmediately
    /\ main' = "join"
    /\ outcome' = "threw_producer"
    /\ UNCHANGED <<hpc, consumerException, handled>>

InCall == InClientCall /\ UNCHANGED run

(* consumer.join() and what follows it *)
Join ==
    /\ main = "join" /\ mpc = "outside" /\ hpc = "finished"
    /\ IF outcome = "none" /\ consumerException
       THEN /\ outcome' = "threw_consumer"
            /\ StopImmediately
       ELSE /\ outcome' = IF outcome = "none" THEN "returned" ELSE outcome
            /\ UNCHANGED vars
    /\ main' = "destroy"
    /\ UNCHANGED <<hpc, consumerException, handled>>

(* ~worker_pool() *)
Destroy ==
    /\ main = "destroy" /\ StopImmediately
    /\ main' = "leave"
    /\ UNCHANGED <<hpc, consumerException, handled, outcome>>

Leave ==
    /\ main = "leave" /\ mpc = "outside"
    /\ main' = "done"
    /\ UNCHANGED <<vars, hpc, consumerException, handled, outcome>>

Main ==
    \/ ProduceTask \/ ProduceEnds \/ ProduceThrows
    \/ InCall \/ Join \/ Destroy \/ Leave

RunEnvironment == Environment /\ UNCHANGED run

RunNext == Consumer \/ Main \/ RunEnvironment

RunSpec == RunInit /\ [][RunNext]_allvars

(* Both threads run and every task deadline passes (task_timeout is set by *)
(* default); the children need not answer, a send() need not end, and      *)
(* nobody wakes a sleeping consumer without a reason.                      *)
RunFairSpec ==
    /\ RunSpec
    /\ WF_allvars(Consumer /\ ~Sending)
    /\ WF_allvars(Main)
    /\ \A w \in Workers : WF_allvars(DeadlinePasses(w) /\ UNCHANGED run)

(* The same where every request fits into its socket: every send() ends.   *)
RunSendsEndSpec == RunFairSpec /\ WF_allvars(InPool)

-----------------------------------------------------------------------------
(* Properties *)

RunTypeOK ==
    /\ TypeOK
    /\ main \in {"produce", "join", "destroy", "leave", "done"}
    /\ hpc \in {"waiting", "handling", "caught", "finished"}
    /\ consumerException \in BOOLEAN
    /\ handled \subseteq returned
    /\ outcome \in {"none", "returned", "threw_producer", "threw_consumer"}

(* README, worker pool flow: "consumer drains accepted work", "recorder /  *)
(* dashboard consume results".  When fuzz() returns normally, every task   *)
(* that was submitted has had its result recorded.                         *)
NormalReturnMeansAllHandled ==
    main = "done" /\ outcome = "returned" => Submitted \subseteq handled

(* What the code does keep: the exception test of the consumer, made when  *)
(* nothing is queued or in flight any more, can hide one task, the one the *)
(* exception was about, and never more; and fuzz() only fails with that    *)
(* exception if some task did go unrecorded, never for running dry.        *)
AtMostOneSwallowed ==
    /\ main = "done" /\ outcome = "returned" => Cardinality(Submitted \ handled) <= 1
    /\ outcome = "threw_consumer" => Submitted \ handled # {}

(* worker_pool.hpp:79 of stop(): "Stops accepting new tasks but lets       *)
(* pending/in-flight tasks finish."  Every isolated run ends.              *)
RunEnds == <>(main = "done")

(* What the code does keep: a run that does not end has done all its work  *)
(* and sleeps in wait_one() on a notification that was sent too early, or  *)
(* is inside a send() that does not end.  One that fails in the producer   *)
(* never oversleeps, for stop_immediately() takes m_pending_mutex before   *)
(* it notifies.                                                            *)
AsleepForGood ==
    /\ main = "join" /\ mpc = "outside"
    /\ cpc = "asleep" /\ pstate = "finishing" /\ ~HasWork

RunEndsOrOversleeps ==
    \/ <>[](main = "done" \/ (AsleepForGood /\ outcome # "threw_producer"))
    \/ <>[]Sending
=============================================================================
