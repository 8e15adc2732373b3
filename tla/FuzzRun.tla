------------------------------- MODULE FuzzRun -------------------------------
(***************************************************************************)
(* fuzz() from its first line to its last, several times on one output      *)
(* directory: the argument stream feeds the target in process, or the pool  *)
(* whose results a consumer thread takes; failures go to the recorder; the  *)
(* process may die at any step and a later one finds what is on the disk.   *)
(*                                                                          *)
(* The pool is what TaskLedger promises of it: a submitted task comes back  *)
(* once, in any order and with any status.                                  *)
(***************************************************************************)
EXTENDS ArgStream, FailureRecorder

CONSTANTS UseRecorder,  \* options.use_recorder
          MaxRuns,      \* bound: calls of fuzz(), over all processes
          MaxFailures   \* bound: failing calls, over all of them

ASSUME RunAssumption ==
    UseRecorder \in BOOLEAN /\ MaxRuns \in Nat /\ MaxFailures \in Nat

VARIABLES
    run,        \* number of the current call of fuzz()
    isolated,   \* options.isolation_mode
    pc,         \* the thread that called fuzz()
    cpc,        \* the consumer thread of the isolated mode
    todo,       \* tasks submitted and not yet returned by wait_one()
    stopped,    \* pool.stop() was called
    failing,    \* consumer_exception is set
    failed,     \* history: tasks of the run whose failure was seen, in order
    failures,   \* how many failures there were in all runs
    ever,       \* history: arguments some run saw fail
    swallowed,  \* history: the consumer dropped an exception of the recorder
    left        \* how fuzz() was last left

control  == <<run, isolated, left>>
pool     == <<todo, stopped>>
consumer == <<cpc, failing, swallowed>>
seen     == <<failed, failures, ever>>
vars == <<callers, stream, disk, memory, control, pc, pool, consumer, seen>>

Failures == {"exception", "crash"}

Init ==
    /\ StreamInit /\ RecInit
    /\ run = 0 /\ isolated = FALSE /\ left = "never"
    /\ pc = "outside" /\ cpc = "none"
    /\ todo = {} /\ stopped = FALSE
    /\ failing = FALSE /\ swallowed = FALSE
    /\ failed = <<>> /\ failures = 0 /\ ever = {}

-----------------------------------------------------------------------------
(* fuzz() is entered with a mode and options, possibly by a new process. *)
Enter ==
    /\ pc = "outside" /\ run < MaxRuns
    /\ run' = run + 1
    /\ isolated' \in BOOLEAN /\ left' = "no"
    /\ mode' \in {"zip", "grid", "bin"}
    /\ level' = 0 /\ storage' = <<>> /\ calls' = <<>>
    /\ pc' = IF UseRecorder THEN "construct" ELSE "start"
    /\ todo' = {} /\ stopped' = FALSE
    /\ failing' = FALSE /\ swallowed' = FALSE /\ failed' = <<>>
    /\ UNCHANGED <<callers, idx, cursor, start, disk, memory, cpc, failures, ever>>

Leave(how) ==
    /\ pc' = "outside" /\ left' = how /\ cpc' = "none"
    /\ Discard
    /\ UNCHANGED <<callers, stream, run, isolated, pool, failing, swallowed, seen>>

(* recorder.emplace(options.output_dir) *)
MakeRecorder ==
    /\ pc = "construct"
    /\ \/ Construct /\ UNCHANGED <<pc, left, cpc, run, isolated, pool,
                                   failing, swallowed, seen, callers, stream>>
       \/ /\ (FlushOpen(run) \/ FlushWrite)
          /\ UNCHANGED <<callers, stream, control, pc, pool, consumer, seen>>
       \/ /\ recpc = "idle" /\ pc' = "start"
          /\ UNCHANGED <<callers, stream, disk, memory, control, pool, consumer, seen>>
       \/ recpc = "threw" /\ Leave("threw")

(* The loops begin; the isolated mode first makes its pool, which can fail, *)
(* and the consumer.                                                        *)
StartLoops ==
    /\ pc = "start" /\ mode # "bin"
    /\ \/ /\ EnterLoops
          /\ pc' = "loops"
          /\ cpc' = IF isolated THEN "wait" ELSE "none"
          /\ UNCHANGED <<callers, disk, memory, control, pool, failing, swallowed, seen>>
       \/ isolated /\ Leave("threw")

(* Mutant: bytes that are missing are read as some value. *)
Loaded_AnyFile(key) ==
    IF bin[key].state = "whole" THEN {bin[key].args}
                                ELSE {[p \in DOMAIN bin[key].args |-> -1]}

(* load_fuzz_args(): what the file gives; a file that is cut is refused.    *)
Loaded(key) == IF bin[key].state = "whole" THEN {bin[key].args} ELSE {}

(* run_mode::bin: one call with the arguments of an artifact. *)
StartReplay ==
    /\ pc = "start" /\ mode = "bin"
    /\ \/ /\ \E key \in DOMAIN bin : \E args \in Loaded(key) : calls' = <<args>>
          /\ pc' = IF isolated THEN "loops" ELSE "call"
          /\ cpc' = IF isolated THEN "wait" ELSE "none"
          /\ todo' = IF isolated THEN {1} ELSE {}
          /\ UNCHANGED <<callers, idx, cursor, mode, level, storage, start, disk, memory,
                         control, stopped, failing, swallowed, seen>>
       \/ Leave("threw")

(* One step of the zip or grid loops. *)
Step ==
    /\ pc = "loops" /\ Loops
    /\ UNCHANGED <<disk, memory, control, pc, pool, consumer, seen>>

(* The arguments are complete: invoke_in_process() or pool.submit().        *)
Hand ==
    /\ pc = "loops" /\ Len(calls) < MaxCalls
    /\ NextTuple(isolated \/ mode = "grid")
    /\ IF isolated THEN todo' = todo \cup {Len(calls) + 1} /\ UNCHANGED pc
                   ELSE pc' = "call" /\ UNCHANGED todo
    /\ UNCHANGED <<disk, memory, control, stopped, consumer, seen>>

(* The call failed and there is a recorder to take it over. *)
Fails(task, kind, text) ==
    /\ UseRecorder /\ failures < MaxFailures /\ failures' = failures + 1
    /\ failed' = Append(failed, task) /\ ever' = ever \cup {calls[task]}
    /\ Record(kind, task, calls[task], text)

(* invoke_in_process(): the target returns, or throws and, without a       *)
(* recorder, nothing remains of it.                                        *)
Call ==
    /\ pc = "call"
    /\ \/ pc' = "loops" /\ UNCHANGED <<disk, memory, seen>>
       \/ \E text \in {"UTF-8", "not UTF-8"} : Fails(Len(calls), "exception", text)
          /\ pc' = "record"
    /\ UNCHANGED <<callers, stream, control, pool, consumer>>

(* An exception of the recorder leaves the loops and fuzz(). *)
CallRecords ==
    /\ pc = "record"
    /\ \/ /\ Recording(run)
          /\ UNCHANGED <<callers, stream, control, pc, pool, consumer, seen>>
       \/ /\ recpc = "idle" /\ pc' = "loops"
          /\ UNCHANGED <<callers, stream, disk, memory, control, pool, consumer, seen>>
       \/ recpc = "threw" /\ Leave("threw")

-----------------------------------------------------------------------------
(* wait_one() returns a task; record_result() passes over status ok, and   *)
(* without a recorder nothing remains of the others either.                *)
Take ==
    /\ cpc = "wait"
    /\ \E t \in todo :
         /\ todo' = todo \ {t}
         /\ \/ UNCHANGED <<disk, memory, seen, cpc>>
            \/ \E kind \in Failures, text \in {"UTF-8", "not UTF-8"} :
                 /\ text = "UTF-8" \/ kind = "exception"
                 /\ Fails(t, kind, text)
                 /\ cpc' = "record"
    /\ UNCHANGED <<callers, stream, control, pc, stopped, failing, swallowed>>

(* Mutant: an empty pool counts as drained before stop(). *)
Drained_BeforeStop == todo = {}

Drained == stopped /\ todo = {}

(* A runtime_error ends the consumer in silence when the pool is drained. *)
ConsumerRecords ==
    /\ cpc = "record"
    /\ \/ Recording(run) /\ UNCHANGED consumer
       \/ recpc = "idle" /\ cpc' = "wait" /\ UNCHANGED <<disk, memory, failing, swallowed>>
       \/ /\ recpc = "threw" /\ cpc' = "done"
          /\ swallowed' = (thrown = "runtime_error" /\ Drained)
          /\ failing' = ~swallowed'
          /\ UNCHANGED <<disk, memory>>
    /\ UNCHANGED <<callers, stream, control, pc, pool, seen>>

(* wait_one() of a drained pool throws. *)
ConsumerEnds ==
    /\ cpc = "wait" /\ Drained
    /\ cpc' = "done"
    /\ UNCHANGED <<callers, stream, disk, memory, control, pc, pool, failing, swallowed, seen>>

(* The loops are over: return, or pool.stop(), join and rethrow. *)
Finish ==
    /\ pc = "loops" /\ level = 0
    /\ \/ ~isolated /\ Leave("ok")
       \/ /\ isolated /\ ~stopped /\ stopped' = TRUE
          /\ UNCHANGED <<callers, stream, disk, memory, control, pc, todo, consumer, seen>>
       \/ isolated /\ stopped /\ cpc = "done" /\ Leave(IF failing THEN "threw" ELSE "ok")

(* The process dies, by the target of an in-process run or from outside; a  *)
(* new process makes new providers.                                         *)
Die ==
    /\ pc # "outside"
    /\ pc' = "outside" /\ left' = "died" /\ cpc' = "none"
    /\ Fault
    /\ recpc' = "none" /\ rec' = NoRecord /\ thrown' = "none"
    /\ idx' = [o \in Objects |-> 0] /\ cursor' = [o \in Objects |-> 0]
    /\ level' = 0 /\ storage' = <<>> /\ calls' = <<>>
    /\ todo' = {} /\ stopped' = FALSE /\ failing' = FALSE /\ swallowed' = FALSE
    /\ entries' = <<>> /\ nextId' = 1
    /\ UNCHANGED <<callers, mode, start, run, isolated, seen, index, bin, lost>>

Progress ==
    \/ MakeRecorder \/ StartLoops \/ StartReplay \/ Step \/ Hand \/ Call \/ CallRecords
    \/ Finish \/ Take \/ ConsumerRecords \/ ConsumerEnds

Next == Enter \/ Progress \/ Die

Spec == Init /\ [][Next]_vars
FairSpec == Spec /\ WF_vars(Progress)

-----------------------------------------------------------------------------
(* A readable index names only artifacts that its own run wrote, with the   *)
(* arguments of the call the entry is about, and all but the newest are     *)
(* whole unless a silent failure cut them: records of an earlier run have   *)
(* the same names (flush() in the constructor, record()).                   *)
IndexedComplete ==
    index.state = "whole" =>
        \A i \in DOMAIN index.entries :
            LET e == index.entries[i]
                file == bin[KeyOf(e)]
            IN  /\ KeyOf(e) \in DOMAIN bin
                /\ file.run = index.run /\ file.args = e.args
                /\ \/ file.state = "whole" \/ KeyOf(e) \in lost
                   \/ i = Len(index.entries)

(* When fuzz() returns, every task has come back, and the index lists each  *)
(* failing one once, in the order they were seen, with a whole artifact;    *)
(* only the error of the last record the consumer drops is missing, and     *)
(* what the disk lost silently (record(), run_isolated_fuzz()).             *)
ReturnMeansIndexed ==
    pc = "outside" /\ left = "ok" =>
        /\ todo = {}
        /\ UseRecorder /\ TheIndex \notin lost =>
            /\ index.state = "whole" /\ index.run = run
            /\ [i \in DOMAIN index.entries |-> index.entries[i].task] =
                   IF swallowed THEN Front(failed) ELSE failed
            /\ \A e \in ToSet(index.entries) :
                   bin[KeyOf(e)].state = "whole" \/ KeyOf(e) \in lost

(* A replay calls the target only with arguments some run saw fail, also    *)
(* when the directory was left by a process that died (load_fuzz_args()).   *)
ReplayIsFailure == mode = "bin" /\ calls # <<>> => calls[1] \in ever

(* The calls of a grid are the Cartesian product in order, from whatever    *)
(* state an earlier run left the providers in; a random provider is not     *)
(* rewound, so only the number of calls is sure then (reset(), the grid     *)
(* loops).                                                                  *)
GridIsProduct ==
    mode = "grid" /\ Distinct =>
        /\ ToSet(arg) \cap random = {} =>
              \A j \in DOMAIN calls : calls[j] = ProductTuple(j)
        /\ pc = "outside" /\ left = "ok" => Len(calls) = Combinations[1]

(* A zip goes on where its providers are and ends with the first exhausted  *)
(* one; a provider before that one has lost a value nobody was called with  *)
(* (the braced list of iter() calls).                                       *)
ZipInStep ==
    mode = "zip" /\ Distinct /\ arg # <<>> /\ pc \in {"loops", "call"} =>
        /\ \A j \in DOMAIN calls : calls[j] = ZipTuple(j)
        /\ level = 0 =>
            /\ Len(calls) = ZipLength
            /\ \A p \in Args : idx[arg[p]] - start.idx[arg[p]] - Len(calls) \in {0, 1}

Endless ==
    \/ mode = "grid" /\ Rewinds
    \/ mode = "zip" /\ arg = <<>> /\ ~isolated

(* fuzz() ends, if the target does: the loops are finite unless an inner    *)
(* loop rewinds the provider of an outer one, or a zip has nothing to       *)
(* exhaust in process; an error of the recorder or a dead consumer blocks   *)
(* nobody.                                                                  *)
RunEnds == (pc = "start" /\ ~Endless) ~> (pc = "outside")
=============================================================================
