--------------------------- MODULE FailureRecorder ---------------------------
(***************************************************************************)
(* failure_recorder: one artifact bin/<kind>_<record id>.args for every     *)
(* failure, and the index errors_and_crashes.json, which is written again   *)
(* in full after each of them.  A step ends where the operating system can  *)
(* refuse, where bytes reach the disk, and where the process can die.       *)
(*                                                                          *)
(* Nothing here is fsync'ed and nothing is removed: the directory outlives  *)
(* the process, and the recorder of the next run starts again at record 1.  *)
(***************************************************************************)
EXTENDS Integers, Sequences, SequencesExt

CONSTANT MaxFaults      \* bound: refusals and losses of the disk, deaths of the process

ASSUME FaultAssumption == MaxFaults \in Nat

VARIABLES
    faults,     \* how many of them there were
    index,      \* errors_and_crashes.json: [state, run, entries]
    bin,        \* the artifacts: [<<kind, record id>> -> [state, run, args]]
    entries,    \* m_entries
    nextId,     \* m_next_record_id
    recpc,      \* where the recorder is
    rec,        \* the failure being recorded
    thrown,     \* the exception under way: "none", "runtime_error", "type_error"
    lost        \* history: files of the run on the disk a silent failure cut

(* The fault model: something goes wrong at most MaxFaults times. *)
Fault == faults < MaxFaults /\ faults' = faults + 1

disk   == <<faults, index, bin>>
memory == <<entries, nextId, recpc, rec, thrown, lost>>

NoRecord == [kind |-> "none"]
KeyOf(e) == <<e.kind, e.id>>
TheIndex == <<"index", 0>>      \* the name of the index among the files of "lost"

RecInit ==
    /\ index = [state |-> "absent", run |-> 0, entries |-> <<>>]
    /\ bin = <<>> /\ faults = 0
    /\ entries = <<>> /\ nextId = 1 /\ recpc = "none" /\ rec = NoRecord
    /\ thrown = "none" /\ lost = {}

(* An exception leaves the constructor or record(); the open artifact, if  *)
(* there is one, is closed by the unwinding.                                *)
Throw(what) ==
    /\ thrown' = what
    /\ recpc' = IF rec # NoRecord /\ KeyOf(rec) \in DOMAIN bin /\ recpc # "open"
                THEN "close" ELSE "threw"

-----------------------------------------------------------------------------
(* The constructor: create_directories() and a first flush() of no entries. *)

(* Mutant: the index of an earlier run stays until the first failure.       *)
Construct_NoFlush ==
    /\ recpc = "none"
    /\ entries' = <<>> /\ nextId' = 1 /\ rec' = NoRecord
    /\ thrown' = "none" /\ recpc' = "idle"
    /\ UNCHANGED <<disk, lost>>

Construct ==
    /\ recpc = "none"
    /\ entries' = <<>> /\ nextId' = 1 /\ rec' = NoRecord
    /\ \/ thrown' = "none" /\ recpc' = "flush" /\ UNCHANGED faults
       \/ thrown' = "runtime_error" /\ recpc' = "threw" /\ Fault
    /\ UNCHANGED <<index, bin, lost>>

-----------------------------------------------------------------------------
(* record(): the id is taken first, whatever happens after. *)
Record(kind, task, args, text) ==
    /\ recpc = "idle"
    /\ rec' = [kind |-> kind, id |-> nextId, task |-> task, args |-> args, text |-> text]
    /\ nextId' = nextId + 1
    /\ recpc' = "open"
    /\ UNCHANGED <<disk, entries, thrown, lost>>

(* to_bytes() and the std::ofstream, which truncates an artifact of that    *)
(* name left by an earlier run.                                             *)
OpenArtifact(run) ==
    /\ recpc = "open"
    /\ \/ /\ bin' = [k \in DOMAIN bin \cup {KeyOf(rec)} |->
                        IF k = KeyOf(rec)
                        THEN [state |-> "cut", run |-> run, args |-> rec.args]
                        ELSE bin[k]]
          /\ recpc' = "write" /\ UNCHANGED <<thrown, faults>>
       \/ Throw("runtime_error") /\ Fault /\ UNCHANGED bin
    /\ UNCHANGED <<index, entries, nextId, rec, lost>>

(* write(): the bytes go to the disk, or wait in the buffer of the stream   *)
(* for its end of scope; an error the stream reports ends record().         *)
WriteArtifact ==
    /\ recpc = "write"
    /\ \/ /\ \/ UNCHANGED bin
             \/ bin' = [bin EXCEPT ![KeyOf(rec)].state = "whole"]
          /\ entries' = Append(entries, rec)
          /\ recpc' = "flush"
          /\ UNCHANGED <<thrown, faults, lost>>
       \/ /\ thrown' = "runtime_error" /\ recpc' = "threw" /\ Fault
          /\ UNCHANGED <<bin, entries, lost>>
    /\ UNCHANGED <<index, nextId, rec>>

(* flush(): the std::ofstream truncates the index. *)
FlushOpen(run) ==
    /\ recpc = "flush"
    /\ \/ /\ index' = [state |-> "cut", run |-> run, entries |-> <<>>]
          /\ lost' = IF rec = NoRecord THEN {} ELSE lost
          /\ recpc' = "dump" /\ UNCHANGED <<thrown, faults>>
       \/ Throw("runtime_error") /\ Fault /\ UNCHANGED <<index, lost>>
    /\ UNCHANGED <<bin, entries, nextId, rec>>

(* dump(2) refuses text that is not UTF-8; what becomes of the bytes after  *)
(* that is not looked at.                                                   *)
FlushWrite ==
    /\ recpc = "dump"
    /\ IF \E e \in ToSet(entries) : e.text = "not UTF-8"
       THEN Throw("type_error") /\ UNCHANGED <<faults, index, lost>>
       ELSE /\ recpc' = IF rec = NoRecord THEN "idle" ELSE "close"
            /\ UNCHANGED thrown
            /\ \/ /\ index' = [index EXCEPT !.state = "whole", !.entries = entries]
                  /\ lost' = lost \ {TheIndex} /\ UNCHANGED faults
               \/ UNCHANGED index /\ Fault /\ lost' = lost \cup {TheIndex}
    /\ UNCHANGED <<bin, entries, nextId, rec>>

(* The end of the scope of record(): the stream of the artifact is closed,  *)
(* and nobody sees whether its last bytes were taken.                       *)
CloseArtifact ==
    /\ recpc = "close"
    /\ \/ /\ bin' = [bin EXCEPT ![KeyOf(rec)].state = "whole"] /\ UNCHANGED <<faults, lost>>
       \/ /\ bin[KeyOf(rec)].state = "cut" /\ Fault
          /\ lost' = lost \cup {KeyOf(rec)} /\ UNCHANGED bin
    /\ recpc' = IF thrown = "none" THEN "idle" ELSE "threw"
    /\ rec' = NoRecord
    /\ UNCHANGED <<index, entries, nextId, thrown>>

Recording(run) ==
    \/ OpenArtifact(run) \/ WriteArtifact \/ FlushOpen(run)
    \/ FlushWrite \/ CloseArtifact

(* The object is gone, with its process or at the end of fuzz(). *)
Discard ==
    /\ entries' = <<>> /\ nextId' = 1
    /\ recpc' = "none" /\ rec' = NoRecord /\ thrown' = "none"
    /\ UNCHANGED <<disk, lost>>
=============================================================================
