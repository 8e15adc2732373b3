---------------------------- MODULE FuzzRunProofs ----------------------------
(***************************************************************************)
(* What fuzz() leaves on the disk, for every caller, number of calls and    *)
(* runs, and any number of refusals of the disk and deaths of the process.  *)
(* The recorder's invariant says, for each place where it can be, which     *)
(* entries are safe, what the index holds and how far both are behind the   *)
(* failures that were seen.                                                 *)
(***************************************************************************)
EXTENDS FuzzRun, SequenceTheorems, TLAPS

Texts   == {"UTF-8", "not UTF-8"}
Records == [kind : Failures, id : Nat, task : Nat, args : Seq(Nat), text : Texts]
Files   == [state : {"cut", "whole"}, run : Nat, args : Seq(Nat)]
Indexes == [state : {"absent", "cut", "whole"}, run : Nat, entries : Seq(Records)]

StreamTypes ==
    /\ arg \in Seq(Objects) /\ size \in [Objects -> Nat] /\ random \subseteq Objects
    /\ idx \in [Objects -> Nat] /\ cursor \in [Objects -> Nat]
    /\ mode \in {"zip", "grid", "bin"} /\ level \in 0..(Len(arg) + 1)
    /\ storage \in Seq(Nat) /\ calls \in Seq(Seq(Nat))

RecorderTypes ==
    /\ index \in Indexes
    /\ bin \in [DOMAIN bin -> Files]
    /\ entries \in Seq(Records) /\ nextId \in Nat \ {0}
    /\ recpc \in {"none", "idle", "open", "write", "flush", "dump", "close", "threw"}
    /\ rec = NoRecord \/ rec \in Records
    /\ thrown \in {"none", "runtime_error", "type_error"}

RunTypes ==
    /\ run \in Nat /\ isolated \in BOOLEAN
    /\ stopped \in BOOLEAN /\ failing \in BOOLEAN /\ swallowed \in BOOLEAN
    /\ left \in {"never", "no", "ok", "threw", "died"}
    /\ pc \in {"outside", "construct", "start", "loops", "call", "record"}
    /\ cpc \in {"none", "wait", "record", "done"}
    /\ todo \subseteq DOMAIN calls
    /\ failed \in Seq(Nat) /\ ever \subseteq Seq(Nat)

-----------------------------------------------------------------------------
(* The recorder. *)

Tasks(es) == [i \in DOMAIN es |-> es[i].task]

(* The operators below are about files b, silent losses l, an index x and  *)
(* run r: those of a state, or of the next one.                             *)

(* The artifact of an entry is one the run wrote for its call, ...          *)
Owned(b, r, e) ==
    /\ KeyOf(e) \in DOMAIN b
    /\ b[KeyOf(e)].run = r /\ b[KeyOf(e)].args = e.args

(* ... and it is whole, unless the disk lost part of it in silence.         *)
Closed(b, l, e) == b[KeyOf(e)].state = "whole" \/ KeyOf(e) \in l

Written(b, l, r, es) == \A i \in DOMAIN es : Owned(b, r, es[i]) /\ Closed(b, l, es[i])

Below(es, n) == \A i \in DOMAIN es : es[i].id < n

(* The index on the disk lists es, unless the disk lost it in silence. *)
Flushed(x, l, r, es) ==
    /\ x.run = r
    /\ IF TheIndex \in l THEN x.state = "cut" ELSE x.state = "whole" /\ x.entries = es

(* What a reader of the directory finds about the failures of a run. *)
Complete(x, b, l, r, tasks) ==
    TheIndex \notin l =>
        /\ x.state = "whole" /\ x.run = r /\ Tasks(x.entries) = tasks
        /\ \A i \in DOMAIN x.entries : Closed(b, l, x.entries[i])

(* The first entries are safe, and the index is what the last flush() made. *)
Safe(es) == Written(bin, lost, run, es) /\ Below(es, nextId)

AtRest ==
    recpc = "idle" =>
        /\ rec = NoRecord /\ thrown = "none"
        /\ Safe(entries) /\ Flushed(index, lost, run, entries) /\ failed = Tasks(entries)

(* The constructor: what an earlier run left is there until the truncation. *)
Making ==
    rec = NoRecord /\ recpc \in {"flush", "dump"} =>
        /\ entries = <<>> /\ failed = <<>> /\ thrown = "none"
        /\ recpc = "dump" => index.run = run /\ index.state = "cut"

(* A failure that is no entry yet. *)
Begun ==
    recpc \in {"open", "write"} =>
        /\ rec \in Records /\ thrown = "none" /\ rec.id < nextId
        /\ Safe(entries) /\ Below(entries, rec.id) /\ Flushed(index, lost, run, entries)
        /\ failed = Append(Tasks(entries), rec.task)
        /\ recpc = "write" => Owned(bin, run, rec)

(* A failure that is the last entry. *)
LastIsRec ==
    /\ rec \in Records /\ rec.id < nextId /\ Owned(bin, run, rec)
    /\ entries # <<>> /\ entries[Len(entries)] = rec
    /\ Safe(Front(entries)) /\ failed = Tasks(entries)

Entered ==
    /\ rec # NoRecord /\ recpc = "flush" =>
          LastIsRec /\ thrown = "none" /\ Flushed(index, lost, run, Front(entries))
    /\ rec # NoRecord /\ recpc = "dump" =>
          LastIsRec /\ thrown = "none" /\ index.run = run /\ index.state = "cut"
    /\ recpc = "close" =>
          /\ LastIsRec
          /\ thrown = "none" => Flushed(index, lost, run, entries)
          /\ thrown = "runtime_error" => Flushed(index, lost, run, Front(entries))

(* An exception that is on its way to the user of the recorder. *)
Gone ==
    recpc = "threw" =>
        /\ thrown # "none"
        /\ thrown = "runtime_error" /\ failed # <<>> => Complete(index, bin, lost, run, Front(failed))

RecorderInv == AtRest /\ Making /\ Begun /\ Entered /\ Gone

-----------------------------------------------------------------------------
(* fuzz() and its consumer. *)

Rest == IF UseRecorder THEN "idle" ELSE "none"

(* Nobody uses the recorder but the thread that is said to record. *)
UserInv ==
    /\ recpc = "none" => rec = NoRecord
    /\ pc = "outside" => recpc = "none" /\ cpc = "none"
    /\ pc = "construct" =>
          /\ UseRecorder /\ cpc = "none" /\ rec = NoRecord /\ failed = <<>>
          /\ recpc \in {"none", "flush", "dump", "idle", "threw"}
    /\ pc = "start" => recpc = Rest /\ cpc = "none" /\ failed = <<>>
    /\ pc \in {"loops", "call", "record"} => (isolated <=> cpc # "none")
    /\ pc \in {"call", "record"} => ~isolated
    /\ pc \in {"loops", "call"} /\ cpc \in {"none", "wait"} => recpc = Rest
    /\ pc = "record" \/ cpc = "record" =>
          /\ UseRecorder /\ failed # <<>> /\ recpc # "none"
          /\ recpc \in {"flush", "dump"} => rec # NoRecord

(* The consumer ends with an exception, or when all tasks came back. *)
DoneInv ==
    /\ pc # "outside" /\ (failing \/ swallowed) => cpc = "done"
    /\ cpc = "done" =>
          /\ ~failing => stopped /\ todo = {}
          /\ swallowed => recpc = "threw" /\ thrown = "runtime_error" /\ failed # <<>>
          /\ ~failing /\ ~swallowed => recpc = Rest

(* Nothing is handed over after stop(), and in process nothing at all. *)
TodoInv ==
    /\ pc \in {"construct", "start"} => todo = {} /\ ~stopped /\ level = 0 /\ calls = <<>>
    /\ pc = "call" => calls # <<>>
    /\ pc # "outside" /\ ~isolated => todo = {}
    /\ pc # "outside" /\ stopped => pc = "loops" /\ level = 0
    /\ mode = "bin" => level = 0

ArgsInv ==
    /\ \A k \in DOMAIN bin : bin[k].args \in ever
    /\ rec # NoRecord => rec.args \in ever

(* What a return of fuzz() means. *)
Returned ==
    /\ todo = {}
    /\ UseRecorder => Complete(index, bin, lost, run, IF swallowed THEN Front(failed) ELSE failed)

ReturnInv == pc = "outside" /\ left = "ok" => Returned

RecInv == RecorderTypes /\ RecorderInv /\ IndexedComplete

FuzzInv == StreamTypes /\ RunTypes /\ RecInv /\ UserInv /\ DoneInv /\ TodoInv /\ ReturnInv

-----------------------------------------------------------------------------
(* Sequences of entries *)

LEMMA AppendIs ==
    ASSUME NEW S, NEW s \in Seq(S), NEW x \in S
    PROVE  /\ Append(s, x) \in Seq(S) /\ Len(Append(s, x)) = Len(s) + 1 /\ Len(s) \in Nat
           /\ \A i \in 1..Len(s) : Append(s, x)[i] = s[i]
           /\ Append(s, x)[Len(s) + 1] = x
           /\ DOMAIN s = 1..Len(s) /\ DOMAIN Append(s, x) = 1..(Len(s) + 1)
  BY AppendProperties, LenProperties

LEMMA FrontIs ==
    ASSUME NEW S, NEW s \in Seq(S)
    PROVE  /\ Front(s) \in Seq(S)
           /\ s # <<>> => /\ Len(Front(s)) = Len(s) - 1 /\ Len(s) \in Nat \ {0}
                          /\ \A i \in 1..(Len(s) - 1) : Front(s)[i] = s[i]
<1> DEFINE n == Len(s) - 1
           t == SubSeq(s, 1, n)
<1>1. Len(s) \in Nat /\ (s # <<>> => Len(s) \in Nat \ {0})
  BY LenProperties, EmptySeq
<1>2. \A i \in 1..(Len(s) - 1) : s[i] \in S
  BY <1>1, ElementOfSeq
<1>3. /\ t \in Seq(S) /\ Len(t) = IF 1 <= n THEN n - 1 + 1 ELSE 0
      /\ \A i \in 1..(n - 1 + 1) : t[i] = s[1 + i - 1]
  <2>1. 1 \in Int /\ n \in Int
    BY <1>1
  <2> QED BY <1>2, <2>1, SubSeqProperties
<1>4. \A i \in 1..n : i \in 1..(n - 1 + 1) /\ 1 + i - 1 = i
  BY <1>1
<1> HIDE DEF t
<1>5. s # <<>> => Len(t) = n
  <2>1. s # <<>> => n \in Nat
    BY <1>1
  <2> HIDE DEF n
  <2>2. n \in Nat => (IF 1 <= n THEN n - 1 + 1 ELSE 0) = n
    OBVIOUS
  <2> QED BY <1>3, <2>1, <2>2
<1>6. \A i \in 1..n : t[i] = s[i]
  BY <1>3, <1>4
<1> QED BY <1>1, <1>3, <1>5, <1>6 DEF Front, t

LEMMA FrontAppend ==
    ASSUME NEW S, NEW s \in Seq(S), NEW x \in S
    PROVE  Front(Append(s, x)) = s
<1> DEFINE t == Append(s, x)
<1>1. /\ t \in Seq(S) /\ Len(t) = Len(s) + 1 /\ Len(s) \in Nat /\ t # <<>>
      /\ \A i \in 1..Len(s) : t[i] = s[i]
  BY AppendIs, AppendProperties
<1> HIDE DEF t
<1>2. /\ Front(t) \in Seq(S) /\ Len(Front(t)) = Len(t) - 1
      /\ \A i \in 1..(Len(t) - 1) : Front(t)[i] = t[i]
  BY <1>1, FrontIs
<1>3. Len(t) - 1 = Len(s)
  BY <1>1
<1>4. Front(t) = s
  BY <1>1, <1>2, <1>3, SeqEqual
<1> QED BY <1>4 DEF t

LEMMA TasksIs ==
    ASSUME NEW es \in Seq(Records)
    PROVE  /\ Tasks(es) \in Seq(Nat) /\ Len(Tasks(es)) = Len(es) /\ Len(es) \in Nat
           /\ \A i \in 1..Len(es) : Tasks(es)[i] = es[i].task
           /\ es # <<>> => Tasks(es) # <<>>
<1>1. DOMAIN es = 1..Len(es) /\ Len(es) \in Nat
  BY LenProperties
<1>2. \A i \in 1..Len(es) : es[i].task \in Nat
  <2>1. \A i \in 1..Len(es) : es[i] \in Records
    BY ElementOfSeq
  <2> QED BY <2>1 DEF Records
<1>3. Tasks(es) = [i \in 1..Len(es) |-> es[i].task]
  BY <1>1 DEF Tasks
<1>4. Tasks(es) \in Seq(Nat) /\ Len(Tasks(es)) = Len(es)
  BY <1>1, <1>2, <1>3
<1>5. es # <<>> => Tasks(es) # <<>>
  BY <1>4, EmptySeq
<1> QED BY <1>1, <1>3, <1>4, <1>5

LEMMA TasksAppend ==
    ASSUME NEW es \in Seq(Records), NEW e \in Records
    PROVE  Tasks(Append(es, e)) = Append(Tasks(es), e.task)
<1> DEFINE fs == Append(es, e)
           ts == Append(Tasks(es), e.task)
<1>1. /\ fs \in Seq(Records) /\ Len(fs) = Len(es) + 1 /\ fs[Len(es) + 1] = e /\ Len(es) \in Nat
      /\ \A i \in 1..Len(es) : fs[i] = es[i]
  BY AppendIs
<1>2. e.task \in Nat
  BY DEF Records
<1>3. /\ ts \in Seq(Nat) /\ Len(ts) = Len(es) + 1 /\ ts[Len(es) + 1] = e.task
      /\ \A i \in 1..Len(es) : ts[i] = es[i].task
  BY <1>2, AppendIs, TasksIs
<1> HIDE DEF fs, ts
<1>4. /\ Tasks(fs) \in Seq(Nat) /\ Len(Tasks(fs)) = Len(es) + 1
      /\ \A i \in 1..(Len(es) + 1) : Tasks(fs)[i] = fs[i].task
  BY <1>1, TasksIs
<1>5. \A i \in 1..(Len(es) + 1) : Tasks(fs)[i] = ts[i]
  <2> SUFFICES ASSUME NEW i \in 1..(Len(es) + 1) PROVE Tasks(fs)[i] = ts[i]
    OBVIOUS
  <2>1. i \in 1..Len(es) \/ i = Len(es) + 1
    BY <1>1
  <2> QED BY <1>1, <1>3, <1>4, <2>1
<1>6. Tasks(fs) = ts
  BY <1>3, <1>4, <1>5, SeqEqual
<1> QED BY <1>6 DEF fs, ts

LEMMA TasksFront ==
    ASSUME NEW es \in Seq(Records), es # <<>>
    PROVE  Tasks(Front(es)) = Front(Tasks(es))
<1>1. /\ Front(es) \in Seq(Records) /\ Len(Front(es)) = Len(es) - 1 /\ Len(es) \in Nat \ {0}
      /\ \A i \in 1..(Len(es) - 1) : Front(es)[i] = es[i]
  BY FrontIs
<1>2. /\ Tasks(Front(es)) \in Seq(Nat) /\ Len(Tasks(Front(es))) = Len(es) - 1
      /\ \A i \in 1..(Len(es) - 1) : Tasks(Front(es))[i] = Front(es)[i].task
  BY <1>1, TasksIs
<1>3. /\ Tasks(es) \in Seq(Nat) /\ Tasks(es) # <<>> /\ Len(Tasks(es)) = Len(es)
      /\ \A i \in 1..Len(es) : Tasks(es)[i] = es[i].task
  BY TasksIs
<1>4. /\ Front(Tasks(es)) \in Seq(Nat) /\ Len(Front(Tasks(es))) = Len(es) - 1
      /\ \A i \in 1..(Len(es) - 1) : Front(Tasks(es))[i] = Tasks(es)[i]
  BY <1>3, FrontIs
<1>5. \A i \in 1..(Len(es) - 1) : Tasks(Front(es))[i] = Front(Tasks(es))[i]
  <2>1. \A i \in 1..(Len(es) - 1) : i \in 1..Len(es)
    BY <1>1
  <2> QED BY <1>1, <1>2, <1>3, <1>4, <2>1
<1> QED BY <1>2, <1>4, <1>5, SeqEqual

-----------------------------------------------------------------------------
(* Files that only become firmer: the artifacts keep run and arguments, the *)
(* whole ones stay whole, and of the losses none but the index's is undone. *)

Firmer(b, c, l, m) ==
    /\ DOMAIN c = DOMAIN b
    /\ \A k \in DOMAIN b : /\ c[k].run = b[k].run /\ c[k].args = b[k].args
                           /\ b[k].state = "whole" => c[k].state = "whole"
    /\ l \ {TheIndex} \subseteq m

LEMMA KeysAreNotIndex ==
    ASSUME NEW e \in Records
    PROVE  KeyOf(e) # TheIndex /\ e # NoRecord
<1>1. e.kind # "index" /\ e.kind # "none"
  BY DEF Records, Failures
<1>2. KeyOf(e)[1] = e.kind /\ TheIndex[1] = "index" /\ NoRecord.kind = "none"
  BY DEF KeyOf, TheIndex, NoRecord
<1> QED BY <1>1, <1>2

LEMMA FirmerKeeps ==
    ASSUME NEW b, NEW c, NEW l, NEW m, NEW r, NEW e \in Records, Firmer(b, c, l, m), Owned(b, r, e)
    PROVE  Owned(c, r, e) /\ (Closed(b, l, e) => Closed(c, m, e))
  BY KeysAreNotIndex DEF Firmer, Owned, Closed

LEMMA FirmerKeepsAll ==
    ASSUME NEW b, NEW c, NEW l, NEW m, NEW r, NEW es \in Seq(Records),
           Firmer(b, c, l, m), Written(b, l, r, es)
    PROVE  Written(c, m, r, es)
<1>1. \A i \in DOMAIN es : es[i] \in Records
  BY ElementOfSeq, LenProperties
<1> QED BY <1>1, FirmerKeeps DEF Written

-----------------------------------------------------------------------------
(* The steps of the recorder *)

(* IndexedComplete, of any index and files. *)
Shown(x, b, l) ==
    x.state = "whole" =>
        \A i \in DOMAIN x.entries :
            Owned(b, x.run, x.entries[i]) /\ (Closed(b, l, x.entries[i]) \/ i = Len(x.entries))

LEMMA ShownIs == IndexedComplete <=> Shown(index, bin, lost)
  BY DEF IndexedComplete, Shown, Owned, Closed

LEMMA FirmerShows ==
    ASSUME NEW x \in Indexes, NEW b, NEW c, NEW l, NEW m, Firmer(b, c, l, m), Shown(x, b, l)
    PROVE  Shown(x, c, m)
<1>1. x.entries \in Seq(Records)
  BY DEF Indexes
<1>2. \A i \in DOMAIN x.entries : x.entries[i] \in Records
  BY <1>1, ElementOfSeq, LenProperties
<1> QED BY <1>2, FirmerKeeps DEF Shown

(* An exception leaves record() with the error of the file. *)
LEMMA ThrownIsComplete ==
    ASSUME NEW es \in Seq(Records), NEW x, NEW b, NEW l, NEW r, NEW t,
           Written(b, l, r, es), Flushed(x, l, r, es), Tasks(es) = t
    PROVE  Complete(x, b, l, r, t)
  BY DEF Complete, Written, Flushed

SameRun == UNCHANGED <<run, failed>>

LEMMA RecFacts ==
    ASSUME RecInv
    PROVE  /\ index \in Indexes /\ index.entries \in Seq(Records) /\ entries \in Seq(Records)
           /\ Front(entries) \in Seq(Records)
           /\ rec # NoRecord => rec \in Records
           /\ \A k \in DOMAIN bin : bin[k] \in Files
           /\ Shown(index, bin, lost)
  BY FrontIs, ShownIs DEF RecInv, RecorderTypes, Indexes

LEMMA OpenKeeps ==
    ASSUME RecInv, SameRun, OpenArtifact(run), run \in Nat
    PROVE  RecInv'
<1>1. /\ recpc = "open" /\ rec \in Records /\ rec # NoRecord /\ thrown = "none" /\ rec.id < nextId
      /\ Safe(entries) /\ Below(entries, rec.id) /\ Flushed(index, lost, run, entries)
      /\ failed = Append(Tasks(entries), rec.task)
      /\ UNCHANGED <<index, entries, nextId, rec, lost, run, failed>>
  BY KeysAreNotIndex DEF OpenArtifact, SameRun, RecInv, RecorderInv, Begun
<1>2. CASE recpc' = "threw" /\ thrown' = "runtime_error" /\ bin' = bin
  <2>1. RecorderTypes'
    BY <1>1, <1>2 DEF RecInv, RecorderTypes
  <2>2. AtRest' /\ Making' /\ Begun' /\ Entered'
    BY <1>2 DEF AtRest, Making, Begun, Entered
  <2>3. Front(failed) = Tasks(entries)
    <3>1. Tasks(entries) \in Seq(Nat) /\ rec.task \in Nat
      BY <1>1, RecFacts, TasksIs DEF Records
    <3> QED BY <1>1, <3>1, FrontAppend
  <2>4. Complete(index, bin, lost, run, Front(failed))
    BY <1>1, <2>3, RecFacts, ThrownIsComplete DEF Safe
  <2>5. Gone'
    BY <1>1, <1>2, <2>4 DEF Gone
  <2>6. IndexedComplete'
    BY <1>1, <1>2 DEF RecInv, IndexedComplete
  <2> QED BY <2>1, <2>2, <2>5, <2>6 DEF RecInv, RecorderInv
<1>3. CASE /\ bin' = [k \in DOMAIN bin \cup {KeyOf(rec)} |->
                        IF k = KeyOf(rec) THEN [state |-> "cut", run |-> run, args |-> rec.args]
                        ELSE bin[k]]
           /\ recpc' = "write" /\ thrown' = "none"
  <2> DEFINE file == [state |-> "cut", run |-> run, args |-> rec.args]
  <2>1. /\ DOMAIN bin' = DOMAIN bin \cup {KeyOf(rec)} /\ bin'[KeyOf(rec)] = file
        /\ \A k \in DOMAIN bin : k # KeyOf(rec) => bin'[k] = bin[k]
    BY <1>3
  <2>2. file \in Files
    BY <1>1 DEF Files, Records
  <2>3. RecorderTypes'
    <3>1. bin' \in [DOMAIN bin' -> Files]
      BY <1>3, <2>2, RecFacts
    <3> QED BY <1>1, <1>3, <3>1 DEF RecInv, RecorderTypes
  <2>4. ASSUME NEW e, KeyOf(e) # KeyOf(rec)
        PROVE  /\ \A r : Owned(bin, r, e) => Owned(bin', r, e)
               /\ Owned(bin, run, e) /\ Closed(bin, lost, e) => Closed(bin', lost, e)
    BY <2>1, <2>4 DEF Owned, Closed
  <2>5. \A i \in DOMAIN entries : KeyOf(entries[i]) # KeyOf(rec)
    <3>1. \A i \in DOMAIN entries : entries[i].id \in Nat /\ entries[i].id < rec.id
      <4>1. \A i \in DOMAIN entries : entries[i] \in Records
        BY RecFacts, ElementOfSeq, LenProperties
      <4> QED BY <1>1, <4>1 DEF Below, Records
    <3>2. rec.id \in Nat
      BY <1>1 DEF Records
    <3>3. \A i \in DOMAIN entries : entries[i].id # rec.id
      BY <3>1, <3>2
    <3> QED BY <3>3 DEF KeyOf
  <2>6. Written(bin', lost, run, entries)
    BY <1>1, <2>4, <2>5 DEF Safe, Written
  <2>7. Owned(bin', run, rec)
    BY <2>1 DEF Owned
  <2>8. Begun'
    BY <1>1, <1>3, <2>6, <2>7 DEF Begun, Safe
  <2>9. AtRest' /\ Making' /\ Entered' /\ Gone'
    BY <1>3 DEF AtRest, Making, Entered, Gone
  <2>10. Shown(index, bin', lost)
    <3>1. index.state = "whole" => index.entries = entries
      BY <1>1 DEF Flushed
    <3>2. Shown(index, bin, lost)
      BY RecFacts
    <3> QED BY <1>1, <2>4, <2>5, <2>6, <3>1, <3>2 DEF Shown, Written
  <2>11. IndexedComplete'
    BY <1>1, <2>10 DEF IndexedComplete, Shown, Owned, Closed
  <2> QED BY <2>3, <2>8, <2>9, <2>11 DEF RecInv, RecorderInv
<1> QED BY <1>1, <1>2, <1>3 DEF OpenArtifact, Throw

(* The state of the artifact of rec becomes whole, or nothing does. *)
BinMayClose ==
    \/ bin' = bin
    \/ KeyOf(rec) \in DOMAIN bin /\ bin' = [bin EXCEPT ![KeyOf(rec)].state = "whole"]

LEMMA MayCloseIsFirmer ==
    ASSUME RecorderTypes, BinMayClose, lost \ {TheIndex} \subseteq lost'
    PROVE  /\ Firmer(bin, bin', lost, lost')
           /\ bin' \in [DOMAIN bin' -> Files]
<1>1. \A k \in DOMAIN bin : bin[k] \in Files
  BY DEF RecorderTypes
<1>2. CASE bin' = bin
  BY <1>2 DEF Firmer, RecorderTypes
<1>3. CASE KeyOf(rec) \in DOMAIN bin /\ bin' = [bin EXCEPT ![KeyOf(rec)].state = "whole"]
  <2> DEFINE K == KeyOf(rec)
             file == [bin[K] EXCEPT !.state = "whole"]
  <2>1. file \in Files /\ file.run = bin[K].run /\ file.args = bin[K].args /\ file.state = "whole"
    BY <1>1, <1>3 DEF Files
  <2>2. bin' = [bin EXCEPT ![K] = file]
    BY <1>3
  <2> HIDE DEF file, K
  <2>3. bin \in [DOMAIN bin -> Files] /\ K \in DOMAIN bin
    BY <1>3 DEF RecorderTypes, K
  <2>4. bin' \in [DOMAIN bin -> Files] /\ DOMAIN bin' = DOMAIN bin
    BY <2>1, <2>2, <2>3
  <2>5. \A k \in DOMAIN bin : bin'[k] = IF k = K THEN file ELSE bin[k]
    BY <2>2, <2>3
  <2> QED BY <2>1, <2>4, <2>5 DEF Firmer
<1> QED BY <1>2, <1>3 DEF BinMayClose

LEMMA WriteKeeps ==
    ASSUME RecInv, SameRun, WriteArtifact
    PROVE  RecInv'
<1>1. /\ recpc = "write" /\ rec \in Records /\ rec # NoRecord /\ thrown = "none" /\ rec.id < nextId
      /\ Safe(entries) /\ Flushed(index, lost, run, entries) /\ Owned(bin, run, rec)
      /\ failed = Append(Tasks(entries), rec.task) /\ KeyOf(rec) \in DOMAIN bin
      /\ UNCHANGED <<index, nextId, rec, run, failed, lost>>
  BY KeysAreNotIndex DEF WriteArtifact, SameRun, RecInv, RecorderInv, Begun, Owned
<1>2. /\ entries \in Seq(Records) /\ Tasks(entries) \in Seq(Nat) /\ rec.task \in Nat
      /\ Tasks(Append(entries, rec)) = failed
  BY <1>1, RecFacts, TasksIs, TasksAppend DEF Records
<1>3. CASE recpc' = "threw" /\ thrown' = "runtime_error" /\ UNCHANGED <<bin, entries>>
  <2>1. RecorderTypes'
    BY <1>1, <1>3 DEF RecInv, RecorderTypes
  <2>2. AtRest' /\ Making' /\ Begun' /\ Entered'
    BY <1>3 DEF AtRest, Making, Begun, Entered
  <2>3. Front(failed) = Tasks(entries)
    BY <1>1, <1>2, FrontAppend
  <2>4. Complete(index, bin, lost, run, Front(failed))
    BY <1>1, <1>2, <2>3, ThrownIsComplete DEF Safe
  <2>5. Gone'
    BY <1>1, <1>3, <2>4 DEF Gone
  <2>6. IndexedComplete'
    BY <1>1, <1>3 DEF RecInv, IndexedComplete
  <2> QED BY <2>1, <2>2, <2>5, <2>6 DEF RecInv, RecorderInv
<1>4. CASE /\ BinMayClose /\ entries' = Append(entries, rec)
           /\ recpc' = "flush" /\ thrown' = thrown
  <2>1. Firmer(bin, bin', lost, lost') /\ bin' \in [DOMAIN bin' -> Files]
    BY <1>1, <1>4, MayCloseIsFirmer DEF RecInv
  <2>2. RecorderTypes'
    <3>1. entries' \in Seq(Records)
      BY <1>1, <1>2, <1>4, AppendIs
    <3> QED BY <1>1, <1>4, <2>1, <3>1 DEF RecInv, RecorderTypes
  <2>3. Front(entries') = entries /\ entries' # <<>> /\ entries'[Len(entries')] = rec
    <3>1. Front(Append(entries, rec)) = entries
      BY <1>1, <1>2, FrontAppend
    <3>2. /\ Len(Append(entries, rec)) = Len(entries) + 1 /\ Append(entries, rec)[Len(entries) + 1] = rec
          /\ Append(entries, rec) # <<>>
      BY <1>1, <1>2, AppendIs, AppendProperties
    <3> QED BY <1>4, <3>1, <3>2
  <2>4. Written(bin', lost', run, entries) /\ Owned(bin', run, rec)
    BY <1>1, <1>2, <2>1, FirmerKeeps, FirmerKeepsAll DEF Safe
  <2>5. Entered'
    <3>1. Safe(Front(entries))'
      BY <1>1, <2>3, <2>4 DEF Safe
    <3>2. LastIsRec'
      BY <1>1, <1>2, <1>4, <2>3, <2>4, <3>1 DEF LastIsRec
    <3>3. Flushed(index', lost', run', Front(entries'))
      BY <1>1, <2>3
    <3> QED BY <1>1, <1>4, <3>2, <3>3 DEF Entered
  <2>6. AtRest' /\ Making' /\ Begun' /\ Gone'
    BY <1>1, <1>4 DEF AtRest, Making, Begun, Gone
  <2>7. IndexedComplete'
    <3>1. Shown(index, bin', lost')
      BY <2>1, RecFacts, FirmerShows
    <3> QED BY <1>1, <3>1 DEF IndexedComplete, Shown, Owned, Closed
  <2> QED BY <2>2, <2>5, <2>6, <2>7 DEF RecInv, RecorderInv
<1> QED BY <1>1, <1>3, <1>4 DEF WriteArtifact, BinMayClose

LEMMA FlushOpenKeeps ==
    ASSUME RecInv, SameRun, FlushOpen(run), run \in Nat
    PROVE  RecInv'
<1>1. recpc = "flush" /\ thrown = "none" /\ UNCHANGED <<bin, entries, nextId, rec, run, failed>>
  BY DEF FlushOpen, SameRun, RecInv, RecorderInv, Entered, Making
<1>2. rec # NoRecord => LastIsRec /\ rec \in Records /\ Flushed(index, lost, run, Front(entries))
  BY <1>1 DEF RecInv, RecorderInv, Entered, LastIsRec
<1>3. CASE /\ index' = [state |-> "cut", run |-> run, entries |-> <<>>]
           /\ lost' = (IF rec = NoRecord THEN {} ELSE lost)
           /\ recpc' = "dump" /\ thrown' = thrown
  <2>1. index' \in Indexes /\ index'.run = run /\ index'.state = "cut"
    BY <1>3, EmptySeq DEF Indexes
  <2>2. RecorderTypes'
    BY <1>1, <1>3, <2>1 DEF RecInv, RecorderTypes
  <2>3. Making'
    BY <1>1, <1>3, <2>1 DEF RecInv, RecorderInv, Making
  <2>4. Entered'
    <3>1. rec # NoRecord => LastIsRec'
      BY <1>1, <1>2, <1>3 DEF LastIsRec, Safe
    <3> QED BY <1>1, <1>3, <2>1, <3>1 DEF Entered
  <2>5. AtRest' /\ Begun' /\ Gone'
    BY <1>3 DEF AtRest, Begun, Gone
  <2>6. IndexedComplete'
    BY <2>1 DEF IndexedComplete
  <2> QED BY <2>2, <2>3, <2>4, <2>5, <2>6 DEF RecInv, RecorderInv
<1>4. CASE Throw("runtime_error") /\ UNCHANGED <<index, lost>>
  <2>1. /\ thrown' = "runtime_error"
        /\ recpc' = IF rec # NoRecord THEN "close" ELSE "threw"
    BY <1>1, <1>2, <1>4 DEF Throw, LastIsRec, Owned
  <2>2. RecorderTypes'
    BY <1>1, <1>4, <2>1 DEF RecInv, RecorderTypes
  <2>3. AtRest' /\ Making' /\ Begun'
    BY <1>1, <2>1 DEF AtRest, Making, Begun
  <2>4. Entered'
    <3>1. rec # NoRecord => LastIsRec'
      BY <1>1, <1>2, <1>4 DEF LastIsRec, Safe
    <3> QED BY <1>1, <1>2, <1>4, <2>1, <3>1 DEF Entered
  <2>5. Gone'
    <3>1. rec = NoRecord => failed = <<>>
      BY <1>1 DEF RecInv, RecorderInv, Making
    <3> QED BY <1>1, <2>1, <3>1 DEF Gone
  <2>6. IndexedComplete'
    BY <1>1, <1>4 DEF RecInv, IndexedComplete
  <2> QED BY <2>2, <2>3, <2>4, <2>5, <2>6 DEF RecInv, RecorderInv
<1> QED BY <1>3, <1>4 DEF FlushOpen

LEMMA FlushWriteKeeps ==
    ASSUME RecInv, SameRun, FlushWrite
    PROVE  RecInv'
<1>1. /\ recpc = "dump" /\ thrown = "none" /\ UNCHANGED <<bin, entries, nextId, rec, run, failed>>
      /\ index.run = run /\ index.state = "cut"
  BY DEF FlushWrite, SameRun, RecInv, RecorderInv, Entered, Making
<1>2. rec # NoRecord => LastIsRec
  BY <1>1 DEF RecInv, RecorderInv, Entered
<1>3. rec = NoRecord => entries = <<>> /\ failed = <<>>
  BY <1>1 DEF RecInv, RecorderInv, Making
<1>4. CASE Throw("type_error") /\ UNCHANGED <<index, lost>> /\ rec # NoRecord
  <2>1. thrown' = "type_error" /\ recpc' = "close"
    BY <1>1, <1>2, <1>4 DEF Throw, LastIsRec, Owned
  <2>2. RecorderTypes'
    BY <1>1, <1>4, <2>1 DEF RecInv, RecorderTypes
  <2>3. Entered'
    <3>1. LastIsRec'
      BY <1>1, <1>2, <1>4 DEF LastIsRec, Safe
    <3> QED BY <2>1, <3>1 DEF Entered
  <2>4. AtRest' /\ Making' /\ Begun' /\ Gone'
    BY <1>1, <1>4, <2>1 DEF AtRest, Making, Begun, Gone
  <2>5. IndexedComplete'
    BY <1>1, <1>4 DEF RecInv, IndexedComplete
  <2> QED BY <2>2, <2>3, <2>4, <2>5 DEF RecInv, RecorderInv
<1>5. CASE /\ recpc' = (IF rec = NoRecord THEN "idle" ELSE "close") /\ thrown' = thrown
           /\ \/ /\ index' = [index EXCEPT !.state = "whole", !.entries = entries]
                 /\ lost' = lost \ {TheIndex}
              \/ index' = index /\ lost' = lost \cup {TheIndex}
  <2>1. index' \in Indexes /\ Flushed(index', lost', run, entries)
    <3>1. index \in Indexes /\ entries \in Seq(Records)
      BY RecFacts
    <3>2. CASE index' = [index EXCEPT !.state = "whole", !.entries = entries] /\ lost' = lost \ {TheIndex}
      <4>1. index' \in Indexes /\ index'.state = "whole" /\ index'.entries = entries /\ index'.run = index.run
        BY <3>1, <3>2 DEF Indexes
      <4> QED BY <1>1, <3>2, <4>1 DEF Flushed
    <3>3. CASE index' = index /\ lost' = lost \cup {TheIndex}
      BY <1>1, <3>1, <3>3 DEF Flushed
    <3> QED BY <1>5, <3>2, <3>3
  <2>2. RecorderTypes'
    BY <1>1, <1>5, <2>1 DEF RecInv, RecorderTypes
  <2>3. Firmer(bin, bin', lost, lost')
    BY <1>1, <1>5 DEF Firmer
  <2>4. CASE rec = NoRecord
    <3>1. entries = <<>> /\ failed = Tasks(entries) /\ recpc' = "idle"
      <4>1. Tasks(<<>>) = <<>>
        BY DEF Tasks
      <4> QED BY <1>3, <1>5, <2>4, <4>1
    <3>2. Safe(entries)'
      BY <1>1, <3>1 DEF Safe, Written, Below
    <3>3. AtRest'
      BY <1>1, <1>5, <2>1, <2>4, <3>1, <3>2 DEF AtRest
    <3>4. Making' /\ Begun' /\ Entered' /\ Gone'
      BY <1>1, <2>4, <3>1 DEF Making, Begun, Entered, Gone
    <3>5. Shown(index', bin', lost')
      BY <1>1, <2>1, <3>1 DEF Flushed, Shown
    <3>6. IndexedComplete'
      BY <3>5 DEF IndexedComplete, Shown, Owned, Closed
    <3> QED BY <2>2, <3>3, <3>4, <3>6 DEF RecInv, RecorderInv
  <2>5. CASE rec # NoRecord
    <3>1. LastIsRec /\ rec \in Records /\ Front(entries) \in Seq(Records) /\ recpc' = "close"
      BY <1>2, <1>5, <2>5, RecFacts
    <3>2. Written(bin', lost', run, Front(entries)) /\ Owned(bin', run, rec)
      BY <2>3, <3>1, FirmerKeeps, FirmerKeepsAll DEF LastIsRec, Safe
    <3>3. LastIsRec'
      BY <1>1, <3>1, <3>2 DEF LastIsRec, Safe
    <3>4. Entered'
      BY <1>1, <1>5, <2>1, <3>1, <3>3 DEF Entered
    <3>5. AtRest' /\ Making' /\ Begun' /\ Gone'
      BY <3>1 DEF AtRest, Making, Begun, Gone
    <3>6. Shown(index', bin', lost')
      <4>1. index'.run = run /\ (index'.state = "whole" => index'.entries = entries)
        BY <2>1 DEF Flushed
      <4>2. ASSUME NEW i \in DOMAIN entries
            PROVE  Owned(bin', run, entries[i]) /\ (Closed(bin', lost', entries[i]) \/ i = Len(entries))
        <5>1. /\ DOMAIN entries = 1..Len(entries) /\ Len(entries) \in Nat \ {0}
              /\ DOMAIN Front(entries) = 1..(Len(entries) - 1)
              /\ \A j \in 1..(Len(entries) - 1) : Front(entries)[j] = entries[j]
          BY <3>1, RecFacts, FrontIs, LenProperties DEF LastIsRec
        <5>2. CASE i = Len(entries)
          BY <3>1, <3>2, <5>2 DEF LastIsRec
        <5>3. CASE i # Len(entries)
          <6>1. i \in DOMAIN Front(entries) /\ Front(entries)[i] = entries[i]
            BY <5>1, <5>3
          <6> QED BY <3>2, <6>1 DEF Written
        <5> QED BY <5>2, <5>3
      <4> QED BY <4>1, <4>2 DEF Shown
    <3>7. IndexedComplete'
      BY <3>6 DEF IndexedComplete, Shown, Owned, Closed
    <3> QED BY <2>2, <3>4, <3>5, <3>7 DEF RecInv, RecorderInv
  <2> QED BY <2>4, <2>5
<1>6. (\E e \in ToSet(entries) : e.text = "not UTF-8") => rec # NoRecord
  <2>1. ToSet(<<>>) = {}
    BY DEF ToSet
  <2> QED BY <1>3, <2>1
<1> QED BY <1>4, <1>5, <1>6 DEF FlushWrite

LEMMA CloseKeeps ==
    ASSUME RecInv, SameRun, CloseArtifact
    PROVE  RecInv'
<1>1. /\ recpc = "close" /\ rec' = NoRecord /\ UNCHANGED <<index, entries, nextId, thrown, run, failed>>
      /\ LastIsRec /\ rec \in Records
      /\ recpc' = (IF thrown = "none" THEN "idle" ELSE "threw")
  BY DEF CloseArtifact, SameRun, RecInv, RecorderInv, Entered, LastIsRec
<1>2. KeyOf(rec) # TheIndex /\ KeyOf(rec) \in DOMAIN bin /\ Front(entries) \in Seq(Records)
  BY <1>1, KeysAreNotIndex, RecFacts DEF LastIsRec, Owned
<1>3. /\ BinMayClose /\ lost \ {TheIndex} \subseteq lost'
      /\ TheIndex \in lost' <=> TheIndex \in lost
      /\ Closed(bin', lost', rec)
  <2>1. CASE bin' = [bin EXCEPT ![KeyOf(rec)].state = "whole"] /\ lost' = lost
    <3>1. bin'[KeyOf(rec)].state = "whole"
      <4>1. bin \in [DOMAIN bin -> Files] /\ bin[KeyOf(rec)] \in Files
        BY <1>2 DEF RecInv, RecorderTypes
      <4> QED BY <1>2, <2>1, <4>1 DEF Files
    <3> QED BY <1>2, <2>1, <3>1 DEF BinMayClose, Closed
  <2>2. CASE lost' = lost \cup {KeyOf(rec)} /\ bin' = bin
    BY <1>2, <2>2 DEF BinMayClose, Closed
  <2> QED BY <2>1, <2>2 DEF CloseArtifact
<1>4. Firmer(bin, bin', lost, lost') /\ bin' \in [DOMAIN bin' -> Files]
  BY <1>3, MayCloseIsFirmer DEF RecInv
<1>5. RecorderTypes'
  BY <1>1, <1>4 DEF RecInv, RecorderTypes
<1>6. Written(bin', lost', run, Front(entries)) /\ Owned(bin', run, rec)
  BY <1>1, <1>2, <1>4, FirmerKeeps, FirmerKeepsAll DEF LastIsRec, Safe
<1>7. Written(bin', lost', run, entries) /\ Below(entries, nextId)
  <2>1. /\ DOMAIN entries = 1..Len(entries) /\ Len(entries) \in Nat \ {0}
        /\ DOMAIN Front(entries) = 1..(Len(entries) - 1)
        /\ \A j \in 1..(Len(entries) - 1) : Front(entries)[j] = entries[j]
    BY <1>1, RecFacts, FrontIs, LenProperties DEF LastIsRec
  <2>2. ASSUME NEW i \in DOMAIN entries
        PROVE  Owned(bin', run, entries[i]) /\ Closed(bin', lost', entries[i]) /\ entries[i].id < nextId
    <3>1. CASE i = Len(entries)
      BY <1>1, <1>3, <1>6, <3>1 DEF LastIsRec
    <3>2. CASE i # Len(entries)
      <4>1. i \in DOMAIN Front(entries) /\ Front(entries)[i] = entries[i]
        BY <2>1, <3>2
      <4>2. Below(Front(entries), nextId)
        BY <1>1 DEF LastIsRec, Safe
      <4> QED BY <1>6, <4>1, <4>2 DEF Written, Below
    <3> QED BY <3>1, <3>2
  <2> QED BY <2>2 DEF Written, Below
<1>8. AtRest'
  <2>1. thrown = "none" => Flushed(index', lost', run, entries)
    BY <1>1, <1>3 DEF RecInv, RecorderInv, Entered, Flushed
  <2>2. Safe(entries)'
    BY <1>1, <1>7 DEF Safe
  <2> QED BY <1>1, <2>1, <2>2 DEF AtRest, LastIsRec
<1>9. Gone'
  <2>1. ASSUME thrown = "runtime_error" PROVE Complete(index', bin', lost', run, Front(failed))
    <3>1. Flushed(index, lost, run, Front(entries))
      BY <1>1, <2>1 DEF RecInv, RecorderInv, Entered
    <3>2. Flushed(index', lost', run, Front(entries))
      BY <1>1, <1>3, <3>1 DEF Flushed
    <3>3. Tasks(Front(entries)) = Front(failed)
      BY <1>1, RecFacts, TasksFront DEF LastIsRec
    <3> QED BY <1>2, <1>6, <3>2, <3>3, ThrownIsComplete
  <2> QED BY <1>1, <2>1 DEF Gone
<1>10. Making' /\ Begun' /\ Entered'
  BY <1>1 DEF Making, Begun, Entered
<1>11. IndexedComplete'
  <2>1. Shown(index, bin', lost')
    BY <1>4, RecFacts, FirmerShows
  <2> QED BY <1>1, <2>1 DEF IndexedComplete, Shown, Owned, Closed
<1> QED BY <1>5, <1>8, <1>9, <1>10, <1>11 DEF RecInv, RecorderInv

LEMMA ConstructKeeps ==
    ASSUME RecInv, SameRun, Construct, failed = <<>>
    PROVE  RecInv'
<1>1. /\ recpc = "none" /\ entries' = <<>> /\ nextId' = 1 /\ rec' = NoRecord
      /\ UNCHANGED <<index, bin, lost, run, failed>>
      /\ \/ thrown' = "none" /\ recpc' = "flush"
         \/ thrown' = "runtime_error" /\ recpc' = "threw"
  BY DEF Construct, SameRun
<1>2. RecorderTypes'
  BY <1>1, EmptySeq DEF RecInv, RecorderTypes
<1>3. RecorderInv'
  BY <1>1 DEF RecorderInv, AtRest, Making, Begun, Entered, Gone
<1>4. IndexedComplete'
  BY <1>1 DEF RecInv, IndexedComplete
<1> QED BY <1>2, <1>3, <1>4 DEF RecInv

Noticed(task) == failed' = Append(failed, task) /\ run' = run

LEMMA RecordKeeps ==
    ASSUME RecInv, NEW kind \in Failures, NEW task \in Nat, NEW args \in Seq(Nat),
           NEW text \in Texts,
           Record(kind, task, args, text), Noticed(task)
    PROVE  RecInv' /\ rec' # NoRecord /\ rec'.args = args
<1>1. /\ recpc = "idle" /\ recpc' = "open" /\ nextId' = nextId + 1
      /\ UNCHANGED <<faults, index, bin, entries, thrown, lost>>
      /\ rec' = [kind |-> kind, id |-> nextId, task |-> task, args |-> args, text |-> text]
  BY DEF Record, disk
<1>2. Safe(entries) /\ Flushed(index, lost, run, entries) /\ thrown = "none" /\ failed = Tasks(entries)
  BY <1>1 DEF RecInv, RecorderInv, AtRest
<1>3. nextId \in Nat \ {0} /\ rec' \in Records /\ rec' # NoRecord
  <2>1. nextId \in Nat \ {0}
    BY DEF RecInv, RecorderTypes
  <2>2. rec' \in Records
    BY <1>1, <2>1 DEF Records
  <2> QED BY <2>1, <2>2, KeysAreNotIndex
<1>4. nextId' \in Nat \ {0} /\ \A n \in Nat : n <= nextId => n < nextId'
  <2>1. nextId \in Nat /\ nextId' = nextId + 1
    BY <1>1, <1>3
  <2> QED BY <2>1
<1>5. RecorderTypes'
  BY <1>1, <1>3, <1>4 DEF RecInv, RecorderTypes
<1>6. rec'.id = nextId /\ rec'.task = task /\ rec'.args = args
  BY <1>1
<1>7. Begun'
  <2>1. Below(entries', nextId')
    <3>1. \A i \in DOMAIN entries : entries[i].id \in Nat
      <4>1. \A i \in DOMAIN entries : entries[i] \in Records
        BY RecFacts, ElementOfSeq, LenProperties
      <4> QED BY <4>1 DEF Records
    <3>2. \A i \in DOMAIN entries : entries[i].id <= nextId
      BY <1>2, <1>3, <3>1 DEF Safe, Below
    <3> QED BY <1>1, <1>4, <3>1, <3>2 DEF Below
  <2>2. Safe(entries)'
    BY <1>1, <1>2, <2>1 DEF Safe, Noticed
  <2>3. Below(entries', rec'.id)
    BY <1>1, <1>2, <1>6 DEF Safe
  <2>4. rec'.id < nextId'
    BY <1>3, <1>6, <1>4
  <2> QED BY <1>1, <1>2, <1>3, <1>6, <2>2, <2>3, <2>4 DEF Begun, Noticed
<1>8. AtRest' /\ Making' /\ Entered' /\ Gone'
  BY <1>1 DEF AtRest, Making, Entered, Gone
<1>9. IndexedComplete'
  BY <1>1 DEF RecInv, IndexedComplete
<1> QED BY <1>3, <1>5, <1>6, <1>7, <1>8, <1>9 DEF RecInv, RecorderInv

(* Steps of others, and the end of the object. *)
LEMMA RecStays ==
    ASSUME RecInv, SameRun, UNCHANGED <<index, bin, memory>>
    PROVE  RecInv'
<1>1. RecorderTypes'
  BY DEF RecInv, RecorderTypes, memory
<1>2. RecorderInv'
  BY DEF RecInv, RecorderInv, AtRest, Making, Begun, Entered, Gone, LastIsRec, Safe, SameRun, memory
<1>3. IndexedComplete'
  BY DEF RecInv, IndexedComplete, memory
<1> QED BY <1>1, <1>2, <1>3 DEF RecInv

LEMMA GoneStays ==
    ASSUME RecInv, UNCHANGED <<index, bin, lost>>, recpc' = "none", rec' = NoRecord, thrown' = "none",
           entries' \in Seq(Records), nextId' \in Nat \ {0}
    PROVE  RecInv'
<1>1. RecorderTypes'
  BY DEF RecInv, RecorderTypes
<1>2. RecorderInv'
  BY DEF RecorderInv, AtRest, Making, Begun, Entered, Gone
<1>3. IndexedComplete'
  BY DEF RecInv, IndexedComplete
<1> QED BY <1>1, <1>2, <1>3 DEF RecInv

-----------------------------------------------------------------------------
(* The types of the argument stream *)

LEMMA DrawTypes ==
    ASSUME StreamTypes, NEW o \in Objects, Draw(o), level \in Args, UNCHANGED callers
    PROVE  StreamTypes'
<1> USE DEF StreamTypes
<1>1. Len(arg) \in Nat /\ Args = 1..Len(arg)
  BY LenProperties DEF Args
<1>2. Following(o) \in Nat
  <2>1. Items \in Nat \ {0} /\ cursor[o] \in Nat
    BY StreamAssumption
  <2> QED BY <2>1 DEF Following
<1>3. /\ storage' = Append(storage, cursor[o]) /\ level' = level + 1
      /\ UNCHANGED <<mode, calls, arg, size, random>>
  BY DEF Draw, callers
<1>4. idx' \in [Objects -> Nat]
  <2>1. [idx EXCEPT ![o] = @ + 1] \in [Objects -> Nat]
    OBVIOUS
  <2> DEFINE drawn == [idx EXCEPT ![o] = @ + 1]
  <2> HIDE DEF drawn
  <2>2. \E inner : idx' = [x \in Objects |-> IF x \in inner THEN 0 ELSE drawn[x]]
    BY DEF Draw, drawn
  <2>3. drawn \in [Objects -> Nat]
    BY <2>1 DEF drawn
  <2> QED BY <2>2, <2>3
<1>5. cursor' \in [Objects -> Nat]
  <2>1. [cursor EXCEPT ![o] = Following(o)] \in [Objects -> Nat]
    BY <1>2
  <2> DEFINE drawn == [cursor EXCEPT ![o] = Following(o)]
  <2> HIDE DEF drawn
  <2>2. \E inner : cursor' = [x \in Objects |-> IF x \in inner THEN 0 ELSE drawn[x]]
    BY DEF Draw, drawn
  <2>3. drawn \in [Objects -> Nat]
    BY <2>1 DEF drawn
  <2> QED BY <2>2, <2>3
<1>6. storage' \in Seq(Nat) /\ level' \in 0..(Len(arg) + 1)
  BY <1>1, <1>3
<1> QED BY <1>3, <1>4, <1>5, <1>6

LEMMA ResetTypes ==
    ASSUME StreamTypes, NEW o \in Objects, Reset(o)
    PROVE  idx' \in [Objects -> Nat] /\ cursor' \in [Objects -> Nat]
  BY DEF StreamTypes, Reset, Rewound

LEMMA ExhaustTypes ==
    ASSUME StreamTypes, NEW o \in Objects, Exhaust(o), level \in Args, UNCHANGED callers
    PROVE  StreamTypes'
<1> USE DEF StreamTypes
<1>1. Len(arg) \in Nat /\ Args = 1..Len(arg) /\ <<>> \in Seq(Nat) /\ Front(storage) \in Seq(Nat)
  BY LenProperties, FrontIs, EmptySeq DEF Args
<1>2. UNCHANGED <<mode, calls, arg, size, random>>
  BY DEF Exhaust, callers
<1>3. idx' \in [Objects -> Nat] /\ cursor' \in [Objects -> Nat]
  BY ResetTypes DEF Exhaust
<1>4. level' \in 0..(Len(arg) + 1) /\ storage' \in Seq(Nat)
  <2>1. level' = 0 \/ level' = level - 1
    BY DEF Exhaust
  <2>2. storage' = <<>> \/ storage' = Front(storage)
    BY DEF Exhaust
  <2>3. Len(arg) \in Nat /\ level \in 1..Len(arg)
    BY <1>1
  <2>4. level' \in 0..(Len(arg) + 1)
    BY ONLY <2>1, <2>3
  <2> QED BY <1>1, <2>2, <2>4
<1> QED BY <1>2, <1>3, <1>4

LEMMA LoopsTypes ==
    ASSUME StreamTypes, Loops
    PROVE  StreamTypes' /\ level # 0 /\ calls' = calls /\ mode' = mode /\ UNCHANGED callers
<1>1. level \in Args /\ UNCHANGED callers
  BY DEF Loops, Drawing
<1>2. arg[level] \in Objects /\ level # 0
  BY <1>1, LenProperties, ElementOfSeq DEF StreamTypes, Args
<1>3. Exhaust(arg[level]) \/ Draw(arg[level])
  BY DEF Loops
<1>4. StreamTypes'
  BY <1>1, <1>2, <1>3, DrawTypes, ExhaustTypes
<1> QED BY <1>1, <1>2, <1>3, <1>4 DEF Draw, Exhaust

LEMMA EnterLoopsTypes ==
    ASSUME StreamTypes, EnterLoops, UNCHANGED callers
    PROVE  StreamTypes' /\ UNCHANGED <<calls, mode, storage>> /\ level' = 1
<1>1. UNCHANGED <<mode, calls, arg, size, random, storage>> /\ level' = 1
  BY DEF EnterLoops, callers
<1>2. idx' \in [Objects -> Nat] /\ cursor' \in [Objects -> Nat]
  <2>1. CASE mode = "grid" /\ arg # <<>>
    <3>1. Reset(arg[1])
      BY <2>1 DEF EnterLoops
    <3>2. arg[1] \in Objects
      <4>1. 1 \in 1..Len(arg)
        BY <2>1, EmptySeq DEF StreamTypes
      <4> QED BY <4>1, ElementOfSeq DEF StreamTypes
    <3> QED BY <3>1, <3>2, ResetTypes
  <2>2. CASE ~(mode = "grid" /\ arg # <<>>)
    BY <2>2 DEF EnterLoops, StreamTypes
  <2> QED BY <2>1, <2>2
<1>3. 1 \in 0..(Len(arg) + 1)
  BY LenProperties DEF StreamTypes
<1> QED BY <1>1, <1>2, <1>3 DEF StreamTypes

LEMMA TupleTypes ==
    ASSUME StreamTypes, NEW single, NextTuple(single)
    PROVE  /\ StreamTypes' /\ UNCHANGED callers /\ mode' = mode
           /\ Len(calls') = Len(calls) + 1 /\ DOMAIN calls' = 1..(Len(calls) + 1)
           /\ DOMAIN calls = 1..Len(calls) /\ Len(calls) \in Nat
           /\ level # 0 /\ calls' # <<>> /\ calls'[1] = IF calls = <<>> THEN storage ELSE calls[1]
<1> USE DEF StreamTypes
<1>1. Len(arg) \in Nat /\ <<>> \in Seq(Nat) /\ Front(storage) \in Seq(Nat) /\ storage \in Seq(Nat)
  BY LenProperties, FrontIs, EmptySeq
<1>2. /\ level = Len(arg) + 1 /\ calls' = Append(calls, storage)
      /\ UNCHANGED <<arg, size, random, idx, cursor, mode>>
  BY DEF NextTuple, TupleReady, callers
<1>3. /\ calls' \in Seq(Seq(Nat)) /\ Len(calls') = Len(calls) + 1 /\ Len(calls) \in Nat
      /\ DOMAIN calls = 1..Len(calls) /\ DOMAIN calls' = 1..(Len(calls) + 1) /\ calls' # <<>>
  <2>1. calls \in Seq(Seq(Nat))
    OBVIOUS
  <2> DEFINE new == Append(calls, storage)
  <2>2. /\ new \in Seq(Seq(Nat)) /\ Len(new) = Len(calls) + 1 /\ Len(calls) \in Nat
        /\ DOMAIN calls = 1..Len(calls) /\ DOMAIN new = 1..(Len(calls) + 1)
    BY <1>1, <2>1, AppendIs
  <2>3. new # <<>>
    <3> HIDE DEF new
    <3>1. Len(new) # 0 /\ Len(<<>>) = 0
      BY <2>2
    <3> QED BY <3>1
  <2> QED BY <1>2, <2>2, <2>3
<1>4. level' \in 0..(Len(arg) + 1) /\ storage' \in Seq(Nat)
  <2>1. level' \in {0, 1, level - 1}
    BY DEF NextTuple
  <2>2. storage' \in {<<>>, Front(storage)}
    BY DEF NextTuple
  <2>3. level' \in 0..(Len(arg) + 1)
    <3>1. Len(arg) \in Nat /\ level = Len(arg) + 1
      BY <1>1, <1>2
    <3> HIDE DEF StreamTypes
    <3> QED BY <2>1, <3>1
  <2> QED BY <1>1, <2>2, <2>3
<1>5. calls'[1] = IF calls = <<>> THEN storage ELSE calls[1]
  <2>1. /\ \A i \in 1..Len(calls) : calls'[i] = calls[i]
        /\ calls'[Len(calls) + 1] = storage
    BY <1>1, <1>2, AppendIs
  <2>2. calls # <<>> => 1 \in 1..Len(calls)
    BY EmptySeq
  <2>3. calls = <<>> => Len(calls) + 1 = 1
    BY EmptySeq
  <2> QED BY <2>1, <2>2, <2>3
<1> QED BY <1>1, <1>2, <1>3, <1>4, <1>5 DEF callers

-----------------------------------------------------------------------------
(* The steps of fuzz() *)

LEMMA RecordingKeeps ==
    ASSUME RecInv, run \in Nat, SameRun, Recording(run), recpc \in {"flush", "dump"} => rec # NoRecord
    PROVE  /\ RecInv' /\ recpc' # "none" /\ (recpc' \in {"flush", "dump"} => rec' # NoRecord)
           /\ rec' \in {rec, NoRecord}
<1>1. RecInv'
  BY OpenKeeps, WriteKeeps, FlushOpenKeeps, FlushWriteKeeps, CloseKeeps DEF Recording
<1>2. CASE OpenArtifact(run)
  BY <1>1, <1>2 DEF OpenArtifact, Throw
<1>3. CASE WriteArtifact
  <2>1. rec # NoRecord /\ rec' = rec
    BY <1>3, KeysAreNotIndex DEF WriteArtifact, RecInv, RecorderInv, Begun
  <2> QED BY <1>1, <1>3, <2>1 DEF WriteArtifact
<1>4. CASE FlushOpen(run)
  BY <1>1, <1>4 DEF FlushOpen, Throw
<1>5. CASE FlushWrite
  BY <1>1, <1>5 DEF FlushWrite, Throw
<1>6. CASE CloseArtifact
  BY <1>1, <1>6 DEF CloseArtifact
<1> QED BY <1>2, <1>3, <1>4, <1>5, <1>6 DEF Recording

(* Without a step of the recorder. *)
LEMMA RestIsComplete ==
    ASSUME RecInv, recpc = "idle"
    PROVE  Complete(index, bin, lost, run, failed)
<1>1. /\ Safe(entries) /\ Flushed(index, lost, run, entries) /\ failed = Tasks(entries)
  BY DEF RecInv, RecorderInv, AtRest
<1> QED BY <1>1, RecFacts, ThrownIsComplete DEF Safe

LEMMA LeaveKeeps ==
    ASSUME FuzzInv, NEW how \in {"ok", "threw"}, Leave(how), how = "ok" => Returned
    PROVE  FuzzInv'
<1>1. /\ pc' = "outside" /\ left' = how /\ cpc' = "none"
      /\ UNCHANGED <<callers, stream, run, isolated, todo, stopped, failing, swallowed, failed, ever, index, bin, lost>>
      /\ entries' = <<>> /\ nextId' = 1 /\ recpc' = "none" /\ rec' = NoRecord /\ thrown' = "none"
  BY DEF Leave, Discard, pool, seen, disk
<1>2. RecInv'
  <2>1. <<>> \in Seq(Records)
    BY EmptySeq
  <2> QED BY <1>1, <2>1, GoneStays DEF FuzzInv
<1>3. StreamTypes'
  BY <1>1 DEF FuzzInv, StreamTypes, callers, stream
<1>4. RunTypes'
  BY <1>1 DEF FuzzInv, RunTypes, stream
<1>5. UserInv'
  BY <1>1 DEF UserInv
<1>6. DoneInv'
  BY <1>1 DEF DoneInv
<1>7. TodoInv'
  BY <1>1 DEF FuzzInv, TodoInv, stream
<1>8. ReturnInv'
  <2>1. Returned => Returned'
    BY <1>1 DEF Returned
  <2> QED BY <1>1, <2>1 DEF ReturnInv
<1> QED BY <1>2, <1>3, <1>4, <1>5, <1>6, <1>7, <1>8 DEF FuzzInv

LEMMA EnterKeeps ==
    ASSUME FuzzInv, Enter
    PROVE  FuzzInv'
<1> USE DEF FuzzInv
<1>1. /\ pc = "outside" /\ run' = run + 1 /\ isolated' \in BOOLEAN /\ left' = "no"
      /\ mode' \in {"zip", "grid", "bin"} /\ level' = 0 /\ storage' = <<>> /\ calls' = <<>>
      /\ pc' = (IF UseRecorder THEN "construct" ELSE "start")
      /\ todo' = {} /\ stopped' = FALSE /\ failing' = FALSE /\ swallowed' = FALSE /\ failed' = <<>>
      /\ UNCHANGED <<callers, idx, cursor, index, bin, memory, cpc, ever>>
  BY DEF Enter, disk
<1>2. recpc = "none" /\ cpc = "none"
  BY <1>1 DEF UserInv
<1>3. StreamTypes'
  <2>1. 0 \in 0..(Len(arg) + 1) /\ <<>> \in Seq(Nat) /\ <<>> \in Seq(Seq(Nat))
    BY LenProperties, EmptySeq DEF StreamTypes
  <2> QED BY <1>1, <2>1 DEF StreamTypes, callers
<1>4. RunTypes'
  <2>1. <<>> \in Seq(Nat) /\ DOMAIN calls' = {}
    BY <1>1, EmptySeq
  <2>2. run' \in Nat
    BY <1>1 DEF RunTypes
  <2> QED BY <1>1, <1>2, <2>1, <2>2 DEF RunTypes
<1>5. RecInv'
  <2>1. RecorderTypes'
    BY <1>1 DEF RecInv, RecorderTypes, memory
  <2>2. RecorderInv'
    BY <1>1, <1>2 DEF RecorderInv, AtRest, Making, Begun, Entered, Gone, memory
  <2>3. IndexedComplete'
    BY <1>1 DEF RecInv, IndexedComplete, memory
  <2> QED BY <2>1, <2>2, <2>3 DEF RecInv
<1>6. UserInv'
  BY <1>1, <1>2 DEF UserInv, Rest, memory
<1>7. DoneInv' /\ TodoInv' /\ ReturnInv'
  BY <1>1, <1>2 DEF DoneInv, TodoInv, ReturnInv
<1> QED BY <1>3, <1>4, <1>5, <1>6, <1>7

LEMMA MakeRecorderKeeps ==
    ASSUME FuzzInv, MakeRecorder
    PROVE  FuzzInv'
<1> USE DEF FuzzInv
<1>1. pc = "construct" /\ cpc = "none" /\ UseRecorder /\ rec = NoRecord /\ failed = <<>> /\ run \in Nat
  BY DEF MakeRecorder, UserInv, RunTypes
<1>2. CASE /\ Construct \/ FlushOpen(run) \/ FlushWrite
           /\ UNCHANGED <<callers, stream, run, isolated, left, pc, cpc, pool, failing, swallowed, seen>>
  <2>1. SameRun
    BY <1>2 DEF SameRun, seen
  <2>2. RecInv'
    BY <1>1, <1>2, <2>1, ConstructKeeps, FlushOpenKeeps, FlushWriteKeeps
  <2>3. rec' = NoRecord /\ recpc' \in {"flush", "dump", "idle", "threw"}
    <3>1. CASE Construct
      BY <3>1 DEF Construct
    <3>2. CASE FlushOpen(run)
      BY <1>1, <3>2 DEF FlushOpen, Throw
    <3>3. CASE FlushWrite
      <4>1. recpc = "dump"
        BY <3>3 DEF FlushWrite
      <4>2. entries = <<>>
        BY <1>1, <4>1 DEF RecInv, RecorderInv, Making
      <4>3. ToSet(<<>>) = {}
        BY DEF ToSet
      <4> QED BY <1>1, <3>3, <4>2, <4>3 DEF FlushWrite
    <3> QED BY <1>2, <3>1, <3>2, <3>3
  <2>4. StreamTypes' /\ RunTypes'
    BY <1>2 DEF StreamTypes, RunTypes, callers, stream, pool, seen
  <2>5. UserInv'
    BY <1>1, <1>2, <2>3 DEF UserInv, seen
  <2>6. DoneInv'
    BY <1>1, <1>2 DEF DoneInv
  <2>7. TodoInv'
    BY <1>2 DEF TodoInv, stream, pool
  <2>8. ReturnInv'
    BY <1>1, <1>2 DEF ReturnInv
  <2> QED BY <2>2, <2>4, <2>5, <2>6, <2>7, <2>8
<1>3. CASE /\ recpc = "idle" /\ pc' = "start"
           /\ UNCHANGED <<callers, stream, disk, memory, control, pool, consumer, seen>>
  <2>1. RecInv'
    BY <1>3, RecStays DEF SameRun, control, seen, disk
  <2>2. StreamTypes' /\ RunTypes'
    BY <1>3 DEF StreamTypes, RunTypes, callers, stream, pool, seen, control, consumer
  <2>3. UserInv'
    BY <1>1, <1>3 DEF UserInv, Rest, seen, memory, consumer, control
  <2>4. DoneInv' /\ TodoInv' /\ ReturnInv'
    BY <1>1, <1>3 DEF DoneInv, TodoInv, ReturnInv, stream, pool, consumer, control
  <2> QED BY <2>1, <2>2, <2>3, <2>4
<1>4. CASE Leave("threw")
  BY <1>4, LeaveKeeps
<1> QED BY <1>2, <1>3, <1>4 DEF MakeRecorder, consumer, control

(* The loops begin. *)
LEMMA StartLoopsKeeps ==
    ASSUME FuzzInv, StartLoops
    PROVE  FuzzInv'
<1> USE DEF FuzzInv
<1>1. pc = "start" /\ mode # "bin" /\ cpc = "none" /\ recpc = Rest /\ failed = <<>>
      /\ todo = {} /\ ~stopped /\ calls = <<>>
  BY DEF StartLoops, UserInv, TodoInv
<1>2. CASE Leave("threw")
  BY <1>2, LeaveKeeps
<1>3. CASE /\ EnterLoops /\ pc' = "loops" /\ cpc' = (IF isolated THEN "wait" ELSE "none")
           /\ UNCHANGED <<callers, disk, memory, control, pool, failing, swallowed, seen>>
  <2>1. RecInv'
    BY <1>3, RecStays DEF SameRun, control, seen, disk
  <2>2. StreamTypes' /\ UNCHANGED <<calls, mode>>
    BY <1>3, EnterLoopsTypes
  <2>3. RunTypes'
    BY <1>3, <2>2 DEF RunTypes, pool, seen, control
  <2>4. UserInv'
    BY <1>1, <1>3 DEF UserInv, Rest, seen, memory, control
  <2>5. DoneInv' /\ ReturnInv'
    BY <1>1, <1>3 DEF DoneInv, ReturnInv
  <2>6. TodoInv'
    BY <1>1, <1>3, <2>2 DEF TodoInv, pool
  <2> QED BY <2>1, <2>2, <2>3, <2>4, <2>5, <2>6
<1> QED BY <1>2, <1>3 DEF StartLoops

(* Every artifact holds arguments. *)
LEMMA LoadedTypes ==
    ASSUME RecInv, NEW key \in DOMAIN bin, NEW args \in Loaded(key)
    PROVE  args = bin[key].args /\ args \in Seq(Nat)
<1>1. bin[key] \in Files
  BY RecFacts
<1> QED BY <1>1 DEF Loaded, Files

LEMMA StartReplayKeeps ==
    ASSUME FuzzInv, StartReplay
    PROVE  FuzzInv'
<1> USE DEF FuzzInv
<1>1. pc = "start" /\ mode = "bin" /\ cpc = "none" /\ recpc = Rest /\ failed = <<>>
      /\ todo = {} /\ ~stopped /\ level = 0
  BY DEF StartReplay, UserInv, TodoInv
<1>2. CASE Leave("threw")
  BY <1>2, LeaveKeeps
<1>3. CASE ~Leave("threw")
  <2>1. PICK key \in DOMAIN bin : \E args \in Loaded(key) : calls' = <<args>>
    BY <1>3 DEF StartReplay
  <2>2. PICK args \in Loaded(key) : calls' = <<args>>
    BY <2>1
  <2>3. /\ pc' = (IF isolated THEN "loops" ELSE "call")
        /\ cpc' = (IF isolated THEN "wait" ELSE "none")
        /\ todo' = (IF isolated THEN {1} ELSE {})
        /\ UNCHANGED <<callers, idx, cursor, mode, level, storage, disk, memory,
                       control, stopped, failing, swallowed, seen>>
    BY <1>3 DEF StartReplay
  <2>4. calls' \in Seq(Seq(Nat)) /\ DOMAIN calls' = {1} /\ calls' # <<>>
    <3>1. args \in Seq(Nat)
      BY LoadedTypes
    <3>2. /\ <<args>> \in Seq(Seq(Nat)) /\ Len(<<args>>) = 1
      BY <3>1
    <3>3. DOMAIN <<args>> = 1..1
      BY <3>2, LenProperties
    <3> QED BY <2>2, <3>2, <3>3
  <2>5. RecInv'
    BY <2>3, RecStays DEF SameRun, control, seen, disk
  <2>6. StreamTypes' /\ RunTypes'
    BY <2>3, <2>4 DEF StreamTypes, RunTypes, callers, seen, control
  <2>7. UserInv'
    BY <1>1, <2>3 DEF UserInv, Rest, seen, memory, control
  <2>8. DoneInv' /\ ReturnInv'
    BY <1>1, <2>3 DEF DoneInv, ReturnInv
  <2>9. TodoInv'
    BY <1>1, <2>3, <2>4 DEF TodoInv, control
  <2> QED BY <2>5, <2>6, <2>7, <2>8, <2>9
<1> QED BY <1>2, <1>3

LEMMA StepKeeps ==
    ASSUME FuzzInv, Step
    PROVE  FuzzInv'
<1> USE DEF FuzzInv
<1>1. pc = "loops" /\ Loops /\ UNCHANGED <<disk, memory, control, pc, pool, consumer, seen>>
  BY DEF Step
<1>2. StreamTypes' /\ level # 0 /\ UNCHANGED <<calls, mode>>
  BY <1>1, LoopsTypes
<1>3. RecInv'
  BY <1>1, RecStays DEF SameRun, control, seen, disk
<1>4. RunTypes'
  BY <1>1, <1>2 DEF RunTypes, pool, seen, control, consumer
<1>5. UserInv'
  BY <1>1 DEF UserInv, Rest, seen, memory, control, consumer
<1>6. DoneInv' /\ ReturnInv'
  BY <1>1 DEF DoneInv, ReturnInv, consumer, memory, seen, pool, Rest
<1>7. TodoInv'
  BY <1>1, <1>2 DEF TodoInv, pool, control
<1> QED BY <1>2, <1>3, <1>4, <1>5, <1>6, <1>7

LEMMA HandKeeps ==
    ASSUME FuzzInv, Hand
    PROVE  FuzzInv'
<1> USE DEF FuzzInv
<1>1. /\ pc = "loops" /\ NextTuple(isolated \/ mode = "grid")
      /\ IF isolated THEN todo' = todo \cup {Len(calls) + 1} /\ pc' = pc
                     ELSE pc' = "call" /\ todo' = todo
      /\ UNCHANGED <<disk, memory, control, stopped, consumer, seen>>
  BY DEF Hand
<1>2. /\ StreamTypes' /\ mode' = mode /\ level # 0 /\ calls' # <<>>
      /\ DOMAIN calls' = 1..(Len(calls) + 1) /\ DOMAIN calls = 1..Len(calls) /\ Len(calls) \in Nat
  <2>1. (isolated \/ mode = "grid") \in BOOLEAN
    OBVIOUS
  <2>2. PICK single \in BOOLEAN : NextTuple(single)
    BY <1>1, <2>1
  <2> QED BY <2>2, TupleTypes
<1>3. ~stopped /\ mode # "bin"
  BY <1>1, <1>2 DEF TodoInv
<1>4. RecInv'
  BY <1>1, RecStays DEF SameRun, control, seen, disk
<1>5. RunTypes'
  <2>1. todo' \subseteq DOMAIN calls'
    <3>1. DOMAIN calls \subseteq DOMAIN calls' /\ Len(calls) + 1 \in DOMAIN calls'
      BY <1>2
    <3> QED BY <1>1, <3>1 DEF RunTypes
  <2> QED BY <1>1, <2>1 DEF RunTypes, seen, control, consumer
<1>6. UserInv'
  BY <1>1 DEF UserInv, Rest, seen, memory, control, consumer
<1>7. DoneInv' /\ ReturnInv'
  BY <1>1, <1>3 DEF DoneInv, ReturnInv, consumer, memory, seen, Rest
<1>8. TodoInv'
  BY <1>1, <1>2, <1>3 DEF TodoInv, control
<1> QED BY <1>2, <1>4, <1>5, <1>6, <1>7, <1>8

(* A call that failed is given to the recorder. *)
LEMMA FailsKeeps ==
    ASSUME FuzzInv, run' = run, NEW task \in DOMAIN calls, NEW kind \in Failures, NEW text \in Texts,
           Fails(task, kind, text)
    PROVE  /\ RecInv' /\ UseRecorder /\ recpc = "idle" /\ recpc' = "open" /\ rec' # NoRecord
           /\ failed' \in Seq(Nat) /\ failed' # <<>> /\ ever' \subseteq Seq(Nat)
           /\ rec'.args = calls[task] /\ calls[task] \in ever' /\ ever \subseteq ever' /\ bin' = bin
<1>1. task \in Nat /\ calls[task] \in Seq(Nat)
  BY LenProperties, ElementOfSeq DEF FuzzInv, StreamTypes
<1>2. Noticed(task) /\ Record(kind, task, calls[task], text) /\ RecInv
  BY DEF Fails, Noticed, FuzzInv
<1>3. RecInv' /\ rec' # NoRecord /\ rec'.args = calls[task]
  BY <1>1, <1>2, RecordKeeps
<1>4. failed' \in Seq(Nat) /\ failed' # <<>>
  <2>1. failed \in Seq(Nat) /\ failed' = Append(failed, task)
    BY DEF Fails, FuzzInv, RunTypes
  <2> QED BY <1>1, <2>1, AppendProperties
<1>5. ever' = ever \cup {calls[task]} /\ ever \subseteq Seq(Nat) /\ UseRecorder
  BY DEF Fails, FuzzInv, RunTypes
<1> QED BY <1>1, <1>2, <1>3, <1>4, <1>5 DEF Record, disk

LEMMA CallKeeps ==
    ASSUME FuzzInv, Call
    PROVE  FuzzInv'
<1> USE DEF FuzzInv
<1>1. /\ pc = "call" /\ ~isolated /\ cpc = "none" /\ recpc = Rest /\ ~stopped /\ todo = {}
      /\ UNCHANGED <<callers, stream, control, pool, consumer>>
  BY DEF Call, UserInv, TodoInv
<1>2. StreamTypes' /\ UNCHANGED <<calls, mode, level>>
  BY <1>1 DEF StreamTypes, callers, stream
<1>3. CASE pc' = "loops" /\ UNCHANGED <<disk, memory, seen>>
  <2>1. RecInv'
    BY <1>1, <1>3, RecStays DEF SameRun, control, seen, disk
  <2>2. RunTypes'
    BY <1>1, <1>2, <1>3 DEF RunTypes, pool, seen, control, consumer
  <2>3. UserInv'
    BY <1>1, <1>3 DEF UserInv, Rest, seen, memory, control, consumer
  <2>4. DoneInv' /\ ReturnInv'
    BY <1>1, <1>3 DEF DoneInv, ReturnInv, consumer, memory, seen, pool, Rest
  <2>5. TodoInv'
    BY <1>1, <1>2, <1>3 DEF TodoInv, pool, control
  <2> QED BY <1>2, <2>1, <2>2, <2>3, <2>4, <2>5
<1>4. CASE pc' = "record" /\ \E text \in Texts : Fails(Len(calls), "exception", text)
  <2>1. PICK text \in Texts : Fails(Len(calls), "exception", text)
    BY <1>4
  <2>2. Len(calls) \in DOMAIN calls
    <3>1. calls # <<>> /\ calls \in Seq(Seq(Nat))
      BY <1>1 DEF TodoInv, StreamTypes
    <3>2. Len(calls) \in Nat \ {0} /\ DOMAIN calls = 1..Len(calls)
      BY <3>1, EmptySeq, LenProperties
    <3> QED BY <3>2
  <2>3. /\ RecInv' /\ UseRecorder /\ recpc' = "open" /\ rec' # NoRecord
        /\ failed' \in Seq(Nat) /\ failed' # <<>> /\ ever' \subseteq Seq(Nat)
    BY <1>1, <2>1, <2>2, FailsKeeps DEF Failures, control
  <2>4. RunTypes'
    BY <1>1, <1>2, <1>4, <2>3 DEF RunTypes, pool, control, consumer
  <2>5. UserInv'
    BY <1>1, <1>4, <2>3 DEF UserInv, control, consumer
  <2>6. DoneInv' /\ ReturnInv'
    BY <1>1, <1>4 DEF DoneInv, ReturnInv, consumer, control
  <2>7. TodoInv'
    BY <1>1, <1>2, <1>4 DEF TodoInv, pool, control
  <2> QED BY <1>2, <2>3, <2>4, <2>5, <2>6, <2>7
<1> QED BY <1>3, <1>4 DEF Call, Texts

LEMMA CallRecordsKeeps ==
    ASSUME FuzzInv, CallRecords
    PROVE  FuzzInv'
<1> USE DEF FuzzInv
<1>1. /\ pc = "record" /\ ~isolated /\ cpc = "none" /\ UseRecorder /\ failed # <<>> /\ recpc # "none"
      /\ recpc \in {"flush", "dump"} => rec # NoRecord
      /\ run \in Nat /\ ~stopped /\ todo = {}
  BY DEF CallRecords, UserInv, TodoInv, RunTypes
<1>2. CASE Recording(run) /\ UNCHANGED <<callers, stream, control, pc, pool, consumer, seen>>
  <2>1. RecInv' /\ recpc' # "none" /\ (recpc' \in {"flush", "dump"} => rec' # NoRecord)
    BY <1>1, <1>2, RecordingKeeps DEF SameRun, control, seen
  <2>2. StreamTypes' /\ UNCHANGED <<calls, mode, level>>
    BY <1>2 DEF StreamTypes, callers, stream
  <2>3. RunTypes'
    BY <1>2, <2>2 DEF RunTypes, pool, seen, control, consumer
  <2>4. UserInv'
    BY <1>1, <1>2, <2>1 DEF UserInv, seen, control, consumer
  <2>5. DoneInv' /\ ReturnInv'
    BY <1>1, <1>2 DEF DoneInv, ReturnInv, consumer
  <2>6. TodoInv'
    BY <1>1, <1>2, <2>2 DEF TodoInv, pool, control
  <2> QED BY <2>1, <2>2, <2>3, <2>4, <2>5, <2>6
<1>3. CASE /\ recpc = "idle" /\ pc' = "loops"
           /\ UNCHANGED <<callers, stream, disk, memory, control, pool, consumer, seen>>
  <2>1. RecInv'
    BY <1>3, RecStays DEF SameRun, control, seen, disk
  <2>2. StreamTypes' /\ UNCHANGED <<calls, mode, level>>
    BY <1>3 DEF StreamTypes, callers, stream
  <2>3. RunTypes'
    BY <1>3, <2>2 DEF RunTypes, pool, seen, control, consumer
  <2>4. UserInv'
    BY <1>1, <1>3 DEF UserInv, Rest, seen, memory, control, consumer
  <2>5. DoneInv' /\ ReturnInv'
    BY <1>1, <1>3 DEF DoneInv, ReturnInv, consumer
  <2>6. TodoInv'
    BY <1>1, <1>3, <2>2 DEF TodoInv, pool, control
  <2> QED BY <2>1, <2>2, <2>3, <2>4, <2>5, <2>6
<1>4. CASE Leave("threw")
  BY <1>4, LeaveKeeps
<1> QED BY <1>2, <1>3, <1>4 DEF CallRecords

(* The consumer runs beside the loops only. *)
LEMMA ConsumerFacts ==
    ASSUME RunTypes, UserInv, cpc # "none"
    PROVE  pc = "loops" /\ isolated
  BY DEF RunTypes, UserInv

LEMMA TakeKeeps ==
    ASSUME FuzzInv, Take
    PROVE  FuzzInv'
<1> USE DEF FuzzInv
<1>1. /\ cpc = "wait" /\ UNCHANGED <<callers, stream, control, pc, stopped, failing, swallowed>>
      /\ ~failing /\ ~swallowed /\ pc = "loops" /\ isolated /\ recpc = Rest
  <2>1. cpc = "wait" /\ UNCHANGED <<callers, stream, control, pc, stopped, failing, swallowed>>
    BY DEF Take
  <2>2. pc = "loops" /\ isolated
    BY <2>1, ConsumerFacts
  <2> QED BY <2>1, <2>2 DEF UserInv, DoneInv
<1>2. PICK t \in todo :
         /\ todo' = todo \ {t}
         /\ \/ UNCHANGED <<disk, memory, seen, cpc>>
            \/ \E kind \in Failures, text \in Texts : Fails(t, kind, text) /\ cpc' = "record"
  BY DEF Take, Texts
<1>3. StreamTypes' /\ UNCHANGED <<calls, mode, level>>
  BY <1>1 DEF StreamTypes, callers, stream
<1>4. TodoInv'
  BY <1>1, <1>2, <1>3 DEF TodoInv, control
<1>5. t \in DOMAIN calls /\ todo' \subseteq DOMAIN calls
  BY <1>2 DEF RunTypes
<1>6. CASE UNCHANGED <<disk, memory, seen, cpc>>
  <2>1. RecInv'
    BY <1>1, <1>6, RecStays DEF SameRun, control, seen, disk
  <2>2. RunTypes'
    BY <1>1, <1>3, <1>5, <1>6 DEF RunTypes, seen, control
  <2>3. UserInv'
    BY <1>1, <1>6 DEF UserInv, Rest, seen, memory, control
  <2>4. DoneInv' /\ ReturnInv'
    BY <1>1, <1>6 DEF DoneInv, ReturnInv
  <2> QED BY <1>3, <1>4, <2>1, <2>2, <2>3, <2>4
<1>7. CASE \E kind \in Failures, text \in Texts : Fails(t, kind, text) /\ cpc' = "record"
  <2>1. PICK kind \in Failures, text \in Texts : Fails(t, kind, text) /\ cpc' = "record"
    BY <1>7
  <2>2. /\ RecInv' /\ UseRecorder /\ recpc' = "open" /\ rec' # NoRecord
        /\ failed' \in Seq(Nat) /\ failed' # <<>> /\ ever' \subseteq Seq(Nat)
    BY <1>1, <1>5, <2>1, FailsKeeps DEF control
  <2>3. RunTypes'
    BY <1>1, <1>3, <1>5, <2>1, <2>2 DEF RunTypes, control
  <2>4. UserInv'
    BY <1>1, <2>1, <2>2 DEF UserInv, control
  <2>5. DoneInv' /\ ReturnInv'
    BY <1>1, <2>1 DEF DoneInv, ReturnInv
  <2> QED BY <1>3, <1>4, <2>2, <2>3, <2>4, <2>5
<1> QED BY <1>2, <1>6, <1>7

LEMMA ConsumerRecordsKeeps ==
    ASSUME FuzzInv, ConsumerRecords
    PROVE  FuzzInv'
<1> USE DEF FuzzInv
<1>1. /\ cpc = "record" /\ UNCHANGED <<callers, stream, control, pc, pool, seen>>
      /\ ~failing /\ ~swallowed /\ pc = "loops" /\ isolated /\ UseRecorder /\ failed # <<>>
      /\ recpc # "none" /\ (recpc \in {"flush", "dump"} => rec # NoRecord) /\ run \in Nat
  <2>1. cpc = "record" /\ UNCHANGED <<callers, stream, control, pc, pool, seen>>
    BY DEF ConsumerRecords
  <2>2. pc = "loops" /\ isolated
    BY <2>1, ConsumerFacts
  <2> QED BY <2>1, <2>2 DEF UserInv, DoneInv, RunTypes
<1>2. StreamTypes' /\ UNCHANGED <<calls, mode, level>>
  BY <1>1 DEF StreamTypes, callers, stream
<1>3. TodoInv'
  BY <1>1, <1>2 DEF TodoInv, pool, control
<1>4. CASE Recording(run) /\ UNCHANGED consumer
  <2>1. RecInv' /\ recpc' # "none" /\ (recpc' \in {"flush", "dump"} => rec' # NoRecord)
    BY <1>1, <1>4, RecordingKeeps DEF SameRun, control, seen
  <2>2. RunTypes'
    BY <1>1, <1>2, <1>4 DEF RunTypes, pool, seen, control, consumer
  <2>3. UserInv'
    BY <1>1, <1>4, <2>1 DEF UserInv, seen, control, consumer
  <2>4. DoneInv' /\ ReturnInv'
    BY <1>1, <1>4 DEF DoneInv, ReturnInv, consumer
  <2> QED BY <1>2, <1>3, <2>1, <2>2, <2>3, <2>4
<1>5. CASE recpc = "idle" /\ cpc' = "wait" /\ UNCHANGED <<disk, memory, failing, swallowed>>
  <2>1. RecInv'
    BY <1>1, <1>5, RecStays DEF SameRun, control, seen, disk
  <2>2. RunTypes'
    BY <1>1, <1>2, <1>5 DEF RunTypes, pool, seen, control
  <2>3. UserInv'
    BY <1>1, <1>5 DEF UserInv, Rest, seen, memory, control
  <2>4. DoneInv' /\ ReturnInv'
    BY <1>1, <1>5 DEF DoneInv, ReturnInv
  <2> QED BY <1>2, <1>3, <2>1, <2>2, <2>3, <2>4
<1>6. CASE /\ recpc = "threw" /\ cpc' = "done"
           /\ swallowed' = (thrown = "runtime_error" /\ Drained)
           /\ failing' = ~swallowed'
           /\ UNCHANGED <<disk, memory>>
  <2>1. RecInv'
    BY <1>1, <1>6, RecStays DEF SameRun, control, seen, disk
  <2>2. swallowed' \in BOOLEAN /\ failing' \in BOOLEAN
    BY <1>6
  <2>3. RunTypes'
    BY <1>1, <1>2, <1>6, <2>2 DEF RunTypes, pool, seen, control
  <2>4. UserInv'
    BY <1>1, <1>6 DEF UserInv, Rest, seen, memory, control
  <2>5. ~failing' => thrown = "runtime_error" /\ Drained
    BY <1>6
  <2>6. swallowed' => thrown = "runtime_error" /\ Drained
    BY <1>6
  <2>7. ~failing' => swallowed'
    BY <1>6
  <2>8. DoneInv' /\ ReturnInv'
    BY <1>1, <1>6, <2>5, <2>6, <2>7 DEF DoneInv, ReturnInv, memory, seen, pool, Drained
  <2> QED BY <1>2, <1>3, <2>1, <2>3, <2>4, <2>8
<1> QED BY <1>4, <1>5, <1>6 DEF ConsumerRecords

LEMMA ConsumerEndsKeeps ==
    ASSUME FuzzInv, ConsumerEnds
    PROVE  FuzzInv'
<1> USE DEF FuzzInv
<1>1. /\ cpc = "wait" /\ Drained /\ cpc' = "done"
      /\ UNCHANGED <<callers, stream, disk, memory, control, pc, pool, failing, swallowed, seen>>
  BY DEF ConsumerEnds
<1>2. pc = "loops" /\ isolated /\ recpc = Rest /\ ~failing /\ ~swallowed
  <2>1. pc = "loops" /\ isolated
    BY <1>1, ConsumerFacts
  <2> QED BY <1>1, <2>1 DEF UserInv, DoneInv
<1>3. StreamTypes' /\ UNCHANGED <<calls, mode, level>>
  BY <1>1 DEF StreamTypes, callers, stream
<1>4. RecInv'
  BY <1>1, RecStays DEF SameRun, control, seen, disk
<1>5. RunTypes'
  BY <1>1, <1>3 DEF RunTypes, pool, seen, control
<1>6. UserInv'
  BY <1>1, <1>2 DEF UserInv, Rest, seen, memory, control
<1>7. DoneInv' /\ ReturnInv'
  BY <1>1, <1>2 DEF DoneInv, ReturnInv, memory, pool, seen, Drained, Rest
<1>8. TodoInv'
  BY <1>1, <1>3 DEF TodoInv, pool, control
<1> QED BY <1>3, <1>4, <1>5, <1>6, <1>7, <1>8

(* What fuzz() returns with: the loops are over and nothing is under way. *)
LEMMA FinishIsReturn ==
    ASSUME FuzzInv, pc = "loops", ~isolated \/ (stopped /\ cpc = "done" /\ ~failing)
    PROVE  Returned
<1> USE DEF FuzzInv
<1>1. CASE ~isolated
  <2>1. cpc = "none" /\ recpc = Rest /\ todo = {} /\ ~swallowed
    BY <1>1 DEF UserInv, DoneInv, TodoInv
  <2>2. UserInv /\ RecInv
    OBVIOUS
  <2> QED BY <2>1, <2>2, RestIsComplete DEF Returned, Rest
<1>2. CASE stopped /\ cpc = "done" /\ ~failing
  <2>1. todo = {} /\ (swallowed => recpc = "threw" /\ thrown = "runtime_error" /\ failed # <<>>)
        /\ (~swallowed => recpc = Rest)
    BY <1>2 DEF DoneInv
  <2>2. CASE swallowed
    <3>1. Complete(index, bin, lost, run, Front(failed))
      BY <2>1, <2>2 DEF RecInv, RecorderInv, Gone
    <3> QED BY <2>1, <2>2, <3>1 DEF Returned
  <2>3. CASE ~swallowed
    <3>1. RecInv
      OBVIOUS
    <3> QED BY <2>1, <2>3, <3>1, RestIsComplete DEF Returned, Rest
  <2> QED BY <2>2, <2>3
<1> QED BY <1>1, <1>2

LEMMA FinishKeeps ==
    ASSUME FuzzInv, Finish
    PROVE  FuzzInv'
<1>1. pc = "loops" /\ level = 0
  BY DEF Finish
<1>2. CASE \E how \in {"ok", "threw"} :
              /\ Leave(how)
              /\ how = "ok" => ~isolated \/ (stopped /\ cpc = "done" /\ ~failing)
  BY <1>1, <1>2, FinishIsReturn, LeaveKeeps
<1>3. CASE /\ isolated /\ ~stopped /\ stopped' = TRUE
           /\ UNCHANGED <<callers, stream, disk, memory, control, pc, todo, consumer, seen>>
  <2> USE DEF FuzzInv
  <2>1. StreamTypes' /\ UNCHANGED <<calls, mode, level>>
    BY <1>3 DEF StreamTypes, callers, stream
  <2>2. RecInv'
    BY <1>3, RecStays DEF SameRun, control, seen, disk
  <2>3. RunTypes'
    BY <1>3, <2>1 DEF RunTypes, seen, control, consumer
  <2>4. UserInv'
    BY <1>1, <1>3 DEF UserInv, Rest, seen, memory, control, consumer
  <2>5. DoneInv' /\ ReturnInv'
    BY <1>1, <1>3 DEF DoneInv, ReturnInv, consumer, memory, seen, Rest
  <2>6. TodoInv'
    BY <1>1, <1>3, <2>1 DEF TodoInv, control
  <2> QED BY <2>1, <2>2, <2>3, <2>4, <2>5, <2>6
<1> QED BY <1>2, <1>3 DEF Finish

LEMMA DieKeeps ==
    ASSUME FuzzInv, Die
    PROVE  FuzzInv'
<1> USE DEF FuzzInv
<1>1. /\ pc' = "outside" /\ left' = "died" /\ cpc' = "none"
      /\ recpc' = "none" /\ rec' = NoRecord /\ thrown' = "none"
      /\ idx' = [o \in Objects |-> 0] /\ cursor' = [o \in Objects |-> 0]
      /\ level' = 0 /\ storage' = <<>> /\ calls' = <<>>
      /\ todo' = {} /\ stopped' = FALSE /\ failing' = FALSE /\ swallowed' = FALSE
      /\ entries' = <<>> /\ nextId' = 1
      /\ UNCHANGED <<callers, mode, run, isolated, failed, ever, index, bin, lost>>
  BY DEF Die, seen
<1>2. StreamTypes'
  <2>1. 0 \in 0..(Len(arg) + 1) /\ <<>> \in Seq(Nat) /\ <<>> \in Seq(Seq(Nat))
    BY LenProperties, EmptySeq DEF StreamTypes
  <2>2. idx' \in [Objects -> Nat] /\ cursor' \in [Objects -> Nat]
    BY <1>1
  <2> QED BY <1>1, <2>1, <2>2 DEF StreamTypes, callers
<1>3. RecInv'
  <2>1. <<>> \in Seq(Records)
    BY EmptySeq
  <2> QED BY <1>1, <2>1, GoneStays
<1>4. RunTypes'
  BY <1>1 DEF RunTypes
<1>5. UserInv' /\ DoneInv' /\ TodoInv' /\ ReturnInv'
  BY <1>1 DEF UserInv, DoneInv, TodoInv, ReturnInv
<1> QED BY <1>2, <1>3, <1>4, <1>5

LEMMA StillKeeps ==
    ASSUME FuzzInv, UNCHANGED vars
    PROVE  FuzzInv'
<1> USE DEF FuzzInv
<1>1. UNCHANGED <<callers, stream, disk, memory, control, pc, pool, consumer, seen>>
  BY DEF vars
<1>2. StreamTypes' /\ UNCHANGED <<calls, mode, level>>
  BY <1>1 DEF StreamTypes, callers, stream
<1>3. RecInv'
  BY <1>1, RecStays DEF SameRun, control, seen, disk
<1>4. RunTypes'
  BY <1>1, <1>2 DEF RunTypes, pool, seen, control, consumer
<1>5. UserInv'
  BY <1>1 DEF UserInv, Rest, seen, memory, control, consumer
<1>6. DoneInv' /\ TodoInv'
  BY <1>1, <1>2 DEF DoneInv, TodoInv, consumer, memory, seen, pool, control, Rest
<1>7. ReturnInv'
  BY <1>1 DEF ReturnInv, Returned, consumer, memory, seen, pool, control, disk
<1> QED BY <1>2, <1>3, <1>4, <1>5, <1>6, <1>7

-----------------------------------------------------------------------------
(* The invariant *)

LEMMA FuzzBegins ==
    ASSUME Init
    PROVE  FuzzInv
<1> USE DEF Init
<1>1. StreamTypes
  <2>1. PICK s \in Setups : arg = s.arg /\ size = s.size /\ random = s.random
    BY DEF StreamInit
  <2>2. arg \in Seq(Objects) /\ size \in [Objects -> Nat] /\ random \subseteq Objects
    BY <2>1, StreamAssumption
  <2>3. /\ idx = [o \in Objects |-> 0] /\ cursor = [o \in Objects |-> 0]
        /\ mode = "zip" /\ level = 0 /\ storage = <<>> /\ calls = <<>>
    BY DEF StreamInit
  <2>4. 0 \in 0..(Len(arg) + 1) /\ <<>> \in Seq(Nat) /\ <<>> \in Seq(Seq(Nat))
    BY <2>2, LenProperties, EmptySeq
  <2>5. idx \in [Objects -> Nat] /\ cursor \in [Objects -> Nat]
    BY <2>3
  <2> QED BY <2>2, <2>3, <2>4, <2>5 DEF StreamTypes
<1>2. RecInv
  <2>1. /\ index = [state |-> "absent", run |-> 0, entries |-> <<>>]
        /\ bin = <<>> /\ entries = <<>> /\ nextId = 1 /\ recpc = "none" /\ rec = NoRecord
        /\ thrown = "none" /\ lost = {}
    BY DEF RecInit
  <2>2. <<>> \in Seq(Records)
    BY EmptySeq
  <2>3. bin \in [DOMAIN bin -> Files]
    <3>1. DOMAIN bin = {} /\ bin = [k \in {} |-> 0]
      BY <2>1
    <3> QED BY <3>1
  <2>4. RecorderTypes
    BY <2>1, <2>2, <2>3 DEF RecorderTypes, Indexes
  <2>5. RecorderInv
    BY <2>1 DEF RecorderInv, AtRest, Making, Begun, Entered, Gone
  <2>6. IndexedComplete
    BY <2>1 DEF IndexedComplete
  <2> QED BY <2>4, <2>5, <2>6 DEF RecInv
<1>3. RunTypes
  <2>1. <<>> \in Seq(Nat)
    BY EmptySeq
  <2> QED BY <2>1 DEF RunTypes
<1>4. UserInv /\ DoneInv /\ TodoInv /\ ReturnInv
  BY DEF UserInv, DoneInv, TodoInv, ReturnInv, RecInit, StreamInit
<1> QED BY <1>1, <1>2, <1>3, <1>4 DEF FuzzInv

LEMMA FuzzStep ==
    ASSUME FuzzInv, [Next]_vars
    PROVE  FuzzInv'
  BY EnterKeeps, MakeRecorderKeeps, StartLoopsKeeps, StartReplayKeeps, StepKeeps, HandKeeps,
     CallKeeps, CallRecordsKeeps, FinishKeeps, TakeKeeps, ConsumerRecordsKeeps, ConsumerEndsKeeps,
     DieKeeps, StillKeeps DEF Next, Progress

LEMMA FuzzInductive == Spec => []FuzzInv
<1>1. Init => FuzzInv
  BY FuzzBegins
<1>2. FuzzInv /\ [Next]_vars => FuzzInv'
  BY FuzzStep
<1> QED BY <1>1, <1>2, PTL DEF Spec

(* A readable index names only artifacts of its own run, with the arguments *)
(* of the failure it describes, and all but the newest are whole (record()  *)
(* and the flush() of the constructor), in whatever order the disk refuses  *)
(* and the process dies.                                                    *)
THEOREM IndexIsComplete == Spec => []IndexedComplete
<1>1. FuzzInv => IndexedComplete
  BY DEF FuzzInv, RecInv
<1> QED BY <1>1, FuzzInductive, PTL

(* When fuzz() returns, every task has come back and the index lists the    *)
(* failures of this run, once and in the order they were seen, but for the  *)
(* last one of a drained consumer (record(), run_isolated_fuzz()).          *)
THEOREM ReturnIsIndexed == Spec => []ReturnMeansIndexed
<1>1. FuzzInv => ReturnMeansIndexed
  <2> SUFFICES ASSUME FuzzInv, pc = "outside", left = "ok"
               PROVE  /\ todo = {}
                      /\ UseRecorder /\ TheIndex \notin lost =>
                          /\ index.state = "whole" /\ index.run = run
                          /\ [i \in DOMAIN index.entries |-> index.entries[i].task] =
                                 IF swallowed THEN Front(failed) ELSE failed
                          /\ \A e \in ToSet(index.entries) :
                                 bin[KeyOf(e)].state = "whole" \/ KeyOf(e) \in lost
    BY DEF ReturnMeansIndexed
  <2>1. Returned
    BY DEF FuzzInv, ReturnInv
  <2>2. ASSUME UseRecorder, TheIndex \notin lost
        PROVE  /\ index.state = "whole" /\ index.run = run
               /\ Tasks(index.entries) = IF swallowed THEN Front(failed) ELSE failed
               /\ \A i \in DOMAIN index.entries : Closed(bin, lost, index.entries[i])
    BY <2>1, <2>2 DEF Returned, Complete
  <2> QED BY <2>1, <2>2 DEF Returned, Tasks, ToSet, Closed
<1> QED BY <1>1, FuzzInductive, PTL

-----------------------------------------------------------------------------
(* Where the arguments of an artifact come from *)

LEMMA RecordingArgs ==
    ASSUME RecInv, ArgsInv, Recording(run) \/ Construct, ever' = ever
    PROVE  ArgsInv'
<1>1. \A k \in DOMAIN bin : bin[k].args \in ever
  BY DEF ArgsInv
<1>2. CASE bin' = bin /\ rec' \in {rec, NoRecord}
  BY <1>2 DEF ArgsInv
<1>3. CASE rec # NoRecord /\ rec' = rec
           /\ bin' = [k \in DOMAIN bin \cup {KeyOf(rec)} |->
                        IF k = KeyOf(rec) THEN [state |-> "cut", run |-> run, args |-> rec.args]
                        ELSE bin[k]]
  BY <1>3 DEF ArgsInv
<1>4. CASE rec' \in {rec, NoRecord} /\ BinMayClose
  <2>1. RecorderTypes /\ \A k \in DOMAIN bin : bin[k] \in Files
    BY RecFacts DEF RecInv
  <2>2. lost \ {TheIndex} \subseteq lost
    OBVIOUS
  <2>3. DOMAIN bin' = DOMAIN bin /\ \A k \in DOMAIN bin : bin'[k].args = bin[k].args
    <3>1. CASE bin' = bin
      BY <3>1
    <3>2. CASE KeyOf(rec) \in DOMAIN bin /\ bin' = [bin EXCEPT ![KeyOf(rec)].state = "whole"]
      <4> DEFINE K == KeyOf(rec)
                 file == [bin[K] EXCEPT !.state = "whole"]
      <4>1. file.args = bin[K].args
        BY <2>1, <3>2 DEF Files
      <4>2. bin' = [bin EXCEPT ![K] = file]
        BY <3>2
      <4> HIDE DEF file, K
      <4>3. bin \in [DOMAIN bin -> Files]
        BY <2>1 DEF RecorderTypes
      <4> QED BY <4>1, <4>2, <4>3
    <3> QED BY <1>4, <3>1, <3>2 DEF BinMayClose
  <2> QED BY <1>1, <1>4, <2>3 DEF ArgsInv
<1>5. recpc = "open" => rec # NoRecord
  BY KeysAreNotIndex DEF RecInv, RecorderInv, Begun
<1>6. recpc = "write" \/ recpc = "close" => KeyOf(rec) \in DOMAIN bin
  BY DEF RecInv, RecorderInv, Begun, Entered, LastIsRec, Owned
<1>7. OpenArtifact(run) => ArgsInv'
  BY <1>2, <1>3, <1>5 DEF OpenArtifact
<1>8. WriteArtifact => ArgsInv'
  BY <1>4, <1>6 DEF WriteArtifact, BinMayClose
<1>9. CloseArtifact => ArgsInv'
  BY <1>4, <1>6 DEF CloseArtifact, BinMayClose
<1>10. FlushOpen(run) \/ FlushWrite \/ Construct => ArgsInv'
  BY <1>2 DEF FlushOpen, FlushWrite, Construct
<1> QED BY <1>7, <1>8, <1>9, <1>10 DEF Recording

ReplayInv == ArgsInv /\ ReplayIsFailure

(* A step that touches neither files nor calls. *)
LEMMA ArgsStay ==
    ASSUME ArgsInv, UNCHANGED bin, rec' \in {rec, NoRecord}, ever' = ever
    PROVE  ArgsInv'
  BY DEF ArgsInv

LEMMA ReplayStays ==
    ASSUME ReplayIsFailure, ever \subseteq ever', UNCHANGED mode, UNCHANGED calls \/ calls' = <<>>
    PROVE  ReplayIsFailure'
  BY DEF ReplayIsFailure

LEMMA ReplayStep ==
    ASSUME FuzzInv, ReplayInv, [Next]_vars
    PROVE  ReplayInv'
<1> USE DEF ReplayInv
<1>1. Enter => ReplayInv'
  <2> SUFFICES ASSUME Enter PROVE ReplayInv'
    OBVIOUS
  <2>1. calls' = <<>> /\ UNCHANGED <<bin, rec, ever>>
    BY DEF Enter, disk, memory
  <2> QED BY <2>1, ArgsStay DEF ReplayIsFailure
<1>2. ASSUME NEW how, Leave(how) PROVE ReplayInv'
  <2>1. UNCHANGED <<mode, calls, bin, ever>> /\ rec' = NoRecord
    BY <1>2 DEF Leave, Discard, stream, seen, disk
  <2> QED BY <2>1, ArgsStay, ReplayStays
<1>3. ASSUME Recording(run) \/ Construct, UNCHANGED <<mode, calls, ever>> PROVE ReplayInv'
  <2>1. RecInv
    BY DEF FuzzInv
  <2> QED BY <1>3, <2>1, RecordingArgs, ReplayStays
<1>4. ASSUME UNCHANGED <<mode, calls, disk, memory, ever>> PROVE ReplayInv'
  BY <1>4, ArgsStay, ReplayStays DEF disk, memory
<1>5. ASSUME UNCHANGED <<mode, calls>>, run' = run, NEW task \in DOMAIN calls,
             NEW kind \in Failures, NEW text \in Texts, Fails(task, kind, text)
      PROVE  ReplayInv'
  <2>1. rec'.args = calls[task] /\ calls[task] \in ever' /\ ever \subseteq ever' /\ bin' = bin
    BY <1>5, FailsKeeps
  <2>2. ReplayIsFailure'
    BY <1>5, <2>1, ReplayStays
  <2> QED BY <2>1, <2>2 DEF ArgsInv
<1>6. MakeRecorder => ReplayInv'
  <2>1. FlushOpen(run) \/ FlushWrite => Recording(run)
    BY DEF Recording
  <2> QED BY <1>2, <1>3, <1>4, <2>1 DEF MakeRecorder, stream, seen
<1>7. StartLoops => ReplayInv'
  BY <1>2, <1>4 DEF StartLoops, EnterLoops, seen
<1>8. StartReplay => ReplayInv'
  <2> SUFFICES ASSUME StartReplay, ~\E how : Leave(how) PROVE ReplayInv'
    BY <1>2
  <2>1. PICK key \in DOMAIN bin : \E args \in Loaded(key) : calls' = <<args>>
    BY DEF StartReplay
  <2>2. PICK args \in Loaded(key) : calls' = <<args>>
    BY <2>1
  <2>3. args = bin[key].args
    BY <2>2, LoadedTypes DEF FuzzInv
  <2>4. UNCHANGED <<bin, rec, ever>>
    BY DEF StartReplay, disk, memory, seen
  <2>5. ArgsInv' /\ args \in ever'
    BY <2>3, <2>4, ArgsStay DEF ArgsInv
  <2>6. calls'[1] = args
    BY <2>2
  <2> QED BY <2>5, <2>6 DEF ReplayIsFailure
<1>9. Step => ReplayInv'
  <2> SUFFICES ASSUME Step PROVE ReplayInv'
    OBVIOUS
  <2>1. UNCHANGED <<mode, calls>>
    BY LoopsTypes DEF Step, FuzzInv
  <2> QED BY <1>4, <2>1 DEF Step, seen
<1>10. Hand => ReplayInv'
  <2> SUFFICES ASSUME Hand PROVE ReplayInv'
    OBVIOUS
  <2>1. PICK single \in BOOLEAN : NextTuple(single)
    <3>1. (isolated \/ mode = "grid") \in BOOLEAN
      OBVIOUS
    <3> QED BY <3>1 DEF Hand
  <2>2. level # 0 /\ mode' = mode
    BY <2>1, TupleTypes DEF FuzzInv
  <2>3. mode # "bin"
    BY <2>2 DEF FuzzInv, TodoInv
  <2>4. UNCHANGED <<bin, rec, ever>>
    BY DEF Hand, disk, memory, seen
  <2> QED BY <2>2, <2>3, <2>4, ArgsStay DEF ReplayIsFailure
<1>11. Call => ReplayInv'
  <2> SUFFICES ASSUME Call PROVE ReplayInv'
    OBVIOUS
  <2>1. UNCHANGED <<mode, calls, run>> /\ calls # <<>>
    BY DEF Call, stream, control, FuzzInv, TodoInv
  <2>2. Len(calls) \in DOMAIN calls
    <3>1. calls \in Seq(Seq(Nat))
      BY DEF FuzzInv, StreamTypes
    <3>2. Len(calls) \in Nat \ {0} /\ DOMAIN calls = 1..Len(calls)
      BY <2>1, <3>1, EmptySeq, LenProperties
    <3> QED BY <3>2
  <2>3. \/ UNCHANGED <<disk, memory, seen>>
        \/ \E text \in Texts : Fails(Len(calls), "exception", text)
    BY DEF Call, Texts
  <2> QED BY <1>4, <1>5, <2>1, <2>2, <2>3 DEF Failures, seen
<1>12. CallRecords => ReplayInv'
  BY <1>2, <1>3, <1>4 DEF CallRecords, stream, seen
<1>13. Take => ReplayInv'
  <2> SUFFICES ASSUME Take PROVE ReplayInv'
    OBVIOUS
  <2>1. UNCHANGED <<mode, calls, run>> /\ todo \subseteq DOMAIN calls
    BY DEF Take, stream, control, FuzzInv, RunTypes
  <2>2. PICK t \in todo : \/ UNCHANGED <<disk, memory, seen, cpc>>
                          \/ \E kind \in Failures, text \in Texts : Fails(t, kind, text)
    BY DEF Take, Texts
  <2> QED BY <1>4, <1>5, <2>1, <2>2 DEF seen
<1>14. ConsumerRecords => ReplayInv'
  BY <1>3, <1>4 DEF ConsumerRecords, stream, seen
<1>15. ConsumerEnds => ReplayInv'
  BY <1>4 DEF ConsumerEnds, stream, seen
<1>16. Finish => ReplayInv'
  BY <1>2, <1>4 DEF Finish, stream, seen
<1>17. Die => ReplayInv'
  <2> SUFFICES ASSUME Die PROVE ReplayInv'
    OBVIOUS
  <2>1. calls' = <<>> /\ rec' = NoRecord /\ UNCHANGED <<bin, mode, ever>>
    BY DEF Die, seen
  <2> QED BY <2>1, ArgsStay, ReplayStays
<1>18. UNCHANGED vars => ReplayInv'
  BY <1>4 DEF vars, stream, seen
<1> QED BY <1>1, <1>6, <1>7, <1>8, <1>9, <1>10, <1>11, <1>12, <1>13, <1>14, <1>15, <1>16, <1>17, <1>18
     DEF Next, Progress

(* A replay calls the target only with arguments some run saw fail, also    *)
(* when the directory was left by a process that died: an artifact never    *)
(* holds anything else (load_fuzz_args(), write_artifact()).                *)
THEOREM ReplayOnlyFailures == Spec => []ReplayIsFailure
<1>1. Init => ReplayInv
  BY DEF Init, RecInit, StreamInit, ReplayInv, ArgsInv, ReplayIsFailure
<1>2. FuzzInv /\ ReplayInv /\ [Next]_vars => ReplayInv'
  BY ReplayStep
<1>3. ReplayInv => ReplayIsFailure
  BY DEF ReplayInv
<1> QED BY <1>1, <1>2, <1>3, FuzzInductive, PTL DEF Spec
=============================================================================
