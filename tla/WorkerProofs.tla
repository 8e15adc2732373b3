---------------------------- MODULE WorkerProofs ----------------------------
(***************************************************************************)
(* Theorems about Worker, for every set of tasks, every number of child    *)
(* processes, with or without stray frames and deadlines.                  *)
(***************************************************************************)
EXTENDS Worker, SequenceTheorems, TLAPS

(* Who is being served and delivered is a task whenever it is looked at.   *)
Shapes ==
    /\ pc \in {"sending", "blocked", "sent"} => outgoing \in Tasks
    /\ phase \in {"running", "replying", "writing"} => serving \in Tasks

TypeInv == TypeOK /\ Shapes

(* The classification of a wait status never credits the target.           *)
LEMMA StatusOfType ==
    ASSUME NEW w \in WaitStatus
    PROVE  StatusOf(w) \in IsolatedStatus /\ StatusOf(w) \notin TargetStatus
  BY Zenon DEF StatusOf, WaitStatus, ExitCodes, IsolatedStatus, TargetStatus

LEMMA AfterProbeType ==
    ASSUME NEW l \in ProbePoints
    PROVE  AfterProbe(l) \in {"expire_grace", "expire_kill", "recv_frame"}
  BY Zenon DEF AfterProbe, ProbePoints

LEMMA AfterProbeIs ==
    ASSUME NEW l \in ProbePoints
    PROVE  AfterProbe(l) = "recv_frame" <=> l = "recv_reap"
  BY Zenon DEF AfterProbe, ProbePoints

(* A frame taken from or put into a channel keeps the channel well typed.  *)
LEMMA ChannelType ==
    ASSUME NEW S, NEW q \in Seq(S)
    PROVE  /\ \A e \in S : Append(q, e) \in Seq(S)
           /\ q # <<>> => Head(q) \in S /\ Tail(q) \in Seq(S)
  BY HeadTailProperties

LEMMA AppendNotEmpty == ASSUME NEW S, NEW q \in Seq(S) PROVE \A e : Append(q, e) # <<>>
  BY AppendProperties

(* A channel with one frame.                                               *)
LEMMA OneFrame ==
    ASSUME NEW f
    PROVE  /\ <<f>> # <<>> /\ Head(<<f>>) = f /\ Tail(<<f>>) = <<>>
           /\ Append(<<>>, f) = <<f>>
  OBVIOUS

LEMMA TypeInit == ASSUME Init PROVE TypeInv
  <1> USE WorkerAssumption DEF Init
  <1>1. toChild \in Seq(Requests) /\ toParent \in Seq(StrayFrames)
    BY EmptySeq
  <1>2. /\ runs \in [Tasks -> Nat]
        /\ ended \in [Tasks -> {"none", "returned", "threw"}]
        /\ result \in [Tasks -> IsolatedStatus \cup {"none"}]
        /\ stranded \in [Tasks -> 0..MaxSpawns]
    OBVIOUS
  <1>3. fd \in BOOLEAN /\ expired \in BOOLEAN /\ inReceive \in BOOLEAN /\ endSeen \in BOOLEAN
    BY Zenon
  <1>4. TypeOK
    BY <1>1, <1>2, <1>3 DEF TypeOK, LivePhases, ProbePoints, IsolatedStatus, TargetStatus, WaitStatus, ExitCodes
  <1> QED
    BY <1>4 DEF TypeInv, Shapes

LEMMA TypeStep == ASSUME TypeInv, [Next]_vars PROVE TypeInv'
  <1> USE WorkerAssumption DEF TypeInv, TypeOK, Shapes, IsolatedStatus, TargetStatus,
      WaitStatus, ExitCodes, LivePhases, ProbePoints, object, control, child,
      channels, history
  <1>1. CASE Spawn
    BY <1>1 DEF Spawn
  <1>2. ASSUME NEW t \in Tasks, SendStart(t) PROVE TypeInv'
    BY <1>2, SMTT(30) DEF SendStart
  <1>3. CASE SendWritten
    BY <1>3 DEF SendWritten, Requests, Frame
  <1>34. CASE SendBlocks
    BY <1>34 DEF SendBlocks
  <1>32. CASE SendUnblocked
    <2>1. Frame("run", outgoing) \in Requests
      BY <1>32 DEF SendUnblocked, Requests
    <2>2. toChild' \in Seq(Requests)
      BY <1>32, <2>1 DEF SendUnblocked
    <2> QED
      BY <1>32, <2>2 DEF SendUnblocked
  <1>33. CASE SendThrows
    BY <1>33 DEF SendThrows
  <1>4. CASE SendAccepted
    <2>1. outgoing \in Tasks /\ accepted' \subseteq Tasks
      BY <1>4 DEF SendAccepted
    <2>2. expired' \in BOOLEAN
      BY <1>4, Zenon DEF SendAccepted
    <2> QED
      BY <1>4, <2>1, <2>2 DEF SendAccepted
  <1>5. CASE SendFailed
    BY <1>5 DEF SendFailed
  <1>6. CASE SendUnserializable
    BY <1>6 DEF SendUnserializable
  <1>7. CASE DeadlinePasses
    BY <1>7 DEF DeadlinePasses
  <1>8. CASE CallExpire
    <2>1. endSeen' \in BOOLEAN /\ inReceive' \in BOOLEAN
      BY <1>8, Zenon DEF CallExpire, Readable
    <2> QED
      BY <1>8, <2>1 DEF CallExpire
  <1>9. CASE CallReceive
    BY <1>9 DEF CallReceive, Readable, PeerClosed
  <1>10. CASE ExpirePoll
    BY <1>10 DEF ExpirePoll, NotExpired, MoveOn
  <1>11. CASE ProbeExit
    BY <1>11, StatusOfType, AfterProbeType, SMTT(30) DEF ProbeExit, ReapAndBreak, Reap, Break, MoveOn
  <1>12. CASE ExpireGrace
    BY <1>12 DEF ExpireGrace, NotExpired, MoveOn
  <1>13. CASE ExpireKill
    BY <1>13 DEF ExpireKill, Break
  <1>14. CASE RecvFrame
    <2>1. toParent' \in Seq(StrayFrames)
      BY <1>14, ChannelType DEF RecvFrame
    <2>2. CASE Head(toParent).id = current /\ Head(toParent).kind \in TargetStatus
      <3>1. result' \in [Tasks -> IsolatedStatus \cup {"none"}]
        BY <1>14, <2>2 DEF RecvFrame, FinishTask
      <3> QED
        BY <1>14, <2>1, <2>2, <3>1 DEF RecvFrame, FinishTask
    <2>3. CASE ~(Head(toParent).id = current /\ Head(toParent).kind \in TargetStatus)
      BY <1>14, <2>1, <2>3, SMTT(30) DEF RecvFrame, FinishTask, Break
    <2> QED
      BY <2>2, <2>3
  <1>15. CASE RecvGarbage
    BY <1>15, SMTT(30) DEF RecvGarbage, Break
  <1>16. CASE RecvTimeout
    BY <1>16 DEF RecvTimeout, Break
  <1>17. CASE RecvEof
    BY <1>17 DEF RecvEof
  <1>18. CASE RecvExit
    <2>1. CASE ReapAndBreak
      BY <2>1, StatusOfType DEF ReapAndBreak, Reap, Break
    <2>2. CASE Break(verdict) /\ UNCHANGED <<pid, fd, current, expired, inReceive, outgoing, child,
                                             channels, history>>
      BY <2>2 DEF Break
    <2> QED
      BY <1>18, <2>1, <2>2 DEF RecvExit
  <1>19. CASE Stop
    <2>1. Frame("stop", NoTask) \in Requests
      BY DEF Requests
    <2>2. toChild' = toChild \/ toChild' = Append(toChild, Frame("stop", NoTask))
      BY <1>19 DEF Stop
    <2>3. Append(toChild, Frame("stop", NoTask)) \in Seq(Requests)
      BY <2>1, ChannelType, Zenon
    <2>4. toChild' \in Seq(Requests)
      BY <2>2, <2>3, Zenon
    <2>5. pc' \in {"stop_wait", "teardown"}
      BY <1>19 DEF Stop
    <2> QED
      BY <1>19, <2>4, <2>5 DEF Stop
  <1>20. CASE StopWait
    BY <1>20, SMTT(30) DEF StopWait, Reap
  <1>21. CASE Teardown
    <2>1. toChild' \in Seq(Requests) /\ toParent' \in Seq(StrayFrames)
      BY <1>21, EmptySeq DEF Teardown
    <2>2. result' \in [Tasks -> IsolatedStatus \cup {"none"}]
      BY <1>21 DEF Teardown
    <2>3. fd' \in BOOLEAN /\ expired' \in BOOLEAN
      BY <1>21, Zenon DEF Teardown
    <2> QED
      BY <1>21, <2>1, <2>2, <2>3 DEF Teardown
  <1>22. CASE ChildRead
    BY <1>22 DEF ChildRead, Dies, Requests, Frame
  <1>23. CASE TargetEnds
    BY <1>23 DEF TargetEnds
  <1>24. CASE BeginReply
    BY <1>24 DEF BeginReply
  <1>25. CASE EndReply
    BY <1>25 DEF EndReply, StrayFrames, Frame
  <1>26. CASE ReplyFails
    BY <1>26 DEF ReplyFails, Dies
  <1>27. CASE TargetExits
    BY <1>27 DEF TargetExits, Dies
  <1>28. CASE ChildSignaled
    BY <1>28 DEF ChildSignaled, Dies, ChildLive
  <1>29. CASE ChildZombie
    BY <1>29 DEF ChildZombie
  <1>30. CASE StrayWrite
    BY <1>30 DEF StrayWrite
  <1>31. CASE UNCHANGED vars
    BY <1>31 DEF vars
  <1> QED
    BY <1>1, <1>2, <1>3, <1>4, <1>5, <1>6, <1>7, <1>8, <1>9, <1>10, <1>11, <1>12,
       <1>13, <1>14, <1>15, <1>16, <1>17, <1>18, <1>19, <1>20, <1>21, <1>22,
       <1>23, <1>24, <1>25, <1>26, <1>27, <1>28, <1>29, <1>30, <1>31, <1>32, <1>33,
       <1>34
       DEF Next, ParentStep, ParentCall, ChildStep

(* Every variable of the slot, its child and its channels keeps to its      *)
(* type: the channels hold only frames of the protocol, pid is a fork of    *)
(* this slot, and only statuses of worker/specs.h are ever reported.        *)
THEOREM TypeCorrect == Spec => []TypeOK
  <1>1. Init => TypeInv
    BY TypeInit
  <1>2. TypeInv /\ [Next]_vars => TypeInv'
    BY TypeStep
  <1>3. TypeInv => TypeOK
    BY DEF TypeInv
  <1> QED
    BY <1>1, <1>2, <1>3, PTL DEF Spec

LEMMA TypeInvariant == Spec => []TypeInv
  BY TypeInit, TypeStep, PTL DEF Spec

-----------------------------------------------------------------------------
(* A method that is under way, except for its teardown, has a child, and a *)
(* slot between two calls is stopped exactly when it has none: with this   *)
(* ProcessOwned is inductive, for spawn() then starts without a child.     *)
OwnInv ==
    /\ ProcessOwned
    /\ pc = "ready" => state # "broken"
    /\ pc \notin {"ready", "teardown"} => pid # 0 /\ fd /\ state \in {"idle", "busy"}

LEMMA OwnInit == ASSUME Init PROVE OwnInv
  BY DEF Init, OwnInv, ProcessOwned

LEMMA OwnStep == ASSUME TypeInv, OwnInv, [Next]_vars PROVE OwnInv'
  <1> USE DEF OwnInv, ProcessOwned, TypeInv, TypeOK, ProbePoints, object, control, child,
      channels, history
  <1>1. CASE Spawn
    BY <1>1 DEF Spawn
  <1>2. ASSUME NEW t \in Tasks, SendStart(t) PROVE OwnInv'
    BY <1>2 DEF SendStart
  <1>3. CASE SendWritten \/ SendBlocks \/ SendUnblocked \/ SendAccepted \/ SendThrows
             \/ SendFailed \/ SendUnserializable
    BY <1>3 DEF SendWritten, SendBlocks, SendUnblocked, SendAccepted, SendThrows, SendFailed,
       SendUnserializable
  <1>4. CASE DeadlinePasses
    BY <1>4 DEF DeadlinePasses
  <1>5. CASE CallExpire \/ CallReceive
    BY <1>5 DEF CallExpire, CallReceive
  <1>6. CASE ExpirePoll \/ ExpireGrace \/ ExpireKill
    BY <1>6 DEF ExpirePoll, ExpireGrace, ExpireKill, NotExpired, MoveOn, Break
  <1>7. CASE ProbeExit
    BY <1>7, AfterProbeType DEF ProbeExit, ReapAndBreak, Reap, Break, MoveOn
  <1>8. CASE RecvFrame
    BY <1>8 DEF RecvFrame, FinishTask, Break
  <1>9. CASE RecvGarbage \/ RecvTimeout \/ RecvEof
    BY <1>9 DEF RecvGarbage, RecvTimeout, RecvEof, Break
  <1>10. CASE RecvExit
    BY <1>10 DEF RecvExit, ReapAndBreak, Reap, Break
  <1>11. CASE Stop
    BY <1>11 DEF Stop
  <1>12. CASE StopWait
    BY <1>12 DEF StopWait, Reap
  <1>13. CASE Teardown
    BY <1>13 DEF Teardown
  <1>14. CASE ChildStep
    BY <1>14 DEF ChildStep, ChildRead, TargetEnds, BeginReply, EndReply, ReplyFails,
       TargetExits, ChildSignaled, ChildZombie, StrayWrite, Dies, ChildLive, LivePhases
  <1>15. CASE UNCHANGED vars
    BY <1>15 DEF vars
  <1> QED
    BY <1>1, <1>2, <1>3, <1>4, <1>5, <1>6, <1>7, <1>8, <1>9, <1>10, <1>11, <1>12,
       <1>13, <1>14, <1>15 DEF Next, ParentStep, ParentCall

(* Whatever the interleaving of the child, the kernel and the parent, the  *)
(* pid that shutdown_child() and try_collect_child_exit_result() pass to   *)
(* kill() and waitpid() is that of this slot's own unreaped child.         *)
THEOREM PidOwned == Spec => []ProcessOwned
  <1>1. Init => OwnInv
    BY OwnInit
  <1>2. TypeInv /\ OwnInv /\ [Next]_vars => OwnInv'
    BY OwnStep
  <1>3. OwnInv => ProcessOwned
    BY DEF OwnInv
  <1> QED
    BY <1>1, <1>2, <1>3, TypeInvariant, PTL DEF Spec

-----------------------------------------------------------------------------
(* Once a request is in the socket the parent is past the last point where *)
(* send() can fail, and no task has a request in the socket after it was   *)
(* run, or two of them.                                                    *)
Delivered(t) == t \in accepted \/ Stranded(t) \/ (pc = "sent" /\ outgoing = t)

IsRun(f) == f.kind = "run"

OnceInv ==
    /\ AtMostOnce
    /\ \A t \in Tasks : runs[t] > 0 => Delivered(t)
    /\ \A i \in 1..Len(toChild) : IsRun(toChild[i]) =>
          runs[toChild[i].id] = 0 /\ Delivered(toChild[i].id)
    /\ \A i, j \in 1..Len(toChild) :
          IsRun(toChild[i]) /\ toChild[j] = toChild[i] => i = j
    /\ pc \in {"sending", "blocked", "sent"} => outgoing \notin accepted /\ ~Stranded(outgoing)

LEMMA OnceInit == ASSUME Init PROVE OnceInv
  BY DEF Init, OnceInv, AtMostOnce, Delivered

(* A request in the socket is for a task.                                  *)
LEMMA RunFrame ==
    ASSUME NEW f \in Requests
    PROVE  /\ IsRun(f) => f.id \in Tasks /\ f = Frame("run", f.id)
           /\ ~IsRun(f) => f.kind = "stop"
  BY DEF Requests, Frame, IsRun

LEMMA OnceStep == ASSUME TypeInv, OwnInv, OnceInv, [Next]_vars PROVE OnceInv'
  <1> USE DEF OnceInv, AtMostOnce, Delivered, Stranded
  <1>0. /\ toChild \in Seq(Requests)
        /\ runs \in [Tasks -> Nat]
        /\ stranded \in [Tasks -> 0..MaxSpawns] /\ MaxSpawns \in Nat
        /\ pc \in {"sending", "blocked", "sent"} => outgoing \in Tasks
    BY WorkerAssumption DEF TypeInv, TypeOK, Shapes
  (* Steps that write neither channel nor runs. *)
  <1>1. ASSUME UNCHANGED <<accepted, stranded, runs>>,
               toChild' = toChild \/ toChild' = <<>>,
               pc \notin {"sent"} /\ pc' \notin {"sending", "blocked", "sent"}
        PROVE  OnceInv'
    <2>1. CASE toChild' = toChild
      BY <1>1, <2>1
    <2>2. CASE toChild' = <<>>
      BY <1>1, <2>2
    <2> QED
      BY <1>1, <2>1, <2>2
  <1>2. ASSUME NEW t \in Tasks, SendStart(t) PROVE OnceInv'
    BY <1>2 DEF SendStart, channels, history
  <1>3. ASSUME pc \in {"sending", "blocked"}, pc' = "sent",
               toChild' = Append(toChild, Frame("run", outgoing)),
               UNCHANGED <<outgoing, accepted, stranded, runs>>
        PROVE  OnceInv'
    <2> DEFINE f == Frame("run", outgoing)
    <2>1. /\ f \in Requests /\ IsRun(f) /\ f.id = outgoing
          /\ outgoing \in Tasks
          /\ outgoing \notin accepted /\ ~Stranded(outgoing)
      BY <1>0, <1>3 DEF Requests, Frame, IsRun
    <2>2. runs[outgoing] = 0
      BY <1>0, <1>3, <2>1
    <2>3. \A i \in 1..Len(toChild) : toChild[i] # f
      BY <1>0, <1>3, <2>1
    <2> HIDE DEF f
    <2>4. /\ Len(toChild') = Len(toChild) + 1
          /\ \A i \in 1..Len(toChild) : toChild'[i] = toChild[i]
          /\ toChild'[Len(toChild) + 1] = f
      BY <1>0, <1>3, <2>1 DEF f
    <2>5. \A i \in 1..Len(toChild') : i \in 1..Len(toChild) \/ i = Len(toChild) + 1
      BY <1>0, <2>4
    <2>6. \A i \in 1..Len(toChild') : IsRun(toChild'[i]) =>
             /\ runs[toChild'[i].id] = 0
             /\ toChild'[i].id \in accepted \/ Stranded(toChild'[i].id) \/ toChild'[i].id = outgoing
      <3> SUFFICES ASSUME NEW i \in 1..Len(toChild'), IsRun(toChild'[i])
                   PROVE  runs[toChild'[i].id] = 0
                          /\ \/ toChild'[i].id \in accepted \/ Stranded(toChild'[i].id)
                             \/ toChild'[i].id = outgoing
        OBVIOUS
      <3>1. CASE i \in 1..Len(toChild)
        <4>1. toChild'[i] = toChild[i] /\ IsRun(toChild[i])
          BY <2>4, <3>1
        <4>2. runs[toChild[i].id] = 0 /\ Delivered(toChild[i].id)
          BY <3>1, <4>1
        <4> QED
          BY <1>3, <2>1, <4>1, <4>2
      <3>2. CASE i = Len(toChild) + 1
        BY <2>1, <2>2, <2>4, <3>2
      <3> QED
        BY <2>5, <3>1, <3>2
    <2>7. \A i, j \in 1..Len(toChild') :
             IsRun(toChild'[i]) /\ toChild'[j] = toChild'[i] => i = j
      BY <2>3, <2>4, <2>5
    <2> QED
      BY <1>3, <2>1, <2>6, <2>7
  <1>31. CASE SendWritten
    BY <1>3, <1>31 DEF SendWritten, history
  <1>32. CASE SendUnblocked
    <2>1. toChild' = Append(toChild, Frame("run", outgoing))
      BY <1>32, OneFrame DEF SendUnblocked
    <2> QED
      BY <1>3, <1>32, <2>1 DEF SendUnblocked, history
  <1>33. CASE SendBlocks
    BY <1>33 DEF SendBlocks, channels, history
  <1>34. CASE SendThrows
    BY <1>0, <1>34 DEF SendThrows, channels, OwnInv, ProcessOwned
  <1>4. CASE SendAccepted
    BY <1>0, <1>4 DEF SendAccepted, channels
  <1>5. CASE SendFailed \/ SendUnserializable
    BY <1>1, <1>5 DEF SendFailed, SendUnserializable, channels, history
  <1>6. CASE Stop
    <2>1. CASE toChild' = toChild
      BY <1>1, <1>6, <2>1 DEF Stop, history
    <2>2. CASE toChild' = Append(toChild, Frame("stop", NoTask))
      <3> DEFINE f == Frame("stop", NoTask)
      <3>1. f \in Requests /\ ~IsRun(f) /\ pc = "ready" /\ pc' \notin {"sending", "blocked", "sent"}
            /\ UNCHANGED <<accepted, stranded, runs>>
        BY <1>6 DEF Stop, Requests, Frame, IsRun, history
      <3> HIDE DEF f
      <3>2. /\ Len(toChild') = Len(toChild) + 1
            /\ \A i \in 1..Len(toChild) : toChild'[i] = toChild[i]
            /\ toChild'[Len(toChild) + 1] = f
        BY <1>0, <2>2, <3>1 DEF f
      <3>3. \A i \in 1..Len(toChild') : IsRun(toChild'[i]) => i \in 1..Len(toChild)
        BY <1>0, <3>1, <3>2
      <3>4. \A i, j \in 1..Len(toChild') :
               IsRun(toChild'[i]) /\ toChild'[j] = toChild'[i] => i = j
        BY <3>2, <3>3
      <3>5. \A i \in 1..Len(toChild') : IsRun(toChild'[i]) =>
               /\ runs'[toChild'[i].id] = 0
               /\ toChild'[i].id \in accepted' \/ stranded'[toChild'[i].id] # 0
        <4> SUFFICES ASSUME NEW i \in 1..Len(toChild'), IsRun(toChild'[i])
                     PROVE  /\ runs[toChild'[i].id] = 0
                            /\ toChild'[i].id \in accepted \/ Stranded(toChild'[i].id)
          BY <3>1
        <4>1. i \in 1..Len(toChild) /\ toChild'[i] = toChild[i]
          BY <3>2, <3>3
        <4> QED
          BY <3>1, <4>1
      <3> QED
        BY <3>1, <3>4, <3>5
    <2> QED
      BY <1>6, <2>1, <2>2 DEF Stop
  <1>7. CASE ChildRead
    <2> DEFINE f == Head(toChild)
    <2>1. /\ toChild # <<>> /\ toChild' = Tail(toChild)
          /\ f = toChild[1] /\ f \in Requests
          /\ UNCHANGED <<pc, outgoing, accepted, stranded>>
      BY <1>0, <1>7, ChannelType DEF ChildRead, control
    <2>2. /\ Len(toChild) >= 1 /\ Len(toChild') = Len(toChild) - 1
          /\ \A i \in 1..Len(toChild') :
                /\ i + 1 \in 1..Len(toChild) /\ i + 1 # 1
                /\ toChild'[i] = toChild[i + 1]
      BY <1>0, <2>1
    <2>3. \/ UNCHANGED runs
          \/ IsRun(f) /\ runs' = [runs EXCEPT ![f.id] = @ + 1]
      BY <1>7 DEF ChildRead, IsRun
    <2> HIDE DEF f
    <2>4. \A i, j \in 1..Len(toChild') :
             IsRun(toChild'[i]) /\ toChild'[j] = toChild'[i] => i = j
      BY <1>0, <2>2
    <2>5. CASE UNCHANGED runs
      BY <1>0, <2>1, <2>2, <2>4, <2>5
    <2>6. CASE IsRun(f) /\ runs' = [runs EXCEPT ![f.id] = @ + 1]
      <3>1. f.id \in Tasks /\ f = Frame("run", f.id) /\ runs[f.id] = 0 /\ Delivered(f.id)
        BY <2>1, <2>2, <2>6, RunFrame
      <3>2. /\ runs'[f.id] = 1
            /\ \A t \in Tasks : t # f.id => runs'[t] = runs[t]
        BY <1>0, <2>6, <3>1
      <3>3. \A i \in 1..Len(toChild') : IsRun(toChild'[i]) =>
               /\ toChild'[i].id \in Tasks
               /\ toChild'[i].id # f.id
        <4> SUFFICES ASSUME NEW i \in 1..Len(toChild'), IsRun(toChild'[i])
                     PROVE  toChild'[i].id \in Tasks /\ toChild'[i].id # f.id
          OBVIOUS
        <4>1. toChild'[i] = toChild[i + 1] /\ i + 1 \in 1..Len(toChild) /\ i + 1 # 1
          BY <2>2
        <4>2. toChild[i + 1] \in Requests
          BY <1>0, <4>1
        <4>3. toChild[i + 1].id \in Tasks /\ toChild[i + 1] = Frame("run", toChild[i + 1].id)
          BY <4>1, <4>2, RunFrame
        <4>4. toChild[i + 1] # toChild[1]
          BY <2>1, <2>2, <2>6, <4>1
        <4> QED
          BY <2>1, <3>1, <4>1, <4>3, <4>4
      <3> QED
        BY <1>0, <2>1, <2>2, <2>4, <3>1, <3>2, <3>3, SMTT(30)
    <2> QED
      BY <2>3, <2>5, <2>6
  <1>8. CASE UNCHANGED <<pc, outgoing, accepted, stranded, runs, toChild>>
    BY <1>8
  <1>9. CASE ChildStep
    BY <1>7, <1>8, <1>9 DEF ChildStep, TargetEnds, BeginReply, EndReply, ReplyFails,
       TargetExits, ChildSignaled, ChildZombie, StrayWrite, control, channels, history
  <1>10. CASE Spawn \/ Teardown
    BY <1>1, <1>10 DEF Spawn, Teardown, control
  <1>11. CASE ExpirePoll \/ ExpireGrace \/ ExpireKill
    BY <1>1, <1>11 DEF ExpirePoll, ExpireGrace, ExpireKill, NotExpired, MoveOn, Break,
       channels, history
  <1>12. CASE ProbeExit
    BY <1>1, <1>12, AfterProbeType DEF ProbeExit, ReapAndBreak, Break, MoveOn,
       ProbePoints, channels, history
  <1>13. CASE RecvFrame
    BY <1>1, <1>13 DEF RecvFrame, FinishTask, Break
  <1>14. CASE RecvGarbage \/ RecvTimeout \/ RecvEof \/ RecvExit
    BY <1>1, <1>14 DEF RecvGarbage, RecvTimeout, RecvEof, RecvExit, ReapAndBreak, Break,
       channels, history
  <1>15. CASE CallExpire \/ CallReceive \/ StopWait
    BY <1>1, <1>15 DEF CallExpire, CallReceive, StopWait, channels, history
  <1>16. CASE DeadlinePasses \/ UNCHANGED vars
    BY <1>8, <1>16 DEF DeadlinePasses, vars, control, channels, history
  <1> QED
    BY <1>2, <1>31, <1>32, <1>33, <1>34, <1>4, <1>5, <1>6, <1>9, <1>10, <1>11, <1>12, <1>13,
       <1>14, <1>15, <1>16 DEF Next, ParentStep, ParentCall

LEMMA OnceInvariant == Spec => []OnceInv
  <1>1. Spec => []OwnInv
    BY OwnInit, OwnStep, TypeInvariant, PTL DEF Spec
  <1> QED
    BY <1>1, OnceInit, OnceStep, TypeInvariant, PTL DEF Spec

(* However often worker_pool offers a task again after a refusal, child_loop *)
(* enters the target with it at most once.                                 *)
THEOREM RunAtMostOnce == Spec => []AtMostOnce
  <1>1. OnceInv => AtMostOnce
    BY DEF OnceInv
  <1> QED
    BY <1>1, OnceInvariant, PTL

(* A task that send() refused, or was never given, has not been executed.  *)
THEOREM NeverRunUnaccepted == Spec => []RefusedNeverRuns
  <1>1. OnceInv => RefusedNeverRuns
    BY DEF OnceInv, RefusedNeverRuns, Delivered
  <1> QED
    BY <1>1, OnceInvariant, PTL

-----------------------------------------------------------------------------
(* Where the object stands while a method runs, and what it owes: the task *)
(* it serves was accepted and has no answer yet, and a verdict exists only *)
(* for a slot that is broken.                                              *)
SendPoints    == {"sending", "blocked", "sent", "stop_wait"}
ReceivePoints == {"expire_poll", "expire_grace", "expire_kill", "recv_frame", "recv_exit"}
                 \cup ProbePoints

SlotInv ==
    /\ pc = "ready" => state # "broken"
    /\ pc \in SendPoints => state = "idle"
    /\ pc \in ReceivePoints => state = "busy"
    /\ pc \notin {"recv_exit", "teardown"} => verdict = "none"
    /\ state = "busy" => current \in Tasks
    /\ state \in {"idle", "stopped"} => current = NoTask
    /\ verdict \notin TargetStatus
    /\ pc = "teardown" /\ verdict # "none" => state = "broken" /\ current \in Tasks
    /\ current \in Tasks => current \in accepted /\ result[current] = "none"
    /\ \A t \in Tasks : result[t] # "none" => t \in accepted
    /\ pc \in {"sending", "blocked", "sent"} => outgoing \notin accepted /\ ~Stranded(outgoing)
    /\ \A t \in Tasks : stranded[t] <= spawns /\ (Stranded(t) => t \notin accepted)

LEMMA SlotInit == ASSUME Init PROVE SlotInv
  BY WorkerAssumption DEF Init, SlotInv, SendPoints, ReceivePoints, ProbePoints, TargetStatus, Stranded

LEMMA SlotStep == ASSUME TypeInv, SlotInv, [Next]_vars PROVE SlotInv'
  <1> USE WorkerAssumption DEF SlotInv, SendPoints, ReceivePoints, ProbePoints, Stranded
  <1>0. /\ result \in [Tasks -> IsolatedStatus \cup {"none"}]
        /\ current \in Tasks \cup {NoTask}
        /\ wstatus \in WaitStatus
        /\ stranded \in [Tasks -> 0..MaxSpawns] /\ spawns \in Nat
        /\ pc \in {"sending", "blocked", "sent"} => outgoing \in Tasks
    BY DEF TypeInv, TypeOK, Shapes
  <1>1. CASE Spawn
    BY <1>0, <1>1 DEF Spawn, control
  <1>2. ASSUME NEW t \in Tasks, SendStart(t) PROVE SlotInv'
    BY <1>2 DEF SendStart, object, history
  <1>3. CASE SendWritten \/ SendBlocks \/ SendUnblocked \/ SendFailed \/ SendUnserializable
    BY <1>3 DEF SendWritten, SendBlocks, SendUnblocked, SendFailed, SendUnserializable, object,
       history
  <1>18. CASE SendThrows
    BY <1>0, <1>18 DEF SendThrows, object
  <1>4. CASE SendAccepted
    BY <1>0, <1>4 DEF SendAccepted
  <1>5. CASE DeadlinePasses
    BY <1>5 DEF DeadlinePasses, control, history
  <1>6. CASE CallExpire \/ CallReceive
    BY <1>6 DEF CallExpire, CallReceive, object
  <1>7. CASE ExpirePoll \/ ExpireGrace \/ ExpireKill
    BY <1>0, <1>7 DEF ExpirePoll, ExpireGrace, ExpireKill, NotExpired, MoveOn, Break, object,
       history, TargetStatus
  <1>8. CASE ProbeExit
    <2>1. CASE ReapAndBreak
      <3>1. StatusOf(wstatus) \notin TargetStatus
        BY <1>0, StatusOfType
      <3> QED
        BY <1>0, <1>8, <2>1, <3>1 DEF ProbeExit, ReapAndBreak, Break, history
    <2>2. CASE pc' = AfterProbe(pc) /\ MoveOn
      BY <1>0, <1>8, <2>2, AfterProbeType DEF ProbeExit, MoveOn, object, history
    <2> QED
      BY <1>8, <2>1, <2>2 DEF ProbeExit
  <1>9. CASE RecvFrame
    <2>1. CASE Head(toParent).id = current /\ Head(toParent).kind \in TargetStatus
      BY <1>0, <1>9, <2>1 DEF RecvFrame, FinishTask
    <2>2. CASE ~(Head(toParent).id = current /\ Head(toParent).kind \in TargetStatus)
      BY <1>0, <1>9, <2>2 DEF RecvFrame, FinishTask, Break, TargetStatus
    <2> QED
      BY <2>1, <2>2
  <1>10. CASE RecvGarbage \/ RecvTimeout \/ RecvEof
    BY <1>0, <1>10 DEF RecvGarbage, RecvTimeout, RecvEof, Break, object, history, TargetStatus
  <1>11. CASE RecvExit
    BY <1>0, <1>11, StatusOfType DEF RecvExit, ReapAndBreak, Break, object, history
  <1>12. CASE Stop
    BY <1>0, <1>12 DEF Stop, TargetStatus, object, history
  <1>13. CASE StopWait
    BY <1>0, <1>13 DEF StopWait, Reap, history
  <1>14. CASE Teardown
    BY <1>0, <1>14 DEF Teardown, TargetStatus
  <1>15. CASE UNCHANGED <<state, current, accepted, stranded, spawns, result, pc, verdict, outgoing>>
    BY <1>15
  <1>16. CASE ChildStep
    BY <1>15, <1>16 DEF ChildStep, ChildRead, TargetEnds, BeginReply, EndReply, ReplyFails,
       TargetExits, ChildSignaled, ChildZombie, StrayWrite, object, control, history
  <1>17. CASE UNCHANGED vars
    BY <1>15, <1>17 DEF vars, object, control, history
  <1> QED
    BY <1>1, <1>2, <1>3, <1>4, <1>5, <1>6, <1>7, <1>8, <1>9, <1>10, <1>11, <1>12,
       <1>13, <1>14, <1>16, <1>17, <1>18 DEF Next, ParentStep, ParentCall

LEMMA SlotInvariant == Spec => []SlotInv
  BY SlotInit, SlotStep, TypeInvariant, PTL DEF Spec

-----------------------------------------------------------------------------
(* The slot as its contract sees it: broken is never observed, for the     *)
(* teardown that follows is part of the same call.                         *)
SlotView == IF state # "broken" THEN state
            ELSE IF current = NoTask THEN "idle" ELSE "busy"

LEMMA ContractStep ==
    ASSUME TypeInv, SlotInv, [Next]_vars
    PROVE  [Contract!CNext]_(Contract!cvars)
  <1> USE WorkerAssumption DEF SlotInv, SendPoints, ReceivePoints, ProbePoints
  <1>0. /\ result \in [Tasks -> IsolatedStatus \cup {"none"}]
        /\ current \in Tasks \cup {NoTask}
        /\ state \in {"stopped", "idle", "busy", "broken"}
        /\ verdict \in IsolatedStatus \cup {"none"}
        /\ pc \in {"sending", "blocked", "sent"} => outgoing \in Tasks
        /\ pc \in {"ready", "teardown"} \cup SendPoints \cup ReceivePoints
    BY DEF TypeInv, TypeOK, Shapes
  <1>1. ASSUME SlotView' = SlotView, UNCHANGED <<current, accepted, result>>
        PROVE  UNCHANGED Contract!cvars
    BY <1>1 DEF SlotView, Contract!cvars
  (* A call that breaks the slot leaves the contract where it was. *)
  <1>2. ASSUME state' = "broken", state = IF current = NoTask THEN "idle" ELSE "busy",
               UNCHANGED <<current, accepted, result>>
        PROVE  UNCHANGED Contract!cvars
    BY <1>1, <1>2 DEF SlotView
  <1>3. CASE Spawn
    <2>1. Contract!Spawned
      BY <1>3 DEF Spawn, Contract!Spawned
    <2> QED
      BY <2>1 DEF Contract!CNext
  <1>4. CASE SendAccepted
    <2>1. outgoing \in Tasks /\ Contract!Accepts(outgoing)
      BY <1>0, <1>4 DEF SendAccepted, Contract!Accepts
    <2> QED
      BY <2>1 DEF Contract!CNext
  <1>5. CASE RecvFrame
    <2>1. CASE Head(toParent).id = current /\ Head(toParent).kind \in TargetStatus
      <3> DEFINE s == Head(toParent).kind
      <3>1. s \in Contract!IsolatedStatus /\ Contract!Answers(s)
        BY <1>0, <1>5, <2>1 DEF RecvFrame, FinishTask, Contract!Answers,
           Contract!TargetStatus, Contract!IsolatedStatus, TargetStatus
      <3> QED
        BY <3>1 DEF Contract!CNext
    <2>2. CASE ~(Head(toParent).id = current /\ Head(toParent).kind \in TargetStatus)
      BY <1>0, <1>2, <1>5, <2>2 DEF RecvFrame, FinishTask, Break
    <2> QED
      BY <2>1, <2>2
  <1>6. CASE Teardown
    <2>1. CASE verdict # "none"
      <3>1. verdict \in Contract!IsolatedStatus /\ verdict \notin Contract!TargetStatus
        BY <1>0, <2>1 DEF IsolatedStatus, TargetStatus, Contract!IsolatedStatus,
           Contract!TargetStatus, Contract!InfraStatus
      <3>2. Contract!Answers(verdict)
        BY <1>0, <1>6, <2>1, <3>1 DEF Teardown, Contract!Answers
      <3> QED
        BY <3>1, <3>2 DEF Contract!CNext
    <2>2. CASE verdict = "none" /\ SlotView = "stopped"
      BY <1>0, <1>1, <1>6, <2>2 DEF Teardown, SlotView
    <2>3. CASE verdict = "none" /\ SlotView = "idle"
      <3>1. Contract!Retires
        BY <1>0, <1>6, <2>3 DEF Teardown, SlotView, Contract!Retires
      <3> QED
        BY <3>1 DEF Contract!CNext
    <2>4. CASE verdict = "none" /\ SlotView = "busy"
      <3>1. Contract!Abandons
        BY <1>0, <1>6, <2>4 DEF Teardown, SlotView, Contract!Abandons
      <3> QED
        BY <3>1 DEF Contract!CNext
    <2> QED
      BY <1>0, <2>1, <2>2, <2>3, <2>4 DEF SlotView
  <1>7. ASSUME NEW t \in Tasks, SendStart(t) PROVE UNCHANGED Contract!cvars
    BY <1>1, <1>7 DEF SendStart, SlotView, object, history
  <1>8. CASE SendWritten \/ SendBlocks \/ SendUnblocked \/ SendThrows \/ SendUnserializable
    BY <1>1, <1>8 DEF SendWritten, SendBlocks, SendUnblocked, SendThrows, SendUnserializable,
       SlotView, object, history
  <1>9. CASE SendFailed
    BY <1>2, <1>9 DEF SendFailed, history
  <1>10. CASE CallExpire \/ CallReceive \/ DeadlinePasses
    BY <1>1, <1>10 DEF CallExpire, CallReceive, DeadlinePasses, SlotView, object, history
  <1>11. CASE ExpirePoll \/ ExpireGrace
    BY <1>1, <1>11 DEF ExpirePoll, ExpireGrace, MoveOn, SlotView, object, history
  <1>12. CASE ExpireKill
    BY <1>2, <1>12 DEF ExpireKill, Break, history
  <1>13. CASE ProbeExit
    <2>1. CASE ReapAndBreak
      BY <1>2, <1>13, <2>1 DEF ProbeExit, ReapAndBreak, Break, history
    <2>2. CASE MoveOn
      BY <1>1, <2>2 DEF MoveOn, SlotView, object, history
    <2> QED
      BY <1>13, <2>1, <2>2 DEF ProbeExit
  <1>14. CASE RecvGarbage \/ RecvTimeout \/ RecvEof
    BY <1>1, <1>2, <1>14 DEF RecvGarbage, RecvTimeout, RecvEof, Break, SlotView, object, history
  <1>15. CASE RecvExit
    BY <1>2, <1>15 DEF RecvExit, ReapAndBreak, Break, history
  <1>16. CASE Stop \/ StopWait
    BY <1>1, <1>16 DEF Stop, StopWait, SlotView, object, history
  <1>17. CASE ChildStep
    BY <1>1, <1>17 DEF ChildStep, ChildRead, TargetEnds, BeginReply, EndReply, ReplyFails,
       TargetExits, ChildSignaled, ChildZombie, StrayWrite, SlotView, object, history
  <1>18. CASE UNCHANGED vars
    BY <1>1, <1>18 DEF vars, SlotView, object, history
  <1> QED
    BY <1>3, <1>4, <1>5, <1>6, <1>7, <1>8, <1>9, <1>10, <1>11, <1>12, <1>13, <1>14,
       <1>15, <1>16, <1>17, <1>18 DEF Next, ParentStep, ParentCall

(* The slot implements its contract for every number of tasks and children: *)
(* seen from worker_pool, a task taken by send() is answered at most once, *)
(* by the call that frees or stops the slot, and a refused one is not taken. *)
THEOREM SlotRefinesContract == Spec => ImplementsContract
  <1>1. Init => Contract!CInit
    BY DEF Init, Contract!CInit
  <1>2. TypeInv /\ SlotInv /\ [Next]_vars => [Contract!CNext]_(Contract!cvars)
    BY ContractStep
  <1> QED
    BY <1>1, <1>2, TypeInvariant, SlotInvariant, PTL
       DEF Spec, ImplementsContract, Contract!CSpec

-----------------------------------------------------------------------------
(* What is on the way to the parent was put there, and what is reported as *)
(* the target's own word came from there.                                  *)
WrittenInv ==
    /\ \A i \in 1..Len(toParent) : toParent[i] \in written
    /\ OwnAnswerOnly

LEMMA AppendAll ==
    ASSUME NEW S, NEW q \in Seq(S), NEW f \in S, NEW W, \A i \in 1..Len(q) : q[i] \in W
    PROVE  \A i \in 1..Len(Append(q, f)) : Append(q, f)[i] \in W \cup {f}
  OBVIOUS

LEMMA TailAll ==
    ASSUME NEW S, NEW q \in Seq(S), q # <<>>, NEW W, \A i \in 1..Len(q) : q[i] \in W
    PROVE  Head(q) \in W /\ \A i \in 1..Len(Tail(q)) : Tail(q)[i] \in W
  OBVIOUS

LEMMA WrittenStep == ASSUME TypeInv, SlotInv, WrittenInv, [Next]_vars PROVE WrittenInv'
  <1> USE DEF WrittenInv, OwnAnswerOnly
  <1>0. toParent \in Seq(StrayFrames) /\ result \in [Tasks -> IsolatedStatus \cup {"none"}]
    BY DEF TypeInv, TypeOK
  <1>1. CASE RecvFrame
    <2> DEFINE f == Head(toParent)
    <2>1. f \in written /\ \A i \in 1..Len(toParent') : toParent'[i] \in written'
      BY <1>0, <1>1, TailAll DEF RecvFrame
    <2>2. f \in StrayFrames /\ written' = written
      BY <1>0, <1>1, ChannelType DEF RecvFrame
    <2>3. f = Frame(f.kind, f.id)
      BY <2>2 DEF StrayFrames, Frame
    <2> HIDE DEF f
    <2>4. CASE f.id = current /\ f.kind \in TargetStatus
      <3>1. result' = [result EXCEPT ![current] = f.kind]
        BY <1>1, <2>4 DEF RecvFrame, FinishTask, f
      <3>2. \A t \in Tasks : result'[t] = IF t = current THEN f.kind ELSE result[t]
        BY <1>0, <3>1
      <3> QED
        BY <2>1, <2>2, <2>3, <2>4, <3>2
    <2>5. CASE ~(f.id = current /\ f.kind \in TargetStatus)
      BY <1>1, <2>1, <2>2, <2>5 DEF RecvFrame, FinishTask, f
    <2> QED
      BY <2>4, <2>5
  <1>2. CASE Teardown
    <2>1. toParent' = <<>> /\ written' = written
      BY <1>2 DEF Teardown
    <2>2. \A t \in Tasks : result'[t] \in TargetStatus => result'[t] = result[t]
      BY <1>0, <1>2 DEF Teardown, SlotInv
    <2> QED
      BY <2>1, <2>2
  <1>3. ASSUME NEW f \in StrayFrames, toParent' = Append(toParent, f),
               written' = written \cup {f}, UNCHANGED result
        PROVE  WrittenInv'
    BY <1>0, <1>3, AppendAll
  <1>4. CASE EndReply
    <2>1. Frame(reply, serving) \in StrayFrames
      BY <1>4 DEF EndReply, Frame, StrayFrames, TypeInv, TypeOK, Shapes, TargetStatus
    <2> QED
      BY <1>3, <1>4, <2>1 DEF EndReply
  <1>5. CASE StrayWrite
    BY <1>3, <1>5 DEF StrayWrite
  <1>6. CASE RecvGarbage
    BY <1>0, <1>6, TailAll DEF RecvGarbage, history
  <1>7. CASE Spawn
    BY <1>7 DEF Spawn
  <1>8. CASE UNCHANGED <<toParent, written, result>>
    BY <1>8
  <1>9. \/ RecvFrame \/ Teardown \/ EndReply \/ StrayWrite \/ RecvGarbage \/ Spawn
        \/ UNCHANGED <<toParent, written, result>>
    BY DEF Next, ParentStep, ParentCall, ChildStep, vars, channels, history,
       SendStart, SendWritten, SendBlocks, SendUnblocked, SendAccepted, SendThrows, SendFailed,
       SendUnserializable,
       DeadlinePasses, CallExpire, CallReceive, ExpirePoll, ProbeExit, ReapAndBreak, MoveOn,
       ExpireGrace, ExpireKill, RecvTimeout, RecvEof, RecvExit, Stop, StopWait,
       ChildRead, TargetEnds, BeginReply, ReplyFails, TargetExits, ChildSignaled, ChildZombie
  <1> QED
    BY <1>1, <1>2, <1>4, <1>5, <1>6, <1>7, <1>8, <1>9

(* Whatever the target writes to the inherited socket, a task is credited   *)
(* only with a frame that carries its own id.                               *)
THEOREM CreditedWithOwn == Spec => []OwnAnswerOnly
  <1>1. Init => WrittenInv
    BY DEF Init, WrittenInv, OwnAnswerOnly, TargetStatus
  <1>2. WrittenInv => OwnAnswerOnly
    BY DEF WrittenInv
  <1> QED
    BY <1>1, <1>2, WrittenStep, TypeInvariant, SlotInvariant, PTL DEF Spec

-----------------------------------------------------------------------------
(* An end that was visible when the method was called is still visible when *)
(* the deadline is examined, which then is the last step of the examination. *)
SeenInv ==
    endSeen =>
        /\ pc = "expire_poll" => Readable
        /\ pc \notin {"expire_reap", "expire_grace", "expire_reap2", "expire_kill"}
        /\ verdict # "timeout"

LEMMA SeenStep == ASSUME TypeInv, SlotInv, SeenInv, [Next]_vars PROVE SeenInv'
  <1> USE DEF SeenInv, Readable, PeerClosed
  <1>1. CASE CallExpire \/ CallReceive
    BY <1>1 DEF CallExpire, CallReceive, SlotInv, object, child, channels
  <1>2. CASE ExpirePoll \/ ExpireGrace \/ ExpireKill
    BY <1>2 DEF ExpirePoll, ExpireGrace, ExpireKill, NotExpired, MoveOn, Break, history
  <1>3. CASE ProbeExit
    <2>1. StatusOf(wstatus) # "timeout"
      BY Zenon DEF StatusOf, TypeInv, TypeOK, WaitStatus, ExitCodes
    <2>2. CASE ReapAndBreak
      BY <2>1, <2>2 DEF ReapAndBreak, Break, history
    <2>3. CASE pc' = AfterProbe(pc) /\ MoveOn
      <3>1. endSeen => pc = "recv_reap"
        BY <1>3 DEF ProbeExit, ProbePoints
      <3>2. endSeen => pc' = "recv_frame"
        BY <2>3, <3>1, AfterProbeIs DEF ProbePoints
      <3>3. UNCHANGED <<verdict, endSeen>>
        BY <2>3 DEF MoveOn, history
      <3> QED
        BY <3>2, <3>3
    <2> QED
      BY <1>3, <2>2, <2>3 DEF ProbeExit
  <1>4. CASE RecvExit
    <2>1. StatusOf(wstatus) # "timeout"
      BY Zenon DEF StatusOf, TypeInv, TypeOK, WaitStatus, ExitCodes
    <2> QED
      BY <1>4, <2>1 DEF RecvExit, ReapAndBreak, Break, history
  <1>5. CASE RecvFrame \/ RecvGarbage \/ RecvTimeout \/ RecvEof
    BY <1>5 DEF RecvFrame, FinishTask, RecvGarbage, RecvTimeout, RecvEof, Break, history, SlotInv
  <1>6. CASE Stop \/ StopWait \/ Teardown \/ Spawn
    BY <1>6 DEF Stop, StopWait, Teardown, Spawn, control, history
  <1>7. ASSUME NEW t \in Tasks, SendStart(t) PROVE SeenInv'
    BY <1>7 DEF SendStart, history
  <1>8. CASE SendWritten \/ SendBlocks \/ SendUnblocked \/ SendAccepted \/ SendThrows
             \/ SendFailed \/ SendUnserializable
    BY <1>8 DEF SendWritten, SendBlocks, SendUnblocked, SendAccepted, SendThrows, SendFailed,
       SendUnserializable, history
  \* what was visible stays visible: bytes are not taken back, a closed end stays closed
  <1>9. CASE ChildStep
    <2>1. UNCHANGED <<pc, verdict, endSeen>>
      BY <1>9 DEF ChildStep, ChildRead, TargetEnds, BeginReply, EndReply, ReplyFails,
         TargetExits, ChildSignaled, ChildZombie, StrayWrite, control, history
    <2>2. Readable => Readable'
      <3>1. toParent' = toParent \/ toParent' # <<>>
        <4>1. \A f : Append(toParent, f) # <<>>
          BY AppendNotEmpty DEF TypeInv, TypeOK
        <4> QED
          BY <1>9, <4>1 DEF ChildStep, ChildRead, TargetEnds, BeginReply, EndReply, ReplyFails,
             TargetExits, ChildSignaled, ChildZombie, StrayWrite, channels
      <3>2. phase = "writing" => phase' \in {"writing", "exiting"} \/ toParent' # <<>>
        <4>1. \A f : Append(toParent, f) # <<>>
          BY AppendNotEmpty DEF TypeInv, TypeOK
        <4> QED
          BY <1>9, <4>1 DEF ChildStep, ChildRead, TargetEnds, BeginReply, EndReply, ReplyFails,
             TargetExits, ChildSignaled, ChildZombie, StrayWrite, Dies, child
      <3>3. PeerClosed => PeerClosed'
        BY <1>9 DEF ChildStep, ChildRead, TargetEnds, BeginReply, EndReply, ReplyFails,
           TargetExits, ChildSignaled, ChildZombie, StrayWrite, Dies, child, ChildLive, LivePhases
      <3> QED
        BY <3>1, <3>2, <3>3
    <2> QED
      BY <2>1, <2>2
  <1>10. CASE DeadlinePasses \/ UNCHANGED vars
    BY <1>10 DEF DeadlinePasses, vars, control, child, channels, history
  <1> QED
    BY <1>1, <1>2, <1>3, <1>4, <1>5, <1>6, <1>7, <1>8, <1>9, <1>10
       DEF Next, ParentStep, ParentCall

(* An end that poll() could see when the method was called is never reported *)
(* as a timeout, whatever the child does while the deadline is examined.    *)
THEOREM SeenEndIsHonoured == Spec => EndSeenIsNoTimeout
  <1>1. Init => SeenInv
    BY DEF Init, SeenInv
  <1>2. TypeInv /\ SlotInv /\ SeenInv /\ [Next]_vars
        => [\A t \in Tasks : result[t] # "timeout" /\ result'[t] = "timeout" => ~endSeen]_vars
    <2> SUFFICES ASSUME TypeInv, SlotInv, SeenInv, Next, NEW t \in Tasks,
                        result[t] # "timeout", result'[t] = "timeout"
                 PROVE  ~endSeen
      OBVIOUS
    <2>1. CASE Teardown
      BY <2>1 DEF Teardown, SeenInv, TypeInv, TypeOK
    <2>2. CASE RecvFrame
      BY <2>2 DEF RecvFrame, FinishTask, TargetStatus, TypeInv, TypeOK
    <2>3. CASE UNCHANGED result
      BY <2>3
    <2>4. Teardown \/ RecvFrame \/ UNCHANGED result
      BY DEF Next, ParentStep, ParentCall, ChildStep, history,
         Spawn, SendStart, SendWritten, SendBlocks, SendUnblocked, SendAccepted, SendThrows, SendFailed,
       SendUnserializable,
         DeadlinePasses, CallExpire, CallReceive, ExpirePoll, ProbeExit, ReapAndBreak, MoveOn,
         ExpireGrace, ExpireKill, RecvGarbage, RecvTimeout, RecvEof, RecvExit, Stop, StopWait,
         ChildRead, TargetEnds, BeginReply, EndReply, ReplyFails, TargetExits, ChildSignaled,
         ChildZombie, StrayWrite
    <2> QED
      BY <2>1, <2>2, <2>3, <2>4
  <1> QED
    BY <1>1, <1>2, SeenStep, TypeInvariant, SlotInvariant, PTL DEF Spec, EndSeenIsNoTimeout

-----------------------------------------------------------------------------
(* A crash is owed to the task in flight when the signal came.             *)
CrashInv ==
    /\ phase \in {"exiting", "zombie"} /\ wstatus = "signaled" =>
          \A t \in Tasks : InFlight(t) => t \in killedWith
    /\ verdict = "crash" => current \in killedWith
    /\ \A t \in Tasks : result[t] = "crash" => t \in killedWith

LEMMA CrashStep == ASSUME TypeInv, SlotInv, OwnInv, CrashInv, [Next]_vars PROVE CrashInv'
  <1> USE WorkerAssumption DEF CrashInv, InFlight
  <1>0. /\ result \in [Tasks -> IsolatedStatus \cup {"none"}] /\ wstatus \in WaitStatus
        /\ current \in Tasks \cup {NoTask} /\ (pc \in {"sending", "blocked", "sent"} => outgoing \in Tasks)
    BY DEF TypeInv, TypeOK, Shapes
  <1>1. CASE Spawn
    BY <1>1 DEF Spawn, SlotInv, OwnInv, ProcessOwned, control
  <1>2. ASSUME NEW t \in Tasks, SendStart(t) PROVE CrashInv'
    BY <1>2 DEF SendStart, object, child, history
  <1>3. CASE SendWritten \/ SendUnblocked
    BY <1>3 DEF SendWritten, SendUnblocked, PeerClosed, object, child, history
  <1>4. CASE SendAccepted
    BY <1>0, <1>4 DEF SendAccepted, SlotInv, child
  <1>5. CASE SendBlocks \/ SendThrows \/ SendFailed \/ SendUnserializable
    BY <1>5 DEF SendBlocks, SendThrows, SendFailed, SendUnserializable, object, child, history
  <1>6. CASE DeadlinePasses \/ CallExpire \/ CallReceive
    BY <1>6 DEF DeadlinePasses, CallExpire, CallReceive, object, control, child, history
  <1>7. CASE ExpirePoll \/ ExpireGrace \/ ExpireKill
    BY <1>7 DEF ExpirePoll, ExpireGrace, ExpireKill, NotExpired, MoveOn, Break, object, child, history
  <1>8. ASSUME ReapAndBreak, state = "busy" PROVE CrashInv'
    <2>1. StatusOf(wstatus) = "crash" => wstatus = "signaled"
      BY <1>0, Zenon DEF StatusOf, WaitStatus, ExitCodes
    <2>2. current \in Tasks
      BY <1>8 DEF SlotInv
    <2> QED
      BY <1>8, <2>1, <2>2 DEF ReapAndBreak, Reap, Break, history
  <1>9. CASE ProbeExit
    <2>1. state = "busy"
      BY <1>9 DEF ProbeExit, SlotInv, ReceivePoints
    <2>2. CASE pc' = AfterProbe(pc) /\ MoveOn
      BY <1>9, <2>2, AfterProbeType DEF ProbeExit, ProbePoints, MoveOn, object, child, history
    <2> QED
      BY <1>8, <1>9, <2>1, <2>2 DEF ProbeExit
  <1>10. CASE RecvFrame
    BY <1>0, <1>10 DEF RecvFrame, FinishTask, Break, TargetStatus, SlotInv, child
  <1>11. CASE RecvGarbage \/ RecvTimeout \/ RecvEof
    BY <1>11 DEF RecvGarbage, RecvTimeout, RecvEof, Break, object, child, history
  <1>12. CASE RecvExit
    <2>1. state = "busy"
      BY <1>12 DEF RecvExit, SlotInv, ReceivePoints
    <2>2. CASE Break(verdict) /\ UNCHANGED <<pid, fd, current, expired, inReceive, outgoing, child,
                                             channels, history>>
      BY <1>12, <2>2 DEF RecvExit, Break, child, history
    <2> QED
      BY <1>8, <1>12, <2>1, <2>2 DEF RecvExit
  <1>13. CASE Stop \/ StopWait
    BY <1>13 DEF Stop, StopWait, Reap, object, child, history
  <1>14. CASE Teardown
    BY <1>0, <1>14 DEF Teardown, SlotInv
  <1>15. CASE ChildSignaled
    BY <1>15 DEF ChildSignaled, Dies, object, control
  <1>16. CASE ChildRead \/ ReplyFails \/ TargetExits
    BY <1>16 DEF ChildRead, ReplyFails, TargetExits, Dies, ExitCodes, object, control, history
  <1>17. CASE TargetEnds \/ BeginReply \/ EndReply \/ ChildZombie \/ StrayWrite
    BY <1>17 DEF TargetEnds, BeginReply, EndReply, ChildZombie, StrayWrite, object, control, child, history
  <1>18. CASE UNCHANGED vars
    BY <1>18 DEF vars, object, control, child, history
  <1> QED
    BY <1>1, <1>2, <1>3, <1>4, <1>5, <1>6, <1>7, <1>9, <1>10, <1>11, <1>12, <1>13, <1>14,
       <1>15, <1>16, <1>17, <1>18 DEF Next, ParentStep, ParentCall, ChildStep

LEMMA CrashInvariant == Spec => []CrashInv
  <1>1. Init => CrashInv
    BY DEF Init, CrashInv
  <1>2. Spec => []OwnInv
    BY OwnInit, OwnStep, TypeInvariant, PTL DEF Spec
  <1> QED
    BY <1>1, <1>2, CrashStep, TypeInvariant, SlotInvariant, PTL DEF Spec

-----------------------------------------------------------------------------
(* The request the socket and the child are busy with.                     *)
Open == IF pc = "sent" THEN outgoing ELSE current

EndOf(k) == IF k = "ok" THEN "returned" ELSE "threw"

Waits == ChildLive => phase = "reading"

(* Without stray frames the two sides are in step: the one open request is *)
(* in the socket, or being served, or its one answer is in the socket; or  *)
(* the child died with it.                                                 *)
InStep ==
    /\ Open = NoTask =>
          /\ toParent = <<>> /\ Waits
          /\ \/ toChild = <<>>
             \/ toChild = <<Frame("stop", NoTask)>> /\ pc \in {"stop_wait", "teardown"}
    /\ Open # NoTask =>
          \/ toChild = <<Frame("run", Open)>> /\ toParent = <<>> /\ Waits
          \/ /\ toChild = <<>> /\ toParent = <<>>
             /\ ChildLive => phase # "reading" /\ serving = Open
             /\ phase \in {"replying", "writing"} => ended[Open] = EndOf(reply)
          \/ /\ toChild = <<>> /\ Waits
             /\ \E k \in TargetStatus :
                   toParent = <<Frame(k, Open)>> /\ ended[Open] = EndOf(k)

(* What was reported is what happened.                                    *)
HonestInv ==
    \A t \in Tasks :
        /\ result[t] = "ok" => ended[t] = "returned"
        /\ result[t] = "exception" => ended[t] = "threw"

(* With one open request what is read from the socket is its answer.       *)
LEMMA AnswerIsOwn ==
    ASSUME TypeInv, SlotInv, InStep, pc = "recv_frame", toParent # <<>>
    PROVE  /\ current \in Tasks /\ Open = current
           /\ Head(toParent).id = current /\ Head(toParent).kind \in TargetStatus
           /\ ended[current] = EndOf(Head(toParent).kind)
           /\ Tail(toParent) = <<>> /\ toChild = <<>> /\ Waits
  <1>1. current \in Tasks /\ Open = current /\ Open # NoTask
    BY WorkerAssumption DEF SlotInv, ReceivePoints, Open
  <1>2. PICK k \in TargetStatus :
           toParent = <<Frame(k, Open)>> /\ ended[Open] = EndOf(k) /\ toChild = <<>> /\ Waits
    BY <1>1 DEF InStep
  <1>3. Head(toParent) = Frame(k, Open) /\ Tail(toParent) = <<>>
    BY <1>2, OneFrame
  <1>4. Frame(k, Open).id = Open /\ Frame(k, Open).kind = k
    BY DEF Frame
  <1> QED
    BY <1>1, <1>2, <1>3, <1>4

(* Steps that leave the channels alone and bring nothing alive.            *)
LEMMA InStepFrame ==
    ASSUME InStep, Open' = Open, UNCHANGED <<toChild, toParent, ended>>,
           \/ UNCHANGED <<phase, serving, reply>>
           \/ phase' \in {"none", "exiting", "zombie"},
           pc \in {"stop_wait", "teardown"} => pc' \in {"stop_wait", "teardown"}
    PROVE  InStep'
  <1>1. ChildLive' => ChildLive /\ UNCHANGED <<phase, serving, reply>>
    BY DEF ChildLive, LivePhases
  <1>2. Waits => Waits'
    BY <1>1 DEF Waits
  <1>3. phase' \in {"replying", "writing"} => UNCHANGED <<phase, reply>>
    OBVIOUS
  <1> QED
    BY <1>1, <1>2, <1>3 DEF InStep

(* A child that executes is executing the open request.                    *)
LEMMA ServingIsOpen ==
    ASSUME InStep, phase \in {"running", "replying", "writing"}
    PROVE  /\ Open # NoTask /\ serving = Open /\ toChild = <<>> /\ toParent = <<>>
           /\ phase \in {"replying", "writing"} => ended[Open] = EndOf(reply)
  BY DEF InStep, Waits, ChildLive, LivePhases

LEMMA InStepChild ==
    ASSUME TypeInv, InStep, MaxStray = 0, ChildStep PROVE InStep'
  <1>0. Open' = Open /\ pc' = pc
    BY DEF ChildStep, ChildRead, TargetEnds, BeginReply, EndReply, ReplyFails, TargetExits,
       ChildSignaled, ChildZombie, StrayWrite, object, control, Open
  <1>1. CASE ChildRead
    <2>1. CASE Open = NoTask
      <3>1. toChild = <<Frame("stop", NoTask)>> /\ pc \in {"stop_wait", "teardown"} /\ toParent = <<>>
        BY <1>1, <2>1 DEF ChildRead, InStep
      <3>2. Head(toChild).kind = "stop" /\ toChild' = <<>>
        BY <1>1, <3>1, OneFrame DEF ChildRead, Frame
      <3>3. phase' = "exiting" /\ toParent' = <<>>
        BY <1>1, <3>1, <3>2 DEF ChildRead, Dies
      <3> QED
        BY <1>0, <2>1, <3>2, <3>3 DEF InStep, Waits, ChildLive, LivePhases
    <2>2. CASE Open # NoTask
      <3>1. toChild = <<Frame("run", Open)>> /\ toParent = <<>>
        BY <1>1, <2>2 DEF ChildRead, InStep, ChildLive, LivePhases
      <3>2. Head(toChild).kind = "run" /\ Head(toChild).id = Open /\ toChild' = <<>>
        BY <1>1, <3>1, OneFrame DEF ChildRead, Frame
      <3>3. \/ phase' = "running" /\ serving' = Open
            \/ phase' = "exiting"
        BY <1>1, <3>2 DEF ChildRead, Dies
      <3>4. toParent' = <<>>
        BY <1>1, <3>1 DEF ChildRead
      <3> QED
        BY <1>0, <2>2, <3>2, <3>3, <3>4 DEF InStep, ChildLive, LivePhases
    <2> QED
      BY <2>1, <2>2
  <1>2. CASE TargetEnds
    <2>1. Open # NoTask /\ serving = Open /\ toChild = <<>> /\ toParent = <<>> /\ serving \in Tasks
      BY <1>2, ServingIsOpen DEF TargetEnds, TypeInv, Shapes
    <2>2. /\ phase' = "replying" /\ serving' = serving /\ toChild' = toChild /\ toParent' = toParent
          /\ reply' \in TargetStatus
          /\ ended' = [ended EXCEPT ![serving] = EndOf(reply')]
      BY <1>2 DEF TargetEnds, EndOf, channels
    <2>3. ended'[Open] = EndOf(reply')
      BY <2>1, <2>2 DEF TypeInv, TypeOK
    <2> QED
      BY <1>0, <2>1, <2>2, <2>3 DEF InStep
  <1>3. CASE BeginReply
    <2>1. Open # NoTask /\ serving = Open /\ toChild = <<>> /\ toParent = <<>>
          /\ ended[Open] = EndOf(reply)
      BY <1>3, ServingIsOpen DEF BeginReply
    <2>2. /\ phase' = "writing"
          /\ UNCHANGED <<serving, reply, toChild, toParent, ended>>
      BY <1>3 DEF BeginReply, channels, history
    <2> QED
      BY <1>0, <2>1, <2>2 DEF InStep
  <1>4. CASE EndReply
    <2>1. Open # NoTask /\ serving = Open /\ toChild = <<>> /\ toParent = <<>>
          /\ ended[Open] = EndOf(reply)
      BY <1>4, ServingIsOpen DEF EndReply
    <2>2. toParent' = <<Frame(reply, Open)>> /\ reply \in TargetStatus
      BY <1>4, <2>1, OneFrame DEF EndReply, TypeInv, TypeOK
    <2>3. phase' = "reading" /\ UNCHANGED <<toChild, ended>>
      BY <1>4 DEF EndReply
    <2> QED
      BY <1>0, <2>1, <2>2, <2>3 DEF InStep, Waits
  <1>5. CASE ReplyFails \/ TargetExits \/ ChildSignaled \/ ChildZombie
    BY <1>0, <1>5, InStepFrame
       DEF ReplyFails, TargetExits, ChildSignaled, ChildZombie, Dies, channels, history
  <1>6. CASE StrayWrite
    BY <1>6 DEF StrayWrite, TypeInv, TypeOK
  <1> QED
    BY <1>1, <1>2, <1>3, <1>4, <1>5, <1>6 DEF ChildStep

LEMMA InStepStep ==
    ASSUME TypeInv, OwnInv, SlotInv, InStep, MaxStray = 0, [Next]_vars, ~SendThrows
    PROVE  InStep'
  <1>1. CASE Spawn
    BY <1>1 DEF Spawn, InStep, Open, Waits, control
  <1>2. ASSUME NEW t \in Tasks, SendStart(t) PROVE InStep'
    BY <1>2, InStepFrame DEF SendStart, object, child, channels, history, Open
  <1>3. CASE SendWritten
    <2>1. Open = NoTask /\ Open' = outgoing /\ outgoing # NoTask
      BY <1>3, WorkerAssumption DEF SendWritten, Open, SlotInv, SendPoints, TypeInv, Shapes
    <2>2. toChild = <<>> /\ toParent = <<>> /\ Waits
      BY <1>3, <2>1 DEF SendWritten, InStep
    <2>3. toChild' = <<Frame("run", outgoing)>> /\ toParent' = <<>> /\ Waits'
      BY <1>3, <2>2, OneFrame DEF SendWritten, child, Waits, ChildLive
    <2> QED
      BY <2>1, <2>3 DEF InStep
  <1>18. CASE SendUnblocked
    <2>1. Open = NoTask /\ Open' = outgoing /\ outgoing # NoTask
      BY <1>18, WorkerAssumption DEF SendUnblocked, Open, SlotInv, SendPoints, TypeInv, Shapes
    <2>2. toParent = <<>> /\ Waits
      BY <1>18, <2>1 DEF SendUnblocked, InStep
    <2>3. toChild' = <<Frame("run", outgoing)>> /\ toParent' = <<>> /\ Waits'
      BY <1>18, <2>2 DEF SendUnblocked, child, Waits, ChildLive
    <2> QED
      BY <2>1, <2>3 DEF InStep
  <1>4. CASE SendBlocks \/ SendAccepted \/ SendFailed \/ SendUnserializable
    BY <1>4, InStepFrame DEF SendBlocks, SendAccepted, SendFailed, SendUnserializable, child,
       channels, object, history, Open
  <1>5. CASE DeadlinePasses \/ CallExpire \/ CallReceive
    BY <1>5, InStepFrame DEF DeadlinePasses, CallExpire, CallReceive, object, control, child,
       channels, history, Open
  <1>6. CASE ExpirePoll \/ ExpireGrace \/ ExpireKill
    BY <1>6, InStepFrame DEF ExpirePoll, ExpireGrace, ExpireKill, NotExpired, MoveOn, Break,
       object, child, channels, history, Open
  <1>7. ASSUME ReapAndBreak, pc # "sent" PROVE InStep'
    BY <1>7, InStepFrame DEF ReapAndBreak, Reap, Break, channels, history, Open
  <1>8. CASE ProbeExit
    <2>1. pc \notin {"sent", "stop_wait", "teardown"}
      BY <1>8 DEF ProbeExit, ProbePoints
    <2>2. CASE pc' = AfterProbe(pc) /\ MoveOn
      <3>1. pc' # "sent"
        BY <1>8, <2>2, AfterProbeType DEF ProbeExit
      <3> QED
        BY <2>1, <2>2, <3>1, InStepFrame DEF MoveOn, object, child, channels, history, Open
    <2> QED
      BY <1>7, <1>8, <2>1, <2>2 DEF ProbeExit
  <1>9. CASE RecvFrame
    <2>1. /\ Head(toParent).id = current /\ Head(toParent).kind \in TargetStatus
          /\ Tail(toParent) = <<>> /\ toChild = <<>> /\ Waits
      BY <1>9, AnswerIsOwn DEF RecvFrame
    <2>2. pc' = "ready" /\ current' = NoTask /\ toParent' = <<>> /\ UNCHANGED <<child, toChild>>
      BY <1>9, <2>1 DEF RecvFrame, FinishTask
    <2> QED
      BY <2>1, <2>2 DEF InStep, Open, Waits, ChildLive, child
  <1>10. CASE RecvGarbage
    BY <1>10, AnswerIsOwn DEF RecvGarbage, TargetStatus
  <1>11. CASE RecvTimeout \/ RecvEof
    BY <1>11, InStepFrame DEF RecvTimeout, RecvEof, Break, object, child, channels, history, Open
  <1>12. CASE RecvExit
    <2>1. CASE ReapAndBreak
      BY <1>7, <1>12, <2>1 DEF RecvExit
    <2>2. CASE Break(verdict) /\ UNCHANGED <<pid, fd, current, expired, inReceive, outgoing, child,
                                             channels, history>>
      BY <1>12, <2>2, InStepFrame DEF RecvExit, Break, child, channels, history, Open
    <2> QED
      BY <1>12, <2>1, <2>2 DEF RecvExit
  <1>13. CASE Stop
    <2>1. CASE toChild' = toChild
      BY <1>13, <2>1, InStepFrame DEF Stop, object, child, channels, history, Open
    <2>2. CASE toChild' # toChild
      <3>1. Open = NoTask /\ Open' = NoTask /\ pc = "ready" /\ pc' = "stop_wait"
            /\ toChild' = Append(toChild, Frame("stop", NoTask))
        BY <1>13, <2>2 DEF Stop, Open, SlotInv, object
      <3>2. toChild = <<>> /\ toParent = <<>> /\ Waits
        BY <3>1 DEF InStep
      <3>3. toChild' = <<Frame("stop", NoTask)>> /\ toParent' = <<>> /\ Waits'
        BY <1>13, <3>1, <3>2, OneFrame DEF Stop, child, Waits, ChildLive
      <3> QED
        BY <3>1, <3>3 DEF InStep
    <2> QED
      BY <2>1, <2>2
  <1>14. CASE StopWait
    BY <1>14, InStepFrame DEF StopWait, Reap, child, channels, history, Open
  <1>15. CASE Teardown
    <2>1. phase' = "none"
      BY <1>15 DEF Teardown, OwnInv, ProcessOwned
    <2> QED
      BY <1>15, <2>1 DEF Teardown, InStep, Open, Waits, ChildLive, LivePhases
  <1>16. CASE ChildStep
    BY <1>16, InStepChild
  <1>17. CASE UNCHANGED vars
    BY <1>17, InStepFrame DEF vars, object, control, child, channels, history, Open
  <1> QED
    BY <1>1, <1>2, <1>3, <1>4, <1>5, <1>6, <1>8, <1>9, <1>10, <1>11, <1>12, <1>13, <1>14,
       <1>15, <1>16, <1>17, <1>18 DEF Next, ParentStep, ParentCall

-----------------------------------------------------------------------------
(* A child with a stranded request works that one off first: what it holds *)
(* are stranded requests and the one in flight, and until the parent gives *)
(* the child up the first frame it can get is the answer to a stranded one.*)
FirstIsStranded ==
    /\ toParent # <<>> => Stranded(Head(toParent).id)
    /\ toParent = <<>> /\ phase \in {"running", "replying", "writing"} => Stranded(serving)
    /\ toParent = <<>> /\ phase = "reading" =>
          toChild # <<>> /\ IsRun(Head(toChild)) /\ Stranded(Head(toChild).id)

HeldInv ==
    /\ \A i \in 1..Len(toChild) :
          IsRun(toChild[i]) => Stranded(toChild[i].id) \/ toChild[i].id = Open
    /\ phase \in {"running", "replying", "writing"} => Stranded(serving) \/ serving = Open
    /\ pc \notin {"recv_exit", "teardown"} => FirstIsStranded

(* What taking from one end and adding to the other does to a channel.     *)
LEMMA HeadOfAppend ==
    ASSUME NEW S, NEW q \in Seq(S), NEW f \in S
    PROVE  /\ Append(q, f) # <<>>
           /\ q # <<>> => Head(Append(q, f)) = Head(q)
           /\ q = <<>> => Head(Append(q, f)) = f
  OBVIOUS

LEMMA OfAppend ==
    ASSUME NEW S, NEW q \in Seq(S), NEW f \in S
    PROVE  /\ Append(q, f) \in Seq(S) /\ Len(Append(q, f)) = Len(q) + 1
           /\ \A i \in 1..Len(Append(q, f)) :
                 \/ i \in 1..Len(q) /\ Append(q, f)[i] = q[i]
                 \/ Append(q, f)[i] = f
  OBVIOUS

LEMMA OfTail ==
    ASSUME NEW S, NEW q \in Seq(S), q # <<>>
    PROVE  /\ 1 \in 1..Len(q) /\ Head(q) = q[1]
           /\ \A i \in 1..Len(Tail(q)) : i + 1 \in 1..Len(q) /\ Tail(q)[i] = q[i + 1]
  OBVIOUS

(* Steps that leave the channels alone and bring nothing alive.            *)
LEMMA HeldFrame ==
    ASSUME HeldInv, UNCHANGED <<stranded, toChild, toParent>>,
           current' = current /\ pc # "sent" /\ pc' # "sent",
           \/ UNCHANGED <<phase, serving>>
           \/ phase' \in {"none", "exiting", "zombie"},
           pc \in {"recv_exit", "teardown"} => pc' \in {"recv_exit", "teardown"}
    PROVE  HeldInv'
  <1>1. Open' = Open
    BY DEF Open
  <1>2. \A t : Stranded(t)' <=> Stranded(t)
    BY DEF Stranded
  <1> QED
    BY <1>1, <1>2 DEF HeldInv, FirstIsStranded, Stranded

(* A request that is added behind the others.                              *)
LEMMA HeldAppend ==
    ASSUME TypeInv, HeldInv, FirstIsStranded, NEW f \in Requests, toChild' = Append(toChild, f),
           UNCHANGED <<stranded, toParent, phase, serving>>,
           IsRun(f) => f.id = Open',
           Open = NoTask \/ Open' = Open
    PROVE  HeldInv'
  <1>0. toChild \in Seq(Requests)
    BY DEF TypeInv, TypeOK
  <1>1. FirstIsStranded'
    <2>1. toChild # <<>> => toChild' # <<>> /\ Head(toChild') = Head(toChild)
      BY <1>0, HeadOfAppend
    <2> QED
      BY <2>1 DEF FirstIsStranded, Stranded
  <1>2. ASSUME NEW t \in Tasks, t = Open PROVE t = Open'
    BY <1>2, WorkerAssumption
  <1>3. \A i \in 1..Len(toChild') :
           IsRun(toChild'[i]) => Stranded(toChild'[i].id) \/ toChild'[i].id = Open'
    <2> SUFFICES ASSUME NEW i \in 1..Len(toChild'), IsRun(toChild'[i])
                 PROVE  Stranded(toChild'[i].id) \/ toChild'[i].id = Open'
      OBVIOUS
    <2>1. CASE i \in 1..Len(toChild) /\ toChild'[i] = toChild[i]
      <3>1. toChild[i] \in Requests
        BY <1>0, <2>1
      <3>2. toChild[i].id \in Tasks
        BY <2>1, <3>1, RunFrame
      <3> QED
        BY <1>2, <2>1, <3>2 DEF HeldInv
    <2>2. CASE toChild'[i] = f
      BY <2>2
    <2> QED
      BY <1>0, <2>1, <2>2, OfAppend
  <1>4. phase \in {"running", "replying", "writing"} => Stranded(serving) \/ serving = Open'
    BY <1>2 DEF HeldInv, TypeInv, Shapes
  <1> QED
    BY <1>1, <1>3, <1>4 DEF HeldInv, Stranded

LEMMA HeldChild ==
    ASSUME TypeInv, HeldInv, MaxStray = 0, ChildStep PROVE HeldInv'
  <1>0. /\ Open' = Open /\ pc' = pc /\ stranded' = stranded
        /\ toChild \in Seq(Requests) /\ toParent \in Seq(StrayFrames)
    BY DEF ChildStep, ChildRead, TargetEnds, BeginReply, EndReply, ReplyFails, TargetExits,
       ChildSignaled, ChildZombie, StrayWrite, object, control, history, Open, TypeInv, TypeOK
  <1>1. CASE ChildRead
    <2> DEFINE f == Head(toChild)
    <2>1. /\ toChild # <<>> /\ toChild' = Tail(toChild) /\ toParent' = toParent
          /\ phase = "reading" /\ f = toChild[1] /\ 1 \in 1..Len(toChild)
      BY <1>0, <1>1, OfTail DEF ChildRead
    <2>2. \A i \in 1..Len(toChild') :
             IsRun(toChild'[i]) => Stranded(toChild'[i].id) \/ toChild'[i].id = Open
      <3> SUFFICES ASSUME NEW i \in 1..Len(toChild'), IsRun(toChild'[i])
                   PROVE  Stranded(toChild'[i].id) \/ toChild'[i].id = Open
        OBVIOUS
      <3>1. i + 1 \in 1..Len(toChild) /\ toChild'[i] = toChild[i + 1]
        BY <1>0, <2>1, OfTail
      <3> QED
        BY <3>1 DEF HeldInv
    <2>3. \/ phase' = "running" /\ serving' = f.id /\ IsRun(f)
          \/ phase' = "exiting"
      BY <1>1 DEF ChildRead, Dies, IsRun
    <2>4. IsRun(f) => Stranded(f.id) \/ f.id = Open
      BY <2>1 DEF HeldInv
    <2> HIDE DEF f
    <2>5. pc \notin {"recv_exit", "teardown"} => FirstIsStranded'
      <3>1. pc \notin {"recv_exit", "teardown"} /\ toParent = <<>> => Stranded(f.id)
        BY <2>1 DEF HeldInv, FirstIsStranded, f
      <3>2. pc \notin {"recv_exit", "teardown"} /\ toParent # <<>> => Stranded(Head(toParent).id)
        BY DEF HeldInv, FirstIsStranded
      <3> QED
        BY <1>0, <2>1, <2>3, <3>1, <3>2 DEF FirstIsStranded, Stranded
    <2> QED
      BY <1>0, <2>2, <2>3, <2>4, <2>5 DEF HeldInv, Stranded
  <1>2. CASE TargetEnds \/ BeginReply
    <2>1. /\ phase \in {"running", "replying"} /\ phase' \in {"replying", "writing"}
          /\ UNCHANGED <<serving, toChild, toParent>>
      BY <1>2 DEF TargetEnds, BeginReply, channels
    <2> QED
      BY <1>0, <2>1 DEF HeldInv, FirstIsStranded, Stranded
  <1>3. CASE EndReply
    <2> DEFINE f == Frame(reply, serving)
    <2>1. f \in StrayFrames /\ f.id = serving
      BY <1>3 DEF EndReply, Frame, StrayFrames, TypeInv, TypeOK, Shapes, TargetStatus
    <2>2. /\ phase = "writing" /\ phase' = "reading" /\ toChild' = toChild
          /\ toParent' = Append(toParent, f)
      BY <1>3 DEF EndReply
    <2> HIDE DEF f
    <2>3. toParent' # <<>>
          /\ Head(toParent') = IF toParent = <<>> THEN f ELSE Head(toParent)
      BY <1>0, <2>1, <2>2, HeadOfAppend
    <2>4. FirstIsStranded => FirstIsStranded'
      BY <1>0, <2>1, <2>2, <2>3 DEF FirstIsStranded, Stranded
    <2> QED
      BY <1>0, <2>2, <2>4 DEF HeldInv, Stranded
  <1>4. CASE ReplyFails \/ TargetExits \/ ChildSignaled \/ ChildZombie
    <2>1. phase' \in {"exiting", "zombie"} /\ UNCHANGED <<toChild, toParent>>
      BY <1>4 DEF ReplyFails, TargetExits, ChildSignaled, ChildZombie, Dies, channels
    <2> QED
      BY <1>0, <2>1 DEF HeldInv, FirstIsStranded, Stranded
  <1>5. CASE StrayWrite
    BY <1>5 DEF StrayWrite, TypeInv, TypeOK
  <1> QED
    BY <1>1, <1>2, <1>3, <1>4, <1>5 DEF ChildStep

(* A stranded request is answered to nobody: its frame breaks the slot.    *)
LEMMA StrayAnswerBreaks ==
    ASSUME TypeInv, SlotInv, HeldInv, RecvFrame
    PROVE  /\ pc' = "teardown" /\ UNCHANGED <<current, result>>
  <1>1. current \in accepted /\ Stranded(Head(toParent).id)
    BY DEF RecvFrame, SlotInv, ReceivePoints, HeldInv, FirstIsStranded
  <1>2. Head(toParent).id \in Tasks
    <2>1. Head(toParent) \in StrayFrames
      BY ChannelType DEF RecvFrame, TypeInv, TypeOK
    <2> QED
      BY <2>1 DEF StrayFrames
  <1>3. Head(toParent).id # current
    BY <1>1, <1>2 DEF SlotInv
  <1> QED
    BY <1>3 DEF RecvFrame, FinishTask, Break

LEMMA HeldStep ==
    ASSUME TypeInv, OwnInv, SlotInv, HeldInv, MaxStray = 0, UNCHANGED <<stranded, spawns>>,
           [Next]_vars
    PROVE  HeldInv'
  <1>0. toChild \in Seq(Requests) /\ toParent \in Seq(StrayFrames)
    BY DEF TypeInv, TypeOK
  <1>1. CASE Spawn
    BY <1>1 DEF Spawn, TypeInv, TypeOK
  <1>2. ASSUME NEW t \in Tasks, SendStart(t) PROVE HeldInv'
    BY <1>2, HeldFrame DEF SendStart, object, child, channels
  <1>3. CASE SendWritten \/ SendUnblocked
    <2>1. Frame("run", outgoing) \in Requests /\ Frame("run", outgoing).id = outgoing
      BY <1>3 DEF SendWritten, SendUnblocked, Requests, Frame, TypeInv, Shapes
    <2>2. toChild' = Append(toChild, Frame("run", outgoing))
      <3>1. CASE SendWritten
        BY <3>1 DEF SendWritten
      <3>2. CASE SendUnblocked
        BY <3>2, OneFrame DEF SendUnblocked
      <3> QED
        BY <1>3, <3>1, <3>2
    <2>3. Open = NoTask /\ Open' = outgoing /\ FirstIsStranded
      BY <1>3 DEF SendWritten, SendUnblocked, SlotInv, SendPoints, Open, HeldInv
    <2> QED
      BY <1>3, <2>1, <2>2, <2>3, HeldAppend DEF SendWritten, SendUnblocked, child, history
  <1>4. CASE SendAccepted
    <2>1. Open' = Open /\ UNCHANGED <<phase, serving, toChild, toParent>>
      BY <1>4 DEF SendAccepted, Open, child, channels
    <2> QED
      BY <1>4, <2>1 DEF SendAccepted, HeldInv, FirstIsStranded, Stranded
  <1>5. CASE SendBlocks \/ SendFailed \/ SendUnserializable
    BY <1>5, HeldFrame DEF SendBlocks, SendFailed, SendUnserializable, child, channels, object, history
  <1>6. CASE DeadlinePasses
    <2>1. Open' = Open /\ UNCHANGED <<pc, phase, serving, toChild, toParent>>
      BY <1>6 DEF DeadlinePasses, Open, control, child, channels
    <2> QED
      BY <2>1 DEF HeldInv, FirstIsStranded, Stranded
  <1>7. CASE CallExpire \/ CallReceive
    BY <1>7, HeldFrame DEF CallExpire, CallReceive, object, child, channels
  <1>8. CASE ExpirePoll \/ ExpireGrace \/ ExpireKill
    BY <1>8, HeldFrame DEF ExpirePoll, ExpireGrace, ExpireKill, NotExpired, MoveOn, Break,
       object, child, channels
  <1>9. ASSUME ReapAndBreak, pc # "sent" PROVE HeldInv'
    BY <1>9, HeldFrame DEF ReapAndBreak, Reap, Break, channels
  <1>10. CASE ProbeExit
    <2>1. pc \notin {"sent", "recv_exit", "teardown"}
      BY <1>10 DEF ProbeExit, ProbePoints
    <2>2. CASE pc' = AfterProbe(pc) /\ MoveOn
      <3>1. pc' # "sent"
        BY <1>10, <2>2, AfterProbeType DEF ProbeExit
      <3> QED
        BY <2>1, <2>2, <3>1, HeldFrame DEF MoveOn, object, child, channels
    <2> QED
      BY <1>9, <1>10, <2>1, <2>2 DEF ProbeExit
  <1>11. CASE RecvFrame
    <2>1. pc = "recv_frame" /\ pc' = "teardown" /\ current' = current
      BY <1>11, StrayAnswerBreaks DEF RecvFrame
    <2>2. Open' = Open /\ UNCHANGED <<phase, serving, toChild>>
      BY <1>11, <2>1 DEF RecvFrame, child, Open
    <2> QED
      BY <2>1, <2>2 DEF HeldInv, Stranded
  <1>12. CASE RecvGarbage
    <2>1. pc = "recv_frame" /\ pc' \in {"recv_exit", "teardown"} /\ current' = current
      BY <1>12 DEF RecvGarbage, Break
    <2>2. Open' = Open /\ UNCHANGED <<phase, serving, toChild>>
      BY <1>12, <2>1 DEF RecvGarbage, child, Open
    <2> QED
      BY <2>1, <2>2 DEF HeldInv, Stranded
  <1>13. CASE RecvTimeout \/ RecvEof
    BY <1>13, HeldFrame DEF RecvTimeout, RecvEof, Break, object, child, channels
  <1>14. CASE RecvExit
    <2>1. CASE ReapAndBreak
      BY <1>9, <1>14, <2>1 DEF RecvExit
    <2>2. CASE Break(verdict) /\ UNCHANGED <<pid, fd, current, expired, inReceive, outgoing, child,
                                             channels, history>>
      BY <1>14, <2>2, HeldFrame DEF RecvExit, Break, child, channels
    <2> QED
      BY <1>14, <2>1, <2>2 DEF RecvExit
  <1>15. CASE Stop
    <2>1. CASE toChild' = toChild
      BY <1>15, <2>1, HeldFrame DEF Stop, object, child
    <2>2. CASE toChild' = Append(toChild, Frame("stop", NoTask))
      <3>1. Frame("stop", NoTask) \in Requests /\ ~IsRun(Frame("stop", NoTask))
        BY DEF Requests, Frame, IsRun
      <3>2. Open' = Open /\ FirstIsStranded
        BY <1>15 DEF Stop, Open, object, HeldInv
      <3> QED
        BY <1>15, <2>2, <3>1, <3>2, HeldAppend DEF Stop, child
    <2> QED
      BY <1>15, <2>1, <2>2 DEF Stop
  <1>16. CASE StopWait
    BY <1>16, HeldFrame DEF StopWait, Reap, child, channels
  <1>17. CASE Teardown
    <2>1. phase' = "none" /\ toChild' = <<>> /\ toParent' = <<>>
      BY <1>17 DEF Teardown, OwnInv, ProcessOwned
    <2> QED
      BY <2>1 DEF HeldInv, FirstIsStranded
  <1>18. CASE SendThrows
    <2>1. stranded'[outgoing] = spawns /\ ~Stranded(outgoing) /\ spawns # 0
      BY <1>18 DEF SendThrows, TypeInv, TypeOK, Shapes, SlotInv, OwnInv, ProcessOwned
    <2> QED
      BY <2>1 DEF Stranded
  <1>19. CASE ChildStep
    BY <1>19, HeldChild
  <1>20. CASE UNCHANGED vars
    BY <1>20 DEF vars, object, control, child, channels, history, HeldInv, FirstIsStranded,
       Stranded, Open
  <1> QED
    BY <1>1, <1>2, <1>3, <1>4, <1>5, <1>6, <1>7, <1>8, <1>10, <1>11, <1>12, <1>13, <1>14,
       <1>15, <1>16, <1>17, <1>18, <1>19, <1>20 DEF Next, ParentStep, ParentCall

(* Both kinds of children: one that is in step and one that owes a strayed *)
(* answer; a send() that throws turns the first into the second.           *)
ChildInv ==
    /\ ~OwesStray => InStep
    /\ OwesStray => HeldInv

LEMMA ThrowsStrands ==
    ASSUME TypeInv, OwnInv, SlotInv, ChildInv, SendThrows PROVE ChildInv'
  <1>0. /\ outgoing \in Tasks /\ Open = outgoing /\ Open # NoTask /\ Open' = current
        /\ UNCHANGED <<toChild, toParent, phase, serving>>
        /\ pc = "sent" /\ pc' = "ready" /\ spawns # 0 /\ spawns' = spawns
    BY WorkerAssumption DEF SendThrows, TypeInv, Shapes, Open, channels, child, OwnInv,
       ProcessOwned, object
  <1>1. /\ stranded'[outgoing] = spawns
        /\ \A t \in Tasks : t # outgoing => stranded'[t] = stranded[t]
    BY <1>0 DEF SendThrows, TypeInv, TypeOK
  <1>2. OwesStray' /\ stranded'[outgoing] # 0
    BY <1>0, <1>1 DEF OwesStray, Stranded
  <1>3. \A t \in Tasks : Stranded(t) \/ t = outgoing => stranded'[t] # 0
    BY <1>1, <1>2 DEF Stranded
  <1>4. /\ toChild \in Seq(Requests) /\ toParent \in Seq(StrayFrames)
        /\ phase \in {"running", "replying", "writing"} => serving \in Tasks
    BY DEF TypeInv, TypeOK, Shapes
  <1>5. CASE ~OwesStray
    <2>1. InStep
      BY <1>5 DEF ChildInv
    <2>2. CASE toChild = <<Frame("run", Open)>> /\ toParent = <<>> /\ Waits
      <3>1. Len(toChild) = 1 /\ toChild[1] = Frame("run", Open) /\ Head(toChild) = Frame("run", Open)
            /\ toChild # <<>>
        BY <2>2
      <3>2. Frame("run", Open).id = outgoing /\ IsRun(Frame("run", Open))
        BY <1>0 DEF Frame, IsRun
      <3>3. \A i \in 1..Len(toChild) : i = 1
        BY <3>1
      <3>4. phase \notin {"running", "replying", "writing"}
        BY <2>2 DEF Waits, ChildLive, LivePhases
      <3> QED
        BY <1>0, <1>2, <2>2, <3>1, <3>2, <3>3, <3>4 DEF ChildInv, HeldInv, FirstIsStranded, Stranded
    <2>3. CASE /\ toChild = <<>> /\ toParent = <<>>
               /\ ChildLive => phase # "reading" /\ serving = Open
      <3>1. Len(toChild) = 0 /\ phase # "reading"
        BY <2>3 DEF ChildLive, LivePhases
      <3>2. phase \in {"running", "replying", "writing"} => serving = outgoing
        BY <1>0, <2>3 DEF ChildLive, LivePhases
      <3> QED
        BY <1>0, <1>2, <2>3, <3>1, <3>2 DEF ChildInv, HeldInv, FirstIsStranded, Stranded
    <2>4. ASSUME NEW k \in TargetStatus, toParent = <<Frame(k, Open)>>, toChild = <<>>, Waits
          PROVE  ChildInv'
      <3>1. toParent # <<>> /\ Head(toParent).id = outgoing /\ Len(toChild) = 0
        BY <1>0, <2>4, OneFrame DEF Frame
      <3>2. phase \notin {"running", "replying", "writing"}
        BY <2>4 DEF Waits, ChildLive, LivePhases
      <3> QED
        BY <1>0, <1>2, <3>1, <3>2 DEF ChildInv, HeldInv, FirstIsStranded, Stranded
    <2> QED
      BY <1>0, <2>1, <2>2, <2>3, <2>4 DEF InStep
  <1>6. CASE OwesStray
    <2>1. HeldInv /\ FirstIsStranded
      BY <1>0, <1>6 DEF ChildInv, HeldInv
    <2>2. \A i \in 1..Len(toChild) : IsRun(toChild[i]) => toChild[i].id \in Tasks
      <3> SUFFICES ASSUME NEW i \in 1..Len(toChild), IsRun(toChild[i])
                   PROVE  toChild[i].id \in Tasks
        OBVIOUS
      <3>1. toChild[i] \in Requests
        BY <1>4
      <3> QED
        BY <3>1, RunFrame
    <2>3. toParent # <<>> => Head(toParent).id \in Tasks
      <3>1. toParent # <<>> => Head(toParent) \in StrayFrames
        BY <1>4, ChannelType
      <3> QED
        BY <3>1 DEF StrayFrames
    <2>4. \A i \in 1..Len(toChild') : IsRun(toChild'[i]) => stranded'[toChild'[i].id] # 0
      BY <1>0, <1>3, <2>1, <2>2 DEF HeldInv
    <2>5. phase' \in {"running", "replying", "writing"} => stranded'[serving'] # 0
      BY <1>0, <1>3, <1>4, <2>1 DEF HeldInv
    <2>6. toParent' # <<>> => stranded'[Head(toParent').id] # 0
      BY <1>0, <1>3, <2>1, <2>3 DEF FirstIsStranded
    <2>7. toParent' = <<>> /\ phase' = "reading" => toChild' # <<>> /\ IsRun(Head(toChild'))
      BY <1>0, <2>1 DEF FirstIsStranded
    <2>8. toChild' # <<>> => Head(toChild') = toChild'[1] /\ 1 \in 1..Len(toChild')
      BY <1>0, <1>4, OfTail
    <2> QED
      BY <1>2, <2>4, <2>5, <2>6, <2>7, <2>8 DEF ChildInv, HeldInv, FirstIsStranded, Stranded
  <1> QED
    BY <1>5, <1>6

LEMMA ChildInvStep ==
    ASSUME TypeInv, OwnInv, SlotInv, ChildInv, MaxStray = 0, [Next]_vars PROVE ChildInv'
  <1>1. CASE Spawn
    <2>1. \A t \in Tasks : stranded'[t] <= spawns /\ spawns' = spawns + 1
      BY <1>1 DEF Spawn, SlotInv
    <2>2. ~OwesStray'
      BY <2>1 DEF OwesStray, TypeInv, TypeOK
    <2>3. InStep'
      BY <1>1 DEF Spawn, InStep, Open, Waits, control
    <2> QED
      BY <2>2, <2>3 DEF ChildInv
  <1>2. CASE SendThrows
    BY <1>2, ThrowsStrands
  <1>3. CASE ~Spawn /\ ~SendThrows
    <2>1. UNCHANGED <<stranded, spawns>>
      BY <1>3 DEF Next, ParentStep, ParentCall, ChildStep, vars, history,
       SendStart, SendWritten, SendBlocks, SendUnblocked, SendAccepted, SendFailed,
       SendUnserializable, DeadlinePasses, CallExpire, CallReceive, ExpirePoll, ProbeExit,
       ReapAndBreak, MoveOn, ExpireGrace, ExpireKill, RecvFrame, RecvGarbage, RecvTimeout, RecvEof,
       RecvExit, Stop, StopWait, Teardown, ChildRead, TargetEnds, BeginReply, EndReply, ReplyFails,
       TargetExits, ChildSignaled, ChildZombie, StrayWrite
    <2>2. OwesStray' <=> OwesStray
      BY <2>1 DEF OwesStray, Stranded
    <2> QED
      BY <1>3, <2>1, <2>2, InStepStep, HeldStep DEF ChildInv
  <1> QED
    BY <1>1, <1>2, <1>3

LEMMA HonestStep ==
    ASSUME TypeInv, SlotInv, ChildInv, HonestInv, [Next]_vars PROVE HonestInv'
  <1> USE DEF HonestInv
  <1>0. result \in [Tasks -> IsolatedStatus \cup {"none"}]
        /\ ended \in [Tasks -> {"none", "returned", "threw"}]
    BY DEF TypeInv, TypeOK
  <1>1. CASE RecvFrame
    <2>1. CASE OwesStray
      <3>1. UNCHANGED <<result, ended>>
        BY <1>1, <2>1, StrayAnswerBreaks DEF RecvFrame, ChildInv
      <3> QED
        BY <3>1
    <2>2. CASE ~OwesStray
      <3> DEFINE k == Head(toParent).kind
      <3>1. /\ current \in Tasks /\ Head(toParent).id = current /\ k \in TargetStatus
            /\ ended[current] = EndOf(k)
        BY <1>1, <2>2, AnswerIsOwn DEF RecvFrame, ChildInv
      <3>2. \A t \in Tasks : result'[t] = IF t = current THEN k ELSE result[t]
        BY <1>0, <1>1, <3>1 DEF RecvFrame, FinishTask
      <3>3. ended' = ended
        BY <1>1 DEF RecvFrame
      <3> QED
        BY <3>1, <3>2, <3>3 DEF EndOf, TargetStatus
    <2> QED
      BY <2>1, <2>2
  <1>2. CASE Teardown
    <2>1. \A t \in Tasks : result'[t] \in TargetStatus => result'[t] = result[t]
      BY <1>0, <1>2 DEF Teardown, SlotInv
    <2> QED
      BY <1>2, <2>1 DEF Teardown, TargetStatus
  \* the target can only end a task that has no result yet
  <1>3. CASE TargetEnds
    <2>1. serving \in Tasks /\ (Stranded(serving) \/ serving = Open)
      BY <1>3, ServingIsOpen DEF TargetEnds, TypeInv, Shapes, ChildInv, HeldInv
    <2>2. result[serving] = "none"
      BY <2>1 DEF Open, SlotInv
    <2>3. \A t \in Tasks : t # serving => ended'[t] = ended[t]
      BY <1>0, <1>3 DEF TargetEnds
    <2>4. result' = result
      BY <1>3 DEF TargetEnds
    <2> QED
      BY <2>2, <2>3, <2>4
  <1>4. CASE UNCHANGED <<result, ended>>
    BY <1>4
  <1>5. RecvFrame \/ Teardown \/ TargetEnds \/ UNCHANGED <<result, ended>>
    BY DEF Next, ParentStep, ParentCall, ChildStep, vars, history,
       Spawn, SendStart, SendWritten, SendBlocks, SendUnblocked, SendAccepted, SendThrows,
       SendFailed, SendUnserializable,
       DeadlinePasses, CallExpire, CallReceive, ExpirePoll, ProbeExit, ReapAndBreak, MoveOn,
       ExpireGrace, ExpireKill, RecvGarbage, RecvTimeout, RecvEof, RecvExit, Stop, StopWait,
       ChildRead, BeginReply, EndReply, ReplyFails, TargetExits, ChildSignaled, ChildZombie, StrayWrite
  <1> QED
    BY <1>1, <1>2, <1>3, <1>4, <1>5

LEMMA ChildInvariant == ASSUME MaxStray = 0 PROVE Spec => [](ChildInv /\ HonestInv)
  <1>1. Init => ChildInv /\ HonestInv
    BY DEF Init, ChildInv, OwesStray, Stranded, InStep, HonestInv, Open, Waits, ChildLive, LivePhases
  <1>2. Spec => []OwnInv
    BY OwnInit, OwnStep, TypeInvariant, PTL DEF Spec
  <1>3. TypeInv /\ OwnInv /\ SlotInv /\ ChildInv /\ HonestInv /\ [Next]_vars
        => (ChildInv /\ HonestInv)'
    BY ChildInvStep, HonestStep
  <1> QED
    BY <1>1, <1>2, <1>3, TypeInvariant, SlotInvariant, PTL DEF Spec

(* A target that keeps its hands off the socket is reported as it behaved,  *)
(* whatever exit codes, signals, timeouts, deaths and strayed requests      *)
(* happened around it.                                                      *)
THEOREM ReportsAreHonest == ASSUME MaxStray = 0 PROVE Spec => []HonestOutcome
  <1>1. HonestInv /\ CrashInv => HonestOutcome
    BY DEF HonestInv, CrashInv, HonestOutcome
  <1> QED
    BY <1>1, ChildInvariant, CrashInvariant, PTL

(* A slot that is offered the next task has nothing in either direction of  *)
(* its socket and a child that is not executing; the child may be dead, and *)
(* the case of a send() that threw after the delivery is excepted.          *)
THEOREM IdleChildInSync == ASSUME MaxStray = 0 PROVE Spec => []IdleInSync
  <1>1. SlotInv /\ ChildInv => IdleInSync
    BY DEF SlotInv, ChildInv, InStep, IdleInSync, Open, Waits
  <1> QED
    BY <1>1, ChildInvariant, SlotInvariant, PTL
=============================================================================
