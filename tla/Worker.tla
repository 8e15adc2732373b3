------------------------------- MODULE Worker -------------------------------
(***************************************************************************)
(* One slot of the pool: the parent-side worker object (worker/worker.hpp),*)
(* the child process running child_loop(), the socket pair between them    *)
(* and the process table entry that waitpid() reads.                       *)
(*                                                                         *)
(* A method of the parent is a chain of steps (pc), one per system call    *)
(* whose outcome the child can influence; the child moves between any two. *)
(* Channels hold whole frames: a partly written request never reaches      *)
(* child_loop, and a partly written answer is phase = "writing".           *)
(***************************************************************************)
EXTENDS Naturals, Sequences

CONSTANTS Tasks,        \* task identifiers
          NoTask,       \* "no task"
          MaxSpawns,    \* bound: processes ever forked for this slot
          MaxStray,     \* bound: frames the target itself writes to the socket
          HasDeadline   \* task_timeout is set

ASSUME WorkerAssumption ==
    /\ NoTask \notin Tasks
    /\ MaxSpawns \in Nat
    /\ MaxStray \in Nat
    /\ HasDeadline \in BOOLEAN

VARIABLES
    \* the worker object
    state,      \* m_state
    pid,        \* m_pid: number of the fork that made the child, 0 for -1
    fd,         \* m_fd >= 0
    current,    \* m_current_task
    expired,    \* the deadline of m_current_task has passed
    \* where the running method of the worker object is
    pc,
    inReceive,  \* expire_if_timed_out() was called from receive()
    outgoing,   \* the task send() is delivering
    verdict,    \* status of the result being built, "none" if there is none
    \* the child process
    phase,      \* "none", live phases, "exiting" (socket closed), "zombie"
    wstatus,    \* how it terminated
    serving,    \* the request it is executing
    reply,      \* the answer it is sending
    toChild,    \* frames in the socket, parent to child
    toParent,   \* frames in the socket, child to parent
    \* history, read by no action of the code
    spawns, strays,
    accepted,   \* tasks for which send() returned accepted
    stranded,   \* stranded[t]: the child that got t from a send() that threw, or 0
    runs,       \* runs[t]: how often the target was entered with t
    ended,      \* how the target left t: "none", "returned", "threw"
    written,    \* every frame ever put on the socket for the parent
    killedWith, \* tasks in flight when the child died of a signal
    result,     \* result[t]: status returned to the pool, or "none"
    endSeen     \* something was readable when the running method was called

object   == <<state, pid, fd, current, expired>>
control  == <<pc, inReceive, outgoing, verdict>>
child    == <<phase, wstatus, serving, reply>>
channels == <<toChild, toParent>>
history  == <<spawns, strays, accepted, stranded, runs, ended, written, killedWith, result,
              endSeen>>
vars     == <<object, control, child, channels, history>>

-----------------------------------------------------------------------------
TargetStatus   == {"ok", "exception"}
IsolatedStatus == TargetStatus \cup
                  {"crash", "timeout", "protocol_error", "ipc_error", "internal_error"}

ExitCodes  == {"exit_ok", "exit_protocol", "exit_ipc", "exit_internal", "exit_other"}
WaitStatus == {"signaled"} \cup ExitCodes

LivePhases == {"reading", "running", "replying", "writing"}
ChildLive  == phase \in LivePhases

(* Mutant: a clean exit() of the child is taken for success. *)
StatusOf_CleanExitIsOk(w) ==
    CASE w = "signaled" -> "crash"
      [] w = "exit_ok"  -> "ok"
      [] OTHER          -> "internal_error"

(* make_result_from_wait_status() *)
StatusOf(w) ==
    CASE w = "signaled"      -> "crash"
      [] w = "exit_ok"       -> "ipc_error"
      [] w = "exit_protocol" -> "protocol_error"
      [] w = "exit_ipc"      -> "ipc_error"
      [] w = "exit_internal" -> "internal_error"
      [] w = "exit_other"    -> "internal_error"

Frame(k, t) == [kind |-> k, id |-> t]
Requests    == {Frame("run", t) : t \in Tasks} \cup {Frame("stop", NoTask)}

(* What poll() reports on the parent's descriptor: bytes or a hang-up.     *)
PeerClosed == phase \in {"exiting", "zombie", "none"}
Readable   == toParent # <<>> \/ phase = "writing" \/ PeerClosed

InFlight(t) == current = t \/ (pc = "sent" /\ outgoing = t)

(* send() left t with a child without marking it in flight; with this one. *)
Stranded(t) == stranded[t] # 0
OwesStray   == \E t \in Tasks : Stranded(t) /\ stranded[t] = spawns

-----------------------------------------------------------------------------
Init ==
    /\ state = "stopped" /\ pid = 0 /\ fd = FALSE
    /\ current = NoTask /\ expired = FALSE
    /\ pc = "ready" /\ inReceive = FALSE /\ outgoing = NoTask /\ verdict = "none"
    /\ phase = "none" /\ wstatus = "exit_ok" /\ serving = NoTask /\ reply = "ok"
    /\ toChild = <<>> /\ toParent = <<>>
    /\ spawns = 0 /\ strays = 0 /\ accepted = {}
    /\ stranded = [t \in Tasks |-> 0]
    /\ runs = [t \in Tasks |-> 0]
    /\ ended = [t \in Tasks |-> "none"]
    /\ written = {} /\ killedWith = {}
    /\ result = [t \in Tasks |-> "none"]
    /\ endSeen = FALSE

(* spawn(): socketpair and fork; a failing call changes nothing.           *)
Spawn ==
    /\ pc = "ready"
    /\ state = "stopped" /\ pid = 0 /\ ~fd
    /\ spawns < MaxSpawns
    /\ spawns' = spawns + 1
    /\ pid' = spawns + 1
    /\ fd' = TRUE
    /\ current' = NoTask
    /\ state' = "idle"
    /\ phase' = "reading" /\ serving' = NoTask
    /\ toChild' = <<>> /\ toParent' = <<>>
    /\ UNCHANGED <<expired, control, wstatus, reply, strays, accepted, stranded, runs,
                   ended, written, killedWith, result, endSeen>>

-----------------------------------------------------------------------------
(* send().  The pool offers a task again only if it was refused.           *)
SendStart(t) ==
    /\ pc = "ready" /\ state = "idle" /\ pid # 0 /\ fd
    /\ t \notin accepted /\ ~Stranded(t)
    /\ pc' = "sending"
    /\ outgoing' = t
    /\ UNCHANGED <<object, inReceive, verdict, child, channels, history>>

(* packets.send_run() wrote the whole frame: the child may read it before  *)
(* the parent does its bookkeeping.                                        *)
SendWritten ==
    /\ pc = "sending" /\ ~PeerClosed
    /\ toChild' = Append(toChild, Frame("run", outgoing))
    /\ pc' = "sent"
    /\ UNCHANGED <<object, inReceive, outgoing, verdict, child, toParent, history>>

(* poll() said there is room, and send() on the blocking socket stays in   *)
(* the kernel until all the rest of a payload has found its place.         *)
SendBlocks ==
    /\ pc = "sending" /\ ~PeerClosed
    /\ pc' = "blocked"
    /\ UNCHANGED <<object, inReceive, outgoing, verdict, child, channels, history>>

(* The child takes bytes until the rest fits.  Nothing makes it do so, and *)
(* the parent has no signal handler that would interrupt the call.         *)
SendUnblocked ==
    /\ pc = "blocked" /\ phase = "reading" /\ toChild = <<>>
    /\ toChild' = <<Frame("run", outgoing)>>
    /\ pc' = "sent"
    /\ UNCHANGED <<object, inReceive, outgoing, verdict, child, toParent, history>>

SendAccepted ==
    /\ pc = "sent"
    /\ current' = outgoing
    /\ expired' = FALSE
    /\ state' = "busy"
    /\ accepted' = accepted \cup {outgoing}
    /\ pc' = "ready" /\ outgoing' = NoTask
    /\ UNCHANGED <<pid, fd, inReceive, verdict, child, channels, spawns, strays,
                   stranded, runs, ended, written, killedWith, result, endSeen>>

(* task.args = args throws: the request is out, the slot is idle as before *)
(* and the exception leaves send().                                        *)
SendThrows ==
    /\ pc = "sent"
    /\ stranded' = [stranded EXCEPT ![outgoing] = spawns]
    /\ pc' = "ready" /\ outgoing' = NoTask
    /\ UNCHANGED <<object, inReceive, verdict, child, channels, spawns, strays,
                   accepted, runs, ended, written, killedWith, result, endSeen>>

(* timeout_error, disconnected_error or ipc_error, at any byte of the      *)
(* frame; inside the kernel only the end of the child is an error.         *)
SendFailed ==
    /\ pc = "sending" \/ (pc = "blocked" /\ PeerClosed)
    /\ state' = "broken"
    /\ outgoing' = NoTask
    /\ pc' = "teardown"
    /\ UNCHANGED <<pid, fd, current, expired, inReceive, verdict, child, channels, history>>

(* Mutant: a failure after the frame is out is reported as a local one. *)
SendUnserializable_AfterDelivery ==
    /\ pc \in {"sending", "sent"}
    /\ outgoing' = NoTask
    /\ pc' = "ready"
    /\ UNCHANGED <<object, inReceive, verdict, child, channels, history>>

(* The arguments cannot be serialized: nothing was written, the slot stays. *)
SendUnserializable ==
    /\ pc = "sending"
    /\ outgoing' = NoTask
    /\ pc' = "ready"
    /\ UNCHANGED <<object, inReceive, verdict, child, channels, history>>

-----------------------------------------------------------------------------
(* expire_if_timed_out() and receive()                                     *)

DeadlinePasses ==
    /\ HasDeadline /\ state = "busy" /\ ~expired
    /\ expired' = TRUE
    /\ UNCHANGED <<state, pid, fd, current, control, child, channels, history>>

(* Mutant: deadlines are only looked at when the descriptor is readable. *)
CallExpire_OnlyReadable ==
    /\ pc = "ready" /\ state = "busy" /\ current # NoTask /\ expired /\ Readable
    /\ pc' = "expire_poll" /\ inReceive' = FALSE
    /\ endSeen' = TRUE
    /\ UNCHANGED <<object, outgoing, verdict, child, channels, spawns, strays,
                   accepted, stranded, runs, ended, written, killedWith, result>>

(* The pool's scan; without an expired deadline the call changes nothing.  *)
CallExpire ==
    /\ pc = "ready" /\ state = "busy" /\ current # NoTask /\ expired
    /\ pc' = "expire_poll" /\ inReceive' = FALSE
    /\ endSeen' = Readable
    /\ UNCHANGED <<object, outgoing, verdict, child, channels, spawns, strays,
                   accepted, stranded, runs, ended, written, killedWith, result>>

(* The pool calls receive() when poll() reported an event on m_fd.         *)
CallReceive ==
    /\ pc = "ready" /\ state = "busy" /\ current # NoTask
    /\ Readable
    /\ pc' = IF expired THEN "expire_poll" ELSE "recv_reap"
    /\ inReceive' = TRUE
    /\ endSeen' = Readable
    /\ UNCHANGED <<object, outgoing, verdict, child, channels, spawns, strays,
                   accepted, stranded, runs, ended, written, killedWith, result>>

(* expire_if_timed_out() returns nullopt: receive() goes on, the scan ends. *)
NotExpired == pc' = IF inReceive THEN "recv_reap" ELSE "ready"

(* Every failing exit: m_state = broken, build the result, shutdown_child() *)
Break(s) ==
    /\ state' = "broken"
    /\ verdict' = s
    /\ pc' = "teardown"

(* Mutant: m_pid survives the waitpid() that consumed the status. *)
Reap_KeepsPid ==
    /\ pid # 0 /\ phase = "zombie"
    /\ pid' = pid
    /\ phase' = "none"

(* try_collect_child_exit_result(): waitpid(m_pid, WNOHANG) found it dead. *)
Reap ==
    /\ pid # 0 /\ phase = "zombie"
    /\ pid' = 0
    /\ phase' = "none"

ReapAndBreak ==
    /\ Reap
    /\ Break(StatusOf(wstatus))
    /\ UNCHANGED <<fd, current, expired, inReceive, outgoing, wstatus, serving,
                   reply, channels, history>>

(* A probe that found nothing: only pc moves.                              *)
MoveOn == UNCHANGED <<object, inReceive, outgoing, verdict, child, channels, history>>

ProbePoints == {"expire_reap", "expire_reap2", "recv_reap"}
AfterProbe(l) ==
    CASE l = "expire_reap"  -> "expire_grace"
      [] l = "expire_reap2" -> "expire_kill"
      [] l = "recv_reap"    -> "recv_frame"

(* Mutant: a past deadline is a timeout, whatever the descriptor says. *)
ExpirePoll_Blind ==
    /\ pc = "expire_poll" /\ pc' = "expire_kill"
    /\ MoveOn

(* poll(fd, 0) *)
ExpirePoll ==
    /\ pc = "expire_poll"
    /\ \/ Readable  /\ NotExpired
       \/ ~Readable /\ pc' = "expire_reap"
    /\ MoveOn

(* The non-blocking waitpid() before and after the grace period and before *)
(* reading the answer.                                                     *)
ProbeExit ==
    /\ pc \in ProbePoints
    /\ \/ ReapAndBreak
       \/ phase # "zombie" /\ pc' = AfterProbe(pc) /\ MoveOn

(* poll(fd, min(frame_timeout, 10ms)) reports an event, or times out.      *)
ExpireGrace ==
    /\ pc = "expire_grace"
    /\ \/ Readable  /\ NotExpired
       \/ ~Readable /\ pc' = "expire_reap2"
    /\ MoveOn

ExpireKill ==
    /\ pc = "expire_kill"
    /\ Break("timeout")
    /\ UNCHANGED <<pid, fd, current, expired, inReceive, outgoing, child, channels, history>>

(* Mutant: the id of the response is not compared. *)
FinishTask_AnyId(f) ==
    IF f.kind \in TargetStatus
    THEN /\ state' = "idle" /\ current' = NoTask /\ pc' = "ready"
         /\ result' = [result EXCEPT ![current] = f.kind]
         /\ UNCHANGED verdict
    ELSE /\ Break("protocol_error")
         /\ UNCHANGED <<current, result>>

(* Mutant: every frame with the right id ends the task. *)
FinishTask_AnyKind(f) ==
    IF f.id = current
    THEN /\ state' = "idle" /\ current' = NoTask /\ pc' = "ready"
         /\ result' = [result EXCEPT ![current] = f.kind]
         /\ UNCHANGED verdict
    ELSE /\ Break("protocol_error")
         /\ UNCHANGED <<current, result>>

(* Mutant: the answer is not consumed as the answer of the current task. *)
FinishTask_KeepsTask(f) ==
    IF f.id = current /\ f.kind \in TargetStatus
    THEN /\ result' = [result EXCEPT ![current] = f.kind]
         /\ pc' = "ready"
         /\ UNCHANGED <<verdict, state, current>>
    ELSE /\ Break("protocol_error")
         /\ UNCHANGED <<current, result>>

(* finish_task_from_response_packet(): ok and exception keep the child.    *)
FinishTask(f) ==
    IF f.id = current /\ f.kind \in TargetStatus
    THEN /\ state' = "idle"
         /\ current' = NoTask
         /\ result' = [result EXCEPT ![current] = f.kind]
         /\ pc' = "ready"
         /\ UNCHANGED verdict
    ELSE /\ Break("protocol_error")
         /\ UNCHANGED <<current, result>>

RecvFrame ==
    /\ pc = "recv_frame" /\ toParent # <<>>
    /\ Head(toParent).kind # "garbage"
    /\ toParent' = Tail(toParent)
    /\ FinishTask(Head(toParent))
    /\ UNCHANGED <<pid, fd, expired, inReceive, outgoing, child, toChild, spawns,
                   strays, accepted, stranded, runs, ended, written, killedWith, endSeen>>

(* Bytes that are no frame: protocol_error first looks for an exit code;   *)
(* a payload size beyond memory is a std::exception.                       *)
RecvGarbage ==
    /\ pc = "recv_frame" /\ toParent # <<>>
    /\ Head(toParent).kind = "garbage"
    /\ toParent' = Tail(toParent)
    /\ \/ pc' = "recv_exit" /\ verdict' = "protocol_error" /\ UNCHANGED state
       \/ Break("internal_error")
    /\ UNCHANGED <<pid, fd, current, expired, inReceive, outgoing, child, toChild, history>>

(* Mutant: a late answer frees the slot, but the child is kept. *)
RecvTimeout_KeepsChild ==
    /\ pc = "recv_frame"
    /\ state' = "idle" /\ current' = NoTask /\ pc' = "ready"
    /\ result' = [result EXCEPT ![current] = "ipc_error"]
    /\ UNCHANGED <<pid, fd, expired, inReceive, outgoing, verdict, child, channels,
                   spawns, strays, accepted, stranded, runs, ended, written, killedWith, endSeen>>

(* Mutant: the read is not bounded. *)
RecvTimeout_Never == pc = "recv_frame" /\ FALSE /\ UNCHANGED vars

(* frame_timeout: also when the reader was descheduled past its deadline.  *)
RecvTimeout ==
    /\ pc = "recv_frame"
    /\ Break("ipc_error")
    /\ UNCHANGED <<pid, fd, current, expired, inReceive, outgoing, child, channels, history>>

(* EOF, possibly in the middle of a frame *)
RecvEof ==
    /\ pc = "recv_frame" /\ toParent = <<>> /\ PeerClosed
    /\ pc' = "recv_exit" /\ verdict' = "ipc_error"
    /\ UNCHANGED <<object, inReceive, outgoing, child, channels, history>>

(* wait_for_child_exit_result(): waitpid() within frame_timeout, or not.   *)
RecvExit ==
    /\ pc = "recv_exit"
    /\ \/ ReapAndBreak
       \/ /\ Break(verdict)
          /\ UNCHANGED <<pid, fd, current, expired, inReceive, outgoing, child,
                         channels, history>>

-----------------------------------------------------------------------------
(* stop() and shutdown_child(): only an idle child is asked to leave.      *)
Stop ==
    /\ pc = "ready"
    /\ IF state = "idle" /\ pid # 0 /\ fd
       THEN /\ pc' = "stop_wait"
            /\ \/ ~PeerClosed /\ toChild' = Append(toChild, Frame("stop", NoTask))
               \/ UNCHANGED toChild            \* send_stop() threw
       ELSE /\ pc' = "teardown"
            /\ UNCHANGED toChild
    /\ verdict' = "none"
    /\ UNCHANGED <<object, inReceive, outgoing, child, toParent, history>>

(* waitpid(WNOHANG) until the child left or frame_timeout is over          *)
StopWait ==
    /\ pc = "stop_wait"
    /\ pc' = "teardown"
    /\ \/ Reap /\ UNCHANGED <<wstatus, serving, reply>>
       \/ UNCHANGED <<pid, child>>
    /\ UNCHANGED <<state, fd, current, expired, inReceive, outgoing, verdict, channels, history>>

(* close_fd(), SIGKILL and waitpid() if there still is a pid,              *)
(* reset_parent_state(), and the caller returns the result it had built.   *)
Teardown ==
    /\ pc = "teardown"
    /\ fd' = FALSE
    /\ phase' = IF pid # 0 THEN "none" ELSE phase
    /\ pid' = 0
    /\ state' = "stopped"
    /\ current' = NoTask
    /\ expired' = FALSE
    /\ result' = IF verdict = "none" THEN result
                 ELSE [result EXCEPT ![current] = verdict]
    /\ verdict' = "none"
    /\ pc' = "ready"
    /\ toChild' = <<>> /\ toParent' = <<>>
    /\ UNCHANGED <<inReceive, outgoing, wstatus, serving, reply, spawns, strays,
                   accepted, stranded, runs, ended, written, killedWith, endSeen>>

-----------------------------------------------------------------------------
(* child_loop()                                                            *)

Dies(w) ==
    /\ phase' = "exiting"
    /\ wstatus' = w

(* A whole request: run it, leave on stop, or fail to decode it.           *)
ChildRead ==
    /\ phase = "reading" /\ toChild # <<>>
    /\ toChild' = Tail(toChild)
    /\ LET f == Head(toChild) IN
       \/ /\ f.kind = "run"
          /\ phase' = "running"
          /\ serving' = f.id
          /\ runs' = [runs EXCEPT ![f.id] = @ + 1]
          /\ UNCHANGED wstatus
       \/ /\ f.kind = "run"
          /\ \E w \in {"exit_protocol", "exit_internal"} : Dies(w)
          /\ UNCHANGED <<serving, runs>>
       \/ /\ f.kind = "stop"
          /\ Dies("exit_ok")
          /\ UNCHANGED <<serving, runs>>
    /\ UNCHANGED <<object, control, reply, toParent, spawns, strays, accepted, stranded,
                   ended, written, killedWith, result, endSeen>>

TargetEnds ==
    /\ phase = "running"
    /\ phase' = "replying"
    /\ \E k \in TargetStatus :
          /\ reply' = k
          /\ ended' = [ended EXCEPT ![serving] = IF k = "ok" THEN "returned" ELSE "threw"]
    /\ UNCHANGED <<object, control, wstatus, serving, channels, spawns, strays,
                   accepted, stranded, runs, written, killedWith, result, endSeen>>

BeginReply ==
    /\ phase = "replying"
    /\ phase' = "writing"
    /\ UNCHANGED <<object, control, wstatus, serving, reply, channels, history>>

EndReply ==
    /\ phase = "writing"
    /\ phase' = "reading"
    /\ toParent' = Append(toParent, Frame(reply, serving))
    /\ written' = written \cup {Frame(reply, serving)}
    /\ serving' = NoTask
    /\ UNCHANGED <<object, control, wstatus, reply, toChild, spawns, strays,
                   accepted, stranded, runs, ended, killedWith, result, endSeen>>

(* send_ok() or send_exception() threw: the parent did not take the bytes. *)
ReplyFails ==
    /\ phase \in {"replying", "writing"}
    /\ Dies("exit_ipc")
    /\ UNCHANGED <<object, control, serving, reply, channels, history>>

(* The target calls exit(): any code, those of child_loop included.        *)
TargetExits ==
    /\ phase = "running"
    /\ \E w \in ExitCodes : Dies(w)
    /\ UNCHANGED <<object, control, serving, reply, channels, history>>

(* A signal: the target's own fault, or an outside killer in any phase.    *)
ChildSignaled ==
    /\ ChildLive
    /\ Dies("signaled")
    /\ killedWith' = killedWith \cup {t \in Tasks : InFlight(t)}
    /\ UNCHANGED <<object, control, serving, reply, channels, spawns, strays,
                   accepted, stranded, runs, ended, written, result, endSeen>>

(* The kernel closes the descriptors first; the status appears later.      *)
ChildZombie ==
    /\ phase = "exiting"
    /\ phase' = "zombie"
    /\ UNCHANGED <<object, control, wstatus, serving, reply, channels, history>>

(* The target scribbles on the inherited descriptor while it runs.         *)
StrayFrames == [kind : {"ok", "exception", "protocol_error", "stop", "garbage"}, id : Tasks]

StrayWrite ==
    /\ phase = "running" /\ strays < MaxStray
    /\ strays' = strays + 1
    /\ \E f \in StrayFrames :
          /\ toParent' = Append(toParent, f)
          /\ written' = written \cup {f}
    /\ UNCHANGED <<object, control, child, toChild, spawns, accepted, stranded, runs,
                   ended, killedWith, result, endSeen>>

-----------------------------------------------------------------------------
ParentStep ==
    \/ SendWritten \/ SendBlocks \/ SendAccepted \/ SendThrows \/ SendFailed
    \/ SendUnserializable
    \/ ExpirePoll \/ ProbeExit \/ ExpireGrace \/ ExpireKill
    \/ RecvFrame \/ RecvGarbage \/ RecvTimeout \/ RecvEof \/ RecvExit
    \/ StopWait \/ Teardown

ParentCall ==
    \/ Spawn
    \/ \E t \in Tasks : SendStart(t)
    \/ CallExpire \/ CallReceive \/ Stop

ChildStep ==
    \/ ChildRead \/ TargetEnds \/ BeginReply \/ EndReply \/ ReplyFails
    \/ TargetExits \/ ChildSignaled \/ ChildZombie \/ StrayWrite

Next == ParentStep \/ SendUnblocked \/ ParentCall \/ ChildStep \/ DeadlinePasses

Spec == Init /\ [][Next]_vars

(* The parent's methods run on, time passes, and the pool's loop scans     *)
(* deadlines and polls again and again, which takes that it is not itself  *)
(* blocked in a send() to another slot.  The child owes nothing, so a      *)
(* blocked send() is owed no end (SendUnblocked is not a ParentStep).      *)
Fairness ==
    /\ WF_vars(ParentStep)
    /\ WF_vars(DeadlinePasses)
    /\ WF_vars(CallExpire)
    /\ SF_vars(CallReceive)

FairSpec == Spec /\ Fairness

-----------------------------------------------------------------------------
(* Properties *)

TypeOK ==
    /\ state \in {"stopped", "idle", "busy", "broken"}
    /\ pid \in 0..MaxSpawns /\ fd \in BOOLEAN
    /\ current \in Tasks \cup {NoTask} /\ expired \in BOOLEAN
    /\ pc \in {"ready", "sending", "blocked", "sent", "expire_poll", "expire_grace",
               "expire_kill", "recv_frame", "recv_exit", "stop_wait", "teardown"}
              \cup ProbePoints
    /\ inReceive \in BOOLEAN
    /\ outgoing \in Tasks \cup {NoTask}
    /\ verdict \in IsolatedStatus \cup {"none"}
    /\ phase \in LivePhases \cup {"none", "exiting", "zombie"}
    /\ wstatus \in WaitStatus
    /\ serving \in Tasks \cup {NoTask} /\ reply \in TargetStatus
    /\ toChild \in Seq(Requests)
    /\ toParent \in Seq(StrayFrames)
    /\ spawns \in 0..MaxSpawns /\ strays \in 0..MaxStray
    /\ accepted \subseteq Tasks
    /\ stranded \in [Tasks -> 0..MaxSpawns]
    /\ runs \in [Tasks -> Nat]
    /\ ended \in [Tasks -> {"none", "returned", "threw"}]
    /\ written \subseteq StrayFrames /\ killedWith \subseteq Tasks
    /\ result \in [Tasks -> IsolatedStatus \cup {"none"}]
    /\ endSeen \in BOOLEAN

(* The pid the object holds is always that of its own, unreaped child, and *)
(* no child is left without a pid: kill() and waitpid() never reach a      *)
(* recycled pid, no zombie leaks, and alive() tells the truth between calls *)
(* (try_collect clears m_pid, shutdown_child() may run after it).          *)
ProcessOwned ==
    /\ pid # 0 => pid = spawns /\ phase # "none"
    /\ phase # "none" => pid # 0
    /\ pc = "ready" => (state = "stopped" <=> pid = 0) /\ (fd <=> pid # 0)

(* A task is executed at most once, however often its delivery is retried  *)
(* (worker_pool resends what send() refused).                              *)
AtMostOnce == \A t \in Tasks : runs[t] <= 1

(* task_was_not_executed(): a task that send() refused is never executed.   *)
(* Only one it accepted, is about to accept or threw over is: send()       *)
(* reports no refusal once the request is out.                             *)
RefusedNeverRuns ==
    \A t \in Tasks :
        runs[t] > 0 => t \in accepted \/ Stranded(t) \/ (pc = "sent" /\ outgoing = t)

(* A target that keeps its hands off the socket is reported as it behaved: *)
(* ok only if it returned for this very task, exception only if it threw,  *)
(* crash only if a signal killed the child with the task in flight, never  *)
(* for an exit code or the parent's SIGKILL; whatever exit codes, timeouts *)
(* and deaths happened around it.                                          *)
HonestOutcome ==
    \A t \in Tasks :
        /\ result[t] = "ok" => ended[t] = "returned"
        /\ result[t] = "exception" => ended[t] = "threw"
        /\ result[t] = "crash" => t \in killedWith

(* A child that is kept for the next task is in step with the parent: both *)
(* directions of the socket are empty and, if it is alive, it is waiting   *)
(* for a request.  Not so a child that still owes the answer to a task of  *)
(* a send() that threw after the delivery: its frame is refused by its id. *)
IdleInSync ==
    pc = "ready" /\ state = "idle" /\ ~OwesStray =>
        /\ toChild = <<>> /\ toParent = <<>>
        /\ ChildLive => phase = "reading"

(* Whatever the target scribbles, a task is only credited with a frame that *)
(* carries its own id (finish_task_from_response_packet).                  *)
OwnAnswerOnly ==
    \A t \in Tasks :
        result[t] \in TargetStatus => Frame(result[t], t) \in written

(* An end of the task that was visible when the deadline was examined is   *)
(* never flattened to TIMEOUT (README, "race on the deadline boundary").   *)
EndSeenIsNoTimeout ==
    [][\A t \in Tasks : result[t] # "timeout" /\ result'[t] = "timeout" => ~endSeen]_vars

(* The slot keeps the promises of WorkerContract; m_state = broken never   *)
(* shows outside a method, and the answer is given when teardown is over.  *)
Contract == INSTANCE WorkerContract WITH
    slot   <- IF state # "broken" THEN state
              ELSE IF current = NoTask THEN "idle" ELSE "busy",
    task   <- current,
    taken  <- accepted,
    answer <- result

ImplementsContract == Contract!CSpec

(* With a task deadline every task in flight leaves the slot, whatever the *)
(* child does: answered, or abandoned by stop().                           *)
InFlightEnds == \A t \in Tasks : current = t ~> current # t

(* Every method of the worker object returns, or send() stays in the       *)
(* kernel with a request that does not fit, before a child that is alive   *)
(* and does not read: no other wait of the parent depends on the child.    *)
MethodsReturn == []<>(pc = "ready") \/ <>[](pc = "blocked" /\ ~PeerClosed)
=============================================================================
