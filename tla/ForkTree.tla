------------------------------ MODULE ForkTree ------------------------------
(***************************************************************************)
(* Which process holds which end of which socket.  Every slot of a pool has *)
(* a socket pair; fork() copies every descriptor the parent has open, so a  *)
(* child also gets the parent's ends of the sockets of its older siblings,  *)
(* and an end of file comes only when the last copy is gone.  Worker looks  *)
(* at one slot, where none of this can be seen.                             *)
(*                                                                          *)
(* Children are numbered as they are forked: all by one thread of the pool. *)
(***************************************************************************)
EXTENDS Integers, FiniteSets

CONSTANTS Slots,        \* the workers of the pool
          MaxChildren   \* bound: processes forked

ASSUME ForkAssumption == IsFiniteSet(Slots) /\ MaxChildren \in Nat

VARIABLES
    alive,      \* the parent process runs
    slot,       \* slot[s]: the child of worker s, 0 without one
    closing,    \* the slot inside shutdown_child(), and its next step
    forked,     \* number of children forked
    state,      \* state[c]: "idle", "busy" with the target, "gone"
    inbox,      \* inbox[c]: what child c can read
    parentEnd,  \* parentEnd[c]: processes with a copy of the parent's end
    childEnd    \* childEnd[c]: processes with a copy of the child's own end

vars == <<alive, slot, closing, forked, state, inbox, parentEnd, childEnd>>

Parent   == 0
Children == 1..forked
Ready    == <<>>          \* no slot is being closed

Init ==
    /\ alive = TRUE /\ slot = [s \in Slots |-> 0] /\ closing = Ready
    /\ forked = 0 /\ state = <<>> /\ inbox = <<>>
    /\ parentEnd = <<>> /\ childEnd = <<>>

-----------------------------------------------------------------------------
(* What a process that is gone held is closed. *)
Without(ends, p) == [c \in DOMAIN ends |-> ends[c] \ {p}]

Exit(c) ==
    /\ state' = [state EXCEPT ![c] = "gone"]
    /\ parentEnd' = Without(parentEnd, c) /\ childEnd' = Without(childEnd, c)

(* Mutant: the child keeps its copy of the parent's end. *)
Inherited_OwnToo(c) ==
    [d \in 1..c |-> IF d = c THEN {Parent, c}
                    ELSE IF Parent \in parentEnd[d] THEN parentEnd[d] \cup {c}
                    ELSE parentEnd[d]]

(* fork(): child c has a copy of every end the parent has, but closes the   *)
(* one of its own socket.                                                   *)
Inherited(c) ==
    [d \in 1..c |-> IF d = c THEN {Parent}
                    ELSE IF Parent \in parentEnd[d] THEN parentEnd[d] \cup {c}
                    ELSE parentEnd[d]]

(* Mutant: the parent keeps the child's end. *)
Spawn_KeepsPeer(s) ==
    LET c == forked + 1 IN
    /\ alive /\ closing = Ready /\ slot[s] = 0 /\ forked < MaxChildren
    /\ slot' = [slot EXCEPT ![s] = c] /\ forked' = c
    /\ state' = [d \in 1..c |-> IF d = c THEN "idle" ELSE state[d]]
    /\ inbox' = [d \in 1..c |-> IF d = c THEN "nothing" ELSE inbox[d]]
    /\ parentEnd' = Inherited(c)
    /\ childEnd' = [d \in 1..c |-> IF d = c THEN {c, Parent} ELSE childEnd[d]]
    /\ UNCHANGED <<alive, closing>>

(* spawn(): socketpair(), fork() and the two close(). *)
Spawn(s) ==
    LET c == forked + 1 IN
    /\ alive /\ closing = Ready /\ slot[s] = 0 /\ forked < MaxChildren
    /\ slot' = [slot EXCEPT ![s] = c] /\ forked' = c
    /\ state' = [d \in 1..c |-> IF d = c THEN "idle" ELSE state[d]]
    /\ inbox' = [d \in 1..c |-> IF d = c THEN "nothing" ELSE inbox[d]]
    /\ parentEnd' = Inherited(c)
    /\ childEnd' = [d \in 1..c |-> IF d = c THEN {c} ELSE childEnd[d]]
    /\ UNCHANGED <<alive, closing>>

(* A run packet for an idle child. *)
Send(s) ==
    /\ alive /\ closing = Ready /\ slot[s] # 0
    /\ state[slot[s]] = "idle" /\ inbox[slot[s]] = "nothing"
    /\ inbox' = [inbox EXCEPT ![slot[s]] = "run"]
    /\ UNCHANGED <<alive, slot, closing, forked, state, parentEnd, childEnd>>

(* shutdown_child() begins: a stop packet for an idle child.  The thread    *)
(* does nothing else before it is through.                                  *)
ShutDown(s) ==
    /\ alive /\ closing = Ready /\ slot[s] # 0
    /\ closing' = <<s, "close">>
    /\ \/ /\ state[slot[s]] = "idle" /\ inbox[slot[s]] = "nothing"
          /\ inbox' = [inbox EXCEPT ![slot[s]] = "stop"]
       \/ UNCHANGED inbox
    /\ UNCHANGED <<alive, slot, forked, state, parentEnd, childEnd>>

(* close_fd(), after the child has exited or the wait for it is over.       *)
CloseEnd(s) ==
    /\ alive /\ closing = <<s, "close">> /\ closing' = <<s, "kill">>
    /\ parentEnd' = [parentEnd EXCEPT ![slot[s]] = @ \ {Parent}]
    /\ UNCHANGED <<alive, slot, forked, state, inbox, childEnd>>

(* SIGKILL and waitpid(); the slot is free again. *)
Kill(s) ==
    /\ alive /\ closing = <<s, "kill">> /\ closing' = Ready
    /\ Exit(slot[s])
    /\ slot' = [slot EXCEPT ![s] = 0]
    /\ UNCHANGED <<alive, forked, inbox>>

(* The parent may die anywhere; nobody tells the children. *)
ParentDies ==
    /\ alive /\ alive' = FALSE
    /\ parentEnd' = Without(parentEnd, Parent) /\ childEnd' = Without(childEnd, Parent)
    /\ UNCHANGED <<slot, closing, forked, state, inbox>>

-----------------------------------------------------------------------------
(* child_loop() reads a request, or the end of file that comes when nobody  *)
(* holds the other end.                                                     *)
Receive(c) ==
    /\ state[c] = "idle"
    /\ \/ /\ inbox[c] = "run"
          /\ state' = [state EXCEPT ![c] = "busy"]
          /\ inbox' = [inbox EXCEPT ![c] = "nothing"]
          /\ UNCHANGED <<parentEnd, childEnd>>
       \/ inbox[c] = "stop" /\ Exit(c) /\ UNCHANGED inbox
       \/ inbox[c] = "nothing" /\ parentEnd[c] = {} /\ Exit(c) /\ UNCHANGED inbox
    /\ UNCHANGED <<alive, slot, closing, forked>>

(* The target returns and the answer goes to whoever holds the other end,   *)
(* read or not; without anyone the send fails and the child exits.  The     *)
(* target may also end the process.                                         *)
TargetEnds(c) ==
    /\ state[c] = "busy"
    /\ \/ /\ parentEnd[c] # {}
          /\ state' = [state EXCEPT ![c] = "idle"]
          /\ UNCHANGED <<parentEnd, childEnd>>
       \/ Exit(c)
    /\ UNCHANGED <<alive, slot, closing, forked, inbox>>

ParentStep == \E s \in Slots : Spawn(s) \/ Send(s) \/ ShutDown(s) \/ CloseEnd(s) \/ Kill(s)
ChildStep  == \E c \in Children : Receive(c) \/ TargetEnds(c)

Next == ParentStep \/ ParentDies \/ ChildStep

Spec == Init /\ [][Next]_vars

(* An idle child is scheduled; a target may run for ever. *)
FairSpec ==
    Spec /\ \A c \in 1..MaxChildren : WF_vars(c \in Children /\ Receive(c))

-----------------------------------------------------------------------------
(* Copies of an end go to younger siblings only, so that no two children    *)
(* wait for each other's exit (fork() in spawn()).                          *)
HeldByYounger ==
    \A c \in Children : \A h \in parentEnd[c] \ {Parent} : h > c /\ state[h] # "gone"

(* A child that outlives its parent ends, unless it runs a target or a      *)
(* younger sibling that holds its socket open does (child_loop(), the two   *)
(* close() of spawn()).                                                     *)
OrphansEnd ==
    ~alive ~> \A c \in Children :
                 state[c] = "gone" \/ \E h \in Children : h >= c /\ state[h] = "busy"

(* The parent sees the hang-up of a child exactly when it is gone: no other *)
(* process has the child's end (spawn(), poll() in expire_if_timed_out()).  *)
HangUpIsDeath == \A c \in Children : childEnd[c] = {} <=> state[c] = "gone"
=============================================================================
