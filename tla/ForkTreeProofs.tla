--------------------------- MODULE ForkTreeProofs ---------------------------
(***************************************************************************)
(* Which process holds which end, for any pool and any number of children.  *)
(* HeldByYounger is inductive next to the types; HangUpIsDeath needs the    *)
(* stronger ChildEndInv: the only copy of a child's own end is the child's. *)
(***************************************************************************)
EXTENDS ForkTree, TLAPS

TypeInv ==
    /\ alive \in BOOLEAN /\ forked \in Nat
    /\ slot \in [Slots -> 0..forked]
    /\ closing \in {Ready} \cup (Slots \X {"close", "kill"})
    /\ state \in [Children -> {"idle", "busy", "gone"}]
    /\ inbox \in [Children -> {"nothing", "run", "stop"}]
    /\ parentEnd \in [Children -> SUBSET (0..forked)]
    /\ childEnd \in [Children -> SUBSET (0..forked)]

(* shutdown_child() is at work on a slot that has a child. *)
ClosingInv == \A s \in Slots : closing # Ready /\ closing[1] = s => slot[s] # 0

(* A child's own end is open in the child and nowhere else. *)
ChildEndInv == \A c \in Children : childEnd[c] = IF state[c] = "gone" THEN {} ELSE {c}

ForkInv == TypeInv /\ ClosingInv /\ ChildEndInv /\ HeldByYounger

-----------------------------------------------------------------------------
(* A process that exits takes its own copies along: nobody else's end       *)
(* opens or closes.                                                         *)
LEMMA ExitKeeps ==
    ASSUME TypeInv, ChildEndInv, HeldByYounger, NEW c \in Children, Exit(c)
    PROVE  /\ state' \in [Children -> {"idle", "busy", "gone"}]
           /\ parentEnd' \in [Children -> SUBSET (0..forked)]
           /\ childEnd' \in [Children -> SUBSET (0..forked)]
           /\ \A d \in Children : childEnd'[d] = IF state'[d] = "gone" THEN {} ELSE {d}
           /\ \A d \in Children : \A h \in parentEnd'[d] \ {Parent} :
                 h > d /\ state'[h] # "gone"
<1>1. /\ state' = [state EXCEPT ![c] = "gone"]
      /\ parentEnd' = [d \in Children |-> parentEnd[d] \ {c}]
      /\ childEnd' = [d \in Children |-> childEnd[d] \ {c}]
  BY DEF Exit, Without, TypeInv
<1>2. /\ state' \in [Children -> {"idle", "busy", "gone"}]
      /\ parentEnd' \in [Children -> SUBSET (0..forked)]
      /\ childEnd' \in [Children -> SUBSET (0..forked)]
  BY <1>1 DEF TypeInv
<1>3. \A d \in Children : childEnd'[d] = IF state'[d] = "gone" THEN {} ELSE {d}
  BY <1>1 DEF TypeInv, ChildEndInv
<1>4. \A d \in Children : \A h \in parentEnd'[d] \ {Parent} : h > d /\ state'[h] # "gone"
  BY <1>1 DEF TypeInv, HeldByYounger, Children, Parent
<1> QED BY <1>2, <1>3, <1>4

(* What fork() adds: the new child is younger than every end it inherits.   *)
LEMMA SpawnKeeps == ASSUME ForkInv, NEW s \in Slots, Spawn(s) PROVE ForkInv'
<1> USE DEF ForkInv
<1> DEFINE c == forked + 1
<1>1. /\ forked \in Nat /\ c \in Nat /\ c > 0
      /\ forked' = c /\ Children' = 1..c /\ alive' = alive /\ closing' = closing
      /\ closing = Ready /\ slot' = [slot EXCEPT ![s] = c]
      /\ state' = [d \in 1..c |-> IF d = c THEN "idle" ELSE state[d]]
      /\ inbox' = [d \in 1..c |-> IF d = c THEN "nothing" ELSE inbox[d]]
      /\ parentEnd' = Inherited(c)
      /\ childEnd' = [d \in 1..c |-> IF d = c THEN {c} ELSE childEnd[d]]
  BY DEF Spawn, TypeInv, Children
<1>2. \A d \in 1..c : d # c => d \in Children
  BY <1>1 DEF Children
<1>3. parentEnd' = [d \in 1..c |-> IF d = c THEN {Parent}
                        ELSE IF Parent \in parentEnd[d] THEN parentEnd[d] \cup {c}
                        ELSE parentEnd[d]]
  BY <1>1 DEF Inherited
<1>4. TypeInv'
  <2>1. /\ alive' \in BOOLEAN /\ forked' \in Nat
        /\ closing' \in {Ready} \cup (Slots \X {"close", "kill"})
    BY <1>1 DEF TypeInv
  <2>2. slot' \in [Slots -> 0..c]
    BY <1>1 DEF TypeInv
  <2>3. state' \in [1..c -> {"idle", "busy", "gone"}]
    BY <1>1, <1>2 DEF TypeInv
  <2>4. inbox' \in [1..c -> {"nothing", "run", "stop"}]
    BY <1>1, <1>2 DEF TypeInv
  <2>5. parentEnd' \in [1..c -> SUBSET (0..c)]
    <3>1. \A d \in Children : parentEnd[d] \subseteq 0..c
      BY <1>1 DEF TypeInv
    <3>2. 0 \in 0..c /\ c \in 0..c
      BY <1>1
    <3>3. ASSUME NEW d \in 1..c PROVE parentEnd'[d] \subseteq 0..c
      BY <1>2, <1>3, <3>1, <3>2, <3>3 DEF Parent
    <3> QED BY <1>3, <3>3
  <2>6. childEnd' \in [1..c -> SUBSET (0..c)]
    <3>1. \A d \in Children : childEnd[d] \subseteq 0..c
      BY <1>1 DEF TypeInv
    <3> QED BY <1>1, <1>2, <3>1
  <2> QED BY <1>1, <2>1, <2>2, <2>3, <2>4, <2>5, <2>6 DEF TypeInv, Ready
<1>5. ClosingInv'
  BY <1>1 DEF ClosingInv, Ready
<1>6. ChildEndInv'
  BY <1>1, <1>2 DEF ChildEndInv
<1>7. HeldByYounger'
  <2>1. \A d \in Children : \A h \in parentEnd[d] \ {Parent} :
            h \in Children /\ h # c /\ h > d /\ state[h] # "gone"
    BY <1>1 DEF HeldByYounger, TypeInv, Children, Parent
  <2>2. \A d \in 1..c : d # c => c > d
    BY <1>1
  <2>3. ASSUME NEW d \in 1..c, NEW h \in parentEnd'[d] \ {Parent}
        PROVE  h > d /\ state'[h] # "gone"
    <3>1. CASE d = c
      BY <3>1, <1>1, <1>3
    <3>2. CASE d # c /\ h = c
      BY <3>2, <1>1, <2>2
    <3>3. CASE d # c /\ h # c
      <4>1. h \in parentEnd[d] \ {Parent}
        BY <3>3, <1>3
      <4>2. h \in Children /\ h > d /\ state[h] # "gone" /\ h \in 1..c
        BY <4>1, <1>1, <1>2, <3>3, <2>1 DEF Children
      <4> QED BY <4>2, <3>3, <1>1
    <3> QED BY <3>1, <3>2, <3>3
  <2> QED BY <1>1, <2>3 DEF HeldByYounger, Parent
<1> QED BY <1>4, <1>5, <1>6, <1>7

LEMMA ParentKeeps ==
    ASSUME ForkInv, NEW s \in Slots, Send(s) \/ ShutDown(s) \/ CloseEnd(s) \/ Kill(s)
    PROVE  ForkInv'
<1> USE DEF ForkInv
<1>1. slot[s] # 0 => slot[s] \in Children
  BY DEF TypeInv, Children
<1>2. CASE Send(s)
  <2>1. inbox' \in [Children -> {"nothing", "run", "stop"}]
    BY <1>1, <1>2 DEF Send, TypeInv
  <2> QED BY <1>2, <2>1 DEF Send, TypeInv, ClosingInv, ChildEndInv, HeldByYounger, Children
<1>3. CASE ShutDown(s)
  <2>1. inbox' \in [Children -> {"nothing", "run", "stop"}]
    BY <1>1, <1>3 DEF ShutDown, TypeInv
  <2>2. closing' \in {Ready} \cup (Slots \X {"close", "kill"}) /\ closing'[1] = s
    BY <1>3 DEF ShutDown
  <2>3. slot[s] # 0 /\ UNCHANGED <<alive, slot, forked, state, parentEnd, childEnd>>
    BY <1>3 DEF ShutDown
  <2> QED BY <2>1, <2>2, <2>3 DEF TypeInv, ClosingInv, ChildEndInv, HeldByYounger, Children, Ready
<1>4. CASE CloseEnd(s)
  <2>1. closing' \in {Ready} \cup (Slots \X {"close", "kill"}) /\ closing'[1] = s
    BY <1>4 DEF CloseEnd
  <2>2. slot[s] # 0
    BY <1>4 DEF CloseEnd, ClosingInv, Ready
  <2>3. /\ parentEnd' = [parentEnd EXCEPT ![slot[s]] = @ \ {Parent}]
        /\ UNCHANGED <<alive, slot, forked, state, inbox, childEnd>>
    BY <1>4 DEF CloseEnd
  <2>4. parentEnd' \in [Children -> SUBSET (0..forked)]
    BY <2>3, <2>2, <1>1 DEF TypeInv
  <2>5. HeldByYounger'
    BY <2>3, <2>2, <1>1 DEF HeldByYounger, TypeInv, Children
  <2> QED BY <2>1, <2>2, <2>3, <2>4, <2>5 DEF TypeInv, ClosingInv, ChildEndInv, Children, Ready
<1>5. CASE Kill(s)
  <2>1. closing = <<s, "kill">> /\ slot[s] # 0
    BY <1>5 DEF Kill, ClosingInv, Ready
  <2>2. /\ Exit(slot[s]) /\ closing' = Ready
        /\ slot' = [slot EXCEPT ![s] = 0] /\ UNCHANGED <<alive, forked, inbox>>
    BY <1>5 DEF Kill
  <2>3. slot' \in [Slots -> 0..forked]
    BY <2>2 DEF TypeInv
  <2>4. /\ state' \in [Children -> {"idle", "busy", "gone"}]
        /\ parentEnd' \in [Children -> SUBSET (0..forked)]
        /\ childEnd' \in [Children -> SUBSET (0..forked)]
        /\ \A d \in Children : childEnd'[d] = IF state'[d] = "gone" THEN {} ELSE {d}
        /\ \A d \in Children : \A h \in parentEnd'[d] \ {Parent} :
              h > d /\ state'[h] # "gone"
    BY <1>1, <2>1, <2>2, ExitKeeps
  <2> QED BY <2>2, <2>3, <2>4 DEF TypeInv, ClosingInv, ChildEndInv, HeldByYounger, Children, Ready, Parent
<1> QED BY <1>2, <1>3, <1>4, <1>5

LEMMA ParentDeathKeeps == ASSUME ForkInv, ParentDies PROVE ForkInv'
<1> USE DEF ForkInv
<1>1. /\ alive' = FALSE /\ UNCHANGED <<slot, closing, forked, state, inbox>>
      /\ parentEnd' = [c \in Children |-> parentEnd[c] \ {Parent}]
      /\ childEnd' = [c \in Children |-> childEnd[c] \ {Parent}]
  BY DEF ParentDies, Without, TypeInv
<1>2. TypeInv'
  BY <1>1 DEF TypeInv, Children
<1>3. ChildEndInv'
  <2>1. \A c \in Children : Parent \notin {c}
    BY DEF TypeInv, Children, Parent
  <2>2. \A c \in Children : childEnd'[c] = childEnd[c]
    BY <1>1, <2>1 DEF ChildEndInv
  <2> QED BY <1>1, <2>2 DEF ChildEndInv, Children
<1>4. HeldByYounger'
  BY <1>1 DEF HeldByYounger, Children
<1> QED BY <1>1, <1>2, <1>3, <1>4 DEF ClosingInv

LEMMA ChildKeeps ==
    ASSUME ForkInv, NEW c \in Children, Receive(c) \/ TargetEnds(c)
    PROVE  ForkInv'
<1> USE DEF ForkInv
<1>1. /\ UNCHANGED <<alive, slot, closing, forked>>
      /\ inbox' \in [Children -> {"nothing", "run", "stop"}]
  BY DEF Receive, TargetEnds, TypeInv
<1>2. CASE Exit(c)
  <2>1. /\ state' \in [Children -> {"idle", "busy", "gone"}]
        /\ parentEnd' \in [Children -> SUBSET (0..forked)]
        /\ childEnd' \in [Children -> SUBSET (0..forked)]
        /\ \A d \in Children : childEnd'[d] = IF state'[d] = "gone" THEN {} ELSE {d}
        /\ \A d \in Children : \A h \in parentEnd'[d] \ {Parent} :
              h > d /\ state'[h] # "gone"
    BY <1>2, ExitKeeps
  <2> QED BY <1>1, <2>1 DEF TypeInv, ClosingInv, ChildEndInv, HeldByYounger, Children, Parent
<1>3. CASE ~Exit(c)
  <2>1. /\ state[c] \in {"idle", "busy"}
        /\ \/ state' = [state EXCEPT ![c] = "busy"]
           \/ state' = [state EXCEPT ![c] = "idle"]
        /\ UNCHANGED <<parentEnd, childEnd>>
    BY <1>3 DEF Receive, TargetEnds
  <2>2. TypeInv'
    BY <1>1, <2>1 DEF TypeInv, Children
  <2>3. \A d \in Children : state'[d] = "gone" <=> state[d] = "gone"
    BY <2>1 DEF TypeInv
  <2>4. ChildEndInv'
    BY <1>1, <2>1, <2>3 DEF ChildEndInv, Children
  <2>5. HeldByYounger'
    BY <1>1, <2>1, <2>3 DEF HeldByYounger, TypeInv, Children, Parent
  <2> QED BY <1>1, <2>2, <2>4, <2>5 DEF ClosingInv
<1> QED BY <1>2, <1>3

LEMMA ForkTreeInductive == Spec => []ForkInv
<1>1. Init => ForkInv
  BY DEF Init, ForkInv, TypeInv, ClosingInv, ChildEndInv, HeldByYounger, Children, Ready
<1>2. ForkInv /\ [Next]_vars => ForkInv'
  <2> SUFFICES ASSUME ForkInv, [Next]_vars PROVE ForkInv'
    OBVIOUS
  <2>1. CASE ParentStep
    BY <2>1, SpawnKeeps, ParentKeeps DEF ParentStep
  <2>2. CASE ParentDies
    BY <2>2, ParentDeathKeeps
  <2>3. CASE ChildStep
    BY <2>3, ChildKeeps DEF ChildStep
  <2>4. CASE UNCHANGED vars
    BY <2>4 DEF vars, ForkInv, TypeInv, ClosingInv, ChildEndInv, HeldByYounger, Children
  <2> QED BY <2>1, <2>2, <2>3, <2>4 DEF Next
<1> QED BY <1>1, <1>2, PTL DEF Spec

-----------------------------------------------------------------------------
(* Copies of a parent's end go to younger siblings only: fork() copies the  *)
(* ends the parent has, and what a child exits with is closed.              *)
THEOREM EndsGoToYounger == Spec => []HeldByYounger
<1>1. ForkInv => HeldByYounger
  BY DEF ForkInv
<1> QED BY <1>1, ForkTreeInductive, PTL

(* The parent's poll() sees a hang-up exactly when the child is gone.       *)
THEOREM HangUpTellsDeath == Spec => []HangUpIsDeath
<1>1. ForkInv => HangUpIsDeath
  BY DEF ForkInv, ChildEndInv, HangUpIsDeath
<1> QED BY <1>1, ForkTreeInductive, PTL
=============================================================================
