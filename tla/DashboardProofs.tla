-------------------------- MODULE DashboardProofs --------------------------
(***************************************************************************)
(* The dashboard for any limit and any number of failures.  PhaseInv says   *)
(* which stages of the two threads go together; on it rest who holds the    *)
(* scraper, what the last frame shows and what a CPU figure is about.       *)
(***************************************************************************)
EXTENDS Dashboard, SequenceTheorems, TLAPS

OwnerStages  == {"new", "spawn", "inactive", "threw", "up", "join", "copy",
                 "sample", "process", "print", "restore", "gone"}
ThreadStages == {"none", "check", "copy", "sample", "process", "print", "wait", "done"}

(* Of n failures the newest, as many as Limit allows, oldest first. *)
Newest(n) == [i \in 1..Min({Limit, n}) |-> Max({0, n - Limit}) + i]

TypeInv ==
    /\ pc \in [Renderers -> OwnerStages \cup ThreadStages]
    /\ pc["owner"] \in OwnerStages /\ pc["thread"] \in ThreadStages
    /\ snap \in [Renderers -> Seq(Nat)]
    /\ published \in Nat

(* The thread exists between the constructor and the join, and is done      *)
(* before the destructor renders.                                           *)
PhaseInv ==
    /\ pc["owner"] \in {"new", "spawn", "inactive", "threw"} => pc["thread"] = "none"
    /\ pc["owner"] \in {"up", "join"} => pc["thread"] # "none"
    /\ pc["owner"] \in {"copy", "sample", "process", "print", "restore"} => pc["thread"] = "done"
    /\ pc["owner"] = "gone" => pc["thread"] \in {"none", "done"}

(* m_failures is exactly the newest failures, and without a thread there    *)
(* have been none. *)
ListInv ==
    /\ failures = Newest(published)
    /\ pc["thread"] = "none" => published = 0 /\ frame.failures = <<>>

(* From the destructor's copy on nothing is published and nobody else       *)
(* renders: what it copied stays the newest, and reaches the terminal.      *)
FinalInv ==
    /\ pc["owner"] \in {"sample", "process", "print"} => snap["owner"] = failures
    /\ pc["owner"] = "restore" => frame.failures = failures
    /\ pc["owner"] = "gone" => frame.failures = failures /\ terminal = "plain"
    /\ pc["owner"] \in {"new", "inactive"} => terminal = "plain"

ScreenInv == TypeInv /\ PhaseInv /\ ListInv /\ FinalInv

(* What two sets of counters have to do with each other when d was read     *)
(* after c, or its share of the process after that of c.                    *)
Since(c, d) ==
    /\ c.busy <= d.busy /\ c.mine <= d.mine /\ d.mine - c.mine <= d.busy - c.busy
    /\ c.back <= d.back /\ Moves(c) <= Moves(d)
    /\ c.back = d.back => c.idle <= d.idle

Counters == [busy : Nat, mine : Nat, idle : Nat, back : Nat]
Figures  == [cpu : BOOLEAN, busy : Int, mine : Int, total : Int, lag : Int, back : Int]

(* A figure measured since a snapshot that was taken after the start. *)
SoundFigure(f) ==
    f.cpu => /\ f.busy \in 0..(cpu.busy - Booted.busy)
             /\ f.mine \in 0..(f.busy + f.lag)
             /\ f.back = 0 => f.total \in f.busy..Moves(cpu)

(* What the counters can hold, so that a difference wraps only if the sum   *)
(* went back.                                                               *)
Fits(c) == Booted.busy <= c.busy /\ Moves(c) \in 0..MaxTicks

ReadInv ==
    /\ cpu \in Counters /\ Fits(cpu)
    /\ read \in [Renderers -> Counters]
    /\ previous \in [known : BOOLEAN, busy : Nat, mine : Nat, idle : Nat, back : Nat]
    /\ previous.known => Fits(previous) /\ Since(previous, cpu)
    /\ \A w \in Renderers : pc[w] = "process" =>
          /\ Fits(read[w]) /\ Since(read[w], cpu)
          /\ previous.known => Since(previous, read[w])

FigureInv ==
    /\ metrics \in [Renderers -> Figures] /\ \A w \in Renderers : SoundFigure(metrics[w])
    /\ frame.cpu \in Figures /\ SoundFigure(frame.cpu)

CpuInv == ReadInv /\ FigureInv

-----------------------------------------------------------------------------
(* Max and Min of two numbers are what one expects. *)
LEMMA MaxOfTwo ==
    ASSUME NEW a \in Int, NEW b \in Int
    PROVE  Max({a, b}) = IF a >= b THEN a ELSE b
<1> DEFINE m == IF a >= b THEN a ELSE b
<1>1. m \in {a, b} /\ \A y \in {a, b} : m >= y
  OBVIOUS
<1>2. \A x \in {a, b} : (\A y \in {a, b} : x >= y) => x = m
  OBVIOUS
<1> QED BY <1>1, <1>2 DEF Max

LEMMA MinOfTwo ==
    ASSUME NEW a \in Int, NEW b \in Int
    PROVE  Min({a, b}) = IF a <= b THEN a ELSE b
<1> DEFINE m == IF a <= b THEN a ELSE b
<1>1. m \in {a, b} /\ \A y \in {a, b} : m <= y
  OBVIOUS
<1>2. \A x \in {a, b} : (\A y \in {a, b} : x <= y) => x = m
  OBVIOUS
<1> QED BY <1>1, <1>2 DEF Min

(* How many there are, and after which failure they begin. *)
Kept(n)    == IF Limit <= n THEN Limit ELSE n
Dropped(n) == IF Limit <= n THEN n - Limit ELSE 0

LEMMA NewestIs ==
    ASSUME NEW n \in Nat
    PROVE  /\ Kept(n) \in Nat /\ Dropped(n) \in Nat
           /\ Newest(n) = [i \in 1..Kept(n) |-> Dropped(n) + i]
           /\ Newest(n) \in Seq(Nat) /\ Len(Newest(n)) = Kept(n)
<1>1. Kept(n) \in Nat /\ Dropped(n) \in Nat
  BY DashboardAssumption DEF Kept, Dropped
<1>2. Min({Limit, n}) = Kept(n) /\ Max({0, n - Limit}) = Dropped(n)
  BY DashboardAssumption, MinOfTwo, MaxOfTwo DEF Kept, Dropped
<1>3. Newest(n) = [i \in 1..Kept(n) |-> Dropped(n) + i]
  BY <1>2 DEF Newest
<1>4. [i \in 1..Kept(n) |-> Dropped(n) + i] \in Seq(Nat)
  BY <1>1
<1>5. Len([i \in 1..Kept(n) |-> Dropped(n) + i]) = Kept(n)
  BY <1>1
<1> QED BY <1>1, <1>3, <1>4, <1>5

(* m_failures after publish(): the new failure is there, and the oldest one *)
(* went if the list was full.                                               *)
LEMMA PublishKeepsNewest ==
    ASSUME NEW n \in Nat
    PROVE  Recent(Append(Newest(n), n + 1)) = Newest(n + 1)
<1> DEFINE k     == Kept(n)
           all   == Append(Newest(n), n + 1)
           first == k + 1 - Kept(n + 1)
<1>1. /\ n + 1 \in Nat /\ k \in Nat /\ Dropped(n) \in Nat /\ Dropped(n + 1) \in Nat
      /\ first \in 0..1 /\ Kept(n + 1) \in Nat
      /\ \A i \in 1..Kept(n + 1) : first + i = k + 1 => Dropped(n + 1) + i = n + 1
      /\ \A i \in 1..Kept(n + 1) : first + i # k + 1 => Dropped(n) + first = Dropped(n + 1)
  BY DashboardAssumption DEF Kept, Dropped
<1>2. \A i \in 1..k : Newest(n)[i] = Dropped(n) + i
  BY NewestIs
<1>3. /\ all \in Seq(Nat) /\ Len(all) = k + 1
      /\ \A i \in 1..(k + 1) : all[i] = IF i = k + 1 THEN n + 1 ELSE Dropped(n) + i
  <2> DEFINE old == Newest(n)
  <2>1. old \in Seq(Nat) /\ Len(old) = k
    BY NewestIs
  <2> HIDE DEF old
  <2>2. all = Append(old, n + 1)
    BY DEF old
  <2>3. \A i \in 1..k : old[i] = Dropped(n) + i
    BY <1>2 DEF old
  <2> HIDE DEF all, k
  <2> QED BY <1>1, <2>1, <2>2, <2>3
<1> HIDE DEF all
<1>4. Max({1, Len(all) - Limit + 1}) = first + 1
  <2>0. Len(all) \in Nat
    BY <1>3, LenProperties
  <2>1. Len(all) - Limit + 1 \in Int
    BY <2>0, DashboardAssumption
  <2>2. (IF 1 >= Len(all) - Limit + 1 THEN 1 ELSE Len(all) - Limit + 1) = first + 1
    <3>1. CASE Limit <= n
      BY <3>1, <1>3, DashboardAssumption DEF Kept
    <3>2. CASE ~(Limit <= n)
      <4>1. Kept(n) = n /\ Kept(n + 1) = n + 1
        BY <3>2, DashboardAssumption DEF Kept
      <4> QED BY <3>2, <4>1, <1>3, DashboardAssumption
    <3> QED BY <3>1, <3>2
  <2> QED BY <2>1, <2>2, MaxOfTwo
<1> HIDE DEF k, first
<1>5. Recent(all) = SubSeq(all, first + 1, k + 1)
  BY <1>3, <1>4 DEF Recent
<1>6. \A i \in (first + 1)..(k + 1) : all[i] \in Nat
  <2>1. \A i \in 1..Len(all) : all[i] \in Nat
    BY <1>3, ElementOfSeq
  <2> QED BY <1>1, <1>3, <2>1
<1>7. first + 1 \in Int /\ k + 1 \in Int /\ (k + 1) - (first + 1) + 1 = Kept(n + 1)
  BY <1>1 DEF first
<1>8. /\ SubSeq(all, first + 1, k + 1) \in Seq(Nat)
      /\ Len(SubSeq(all, first + 1, k + 1)) =
            IF first + 1 <= k + 1 THEN (k + 1) - (first + 1) + 1 ELSE 0
      /\ \A i \in 1..((k + 1) - (first + 1) + 1) :
            SubSeq(all, first + 1, k + 1)[i] = all[first + 1 + i - 1]
  BY <1>6, <1>7, SubSeqProperties
<1>9. /\ Recent(all) \in Seq(Nat) /\ Len(Recent(all)) = Kept(n + 1)
      /\ \A i \in 1..Kept(n + 1) : Recent(all)[i] = all[first + i]
  <2>1. \A i \in 1..Kept(n + 1) : first + 1 + i - 1 = first + i
    BY <1>1
  <2> QED BY <1>1, <1>5, <1>7, <1>8, <2>1
<1>10. \A i \in 1..Kept(n + 1) : Recent(all)[i] = Dropped(n + 1) + i
  <2> SUFFICES ASSUME NEW i \in 1..Kept(n + 1) PROVE Recent(all)[i] = Dropped(n + 1) + i
    OBVIOUS
  <2>1. first + i \in 1..(k + 1) /\ Recent(all)[i] = all[first + i]
    BY <1>1, <1>7, <1>9
  <2>2. CASE first + i = k + 1
    BY <1>1, <1>3, <2>1, <2>2
  <2>3. CASE first + i # k + 1
    BY <1>1, <1>3, <2>1, <2>3
  <2> QED BY <2>2, <2>3
<1>11. /\ Newest(n + 1) \in Seq(Nat) /\ Len(Newest(n + 1)) = Kept(n + 1)
       /\ \A i \in 1..Kept(n + 1) : Newest(n + 1)[i] = Dropped(n + 1) + i
  BY <1>1, NewestIs
<1>12. Recent(all) = Newest(n + 1)
  BY <1>9, <1>10, <1>11, SeqEqual
<1> QED BY <1>12 DEF all

LEMMA NewestOfNone == Newest(0) = <<>>
<1>1. Kept(0) = 0
  BY DashboardAssumption DEF Kept
<1> QED BY <1>1, NewestIs

-----------------------------------------------------------------------------
(* The stages of the two threads. *)
LEMMA StagesKept ==
    ASSUME TypeInv, PhaseInv, failures \in Seq(Nat), [Next]_vars
    PROVE  TypeInv' /\ PhaseInv'
<1> USE DEF TypeInv, PhaseInv, At, OwnerStages, ThreadStages, Renderers
<1>1. CASE Construct
  BY <1>1 DEF Construct
<1>2. CASE Spawn
  BY <1>2 DEF Spawn
<1>3. ASSUME NEW w \in Renderers, Copy(w) PROVE TypeInv' /\ PhaseInv'
  <2>1. snap' \in [Renderers -> Seq(Nat)]
    BY <1>3 DEF Copy
  <2> QED BY <1>3, <2>1 DEF Copy
<1>4. ASSUME NEW w \in Renderers, ReadMachine(w) \/ Sample(w) PROVE TypeInv' /\ PhaseInv'
  BY <1>4 DEF ReadMachine, Sample
<1>5. ASSUME NEW w \in Renderers, Show(w) PROVE TypeInv' /\ PhaseInv'
  BY <1>5 DEF Show
<1>6. CASE Run
  BY <1>6 DEF Run
<1>7. CASE Stop \/ Join \/ Restore
  BY <1>7 DEF Stop, Join, Restore
<1>8. CASE Publish
  BY <1>8 DEF Publish
<1>9. CASE Tick \/ UNCHANGED vars
  BY <1>9 DEF Tick, vars
<1> QED BY <1>1, <1>2, <1>3, <1>4, <1>5, <1>6, <1>7, <1>8, <1>9
        DEF Next, Owner, Thread, Render

(* What is on the screen.  Publish needs the destructor not to have begun,  *)
(* a frame of the thread needs the thread not to be done.                   *)
LEMMA ScreenKept == ASSUME ScreenInv, [Next]_vars PROVE ScreenInv'
<1> USE DEF ScreenInv
<1>1. failures \in Seq(Nat)
  BY NewestIs DEF TypeInv, ListInv
<1>2. TypeInv' /\ PhaseInv'
  BY <1>1, StagesKept
<1> SUFFICES ListInv' /\ FinalInv'
  BY <1>2
<1> USE DEF ListInv, FinalInv, At
<1>3. CASE Construct
  BY <1>3 DEF Construct, PhaseInv, TypeInv, Renderers, screen
<1>4. CASE Spawn
  BY <1>4 DEF Spawn, PhaseInv, TypeInv, Renderers, screen
<1>5. ASSUME NEW w \in Renderers, Copy(w) PROVE ListInv' /\ FinalInv'
  <2>1. CASE w = "owner"
    BY <1>5, <2>1 DEF Copy, TypeInv, Renderers, screen
  <2>2. CASE w = "thread"
    BY <1>5, <2>2 DEF Copy, TypeInv, Renderers, screen
  <2> QED BY <2>1, <2>2 DEF Renderers
<1>6. ASSUME NEW w \in Renderers, ReadMachine(w) \/ Sample(w) PROVE ListInv' /\ FinalInv'
  BY <1>6 DEF ReadMachine, Sample, TypeInv, Renderers, screen
<1>7. ASSUME NEW w \in Renderers, Show(w) PROVE ListInv' /\ FinalInv'
  <2>1. CASE w = "owner"
    BY <1>7, <2>1 DEF Show, TypeInv, PhaseInv, Renderers
  <2>2. CASE w = "thread"
    BY <1>7, <2>2 DEF Show, TypeInv, PhaseInv, Renderers
  <2> QED BY <2>1, <2>2 DEF Renderers
<1>8. CASE Run
  BY <1>8 DEF Run, TypeInv, Renderers, screen
<1>9. CASE Stop
  BY <1>9, NewestOfNone DEF Stop, TypeInv, PhaseInv, Renderers, screen
<1>10. CASE Join
  BY <1>10 DEF Join, TypeInv, PhaseInv, Renderers, screen
<1>11. CASE Restore
  BY <1>11 DEF Restore, TypeInv, PhaseInv, Renderers
<1>12. CASE Publish
  <2>1. failures' = Newest(published')
    BY <1>12, PublishKeepsNewest DEF Publish, TypeInv
  <2> QED BY <1>12, <2>1 DEF Publish, TypeInv, PhaseInv, screen
<1>13. CASE Tick \/ UNCHANGED vars
  BY <1>13 DEF Tick, vars, screen
<1> QED BY <1>3, <1>4, <1>5, <1>6, <1>7, <1>8, <1>9, <1>10, <1>11, <1>12, <1>13
        DEF Next, Owner, Thread, Render, Renderers

LEMMA ScreenInductive == Spec => []ScreenInv
<1>1. Init => ScreenInv
  <2> SUFFICES ASSUME Init PROVE ScreenInv
    OBVIOUS
  <2>1. TypeInv
    BY DEF Init, TypeInv, Renderers, OwnerStages, ThreadStages
  <2> QED BY <2>1, NewestOfNone DEF Init, ScreenInv, PhaseInv, ListInv, FinalInv
<1> QED BY <1>1, ScreenKept, PTL DEF Spec

-----------------------------------------------------------------------------
(* Two renderers are never inside render_current_frame() at once: the       *)
(* destructor renders after the join.                                       *)
THEOREM ScraperHasOneUser == Spec => []OneRenderer
<1>1. ScreenInv => OneRenderer
  BY DEF ScreenInv, PhaseInv, OneRenderer, Renderers
<1> QED BY <1>1, ScreenInductive, PTL

(* The destructor leaves a plain terminal with the newest failures on it.   *)
THEOREM LastFrameIsComplete == Spec => []LastFrame
<1>1. ScreenInv => LastFrame
  BY DEF ScreenInv, PhaseInv, ListInv, FinalInv, LastFrame, Newest
<1> QED BY <1>1, ScreenInductive, PTL

-----------------------------------------------------------------------------
(* The sum, and what has to do with it, of two readings in their order.     *)
LEMMA MovesIs ==
    ASSUME NEW c \in Counters
    PROVE  Moves(c) = c.busy + c.idle + 2 * c.back - 3 /\ Total(c) = c.busy + c.idle
  BY DEF Moves, Total, Booted, Counters

(* Unsigned differences that may have wrapped, once each, give the right    *)
(* difference of the busy ticks: what was idle cancels out.                 *)
LEMMA BusyCancels ==
    ASSUME NEW b1 \in Nat, NEW b2 \in Nat, NEW i1 \in Nat, NEW i2 \in Nat,
           b1 <= b2, b1 + i1 < Word, b2 + i2 < Word
    PROVE  Minus(Minus(b2 + i2, b1 + i1), Minus(i2, i1)) = b2 - b1
<1>1. Word \in Nat
  BY DashboardAssumption
<1>2. CASE i2 >= i1
  BY <1>1, <1>2 DEF Minus
<1>3. CASE i2 < i1 /\ b2 + i2 >= b1 + i1
  <2>1. Minus(b2 + i2, b1 + i1) = b2 + i2 - (b1 + i1) /\ Minus(i2, i1) = Word + i2 - i1
    BY <1>1, <1>3 DEF Minus
  <2>2. ~(b2 + i2 - (b1 + i1) >= Word + i2 - i1)
    BY <1>1, <1>3
  <2> QED BY <1>1, <2>1, <2>2 DEF Minus
<1>4. CASE b2 + i2 < b1 + i1
  BY <1>1, <1>4 DEF Minus
<1> QED BY <1>2, <1>3, <1>4

(* Time only adds to a figure's stretch. *)
LEMMA FiguresAge ==
    ASSUME cpu \in Counters, cpu' \in Counters, Since(cpu, cpu'), NEW f \in Figures,
           SoundFigure(f)
    PROVE  f.cpu => /\ f.busy \in 0..(cpu'.busy - Booted.busy)
                    /\ f.mine \in 0..(f.busy + f.lag)
                    /\ f.back = 0 => f.total \in f.busy..Moves(cpu')
<1>1. Moves(cpu) \in Int /\ Moves(cpu') \in Int
  BY MovesIs DEF Counters
<1> QED BY <1>1 DEF SoundFigure, Since, Booted, Counters, Figures

(* Readings in their order stay so. *)
LEMMA SinceSince ==
    ASSUME NEW a \in Counters, NEW b \in Counters, NEW c \in Counters,
           Since(a, b), Since(b, c)
    PROVE  Since(a, c)
<1>1. Moves(a) \in Int /\ Moves(b) \in Int /\ Moves(c) \in Int
  BY MovesIs DEF Counters
<1> QED BY <1>1 DEF Since, Counters

(* Without its mark a snapshot is a set of counters. *)
Plain(p) == [busy |-> p.busy, mine |-> p.mine, idle |-> p.idle, back |-> p.back]

LEMMA PlainIs ==
    ASSUME NEW p \in [known : BOOLEAN, busy : Nat, mine : Nat, idle : Nat, back : Nat]
    PROVE  /\ Plain(p) \in Counters
           /\ \A c : Since(Plain(p), c) <=> Since(p, c)
           /\ Fits(Plain(p)) <=> Fits(p)
           /\ Total(Plain(p)) = Total(p)
  BY DEF Plain, Counters, Since, Fits, Moves, Total

(* A figure is computed from a snapshot the dashboard took.  With another   *)
(* renderer's snapshot in between it would not be.                          *)
LEMMA FigureSound ==
    ASSUME ReadInv, NEW w \in Renderers, pc[w] = "process", previous.known
    PROVE  Figure(w, previous) \in Figures /\ SoundFigure(Figure(w, previous))
<1> DEFINE c == read[w]
           p == Plain(previous)
<1>1. /\ c \in Counters /\ p \in Counters /\ cpu \in Counters
      /\ Since(p, c) /\ Since(c, cpu) /\ Fits(p) /\ Fits(c)
  BY PlainIs DEF ReadInv
<1>2. /\ previous.busy = p.busy /\ previous.mine = p.mine /\ previous.idle = p.idle
      /\ previous.back = p.back /\ Total(previous) = Total(p)
  BY PlainIs DEF Plain, ReadInv
<1> HIDE DEF c, p
<1>3. /\ Total(c) = c.busy + c.idle /\ Total(p) = p.busy + p.idle
      /\ Moves(c) = c.busy + c.idle + 2 * c.back - 3
      /\ Moves(p) = p.busy + p.idle + 2 * p.back - 3
      /\ Moves(cpu) = cpu.busy + cpu.idle + 2 * cpu.back - 3
  BY <1>1, MovesIs
<1>4. /\ Total(c) \in Nat /\ Total(p) \in Nat /\ Total(c) < Word /\ Total(p) < Word
      /\ Word \in Nat
  BY <1>1, <1>3, DashboardAssumption DEF Fits, Counters
<1> DEFINE total == Minus(Total(c), Total(p))
           busy  == Minus(total, Minus(c.idle, p.idle))
           f == [cpu |-> TRUE, busy |-> busy, mine |-> Minus(cpu.mine, p.mine), total |-> total,
                 lag |-> cpu.mine - c.mine, back |-> c.back - p.back]
<1>5. Figure(w, previous) = IF total > 0 THEN f ELSE NoMetrics
  BY <1>2 DEF Figure, c
<1>6. NoMetrics \in Figures /\ SoundFigure(NoMetrics)
  BY DEF NoMetrics, Figures, SoundFigure
<1>7. busy = c.busy - p.busy
  BY <1>1, <1>3, <1>4, BusyCancels DEF Since, Counters
<1>8. Minus(cpu.mine, p.mine) = cpu.mine - p.mine
  BY <1>1 DEF Minus, Since, Counters
<1>9. total \in Int
  BY <1>4 DEF Minus
<1>10. c.back = p.back => total = (c.busy - p.busy) + (c.idle - p.idle) /\ c.idle >= p.idle
  BY <1>1, <1>3, <1>4 DEF Minus, Since, Counters
<1> HIDE DEF total, busy
<1>11. f \in Figures
  BY <1>1, <1>7, <1>8, <1>9 DEF Figures, Counters
<1>12. f.busy \in 0..(cpu.busy - Booted.busy)
  BY <1>1, <1>7 DEF Since, Fits, Counters, Booted
<1>13. f.mine \in 0..(f.busy + f.lag)
  BY <1>1, <1>7, <1>8 DEF Since, Counters
<1>14. f.back = 0 => f.total \in f.busy..Moves(cpu)
  <2>1. f.back = c.back - p.back /\ f.total = total /\ f.busy = c.busy - p.busy
    BY <1>7
  <2>2. c.back = p.back => total <= Moves(c) - Moves(p)
    BY <1>1, <1>3, <1>10 DEF Counters
  <2>3. /\ Moves(c) <= Moves(cpu) /\ Moves(p) >= 0
        /\ Moves(c) \in Int /\ Moves(p) \in Int /\ Moves(cpu) \in Int
    BY <1>1, <1>3 DEF Since, Fits, Counters
  <2>4. c.back \in Nat /\ p.back \in Nat /\ c.idle \in Nat /\ p.idle \in Nat
        /\ c.busy \in Nat /\ p.busy \in Nat
    BY <1>1 DEF Counters
  <2> QED BY <1>9, <1>10, <2>1, <2>2, <2>3, <2>4
<1>15. SoundFigure(f)
  BY <1>12, <1>13, <1>14 DEF SoundFigure
<1> HIDE DEF f
<1> QED BY <1>5, <1>6, <1>11, <1>15

LEMMA SampleSound ==
    ASSUME CpuInv, ScreenInv, NEW w \in Renderers, Sample(w)
    PROVE  CpuInv'
<1> USE DEF CpuInv
<1> DEFINE new  == IF previous.known THEN Figure(w, previous) ELSE NoMetrics
           taken == [known |-> TRUE, busy |-> read[w].busy, mine |-> cpu.mine,
                     idle |-> read[w].idle, back |-> read[w].back]
<1>1. /\ pc[w] = "process" /\ cpu' = cpu /\ frame' = frame /\ read' = read
      /\ \A v \in Renderers : pc'[v] # "process"
  BY DEF Sample, screen, At, ScreenInv, TypeInv, PhaseInv, Renderers
<1>2. NoMetrics \in Figures /\ SoundFigure(NoMetrics)
  BY DEF NoMetrics, Figures, SoundFigure
<1>3. new \in Figures /\ SoundFigure(new)
  BY <1>1, <1>2, FigureSound
<1>4. /\ taken \in [known : BOOLEAN, busy : Nat, mine : Nat, idle : Nat, back : Nat]
      /\ Fits(taken) /\ Since(taken, cpu)
  <2>1. /\ read[w] \in Counters /\ cpu \in Counters
        /\ Fits(read[w]) /\ Since(read[w], cpu)
    BY <1>1 DEF ReadInv
  <2>2. Moves(taken) = Moves(read[w])
    BY DEF Moves, Total
  <2> QED BY <2>1, <2>2 DEF Fits, Since, Counters
<1> HIDE DEF new, taken
<1>5. \/ metrics' = [metrics EXCEPT ![w] = new] /\ previous' = taken
      \/ metrics' = [metrics EXCEPT ![w] = NoMetrics] /\ previous' = previous
  BY DEF Sample, NoFigure, new, taken
<1>6. ReadInv'
  BY <1>1, <1>4, <1>5 DEF ReadInv, Fits, Since
<1>7. /\ metrics' \in [Renderers -> Figures]
      /\ \A v \in Renderers : SoundFigure(metrics'[v])
  BY <1>2, <1>3, <1>5 DEF FigureInv
<1>8. FigureInv'
  BY <1>1, <1>7 DEF FigureInv, SoundFigure
<1> QED BY <1>6, <1>8

LEMMA ReadMachineSound ==
    ASSUME CpuInv, ScreenInv, NEW w \in Renderers, ReadMachine(w)
    PROVE  CpuInv'
<1> USE DEF CpuInv
<1>1. cpu' = cpu /\ frame' = frame /\ previous' = previous /\ cpu \in Counters
  BY DEF ReadMachine, NoFigure, screen, ReadInv
<1>2. CASE /\ At(w, "sample", "process") /\ read' = [read EXCEPT ![w] = cpu]
           /\ UNCHANGED <<metrics, previous>>
  <2>1. Since(cpu, cpu)
    BY <1>1, MovesIs DEF Since, Counters
  <2>2. pc' = [pc EXCEPT ![w] = "process"] /\ metrics' = metrics
    BY <1>2 DEF At
  <2>3. ReadInv'
    BY <1>1, <1>2, <2>1, <2>2 DEF ReadInv, Fits, Since, ScreenInv, TypeInv
  <2>4. FigureInv'
    BY <1>1, <2>2 DEF FigureInv, SoundFigure
  <2> QED BY <2>3, <2>4
<1>3. CASE At(w, "sample", "print") /\ NoFigure(w) /\ UNCHANGED read
  <2>1. NoMetrics \in Figures /\ SoundFigure(NoMetrics)
    BY DEF NoMetrics, Figures, SoundFigure
  <2>2. metrics' = [metrics EXCEPT ![w] = NoMetrics]
    BY <1>3 DEF NoFigure
  <2>3. /\ metrics' \in [Renderers -> Figures]
        /\ \A v \in Renderers : SoundFigure(metrics'[v])
    BY <2>1, <2>2 DEF FigureInv
  <2>4. FigureInv'
    BY <1>1, <2>3 DEF FigureInv, SoundFigure
  <2>5. pc' = [pc EXCEPT ![w] = "print"] /\ read' = read
    BY <1>3 DEF At
  <2>6. ReadInv'
    BY <1>1, <2>5 DEF ReadInv, Fits, Since, ScreenInv, TypeInv
  <2> QED BY <2>4, <2>6
<1> QED BY <1>2, <1>3 DEF ReadMachine

LEMMA TickSound ==
    ASSUME CpuInv, Tick
    PROVE  CpuInv'
<1> USE DEF CpuInv
<1>1. /\ cpu \in Counters /\ cpu' \in Counters
      /\ \/ cpu'.busy = cpu.busy + 1 /\ cpu'.mine - cpu.mine \in {0, 1}
            /\ cpu'.idle = cpu.idle /\ cpu'.back = cpu.back
         \/ cpu'.busy = cpu.busy /\ cpu'.mine = cpu.mine
            /\ cpu'.idle = cpu.idle + 1 /\ cpu'.back = cpu.back
         \/ cpu'.busy = cpu.busy /\ cpu'.mine = cpu.mine
            /\ cpu'.idle = cpu.idle - 1 /\ cpu'.back = cpu.back + 1
  <2>1. cpu \in Counters
    BY DEF ReadInv
  <2>2. CASE \E m \in {0, 1} : cpu' = Moved(1, m, 0, 0)
    BY <2>1, <2>2 DEF Moved, Counters
  <2>3. CASE cpu' = Moved(0, 0, 1, 0)
    BY <2>1, <2>3 DEF Moved, Counters
  <2>4. CASE cpu.idle > 0 /\ cpu' = Moved(0, 0, -1, 1)
    BY <2>1, <2>4 DEF Moved, Counters
  <2> QED BY <2>2, <2>3, <2>4 DEF Tick
<1>2. Moves(cpu') = Moves(cpu) + 1 /\ Moves(cpu) \in Int
  BY <1>1, MovesIs DEF Counters
<1>3. Since(cpu, cpu')
  BY <1>1, <1>2 DEF Since, Counters
<1>4. Fits(cpu')
  BY <1>1, <1>2, DashboardAssumption DEF Fits, Tick, ReadInv, Counters, Booted
<1>5. UNCHANGED <<pc, read, metrics, previous, frame>>
  BY DEF Tick, scraper, screen
<1>6. previous.known => Since(previous, cpu')
  <2>1. previous.known => Since(Plain(previous), cpu) /\ Plain(previous) \in Counters
    BY PlainIs DEF ReadInv
  <2>2. previous.known => Since(Plain(previous), cpu')
    BY <1>1, <1>3, <2>1, SinceSince
  <2> QED BY <2>2, PlainIs DEF ReadInv
<1>7. \A w \in Renderers : pc[w] = "process" => Since(read[w], cpu')
  BY <1>1, <1>3, SinceSince DEF ReadInv
<1>8. ReadInv'
  BY <1>1, <1>4, <1>5, <1>6, <1>7 DEF ReadInv, Fits, Since
<1>9. FigureInv'
  <2>1. \A f \in Figures : SoundFigure(f) =>
           (f.cpu => /\ f.busy \in 0..(cpu'.busy - Booted.busy)
                     /\ f.mine \in 0..(f.busy + f.lag)
                     /\ f.back = 0 => f.total \in f.busy..Moves(cpu'))
    BY <1>1, <1>3, FiguresAge
  <2> QED BY <1>5, <2>1 DEF FigureInv, SoundFigure
<1> QED BY <1>8, <1>9

LEMMA CpuInductive == Spec => []CpuInv
<1>1. Init => CpuInv
  <2> SUFFICES ASSUME Init PROVE CpuInv
    OBVIOUS
  <2>1. /\ Booted \in Counters /\ Moves(Booted) = 0
        /\ NoMetrics \in Figures /\ NoMetrics.cpu = FALSE
        /\ NoSample \in [known : BOOLEAN, busy : Nat, mine : Nat, idle : Nat, back : Nat]
        /\ NoSample.known = FALSE
    BY DEF Booted, Counters, Moves, Total, NoMetrics, Figures, NoSample
  <2>2. \A w \in Renderers : pc[w] # "process"
    BY DEF Init, Renderers
  <2>3. ReadInv
    BY <2>1, <2>2, DashboardAssumption DEF Init, ReadInv, Fits, Counters, Booted
  <2>4. FigureInv
    BY <2>1 DEF Init, FigureInv, SoundFigure
  <2> QED BY <2>3, <2>4 DEF CpuInv
<1>2. ScreenInv /\ CpuInv /\ [Next]_vars => CpuInv'
  <2> SUFFICES ASSUME ScreenInv, CpuInv, [Next]_vars PROVE CpuInv'
    OBVIOUS
  <2>1. ASSUME NEW w \in Renderers, Sample(w) PROVE CpuInv'
    BY <2>1, SampleSound
  <2>2. ASSUME NEW w \in Renderers, ReadMachine(w) PROVE CpuInv'
    BY <2>2, ReadMachineSound
  <2>3. CASE Tick
    BY <2>3, TickSound
  <2>4. ASSUME UNCHANGED <<cpu, scraper>>, UNCHANGED frame \/ \E w \in Renderers : frame'.cpu = metrics[w],
               \A w \in Renderers : pc'[w] = "process" => pc[w] = "process"
        PROVE  CpuInv'
    BY <2>4 DEF CpuInv, ReadInv, FigureInv, scraper, SoundFigure, Fits, Since
  <2>5. ASSUME NEW w \in Renderers, Show(w) PROVE CpuInv'
    <3>1. UNCHANGED <<cpu, scraper>> /\ frame'.cpu = metrics[w]
      BY <2>5 DEF Show
    <3>2. \A v \in Renderers : pc'[v] = "process" => pc[v] = "process"
      BY <2>5 DEF Show, At, ScreenInv, TypeInv
    <3> QED BY <2>4, <3>1, <3>2
  <2>6. ASSUME NEW w \in Renderers, Copy(w) PROVE CpuInv'
    <3>1. UNCHANGED <<cpu, scraper, frame>>
      BY <2>6 DEF Copy, screen
    <3>2. \A v \in Renderers : pc'[v] = "process" => pc[v] = "process"
      BY <2>6 DEF Copy, At, ScreenInv, TypeInv
    <3> QED BY <2>4, <3>1, <3>2
  <2>7. CASE Construct \/ Spawn \/ Run \/ Stop \/ Join \/ Restore \/ Publish \/ UNCHANGED vars
    <3>1. UNCHANGED <<cpu, scraper, frame>>
      BY <2>7 DEF Construct, Spawn, Run, Stop, Join, Restore, Publish, vars, screen
    <3>2. \A v \in Renderers : pc'[v] = "process" => pc[v] = "process"
      BY <2>7 DEF Construct, Spawn, Run, Stop, Join, Restore, Publish, vars, At, ScreenInv, TypeInv,
                  Renderers
    <3> QED BY <2>4, <3>1, <3>2
  <2> QED BY <2>1, <2>2, <2>3, <2>5, <2>6, <2>7 DEF Next, Owner, Thread, Render, Renderers
<1> QED BY <1>1, <1>2, ScreenInductive, PTL DEF Spec

(* The CPU figures on the terminal are about a stretch after the start; the *)
(* busy ticks are right when the waiting went back, the share of the        *)
(* process is more than that only by the ticks between the two reads, and   *)
(* the first figure is within 100 per cent if the waiting did not go back.  *)
THEOREM FiguresAreSound == Spec => []PercentIsSound
<1>1. CpuInv => PercentIsSound
  BY DEF CpuInv, FigureInv, SoundFigure, PercentIsSound
<1> QED BY <1>1, CpuInductive, PTL
=============================================================================
