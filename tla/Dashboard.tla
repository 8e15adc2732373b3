------------------------------ MODULE Dashboard ------------------------------
(***************************************************************************)
(* console_dashboard with its system_scraper: the thread that fuzz() runs   *)
(* on makes it and destroys it, publish() is called by whoever sees a       *)
(* failure, and a thread of its own renders.  Both threads render through   *)
(* the same scraper and the same std::cout, neither of which has a lock.    *)
(*                                                                          *)
(* A failure is the number of its publish(); a section under m_mutex is one *)
(* step.  The counters of /proc move by themselves.                         *)
(***************************************************************************)
EXTENDS Integers, Sequences, SequencesExt

CONSTANTS Limit,        \* recent_failure_limit
          MaxEvents,    \* bound: calls of publish()
          MaxTicks,     \* bound: moves of the CPU counters
          Word          \* 2^64: an std::uint64_t holds 0..Word - 1

ASSUME DashboardAssumption ==
    /\ Limit \in Nat /\ MaxEvents \in Nat /\ MaxTicks \in Nat
    /\ Word \in Nat /\ MaxTicks + 3 < Word

VARIABLES
    pc,         \* pc["owner"], pc["thread"]
    failures,   \* m_failures
    stopped,    \* m_stopped
    snap,       \* snap[w]: the failures renderer w has copied
    read,       \* read[w]: the counters of the machine it just read
    metrics,    \* metrics[w]: what renderer w got from sample()
    previous,   \* m_previous_cpu
    terminal,   \* "plain", or "hidden": no cursor
    frame,      \* the last frame on the terminal
    cpu,        \* the counters of /proc as they stand
    published   \* history: number of publish() calls

screen  == <<terminal, frame>>
scraper == <<read, metrics, previous>>
vars == <<pc, failures, stopped, snap, scraper, screen, cpu, published>>

Renderers == {"owner", "thread"}

(* Ticks spent computing, those of them spent by this process, idle or      *)
(* waiting for a disk; history: how often the waiting went back.  The       *)
(* machine and the process had run before the dashboard was made.           *)
Booted == [busy |-> 2, mine |-> 1, idle |-> 1, back |-> 0]

Total(c) == c.busy + c.idle
Moves(c) == Total(c) + 2 * c.back - Total(Booted)

(* Figures are kept as their parts: busy / total and mine / total.  History *)
(* of a figure: ticks of the process between the two reads it ends with,    *)
(* and how often the waiting went back since the reads it begins with.      *)
NoMetrics == [cpu |-> FALSE, busy |-> 0, mine |-> 0, total |-> 0, lag |-> 0, back |-> 0]
NoSample  == [known |-> FALSE, busy |-> 0, mine |-> 0, idle |-> 0, back |-> 0]

Init ==
    /\ pc = [owner |-> "new", thread |-> "none"]
    /\ failures = <<>> /\ stopped = FALSE
    /\ snap = [w \in Renderers |-> <<>>]
    /\ read = [w \in Renderers |-> Booted]
    /\ metrics = [w \in Renderers |-> NoMetrics]
    /\ previous = NoSample
    /\ terminal = "plain" /\ frame = [failures |-> <<>>, cpu |-> NoMetrics]
    /\ cpu = Booted
    /\ published = 0

At(w, from, to) == pc[w] = from /\ pc' = [pc EXCEPT ![w] = to]

-----------------------------------------------------------------------------
(* The constructor.  Without a terminal on stdout the object does nothing,  *)
(* which "inactive" stands for.                                             *)
Construct ==
    \/ /\ At("owner", "new", "spawn") /\ terminal' = "hidden"
       /\ UNCHANGED <<failures, stopped, snap, scraper, frame, cpu, published>>
    \/ /\ At("owner", "new", "inactive")
       /\ UNCHANGED <<failures, stopped, snap, scraper, screen, cpu, published>>

(* std::thread may throw; the destructor is not run then. *)
Spawn ==
    /\ pc["owner"] = "spawn"
    /\ \/ pc' = [owner |-> "up", thread |-> "check"]
       \/ pc' = [pc EXCEPT !["owner"] = "threw"]
    /\ UNCHANGED <<failures, stopped, snap, scraper, screen, cpu, published>>

(* m_failures keeps the newest, as many as recent_failure_limit allows. *)
Recent(s) == SubSeq(s, Max({1, Len(s) - Limit + 1}), Len(s))

(* publish(): the notification wakes nobody, since the thread waits for     *)
(* m_stopped.                                                               *)
Publish ==
    /\ pc["owner"] \in {"up", "inactive"} /\ published < MaxEvents
    /\ IF pc["owner"] = "inactive" THEN UNCHANGED <<failures, published>>
       ELSE LET all == Append(failures, published + 1)
            IN  /\ published' = published + 1
                /\ failures' = Recent(all)
    /\ UNCHANGED <<pc, stopped, snap, scraper, screen, cpu>>

-----------------------------------------------------------------------------
(* render_current_frame() by the thread or by the destructor: copy, sample, *)
(* print.                                                                   *)
Copy(w) ==
    /\ At(w, "copy", "sample")
    /\ snap' = [snap EXCEPT ![w] = failures]
    /\ UNCHANGED <<failures, stopped, scraper, screen, cpu, published>>

(* std::uint64_t subtraction. *)
Minus(a, b) == IF a >= b THEN a - b ELSE Word + a - b

Figure(w, old) ==
    LET total == Minus(Total(read[w]), Total(old))
        idle  == Minus(read[w].idle, old.idle)
    IN  IF total > 0
        THEN [cpu |-> TRUE, busy |-> Minus(total, idle),
              mine |-> Minus(cpu.mine, old.mine), total |-> total,
              lag |-> cpu.mine - read[w].mine, back |-> read[w].back - old.back]
        ELSE NoMetrics

NoFigure(w) == metrics' = [metrics EXCEPT ![w] = NoMetrics] /\ UNCHANGED previous

(* read_cpu_snapshot(): /proc/stat, if it can be read, and then              *)
(* /proc/self/stat, which may have moved on by then.                        *)
ReadMachine(w) ==
    /\ \/ At(w, "sample", "process")
          /\ read' = [read EXCEPT ![w] = cpu] /\ UNCHANGED <<metrics, previous>>
       \/ At(w, "sample", "print") /\ NoFigure(w) /\ UNCHANGED read
    /\ UNCHANGED <<failures, stopped, snap, screen, cpu, published>>

(* Mutant: the first sample is compared with zero. *)
Sample_NoPrevious(w) ==
    /\ At(w, "process", "print")
    /\ metrics' = [metrics EXCEPT ![w] = Figure(w, previous)]
    /\ previous' = [known |-> TRUE, busy |-> read[w].busy, mine |-> cpu.mine,
                     idle |-> read[w].idle, back |-> read[w].back]
    /\ UNCHANGED <<failures, stopped, snap, read, screen, cpu, published>>

(* fill_cpu_metrics(): CPU use since the previous snapshot, if there is one *)
(* and the sum of the counters has moved.                                   *)
Sample(w) ==
    /\ At(w, "process", "print")
    /\ \/ /\ metrics' = [metrics EXCEPT ![w] =
                 IF previous.known THEN Figure(w, previous) ELSE NoMetrics]
          /\ previous' = [known |-> TRUE, busy |-> read[w].busy, mine |-> cpu.mine,
                           idle |-> read[w].idle, back |-> read[w].back]
       \/ NoFigure(w)
    /\ UNCHANGED <<failures, stopped, snap, read, screen, cpu, published>>

Show(w) ==
    /\ At(w, "print", IF w = "owner" THEN "restore" ELSE "wait")
    /\ frame' = [failures |-> snap[w], cpu |-> metrics[w]]
    /\ UNCHANGED <<failures, stopped, snap, scraper, terminal, cpu, published>>

Render(w) == Copy(w) \/ ReadMachine(w) \/ Sample(w) \/ Show(w)

-----------------------------------------------------------------------------
(* run(): m_stopped is looked at before a frame, and while waiting.         *)
Run ==
    /\ \/ ~stopped /\ (At("thread", "check", "copy") \/ At("thread", "wait", "check"))
       \/ stopped /\ (At("thread", "check", "done") \/ At("thread", "wait", "done"))
    /\ UNCHANGED <<failures, stopped, snap, scraper, screen, cpu, published>>

-----------------------------------------------------------------------------
(* Mutant: m_stopped is not set. *)
Stop_NoFlag ==
    /\ At("owner", "up", "join") \/ At("owner", "inactive", "gone")
    /\ UNCHANGED <<failures, stopped, snap, scraper, screen, cpu, published>>

(* The destructor. *)
Stop ==
    /\ \/ At("owner", "up", "join") /\ stopped' = TRUE
       \/ At("owner", "inactive", "gone") /\ UNCHANGED stopped
    /\ UNCHANGED <<failures, snap, scraper, screen, cpu, published>>

(* Mutant: the thread is left to end by itself. *)
Join_Detach ==
    /\ At("owner", "join", "copy")
    /\ UNCHANGED <<failures, stopped, snap, scraper, screen, cpu, published>>

(* Mutant: no last frame. *)
Join_NoFrame ==
    /\ pc["thread"] = "done" /\ At("owner", "join", "restore")
    /\ UNCHANGED <<failures, stopped, snap, scraper, screen, cpu, published>>

Join ==
    /\ pc["thread"] = "done" /\ At("owner", "join", "copy")
    /\ UNCHANGED <<failures, stopped, snap, scraper, screen, cpu, published>>

Restore ==
    /\ At("owner", "restore", "gone") /\ terminal' = "plain"
    /\ UNCHANGED <<failures, stopped, snap, scraper, frame, cpu, published>>

Moved(b, m, i, k) == [busy |-> cpu.busy + b, mine |-> cpu.mine + m,
                      idle |-> cpu.idle + i, back |-> cpu.back + k]

(* The machine computes, for this process or for others, or idles; what it  *)
(* counted as waiting may be less the next time.                            *)
Tick ==
    /\ Moves(cpu) < MaxTicks
    /\ \/ \E m \in {0, 1} : cpu' = Moved(1, m, 0, 0)
       \/ cpu' = Moved(0, 0, 1, 0)
       \/ cpu.idle > 0 /\ cpu' = Moved(0, 0, -1, 1)
    /\ UNCHANGED <<pc, failures, stopped, snap, scraper, screen, published>>

Owner == Construct \/ Spawn \/ Render("owner") \/ Stop \/ Join \/ Restore
Thread == Render("thread") \/ Run

Next == Owner \/ Thread \/ Publish \/ Tick

Spec == Init /\ [][Next]_vars

(* The threads are scheduled.  The owner need not leave fuzz(): Stop has no *)
(* fairness.                                                                *)
FairSpec == Spec /\ WF_vars(Thread) /\ WF_vars(Render("owner") \/ Join \/ Restore)

-----------------------------------------------------------------------------
(* The scraper and the stream are used by one thread at a time, although    *)
(* neither is under m_mutex (render_current_frame()).                       *)
OneRenderer ==
    ~\E v, w \in Renderers : v # w /\ pc[v] \in {"copy", "sample", "process", "print"}
                                   /\ pc[w] \in {"copy", "sample", "process", "print"}

(* The terminal is given back, with the last Limit failures on it, and      *)
(* after the thread has ended (~console_dashboard()).                       *)
LastFrame ==
    pc["owner"] = "gone" =>
        /\ terminal = "plain" /\ pc["thread"] \in {"none", "done"}
        /\ frame.failures =
              [i \in 1..Min({Limit, published}) |-> Max({0, published - Limit}) + i]

(* The CPU figures on the terminal are about a stretch of the dashboard's   *)
(* life, never about the time since boot.  What was computed is right even  *)
(* when a counter went back and the unsigned differences wrapped; the share *)
(* of the process is more than that only by what it computed between the    *)
(* two reads.  100 per cent bound the first figure only if the waiting did  *)
(* not go back in the stretch (fill_cpu_metrics()).                         *)
PercentIsSound ==
    LET f == frame.cpu
    IN  f.cpu => /\ f.busy \in 0..(cpu.busy - Booted.busy)
                 /\ f.mine \in 0..(f.busy + f.lag)
                 /\ f.back = 0 => f.total \in f.busy..Moves(cpu)

(* A destructor that began gives the terminal back. *)
DestructorReturns == (pc["owner"] = "join") ~> (pc["owner"] = "gone")
=============================================================================
