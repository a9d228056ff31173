---------------------------- MODULE RateLimiter -----------------------------
(***************************************************************************)
(* The UDP half of the XDP program (spa-ebpf, udp_gate and rate_ok): the   *)
(* size filter and the per-source fixed-window limiter in front of the     *)
(* daemon.  RATE.get and RATE.insert are two steps, and a packet acts on   *)
(* the time it read on arrival, so CPUs serving one source interleave.     *)
(***************************************************************************)
EXTENDS Integers, FiniteSets, Sequences

CONSTANTS
    Addr,           \* source addresses
    Cpu,            \* CPUs running the program
    Queue,          \* source -> the CPUs the interface may hand its packets to (external)
    Size,           \* payload sizes packets come with
    KnockMin, KnockMax, \* KNOCK_MIN, KNOCK_MAX
    RateLimit,      \* RATE_LIMIT
    RateWindow,     \* RATE_WINDOW_NS, in ticks
    RateCap,        \* max_entries of RATE (65536)
    Word,           \* 2^64, the modulus of wrapping_sub
    MaxLag,         \* bound on the time one run of the program takes
    MaxTime,        \* bound on the clock
    MaxPass         \* bound on the knocks of one source and one tick

ASSUME RateAssumption ==
    /\ Queue \in [Addr -> SUBSET Cpu]
    /\ Size \subseteq Nat /\ KnockMin \in Nat /\ KnockMax \in Nat
    /\ RateLimit \in Nat \ {0} /\ RateWindow \in Nat \ {0} /\ RateCap \in Nat \ {0}
    /\ MaxLag \in Nat /\ MaxTime \in Nat /\ MaxPass \in Nat
    /\ Word \in Nat /\ RateWindow + MaxTime + MaxLag < Word

VARIABLES
    mono,           \* bpf_ktime_get_ns
    rate,           \* RATE: source -> [window, count], or NoState
    run,            \* CPU -> the packet it is working on
    log,            \* history: source -> arrival times of the knocks let through
    evicted         \* history: source -> how often RATE evicted it

vars == <<mono, rate, run, log, evicted>>

RateState == [window : Nat, count : Nat]
NoState   == [window |-> 0, count |-> 0]      \* a stored count is positive
Idling    == [step |-> "idle"]
Run == [src : Addr, now : Nat, step : {"get"}]
           \cup [src : Addr, now : Nat, step : {"put"}, next : RateState]

WrappingSub(a, b) == (a - b) % Word

\* udp_gate's size filter on the payload between the UDP header and data_end.
SizeOk(s) == KnockMin <= s /\ s <= KnockMax

\* A packet of another size is dropped before any map is touched.
DropSize(c, s) == run[c] = Idling /\ ~SizeOk(s) /\ UNCHANGED vars

\* The program reads the clock for a knock that passes the size filter.
Arrive(c, a, s) ==
    /\ run[c] = Idling /\ c \in Queue[a]
    /\ SizeOk(s)
    /\ Cardinality({i \in DOMAIN log[a] : log[a][i] = mono}) < MaxPass
    /\ run' = [run EXCEPT ![c] = [src |-> a, now |-> mono, step |-> "get"]]
    /\ UNCHANGED <<mono, rate, log, evicted>>

\* The window the source is in is not over.
WindowOpen(s, now) == s # NoState /\ WrappingSub(now, s.window) < RateWindow

\* rate_ok returns true.
BudgetLeft(s, now) == WindowOpen(s, now) => s.count < RateLimit

\* Mutant: a new window is dated a window back, as if aligned downwards.
NextStateAligned(s, now) ==
    IF WindowOpen(s, now) THEN [s EXCEPT !.count = @ + 1]
                          ELSE [window |-> now - RateWindow, count |-> 1]

\* Mutant: every knock starts a new window.
NextStateFresh(s, now) == [window |-> now, count |-> 1]

\* The state rate_ok stores: one more in the open window, or a new window.
NextState(s, now) ==
    IF WindowOpen(s, now) THEN [s EXCEPT !.count = @ + 1]
                          ELSE [window |-> now, count |-> 1]

\* RATE.get: over budget the packet is dropped, else the new state is computed.
Get(c) ==
    /\ run[c] # Idling /\ run[c].step = "get"
    /\ LET s == rate[run[c].src]
           now == run[c].now
       IN  run' = IF BudgetLeft(s, now)
                  THEN [run EXCEPT ![c] = [src |-> run[c].src, now |-> now, step |-> "put",
                                           next |-> NextState(s, now)]]
                  ELSE [run EXCEPT ![c] = Idling]
    /\ UNCHANGED <<mono, rate, log, evicted>>

\* RATE.insert and XDP_PASS.  An LRU hash that is full evicts another source.
Put(c) ==
    /\ run[c] # Idling /\ run[c].step = "put"
    /\ LET a == run[c].src
           s == run[c].next
           full == Cardinality({b \in Addr : rate[b] # NoState}) >= RateCap
       IN  /\ \/ /\ rate[a] # NoState \/ ~full
                 /\ rate' = [rate EXCEPT ![a] = s]
                 /\ UNCHANGED evicted
              \/ /\ rate[a] = NoState /\ full
                 /\ \E b \in Addr : /\ rate[b] # NoState
                                    /\ rate' = [rate EXCEPT ![b] = NoState, ![a] = s]
                                    /\ evicted' = [evicted EXCEPT ![b] = @ + 1]
           /\ log' = [log EXCEPT ![a] = Append(@, run[c].now)]
    /\ run' = [run EXCEPT ![c] = Idling]
    /\ UNCHANGED mono

Tick ==
    /\ mono < MaxTime
    /\ \A c \in Cpu : run[c] # Idling => mono < run[c].now + MaxLag
    /\ mono' = mono + 1
    /\ UNCHANGED <<rate, run, log, evicted>>

Init ==
    /\ mono = 0
    /\ rate = [a \in Addr |-> NoState]
    /\ run = [c \in Cpu |-> Idling]
    /\ log = [a \in Addr |-> <<>>]
    /\ evicted = [a \in Addr |-> 0]

Next ==
    \/ \E c \in Cpu :
          \/ \E s \in Size : DropSize(c, s) \/ \E a \in Addr : Arrive(c, a, s)
          \/ Get(c) \/ Put(c)
    \/ Tick

Spec == Init /\ [][Next]_vars

-----------------------------------------------------------------------------
\* Types.
TypeOK ==
    /\ mono \in 0..MaxTime
    /\ rate \in [Addr -> RateState]
    /\ run \in [Cpu -> Run \cup {Idling}]
    /\ log \in [Addr -> Seq(Nat)]
    /\ evicted \in [Addr -> Nat]

\* What the comment on rate_ok says: at most RATE_LIMIT knocks per window.  Of a
\* source RATE has an entry for, no more than that many arrived in the window of
\* the entry and were let through.
AtMostLimitPerWindow ==
    \A a \in Addr : rate[a] # NoState =>
        Cardinality({i \in DOMAIN log[a] :
                        /\ rate[a].window <= log[a][i]
                        /\ log[a][i] < rate[a].window + RateWindow}) <= RateLimit

\* What the limiter promises the daemon wherever its windows begin, when each
\* source is handed to one CPU: any interval of a window's length meets at most
\* two windows, and misses at least the knock that opened the first, so it carries
\* fewer than two budgets of a source, and one budget more for every time RATE
\* evicted it to make room for another, between get and insert too.
AtMostTwoBudgets ==
    \A a \in Addr : \A i, j \in 1..Len(log[a]) :
        j - i >= (2 + evicted[a]) * RateLimit - 1 => log[a][j] - log[a][i] >= RateWindow
=============================================================================
