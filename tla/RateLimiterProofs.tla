------------------------- MODULE RateLimiterProofs --------------------------
(***************************************************************************)
(* What the limiter lets through of a source, for every number of sources  *)
(* and CPUs, every budget and window and every capacity of RATE, when the  *)
(* interface hands each source to one CPU.                                 *)
(***************************************************************************)
EXTENDS RateLimiter, TLAPS

-----------------------------------------------------------------------------
(***************************************************************************)
(* Facts about the operators                                               *)
(***************************************************************************)
\* The state rate_ok stores.
LEMMA NextStateFacts ==
    ASSUME NEW s \in RateState, NEW now \in Nat
    PROVE  NextState(s, now) \in RateState
<1>1. CASE WindowOpen(s, now)
  <2>1. s.count \in Nat /\ s.window \in Nat BY DEF RateState
  <2>2. NextState(s, now) = [s EXCEPT !.count = s.count + 1] BY <1>1 DEF NextState
  <2>3. NextState(s, now) = [window |-> s.window, count |-> s.count + 1]
        BY <2>2 DEF RateState
  <2> QED BY <2>1, <2>3 DEF RateState
<1>2. CASE ~WindowOpen(s, now) BY <1>2 DEF NextState, RateState
<1> QED BY <1>1, <1>2

\* What a CPU works on.
LEMMA RunFacts ==
    ASSUME TypeOK, NEW c \in Cpu, run[c] # Idling
    PROVE  /\ run[c].src \in Addr /\ run[c].now \in Nat
           /\ run[c].step = "put" => run[c].next \in RateState
BY DEF TypeOK, Run

-----------------------------------------------------------------------------
(***************************************************************************)
(* Type correctness                                                        *)
(***************************************************************************)
\* Every step keeps every variable well typed.
LEMMA TypeStep == TypeOK /\ [Next]_vars => TypeOK'
<1> SUFFICES ASSUME TypeOK, [Next]_vars PROVE TypeOK' OBVIOUS
<1>1. CASE UNCHANGED vars BY <1>1 DEF vars, TypeOK
<1>2. ASSUME NEW c \in Cpu, NEW s \in Size, DropSize(c, s) PROVE TypeOK'
      BY <1>2, <1>1 DEF DropSize
<1>3. ASSUME NEW c \in Cpu, NEW a \in Addr, NEW s \in Size, Arrive(c, a, s) PROVE TypeOK'
  <2>1. mono \in Nat BY RateAssumption DEF TypeOK
  <2>2. [src |-> a, now |-> mono, step |-> "get"] \in Run BY <2>1 DEF Run
  <2>3. run' \in [Cpu -> Run \cup {Idling}] BY <1>3, <2>2 DEF Arrive, TypeOK
  <2> QED BY <1>3, <2>3 DEF Arrive, TypeOK
<1>4. ASSUME NEW c \in Cpu, Get(c) PROVE TypeOK'
  <2> DEFINE s == rate[run[c].src]
             now == run[c].now
             packet == [src |-> run[c].src, now |-> now, step |-> "put",
                        next |-> NextState(s, now)]
  <2>1. run[c].src \in Addr /\ now \in Nat BY <1>4, RunFacts DEF Get
  <2>2. s \in RateState BY <2>1 DEF TypeOK
  <2>3. \/ BudgetLeft(s, now) /\ run' = [run EXCEPT ![c] = packet]
        \/ run' = [run EXCEPT ![c] = Idling]
        BY <1>4 DEF Get
  <2>4. BudgetLeft(s, now) => NextState(s, now) \in RateState BY <2>1, <2>2, NextStateFacts
  <2>5. BudgetLeft(s, now) => packet \in Run BY <2>1, <2>4 DEF Run
  <2> HIDE DEF packet, s, now
  <2>6. run' \in [Cpu -> Run \cup {Idling}] BY <2>3, <2>5 DEF TypeOK
  <2> QED BY <1>4, <2>6 DEF Get, TypeOK
<1>5. ASSUME NEW c \in Cpu, Put(c) PROVE TypeOK'
  <2>1. run[c].src \in Addr /\ run[c].next \in RateState BY <1>5, RunFacts DEF Put
  <2>2. NoState \in RateState BY DEF NoState, RateState
  <2>3. rate' \in [Addr -> RateState] BY <1>5, <2>1, <2>2 DEF Put, TypeOK
  <2>4. log' \in [Addr -> Seq(Nat)]
    <3>1. run[c].now \in Nat BY <1>5, RunFacts DEF Put
    <3>2. log[run[c].src] \in Seq(Nat) BY <2>1 DEF TypeOK
    <3>3. Append(log[run[c].src], run[c].now) \in Seq(Nat) BY <3>1, <3>2
    <3>4. log' = [log EXCEPT ![run[c].src] = Append(log[run[c].src], run[c].now)]
          BY <1>5 DEF Put
    <3> QED BY <2>1, <3>3, <3>4 DEF TypeOK
  <2>6. evicted' \in [Addr -> Nat] BY <1>5 DEF Put, TypeOK
  <2>7. run' \in [Cpu -> Run \cup {Idling}] BY <1>5 DEF Put, TypeOK
  <2>8. UNCHANGED mono BY <1>5 DEF Put
  <2> QED BY <2>3, <2>4, <2>6, <2>7, <2>8 DEF TypeOK
<1>6. CASE Tick
  <2>1. mono' \in 0..MaxTime BY <1>6, RateAssumption DEF Tick, TypeOK
  <2> QED BY <1>6, <2>1 DEF Tick, TypeOK
<1> QED BY <1>1, <1>2, <1>3, <1>4, <1>5, <1>6 DEF Next

\* RATE is empty and no packet is being worked on to begin with.
LEMMA TypeInit == Init => TypeOK
<1> SUFFICES ASSUME Init PROVE TypeOK OBVIOUS
<1>1. NoState \in RateState BY DEF NoState, RateState
<1>2. mono \in 0..MaxTime BY RateAssumption DEF Init
<1>3. rate \in [Addr -> RateState] BY <1>1 DEF Init
<1>4. log \in [Addr -> Seq(Nat)] BY DEF Init
<1> QED BY <1>2, <1>3, <1>4 DEF Init, TypeOK

\* TypeOK is an invariant of the limiter.
THEOREM TypeCorrect == Spec => []TypeOK
BY TypeInit, TypeStep, PTL DEF Spec

-----------------------------------------------------------------------------
(***************************************************************************)
(* Two budgets in any interval                                             *)
(***************************************************************************)
\* The interface hands every source to one CPU.
OneQueue == \A a \in Addr : \A c, d \in Queue[a] : c = d

\* Arrivals in order.
Sorted(q) == \A i, j \in 1..Len(q) : i <= j => q[i] <= q[j]

\* The budget of a source, and once more for each of the k times it was evicted.
Reach(k) == (1 + k) * RateLimit

\* What an entry of RATE says about the knocks let through: its count of them
\* are the last, the window began with the first of those, and whatever lies m
\* before that is a window older.  Of a source that has no entry, whatever lies m
\* before the last knock is a window older than that.
Tracks(q, s, m) ==
    IF s = NoState
    THEN \A i \in 1..Len(q) : i <= Len(q) - m + 1 => q[Len(q)] - q[i] >= RateWindow
    ELSE /\ 1 <= s.count /\ s.count <= RateLimit /\ s.count <= Len(q)
         /\ q[Len(q) - s.count + 1] = s.window
         /\ \A i \in 1..Len(q) : i <= Len(q) - s.count - m + 1 =>
                s.window - q[i] >= RateWindow

\* m knocks and a budget more in a row spread over a window.
Spread(q, m) ==
    \A i, j \in 1..Len(q) : j - i >= m + RateLimit - 1 => q[j] - q[i] >= RateWindow

\* The reach of a source is a budget at least, and one budget more per eviction.
LEMMA ReachFacts ==
    ASSUME NEW k \in Nat
    PROVE  /\ (1 + k) * RateLimit \in Nat /\ (1 + k) * RateLimit >= RateLimit
           /\ (1 + (k + 1)) * RateLimit = (1 + k) * RateLimit + RateLimit
           /\ (2 + k) * RateLimit = (1 + k) * RateLimit + RateLimit
<1>1. RateLimit \in Nat BY RateAssumption
<1>2. k * RateLimit \in Nat BY <1>1
<1>3. (1 + k) * RateLimit = RateLimit + k * RateLimit BY <1>1
<1>4. (2 + k) * RateLimit = 2 * RateLimit + k * RateLimit BY <1>1
<1>5. 1 + (k + 1) = 2 + k OBVIOUS
<1> QED BY <1>1, <1>2, <1>3, <1>4, <1>5

\* On times the clock can show, in order, wrapping_sub is a plain difference.
LEMMA WindowAge ==
    ASSUME NEW now \in Nat, NEW w \in Nat, w <= now, now <= MaxTime
    PROVE  WrappingSub(now, w) = now - w
<1>1. Word \in Nat /\ now - w \in 0..Word-1 BY RateAssumption
<1>2. (now - w) % Word = now - w BY <1>1
<1> QED BY <1>2 DEF WrappingSub

\* One more arrival.
LEMMA OneMoreArrival ==
    ASSUME NEW q \in Seq(Nat), NEW now \in Nat
    PROVE  /\ Append(q, now) \in Seq(Nat)
           /\ Len(Append(q, now)) = Len(q) + 1 /\ Len(q) \in Nat
           /\ Append(q, now)[Len(q) + 1] = now
           /\ \A i \in 1..Len(q) : Append(q, now)[i] = q[i] /\ q[i] \in Nat
OBVIOUS

\* An arrival no earlier than the others keeps them in order.
LEMMA SortedGrows ==
    ASSUME NEW q \in Seq(Nat), NEW now \in Nat, Sorted(q), \A i \in 1..Len(q) : q[i] <= now
    PROVE  Sorted(Append(q, now))
<1> DEFINE t == Append(q, now)
<1>1. /\ Len(t) = Len(q) + 1 /\ Len(q) \in Nat /\ t[Len(q) + 1] = now
      /\ \A i \in 1..Len(q) : t[i] = q[i] /\ q[i] \in Nat
      BY OneMoreArrival
<1> HIDE DEF t
<1> SUFFICES ASSUME NEW i \in 1..Len(t), NEW j \in 1..Len(t), i <= j PROVE t[i] <= t[j]
    BY DEF Sorted, t
<1>2. CASE j = Len(q) + 1
  <2>1. CASE i = j BY <1>1, <1>2, <2>1
  <2>2. CASE i # j BY <1>1, <1>2, <2>2
  <2> QED BY <2>1, <2>2
<1>3. CASE j # Len(q) + 1
  <2>1. i \in 1..Len(q) /\ j \in 1..Len(q) BY <1>1, <1>3
  <2> QED BY <1>1, <2>1 DEF Sorted
<1> QED BY <1>2, <1>3

\* One more knock in the open window: the entry still says what it says, since
\* the knock a budget and more before the window is as old as before.
LEMMA TracksInWindow ==
    ASSUME NEW q \in Seq(Nat), NEW s \in RateState, NEW now \in Nat,
           NEW m \in Nat, s # NoState, s.count < RateLimit, Tracks(q, s, m)
    PROVE  Tracks(Append(q, now), [s EXCEPT !.count = @ + 1], m)
<1> DEFINE t == Append(q, now)
           r == [s EXCEPT !.count = @ + 1]
<1>1. Len(t) = Len(q) + 1 /\ Len(q) \in Nat BY OneMoreArrival
<1>2. \A i \in 1..Len(q) : t[i] = q[i] /\ q[i] \in Nat BY OneMoreArrival
<1>3. r.count = s.count + 1 /\ r.window = s.window /\ s.count \in Nat /\ s.window \in Nat
      BY DEF RateState
<1>4. RateLimit \in Nat /\ RateWindow \in Nat BY RateAssumption
<1>5. 1 <= s.count /\ s.count <= Len(q) BY DEF Tracks
<1>6. q[Len(q) - s.count + 1] = s.window BY DEF Tracks
<1>7. \A i \in 1..Len(q) : i <= Len(q) - s.count - m + 1 =>
            s.window - q[i] >= RateWindow
      BY DEF Tracks
<1> HIDE DEF t, r
<1>8. r # NoState BY <1>3, <1>5 DEF NoState
<1>9. Len(t) - r.count + 1 = Len(q) - s.count + 1 /\ Len(q) - s.count + 1 \in 1..Len(q)
  <2> DEFINE n == Len(q)
             c == s.count
  <2>1. n \in Nat /\ c \in Nat /\ 1 <= c /\ c <= n BY <1>1, <1>3, <1>5
  <2>2. Len(t) = n + 1 /\ r.count = c + 1 BY <1>1, <1>3
  <2> HIDE DEF n, c
  <2>3. (n + 1) - (c + 1) + 1 = n - c + 1 /\ n - c + 1 \in 1..n BY <2>1
  <2> QED BY <2>2, <2>3 DEF n, c
<1>10. t[Len(t) - r.count + 1] = r.window BY <1>2, <1>3, <1>6, <1>9
<1>11. ASSUME NEW i \in 1..Len(t), i <= Len(t) - r.count - m + 1
       PROVE  r.window - t[i] >= RateWindow
  <2> DEFINE n == Len(q)
             c == s.count
  <2>1. n \in Nat /\ c \in Nat /\ 1 <= c /\ i \in 1..n+1 BY <1>1, <1>3, <1>5
  <2>2. i <= (n + 1) - (c + 1) - m + 1 BY <1>1, <1>3, <1>11
  <2> HIDE DEF n, c
  <2>3. i \in 1..n /\ i <= n - c - m + 1 BY <2>1, <2>2
  <2> QED BY <1>2, <1>3, <1>7, <2>3 DEF n, c
<1>12. 1 <= r.count /\ r.count <= RateLimit /\ r.count <= Len(t) BY <1>1, <1>3, <1>4, <1>5
<1> QED BY <1>8, <1>10, <1>11, <1>12 DEF Tracks, t, r

\* The knock that opens a new window: everything up to the opening of the last
\* one is a window old, and so is what lies m before, if the entry was evicted.
LEMMA TracksNewWindow ==
    ASSUME NEW q \in Seq(Nat), NEW s \in RateState, NEW now \in Nat,
           NEW m \in Nat, m >= RateLimit,
           s # NoState => now - s.window >= RateWindow,
           Sorted(q), Tracks(q, s, m), \A i \in 1..Len(q) : q[i] <= now
    PROVE  Tracks(Append(q, now), [window |-> now, count |-> 1], m)
<1> DEFINE t == Append(q, now)
           r == [window |-> now, count |-> 1]
<1>1. Len(t) = Len(q) + 1 /\ Len(q) \in Nat /\ t[Len(q) + 1] = now BY OneMoreArrival
<1>2. \A i \in 1..Len(q) : t[i] = q[i] /\ q[i] \in Nat BY OneMoreArrival
<1>3. r.count = 1 /\ r.window = now /\ s.count \in Nat /\ s.window \in Nat BY DEF RateState
<1>4. RateLimit \in Nat /\ 1 <= RateLimit /\ RateWindow \in Nat BY RateAssumption
<1> HIDE DEF t, r
<1>5. r # NoState BY <1>3 DEF NoState
<1>6. Len(t) - r.count + 1 = Len(q) + 1 BY <1>1, <1>3
<1>7. ASSUME NEW i \in 1..Len(t), i <= Len(t) - r.count - m + 1
      PROVE  r.window - t[i] >= RateWindow
  <2>1. i \in 1..Len(q) /\ i <= Len(q) - m + 1 BY <1>1, <1>3, <1>4, <1>7
  <2>2. t[i] = q[i] /\ q[i] \in Nat BY <1>2, <2>1
  <2>3. CASE s = NoState
    <3>1. q[Len(q)] - q[i] >= RateWindow BY <2>1, <2>3 DEF Tracks
    <3>2. Len(q) \in 1..Len(q) BY <1>1, <2>1
    <3>3. q[Len(q)] <= now /\ q[Len(q)] \in Nat BY <1>2, <3>2
    <3> QED BY <1>3, <1>4, <2>2, <3>1, <3>3
  <2>4. CASE s # NoState
    <3>1. s.count <= RateLimit /\ 1 <= s.count /\ s.count <= Len(q) BY <2>4 DEF Tracks
    <3>2. q[Len(q) - s.count + 1] = s.window BY <2>4 DEF Tracks
    <3> DEFINE n == Len(q)
               c == s.count
    <3>3. n \in Nat /\ c \in Nat /\ 1 <= c /\ c <= n /\ c <= RateLimit BY <1>1, <1>3, <3>1
    <3>4. i \in 1..n /\ i <= n - m + 1 BY <2>1
    <3> HIDE DEF n, c
    <3>5. n - c + 1 \in 1..n /\ i <= n - c + 1 BY <1>4, <3>3, <3>4
    <3>6. q[i] <= s.window BY <2>1, <3>2, <3>5 DEF Sorted, n, c
    <3>7. now - s.window >= RateWindow BY <2>4
    <3> QED BY <1>3, <1>4, <2>2, <3>6, <3>7
  <2> QED BY <2>3, <2>4
<1>8. 1 <= r.count /\ r.count <= RateLimit /\ r.count <= Len(t) BY <1>1, <1>3, <1>4
<1>9. t[Len(t) - r.count + 1] = r.window BY <1>1, <1>3, <1>6
<1> QED BY <1>5, <1>7, <1>8, <1>9 DEF Tracks, t, r

\* An eviction: without its entry a source is a budget further behind at most.
LEMMA TracksEvicted ==
    ASSUME NEW q \in Seq(Nat), NEW s \in RateState, NEW m \in Nat,
           s # NoState, Sorted(q), Tracks(q, s, m)
    PROVE  Tracks(q, NoState, m + RateLimit) /\ Tracks(q, s, m + RateLimit)
<1>1. Len(q) \in Nat /\ \A i \in 1..Len(q) : q[i] \in Nat OBVIOUS
<1>2. s.count \in Nat /\ s.window \in Nat BY DEF RateState
<1>3. RateLimit \in Nat /\ RateWindow \in Nat BY RateAssumption
<1>4. 1 <= s.count /\ s.count <= RateLimit /\ s.count <= Len(q) BY DEF Tracks
<1>5. q[Len(q) - s.count + 1] = s.window BY DEF Tracks
<1>6. \A i \in 1..Len(q) : i <= Len(q) - s.count - m + 1 => s.window - q[i] >= RateWindow
      BY DEF Tracks
<1> DEFINE n == Len(q)
           c == s.count
<1>7. n \in Nat /\ c \in Nat /\ 1 <= c /\ c <= n /\ c <= RateLimit BY <1>1, <1>2, <1>4
<1> HIDE DEF n, c
<1>8. n - c + 1 \in 1..n /\ n \in 1..n /\ n - c + 1 <= n BY <1>7
<1>9. s.window <= q[n] /\ q[n] \in Nat BY <1>1, <1>5, <1>8 DEF Sorted, n, c
<1>10. ASSUME NEW i \in 1..n, i <= n - (m + RateLimit) + 1 PROVE q[n] - q[i] >= RateWindow
  <2>1. i <= n - c - m + 1 BY <1>3, <1>7, <1>10
  <2>2. s.window - q[i] >= RateWindow BY <1>6, <2>1 DEF n, c
  <2>3. q[i] \in Nat BY <1>1 DEF n
  <2> QED BY <1>2, <1>3, <1>9, <2>2, <2>3
<1>11. ASSUME NEW i \in 1..n, i <= n - c - (m + RateLimit) + 1
       PROVE  s.window - q[i] >= RateWindow
  <2>1. i <= n - c - m + 1 BY <1>3, <1>7, <1>11
  <2> QED BY <1>6, <2>1 DEF n, c
<1>12. Tracks(q, NoState, m + RateLimit) BY <1>10 DEF Tracks, n
<1>13. Tracks(q, s, m + RateLimit) BY <1>4, <1>5, <1>11 DEF Tracks, n, c
<1> QED BY <1>12, <1>13

\* What the entry says of the knocks it counts gives the spread of the last.
LEMMA SpreadGrows ==
    ASSUME NEW q \in Seq(Nat), NEW r \in RateState, NEW now \in Nat, NEW m \in Nat,
           m >= RateLimit, Spread(q, m), r # NoState, Tracks(Append(q, now), r, m), r.window <= now
    PROVE  Spread(Append(q, now), m)
<1> DEFINE t == Append(q, now)
<1>1. Len(t) = Len(q) + 1 /\ Len(q) \in Nat /\ t[Len(q) + 1] = now BY OneMoreArrival
<1>2. \A i \in 1..Len(q) : t[i] = q[i] /\ q[i] \in Nat BY OneMoreArrival
<1>3. r.count \in Nat /\ r.window \in Nat BY DEF RateState
<1>4. RateLimit \in Nat /\ 1 <= RateLimit /\ RateWindow \in Nat BY RateAssumption
<1>5. 1 <= r.count /\ r.count <= RateLimit BY DEF Tracks
<1>6. \A i \in 1..Len(t) : i <= Len(t) - r.count - m + 1 =>
            r.window - t[i] >= RateWindow
      BY DEF Tracks
<1> HIDE DEF t
<1> SUFFICES ASSUME NEW i \in 1..Len(t), NEW j \in 1..Len(t), j - i >= m + RateLimit - 1
             PROVE  t[j] - t[i] >= RateWindow
    BY DEF Spread, t
<1>7. i \in 1..Len(q) BY <1>1, <1>4
<1>8. CASE j = Len(q) + 1
  <2> DEFINE n == Len(t)
             c == r.count
  <2>1. n \in Nat /\ c \in Nat /\ 1 <= c /\ c <= RateLimit /\ i \in 1..n BY <1>1, <1>3, <1>5
  <2>2. n - i >= m + RateLimit - 1 BY <1>1, <1>8
  <2> HIDE DEF n, c
  <2>3. i <= n - c - m + 1 BY <1>4, <2>1, <2>2
  <2>4. r.window - t[i] >= RateWindow BY <1>6, <2>3 DEF n, c
  <2>5. t[i] \in Nat BY <1>2, <1>7
  <2>6. t[j] = now BY <1>1, <1>8
  <2> QED BY <1>3, <1>4, <2>4, <2>5, <2>6
<1>9. CASE j # Len(q) + 1
  <2>1. j \in 1..Len(q) BY <1>1, <1>9
  <2>2. q[j] - q[i] >= RateWindow BY <1>7, <2>1 DEF Spread
  <2> QED BY <1>2, <1>7, <2>1, <2>2
<1> QED BY <1>8, <1>9

\* A longer run spreads as far.
LEMMA SpreadWeakens ==
    ASSUME NEW q \in Seq(Nat), NEW m \in Nat, Spread(q, m)
    PROVE  Spread(q, m + RateLimit)
<1>1. RateLimit \in Nat /\ Len(q) \in Nat BY RateAssumption
<1>2. ASSUME NEW i \in 1..Len(q), NEW j \in 1..Len(q), j - i >= (m + RateLimit) + RateLimit - 1
      PROVE  q[j] - q[i] >= RateWindow
  <2>1. j - i >= m + RateLimit - 1 BY <1>1, <1>2
  <2> QED BY <2>1 DEF Spread
<1> QED BY <1>2 DEF Spread

\* What rate_ok stores for a knock within budget, arrived no earlier than the
\* ones before, tells the log with that knock in it.
LEMMA NextTracks ==
    ASSUME NEW q \in Seq(Nat), NEW s \in RateState, NEW now \in Nat, now <= MaxTime,
           NEW m \in Nat, m >= RateLimit,
           Sorted(q), Tracks(q, s, m), \A i \in 1..Len(q) : q[i] <= now,
           BudgetLeft(s, now)
    PROVE  /\ NextState(s, now) # NoState /\ NextState(s, now).window <= now
           /\ Tracks(Append(q, now), NextState(s, now), m)
<1>1. s.count \in Nat /\ s.window \in Nat /\ RateWindow \in Nat
      BY RateAssumption DEF RateState
<1>2. ASSUME s # NoState PROVE s.window <= now /\ WrappingSub(now, s.window) = now - s.window
  <2>1. Len(q) - s.count + 1 \in 1..Len(q) /\ q[Len(q) - s.count + 1] = s.window
        BY <1>1, <1>2 DEF Tracks
  <2>2. s.window <= now BY <2>1
  <2> QED BY <1>1, <2>2, WindowAge
<1>3. CASE WindowOpen(s, now)
  <2>1. s # NoState /\ s.count < RateLimit BY <1>3 DEF WindowOpen, BudgetLeft
  <2> DEFINE r == [s EXCEPT !.count = @ + 1]
  <2>2. NextState(s, now) = r BY <1>3 DEF NextState
  <2>3. Tracks(Append(q, now), r, m) BY <2>1, TracksInWindow
  <2>4. r.window = s.window /\ r.count = s.count + 1 BY DEF RateState
  <2>5. r # NoState BY <1>1, <2>4 DEF NoState
  <2>6. r.window <= now BY <1>2, <2>1, <2>4
  <2> QED BY <2>2, <2>3, <2>5, <2>6
<1>4. CASE ~WindowOpen(s, now)
  <2> DEFINE r == [window |-> now, count |-> 1]
  <2>1. NextState(s, now) = r BY <1>4 DEF NextState
  <2>2. s # NoState => now - s.window >= RateWindow BY <1>1, <1>2, <1>4 DEF WindowOpen
  <2>3. Tracks(Append(q, now), r, m) BY <2>2, TracksNewWindow
  <2>4. r # NoState /\ r.window <= now BY DEF NoState
  <2> QED BY <2>1, <2>3, <2>4
<1> QED BY <1>3, <1>4

-----------------------------------------------------------------------------
(***************************************************************************)
(* The inductive invariant                                                 *)
(***************************************************************************)
\* The knocks of every source, as its entry of RATE and its evictions tell them.
LogTold ==
    \A a \in Addr : /\ Sorted(log[a]) /\ Spread(log[a], Reach(evicted[a]))
                    /\ Tracks(log[a], rate[a], Reach(evicted[a]))

\* Nothing was let through in the future, and nothing of a source that arrived
\* after the packet of that source a CPU is working on.  A CPU works on the
\* packets it is handed.
OnTime ==
    /\ \A a \in Addr : \A i \in 1..Len(log[a]) : log[a][i] <= mono
    /\ \A c \in Cpu : run[c] # Idling =>
          /\ c \in Queue[run[c].src] /\ run[c].now <= mono
          /\ \A i \in 1..Len(log[run[c].src]) : log[run[c].src][i] <= run[c].now

\* What a CPU is about to store tells the log as it will be, whether or not the
\* entry it was computed from is still there.
PutTold ==
    \A c \in Cpu : (run[c] # Idling /\ run[c].step = "put") =>
        /\ run[c].next # NoState /\ run[c].next.window <= run[c].now
        /\ Tracks(Append(log[run[c].src], run[c].now), run[c].next, Reach(evicted[run[c].src]))

\* No source has a log to begin with.
LEMMA LogInit == Init => LogTold /\ OnTime /\ PutTold
<1> SUFFICES ASSUME Init PROVE LogTold /\ OnTime /\ PutTold OBVIOUS
<1>1. \A a \in Addr : log[a] = <<>> /\ rate[a] = NoState BY DEF Init
<1>2. \A m : Sorted(<<>>) /\ Spread(<<>>, m) /\ Tracks(<<>>, NoState, m)
      BY DEF Sorted, Spread, Tracks
<1>3. LogTold BY <1>1, <1>2 DEF LogTold
<1>4. OnTime BY <1>1 DEF OnTime, Init
<1>5. PutTold BY DEF PutTold, Init
<1> QED BY <1>3, <1>4, <1>5

\* The reach of a source is a number, and a budget at least.
LEMMA ReachType ==
    ASSUME TypeOK, NEW a \in Addr
    PROVE  Reach(evicted[a]) \in Nat /\ Reach(evicted[a]) >= RateLimit
<1>1. evicted[a] \in Nat BY DEF TypeOK
<1> QED BY <1>1, ReachFacts DEF Reach

\* A knock arrives after everything that was let through.
LEMMA ArriveKeepsLog ==
    ASSUME TypeOK, LogTold, OnTime, PutTold,
           NEW c \in Cpu, NEW a \in Addr, NEW s \in Size, Arrive(c, a, s)
    PROVE  LogTold' /\ OnTime' /\ PutTold'
<1> DEFINE packet == [src |-> a, now |-> mono, step |-> "get"]
<1>1. UNCHANGED <<mono, rate, log, evicted>> /\ run' = [run EXCEPT ![c] = packet]
      BY DEF Arrive
<1>2. LogTold' BY <1>1 DEF LogTold
<1>3. \A d \in Cpu : run'[d] = IF d = c THEN packet ELSE run[d] BY <1>1 DEF TypeOK
<1>4. mono \in Nat BY RateAssumption DEF TypeOK
<1>5. packet.src = a /\ packet.now = mono /\ packet.step = "get" OBVIOUS
<1> HIDE DEF packet
<1>6. OnTime'
  <2>1. \A b \in Addr : \A i \in 1..Len(log[b]) : log[b][i] <= mono BY DEF OnTime
  <2>2. ASSUME NEW d \in Cpu, run'[d] # Idling
        PROVE  /\ d \in Queue[run'[d].src] /\ run'[d].now <= mono
               /\ \A i \in 1..Len(log[run'[d].src]) : log[run'[d].src][i] <= run'[d].now
    <3>1. CASE d = c
      <4>1. c \in Queue[a] BY DEF Arrive
      <4> QED BY <1>3, <1>4, <1>5, <2>1, <3>1, <4>1
    <3>2. CASE d # c BY <1>3, <2>2, <3>2 DEF OnTime
    <3> QED BY <3>1, <3>2
  <2> QED BY <1>1, <2>1, <2>2 DEF OnTime
<1>7. PutTold'
  <2>1. ASSUME NEW d \in Cpu, run'[d].step = "put" PROVE run'[d] = run[d]
        BY <1>3, <1>5, <2>1
  <2> QED BY <1>1, <2>1 DEF PutTold
<1> QED BY <1>2, <1>6, <1>7

\* RATE.get: what is to be stored follows from the entry that is there.
LEMMA GetKeepsLog ==
    ASSUME TypeOK, LogTold, OnTime, PutTold, NEW c \in Cpu, Get(c)
    PROVE  LogTold' /\ OnTime' /\ PutTold'
<1> DEFINE a == run[c].src
           s == rate[a]
           now == run[c].now
           packet == [src |-> a, now |-> now, step |-> "put", next |-> NextState(s, now)]
<1>1. run[c] # Idling /\ UNCHANGED <<mono, rate, log, evicted>> BY DEF Get
<1>2. \/ BudgetLeft(s, now) /\ run' = [run EXCEPT ![c] = packet]
      \/ run' = [run EXCEPT ![c] = Idling]
      BY DEF Get
<1>3. LogTold' BY <1>1 DEF LogTold
<1>4. packet.src = a /\ packet.now = now /\ packet.next = NextState(s, now) OBVIOUS
<1>5. ASSUME NEW d \in Cpu, run'[d] # Idling
      PROVE  \/ run'[d] = run[d]
             \/ d = c /\ run'[d] = packet /\ BudgetLeft(s, now)
      BY <1>2, <1>5 DEF TypeOK
<1>6. a \in Addr /\ now \in Nat BY <1>1, RunFacts
<1>7. BudgetLeft(s, now) => /\ NextState(s, now) # NoState /\ NextState(s, now).window <= now
                            /\ Tracks(Append(log[a], now), NextState(s, now), Reach(evicted[a]))
  <2>1. log[a] \in Seq(Nat) /\ s \in RateState BY <1>6 DEF TypeOK
  <2>2. Sorted(log[a]) /\ Tracks(log[a], s, Reach(evicted[a])) BY <1>6 DEF LogTold
  <2>3. \A i \in 1..Len(log[a]) : log[a][i] <= now BY <1>1 DEF OnTime
  <2>4. now <= mono /\ mono \in 0..MaxTime /\ MaxTime \in Nat
        BY <1>1, RateAssumption DEF OnTime, TypeOK
  <2>5. now <= MaxTime BY <1>6, <2>4
  <2>6. Reach(evicted[a]) \in Nat /\ Reach(evicted[a]) >= RateLimit BY <1>6, ReachType
  <2> HIDE DEF a, s, now
  <2> QED BY <1>6, <2>1, <2>2, <2>3, <2>5, <2>6, NextTracks
<1>8. OnTime'
  <2>1. ASSUME NEW d \in Cpu, run'[d] # Idling
        PROVE  run[d] # Idling /\ run'[d].src = run[d].src /\ run'[d].now = run[d].now
        BY <1>1, <1>4, <1>5, <2>1
  <2>2. ASSUME NEW d \in Cpu, run'[d] # Idling
        PROVE  /\ d \in Queue[run'[d].src] /\ run'[d].now <= mono
               /\ \A i \in 1..Len(log[run'[d].src]) : log[run'[d].src][i] <= run'[d].now
        BY <2>1, <2>2 DEF OnTime
  <2>3. \A b \in Addr : \A i \in 1..Len(log[b]) : log[b][i] <= mono BY DEF OnTime
  <2> QED BY <1>1, <2>2, <2>3 DEF OnTime
<1>9. PutTold'
  <2> SUFFICES ASSUME NEW d \in Cpu, run'[d] # Idling, run'[d].step = "put"
               PROVE  /\ run'[d].next # NoState /\ run'[d].next.window <= run'[d].now
                      /\ Tracks(Append(log[run'[d].src], run'[d].now), run'[d].next,
                                Reach(evicted[run'[d].src]))
      BY <1>1 DEF PutTold
  <2>1. CASE run'[d] = run[d] BY <2>1 DEF PutTold
  <2>2. CASE run'[d] = packet /\ BudgetLeft(s, now)
    <3>1. run'[d].src = a /\ run'[d].now = now /\ run'[d].next = NextState(s, now)
          BY <1>4, <2>2
    <3> HIDE DEF packet, a, s, now
    <3> QED BY <1>7, <2>2, <3>1
  <2> QED BY <1>5, <2>1, <2>2
<1> QED BY <1>3, <1>8, <1>9

\* RATE.insert stores what tells the log; of the other sources it leaves the
\* entry, or evicts one that is then a budget further behind.
LEMMA PutKeepsLog ==
    ASSUME OneQueue, TypeOK, LogTold, OnTime, PutTold, NEW c \in Cpu, Put(c)
    PROVE  LogTold' /\ OnTime' /\ PutTold'
<1> DEFINE a == run[c].src
           now == run[c].now
           q == log[a]
<1>1. run[c] # Idling /\ run[c].step = "put" /\ UNCHANGED mono BY DEF Put
<1>2. a \in Addr /\ now \in Nat /\ run[c].next \in RateState BY <1>1, RunFacts
<1>3. /\ log' = [log EXCEPT ![a] = Append(q, now)]
      /\ run' = [run EXCEPT ![c] = Idling]
      BY DEF Put
<1>4. \A b \in Addr : log'[b] = IF b = a THEN Append(q, now) ELSE log[b]
      BY <1>3 DEF TypeOK
<1>5. \A d \in Cpu : run'[d] = IF d = c THEN Idling ELSE run[d] BY <1>3 DEF TypeOK
<1>6. rate'[a] = run[c].next /\ evicted'[a] = evicted[a]
      BY <1>2 DEF Put, TypeOK
<1>7. \A b \in Addr : b # a =>
         \/ rate'[b] = rate[b] /\ evicted'[b] = evicted[b]
         \/ rate[b] # NoState /\ rate'[b] = NoState /\ evicted'[b] = evicted[b] + 1
      BY <1>2 DEF Put, TypeOK
<1>8. mono \in Nat BY RateAssumption DEF TypeOK
<1>9. now <= mono /\ \A i \in 1..Len(q) : q[i] <= now BY <1>1 DEF OnTime
<1>10. q \in Seq(Nat) BY <1>2 DEF TypeOK
<1>11. \A d \in Cpu : run'[d] # Idling => d # c /\ run'[d] = run[d] /\ run[d].src # a
  <2> SUFFICES ASSUME NEW d \in Cpu, run'[d] # Idling
               PROVE  d # c /\ run'[d] = run[d] /\ run[d].src # a
      OBVIOUS
  <2>1. d # c /\ run'[d] = run[d] BY <1>5
  <2>2. c \in Queue[run[c].src] /\ d \in Queue[run[d].src] BY <1>1, <2>1 DEF OnTime
  <2>3. \A e, f \in Queue[a] : e = f BY <1>2 DEF OneQueue
  <2> QED BY <2>1, <2>2, <2>3
<1>12. \A b \in Addr : evicted'[b] = evicted[b] + 1 => Reach(evicted'[b]) = Reach(evicted[b]) + RateLimit
  <2> SUFFICES ASSUME NEW b \in Addr, evicted'[b] = evicted[b] + 1
               PROVE  Reach(evicted'[b]) = Reach(evicted[b]) + RateLimit
      OBVIOUS
  <2>1. evicted[b] \in Nat BY DEF TypeOK
  <2> QED BY <2>1, ReachFacts DEF Reach
<1>13. \A b \in Addr : evicted'[b] = evicted[b] => Reach(evicted'[b]) = Reach(evicted[b]) OBVIOUS
<1>14. /\ run[c].next # NoState /\ run[c].next.window <= now
       /\ Tracks(Append(q, now), run[c].next, Reach(evicted[a]))
       BY <1>1 DEF PutTold
<1> HIDE DEF a, now, q
<1>15. LogTold'
  <2> SUFFICES ASSUME NEW b \in Addr
               PROVE  /\ Sorted(log'[b]) /\ Spread(log'[b], Reach(evicted'[b]))
                      /\ Tracks(log'[b], rate'[b], Reach(evicted'[b]))
      BY DEF LogTold
  <2>1. Sorted(log[b]) /\ Spread(log[b], Reach(evicted[b])) /\ Tracks(log[b], rate[b], Reach(evicted[b]))
        BY DEF LogTold
  <2>2. Reach(evicted[b]) \in Nat /\ Reach(evicted[b]) >= RateLimit BY ReachType
  <2>3. log[b] \in Seq(Nat) /\ rate[b] \in RateState BY DEF TypeOK
  <2>4. CASE b = a
    <3>1. log'[b] = Append(q, now) /\ rate'[b] = run[c].next /\ Reach(evicted'[b]) = Reach(evicted[a])
          BY <1>4, <1>6, <1>13, <2>4
    <3>2. Sorted(q) /\ Spread(q, Reach(evicted[a])) BY <2>1, <2>4 DEF q
    <3>3. Sorted(Append(q, now)) BY <1>2, <1>9, <1>10, <3>2, SortedGrows
    <3>4. Spread(Append(q, now), Reach(evicted[a]))
          BY <1>2, <1>10, <1>14, <2>2, <2>4, <3>2, SpreadGrows
    <3> QED BY <1>14, <3>1, <3>3, <3>4
  <2>5. CASE b # a /\ rate'[b] = rate[b] /\ evicted'[b] = evicted[b]
        BY <1>4, <1>13, <2>1, <2>5
  <2>6. CASE b # a /\ rate[b] # NoState /\ rate'[b] = NoState
             /\ evicted'[b] = evicted[b] + 1
    <3>1. log'[b] = log[b] /\ Reach(evicted'[b]) = Reach(evicted[b]) + RateLimit BY <1>4, <1>12, <2>6
    <3>2. Tracks(log[b], NoState, Reach(evicted[b]) + RateLimit)
          BY <2>1, <2>2, <2>3, <2>6, TracksEvicted
    <3>3. Spread(log[b], Reach(evicted[b]) + RateLimit) BY <2>1, <2>2, <2>3, SpreadWeakens
    <3> QED BY <2>1, <2>6, <3>1, <3>2, <3>3
  <2> QED BY <1>7, <2>4, <2>5, <2>6
<1>16. OnTime'
  <2>1. ASSUME NEW b \in Addr, NEW i \in 1..Len(log'[b]) PROVE log'[b][i] <= mono
    <3>1. CASE b # a BY <1>4, <3>1 DEF OnTime
    <3>2. CASE b = a
      <4>1. log'[b] = Append(q, now) BY <1>4, <3>2
      <4>2. /\ Len(log'[b]) = Len(q) + 1 /\ Len(q) \in Nat /\ log'[b][Len(q) + 1] = now
            /\ \A j \in 1..Len(q) : log'[b][j] = q[j] /\ q[j] \in Nat
            BY <1>2, <1>10, <4>1, OneMoreArrival
      <4>3. CASE i = Len(q) + 1 BY <1>9, <4>2, <4>3
      <4>4. CASE i # Len(q) + 1
        <5>1. i \in 1..Len(q) BY <4>2, <4>4
        <5>2. log'[b][i] <= now /\ log'[b][i] \in Nat BY <1>9, <4>2, <5>1
        <5> QED BY <1>2, <1>8, <1>9, <5>2
      <4> QED BY <4>3, <4>4
    <3> QED BY <3>1, <3>2
  <2>2. ASSUME NEW d \in Cpu, run'[d] # Idling
        PROVE  /\ d \in Queue[run'[d].src] /\ run'[d].now <= mono
               /\ \A i \in 1..Len(log'[run'[d].src]) : log'[run'[d].src][i] <= run'[d].now
    <3>1. run'[d] = run[d] /\ run[d].src # a /\ run[d] # Idling BY <1>11, <2>2
    <3>2. run[d].src \in Addr BY <3>1, RunFacts
    <3>3. log'[run[d].src] = log[run[d].src] BY <1>4, <3>1, <3>2
    <3> QED BY <3>1, <3>3 DEF OnTime
  <2> QED BY <1>1, <2>1, <2>2 DEF OnTime
<1>17. PutTold'
  <2> SUFFICES ASSUME NEW d \in Cpu, run'[d] # Idling, run'[d].step = "put"
               PROVE  /\ run'[d].next # NoState /\ run'[d].next.window <= run'[d].now
                      /\ Tracks(Append(log'[run'[d].src], run'[d].now), run'[d].next,
                                Reach(evicted'[run'[d].src]))
      BY DEF PutTold
  <2> DEFINE b == run[d].src
  <2>1. run'[d] = run[d] /\ b # a /\ run[d] # Idling /\ run[d].step = "put" BY <1>11
  <2>2. b \in Addr /\ run[d].now \in Nat /\ run[d].next \in RateState BY <2>1, RunFacts
  <2>3. /\ run[d].next # NoState /\ run[d].next.window <= run[d].now
        /\ Tracks(Append(log[b], run[d].now), run[d].next, Reach(evicted[b]))
        BY <2>1 DEF PutTold
  <2>4. log'[b] = log[b] BY <1>4, <2>1, <2>2
  <2> HIDE DEF b
  <2>6. CASE evicted'[b] = evicted[b]
        BY <1>13, <2>1, <2>2, <2>3, <2>4, <2>6 DEF b
  <2>7. CASE evicted'[b] = evicted[b] + 1
    <3>1. Reach(evicted'[b]) = Reach(evicted[b]) + RateLimit BY <1>12, <2>2, <2>7
    <3>2. Reach(evicted[b]) \in Nat BY <2>2, ReachType
    <3>3. log[b] \in Seq(Nat) /\ Sorted(log[b]) BY <2>2 DEF TypeOK, LogTold
    <3>4. \A i \in 1..Len(log[b]) : log[b][i] <= run[d].now BY <2>1 DEF OnTime, b
    <3>5. Sorted(Append(log[b], run[d].now)) /\ Append(log[b], run[d].now) \in Seq(Nat)
          BY <2>2, <3>3, <3>4, SortedGrows
    <3>6. Tracks(Append(log[b], run[d].now), run[d].next, Reach(evicted[b]) + RateLimit)
          BY <2>2, <2>3, <3>2, <3>5, TracksEvicted
    <3> QED BY <2>1, <2>3, <2>4, <3>1, <3>6 DEF b
  <2> QED BY <1>7, <2>1, <2>2, <2>6, <2>7
<1> QED BY <1>15, <1>16, <1>17

\* Every step keeps what the entries tell.
LEMMA LogStep ==
    ASSUME OneQueue, TypeOK, LogTold, OnTime, PutTold, [Next]_vars
    PROVE  LogTold' /\ OnTime' /\ PutTold'
<1>1. CASE UNCHANGED vars BY <1>1 DEF vars, LogTold, OnTime, PutTold
<1>2. ASSUME NEW c \in Cpu, NEW s \in Size, DropSize(c, s) PROVE LogTold' /\ OnTime' /\ PutTold'
      BY <1>2, <1>1 DEF DropSize
<1>3. ASSUME NEW c \in Cpu, NEW a \in Addr, NEW s \in Size, Arrive(c, a, s)
      PROVE  LogTold' /\ OnTime' /\ PutTold'
      BY <1>3, ArriveKeepsLog
<1>4. ASSUME NEW c \in Cpu, Get(c) PROVE LogTold' /\ OnTime' /\ PutTold'
      BY <1>4, GetKeepsLog
<1>5. ASSUME NEW c \in Cpu, Put(c) PROVE LogTold' /\ OnTime' /\ PutTold'
      BY <1>5, PutKeepsLog
<1>6. CASE Tick
  <2>1. UNCHANGED <<rate, run, log, evicted>> /\ mono' = mono + 1 BY <1>6 DEF Tick
  <2>2. LogTold' /\ PutTold' BY <2>1 DEF LogTold, PutTold
  <2>3. mono \in Nat BY RateAssumption DEF TypeOK
  <2>4. ASSUME NEW a \in Addr, NEW i \in 1..Len(log[a]) PROVE log[a][i] <= mono'
    <3>1. log[a][i] \in Nat /\ log[a][i] <= mono BY DEF TypeOK, OnTime
    <3> QED BY <2>1, <2>3, <3>1
  <2>5. ASSUME NEW c \in Cpu, run[c] # Idling PROVE run[c].now <= mono'
    <3>1. run[c].now \in Nat /\ run[c].now <= mono BY <2>5, RunFacts DEF OnTime
    <3> QED BY <2>1, <2>3, <3>1
  <2>6. OnTime' BY <2>1, <2>4, <2>5 DEF OnTime
  <2> QED BY <2>2, <2>6
<1> QED BY <1>1, <1>2, <1>3, <1>4, <1>5, <1>6 DEF Next

\* The spread of every log is what the limiter promises.
LEMMA SpreadIsPromise ==
    ASSUME TypeOK, \A a \in Addr : Spread(log[a], Reach(evicted[a]))
    PROVE  AtMostTwoBudgets
<1> SUFFICES ASSUME NEW a \in Addr, NEW i \in 1..Len(log[a]), NEW j \in 1..Len(log[a]),
                    j - i >= (2 + evicted[a]) * RateLimit - 1
             PROVE  log[a][j] - log[a][i] >= RateWindow
    BY DEF AtMostTwoBudgets
<1>1. evicted[a] \in Nat BY DEF TypeOK
<1>2. (2 + evicted[a]) * RateLimit = Reach(evicted[a]) + RateLimit
      BY <1>1, ReachFacts DEF Reach
<1> DEFINE m == (2 + evicted[a]) * RateLimit
           k == Reach(evicted[a]) + RateLimit
<1>3. m = k /\ j - i >= m - 1 BY <1>2
<1> HIDE DEF m, k
<1>4. j - i >= k - 1 BY <1>3
<1>5. /\ Spread(log[a], Reach(evicted[a])) /\ Reach(evicted[a]) \in Nat
      /\ RateLimit \in Nat
      BY RateAssumption, ReachType
<1>6. \A x, y \in 1..Len(log[a]) : y - x >= k - 1 => log[a][y] - log[a][x] >= RateWindow
      BY <1>5 DEF Spread, k
<1> QED BY <1>4, <1>6

\* When the interface hands each source to one CPU, an interval of a window's
\* length, wherever it lies, carries fewer than two budgets of a source and one
\* more for each time it was evicted from RATE, for every budget, window, capacity
\* and number of CPUs.
THEOREM TwoBudgetsHold ==
    ASSUME OneQueue
    PROVE  Spec => []AtMostTwoBudgets
<1> DEFINE Inv == TypeOK /\ LogTold /\ OnTime /\ PutTold
<1>1. Init => Inv BY TypeInit, LogInit
<1>2. Inv /\ [Next]_vars => Inv' BY OneQueue, TypeStep, LogStep
<1>3. Inv => AtMostTwoBudgets BY SpreadIsPromise DEF LogTold
<1> HIDE DEF Inv
<1> QED BY <1>1, <1>2, <1>3, PTL DEF Spec
=============================================================================
