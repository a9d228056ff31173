----------------------------- MODULE GateProofs -----------------------------
(***************************************************************************)
(* The whole gate, for every number of CPUs, flows, packets and bundles:   *)
(* what the XDP program lets through goes back to a knock the daemon       *)
(* granted, and a revoked client opens no new connection once the pinhole  *)
(* and one judgement are over.                                             *)
(***************************************************************************)
EXTENDS Gate, TLAPS

-----------------------------------------------------------------------------
(***************************************************************************)
(* Facts about the operators                                               *)
(***************************************************************************)
\* BpfGateWriter::open builds a grant of ports the packet asked for.
LEMMA GrantForFacts ==
    ASSUME NEW s \in Seq(Port), NEW now \in Nat
    PROVE  /\ GrantFor(s, now) \in Grant
           /\ GrantFor(s, now).expiry = now + Pinhole
           /\ GrantFor(s, now).ports \subseteq PortsOf(s)
BY GrantAssumption DEF GrantFor, Grant, PortsOf

\* The map update touches one key and leaves a map of grants.
LEMMA AllowInsertFacts ==
    ASSUME NEW m \in [Addr -> Grant], NEW a \in Addr, NEW g \in Grant
    PROVE  /\ AllowInsert(m, a, g) \in [Addr -> Grant]
           /\ \A b \in Addr : AllowInsert(m, a, g)[b] = m[b] \/ b = a
           /\ AllowInsert(m, a, g)[a] \in {m[a], g}
BY DEF AllowInsert

\* A flow's fields have their types.
LEMMA FlowFacts == ASSUME NEW f \in Flow PROVE f.src \in Addr /\ f.dport \in Port
BY FlowAssumption

\* On times the clock can show, wrapping_sub never makes an old entry young.
LEMMA WrappingSubFacts ==
    ASSUME NEW a \in Nat, NEW b \in Nat, a <= MaxTime, b <= MaxTime,
           WrappingSub(a, b) < FlowIdle
    PROVE  a - b < FlowIdle
<1>1. CASE a < b BY <1>1, FlowAssumption
<1>2. CASE ~(a < b)
  <2>1. Word \in Nat /\ a - b \in 0..Word-1 BY <1>2, FlowAssumption
  <2>2. (a - b) % Word = a - b BY <2>1
  <2> QED BY <2>2 DEF WrappingSub
<1> QED BY <1>1, <1>2

\* ESTABLISHED.insert stores the entry and at most evicts others.
LEMMA InsertFacts ==
    ASSUME established \in [Flow -> Nat \cup {Absent}], NEW f \in Flow, NEW now \in Nat,
           Insert(f, now)
    PROVE  /\ established' \in [Flow -> Nat \cup {Absent}]
           /\ established'[f] = now
           /\ \A g \in Flow : g # f => established'[g] \in {established[g], Absent}
<1>1. CASE established' = [established EXCEPT ![f] = now] BY <1>1
<1>2. ASSUME NEW g \in Flow, established[g] # Absent, established[f] = Absent,
             established' = [established EXCEPT ![g] = Absent, ![f] = now]
      PROVE  /\ established' \in [Flow -> Nat \cup {Absent}]
             /\ established'[f] = now
             /\ \A h \in Flow : h # f => established'[h] \in {established[h], Absent}
      BY <1>2
<1> QED BY <1>1, <1>2 DEF Insert

-----------------------------------------------------------------------------
(***************************************************************************)
(* Type correctness of the XDP program and its maps                        *)
(***************************************************************************)
\* The maps start well typed.
LEMMA FlowTypeInit == Init => TypeOK
<1>1. NoGrant \in Grant BY DEF NoGrant, Grant
<1> QED BY <1>1, FlowAssumption DEF Init, TypeOK

\* A CPU that is not idle works on a packet.
LEMMA RunFacts ==
    ASSUME TypeOK, NEW c \in Cpu, run[c] # Idling
    PROVE  /\ run[c] \in Run /\ run[c].flow \in Flow /\ run[c].flags \in Flags
           /\ run[c].now \in Nat /\ run[c].step \in Step
           /\ run[c].flow.src \in Addr /\ run[c].flow.dport \in Port
BY FlowFacts DEF TypeOK, Run

\* The bookkeeping of a passing packet.
LEMMA PassFacts ==
    ASSUME TypeOK, NEW c \in Cpu, run[c] # Idling, Pass(c)
    PROVE  /\ run' \in [Cpu -> Run \cup {Idling}] /\ run'[c] = Idling
           /\ \A d \in Cpu : d # c => run'[d] = run[d]
           /\ lastPass' \in [Flow -> Nat \cup {Absent}]
           /\ lastPass'[run[c].flow] \in Nat /\ run[c].now <= lastPass'[run[c].flow]
           /\ \A f \in Flow : lastPass[f] <= lastPass'[f]
<1>1. run[c].flow \in Flow /\ run[c].now \in Nat BY RunFacts
<1>2. \A f \in Flow : lastPass[f] \in Int BY DEF TypeOK, Absent
<1>3. /\ Later(lastPass[run[c].flow], run[c].now) \in Nat
      /\ run[c].now <= Later(lastPass[run[c].flow], run[c].now)
      /\ lastPass[run[c].flow] <= Later(lastPass[run[c].flow], run[c].now)
      BY <1>1 DEF Later, TypeOK, Absent
<1> HIDE DEF Later
<1>4. /\ run' = [run EXCEPT ![c] = Idling]
      /\ lastPass' = [lastPass EXCEPT ![run[c].flow] = Later(@, run[c].now)]
      BY DEF Pass
<1>5. \A f \in Flow : lastPass'[f] = IF f = run[c].flow
                        THEN Later(lastPass[run[c].flow], run[c].now) ELSE lastPass[f]
      BY <1>1, <1>4 DEF TypeOK
<1>6. lastPass' \in [Flow -> Nat \cup {Absent}] BY <1>1, <1>3, <1>4 DEF TypeOK
<1>7. \A f \in Flow : lastPass[f] <= lastPass'[f] BY <1>2, <1>3, <1>5
<1> QED BY <1>1, <1>3, <1>4, <1>5, <1>6, <1>7 DEF TypeOK

\* Moving a CPU to its next step keeps it well typed.
LEMMA MoveFacts ==
    ASSUME TypeOK, NEW c \in Cpu, run[c] # Idling, NEW s \in Step,
           run' = [run EXCEPT ![c].step = s]
    PROVE  /\ run' \in [Cpu -> Run \cup {Idling}]
           /\ run'[c] = [run[c] EXCEPT !.step = s]
           /\ run'[c].flow = run[c].flow /\ run'[c].flags = run[c].flags
           /\ run'[c].now = run[c].now /\ run'[c].step = s
           /\ \A d \in Cpu : d # c => run'[d] = run[d]
<1>1. run[c] \in Run BY RunFacts
<1>2. run'[c] = [run[c] EXCEPT !.step = s] BY DEF TypeOK
<1>3. [run[c] EXCEPT !.step = s] \in Run BY <1>1 DEF Run
<1>4. \A d \in Cpu : d # c => run'[d] = run[d] BY DEF TypeOK
<1>5. run' \in [Cpu -> Run \cup {Idling}] BY <1>2, <1>3, <1>4 DEF TypeOK
<1> QED BY <1>1, <1>2, <1>4, <1>5 DEF Run

\* The clock read stamps the packet and changes nothing else of the run.
LEMMA ReadFacts ==
    ASSUME TypeOK, NEW c \in Cpu, ReadClock(c)
    PROVE  /\ run' \in [Cpu -> Run \cup {Idling}]
           /\ run'[c].flow = run[c].flow /\ run'[c].now = mono /\ run'[c].step = "get"
           /\ \A d \in Cpu : d # c => run'[d] = run[d]
<1>1. run[c] \in Run BY RunFacts DEF ReadClock
<1>2. run'[c] = [run[c] EXCEPT !.now = mono, !.step = "get"] BY DEF ReadClock, TypeOK
<1>3. mono \in Nat /\ "get" \in Step BY DEF TypeOK, Step
<1>4. [run[c] EXCEPT !.now = mono, !.step = "get"] \in Run BY <1>1, <1>3 DEF Run
<1>5. \A d \in Cpu : d # c => run'[d] = run[d] BY DEF ReadClock, TypeOK
<1>6. run' \in [Cpu -> Run \cup {Idling}]
      BY <1>2, <1>4, <1>5 DEF ReadClock, TypeOK
<1> QED BY <1>1, <1>2, <1>5, <1>6 DEF Run

\* What AfterGet answers is a step.
LEMMA AfterGetFacts ==
    ASSUME NEW r, NEW last
    PROVE  /\ AfterGet(r, last) \in {"syn", "close", "refresh", "expire"}
           /\ AfterGet(r, last) \in {"close", "refresh"} =>
                 last # Absent /\ WrappingSub(r.now, last) < FlowIdle
BY DEF AfterGet

\* Every step keeps the maps and the CPUs well typed.
LEMMA FlowTypeStep == TypeOK /\ [Next]_vars => TypeOK'
<1> SUFFICES ASSUME TypeOK, [Next]_vars PROVE TypeOK' OBVIOUS
<1> USE DEF historyVars
<1>1. ASSUME NEW c \in Cpu, NEW f \in Flow, NEW fl \in Flags, Arrive(c, f, fl) PROVE TypeOK'
  <2>1. [flow |-> f, flags |-> fl, now |-> 0, step |-> "clock"] \in Run
        BY DEF Run, Step, TypeOK
  <2>2. run' \in [Cpu -> Run \cup {Idling}] BY <1>1, <2>1 DEF Arrive, TypeOK
  <2> QED BY <1>1, <2>2 DEF Arrive, TypeOK
<1>2. ASSUME NEW c \in Cpu, Get(c) PROVE TypeOK'
  <2>1. run' \in [Cpu -> Run \cup {Idling}]
        BY <1>2, AfterGetFacts, MoveFacts DEF Get, Step
  <2> QED BY <1>2, <2>1 DEF Get, TypeOK
<1>3. ASSUME NEW c \in Cpu, Refresh(c) PROVE TypeOK'
  <2>1. run' \in [Cpu -> Run \cup {Idling}] /\ lastPass' \in [Flow -> Nat \cup {Absent}]
        BY <1>3, PassFacts DEF Refresh
  <2>2. established' \in [Flow -> Nat \cup {Absent}]
        BY <1>3, RunFacts, InsertFacts DEF Refresh, TypeOK
  <2> QED BY <1>3, <2>1, <2>2 DEF Refresh, TypeOK
<1>4. ASSUME NEW c \in Cpu, Close(c) PROVE TypeOK'
  <2>1. run' \in [Cpu -> Run \cup {Idling}] /\ lastPass' \in [Flow -> Nat \cup {Absent}]
        BY <1>4, PassFacts DEF Close
  <2>2. established' \in [Flow -> Nat \cup {Absent}] BY <1>4 DEF Close, TypeOK
  <2> QED BY <1>4, <2>1, <2>2 DEF Close, TypeOK
<1>5. ASSUME NEW c \in Cpu, Expire(c) PROVE TypeOK'
  <2>1. run' \in [Cpu -> Run \cup {Idling}] BY <1>5, MoveFacts DEF Expire, Step
  <2>2. established' \in [Flow -> Nat \cup {Absent}] BY <1>5 DEF Expire, TypeOK
  <2> QED BY <1>5, <2>1, <2>2 DEF Expire, TypeOK
<1>6. ASSUME NEW c \in Cpu, Syn(c) PROVE TypeOK'
  <2>1. CASE MayOpen(run[c])
    <3>1. run' \in [Cpu -> Run \cup {Idling}] BY <1>6, <2>1, MoveFacts DEF Syn, Step
    <3> QED BY <1>6, <3>1 DEF Syn, TypeOK
  <2>2. CASE ~MayOpen(run[c]) BY <1>6, <2>2 DEF Syn, TypeOK
  <2> QED BY <2>1, <2>2
<1>7. ASSUME NEW c \in Cpu, Track(c) PROVE TypeOK'
  <2>1. run' \in [Cpu -> Run \cup {Idling}] /\ lastPass' \in [Flow -> Nat \cup {Absent}]
        BY <1>7, PassFacts DEF Track
  <2>2. established' \in [Flow -> Nat \cup {Absent}]
        BY <1>7, RunFacts, InsertFacts DEF Track, TypeOK
  <2>3. licence' \in [Flow -> Nat \cup {Absent}] BY <1>7, RunFacts DEF Track, TypeOK
  <2> QED BY <1>7, <2>1, <2>2, <2>3 DEF Track, TypeOK
<1>8. ASSUME NEW a \in Addr, NEW ports \in PortList, Open(a, ports) PROVE TypeOK'
  <2>1. ports \in Seq(Port) /\ mono \in Nat BY FlowAssumption DEF TypeOK
  <2>2. GrantFor(ports, mono) \in Grant /\ GrantFor(ports, mono).expiry \in Nat
        BY <2>1, GrantForFacts DEF Grant
  <2>3. allow' \in [Addr -> Grant]
    <3>1. allow \in [Addr -> Grant] /\ allow' = AllowInsert(allow, a, GrantFor(ports, mono))
          BY <1>8 DEF Open, TypeOK
    <3>2. AllowInsert(allow, a, GrantFor(ports, mono)) \in [Addr -> Grant]
          BY <2>2, <3>1, AllowInsertFacts
    <3> QED BY <3>1, <3>2
  <2>4. granted' \in [Addr -> [Port -> Nat]]
    <3> DEFINE x == GrantFor(ports, mono).expiry
    <3>1. granted' = [granted EXCEPT ![a] =
              [p \in Port |-> IF p \in PortsOf(ports) THEN x ELSE @[p]]]
          BY <1>8 DEF Open
    <3>2. x \in Nat BY <2>2
    <3> HIDE DEF x
    <3> QED BY <3>1, <3>2 DEF TypeOK
  <2> QED BY <1>8, <2>3, <2>4 DEF Open, TypeOK
<1>9. ASSUME NEW p \in Port, Protect(p) \/ Unprotect(p) PROVE TypeOK'
      BY <1>9 DEF Protect, Unprotect, TypeOK
<1>10. ASSUME NEW ports \in ProtectedSet, Restart(ports) PROVE TypeOK'
  <2>1. NoGrant \in Grant BY DEF NoGrant, Grant
  <2> QED BY <1>10, <2>1, FlowAssumption DEF Restart, TypeOK
<1>11. CASE Tick BY <1>11 DEF Tick, TypeOK
<1>12. ASSUME NEW c \in Cpu, PassShort(c) PROVE TypeOK' BY <1>12 DEF PassShort, TypeOK
<1>13. ASSUME NEW c \in Cpu, ReadClock(c) PROVE TypeOK'
  <2>1. run' \in [Cpu -> Run \cup {Idling}] BY <1>13, ReadFacts
  <2> QED BY <1>13, <2>1 DEF ReadClock, TypeOK
<1>14. CASE UNCHANGED vars BY <1>14 DEF vars, TypeOK
<1> QED BY <1>1, <1>2, <1>3, <1>4, <1>5, <1>6, <1>7, <1>8, <1>9, <1>10, <1>11, <1>12, <1>13,
           <1>14 DEF Next, TcpGate

-----------------------------------------------------------------------------
(***************************************************************************)
(* The cloak.  A CPU acts on what it read before other CPUs changed the    *)
(* table: between its get and its insert a flow may be closed, evicted or  *)
(* forgotten and come back.  What survives all of that is kept by licence, *)
(* lastPass and granted, which only grow while the daemon runs.            *)
(***************************************************************************)
\* Grants are never longer than what the daemon last promised.
GrantedOk(a, p) ==
    /\ granted[a][p] <= mono + Pinhole
    /\ p \in allow[a].ports => allow[a].expiry <= granted[a][p]

\* A tracked flow was licensed by a SYN in time and passed a packet since.
TrackedOk(f) ==
    /\ licence[f] # Absent => licence[f] < granted[f.src][f.dport] /\ licence[f] <= mono
    /\ established[f] # Absent =>
          /\ licence[f] # Absent
          /\ lastPass[f] # Absent /\ established[f] <= lastPass[f]
          /\ established[f] <= mono

\* What a CPU's program has established for the packet it works on.
CpuOk(c) ==
    run[c] # Idling =>
        /\ run[c].now <= mono
        /\ run[c].step = "track" =>
              PureSyn(run[c].flags) /\ run[c].now < granted[run[c].flow.src][run[c].flow.dport]
        /\ run[c].step \in {"refresh", "close"} =>
              /\ licence[run[c].flow] # Absent
              /\ lastPass[run[c].flow] # Absent
              /\ run[c].now - lastPass[run[c].flow] < FlowIdle

FlowInv ==
    /\ mono <= MaxTime
    /\ \A a \in Addr, p \in Port : GrantedOk(a, p)
    /\ \A f \in Flow : TrackedOk(f)
    /\ \A c \in Cpu : CpuOk(c)

\* Nothing the flows and CPUs rely on was taken back.
Grows ==
    /\ mono' \in Nat /\ mono <= mono'
    /\ \A f \in Flow : licence[f] # Absent => licence'[f] # Absent
    /\ \A f \in Flow : lastPass[f] <= lastPass'[f]
    /\ \A a \in Addr, p \in Port : granted[a][p] <= granted'[a][p]

\* A CPU that does not move keeps what it established.
LEMMA CpuKeeps ==
    ASSUME TypeOK, TypeOK', Grows, NEW c \in Cpu, CpuOk(c), run'[c] = run[c] PROVE CpuOk(c)'
<1> SUFFICES ASSUME run[c] # Idling
             PROVE /\ run[c].now <= mono'
                   /\ run[c].step = "track" =>
                        /\ PureSyn(run[c].flags)
                        /\ run[c].now < granted'[run[c].flow.src][run[c].flow.dport]
                   /\ run[c].step \in {"refresh", "close"} =>
                        /\ licence'[run[c].flow] # Absent
                        /\ lastPass'[run[c].flow] # Absent
                        /\ run[c].now - lastPass'[run[c].flow] < FlowIdle
    BY DEF CpuOk, PureSyn
<1> DEFINE f == run[c].flow
<1>1. /\ f \in Flow /\ run[c].now \in Nat /\ mono \in Nat /\ mono' \in Nat
      /\ f.src \in Addr /\ f.dport \in Port
      BY RunFacts DEF TypeOK
<1>2. /\ granted[f.src][f.dport] \in Nat /\ granted'[f.src][f.dport] \in Nat
      /\ lastPass[f] \in Nat \cup {-1} /\ lastPass'[f] \in Nat \cup {-1}
      BY <1>1 DEF TypeOK, Absent
<1>3. /\ granted[f.src][f.dport] <= granted'[f.src][f.dport] /\ lastPass[f] <= lastPass'[f]
      /\ mono <= mono' /\ (licence[f] # Absent => licence'[f] # Absent)
      BY <1>1 DEF Grows
<1>4. run[c].now <= mono' BY <1>1, <1>3 DEF CpuOk
<1>5. run[c].step = "track" => PureSyn(run[c].flags) /\ run[c].now < granted'[f.src][f.dport]
      BY <1>1, <1>2, <1>3 DEF CpuOk
<1>6. run[c].step \in {"refresh", "close"} =>
        licence'[f] # Absent /\ lastPass'[f] # Absent /\ run[c].now - lastPass'[f] < FlowIdle
      BY <1>1, <1>2, <1>3, FlowAssumption DEF CpuOk, Absent
<1> QED BY <1>4, <1>5, <1>6

\* A flow whose entry and licence stay, or whose entry goes, stays in order.
LEMMA FlowKeeps ==
    ASSUME TypeOK, TypeOK', Grows, NEW f \in Flow, TrackedOk(f),
           licence'[f] = licence[f], established'[f] \in {established[f], Absent}
    PROVE  TrackedOk(f)'
<1>1. /\ f.src \in Addr /\ f.dport \in Port /\ mono \in Nat /\ mono' \in Nat
      /\ granted[f.src][f.dport] \in Nat /\ granted'[f.src][f.dport] \in Nat
      /\ lastPass[f] \in Nat \cup {-1} /\ lastPass'[f] \in Nat \cup {-1}
      /\ licence[f] \in Nat \cup {-1} /\ established[f] \in Nat \cup {-1}
      BY FlowFacts DEF TypeOK, Absent
<1>2. /\ granted[f.src][f.dport] <= granted'[f.src][f.dport] /\ lastPass[f] <= lastPass'[f]
      /\ mono <= mono'
      BY <1>1 DEF Grows
<1> QED BY <1>1, <1>2 DEF TrackedOk, Absent

\* Nothing is granted, tracked or under way at the start.
LEMMA FlowInit == Init => FlowInv
<1> SUFFICES ASSUME Init PROVE FlowInv OBVIOUS
<1>1. mono = 0 /\ mono <= MaxTime BY FlowAssumption DEF Init
<1>2. ASSUME NEW a \in Addr, NEW p \in Port PROVE GrantedOk(a, p)
      BY <1>1, GrantAssumption DEF Init, GrantedOk, NoGrant
<1>3. ASSUME NEW f \in Flow PROVE TrackedOk(f) BY DEF Init, TrackedOk
<1>4. ASSUME NEW c \in Cpu PROVE CpuOk(c) BY DEF Init, CpuOk
<1> QED BY <1>1, <1>2, <1>3, <1>4 DEF FlowInv

\* A run of the program that only moves CPU c keeps the rest of FlowInv.
LEMMA MoveKeeps ==
    ASSUME TypeOK, TypeOK', FlowInv, NEW c \in Cpu,
           \A d \in Cpu : d # c => run'[d] = run[d],
           UNCHANGED <<allow, mono, licence, granted, lastPass>>,
           \A f \in Flow : established'[f] \in {established[f], Absent},
           CpuOk(c)'
    PROVE  FlowInv'
<1>1. Grows BY DEF Grows, TypeOK, Absent
<1>2. \A a \in Addr, p \in Port : GrantedOk(a, p)' BY DEF FlowInv, GrantedOk
<1>3. ASSUME NEW f \in Flow PROVE TrackedOk(f)' BY <1>1, FlowKeeps DEF FlowInv
<1>4. ASSUME NEW d \in Cpu PROVE CpuOk(d)'
  <2>1. CASE d = c BY <2>1 DEF CpuOk
  <2>2. CASE d # c
    <3>1. CpuOk(d) /\ run'[d] = run[d] BY <2>2 DEF FlowInv
    <3> QED BY <1>1, <3>1, CpuKeeps
  <2> QED BY <2>1, <2>2
<1>5. mono' <= MaxTime BY DEF FlowInv
<1> QED BY <1>2, <1>3, <1>4, <1>5 DEF FlowInv

\* A packet that passes keeps FlowInv when its flow ends up in order.
LEMMA PassKeeps ==
    ASSUME TypeOK, TypeOK', FlowInv, NEW c \in Cpu, run[c] # Idling, Pass(c),
           NEW f \in Flow, f = run[c].flow,
           UNCHANGED <<allow, mono, granted>>,
           \A g \in Flow : g # f =>
               licence'[g] = licence[g] /\ established'[g] \in {established[g], Absent},
           licence[f] # Absent => licence'[f] # Absent,
           TrackedOk(f)'
    PROVE  FlowInv'
<1>1. Grows BY PassFacts DEF Grows, TypeOK
<1>2. \A a \in Addr, p \in Port : GrantedOk(a, p)' BY DEF FlowInv, GrantedOk
<1>3. ASSUME NEW g \in Flow PROVE TrackedOk(g)'
  <2>1. CASE g = f BY <2>1 DEF TrackedOk
  <2>2. CASE g # f BY <1>1, <2>2, FlowKeeps DEF FlowInv
  <2> QED BY <2>1, <2>2
<1>4. ASSUME NEW d \in Cpu PROVE CpuOk(d)'
  <2>1. CASE d = c BY <2>1, PassFacts DEF CpuOk
  <2>2. CASE d # c
    <3>1. CpuOk(d) /\ run'[d] = run[d] BY <2>2, PassFacts DEF FlowInv
    <3> QED BY <1>1, <3>1, CpuKeeps
  <2> QED BY <2>1, <2>2
<1>5. mono' <= MaxTime BY DEF FlowInv
<1> QED BY <1>2, <1>3, <1>4, <1>5 DEF FlowInv

\* A grant is written: promises only grow.
LEMMA OpenKeeps ==
    ASSUME TypeOK, TypeOK', FlowInv, NEW a \in Addr, NEW ports \in PortList, Open(a, ports)
    PROVE  FlowInv'
<1> DEFINE grant == GrantFor(ports, mono)
<1>1. ports \in Seq(Port) /\ mono \in Nat /\ Pinhole \in Nat
      BY FlowAssumption, GrantAssumption DEF TypeOK
<1>2. grant \in Grant /\ grant.expiry = mono + Pinhole /\ grant.ports \subseteq PortsOf(ports)
      BY <1>1, GrantForFacts
<1>3. /\ allow' = AllowInsert(allow, a, grant)
      /\ granted' = [granted EXCEPT ![a] =
            [p \in Port |-> IF p \in PortsOf(ports) THEN grant.expiry ELSE @[p]]]
      /\ UNCHANGED <<mono, protected, established, run, boot, licence, lastPass>>
      BY DEF Open
<1> HIDE DEF grant
<1>4. /\ \A b \in Addr : allow'[b] = allow[b] \/ b = a
      /\ allow'[a] \in {allow[a], grant}
  <2>1. allow \in [Addr -> Grant] BY DEF TypeOK
  <2>2. /\ \A b \in Addr : AllowInsert(allow, a, grant)[b] = allow[b] \/ b = a
        /\ AllowInsert(allow, a, grant)[a] \in {allow[a], grant}
        BY <1>2, <2>1, AllowInsertFacts
  <2> QED BY <1>3, <2>2
<1>5. \A b \in Addr, p \in Port :
         granted'[b][p] = IF b = a /\ p \in PortsOf(ports) THEN mono + Pinhole ELSE granted[b][p]
      BY <1>2, <1>3 DEF TypeOK
<1>6. \A b \in Addr, p \in Port :
         granted[b][p] \in Nat /\ granted[b][p] <= mono + Pinhole /\ allow[b].expiry \in Nat
      BY DEF FlowInv, GrantedOk, TypeOK, Grant
<1>7. Grows
  <2>1. \A b \in Addr, p \in Port : granted[b][p] <= granted'[b][p] BY <1>1, <1>5, <1>6
  <2>2. \A f \in Flow : lastPass[f] <= lastPass'[f] BY <1>3 DEF TypeOK, Absent
  <2>3. mono' \in Nat /\ mono <= mono' BY <1>1, <1>3
  <2> QED BY <1>3, <2>1, <2>2, <2>3 DEF Grows
<1>8. ASSUME NEW b \in Addr, NEW p \in Port PROVE GrantedOk(b, p)'
  <2>1. GrantedOk(b, p) BY DEF FlowInv
  <2>2. granted'[b][p] <= mono' + Pinhole BY <1>1, <1>3, <1>5, <1>6
  <2>3. ASSUME p \in allow'[b].ports PROVE allow'[b].expiry <= granted'[b][p]
    <3>1. CASE allow'[b] = allow[b]
          BY <1>1, <1>5, <1>6, <2>1, <2>3, <3>1 DEF GrantedOk
    <3>2. CASE b = a /\ allow'[b] = grant
      <4>1. p \in PortsOf(ports) BY <1>2, <2>3, <3>2
      <4> QED BY <1>1, <1>2, <1>5, <3>2, <4>1
    <3> QED BY <1>4, <3>1, <3>2
  <2> QED BY <2>2, <2>3 DEF GrantedOk
<1>9. ASSUME NEW f \in Flow PROVE TrackedOk(f)' BY <1>3, <1>7, FlowKeeps DEF FlowInv
<1>10. ASSUME NEW c \in Cpu PROVE CpuOk(c)' BY <1>3, <1>7, CpuKeeps DEF FlowInv
<1>11. mono' <= MaxTime BY <1>3 DEF FlowInv
<1> QED BY <1>8, <1>9, <1>10, <1>11 DEF FlowInv

\* Every step of the program, of any CPU, and of the daemon keeps FlowInv.
LEMMA FlowStep == TypeOK /\ TypeOK' /\ FlowInv /\ [Next]_vars => FlowInv'
<1> SUFFICES ASSUME TypeOK, TypeOK', FlowInv, [Next]_vars PROVE FlowInv' OBVIOUS
<1> USE DEF historyVars
<1>const. /\ mono \in Nat /\ mono <= MaxTime /\ MaxTime \in Nat /\ FlowIdle \in Nat \ {0}
          BY FlowAssumption DEF TypeOK, FlowInv
<1>1. ASSUME NEW c \in Cpu, NEW f \in Flow, NEW fl \in Flags, Arrive(c, f, fl) PROVE FlowInv'
  <2>1. run'[c] = [flow |-> f, flags |-> fl, now |-> 0, step |-> "clock"]
        BY <1>1 DEF Arrive, TypeOK
  <2>2. CpuOk(c)' BY <1>1, <2>1, <1>const DEF CpuOk, Arrive
  <2>3. \A d \in Cpu : d # c => run'[d] = run[d] BY <1>1 DEF Arrive, TypeOK
  <2> QED BY <1>1, <2>2, <2>3, MoveKeeps DEF Arrive
<1>2. ASSUME NEW c \in Cpu, Get(c) PROVE FlowInv'
  <2> DEFINE s == AfterGet(run[c], established[run[c].flow])
             f == run[c].flow
  <2>1. run[c] # Idling /\ f \in Flow /\ run[c].now \in Nat BY <1>2, RunFacts DEF Get
  <2>2. s \in Step /\ s # "track" BY AfterGetFacts DEF Step
  <2>3. /\ run'[c].flow = f /\ run'[c].now = run[c].now /\ run'[c].step = s
        /\ \A d \in Cpu : d # c => run'[d] = run[d]
        BY <1>2, <2>1, <2>2, MoveFacts DEF Get
  <2>4. CpuOk(c) /\ TrackedOk(f) BY <2>1 DEF FlowInv
  <2>5. ASSUME s \in {"refresh", "close"}
        PROVE  licence[f] # Absent /\ lastPass[f] # Absent /\ run[c].now - lastPass[f] < FlowIdle
    <3>1. established[f] # Absent /\ WrappingSub(run[c].now, established[f]) < FlowIdle
          BY <2>5, AfterGetFacts
    <3>2. /\ licence[f] # Absent /\ lastPass[f] # Absent /\ established[f] <= lastPass[f]
          /\ established[f] \in Nat /\ established[f] <= mono /\ lastPass[f] \in Nat
          BY <2>1, <2>4, <3>1 DEF TrackedOk, TypeOK
    <3>3. run[c].now <= MaxTime /\ established[f] <= MaxTime
          BY <1>const, <2>1, <2>4, <3>2 DEF CpuOk
    <3>4. run[c].now - established[f] < FlowIdle
          BY <2>1, <3>1, <3>2, <3>3, WrappingSubFacts
    <3> QED BY <2>1, <3>2, <3>4, <1>const
  <2> HIDE DEF s
  <2>6. UNCHANGED <<allow, mono, established, licence, lastPass, granted>> BY <1>2 DEF Get
  <2>7. CpuOk(c)' BY <2>1, <2>2, <2>3, <2>4, <2>5, <2>6 DEF CpuOk
  <2> QED BY <2>3, <2>6, <2>7, MoveKeeps
<1>3. ASSUME NEW c \in Cpu, Refresh(c) PROVE FlowInv'
  <2> DEFINE f == run[c].flow
             n == run[c].now
  <2>1. run[c] # Idling /\ f \in Flow /\ n \in Nat /\ Pass(c)
        BY <1>3, RunFacts DEF Refresh
  <2>2. UNCHANGED <<allow, mono, granted, licence>> /\ Insert(f, n) BY <1>3 DEF Refresh
  <2>3. /\ established'[f] = n
        /\ \A g \in Flow : g # f => established'[g] \in {established[g], Absent}
        BY <2>1, <2>2, InsertFacts DEF TypeOK
  <2>4. lastPass'[f] \in Nat /\ n <= lastPass'[f] BY <2>1, PassFacts
  <2>5. licence[f] # Absent /\ n <= mono BY <1>3, <2>1 DEF FlowInv, CpuOk, Refresh
  <2>6. TrackedOk(f) BY <2>1 DEF FlowInv
  <2>7. ASSUME NEW h \in Flow, h = f PROVE TrackedOk(h)'
        BY <2>2, <2>3, <2>4, <2>5, <2>6, <2>7 DEF TrackedOk, Absent
  <2> HIDE DEF f, n
  <2> QED BY <2>1, <2>2, <2>3, <2>7, PassKeeps DEF f
<1>4. ASSUME NEW c \in Cpu, Close(c) PROVE FlowInv'
  <2> DEFINE f == run[c].flow
  <2>1. run[c] # Idling /\ f \in Flow /\ Pass(c) BY <1>4, RunFacts DEF Close
  <2>2. UNCHANGED <<allow, mono, granted, licence>> BY <1>4 DEF Close
  <2>3. /\ established'[f] = Absent
        /\ \A g \in Flow : g # f => established'[g] = established[g]
        BY <1>4, <2>1 DEF Close, TypeOK
  <2>4. TrackedOk(f) BY <2>1 DEF FlowInv
  <2>5. ASSUME NEW h \in Flow, h = f PROVE TrackedOk(h)'
        BY <2>2, <2>3, <2>4, <2>5 DEF TrackedOk
  <2> HIDE DEF f
  <2> QED BY <2>1, <2>2, <2>3, <2>5, PassKeeps DEF f
<1>5. ASSUME NEW c \in Cpu, Expire(c) PROVE FlowInv'
  <2>1. run[c] # Idling BY <1>5 DEF Expire
  <2>2. /\ run'[c].now = run[c].now /\ run'[c].step = "syn"
        /\ \A d \in Cpu : d # c => run'[d] = run[d]
        BY <1>5, <2>1, MoveFacts DEF Expire, Step
  <2>3. CpuOk(c)' BY <1>5, <2>1, <2>2 DEF CpuOk, FlowInv, Expire
  <2>4. \A f \in Flow : established'[f] \in {established[f], Absent}
        BY <1>5 DEF Expire, TypeOK
  <2> QED BY <1>5, <2>2, <2>3, <2>4, MoveKeeps DEF Expire
<1>6. ASSUME NEW c \in Cpu, Syn(c) PROVE FlowInv'
  <2> DEFINE f == run[c].flow
  <2>1. /\ run[c] # Idling /\ f \in Flow /\ f.src \in Addr /\ f.dport \in Port
        /\ run[c].now \in Nat /\ CpuOk(c)
        BY <1>6, RunFacts DEF Syn, FlowInv
  <2>2. CASE ~MayOpen(run[c])
    <3>1. run'[c] = Idling /\ \A d \in Cpu : d # c => run'[d] = run[d]
          BY <1>6, <2>2 DEF Syn, TypeOK
    <3>2. CpuOk(c)' BY <3>1 DEF CpuOk
    <3> QED BY <1>6, <3>1, <3>2, MoveKeeps DEF Syn
  <2>3. CASE MayOpen(run[c])
    <3>1. /\ run'[c].flow = f /\ run'[c].now = run[c].now /\ run'[c].step = "track"
          /\ run'[c].flags = run[c].flags
          /\ \A d \in Cpu : d # c => run'[d] = run[d]
          BY <1>6, <2>1, <2>3, MoveFacts DEF Syn, Step
    <3>2. PureSyn(run[c].flags) /\ run[c].now < allow[f.src].expiry /\ f.dport \in allow[f.src].ports
          BY <2>3 DEF MayOpen, SourceAllowed, AllowsPort
    <3>3. /\ allow[f.src].expiry <= granted[f.src][f.dport]
          /\ allow[f.src].expiry \in Nat /\ granted[f.src][f.dport] \in Nat
          BY <2>1, <3>2 DEF FlowInv, GrantedOk, TypeOK, Grant
    <3>4. run[c].now < granted[f.src][f.dport] BY <2>1, <3>2, <3>3
    <3>5. UNCHANGED <<allow, mono, established, licence, lastPass, granted>> BY <1>6 DEF Syn
    <3>6. CpuOk(c)' BY <2>1, <3>1, <3>2, <3>4, <3>5 DEF CpuOk, PureSyn
    <3> QED BY <3>1, <3>5, <3>6, MoveKeeps
  <2> QED BY <2>2, <2>3
<1>7. ASSUME NEW c \in Cpu, Track(c) PROVE FlowInv'
  <2> DEFINE f == run[c].flow
             n == run[c].now
  <2>1. run[c] # Idling /\ f \in Flow /\ n \in Nat /\ Pass(c)
        BY <1>7, RunFacts DEF Track
  <2>2. UNCHANGED <<allow, mono, granted>> /\ Insert(f, n) BY <1>7 DEF Track
  <2>3. /\ established'[f] = n
        /\ \A g \in Flow : g # f => established'[g] \in {established[g], Absent}
        BY <2>1, <2>2, InsertFacts DEF TypeOK
  <2>4. lastPass'[f] \in Nat /\ n <= lastPass'[f] BY <2>1, PassFacts
  <2>5. PureSyn(run[c].flags) /\ n <= mono /\ n < granted[f.src][f.dport]
        BY <1>7, <2>1 DEF FlowInv, CpuOk, Track
  <2>6. licence' = [licence EXCEPT ![f] = n] BY <1>7, <2>5 DEF Track
  <2>7. licence'[f] = n /\ \A g \in Flow : g # f => licence'[g] = licence[g]
        BY <2>1, <2>6 DEF TypeOK
  <2>8. ASSUME NEW h \in Flow, h = f PROVE TrackedOk(h)'
        BY <2>1, <2>2, <2>3, <2>4, <2>5, <2>7, <2>8 DEF TrackedOk, Absent
  <2>9. licence'[f] # Absent BY <2>1, <2>7 DEF Absent
  <2> HIDE DEF f, n
  <2> QED BY <2>1, <2>2, <2>3, <2>7, <2>8, <2>9, PassKeeps DEF f
<1>8. ASSUME NEW a \in Addr, NEW ports \in PortList, Open(a, ports) PROVE FlowInv'
      BY <1>8, OpenKeeps
<1>9. ASSUME NEW p \in Port, Protect(p) \/ Unprotect(p) PROVE FlowInv'
      BY <1>9 DEF Protect, Unprotect, FlowInv, GrantedOk, TrackedOk, CpuOk
<1>10. ASSUME NEW ports \in ProtectedSet, Restart(ports) PROVE FlowInv'
  <2>1. ASSUME NEW a \in Addr, NEW p \in Port PROVE GrantedOk(a, p)'
        BY <1>10, <1>const, GrantAssumption DEF Restart, GrantedOk, NoGrant
  <2>2. ASSUME NEW f \in Flow PROVE TrackedOk(f)' BY <1>10 DEF Restart, TrackedOk
  <2>3. ASSUME NEW c \in Cpu PROVE CpuOk(c)' BY <1>10 DEF Restart, CpuOk
  <2>4. mono' <= MaxTime BY <1>10, <1>const DEF Restart
  <2> QED BY <2>1, <2>2, <2>3, <2>4 DEF FlowInv
<1>11. CASE Tick
  <2>1. /\ mono' = mono + 1 /\ mono < MaxTime
        /\ UNCHANGED <<allow, established, run, licence, lastPass, granted>>
        BY <1>11 DEF Tick
  <2>2. Grows BY <1>const, <2>1 DEF Grows, TypeOK, Absent
  <2>3. ASSUME NEW a \in Addr, NEW p \in Port PROVE GrantedOk(a, p)'
    <3>1. GrantedOk(a, p) /\ granted[a][p] \in Nat BY DEF FlowInv, TypeOK
    <3> QED BY <2>1, <3>1, <1>const, GrantAssumption DEF GrantedOk
  <2>4. ASSUME NEW f \in Flow PROVE TrackedOk(f)' BY <2>1, <2>2, FlowKeeps DEF FlowInv
  <2>5. ASSUME NEW c \in Cpu PROVE CpuOk(c)' BY <2>1, <2>2, CpuKeeps DEF FlowInv
  <2>6. mono' <= MaxTime BY <2>1, <1>const
  <2> QED BY <2>3, <2>4, <2>5, <2>6 DEF FlowInv
<1>12. ASSUME NEW c \in Cpu, PassShort(c) PROVE FlowInv'
  <2>1. run'[c] = Idling /\ \A d \in Cpu : d # c => run'[d] = run[d]
        BY <1>12 DEF PassShort, TypeOK
  <2>2. CpuOk(c)' BY <2>1 DEF CpuOk
  <2> QED BY <1>12, <2>1, <2>2, MoveKeeps DEF PassShort
<1>13. ASSUME NEW c \in Cpu, ReadClock(c) PROVE FlowInv'
  <2>1. /\ run'[c].now = mono /\ run'[c].step = "get"
        /\ \A d \in Cpu : d # c => run'[d] = run[d]
        BY <1>13, ReadFacts
  <2>2. CpuOk(c)' BY <1>13, <2>1, <1>const DEF CpuOk, ReadClock
  <2> QED BY <1>13, <2>1, <2>2, MoveKeeps DEF ReadClock
<1>14. CASE UNCHANGED vars BY <1>14 DEF vars, FlowInv, GrantedOk, TrackedOk, CpuOk
<1> QED BY <1>1, <1>2, <1>3, <1>4, <1>5, <1>6, <1>7, <1>8, <1>9, <1>10, <1>11, <1>12, <1>13,
           <1>14 DEF Next, TcpGate

-----------------------------------------------------------------------------
(***************************************************************************)
(* The daemon and the program together                                     *)
(***************************************************************************)
\* To the XDP program, every step of the whole gate is one it allows for.
LEMMA GateStepIsFlowStep == tokensGen \in Gen /\ [GateNext]_gateVars => [Next]_vars
<1> SUFFICES ASSUME tokensGen \in Gen, [GateNext]_gateVars PROVE [Next]_vars OBVIOUS
<1>1. CASE Packets BY <1>1 DEF Packets, Next
<1>2. ASSUME NEW p \in Packet, NEW a \in Addr, NEW g \in Gen, GrantTo(p, a, g) PROVE Next
      BY <1>2, GateAssumption DEF GrantTo, Next
<1>3. ASSUME NEW g \in Gen, SetClients(g) PROVE UNCHANGED vars
      BY <1>3 DEF SetClients, Daemon!SetClients, vars
<1>4. ASSUME NEW g \in Gen, Reboot(g) PROVE Next
      BY <1>4, GateAssumption DEF Reboot, Next
<1>5. CASE SetTokens BY <1>5 DEF SetTokens, Daemon!SetTokens, vars
<1>6. ASSUME NEW p \in Port, InsertPort(p) \/ RemovePort(p) PROVE Next
      BY <1>6 DEF InsertPort, RemovePort, Next
<1>7. CASE ClockTick BY <1>7 DEF ClockTick, Next
<1>8. CASE UNCHANGED gateVars BY <1>8 DEF gateVars
<1> QED BY <1>1, <1>2, <1>3, <1>4, <1>5, <1>6, <1>7, <1>8 DEF GateNext

\* The daemon's part of the state keeps its types.
LEMMA DaemonTypeStep == GateTypeOK /\ [GateNext]_gateVars => GateTypeOK'
<1> SUFFICES ASSUME GateTypeOK, [GateNext]_gateVars PROVE GateTypeOK' OBVIOUS
<1> USE DEF daemonVars
<1>1. TypeOK' BY GateStepIsFlowStep, FlowTypeStep DEF GateTypeOK
<1>2. mono \in Nat BY DEF GateTypeOK, TypeOK
<1>3. CASE Packets \/ ClockTick
      BY <1>1, <1>3 DEF Packets, ClockTick, GateTypeOK
<1>4. ASSUME NEW p \in Packet, NEW a \in Addr, NEW g \in Gen, GrantTo(p, a, g) PROVE GateTypeOK'
  <2>1. /\ opened' = opened \cup {p} /\ trail' = [trail EXCEPT ![a] = @ \cup {p}]
        /\ UNCHANGED <<clientsGen, tokensGen, until, known>>
        BY <1>4 DEF GrantTo, Daemon!GrantTo, Daemon!policyVars
  <2> QED BY <1>1, <2>1 DEF GateTypeOK
<1>5. ASSUME NEW g \in Gen, SetClients(g) PROVE GateTypeOK'
      BY <1>1, <1>5 DEF SetClients, Daemon!SetClients, GateTypeOK
<1>6. CASE SetTokens BY <1>1, <1>2, <1>6 DEF SetTokens, Daemon!SetTokens, GateTypeOK
<1>7. ASSUME NEW g \in Gen, Reboot(g) PROVE GateTypeOK'
  <2>1. Daemon!Never \in Int BY GateAssumption, GrantAssumption DEF Daemon!Never
  <2>2. /\ clientsGen' = g /\ tokensGen' = g /\ opened' = {}
        /\ until' = [h \in Gen |-> Daemon!Never] /\ trail' = [a \in Addr |-> {}]
        /\ known' \in SUBSET Port
        BY <1>7, GateAssumption, FlowAssumption DEF Reboot, Daemon!Restart
  <2> QED BY <1>1, <2>1, <2>2 DEF GateTypeOK
<1>8. ASSUME NEW p \in Port, InsertPort(p) \/ RemovePort(p) PROVE GateTypeOK'
      BY <1>1, <1>8 DEF InsertPort, RemovePort, GateTypeOK
<1>9. CASE UNCHANGED gateVars BY <1>1, <1>9 DEF gateVars, GateTypeOK
<1> QED BY <1>3, <1>4, <1>5, <1>6, <1>7, <1>8, <1>9 DEF GateNext

\* The whole gate starts well typed.
LEMMA GateTypeInit == GateInit => GateTypeOK
<1> SUFFICES ASSUME GateInit PROVE GateTypeOK OBVIOUS
<1>1. TypeOK BY FlowTypeInit DEF GateInit
<1>2. Daemon!Never \in Int BY GateAssumption, GrantAssumption DEF Daemon!Never
<1>3. known \in SUBSET Port BY <1>1 DEF GateInit, TypeOK
<1> QED BY <1>1, <1>2, <1>3 DEF GateInit, Daemon!Init, GateTypeOK

\* Type correctness of the daemon and the XDP program together.
THEOREM GateTypeCorrect == GateSpec => []GateTypeOK
BY GateTypeInit, DaemonTypeStep, PTL DEF GateSpec

\* FlowInv holds of the program inside the whole gate.
LEMMA GateFlowInvariant == GateSpec => [](GateTypeOK /\ FlowInv)
<1>1. GateInit => GateTypeOK /\ FlowInv BY GateTypeInit, FlowInit DEF GateInit
<1>2. (GateTypeOK /\ FlowInv) /\ [GateNext]_gateVars => (GateTypeOK /\ FlowInv)'
  <2> SUFFICES ASSUME GateTypeOK, FlowInv, [GateNext]_gateVars PROVE GateTypeOK' /\ FlowInv'
      OBVIOUS
  <2>1. GateTypeOK' BY DaemonTypeStep
  <2>2. TypeOK /\ TypeOK' /\ [Next]_vars BY <2>1, GateStepIsFlowStep DEF GateTypeOK
  <2> QED BY <2>1, <2>2, FlowStep
<1> QED BY <1>1, <1>2, PTL DEF GateSpec

\* Nothing but a knock opens a cloaked port: a tracked flow's SYN came while
\* a grant of the daemon to its source, for its port, was alive, on however
\* many CPUs the program runs and whatever the table evicts.
THEOREM CloakSafe == GateSpec => []CloakHolds
<1>1. GateTypeOK /\ FlowInv => CloakHolds BY DEF FlowInv, TrackedOk, CloakHolds
<1> QED BY <1>1, GateFlowInvariant, PTL

\* A packet of a tracked flow is let through only within FLOW_IDLE_NS of an
\* earlier one, in spite of the wrapping subtraction and of CPUs that read
\* the clock before others moved the entry on.
THEOREM IdleSafe == GateSpec => []PassNeedsRecentPass
<1>1. GateTypeOK /\ FlowInv => PassNeedsRecentPass BY DEF FlowInv, CpuOk, PassNeedsRecentPass
<1> QED BY <1>1, GateFlowInvariant, PTL

\* The whole gate implements both of its parts: the daemon it contains behaves
\* as PolicyGate, which Gatekeeper implements, and the program as FlowGate.
THEOREM GateComposes == GateSpec => Spec /\ Daemon!Spec
<1>1. GateInit => Init /\ Daemon!Init BY DEF GateInit
<1>2. GateTypeOK /\ [GateNext]_gateVars => [Next]_vars
      BY GateStepIsFlowStep DEF GateTypeOK
<1>3. [GateNext]_gateVars => [Daemon!Next]_Daemon!gateVars
  <2> SUFFICES ASSUME [GateNext]_gateVars PROVE [Daemon!Next]_Daemon!gateVars OBVIOUS
  <2> USE DEF daemonVars, Daemon!gateVars, Daemon!policyVars, historyVars
  <2>1. CASE Packets
        BY <2>1 DEF Packets, TcpGate, Arrive, PassShort, ReadClock, Get, Refresh, Close,
               Expire, Syn, Track
  <2>2. ASSUME NEW p \in Port, InsertPort(p) \/ RemovePort(p) PROVE UNCHANGED Daemon!gateVars
        BY <2>2 DEF InsertPort, RemovePort, Protect, Unprotect
  <2>3. CASE ClockTick BY <2>3 DEF ClockTick, Tick, Daemon!Tick, Daemon!Next
  <2>4. ASSUME NEW p \in Packet, NEW a \in Addr, NEW g \in Gen, GrantTo(p, a, g) PROVE Daemon!Next
        BY <2>4 DEF GrantTo, Daemon!Next
  <2>5. ASSUME NEW g \in Gen, SetClients(g) \/ Reboot(g) PROVE Daemon!Next
        BY <2>5 DEF SetClients, Reboot, Daemon!Next
  <2>6. CASE SetTokens BY <2>6 DEF SetTokens, Daemon!Next
  <2>7. CASE UNCHANGED gateVars BY <2>7 DEF gateVars, vars
  <2> QED BY <2>1, <2>2, <2>3, <2>4, <2>5, <2>6, <2>7 DEF GateNext
<1> QED BY <1>1, <1>2, <1>3, GateTypeCorrect, PTL DEF GateSpec, Spec, Daemon!Spec

-----------------------------------------------------------------------------
(***************************************************************************)
(* Revocation, end to end.  A connection is three steps away from the      *)
(* bundle behind it (the grant, the SYN a CPU holds, the tracked flow), and*)
(* the watcher may replace the bundle between any two: each of the three   *)
(* carries its own debt to the packet and the generation it comes from.    *)
(***************************************************************************)
\* Generation g is in force, or was less than a stall and a pinhole before t.
Backs(g, t) == g \in {clientsGen, tokensGen} \/ t < until[g] + MaxStall + Pinhole

\* Port d may be opened from a, at t, on the word of a packet granted to a.
Vouched(a, d, t) ==
    \E p \in trail[a], g \in Gen : d \in PortsOf(p.ports) /\ Authorizes(g, p) /\ Backs(g, t)

\* A grant is good for as long as the packet and generation behind it are.
GrantVouched(a, d) ==
    d \in allow[a].ports =>
        /\ allow[a].expiry <= mono + Pinhole
        /\ \E p \in trail[a], g \in Gen :
              /\ d \in PortsOf(p.ports) /\ Authorizes(g, p)
              /\ \/ g \in {clientsGen, tokensGen}
                 \/ allow[a].expiry <= until[g] + MaxStall + Pinhole

\* A flow whose SYN came at t, and a CPU about to track one, are vouched for.
FlowVouched(f, t) == licence[f] = t => Vouched(f.src, f.dport, t)

HeldSyn(c, f, t) ==
    run[c] # Idling /\ run[c].step = "track" /\ run[c].flow = f /\ run[c].now = t

SynVouched(c, f, t) == HeldSyn(c, f, t) => Vouched(f.src, f.dport, t)

RevokeInv ==
    /\ \A a \in Addr, d \in Port : GrantVouched(a, d)
    /\ \A f \in Flow, t \in Nat : FlowVouched(f, t)
    /\ \A c \in Cpu, f \in Flow, t \in Nat : SynVouched(c, f, t)

\* The gate forgets no packet it granted, and a generation leaves force now.
Aging ==
    /\ \A a \in Addr : trail[a] \subseteq trail'[a]
    /\ \A g \in Gen : g \in {clientsGen, tokensGen} =>
          g \in {clientsGen', tokensGen'} \/ until'[g] = mono
    /\ \A g \in Gen : until'[g] = until[g] \/ until'[g] = mono

\* Whoever was vouched for at an instant that has come stays vouched for.
LEMMA VouchedKeeps ==
    ASSUME GateTypeOK, GateTypeOK', Aging, NEW a \in Addr, NEW d, NEW t \in Nat, t <= mono,
           Vouched(a, d, t)
    PROVE  Vouched(a, d, t)'
<1>1. PICK p \in trail[a], g \in Gen :
         d \in PortsOf(p.ports) /\ Authorizes(g, p) /\ Backs(g, t)
      BY DEF Vouched
<1>2. /\ mono \in Nat /\ until[g] \in Int /\ until'[g] \in Int
      /\ MaxStall \in Nat /\ Pinhole \in Nat \ {0}
      BY GateAssumption, GrantAssumption DEF GateTypeOK, TypeOK
<1>3. until'[g] = mono => t < until'[g] + MaxStall + Pinhole BY <1>2
<1>4. g \in {clientsGen', tokensGen'} \/ t < until'[g] + MaxStall + Pinhole
      BY <1>1, <1>3 DEF Aging, Backs
<1>5. p \in trail'[a] BY DEF Aging
<1> QED BY <1>1, <1>4, <1>5 DEF Vouched, Backs, PortsOf

\* A grant that stays in the map stays good.
LEMMA GrantKeeps ==
    ASSUME GateTypeOK, GateTypeOK', Aging, NEW a \in Addr, NEW d \in Port, GrantVouched(a, d),
           allow'[a] = allow[a], mono <= mono'
    PROVE  GrantVouched(a, d)'
<1> SUFFICES ASSUME d \in allow[a].ports
             PROVE  /\ allow[a].expiry <= mono' + Pinhole
                    /\ \E p \in trail'[a], g \in Gen :
                          /\ d \in PortsOf(p.ports) /\ Authorizes(g, p)
                          /\ \/ g \in {clientsGen', tokensGen'}
                             \/ allow[a].expiry <= until'[g] + MaxStall + Pinhole
    BY DEF GrantVouched, PortsOf
<1>1. PICK p \in trail[a], g \in Gen :
         /\ d \in PortsOf(p.ports) /\ Authorizes(g, p)
         /\ \/ g \in {clientsGen, tokensGen}
            \/ allow[a].expiry <= until[g] + MaxStall + Pinhole
      BY DEF GrantVouched
<1>2. /\ mono \in Nat /\ mono' \in Nat /\ until[g] \in Int /\ until'[g] \in Int
      /\ MaxStall \in Nat /\ Pinhole \in Nat /\ allow[a].expiry \in Nat
      BY GateAssumption, GrantAssumption DEF GateTypeOK, TypeOK, Grant
<1>3. allow[a].expiry <= mono + Pinhole BY DEF GrantVouched
<1>4. until'[g] = mono => allow[a].expiry <= until'[g] + MaxStall + Pinhole BY <1>2, <1>3
<1>5. \/ g \in {clientsGen', tokensGen'}
      \/ allow[a].expiry <= until'[g] + MaxStall + Pinhole
      BY <1>1, <1>4 DEF Aging
<1>6. p \in trail'[a] BY DEF Aging
<1>7. allow[a].expiry <= mono' + Pinhole BY <1>2, <1>3
<1> QED BY <1>1, <1>5, <1>6, <1>7

\* What a flow or a CPU at "track" was licensed by lies in the past.
LEMMA LicencePast ==
    ASSUME TypeOK, FlowInv
    PROVE  /\ \A f \in Flow : licence[f] # Absent => licence[f] \in Nat /\ licence[f] <= mono
           /\ \A c \in Cpu : run[c] # Idling => run[c].now \in Nat /\ run[c].now <= mono
BY RunFacts DEF FlowInv, TrackedOk, CpuOk, TypeOK

\* A step that moves no packet and only ages the policy keeps RevokeInv.
LEMMA AgingKeeps ==
    ASSUME GateTypeOK, GateTypeOK', FlowInv, RevokeInv, Aging,
           UNCHANGED <<licence, run>>, \A a \in Addr, d \in Port : GrantVouched(a, d)'
    PROVE  RevokeInv'
<1>1. ASSUME NEW f \in Flow, NEW t \in Nat PROVE FlowVouched(f, t)'
  <2> SUFFICES ASSUME licence[f] = t PROVE Vouched(f.src, f.dport, t)' BY DEF FlowVouched
  <2>1. Vouched(f.src, f.dport, t) /\ f.src \in Addr BY FlowFacts DEF RevokeInv, FlowVouched
  <2>2. t <= mono BY LicencePast DEF GateTypeOK, Absent
  <2> QED BY <2>1, <2>2, VouchedKeeps
<1>2. ASSUME NEW c \in Cpu, NEW f \in Flow, NEW t \in Nat PROVE SynVouched(c, f, t)'
  <2> SUFFICES ASSUME HeldSyn(c, f, t) PROVE Vouched(f.src, f.dport, t)'
      BY DEF SynVouched, HeldSyn
  <2>1. Vouched(f.src, f.dport, t) /\ f.src \in Addr BY FlowFacts DEF RevokeInv, SynVouched
  <2>2. t <= mono BY LicencePast DEF GateTypeOK, HeldSyn
  <2> QED BY <2>1, <2>2, VouchedKeeps
<1> QED BY <1>1, <1>2 DEF RevokeInv

\* A step of one CPU keeps RevokeInv if what it licenses or holds is vouched for.
LEMMA CpuStepKeeps ==
    ASSUME RevokeInv, UNCHANGED <<allow, mono>>, UNCHANGED daemonVars, NEW c \in Cpu,
           \A d \in Cpu : d # c => run'[d] = run[d],
           \A f \in Flow, t \in Nat : licence'[f] = t =>
               licence[f] = t \/ Vouched(f.src, f.dport, t),
           \A f \in Flow, t \in Nat : HeldSyn(c, f, t)' => Vouched(f.src, f.dport, t)
    PROVE  RevokeInv'
<1> USE DEF daemonVars
<1>0. ASSUME NEW a, NEW d, NEW t, Vouched(a, d, t) PROVE Vouched(a, d, t)'
      BY <1>0 DEF Vouched, Backs, PortsOf
<1>1. ASSUME NEW a \in Addr, NEW d \in Port PROVE GrantVouched(a, d)'
      BY DEF RevokeInv, GrantVouched, PortsOf
<1>2. ASSUME NEW f \in Flow, NEW t \in Nat PROVE FlowVouched(f, t)'
  <2> SUFFICES ASSUME licence'[f] = t PROVE Vouched(f.src, f.dport, t)' BY DEF FlowVouched
  <2>1. Vouched(f.src, f.dport, t) BY DEF RevokeInv, FlowVouched
  <2> QED BY <2>1, <1>0
<1>3. ASSUME NEW d \in Cpu, NEW f \in Flow, NEW t \in Nat PROVE SynVouched(d, f, t)'
  <2> SUFFICES ASSUME HeldSyn(d, f, t)' PROVE Vouched(f.src, f.dport, t)' BY DEF SynVouched
  <2>1. CASE d = c
    <3>1. HeldSyn(c, f, t)' BY <2>1 DEF HeldSyn
    <3>2. Vouched(f.src, f.dport, t) BY <3>1
    <3> QED BY <3>2, <1>0
  <2>2. CASE d # c
    <3>1. HeldSyn(d, f, t) BY <2>2 DEF HeldSyn
    <3>2. Vouched(f.src, f.dport, t) BY <3>1 DEF RevokeInv, SynVouched
    <3> QED BY <3>2, <1>0
  <2> QED BY <2>1, <2>2
<1> QED BY <1>1, <1>2, <1>3 DEF RevokeInv

\* The XDP program licenses and holds only what a grant vouches for.
LEMMA PacketsKeep ==
    ASSUME GateTypeOK, FlowInv, RevokeInv, Packets PROVE RevokeInv'
<1> USE DEF historyVars
<1>type. TypeOK BY DEF GateTypeOK
<1>1. PICK c \in Cpu : TcpGate(c) BY DEF Packets
<1>2. UNCHANGED daemonVars BY DEF Packets
<1>3. UNCHANGED <<allow, mono>>
      BY <1>1 DEF TcpGate, Arrive, PassShort, ReadClock, Get, Refresh, Close,
               Expire, Syn, Track
<1>quiet. ASSUME \A d \in Cpu : d # c => run'[d] = run[d], UNCHANGED licence,
                 run'[c] = Idling \/ run'[c].step # "track"
          PROVE  RevokeInv'
  <2>1. \A f \in Flow, t \in Nat : ~HeldSyn(c, f, t)' BY <1>quiet DEF HeldSyn
  <2>2. \A f \in Flow, t \in Nat : licence'[f] = t => licence[f] = t BY <1>quiet
  <2> QED BY <1>2, <1>3, <1>quiet, <2>1, <2>2, CpuStepKeeps
<1>4. ASSUME NEW f \in Flow, NEW fl \in Flags, Arrive(c, f, fl) PROVE RevokeInv'
  <2>1. /\ run'[c] = [flow |-> f, flags |-> fl, now |-> 0, step |-> "clock"]
        /\ \A d \in Cpu : d # c => run'[d] = run[d]
        BY <1>4, <1>type DEF Arrive, TypeOK
  <2> QED BY <1>4, <2>1, <1>quiet DEF Arrive
<1>5. CASE Get(c)
  <2> DEFINE s == AfterGet(run[c], established[run[c].flow])
  <2>1. s \in Step /\ s # "track" BY AfterGetFacts DEF Step
  <2>2. run'[c].step = s /\ \A d \in Cpu : d # c => run'[d] = run[d]
        BY <1>5, <1>type, <2>1, MoveFacts DEF Get
  <2> HIDE DEF s
  <2> QED BY <1>5, <2>1, <2>2, <1>quiet DEF Get
<1>6. CASE Refresh(c) BY <1>6, <1>type, <1>quiet, PassFacts DEF Refresh
<1>7. CASE Close(c) BY <1>7, <1>type, <1>quiet, PassFacts DEF Close
<1>8. CASE Expire(c)
  <2>1. run'[c].step = "syn" /\ \A d \in Cpu : d # c => run'[d] = run[d]
        BY <1>8, <1>type, MoveFacts DEF Expire, Step
  <2> QED BY <1>8, <2>1, <1>quiet DEF Expire
<1>9. CASE Syn(c)
  <2>1. CASE ~MayOpen(run[c])
    <3>1. run'[c] = Idling /\ \A d \in Cpu : d # c => run'[d] = run[d]
          BY <1>9, <1>type, <2>1 DEF Syn, TypeOK
    <3> QED BY <1>9, <3>1, <1>quiet DEF Syn
  <2>2. CASE MayOpen(run[c])
    <3>1. /\ run[c] # Idling /\ run'[c].flow = run[c].flow /\ run'[c].now = run[c].now
          /\ \A d \in Cpu : d # c => run'[d] = run[d]
          BY <1>9, <1>type, <2>2, MoveFacts DEF Syn, Step
    <3>2. ASSUME NEW f \in Flow, NEW t \in Nat, HeldSyn(c, f, t)'
          PROVE  Vouched(f.src, f.dport, t)
      <4>1. run[c].flow = f /\ run[c].now = t BY <3>1, <3>2 DEF HeldSyn
      <4>2. f.src \in Addr /\ f.dport \in Port BY FlowFacts
      <4>3. t < allow[f.src].expiry /\ f.dport \in allow[f.src].ports
            BY <2>2, <4>1 DEF MayOpen, SourceAllowed, AllowsPort
      <4>4. PICK p \in trail[f.src], g \in Gen :
               /\ f.dport \in PortsOf(p.ports) /\ Authorizes(g, p)
               /\ \/ g \in {clientsGen, tokensGen}
                  \/ allow[f.src].expiry <= until[g] + MaxStall + Pinhole
            BY <4>2, <4>3 DEF RevokeInv, GrantVouched
      <4>5. /\ until[g] \in Int /\ allow[f.src].expiry \in Nat
            /\ MaxStall \in Nat /\ Pinhole \in Nat
            BY <4>2, <1>type, GateAssumption, GrantAssumption DEF GateTypeOK, TypeOK, Grant
      <4>6. Backs(g, t) BY <4>3, <4>4, <4>5 DEF Backs
      <4> QED BY <4>4, <4>6 DEF Vouched
    <3>3. \A f \in Flow, t \in Nat : licence'[f] = t => licence[f] = t BY <1>9 DEF Syn
    <3> QED BY <1>2, <1>3, <3>1, <3>2, <3>3, CpuStepKeeps
  <2> QED BY <2>1, <2>2
<1>10. CASE Track(c)
  <2>1. /\ run[c] # Idling /\ run[c].step = "track"
        /\ run[c].flow \in Flow /\ run[c].now \in Nat
        BY <1>10, <1>type, RunFacts DEF Track
  <2>2. run'[c] = Idling /\ \A d \in Cpu : d # c => run'[d] = run[d]
        BY <1>10, <1>type, PassFacts DEF Track
  <2>3. \A f \in Flow, t \in Nat : ~HeldSyn(c, f, t)' BY <2>2 DEF HeldSyn
  <2>4. ASSUME NEW f \in Flow, NEW t \in Nat, licence'[f] = t
        PROVE  licence[f] = t \/ Vouched(f.src, f.dport, t)
    <3>1. CASE licence'[f] = licence[f] BY <2>4, <3>1
    <3>2. CASE licence'[f] # licence[f]
      <4>1. f = run[c].flow /\ t = run[c].now
            BY <1>10, <1>type, <2>1, <2>4, <3>2 DEF Track, TypeOK
      <4>2. HeldSyn(c, f, t) BY <2>1, <4>1 DEF HeldSyn
      <4> QED BY <4>2 DEF RevokeInv, SynVouched
    <3> QED BY <3>1, <3>2
  <2> QED BY <1>2, <1>3, <2>2, <2>3, <2>4, CpuStepKeeps
<1>11. CASE PassShort(c)
  <2>1. run'[c] = Idling /\ \A d \in Cpu : d # c => run'[d] = run[d]
        BY <1>11, <1>type DEF PassShort, TypeOK
  <2> QED BY <1>11, <2>1, <1>quiet DEF PassShort
<1>12. CASE ReadClock(c) BY <1>12, <1>type, <1>quiet, ReadFacts DEF ReadClock
<1> QED BY <1>1, <1>4, <1>5, <1>6, <1>7, <1>8, <1>9, <1>10, <1>11, <1>12 DEF TcpGate

\* A grant written for packet p under generation g is good for a pinhole.
LEMMA GrantToKeeps ==
    ASSUME GateTypeOK, GateTypeOK', FlowInv, RevokeInv,
           NEW p \in Packet, NEW a \in Addr, NEW g \in Gen, GrantTo(p, a, g)
    PROVE  RevokeInv'
<1> DEFINE grant == GrantFor(p.ports, mono)
<1>1. p.ports \in Seq(Port) /\ mono \in Nat /\ Pinhole \in Nat /\ MaxStall \in Nat /\ until[g] \in Int
      BY GateAssumption, FlowAssumption, GrantAssumption DEF GateTypeOK, TypeOK
<1>2. grant \in Grant /\ grant.expiry = mono + Pinhole /\ grant.ports \subseteq PortsOf(p.ports)
      BY <1>1, GrantForFacts
<1>3. /\ allow' = AllowInsert(allow, a, grant) /\ UNCHANGED <<mono, run, licence>>
      /\ UNCHANGED <<clientsGen, tokensGen, until>>
      /\ trail' = [trail EXCEPT ![a] = @ \cup {p}]
      /\ Authorizes(g, p) /\ Daemon!InForce(g)
      BY DEF GrantTo, Open, Daemon!GrantTo, Daemon!policyVars
<1> HIDE DEF grant
<1>4. /\ \A b \in Addr : allow'[b] = allow[b] \/ b = a
      /\ allow'[a] \in {allow[a], grant}
  <2>1. allow \in [Addr -> Grant] BY DEF GateTypeOK, TypeOK
  <2>2. /\ \A b \in Addr : AllowInsert(allow, a, grant)[b] = allow[b] \/ b = a
        /\ AllowInsert(allow, a, grant)[a] \in {allow[a], grant}
        BY <1>2, <2>1, AllowInsertFacts
  <2> QED BY <1>3, <2>2
<1>5. p \in trail'[a] /\ \A b \in Addr : trail[b] \subseteq trail'[b]
      BY <1>3 DEF GateTypeOK
<1>6. Aging BY <1>3, <1>5 DEF Aging
<1>7. ASSUME NEW b \in Addr, NEW d \in Port PROVE GrantVouched(b, d)'
  <2>1. CASE allow'[b] = allow[b]
    <3>1. GrantVouched(b, d) BY DEF RevokeInv
    <3> QED BY <1>1, <1>3, <1>6, <2>1, <3>1, GrantKeeps
  <2>2. CASE b = a /\ allow'[b] = grant
    <3> SUFFICES ASSUME d \in grant.ports PROVE GrantVouched(b, d)'
        BY <2>2 DEF GrantVouched
    <3>1. d \in PortsOf(p.ports) BY <1>2
    <3>2. g \in {clientsGen', tokensGen'} \/ grant.expiry <= until'[g] + MaxStall + Pinhole
          BY <1>1, <1>2, <1>3 DEF Daemon!InForce
    <3>3. grant.expiry <= mono' + Pinhole BY <1>1, <1>2, <1>3
    <3> QED BY <1>3, <1>5, <2>2, <3>1, <3>2, <3>3 DEF GrantVouched, PortsOf
  <2> QED BY <1>4, <2>1, <2>2
<1> QED BY <1>3, <1>6, <1>7, AgingKeeps

\* Every step of the whole gate keeps RevokeInv.
LEMMA RevokeStep ==
    GateTypeOK /\ GateTypeOK' /\ FlowInv /\ RevokeInv /\ [GateNext]_gateVars => RevokeInv'
<1> SUFFICES ASSUME GateTypeOK, GateTypeOK', FlowInv, RevokeInv, [GateNext]_gateVars
             PROVE  RevokeInv'
    OBVIOUS
<1> USE DEF historyVars, daemonVars
<1>0. mono \in Nat BY DEF GateTypeOK, TypeOK
<1>aging. ASSUME Aging, UNCHANGED <<allow, run, licence>>, mono' \in {mono, mono + 1}
          PROVE  RevokeInv'
  <2>1. mono <= mono' BY <1>0, <1>aging
  <2>2. ASSUME NEW a \in Addr, NEW d \in Port PROVE GrantVouched(a, d)'
        BY <1>aging, <2>1, GrantKeeps DEF RevokeInv
  <2> QED BY <1>aging, <2>2, AgingKeeps
<1>same. ASSUME UNCHANGED daemonVars PROVE Aging BY <1>same DEF Aging
<1>1. CASE Packets BY <1>1, PacketsKeep
<1>2. ASSUME NEW p \in Packet, NEW a \in Addr, NEW g \in Gen, GrantTo(p, a, g) PROVE RevokeInv'
      BY <1>2, GrantToKeeps
<1>3. ASSUME NEW g \in Gen, SetClients(g) PROVE RevokeInv'
  <2>1. Aging BY <1>3 DEF SetClients, Daemon!SetClients, Aging
  <2> QED BY <1>3, <2>1, <1>aging DEF SetClients, Daemon!SetClients
<1>4. CASE SetTokens
  <2>1. /\ tokensGen' = clientsGen /\ clientsGen' = clientsGen /\ trail' = trail
        /\ until' = [until EXCEPT ![tokensGen] = mono]
        BY <1>4 DEF SetTokens, Daemon!SetTokens
  <2>2. \A g \in Gen : until'[g] = IF g = tokensGen THEN mono ELSE until[g]
        BY <2>1 DEF GateTypeOK
  <2>3. Aging BY <2>1, <2>2 DEF Aging
  <2> QED BY <1>4, <2>3, <1>aging DEF SetTokens, Daemon!SetTokens
<1>5. ASSUME NEW p \in Port, InsertPort(p) \/ RemovePort(p) PROVE RevokeInv'
  <2>1. /\ UNCHANGED <<opened, clientsGen, tokensGen, until, trail>>
        /\ UNCHANGED <<allow, mono, run, licence>>
        BY <1>5 DEF InsertPort, RemovePort, Protect, Unprotect
  <2>2. Aging BY <2>1 DEF Aging
  <2> QED BY <2>1, <2>2, <1>aging
<1>6. CASE ClockTick BY <1>6, <1>same, <1>aging DEF ClockTick, Tick
<1>7. ASSUME NEW g \in Gen, Reboot(g) PROVE RevokeInv'
  <2>1. /\ allow' = [a \in Addr |-> NoGrant] /\ run' = [c \in Cpu |-> Idling]
        /\ licence' = [f \in Flow |-> Absent]
        BY <1>7 DEF Reboot, Restart
  <2>2. ASSUME NEW a \in Addr, NEW d \in Port PROVE GrantVouched(a, d)'
        BY <2>1 DEF GrantVouched, NoGrant
  <2>3. ASSUME NEW f \in Flow, NEW t \in Nat PROVE FlowVouched(f, t)'
        BY <2>1 DEF FlowVouched, Absent
  <2>4. ASSUME NEW c \in Cpu, NEW f \in Flow, NEW t \in Nat PROVE SynVouched(c, f, t)'
        BY <2>1 DEF SynVouched, HeldSyn
  <2> QED BY <2>2, <2>3, <2>4 DEF RevokeInv
<1>8. CASE UNCHANGED gateVars BY <1>8, <1>same, <1>aging DEF gateVars, vars
<1> QED BY <1>1, <1>2, <1>3, <1>4, <1>5, <1>6, <1>7, <1>8 DEF GateNext

\* A revoked client opens no new connection once a pinhole and one judgement
\* are over since its bundle was superseded: every tracked flow goes back to a
\* packet granted to its source for its port, and to one bundle that backed
\* the packet when the flow's SYN came, whatever the CPUs, the watcher and
\* restarts do in between.
THEOREM RevocationEndToEnd == GateSpec => []RevokedOpensNoFlow
<1>1. GateInit => RevokeInv
  <2> SUFFICES ASSUME GateInit PROVE RevokeInv OBVIOUS
  <2>1. ASSUME NEW a \in Addr, NEW d \in Port PROVE GrantVouched(a, d)
        BY DEF GateInit, Init, GrantVouched, NoGrant
  <2>2. ASSUME NEW f \in Flow, NEW t \in Nat PROVE FlowVouched(f, t)
        BY DEF GateInit, Init, FlowVouched, Absent
  <2>3. ASSUME NEW c \in Cpu, NEW f \in Flow, NEW t \in Nat PROVE SynVouched(c, f, t)
        BY DEF GateInit, Init, SynVouched, HeldSyn
  <2> QED BY <2>1, <2>2, <2>3 DEF RevokeInv
<1>2. (GateTypeOK /\ FlowInv) /\ (GateTypeOK /\ FlowInv)' /\ RevokeInv /\ [GateNext]_gateVars
          => RevokeInv'
      BY RevokeStep
<1>3. (GateTypeOK /\ FlowInv) /\ RevokeInv => RevokedOpensNoFlow
  <2> SUFFICES ASSUME GateTypeOK, FlowInv, RevokeInv, NEW f \in Flow, established[f] # Absent
               PROVE  \E p \in trail[f.src], g \in Gen :
                         /\ f.dport \in PortsOf(p.ports)
                         /\ Authorizes(g, p)
                         /\ \/ g \in {clientsGen, tokensGen}
                            \/ licence[f] < until[g] + MaxStall + Pinhole
      BY DEF RevokedOpensNoFlow
  <2>1. licence[f] \in Nat BY DEF FlowInv, TrackedOk, GateTypeOK, TypeOK
  <2>2. Vouched(f.src, f.dport, licence[f]) BY <2>1 DEF RevokeInv, FlowVouched
  <2> QED BY <2>2 DEF Vouched, Backs
<1> QED BY <1>1, <1>2, <1>3, GateFlowInvariant, PTL DEF GateSpec
=============================================================================
