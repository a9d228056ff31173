# Verification of spa-device

TLA+ models of spa-device (a gate that hides TCP ports until a single
authenticated UDP packet, the *knock*, opens them for one source), the TLC runs
that check them on small instances, and proofs of every safety property and
both refinements for all instances. Paths are relative to `src/`.

## 1. The system

| Part | State it keeps | Operations | Talks to |
|---|---|---|---|
| XDP program, TCP (`spa-ebpf`, `tcp_gate`) | maps `ALLOW`, `PROTECTED`, `ESTABLISHED` | per packet, on every CPU: look up the flow, refresh/close/expire it, or admit a SYN under a grant | shares the maps with the daemon |
| XDP program, UDP (`udp_gate`, `rate_ok`) | map `RATE` | per packet: size filter, fixed-window budget per source | passes knocks to the daemon's socket |
| Decision core (`spa-core`, `Gatekeeper::admit`) | none of its own | one knock: open, gate id, skew, lookup, authenticator, ports, replay, consume, open | five ports, implemented by the adapters |
| Adapters (`spa-gated/adapters.rs`) | replay cache, trust store (clients and tokens, two locks), handle on `ALLOW` | `admit`, `lookup`, `consume`, `set`, `set_tokens`, `open` | knock loop and watcher share the trust store |
| Bundle watcher (`watch_bundle`, `bundle.rs`) | last mtime, applied generation, known ports | poll, verify, refuse rollbacks, apply clients, tokens, ports, floor | the bundle file, trust store, `PROTECTED`, nft |
| Control-plane client (`cp.rs`) | none | register at start (publishes the gate's key, brings anchor and gate id), fetch at start and every 20 s, replace the file if it differs | HTTPS; the bundle file |
| Configuration (`config.rs`, `provision`) | `gated.toml` | write with a new key; load, refuse what does not parse | decides where policy comes from |
| nftables floor (`nft.rs`) | kernel table that outlives the daemon: chain, port set, allowed sources with timeouts | install, mirror a grant, replace the port set | called by start, gate writer and watcher |
| Client (`spa-client`) | none | `knock`, `with_open`, `Enroller::knock`, `knock_descriptor` + `confirm_open`; `sign-bundle` | UDP to the gate, TCP to the cloaked port |
| Wire format and cryptography (`spa-common`, `spa-crypto`) | none | encode, decode, seal, open, sign, verify | core and client |
| Audit, deployment | log, unit file | write only | - |

What is hard to get right, and where (the full list, at its lines, is
`hazards` in `PROJECT.json`):

* **Concurrency.** The knock loop and the watcher share a trust store of two
  maps with a lock each; every reload changes four things one after the other.
  The XDP program runs on every CPU at once over maps with no transactions, and
  each packet acts on one clock reading.
* **Time.** Grants and the replay cache live on the monotonic clock, knocks are
  stamped and judged on the wall clock, which may be stepped.
* **Failure.** The daemon may die anywhere; no map is pinned, the replay cache
  and the applied generation are not persisted, the floor is. Errors of map
  inserts and of `nft` are dropped.
* **Limits.** `ALLOW` (1024) and `PROTECTED` (64) refuse inserts when full,
  `ESTABLISHED` and `RATE` (65536) evict.
* **The network.** Knocks are lost, delayed, repeated, reordered and captured.

## 2. The modules

`GrantMap` declares the allow-list and the monotonic clock; `PolicyGate`,
`Gatekeeper`, `FlowGate`, `Floor` and `ClientKnock` extend it, so all of them mean
the same thing by a grant. `PolicyStore` and `PolicyGate` are abstract: what the
trust store and the daemon promise. Three relations hold the rest together:

```
BundleWatch  --implements-->  PolicyStore      (run bundle, ImplementsPolicyStore)
Gatekeeper   --implements-->  PolicyGate       (run gatekeeper, ImplementsPolicyGate)
Gate         =  PolicyGate  beside  FlowGate   (run gate)
```

`Gatekeeper` maps a packet to "opened" once its grant is written, and the
generations of its two maps to `Newest` and `applied`; all steps but the grant,
the two replacements, the restart and the tick of the clock map to stutters.
`Gate` conjoins each step of `PolicyGate` with what it does to the maps of the
XDP program, so what it checks holds for the detailed daemon as well.
`RateLimiter` and `KnockWire` (over `WireFormat`) stand alone. `MCx` gives
the constants of `x` their values. Definitions named as mutants are the
altered forms of the definition that follows them, kept to show that each
property can fail.

| Module | Models | State | Actions |
|---|---|---|---|
| `GrantMap` | `Grant`, `BpfGateWriter::open` up to the insert, `source_allowed` | `allow`, `mono` | (operators only) |
| `Gatekeeper` | `admit` over the real adapters, the trust-store half of a reload, restart | `clients`, `tokens`, `seen`, `offset`, the knock in progress, the watcher's position | `Receive` (open, gate id, skew), `LookupClients`, `LookupTokens`, `Admit` (authenticator, ports, replay), `Consume`, `OpenGate`; `ReloadClients`, `ReloadTokens`; `Publish`, `Restart`, `Tick`, `ClockStep` |
| `PolicyGate` | the daemon, seen from the XDP program and an operator | `opened`, `clientsGen`, `tokensGen`, `until` | `GrantTo`, `SetClients`, `SetTokens`, `Restart`, `Tick` |
| `FlowGate` | `spa_gate`, `try_gate`, `parse`, `tcp_gate` | `protected`, `established`, one packet per CPU in `run` | `Arrive`, `PassShort`, `ReadClock`, `Get`, `Refresh`, `Close`, `Expire`, `Syn`, `Track`; `Open`, `Protect`, `Unprotect`, `Restart`, `Tick` |
| `RateLimiter` | `udp_gate`, `rate_ok` | `rate`, `run` | `DropSize`, `Arrive`, `Get`, `Put`, `Tick` |
| `Gate` | the daemon and the XDP program together | the variables of both, `known` | `GrantTo`, `SetClients`, `SetTokens`, `InsertPort`, `RemovePort`, `Reboot`, `ClockTick`, `Packets` |
| `PolicyStore` | the trust store and the anchor, whatever lands on disk | `up`, `anchor`, `clients`, `tokens` | `SetAnchor`, `Load`, `SetClients`, `SetTokens`, `Stop` |
| `BundleWatch` | `Config::load`, `provision`, start of `main`, `register_identity`, `fetch_bundle`, `load_verify`, `watch_bundle`, `sign_bundle` | `toml` and `cfg`, `anchor`, `gateId`, `descriptor`, `file`, `mtime`, `cp`, `cpKey`, `half`, `pc`, `last`, the bundles the two maps are from, `protected`, `known`, `applied` | `Start`, `Register`, `StartFetch`, `StartLoad`, `WatchInit`, `Poll`, `Read`, `ApplyClients`, `ApplyTokens`, `InsertPorts`, `RemovePorts`; `Provision`, `SignBegin`, `SignEnd`; `CpPublish`, `CpRekey`, `Fetch`, `Crash` |
| `WireFormat` | `signing_bytes`, `encode`, `decode`, the lengths of headers and knocks, the size filter | (operators only) | |
| `KnockWire` | `ClientKey::seal`, `seal_psk`, `seal_envelope`, `GateKeypair::open`, verification | `signed`, `net`, `sent`, `outcome` | `Seal`, `SealPsk`, `SealForeign`; `Cut`, `Pad`, `GarbleHeader`, `GarbleBody`; `Deliver`, `Receive` |
| `Floor` | `install_floor`, `allow`, `set_ports` and the order `main`, `open` and `watch_bundle` call them in; the knock loop and the watcher run side by side | `xdp`, `protected`, `known`, `next`, `watch`, `chain`, `floorPorts`, `floorAllow`, `pending`, `pc` | `Load`, `Attach`, `Program`, `InstallFloor`, `Die`; `Open`, `Mirror`; `Reload`, `InsertPort`, `RemovePort`, `SetPorts`; `Publish`, `Tick` |
| `ClientKnock` | `knock`, `with_open`, `knock_descriptor`, `confirm_open` over UDP, and the gate as far as it decides what is open | `pc`, `ports`, `left`, `wake`, `deadline`, `net`, `hand`, `checked`, `seen` | `Knock`, `WithOpen`, `Connect`, `ConnectOk`, `ConnectErr`; `KnockDescriptor`, `ProbePasses`, `ProbeTimeout`, `Confirmed`; `Receive` (up to the skew check), `Grants` (the rest of `admit`), `GrantsOther`; `Tick` |
| `GatekeeperProofs`, `PolicyGateProofs` | theorems about `Gatekeeper`; the second: reloads, and that it implements `PolicyGate` | | |
| `GateProofs` | theorems about `Gate` and the `FlowGate` in it | | |
| `BundleWatchProofs` | theorems about `BundleWatch`, and that it implements `PolicyStore` | | |
| `FloorProofs`, `RateLimiterProofs`, `ClientKnockProofs`, `KnockWireProofs` | theorems about those modules | | |

Choices that matter when reading them:

* *Granularity.* In `Gatekeeper` every lock acquisition is a step, in
  `FlowGate` and `RateLimiter` every helper call on a map. What touches only
  the thread's own data is merged into the step before or after it. A reload
  writes `PROTECTED` port by port in `Floor` and `Gate`; `BundleWatch` merges each of
  its two loops into one step, as nothing there reads the map in between.
* *Data.* A packet is a record of what it was sealed to, what it says and the
  method and key its signature slot was made with; a bundle is its generation
  plus a table of contents; a flow is its source, port and a number.
  Cryptography is ideal. In `WireFormat` a byte is a digit of a small base and
  field widths are constants, so that every short plaintext can be tried and the
  proofs cover the real ones; the `ASSUME` of `MCKnockWire` evaluates the sizes
  the real widths give. Numbers are read and written as `from_be_bytes` and
  `to_be_bytes` do, as recursive functions over the bytes. Addresses are abstract,
  so `addr_key`, `mapped_v4` and `normalize` are the identity on them.
* *Time.* One tick per unit that matters. `Gatekeeper` keeps the relation
  `window = 2 * skew + 1 second` and lets the wall clock be stepped within
  `0..MaxDrift`. `wrapping_sub` is subtraction modulo `Word`.
* *History variables* (`admits`, `uses`, `grantor`, `until`, `licence`,
  `lastPass`, `granted`, `log`, `evicted`, `missed`, `refused`, ...) are only
  written: no guard of a detailed module reads one, but for the bound `MaxPass` of
  `RateLimiter`. `log` keeps, per source, when each knock that was let through
  arrived, in order. `PolicyGate` is an abstract
  specification, and states its promise with `until`.
* *The bundle file.* No two writes get the same mtime. A bundle carries the key
  that signed it; the control plane may change its key, and an operator may
  sign under a key the gate does not know.
* *Configuration.* The fields that decide where policy comes from are kept; all
  others are one flag, whether they parse. `toml` is the file, `cfg` what the
  process loaded, so `provision` under a running daemon is seen at its next start.

## 3. The runs

Passing runs and what they show:

| Run | Properties | Shows |
|---|---|---|
| `gatekeeper` | `NoReplay`, `RememberedOrStale`, `NonceOnlySpentByAdmitted`, `RevocationEffective`, `RevocationReaches`, `KnownNeverRefused`, `TokenOncePerLoad`, `ImplementsPolicyGate`, `TypeOK` | one process admits a knock once, whatever is replayed, forged or mis-addressed while the wall clock is stepped, within the drift section 4 assumes; a reload at any point of a knock neither mixes bundles, nor keeps a port a client lost open past a pinhole, nor refuses a client both bundles list; a token pays once per load of the list, also when the list is swapped between lookup and consume. Seen as `PolicyGate`: each grant is one step, of a packet new to the process and stamped near the present, even after a restart lost the replay cache |
| `gate` | `RevokedOpensNoFlow`, `CloakHolds`, `PassNeedsRecentPass`, `GateTypeOK` | with two CPUs, evictions, headers cut short, a reload that changes clients, tokens and one port after the other, a full `PROTECTED`, and a restart: nothing gets in without a SYN under a live grant of this process, the grant goes back to a bundle in force or superseded less than a pinhole and a judgement before the SYN, and nothing stays in past the idle limit |
| `ratelimiter` | `AtMostTwoBudgets`, `TypeOK` | two CPUs with a source each, in a table of one entry: fewer than two budgets of a source fit any interval of a window's length, and one more for every time it was evicted, also while a CPU is between its get and its insert |
| `bundle` | `ImplementsPolicyStore`, `KeptPortsStayCloaked`, `AppliedInForce`, `DescriptorNamesGate`, `WatchedBundleApplied`, `PublishedReachesGate`, `TypeOK` | torn, stale, invalid, foreign and rolled-back files never enter the trust store of a running daemon, which moves only to newer bundles that verify under the anchor it started with; new policy takes effect in the end, through a re-key if the daemon is started after it; a full `PROTECTED` costs exactly the ports it refused; clients are told the key of the gate that is up |
| `floor` | `ClosedToStrangers`, `OpenOnlyAsGranted`, `TypeOK` | with crashes, and `nft` slow or failing, a port in the floor is not open to a source without a grant for longer than `nft` took over its last one; a running daemon opens the ports `PROTECTED` has room for only as paid for, in the middle of a reload too |
| `client` | `ExposureBounded`, `KnockedThenOpen`, `Returns`, `TypeOK` | a lossy network neither leaves ports open after the client is gone nor hangs it; an attempt whose own knock was admitted into an `ALLOW` with room finds open, for a pinhole from its knock, what the gate admitted last |
| `wire` | `VerifiedAsSigned`, `DecodesCanonically`, `HonestKnockOpens`, `TypeOK` | over a network that cuts, pads and garbles, and beside programs that seal plaintexts of their own: a knock of this library passes the size filter and opens as what was asked for, decoding has one preimage, and what verifies is what was signed |

Violation runs: each states what a document or comment says, and TLC shows the
code doing otherwise. The quotation is in `findings`.

| Run | Property | The code |
|---|---|---|
| `gatekeeper_token` | `TokenSingleUse` | revives burned tokens at the next load of a list that has them |
| `gatekeeper_full` | `OpenedMeansReachable` | never reaps `ALLOW`; once full it refuses new sources for good |
| `flowgate_race` | `ExpireOnlyIdle` | expires a live flow when a CPU's clock reading is older than the entry |
| `ratelimiter_race` | `AtMostLimitPerWindow` | passes more than the budget of a window when two CPUs serve one source: both read the count before either writes it |
| `bundle_inline` | `NeverWithoutPolicy` | starts on an empty inline policy when the registration's answer lacks the anchor and a gate id is pinned |

### Known limits

Read off the models and the code, and not stated as properties of a run:

* when the XDP program detaches, a source with a live grant for one port passes
  the floor on every protected port (`Floor!FloorAccepts`; DESIGN.md:341-342);
  `ClosedToStrangers` says that nobody else does;
* a knock admitted just before a restart is admitted once more after it while
  its stamp is within the skew (`ImplementsPolicyGate`);
* `provision` does not look at the url: one that is not https ends every start
  (`BundleWatch!Provision`, `Loads`);
* a restart forgets the replay cache (`Gatekeeper!Restart`), the flow table
  (`FlowGate!Restart`; DESIGN.md:352 says established flows are preserved) and
  the applied generation, so an older bundle on disk is accepted then
  (`BundleWatch!StartLoad`; DESIGN.md:326);
* a second knock from one address replaces the first one's grant, for its ports
  too (`GrantMap!AllowInsert`). When a knock of an earlier call arrives after that
  of a later one, `with_open` connects to a port that was open and is closed again
  (spa-client lib.rs:133 says "while the port is open"): `KnockedThenOpen` says which
  ports are left;
* a control plane that changes its key is lost to a daemon with a pinned anchor for
  good, and to one with a fetched anchor until its next start (`BundleWatch!CpRekey`;
  the comment at spa-gated main.rs:70-72 says it "can't go stale across a
  control-plane re-key"). `PublishedReachesGate` is about the daemons that hold the key
  the control plane settles on;
* a bundle written between the daemon's load and the watcher's first stat is not
  applied (`BundleWatch!WatchInit`, main.rs:333): `WatchedBundleApplied` and
  `PublishedReachesGate` hold of every other one, which is their conjunct `~missed`. The
  fetch thread, which sleeps 20 s first, does not meet the gap in practice;
  `sign-bundle` may;
* a reload inserts ports before it removes others and drops the error: with
  `PROTECTED` full the new port of a bundle that counts as applied is not cloaked
  (main.rs:367; DESIGN.md:325 says never partially applied). `AppliedInForce` says
  that exactly the refused ports are missing;
* a refresh on one CPU may follow a close on another and revive the flow
  (`FlowGate!Refresh`): `CloakHolds` says a grant once opened it and
  `PassNeedsRecentPass` that it lasts no longer than the idle limit;
* a packet whose TCP header is cut short before the flags passes
  (`FlowGate!PassShort`); it changes no map;
* an admitted knock opens nothing when `ALLOW` is full, which other sources can
  bring about (`ClientKnock!GrantsOther`), and `connect()` may outlast the pinhole:
  `KnockCounts` names both conditions;
* a flow silent for `FLOW_IDLE_NS` is dropped (`FlowGate!Expire`; DESIGN.md:218
  says indefinitely);
* a file caught half written and finished within the same mtime tick is not read
  again (outside the model: mtimes of different writes differ there);
* clients, tokens and ports of a bundle are applied one after the other
  (`ApplyClients` to `RemovePorts`; DESIGN.md:323 says one snapshot);
* a port new in a bundle joins the floor after XDP, so a death in between leaves
  it uncovered, and ports of an earlier run stay in the floor's set
  (`Floor!InsertPort`, `SetPorts`, `InstallFloor`);
* `confirm_open` cannot tell this knock's grant from an older one of the same
  address (`ClientKnock!ProbePasses`).

### Bounds

* `gatekeeper`: skew one second of three ticks, window nine, ten ticks of time: a
  knock stamped as far ahead as the skew allows is admitted, replayed until its
  stamp is too old, and pruned by a knock that comes after its window. Drift and
  stall of one tick each are the most the extra second allows at this resolution.
  Two bundles, a pinhole of two ticks and a restart, two knocks with one token: a
  reload can fall between any two steps of a knock, and grants expire. `LoopView`
  leaves out the last decision and two histories, which no guard and no property of
  this run but `TypeOK` reads in a state (`KnownNeverRefused` reads the decision a
  step makes, which TLC evaluates for every step).
* `gate`: two CPUs, the least that race, two flows to two ports and a table that
  cannot hold both, so eviction happens; two bundles that move the client from
  one port to the other, with two and three ports in a `PROTECTED` that holds three,
  so that a port of the second is refused; a pinhole of one tick, a stall of one and
  an idle limit of two in two ticks, so a revoked grant outlives its bundle and runs
  out, and a flow can be idle at the very end; one restart. The CPUs are symmetric.
  `Word` is larger than all times of the instance, so wrapping happens exactly where
  a difference is negative.
  `flowgate_race` has one flow and no daemon.
* `ratelimiter`: two sources, each handed to a CPU of its own (`Queue`, which is
  the interface's business and not the code's), in a table of one entry, so that
  eviction happens at every point of the other's run; sizes one off and at the
  filter's bounds; a budget of two in a window of two ticks, two ticks in all, so that
  a window ends and another begins. `MaxPass`, two budgets, bounds what one tick can
  carry through evictions. `ratelimiter_race` has one source and hands it to both.
* `bundle`: ten configurations (file, provisioned, pinned anchor, pinned gate id,
  inline, inline with too many ports, registered and inline, three that do not
  load), three generations, so an intermediate one can be skipped, two signing
  keys, two gate keys; room for two ports, so that swapping one for another
  overflows; two starts, two bundles published beside the one there is.
* `wire`: bytes of base four, fields of one byte and ports of two, up to two
  ports; foreign plaintexts of every length up to one more than the longest that
  decodes, with right and wrong versions, ids and counts; two suites, a gate and
  a client key for each, a token, and two knocks, the second against the
  authenticators the first left behind.
* `floor`: two sources in an `ALLOW` of one entry, three policies over a `PROTECTED`
  of two, so that one port is refused when it takes the place of another; one
  reload and one restart, a pinhole of one second and an `nft` of up to one in two.
* `bundle_inline`: one configuration and the least that shows it.
* `client`: two calls of up to two knocks each, with `attempts = 0` among them, for
  two lists of ports, so that a late knock can take a port away; another source that
  may fill an `ALLOW` of one entry; a pinhole of three ticks against a grace of one,
  sleeps up to one late (`MaxLate`), a `connect()` of up to two and a judgement of up
  to one (`MaxStall`), so that a `connect()` can outlast the pinhole; nine ticks.

Runs of systems that may stop (the clock's bound is reached, nothing more is
published) do not check for deadlock; the gatekeeper, flow and rate models do.

### Fairness

`BundleWatch!FairSpec`: weak fairness of the start (systemd restarts the unit),
of the watcher thread, of the fetch thread (an HTTP request with a timeout, on
a loop) and of the second half of an `fs::write` that began. Publishing and
crashing are not fair. `ClientKnock!FairSpec`: weak fairness of the client's
thread, of its clock and of `Grants` (the gate's loop finishes the knock it has
begun); nothing is asked of the network, nor that the gate admits anything.
`connect()` is the caller's and is assumed to return, within `ConnectMax`, which
may be longer than the pinhole.

## 4. The proofs

Every theorem is about the specification the runs check, for every value of the
constants that meets the named assumptions of its module. The assumptions are
types and bounds, and these, which mean something:

* `GatekeeperAssumption`: `MaxDrift + MaxStall < Second`. The wall clock's steps
  plus the time between the skew check and the replay check stay below the one
  second by which the window exceeds twice the skew. A larger step can make the
  daemon admit a replay.
* `DistinctIds`: no id is a client in one bundle and a token in another (ids are
  thumbprints of keys, or drawn at
  random).
* `MaxNft`, `MaxStall`, `MaxLate`, `MaxLag` bound how long an `nft`, a judgement, a
  sleep's delay and a run of the program take; any number will do, and those that
  matter stand in the properties.
* `FlowAssumption`, `RateAssumption`: times stay below the modulus of
  `wrapping_sub`, which is 2^64 nanoseconds.
* `FloorAssumption`, `ClientAssumption`: a knock asks for at least one port
  (`encode` and `decode` refuse any other), and all it asks for fit into a grant
  (`MAX_GRANT_PORTS` "matches `spa_common::MAX_PORTS`").
* `WireAssumption`: a gate is its public key and its suite; ids, nonces,
  timestamps and ports of a request are what fits into their fields, as the types
  `[u8; N]`, `u64` and `u16` of the code say; the number of ports fits into its
  byte (`MAX_PORTS` is 8); and a knock with one to `MaxPorts` ports has a size the
  filter of `udp_gate` lets through, which the `ASSUME` of `MCKnockWire` evaluates for
  the real numbers.

`GatekeeperProofs`
* `TypeCorrect`: `Spec => []TypeOK`, one step per action.
* `ReplaySafe`: `Spec => []NoReplay`, and `ReplayMemory`:
  `Spec => []RememberedOrStale`. `NoReplay` alone is not inductive: that a
  second admission is refused depends on the cache. `ReplayInv` adds
  `RememberedOrStale` (an admitted knock is remembered, or its timestamp is so
  old that no call in progress can still accept it), `SeenInPast` (cache
  entries are not from the future) and `InFlight` (a knock past the skew check
  has a timestamp within skew and drift of its arrival, and arrived at most
  `MaxStall` ago). Pruning an entry is the step where the sizes matter: what
  leaves a window of `2 * skew + 1 s` is stale by then.
* `NonceSafe`: `Spec => []NonceOnlySpentByAdmitted`.

`PolicyGateProofs`
* `RevocationSafe`: `Spec => []RevocationEffective`. `StoreInv` says which
  generation each map of the trust store is from at each point of a reload
  (tokens less the burned ones); `BasisInv` says that the policy a knock holds
  is an entry of a generation between the one at its arrival and the newest.
* `RevocationCloses`: `Spec => []RevocationReaches`. `GrantInv` ties each grant
  to the packet that paid for it, its expiry to the time that packet's
  generation was superseded.
* `TokenSafe`: `Spec => []TokenOncePerLoad`. `TokenInv` counts a token as used
  only if it is no longer in the list, unless the knock that will pay with it
  is the one in progress.
* `DaemonKeepsPromise`: `Spec => ImplementsPolicyGate`. Each action maps to a
  step of `PolicyGate` or to none (`StepIsPromised`). `OpenGate` is the step
  that grants: what it needs was established up to four steps earlier, and is
  carried to it by `ReplayInv` (new, and stamped near), `BasisInv` (authorised by
  one bundle) and `AdmittedInv` (the knock in hand is the one just admitted).
* `ReloadRefusesNobody`: `Spec => KnownNeverRefused`. When a reload falls between
  the two locks of `lookup`, the two misses are of different bundles; `MissInv`
  keeps the generation of the first.

`GateProofs`, about `GateSpec`
* `GateTypeCorrect`; `GateComposes`: `GateSpec => Spec /\ Daemon!Spec`, so the
  composition is one of `FlowGate` and of `PolicyGate`.
* `CloakSafe` and `IdleSafe`: `CloakHolds` and `PassNeedsRecentPass`. `FlowInv`
  says of grants that they end when a knock said, of tracked flows that a SYN
  licensed them and a packet passed since, and of each CPU what its program has
  found out so far, which other CPUs may have overtaken: it is about the history
  of the flow and not about its entry, which may be evicted or removed meanwhile.
* `RevocationEndToEnd`: `RevokedOpensNoFlow`. `RevokeInv` carries the bundle that
  vouches for a grant from the grant to the SYN a CPU holds and from there to the
  flow.

`BundleWatchProofs`
* `TypeCorrect`; `ReloadComplete` (`AppliedInForce`) and `ReloadKeepsCloak`
  (`KeptPortsStayCloaked`), both of which speak about moments. `WatchInv` says what
  each step of the watcher has and has not applied: the generations of the two
  maps, `PROTECTED` between the old and the new ports, and that only a newer
  generation is on its way.
* `IdentityAsserted` (`DescriptorNamesGate`), with `RegisteredInv`.
* `WatchIsStore`: `Spec => ImplementsPolicyStore`, from `WatchInv`: what the watcher
  is about to apply is a bundle that verifies under the anchor, which only a daemon
  that is not up changes.

`FloorProofs`
* `TypeCorrect`; `FloorHolds` (`ClosedToStrangers`) and `ProgramStopsTheRest`
  (`OpenOnlyAsGranted`). `FloorInv`: what `ALLOW` and the floor hold was paid for by
  a knock and ends in time (for that port, and for some port, later by at most
  what `nft` took), how far the start is says which of the two layers stand, and
  during a reload the ports that are known and were not refused are in `PROTECTED`.

`RateLimiterProofs`
* `TypeCorrect`.
* `TwoBudgetsHold`: `ASSUME OneQueue PROVE Spec => []AtMostTwoBudgets`. `OneQueue`
  says that the interface hands each source to one CPU. That is a matter of its
  receive queues and not of the code, so it stands in the theorem; without it not
  even the budget of one window holds (`ratelimiter_race`). The property is about any
  two knocks of a source, however many lie between them, and the state has one counter
  and one window start, which an eviction takes away. `LogTold` relates the two
  (`Tracks`): the log is sorted, its last `count` entries are those of the current
  window, which began with the first of them, and what lies a budget, and one more
  per eviction, before that one is a window older. `OnTime`: nothing was let through
  that arrived later than the packet of that source a CPU works on. `PutTold`: what a
  CPU will store describes the log as it will be, although its entry may be evicted
  before it does. A new window starts no sooner than a window after the last one did
  (`TracksNewWindow`), so an interval meets two of them at most, and misses the knock
  that opened the first (`SpreadGrows`).

`ClientKnockProofs`
* `TypeCorrect`; `NothingLeftOpen` (`ExposureBounded`) and `OpenInTime`
  (`KnockedThenOpen`). `ClientInv`: knocks are numbered as they were sent; the one in
  hand was fresh when the gate checked it, at most `MaxStall` ago; a client that
  `ALLOW` knows has the grant of the knock admitted last, which outlasts every
  admitted one by a pinhole from its stamp; one that it does not know although it was
  admitted met a map that is full for good; and whatever is open was paid by a knock
  recent by the gate's clock. The proof is why `KnockedThenOpen` is stated with the
  knock admitted last, and not of all the ports the call asked for: that is false of
  the code (known limits).

`KnockWireProofs`
* *Induction.* What a recursive function computes for every input takes induction.
  The library's induction rule has an operator as a parameter, which the provers
  here cannot instantiate; `Least` (a nonempty set of numbers has a least element,
  from `WFMin`) and `Induction` state it of a set instead. `Recursion` shows by it
  that a function with a given start and step exists, which is what `ValuesDef` and
  `ShiftsDef` need to unfold the recursive functions of `WireFormat`.
* *Numbers.* `RoundTrip`: writing the number that `w` bytes stand for gives these
  bytes again, for every base and every `w`; the shifts of the number are the
  values of the prefixes. `UnsignedFacts` is the other direction.
* *Encoding.* `DecodeCanonical`: what `decode` accepts is the encoding of what it
  returns. `EncodeDecodes`: what `encode` writes is decoded to what it was written
  from. Both follow the fields through the buffer; `Slot` and `SlotOf` say where in
  the list of ports a byte belongs.
* `TypeCorrect`, from `WireInv`: what was sent is an envelope for its gate, and if
  this library sent it, of the encoding of an authorization that was authenticated;
  what is in flight is bytes; and a verdict is about the datagram that is still there.
  That a damaged datagram does not open is assumed of the AEAD (`AeadOpens`), so it is
  neither checked nor proved.
* `OpenedCanonical` (`DecodesCanonically`), from `DecodeCanonical`, and
  `VerifiesOnlySigned` (`VerifiedAsSigned`): equal signing bytes and signatures make
  equal plaintexts, and a plaintext decodes to one authorization.
* `HonestOpens` (`HonestKnockOpens`), from `WireInv` and `EncodeDecodes`.

Only model-checked: `WatchedBundleApplied`, `PublishedReachesGate` and `Returns`, as
liveness under fairness is out of the prover's reach. Every invariant, action
property and refinement that a passing run checks is a theorem.

## 5. Not modelled

Audit output and deployment carry no state that anything reads. The client's
commands that write key, token and descriptor files once (`keygen`, `gen-client`,
`gen-token`, `gen-anchor`) and the parsing of those files are left out, as are raw
key formats; the cryptographic primitives and TLS are libraries and ideal here.
The break-glass and established-flow rules of the nftables chain, IPv6 extension
headers (which the program passes and leaves to the floor) and UDP services are
left out. The width of `skew_seconds * 2 + 1` is not modelled: the models take a
skew for which it does not overflow.

## 6. Order of the work

The decision core came first, then the XDP program and the two composed, the
watcher, the floor, the client and the wire format; each was checked before it was
proved. What can be modelled without repeating the code line by line is modelled,
and what the prover can state is proved. What may be added is a model of
`skew_seconds` with its width (section 5), should the configuration ever bound it.
