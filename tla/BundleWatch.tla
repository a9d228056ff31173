---------------------------- MODULE BundleWatch -----------------------------
(***************************************************************************)
(* How policy reaches spa-gated: its configuration and who writes it, the  *)
(* bundle file and its writers (the control plane through the fetch        *)
(* thread, or an operator running sign-bundle), the daemon's start, which  *)
(* registers, learns the anchor and loads policy once, and the watcher,    *)
(* which polls the file's mtime and applies what changed (provision,       *)
(* Config::load, main, watch_bundle, load_verify, register_identity,       *)
(* fetch_bundle).  A bundle is its generation and the key that signed it.  *)
(***************************************************************************)
EXTENDS Integers, FiniteSets

CONSTANTS
    LastGen,        \* generations 0..LastGen are signed
    LastKey,        \* bundle-signing keys 0..LastKey, in the order they are made
    Port,
    PortsIn,        \* generation -> its protected_ports
    ProtectedCap,   \* max_entries of PROTECTED (64)
    Configs,        \* the configurations a gate may start out with
    LastPrivate,    \* gate keys 0..LastPrivate, in the order they are made
    MaxWrites,      \* bound on bundles published
    MaxBoots        \* bound on the number of times the daemon is started

Gen     == 0..LastGen
Key     == 0..LastKey
NoKey   == -1               \* no anchor
NoMtime == -1
Signed(g, k) == [gen |-> g, key |-> k]
Bad     == Signed(-1, NoKey)    \* bytes that are no signed bundle
Missing == Signed(-2, NoKey)    \* no file
Inline  == Signed(-3, NoKey)    \* policy from the configuration file
Bundle  == [gen : Gen, key : Key]

\* gated.toml, as far as it decides where policy comes from and who this gate is.
Config ==
    [gate_private : 0..LastPrivate, hex : BOOLEAN, suite : {"fips", "modern", "other"},
     control_plane : {"none", "https", "http"}, bundle_path : BOOLEAN,
     config_anchor : Key \cup {NoKey}, gate_id : BOOLEAN, protected_ports : SUBSET Port]

ASSUME BundleAssumption ==
    /\ LastGen \in Nat /\ LastKey \in Nat /\ LastPrivate \in Nat
    /\ MaxWrites \in Nat /\ MaxBoots \in Nat
    /\ PortsIn \in [Gen -> SUBSET Port]
    /\ ProtectedCap \in Nat \ {0}
    /\ Configs \subseteq Config

VARIABLES
    toml,           \* gated.toml
    cfg,            \* the configuration the daemon loaded last
    descriptor,     \* the gate key the control plane hands to clients, or NoKey
    clock,          \* the file system's clock, as mtimes record it
    file, mtime,    \* the contents and mtime of bundle_path
    cp, cpKey,      \* the bundle the control plane serves, and its signing key
    half,           \* the bundle sign-bundle is in the middle of writing, or Bad
    writes,         \* bundles published so far
    pc,             \* where the daemon is, or "down"
    anchor, gateId, \* the anchor in memory, and whether a gate_id is known
    last,           \* last_mtime
    bundle,         \* the bundle the watcher verified and is applying
    clients, tokens,    \* the bundles SharedTrust's two maps are from, or Inline
    protected,      \* PROTECTED
    known,          \* known_ports
    applied,        \* applied_gen
    boot,           \* how often the daemon was started
    missed,         \* history: the file was written between load and first stat
    refused         \* history: ports PROTECTED had no room for in this process

fileVars   == <<clock, file, mtime, missed>>
sourceVars == <<toml, cp, cpKey, half, writes>>
startVars  == <<cfg, descriptor, anchor, gateId, boot>>
trustVars  == <<clients, tokens>>
policyVars == <<trustVars, protected, known, refused, applied>>
vars == <<fileVars, sourceVars, pc, startVars, last, bundle, policyVars>>

\* Config::load: every field parses, and the control plane's url is https.
Loads(c) == c.suite # "other" /\ c.hex /\ c.control_plane # "http"

SelfProvisions == cfg.control_plane # "none"

\* load_verify: the file is there, long enough, signed under the anchor, and parses.
Verifies(b, key) == b.gen \in Gen /\ b.key = key

\* bundle_src: policy comes from a bundle only with an anchor and a path.
FromBundle == anchor # NoKey /\ cfg.bundle_path

Running == pc \in {"sleep", "read", "clients", "tokens", "insert", "remove"}
Up      == Running \/ pc \in {"init", "inline"}

-----------------------------------------------------------------------------
(***************************************************************************)
(* The writers of the file                                                 *)
(***************************************************************************)
\* Bytes b become the contents of bundle_path; no two writes get the same mtime.
Write(b) ==
    /\ clock' = clock + 1
    /\ file' = b /\ mtime' = clock'
    /\ missed' = (pc = "init")

\* The control plane serves another bundle, or an answer that is none.
CpPublish(b) ==
    /\ SelfProvisions /\ writes < MaxWrites
    /\ cp' = b /\ writes' = writes + 1
    /\ UNCHANGED <<fileVars, toml, cpKey, half, pc, startVars, last, bundle, policyVars>>

\* The control plane changes its signing key and signs its bundle anew.
CpRekey ==
    /\ SelfProvisions /\ cpKey < LastKey
    /\ cpKey' = cpKey + 1
    /\ cp' = IF cp = Bad THEN Bad ELSE Signed(cp.gen, cpKey')
    /\ UNCHANGED <<fileVars, toml, half, writes, pc, startVars, last, bundle, policyVars>>

\* Mutant: the file is fetched only if there is none.
FetchBundleOnce ==
    \/ file = Missing /\ Write(cp)
    \/ file # Missing /\ UNCHANGED fileVars

\* fetch_bundle: bytes that differ are written (and renamed), whatever they are;
\* equal ones are left alone.
FetchBundle ==
    \/ cp # file /\ Write(cp)
    \/ cp = file /\ UNCHANGED fileVars

\* A round of the fetch thread that gets an answer; one that fails changes nothing.
Fetch ==
    /\ SelfProvisions /\ cfg.bundle_path
    /\ Up
    /\ FetchBundle
    /\ UNCHANGED <<sourceVars, pc, startVars, last, bundle, policyVars>>

\* sign-bundle: fs::write truncates bundle_path, then fills it.
SignBegin(b) ==
    /\ ~SelfProvisions /\ cfg.bundle_path
    /\ writes < MaxWrites /\ half = Bad
    /\ Write(Bad)
    /\ half' = b /\ writes' = writes + 1
    /\ UNCHANGED <<toml, cp, cpKey, pc, startVars, last, bundle, policyVars>>

SignEnd ==
    /\ half # Bad
    /\ Write(half)
    /\ half' = Bad
    /\ UNCHANGED <<toml, cp, cpKey, writes, pc, startVars, last, bundle, policyVars>>

-----------------------------------------------------------------------------
(***************************************************************************)
(* main, as far as policy is concerned                                     *)
(***************************************************************************)
\* spa-gated provision, also while the daemon runs: a new key of one of the two
\* suites, and everything else from the control plane, whose url is not looked at.
Provision(url) ==
    /\ toml.gate_private < LastPrivate
    /\ toml' = [gate_private |-> toml.gate_private + 1, hex |-> TRUE, suite |-> "modern",
                control_plane |-> url, bundle_path |-> TRUE, config_anchor |-> NoKey,
                gate_id |-> FALSE, protected_ports |-> {}]
    /\ UNCHANGED <<fileVars, cp, cpKey, half, writes, pc, startVars, last, bundle, policyVars>>

\* systemd starts the daemon, which loads its configuration.
Start ==
    /\ pc = "down" /\ boot < MaxBoots
    /\ boot' = boot + 1
    /\ cfg' = toml
    /\ anchor' = toml.config_anchor /\ gateId' = toml.gate_id
    /\ pc' = IF ~Loads(toml) THEN "down"
             ELSE IF toml.control_plane # "none" THEN "register" ELSE "load"
    /\ UNCHANGED <<fileVars, sourceVars, descriptor, last, bundle, policyVars>>

\* register_identity: what the answer, of which the gate parses what it can, brings.
Provisioned == [config_anchor : {cpKey, NoKey}, gate_id : BOOLEAN]

\* Mutant: a gate that the control plane knows is not registered again.
RegisteredOnce == IF descriptor = NoKey THEN cfg.gate_private ELSE descriptor

\* The identity a registration leaves at the control plane.
Registered == cfg.gate_private

\* Anchor and gate id are taken from the answer where none is configured; an
\* error, with the request served or not, ends the process.
Register ==
    /\ pc = "register"
    /\ \/ /\ pc' = "down"
          /\ descriptor' \in {descriptor, Registered}
          /\ UNCHANGED <<anchor, gateId>>
       \/ \E answer \in Provisioned :
             /\ descriptor' = Registered
             /\ anchor' = IF anchor = NoKey THEN answer.config_anchor ELSE anchor
             /\ gateId' = (gateId \/ answer.gate_id)
             /\ pc' = IF cfg.bundle_path THEN "fetch" ELSE "load"
    /\ UNCHANGED <<fileVars, sourceVars, cfg, boot, last, bundle, policyVars>>

\* fetch_bundle; an error of it ends the process.
StartFetch ==
    /\ pc = "fetch"
    /\ \/ FetchBundle /\ pc' = "load"
       \/ UNCHANGED fileVars /\ pc' = "down"
    /\ UNCHANGED <<sourceVars, startVars, last, bundle, policyVars>>

\* The policy of this start, into maps that are new.
Install(b, ports) ==
    /\ clients' = b /\ tokens' = b
    /\ protected' = ports /\ known' = ports /\ refused' = {}
    /\ applied' = IF b = Inline THEN 0 ELSE b.gen
    /\ missed' = FALSE

\* The gate_id check, load_verify or the inline policy, PROTECTED.insert for each
\* port (an error of any of them ends the process), trust.set and set_tokens.
StartLoad ==
    /\ pc = "load"
    /\ \/ /\ gateId /\ FromBundle /\ Verifies(file, anchor)
          /\ Cardinality(PortsIn[file.gen]) <= ProtectedCap
          /\ Install(file, PortsIn[file.gen])
          /\ pc' = "init"
       \/ /\ gateId /\ ~FromBundle
          /\ Cardinality(cfg.protected_ports) <= ProtectedCap
          /\ Install(Inline, cfg.protected_ports)
          /\ pc' = "inline"
       \/ /\ \/ ~gateId
             \/ FromBundle /\ ~Verifies(file, anchor)
             \/ /\ FromBundle /\ Verifies(file, anchor)
                /\ Cardinality(PortsIn[file.gen]) > ProtectedCap
             \/ ~FromBundle /\ Cardinality(cfg.protected_ports) > ProtectedCap
          /\ pc' = "down"
          /\ UNCHANGED <<policyVars, missed>>
    /\ UNCHANGED <<clock, file, mtime, sourceVars, startVars, last, bundle>>

\* watch_bundle, the first stat.
WatchInit ==
    /\ pc = "init"
    /\ last' = IF file = Missing THEN NoMtime ELSE mtime
    /\ pc' = "sleep"
    /\ UNCHANGED <<fileVars, sourceVars, startVars, bundle, policyVars>>

-----------------------------------------------------------------------------
(***************************************************************************)
(* watch_bundle's loop                                                     *)
(***************************************************************************)
\* The stat finds another mtime; with the same one, or no file, the loop
\* sleeps again.
Poll ==
    /\ pc = "sleep"
    /\ file # Missing /\ mtime # last
    /\ last' = mtime
    /\ pc' = "read"
    /\ UNCHANGED <<fileVars, sourceVars, startVars, bundle, policyVars>>

\* Mutants: only the very next generation is applied; a newer bundle is, whoever
\* signed it; the file is, whatever it holds.
AcceptsNextOnly(b) == Verifies(b, anchor) /\ b.gen = applied + 1
AcceptsForeign(b)  == b.gen \in Gen /\ b.gen > applied
AcceptsUnverified(b) == b.gen # applied

\* load_verify and the anti-rollback check.
Accepts(b) == Verifies(b, anchor) /\ b.gen > applied

Read ==
    /\ pc = "read"
    /\ IF Accepts(file)
       THEN pc' = "clients" /\ bundle' = file
       ELSE pc' = "sleep" /\ UNCHANGED bundle
    /\ UNCHANGED <<fileVars, sourceVars, startVars, last, policyVars>>

ApplyClients ==
    /\ pc = "clients"
    /\ clients' = bundle
    /\ pc' = "tokens"
    /\ UNCHANGED <<fileVars, sourceVars, startVars, last, bundle,
                   tokens, protected, known, refused, applied>>

ApplyTokens ==
    /\ pc = "tokens"
    /\ tokens' = bundle
    /\ pc' = "insert"
    /\ UNCHANGED <<fileVars, sourceVars, startVars, last, bundle,
                   clients, protected, known, refused, applied>>

\* The ports that fit: PROTECTED.insert fails when the map is full, and the
\* error is dropped; a HashSet iterates in any order.
Fits(new) ==
    {s \in SUBSET new :
        \/ s = new
        \/ Cardinality(protected \cup s) = ProtectedCap}

\* Mutant: PROTECTED is emptied before the new ports go in.
InsertPortsFlushing ==
    /\ pc = "insert"
    /\ IF protected # {}
       THEN protected' = {} /\ UNCHANGED pc
       ELSE protected' = PortsIn[bundle.gen] /\ pc' = "remove"
    /\ UNCHANGED <<fileVars, sourceVars, startVars, last, bundle,
                   trustVars, known, refused, applied>>

\* new_ports.difference(known_ports) go in.
InsertPorts ==
    /\ pc = "insert"
    /\ LET new == PortsIn[bundle.gen] \ known
       IN  \E s \in Fits(new) :
              /\ Cardinality(protected \cup s) <= ProtectedCap
              /\ protected' = protected \cup s
              /\ refused' = (refused \cup new) \ s
    /\ pc' = "remove"
    /\ UNCHANGED <<fileVars, sourceVars, startVars, last, bundle,
                   trustVars, known, applied>>

\* Mutant: ports the new bundle dropped stay cloaked.
DroppedNone == {}

Dropped == known \ PortsIn[bundle.gen]

\* known_ports.difference(new_ports) go, and the generation counts as applied.
RemovePorts ==
    /\ pc = "remove"
    /\ protected' = protected \ Dropped
    /\ known' = PortsIn[bundle.gen]
    /\ applied' = bundle.gen
    /\ pc' = "sleep"
    /\ UNCHANGED <<fileVars, sourceVars, startVars, last, bundle, trustVars, refused>>

\* The daemon dies.
Crash ==
    /\ pc # "down" /\ boot < MaxBoots
    /\ pc' = "down"
    /\ UNCHANGED <<fileVars, sourceVars, startVars, last, bundle, policyVars>>

-----------------------------------------------------------------------------
Init ==
    /\ toml \in Configs /\ cfg = toml /\ descriptor = NoKey
    /\ clock = 0
    /\ file \in (IF SelfProvisions THEN {Signed(0, 0), Missing} ELSE {Signed(0, 0)})
    /\ mtime = 0
    /\ cp = Signed(0, 0) /\ cpKey = 0
    /\ half = Bad /\ writes = 0
    /\ pc = "down" /\ boot = 0 /\ missed = FALSE
    /\ anchor = NoKey /\ gateId = FALSE
    /\ last = NoMtime /\ bundle = Signed(0, 0)
    /\ clients = Inline /\ tokens = Inline /\ protected = {} /\ known = {}
    /\ refused = {}
    /\ applied = 0

Watcher ==
    \/ WatchInit \/ Poll \/ Read \/ ApplyClients \/ ApplyTokens \/ InsertPorts \/ RemovePorts

Operator ==
    \/ Provision("https") \/ Provision("http")
    \/ \E g \in Gen, k \in Key : SignBegin(Signed(g, k))
    \/ SignEnd

Startup == Start \/ Register \/ StartFetch \/ StartLoad

ControlPlane ==
    \/ \E g \in Gen : CpPublish(Signed(g, cpKey))
    \/ CpPublish(Bad) \/ CpRekey

Next == Watcher \/ Startup \/ Fetch \/ ControlPlane \/ Operator \/ Crash

Spec == Init /\ [][Next]_vars

\* systemd restarts the daemon, its threads run, and the fetch thread's request
\* is answered in the end; nothing says the control plane or an operator ever
\* publishes, nor that the daemon ever dies.
FairSpec ==
    Spec /\ WF_vars(Startup) /\ WF_vars(Watcher) /\ WF_vars(Fetch) /\ WF_vars(SignEnd)

-----------------------------------------------------------------------------
\* Types.
TypeOK ==
    /\ toml \in Config /\ cfg \in Config /\ descriptor \in 0..LastPrivate \cup {NoKey}
    /\ clock \in Nat /\ mtime \in Nat
    /\ file \in Bundle \cup {Bad, Missing}
    /\ cp \in Bundle \cup {Bad} /\ half \in Bundle \cup {Bad}
    /\ cpKey \in Key /\ writes \in Nat
    /\ pc \in {"down", "register", "fetch", "load", "init", "inline", "sleep", "read",
               "clients", "tokens", "insert", "remove"}
    /\ anchor \in Key \cup {NoKey} /\ gateId \in BOOLEAN
    /\ last \in Nat \cup {NoMtime} /\ bundle \in Bundle
    /\ clients \in Bundle \cup {Inline} /\ tokens \in Bundle \cup {Inline} /\ applied \in Gen
    /\ protected \in SUBSET Port /\ known \in SUBSET Port /\ refused \in SUBSET Port
    /\ boot \in Nat /\ missed \in BOOLEAN

Store == INSTANCE PolicyStore WITH Anchor <- Key \cup {NoKey}, up <- Up

\* Seen from the knock loop all of this is a PolicyStore: a start loads clients
\* and tokens together, of the configuration file or of a bundle that verifies
\* under the anchor of that start; while one process runs the anchor stands and
\* each map only ever moves to a newer generation of a bundle that verifies under
\* it, clients before tokens, whatever lands in the file, whoever signed it, and
\* wherever the daemon dies.
ImplementsPolicyStore == Store!Spec

\* A port that both the bundle in force and the one being applied cloak is
\* cloaked throughout the reload, unless PROTECTED had no room for it.
KeptPortsStayCloaked ==
    (Running /\ bundle.gen > applied) =>
        (PortsIn[applied] \cap PortsIn[bundle.gen]) \ refused \subseteq protected

\* Between reloads the data plane and both maps of the trust store are what
\* the applied bundle says, but for the ports PROTECTED had no room for: no
\* other port is left open and none the bundle dropped is left cloaked.
AppliedInForce ==
    pc \in {"sleep", "read"} =>
        /\ clients = Signed(applied, anchor) /\ tokens = clients
        /\ protected \subseteq PortsIn[applied]
        /\ PortsIn[applied] \ refused \subseteq protected

\* A bundle that is on disk to stay, signed under the anchor the daemon holds,
\* is applied without a restart if the daemon loaded it or it was written once
\* the watcher had taken its first stat.
WatchedBundleApplied ==
    \A g \in Gen :
        (<>[](file = Signed(g, anchor) /\ Running /\ ~missed)) => <>[](applied >= g)

\* Once the control plane settles on a bundle and a key, and the daemon that
\* keeps running holds that key (it was started after the last re-key, or has
\* it pinned), that bundle or a newer one is in force in the end, unless it came
\* before the watcher's first stat.
PublishedReachesGate ==
    \A g \in Gen :
        (<>[](SelfProvisions /\ cp = Signed(g, anchor) /\ Running /\ ~missed)) => <>[](applied >= g)

\* A gate that provisions itself and is up is the one clients are told to knock
\* at, though its key was made anew, a registration failed half way or it was
\* killed in between: "every start re-asserts the correct identity" (main).
DescriptorNamesGate ==
    (Up /\ SelfProvisions) => descriptor = cfg.gate_private

\* A gate that provisions itself runs with a verified bundle or with ports of
\* its own configuration: where nothing is set it stops with an error.
NeverWithoutPolicy ==
    (Up /\ SelfProvisions) => clients # Inline \/ cfg.protected_ports # {}
=============================================================================
