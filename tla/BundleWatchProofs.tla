------------------------- MODULE BundleWatchProofs --------------------------
(***************************************************************************)
(* Theorems about how policy reaches the gate, for every number of         *)
(* generations, keys and ports, every capacity of PROTECTED, and whatever  *)
(* lands in the bundle file while the daemon starts, watches and dies.     *)
(***************************************************************************)
EXTENDS BundleWatch, TLAPS

\* The watcher's pcs once policy is loaded from a bundle, those before the
\* ports move, and those at which a verified newer bundle is being applied.
Watching == pc \in {"init", "sleep", "read", "clients", "tokens", "insert", "remove"}
Settled  == pc \in {"init", "sleep", "read", "clients", "tokens", "insert"}
Applying == pc \in {"clients", "tokens", "insert", "remove"}

-----------------------------------------------------------------------------
(***************************************************************************)
(* Type correctness                                                        *)
(***************************************************************************)
\* The fields of a bundle are a generation and a key.
LEMMA SignedType ==
    /\ \A g \in Gen, k \in Key : Signed(g, k) \in Bundle
    /\ \A b \in Bundle : b.gen \in Gen /\ b.key \in Key
    /\ 0 \in Gen /\ 0 \in Key
BY BundleAssumption DEF Signed, Bundle, Gen, Key

\* Bytes that are no bundle, no file at all and the inline policy carry no
\* generation.
LEMMA NoBundle == Bad.gen \notin Gen /\ Missing.gen \notin Gen /\ Inline.gen \notin Gen
BY DEF Bad, Missing, Inline, Signed, Gen

\* A bundle is its generation and its key.
LEMMA BundleIs ==
    ASSUME NEW b \in Bundle
    PROVE  b = Signed(b.gen, b.key)
BY DEF Bundle, Signed

\* What load_verify accepts is a signed bundle.
LEMMA VerifiedIsSigned ==
    ASSUME file \in Bundle \cup {Bad, Missing}, NEW k, Verifies(file, k)
    PROVE  file \in Bundle /\ file.gen \in Gen
BY NoBundle DEF Verifies

\* A configuration's fields have their types.
LEMMA ConfigType ==
    ASSUME NEW c \in Config
    PROVE  /\ c.gate_private \in 0..LastPrivate /\ c.control_plane \in {"none", "https", "http"}
           /\ c.config_anchor \in Key \cup {NoKey} /\ c.gate_id \in BOOLEAN
           /\ c.bundle_path \in BOOLEAN /\ c.protected_ports \in SUBSET Port
BY Zenon DEF Config

\* A gate starts well typed.
LEMMA TypeInit == Init => TypeOK
<1> SUFFICES ASSUME Init PROVE TypeOK OBVIOUS
<1>1. Signed(0, 0) \in Bundle /\ 0 \in Gen /\ 0 \in Key BY SignedType
<1>2. toml \in Config BY BundleAssumption DEF Init
<1>3. file \in Bundle \cup {Bad, Missing} BY <1>1 DEF Init
<1> QED BY <1>1, <1>2, <1>3 DEF Init, TypeOK

\* Writing the file keeps it well typed.
LEMMA WriteType ==
    ASSUME clock \in Nat, NEW b \in Bundle \cup {Bad, Missing}, Write(b)
    PROVE  /\ clock' \in Nat /\ mtime' \in Nat /\ missed' \in BOOLEAN
           /\ file' \in Bundle \cup {Bad, Missing}
BY DEF Write

\* fetch_bundle writes what the control plane serves, or nothing.
LEMMA FetchType ==
    ASSUME TypeOK, FetchBundle
    PROVE  /\ clock' \in Nat /\ mtime' \in Nat /\ missed' \in BOOLEAN
           /\ file' \in Bundle \cup {Bad, Missing}
<1>1. CASE Write(cp) BY <1>1, WriteType DEF TypeOK
<1>2. CASE UNCHANGED fileVars BY <1>2 DEF fileVars, TypeOK
<1> QED BY <1>1, <1>2 DEF FetchBundle

\* Every step keeps every variable well typed.
LEMMA TypeStep == TypeOK /\ [Next]_vars => TypeOK'
<1> SUFFICES ASSUME TypeOK, [Next]_vars PROVE TypeOK' OBVIOUS
<1> USE DEF fileVars, sourceVars, startVars, trustVars, policyVars
<1>ports. \A g \in Gen : PortsIn[g] \in SUBSET Port BY BundleAssumption
<1>1. CASE WatchInit BY <1>1 DEF WatchInit, TypeOK
<1>2. CASE Poll BY <1>2 DEF Poll, TypeOK
<1>3. CASE Read
  <2>1. Accepts(file) => file \in Bundle
        BY VerifiedIsSigned DEF Accepts, TypeOK
  <2> QED BY <1>3, <2>1 DEF Read, TypeOK
<1>4. CASE ApplyClients
  <2>1. clients' \in Bundle BY <1>4 DEF ApplyClients, TypeOK
  <2> QED BY <1>4, <2>1 DEF ApplyClients, TypeOK
<1>5. CASE ApplyTokens
  <2>1. tokens' \in Bundle BY <1>5 DEF ApplyTokens, TypeOK
  <2> QED BY <1>5, <2>1 DEF ApplyTokens, TypeOK
<1>6. CASE InsertPorts
  <2>1. bundle.gen \in Gen /\ protected \in SUBSET Port /\ refused \in SUBSET Port
        BY SignedType DEF TypeOK
  <2>2. PortsIn[bundle.gen] \in SUBSET Port BY <2>1, <1>ports
  <2>3. protected' \in SUBSET Port /\ refused' \in SUBSET Port
        BY <1>6, <2>1, <2>2 DEF InsertPorts, Fits
  <2> QED BY <1>6, <2>3 DEF InsertPorts, TypeOK
<1>7. CASE RemovePorts
  <2>1. bundle.gen \in Gen /\ protected \in SUBSET Port BY SignedType DEF TypeOK
  <2>2. protected' \in SUBSET Port /\ known' \in SUBSET Port
        BY <1>7, <2>1, <1>ports DEF RemovePorts
  <2> QED BY <1>7, <2>1, <2>2 DEF RemovePorts, TypeOK
<1>8. CASE Start
  <2>1. toml \in Config BY DEF TypeOK
  <2>2. toml.config_anchor \in Key \cup {NoKey} /\ toml.gate_id \in BOOLEAN BY <2>1, ConfigType
  <2>3. pc' \in {"down", "register", "load"} /\ boot' \in Nat BY <1>8 DEF Start, TypeOK
  <2> QED BY <1>8, <2>1, <2>2, <2>3 DEF Start, TypeOK
<1>9. CASE Register
  <2>1. cfg.gate_private \in 0..LastPrivate /\ cpKey \in Key BY ConfigType DEF TypeOK
  <2>2. descriptor' \in 0..LastPrivate \cup {NoKey} BY <1>9, <2>1 DEF Register, Registered, TypeOK
  <2>3. anchor' \in Key \cup {NoKey} /\ gateId' \in BOOLEAN
        BY <1>9, <2>1, Zenon DEF Register, Provisioned, TypeOK
  <2>4. pc' \in {"down", "fetch", "load"} BY <1>9 DEF Register
  <2> QED BY <1>9, <2>2, <2>3, <2>4 DEF Register, TypeOK
<1>10. CASE StartFetch
  <2>1. /\ clock' \in Nat /\ mtime' \in Nat /\ missed' \in BOOLEAN
        /\ file' \in Bundle \cup {Bad, Missing}
        BY <1>10, FetchType DEF StartFetch, TypeOK
  <2>2. pc' \in {"load", "down"} BY <1>10 DEF StartFetch
  <2> QED BY <1>10, <2>1, <2>2 DEF StartFetch, TypeOK
<1>11. CASE StartLoad
  <2>1. CASE Verifies(file, anchor) /\ Install(file, PortsIn[file.gen])
    <3>1. file \in Bundle /\ file.gen \in Gen BY <2>1, VerifiedIsSigned DEF TypeOK
    <3>2. file # Inline BY <3>1, NoBundle
    <3>3. PortsIn[file.gen] \in SUBSET Port BY <3>1, <1>ports
    <3>4. /\ clients' \in Bundle \cup {Inline} /\ tokens' \in Bundle \cup {Inline}
          /\ applied' \in Gen
          /\ protected' \in SUBSET Port /\ known' \in SUBSET Port /\ refused' \in SUBSET Port
          /\ missed' \in BOOLEAN
          BY <2>1, <3>1, <3>2, <3>3 DEF Install
    <3>5. pc' \in {"init", "inline", "down"} BY <1>11 DEF StartLoad
    <3> QED BY <1>11, <3>4, <3>5 DEF StartLoad, TypeOK
  <2>2. CASE Install(Inline, cfg.protected_ports)
    <3>1. cfg.protected_ports \in SUBSET Port BY ConfigType DEF TypeOK
    <3>2. 0 \in Gen BY SignedType
    <3>3. /\ clients' \in Bundle \cup {Inline} /\ tokens' \in Bundle \cup {Inline}
          /\ applied' \in Gen
          /\ protected' \in SUBSET Port /\ known' \in SUBSET Port /\ refused' \in SUBSET Port
          /\ missed' \in BOOLEAN
          BY <2>2, <3>1, <3>2 DEF Install
    <3>4. pc' \in {"init", "inline", "down"} BY <1>11 DEF StartLoad
    <3> QED BY <1>11, <3>3, <3>4 DEF StartLoad, TypeOK
  <2>3. CASE pc' = "down" /\ UNCHANGED <<policyVars, missed>>
        BY <1>11, <2>3 DEF StartLoad, TypeOK
  <2> QED BY <1>11, <2>1, <2>2, <2>3 DEF StartLoad
<1>12. CASE Fetch
  <2>1. /\ clock' \in Nat /\ mtime' \in Nat /\ missed' \in BOOLEAN
        /\ file' \in Bundle \cup {Bad, Missing}
        BY <1>12, FetchType DEF Fetch
  <2> QED BY <1>12, <2>1 DEF Fetch, TypeOK
<1>13. ASSUME NEW b \in Bundle \cup {Bad}, CpPublish(b) PROVE TypeOK'
       BY <1>13 DEF CpPublish, TypeOK
<1>14. CASE CpRekey
  <2>1. cpKey' \in Key BY <1>14, BundleAssumption DEF CpRekey, TypeOK, Key
  <2>2. cp \in Bundle \/ cp = Bad BY DEF TypeOK
  <2>3. cp' \in Bundle \cup {Bad} BY <1>14, <2>1, <2>2, SignedType DEF CpRekey
  <2> QED BY <1>14, <2>1, <2>3 DEF CpRekey, TypeOK
<1>15. ASSUME NEW url \in {"http", "https"}, Provision(url) PROVE TypeOK'
  <2>1. toml.gate_private + 1 \in 0..LastPrivate
    <3>1. toml.gate_private \in 0..LastPrivate BY ConfigType DEF TypeOK
    <3> QED BY <1>15, <3>1, BundleAssumption DEF Provision
  <2>2. toml' \in Config BY <1>15, <2>1 DEF Provision, Config
  <2> QED BY <1>15, <2>2 DEF Provision, TypeOK
<1>16. ASSUME NEW b \in Bundle, SignBegin(b) PROVE TypeOK'
  <2>1. /\ clock' \in Nat /\ mtime' \in Nat /\ missed' \in BOOLEAN
        /\ file' \in Bundle \cup {Bad, Missing}
        BY <1>16, WriteType DEF SignBegin, TypeOK
  <2> QED BY <1>16, <2>1 DEF SignBegin, TypeOK
<1>17. CASE SignEnd
  <2>1. half \in Bundle \cup {Bad, Missing} /\ clock \in Nat BY DEF TypeOK
  <2>2. /\ clock' \in Nat /\ mtime' \in Nat /\ missed' \in BOOLEAN
        /\ file' \in Bundle \cup {Bad, Missing}
        BY <1>17, <2>1, WriteType DEF SignEnd
  <2> QED BY <1>17, <2>2 DEF SignEnd, TypeOK
<1>18. CASE Crash BY <1>18 DEF Crash, TypeOK
<1>19. CASE UNCHANGED vars BY <1>19 DEF vars, TypeOK
<1>20. CASE Watcher BY <1>20, <1>1, <1>2, <1>3, <1>4, <1>5, <1>6, <1>7 DEF Watcher
<1>21. CASE Startup BY <1>21, <1>8, <1>9, <1>10, <1>11 DEF Startup
<1>22. CASE ControlPlane
  <2>1. \A g \in Gen : Signed(g, cpKey) \in Bundle \cup {Bad}
        BY SignedType DEF TypeOK
  <2> QED BY <1>22, <2>1, <1>13, <1>14 DEF ControlPlane
<1>23. CASE Operator BY <1>23, <1>15, <1>16, <1>17, SignedType DEF Operator
<1> QED BY <1>12, <1>18, <1>19, <1>20, <1>21, <1>22, <1>23 DEF Next

\* Type correctness of the bundle file, its writers, the start and the watcher.
THEOREM TypeCorrect == Spec => []TypeOK
BY TypeInit, TypeStep, PTL DEF Spec

-----------------------------------------------------------------------------
(***************************************************************************)
(* Reload.  None of the properties is inductive: each speaks of the state  *)
(* between reloads or of one map, and has to be carried through the        *)
(* watcher's steps by what each step has and has not applied yet.          *)
(***************************************************************************)
\* The two maps of the trust store, step by step.
TrustAt ==
    /\ pc \in {"init", "sleep", "read", "clients"} =>
          clients = Signed(applied, anchor) /\ tokens = Signed(applied, anchor)
    /\ pc = "tokens" => clients = bundle /\ tokens = Signed(applied, anchor)
    /\ pc \in {"insert", "remove"} => clients = bundle /\ tokens = bundle

\* PROTECTED against known_ports, up to the ports that found no room: equal
\* until the new ports go in, and between the two sets until the old go out.
PortsAt ==
    /\ Watching => known = PortsIn[applied]
    /\ Settled => protected \subseteq known /\ known \ refused \subseteq protected
    /\ pc = "remove" =>
          /\ protected \subseteq known \cup PortsIn[bundle.gen]
          /\ (known \cup PortsIn[bundle.gen]) \ refused \subseteq protected

\* Only a newer generation, verified under the anchor, is being applied.
NewerAt == Applying => bundle.gen > applied /\ bundle.key = anchor

WatchInv == TrustAt /\ PortsAt /\ NewerAt

\* A daemon that is down has nothing to keep.
LEMMA WatchStart == Init => WatchInv
BY DEF Init, WatchInv, TrustAt, PortsAt, NewerAt, Watching, Settled, Applying

\* Every step keeps WatchInv.
LEMMA WatchStep == TypeOK /\ WatchInv /\ [Next]_vars => WatchInv'
<1> SUFFICES ASSUME TypeOK, WatchInv, [Next]_vars PROVE WatchInv' OBVIOUS
<1> USE DEF fileVars, sourceVars, startVars, trustVars, policyVars
<1>inv. TrustAt /\ PortsAt /\ NewerAt BY DEF WatchInv
<1>keep. ASSUME UNCHANGED <<pc, anchor, bundle, policyVars>> PROVE WatchInv'
         BY <1>keep, <1>inv
         DEF WatchInv, TrustAt, PortsAt, NewerAt, Watching, Settled, Applying
<1>off. ASSUME pc' \in {"down", "register", "fetch", "load", "inline"} PROVE WatchInv'
        BY <1>off DEF WatchInv, TrustAt, PortsAt, NewerAt, Watching, Settled, Applying
<1>quiet. ASSUME pc \in {"init", "sleep", "read"}, pc' \in {"sleep", "read"},
                 UNCHANGED <<anchor, policyVars>>
          PROVE  WatchInv'
          BY <1>quiet, <1>inv
          DEF WatchInv, TrustAt, PortsAt, NewerAt, Watching, Settled, Applying
<1>1. CASE WatchInit BY <1>1, <1>quiet DEF WatchInit
<1>2. CASE Poll BY <1>2, <1>quiet DEF Poll
<1>3. CASE Read
  <2>1. CASE ~Accepts(file) BY <1>3, <2>1, <1>quiet DEF Read
  <2>2. CASE Accepts(file)
    <3>1. /\ pc = "read" /\ pc' = "clients" /\ bundle' = file /\ file.gen > applied
          /\ file.key = anchor /\ UNCHANGED <<anchor, policyVars>>
          BY <1>3, <2>2 DEF Read, Accepts, Verifies
    <3>2. TrustAt' BY <3>1, <1>inv DEF TrustAt
    <3>3. PortsAt' BY <3>1, <1>inv DEF PortsAt, Watching, Settled
    <3>4. NewerAt' BY <3>1 DEF NewerAt
    <3> QED BY <3>2, <3>3, <3>4 DEF WatchInv
  <2> QED BY <2>1, <2>2
<1>4. CASE ApplyClients
  <2>1. /\ pc = "clients" /\ pc' = "tokens" /\ clients' = bundle
        /\ UNCHANGED <<anchor, bundle, tokens, protected, known, refused, applied>>
        BY <1>4 DEF ApplyClients
  <2>2. TrustAt' BY <2>1, <1>inv DEF TrustAt
  <2>3. PortsAt' BY <2>1, <1>inv DEF PortsAt, Watching, Settled
  <2>4. NewerAt' BY <2>1, <1>inv DEF NewerAt, Applying
  <2> QED BY <2>2, <2>3, <2>4 DEF WatchInv
<1>5. CASE ApplyTokens
  <2>1. /\ pc = "tokens" /\ pc' = "insert" /\ tokens' = bundle
        /\ UNCHANGED <<anchor, bundle, clients, protected, known, refused, applied>>
        BY <1>5 DEF ApplyTokens
  <2>2. TrustAt' BY <2>1, <1>inv DEF TrustAt
  <2>3. PortsAt' BY <2>1, <1>inv DEF PortsAt, Watching, Settled
  <2>4. NewerAt' BY <2>1, <1>inv DEF NewerAt, Applying
  <2> QED BY <2>2, <2>3, <2>4 DEF WatchInv
<1>6. CASE InsertPorts
  <2> DEFINE new == PortsIn[bundle.gen] \ known
  <2>1. /\ pc = "insert" /\ pc' = "remove"
        /\ UNCHANGED <<anchor, bundle, clients, tokens, known, applied>>
        BY <1>6 DEF InsertPorts
  <2>2. PICK s \in SUBSET new : protected' = protected \cup s /\ refused' = (refused \cup new) \ s
        BY <1>6 DEF InsertPorts, Fits
  <2>3. TrustAt' BY <2>1, <1>inv DEF TrustAt
  <2>4. PortsAt'
    <3>1. known' = PortsIn[applied'] BY <2>1, <1>inv DEF PortsAt, Watching
    <3>2. protected \subseteq known /\ known \ refused \subseteq protected
          BY <2>1, <1>inv DEF PortsAt, Settled
    <3>3. protected' \subseteq known' \cup PortsIn[bundle'.gen] BY <2>1, <2>2, <3>2
    <3>4. (known' \cup PortsIn[bundle'.gen]) \ refused' \subseteq protected'
          BY <2>1, <2>2, <3>2
    <3> QED BY <2>1, <3>1, <3>3, <3>4 DEF PortsAt, Settled
  <2>5. NewerAt' BY <2>1, <1>inv DEF NewerAt, Applying
  <2> QED BY <2>3, <2>4, <2>5 DEF WatchInv
<1>7. CASE RemovePorts
  <2>1. /\ pc = "remove" /\ pc' = "sleep" /\ applied' = bundle.gen
        /\ known' = PortsIn[bundle.gen]
        /\ protected' = protected \ (known \ PortsIn[bundle.gen])
        /\ UNCHANGED <<anchor, bundle, clients, tokens, refused>>
        BY <1>7 DEF RemovePorts, Dropped
  <2>2. TrustAt'
    <3>1. bundle = Signed(bundle.gen, anchor)
          BY <2>1, <1>inv, BundleIs DEF TypeOK, NewerAt, Applying
    <3>2. clients' = Signed(applied', anchor') /\ tokens' = Signed(applied', anchor')
          BY <2>1, <1>inv, <3>1 DEF TrustAt
    <3> QED BY <2>1, <3>2 DEF TrustAt
  <2>3. PortsAt'
    <3>1. /\ protected \subseteq known \cup PortsIn[bundle.gen]
          /\ (known \cup PortsIn[bundle.gen]) \ refused \subseteq protected
          BY <2>1, <1>inv DEF PortsAt
    <3>2. protected' \subseteq known' /\ known' \ refused' \subseteq protected' BY <2>1, <3>1
    <3> QED BY <2>1, <3>2 DEF PortsAt
  <2>4. NewerAt' BY <2>1 DEF NewerAt, Applying
  <2> QED BY <2>2, <2>3, <2>4 DEF WatchInv
<1>8. CASE Start BY <1>8, <1>off DEF Start
<1>9. CASE Register BY <1>9, <1>off DEF Register
<1>10. CASE StartFetch BY <1>10, <1>off DEF StartFetch
<1>11. CASE StartLoad
  <2>1. CASE pc' # "init" BY <1>11, <2>1, <1>off DEF StartLoad
  <2>2. CASE pc' = "init"
    <3>1. Verifies(file, anchor) /\ Install(file, PortsIn[file.gen]) /\ anchor' = anchor
          BY <1>11, <2>2 DEF StartLoad
    <3>2. file \in Bundle /\ file.gen \in Gen /\ file.key = anchor
          BY <3>1, VerifiedIsSigned DEF TypeOK, Verifies
    <3>3. file # Inline /\ file = Signed(file.gen, anchor) BY <3>2, NoBundle, BundleIs
    <3>4. /\ clients' = file /\ tokens' = file /\ applied' = file.gen
          /\ protected' = PortsIn[file.gen] /\ known' = PortsIn[file.gen] /\ refused' = {}
          BY <3>1, <3>3 DEF Install
    <3> QED BY <2>2, <3>1, <3>3, <3>4
            DEF WatchInv, TrustAt, PortsAt, NewerAt, Watching, Settled, Applying
  <2> QED BY <2>1, <2>2
<1>12. CASE Fetch BY <1>12, <1>keep DEF Fetch
<1>13. CASE ControlPlane BY <1>13, <1>keep DEF ControlPlane, CpPublish, CpRekey
<1>14. CASE Operator BY <1>14, <1>keep DEF Operator, Provision, SignBegin, SignEnd
<1>15. CASE Crash BY <1>15, <1>off DEF Crash
<1>16. CASE UNCHANGED vars BY <1>16, <1>keep DEF vars
<1> QED BY <1>1, <1>2, <1>3, <1>4, <1>5, <1>6, <1>7, <1>8, <1>9, <1>10, <1>11, <1>12, <1>13,
           <1>14, <1>15, <1>16 DEF Next, Watcher, Startup

\* WatchInv is an invariant of the gate.
LEMMA WatchInvariant == Spec => [](TypeOK /\ WatchInv)
<1>1. Init => TypeOK /\ WatchInv BY TypeInit, WatchStart
<1>2. (TypeOK /\ WatchInv) /\ [Next]_vars => (TypeOK /\ WatchInv)' BY TypeStep, WatchStep
<1> QED BY <1>1, <1>2, PTL DEF Spec

\* Between reloads the trust store's maps and PROTECTED are what the applied
\* bundle says, up to the ports that found no room: a reload is complete when
\* the watcher sleeps again, wherever a write or a crash fell.
THEOREM ReloadComplete == Spec => []AppliedInForce
<1>1. TypeOK /\ WatchInv => AppliedInForce
      BY DEF WatchInv, TrustAt, PortsAt, Watching, Settled, AppliedInForce
<1> QED BY <1>1, WatchInvariant, PTL

\* A port that the old and the new bundle both cloak is never uncloaked by the
\* reload from one to the other.
THEOREM ReloadKeepsCloak == Spec => []KeptPortsStayCloaked
<1>1. TypeOK /\ WatchInv => KeptPortsStayCloaked
      BY DEF WatchInv, PortsAt, Watching, Settled, Running, KeptPortsStayCloaked
<1> QED BY <1>1, WatchInvariant, PTL

-----------------------------------------------------------------------------
(***************************************************************************)
(* Identity                                                                *)
(***************************************************************************)
\* Past its registration, a self-provisioning gate is known by its present key.
RegisteredInv ==
    (pc \notin {"down", "register"} /\ SelfProvisions) => descriptor = cfg.gate_private

\* Every step keeps RegisteredInv.
LEMMA RegisteredStep == RegisteredInv /\ [Next]_vars => RegisteredInv'
<1> SUFFICES ASSUME RegisteredInv, [Next]_vars PROVE RegisteredInv' OBVIOUS
<1> USE DEF fileVars, sourceVars, startVars, trustVars, policyVars
<1>keep. ASSUME UNCHANGED <<descriptor, cfg>>,
                pc' \notin {"down", "register"} => pc \notin {"down", "register"}
         PROVE  RegisteredInv'
         BY <1>keep DEF RegisteredInv, SelfProvisions
<1>1. CASE Start BY <1>1 DEF Start, RegisteredInv, SelfProvisions
<1>2. CASE Register
      BY <1>2 DEF Register, Registered, RegisteredInv
<1>3. CASE StartFetch \/ StartLoad
      BY <1>3, <1>keep DEF StartFetch, StartLoad
<1>4. CASE Watcher
      BY <1>4, <1>keep DEF Watcher, WatchInit, Poll, Read, ApplyClients, ApplyTokens,
         InsertPorts, RemovePorts
<1>5. CASE Fetch BY <1>5, <1>keep DEF Fetch
<1>6. CASE ControlPlane BY <1>6, <1>keep DEF ControlPlane, CpPublish, CpRekey
<1>7. CASE Operator BY <1>7, <1>keep DEF Operator, Provision, SignBegin, SignEnd
<1>8. CASE Crash BY <1>8, <1>keep DEF Crash
<1>9. CASE UNCHANGED vars BY <1>9, <1>keep DEF vars
<1> QED BY <1>1, <1>2, <1>3, <1>4, <1>5, <1>6, <1>7, <1>8, <1>9 DEF Next, Startup

\* A self-provisioning gate that is up is the one clients are told to knock
\* at, though it was provisioned again, killed or half registered before.
THEOREM IdentityAsserted == Spec => []DescriptorNamesGate
<1>1. Init => RegisteredInv BY DEF Init, RegisteredInv
<1>2. RegisteredInv => DescriptorNamesGate
      BY DEF RegisteredInv, DescriptorNamesGate, Up, Running
<1> QED BY <1>1, <1>2, RegisteredStep, PTL DEF Spec

-----------------------------------------------------------------------------
(***************************************************************************)
(* Refinement                                                              *)
(***************************************************************************)
\* Every step of start, reload and crash is one the trust store allows.
LEMMA StepIsStore ==
    TypeOK /\ WatchInv /\ [Next]_vars => [Store!Next]_Store!storeVars
<1> SUFFICES ASSUME TypeOK, WatchInv, [Next]_vars
             PROVE  Store!Next \/ UNCHANGED Store!storeVars
    OBVIOUS
<1> USE DEF fileVars, sourceVars, startVars, trustVars, policyVars
<1>same. ASSUME UNCHANGED <<anchor, clients, tokens>>, Up' <=> Up
        PROVE  UNCHANGED Store!storeVars
  <2>1. Up' = Up BY <1>same, Zenon DEF Up, Running
  <2> QED BY <1>same, <2>1 DEF Store!storeVars
<1>anchor. ASSUME ~Up, ~Up', anchor' \in Key \cup {NoKey}, UNCHANGED <<clients, tokens>>
          PROVE  Store!Next
  <2>1. Up' = Up BY <1>anchor, Zenon DEF Up, Running
  <2>2. Store!SetAnchor(anchor') BY <1>anchor, <2>1 DEF Store!SetAnchor
  <2> QED BY <1>anchor, <2>2 DEF Store!Next
<1>1. CASE WatchInit \/ Poll \/ Read
      BY <1>1, <1>same DEF WatchInit, Poll, Read, Up, Running
<1>2. CASE ApplyClients
  <2>1. Up /\ Up' BY <1>2 DEF ApplyClients, Up, Running
  <2>2. Up' = Up BY <2>1, Zenon DEF Up, Running
  <2>3. clients = Signed(applied, anchor) /\ tokens = clients /\ bundle.gen > applied
        /\ bundle.key = anchor /\ clients' = bundle
        BY <1>2 DEF ApplyClients, WatchInv, TrustAt, NewerAt, Applying
  <2>4. bundle \in Bundle /\ UNCHANGED <<anchor, tokens>> BY <1>2 DEF ApplyClients, TypeOK
  <2>5. clients # Inline /\ clients.gen = applied
    <3>1. applied \in Gen /\ clients.gen = applied BY <2>3 DEF TypeOK, Signed
    <3> QED BY <3>1, NoBundle
  <2>6. Store!SetClients(bundle) BY <2>1, <2>2, <2>3, <2>4, <2>5 DEF Store!SetClients
  <2> QED BY <2>4, <2>6 DEF Store!Next
<1>3. CASE ApplyTokens
  <2>1. Up /\ Up' BY <1>3 DEF ApplyTokens, Up, Running
  <2>2. Up' = Up BY <2>1, Zenon DEF Up, Running
  <2>3. tokens = Signed(applied, anchor) /\ clients = bundle /\ bundle.gen > applied
        BY <1>3 DEF ApplyTokens, WatchInv, TrustAt, NewerAt, Applying
  <2>4. tokens # clients
    <3>1. tokens.gen = applied /\ applied \in Int BY <2>3 DEF TypeOK, Signed, Gen
    <3> QED BY <2>3, <3>1
  <2>5. tokens' = clients /\ UNCHANGED <<anchor, clients>> BY <1>3, <2>3 DEF ApplyTokens
  <2>6. Store!SetTokens BY <2>1, <2>2, <2>4, <2>5 DEF Store!SetTokens
  <2> QED BY <2>6 DEF Store!Next
<1>4. CASE InsertPorts \/ RemovePorts
      BY <1>4, <1>same DEF InsertPorts, RemovePorts, Up, Running
<1>type. TypeOK' BY TypeStep
<1>5. CASE Start
  <2>1. ~Up /\ ~Up' /\ UNCHANGED <<clients, tokens>> BY <1>5 DEF Start, Up, Running
  <2> QED BY <1>anchor, <1>type, <2>1 DEF TypeOK
<1>6. CASE Register
  <2>1. ~Up /\ ~Up' /\ UNCHANGED <<clients, tokens>> BY <1>6 DEF Register, Up, Running
  <2> QED BY <1>anchor, <1>type, <2>1 DEF TypeOK
<1>7. CASE StartFetch BY <1>7, <1>same DEF StartFetch, Up, Running
<1>8. CASE StartLoad
  <2>1. CASE pc' = "down" /\ UNCHANGED policyVars
        BY <1>8, <2>1, <1>same DEF StartLoad, Up, Running
  <2>2. ASSUME NEW b \in Bundle \cup {Inline}, b = Inline \/ b.key = anchor, NEW ports,
               Install(b, ports), pc' \in {"init", "inline"}
        PROVE  Store!Next
    <3>1. ~Up /\ UNCHANGED anchor BY <1>8 DEF StartLoad, Up, Running
    <3>2. Up' = TRUE BY <2>2, Zenon DEF Up, Running
    <3>3. Store!Load(b) BY <2>2, <3>1, <3>2 DEF Install, Store!Load
    <3> QED BY <3>3 DEF Store!Next
  <2>3. CASE pc' = "init"
    <3>1. Verifies(file, anchor) /\ Install(file, PortsIn[file.gen])
          BY <1>8, <2>3 DEF StartLoad
    <3>2. file \in Bundle /\ file.key = anchor
          BY <3>1, VerifiedIsSigned DEF TypeOK, Verifies
    <3> QED BY <2>2, <2>3, <3>1, <3>2
  <2>4. CASE pc' = "inline"
    <3>1. Install(Inline, cfg.protected_ports) BY <1>8, <2>4 DEF StartLoad
    <3> QED BY <2>2, <2>4, <3>1
  <2> QED BY <1>8, <2>1, <2>3, <2>4 DEF StartLoad
<1>9. CASE Fetch BY <1>9, <1>same DEF Fetch, Up, Running
<1>10. CASE ControlPlane BY <1>10, <1>same DEF ControlPlane, CpPublish, CpRekey, Up, Running
<1>11. CASE Operator BY <1>11, <1>same DEF Operator, Provision, SignBegin, SignEnd, Up, Running
<1>12. CASE Crash
  <2>1. UNCHANGED <<anchor, clients, tokens>> /\ ~Up' BY <1>12 DEF Crash, Up, Running
  <2>2. CASE ~Up BY <2>1, <2>2, <1>same
  <2>3. CASE Up
    <3>1. Up' = FALSE BY <2>1, Zenon DEF Up, Running
    <3>2. Store!Stop BY <2>1, <2>3, <3>1 DEF Store!Stop
    <3> QED BY <3>2 DEF Store!Next
  <2> QED BY <2>2, <2>3
<1>13. CASE UNCHANGED vars BY <1>13, <1>same DEF vars, Up, Running
<1> QED BY <1>1, <1>2, <1>3, <1>4, <1>5, <1>6, <1>7, <1>8, <1>9, <1>10, <1>11, <1>12, <1>13
        DEF Next, Watcher, Startup

\* Seen from the knock loop the file, its writers, the start, the watcher and
\* every crash are a PolicyStore: clients and tokens of one verified bundle, or of
\* the configuration, at a start, and while one process runs only newer generations
\* of bundles that verify under the anchor of its start, clients first.
THEOREM WatchIsStore == Spec => ImplementsPolicyStore
<1>1. Init => Store!Init
  <2> SUFFICES ASSUME Init PROVE Store!Init OBVIOUS
  <2>1. Up = FALSE BY Zenon DEF Init, Up, Running
  <2> QED BY <2>1 DEF Init, Store!Init
<1>2. TypeOK /\ WatchInv /\ [Next]_vars => [Store!Next]_Store!storeVars BY StepIsStore
<1> QED BY <1>1, <1>2, WatchInvariant, PTL DEF Spec, ImplementsPolicyStore, Store!Spec
=============================================================================
