--------------------------- MODULE MCBundleWatch ----------------------------
(***************************************************************************)
(* Instances of BundleWatch for TLC: 22 stays cloaked, 80 and 443 are      *)
(* swapped for each other, and the configurations are those the README and *)
(* the Ansible role write.                                                 *)
(***************************************************************************)
EXTENDS BundleWatch

MCPortsIn == [g \in Gen |-> CASE g = 0 -> {22, 80} [] g = 1 -> {22, 443} [] OTHER -> {22}]

\* A bundle file signed by an operator, verified under a pinned anchor.
FileConfig ==
    [gate_private |-> 0, hex |-> TRUE, suite |-> "fips", control_plane |-> "none",
     bundle_path |-> TRUE, config_anchor |-> 0, gate_id |-> TRUE, protected_ports |-> {}]

\* Everything from the control plane.
ProvisionedConfig ==
    [FileConfig EXCEPT !.control_plane = "https", !.config_anchor = NoKey, !.gate_id = FALSE]

\* The bundle from the control plane, the anchor pinned.
PinnedConfig == [FileConfig EXCEPT !.control_plane = "https"]

\* The anchor from the control plane, the gate id pinned.
NamedConfig == [ProvisionedConfig EXCEPT !.gate_id = TRUE]

\* Policy in the configuration file itself, one port, and more than fit.
InlineConfig ==
    [FileConfig EXCEPT !.bundle_path = FALSE, !.config_anchor = NoKey, !.protected_ports = {22}]
CrowdedConfig == [InlineConfig EXCEPT !.protected_ports = Port]

\* What Config::load refuses: a control plane spoken to in the clear, an unknown
\* suite, a field that is not the hex it should be.
RefusedConfigs ==
    {[ProvisionedConfig EXCEPT !.control_plane = "http"],
     [FileConfig EXCEPT !.suite = "other"], [FileConfig EXCEPT !.hex = FALSE]}

\* A gate that registers and keeps its policy in the configuration file.
RegisteredConfig == [InlineConfig EXCEPT !.control_plane = "https"]

AllConfigs ==
    {FileConfig, ProvisionedConfig, PinnedConfig, NamedConfig, InlineConfig,
     CrowdedConfig, RegisteredConfig} \cup RefusedConfigs
NamedOnly == {NamedConfig}
=============================================================================
