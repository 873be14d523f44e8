--------------------------- MODULE VppTransaction ---------------------------
(***************************************************************************)
(* What one transaction of the backend plugin does to VPP.                 *)
(*                                                                         *)
(* Clixon calls vpp_trans_commit with the old (running) and the new        *)
(* (target) configuration and a vector of deleted nodes.  Only the         *)
(* interfaces container matters: a configuration is the set of facts of    *)
(* its interface list.  Every command's failure is ignored, and the        *)
(* callback returns 0 whatever happened.                                   *)
(***************************************************************************)
EXTENDS VppFacts

CONSTANTS
  DefaultsFilled,  \* does Clixon hand the plugin a target with YANG defaults?
  YangMtu          \* the default of leaf mtu in vpp-interfaces.yang (1500)

ASSUME DefaultsAssumption ==
  /\ DefaultsFilled \in BOOLEAN
  /\ DefaultsFilled => YangMtu \in Mtus

\* The `address' nodes among the deleted ones.  An address is a deleted node
\* of its own only while its ipv4 (ipv6) container lives on, that is while the
\* new configuration has another address there; when the container or the
\* whole interface goes, the deleted node is that one, and the code skips it.
DeletedAddresses(old, new) ==
  {f \in Of(old, {"addr"}) \ new : \E g \in new : SameSlot(f, g)}

\* Interfaces of the target that VPP knows; the others are skipped.
Known(v, new) == {f.of : f \in {g \in new : g.kind = "exists" /\ g \in v}}

\* `enabled' is false by default, and a false value shuts the interface down.
ShutDown(v, new) ==
  IF DefaultsFilled THEN {Up(i) : i \in {j \in Known(v, new) : Up(j) \notin new}}
  ELSE {}

TargetMtus(v, new) ==
  {f \in Of(new, {"mtu"}) : f.of \in Known(v, new)} \cup
  (IF DefaultsFilled
   THEN {Mtu(i, YangMtu) : i \in {j \in Known(v, new) :
                                    \A f \in Of(new, {"mtu"}) : f.of # j}}
   ELSE {})

Transact(v, old, new) ==
  LET mtus == TargetMtus(v, new) IN
  {f \in (v \ DeletedAddresses(old, new)) \ ShutDown(v, new) :
     \A g \in mtus : f.kind = "mtu" => f.of # g.of}
  \cup mtus
  \cup {f \in Of(new, {"up", "addr"}) : f.of \in Known(v, new)}

=============================================================================
