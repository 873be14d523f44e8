----------------------------- MODULE MCBackend -----------------------------
(***************************************************************************)
(* An instance of Backend for TLC: a physical interface with a VLAN, a     *)
(* loopback and a bond, which operators create and delete meanwhile, so    *)
(* that an index changes hands; two configurations to commit.              *)
(***************************************************************************)
EXTENDS Backend

CONSTANTS eth, loop, bond, vlan, a1, a2, m1500, tap

MCParent == [s \in {vlan} |-> eth]

MCHardware == [p \in {eth} |-> 1]

MCMeddled == {Exists(loop), Exists(bond)}

MCPaired == {<<vlan, <<tap, None>>>>}

\* A loopback that is up, with an address; with another address instead, and
\* the physical interface.
MCTargets ==
  {{Exists(loop), Up(loop), Address(loop, a1)},
   {Exists(loop), Address(loop, a2), Exists(eth)}}

=============================================================================
