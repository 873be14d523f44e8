------------------------------ MODULE MCRestore ------------------------------
(***************************************************************************)
(* Instances of Restore for TLC: what had been configured and saved before *)
(* the boot.                                                               *)
(***************************************************************************)
EXTENDS Restore, TLC

CONSTANTS eth, bond, vlan, loop, a1, m1500, tap, tap2, ns

MCParent == [s \in {vlan} |-> bond]
MCNoParent == [s \in {} |-> eth]

\* A bond with a member and a pair; on it a VLAN with an address and a pair.
MCVlanBuilt ==
  Boot \cup
  {Exists(bond), Member(eth, bond), Pair(bond, <<tap, ns>>),
   Exists(vlan), Up(vlan), Address(vlan, a1), Pair(vlan, <<tap2, None>>)}

\* A loopback with an address, as in README's example.
MCLoopBuilt == Boot \cup {Exists(loop), Up(loop), Address(loop, a1)}

MCVlanSaved == CHOOSE c \in Snapshots(MCVlanBuilt) : TRUE
MCLoopSaved == CHOOSE c \in Snapshots(MCLoopBuilt) : TRUE

=============================================================================
