---------------------------- MODULE MCCliSession ----------------------------
(***************************************************************************)
(* Instances of CliSession for TLC: one physical interface, one bond, one  *)
(* VLAN on the bond, one loopback; each run bounds what is configured.     *)
(***************************************************************************)
EXTENDS CliSession, TLC

CONSTANTS eth, bond, vlan, loop, a1, a2, a6, m1500, tap, ns

MCParent == [s \in {vlan} |-> bond]
MCNoParent == [s \in {} |-> eth]

\* A bond with a VLAN that is addressed, up and paired with a Linux interface.
MCBondVlan ==
  {Exists(bond), Exists(vlan), Up(vlan), Address(vlan, a1), Pair(vlan, <<tap, ns>>)}

\* A bond with a member, an MTU and two addresses that compete for one slot.
MCBondMember ==
  {Exists(bond), Member(eth, bond), Mtu(bond, m1500),
   Address(bond, a1), Address(bond, a2)}

\* A loopback with an IPv6 address.
MCLoopback == {Exists(loop), Address(loop, a6)}

\* One address, which two sessions may set and remove.
MCShared == {Address(eth, a1)}

MCTwoAddresses == {Address(eth, a1), Address(eth, a2)}

Symmetry == Permutations(Sessions)

-----------------------------------------------------------------------------
(* What distinguishes two states of a run (its VIEW).                      *)

\* Nothing reads the startup datastore.
ButFileAndStartup == <<vpp, vppUp, candidate, running, sessionVars, torn, historyVars>>

\* A text is being written that is not whole yet.
InText == \E s \in Sessions : pc[s] \in Writing /\ file # pend[s]

\* With one session that is not killed, what there is of a text is replaced by the
\* whole one before any property speaks of the file.
WholeTexts == <<ButFileAndStartup, IF InText THEN <<>> ELSE file>>

=============================================================================
