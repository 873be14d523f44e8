----------------------------- MODULE VppCommand -----------------------------
(***************************************************************************)
(* The vppctl commands the backend's RPC handlers run, and what VPP does   *)
(* with one.  A command asks VPP to make one of some facts true ("add"),   *)
(* to make one that holds false ("del"), or something that no fact of      *)
(* VppFacts records ("other").  VPP rejects a command it cannot carry out. *)
(***************************************************************************)
EXTENDS VppFacts

Command == [do : {"add", "del", "other"}, facts : SUBSET Fact]

Add(facts) == [do |-> "add", facts |-> facts]
Del(facts) == [do |-> "del", facts |-> facts]

\* An interface takes everything on it along.
Without(v, f) == IF f.kind = "exists" THEN Delete(v, f.of) ELSE v \ {f}

\* The configurations a command may lead to; none when VPP rejects it.
Obeyed(v, c) ==
  CASE c.do = "add" -> {Establish(v, f) : f \in {g \in c.facts \ v : Accepts(v, g)}}
    [] c.do = "del" -> {Without(v, f) : f \in c.facts \cap v}
    [] OTHER        -> {v}

Named(names) == {Exists(i) : i \in names}

-----------------------------------------------------------------------------
(* One command per function of vpp_interface.c.                            *)

\* VPP picks the number of a loopback.
CreateLoopback == Add(Named(Loops))

DeleteLoopback(i) == Del(Named({i} \cap Loops))

\* The interface is named parent.sub_id, whatever VPP answers.
CreateSubif(s) == Add(Named({s}))

DeleteSubif(i) == Del(Named({i} \cap Subs))

\* No id, and id 0 as well: VPP picks the number.  (Bond0 is BondEthernet0.)
CreateBond(b, Bond0) == Add(Named(IF b \in {None, Bond0} THEN Bonds ELSE {b}))

DeleteBond(i) == Del(Named({i} \cap Bonds))

BondAddMember(b, p) == Add({Member(p, b)})

\* `bond del' names the member alone.
BondDelMember(p) == Del({Member(p, b) : b \in IF p \in Phys THEN Bonds ELSE {}})

LcpCreate(i, l) == Add({Pair(i, l)})

LcpDelete(i) == Del({Pair(i, l) : l \in Links})

\* The default namespace is not among the facts.
LcpSetDefaultNetns == [do |-> "other", facts |-> {}]

=============================================================================
