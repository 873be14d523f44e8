------------------------------ MODULE VppFacts ------------------------------
(***************************************************************************)
(* The VPP dataplane as this repository uses it.                           *)
(*                                                                         *)
(* VPP itself is not in the repository; what is modelled here is what the  *)
(* code relies on when it runs `vppctl`.  The configuration of a VPP       *)
(* process is a set of FACTS: "this interface exists", "is up", "has this  *)
(* address", "has this MTU", "is a member of that bond", "is paired with   *)
(* that Linux interface".  A command adds or removes facts; a command VPP  *)
(* rejects leaves the set as it is (and vppctl still exits with status 0). *)
(*                                                                         *)
(* The same facts are what the CLI keeps in its pending lists, writes to   *)
(* vpp_config.xml and sends to the Clixon datastores, so the module also   *)
(* says what one read of VPP by the `sync` functions may return.           *)
(***************************************************************************)
EXTENDS Naturals, FiniteSets

CONSTANTS
  Phys,     \* physical interfaces (names containing "Ethernet")
  Loops,    \* loopbacks ("loopN")
  Bonds,    \* bonds ("BondEthernetN")
  Subs,     \* sub-interfaces ("parent.vlan")
  Parent,   \* Parent[s]: the part of the name of s before the dot
  Addr4,    \* IPv4 addresses with their prefix
  Addr6,    \* IPv6 addresses with their prefix
  Mtus,     \* MTU values other than 9000, which the code takes for VPP's default
  Hosts,    \* Linux-side names of LCP pairs
  Netns,    \* network namespaces
  None      \* no value

ASSUME NamesAssumption ==
  /\ Phys \cap (Loops \cup Bonds \cup Subs) = {}
  /\ Loops \cap (Bonds \cup Subs) = {}
  /\ Bonds \cap Subs = {}
  /\ Addr4 \cap Addr6 = {}
  /\ Parent \in [Subs -> Phys \cup Loops \cup Bonds]
  /\ None \notin Phys \cup Loops \cup Bonds \cup Subs \cup Netns

Ifs == Phys \cup Loops \cup Bonds \cup Subs
Addrs == Addr4 \cup Addr6
Links == Hosts \X (Netns \cup {None})   \* the far end of an LCP pair

Exists(i)    == [kind |-> "exists", of |-> i, val |-> None]
Up(i)        == [kind |-> "up",     of |-> i, val |-> None]
Address(i,a) == [kind |-> "addr",   of |-> i, val |-> a]
Mtu(i,m)     == [kind |-> "mtu",    of |-> i, val |-> m]
Member(p,b)  == [kind |-> "member", of |-> p, val |-> b]
Pair(i,l)    == [kind |-> "lcp",    of |-> i, val |-> l]

Fact ==
  [kind : {"exists", "up"}, of : Ifs, val : {None}]
  \cup [kind : {"addr"}, of : Ifs, val : Addrs]
  \cup [kind : {"mtu"}, of : Ifs, val : Mtus \cup {None}]
  \cup [kind : {"member"}, of : Phys, val : Bonds]
  \cup [kind : {"lcp"}, of : Ifs, val : Links]

Of(v, kinds) == {f \in v : f.kind \in kinds}

\* A VPP process that has just started knows its physical interfaces, no more.
Boot == {Exists(p) : p \in Phys}

Present(v, i) == Exists(i) \in v

-----------------------------------------------------------------------------
(* Commands.                                                               *)

\* What VPP requires before it accepts a command that makes f true.
Accepts(v, f) ==
  CASE f.kind = "exists" -> f.of \in Subs => Present(v, Parent[f.of])
    [] f.kind = "member" -> /\ f.of \in Phys /\ Present(v, f.val)
                            /\ \A g \in Of(v, {"member"}) : g.of # f.of
    [] f.kind = "lcp"    -> /\ Present(v, f.of)
                            /\ \A g \in Of(v, {"lcp"}) : g.of # f.of
    [] OTHER             -> Present(v, f.of)

\* An interface has one MTU: setting it replaces the old one.
Superseded(v, f) ==
  {g \in v : f.kind = "mtu" /\ g.kind = "mtu" /\ g.of = f.of}

Establish(v, f) ==
  IF Accepts(v, f) THEN (v \ Superseded(v, f)) \cup {f} ELSE v

\* An interface goes with its sub-interfaces and with its bond members' bonds.
Tree(i) == {i} \cup {s \in Subs : Parent[s] = i}

Delete(v, i) ==
  {f \in v : f.of \notin Tree(i) /\ ~(f.kind = "member" /\ f.val = i)}

-----------------------------------------------------------------------------
(* Reads.  A read returns the facts of one section of the configuration.   *)

\* Two addresses that compete for the one <ipv4-address> (or <ipv6-address>)
\* an interface has in pending_config_t.
SameSlot(f, g) ==
  /\ f.kind = "addr" /\ g.kind = "addr" /\ f.of = g.of
  /\ (f.val \in Addr6) = (g.val \in Addr6)

\* (Mutant of ReadList: the up/down column is not read.)
ReadNames(v) == Of(v, {"exists"})

\* The list half of ds_sync_interfaces_from_vpp: names, and `up` when up.
ReadList(v) == Of(v, {"exists", "up"})

\* The second half: for the names listed, the address VPP prints last in each
\* family (nothing says in which order it prints them, so any may be the last),
\* and the MTU, unless it is 9000 or that of a sub-interface, which
\* `show hardware-interfaces' does not know.
IsAddrRead(r, v, listed) ==
  LET there == {f \in Of(v, {"addr", "mtu"}) : Exists(f.of) \in listed} IN
  /\ r \subseteq there
  /\ Of(r, {"mtu"}) = {f \in Of(there, {"mtu"}) : f.of \notin Subs}
  /\ \A f \in r : \A g \in r : SameSlot(f, g) => f = g
  /\ \A f \in Of(there, {"addr"}) : \E g \in r : SameSlot(f, g)

\* ds_sync_bonds_from_vpp: every bond with its members.
ReadBonds(v) ==
  {f \in v : (f.kind = "exists" /\ f.of \in Bonds) \/ f.kind = "member"}

\* (Mutant of PairRead: the namespace is left out.)
PairReadHostOnly(v, ns) == {Pair(f.of, f.val[1]) : f \in Of(v, {"lcp"})}

\* ds_sync_lcps_from_vpp: every pair.  The namespace of a pair that has none
\* is copied from a buffer sscanf did not fill: any value may come back (ns).
PairRead(v, ns) ==
  {Pair(f.of, <<f.val[1], IF f.val[2] = None THEN ns[f.of] ELSE f.val[2]>>) :
     f \in Of(v, {"lcp"})}

\* Pairs that join the same two interfaces: all a read can promise of a pair.
SamePair(f, g) ==
  f.kind = "lcp" /\ g.kind = "lcp" /\ f.of = g.of /\ f.val[1] = g.val[1]

=============================================================================
