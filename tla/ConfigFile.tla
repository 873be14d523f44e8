----------------------------- MODULE ConfigFile -----------------------------
(***************************************************************************)
(* vpp_config.xml, as ds_write_config_file lays it out and its three       *)
(* readers (a CLI process, the backend plugin, vpp-config-loader.sh) take  *)
(* it apart: four sections, each a list of named entries.  A section is    *)
(* the set of the facts its entries hold.                                  *)
(***************************************************************************)
EXTENDS VppFacts

Lists == {"ifs", "bonds", "lcps", "subifs"}
Empty == [l \in Lists |-> {}]

\* The name of the entry a fact is kept in.
EntryOf(f) == IF f.kind = "member" THEN f.val ELSE f.of

Entries(contents, l) == {EntryOf(f) : f \in contents[l]}

\* The lists of a commit that has read v: the addresses and MTUs r, and ns
\* where the namespace of a pair is left to chance.
Reading(v, r, ns) ==
  [ifs |-> ReadList(v) \cup r, bonds |-> ReadBonds(v), lcps |-> PairRead(v, ns),
   subifs |-> {}]

AddrReads(v) ==
  {r \in SUBSET Of(v, {"addr", "mtu"}) : IsAddrRead(r, v, ReadList(v))}

\* The order of the sections in the text.
Place == [ifs |-> 1, bonds |-> 2, lcps |-> 3, subifs |-> 4]

\* The contents whose sections are part of those of p.
Below(p) ==
  [ifs : SUBSET p["ifs"], bonds : SUBSET p["bonds"], lcps : SUBSET p["lcps"],
   subifs : SUBSET p["subifs"]]

\* What the text of p holds up to the end of some block of it: a section whole
\* before the next one, the name of an entry before its fields.
Starts(p) ==
  {q \in Below(p) :
     /\ \A k, l \in Lists : Place[k] < Place[l] /\ q[l] # {} => q[k] = p[k]
     /\ \A l \in {"ifs", "bonds"} : \A f \in q[l] : Exists(EntryOf(f)) \in q[l]}

\* What may be read where blocks of different texts lie over one another: an entry
\* may have the name of one and the fields of the other.
Blend(facts) ==
  {[kind |-> f.kind, of |-> g.of, val |-> f.val] : f, g \in facts} \cap Fact

Mixtures(p, q) == Below([l \in Lists |-> Blend(p[l] \cup q[l])])

\* What the file of a commit may hold that has read VPP while it was v.
Snapshots(v) ==
  {Reading(v, r, ns) : r \in AddrReads(v), ns \in [Ifs -> Netns \cup {None}]}

\* Is f kept by the file store?  An address may have given way to another one of
\* its family, the only one the file has room for; nothing reads the MTU of a
\* sub-interface.
Kept(f, store) ==
  \/ f.kind = "exists" /\ f.of \in Bonds /\ f \in store["bonds"]
  \/ f.kind = "exists" /\ f.of \notin Bonds /\ f \in store["ifs"]
  \/ f.kind \in {"up", "mtu"} /\ f \in store["ifs"]
  \/ f.kind = "mtu" /\ f.of \in Subs
  \/ f.kind = "addr" /\ \E g \in store["ifs"] : SameSlot(f, g)
  \/ f.kind = "member" /\ f \in store["bonds"]
  \/ f.kind = "lcp" /\ \E g \in store["lcps"] :
        g.of = f.of /\ g.val[1] = f.val[1] /\ (f.val[2] = None \/ g = f)

=============================================================================
