--------------------------- MODULE VppFacts_proofs ---------------------------
(***************************************************************************)
(* Lemmas about facts, the commands that change them, and what a commit    *)
(* reads of them, cited by the proofs about CliSession and Restore.        *)
(***************************************************************************)
EXTENDS VppTransaction, ConfigFile, TLAPS

-----------------------------------------------------------------------------
(* Facts and the operators on sets of them.                                *)

\* What the constructors build are facts.
LEMMA FactConstructors ==
  /\ \A i \in Ifs : Exists(i) \in Fact /\ Up(i) \in Fact
  /\ \A i \in Ifs, a \in Addrs : Address(i, a) \in Fact
  /\ \A i \in Ifs, m \in Mtus \cup {None} : Mtu(i, m) \in Fact
  /\ \A i \in Ifs, l \in Links : Pair(i, l) \in Fact
BY DEF Exists, Up, Address, Mtu, Pair, Fact

\* What a fact is about is an interface.
LEMMA FactOf == \A f \in Fact : f.of \in Ifs
BY DEF Fact, Ifs

\* The far end of a pair is a link.
LEMMA PairVal == \A f \in Fact : f.kind = "lcp" => f.val \in Links
BY DEF Fact

\* VPP starts with facts.
LEMMA BootType == Boot \in SUBSET Fact
BY FactConstructors DEF Boot, Ifs

\* A command that makes a fact true leaves facts.
LEMMA EstablishType ==
  ASSUME NEW v \in SUBSET Fact, NEW f \in Fact
  PROVE  Establish(v, f) \in SUBSET Fact
BY DEF Establish

\* So does deleting an interface.
LEMMA DeleteType ==
  ASSUME NEW v \in SUBSET Fact, NEW i
  PROVE  Delete(v, i) \in SUBSET Fact
BY DEF Delete

\* What is read of the pairs are facts, whatever the unset namespaces are.
LEMMA PairReadType ==
  ASSUME NEW v \in SUBSET Fact, NEW ns \in [Ifs -> Netns \cup {None}]
  PROVE  PairRead(v, ns) \in SUBSET Fact
<1> SUFFICES ASSUME NEW f \in v, f.kind = "lcp"
             PROVE  Pair(f.of, <<f.val[1],
                      IF f.val[2] = None THEN ns[f.of] ELSE f.val[2]>>) \in Fact
  BY DEF PairRead, Of
<1>1. f.of \in Ifs
  BY FactOf
<1>2. f.val \in Hosts \X (Netns \cup {None})
  BY PairVal DEF Links
<1>3. <<f.val[1], IF f.val[2] = None THEN ns[f.of] ELSE f.val[2]>> \in Links
  BY <1>1, <1>2 DEF Links
<1> QED
  BY <1>1, <1>3, FactConstructors

\* A transaction adds target facts and the default MTU, no more.
LEMMA TransactType ==
  ASSUME NEW v \in SUBSET Fact, NEW old \in SUBSET Fact, NEW new \in SUBSET Fact
  PROVE  Transact(v, old, new) \in SUBSET Fact
<1>1. Known(v, new) \subseteq Ifs
  BY FactOf DEF Known
<1>2. TargetMtus(v, new) \in SUBSET Fact
  BY <1>1, FactConstructors, DefaultsAssumption DEF TargetMtus, Of
<1> QED
  BY <1>2 DEF Transact, Of

-----------------------------------------------------------------------------
(* What a commit reads.                                                    *)

\* The parts of a snapshot: interfaces with one address in each family, bonds
\* as they are, pairs but for their namespace.
LEMMA SnapshotShape ==
  ASSUME NEW v \in SUBSET Fact, NEW c \in Snapshots(v)
  PROVE  /\ c \in [Lists -> SUBSET Fact]
         /\ c["ifs"] \subseteq v /\ ReadList(v) \subseteq c["ifs"]
         /\ \A f \in c["ifs"] : f.kind \in {"exists", "up", "addr", "mtu"}
         /\ \A f, g \in c["ifs"] : SameSlot(f, g) => f = g
         /\ c["bonds"] = ReadBonds(v)
         /\ \A f \in c["lcps"] : \E g \in v : SamePair(f, g)
         /\ c["subifs"] = {}
<1>1. PICK r \in AddrReads(v), ns \in [Ifs -> Netns \cup {None}] : c = Reading(v, r, ns)
  BY DEF Snapshots
<1>2. r \subseteq v /\ IsAddrRead(r, v, ReadList(v))
  BY DEF AddrReads, Of
<1>3. /\ c["ifs"] = ReadList(v) \cup r /\ c["bonds"] = ReadBonds(v)
      /\ c["lcps"] = PairRead(v, ns) /\ c["subifs"] = {}
  BY <1>1 DEF Reading
<1>4. c \in [Lists -> SUBSET Fact]
  <2>1. PairRead(v, ns) \in SUBSET Fact
    BY PairReadType
  <2>2. ReadList(v) \cup r \in SUBSET Fact /\ ReadBonds(v) \in SUBSET Fact
    BY <1>2 DEF ReadList, ReadBonds, Of
  <2> QED
    BY <1>1, <2>1, <2>2 DEF Reading, Lists
<1>5. \A f \in r : f.kind \in {"addr", "mtu"}
  BY DEF AddrReads, Of
<1>6. \A f \in ReadList(v) : f.kind \in {"exists", "up"}
  BY DEF ReadList, Of
<1>7. \A f, g \in c["ifs"] : SameSlot(f, g) => f = g
  <2>1. \A f, g \in r : SameSlot(f, g) => f = g
    BY <1>2 DEF IsAddrRead
  <2> QED
    BY <1>3, <1>6, <2>1 DEF SameSlot
<1>8. ASSUME NEW f \in c["lcps"] PROVE \E g \in v : SamePair(f, g)
  <2>1. PICK g \in Of(v, {"lcp"}) :
          f = Pair(g.of, <<g.val[1], IF g.val[2] = None THEN ns[g.of] ELSE g.val[2]>>)
    BY <1>3 DEF PairRead
  <2>2. g \in v /\ g.kind = "lcp"
    BY DEF Of
  <2>3. f.kind = "lcp" /\ f.of = g.of /\ f.val[1] = g.val[1]
    BY <2>1 DEF Pair
  <2> QED
    BY <2>2, <2>3 DEF SamePair
<1>9. c["ifs"] \subseteq v /\ ReadList(v) \subseteq c["ifs"]
  BY <1>2, <1>3 DEF ReadList, Of
<1> QED
  BY <1>3, <1>4, <1>5, <1>6, <1>7, <1>8, <1>9

-----------------------------------------------------------------------------
(* States of VPP and contents of the file in which nothing hangs in the air. *)

\* Every fact is about interfaces that are there.
Closed(v) ==
  /\ Boot \subseteq v
  /\ \A f \in v : /\ Exists(f.of) \in v
                  /\ f.kind = "member" => Exists(f.val) \in v
                  /\ f.kind = "exists" /\ f.of \in Subs => Exists(Parent[f.of]) \in v

\* The same of the sections of a file, which agree on the bonds.
WellRead(c) ==
  /\ c \in [Lists -> SUBSET Fact]
  /\ \A f \in c["ifs"] :
       /\ f.kind \in {"exists", "up", "addr", "mtu"}
       /\ Exists(f.of) \in c["ifs"]
       /\ f.of \in Subs => Exists(Parent[f.of]) \in c["ifs"]
  /\ \A b \in Bonds : Exists(b) \in c["ifs"] => Exists(b) \in c["bonds"]
  /\ \A f \in c["bonds"] :
       /\ (f.kind = "exists" /\ f.of \in Bonds) \/ f.kind = "member"
       /\ Exists(EntryOf(f)) \in c["bonds"]
  /\ \A f \in c["lcps"] : f.kind = "lcp" /\ Exists(f.of) \in c["ifs"]

\* A fact is the only one of its kind and interface that says "exists" or "up".
LEMMA FactIs ==
  ASSUME NEW f \in Fact
  PROVE  /\ f.kind = "exists" => f = Exists(f.of)
         /\ f.kind = "up" => f = Up(f.of)
         /\ f.kind = "member" => f = Member(f.of, f.val) /\ f.of \in Phys /\ f.val \in Bonds
BY DEF Fact, Exists, Up, Member

\* VPP starts closed.
LEMMA BootClosed == Closed(Boot)
BY NamesAssumption DEF Closed, Boot, Exists

\* The commands of this repository keep VPP closed.
LEMMA EstablishClosed ==
  ASSUME NEW v \in SUBSET Fact, Closed(v), NEW f \in Fact
  PROVE  Closed(Establish(v, f))
<1>1. CASE ~Accepts(v, f)
  BY <1>1 DEF Establish
<1>2. CASE Accepts(v, f)
  <2>1. Establish(v, f) = (v \ Superseded(v, f)) \cup {f}
    BY <1>2 DEF Establish
  <2>2. \A g \in v : g.kind = "exists" => g \in Establish(v, f)
    BY <2>1 DEF Superseded
  <2>3. \A i : Exists(i) \in v => Exists(i) \in Establish(v, f)
    BY <2>2 DEF Exists
  <2>4. /\ Exists(f.of) \in Establish(v, f)
        /\ f.kind = "member" => Exists(f.val) \in Establish(v, f)
        /\ f.kind = "exists" /\ f.of \in Subs => Exists(Parent[f.of]) \in Establish(v, f)
    <3>1. CASE f.kind = "exists"
      BY <3>1, <1>2, <2>1, <2>3, FactIs DEF Accepts, Present
    <3>2. CASE f.kind = "member"
      BY <3>2, <1>2, <2>3, FactIs DEF Accepts, Present, Closed, Boot
    <3>3. CASE f.kind \notin {"exists", "member"}
      BY <3>3, <1>2, <2>3 DEF Accepts, Present
    <3> QED
      BY <3>1, <3>2, <3>3
  <2> QED
    BY <2>1, <2>2, <2>3, <2>4 DEF Closed, Boot, Exists
<1> QED
  BY <1>1, <1>2

\* So does a transaction: it adds facts about interfaces VPP knows.
LEMMA TransactClosed ==
  ASSUME NEW v \in SUBSET Fact, Closed(v), NEW old \in SUBSET Fact, NEW new \in SUBSET Fact
  PROVE  Closed(Transact(v, old, new))
<1> DEFINE w == Transact(v, old, new)
<1>1. \A i \in Known(v, new) : Exists(i) \in v
  BY FactIs DEF Known
<1>2. ASSUME NEW g \in v, g.kind = "exists" PROVE g \in w
  <2>1. g \notin DeletedAddresses(old, new)
    BY <1>2 DEF DeletedAddresses, Of
  <2>2. \A h \in ShutDown(v, new) : h.kind = "up"
    <3>1. CASE DefaultsFilled
      <4>1. \A i : Up(i).kind = "up"
        BY DEF Up
      <4> QED
        BY <3>1, <4>1 DEF ShutDown
    <3>2. CASE ~DefaultsFilled
      BY <3>2 DEF ShutDown
    <3> QED
      BY <3>1, <3>2
  <2> QED
    BY <1>2, <2>1, <2>2 DEF Transact
<1>3. \A g \in w \ v : g.of \in Known(v, new) /\ g.kind \in {"up", "addr", "mtu"}
  BY DEF Transact, TargetMtus, Of, Mtu
<1>4. \A i : Exists(i) \in v => Exists(i) \in w
  BY <1>2 DEF Exists
<1> HIDE DEF w
<1>5. Boot \subseteq w
  BY <1>4 DEF Closed, Boot
<1>6. ASSUME NEW g \in w
      PROVE  /\ Exists(g.of) \in w
             /\ g.kind = "member" => Exists(g.val) \in w
             /\ g.kind = "exists" /\ g.of \in Subs => Exists(Parent[g.of]) \in w
  BY <1>1, <1>3, <1>4 DEF Closed
<1>7. Closed(w)
  BY <1>5, <1>6 DEF Closed
<1> QED
  BY <1>7 DEF w

\* What a commit reads of a closed VPP is well read.
LEMMA SnapshotWellRead ==
  ASSUME NEW v \in SUBSET Fact, Closed(v), NEW c \in Snapshots(v)
  PROVE  WellRead(c)
<1>1. \A i : Exists(i) \in v => Exists(i) \in c["ifs"]
  BY SnapshotShape DEF ReadList, Of, Exists
<1>2. ASSUME NEW f \in c["ifs"]
      PROVE  /\ f.kind \in {"exists", "up", "addr", "mtu"}
             /\ Exists(f.of) \in c["ifs"]
             /\ f.of \in Subs => Exists(Parent[f.of]) \in c["ifs"]
  <2>1. f \in v /\ f.kind \in {"exists", "up", "addr", "mtu"}
    BY SnapshotShape
  <2>2. Exists(f.of) \in v
    BY <2>1 DEF Closed
  <2>3. f.of \in Subs => Exists(Parent[f.of]) \in v
    BY <2>2 DEF Closed, Exists
  <2> QED
    BY <1>1, <2>1, <2>2, <2>3
<1>3. \A b \in Bonds : Exists(b) \in c["ifs"] => Exists(b) \in c["bonds"]
  BY SnapshotShape DEF ReadBonds, Exists
<1>4. ASSUME NEW f \in c["bonds"]
      PROVE  /\ (f.kind = "exists" /\ f.of \in Bonds) \/ f.kind = "member"
             /\ Exists(EntryOf(f)) \in c["bonds"]
  <2>1. f \in v /\ ((f.kind = "exists" /\ f.of \in Bonds) \/ f.kind = "member")
    BY SnapshotShape DEF ReadBonds
  <2>2. EntryOf(f) \in Bonds /\ Exists(EntryOf(f)) \in v
    BY <2>1, FactIs DEF EntryOf, Closed
  <2> QED
    BY <2>1, <2>2, SnapshotShape DEF ReadBonds, Exists
<1>5. ASSUME NEW f \in c["lcps"] PROVE f.kind = "lcp" /\ Exists(f.of) \in c["ifs"]
  BY <1>1, SnapshotShape DEF SamePair, Closed
<1> QED
  BY <1>2, <1>3, <1>4, <1>5, SnapshotShape DEF WellRead

\* So is the file of a commit that could not read VPP.
LEMMA EmptyWellRead == WellRead(Empty)
<1>1. \A l \in Lists : Empty[l] = {}
  BY DEF Empty
<1> QED
  BY <1>1 DEF WellRead, Empty, Lists

=============================================================================
