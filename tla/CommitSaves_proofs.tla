-------------------------- MODULE CommitSaves_proofs --------------------------
(***************************************************************************)
(* What a commit saves: that nothing worth keeping in VPP is missing from  *)
(* vpp_config.xml once the commits are done and no session is marked       *)
(* modified, for any hardware, any number of sessions and any faults.      *)
(***************************************************************************)
EXTENDS CliSession_proofs

-----------------------------------------------------------------------------
(* VPP stays closed, and a VPP that is down has nothing but its hardware.      *)

Grounded == Closed(vpp) /\ (~vppUp => vpp = Boot)

\* Removing facts that no other fact needs keeps VPP closed.
LEMMA CutClosed ==
  ASSUME NEW v \in SUBSET Fact, Closed(v), NEW w \in SUBSET v,
         \A f \in v : f.kind = "exists" => f \in w
  PROVE  Closed(w)
<1>1. \A i : Exists(i) \in v => Exists(i) \in w
  BY DEF Exists
<1> QED
  BY <1>1 DEF Closed, Boot

\* So does deleting an interface that is not hardware, with its sub-interfaces.
LEMMA DeleteClosed ==
  ASSUME NEW v \in SUBSET Fact, Closed(v), NEW i \in Ifs \ Phys
  PROVE  Closed(Delete(v, i))
<1> DEFINE w == Delete(v, i)
<1>1. ASSUME NEW j, Exists(j) \in v, j \notin Tree(i) PROVE Exists(j) \in w
  BY <1>1 DEF Delete, Exists
<1>2. \A j \in Tree(i) : j = i \/ j \in Subs
  BY DEF Tree
<1>3. Boot \subseteq w
  <2>1. \A p \in Phys : p \notin Tree(i)
    BY <1>2, NamesAssumption
  <2> QED
    BY <1>1, <2>1 DEF Closed, Boot
<1>4. ASSUME NEW f \in w
      PROVE  /\ Exists(f.of) \in w
             /\ f.kind = "member" => Exists(f.val) \in w
             /\ f.kind = "exists" /\ f.of \in Subs => Exists(Parent[f.of]) \in w
  <2>1. f \in v /\ f.of \notin Tree(i) /\ ~(f.kind = "member" /\ f.val = i)
    BY DEF Delete
  <2>2. Exists(f.of) \in w
    BY <1>1, <2>1 DEF Closed
  <2>3. ASSUME f.kind = "member" PROVE Exists(f.val) \in w
    <3>1. f.val \in Bonds /\ f.val # i
      BY <2>1, <2>3, FactIs
    <3>2. f.val \notin Tree(i)
      BY <1>2, <3>1, NamesAssumption
    <3> QED
      BY <1>1, <2>1, <2>3, <3>2 DEF Closed
  <2>4. ASSUME f.kind = "exists", f.of \in Subs PROVE Exists(Parent[f.of]) \in w
    <3>1. Parent[f.of] # i
      BY <2>1, <2>4 DEF Tree
    <3>2. Parent[f.of] \notin Subs
      BY <2>4, NamesAssumption
    <3> QED
      BY <1>1, <1>2, <2>1, <2>4, <3>1, <3>2 DEF Closed
  <2> QED
    BY <2>2, <2>3, <2>4
<1> HIDE DEF w
<1>5. Closed(w)
  BY <1>3, <1>4 DEF Closed
<1> QED
  BY <1>5 DEF w

\* What a command of a session does: it changes VPP only when VPP is up, and it
\* either adds nothing to VPP or marks its session.
Commanded(s) ==
  /\ pc[s] = "idle"
  /\ UNCHANGED <<pc, vppUp, file, candidate, running, startup>>
  /\ vpp' = vpp \/ (vppUp /\ Closed(vpp'))
  /\ vpp' \subseteq vpp \/ modified'[s]
  /\ modified[s] => modified'[s]
  /\ \A t \in Sessions \ {s} : modified'[t] = modified[t]

\* A noted command is such a command.
LEMMA NotedCommanded ==
  ASSUME StateInv, Closed(vpp), NEW s \in Sessions, NEW l, NEW f,
         NotedCommand(s, l, f), pc[s] = "idle"
  PROVE  Commanded(s)
<1>1. vpp \in SUBSET Fact /\ f \in Fact
  BY SessionAssumption DEF StateInv, StateOK, NotedCommand
<1>2. vppUp /\ Closed(vpp')
  BY <1>1, EstablishClosed DEF NotedCommand
<1>3. modified'[s] /\ \A t \in Sessions \ {s} : modified'[t] = modified[t]
  BY DEF NotedCommand, Note, StateInv, StateOK
<1> QED
  BY <1>2, <1>3 DEF NotedCommand, Commanded, storeVars

\* So is an unnoted one, if what it removes leaves VPP closed.
LEMMA UnnotedCommanded ==
  ASSUME NEW s \in Sessions, NEW gone, UnnotedCommand(s, gone), Closed(vpp \ gone),
         pc[s] = "idle"
  PROVE  Commanded(s)
BY DEF UnnotedCommand, Commanded, storeVars, sessionVars

\* So is one that changes the mode alone.
LEMMA NothingCommanded ==
  ASSUME NEW s \in Sessions, NothingDone(s), pc[s] = "idle"
  PROVE  Commanded(s)
BY DEF NothingDone, Commanded, storeVars

\* The commands of configure mode.
LEMMA EnterCommanded ==
  ASSUME StateInv, Closed(vpp), NEW s \in Sessions, Enter(s)
  PROVE  Commanded(s)
<1>1. pc[s] = "idle"
  BY CommandsFrame
<1>2. CASE Configure(s) \/ ExitConfigure(s)
  BY <1>1, <1>2, NothingCommanded DEF Configure, ExitConfigure
<1>3. ASSUME NEW i \in Ifs,
             \/ CliInterfaceSelect(s, i) \/ CliInterfaceSelectSub(s, i)
             \/ CliCreateSubifSimple(s, i) \/ CliCreateBondNamed(s, i)
             \/ CliCreateLoopbackInstance(s, i)
      PROVE  Commanded(s)
  BY <1>1, <1>3, NothingCommanded, NotedCommanded
     DEF CliInterfaceSelect, CliInterfaceSelectSub, CliCreateSubifSimple,
         CliCreateBondNamed, CliCreateLoopbackInstance
<1>4. ASSUME NEW i \in Ifs, CliCreateLoopback(s, i) PROVE Commanded(s)
  <2>1. CASE NotedCommand(s, "ifs", Exists(i))
    BY <1>1, <2>1, NotedCommanded
  <2>2. CASE /\ Note(s, Save(Loaded(s), "ifs", Exists(i)))
             /\ UNCHANGED <<vpp, vppUp, storeVars, pc>>
    BY <1>1, <2>2 DEF Note, Commanded, storeVars, StateInv, StateOK
  <2> QED
    BY <1>4, <2>1, <2>2 DEF CliCreateLoopback
<1>5. ASSUME NEW i \in Ifs, CliNoInterface(s, i) PROVE Commanded(s)
  <2>1. vpp \ (vpp \ Delete(vpp, i)) = Delete(vpp, i)
    BY DEF Delete
  <2>2. Closed(Delete(vpp, i))
    BY <1>5, DeleteClosed DEF CliNoInterface, StateInv, StateOK
  <2> QED
    BY <1>1, <1>5, <2>1, <2>2, UnnotedCommanded DEF CliNoInterface
<1> QED
  BY <1>2, <1>3, <1>4, <1>5 DEF Enter

\* The commands of interface mode.
LEMMA EditCommanded ==
  ASSUME StateInv, Closed(vpp), NEW s \in Sessions, Edit(s)
  PROVE  Commanded(s)
<1>1. pc[s] = "idle" /\ vpp \in SUBSET Fact
  BY CommandsFrame DEF StateInv, StateOK
<1>2. ASSUME NEW l, NEW f, NotedCommand(s, l, f) PROVE Commanded(s)
  BY <1>1, <1>2, NotedCommanded
<1>3. ASSUME NEW gone, UnnotedCommand(s, gone), \A f \in gone : f.kind # "exists"
      PROVE  Commanded(s)
  <2>1. Closed(vpp \ gone)
    BY <1>1, <1>3, CutClosed
  <2> QED
    BY <1>1, <1>3, <2>1, UnnotedCommanded
<1>4. ASSUME NEW v \in SUBSET Fact, Closed(v), NEW p, NEW b, JoinBond(s, v, p, b)
      PROVE  Commanded(s)
  <2>1. vppUp /\ Closed(vpp')
    BY <1>4, EstablishClosed, SessionAssumption DEF JoinBond
  <2>2. modified'[s] /\ \A t \in Sessions \ {s} : modified'[t] = modified[t]
    BY <1>4 DEF JoinBond, Note, StateInv, StateOK
  <2> QED
    BY <1>1, <1>4, <2>1, <2>2 DEF JoinBond, Commanded, storeVars
<1>5. ASSUME NEW b, CliIfChannelGroup(s, b) PROVE Commanded(s)
  BY <1>1, <1>4, <1>5 DEF CliIfChannelGroup
<1>6. ASSUME NEW p \in Phys, CliBondAddMember(s, p) PROVE Commanded(s)
  <2>1. Establish(vpp, Up(p)) \in SUBSET Fact /\ Closed(Establish(vpp, Up(p)))
    BY <1>1, FactConstructors, EstablishType, EstablishClosed DEF Ifs
  <2> QED
    BY <1>4, <1>6, <2>1 DEF CliBondAddMember
<1>7. CASE CliIfMtuDefault(s)
  <2>1. Closed(vpp')
    BY <1>1, <1>7, CutClosed DEF CliIfMtuDefault
  <2> QED
    BY <1>1, <1>7, <2>1 DEF CliIfMtuDefault, Note, Commanded, storeVars, StateInv, StateOK
<1>8. CASE CliIfShutdown(s)
  BY <1>3, <1>8 DEF CliIfShutdown, Up
<1>9. ASSUME NEW a, CliIfNoIpAddress(s, a) PROVE Commanded(s)
  BY <1>3, <1>9 DEF CliIfNoIpAddress, Address
<1>10. CASE CliIfNoIpAddressAll(s) \/ CliIfNoChannelGroup(s) \/ CliIfNoLcp(s)
  BY <1>3, <1>10 DEF CliIfNoIpAddressAll, CliIfNoChannelGroup, CliIfNoLcp
<1>11. ASSUME NEW i, CliIfVlan(s, i) PROVE Commanded(s)
  BY <1>1, <1>2, <1>11, NothingCommanded DEF CliIfVlan
<1>12. CASE CliIfExit(s)
  BY <1>1, <1>12, NothingCommanded DEF CliIfExit
<1> QED
  BY <1>2, <1>5, <1>6, <1>7, <1>8, <1>9, <1>10, <1>11, <1>12
     DEF Edit, CliIfMtu, CliIfNoShutdown, CliIfIpAddress, CliIfIpv6Address, CliIfLcp

\* What leaving does: it ends whatever the session was doing.
LEMMA LeaveFrame ==
  ASSUME StateInv, NEW s \in Sessions, Leave(s)
  PROVE  /\ UNCHANGED <<vpp, vppUp, file, candidate, running, startup>>
         /\ pc'[s] = "idle" /\ mode'[s] = "base"
         /\ modified'[s] => modified[s]
         /\ \A t \in Sessions \ {s} :
              modified'[t] = modified[t] /\ pc'[t] = pc[t] /\ pend'[t] = pend[t]
<1>1. CASE CliEndConfirm(s)
  BY <1>1 DEF CliEndConfirm, storeVars, StateInv, StateOK
<1>2. CASE NewProcess(s)
  BY <1>2 DEF NewProcess, Goto, storeVars, StateInv, StateOK
<1> QED
  BY <1>1, <1>2 DEF Leave, Quit, Hangup

\* A step of a commit marks no session and unmarks none but its own.
LEMMA CommitMarks ==
  ASSUME StateInv, NEW s \in Sessions, Commit(s)
  PROVE  /\ pc[s] # "idle" \/ pc'[s] # "idle"
         /\ pc[s] # "copy" => modified' = modified
         /\ \A t \in Sessions \ {s} : modified'[t] = modified[t]
BY DEF Commit, CliVppCommit, SyncList, SyncAddrs, SyncBonds, SyncLcps, OpenFile, FlushBlock,
   WriteFile, Writing, EditCandidate, CommitRunning, CopyStartup, Goto, At, StateInv, StateOK

\* Every step keeps VPP closed.
LEMMA GroundedPreserved ==
  ASSUME StateInv, Grounded, [Next]_vars
  PROVE  Grounded'
<1>1. ASSUME NEW s \in Sessions, Enter(s) \/ Edit(s) PROVE Grounded'
  <2>1. Commanded(s)
    BY <1>1, EnterCommanded, EditCommanded DEF Grounded
  <2> QED
    BY <2>1 DEF Commanded, Grounded
<1>2. ASSUME NEW s \in Sessions, Commit(s) PROVE Grounded'
  <2>1. CASE CommitRunning(s)
    <3>1. Closed(Transact(vpp, running, candidate))
      BY TransactClosed DEF Grounded, StateInv, StateOK
    <3> QED
      BY <2>1, <3>1 DEF CommitRunning, RequestFails, Grounded
  <2>2. CASE UNCHANGED <<vpp, vppUp>>
    BY <2>2 DEF Grounded
  <2> QED
    BY <1>2, <2>1, <2>2 DEF Commit, CliVppCommit, SyncList, SyncAddrs, SyncBonds, SyncLcps,
       OpenFile, FlushBlock, WriteFile, EditCandidate, RequestFails, CopyStartup
<1>3. ASSUME NEW s \in Sessions, Leave(s) PROVE Grounded'
  BY <1>3, LeaveFrame DEF Grounded
<1>4. CASE VppCrash \/ VppStart
  BY <1>4, BootClosed DEF VppCrash, VppStart, Grounded
<1>5. CASE UNCHANGED vars
  BY <1>5 DEF vars, Grounded
<1> QED
  BY <1>1, <1>2, <1>3, <1>4, <1>5 DEF Next

-----------------------------------------------------------------------------
(* What has been gathered of VPP.                                              *)

AfterList  == {"addrs", "bonds", "lcps", "open", "write", "rest", "edit", "commit", "copy"}
AfterAddrs == AfterList \ {"addrs"}
AfterBonds == AfterAddrs \ {"bonds"}
AfterLcps  == AfterBonds \ {"lcps"}

\* At this step of a commit, as much as can have been read of f is in p.
Gathered(step, p, f) ==
  /\ step \in AfterList => /\ Exists(f.of) \in p["ifs"]
                           /\ f.kind \in {"exists", "up"} => f \in p["ifs"]
  /\ step \in AfterAddrs /\ f.kind \in {"addr", "mtu"} => Kept(f, p)
  /\ step \in AfterBonds /\ f.kind \in {"exists", "member"} => Kept(f, p)
  /\ step \in AfterLcps /\ f.kind = "lcp" => Kept(f, p)

\* The list names every interface.
LEMMA ListGathers ==
  ASSUME NEW v \in SUBSET Fact, Closed(v), NEW p, p["ifs"] = ReadList(v), NEW f \in v
  PROVE  Gathered("addrs", p, f)
<1>1. Exists(f.of) \in ReadList(v)
  BY DEF Closed, ReadList, Of, Exists
<1>2. f.kind \in {"exists", "up"} => f \in ReadList(v)
  BY DEF ReadList, Of
<1> QED
  BY <1>1, <1>2 DEF Gathered, AfterList, AfterAddrs, AfterBonds, AfterLcps

\* For an interface listed, an address of each family it has, and its MTU.
LEMMA AddrsGather ==
  ASSUME NEW v \in SUBSET Fact, NEW p, NEW r, IsAddrRead(r, v, p["ifs"]), NEW q,
         q["ifs"] = p["ifs"] \cup r, NEW f \in v, Gathered("addrs", p, f)
  PROVE  Gathered("bonds", q, f)
<1>1. Exists(f.of) \in p["ifs"] /\ (f.kind \in {"exists", "up"} => f \in p["ifs"])
  BY DEF Gathered, AfterList
<1>2. ASSUME f.kind = "addr" PROVE Kept(f, q)
  <2>1. \E g \in r : SameSlot(f, g)
    BY <1>1, <1>2 DEF IsAddrRead, Of
  <2> QED
    BY <1>2, <2>1 DEF Kept
<1>3. ASSUME f.kind = "mtu" PROVE Kept(f, q)
  <2>1. CASE f.of \in Subs
    BY <1>3, <2>1 DEF Kept
  <2>2. CASE f.of \notin Subs
    <3>1. f \in Of(r, {"mtu"})
      BY <1>1, <1>3, <2>2 DEF IsAddrRead, Of
    <3> QED
      BY <1>3, <3>1 DEF Kept, Of
  <2> QED
    BY <2>1, <2>2
<1> QED
  BY <1>1, <1>2, <1>3 DEF Gathered, AfterList, AfterAddrs, AfterBonds, AfterLcps

\* Whether an interface, an address, an MTU or a state is kept is a matter of the
\* interface section; a bond or a member, of the bonds; a pair, of the pairs.
LEMMA KeptBySection ==
  ASSUME NEW p, NEW q, NEW f
  PROVE  /\ p["ifs"] = q["ifs"] /\ f.kind \in {"up", "addr", "mtu"}
              => (Kept(f, p) <=> Kept(f, q))
         /\ p["ifs"] = q["ifs"] /\ p["bonds"] = q["bonds"] /\ f.kind \in {"exists", "member"}
              => (Kept(f, p) <=> Kept(f, q))
BY DEF Kept

\* Every bond, with its members.
LEMMA BondsGather ==
  ASSUME NEW v \in SUBSET Fact, NEW p, NEW q, q["ifs"] = p["ifs"], q["bonds"] = ReadBonds(v),
         NEW f \in v, Gathered("bonds", p, f)
  PROVE  Gathered("lcps", q, f)
<1>1. /\ Exists(f.of) \in q["ifs"]
      /\ f.kind \in {"exists", "up"} => f \in q["ifs"]
      /\ f.kind \in {"addr", "mtu"} => Kept(f, p)
  BY DEF Gathered, AfterList, AfterAddrs
<1>2. f.kind \in {"addr", "mtu"} => Kept(f, q)
  BY <1>1, KeptBySection
<1>3. f.kind \in {"exists", "member"} => Kept(f, q)
  BY <1>1 DEF Kept, ReadBonds
<1> QED
  BY <1>1, <1>2, <1>3 DEF Gathered, AfterLcps, AfterBonds

\* Every pair, up to a namespace it does not have.
LEMMA LcpsGather ==
  ASSUME NEW v \in SUBSET Fact, NEW p, NEW q, q["ifs"] = p["ifs"], q["bonds"] = p["bonds"],
         NEW ns, q["lcps"] = PairRead(v, ns), NEW f \in v, Gathered("lcps", p, f)
  PROVE  Gathered("open", q, f)
<1>1. /\ Exists(f.of) \in q["ifs"]
      /\ f.kind \in {"exists", "up"} => f \in q["ifs"]
      /\ f.kind \in {"addr", "mtu"} => Kept(f, p)
      /\ f.kind \in {"exists", "member"} => Kept(f, p)
  BY DEF Gathered, AfterList, AfterAddrs, AfterBonds
<1>2. /\ f.kind \in {"addr", "mtu"} => Kept(f, q)
      /\ f.kind \in {"exists", "member"} => Kept(f, q)
  BY <1>1, KeptBySection
<1>3. ASSUME f.kind = "lcp" PROVE Kept(f, q)
  <2> DEFINE g == Pair(f.of, <<f.val[1], IF f.val[2] = None THEN ns[f.of] ELSE f.val[2]>>)
  <2>1. g \in q["lcps"]
    BY <1>3 DEF PairRead, Of
  <2>2. g.of = f.of /\ g.val[1] = f.val[1]
    BY DEF Pair
  <2>3. f.val[2] = None \/ g = f
    <3>1. f = [kind |-> "lcp", of |-> f.of, val |-> f.val] /\ f.val = <<f.val[1], f.val[2]>>
      BY <1>3 DEF Fact, Links
    <3> QED
      BY <3>1 DEF Pair
  <2> HIDE DEF g
  <2> QED
    BY <1>3, <2>1, <2>2, <2>3 DEF Kept
<1> QED
  BY <1>1, <1>2, <1>3 DEF Gathered

\* Once the lists are complete nothing more is gathered, and all of f is kept.
LEMMA AllGathered ==
  ASSUME NEW p, NEW f \in Fact, NEW step \in AfterLcps
  PROVE  /\ \A later \in AfterLcps : Gathered(later, p, f) <=> Gathered(step, p, f)
         /\ Gathered(step, p, f) => Kept(f, p)
<1>1. f.kind \in {"exists", "up", "addr", "mtu", "member", "lcp"}
  BY DEF Fact
<1>2. \A later \in AfterLcps : later \in AfterList /\ later \in AfterAddrs /\ later \in AfterBonds
  BY DEF AfterList, AfterAddrs, AfterBonds, AfterLcps
<1>3. \A later \in AfterLcps : Gathered(later, p, f) <=> Gathered(step, p, f)
  BY <1>2 DEF Gathered
<1>4. f.kind = "up" /\ f \in p["ifs"] => Kept(f, p)
  BY DEF Kept
<1> QED
  BY <1>1, <1>2, <1>3, <1>4 DEF Gathered

\* A transaction adds what the new configuration says of interfaces VPP knows, and
\* the default MTU.
LEMMA TransactAdds ==
  ASSUME NEW v, NEW old, NEW new, NEW f \in Transact(v, old, new), f \notin v
  PROVE  \/ Imposed(f)
         \/ f \in new /\ f.kind \in {"up", "addr", "mtu"} /\ f.of \in Known(v, new)
<1>1. f \in TargetMtus(v, new) \/ f \in {g \in Of(new, {"up", "addr"}) : g.of \in Known(v, new)}
  BY DEF Transact
<1>2. CASE f \in TargetMtus(v, new)
  <2>1. CASE f \in {g \in Of(new, {"mtu"}) : g.of \in Known(v, new)}
    BY <2>1 DEF Of
  <2>2. CASE f \notin {g \in Of(new, {"mtu"}) : g.of \in Known(v, new)}
    <3>1. DefaultsFilled /\ \E i : f = Mtu(i, YangMtu)
      BY <1>2, <2>2 DEF TargetMtus
    <3> QED
      BY <3>1 DEF Mtu, Imposed
  <2> QED
    BY <2>1, <2>2
<1>3. CASE f \in {g \in Of(new, {"up", "addr"}) : g.of \in Known(v, new)}
  BY <1>3 DEF Of
<1> QED
  BY <1>1, <1>2, <1>3

\* What a transaction adds for a commit that gathered p is in p.
LEMMA TransactGathered ==
  ASSUME NEW v, NEW old, NEW p, p["ifs"] \in SUBSET Fact,
         NEW f \in Transact(v, old, p["ifs"]), f \notin v, ~Imposed(f)
  PROVE  Gathered("copy", p, f)
<1>1. f \in p["ifs"] /\ f.kind \in {"up", "addr", "mtu"} /\ f.of \in Known(v, p["ifs"])
  BY TransactAdds
<1>2. Exists(f.of) \in p["ifs"]
  BY <1>1, FactIs DEF Known
<1>3. Kept(f, p)
  BY <1>1 DEF Kept, SameSlot
<1> QED
  BY <1>1, <1>2, <1>3 DEF Gathered

-----------------------------------------------------------------------------
(* The inductive invariant.  While no two commits overlapped, one session at   *)
(* most commits.  What it will have gathered is all that is owed if it is      *)
(* CERTAIN: nothing changed VPP since it began, or all that did is marked by   *)
(* the sessions that changed it.  The file owes the rest: while it is not      *)
(* empty in between two steps of a commit, it holds what is owed unless some   *)
(* session is marked.                                                          *)

Certain(s) ==
  quiet[s] \/ (~waived /\ \A t \in Sessions \ {s} : ~modified[t])

OneCommit ==
  /\ \A s, t \in Sessions : pc[s] # "idle" /\ pc[t] # "idle" => s = t
  /\ \A s \in Sessions : ~torn[s]

FileByStep(s) ==
  /\ pc[s] \in {"edit", "commit", "copy"} /\ ~spoilt => file = pend[s]
  /\ pc[s] = "commit" => candidate = pend[s]["ifs"]

ReadByStep(s) ==
  pc[s] # "idle" /\ Certain(s) => \A f \in Worth(vpp) : Gathered(pc[s], pend[s], f)

FileCurrent ==
  /\ ~spoilt /\ ~waived
  /\ \A s \in Sessions : pc[s] \notin Writing /\ ~modified[s]
  => \A f \in Worth(vpp) : Kept(f, file)

Saving ==
  ~overlapped => /\ OneCommit /\ FileCurrent
                 /\ \A s \in Sessions : FileByStep(s) /\ ReadByStep(s)

\* What VPP loses is owed no longer.
LEMMA WorthShrinks ==
  ASSUME NEW v, NEW w \in SUBSET v
  PROVE  Worth(w) \subseteq Worth(v)
BY DEF Worth, Imposed

\* Abandoned changes stay on record until an undisturbed commit ends.
LEMMA WaivedStays ==
  ASSUME HistoryOK, Observe, waived,
         \A s \in Sessions : pc[s] = "copy" => pc'[s] = "copy"
  PROVE  waived'
BY DEF Observe, HistoryOK

\* A session that loses its mark otherwise than by the end of a commit is recorded.
LEMMA UnmarkedIsWaived ==
  ASSUME HistoryOK, Observe, NEW s \in Sessions,
         modified[s], ~modified'[s], mode'[s] = "base", pc[s] # "copy",
         \A t \in Sessions : pc[t] = "copy" => pc'[t] = "copy"
  PROVE  waived'
BY DEF Observe, HistoryOK

\* One commit at a time, and it was one before.
LEMMA OneCommitPreserved ==
  ASSUME Observe, Saving, HistoryOK, ~overlapped'
  PROVE  /\ ~overlapped /\ OneCommit /\ FileCurrent /\ OneCommit'
         /\ \A s \in Sessions : FileByStep(s) /\ ReadByStep(s)
<1>1. ~overlapped /\ \A s, t \in Sessions : pc'[s] # "idle" /\ pc'[t] # "idle" => s = t
  BY DEF Observe, HistoryOK
<1>2. OneCommit
  BY <1>1 DEF Saving
<1>3. \A s \in Sessions : ~torn'[s]
  BY <1>1, <1>2 DEF Observe, OneCommit, Writing
<1> QED
  BY <1>1, <1>3 DEF Saving, OneCommit

\* A command keeps the invariant: what it adds to VPP it marks.
LEMMA CommandSaves ==
  ASSUME StateInv, HistoryOK, Saving, Observe, NEW s \in Sessions, Commanded(s),
         \A t \in Sessions \ {s} : pend'[t] = pend[t]
  PROVE  Saving'
<1> SUFFICES ASSUME ~overlapped' PROVE Saving'
  BY DEF Saving
<1>1. /\ ~overlapped /\ OneCommit /\ FileCurrent /\ OneCommit'
      /\ \A t \in Sessions : FileByStep(t) /\ ReadByStep(t)
  BY OneCommitPreserved
<1>2. pc[s] = "idle" /\ pc' = pc /\ file' = file /\ candidate' = candidate
  BY DEF Commanded
<1>3. ~waived' => ~waived
  BY <1>2, WaivedStays
<1>4. spoilt' = spoilt
  BY <1>2 DEF Observe, Writing, HistoryOK
<1>5. ~modified'[s] => ~modified[s] /\ Worth(vpp') \subseteq Worth(vpp)
  BY WorthShrinks DEF Commanded
<1>6. \A t \in Sessions \ {s} : modified'[t] = modified[t]
  BY DEF Commanded
<1>7. FileCurrent'
  <2>1. (\A f \in Worth(vpp) : Kept(f, file))' <=> \A f \in Worth(vpp') : Kept(f, file)
    BY <1>2
  <2> QED
    BY <1>1, <1>2, <1>3, <1>4, <1>5, <1>6, <2>1 DEF FileCurrent
<1>8. ASSUME NEW t \in Sessions PROVE FileByStep(t)' /\ ReadByStep(t)'
  <2>1. CASE t = s
    BY <1>2, <2>1 DEF FileByStep, ReadByStep
  <2>2. CASE t # s
    <3>1. pend'[t] = pend[t] /\ pc'[t] = pc[t]
      BY <1>2, <2>2
    <3>2. FileByStep(t)'
      BY <1>1, <1>2, <1>4, <3>1 DEF FileByStep
    <3>3. ASSUME pc[t] # "idle", Certain(t)'
          PROVE  Certain(t) /\ Worth(vpp') \subseteq Worth(vpp)
      <4>1. CASE quiet'[t]
        BY <3>1, <3>3, <4>1 DEF Certain, Observe
      <4>2. CASE ~waived' /\ \A u \in Sessions \ {t} : ~modified'[u]
        BY <1>3, <1>5, <1>6, <2>2, <4>2 DEF Certain
      <4> QED
        BY <3>3, <4>1, <4>2 DEF Certain
    <3>4. ReadByStep(t)'
      BY <1>1, <3>1, <3>3 DEF ReadByStep
    <3> QED
      BY <3>2, <3>4
  <2> QED
    BY <2>1, <2>2
<1> QED
  BY <1>1, <1>7, <1>8 DEF Saving

\* A written file holds all that a certain commit gathered.
LEMMA WrittenIsCurrent ==
  ASSUME StateInv, NEW s \in Sessions, pc[s] \in {"edit", "commit", "copy"},
         FileByStep(s), ReadByStep(s), Certain(s), ~spoilt
  PROVE  \A f \in Worth(vpp) : Kept(f, file)
<1> SUFFICES ASSUME NEW f \in Worth(vpp) PROVE Kept(f, file)
  OBVIOUS
<1>1. Gathered(pc[s], pend[s], f)
  BY DEF ReadByStep
<1>2. f \in Fact
  BY DEF Worth, Imposed, StateInv, StateOK
<1>3. Kept(f, pend[s])
  BY <1>1, <1>2, AllGathered DEF AfterLcps, AfterBonds, AfterAddrs, AfterList
<1> QED
  BY <1>3 DEF FileByStep

\* The same after a step.
LEMMA WrittenIsCurrentNext ==
  ASSUME StateInv', NEW s \in Sessions, pc'[s] \in {"edit", "commit", "copy"},
         FileByStep(s)', ReadByStep(s)'
  PROVE  FileCurrent'
<1> SUFFICES ASSUME ~spoilt', ~waived', \A t \in Sessions : ~modified'[t],
                    NEW f \in Worth(vpp')
             PROVE  Kept(f, file')
  <2>1. (\A f \in Worth(vpp) : Kept(f, file))' <=> \A f \in Worth(vpp') : Kept(f, file')
    OBVIOUS
  <2> QED
    BY <2>1 DEF FileCurrent
<1>1. Gathered(pc'[s], pend'[s], f)
  BY DEF ReadByStep, Certain
<1>2. f \in Fact
  BY DEF Worth, Imposed, StateInv, StateOK
<1>3. Kept(f, pend'[s])
  BY <1>1, <1>2, AllGathered DEF AfterLcps, AfterBonds, AfterAddrs, AfterList
<1> QED
  BY <1>3 DEF FileByStep

\* Leaving keeps the invariant, at any step of a commit: a mark that is lost is
\* recorded, and so is a file left empty.
LEMMA LeaveSaves ==
  ASSUME StateInv, HistoryOK, Saving, Observe, NEW s \in Sessions, Leave(s)
  PROVE  Saving'
<1> SUFFICES ASSUME ~overlapped' PROVE Saving'
  BY DEF Saving
<1>1. /\ ~overlapped /\ OneCommit /\ FileCurrent /\ OneCommit'
      /\ \A t \in Sessions : FileByStep(t) /\ ReadByStep(t)
  BY OneCommitPreserved
<1>2. /\ UNCHANGED <<vpp, vppUp, file, candidate>>
      /\ pc'[s] = "idle" /\ mode'[s] = "base"
      /\ modified'[s] => modified[s]
      /\ \A t \in Sessions \ {s} :
           modified'[t] = modified[t] /\ pc'[t] = pc[t] /\ pend'[t] = pend[t]
  BY LeaveFrame
<1>3. ~spoilt' => ~spoilt /\ pc[s] \notin Writing
  BY <1>2 DEF Observe, Writing, HistoryOK
<1>4. ASSUME ~waived', ~modified'[s], pc[s] # "copy" PROVE ~waived /\ ~modified[s]
  BY <1>2, <1>4, WaivedStays, UnmarkedIsWaived
<1>5. FileCurrent'
  <2> SUFFICES ASSUME ~spoilt', ~waived',
                      \A t \in Sessions : pc'[t] \notin Writing /\ ~modified'[t]
               PROVE  \A f \in Worth(vpp) : Kept(f, file)
    <3>1. (\A f \in Worth(vpp) : Kept(f, file))' <=> \A f \in Worth(vpp) : Kept(f, file)
      BY <1>2
    <3> QED
      BY <3>1 DEF FileCurrent
  <2>1. ~spoilt /\ pc[s] \notin Writing
    BY <1>3
  <2>2. \A t \in Sessions \ {s} : pc[t] \notin Writing /\ ~modified[t]
    BY <1>2
  <2>3. CASE pc[s] \in {"edit", "commit", "copy"}
    <3>1. Certain(s)
      <4>1. quiet[s] \/ ~waived
        BY <1>4, <1>2 DEF Observe, HistoryOK
      <4> QED
        BY <2>2, <4>1 DEF Certain
    <3> QED
      BY <1>1, <2>1, <2>3, <3>1, WrittenIsCurrent
  <2>4. CASE pc[s] \notin {"edit", "commit", "copy"}
    BY <1>1, <1>4, <2>1, <2>2, <2>4 DEF FileCurrent
  <2> QED
    BY <2>3, <2>4
<1>6. ASSUME NEW t \in Sessions PROVE FileByStep(t)' /\ ReadByStep(t)'
  <2>1. CASE pc'[t] = "idle"
    BY <2>1 DEF FileByStep, ReadByStep
  <2>2. CASE pc'[t] # "idle"
    <3>1. t # s /\ pend'[t] = pend[t] /\ pc'[t] = pc[t] /\ pc[s] = "idle"
      BY <1>1, <1>2, <2>2 DEF OneCommit
    <3>2. FileByStep(t)'
      BY <1>1, <1>2, <1>3, <3>1 DEF FileByStep
    <3>3. Certain(t)' => Certain(t)
      <4>1. quiet'[t] => quiet[t]
        BY <2>2, <3>1 DEF Observe
      <4>2. ASSUME ~waived', \A u \in Sessions \ {t} : ~modified'[u]
            PROVE  ~waived /\ \A u \in Sessions \ {t} : ~modified[u]
        BY <1>2, <1>4, <3>1, <4>2
      <4> QED
        BY <4>1, <4>2 DEF Certain
    <3>4. (\A f \in Worth(vpp) : Gathered(pc[t], pend[t], f))'
             <=> \A f \in Worth(vpp) : Gathered(pc[t], pend[t], f)
      BY <1>2, <3>1
    <3>5. ReadByStep(t)'
      BY <1>1, <3>1, <3>3, <3>4 DEF ReadByStep
    <3> QED
      BY <3>2, <3>5
  <2> QED
    BY <2>1, <2>2
<1> QED
  BY <1>1, <1>5, <1>6 DEF Saving

\* So does an outage: what VPP forgets is owed no longer.
LEMMA VppSaves ==
  ASSUME StateInv, HistoryOK, Grounded, Saving, Observe, VppCrash \/ VppStart
  PROVE  Saving'
<1> SUFFICES ASSUME ~overlapped' PROVE Saving'
  BY DEF Saving
<1>1. /\ ~overlapped /\ OneCommit /\ FileCurrent /\ OneCommit'
      /\ \A t \in Sessions : FileByStep(t) /\ ReadByStep(t)
  BY OneCommitPreserved
<1>2. UNCHANGED <<file, candidate, pc, pend, modified>>
  BY DEF VppCrash, VppStart, storeVars, sessionVars
<1>3. Worth(vpp') = {} \/ vpp' = vpp
  BY DEF VppCrash, VppStart, Worth, Imposed
<1>4. (~waived' => ~waived) /\ spoilt' = spoilt
  BY <1>2 DEF Observe, Writing, HistoryOK
<1>5. FileCurrent'
  <2>1. (\A f \in Worth(vpp) : Kept(f, file))' <=> \A f \in Worth(vpp') : Kept(f, file)
    BY <1>2
  <2> QED
    BY <1>1, <1>2, <1>3, <1>4, <2>1 DEF FileCurrent
<1>6. ASSUME NEW t \in Sessions PROVE FileByStep(t)' /\ ReadByStep(t)'
  <2>1. FileByStep(t)'
    BY <1>1, <1>2, <1>4 DEF FileByStep
  <2>2. pc[t] # "idle" /\ Certain(t)' => Certain(t)
    BY <1>2, <1>4 DEF Certain, Observe
  <2>3. (\A f \in Worth(vpp) : Gathered(pc[t], pend[t], f))'
           <=> \A f \in Worth(vpp') : Gathered(pc[t], pend[t], f)
    BY <1>2
  <2> QED
    BY <1>1, <1>2, <1>3, <2>1, <2>2, <2>3 DEF ReadByStep
<1> QED
  BY <1>1, <1>5, <1>6 DEF Saving

\* What every step of a commit has in common, as long as no two overlap: the other
\* sessions are idle, and a commit that is certain was so before.
LEMMA CommitAlone ==
  ASSUME StateInv, HistoryOK, Saving, Observe, ~overlapped', NEW s \in Sessions, Commit(s)
  PROVE  /\ \A t \in Sessions \ {s} :
              /\ pc[t] = "idle" /\ pc'[t] = "idle" /\ modified'[t] = modified[t]
              /\ FileByStep(t)' /\ ReadByStep(t)'
         /\ OneCommit' /\ FileCurrent /\ FileByStep(s) /\ ReadByStep(s)
         /\ pc[s] # "copy" /\ ~waived' => ~waived
         /\ pc[s] # "idle" /\ pc[s] # "copy" /\ Certain(s)' => Certain(s)
<1>1. /\ OneCommit /\ FileCurrent /\ OneCommit'
      /\ \A t \in Sessions : FileByStep(t) /\ ReadByStep(t)
  BY OneCommitPreserved
<1>2. /\ pc[s] # "idle" \/ pc'[s] # "idle"
      /\ \A t \in Sessions \ {s} : modified'[t] = modified[t]
  BY CommitMarks
<1>3. \A t \in Sessions \ {s} : pc'[t] = pc[t] /\ pend'[t] = pend[t]
  BY OthersFrame DEF StateInv
<1>4. \A t \in Sessions \ {s} : pc[t] = "idle" /\ pc'[t] = "idle"
  BY <1>1, <1>2, <1>3 DEF OneCommit
<1>5. \A t \in Sessions \ {s} : FileByStep(t)' /\ ReadByStep(t)'
  BY <1>4 DEF FileByStep, ReadByStep
<1>6. pc[s] # "copy" /\ ~waived' => ~waived
  BY <1>4, WaivedStays
<1>7. pc[s] # "idle" /\ quiet'[s] => quiet[s]
  BY DEF Observe
<1>8. pc[s] # "idle" /\ pc[s] # "copy" /\ Certain(s)' => Certain(s)
  BY <1>2, <1>6, <1>7 DEF Certain
<1> QED
  BY <1>1, <1>2, <1>4, <1>5, <1>6, <1>8

\* Steps that gather: VPP, the file and the marks are as they were.
GatheringStep(s) ==
  /\ UNCHANGED <<vpp, vppUp, file, modified>>
  /\ pc[s] \in {"idle", "list", "addrs", "bonds", "lcps"}
  /\ pc'[s] \in {"list", "addrs", "bonds", "lcps", "open"}
  /\ pc[s] # "idle" /\ (\A f \in Worth(vpp) : Gathered(pc[s], pend[s], f))
       => \A f \in Worth(vpp) : Gathered(pc'[s], pend'[s], f)
  /\ pc[s] = "idle" => pc'[s] = "list"

\* The first steps of a commit are such steps.
LEMMA CommitGathers ==
  ASSUME StateInv, Grounded, NEW s \in Sessions,
         CliVppCommit(s) \/ SyncList(s) \/ SyncAddrs(s) \/ SyncBonds(s) \/ SyncLcps(s)
  PROVE  GatheringStep(s)
<1> USE ListNames
<1>1. vpp \in SUBSET Fact /\ Closed(vpp)
  BY DEF Grounded, StateInv, StateOK
<1>2. \A f \in Worth(vpp) : f \in vpp
  BY DEF Worth, Imposed
<1>3. ~vppUp => Worth(vpp) = {}
  BY DEF Grounded, Worth, Imposed
<1>4. CASE CliVppCommit(s)
  BY <1>4 DEF CliVppCommit, Goto, GatheringStep, StateInv, StateOK, storeVars
<1>5. CASE SyncList(s)
  <2>1. /\ pc[s] = "list" /\ pc'[s] = "addrs" /\ UNCHANGED <<vpp, vppUp, file, modified>>
        /\ vppUp => pend'[s]["ifs"] = ReadList(vpp)
    BY <1>5 DEF SyncList, At, Goto, Fill, StateInv, StateOK, storeVars
  <2>2. \A f \in Worth(vpp) : Gathered("addrs", pend'[s], f)
    BY <1>1, <1>2, <1>3, <2>1, ListGathers
  <2> QED
    BY <2>1, <2>2 DEF GatheringStep
<1>6. CASE SyncAddrs(s)
  <2>1. /\ pc[s] = "addrs" /\ pc'[s] = "bonds" /\ UNCHANGED <<vpp, vppUp, file, modified>>
    BY <1>6 DEF SyncAddrs, At, Goto, StateInv, StateOK, storeVars
  <2>2. PICK r : /\ IsAddrRead(r, IF vppUp THEN vpp ELSE {}, pend[s]["ifs"])
                 /\ Fill(s, "ifs", pend[s]["ifs"] \cup r)
    BY <1>6 DEF SyncAddrs
  <2>3. pend'[s]["ifs"] = pend[s]["ifs"] \cup r
    BY <2>2 DEF Fill, StateInv, StateOK
  <2>4. ASSUME NEW f \in Worth(vpp), Gathered("addrs", pend[s], f)
        PROVE  Gathered("bonds", pend'[s], f)
    <3>1. IsAddrRead(r, vpp, pend[s]["ifs"])
      BY <1>3, <2>2, <2>4
    <3> QED
      BY <1>1, <1>2, <2>3, <2>4, <3>1, AddrsGather
  <2> QED
    BY <2>1, <2>4 DEF GatheringStep
<1>7. CASE SyncBonds(s)
  <2>1. /\ pc[s] = "bonds" /\ pc'[s] = "lcps" /\ UNCHANGED <<vpp, vppUp, file, modified>>
        /\ pend'[s]["ifs"] = pend[s]["ifs"]
        /\ vppUp => pend'[s]["bonds"] = ReadBonds(vpp)
    BY <1>7 DEF SyncBonds, At, Goto, Fill, StateInv, StateOK, storeVars
  <2>2. ASSUME NEW f \in Worth(vpp), Gathered("bonds", pend[s], f)
        PROVE  Gathered("lcps", pend'[s], f)
    BY <1>1, <1>2, <1>3, <2>1, <2>2, BondsGather
  <2> QED
    BY <2>1, <2>2 DEF GatheringStep
<1>8. CASE SyncLcps(s)
  <2>1. /\ pc[s] = "lcps" /\ pc'[s] = "open" /\ UNCHANGED <<vpp, vppUp, file, modified>>
        /\ pend'[s]["ifs"] = pend[s]["ifs"] /\ pend'[s]["bonds"] = pend[s]["bonds"]
        /\ vppUp => \E ns : pend'[s]["lcps"] = PairRead(vpp, ns)
    BY <1>8 DEF SyncLcps, At, Goto, Fill, StateInv, StateOK, storeVars
  <2>2. ASSUME NEW f \in Worth(vpp), Gathered("lcps", pend[s], f)
        PROVE  Gathered("open", pend'[s], f)
    BY <1>1, <1>2, <1>3, <2>1, <2>2, LcpsGather
  <2> QED
    BY <2>1, <2>2 DEF GatheringStep
<1> QED
  BY <1>4, <1>5, <1>6, <1>7, <1>8

\* They keep the invariant.
LEMMA GatheringSaves ==
  ASSUME StateInv, HistoryOK, Saving, Observe, NEW s \in Sessions, Commit(s), GatheringStep(s)
  PROVE  Saving'
<1> SUFFICES ASSUME ~overlapped' PROVE Saving'
  BY DEF Saving
<1>1. /\ \A t \in Sessions \ {s} :
           /\ pc[t] = "idle" /\ pc'[t] = "idle" /\ modified'[t] = modified[t]
           /\ FileByStep(t)' /\ ReadByStep(t)'
      /\ OneCommit' /\ FileCurrent /\ ReadByStep(s)
      /\ pc[s] # "copy" /\ ~waived' => ~waived
      /\ pc[s] # "idle" /\ pc[s] # "copy" /\ Certain(s)' => Certain(s)
  BY CommitAlone
<1>2. /\ UNCHANGED <<vpp, file, modified>>
      /\ pc[s] \in {"idle", "list", "addrs", "bonds", "lcps"}
      /\ pc'[s] \in {"list", "addrs", "bonds", "lcps", "open"}
  BY DEF GatheringStep
<1>3. ~spoilt' => ~spoilt
  BY <1>1, <1>2 DEF Observe, HistoryOK
<1>4. FileCurrent'
  <2>1. (\A f \in Worth(vpp) : Kept(f, file))' <=> \A f \in Worth(vpp) : Kept(f, file)
    BY <1>2
  <2>2. \A t \in Sessions : pc[t] \notin Writing
    BY <1>1, <1>2 DEF Writing
  <2> QED
    BY <1>1, <1>2, <1>3, <2>1, <2>2 DEF FileCurrent
<1>5. FileByStep(s)'
  BY <1>2 DEF FileByStep
<1>6. ReadByStep(s)'
  <2>1. (\A f \in Worth(vpp) : Gathered(pc[s], pend[s], f))'
           <=> \A f \in Worth(vpp) : Gathered(pc'[s], pend'[s], f)
    BY <1>2
  <2>2. CASE pc[s] = "idle"
    <3>1. pc'[s] = "list"
      BY <2>2 DEF GatheringStep
    <3>2. \A f : Gathered("list", pend'[s], f)
      BY DEF Gathered, AfterList, AfterAddrs, AfterBonds, AfterLcps
    <3> QED
      BY <2>1, <3>1, <3>2 DEF ReadByStep
  <2>3. CASE pc[s] # "idle"
    BY <1>1, <1>2, <2>1, <2>3 DEF ReadByStep, GatheringStep
  <2> QED
    BY <2>2, <2>3
<1> QED
  BY <1>1, <1>4, <1>5, <1>6 DEF Saving

\* After the last read the lists stay as they are.
LEMMA NothingMoreToGather ==
  ASSUME StateInv, NEW s \in Sessions, pc[s] \in AfterLcps, pc'[s] \in AfterLcps,
         UNCHANGED <<vpp, pend>>, ReadByStep(s), Certain(s)' => Certain(s)
  PROVE  ReadByStep(s)'
<1>1. pc[s] # "idle"
  BY DEF AfterLcps, AfterBonds, AfterAddrs, AfterList
<1>2. ASSUME NEW f \in Worth(vpp), Gathered(pc[s], pend[s], f)
      PROVE  Gathered(pc'[s], pend[s], f)
  <2>1. f \in Fact
    BY DEF Worth, Imposed, StateInv, StateOK
  <2> QED
    BY <1>2, <2>1, AllGathered
<1>3. (\A f \in Worth(vpp) : Gathered(pc[s], pend[s], f))'
        <=> \A f \in Worth(vpp) : Gathered(pc'[s], pend[s], f)
  OBVIOUS
<1> QED
  BY <1>1, <1>2, <1>3 DEF ReadByStep

\* A refused request leaves a written file.
LEMMA RefusalSaves ==
  ASSUME StateInv, HistoryOK, Saving, Observe, NEW s \in Sessions, Commit(s),
         pc[s] \in {"edit", "commit", "copy"}, pc'[s] = "idle",
         UNCHANGED <<vpp, file>>
  PROVE  Saving'
<1> SUFFICES ASSUME ~overlapped' PROVE Saving'
  BY DEF Saving
<1>1. /\ \A t \in Sessions \ {s} :
           /\ pc[t] = "idle" /\ pc'[t] = "idle" /\ modified'[t] = modified[t]
           /\ FileByStep(t)' /\ ReadByStep(t)'
      /\ OneCommit' /\ FileByStep(s) /\ ReadByStep(s)
  BY CommitAlone
<1>2. ~spoilt' => ~spoilt
  BY <1>1 DEF Observe, HistoryOK
<1>3. ~waived' => quiet[s] \/ ~waived
  BY <1>1 DEF Observe, HistoryOK
<1>4. FileCurrent'
  <2>1. (\A f \in Worth(vpp) : Kept(f, file))' <=> \A f \in Worth(vpp) : Kept(f, file)
    OBVIOUS
  <2>2. ASSUME ~spoilt', ~waived', \A t \in Sessions : ~modified'[t]
        PROVE  \A f \in Worth(vpp) : Kept(f, file)
    <3>1. Certain(s)
      BY <1>1, <1>3, <2>2 DEF Certain
    <3> QED
      BY <1>1, <1>2, <2>2, <3>1, WrittenIsCurrent
  <2> QED
    BY <2>1, <2>2 DEF FileCurrent
<1>5. FileByStep(s)' /\ ReadByStep(s)'
  BY DEF FileByStep, ReadByStep
<1> QED
  BY <1>1, <1>4, <1>5 DEF Saving

\* Opening the file, writing it and handing the lists to Clixon.
LEMMA StoringSaves ==
  ASSUME StateInv, StateInv', HistoryOK, Saving, Observe, NEW s \in Sessions,
         OpenFile(s) \/ FlushBlock(s) \/ WriteFile(s) \/ EditCandidate(s)
  PROVE  Saving'
<1> SUFFICES ASSUME ~overlapped' PROVE Saving'
  BY DEF Saving
<1> USE ListNames
<1>1. Commit(s)
  BY DEF Commit
<1>2. /\ \A t \in Sessions \ {s} :
           /\ pc[t] = "idle" /\ pc'[t] = "idle" /\ modified'[t] = modified[t]
           /\ FileByStep(t)' /\ ReadByStep(t)'
      /\ OneCommit' /\ FileCurrent /\ FileByStep(s) /\ ReadByStep(s)
      /\ pc[s] # "idle" /\ pc[s] # "copy" /\ Certain(s)' => Certain(s)
  BY <1>1, CommitAlone
<1>3. CASE OpenFile(s) /\ pc'[s] = "write"
  <2>1. /\ pc[s] = "open" /\ UNCHANGED <<vpp, pend>>
    BY <1>3 DEF OpenFile, At, Goto, StateInv, StateOK
  <2>2. FileCurrent'
    BY <1>3 DEF FileCurrent, Writing
  <2>3. FileByStep(s)'
    BY <1>3, <2>1 DEF FileByStep
  <2>4. ReadByStep(s)'
    BY <1>2, <1>3, <2>1, NothingMoreToGather DEF AfterLcps, AfterBonds, AfterAddrs, AfterList
  <2> QED
    BY <1>2, <2>2, <2>3, <2>4 DEF Saving
<1>4. CASE OpenFile(s) /\ pc'[s] # "write"
  <2>1. /\ pc[s] = "open" /\ pc'[s] = "edit" /\ UNCHANGED <<vpp, pend>>
    BY <1>4 DEF OpenFile, At, Goto, StateInv, StateOK
  <2>2. spoilt'
    BY <1>2, <2>1 DEF Observe, Writing
  <2>3. FileCurrent' /\ FileByStep(s)'
    BY <2>1, <2>2 DEF FileCurrent, FileByStep
  <2>4. ReadByStep(s)'
    BY <1>2, <2>1, NothingMoreToGather DEF AfterLcps, AfterBonds, AfterAddrs, AfterList
  <2> QED
    BY <1>2, <2>3, <2>4 DEF Saving
<1>5. CASE WriteFile(s)
  <2>1. /\ pc[s] \in {"write", "rest"} /\ pc'[s] = "edit" /\ UNCHANGED <<vpp, pend>>
    BY <1>5 DEF WriteFile, Writing, Goto, StateInv, StateOK
  <2>2. file' = pend[s]
    <3>1. ~torn[s]
      BY OneCommitPreserved DEF OneCommit
    <3> QED
      BY <1>5, <3>1 DEF WriteFile
  <2>3. FileByStep(s)'
    BY <2>1, <2>2 DEF FileByStep
  <2>4. ReadByStep(s)'
    BY <1>2, <2>1, NothingMoreToGather DEF AfterLcps, AfterBonds, AfterAddrs, AfterList
  <2>5. FileCurrent'
    BY <2>1, <2>3, <2>4, WrittenIsCurrentNext
  <2> QED
    BY <1>2, <2>3, <2>4, <2>5 DEF Saving
<1>8. CASE FlushBlock(s)
  <2>1. /\ pc[s] \in {"write", "rest"} /\ pc'[s] = "rest" /\ UNCHANGED <<vpp, pend>>
    BY <1>8 DEF FlushBlock, Writing, Goto, StateInv, StateOK
  <2>2. FileCurrent'
    BY <2>1 DEF FileCurrent, Writing
  <2>3. FileByStep(s)'
    BY <2>1 DEF FileByStep
  <2>4. ReadByStep(s)'
    BY <1>2, <2>1, NothingMoreToGather DEF AfterLcps, AfterBonds, AfterAddrs, AfterList
  <2> QED
    BY <1>2, <2>2, <2>3, <2>4 DEF Saving
<1>6. CASE EditCandidate(s) /\ pc'[s] = "commit"
  <2>1. /\ pc[s] = "edit" /\ candidate' = pend[s]["ifs"] /\ UNCHANGED <<vpp, pend, file>>
    BY <1>6 DEF EditCandidate, RequestFails, At, Goto, StateInv, StateOK
  <2>2. ~spoilt' => ~spoilt
    BY <1>2, <2>1 DEF Observe, Writing, HistoryOK
  <2>3. FileByStep(s)'
    BY <1>2, <1>6, <2>1, <2>2 DEF FileByStep
  <2>4. ReadByStep(s)'
    BY <1>2, <1>6, <2>1, NothingMoreToGather DEF AfterLcps, AfterBonds, AfterAddrs, AfterList
  <2>5. FileCurrent'
    BY <1>6, <2>3, <2>4, WrittenIsCurrentNext
  <2> QED
    BY <1>2, <2>3, <2>4, <2>5 DEF Saving
<1>7. CASE EditCandidate(s) /\ pc'[s] # "commit"
  <2>1. pc[s] = "edit" /\ pc'[s] = "idle" /\ UNCHANGED <<vpp, file>>
    BY <1>7 DEF EditCandidate, RequestFails, At, Goto, StateInv, StateOK
  <2> QED
    BY <1>1, <2>1, RefusalSaves
<1> QED
  BY <1>3, <1>4, <1>5, <1>6, <1>7, <1>8

\* The transaction: what it adds to VPP is in the file already.
LEMMA CommitRunningSaves ==
  ASSUME StateInv, StateInv', HistoryOK, Saving, Observe, NEW s \in Sessions, CommitRunning(s)
  PROVE  Saving'
<1> SUFFICES ASSUME ~overlapped' PROVE Saving'
  BY DEF Saving
<1> USE ListNames
<1>1. Commit(s)
  BY DEF Commit
<1>2. /\ \A t \in Sessions \ {s} :
           /\ pc[t] = "idle" /\ pc'[t] = "idle" /\ modified'[t] = modified[t]
           /\ FileByStep(t)' /\ ReadByStep(t)'
      /\ OneCommit' /\ FileCurrent /\ FileByStep(s) /\ ReadByStep(s)
      /\ pc[s] # "idle" /\ pc[s] # "copy" /\ Certain(s)' => Certain(s)
  BY <1>1, CommitAlone
<1>3. CASE pc'[s] = "copy"
  <2>1. /\ pc[s] = "commit" /\ UNCHANGED <<pend, file>>
        /\ vpp' = vpp \/ vpp' = Transact(vpp, running, candidate)
    BY <1>3 DEF CommitRunning, RequestFails, At, Goto, StateInv, StateOK
  <2>2. candidate = pend[s]["ifs"] /\ pend[s]["ifs"] \in SUBSET Fact
    BY <1>2, <2>1 DEF FileByStep, StateInv, StateOK
  <2>3. ~spoilt' => ~spoilt
    BY <1>2, <1>3, <2>1 DEF Observe, HistoryOK
  <2>4. FileByStep(s)'
    BY <1>2, <1>3, <2>1, <2>3 DEF FileByStep
  <2>5. ASSUME Certain(s), NEW f \in Worth(vpp') PROVE Gathered("copy", pend[s], f)
    <3>1. f \in Fact /\ f \in vpp' /\ ~Imposed(f)
      BY DEF Worth, Imposed, StateInv, StateOK
    <3>2. CASE f \in vpp
      <4>1. f \in Worth(vpp)
        BY <2>5, <3>2 DEF Worth, Imposed
      <4>2. Gathered("commit", pend[s], f)
        BY <1>2, <2>1, <2>5, <4>1 DEF ReadByStep
      <4> QED
        BY <3>1, <4>2, AllGathered DEF AfterLcps, AfterBonds, AfterAddrs, AfterList
    <3>3. CASE f \notin vpp
      BY <2>1, <2>2, <3>1, <3>3, TransactGathered
    <3> QED
      BY <3>2, <3>3
  <2>6. ReadByStep(s)'
    <3>1. (\A f \in Worth(vpp) : Gathered(pc[s], pend[s], f))'
            <=> \A f \in Worth(vpp') : Gathered("copy", pend[s], f)
      BY <1>3, <2>1
    <3> QED
      BY <1>2, <2>1, <2>5, <3>1 DEF ReadByStep
  <2>7. FileCurrent'
    BY <1>3, <2>4, <2>6, WrittenIsCurrentNext
  <2> QED
    BY <1>2, <2>4, <2>6, <2>7 DEF Saving
<1>4. CASE pc'[s] # "copy"
  <2>1. pc[s] = "commit" /\ pc'[s] = "idle" /\ UNCHANGED <<vpp, file>>
    BY <1>4 DEF CommitRunning, RequestFails, At, Goto, StateInv, StateOK
  <2> QED
    BY <1>1, <2>1, RefusalSaves
<1> QED
  BY <1>3, <1>4

\* The last step: the marks go, and what they stood for is in the file.
LEMMA CopyStartupSaves ==
  ASSUME StateInv, HistoryOK, Saving, Observe, NEW s \in Sessions, CopyStartup(s)
  PROVE  Saving'
<1>1. pc[s] = "copy" /\ pc'[s] = "idle" /\ UNCHANGED <<vpp, file>>
  BY DEF CopyStartup, At, Goto, StateInv, StateOK
<1> QED
  BY <1>1, RefusalSaves DEF Commit

\* Every step keeps the invariant.
LEMMA SavingPreserved ==
  ASSUME StateInv, StateInv', HistoryOK, Grounded, Saving, [Next]_vars
  PROVE  Saving'
<1>1. ASSUME NEW s \in Sessions, Enter(s) \/ Edit(s), Observe PROVE Saving'
  <2>1. Commanded(s)
    BY <1>1, EnterCommanded, EditCommanded DEF Grounded
  <2>2. \A t \in Sessions \ {s} : pend'[t] = pend[t]
    BY <1>1, OthersFrame DEF StateInv
  <2> QED
    BY <1>1, <2>1, <2>2, CommandSaves
<1>2. ASSUME NEW s \in Sessions, Commit(s), Observe PROVE Saving'
  <2>1. CASE CliVppCommit(s) \/ SyncList(s) \/ SyncAddrs(s) \/ SyncBonds(s) \/ SyncLcps(s)
    BY <1>2, <2>1, CommitGathers, GatheringSaves
  <2>2. CASE OpenFile(s) \/ FlushBlock(s) \/ WriteFile(s) \/ EditCandidate(s)
    BY <1>2, <2>2, StoringSaves
  <2>3. CASE CommitRunning(s)
    BY <1>2, <2>3, CommitRunningSaves
  <2>4. CASE CopyStartup(s)
    BY <1>2, <2>4, CopyStartupSaves
  <2> QED
    BY <1>2, <2>1, <2>2, <2>3, <2>4 DEF Commit
<1>3. ASSUME NEW s \in Sessions, Leave(s), Observe PROVE Saving'
  BY <1>3, LeaveSaves
<1>4. CASE (VppCrash \/ VppStart) /\ Observe
  BY <1>4, VppSaves
<1>5. CASE UNCHANGED vars
  BY <1>5 DEF vars, storeVars, sessionVars, historyVars, Saving, OneCommit, FileCurrent,
     FileByStep, ReadByStep, Certain
<1> QED
  BY <1>1, <1>2, <1>3, <1>4, <1>5 DEF Next

-----------------------------------------------------------------------------
(* Theorems.                                                                   *)

\* The invariant the theorems below are read off.
THEOREM SavingInvariant == Spec => [](StateInv /\ HistoryOK /\ Grounded /\ Saving)
<1>1. Init => Grounded
  BY BootClosed DEF Init, Grounded
<1>2. Init => Saving
  <2>1. Boot \ Boot = {}
    OBVIOUS
  <2> QED
    BY <2>1 DEF Init, Saving, OneCommit, FileCurrent, FileByStep, ReadByStep, Worth, Imposed,
       Writing
<1>3. StateInv /\ StateInv' /\ HistoryOK /\ Grounded /\ Saving /\ [Next]_vars
        => Grounded' /\ Saving'
  BY GroundedPreserved, SavingPreserved
<1> QED
  BY <1>1, <1>2, <1>3, StateInvariant, PTL DEF Spec

\* THEOREM.  While commits do not overlap: with no commit under way, no session
\* marked modified, nothing abandoned and the last write done, everything worth
\* keeping in VPP is in vpp_config.xml: the flag `end' trusts stands for whatever the
\* file lacks.
THEOREM NothingEverLostSilently == Spec => []NothingLostSilently
<1>1. Saving => NothingLostSilently
  BY DEF Saving, FileCurrent, NothingLostSilently, AllIdle, Writing
<1> QED
  BY <1>1, SavingInvariant, PTL

\* THEOREM.  A commit that nothing disturbed, and that could write the file, ends
\* with all that is owed in it: also what other sessions changed and abandoned, or
\* still have marked, from before it began.
THEOREM QuietCommitEverSaves == Spec => []QuietCommitSaves
<1>1. StateInv /\ Saving => QuietCommitSaves
  <2> SUFFICES ASSUME StateInv, Saving, ~overlapped, ~spoilt,
                      NEW s \in Sessions, pc[s] = "copy", quiet[s]
               PROVE  \A f \in Worth(vpp) : Kept(f, file)
    BY DEF QuietCommitSaves
  <2> QED
    BY WrittenIsCurrent DEF Saving, Certain
<1> QED
  BY <1>1, SavingInvariant, PTL

-----------------------------------------------------------------------------
(* The transaction of an undisturbed commit.                                   *)

\* Handing VPP what was just read of it changes nothing, but for an address that
\* gave way to another one of its family and for YANG's default MTU, whatever the
\* old configuration.
LEMMA TransactHarmless ==
  ASSUME NEW v \in SUBSET Fact, Closed(v), NEW old, NEW new \in SUBSET Fact,
         NEW r, IsAddrRead(r, v, ReadList(v)), new = ReadList(v) \cup r
  PROVE  LET w == Transact(v, old, new) IN
         /\ \A f \in v \ w :
              \/ f.kind = "addr" /\ \E g \in w : SameSlot(f, g)
              \/ DefaultsFilled /\ f.kind = "mtu" /\ f.of \in Subs
         /\ \A f \in w \ v : DefaultsFilled /\ f.kind = "mtu" /\ f.val = YangMtu
<1> DEFINE w == Transact(v, old, new)
<1>1. r \subseteq v /\ new \subseteq v
  BY DEF IsAddrRead, Of, ReadList
<1>2. \A f \in v : f.of \in Known(v, new)
  <2> SUFFICES ASSUME NEW f \in v PROVE f.of \in Known(v, new)
    OBVIOUS
  <2>1. Exists(f.of) \in v /\ Exists(f.of) \in new
    BY DEF Closed, ReadList, Of, Exists
  <2> QED
    BY <2>1 DEF Known, Exists
<1>3. \A f \in v : f.kind \in {"exists", "up"} => f \in new
  BY DEF ReadList, Of
<1>4. \A f \in v : f.kind = "mtu" /\ f.of \notin Subs => f \in new
  <2> SUFFICES ASSUME NEW f \in v, f.kind = "mtu", f.of \notin Subs PROVE f \in new
    OBVIOUS
  <2>1. Exists(f.of) \in ReadList(v)
    BY DEF Closed, ReadList, Of, Exists
  <2>2. f \in Of(r, {"mtu"})
    BY <2>1 DEF IsAddrRead, Of
  <2> QED
    BY <2>2 DEF Of
<1>5. \A g \in new : g.kind = "mtu" => g.of \notin Subs
  <2> SUFFICES ASSUME NEW g \in new, g.kind = "mtu" PROVE g.of \notin Subs
    OBVIOUS
  <2>1. g \in Of(r, {"mtu"})
    BY DEF ReadList, Of
  <2> QED
    BY <2>1 DEF IsAddrRead, Of
<1>6. \A f \in w \ v : DefaultsFilled /\ f.kind = "mtu" /\ f.val = YangMtu
  BY <1>1, TransactAdds DEF Imposed
<1>7. ASSUME NEW f \in v, f \notin w
      PROVE  \/ f.kind = "addr" /\ \E g \in w : SameSlot(f, g)
             \/ DefaultsFilled /\ f.kind = "mtu" /\ f.of \in Subs
  <2>1. \/ f \in DeletedAddresses(old, new) \/ f \in ShutDown(v, new)
        \/ \E g \in TargetMtus(v, new) : f.kind = "mtu" /\ f.of = g.of
    BY <1>7 DEF Transact
  <2>2. CASE f \in DeletedAddresses(old, new)
    <3>1. PICK g \in new : SameSlot(f, g)
      BY <2>2 DEF DeletedAddresses
    <3>2. g \in w
      BY <1>1, <1>2, <3>1 DEF Transact, Of, SameSlot
    <3> QED
      BY <3>1, <3>2 DEF SameSlot
  <2>3. CASE f \in ShutDown(v, new)
    <3>1. PICK i : f = Up(i) /\ Up(i) \notin new
      BY <2>3 DEF ShutDown
    <3> QED
      BY <1>3, <1>7, <3>1 DEF Up
  <2>4. ASSUME NEW g \in TargetMtus(v, new), f.kind = "mtu", f.of = g.of
        PROVE  DefaultsFilled /\ f.of \in Subs
    <3>1. f \notin TargetMtus(v, new)
      BY <1>7 DEF Transact
    <3>2. f \notin new
      BY <1>2, <1>7, <2>4, <3>1 DEF TargetMtus, Of
    <3>3. f.of \in Subs
      BY <1>4, <1>7, <2>4, <3>2
    <3>4. g \notin new
      <4>1. g \in new => g.kind # "mtu"
        BY <1>5, <2>4, <3>3
      <4>2. g.kind = "mtu"
        <5>1. g \in Of(new, {"mtu"}) \/ \E i : g = Mtu(i, YangMtu)
          BY DEF TargetMtus
        <5> QED
          BY <5>1 DEF Of, Mtu
      <4> QED
        BY <4>1, <4>2
    <3>5. DefaultsFilled
      BY <3>4 DEF TargetMtus, Of
    <3> QED
      BY <3>3, <3>5
  <2> QED
    BY <2>1, <2>2, <2>3, <2>4
<1> QED
  BY <1>6, <1>7

\* THEOREM.  The transaction of an undisturbed commit leaves VPP as it was, but for
\* the one address per family it could read and for YANG's default MTU, whatever
\* the running datastore held before.
THEOREM QuietCommitEverHarmless == Spec => QuietCommitHarmless
<1> DEFINE Harmless ==
      \A s \in Sessions :
        /\ ~overlapped /\ quiet[s] /\ pc[s] = "commit" /\ pc'[s] = "copy"
        => /\ \A f \in vpp \ vpp' :
                \/ f.kind = "addr" /\ \E g \in vpp' : SameSlot(f, g)
                \/ DefaultsFilled /\ f.kind = "mtu" /\ f.of \in Subs
           /\ \A f \in vpp' \ vpp :
                DefaultsFilled /\ f.kind = "mtu" /\ f.val = YangMtu
<1>1. ASSUME StateInv, Grounded, Saving, ReadSoFarAll, [Next]_vars PROVE [Harmless]_vars
  <2> SUFFICES ASSUME Next, NEW s \in Sessions,
                      ~overlapped, quiet[s], pc[s] = "commit", pc'[s] = "copy"
               PROVE  /\ \A f \in vpp \ vpp' :
                           \/ f.kind = "addr" /\ \E g \in vpp' : SameSlot(f, g)
                           \/ DefaultsFilled /\ f.kind = "mtu" /\ f.of \in Subs
                      /\ \A f \in vpp' \ vpp :
                           DefaultsFilled /\ f.kind = "mtu" /\ f.val = YangMtu
    BY <1>1
  <2>1. CommitRunning(s)
    <3>1. ASSUME NEW t \in Sessions, Enter(t) \/ Edit(t) \/ Leave(t) PROVE FALSE
      BY <3>1, CommandsFrame, LeaveFrame, <1>1
    <3>2. ASSUME NEW t \in Sessions, Commit(t), t # s PROVE FALSE
      BY <1>1, <3>2, OthersFrame DEF StateInv
    <3>3. ASSUME VppCrash \/ VppStart PROVE FALSE
      BY <3>3 DEF VppCrash, VppStart, sessionVars
    <3>4. Commit(s)
      BY <3>1, <3>2, <3>3 DEF Next
    <3> QED
      BY <3>4, <1>1 DEF Commit, CliVppCommit, SyncList, SyncAddrs, SyncBonds, SyncLcps,
         OpenFile, FlushBlock, WriteFile, Writing, EditCandidate, CopyStartup, At
  <2>2. vpp' = IF vppUp THEN Transact(vpp, running, candidate) ELSE vpp
    BY <1>1, <2>1 DEF CommitRunning, RequestFails, Goto, StateInv, StateOK
  <2>3. CASE ~vppUp
    BY <2>2, <2>3
  <2>4. CASE vppUp
    <3>1. candidate = pend[s]["ifs"]
      BY <1>1 DEF Saving, FileByStep
    <3>2. PICK r : IsAddrRead(r, vpp, ReadList(vpp)) /\ candidate = ReadList(vpp) \cup r
      BY <1>1, <2>4, <3>1 DEF ReadSoFarAll, ReadSoFar, IfsRead
    <3>3. vpp \in SUBSET Fact /\ candidate \in SUBSET Fact /\ Closed(vpp)
      BY <1>1 DEF StateInv, StateOK, Grounded
    <3> QED
      BY <2>2, <2>4, <3>2, <3>3, TransactHarmless
  <2> QED
    BY <2>3, <2>4
<1>2. [](StateInv /\ HistoryOK /\ Grounded /\ Saving) /\ []ReadSoFarAll /\ [][Next]_vars
        => [][Harmless]_vars
  <2> HIDE DEF Harmless
  <2> QED
    BY <1>1, PTL
<1>3. [][Harmless]_vars => QuietCommitHarmless
  BY DEF QuietCommitHarmless
<1> HIDE DEF Harmless
<1>4. Spec => [](StateOK /\ SubifsEmpty /\ ReadSoFarAll)
  BY ReadInvariant
<1> QED
  BY <1>2, <1>3, <1>4, SavingInvariant, PTL DEF Spec

=============================================================================
