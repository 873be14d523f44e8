-------------------------- MODULE CliSession_proofs --------------------------
(***************************************************************************)
(* Theorems about CliSession for every value of its constants: any         *)
(* hardware, any number of sessions, any faults.                           *)
(***************************************************************************)
EXTENDS CliSession, VppFacts_proofs

-----------------------------------------------------------------------------
(* Pending lists.                                                          *)

PendType == [Lists -> SUBSET Fact]

\* No pending entries, and an empty file, are pending lists of the right type.
LEMMA EmptyType == Empty \in PendType
BY DEF Empty, PendType

\* Noting a fact leaves lists of facts.
LEMMA SaveType ==
  ASSUME NEW p \in PendType, NEW l \in Lists, NEW f \in Fact
  PROVE  Save(p, l, f) \in PendType
BY DEF Save, PendType

\* So does noting a member of a bond.
LEMMA SaveMemberType ==
  ASSUME NEW p \in PendType, NEW f \in Fact
  PROVE  SaveMember(p, f) \in PendType
BY SaveType DEF SaveMember, Lists

\* So does reading the file before the first change.
LEMMA LoadedType ==
  ASSUME file \in PendType, pend \in [Sessions -> PendType], NEW s \in Sessions
  PROVE  Loaded(s) \in PendType
<1>1. \A l \in Lists : FromFile(l) \in SUBSET Fact
  BY DEF FromFile, PendType, Lists
<1> QED
  BY <1>1 DEF Loaded, Overlay, PendType

\* What is below p holds nothing but what p holds.
LEMMA BelowIs ==
  ASSUME NEW p \in PendType, NEW q \in Below(p)
  PROVE  q \in PendType /\ \A l \in Lists : q[l] \subseteq p[l]
<1>1. /\ DOMAIN q = {"ifs", "bonds", "lcps", "subifs"}
      /\ q = [l \in {"ifs", "bonds", "lcps", "subifs"} |-> q[l]]
      /\ q["ifs"] \subseteq p["ifs"] /\ q["bonds"] \subseteq p["bonds"]
      /\ q["lcps"] \subseteq p["lcps"] /\ q["subifs"] \subseteq p["subifs"]
  BY DEF Below
<1>2. \A l \in Lists : q[l] \subseteq p[l]
  BY <1>1 DEF Lists
<1> QED
  BY <1>1, <1>2 DEF PendType, Lists

\* Blocks of two texts make no section out of nothing, and nothing but facts.
LEMMA MixturesAre ==
  ASSUME NEW p \in PendType, NEW q \in PendType, NEW m \in Mixtures(p, q)
  PROVE  /\ m \in PendType
         /\ \A l \in Lists : p[l] = {} /\ q[l] = {} => m[l] = {}
<1> DEFINE both == [l \in Lists |-> Blend(p[l] \cup q[l])]
<1>1. both \in PendType
  BY DEF both, Blend, PendType
<1>2. m \in PendType /\ \A l \in Lists : m[l] \subseteq both[l]
  <2> HIDE DEF both
  <2>1. m \in Below(both)
    BY DEF Mixtures, both
  <2> QED
    BY <1>1, <2>1, BelowIs
<1>3. \A l \in Lists : p[l] = {} /\ q[l] = {} => both[l] = {}
  BY DEF both, Blend
<1> QED
  BY <1>2, <1>3

\* Writing the file leaves lists of facts in it, and empty a section that is empty
\* there and in the text that is written.
LEMMA WritingType ==
  ASSUME file \in PendType, pend \in [Sessions -> PendType], NEW s \in Sessions,
         FlushBlock(s) \/ WriteFile(s)
  PROVE  /\ file' \in PendType
         /\ \A l \in Lists : file[l] = {} /\ pend[s][l] = {} => file'[l] = {}
<1>1. pend[s] \in PendType
  OBVIOUS
<1>2. \/ file' \in Starts(pend[s]) \/ file' = pend[s] \/ file' \in Mixtures(file, pend[s])
  BY DEF FlushBlock, WriteFile
<1>3. CASE file' \in Starts(pend[s])
  <2>1. file' \in Below(pend[s])
    BY <1>3 DEF Starts
  <2> QED
    BY <1>1, <2>1, BelowIs
<1>4. CASE file' \in Mixtures(file, pend[s])
  BY <1>1, <1>4, MixturesAre
<1> QED
  BY <1>1, <1>2, <1>3, <1>4

-----------------------------------------------------------------------------
(* Type correctness.  TypeOK is not inductive: a command of interface mode     *)
(* makes facts about current_interface, so it must be known to name one there. *)

SelectedInIfMode == \A s \in Sessions : mode[s] = "configure-if" => cur[s] \in Ifs

StateInv == StateOK /\ SelectedInIfMode

\* The initial state is well typed.
LEMMA InitState == Init => StateInv /\ HistoryOK
<1>1. ASSUME Init PROVE StateOK
  BY <1>1, BootType, EmptyType DEF Init, StateOK, PendType
<1>2. ASSUME Init PROVE SelectedInIfMode
  BY <1>2 DEF Init, SelectedInIfMode
<1>3. ASSUME Init PROVE HistoryOK
  BY <1>3 DEF Init, HistoryOK
<1> QED
  BY <1>1, <1>2, <1>3 DEF StateInv

\* What a command leaves typed, the modes aside.
Notes ==
  /\ vpp' \in SUBSET Fact
  /\ pend' \in [Sessions -> PendType]
  /\ loaded' \in [Sessions -> BOOLEAN]
  /\ modified' \in [Sessions -> BOOLEAN]
  /\ UNCHANGED <<vppUp, storeVars, pc>>

\* A noted command leaves every variable but cur and mode well typed.
LEMMA NotedCommandType ==
  ASSUME StateOK, NEW s \in Sessions, NEW l \in Lists, NEW f, NotedCommand(s, l, f)
  PROVE  Notes
<1>1. f \in Fact
  BY SessionAssumption DEF NotedCommand
<1>2. Loaded(s) \in PendType
  BY LoadedType DEF StateOK, PendType
<1>3. Save(Loaded(s), l, f) \in PendType
  BY <1>1, <1>2, SaveType
<1>4. vpp' \in SUBSET Fact
  BY <1>1, EstablishType DEF NotedCommand, StateOK
<1>5. pend' \in [Sessions -> PendType]
  BY <1>3 DEF NotedCommand, Note, StateOK, PendType
<1> QED
  BY <1>4, <1>5 DEF NotedCommand, Note, Notes, StateOK

\* The same of an unnoted one.
LEMMA UnnotedCommandType ==
  ASSUME StateInv, NEW s, NEW gone, UnnotedCommand(s, gone)
  PROVE  StateInv'
BY DEF UnnotedCommand, StateInv, StateOK, SelectedInIfMode, storeVars, sessionVars

\* Commands that change neither VPP nor the session's notes.
LEMMA NothingDoneType ==
  ASSUME StateOK, NEW s, NothingDone(s)
  PROVE  Notes
BY DEF NothingDone, Notes, StateOK, PendType, storeVars

\* Moving to interface i keeps the invariant if what is noted is well typed.
LEMMA SelectType ==
  ASSUME StateInv, NEW s \in Sessions, NEW i \in Ifs, Select(s, i), Notes
  PROVE  StateInv'
BY DEF StateInv, StateOK, SelectedInIfMode, Select, Notes, PendType, storeVars

\* So does staying where one is.
LEMMA StayType ==
  ASSUME StateInv, Notes, UNCHANGED <<cur, mode>>
  PROVE  StateInv'
BY DEF StateInv, StateOK, SelectedInIfMode, Notes, PendType, storeVars

\* The four lists.
LEMMA ListNames == {"ifs", "bonds", "lcps", "subifs"} = Lists
BY DEF Lists

\* Commands of configure mode keep the types.
LEMMA EnterType ==
  ASSUME StateInv, NEW s \in Sessions, Enter(s)
  PROVE  StateInv'
<1>1. StateOK
  BY DEF StateInv
<1>2. CASE Configure(s) \/ ExitConfigure(s)
  BY <1>2, <1>1, NothingDoneType
     DEF Configure, ExitConfigure, Notes, StateInv, StateOK, SelectedInIfMode, PendType, storeVars
<1>3. ASSUME NEW i \in Ifs, CliInterfaceSelect(s, i) PROVE StateInv'
  BY <1>3, <1>1, NothingDoneType, SelectType DEF CliInterfaceSelect
<1>4. ASSUME NEW i \in Ifs,
             \/ vppUp /\ Select(s, i) /\ NothingDone(s)
             \/ NotedCommand(s, "subifs", Exists(i)) /\ Select(s, i)
             \/ cur' = [cur EXCEPT ![s] = i] /\ NothingDone(s) /\ UNCHANGED mode
      PROVE  StateInv'
  <2>1. CASE vppUp /\ Select(s, i) /\ NothingDone(s)
    BY <2>1, <1>1, NothingDoneType, SelectType
  <2>2. CASE NotedCommand(s, "subifs", Exists(i)) /\ Select(s, i)
    BY <2>2, <1>1, NotedCommandType, SelectType, ListNames
  <2>3. CASE cur' = [cur EXCEPT ![s] = i] /\ NothingDone(s) /\ UNCHANGED mode
    <3>1. Notes
      BY <2>3, <1>1, NothingDoneType
    <3> QED
      BY <2>3, <3>1 DEF Notes, StateInv, StateOK, SelectedInIfMode, PendType, storeVars
  <2> QED
    BY <1>4, <2>1, <2>2, <2>3
<1>5. ASSUME NEW i \in Ifs, CliInterfaceSelectSub(s, i) \/ CliCreateSubifSimple(s, i)
      PROVE  StateInv'
  BY <1>5, <1>4 DEF CliInterfaceSelectSub, CliCreateSubifSimple
<1>6. ASSUME NEW i \in Ifs, CliCreateBondNamed(s, i) PROVE StateInv'
  <2>1. Notes
    BY <1>6, <1>1, NothingDoneType, NotedCommandType, ListNames DEF CliCreateBondNamed
  <2> QED
    BY <2>1, <1>6, SelectType DEF CliCreateBondNamed
<1>7. ASSUME NEW i \in Ifs, CliCreateLoopbackInstance(s, i) PROVE StateInv'
  BY <1>7, <1>1, NotedCommandType, SelectType, ListNames DEF CliCreateLoopbackInstance
<1>8. ASSUME NEW i \in Ifs, CliCreateLoopback(s, i) PROVE StateInv'
  <2>1. Notes
    <3>1. CASE NotedCommand(s, "ifs", Exists(i))
      BY <3>1, <1>1, NotedCommandType, ListNames
    <3>2. CASE /\ Note(s, Save(Loaded(s), "ifs", Exists(i)))
               /\ UNCHANGED <<vpp, vppUp, storeVars, pc>>
      <4>1. Loaded(s) \in PendType
        BY <1>1, LoadedType DEF StateOK, PendType
      <4>2. Save(Loaded(s), "ifs", Exists(i)) \in PendType
        BY <4>1, SaveType, FactConstructors, ListNames
      <4> QED
        BY <4>2, <3>2, <1>1 DEF Note, Notes, StateOK, PendType
    <3> QED
      BY <1>8, <3>1, <3>2 DEF CliCreateLoopback
  <2> QED
    BY <2>1, <1>8, SelectType DEF CliCreateLoopback
<1>9. ASSUME NEW i \in Ifs, CliNoInterface(s, i) PROVE StateInv'
  BY <1>9, UnnotedCommandType DEF CliNoInterface
<1> QED
  BY <1>2, <1>3, <1>5, <1>6, <1>7, <1>8, <1>9 DEF Enter

\* The same for the commands of interface mode.
LEMMA EditType ==
  ASSUME StateInv, NEW s \in Sessions, Edit(s)
  PROVE  StateInv'
<1>1. StateOK
  BY DEF StateInv
<1>2. ASSUME NEW f, NotedCommand(s, "ifs", f) \/ NotedCommand(s, "lcps", f),
             UNCHANGED <<cur, mode>>
      PROVE  StateInv'
  BY <1>2, <1>1, NotedCommandType, StayType, ListNames
<1>3. ASSUME NEW m \in Mtus, CliIfMtu(s, m) PROVE StateInv'
  BY <1>2, <1>3 DEF CliIfMtu
<1>4. CASE CliIfMtuDefault(s)
  <2>1. Mtu(cur[s], None) \in Fact
    BY <1>4, FactConstructors DEF StateInv, SelectedInIfMode, CliIfMtuDefault, Idle
  <2>2. Save(Loaded(s), "ifs", Mtu(cur[s], None)) \in PendType
    BY <2>1, <1>1, LoadedType, SaveType, ListNames DEF StateOK, PendType
  <2>3. Notes
    BY <2>2, <1>1, <1>4 DEF CliIfMtuDefault, Note, Notes, StateOK, PendType
  <2> QED
    BY <2>3, <1>4, StayType DEF CliIfMtuDefault
<1>5. CASE CliIfNoShutdown(s)
  BY <1>2, <1>5 DEF CliIfNoShutdown
<1>6. ASSUME NEW a \in Addrs, CliIfIpAddress(s, a) \/ CliIfIpv6Address(s, a)
      PROVE  StateInv'
  BY <1>2, <1>6 DEF CliIfIpAddress, CliIfIpv6Address
<1>7. ASSUME NEW v \in SUBSET Fact, NEW p, NEW b, JoinBond(s, v, p, b) PROVE StateInv'
  <2>1. Member(p, b) \in Fact
    BY <1>7, SessionAssumption DEF JoinBond
  <2>2. SaveMember(Loaded(s), Member(p, b)) \in PendType
    BY <2>1, <1>1, LoadedType, SaveMemberType DEF StateOK, PendType
  <2>3. Establish(v, Member(p, b)) \in SUBSET Fact
    BY <2>1, EstablishType
  <2>4. Notes
    BY <2>2, <2>3, <1>1, <1>7 DEF JoinBond, Note, Notes, StateOK, PendType
  <2> QED
    BY <2>4, <1>7, StayType DEF JoinBond
<1>8. ASSUME NEW b \in Bonds, CliIfChannelGroup(s, b) PROVE StateInv'
  BY <1>7, <1>8, <1>1 DEF CliIfChannelGroup, StateOK
<1>9. ASSUME NEW p \in Phys, CliBondAddMember(s, p) PROVE StateInv'
  <2>1. Establish(vpp, Up(p)) \in SUBSET Fact
    BY <1>1, FactConstructors, EstablishType DEF StateOK, Ifs
  <2> QED
    BY <2>1, <1>7, <1>9 DEF CliBondAddMember
<1>10. ASSUME NEW i \in Subs, CliIfVlan(s, i) PROVE StateInv'
  <2>1. Notes
    BY <1>10, <1>1, NothingDoneType, NotedCommandType, ListNames DEF CliIfVlan
  <2> QED
    BY <2>1, <1>10, SelectType DEF CliIfVlan, Ifs
<1>11. ASSUME NEW l \in Links, CliIfLcp(s, l) PROVE StateInv'
  BY <1>2, <1>11 DEF CliIfLcp
<1>12. ASSUME NEW gone, UnnotedCommand(s, gone) PROVE StateInv'
  BY <1>12, UnnotedCommandType
<1>13. CASE CliIfExit(s)
  BY <1>13, <1>1, NothingDoneType
     DEF CliIfExit, Notes, StateInv, StateOK, SelectedInIfMode, PendType, storeVars
<1> QED
  BY <1>3, <1>4, <1>5, <1>6, <1>8, <1>9, <1>10, <1>11, <1>12, <1>13
     DEF Edit, CliIfShutdown, CliIfNoIpAddress, CliIfNoIpAddressAll,
         CliIfNoChannelGroup, CliIfNoLcp

-----------------------------------------------------------------------------
(* Commit steps, leaving and VPP's restart.                                *)

\* What an address read returns are facts.
LEMMA FillType ==
  ASSUME StateInv, NEW s \in Sessions, NEW l \in Lists, NEW facts \in SUBSET Fact,
         Fill(s, l, facts), NEW step \in CommitSteps, Goto(s, step), InCommit(s),
         UNCHANGED <<vpp, vppUp, storeVars, modified>>
  PROVE  StateInv'
BY DEF StateInv, StateOK, SelectedInIfMode, Fill, Goto, InCommit, storeVars

\* Steps of a commit keep the types.
LEMMA CommitType ==
  ASSUME StateInv, NEW s \in Sessions, Commit(s)
  PROVE  StateInv'
<1>1. StateOK
  BY DEF StateInv
<1>2. CASE CliVppCommit(s)
  BY <1>2, EmptyType DEF CliVppCommit, Goto, InCommit, CommitSteps, StateInv,
     StateOK, SelectedInIfMode, PendType, storeVars
<1>3. CASE SyncList(s)
  <2>1. ReadList(vpp) \in SUBSET Fact
    BY <1>1 DEF ReadList, Of, StateOK
  <2> QED
    BY <2>1, <1>3, FillType, ListNames DEF SyncList, CommitSteps
<1>4. CASE SyncAddrs(s)
  <2>1. PICK r \in SUBSET Of(vpp, {"addr", "mtu"}) : Fill(s, "ifs", pend[s]["ifs"] \cup r)
    BY <1>4 DEF SyncAddrs
  <2>2. pend[s]["ifs"] \cup r \in SUBSET Fact
    BY <1>1, ListNames DEF StateOK, Of
  <2> QED
    BY <2>1, <2>2, <1>4, FillType, ListNames DEF SyncAddrs, CommitSteps
<1>5. CASE SyncBonds(s)
  <2>1. ReadBonds(vpp) \in SUBSET Fact
    BY <1>1 DEF ReadBonds, StateOK
  <2> QED
    BY <2>1, <1>5, FillType, ListNames DEF SyncBonds, CommitSteps
<1>6. CASE SyncLcps(s)
  <2>1. PICK ns \in [Ifs -> Netns \cup {None}] :
          Fill(s, "lcps", IF vppUp THEN PairRead(vpp, ns) ELSE {})
    BY <1>6 DEF SyncLcps
  <2>2. PairRead(vpp, ns) \in SUBSET Fact
    BY <1>1, PairReadType DEF StateOK
  <2> QED
    BY <2>1, <2>2, <1>6, FillType, ListNames DEF SyncLcps, CommitSteps
<1>7. CASE OpenFile(s)
  BY <1>7, EmptyType DEF OpenFile, Goto, InCommit, CommitSteps, Writing, StateInv, StateOK,
     SelectedInIfMode, PendType
<1>8. CASE FlushBlock(s) \/ WriteFile(s)
  <2>1. file' \in [Lists -> SUBSET Fact]
    BY <1>1, <1>8, WritingType DEF StateOK, PendType
  <2>2. Goto(s, "rest") \/ Goto(s, "edit")
    BY <1>8 DEF FlushBlock, WriteFile
  <2>3. InCommit(s) /\ UNCHANGED <<vpp, vppUp, candidate, running, startup, pend, modified>>
    BY <1>8 DEF FlushBlock, WriteFile
  <2> QED
    BY <2>1, <2>2, <2>3 DEF Goto, InCommit, CommitSteps, Writing, StateInv, StateOK,
       SelectedInIfMode
<1>9. CASE EditCandidate(s)
  <2>1. candidate' \in SUBSET Fact
    BY <1>1, <1>9, ListNames DEF EditCandidate, RequestFails, StateOK
  <2> QED
    BY <2>1, <1>9 DEF EditCandidate, RequestFails, Goto, InCommit, CommitSteps,
       StateInv, StateOK, SelectedInIfMode
<1>10. CASE CommitRunning(s)
  <2>1. vpp' \in SUBSET Fact /\ running' \in SUBSET Fact
    BY <1>1, <1>10, TransactType DEF CommitRunning, RequestFails, StateOK
  <2> QED
    BY <2>1, <1>10 DEF CommitRunning, RequestFails, Goto, InCommit, CommitSteps,
       StateInv, StateOK, SelectedInIfMode
<1>11. CASE CopyStartup(s)
  BY <1>11 DEF CopyStartup, Goto, InCommit, CommitSteps, StateInv, StateOK,
     SelectedInIfMode
<1> QED
  BY <1>2, <1>3, <1>4, <1>5, <1>6, <1>7, <1>8, <1>9, <1>10, <1>11 DEF Commit

\* Leaving keeps the types.
LEMMA LeaveType ==
  ASSUME StateInv, NEW s \in Sessions, Leave(s)
  PROVE  StateInv'
<1>1. CASE CliEndConfirm(s)
  BY <1>1 DEF CliEndConfirm, StateInv, StateOK, SelectedInIfMode, storeVars
<1>2. CASE NewProcess(s)
  BY <1>2, EmptyType DEF NewProcess, Goto, StateInv, StateOK, SelectedInIfMode,
     PendType, storeVars
<1> QED
  BY <1>1, <1>2 DEF Leave, Quit, Hangup

\* So does an outage of VPP.
LEMMA VppType ==
  ASSUME StateInv, VppCrash \/ VppStart
  PROVE  StateInv'
BY BootType DEF VppCrash, VppStart, StateInv, StateOK, SelectedInIfMode,
   storeVars, sessionVars

\* The history variables record values of their types.
LEMMA ObserveType ==
  ASSUME HistoryOK, Observe
  PROVE  HistoryOK'
BY DEF HistoryOK, Observe

\* Every step keeps the types.
LEMMA TypePreserved == StateInv /\ HistoryOK /\ [Next]_vars => (StateInv /\ HistoryOK)'
<1> SUFFICES ASSUME StateInv, HistoryOK, [Next]_vars
             PROVE  (StateInv /\ HistoryOK)'
  OBVIOUS
<1>1. CASE Next
  BY <1>1, EnterType, EditType, CommitType, LeaveType, VppType, ObserveType DEF Next
<1>2. CASE UNCHANGED vars
  BY <1>2 DEF vars, storeVars, sessionVars, historyVars, StateInv, StateOK,
     SelectedInIfMode, HistoryOK
<1> QED
  BY <1>1, <1>2

\* THEOREM.  Type correctness, for every value of the constants.
THEOREM TypeCorrect == Spec => []TypeOK
<1>1. Init => StateInv /\ HistoryOK
  BY InitState
<1>2. StateInv /\ HistoryOK /\ [Next]_vars => (StateInv /\ HistoryOK)'
  BY TypePreserved
<1>3. StateInv /\ HistoryOK => TypeOK
  BY DEF StateInv, TypeOK
<1> QED
  BY <1>1, <1>2, <1>3, PTL DEF Spec

\* The invariant behind it, for the theorems that follow.
THEOREM StateInvariant == Spec => [](StateInv /\ HistoryOK)
<1>1. StateInv /\ HistoryOK /\ [Next]_vars => (StateInv /\ HistoryOK)'
  BY TypePreserved
<1> QED
  BY <1>1, InitState, PTL DEF Spec

-----------------------------------------------------------------------------
(* Who touches what.  A command other than commit runs in an idle session      *)
(* and leaves the stores alone; no step of a session touches the pending lists *)
(* or the progress of another.                                                 *)

\* What no command touches: a commit under way, and the stores.
LEMMA CommandsFrame ==
  ASSUME NEW s \in Sessions, Enter(s) \/ Edit(s)
  PROVE  /\ pc[s] = "idle"
         /\ UNCHANGED <<pc, vppUp, file, candidate, running, startup>>
<1>1. ASSUME NEW l, NEW f, NotedCommand(s, l, f)
      PROVE  UNCHANGED <<pc, vppUp, file, candidate, running, startup>>
  BY <1>1 DEF NotedCommand, storeVars
<1>2. ASSUME NEW gone, UnnotedCommand(s, gone)
      PROVE  UNCHANGED <<pc, vppUp, file, candidate, running, startup>>
  BY <1>2 DEF UnnotedCommand, storeVars, sessionVars
<1>3. ASSUME NothingDone(s)
      PROVE  UNCHANGED <<pc, vppUp, file, candidate, running, startup>>
  BY <1>3 DEF NothingDone, storeVars
<1>4. CASE Enter(s)
  BY <1>1, <1>2, <1>3, <1>4 DEF Enter, Idle, Configure, ExitConfigure,
     CliInterfaceSelect, CliInterfaceSelectSub, CliCreateSubifSimple,
     CliCreateBondNamed, CliCreateLoopbackInstance, CliCreateLoopback,
     CliNoInterface, storeVars
<1>5. CASE Edit(s)
  BY <1>1, <1>2, <1>3, <1>5 DEF Edit, Idle, CliIfMtu, CliIfMtuDefault,
     CliIfNoShutdown, CliIfShutdown, CliIfIpAddress, CliIfIpv6Address, JoinBond,
     CliIfChannelGroup, CliBondAddMember, CliIfVlan, CliIfLcp, CliIfNoIpAddress,
     CliIfNoIpAddressAll, CliIfNoChannelGroup, CliIfNoLcp, CliIfExit, storeVars
<1> QED
  BY <1>4, <1>5

\* A step of a session leaves the lists and the progress of the others alone.
LEMMA OthersFrame ==
  ASSUME StateOK, NEW s \in Sessions, NEW t \in Sessions, s # t,
         Enter(s) \/ Edit(s) \/ Commit(s) \/ Leave(s)
  PROVE  pc'[t] = pc[t] /\ pend'[t] = pend[t]
<1>1. ASSUME NEW p, Note(s, p) PROVE pend'[t] = pend[t]
  BY <1>1 DEF Note, StateOK
<1>2. CASE Enter(s)
  <2>1. pend'[t] = pend[t]
    BY <1>1, <1>2 DEF Enter, NotedCommand, UnnotedCommand, NothingDone, sessionVars,
       Configure, ExitConfigure, CliInterfaceSelect, CliInterfaceSelectSub,
       CliCreateSubifSimple, CliCreateBondNamed, CliCreateLoopbackInstance,
       CliCreateLoopback, CliNoInterface
  <2> QED
    BY <2>1, <1>2, CommandsFrame
<1>3. CASE Edit(s)
  <2>1. pend'[t] = pend[t]
    BY <1>1, <1>3 DEF Edit, NotedCommand, UnnotedCommand, NothingDone, sessionVars,
       CliIfMtu, CliIfMtuDefault, CliIfNoShutdown, CliIfShutdown, CliIfIpAddress,
       CliIfIpv6Address, JoinBond, CliIfChannelGroup, CliBondAddMember, CliIfVlan,
       CliIfLcp, CliIfNoIpAddress, CliIfNoIpAddressAll, CliIfNoChannelGroup,
       CliIfNoLcp, CliIfExit
  <2> QED
    BY <2>1, <1>3, CommandsFrame
<1>4. CASE Commit(s)
  BY <1>4 DEF Commit, StateOK, CliVppCommit, SyncList, SyncAddrs, SyncBonds, SyncLcps,
     OpenFile, FlushBlock, WriteFile, EditCandidate, CommitRunning, CopyStartup,
     RequestFails, Goto, Fill
<1>5. CASE Leave(s)
  BY <1>5 DEF Leave, CliEndConfirm, Quit, Hangup, NewProcess, Goto, StateOK
<1> QED
  BY <1>2, <1>3, <1>4, <1>5

-----------------------------------------------------------------------------
(* No <subinterfaces> section is ever written: ds_clear_pending empties the    *)
(* list at the start of a commit, and no sync function refills it.             *)

SubifsEmpty ==
  /\ file["subifs"] = {}
  /\ \A s \in Sessions : pc[s] # "idle" => pend[s]["subifs"] = {}

\* No step puts a sub-interface entry where a commit would write it.
LEMMA SubifsPreserved ==
  ASSUME StateOK, StateOK', SubifsEmpty, [Next]_vars
  PROVE  SubifsEmpty'
<1> USE ListNames
<1>1. ASSUME NEW s \in Sessions, Enter(s) \/ Edit(s) PROVE SubifsEmpty'
  <2>1. pc[s] = "idle" /\ pc' = pc /\ file' = file
    BY <1>1, CommandsFrame
  <2>2. \A t \in Sessions \ {s} : pend'[t] = pend[t]
    BY <1>1, OthersFrame
  <2> QED
    BY <2>1, <2>2 DEF SubifsEmpty
<1>2. ASSUME NEW s \in Sessions, Commit(s) PROVE SubifsEmpty'
  <2>1. \A t \in Sessions \ {s} : pend'[t] = pend[t] /\ pc'[t] = pc[t]
    BY <1>2, OthersFrame
  <2>2. pc'[s] # "idle" => pend'[s]["subifs"] = {}
    <3>1. CASE CliVppCommit(s)
      BY <3>1 DEF CliVppCommit, Empty, StateOK
    <3>2. ASSUME NEW l \in Lists, l # "subifs", NEW facts, Fill(s, l, facts), pc[s] # "idle"
          PROVE  pend'[s]["subifs"] = {}
      BY <3>2 DEF Fill, SubifsEmpty, StateOK
    <3>3. CASE SyncList(s) \/ SyncAddrs(s) \/ SyncBonds(s) \/ SyncLcps(s)
      BY <3>2, <3>3 DEF SyncList, SyncAddrs, SyncBonds, SyncLcps, At
    <3>4. CASE pend' = pend /\ pc[s] # "idle"
      BY <3>4 DEF SubifsEmpty
    <3> QED
      BY <1>2, <3>1, <3>3, <3>4 DEF Commit, OpenFile, FlushBlock, WriteFile, Writing,
         EditCandidate, CommitRunning, CopyStartup, At
  <2>3. file'["subifs"] = {}
    <3>1. CASE OpenFile(s)
      BY <3>1 DEF OpenFile, Empty, SubifsEmpty
    <3>2. CASE FlushBlock(s) \/ WriteFile(s)
      <4>1. pend[s]["subifs"] = {}
        BY <3>2 DEF FlushBlock, WriteFile, Writing, SubifsEmpty
      <4> QED
        BY <3>2, <4>1, WritingType DEF SubifsEmpty, StateOK, PendType
    <3>3. CASE file' = file
      BY <3>3 DEF SubifsEmpty
    <3> QED
      BY <1>2, <3>1, <3>2, <3>3 DEF Commit, CliVppCommit, SyncList, SyncAddrs, SyncBonds,
         SyncLcps, EditCandidate, CommitRunning, CopyStartup, storeVars
  <2> QED
    BY <2>1, <2>2, <2>3 DEF SubifsEmpty
<1>3. ASSUME NEW s \in Sessions, Leave(s) PROVE SubifsEmpty'
  <2>1. \A t \in Sessions \ {s} : pend'[t] = pend[t] /\ pc'[t] = pc[t]
    BY <1>3, OthersFrame
  <2>2. pc'[s] = "idle" /\ file' = file
    BY <1>3 DEF Leave, CliEndConfirm, Quit, Hangup, NewProcess, Goto, storeVars, StateOK
  <2> QED
    BY <2>1, <2>2 DEF SubifsEmpty
<1>4. CASE VppCrash \/ VppStart
  BY <1>4 DEF VppCrash, VppStart, storeVars, sessionVars, SubifsEmpty
<1>5. CASE UNCHANGED vars
  BY <1>5 DEF vars, storeVars, sessionVars, SubifsEmpty
<1> QED
  BY <1>1, <1>2, <1>3, <1>4, <1>5 DEF Next

\* THEOREM.  vpp_config.xml never holds a sub-interface section, whatever is
\* committed, killed or refused: sub-interfaces survive by their dotted names.
THEOREM SubifsNeverSaved == Spec => []NoSubifSection
<1>1. Init => SubifsEmpty
  BY ListNames DEF Init, SubifsEmpty, Empty
<1>2. StateOK /\ StateOK' /\ SubifsEmpty /\ [Next]_vars => SubifsEmpty'
  BY SubifsPreserved
<1>3. StateInv => StateOK
  BY DEF StateInv
<1>4. SubifsEmpty => NoSubifSection
  BY DEF SubifsEmpty, NoSubifSection
<1> QED
  BY <1>1, <1>2, <1>3, <1>4, StateInvariant, PTL DEF Spec

-----------------------------------------------------------------------------
(* An undisturbed commit reads VPP exactly.                                    *)

\* The interfaces p holds are those of VPP v.
IfsRead(p, v) ==
  \E r : IsAddrRead(r, v, ReadList(v)) /\ p["ifs"] = ReadList(v) \cup r

\* How far the commit of s has read, if nothing has disturbed VPP since.
ReadSoFar(s) ==
  quiet[s] /\ vppUp =>
    /\ pc[s] = "addrs" => pend[s]["ifs"] = ReadList(vpp)
    /\ pc[s] \in {"bonds", "lcps", "open", "edit", "commit"} \cup Writing
         => IfsRead(pend[s], vpp)
    /\ pc[s] \in {"lcps", "open"} \cup Writing => pend[s]["bonds"] = ReadBonds(vpp)
    /\ pc[s] \in {"open"} \cup Writing =>
         \E ns \in [Ifs -> Netns \cup {None}] : pend[s]["lcps"] = PairRead(vpp, ns)

\* With the other two lists read, nothing is missing from a snapshot.
LEMMA AllRead ==
  ASSUME NEW v, NEW p \in [Lists -> SUBSET Fact], IfsRead(p, v),
         p["bonds"] = ReadBonds(v), p["subifs"] = {},
         NEW ns \in [Ifs -> Netns \cup {None}], p["lcps"] = PairRead(v, ns)
  PROVE  p \in Snapshots(v)
<1>1. PICK r : IsAddrRead(r, v, ReadList(v)) /\ p["ifs"] = ReadList(v) \cup r
  BY DEF IfsRead
<1>2. r \in AddrReads(v)
  <2>1. r \in SUBSET Of(v, {"addr", "mtu"})
    BY <1>1 DEF IsAddrRead, Of
  <2> QED
    BY <1>1, <2>1 DEF AddrReads
<1>3. p = Reading(v, r, ns)
  BY <1>1 DEF Lists, Reading
<1> QED
  BY <1>2, <1>3 DEF Snapshots

\* No step of s itself, nor of another session, spoils what s has read.
LEMMA ReadSoFarPreserved ==
  ASSUME StateOK, StateOK', HistoryOK, NEW s \in Sessions, ReadSoFar(s), [Next]_vars
  PROVE  ReadSoFar(s)'
<1> USE ListNames DEF Writing
<1>1. CASE pc'[s] = pc[s] /\ pend'[s] = pend[s] /\ Observe
  <2>1. quiet'[s] => pc[s] = "idle" \/ (quiet[s] /\ vpp' = vpp /\ vppUp' = vppUp)
    BY <1>1 DEF Observe
  <2> QED
    BY <1>1, <2>1 DEF ReadSoFar, IfsRead
<1>2. ASSUME NEW t \in Sessions, t # s, Observe,
             Enter(t) \/ Edit(t) \/ Commit(t) \/ Leave(t)
      PROVE  ReadSoFar(s)'
  BY <1>1, <1>2, OthersFrame
<1>3. CASE (Enter(s) \/ Edit(s) \/ Leave(s)) /\ Observe
  <2>1. pc'[s] = "idle"
    BY <1>3, CommandsFrame
       DEF Leave, CliEndConfirm, Quit, Hangup, NewProcess, Goto, StateOK
  <2> QED
    BY <2>1 DEF ReadSoFar
<1>4. CASE Commit(s) /\ Observe
  <2>1. quiet'[s] /\ pc[s] # "idle" => quiet[s]
    BY <1>4 DEF Observe
  <2>2. CASE CliVppCommit(s)
    <3>1. pc'[s] = "list"
      BY <2>2 DEF CliVppCommit, Goto, StateOK
    <3> QED
      BY <3>1 DEF ReadSoFar
  <2>3. CASE SyncList(s)
    <3>1. pc'[s] = "addrs" /\ UNCHANGED <<vpp, vppUp>>
      BY <2>3 DEF SyncList, Goto, StateOK
    <3>2. vppUp => pend'[s]["ifs"] = ReadList(vpp)
      BY <2>3 DEF SyncList, Fill, StateOK
    <3> QED
      BY <3>1, <3>2 DEF ReadSoFar
  <2>4. CASE SyncAddrs(s)
    <3>1. pc[s] = "addrs" /\ pc'[s] = "bonds" /\ UNCHANGED <<vpp, vppUp>>
      BY <2>4 DEF SyncAddrs, At, Goto, StateOK
    <3>2. ASSUME quiet[s], vppUp PROVE IfsRead(pend'[s], vpp)
      <4>1. pend[s]["ifs"] = ReadList(vpp)
        BY <3>1, <3>2 DEF ReadSoFar
      <4>2. PICK r : IsAddrRead(r, vpp, pend[s]["ifs"]) /\ Fill(s, "ifs", pend[s]["ifs"] \cup r)
        BY <2>4, <3>2 DEF SyncAddrs
      <4>3. pend'[s]["ifs"] = pend[s]["ifs"] \cup r
        BY <4>2 DEF Fill, StateOK
      <4> QED
        BY <4>1, <4>2, <4>3 DEF IfsRead
    <3> QED
      BY <2>1, <3>1, <3>2 DEF ReadSoFar, IfsRead
  <2>5. CASE SyncBonds(s)
    <3>1. pc[s] = "bonds" /\ pc'[s] = "lcps" /\ UNCHANGED <<vpp, vppUp>>
      BY <2>5 DEF SyncBonds, At, Goto, StateOK
    <3>2. pend'[s]["ifs"] = pend[s]["ifs"]
      BY <2>5 DEF SyncBonds, Fill, StateOK
    <3>3. vppUp => pend'[s]["bonds"] = ReadBonds(vpp)
      BY <2>5 DEF SyncBonds, Fill, StateOK
    <3> QED
      BY <2>1, <3>1, <3>2, <3>3 DEF ReadSoFar, IfsRead
  <2>6. CASE SyncLcps(s)
    <3>1. pc[s] = "lcps" /\ pc'[s] = "open" /\ UNCHANGED <<vpp, vppUp>>
      BY <2>6 DEF SyncLcps, At, Goto, StateOK
    <3>2. pend'[s]["ifs"] = pend[s]["ifs"] /\ pend'[s]["bonds"] = pend[s]["bonds"]
      BY <2>6 DEF SyncLcps, Fill, StateOK
    <3>3. vppUp => \E ns \in [Ifs -> Netns \cup {None}] : pend'[s]["lcps"] = PairRead(vpp, ns)
      BY <2>6 DEF SyncLcps, Fill, StateOK
    <3> QED
      BY <2>1, <3>1, <3>2, <3>3 DEF ReadSoFar, IfsRead
  <2>7. CASE OpenFile(s)
    <3>1. pc[s] = "open" /\ pc'[s] \in {"write", "edit"} /\ UNCHANGED <<vpp, vppUp, pend>>
      BY <2>7 DEF OpenFile, At, Goto, StateOK
    <3> QED
      BY <2>1, <3>1 DEF ReadSoFar, IfsRead
  <2>8. CASE FlushBlock(s) \/ WriteFile(s) \/ (EditCandidate(s) /\ pc'[s] = "commit")
    <3>1. /\ \/ pc[s] \in Writing /\ pc'[s] \in {"rest", "edit"}
             \/ pc[s] = "edit" /\ pc'[s] = "commit"
          /\ UNCHANGED <<vpp, vppUp, pend>>
      BY <2>8 DEF FlushBlock, WriteFile, EditCandidate, RequestFails, At, Goto, StateOK
    <3> QED
      BY <2>1, <3>1 DEF ReadSoFar, IfsRead
  <2>9. CASE (EditCandidate(s) /\ pc'[s] # "commit") \/ CommitRunning(s) \/ CopyStartup(s)
    <3>1. pc'[s] \in {"copy", "idle"}
      BY <2>9 DEF EditCandidate, CommitRunning, CopyStartup, RequestFails, Goto, StateOK
    <3> QED
      BY <3>1 DEF ReadSoFar
  <2> QED
    BY <1>4, <2>2, <2>3, <2>4, <2>5, <2>6, <2>7, <2>8, <2>9 DEF Commit
<1>5. CASE (VppCrash \/ VppStart) /\ Observe
  BY <1>1, <1>5 DEF VppCrash, VppStart, sessionVars
<1>6. CASE UNCHANGED vars
  BY <1>6 DEF vars, sessionVars, historyVars, ReadSoFar, IfsRead
<1> QED
  BY <1>2, <1>3, <1>4, <1>5, <1>6 DEF Next

\* The invariant behind the next theorem, for the theorems of other modules too.
ReadSoFarAll == \A s \in Sessions : ReadSoFar(s)

THEOREM ReadInvariant == Spec => [](StateOK /\ SubifsEmpty /\ ReadSoFarAll)
<1>1. Init => ReadSoFarAll
  BY DEF Init, ReadSoFar, ReadSoFarAll, Writing
<1>2. StateOK /\ StateOK' /\ HistoryOK /\ ReadSoFarAll /\ [Next]_vars => ReadSoFarAll'
  BY ReadSoFarPreserved DEF ReadSoFarAll
<1>3. Init => SubifsEmpty
  BY ListNames DEF Init, SubifsEmpty, Empty
<1>4. StateOK /\ StateOK' /\ SubifsEmpty /\ [Next]_vars => SubifsEmpty'
  BY SubifsPreserved
<1>5. StateInv => StateOK
  BY DEF StateInv
<1> QED
  BY <1>1, <1>2, <1>3, <1>4, <1>5, StateInvariant, PTL DEF Spec

\* THEOREM.  A commit during which nothing disturbed VPP is about to write
\* exactly what VPP holds, with any number of other sessions and any faults.
THEOREM QuietCommitReadsVpp == Spec => []QuietCommitIsExact
<1>1. StateOK /\ SubifsEmpty /\ ReadSoFarAll => QuietCommitIsExact
  <2> SUFFICES ASSUME StateOK, SubifsEmpty, ReadSoFarAll, NEW s \in Sessions,
                      pc[s] \in {"open"} \cup Writing, quiet[s], vppUp
               PROVE  pend[s] \in Snapshots(vpp)
    BY DEF QuietCommitIsExact
  <2>1. /\ IfsRead(pend[s], vpp) /\ pend[s]["bonds"] = ReadBonds(vpp)
        /\ \E ns \in [Ifs -> Netns \cup {None}] : pend[s]["lcps"] = PairRead(vpp, ns)
    BY DEF ReadSoFar, ReadSoFarAll, Writing
  <2>2. pend[s] \in [Lists -> SUBSET Fact] /\ pend[s]["subifs"] = {}
    BY DEF StateOK, SubifsEmpty, Writing
  <2> QED
    BY <2>1, <2>2, AllRead
<1> QED
  BY <1>1, ReadInvariant, PTL

-----------------------------------------------------------------------------
(* The file and the datastores agree between commits that did not overlap, if  *)
(* no request fails, the file can be opened and no session is killed.          *)

Reliable == Faults \cap {"rpc", "open", "hangup"} = {}

Agreed == candidate = running /\ startup = running /\ file["ifs"] = running

\* Until two commits overlap, at most one session commits, and how far it has
\* come tells which of the stores already hold the new configuration.
StoresByStep ==
  ~overlapped =>
    /\ \A s, t \in Sessions : pc[s] # "idle" /\ pc[t] # "idle" => s = t
    /\ (\A s \in Sessions : pc[s] \in {"idle", "list", "addrs", "bonds", "lcps", "open"})
         => Agreed
    /\ \A s \in Sessions :
         /\ ~torn[s]
         /\ pc[s] \in Writing => candidate = running /\ startup = running
         /\ pc[s] = "edit" =>
              candidate = running /\ startup = running /\ file["ifs"] = pend[s]["ifs"]
         /\ pc[s] = "commit" => startup = running /\ file["ifs"] = candidate
         /\ pc[s] = "copy" => file["ifs"] = running /\ candidate = running

\* The relation of the stores to the step of the one commit is kept.
LEMMA StoresByStepPreserved ==
  ASSUME Reliable, StateOK, StateOK', HistoryOK, StoresByStep, [Next]_vars
  PROVE  StoresByStep'
<1> USE ListNames DEF Writing
<1>1. CASE Next
  <2> SUFFICES ASSUME ~overlapped' PROVE StoresByStep'
    BY DEF StoresByStep
  <2>1. /\ ~overlapped
        /\ \A s, t \in Sessions : pc'[s] # "idle" /\ pc'[t] # "idle" => s = t
        /\ \A s \in Sessions : ~torn'[s]
    <3>1. ~overlapped /\ \A s, t \in Sessions : pc'[s] # "idle" /\ pc'[t] # "idle" => s = t
      BY <1>1 DEF Next, Observe
    <3> QED
      BY <1>1, <3>1 DEF Next, Observe, StoresByStep
  <2>2. ASSUME NEW s \in Sessions, pc[s] = "idle", pc' = pc,
               UNCHANGED <<file, candidate, running, startup>>,
               \A t \in Sessions \ {s} : pend'[t] = pend[t]
        PROVE  StoresByStep'
    BY <2>1, <2>2 DEF StoresByStep, Agreed
  <2>3. ASSUME NEW s \in Sessions, Enter(s) \/ Edit(s) PROVE StoresByStep'
    <3>1. \A t \in Sessions \ {s} : pend'[t] = pend[t]
      BY <2>3, OthersFrame
    <3> QED
      BY <2>2, <2>3, <3>1, CommandsFrame
  <2>4. ASSUME NEW s \in Sessions, Leave(s) PROVE StoresByStep'
    <3>1. \A t \in Sessions \ {s} : pend'[t] = pend[t]
      BY <2>4, OthersFrame
    <3>2. pc[s] = "idle" /\ pc' = pc /\ UNCHANGED <<file, candidate, running, startup>>
      BY <2>4 DEF Leave, CliEndConfirm, Quit, Hangup, NewProcess, Idle, Goto, storeVars,
         StateOK, Reliable
    <3> QED
      BY <2>2, <3>1, <3>2
  <2>5. ASSUME NEW s \in Sessions, Commit(s) PROVE StoresByStep'
    <3>1. \A t \in Sessions \ {s} : pend'[t] = pend[t] /\ pc'[t] = pc[t]
      BY <2>5, OthersFrame
    <3>2. \A t \in Sessions \ {s} : pc[t] = "idle"
      <4>1. pc[s] # "idle" \/ pc'[s] # "idle"
        BY <2>5 DEF Commit, CliVppCommit, SyncList, SyncAddrs, SyncBonds, SyncLcps,
           OpenFile, FlushBlock, WriteFile, EditCandidate, CommitRunning, CopyStartup,
           Goto, At, StateOK
      <4> QED
        BY <2>1, <3>1, <4>1 DEF StoresByStep
    <3>3. CASE CliVppCommit(s)
      <4>1. pc[s] = "idle" /\ pc'[s] = "list" /\ UNCHANGED <<file, candidate, running, startup>>
        BY <3>3 DEF CliVppCommit, Goto, storeVars, StateOK
      <4> QED
        BY <2>1, <3>1, <3>2, <4>1 DEF StoresByStep, Agreed
    <3>4. CASE SyncList(s) \/ SyncAddrs(s) \/ SyncBonds(s) \/ SyncLcps(s)
      <4>1. /\ pc[s] \in {"list", "addrs", "bonds", "lcps"}
            /\ pc'[s] \in {"addrs", "bonds", "lcps", "open"}
            /\ UNCHANGED <<file, candidate, running, startup>>
        BY <3>4 DEF SyncList, SyncAddrs, SyncBonds, SyncLcps, At, Goto, storeVars, StateOK
      <4> QED
        BY <2>1, <3>1, <3>2, <4>1 DEF StoresByStep, Agreed
    <3>5. CASE OpenFile(s)
      <4>1. /\ pc[s] = "open" /\ pc'[s] = "write" /\ file' = Empty
            /\ UNCHANGED <<candidate, running, startup>>
        BY <3>5 DEF OpenFile, At, Goto, StateOK, Reliable
      <4> QED
        BY <2>1, <3>1, <3>2, <4>1 DEF StoresByStep, Agreed
    <3>10. CASE FlushBlock(s)
      <4>1. /\ pc[s] \in Writing /\ pc'[s] = "rest"
            /\ UNCHANGED <<candidate, running, startup>>
        BY <3>10 DEF FlushBlock, Goto, StateOK
      <4> QED
        BY <2>1, <3>1, <3>2, <4>1 DEF StoresByStep, Agreed
    <3>6. CASE WriteFile(s)
      <4>1. /\ pc[s] \in Writing /\ pc'[s] = "edit" /\ pend' = pend
            /\ UNCHANGED <<candidate, running, startup>>
        BY <3>6 DEF WriteFile, Goto, StateOK
      <4>2. ~torn[s]
        BY <2>1 DEF StoresByStep
      <4>3. file'["ifs"] = pend[s]["ifs"]
        BY <3>6, <4>2 DEF WriteFile
      <4> QED
        BY <2>1, <3>1, <3>2, <4>1, <4>3 DEF StoresByStep, Agreed
    <3>7. CASE EditCandidate(s)
      <4>1. /\ pc[s] = "edit" /\ pc'[s] = "commit" /\ candidate' = pend[s]["ifs"]
            /\ UNCHANGED <<file, running, startup>>
        BY <3>7 DEF EditCandidate, RequestFails, At, Goto, StateOK, Reliable
      <4> QED
        BY <2>1, <3>1, <3>2, <4>1 DEF StoresByStep, Agreed
    <3>8. CASE CommitRunning(s)
      <4>1. /\ pc[s] = "commit" /\ pc'[s] = "copy" /\ running' = candidate
            /\ UNCHANGED <<file, candidate, startup>>
        BY <3>8 DEF CommitRunning, RequestFails, At, Goto, StateOK, Reliable
      <4> QED
        BY <2>1, <3>1, <3>2, <4>1 DEF StoresByStep, Agreed
    <3>9. CASE CopyStartup(s)
      <4>1. /\ pc[s] = "copy" /\ pc'[s] = "idle" /\ startup' = running
            /\ UNCHANGED <<file, candidate, running>>
        BY <3>9 DEF CopyStartup, At, Goto, StateOK, Reliable
      <4> QED
        BY <2>1, <3>1, <3>2, <4>1 DEF StoresByStep, Agreed
    <3> QED
      BY <2>5, <3>3, <3>4, <3>5, <3>6, <3>7, <3>8, <3>9, <3>10 DEF Commit
  <2>6. CASE VppCrash \/ VppStart
    BY <2>1, <2>6 DEF VppCrash, VppStart, storeVars, sessionVars, StoresByStep, Agreed
  <2> QED
    BY <1>1, <2>3, <2>4, <2>5, <2>6 DEF Next
<1>2. CASE UNCHANGED vars
  BY <1>2 DEF vars, storeVars, sessionVars, historyVars, StoresByStep, Agreed
<1> QED
  BY <1>1, <1>2

\* THEOREM.  While commits do not overlap and requests succeed, vpp_config.xml and
\* the three Clixon datastores hold the same interfaces whenever no commit is
\* under way, whatever VPP does meanwhile.
THEOREM StoresStayTogether == Reliable => (Spec => []StoresAgree)
<1> SUFFICES ASSUME Reliable PROVE Spec => []StoresAgree
  OBVIOUS
<1>1. Init => StoresByStep
  BY ListNames DEF Init, StoresByStep, Agreed, Empty, Writing
<1>2. StateOK /\ StateOK' /\ HistoryOK /\ StoresByStep /\ [Next]_vars => StoresByStep'
  BY StoresByStepPreserved
<1>3. StoresByStep => StoresAgree
  BY DEF StoresByStep, StoresAgree, Agreed, AllIdle
<1>4. StateInv => StateOK
  BY DEF StateInv
<1> QED
  BY <1>1, <1>2, <1>3, <1>4, StateInvariant, PTL DEF Spec

=============================================================================
