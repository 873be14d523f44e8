---------------------------- MODULE Restore_proofs ----------------------------
(***************************************************************************)
(* Theorems about Restore for every saved configuration, any number of     *)
(* failures and commits, and every interleaving of the two restorers.      *)
(***************************************************************************)
EXTENDS Restore, VppFacts_proofs

-----------------------------------------------------------------------------
(* Types.                                                                  *)

Contents == [Lists -> SUBSET Fact]

\* The names of entries are names of interfaces.
LEMMA EntryType ==
  ASSUME NEW c \in Contents, NEW l \in Lists
  PROVE  Entries(c, l) \in SUBSET Ifs
<1>1. \A f \in Fact : EntryOf(f) \in Ifs
  BY FactOf, FactIs DEF EntryOf, Ifs
<1> QED
  BY <1>1 DEF Entries, Contents

\* What an entry makes a restorer issue are facts.
LEMMA CommandsType ==
  ASSUME NEW r \in Restorers, NEW n \in Ifs, NEW c \in Contents
  PROVE  Commands(r, n, c) \in SUBSET Fact
<1>1. c["bonds"] \in SUBSET Fact /\ c["ifs"] \in SUBSET Fact /\ c["lcps"] \in SUBSET Fact
  BY DEF Contents, Lists
<1>2. BondCommands(n, c) \in SUBSET Fact
  BY <1>1, FactConstructors, FactOf DEF BondCommands, Of
<1> QED
  BY <1>1, <1>2 DEF Commands

\* Where entering a phase leads.
EnterOK(r, ph) ==
  /\ phase' = [phase EXCEPT ![r] = ph]
  /\ names' \in [Restorers -> SUBSET Ifs] /\ todo' \in [Restorers -> SUBSET Fact]
  /\ ph \notin Sections => names'[r] = {} /\ todo'[r] = {}
  /\ \A q \in Restorers \ {r} : names'[q] = names[q] /\ todo'[q] = todo[q]

\* Entering a phase does that.
LEMMA EnterType ==
  ASSUME TypeOK, NEW r \in Restorers, NEW ph, NEW c \in Contents, Enter(r, ph, c)
  PROVE  EnterOK(r, ph)
<1>1. ph \in Sections => Entries(c, ph) \in SUBSET Ifs
  BY EntryType DEF Sections, Lists
<1> QED
  BY <1>1 DEF EnterOK, Enter, TypeOK

\* No action takes phase out of its domain.
LEMMA PhaseShape ==
  ASSUME TypeOK, NEW r \in Restorers, NEW ph, EnterOK(r, ph),
         r = "backend" => ph \in BackendPhases,
         r = "loader" => ph \in LoaderPhases
  PROVE  /\ phase' \in [Restorers -> BackendPhases \cup LoaderPhases]
         /\ phase'["backend"] \in BackendPhases /\ phase'["loader"] \in LoaderPhases
         /\ \A q \in Restorers : ~Working(q)' => names'[q] = {} /\ todo'[q] = {}
<1>1. /\ phase' \in [Restorers -> BackendPhases \cup LoaderPhases]
      /\ phase'["backend"] \in BackendPhases /\ phase'["loader"] \in LoaderPhases
  BY DEF EnterOK, TypeOK, Restorers
<1>2. ASSUME NEW q \in Restorers, ~Working(q)' PROVE names'[q] = {} /\ todo'[q] = {}
  BY <1>2 DEF EnterOK, TypeOK, Working
<1> QED
  BY <1>1, <1>2

\* The facts a section still has to establish go to VPP, or nowhere.
LEMMA IssueShape ==
  ASSUME NEW r \in Restorers, Issue(r)
  PROVE  \E f \in todo[r] :
           /\ \A g \in todo[r] : ~Precedes(g, f)
           /\ todo' = [todo EXCEPT ![r] = @ \ {f}]
           /\ vpp' = Establish(vpp, f) \/ vpp' = vpp
           /\ r = "backend" /\ vppUp => vpp' = Establish(vpp, f)
BY DEF Issue, Restorers

\* Every step keeps the types.
LEMMA TypePreserved == TypeOK /\ [Next]_vars => TypeOK'
<1> SUFFICES ASSUME TypeOK, [Next]_vars PROVE TypeOK'
  OBVIOUS
<1>1. file \in Contents /\ held \in Contents /\ Empty \in Contents
  BY DEF TypeOK, Contents, Empty
<1>2. "backend" \in Restorers /\ "loader" \in Restorers
  BY DEF Restorers
<1>3. ASSUME NEW r \in Restorers, NEW ph, EnterOK(r, ph),
             r = "backend" => ph \in BackendPhases, r = "loader" => ph \in LoaderPhases,
             UNCHANGED <<vpp, vppUp, file, commits>>,
             running' \in SUBSET Fact, held' \in Contents, restartDue' \in BOOLEAN,
             crashes' \in 0..Crashes, whole' \in BOOLEAN
      PROVE  TypeOK'
  BY <1>3, PhaseShape DEF TypeOK, EnterOK, Contents
<1>4. ASSUME NEW r \in Restorers, PickEntry(r) PROVE TypeOK'
  <2>1. PICK n \in names[r] :
          /\ names' = [names EXCEPT ![r] = @ \ {n}]
          /\ todo' = [todo EXCEPT ![r] = Commands(r, n, Seen(r))]
    BY <1>4 DEF PickEntry
  <2>2. Commands(r, n, Seen(r)) \in SUBSET Fact
    BY <1>1, CommandsType DEF Seen, TypeOK
  <2> QED
    BY <1>4, <2>1, <2>2 DEF PickEntry, TypeOK, Working, bounds
<1>5. ASSUME NEW r \in Restorers, Issue(r) PROVE TypeOK'
  <2>1. PICK f \in todo[r] : /\ todo' = [todo EXCEPT ![r] = @ \ {f}]
                             /\ vpp' = Establish(vpp, f) \/ vpp' = vpp
    BY <1>5, IssueShape
  <2>2. vpp' \in SUBSET Fact
    BY <2>1, EstablishType DEF TypeOK
  <2> QED
    BY <1>5, <2>1, <2>2 DEF Issue, TypeOK, Working, bounds
<1>6. ASSUME NEW r \in Restorers, EndSection(r) PROVE TypeOK'
  <2>1. held' \in Contents
    BY <1>1, <1>6 DEF EndSection
  <2>2. EnterOK(r, NextPhase(r)[phase[r]])
    BY <1>1, <1>6, <2>1, EnterType DEF EndSection
  <2>3. NextPhase(r)[phase[r]] \in IF r = "backend" THEN BackendPhases ELSE LoaderPhases
    BY <1>6 DEF EndSection, Working, NextPhase, Sections, BackendPhases, LoaderPhases
  <2> QED
    BY <1>3, <1>6, <2>1, <2>2, <2>3 DEF EndSection, TypeOK, bounds, Restorers
<1>7. CASE StartBackend \/ FollowVpp \/ RestartBackend
  <2>1. EnterOK("backend", "connect")
    BY <1>1, <1>2, <1>7, EnterType DEF StartBackend, FollowVpp, RestartBackend, Launch
  <2> QED
    BY <1>1, <1>2, <1>3, <1>7, <2>1
       DEF StartBackend, FollowVpp, RestartBackend, Launch, BackendPhases, TypeOK, bounds
<1>8. CASE BackendConnect
  <2>1. CASE vppUp
    <3>1. EnterOK("backend", "bonds")
      BY <1>1, <1>2, <1>8, <2>1, EnterType DEF BackendConnect
    <3> QED
      BY <1>1, <1>2, <1>3, <1>8, <2>1, <3>1
         DEF BackendConnect, BackendPhases, Sections, TypeOK, bounds
  <2>2. CASE ~vppUp
    <3>1. EnterOK("backend", "up")
      BY <1>1, <1>2, <1>8, <2>2, EnterType DEF BackendConnect
    <3> QED
      BY <1>1, <1>2, <1>3, <1>8, <2>2, <3>1
         DEF BackendConnect, BackendPhases, TypeOK, bounds
  <2> QED
    BY <2>1, <2>2 DEF TypeOK
<1>9. CASE StopBackend \/ BackendFails
  <2>1. EnterOK("backend", "stopped") \/ EnterOK("backend", "down")
    BY <1>1, <1>2, <1>9, EnterType DEF StopBackend, BackendFails
  <2>2. crashes' \in 0..Crashes
    BY <1>9, RestoreAssumption DEF StopBackend, BackendFails, TypeOK, bounds
  <2> QED
    BY <1>1, <1>2, <1>3, <1>9, <2>1, <2>2
       DEF StopBackend, BackendFails, BackendPhases, TypeOK, bounds
<1>10. CASE LoaderStart \/ LoaderWait
  <2>1. \E ph \in {"wait", "bonds", "done"} : EnterOK("loader", ph)
    BY <1>1, <1>2, <1>10, EnterType DEF LoaderStart, LoaderWait
  <2> QED
    BY <1>1, <1>2, <1>3, <1>10, <2>1
       DEF LoaderStart, LoaderWait, LoaderPhases, Sections, TypeOK, bounds
<1>11. CASE VppCrash
  <2>1. crashes' \in 0..Crashes
    BY <1>11, RestoreAssumption DEF VppCrash, TypeOK
  <2> QED
    BY <1>11, <2>1, BootType DEF VppCrash, restorers, TypeOK, Working
<1>12. CASE VppStart
  BY <1>12 DEF VppStart, restorers, bounds, TypeOK, Working
<1>13. CASE Commit
  <2>1. file' \in Contents
    BY <1>1, <1>13, SnapshotShape DEF Commit, TypeOK, Contents
  <2>2. running' \in SUBSET Fact
    BY <1>13, <2>1 DEF Commit, TypeOK, Contents, Lists
  <2>3. vpp' \in SUBSET Fact
    BY <1>13, <2>2, TransactType DEF Commit, TypeOK
  <2>4. commits' \in 0..Commits
    BY <1>13, RestoreAssumption DEF Commit, TypeOK
  <2> QED
    BY <1>13, <2>1, <2>2, <2>3, <2>4 DEF Commit, restorers, TypeOK, Working, Contents
<1>14. CASE UNCHANGED vars
  BY <1>14 DEF vars, restorers, bounds, TypeOK, Working
<1> QED
  BY <1>4, <1>5, <1>6, <1>7, <1>8, <1>9, <1>10, <1>11, <1>12, <1>13, <1>14 DEF Next, Pass

\* A machine that has just booted.
LEMMA InitType == Init => TypeOK
<1> SUFFICES ASSUME Init PROVE TypeOK
  OBVIOUS
<1>1. file \in Contents
  BY RestoreAssumption, SnapshotShape DEF Init, WellFormed, Contents
<1>2. Empty \in Contents
  BY DEF Empty, Contents
<1>3. /\ phase \in [Restorers -> BackendPhases \cup LoaderPhases]
      /\ phase["backend"] \in BackendPhases /\ phase["loader"] \in LoaderPhases
  BY DEF Init, Restorers, BackendPhases, LoaderPhases
<1>4. names \in [Restorers -> SUBSET Ifs] /\ todo \in [Restorers -> SUBSET Fact]
  BY DEF Init
<1>5. \A r \in Restorers : names[r] = {} /\ todo[r] = {}
  BY DEF Init
<1>6. crashes \in 0..Crashes /\ commits \in 0..Commits
  BY RestoreAssumption DEF Init
<1> QED
  BY <1>1, <1>2, <1>3, <1>4, <1>5, <1>6, BootType DEF Init, TypeOK, Contents

\* THEOREM.  Every reachable state is well typed, and a restorer that is not at
\* work has nothing in hand: no command of an abandoned pass is issued later.
THEOREM RestoreTypeCorrect == Spec => []TypeOK
BY InitType, TypePreserved, PTL DEF Spec

-----------------------------------------------------------------------------
(* Nothing hangs in the air: VPP and both copies of the file are closed.       *)

Together == Closed(vpp) /\ WellRead(file) /\ WellRead(held)

\* What is known of the constants.
LEMMA SavedShape ==
  /\ Built \in SUBSET Fact /\ Closed(Built)
  /\ Saved \in Contents /\ WellRead(Saved)
  /\ Saved["bonds"] = ReadBonds(Built)
  /\ Saved["ifs"] \subseteq Built /\ ReadList(Built) \subseteq Saved["ifs"]
  /\ \A f, g \in Saved["ifs"] : SameSlot(f, g) => f = g
  /\ \A f, g \in Saved["lcps"] : f.of = g.of => SamePair(f, g)
  /\ \A f, g \in Built : f.kind = "member" /\ g.kind = "member" /\ f.of = g.of => f = g
<1>1. Built \in SUBSET Fact /\ Boot \subseteq Built
  BY RestoreAssumption DEF WellFormed
<1>2. \A f \in Built \ Boot : Accepts(Built \ {f}, f)
  BY RestoreAssumption DEF WellFormed
<1>3. \A f \in Boot : f.kind = "exists" /\ f.of \in Phys
  BY DEF Boot, Exists
<1>4. ASSUME NEW f \in Built
      PROVE  /\ Exists(f.of) \in Built
             /\ f.kind = "member" => Exists(f.val) \in Built
             /\ f.kind = "exists" /\ f.of \in Subs => Exists(Parent[f.of]) \in Built
  <2>1. CASE f.kind = "exists"
    BY <2>1, <1>1, <1>2, <1>3, FactIs, NamesAssumption DEF Accepts, Present
  <2>2. CASE f.kind = "member"
    BY <2>2, <1>1, <1>2, <1>3 DEF Accepts, Present, Boot
  <2>3. CASE f.kind \notin {"exists", "member"}
    BY <2>3, <1>1, <1>2, <1>3 DEF Accepts, Present
  <2> QED
    BY <2>1, <2>2, <2>3
<1>5. Closed(Built)
  BY <1>1, <1>4 DEF Closed
<1>6. ASSUME NEW f \in Built, NEW g \in Built, f.of = g.of, f.kind = "lcp", g.kind = "lcp"
      PROVE  f = g
  BY <1>6, <1>2, <1>3 DEF Accepts, Of
<1>7. ASSUME NEW f \in Saved["lcps"], NEW g \in Saved["lcps"], f.of = g.of
      PROVE  SamePair(f, g)
  <2>1. PICK f0 \in Built : SamePair(f, f0)
    BY <1>1, RestoreAssumption, SnapshotShape
  <2>2. PICK g0 \in Built : SamePair(g, g0)
    BY <1>1, RestoreAssumption, SnapshotShape
  <2>3. f0 = g0
    BY <1>6, <1>7, <2>1, <2>2 DEF SamePair
  <2> QED
    BY <1>7, <2>1, <2>2, <2>3 DEF SamePair
<1>8. /\ Saved \in Contents /\ Saved["bonds"] = ReadBonds(Built)
      /\ Saved["ifs"] \subseteq Built /\ ReadList(Built) \subseteq Saved["ifs"]
      /\ \A f, g \in Saved["ifs"] : SameSlot(f, g) => f = g
  BY <1>1, RestoreAssumption, SnapshotShape DEF Contents
<1>9. WellRead(Saved)
  BY <1>1, <1>5, RestoreAssumption, SnapshotWellRead
<1>10. ASSUME NEW f \in Built, NEW g \in Built,
              f.kind = "member" /\ g.kind = "member" /\ f.of = g.of
       PROVE  f = g
  BY <1>2, <1>3, <1>10 DEF Accepts, Of
<1>11. \A f, g \in Saved["lcps"] : f.of = g.of => SamePair(f, g)
  BY <1>7
<1> QED
  BY <1>1, <1>5, <1>8, <1>9, <1>10, <1>11

\* Every step keeps VPP and the copies of the file closed.
LEMMA TogetherPreserved == TypeOK /\ Together /\ [Next]_vars => Together'
<1> SUFFICES ASSUME TypeOK, Together, [Next]_vars PROVE Together'
  OBVIOUS
<1>1. ASSUME NEW r \in Restorers, Issue(r) PROVE Together'
  <2>1. PICK f \in todo[r] : vpp' = Establish(vpp, f) \/ vpp' = vpp
    BY <1>1, IssueShape
  <2>2. f \in Fact
    BY DEF TypeOK
  <2>3. Closed(vpp')
    BY <2>1, <2>2, EstablishClosed DEF Together, TypeOK
  <2> QED
    BY <1>1, <2>3 DEF Issue, Together
<1>2. ASSUME vpp' = vpp, file' = file, held' \in {held, file} PROVE Together'
  BY <1>2 DEF Together
<1>3. ASSUME NEW r \in Restorers, PickEntry(r) \/ EndSection(r) PROVE Together'
  BY <1>2, <1>3 DEF PickEntry, EndSection
<1>4. CASE StartBackend \/ FollowVpp \/ RestartBackend \/ BackendConnect
           \/ StopBackend \/ BackendFails \/ LoaderStart \/ LoaderWait \/ VppStart
  BY <1>2, <1>4 DEF StartBackend, FollowVpp, RestartBackend, Launch, BackendConnect,
     StopBackend, BackendFails, LoaderStart, LoaderWait, VppStart, restorers
<1>5. CASE VppCrash
  BY <1>5, BootClosed DEF VppCrash, restorers, Together
<1>6. CASE Commit
  <2>1. WellRead(file')
    BY <1>6, SnapshotWellRead, EmptyWellRead DEF Commit, Together, TypeOK
  <2>2. running' \in SUBSET Fact \/ vpp' = vpp
    BY <1>6, <2>1 DEF Commit, WellRead, Lists
  <2>3. Closed(vpp')
    BY <1>6, <2>2, TransactClosed DEF Commit, Together, TypeOK
  <2> QED
    BY <1>6, <2>1, <2>3 DEF Commit, restorers, Together
<1>7. CASE UNCHANGED vars
  BY <1>2, <1>7 DEF vars, restorers
<1> QED
  BY <1>1, <1>3, <1>4, <1>5, <1>6, <1>7 DEF Next, Pass

-----------------------------------------------------------------------------
(* What is in VPP, in a copy of the file or in a restorer's hands goes back to *)
(* the file at boot.                                                           *)

\* f is saved, or is a link that saved bonds bring up, or the default MTU.
Fine(f) ==
  /\ f.kind \in {"exists", "addr"} => f \in Saved["ifs"]
  /\ f.kind = "member" => f \in Saved["bonds"]
  /\ f.kind = "mtu" => f \in Saved["ifs"] \/ (DefaultsFilled /\ f.val = YangMtu)
  /\ f.kind = "up" =>
       f \in Saved["ifs"] \/ \E g \in Saved["bonds"] : f.of = EntryOf(g) \/ f.of = g.of
  /\ f.kind = "lcp" => \E g \in Saved["lcps"] : SamePair(f, g)

AllFine ==
  /\ \A f \in vpp : Fine(f)
  /\ \A f \in running : Fine(f)
  /\ \A l \in Lists : \A f \in file[l] \cup held[l] : Fine(f)
  /\ \A r \in Restorers : \A f \in todo[r] : Fine(f)
  /\ \A r \in Restorers : phase[r] = "bonds" =>
       \A b \in names[r] : Exists(b) \in Saved["bonds"]

\* The bonds listed in a fine section are saved ones.
LEMMA BondEntries ==
  ASSUME NEW c \in Contents, WellRead(c), \A f \in c["bonds"] : Fine(f),
         NEW b \in Entries(c, "bonds")
  PROVE  Exists(b) \in Saved["bonds"]
<1>1. PICK f \in c["bonds"] : b = EntryOf(f)
  BY DEF Entries
<1>2. f \in Fact
  BY DEF Contents, Lists
<1>3. Exists(b) \in c["bonds"] /\ b \in Bonds
  BY <1>1, <1>2, FactIs DEF WellRead, EntryOf
<1>4. Exists(b) \in Saved["ifs"]
  BY <1>3 DEF Fine, Exists
<1> QED
  BY <1>3, <1>4, SavedShape DEF WellRead

\* The commands for an entry of fine contents are fine.
LEMMA CommandsFine ==
  ASSUME NEW r \in Restorers, NEW n, NEW c \in Contents,
         \A l \in Lists : \A f \in c[l] : Fine(f),
         phase[r] = "bonds" => Exists(n) \in Saved["bonds"],
         NEW f \in Commands(r, n, c)
  PROVE  Fine(f)
<1>1. CASE phase[r] = "bonds"
  <2> DEFINE joins == {g \in Of(c["bonds"], {"member"}) : g.val = n}
  <2>1. f \in {Exists(n), Up(n)} \cup {Up(g.of) : g \in joins} \cup joins
    BY <1>1 DEF Commands, BondCommands
  <2>2. \A g \in joins : g \in Saved["bonds"] /\ g \in c["bonds"]
    BY DEF Fine, Of, Lists
  <2>3. Fine(Exists(n))
    BY <1>1, SavedShape DEF Fine, Exists, ReadBonds, ReadList, Of
  <2>4. Fine(Up(n))
    BY <1>1 DEF Fine, Up, Exists, EntryOf
  <2>5. \A g \in joins : Fine(Up(g.of))
    BY <2>2 DEF Fine, Up
  <2>6. \A g \in joins : Fine(g)
    BY <2>2 DEF Lists
  <2> HIDE DEF joins
  <2> QED
    BY <2>1, <2>3, <2>4, <2>5, <2>6
<1>2. CASE phase[r] # "bonds"
  BY <1>2 DEF Commands, Lists
<1> QED
  BY <1>1, <1>2

\* What a commit reads of a fine VPP is fine.
LEMMA SnapshotFine ==
  ASSUME NEW v \in SUBSET Fact, \A f \in v : Fine(f), NEW c \in Snapshots(v),
         NEW l \in Lists, NEW f \in c[l]
  PROVE  Fine(f)
<1>1. CASE l \in {"ifs", "bonds"}
  BY <1>1, SnapshotShape DEF ReadBonds
<1>2. CASE l = "lcps"
  <2>1. PICK g \in v : SamePair(f, g)
    BY <1>2, SnapshotShape
  <2>2. PICK h \in Saved["lcps"] : SamePair(g, h)
    BY <2>1 DEF Fine, SamePair
  <2> QED
    BY <2>1, <2>2 DEF Fine, SamePair
<1>3. CASE l = "subifs"
  BY <1>3, SnapshotShape
<1> QED
  BY <1>1, <1>2, <1>3 DEF Lists

\* What a transaction adds is in the new configuration, or the default MTU.
LEMMA TransactFine ==
  ASSUME NEW v \in SUBSET Fact, \A f \in v : Fine(f), NEW old,
         NEW new \in SUBSET Fact, \A f \in new : Fine(f),
         NEW f \in Transact(v, old, new)
  PROVE  Fine(f)
<1>1. ASSUME NEW g \in TargetMtus(v, new)
      PROVE  g \in new \/ (DefaultsFilled /\ g.kind = "mtu" /\ g.val = YangMtu)
  <2>1. \A i : Mtu(i, YangMtu).kind = "mtu" /\ Mtu(i, YangMtu).val = YangMtu
    BY DEF Mtu
  <2>2. CASE DefaultsFilled
    BY <2>1, <2>2 DEF TargetMtus, Of
  <2>3. CASE ~DefaultsFilled
    BY <2>3 DEF TargetMtus, Of
  <2> QED
    BY <2>2, <2>3
<1>2. f \in v \/ f \in new \/ f \in TargetMtus(v, new)
  BY DEF Transact, Of
<1> QED
  BY <1>1, <1>2 DEF Fine

\* Entering a phase with fine contents in hand.
LEMMA EnterFine ==
  ASSUME TypeOK, AllFine, NEW r \in Restorers, NEW ph, NEW c \in Contents, WellRead(c),
         \A l \in Lists : \A f \in c[l] : Fine(f),
         Enter(r, ph, c)
  PROVE  /\ \A q \in Restorers : \A f \in todo'[q] : Fine(f)
         /\ \A q \in Restorers : phase'[q] = "bonds" =>
              \A b \in names'[q] : Exists(b) \in Saved["bonds"]
<1>1. \A b \in Entries(c, "bonds") : Exists(b) \in Saved["bonds"]
  BY BondEntries DEF Lists
<1>2. \A q \in Restorers : \A f \in todo'[q] : Fine(f)
  BY DEF Enter, TypeOK, AllFine
<1>3. ASSUME NEW q \in Restorers, phase'[q] = "bonds", NEW b \in names'[q]
      PROVE  Exists(b) \in Saved["bonds"]
  <2>1. CASE q = r
    <3>1. ph = "bonds" /\ names'[q] = Entries(c, "bonds")
      BY <1>3, <2>1 DEF Enter, TypeOK, Sections
    <3> QED
      BY <1>1, <1>3, <3>1
  <2>2. CASE q # r
    BY <1>3, <2>2 DEF Enter, TypeOK, AllFine
  <2> QED
    BY <2>1, <2>2
<1> QED
  BY <1>2, <1>3

\* No action brings in anything that is not fine.
LEMMA FinePreserved == TypeOK /\ Together /\ AllFine /\ [Next]_vars => AllFine'
<1> SUFFICES ASSUME TypeOK, Together, AllFine, [Next]_vars PROVE AllFine'
  OBVIOUS
<1>1. /\ file \in Contents /\ held \in Contents /\ Empty \in Contents
      /\ WellRead(file) /\ WellRead(held) /\ WellRead(Empty)
  BY EmptyWellRead DEF TypeOK, Together, Contents, Empty
<1>2. /\ \A l \in Lists : \A f \in file[l] : Fine(f)
      /\ \A l \in Lists : \A f \in held[l] : Fine(f)
      /\ \A l \in Lists : \A f \in Empty[l] : Fine(f)
  BY DEF AllFine, Empty
<1>3. ASSUME NEW r \in Restorers, NEW ph, NEW c \in {file, held, Empty}, Enter(r, ph, c),
             vpp' = vpp, file' = file, running' \in {running, {}}, held' \in {held, file}
      PROVE  AllFine'
  <2>1. /\ \A q \in Restorers : \A f \in todo'[q] : Fine(f)
        /\ \A q \in Restorers : phase'[q] = "bonds" =>
              \A b \in names'[q] : Exists(b) \in Saved["bonds"]
    BY <1>1, <1>2, <1>3, EnterFine
  <2>2. /\ \A f \in vpp' : Fine(f)
        /\ \A f \in running' : Fine(f)
        /\ \A l \in Lists : \A f \in file'[l] \cup held'[l] : Fine(f)
    BY <1>3 DEF AllFine
  <2> QED
    BY <2>1, <2>2 DEF AllFine, Fine
<1>4. ASSUME NEW r \in Restorers, PickEntry(r) PROVE AllFine'
  <2>1. PICK n \in names[r] :
          /\ names' = [names EXCEPT ![r] = @ \ {n}]
          /\ todo' = [todo EXCEPT ![r] = Commands(r, n, Seen(r))]
    BY <1>4 DEF PickEntry
  <2>2. \A f \in Commands(r, n, Seen(r)) : Fine(f)
    BY <1>1, <1>2, CommandsFine DEF Seen, AllFine
  <2>3. \A q \in Restorers : \A f \in todo'[q] : Fine(f)
    BY <2>1, <2>2 DEF AllFine, TypeOK
  <2>4. \A q \in Restorers : names'[q] \subseteq names[q]
    BY <2>1 DEF TypeOK
  <2> QED
    BY <1>4, <2>3, <2>4 DEF PickEntry, AllFine, Fine
<1>5. ASSUME NEW r \in Restorers, Issue(r) PROVE AllFine'
  <2>1. PICK f \in todo[r] : /\ todo' = [todo EXCEPT ![r] = @ \ {f}]
                             /\ vpp' = Establish(vpp, f) \/ vpp' = vpp
    BY <1>5, IssueShape
  <2>2. \A g \in vpp' : Fine(g)
    BY <2>1 DEF AllFine, Establish
  <2>3. \A q \in Restorers : todo'[q] \subseteq todo[q]
    BY <2>1 DEF TypeOK
  <2> QED
    BY <1>5, <2>2, <2>3 DEF Issue, AllFine, Fine
<1>6. ASSUME NEW r \in Restorers, EndSection(r) PROVE AllFine'
  BY <1>3, <1>6 DEF EndSection
<1>7. CASE StartBackend \/ FollowVpp \/ RestartBackend
  BY <1>3, <1>7 DEF StartBackend, FollowVpp, RestartBackend, Launch, Restorers
<1>8. CASE BackendConnect \/ StopBackend \/ BackendFails \/ LoaderStart \/ LoaderWait
  BY <1>3, <1>8 DEF BackendConnect, StopBackend, BackendFails, LoaderStart, LoaderWait, Restorers
<1>9. CASE VppCrash
  <2>1. \A f \in Boot : Fine(f)
    BY SavedShape DEF Closed, ReadList, Of, Boot, Exists, Fine
  <2> QED
    BY <1>9, <2>1 DEF VppCrash, restorers, AllFine, Fine
<1>10. CASE VppStart
  BY <1>10 DEF VppStart, restorers, AllFine, Fine
<1>11. CASE Commit
  <2>1. \A l \in Lists : \A f \in file'[l] : Fine(f)
    BY <1>2, <1>11, SnapshotFine DEF Commit, AllFine, TypeOK
  <2>2. file'["ifs"] \in SUBSET Fact
    BY <1>1, <1>11, SnapshotShape DEF Commit, TypeOK, Contents, Lists
  <2>3. \A f \in running' : Fine(f)
    BY <1>11, <2>1 DEF Commit, AllFine, Lists
  <2>4. \A f \in vpp' : Fine(f)
    BY <1>11, <2>1, <2>2, TransactFine DEF Commit, AllFine, TypeOK, Lists
  <2> QED
    BY <1>11, <2>1, <2>3, <2>4 DEF Commit, restorers, AllFine, Fine
<1>12. CASE UNCHANGED vars
  BY <1>12 DEF vars, restorers, AllFine, Fine
<1> QED
  BY <1>4, <1>5, <1>6, <1>7, <1>8, <1>9, <1>10, <1>11, <1>12 DEF Next, Pass

\* The conjunction that is inductive.
Sound == TypeOK /\ Together /\ AllFine

\* What is fine is allowed.
LEMMA FineIsAllowed == TypeOK /\ AllFine => NothingInvented
<1> SUFFICES ASSUME TypeOK, AllFine, NEW f \in vpp
             PROVE  f \in Allowed \/ \E g \in Saved["lcps"] : SamePair(f, g)
  BY DEF NothingInvented
<1>1. f \in Fact /\ Fine(f)
  BY DEF TypeOK, AllFine
<1>2. CASE f \in Saved["ifs"] \cup Saved["bonds"]
  BY <1>2 DEF Allowed
<1>3. CASE f.kind = "up" /\ \E g \in Saved["bonds"] : f.of = EntryOf(g) \/ f.of = g.of
  <2>1. f = Up(f.of)
    BY <1>1, <1>3, FactIs
  <2> QED
    BY <1>3, <2>1 DEF Allowed
<1>4. CASE DefaultsFilled /\ f.kind = "mtu" /\ f.val = YangMtu
  <2>1. f = Mtu(f.of, YangMtu) /\ f.of \in Ifs
    BY <1>1, <1>4 DEF Fact, Mtu, Ifs
  <2> QED
    BY <1>4, <2>1 DEF Allowed
<1>5. f.kind \in {"exists", "up", "addr", "mtu", "member", "lcp"}
  BY <1>1 DEF Fact
<1> QED
  BY <1>1, <1>2, <1>3, <1>4, <1>5 DEF Fine

\* A machine that has just booted is sound.
LEMMA InitSound == Init => Sound
<1> SUFFICES ASSUME Init PROVE Sound
  OBVIOUS
<1>1. TypeOK
  BY InitType
<1>2. Together
  BY SavedShape, BootClosed, EmptyWellRead DEF Init, Together
<1>3. \A f \in Boot : Fine(f)
  BY SavedShape DEF Closed, ReadList, Of, Boot, Exists, Fine
<1>4. ASSUME NEW l \in Lists, NEW f \in Saved[l] PROVE Fine(f)
  <2>1. CASE l = "ifs"
    BY <1>4, <2>1, SavedShape DEF WellRead, Fine
  <2>2. CASE l = "bonds"
    BY <1>4, <2>2, SavedShape DEF WellRead, Fine, ReadBonds, ReadList, Of
  <2>3. CASE l = "lcps"
    BY <1>4, <2>3, SavedShape DEF WellRead, Fine, SamePair
  <2>4. CASE l = "subifs"
    BY <1>4, <2>4, RestoreAssumption, SnapshotShape, SavedShape
  <2> QED
    BY <2>1, <2>2, <2>3, <2>4 DEF Lists
<1> QED
  BY <1>1, <1>2, <1>3, <1>4 DEF Init, Sound, AllFine, Empty, Fine

\* Soundness is inductive.
LEMMA SoundPreserved == Sound /\ [Next]_vars => Sound'
BY TypePreserved, TogetherPreserved, FinePreserved DEF Sound

\* THEOREM.  Nothing gets into VPP that the file at boot did not have, but bonds
\* and their members being up: for every saved configuration, however often VPP
\* or the backend dies, and whatever commits and the two restorers interleave.
THEOREM NothingInventedEver == Spec => []NothingInvented
<1>1. Sound => NothingInvented
  BY FineIsAllowed DEF Sound
<1> QED
  BY <1>1, InitSound, SoundPreserved, PTL DEF Spec

-----------------------------------------------------------------------------
(* An undisturbed pass of the backend.                                         *)

\* The section of the file whose commands put f back.
SectionOf(f) ==
  CASE f.kind = "lcp" -> "lcps"
    [] f.kind = "member" \/ (f.kind = "exists" /\ f.of \in Bonds) -> "bonds"
    [] OTHER -> "ifs"

Later(ph, sec) ==
  (ph = "bonds" /\ sec \in {"lcps", "ifs"}) \/ (ph = "lcps" /\ sec = "ifs")

\* The backend has yet to issue the command for f.
Ahead(f) ==
  \/ Later(phase["backend"], SectionOf(f))
  \/ /\ phase["backend"] = SectionOf(f)
     /\ EntryOf(f) \in names["backend"] \/ f \in todo["backend"]

InPass == whole /\ phase["backend"] \in Sections \cup {"up"}

\* During a pass VPP runs; the entry in hand is no longer listed; what the
\* backend's copy of the file has is back or ahead; and what the file has, too,
\* unless the backend's copy still has it.
PassInv ==
  /\ whole => vppUp
  /\ \A f \in todo["backend"] :
       SectionOf(f) = phase["backend"] => EntryOf(f) \notin names["backend"]
  /\ InPass => \A f \in Restorable(held) : Back(f) \/ Ahead(f)
  /\ InPass => \A f \in Restorable(file) : Back(f) \/ f \in Restorable(held)

\* What is restorable, by the section that restores it.
LEMMA RestorableShape ==
  ASSUME NEW c \in Contents, WellRead(c), NEW f \in Restorable(c)
  PROVE  /\ f \in Fact /\ f.kind # "mtu"
         /\ SectionOf(f) \in Sections /\ f \in c[SectionOf(f)]
         /\ SectionOf(f) = "lcps" => f.kind = "lcp" /\ f.of \notin Loops \cup Subs
         /\ SectionOf(f) = "bonds" => f.kind = "member" \/ f = Exists(f.of)
         /\ SectionOf(f) = "ifs" => /\ f.kind \in {"exists", "up", "addr"}
                                    /\ Base(f.of) \notin Loops /\ f.of \notin Loops
                                    /\ f.kind = "exists" => f.of \notin Bonds
<1>1. c["ifs"] \in SUBSET Fact /\ c["bonds"] \in SUBSET Fact /\ c["lcps"] \in SUBSET Fact
  BY DEF Contents, Lists
<1>2. CASE f \in c["ifs"] /\ f.kind \in {"exists", "up", "addr"} /\ Base(f.of) \notin Loops
  <2>1. f.of \notin Loops
    BY <1>2, NamesAssumption DEF Base
  <2>2. CASE f.kind = "exists" /\ f.of \in Bonds
    <3>1. f = Exists(f.of) /\ f \in c["bonds"]
      BY <1>1, <1>2, <2>2, FactIs DEF WellRead
    <3> QED
      BY <1>1, <2>2, <3>1 DEF SectionOf, Sections
  <2>3. CASE ~(f.kind = "exists" /\ f.of \in Bonds)
    BY <1>1, <1>2, <2>1, <2>3 DEF SectionOf, Sections
  <2> QED
    BY <2>2, <2>3
<1>3. CASE f \in c["bonds"]
  <2>1. (f.kind = "exists" /\ f.of \in Bonds) \/ f.kind = "member"
    BY <1>3 DEF WellRead
  <2>2. SectionOf(f) = "bonds"
    BY <2>1 DEF SectionOf
  <2> QED
    BY <1>1, <1>3, <2>1, <2>2, FactIs DEF Sections
<1>4. CASE f \in c["lcps"] /\ f.of \notin Loops \cup Subs
  <2>1. f.kind = "lcp" /\ SectionOf(f) = "lcps"
    BY <1>4 DEF WellRead, SectionOf
  <2> QED
    BY <1>1, <1>4, <2>1 DEF Sections
<1> QED
  BY <1>2, <1>3, <1>4 DEF Restorable

\* Establishing a fact takes nothing away but MTUs, and puts an accepted one there.
LEMMA EstablishKeeps ==
  ASSUME NEW v, NEW f
  PROVE  /\ \A g \in v : g.kind # "mtu" => g \in Establish(v, f)
         /\ Accepts(v, f) => f \in Establish(v, f)
BY DEF Establish, Superseded

\* What is back stays back when VPP loses nothing but MTUs.
LEMMA BackKept ==
  ASSUME \A g \in vpp : g.kind # "mtu" => g \in vpp',
         NEW f, f.kind # "mtu", Back(f)
  PROVE  Back(f)'
BY DEF Back, SamePair

\* The commit of an operator takes nothing of what is saved away: all addresses
\* are those of the one saved file, and what VPP has up is up in the new one.
LEMMA CommitKeeps ==
  ASSUME Sound, Commit, vppUp, NEW g \in vpp, g.kind # "mtu"
  PROVE  g \in vpp'
<1>1. CASE phase["backend"] # "up"
  BY <1>1 DEF Commit
<1>2. CASE phase["backend"] = "up"
  <2>1. /\ running' = file'["ifs"] /\ vpp' = Transact(vpp, running, running')
        /\ file' \in Snapshots(vpp)
    BY <1>2 DEF Commit
  <2>2. ReadList(vpp) \subseteq running' /\ running' \subseteq vpp
    BY <2>1, SnapshotShape DEF Sound, TypeOK
  <2>3. DeletedAddresses(running, running') = {}
    <3> SUFFICES ASSUME NEW f \in running, NEW h \in running', SameSlot(f, h), f \notin running'
                 PROVE  FALSE
      BY DEF DeletedAddresses, Of
    <3>1. f \in Saved["ifs"] /\ h \in Saved["ifs"]
      BY <2>2 DEF Sound, AllFine, Fine, SameSlot
    <3> QED
      BY <3>1, SavedShape
  <2>4. g \notin ShutDown(vpp, running')
    <3>1. \A j : Up(j) \in vpp => Up(j) \in running'
      BY <2>2 DEF ReadList, Of, Up
    <3> QED
      BY <3>1 DEF ShutDown
  <2> QED
    BY <2>1, <2>3, <2>4 DEF Transact
<1> QED
  BY <1>1, <1>2

\* After the bonds every link but the sub-interfaces and loopbacks of the
\* backend's copy is in VPP.
LEMMA LinksThere ==
  ASSUME Sound, PassInv, InPass, phase["backend"] # "bonds",
         NEW i \in Phys \cup Bonds, Exists(i) \in held["ifs"]
  PROVE  Present(vpp, i)
<1>1. CASE i \in Phys
  BY <1>1 DEF Sound, Together, Closed, Boot, Present
<1>2. CASE i \in Bonds
  <2>1. Exists(i) \in Restorable(held)
    BY <1>2 DEF Sound, Together, WellRead, Restorable
  <2>2. SectionOf(Exists(i)) = "bonds"
    BY <1>2 DEF SectionOf, Exists
  <2>3. Back(Exists(i))
    BY <2>1, <2>2 DEF PassInv, InPass, Ahead, Later
  <2> QED
    BY <2>3 DEF Back, SamePair, Exists, Present
<1> QED
  BY <1>1, <1>2

\* VPP does not reject the command whose turn it is, unless what it asks for is
\* there: what the fact needs comes earlier in the pass.
LEMMA IssuedIsBack ==
  ASSUME Sound, PassInv, InPass, NEW f \in todo["backend"], f \in Restorable(held),
         SectionOf(f) = phase["backend"],
         \A g \in todo["backend"] : ~Precedes(g, f),
         vpp' = Establish(vpp, f)
  PROVE  Back(f)'
<1>1. /\ held \in Contents /\ WellRead(held) /\ Closed(vpp) /\ vpp \in SUBSET Fact
      /\ \A g \in vpp : Fine(g)
      /\ Fine(f)
  BY DEF Sound, TypeOK, Contents, Together, AllFine, Restorers
<1>2. /\ f \in Fact /\ f.kind # "mtu" /\ f \in held[SectionOf(f)] /\ SectionOf(f) \in Sections
      /\ SectionOf(f) = "lcps" => f.kind = "lcp" /\ f.of \notin Loops \cup Subs
      /\ SectionOf(f) = "bonds" => f.kind = "member" \/ f = Exists(f.of)
      /\ SectionOf(f) = "ifs" => /\ f.kind \in {"exists", "up", "addr"}
                                 /\ Base(f.of) \notin Loops /\ f.of \notin Loops
                                 /\ f.kind = "exists" => f.of \notin Bonds
  BY <1>1, RestorableShape
<1>3. /\ Back(f) => Back(f)'
      /\ Accepts(vpp, f) => Back(f)'
  BY <1>2, EstablishKeeps, BackKept DEF Back
<1>4. CASE SectionOf(f) = "bonds"
  <2>1. CASE f.kind = "member"
    <3>1. f.of \in Phys /\ f.val \in Bonds /\ Exists(f.val) \in held["bonds"]
      BY <1>1, <1>2, <1>4, <2>1, FactIs DEF WellRead, EntryOf
    <3>2. Exists(f.val) \in Restorable(held) /\ SectionOf(Exists(f.val)) = "bonds"
      BY <3>1 DEF Restorable, SectionOf, Exists
    <3>3. Exists(f.val) \notin todo["backend"]
      BY <3>1, NamesAssumption DEF Precedes, Exists
    <3>4. f.val \notin names["backend"]
      BY <2>1 DEF PassInv, EntryOf
    <3>5. Back(Exists(f.val))
      BY <1>4, <3>2, <3>3, <3>4 DEF PassInv, Ahead, Later, EntryOf, Exists
    <3>6. Present(vpp, f.val)
      BY <3>5 DEF Back, SamePair, Exists, Present
    <3>7. CASE \E g \in vpp : g.kind = "member" /\ g.of = f.of
      BY <1>1, <1>3, <2>1, <3>7, SavedShape DEF Fine, ReadBonds, Back
    <3>8. CASE \A g \in vpp : g.kind = "member" => g.of # f.of
      BY <1>3, <2>1, <3>1, <3>6, <3>8 DEF Accepts, Of
    <3> QED
      BY <3>7, <3>8
  <2>2. CASE f.kind # "member"
    <3>1. f.kind = "exists" /\ f.of \in Bonds
      BY <1>4, <2>2 DEF SectionOf
    <3> QED
      BY <1>3, <3>1, NamesAssumption DEF Accepts
  <2> QED
    BY <2>1, <2>2
<1>5. CASE SectionOf(f) = "lcps"
  <2>1. Exists(f.of) \in held["ifs"] /\ f.of \in Phys \cup Bonds
    BY <1>1, <1>2, <1>5, FactOf DEF WellRead, Ifs
  <2>2. Present(vpp, f.of)
    BY <1>5, <2>1, LinksThere
  <2>3. CASE \E g \in vpp : g.kind = "lcp" /\ g.of = f.of
    <3>1. PICK g \in vpp : g.kind = "lcp" /\ g.of = f.of
      BY <2>3
    <3>2. PICK g0 \in Saved["lcps"] : SamePair(g, g0)
      BY <1>1, <3>1 DEF Fine
    <3>3. PICK f0 \in Saved["lcps"] : SamePair(f, f0)
      BY <1>1, <1>2, <1>5 DEF Fine
    <3>4. SamePair(f0, g0)
      BY <3>1, <3>2, <3>3, SavedShape DEF SamePair
    <3>5. SamePair(f, g)
      BY <3>2, <3>3, <3>4 DEF SamePair
    <3> QED
      BY <1>3, <3>1, <3>5 DEF Back
  <2>4. CASE \A g \in vpp : g.kind = "lcp" => g.of # f.of
    BY <1>2, <1>3, <1>5, <2>2, <2>4 DEF Accepts, Of
  <2> QED
    BY <2>3, <2>4
<1>6. CASE SectionOf(f) = "ifs"
  <2>1. /\ Exists(f.of) \in held["ifs"]
        /\ f.of \in Subs => Exists(Parent[f.of]) \in held["ifs"]
    BY <1>1, <1>2, <1>6 DEF WellRead
  <2>2. f.of \in Phys \cup Bonds => Present(vpp, f.of)
    BY <1>6, <2>1, LinksThere
  <2>3. f.of \in Subs => Present(vpp, Parent[f.of])
    BY <1>2, <1>6, <2>1, LinksThere, NamesAssumption DEF Base
  <2>4. CASE f.kind = "exists"
    BY <1>3, <2>3, <2>4 DEF Accepts
  <2>5. CASE f.kind \in {"up", "addr"} /\ f.of \in Subs
    <3>1. Exists(f.of) \in Restorable(held) /\ SectionOf(Exists(f.of)) = "ifs"
      BY <1>2, <1>6, <2>1, <2>5, NamesAssumption DEF Restorable, SectionOf, Exists
    <3>2. Exists(f.of) \notin todo["backend"]
      BY <2>5 DEF Precedes, Exists, Rank
    <3>3. f.of \notin names["backend"]
      BY <2>5 DEF PassInv, EntryOf
    <3>4. Back(Exists(f.of))
      BY <1>6, <3>1, <3>2, <3>3 DEF PassInv, Ahead, Later, EntryOf, Exists
    <3>5. Present(vpp, f.of)
      BY <3>4 DEF Back, SamePair, Exists, Present
    <3> QED
      BY <1>3, <2>5, <3>5 DEF Accepts
  <2>6. CASE f.kind \in {"up", "addr"} /\ f.of \notin Subs
    <3>1. f.of \in Phys \cup Bonds
      BY <1>2, <1>6, <2>6, FactOf DEF Ifs
    <3> QED
      BY <1>3, <2>2, <2>6, <3>1 DEF Accepts
  <2> QED
    BY <1>2, <1>6, <2>4, <2>5, <2>6
<1> QED
  BY <1>2, <1>4, <1>5, <1>6 DEF Sections

\* The commands for an entry are that entry's, as far as its section goes.
LEMMA EntryCommands ==
  ASSUME Sound, NEW n, NEW f \in Commands("backend", n, held),
         SectionOf(f) = phase["backend"], Working("backend")
  PROVE  EntryOf(f) = n
<1>1. CASE phase["backend"] = "bonds"
  <2>1. f.kind = "member" \/ f.kind = "exists"
    BY <1>1 DEF SectionOf
  <2>2. f.kind = "member" => f.val = n
    BY <1>1 DEF Commands, BondCommands, Of, Exists, Up
  <2>3. f.kind = "exists" => f = Exists(n)
    BY <1>1 DEF Commands, BondCommands, Of, Up
  <2> QED
    BY <2>1, <2>2, <2>3 DEF EntryOf, Exists
<1>2. CASE phase["backend"] # "bonds"
  <2>1. f.of = n
    BY <1>2 DEF Commands
  <2>2. f.kind # "member"
    BY <1>2 DEF SectionOf
  <2> QED
    BY <2>1, <2>2 DEF EntryOf
<1> QED
  BY <1>1, <1>2

\* They are all the section needs: only physical interfaces are not created.
LEMMA CommandsCover ==
  ASSUME Sound, InPass, NEW f \in Restorable(held), ~Back(f),
         SectionOf(f) = phase["backend"]
  PROVE  f \in Commands("backend", EntryOf(f), held)
<1>1. /\ held \in Contents /\ WellRead(held) /\ Closed(vpp)
  BY DEF Sound, TypeOK, Contents, Together
<1>2. /\ f \in Fact /\ f \in held[SectionOf(f)] /\ SectionOf(f) \in Sections
      /\ SectionOf(f) = "lcps" => f.kind = "lcp"
      /\ SectionOf(f) = "bonds" => f.kind = "member" \/ f = Exists(f.of)
      /\ SectionOf(f) = "ifs" => /\ f.kind \in {"exists", "up", "addr"}
                                 /\ f.of \notin Loops
                                 /\ f.kind = "exists" => f.of \notin Bonds
  BY <1>1, RestorableShape
<1>3. CASE SectionOf(f) = "bonds"
  <2>1. Commands("backend", EntryOf(f), held) = BondCommands(EntryOf(f), held)
    BY <1>3 DEF Commands
  <2>2. CASE f.kind = "member"
    BY <1>2, <1>3, <2>1, <2>2 DEF BondCommands, Of, EntryOf
  <2>3. CASE f.kind # "member"
    BY <1>2, <1>3, <2>1, <2>3 DEF BondCommands, EntryOf
  <2> QED
    BY <2>2, <2>3
<1>4. CASE SectionOf(f) = "lcps"
  BY <1>2, <1>4 DEF Commands, EntryOf
<1>5. CASE SectionOf(f) = "ifs"
  <2>1. f.kind = "exists" => f.of \in Subs
    <3>1. f.kind = "exists" /\ f.of \in Phys => f \in vpp
      BY <1>1, <1>2, FactIs DEF Closed, Boot
    <3> QED
      BY <1>2, <1>5, <3>1, FactOf DEF Ifs, Back
  <2>2. Replays("backend", f)
    BY <1>2, <1>5, <2>1 DEF Replays
  <2> QED
    BY <1>2, <1>5, <2>2 DEF Commands, EntryOf
<1> QED
  BY <1>2, <1>3, <1>4, <1>5 DEF Sections

\* While the backend does not move, what it had back or ahead it still has.
LEMMA BackendWaits ==
  ASSUME Sound, Sound', PassInv,
         UNCHANGED <<vppUp, whole, held>>, phase'["backend"] = phase["backend"],
         names'["backend"] = names["backend"], todo'["backend"] = todo["backend"],
         whole => \A g \in vpp : g.kind # "mtu" => g \in vpp',
         file' = file \/ \A f \in Restorable(file') : Back(f)
  PROVE  PassInv'
<1>1. /\ held \in Contents /\ WellRead(held) /\ file \in Contents /\ WellRead(file)
      /\ file' \in Contents /\ WellRead(file')
  BY DEF Sound, TypeOK, Contents, Together
<1>2. \A f \in Restorable(held) \cup Restorable(file) \cup Restorable(file') : f.kind # "mtu"
  BY <1>1, RestorableShape
<1>3. whole' => vppUp'
  BY DEF PassInv
<1>4. \A f \in todo'["backend"] :
        SectionOf(f) = phase'["backend"] => EntryOf(f) \notin names'["backend"]
  BY DEF PassInv
<1>5. Restorable(held)' = Restorable(held) /\ Restorable(file)' = Restorable(file')
  BY DEF Restorable
<1>6. InPass' => InPass
  BY DEF InPass
<1>7. ASSUME InPass', NEW f \in Restorable(held) PROVE Back(f)' \/ Ahead(f)'
  <2>1. CASE Back(f)
    BY <1>2, <1>6, <1>7, <2>1, BackKept DEF InPass
  <2>2. CASE Ahead(f)
    BY <2>2 DEF Ahead
  <2> QED
    BY <1>6, <1>7, <2>1, <2>2 DEF PassInv
<1>8. ASSUME InPass', NEW f \in Restorable(file') PROVE Back(f)' \/ f \in Restorable(held)
  <2>1. CASE file' = file
    <3>1. Back(f) \/ f \in Restorable(held)
      BY <1>6, <1>8, <2>1 DEF PassInv
    <3> QED
      BY <1>2, <1>6, <1>8, <2>1, <3>1, BackKept DEF InPass
  <2>2. CASE \A g \in Restorable(file') : Back(g)
    BY <1>2, <1>6, <1>8, <2>2, BackKept DEF InPass
  <2> QED
    BY <2>1, <2>2
<1> QED
  BY <1>3, <1>4, <1>5, <1>7, <1>8 DEF PassInv

\* The pass of the backend keeps the invariant.
LEMMA BackendPass ==
  ASSUME Sound, Sound', PassInv, Pass("backend")
  PROVE  PassInv'
<1>1. /\ held \in Contents /\ WellRead(held) /\ file \in Contents /\ WellRead(file)
      /\ "backend" \in Restorers
  BY DEF Sound, TypeOK, Contents, Together, Restorers
<1>2. CASE PickEntry("backend")
  <2>1. PICK n \in names["backend"] :
          /\ names' = [names EXCEPT !["backend"] = @ \ {n}]
          /\ todo' = [todo EXCEPT !["backend"] = Commands("backend", n, held)]
    BY <1>2 DEF PickEntry, Seen
  <2>2. /\ names'["backend"] = names["backend"] \ {n}
        /\ todo'["backend"] = Commands("backend", n, held)
        /\ todo["backend"] = {} /\ Working("backend")
    BY <1>1, <1>2, <2>1 DEF PickEntry, Sound, TypeOK
  <2>3. ASSUME NEW f \in Commands("backend", n, held), SectionOf(f) = phase["backend"]
        PROVE  EntryOf(f) = n
    BY <2>2, <2>3, EntryCommands DEF Sound
  <2>4. ASSUME InPass, NEW f \in Restorable(held), ~Back(f),
               SectionOf(f) = phase["backend"], EntryOf(f) = n
        PROVE  f \in Commands("backend", n, held)
    BY <2>4, CommandsCover DEF Sound
  <2>5. ASSUME InPass, NEW f \in Restorable(held) PROVE Back(f)' \/ Ahead(f)'
    <3>1. CASE Back(f)
      BY <1>2, <3>1 DEF PickEntry, Back
    <3>2. CASE ~Back(f)
      BY <1>2, <2>2, <2>4, <2>5, <3>2 DEF PickEntry, PassInv, Ahead
    <3> QED
      BY <3>1, <3>2
  <2>6. UNCHANGED <<vpp, vppUp, file, phase, held, whole>>
    BY <1>2 DEF PickEntry
  <2>7. Restorable(held)' = Restorable(held) /\ Restorable(file)' = Restorable(file)
    BY <2>6 DEF Restorable
  <2>8. (InPass' => InPass) /\ \A f : Back(f)' = Back(f)
    BY <2>6 DEF InPass, Back
  <2> QED
    BY <2>2, <2>3, <2>5, <2>6, <2>7, <2>8 DEF PassInv
<1>3. CASE Issue("backend")
  <2>1. UNCHANGED <<vppUp, file, phase, names, held, whole>>
    BY <1>3 DEF Issue
  <2>2. PICK f \in todo["backend"] :
           /\ \A g \in todo["backend"] : ~Precedes(g, f)
           /\ todo' = [todo EXCEPT !["backend"] = @ \ {f}]
           /\ vpp' = Establish(vpp, f) \/ vpp' = vpp
           /\ vppUp => vpp' = Establish(vpp, f)
    BY <1>1, <1>3, IssueShape
  <2>3. todo'["backend"] = todo["backend"] \ {f}
    BY <1>1, <2>2 DEF Sound, TypeOK
  <2>4. \A g \in vpp : g.kind # "mtu" => g \in vpp'
    BY <2>2, EstablishKeeps
  <2>5. Restorable(held)' = Restorable(held) /\ Restorable(file)' = Restorable(file)
        /\ InPass' = InPass
    BY <2>1 DEF Restorable, InPass
  <2>6. \A g \in Restorable(held) \cup Restorable(file) : Back(g) => Back(g)'
    BY <1>1, <2>4, RestorableShape, BackKept
  <2>7. ASSUME InPass, NEW g \in Restorable(held) PROVE Back(g)' \/ Ahead(g)'
    <3>1. CASE g = f /\ SectionOf(f) = phase["backend"]
      BY <2>2, <2>7, <3>1, IssuedIsBack DEF PassInv, InPass
    <3>2. CASE ~(g = f /\ SectionOf(f) = phase["backend"])
      BY <2>1, <2>3, <2>6, <2>7, <3>2 DEF PassInv, Ahead
    <3> QED
      BY <3>1, <3>2
  <2> QED
    BY <2>1, <2>3, <2>5, <2>6, <2>7 DEF PassInv
<1>4. CASE EndSection("backend")
  <2>1. /\ UNCHANGED <<vpp, vppUp, file, whole>>
        /\ names["backend"] = {} /\ todo["backend"] = {} /\ phase["backend"] \in Sections
        /\ held' \in {held, file}
        /\ Enter("backend", NextPhase("backend")[phase["backend"]], held')
    BY <1>4 DEF EndSection, Working
  <2> DEFINE ph == NextPhase("backend")[phase["backend"]]
  <2>2. /\ phase'["backend"] = ph /\ todo'["backend"] = {}
        /\ names'["backend"] = IF ph \in Sections THEN Entries(held', ph) ELSE {}
    BY <1>1, <2>1 DEF Enter, Sound, TypeOK
  <2>3. /\ phase["backend"] = "bonds" => ph = "lcps"
        /\ phase["backend"] = "lcps" => ph = "ifs"
        /\ phase["backend"] = "ifs" => ph = "up"
    BY DEF NextPhase
  <2>4. InPass' => InPass
    BY <2>1 DEF InPass
  <2>5. \A f : Back(f)' = Back(f)
    BY <2>1 DEF Back
  <2>6. Restorable(held)' = Restorable(held') /\ Restorable(file)' = Restorable(file)
    BY <2>1 DEF Restorable
  <2>7. ASSUME InPass, NEW f \in Restorable(held')
        PROVE  Back(f) \/ Later(phase["backend"], SectionOf(f))
    <3>1. Back(f) \/ f \in Restorable(held)
      BY <2>1, <2>7 DEF PassInv
    <3> QED
      BY <2>1, <2>7, <3>1 DEF PassInv, Ahead
  <2>8. ASSUME InPass, NEW f \in Restorable(held'), Later(phase["backend"], SectionOf(f))
        PROVE  Ahead(f)'
    <3>1. f \in held'[SectionOf(f)] /\ SectionOf(f) \in Sections
      BY <1>1, <2>1, <2>8, RestorableShape
    <3>2. EntryOf(f) \in Entries(held', SectionOf(f))
      BY <3>1 DEF Entries
    <3>3. Later(ph, SectionOf(f)) \/ ph = SectionOf(f)
      BY <2>3, <2>8 DEF Later
    <3> QED
      BY <2>2, <3>1, <3>2, <3>3 DEF Ahead
  <2>9. \A f \in Restorable(file) : InPass => Back(f) \/ f \in Restorable(held')
    BY <2>1 DEF PassInv
  <2> HIDE DEF ph
  <2> QED
    BY <2>1, <2>2, <2>4, <2>5, <2>6, <2>7, <2>8, <2>9 DEF PassInv
<1> QED
  BY <1>2, <1>3, <1>4 DEF Pass

\* What is restorable of the file of a commit is in VPP when it is read.
LEMMA SnapshotBack ==
  ASSUME Sound, NEW c \in Snapshots(vpp), NEW f \in Restorable(c)
  PROVE  Back(f)
BY SnapshotShape DEF Sound, TypeOK, Restorable, ReadBonds, Back

\* The invariant of the pass is kept by every step.
LEMMA PassPreserved == Sound /\ Sound' /\ PassInv /\ [Next]_vars => PassInv'
<1> SUFFICES ASSUME Sound, Sound', PassInv, [Next]_vars PROVE PassInv'
  OBVIOUS
<1>1. "backend" \in Restorers /\ "loader" \in Restorers /\ Restorers = {"backend", "loader"}
  BY DEF Restorers
<1>2. CASE Pass("backend")
  BY <1>2, BackendPass
<1>3. CASE Pass("loader")
  <2>1. /\ UNCHANGED <<vppUp, whole, held, file>> /\ phase'["backend"] = phase["backend"]
        /\ names'["backend"] = names["backend"] /\ todo'["backend"] = todo["backend"]
    BY <1>1, <1>3 DEF Pass, PickEntry, Issue, EndSection, Enter, Sound, TypeOK
  <2>2. \A g \in vpp : g.kind # "mtu" => g \in vpp'
    <3>1. CASE Issue("loader")
      BY <1>1, <3>1, IssueShape, EstablishKeeps
    <3>2. CASE ~Issue("loader")
      BY <1>3, <3>2 DEF Pass, PickEntry, EndSection
    <3> QED
      BY <3>1, <3>2
  <2> QED
    BY <2>1, <2>2, BackendWaits
<1>4. CASE LoaderStart \/ LoaderWait
  <2>1. /\ UNCHANGED <<vpp, vppUp, whole, held, file>> /\ phase'["backend"] = phase["backend"]
        /\ names'["backend"] = names["backend"] /\ todo'["backend"] = todo["backend"]
    BY <1>1, <1>4 DEF LoaderStart, LoaderWait, Enter, Sound, TypeOK
  <2> QED
    BY <2>1, BackendWaits
<1>5. CASE StartBackend \/ FollowVpp \/ RestartBackend \/ StopBackend \/ BackendFails
  <2>1. /\ UNCHANGED <<vppUp, whole>> /\ todo'["backend"] = {}
        /\ phase'["backend"] \in {"connect", "stopped", "down"}
    BY <1>1, <1>5 DEF StartBackend, FollowVpp, RestartBackend, Launch, StopBackend,
       BackendFails, Enter, Sound, TypeOK
  <2>2. ~InPass'
    BY <2>1 DEF InPass, Sections
  <2> QED
    BY <2>1, <2>2 DEF PassInv
<1>6. CASE BackendConnect /\ vppUp
  <2>1. /\ UNCHANGED <<vpp, vppUp, file>> /\ held' = file
        /\ phase'["backend"] = "bonds" /\ todo'["backend"] = {}
        /\ names'["backend"] = Entries(file, "bonds")
    BY <1>1, <1>6 DEF BackendConnect, Enter, Sections, Sound, TypeOK
  <2>2. ASSUME NEW f \in Restorable(file) PROVE Ahead(f)'
    <3>1. f \in file[SectionOf(f)] /\ SectionOf(f) \in Sections
      BY <2>2, RestorableShape DEF Sound, TypeOK, Together, Contents
    <3>2. EntryOf(f) \in Entries(file, SectionOf(f))
      BY <3>1 DEF Entries
    <3> QED
      BY <2>1, <3>1, <3>2 DEF Ahead, Later, Sections
  <2>3. Restorable(held)' = Restorable(file) /\ Restorable(file)' = Restorable(file)
    BY <2>1 DEF Restorable
  <2> QED
    BY <1>6, <2>1, <2>2, <2>3 DEF PassInv
<1>7. CASE BackendConnect /\ ~vppUp
  <2>1. ~whole' /\ phase'["backend"] = "up" /\ todo'["backend"] = {}
    BY <1>1, <1>7 DEF BackendConnect, Enter, Sections, Sound, TypeOK
  <2> QED
    BY <2>1 DEF PassInv, InPass
<1>8. CASE VppCrash
  BY <1>8 DEF VppCrash, restorers, PassInv, InPass
<1>9. CASE VppStart
  <2>1. ~InPass'
    BY <1>9 DEF VppStart, restorers, InPass, Sections
  <2> QED
    BY <1>9, <2>1 DEF VppStart, restorers, PassInv
<1>10. CASE Commit
  <2>1. UNCHANGED <<vppUp, whole, held, phase, names, todo>>
    BY <1>10 DEF Commit, restorers
  <2>2. whole => \A g \in vpp : g.kind # "mtu" => g \in vpp'
    BY <1>10, CommitKeeps DEF PassInv
  <2>3. \A f \in Restorable(file') : Back(f)
    <3>1. CASE vppUp
      BY <1>10, <3>1, SnapshotBack DEF Commit
    <3>2. CASE ~vppUp
      BY <1>10, <3>2 DEF Commit, Restorable, Empty, Lists
    <3> QED
      BY <3>1, <3>2
  <2> QED
    BY <2>1, <2>2, <2>3, BackendWaits
<1>11. CASE UNCHANGED vars
  BY <1>11, BackendWaits DEF vars, restorers
<1> QED
  BY <1>1, <1>2, <1>3, <1>4, <1>5, <1>6, <1>7, <1>8, <1>9, <1>10, <1>11 DEF Next

\* THEOREM.  When the backend is through with a pass during which VPP did not die,
\* what is restorable of vpp_config.xml is in VPP: VPP rejects no command whose
\* turn it is, and neither the script nor commits take anything away.
THEOREM PassRestoresAlways == Spec => []PassRestores
<1>1. Init => Sound /\ PassInv
  BY InitSound DEF Init, PassInv, InPass, Restorers
<1>2. Sound /\ PassInv /\ [Next]_vars => Sound' /\ PassInv'
  BY SoundPreserved, PassPreserved
<1>3. Sound /\ PassInv => PassRestores
  <2> SUFFICES ASSUME Sound, PassInv, phase["backend"] = "up", whole,
                      NEW f \in Restorable(file)
               PROVE  Back(f)
    BY DEF PassRestores
  <2>1. \A g \in Restorable(held) : SectionOf(g) # "up"
    BY RestorableShape DEF Sound, TypeOK, Together, Contents, Sections
  <2>2. \A g \in Restorable(held) : ~Ahead(g)
    BY <2>1 DEF Ahead, Later
  <2> QED
    BY <2>2 DEF PassInv, InPass
<1> QED
  BY <1>1, <1>2, <1>3, PTL DEF Spec

=============================================================================
