-------------------------- MODULE CommitWindow_proofs --------------------------
(***************************************************************************)
(* The commits of any number of sessions are the saves of SavedConfig:     *)
(* however they overlap, disturbed or cut short, for any hardware and any  *)
(* faults.                                                                 *)
(***************************************************************************)
EXTENDS CommitWindow, CommitSaves_proofs

\* The sessions behave as in CliSession: what is proved there may be used here.  (That
\* the two histories restrict nothing is plain from their definitions -- each step
\* gives them the values of a function -- and is not what this says.)
LEMMA WindowIsSpec == SpecWindow => Spec
<1>1. InitWindow => Init
  BY DEF InitWindow
<1>2. [NextWindow]_windowVars => [Next]_vars
  BY DEF NextWindow, windowVars
<1> QED
  BY <1>1, <1>2, PTL DEF SpecWindow, Spec

-----------------------------------------------------------------------------
(* The words of SavedConfig mean here what they mean there.                    *)

LEMMA SavedWords ==
  /\ Saved!Boot = Boot /\ Saved!Fact = Fact /\ Saved!Lists = Lists /\ Saved!Empty = Empty
  /\ \A f, p : Saved!Kept(f, p) <=> Kept(f, p)
  /\ \A f, v : Saved!ReadOf(f, v) <=>
       f \in v \/ \E g \in v : SamePair(f, g) /\ g.val[2] = None
<1>1. Saved!Boot = Boot
  BY DEF Saved!Boot, Boot, Saved!Exists, Exists
<1>2. Saved!Fact = Fact
  BY DEF Saved!Fact, Fact, Saved!Ifs, Ifs, Saved!Addrs, Addrs, Saved!Links, Links
<1>3. Saved!Lists = Lists /\ Saved!Empty = Empty
  BY DEF Saved!Lists, Lists, Saved!Empty, Empty
<1>4. \A f, g : Saved!SameSlot(f, g) <=> SameSlot(f, g)
  BY DEF Saved!SameSlot, SameSlot
<1>5. \A f, p : Saved!Kept(f, p) <=> Kept(f, p)
  BY <1>4 DEF Saved!Kept, Kept
<1>6. \A f, g : Saved!SamePair(f, g) <=> SamePair(f, g)
  BY DEF Saved!SamePair, SamePair
<1>7. \A f, v : Saved!ReadOf(f, v) <=>
        f \in v \/ \E g \in v : SamePair(f, g) /\ g.val[2] = None
  BY <1>6 DEF Saved!ReadOf
<1> QED
  BY <1>1, <1>2, <1>3, <1>5, <1>7

\* The steps of a commit, by stage.
LEMMA Stages ==
  /\ \A step \in {"list", "addrs", "bonds", "lcps"} : StageOf(step) = "reading"
  /\ StageOf("open") = "read" /\ StageOf("write") = "opened" /\ StageOf("rest") = "begun"
  /\ StageOf("idle") = "idle"
  /\ \A step \in {"edit", "commit", "copy"} : StageOf(step) = "written"
BY DEF StageOf

LEMMA StageAt ==
  /\ \A s \in Sessions : Stage[s] = StageOf(pc[s]) /\ Stage'[s] = StageOf(pc'[s])
  /\ pc' = pc => Stage' = Stage
BY DEF Stage

\* A step of s takes s, and nobody else, to the stage of its next step.
LEMMA StageMoves ==
  ASSUME StateInv, NEW s \in Sessions, \A t \in Sessions \ {s} : pc'[t] = pc[t]
  PROVE  Stage' = [Stage EXCEPT ![s] = StageOf(pc'[s])]
BY DEF Stage

-----------------------------------------------------------------------------
(* The inductive invariant.  Of what has lasted, a commit has gathered what    *)
(* the reads done so far can tell; what it has gathered was seen.              *)

ReadFrom(f, v) == f \in v \/ \E g \in v : SamePair(f, g) /\ g.val[2] = None

Window(s) ==
  /\ pc[s] = "list" => pend[s] = Empty
  /\ Stage[s] = "reading" => lasting[s] \subseteq vpp /\ vpp \subseteq seen[s]
  /\ Stage[s] \in {"reading", "read", "opened", "begun"} =>
       /\ \A f \in lasting[s] \ Boot : f \in Fact /\ Gathered(pc[s], pend[s], f)
       /\ \A l \in Lists : \A f \in pend[s][l] : ReadFrom(f, seen[s])

Windows == \A s \in Sessions : Window(s)

\* What the histories are after a step.
LEMMA Remembered ==
  ASSUME Saved!Remember, NEW s \in Sessions
  PROVE  /\ StageOf(pc'[s]) \in {"idle", "written"} => lasting'[s] = {} /\ seen'[s] = {}
         /\ StageOf(pc'[s]) \notin {"idle", "written"} =>
              /\ pc[s] = "idle" => lasting'[s] = vpp' /\ seen'[s] = vpp'
              /\ StageOf(pc[s]) = "reading" =>
                   lasting'[s] = lasting[s] \cap vpp' /\ seen'[s] = seen[s] \cup vpp'
              /\ StageOf(pc[s]) \in {"read", "opened", "begun"} =>
                   lasting'[s] = lasting[s] /\ seen'[s] = seen[s]
<1>1. lasting'[s] = Saved!Lasts(s) /\ seen'[s] = Saved!Sees(s)
  BY DEF Saved!Remember
<1> QED
  BY <1>1, StageAt, Stages DEF Saved!Lasts, Saved!Sees, Saved!Over

\* Who stays where it is keeps its window: less has lasted, more has been seen.
LEMMA WindowStays ==
  ASSUME Saved!Remember, NEW s \in Sessions, Window(s), pc'[s] = pc[s],
         pc[s] # "idle" => pend'[s] = pend[s]
  PROVE  Window(s)'
<1>1. Stage'[s] = Stage[s] /\ Stage[s] = StageOf(pc[s])
  BY StageAt
<1>2. CASE Stage[s] \notin {"reading", "read", "opened", "begun"}
  BY <1>1, <1>2, Stages DEF Window
<1>3. CASE Stage[s] \in {"reading", "read", "opened", "begun"}
  <2>1. pc[s] # "idle" /\ pend'[s] = pend[s]
    BY <1>1, <1>3, Stages
  <2>2. /\ lasting'[s] \subseteq lasting[s] /\ seen[s] \subseteq seen'[s]
        /\ Stage[s] = "reading" => lasting'[s] \subseteq vpp' /\ vpp' \subseteq seen'[s]
    BY <1>1, <1>3, Remembered
  <2>3. \A f : ReadFrom(f, seen[s]) => ReadFrom(f, seen'[s])
    BY <2>2 DEF ReadFrom
  <2> QED
    BY <1>1, <1>3, <2>1, <2>2, <2>3 DEF Window
<1> QED
  BY <1>2, <1>3

-----------------------------------------------------------------------------
(* The reads of a commit.                                                      *)

Reads(s) == SyncList(s) \/ SyncAddrs(s) \/ SyncBonds(s) \/ SyncLcps(s)

\* A read changes one list of its session, and nothing else.
LEMMA ReadFrame ==
  ASSUME StateInv, NEW s \in Sessions, Reads(s)
  PROVE  /\ UNCHANGED <<vpp, file>>
         /\ StageOf(pc[s]) = "reading" /\ pc[s] # "idle" /\ pc'[s] # "list"
         /\ StageOf(pc'[s]) \in {"reading", "read"}
<1>1. \/ pc[s] = "list" /\ pc'[s] = "addrs"
      \/ pc[s] = "addrs" /\ pc'[s] = "bonds"
      \/ pc[s] = "bonds" /\ pc'[s] = "lcps"
      \/ pc[s] = "lcps" /\ pc'[s] = "open"
  BY DEF Reads, SyncList, SyncAddrs, SyncBonds, SyncLcps, At, Goto, StateInv, StateOK
<1>2. UNCHANGED <<vpp, file>>
  BY DEF Reads, SyncList, SyncAddrs, SyncBonds, SyncLcps, storeVars
<1> QED
  BY <1>1, <1>2, Stages

\* Whatever it adds VPP has, save for the namespace of a pair that has none.
LEMMA ReadSees ==
  ASSUME StateInv, NEW s \in Sessions, Reads(s), NEW l \in Lists, NEW f \in pend'[s][l]
  PROVE  f \in pend[s][l] \/ ReadFrom(f, vpp)
<1> USE ListNames
<1>1. CASE SyncList(s)
  BY <1>1 DEF SyncList, Fill, ReadList, Of, StateInv, StateOK, ReadFrom
<1>2. CASE SyncAddrs(s)
  <2>1. PICK r : /\ IsAddrRead(r, IF vppUp THEN vpp ELSE {}, pend[s]["ifs"])
                 /\ Fill(s, "ifs", pend[s]["ifs"] \cup r)
    BY <1>2 DEF SyncAddrs
  <2>2. r \subseteq vpp
    BY <2>1 DEF IsAddrRead, Of
  <2> QED
    BY <2>1, <2>2 DEF Fill, StateInv, StateOK, ReadFrom
<1>3. CASE SyncBonds(s)
  BY <1>3 DEF SyncBonds, Fill, ReadBonds, StateInv, StateOK, ReadFrom
<1>4. CASE SyncLcps(s)
  <2>1. PICK ns \in [Ifs -> Netns \cup {None}] :
          Fill(s, "lcps", IF vppUp THEN PairRead(vpp, ns) ELSE {})
    BY <1>4 DEF SyncLcps
  <2>2. ASSUME l = "lcps", f \in PairRead(vpp, ns) PROVE ReadFrom(f, vpp)
    <3>1. PICK g \in Of(vpp, {"lcp"}) :
            f = Pair(g.of, <<g.val[1], IF g.val[2] = None THEN ns[g.of] ELSE g.val[2]>>)
      BY <2>2 DEF PairRead
    <3>2. g \in vpp /\ g.kind = "lcp"
      BY DEF Of
    <3>3. CASE g.val[2] = None
      <4>1. SamePair(f, g)
        BY <3>1, <3>2 DEF Pair, SamePair
      <4> QED
        BY <3>2, <3>3, <4>1 DEF ReadFrom
    <3>4. CASE g.val[2] # None
      <4>1. g = [kind |-> "lcp", of |-> g.of, val |-> g.val] /\ g.val = <<g.val[1], g.val[2]>>
        BY <3>2 DEF Fact, Links, StateInv, StateOK
      <4>2. f = g
        BY <3>1, <3>4, <4>1 DEF Pair
      <4> QED
        BY <3>2, <4>2 DEF ReadFrom
    <3> QED
      BY <3>3, <3>4
  <2> QED
    BY <2>1, <2>2 DEF Fill, StateInv, StateOK
<1> QED
  BY <1>1, <1>2, <1>3, <1>4 DEF Reads

\* And of a fact VPP has it gathers what it is there to read.
LEMMA ReadGathers ==
  ASSUME StateInv, Grounded, NEW s \in Sessions, Reads(s), NEW f \in vpp \ Boot,
         Gathered(pc[s], pend[s], f)
  PROVE  Gathered(pc'[s], pend'[s], f)
<1> USE ListNames
<1>1. vpp \in SUBSET Fact /\ Closed(vpp) /\ vppUp /\ f \in vpp
  BY DEF Grounded, StateInv, StateOK
<1>2. CASE SyncList(s)
  <2>1. pc'[s] = "addrs" /\ pend'[s]["ifs"] = ReadList(vpp)
    BY <1>1, <1>2 DEF SyncList, Goto, Fill, StateInv, StateOK
  <2> QED
    BY <1>1, <2>1, ListGathers
<1>3. CASE SyncAddrs(s)
  <2>1. pc[s] = "addrs" /\ pc'[s] = "bonds"
    BY <1>3 DEF SyncAddrs, At, Goto, StateInv, StateOK
  <2>2. PICK r : IsAddrRead(r, vpp, pend[s]["ifs"]) /\ Fill(s, "ifs", pend[s]["ifs"] \cup r)
    BY <1>1, <1>3 DEF SyncAddrs
  <2>3. pend'[s]["ifs"] = pend[s]["ifs"] \cup r
    BY <2>2 DEF Fill, StateInv, StateOK
  <2>4. Gathered("addrs", pend[s], f)
    BY <2>1
  <2>5. Gathered("bonds", pend'[s], f)
    BY <1>1, <2>2, <2>3, <2>4, AddrsGather
  <2> QED
    BY <2>1, <2>5
<1>4. CASE SyncBonds(s)
  <2>1. /\ pc[s] = "bonds" /\ pc'[s] = "lcps"
        /\ pend'[s]["ifs"] = pend[s]["ifs"] /\ pend'[s]["bonds"] = ReadBonds(vpp)
    BY <1>1, <1>4 DEF SyncBonds, At, Goto, Fill, StateInv, StateOK
  <2> QED
    BY <1>1, <2>1, BondsGather
<1>5. CASE SyncLcps(s)
  <2>1. /\ pc[s] = "lcps" /\ pc'[s] = "open"
        /\ pend'[s]["ifs"] = pend[s]["ifs"] /\ pend'[s]["bonds"] = pend[s]["bonds"]
    BY <1>5 DEF SyncLcps, At, Goto, Fill, StateInv, StateOK
  <2>2. PICK ns : pend'[s]["lcps"] = PairRead(vpp, ns)
    BY <1>1, <1>5 DEF SyncLcps, Fill, StateInv, StateOK
  <2> QED
    BY <1>1, <2>1, <2>2, LcpsGather
<1> QED
  BY <1>2, <1>3, <1>4, <1>5 DEF Reads

\* So a read keeps the window of its session.
LEMMA ReadKeepsWindow ==
  ASSUME StateInv, Grounded, NEW s \in Sessions, Window(s), Saved!Remember, Reads(s)
  PROVE  Window(s)'
<1>1. /\ vpp' = vpp /\ pc[s] # "idle" /\ pc'[s] # "list"
      /\ Stage[s] = "reading" /\ StageOf(pc[s]) = "reading"
      /\ Stage'[s] \in {"reading", "read"} /\ StageOf(pc'[s]) = Stage'[s]
  BY ReadFrame, StageAt
<1>2. lasting'[s] = lasting[s] \cap vpp /\ seen'[s] = seen[s] \cup vpp
  BY <1>1, Remembered
<1>3. ASSUME NEW f \in lasting'[s] \ Boot PROVE f \in Fact /\ Gathered(pc'[s], pend'[s], f)
  <2>1. f \in vpp \ Boot /\ f \in Fact /\ Gathered(pc[s], pend[s], f)
    BY <1>1, <1>2 DEF Window
  <2> QED
    BY <2>1, ReadGathers
<1>4. ASSUME NEW l \in Lists, NEW f \in pend'[s][l] PROVE ReadFrom(f, seen'[s])
  <2>1. f \in pend[s][l] \/ ReadFrom(f, vpp)
    BY ReadSees
  <2>2. ReadFrom(f, seen[s]) \/ ReadFrom(f, vpp)
    BY <1>1, <2>1 DEF Window
  <2> QED
    BY <1>2, <2>2 DEF ReadFrom
<1> QED
  BY <1>1, <1>2, <1>3, <1>4 DEF Window

\* When a commit begins everything has lasted and nothing is gathered yet.
LEMMA BeginKeepsWindow ==
  ASSUME StateInv, NEW s \in Sessions, Saved!Remember, CliVppCommit(s)
  PROVE  Window(s)'
<1>1. pc[s] = "idle" /\ pc'[s] = "list" /\ pend'[s] = Empty /\ vpp' = vpp
  BY DEF CliVppCommit, Goto, StateInv, StateOK
<1>2. StageOf(pc'[s]) = "reading" /\ Stage'[s] = "reading"
  BY <1>1, Stages, StageAt
<1>3. lasting'[s] = vpp /\ seen'[s] = vpp
  BY <1>1, <1>2, Remembered
<1>4. \A f : Gathered("list", pend'[s], f)
  BY DEF Gathered, AfterList, AfterAddrs, AfterBonds, AfterLcps
<1>5. vpp \in SUBSET Fact /\ \A l \in Lists : pend'[s][l] = {}
  BY <1>1 DEF StateInv, StateOK, Empty
<1> QED
  BY <1>1, <1>2, <1>3, <1>4, <1>5 DEF Window

\* Nothing is read any more once the file is open.
LEMMA OpenKeepsWindow ==
  ASSUME StateInv, NEW s \in Sessions, Window(s), Saved!Remember, OpenFile(s) \/ FlushBlock(s)
  PROVE  Window(s)'
<1>1. /\ pc[s] \in {"open", "write", "rest"} /\ pc'[s] \in {"write", "rest", "edit"}
      /\ pend' = pend
  BY DEF OpenFile, FlushBlock, Writing, At, Goto, StateInv, StateOK
<1>2. CASE pc'[s] = "edit"
  BY <1>2, Stages, StageAt DEF Window
<1>3. CASE pc'[s] # "edit"
  <2>1. /\ Stage[s] = StageOf(pc[s]) /\ StageOf(pc[s]) \in {"read", "opened", "begun"}
        /\ Stage'[s] = StageOf(pc'[s]) /\ StageOf(pc'[s]) \in {"opened", "begun"}
    BY <1>1, <1>3, Stages, StageAt
  <2>2. lasting'[s] = lasting[s] /\ seen'[s] = seen[s]
    BY <2>1, Remembered
  <2>3. ASSUME NEW f \in Fact, Gathered(pc[s], pend[s], f) PROVE Gathered(pc'[s], pend[s], f)
    <3>1. pc[s] \in AfterLcps /\ pc'[s] \in AfterLcps
      BY <1>1 DEF AfterLcps, AfterBonds, AfterAddrs, AfterList
    <3> QED
      BY <2>3, <3>1, AllGathered
  <2> QED
    BY <1>1, <1>3, <2>1, <2>2, <2>3 DEF Window
<1> QED
  BY <1>1, <1>2, <1>3

\* Every step keeps every window.
LEMMA WindowsPreserved ==
  ASSUME StateInv, Grounded, Windows, [NextWindow]_windowVars
  PROVE  Windows'
<1> SUFFICES ASSUME NEW t \in Sessions PROVE Window(t)'
  BY DEF Windows
<1>1. Window(t) /\ StateOK
  BY DEF Windows, StateInv
<1>2. CASE UNCHANGED windowVars
  BY <1>1, <1>2 DEF windowVars, vars, sessionVars, Window, Stage
<1> SUFFICES ASSUME NextWindow PROVE Window(t)'
  BY <1>2
<1>3. Saved!Remember
  BY DEF NextWindow
<1>4. ASSUME NEW s \in Sessions, Enter(s) \/ Edit(s) PROVE Window(t)'
  BY <1>1, <1>3, <1>4, CommandsFrame, OthersFrame, WindowStays
<1>5. ASSUME NEW s \in Sessions, s # t, Commit(s) \/ Leave(s) PROVE Window(t)'
  BY <1>1, <1>3, <1>5, OthersFrame, WindowStays
<1>6. CASE Leave(t)
  BY <1>6, LeaveFrame, Stages, StageAt DEF Window
<1>7. CASE Commit(t)
  <2>1. CASE CliVppCommit(t)
    BY <1>3, <2>1, BeginKeepsWindow
  <2>2. CASE Reads(t)
    BY <1>1, <1>3, <2>2, ReadKeepsWindow
  <2>3. CASE OpenFile(t) \/ FlushBlock(t)
    BY <1>1, <1>3, <2>3, OpenKeepsWindow
  <2>4. CASE WriteFile(t) \/ EditCandidate(t) \/ CommitRunning(t) \/ CopyStartup(t)
    <3>1. pc'[t] \in {"edit", "commit", "copy", "idle"}
      BY <2>4 DEF WriteFile, EditCandidate, CommitRunning, CopyStartup, RequestFails, Goto,
         StateInv, StateOK
    <3> QED
      BY <3>1, Stages, StageAt DEF Window
  <2> QED
    BY <1>7, <2>1, <2>2, <2>3, <2>4 DEF Commit, Reads
<1>8. CASE VppCrash \/ VppStart
  <2>1. pc' = pc /\ pend' = pend
    BY <1>8 DEF VppCrash, VppStart, sessionVars
  <2> QED
    BY <1>1, <1>3, <2>1, WindowStays
<1> QED
  BY <1>4, <1>5, <1>6, <1>7, <1>8 DEF NextWindow, Next

-----------------------------------------------------------------------------
(* Every step is a step of a save, or a change of VPP.                         *)

\* Who has the file open beside another is recorded alike.
LEMMA OpenTogether ==
  ASSUME StateInv, StateInv', Observe
  PROVE  Saved!Collide
<1>1. \A step \in CommitSteps \cup {"idle"} : StageOf(step) \in Saved!HasOpen <=> step \in Writing
  BY Stages DEF CommitSteps, Writing, Saved!HasOpen
<1>2. \A s \in Sessions : pc[s] \in CommitSteps \cup {"idle"} /\ pc'[s] \in CommitSteps \cup {"idle"}
  BY DEF StateInv, StateOK
<1>3. \A s \in Sessions :
        /\ Stage[s] \in Saved!HasOpen <=> pc[s] \in Writing
        /\ Stage'[s] \in Saved!HasOpen <=> pc'[s] \in Writing
  BY <1>1, <1>2, StageAt
<1> DEFINE Open(s)   == /\ pc'[s] \in Writing
                        /\ \/ pc[s] \in Writing /\ torn[s]
                           \/ \E t \in Sessions \ {s} : pc'[t] \in Writing
           Beside(s) == /\ Stage'[s] \in Saved!HasOpen
                        /\ \/ Stage[s] \in Saved!HasOpen /\ torn[s]
                           \/ \E t \in Sessions \ {s} : Stage'[t] \in Saved!HasOpen
<1>4. ASSUME NEW s \in Sessions PROVE Open(s) = Beside(s)
  <2>1. (\E t \in Sessions \ {s} : pc'[t] \in Writing)
          <=> \E t \in Sessions \ {s} : Stage'[t] \in Saved!HasOpen
    BY <1>3
  <2>2. /\ Stage[s] \in Saved!HasOpen <=> pc[s] \in Writing
        /\ Stage'[s] \in Saved!HasOpen <=> pc'[s] \in Writing
    BY <1>3
  <2> HIDE <1>3
  <2> QED
    BY <2>1, <2>2
<1>5. torn' = [s \in Sessions |-> Open(s)]
  BY DEF Observe
<1>6. [s \in Sessions |-> Open(s)] = [s \in Sessions |-> Beside(s)]
  <2> HIDE DEF Open, Beside
  <2> QED
    BY <1>4
<1> QED
  BY <1>5, <1>6 DEF Saved!Collide

Recorded == Saved!Remember /\ Saved!Collide

\* A step that leaves the file alone and takes nobody further is a change.
LEMMA StepIsChange ==
  ASSUME StateInv', Recorded, file' = file, pc' = pc
  PROVE  Saved!Next
<1>1. vpp' \in SUBSET Saved!Fact
  BY SavedWords DEF StateInv, StateOK
<1>2. Stage' = Stage
  BY StageAt
<1> QED
  BY <1>1, <1>2 DEF Recorded, Saved!Next, Saved!Change

\* A step that takes s further but not to another stage is one too.
LEMMA StepWithinStage ==
  ASSUME StateInv, StateInv', Recorded, file' = file, NEW s \in Sessions,
         \A t \in Sessions \ {s} : pc'[t] = pc[t], StageOf(pc'[s]) = StageOf(pc[s])
  PROVE  Saved!Next
<1>1. vpp' \in SUBSET Saved!Fact
  BY SavedWords DEF StateInv, StateOK
<1>2. Stage' = Stage
  BY DEF Stage
<1> QED
  BY <1>1, <1>2 DEF Recorded, Saved!Next, Saved!Change

\* What is kept by the lists is kept by a text that has them.
LEMMA KeptGrows ==
  ASSUME NEW f, NEW p, NEW q, \A l \in Lists : p[l] \subseteq q[l], Kept(f, p)
  PROVE  Kept(f, q)
<1>1. /\ \A g \in p["ifs"] : g \in q["ifs"]
      /\ \A g \in p["bonds"] : g \in q["bonds"]
      /\ \A g \in p["lcps"] : g \in q["lcps"]
  BY ListNames
<1> QED
  BY <1>1 DEF Kept

\* What is in the text of s it has seen.
LEMMA TextIsSeen ==
  ASSUME NEW s \in Sessions, Window(s), Stage[s] \in Saved!HasOpen,
         \A l \in Lists : file'[l] \subseteq pend[s][l]
  PROVE  Saved!OnlySeen(s)
<1>1. \A l \in Lists : \A f \in file'[l] : ReadFrom(f, seen[s])
  BY DEF Window, Saved!HasOpen
<1> QED
  BY <1>1, SavedWords DEF Saved!OnlySeen, ReadFrom

\* A block of the text is a part of the save.
LEMMA FlushSaves ==
  ASSUME StateInv, StateInv', NEW s \in Sessions, Window(s), Recorded, FlushBlock(s)
  PROVE  Saved!Next
<1>1. pc[s] \in {"write", "rest"} /\ pc' = [pc EXCEPT ![s] = "rest"] /\ vpp' = vpp
  BY DEF FlushBlock, Writing, Goto
<1>2. Stage[s] \in Saved!HasOpen /\ Stage' = [Stage EXCEPT ![s] = "begun"]
  <2>1. pc'[s] = "rest" /\ \A t \in Sessions \ {s} : pc'[t] = pc[t]
    BY <1>1 DEF StateInv, StateOK
  <2> QED
    BY <1>1, <2>1, Stages, StageAt, StageMoves DEF Saved!HasOpen
<1>3. file' \in [Saved!Lists -> SUBSET Saved!Fact]
  BY SavedWords DEF StateInv, StateOK
<1>4. torn[s] \/ Saved!OnlySeen(s)
  <2>1. CASE ~torn[s]
    <3>1. file' \in Below(pend[s]) /\ pend[s] \in PendType
      BY <2>1 DEF FlushBlock, Starts, StateInv, StateOK, PendType
    <3>2. \A l \in Lists : file'[l] \subseteq pend[s][l]
      BY <3>1, BelowIs
    <3> QED
      BY <1>2, <3>2, TextIsSeen
  <2> QED
    BY <2>1
<1>5. Saved!Part(s)
  BY <1>1, <1>2, <1>3, <1>4 DEF Saved!Part, Saved!Enter
<1> QED
  BY <1>5 DEF Recorded, Saved!Next, Saved!Save

\* The write is the one that was promised.
LEMMA WriteSaves ==
  ASSUME StateInv, StateInv', NEW s \in Sessions, Window(s), Recorded, WriteFile(s)
  PROVE  Saved!Next
<1>1. pc[s] \in {"write", "rest"} /\ pc' = [pc EXCEPT ![s] = "edit"] /\ vpp' = vpp
  BY DEF WriteFile, Writing, Goto
<1>2. /\ Stage[s] = StageOf(pc[s]) /\ Stage[s] \in Saved!HasOpen
      /\ Stage' = [Stage EXCEPT ![s] = "written"]
  <2>1. pc'[s] = "edit" /\ \A t \in Sessions \ {s} : pc'[t] = pc[t]
    BY <1>1 DEF StateInv, StateOK
  <2> QED
    BY <1>1, <2>1, Stages, StageAt, StageMoves DEF Saved!HasOpen
<1>3. file' \in [Saved!Lists -> SUBSET Saved!Fact]
  BY SavedWords DEF StateInv, StateOK
<1>4. torn[s] \/ Saved!OnlySeen(s)
  <2>1. CASE ~torn[s]
    <3>1. file' = pend[s]
      BY <2>1 DEF WriteFile
    <3> QED
      BY <1>2, <3>1, TextIsSeen
  <2> QED
    BY <2>1
<1>5. (torn[s] /\ Stage[s] = "begun") \/ Saved!AllLasting(s)
  <2> SUFFICES ASSUME ~(torn[s] /\ Stage[s] = "begun"), NEW f \in lasting[s] \ Boot
               PROVE  Kept(f, file')
    BY SavedWords DEF Saved!AllLasting
  <2>1. \A l \in Lists : pend[s][l] \subseteq file'[l]
    <3>1. torn[s] => At(s, "write")
      BY <1>1, <1>2, Stages DEF At
    <3> QED
      BY <3>1 DEF WriteFile
  <2>2. f \in Fact /\ Gathered(pc[s], pend[s], f)
    BY <1>2 DEF Window, Saved!HasOpen
  <2>3. Kept(f, pend[s])
    <3>1. pc[s] \in AfterLcps
      BY <1>1 DEF AfterLcps, AfterBonds, AfterAddrs, AfterList
    <3> QED
      BY <2>2, <3>1, AllGathered
  <2> QED
    BY <2>1, <2>3, KeptGrows
<1>6. Saved!Write(s)
  BY <1>1, <1>2, <1>3, <1>4, <1>5 DEF Saved!Write, Saved!Enter
<1> QED
  BY <1>6 DEF Recorded, Saved!Next, Saved!Save

\* A step that ends a commit, at whatever stage it was.
LEMMA StepIsEnd ==
  ASSUME StateInv, Recorded, UNCHANGED <<vpp, file>>, NEW s \in Sessions,
         \A t \in Sessions \ {s} : pc'[t] = pc[t], pc[s] # "idle", pc'[s] = "idle"
  PROVE  Saved!Next
<1>1. Stage' = [Stage EXCEPT ![s] = "idle"]
  BY StageMoves, Stages
<1>2. Stage[s] \in {"reading", "read", "written"} \cup Saved!HasOpen
  <2>1. pc[s] \in CommitSteps
    BY DEF StateInv, StateOK
  <2> QED
    BY <2>1, Stages, StageAt DEF CommitSteps, Writing, Saved!HasOpen
<1>3. Saved!End(s)
  BY <1>1, <1>2 DEF Saved!End, Saved!Enter
<1> QED
  BY <1>3 DEF Recorded, Saved!Next, Saved!Save

\* The steps of a commit.
LEMMA CommitSavesStep ==
  ASSUME StateInv, StateInv', NEW s \in Sessions, Window(s), Recorded, Commit(s)
  PROVE  Saved!Next
<1>1. \A t \in Sessions \ {s} : pc'[t] = pc[t]
  BY OthersFrame DEF StateInv
<1>2. Stage' = [Stage EXCEPT ![s] = StageOf(pc'[s])] /\ Stage[s] = StageOf(pc[s])
  BY <1>1, StageMoves, StageAt
<1>3. CASE CliVppCommit(s)
  <2>1. pc[s] = "idle" /\ pc'[s] = "list" /\ UNCHANGED <<vpp, file>>
    BY <1>3 DEF CliVppCommit, Goto, storeVars, StateInv, StateOK
  <2>2. Saved!Begin(s)
    BY <1>2, <2>1, Stages DEF Saved!Begin, Saved!Enter
  <2> QED
    BY <2>2 DEF Recorded, Saved!Next, Saved!Save
<1>4. CASE Reads(s)
  <2>1. /\ UNCHANGED <<vpp, file>> /\ StageOf(pc[s]) = "reading"
        /\ StageOf(pc'[s]) \in {"reading", "read"}
    BY <1>4, ReadFrame
  <2>2. CASE StageOf(pc'[s]) = "reading"
    BY <1>1, <2>1, <2>2, StepWithinStage
  <2>3. CASE StageOf(pc'[s]) = "read"
    <3>1. Saved!AllRead(s)
      BY <1>2, <2>1, <2>3 DEF Saved!AllRead, Saved!Enter
    <3> QED
      BY <3>1 DEF Recorded, Saved!Next, Saved!Save
  <2> QED
    BY <2>1, <2>2, <2>3
<1>5. CASE OpenFile(s)
  <2>1. pc[s] = "open" /\ vpp' = vpp
    BY <1>5 DEF OpenFile, At
  <2>2. CASE file' = Empty /\ Goto(s, "write")
    <3>1. pc'[s] = "write"
      BY <2>2 DEF Goto, StateInv, StateOK
    <3>2. Saved!Truncate(s)
      BY <1>2, <2>1, <2>2, <3>1, Stages, SavedWords DEF Saved!Truncate, Saved!Enter
    <3> QED
      BY <3>2 DEF Recorded, Saved!Next, Saved!Save
  <2>3. CASE UNCHANGED file /\ Goto(s, "edit")
    <3>1. pc'[s] = "edit"
      BY <2>3 DEF Goto, StateInv, StateOK
    <3>2. Saved!NotOpened(s)
      BY <1>2, <2>1, <2>3, <3>1, Stages DEF Saved!NotOpened, Saved!Enter
    <3> QED
      BY <3>2 DEF Recorded, Saved!Next, Saved!Save
  <2> QED
    BY <1>5, <2>2, <2>3 DEF OpenFile
<1>6. CASE FlushBlock(s) \/ WriteFile(s)
  BY <1>6, FlushSaves, WriteSaves
<1>7. CASE EditCandidate(s) \/ CommitRunning(s)
  <2>1. /\ file' = file /\ pc[s] \in {"edit", "commit"}
        /\ \/ pc'[s] \in {"commit", "copy"}
           \/ pc'[s] = "idle" /\ vpp' = vpp
    BY <1>7 DEF EditCandidate, CommitRunning, RequestFails, At, Goto, StateInv, StateOK
  <2>2. CASE pc'[s] \in {"commit", "copy"}
    <3>1. StageOf(pc'[s]) = StageOf(pc[s])
      BY <2>1, <2>2, Stages
    <3> QED
      BY <1>1, <2>1, <3>1, StepWithinStage
  <2>3. CASE pc'[s] = "idle" /\ vpp' = vpp
    BY <1>1, <2>1, <2>3, StepIsEnd
  <2> QED
    BY <2>1, <2>2, <2>3
<1>8. CASE CopyStartup(s)
  <2>1. pc[s] = "copy" /\ pc'[s] = "idle" /\ UNCHANGED <<vpp, file>>
    BY <1>8 DEF CopyStartup, At, Goto, StateInv, StateOK
  <2> QED
    BY <1>1, <2>1, StepIsEnd
<1> QED
  BY <1>3, <1>4, <1>5, <1>6, <1>7, <1>8 DEF Commit, Reads

\* Every step.
LEMMA StepSaves ==
  ASSUME StateInv, StateInv', Windows, [NextWindow]_windowVars
  PROVE  [Saved!Next]_(Saved!vars)
<1>1. CASE UNCHANGED windowVars
  <2>1. UNCHANGED <<vpp, file, Stage, torn, lasting, seen>>
    BY <1>1, StageAt DEF windowVars, vars, sessionVars, storeVars
  <2> QED
    BY <2>1 DEF Saved!vars
<1> SUFFICES ASSUME NextWindow PROVE Saved!Next
  BY <1>1
<1>2. Recorded
  BY OpenTogether DEF NextWindow, Next, Recorded
<1>3. ASSUME NEW s \in Sessions, Enter(s) \/ Edit(s) PROVE Saved!Next
  BY <1>2, <1>3, CommandsFrame, StepIsChange
<1>4. ASSUME NEW s \in Sessions, Commit(s) PROVE Saved!Next
  BY <1>2, <1>4, CommitSavesStep DEF Windows
<1>5. ASSUME NEW s \in Sessions, Leave(s) PROVE Saved!Next
  <2>1. UNCHANGED <<vpp, file>> /\ pc'[s] = "idle" /\ \A t \in Sessions \ {s} : pc'[t] = pc[t]
    BY <1>5, LeaveFrame
  <2>2. CASE pc[s] = "idle"
    BY <1>2, <2>1, <2>2, StepWithinStage
  <2>3. CASE pc[s] # "idle"
    BY <1>2, <2>1, <2>3, StepIsEnd
  <2> QED
    BY <2>2, <2>3
<1>6. CASE VppCrash \/ VppStart
  BY <1>2, <1>6, StepIsChange DEF VppCrash, VppStart, storeVars, sessionVars
<1> QED
  BY <1>3, <1>4, <1>5, <1>6 DEF NextWindow, Next

-----------------------------------------------------------------------------
(* Theorems.                                                                   *)

\* THEOREM.  What the window of a commit says holds throughout: what VPP has had
\* since it began to read is gathered as far as it has read, and nothing else is.
THEOREM WindowInvariant == SpecWindow => [](StateInv /\ Windows)
<1>1. InitWindow => Windows
  <2> SUFFICES ASSUME InitWindow, NEW s \in Sessions PROVE Window(s)
    BY DEF Windows
  <2>1. pc[s] = "idle"
    BY DEF InitWindow, Init
  <2> QED
    BY <2>1, Stages, StageAt DEF Window
<1>2. StateInv /\ Grounded /\ Windows /\ [NextWindow]_windowVars => Windows'
  BY WindowsPreserved
<1>3. StateInv /\ HistoryOK /\ Grounded /\ Saving => StateInv /\ Grounded
  OBVIOUS
<1> QED
  BY <1>1, <1>2, <1>3, WindowIsSpec, SavingInvariant, PTL DEF SpecWindow

\* THEOREM.  The refinement: whatever the sessions, VPP and the faults do, what VPP
\* had all through the reads of a commit is in the file once that commit has
\* written it, and it writes nothing that VPP did not have during them -- unless
\* another commit has the file open at the same time; then a text of one block still
\* has all that lasted, and a longer one may lose some of it.
THEOREM CommitsSaveWhatLasts == SpecWindow => SavesWhatLasts
<1>1. InitWindow => Saved!Init
  <2> SUFFICES ASSUME InitWindow PROVE Saved!Init
    OBVIOUS
  <2>1. Stage = [s \in Sessions |-> "idle"]
    BY Stages DEF InitWindow, Init, Stage
  <2> QED
    BY <2>1, SavedWords DEF InitWindow, Init, Saved!Init
<1>2. StateInv /\ StateInv' /\ Windows /\ [NextWindow]_windowVars => [Saved!Next]_(Saved!vars)
  BY StepSaves
<1> QED
  BY <1>1, <1>2, WindowInvariant, PTL DEF SpecWindow, SavesWhatLasts, Saved!Spec

=============================================================================
