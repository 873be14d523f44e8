----------------------------- MODULE SavedConfig -----------------------------
(***************************************************************************)
(* What the operators' `commit' promises of vpp_config.xml, whoever else   *)
(* changes VPP or commits at the same time and whatever fails.             *)
(*                                                                         *)
(* A save takes its time: it reads VPP piece by piece while others go on   *)
(* changing it, then empties the file and writes it.  So what it writes    *)
(* need not be a configuration VPP ever had.  The promise is the one of a  *)
(* regular register, fact by fact: what VPP had all the time the save was  *)
(* reading is in the file after the write, and what the write puts there   *)
(* VPP had at some moment of that time.  Nothing but a save touches the    *)
(* file.  Where another save has the file open at the same time, a save    *)
(* that writes in one piece still leaves there what has lasted; one that   *)
(* writes in several pieces promises nothing.                              *)
(***************************************************************************)
EXTENDS ConfigFile

CONSTANT Sessions   \* who may save

VARIABLES
  vpp,      \* VPP's facts, which anybody may change at any time
  file,     \* vpp_config.xml
  stage,    \* stage[s]: how far s has come with its save
  clash,    \* clash[s]: another save has had the file open since s opened it
  lasting,  \* lasting[s]: what VPP has had ever since s began to read ...
  seen      \* seen[s]: ... and what it has had at some time since, until s had read all

vars == <<vpp, file, stage, clash, lasting, seen>>

Init ==
  /\ vpp = Boot /\ file = Empty
  /\ stage = [s \in Sessions |-> "idle"]
  /\ clash = [s \in Sessions |-> FALSE]
  /\ lasting = [s \in Sessions |-> {}] /\ seen = [s \in Sessions |-> {}]

\* Is f read of v?  The namespace of a pair that has none is left to chance.
ReadOf(f, v) ==
  f \in v \/ \E g \in v : SamePair(f, g) /\ g.val[2] = None

Enter(s, from, to) ==
  stage[s] \in from /\ stage' = [stage EXCEPT ![s] = to]

\* Commands, transactions, VPP's death: VPP changes, and saves go on.
Change == vpp' \in SUBSET Fact /\ UNCHANGED <<file, stage>>

Begin(s) == Enter(s, {"idle"}, "reading") /\ UNCHANGED <<vpp, file>>

AllRead(s) == Enter(s, {"reading"}, "read") /\ UNCHANGED <<vpp, file>>

Truncate(s) == Enter(s, {"read"}, "opened") /\ file' = Empty /\ UNCHANGED vpp

\* With the file open, and nothing or something written to it.
HasOpen == {"opened", "begun"}

\* Only what was seen gets into the file ...
OnlySeen(s) == \A l \in Lists : \A f \in file'[l] : ReadOf(f, seen[s])

\* ... and in the end all that has lasted.
AllLasting(s) == \A f \in lasting[s] \ Boot : Kept(f, file')

Part(s) ==
  /\ Enter(s, HasOpen, "begun")
  /\ file' \in [Lists -> SUBSET Fact]
  /\ clash[s] \/ OnlySeen(s)
  /\ UNCHANGED vpp

Write(s) ==
  /\ Enter(s, HasOpen, "written")
  /\ file' \in [Lists -> SUBSET Fact]
  /\ clash[s] \/ OnlySeen(s)
  /\ (clash[s] /\ stage[s] = "begun") \/ AllLasting(s)
  /\ UNCHANGED vpp

\* The file cannot be opened: it stays as it is, and so does the save's course.
NotOpened(s) == Enter(s, {"read"}, "written") /\ UNCHANGED <<vpp, file>>

\* Done, refused or killed.
End(s) ==
  /\ Enter(s, {"reading", "read", "written"} \cup HasOpen, "idle")
  /\ UNCHANGED <<vpp, file>>

Save(s) ==
  \/ Begin(s) \/ AllRead(s)
  \/ Truncate(s) \/ Part(s) \/ Write(s) \/ NotOpened(s)
  \/ End(s)

\* The facts of the time s has been reading; forgotten once they are written.
Over(s) == stage'[s] \in {"idle", "written"}

Lasts(s) ==
  IF Over(s) THEN {}
  ELSE CASE stage[s] = "idle"    -> vpp'
         [] stage[s] = "reading" -> lasting[s] \cap vpp'
         [] OTHER                -> lasting[s]

Sees(s) ==
  IF Over(s) THEN {}
  ELSE CASE stage[s] = "idle"    -> vpp'
         [] stage[s] = "reading" -> seen[s] \cup vpp'
         [] OTHER                -> seen[s]

Remember ==
  /\ lasting' = [s \in Sessions |-> Lasts(s)]
  /\ seen' = [s \in Sessions |-> Sees(s)]

\* Two have the file open.
Collide ==
  clash' = [s \in Sessions |->
    /\ stage'[s] \in HasOpen
    /\ \/ stage[s] \in HasOpen /\ clash[s]
       \/ \E t \in Sessions \ {s} : stage'[t] \in HasOpen]

Next == (Change \/ \E s \in Sessions : Save(s)) /\ Remember /\ Collide

Spec == Init /\ [][Next]_vars

=============================================================================
