----------------------------- MODULE Viewer_proofs -----------------------------
(***************************************************************************)
(* Theorems about `show running-config' beside any number of sessions.     *)
(***************************************************************************)
EXTENDS Viewer, CommitSaves_proofs

-----------------------------------------------------------------------------
(* A show changes nothing the sessions see, so what holds of them holds beside *)
(* it.                                                                         *)

\* THEOREM.  The sessions behave as they would without anybody looking.
THEOREM ViewIsHarmless == SpecAndView => Spec
<1>1. InitAndView => Init
  BY DEF InitAndView
<1>2. [NextOrView]_<<vars, viewVars, steady>> => [Next]_vars
  BY DEF NextOrView
<1> QED
  BY <1>1, <1>2, PTL DEF SpecAndView, Spec

-----------------------------------------------------------------------------
(* What a show has printed, as long as the file stays as it was.               *)

Views == {"idle", "ifs", "bonds", "lcps", "shown"}

\* The sections of the file are those found in the first pass; an empty one makes
\* no difference.
SectionsFound ==
  view # "idle" => \A l \in Lists : file[l] # {} => l \in has

\* The sections printed so far are as they are in the file.
PrintedSoFar ==
  /\ view \in {"bonds", "lcps", "shown"} => shown["ifs"] = file["ifs"]
  /\ view \in {"lcps", "shown"} => shown["bonds"] = file["bonds"]
  /\ view = "shown" => shown["lcps"] = file["lcps"]

ViewInv ==
  /\ view \in Views
  /\ DOMAIN shown = Lists /\ shown = [l \in Lists |-> shown[l]]
  /\ shown["subifs"] = {}
  /\ steady => SectionsFound /\ PrintedSoFar

\* Printing a section makes it as it is in the file.
LEMMA SectionPrinted ==
  ASSUME ViewInv, NEW l \in {"ifs", "bonds", "lcps"}, NEW next, ShowSection(l, next)
  PROVE  /\ view = l /\ view' = next /\ has' = has
         /\ DOMAIN shown' = Lists /\ shown' = [k \in Lists |-> shown'[k]]
         /\ \A k \in Lists \ {l} : shown'[k] = shown[k]
         /\ steady => shown'[l] = file[l]
<1>1. view = l /\ view' = next /\ has' = has
  BY DEF ShowSection
<1>2. shown' = [shown EXCEPT ![l] = IF l \in has THEN file[l] ELSE {}]
  BY DEF ShowSection
<1>3. l \in Lists /\ view # "idle"
  BY <1>1 DEF Lists
<1>4. DOMAIN shown' = Lists /\ shown' = [k \in Lists |-> shown'[k]]
  BY <1>2 DEF ViewInv
<1>5. \A k \in Lists \ {l} : shown'[k] = shown[k]
  BY <1>2 DEF ViewInv
<1>6. shown'[l] = IF l \in has THEN file[l] ELSE {}
  BY <1>2, <1>3 DEF ViewInv
<1>7. steady => shown'[l] = file[l]
  BY <1>3, <1>6 DEF ViewInv, SectionsFound
<1> QED
  BY <1>1, <1>4, <1>5, <1>7

\* Every step, of a session or of the show, keeps this.
LEMMA ViewPreserved ==
  ASSUME ViewInv, [NextOrView]_<<vars, viewVars, steady>>
  PROVE  ViewInv'
<1> USE ListNames
<1>1. CASE UNCHANGED <<vars, viewVars, steady>>
  BY <1>1 DEF vars, viewVars, storeVars, ViewInv, SectionsFound, PrintedSoFar
<1>2. CASE Next /\ UNCHANGED viewVars /\ steady' = (view' = "idle" \/ (steady /\ file' = file))
  BY <1>2 DEF viewVars, ViewInv, SectionsFound, PrintedSoFar
<1>3. CASE View /\ UNCHANGED vars /\ steady' = (view' = "idle" \/ (steady /\ file' = file))
  <2>1. file' = file /\ (view' # "idle" /\ steady' => steady)
    BY <1>3 DEF vars, storeVars
  <2>2. CASE ShowRunningConfig
    <3>1. view' = "ifs" /\ shown' = shown
      BY <2>2 DEF ShowRunningConfig
    <3>2. \A l \in Lists : file[l] # {} => l \in has'
      BY <2>2 DEF ShowRunningConfig
    <3> QED
      BY <2>1, <3>1, <3>2 DEF ViewInv, SectionsFound, PrintedSoFar, Views
  <2>3. CASE ShowInterfaces
    <3>1. ShowSection("ifs", "bonds")
      BY <2>3 DEF ShowInterfaces
    <3> QED
      BY <2>1, <3>1, SectionPrinted DEF ViewInv, SectionsFound, PrintedSoFar, Views
  <2>4. CASE ShowBonds
    <3>1. ShowSection("bonds", "lcps")
      BY <2>4 DEF ShowBonds
    <3> QED
      BY <2>1, <3>1, SectionPrinted DEF ViewInv, SectionsFound, PrintedSoFar, Views
  <2>5. CASE ShowLcps
    <3>1. ShowSection("lcps", "shown")
      BY <2>5 DEF ShowLcps
    <3> QED
      BY <2>1, <3>1, SectionPrinted DEF ViewInv, SectionsFound, PrintedSoFar, Views
  <2>6. CASE EndOfShow
    BY <2>6 DEF EndOfShow, Empty, ViewInv, SectionsFound, PrintedSoFar, Views
  <2> QED
    BY <1>3, <2>2, <2>3, <2>4, <2>5, <2>6 DEF View
<1> QED
  BY <1>1, <1>2, <1>3 DEF NextOrView

-----------------------------------------------------------------------------
(* Theorems.                                                                   *)

\* SAFETY.  A show during which the file did not change prints the file.
ShowPrintsFile == view = "shown" /\ steady => shown = file

\* THEOREM.  However many commits are under way, a show that none of them reached
\* with its writing prints every section of the file as it is.
THEOREM ShowEverPrintsFile == SpecAndView => []ShowPrintsFile
<1>1. InitAndView => ViewInv
  BY ListNames DEF InitAndView, ViewInv, Views, SectionsFound, PrintedSoFar, Empty
<1>2. ViewInv /\ [NextOrView]_<<vars, viewVars, steady>> => ViewInv'
  BY ViewPreserved
<1>3. StateOK /\ NoSubifSection /\ ViewInv => ShowPrintsFile
  <2> SUFFICES ASSUME StateOK, NoSubifSection, ViewInv, view = "shown", steady
               PROVE  shown = file
    BY DEF ShowPrintsFile
  <2>1. \A l \in Lists : shown[l] = file[l]
    BY DEF Lists, ViewInv, PrintedSoFar, NoSubifSection
  <2>2. shown = [l \in Lists |-> shown[l]] /\ file = [l \in Lists |-> file[l]]
    BY DEF ViewInv, StateOK
  <2> QED
    BY <2>1, <2>2
<1>4. StateInv => StateOK
  BY DEF StateInv
<1> QED
  BY <1>1, <1>2, <1>3, <1>4, ViewIsHarmless, StateInvariant, SubifsNeverSaved, PTL
     DEF SpecAndView

\* THEOREM.  And under the conditions of NothingLostSilently it shows everything
\* worth keeping in VPP: what is printed as the running configuration is that.
THEOREM ShowEverComplete == SpecAndView => []ShowIsComplete
<1>1. StateOK /\ NoSubifSection /\ NothingLostSilently /\ ShowPrintsFile => ShowIsComplete
  <2> SUFFICES ASSUME StateOK, NoSubifSection, NothingLostSilently, ShowPrintsFile,
                      view = "shown", steady
               PROVE  /\ shown = [file EXCEPT !["subifs"] = {}]
                      /\ /\ ~overlapped /\ ~spoilt /\ ~waived /\ AllIdle
                         /\ \A s \in Sessions : ~modified[s]
                         => \A f \in Worth(vpp) : Kept(f, shown)
    BY DEF ShowIsComplete
  <2>1. shown = file
    BY DEF ShowPrintsFile
  <2>2. file = [file EXCEPT !["subifs"] = {}]
    BY DEF StateOK, NoSubifSection
  <2> QED
    BY <2>1, <2>2 DEF NothingLostSilently
<1>2. StateInv => StateOK
  BY DEF StateInv
<1>3. Spec => []NothingLostSilently
  BY NothingEverLostSilently
<1> QED
  BY <1>1, <1>2, <1>3, ViewIsHarmless, StateInvariant, SubifsNeverSaved,
     ShowEverPrintsFile, PTL

=============================================================================
