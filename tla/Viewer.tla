------------------------------- MODULE Viewer -------------------------------
(***************************************************************************)
(* `show running-config' (cli_show_running_config_full) in one more CLI    *)
(* process, beside the sessions of CliSession.  It does not ask VPP: it    *)
(* opens vpp_config.xml and reads it four times, once to see which         *)
(* sections there are and once for each of three sections.  Commits        *)
(* truncate and rewrite the same file in between.                          *)
(*                                                                         *)
(* Simplifications.  One reading of the file is one step.  The layout of   *)
(* what is printed is left out; what is printed of an entry is what the    *)
(* file holds of it.                                                       *)
(***************************************************************************)
EXTENDS CliSession

VARIABLES
  view,     \* what the show does next
  has,      \* has_ifs, has_bonds, has_lcps
  shown,    \* what it has printed, by section
  steady    \* history: the file has not changed since the show began

viewVars == <<view, has, shown>>

InitAndView == Init /\ view = "idle" /\ has = {} /\ shown = Empty /\ steady = TRUE

\* The first pass.  The tags of the interface section may be there with nothing
\* between them, and those of any section with nothing written after them yet.
ShowRunningConfig ==
  /\ view = "idle"
  /\ \E empty \in SUBSET {"ifs", "bonds", "lcps"} : has' = {l \in Lists : file[l] # {}} \cup empty
  /\ view' = "ifs"
  /\ UNCHANGED shown

\* (Mutant of ShowSection: no rewind before the bonds.)
ShowSectionNoRewind(l, next) ==
  /\ view = l
  /\ shown' = [shown EXCEPT ![l] = IF l \in has \ {"bonds"} THEN file[l] ELSE {}]
  /\ view' = next
  /\ UNCHANGED has

\* Rewind, and print what the file has now of a section it had then.
ShowSection(l, next) ==
  /\ view = l
  /\ shown' = [shown EXCEPT ![l] = IF l \in has THEN file[l] ELSE {}]
  /\ view' = next
  /\ UNCHANGED has

ShowInterfaces == ShowSection("ifs", "bonds")
ShowBonds      == ShowSection("bonds", "lcps")
ShowLcps       == ShowSection("lcps", "shown")

EndOfShow == view = "shown" /\ view' = "idle" /\ has' = {} /\ shown' = Empty

View == ShowRunningConfig \/ ShowInterfaces \/ ShowBonds \/ ShowLcps \/ EndOfShow

NextOrView ==
  /\ \/ Next /\ UNCHANGED viewVars
     \/ View /\ UNCHANGED vars
  /\ steady' = (view' = "idle" \/ (steady /\ file' = file))

SpecAndView == InitAndView /\ [][NextOrView]_<<vars, viewVars, steady>>

-----------------------------------------------------------------------------
(* Properties.                                                             *)

\* SAFETY.  A show during which no commit touched the file prints all of it, and,
\* under the conditions of NothingLostSilently, everything worth keeping in VPP:
\* a file is shown for the running configuration, and it is the running one.
ShowIsComplete ==
  view = "shown" /\ steady =>
    /\ shown = [file EXCEPT !["subifs"] = {}]
    /\ ~overlapped /\ ~spoilt /\ ~waived /\ AllIdle /\ (\A s \in Sessions : ~modified[s])
         => \A f \in Worth(vpp) : Kept(f, shown)

=============================================================================
