----------------------------- MODULE CommitWindow -----------------------------
(***************************************************************************)
(* The sessions of CliSession with two more histories: what VPP has had    *)
(* throughout the reads of each commit, and what it has had at some time   *)
(* during them.  With these, commits are the saves of SavedConfig.         *)
(***************************************************************************)
EXTENDS CliSession

VARIABLES
  lasting,  \* history: lasting[s], what VPP has had ever since s began to read
  seen      \* history: seen[s], what it has had at some time since

\* How far the save of s has come.
StageOf(step) ==
  CASE step \in {"list", "addrs", "bonds", "lcps"} -> "reading"
    [] step = "open"                               -> "read"
    [] step = "write"                              -> "opened"
    [] step = "rest"                               -> "begun"
    [] step \in {"edit", "commit", "copy"}         -> "written"
    [] OTHER                                       -> "idle"

Stage == [s \in Sessions |-> StageOf(pc[s])]

Saved == INSTANCE SavedConfig WITH stage <- Stage, clash <- torn

InitWindow ==
  Init /\ lasting = [s \in Sessions |-> {}] /\ seen = [s \in Sessions |-> {}]

NextWindow == Next /\ Saved!Remember

windowVars == <<vars, lasting, seen>>

SpecWindow == InitWindow /\ [][NextWindow]_windowVars

-----------------------------------------------------------------------------
(* Properties.                                                             *)

\* REFINEMENT.  Every commit keeps what SavedConfig promises, also one whose reads
\* and requests overlap with other commits, that is disturbed by commands, by other
\* sessions' transactions or by VPP's death, or that is cut short.  While it has the
\* file open beside another commit the promise is only the one of a text of one block.
SavesWhatLasts == Saved!Spec

=============================================================================
