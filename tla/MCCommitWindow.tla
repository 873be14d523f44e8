---------------------------- MODULE MCCommitWindow ----------------------------
(***************************************************************************)
(* The instances of MCCliSession, with the window of each commit.          *)
(***************************************************************************)
EXTENDS CommitWindow, MCCliSession

\* The views of the runs.  Without StoresAgree the startup datastore is of no interest;
\* once commits have overlapped, nor is anything the properties speak of only as long
\* as none have.
ButStartup == <<ButFileAndStartup, file, lasting, seen>>

UntilOverlap ==
  IF overlapped
  THEN <<vpp, vppUp, file, candidate, running, sessionVars, torn, lasting, seen>>
  ELSE <<vars, lasting, seen>>

=============================================================================
