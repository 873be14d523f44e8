------------------------------ MODULE MCViewer ------------------------------
(***************************************************************************)
(* The instances of MCCliSession with somebody who looks at the running    *)
(* configuration.                                                          *)
(***************************************************************************)
EXTENDS Viewer, MCCliSession

\* What a show has found and printed no longer matters once the file has changed
\* under it, or has yet to change because its text is not whole; nor, before that,
\* which sections it has found that hold nothing.
Found == {l \in has : file[l] # {}}
Valid == steady /\ ~InText
Relevant == <<WholeTexts, view, Valid, IF Valid THEN <<Found, shown>> ELSE <<>>>>

=============================================================================
