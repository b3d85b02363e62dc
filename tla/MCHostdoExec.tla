---------------------------- MODULE MCHostdoExec ----------------------------
(***************************************************************************)
(* HostdoExec for TLC: one or two requests of one session.                 *)
(***************************************************************************)
EXTENDS HostdoExec

CONSTANTS r1, r2, s1

OneOwner == [r \in Request |-> s1]

\* Requests that ask, with and without a task of their own; with an image; that
\* the policy lets pass.
Job == [detached |-> TRUE, auto |-> FALSE, image |-> FALSE]
AutoJob == [Job EXCEPT !.auto = TRUE]
ImageJob == [Job EXCEPT !.image = TRUE]
Sync == [Job EXCEPT !.detached = FALSE]
AutoSync == [Sync EXCEPT !.auto = TRUE]

Mixed == {Job, AutoJob, ImageJob, Sync, AutoSync}
JustJob == {Job}

=============================================================================
