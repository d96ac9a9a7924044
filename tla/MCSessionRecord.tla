-------------------------- MODULE MCSessionRecord --------------------------
(***************************************************************************)
(* SessionRecord for TLC.                                                  *)
(***************************************************************************)
EXTENDS SessionRecord

\* What a crossed write leads to is excused by every property of the record
\* for good, so it is looked at and not followed further.
Uncrossed == ~crossed

=============================================================================
