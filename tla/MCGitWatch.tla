----------------------------- MODULE MCGitWatch -----------------------------
(***************************************************************************)
(* Two tick loops, a file whose status changes, channels of one            *)
(* notification and a history of two that is cut to one.  One client that  *)
(* comes, reads and goes, two when the one behind is what is asked about.  *)
(***************************************************************************)
EXTENDS GitWatch

CONSTANTS f1, f2, w1, w2, s1, s2
=============================================================================
