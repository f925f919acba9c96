------------------------------- MODULE MCLimiter ------------------------------
(***************************************************************************)
(* Two clients and one bucket to share, on two threads: every new client    *)
(* competes for the slot of the other.  The eviction of an idle bucket      *)
(* comes a tick before it would be full, as with --rate-limit 1             *)
(* --rate-burst 20.                                                         *)
(***************************************************************************)
EXTENDS Limiter, TLC

CONSTANTS c1, c2, w1, w2

MCClient == {c1, c2}
MCWorker == {w1, w2}
MCSymmetry == Permutations(MCClient) \union Permutations(MCWorker)
===============================================================================
