---------------------------- MODULE MC_ReviewRounds ----------------------------
(* One Reviewer Stack, or two of them on one pool.                          *)
EXTENDS ReviewRounds

CONSTANTS r1, r2
=============================================================================
