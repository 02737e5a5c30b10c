----------------------------- MODULE MCUpgrade -----------------------------
(* Small instances of Upgrade for TLC.                                       *)
EXTENDS Upgrade

CONSTANTS u1, u2, t1, t2
=============================================================================
