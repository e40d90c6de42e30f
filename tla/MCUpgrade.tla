----------------------------- MODULE MCUpgrade -----------------------------
(* Instances of Upgrade for TLC: files of three pages. *)
EXTENDS Upgrade
CONSTANTS f1, f2
=============================================================================
