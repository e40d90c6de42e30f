------------------------------- MODULE MCBoot -------------------------------
(* Two images of different sizes, so that a shorter one leaves pages of a   *)
(* longer one behind.                                                      *)
EXTENDS Boot
CONSTANTS short, long

MCSize == [i \in Images |-> IF i = short THEN 2 ELSE 3]

=============================================================================
