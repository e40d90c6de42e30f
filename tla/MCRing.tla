------------------------------- MODULE MCRing -------------------------------
(* Four slots: the queue is full with three characters, wraps and fills again. *)
EXTENDS Ring
=============================================================================
