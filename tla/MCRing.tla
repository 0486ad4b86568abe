------------------------------- MODULE MCRing -------------------------------
(* Operations for the ring. *)
EXTENDS Ring
=============================================================================
