------------------------------- MODULE MCRing -------------------------------
(* A small instance of Ring for TLC.                                        *)
EXTENDS Ring
=============================================================================
