------------------------------- MODULE MCStart -------------------------------
(***************************************************************************)
(* The three tasks of main(), up to two words deep in their own calls.     *)
(***************************************************************************)
EXTENDS Start

CONSTANTS t1, t2, t3

ThreeTasks == {t1, t2, t3}
MainOrder  == <<t1, t2, t3>>

\* Explore up to a switch before start() is through.
NotStruck == ~struck
=============================================================================
