----------------------------- MODULE MCRmbCall ------------------------------
(* Instances of RmbCall for TLC: a call of each result type and a third    *)
(* one, so that two wait while one holds the mutex.                        *)
EXTENDS RmbCall

CONSTANTS get1, get2, deploy

=============================================================================
