---------------------------- MODULE MCThreadTcp ----------------------------
(* ThreadTcp for TLC: clients that all do the same are interchangeable in  *)
(* the runs that check invariants only.                                    *)
EXTENDS ThreadTcp, TLC

Symmetry == Permutations(Clients)
=============================================================================
