----------------------------- MODULE MCPolling -----------------------------
(* Instances of Polling for TLC.                                             *)
EXTENDS Polling, TLC

(* The slaves run the same code on the same data.                            *)
SlaveSymmetry == Permutations(Slaves)
=============================================================================
