---------------------------- MODULE MCReporting ----------------------------
(* Instances of Reporting for TLC.                                           *)
EXTENDS Reporting, TLC

(* The slaves run the same code on the same data.                            *)
SlaveSymmetry == Permutations(Slaves)
=============================================================================
