---------------------------- MODULE ClusterTable ----------------------------
(* What the master's shared table promises to those who read it, whatever    *)
(* the network and the scheduler do to the reports: the slot of a slave is   *)
(* a register that only this slave writes and that only moves forward.  The  *)
(* slot 0 of the master itself is promised nothing but its slave_index.      *)
EXTENDS ServerPerform

VARIABLES table,    \* sharedM of the master: one struct per server
          taken     \* how many times each server has measured itself

tableVars == <<table, taken>>

TableTypeOK ==
  /\ table \in [Servers -> Struct]
  /\ taken \in [Servers -> 0..MaxTaken]

TableInit ==
  /\ table = [i \in Servers |-> ZeroStruct]
  /\ taken = [i \in Servers |-> 0]

Measure(i) ==
  /\ i = Master => taken[i] > 0
  /\ taken' = [taken EXCEPT ![i] = Bump(@)]
  /\ UNCHANGED table

(* The only step that takes anything out of a slave's slot, and it happens   *)
(* once, before the first measurement of the master.                         *)
Clear ==
  /\ taken[Master] = 0
  /\ table' = [i \in Servers |-> ZeroStruct]
  /\ taken' = [taken EXCEPT ![Master] = Bump(@)]

(* The slot of s takes a measurement of s that is at least as recent.        *)
Publish(s) ==
  /\ \E n \in 1..taken[s] :
       /\ n >= table[s].disk.n
       /\ table' = [table EXCEPT ![s].disk = Load(s, n)]
  /\ UNCHANGED taken

(* The slave_index of the slot of s becomes that of s.                       *)
Name(s) ==
  /\ table' = [table EXCEPT ![s].idx = s]
  /\ UNCHANGED taken

(* Slot 0 takes zero, the characters of a message or anybody's measurement.  *)
Overwrite ==
  /\ \E d \in Disk :
       /\ d.src \in Servers => d.n \in 1..taken[d.src]
       /\ d.src \notin Servers => d.n = 0
       /\ table' = [table EXCEPT ![Master].disk = d]
  /\ UNCHANGED taken

TableNext ==
  \/ Clear
  \/ Overwrite
  \/ \E i \in Servers : Measure(i)
  \/ \E s \in Slaves : Publish(s) \/ Name(s)

TableSpec == TableInit /\ [][TableNext]_tableVars
=============================================================================
