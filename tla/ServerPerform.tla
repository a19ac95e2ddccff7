--------------------------- MODULE ServerPerform ---------------------------
(* The 136-byte struct serverPerform that every process of the system fills, *)
(* copies or sends (Server_side/extFunc.c:42-51), and the cluster it is      *)
(* about.  Two of its nineteen fields are kept: DISK_us, the first one,      *)
(* whose four bytes are also the ones a message is recognised by, and        *)
(* slave_index, the last one, which chooses the slot a record is stored in.  *)
EXTENDS Naturals

CONSTANTS Master,      \* the server whose slave_index is 0
          Slaves,      \* the servers whose slave_index is 1, 2, ...
          Nobody,      \* source of a field that is still zero
          Text,        \* source of a field holding the characters of "Updating_Workload_Info"
          MaxTaken     \* bound: the stamps of the measurements stop growing there

ASSUME ServersAssumption ==
  /\ Master \notin Slaves
  /\ Nobody \notin Slaves \cup {Master}
  /\ Text \notin Slaves \cup {Master, Nobody}

ASSUME MaxTakenAssumption == MaxTaken \in Nat \ {0}

Servers == Slaves \cup {Master}

(* A server stands for its own slave_index, Master for the index 0: so the   *)
(* slave_index of a zeroed struct is Master.                                 *)
Fields == {"disk", "idx"}

Disk == [src : Servers \cup {Nobody, Text}, n : 0..MaxTaken]

Struct == [disk : Disk, idx : Servers]

Blank == [src |-> Nobody, n |-> 0]

(* The value DISK_us takes in the n-th measurement of server i.              *)
Load(i, n) == [src |-> i, n |-> n]

Bump(n) == IF n < MaxTaken THEN n + 1 ELSE n

(* What bzero leaves.                                                        *)
ZeroStruct == [disk |-> Blank, idx |-> Master]

(* The 22 characters "Updating_Workload_Info" at the start of a zeroed       *)
(* buffer, seen as a struct: DISK_us is "Upda", slave_index is still 0.      *)
TextStruct == [disk |-> [src |-> Text, n |-> 0], idx |-> Master]

(* strncmp("Updating_Workload_Info", revBuffer, 4) == 0: the four bytes      *)
(* compared are those of DISK_us.                                            *)
IsHeader(buf) == buf.disk.src = Text

(* Mutant: the offsets of the two fields are exchanged.                      *)
PatchSwapped(old, new, f) == IF f = "disk" THEN [old EXCEPT !.idx = new.disk]
                                           ELSE [old EXCEPT !.disk = new.idx]

(* One field of new written over old.  The struct lies in memory no lock     *)
(* protects and the compiler orders the stores of an assignment sequence or  *)
(* a memcpy as it likes.                                                     *)
Patch(old, new, f) == IF f = "disk" THEN [old EXCEPT !.disk = new.disk]
                                    ELSE [old EXCEPT !.idx = new.idx]

(* d is zero or one of the first k measurements of server i.                 *)
MeasuredBy(d, i, k) == d = Blank \/ (d.src = i /\ d.n \in 1..k)

(* Of two structs, old is not more recent than new.                          *)
NotAfter(old, new) ==
  /\ old.disk.n <= new.disk.n
  /\ old.idx # Master => new.idx = old.idx
=============================================================================
