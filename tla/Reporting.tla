----------------------------- MODULE Reporting -----------------------------
(* How measurements reach the table of the master (Server_side/extFunc.c).   *)
(*                                                                           *)
(*   monitor   one process per server, monitor_workload_self: fills the      *)
(*             struct of its own server in shared memory and checks it       *)
(*   reporter  one process per slave, process_conn_clientSL: writes a header *)
(*             and a copy of the struct to the master, for ever              *)
(*   handler   one process per connection, process_conn_server on the        *)
(*             master: reads a header, then a record, and stores the record  *)
(*             in the slot the record names                                  *)
(*                                                                           *)
(* TCP keeps the order of what is written but not the boundaries: one read   *)
(* may return several writes at once.                                        *)
(*                                                                           *)
(* Every server is on a machine of its own.  A slave next to its master uses *)
(* the same segment, and its struct is then slot 0 of the table: see         *)
(* Lifecycle.                                                                *)
EXTENDS ServerPerform, Sequences

CONSTANTS Faults,      \* which of the mishaps below may happen
          MaxBacklog   \* bound: segments written to a connection and not yet read

(* kill      a server is stopped while it runs                               *)
(* timeout   a record takes more than the 5 s of SO_RCVTIMEO to arrive       *)
(* unready   a reporter's sleep(2) ends before the first fill of its monitor *)
ASSUME FaultsAssumption == Faults \subseteq {"kill", "timeout", "unready"}

(* With MaxBacklog = 1 every segment is read before the next one is written, *)
(* which is what the usleep between the two writes is there for.  Twelve     *)
(* segments are 948 bytes: one read of 1024 bytes can return them all.       *)
ASSUME MaxBacklogAssumption == MaxBacklog \in 1..12

VARIABLES
  local,    \* local[s]: the shared memory of slave s
  table,    \* the shared memory of the master, one slot per server
  taken,    \* taken[i]: how many measurements the monitor of i has begun
  todo,     \* todo[i]: the fields the current measurement has yet to store
  mpc,      \* where the monitor of each server is
  rpc,      \* where the reporter of each slave is
  out,      \* out[s]: sndBuffer of the reporter of s
  stream,   \* stream[s]: the segments written by s that its handler has not read
  hpc,      \* where the handler of each slave is
  got,      \* got[s]: revSerInfo of the handler of s
  left,     \* left[s]: the fields the memcpy to the table has yet to store
  alarmed   \* the servers whose monitor has sent an alarm message

monitorVars == <<local, taken, todo, mpc, alarmed>>
reporterVars == <<rpc, out>>
handlerVars == <<hpc, got, left>>
vars == <<table, stream, monitorVars, reporterVars, handlerVars>>

TypeOK ==
  /\ local \in [Slaves -> Struct]
  /\ table \in [Servers -> Struct]
  /\ taken \in [Servers -> 0..MaxTaken]
  /\ todo \in [Servers -> SUBSET Fields]
  /\ mpc \in [Servers -> {"start", "fill", "check", "stopped"}]
  /\ rpc \in [Slaves -> {"header", "copy", "record", "exit"}]
  /\ out \in [Slaves -> Struct]
  /\ stream \in [Slaves -> Seq(Struct)]
  /\ hpc \in [Slaves -> {"refused", "first", "second", "store", "gone"}]
  /\ got \in [Slaves -> Struct]
  /\ left \in [Slaves -> SUBSET Fields]
  /\ alarmed \subseteq Servers

(* The result of connect is not looked at: the reporter of a slave that was  *)
(* refused runs like any other.                                              *)
Init ==
  /\ local = [s \in Slaves |-> ZeroStruct]
  /\ table = [i \in Servers |-> ZeroStruct]
  /\ taken = [i \in Servers |-> 0]
  /\ todo = [i \in Servers |-> {}]
  /\ mpc = [i \in Servers |-> "start"]
  /\ rpc = [s \in Slaves |-> "header"]
  /\ out = [s \in Slaves |-> ZeroStruct]
  /\ stream = [s \in Slaves |-> <<>>]
  /\ hpc \in [Slaves -> {"first", "refused"}]
  /\ got = [s \in Slaves |-> ZeroStruct]
  /\ left = [s \in Slaves |-> {}]
  /\ alarmed = {}

-----------------------------------------------------------------------------
(* Monitors.                                                                 *)

(* Mutant: DISK_us is measured before the loop only.                         *)
BeginMeasurementDiskOnce(i) ==
  /\ taken' = [taken EXCEPT ![i] = Bump(@)]
  /\ todo' = [todo EXCEPT ![i] = IF taken[i] = 0 THEN Fields ELSE {"idx"}]
  /\ mpc' = [mpc EXCEPT ![i] = "fill"]

BeginMeasurement(i) ==
  /\ taken' = [taken EXCEPT ![i] = Bump(@)]
  /\ todo' = [todo EXCEPT ![i] = Fields]
  /\ mpc' = [mpc EXCEPT ![i] = "fill"]

(* The forked monitor zeroes the shared memory again, the master's with all  *)
(* its slots, although its handlers may be storing reports already.          *)
MonitorStart(i) ==
  /\ mpc[i] = "start"
  /\ BeginMeasurement(i)
  /\ IF i = Master
       THEN table' = [j \in Servers |-> ZeroStruct] /\ UNCHANGED local
       ELSE local' = [local EXCEPT ![i] = ZeroStruct] /\ UNCHANGED table
  /\ UNCHANGED <<stream, alarmed, reporterVars, handlerVars>>

Measured(i) == [disk |-> Load(i, taken[i]), idx |-> i]

(* One field of the server's own struct is assigned.                         *)
Fill(i, f) ==
  /\ mpc[i] = "fill"
  /\ f \in todo[i]
  /\ todo' = [todo EXCEPT ![i] = @ \ {f}]
  /\ mpc' = [mpc EXCEPT ![i] = IF todo[i] = {f} THEN "check" ELSE @]
  /\ IF i = Master
       THEN table' = [table EXCEPT ![i] = Patch(@, Measured(i), f)] /\ UNCHANGED local
       ELSE local' = [local EXCEPT ![i] = Patch(@, Measured(i), f)] /\ UNCHANGED table
  /\ UNCHANGED <<stream, taken, alarmed, reporterVars, handlerVars>>

Own(i) == IF i = Master THEN table[i] ELSE local[i]

(* DISK_us > 75.  The values a monitor stores (52 and 40) and zero are below *)
(* the threshold; "Upda" read as an int is not.                              *)
OverThreshold(perform) == perform.disk.src = Text

(* Mutant: the struct is zeroed at the end of every round of the loop.       *)
CheckClears(i) ==
  /\ mpc[i] = "check"
  /\ BeginMeasurement(i)
  /\ IF i = Master
       THEN table' = [table EXCEPT ![i] = ZeroStruct] /\ UNCHANGED local
       ELSE local' = [local EXCEPT ![i] = ZeroStruct] /\ UNCHANGED table
  /\ UNCHANGED <<stream, alarmed, reporterVars, handlerVars>>

(* The thresholds are tested on the shared memory, not on what was just      *)
(* measured; the loop starts again after its sleep.                          *)
Check(i) ==
  /\ mpc[i] = "check"
  /\ alarmed' = IF OverThreshold(Own(i)) THEN alarmed \cup {i} ELSE alarmed
  /\ BeginMeasurement(i)
  /\ UNCHANGED <<local, table, stream, reporterVars, handlerVars>>

-----------------------------------------------------------------------------
(* Reporters.                                                                *)

(* Mutant: no sleep before the first report.                                 *)
ReadyAtOnce(s) == local[s] \in Struct

(* The sleep(2) before the first report lets the monitor of the slave finish *)
(* its first fill, as a rule.                                                *)
Ready(s) == local[s].disk.src = s /\ local[s].idx # Master

(* Mutant: what is written last is read first.                               *)
SendUnordered(s, segment) ==
  /\ Len(stream[s]) < MaxBacklog
  /\ stream' = IF hpc[s] \in {"refused", "gone"}
                 THEN stream
                 ELSE [stream EXCEPT ![s] = <<segment>> \o @]

(* A write is accepted as long as the connection is not known to be lost.    *)
Send(s, segment) ==
  /\ Len(stream[s]) < MaxBacklog
  /\ stream' = IF hpc[s] \in {"refused", "gone"}
                 THEN stream
                 ELSE [stream EXCEPT ![s] = Append(@, segment)]

(* The result of this write is overwritten by that of the next one.          *)
WriteHeader(s) ==
  /\ rpc[s] = "header"
  /\ Ready(s) \/ "unready" \in Faults
  /\ Send(s, TextStruct)
  /\ rpc' = [rpc EXCEPT ![s] = "copy"]
  /\ UNCHANGED <<table, out, monitorVars, handlerVars>>

(* memcpy(sndBuffer, sharedM, ...).  One step is enough: the monitor may     *)
(* store the fields of a measurement in any order, so every mixture of two   *)
(* measurements is in the memory at some moment.                             *)
Copy(s) ==
  /\ rpc[s] = "copy"
  /\ out' = [out EXCEPT ![s] = local[s]]
  /\ rpc' = [rpc EXCEPT ![s] = "record"]
  /\ UNCHANGED <<table, stream, monitorVars, handlerVars>>

(* Mutant: the header is sent once, when the connection is made.             *)
WriteRecordOneHeader(s) ==
  /\ rpc[s] = "record"
  /\ hpc[s] # "refused"
  /\ Send(s, out[s])
  /\ rpc' = [rpc EXCEPT ![s] = "copy"]
  /\ UNCHANGED <<table, out, monitorVars, handlerVars>>

WriteRecord(s) ==
  /\ rpc[s] = "record"
  /\ hpc[s] # "refused"
  /\ Send(s, out[s])
  /\ rpc' = [rpc EXCEPT ![s] = "header"]
  /\ UNCHANGED <<table, out, monitorVars, handlerVars>>

(* Mutant: the reporter goes on after an error, as the handler does.         *)
RecordFailsContinue(s) ==
  /\ rpc[s] = "record"
  /\ hpc[s] \in {"refused", "gone"}
  /\ rpc' = [rpc EXCEPT ![s] = "header"]
  /\ UNCHANGED <<table, stream, out, monitorVars, handlerVars>>

(* write returns -1 (SIGPIPE is ignored): the reporter ends, its monitor     *)
(* goes on.                                                                  *)
RecordFails(s) ==
  /\ rpc[s] = "record"
  /\ hpc[s] \in {"refused", "gone"}
  /\ rpc' = [rpc EXCEPT ![s] = "exit"]
  /\ UNCHANGED <<table, stream, out, monitorVars, handlerVars>>

-----------------------------------------------------------------------------
(* Handlers.                                                                 *)

Drop(s, k) == stream' = [stream EXCEPT ![s] = SubSeq(@, k + 1, Len(@))]

(* Mutant: whatever is read first counts as a header.                        *)
FirstReadAnything(s, k) ==
  /\ hpc[s] = "first"
  /\ hpc' = [hpc EXCEPT ![s] = "second"]
  /\ Drop(s, k)
  /\ UNCHANGED <<table, got, left, monitorVars, reporterVars>>

(* Mutant: the buffer that holds the header is stored, without a second read. *)
FirstReadOnly(s, k) ==
  /\ hpc[s] = "first"
  /\ hpc' = [hpc EXCEPT ![s] = IF IsHeader(stream[s][1]) THEN "store" ELSE "first"]
  /\ got' = [got EXCEPT ![s] = stream[s][1]]
  /\ left' = [left EXCEPT ![s] = IF IsHeader(stream[s][1]) THEN Fields ELSE {}]
  /\ Drop(s, k)
  /\ UNCHANGED <<table, monitorVars, reporterVars>>

(* A read that fails is tried again, which changes nothing, so only reads    *)
(* that return something are steps.  Of the k segments returned only the     *)
(* first four bytes of the first count; the others are lost with revBuffer.  *)
FirstRead(s, k) ==
  /\ hpc[s] = "first"
  /\ hpc' = [hpc EXCEPT ![s] = IF IsHeader(stream[s][1]) THEN "second" ELSE "first"]
  /\ Drop(s, k)
  /\ UNCHANGED <<table, got, left, monitorVars, reporterVars>>

Closed(s) == stream[s] = <<>> /\ rpc[s] = "exit"

(* Mutant: an end of file is tried again like an error.                      *)
FirstReadEOFContinue(s) ==
  /\ hpc[s] = "first"
  /\ Closed(s)
  /\ UNCHANGED vars

FirstReadEOF(s) ==
  /\ hpc[s] = "first"
  /\ Closed(s)
  /\ hpc' = [hpc EXCEPT ![s] = "gone"]
  /\ UNCHANGED <<table, stream, got, left, monitorVars, reporterVars>>

(* Mutant: a read shorter than a record leaves the slave_index of the record *)
(* before.                                                                   *)
AcceptKeepsIndex(s, buf) ==
  /\ hpc' = [hpc EXCEPT ![s] = "store"]
  /\ got' = [got EXCEPT ![s] = IF buf.idx = Master THEN [buf EXCEPT !.idx = got[s].idx] ELSE buf]
  /\ left' = [left EXCEPT ![s] = Fields]
  /\ UNCHANGED <<table, monitorVars, reporterVars>>

(* The second read is stored whatever it returned.                           *)
Accept(s, buf) ==
  /\ hpc' = [hpc EXCEPT ![s] = "store"]
  /\ got' = [got EXCEPT ![s] = buf]
  /\ left' = [left EXCEPT ![s] = Fields]
  /\ UNCHANGED <<table, monitorVars, reporterVars>>

(* The first segment decides: a record fills the whole struct, and a header  *)
(* alone leaves the rest of the zeroed buffer.                               *)
SecondRead(s, k) ==
  /\ hpc[s] = "second"
  /\ IsHeader(stream[s][1]) => k = 1
  /\ Accept(s, stream[s][1])
  /\ Drop(s, k)

(* A header and the record behind it: slave_index is taken from the middle   *)
(* of CPUload_id and CPUload_wa.  With a record that was complete this is    *)
(* an index far outside the table and the handler dies of it; with one that  *)
(* was not it may be zero.                                                   *)
StrayRead(s, k) ==
  /\ hpc[s] = "second"
  /\ IsHeader(stream[s][1])
  /\ k > 1
  /\ \/ /\ hpc' = [hpc EXCEPT ![s] = "gone"]
        /\ stream' = [stream EXCEPT ![s] = <<>>]
        /\ UNCHANGED <<table, got, left, monitorVars, reporterVars>>
     \/ /\ stream[s][2].disk = Blank \/ stream[s][2].idx = Master
        /\ Accept(s, TextStruct)
        /\ Drop(s, k)

SecondReadEOF(s) ==
  /\ hpc[s] = "second"
  /\ Closed(s)
  /\ Accept(s, ZeroStruct)
  /\ UNCHANGED stream

SecondReadTimeout(s) ==
  /\ "timeout" \in Faults
  /\ hpc[s] = "second"
  /\ Accept(s, ZeroStruct)
  /\ UNCHANGED stream

(* memcpy(&sharedM[revSerInfo.slave_index], &revSerInfo, ...), a field at a  *)
(* time.                                                                     *)
StoreField(s, f) ==
  /\ hpc[s] = "store"
  /\ f \in left[s]
  /\ table' = [table EXCEPT ![got[s].idx] = Patch(@, got[s], f)]
  /\ left' = [left EXCEPT ![s] = @ \ {f}]
  /\ hpc' = [hpc EXCEPT ![s] = IF left[s] = {f} THEN "first" ELSE @]
  /\ UNCHANGED <<stream, got, monitorVars, reporterVars>>

Read(s) == \E k \in 1..Len(stream[s]) : FirstRead(s, k) \/ SecondRead(s, k) \/ StrayRead(s, k)

-----------------------------------------------------------------------------
(* killP.sh or a signal stops every process of a server.  What a slave wrote *)
(* before is still delivered; with the master go its handlers and what they  *)
(* had not read.                                                             *)
Kill(i) ==
  /\ "kill" \in Faults
  /\ mpc[i] # "stopped"
  /\ mpc' = [mpc EXCEPT ![i] = "stopped"]
  /\ todo' = [todo EXCEPT ![i] = {}]
  /\ IF i = Master
       THEN /\ hpc' = [s \in Slaves |-> IF hpc[s] = "refused" THEN "refused" ELSE "gone"]
            /\ left' = [s \in Slaves |-> {}]
            /\ stream' = [s \in Slaves |-> <<>>]
            /\ UNCHANGED rpc
       ELSE rpc' = [rpc EXCEPT ![i] = "exit"] /\ UNCHANGED <<hpc, left, stream>>
  /\ UNCHANGED <<local, table, taken, out, got, alarmed>>

Monitor(i) == MonitorStart(i) \/ Check(i) \/ \E f \in Fields : Fill(i, f)

Reporter(s) == WriteHeader(s) \/ Copy(s) \/ WriteRecord(s) \/ RecordFails(s)

Handler(s) == Read(s) \/ FirstReadEOF(s) \/ SecondReadEOF(s) \/ \E f \in Fields : StoreField(s, f)

Next ==
  \/ \E i \in Servers : Monitor(i) \/ Kill(i)
  \/ \E s \in Slaves : Reporter(s) \/ Handler(s) \/ SecondReadTimeout(s)

Spec == Init /\ [][Next]_vars

(* Every process is scheduled.  A write to a connection the other side has   *)
(* left is answered by a reset, so such writes do not succeed for ever.      *)
Fairness ==
  /\ \A i \in Servers : WF_vars(Monitor(i))
  /\ \A s \in Slaves : WF_vars(Reporter(s)) /\ WF_vars(Handler(s)) /\ SF_vars(RecordFails(s))

FairSpec == Spec /\ Fairness

-----------------------------------------------------------------------------
(* Where measurements can be, from the monitor of a slave to the table.      *)

RecordOf(p, s) ==
  /\ MeasuredBy(p.disk, s, taken[s])
  /\ p.idx \in {Master, s}

BufferOf(p, s) == RecordOf(p, s) \/ p = TextStruct

(* A monitor has measured when it has started, and not before.               *)
Started ==
  \A i \in Servers :
    /\ mpc[i] = "start" => taken[i] = 0 /\ (i # Master => local[i] = ZeroStruct)
    /\ mpc[i] \in {"fill", "check"} => taken[i] > 0

Owned(s) ==
  /\ RecordOf(local[s], s)
  /\ RecordOf(out[s], s)
  /\ \A j \in 1..Len(stream[s]) : BufferOf(stream[s][j], s)
  /\ BufferOf(got[s], s)

(* Everything between the monitor of a slave and the table is a record of    *)
(* this slave or the characters of the header.                               *)
BuffersOwned == \A s \in Slaves : Owned(s)

(* Whatever is lost, coalesced, late or killed: the slot of a slave holds    *)
(* zero or a measurement of this slave (never another's, never the           *)
(* characters of a header), under the index 0 or its own, and the slot 0     *)
(* always has the index 0 (process_conn_server, memcpy to sharedM[index]).   *)
SlotOwner ==
  /\ \A s \in Slaves : RecordOf(table[s], s)
  /\ table[Master].idx = Master

Records(s) == {j \in 1..Len(stream[s]) : ~IsHeader(stream[s][j])}

Pending(s) == hpc[s] = "store" /\ got[s].idx = s

Ordered(s) ==
  /\ NotAfter(out[s], local[s])
  /\ NotAfter(table[s], out[s])
  /\ \A j \in Records(s) :
       /\ NotAfter(stream[s][j], out[s])
       /\ NotAfter(table[s], stream[s][j])
       /\ \A k \in Records(s) : j < k => NotAfter(stream[s][j], stream[s][k])
  /\ Pending(s) =>
       /\ NotAfter(got[s], out[s])
       /\ NotAfter(table[s], got[s])
       /\ \A j \in Records(s) : NotAfter(got[s], stream[s][j])

(* Nothing overtakes on the way from the struct of a slave to its slot: what *)
(* is further ahead is never the more recent one, over any number of lost    *)
(* records, coalesced reads and torn stores.                                 *)
InOrder == \A s \in Slaves : Ordered(s)

(* What every step preserves: an inductive invariant.                        *)
Inv == TypeOK /\ Started /\ BuffersOwned /\ SlotOwner /\ InOrder

(* Except for the zeroing by which the monitor of the master starts, the     *)
(* slot of a slave never goes back to an older measurement and never loses   *)
(* its index.                                                                *)
SlotForward == [][~MonitorStart(Master) => \A s \in Slaves : NotAfter(table[s], table'[s])]_vars

(* The master's table is the table of independent registers of ClusterTable. *)
Table == INSTANCE ClusterTable WITH table <- table, taken <- taken
TableSpec == Table!TableSpec

(* Only the monitor of the master changes the slot 0.  True when every       *)
(* segment is read before the next is written and nothing fails; see the     *)
(* runs for what happens otherwise.                                          *)
MasterSlotOwn == [][table'[Master] # table[Master] => Monitor(Master)]_vars

(* "sending twitter alarm message if it reaches threashold" (extFunc.c:423): *)
(* no measurement of the test data does.                                     *)
NoFalseAlarm == alarmed = {}

(* p is the struct of s after the first fill.                                *)
IsReport(p, s) == p.disk.src = s /\ p.idx = s

(* The two reads of a handler stay in step with the two writes of its        *)
(* reporter, and every record is a complete one.  True under the conditions  *)
(* of MasterSlotOwn.                                                         *)
InStep ==
  \A s \in Slaves :
    /\ \/ hpc[s] = "refused" /\ stream[s] = <<>>
       \/ hpc[s] \in {"first", "store"} /\ rpc[s] = "header" /\ stream[s] = <<>>
       \/ hpc[s] \in {"first", "store"} /\ rpc[s] \in {"copy", "record"} /\ stream[s] = <<TextStruct>>
       \/ hpc[s] = "second" /\ rpc[s] \in {"copy", "record"} /\ stream[s] = <<>>
       \/ hpc[s] = "second" /\ rpc[s] = "header" /\ stream[s] = <<out[s]>> /\ IsReport(out[s], s)
    /\ rpc[s] \in {"copy", "record"} => IsReport(local[s], s)
    /\ rpc[s] = "record" => IsReport(out[s], s)
    /\ hpc[s] = "store" => IsReport(got[s], s)

Usual == \A s \in Slaves : Len(stream[s]) <= 1

(* A handler that took a header for a record, or a record for a header, does *)
(* so only as long as reads keep returning several segments or time out:     *)
(* afterwards it falls in step again by itself, and records are stored in    *)
(* the slot of their slave for as long as the slave reports.                 *)
FallsInStep ==
  (<>[]Usual /\ <>[][\A s \in Slaves : ~SecondReadTimeout(s)]_vars) =>
    \A s \in Slaves : []<>(rpc[s] = "exit" \/ Pending(s))

(* Under the same conditions a measurement of a slave reaches its slot, or a *)
(* more recent one does, for as long as the slave reports: what the faults   *)
(* did before is made good.                                                  *)
ReportReaches ==
  (<>[]Usual /\ <>[][\A s \in Slaves : ~SecondReadTimeout(s)]_vars) =>
    \A s \in Slaves : \A n \in 1..MaxTaken :
      taken[s] >= n ~> (rpc[s] = "exit" \/ table[s].disk.n >= n)

(* Whatever a handler puts into the slot 0, the monitor of the master puts   *)
(* its own measurement back there.                                           *)
MasterRestored == []<>(mpc[Master] = "stopped" \/ table[Master].disk.src = Master)

(* A slave whose connection is refused or lost stops reporting, although it  *)
(* looks at the result of no connect and of one write out of two.            *)
ReporterEnds == \A s \in Slaves : hpc[s] \in {"refused", "gone"} ~> rpc[s] = "exit"

(* The handler of a slave that has ended ends, in the middle of a report     *)
(* too.                                                                      *)
HandlerEnds == \A s \in Slaves : rpc[s] = "exit" ~> hpc[s] \in {"refused", "gone"}
=============================================================================
