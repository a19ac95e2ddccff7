-------------------------- MODULE ReportingProofs --------------------------
(* Proofs about Reporting for any number of slaves, any set of faults, any   *)
(* backlog and any MaxTaken.                                                 *)
EXTENDS Reporting, StructProofs, TLAPS

-----------------------------------------------------------------------------
(* Type correctness.                                                         *)

(* What a measurement assigns, and what a read returns, is a struct.         *)
LEMMA StepTypes ==
  ASSUME TypeOK
  PROVE  /\ \A i \in Servers : Measured(i) \in Struct
         /\ \A s \in Slaves : \A k \in 1..Len(stream[s]) :
              /\ stream[s][k] \in Struct
              /\ SubSeq(stream[s], k + 1, Len(stream[s])) \in Seq(Struct)
<1>1. ASSUME NEW i \in Servers PROVE Measured(i) \in Struct
  BY MaxTakenAssumption DEF TypeOK, Measured, Load, Struct, Disk, Servers
<1>2. ASSUME NEW s \in Slaves, NEW k \in 1..Len(stream[s])
      PROVE  /\ stream[s][k] \in Struct
             /\ SubSeq(stream[s], k + 1, Len(stream[s])) \in Seq(Struct)
  <2>1. stream[s] \in Seq(Struct)
    BY DEF TypeOK
  <2> QED
    BY <2>1, DropFacts
<1> QED
  BY <1>1, <1>2

(* Every step keeps every variable in its set.                               *)
LEMMA TypeStep == TypeOK /\ [Next]_vars => TypeOK'
<1> SUFFICES ASSUME TypeOK, [Next]_vars PROVE TypeOK'
  OBVIOUS
<1> USE DEF monitorVars, reporterVars, handlerVars
<1>1. ASSUME NEW i \in Servers, MonitorStart(i) PROVE TypeOK'
  <2>1. taken' \in [Servers -> 0..MaxTaken]
    BY <1>1, BumpFacts DEF TypeOK, MonitorStart, BeginMeasurement
  <2>2. /\ table' \in [Servers -> Struct]
        /\ local' \in [Slaves -> Struct]
    <3>1. ZeroStruct \in Struct
      BY StructFacts
    <3>2. CASE i = Master
      BY <1>1, <3>1, <3>2 DEF TypeOK, MonitorStart
    <3>3. CASE i # Master
      BY <1>1, <3>1, <3>3 DEF TypeOK, MonitorStart
    <3> QED
      BY <3>2, <3>3
  <2>3. /\ todo' \in [Servers -> SUBSET Fields]
        /\ mpc' \in [Servers -> {"start", "fill", "check", "stopped"}]
    BY <1>1 DEF TypeOK, MonitorStart, BeginMeasurement
  <2> QED
    BY <1>1, <2>1, <2>2, <2>3 DEF TypeOK, MonitorStart
<1>2. ASSUME NEW i \in Servers, NEW f \in Fields, Fill(i, f) PROVE TypeOK'
  <2>1. \A old \in Struct : Patch(old, Measured(i), f) \in Struct
    BY StepTypes, PatchFacts
  <2>2. /\ local' \in [Slaves -> Struct]
        /\ table' \in [Servers -> Struct]
    <3>1. CASE i = Master
      BY <1>2, <2>1, <3>1 DEF TypeOK, Fill
    <3>2. CASE i # Master
      <4>1. i \in Slaves
        BY <3>2 DEF Servers
      <4>2. Patch(local[i], Measured(i), f) \in Struct
        BY <2>1, <4>1 DEF TypeOK
      <4>3. local' = [local EXCEPT ![i] = Patch(@, Measured(i), f)] /\ UNCHANGED table
        BY <1>2, <3>2 DEF Fill
      <4> QED
        BY <4>1, <4>2, <4>3 DEF TypeOK
    <3> QED
      BY <3>1, <3>2
  <2> QED
    BY <1>2, <2>2 DEF TypeOK, Fill
<1>3. ASSUME NEW i \in Servers, Check(i) PROVE TypeOK'
  <2>1. taken' \in [Servers -> 0..MaxTaken]
    BY <1>3, BumpFacts DEF TypeOK, Check, BeginMeasurement
  <2> QED
    BY <1>3, <2>1 DEF TypeOK, Check, BeginMeasurement
<1>4. ASSUME NEW i \in Servers, Kill(i) PROVE TypeOK'
  <2>1. /\ mpc' \in [Servers -> {"start", "fill", "check", "stopped"}]
        /\ todo' \in [Servers -> SUBSET Fields]
    BY <1>4 DEF TypeOK, Kill
  <2>2. CASE i = Master
    <3>1. stream' \in [Slaves -> Seq(Struct)]
      <4>1. <<>> \in Seq(Struct)
        OBVIOUS
      <4> QED
        BY <1>4, <2>2, <4>1 DEF Kill
    <3>2. hpc' \in [Slaves -> {"refused", "first", "second", "store", "gone"}]
      BY <1>4, <2>2 DEF TypeOK, Kill
    <3>3. left' \in [Slaves -> SUBSET Fields]
      BY <1>4, <2>2 DEF Kill
    <3> QED
      BY <1>4, <2>1, <2>2, <3>1, <3>2, <3>3 DEF TypeOK, Kill
  <2>3. CASE i # Master
    <3>1. rpc' \in [Slaves -> {"header", "copy", "record", "exit"}] /\ UNCHANGED <<hpc, left, stream>>
      BY <1>4, <2>3 DEF TypeOK, Kill
    <3>2. UNCHANGED <<local, table, taken, out, got, alarmed>>
      BY <1>4 DEF Kill
    <3> QED
      BY <2>1, <3>1, <3>2 DEF TypeOK
  <2> QED
    BY <2>2, <2>3
<1>5. ASSUME NEW s \in Slaves, WriteHeader(s) PROVE TypeOK'
  BY <1>5, StructFacts DEF TypeOK, WriteHeader, Send
<1>6. ASSUME NEW s \in Slaves, Copy(s) PROVE TypeOK'
  BY <1>6 DEF TypeOK, Copy
<1>7. ASSUME NEW s \in Slaves, WriteRecord(s) PROVE TypeOK'
  BY <1>7 DEF TypeOK, WriteRecord, Send
<1>8. ASSUME NEW s \in Slaves, RecordFails(s) PROVE TypeOK'
  BY <1>8 DEF TypeOK, RecordFails
<1>9. ASSUME NEW s \in Slaves, Read(s) PROVE TypeOK'
  <2>1. PICK k \in 1..Len(stream[s]) : FirstRead(s, k) \/ SecondRead(s, k) \/ StrayRead(s, k)
    BY <1>9 DEF Read
  <2>2. /\ stream[s][1] \in Struct
        /\ SubSeq(stream[s], k + 1, Len(stream[s])) \in Seq(Struct)
        /\ <<>> \in Seq(Struct)
    <3>1. stream[s] \in Seq(Struct)
      BY DEF TypeOK
    <3>2. Len(stream[s]) \in Nat /\ 1 \in 1..Len(stream[s])
      BY <3>1
    <3> QED
      BY <3>2, StepTypes
  <2>3. CASE FirstRead(s, k)
    BY <2>2, <2>3 DEF TypeOK, FirstRead, Drop
  <2>4. CASE SecondRead(s, k)
    BY <2>2, <2>4 DEF TypeOK, SecondRead, Accept, Drop
  <2>5. CASE StrayRead(s, k)
    <3>1. stream' \in [Slaves -> Seq(Struct)]
      BY <2>2, <2>5 DEF TypeOK, StrayRead, Drop
    <3>2. got' \in [Slaves -> Struct]
      BY <2>5, StructFacts DEF TypeOK, StrayRead, Accept
    <3>3. CASE hpc' = [hpc EXCEPT ![s] = "gone"] /\ UNCHANGED <<table, got, left, monitorVars, reporterVars>>
      BY <3>1, <3>2, <3>3 DEF TypeOK
    <3>4. CASE Accept(s, TextStruct)
      BY <3>1, <3>2, <3>4 DEF TypeOK, Accept
    <3> QED
      BY <2>5, <3>3, <3>4 DEF StrayRead
  <2> QED
    BY <2>1, <2>3, <2>4, <2>5
<1>10. ASSUME NEW s \in Slaves, FirstReadEOF(s) PROVE TypeOK'
  BY <1>10 DEF TypeOK, FirstReadEOF
<1>11. ASSUME NEW s \in Slaves, SecondReadEOF(s) \/ SecondReadTimeout(s) PROVE TypeOK'
  <2>1. Accept(s, ZeroStruct) /\ UNCHANGED stream
    BY <1>11 DEF SecondReadEOF, SecondReadTimeout
  <2>2. got' \in [Slaves -> Struct]
    BY <2>1, StructFacts DEF TypeOK, Accept
  <2> QED
    BY <2>1, <2>2 DEF TypeOK, Accept
<1>12. ASSUME NEW s \in Slaves, NEW f \in Fields, StoreField(s, f) PROVE TypeOK'
  <2>1. \A old \in Struct : Patch(old, got[s], f) \in Struct
    BY PatchFacts DEF TypeOK
  <2> QED
    BY <1>12, <2>1 DEF TypeOK, StoreField
<1>13. CASE UNCHANGED vars
  BY <1>13 DEF TypeOK, vars
<1> QED
  BY <1>1, <1>2, <1>3, <1>4, <1>5, <1>6, <1>7, <1>8, <1>9, <1>10, <1>11, <1>12, <1>13
     DEF Next, Monitor, Reporter, Handler

(* The initial values.                                                       *)
LEMMA InitTyped == Init => TypeOK
<1> SUFFICES ASSUME Init PROVE TypeOK
  OBVIOUS
<1>1. 0 \in 0..MaxTaken /\ <<>> \in Seq(Struct)
  BY MaxTakenAssumption
<1>2. /\ local \in [Slaves -> Struct]
      /\ table \in [Servers -> Struct]
      /\ out \in [Slaves -> Struct]
      /\ got \in [Slaves -> Struct]
  BY StructFacts DEF Init
<1> QED
  BY <1>1, <1>2 DEF Init, TypeOK

(* Every process always finds structs in the shared memory, structs on its   *)
(* connection, and a slave_index that names a slot of the table.             *)
THEOREM TypeCorrect == Spec => []TypeOK
BY InitTyped, TypeStep, PTL DEF Spec

-----------------------------------------------------------------------------
(* How each variable can change in one step.                                 *)

(* The kinds of steps, whoever takes them.                                   *)
LEMMA StepCases ==
  ASSUME [Next]_vars
  PROVE  \/ \E i \in Servers : MonitorStart(i) \/ Check(i) \/ Kill(i)
         \/ \E i \in Servers, f \in Fields : Fill(i, f)
         \/ \E t \in Slaves : WriteHeader(t) \/ Copy(t) \/ WriteRecord(t) \/ RecordFails(t)
         \/ \E t \in Slaves : \E k \in 1..Len(stream[t]) :
              FirstRead(t, k) \/ SecondRead(t, k) \/ StrayRead(t, k)
         \/ \E t \in Slaves : FirstReadEOF(t) \/ SecondReadEOF(t) \/ SecondReadTimeout(t)
         \/ \E t \in Slaves, f \in Fields : StoreField(t, f)
         \/ UNCHANGED vars
BY DEF Next, Monitor, Reporter, Handler, Read

(* Only a monitor counts measurements, and it never counts down.             *)
LEMMA TakenChange ==
  ASSUME TypeOK, [Next]_vars, NEW i \in Servers
  PROVE  taken[i] \in Nat /\ taken'[i] \in Nat /\ taken[i] <= taken'[i]
<1>1. taken[i] \in 0..MaxTaken /\ taken[i] \in Nat
  BY MaxTakenAssumption DEF TypeOK
<1>2. Bump(taken[i]) \in Nat /\ taken[i] <= Bump(taken[i])
  BY <1>1, BumpFacts, MaxTakenAssumption
<1>3. taken' = taken \/ \E j \in Servers : taken' = [taken EXCEPT ![j] = Bump(@)]
  BY StepCases
     DEF MonitorStart, Check, BeginMeasurement, Kill, Fill, WriteHeader, Copy, WriteRecord,
         RecordFails, FirstRead, SecondRead, StrayRead, FirstReadEOF, SecondReadEOF,
         SecondReadTimeout, Accept, StoreField, monitorVars, vars
<1> QED
  BY <1>1, <1>2, <1>3 DEF TypeOK

(* The struct of a slave is written by its own monitor only.                 *)
LEMMA LocalChange ==
  ASSUME TypeOK, [Next]_vars, NEW s \in Slaves
  PROVE  \/ local'[s] = local[s]
         \/ mpc[s] = "start" /\ local'[s] = ZeroStruct
         \/ \E f \in Fields :
              /\ mpc[s] = "fill"
              /\ taken'[s] = taken[s]
              /\ local'[s] = Patch(local[s], Measured(s), f)
<1>1. ASSUME NEW i \in Servers, MonitorStart(i)
      PROVE local'[s] = local[s] \/ (mpc[s] = "start" /\ local'[s] = ZeroStruct)
  BY <1>1, ServersAssumption DEF TypeOK, MonitorStart
<1>2. ASSUME NEW i \in Servers, NEW f \in Fields, Fill(i, f)
      PROVE \/ local'[s] = local[s]
            \/ /\ mpc[s] = "fill"
               /\ taken'[s] = taken[s]
               /\ local'[s] = Patch(local[s], Measured(s), f)
  BY <1>2, ServersAssumption DEF TypeOK, Fill
<1>3. \/ \E i \in Servers : MonitorStart(i)
      \/ \E i \in Servers, f \in Fields : Fill(i, f)
      \/ local' = local
  BY StepCases
     DEF Check, Kill, WriteHeader, Copy, WriteRecord, RecordFails, FirstRead, SecondRead,
         StrayRead, FirstReadEOF, SecondReadEOF, SecondReadTimeout, Accept, StoreField,
         monitorVars, vars
<1> QED
  BY <1>1, <1>2, <1>3

(* What a reporter sends is a copy of the struct of its slave.               *)
LEMMA OutChange ==
  ASSUME TypeOK, [Next]_vars, NEW s \in Slaves
  PROVE  out'[s] = out[s] \/ out'[s] = local[s]
<1>1. out' = out \/ \E t \in Slaves : out' = [out EXCEPT ![t] = local[t]]
  BY StepCases
     DEF MonitorStart, Check, Kill, Fill, WriteHeader, Copy, WriteRecord,
         RecordFails, FirstRead, SecondRead, StrayRead, FirstReadEOF, SecondReadEOF,
         SecondReadTimeout, Accept, StoreField, reporterVars, vars
<1> QED
  BY <1>1 DEF TypeOK

(* A connection is extended by its reporter, with a header or a copy of the  *)
(* struct, shortened from the front by its handler, or lost.                 *)
LEMMA StreamChange ==
  ASSUME TypeOK, [Next]_vars, NEW s \in Slaves
  PROVE  \/ stream'[s] = stream[s]
         \/ stream'[s] = Append(stream[s], TextStruct)
         \/ stream'[s] = Append(stream[s], out[s])
         \/ stream'[s] = <<>>
         \/ \E k \in 1..Len(stream[s]) : stream'[s] = SubSeq(stream[s], k + 1, Len(stream[s]))
<1>1. \/ stream' = stream
      \/ \E t \in Slaves : \/ stream' = [stream EXCEPT ![t] = Append(@, TextStruct)]
                           \/ stream' = [stream EXCEPT ![t] = Append(@, out[t])]
                           \/ stream' = [stream EXCEPT ![t] = <<>>]
                           \/ \E k \in 1..Len(stream[t]) : Drop(t, k)
      \/ stream' = [t \in Slaves |-> <<>>]
  BY StepCases
     DEF MonitorStart, Check, Kill, Fill, WriteHeader, Copy, WriteRecord, Send,
         RecordFails, FirstRead, SecondRead, StrayRead, FirstReadEOF, SecondReadEOF,
         SecondReadTimeout, Accept, StoreField, vars
<1>2. ASSUME NEW t \in Slaves, NEW q, stream' = [stream EXCEPT ![t] = q]
      PROVE  stream'[s] = IF s = t THEN q ELSE stream[s]
  BY <1>2 DEF TypeOK
<1>3. CASE \E t \in Slaves : \E k \in 1..Len(stream[t]) : Drop(t, k)
  BY <1>2, <1>3 DEF Drop
<1>4. CASE \E t \in Slaves : \/ stream' = [stream EXCEPT ![t] = Append(@, TextStruct)]
                             \/ stream' = [stream EXCEPT ![t] = Append(@, out[t])]
                             \/ stream' = [stream EXCEPT ![t] = <<>>]
  BY <1>2, <1>4
<1> QED
  BY <1>1, <1>3, <1>4

(* A handler takes what it stores from its own connection, or makes it of a  *)
(* buffer that holds nothing but zeros or a header.                          *)
LEMMA GotChange ==
  ASSUME TypeOK, [Next]_vars, NEW s \in Slaves
  PROVE  \/ got'[s] = got[s]
         \/ got'[s] \in {ZeroStruct, TextStruct}
         \/ 1 \in 1..Len(stream[s]) /\ got'[s] = stream[s][1]
<1>1. \A t \in Slaves : stream[t] \in Seq(Struct)
  BY DEF TypeOK
<1>2. \A t \in Slaves : \A k \in 1..Len(stream[t]) : 1 \in 1..Len(stream[t])
  BY <1>1
<1>3. \/ got' = got
      \/ \E t \in Slaves : \E buf \in {ZeroStruct, TextStruct} : got' = [got EXCEPT ![t] = buf]
      \/ \E t \in Slaves : 1 \in 1..Len(stream[t]) /\ got' = [got EXCEPT ![t] = stream[t][1]]
  BY <1>2, StepCases
     DEF MonitorStart, Check, Kill, Fill, WriteHeader, Copy, WriteRecord,
         RecordFails, FirstRead, SecondRead, StrayRead, FirstReadEOF, SecondReadEOF,
         SecondReadTimeout, Accept, StoreField, handlerVars, vars
<1> QED
  BY <1>3 DEF TypeOK

-----------------------------------------------------------------------------
(* Ownership: nothing but measurements of a slave gets into its slot.        *)

(* What is a measurement of s remains one as s goes on measuring.            *)
LEMMA RecordsLast ==
  ASSUME TypeOK, [Next]_vars, NEW s \in Slaves, NEW p \in Struct, RecordOf(p, s)
  PROVE  MeasuredBy(p.disk, s, taken'[s]) /\ p.idx \in {Master, s}
<1>1. taken[s] \in Nat /\ taken'[s] \in Nat /\ taken[s] <= taken'[s]
  BY TakenChange DEF Servers
<1> QED
  BY <1>1 DEF RecordOf, MeasuredBy

(* The first measurement begins with the start of the monitor.               *)
LEMMA StartedStep == TypeOK /\ Started /\ [Next]_vars => Started'
<1> SUFFICES ASSUME TypeOK, Started, [Next]_vars, NEW i \in Servers
             PROVE  /\ mpc'[i] = "start" => taken'[i] = 0 /\ (i # Master => local'[i] = ZeroStruct)
                    /\ mpc'[i] \in {"fill", "check"} => taken'[i] > 0
  BY DEF Started
<1>1. ASSUME NEW j \in Servers, MonitorStart(j) \/ Check(j)
      PROVE /\ mpc'[j] = "fill" /\ taken'[j] > 0
            /\ i # j => mpc'[i] = mpc[i] /\ taken'[i] = taken[i]
            /\ i # j /\ i # Master => local'[i] = local[i]
  <2>1. taken[j] \in 0..MaxTaken /\ Bump(taken[j]) \in 1..MaxTaken
    BY BumpFacts DEF TypeOK
  <2>2. taken'[j] = Bump(taken[j]) /\ mpc'[j] = "fill"
    BY <1>1 DEF TypeOK, MonitorStart, Check, BeginMeasurement
  <2>3. i # j => mpc'[i] = mpc[i] /\ taken'[i] = taken[i]
    BY <1>1 DEF TypeOK, MonitorStart, Check, BeginMeasurement
  <2>4. i # j /\ i # Master => local'[i] = local[i]
    BY <1>1 DEF TypeOK, MonitorStart, Check, Servers
  <2> QED
    BY <2>1, <2>2, <2>3, <2>4, MaxTakenAssumption
<1>2. ASSUME NEW j \in Servers, NEW f \in Fields, Fill(j, f)
      PROVE /\ mpc[j] = "fill" /\ mpc'[j] \in {"fill", "check"} /\ taken' = taken
            /\ i # j => mpc'[i] = mpc[i]
            /\ i # j /\ i # Master => local'[i] = local[i]
  BY <1>2 DEF TypeOK, Fill, Servers
<1>3. ASSUME NEW j \in Servers, Kill(j)
      PROVE /\ mpc'[j] = "stopped" /\ taken' = taken /\ local' = local
            /\ i # j => mpc'[i] = mpc[i]
  BY <1>3 DEF TypeOK, Kill
<1>4. \/ \E j \in Servers : MonitorStart(j) \/ Check(j)
      \/ \E j \in Servers, f \in Fields : Fill(j, f)
      \/ \E j \in Servers : Kill(j)
      \/ UNCHANGED <<local, taken, mpc>>
  BY StepCases
     DEF WriteHeader, Copy, WriteRecord, RecordFails, FirstRead, SecondRead, StrayRead,
         FirstReadEOF, SecondReadEOF, SecondReadTimeout, Accept, StoreField, monitorVars, vars
<1> QED
  BY <1>1, <1>2, <1>3, <1>4 DEF Started

(* Every buffer on the way of a report goes on holding records of its slave  *)
(* and headers only.                                                         *)
LEMMA OwnedStep == TypeOK /\ Started /\ BuffersOwned /\ [Next]_vars => BuffersOwned'
<1> SUFFICES ASSUME TypeOK, Started, BuffersOwned, [Next]_vars, NEW s \in Slaves
             PROVE  Owned(s)'
  BY DEF BuffersOwned
<1> DEFINE StillRecord(p) == MeasuredBy(p.disk, s, taken'[s]) /\ p.idx \in {Master, s}
<1> s \in Servers
  BY DEF Servers
<1>1. /\ local[s] \in Struct /\ out[s] \in Struct /\ got[s] \in Struct
      /\ stream[s] \in Seq(Struct)
  BY DEF TypeOK
<1>2. /\ RecordOf(local[s], s) /\ RecordOf(out[s], s) /\ BufferOf(got[s], s)
      /\ \A j \in 1..Len(stream[s]) : BufferOf(stream[s][j], s)
  BY DEF BuffersOwned, Owned
<1>3. \A p \in Struct : RecordOf(p, s) => StillRecord(p)
  BY RecordsLast
<1>4. StillRecord(ZeroStruct)
  BY DEF ZeroStruct, MeasuredBy
<1>5. StillRecord(local'[s])
  <2>1. ASSUME NEW f \in Fields, mpc[s] = "fill", taken'[s] = taken[s],
               local'[s] = Patch(local[s], Measured(s), f)
        PROVE  StillRecord(local'[s])
    <3>1. Measured(s) \in Struct /\ Measured(s).idx = s /\ Measured(s).disk = Load(s, taken[s])
      BY StepTypes DEF Measured
    <3>2. taken[s] \in Nat /\ taken[s] > 0
      BY <2>1, MaxTakenAssumption DEF Started, TypeOK
    <3>3. StillRecord(local[s])
      BY <1>1, <1>2, <1>3
    <3>4. /\ local'[s].disk = IF f = "disk" THEN Measured(s).disk ELSE local[s].disk
          /\ local'[s].idx = IF f = "disk" THEN local[s].idx ELSE Measured(s).idx
      BY <1>1, <2>1, <3>1, PatchMixes
    <3> QED
      BY <2>1, <3>1, <3>2, <3>3, <3>4 DEF MeasuredBy, Load
  <2> QED
    BY <1>1, <1>2, <1>3, <1>4, <2>1, LocalChange
<1>6. StillRecord(out'[s])
  BY <1>1, <1>2, <1>3, OutChange
<1>7. StillRecord(got'[s]) \/ got'[s] = TextStruct
  BY <1>1, <1>2, <1>3, <1>4, GotChange DEF BufferOf
<1>8. \A j \in 1..Len(stream'[s]) : StillRecord(stream'[s][j]) \/ stream'[s][j] = TextStruct
  <2> DEFINE Fine(q) == \A j \in 1..Len(q) : StillRecord(q[j]) \/ q[j] = TextStruct
  <2>1. Fine(stream[s])
    BY <1>1, <1>2, <1>3 DEF BufferOf
  <2>2. Fine(<<>>)
    OBVIOUS
  <2>3. Fine(Append(stream[s], TextStruct))
    BY <1>1, <2>1
  <2>4. Fine(Append(stream[s], out[s]))
    BY <1>1, <1>2, <1>3, <2>1
  <2>5. ASSUME NEW k \in 1..Len(stream[s])
        PROVE  Fine(SubSeq(stream[s], k + 1, Len(stream[s])))
    BY <1>1, <2>1, DropFacts
  <2> HIDE DEF Fine
  <2>6. Fine(stream'[s])
    BY <2>1, <2>2, <2>3, <2>4, <2>5, StreamChange
  <2> QED
    BY <2>6 DEF Fine
<1> QED
  BY <1>5, <1>6, <1>7, <1>8 DEF Owned, RecordOf, BufferOf

(* The slot of a slave is zeroed once, by the monitor of the master, and     *)
(* otherwise written only by the handler of this slave, from a record that   *)
(* carries the index of this slave.                                          *)
LEMMA SlotChange ==
  ASSUME TypeOK, BuffersOwned, [Next]_vars, NEW s \in Slaves
  PROVE  \/ table'[s] = table[s]
         \/ MonitorStart(Master) /\ table'[s] = ZeroStruct
         \/ \E f \in Fields : StoreField(s, f) /\ Pending(s) /\ table'[s] = Patch(table[s], got[s], f)
<1> s \in Servers /\ s # Master
  BY ServersAssumption DEF Servers
<1>1. ASSUME NEW i \in Servers, MonitorStart(i)
      PROVE table'[s] = table[s] \/ (MonitorStart(Master) /\ table'[s] = ZeroStruct)
  BY <1>1 DEF MonitorStart
<1>2. ASSUME NEW i \in Servers, NEW f \in Fields, Fill(i, f)
      PROVE table'[s] = table[s]
  BY <1>2 DEF TypeOK, Fill
<1>3. ASSUME NEW t \in Slaves, NEW f \in Fields, StoreField(t, f)
      PROVE \/ table'[s] = table[s]
            \/ StoreField(s, f) /\ Pending(s) /\ table'[s] = Patch(table[s], got[s], f)
  <2>1. got[t].idx \in {Master, t}
    BY DEF BuffersOwned, Owned, BufferOf, RecordOf, TextStruct
  <2>2. CASE got[t].idx = s
    <3>1. t = s
      BY <2>1, <2>2
    <3> QED
      BY <1>3, <2>2, <3>1 DEF TypeOK, StoreField, Pending
  <2>3. CASE got[t].idx # s
    BY <1>3, <2>3 DEF TypeOK, StoreField
  <2> QED
    BY <2>2, <2>3
<1>4. \/ \E i \in Servers : MonitorStart(i)
      \/ \E i \in Servers, f \in Fields : Fill(i, f)
      \/ \E t \in Slaves, f \in Fields : StoreField(t, f)
      \/ table' = table
  BY StepCases
     DEF Check, Kill, WriteHeader, Copy, WriteRecord, RecordFails, FirstRead, SecondRead,
         StrayRead, FirstReadEOF, SecondReadEOF, SecondReadTimeout, Accept, vars
<1> QED
  BY <1>1, <1>2, <1>3, <1>4

(* The slot 0 is written by the monitor of the master and by any handler,    *)
(* but only ever with the index 0.                                           *)
LEMMA MasterSlotChange ==
  ASSUME TypeOK, BuffersOwned, [Next]_vars, table[Master].idx = Master
  PROVE  table'[Master].idx = Master
<1> Master \in Servers /\ table[Master] \in Struct
  BY DEF TypeOK, Servers
<1>1. ASSUME NEW i \in Servers, MonitorStart(i) PROVE table'[Master].idx = Master
  BY <1>1 DEF MonitorStart, ZeroStruct
<1>2. ASSUME NEW i \in Servers, NEW f \in Fields, Fill(i, f) PROVE table'[Master].idx = Master
  <2>1. Measured(Master) \in Struct /\ Measured(Master).idx = Master
    BY StepTypes DEF Measured
  <2>2. Patch(table[Master], Measured(Master), f).idx = Master
    BY <2>1 DEF Patch, Struct, Fields
  <2>3. table'[Master] \in {table[Master], Patch(table[Master], Measured(Master), f)}
    BY <1>2 DEF TypeOK, Fill
  <2> QED
    BY <2>2, <2>3
<1>3. ASSUME NEW t \in Slaves, NEW f \in Fields, StoreField(t, f) PROVE table'[Master].idx = Master
  <2>1. CASE got[t].idx = Master
    <3>1. got[t] \in Struct
      BY DEF TypeOK
    <3>2. Patch(table[Master], got[t], f).idx = Master
      BY <2>1, <3>1, PatchMixes
    <3> QED
      BY <1>3, <2>1, <3>2 DEF TypeOK, StoreField
  <2>2. CASE got[t].idx # Master
    BY <1>3, <2>2 DEF TypeOK, StoreField
  <2> QED
    BY <2>1, <2>2
<1>4. \/ \E i \in Servers : MonitorStart(i)
      \/ \E i \in Servers, f \in Fields : Fill(i, f)
      \/ \E t \in Slaves, f \in Fields : StoreField(t, f)
      \/ table' = table
  BY StepCases
     DEF Check, Kill, WriteHeader, Copy, WriteRecord, RecordFails, FirstRead, SecondRead,
         StrayRead, FirstReadEOF, SecondReadEOF, SecondReadTimeout, Accept, vars
<1> QED
  BY <1>1, <1>2, <1>3, <1>4

(* The slots stay owned.                                                     *)
LEMMA SlotOwnerStep == TypeOK /\ BuffersOwned /\ SlotOwner /\ [Next]_vars => SlotOwner'
<1> SUFFICES ASSUME TypeOK, BuffersOwned, SlotOwner, [Next]_vars PROVE SlotOwner'
  OBVIOUS
<1>1. table'[Master].idx = Master
  BY MasterSlotChange DEF SlotOwner
<1>2. ASSUME NEW s \in Slaves
      PROVE  MeasuredBy(table'[s].disk, s, taken'[s]) /\ table'[s].idx \in {Master, s}
  <2> DEFINE StillRecord(p) == MeasuredBy(p.disk, s, taken'[s]) /\ p.idx \in {Master, s}
  <2>1. table[s] \in Struct /\ got[s] \in Struct
    BY DEF TypeOK, Servers
  <2>2. StillRecord(table[s])
    BY <2>1, RecordsLast DEF SlotOwner
  <2>3. StillRecord(ZeroStruct)
    BY DEF ZeroStruct, MeasuredBy
  <2>4. ASSUME NEW f \in Fields, Pending(s) PROVE StillRecord(Patch(table[s], got[s], f))
    <3>1. got[s].idx = s /\ s # Master
      BY <2>4, ServersAssumption DEF Pending
    <3>2. RecordOf(got[s], s)
      BY <3>1 DEF BuffersOwned, Owned, BufferOf, TextStruct
    <3>3. StillRecord(got[s])
      BY <2>1, <3>2, RecordsLast
    <3>4. /\ Patch(table[s], got[s], f).disk \in {table[s].disk, got[s].disk}
          /\ Patch(table[s], got[s], f).idx \in {table[s].idx, got[s].idx}
      BY <2>1, PatchMixes
    <3> QED
      BY <2>2, <3>3, <3>4
  <2> HIDE DEF StillRecord
  <2>5. StillRecord(table'[s])
    BY <2>2, <2>3, <2>4, SlotChange
  <2> QED
    BY <2>5 DEF StillRecord
<1> QED
  BY <1>1, <1>2 DEF SlotOwner, RecordOf

(* What holds at the start: nothing measured, nothing sent, all memory zero. *)
LEMMA InitOwned == Init => Started /\ BuffersOwned /\ SlotOwner
<1> SUFFICES ASSUME Init PROVE Started /\ BuffersOwned /\ SlotOwner
  OBVIOUS
<1>1. \A s \in Slaves : RecordOf(ZeroStruct, s)
  BY DEF RecordOf, MeasuredBy, ZeroStruct
<1>2. Started
  BY DEF Init, Started, Servers
<1>3. BuffersOwned
  BY <1>1 DEF Init, BuffersOwned, Owned, BufferOf
<1>4. SlotOwner
  BY <1>1 DEF Init, SlotOwner, Servers, ZeroStruct
<1> QED
  BY <1>2, <1>3, <1>4

(* Under every interleaving and every fault: the slot of a slave holds       *)
(* nothing but measurements of this slave, and the slot 0 keeps its index.   *)
THEOREM SlotsOwned == Spec => []SlotOwner
<1> DEFINE I == TypeOK /\ Started /\ BuffersOwned /\ SlotOwner
<1>1. Init => I
  BY InitTyped, InitOwned
<1>2. I /\ [Next]_vars => I'
  BY TypeStep, StartedStep, OwnedStep, SlotOwnerStep
<1> QED
  BY <1>1, <1>2, PTL DEF Spec

-----------------------------------------------------------------------------
(* Order: nothing overtakes on the way to a slot.  The steps are looked at   *)
(* for one slave, as changes of l (its struct), o (the copy its reporter     *)
(* sends), t (its slot), q (its connection) and g (what its handler stores,  *)
(* if p).                                                                    *)

Chain(l, o, t, q, g, p) ==
  /\ NotAfter(o, l)
  /\ NotAfter(t, o)
  /\ \A j \in 1..Len(q) : ~IsHeader(q[j]) =>
       /\ NotAfter(q[j], o)
       /\ NotAfter(t, q[j])
       /\ \A k \in 1..Len(q) : j < k /\ ~IsHeader(q[k]) => NotAfter(q[j], q[k])
  /\ p =>
       /\ NotAfter(g, o)
       /\ NotAfter(t, g)
       /\ \A j \in 1..Len(q) : ~IsHeader(q[j]) => NotAfter(g, q[j])

(* Chain, applied to the buffers of s, says what Ordered says of s.          *)
LEMMA ChainOfSlave ==
  ASSUME NEW s \in Slaves
  PROVE  Ordered(s) <=> Chain(local[s], out[s], table[s], stream[s], got[s], Pending(s))
BY DEF Ordered, Chain, Records

(* The same after a step.                                                    *)
LEMMA ChainOfSlaveNext ==
  ASSUME NEW s \in Slaves
  PROVE  Ordered(s)' <=> Chain(local'[s], out'[s], table'[s], stream'[s], got'[s], Pending(s)')
BY DEF Ordered, Chain, Records

(* What can be done to the five without disturbing the order.                *)
ChainKept(l, o, t, q, g, p) ==
  /\ \A m \in Struct : NotAfter(l, m) => Chain(m, o, t, q, g, p)
  /\ Chain(l, l, t, q, g, p)
  /\ \A m \in Struct : NotAfter(l, m) => Chain(m, o, ZeroStruct, q, g, p)
  /\ Chain(l, o, t, Append(q, TextStruct), g, p)
  /\ Chain(l, o, t, Append(q, o), g, p)
  /\ Chain(l, o, t, <<>>, g, p)
  /\ \A k \in 1..Len(q) : Chain(l, o, t, SubSeq(q, k + 1, Len(q)), g, p)
  /\ \A h \in Struct : Chain(l, o, t, q, h, FALSE) /\ Chain(l, o, t, <<>>, h, FALSE)
  /\ \A k \in 1..Len(q), h \in Struct : Chain(l, o, t, SubSeq(q, k + 1, Len(q)), h, FALSE)
  /\ \A k \in 1..Len(q) :
       ~IsHeader(q[1]) => Chain(l, o, t, SubSeq(q, k + 1, Len(q)), q[1], TRUE)
  /\ p => \A f \in Fields : Chain(l, o, Patch(t, g, f), q, g, p)

(* Every kind of change keeps the order.                                     *)
LEMMA ChainFacts ==
  ASSUME NEW l \in Struct, NEW o \in Struct, NEW t \in Struct, NEW q \in Seq(Struct),
         NEW g \in Struct, NEW p \in BOOLEAN, Chain(l, o, t, q, g, p)
  PROVE  ChainKept(l, o, t, q, g, p)
<1>0. \A j \in 1..Len(q) : q[j] \in Struct
  OBVIOUS
<1>1. ASSUME NEW m \in Struct, NotAfter(l, m) PROVE Chain(m, o, t, q, g, p)
  BY <1>1, NotAfterFacts DEF Chain
<1>2. Chain(l, l, t, q, g, p)
  BY <1>0, NotAfterFacts DEF Chain
<1>3. ASSUME NEW m \in Struct, NotAfter(l, m) PROVE Chain(m, o, ZeroStruct, q, g, p)
  BY <1>0, <1>3, NotAfterFacts DEF Chain
<1>4. Chain(l, o, t, Append(q, TextStruct), g, p)
  <2> DEFINE r == Append(q, TextStruct)
  <2>1. /\ Len(r) = Len(q) + 1
        /\ \A j \in 1..Len(r) : ~IsHeader(r[j]) => j \in 1..Len(q) /\ r[j] = q[j]
    BY StructFacts
  <2> HIDE DEF r
  <2>2. Chain(l, o, t, r, g, p)
    BY <2>1 DEF Chain
  <2> QED
    BY <2>2 DEF r
<1>5. Chain(l, o, t, Append(q, o), g, p)
  <2> DEFINE r == Append(q, o)
  <2>1. /\ Len(q) \in Nat
        /\ Len(r) = Len(q) + 1
        /\ \A j \in 1..Len(r) : (j \in 1..Len(q) /\ r[j] = q[j]) \/ (j = Len(q) + 1 /\ r[j] = o)
    OBVIOUS
  <2> HIDE DEF r
  <2>2. NotAfter(o, o)
    BY NotAfterFacts
  <2>3. ASSUME NEW j \in 1..Len(r), ~IsHeader(r[j])
        PROVE  /\ NotAfter(r[j], o)
               /\ NotAfter(t, r[j])
               /\ p => NotAfter(g, r[j])
    BY <2>1, <2>2, <2>3 DEF Chain
  <2>4. ASSUME NEW j \in 1..Len(r), NEW k \in 1..Len(r), j < k, ~IsHeader(r[j]), ~IsHeader(r[k])
        PROVE  NotAfter(r[j], r[k])
    BY <2>1, <2>4 DEF Chain
  <2>5. Chain(l, o, t, r, g, p)
    BY <2>3, <2>4 DEF Chain
  <2> QED
    BY <2>5 DEF r
<1>6. Chain(l, o, t, <<>>, g, p)
  BY DEF Chain
<1>7. ASSUME NEW k \in 1..Len(q) PROVE Chain(l, o, t, SubSeq(q, k + 1, Len(q)), g, p)
  <2> DEFINE r == SubSeq(q, k + 1, Len(q))
  <2>1. /\ Len(q) \in Nat
        /\ Len(r) = Len(q) - k
        /\ \A j \in 1..Len(r) : k + j \in 1..Len(q) /\ r[j] = q[k + j]
    BY DropFacts
  <2> HIDE DEF r
  <2>2. ASSUME NEW j \in 1..Len(r), ~IsHeader(r[j])
        PROVE  /\ NotAfter(r[j], o)
               /\ NotAfter(t, r[j])
               /\ p => NotAfter(g, r[j])
    BY <2>1, <2>2 DEF Chain
  <2>3. ASSUME NEW i \in 1..Len(r), NEW j \in 1..Len(r), i < j, ~IsHeader(r[i]), ~IsHeader(r[j])
        PROVE  NotAfter(r[i], r[j])
    <3>1. k + i \in 1..Len(q) /\ k + j \in 1..Len(q) /\ k + i < k + j
      BY <2>1, <2>3
    <3> QED
      BY <2>1, <2>3, <3>1 DEF Chain
  <2>4. Chain(l, o, t, r, g, p)
    BY <2>2, <2>3 DEF Chain
  <2> QED
    BY <2>4 DEF r
<1>8. ASSUME NEW h \in Struct
      PROVE  /\ Chain(l, o, t, q, h, FALSE) /\ Chain(l, o, t, <<>>, h, FALSE)
             /\ \A k \in 1..Len(q) : Chain(l, o, t, SubSeq(q, k + 1, Len(q)), h, FALSE)
  <2>1. ASSUME NEW r, Chain(l, o, t, r, g, p) PROVE Chain(l, o, t, r, h, FALSE)
    BY <2>1 DEF Chain
  <2> QED
    BY <1>6, <1>7, <2>1
<1>9. ASSUME NEW k \in 1..Len(q), ~IsHeader(q[1])
      PROVE  Chain(l, o, t, SubSeq(q, k + 1, Len(q)), q[1], TRUE)
  <2> DEFINE r == SubSeq(q, k + 1, Len(q))
  <2>1. /\ Len(q) \in Nat /\ 1 \in 1..Len(q)
        /\ Len(r) = Len(q) - k
        /\ \A j \in 1..Len(r) : k + j \in 1..Len(q) /\ 1 < k + j /\ r[j] = q[k + j]
    BY DropFacts
  <2>2. Chain(l, o, t, r, g, p)
    BY <1>7
  <2> HIDE DEF r
  <2>3. NotAfter(q[1], o) /\ NotAfter(t, q[1])
    BY <1>9, <2>1 DEF Chain
  <2>4. \A j \in 1..Len(r) : ~IsHeader(r[j]) => NotAfter(q[1], r[j])
    BY <1>9, <2>1 DEF Chain
  <2>5. Chain(l, o, t, r, q[1], TRUE)
    BY <2>2, <2>3, <2>4 DEF Chain
  <2> QED
    BY <2>5 DEF r
<1>10. ASSUME p, NEW f \in Fields PROVE Chain(l, o, Patch(t, g, f), q, g, p)
  <2>1. Patch(t, g, f) \in Struct
    BY PatchFacts
  <2>2. NotAfter(Patch(t, g, f), g)
    <3>1. g.disk.n \in Nat
      BY MaxTakenAssumption DEF Struct, Disk
    <3>2. NotAfter(t, g)
      BY <1>10 DEF Chain
    <3> QED
      BY <3>1, <3>2, PatchMixes DEF NotAfter
  <2>3. \A b \in Struct : NotAfter(g, b) => NotAfter(Patch(t, g, f), b)
    BY <2>1, <2>2, NotAfterFacts
  <2> QED
    BY <1>0, <1>10, <2>2, <2>3 DEF Chain
<1> QED
  BY <1>1, <1>2, <1>3, <1>4, <1>5, <1>6, <1>7, <1>8, <1>9, <1>10
   DEF ChainKept

(* The struct of a slave only moves forward: its monitor stores later        *)
(* measurements over earlier ones and its own index over 0.                  *)
LEMMA LocalForward ==
  ASSUME TypeOK, Started, BuffersOwned, [Next]_vars, NEW s \in Slaves
  PROVE  NotAfter(local[s], local'[s])
<1>1. local[s] \in Struct /\ RecordOf(local[s], s) /\ s \in Servers /\ s # Master
  BY ServersAssumption DEF TypeOK, BuffersOwned, Owned, Servers
<1>2. ASSUME NEW f \in Fields, mpc[s] = "fill", local'[s] = Patch(local[s], Measured(s), f)
      PROVE  NotAfter(local[s], local'[s])
  <2>1. Measured(s) \in Struct /\ Measured(s).idx = s /\ Measured(s).disk.n = taken[s]
    BY <1>1, StepTypes DEF Measured, Load
  <2>2. taken[s] \in Nat /\ local[s].disk.n \in Nat /\ local[s].disk.n <= taken[s]
    BY <1>1, MaxTakenAssumption DEF TypeOK, RecordOf, MeasuredBy, Blank
  <2>3. /\ local'[s].disk = IF f = "disk" THEN Measured(s).disk ELSE local[s].disk
        /\ local'[s].idx = IF f = "disk" THEN local[s].idx ELSE Measured(s).idx
    BY <1>1, <1>2, <2>1, PatchMixes
  <2>4. local[s].idx \in {Master, s}
    BY <1>1 DEF RecordOf
  <2> QED
    BY <2>1, <2>2, <2>3, <2>4 DEF NotAfter
<1>3. CASE local'[s] = local[s]
  BY <1>1, <1>3, NotAfterFacts
<1>4. CASE mpc[s] = "start" /\ local'[s] = ZeroStruct
  BY <1>1, <1>4, NotAfterFacts DEF Started
<1> QED
  BY <1>2, <1>3, <1>4, LocalChange

(* Every step keeps the order of every slave.                                *)
LEMMA OrderStep ==
  TypeOK /\ Started /\ BuffersOwned /\ InOrder /\ [Next]_vars => InOrder'
<1> SUFFICES ASSUME TypeOK, Started, BuffersOwned, InOrder, [Next]_vars, NEW s \in Slaves
             PROVE  Chain(local'[s], out'[s], table'[s], stream'[s], got'[s], Pending(s)')
  BY ChainOfSlaveNext DEF InOrder
<1> DEFINE l == local[s]
           o == out[s]
           t == table[s]
           q == stream[s]
           g == got[s]
           p == Pending(s)
<1>1. /\ l \in Struct /\ o \in Struct /\ t \in Struct /\ g \in Struct
      /\ q \in Seq(Struct) /\ p \in BOOLEAN
  BY DEF TypeOK, Servers, Pending
<1>2. Chain(l, o, t, q, g, p)
  BY ChainOfSlave DEF InOrder
<1>3. local'[s] \in Struct /\ NotAfter(l, local'[s])
  BY TypeStep, LocalForward DEF TypeOK
<1> HIDE DEF l, o, t, q, g, p
<1>4. /\ \A m \in Struct : NotAfter(l, m) => Chain(m, o, t, q, g, p)
      /\ Chain(l, l, t, q, g, p)
      /\ \A m \in Struct : NotAfter(l, m) => Chain(m, o, ZeroStruct, q, g, p)
      /\ Chain(l, o, t, Append(q, TextStruct), g, p)
      /\ Chain(l, o, t, Append(q, o), g, p)
      /\ Chain(l, o, t, <<>>, g, p)
      /\ \A k \in 1..Len(q) : Chain(l, o, t, SubSeq(q, k + 1, Len(q)), g, p)
      /\ \A h \in Struct : Chain(l, o, t, q, h, FALSE) /\ Chain(l, o, t, <<>>, h, FALSE)
      /\ \A k \in 1..Len(q), h \in Struct : Chain(l, o, t, SubSeq(q, k + 1, Len(q)), h, FALSE)
      /\ \A k \in 1..Len(q) :
           ~IsHeader(q[1]) => Chain(l, o, t, SubSeq(q, k + 1, Len(q)), q[1], TRUE)
      /\ p => \A f \in Fields : Chain(l, o, Patch(t, g, f), q, g, p)
  <2>1. ChainKept(l, o, t, q, g, p)
    BY <1>1, <1>2, ChainFacts
  <2> QED
    BY <2>1 DEF ChainKept
<1> DEFINE Goal == Chain(local'[s], out'[s], table'[s], stream'[s], got'[s], Pending(s)')
<1>5. ASSUME NEW i \in Servers, MonitorStart(i) PROVE Goal
  <2>1. /\ out'[s] = o /\ stream'[s] = q /\ got'[s] = g /\ Pending(s)' = p
        /\ table'[s] \in {t, ZeroStruct}
    BY <1>5 DEF MonitorStart, Pending, Servers, reporterVars, handlerVars, o, t, q, g, p
  <2> QED
    BY <1>3, <1>4, <2>1
<1>6. ASSUME NEW i \in Servers, NEW f \in Fields, Fill(i, f) PROVE Goal
  <2>1. /\ out'[s] = o /\ stream'[s] = q /\ got'[s] = g /\ Pending(s)' = p
        /\ table'[s] = t
    BY <1>6, ServersAssumption
       DEF TypeOK, Fill, Pending, Servers, reporterVars, handlerVars, o, t, q, g, p
  <2> QED
    BY <1>3, <1>4, <2>1
<1>7. ASSUME NEW i \in Servers, Kill(i) PROVE Goal
  <2>1. local'[s] = l /\ out'[s] = o /\ table'[s] = t /\ got'[s] = g
    BY <1>7 DEF Kill, l, o, t, g
  <2>2. CASE i = Master
    <3>1. stream'[s] = <<>> /\ Pending(s)' = FALSE
      BY <1>7, <2>2 DEF Kill, Pending
    <3> QED
      BY <1>1, <1>4, <2>1, <3>1
  <2>3. CASE i # Master
    <3>1. stream'[s] = q /\ Pending(s)' = p
      BY <1>7, <2>3 DEF Kill, Pending, q, p
    <3> QED
      BY <1>2, <2>1, <3>1
  <2> QED
    BY <2>2, <2>3
<1>8. ASSUME NEW u \in Slaves, WriteHeader(u) PROVE Goal
  <2>1. /\ local'[s] = l /\ out'[s] = o /\ table'[s] = t /\ got'[s] = g /\ Pending(s)' = p
        /\ stream'[s] \in {q, Append(q, TextStruct)}
    BY <1>8 DEF TypeOK, WriteHeader, Send, Pending, monitorVars, handlerVars, l, o, t, q, g, p
  <2> QED
    BY <1>2, <1>4, <2>1
<1>9. ASSUME NEW u \in Slaves, Copy(u) PROVE Goal
  <2>1. /\ local'[s] = l /\ stream'[s] = q /\ table'[s] = t /\ got'[s] = g /\ Pending(s)' = p
        /\ out'[s] \in {o, l}
    BY <1>9 DEF TypeOK, Copy, Pending, monitorVars, handlerVars, l, o, t, q, g, p
  <2> QED
    BY <1>2, <1>4, <2>1
<1>10. ASSUME NEW u \in Slaves, WriteRecord(u) PROVE Goal
  <2>1. /\ local'[s] = l /\ out'[s] = o /\ table'[s] = t /\ got'[s] = g /\ Pending(s)' = p
        /\ stream'[s] \in {q, Append(q, o)}
    BY <1>10 DEF TypeOK, WriteRecord, Send, Pending, monitorVars, handlerVars, l, o, t, q, g, p
  <2> QED
    BY <1>2, <1>4, <2>1
<1>11. ASSUME NEW u \in Slaves, NEW k \in 1..Len(stream[u]), FirstRead(u, k) PROVE Goal
  <2>1. local'[s] = l /\ out'[s] = o /\ table'[s] = t /\ got'[s] = g
    BY <1>11 DEF FirstRead, monitorVars, reporterVars, l, o, t, g
  <2>2. CASE u = s
    <3>1. k \in 1..Len(q) /\ stream'[s] = SubSeq(q, k + 1, Len(q)) /\ Pending(s)' = FALSE
      BY <1>11, <2>2 DEF TypeOK, FirstRead, Drop, Pending, q
    <3> QED
      BY <1>1, <1>4, <2>1, <3>1
  <2>3. CASE u # s
    <3>1. stream'[s] = q /\ Pending(s)' = p
      BY <1>11, <2>3 DEF TypeOK, FirstRead, Drop, Pending, q, p
    <3> QED
      BY <1>2, <2>1, <3>1
  <2> QED
    BY <2>2, <2>3
<1>12. ASSUME NEW u \in Slaves, NEW k \in 1..Len(stream[u]), SecondRead(u, k) PROVE Goal
  <2>1. local'[s] = l /\ out'[s] = o /\ table'[s] = t
    BY <1>12 DEF SecondRead, Accept, monitorVars, reporterVars, l, o, t
  <2>2. CASE u = s
    <3>1. k \in 1..Len(q) /\ stream'[s] = SubSeq(q, k + 1, Len(q)) /\ got'[s] = q[1]
      BY <1>12, <2>2 DEF TypeOK, SecondRead, Accept, Drop, q
    <3>2. q[1] \in Struct
      BY <1>1, <3>1
    <3>3. CASE IsHeader(q[1])
      <4>1. q[1].idx # s
        <5>1. 1 \in 1..Len(q)
          BY <1>1, <3>1
        <5>2. BufferOf(q[1], s)
          BY <5>1 DEF BuffersOwned, Owned, q
        <5>3. q[1] = TextStruct
          BY <3>3, <5>2, ServersAssumption DEF BufferOf, RecordOf, MeasuredBy, IsHeader, Blank
        <5> QED
          BY <5>3, ServersAssumption DEF TextStruct
      <4>2. Pending(s)' = FALSE
        BY <3>1, <4>1 DEF Pending
      <4> QED
        BY <1>4, <2>1, <3>1, <3>2, <4>2
    <3>4. CASE ~IsHeader(q[1])
      <4>1. Pending(s)' \in BOOLEAN
        BY DEF Pending
      <4>2. Chain(l, o, t, SubSeq(q, k + 1, Len(q)), q[1], TRUE)
        BY <1>4, <3>1, <3>4
      <4>3. Chain(l, o, t, SubSeq(q, k + 1, Len(q)), q[1], FALSE)
        BY <1>4, <3>1, <3>2
      <4> QED
        BY <2>1, <3>1, <4>1, <4>2, <4>3
    <3> QED
      BY <3>3, <3>4
  <2>3. CASE u # s
    <3>1. stream'[s] = q /\ got'[s] = g /\ Pending(s)' = p
      BY <1>12, <2>3 DEF TypeOK, SecondRead, Accept, Drop, Pending, q, g, p
    <3> QED
      BY <1>2, <2>1, <3>1
  <2> QED
    BY <2>2, <2>3
<1>13. ASSUME NEW u \in Slaves, NEW k \in 1..Len(stream[u]), StrayRead(u, k) PROVE Goal
  <2>1. local'[s] = l /\ out'[s] = o /\ table'[s] = t
    BY <1>13 DEF StrayRead, Accept, monitorVars, reporterVars, l, o, t
  <2>2. CASE u = s
    <3>1. /\ k \in 1..Len(q) /\ stream'[s] \in {<<>>, SubSeq(q, k + 1, Len(q))}
          /\ got'[s] \in {g, TextStruct}
      BY <1>13, <2>2 DEF TypeOK, StrayRead, Accept, Drop, q, g
    <3>2. Pending(s)' = FALSE
      BY <1>13, <2>2, ServersAssumption DEF TypeOK, StrayRead, Accept, Pending, TextStruct
    <3> QED
      BY <1>1, <1>4, <2>1, <3>1, <3>2, StructFacts
  <2>3. CASE u # s
    <3>1. stream'[s] = q /\ got'[s] = g /\ Pending(s)' = p
      BY <1>13, <2>3 DEF TypeOK, StrayRead, Accept, Drop, Pending, q, g, p
    <3> QED
      BY <1>2, <2>1, <3>1
  <2> QED
    BY <2>2, <2>3
<1>14. ASSUME NEW u \in Slaves, FirstReadEOF(u) PROVE Goal
  <2>1. local'[s] = l /\ out'[s] = o /\ table'[s] = t /\ stream'[s] = q /\ got'[s] = g
    BY <1>14 DEF FirstReadEOF, monitorVars, reporterVars, l, o, t, q, g
  <2>2. Pending(s)' \in {p, FALSE}
    BY <1>14 DEF TypeOK, FirstReadEOF, Pending, p
  <2> QED
    BY <1>1, <1>2, <1>4, <2>1, <2>2
<1>15. ASSUME NEW u \in Slaves, SecondReadEOF(u) \/ SecondReadTimeout(u) PROVE Goal
  <2>1. Accept(u, ZeroStruct) /\ stream'[s] = q
    BY <1>15 DEF SecondReadEOF, SecondReadTimeout, q
  <2>2. local'[s] = l /\ out'[s] = o /\ table'[s] = t
    BY <2>1 DEF Accept, monitorVars, reporterVars, l, o, t
  <2>3. CASE u = s
    <3>1. got'[s] = ZeroStruct /\ Pending(s)' = FALSE
      BY <2>1, <2>3, ServersAssumption DEF TypeOK, Accept, Pending, ZeroStruct
    <3> QED
      BY <1>4, <2>1, <2>2, <3>1, StructFacts
  <2>4. CASE u # s
    <3>1. got'[s] = g /\ Pending(s)' = p
      BY <2>1, <2>4 DEF TypeOK, Accept, Pending, g, p
    <3> QED
      BY <1>2, <2>1, <2>2, <3>1
  <2> QED
    BY <2>3, <2>4
<1>16. ASSUME NEW u \in Slaves, NEW f \in Fields, StoreField(u, f) PROVE Goal
  <2>1. local'[s] = l /\ out'[s] = o /\ stream'[s] = q /\ got'[s] = g
    BY <1>16 DEF StoreField, monitorVars, reporterVars, l, o, q, g
  <2>2. Pending(s)' \in {p, FALSE}
    BY <1>16 DEF TypeOK, StoreField, Pending, p
  <2>3. CASE table'[s] = t
    BY <1>1, <1>2, <1>4, <2>1, <2>2, <2>3
  <2>4. CASE \E e \in Fields : Pending(s) /\ table'[s] = Patch(table[s], got[s], e)
    <3>1. PICK e \in Fields : p /\ table'[s] = Patch(t, g, e)
      BY <2>4 DEF p, t, g
    <3>2. Chain(l, o, table'[s], q, g, p) /\ table'[s] \in Struct
      <4>1. Patch(t, g, e) \in Struct
        BY <1>1, PatchFacts
      <4>2. Chain(l, o, Patch(t, g, e), q, g, p)
        BY <1>4, <3>1
      <4> QED
        BY <3>1, <4>1, <4>2
    <3>3. Chain(l, o, table'[s], q, g, FALSE)
      BY <1>1, <3>2, ChainFacts DEF ChainKept
    <3> QED
      BY <2>1, <2>2, <3>2, <3>3
  <2>5. ~MonitorStart(Master)
    BY <1>16 DEF MonitorStart, StoreField, TypeOK, handlerVars
  <2>6. \/ table'[s] = t
        \/ \E e \in Fields : Pending(s) /\ table'[s] = Patch(table[s], got[s], e)
    BY <2>5, SlotChange DEF t
  <2> QED
    BY <2>3, <2>4, <2>6
<1>17. CASE \/ \E i \in Servers : Check(i)
            \/ \E u \in Slaves : RecordFails(u)
            \/ UNCHANGED vars
  <2>1. /\ local'[s] = l /\ out'[s] = o /\ table'[s] = t /\ stream'[s] = q /\ got'[s] = g
        /\ Pending(s)' = p
    BY <1>17
       DEF Check, RecordFails, Pending, vars, monitorVars, reporterVars, handlerVars, l, o, t, q, g, p
  <2> QED
    BY <1>2, <2>1
<1> QED
  BY <1>5, <1>6, <1>7, <1>8, <1>9, <1>10, <1>11, <1>12, <1>13, <1>14, <1>15, <1>16, <1>17, StepCases

(* All memory is zero at the start.                                          *)
LEMMA InitOrdered == Init => InOrder
<1> SUFFICES ASSUME Init, NEW s \in Slaves
             PROVE  Chain(local[s], out[s], table[s], stream[s], got[s], Pending(s))
  BY ChainOfSlave DEF InOrder
<1>1. /\ local[s] = ZeroStruct /\ out[s] = ZeroStruct /\ table[s] = ZeroStruct
      /\ stream[s] = <<>> /\ ~Pending(s)
  BY DEF Init, Servers, Pending
<1> QED
  BY <1>1, StructFacts, NotAfterFacts DEF Chain

(* Inv is inductive.                                                         *)
LEMMA InvStep == Inv /\ [Next]_vars => Inv'
BY TypeStep, StartedStep, OwnedStep, SlotOwnerStep, OrderStep DEF Inv

(* The shared memory, the buffers and the connections stay typed, owned and  *)
(* in order under every interleaving of monitors, reporters and handlers.    *)
THEOREM Invariance == Spec => []Inv
<1>1. Init => Inv
  BY InitTyped, InitOwned, InitOrdered DEF Inv
<1> QED
  BY <1>1, InvStep, PTL DEF Spec

(* However many records are lost, coalesced or stored field by field, no     *)
(* record overtakes another between the struct of a slave and its slot.      *)
THEOREM OrderKept == Spec => []InOrder
<1>1. Inv => InOrder
  BY DEF Inv
<1> QED
  BY <1>1, Invariance, PTL

(* A slot does not go back, whatever happens after the start of the monitor  *)
(* of the master.                                                            *)
THEOREM SlotsForward == Spec => SlotForward
<1>1. Inv /\ [Next]_vars => [~MonitorStart(Master) => \A s \in Slaves : NotAfter(table[s], table'[s])]_vars
  <2> SUFFICES ASSUME Inv, [Next]_vars, ~MonitorStart(Master), NEW s \in Slaves
               PROVE  NotAfter(table[s], table'[s])
    OBVIOUS
  <2>1. TypeOK /\ BuffersOwned /\ Ordered(s)
    BY DEF Inv, InOrder
  <2>2. table[s] \in Struct /\ got[s] \in Struct
    BY <2>1 DEF TypeOK, Servers
  <2>3. ASSUME NEW f \in Fields, Pending(s) PROVE NotAfter(table[s], Patch(table[s], got[s], f))
    <3>1. NotAfter(table[s], got[s])
      BY <2>1, <2>3 DEF Ordered
    <3>2. table[s].disk.n \in Nat
      BY <2>2, MaxTakenAssumption DEF Struct, Disk
    <3> QED
      BY <2>2, <3>1, <3>2, PatchMixes DEF NotAfter
  <2>4. NotAfter(table[s], table[s])
    BY <2>2, NotAfterFacts
  <2> QED
    BY <2>1, <2>3, <2>4, SlotChange
<1> QED
  BY <1>1, Invariance, PTL DEF Spec, SlotForward

-----------------------------------------------------------------------------
(* Refinement: the table of the master is the table of ClusterTable.         *)

(* The operators of ServerPerform as ClusterTable sees them.                 *)
LEMMA SameStructs ==
  /\ Table!Servers = Servers
  /\ Table!Disk = Disk
  /\ Table!ZeroStruct = ZeroStruct
  /\ \A n : Table!Bump(n) = Bump(n)
  /\ \A i, n : Table!Load(i, n) = Load(i, n)
BY DEF Table!Servers, Servers, Table!Disk, Disk, Table!ZeroStruct, ZeroStruct, Table!Blank,
       Blank, Table!Bump, Bump, Table!Load, Load

(* Assigning its own index to slot 0, or a field to itself, changes nothing. *)
LEMMA TableSame ==
  ASSUME TypeOK, NEW i \in Servers, NEW new \in Struct
  PROVE  /\ new.idx = table[i].idx => [table EXCEPT ![i] = Patch(@, new, "idx")] = table
         /\ new.disk = table[i].disk => [table EXCEPT ![i] = Patch(@, new, "disk")] = table
         /\ [table EXCEPT ![i] = Patch(@, new, "disk")] = [table EXCEPT ![i].disk = new.disk]
         /\ [table EXCEPT ![i] = Patch(@, new, "idx")] = [table EXCEPT ![i].idx = new.idx]
<1>1. table \in [Servers -> Struct] /\ table[i] \in Struct
  BY DEF TypeOK
<1>2. new.idx = table[i].idx => Patch(table[i], new, "idx") = table[i]
  BY <1>1 DEF Patch, Struct
<1>3. new.disk = table[i].disk => Patch(table[i], new, "disk") = table[i]
  BY <1>1 DEF Patch, Struct
<1>4. [table EXCEPT ![i] = table[i]] = table
  BY <1>1
<1>5. [table EXCEPT ![i] = Patch(@, new, "disk")] = [table EXCEPT ![i].disk = new.disk]
  BY DEF Patch
<1>6. [table EXCEPT ![i] = Patch(@, new, "idx")] = [table EXCEPT ![i].idx = new.idx]
  BY DEF Patch
<1> QED
  BY <1>2, <1>3, <1>4, <1>5, <1>6

(* A disk value that some server measured, or zero, or a header, may be put  *)
(* into slot 0.                                                              *)
LEMMA MayOverwrite ==
  ASSUME TypeOK, NEW d \in Disk, UNCHANGED taken,
         \/ \E i \in Servers : MeasuredBy(d, i, taken[i])
         \/ d = TextStruct.disk,
         table' = [table EXCEPT ![Master].disk = d]
  PROVE  Table!TableNext
<1>1. d.src \in Servers => d.n \in 1..taken[d.src]
  BY ServersAssumption DEF MeasuredBy, Blank, TextStruct, Servers
<1>2. d.src \notin Servers => d.n = 0
  BY DEF MeasuredBy, Blank, TextStruct
<1> QED
  BY <1>1, <1>2, SameStructs DEF Table!TableNext, Table!Overwrite

(* A handler stores one field: into the slot of its slave a newer value of   *)
(* this slave, into the slot 0 anything.                                     *)
LEMMA StoreImplements ==
  ASSUME Inv, NEW s \in Slaves, NEW f \in Fields, StoreField(s, f)
  PROVE  [Table!TableNext]_(Table!tableVars)
<1>1. /\ TypeOK /\ Owned(s) /\ Ordered(s) /\ RecordOf(table[s], s) /\ table[Master].idx = Master
      /\ s \in Servers /\ Master \in Servers /\ s # Master
  BY ServersAssumption DEF Inv, BuffersOwned, InOrder, SlotOwner, Servers
<1>2. got[s] \in Struct /\ got[s].disk \in Disk /\ table[s] \in Struct
  BY <1>1 DEF TypeOK, Struct
<1>3. /\ UNCHANGED taken /\ f \in {"disk", "idx"}
      /\ table' = [table EXCEPT ![got[s].idx] = Patch(@, got[s], f)]
  BY DEF StoreField, monitorVars, Fields
<1>4. BufferOf(got[s], s)
  BY <1>1 DEF Owned
<1>5. CASE got[s].idx = Master /\ f = "disk"
  <2>1. table' = [table EXCEPT ![Master].disk = got[s].disk]
    <3>1. table' = [table EXCEPT ![Master] = Patch(@, got[s], "disk")]
      BY <1>3, <1>5
    <3>2. TypeOK /\ Master \in Servers /\ got[s] \in Struct
      BY <1>1, <1>2
    <3> QED
      BY <3>1, <3>2, TableSame
  <2>2. MeasuredBy(got[s].disk, s, taken[s]) \/ got[s].disk = TextStruct.disk
    BY <1>4 DEF BufferOf, RecordOf
  <2> QED
    BY <1>1, <1>2, <1>3, <2>1, <2>2, MayOverwrite
<1>6. CASE got[s].idx = Master /\ f = "idx"
  <2>1. table' = table
    BY <1>1, <1>2, <1>3, <1>6, TableSame
  <2> QED
    BY <1>3, <2>1 DEF Table!tableVars
<1>7. CASE got[s].idx # Master
  <2>1. got[s].idx = s /\ MeasuredBy(got[s].disk, s, taken[s])
    BY <1>4, <1>7 DEF BufferOf, RecordOf, TextStruct
  <2>2. CASE f = "idx"
    <3>1. table' = [table EXCEPT ![s].idx = s]
      <4>1. table' = [table EXCEPT ![s] = Patch(@, got[s], "idx")]
        BY <1>3, <2>1, <2>2
      <4>2. table' = [table EXCEPT ![s].idx = got[s].idx]
        BY <1>1, <1>2, <4>1, TableSame
      <4> QED
        BY <2>1, <4>2
    <3> QED
      BY <1>3, <3>1 DEF Table!TableNext, Table!Name
  <2>3. CASE f = "disk"
    <3>1. table' = [table EXCEPT ![s] = Patch(@, got[s], "disk")]
      BY <1>3, <2>1, <2>3
    <3>2. table' = [table EXCEPT ![s].disk = got[s].disk]
      BY <1>1, <1>2, <3>1, TableSame
    <3>3. table[s].disk.n <= got[s].disk.n
      BY <1>1, <2>1 DEF Ordered, Pending, StoreField, NotAfter
    <3>4. CASE got[s].disk = Blank
      <4>1. table[s].disk = Blank
        BY <1>1, <3>3, <3>4 DEF RecordOf, MeasuredBy, Blank
      <4>2. [table EXCEPT ![s] = Patch(@, got[s], "disk")] = table
        <5>1. TypeOK /\ s \in Servers /\ got[s] \in Struct /\ got[s].disk = table[s].disk
          BY <1>1, <1>2, <3>4, <4>1
        <5> QED
          BY <5>1, TableSame
      <4>3. table' = table
        BY <3>1, <4>2
      <4> QED
        BY <1>3, <4>3 DEF Table!tableVars
    <3>5. CASE got[s].disk # Blank
      <4>1. got[s].disk.src = s /\ got[s].disk.n \in 1..taken[s]
        BY <2>1, <3>5 DEF MeasuredBy
      <4>2. got[s].disk = Load(s, got[s].disk.n)
        BY <1>2, <4>1 DEF Load, Disk
      <4>3. taken[s] \in Nat /\ table[s].disk.n \in Nat
        BY <1>1, <1>2, MaxTakenAssumption DEF TypeOK, Struct, Disk
      <4>4. got[s].disk.n >= table[s].disk.n
        BY <3>3, <4>1, <4>3
      <4>5. Table!Publish(s)
        BY <1>3, <3>2, <4>1, <4>2, <4>4, SameStructs DEF Table!Publish
      <4> QED
        BY <4>5 DEF Table!TableNext
    <3> QED
      BY <3>4, <3>5
  <2> QED
    BY <1>3, <2>2, <2>3
<1> QED
  BY <1>3, <1>5, <1>6, <1>7

(* Every step of the reporting is a step of the registers, or none.          *)
LEMMA StepImplements == Inv /\ [Next]_vars => [Table!TableNext]_(Table!tableVars)
<1> SUFFICES ASSUME Inv, [Next]_vars PROVE [Table!TableNext]_(Table!tableVars)
  OBVIOUS
<1>0. TypeOK /\ Started /\ Master \in Servers
  BY DEF Inv, Servers
<1>1. ASSUME MonitorStart(Master) PROVE Table!TableNext
  <2>1. Table!Clear
    BY <1>0, <1>1, SameStructs
       DEF MonitorStart, BeginMeasurement, Started, Table!Clear
  <2> QED
    BY <2>1 DEF Table!TableNext
<1>2. ASSUME NEW i \in Servers, (MonitorStart(i) /\ i # Master) \/ Check(i) PROVE Table!TableNext
  <2>1. /\ table' = table
        /\ taken' = [taken EXCEPT ![i] = Bump(@)]
        /\ i = Master => taken[i] > 0
    BY <1>0, <1>2 DEF MonitorStart, Check, BeginMeasurement, Started
  <2>2. Table!Measure(i)
    BY <2>1, SameStructs DEF Table!Measure
  <2> QED
    BY <2>2, SameStructs DEF Table!TableNext
<1>3. ASSUME NEW i \in Servers, NEW f \in Fields, Fill(i, f)
      PROVE  [Table!TableNext]_(Table!tableVars)
  <2>1. UNCHANGED taken
    BY <1>3 DEF Fill
  <2>2. CASE i # Master
    BY <1>3, <2>1, <2>2 DEF Fill, Table!tableVars
  <2>3. CASE i = Master
    <3>1. /\ Measured(i) \in Struct /\ Measured(i).idx = Master
          /\ Measured(i).disk \in Disk /\ MeasuredBy(Measured(i).disk, i, taken[i])
      <4>1. taken[i] \in Nat /\ taken[i] > 0
        BY <1>0, <1>3, MaxTakenAssumption DEF TypeOK, Started, Fill
      <4>2. Measured(i) \in Struct
        BY <1>0, StepTypes
      <4> QED
        BY <2>3, <4>1, <4>2 DEF Measured, Load, MeasuredBy, Struct
    <3>2. table' = [table EXCEPT ![i] = Patch(@, Measured(i), f)] /\ f \in {"disk", "idx"}
      BY <1>3, <2>3 DEF Fill, Fields
    <3>3. CASE f = "disk"
      <4>1. table' = [table EXCEPT ![Master].disk = Measured(i).disk]
        <5>1. table' = [table EXCEPT ![i] = Patch(@, Measured(i), "disk")]
          BY <3>2, <3>3
        <5>2. TypeOK /\ Measured(i) \in Struct
          BY <1>0, <3>1
        <5>3. table' = [table EXCEPT ![i].disk = Measured(i).disk]
          BY <5>1, <5>2, TableSame
        <5> QED
          BY <2>3, <5>3
      <4> QED
        BY <1>0, <2>1, <3>1, <4>1, MayOverwrite
    <3>4. CASE f = "idx"
      <4>1. table[i].idx = Master
        BY <2>3 DEF Inv, SlotOwner
      <4>2. table' = table
        BY <1>0, <3>1, <3>2, <3>4, <4>1, TableSame
      <4> QED
        BY <2>1, <4>2 DEF Table!tableVars
    <3> QED
      BY <3>2, <3>3, <3>4
  <2> QED
    BY <2>2, <2>3
<1>4. \/ \E i \in Servers : MonitorStart(i) \/ Check(i)
      \/ \E i \in Servers, f \in Fields : Fill(i, f)
      \/ \E s \in Slaves, f \in Fields : StoreField(s, f)
      \/ UNCHANGED <<table, taken>>
  BY StepCases
     DEF Kill, WriteHeader, Copy, WriteRecord, RecordFails, FirstRead, SecondRead,
         StrayRead, FirstReadEOF, SecondReadEOF, SecondReadTimeout, Accept, monitorVars, vars
<1> QED
  BY <1>1, <1>2, <1>3, <1>4, StoreImplements DEF Table!tableVars

(* The monitors, reporters and handlers, with all their faults, implement    *)
(* independent registers that only move forward.                             *)
THEOREM Implements == Spec => TableSpec
<1>1. Init => Table!TableInit
  BY SameStructs DEF Init, Table!TableInit
<1> QED
  BY <1>1, StepImplements, Invariance, PTL DEF Spec, TableSpec, Table!TableSpec

=============================================================================
