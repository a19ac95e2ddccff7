--------------------------- MODULE OrderlyProofs ---------------------------
(* What holds of Reporting, for any number of slaves, when nothing fails and *)
(* every segment is read before the next one is written.                     *)
EXTENDS ReportingProofs

(* The usleep of 0.1 s between the two writes is enough, the sleep of 2 s    *)
(* before the first report is enough, and no server is stopped.              *)
Orderly == Faults = {} /\ MaxBacklog = 1

(* A reporter adds to its connection only when it is empty.                  *)
LEMMA SendAlone ==
  ASSUME Orderly, TypeOK, NEW s \in Slaves, NEW segment, Send(s, segment)
  PROVE  /\ stream[s] = <<>>
         /\ hpc[s] \in {"refused", "gone"} => stream' = stream
         /\ hpc[s] \notin {"refused", "gone"} => stream'[s] = <<segment>>
         /\ \A u \in Slaves \ {s} : stream'[u] = stream[u]
<1>1. stream[s] \in Seq(Struct) /\ Len(stream[s]) \in Nat
  BY DEF TypeOK
<1>2. Len(stream[s]) < 1
  BY DEF Orderly, Send
<1>3. stream[s] = <<>>
  BY <1>1, <1>2
<1>4. Append(stream[s], segment) = <<segment>>
  BY <1>3
<1> QED
  BY <1>3, <1>4 DEF TypeOK, Send

(* Every step keeps every pair of a reporter and a handler in step.          *)
LEMMA InStepStep ==
  ASSUME Orderly
  PROVE  Inv /\ InStep /\ [Next]_vars => InStep'
<1> SUFFICES ASSUME Inv, InStep, [Next]_vars, NEW s \in Slaves
             PROVE
    /\ \/ hpc'[s] = "refused" /\ stream'[s] = <<>>
       \/ hpc'[s] \in {"first", "store"} /\ rpc'[s] = "header" /\ stream'[s] = <<>>
       \/ /\ hpc'[s] \in {"first", "store"} /\ rpc'[s] \in {"copy", "record"}
          /\ stream'[s] = <<TextStruct>>
       \/ hpc'[s] = "second" /\ rpc'[s] \in {"copy", "record"} /\ stream'[s] = <<>>
       \/ hpc'[s] = "second" /\ rpc'[s] = "header" /\ stream'[s] = <<out'[s]>> /\ IsReport(out'[s], s)
    /\ rpc'[s] \in {"copy", "record"} => IsReport(local'[s], s)
    /\ rpc'[s] = "record" => IsReport(out'[s], s)
    /\ hpc'[s] = "store" => IsReport(got'[s], s)
  BY DEF InStep, IsReport
<1> DEFINE Goal ==
    /\ \/ hpc'[s] = "refused" /\ stream'[s] = <<>>
       \/ hpc'[s] \in {"first", "store"} /\ rpc'[s] = "header" /\ stream'[s] = <<>>
       \/ /\ hpc'[s] \in {"first", "store"} /\ rpc'[s] \in {"copy", "record"}
          /\ stream'[s] = <<TextStruct>>
       \/ hpc'[s] = "second" /\ rpc'[s] \in {"copy", "record"} /\ stream'[s] = <<>>
       \/ hpc'[s] = "second" /\ rpc'[s] = "header" /\ stream'[s] = <<out'[s]>> /\ IsReport(out'[s], s)
    /\ rpc'[s] \in {"copy", "record"} => IsReport(local'[s], s)
    /\ rpc'[s] = "record" => IsReport(out'[s], s)
    /\ hpc'[s] = "store" => IsReport(got'[s], s)
<1>1. /\ TypeOK /\ Started /\ Owned(s) /\ s # Master /\ s # Nobody /\ s # Text
      /\ s \in Servers /\ Master \in Servers
  BY ServersAssumption DEF Inv, BuffersOwned, Servers
<1>2. /\ \/ hpc[s] = "refused" /\ stream[s] = <<>>
         \/ hpc[s] \in {"first", "store"} /\ rpc[s] = "header" /\ stream[s] = <<>>
         \/ hpc[s] \in {"first", "store"} /\ rpc[s] \in {"copy", "record"} /\ stream[s] = <<TextStruct>>
         \/ hpc[s] = "second" /\ rpc[s] \in {"copy", "record"} /\ stream[s] = <<>>
         \/ hpc[s] = "second" /\ rpc[s] = "header" /\ stream[s] = <<out[s]>> /\ IsReport(out[s], s)
      /\ rpc[s] \in {"copy", "record"} => IsReport(local[s], s)
      /\ rpc[s] = "record" => IsReport(out[s], s)
      /\ hpc[s] = "store" => IsReport(got[s], s)
  BY DEF InStep
<1>3. IsReport(local[s], s) => IsReport(local'[s], s)
  <2>1. local[s] \in Struct /\ Measured(s) \in Struct
    BY <1>1, StepTypes DEF TypeOK
  <2>2. ASSUME NEW f \in Fields, IsReport(local[s], s), local'[s] = Patch(local[s], Measured(s), f)
        PROVE  IsReport(local'[s], s)
    <3>1. /\ local'[s].disk = IF f = "disk" THEN Measured(s).disk ELSE local[s].disk
          /\ local'[s].idx = IF f = "disk" THEN local[s].idx ELSE Measured(s).idx
      BY <2>1, <2>2, PatchMixes
    <3> QED
      BY <2>2, <3>1 DEF IsReport, Measured, Load
  <2>3. ASSUME mpc[s] = "start", IsReport(local[s], s) PROVE FALSE
    BY <1>1, <2>3 DEF Started, IsReport, ZeroStruct
  <2> QED
    BY <1>1, <2>2, <2>3, LocalChange
<1>4. ASSUME NEW u \in Slaves
      PROVE  /\ Len(stream[u]) = 0 \/ Len(stream[u]) = 1
             /\ hpc[u] = "second" /\ rpc[u] = "header" => stream[u] # <<>>
  <2>1. \A x : Len(<<x>>) = 1 /\ <<x>> # <<>>
    OBVIOUS
  <2>2. stream[u] = <<>> \/ stream[u] = <<TextStruct>> \/ stream[u] = <<out[u]>>
    BY DEF InStep
  <2>3. hpc[u] = "second" /\ rpc[u] = "header" => stream[u] = <<out[u]>>
    BY DEF InStep
  <2> QED
    BY <2>1, <2>2, <2>3
<1>5. ASSUME NEW u \in Slaves, NEW k \in 1..Len(stream[u])
       PROVE  k = 1 /\ Len(stream[u]) = 1
  <2>1. Len(stream[u]) = 0 \/ Len(stream[u]) = 1
    BY <1>4
  <2>2. \A n \in {0, 1} : k \in 1..n => k = 1 /\ n = 1
    OBVIOUS
  <2> QED
    BY <2>1, <2>2
<1>6. hpc[s] # "gone" /\ (hpc[s] # "refused" => rpc[s] # "exit")
  BY <1>2
<1> HIDE DEF Goal
<1>7. ASSUME UNCHANGED <<hpc[s], stream[s], rpc[s], out[s], got[s]>> PROVE Goal
  BY <1>2, <1>3, <1>7 DEF Goal
<1>8. ASSUME NEW i \in Servers, MonitorStart(i) \/ Check(i) PROVE Goal
  BY <1>7, <1>8 DEF MonitorStart, Check, reporterVars, handlerVars
<1>9. ASSUME NEW i \in Servers, NEW f \in Fields, Fill(i, f) PROVE Goal
  BY <1>7, <1>9 DEF Fill, reporterVars, handlerVars
<1>10. ASSUME NEW u \in Slaves, WriteHeader(u) PROVE Goal
  <2>1. stream[u] = <<>> /\ UNCHANGED <<local, out, got, hpc>>
    BY <1>1, <1>10, SendAlone DEF WriteHeader, monitorVars, handlerVars
  <2>2. CASE u = s
    <3>1. rpc[s] = "header" /\ rpc'[s] = "copy"
      BY <1>1, <1>10, <2>2 DEF TypeOK, WriteHeader
    <3>2. IsReport(local[s], s)
      BY <1>1, <1>10, <2>2 DEF WriteHeader, Ready, Orderly, Owned, RecordOf, IsReport
    <3>3. /\ hpc[s] = "refused" => stream'[s] = <<>>
          /\ hpc[s] # "refused" => stream'[s] = <<TextStruct>>
      BY <1>1, <1>6, <1>10, <2>1, <2>2, SendAlone DEF WriteHeader
    <3>4. hpc[s] # "second"
      BY <1>4, <2>1, <2>2, <3>1
    <3> QED
      BY <1>2, <2>1, <3>1, <3>2, <3>3, <3>4 DEF Goal
  <2>3. CASE u # s
    BY <1>1, <1>7, <1>10, <2>1, <2>3, SendAlone DEF TypeOK, WriteHeader
  <2> QED
    BY <2>2, <2>3
<1>11. ASSUME NEW u \in Slaves, Copy(u) PROVE Goal
  <2>1. UNCHANGED <<local, stream, got, hpc>>
    BY <1>11 DEF Copy, monitorVars, handlerVars
  <2>2. CASE u = s
    <3>1. rpc[s] = "copy" /\ rpc'[s] = "record" /\ out'[s] = local[s]
      BY <1>1, <1>11, <2>2 DEF TypeOK, Copy
    <3> QED
      BY <1>2, <2>1, <3>1 DEF Goal
  <2>3. CASE u # s
    BY <1>1, <1>7, <1>11, <2>1, <2>3 DEF TypeOK, Copy
  <2> QED
    BY <2>2, <2>3
<1>12. ASSUME NEW u \in Slaves, WriteRecord(u) PROVE Goal
  <2>1. stream[u] = <<>> /\ UNCHANGED <<local, out, got, hpc>>
    BY <1>1, <1>12, SendAlone DEF WriteRecord, monitorVars, handlerVars
  <2>2. CASE u = s
    <3>1. rpc[s] = "record" /\ rpc'[s] = "header" /\ hpc[s] = "second"
      BY <1>1, <1>2, <1>12, <2>1, <2>2 DEF TypeOK, WriteRecord
    <3>2. stream'[s] = <<out[s]>>
      BY <1>1, <1>12, <2>2, <3>1, SendAlone DEF WriteRecord
    <3> QED
      BY <1>2, <2>1, <3>1, <3>2 DEF Goal
  <2>3. CASE u # s
    BY <1>1, <1>7, <1>12, <2>1, <2>3, SendAlone DEF TypeOK, WriteRecord
  <2> QED
    BY <2>2, <2>3
<1>13. ASSUME NEW u \in Slaves, RecordFails(u) PROVE Goal
  <2>1. UNCHANGED <<local, stream, out, got, hpc>>
    BY <1>13 DEF RecordFails, monitorVars, handlerVars
  <2>2. CASE u = s
    <3>1. hpc[s] = "refused" /\ rpc'[s] = "exit"
      BY <1>1, <1>6, <1>13, <2>2 DEF TypeOK, RecordFails
    <3> QED
      BY <1>2, <2>1, <3>1 DEF Goal
  <2>3. CASE u # s
    BY <1>1, <1>7, <1>13, <2>1, <2>3 DEF TypeOK, RecordFails
  <2> QED
    BY <2>2, <2>3
<1>14. ASSUME NEW u \in Slaves, NEW k \in 1..Len(stream[u]), FirstRead(u, k) PROVE Goal
  <2>1. UNCHANGED <<local, rpc, out, got>>
    BY <1>14 DEF FirstRead, monitorVars, reporterVars
  <2>2. CASE u = s
    <3>1. k = 1 /\ Len(stream[s]) = 1
      BY <1>5, <2>2
    <3>2. stream[s] = <<TextStruct>> /\ rpc[s] \in {"copy", "record"}
      BY <1>2, <1>14, <2>2, <3>1 DEF FirstRead
    <3>3. IsHeader(stream[s][1])
      BY <3>2, StructFacts
    <3>4. hpc'[s] = "second"
      BY <1>1, <1>14, <2>2, <3>3 DEF TypeOK, FirstRead
    <3>5. stream'[s] = <<>>
      BY <1>1, <1>14, <2>2, <3>1, <3>2 DEF TypeOK, FirstRead, Drop
    <3> QED
      BY <1>2, <2>1, <3>2, <3>4, <3>5 DEF Goal
  <2>3. CASE u # s
    BY <1>1, <1>7, <1>14, <2>1, <2>3 DEF TypeOK, FirstRead, Drop
  <2> QED
    BY <2>2, <2>3
<1>15. ASSUME NEW u \in Slaves, NEW k \in 1..Len(stream[u]), SecondRead(u, k) PROVE Goal
  <2>1. UNCHANGED <<local, rpc, out>>
    BY <1>15 DEF SecondRead, Accept, monitorVars, reporterVars
  <2>2. CASE u = s
    <3>1. k = 1 /\ Len(stream[s]) = 1
      BY <1>5, <2>2
    <3>2. stream[s] = <<out[s]>> /\ rpc[s] = "header" /\ IsReport(out[s], s)
      BY <1>2, <1>15, <2>2, <3>1 DEF SecondRead
    <3>3. hpc'[s] = "store" /\ got'[s] = out[s]
      BY <1>1, <1>15, <2>2, <3>2 DEF TypeOK, SecondRead, Accept
    <3>4. stream'[s] = <<>>
      BY <1>1, <1>15, <2>2, <3>1, <3>2 DEF TypeOK, SecondRead, Drop
    <3> QED
      BY <1>2, <2>1, <3>2, <3>3, <3>4 DEF Goal
  <2>3. CASE u # s
    BY <1>1, <1>7, <1>15, <2>1, <2>3 DEF TypeOK, SecondRead, Accept, Drop
  <2> QED
    BY <2>2, <2>3
<1>16. ASSUME NEW u \in Slaves, NEW k \in 1..Len(stream[u]), StrayRead(u, k) PROVE Goal
  <2>1. k > 1 /\ hpc[u] = "second" /\ IsHeader(stream[u][1])
    BY <1>16 DEF StrayRead
  <2> QED
    BY <1>5, <2>1
<1>17. ASSUME NEW u \in Slaves, FirstReadEOF(u) \/ SecondReadEOF(u) \/ SecondReadTimeout(u)
       PROVE  Goal
  <2>1. rpc[u] = "exit" /\ hpc[u] \in {"first", "second"}
    BY <1>17 DEF FirstReadEOF, SecondReadEOF, SecondReadTimeout, Closed, Orderly
  <2>2. hpc[u] # "refused" => rpc[u] # "exit"
    BY DEF InStep
  <2> QED
    BY <2>1, <2>2
<1>18. ASSUME NEW u \in Slaves, NEW f \in Fields, StoreField(u, f) PROVE Goal
  <2>1. UNCHANGED <<local, stream, rpc, out, got>>
    BY <1>18 DEF StoreField, monitorVars, reporterVars
  <2>2. CASE u = s
    <3>1. hpc[s] = "store" /\ hpc'[s] \in {"first", "store"}
      BY <1>1, <1>18, <2>2 DEF TypeOK, StoreField
    <3> QED
      BY <1>2, <2>1, <3>1 DEF Goal
  <2>3. CASE u # s
    BY <1>1, <1>7, <1>18, <2>1, <2>3 DEF TypeOK, StoreField
  <2> QED
    BY <2>2, <2>3
<1>19. \A i \in Servers : ~Kill(i)
  BY DEF Kill, Orderly
<1>20. ASSUME UNCHANGED vars PROVE Goal
  <2>1. hpc' = hpc /\ stream' = stream /\ rpc' = rpc /\ out' = out /\ got' = got
    BY <1>20 DEF vars, reporterVars, handlerVars
  <2> QED
    BY <1>7, <2>1
<1>21. Goal
  BY <1>8, <1>9, <1>10, <1>11, <1>12, <1>13, <1>14, <1>15, <1>16, <1>17, <1>18, <1>19, <1>20, StepCases
<1> QED
  BY <1>21 DEF Goal

-----------------------------------------------------------------------------
(* The slot 0.                                                               *)

(* A handler that is in step does not touch the slot 0.                      *)
LEMMA MasterSlotStep ==
  Inv /\ InStep /\ [Next]_vars => (table'[Master] # table[Master] => Monitor(Master))
<1> SUFFICES ASSUME Inv, InStep, [Next]_vars, table'[Master] # table[Master]
             PROVE  Monitor(Master)
  OBVIOUS
<1>1. TypeOK /\ Master \in Servers
  BY DEF Inv, Servers
<1>2. ASSUME NEW i \in Servers, MonitorStart(i) PROVE Monitor(Master)
  BY <1>2 DEF MonitorStart, Monitor
<1>3. ASSUME NEW i \in Servers, NEW f \in Fields, Fill(i, f) PROVE Monitor(Master)
  BY <1>3 DEF Fill, Monitor
<1>4. ASSUME NEW u \in Slaves, NEW f \in Fields, StoreField(u, f) PROVE FALSE
  <2>1. got[u].idx = u /\ u # Master
    BY <1>4, ServersAssumption DEF StoreField, InStep, IsReport
  <2> QED
    BY <1>1, <1>4, <2>1 DEF TypeOK, StoreField
<1>5. \/ \E i \in Servers : MonitorStart(i)
      \/ \E i \in Servers, f \in Fields : Fill(i, f)
      \/ \E u \in Slaves, f \in Fields : StoreField(u, f)
      \/ table' = table
  BY StepCases
     DEF Check, Kill, WriteHeader, Copy, WriteRecord, RecordFails, FirstRead, SecondRead,
         StrayRead, FirstReadEOF, SecondReadEOF, SecondReadTimeout, Accept, vars
<1> QED
  BY <1>2, <1>3, <1>4, <1>5

(* No struct a monitor checks holds the characters of a header.              *)
Clean == ~IsHeader(table[Master]) /\ alarmed = {}

(* As long as the handlers are in step every step keeps slot 0 clean.         *)
LEMMA CleanStep == Inv /\ InStep /\ Clean /\ [Next]_vars => Clean'
<1> SUFFICES ASSUME Inv, InStep, Clean, [Next]_vars
             PROVE  ~IsHeader(table'[Master]) /\ alarmed' = {}
  BY DEF Clean, IsHeader
<1>1. TypeOK /\ Master \in Servers /\ table[Master] \in Struct
  BY DEF Inv, TypeOK, Servers
<1>2. ~IsHeader(table'[Master])
  <2>1. CASE table'[Master] = table[Master]
    BY <2>1 DEF Clean
  <2>2. CASE MonitorStart(Master)
    BY <1>1, <2>2, StructFacts DEF MonitorStart
  <2>3. ASSUME NEW f \in Fields, Fill(Master, f) PROVE ~IsHeader(table'[Master])
    <3>1. Measured(Master) \in Struct /\ Measured(Master).disk.src = Master
      BY <1>1, StepTypes DEF Measured, Load
    <3>2. table'[Master] = Patch(table[Master], Measured(Master), f)
      BY <1>1, <2>3 DEF TypeOK, Fill
    <3>3. table'[Master].disk \in {table[Master].disk, Measured(Master).disk}
      BY <1>1, <3>1, <3>2, PatchMixes
    <3> QED
      BY <3>1, <3>3, ServersAssumption DEF IsHeader, Clean
  <2>4. CASE Check(Master)
    BY <2>4 DEF Check, Clean
  <2> QED
    BY <2>1, <2>2, <2>3, <2>4, MasterSlotStep DEF Monitor
<1>3. alarmed' = {}
  <2>1. ASSUME NEW i \in Servers, Check(i) PROVE alarmed' = {}
    <3>1. CASE i = Master
      BY <2>1, <3>1 DEF Check, OverThreshold, Own, Clean, IsHeader
    <3>2. CASE i # Master
      <4>1. i \in Slaves
        BY <3>2 DEF Servers
      <4>2. local[i].disk.src # Text
        BY <4>1, ServersAssumption DEF Inv, BuffersOwned, Owned, RecordOf, MeasuredBy, Blank
      <4> QED
        BY <2>1, <3>2, <4>2 DEF Check, OverThreshold, Own, Clean
    <3> QED
      BY <3>1, <3>2
  <2>2. (\E i \in Servers : Check(i)) \/ alarmed' = alarmed
    BY StepCases
       DEF MonitorStart, Fill, Kill, WriteHeader, Copy, WriteRecord, RecordFails, FirstRead,
           SecondRead, StrayRead, FirstReadEOF, SecondReadEOF, SecondReadTimeout, Accept,
           StoreField, monitorVars, vars
  <2> QED
    BY <2>1, <2>2 DEF Clean
<1> QED
  BY <1>2, <1>3

-----------------------------------------------------------------------------
(* The handlers start in step, with a clean slot 0.                          *)
LEMMA InitOrderly == Init => InStep /\ Clean
<1> SUFFICES ASSUME Init PROVE InStep /\ Clean
  OBVIOUS
<1>1. InStep
  BY DEF Init, InStep
<1>2. Clean
  BY StructFacts DEF Init, Clean, Servers
<1> QED
  BY <1>1, <1>2

(* In an orderly system each handler takes headers for headers and complete  *)
(* records for records, and each record it stores is for the slot of its     *)
(* slave.                                                                    *)
THEOREM OrderlyInStep ==
  ASSUME Orderly
  PROVE  Spec => []InStep
<1>1. Init => InStep
  BY InitOrderly
<1>2. Inv /\ InStep /\ [Next]_vars => InStep'
  BY InStepStep
<1> QED
  BY <1>1, <1>2, Invariance, PTL DEF Spec

(* In an orderly system the slot 0 is the monitor's alone.                   *)
THEOREM OrderlyMasterSlot ==
  ASSUME Orderly
  PROVE  Spec => MasterSlotOwn
<1>1. Inv /\ InStep /\ [Next]_vars => [table'[Master] # table[Master] => Monitor(Master)]_vars
  BY MasterSlotStep
<1> QED
  BY <1>1, OrderlyInStep, Invariance, PTL DEF Spec, MasterSlotOwn

(* In an orderly system no alarm is sent without a measurement over its      *)
(* threshold.                                                                *)
THEOREM OrderlyAlarms ==
  ASSUME Orderly
  PROVE  Spec => []NoFalseAlarm
<1>1. Init => Clean
  BY InitOrderly
<1>2. Inv /\ InStep /\ Clean /\ [Next]_vars => Clean'
  BY CleanStep
<1>3. Clean => NoFalseAlarm
  BY DEF Clean, NoFalseAlarm
<1> QED
  BY <1>1, <1>2, <1>3, OrderlyInStep, Invariance, PTL DEF Spec
=============================================================================
