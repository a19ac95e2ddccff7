--------------------------- MODULE ClusterProofs ---------------------------
(* Proofs about the whole system, for any number of slaves and clients and   *)
(* any faults, from those about its two parts.                               *)
EXTENDS Cluster, ReportingProofs

(* The proofs about Polling, for the clients of the cluster.                 *)
P == INSTANCE PollingProofs WITH hpc <- serving

(* The steps of the cluster are steps of the reports, or leave them alone.   *)
LEMMA ReportsGoOn == [ClusterNext]_clusterVars => [Next]_vars
<1> SUFFICES ASSUME [ClusterNext]_clusterVars PROVE [Next]_vars
  OBVIOUS
<1>1. CASE ReportStep
  BY <1>1 DEF ReportStep, Next, Servers
<1>2. CASE RequestStep
  BY <1>2 DEF RequestStep
<1>3. CASE KillMaster
  BY <1>3 DEF KillMaster, Next, Servers
<1>4. CASE UNCHANGED clusterVars
  BY <1>4 DEF clusterVars
<1> QED
  BY <1>1, <1>2, <1>3, <1>4 DEF ClusterNext

(* Whatever holds of Reporting holds of the cluster.                         *)
THEOREM ClusterReports == ClusterSpec => Spec
BY ReportsGoOn, PTL DEF ClusterSpec, ClusterInit, Spec

-----------------------------------------------------------------------------
(* The clients of the cluster are those of the proofs: the two instances of  *)
(* Polling are the same, action by action.                                   *)
LEMMA SameClients ==
  ASSUME NEW c \in Clients
  PROVE  /\ Poll!Client(c) <=> P!Client(c)
         /\ Poll!Handler(c) <=> P!Handler(c)
         /\ Poll!ReadLate(c) <=> P!ReadLate(c)
         /\ Poll!Quit(c) <=> P!Quit(c)
<1> USE DEF Poll!tableVars, P!tableVars, Poll!handlerVars, P!handlerVars, Poll!clientVars, P!clientVars
<1>1. Poll!Client(c) <=> P!Client(c)
  BY DEF Poll!Client, P!Client, Poll!Ask, P!Ask, Poll!Shows, P!Shows, Poll!ReadReply, P!ReadReply,
         Poll!ReadRefused, P!ReadRefused, Poll!ReadReset, P!ReadReset, Poll!ReadEOF, P!ReadEOF,
         Poll!Failed, P!Failed, Poll!Serving, P!Serving, Poll!ZeroRows, P!ZeroRows,
         Poll!ZeroStruct, P!ZeroStruct, Poll!Blank, P!Blank
<1>2. Poll!Handler(c) <=> P!Handler(c)
  BY DEF Poll!Handler, P!Handler, Poll!ReadRequest, P!ReadRequest, Poll!CopyField, P!CopyField,
         Poll!WriteReply, P!WriteReply, Poll!ReadNothing, P!ReadNothing, Poll!Awake, P!Awake,
         Poll!ZeroRows, P!ZeroRows, Poll!ZeroStruct, P!ZeroStruct, Poll!Blank, P!Blank,
         Poll!Fields, P!Fields, Poll!Patch, P!Patch
<1>3. Poll!ReadLate(c) <=> P!ReadLate(c)
  BY DEF Poll!ReadLate, P!ReadLate, Poll!Failed, P!Failed, Poll!Serving, P!Serving, Poll!Owed, P!Owed
<1>4. Poll!Quit(c) <=> P!Quit(c)
  BY DEF Poll!Quit, P!Quit
<1> QED
  BY <1>1, <1>2, <1>3, <1>4

(* And so is their end with that of the master.                              *)
LEMMA SameStop == Poll!Stop <=> P!Stop
BY DEF Poll!Stop, P!Stop, Poll!Serving, P!Serving, Poll!tableVars, P!tableVars, Poll!clientVars, P!clientVars

(* The registers of Reporting are those of Polling.                          *)
LEMMA SameTable == Table!TableNext => P!TableNext
BY DEF Table!TableNext, P!TableNext, Table!Clear, P!Clear, Table!Overwrite, P!Overwrite,
       Table!Measure, P!Measure, Table!Publish, P!Publish, Table!Name, P!Name,
       Table!Servers, P!Servers, Table!Disk, P!Disk, Table!ZeroStruct, P!ZeroStruct,
       Table!Blank, P!Blank, Table!Bump, P!Bump, Table!Load, P!Load

(* Clients that go on are clients of Polling, while the table rests.         *)
LEMMA ClientStep ==
  ASSUME NEW c \in Clients, P!Client(c) \/ P!Handler(c) \/ P!ReadLate(c) \/ P!Quit(c)
  PROVE  P!PollNext
BY DEF P!PollNext

(* Each step of the cluster is one of the registers, one of a client or of   *)
(* its handler, or none that a client can see.                               *)
LEMMA ClusterStep ==
  Inv /\ [ClusterNext]_clusterVars => [P!Environment \/ P!PollNext]_(P!vars)
<1> SUFFICES ASSUME Inv, [ClusterNext]_clusterVars
             PROVE  P!Environment \/ P!PollNext \/ UNCHANGED P!vars
  OBVIOUS
<1>1. ASSUME UNCHANGED pollVars PROVE UNCHANGED P!pollVars
  BY <1>1 DEF pollVars, P!pollVars, P!clientVars, P!handlerVars
<1>2. CASE ReportStep
  <2>1. [Table!TableNext]_(Table!tableVars) /\ UNCHANGED P!pollVars
    BY <1>1, <1>2, ReportsGoOn, StepImplements DEF ReportStep
  <2>2. CASE Table!TableNext
    BY <2>1, <2>2, SameTable DEF P!Environment
  <2>3. CASE UNCHANGED Table!tableVars
    BY <2>1, <2>3 DEF Table!tableVars, P!tableVars, P!vars
  <2> QED
    BY <2>1, <2>2, <2>3
<1>3. CASE RequestStep
  BY <1>3, SameClients, ClientStep DEF RequestStep
<1>4. CASE KillMaster
  <2>1. CASE Poll!Stop
    BY <2>1, SameStop DEF P!PollNext
  <2>2. CASE UNCHANGED pollVars
    <3>1. UNCHANGED <<table, taken>>
      BY <1>4 DEF KillMaster, Kill
    <3> QED
      BY <1>1, <2>2, <3>1 DEF P!vars, P!tableVars
  <2> QED
    BY <1>4, <2>1, <2>2 DEF KillMaster
<1>5. CASE UNCHANGED clusterVars
  BY <1>1, <1>5 DEF clusterVars, vars, monitorVars, P!vars, P!tableVars
<1> QED
  BY <1>2, <1>3, <1>4, <1>5 DEF ClusterNext

(* At the start.                                                             *)
LEMMA ClusterStart == ClusterInit => P!Init
BY SameStructs DEF ClusterInit, Init, Poll!PollInit, P!PollInit, P!Init, P!TableInit, Table!ZeroStruct,
   Poll!ZeroRows, P!ZeroRows, Poll!ZeroStruct, P!ZeroStruct, Poll!Blank, P!Blank, ZeroStruct, Blank,
   P!Servers, Servers

(* The clients of the cluster behave as Polling says, seen from the instance *)
(* of the proofs.                                                            *)
LEMMA ClusterClients == ClusterSpec => P!Spec
<1>1. ClusterSpec => []Inv
  BY ClusterReports, Invariance, PTL
<1> QED
  BY <1>1, ClusterStart, ClusterStep, PTL DEF ClusterSpec, P!Spec

(* The same registers, back in the instance of the cluster.                  *)
LEMMA SameEnvironment == P!Environment => Poll!Environment
BY DEF P!Environment, Poll!Environment, P!TableNext, Poll!TableNext, P!Clear, Poll!Clear, P!Overwrite,
       Poll!Overwrite, P!Measure, Poll!Measure, P!Publish, Poll!Publish, P!Name, Poll!Name,
       P!Servers, Poll!Servers, P!Disk, Poll!Disk, P!ZeroStruct, Poll!ZeroStruct, P!Blank, Poll!Blank,
       P!Bump, Poll!Bump, P!Load, Poll!Load, P!pollVars, Poll!pollVars, P!clientVars, Poll!clientVars,
       P!handlerVars, Poll!handlerVars

(* Whatever happens to reports, and with the master's end in common, the     *)
(* clients of a cluster behave as Polling says they do.                      *)
THEOREM ClusterImplements == ClusterSpec => ClientsSpec
<1>1. P!Init => Poll!Init
  BY DEF P!Init, Poll!Init, P!PollInit, Poll!PollInit, P!TableInit, Poll!TableInit, P!Servers, Poll!Servers,
         P!ZeroRows, Poll!ZeroRows, P!ZeroStruct, Poll!ZeroStruct, P!Blank, Poll!Blank
<1>2. [P!Environment \/ P!PollNext]_(P!vars) => [Poll!Environment \/ Poll!PollNext]_(Poll!vars)
  <2>1. P!PollNext => Poll!PollNext
    BY SameClients, SameStop DEF P!PollNext, Poll!PollNext
  <2>2. UNCHANGED P!vars => UNCHANGED Poll!vars
    BY DEF P!vars, Poll!vars, P!tableVars, Poll!tableVars, P!pollVars, Poll!pollVars,
           P!clientVars, Poll!clientVars, P!handlerVars, Poll!handlerVars
  <2> QED
    BY <2>1, <2>2, SameEnvironment
<1> QED
  BY <1>1, <1>2, ClusterClients, PTL DEF P!Spec, Poll!Spec, ClientsSpec

-----------------------------------------------------------------------------
(* What is proved about Polling holds of the cluster.                        *)

(* The assumptions of Polling hold of the constants of the cluster.          *)
LEMMA PollAssumptions ==
  /\ Mishaps \subseteq {"late", "stop", "quit", "early"}
  /\ Followed \subseteq P!Servers /\ Followed # {}
  /\ MaxOwed \in 1..2
BY ClientsAssumption DEF Servers, P!Servers

(* What a client prints in the row of a slave was measured by this slave.    *)
THEOREM ClusterShownOwner == ClusterSpec => []Poll!ShownOwner
<1>1. P!Spec => []P!ShownOwner
  BY P!RowsKeepTheirSlave, ServersAssumption, MaxTakenAssumption, PollAssumptions
<1>2. P!ShownOwner => Poll!ShownOwner
  BY DEF P!ShownOwner, Poll!ShownOwner, P!RowsOwned, Poll!RowsOwned, P!SlavesFollowed, Poll!SlavesFollowed,
         P!RecordOf, Poll!RecordOf, P!MeasuredBy, Poll!MeasuredBy, P!Blank, Poll!Blank
<1> QED
  BY <1>1, <1>2, ClusterClients, PTL

(* No step takes what a client prints of a slave back.                       *)
THEOREM ClusterForward == ClusterSpec => Poll!ShownForward
<1>1. P!Spec => P!ShownForward
  BY P!ClientsForward, ServersAssumption, MaxTakenAssumption, PollAssumptions
<1>2. [\A c \in Clients, s \in P!SlavesFollowed :
         "early" \notin Mishaps => P!NotAfter(shown[c][s], shown'[c][s])]_(P!vars)
      => [\A c \in Clients, s \in Poll!SlavesFollowed :
            "early" \notin Mishaps => Poll!NotAfter(shown[c][s], shown'[c][s])]_(Poll!vars)
  <2>1. P!SlavesFollowed = Poll!SlavesFollowed
    BY DEF P!SlavesFollowed, Poll!SlavesFollowed
  <2>2. \A a, b : P!NotAfter(a, b) <=> Poll!NotAfter(a, b)
    BY DEF P!NotAfter, Poll!NotAfter
  <2>3. UNCHANGED P!vars => UNCHANGED Poll!vars
    BY DEF P!vars, Poll!vars, P!tableVars, Poll!tableVars, P!pollVars, Poll!pollVars,
           P!clientVars, Poll!clientVars, P!handlerVars, Poll!handlerVars
  <2> QED
    BY <2>1, <2>2, <2>3
<1> QED
  BY <1>1, <1>2, ClusterClients, PTL DEF P!ShownForward, Poll!ShownForward

-----------------------------------------------------------------------------
(* From the memory of a slave to the screen.                                 *)

(* The structs of the two parts are the same.                                *)
LEMMA SameRows ==
  /\ P!SlavesFollowed = Poll!SlavesFollowed /\ P!SlavesFollowed \subseteq Slaves
  /\ P!Struct = Struct /\ P!Fields = Fields /\ P!ZeroStruct = ZeroStruct
  /\ \A old, new, f : P!Patch(old, new, f) = Patch(old, new, f)
BY DEF P!SlavesFollowed, Poll!SlavesFollowed, P!Struct, Struct, P!Disk, Disk, P!Servers, Servers,
       P!Fields, Fields, P!ZeroStruct, ZeroStruct, P!Blank, Blank, P!Patch, Patch

(* ShownBehind, of every buffer a reply goes through.                        *)
AllBehind ==
  \A c \in Clients, s \in P!SlavesFollowed :
    /\ NotAfter(buf[c][s], local[s])
    /\ NotAfter(shown[c][s], local[s])
    /\ \A j \in 1..Len(replies[c]) : NotAfter(replies[c][j][s], local[s])

(* The slot of a slave is not ahead of the slave's own memory.               *)
LEMMA SlotBehind ==
  ASSUME Inv, NEW s \in Slaves
  PROVE  NotAfter(table[s], local[s])
<1>1. table[s] \in Struct /\ out[s] \in Struct /\ local[s] \in Struct
  BY DEF Inv, TypeOK, Servers
<1>2. NotAfter(table[s], out[s]) /\ NotAfter(out[s], local[s])
  BY DEF Inv, InOrder, Ordered
<1> QED
  BY <1>1, <1>2, NotAfterFacts

(* A reply that is copied, written and read stays behind a memory that only  *)
(* moves forward, also when the table it was copied from is zeroed.          *)
LEMMA BehindStep ==
  Inv /\ P!PollTypeOK /\ AllBehind /\ [ClusterNext]_clusterVars => AllBehind'
<1> SUFFICES ASSUME Inv, P!PollTypeOK, AllBehind, [ClusterNext]_clusterVars,
                    NEW c \in Clients, NEW s \in P!SlavesFollowed
             PROVE  /\ NotAfter(buf'[c][s], local'[s])
                    /\ NotAfter(shown'[c][s], local'[s])
                    /\ \A j \in 1..Len(replies'[c]) : NotAfter(replies'[c][j][s], local'[s])
  BY DEF AllBehind, P!SlavesFollowed
<1>1. [P!Environment \/ P!PollNext]_(P!vars) /\ [Next]_vars /\ Inv'
  BY ClusterStep, ReportsGoOn, InvStep
<1>2. s \in Slaves /\ local[s] \in Struct /\ local'[s] \in Struct /\ table[s] \in Struct
  BY <1>1, SameRows DEF Inv, TypeOK, Servers
<1>3. NotAfter(local[s], local'[s])
  BY <1>1, <1>2, LocalForward DEF Inv
<1>4. ASSUME NEW row \in Struct, NotAfter(row, local[s]) PROVE NotAfter(row, local'[s])
  BY <1>2, <1>3, <1>4, NotAfterFacts
<1>5. /\ buf[c][s] \in Struct /\ shown[c][s] \in Struct
      /\ \A j \in 1..Len(replies[c]) : replies[c][j][s] \in Struct
  BY P!RowTypes, SameRows, ServersAssumption, MaxTakenAssumption, PollAssumptions
<1>6. NotAfter(buf'[c][s], local'[s])
  <2>1. \/ buf'[c][s] = buf[c][s]
        \/ buf'[c][s] = ZeroStruct
        \/ \E f \in Fields : buf'[c][s] = Patch(buf[c][s], table[s], f)
    BY <1>1, P!BufChange, SameRows, ServersAssumption, MaxTakenAssumption, PollAssumptions
  <2>2. CASE buf'[c][s] = buf[c][s]
    BY <1>4, <1>5, <2>2 DEF AllBehind
  <2>3. CASE buf'[c][s] = ZeroStruct
    BY <1>2, <2>3, NotAfterFacts
  <2>4. ASSUME NEW f \in Fields, buf'[c][s] = Patch(buf[c][s], table[s], f)
        PROVE  NotAfter(buf'[c][s], local'[s])
    <3>1. NotAfter(buf[c][s], local'[s]) /\ NotAfter(table[s], local'[s])
      BY <1>2, <1>4, <1>5, SlotBehind DEF AllBehind
    <3>2. /\ buf'[c][s].disk = IF f = "disk" THEN table[s].disk ELSE buf[c][s].disk
          /\ buf'[c][s].idx = IF f = "disk" THEN buf[c][s].idx ELSE table[s].idx
      BY <1>2, <1>5, <2>4, PatchMixes
    <3> QED
      BY <3>1, <3>2 DEF NotAfter
  <2> QED
    BY <2>1, <2>2, <2>3, <2>4
<1>7. NotAfter(shown'[c][s], local'[s]) /\ \A j \in 1..Len(replies'[c]) : NotAfter(replies'[c][j][s], local'[s])
  <2>1. /\ NotAfter(buf[c][s], local'[s]) /\ NotAfter(shown[c][s], local'[s])
        /\ \A j \in 1..Len(replies[c]) : NotAfter(replies[c][j][s], local'[s])
    BY <1>4, <1>5 DEF AllBehind
  <2>2. replies[c] \in Seq(P!Rows)
    BY P!RowTypes, ServersAssumption, MaxTakenAssumption, PollAssumptions
  <2>3. \/ replies'[c] = replies[c] /\ shown'[c] = shown[c]
        \/ replies'[c] = <<>> /\ shown'[c] = shown[c]
        \/ replies'[c] = Append(replies[c], buf[c]) /\ shown'[c] = shown[c]
        \/ \E k \in 1..Len(replies[c]) :
             /\ replies'[c] = SubSeq(replies[c], k + 1, Len(replies[c]))
             /\ shown'[c] = replies[c][1]
    BY <1>1, P!RepliesChange, ServersAssumption, MaxTakenAssumption, PollAssumptions
  <2>4. CASE replies'[c] = replies[c] /\ shown'[c] = shown[c]
    BY <2>1, <2>4
  <2>5. CASE replies'[c] = <<>> /\ shown'[c] = shown[c]
    BY <2>1, <2>5
  <2>6. CASE replies'[c] = Append(replies[c], buf[c]) /\ shown'[c] = shown[c]
    <3>1. \A j \in 1..Len(replies'[c]) : replies'[c][j] = buf[c] \/ \E k \in 1..Len(replies[c]) : replies'[c][j] = replies[c][k]
      BY <2>2, <2>6
    <3> QED
      BY <2>1, <2>6, <3>1
  <2>7. ASSUME NEW k \in 1..Len(replies[c]), shown'[c] = replies[c][1],
               replies'[c] = SubSeq(replies[c], k + 1, Len(replies[c]))
        PROVE  <1>7!1 /\ <1>7!2
    <3>1. 1 \in 1..Len(replies[c])
      BY <2>2
    <3>2. \A j \in 1..Len(replies'[c]) : \E i \in 1..Len(replies[c]) : replies'[c][j] = replies[c][i]
      <4>1. /\ Len(replies'[c]) = Len(replies[c]) - k
            /\ \A j \in 1..(Len(replies[c]) - k) : replies'[c][j] = replies[c][k + j]
        BY <2>2, <2>7, DropFacts
      <4>2. \A j \in 1..(Len(replies[c]) - k) : k + j \in 1..Len(replies[c])
        BY <2>2
      <4> QED
        BY <4>1, <4>2
    <3> QED
      BY <2>1, <2>7, <3>1, <3>2
  <2> QED
    BY <2>3, <2>4, <2>5, <2>6, <2>7
<1> QED
  BY <1>6, <1>7

(* Whatever is torn, late, early, coalesced, lost or killed between the      *)
(* memory of a slave and the screen of a client: the client is not shown     *)
(* more than the slave has.                                                  *)
THEOREM ClusterBehind == ClusterSpec => []ShownBehind
<1>1. ClusterSpec => []Inv
  BY ClusterReports, Invariance, PTL
<1>2. P!Spec => []P!PollTypeOK
  BY P!PollTypeCorrect, ServersAssumption, MaxTakenAssumption, PollAssumptions
<1>3. ClusterInit => AllBehind
  <2> SUFFICES ASSUME ClusterInit PROVE AllBehind
    OBVIOUS
  <2>1. Inv
    BY InitTyped, InitOwned, InitOrdered DEF ClusterInit, Inv
  <2>2. \A s \in P!SlavesFollowed : s \in Followed /\ NotAfter(ZeroStruct, local[s])
    BY <2>1, SameRows, NotAfterFacts DEF Inv, TypeOK, P!SlavesFollowed
  <2> QED
    BY <2>2 DEF ClusterInit, AllBehind, Poll!PollInit, Poll!ZeroRows, Poll!ZeroStruct, Poll!Blank, ZeroStruct, Blank
<1>4. AllBehind => ShownBehind
  BY SameRows DEF AllBehind, ShownBehind
<1> QED
  BY <1>1, <1>2, <1>3, <1>4, ClusterClients, BehindStep, PTL DEF ClusterSpec
=============================================================================
