--------------------------- MODULE PollingProofs ---------------------------
(* Proofs about Polling for any number of clients, slaves and slots.         *)
EXTENDS Polling, StructProofs, TLAPS

(* The kinds of steps, whoever takes them.                                   *)
LEMMA PollCases ==
  ASSUME [Environment \/ PollNext]_vars
  PROVE  \/ Environment
         \/ \E c \in Clients : Ask(c) \/ ReadRefused(c) \/ ReadReset(c) \/ ReadEOF(c)
         \/ \E c \in Clients : \E k \in 1..Len(replies[c]) : ReadReply(c, k)
         \/ \E c \in Clients : ReadLate(c) \/ Quit(c)
         \/ \E c \in Clients : \E k \in 1..requests[c] : ReadRequest(c, k)
         \/ \E c \in Clients : \E i \in Followed, f \in Fields : CopyField(c, i, f)
         \/ \E c \in Clients : WriteReply(c) \/ ReadNothing(c)
         \/ Stop
         \/ UNCHANGED vars
BY DEF PollNext, Client, Shows, Handler

-----------------------------------------------------------------------------
(* Type correctness.                                                         *)

(* The steps of the registers.                                               *)
LEMMA TableStep ==
  ASSUME TableTypeOK, TableNext
  PROVE  TableTypeOK'
<1> USE DEF TableTypeOK
<1>1. CASE Clear
  BY <1>1, BumpFacts, StructFacts DEF Clear, Servers
<1>2. CASE Overwrite
  BY <1>2 DEF Overwrite, Struct, Servers
<1>3. ASSUME NEW i \in Servers, Measure(i) PROVE TableTypeOK'
  BY <1>3, BumpFacts DEF Measure
<1>4. ASSUME NEW s \in Slaves, Publish(s) PROVE TableTypeOK'
  <2>1. PICK n \in 1..taken[s] : table' = [table EXCEPT ![s].disk = Load(s, n)]
    BY <1>4 DEF Publish
  <2>2. s \in Servers /\ taken[s] \in 0..MaxTaken
    BY DEF Servers
  <2>3. Load(s, n) \in Disk
    BY <2>2, MaxTakenAssumption DEF Load, Disk
  <2> QED
    BY <1>4, <2>1, <2>2, <2>3 DEF Publish, Struct
<1>5. ASSUME NEW s \in Slaves, Name(s) PROVE TableTypeOK'
  BY <1>5 DEF Name, Struct, Servers
<1> QED
  BY <1>1, <1>2, <1>3, <1>4, <1>5 DEF TableNext

(* Every step of a client, of a handler or of the table keeps every variable *)
(* in its set.                                                               *)
LEMMA PollTypeStep == PollTypeOK /\ [Environment \/ PollNext]_vars => PollTypeOK'
<1> SUFFICES ASSUME PollTypeOK, [Environment \/ PollNext]_vars PROVE PollTypeOK'
  OBVIOUS
<1> USE DEF PollTypeOK
<1>1. ZeroRows \in Rows
  BY StructFacts DEF ZeroRows, Rows
<1>2. CASE Environment
  BY <1>2, TableStep DEF Environment, pollVars, clientVars, handlerVars
<1>3. ASSUME NEW c \in Clients, Ask(c) PROVE PollTypeOK'
  <2>1. [i \in Followed |-> table[i]] \in Rows
    BY FollowedAssumption DEF Rows, TableTypeOK
  <2>2. floor' \in [Clients -> Rows]
    BY <1>1, <1>3, <2>1 DEF Ask
  <2>3. requests' \in [Clients -> Nat]
    BY <1>3 DEF Ask
  <2> QED
    BY <1>3, <2>2, <2>3 DEF Ask, tableVars, handlerVars, TableTypeOK
<1>4. ASSUME NEW c \in Clients, NEW k \in 1..Len(replies[c]), ReadReply(c, k) PROVE PollTypeOK'
  <2>1. replies[c] \in Seq(Rows)
    OBVIOUS
  <2>2. replies[c][1] \in Rows /\ SubSeq(replies[c], k + 1, Len(replies[c])) \in Seq(Rows)
    BY <2>1, DropFacts
  <2> QED
    BY <1>4, <2>2 DEF ReadReply, tableVars, handlerVars, TableTypeOK
<1>5. ASSUME NEW c \in Clients, ReadRefused(c) \/ ReadReset(c) \/ ReadEOF(c) \/ ReadLate(c) \/ Quit(c)
      PROVE  PollTypeOK'
  <2>1. CASE ReadRefused(c) \/ ReadLate(c)
    BY <2>1 DEF ReadRefused, ReadLate, Failed, tableVars, TableTypeOK
  <2>2. CASE ReadReset(c)
    BY <2>2 DEF ReadReset, Failed, tableVars, TableTypeOK
  <2>3. CASE ReadEOF(c) \/ Quit(c)
    BY <2>3 DEF ReadEOF, Quit, tableVars, handlerVars, TableTypeOK
  <2> QED
    BY <1>5, <2>1, <2>2, <2>3
<1>6. ASSUME NEW c \in Clients, NEW k \in 1..requests[c], ReadRequest(c, k) PROVE PollTypeOK'
  BY <1>1, <1>6 DEF ReadRequest, tableVars, clientVars, TableTypeOK
<1>7. ASSUME NEW c \in Clients, NEW i \in Followed, NEW f \in Fields, CopyField(c, i, f)
      PROVE  PollTypeOK'
  <2>1. buf[c] \in Rows /\ buf[c][i] \in Struct /\ table[i] \in Struct
    BY FollowedAssumption DEF Rows, TableTypeOK
  <2>2. Patch(buf[c][i], table[i], f) \in Struct
    BY <2>1, PatchFacts
  <2>3. [buf[c] EXCEPT ![i] = Patch(@, table[i], f)] \in Rows
    BY <2>1, <2>2 DEF Rows
  <2>4. buf' \in [Clients -> Rows]
    BY <1>7, <2>3 DEF CopyField
  <2> QED
    BY <1>7, <2>4 DEF CopyField, tableVars, clientVars, TableTypeOK
<1>8. ASSUME NEW c \in Clients, WriteReply(c) \/ ReadNothing(c) PROVE PollTypeOK'
  <2>1. Append(replies[c], buf[c]) \in Seq(Rows)
    OBVIOUS
  <2>2. CASE WriteReply(c)
    BY <2>1, <2>2 DEF WriteReply, tableVars, clientVars, TableTypeOK
  <2>3. CASE ReadNothing(c)
    BY <2>3 DEF ReadNothing, tableVars, clientVars, TableTypeOK
  <2> QED
    BY <1>8, <2>2, <2>3
<1>9. CASE Stop
  BY <1>9 DEF Stop, tableVars, clientVars, TableTypeOK
<1>10. CASE UNCHANGED vars
  BY <1>10 DEF vars, pollVars, tableVars, clientVars, handlerVars, TableTypeOK
<1> QED
  BY <1>2, <1>3, <1>4, <1>5, <1>6, <1>7, <1>8, <1>9, <1>10, PollCases

(* The initial values.                                                       *)
LEMMA PollInitTyped == TableInit /\ PollInit => PollTypeOK
<1> SUFFICES ASSUME TableInit, PollInit PROVE PollTypeOK
  OBVIOUS
<1>1. ZeroRows \in Rows /\ 0 \in 0..MaxTaken /\ <<>> \in Seq(Rows)
  BY StructFacts, MaxTakenAssumption DEF ZeroRows, Rows
<1>2. TableTypeOK
  BY <1>1, StructFacts DEF TableInit, TableTypeOK
<1> QED
  BY <1>1, <1>2 DEF PollInit, PollTypeOK

(* Every buffer of a reply holds structs, whatever is late, stopped or       *)
(* copied while it changes.                                                  *)
THEOREM PollTypeCorrect == Spec => []PollTypeOK
BY PollInitTyped, PollTypeStep, PTL DEF Init, Spec

-----------------------------------------------------------------------------
(* Ownership.                                                                *)

(* RecordOf, with the number of measurements as a parameter.                 *)
RecordUpTo(p, s, k) == MeasuredBy(p.disk, s, k) /\ p.idx \in {Master, s}

(* The slots of slaves are among those of the servers.                       *)
LEMMA FollowedFacts ==
  ASSUME NEW s \in SlavesFollowed
  PROVE  s \in Slaves /\ s \in Followed /\ s \in Servers /\ s # Master
BY ServersAssumption DEF SlavesFollowed, Servers

(* No step counts measurements down.                                         *)
LEMMA TakenGrows ==
  ASSUME PollTypeOK, [Environment \/ PollNext]_vars, NEW i \in Servers
  PROVE  taken[i] \in Nat /\ taken'[i] \in Nat /\ taken[i] <= taken'[i]
<1>1. taken[i] \in 0..MaxTaken /\ taken[i] \in Nat
  BY MaxTakenAssumption DEF PollTypeOK, TableTypeOK
<1>2. Bump(taken[i]) \in Nat /\ taken[i] <= Bump(taken[i])
  BY <1>1, BumpFacts, MaxTakenAssumption
<1>3. taken' = taken \/ \E j \in Servers : taken' = [taken EXCEPT ![j] = Bump(@)]
  <2>1. ASSUME TableNext PROVE taken' = taken \/ \E j \in Servers : taken' = [taken EXCEPT ![j] = Bump(@)]
    BY <2>1 DEF TableNext, Clear, Overwrite, Measure, Publish, Name, Servers
  <2> QED
    BY <2>1, PollCases
       DEF Environment, Ask, ReadReply, ReadRefused, ReadReset, ReadEOF, ReadLate, Quit, Failed,
           ReadRequest, CopyField, WriteReply, ReadNothing, Stop, vars, tableVars
<1>4. taken \in [Servers -> 0..MaxTaken]
  BY DEF PollTypeOK, TableTypeOK
<1> QED
  BY <1>1, <1>2, <1>3, <1>4

(* What is a measurement of s remains one as s goes on measuring.            *)
LEMMA RecordsStay ==
  ASSUME PollTypeOK, [Environment \/ PollNext]_vars, NEW s \in SlavesFollowed, NEW p,
         RecordUpTo(p, s, taken[s])
  PROVE  RecordUpTo(p, s, taken'[s])
<1>1. taken[s] \in Nat /\ taken'[s] \in Nat /\ taken[s] <= taken'[s]
  BY TakenGrows, FollowedFacts
<1> QED
  BY <1>1 DEF RecordUpTo, MeasuredBy

(* The slots of the table stay owned.                                        *)
LEMMA TableOwned ==
  ASSUME PollTypeOK, [Environment \/ PollNext]_vars, NEW s \in SlavesFollowed,
         RecordUpTo(table[s], s, taken[s])
  PROVE  RecordUpTo(table'[s], s, taken'[s])
<1>1. s \in Slaves /\ s \in Servers /\ s # Master
  BY FollowedFacts
<1>2. CASE TableNext
  <2> USE <1>1 DEF PollTypeOK, TableTypeOK
  <2>1. CASE Clear
    BY <2>1 DEF Clear, RecordUpTo, MeasuredBy, ZeroStruct
  <2>2. CASE Overwrite \/ \E i \in Servers : Measure(i)
    <3>1. table'[s] = table[s]
      BY <2>2 DEF Overwrite, Measure
    <3> QED
      BY <3>1, RecordsStay
  <2>3. ASSUME NEW t \in Slaves, Publish(t) PROVE RecordUpTo(table'[s], s, taken'[s])
    <3>1. PICK n \in 1..taken[t] : table' = [table EXCEPT ![t].disk = Load(t, n)]
      BY <2>3 DEF Publish
    <3>2. taken' = taken
      BY <2>3 DEF Publish
    <3>3. t \in Servers
      BY DEF Servers
    <3> QED
      BY <3>1, <3>2, <3>3 DEF RecordUpTo, MeasuredBy, Load, Struct
  <2>4. ASSUME NEW t \in Slaves, Name(t) PROVE RecordUpTo(table'[s], s, taken'[s])
    <3>1. t \in Servers
      BY DEF Servers
    <3> QED
      BY <2>4, <3>1 DEF Name, RecordUpTo, Struct
  <2> QED
    BY <1>2, <2>1, <2>2, <2>3, <2>4 DEF TableNext
<1>3. CASE table' = table
  BY <1>3, RecordsStay
<1> QED
  BY <1>2, <1>3, PollCases
     DEF Environment, Ask, ReadReply, ReadRefused, ReadReset, ReadEOF, ReadLate, Quit, Failed,
         ReadRequest, CopyField, WriteReply, ReadNothing, Stop, vars, tableVars

(* Rows are structs, in every buffer of a client.                            *)
LEMMA RowTypes ==
  ASSUME PollTypeOK, NEW s \in SlavesFollowed, NEW c \in Clients
  PROVE  /\ table[s] \in Struct
         /\ buf[c] \in Rows /\ buf[c][s] \in Struct
         /\ shown[c][s] \in Struct
         /\ floor[c][s] \in Struct
         /\ replies[c] \in Seq(Rows)
         /\ \A j \in 1..Len(replies[c]) : replies[c][j] \in Rows /\ replies[c][j][s] \in Struct
BY FollowedFacts DEF PollTypeOK, TableTypeOK, Rows

(* How the row of s in sndBuffer can change: it is zeroed or takes a field   *)
(* of the slot.                                                              *)
LEMMA BufChange ==
  ASSUME PollTypeOK, [Environment \/ PollNext]_vars, NEW s \in SlavesFollowed, NEW c \in Clients
  PROVE  \/ buf'[c][s] = buf[c][s]
         \/ buf'[c][s] = ZeroStruct
         \/ \E f \in Fields : buf'[c][s] = Patch(buf[c][s], table[s], f)
<1>1. s \in Followed
  BY FollowedFacts
<1>2. buf \in [Clients -> Rows]
  BY DEF PollTypeOK
<1>3. ASSUME NEW d \in Clients, NEW k \in 1..requests[d], ReadRequest(d, k)
      PROVE  buf'[c][s] = buf[c][s] \/ buf'[c][s] = ZeroStruct
  BY <1>1, <1>2, <1>3 DEF ReadRequest, ZeroRows
<1>4. ASSUME NEW d \in Clients, NEW i \in Followed, NEW f \in Fields, CopyField(d, i, f)
      PROVE  buf'[c][s] = buf[c][s] \/ buf'[c][s] = Patch(buf[c][s], table[s], f)
  BY <1>1, <1>2, <1>4 DEF CopyField, Rows
<1> QED
  BY <1>3, <1>4, PollCases
     DEF Environment, Ask, ReadReply, ReadRefused, ReadReset, ReadEOF, ReadLate, Quit, Failed,
         WriteReply, ReadNothing, Stop, vars, pollVars, handlerVars

(* Replies are written behind the others, read from the front or lost.       *)
LEMMA RepliesChange ==
  ASSUME PollTypeOK, [Environment \/ PollNext]_vars, NEW c \in Clients
  PROVE  \/ replies'[c] = replies[c] /\ shown'[c] = shown[c]
         \/ replies'[c] = <<>> /\ shown'[c] = shown[c]
         \/ WriteReply(c) /\ replies'[c] = Append(replies[c], buf[c]) /\ shown'[c] = shown[c]
         \/ \E k \in 1..Len(replies[c]) :
              /\ ReadReply(c, k)
              /\ replies'[c] = SubSeq(replies[c], k + 1, Len(replies[c]))
              /\ shown'[c] = replies[c][1]
<1>1. replies \in [Clients -> Seq(Rows)] /\ shown \in [Clients -> Rows]
  BY DEF PollTypeOK
<1>2. ASSUME NEW d \in Clients, WriteReply(d)
      PROVE  /\ shown'[c] = shown[c]
             /\ \/ replies'[c] = replies[c]
                \/ d = c /\ replies'[c] = Append(replies[c], buf[c])
  BY <1>1, <1>2 DEF WriteReply, clientVars
<1>3. ASSUME NEW d \in Clients, NEW k \in 1..Len(replies[d]), ReadReply(d, k)
      PROVE  \/ replies'[c] = replies[c] /\ shown'[c] = shown[c]
             \/ /\ d = c
                /\ replies'[c] = SubSeq(replies[c], k + 1, Len(replies[c]))
                /\ shown'[c] = replies[c][1]
  BY <1>1, <1>3 DEF ReadReply
<1>4. ASSUME NEW d \in Clients, ReadReset(d)
      PROVE  (replies'[c] = replies[c] \/ replies'[c] = <<>>) /\ shown'[c] = shown[c]
  BY <1>1, <1>4 DEF ReadReset, Failed
<1>5. ASSUME \/ Environment \/ Stop \/ UNCHANGED vars
             \/ \E d \in Clients : \/ Ask(d) \/ ReadRefused(d) \/ ReadEOF(d) \/ ReadLate(d) \/ Quit(d)
                                   \/ ReadNothing(d)
                                   \/ \E k \in 1..requests[d] : ReadRequest(d, k)
                                   \/ \E i \in Followed, f \in Fields : CopyField(d, i, f)
      PROVE  replies' = replies /\ shown' = shown
  BY <1>5 DEF Environment, Stop, Ask, ReadRefused, ReadEOF, ReadLate, Quit, Failed, ReadNothing,
              ReadRequest, CopyField, vars, pollVars, clientVars
<1> QED
  BY <1>2, <1>3, <1>4, <1>5, PollCases

(* ShownOwner, of the table and of every buffer a reply goes through.        *)
BuffersOwned ==
  /\ RowsOwned(table)
  /\ \A c \in Clients :
       /\ RowsOwned(buf[c])
       /\ RowsOwned(shown[c])
       /\ \A j \in 1..Len(replies[c]) : RowsOwned(replies[c][j])

(* Every buffer of a reply goes on holding measurements of the slave in the  *)
(* row of the slave.                                                         *)
LEMMA BuffersStep == PollTypeOK /\ BuffersOwned /\ [Environment \/ PollNext]_vars => BuffersOwned'
<1> SUFFICES ASSUME PollTypeOK, BuffersOwned, [Environment \/ PollNext]_vars PROVE BuffersOwned'
  OBVIOUS
<1>1. ASSUME NEW s \in SlavesFollowed
      PROVE  RecordUpTo(table[s], s, taken[s]) /\ RecordUpTo(table'[s], s, taken'[s])
  <2>1. RecordUpTo(table[s], s, taken[s])
    BY DEF BuffersOwned, RowsOwned, RecordOf, RecordUpTo
  <2> QED
    BY <2>1, TableOwned
<1>2. ASSUME NEW s \in SlavesFollowed, NEW c \in Clients
      PROVE  RecordUpTo(buf[c][s], s, taken[s]) /\ RecordUpTo(buf'[c][s], s, taken'[s])
  <2>1. RecordUpTo(buf[c][s], s, taken[s])
    BY DEF BuffersOwned, RowsOwned, RecordOf, RecordUpTo
  <2>2. RecordUpTo(ZeroStruct, s, taken'[s])
    BY DEF RecordUpTo, MeasuredBy, ZeroStruct
  <2>3. ASSUME NEW f \in Fields PROVE RecordUpTo(Patch(buf[c][s], table[s], f), s, taken[s])
    <3>1. buf[c][s] \in Struct /\ table[s] \in Struct
      BY RowTypes
    <3>2. /\ Patch(buf[c][s], table[s], f).disk \in {buf[c][s].disk, table[s].disk}
          /\ Patch(buf[c][s], table[s], f).idx \in {buf[c][s].idx, table[s].idx}
      BY <3>1, PatchMixes
    <3> QED
      BY <1>1, <2>1, <3>2 DEF RecordUpTo
  <2> QED
    BY <2>1, <2>2, <2>3, BufChange, RecordsStay
<1>3. ASSUME NEW s \in SlavesFollowed, NEW c \in Clients
      PROVE  /\ RecordUpTo(shown'[c][s], s, taken'[s])
             /\ \A j \in 1..Len(replies'[c]) : RecordUpTo(replies'[c][j][s], s, taken'[s])
  <2>1. RecordUpTo(shown[c][s], s, taken'[s])
    <3>1. RecordUpTo(shown[c][s], s, taken[s])
      BY DEF BuffersOwned, RowsOwned, RecordOf, RecordUpTo
    <3> QED
      BY <3>1, RecordsStay
  <2>2. ASSUME NEW j \in 1..Len(replies[c]) PROVE RecordUpTo(replies[c][j][s], s, taken'[s])
    <3>1. RecordUpTo(replies[c][j][s], s, taken[s])
      BY DEF BuffersOwned, RowsOwned, RecordOf, RecordUpTo
    <3> QED
      BY <3>1, RecordsStay
  <2>3. RecordUpTo(buf[c][s], s, taken'[s])
    BY <1>2, RecordsStay
  <2>4. replies[c] \in Seq(Rows) /\ buf[c] \in Rows
    BY RowTypes
  <2>5. ASSUME replies'[c] = Append(replies[c], buf[c])
        PROVE  \A j \in 1..Len(replies'[c]) : RecordUpTo(replies'[c][j][s], s, taken'[s])
    BY <2>2, <2>3, <2>4, <2>5
  <2>6. ASSUME NEW k \in 1..Len(replies[c]), replies'[c] = SubSeq(replies[c], k + 1, Len(replies[c]))
        PROVE  \A j \in 1..Len(replies'[c]) : RecordUpTo(replies'[c][j][s], s, taken'[s])
    BY <2>2, <2>4, <2>6, DropFacts
  <2> QED
    BY <2>1, <2>2, <2>4, <2>5, <2>6, RepliesChange
<1> QED
  BY <1>1, <1>2, <1>3 DEF BuffersOwned, RowsOwned, RecordOf, RecordUpTo

(* All rows are zero at the start.                                           *)
LEMMA InitBuffers == TableInit /\ PollInit => BuffersOwned
<1> SUFFICES ASSUME TableInit, PollInit PROVE BuffersOwned
  OBVIOUS
<1>1. ASSUME NEW s \in SlavesFollowed PROVE RecordOf(ZeroStruct, s)
  BY DEF RecordOf, MeasuredBy, ZeroStruct
<1> QED
  BY <1>1, FollowedFacts DEF TableInit, PollInit, BuffersOwned, RowsOwned, ZeroRows

(* Whatever happens on the connections, a client prints in the row of a      *)
(* slave what this slave has measured.                                       *)
THEOREM RowsKeepTheirSlave == Spec => []ShownOwner
<1>1. BuffersOwned => ShownOwner
  BY DEF BuffersOwned, ShownOwner
<1> QED
  BY <1>1, PollInitTyped, PollTypeStep, InitBuffers, BuffersStep, PTL DEF Init, Spec

-----------------------------------------------------------------------------
(* What clients are shown moves forward and is fresh.                        *)

(* A slot that is followed moves forward, but for the first zeroing.         *)
LEMMA TableForward ==
  ASSUME PollTypeOK, BuffersOwned, [Environment \/ PollNext]_vars, NEW s \in SlavesFollowed
  PROVE  \/ NotAfter(table[s], table'[s])
         \/ Clear /\ UNCHANGED pollVars
<1>1. s \in Slaves /\ s \in Servers /\ s # Master
  BY FollowedFacts
<1>2. table[s] \in Struct /\ NotAfter(table[s], table[s])
  BY <1>1, NotAfterFacts DEF PollTypeOK, TableTypeOK
<1>3. table[s].idx \in {Master, s} /\ table[s].disk.n \in Nat
  <2>1. RecordOf(table[s], s)
    BY DEF BuffersOwned, RowsOwned
  <2> QED
    BY <1>2, <2>1, MaxTakenAssumption DEF RecordOf, Struct, Disk
<1>4. CASE Environment
  <2> USE <1>1 DEF PollTypeOK, TableTypeOK
  <2>1. CASE Overwrite \/ \E i \in Servers : Measure(i)
    <3>1. table'[s] = table[s]
      BY <2>1 DEF Overwrite, Measure
    <3> QED
      BY <3>1, <1>2
  <2>2. ASSUME NEW t \in Slaves, Publish(t) PROVE NotAfter(table[s], table'[s])
    <3>1. PICK n \in 1..taken[t] : /\ n >= table[t].disk.n
                                   /\ table' = [table EXCEPT ![t].disk = Load(t, n)]
      BY <2>2 DEF Publish
    <3>2. table'[s] = table[s] \/ (t = s /\ table'[s] = [table[s] EXCEPT !.disk = Load(s, n)])
      BY <3>1
    <3>3. CASE t = s /\ table'[s] = [table[s] EXCEPT !.disk = Load(s, n)]
      <4>1. table'[s].disk.n = n /\ table'[s].idx = table[s].idx
        BY <3>3, <1>2 DEF Load, Struct
      <4>2. n >= table[s].disk.n
        BY <3>1, <3>3
      <4> QED
        BY <4>1, <4>2, <1>3 DEF NotAfter
    <3> QED
      BY <3>2, <3>3, <1>2
  <2>3. ASSUME NEW t \in Slaves, Name(t) PROVE NotAfter(table[s], table'[s])
    <3>1. table'[s] = table[s] \/ (t = s /\ table'[s] = [table[s] EXCEPT !.idx = s])
      BY <2>3 DEF Name
    <3>2. CASE t = s /\ table'[s] = [table[s] EXCEPT !.idx = s]
      <4>1. table'[s].disk.n = table[s].disk.n /\ table'[s].idx = s
        BY <3>2, <1>2 DEF Struct
      <4> QED
        BY <4>1, <1>3 DEF NotAfter
    <3> QED
      BY <3>1, <3>2, <1>2
  <2> QED
    BY <1>4, <2>1, <2>2, <2>3 DEF Environment, TableNext
<1>5. CASE table' = table
  BY <1>2, <1>5
<1> QED
  BY <1>4, <1>5, PollCases
     DEF Ask, ReadReply, ReadRefused, ReadReset, ReadEOF, ReadLate, Quit, Failed,
         ReadRequest, CopyField, WriteReply, ReadNothing, Stop, vars, tableVars

(* A draft consists of two fields, each from the buffer or from the slot.    *)
LEMMA DraftFields ==
  ASSUME NEW c \in Clients, NEW s \in SlavesFollowed
  PROVE  /\ Draft(c, s).disk = IF Replying(c) /\ <<s, "disk">> \notin uncopied[c]
                               THEN buf[c][s].disk ELSE table[s].disk
         /\ Draft(c, s).idx = IF Replying(c) /\ <<s, "idx">> \notin uncopied[c]
                              THEN buf[c][s].idx ELSE table[s].idx
BY DEF Draft

(* It is a struct.                                                           *)
LEMMA DraftTyped ==
  ASSUME PollTypeOK, NEW c \in Clients, NEW s \in SlavesFollowed
  PROVE  Draft(c, s) \in Struct
BY RowTypes DEF Draft, Struct

(* In a step each field of a draft stays or becomes that of the slot.        *)
LEMMA DraftChange ==
  ASSUME PollTypeOK, [Environment \/ PollNext]_vars, NEW c \in Clients, NEW s \in SlavesFollowed
  PROVE  /\ Draft(c, s)'.disk \in {Draft(c, s).disk, table'[s].disk}
         /\ Draft(c, s)'.idx \in {Draft(c, s).idx, table'[s].idx}
<1>1. s \in Followed /\ s \in Servers
  BY FollowedFacts
<1>2. /\ hpc \in [Clients -> {"refused", "read", "copy", "write", "gone", "reset"}]
      /\ buf \in [Clients -> Rows]
      /\ uncopied \in [Clients -> SUBSET (Followed \X Fields)]
  BY DEF PollTypeOK
<1> DEFINE Same == /\ Replying(c)' <=> Replying(c)
                   /\ buf'[c] = buf[c]
                   /\ uncopied'[c] = uncopied[c]
<1>3. CASE Same
  BY <1>3 DEF Draft
<1>4. CASE ~Replying(c)'
  BY <1>4 DEF Draft
<1>5. ASSUME NEW d \in Clients, NEW k \in 1..requests[d], ReadRequest(d, k)
      PROVE  Same \/ (<<s, "disk">> \in uncopied'[c] /\ <<s, "idx">> \in uncopied'[c])
  <2>1. CASE d = c
    BY <1>1, <1>2, <1>5, <2>1 DEF ReadRequest, Fields
  <2>2. CASE d # c
    BY <1>2, <1>5, <2>2 DEF ReadRequest, Replying
  <2> QED
    BY <2>1, <2>2
<1>6. ASSUME NEW d \in Clients, NEW i \in Followed, NEW f \in Fields, CopyField(d, i, f)
      PROVE  \/ Same
             \/ /\ Draft(c, s)'.disk = Draft(c, s).disk
                /\ Draft(c, s)'.idx = Draft(c, s).idx
  <2>1. CASE d # c
    BY <1>2, <1>6, <2>1 DEF CopyField, Replying
  <2>2. CASE d = c
    <3>1. /\ Replying(c) /\ Replying(c)'
          /\ uncopied'[c] = uncopied[c] \ {<<i, f>>}
          /\ table' = table
          /\ <<i, f>> \in uncopied[c]
      BY <1>2, <1>6, <2>2 DEF CopyField, Replying, tableVars
    <3>2. buf'[c][s] = IF i = s THEN Patch(buf[c][s], table[s], f) ELSE buf[c][s]
      BY <1>1, <1>2, <1>6, <2>2 DEF CopyField, Rows
    <3>3. buf[c][s] \in Struct /\ table[s] \in Struct
      BY RowTypes
    <3>4. /\ buf'[c][s].disk = IF i = s /\ f = "disk" THEN table[s].disk ELSE buf[c][s].disk
          /\ buf'[c][s].idx = IF i = s /\ f = "idx" THEN table[s].idx ELSE buf[c][s].idx
      BY <3>2, <3>3, PatchMixes DEF Fields
    <3> QED
      BY <3>1, <3>4 DEF Draft
  <2> QED
    BY <2>1, <2>2
<1>7. ASSUME NEW d \in Clients, WriteReply(d) \/ ReadNothing(d) \/ ReadReset(d)
      PROVE  Same \/ ~Replying(c)'
  BY <1>2, <1>7 DEF WriteReply, ReadNothing, ReadReset, Failed, Replying
<1>8. ASSUME Stop PROVE ~Replying(c)'
  BY <1>2, <1>8 DEF Stop, Replying, Serving
<1>9. ASSUME \/ Environment \/ UNCHANGED vars
             \/ \E d \in Clients : \/ Ask(d) \/ ReadRefused(d) \/ ReadEOF(d) \/ ReadLate(d) \/ Quit(d)
                                   \/ \E k \in 1..Len(replies[d]) : ReadReply(d, k)
      PROVE  Same
  <2>1. hpc' = hpc /\ buf' = buf /\ uncopied' = uncopied
    BY <1>9 DEF Environment, Ask, ReadRefused, ReadEOF, ReadLate, Quit, Failed, ReadReply,
                vars, pollVars, handlerVars
  <2> QED
    BY <2>1 DEF Replying
<1>10. ASSUME <<s, "disk">> \in uncopied'[c] /\ <<s, "idx">> \in uncopied'[c]
       PROVE  Draft(c, s)'.disk = table'[s].disk /\ Draft(c, s)'.idx = table'[s].idx
  BY <1>10 DEF Draft
<1> HIDE DEF Same
<1> QED
  BY <1>3, <1>4, <1>5, <1>6, <1>7, <1>8, <1>9, <1>10, PollCases DEF Draft

(* A draft moves forward as its slot does, and stays behind it.              *)
LEMMA DraftForward ==
  ASSUME PollTypeOK, PollTypeOK', [Environment \/ PollNext]_vars,
         NEW c \in Clients, NEW s \in SlavesFollowed,
         NotAfter(Draft(c, s), table[s]), NotAfter(table[s], table'[s])
  PROVE  NotAfter(Draft(c, s), Draft(c, s)') /\ NotAfter(Draft(c, s)', table'[s])
<1>1. table[s] \in Struct /\ Draft(c, s) \in Struct
  BY RowTypes, DraftTyped
<1>2. table'[s] \in Struct
  BY FollowedFacts DEF PollTypeOK, TableTypeOK
<1>3. /\ NotAfter(Draft(c, s), table'[s])
      /\ NotAfter(Draft(c, s), Draft(c, s)) /\ NotAfter(table'[s], table'[s])
  BY <1>1, <1>2, NotAfterFacts
<1>4. /\ Draft(c, s)'.disk \in {Draft(c, s).disk, table'[s].disk}
      /\ Draft(c, s)'.idx \in {Draft(c, s).idx, table'[s].idx}
  BY DraftChange
<1> QED
  BY <1>3, <1>4 DEF NotAfter

(* When a reply is written all of it has been copied.                        *)
Copied == \A c \in Clients : hpc[c] = "write" => uncopied[c] = {}

(* memcpy returns before the write begins.                                   *)
LEMMA CopiedStep == PollTypeOK /\ Copied /\ [Environment \/ PollNext]_vars => Copied'
<1> SUFFICES ASSUME PollTypeOK, Copied, [Environment \/ PollNext]_vars,
                    NEW c \in Clients, hpc'[c] = "write"
             PROVE  uncopied'[c] = {}
  BY DEF Copied
<1>1. /\ hpc \in [Clients -> {"refused", "read", "copy", "write", "gone", "reset"}]
      /\ uncopied \in [Clients -> SUBSET (Followed \X Fields)]
      /\ hpc[c] = "write" => uncopied[c] = {}
  BY DEF PollTypeOK, Copied
<1>2. ASSUME NEW d \in Clients, NEW k \in 1..requests[d], ReadRequest(d, k)
      PROVE  uncopied'[c] = {}
  BY <1>1, <1>2 DEF ReadRequest
<1>3. ASSUME NEW d \in Clients, NEW i \in Followed, NEW f \in Fields, CopyField(d, i, f)
      PROVE  uncopied'[c] = {}
  BY <1>1, <1>3 DEF CopyField
<1>4. ASSUME NEW d \in Clients, WriteReply(d) \/ ReadNothing(d) \/ ReadReset(d)
      PROVE  uncopied'[c] = {}
  BY <1>1, <1>4 DEF WriteReply, ReadNothing, ReadReset, Failed
<1>5. CASE Stop
  BY <1>1, <1>5 DEF Stop
<1> QED
  BY <1>1, <1>2, <1>3, <1>4, <1>5, PollCases
     DEF Environment, Ask, ReadRefused, ReadEOF, ReadLate, Quit, Failed, ReadReply,
         vars, pollVars, handlerVars

-----------------------------------------------------------------------------
(* Order.                                                                    *)

(* A handler that sleeps until the monitor has started touches nothing       *)
(* before.                                                                   *)
LEMMA UntouchedStep ==
  ASSUME PollTypeOK, [Environment \/ PollNext]_vars, "early" \notin Mishaps, NEW c \in Clients,
         taken[Master] = 0 => Untouched(c), taken'[Master] = 0
  PROVE  Untouched(c)'
<1>1. Master \in Servers
  BY DEF Servers
<1>2. taken[Master] = 0 /\ Untouched(c)
  BY <1>1, TakenGrows
<1>3. /\ hpc \in [Clients -> {"refused", "read", "copy", "write", "gone", "reset"}]
      /\ hpc[c] \notin {"copy", "write"} /\ replies[c] = <<>> /\ shown[c] = ZeroRows
  BY <1>2 DEF PollTypeOK, Untouched, Replying
<1>4. replies'[c] = <<>> /\ shown'[c] = ZeroRows
  <2>1. ~WriteReply(c)
    BY <1>3 DEF WriteReply
  <2> QED
    BY <1>3, <2>1, RepliesChange
<1>5. hpc'[c] \notin {"copy", "write"}
  <2>1. ASSUME NEW d \in Clients, NEW k \in 1..requests[d], ReadRequest(d, k) PROVE FALSE
    BY <1>2, <2>1 DEF ReadRequest, Awake
  <2>2. ASSUME NEW d \in Clients, NEW i \in Followed, NEW f \in Fields, CopyField(d, i, f)
        PROVE  hpc'[c] \notin {"copy", "write"}
    BY <1>3, <2>2 DEF CopyField
  <2>3. ASSUME NEW d \in Clients, WriteReply(d) \/ ReadNothing(d) \/ ReadReset(d)
        PROVE  hpc'[c] \notin {"copy", "write"}
    BY <1>3, <2>3 DEF WriteReply, ReadNothing, ReadReset, Failed
  <2>4. CASE Stop
    BY <1>3, <2>4 DEF Stop
  <2> QED
    BY <1>3, <2>1, <2>2, <2>3, <2>4, PollCases
       DEF Environment, Ask, ReadRefused, ReadEOF, ReadLate, Quit, Failed, ReadReply,
           vars, pollVars, handlerVars
<1> QED
  BY <1>4, <1>5 DEF Untouched, Replying

(* Every step keeps the way from the slot of s to the screen of c in order.  *)
LEMMA OrderedStep ==
  ASSUME PollTypeOK, PollTypeOK', BuffersOwned, Copied, [Environment \/ PollNext]_vars,
         NEW c \in Clients, NEW s \in SlavesFollowed, Ordered(c, s), Clear => Untouched(c)
  PROVE  Ordered(c, s)'
<1>1. s \in Followed /\ s \in Servers
  BY FollowedFacts
<1>2. /\ replies[c] \in Seq(Rows) /\ buf[c] \in Rows
      /\ table[s] \in Struct /\ shown[c][s] \in Struct /\ buf[c][s] \in Struct
      /\ Draft(c, s) \in Struct
      /\ \A j \in 1..Len(replies[c]) : replies[c][j][s] \in Struct
  BY RowTypes, DraftTyped
<1>3. table'[s] \in Struct /\ Draft(c, s)' \in Struct
  <2>1. /\ table'[s] \in Struct
        /\ Draft(c, s)'.disk \in {Draft(c, s).disk, table'[s].disk}
        /\ Draft(c, s)'.idx \in {Draft(c, s).idx, table'[s].idx}
    BY <1>1, DraftChange DEF PollTypeOK, TableTypeOK
  <2> QED
    BY <1>2, <2>1 DEF Draft, Struct
<1>4. CASE Clear /\ UNCHANGED pollVars
  <2>1. /\ Draft(c, s)' = [disk |-> table'[s].disk, idx |-> table'[s].idx]
        /\ shown'[c][s] = ZeroStruct
        /\ replies'[c] = <<>>
    BY <1>1, <1>4 DEF Untouched, Draft, Replying, ZeroRows, pollVars, clientVars, handlerVars
  <2>2. Draft(c, s)' = table'[s]
    BY <1>3, <2>1 DEF Struct
  <2>3. NotAfter(table'[s], table'[s]) /\ NotAfter(ZeroStruct, table'[s])
    BY <1>3, NotAfterFacts
  <2> QED
    BY <2>1, <2>2, <2>3 DEF Ordered
<1>5. CASE NotAfter(table[s], table'[s])
  <2>1. NotAfter(Draft(c, s), table[s])
    BY DEF Ordered
  <2>2. NotAfter(Draft(c, s), Draft(c, s)') /\ NotAfter(Draft(c, s)', table'[s])
    BY <1>5, <2>1, DraftForward
  <2>3. NotAfter(shown[c][s], Draft(c, s)')
    <3>1. NotAfter(shown[c][s], Draft(c, s))
      BY DEF Ordered
    <3> QED
      BY <1>2, <1>3, <2>2, <3>1, NotAfterFacts
  <2>4. ASSUME NEW j \in 1..Len(replies[c]) PROVE NotAfter(replies[c][j][s], Draft(c, s)')
    <3>1. NotAfter(replies[c][j][s], Draft(c, s))
      BY DEF Ordered
    <3> QED
      BY <1>2, <1>3, <2>2, <3>1, NotAfterFacts
  <2>5. CASE replies'[c] = replies[c] /\ shown'[c] = shown[c]
    BY <2>2, <2>3, <2>4, <2>5 DEF Ordered
  <2>6. CASE replies'[c] = <<>> /\ shown'[c] = shown[c]
    BY <2>2, <2>3, <2>6 DEF Ordered
  <2>7. CASE WriteReply(c) /\ replies'[c] = Append(replies[c], buf[c]) /\ shown'[c] = shown[c]
    <3>1. Draft(c, s) = buf[c][s]
      <4>1. hpc[c] = "write" /\ uncopied[c] = {}
        BY <2>7 DEF WriteReply, Copied
      <4> QED
        BY <1>2, <4>1 DEF Draft, Replying, Struct
    <3>2. /\ NotAfter(buf[c][s], Draft(c, s)')
          /\ NotAfter(shown[c][s], buf[c][s])
          /\ \A j \in 1..Len(replies[c]) : NotAfter(replies[c][j][s], buf[c][s])
      BY <2>2, <3>1 DEF Ordered
    <3>3. /\ Len(replies'[c]) = Len(replies[c]) + 1
          /\ \A j \in 1..Len(replies'[c]) :
               replies'[c][j] = IF j \in 1..Len(replies[c]) THEN replies[c][j] ELSE buf[c]
          /\ Len(replies[c]) \in Nat
      BY <1>2, <2>7
    <3>4. \A j, k \in 1..Len(replies'[c]) : j < k => j \in 1..Len(replies[c])
      BY <3>3
    <3> QED
      BY <2>2, <2>3, <2>4, <2>7, <3>2, <3>3, <3>4 DEF Ordered
  <2>8. ASSUME NEW k \in 1..Len(replies[c]),
               replies'[c] = SubSeq(replies[c], k + 1, Len(replies[c])),
               shown'[c] = replies[c][1]
        PROVE  Ordered(c, s)'
    <3>1. /\ Len(replies'[c]) = Len(replies[c]) - k
          /\ \A j \in 1..(Len(replies[c]) - k) : replies'[c][j] = replies[c][k + j]
      BY <1>2, <2>8, DropFacts
    <3>2. Len(replies[c]) \in Nat /\ 1 \in 1..Len(replies[c])
      BY <1>2
    <3>3. \A j \in 1..Len(replies'[c]) :
            /\ k + j \in 1..Len(replies[c]) /\ 1 < k + j
            /\ replies'[c][j] = replies[c][k + j]
      BY <3>1, <3>2
    <3>4. \A i, j \in 1..Len(replies'[c]) : i < j => k + i < k + j
      BY <3>1, <3>2
    <3>5. \A i, j \in 1..Len(replies[c]) : i < j => NotAfter(replies[c][i][s], replies[c][j][s])
      BY DEF Ordered
    <3> QED
      BY <2>2, <2>4, <2>8, <3>2, <3>3, <3>4, <3>5 DEF Ordered
  <2> QED
    BY <2>5, <2>6, <2>7, <2>8, RepliesChange
<1> QED
  BY <1>4, <1>5, TableForward

(* What a reply goes through: inductive, whatever the mishaps.               *)
OrderInv == PollTypeOK /\ BuffersOwned /\ Copied /\ InOrder

(* At the start no reply is under way and every screen is empty.             *)
LEMMA InitOrder == TableInit /\ PollInit => OrderInv
<1> SUFFICES ASSUME TableInit, PollInit PROVE Copied /\ InOrder
  BY PollInitTyped, InitBuffers DEF OrderInv
<1>1. Copied
  BY DEF PollInit, Copied
<1>2. ASSUME NEW c \in Clients PROVE ~Replying(c) /\ replies[c] = <<>> /\ shown[c] = ZeroRows
  BY DEF PollInit, Replying
<1>3. ASSUME NEW c \in Clients, NEW s \in SlavesFollowed PROVE Ordered(c, s)
  <2>1. table[s] = ZeroStruct /\ shown[c][s] = ZeroStruct
    BY <1>2, FollowedFacts DEF TableInit, ZeroRows
  <2>2. Draft(c, s) = ZeroStruct
    BY <1>2, <2>1 DEF Draft, ZeroStruct
  <2>3. NotAfter(ZeroStruct, ZeroStruct)
    BY StructFacts, NotAfterFacts
  <2> QED
    BY <1>2, <2>1, <2>2, <2>3 DEF Ordered
<1> QED
  BY <1>1, <1>2, <1>3 DEF InOrder, Copied, Untouched

(* The lemmas above, together.                                               *)
LEMMA OrderInvStep == OrderInv /\ [Environment \/ PollNext]_vars => OrderInv'
<1> SUFFICES ASSUME OrderInv, [Environment \/ PollNext]_vars PROVE OrderInv'
  OBVIOUS
<1>1. PollTypeOK /\ BuffersOwned /\ Copied /\ PollTypeOK' /\ BuffersOwned' /\ Copied'
  BY PollTypeStep, BuffersStep, CopiedStep DEF OrderInv
<1>2. ASSUME "early" \notin Mishaps, NEW c \in Clients
      PROVE  /\ taken'[Master] = 0 => Untouched(c)'
             /\ \A s \in SlavesFollowed : Ordered(c, s)'
  <2>1. /\ taken[Master] = 0 => Untouched(c)
        /\ \A s \in SlavesFollowed : Ordered(c, s)
    BY <1>2 DEF OrderInv, InOrder
  <2>2. Clear => Untouched(c)
    BY <2>1 DEF Clear
  <2> QED
    BY <1>1, <1>2, <2>1, <2>2, UntouchedStep, OrderedStep
<1> QED
  BY <1>1, <1>2 DEF OrderInv, InOrder, Copied

(* Nothing overtakes on the way from the table through sndBuffer and the     *)
(* connection to the screen of a client.                                     *)
THEOREM RepliesInOrder == Spec => []InOrder
BY InitOrder, OrderInvStep, PTL DEF Init, Spec, OrderInv

(* No step of anybody takes what a client prints of a slave back to an older *)
(* measurement: what is read first is not older than what is shown.          *)
THEOREM ClientsForward == Spec => ShownForward
<1>1. OrderInv /\ [Environment \/ PollNext]_vars
      => [\A c \in Clients, s \in SlavesFollowed :
            "early" \notin Mishaps => NotAfter(shown[c][s], shown'[c][s])]_vars
  <2> SUFFICES ASSUME OrderInv, [Environment \/ PollNext]_vars, "early" \notin Mishaps,
                      NEW c \in Clients, NEW s \in SlavesFollowed
               PROVE  NotAfter(shown[c][s], shown'[c][s])
    OBVIOUS
  <2>1. PollTypeOK /\ Ordered(c, s)
    BY DEF OrderInv, InOrder
  <2>2. shown'[c] = shown[c] \/ (1 \in 1..Len(replies[c]) /\ shown'[c] = replies[c][1])
    <3>1. ASSUME NEW k \in 1..Len(replies[c]) PROVE 1 \in 1..Len(replies[c])
      BY <2>1, RowTypes
    <3> QED
      BY <2>1, <3>1, RepliesChange
  <2>3. NotAfter(shown[c][s], shown[c][s])
    BY <2>1, RowTypes, NotAfterFacts
  <2> QED
    BY <2>1, <2>2, <2>3 DEF Ordered
<1> QED
  BY <1>1, InitOrder, OrderInvStep, PTL DEF Init, Spec, ShownForward

-----------------------------------------------------------------------------
(* Freshness.                                                                *)

(* No reply takes more than the 5 s that a client waits.                     *)
Punctual == "late" \notin Mishaps

(* InPhase, with what is left when the server of a client has ended.         *)
Quiet(c) ==
  /\ cpc[c] = "ask" => Owed(c) = 0
  /\ cpc[c] = "wait" => Owed(c) <= 1 /\ (Serving(c) => Owed(c) = 1)
  /\ ~Serving(c) => requests[c] = 0
  /\ hpc[c] = "refused" => replies[c] = <<>>

(* Requests and replies of a client are counted.                             *)
LEMMA OwedFacts ==
  ASSUME PollTypeOK, NEW c \in Clients
  PROVE  /\ requests[c] \in Nat /\ Len(replies[c]) \in Nat /\ Owed(c) \in Nat
         /\ replies[c] \in Seq(Rows)
         /\ Owed(c) = requests[c] + Len(replies[c]) + (IF Replying(c) THEN 1 ELSE 0)
         /\ Owed(c) = 0 => requests[c] = 0 /\ replies[c] = <<>> /\ ~Replying(c)
<1>1. requests[c] \in Nat /\ replies[c] \in Seq(Rows)
  BY DEF PollTypeOK
<1>2. Owed(c) = requests[c] + Len(replies[c]) + (IF Replying(c) THEN 1 ELSE 0)
  BY DEF Owed, Replying
<1>3. Len(replies[c]) \in Nat /\ (Len(replies[c]) = 0 => replies[c] = <<>>)
  BY <1>1
<1> QED
  BY <1>1, <1>2, <1>3

(* Without late replies a client and its handler take turns.                 *)
LEMMA QuietStep ==
  ASSUME Punctual, PollTypeOK, [Environment \/ PollNext]_vars, NEW c \in Clients, Quiet(c)
  PROVE  Quiet(c)'
<1>1. /\ hpc \in [Clients -> {"refused", "read", "copy", "write", "gone", "reset"}]
      /\ cpc \in [Clients -> {"ask", "wait", "exit"}]
      /\ requests \in [Clients -> Nat]
      /\ replies \in [Clients -> Seq(Rows)]
      /\ buf[c] \in Rows
  BY DEF PollTypeOK
<1>2. /\ requests[c] \in Nat /\ Len(replies[c]) \in Nat
      /\ Len(replies[c]) = 0 => replies[c] = <<>>
  BY <1>1
<1> USE <1>1, <1>2 DEF Quiet, Owed, Serving
<1>3. CASE /\ hpc'[c] = hpc[c] /\ cpc'[c] = cpc[c]
           /\ requests'[c] = requests[c] /\ replies'[c] = replies[c]
  BY <1>3
<1>4. ASSUME Ask(c) PROVE Quiet(c)'
  BY <1>4 DEF Ask, handlerVars
<1>5. ASSUME NEW k \in 1..Len(replies[c]), ReadReply(c, k) PROVE Quiet(c)'
  <2>1. Len(replies'[c]) = Len(replies[c]) - k
    <3>1. replies'[c] = SubSeq(replies[c], k + 1, Len(replies[c]))
      BY <1>5 DEF ReadReply
    <3> QED
      BY <3>1, DropFacts
  <2> QED
    BY <1>5, <2>1 DEF ReadReply, handlerVars
<1>6. ASSUME ReadRefused(c) \/ ReadReset(c) PROVE Quiet(c)'
  BY <1>6 DEF ReadRefused, ReadReset, Failed
<1>7. ASSUME ReadEOF(c) \/ Quit(c) PROVE Quiet(c)'
  BY <1>7 DEF ReadEOF, Quit, handlerVars
<1>8. ASSUME NEW k \in 1..requests[c], ReadRequest(c, k) PROVE Quiet(c)'
  BY <1>8 DEF ReadRequest, clientVars
<1>9. ASSUME NEW i \in Followed, NEW f \in Fields, CopyField(c, i, f) PROVE Quiet(c)'
  BY <1>9 DEF CopyField, clientVars
<1>10. ASSUME WriteReply(c) PROVE Quiet(c)'
  <2>1. Len(Append(replies[c], buf[c])) = Len(replies[c]) + 1
    OBVIOUS
  <2> QED
    BY <1>10, <2>1 DEF WriteReply, clientVars
<1>11. ASSUME ReadNothing(c) PROVE Quiet(c)'
  BY <1>11 DEF ReadNothing, clientVars
<1>12. ASSUME Stop PROVE Quiet(c)'
  BY <1>12 DEF Stop, clientVars
<1>13. ASSUME NEW d \in Clients, d # c,
              \/ Ask(d) \/ ReadRefused(d) \/ ReadReset(d) \/ ReadEOF(d) \/ Quit(d)
              \/ WriteReply(d) \/ ReadNothing(d)
              \/ \E k \in 1..Len(replies[d]) : ReadReply(d, k)
              \/ \E k \in 1..requests[d] : ReadRequest(d, k)
              \/ \E i \in Followed, f \in Fields : CopyField(d, i, f)
       PROVE  Quiet(c)'
  <2>1. /\ hpc'[c] = hpc[c] /\ cpc'[c] = cpc[c]
        /\ requests'[c] = requests[c] /\ replies'[c] = replies[c]
    BY <1>13 DEF Ask, ReadRefused, ReadReset, ReadEOF, Quit, Failed, WriteReply, ReadNothing,
                 ReadReply, ReadRequest, CopyField, clientVars, handlerVars
  <2> QED
    BY <1>3, <2>1
<1>14. CASE Environment \/ UNCHANGED vars
  BY <1>3, <1>14 DEF Environment, vars, pollVars, clientVars, handlerVars
<1>15. ASSUME NEW d \in Clients, ReadLate(d) PROVE FALSE
  BY <1>15 DEF ReadLate, Punctual
<1> QED
  BY <1>4, <1>5, <1>6, <1>7, <1>8, <1>9, <1>10, <1>11, <1>12, <1>13, <1>14, <1>15, PollCases

(* At the start nobody has asked.                                            *)
LEMMA InitQuiet == ASSUME TableInit, PollInit, NEW c \in Clients PROVE Quiet(c)
BY DEF PollInit, Quiet, Owed, Serving

(* Without late replies a waiting client has exactly one reply under way.    *)
THEOREM TurnsTaken ==
  ASSUME Punctual
  PROVE  Spec => []InPhase
<1> DEFINE QuietInv == PollTypeOK /\ \A c \in Clients : Quiet(c)
<1>1. TableInit /\ PollInit => QuietInv
  BY PollInitTyped, InitQuiet
<1>2. QuietInv /\ [Environment \/ PollNext]_vars => QuietInv'
  BY PollTypeStep, QuietStep
<1>3. QuietInv => InPhase
  BY DEF Quiet, InPhase
<1> QED
  BY <1>1, <1>2, <1>3, PTL DEF Init, Spec

(* The table has not gone back since c asked.                                *)
Floors(c) ==
  /\ taken[Master] = 0 => floor[c] = ZeroRows
  /\ \A s \in SlavesFollowed : NotAfter(floor[c][s], table[s])

(* Whatever a waiting client may be shown next is at least as recent as its  *)
(* request.                                                                  *)
FreshRow(c, s) ==
  /\ NotAfter(floor[c][s], Draft(c, s))
  /\ \A j \in 1..Len(replies[c]) : NotAfter(floor[c][s], replies[c][j][s])

FreshNext == \A c \in Clients, s \in SlavesFollowed : cpc[c] = "wait" => FreshRow(c, s)

FreshInv ==
  /\ OrderInv
  /\ \A c \in Clients : Quiet(c) /\ Floors(c)
  /\ FreshNext

(* Who asks, and what is noted then.                                         *)
LEMMA FloorChange ==
  ASSUME PollTypeOK, [Environment \/ PollNext]_vars, NEW c \in Clients
  PROVE  \/ /\ Ask(c)
            /\ taken' = taken /\ table' = table
            /\ floor'[c] = IF taken[Master] = 0 THEN ZeroRows ELSE [i \in Followed |-> table[i]]
         \/ floor'[c] = floor[c] /\ (cpc'[c] = "wait" => cpc[c] = "wait")
<1>1. floor \in [Clients -> Rows] /\ cpc \in [Clients -> {"ask", "wait", "exit"}]
  BY DEF PollTypeOK
<1>2. ASSUME NEW d \in Clients, Ask(d)
      PROVE  \/ /\ d = c /\ taken' = taken /\ table' = table
                /\ floor'[c] = IF taken[Master] = 0 THEN ZeroRows ELSE [i \in Followed |-> table[i]]
             \/ floor'[c] = floor[c] /\ cpc'[c] = cpc[c]
  BY <1>1, <1>2 DEF Ask, tableVars
<1>3. ASSUME NEW d \in Clients,
             \/ ReadRefused(d) \/ ReadReset(d) \/ ReadEOF(d) \/ ReadLate(d) \/ Quit(d)
             \/ \E k \in 1..Len(replies[d]) : ReadReply(d, k)
      PROVE  floor'[c] = floor[c] /\ (cpc'[c] = "wait" => cpc[c] = "wait")
  BY <1>1, <1>3 DEF ReadRefused, ReadReset, ReadEOF, ReadLate, Quit, Failed, ReadReply
<1>4. ASSUME \/ Environment \/ Stop \/ UNCHANGED vars
             \/ \E d \in Clients : \/ WriteReply(d) \/ ReadNothing(d)
                                   \/ \E k \in 1..requests[d] : ReadRequest(d, k)
                                   \/ \E i \in Followed, f \in Fields : CopyField(d, i, f)
      PROVE  floor'[c] = floor[c] /\ cpc'[c] = cpc[c]
  BY <1>4 DEF Environment, Stop, WriteReply, ReadNothing, ReadRequest, CopyField,
              vars, pollVars, clientVars
<1> QED
  BY <1>2, <1>3, <1>4, PollCases

(* A table that goes on, or is zeroed before it promises anything, stays     *)
(* above what it was.                                                        *)
LEMMA FloorsStep ==
  ASSUME PollTypeOK, PollTypeOK', BuffersOwned, [Environment \/ PollNext]_vars,
         NEW c \in Clients, Floors(c)
  PROVE  Floors(c)'
<1>1. Master \in Servers /\ taken[Master] \in Nat /\ taken'[Master] \in Nat /\ taken[Master] <= taken'[Master]
  BY TakenGrows DEF Servers
<1>2. ASSUME NEW s \in SlavesFollowed
      PROVE  /\ s \in Followed /\ table[s] \in Struct /\ table'[s] \in Struct /\ floor[c][s] \in Struct
             /\ NotAfter(table[s], table[s]) /\ NotAfter(ZeroStruct, table[s])
             /\ NotAfter(ZeroStruct, table'[s])
  <2>1. s \in Followed /\ table[s] \in Struct /\ table'[s] \in Struct /\ floor[c][s] \in Struct
    BY RowTypes, FollowedFacts DEF PollTypeOK, TableTypeOK
  <2> QED
    BY <2>1, NotAfterFacts
<1>3. CASE /\ Ask(c)
           /\ taken' = taken /\ table' = table
           /\ floor'[c] = IF taken[Master] = 0 THEN ZeroRows ELSE [i \in Followed |-> table[i]]
  BY <1>2, <1>3 DEF Floors, ZeroRows
<1>4. CASE floor'[c] = floor[c]
  <2>1. taken'[Master] = 0 => floor'[c] = ZeroRows
    BY <1>1, <1>4 DEF Floors
  <2>2. ASSUME NEW s \in SlavesFollowed PROVE NotAfter(floor[c][s], table'[s])
    <3>1. CASE NotAfter(table[s], table'[s])
      <4>1. NotAfter(floor[c][s], table[s])
        BY DEF Floors
      <4> QED
        BY <1>2, <3>1, <4>1, NotAfterFacts
    <3>2. CASE Clear
      <4>1. floor[c][s] = ZeroStruct
        BY <1>2, <3>2 DEF Clear, Floors, ZeroRows
      <4> QED
        BY <1>2, <4>1
    <3> QED
      BY <3>1, <3>2, TableForward
  <2> QED
    BY <1>4, <2>1, <2>2 DEF Floors
<1> QED
  BY <1>3, <1>4, FloorChange

(* What is under way to a waiting client stays as recent as its request.     *)
LEMMA FreshRowStep ==
  ASSUME PollTypeOK, PollTypeOK', Copied, [Environment \/ PollNext]_vars,
         NEW c \in Clients, NEW s \in SlavesFollowed,
         Quiet(c), Floors(c)', cpc[c] = "wait" => FreshRow(c, s), cpc'[c] = "wait"
  PROVE  FreshRow(c, s)'
<1>1. NotAfter(floor'[c][s], table'[s])
  BY DEF Floors
<1>2. /\ replies[c] \in Seq(Rows) /\ buf[c] \in Rows
      /\ table[s] \in Struct /\ buf[c][s] \in Struct
  BY RowTypes
<1>3. CASE Ask(c)
  <2>1. cpc[c] = "ask" /\ replies' = replies /\ hpc' = hpc
    BY <1>3 DEF Ask, handlerVars
  <2>2. replies[c] = <<>> /\ ~Replying(c)
    BY <2>1, OwedFacts DEF Quiet
  <2>3. Draft(c, s)' = [disk |-> table'[s].disk, idx |-> table'[s].idx]
    BY <2>1, <2>2 DEF Draft, Replying
  <2> QED
    BY <1>1, <2>1, <2>2, <2>3 DEF FreshRow, NotAfter
<1>4. CASE floor'[c] = floor[c] /\ (cpc'[c] = "wait" => cpc[c] = "wait")
  <2>1. FreshRow(c, s)
    BY <1>4
  <2>2. NotAfter(floor'[c][s], Draft(c, s)')
    <3>1. NotAfter(floor'[c][s], Draft(c, s))
      BY <1>4, <2>1 DEF FreshRow
    <3>2. /\ Draft(c, s)'.disk \in {Draft(c, s).disk, table'[s].disk}
          /\ Draft(c, s)'.idx \in {Draft(c, s).idx, table'[s].idx}
      BY DraftChange
    <3> QED
      BY <1>1, <3>1, <3>2 DEF NotAfter
  <2>3. \A j \in 1..Len(replies[c]) : NotAfter(floor'[c][s], replies[c][j][s])
    BY <1>4, <2>1 DEF FreshRow
  <2>4. CASE replies'[c] = replies[c] \/ replies'[c] = <<>>
    BY <2>2, <2>3, <2>4 DEF FreshRow
  <2>5. CASE WriteReply(c) /\ replies'[c] = Append(replies[c], buf[c])
    <3>1. Draft(c, s) = buf[c][s]
      <4>1. hpc[c] = "write" /\ uncopied[c] = {}
        BY <2>5 DEF WriteReply, Copied
      <4> QED
        BY <1>2, <4>1 DEF Draft, Replying, Struct
    <3>2. NotAfter(floor'[c][s], buf[c][s])
      BY <1>4, <2>1, <3>1 DEF FreshRow
    <3>3. /\ Len(replies'[c]) = Len(replies[c]) + 1
          /\ \A j \in 1..Len(replies'[c]) :
               replies'[c][j] = IF j \in 1..Len(replies[c]) THEN replies[c][j] ELSE buf[c]
      BY <1>2, <2>5
    <3> QED
      BY <2>2, <2>3, <3>2, <3>3 DEF FreshRow
  <2>6. ASSUME NEW k \in 1..Len(replies[c]), ReadReply(c, k) PROVE FALSE
    <3>1. cpc \in [Clients -> {"ask", "wait", "exit"}]
      BY DEF PollTypeOK
    <3> QED
      BY <2>6, <3>1 DEF ReadReply
  <2> QED
    BY <2>4, <2>5, <2>6, RepliesChange
<1> QED
  BY <1>3, <1>4, FloorChange

(* Nothing is older than a request that nobody has made.                     *)
LEMMA InitFresh == TableInit /\ PollInit => FreshInv
<1> SUFFICES ASSUME TableInit, PollInit PROVE FreshInv
  OBVIOUS
<1>1. NotAfter(ZeroStruct, ZeroStruct)
  BY StructFacts, NotAfterFacts
<1>2. \A c \in Clients : Floors(c)
  BY <1>1, FollowedFacts DEF TableInit, PollInit, Floors, ZeroRows
<1>3. FreshNext
  BY DEF PollInit, FreshNext
<1> QED
  BY <1>2, <1>3, InitOrder, InitQuiet DEF FreshInv

(* Turns, floors and what is under way, together.                            *)
LEMMA FreshInvStep ==
  ASSUME Punctual
  PROVE  FreshInv /\ [Environment \/ PollNext]_vars => FreshInv'
<1> SUFFICES ASSUME FreshInv, [Environment \/ PollNext]_vars PROVE FreshInv'
  OBVIOUS
<1>1. OrderInv /\ OrderInv'
  BY OrderInvStep DEF FreshInv
<1>2. PollTypeOK /\ PollTypeOK' /\ BuffersOwned /\ Copied
  BY <1>1 DEF OrderInv
<1>3. ASSUME NEW c \in Clients PROVE Quiet(c)' /\ Floors(c)'
  BY <1>2, QuietStep, FloorsStep DEF FreshInv
<1>4. ASSUME NEW c \in Clients, NEW s \in SlavesFollowed, cpc'[c] = "wait" PROVE FreshRow(c, s)'
  BY <1>2, <1>3, <1>4, FreshRowStep DEF FreshInv, FreshNext
<1> QED
  BY <1>1, <1>3, <1>4 DEF FreshInv, FreshNext

(* Without late replies a client never prints anything older than what the   *)
(* table held when it asked, although the table is copied while it changes.  *)
THEOREM RepliesFresh ==
  ASSUME Punctual
  PROVE  Spec => FreshReply
<1>1. FreshInv /\ [Environment \/ PollNext]_vars
      => [\A c \in Clients : Shows(c) =>
            \A s \in SlavesFollowed : NotAfter(floor[c][s], shown'[c][s])]_vars
  <2> SUFFICES ASSUME FreshInv, NEW c \in Clients, Shows(c), NEW s \in SlavesFollowed
               PROVE  NotAfter(floor[c][s], shown'[c][s])
    OBVIOUS
  <2>1. PICK k \in 1..Len(replies[c]) : ReadReply(c, k)
    BY DEF Shows
  <2>2. replies[c] \in Seq(Rows) /\ shown \in [Clients -> Rows]
    BY DEF FreshInv, OrderInv, PollTypeOK
  <2>3. shown'[c] = replies[c][1] /\ 1 \in 1..Len(replies[c])
    BY <2>1, <2>2 DEF ReadReply
  <2>4. FreshRow(c, s)
    BY <2>1 DEF ReadReply, FreshInv, FreshNext
  <2> QED
    BY <2>3, <2>4 DEF FreshRow
<1> QED
  BY <1>1, InitFresh, FreshInvStep, PTL DEF Init, Spec, FreshReply
=============================================================================
