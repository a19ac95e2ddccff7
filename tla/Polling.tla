------------------------------ MODULE Polling ------------------------------
(* How a client sees the table of the master.                                *)
(*                                                                           *)
(*   client    process_conn_clientTS (Server_side/Android_Client.c): writes  *)
(*             a request every two seconds and reads once for a reply        *)
(*   handler   one process per connection, the Android_GET branch of         *)
(*             process_conn_server (Server_side/extFunc.c): copies the table *)
(*             into sndBuffer and writes it                                  *)
(*                                                                           *)
(* What happens to the table meanwhile is taken from ClusterTable, which     *)
(* Reporting implements.                                                     *)
EXTENDS ClusterTable, Sequences

CONSTANTS Clients,
          Followed,   \* the slots of the table that are looked at
          Mishaps,    \* which of the mishaps below may happen
          MaxOwed     \* bound: requests of a client not yet shown an answer

(* late      a reply takes more than the 5 s of SO_RCVTIMEO                  *)
(* stop      the master is stopped                                           *)
(* quit      a client is stopped                                             *)
(* early     usleep(100000) of a handler ends before the monitor of the      *)
(*           master has started                                              *)
ASSUME MishapsAssumption == Mishaps \subseteq {"late", "stop", "quit", "early"}

(* The slots of a reply are copied one by one and shown one by one.          *)
ASSUME FollowedAssumption == Followed \subseteq Servers /\ Followed # {}

(* Two replies of three servers fit into one read of 1024 bytes.             *)
ASSUME MaxOwedAssumption == MaxOwed \in 1..2

VARIABLES
  cpc,       \* where each client is
  requests,  \* requests[c]: those written by c that its handler has not read
  hpc,       \* where the handler of each client is
  buf,       \* buf[c]: sndBuffer of the handler of c
  uncopied,  \* uncopied[c]: the fields the memcpy from the table has yet to read
  replies,   \* replies[c]: those written to c that it has not read
  shown,     \* shown[c]: the last reply c has printed
  floor      \* floor[c]: the table at the moment of the last request of c

clientVars == <<cpc, shown, floor>>
handlerVars == <<hpc, buf, uncopied>>
pollVars == <<requests, replies, clientVars, handlerVars>>
vars == <<tableVars, pollVars>>

Rows == [Followed -> Struct]
ZeroRows == [i \in Followed |-> ZeroStruct]

PollTypeOK ==
  /\ TableTypeOK
  /\ cpc \in [Clients -> {"ask", "wait", "exit"}]
  /\ requests \in [Clients -> Nat]
  /\ hpc \in [Clients -> {"refused", "read", "copy", "write", "gone", "reset"}]
  /\ buf \in [Clients -> Rows]
  /\ uncopied \in [Clients -> SUBSET (Followed \X Fields)]
  /\ replies \in [Clients -> Seq(Rows)]
  /\ shown \in [Clients -> Rows]
  /\ floor \in [Clients -> Rows]

(* The result of connect is not looked at.                                   *)
PollInit ==
  /\ cpc = [c \in Clients |-> "ask"]
  /\ requests = [c \in Clients |-> 0]
  /\ hpc \in [Clients -> {"read", "refused"}]
  /\ buf = [c \in Clients |-> ZeroRows]
  /\ uncopied = [c \in Clients |-> {}]
  /\ replies = [c \in Clients |-> <<>>]
  /\ shown = [c \in Clients |-> ZeroRows]
  /\ floor = [c \in Clients |-> ZeroRows]

Serving(c) == hpc[c] \in {"read", "copy", "write"}

(* Requests of c that no reply it has read answers.                          *)
Owed(c) == requests[c] + Len(replies[c]) + (IF hpc[c] \in {"copy", "write"} THEN 1 ELSE 0)

-----------------------------------------------------------------------------
(* Clients.                                                                  *)

(* The result of the write is not looked at.  Until the monitor of the       *)
(* master has started the table promises nothing.                            *)
Ask(c) ==
  /\ cpc[c] = "ask"
  /\ requests' = [requests EXCEPT ![c] = IF Serving(c) THEN @ + 1 ELSE @]
  /\ floor' = [floor EXCEPT ![c] = IF taken[Master] = 0 THEN ZeroRows
                                   ELSE [i \in Followed |-> table[i]]]
  /\ cpc' = [cpc EXCEPT ![c] = "wait"]
  /\ UNCHANGED <<tableVars, replies, shown, handlerVars>>

(* Mutant: the client goes on reading until it has had the answer to its     *)
(* last request, and shows that one.                                         *)
ReadReplyLast(c, k) ==
  /\ cpc[c] = "wait"
  /\ shown' = [shown EXCEPT ![c] = replies[c][k]]
  /\ replies' = [replies EXCEPT ![c] = SubSeq(@, 1, k - 1)]
  /\ cpc' = [cpc EXCEPT ![c] = "ask"]
  /\ UNCHANGED <<tableVars, requests, floor, handlerVars>>

(* One read returns k replies; the first one is printed.                     *)
ReadReply(c, k) ==
  /\ cpc[c] = "wait"
  /\ shown' = [shown EXCEPT ![c] = replies[c][1]]
  /\ replies' = [replies EXCEPT ![c] = SubSeq(@, k + 1, Len(@))]
  /\ cpc' = [cpc EXCEPT ![c] = "ask"]
  /\ UNCHANGED <<tableVars, requests, floor, handlerVars>>

Shows(c) == \E k \in 1..Len(replies[c]) : ReadReply(c, k)

(* read returns -1 and the client prints zeros, but asks again.              *)
Failed(c) ==
  /\ cpc[c] = "wait"
  /\ cpc' = [cpc EXCEPT ![c] = "ask"]
  /\ UNCHANGED <<tableVars, requests, shown, floor, buf, uncopied>>

ReadLate(c) ==
  /\ "late" \in Mishaps
  /\ Serving(c) /\ replies[c] = <<>> /\ Owed(c) < MaxOwed
  /\ Failed(c)
  /\ UNCHANGED <<hpc, replies>>

ReadRefused(c) ==
  /\ hpc[c] = "refused"
  /\ Failed(c)
  /\ UNCHANGED <<hpc, replies>>

(* The connection is reset when the master left a request unread or the      *)
(* client wrote to it after its end: one read fails, what was not read is    *)
(* lost.                                                                     *)
ReadReset(c) ==
  /\ hpc[c] = "gone"
  /\ Failed(c)
  /\ hpc' = [hpc EXCEPT ![c] = "reset"]
  /\ replies' = [replies EXCEPT ![c] = <<>>]

(* Mutant: the end of the server is taken for an error like the others.      *)
ReadEOFContinue(c) ==
  /\ hpc[c] \in {"gone", "reset"} /\ replies[c] = <<>>
  /\ Failed(c)
  /\ UNCHANGED <<hpc, replies>>

(* read returns 0, the client breaks out of its loop.                        *)
ReadEOF(c) ==
  /\ hpc[c] \in {"gone", "reset"} /\ replies[c] = <<>>
  /\ cpc[c] = "wait"
  /\ cpc' = [cpc EXCEPT ![c] = "exit"]
  /\ UNCHANGED <<tableVars, requests, replies, shown, floor, handlerVars>>

Quit(c) ==
  /\ "quit" \in Mishaps
  /\ cpc[c] # "exit"
  /\ cpc' = [cpc EXCEPT ![c] = "exit"]
  /\ UNCHANGED <<tableVars, requests, replies, shown, floor, handlerVars>>

-----------------------------------------------------------------------------
(* Handlers.                                                                 *)

Awake == taken[Master] > 0 \/ "early" \in Mishaps

(* Mutant: the table is copied for the first request only.                   *)
ReadRequestCached(c, k) ==
  /\ hpc[c] = "read"
  /\ Awake
  /\ requests' = [requests EXCEPT ![c] = @ - k]
  /\ hpc' = [hpc EXCEPT ![c] = IF buf[c] = ZeroRows THEN "copy" ELSE "write"]
  /\ uncopied' = [uncopied EXCEPT ![c] = IF buf[c] = ZeroRows THEN Followed \X Fields ELSE {}]
  /\ UNCHANGED <<tableVars, replies, buf, clientVars>>

(* Mutant: only the first request of a connection is answered.               *)
ReadRequestOnce(c, k) ==
  /\ hpc[c] = "read"
  /\ Awake
  /\ requests' = [requests EXCEPT ![c] = @ - k]
  /\ hpc' = [hpc EXCEPT ![c] = IF buf[c] = ZeroRows THEN "copy" ELSE "read"]
  /\ uncopied' = [uncopied EXCEPT ![c] = IF buf[c] = ZeroRows THEN Followed \X Fields ELSE {}]
  /\ UNCHANGED <<tableVars, replies, buf, clientVars>>

(* One read returns k requests, which are answered once.                     *)
ReadRequest(c, k) ==
  /\ hpc[c] = "read"
  /\ Awake
  /\ requests' = [requests EXCEPT ![c] = @ - k]
  /\ hpc' = [hpc EXCEPT ![c] = "copy"]
  /\ buf' = [buf EXCEPT ![c] = ZeroRows]
  /\ uncopied' = [uncopied EXCEPT ![c] = Followed \X Fields]
  /\ UNCHANGED <<tableVars, replies, clientVars>>

(* Mutant: the slots are counted from the other end.                         *)
CopyFieldShifted(c, i, f) ==
  /\ hpc[c] = "copy"
  /\ <<i, f>> \in uncopied[c]
  /\ buf' = [buf EXCEPT ![c][i] = Patch(@, table[Master], f)]
  /\ uncopied' = [uncopied EXCEPT ![c] = @ \ {<<i, f>>}]
  /\ hpc' = [hpc EXCEPT ![c] = IF uncopied[c] = {<<i, f>>} THEN "write" ELSE @]
  /\ UNCHANGED <<tableVars, requests, replies, clientVars>>

(* memcpy(sndBuffer, sharedM, ...), a field at a time: a reply may show two  *)
(* slots, or two fields of a slot, at different moments.                     *)
CopyField(c, i, f) ==
  /\ hpc[c] = "copy"
  /\ <<i, f>> \in uncopied[c]
  /\ buf' = [buf EXCEPT ![c][i] = Patch(@, table[i], f)]
  /\ uncopied' = [uncopied EXCEPT ![c] = @ \ {<<i, f>>}]
  /\ hpc' = [hpc EXCEPT ![c] = IF uncopied[c] = {<<i, f>>} THEN "write" ELSE @]
  /\ UNCHANGED <<tableVars, requests, replies, clientVars>>

(* Mutant: the reply is written once for every server it describes.          *)
WriteReplyEach(c) ==
  /\ hpc[c] = "write"
  /\ replies' = [replies EXCEPT ![c] = IF cpc[c] = "exit" THEN @ ELSE @ \o <<buf[c], buf[c]>>]
  /\ hpc' = [hpc EXCEPT ![c] = "read"]
  /\ UNCHANGED <<tableVars, requests, buf, uncopied, clientVars>>

(* The result of the write is not looked at.                                 *)
WriteReply(c) ==
  /\ hpc[c] = "write"
  /\ replies' = [replies EXCEPT ![c] = IF cpc[c] = "exit" THEN @ ELSE Append(@, buf[c])]
  /\ hpc' = [hpc EXCEPT ![c] = "read"]
  /\ UNCHANGED <<tableVars, requests, buf, uncopied, clientVars>>

(* Mutant: an end of file is tried again like an error.                      *)
ReadNothingContinue(c) ==
  /\ hpc[c] = "read"
  /\ cpc[c] = "exit" /\ requests[c] = 0
  /\ UNCHANGED vars

ReadNothing(c) ==
  /\ hpc[c] = "read"
  /\ cpc[c] = "exit" /\ requests[c] = 0
  /\ hpc' = [hpc EXCEPT ![c] = "gone"]
  /\ UNCHANGED <<tableVars, requests, replies, buf, uncopied, clientVars>>

(* Every process of the master is stopped; replies already written may still *)
(* be read.                                                                  *)
Stop ==
  /\ "stop" \in Mishaps
  /\ \E c \in Clients : Serving(c)
  /\ hpc' = [c \in Clients |-> IF Serving(c) THEN "gone" ELSE hpc[c]]
  /\ requests' = [c \in Clients |-> 0]
  /\ uncopied' = [c \in Clients |-> {}]
  /\ UNCHANGED <<tableVars, replies, buf, clientVars>>

Client(c) == Ask(c) \/ Shows(c) \/ ReadRefused(c) \/ ReadReset(c) \/ ReadEOF(c)

Handler(c) ==
  \/ \E k \in 1..requests[c] : ReadRequest(c, k)
  \/ \E i \in Followed, f \in Fields : CopyField(c, i, f)
  \/ WriteReply(c)
  \/ ReadNothing(c)

PollNext ==
  \/ \E c \in Clients : Client(c) \/ Handler(c) \/ ReadLate(c) \/ Quit(c)
  \/ Stop

Environment == TableNext /\ UNCHANGED pollVars

Init == TableInit /\ PollInit

Spec == Init /\ [][Environment \/ PollNext]_vars

(* Every process is scheduled, the monitor of the master too.                *)
Fairness ==
  /\ WF_vars(Clear /\ UNCHANGED pollVars)
  /\ \A c \in Clients : WF_vars(Client(c)) /\ WF_vars(Handler(c))

FairSpec == Spec /\ Fairness

-----------------------------------------------------------------------------
SlavesFollowed == Followed \cap Slaves

RecordOf(p, s) == MeasuredBy(p.disk, s, taken[s]) /\ p.idx \in {Master, s}

RowsOwned(p) == \A s \in SlavesFollowed : RecordOf(p[s], s)

(* Whatever is late, stopped or copied in the middle of a store: what a      *)
(* client prints in the row of a slave was measured by this slave.           *)
ShownOwner == \A c \in Clients : RowsOwned(shown[c])

Replying(c) == hpc[c] \in {"copy", "write"}

(* The row of s as it would be written if the rest were copied at once.      *)
Draft(c, s) ==
  [disk |-> IF Replying(c) /\ <<s, "disk">> \notin uncopied[c] THEN buf[c][s].disk ELSE table[s].disk,
   idx  |-> IF Replying(c) /\ <<s, "idx">> \notin uncopied[c] THEN buf[c][s].idx ELSE table[s].idx]

Ordered(c, s) ==
  /\ NotAfter(Draft(c, s), table[s])
  /\ NotAfter(shown[c][s], Draft(c, s))
  /\ \A j \in 1..Len(replies[c]) :
       /\ NotAfter(shown[c][s], replies[c][j][s])
       /\ NotAfter(replies[c][j][s], Draft(c, s))
       /\ \A k \in 1..Len(replies[c]) : j < k => NotAfter(replies[c][j][s], replies[c][k][s])

(* A handler that is not early has seen nothing of a table that is still to  *)
(* be zeroed.                                                                *)
Untouched(c) == ~Replying(c) /\ replies[c] = <<>> /\ shown[c] = ZeroRows

(* Nothing overtakes on the way from the table to the screen of a client.    *)
InOrder ==
  "early" \notin Mishaps =>
    \A c \in Clients :
      /\ taken[Master] = 0 => Untouched(c)
      /\ hpc[c] = "write" => uncopied[c] = {}
      /\ \A s \in SlavesFollowed : Ordered(c, s)

(* Coalesced, late and lost replies never take what a client prints of a     *)
(* slave back to an older measurement, unless its handler was early.         *)
ShownForward ==
  [][\A c \in Clients, s \in SlavesFollowed :
       "early" \notin Mishaps => NotAfter(shown[c][s], shown'[c][s])]_vars

(* As long as no reply is late, a client prints nothing older than what the  *)
(* table held when it asked: no reply is the answer to an earlier request.   *)
FreshReply ==
  [][\A c \in Clients : Shows(c) =>
       \A s \in SlavesFollowed : NotAfter(floor[c][s], shown'[c][s])]_vars

(* As long as no reply is late, a waiting client waits for exactly one reply *)
(* and nothing else is under way.                                            *)
InPhase ==
  \A c \in Clients :
    /\ cpc[c] = "ask" => Owed(c) = 0
    /\ cpc[c] = "wait" /\ Serving(c) => Owed(c) = 1

(* A client that is connected and whose replies stop being late is shown     *)
(* replies for ever, or ends.                                                *)
Served ==
  \A c \in Clients :
    hpc[c] # "refused" /\ <>[][~ReadLate(c)]_vars =>
      <>(cpc[c] = "exit") \/ []<><<Shows(c)>>_vars

(* What the table holds of a slave once the master has started, or something *)
(* later, reaches the screen of every connected client, if replies cease to  *)
(* be late: the replies a client is behind, because one read of the handler  *)
(* returned two requests or one of its own two replies, are used up.         *)
TableShown ==
  \A c \in Clients : <>[][~ReadLate(c)]_vars =>
    \A s \in SlavesFollowed : \A n \in 1..MaxTaken :
      taken[Master] > 0 /\ table[s].disk.n >= n
        ~> cpc[c] = "exit" \/ hpc[c] = "refused" \/ shown[c][s].disk.n >= n

(* A client notices the end of its server, whatever is left to be read.      *)
ClientEnds == \A c \in Clients : hpc[c] \in {"gone", "reset"} ~> cpc[c] = "exit"

(* The handler of a client that has ended ends, whatever it was doing.       *)
HandlerEnds == \A c \in Clients : cpc[c] = "exit" ~> ~Serving(c)
=============================================================================
