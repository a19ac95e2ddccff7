------------------------------- MODULE Cluster -------------------------------
(* The whole way of a measurement, from the monitor of a slave to the screen *)
(* of a client: Reporting and Polling side by side.  They share the memory   *)
(* of the master, which reports write and requests read, and the end of the  *)
(* master, which takes the handlers of slaves and of clients with it.        *)
EXTENDS Reporting

CONSTANTS Clients, Followed, Mishaps, MaxOwed   \* those of Polling

(* The master can only be stopped together with its handlers of clients.     *)
ASSUME StopsAssumption == "kill" \in Faults => "stop" \in Mishaps

(* The assumptions of Polling.                                               *)
ASSUME ClientsAssumption ==
  /\ Mishaps \subseteq {"late", "stop", "quit", "early"}
  /\ Followed \subseteq Servers /\ Followed # {}
  /\ MaxOwed \in 1..2

VARIABLES cpc, requests, serving, buf, uncopied, replies, shown, floor

(* The table and the counters of measurements are those of Reporting;        *)
(* serving is where the handlers of the clients are.                         *)
Poll == INSTANCE Polling WITH hpc <- serving

pollVars == <<cpc, requests, serving, buf, uncopied, replies, shown, floor>>
clusterVars == <<vars, pollVars>>

ClusterInit == Init /\ Poll!PollInit

(* A process of the reports goes on, or a slave is stopped.                  *)
ReportStep ==
  /\ \/ \E i \in Servers : Monitor(i)
     \/ \E s \in Slaves : Reporter(s) \/ Handler(s) \/ SecondReadTimeout(s) \/ Kill(s)
  /\ UNCHANGED pollVars

(* A client or its handler goes on, or a client is stopped.                  *)
RequestStep ==
  /\ \E c \in Clients : Poll!Client(c) \/ Poll!Handler(c) \/ Poll!ReadLate(c) \/ Poll!Quit(c)
  /\ UNCHANGED vars

(* The master and all its connections.                                       *)
KillMaster ==
  /\ Kill(Master)
  /\ IF \E c \in Clients : Poll!Serving(c) THEN Poll!Stop ELSE UNCHANGED pollVars

ClusterNext == ReportStep \/ RequestStep \/ KillMaster

ClusterSpec == ClusterInit /\ [][ClusterNext]_clusterVars

-----------------------------------------------------------------------------
(* What clients see of the reports is what Polling says they see of          *)
(* registers that change on their own, with the master's end in common.      *)
ClientsSpec == Poll!Spec

(* From the struct in the memory of a slave over its sndBuffer, the          *)
(* connection, revSerInfo, the table, the sndBuffer of another handler and   *)
(* another connection: nothing a client prints of a slave is ahead of what   *)
(* this slave has in its own memory, whatever is torn, late, early,          *)
(* coalesced or killed on the way.                                           *)
ShownBehind ==
  \A c \in Clients, s \in Poll!SlavesFollowed : NotAfter(shown[c][s], local[s])
=============================================================================
