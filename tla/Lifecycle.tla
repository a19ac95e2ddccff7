----------------------------- MODULE Lifecycle -----------------------------
(* How the processes of a server begin and end, again and again              *)
(* (Server_side/Server.c main, init, the signal handler, killP.sh).          *)
(*                                                                           *)
(* A job is one start of the program.  Its main process creates or finds the *)
(* shared memory of its machine, forks a monitor and then either accepts     *)
(* connections, with a forked handler for each, or reports to the master.    *)
(* The processes of a job are a process group; shared memory outlives them.  *)
(* What the reports say is the matter of Reporting: here one counts as a     *)
(* whole, and only the job it comes from is kept and whether it names the    *)
(* slot of its machine.                                                      *)
EXTENDS Naturals, Sequences

CONSTANTS MasterAt,    \* the machine with the address the slaves connect to
          SlavesAt,    \* the machines a slave is started on
          Sizes,       \* the values Number_Of_Servers has had on the master
          Faults,      \* which of the mishaps below may happen
          MaxJobs,     \* bound: starts of the program
          MaxStops,    \* bound: uses of Ctrl-C and of killP.sh
          MaxBacklog   \* bound: reports a connection holds before its buffers are full

(* kill      killP.sh is used                                                *)
(* fork      a fork fails                                                    *)
(* network   a slave does not reach a master that listens                    *)
ASSUME FaultsAssumption == Faults \subseteq {"kill", "fork", "network"}

ASSUME SizesAssumption == Sizes \subseteq Nat \ {0}
ASSUME BoundsAssumption == MaxJobs \in Nat /\ MaxStops \in Nat
ASSUME BacklogAssumption == MaxBacklog \in Nat \ {0}

Machines == SlavesAt \cup {MasterAt}
Jobs == 1..MaxJobs

VARIABLES
  launched,  \* how often the program has been started
  stops,     \* how often somebody has stopped a job or a machine
  at,        \* at[j]: the machine of job j
  role,      \* role[j]: what Master_Flag says
  need,      \* need[j]: how many structs job j wants in the shared memory
  main,      \* where the main process of j is
  mon,       \* where its monitor is
  shmid,     \* shmid[j]: the segment of j, named by the job that created it; 0 before init has it
  key,       \* key[m]: the segment under the key 1234 of machine m, 0 for none
  first,     \* first[m]: the segment m created first after it booted, whose id is 0
  slot,      \* slot[g][m]: the slave job whose report is in the slot of m in segment g
  conn,      \* conn[c]: the connection of slave c as the master sees it
  peer,      \* peer[c]: the master job it was made to
  wire,      \* wire[c]: reports written and not read
  lingers,   \* a closed connection of the master's port is in TIME_WAIT
  doomed,    \* the processes killP.sh has listed and not yet killed
  untidy     \* machines where a job has ended otherwise than by Ctrl-C

jobVars == <<launched, at, role, need>>
procVars == <<main, mon, doomed, untidy, stops>>
shmVars == <<shmid, key, first, slot>>
netVars == <<conn, peer, wire, lingers>>
vars == <<jobVars, procVars, shmVars, netVars>>

Processes == Jobs \X {"main", "monitor", "handler"}

TypeOK ==
  /\ launched \in 0..MaxJobs
  /\ stops \in 0..MaxStops
  /\ at \in [Jobs -> Machines]
  /\ role \in [Jobs -> {"master", "slave"}]
  /\ need \in [Jobs -> Nat]
  /\ main \in [Jobs -> {"none", "init", "fork", "open", "serve", "ended"}]
  /\ mon \in [Jobs -> {"none", "start", "run", "ended"}]
  /\ shmid \in [Jobs -> Jobs \cup {0}]
  /\ key \in [Machines -> Jobs \cup {0}]
  /\ first \in [Machines -> Jobs \cup {0}]
  /\ slot \in [Jobs -> [SlavesAt -> Jobs \cup {0}]]
  /\ conn \in [Jobs -> {"none", "queued", "leaked", "read", "store", "gone"}]
  /\ peer \in [Jobs -> Jobs \cup {0}]
  /\ wire \in [Jobs -> 0..MaxBacklog]
  /\ lingers \in BOOLEAN
  /\ doomed \subseteq Processes
  /\ untidy \subseteq Machines

Init ==
  /\ launched = 0
  /\ stops = 0
  /\ at = [j \in Jobs |-> MasterAt]
  /\ role = [j \in Jobs |-> "slave"]
  /\ need = [j \in Jobs |-> 0]
  /\ main = [j \in Jobs |-> "none"]
  /\ mon = [j \in Jobs |-> "none"]
  /\ shmid = [j \in Jobs |-> 0]
  /\ key = [m \in Machines |-> 0]
  /\ first = [m \in Machines |-> 0]
  /\ slot = [g \in Jobs |-> [m \in SlavesAt |-> 0]]
  /\ conn = [j \in Jobs |-> "none"]
  /\ peer = [j \in Jobs |-> 0]
  /\ wire = [j \in Jobs |-> 0]
  /\ lingers = FALSE
  /\ doomed = {}
  /\ untidy = {}

-----------------------------------------------------------------------------
MainUp(j) == main[j] \in {"init", "fork", "open", "serve"}
MonitorUp(j) == mon[j] \in {"start", "run"}
HandlerUp(c) == conn[c] \in {"read", "store"}

Runs(j, p) ==
  CASE p = "main" -> MainUp(j)
    [] p = "monitor" -> MonitorUp(j)
    [] p = "handler" -> HandlerUp(j)

(* The job a process belongs to: a handler belongs to the master that forked *)
(* it.                                                                       *)
JobOf(j, p) == IF p = "handler" THEN peer[j] ELSE j

Listening(p) == role[p] = "master" /\ main[p] = "serve"
Reports(j) == role[j] = "slave" /\ main[j] = "serve"

(* The listening sockets do not set SO_REUSEADDR: the port is taken as long  *)
(* as somebody listens, somebody holds an accepted connection, or one the    *)
(* master's side closed first has not been forgotten.                        *)
PortFree ==
  /\ ~lingers
  /\ \A p \in Jobs : ~Listening(p)
  /\ \A c \in Jobs : conn[c] \notin {"leaked", "read", "store"}

(* The accepted connections in lost are closed on the master's side.  Those  *)
(* with nothing left to read and a slave at the other end linger.            *)
Close(lost) ==
  /\ conn' = [c \in Jobs |-> IF c \in lost THEN "gone" ELSE conn[c]]
  /\ wire' = [c \in Jobs |-> IF c \in lost THEN 0 ELSE wire[c]]
  /\ lingers' = (lingers \/ \E c \in lost : conn[c] # "queued" /\ Reports(c) /\ wire[c] = 0)
  /\ UNCHANGED peer

(* bzero on all the structs a master knows of.  A slave zeroes one struct,   *)
(* which is nobody's slot on a master's machine but the master's own.        *)
Zero(j, g) ==
  slot' = IF role[j] = "master" THEN [slot EXCEPT ![g] = [m \in SlavesAt |-> 0]] ELSE slot

-----------------------------------------------------------------------------
(* Starting.                                                                 *)

(* The program is started on m with the configuration file it finds there.   *)
Launch(m, r, k) ==
  /\ launched < MaxJobs
  /\ launched' = launched + 1
  /\ at' = [at EXCEPT ![launched'] = m]
  /\ role' = [role EXCEPT ![launched'] = r]
  /\ need' = [need EXCEPT ![launched'] = k]
  /\ main' = [main EXCEPT ![launched'] = "init"]
  /\ UNCHANGED <<mon, doomed, untidy, stops, shmVars, netVars>>

(* Mutant: one struct is enough to be attached to.                           *)
FitsOne(g, j) == need[g] >= 1

(* shmget fails with EINVAL when the segment is smaller than asked for.      *)
Fits(g, j) == need[g] >= need[j]

(* The second half of init: shmget with IPC_CREAT, shmat, bzero.             *)
InitShm(j) ==
  LET m == at[j]  g == IF key[m] = 0 THEN j ELSE key[m] IN
  /\ main[j] = "init"
  /\ IF Fits(g, j)
       THEN /\ main' = [main EXCEPT ![j] = "fork"]
            /\ shmid' = [shmid EXCEPT ![j] = g]
            /\ key' = [key EXCEPT ![m] = g]
            /\ first' = [first EXCEPT ![m] = IF @ = 0 THEN g ELSE @]
            /\ Zero(j, g)
       ELSE /\ main' = [main EXCEPT ![j] = "ended"]
            /\ UNCHANGED shmVars
  /\ UNCHANGED <<jobVars, netVars, mon, doomed, untidy, stops>>

(* Nothing of a job that ends here removes its segment.                      *)
ForkMonitor(j) ==
  /\ main[j] = "fork"
  /\ \/ /\ main' = [main EXCEPT ![j] = "open"]
        /\ mon' = [mon EXCEPT ![j] = "start"]
        /\ UNCHANGED untidy
     \/ /\ "fork" \in Faults
        /\ main' = [main EXCEPT ![j] = "ended"]
        /\ untidy' = untidy \cup {at[j]}
        /\ UNCHANGED mon
  /\ UNCHANGED <<doomed, stops, jobVars, shmVars, netVars>>

(* monitor_workload_self zeroes the memory again before its loop.            *)
MonitorStart(j) ==
  /\ mon[j] = "start"
  /\ mon' = [mon EXCEPT ![j] = "run"]
  /\ Zero(j, shmid[j])
  /\ UNCHANGED <<main, doomed, untidy, stops, jobVars, shmid, key, first, netVars>>

(* A master whose bind fails ends; its monitor has been forked before.       *)
Bind(p) ==
  /\ main[p] = "open"
  /\ role[p] = "master"
  /\ IF PortFree
       THEN main' = [main EXCEPT ![p] = "serve"] /\ UNCHANGED untidy
       ELSE main' = [main EXCEPT ![p] = "ended"] /\ untidy' = untidy \cup {at[p]}
  /\ UNCHANGED <<mon, doomed, stops, jobVars, shmVars, netVars>>

(* The slave goes on whatever connect returns.                               *)
Connect(j) ==
  /\ main[j] = "open"
  /\ role[j] = "slave"
  /\ main' = [main EXCEPT ![j] = "serve"]
  /\ \/ \E p \in Jobs :
          /\ Listening(p)
          /\ conn' = [conn EXCEPT ![j] = "queued"]
          /\ peer' = [peer EXCEPT ![j] = p]
     \/ /\ "network" \in Faults \/ \A p \in Jobs : ~Listening(p)
        /\ conn' = [conn EXCEPT ![j] = "gone"]
        /\ UNCHANGED peer
  /\ UNCHANGED <<mon, doomed, untidy, stops, wire, lingers, jobVars, shmVars>>

-----------------------------------------------------------------------------
(* Serving.                                                                  *)

(* When fork fails the accepted socket is not closed: to the slave it is a   *)
(* connection like any other, but nobody reads it.                           *)
Accept(p, c) ==
  /\ Listening(p)
  /\ conn[c] = "queued"
  /\ peer[c] = p
  /\ \/ conn' = [conn EXCEPT ![c] = "read"]
     \/ "fork" \in Faults /\ conn' = [conn EXCEPT ![c] = "leaked"]
  /\ UNCHANGED <<peer, wire, lingers, jobVars, procVars, shmVars>>

(* Mutant: writes always find room.                                          *)
ReportUnlimited(j) ==
  /\ Reports(j)
  /\ conn[j] # "gone"
  /\ wire' = [wire EXCEPT ![j] = @ + 1]
  /\ UNCHANGED <<conn, peer, lingers, jobVars, procVars, shmVars>>

(* A copy of the first struct of the slave's segment is written: see         *)
(* SharesStruct.                                                             *)
Report(j) ==
  /\ Reports(j)
  /\ conn[j] # "gone"
  /\ wire[j] < MaxBacklog
  /\ wire' = [wire EXCEPT ![j] = @ + 1]
  /\ UNCHANGED <<conn, peer, lingers, jobVars, procVars, shmVars>>

(* Mutant: the slave's socket has no send timeout.                           *)
WriteFailsLost(j) == conn[j] = "gone"

(* A write fails on a lost connection and, by SO_SNDTIMEO, when the buffers  *)
(* have been full for 5 s, which a handler that reads does not let happen.   *)
WriteFails(j) == conn[j] = "gone" \/ (conn[j] = "leaked" /\ wire[j] = MaxBacklog)

(* The reporter ends and with it the main process of the slave.              *)
ReporterEnds(j) ==
  /\ Reports(j)
  /\ WriteFails(j)
  /\ main' = [main EXCEPT ![j] = "ended"]
  /\ untidy' = untidy \cup {at[j]}
  /\ UNCHANGED <<mon, doomed, stops, jobVars, shmVars, netVars>>

(* Mutant: what a read returns is not looked at.                             *)
TakeAnything(c) ==
  /\ conn[c] = "read"
  /\ conn' = [conn EXCEPT ![c] = "store"]
  /\ wire' = [wire EXCEPT ![c] = IF @ > 0 THEN @ - 1 ELSE @]
  /\ UNCHANGED <<peer, lingers, jobVars, procVars, shmVars>>

Take(c) ==
  /\ conn[c] = "read"
  /\ wire[c] > 0
  /\ conn' = [conn EXCEPT ![c] = "store"]
  /\ wire' = [wire EXCEPT ![c] = @ - 1]
  /\ UNCHANGED <<peer, lingers, jobVars, procVars, shmVars>>

(* A slave and a master that use the same segment fill the same struct, the  *)
(* first one, and each of the two monitors puts its own index into it.  What *)
(* the slave reports then is this struct, with either index.                 *)
SharesStruct(c) == \E p \in Jobs : role[p] = "master" /\ shmid[p] = shmid[c]

(* However long ago the record was read, it is stored: in the slot of the    *)
(* machine or, with the master's index, in the slot 0, which is not kept.    *)
Store(c) ==
  /\ conn[c] = "store"
  /\ conn' = [conn EXCEPT ![c] = "read"]
  /\ \/ slot' = [slot EXCEPT ![shmid[peer[c]]][at[c]] = c]
     \/ SharesStruct(c) /\ UNCHANGED slot
  /\ UNCHANGED <<shmid, key, first, peer, wire, lingers, jobVars, procVars>>

HandlerEnds(c) ==
  /\ conn[c] = "read"
  /\ wire[c] = 0
  /\ main[c] = "ended"
  /\ Close({c})
  /\ UNCHANGED <<jobVars, procVars, shmVars>>

(* The kernel forgets a closed connection after a minute.                    *)
Forget ==
  /\ lingers
  /\ lingers' = FALSE
  /\ UNCHANGED <<conn, peer, wire, jobVars, procVars, shmVars>>

-----------------------------------------------------------------------------
(* Stopping.                                                                 *)

(* The segment a signal handler removes: the one of its shmid.  Before init  *)
(* has set it that is the id 0, the first segment created after boot, which  *)
(* may be one of ours.                                                       *)
Removed(j) == IF shmid[j] = 0 THEN first[at[j]] ELSE shmid[j]

(* Mutant: the signal handler leaves the shared memory.                      *)
KeepKey(j) == key' = key

(* A segment that is removed keeps its memory as long as it is attached to,  *)
(* but is not found under the key any more.                                  *)
RemoveKey(j) ==
  \/ key' = [key EXCEPT ![at[j]] = IF @ = Removed(j) THEN 0 ELSE @]
  \/ (shmid[j] = 0 /\ key' = key)

(* Mutant: the signal handler ends the main process only.                    *)
InterruptMainOnly(j) ==
  /\ stops < MaxStops
  /\ stops' = stops + 1
  /\ MainUp(j)
  /\ main' = [main EXCEPT ![j] = "ended"]
  /\ RemoveKey(j)
  /\ Close({c \in Jobs : peer[c] = j /\ conn[c] \in {"queued", "leaked"}})
  /\ UNCHANGED <<mon, doomed, untidy, jobVars, shmid, first, slot>>

(* Ctrl-C: kill(0, SIGTERM) ends the whole process group of the job.         *)
Interrupt(j) ==
  /\ stops < MaxStops
  /\ stops' = stops + 1
  /\ MainUp(j)
  /\ main' = [main EXCEPT ![j] = "ended"]
  /\ mon' = [mon EXCEPT ![j] = IF MonitorUp(j) THEN "ended" ELSE @]
  /\ RemoveKey(j)
  /\ Close({c \in Jobs : peer[c] = j /\ conn[c] # "gone"})
  /\ UNCHANGED <<doomed, untidy, jobVars, shmid, first, slot>>

(* killP.sh lists the processes of a name: masters and slaves are built as   *)
(* Master.out and Slave.out.                                                 *)
ListProcesses(m, r) ==
  /\ "kill" \in Faults
  /\ stops < MaxStops
  /\ stops' = stops + 1
  /\ doomed = {}
  /\ doomed' = {d \in Processes : /\ Runs(d[1], d[2])
                                  /\ at[JobOf(d[1], d[2])] = m
                                  /\ role[JobOf(d[1], d[2])] = r}
  /\ doomed' # {}
  /\ untidy' = untidy \cup {m}
  /\ UNCHANGED <<main, mon, jobVars, shmVars, netVars>>

Doomed(p) == {j \in Jobs : <<j, p>> \in doomed}

(* It kills what it has listed with SIGKILL, one process after the other.    *)
(* One step stands for the loop: what another process does between two kills *)
(* it could as well do before the first one or after the last.               *)
KillListed ==
  /\ doomed # {}
  /\ doomed' = {}
  /\ main' = [j \in Jobs |-> IF j \in Doomed("main") THEN "ended" ELSE main[j]]
  /\ mon' = [j \in Jobs |-> IF j \in Doomed("monitor") THEN "ended" ELSE mon[j]]
  /\ Close({c \in Jobs : \/ peer[c] \in Doomed("main") /\ conn[c] \in {"queued", "leaked"}
                         \/ c \in Doomed("handler") /\ HandlerUp(c)})
  /\ UNCHANGED <<untidy, stops, jobVars, shmVars>>

-----------------------------------------------------------------------------
Start(j) == InitShm(j) \/ ForkMonitor(j) \/ MonitorStart(j) \/ Bind(j) \/ Connect(j)

Handler(c) == Take(c) \/ Store(c) \/ HandlerEnds(c)

Users ==
  \/ \E k \in Sizes : Launch(MasterAt, "master", k)
  \/ \E m \in SlavesAt : Launch(m, "slave", 1)
  \/ \E j \in Jobs : Interrupt(j)
  \/ \E m \in Machines : \E r \in {"master", "slave"} : ListProcesses(m, r)

Next ==
  \/ Users
  \/ Forget
  \/ \E j \in Jobs : Start(j) \/ Report(j) \/ ReporterEnds(j) \/ Handler(j)
  \/ \E p, c \in Jobs : Accept(p, c)
  \/ KillListed

Spec == Init /\ [][Next]_vars

(* Processes are scheduled, a killP.sh that has begun goes on.  Nobody has   *)
(* to start or to stop anything.                                             *)
Fairness ==
  /\ WF_vars(Forget)
  /\ \A j \in Jobs :
       /\ WF_vars(Start(j))
       /\ WF_vars(Report(j))
       /\ WF_vars(ReporterEnds(j))
       /\ WF_vars(Handler(j))
       /\ WF_vars(\E p \in Jobs : Accept(p, j))
  /\ WF_vars(KillListed)

FairSpec == Spec /\ Fairness

-----------------------------------------------------------------------------
(* Every process uses a segment that holds what its configuration says it    *)
(* will access, whichever job created it, with whichever number of servers   *)
(* (init, shmget on an existing key).                                        *)
InMemory ==
  \A j \in Jobs :
    (main[j] \in {"fork", "open", "serve"} \/ MonitorUp(j) \/ \E c \in Jobs : HandlerUp(c) /\ peer[c] = j) =>
      shmid[j] # 0 /\ need[shmid[j]] >= need[j]

(* On a machine whose jobs have all ended by Ctrl-C nothing is left over: no *)
(* monitor and no handler without its main process, and no segment under the *)
(* key that is not in use (sig_proccess).                                    *)
Tidy ==
  \A m \in Machines \ untidy :
    /\ \A j \in Jobs : at[j] = m /\ MonitorUp(j) => MainUp(j)
    /\ \A c \in Jobs : m = MasterAt /\ HandlerUp(c) => MainUp(peer[c])
    /\ key[m] # 0 => \E j \in Jobs : at[j] = m /\ MainUp(j) /\ shmid[j] = key[m]

(* A slave that reports is heard again and again, or it ends: also when the  *)
(* master could not fork a handler for it (Server.c:151, optimi_socket).     *)
HeardOrEnds == \A j \in Jobs : []<>(~Reports(j) \/ conn[j] = "store")

Alone(j) == \A i \in Jobs : i # j /\ at[i] = at[j] => ~Reports(i)

(* After restarts of the slave, of the master or of both, the slot of a      *)
(* slave with memory of its own ends up with the reports of the job that     *)
(* runs: what handlers of older connections still hold does not stay.  Of a  *)
(* slave that shares its struct with a master nothing of the kind is said:   *)
(* its reports may always name the slot 0 (extFunc.c:396, 482 and 748).      *)
NewestWins ==
  \A j \in Jobs :
    <>[](Reports(j) /\ Alone(j) /\ ~SharesStruct(j) =>
           conn[j] \in {"read", "store"} /\ slot[shmid[peer[j]]][at[j]] = j)

(* After masters that were ended by Ctrl-C the port becomes free again, so   *)
(* that the master can be started (Server.c:89).                             *)
PortFreed ==
  (MasterAt \notin untidy /\ \A p \in Jobs : ~Listening(p)) ~>
    (PortFree \/ MasterAt \in untidy \/ \E p \in Jobs : Listening(p))
=============================================================================
