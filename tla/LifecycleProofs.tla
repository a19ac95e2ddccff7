-------------------------- MODULE LifecycleProofs --------------------------
(* Proofs about Lifecycle for any number of starts, stops and machines.      *)
EXTENDS Lifecycle, TLAPS

(* A job that has not been started has no process and no connection.         *)
Unborn ==
  \A j \in Jobs : j > launched => main[j] = "none" /\ mon[j] = "none" /\ conn[j] = "none"

(* Nothing refers to a job that has not been started.                        *)
Known ==
  /\ \A j \in Jobs : shmid[j] <= launched /\ peer[j] <= launched
  /\ \A m \in Machines : key[m] <= launched

(* The order in which a job gets its memory, its monitor and its connection. *)
Begun ==
  \A j \in Jobs :
    /\ main[j] \in {"none", "init"} => shmid[j] = 0
    /\ main[j] \in {"none", "init", "fork"} => mon[j] = "none"
    /\ main[j] \in {"none", "init", "fork", "open"} => conn[j] = "none"
    /\ conn[j] = "none" => peer[j] = 0

Fitted(j) == shmid[j] # 0 /\ need[shmid[j]] >= need[j]

(* Processes that use the memory have it, the monitor of a master its        *)
(* handlers included.                                                        *)
Attached ==
  \A j \in Jobs : main[j] \in {"fork", "open", "serve"} \/ MonitorUp(j) => Fitted(j)

Masters == \A j \in Jobs : j <= launched /\ role[j] = "master" => at[j] = MasterAt

(* A connection that is not lost leads to a master with memory.              *)
Connected ==
  \A c \in Jobs : conn[c] \in {"queued", "leaked", "read", "store"} =>
    /\ peer[c] # 0
    /\ role[peer[c]] = "master"
    /\ Fitted(peer[c])

(* What killP.sh is about to kill is on a machine that is not tidy any more. *)
Marked ==
  \A d \in doomed :
    /\ d[1] <= launched
    /\ d[2] = "monitor" => mon[d[1]] # "none"
    /\ d[2] = "handler" => conn[d[1]] # "none" /\ peer[d[1]] # 0
    /\ at[JobOf(d[1], d[2])] \in untidy

(* What every step preserves: an inductive invariant.                        *)
Inv == TypeOK /\ Unborn /\ Known /\ Begun /\ Attached /\ Masters /\ Connected /\ Marked /\ Tidy

(* What the assumptions say of jobs and machines.                            *)
LEMMA LifeAssumptions ==
  /\ Sizes \subseteq Nat \ {0}
  /\ MaxJobs \in Nat /\ MaxStops \in Nat /\ MaxBacklog \in Nat \ {0}
  /\ Jobs \subseteq Nat
  /\ \A x \in Jobs \cup {0} : x \in Nat
  /\ 0 \notin Jobs
  /\ MasterAt \in Machines
  /\ SlavesAt \subseteq Machines
BY SizesAssumption, BoundsAssumption, BacklogAssumption DEF Jobs, Machines

(* Before the first start every function is constant.                        *)
LEMMA LifeInit == Init => Inv
<1> SUFFICES ASSUME Init PROVE Inv
  OBVIOUS
<1> USE LifeAssumptions DEF Init
<1>1. TypeOK
  <2>1. 0 \in 0..MaxBacklog /\ 0 \in 0..MaxJobs /\ 0 \in 0..MaxStops
    OBVIOUS
  <2>2. slot \in [Jobs -> [SlavesAt -> Jobs \cup {0}]]
    OBVIOUS
  <2>3. /\ at \in [Jobs -> Machines] /\ role \in [Jobs -> {"master", "slave"}] /\ need \in [Jobs -> Nat]
        /\ main \in [Jobs -> {"none", "init", "fork", "open", "serve", "ended"}]
        /\ mon \in [Jobs -> {"none", "start", "run", "ended"}]
    OBVIOUS
  <2>4. /\ conn \in [Jobs -> {"none", "queued", "leaked", "read", "store", "gone"}]
        /\ peer \in [Jobs -> Jobs \cup {0}] /\ wire \in [Jobs -> 0..MaxBacklog]
        /\ shmid \in [Jobs -> Jobs \cup {0}]
    BY <2>1
  <2>5. key \in [Machines -> Jobs \cup {0}] /\ first \in [Machines -> Jobs \cup {0}]
    OBVIOUS
  <2> QED
    BY <2>1, <2>2, <2>3, <2>4, <2>5 DEF TypeOK
<1>2. Unborn /\ Known /\ Begun /\ Masters /\ Marked
  BY DEF Unborn, Known, Begun, Masters, Marked
<1>3. Attached /\ Connected /\ Tidy
  BY DEF Attached, Connected, Tidy, MonitorUp, HandlerUp
<1> QED
  BY <1>1, <1>2, <1>3 DEF Inv

(* The kinds of steps, whoever takes them.                                   *)
LEMMA LifeCases ==
  ASSUME [Next]_vars
  PROVE  \/ \E k \in Sizes : Launch(MasterAt, "master", k)
         \/ \E m \in SlavesAt : Launch(m, "slave", 1)
         \/ \E j \in Jobs : InitShm(j) \/ ForkMonitor(j) \/ MonitorStart(j) \/ Bind(j) \/ Connect(j)
         \/ \E p, c \in Jobs : Accept(p, c)
         \/ \E j \in Jobs : Report(j) \/ ReporterEnds(j) \/ Take(j) \/ Store(j) \/ HandlerEnds(j)
         \/ \E j \in Jobs : Interrupt(j)
         \/ \E m \in Machines, r \in {"master", "slave"} : ListProcesses(m, r)
         \/ KillListed \/ Forget
         \/ UNCHANGED vars
BY DEF Next, Users, Start, Handler

-----------------------------------------------------------------------------
(* Type correctness.                                                         *)

(* Closing keeps the types of the network.                                   *)
LEMMA CloseType ==
  ASSUME TypeOK, NEW lost, lost \subseteq Jobs, Close(lost)
  PROVE  /\ conn' \in [Jobs -> {"none", "queued", "leaked", "read", "store", "gone"}]
         /\ wire' \in [Jobs -> 0..MaxBacklog]
         /\ lingers' \in BOOLEAN
         /\ peer' = peer
BY LifeAssumptions DEF TypeOK, Close

(* Zeroing keeps the type of the slots.                                      *)
LEMMA ZeroType ==
  ASSUME TypeOK, NEW j \in Jobs, NEW g \in Jobs \cup {0}, Zero(j, g)
  PROVE  slot' \in [Jobs -> [SlavesAt -> Jobs \cup {0}]]
BY DEF TypeOK, Zero

(* Every step keeps every variable in its set.                               *)
LEMMA LifeTypeStep == Known /\ Unborn /\ TypeOK /\ [Next]_vars => TypeOK'
<1> SUFFICES ASSUME Known, Unborn, TypeOK, [Next]_vars PROVE TypeOK'
  OBVIOUS
<1> USE LifeAssumptions DEF TypeOK
<1>1. ASSUME NEW m \in Machines, NEW r \in {"master", "slave"}, NEW k \in Nat, Launch(m, r, k)
      PROVE  TypeOK'
  <2>1. launched' \in Jobs /\ launched' \in 0..MaxJobs
    BY <1>1 DEF Launch, Jobs
  <2> QED
    BY <1>1, <2>1 DEF Launch, shmVars, netVars
<1>2. ASSUME NEW j \in Jobs, InitShm(j) PROVE TypeOK'
  <2> DEFINE m == at[j]
             g == IF key[m] = 0 THEN j ELSE key[m]
  <2>1. m \in Machines /\ g \in Jobs
    OBVIOUS
  <2>2. CASE Fits(g, j)
    <3>1. slot' \in [Jobs -> [SlavesAt -> Jobs \cup {0}]]
      BY <1>2, <2>1, <2>2, ZeroType DEF InitShm
    <3>2. key' = [key EXCEPT ![m] = g] /\ first' = [first EXCEPT ![m] = IF @ = 0 THEN g ELSE @]
      BY <1>2, <2>2 DEF InitShm
    <3>3. key' \in [Machines -> Jobs \cup {0}] /\ first' \in [Machines -> Jobs \cup {0}]
      BY <2>1, <3>2
    <3>4. main' = [main EXCEPT ![j] = "fork"] /\ shmid' = [shmid EXCEPT ![j] = g]
      BY <1>2, <2>2 DEF InitShm
    <3> QED
      BY <1>2, <2>1, <3>1, <3>3, <3>4 DEF InitShm, jobVars, netVars
  <2>3. CASE ~Fits(g, j)
    BY <1>2, <2>1, <2>3 DEF InitShm, jobVars, netVars, shmVars
  <2> QED
    BY <2>2, <2>3
<1>3. ASSUME NEW j \in Jobs, ForkMonitor(j) PROVE TypeOK'
  BY <1>3 DEF ForkMonitor, jobVars, netVars, shmVars
<1>4. ASSUME NEW j \in Jobs, MonitorStart(j) PROVE TypeOK'
  <2>1. slot' \in [Jobs -> [SlavesAt -> Jobs \cup {0}]]
    BY <1>4, ZeroType DEF MonitorStart
  <2> QED
    BY <1>4, <2>1 DEF MonitorStart, jobVars, netVars
<1>5. ASSUME NEW j \in Jobs, Bind(j) PROVE TypeOK'
  BY <1>5 DEF Bind, jobVars, netVars, shmVars
<1>6. ASSUME NEW j \in Jobs, Connect(j) PROVE TypeOK'
  BY <1>6 DEF Connect, jobVars, shmVars
<1>7. ASSUME NEW p \in Jobs, NEW c \in Jobs, Accept(p, c) PROVE TypeOK'
  BY <1>7 DEF Accept, jobVars, procVars, shmVars
<1>8. ASSUME NEW j \in Jobs, Report(j) PROVE TypeOK'
  BY <1>8 DEF Report, jobVars, procVars, shmVars
<1>9. ASSUME NEW j \in Jobs, ReporterEnds(j) PROVE TypeOK'
  BY <1>9 DEF ReporterEnds, jobVars, netVars, shmVars
<1>10. ASSUME NEW j \in Jobs, Take(j) PROVE TypeOK'
  BY <1>10 DEF Take, jobVars, procVars, shmVars
<1>11. ASSUME NEW j \in Jobs, Store(j) PROVE TypeOK'
  BY <1>11 DEF Store, jobVars, procVars
<1>12. ASSUME NEW j \in Jobs, HandlerEnds(j) PROVE TypeOK'
  BY <1>12, CloseType DEF HandlerEnds, jobVars, procVars, shmVars
<1>13. ASSUME NEW j \in Jobs, Interrupt(j) PROVE TypeOK'
  <2>1. Close({c \in Jobs : peer[c] = j /\ conn[c] # "gone"})
    BY <1>13 DEF Interrupt
  <2>2. key' \in [Machines -> Jobs \cup {0}]
    BY <1>13 DEF Interrupt, RemoveKey
  <2> QED
    BY <1>13, <2>1, <2>2, CloseType DEF Interrupt, jobVars
<1>14. ASSUME NEW m \in Machines, NEW r \in {"master", "slave"}, ListProcesses(m, r) PROVE TypeOK'
  BY <1>14 DEF ListProcesses, jobVars, shmVars, netVars
<1>15. CASE KillListed
  <2> DEFINE lost == {c \in Jobs : \/ peer[c] \in Doomed("main") /\ conn[c] \in {"queued", "leaked"}
                                   \/ c \in Doomed("handler") /\ HandlerUp(c)}
  <2>1. Close(lost)
    BY <1>15 DEF KillListed
  <2> QED
    BY <1>15, <2>1, CloseType DEF KillListed, jobVars, shmVars
<1>16. CASE Forget
  BY <1>16 DEF Forget, jobVars, procVars, shmVars
<1>17. CASE UNCHANGED vars
  BY <1>17 DEF vars, jobVars, procVars, shmVars, netVars
<1> QED
  BY <1>1, <1>2, <1>3, <1>4, <1>5, <1>6, <1>7, <1>8, <1>9, <1>10, <1>11, <1>12, <1>13, <1>14, <1>15,
     <1>16, <1>17, LifeCases

-----------------------------------------------------------------------------
(* Memory and tidiness.                                                      *)

(* What the type invariant and Known say of numbers.                         *)
LEMMA LifeNumbers ==
  ASSUME TypeOK, Known, Unborn
  PROVE  /\ launched \in Nat
         /\ \A j \in Jobs : /\ j \in Nat
                            /\ shmid[j] \in Nat /\ shmid[j] <= launched
                            /\ peer[j] \in Nat /\ peer[j] <= launched
                            /\ main[j] # "none" => j <= launched
         /\ \A m \in Machines : key[m] \in Nat /\ key[m] <= launched
         /\ \A d \in doomed : d[1] \in Jobs /\ d[2] \in {"main", "monitor", "handler"} /\ d = <<d[1], d[2]>>
<1> USE LifeAssumptions DEF TypeOK, Known
<1>1. launched \in Nat
  OBVIOUS
<1>2. \A j \in Jobs : j \in Nat /\ shmid[j] \in Nat /\ peer[j] \in Nat
  <2> TAKE j \in Jobs
  <2>1. shmid[j] \in Jobs \cup {0} /\ peer[j] \in Jobs \cup {0} /\ j \in Jobs \cup {0}
    OBVIOUS
  <2> QED
    BY <2>1
<1>3. \A m \in Machines : key[m] \in Nat
  <2> TAKE m \in Machines
  <2>1. key[m] \in Jobs \cup {0}
    OBVIOUS
  <2> QED
    BY <2>1
<1>4. \A d \in doomed : d[1] \in Jobs /\ d[2] \in {"main", "monitor", "handler"} /\ d = <<d[1], d[2]>>
  BY DEF Processes
<1>5. \A j \in Jobs : main[j] # "none" => j <= launched
  BY <1>1, <1>2 DEF Unborn
<1> QED
  BY <1>1, <1>2, <1>3, <1>4, <1>5

(* What killP.sh has listed stays marked as long as nothing it refers to     *)
(* goes back to its beginning.                                               *)
LEMMA MarkedKept ==
  ASSUME Inv, doomed' = doomed, at' = at, launched' = launched, untidy \subseteq untidy',
         \A c \in Jobs : /\ conn[c] # "none" => conn'[c] # "none"
                         /\ mon[c] # "none" => mon'[c] # "none"
                         /\ peer[c] # 0 => peer'[c] = peer[c]
  PROVE  Marked'
<1> SUFFICES ASSUME NEW d \in doomed
             PROVE  /\ d[1] <= launched
                    /\ d[2] = "monitor" => mon'[d[1]] # "none"
                    /\ d[2] = "handler" => conn'[d[1]] # "none" /\ peer'[d[1]] # 0
                    /\ at[JobOf(d[1], d[2])'] \in untidy'
  BY DEF Marked, JobOf
<1>1. d[1] \in Jobs
  BY LifeNumbers DEF Inv
<1>2. /\ d[1] <= launched
      /\ d[2] = "monitor" => mon[d[1]] # "none"
      /\ d[2] = "handler" => conn[d[1]] # "none" /\ peer[d[1]] # 0
      /\ at[JobOf(d[1], d[2])] \in untidy
  BY DEF Inv, Marked
<1>3. JobOf(d[1], d[2])' = JobOf(d[1], d[2])
  BY <1>1, <1>2 DEF JobOf
<1> QED
  BY <1>1, <1>2, <1>3

(* A tidy machine stays tidy if none of its main processes ends and nothing  *)
(* begins without one.                                                       *)
LEMMA TidyKept ==
  ASSUME Inv, at' = at, key' = key, shmid' = shmid, peer' = peer, untidy \subseteq untidy',
         \A j \in Jobs : /\ at[j] \notin untidy' /\ MainUp(j) => MainUp(j)'
                         /\ MonitorUp(j)' => MonitorUp(j) \/ MainUp(j)'
                         /\ HandlerUp(j)' => HandlerUp(j)
  PROVE  Tidy'
<1> SUFFICES ASSUME NEW m \in Machines, m \notin untidy'
             PROVE  /\ \A j \in Jobs : at[j] = m /\ MonitorUp(j)' => MainUp(j)'
                    /\ \A c \in Jobs : m = MasterAt /\ HandlerUp(c)' => MainUp(peer[c])'
                    /\ key[m] # 0 => \E j \in Jobs : at[j] = m /\ MainUp(j)' /\ shmid[j] = key[m]
  BY DEF Tidy
<1>1. /\ \A j \in Jobs : at[j] = m /\ MonitorUp(j) => MainUp(j)
      /\ \A c \in Jobs : m = MasterAt /\ HandlerUp(c) => MainUp(peer[c])
      /\ key[m] # 0 => \E j \in Jobs : at[j] = m /\ MainUp(j) /\ shmid[j] = key[m]
  BY DEF Inv, Tidy
<1>2. \A c \in Jobs : HandlerUp(c) => peer[c] \in Jobs /\ at[peer[c]] = MasterAt
  <2> SUFFICES ASSUME NEW c \in Jobs, HandlerUp(c) PROVE peer[c] \in Jobs /\ at[peer[c]] = MasterAt
    OBVIOUS
  <2>1. peer[c] \in Jobs /\ role[peer[c]] = "master"
    BY DEF Inv, TypeOK, HandlerUp, Connected
  <2> QED
    BY <2>1, LifeNumbers DEF Inv, Masters
<1>3. \A c \in Jobs : m = MasterAt /\ HandlerUp(c)' => MainUp(peer[c])'
  BY <1>1, <1>2
<1> QED
  BY <1>1, <1>3

(* Every step keeps the rest of the invariant.                               *)
LEMMA LifeStep == Inv /\ [Next]_vars => Inv'
<1> SUFFICES ASSUME Inv, [Next]_vars PROVE Inv'
  OBVIOUS
<1> TypeOK'
  BY LifeTypeStep DEF Inv
<1>0. /\ launched \in Nat
      /\ \A j \in Jobs : /\ j \in Nat
                         /\ shmid[j] \in Nat /\ shmid[j] <= launched
                         /\ peer[j] \in Nat /\ peer[j] <= launched
                         /\ main[j] # "none" => j <= launched
      /\ \A m \in Machines : key[m] \in Nat /\ key[m] <= launched
      /\ \A d \in doomed : d[1] \in Jobs /\ d[2] \in {"main", "monitor", "handler"} /\ d = <<d[1], d[2]>>
  BY LifeNumbers DEF Inv
<1> USE LifeAssumptions, <1>0 DEF Inv, TypeOK
<1>1. ASSUME NEW m \in Machines, NEW r \in {"master", "slave"}, NEW k \in Nat,
              r = "master" => m = MasterAt, Launch(m, r, k)
      PROVE  Inv'
  <2>9. launched' \in Jobs /\ launched' = launched + 1
    BY <1>1 DEF Launch, Jobs
  <2>10. /\ launched' \in Jobs /\ launched' = launched + 1
         /\ main[launched'] = "none" /\ mon[launched'] = "none" /\ conn[launched'] = "none"
         /\ shmid[launched'] = 0
    BY <2>9 DEF Unborn, Begun
  <2>11. \A j \in Jobs : shmid[j] # launched' /\ peer[j] # launched' /\ shmid[j] <= launched' /\ peer[j] <= launched'
    BY <2>10
  <2>12. \A x \in Machines : key[x] # launched' /\ key[x] <= launched'
    BY <2>10
  <2>13. /\ \A j \in Jobs : j # launched' =>
              /\ main'[j] = main[j] /\ at'[j] = at[j]
              /\ role'[j] = role[j] /\ need'[j] = need[j]
         /\ main'[launched'] = "init" /\ mon' = mon /\ conn' = conn /\ peer' = peer /\ shmid' = shmid /\ key' = key
         /\ untidy' = untidy /\ doomed' = doomed
    BY <1>1, <2>10 DEF Launch, shmVars, netVars
  <2>1. Unborn'
    BY <1>1 DEF Launch, Unborn, shmVars, netVars
  <2>2. Known'
    BY <2>10, <2>11, <2>12, <2>13 DEF Known
  <2>3. Begun'
    BY <2>10, <2>13 DEF Begun
  <2>4. Attached'
    <3> SUFFICES ASSUME NEW j \in Jobs, main'[j] \in {"fork", "open", "serve"} \/ MonitorUp(j)' PROVE Fitted(j)'
      BY DEF Attached
    <3>1. j # launched' /\ main'[j] = main[j] /\ mon'[j] = mon[j]
      BY <2>10, <2>13 DEF MonitorUp
    <3>2. Fitted(j)
      BY <3>1 DEF Attached, MonitorUp
    <3> QED
      BY <2>11, <2>13, <3>1, <3>2 DEF Fitted
  <2>5. Masters'
    BY <1>1 DEF Launch, Masters, shmVars, netVars
  <2>6. Connected'
    <3> SUFFICES ASSUME NEW c \in Jobs, conn'[c] \in {"queued", "leaked", "read", "store"}
                 PROVE  peer'[c] # 0 /\ role'[peer'[c]] = "master" /\ Fitted(peer[c])'
      BY <2>13 DEF Connected
    <3>1. peer[c] \in Jobs /\ peer[c] # launched' /\ role[peer[c]] = "master" /\ Fitted(peer[c])
      BY <2>11, <2>13 DEF Connected
    <3>2. shmid[peer[c]] \in Jobs /\ shmid[peer[c]] # launched'
      BY <2>11, <3>1 DEF Fitted
    <3> QED
      BY <2>13, <3>1, <3>2 DEF Fitted
  <2>7. Marked'
    <3> SUFFICES ASSUME NEW d \in doomed
                 PROVE  /\ d[1] <= launched'
                        /\ d[2] = "monitor" => mon[d[1]] # "none"
                        /\ d[2] = "handler" => conn[d[1]] # "none" /\ peer[d[1]] # 0
                        /\ at'[JobOf(d[1], d[2])] \in untidy
      BY <2>13 DEF Marked, JobOf
    <3>1. /\ d[1] \in Jobs /\ d[1] <= launched
          /\ d[2] = "monitor" => mon[d[1]] # "none"
          /\ d[2] = "handler" => conn[d[1]] # "none" /\ peer[d[1]] # 0
          /\ at[JobOf(d[1], d[2])] \in untidy
      BY DEF Marked
    <3>2. JobOf(d[1], d[2]) \in Jobs /\ JobOf(d[1], d[2]) # launched'
      BY <2>10, <2>11, <3>1 DEF JobOf
    <3> QED
      BY <2>10, <2>13, <3>1, <3>2
  <2>8. Tidy'
    <3> SUFFICES ASSUME NEW x \in Machines \ untidy
                 PROVE  /\ \A j \in Jobs : at'[j] = x /\ MonitorUp(j)' => MainUp(j)'
                        /\ \A c \in Jobs : x = MasterAt /\ HandlerUp(c)' => MainUp(peer[c])'
                        /\ key[x] # 0 => \E j \in Jobs : at'[j] = x /\ MainUp(j)' /\ shmid[j] = key[x]
      BY <2>13 DEF Tidy
    <3>1. \A j \in Jobs : MonitorUp(j)' => MonitorUp(j) /\ j # launched'
      BY <2>10, <2>13 DEF MonitorUp
    <3>2. \A j \in Jobs : MainUp(j) => MainUp(j)' /\ j # launched'
      BY <2>10, <2>13 DEF MainUp
    <3>3. \A c \in Jobs : HandlerUp(c)' => HandlerUp(c) /\ peer[c] \in Jobs
      BY <2>13 DEF HandlerUp, Connected
    <3>4. \A c \in Jobs : x = MasterAt /\ HandlerUp(c)' => MainUp(peer[c])'
      BY <2>13, <3>2, <3>3 DEF Tidy
    <3>5. \A j \in Jobs : at'[j] = x /\ MonitorUp(j)' => MainUp(j)'
      BY <2>13, <3>1, <3>2 DEF Tidy
    <3>6. key[x] # 0 => \E j \in Jobs : at'[j] = x /\ MainUp(j)' /\ shmid[j] = key[x]
      BY <2>13, <3>2 DEF Tidy
    <3> QED
      BY <3>4, <3>5, <3>6
  <2> QED
    BY <2>1, <2>2, <2>3, <2>4, <2>5, <2>6, <2>7, <2>8
<1>2. ASSUME NEW j \in Jobs, InitShm(j) PROVE Inv'
  <2> DEFINE m == at[j]
             g == IF key[m] = 0 THEN j ELSE key[m]
  <2>10. /\ m \in Machines /\ g \in Jobs /\ g <= launched /\ j <= launched
         /\ main[j] = "init" /\ shmid[j] = 0 /\ mon[j] = "none" /\ conn[j] = "none"
         /\ launched' = launched /\ at' = at /\ role' = role /\ need' = need
         /\ conn' = conn /\ peer' = peer /\ mon' = mon /\ doomed' = doomed /\ untidy' = untidy
    <3>1. main[j] = "init" /\ j <= launched
      BY <1>2 DEF InitShm
    <3>2. shmid[j] = 0 /\ mon[j] = "none" /\ conn[j] = "none"
      BY <3>1 DEF Begun
    <3>3. m \in Machines /\ g \in Jobs /\ g <= launched
      BY <3>1
    <3> QED
      BY <1>2, <3>1, <3>2, <3>3 DEF InitShm, jobVars, netVars
  <2>11. \A i \in Jobs : i # j => main'[i] = main[i] /\ shmid'[i] = shmid[i]
    BY <1>2 DEF InitShm, shmVars
  <2>12. \/ /\ Fits(g, j) /\ main'[j] = "fork" /\ shmid'[j] = g
            /\ key' = [key EXCEPT ![m] = g]
         \/ main'[j] = "ended" /\ shmid'[j] = 0 /\ key' = key
    BY <1>2, <2>10 DEF InitShm, shmVars
  <2>13. \A p \in Jobs : Fitted(p) => p # j /\ Fitted(p)'
    BY <2>10, <2>11 DEF Fitted
  <2>1. Unborn'
    BY <2>10, <2>11 DEF Unborn
  <2>2. Known'
    <3>1. \A i \in Jobs : shmid'[i] = shmid[i] \/ shmid'[i] = g
      BY <2>10, <2>11, <2>12
    <3>2. \A x \in Machines : key'[x] = key[x] \/ key'[x] = g
      BY <2>10, <2>12
    <3>3. \A i \in Jobs : shmid'[i] <= launched /\ peer[i] <= launched
      <4> TAKE i \in Jobs
      <4>1. shmid[i] <= launched /\ peer[i] <= launched
        BY DEF Known
      <4> HIDE DEF Inv, TypeOK
      <4> QED
        BY <2>10, <3>1, <4>1
    <3>4. \A x \in Machines : key'[x] <= launched
      <4> TAKE x \in Machines
      <4>1. key[x] <= launched
        BY DEF Known
      <4> HIDE DEF Inv, TypeOK
      <4> QED
        BY <2>10, <3>2, <4>1
    <3> HIDE DEF Inv, TypeOK
    <3> QED
      BY <2>10, <3>3, <3>4 DEF Known
  <2>3. Begun'
    BY <2>10, <2>11, <2>12 DEF Begun
  <2>4. Attached'
    <3> SUFFICES ASSUME NEW i \in Jobs, main'[i] \in {"fork", "open", "serve"} \/ MonitorUp(i)'
                 PROVE  Fitted(i)'
      BY DEF Attached
    <3>1. CASE i = j
      <4>1. main'[j] # "ended"
        BY <2>10, <3>1 DEF MonitorUp
      <4> QED
        BY <2>10, <2>12, <3>1, <4>1 DEF Fitted, Fits
    <3>2. CASE i # j
      BY <2>10, <2>11, <2>13, <3>2 DEF Attached, MonitorUp
    <3> QED
      BY <3>1, <3>2
  <2>5. Masters'
    BY <2>10 DEF Masters
  <2>6. Connected'
    <3> SUFFICES ASSUME NEW c \in Jobs, conn[c] \in {"queued", "leaked", "read", "store"}
                 PROVE  peer[c] # 0 /\ role[peer[c]] = "master" /\ Fitted(peer[c])'
      BY <2>10 DEF Connected, Fitted
    <3>1. peer[c] \in Jobs /\ role[peer[c]] = "master" /\ Fitted(peer[c])
      BY DEF Connected
    <3> QED
      BY <2>10, <2>13, <3>1 DEF Fitted
  <2>7. Marked'
    BY <2>10, MarkedKept
  <2>8. Tidy'
    <3> SUFFICES ASSUME NEW x \in Machines \ untidy
                 PROVE  /\ \A i \in Jobs : at[i] = x /\ MonitorUp(i) => MainUp(i)'
                        /\ \A c \in Jobs : x = MasterAt /\ HandlerUp(c) => MainUp(peer[c])'
                        /\ key'[x] # 0 => \E i \in Jobs : at[i] = x /\ MainUp(i)' /\ shmid'[i] = key'[x]
      BY <2>10 DEF Tidy, MonitorUp, HandlerUp
    <3>1. \A i \in Jobs : i # j /\ MainUp(i) => MainUp(i)'
      BY <2>11 DEF MainUp
    <3>2. \A i \in Jobs : at[i] = x /\ MonitorUp(i) => MainUp(i)'
      BY <2>10, <3>1 DEF Tidy, MonitorUp
    <3>3. \A c \in Jobs : x = MasterAt /\ HandlerUp(c) => MainUp(peer[c])'
      <4> SUFFICES ASSUME NEW c \in Jobs, x = MasterAt, HandlerUp(c) PROVE MainUp(peer[c])'
        OBVIOUS
      <4>1. peer[c] \in Jobs /\ Fitted(peer[c])
        BY DEF HandlerUp, Connected
      <4>2. MainUp(peer[c])
        BY DEF Tidy
      <4> QED
        BY <2>10, <2>13, <3>1, <4>1, <4>2 DEF MainUp
    <3>4. ASSUME key[x] # 0, key'[x] = key[x]
          PROVE  \E i \in Jobs : at[i] = x /\ MainUp(i)' /\ shmid'[i] = key'[x]
      <4>1. PICK i \in Jobs : at[i] = x /\ MainUp(i) /\ shmid[i] = key[x]
        BY <3>4 DEF Tidy
      <4>2. i # j
        BY <2>10, <3>4, <4>1
      <4> QED
        BY <2>10, <2>11, <3>1, <3>4, <4>1, <4>2
    <3>5. ASSUME key'[x] # 0, key'[x] # key[x]
          PROVE  \E i \in Jobs : at[i] = x /\ MainUp(i)' /\ shmid'[i] = key'[x]
      <4>1. x = m /\ key'[x] = g /\ main'[j] = "fork" /\ shmid'[j] = g
        BY <2>10, <2>12, <3>5
      <4> QED
        BY <4>1 DEF MainUp
    <3> QED
      BY <3>2, <3>3, <3>4, <3>5
  <2> QED
    BY <2>1, <2>2, <2>3, <2>4, <2>5, <2>6, <2>7, <2>8
<1>3. ASSUME NEW j \in Jobs, ForkMonitor(j) PROVE Inv'
  <2>1. Unborn'
    BY <1>3 DEF ForkMonitor, Unborn, jobVars, shmVars, netVars
  <2>2. Known'
    BY <1>3 DEF ForkMonitor, Known, jobVars, shmVars, netVars
  <2>3. Begun'
    BY <1>3 DEF ForkMonitor, Begun, jobVars, shmVars, netVars
  <2>4. Attached'
    BY <1>3 DEF ForkMonitor, Attached, Fitted, MonitorUp, jobVars, shmVars, netVars
  <2>5. Masters'
    BY <1>3 DEF ForkMonitor, Masters, jobVars, shmVars, netVars
  <2>6. Connected'
    BY <1>3 DEF ForkMonitor, Connected, Fitted, jobVars, shmVars, netVars
  <2>7. Marked'
    BY <1>3, MarkedKept DEF ForkMonitor, jobVars, shmVars, netVars
  <2>8. Tidy'
    BY <1>3, TidyKept DEF ForkMonitor, MainUp, MonitorUp, HandlerUp, jobVars, shmVars, netVars
  <2> QED
    BY <2>1, <2>2, <2>3, <2>4, <2>5, <2>6, <2>7, <2>8
<1>4. ASSUME NEW j \in Jobs, MonitorStart(j) PROVE Inv'
  <2>1. Unborn'
    BY <1>4 DEF MonitorStart, Unborn, jobVars, netVars
  <2>2. Known'
    BY <1>4 DEF MonitorStart, Known, jobVars, netVars
  <2>3. Begun'
    BY <1>4 DEF MonitorStart, Begun, jobVars, netVars
  <2>4. Attached'
    BY <1>4 DEF MonitorStart, Attached, Fitted, MonitorUp, jobVars, netVars
  <2>5. Masters'
    BY <1>4 DEF MonitorStart, Masters, jobVars, netVars
  <2>6. Connected'
    BY <1>4 DEF MonitorStart, Connected, Fitted, jobVars, netVars
  <2>7. Marked'
    BY <1>4, MarkedKept DEF MonitorStart, jobVars, netVars
  <2>8. Tidy'
    BY <1>4 DEF MonitorStart, Tidy, MonitorUp, MainUp, HandlerUp, jobVars, netVars
  <2> QED
    BY <2>1, <2>2, <2>3, <2>4, <2>5, <2>6, <2>7, <2>8
<1>5. ASSUME NEW j \in Jobs, Bind(j) PROVE Inv'
  <2>1. Unborn'
    BY <1>5 DEF Bind, Unborn, jobVars, shmVars, netVars
  <2>2. Known'
    BY <1>5 DEF Bind, Known, jobVars, shmVars, netVars
  <2>3. Begun'
    BY <1>5 DEF Bind, Begun, jobVars, shmVars, netVars
  <2>4. Attached'
    BY <1>5 DEF Bind, Attached, Fitted, MonitorUp, jobVars, shmVars, netVars
  <2>5. Masters'
    BY <1>5 DEF Bind, Masters, jobVars, shmVars, netVars
  <2>6. Connected'
    BY <1>5 DEF Bind, Connected, Fitted, jobVars, shmVars, netVars
  <2>7. Marked'
    BY <1>5, MarkedKept DEF Bind, jobVars, shmVars, netVars
  <2>8. Tidy'
    BY <1>5, TidyKept DEF Bind, MainUp, MonitorUp, HandlerUp, jobVars, shmVars, netVars
  <2> QED
    BY <2>1, <2>2, <2>3, <2>4, <2>5, <2>6, <2>7, <2>8
<1>6. ASSUME NEW j \in Jobs, Connect(j) PROVE Inv'
  <2>1. Unborn'
    BY <1>6 DEF Connect, Unborn, Listening, jobVars, shmVars
  <2>2. Known'
    <3>1. \A p \in Jobs : Listening(p) => p <= launched
      BY DEF Listening
    <3>2. \A i \in Jobs : peer'[i] = peer[i] \/ \E p \in Jobs : Listening(p) /\ peer'[i] = p
      BY <1>6 DEF Connect
    <3>3. launched' = launched /\ shmid' = shmid /\ key' = key
      BY <1>6 DEF Connect, jobVars, shmVars
    <3>4. \A i \in Jobs : peer'[i] <= launched
      <4> TAKE i \in Jobs
      <4>1. CASE peer'[i] = peer[i]
        BY <1>0, <4>1
      <4>2. CASE \E p \in Jobs : Listening(p) /\ peer'[i] = p
        BY <3>1, <4>2
      <4> QED
        BY <3>2, <4>1, <4>2
    <3> HIDE DEF Inv, TypeOK
    <3> QED
      BY <1>0, <3>3, <3>4 DEF Known
  <2>3. Begun'
    BY <1>6 DEF Connect, Begun, Listening, jobVars, shmVars
  <2>4. Attached'
    BY <1>6 DEF Connect, Attached, Fitted, MonitorUp, Listening, jobVars, shmVars
  <2>5. Masters'
    BY <1>6 DEF Connect, Masters, Listening, jobVars, shmVars
  <2>6. Connected'
    <3>1. \A p \in Jobs : Listening(p) => p # 0 /\ role[p] = "master" /\ Fitted(p)
      BY DEF Attached, Listening
    <3>2. role' = role /\ need' = need /\ shmid' = shmid
      BY <1>6 DEF Connect, jobVars, shmVars
    <3>3. \A c \in Jobs : \/ peer'[c] = peer[c] /\ conn'[c] = conn[c]
                          \/ conn'[c] = "gone"
                          \/ \E p \in Jobs : Listening(p) /\ peer'[c] = p
      BY <1>6 DEF Connect
    <3> QED
      BY <3>1, <3>2, <3>3 DEF Connected, Fitted
  <2>7. Marked'
    BY <1>6, MarkedKept DEF Connect, Begun, jobVars, shmVars
  <2>8. Tidy'
    <3>1. \A c \in Jobs : HandlerUp(c)' => HandlerUp(c) /\ c # j
      BY <1>6 DEF Connect, HandlerUp
    <3>2. \A i \in Jobs : MainUp(i) => MainUp(i)'
      BY <1>6 DEF Connect, MainUp
    <3>3. mon' = mon /\ at' = at /\ untidy' = untidy /\ key' = key /\ shmid' = shmid
      BY <1>6 DEF Connect, jobVars, shmVars
    <3>4. \A c \in Jobs : c # j => peer'[c] = peer[c]
      BY <1>6 DEF Connect
    <3>5. \A c \in Jobs : HandlerUp(c) => peer[c] \in Jobs
      BY DEF HandlerUp, Connected
    <3> QED
      BY <3>1, <3>2, <3>3, <3>4, <3>5 DEF Tidy, MonitorUp
  <2> QED
    BY <2>1, <2>2, <2>3, <2>4, <2>5, <2>6, <2>7, <2>8
<1>7. ASSUME NEW p \in Jobs, NEW c \in Jobs, Accept(p, c) PROVE Inv'
  <2>1. Unborn'
    BY <1>7 DEF Accept, Unborn, Listening, jobVars, procVars, shmVars
  <2>2. Known'
    BY <1>7 DEF Accept, Known, Listening, jobVars, procVars, shmVars
  <2>3. Begun'
    BY <1>7 DEF Accept, Begun, Listening, jobVars, procVars, shmVars
  <2>4. Attached'
    BY <1>7 DEF Accept, Attached, Fitted, MonitorUp, Listening, jobVars, procVars, shmVars
  <2>5. Masters'
    BY <1>7 DEF Accept, Masters, Listening, jobVars, procVars, shmVars
  <2>6. Connected'
    <3>1. \A i \in Jobs : i # c => conn'[i] = conn[i]
      BY <1>7 DEF Accept
    <3>2. conn[c] = "queued" /\ peer' = peer /\ role' = role /\ shmid' = shmid /\ need' = need
      BY <1>7 DEF Accept, jobVars, shmVars
    <3> QED
      BY <3>1, <3>2 DEF Connected, Fitted
  <2>7. Marked'
    BY <1>7, MarkedKept DEF Accept, jobVars, procVars, shmVars
  <2>8. Tidy'
    BY <1>7 DEF Accept, Tidy, MonitorUp, MainUp, HandlerUp, Listening, jobVars, procVars, shmVars
  <2> QED
    BY <2>1, <2>2, <2>3, <2>4, <2>5, <2>6, <2>7, <2>8
<1>8. ASSUME UNCHANGED <<launched, at, role, need, main, mon, doomed, untidy, shmid, key, conn, peer>>
      PROVE  Unborn' /\ Known' /\ Begun' /\ Attached' /\ Masters' /\ Connected' /\ Marked' /\ Tidy'
  BY <1>8 DEF Unborn, Known, Begun, Attached, Fitted, Masters, Connected, Marked, JobOf, Tidy, 
              MonitorUp, MainUp, HandlerUp
<1>9. ASSUME NEW j \in Jobs, ReporterEnds(j) PROVE Inv'
  <2>1. Unborn'
    BY <1>9 DEF ReporterEnds, Unborn, Reports, jobVars, shmVars, netVars
  <2>2. Known'
    BY <1>9 DEF ReporterEnds, Known, Reports, jobVars, shmVars, netVars
  <2>3. Begun'
    BY <1>9 DEF ReporterEnds, Begun, Reports, jobVars, shmVars, netVars
  <2>4. Attached'
    BY <1>9 DEF ReporterEnds, Attached, Fitted, MonitorUp, Reports, jobVars, shmVars, netVars
  <2>5. Masters'
    BY <1>9 DEF ReporterEnds, Masters, Reports, jobVars, shmVars, netVars
  <2>6. Connected'
    BY <1>9 DEF ReporterEnds, Connected, Fitted, Reports, jobVars, shmVars, netVars
  <2>7. Marked'
    BY <1>9, MarkedKept DEF ReporterEnds, jobVars, shmVars, netVars
  <2>8. Tidy'
    BY <1>9, TidyKept DEF ReporterEnds, Reports, MainUp, MonitorUp, HandlerUp, jobVars, shmVars, netVars
  <2> QED
    BY <2>1, <2>2, <2>3, <2>4, <2>5, <2>6, <2>7, <2>8
<1>10. ASSUME NEW j \in Jobs, Take(j) PROVE Inv'
  <2>1. Unborn'
    BY <1>10 DEF Take, Unborn, jobVars, procVars, shmVars
  <2>2. Known'
    BY <1>10 DEF Take, Known, jobVars, procVars, shmVars
  <2>3. Begun'
    BY <1>10 DEF Take, Begun, jobVars, procVars, shmVars
  <2>4. Attached'
    BY <1>10 DEF Take, Attached, Fitted, MonitorUp, jobVars, procVars, shmVars
  <2>5. Masters'
    BY <1>10 DEF Take, Masters, jobVars, procVars, shmVars
  <2>6. Connected'
    BY <1>10 DEF Take, Connected, Fitted, jobVars, procVars, shmVars
  <2>7. Marked'
    BY <1>10, MarkedKept DEF Take, jobVars, procVars, shmVars
  <2>8. Tidy'
    BY <1>10 DEF Take, Tidy, MonitorUp, MainUp, HandlerUp, jobVars, procVars, shmVars
  <2> QED
    BY <2>1, <2>2, <2>3, <2>4, <2>5, <2>6, <2>7, <2>8
<1>11. ASSUME NEW j \in Jobs, Store(j) PROVE Inv'
  <2>1. Unborn'
    BY <1>11 DEF Store, Unborn, jobVars, procVars
  <2>2. Known'
    BY <1>11 DEF Store, Known, jobVars, procVars
  <2>3. Begun'
    BY <1>11 DEF Store, Begun, jobVars, procVars
  <2>4. Attached'
    BY <1>11 DEF Store, Attached, Fitted, MonitorUp, jobVars, procVars
  <2>5. Masters'
    BY <1>11 DEF Store, Masters, jobVars, procVars
  <2>6. Connected'
    BY <1>11 DEF Store, Connected, Fitted, jobVars, procVars
  <2>7. Marked'
    BY <1>11, MarkedKept DEF Store, jobVars, procVars
  <2>8. Tidy'
    BY <1>11 DEF Store, Tidy, MonitorUp, MainUp, HandlerUp, jobVars, procVars
  <2> QED
    BY <2>1, <2>2, <2>3, <2>4, <2>5, <2>6, <2>7, <2>8
<1>12. ASSUME NEW j \in Jobs, HandlerEnds(j) PROVE Inv'
  <2>1. Unborn'
    BY <1>12 DEF HandlerEnds, Unborn, Close, jobVars, procVars, shmVars
  <2>2. Known'
    BY <1>12 DEF HandlerEnds, Known, Close, jobVars, procVars, shmVars
  <2>3. Begun'
    BY <1>12 DEF HandlerEnds, Begun, Close, jobVars, procVars, shmVars
  <2>4. Attached'
    BY <1>12 DEF HandlerEnds, Attached, Fitted, MonitorUp, Close, jobVars, procVars, shmVars
  <2>5. Masters'
    BY <1>12 DEF HandlerEnds, Masters, Close, jobVars, procVars, shmVars
  <2>6. Connected'
    BY <1>12 DEF HandlerEnds, Connected, Fitted, Close, jobVars, procVars, shmVars
  <2>7. Marked'
    BY <1>12, MarkedKept DEF HandlerEnds, Close, jobVars, procVars, shmVars
  <2>8. Tidy'
    BY <1>12 DEF HandlerEnds, Tidy, MonitorUp, MainUp, HandlerUp, Close, jobVars, procVars, shmVars
  <2> QED
    BY <2>1, <2>2, <2>3, <2>4, <2>5, <2>6, <2>7, <2>8
<1>13. ASSUME NEW j \in Jobs, Interrupt(j) PROVE Inv'
  <2>1. Unborn'
    BY <1>13 DEF Interrupt, Unborn, Begun, Close, jobVars, MainUp, MonitorUp
  <2>2. Known'
    <3>1. \A m \in Machines : key'[m] = 0 \/ key'[m] = key[m]
      BY <1>13 DEF Interrupt, RemoveKey
    <3>2. launched' = launched /\ shmid' = shmid /\ peer' = peer
      BY <1>13 DEF Interrupt, Close, jobVars
    <3> QED
      BY <1>0, <3>1, <3>2 DEF Known
  <2>3. Begun'
    BY <1>13 DEF Interrupt, Begun, Unborn, Close, jobVars, MainUp, MonitorUp
  <2>4. Attached'
    BY <1>13 DEF Interrupt, Attached, Fitted, MonitorUp, Close, RemoveKey, Removed, jobVars, MainUp
  <2>5. Masters'
    BY <1>13 DEF Interrupt, Masters, Close, RemoveKey, Removed, jobVars, MainUp, MonitorUp
  <2>6. Connected'
    BY <1>13 DEF Interrupt, Connected, Fitted, Close, RemoveKey, Removed, jobVars, MainUp, MonitorUp
  <2>7. Marked'
    BY <1>13, MarkedKept DEF Interrupt, Close, Begun, MonitorUp, MainUp, jobVars
  <2>8. Tidy'
    <3>1. /\ MainUp(j) /\ at' = at /\ untidy' = untidy /\ shmid' = shmid /\ peer' = peer
          /\ \A i \in Jobs : i # j => main'[i] = main[i] /\ mon'[i] = mon[i]
          /\ ~MonitorUp(j)'
          /\ \A c \in Jobs : HandlerUp(c)' => HandlerUp(c) /\ peer[c] # j
      BY <1>13 DEF Interrupt, Close, MonitorUp, HandlerUp, jobVars
    <3>2. \A x \in Machines : key'[x] # 0 => key'[x] = key[x] /\ ~(x = at[j] /\ shmid[j] # 0 /\ key[x] = shmid[j])
      BY <1>13 DEF Interrupt, RemoveKey, Removed
    <3> SUFFICES ASSUME NEW x \in Machines \ untidy
                 PROVE  /\ \A i \in Jobs : at[i] = x /\ MonitorUp(i)' => MainUp(i)'
                        /\ \A c \in Jobs : x = MasterAt /\ HandlerUp(c)' => MainUp(peer[c])'
                        /\ key'[x] # 0 => \E i \in Jobs : at[i] = x /\ MainUp(i)' /\ shmid[i] = key'[x]
      BY <3>1 DEF Tidy
    <3>3. \A i \in Jobs : i # j /\ MainUp(i) => MainUp(i)'
      BY <3>1 DEF MainUp
    <3>4. \A i \in Jobs : at[i] = x /\ MonitorUp(i)' => MainUp(i)'
      BY <3>1, <3>3 DEF Tidy, MonitorUp
    <3>5. \A c \in Jobs : x = MasterAt /\ HandlerUp(c)' => MainUp(peer[c])'
      BY <3>1, <3>3 DEF Tidy, Connected, HandlerUp
    <3>6. ASSUME key'[x] # 0
          PROVE  \E i \in Jobs : at[i] = x /\ MainUp(i)' /\ shmid[i] = key'[x]
      <4>1. key'[x] = key[x]
        BY <3>2, <3>6
      <4>2. PICK i \in Jobs : at[i] = x /\ MainUp(i) /\ shmid[i] = key[x]
        BY <3>6, <4>1 DEF Tidy
      <4>3. i # j
        BY <3>2, <3>6, <4>1, <4>2
      <4> QED
        BY <3>3, <4>1, <4>2, <4>3
    <3> QED
      BY <3>4, <3>5, <3>6
  <2> QED
    BY <2>1, <2>2, <2>3, <2>4, <2>5, <2>6, <2>7, <2>8
<1>14. ASSUME NEW m \in Machines, NEW r \in {"master", "slave"}, ListProcesses(m, r) PROVE Inv'
  <2>1. Unborn'
    BY <1>14 DEF ListProcesses, Unborn, Runs, Processes, MainUp, MonitorUp, HandlerUp, jobVars, shmVars, netVars
  <2>2. Known'
    BY <1>14 DEF ListProcesses, Known, Runs, Processes, MainUp, MonitorUp, HandlerUp, jobVars, shmVars, netVars
  <2>3. Begun'
    BY <1>14 DEF ListProcesses, Begun, Runs, Processes, MainUp, MonitorUp, HandlerUp, jobVars, shmVars, netVars
  <2>4. Attached'
    BY <1>14 DEF ListProcesses, Attached, Fitted, MonitorUp, Runs, Processes, MainUp, HandlerUp, jobVars, shmVars, netVars
  <2>5. Masters'
    BY <1>14 DEF ListProcesses, Masters, Runs, Processes, MainUp, MonitorUp, HandlerUp, jobVars, shmVars, netVars
  <2>6. Connected'
    BY <1>14 DEF ListProcesses, Connected, Fitted, Runs, Processes, MainUp, MonitorUp, HandlerUp, jobVars, shmVars, netVars
  <2>7. Marked'
    <3> SUFFICES ASSUME NEW d \in doomed'
                 PROVE  /\ d[1] <= launched
                        /\ d[2] = "monitor" => mon[d[1]] # "none"
                        /\ d[2] = "handler" => conn[d[1]] # "none" /\ peer[d[1]] # 0
                        /\ at[JobOf(d[1], d[2])] \in untidy'
      BY <1>14 DEF ListProcesses, Marked, JobOf, jobVars, shmVars, netVars
    <3>1. d \in Processes /\ Runs(d[1], d[2]) /\ at[JobOf(d[1], d[2])] \in untidy'
      BY <1>14 DEF ListProcesses
    <3>2. d[1] \in Jobs /\ d[2] \in {"main", "monitor", "handler"}
      BY <3>1 DEF Processes
    <3>3. CASE d[2] = "main"
      BY <3>1, <3>2, <3>3 DEF Runs, MainUp
    <3>4. CASE d[2] = "monitor"
      BY <3>1, <3>2, <3>4 DEF Runs, Unborn, MonitorUp
    <3>5. CASE d[2] = "handler"
      BY <3>1, <3>2, <3>5 DEF Runs, Unborn, Connected, HandlerUp
    <3> QED
      BY <3>2, <3>3, <3>4, <3>5
  <2>8. Tidy'
    BY <1>14 DEF ListProcesses, Tidy, MonitorUp, MainUp, HandlerUp, Runs, Processes, jobVars, shmVars, netVars
  <2> QED
    BY <2>1, <2>2, <2>3, <2>4, <2>5, <2>6, <2>7, <2>8
<1>15. CASE KillListed
  <2>10. /\ doomed' = {}
         /\ UNCHANGED <<launched, at, role, need, shmid, key, peer, untidy>>
         /\ \A j \in Jobs : \/ main'[j] = main[j]
                            \/ main'[j] = "ended" /\ j \in Doomed("main")
         /\ \A j \in Jobs : \/ mon'[j] = mon[j]
                            \/ mon'[j] = "ended" /\ j \in Doomed("monitor")
         /\ \A c \in Jobs : conn'[c] = conn[c] \/ (conn'[c] = "gone" /\ conn[c] # "none")
    BY <1>15 DEF KillListed, Close, HandlerUp, jobVars, shmVars
  <2>11. \A j \in Doomed("main") : j <= launched /\ at[j] \in untidy
    <3> SUFFICES ASSUME NEW j \in Doomed("main") PROVE j <= launched /\ at[j] \in untidy
      OBVIOUS
    <3>1. <<j, "main">> \in doomed
      BY DEF Doomed
    <3> QED
      BY <3>1 DEF Marked, JobOf
  <2>12. \A j \in Doomed("monitor") : mon[j] # "none"
    <3> SUFFICES ASSUME NEW j \in Doomed("monitor") PROVE mon[j] # "none"
      OBVIOUS
    <3>1. <<j, "monitor">> \in doomed
      BY DEF Doomed
    <3> QED
      BY <3>1 DEF Marked
  <2>1. Unborn'
    BY <2>10, <2>11, <2>12 DEF Unborn
  <2>2. Known'
    BY <2>10, <2>11, <2>12 DEF Known
  <2>3. Begun'
    BY <2>10, <2>11, <2>12 DEF Begun
  <2>4. Attached'
    BY <2>10, <2>11, <2>12 DEF Attached, Fitted, MonitorUp
  <2>5. Masters'
    BY <2>10, <2>11, <2>12 DEF Masters
  <2>6. Connected'
    BY <2>10, <2>11, <2>12 DEF Connected, Fitted
  <2>7. Marked'
    BY <2>10, <2>11, <2>12 DEF Marked
  <2>8. Tidy'
    BY <2>10, <2>11, TidyKept DEF MainUp, MonitorUp, HandlerUp
  <2> QED
    BY <2>1, <2>2, <2>3, <2>4, <2>5, <2>6, <2>7, <2>8
<1>16. ASSUME NEW j \in Jobs, Report(j) PROVE Inv'
  BY <1>8, <1>16 DEF Report, jobVars, procVars, shmVars
<1>17. CASE Forget \/ UNCHANGED vars
  BY <1>8, <1>17 DEF Forget, vars, jobVars, procVars, shmVars, netVars
<1> HIDE DEF Inv, TypeOK
<1> QED
  BY <1>1, <1>2, <1>3, <1>4, <1>5, <1>6, <1>7, <1>8, <1>9, <1>10, <1>11, <1>12, <1>13, <1>14, <1>15, <1>16, <1>17,
     LifeCases

-----------------------------------------------------------------------------
(* The inductive invariant holds in every reachable state (all the actions   *)
(* of Lifecycle).                                                            *)
THEOREM LifeInvariant == Spec => []Inv
BY LifeInit, LifeStep, PTL DEF Spec

(* Every variable keeps its set (the whole of Server.c's process handling).  *)
THEOREM LifeTypes == Spec => []TypeOK
<1>1. Inv => TypeOK
  BY DEF Inv
<1> QED
  BY <1>1, LifeInvariant, PTL

(* Whatever has been started, stopped and killed, no process uses a segment  *)
(* that is smaller than what it accesses (init, shmget of an existing key).  *)
THEOREM LifeInMemory == Spec => []InMemory
<1>1. Inv => InMemory
  <2> SUFFICES ASSUME Inv, NEW j \in Jobs,
                      \/ main[j] \in {"fork", "open", "serve"} \/ MonitorUp(j)
                      \/ \E c \in Jobs : HandlerUp(c) /\ peer[c] = j
               PROVE  Fitted(j)
    BY DEF InMemory, Fitted
  <2>1. CASE main[j] \in {"fork", "open", "serve"} \/ MonitorUp(j)
    BY <2>1 DEF Inv, Attached
  <2>2. CASE \E c \in Jobs : HandlerUp(c) /\ peer[c] = j
    BY <2>2 DEF Inv, Connected, HandlerUp
  <2> QED
    BY <2>1, <2>2
<1> QED
  BY <1>1, LifeInvariant, PTL

(* Ctrl-C leaves no process and no segment behind, in whatever order jobs    *)
(* are started and stopped (sig_proccess).                                   *)
THEOREM LifeTidy == Spec => []Tidy
<1>1. Inv => Tidy
  BY DEF Inv
<1> QED
  BY <1>1, LifeInvariant, PTL
=============================================================================
