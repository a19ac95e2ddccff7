---------------------------- MODULE ConfigProofs ----------------------------
(* Proofs about Config for any number of servers and dialogs.                *)
EXTENDS Config, TLAPS

(* In the file what belongs together is never torn apart, at no moment of a  *)
(* dialog.                                                                   *)
FileInOrder ==
  \A first, later \in DOMAIN conf : GoesWith(first, later) => conf[later] >= conf[first]

(* The dialog has written k, if there is a line for it.                      *)
Fresh(k) == k \in DOMAIN conf => conf[k] = dialog

(* How far a dialog has got.                                                 *)
Written ==
  /\ \/ todo = <<>>
     \/ todo = <<"Local_Server_IP", "Local_Server_Port", "Master_Flag">>
     \/ todo = <<"Local_Server_Port", "Master_Flag">> /\ Fresh("Local_Server_IP")
     \/ todo = <<"Master_Flag">> /\ Fresh("Local_Server_IP") /\ Fresh("Local_Server_Port")
     \/ todo = <<"Number_Of_Servers", "Master_Server_IP", "Master_Server_Port">>
     \/ todo = <<"Number_Of_Servers">>
     \/ todo = <<"Master_Server_IP", "Master_Server_Port">> /\ Fresh("Number_Of_Servers")
     \/ todo = <<"Master_Server_Port">>
     \/ todo = <<"Twitter_Api_Key">>
  /\ script # "dialog" => todo = <<>>
  /\ script = "dialog" => dialog > 0

Common == {"Master_Flag", "Slave_Index", "Twitter_Api_Key"}

(* The keys in K have been looked up and found, and nothing else has been    *)
(* loaded.                                                                   *)
LookedUp(K) ==
  /\ DOMAIN par \subseteq K
  /\ \A k \in K : k \in DOMAIN conf /\ (k \in DOMAIN par \/ k \in blank \/ conf[k] > 0)

(* How far init has got: what it has looked up and what is left.             *)
Plan ==
  \/ server = "off"
  \/ server = "init" /\ toload = <<"Master_Flag", "Slave_Index", "Twitter_Api_Key">> /\ LookedUp({})
  \/ server = "init" /\ toload = <<"Slave_Index", "Twitter_Api_Key">> /\ LookedUp({"Master_Flag"})
  \/ server = "init" /\ toload = <<"Twitter_Api_Key">> /\ LookedUp({"Master_Flag", "Slave_Index"})
  \/ /\ server \in {"init", "up"}
     /\ IsMaster
     /\ \/ toload = OfMaster /\ LookedUp(Common)
        \/ toload = <<"Local_Server_Port", "Number_Of_Servers">> /\ LookedUp(Common \cup {"Local_Server_IP"})
        \/ toload = <<"Number_Of_Servers">> /\ LookedUp(Common \cup {"Local_Server_IP", "Local_Server_Port"})
        \/ toload = <<>> /\ LookedUp(Common \cup {"Local_Server_IP", "Local_Server_Port", "Number_Of_Servers"})
  \/ /\ server \in {"init", "up"}
     /\ ~IsMaster
     /\ \/ toload = OfSlave /\ LookedUp(Common)
        \/ /\ toload = <<"Master_Server_IP", "Master_Server_Port", "Number_Of_Servers">>
           /\ LookedUp(Common \cup {"Local_Server_IP"})
        \/ /\ toload = <<"Master_Server_Port", "Number_Of_Servers">>
           /\ LookedUp(Common \cup {"Local_Server_IP", "Master_Server_IP"})
        \/ /\ toload = <<"Number_Of_Servers">>
           /\ LookedUp(Common \cup {"Local_Server_IP", "Master_Server_IP", "Master_Server_Port"})
        \/ /\ toload = <<>>
           /\ LookedUp(Common \cup {"Local_Server_IP", "Master_Server_IP", "Master_Server_Port", "Number_Of_Servers"})

(* What has been loaded is in the file, and the file only gets newer.        *)
Older == \A k \in DOMAIN par : k \in DOMAIN conf /\ par[k] <= conf[k]

(* Nothing is to be loaded any more when the server is up.                   *)
Done == server = "up" => toload = <<>>

(* The script's count and its loop never get ahead of the entries.           *)
Counted == max <= Len(rows) + 1 /\ i <= Len(rows) + 2

(* What every step preserves: an inductive invariant.                        *)
CInv ==
  /\ ConfTypeOK /\ FileInOrder /\ Written
  /\ Plan /\ Older /\ Done /\ LoadedInOrder
  /\ Counted /\ RowsInOrder

ScriptStep ==
  \/ StartScript \/ LocalServer \/ ClusterServer \/ Twitter
  \/ RewriteFile \/ AppendEntry \/ EndDialog \/ StopScript

ServerStep == StartServer \/ Load \/ Loaded \/ StopServer

(* The bounds are numbers.                                                   *)
LEMMA ConfNumbers ==
  /\ MaxServers \in Nat \ {0} /\ MaxDialogs \in Nat
  /\ 0 \in Dialogs
BY ServersAssumption, DialogsAssumption DEF Dialogs

(* Init's files and an idle script and server.                               *)
LEMMA ConfInit == Init => CInv
<1> SUFFICES ASSUME Init PROVE CInv
  OBVIOUS
<1> USE ConfNumbers
<1>1. PICK m \in 1..MaxServers : rows = [n \in 1..(m - 1) |-> n + 1]
  <2>1. CASE rows = <<>>
    <3>1. 1 \in 1..MaxServers /\ rows = [n \in 1..(1 - 1) |-> n + 1]
      BY <2>1
    <3> QED
      BY <3>1
  <2> QED
    BY <2>1 DEF Init
<1>2. rows \in Seq(2..MaxServers) /\ Len(rows) = m - 1 /\ RowsInOrder
  BY <1>1 DEF RowsInOrder
<1>3. DOMAIN conf \subseteq Keys /\ blank \subseteq DOMAIN conf /\ \A k \in DOMAIN conf : conf[k] = 0
  BY FilesAssumption DEF Init
<1>4. DOMAIN par = {}
  BY DEF Init
<1>5. ConfTypeOK
  BY <1>2, <1>3, <1>4 DEF Init, ConfTypeOK, Dialogs
<1>6. FileInOrder
  BY <1>3 DEF FileInOrder
<1>7. Written /\ Plan /\ Older /\ Done /\ LoadedInOrder
  BY <1>3, <1>4 DEF Init, Written, Plan, Older, Done, LoadedInOrder
<1>8. Counted
  BY <1>2 DEF Init, Counted
<1> QED
  BY <1>2, <1>5, <1>6, <1>7, <1>8 DEF CInv

-----------------------------------------------------------------------------
(* Type correctness.                                                         *)

(* What Load makes of the parameters.                                        *)
LEMMA WithType ==
  \A k, n : par' = With(k, n) =>
    /\ DOMAIN par' = DOMAIN par \cup {k}
    /\ \A x \in DOMAIN par' : par'[x] = IF x = k THEN n ELSE par[x]
BY DEF With

(* Every step of the script keeps every variable in its set.                 *)
LEMMA ScriptTypeStep == ConfTypeOK /\ Counted /\ ScriptStep => ConfTypeOK'
<1> SUFFICES ASSUME ConfTypeOK, Counted, ScriptStep PROVE ConfTypeOK'
  OBVIOUS
<1> USE ConfNumbers DEF ConfTypeOK, serverVars
<1>1. CASE StartScript
  <2>1. /\ DOMAIN conf' \subseteq Keys /\ blank' \subseteq DOMAIN conf'
        /\ \A k \in DOMAIN conf' : conf'[k] \in 0..dialog
    BY <1>1 DEF StartScript, Created, Dialogs
  <2>2. flag' \in [Dialogs -> {-1, 0, 1}]
    BY <1>1 DEF StartScript
  <2> QED
    BY <1>1, <2>1, <2>2 DEF StartScript
<1>2. ASSUME NEW keys \in Seq(Keys), NEW n \in 0..MaxServers, Begin(keys, n), flag' \in [Dialogs -> {-1, 0, 1}]
      PROVE  ConfTypeOK'
  <2>1. dialog' \in Dialogs /\ dialog' = dialog + 1
    BY <1>2 DEF Begin, Dialogs
  <2>2. \A n1 \in 0..dialog : n1 \in 0..(dialog + 1)
    BY DEF Dialogs
  <2>3. \A k \in DOMAIN conf : conf[k] \in 0..(dialog + 1)
    BY <2>2
  <2>4. \A k \in DOMAIN par : par[k] \in 0..(dialog + 1)
    BY <2>2
  <2> QED
    BY <1>2, <2>1, <2>3, <2>4 DEF Begin, file
<1>3. AskFlag => flag' \in [Dialogs -> {-1, 0, 1}]
  <2>1. \A k \in DOMAIN conf : conf[k] \in Dialogs
    BY DEF Dialogs
  <2>2. \A f \in {0, 1} \cup {flag[conf[k]] : k \in DOMAIN conf \cap {"Master_Flag"}} : f \in {-1, 0, 1}
    BY <2>1
  <2> QED
    BY <2>2 DEF AskFlag
<1>4. CASE LocalServer
  <2>1. <<"Local_Server_IP", "Local_Server_Port", "Master_Flag">> \in Seq(Keys) /\ 0 \in 0..MaxServers
    BY DEF Keys
  <2>2. Begin(<<"Local_Server_IP", "Local_Server_Port", "Master_Flag">>, 0) /\ flag' \in [Dialogs -> {-1, 0, 1}]
    BY <1>3, <1>4 DEF LocalServer
  <2> QED
    BY <1>2, <2>1, <2>2
<1>5. CASE ClusterServer
  <2>1. /\ <<"Number_Of_Servers", "Master_Server_IP", "Master_Server_Port">> \in Seq(Keys)
        /\ <<"Number_Of_Servers">> \in Seq(Keys)
    BY DEF Keys
  <2>2. flag' \in [Dialogs -> {-1, 0, 1}] /\ 0 \in 0..MaxServers /\ 1..MaxServers \subseteq 0..MaxServers
    BY <1>5 DEF ClusterServer
  <2>3. CASE Begin(<<"Number_Of_Servers">>, 0)
    BY <1>2, <2>1, <2>2, <2>3
  <2>4. ASSUME NEW n \in 1..MaxServers, Begin(<<"Number_Of_Servers", "Master_Server_IP", "Master_Server_Port">>, n)
        PROVE  ConfTypeOK'
    <3>1. n \in 0..MaxServers
      BY <2>2
    <3> QED
      BY <1>2, <2>1, <2>2, <2>4, <3>1
  <2> QED
    BY <1>5, <2>3, <2>4 DEF ClusterServer
<1>6. CASE Twitter
  <2>1. <<"Twitter_Api_Key">> \in Seq(Keys) /\ 0 \in 0..MaxServers
    BY DEF Keys
  <2>2. Begin(<<"Twitter_Api_Key">>, 0) /\ flag' \in [Dialogs -> {-1, 0, 1}]
    BY <1>6 DEF Twitter
  <2> QED
    BY <1>2, <2>1, <2>2
<1>7. CASE RewriteFile
  <2>1. Tail(todo) \in Seq(Keys) /\ DOMAIN conf' = DOMAIN conf
    BY <1>7 DEF RewriteFile
  <2>2. blank' \subseteq DOMAIN conf' /\ \A k \in DOMAIN conf' : conf'[k] \in 0..dialog
    BY <1>7, <2>1 DEF RewriteFile, Dialogs
  <2> QED
    BY <1>7, <2>1, <2>2 DEF RewriteFile
<1>8. CASE AppendEntry
  <2>1. i \in 2..MaxServers /\ i' \in 2..(MaxServers + 1)
    BY <1>8 DEF AppendEntry
  <2>2. rows' \in Seq(2..MaxServers)
    <3>1. rows' = rows \/ rows' = Append(rows, i)
      BY <1>8 DEF AppendEntry
    <3>2. Append(rows, i) \in Seq(2..MaxServers)
      BY <2>1
    <3> QED
      BY <3>1, <3>2
  <2>3. max' \in 1..MaxServers
    BY <1>8, <2>1 DEF AppendEntry, Missing
  <2> QED
    BY <1>8, <2>1, <2>2, <2>3 DEF AppendEntry
<1>9. CASE EndDialog
  BY <1>9 DEF EndDialog, file
<1>10. CASE StopScript
  BY <1>10 DEF StopScript, file
<1> QED
  BY <1>1, <1>4, <1>5, <1>6, <1>7, <1>8, <1>9, <1>10 DEF ScriptStep

(* Every step of the server does.                                            *)
LEMMA ServerTypeStep == ConfTypeOK /\ ServerStep => ConfTypeOK'
<1> SUFFICES ASSUME ConfTypeOK, ServerStep PROVE ConfTypeOK'
  OBVIOUS
<1> USE DEF ConfTypeOK, file, scriptVars
<1>1. CASE StartServer
  <2>1. toload' \in Seq(Keys) /\ DOMAIN par' = {}
    BY <1>1 DEF StartServer, Keys
  <2> QED
    BY <1>1, <2>1 DEF StartServer
<1>2. CASE Load
  <2>1. Head(toload) \in Keys /\ Tail(toload) \in Seq(Keys)
    BY <1>2 DEF Load
  <2>2. Rest \in Seq(Keys)
    <3>1. OfMaster \in Seq(Keys)
      BY DEF OfMaster, Keys
    <3>2. OfSlave \in Seq(Keys)
      BY DEF OfSlave, Keys
    <3> QED
      BY <3>1, <3>2 DEF Rest
  <2>3. toload' \in Seq(Keys)
    BY <1>2, <2>1, <2>2 DEF Load, After
  <2>4. DOMAIN par' \subseteq Keys /\ \A k \in DOMAIN par' : par'[k] \in 0..dialog
    <3>1. CASE par' = par
      BY <3>1
    <3>2. CASE par' # par
      <4>1. Head(toload) \in DOMAIN conf /\ par' = With(Head(toload), conf[Head(toload)])
        BY <1>2, <3>2 DEF Load
      <4>2. /\ DOMAIN par' = DOMAIN par \cup {Head(toload)}
            /\ \A x \in DOMAIN par' : par'[x] = IF x = Head(toload) THEN conf[Head(toload)] ELSE par[x]
        BY <4>1, WithType
      <4> QED
        BY <2>1, <4>1, <4>2
    <3> QED
      BY <3>1, <3>2
  <2> QED
    BY <1>2, <2>3, <2>4 DEF Load
<1>3. CASE Loaded \/ StopServer
  BY <1>3 DEF Loaded, StopServer
<1> QED
  BY <1>1, <1>2, <1>3 DEF ServerStep

-----------------------------------------------------------------------------
(* The script.                                                               *)

(* The file is in order at every moment of every dialog.                     *)
LEMMA ScriptKeepsFile == CInv /\ ScriptStep => FileInOrder' /\ Written'
<1> SUFFICES ASSUME CInv, ScriptStep PROVE FileInOrder' /\ Written'
  OBVIOUS
<1>1. /\ DOMAIN conf \subseteq Keys /\ \A k \in DOMAIN conf : conf[k] \in 0..dialog
      /\ dialog \in Nat
      /\ FileInOrder /\ Written
  BY ConfNumbers DEF CInv, ConfTypeOK, Dialogs
<1> DEFINE IP == "Local_Server_IP"  Port == "Local_Server_Port"  Flag == "Master_Flag"
           Number == "Number_Of_Servers"  MIP == "Master_Server_IP"
<1>2. CASE StartScript
  <2>1. todo' = todo /\ todo = <<>> /\ script' = "menu"
    BY <1>1, <1>2 DEF StartScript, Written
  <2>2. FileInOrder'
    BY <1>1, <1>2 DEF StartScript, FileInOrder
  <2> QED
    BY <2>1, <2>2 DEF Written
<1>3. CASE LocalServer \/ ClusterServer \/ Twitter
  <2>1. /\ conf' = conf /\ script' = "dialog" /\ dialog' = dialog + 1
        /\ \/ todo' = <<IP, Port, Flag>>
           \/ todo' = <<Number, MIP, "Master_Server_Port">>
           \/ todo' = <<Number>>
           \/ todo' = <<"Twitter_Api_Key">>
    BY <1>3 DEF LocalServer, ClusterServer, Twitter, Begin, file
  <2> QED
    BY <1>1, <2>1 DEF FileInOrder, Written
<1>4. CASE RewriteFile
  <2>1. /\ script' = "dialog" /\ script = "dialog" /\ dialog' = dialog
        /\ DOMAIN conf' = DOMAIN conf
        /\ todo # <<>> /\ todo' = Tail(todo)
        /\ \A k \in DOMAIN conf : conf'[k] = IF k = Head(todo) THEN dialog ELSE conf[k]
    BY <1>4 DEF RewriteFile
  <2>2. \A k : Fresh(k) => Fresh(k)'
    BY <2>1 DEF Fresh
  <2>3. \A k : k = Head(todo) => Fresh(k)'
    BY <2>1 DEF Fresh
  <2>4. FileInOrder'
    <3> SUFFICES ASSUME NEW first \in DOMAIN conf, NEW later \in DOMAIN conf, GoesWith(first, later)
                 PROVE  conf'[later] >= conf'[first]
      BY <2>1 DEF FileInOrder, GoesWith
    <3>1. CASE Head(todo) = later
      BY <1>1, <2>1, <3>1
    <3>2. CASE Head(todo) = first /\ first # later
      <4>1. Fresh(later)
        BY <1>1, <2>1, <3>2 DEF Written, GoesWith
      <4> QED
        BY <1>1, <2>1, <3>2, <4>1 DEF Fresh
    <3>3. CASE Head(todo) # first /\ Head(todo) # later
      BY <1>1, <2>1, <3>3 DEF FileInOrder
    <3> QED
      BY <3>1, <3>2, <3>3
  <2>5. \/ todo' = <<>>
        \/ todo' = <<Port, Flag>> /\ Fresh(IP)'
        \/ todo' = <<Flag>> /\ Fresh(IP)' /\ Fresh(Port)'
        \/ todo' = <<MIP, "Master_Server_Port">> /\ Fresh(Number)'
        \/ todo' = <<"Master_Server_Port">>
    <3>1. CASE todo = <<IP, Port, Flag>>
      <4>1. Head(todo) = IP /\ todo' = <<Port, Flag>>
        BY <2>1, <3>1
      <4> QED
        BY <2>3, <4>1
    <3>2. CASE todo = <<Port, Flag>> /\ Fresh(IP)
      <4>1. Head(todo) = Port /\ todo' = <<Flag>>
        BY <2>1, <3>2
      <4> QED
        BY <2>2, <2>3, <3>2, <4>1
    <3>3. CASE todo = <<Number, MIP, "Master_Server_Port">>
      <4>1. Head(todo) = Number /\ todo' = <<MIP, "Master_Server_Port">>
        BY <2>1, <3>3
      <4> QED
        BY <2>3, <4>1
    <3>4. CASE todo = <<MIP, "Master_Server_Port">>
      <4>1. todo' = <<"Master_Server_Port">>
        BY <2>1, <3>4
      <4> QED
        BY <4>1
    <3>5. CASE \E k \in Keys : todo = <<k>>
      <4>1. todo' = <<>>
        BY <2>1, <3>5
      <4> QED
        BY <4>1
    <3> QED
      BY <1>1, <2>1, <3>1, <3>2, <3>3, <3>4, <3>5 DEF Written, Keys
  <2>6. Written'
    BY <1>1, <2>1, <2>5 DEF Written
  <2> QED
    BY <2>4, <2>6
<1>5. CASE AppendEntry \/ EndDialog \/ StopScript
  <2>1. /\ conf' = conf /\ todo' = <<>> /\ dialog' = dialog
        /\ script' = "dialog" => script = "dialog"
    BY <1>1, <1>5 DEF AppendEntry, EndDialog, StopScript, file, Written
  <2> QED
    BY <1>1, <2>1 DEF FileInOrder, Written
<1> QED
  BY <1>2, <1>3, <1>4, <1>5 DEF ScriptStep

(* The entries stay in order.                                                *)
LEMMA ScriptKeepsRows == CInv /\ ScriptStep => Counted' /\ RowsInOrder'
<1> SUFFICES ASSUME CInv, ScriptStep PROVE Counted' /\ RowsInOrder'
  OBVIOUS
<1>1. /\ rows \in Seq(2..MaxServers) /\ i \in Int /\ i >= 2 /\ max \in Int /\ Len(rows) \in Nat
      /\ max <= Len(rows) + 1 /\ i <= Len(rows) + 2
      /\ \A r \in 1..Len(rows) : rows[r] = r + 1
  <2>1. /\ rows \in Seq(2..MaxServers) /\ i \in 2..(MaxServers + 1) /\ max \in 1..MaxServers
        /\ Counted /\ RowsInOrder
    BY DEF CInv, ConfTypeOK
  <2> QED
    BY <2>1, ConfNumbers DEF Counted, RowsInOrder
<1>2. CASE AppendEntry /\ Missing
  <2>1. i = Len(rows) + 2
    <3> SUFFICES ASSUME i <= Len(rows) + 1 PROVE FALSE
      BY <1>1
    <3>1. i - 1 \in 1..Len(rows) /\ rows[i - 1] = i
      BY <1>1
    <3> QED
      BY <1>2, <3>1 DEF Missing, InFile
  <2>2. rows' = Append(rows, i) /\ max' = max + 1 /\ i' = i + 1
    BY <1>2 DEF AppendEntry
  <2>3. /\ Len(rows') = Len(rows) + 1
        /\ \A r \in 1..Len(rows') : rows'[r] = IF r = Len(rows) + 1 THEN i ELSE rows[r]
    BY <1>1, <2>2
  <2> QED
    BY <1>1, <2>1, <2>2, <2>3 DEF Counted, RowsInOrder
<1>3. CASE AppendEntry /\ ~Missing
  <2>1. i <= Len(rows) + 1
    <3>1. CASE InFile(i)
      BY <1>1, <3>1 DEF InFile
    <3>2. CASE i <= max
      BY <1>1, <3>2
    <3> QED
      BY <1>1, <1>3, <3>1, <3>2 DEF Missing
  <2>2. rows' = rows /\ max' = max /\ i' = i + 1
    BY <1>3 DEF AppendEntry
  <2> QED
    BY <1>1, <2>1, <2>2 DEF Counted, RowsInOrder
<1>4. CASE StartScript \/ LocalServer \/ ClusterServer \/ Twitter \/ RewriteFile \/ EndDialog \/ StopScript
  <2>1. rows' = rows /\ max' \in {1, max} /\ i' \in {2, i}
    BY <1>4 DEF StartScript, LocalServer, ClusterServer, Twitter, Begin, RewriteFile, EndDialog, StopScript, file
  <2> QED
    BY <1>1, <2>1 DEF Counted, RowsInOrder
<1> QED
  BY <1>2, <1>3, <1>4 DEF ScriptStep

(* What a server has loaded does not change while the file does.             *)
LEMMA ScriptKeepsServer == CInv /\ ScriptStep => Plan' /\ Older' /\ Done' /\ LoadedInOrder'
<1> SUFFICES ASSUME CInv, ScriptStep PROVE Plan' /\ Older' /\ Done' /\ LoadedInOrder'
  OBVIOUS
<1>1. server' = server /\ toload' = toload /\ par' = par
  BY DEF ScriptStep, StartScript, LocalServer, ClusterServer, Twitter, Begin, RewriteFile, AppendEntry, EndDialog,
         StopScript, serverVars
<1>2. \A k \in DOMAIN par : k \in DOMAIN conf /\ par[k] \in 0..dialog /\ conf[k] \in 0..dialog /\ par[k] <= conf[k]
  BY DEF CInv, ConfTypeOK, Older
<1>3. dialog \in Nat /\ dialog \in Dialogs
  BY ConfNumbers DEF CInv, ConfTypeOK, Dialogs
<1>4. \A k \in DOMAIN conf : k \in DOMAIN conf' /\ (conf'[k] = conf[k] \/ conf'[k] = dialog)
  BY DEF ScriptStep, StartScript, LocalServer, ClusterServer, Twitter, Begin, RewriteFile, AppendEntry, EndDialog,
         StopScript, file
<1>5. \A k \in DOMAIN par : flag'[par[k]] = flag[par[k]]
  <2> SUFFICES ASSUME NEW k \in DOMAIN par PROVE flag'[par[k]] = flag[par[k]]
    OBVIOUS
  <2>1. DOMAIN conf # {}
    BY <1>2
  <2>2. par[k] \in Int /\ 0 <= par[k] /\ par[k] <= dialog /\ dialog <= MaxDialogs
    BY <1>2, <1>3, ConfNumbers DEF Dialogs
  <2>3. par[k] \in Dialogs /\ ~(par[k] > dialog)
    BY <1>3, <2>2, ConfNumbers DEF Dialogs
  <2>4. AskFlag => flag'[par[k]] = flag[par[k]]
    BY <2>3 DEF AskFlag
  <2> QED
    BY <2>1, <2>4 DEF ScriptStep, StartScript, LocalServer, ClusterServer, Twitter, RewriteFile, AppendEntry, EndDialog,
                      StopScript
<1>6. Older'
  BY <1>1, <1>2, <1>3, <1>4 DEF Older
<1>7. IsMaster' <=> IsMaster
  BY <1>1, <1>5 DEF IsMaster
<1>8. ASSUME NEW K, LookedUp(K) PROVE LookedUp(K)'
  <2> SUFFICES ASSUME NEW k \in K
               PROVE  k \in DOMAIN conf' /\ (k \in DOMAIN par \/ k \in blank' \/ conf'[k] > 0)
    BY <1>1, <1>8 DEF LookedUp
  <2>1. k \in DOMAIN conf /\ (k \in DOMAIN par \/ k \in blank \/ conf[k] > 0)
    BY <1>8 DEF LookedUp
  <2>2. CASE RewriteFile
    <3>1. dialog > 0
      BY <2>2 DEF CInv, Written, RewriteFile
    <3> QED
      BY <1>4, <2>1, <2>2, <3>1 DEF RewriteFile
  <2>3. CASE ~RewriteFile
    <3>1. conf' = conf /\ blank' = blank
      BY <2>1, <2>3 DEF ScriptStep, StartScript, LocalServer, ClusterServer, Twitter, Begin, AppendEntry, EndDialog,
                        StopScript, file
    <3> QED
      BY <2>1, <3>1
  <2> QED
    BY <2>2, <2>3
<1>9. Plan'
  BY <1>1, <1>7, <1>8 DEF CInv, Plan
<1>10. Done' /\ LoadedInOrder'
  BY <1>1 DEF CInv, Done, LoadedInOrder
<1> QED
  BY <1>6, <1>9, <1>10

-----------------------------------------------------------------------------
(* The server.                                                               *)

(* Each key is loaded after the ones it must not be older than.              *)
LEMMA ServerKeepsServer == CInv /\ ServerStep => Plan' /\ Older' /\ Done' /\ LoadedInOrder'
<1> SUFFICES ASSUME CInv, ServerStep PROVE Plan' /\ Older' /\ Done' /\ LoadedInOrder'
  OBVIOUS
<1>1. conf' = conf /\ blank' = blank /\ flag' = flag
  BY DEF ServerStep, StartServer, Load, Loaded, StopServer, file, scriptVars
<1>2. CASE StartServer
  <2>1. /\ DOMAIN par' = {} /\ server' = "init"
        /\ toload' = <<"Master_Flag", "Slave_Index", "Twitter_Api_Key">>
    BY <1>2 DEF StartServer
  <2> QED
    BY <2>1 DEF Plan, LookedUp, Older, Done, LoadedInOrder
<1>3. CASE Load /\ Head(toload) \in DOMAIN conf
  <2> DEFINE k == Head(toload)
  <2>1. /\ par' = IF k \in blank THEN par ELSE With(k, conf[k])
        /\ server = "init" /\ server' = "init" /\ toload # <<>>
        /\ toload' = After(k)
    BY <1>3 DEF Load
  <2>2. /\ DOMAIN par' = IF k \in blank THEN DOMAIN par ELSE DOMAIN par \cup {k}
        /\ k \notin blank => par'[k] = conf[k]
        /\ \A x \in DOMAIN par : x # k => par'[x] = par[x]
    BY <2>1, WithType
  <2>3. /\ \A x \in DOMAIN conf : conf[x] \in Int
        /\ \A x \in DOMAIN par : x \in DOMAIN conf /\ par[x] \in Int /\ par[x] <= conf[x]
    BY ConfNumbers DEF CInv, ConfTypeOK, Older, Dialogs
  <2>4. k \notin DOMAIN par
    BY <2>1 DEF CInv, Plan, LookedUp, Common, OfMaster, OfSlave
  <2>5. Older'
    BY <1>1, <1>3, <2>2, <2>3, <2>4 DEF Older
  <2>6. Plan'
    <3> DEFINE Flag == "Master_Flag"
    <3>1. k # Flag => (IsMaster' <=> IsMaster)
      BY <1>1, <2>2, <2>4 DEF IsMaster
    <3>2. \A K, x : LookedUp(K) /\ x = k => LookedUp(K \cup {x})'
      <4> SUFFICES ASSUME NEW K, NEW x, LookedUp(K), x = k PROVE LookedUp(K \cup {x})'
        OBVIOUS
      <4>1. DOMAIN par' \subseteq K \cup {x}
        BY <2>2 DEF LookedUp
      <4>2. ASSUME NEW y \in K \cup {x}
            PROVE  y \in DOMAIN conf /\ (y \in DOMAIN par' \/ y \in blank \/ conf[y] > 0)
        BY <1>3, <2>2 DEF LookedUp
      <4> QED
        BY <1>1, <4>1, <4>2 DEF LookedUp
    <3>3. k # "Twitter_Api_Key" => toload' = Tail(toload)
      BY <2>1 DEF After
    <3>4. CASE LookedUp({}) /\ toload = <<Flag, "Slave_Index", "Twitter_Api_Key">>
      <4>1. k = Flag /\ toload' = <<"Slave_Index", "Twitter_Api_Key">>
        BY <3>3, <3>4
      <4>2. LookedUp({} \cup {Flag})' /\ {} \cup {Flag} = {Flag}
        BY <3>2, <3>4, <4>1
      <4> QED
        BY <2>1, <4>1, <4>2 DEF Plan
    <3>5. CASE LookedUp({Flag}) /\ toload = <<"Slave_Index", "Twitter_Api_Key">>
      <4>1. k = "Slave_Index" /\ toload' = <<"Twitter_Api_Key">>
        BY <3>3, <3>5
      <4>2. LookedUp({Flag} \cup {"Slave_Index"})' /\ {Flag} \cup {"Slave_Index"} = {Flag, "Slave_Index"}
        BY <3>2, <3>5, <4>1
      <4> QED
        BY <2>1, <4>1, <4>2 DEF Plan
    <3>6. CASE LookedUp({Flag, "Slave_Index"}) /\ toload = <<"Twitter_Api_Key">>
      <4>1. k = "Twitter_Api_Key" /\ toload' = Rest
        BY <2>1, <3>6 DEF After
      <4>2. /\ LookedUp({Flag, "Slave_Index"} \cup {"Twitter_Api_Key"})'
            /\ {Flag, "Slave_Index"} \cup {"Twitter_Api_Key"} = Common
        BY <3>2, <3>6, <4>1 DEF Common
      <4>3. LookedUp(Common)'
        BY <4>2
      <4>4. CASE IsMaster
        BY <2>1, <3>1, <4>1, <4>3, <4>4 DEF Plan, Rest
      <4>5. CASE ~IsMaster
        BY <2>1, <3>1, <4>1, <4>3, <4>5 DEF Plan, Rest
      <4> QED
        BY <4>4, <4>5
    <3>7. CASE /\ IsMaster
               /\ \/ /\ toload = OfMaster
                     /\ LookedUp(Common)
                  \/ /\ toload = <<"Local_Server_Port", "Number_Of_Servers">>
                     /\ LookedUp(Common \cup {"Local_Server_IP"})
                  \/ /\ toload = <<"Number_Of_Servers">>
                     /\ LookedUp(Common \cup {"Local_Server_IP", "Local_Server_Port"})
      <4>1. CASE toload = OfMaster /\ LookedUp(Common)
        <5>1. k = "Local_Server_IP" /\ toload' = <<"Local_Server_Port", "Number_Of_Servers">>
          BY <3>3, <4>1 DEF OfMaster
        <5>2. LookedUp(Common \cup {"Local_Server_IP"})'
          BY <3>2, <4>1, <5>1
        <5> QED
          BY <2>1, <3>1, <3>7, <5>1, <5>2 DEF Plan
      <4>2. CASE /\ toload = <<"Local_Server_Port", "Number_Of_Servers">>
                 /\ LookedUp(Common \cup {"Local_Server_IP"})
        <5>1. k = "Local_Server_Port" /\ toload' = <<"Number_Of_Servers">>
          BY <3>3, <4>2
        <5>2. LookedUp((Common \cup {"Local_Server_IP"}) \cup {"Local_Server_Port"})'
          BY <3>2, <4>2, <5>1
        <5>3. (Common \cup {"Local_Server_IP"}) \cup {"Local_Server_Port"}
              = Common \cup {"Local_Server_IP", "Local_Server_Port"}
          OBVIOUS
        <5> QED
          BY <2>1, <3>1, <3>7, <5>1, <5>2, <5>3 DEF Plan
      <4>3. CASE /\ toload = <<"Number_Of_Servers">>
                 /\ LookedUp(Common \cup {"Local_Server_IP", "Local_Server_Port"})
        <5>1. k = "Number_Of_Servers" /\ toload' = <<>>
          BY <3>3, <4>3
        <5>2. LookedUp((Common \cup {"Local_Server_IP", "Local_Server_Port"}) \cup {"Number_Of_Servers"})'
          BY <3>2, <4>3, <5>1
        <5>3. (Common \cup {"Local_Server_IP", "Local_Server_Port"}) \cup {"Number_Of_Servers"}
              = Common \cup {"Local_Server_IP", "Local_Server_Port", "Number_Of_Servers"}
          OBVIOUS
        <5> QED
          BY <2>1, <3>1, <3>7, <5>1, <5>2, <5>3 DEF Plan
      <4> QED
        BY <3>7, <4>1, <4>2, <4>3
    <3>8. CASE /\ ~IsMaster
               /\ \/ /\ toload = OfSlave
                     /\ LookedUp(Common)
                  \/ /\ toload = <<"Master_Server_IP", "Master_Server_Port", "Number_Of_Servers">>
                     /\ LookedUp(Common \cup {"Local_Server_IP"})
                  \/ /\ toload = <<"Master_Server_Port", "Number_Of_Servers">>
                     /\ LookedUp(Common \cup {"Local_Server_IP", "Master_Server_IP"})
                  \/ /\ toload = <<"Number_Of_Servers">>
                     /\ LookedUp(Common \cup {"Local_Server_IP", "Master_Server_IP", "Master_Server_Port"})
      <4>1. CASE toload = OfSlave /\ LookedUp(Common)
        <5>1. k = "Local_Server_IP" /\ toload' = <<"Master_Server_IP", "Master_Server_Port", "Number_Of_Servers">>
          BY <3>3, <4>1 DEF OfSlave
        <5>2. LookedUp(Common \cup {"Local_Server_IP"})'
          BY <3>2, <4>1, <5>1
        <5> QED
          BY <2>1, <3>1, <3>8, <5>1, <5>2 DEF Plan
      <4>2. CASE /\ toload = <<"Master_Server_IP", "Master_Server_Port", "Number_Of_Servers">>
                 /\ LookedUp(Common \cup {"Local_Server_IP"})
        <5>1. k = "Master_Server_IP" /\ toload' = <<"Master_Server_Port", "Number_Of_Servers">>
          BY <3>3, <4>2
        <5>2. LookedUp((Common \cup {"Local_Server_IP"}) \cup {"Master_Server_IP"})'
          BY <3>2, <4>2, <5>1
        <5>3. (Common \cup {"Local_Server_IP"}) \cup {"Master_Server_IP"}
              = Common \cup {"Local_Server_IP", "Master_Server_IP"}
          OBVIOUS
        <5> QED
          BY <2>1, <3>1, <3>8, <5>1, <5>2, <5>3 DEF Plan
      <4>3. CASE /\ toload = <<"Master_Server_Port", "Number_Of_Servers">>
                 /\ LookedUp(Common \cup {"Local_Server_IP", "Master_Server_IP"})
        <5>1. k = "Master_Server_Port" /\ toload' = <<"Number_Of_Servers">>
          BY <3>3, <4>3
        <5>2. LookedUp((Common \cup {"Local_Server_IP", "Master_Server_IP"}) \cup {"Master_Server_Port"})'
          BY <3>2, <4>3, <5>1
        <5>3. (Common \cup {"Local_Server_IP", "Master_Server_IP"}) \cup {"Master_Server_Port"}
              = Common \cup {"Local_Server_IP", "Master_Server_IP", "Master_Server_Port"}
          OBVIOUS
        <5> QED
          BY <2>1, <3>1, <3>8, <5>1, <5>2, <5>3 DEF Plan
      <4>4. CASE /\ toload = <<"Number_Of_Servers">>
                 /\ LookedUp(Common \cup {"Local_Server_IP", "Master_Server_IP", "Master_Server_Port"})
        <5>1. k = "Number_Of_Servers" /\ toload' = <<>>
          BY <3>3, <4>4
        <5>2. LookedUp((Common \cup {"Local_Server_IP", "Master_Server_IP", "Master_Server_Port"})
                       \cup {"Number_Of_Servers"})'
          BY <3>2, <4>4, <5>1
        <5>3. (Common \cup {"Local_Server_IP", "Master_Server_IP", "Master_Server_Port"}) \cup {"Number_Of_Servers"}
              = Common \cup {"Local_Server_IP", "Master_Server_IP", "Master_Server_Port", "Number_Of_Servers"}
          OBVIOUS
        <5> QED
          BY <2>1, <3>1, <3>8, <5>1, <5>2, <5>3 DEF Plan
      <4> QED
        BY <3>8, <4>1, <4>2, <4>3, <4>4
    <3> QED
      BY <2>1, <3>4, <3>5, <3>6, <3>7, <3>8 DEF CInv, Plan
  <2>7. LoadedInOrder'
    <3> SUFFICES ASSUME NEW first \in DOMAIN par', NEW later \in DOMAIN par', GoesWith(first, later)
                 PROVE  par'[later] >= par'[first]
      BY DEF LoadedInOrder, GoesWith
    <3>1. CASE first = k
      <4>1. later \notin DOMAIN par /\ later # first
        BY <2>1, <3>1 DEF CInv, Plan, LookedUp, Common, OfMaster, OfSlave, GoesWith
      <4> QED
        BY <2>2, <3>1, <4>1
    <3>2. CASE later = k /\ first # k
      <4>1. first \in DOMAIN par /\ par'[first] = par[first] /\ par[first] <= conf[first]
        BY <2>2, <2>3, <3>2
      <4>2. conf[later] >= conf[first]
        BY <1>3, <2>3, <3>2, <4>1 DEF CInv, FileInOrder
      <4>3. par'[later] = conf[later]
        BY <2>2, <2>4, <3>2
      <4> QED
        BY <1>3, <2>3, <3>2, <4>1, <4>2, <4>3
    <3>3. CASE first # k /\ later # k
      BY <2>2, <3>3 DEF CInv, LoadedInOrder
    <3> QED
      BY <3>1, <3>2, <3>3
  <2> QED
    BY <2>1, <2>5, <2>6, <2>7 DEF Done
<1>4. CASE Load /\ Head(toload) \notin DOMAIN conf
  BY <1>1, <1>4 DEF CInv, Load, Plan, Older, Done, LoadedInOrder
<1>5. CASE Loaded
  <2>1. par' = par /\ toload' = toload /\ toload = <<>> /\ server' = "up" /\ server = "init"
    BY <1>5 DEF Loaded
  <2>2. (\A K : LookedUp(K) => LookedUp(K)') /\ (IsMaster' <=> IsMaster)
    BY <1>1, <2>1 DEF LookedUp, IsMaster
  <2>3. Plan'
    BY <2>1, <2>2 DEF CInv, Plan, OfMaster, OfSlave
  <2> QED
    BY <1>1, <2>1, <2>3 DEF CInv, Older, Done, LoadedInOrder
<1>6. CASE StopServer
  BY <1>1, <1>6 DEF CInv, StopServer, Plan, Older, Done, LoadedInOrder
<1> QED
  BY <1>2, <1>3, <1>4, <1>5, <1>6 DEF ServerStep

(* The server does not touch the file or the script.                         *)
LEMMA ServerKeepsScript == CInv /\ ServerStep => FileInOrder' /\ Written' /\ Counted' /\ RowsInOrder'
BY DEF CInv, ServerStep, StartServer, Load, Loaded, StopServer, file, scriptVars, FileInOrder, Fresh,
       Written, Counted, RowsInOrder

-----------------------------------------------------------------------------
(* The inductive invariant holds in every reachable state.                   *)
THEOREM ConfInvariant == Spec => []CInv
<1>1. CInv /\ [Next]_vars => CInv'
  <2> SUFFICES ASSUME CInv, [Next]_vars PROVE CInv'
    OBVIOUS
  <2>1. CASE ScriptStep
    BY <2>1, ScriptTypeStep, ScriptKeepsFile, ScriptKeepsRows, ScriptKeepsServer DEF CInv
  <2>2. CASE ServerStep
    BY <2>2, ServerTypeStep, ServerKeepsServer, ServerKeepsScript DEF CInv
  <2>3. CASE UNCHANGED vars
    <3> USE <2>3 DEF CInv, vars, file, scriptVars, serverVars
    <3>1. ConfTypeOK'
      BY DEF ConfTypeOK
    <3>2. FileInOrder'
      BY DEF FileInOrder
    <3>3. Written'
      BY DEF Written, Fresh
    <3>4. Plan' /\ Older'
      BY DEF Plan, LookedUp, IsMaster, Older
    <3>5. Done' /\ LoadedInOrder'
      BY DEF Done, LoadedInOrder
    <3>6. Counted' /\ RowsInOrder'
      BY DEF Counted, RowsInOrder
    <3> QED
      BY <3>1, <3>2, <3>3, <3>4, <3>5, <3>6
  <2> QED
    BY <2>1, <2>2, <2>3 DEF Next, ScriptStep, ServerStep
<1> QED
  BY <1>1, ConfInit, PTL DEF Spec

(* Every variable keeps its set (Config.sh and init).                        *)
THEOREM ConfTypes == Spec => []ConfTypeOK
<1>1. CInv => ConfTypeOK
  BY DEF CInv
<1> QED
  BY <1>1, ConfInvariant, PTL

(* However a dialog and a start overlap, what belongs together is loaded     *)
(* together (the order of writes in Config.sh and of reads in init).         *)
THEOREM ConfLoadedInOrder == Spec => []LoadedInOrder
<1>1. CInv => LoadedInOrder
  BY DEF CInv
<1> QED
  BY <1>1, ConfInvariant, PTL

(* For any number of servers and dialogs the entries of the secondary        *)
(* servers are numbered without gap or repetition (clusterServer).           *)
THEOREM ConfRowsInOrder == Spec => []RowsInOrder
<1>1. CInv => RowsInOrder
  BY DEF CInv
<1> QED
  BY <1>1, ConfInvariant, PTL

(* Whatever keys the file holds at first and whichever of them are blank, a  *)
(* server that is up has found what it wants, and what it runs on without    *)
(* having loaded it was blank or has been written by a dialog (init's exits  *)
(* and its tests of strlen).                                                 *)
THEOREM ConfCompiledIn == Spec => []CompiledIn
<1>1. CInv => CompiledIn
  <2> SUFFICES ASSUME CInv, server = "up" PROVE LookedUp(Wanted)
    BY DEF CompiledIn, LookedUp
  <2>1. toload = <<>>
    BY DEF CInv, Done
  <2>2. CASE IsMaster
    <3>1. LookedUp(Common \cup {"Local_Server_IP", "Local_Server_Port", "Number_Of_Servers"})
      BY <2>1, <2>2 DEF CInv, Plan, OfMaster
    <3>2. Wanted = Common \cup {"Local_Server_IP", "Local_Server_Port", "Number_Of_Servers"}
      BY <2>2 DEF Wanted, Common
    <3> QED
      BY <3>1, <3>2
  <2>3. CASE ~IsMaster
    <3>1. LookedUp(Common \cup {"Local_Server_IP", "Master_Server_IP", "Master_Server_Port", "Number_Of_Servers"})
      BY <2>1, <2>3 DEF CInv, Plan, OfSlave
    <3>2. Wanted = Common \cup {"Local_Server_IP", "Master_Server_IP", "Master_Server_Port", "Number_Of_Servers"}
      BY <2>3 DEF Wanted, Common
    <3> QED
      BY <3>1, <3>2
  <2> QED
    BY <2>2, <2>3
<1> QED
  BY <1>1, ConfInvariant, PTL
=============================================================================
