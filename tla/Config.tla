------------------------------- MODULE Config -------------------------------
(* The file Server.config of a machine, the script that edits it             *)
(* (Shell_side/Config.sh) and a server that loads it (GetProfileString and   *)
(* the first half of init in Server_side/extFunc.c).                         *)
(*                                                                           *)
(* Nothing keeps a server from starting while the script is in a dialog.     *)
(* The script replaces the file line by line, and the server opens it again  *)
(* for every parameter.  Of a value only the dialog it stands for is kept:   *)
(* who leaves an answer empty leaves the line as it is, which stands for     *)
(* this dialog then as well.  0 stands for the file as it was found.         *)
EXTENDS Integers, Sequences

CONSTANTS MaxServers,  \* the largest number of servers the script accepts
          MaxDialogs,  \* bound: how often a dialog is begun
          Found,       \* bound: which of init's keys a file may hold at first
          Blanks       \* bound: which of them may be without a value at first

ASSUME ServersAssumption == MaxServers \in Nat \ {0}
ASSUME DialogsAssumption == MaxDialogs \in Nat

(* The keys that init looks up.                                              *)
Keys == {"Master_Flag", "Slave_Index", "Twitter_Api_Key", "Local_Server_IP", "Local_Server_Port",
         "Number_Of_Servers", "Master_Server_IP", "Master_Server_Port"}

(* What the script writes into a file it creates: init's Slave_Index is not  *)
(* among it.                                                                 *)
Created == Keys \ {"Slave_Index"}

(* A line holds no value for GetProfileString if nothing follows the = but a *)
(* carriage return, or the end of the file; a newline alone is a value.  A   *)
(* file with none of the keys is left out: init exits at once.               *)
ASSUME FilesAssumption ==
  /\ \A K \in Found : K \subseteq Keys /\ K # {}
  /\ Blanks \subseteq SUBSET Keys

Dialogs == 0..MaxDialogs

VARIABLES
  conf,     \* the file: the dialog each of its keys stands for
  blank,    \* its keys without a value
  rows,     \* the secondary servers in the file, in the order of their entries
  flag,     \* flag[n]: the value of Master_Flag that stands for dialog n
  script,   \* what the script does
  dialog,   \* the number of dialogs begun
  todo,     \* the keys the dialog has still to write
  i,        \* the server whose entry is next
  cnumber,  \* how many servers have been asked for
  max,      \* the script's own count of entries
  server,   \* what the server does
  toload,   \* the keys it has still to look up
  par       \* the parameters it has loaded: the dialogs they stand for; the
            \* others are the ones that are compiled in

file == <<conf, blank, rows>>
scriptVars == <<script, dialog, flag, todo, i, cnumber, max>>
serverVars == <<server, toload, par>>
vars == <<file, scriptVars, serverVars>>

ConfTypeOK ==
  /\ DOMAIN conf \subseteq Keys
  /\ \A k \in DOMAIN conf : conf[k] \in 0..dialog
  /\ blank \subseteq DOMAIN conf
  /\ rows \in Seq(2..MaxServers)
  /\ flag \in [Dialogs -> {-1, 0, 1}]
  /\ script \in {"off", "menu", "dialog"}
  /\ dialog \in Dialogs
  /\ todo \in Seq(Keys)
  /\ i \in 2..(MaxServers + 1)
  /\ cnumber \in 0..MaxServers
  /\ max \in 1..MaxServers
  /\ server \in {"off", "init", "up"}
  /\ toload \in Seq(Keys)
  /\ DOMAIN par \subseteq Keys
  /\ \A k \in DOMAIN par : par[k] \in 0..dialog

(* No file yet, one that the script once made, or any other: one that was    *)
(* shipped or has been edited by hand, perhaps where lines end otherwise.    *)
(* The entries that are found in it are in order.                            *)
Init ==
  /\ \/ conf = <<>> /\ rows = <<>> /\ blank = {}
     \/ \E m \in 1..MaxServers, K \in Found, B \in Blanks :
          /\ conf = [k \in K |-> 0]
          /\ blank = B \cap K
          /\ rows = [n \in 1..(m - 1) |-> n + 1]
  /\ \E f \in {0, 1} : flag = [n \in Dialogs |-> f]
  /\ script = "off" /\ dialog = 0 /\ todo = <<>> /\ i = 2 /\ cnumber = 0 /\ max = 1
  /\ server = "off" /\ toload = <<>> /\ par = <<>>

-----------------------------------------------------------------------------
(* The script.                                                               *)

(* Without a file it creates one, with a flag of -1.                         *)
StartScript ==
  /\ script = "off"
  /\ script' = "menu"
  /\ max' = 1
  /\ IF DOMAIN conf = {}
       THEN /\ conf' = [k \in Created |-> dialog]
            /\ flag' = [n \in Dialogs |-> -1]
       ELSE UNCHANGED <<conf, flag>>
  /\ UNCHANGED <<blank, rows, dialog, todo, i, cnumber, serverVars>>

(* A dialog that writes keys, and entries for n servers.                     *)
Begin(keys, n) ==
  /\ script = "menu"
  /\ dialog < MaxDialogs
  /\ script' = "dialog"
  /\ dialog' = dialog + 1
  /\ todo' = keys
  /\ cnumber' = n
  /\ i' = 2
  /\ UNCHANGED <<file, max, serverVars>>

(* The answer to the question for the master flag: any number but 1 means no *)
(* and counts as 0 here, an empty one leaves what is in the file.            *)
AskFlag ==
  \E f \in {0, 1} \cup {flag[conf[k]] : k \in DOMAIN conf \cap {"Master_Flag"}} :
    flag' = [n \in Dialogs |-> IF n > dialog THEN f ELSE flag[n]]

(* Mutant: the flag is written first.                                        *)
LocalFlagFirst ==
  /\ Begin(<<"Master_Flag", "Local_Server_IP", "Local_Server_Port">>, 0)
  /\ AskFlag

(* localServer: all the answers are read before anything is written.  The    *)
(* Secondary_Index that a slave is asked for is not looked up by anybody.    *)
LocalServer ==
  /\ Begin(<<"Local_Server_IP", "Local_Server_Port", "Master_Flag">>, 0)
  /\ AskFlag

(* clusterServer: the number is written before it is looked at.              *)
ClusterServer ==
  /\ \/ \E n \in 1..MaxServers : Begin(<<"Number_Of_Servers", "Master_Server_IP", "Master_Server_Port">>, n)
     \/ Begin(<<"Number_Of_Servers">>, 0)
  /\ UNCHANGED flag

(* twitter                                                                   *)
Twitter ==
  /\ Begin(<<"Twitter_Api_Key">>, 0)
  /\ UNCHANGED flag

(* A line that does not exist is not written.  The line an answer is written *)
(* to has a value and ends with a newline alone, whatever was in it; without *)
(* an answer sed lacks its file, so that a line without a value stays one.   *)
RewriteFile ==
  /\ script = "dialog"
  /\ todo # <<>>
  /\ conf' = [k \in DOMAIN conf |-> IF k = Head(todo) THEN dialog ELSE conf[k]]
  /\ blank' \in {blank, blank \ {Head(todo)}}
  /\ todo' = Tail(todo)
  /\ UNCHANGED <<rows, script, dialog, flag, i, cnumber, max, serverVars>>

InFile(n) == \E r \in 1..Len(rows) : rows[r] = n

(* Mutant: the script trusts its own count.                                  *)
MissingCounted == i > max

Missing == ~InFile(i) /\ i > max

(* One round of the loop over the secondary servers.  Their names, addresses *)
(* and ports are not looked up by anybody.                                   *)
AppendEntry ==
  /\ script = "dialog"
  /\ todo = <<>>
  /\ i <= cnumber
  /\ IF Missing
       THEN rows' = Append(rows, i) /\ max' = max + 1
       ELSE UNCHANGED <<rows, max>>
  /\ i' = i + 1
  /\ UNCHANGED <<conf, blank, script, dialog, flag, todo, cnumber, serverVars>>

EndDialog ==
  /\ script = "dialog"
  /\ todo = <<>>
  /\ i > cnumber
  /\ script' = "menu"
  /\ UNCHANGED <<file, dialog, flag, todo, i, cnumber, max, serverVars>>

(* q in the menu, or Ctrl-C at any moment.                                   *)
StopScript ==
  /\ script # "off"
  /\ script' = "off"
  /\ todo' = <<>>
  /\ UNCHANGED <<file, dialog, flag, i, cnumber, max, serverVars>>

-----------------------------------------------------------------------------
(* The server.                                                               *)

StartServer ==
  /\ server = "off"
  /\ server' = "init"
  /\ toload' = <<"Master_Flag", "Slave_Index", "Twitter_Api_Key">>
  /\ par' = <<>>
  /\ UNCHANGED <<file, scriptVars>>

OfMaster == <<"Local_Server_IP", "Local_Server_Port", "Number_Of_Servers">>
OfSlave == <<"Local_Server_IP", "Master_Server_IP", "Master_Server_Port", "Number_Of_Servers">>

(* Any flag but 1 makes a slave; the one that is compiled in is 0.           *)
IsMaster == "Master_Flag" \in DOMAIN par /\ flag[par["Master_Flag"]] = 1

Rest == IF IsMaster THEN OfMaster ELSE OfSlave

With(k, n) == [x \in DOMAIN par \cup {k} |-> IF x = k THEN n ELSE par[x]]

(* After Twitter_Api_Key init looks at the flag it has.                      *)
After(k) == IF k = "Twitter_Api_Key" THEN Rest ELSE Tail(toload)

(* Mutant: the index has a default.                                          *)
LoadDefaultIndex ==
  /\ server = "init"
  /\ toload # <<>>
  /\ LET k == Head(toload) IN
       IF k \in DOMAIN conf \cup {"Slave_Index"}
         THEN /\ par' = IF k \in DOMAIN conf \ blank THEN With(k, conf[k]) ELSE par
              /\ toload' = After(k)
              /\ UNCHANGED server
         ELSE /\ server' = "off"
              /\ UNCHANGED <<toload, par>>
  /\ UNCHANGED <<file, scriptVars>>

(* GetProfileString opens the file, looks for the key and closes it.  When   *)
(* it does not find it, init exits; when it finds no value behind it, the    *)
(* parameter stays as it is compiled in.                                     *)
Load ==
  /\ server = "init"
  /\ toload # <<>>
  /\ LET k == Head(toload) IN
       IF k \in DOMAIN conf
         THEN /\ par' = IF k \in blank THEN par ELSE With(k, conf[k])
              /\ toload' = After(k)
              /\ UNCHANGED server
         ELSE /\ server' = "off"
              /\ UNCHANGED <<toload, par>>
  /\ UNCHANGED <<file, scriptVars>>

Loaded ==
  /\ server = "init"
  /\ toload = <<>>
  /\ server' = "up"
  /\ UNCHANGED <<toload, par, file, scriptVars>>

StopServer ==
  /\ server = "up"
  /\ server' = "off"
  /\ UNCHANGED <<toload, par, file, scriptVars>>

-----------------------------------------------------------------------------
Next ==
  \/ StartScript \/ LocalServer \/ ClusterServer \/ Twitter
  \/ RewriteFile \/ AppendEntry \/ EndDialog \/ StopScript
  \/ StartServer \/ Load \/ Loaded \/ StopServer

Spec == Init /\ [][Next]_vars

-----------------------------------------------------------------------------
GoesWith(first, later) ==
  \/ first = "Master_Flag" /\ later \in {"Local_Server_IP", "Local_Server_Port"}
  \/ first = "Master_Server_IP" /\ later = "Number_Of_Servers"

(* What belongs together is not torn apart by a dialog during the start: a   *)
(* server with the flag of a dialog has the port and the address of that     *)
(* dialog or of a later one, and one with the master's address the number of *)
(* servers (the order of the writes in Config.sh and of the reads in init).  *)
LoadedInOrder ==
  \A first, later \in DOMAIN par : GoesWith(first, later) => par[later] >= par[first]

(* The secondary servers are numbered from 2 without gap and without         *)
(* repetition, whatever numbers are asked for one after the other and        *)
(* wherever the script is stopped (clusterServer, grep and max).             *)
RowsInOrder == \A r \in 1..Len(rows) : rows[r] = r + 1

(* What init looks up for a server of its kind.                              *)
Wanted ==
  {"Master_Flag", "Slave_Index", "Twitter_Api_Key", "Local_Server_IP", "Number_Of_Servers"} \cup
  (IF IsMaster THEN {"Local_Server_Port"} ELSE {"Master_Server_IP", "Master_Server_Port"})

(* Whatever file it was started with and whatever dialog was writing into it *)
(* meanwhile, a server that is up has found every key it wants, and runs on  *)
(* a parameter that is compiled in only if the line of its key is without a  *)
(* value or was written by a dialog, so never where the file as it was found *)
(* had one and nobody touched it (init's exits and its tests of strlen).     *)
CompiledIn ==
  server = "up" =>
    \A k \in Wanted : k \in DOMAIN conf /\ (k \in DOMAIN par \/ k \in blank \/ conf[k] > 0)
=============================================================================
