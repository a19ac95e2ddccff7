----------------------------- MODULE AndroidApp -----------------------------
(* The Android app's MainActivity: the user's clicks on the UI thread and    *)
(* the reader threads that Connect starts.  They share the fields of the     *)
(* activity without a lock.                                                  *)
(*                                                                           *)
(* Every reader opens at most one socket, so that sockets and their streams  *)
(* are named by the reader that opened them; 0 is null.  A reply is Servers  *)
(* structs, counted in halves of a struct, which is enough to tell the       *)
(* pieces that the app takes for structs from the others.                    *)
EXTENDS Naturals, Sequences, FiniteSets

CONSTANTS Servers,     \* how many structs a reply has
          Mishaps,     \* what else may happen, see below
          MaxReaders   \* bound: how often Connect is clicked

(* split    a read returns a part of a reply                                 *)
(* gone     the server ends a connection, or cannot be reached               *)
(* unclear  the address is empty or has no port                              *)
(* letters  what follows the colon of the address is not a number            *)
ASSUME MishapsAssumption == Mishaps \subseteq {"split", "gone", "unclear", "letters"}
ASSUME ServersAssumption == Servers \in Nat \ {0}
ASSUME ReadersAssumption == MaxReaders \in Nat

Readers == 1..MaxReaders
Halves == 2 * Servers

VARIABLES
  isConnecting, mThread, mSocket, mInps, mPrintWriter, servlist,   \* fields
  posted,      \* readers whose message "list received" is in the queue of the UI thread
  told,        \* readers whose message has been shown
  ui,          \* where the UI thread is
  leaving,     \* it is in onDestroy
  app,         \* what has become of the activity
  msg,         \* what the click on the list button has collected
  shown,       \* the list the user has last been shown
  pc,          \* pc[t]: where reader t is
  todo,        \* todo[t]: structs t has received and not yet added
  sock,        \* sock[s]: the socket
  left,        \* left[s]: halves of the reply that have not been read
  asked,       \* asked[s]: the request has been sent, the reply is there
  cut,         \* ghost: the replies that were read in more than one piece
  careless     \* ghost: see Careless

fields == <<isConnecting, mThread, mSocket, mInps, mPrintWriter, servlist>>
screen == <<posted, told, ui, leaving, app, msg, shown>>
net == <<sock, left, asked, cut>>
vars == <<fields, screen, pc, todo, net, careless>>

(* The struct at an offset of the reply on socket s.                         *)
Structs == [of : Readers, from : 0..(Halves - 1)]

Starting == {"parse", "open", "input", "writer", "send"}
Loop == {"test", "read", "fill"}

AppTypeOK ==
  /\ isConnecting \in BOOLEAN
  /\ mThread \in 0..MaxReaders
  /\ mSocket \in 0..MaxReaders
  /\ mInps \in 0..MaxReaders
  /\ mPrintWriter \in 0..MaxReaders
  /\ servlist \in Seq(Structs)
  /\ posted \subseteq Readers
  /\ told \subseteq Readers
  /\ ui \in {"idle", "test", "close", "forget", "quiet", "drop", "size", "get"}
  /\ leaving \in BOOLEAN
  /\ app \in {"up", "crashed", "destroyed"}
  /\ msg \in Seq(Structs)
  /\ shown \in Seq(Structs)
  /\ pc \in [Readers -> {"none", "ended"} \cup Starting \cup Loop]
  /\ todo \in [Readers -> Seq(Structs)]
  /\ sock \in [Readers -> {"none", "open", "eof", "closed"}]
  /\ left \in [Readers -> 0..Halves]
  /\ asked \in [Readers -> {"no", "asked", "answered"}]
  /\ cut \subseteq Readers
  /\ careless \in BOOLEAN

Init ==
  /\ isConnecting = FALSE
  /\ mThread = 0 /\ mSocket = 0 /\ mInps = 0 /\ mPrintWriter = 0
  /\ servlist = <<>>
  /\ posted = {} /\ told = {}
  /\ ui = "idle" /\ leaving = FALSE
  /\ app = "up"
  /\ msg = <<>> /\ shown = <<>>
  /\ pc = [t \in Readers |-> "none"]
  /\ todo = [t \in Readers |-> <<>>]
  /\ sock = [t \in Readers |-> "none"]
  /\ left = [t \in Readers |-> 0]
  /\ asked = [t \in Readers |-> "no"]
  /\ cut = {}
  /\ careless = FALSE

Alive(t) == pc[t] \notin {"none", "ended"}

(* An exception nobody catches ends the whole program.                       *)
Crash ==
  /\ app' = "crashed"
  /\ pc' = [t \in Readers |-> IF pc[t] = "none" THEN "none" ELSE "ended"]
  /\ sock' = [s \in Readers |-> IF sock[s] = "none" THEN "none" ELSE "closed"]

-----------------------------------------------------------------------------
(* The UI thread.                                                            *)

(* A click is careless when the user does not wait: for the outcome of       *)
(* Connect before Disconnect, for the end of the old reader before Connect,  *)
(* for the list of the connection before looking at it.                      *)
Careless(hasty) == careless' = (careless \/ hasty)

Idle == app = "up" /\ ui = "idle"

(* Bound: after a careless click there are no more clicks.                   *)
Calm == ~careless

Connect ==
  /\ Idle /\ Calm
  /\ ~isConnecting
  /\ mThread < MaxReaders
  /\ isConnecting' = TRUE
  /\ mThread' = mThread + 1
  /\ pc' = [pc EXCEPT ![mThread'] = "parse"]
  /\ Careless(\E t \in Readers : Alive(t))
  /\ UNCHANGED <<mSocket, mInps, mPrintWriter, servlist, screen, todo, net>>

(* Disconnect, and onDestroy of a connected activity.                        *)
Leave(forGood) ==
  /\ Idle /\ Calm
  /\ isConnecting
  /\ isConnecting' = FALSE
  /\ ui' = "test"
  /\ leaving' = forGood
  /\ Careless(\E t \in Readers : pc[t] \in Starting)
  /\ UNCHANGED <<mThread, mSocket, mInps, mPrintWriter, servlist, posted, told, app, msg, shown, pc, todo, net>>

(* onDestroy of an activity that is not connected.                           *)
Destroy ==
  /\ Idle /\ Calm
  /\ ~isConnecting
  /\ app' = "destroyed"
  /\ UNCHANGED <<fields, posted, told, ui, leaving, msg, shown, pc, todo, net, careless>>

(* The interrupt of mThread at the end wakes nobody: a read of a socket and  *)
(* its constructor do not heed it.                                           *)
Left ==
  /\ ui' = "idle"
  /\ app' = IF leaving THEN "destroyed" ELSE app
  /\ UNCHANGED <<posted, told, leaving, msg, shown>>

(* Mutant: the interrupt is trusted to end the reader.                       *)
TestNothing ==
  /\ app = "up"
  /\ ui = "test"
  /\ Left
  /\ UNCHANGED <<fields, pc, todo, net, careless>>

TestSocket ==
  /\ app = "up"
  /\ ui = "test"
  /\ IF mSocket # 0
       THEN ui' = "close" /\ UNCHANGED <<posted, told, leaving, app, msg, shown>>
       ELSE Left
  /\ UNCHANGED <<fields, pc, todo, net, careless>>

(* Nothing goes wrong in close: the catch behind it, which would leave       *)
(* mSocket and the writer as they are, is left out.                          *)
CloseSocket ==
  /\ app = "up"
  /\ ui = "close"
  /\ sock' = [sock EXCEPT ![mSocket] = "closed"]
  /\ ui' = "forget"
  /\ UNCHANGED <<fields, posted, told, leaving, app, msg, shown, pc, todo, left, asked, cut, careless>>

(* Mutant: the field keeps the closed socket.                                *)
ForgetNothing ==
  /\ app = "up"
  /\ ui = "forget"
  /\ ui' = "quiet"
  /\ UNCHANGED <<fields, posted, told, leaving, app, msg, shown, pc, todo, net, careless>>

ForgetSocket ==
  /\ app = "up"
  /\ ui = "forget"
  /\ mSocket' = 0
  /\ ui' = "quiet"
  /\ UNCHANGED <<isConnecting, mThread, mInps, mPrintWriter, servlist, posted, told, leaving, app, msg, shown,
                 pc, todo, net, careless>>

(* mPrintWriter.close() closes the socket under the stream, too.             *)
CloseWriter ==
  /\ app = "up"
  /\ ui = "quiet"
  /\ IF mPrintWriter = 0
       THEN Crash /\ UNCHANGED ui
       ELSE /\ sock' = [sock EXCEPT ![mPrintWriter] = "closed"]
            /\ ui' = "drop"
            /\ UNCHANGED <<app, pc>>
  /\ UNCHANGED <<fields, posted, told, leaving, msg, shown, todo, left, asked, cut, careless>>

DropWriter ==
  /\ app = "up"
  /\ ui = "drop"
  /\ mPrintWriter' = 0
  /\ Left
  /\ UNCHANGED <<isConnecting, mThread, mSocket, mInps, servlist, pc, todo, net, careless>>

(* The button is enabled by the first message and never disabled again.      *)
btn_gtlist == told # {}

(* handleMessage of -1.                                                      *)
ShowReceived(t) ==
  /\ Idle
  /\ t \in posted
  /\ posted' = posted \ {t}
  /\ told' = told \cup {t}
  /\ UNCHANGED <<fields, ui, leaving, app, msg, shown, pc, todo, net, careless>>

ClickList ==
  /\ Idle /\ Calm
  /\ btn_gtlist
  /\ ui' = "size"
  /\ msg' = <<>>
  /\ Careless(\E t \in Readers : Alive(t) /\ t \notin told)
  /\ UNCHANGED <<fields, posted, told, leaving, app, shown, pc, todo, net>>

(* The field servlist is read again for every size() and every get(i).       *)
ListSize ==
  /\ app = "up"
  /\ ui = "size"
  /\ IF Len(msg) < Len(servlist)
       THEN ui' = "get" /\ UNCHANGED <<msg, shown>>
       ELSE ui' = "idle" /\ shown' = msg /\ msg' = <<>>
  /\ UNCHANGED <<fields, posted, told, leaving, app, pc, todo, net, careless>>

ListGet ==
  /\ app = "up"
  /\ ui = "get"
  /\ IF Len(msg) < Len(servlist)
       THEN /\ msg' = Append(msg, servlist[Len(msg) + 1])
            /\ ui' = "size"
            /\ UNCHANGED <<app, pc, sock>>
       ELSE Crash /\ UNCHANGED <<ui, msg>>
  /\ UNCHANGED <<fields, posted, told, leaving, shown, todo, left, asked, cut, careless>>

-----------------------------------------------------------------------------
(* A reader thread.                                                          *)

(* What is typed is taken from the text field by the reader, which cannot be *)
(* edited any more.  A reader that gives up leaves isConnecting set.         *)
Parse(t) ==
  /\ pc[t] = "parse"
  /\ \/ pc' = [pc EXCEPT ![t] = "open"] /\ UNCHANGED <<app, sock, careless>>
     \/ "unclear" \in Mishaps /\ pc' = [pc EXCEPT ![t] = "ended"] /\ UNCHANGED <<app, sock, careless>>
     \/ "letters" \in Mishaps /\ Crash /\ careless' = TRUE
  /\ UNCHANGED <<fields, posted, told, ui, leaving, msg, shown, todo, left, asked, cut>>

Open(t) ==
  /\ pc[t] = "open"
  /\ \/ /\ pc' = [pc EXCEPT ![t] = "input"]
        /\ mSocket' = t
        /\ sock' = [sock EXCEPT ![t] = "open"]
     \/ /\ "gone" \in Mishaps
        /\ pc' = [pc EXCEPT ![t] = "ended"]
        /\ UNCHANGED <<mSocket, sock>>
  /\ UNCHANGED <<isConnecting, mThread, mInps, mPrintWriter, servlist, screen, todo, left, asked, cut, careless>>

(* The field is null or holds a closed socket: both exceptions are caught.   *)
NoSocket == mSocket = 0 \/ (mSocket # 0 /\ sock[mSocket] = "closed")

TakeInput(t) ==
  /\ pc[t] = "input"
  /\ IF NoSocket
       THEN pc' = [pc EXCEPT ![t] = "ended"] /\ UNCHANGED mInps
       ELSE pc' = [pc EXCEPT ![t] = "writer"] /\ mInps' = mSocket
  /\ UNCHANGED <<isConnecting, mThread, mSocket, mPrintWriter, servlist, screen, todo, net, careless>>

TakeWriter(t) ==
  /\ pc[t] = "writer"
  /\ IF NoSocket
       THEN pc' = [pc EXCEPT ![t] = "ended"] /\ UNCHANGED mPrintWriter
       ELSE pc' = [pc EXCEPT ![t] = "send"] /\ mPrintWriter' = mSocket
  /\ UNCHANGED <<isConnecting, mThread, mSocket, mInps, servlist, screen, todo, net, careless>>

(* A PrintWriter keeps its errors to itself.                                 *)
Send(t) ==
  /\ pc[t] = "send"
  /\ IF mPrintWriter = 0
       THEN pc' = [pc EXCEPT ![t] = "ended"] /\ UNCHANGED asked
       ELSE /\ pc' = [pc EXCEPT ![t] = "test"]
            /\ asked' = [asked EXCEPT ![mPrintWriter] =
                            IF sock[mPrintWriter] = "open" /\ @ = "no" THEN "asked" ELSE @]
  /\ UNCHANGED <<fields, screen, todo, sock, left, cut, careless>>

(* Mutant: the loop does not look at the flag.                               *)
TestAlways(t) ==
  /\ pc[t] = "test"
  /\ pc' = [pc EXCEPT ![t] = "read"]
  /\ UNCHANGED <<fields, screen, todo, net, careless>>

Test(t) ==
  /\ pc[t] = "test"
  /\ pc' = [pc EXCEPT ![t] = IF isConnecting THEN "read" ELSE "ended"]
  /\ UNCHANGED <<fields, screen, todo, net, careless>>

(* An exception and the end of file, -1, only lead to the next round.        *)
ReadNothing(t) ==
  /\ pc[t] = "read"
  /\ \/ sock[mInps] = "closed"
     \/ sock[mInps] = "eof" /\ left[mInps] = 0
  /\ pc' = [pc EXCEPT ![t] = "test"]
  /\ UNCHANGED <<fields, screen, todo, net, careless>>

(* Mutant: the loop over the structs goes one too far.                       *)
ReadOneMore(t, h) ==
  LET s == mInps  from == Halves - left[s] IN
  /\ pc[t] = "read"
  /\ sock[s] \in {"open", "eof"}
  /\ h \in 1..left[s]
  /\ h = left[s] \/ "split" \in Mishaps
  /\ left' = [left EXCEPT ![s] = @ - h]
  /\ cut' = IF h < Halves THEN cut \cup {s} ELSE cut
  /\ IF h % 2 = 0
       THEN /\ servlist' = <<>>
            /\ todo' = [todo EXCEPT ![t] = [i \in 1..(h \div 2 + 1) |-> [of |-> s, from |-> from + 2 * (i - 1)]]]
            /\ pc' = [pc EXCEPT ![t] = "fill"]
       ELSE pc' = [pc EXCEPT ![t] = "test"] /\ UNCHANGED <<servlist, todo>>
  /\ UNCHANGED <<isConnecting, mThread, mSocket, mInps, mPrintWriter, screen, sock, asked, careless>>

(* A whole number of structs becomes a new list, anything else a message.    *)
Read(t, h) ==
  LET s == mInps  from == Halves - left[s] IN
  /\ pc[t] = "read"
  /\ sock[s] \in {"open", "eof"}
  /\ h \in 1..left[s]
  /\ h = left[s] \/ "split" \in Mishaps
  /\ left' = [left EXCEPT ![s] = @ - h]
  /\ cut' = IF h < Halves THEN cut \cup {s} ELSE cut
  /\ IF h % 2 = 0
       THEN /\ servlist' = <<>>
            /\ todo' = [todo EXCEPT ![t] = [i \in 1..(h \div 2) |-> [of |-> s, from |-> from + 2 * (i - 1)]]]
            /\ pc' = [pc EXCEPT ![t] = "fill"]
       ELSE pc' = [pc EXCEPT ![t] = "test"] /\ UNCHANGED <<servlist, todo>>
  /\ UNCHANGED <<isConnecting, mThread, mSocket, mInps, mPrintWriter, screen, sock, asked, careless>>

(* Mutant: the message is sent before the structs are added.                 *)
FillEarly(t) ==
  /\ pc[t] = "fill"
  /\ posted' = posted \cup {t}
  /\ IF todo[t] # <<>>
       THEN /\ servlist' = Append(servlist, Head(todo[t]))
            /\ todo' = [todo EXCEPT ![t] = Tail(@)]
            /\ UNCHANGED pc
       ELSE /\ pc' = [pc EXCEPT ![t] = "test"]
            /\ UNCHANGED <<servlist, todo>>
  /\ UNCHANGED <<isConnecting, mThread, mSocket, mInps, mPrintWriter, told, ui, leaving, app, msg, shown, net, careless>>

(* Mutant: the message is forgotten.                                         *)
FillSilent(t) ==
  /\ pc[t] = "fill"
  /\ IF todo[t] # <<>>
       THEN /\ servlist' = Append(servlist, Head(todo[t]))
            /\ todo' = [todo EXCEPT ![t] = Tail(@)]
            /\ UNCHANGED pc
       ELSE /\ pc' = [pc EXCEPT ![t] = "test"]
            /\ UNCHANGED <<servlist, todo>>
  /\ UNCHANGED <<isConnecting, mThread, mSocket, mInps, mPrintWriter, screen, net, careless>>

Fill(t) ==
  /\ pc[t] = "fill"
  /\ IF todo[t] # <<>>
       THEN /\ servlist' = Append(servlist, Head(todo[t]))
            /\ todo' = [todo EXCEPT ![t] = Tail(@)]
            /\ UNCHANGED <<posted, pc>>
       ELSE /\ posted' = posted \cup {t}
            /\ pc' = [pc EXCEPT ![t] = "test"]
            /\ UNCHANGED <<servlist, todo>>
  /\ UNCHANGED <<isConnecting, mThread, mSocket, mInps, mPrintWriter, told, ui, leaving, app, msg, shown, net, careless>>

-----------------------------------------------------------------------------
(* The master: its handler answers one request, and reads on.                *)
Answer(s) ==
  /\ sock[s] = "open"
  /\ asked[s] = "asked"
  /\ asked' = [asked EXCEPT ![s] = "answered"]
  /\ left' = [left EXCEPT ![s] = Halves]
  /\ UNCHANGED <<fields, screen, pc, todo, sock, cut, careless>>

ServerGone(s) ==
  /\ "gone" \in Mishaps
  /\ sock[s] = "open"
  /\ sock' = [sock EXCEPT ![s] = "eof"]
  /\ UNCHANGED <<fields, screen, pc, todo, left, asked, cut, careless>>

-----------------------------------------------------------------------------
Leaving == TestSocket \/ CloseSocket \/ ForgetSocket \/ CloseWriter \/ DropWriter

Click == Connect \/ Leave(FALSE) \/ Leave(TRUE) \/ Destroy \/ ClickList

Reader(t) ==
  \/ Parse(t) \/ Open(t) \/ TakeInput(t) \/ TakeWriter(t) \/ Send(t)
  \/ Test(t) \/ ReadNothing(t) \/ Fill(t)
  \/ \E h \in 1..Halves : Read(t, h)

Next ==
  \/ Click
  \/ Leaving \/ ListSize \/ ListGet
  \/ \E t \in Readers : Reader(t) \/ ShowReceived(t) \/ Answer(t) \/ ServerGone(t)

Spec == Init /\ [][Next]_vars

(* Threads are scheduled, the UI thread goes through what it has begun, and  *)
(* a master that is there answers.  The user need not click.                 *)
Fairness ==
  /\ WF_vars(Leaving)
  /\ WF_vars(ListSize \/ ListGet)
  /\ \A t \in Readers : WF_vars(Reader(t)) /\ WF_vars(ShowReceived(t)) /\ WF_vars(Answer(t))

FairSpec == Spec /\ Fairness

-----------------------------------------------------------------------------
(* The app crashes only on a port that is not a number, on careless clicks   *)
(* and on replies in pieces: otherwise neither the writer that Disconnect    *)
(* closes nor the list that is being shown disappears under the UI thread    *)
(* (onClick of both buttons).                                                *)
CalmNoCrash == app = "crashed" => careless \/ cut # {}

(* Without careless clicks there is one connection at a time and none is     *)
(* left after Disconnect or onDestroy, whatever became of the reader.        *)
CalmOneSocket ==
  ~careless =>
    /\ Cardinality({s \in Readers : sock[s] \in {"open", "eof"}}) <= 1
    /\ ~isConnecting /\ ui = "idle" => \A s \in Readers : sock[s] \notin {"open", "eof"}

Whole(list) == \E s \in Readers : list = [i \in 1..Servers |-> [of |-> s, from |-> 2 * (i - 1)]]

(* The list the user sees is one reply from its first struct to its last, if *)
(* the reply was read at once (mRunnable, btn_gtlist).                       *)
CalmWholeList ==
  ~careless /\ shown # <<>> => Whole(shown) \/ \E i \in 1..Len(shown) : shown[i].of \in cut

(* A reader ends after Disconnect and after onDestroy: blocked in a read,    *)
(* spinning at an end of file, or filling the list.                          *)
CalmReaderEnds ==
  \A t \in Readers : (Alive(t) /\ ~isConnecting) ~> (~Alive(t) \/ careless)

(* Who waits gets the list of a master that stays.                           *)
CalmListComes ==
  \A t \in Readers : asked[t] = "asked" ~>
    \/ btn_gtlist /\ Whole(servlist) /\ servlist[1].of = t
    \/ sock[t] # "open" \/ t \in cut \/ ~isConnecting \/ careless
=============================================================================
