------------------------------ MODULE AppProofs ------------------------------
(* Proofs about the app, for replies of any length, any number of clicks on  *)
(* Connect and any mishaps, and about the numbers it shows, for bytes of any *)
(* width: the bytes of eight bits of the code among them.                    *)
EXTENDS MCAndroidApp, FiniteSetTheorems, TLAPS

(* Readers with a socket, and the UI thread in the loop over the list.       *)
Opened == {"input", "writer", "send"} \cup Loop
Walking == {"size", "get"}

(* How far a reader has got with its socket, and what the fields refer to.  *)
Begun ==
  /\ mSocket # 0 => sock[mSocket] # "none"
  /\ mPrintWriter # 0 => sock[mPrintWriter] # "none"
  /\ \A t \in Readers :
       /\ t > mThread => pc[t] = "none"
       /\ pc[t] \in {"none", "parse", "open"} => sock[t] = "none"
       /\ sock[t] = "none" => asked[t] = "no"
       /\ asked[t] # "answered" => left[t] = 0
       /\ pc[t] \in {"writer", "send"} \cup Loop => mInps # 0

(* Nothing is left of a program that has crashed.                            *)
Stopped == app = "crashed" => \A t \in Readers : ~Alive(t) /\ sock[t] \notin {"open", "eof"}

(* Where the one reader of a user who waits is, what it has opened and which *)
(* fields hold it, at every step of Disconnect.                              *)
One ==
  /\ isConnecting => ui \in {"idle"} \cup Walking
  /\ \A t \in Readers :
       /\ Alive(t) => t = mThread
       /\ pc[t] \in Starting => isConnecting
       /\ pc[t] \in Opened /\ isConnecting => mSocket = t /\ sock[t] \in {"open", "eof"}
       /\ sock[t] \in {"open", "eof"} => t = mSocket /\ ui \notin {"forget", "quiet", "drop"}
  /\ mSocket # 0 =>
       /\ mSocket = mThread
       /\ pc[mThread] \notin {"none", "parse", "open"}
       /\ isConnecting \/ ui \in {"test", "close", "forget"}
       /\ pc[mThread] \in {"input", "writer"} \/ mPrintWriter = mSocket
  /\ ui \in {"close", "forget"} => mSocket # 0
  /\ ui \in {"quiet", "drop"} => mPrintWriter # 0

(* Whoever is told of a list has read all of the reply, or the reply was cut *)
(* and the rest may come; who looks at the list has been told.               *)
Answered ==
  \A t \in Readers :
    /\ pc[t] \in {"writer", "send"} \cup Loop => mInps = t
    /\ t \in posted \cup told => pc[t] \notin {"none"} \cup Starting
    /\ t \in posted \cup told \/ pc[t] = "fill" => asked[t] = "answered" /\ (t \in cut \/ left[t] = 0)
    /\ t \in posted \cup told /\ pc[t] = "fill" => t \in cut
    /\ ui \in Walking /\ Alive(t) => t \in told

(* Everything in the list came over the connection of t.                     *)
AllOf(list, t) == \A i \in 1..Len(list) : list[i].of = t

(* A list that nobody is filling.                                            *)
Good(list) == list = <<>> \/ Whole(list) \/ \A i \in 1..Len(list) : list[i].of \in cut

(* What has been added and what is still to be added make up the reply.      *)
Filling(t) ==
  /\ AllOf(servlist, t)
  /\ AllOf(todo[t], t)
  /\ t \in cut \/
       /\ Len(servlist) + Len(todo[t]) = Servers
       /\ \A i \in 1..Len(servlist) : servlist[i].from = 2 * (i - 1)
       /\ \A i \in 1..Len(todo[t]) : todo[t][i].from = 2 * (Len(servlist) + i - 1)

(* The beginning of a list.                                                  *)
Prefix(list, of) == Len(list) <= Len(of) /\ \A i \in 1..Len(list) : list[i] = of[i]

(* The list, whether the reader is filling it or not, and what the click on  *)
(* the list button has collected of it.                                      *)
Lists ==
  /\ \A t \in Readers : pc[t] = "fill" => Filling(t)
  /\ (\A t \in Readers : pc[t] # "fill") => Good(servlist)
  /\ mThread \in posted \cup told => AllOf(servlist, mThread)
  /\ ui \in Walking => Prefix(msg, servlist) \/ (mThread \in cut \cap told /\ AllOf(msg, mThread))
  /\ ui = "get" /\ cut = {} => Len(msg) < Len(servlist)

(* All this as long as the user waits.                                       *)
CalmInv == ~careless /\ app # "crashed" => One /\ Answered /\ Lists

-----------------------------------------------------------------------------
(* What the assumptions say of the constants.                                *)
LEMMA AppAssumptions ==
  /\ Mishaps \subseteq {"split", "gone", "unclear", "letters"}
  /\ Servers \in Nat /\ Servers >= 1 /\ Halves = 2 * Servers /\ Halves \in Nat
  /\ MaxReaders \in Nat
  /\ Readers \subseteq Nat /\ 0 \notin Readers
  /\ \A s \in 0..MaxReaders : s \in Nat /\ (s # 0 => s \in Readers)
  /\ \A t \in Readers : t \in 0..MaxReaders
BY MishapsAssumption, ServersAssumption, ReadersAssumption DEF Readers, Halves

(* The kinds of steps.                                                       *)
LEMMA AppCases ==
  ASSUME [Next]_vars
  PROVE  \/ Connect \/ Leave(FALSE) \/ Leave(TRUE) \/ Destroy \/ ClickList
         \/ TestSocket \/ CloseSocket \/ ForgetSocket \/ CloseWriter \/ DropWriter
         \/ ListSize \/ ListGet
         \/ \E t \in Readers : ShowReceived(t) \/ Answer(t) \/ ServerGone(t)
         \/ \E t \in Readers : Parse(t) \/ Open(t) \/ TakeInput(t) \/ TakeWriter(t) \/ Send(t)
         \/ \E t \in Readers : Test(t) \/ ReadNothing(t) \/ Fill(t)
         \/ \E t \in Readers, h \in 1..Halves : Read(t, h)
         \/ UNCHANGED vars
BY DEF Next, Click, Leaving, Reader

(* Adding to and taking from a sequence.                                     *)
LEMMA SequenceFacts ==
  ASSUME NEW S, NEW s \in Seq(S)
  PROVE  /\ \A e \in S : Append(s, e) \in Seq(S)
         /\ s # <<>> => Head(s) \in S /\ Tail(s) \in Seq(S)
OBVIOUS

(* Crashing ends what has begun.                                             *)
LEMMA CrashType ==
  ASSUME AppTypeOK, Crash
  PROVE  /\ app' = "crashed"
         /\ pc' \in [Readers -> {"none", "ended"} \cup Starting \cup Loop]
         /\ sock' \in [Readers -> {"none", "open", "eof", "closed"}]
BY DEF Crash, AppTypeOK

(* What a read makes of a whole number of structs.                           *)
LEMMA ReadStructs ==
  ASSUME AppTypeOK, Begun, NEW t \in Readers, NEW h \in 1..Halves, Read(t, h)
  PROVE  /\ mInps \in Readers
         /\ left[mInps] \in 0..Halves /\ h <= left[mInps]
         /\ h % 2 = 0 => h \div 2 \in Nat /\ 2 * (h \div 2) = h
         /\ h % 2 = 0 => \A i \in 1..(h \div 2) : Halves - left[mInps] + 2 * (i - 1) \in 0..(Halves - 1)
         /\ left' \in [Readers -> 0..Halves]
         /\ cut' \subseteq Readers /\ cut \subseteq cut'
         /\ todo' \in [Readers -> Seq(Structs)]
<1> USE AppAssumptions DEF AppTypeOK
<1>1. mInps \in Readers
  BY DEF Begun, Read, Loop
<1>2. left[mInps] \in 0..Halves /\ h <= left[mInps] /\ h \in Nat /\ h >= 1 /\ left[mInps] \in Nat
  BY <1>1 DEF Read
<1>3. h % 2 = 0 => h \div 2 \in Nat /\ 2 * (h \div 2) = h
  BY <1>2
<1>4. ASSUME h % 2 = 0, NEW i \in 1..(h \div 2) PROVE Halves - left[mInps] + 2 * (i - 1) \in 0..(Halves - 1)
  <2> DEFINE m == h \div 2
  <2>1. m \in Nat /\ 2 * m <= left[mInps] /\ left[mInps] \in Nat /\ left[mInps] <= Halves /\ Halves \in Nat
    BY <1>2, <1>3, <1>4
  <2>2. i \in 1..m
    BY <1>4
  <2> HIDE DEF m, AppTypeOK
  <2> QED
    BY ONLY <2>1, <2>2
<1>5. left' \in [Readers -> 0..Halves] /\ cut' \subseteq Readers /\ cut \subseteq cut'
  <2>1. left[mInps] - h \in 0..Halves
    BY <1>2
  <2> QED
    BY <1>1, <2>1 DEF Read
<1>6. todo' \in [Readers -> Seq(Structs)]
  <2>1. CASE h % 2 = 0
    <3> DEFINE new == [i \in 1..(h \div 2) |-> [of |-> mInps, from |-> Halves - left[mInps] + 2 * (i - 1)]]
    <3>1. \A i \in 1..(h \div 2) : new[i] \in Structs
      BY <1>1, <1>4, <2>1 DEF Structs
    <3>2. new \in Seq(Structs)
      BY <1>3, <2>1, <3>1
    <3>3. todo' = [todo EXCEPT ![t] = new]
      BY <2>1 DEF Read
    <3> HIDE DEF new
    <3> QED
      BY <3>2, <3>3
  <2>2. CASE h % 2 # 0
    BY <2>2 DEF Read
  <2> QED
    BY <2>1, <2>2
<1> QED
  BY <1>1, <1>2, <1>3, <1>4, <1>5, <1>6

(* Every step keeps every variable in its set.                               *)
LEMMA AppTypeStep == AppTypeOK /\ Begun /\ [Next]_vars => AppTypeOK'
<1> SUFFICES ASSUME AppTypeOK, Begun, [Next]_vars PROVE AppTypeOK'
  OBVIOUS
<1> USE AppAssumptions DEF AppTypeOK, fields, screen, net
<1>1. CASE Connect
  <2>1. mThread + 1 \in Readers
    BY <1>1 DEF Connect, Readers
  <2> QED
    BY <1>1, <2>1 DEF Connect, Careless, Starting
<1>2. ASSUME NEW b \in BOOLEAN, Leave(b) PROVE AppTypeOK'
  BY <1>2 DEF Leave, Careless
<1>3. CASE Destroy
  BY <1>3 DEF Destroy
<1>4. CASE ClickList
  <2>1. <<>> \in Seq(Structs)
    OBVIOUS
  <2> QED
    BY <1>4, <2>1 DEF ClickList, Careless
<1>5. CASE TestSocket
  BY <1>5 DEF TestSocket, Left
<1>6. CASE CloseSocket
  BY <1>6 DEF CloseSocket
<1>7. CASE ForgetSocket
  BY <1>7 DEF ForgetSocket
<1>8. CASE CloseWriter
  <2>1. CASE mPrintWriter = 0
    BY <1>8, <2>1, CrashType DEF CloseWriter
  <2>2. CASE mPrintWriter # 0
    BY <1>8, <2>2 DEF CloseWriter
  <2> QED
    BY <2>1, <2>2
<1>9. CASE DropWriter
  BY <1>9 DEF DropWriter, Left
<1>10. CASE ListSize
  <2>1. <<>> \in Seq(Structs)
    OBVIOUS
  <2>2. CASE Len(msg) < Len(servlist)
    BY <1>10, <2>2 DEF ListSize
  <2>3. CASE ~(Len(msg) < Len(servlist))
    BY <1>10, <2>1, <2>3 DEF ListSize
  <2> QED
    BY <2>2, <2>3
<1>11. CASE ListGet
  <2>1. CASE Len(msg) < Len(servlist)
    <3>1. servlist[Len(msg) + 1] \in Structs
      BY <2>1
    <3>2. msg' = Append(msg, servlist[Len(msg) + 1])
      BY <1>11, <2>1 DEF ListGet
    <3>3. msg' \in Seq(Structs)
      BY <3>1, <3>2, SequenceFacts
    <3>4. UNCHANGED <<fields, posted, told, leaving, app, shown, pc, todo, net, careless>> /\ ui' = "size"
      BY <1>11, <2>1 DEF ListGet
    <3> HIDE DEF Halves
    <3> QED
      BY <3>3, <3>4
  <2>2. CASE ~(Len(msg) < Len(servlist))
    BY <1>11, <2>2, CrashType DEF ListGet
  <2> QED
    BY <2>1, <2>2
<1>12. ASSUME NEW t \in Readers, ShowReceived(t) PROVE AppTypeOK'
  BY <1>12 DEF ShowReceived
<1>13. ASSUME NEW t \in Readers, Answer(t) PROVE AppTypeOK'
  <2>1. Halves \in 0..Halves
    OBVIOUS
  <2> QED
    BY <1>13, <2>1 DEF Answer
<1>14. ASSUME NEW t \in Readers, ServerGone(t) PROVE AppTypeOK'
  BY <1>14 DEF ServerGone
<1>15. ASSUME NEW t \in Readers, Parse(t) PROVE AppTypeOK'
  <2>1. CASE Crash /\ careless' = TRUE
    BY <1>15, <2>1, CrashType DEF Parse
  <2>2. CASE ~(Crash /\ careless' = TRUE)
    <3>1. pc' = [pc EXCEPT ![t] = "open"] \/ pc' = [pc EXCEPT ![t] = "ended"]
      BY <1>15, <2>2 DEF Parse
    <3>2. UNCHANGED <<fields, screen, todo, net, careless>>
      BY <1>15, <2>2 DEF Parse
    <3> QED
      BY <3>1, <3>2 DEF Starting
  <2> QED
    BY <2>1, <2>2
<1>16. ASSUME NEW t \in Readers, Open(t) PROVE AppTypeOK'
  <2>1. pc' = [pc EXCEPT ![t] = "input"] \/ pc' = [pc EXCEPT ![t] = "ended"]
    BY <1>16 DEF Open
  <2>2. sock' \in [Readers -> {"none", "open", "eof", "closed"}]
    BY <1>16 DEF Open
  <2>3. mSocket' \in 0..MaxReaders
    BY <1>16 DEF Open
  <2>4. UNCHANGED <<isConnecting, mThread, mInps, mPrintWriter, servlist, screen, todo, left, asked, cut, careless>>
    BY <1>16 DEF Open
  <2> QED
    BY <2>1, <2>2, <2>3, <2>4 DEF Starting
<1>17. ASSUME NEW t \in Readers, TakeInput(t) PROVE AppTypeOK'
  BY <1>17 DEF TakeInput, Starting
<1>18. ASSUME NEW t \in Readers, TakeWriter(t) PROVE AppTypeOK'
  BY <1>18 DEF TakeWriter, Starting
<1>19. ASSUME NEW t \in Readers, Send(t) PROVE AppTypeOK'
  <2>1. pc' \in [Readers -> {"none", "ended"} \cup Starting \cup Loop]
    BY <1>19 DEF Send, Loop
  <2>2. asked' \in [Readers -> {"no", "asked", "answered"}]
    BY <1>19 DEF Send
  <2> QED
    BY <1>19, <2>1, <2>2 DEF Send
<1>20. ASSUME NEW t \in Readers, Test(t) PROVE AppTypeOK'
  BY <1>20 DEF Test, Loop
<1>21. ASSUME NEW t \in Readers, ReadNothing(t) PROVE AppTypeOK'
  BY <1>21 DEF ReadNothing, Loop
<1>22. ASSUME NEW t \in Readers, Fill(t) PROVE AppTypeOK'
  <2>1. CASE todo[t] # <<>>
    <3>1. servlist' = Append(servlist, Head(todo[t])) /\ todo' = [todo EXCEPT ![t] = Tail(@)]
      BY <1>22, <2>1 DEF Fill
    <3>2. servlist' \in Seq(Structs) /\ Tail(todo[t]) \in Seq(Structs)
      BY <2>1, <3>1, SequenceFacts
    <3>3. todo' \in [Readers -> Seq(Structs)]
      BY <3>1, <3>2
    <3>4. UNCHANGED <<isConnecting, mThread, mSocket, mInps, mPrintWriter, screen, net, pc, careless>>
      BY <1>22, <2>1 DEF Fill
    <3> QED
      BY <3>2, <3>3, <3>4
  <2>2. CASE todo[t] = <<>>
    <3>1. pc' = [pc EXCEPT ![t] = "test"]
      BY <1>22, <2>2 DEF Fill
    <3>2. posted' = posted \cup {t}
      BY <1>22, <2>2 DEF Fill
    <3>3. UNCHANGED <<fields, told, ui, leaving, app, msg, shown, todo, net, careless>>
      BY <1>22, <2>2 DEF Fill
    <3> QED
      BY <3>1, <3>2, <3>3 DEF Loop
  <2> QED
    BY <2>1, <2>2
<1>23. ASSUME NEW t \in Readers, NEW h \in 1..Halves, Read(t, h) PROVE AppTypeOK'
  <2>1. servlist' \in Seq(Structs)
    <3>1. <<>> \in Seq(Structs)
      OBVIOUS
    <3> QED
      BY <1>23, <3>1 DEF Read
  <2>2. pc' = [pc EXCEPT ![t] = "fill"] \/ pc' = [pc EXCEPT ![t] = "test"]
    BY <1>23 DEF Read
  <2>3. pc' \in [Readers -> {"none", "ended"} \cup Starting \cup Loop]
    BY <2>2 DEF Loop
  <2>4. UNCHANGED <<isConnecting, mThread, mSocket, mInps, mPrintWriter, screen, sock, asked, careless>>
    BY <1>23 DEF Read
  <2>5. left' \in [Readers -> 0..Halves] /\ cut' \subseteq Readers /\ todo' \in [Readers -> Seq(Structs)]
    <3> HIDE DEF AppTypeOK
    <3> QED
      BY <1>23, ReadStructs
  <2> QED
    BY <2>1, <2>3, <2>4, <2>5
<1>24. CASE UNCHANGED vars
  BY <1>24 DEF vars
<1> QED
  BY <1>1, <1>2, <1>3, <1>4, <1>5, <1>6, <1>7, <1>8, <1>9, <1>10, <1>11, <1>12, <1>13, <1>14, <1>15, <1>16,
     <1>17, <1>18, <1>19, <1>20, <1>21, <1>22, <1>23, <1>24, AppCases

(* What a crash does to each reader and each socket.                         *)
LEMMA CrashEnds ==
  ASSUME AppTypeOK, Crash
  PROVE  \A t \in Readers :
           /\ pc[t] = "none" => pc'[t] = "none"
           /\ pc[t] # "none" => pc'[t] = "ended"
           /\ sock[t] = "none" => sock'[t] = "none"
           /\ sock[t] # "none" => sock'[t] = "closed"
BY DEF Crash, AppTypeOK

(* Every step keeps Begun.                                                   *)
LEMMA AppBegunStep == AppTypeOK /\ Begun /\ [Next]_vars => Begun'
<1> SUFFICES ASSUME AppTypeOK, Begun, [Next]_vars PROVE Begun'
  OBVIOUS
<1> USE AppAssumptions DEF AppTypeOK, Begun, Loop, fields, screen, net
<1>1. CASE Connect
  <2>1. mThread' = mThread + 1 /\ mThread' \in Readers
    BY <1>1 DEF Connect, Readers
  <2> QED
    BY <1>1, <2>1 DEF Connect
<1>2. ASSUME NEW b \in BOOLEAN, Leave(b) PROVE Begun'
  BY <1>2 DEF Leave
<1>3. CASE Destroy \/ ClickList
  <2>1. UNCHANGED <<mThread, mSocket, mInps, mPrintWriter, pc, sock, asked, left>>
    BY <1>3 DEF Destroy, ClickList
  <2> QED
    BY <2>1
<1>4. CASE TestSocket
  BY <1>4 DEF TestSocket
<1>5. CASE CloseSocket
  BY <1>5 DEF CloseSocket
<1>6. CASE ForgetSocket \/ DropWriter
  <2>1. UNCHANGED <<mThread, mInps, pc, sock, asked, left>>
    BY <1>6 DEF ForgetSocket, DropWriter
  <2>2. mSocket' \in {0, mSocket} /\ mPrintWriter' \in {0, mPrintWriter}
    BY <1>6 DEF ForgetSocket, DropWriter
  <2> QED
    BY <2>1, <2>2
<1>7. CASE CloseWriter
  <2>1. CASE mPrintWriter = 0
    BY <1>7, <2>1, CrashEnds DEF CloseWriter
  <2>2. CASE mPrintWriter # 0
    BY <1>7, <2>2 DEF CloseWriter
  <2> QED
    BY <2>1, <2>2
<1>8. CASE ListSize
  BY <1>8 DEF ListSize
<1>9. CASE ListGet
  <2>1. CASE Len(msg) < Len(servlist)
    BY <1>9, <2>1 DEF ListGet
  <2>2. CASE ~(Len(msg) < Len(servlist))
    BY <1>9, <2>2, CrashEnds DEF ListGet
  <2> QED
    BY <2>1, <2>2
<1>10. ASSUME NEW t \in Readers, ShowReceived(t) PROVE Begun'
  BY <1>10 DEF ShowReceived
<1>11. ASSUME NEW t \in Readers, Answer(t) PROVE Begun'
  BY <1>11 DEF Answer
<1>12. ASSUME NEW t \in Readers, ServerGone(t) PROVE Begun'
  BY <1>12 DEF ServerGone
<1>13. ASSUME NEW t \in Readers, Parse(t) PROVE Begun'
  <2>1. CASE Crash /\ careless' = TRUE
    BY <1>13, <2>1, CrashEnds DEF Parse
  <2>2. CASE ~(Crash /\ careless' = TRUE)
    BY <1>13, <2>2 DEF Parse
  <2> QED
    BY <2>1, <2>2
<1>14. ASSUME NEW t \in Readers, Open(t) PROVE Begun'
  <2>1. /\ pc[t] = "open" /\ sock[t] = "none" /\ mThread' = mThread
        /\ UNCHANGED <<mInps, mPrintWriter, asked, left>>
        /\ \A u \in Readers : u # t => pc'[u] = pc[u] /\ sock'[u] = sock[u]
    BY <1>14 DEF Open
  <2>2. CASE pc'[t] = "input" /\ mSocket' = t /\ sock'[t] = "open"
    <3>1. asked[t] = "no" /\ (mPrintWriter # 0 => mPrintWriter # t)
      BY <2>1
    <3> QED
      BY <2>1, <2>2, <3>1
  <2>3. CASE pc'[t] = "ended" /\ UNCHANGED <<mSocket, sock>>
    BY <2>1, <2>3
  <2> QED
    BY <1>14, <2>2, <2>3 DEF Open
<1>15. ASSUME NEW t \in Readers, TakeInput(t) PROVE Begun'
  <2>1. UNCHANGED <<mThread, mSocket, mPrintWriter, sock, asked, left>>
    BY <1>15 DEF TakeInput
  <2>2. pc[t] = "input" /\ \A u \in Readers : u # t => pc'[u] = pc[u]
    BY <1>15 DEF TakeInput
  <2>3. \/ pc'[t] = "ended" /\ mInps' = mInps
        \/ pc'[t] = "writer" /\ mInps' # 0
    BY <1>15 DEF TakeInput, NoSocket
  <2> QED
    BY <2>1, <2>2, <2>3
<1>16. ASSUME NEW t \in Readers, TakeWriter(t) PROVE Begun'
  <2>1. UNCHANGED <<mThread, mSocket, mInps, sock, asked, left>>
    BY <1>16 DEF TakeWriter
  <2>2. pc[t] = "writer" /\ \A u \in Readers : u # t => pc'[u] = pc[u]
    BY <1>16 DEF TakeWriter
  <2>3. \/ pc'[t] = "ended" /\ mPrintWriter' = mPrintWriter
        \/ pc'[t] = "send" /\ mPrintWriter' = mSocket
    BY <1>16 DEF TakeWriter
  <2>4. mSocket' # 0 => sock'[mSocket'] # "none"
    BY <2>1
  <2>5. mPrintWriter' # 0 => sock'[mPrintWriter'] # "none"
    BY <2>1, <2>3
  <2>6. ~(t > mThread) /\ mInps # 0
    BY <2>2
  <2> QED
    BY <2>1, <2>2, <2>3, <2>4, <2>5, <2>6
<1>17. ASSUME NEW t \in Readers, Send(t) PROVE Begun'
  <2>1. UNCHANGED <<mThread, mSocket, mInps, mPrintWriter, sock, left>>
    BY <1>17 DEF Send
  <2>2. pc[t] = "send" /\ (pc' = [pc EXCEPT ![t] = "test"] \/ pc' = [pc EXCEPT ![t] = "ended"])
    BY <1>17 DEF Send
  <2>3. \A u \in Readers : asked'[u] = asked[u] \/ (asked[u] = "no" /\ asked'[u] = "asked" /\ sock[u] = "open")
    BY <1>17 DEF Send
  <2> QED
    BY <2>1, <2>2, <2>3
<1>18. ASSUME NEW t \in Readers, Test(t) PROVE Begun'
  BY <1>18 DEF Test
<1>19. ASSUME NEW t \in Readers, ReadNothing(t) PROVE Begun'
  BY <1>19 DEF ReadNothing
<1>20. ASSUME NEW t \in Readers, Fill(t) PROVE Begun'
  BY <1>20 DEF Fill
<1>21. ASSUME NEW t \in Readers, NEW h \in 1..Halves, Read(t, h) PROVE Begun'
  <2>1. mInps \in Readers /\ left[mInps] \in 0..Halves /\ h <= left[mInps] /\ h \in Nat /\ h >= 1
    <3>1. h \in Nat /\ h >= 1
      OBVIOUS
    <3>2. AppTypeOK /\ Begun
      OBVIOUS
    <3> HIDE DEF AppTypeOK, Begun
    <3> QED
      BY <1>21, <3>1, <3>2, ReadStructs
  <2>2. /\ pc[t] = "read"
        /\ \A u \in Readers : pc'[u] = pc[u] \/ (u = t /\ pc'[u] \in {"fill", "test"})
        /\ UNCHANGED <<mThread, sock, asked, mInps, mSocket, mPrintWriter>>
    <3>1. pc[t] = "read" /\ UNCHANGED <<mThread, sock, asked, mInps, mSocket, mPrintWriter>>
      BY <1>21 DEF Read
    <3>2. pc' = [pc EXCEPT ![t] = "fill"] \/ pc' = [pc EXCEPT ![t] = "test"]
      BY <1>21 DEF Read
    <3> QED
      BY <3>1, <3>2
  <2>3. \A u \in Readers : left'[u] = IF u = mInps THEN left[u] - h ELSE left[u]
    BY <1>21 DEF Read
  <2>4. asked[mInps] = "answered"
    BY <2>1
  <2>5. \A u \in Readers : asked[u] # "answered" => left'[u] = 0
    BY <2>1, <2>3, <2>4
  <2> QED
    BY <2>2, <2>5
<1>22. CASE UNCHANGED vars
  BY <1>22 DEF vars
<1> QED
  BY <1>1, <1>2, <1>3, <1>4, <1>5, <1>6, <1>7, <1>8, <1>9, <1>10, <1>11, <1>12, <1>13, <1>14, <1>15, <1>16,
     <1>17, <1>18, <1>19, <1>20, <1>21, <1>22, AppCases

(* Nothing begins again after a crash.                                       *)
LEMMA AppStoppedStep == AppTypeOK /\ Begun /\ Stopped /\ [Next]_vars => Stopped'
<1> SUFFICES ASSUME AppTypeOK, Begun, Stopped, [Next]_vars PROVE Stopped'
  OBVIOUS
<1> USE AppAssumptions DEF AppTypeOK, Stopped, Alive, fields, screen, net
<1>1. CASE Crash
  BY <1>1, CrashEnds
<1>2. CASE Connect \/ Leave(FALSE) \/ Leave(TRUE) \/ Destroy \/ ClickList
  BY <1>2 DEF Connect, Leave, Destroy, ClickList, Idle
<1>3. CASE TestSocket \/ CloseSocket \/ ForgetSocket \/ DropWriter
  BY <1>3 DEF TestSocket, CloseSocket, ForgetSocket, DropWriter, Left
<1>4. CASE (CloseWriter \/ ListSize \/ ListGet) /\ ~Crash
  BY <1>4 DEF CloseWriter, ListSize, ListGet
<1>5. ASSUME NEW t \in Readers, ShowReceived(t) \/ Answer(t) \/ ServerGone(t) PROVE Stopped'
  BY <1>5 DEF ShowReceived, Answer, ServerGone, Idle
<1>6. ASSUME NEW t \in Readers, Parse(t), ~Crash PROVE Stopped'
  BY <1>6 DEF Parse
<1>7. ASSUME NEW t \in Readers, Open(t) \/ TakeInput(t) \/ TakeWriter(t) \/ Send(t) PROVE Stopped'
  BY <1>7 DEF Open, TakeInput, TakeWriter, Send
<1>8. ASSUME NEW t \in Readers, Test(t) \/ ReadNothing(t) \/ Fill(t) PROVE Stopped'
  BY <1>8 DEF Test, ReadNothing, Fill
<1>9. ASSUME NEW t \in Readers, NEW h \in 1..Halves, Read(t, h) PROVE Stopped'
  BY <1>9 DEF Read
<1>10. CASE UNCHANGED vars
  BY <1>10 DEF vars
<1> QED
  BY <1>1, <1>2, <1>3, <1>4, <1>5, <1>6, <1>7, <1>8, <1>9, <1>10, AppCases

(* What a step can do to the ghosts, to the list that is shown and to the    *)
(* app.                                                                      *)
Effects ==
  /\ careless => careless'
  /\ cut \subseteq cut'
  /\ UNCHANGED shown \/ (ListSize /\ shown' = msg)
  /\ app = "crashed" => app' = "crashed"
  /\ app' = "crashed" => app = "crashed" \/ Crash
  /\ Crash => app = "crashed" \/ CloseWriter \/ ListGet \/ careless'

LEMMA StepEffects == AppTypeOK /\ [Next]_vars => Effects
<1> SUFFICES ASSUME AppTypeOK, [Next]_vars PROVE Effects
  OBVIOUS
<1> USE DEF Effects, Crash, fields, screen, net
<1>1. CASE Connect
  BY <1>1 DEF Connect, Careless, Idle
<1>2. CASE Leave(FALSE) \/ Leave(TRUE)
  BY <1>2 DEF Leave, Careless, Idle
<1>3. CASE Destroy \/ ClickList
  <2>1. CASE Destroy
    BY <2>1 DEF Destroy, Idle
  <2>2. CASE ClickList
    BY <2>2 DEF ClickList, Careless, Idle
  <2> QED
    BY <1>3, <2>1, <2>2
<1>4. CASE TestSocket \/ CloseSocket \/ ForgetSocket \/ DropWriter
  BY <1>4 DEF TestSocket, CloseSocket, ForgetSocket, DropWriter, Left
<1>5. CASE CloseWriter
  BY <1>5 DEF CloseWriter
<1>6. CASE ListSize
  BY <1>6 DEF ListSize
<1>7. CASE ListGet
  BY <1>7 DEF ListGet
<1>8. CASE \E t \in Readers : ShowReceived(t) \/ Answer(t) \/ ServerGone(t)
  BY <1>8 DEF ShowReceived, Answer, ServerGone, Idle
<1>9. ASSUME NEW t \in Readers, Parse(t) PROVE Effects
  BY <1>9 DEF Parse, AppTypeOK
<1>10. CASE \E t \in Readers : Open(t) \/ TakeInput(t) \/ TakeWriter(t) \/ Send(t)
  BY <1>10 DEF Open, TakeInput, TakeWriter, Send
<1>11. CASE \E t \in Readers : Test(t) \/ ReadNothing(t) \/ Fill(t)
  BY <1>11 DEF Test, ReadNothing, Fill
<1>12. ASSUME NEW t \in Readers, NEW h \in 1..Halves, Read(t, h) PROVE Effects
  BY <1>12 DEF Read
<1>13. CASE UNCHANGED vars
  BY <1>13 DEF vars
<1> QED
  BY <1>1, <1>2, <1>3, <1>4, <1>5, <1>6, <1>7, <1>8, <1>9, <1>10, <1>11, <1>12, <1>13, AppCases

(* A reader that goes on in its loop, or ends there, changes nothing of      *)
(* this.                                                                     *)
LEMMA OneGoesOn ==
  ASSUME AppTypeOK, One, NEW t \in Readers, pc[t] \in Loop, NEW to \in Loop \cup {"ended"},
         pc' = [pc EXCEPT ![t] = to], UNCHANGED <<isConnecting, mThread, sock, ui, mSocket, mPrintWriter>>
  PROVE  One'
<1> USE AppAssumptions DEF Alive, Starting, Loop, Opened, Walking
<1>1. pc'[t] = to /\ (\A u \in Readers : u # t => pc'[u] = pc[u]) /\ mThread \in 0..MaxReaders
  BY DEF AppTypeOK
<1>2. mSocket # 0 => mThread \in Readers
  BY DEF AppTypeOK, One
<1>3. One!2'
  BY <1>1 DEF One
<1>4. One!1' /\ One!4' /\ One!5'
  BY DEF One
<1>5. One!3'
  BY <1>1, <1>2 DEF One
<1> QED
  BY <1>3, <1>4, <1>5 DEF One

(* Every step of a user who waits keeps the reader alone.                    *)
LEMMA OneStep ==
  ASSUME AppTypeOK, Begun, One, [Next]_vars, ~careless', ~careless, app # "crashed", ~Crash
  PROVE  One'
<1> USE AppAssumptions DEF AppTypeOK, One, Alive, Starting, Loop, Opened, Walking, fields, screen, net
<1>1. CASE Connect
  <2>1. mThread' = mThread + 1 /\ mThread' \in Readers
    BY <1>1 DEF Connect, Readers
  <2>2. mSocket = 0 /\ \A t \in Readers : ~Alive(t)
    BY <1>1 DEF Connect, Careless, Idle
  <2> QED
    BY <1>1, <2>1, <2>2 DEF Connect, Idle
<1>2. ASSUME NEW b \in BOOLEAN, Leave(b) PROVE One'
  BY <1>2 DEF Leave, Careless, Idle
<1>3. CASE Destroy
  BY <1>3 DEF Destroy
<1>4. CASE ClickList
  BY <1>4 DEF ClickList, Idle
<1>5. CASE TestSocket
  BY <1>5 DEF TestSocket, Left
<1>6. CASE CloseSocket
  BY <1>6 DEF CloseSocket
<1>7. CASE ForgetSocket
  BY <1>7 DEF ForgetSocket
<1>8. CASE CloseWriter
  BY <1>8 DEF CloseWriter
<1>9. CASE DropWriter
  BY <1>9 DEF DropWriter, Left
<1>10. CASE ListSize
  BY <1>10 DEF ListSize
<1>11. CASE ListGet
  BY <1>11 DEF ListGet
<1>12. ASSUME NEW t \in Readers, ShowReceived(t) \/ Answer(t) PROVE One'
  <2>1. UNCHANGED <<isConnecting, mThread, mSocket, mPrintWriter, pc, sock, ui>>
    BY <1>12 DEF ShowReceived, Answer
  <2> QED
    BY <2>1
<1>13. ASSUME NEW t \in Readers, ServerGone(t) PROVE One'
  BY <1>13 DEF ServerGone
<1>14. ASSUME NEW t \in Readers, Parse(t) PROVE One'
  <2>1. pc[t] = "parse" /\ (pc' = [pc EXCEPT ![t] = "open"] \/ pc' = [pc EXCEPT ![t] = "ended"])
    BY <1>14 DEF Parse
  <2>2. UNCHANGED <<isConnecting, mThread, sock, ui, mSocket, mPrintWriter>>
    BY <1>14 DEF Parse
  <2>3. mThread = t /\ mSocket = 0 /\ isConnecting
    BY <2>1
  <2>4. pc'[t] \in {"open", "ended"} /\ \A u \in Readers : u # t => pc'[u] = pc[u]
    BY <2>1
  <2> QED
    BY <2>2, <2>3, <2>4
<1>15. ASSUME NEW t \in Readers, Open(t) PROVE One'
  <2>1. mThread = t /\ mSocket = 0 /\ isConnecting
    BY <1>15 DEF Open
  <2> QED
    BY <1>15, <2>1 DEF Open
<1>16. ASSUME NEW t \in Readers, TakeInput(t) PROVE One'
  <2>1. pc[t] = "input" /\ mSocket = t /\ ~NoSocket
    <3>1. pc[t] = "input"
      BY <1>16 DEF TakeInput
    <3>2. isConnecting
      BY <3>1
    <3>3. mSocket = t /\ sock[t] \in {"open", "eof"} /\ t # 0
      BY <3>1, <3>2
    <3> QED
      BY <3>1, <3>3 DEF NoSocket
  <2>2. pc' = [pc EXCEPT ![t] = "writer"]
    BY <1>16, <2>1 DEF TakeInput
  <2>3. UNCHANGED <<isConnecting, mThread, mSocket, mPrintWriter, sock, ui>>
    BY <1>16 DEF TakeInput
  <2> QED
    BY <2>1, <2>2, <2>3
<1>17. ASSUME NEW t \in Readers, TakeWriter(t) PROVE One'
  <2>1. pc[t] = "writer" /\ mSocket = t /\ ~NoSocket
    <3>1. pc[t] = "writer"
      BY <1>17 DEF TakeWriter
    <3>2. isConnecting
      BY <3>1
    <3>3. mSocket = t /\ sock[t] \in {"open", "eof"} /\ t # 0
      BY <3>1, <3>2
    <3> QED
      BY <3>1, <3>3 DEF NoSocket
  <2>2. pc' = [pc EXCEPT ![t] = "send"] /\ mPrintWriter' = mSocket
    BY <1>17, <2>1 DEF TakeWriter
  <2>3. UNCHANGED <<isConnecting, mThread, mSocket, sock, ui>>
    BY <1>17 DEF TakeWriter
  <2> QED
    BY <2>1, <2>2, <2>3
<1>18. ASSUME NEW t \in Readers, Send(t) PROVE One'
  BY <1>18 DEF Send
<1>19. ASSUME NEW t \in Readers, Test(t) PROVE One'
  <2>1. pc[t] = "test" /\ (pc' = [pc EXCEPT ![t] = "read"] \/ pc' = [pc EXCEPT ![t] = "ended"])
    BY <1>19 DEF Test
  <2>2. UNCHANGED <<isConnecting, mThread, sock, ui, mSocket, mPrintWriter>>
    BY <1>19 DEF Test
  <2> HIDE DEF AppTypeOK, One
  <2> QED
    BY <2>1, <2>2, OneGoesOn
<1>20. ASSUME NEW t \in Readers, ReadNothing(t) PROVE One'
  <2>1. pc[t] = "read" /\ pc' = [pc EXCEPT ![t] = "test"]
    BY <1>20 DEF ReadNothing
  <2>2. UNCHANGED <<isConnecting, mThread, sock, ui, mSocket, mPrintWriter>>
    BY <1>20 DEF ReadNothing
  <2> HIDE DEF AppTypeOK, One
  <2> QED
    BY <2>1, <2>2, OneGoesOn
<1>21. ASSUME NEW t \in Readers, Fill(t) PROVE One'
  <2>1. pc[t] = "fill" /\ (pc' = [pc EXCEPT ![t] = "fill"] \/ pc' = [pc EXCEPT ![t] = "test"])
    BY <1>21 DEF Fill
  <2>2. UNCHANGED <<isConnecting, mThread, sock, ui, mSocket, mPrintWriter>>
    BY <1>21 DEF Fill
  <2> HIDE DEF AppTypeOK, One
  <2> QED
    BY <2>1, <2>2, OneGoesOn
<1>22. ASSUME NEW t \in Readers, NEW h \in 1..Halves, Read(t, h) PROVE One'
  <2>1. pc[t] = "read" /\ (pc' = [pc EXCEPT ![t] = "fill"] \/ pc' = [pc EXCEPT ![t] = "test"])
    BY <1>22 DEF Read
  <2>2. UNCHANGED <<isConnecting, mThread, sock, ui, mSocket, mPrintWriter>>
    BY <1>22 DEF Read
  <2> HIDE DEF AppTypeOK, One
  <2> QED
    BY <2>1, <2>2, OneGoesOn
<1>23. CASE UNCHANGED vars
  BY <1>23 DEF vars
<1> QED
  BY <1>1, <1>2, <1>3, <1>4, <1>5, <1>6, <1>7, <1>8, <1>9, <1>10, <1>11, <1>12, <1>13, <1>14, <1>15, <1>16,
     <1>17, <1>18, <1>19, <1>20, <1>21, <1>22, <1>23, AppCases

(* And what it knows of replies.                                             *)
LEMMA AnsweredStep ==
  ASSUME AppTypeOK, Begun, One, Answered, [Next]_vars, ~careless', ~careless, app # "crashed", ~Crash
  PROVE  Answered'
<1> USE AppAssumptions DEF AppTypeOK, Answered, Alive, Starting, Loop, Walking, fields, screen, net
<1>1. CASE Connect
  <2>1. mThread' = mThread + 1 /\ mThread' \in Readers
    BY <1>1 DEF Connect, Readers
  <2>2. pc[mThread'] = "none" /\ mThread' \notin posted \cup told
    BY <2>1 DEF Begun
  <2>3. pc' = [pc EXCEPT ![mThread'] = "parse"] /\ ui \notin Walking
    BY <1>1 DEF Connect, Idle
  <2>4. UNCHANGED <<mInps, posted, told, ui, asked, cut, left>>
    BY <1>1 DEF Connect
  <2> QED
    BY <2>1, <2>2, <2>3, <2>4
<1>2. ASSUME NEW b \in BOOLEAN, Leave(b) PROVE Answered'
  BY <1>2 DEF Leave
<1>3. CASE Destroy
  BY <1>3 DEF Destroy
<1>4. CASE ClickList
  BY <1>4 DEF ClickList, Careless
<1>5. CASE TestSocket \/ CloseSocket \/ ForgetSocket \/ DropWriter
  <2>1. UNCHANGED <<mInps, posted, told, pc, asked, cut, left>> /\ ui' \notin Walking
    BY <1>5 DEF TestSocket, CloseSocket, ForgetSocket, DropWriter, Left
  <2> QED
    BY <2>1
<1>6. CASE CloseWriter
  BY <1>6 DEF CloseWriter
<1>7. CASE ListSize \/ ListGet
  <2>1. UNCHANGED <<mInps, posted, told, pc, asked, cut, left>> /\ ui \in Walking
    BY <1>7 DEF ListSize, ListGet
  <2> QED
    BY <2>1
<1>8. ASSUME NEW t \in Readers, ShowReceived(t) PROVE Answered'
  BY <1>8 DEF ShowReceived, Idle
<1>9. ASSUME NEW t \in Readers, Answer(t) PROVE Answered'
  BY <1>9 DEF Answer
<1>10. ASSUME NEW t \in Readers, ServerGone(t) PROVE Answered'
  BY <1>10 DEF ServerGone
<1>11. ASSUME NEW t \in Readers, Parse(t) PROVE Answered'
  BY <1>11 DEF Parse
<1>12. ASSUME NEW t \in Readers, Open(t) PROVE Answered'
  BY <1>12 DEF Open
<1>13. ASSUME NEW t \in Readers, TakeInput(t) PROVE Answered'
  <2>1. pc[t] = "input" /\ t = mThread /\ mSocket = t
    BY <1>13 DEF TakeInput, One, Opened
  <2>2. \A u \in Readers : Alive(u) => u = t
    BY <2>1 DEF One
  <2>3. UNCHANGED <<posted, told, ui, asked, cut, left>>
    BY <1>13 DEF TakeInput
  <2>4. CASE pc' = [pc EXCEPT ![t] = "ended"]
    BY <2>1, <2>2, <2>3, <2>4
  <2>5. CASE pc' = [pc EXCEPT ![t] = "writer"] /\ mInps' = t
    BY <2>1, <2>2, <2>3, <2>5
  <2> QED
    BY <1>13, <2>1, <2>4, <2>5 DEF TakeInput
<1>14. ASSUME NEW t \in Readers, TakeWriter(t) PROVE Answered'
  BY <1>14 DEF TakeWriter
<1>15. ASSUME NEW t \in Readers, Send(t) PROVE Answered'
  BY <1>15 DEF Send
<1>16. ASSUME NEW t \in Readers, Test(t) PROVE Answered'
  BY <1>16 DEF Test
<1>17. ASSUME NEW t \in Readers, ReadNothing(t) PROVE Answered'
  BY <1>17 DEF ReadNothing
<1>18. ASSUME NEW t \in Readers, Fill(t) PROVE Answered'
  BY <1>18 DEF Fill
<1>19. ASSUME NEW t \in Readers, NEW h \in 1..Halves, Read(t, h) PROVE Answered'
  <2>1. pc[t] = "read" /\ mInps = t
    BY <1>19 DEF Read
  <2>2. left[t] \in Nat /\ h \in Nat /\ h >= 1 /\ h <= left[t] /\ left[t] <= Halves
    BY <1>19, <2>1 DEF Read
  <2>3. asked[t] = "answered"
    BY <2>2 DEF Begun
  <2>4. t \in posted \cup told => t \in cut
    BY <2>2
  <2>5. left' = [left EXCEPT ![t] = @ - h] /\ cut' = IF h < Halves THEN cut \cup {t} ELSE cut
    BY <1>19, <2>1 DEF Read
  <2>6. h < Halves \/ left'[t] = 0
    BY <2>2, <2>5
  <2>7. pc' = [pc EXCEPT ![t] = "fill"] \/ pc' = [pc EXCEPT ![t] = "test"]
    BY <1>19 DEF Read
  <2>8. UNCHANGED <<mInps, posted, told, ui, asked>>
    BY <1>19 DEF Read
  <2> QED
    BY <2>1, <2>3, <2>4, <2>5, <2>6, <2>7, <2>8
<1>20. CASE UNCHANGED vars
  BY <1>20 DEF vars
<1> QED
  BY <1>1, <1>2, <1>3, <1>4, <1>5, <1>6, <1>7, <1>8, <1>9, <1>10, <1>11, <1>12, <1>13, <1>14, <1>15, <1>16,
     <1>17, <1>18, <1>19, <1>20, AppCases

(* A list that is as it should be stays so.                                  *)
LEMMA GoodStays ==
  ASSUME NEW list, Good(list), cut \subseteq cut'
  PROVE  \/ list = <<>> \/ Whole(list)
         \/ \A i \in 1..Len(list) : list[i].of \in cut'
BY DEF Good

(* A list that has been filled is a reply, or a part of one that was cut.    *)
LEMMA FilledGood ==
  ASSUME AppTypeOK, NEW t \in Readers, Filling(t), todo[t] = <<>>
  PROVE  Good(servlist)
<1> USE AppAssumptions DEF AppTypeOK
<1>1. CASE t \in cut
  BY <1>1 DEF Filling, AllOf, Good
<1>2. CASE t \notin cut
  <2>1. Len(servlist) = Servers
    BY <1>2 DEF Filling
  <2>2. \A i \in 1..Servers : servlist[i] = [of |-> t, from |-> 2 * (i - 1)]
    <3> SUFFICES ASSUME NEW i \in 1..Servers PROVE servlist[i] = [of |-> t, from |-> 2 * (i - 1)]
      OBVIOUS
    <3>1. servlist[i] \in Structs
      BY <2>1
    <3>2. servlist[i].of = t /\ servlist[i].from = 2 * (i - 1)
      BY <1>2, <2>1 DEF Filling, AllOf
    <3> QED
      BY <3>1, <3>2 DEF Structs
  <2>3. servlist = [i \in 1..Servers |-> servlist[i]]
    BY <2>1
  <2>4. servlist = [i \in 1..Servers |-> [of |-> t, from |-> 2 * (i - 1)]]
    BY <2>2, <2>3
  <2> QED
    BY <2>4 DEF Whole, Good
<1> QED
  BY <1>1, <1>2

(* Adding one struct to the list.                                            *)
LEMMA FillingGoesOn ==
  ASSUME AppTypeOK, NEW t \in Readers, Filling(t), todo[t] # <<>>,
         servlist' = Append(servlist, Head(todo[t])), todo' = [todo EXCEPT ![t] = Tail(@)], cut' = cut
  PROVE  Filling(t)'
<1> USE DEF AppTypeOK
<1> DEFINE T == todo[t]
           n == Len(servlist)
<1>1. /\ T \in Seq(Structs) /\ T # <<>> /\ n \in Nat /\ Len(T) \in Nat /\ Len(T) >= 1
      /\ Len(Tail(T)) = Len(T) - 1 /\ Head(T) = T[1]
      /\ \A i \in 1..Len(Tail(T)) : Tail(T)[i] = T[i + 1]
  OBVIOUS
<1>2. /\ Len(servlist') = n + 1
      /\ \A i \in 1..n : servlist'[i] = servlist[i]
      /\ servlist'[n + 1] = T[1]
  BY <1>1
<1>3. todo'[t] = Tail(T)
  OBVIOUS
<1>4. AllOf(servlist, t) /\ AllOf(T, t)
  BY DEF Filling
<1>5. AllOf(servlist', t)
  <2> SUFFICES ASSUME NEW i \in 1..(n + 1) PROVE servlist'[i].of = t
    BY <1>2 DEF AllOf
  <2>1. CASE i \in 1..n
    BY <1>2, <1>4, <2>1 DEF AllOf
  <2>2. CASE i = n + 1
    <3>1. 1 \in 1..Len(T)
      BY <1>1
    <3> QED
      BY <1>2, <1>4, <2>2, <3>1 DEF AllOf
  <2> QED
    BY <1>1, <2>1, <2>2
<1>6. AllOf(todo'[t], t)
  <2> SUFFICES ASSUME NEW i \in 1..Len(Tail(T)) PROVE Tail(T)[i].of = t
    BY <1>3 DEF AllOf
  <2>1. i + 1 \in 1..Len(T)
    BY <1>1
  <2> QED
    BY <1>1, <1>4, <2>1 DEF AllOf
<1>7. ASSUME t \notin cut
      PROVE  /\ Len(servlist') + Len(todo'[t]) = Servers
             /\ \A i \in 1..Len(servlist') : servlist'[i].from = 2 * (i - 1)
             /\ \A i \in 1..Len(todo'[t]) : todo'[t][i].from = 2 * (Len(servlist') + i - 1)
  <2>1. /\ n + Len(T) = Servers
        /\ \A i \in 1..n : servlist[i].from = 2 * (i - 1)
        /\ \A i \in 1..Len(T) : T[i].from = 2 * (n + i - 1)
    BY <1>7 DEF Filling
  <2>2. Len(servlist') + Len(todo'[t]) = Servers
    BY <1>1, <1>2, <1>3, <2>1
  <2>3. ASSUME NEW i \in 1..Len(servlist') PROVE servlist'[i].from = 2 * (i - 1)
    <3>1. CASE i \in 1..n
      BY <1>2, <2>1, <3>1
    <3>2. CASE i = n + 1
      <4>1. 1 \in 1..Len(T)
        BY <1>1
      <4>2. T[1].from = 2 * (n + 1 - 1)
        BY <2>1, <4>1
      <4> QED
        BY <1>2, <3>2, <4>2
    <3> QED
      <4>1. i \in 1..n \/ i = n + 1
        <5>1. i \in 1..(n + 1)
          BY <1>2
        <5> HIDE DEF n
        <5> QED
          BY <1>1, <5>1
      <4> QED
        BY <3>1, <3>2, <4>1
  <2>4. ASSUME NEW i \in 1..Len(todo'[t]) PROVE todo'[t][i].from = 2 * (Len(servlist') + i - 1)
    <3>1. i \in 1..Len(Tail(T)) /\ i + 1 \in 1..Len(T)
      BY <1>1, <1>3
    <3>2. todo'[t][i] = T[i + 1]
      BY <1>1, <1>3, <3>1
    <3>3. T[i + 1].from = 2 * (n + (i + 1) - 1)
      BY <2>1, <3>1
    <3> QED
      BY <1>1, <1>2, <3>1, <3>2, <3>3
  <2> QED
    BY <2>2, <2>3, <2>4
<1> QED
  BY <1>5, <1>6, <1>7 DEF Filling

(* Beginning with a new list.                                                *)
LEMMA FillingBegins ==
  ASSUME AppTypeOK, Begun, NEW t \in Readers, NEW h \in 1..Halves, Read(t, h), mInps = t, h % 2 = 0
  PROVE  Filling(t)' /\ servlist' = <<>>
<1> USE AppAssumptions DEF AppTypeOK
<1> DEFINE s == h \div 2
           from == Halves - left[t]
<1>1. s \in Nat /\ 2 * s = h /\ left[t] \in 0..Halves /\ h <= left[t]
  BY ReadStructs
<1>2. servlist' = <<>> /\ todo'[t] = [i \in 1..s |-> [of |-> t, from |-> from + 2 * (i - 1)]]
  BY DEF Read
<1>3. Len(servlist') = 0 /\ Len(todo'[t]) = s
  BY <1>1, <1>2
<1>4. \A i \in 1..s : todo'[t][i].of = t /\ todo'[t][i].from = from + 2 * (i - 1)
  BY <1>2
<1>5. AllOf(servlist', t) /\ AllOf(todo'[t], t)
  <2>1. 1..0 = {}
    OBVIOUS
  <2> HIDE DEF AppTypeOK, from, s
  <2> QED
    BY <1>3, <1>4, <2>1 DEF AllOf
<1>6. ASSUME t \notin cut'
      PROVE  /\ s = Servers /\ from = 0
  <2>1. h = Halves
    BY <1>1, <1>6 DEF Read
  <2> QED
    BY <1>1, <2>1
<1>7. ASSUME t \notin cut'
      PROVE  /\ Len(servlist') + Len(todo'[t]) = Servers
             /\ \A i \in 1..Len(servlist') : servlist'[i].from = 2 * (i - 1)
             /\ \A i \in 1..Len(todo'[t]) : todo'[t][i].from = 2 * (Len(servlist') + i - 1)
  <2>1. ASSUME NEW i \in 1..s PROVE todo'[t][i].from = 2 * (0 + i - 1)
    <3>1. todo'[t][i].from = 0 + 2 * (i - 1)
      BY <1>4, <1>6, <1>7
    <3>2. i \in Int
      BY <1>1
    <3> QED
      BY <3>1, <3>2
  <2> QED
    BY <1>3, <1>6, <1>7, <2>1
<1> QED
  BY <1>2, <1>5, <1>7 DEF Filling

(* Steps that leave the lists alone.                                         *)
LEMMA ListsStay ==
  ASSUME Lists, UNCHANGED <<servlist, todo, cut, mThread, msg>>,
         posted' \cup told' = posted \cup told, told \subseteq told',
         \A t \in Readers : pc'[t] = "fill" <=> pc[t] = "fill",
         ui' \in Walking => ui' = ui
  PROVE  Lists'
<1>1. \A t \in Readers : Filling(t)' = Filling(t)
  BY DEF Filling, AllOf
<1>2. Good(servlist)' = Good(servlist)
  BY DEF Good
<1>3. mThread' \in posted' \cup told' => AllOf(servlist', mThread')
  BY DEF Lists
<1>4. ui' \in Walking => Prefix(msg', servlist') \/ (mThread' \in cut' \cap told' /\ AllOf(msg', mThread'))
  BY DEF Lists
<1>5. ui' = "get" /\ cut' = {} => Len(msg') < Len(servlist')
  BY DEF Lists, Walking
<1> QED
  BY <1>1, <1>2, <1>3, <1>4, <1>5 DEF Lists

(* Whoever looks at the lists looks at those of the reader, if it is there.  *)
LEMMA ListsStep ==
  ASSUME AppTypeOK, Begun, One, Answered, Lists, [Next]_vars, ~careless', ~careless, app # "crashed", ~Crash
  PROVE  Lists'
<1> USE AppAssumptions DEF AppTypeOK, fields, screen, net
<1>1. CASE Connect
  <2>1. mThread' = mThread + 1 /\ mThread' \in Readers
    BY <1>1 DEF Connect, Readers
  <2>2. mThread' \notin posted \cup told
    BY <2>1 DEF Begun, Answered
  <2>3. \A t \in Readers : pc[t] # "fill" /\ pc'[t] # "fill"
    BY <1>1 DEF Connect, Careless, Alive
  <2>4. Good(servlist)' = Good(servlist) /\ ui' \notin Walking
    BY <1>1 DEF Connect, Idle, Good, Walking
  <2>5. UNCHANGED <<posted, told>> /\ ui' # "get"
    BY <1>1 DEF Connect, Idle
  <2> QED
    BY <2>2, <2>3, <2>4, <2>5 DEF Lists
<1>2. ASSUME NEW b \in BOOLEAN, Leave(b) PROVE Lists'
  BY <1>2, ListsStay DEF Leave, Walking
<1>3. CASE Destroy
  BY <1>3, ListsStay DEF Destroy
<1>4. CASE ClickList
  <2>1. UNCHANGED <<servlist, todo, cut, mThread, posted, told, pc>> /\ ui' = "size" /\ msg' = <<>>
    BY <1>4 DEF ClickList
  <2>2. \A t \in Readers : Filling(t)' = Filling(t)
    BY <2>1 DEF Filling, AllOf
  <2>3. Good(servlist)' = Good(servlist) /\ AllOf(servlist, mThread)' = AllOf(servlist, mThread)
    BY <2>1 DEF Good, AllOf
  <2>4. Prefix(msg', servlist')
    <3>1. Len(<<>>) = 0 /\ Len(servlist) \in Nat
      OBVIOUS
    <3> QED
      BY <2>1, <3>1 DEF Prefix
  <2> QED
    BY <2>1, <2>2, <2>3, <2>4 DEF Lists
<1>5. CASE TestSocket \/ CloseSocket \/ ForgetSocket \/ DropWriter
  <2>1. /\ UNCHANGED <<servlist, todo, cut, mThread, msg, posted, told, pc>>
        /\ ui' \notin Walking
    BY <1>5 DEF TestSocket, CloseSocket, ForgetSocket, DropWriter, Left, Walking
  <2> QED
    BY <2>1, ListsStay
<1>6. CASE CloseWriter
  BY <1>6, ListsStay DEF CloseWriter, Walking
<1>7. CASE ListSize
  <2>1. UNCHANGED <<servlist, todo, cut, mThread, posted, told, pc>> /\ ui = "size"
    BY <1>7 DEF ListSize
  <2>2. CASE Len(msg) < Len(servlist)
    <3>1. ui' = "get" /\ msg' = msg
      BY <1>7, <2>2 DEF ListSize
    <3>2. \A t \in Readers : Filling(t)' = Filling(t)
      BY <2>1 DEF Filling, AllOf
    <3>3. Good(servlist)' = Good(servlist) /\ AllOf(servlist, mThread)' = AllOf(servlist, mThread)
      BY <2>1 DEF Good, AllOf
    <3>4. Prefix(msg, servlist) \/ (mThread \in cut \cap told /\ AllOf(msg, mThread))
      BY <2>1 DEF Lists, Walking
    <3>5. Prefix(msg', servlist') \/ (mThread' \in cut' \cap told' /\ AllOf(msg', mThread'))
      BY <2>1, <3>1, <3>4
    <3>6. Len(msg') < Len(servlist')
      BY <2>1, <2>2, <3>1
    <3> HIDE DEF AppTypeOK
    <3> QED
      BY <2>1, <3>1, <3>2, <3>3, <3>5, <3>6 DEF Lists
  <2>3. CASE ~(Len(msg) < Len(servlist))
    <3>1. ui' = "idle"
      BY <1>7, <2>3 DEF ListSize
    <3>2. \A t \in Readers : Filling(t)' = Filling(t)
      BY <2>1 DEF Filling, AllOf
    <3>3. Good(servlist)' = Good(servlist) /\ AllOf(servlist, mThread)' = AllOf(servlist, mThread)
      BY <2>1 DEF Good, AllOf
    <3> QED
      BY <2>1, <3>1, <3>2, <3>3 DEF Lists, Walking
  <2> QED
    BY <2>2, <2>3
<1>8. CASE ListGet
  <2>1. Len(msg) < Len(servlist)
    BY <1>8 DEF ListGet
  <2>2. UNCHANGED <<servlist, todo, cut, mThread, posted, told, pc>> /\ ui = "get" /\ ui' = "size"
    BY <1>8, <2>1 DEF ListGet
  <2>3. msg' = Append(msg, servlist[Len(msg) + 1])
    BY <1>8, <2>1 DEF ListGet
  <2>4. /\ Len(msg') = Len(msg) + 1 /\ Len(msg) \in Nat /\ Len(servlist) \in Nat
        /\ \A i \in 1..Len(msg) : msg'[i] = msg[i]
        /\ msg'[Len(msg) + 1] = servlist[Len(msg) + 1]
    BY <2>3
  <2>5. \A i \in 1..Len(msg') : i \in 1..Len(msg) \/ i = Len(msg) + 1
    BY <2>4
  <2>6. \A t \in Readers : Filling(t)' = Filling(t)
    BY <2>2 DEF Filling, AllOf
  <2>7. Good(servlist)' = Good(servlist) /\ AllOf(servlist, mThread)' = AllOf(servlist, mThread)
    BY <2>2 DEF Good, AllOf
  <2>8. CASE Prefix(msg, servlist)
    <3>1. Prefix(msg', servlist')
      BY <2>1, <2>2, <2>4, <2>5, <2>8 DEF Prefix
    <3> QED
      BY <2>2, <2>6, <2>7, <3>1 DEF Lists
  <2>9. CASE mThread \in cut \cap told /\ AllOf(msg, mThread)
    <3>1. AllOf(servlist, mThread)
      BY <2>9 DEF Lists
    <3>2. Len(msg) + 1 \in 1..Len(servlist)
      BY <2>1, <2>4
    <3>3. AllOf(msg', mThread)
      BY <2>4, <2>5, <2>9, <3>1, <3>2 DEF AllOf
    <3> QED
      BY <2>2, <2>6, <2>7, <2>9, <3>3 DEF Lists
  <2> QED
    BY <2>2, <2>8, <2>9 DEF Lists, Walking
<1>9. ASSUME NEW t \in Readers, ShowReceived(t) PROVE Lists'
  <2>1. UNCHANGED <<servlist, todo, cut, mThread, msg, pc, ui>>
    BY <1>9 DEF ShowReceived
  <2>2. posted' \cup told' = posted \cup told /\ told \subseteq told'
    BY <1>9 DEF ShowReceived
  <2> QED
    BY <2>1, <2>2, ListsStay
<1>10. ASSUME NEW t \in Readers, Answer(t) \/ ServerGone(t) PROVE Lists'
  <2>1. UNCHANGED <<servlist, todo, cut, mThread, msg, posted, told, pc, ui>>
    BY <1>10 DEF Answer, ServerGone
  <2> QED
    BY <2>1, ListsStay
<1>11. ASSUME NEW t \in Readers, Parse(t) \/ Open(t) \/ TakeInput(t) \/ TakeWriter(t) \/ Send(t) PROVE Lists'
  <2>1. UNCHANGED <<servlist, todo, cut, mThread, msg, posted, told, ui>>
    BY <1>11 DEF Parse, Open, TakeInput, TakeWriter, Send
  <2>2. pc[t] # "fill" /\ \E p : p # "fill" /\ pc' = [pc EXCEPT ![t] = p]
    <3>1. pc[t] # "fill"
      BY <1>11 DEF Parse, Open, TakeInput, TakeWriter, Send
    <3>2. \E p \in {"open", "ended", "input", "writer", "send", "test"} : pc' = [pc EXCEPT ![t] = p]
      BY <1>11 DEF Parse, Open, TakeInput, TakeWriter, Send
    <3> QED
      BY <3>1, <3>2
  <2>3. \A u \in Readers : pc'[u] = "fill" <=> pc[u] = "fill"
    BY <2>2
  <2> QED
    BY <2>1, <2>3, ListsStay
<1>12. ASSUME NEW t \in Readers, Test(t) \/ ReadNothing(t) PROVE Lists'
  <2>1. UNCHANGED <<servlist, todo, cut, mThread, msg, posted, told, ui>>
    BY <1>12 DEF Test, ReadNothing
  <2>2. \A u \in Readers : pc'[u] = "fill" <=> pc[u] = "fill"
    BY <1>12 DEF Test, ReadNothing
  <2> QED
    BY <2>1, <2>2, ListsStay
<1>13. ASSUME NEW t \in Readers, Fill(t) PROVE Lists'
  <2>1. pc[t] = "fill" /\ Filling(t) /\ mThread = t /\ \A u \in Readers : pc[u] = "fill" => u = t
    BY <1>13 DEF Fill, Lists, One, Alive
  <2>2. ui \in Walking => t \in told /\ t \in cut
    BY <2>1 DEF Answered, Alive
  <2>3. UNCHANGED <<mThread, told, ui, msg, cut>> /\ ui' = "get" => cut # {}
    BY <1>13, <2>2 DEF Fill, Walking
  <2>4. UNCHANGED <<mThread, told, ui, msg, cut>>
    BY <1>13 DEF Fill
  <2>5. ui \in Walking => AllOf(msg, t)
    <3>1. ASSUME Prefix(msg, servlist) PROVE AllOf(msg, t)
      BY <2>1, <3>1 DEF Prefix, Filling, AllOf
    <3> QED
      BY <2>1, <3>1 DEF Lists
  <2>6. CASE todo[t] # <<>>
    <3>1. /\ servlist' = Append(servlist, Head(todo[t])) /\ todo' = [todo EXCEPT ![t] = Tail(@)]
          /\ UNCHANGED <<posted, pc>>
      BY <1>13, <2>6 DEF Fill
    <3>2. Filling(t)'
      BY <2>1, <2>4, <2>6, <3>1, FillingGoesOn
    <3>3. AllOf(servlist', t)
      BY <3>2 DEF Filling
    <3> HIDE DEF AppTypeOK
    <3> QED
      BY <2>1, <2>2, <2>3, <2>4, <2>5, <3>1, <3>2, <3>3 DEF Lists
  <2>7. CASE todo[t] = <<>>
    <3>1. /\ posted' = posted \cup {t} /\ pc' = [pc EXCEPT ![t] = "test"]
          /\ UNCHANGED <<servlist, todo>>
      BY <1>13, <2>7 DEF Fill
    <3>2. Good(servlist)
      BY <2>1, <2>7, FilledGood
    <3>3. Good(servlist)' /\ AllOf(servlist, t)
      BY <2>1, <2>4, <3>1, <3>2 DEF Good, Filling
    <3>4. \A u \in Readers : pc'[u] # "fill"
      BY <2>1, <3>1
    <3> HIDE DEF AppTypeOK
    <3> QED
      BY <2>1, <2>2, <2>3, <2>4, <2>5, <3>1, <3>3, <3>4 DEF Lists
  <2> QED
    BY <2>6, <2>7
<1>14. ASSUME NEW t \in Readers, NEW h \in 1..Halves, Read(t, h) PROVE Lists'
  <2>1. pc[t] = "read" /\ mInps = t /\ mThread = t /\ \A u \in Readers : Alive(u) => u = t
    BY <1>14 DEF Read, Answered, One, Alive, Loop
  <2>2. \A u \in Readers : pc[u] # "fill"
    BY <2>1 DEF Alive
  <2>3. left[t] \in Nat /\ left[t] # 0
    BY <1>14, <2>1 DEF Read
  <2>4. UNCHANGED <<mThread, told, posted, ui, msg>> /\ cut \subseteq cut'
    BY <1>14 DEF Read
  <2>5. ui \in Walking => t \in told /\ t \in cut
    BY <2>1, <2>3 DEF Answered, Alive
  <2>6. ui \in Walking => AllOf(msg, t)
    <3>1. ASSUME Prefix(msg, servlist), t \in told PROVE AllOf(msg, t)
      <4>1. AllOf(servlist, t)
        BY <2>1, <3>1 DEF Lists
      <4>2. Len(msg) \in Nat /\ Len(servlist) \in Nat
        OBVIOUS
      <4>3. \A i \in 1..Len(msg) : i \in 1..Len(servlist) /\ msg[i] = servlist[i]
        BY <3>1, <4>2 DEF Prefix
      <4> HIDE DEF AppTypeOK
      <4> QED
        BY <4>1, <4>3 DEF AllOf
    <3> QED
      BY <2>1, <2>5, <3>1 DEF Lists
  <2>7. ui' = "get" => cut' # {}
    BY <2>4, <2>5 DEF Walking
  <2>8. CASE h % 2 = 0
    <3>1. Filling(t)' /\ servlist' = <<>> /\ pc' = [pc EXCEPT ![t] = "fill"]
      BY <1>14, <2>1, <2>8, FillingBegins DEF Read
    <3>2. pc'[t] = "fill" /\ \A u \in Readers : pc'[u] = "fill" => u = t
      BY <2>2, <3>1
    <3>3. AllOf(servlist', t)
      BY <3>1 DEF Filling
    <3> HIDE DEF AppTypeOK
    <3> QED
      BY <2>1, <2>4, <2>5, <2>6, <2>7, <3>1, <3>2, <3>3 DEF Lists
  <2>9. CASE h % 2 # 0
    <3>1. UNCHANGED servlist /\ \A u \in Readers : pc'[u] # "fill"
      BY <1>14, <2>2, <2>9 DEF Read
    <3>2. Good(servlist)'
      BY <2>2, <2>4, <3>1, GoodStays DEF Lists, Good
    <3>3. mThread' \in posted' \cup told' => AllOf(servlist', mThread')
      BY <2>4, <3>1 DEF Lists
    <3> HIDE DEF AppTypeOK
    <3> QED
      BY <2>1, <2>4, <2>5, <2>6, <2>7, <3>1, <3>2, <3>3 DEF Lists
  <2> QED
    BY <2>8, <2>9
<1>15. CASE UNCHANGED vars
  BY <1>15, ListsStay DEF vars
<1> QED
  BY <1>1, <1>2, <1>3, <1>4, <1>5, <1>6, <1>7, <1>8, <1>9, <1>10, <1>11, <1>12, <1>13, <1>14, <1>15, AppCases

(* What the user is shown, in calm states.                                   *)
LEMMA WholeListStep ==
  ASSUME AppTypeOK, Begun, Stopped, CalmInv, CalmWholeList, [Next]_vars
  PROVE  CalmWholeList'
<1> SUFFICES ASSUME ~careless', shown' # <<>>
             PROVE  Whole(shown') \/ \E i \in 1..Len(shown') : shown'[i].of \in cut'
  BY DEF CalmWholeList, Whole
<1>1. CASE UNCHANGED shown
  <2>1. ~careless /\ cut \subseteq cut'
    BY StepEffects DEF Effects
  <2> QED
    BY <1>1, <2>1 DEF CalmWholeList
<1>2. CASE ListSize /\ shown' = msg /\ shown' # shown
  <2> USE DEF AppTypeOK
  <2>1. /\ ui = "size" /\ app = "up" /\ ~(Len(msg) < Len(servlist)) /\ cut' = cut
        /\ ~careless /\ msg # <<>>
    BY <1>2 DEF ListSize, net, fields
  <2>2. One /\ Answered /\ Lists
    BY <2>1 DEF CalmInv
  <2>3. Len(msg) \in Nat /\ Len(msg) >= 1 /\ Len(servlist) \in Nat
    BY <2>1
  <2>4. CASE mThread \in cut \cap told /\ AllOf(msg, mThread)
    <3>1. 1 \in 1..Len(msg)
      BY <2>3
    <3> QED
      BY <1>2, <2>1, <2>4, <3>1 DEF AllOf
  <2>5. CASE Prefix(msg, servlist)
    <3>1. Len(msg) = Len(servlist) /\ \A i \in 1..Len(msg) : msg[i] = servlist[i]
      BY <2>1, <2>3, <2>5 DEF Prefix
    <3>2. msg = servlist
      <4>1. msg = [i \in 1..Len(msg) |-> msg[i]] /\ servlist = [i \in 1..Len(servlist) |-> servlist[i]]
        OBVIOUS
      <4> QED
        BY <3>1, <4>1
    <3>3. 1 \in 1..Len(msg)
      BY <2>3
    <3>4. CASE \A t \in Readers : pc[t] # "fill"
      <4>1. Good(msg)
        BY <2>2, <3>2, <3>4 DEF Lists
      <4> QED
        BY <1>2, <2>1, <3>3, <4>1 DEF Good
    <3>5. ASSUME NEW t \in Readers, pc[t] = "fill"
          PROVE  \E i \in 1..Len(shown') : shown'[i].of \in cut'
      <4>1. t \in told
        BY <2>1, <2>2, <3>5 DEF Answered, Walking, Alive
      <4>2. t \in cut
        BY <2>2, <3>5, <4>1 DEF Answered
      <4>3. AllOf(servlist, t)
        BY <2>2, <3>5 DEF Lists, Filling
      <4> QED
        BY <1>2, <2>1, <3>2, <3>3, <4>2, <4>3 DEF AllOf
    <3> QED
      BY <3>4, <3>5
  <2> QED
    BY <2>1, <2>2, <2>4, <2>5 DEF Lists, Walking
<1> QED
  BY <1>1, <1>2, StepEffects DEF Effects

(* The app does not crash under a calm user who was answered in one piece.   *)
LEMMA NoCrashStep ==
  ASSUME AppTypeOK, CalmInv, CalmNoCrash, [Next]_vars
  PROVE  CalmNoCrash'
<1> SUFFICES ASSUME ~careless', cut' = {}, app' = "crashed" PROVE FALSE
  BY DEF CalmNoCrash
<1>1. ~careless /\ cut = {} /\ app # "crashed" /\ Crash
  BY StepEffects DEF Effects, CalmNoCrash
<1>2. One /\ Lists
  BY <1>1 DEF CalmInv
<1>3. CASE CloseWriter
  <2>1. ui = "quiet" /\ mPrintWriter = 0
    BY <1>1, <1>3 DEF CloseWriter, Crash
  <2> QED
    BY <1>2, <2>1 DEF One
<1>4. CASE ListGet
  <2>1. ui = "get" /\ ~(Len(msg) < Len(servlist))
    BY <1>1, <1>4 DEF ListGet, Crash
  <2> QED
    BY <1>1, <1>2, <2>1 DEF Lists
<1> QED
  BY <1>1, <1>3, <1>4, StepEffects DEF Effects

(* A calm step leads from a calm state to a calm state.                      *)
LEMMA CalmStep ==
  ASSUME AppTypeOK, Begun, CalmInv, [Next]_vars
  PROVE  CalmInv'
<1> SUFFICES ASSUME ~careless', app' # "crashed" PROVE One' /\ Answered' /\ Lists'
  BY DEF CalmInv
<1>1. ~careless /\ app # "crashed" /\ ~Crash
  BY StepEffects DEF Effects, Crash
<1>2. One /\ Answered /\ Lists
  BY <1>1 DEF CalmInv
<1> QED
  BY <1>1, <1>2, OneStep, AnsweredStep, ListsStep

(* What every step preserves.                                                *)
AppInv == AppTypeOK /\ Begun /\ Stopped /\ CalmInv /\ CalmNoCrash /\ CalmWholeList

(* Nothing has happened at the start.                                        *)
LEMMA AppInit == Init => AppInv
<1> SUFFICES ASSUME Init PROVE AppInv
  OBVIOUS
<1> USE AppAssumptions DEF Init
<1>1. AppTypeOK
  <2>1. <<>> \in Seq(Structs) /\ 0 \in 0..Halves /\ 0 \in 0..MaxReaders
    OBVIOUS
  <2>2. todo \in [Readers -> Seq(Structs)] /\ left \in [Readers -> 0..Halves]
    BY <2>1
  <2> QED
    BY <2>1, <2>2 DEF AppTypeOK
<1>2. Begun /\ Stopped /\ CalmNoCrash /\ CalmWholeList
  BY DEF Begun, Stopped, CalmNoCrash, CalmWholeList, Loop
<1>3. One /\ Answered
  BY DEF One, Answered, Alive, Starting, Loop, Opened, Walking
<1>4. Lists
  BY DEF Lists, Good, Walking
<1> QED
  BY <1>1, <1>2, <1>3, <1>4 DEF AppInv, CalmInv

(* The invariant holds for any number of structs and of clicks on Connect,   *)
(* with any mishaps (MainActivity).                                          *)
THEOREM AppInvariant == Spec => []AppInv
<1>1. AppInv /\ [Next]_vars => AppInv'
  BY AppTypeStep, AppBegunStep, AppStoppedStep, CalmStep, NoCrashStep, WholeListStep DEF AppInv
<1> QED
  BY <1>1, AppInit, PTL DEF Spec

(* Every field of the activity and every thread is where AppTypeOK says.     *)
THEOREM AppTypes == Spec => []AppTypeOK
<1>1. AppInv => AppTypeOK
  BY DEF AppInv
<1> QED
  BY <1>1, AppInvariant, PTL

(* Nothing the UI thread uses disappears under it while the user waits for   *)
(* what was begun and replies are read at once (onClick of both buttons).    *)
THEOREM AppCalmNoCrash == Spec => []CalmNoCrash
<1>1. AppInv => CalmNoCrash
  BY DEF AppInv
<1> QED
  BY <1>1, AppInvariant, PTL

(* A user who waits has one connection at a time and none after Disconnect   *)
(* or onDestroy (onClick of the connect button, onDestroy).                  *)
THEOREM AppCalmOneSocket == Spec => []CalmOneSocket
<1>1. AppInv => CalmOneSocket
  <2> SUFFICES ASSUME AppInv, ~careless
               PROVE  /\ Cardinality({s \in Readers : sock[s] \in {"open", "eof"}}) <= 1
                      /\ ~isConnecting /\ ui = "idle" => \A s \in Readers : sock[s] \notin {"open", "eof"}
    BY DEF CalmOneSocket
  <2> DEFINE Opens == {s \in Readers : sock[s] \in {"open", "eof"}}
  <2>1. Opens \subseteq {mSocket}
    BY DEF AppInv, CalmInv, One, Stopped
  <2>2. Cardinality(Opens) <= 1
    <3>1. Opens = {} \/ Opens = {mSocket}
      BY <2>1
    <3>2. Cardinality({}) = 0 /\ Cardinality({mSocket}) = 1
      BY FS_EmptySet, FS_Singleton
    <3> HIDE DEF Opens
    <3> QED
      BY <3>1, <3>2
  <2>3. ~isConnecting /\ ui = "idle" => \A s \in Readers : sock[s] \notin {"open", "eof"}
    BY AppAssumptions DEF AppInv, CalmInv, One, Stopped
  <2> QED
    BY <2>2, <2>3
<1> QED
  BY <1>1, AppInvariant, PTL

(* What a user who waits is shown is one whole reply, unless a reply was     *)
(* read in pieces (mRunnable, btn_gtlist).                                   *)
THEOREM AppCalmWholeList == Spec => []CalmWholeList
<1>1. AppInv => CalmWholeList
  BY DEF AppInv
<1> QED
  BY <1>1, AppInvariant, PTL

-----------------------------------------------------------------------------
(* The numbers.                                                              *)

(* The widths in bits.                                                       *)
LEMMA Widths ==
  /\ ByteBits \in Nat /\ ByteBits >= 1
  /\ IntBits = 4 * ByteBits /\ LongBits = 8 * ByteBits
BY ByteAssumption DEF IntBits, LongBits

(* Every bit of a long is in one of its eight bytes, every bit of an int in  *)
(* one of its four.                                                          *)
LEMMA BitPlace ==
  /\ \A k \in 0..(LongBits - 1) : \E n \in 0..7 : k - ByteBits * n \in 0..(ByteBits - 1)
  /\ \A k \in 0..(IntBits - 1) : \E n \in 0..3 : k - ByteBits * n \in 0..(ByteBits - 1)
<1> DEFINE B == ByteBits
<1> USE Widths
<1>1. ASSUME NEW k \in 0..(LongBits - 1) PROVE \E n \in 0..7 : k - B * n \in 0..(B - 1)
  <2>1. CASE k < B
    <3>1. k - B * 0 \in 0..(B - 1)
      BY <2>1
    <3> QED
      BY <3>1
  <2>2. CASE B <= k /\ k < 2 * B
    <3>1. k - B * 1 \in 0..(B - 1)
      BY <2>2
    <3> QED
      BY <3>1
  <2>3. CASE 2 * B <= k /\ k < 3 * B
    <3>1. k - B * 2 \in 0..(B - 1)
      BY <2>3
    <3> QED
      BY <3>1
  <2>4. CASE 3 * B <= k /\ k < 4 * B
    <3>1. k - B * 3 \in 0..(B - 1)
      BY <2>4
    <3> QED
      BY <3>1
  <2>5. CASE 4 * B <= k /\ k < 5 * B
    <3>1. k - B * 4 \in 0..(B - 1)
      BY <2>5
    <3> QED
      BY <3>1
  <2>6. CASE 5 * B <= k /\ k < 6 * B
    <3>1. k - B * 5 \in 0..(B - 1)
      BY <2>6
    <3> QED
      BY <3>1
  <2>7. CASE 6 * B <= k /\ k < 7 * B
    <3>1. k - B * 6 \in 0..(B - 1)
      BY <2>7
    <3> QED
      BY <3>1
  <2>8. CASE 7 * B <= k
    <3>1. k - B * 7 \in 0..(B - 1)
      BY <2>8
    <3> QED
      BY <3>1
  <2> QED
    BY <2>1, <2>2, <2>3, <2>4, <2>5, <2>6, <2>7, <2>8
<1>2. ASSUME NEW k \in 0..(IntBits - 1) PROVE \E n \in 0..3 : k - B * n \in 0..(B - 1)
  <2>1. k \in 0..(LongBits - 1)
    OBVIOUS
  <2>2. PICK n \in 0..7 : k - B * n \in 0..(B - 1)
    BY <1>1, <2>1
  <2>3. n \notin {4, 5, 6, 7}
    BY <2>2
  <2> QED
    BY <2>2, <2>3
<1> QED
  BY <1>1, <1>2

(* A bit of a byte in its place, and the other way round.                    *)
LEMMA BitOfByte ==
  ASSUME NEW v, NEW n \in 0..7, NEW w \in Nat, NEW k \in Int
  PROVE  /\ k \in Shift(ByteAt(v, n), n, w) <=> k \in 0..(w - 1) /\ k \in v /\ k - ByteBits * n \in 0..(ByteBits - 1)
         /\ ByteBits - 1 \in ByteAt(v, n) <=> ByteBits * n + (ByteBits - 1) \in v
<1>1. ByteBits * n \in Int /\ ByteBits * n + (k - ByteBits * n) = k
  BY Widths
<1>2. ByteBits - 1 \in 0..(ByteBits - 1)
  BY Widths
<1> QED
  BY <1>1, <1>2 DEF Shift, ByteAt

(* The bytes of doubles are put together as they were.                       *)
LEMMA DoublesAlwaysRight == \A v \in Longs : ToDouble(Bytes(v)) = v
<1> SUFFICES ASSUME NEW v \in Longs PROVE ToDouble(Bytes(v)) = v
  OBVIOUS
<1>1. \A k \in v : k \in Int /\ k \in 0..(LongBits - 1)
  BY Widths DEF Longs
<1>2. \A n \in 0..7 : Bytes(v)[n] = ByteAt(v, n)
  BY DEF Bytes
<1>3. ASSUME NEW k \in ToDouble(Bytes(v)) PROVE k \in v
  <2>1. PICK n \in 0..7 : k \in Shift(ByteAt(v, n), n, LongBits)
    BY <1>2 DEF ToDouble
  <2>2. k \in Int /\ LongBits \in Nat
    BY <2>1, Widths DEF Shift
  <2> QED
    BY <2>1, <2>2, BitOfByte
<1>4. ASSUME NEW k \in v PROVE k \in ToDouble(Bytes(v))
  <2>1. PICK n \in 0..7 : k - ByteBits * n \in 0..(ByteBits - 1)
    BY <1>1, BitPlace
  <2>2. LongBits \in Nat
    BY Widths
  <2>3. k \in Shift(ByteAt(v, n), n, LongBits)
    BY <1>1, <2>1, <2>2, BitOfByte
  <2> QED
    BY <1>2, <2>3 DEF ToDouble
<1> QED
  BY <1>3, <1>4

(* The bytes of an int without a sign of their own are put together right.   *)
LEMMA IntRight ==
  ASSUME NEW v \in Ints, \A n \in 0..3 : ByteBits * n + (ByteBits - 1) \notin v
  PROVE  ToInt(Bytes(v)) = v
<1>1. \A k \in v : k \in Int /\ k \in 0..(IntBits - 1)
  BY Widths DEF Ints
<1>2. \A n \in 0..3 : Promote(Bytes(v)[n], ByteBits, IntBits) = ByteAt(v, n)
  <2> SUFFICES ASSUME NEW n \in 0..3 PROVE Promote(Bytes(v)[n], ByteBits, IntBits) = ByteAt(v, n)
    OBVIOUS
  <2>1. n \in 0..7 /\ 0 \in Nat /\ 0 \in Int
    OBVIOUS
  <2>2. ByteBits - 1 \notin ByteAt(v, n)
    BY <2>1, BitOfByte
  <2> QED
    BY <2>1, <2>2 DEF Promote, Bytes
<1>3. ASSUME NEW k \in ToInt(Bytes(v)) PROVE k \in v
  <2>1. PICK n \in 0..3 : k \in Shift(ByteAt(v, n), n, IntBits)
    BY <1>2 DEF ToInt
  <2>2. n \in 0..7 /\ k \in Int /\ IntBits \in Nat
    BY <2>1, Widths DEF Shift
  <2> QED
    BY <2>1, <2>2, BitOfByte
<1>4. ASSUME NEW k \in v PROVE k \in ToInt(Bytes(v))
  <2>1. PICK n \in 0..3 : k - ByteBits * n \in 0..(ByteBits - 1)
    BY <1>1, BitPlace
  <2>2. n \in 0..7 /\ IntBits \in Nat
    BY Widths
  <2>3. k \in Shift(ByteAt(v, n), n, IntBits)
    BY <1>1, <2>1, <2>2, BitOfByte
  <2> QED
    BY <1>2, <2>3 DEF ToInt
<1> QED
  BY <1>3, <1>4

(* An int with such a byte below its highest becomes negative.               *)
LEMMA IntNegative ==
  ASSUME NEW v \in Ints, NEW n \in 0..2, ByteBits * n + (ByteBits - 1) \in v
  PROVE  IntBits - 1 \in ToInt(Bytes(v))
<1>1. n \in 0..7 /\ 0 \in Nat /\ 0 \in Int /\ IntBits - 1 \in Int
  BY Widths
<1>2. ByteBits - 1 \in Bytes(v)[n]
  BY <1>1, BitOfByte DEF Bytes
<1>3. (IntBits - 1) - ByteBits * n \in ByteBits..(IntBits - 1)
  BY Widths
<1>4. (IntBits - 1) - ByteBits * n \in Promote(Bytes(v)[n], ByteBits, IntBits)
  BY <1>2, <1>3, Widths DEF Promote
<1>5. IntBits - 1 \in Shift(Promote(Bytes(v)[n], ByteBits, IntBits), n, IntBits)
  BY <1>4, Widths DEF Shift
<1> QED
  BY <1>5 DEF ToInt

(* The low half of a long, which is put together as an int.                  *)
LowHalf(v) == UNION {Shift(Promote(Bytes(v)[n], ByteBits, IntBits), n, IntBits) : n \in 0..2}

(* A long without such bytes is put together right.                          *)
LEMMA LongRight ==
  ASSUME NEW v \in Longs, \A n \in 0..7 : ByteBits * n + (ByteBits - 1) \notin v
  PROVE  ToLong(Bytes(v)) = v
<1>1. \A k \in v : k \in Int /\ k \in 0..(LongBits - 1)
  BY Widths DEF Longs
<1>2. \A n \in 0..7 : /\ Promote(Bytes(v)[n], ByteBits, IntBits) = ByteAt(v, n)
                      /\ Promote(Bytes(v)[n], ByteBits, LongBits) = ByteAt(v, n)
  <2> SUFFICES ASSUME NEW n \in 0..7
               PROVE  /\ Promote(Bytes(v)[n], ByteBits, IntBits) = ByteAt(v, n)
                      /\ Promote(Bytes(v)[n], ByteBits, LongBits) = ByteAt(v, n)
    OBVIOUS
  <2>1. ByteBits - 1 \notin ByteAt(v, n)
    <3>1. 0 \in Nat /\ 0 \in Int
      OBVIOUS
    <3> QED
      BY <3>1, BitOfByte
  <2> QED
    BY <2>1 DEF Promote, Bytes
<1>3. LowHalf(v) = UNION {Shift(ByteAt(v, n), n, IntBits) : n \in 0..2}
  BY <1>2 DEF LowHalf
<1>4. IntBits \in Nat /\ LongBits \in Nat /\ IntBits - 1 \in Int
  BY Widths
<1>5. Promote(LowHalf(v), IntBits, LongBits) = LowHalf(v)
  <2>1. IntBits - 1 \notin LowHalf(v)
    <3> SUFFICES ASSUME NEW n \in 0..2, IntBits - 1 \in Shift(ByteAt(v, n), n, IntBits) PROVE FALSE
      BY <1>3
    <3>1. (IntBits - 1) - ByteBits * n \in 0..(ByteBits - 1)
      BY <1>4, BitOfByte
    <3> QED
      BY <3>1, Widths
  <2> QED
    BY <2>1 DEF Promote
<1>6. ToLong(Bytes(v)) = LowHalf(v) \cup UNION {Shift(ByteAt(v, n), n, LongBits) : n \in 3..7}
  <2>1. ToLong(Bytes(v)) = Promote(LowHalf(v), IntBits, LongBits)
                             \cup UNION {Shift(Promote(Bytes(v)[n], ByteBits, LongBits), n, LongBits) : n \in 3..7}
    BY DEF ToLong, LowHalf
  <2>2. \A n \in 3..7 : Promote(Bytes(v)[n], ByteBits, LongBits) = ByteAt(v, n)
    BY <1>2
  <2>3. UNION {Shift(Promote(Bytes(v)[n], ByteBits, LongBits), n, LongBits) : n \in 3..7}
          = UNION {Shift(ByteAt(v, n), n, LongBits) : n \in 3..7}
    BY <2>2
  <2> QED
    BY <1>5, <2>1, <2>3
<1>7. ASSUME NEW k \in ToLong(Bytes(v)) PROVE k \in v
  <2>1. PICK n \in 0..7 : k \in Shift(ByteAt(v, n), n, IntBits) \/ k \in Shift(ByteAt(v, n), n, LongBits)
    BY <1>3, <1>6
  <2>2. k \in Int
    BY <2>1, <1>4 DEF Shift
  <2> QED
    BY <1>4, <2>1, <2>2, BitOfByte
<1>8. ASSUME NEW k \in v PROVE k \in ToLong(Bytes(v))
  <2>1. PICK n \in 0..7 : k - ByteBits * n \in 0..(ByteBits - 1)
    BY <1>1, BitPlace
  <2>2. CASE n \in 0..2
    <3>1. k \in 0..(IntBits - 1)
      BY <1>1, <2>1, <2>2, Widths
    <3>2. k \in Shift(ByteAt(v, n), n, IntBits)
      BY <1>1, <1>4, <2>1, <3>1, BitOfByte
    <3> QED
      BY <1>3, <1>6, <2>2, <3>2
  <2>3. CASE n \in 3..7
    <3>1. k \in Shift(ByteAt(v, n), n, LongBits)
      BY <1>1, <1>4, <2>1, BitOfByte
    <3> QED
      BY <1>6, <2>3, <3>1
  <2> QED
    BY <2>2, <2>3
<1> QED
  BY <1>7, <1>8

(* And of a long whose lower bytes have a sign.                              *)
LEMMA LongNegative ==
  ASSUME NEW v \in Longs, NEW n \in 0..6, ByteBits * n + (ByteBits - 1) \in v
  PROVE  LongBits - 1 \in ToLong(Bytes(v))
<1>1. ByteBits - 1 \in Bytes(v)[n]
  <2>1. n \in 0..7 /\ 0 \in Nat /\ 0 \in Int
    OBVIOUS
  <2> QED
    BY <2>1, BitOfByte DEF Bytes
<1>2. CASE n \in 0..2
  <2>1. (IntBits - 1) - ByteBits * n \in ByteBits..(IntBits - 1)
    BY <1>2, Widths
  <2>2. (IntBits - 1) - ByteBits * n \in Promote(Bytes(v)[n], ByteBits, IntBits)
    BY <1>1, <2>1, Widths DEF Promote
  <2>3. IntBits - 1 \in Shift(Promote(Bytes(v)[n], ByteBits, IntBits), n, IntBits)
    BY <2>2, Widths DEF Shift
  <2>4. IntBits - 1 \in LowHalf(v)
    BY <1>2, <2>3 DEF LowHalf
  <2>5. LongBits - 1 \in Promote(LowHalf(v), IntBits, LongBits)
    BY <2>4, Widths DEF Promote
  <2> QED
    BY <2>5 DEF ToLong, LowHalf
<1>3. CASE n \in 3..6
  <2>1. (LongBits - 1) - ByteBits * n \in ByteBits..(LongBits - 1)
    BY <1>3, Widths
  <2>2. (LongBits - 1) - ByteBits * n \in Promote(Bytes(v)[n], ByteBits, LongBits)
    BY <1>1, <2>1, Widths DEF Promote
  <2>3. LongBits - 1 \in Shift(Promote(Bytes(v)[n], ByteBits, LongBits), n, LongBits)
    BY <2>2, Widths DEF Shift
  <2> QED
    BY <1>3, <2>3 DEF ToLong
<1> QED
  BY <1>2, <1>3

(* The app shows a number that is not negative as it is or as a negative     *)
(* one (SerMod's constructor).                                               *)
LEMMA NumbersNeverQuietlyWrong == NeverQuietlyWrong
<1>1. ASSUME NEW v \in Ints, IntBits - 1 \notin v
      PROVE  ToInt(Bytes(v)) = v \/ IntBits - 1 \in ToInt(Bytes(v))
  <2>1. ByteBits * 3 + (ByteBits - 1) = IntBits - 1
    BY Widths
  <2>2. CASE \E n \in 0..2 : ByteBits * n + (ByteBits - 1) \in v
    BY <2>2, IntNegative
  <2>3. CASE \A n \in 0..2 : ByteBits * n + (ByteBits - 1) \notin v
    <3>1. \A n \in 0..3 : n \in 0..2 \/ n = 3
      OBVIOUS
    <3>2. \A n \in 0..3 : ByteBits * n + (ByteBits - 1) \notin v
      BY <1>1, <2>1, <2>3, <3>1
    <3> QED
      BY <3>2, IntRight
  <2> QED
    BY <2>2, <2>3
<1>2. ASSUME NEW v \in Longs, LongBits - 1 \notin v
      PROVE  ToLong(Bytes(v)) = v \/ LongBits - 1 \in ToLong(Bytes(v))
  <2>1. ByteBits * 7 + (ByteBits - 1) = LongBits - 1
    BY Widths
  <2>2. CASE \E n \in 0..6 : ByteBits * n + (ByteBits - 1) \in v
    BY <2>2, LongNegative
  <2>3. CASE \A n \in 0..6 : ByteBits * n + (ByteBits - 1) \notin v
    <3>1. \A n \in 0..7 : n \in 0..6 \/ n = 7
      OBVIOUS
    <3>2. \A n \in 0..7 : ByteBits * n + (ByteBits - 1) \notin v
      BY <1>2, <2>1, <2>3, <3>1
    <3> QED
      BY <3>2, LongRight
  <2> QED
    BY <2>2, <2>3
<1> QED
  BY <1>1, <1>2, DoublesAlwaysRight DEF NeverQuietlyWrong

(* In every list the user ever sees doubles are as they were on the server,  *)
(* and a whole number is, too, or is negative: for bytes of any width        *)
(* (SerMod, btn_gtlist).                                                     *)
THEOREM ListsNotMistaken == Spec => []NumbersNotMistaken
<1>1. NumbersNotMistaken
  BY NumbersNeverQuietlyWrong DEF NumbersNotMistaken
<1> QED
  BY <1>1, PTL
=============================================================================
