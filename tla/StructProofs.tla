---------------------------- MODULE StructProofs ----------------------------
(* Facts about the operators of ServerPerform, and about sequences of        *)
(* messages, that the other proofs rest on.                                  *)
EXTENDS ServerPerform, Sequences, TLAPS

(* Zeroed memory, a header and a finished measurement are structs, and the   *)
(* first two are told apart by their first field.                            *)
LEMMA StructFacts ==
  /\ Blank \in Disk
  /\ ZeroStruct \in Struct
  /\ TextStruct \in Struct
  /\ ~IsHeader(ZeroStruct)
  /\ IsHeader(TextStruct)
BY ServersAssumption, MaxTakenAssumption
   DEF Blank, Disk, ZeroStruct, TextStruct, Struct, Servers, IsHeader

(* Storing one field of a struct over another leaves a struct whose fields   *)
(* each come from one of the two (Patch, for the unlocked stores).           *)
LEMMA PatchFacts ==
  ASSUME NEW old \in Struct, NEW new \in Struct, NEW f \in Fields
  PROVE  /\ Patch(old, new, f) \in Struct
         /\ Patch(old, new, f).disk = IF f = "disk" THEN new.disk ELSE old.disk
         /\ Patch(old, new, f).idx = IF f = "disk" THEN old.idx ELSE new.idx
BY DEF Patch, Struct, Fields

(* The same, for use where the structs are given by longer expressions.      *)
LEMMA PatchMixes ==
  \A old, new \in Struct, f \in Fields :
    /\ Patch(old, new, f).disk = IF f = "disk" THEN new.disk ELSE old.disk
    /\ Patch(old, new, f).idx = IF f = "disk" THEN old.idx ELSE new.idx
BY PatchFacts

(* A stamp that is bumped stays within its bound and does not decrease.      *)
LEMMA BumpFacts ==
  ASSUME NEW n \in 0..MaxTaken
  PROVE  Bump(n) \in 1..MaxTaken /\ Bump(n) >= n
BY MaxTakenAssumption DEF Bump

(* Dropping the first k segments keeps the others, in order.                 *)
LEMMA DropFacts ==
  ASSUME NEW S, NEW q \in Seq(S), NEW k \in 1..Len(q)
  PROVE  /\ SubSeq(q, k + 1, Len(q)) \in Seq(S)
         /\ Len(SubSeq(q, k + 1, Len(q))) = Len(q) - k
         /\ \A j \in 1..(Len(q) - k) : SubSeq(q, k + 1, Len(q))[j] = q[k + j]
OBVIOUS

(* NotAfter is a preorder in which the zeroed struct comes first.            *)
LEMMA NotAfterFacts ==
  /\ \A a \in Struct : NotAfter(a, a) /\ NotAfter(ZeroStruct, a)
  /\ \A a, b, c \in Struct : NotAfter(a, b) /\ NotAfter(b, c) => NotAfter(a, c)
<1>1. \A a \in Struct : a.disk.n \in Nat
  BY MaxTakenAssumption DEF Struct, Disk
<1>2. ZeroStruct.disk.n = 0 /\ ZeroStruct.idx = Master
  BY DEF ZeroStruct, Blank
<1> QED
  BY <1>1, <1>2 DEF NotAfter
=============================================================================
