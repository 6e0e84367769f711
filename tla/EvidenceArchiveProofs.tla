------------------------ MODULE EvidenceArchiveProofs ------------------------
(***************************************************************************)
(* What holds of EvidenceArchive for every set of processes, documents and *)
(* policies, every limit of receipts, and whatever is cut short, altered   *)
(* or killed.                                                              *)
(*                                                                         *)
(* Two facts carry the proofs.  Since a directory is made by a mkdir that  *)
(* must not find it, one process at most gets inside the archive (Opened), *)
(* so that what it found, or did not find, is still so when it writes.     *)
(* What a call knows at each of its steps is an invariant of its own       *)
(* (Knows), and what was returned once stays in the archive (Kept).        *)
(***************************************************************************)
EXTENDS EvidenceArchive, TLAPS

Inside == Free \cup Within

(* A process that is inside has made all the directories, and among those  *)
(* that have made as many as there are, there is only one.                 *)
Opened ==
  /\ \A p \in Procs : /\ call[p].made <= dirs
                      /\ call[p].pc \in Inside => call[p].made = Directories
                      /\ call[p].pc \in {"start", "opening"} => call[p].made < Directories
  /\ \A p, q \in Procs :
       call[p].made = dirs /\ call[q].made = dirs /\ dirs > 0 => p = q

(* What a call relies on at each step. *)
Knows ==
  \A p \in Procs :
    /\ call[p].pc \in Within => call[p].subject \in Subject
    /\ call[p].pc \in {"object", "receipt"} =>
         \A r \in receipts : ~SameRequest(r.subject, call[p].subject)
    /\ call[p].pc \in {"receipt", "verify"} =>
         objects[call[p].subject.doc] \in {"whole", "altered"}

(* Nothing returned is ever removed. *)
Kept == \A s \in returned : \E r \in receipts : r.subject = s

ArchiveInv == TypeOK /\ Opened /\ Knows /\ ReceiptAfterObject /\ OneReceiptPerRequest
              /\ Kept

-----------------------------------------------------------------------------
LEMMA OneInside ==
  ASSUME TypeOK, Opened, NEW p \in Procs, NEW q \in Procs,
         call[p].pc \in Inside, call[q].pc \in Inside
  PROVE  p = q
<1>1. dirs \in 0 .. Directories /\ call[p].made = Directories /\ call[q].made = Directories
      /\ call[p].made <= dirs
  BY DEF TypeOK, Opened
<1>2. dirs = Directories /\ dirs > 0
  BY <1>1 DEF Directories
<1> QED BY <1>1, <1>2 DEF Opened

LEMMA ArchiveInvInit == Init => ArchiveInv
BY BoundsAssumption
   DEF Init, ArchiveInv, TypeOK, Opened, Knows, ReceiptAfterObject, OneReceiptPerRequest,
       Call, Pcs, Free, Within, Inside, Directories, Kept
-----------------------------------------------------------------------------
(* Steps of one call *)

(* Only the call of p changes, and keeps its type. *)
CallOf(p) == /\ call' \in [Procs -> Call]
             /\ \A q \in Procs \ {p} : call'[q] = call[q]

LEMMA GotoShape ==
  ASSUME TypeOK, NEW p \in Procs, NEW pc \in Pcs, Goto(p, pc)
  PROVE  /\ CallOf(p) /\ call'[p].pc = pc /\ call'[p].made = call[p].made
         /\ call'[p].subject = call[p].subject
<1>1. call[p] \in Call /\ call \in [Procs -> Call]
  BY DEF TypeOK
<1>2. [call[p] EXCEPT !.pc = pc] \in Call
  BY <1>1 DEF Call
<1>3. call' = [call EXCEPT ![p] = [call[p] EXCEPT !.pc = pc]]
  BY DEF Goto
<1> QED BY <1>1, <1>2, <1>3 DEF CallOf, Call

LEMMA ThrowShape ==
  ASSUME TypeOK, NEW p \in Procs, Throw(p)
  PROVE  /\ CallOf(p) /\ call'[p].pc = "thrown" /\ call'[p].made = call[p].made
         /\ UNCHANGED returned
<1>1. call[p] \in Call /\ call \in [Procs -> Call]
  BY DEF TypeOK
<1>2. [call[p] EXCEPT !.pc = "thrown", !.subject = None] \in Call
  BY <1>1 DEF Call, Pcs, Free
<1>3. call' = [call EXCEPT ![p] = [call[p] EXCEPT !.pc = "thrown", !.subject = None]]
  BY DEF Throw
<1> QED BY <1>1, <1>2, <1>3 DEF CallOf, Call, Throw

LEMMA ReturnShape ==
  ASSUME TypeOK, NEW p \in Procs, NEW r \in receipts, Return(p, r)
  PROVE  /\ CallOf(p) /\ call'[p].pc = "returned" /\ call'[p].made = call[p].made
         /\ call'[p].subject = r.subject /\ returned' = returned \cup {r.subject}
         /\ r.subject \in Subject
<1>1. /\ call[p] \in Call /\ call \in [Procs -> Call]
      /\ r.subject \in Subject
  BY DEF TypeOK, Receipt
<1>2. [call[p] EXCEPT !.pc = "returned", !.subject = r.subject] \in Call
  BY <1>1 DEF Call, Pcs, Free
<1>3. call' = [call EXCEPT ![p] = [call[p] EXCEPT !.pc = "returned", !.subject = r.subject]]
  BY DEF Return
<1> QED BY <1>1, <1>2, <1>3 DEF CallOf, Call, Return

(* A step of p that leaves its directories alone, and is inside only if it *)
(* was, keeps Opened.                                                      *)
LEMMA OpenedKept ==
  ASSUME TypeOK, Opened, NEW p \in Procs, CallOf(p), UNCHANGED dirs,
         call'[p].made = call[p].made,
         call'[p].pc \in Inside => call[p].pc \in Inside,
         call'[p].pc \in {"start", "opening"} => call'[p].made < Directories
  PROVE  Opened'
BY DEF Opened, CallOf

(* A call that leaves, dies or reaches a step that relies on no more.      *)
LEMMA KnowsKept ==
  ASSUME Knows, NEW p \in Procs, CallOf(p), UNCHANGED receipts,
         \A q \in Procs \ {p} :
           call[q].pc \in {"receipt", "verify"} =>
             objects'[call[q].subject.doc] \in {"whole", "altered"},
         call'[p].pc \in Within =>
           /\ call'[p].subject \in Subject
           /\ call'[p].pc \in {"object", "receipt"} =>
                \A r \in receipts : ~SameRequest(r.subject, call'[p].subject)
           /\ call'[p].pc \in {"receipt", "verify"} =>
                objects'[call'[p].subject.doc] \in {"whole", "altered"}
  PROVE  Knows'
<1> SUFFICES ASSUME NEW q \in Procs
             PROVE  /\ call'[q].pc \in Within => call'[q].subject \in Subject
                    /\ call'[q].pc \in {"object", "receipt"} =>
                         \A r \in receipts' : ~SameRequest(r.subject, call'[q].subject)
                    /\ call'[q].pc \in {"receipt", "verify"} =>
                         objects'[call'[q].subject.doc] \in {"whole", "altered"}
  BY DEF Knows
<1>1. CASE q = p
  BY <1>1 DEF Within
<1>2. CASE q # p
  BY <1>2 DEF Knows, CallOf
<1> QED BY <1>1, <1>2
-----------------------------------------------------------------------------
(* One lemma for each group of actions *)

LEMMA OpeningStep ==
  ASSUME ArchiveInv, NEW p \in Procs,
         Start(p) \/ MakeDirectory(p) \/ DirectoryExists(p) \/ Crash(p)
  PROVE  ArchiveInv'
<1>0. /\ TypeOK /\ Opened /\ Knows /\ ReceiptAfterObject /\ OneReceiptPerRequest /\ Kept
      /\ call[p] \in Call /\ call \in [Procs -> Call]
  BY DEF ArchiveInv, TypeOK
<1>1. UNCHANGED <<objects, receipts, returned, clock, faults>>
  BY DEF Start, MakeDirectory, DirectoryExists, Crash
<1>2. ReceiptAfterObject' /\ OneReceiptPerRequest' /\ Kept'
  BY <1>0, <1>1 DEF ReceiptAfterObject, OneReceiptPerRequest, Kept
<1>3. ASSUME CallOf(p), UNCHANGED dirs, call'[p].made = call[p].made,
             call'[p].pc \notin Inside,
             call'[p].pc \in {"start", "opening"} => call'[p].made < Directories
      PROVE  ArchiveInv'
  <2>1. Opened'
    BY <1>0, <1>3, OpenedKept
  <2>2. Knows'
    BY <1>0, <1>1, <1>3, KnowsKept DEF Inside, Knows
  <2>3. TypeOK'
    BY <1>0, <1>1, <1>3 DEF TypeOK, CallOf
  <2> QED BY <1>2, <2>1, <2>2, <2>3 DEF ArchiveInv
<1>4. CASE Start(p)
  <2>1. Goto(p, "opening") /\ UNCHANGED dirs /\ call[p].made < Directories
    BY <1>0, <1>4 DEF Start, Busy, Opened
  <2> QED BY <1>0, <1>3, <2>1, GotoShape DEF Pcs, Inside, Free, Within
<1>5. CASE DirectoryExists(p)
  BY <1>0, <1>3, <1>5, GotoShape DEF DirectoryExists, Pcs, Inside, Free, Within
<1>6. CASE Crash(p)
  <2>1. call' = [call EXCEPT ![p] = [call[p] EXCEPT !.pc = "dead", !.subject = None]]
        /\ UNCHANGED dirs
    BY <1>6 DEF Crash
  <2>2. [call[p] EXCEPT !.pc = "dead", !.subject = None] \in Call
    BY <1>0 DEF Call, Pcs
  <2>3. CallOf(p) /\ call'[p].made = call[p].made /\ call'[p].pc = "dead"
    BY <1>0, <2>1, <2>2 DEF CallOf, Call
  <2> QED BY <1>3, <2>1, <2>3 DEF Inside, Free, Within
<1>7. CASE MakeDirectory(p)
  <2> DEFINE pc == IF dirs + 1 = Directories THEN "open" ELSE call[p].pc
  <2>1. /\ call[p].pc = "opening" /\ dirs = call[p].made /\ dirs' = dirs + 1
        /\ call' = [call EXCEPT ![p] = [call[p] EXCEPT !.made = dirs + 1, !.pc = pc]]
    BY <1>7 DEF MakeDirectory, Busy
  <2>2. dirs \in Nat /\ dirs < Directories /\ Directories \in Nat
    BY <1>0, <2>1 DEF Opened, TypeOK, Directories
  <2>3. [call[p] EXCEPT !.made = dirs + 1, !.pc = pc] \in Call
    <3>1. pc \in Pcs /\ dirs + 1 \in 0 .. Directories
      BY <1>0, <2>2 DEF Call, Pcs, Free
    <3> HIDE DEF pc
    <3> QED BY <1>0, <3>1 DEF Call
  <2>4. /\ CallOf(p) /\ call'[p].made = dirs + 1
        /\ call'[p].pc = (IF dirs + 1 = Directories THEN "open" ELSE "opening")
    BY <1>0, <2>1, <2>3 DEF CallOf, Call
  <2>5. TypeOK'
    BY <1>0, <1>1, <2>1, <2>2, <2>4 DEF TypeOK, CallOf
  <2>6. Knows'
    BY <1>0, <1>1, <2>4, KnowsKept DEF Within, Knows
  <2>7. Opened'
    <3>1. \A q \in Procs \ {p} : call'[q] = call[q] /\ call[q].made <= dirs
                                 /\ call[q].made \in 0 .. Directories
      BY <1>0, <2>4 DEF CallOf, Opened, TypeOK, Call
    <3>2. \A q \in Procs : /\ call'[q].made <= dirs'
                           /\ call'[q].pc \in Inside => call'[q].made = Directories
                           /\ call'[q].pc \in {"start", "opening"} =>
                                call'[q].made < Directories
      BY <1>0, <2>1, <2>2, <2>4, <3>1 DEF Opened, Inside, Free, Within
    <3>3. \A q \in Procs : call'[q].made = dirs' => q = p
      BY <2>1, <2>2, <3>1
    <3> QED BY <3>2, <3>3 DEF Opened
  <2> QED BY <1>2, <2>5, <2>6, <2>7 DEF ArchiveInv
<1> QED BY <1>4, <1>5, <1>6, <1>7

LEMMA BeginStep ==
  ASSUME ArchiveInv, NEW p \in Procs, NEW doc \in Documents, NEW terms \in Terms,
         Begin(p, doc, terms)
  PROVE  ArchiveInv'
<1> DEFINE subject == [doc |-> doc, terms |-> terms, at |-> clock]
<1>0. /\ TypeOK /\ Opened /\ Knows /\ ReceiptAfterObject /\ OneReceiptPerRequest /\ Kept
      /\ call[p] \in Call /\ call \in [Procs -> Call]
  BY DEF ArchiveInv, TypeOK
<1>1. /\ UNCHANGED <<dirs, objects, receipts, returned, clock, faults>>
      /\ call[p].pc \in Free /\ call[p].calls < MaxCalls
      /\ call' = [call EXCEPT ![p] = [call[p] EXCEPT !.pc = "scan",
                                       !.calls = call[p].calls + 1, !.subject = subject]]
  BY DEF Begin, Busy
<1>2. subject \in Subject
  <2>1. terms.until > clock /\ clock \in 0 .. MaxTime
    BY <1>0 DEF Begin, TypeOK
  <2> QED BY <2>1 DEF Subject
<1>3. /\ CallOf(p) /\ call'[p].pc = "scan" /\ call'[p].made = call[p].made
      /\ call'[p].subject = subject
  <2>1. call[p].calls + 1 \in 0 .. MaxCalls
    BY <1>0, <1>1, BoundsAssumption DEF Call
  <2>2. [call[p] EXCEPT !.pc = "scan", !.calls = call[p].calls + 1, !.subject = subject]
          \in Call
    <3> HIDE DEF subject
    <3> QED BY <1>0, <1>2, <2>1 DEF Call, Pcs, Within
  <2> HIDE DEF subject
  <2> QED BY <1>0, <1>1, <2>2 DEF CallOf, Call
<1> HIDE DEF subject
<1>4. TypeOK'
  BY <1>0, <1>1, <1>3 DEF TypeOK, CallOf
<1>5. Opened'
  BY <1>0, <1>1, <1>3, OpenedKept DEF Inside, Free, Within
<1>6. Knows'
  BY <1>0, <1>1, <1>2, <1>3, KnowsKept DEF Knows
<1>7. ReceiptAfterObject' /\ OneReceiptPerRequest' /\ Kept'
  BY <1>0, <1>1 DEF ReceiptAfterObject, OneReceiptPerRequest, Kept
<1> QED BY <1>4, <1>5, <1>6, <1>7 DEF ArchiveInv

LEMMA ScanStep ==
  ASSUME ArchiveInv, NEW p \in Procs,
         FindExisting(p) \/ ScanThrows(p) \/ FindNothing(p) \/ VerifyReceipt(p)
  PROVE  ArchiveInv'
<1>0. /\ TypeOK /\ Opened /\ Knows /\ ReceiptAfterObject /\ OneReceiptPerRequest /\ Kept
  BY DEF ArchiveInv
<1>1. UNCHANGED <<dirs, objects, receipts, clock, faults>> /\ call[p].pc \in Within
  BY DEF FindExisting, ScanThrows, FindNothing, VerifyReceipt, Busy, Within
<1>2. \/ Throw(p)
      \/ \E r \in receipts : Return(p, r)
      \/ /\ Goto(p, "object") /\ UNCHANGED returned
         /\ Unreadable = {} /\ Matches(p) = {}
  BY DEF FindExisting, ScanThrows, FindNothing, VerifyReceipt, Matches
<1>3. /\ CallOf(p) /\ call'[p].made = call[p].made
      /\ \/ call'[p].pc \in {"returned", "thrown"}
         \/ /\ call'[p].pc = "object" /\ call'[p].subject = call[p].subject
            /\ Unreadable = {} /\ Matches(p) = {}
      /\ \/ UNCHANGED returned
         \/ \E r \in receipts : /\ returned' = returned \cup {r.subject}
                                /\ r.subject \in Subject
  <2>1. CASE Throw(p)
    BY <1>0, <2>1, ThrowShape
  <2>2. CASE \E r \in receipts : Return(p, r)
    BY <1>0, <2>2, ReturnShape
  <2>3. CASE Goto(p, "object") /\ UNCHANGED returned /\ Unreadable = {} /\ Matches(p) = {}
    BY <1>0, <2>3, GotoShape DEF Pcs, Within
  <2> QED BY <1>2, <2>1, <2>2, <2>3
<1>4. TypeOK' /\ Kept'
  <2>1. returned' \subseteq Subject
    BY <1>0, <1>3 DEF TypeOK
  <2>2. Kept'
    BY <1>0, <1>1, <1>3 DEF Kept
  <2> QED BY <1>0, <1>1, <1>3, <2>1, <2>2 DEF TypeOK, CallOf
<1>5. Opened'
  BY <1>0, <1>1, <1>3, OpenedKept DEF Inside, Free, Within
<1>6. Knows'
  <2>1. call'[p].pc \in Within =>
          /\ call'[p].pc = "object" /\ call'[p].subject \in Subject
          /\ \A r \in receipts : ~SameRequest(r.subject, call'[p].subject)
    BY <1>0, <1>1, <1>3 DEF Within, Knows, Unreadable, Matches
  <2> QED BY <1>0, <1>1, <1>3, <2>1, KnowsKept DEF Knows
<1>7. ReceiptAfterObject' /\ OneReceiptPerRequest'
  BY <1>0, <1>1 DEF ReceiptAfterObject, OneReceiptPerRequest
<1> QED BY <1>4, <1>5, <1>6, <1>7 DEF ArchiveInv

LEMMA ObjectStep ==
  ASSUME ArchiveInv, NEW p \in Procs, WriteObject(p) \/ ObjectFails(p)
  PROVE  ArchiveInv'
<1> DEFINE d == call[p].subject.doc
<1>0. /\ TypeOK /\ Opened /\ Knows /\ ReceiptAfterObject /\ OneReceiptPerRequest /\ Kept
      /\ objects \in [Documents -> {"absent", "cut", "whole", "altered"}]
  BY DEF ArchiveInv, TypeOK
<1>1. /\ UNCHANGED <<dirs, receipts, returned, clock>> /\ call[p].pc = "object"
      /\ call[p].subject \in Subject /\ d \in Documents
      /\ \A r \in receipts : ~SameRequest(r.subject, call[p].subject)
  BY <1>0 DEF WriteObject, ObjectFails, Throw, Busy, Knows, Within, Subject
<1>2. faults' \in 0 .. MaxFaults
  BY <1>0, BoundsAssumption DEF WriteObject, ObjectFails, Fault, TypeOK
<1>3. \/ /\ objects' = [objects EXCEPT ![d] = "whole"] /\ objects[d] \in {"absent", "whole"}
         /\ Goto(p, "receipt")
      \/ UNCHANGED objects /\ Throw(p)
      \/ /\ objects[d] = "absent"
         /\ \E left \in {"absent", "cut"} : objects' = [objects EXCEPT ![d] = left]
         /\ Throw(p) \/ Goto(p, "dead")
  BY DEF WriteObject, ObjectFails, ObjectAgrees
<1>4. /\ CallOf(p) /\ call'[p].made = call[p].made
      /\ \/ /\ call'[p].pc = "receipt" /\ call'[p].subject = call[p].subject
            /\ objects'[d] = "whole"
         \/ call'[p].pc \in {"thrown", "dead"}
  BY <1>0, <1>1, <1>3, GotoShape, ThrowShape DEF Pcs, Within
<1>5. /\ objects' \in [Documents -> {"absent", "cut", "whole", "altered"}]
      /\ \A e \in Documents : objects[e] \in {"whole", "altered"} =>
                              objects'[e] \in {"whole", "altered"}
  BY <1>0, <1>1, <1>3
<1> HIDE DEF d
<1>6. TypeOK'
  BY <1>0, <1>1, <1>2, <1>4, <1>5 DEF TypeOK, CallOf
<1>7. Opened'
  BY <1>0, <1>1, <1>4, OpenedKept DEF Inside, Free, Within
<1>8. Knows'
  <2>1. \A q \in Procs \ {p} : call[q].pc \in {"receipt", "verify"} =>
                                objects'[call[q].subject.doc] \in {"whole", "altered"}
    BY <1>0, <1>5 DEF Knows, Within, Subject
  <2>2. call'[p].pc \in Within =>
          /\ call'[p].pc = "receipt" /\ call'[p].subject = call[p].subject
          /\ objects'[d] = "whole"
    BY <1>4 DEF Within
  <2> QED BY <1>0, <1>1, <1>4, <2>1, <2>2, KnowsKept DEF d
<1>9. ReceiptAfterObject' /\ OneReceiptPerRequest' /\ Kept'
  <2>1. \A r \in receipts : r.subject.doc \in Documents
    BY <1>0 DEF TypeOK, Receipt, Subject
  <2> QED BY <1>0, <1>1, <1>5, <2>1 DEF ReceiptAfterObject, OneReceiptPerRequest, Kept
<1> QED BY <1>6, <1>7, <1>8, <1>9 DEF ArchiveInv

LEMMA ReceiptStep ==
  ASSUME ArchiveInv, NEW p \in Procs, WriteReceipt(p) \/ ReceiptFails(p)
  PROVE  ArchiveInv'
<1> DEFINE s == call[p].subject
<1>0. /\ TypeOK /\ Opened /\ Knows /\ ReceiptAfterObject /\ OneReceiptPerRequest /\ Kept
  BY DEF ArchiveInv
<1>1. /\ UNCHANGED <<dirs, objects, returned, clock>> /\ call[p].pc = "receipt"
      /\ s \in Subject /\ objects[s.doc] \in {"whole", "altered"}
      /\ \A r \in receipts : ~SameRequest(r.subject, s)
  BY <1>0 DEF WriteReceipt, ReceiptFails, Throw, Busy, Knows, Within
<1>2. faults' \in 0 .. MaxFaults
  BY <1>0, BoundsAssumption DEF WriteReceipt, ReceiptFails, Fault, TypeOK
<1>3. \/ /\ receipts' = receipts \cup {[subject |-> s, state |-> "whole"]}
         /\ Goto(p, "verify")
      \/ /\ \E left \in {{}, {[subject |-> s, state |-> "cut"]}} :
              receipts' = receipts \cup left
         /\ Throw(p) \/ Goto(p, "dead")
  BY DEF WriteReceipt, ReceiptFails
<1>4. /\ CallOf(p) /\ call'[p].made = call[p].made
      /\ \/ call'[p].pc = "verify" /\ call'[p].subject = s
         \/ call'[p].pc \in {"thrown", "dead"}
  BY <1>0, <1>3, GotoShape, ThrowShape DEF Pcs, Within
<1> HIDE DEF s
<1>5. \/ receipts' = receipts
      \/ receipts' = receipts \cup {[subject |-> s, state |-> "whole"]}
      \/ receipts' = receipts \cup {[subject |-> s, state |-> "cut"]}
  BY <1>3
<1>6. PICK state \in {"whole", "cut"} :
        receipts' = receipts \/ receipts' = receipts \cup {[subject |-> s, state |-> state]}
  BY <1>5
<1>7. [subject |-> s, state |-> state] \in Receipt
  BY <1>1 DEF Receipt
<1>8. TypeOK'
  <2>1. receipts' \subseteq Receipt
    BY <1>0, <1>6, <1>7 DEF TypeOK
  <2> QED BY <1>0, <1>1, <1>2, <1>4, <2>1 DEF TypeOK, CallOf
<1>9. Opened'
  BY <1>0, <1>1, <1>4, OpenedKept DEF Inside, Free, Within
<1>10. Knows'
  <2>1. ASSUME NEW q \in Procs \ {p} PROVE call'[q] = call[q] /\ call[q].pc \notin Within
    BY <1>0, <1>1, <1>4, <2>1, OneInside DEF CallOf, Inside, Within
  <2>2. call'[p].pc \in Within => call'[p].pc = "verify" /\ call'[p].subject = s
    BY <1>4 DEF Within
  <2> QED BY <1>1, <2>1, <2>2 DEF Knows, Within
<1>11. ReceiptAfterObject'
  BY <1>0, <1>1, <1>6 DEF ReceiptAfterObject
<1>12. OneReceiptPerRequest'
  BY <1>0, <1>1, <1>6 DEF OneReceiptPerRequest, SameRequest
<1>13. Kept'
  BY <1>0, <1>1, <1>6 DEF Kept
<1> QED BY <1>8, <1>9, <1>10, <1>11, <1>12, <1>13 DEF ArchiveInv

LEMMA OutsideStep ==
  ASSUME ArchiveInv,
         \/ \E d \in Documents : AlterObject(d)
         \/ \E r \in receipts : AlterReceipt(r)
         \/ Tick
  PROVE  ArchiveInv'
<1>0. /\ TypeOK /\ Opened /\ Knows /\ ReceiptAfterObject /\ OneReceiptPerRequest /\ Kept
      /\ objects \in [Documents -> {"absent", "cut", "whole", "altered"}]
  BY DEF ArchiveInv, TypeOK
<1>1. UNCHANGED <<dirs, call, returned>>
  BY DEF AlterObject, AlterReceipt, Tick
<1>2. Opened'
  BY <1>0, <1>1 DEF Opened
<1>3. ASSUME NEW d \in Documents, AlterObject(d) PROVE ArchiveInv'
  <2>1. /\ UNCHANGED <<receipts, clock>> /\ faults' \in 0 .. MaxFaults
        /\ objects' \in [Documents -> {"absent", "cut", "whole", "altered"}]
        /\ \A e \in Documents : objects[e] \in {"whole", "altered"} =>
                                objects'[e] \in {"whole", "altered"}
    BY <1>0, <1>3, BoundsAssumption DEF AlterObject, Fault, TypeOK
  <2>2. \A r \in receipts : r.subject.doc \in Documents
    BY <1>0 DEF TypeOK, Receipt, Subject
  <2>3. ReceiptAfterObject' /\ OneReceiptPerRequest' /\ Kept'
    BY <1>0, <1>1, <2>1, <2>2 DEF ReceiptAfterObject, OneReceiptPerRequest, Kept
  <2>4. Knows'
    BY <1>0, <1>1, <2>1 DEF Knows, Within, Subject
  <2>5. TypeOK'
    BY <1>0, <1>1, <2>1 DEF TypeOK
  <2> QED BY <1>2, <2>3, <2>4, <2>5 DEF ArchiveInv
<1>4. ASSUME NEW r \in receipts, AlterReceipt(r) PROVE ArchiveInv'
  <2> DEFINE a == [r EXCEPT !.state = "altered"]
  <2>1. /\ UNCHANGED <<objects, clock>> /\ faults' \in 0 .. MaxFaults
        /\ receipts' = (receipts \ {r}) \cup {a}
    BY <1>0, <1>4, BoundsAssumption DEF AlterReceipt, Fault, TypeOK
  <2>2. a \in Receipt /\ a.subject = r.subject /\ a.state = "altered"
    BY <1>0 DEF TypeOK, Receipt
  <2> HIDE DEF a
  <2>3. ReceiptAfterObject'
    BY <1>0, <2>1, <2>2 DEF ReceiptAfterObject, Whole
  <2>4. OneReceiptPerRequest' /\ Kept'
    BY <1>0, <1>1, <2>1, <2>2 DEF OneReceiptPerRequest, Kept
  <2>5. Knows'
    BY <1>0, <1>1, <2>1, <2>2 DEF Knows
  <2>6. TypeOK'
    BY <1>0, <1>1, <2>1, <2>2 DEF TypeOK
  <2> QED BY <1>2, <2>3, <2>4, <2>5, <2>6 DEF ArchiveInv
<1>5. CASE Tick
  <2>1. UNCHANGED <<objects, receipts, faults>> /\ clock' \in 0 .. MaxTime
    BY <1>0, <1>5, BoundsAssumption DEF Tick, TypeOK
  <2>2. ReceiptAfterObject' /\ OneReceiptPerRequest' /\ Kept'
    BY <1>0, <1>1, <2>1 DEF ReceiptAfterObject, OneReceiptPerRequest, Kept
  <2>3. Knows' /\ TypeOK'
    BY <1>0, <1>1, <2>1 DEF Knows, TypeOK
  <2> QED BY <1>2, <2>2, <2>3 DEF ArchiveInv
<1> QED BY <1>3, <1>4, <1>5

LEMMA ArchiveInvStep == ArchiveInv /\ [Next]_vars => ArchiveInv'
<1> SUFFICES ASSUME ArchiveInv, [Next]_vars PROVE ArchiveInv'
  OBVIOUS
<1>1. CASE UNCHANGED vars
  BY <1>1 DEF vars, ArchiveInv, TypeOK, Opened, Knows, ReceiptAfterObject,
              OneReceiptPerRequest, Kept
<1>2. CASE Next
  BY <1>2, OpeningStep, BeginStep, ScanStep, ObjectStep, ReceiptStep, OutsideStep DEF Next
<1> QED BY <1>1, <1>2

LEMMA ArchiveInvHolds == Spec => []ArchiveInv
BY ArchiveInvInit, ArchiveInvStep, PTL DEF Spec

-----------------------------------------------------------------------------
(* The steps in which a call of p ends. *)

LEMMA CallEnds ==
  ASSUME ArchiveInv, Next, NEW p \in Procs, call'[p] # call[p],
         call'[p].pc \in {"returned", "thrown"}
  PROVE  \/ FindExisting(p) \/ ScanThrows(p) \/ VerifyReceipt(p)
         \/ WriteObject(p) \/ ObjectFails(p) \/ ReceiptFails(p)
<1>0. TypeOK /\ call \in [Procs -> Call]
  BY DEF ArchiveInv, TypeOK
<1>1. ASSUME NEW q \in Procs, CallOf(q) PROVE q = p
  BY <1>1 DEF CallOf
<1>2. ASSUME NEW q \in Procs, Start(q) \/ FindNothing(q) \/ WriteReceipt(q)
             \/ DirectoryExists(q) PROVE FALSE
  <2>1. CallOf(q) /\ call'[q].pc \in {"opening", "object", "verify", "refused"}
    BY <1>0, <1>2, GotoShape DEF Start, FindNothing, WriteReceipt, DirectoryExists, Pcs, Within
  <2> QED BY <1>1, <2>1
<1>3. ASSUME NEW q \in Procs,
             \/ MakeDirectory(q) \/ Crash(q)
             \/ \E doc \in Documents, terms \in Terms : Begin(q, doc, terms)
      PROVE  FALSE
  <2>1. \A o \in Procs \ {q} : call'[o] = call[o]
    BY <1>0, <1>3 DEF MakeDirectory, Crash, Begin
  <2>2. call'[q].pc \in {"opening", "open", "scan", "dead"}
    BY <1>0, <1>3 DEF MakeDirectory, Crash, Begin, Busy, Call
  <2> QED BY <2>1, <2>2
<1>4. ASSUME NEW q \in Procs,
             \/ FindExisting(q) \/ ScanThrows(q) \/ WriteObject(q) \/ ObjectFails(q)
             \/ ReceiptFails(q) \/ VerifyReceipt(q)
      PROVE  q = p
  <2>1. \/ Throw(q) \/ \E r \in receipts : Return(q, r)
        \/ \E pc \in Pcs : Goto(q, pc)
    BY <1>4 DEF FindExisting, ScanThrows, WriteObject, ObjectFails, ReceiptFails,
                VerifyReceipt, Matches, Pcs, Within
  <2> QED BY <1>0, <1>1, <2>1, GotoShape, ThrowShape, ReturnShape
<1>5. call' # call
  OBVIOUS
<1> QED BY <1>2, <1>3, <1>4, <1>5 DEF Next, AlterObject, AlterReceipt, Tick

LEMMA OnlyReturns ==
  ASSUME ArchiveInv, Next, NEW p \in Procs, call[p].pc # "returned", call'[p].pc = "returned"
  PROVE  FindExisting(p) \/ VerifyReceipt(p)
<1>1. TypeOK
  BY DEF ArchiveInv
<1>2. ASSUME ScanThrows(p) \/ WriteObject(p) \/ ObjectFails(p) \/ ReceiptFails(p) PROVE FALSE
  <2>1. Throw(p) \/ \E pc \in {"receipt", "dead"} : Goto(p, pc)
    BY <1>2 DEF ScanThrows, WriteObject, ObjectFails, ReceiptFails
  <2> QED BY <1>1, <2>1, GotoShape, ThrowShape DEF Pcs, Within
<1> QED BY <1>2, CallEnds

LEMMA OnlyThrows ==
  ASSUME ArchiveInv, Next, NEW p \in Procs, call[p].pc \in Within, call'[p].pc = "thrown"
  PROVE  \/ ScanThrows(p) \/ VerifyReceipt(p)
         \/ WriteObject(p) \/ ObjectFails(p) \/ ReceiptFails(p)
<1>1. TypeOK /\ call[p].pc # "thrown"
  BY DEF ArchiveInv, Within
<1>2. ASSUME FindExisting(p) PROVE FALSE
  BY <1>1, <1>2, ReturnShape DEF FindExisting, Matches
<1> QED BY <1>1, <1>2, CallEnds

-----------------------------------------------------------------------------
(* Every variable keeps its type. *)
THEOREM ArchiveTypeTheorem == Spec => []TypeOK
<1>1. ArchiveInv => TypeOK
  BY DEF ArchiveInv
<1> QED BY <1>1, ArchiveInvHolds, PTL

(* Whatever a crash or a failing write leaves between an object and its    *)
(* receipt, a readable receipt speaks of an object written before it.      *)
THEOREM ReceiptAfterObjectTheorem == Spec => []ReceiptAfterObject
<1>1. ArchiveInv => ReceiptAfterObject
  BY DEF ArchiveInv
<1> QED BY <1>1, ArchiveInvHolds, PTL

(* A repeated request never leaves a second receipt, though the time of    *)
(* the call is part of a receipt's path.                                   *)
THEOREM OneReceiptTheorem == Spec => []OneReceiptPerRequest
<1>1. ArchiveInv => OneReceiptPerRequest
  BY DEF ArchiveInv
<1> QED BY <1>1, ArchiveInvHolds, PTL

(* Every return, the first and all that repeat it, hands out the one       *)
(* receipt of the request, readable and with a readable object.            *)
THEOREM ReturnedTheorem == Spec => ReturnedWhenIntact
<1> DEFINE Good(p) == LET s == call'[p].subject
                      IN /\ SameRequest(s, call[p].subject)
                         /\ \E r \in receipts : r.subject = s /\ Verifies(r)
                         /\ \A t \in returned : SameRequest(t, s) => t = s
           A == \A p \in Procs : call[p].pc # "returned" /\ call'[p].pc = "returned" => Good(p)
<1>1. ASSUME ArchiveInv, NEW p \in Procs, NEW r \in receipts, Verifies(r), Return(p, r),
             SameRequest(r.subject, call[p].subject)
      PROVE  Good(p)
  <2>1. call'[p].subject = r.subject
    BY <1>1, ReturnShape DEF ArchiveInv
  <2>2. \A t \in returned : SameRequest(t, r.subject) => t = r.subject
    BY <1>1 DEF ArchiveInv, Kept, OneReceiptPerRequest
  <2> QED BY <1>1, <2>1, <2>2
<1>2. ArchiveInv /\ [Next]_vars => [A]_vars
  <2> SUFFICES ASSUME ArchiveInv, Next, NEW p \in Procs,
                      call[p].pc # "returned", call'[p].pc = "returned"
               PROVE  Good(p)
    BY Zenon
  <2>1. FindExisting(p) \/ VerifyReceipt(p)
    BY OnlyReturns
  <2>2. PICK r \in receipts : /\ Verifies(r) /\ Return(p, r)
                              /\ SameRequest(r.subject, call[p].subject)
    <3>1. CASE FindExisting(p)
      BY <3>1 DEF FindExisting, Matches
    <3>2. CASE VerifyReceipt(p)
      <4>1. PICK r \in receipts : /\ r.subject = call[p].subject
                                  /\ IF Verifies(r) THEN Return(p, r) ELSE Throw(p)
        BY <3>2 DEF VerifyReceipt
      <4>2. Verifies(r)
        BY <4>1, ThrowShape DEF ArchiveInv
      <4> QED BY <4>1, <4>2 DEF SameRequest
    <3> QED BY <2>1, <3>1, <3>2
  <2> QED BY <1>1, <2>2
<1>3. Spec => [][A]_vars
  BY <1>2, ArchiveInvHolds, PTL DEF Spec
<1> QED BY <1>3 DEF ReturnedWhenIntact

(* A call throws only for damage, or because a full archive has never      *)
(* answered its request: nothing that an earlier call left whole makes a   *)
(* later one fail, and what was answered once is answered again.           *)
THEOREM RefusedOnlyTheorem == Spec => RefusedOnlyForDamage
<1> DEFINE Excused(p) == \/ faults' # faults
                         \/ Unreadable # {}
                         \/ objects[call[p].subject.doc] \in {"cut", "altered"}
                         \/ /\ Cardinality(receipts) >= MaxReceipts
                            /\ \A s \in returned : ~SameRequest(s, call[p].subject)
           A == \A p \in Procs : call[p].pc \in Within /\ call'[p].pc = "thrown" => Excused(p)
<1>1. ASSUME ArchiveInv, NEW p \in Procs, NEW r \in receipts, ~Verifies(r),
             r.subject.doc = call[p].subject.doc
      PROVE  Excused(p)
  BY <1>1 DEF Verifies, Unreadable, ArchiveInv, ReceiptAfterObject
<1>2. ASSUME ArchiveInv, NEW p \in Procs, Matches(p) = {}, Full(p)
      PROVE  Excused(p)
  <2>1. ASSUME NEW s \in returned, SameRequest(s, call[p].subject) PROVE Unreadable # {}
    BY <1>2, <2>1 DEF ArchiveInv, Kept, Matches, Unreadable
  <2> QED BY <1>2, <2>1 DEF Full
<1>3. ASSUME ArchiveInv, NEW p \in Procs, call'[p].pc = "thrown",
             \/ ScanThrows(p) \/ VerifyReceipt(p)
             \/ WriteObject(p) \/ ObjectFails(p) \/ ReceiptFails(p)
      PROVE  Excused(p)
  <2>1. CASE ScanThrows(p)
    <3>1. CASE \E r \in Matches(p) : ~Verifies(r)
      BY <1>1, <1>3, <3>1 DEF Matches, SameRequest
    <3> QED BY <1>2, <1>3, <2>1, <3>1 DEF ScanThrows
  <2>2. CASE VerifyReceipt(p)
    <3>1. PICK r \in receipts : /\ r.subject = call[p].subject
                                /\ IF Verifies(r) THEN Return(p, r) ELSE Throw(p)
      BY <2>2 DEF VerifyReceipt
    <3>2. ~Verifies(r)
      BY <1>3, <3>1, ReturnShape DEF ArchiveInv
    <3> QED BY <1>1, <1>3, <3>1, <3>2
  <2>3. CASE WriteObject(p)
    <3>1. call[p].subject.doc \in Documents
      BY <1>3, <2>3 DEF ArchiveInv, Knows, WriteObject, Busy, Within, Subject
    <3>2. ~ObjectAgrees(p)
      BY <1>3, <2>3, GotoShape DEF WriteObject, ArchiveInv, Pcs, Within
    <3> QED BY <1>3, <3>1, <3>2 DEF ObjectAgrees, ArchiveInv, TypeOK
  <2>4. CASE ObjectFails(p) \/ ReceiptFails(p)
    BY <1>3, <2>4 DEF ObjectFails, ReceiptFails, Fault, ArchiveInv, TypeOK
  <2> QED BY <1>3, <2>1, <2>2, <2>3, <2>4
<1>4. ArchiveInv /\ [Next]_vars => [A]_vars
  <2> SUFFICES ASSUME ArchiveInv, Next, NEW p \in Procs,
                      call[p].pc \in Within, call'[p].pc = "thrown"
               PROVE  Excused(p)
    BY Zenon
  <2> QED BY <1>3, OnlyThrows
<1>5. Spec => [][A]_vars
  BY <1>4, ArchiveInvHolds, PTL DEF Spec
<1> QED BY <1>5 DEF RefusedOnlyForDamage
=============================================================================
