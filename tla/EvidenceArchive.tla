--------------------------- MODULE EvidenceArchive ---------------------------
(***************************************************************************)
(* The append-only archive of packages/factory/src/evidence-store.ts:      *)
(* content-addressed objects, and receipts that bind an object to a        *)
(* retention.  One file-system effect per step; a process may die between  *)
(* any two, and a write may be cut short or refused.                       *)
(*                                                                         *)
(* A document stands for its bytes, with the kind and the logical digest   *)
(* they determine; sources the archive refuses to read change nothing and  *)
(* are left out.  The path of a receipt is the digest of all its fields,   *)
(* so the fields are the path.                                             *)
(***************************************************************************)
EXTENDS Integers, FiniteSets

CONSTANTS
  Procs,         \* processes that open the archive
  Documents,     \* evidence documents
  Policies,      \* retention policies
  MaxReceipts,   \* the archive's receipt limit
  MaxTime,       \* bound of the clock, and of retention deadlines
  MaxFaults,     \* bound on failing writes and altered files
  MaxCalls,      \* bound on archive calls of a process
  None           \* no call under way

ASSUME BoundsAssumption ==
  /\ MaxReceipts \in Nat \ {0}
  /\ {MaxTime, MaxFaults, MaxCalls} \subseteq Nat

VARIABLES
  dirs,       \* how many of the four directories exist
  objects,    \* the file of each document under objects/sha256
  receipts,   \* the files under receipts/sha256
  call,       \* what each process is doing, or what its last call answered
  returned,   \* receipts that archive has ever returned
  clock,
  faults

vars == <<dirs, objects, receipts, call, returned, clock, faults>>

Directories == 4   \* objects, objects/sha256, receipts, receipts/sha256

Terms   == [policy : Policies, until : 1 .. MaxTime]
(* What validateReceiptShape accepts: the deadline follows the archive time. *)
Subject == {s \in [doc : Documents, terms : Terms, at : 0 .. MaxTime] : s.terms.until > s.at}
Receipt == [subject : Subject, state : {"whole", "cut", "altered"}]

Free   == {"open", "returned", "thrown"}          \* between two calls of archive
Within == {"scan", "object", "receipt", "verify"} \* in one
Pcs    == {"start", "opening", "refused", "dead"} \cup Free \cup Within
(* subject: what is archived, or the receipt that the last call returned. *)
Call == [pc : Pcs, made : 0 .. Directories, subject : Subject \cup {None},
         calls : 0 .. MaxCalls]

SameRequest(s, t) == s.doc = t.doc /\ s.terms = t.terms

Whole(r)    == r.state = "whole"
Verifies(r) == Whole(r) /\ objects[r.subject.doc] = "whole"

Busy(p, pc)  == call[p].pc = pc
Goto(p, pc)  == call' = [call EXCEPT ![p].pc = pc]
(* A call that throws leaves the process free to call again. *)
Throw(p)     == /\ call' = [call EXCEPT ![p].pc = "thrown", ![p].subject = None]
                /\ UNCHANGED returned
Return(p, r) == /\ call' = [call EXCEPT ![p].pc = "returned", ![p].subject = r.subject]
                /\ returned' = returned \cup {r.subject}

Fault == faults < MaxFaults /\ faults' = faults + 1

-----------------------------------------------------------------------------
Init ==
  /\ dirs = 0
  /\ objects = [d \in Documents |-> "absent"]
  /\ receipts = {}
  /\ call = [p \in Procs |-> [pc |-> "start", made |-> 0, subject |-> None, calls |-> 0]]
  /\ returned = {}
  /\ clock = 0
  /\ faults = 0

Start(p) == /\ Busy(p, "start")
            /\ Goto(p, "opening")
            /\ UNCHANGED <<dirs, objects, receipts, returned, clock, faults>>

(* #directory makes each directory with a mkdir that is not recursive ...  *)
MakeDirectory(p) ==
  /\ Busy(p, "opening")
  /\ dirs = call[p].made
  /\ dirs' = dirs + 1
  /\ call' = [call EXCEPT ![p].made = dirs + 1,
                          ![p].pc = IF dirs + 1 = Directories THEN "open" ELSE @]
  /\ UNCHANGED <<objects, receipts, returned, clock, faults>>

(* ... and therefore throws EEXIST when the directory is there.            *)
DirectoryExists(p) ==
  /\ Busy(p, "opening")
  /\ dirs > call[p].made
  /\ Goto(p, "refused")
  /\ UNCHANGED <<dirs, objects, receipts, returned, clock, faults>>

(* archive reads the clock once, at its start. *)
Begin(p, doc, terms) ==
  /\ call[p].pc \in Free
  /\ call[p].calls < MaxCalls
  /\ terms.until > clock
  /\ call' = [call EXCEPT ![p].pc = "scan", ![p].calls = @ + 1,
                          ![p].subject = [doc |-> doc, terms |-> terms, at |-> clock]]
  /\ UNCHANGED <<dirs, objects, receipts, returned, clock, faults>>

(* Mutation: the archive time must match as well. *)
MatchesExactly(p) == {r \in receipts : Whole(r) /\ r.subject = call[p].subject}

(* The receipts #existingReceipt would return. *)
Matches(p) == {r \in receipts : Whole(r) /\ SameRequest(r.subject, call[p].subject)}

Unreadable == {r \in receipts : ~Whole(r)}

Full(p) == Cardinality(receipts) >= MaxReceipts

(* Mutation: the receipt that matches is returned without verify. *)
FindExistingUnverified(p) ==
  /\ Busy(p, "scan")
  /\ \E r \in Matches(p) : Return(p, r)
  /\ UNCHANGED <<dirs, objects, receipts, clock, faults>>

(* #existingReceipt reads the receipts in the order of their digests, up   *)
(* to the first that matches: one it cannot read may come before or after. *)
FindExisting(p) ==
  /\ Busy(p, "scan")
  /\ \E r \in Matches(p) : Verifies(r) /\ Return(p, r)
  /\ UNCHANGED <<dirs, objects, receipts, clock, faults>>

(* Mutation: the limit is tested before the receipts are compared. *)
ScanThrowsWhenFull(p) ==
  /\ Busy(p, "scan")
  /\ \/ Unreadable # {}
     \/ \E r \in Matches(p) : ~Verifies(r)
     \/ Full(p)
  /\ Throw(p)
  /\ UNCHANGED <<dirs, objects, receipts, clock, faults>>

ScanThrows(p) ==
  /\ Busy(p, "scan")
  /\ \/ Unreadable # {}
     \/ \E r \in Matches(p) : ~Verifies(r)
     \/ Matches(p) = {} /\ Full(p)
  /\ Throw(p)
  /\ UNCHANGED <<dirs, objects, receipts, clock, faults>>

FindNothing(p) ==
  /\ Busy(p, "scan")
  /\ Unreadable = {} /\ Matches(p) = {} /\ ~Full(p)
  /\ Goto(p, "object")
  /\ UNCHANGED <<dirs, objects, receipts, returned, clock, faults>>

(* writeExclusiveOrCompare: written, or found with the same bytes. *)
ObjectAgrees(p) == objects[call[p].subject.doc] \in {"absent", "whole"}

(* Mutation: an object that exists is not compared with the document.      *)
WriteObjectRegardless(p) ==
  /\ Busy(p, "object")
  /\ objects' = [objects EXCEPT ![call[p].subject.doc] = IF @ = "absent" THEN "whole" ELSE @]
  /\ Goto(p, "receipt")
  /\ UNCHANGED <<dirs, receipts, returned, clock, faults>>

WriteObject(p) ==
  /\ Busy(p, "object")
  /\ IF ObjectAgrees(p)
       THEN /\ objects' = [objects EXCEPT ![call[p].subject.doc] = "whole"]
            /\ Goto(p, "receipt") /\ UNCHANGED returned
       ELSE Throw(p) /\ UNCHANGED objects
  /\ UNCHANGED <<dirs, receipts, clock, faults>>

(* The write fails, before the file exists or when part of it is there; so *)
(* does the write of the receipt.                                          *)
ObjectFails(p) ==
  /\ Busy(p, "object")
  /\ objects[call[p].subject.doc] = "absent"
  /\ Fault
  /\ \E left \in {"absent", "cut"} : objects' = [objects EXCEPT ![call[p].subject.doc] = left]
  /\ \/ Throw(p)
     \/ Goto(p, "dead") /\ UNCHANGED returned
  /\ UNCHANGED <<dirs, receipts, clock>>

WriteReceipt(p) ==
  /\ Busy(p, "receipt")
  /\ receipts' = receipts \cup {[subject |-> call[p].subject, state |-> "whole"]}
  /\ Goto(p, "verify")
  /\ UNCHANGED <<dirs, objects, returned, clock, faults>>

ReceiptFails(p) ==
  /\ Busy(p, "receipt")
  /\ Fault
  /\ \E left \in {{}, {[subject |-> call[p].subject, state |-> "cut"]}} :
       receipts' = receipts \cup left
  /\ \/ Throw(p)
     \/ Goto(p, "dead") /\ UNCHANGED returned
  /\ UNCHANGED <<dirs, objects, clock>>

(* archive ends with verify of the receipt it has just written. *)
VerifyReceipt(p) ==
  /\ Busy(p, "verify")
  /\ \E r \in receipts : /\ r.subject = call[p].subject
                         /\ IF Verifies(r) THEN Return(p, r) ELSE Throw(p)
  /\ UNCHANGED <<dirs, objects, receipts, clock, faults>>

Crash(p) == /\ call[p].pc \notin {"start", "refused", "dead"}
            /\ call' = [call EXCEPT ![p].pc = "dead", ![p].subject = None]
            /\ UNCHANGED <<dirs, objects, receipts, returned, clock, faults>>

(* Somebody alters a file of the archive behind its back. *)
AlterObject(d) ==
  /\ objects[d] = "whole"
  /\ Fault
  /\ objects' = [objects EXCEPT ![d] = "altered"]
  /\ UNCHANGED <<dirs, receipts, call, returned, clock>>

AlterReceipt(r) ==
  /\ Whole(r)
  /\ Fault
  /\ receipts' = (receipts \ {r}) \cup {[r EXCEPT !.state = "altered"]}
  /\ UNCHANGED <<dirs, objects, call, returned, clock>>

Tick == /\ clock < MaxTime
        /\ clock' = clock + 1
        /\ UNCHANGED <<dirs, objects, receipts, call, returned, faults>>

Next ==
  \/ \E p \in Procs :
       \/ Start(p) \/ MakeDirectory(p) \/ DirectoryExists(p)
       \/ \E doc \in Documents, terms \in Terms : Begin(p, doc, terms)
       \/ FindExisting(p) \/ ScanThrows(p) \/ FindNothing(p)
       \/ WriteObject(p) \/ ObjectFails(p)
       \/ WriteReceipt(p) \/ ReceiptFails(p)
       \/ VerifyReceipt(p)
       \/ Crash(p)
  \/ \E d \in Documents : AlterObject(d)
  \/ \E r \in receipts : AlterReceipt(r)
  \/ Tick

Spec == Init /\ [][Next]_vars

-----------------------------------------------------------------------------
TypeOK ==
  /\ dirs \in 0 .. Directories
  /\ objects \in [Documents -> {"absent", "cut", "whole", "altered"}]
  /\ receipts \subseteq Receipt
  /\ call \in [Procs -> Call]
  /\ returned \subseteq Subject
  /\ clock \in 0 .. MaxTime
  /\ faults \in 0 .. MaxFaults

(* Hazard: a death or a failing write between the object and the receipt   *)
(* of a call.  Whatever is cut short, a receipt that can be read speaks of *)
(* an object that was written completely before it.                        *)
ReceiptAfterObject ==
  \A r \in receipts : Whole(r) => objects[r.subject.doc] \in {"whole", "altered"}

(* Hazard: the archive time is part of the path of a receipt, so that the  *)
(* same request never meets its old receipt by its path.  However calls,   *)
(* failures and the clock interleave, a document has at most one receipt,  *)
(* readable or not, for each retention it was archived with.               *)
OneReceiptPerRequest ==
  \A r, s \in receipts : SameRequest(r.subject, s.subject) => r = s

(* Hazard: a file is altered between its writing and the return of its     *)
(* receipt, or between two returns of one receipt.  Whenever a call        *)
(* returns, the first time or again, what it returns is a receipt for the  *)
(* request that was made, it and its object are intact at that moment, and *)
(* it is the receipt that every earlier call with that request returned.   *)
ReturnedWhenIntact ==
  [][\A p \in Procs : call[p].pc # "returned" /\ call'[p].pc = "returned" =>
       LET s == call'[p].subject
       IN /\ SameRequest(s, call[p].subject)
          /\ \E r \in receipts : r.subject = s /\ Verifies(r)
          /\ \A t \in returned : SameRequest(t, s) => t = s]_vars

(* Hazard: a call that failed half way is repeated, or a request is made   *)
(* again once the archive is full.  A call throws only when a write fails  *)
(* in that very step, when a receipt, or the object of this document, is   *)
(* cut or altered, or when the archive is full and no call with the same   *)
(* request ever returned: what earlier calls left whole never blocks, and  *)
(* the limit never turns down a request that was answered before.          *)
RefusedOnlyForDamage ==
  [][\A p \in Procs : call[p].pc \in Within /\ call'[p].pc = "thrown" =>
       \/ faults' # faults
       \/ Unreadable # {}
       \/ objects[call[p].subject.doc] \in {"cut", "altered"}
       \/ /\ Cardinality(receipts) >= MaxReceipts
          /\ \A s \in returned : ~SameRequest(s, call[p].subject)]_vars

(* packages/factory/README.md: "Other commands include [...]               *)
(* `archive-evidence`, `verify-archive`": one process archives and another *)
(* verifies.  A complete archive that nobody is about to make can be       *)
(* opened.                                                                 *)
ArchiveCanBeReopened ==
  \A p \in Procs : Busy(p, "refused") =>
    \/ dirs < Directories
    \/ \E q \in Procs : Busy(q, "opening")
=============================================================================
