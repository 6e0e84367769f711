--------------------------- MODULE QueueLockProofs ---------------------------
(***************************************************************************)
(* The queue's mutex, for any number of calls: of any number of processes  *)
(* as long as none dies or exits, and of two processes that die and exit   *)
(* whenever they will.  (With three, one that dies or exits is enough for  *)
(* the live lock of another to be taken away: run lock_exit.)  Either way  *)
(* a process that is about to move a lock away is the only one alive, so   *)
(* that no live process loses its lock but by releasing it, and a lock     *)
(* that names a live process names the one between its acquisition and the *)
(* unlink of its owner file.                                               *)
(***************************************************************************)
EXTENDS QueueLock, FiniteSetTheorems, TLAPS

(* The steps at which a process owns the lock. *)
Owning == Critical \cup {"release", "unlink"}

(* There are no deaths, or there is no third process. *)
Untroubled ==
  \/ MaxCrashes = 0 /\ MayExit = FALSE
  \/ \A p, q, r \in Procs : p = q \/ q = r \/ p = r

LockInv ==
  /\ TypeOK
  /\ MaxCrashes = 0 /\ MayExit = FALSE => dead = {}
  /\ \A p \in Procs : pc[p] \notin {"idle", "failed"} => call[p] >= 1
  /\ \A p \in Procs : At(p, "quarantine") => Procs \ {p} \subseteq dead
  /\ \A p \in Procs \ dead : pc[p] \in Owning => lock = Me(p)
  /\ lock \in Owners /\ lock[1] \notin dead =>
       lock = Me(lock[1]) /\ pc[lock[1]] \in Owning
  /\ \A p \in Procs : At(p, "write") => found[p] = leasedTo
  /\ granted = {leasedTo} \cap Procs

LEMMA MeIsOwner ==
  ASSUME TypeOK, NEW p \in Procs, call[p] >= 1
  PROVE  /\ Me(p) \in Owners /\ Me(p)[1] = p
         /\ Me(p) # NoDir /\ Me(p) # EmptyDir
BY LockAssumption, LockValuesAssumption DEF TypeOK, Me, Owners

LEMMA LockInit == Init => LockInv
<1> SUFFICES ASSUME Init PROVE LockInv
  OBVIOUS
<1>1. TypeOK
  BY LockAssumption, LockValuesAssumption
     DEF Init, TypeOK, Steps, Waiting, Critical, Releasing
<1> QED
  BY <1>1, LockValuesAssumption DEF Init, LockInv, At, Owning, Critical

(* A step of a process outside that leaves the lock and the task alone,    *)
(* and comes to "quarantine" only when all others are dead.                *)
LEMMA OutsideStep ==
  ASSUME LockInv, NEW p \in Procs \ dead, pc[p] \in Waiting,
         NEW step \in (Waiting \ {"verify"}) \cup {"idle", "failed"},
         pc' = [pc EXCEPT ![p] = step],
         step = "quarantine" => Procs \ {p} \subseteq dead,
         seen' \in [Procs -> Owners \cup {NoDir}],
         quarantine' \in [Procs -> Owners \cup {NoDir, EmptyDir}],
         UNCHANGED <<lock, call, world, claim>>
  PROVE  LockInv'
<1>1. TypeOK'
  BY DEF LockInv, TypeOK, Steps, Waiting, world, claim
<1>2. /\ lock' = lock /\ call' = call /\ found' = found /\ leasedTo' = leasedTo
      /\ granted' = granted /\ dead' = dead
      /\ pc'[p] = step
      /\ \A q \in Procs \ {p} : pc'[q] = pc[q]
  BY DEF LockInv, TypeOK, claim, world
<1>3. /\ step \notin Owning /\ pc[p] \notin Owning /\ step # "write"
      /\ pc[p] \notin {"idle", "failed"}
  BY DEF Owning, Critical, Waiting
<1>4. \A q \in Procs : Me(q)' = Me(q)
  BY <1>2 DEF Me
<1>5. lock \in Owners => lock[1] \in Procs
  BY DEF Owners
<1>6. lock' \in Owners /\ lock'[1] \notin dead' =>
        lock' = Me(lock[1])' /\ pc'[lock'[1]] \in Owning
  BY <1>2, <1>3, <1>4, <1>5 DEF LockInv
<1>7. \A q \in Procs \ dead : pc'[q] \in Owning => lock' = Me(q)'
  BY <1>2, <1>3, <1>4 DEF LockInv
<1>8. \A q \in Procs : /\ pc'[q] \notin {"idle", "failed"} => call'[q] >= 1
                       /\ At(q, "quarantine")' => Procs \ {q} \subseteq dead'
                       /\ At(q, "write")' => found'[q] = leasedTo'
  BY <1>2, <1>3 DEF LockInv, At
<1> QED BY <1>1, <1>2, <1>6, <1>7, <1>8 DEF LockInv

LEMMA LockStep ==
  ASSUME Untroubled, LockInv, [Next]_vars
  PROVE  LockInv'
<1> USE LockAssumption, LockValuesAssumption
<1>0. TypeOK
  BY DEF LockInv
<1>1. CASE UNCHANGED vars
  BY <1>1 DEF LockInv, TypeOK, vars, Me, At, world, claim
<1>2. ASSUME NEW p \in Procs, Begin(p) PROVE LockInv'
  BY <1>2 DEF Begin, Goto, LockInv, TypeOK, At, Me, Owners, Owning, Steps,
     Waiting, Critical, Releasing, world, claim
<1>3. ASSUME NEW p \in Procs, RenameSucceeds(p) PROVE LockInv'
  BY <1>0, <1>3, MeIsOwner DEF RenameSucceeds, At, Goto, LockInv, TypeOK, Me,
     Owners, Owning, Steps, Waiting, Critical, Releasing, world, claim
<1>4. ASSUME NEW p \in Procs,
             \/ RenameRefused(p) \/ Lstat(p) \/ Readdir(p) \/ EmptyDirYoung(p)
             \/ ListOwner(p) \/ OpenOwner(p) \/ CheckAlive(p)
             \/ VerifyMoved(p) \/ Poll(p) \/ TimeOut(p)
      PROVE  LockInv'
  <2> DEFINE step == pc'[p]
  <2>1. /\ p \in Procs \ dead /\ pc[p] \in Waiting
        /\ UNCHANGED <<lock, call, world, claim>>
    BY <1>4 DEF RenameRefused, Lstat, Readdir, EmptyDirYoung, ListOwner,
       OpenOwner, CheckAlive, VerifyMoved, Poll, TimeOut, At, Goto, Waiting
  <2>2. /\ pc' = [pc EXCEPT ![p] = step]
        /\ step \in (Waiting \ {"verify"}) \cup {"idle", "failed"}
    BY <1>0, <1>4 DEF RenameRefused, Lstat, Readdir, EmptyDirYoung, ListOwner,
       OpenOwner, CheckAlive, VerifyMoved, Poll, TimeOut, At, Goto, TypeOK, Waiting
  <2>3. seen' \in [Procs -> Owners \cup {NoDir}]
    BY <1>0, <1>4 DEF RenameRefused, Lstat, Readdir, EmptyDirYoung, ListOwner,
       OpenOwner, CheckAlive, VerifyMoved, Poll, TimeOut, At, Goto, TypeOK
  <2>4. quarantine' \in [Procs -> Owners \cup {NoDir, EmptyDir}]
    BY <1>0, <1>4 DEF RenameRefused, Lstat, Readdir, EmptyDirYoung, ListOwner,
       OpenOwner, CheckAlive, VerifyMoved, Poll, TimeOut, At, Goto, TypeOK
  <2>5. ASSUME step = "quarantine" PROVE Procs \ {p} \subseteq dead
    <3>1. seen[p][1] \in dead
      BY <1>0, <1>4, <2>5 DEF RenameRefused, Lstat, Readdir, EmptyDirYoung, ListOwner,
         OpenOwner, CheckAlive, VerifyMoved, Poll, TimeOut, At, Goto, TypeOK
    <3>2. seen[p][1] \in Procs /\ seen[p][1] # p /\ dead # {}
      BY <1>0, <2>1, <3>1 DEF TypeOK
    <3> QED BY <3>1, <3>2 DEF Untroubled, LockInv
  <2> HIDE DEF step
  <2> QED BY <2>1, <2>2, <2>3, <2>4, <2>5, OutsideStep
<1>5. ASSUME NEW p \in Procs, EmptyDirOld(p) PROVE LockInv'
  BY <1>0, <1>5, MeIsOwner DEF EmptyDirOld, At, Goto, LockInv, TypeOK, Me,
     Owners, Owning, Steps, Waiting, Critical, Releasing, world, claim
<1>6. ASSUME NEW p \in Procs, MoveAway(p) PROVE LockInv'
  <2>1. /\ p \notin dead /\ pc[p] = "quarantine" /\ Procs \ {p} \subseteq dead
        /\ lock' = NoDir /\ pc' = [pc EXCEPT ![p] = pc'[p]]
        /\ pc'[p] \in {"recovered", "verify"}
        /\ quarantine' = [quarantine EXCEPT ![p] = lock]
        /\ UNCHANGED <<call, seen, world, claim>>
    BY <1>0, <1>6 DEF MoveAway, At, Goto, LockInv, TypeOK
  <2> QED BY <1>0, <2>1 DEF At, LockInv, TypeOK, Me, Owning, Steps, Waiting, Critical,
             Releasing, world, claim
<1>7. ASSUME NEW p \in Procs, ReadTask(p) \/ OtherTask(p) PROVE LockInv'
  BY <1>0, <1>7 DEF ReadTask, OtherTask, At, Goto, LockInv, TypeOK, Me,
     Owning, Steps, Waiting, Critical, Releasing, world, claim
<1>8. ASSUME NEW p \in Procs, WriteTask(p) PROVE LockInv'
  BY <1>0, <1>8, MeIsOwner DEF WriteTask, At, Goto, LockInv, TypeOK, Me,
     Owning, Steps, Waiting, Critical, Releasing, world, claim
<1>9. ASSUME NEW p \in Procs, CheckOwner(p) PROVE LockInv'
  BY <1>0, <1>9 DEF CheckOwner, At, Goto, LockInv, TypeOK, Me,
     Owning, Steps, Waiting, Critical, Releasing, world, claim
<1>10. ASSUME NEW p \in Procs, UnlinkOwner(p) PROVE LockInv'
  BY <1>0, <1>10, MeIsOwner DEF UnlinkOwner, At, Goto, LockInv, TypeOK, Me,
     Owning, Steps, Waiting, Critical, Releasing, world, claim
<1>11. ASSUME NEW p \in Procs, RemoveDir(p) PROVE LockInv'
  BY <1>0, <1>11, MeIsOwner DEF RemoveDir, At, Goto, LockInv, TypeOK, Me,
     Owners, Owning, Steps, Waiting, Critical, Releasing, world, claim
<1>12. ASSUME NEW p \in Procs, Crash(p) \/ Exit(p) PROVE LockInv'
  <2>1. /\ dead' = dead \cup {p} /\ crashes' \in 0 .. MaxCrashes
        /\ ~(MaxCrashes = 0 /\ MayExit = FALSE)
        /\ UNCHANGED <<lock, pc, call, seen, quarantine, claim>>
    BY <1>0, <1>12 DEF Crash, Exit, TypeOK
  <2> QED BY <1>0, <2>1 DEF At, LockInv, TypeOK, Me, claim
<1> QED
  BY <1>1, <1>2, <1>3, <1>4, <1>5, <1>6, <1>7, <1>8, <1>9, <1>10, <1>11, <1>12
     DEF Next, Proceed

(* As long as no process dies, or there are but two, at most one live      *)
(* process is between readRecord and writeRecord, whatever the others do   *)
(* to mutation.lock meanwhile.                                             *)
THEOREM MutualExclusionTheorem ==
  ASSUME Untroubled
  PROVE  Spec => []MutualExclusion
<1>1. LockInv => MutualExclusion
  BY DEF LockInv, MutualExclusion, Inside, Owning, Me
<1>2. LockInv /\ [Next]_vars => LockInv'
  BY LockStep
<1> QED BY <1>1, <1>2, LockInit, PTL DEF Spec

(* As long as no process dies, or there are but two, the read and the      *)
(* write of one claim are atomic to the others, so a task is claimed at    *)
(* most once.                                                              *)
THEOREM ClaimedOnceTheorem ==
  ASSUME Untroubled
  PROVE  Spec => []ClaimedOnce
<1>1. LockInv => ClaimedOnce
  <2> SUFFICES ASSUME LockInv PROVE Cardinality(granted) <= 1
    BY DEF ClaimedOnce
  <2>1. granted \subseteq {leasedTo}
    BY DEF LockInv
  <2>2. IsFiniteSet({leasedTo}) /\ Cardinality({leasedTo}) = 1
    BY FS_Singleton
  <2>3. Cardinality(granted) <= Cardinality({leasedTo})
    BY <2>1, <2>2, FS_Subset
  <2> QED BY <2>2, <2>3
<1>2. LockInv /\ [Next]_vars => LockInv'
  BY LockStep
<1> QED BY <1>1, <1>2, LockInit, PTL DEF Spec

(* As long as no process dies, or there are but two, a lock that names a   *)
(* live process belongs to one on its way to remove it: no call leaves its *)
(* lock behind.                                                            *)
THEOREM LiveOwnerTheorem ==
  ASSUME Untroubled
  PROVE  Spec => []LiveOwnerIsInside
<1>1. LockInv => LiveOwnerIsInside
  BY DEF LockInv, LiveOwnerIsInside, Owning
<1>2. LockInv /\ [Next]_vars => LockInv'
  BY LockStep
<1> QED BY <1>1, <1>2, LockInit, PTL DEF Spec
=============================================================================
