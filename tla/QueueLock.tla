------------------------------ MODULE QueueLock ------------------------------
(***************************************************************************)
(* The mutex of the task queue: a directory `mutation.lock` that holds one *)
(* file, owner.json.  A process prepares such a directory under tmp/ with  *)
(* its own identity inside and renames it into place; releasing the lock   *)
(* removes the file and then the directory.  A process that finds the lock *)
(* taken looks whether its owner is still alive, and moves the lock of a   *)
(* dead owner away.  Each file-system call is a step of its own, processes *)
(* die or exit between any two of them.                                    *)
(*                                                                         *)
(* rename(2) replaces an EMPTY directory and refuses a non-empty one; an   *)
(* owner file is complete before its directory is renamed into place.  The *)
(* private directories of a process (candidate, quarantine) have random    *)
(* names, so only their content matters here.  LOCK_WAIT_MS is real time:  *)
(* a test of it may come out either way.                                   *)
(*                                                                         *)
(* The critical section is a claim of one queued task, which reads its     *)
(* record and, if it is queued, writes the record that leases it, or a     *)
(* call on some other task.                                                *)
(***************************************************************************)
EXTENDS Integers, FiniteSets

CONSTANTS
  Procs,       \* operating-system processes that use the queue
  MaxCalls,    \* how many queue calls a process makes
  MaxCrashes,  \* how many processes may die in the middle of a call
  MayExit,     \* whether a process may exit between two calls
  NoDir,       \* mutation.lock does not exist
  EmptyDir,    \* mutation.lock exists without an owner file
  Nobody       \* no process

ASSUME LockAssumption ==
  /\ MaxCalls \in Nat /\ MaxCrashes \in Nat /\ MayExit \in BOOLEAN
  /\ IsFiniteSet(Procs)

(* An owner file: the process id, and the call standing for its token.     *)
Owners == Procs \X (1 .. MaxCalls)

ASSUME LockValuesAssumption ==
  /\ NoDir # EmptyDir
  /\ NoDir \notin Owners /\ EmptyDir \notin Owners
  /\ Nobody \notin Procs

VARIABLES
  lock,     \* the directory mutation.lock: NoDir, EmptyDir or its owner
  pc,       \* the step each process is at
  call,     \* the number of calls each process has begun
  seen,     \* the owner a process read while trying to recover the lock
  quarantine, \* the directory a process moved away
  dead,     \* processes that died or exited
  crashes,  \* how many of them died in the middle of a call
  leasedTo, \* the process the task record on disk is leased to
  found,    \* what a process read from the task record
  granted   \* processes whose claim wrote a lease

vars == <<lock, pc, call, seen, quarantine, dead, crashes, leasedTo, found,
          granted>>

claim == <<leasedTo, found, granted>>
world == <<dead, crashes>>

Waiting  == {"rename", "lstat", "readdir", "emptyDir", "readOwner", "openOwner",
             "checkAlive", "quarantine", "verify", "recovered", "wait"}
Critical == {"read", "write"}
Releasing == {"release", "unlink", "rmdir"}
Steps == {"idle", "failed"} \cup Waiting \cup Critical \cup Releasing

Me(p) == <<p, call[p]>>

At(p, step) == p \notin dead /\ pc[p] = step
Goto(p, step) == pc' = [pc EXCEPT ![p] = step]

-----------------------------------------------------------------------------
Init ==
  /\ lock = NoDir
  /\ pc = [p \in Procs |-> "idle"]
  /\ call = [p \in Procs |-> 0]
  /\ seen = [p \in Procs |-> NoDir]
  /\ quarantine = [p \in Procs |-> NoDir]
  /\ dead = {}
  /\ crashes = 0
  /\ leasedTo = Nobody
  /\ found = [p \in Procs |-> Nobody]
  /\ granted = {}

(* withLock: a candidate with a fresh identity. *)
Begin(p) ==
  /\ pc[p] \in {"idle", "failed"} /\ p \notin dead
  /\ call[p] < MaxCalls
  /\ call' = [call EXCEPT ![p] = @ + 1]
  /\ Goto(p, "rename")
  /\ UNCHANGED <<lock, seen, quarantine, world, claim>>

(* Mutation: the rename replaces a lock that is held. *)
RenameReplaces(p) ==
  /\ At(p, "rename")
  /\ lock' = Me(p)
  /\ Goto(p, "read")
  /\ UNCHANGED <<call, seen, quarantine, world, claim>>

RenameSucceeds(p) ==
  /\ At(p, "rename")
  /\ lock \in {NoDir, EmptyDir}
  /\ lock' = Me(p)
  /\ Goto(p, "read")
  /\ UNCHANGED <<call, seen, quarantine, world, claim>>

RenameRefused(p) ==
  /\ At(p, "rename")
  /\ lock \notin {NoDir, EmptyDir}
  /\ Goto(p, "lstat")
  /\ UNCHANGED <<lock, call, seen, quarantine, world, claim>>

(* tryRecoverAbandonedLock, call by call.  "recovered" is its answer true, *)
(* "wait" its answer false, "failed" an error that leaves withLock.        *)
Lstat(p) ==
  /\ At(p, "lstat")
  /\ Goto(p, IF lock = NoDir THEN "recovered" ELSE "readdir")
  /\ UNCHANGED <<lock, call, seen, quarantine, world, claim>>

Readdir(p) ==
  /\ At(p, "readdir")
  /\ Goto(p, CASE lock = NoDir    -> "failed"
               [] lock = EmptyDir -> "emptyDir"
               [] OTHER           -> "readOwner")
  /\ UNCHANGED <<lock, call, seen, quarantine, world, claim>>

(* A young empty directory is left alone. *)
EmptyDirYoung(p) ==
  /\ At(p, "emptyDir")
  /\ Goto(p, "wait")
  /\ UNCHANGED <<lock, call, seen, quarantine, world, claim>>

EmptyDirOld(p) ==
  /\ At(p, "emptyDir")
  /\ lock' = IF lock = EmptyDir THEN NoDir ELSE lock
  /\ Goto(p, "recovered")
  /\ UNCHANGED <<call, seen, quarantine, world, claim>>

(* readLockOwner lists the directory again, then opens the owner file.     *)
ListOwner(p) ==
  /\ At(p, "readOwner")
  /\ Goto(p, IF lock \in {NoDir, EmptyDir} THEN "failed" ELSE "openOwner")
  /\ UNCHANGED <<lock, call, seen, quarantine, world, claim>>

OpenOwner(p) ==
  /\ At(p, "openOwner")
  /\ IF lock \in {NoDir, EmptyDir}
       THEN Goto(p, "failed") /\ UNCHANGED seen
       ELSE Goto(p, "checkAlive") /\ seen' = [seen EXCEPT ![p] = lock]
  /\ UNCHANGED <<lock, call, quarantine, world, claim>>

(* Mutations: every owner counts as dead, or as alive. *)
PresumeDead(p) ==
  /\ At(p, "checkAlive")
  /\ Goto(p, "quarantine")
  /\ UNCHANGED <<lock, call, seen, quarantine, world, claim>>

PresumeAlive(p) ==
  /\ At(p, "checkAlive")
  /\ Goto(p, "wait")
  /\ UNCHANGED <<lock, call, seen, quarantine, world, claim>>

CheckAlive(p) ==
  /\ At(p, "checkAlive")
  /\ Goto(p, IF seen[p][1] \in dead THEN "quarantine" ELSE "wait")
  /\ UNCHANGED <<lock, call, seen, quarantine, world, claim>>

(* The rename moves whatever is at mutation.lock by now. *)
MoveAway(p) ==
  /\ At(p, "quarantine")
  /\ quarantine' = [quarantine EXCEPT ![p] = lock]
  /\ lock' = NoDir
  /\ Goto(p, IF lock = NoDir THEN "recovered" ELSE "verify")
  /\ UNCHANGED <<call, seen, world, claim>>

VerifyMoved(p) ==
  /\ At(p, "verify")
  /\ Goto(p, IF quarantine[p] = seen[p] THEN "recovered" ELSE "failed")
  /\ quarantine' = [quarantine EXCEPT ![p] = NoDir]
  /\ UNCHANGED <<lock, call, seen, world, claim>>

(* The next round, or the call gives up after LOCK_WAIT_MS.                *)
Poll(p) ==
  /\ At(p, "wait") \/ At(p, "recovered")
  /\ Goto(p, "rename")
  /\ UNCHANGED <<lock, call, seen, quarantine, world, claim>>

TimeOut(p) ==
  /\ At(p, "wait") \/ At(p, "recovered")
  /\ Goto(p, "idle")
  /\ UNCHANGED <<lock, call, seen, quarantine, world, claim>>

(* The critical section. *)
ReadTask(p) ==
  /\ At(p, "read")
  /\ found' = [found EXCEPT ![p] = leasedTo]
  /\ Goto(p, "write")
  /\ UNCHANGED <<lock, call, seen, quarantine, world, leasedTo, granted>>

(* A call on some other task. *)
OtherTask(p) ==
  /\ At(p, "read")
  /\ Goto(p, "release")
  /\ UNCHANGED <<lock, call, seen, quarantine, world, claim>>

(* Mutation: the lock is not released. *)
WriteTaskAndKeepLock(p) ==
  /\ At(p, "write")
  /\ leasedTo' = p /\ granted' = granted \cup {p}
  /\ Goto(p, "idle")
  /\ UNCHANGED <<lock, call, seen, quarantine, world, found>>

WriteTask(p) ==
  /\ At(p, "write")
  /\ IF found[p] = Nobody
       THEN leasedTo' = p /\ granted' = granted \cup {p}
       ELSE UNCHANGED <<leasedTo, granted>>
  /\ Goto(p, "release")
  /\ UNCHANGED <<lock, call, seen, quarantine, world, found>>

(* removeOwnedLockDirectory on mutation.lock: look, unlink, rmdir.         *)
CheckOwner(p) ==
  /\ At(p, "release")
  /\ Goto(p, IF lock = Me(p) THEN "unlink" ELSE "failed")
  /\ UNCHANGED <<lock, call, seen, quarantine, world, claim>>

UnlinkOwner(p) ==
  /\ At(p, "unlink")
  /\ IF lock \in {NoDir, EmptyDir}
       THEN Goto(p, "failed") /\ UNCHANGED lock
       ELSE Goto(p, "rmdir") /\ lock' = EmptyDir
  /\ UNCHANGED <<call, seen, quarantine, world, claim>>

RemoveDir(p) ==
  /\ At(p, "rmdir")
  /\ IF lock = EmptyDir
       THEN Goto(p, "idle") /\ lock' = NoDir
       ELSE Goto(p, "failed") /\ UNCHANGED lock
  /\ UNCHANGED <<call, seen, quarantine, world, claim>>

(* The process dies in the middle of a call, or exits between two.         *)
Crash(p) ==
  /\ p \notin dead /\ pc[p] \notin {"idle", "failed"}
  /\ crashes < MaxCrashes
  /\ crashes' = crashes + 1
  /\ dead' = dead \cup {p}
  /\ UNCHANGED <<lock, pc, call, seen, quarantine, claim>>

Exit(p) ==
  /\ MayExit
  /\ p \notin dead /\ pc[p] \in {"idle", "failed"}
  /\ dead' = dead \cup {p}
  /\ UNCHANGED <<lock, pc, call, seen, quarantine, crashes, claim>>

(* The steps that carry a call on, whatever the others do. *)
Proceed(p) ==
  \/ RenameSucceeds(p) \/ RenameRefused(p)
  \/ Lstat(p) \/ Readdir(p) \/ EmptyDirYoung(p) \/ EmptyDirOld(p)
  \/ ListOwner(p) \/ OpenOwner(p) \/ CheckAlive(p)
  \/ MoveAway(p) \/ VerifyMoved(p) \/ Poll(p)
  \/ ReadTask(p) \/ OtherTask(p) \/ WriteTask(p)
  \/ CheckOwner(p) \/ UnlinkOwner(p) \/ RemoveDir(p)

Next == \E p \in Procs :
          Begin(p) \/ Proceed(p) \/ TimeOut(p) \/ Crash(p) \/ Exit(p)

Spec == Init /\ [][Next]_vars

(* A call is synchronous code: a live process carries it on. *)
FairSpec == Spec /\ \A p \in Procs : WF_vars(Proceed(p))

-----------------------------------------------------------------------------
TypeOK ==
  /\ lock \in Owners \cup {NoDir, EmptyDir}
  /\ pc \in [Procs -> Steps]
  /\ call \in [Procs -> 0 .. MaxCalls]
  /\ seen \in [Procs -> Owners \cup {NoDir}]
  /\ quarantine \in [Procs -> Owners \cup {NoDir, EmptyDir}]
  /\ dead \subseteq Procs
  /\ crashes \in 0 .. MaxCrashes
  /\ leasedTo \in Procs \cup {Nobody}
  /\ found \in [Procs -> Procs \cup {Nobody}]
  /\ granted \subseteq Procs

Inside(p) == p \notin dead /\ pc[p] \in Critical

(* Hazard: two processes between readRecord and writeRecord at once, each  *)
(* overwriting what the other decided.                                     *)
MutualExclusion == \A p, q \in Procs : Inside(p) /\ Inside(q) => p = q

(* README: "Concurrent workers can claim a task only once". *)
ClaimedOnce == Cardinality(granted) <= 1

(* Hazard: a live process leaves its lock behind; nobody may take a lock   *)
(* whose owner is alive, so every later call of every process would time   *)
(* out.  A lock owned by a live process belongs to the call that process   *)
(* is in the middle of.                                                    *)
LiveOwnerIsInside ==
  lock \in Owners /\ lock[1] \notin dead =>
    lock = Me(lock[1]) /\ pc[lock[1]] \in Critical \cup {"release", "unlink"}

(* Hazard: a waiter polls for ever, behind a dead owner or behind an empty *)
(* directory a crash left.  Even without its time limit every call of a    *)
(* process that lives on comes to an end.                                  *)
EveryCallEnds ==
  \A p \in Procs : (pc[p] \in Waiting) ~> (pc[p] \notin Waiting \/ p \in dead)
=============================================================================
