------------------------------- MODULE HubLock -------------------------------
(***************************************************************************)
(* hub.lock (server/hub-lock.ts), by which a hub claims its config         *)
(* directory before it opens a store. A process is a pid and boots once;   *)
(* it is alive until it exits. Every call into the file system is a step   *)
(* of its own, and processes interleave between them. All processes are on *)
(* one host. A new lock file is empty, and reads as no lock, until its     *)
(* content is written; the content goes to the file that was created, even *)
(* if that has been unlinked since.                                        *)
(***************************************************************************)
EXTENDS FiniteSets, Naturals

CONSTANT Pids

ASSUME PidsFinite == IsFiniteSet(Pids)

VARIABLES
  lockFile,    \* the file's writer and whether it has its content, or NoFile
  pc,          \* where each process is
  overlapped   \* whether two processes have ever been acquiring at once

lockVars == <<lockFile, pc, overlapped>>

NoFile == [by |-> {}, full |-> FALSE]
File(p, full) == [by |-> {p}, full |-> full]

Acquiring == {"read", "unlink", "create", "write", "reread", "unlink again", "create again"}
\* The stores are open from the first one on. The hub may update its lock
\* while it serves.
StoresOpen == {"open", "serving", "rename again"}
Owning == {"owner", "rename", "opening"} \cup StoresOpen
Gone == {"refused", "dead"}

LockInit ==
  /\ lockFile = NoFile
  /\ pc = [p \in Pids |-> "off"]
  /\ overlapped = FALSE

Alive(p) == pc[p] \notin Gone \cup {"off"}

\* Mutation: a process that may not be signalled counts as dead.
OwnUserOnly(p) == FALSE

\* readHubLock finds a lock, and it is a live other process's.
HeldByOther(p) == lockFile.full /\ \E q \in lockFile.by \ {p} : Alive(q)

Mine(p) == lockFile = File(p, TRUE)

\* p goes on; two acquiring at once are noted.
Goto(p, next) ==
  /\ pc' = [pc EXCEPT ![p] = next]
  /\ overlapped' = (overlapped \/ Cardinality({q \in Pids : pc'[q] \in Acquiring}) > 1)

At(p, here) == pc[p] = here

-----------------------------------------------------------------------------
(* assertConfigDirNotOwnedByAnotherLiveHubOrListeningHub: a look at the    *)
(* lock, and a request to the port, which may time out.                    *)

Boot(p) == At(p, "off") /\ Goto(p, "check") /\ UNCHANGED lockFile

CheckLock(p) ==
  /\ At(p, "check")
  /\ Goto(p, IF HeldByOther(p) THEN "refused" ELSE "probe")
  /\ UNCHANGED lockFile

ProbeHealth(p, answered) ==
  /\ At(p, "probe")
  /\ answered => \E q \in Pids \ {p} : pc[q] \in {"serving", "rename again"}
  /\ Goto(p, IF answered THEN "refused" ELSE "read")
  /\ UNCHANGED lockFile

-----------------------------------------------------------------------------
(* acquireHubLockOrThrow.                                                  *)

ReadLock(p) ==
  /\ At(p, "read")
  /\ Goto(p, IF HeldByOther(p) THEN "refused" ELSE IF lockFile.full THEN "unlink" ELSE "create")
  /\ UNCHANGED lockFile

UnlinkStale(p) == At(p, "unlink") /\ lockFile' = NoFile /\ Goto(p, "create")

\* The exclusive create.
CreateLock(p) ==
  /\ At(p, "create")
  /\ IF lockFile = NoFile
     THEN lockFile' = File(p, FALSE) /\ Goto(p, "write")
     ELSE UNCHANGED lockFile /\ Goto(p, "reread")

WriteLock(p) ==
  /\ At(p, "write")
  /\ lockFile' = IF lockFile = File(p, FALSE) THEN File(p, TRUE) ELSE lockFile
  /\ Goto(p, "owner")

\* Mutation: a file without content is taken for somebody's lock.
RefuseGarbled(p) ==
  /\ At(p, "reread")
  /\ Goto(p, IF HeldByOther(p) \/ ~lockFile.full THEN "refused" ELSE "unlink again")
  /\ UNCHANGED lockFile

RereadLock(p) ==
  /\ At(p, "reread")
  /\ Goto(p, IF HeldByOther(p) THEN "refused" ELSE "unlink again")
  /\ UNCHANGED lockFile

\* One more try: a missing file fails it as an existing one does below.
UnlinkAgain(p) ==
  /\ At(p, "unlink again")
  /\ lockFile' = NoFile
  /\ Goto(p, IF lockFile = NoFile THEN "refused" ELSE "create again")

CreateAgain(p) ==
  /\ At(p, "create again")
  /\ IF lockFile = NoFile
     THEN lockFile' = File(p, FALSE) /\ Goto(p, "write")
     ELSE UNCHANGED lockFile /\ Goto(p, "refused")

-----------------------------------------------------------------------------
(* The owner updates its lock (updateHubLockBestEffort), opens the stores, *)
(* listens and updates the lock again, and releases it when it exits       *)
(* (releaseHubLockBestEffort).                                             *)

ReadToUpdate(p) ==
  /\ \/ At(p, "owner") /\ Goto(p, IF Mine(p) THEN "rename" ELSE "opening")
     \/ At(p, "serving") /\ Goto(p, IF Mine(p) THEN "rename again" ELSE "serving")
  /\ UNCHANGED lockFile

RenameOver(p) ==
  /\ \/ At(p, "rename") /\ Goto(p, "opening")
     \/ At(p, "rename again") /\ Goto(p, "serving")
  /\ lockFile' = File(p, TRUE)

\* Each store is guarded by another look at the lock: one that names another
\* live process turns this one away, and one that is gone or empty does not.
OpenStore(p) ==
  /\ pc[p] \in {"opening", "open"}
  /\ Goto(p, IF HeldByOther(p) THEN "turned away" ELSE "open")
  /\ UNCHANGED lockFile

Listen(p) == At(p, "open") /\ Goto(p, "serving") /\ UNCHANGED lockFile

\* The stores are closed before the lock is released.
Shutdown(p) == pc[p] \in {"open", "serving"} /\ Goto(p, "release") /\ UNCHANGED lockFile

ReadToRelease(p) ==
  /\ pc[p] \in {"release", "turned away"}
  /\ Goto(p, IF Mine(p) THEN "remove" ELSE "dead")
  /\ UNCHANGED lockFile

RemoveLock(p) == At(p, "remove") /\ lockFile' = NoFile /\ Goto(p, "dead")

\* Killed: no handler runs, and the file stays as it is.
Kill(p) == Alive(p) /\ Goto(p, "dead") /\ UNCHANGED lockFile

LockStep(p) ==
  \/ Boot(p) \/ CheckLock(p) \/ (\E answered \in BOOLEAN : ProbeHealth(p, answered))
  \/ ReadLock(p) \/ UnlinkStale(p) \/ CreateLock(p) \/ WriteLock(p)
  \/ RereadLock(p) \/ UnlinkAgain(p) \/ CreateAgain(p)
  \/ ReadToUpdate(p) \/ RenameOver(p) \/ OpenStore(p) \/ Listen(p)
  \/ Shutdown(p) \/ ReadToRelease(p) \/ RemoveLock(p)
  \/ Kill(p)

LockNext == \E p \in Pids : LockStep(p)

LockSpec == LockInit /\ [][LockNext]_lockVars

-----------------------------------------------------------------------------
(* Properties                                                              *)

\* Of hubs that start at the same time only one comes to open the stores.
OneHub == Cardinality({p \in Pids : pc[p] \in StoresOpen}) <= 1

\* As long as acquisitions do not overlap there is one owner, whose lock is in
\* place, whatever was killed and whatever stale or empty file it left behind.
SerialOneHub ==
  ~overlapped => /\ Cardinality({p \in Pids : pc[p] \in Owning}) <= 1
                 /\ \A p \in Pids : pc[p] \in Owning => Mine(p)

\* As long as acquisitions do not overlap, a boot is refused, by the lock, by
\* the port or by the guard of a store, only while another process lives: a
\* lock that a killed hub left behind, in whatever state, does not keep the
\* next one out.
RefusedByLive ==
  [][\A p \in Pids :
       ~overlapped /\ pc[p] # pc'[p] /\ pc'[p] \in {"refused", "turned away"} =>
         \E q \in Pids \ {p} : Alive(q)]_lockVars
=============================================================================
