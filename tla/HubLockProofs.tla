---------------------------- MODULE HubLockProofs ----------------------------
(***************************************************************************)
(* The hub lock for any number of processes, booted, killed and shut down  *)
(* in any order, as long as no two of them are acquiring at the same time. *)
(*                                                                         *)
(* That a running hub's lock is in place is not inductive: it does not say *)
(* what a process in the middle of an acquisition may do to the file. What *)
(* it knows of the file at each step is Acquisition, and that it has no    *)
(* running hub beside it once it has read the file is Alone.               *)
(***************************************************************************)
EXTENDS HubLock, TLAPS, FiniteSetTheorems

Holding == Owning \cup {"release", "remove", "turned away"}

Where == Acquiring \cup Holding \cup Gone \cup {"off", "check", "probe"}

LockTypeOK ==
  /\ pc \in [Pids -> Where]
  /\ overlapped \in BOOLEAN
  /\ lockFile = NoFile \/ \E p \in Pids, full \in BOOLEAN : lockFile = File(p, full)

OneAcquires == \A p, q \in Pids : pc[p] \in Acquiring /\ pc[q] \in Acquiring => p = q

HoldersFile == \A p \in Pids : pc[p] \in Holding => Mine(p)

\* Past its look at the lock, a process has no holder beside it.
Alone == \A p, q \in Pids : pc[p] \in Acquiring \ {"read"} => pc[q] \notin Holding

\* What a process in the middle of an acquisition knows of the file.
Acquisition ==
  \A p \in Pids :
    /\ pc[p] = "create" => ~lockFile.full
    /\ pc[p] = "write" => lockFile = File(p, FALSE)
    /\ pc[p] = "reread" => ~lockFile.full /\ lockFile # NoFile
    /\ pc[p] = "unlink again" => lockFile # NoFile
    /\ pc[p] = "create again" => lockFile = NoFile

LockInv ==
  /\ LockTypeOK
  /\ ~overlapped => OneAcquires /\ HoldersFile /\ Alone /\ Acquisition

-----------------------------------------------------------------------------
(* Counting processes.                                                     *)

\* A set of processes that has at most one member does not have two.
LEMMA AtMostOne ==
  ASSUME NEW S \in SUBSET Pids, ~(Cardinality(S) > 1), NEW p \in S, NEW q \in S
  PROVE  p = q
<1> SUFFICES ASSUME p # q PROVE FALSE
  OBVIOUS
<1>1. IsFiniteSet(S)
  BY PidsFinite, FS_Subset
<1>2. IsFiniteSet({p, q}) /\ Cardinality({p, q}) = 2
  <2>1. IsFiniteSet({p}) /\ Cardinality({p}) = 1
    BY FS_Singleton
  <2>2. {p, q} = {p} \cup {q} /\ q \notin {p}
    OBVIOUS
  <2> QED BY <2>1, <2>2, FS_AddElement
<1>3. Cardinality({p, q}) <= Cardinality(S)
  BY <1>1, FS_Subset, {p, q} \subseteq S
<1> QED BY <1>1, <1>2, <1>3, FS_CardinalityType

\* A set of processes of which any two are the same has at most one member.
LEMMA AllTheSame ==
  ASSUME NEW S \in SUBSET Pids, \A p, q \in S : p = q
  PROVE  Cardinality(S) <= 1
<1>1. CASE S = {}
  BY <1>1, FS_EmptySet
<1>2. CASE S # {}
  <2>1. PICK p \in S : TRUE
    BY <1>2
  <2>2. S = {p}
    BY <2>1
  <2> QED BY <2>2, FS_Singleton
<1> QED BY <1>1, <1>2

-----------------------------------------------------------------------------
(* The steps.                                                              *)

\* A process goes on: the others stay where they are, and unless acquisitions
\* have overlapped it is at most one that acquires.
LEMMA GotoStep ==
  ASSUME LockTypeOK, NEW p \in Pids, NEW next \in Where, Goto(p, next)
  PROVE  /\ pc' \in [Pids -> Where] /\ pc'[p] = next
         /\ \A q \in Pids \ {p} : pc'[q] = pc[q]
         /\ overlapped' \in BOOLEAN
         /\ ~overlapped' => ~overlapped /\ OneAcquires'
<1>1. /\ pc' \in [Pids -> Where] /\ pc'[p] = next
      /\ \A q \in Pids \ {p} : pc'[q] = pc[q]
      /\ overlapped' \in BOOLEAN
  BY DEF LockTypeOK, Goto
<1>2. ASSUME ~overlapped' PROVE ~overlapped /\ OneAcquires'
  <2> DEFINE S == {q \in Pids : pc'[q] \in Acquiring}
  <2>1. ~overlapped /\ ~(Cardinality(S) > 1)
    BY <1>2 DEF Goto
  <2>2. ASSUME NEW a \in S, NEW b \in S PROVE a = b
    <3> HIDE DEF S
    <3>1. S \in SUBSET Pids
      BY DEF S
    <3> QED BY <2>1, <2>2, <3>1, AtMostOne
  <2> QED BY <2>1, <2>2 DEF OneAcquires
<1> QED BY <1>1, <1>2

\* Every step of a process keeps the invariant.
LEMMA StepKeepsInv ==
  ASSUME LockInv, NEW p \in Pids, LockStep(p)
  PROVE  LockInv'
<1> USE DEF Acquiring, Holding, Owning, StoresOpen, Gone, Where, NoFile, File, Mine, At
<1>0. LockTypeOK /\ pc[p] \in Where
  BY DEF LockInv, LockTypeOK
<1> DEFINE Files == lockFile' = NoFile \/ \E q \in Pids, full \in BOOLEAN : lockFile' = File(q, full)
<1>1. \E next \in Where : Goto(p, next) /\ Files
  BY <1>0 DEF LockStep, Boot, CheckLock, ProbeHealth, ReadLock, UnlinkStale, CreateLock, WriteLock,
       RereadLock, UnlinkAgain, CreateAgain, ReadToUpdate, RenameOver, OpenStore, Listen,
       Shutdown, ReadToRelease, RemoveLock, Kill, LockTypeOK
<1>2. PICK next \in Where : Goto(p, next) /\ Files
  BY <1>1
<1>3. /\ pc' \in [Pids -> Where] /\ pc'[p] = next
      /\ \A q \in Pids \ {p} : pc'[q] = pc[q]
      /\ overlapped' \in BOOLEAN
      /\ ~overlapped' => ~overlapped /\ OneAcquires'
  <2> HIDE DEF Acquiring, Holding, Owning, StoresOpen, Gone, Where, NoFile, File, Mine, At
  <2> QED BY <1>0, <1>2, GotoStep
<1>4. LockTypeOK'
  BY <1>2, <1>3 DEF LockTypeOK
<1>5. ASSUME ~overlapped' PROVE HoldersFile' /\ Alone' /\ Acquisition'
  <2>0. OneAcquires /\ HoldersFile /\ Alone /\ Acquisition /\ OneAcquires'
    BY <1>3, <1>5 DEF LockInv
  <2>1. CASE Boot(p) \/ CheckLock(p) \/ (\E answered \in BOOLEAN : ProbeHealth(p, answered)) \/ Kill(p)
    <3>1. lockFile' = lockFile /\ pc'[p] \in Gone \cup {"check", "probe", "read"}
      BY <1>0, <2>1 DEF Boot, CheckLock, ProbeHealth, Kill, Goto, LockTypeOK
    <3> QED BY <1>3, <2>0, <3>1 DEF HoldersFile, Alone, Acquisition
  <2>2. CASE ReadLock(p)
    <3>1. CASE HeldByOther(p)
      <4>1. lockFile' = lockFile /\ pc'[p] = "refused"
        <5>1. UNCHANGED lockFile /\ Goto(p, "refused")
          BY <2>2, <3>1 DEF ReadLock
        <5> QED BY <1>0, <5>1 DEF Goto, LockTypeOK
      <4> QED BY <1>3, <2>0, <4>1 DEF HoldersFile, Alone, Acquisition
    <3>2. CASE ~HeldByOther(p)
      <4>1. \A q \in Pids : pc[q] \notin Holding
        <5> SUFFICES ASSUME NEW q \in Pids, pc[q] \in Holding PROVE FALSE
          OBVIOUS
        <5>1. lockFile.full /\ q \in lockFile.by
          <6>1. lockFile = [by |-> {q}, full |-> TRUE]
            BY <2>0 DEF HoldersFile
          <6> QED BY <6>1
        <5>2. q # p /\ Alive(q)
          BY <2>2 DEF ReadLock, Alive
        <5> QED BY <3>2, <5>1, <5>2 DEF HeldByOther
      <4>2. /\ lockFile' = lockFile
            /\ pc'[p] = "unlink" \/ (pc'[p] = "create" /\ ~lockFile.full)
        BY <1>3, <2>2, <3>2 DEF ReadLock, Goto, LockTypeOK
      <4> QED BY <1>3, <2>0, <4>1, <4>2 DEF HoldersFile, Alone, Acquisition
    <3> QED BY <3>1, <3>2
  <2>3. CASE UnlinkStale(p) \/ CreateLock(p) \/ WriteLock(p) \/ RereadLock(p) \/ UnlinkAgain(p)
             \/ CreateAgain(p)
    <3>1. /\ pc[p] \in Acquiring \ {"read"}
          /\ \A q \in Pids \ {p} : pc[q] \notin Holding \cup Acquiring
      BY <2>0, <2>3 DEF UnlinkStale, CreateLock, WriteLock, RereadLock, UnlinkAgain, CreateAgain,
                       OneAcquires, Alone
    <3>2. \A q \in Pids \ {p} : pc'[q] \notin Holding \cup Acquiring
      BY <1>3, <3>1
    <3>3. pc'[p] \in Holding => lockFile' = File(p, TRUE)
      BY <1>3, <2>0, <2>3 DEF UnlinkStale, CreateLock, WriteLock, RereadLock, UnlinkAgain,
                       CreateAgain, Goto, Acquisition
    <3>4. /\ pc'[p] = "create" => ~lockFile'.full
          /\ pc'[p] = "write" => lockFile' = File(p, FALSE)
          /\ pc'[p] = "reread" => ~lockFile'.full /\ lockFile' # NoFile
          /\ pc'[p] = "unlink again" => lockFile' # NoFile
          /\ pc'[p] = "create again" => lockFile' = NoFile
      <4>1. CASE RereadLock(p)
        <5>1. ~lockFile.full /\ lockFile # NoFile /\ lockFile' = lockFile
          BY <2>0, <4>1 DEF RereadLock, Acquisition
        <5>2. Goto(p, "unlink again")
          BY <4>1, <5>1 DEF RereadLock, HeldByOther
        <5> QED BY <1>0, <5>1, <5>2 DEF Goto, LockTypeOK
      <4>2. CASE CreateLock(p)
        <5>1. ~lockFile.full
          BY <2>0, <4>2 DEF CreateLock, Acquisition
        <5> QED BY <1>0, <4>2, <5>1 DEF CreateLock, Goto, LockTypeOK
      <4>3. CASE UnlinkStale(p)
        <5>1. lockFile' = NoFile /\ pc'[p] = "create"
          BY <1>0, <4>3 DEF UnlinkStale, Goto, LockTypeOK
        <5> QED BY <5>1
      <4>4. CASE WriteLock(p) \/ UnlinkAgain(p) \/ CreateAgain(p)
        BY <1>0, <4>4 DEF WriteLock, UnlinkAgain, CreateAgain, Goto, LockTypeOK
      <4> QED BY <2>3, <4>1, <4>2, <4>3, <4>4
    <3>5. HoldersFile' /\ Alone'
      BY <3>2, <3>3 DEF HoldersFile, Alone
    <3>6. Acquisition'
      BY <3>2, <3>4 DEF Acquisition
    <3> QED BY <3>5, <3>6
  <2>4. CASE ReadToUpdate(p) \/ RenameOver(p) \/ OpenStore(p) \/ Listen(p) \/ Shutdown(p)
             \/ ReadToRelease(p) \/ RemoveLock(p)
    <3>1. pc[p] \in Holding /\ lockFile = File(p, TRUE)
      BY <2>0, <2>4 DEF ReadToUpdate, RenameOver, OpenStore, Listen, Shutdown,
                       ReadToRelease, RemoveLock, HoldersFile
    <3>2. \A q \in Pids \ {p} : pc[q] \notin Holding /\ pc[q] \notin Acquiring \ {"read"}
      BY <2>0, <3>1 DEF HoldersFile, Alone
    <3>3. pc'[p] \in Holding \cup Gone /\ (pc'[p] \in Holding => lockFile' = File(p, TRUE))
      BY <1>3, <2>4, <3>1 DEF ReadToUpdate, RenameOver, OpenStore, Listen, Shutdown,
                       ReadToRelease, RemoveLock, Goto
    <3> QED BY <1>3, <3>2, <3>3 DEF HoldersFile, Alone, Acquisition
  <2> QED BY <2>1, <2>2, <2>3, <2>4 DEF LockStep
<1> QED BY <1>3, <1>4, <1>5 DEF LockInv

\* Every reachable state meets the invariant.
LEMMA LockInvariant == LockSpec => []LockInv
<1>1. LockInit => LockInv
  BY DEF LockInit, LockInv, LockTypeOK, Where, OneAcquires, HoldersFile, Alone, Acquisition,
         Acquiring, Holding, Owning, StoresOpen, Gone
<1>2. LockInv /\ [LockNext]_lockVars => LockInv'
  <2> SUFFICES ASSUME LockInv, [LockNext]_lockVars PROVE LockInv'
    OBVIOUS
  <2>1. CASE LockNext
    BY <2>1, StepKeepsInv DEF LockNext
  <2>2. CASE UNCHANGED lockVars
    BY <2>2 DEF lockVars, LockInv, LockTypeOK, OneAcquires, HoldersFile, Alone, Acquisition, Mine
  <2> QED BY <2>1, <2>2
<1> QED BY <1>1, <1>2, PTL DEF LockSpec

-----------------------------------------------------------------------------
(* The theorems.                                                           *)

\* acquireHubLockOrThrow, updateHubLockBestEffort and releaseHubLockBestEffort:
\* while acquisitions do not overlap there is at most one hub, and its lock is
\* in place, whatever a killed hub left behind.
THEOREM OneHubWhenSerial == LockSpec => []SerialOneHub
<1>1. LockInv => SerialOneHub
  <2> SUFFICES ASSUME LockInv, ~overlapped
               PROVE  /\ Cardinality({p \in Pids : pc[p] \in Owning}) <= 1
                      /\ \A p \in Pids : pc[p] \in Owning => Mine(p)
    BY DEF SerialOneHub
  <2>1. \A p \in Pids : pc[p] \in Owning => Mine(p)
    BY DEF LockInv, HoldersFile, Holding
  <2> DEFINE S == {p \in Pids : pc[p] \in Owning}
  <2>2. S \in SUBSET Pids /\ \A p, q \in S : p = q
    BY <2>1 DEF Mine, File
  <2> HIDE DEF S
  <2>3. Cardinality(S) <= 1
    BY <2>2, AllTheSame
  <2> QED BY <2>1, <2>3 DEF S
<1> QED BY <1>1, LockInvariant, PTL

\* What readHubLock, the probe of the port and the guard of the stores refuse a
\* boot for while acquisitions do not overlap: another process that lives. An
\* empty or stale file never does.
THEOREM RefusalNeedsLive == LockSpec => RefusedByLive
<1>1. LockInv /\ [LockNext]_lockVars =>
        [\A p \in Pids :
           ~overlapped /\ pc[p] # pc'[p] /\ pc'[p] \in {"refused", "turned away"} =>
             \E q \in Pids \ {p} : Alive(q)]_lockVars
  <2> SUFFICES ASSUME LockInv, NEW a \in Pids, LockStep(a), NEW p \in Pids,
                      ~overlapped, pc[p] # pc'[p], pc'[p] \in {"refused", "turned away"}
               PROVE  \E q \in Pids \ {p} : Alive(q)
    BY DEF LockNext
  <2>0. LockTypeOK /\ Acquisition
    BY DEF LockInv
  <2>1. p = a
    <3>1. \E next : pc' = [pc EXCEPT ![a] = next]
      BY DEF LockStep, Boot, CheckLock, ProbeHealth, ReadLock, UnlinkStale, CreateLock, WriteLock,
             RereadLock, UnlinkAgain, CreateAgain, ReadToUpdate, RenameOver, OpenStore, Listen,
             Shutdown, ReadToRelease, RemoveLock, Kill, Goto
    <3> QED BY <2>0, <3>1 DEF LockTypeOK
  <2>2. CASE HeldByOther(p)
    <3>1. PICK q \in lockFile.by \ {p} : Alive(q)
      BY <2>2 DEF HeldByOther
    <3>2. lockFile.by \subseteq Pids
      <4>1. lockFile = NoFile \/ \E r \in Pids, full \in BOOLEAN : lockFile = File(r, full)
        BY <2>0 DEF LockTypeOK
      <4>2. CASE lockFile = NoFile
        BY <4>2 DEF NoFile
      <4>3. ASSUME NEW r \in Pids, NEW full \in BOOLEAN, lockFile = File(r, full)
            PROVE  lockFile.by \subseteq Pids
        <5>1. lockFile.by = {r}
          BY <4>3 DEF File
        <5> QED BY <5>1
      <4> QED BY <4>1, <4>2, <4>3
    <3> QED BY <3>1, <3>2
  <2>3. CASE \E q \in Pids \ {p} : pc[q] \in {"serving", "rename again"}
    BY <2>3 DEF Alive, Gone
  <2>4. HeldByOther(p) \/ \E q \in Pids \ {p} : pc[q] \in {"serving", "rename again"}
    <3> SUFFICES ASSUME ~HeldByOther(p),
                        ~\E q \in Pids \ {p} : pc[q] \in {"serving", "rename again"}
                 PROVE  FALSE
      OBVIOUS
    <3>1. pc'[p] \notin {"refused", "turned away"}
      BY <2>0, <2>1 DEF LockStep, Boot, CheckLock, ProbeHealth, ReadLock, UnlinkStale, CreateLock,
             WriteLock, RereadLock, UnlinkAgain, CreateAgain, ReadToUpdate, RenameOver, OpenStore,
             Listen, Shutdown, ReadToRelease, RemoveLock, Kill, Goto, At, LockTypeOK, Acquisition
    <3> QED BY <3>1
  <2> QED BY <2>2, <2>3, <2>4
<1> QED BY <1>1, LockInvariant, PTL DEF LockSpec, RefusedByLive
=============================================================================
