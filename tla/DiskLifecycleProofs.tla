------------------------ MODULE DiskLifecycleProofs ------------------------
(***************************************************************************)
(* However many shells run whatever commands on the data volume, and       *)
(* wherever they are killed: QEMU's lock admits one writer, the image      *)
(* under a snapshot stays as it is, and, as long as no two commands that   *)
(* overwrite the disk run at once, an installation is kept.                *)
(***************************************************************************)
EXTENDS DiskLifecycle, FiniteSetTheorems, TLAPS

(* Nobody has opened an image that is not there. *)
OpenExists == \A p \in Procs : pc[p] \in {"running", "saving"} => disk.state # "none"

(* Who writes to the image shares it with nobody who has locked it.        *)
WriterExcludes ==
  \A p, q \in Running : Writable(cmd[p]) /\ Locking(cmd[q]) => p = q

(* Only who has opened the image can have had it changed under him, and    *)
(* under a snapshot only restore-disk has changed it.                      *)
DisturbedWhileOpen ==
  \A p \in Procs :
    /\ pc[p] \notin {"running", "saving"} => disturbed[p] = {}
    /\ pc[p] = "running" /\ cmd[p] = "snapshot" => disturbed[p] \subseteq {"restore"}

LockInv == TypeOK /\ OpenExists /\ WriterExcludes /\ DisturbedWhileOpen

LEMMA InitLock == Init => LockInv
<1> USE SizeAssumption, StubAssumption, ProcsAssumption
<1> SUFFICES ASSUME Init PROVE LockInv
  OBVIOUS
<1>1. TypeOK
  BY DEF Init, TypeOK, Missing, Image, Contents, AllCommands
<1> QED
  BY <1>1 DEF Init, LockInv, OpenExists, WriterExcludes, DisturbedWhileOpen, Running
-----------------------------------------------------------------------------
(* The steps of a command but its start, its end and the changes of the    *)
(* disk: a shell moves on, and may end in running only where it may open   *)
(* the image.                                                              *)
Steps(p) ==
  \/ InstallCheck(p) \/ InstallNoRecovery(p)
  \/ RunCheck(p) \/ PhaseStart(p) \/ PhaseCheck(p)
  \/ StageFound(p) \/ StageBegin(p) \/ StageEnd(p) \/ BackupBegin(p)

(* What a step of a shell does, seen from the locks: it ends, it goes on   *)
(* without opening the image, or it changes the disk.                      *)
LEMMA StepsMove ==
  ASSUME TypeOK, NEW p \in Procs, Steps(p)
  PROVE  /\ \/ Exit(p)
            \/ \E to \in {"stage", "copying", "create", "boot", "phasecheck", "saving"} :
                 Goto(p, to) /\ cmd' = cmd /\ disturbed' = disturbed
         /\ pc[p] \notin {"idle", "running", "saving"}
         /\ disk' = disk /\ backups' = backups /\ loader' \in {"none", "partial", "whole"}
BY DEF TypeOK, Steps, InstallCheck, InstallNoRecovery, RunCheck, PhaseStart, PhaseCheck,
       StageFound, StageBegin, StageEnd, BackupBegin, Refuse, Proceed, KeepDisk, AfterStage

(* What a shell leaves on the disk is an image again. *)
LEMMA ChangeType ==
  ASSUME TypeOK, NEW p \in Procs, cmd[p] # "none",
         NEW state \in Contents \ {"none"}, NEW size \in 1..MiB \cup {Full},
         ChangeDisk(p, state, size)
  PROVE  /\ disk' \in [state : Contents, size : 0..MiB \cup {Full}]
         /\ disk'.state = state /\ disk'.size = size /\ disk'.size # 0
         /\ disturbed' \in [Procs -> SUBSET AllCommands]
BY SizeAssumption, ProcsAssumption DEF TypeOK, ChangeDisk, Image

(* The types are kept, and nobody takes the image away from who opened it. *)
LEMMA NextType == TypeOK /\ OpenExists /\ [Next]_vars => TypeOK' /\ OpenExists'
<1> SUFFICES ASSUME TypeOK, OpenExists, [Next]_vars PROVE TypeOK' /\ OpenExists'
  OBVIOUS
<1> USE SizeAssumption, StubAssumption, ProcsAssumption
<1> DEFINE Good == TypeOK' /\ OpenExists'
<1>1. ASSUME NEW p \in Procs, Steps(p) PROVE Good
  <2>1. BackupBegin(p) => pc'[p] # "saving" \/ disk.state # "none"
    BY DEF TypeOK, BackupBegin, Refuse, Exit, Goto, Missing, Image
  <2>2. pc'[p] = "saving" => BackupBegin(p)
    BY <1>1 DEF TypeOK, Steps, InstallCheck, InstallNoRecovery, RunCheck, PhaseStart, PhaseCheck,
       StageFound, StageBegin, StageEnd, Refuse, Exit, Proceed, Goto, AfterStage
  <2>3. TypeOK'
    BY <1>1, StepsMove DEF TypeOK, Exit, Goto
  <2>4. OpenExists'
    BY <1>1, <2>1, <2>2, StepsMove DEF TypeOK, OpenExists, Exit, Goto
  <2> QED
    BY <2>3, <2>4
<1>2. ASSUME NEW p \in Procs, NEW c \in Commands, Start(p, c) PROVE Good
  BY <1>2 DEF TypeOK, OpenExists, Start, Goto, AllCommands
<1>3. ASSUME NEW p \in Procs, Stop(p) PROVE Good
  BY <1>3 DEF TypeOK, OpenExists, Stop, Exit, Goto
<1>4. ASSUME NEW p \in Procs, Create(p) PROVE Good
  <2>1. CASE Refuse(p)
    BY <2>1 DEF TypeOK, OpenExists, Refuse, Exit, Goto
  <2>2. CASE ChangeDisk(p, "blank", Full) /\ Goto(p, "runcheck")
             /\ UNCHANGED <<backups, loader, cmd>>
    <3>1. cmd[p] # "none"
      BY <1>4 DEF Create
    <3> QED
      BY <2>2, <3>1, ChangeType DEF TypeOK, OpenExists, Goto, Contents
  <2> QED
    BY <1>4, <2>1, <2>2 DEF Create
<1>5. ASSUME NEW p \in Procs, Boot(p) PROVE Good
  BY <1>5 DEF TypeOK, OpenExists, Boot, Refuse, Exit, Proceed, Goto, KeepDisk, Missing, Image
<1>6. ASSUME NEW p \in Procs, GuestWrites(p) PROVE Good
  <2>1. PICK state \in Contents \ {"none"} : ChangeDisk(p, state, disk.size)
    BY <1>6 DEF GuestWrites, TypeOK, OpenExists, Contents
  <2>2. disk.size \in 1..MiB \cup {Full} /\ cmd[p] # "none"
    BY <1>6 DEF GuestWrites, TypeOK, OpenExists, Writable
  <2> QED
    BY <1>6, <2>1, <2>2, ChangeType DEF GuestWrites, TypeOK, OpenExists
<1>7. ASSUME NEW p \in Procs, RestoreBegin(p) PROVE Good
  <2>1. CASE Refuse(p)
    BY <2>1 DEF TypeOK, OpenExists, Refuse, Exit, Goto
  <2>2. ASSUME NEW size \in {1, MiB, Full}, ChangeDisk(p, "torn", size),
               Goto(p, "restoring"), UNCHANGED <<backups, loader, cmd>>
        PROVE  Good
    <3>1. cmd[p] # "none" /\ size \in 1..MiB \cup {Full}
      BY <1>7 DEF RestoreBegin
    <3> QED
      BY <2>2, <3>1, ChangeType DEF TypeOK, OpenExists, Goto, Contents
  <2> QED
    BY <1>7, <2>1, <2>2 DEF RestoreBegin
<1>8. ASSUME NEW p \in Procs, RestoreEnd(p) PROVE Good
  <2>1. PICK state \in Contents \ {"none"} : ChangeDisk(p, state, Full)
    BY <1>8 DEF RestoreEnd, TypeOK, Contents
  <2>2. cmd[p] # "none"
    BY <1>8 DEF RestoreEnd
  <2> QED
    BY <1>8, <2>1, <2>2, ChangeType DEF RestoreEnd, TypeOK, OpenExists, Goto
<1>9. ASSUME NEW p \in Procs, BackupEnd(p) PROVE Good
  BY <1>9 DEF TypeOK, OpenExists, BackupEnd, Exit, Goto, Contents
<1>10. CASE Remove
  BY <1>10 DEF TypeOK, OpenExists, Remove, Active, Missing, Image, Contents
<1>11. CASE UNCHANGED vars
  BY <1>11 DEF TypeOK, OpenExists, vars
<1> QED
  BY <1>1, <1>2, <1>3, <1>4, <1>5, <1>6, <1>7, <1>8, <1>9, <1>10, <1>11 DEF Next, Steps
-----------------------------------------------------------------------------
(* The lock                                                                *)

(* Whoever changes the disk and is not restore-disk does so while no       *)
(* snapshot runs: the others hear nothing of it.                           *)
LEMMA ChangeKeeps ==
  ASSUME LockInv, NEW p \in Procs, NEW state, NEW size, ChangeDisk(p, state, size),
         pc[p] = "restoring" => disturbed[p] = {},
         cmd[p] = "restore" \/ \A q \in Running \ {p} : cmd[q] # "snapshot",
         pc'[p] # "running" \/ pc'[p] = pc[p],
         pc[p] # "saving", pc[p] = "running" => pc'[p] = "running" /\ Writable(cmd[p]),
         \A q \in Procs \ {p} : pc'[q] = pc[q] /\ cmd'[q] = cmd[q],
         cmd'[p] = cmd[p] \/ pc'[p] # "running"
  PROVE  DisturbedWhileOpen'
<1> SUFFICES ASSUME NEW q \in Procs
             PROVE  /\ pc'[q] \notin {"running", "saving"} => disturbed'[q] = {}
                    /\ pc'[q] = "running" /\ cmd'[q] = "snapshot" =>
                         disturbed'[q] \subseteq {"restore"}
  BY DEF DisturbedWhileOpen
<1>1. disturbed'[q] = IF q \in Readers(p) THEN disturbed[q] \cup {cmd[p]} ELSE disturbed[q]
  BY DEF ChangeDisk
<1>2. CASE q = p
  BY <1>1, <1>2 DEF Readers, LockInv, DisturbedWhileOpen, Writable
<1>3. CASE q # p
  BY <1>1, <1>3 DEF Readers, LockInv, DisturbedWhileOpen, Running
<1> QED
  BY <1>2, <1>3

(* Every step keeps the lock's promise. *)
LEMMA NextLock == LockInv /\ [Next]_vars => LockInv'
<1> SUFFICES ASSUME LockInv, [Next]_vars PROVE LockInv'
  OBVIOUS
<1>0. TypeOK /\ TypeOK' /\ OpenExists'
  BY NextType DEF LockInv
<1> DEFINE Good == WriterExcludes' /\ DisturbedWhileOpen'
<1> USE DEF Running
\* Whoever does not come to run cannot take the image from anybody.
<1>a. ASSUME NEW p \in Procs, \A q \in Procs \ {p} : pc'[q] = pc[q] /\ cmd'[q] = cmd[q],
             pc'[p] # "running" \/ (pc'[p] = pc[p] /\ cmd'[p] = cmd[p])
      PROVE  WriterExcludes'
  BY <1>a DEF LockInv, WriterExcludes
<1>b. ASSUME NEW p \in Procs, Exit(p) PROVE Good
  BY <1>0, <1>a, <1>b DEF LockInv, TypeOK, Exit, Goto, DisturbedWhileOpen
<1>1. ASSUME NEW p \in Procs, Steps(p) PROVE Good
  <2>1. CASE Exit(p)
    BY <2>1, <1>b
  <2>2. ASSUME NEW to \in {"stage", "copying", "create", "boot", "phasecheck", "saving"},
               Goto(p, to), cmd' = cmd, disturbed' = disturbed, pc[p] \notin {"running", "saving"}
        PROVE  Good
    BY <2>2, <1>0, <1>a DEF LockInv, TypeOK, Goto, DisturbedWhileOpen
  <2> QED
    BY <1>1, <1>0, <2>1, <2>2, StepsMove
<1>2. ASSUME NEW p \in Procs, NEW c \in Commands, Start(p, c) PROVE Good
  BY <1>2, <1>0, <1>a DEF LockInv, TypeOK, Start, Goto, DisturbedWhileOpen
<1>3. ASSUME NEW p \in Procs, Stop(p) PROVE Good
  BY <1>3, <1>b DEF Stop
<1>4. ASSUME NEW p \in Procs, Create(p) PROVE Good
  <2>1. CASE Refuse(p)
    BY <2>1, <1>b DEF Refuse
  <2>2. CASE ~LockedForWriting(p) /\ ChangeDisk(p, "blank", Full) /\ Goto(p, "runcheck")
             /\ UNCHANGED <<backups, loader, cmd>>
    <3>1. /\ pc[p] = "create" /\ pc'[p] = "runcheck" /\ cmd' = cmd
          /\ \A q \in Procs \ {p} : pc'[q] = pc[q] /\ cmd'[q] = cmd[q]
      BY <1>4, <1>0, <2>2 DEF Create, TypeOK, Goto
    <3>2. \A q \in Running \ {p} : cmd[q] # "snapshot"
      BY <2>2 DEF LockedForWriting, Locking
    <3>3. DisturbedWhileOpen'
      BY <2>2, <3>1, <3>2, ChangeKeeps
    <3> QED
      BY <3>1, <3>3, <1>a
  <2> QED
    BY <1>4, <2>1, <2>2 DEF Create
<1>5. ASSUME NEW p \in Procs, Boot(p) PROVE Good
  <2>1. CASE Refuse(p)
    BY <2>1, <1>b DEF Refuse
  <2>2. CASE CanOpen(p) /\ Proceed(p, "running")
    <3>1. /\ pc[p] = "boot" /\ pc'[p] = "running" /\ cmd' = cmd /\ disturbed' = disturbed
          /\ \A q \in Procs \ {p} : pc'[q] = pc[q]
      BY <1>5, <1>0, <2>2 DEF Boot, Proceed, TypeOK, Goto, KeepDisk
    <3>2. ASSUME NEW q \in Running \ {p} PROVE
             /\ Writable(cmd[p]) => ~Locking(cmd[q])
             /\ Locking(cmd[p]) => ~Writable(cmd[q])
      BY <2>2 DEF CanOpen, LockedForWriting, LockedForReading, Writable, Locking
    <3> QED
      BY <3>1, <3>2 DEF LockInv, WriterExcludes, DisturbedWhileOpen
  <2> QED
    BY <1>5, <2>1, <2>2 DEF Boot
<1>6. ASSUME NEW p \in Procs, GuestWrites(p) PROVE Good
  <2>1. PICK state : ChangeDisk(p, state, disk.size)
    BY <1>6 DEF GuestWrites
  <2>2. \A q \in Running \ {p} : cmd[q] # "snapshot"
    BY <1>6 DEF GuestWrites, LockInv, WriterExcludes, Locking
  <2>3. pc[p] = "running" /\ Writable(cmd[p]) /\ pc' = pc /\ cmd' = cmd
    BY <1>6 DEF GuestWrites
  <2>4. DisturbedWhileOpen'
    BY <2>1, <2>2, <2>3, ChangeKeeps
  <2> QED
    BY <2>3, <2>4, <1>a
<1>7. ASSUME NEW p \in Procs, RestoreBegin(p) PROVE Good
  <2>1. CASE Refuse(p)
    BY <2>1, <1>b DEF Refuse
  <2>2. ASSUME NEW size, ChangeDisk(p, "torn", size), Goto(p, "restoring"), cmd' = cmd
        PROVE  Good
    <3>1. /\ pc[p] = "check" /\ pc'[p] = "restoring" /\ cmd[p] = "restore"
          /\ \A q \in Procs \ {p} : pc'[q] = pc[q]
      BY <1>7, <1>0, <2>2 DEF RestoreBegin, TypeOK, Goto
    <3>2. DisturbedWhileOpen'
      BY <2>2, <3>1, ChangeKeeps
    <3> QED
      BY <2>2, <3>1, <3>2, <1>a
  <2> QED
    BY <1>7, <2>1, <2>2 DEF RestoreBegin
<1>8. ASSUME NEW p \in Procs, RestoreEnd(p) PROVE Good
  <2>1. PICK state : ChangeDisk(p, state, Full)
    BY <1>8 DEF RestoreEnd
  <2>2. /\ pc[p] = "restoring" /\ pc'[p] = "idle" /\ cmd[p] = "restore"
        /\ \A q \in Procs \ {p} : pc'[q] = pc[q] /\ cmd'[q] = cmd[q]
    BY <1>8, <1>0 DEF RestoreEnd, TypeOK, Goto
  <2>3. DisturbedWhileOpen'
    BY <2>1, <2>2, ChangeKeeps DEF LockInv, DisturbedWhileOpen
  <2> QED
    BY <2>2, <2>3, <1>a
<1>9. ASSUME NEW p \in Procs, BackupEnd(p) PROVE Good
  BY <1>9, <1>b DEF BackupEnd
<1>10. ASSUME Remove PROVE Good
  BY <1>10 DEF Remove, LockInv, WriterExcludes, DisturbedWhileOpen, Writable, Locking
<1>11. ASSUME UNCHANGED vars PROVE Good
  BY <1>11 DEF vars, LockInv, WriterExcludes, DisturbedWhileOpen, Writable, Locking
<1>12. Good
  BY <1>1, <1>2, <1>3, <1>4, <1>5, <1>6, <1>7, <1>8, <1>9, <1>10, <1>11 DEF Next, Steps
<1> QED
  BY <1>0, <1>12 DEF LockInv

LEMMA LockInductive == Spec => []LockInv
BY InitLock, NextLock, PTL DEF Spec

(* QEMU's lock, which install, run and phase 9 take, admits one writer,    *)
(* for any number of shells and kills anywhere.                            *)
THEOREM OneWriterEver == Spec => []OneWriter
<1>1. LockInv => OneWriter
  BY DEF LockInv, OneWriter, WriterExcludes, Running, Writable, Locking
<1> QED
  BY LockInductive, <1>1, PTL

(* Under the overlay of run.sh's default mode nothing but mos restore-disk *)
(* ever changes the image.                                                 *)
THEOREM SnapshotKept == Spec => []SnapshotUndisturbed
<1>1. LockInv => SnapshotUndisturbed
  BY DEF LockInv, SnapshotUndisturbed, DisturbedWhileOpen, Running
<1> QED
  BY LockInductive, <1>1, PTL
-----------------------------------------------------------------------------
(* The installation                                                        *)

OneOverwriter ==
  \A p, q \in Active : cmd[p] \in Overwriters /\ cmd[q] \in Overwriters => p = q

(* What installs look like by their size, which is all install.sh tests.   *)
SizeTells == disk.state \in {"blank", "partial", "macos"} => disk.size = Full

(* Between its test and qemu-img create, install's disk is none. *)
NothingToLose ==
  \A p \in Procs : cmd[p] = "install" /\ pc[p] \in {"stage", "copying", "create"} =>
    disk.state # "macos"

KeptInv == LockInv /\ OneOverwriter /\ SizeTells /\ NothingToLose

(* With a bound of one, a command that overwrites starts beside no other.  *)
LEMMA StartsAlone ==
  ASSUME MaxOverwriters \in {0, 1}, NEW p \in Procs, NEW c \in Overwriters, Start(p, c)
  PROVE  \A q \in Active : cmd[q] \notin Overwriters
<1> DEFINE S == {q \in Active : cmd[q] \in Overwriters}
<1>1. IsFiniteSet(S)
  BY FS_Subset, ProcsAssumption DEF Active
<1>2. Cardinality(S) \in Nat /\ Cardinality(S) < 1
  BY <1>1, FS_CardinalityType DEF Start
<1>3. S = {}
  BY <1>1, <1>2, FS_EmptySet
<1> QED
  BY <1>3

LEMMA InitKept == Init => KeptInv
<1> SUFFICES ASSUME Init PROVE KeptInv
  OBVIOUS
<1>1. LockInv
  BY InitLock
<1>2. SizeTells
  BY DEF Init, SizeTells, Missing, Image
<1> QED
  BY <1>1, <1>2 DEF Init, KeptInv, OneOverwriter, NothingToLose, Active

(* A step keeps what protects the installation. *)
LEMMA NextKept == ASSUME MaxOverwriters \in {0, 1} PROVE KeptInv /\ [Next]_vars => KeptInv'
<1> SUFFICES ASSUME KeptInv, [Next]_vars PROVE KeptInv'
  OBVIOUS
<1>0. TypeOK /\ TypeOK' /\ LockInv'
  BY NextLock DEF KeptInv, LockInv
<1> DEFINE Good == OneOverwriter' /\ SizeTells' /\ NothingToLose'
<1> USE DEF Active
\* No start: there are no more overwriters than before.
<1>a. ASSUME NEW p \in Procs, pc[p] # "idle",
             \A q \in Procs \ {p} : pc'[q] = pc[q] /\ cmd'[q] = cmd[q],
             cmd'[p] = cmd[p] \/ pc'[p] = "idle"
      PROVE  OneOverwriter'
  BY <1>a DEF KeptInv, OneOverwriter
\* The overwriter p is the only one: no install is before its create.
<1>b. ASSUME NEW p \in Procs, pc[p] # "idle", cmd[p] \in Overwriters,
             \A q \in Procs \ {p} : pc'[q] = pc[q] /\ cmd'[q] = cmd[q],
             pc'[p] \notin {"stage", "copying", "create"}
      PROVE  NothingToLose'
  BY <1>b DEF KeptInv, OneOverwriter, NothingToLose, Overwriters
<1>c. ASSUME NEW p \in Procs, pc[p] # "idle", Exit(p), disk' = disk PROVE Good
  <2>1. /\ \A q \in Procs \ {p} : pc'[q] = pc[q] /\ cmd'[q] = cmd[q]
        /\ pc'[p] = "idle"
    BY <1>0, <1>c DEF TypeOK, Exit, Goto
  <2> QED
    BY <1>a, <1>c, <2>1 DEF KeptInv, SizeTells, NothingToLose
<1>1. ASSUME NEW p \in Procs, Steps(p) PROVE Good
  <2>1. CASE Exit(p)
    BY <1>0, <1>1, <2>1, <1>c, StepsMove
  <2>2. ASSUME NEW to, Goto(p, to), cmd' = cmd, disk' = disk, pc[p] # "idle" PROVE Good
    <3>1. pc'[p] = to /\ \A q \in Procs \ {p} : pc'[q] = pc[q] /\ cmd'[q] = cmd[q]
      BY <1>0, <2>2 DEF TypeOK, Goto
    <3>2. cmd[p] = "install" /\ pc'[p] \in {"stage", "copying", "create"} =>
            \/ pc[p] \in {"stage", "copying", "create"}
            \/ disk.size <= MiB
      BY <1>0, <1>1, <3>1, SizeAssumption DEF TypeOK, Steps, InstallCheck, InstallNoRecovery, RunCheck,
         PhaseStart, PhaseCheck, StageFound, StageBegin, StageEnd, BackupBegin,
         Refuse, Exit, Proceed, Goto
    <3>3. disk.size <= MiB => disk.state # "macos"
      BY SizeAssumption DEF KeptInv, SizeTells
    <3>4. cmd[p] = "install" /\ pc'[p] \in {"stage", "copying", "create"} => disk.state # "macos"
      BY <3>2, <3>3 DEF KeptInv, NothingToLose
    <3>5. NothingToLose'
      BY <2>2, <3>1, <3>4 DEF KeptInv, NothingToLose
    <3> QED
      BY <2>2, <3>1, <3>5, <1>a DEF KeptInv, SizeTells
  <2> QED
    BY <1>0, <1>1, <2>1, <2>2, StepsMove
<1>2. ASSUME NEW p \in Procs, NEW c \in Commands, Start(p, c) PROVE Good
  <2>1. /\ pc[p] = "idle" /\ pc'[p] = "check" /\ cmd'[p] = c /\ disk' = disk
        /\ \A q \in Procs \ {p} : pc'[q] = pc[q] /\ cmd'[q] = cmd[q]
    BY <1>0, <1>2 DEF TypeOK, Start, Goto
  <2>2. OneOverwriter'
    BY <1>2, <2>1, StartsAlone DEF KeptInv, OneOverwriter
  <2> QED
    BY <2>1, <2>2 DEF KeptInv, SizeTells, NothingToLose
<1>3. ASSUME NEW p \in Procs, Stop(p) PROVE Good
  BY <1>3, <1>c DEF Stop
<1>4. ASSUME NEW p \in Procs, Create(p) PROVE Good
  <2>1. CASE Refuse(p)
    BY <1>4, <2>1, <1>c DEF Create, Refuse
  <2>2. CASE ChangeDisk(p, "blank", Full) /\ Goto(p, "runcheck") /\ cmd' = cmd
    <3>1. /\ pc[p] = "create" /\ pc'[p] = "runcheck" /\ cmd[p] \in Overwriters
          /\ \A q \in Procs \ {p} : pc'[q] = pc[q] /\ cmd'[q] = cmd[q]
      BY <1>0, <1>4, <2>2 DEF Create, TypeOK, Goto, Overwriters
    <3>2. SizeTells'
      BY <2>2 DEF ChangeDisk, Image, SizeTells
    <3> QED
      BY <2>2, <3>1, <3>2, <1>a, <1>b
  <2> QED
    BY <1>4, <2>1, <2>2 DEF Create
<1>5. ASSUME NEW p \in Procs, Boot(p) PROVE Good
  <2>1. CASE Refuse(p)
    BY <1>5, <2>1, <1>c DEF Boot, Refuse
  <2>2. CASE Proceed(p, "running")
    <3>1. /\ pc[p] = "boot" /\ pc'[p] = "running" /\ cmd' = cmd /\ disk' = disk
          /\ \A q \in Procs \ {p} : pc'[q] = pc[q]
      BY <1>0, <1>5, <2>2 DEF Boot, Proceed, TypeOK, Goto, KeepDisk
    <3> QED
      BY <3>1, <1>a DEF KeptInv, SizeTells, NothingToLose
  <2> QED
    BY <1>5, <2>1, <2>2 DEF Boot
<1>6. ASSUME NEW p \in Procs, GuestWrites(p) PROVE Good
  <2>1. pc[p] = "running" /\ pc' = pc /\ cmd' = cmd
    BY <1>6 DEF GuestWrites
  <2>2. /\ disk'.size = disk.size
        /\ \/ disk'.state = disk.state
           \/ /\ cmd[p] = "install" /\ disk.state \in {"blank", "partial"}
              /\ disk'.state \in {"partial", "macos"}
    BY <1>6 DEF GuestWrites, ChangeDisk, Image
  <2>3. SizeTells'
    BY <2>2 DEF KeptInv, SizeTells
  <2>4. NothingToLose'
    BY <2>1, <2>2, <1>b DEF KeptInv, NothingToLose, Overwriters
  <2> QED
    BY <2>1, <2>3, <2>4, <1>a
<1>7. ASSUME NEW p \in Procs, RestoreBegin(p) PROVE Good
  <2>1. CASE Refuse(p)
    BY <1>7, <2>1, <1>c DEF RestoreBegin, Refuse
  <2>2. ASSUME NEW size, ChangeDisk(p, "torn", size), Goto(p, "restoring"), cmd' = cmd
        PROVE  Good
    <3>1. /\ pc[p] = "check" /\ pc'[p] = "restoring" /\ cmd[p] \in Overwriters
          /\ \A q \in Procs \ {p} : pc'[q] = pc[q] /\ cmd'[q] = cmd[q]
      BY <1>0, <1>7, <2>2 DEF RestoreBegin, TypeOK, Goto, Overwriters
    <3>2. SizeTells'
      BY <2>2 DEF ChangeDisk, Image, SizeTells
    <3> QED
      BY <2>2, <3>1, <3>2, <1>a, <1>b
  <2> QED
    BY <1>7, <2>1, <2>2 DEF RestoreBegin
<1>8. ASSUME NEW p \in Procs, RestoreEnd(p) PROVE Good
  <2>1. /\ pc[p] = "restoring" /\ pc'[p] = "idle" /\ cmd[p] \in Overwriters
        /\ \A q \in Procs \ {p} : pc'[q] = pc[q] /\ cmd'[q] = cmd[q]
    BY <1>0, <1>8 DEF RestoreEnd, TypeOK, Goto, Overwriters
  <2>2. SizeTells'
    BY <1>8 DEF RestoreEnd, ChangeDisk, Image, SizeTells
  <2> QED
    BY <2>1, <2>2, <1>a, <1>b
<1>9. ASSUME NEW p \in Procs, BackupEnd(p) PROVE Good
  BY <1>9, <1>c DEF BackupEnd
<1>10. ASSUME Remove PROVE Good
  BY <1>10 DEF Remove, Missing, Image, KeptInv, OneOverwriter, SizeTells, NothingToLose
<1>11. ASSUME UNCHANGED vars PROVE Good
  BY <1>11 DEF vars, KeptInv, OneOverwriter, SizeTells, NothingToLose
<1>12. Good
  BY <1>1, <1>2, <1>3, <1>4, <1>5, <1>6, <1>7, <1>8, <1>9, <1>10, <1>11 DEF Next, Steps
<1> QED
  BY <1>0, <1>12 DEF KeptInv

(* As long as no two of install and restore-disk run at once, nothing but  *)
(* rm and restore-disk takes an installed system from the disk.            *)
THEOREM InstallationKept == ASSUME MaxOverwriters \in {0, 1} PROVE Spec => InstalledKept
<1> DEFINE Kept == disk.state = "macos" /\ disk'.state # "macos" =>
              disk' = Missing \/ \E p \in Procs : cmd[p] = "restore" /\ pc[p] # pc'[p]
<1>1. KeptInv /\ [Next]_vars => [Kept]_vars
  <2> SUFFICES ASSUME KeptInv, Next, disk.state = "macos", disk'.state # "macos"
               PROVE  disk' = Missing \/ \E p \in Procs : cmd[p] = "restore" /\ pc[p] # pc'[p]
    OBVIOUS
  <2>0. TypeOK
    BY DEF KeptInv, LockInv
  <2>1. CASE Remove
    BY <2>1 DEF Remove
  <2>2. ASSUME NEW p \in Procs, RestoreBegin(p) PROVE cmd[p] = "restore" /\ pc[p] # pc'[p]
    BY <2>0, <2>2 DEF RestoreBegin, Refuse, Exit, Goto, TypeOK
  <2>3. ASSUME NEW p \in Procs, RestoreEnd(p) PROVE cmd[p] = "restore" /\ pc[p] # pc'[p]
    BY <2>0, <2>3 DEF RestoreEnd, Goto, TypeOK
  <2>4. ASSUME NEW p \in Procs, Create(p) PROVE FALSE
    BY <2>4 DEF Create, Refuse, KeptInv, NothingToLose
  <2>5. ASSUME NEW p \in Procs, GuestWrites(p) PROVE FALSE
    BY <2>5 DEF GuestWrites, ChangeDisk, Image
  <2>6. ASSUME NEW p \in Procs, Steps(p) PROVE FALSE
    BY <2>0, <2>6, StepsMove
  <2>7. ASSUME NEW p \in Procs, NEW c \in Commands, Start(p, c) PROVE FALSE
    BY <2>7 DEF Start
  <2>8. ASSUME NEW p \in Procs, Stop(p) \/ Boot(p) \/ BackupEnd(p) PROVE FALSE
    BY <2>8 DEF Stop, Boot, BackupEnd, Refuse, Proceed, KeepDisk
  <2> QED
    BY <2>1, <2>2, <2>3, <2>4, <2>5, <2>6, <2>7, <2>8 DEF Next, Steps
<1> QED
  BY <1>1, InitKept, NextKept, PTL DEF Spec, InstalledKept
=============================================================================
