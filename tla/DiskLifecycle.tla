--------------------------- MODULE DiskLifecycle ---------------------------
(***************************************************************************)
(* The data volume (data/disk.img, data/OpenCore.img) and the commands     *)
(* that use it: mos, scripts/entrypoint.sh, install.sh, run.sh, test.sh    *)
(* and the disk arguments of scripts/lib/hw-args.sh.                       *)
(*                                                                         *)
(*   install    mos install: install.sh, which ends in run.sh              *)
(*   run        mos run: compose.yml sets MOS_PERSIST=1                    *)
(*   snapshot   run.sh without MOS_PERSIST                                 *)
(*   phase      mos test 4 (phases 1 to 3 attach the disk the same way)    *)
(*   phase9     mos test 9                                                 *)
(*   restore    mos restore-disk                                           *)
(*   backup     mos backup-disk                                            *)
(*                                                                         *)
(* A process runs one command at a time and may be killed between any two  *)
(* steps.  QEMU and qemu-img are external: what is used of them is that a  *)
(* drive with locking shares the image with readers only.                  *)
(*                                                                         *)
(* A disk image is what is on it and its apparent size; sizes matter       *)
(* against the threshold of 1 MiB only.  "blank" is a new image of the     *)
(* full size, "partial" an unfinished installation, "torn" a mixture that  *)
(* an interrupted or disturbed copy leaves.                                *)
(***************************************************************************)
EXTENDS Naturals, FiniteSets

CONSTANTS
  Procs,     \* shells
  Commands,  \* the commands they run
  MiB,       \* the threshold of install.sh and run.sh
  Full,      \* DISK_SIZE
  StubSizes,       \* sizes of an image that is no installation
  MaxOverwriters   \* install and restore commands under way at once

ASSUME SizeAssumption == MiB \in Nat \ {0} /\ Full \in Nat /\ Full > MiB

ASSUME StubAssumption == StubSizes \subseteq 1..MiB /\ MaxOverwriters \in Nat

AllCommands == {"install", "run", "snapshot", "phase", "phase9", "restore", "backup"}

ASSUME ProcsAssumption == IsFiniteSet(Procs) /\ Commands \subseteq AllCommands

Contents == {"none", "stub", "blank", "partial", "torn", "macos"}

VARIABLES
  disk,       \* data/disk.img: [state, size]
  backups,    \* what is in the images that backup-disk made
  loader,     \* data/OpenCore.img: "none", "partial", "whole"
  cmd, pc,    \* of each process
  disturbed   \* history: the commands that changed the disk under a process

vars == <<disk, backups, loader, cmd, pc, disturbed>>

Image(state, size) == [state |-> state, size |-> size]
Missing == Image("none", 0)

Init ==
  /\ disk \in {Missing, Image("macos", Full)} \cup {Image("stub", n) : n \in StubSizes}
  /\ backups \in {{}, {"macos"}}
  /\ loader \in {"none", "whole"}
  /\ cmd = [p \in Procs |-> "none"] /\ pc = [p \in Procs |-> "idle"]
  /\ disturbed = [p \in Procs |-> {}]

Active == {p \in Procs : pc[p] # "idle"}
Running == {p \in Procs : pc[p] = "running"}
Overwriters == {"install", "restore"}

(* Empty drive options: QEMU writes to the image.  Otherwise snapshot=on.  *)
Writable(c) == c \in {"install", "run", "phase9"}

\* Faulty variant: phase 9 keeps file.locking=off.
LockingNotPhase9(c) == c \in {"install", "run", "snapshot"}

\* Faulty variant: run.sh attaches the snapshot with file.locking=off.
LockingWritersOnly(c) == c \in {"install", "run", "phase9"}

(* The phases say file.locking=off. *)
Locking(c) == c # "phase"

(* Somebody's lock forbids p to open the disk for writing. *)
LockedForWriting(p) == \E q \in Running \ {p} : Locking(cmd[q])

(* Somebody's lock forbids p to open the disk at all. *)
LockedForReading(p) == \E q \in Running \ {p} : Locking(cmd[q]) /\ Writable(cmd[q])

CanOpen(p) ==
  Locking(cmd[p]) =>
    IF Writable(cmd[p]) THEN ~LockedForWriting(p) ELSE ~LockedForReading(p)

(* The processes that rely on the disk not to change: the others' QEMU,    *)
(* whose snapshot lies over it, and a backup in progress.                  *)
Readers(p) ==
  {q \in Procs \ {p} : pc[q] = "saving" \/ (pc[q] = "running" /\ ~Writable(cmd[q]))}

(* p leaves on the disk an image of that state and size. *)
ChangeDisk(p, state, size) ==
  /\ disk' = Image(state, size)
  /\ disturbed' = [q \in Procs |-> IF q \in Readers(p) THEN disturbed[q] \cup {cmd[p]}
                                  ELSE disturbed[q]]

KeepDisk == UNCHANGED <<disk, disturbed>>
Goto(p, to) == pc' = [pc EXCEPT ![p] = to]

(***************************************************************************)
(* Starting and ending a command                                           *)
(***************************************************************************)
Start(p, c) ==
  /\ pc[p] = "idle"
  /\ c \in Overwriters => Cardinality({q \in Active : cmd[q] \in Overwriters}) < MaxOverwriters
  /\ c = "run" => \A q \in Active : cmd[q] # "run"  \* docker compose up: one container
  /\ cmd' = [cmd EXCEPT ![p] = c]
  /\ Goto(p, "check")
  /\ UNCHANGED <<disk, backups, loader, disturbed>>

Exit(p) ==
  /\ Goto(p, "idle")
  /\ cmd' = [cmd EXCEPT ![p] = "none"]
  /\ disturbed' = [disturbed EXCEPT ![p] = {}]

(* The guest shuts down, docker stop, Ctrl-C, the host goes down. *)
Stop(p) ==
  /\ pc[p] # "idle"
  /\ Exit(p)
  /\ UNCHANGED <<disk, backups, loader>>

Refuse(p) == Exit(p) /\ UNCHANGED <<disk, backups, loader>>

Proceed(p, to) ==
  /\ Goto(p, to)
  /\ UNCHANGED <<backups, loader, cmd>> /\ KeepDisk

(***************************************************************************)
(* install.sh                                                              *)
(***************************************************************************)
\* Faulty variant: a stat that fails is taken for a size of 0, as before the
\* incident of 2026-05-06 (docs/incidents).
InstallCheckTrusting(p) ==
  /\ cmd[p] = "install" /\ pc[p] = "check"
  /\ Proceed(p, "stage")

(* An image of more than 1 MiB is an installation. *)
InstallCheck(p) ==
  /\ cmd[p] = "install" /\ pc[p] = "check"
  /\ IF disk.size > MiB THEN Refuse(p) ELSE Proceed(p, "stage")

(* No recovery image. *)
InstallNoRecovery(p) ==
  /\ cmd[p] = "install" /\ pc[p] = "stage"
  /\ Refuse(p)

(* qemu-img create, after five seconds for second thoughts; it fails when  *)
(* somebody's lock forbids to write, and set -e ends the script.           *)
Create(p) ==
  /\ cmd[p] = "install" /\ pc[p] = "create"
  /\ IF LockedForWriting(p)
     THEN Refuse(p)
     ELSE /\ ChangeDisk(p, "blank", Full)
          /\ Goto(p, "runcheck")
          /\ UNCHANGED <<backups, loader, cmd>>

(***************************************************************************)
(* run.sh and test.sh                                                      *)
(***************************************************************************)
(* The image is missing or too small: nothing to boot. *)
RunCheck(p) ==
  /\ \/ cmd[p] \in {"run", "snapshot"} /\ pc[p] = "check"
     \/ cmd[p] = "install" /\ pc[p] = "runcheck"
  /\ IF disk.size < MiB THEN Refuse(p)
     ELSE Proceed(p, IF cmd[p] = "install" THEN "boot" ELSE "stage")

(* test.sh stages OpenCore.img first and wants the disk to exist. *)
PhaseStart(p) ==
  /\ cmd[p] \in {"phase", "phase9"} /\ pc[p] = "check"
  /\ Proceed(p, "stage")

PhaseCheck(p) ==
  /\ cmd[p] \in {"phase", "phase9"} /\ pc[p] = "phasecheck"
  /\ IF disk = Missing THEN Refuse(p) ELSE Proceed(p, "boot")

AfterStage(c) ==
  IF c = "install" THEN "create" ELSE IF c \in {"phase", "phase9"} THEN "phasecheck" ELSE "boot"

(* OpenCore.img is there, whatever is in it. *)
StageFound(p) ==
  /\ pc[p] = "stage" /\ loader # "none"
  /\ Proceed(p, AfterStage(cmd[p]))

(* cp takes its time. *)
StageBegin(p) ==
  /\ pc[p] = "stage" /\ loader = "none"
  /\ loader' = "partial"
  /\ Goto(p, "copying")
  /\ UNCHANGED <<backups, cmd>> /\ KeepDisk

StageEnd(p) ==
  /\ pc[p] = "copying"
  /\ loader' = "whole"
  /\ Goto(p, AfterStage(cmd[p]))
  /\ UNCHANGED <<backups, cmd>> /\ KeepDisk

(* exec qemu-system-x86_64, which fails when it cannot lock the image. *)
Boot(p) ==
  /\ pc[p] = "boot"
  /\ IF disk = Missing \/ ~CanOpen(p)
     THEN Refuse(p)
     ELSE Proceed(p, "running")

(* The installer proceeds, or an installed system writes its files. *)
GuestWrites(p) ==
  /\ pc[p] = "running" /\ Writable(cmd[p])
  /\ LET next == CASE cmd[p] = "install" /\ disk.state = "blank" -> "partial"
                   [] cmd[p] = "install" /\ disk.state = "partial" -> "macos"
                   [] OTHER -> disk.state
     IN  ChangeDisk(p, next, disk.size)
  /\ UNCHANGED <<backups, loader, cmd, pc>>

(***************************************************************************)
(* mos restore-disk and mos backup-disk                                    *)
(***************************************************************************)
(* cp truncates the image and fills it, without a lock. *)
RestoreBegin(p) ==
  /\ cmd[p] = "restore" /\ pc[p] = "check"
  /\ IF backups = {} THEN Refuse(p)
     ELSE /\ \E size \in {1, MiB, Full} : ChangeDisk(p, "torn", size)
          /\ Goto(p, "restoring")
          /\ UNCHANGED <<backups, loader, cmd>>

RestoreEnd(p) ==
  /\ cmd[p] = "restore" /\ pc[p] = "restoring"
  /\ \E b \in backups : ChangeDisk(p, IF disk.state = "torn" THEN b ELSE "torn", Full)
  /\ Goto(p, "idle")
  /\ cmd' = [cmd EXCEPT ![p] = "none"]
  /\ UNCHANGED <<backups, loader>>

BackupBegin(p) ==
  /\ cmd[p] = "backup" /\ pc[p] = "check"
  /\ IF disk = Missing THEN Refuse(p)
     ELSE Proceed(p, "saving")

BackupEnd(p) ==
  /\ cmd[p] = "backup" /\ pc[p] = "saving"
  /\ backups' = backups \cup {IF disturbed[p] = {} THEN disk.state ELSE "torn"}
  /\ Exit(p)
  /\ UNCHANGED <<disk, loader>>

(* rm data/disk.img, what install.sh asks for before a new installation;   *)
(* nobody removes the disk of a command under way.                         *)
Remove ==
  /\ Active = {} /\ disk # Missing
  /\ disk' = Missing
  /\ UNCHANGED <<backups, loader, cmd, pc, disturbed>>

Next ==
  \/ Remove
  \/ \E p \in Procs :
       \/ \E c \in Commands : Start(p, c)
       \/ Stop(p) \/ InstallCheck(p) \/ InstallNoRecovery(p) \/ Create(p)
       \/ RunCheck(p) \/ PhaseStart(p) \/ PhaseCheck(p)
       \/ StageFound(p) \/ StageBegin(p) \/ StageEnd(p)
       \/ Boot(p) \/ GuestWrites(p)
       \/ RestoreBegin(p) \/ RestoreEnd(p) \/ BackupBegin(p) \/ BackupEnd(p)

Spec == Init /\ [][Next]_vars

(***************************************************************************)
(* Properties                                                              *)
(***************************************************************************)
(* What the variables may hold. *)
TypeOK ==
  /\ disk \in [state : Contents, size : 0..MiB \cup {Full}]
  /\ disk.state = "none" <=> disk.size = 0
  /\ backups \subseteq Contents \ {"none"}
  /\ loader \in {"none", "partial", "whole"}
  /\ cmd \in [Procs -> Commands \cup {"none"}]
  /\ pc \in [Procs -> {"idle", "check", "stage", "copying", "create", "runcheck", "phasecheck",
                       "boot", "running", "restoring", "saving"}]
  /\ \A p \in Procs : pc[p] = "idle" <=> cmd[p] = "none"
  /\ disturbed \in [Procs -> SUBSET AllCommands]

(* No two virtual machines write to the image at once (install, run and    *)
(* phase 9 are attached with QEMU's lock).                                 *)
OneWriter == \A p, q \in Running : Writable(cmd[p]) /\ Writable(cmd[q]) => p = q

(* The image under the overlay of run.sh's default mode is changed by      *)
(* nobody while the machine runs but by mos restore-disk, which knows no   *)
(* lock.                                                                   *)
SnapshotUndisturbed == \A p \in Running : cmd[p] = "snapshot" => disturbed[p] \subseteq {"restore"}

(* An installed system stays on the disk: whatever is started beside one   *)
(* another and killed wherever, only rm and mos restore-disk take it away, *)
(* as long as no two commands that overwrite the disk run at once.         *)
InstalledKept ==
  [][disk.state = "macos" /\ disk'.state # "macos" =>
       disk' = Missing \/ \E p \in Procs : cmd[p] = "restore" /\ pc[p] # pc'[p]]_vars

(* README.md:110: install never overwrites an image of more than 1 MiB. *)
InstallNeverOverwrites ==
  [][\A p \in Procs : pc[p] = "create" /\ pc'[p] = "runcheck" => disk.size <= MiB]_vars
=============================================================================
