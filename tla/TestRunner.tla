----------------------------- MODULE TestRunner -----------------------------
(***************************************************************************)
(* The phase regression check, scripts/test-runner.sh: invocations of      *)
(* run_phase for one phase, what each leaves behind in the data directory  *)
(* that they share, and the containers they start (scripts/test.sh with    *)
(* EXTERNAL_SUPERVISOR=1, which ends in exec qemu).                        *)
(*                                                                         *)
(* An invocation waits for a serial log, for the boot marker in it, takes  *)
(* a screendump through the monitor socket, converts it and compares it    *)
(* with the gold image; phase 3 then types three keys and does the same    *)
(* with a second screendump.  Socket, dumps and images have one path for   *)
(* each phase.  docker and QEMU are external.                              *)
(*                                                                         *)
(* A picture is what is on the screen: the login window ("login"), the     *)
(* same with three characters in the password field ("typed") or anything  *)
(* else; it is compared with the gold image by being the right one.        *)
(***************************************************************************)
EXTENDS Naturals, FiniteSets

CONSTANTS
  Runners,      \* invocations of test-runner.sh
  InputVerify,  \* phase 3
  Fractional,   \* DIFF_THRESHOLD_PCT has a fraction: phase 0
  Alone,        \* the operator runs one invocation at a time
  SameSecond,   \* a launch may fall into the second in which a log was last written
  Surface       \* the guest has a display surface

ASSUME KindAssumption ==
  {InputVerify, Fractional, Alone, SameSecond, Surface} \subseteq BOOLEAN

Kinds == {"boot", "input"}   \* the two screendumps
Old == "old"                 \* from an invocation before these
NoShot == [of |-> "none", picture |-> "none"]

VARIABLES
  box,      \* each invocation's container: "none", "up", "gone"
  guest,    \* what it shows: "none", "booting", "login", "typed", "panic"
  log,      \* what its serial log holds: "absent", "booting", "login", "panic"
  sock,     \* whose QEMU made the monitor sockets
  ppm, png, \* the dumps and images, by kind
  gold,     \* the picture of the gold image, by kind
  pc, kind, \* where an invocation is, and in which of the two dumps
  stale,    \* the containers that docker ps named
  recent,   \* the logs that were written since the launch
  watched,  \* serial_log
  judged,   \* history: what the invocation compared, by kind
  verdict

run == <<pc, kind, stale, recent, watched, judged, verdict>>
world == <<box, guest, log, sock>>
files == <<ppm, png, gold>>
vars == <<run, world, files>>

Init ==
  /\ box = [r \in Runners |-> "none"] /\ guest = [r \in Runners |-> "none"]
  /\ log = [r \in Runners |-> "absent"] /\ sock = "none"
  /\ ppm \in [Kinds -> {NoShot, [of |-> Old, picture |-> "login"]}]
  /\ png = ppm
  /\ gold \in {[boot |-> "login", input |-> p] : p \in {"none", "typed"}}
  /\ pc = [r \in Runners |-> "idle"] /\ kind = [r \in Runners |-> "boot"]
  /\ stale = [r \in Runners |-> {}] /\ recent = [r \in Runners |-> {}]
  /\ watched = [r \in Runners |-> "none"]
  /\ judged = [r \in Runners |-> [k \in Kinds |-> NoShot]]
  /\ verdict = [r \in Runners |-> "none"]

Up(q) == q \in Runners /\ box[q] = "up"
Busy(r) == pc[r] \notin {"idle", "over"}
Goto(r, to) == pc' = [pc EXCEPT ![r] = to]

(***************************************************************************)
(* The containers                                                          *)
(***************************************************************************)
(* test.sh removes the sockets of its phase and runs QEMU, which makes its *)
(* own and the serial log.                                                 *)
QemuStarts(q) ==
  /\ box[q] = "up" /\ guest[q] = "none"
  /\ guest' = [guest EXCEPT ![q] = "booting"]
  /\ log' = [log EXCEPT ![q] = "booting"]
  /\ sock' = q
  /\ recent' = [r \in Runners |-> IF r = q \/ Busy(r) THEN recent[r] \cup {q} ELSE recent[r]]
  /\ UNCHANGED <<box, files, pc, kind, stale, watched, judged, verdict>>

GuestBoots(q) ==
  /\ box[q] = "up" /\ guest[q] = "booting"
  /\ \E s \in {"login", "panic"} :
       /\ guest' = [guest EXCEPT ![q] = s]
       /\ log' = [log EXCEPT ![q] = s]
  /\ UNCHANGED <<box, sock, files, run>>

(* --rm: a container whose QEMU exits is gone. *)
QemuDies(q) ==
  /\ box[q] = "up"
  /\ box' = [box EXCEPT ![q] = "gone"]
  /\ UNCHANGED <<guest, log, sock, files, run>>

Container(q) == QemuStarts(q) \/ GuestBoots(q) \/ QemuDies(q)

(***************************************************************************)
(* How an invocation ends                                                  *)
(***************************************************************************)
(* qmp_clear_password: Escape for whoever listens. *)
ClearPassword ==
  guest' = IF Up(sock) /\ guest[sock] = "typed" THEN [guest EXCEPT ![sock] = "login"] ELSE guest

\* Faulty variant: a verdict without docker stop and docker rm.
EndLeavesContainer(r, v) ==
  /\ verdict' = [verdict EXCEPT ![r] = v]
  /\ Goto(r, "over")
  /\ IF kind[r] = "input" THEN ClearPassword ELSE guest' = guest
  /\ UNCHANGED <<box, log, sock, kind, stale, recent, watched>>

(* The verdict and teardown; after the keys, Escape first. *)
End(r, v) ==
  /\ verdict' = [verdict EXCEPT ![r] = v]
  /\ box' = [box EXCEPT ![r] = IF @ = "up" THEN "gone" ELSE @]
  /\ Goto(r, "over")
  /\ IF kind[r] = "input" THEN ClearPassword ELSE guest' = guest
  /\ UNCHANGED <<log, sock, kind, stale, recent, watched>>

Fail(r) == End(r, "FAIL") /\ UNCHANGED <<judged, files>>

(* set -e, or a shell error: the script is gone, the container is not. *)
Die(r) ==
  /\ verdict' = [verdict EXCEPT ![r] = "DIED"]
  /\ Goto(r, "over")
  /\ UNCHANGED <<world, files, kind, stale, recent, watched, judged>>

(* Ctrl-C.  The container was started with -d. *)
Interrupt(r) ==
  /\ Busy(r)
  /\ verdict' = [verdict EXCEPT ![r] = "KILLED"]
  /\ Goto(r, "over")
  /\ UNCHANGED <<world, files, kind, stale, recent, watched, judged>>

(***************************************************************************)
(* run_phase                                                               *)
(***************************************************************************)
\* Faulty variant: only the invocation's own new name is torn down.
ListNobody(r) ==
  /\ pc[r] = "idle"
  /\ Alone => \A q \in Runners : ~Busy(q)
  /\ stale' = [stale EXCEPT ![r] = {}]
  /\ Goto(r, "evict")
  /\ UNCHANGED <<world, files, kind, recent, watched, judged, verdict>>

(* docker ps names the containers of this phase, whoever runs them. *)
List(r) ==
  /\ pc[r] = "idle"
  /\ Alone => \A q \in Runners : ~Busy(q)
  /\ stale' = [stale EXCEPT ![r] = {q \in Runners : box[q] = "up"}]
  /\ Goto(r, "evict")
  /\ UNCHANGED <<world, files, kind, recent, watched, judged, verdict>>

(* docker rm -f. *)
Evict(r) ==
  /\ pc[r] = "evict"
  /\ box' = [q \in Runners |-> IF q \in stale[r] THEN "gone" ELSE box[q]]
  /\ Goto(r, "launch")
  /\ UNCHANGED <<guest, log, sock, files, kind, stale, recent, watched, judged, verdict>>

(* start_ts, and docker run -d; when that fails the script ends. *)
Launch(r) ==
  /\ pc[r] = "launch"
  /\ \/ /\ box' = [box EXCEPT ![r] = "up"]
        /\ recent' = [recent EXCEPT ![r] = {q \in Runners : box[q] = "up"}
                                             \cup (IF SameSecond THEN stale[r] ELSE {})]
        /\ Goto(r, "findlog")
        /\ UNCHANGED <<guest, log, sock, files, kind, stale, watched, judged, verdict>>
     \/ Die(r)

\* Faulty variant: any log will do, without a look at its time.
FreshAny(r) == {q \in Runners : log[q] # "absent"}

(* The logs that are not older than start_ts. *)
Fresh(r) == {q \in recent[r] : log[q] # "absent"}

(* ls -t | head -1: a log that is being written is the newest. *)
Newest(r) == IF \E q \in Fresh(r) : Up(q) THEN {q \in Fresh(r) : Up(q)} ELSE Fresh(r)

FindLog(r) ==
  /\ pc[r] = "findlog"
  /\ \E q \in Newest(r) : watched' = [watched EXCEPT ![r] = q]
  /\ Goto(r, "poll")
  /\ UNCHANGED <<world, files, kind, stale, recent, judged, verdict>>

(* 60 s for the log, BOOT_TIMEOUT for the marker; nobody looks whether the *)
(* container still runs.                                                   *)
\* Faulty variant: no limit on the wait for the marker.
TimeoutLogOnly(r) == pc[r] = "findlog" /\ Fail(r)

Timeout(r) == pc[r] \in {"findlog", "poll"} /\ Fail(r)

(* The boot marker, and PHASE_SETTLE for the picture to settle. *)
Marker(r) ==
  /\ pc[r] = "poll" /\ log[watched[r]] = "login"
  /\ Goto(r, "dump")
  /\ UNCHANGED <<world, files, kind, stale, recent, watched, judged, verdict>>

Panic(r) == pc[r] = "poll" /\ log[watched[r]] = "panic" /\ Fail(r)

(* What a dump of q shows; the picture of a booted guest may be wrong.     *)
Shots(q) ==
  {[of |-> q, picture |-> p] : p \in {"other"} \cup ({guest[q]} \cap {"login", "typed"})}

(* screendump on the monitor socket.  socat fails without a listener; with *)
(* one it succeeds, but a QEMU without a surface writes no file.           *)
Dump(r) ==
  /\ pc[r] = "dump"
  /\ IF ~Up(sock) THEN Fail(r)
     ELSE /\ IF Surface THEN \E s \in Shots(sock) : ppm' = [ppm EXCEPT ![kind[r]] = s]
                        ELSE ppm' = ppm
          /\ Goto(r, "check")
          /\ UNCHANGED <<world, png, gold, kind, stale, recent, watched, judged, verdict>>

(* test -f. *)
Check(r) ==
  /\ pc[r] = "check"
  /\ IF ppm[kind[r]] = NoShot THEN Fail(r)
     ELSE /\ Goto(r, "convert")
          /\ UNCHANGED <<world, files, kind, stale, recent, watched, judged, verdict>>

Convert(r) ==
  /\ pc[r] = "convert"
  /\ \/ /\ png' = [png EXCEPT ![kind[r]] = ppm[kind[r]]]
        /\ Goto(r, "compare")
        /\ UNCHANGED <<world, ppm, gold, kind, stale, recent, watched, judged, verdict>>
     \/ Fail(r)

Judge(r) == judged' = [judged EXCEPT ![r][kind[r]] = png[kind[r]]]
Matches(r) == png[kind[r]].picture = gold[kind[r]]

\* Faulty variant: a difference above the threshold is reported, not returned.
CompareLenient(r) ==
  /\ pc[r] = "compare" /\ kind[r] = "boot"
  /\ Judge(r) /\ UNCHANGED files
  /\ IF InputVerify
     THEN Goto(r, "drive") /\ UNCHANGED <<world, kind, stale, recent, watched, verdict>>
     ELSE End(r, "PASS")

(* The threshold is computed with $(( )), where a fraction is an error.    *)
Compare(r) ==
  /\ pc[r] = "compare" /\ kind[r] = "boot"
  /\ IF Fractional THEN Die(r)
     ELSE /\ Judge(r) /\ UNCHANGED files
          /\ CASE ~Matches(r) -> End(r, "FAIL")
               [] Matches(r) /\ ~InputVerify -> End(r, "PASS")
               [] OTHER -> /\ Goto(r, "drive")
                           /\ UNCHANGED <<world, kind, stale, recent, watched, verdict>>

(* Three keys for whoever listens; without a listener no clearing either.  *)
Drive(r) ==
  /\ pc[r] = "drive"
  /\ IF ~Up(sock) THEN Fail(r)
     ELSE /\ \E s \in {guest[sock]} \cup (IF guest[sock] = "login" THEN {"typed"} ELSE {}) :
               guest' = [guest EXCEPT ![sock] = s]
          /\ kind' = [kind EXCEPT ![r] = "input"]
          /\ Goto(r, "dump")
          /\ UNCHANGED <<box, log, sock, files, stale, recent, watched, judged, verdict>>

(* Without a gold image this picture becomes it. *)
CompareInput(r) ==
  /\ pc[r] = "compare" /\ kind[r] = "input"
  /\ Judge(r) /\ UNCHANGED <<ppm, png>>
  /\ IF gold["input"] = "none"
     THEN gold' = [gold EXCEPT !["input"] = png["input"].picture] /\ End(r, "PASS")
     ELSE gold' = gold /\ End(r, IF Matches(r) THEN "PASS" ELSE "FAIL")

RunPhase(r) ==
  \/ Evict(r) \/ Launch(r) \/ FindLog(r) \/ Timeout(r) \/ Marker(r) \/ Panic(r)
  \/ Dump(r) \/ Check(r) \/ Convert(r) \/ Compare(r) \/ Drive(r) \/ CompareInput(r)

Next == \E r \in Runners : List(r) \/ RunPhase(r) \/ Interrupt(r) \/ Container(r)

(* The shell gets on with its script, and its waits are limited; nothing   *)
(* is assumed of the guest.                                                *)
Spec == Init /\ [][Next]_vars /\ \A r \in Runners : WF_vars(RunPhase(r))

(***************************************************************************)
(* Properties                                                              *)
(***************************************************************************)
Pictures == {"none", "login", "typed", "other"}
ShotType == [of : Runners \cup {Old, "none"}, picture : Pictures]

(* What the variables may hold. *)
TypeOK ==
  /\ box \in [Runners -> {"none", "up", "gone"}]
  /\ guest \in [Runners -> {"none", "booting", "login", "typed", "panic"}]
  /\ log \in [Runners -> {"absent", "booting", "login", "panic"}]
  /\ sock \in Runners \cup {"none"}
  /\ ppm \in [Kinds -> ShotType] /\ png \in [Kinds -> ShotType]
  /\ gold \in [Kinds -> Pictures]
  /\ pc \in [Runners -> {"idle", "evict", "launch", "findlog", "poll", "dump", "check",
                         "convert", "compare", "drive", "over"}]
  /\ kind \in [Runners -> Kinds]
  /\ stale \in [Runners -> SUBSET Runners] /\ recent \in [Runners -> SUBSET Runners]
  /\ watched \in [Runners -> Runners \cup {"none"}]
  /\ judged \in [Runners -> [Kinds -> ShotType]]
  /\ verdict \in [Runners -> {"none", "PASS", "FAIL", "DIED", "KILLED"}]
  /\ \A r \in Runners : pc[r] = "over" <=> verdict[r] # "none"

(* PASS needs both (test-runner.sh:14-16): the marker in the log of the    *)
(* invocation's own container, and a matching picture of that container;   *)
(* in phase 3, against an existing gold image, the keys have arrived in    *)
(* that guest.                                                             *)
PassNeedsBoth ==
  \A r \in Runners : verdict[r] = "PASS" =>
    /\ watched[r] = r /\ log[r] = "login"
    /\ judged[r]["boot"] = [of |-> r, picture |-> "login"]
    /\ InputVerify => /\ judged[r]["input"].of = r
                      /\ gold["input"] = "typed" => judged[r]["input"].picture = "typed"

(* An invocation that gave its verdict has taken down its container        *)
(* (mos:213).                                                              *)
TornDown == \A r \in Runners : verdict[r] \in {"PASS", "FAIL"} => box[r] # "up"

(* The same of one that came to its comparison, whatever became of it.     *)
TornDownAlways ==
  \A r \in Runners :
    verdict[r] # "KILLED" /\ pc[r] = "over" => box[r] # "up"

(* While an invocation works, no container of an earlier one is left, from *)
(* a Ctrl-C or a crash of the script, to hold its sockets.                 *)
NoLeftover ==
  \A r \in Runners : pc[r] \notin {"idle", "evict", "over"} =>
    \A q \in Runners : box[q] = "up" => q = r

(* The serial log is of this launch (test-runner.sh:198-199). *)
OwnLog == \A r \in Runners : watched[r] \in {"none", r}

(* Every invocation comes to an end, whatever the guest does. *)
Ends == \A r \in Runners : Busy(r) ~> pc[r] = "over"
=============================================================================
