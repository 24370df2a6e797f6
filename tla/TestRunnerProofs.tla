-------------------------- MODULE TestRunnerProofs --------------------------
(***************************************************************************)
(* Verdicts of test-runner.sh, for any number of invocations of a phase    *)
(* that an operator runs one after the other, interrupts any of, and whose *)
(* containers die or hang as they please.                                  *)
(***************************************************************************)
EXTENDS TestRunner, TLAPS

RunnerInv == TypeOK /\ TornDown

LEMMA InitRunner == Init => RunnerInv
<1> SUFFICES ASSUME Init PROVE RunnerInv
  OBVIOUS
<1>1. ppm \in [Kinds -> ShotType] /\ gold \in [Kinds -> Pictures]
  BY DEF Init, Kinds, ShotType, Pictures, NoShot, Old
<1> QED
  BY <1>1 DEF Init, RunnerInv, TypeOK, TornDown, Kinds, ShotType, Pictures, NoShot

(* What a verdict leaves, but for what it compared. *)
LEMMA EndType ==
  ASSUME RunnerInv, NEW r \in Runners, Busy(r), NEW v \in {"PASS", "FAIL"}, End(r, v),
         ppm' \in [Kinds -> ShotType], png' \in [Kinds -> ShotType],
         gold' \in [Kinds -> Pictures], judged' \in [Runners -> [Kinds -> ShotType]]
  PROVE  RunnerInv'
<1> USE DEF RunnerInv, TypeOK, End, Goto
<1>1. guest' \in [Runners -> {"none", "booting", "login", "typed", "panic"}]
  <2>1. guest' = guest \/ guest' = [guest EXCEPT ![sock] = "login"]
    BY DEF ClearPassword
  <2> QED
    BY <2>1
<1>2. /\ box' \in [Runners -> {"none", "up", "gone"}]
      /\ \A q \in Runners : box'[q] = IF q = r /\ box[r] = "up" THEN "gone" ELSE box[q]
  OBVIOUS
<1>3. /\ verdict' \in [Runners -> {"none", "PASS", "FAIL", "DIED", "KILLED"}]
      /\ \A q \in Runners : verdict'[q] = IF q = r THEN v ELSE verdict[q]
  OBVIOUS
<1>4. pc' = [pc EXCEPT ![r] = "over"]
  OBVIOUS
<1>5. TornDown'
  BY <1>2, <1>3 DEF TornDown
<1>6. \A q \in Runners : pc'[q] = "over" <=> verdict'[q] # "none"
  BY <1>3, <1>4
<1>7. UNCHANGED <<log, sock, kind, stale, recent, watched>>
  OBVIOUS
<1> QED
  BY <1>1, <1>2, <1>3, <1>4, <1>5, <1>6, <1>7

(* Types are kept, and no verdict leaves a container up. *)
LEMMA NextRunner == RunnerInv /\ [Next]_vars => RunnerInv'
<1> SUFFICES ASSUME RunnerInv, [Next]_vars PROVE RunnerInv'
  OBVIOUS
<1> USE KindAssumption DEF RunnerInv, Busy
<1>a. ASSUME NEW r \in Runners, Busy(r), Fail(r) PROVE RunnerInv'
  <2>1. UNCHANGED <<ppm, png, gold, judged>> /\ End(r, "FAIL")
    BY <1>a DEF Fail, files
  <2>2. /\ ppm' \in [Kinds -> ShotType] /\ png' \in [Kinds -> ShotType]
        /\ gold' \in [Kinds -> Pictures] /\ judged' \in [Runners -> [Kinds -> ShotType]]
    BY <2>1 DEF TypeOK
  <2> HIDE DEF RunnerInv
  <2> QED
    BY <1>a, <2>1, <2>2, EndType
<1>b. ASSUME NEW r \in Runners, Busy(r), Die(r) PROVE RunnerInv'
  BY <1>b DEF TypeOK, TornDown, Die, Goto, world, files
<1>c. ASSUME NEW r \in Runners, Busy(r), Judge(r),
             \/ End(r, "PASS") \/ End(r, "FAIL")
             \/ Goto(r, "drive") /\ UNCHANGED <<world, kind, stale, recent, watched, verdict>>,
             UNCHANGED <<ppm, png>>, gold' \in [Kinds -> Pictures]
      PROVE  RunnerInv'
  <2>1. judged' \in [Runners -> [Kinds -> ShotType]]
    BY <1>c DEF TypeOK, Judge
  <2>2. CASE End(r, "PASS") \/ End(r, "FAIL")
    <3>1. ppm' \in [Kinds -> ShotType] /\ png' \in [Kinds -> ShotType]
      BY <1>c DEF TypeOK
    <3> HIDE DEF RunnerInv
    <3> QED
      BY <1>c, <2>1, <2>2, <3>1, EndType
  <2>3. CASE Goto(r, "drive") /\ UNCHANGED <<world, kind, stale, recent, watched, verdict>>
    BY <1>c, <2>1, <2>3 DEF TypeOK, TornDown, Goto, world
  <2> QED
    BY <1>c, <2>2, <2>3
<1>1. ASSUME NEW r \in Runners, List(r) PROVE RunnerInv'
  BY <1>1 DEF TypeOK, TornDown, List, Goto, world, files
<1>2. ASSUME NEW r \in Runners, Evict(r) PROVE RunnerInv'
  BY <1>2 DEF TypeOK, TornDown, Evict, Goto, files
<1>3. ASSUME NEW r \in Runners, Launch(r) PROVE RunnerInv'
  <2>1. CASE Die(r)
    BY <1>3, <2>1, <1>b DEF Launch
  <2>2. CASE /\ box' = [box EXCEPT ![r] = "up"]
             /\ recent' = [recent EXCEPT ![r] = {q \in Runners : box[q] = "up"}
                                             \cup (IF SameSecond THEN stale[r] ELSE {})]
             /\ Goto(r, "findlog")
             /\ UNCHANGED <<guest, log, sock, files, kind, stale, watched, judged, verdict>>
    BY <1>3, <2>2 DEF TypeOK, TornDown, Launch, Goto, files
  <2> QED
    BY <1>3, <2>1, <2>2 DEF Launch
<1>4. ASSUME NEW r \in Runners, FindLog(r) PROVE RunnerInv'
  BY <1>4 DEF TypeOK, TornDown, FindLog, Newest, Fresh, Goto, world, files
<1>5. ASSUME NEW r \in Runners, Timeout(r) \/ Panic(r) PROVE RunnerInv'
  BY <1>5, <1>a DEF Timeout, Panic
<1>6. ASSUME NEW r \in Runners, Marker(r) PROVE RunnerInv'
  BY <1>6 DEF TypeOK, TornDown, Marker, Goto, world, files
<1>7. ASSUME NEW r \in Runners, Dump(r) PROVE RunnerInv'
  <2>1. CASE ~Up(sock)
    BY <1>7, <2>1, <1>a DEF Dump
  <2>2. CASE Up(sock)
    <3>1. \A s \in Shots(sock) : s \in ShotType
      BY <2>2 DEF TypeOK, Shots, ShotType, Pictures, Up
    <3>2. ppm' \in [Kinds -> ShotType]
      BY <1>7, <2>2, <3>1 DEF Dump, TypeOK
    <3> QED
      BY <1>7, <2>2, <3>2, SMTT(60) DEF TypeOK, TornDown, Dump, Goto, world
  <2> QED
    BY <2>1, <2>2
<1>8. ASSUME NEW r \in Runners, Check(r) PROVE RunnerInv'
  <2>1. CASE ppm[kind[r]] = NoShot
    BY <1>8, <2>1, <1>a DEF Check
  <2>2. CASE ppm[kind[r]] # NoShot
    BY <1>8, <2>2, SMTT(60) DEF TypeOK, TornDown, Check, Goto, world, files
  <2> QED
    BY <2>1, <2>2
<1>9. ASSUME NEW r \in Runners, Convert(r) PROVE RunnerInv'
  <2>1. CASE Fail(r)
    BY <1>9, <2>1, <1>a DEF Convert
  <2>2. CASE /\ png' = [png EXCEPT ![kind[r]] = ppm[kind[r]]]
             /\ Goto(r, "compare")
             /\ UNCHANGED <<world, ppm, gold, kind, stale, recent, watched, judged, verdict>>
    BY <1>9, <2>2 DEF TypeOK, TornDown, Convert, Goto, world
  <2> QED
    BY <1>9, <2>1, <2>2 DEF Convert
<1>10. ASSUME NEW r \in Runners, Compare(r) PROVE RunnerInv'
  <2>1. CASE Fractional
    BY <1>10, <2>1, <1>b DEF Compare
  <2>2. CASE ~Fractional
    BY <1>10, <2>2, <1>c DEF Compare, files, TypeOK
  <2> QED
    BY <2>1, <2>2
<1>11. ASSUME NEW r \in Runners, Drive(r) PROVE RunnerInv'
  <2>1. CASE ~Up(sock)
    BY <1>11, <2>1, <1>a DEF Drive
  <2>2. CASE Up(sock)
    <3>0. PICK s \in {"none", "booting", "login", "typed", "panic"} :
            guest' = [guest EXCEPT ![sock] = s]
      BY <1>11, <2>2 DEF TypeOK, Drive, Up
    <3>1. guest' \in [Runners -> {"none", "booting", "login", "typed", "panic"}]
      BY <3>0 DEF TypeOK
    <3>2. kind' \in [Runners -> Kinds]
      BY <1>11, <2>2, ZenonT(60) DEF TypeOK, Drive, Kinds
    <3> QED
      <4>1. /\ pc[r] = "drive" /\ pc' = [pc EXCEPT ![r] = "dump"]
            /\ UNCHANGED <<box, log, sock, ppm, png, gold, stale, recent, watched, judged,
                          verdict>>
        BY <1>11, <2>2 DEF Drive, Goto, files
      <4> QED
        BY <3>1, <3>2, <4>1 DEF TypeOK, TornDown
  <2> QED
    BY <2>1, <2>2
<1>12. ASSUME NEW r \in Runners, CompareInput(r) PROVE RunnerInv'
  <2>1. UNCHANGED <<ppm, png>> /\ gold' \in [Kinds -> Pictures]
    BY <1>12 DEF CompareInput, TypeOK, ShotType, Kinds
  <2> QED
    BY <1>12, <2>1, <1>c DEF CompareInput
<1>13. ASSUME NEW r \in Runners, Interrupt(r) PROVE RunnerInv'
  BY <1>13 DEF TypeOK, TornDown, Interrupt, Goto, world, files
<1>14. ASSUME NEW q \in Runners, Container(q) PROVE RunnerInv'
  <2>1. CASE QemuStarts(q)
    BY <1>14, <2>1 DEF TypeOK, TornDown, QemuStarts, files
  <2>2. CASE GuestBoots(q)
    BY <1>14, <2>2 DEF TypeOK, TornDown, GuestBoots, run, files
  <2>3. CASE QemuDies(q)
    BY <1>14, <2>3 DEF TypeOK, TornDown, QemuDies, run, files
  <2> QED
    BY <1>14, <2>1, <2>2, <2>3 DEF Container
<1>15. ASSUME UNCHANGED vars PROVE RunnerInv'
  BY <1>15 DEF TypeOK, TornDown, vars, run, world, files
<1> QED
  BY <1>1, <1>2, <1>3, <1>4, <1>5, <1>6, <1>7, <1>8, <1>9, <1>10, <1>11, <1>12, <1>13, <1>14,
     <1>15 DEF Next, RunPhase

(* An invocation that gave its verdict has taken its container down. *)
THEOREM VerdictTearsDown == Spec => []TornDown
<1>1. RunnerInv => TornDown
  BY DEF RunnerInv
<1> QED
  BY InitRunner, NextRunner, <1>1, PTL DEF Spec
-----------------------------------------------------------------------------
(* One invocation at a time                                                *)

Watching == {"poll", "dump", "check", "convert", "compare", "drive"}

(* The steps of an invocation whose container has been started. *)
Later(r) ==
  \/ FindLog(r) \/ Timeout(r) \/ Marker(r) \/ Panic(r) \/ Dump(r) \/ Check(r)
  \/ Convert(r) \/ Compare(r) \/ Drive(r) \/ CompareInput(r)

(* What a verdict, an error of the shell and a Ctrl-C have in common. *)
Over(r) ==
  /\ pc' = [pc EXCEPT ![r] = "over"]
  /\ \A q \in Runners : box'[q] = "up" => box[q] = "up"
  /\ UNCHANGED <<log, sock, kind, stale, recent, watched>>
  /\ \A q \in Runners : guest'[q] = guest[q] \/ {guest[q], guest'[q]} \subseteq {"login", "typed"}

LEMMA EndsOver ==
  ASSUME TypeOK, NEW r \in Runners,
         (\E v : End(r, v)) \/ Fail(r) \/ Die(r) \/ Interrupt(r)
  PROVE  Over(r)
<1>1. CASE Die(r) \/ Interrupt(r)
  BY <1>1 DEF Die, Interrupt, Goto, world, Over
<1>2. CASE \E v : End(r, v)
  <2>1. \A q \in Runners : box'[q] = "up" => box[q] = "up"
    BY <1>2 DEF End, TypeOK
  <2>2. \A q \in Runners :
           guest'[q] = guest[q] \/ {guest[q], guest'[q]} \subseteq {"login", "typed"}
    <3>1. \/ guest' = guest
          \/ /\ Up(sock) /\ guest[sock] = "typed"
             /\ guest' = [guest EXCEPT ![sock] = "login"]
      BY <1>2 DEF End, ClearPassword
    <3> QED
      BY <3>1 DEF TypeOK
  <2> QED
    BY <1>2, <2>1, <2>2 DEF End, Goto, Over
<1> QED
  BY <1>1, <1>2 DEF Fail

(* What the world sees of an invocation's later steps: it ends, or moves   *)
(* on without touching a container but through its keyboard.               *)
Onward(r) ==
  /\ pc[r] \notin {"idle", "evict", "launch", "over"}
  /\ \E to \in Watching : pc' = [pc EXCEPT ![r] = to]
  /\ UNCHANGED <<box, log, sock, stale, recent>>
  /\ FindLog(r) \/ (watched' = watched /\ pc[r] # "findlog")
  /\ \A q \in Runners : guest'[q] = guest[q] \/ {guest[q], guest'[q]} \subseteq {"login", "typed"}

LEMMA LaterShape ==
  ASSUME TypeOK, NEW r \in Runners, Later(r)
  PROVE  Busy(r) /\ (Over(r) \/ Onward(r))
<1> USE DEF Busy, Watching
<1>1. CASE FindLog(r)
  BY <1>1 DEF FindLog, Goto, world, Onward
<1>2. CASE Timeout(r) \/ Panic(r)
  BY <1>2, EndsOver DEF Timeout, Panic
<1>3. CASE Marker(r)
  BY <1>3 DEF Marker, Goto, world, Onward
<1>4. CASE Dump(r)
  BY <1>4, EndsOver DEF Dump, Goto, world, Onward
<1>5. CASE Check(r)
  BY <1>5, EndsOver DEF Check, Goto, world, Onward
<1>6. CASE Convert(r)
  BY <1>6, EndsOver DEF Convert, Goto, world, Onward
<1>7. CASE Compare(r)
  BY <1>7, EndsOver DEF Compare, Goto, world, Onward
<1>8. CASE Drive(r)
  <2>1. CASE ~Up(sock)
    BY <1>8, <2>1, EndsOver DEF Drive
  <2>2. CASE Up(sock)
    <3>1. /\ pc[r] = "drive" /\ pc' = [pc EXCEPT ![r] = "dump"]
          /\ UNCHANGED <<box, log, sock, stale, recent, watched>>
      BY <1>8, <2>2 DEF Drive, Goto
    <3>2. \/ guest' = [guest EXCEPT ![sock] = guest[sock]]
          \/ guest[sock] = "login" /\ guest' = [guest EXCEPT ![sock] = "typed"]
      BY <1>8, <2>2 DEF Drive
    <3> QED
      BY <3>1, <3>2 DEF TypeOK, Onward
  <2> QED
    BY <2>1, <2>2
<1>9. CASE CompareInput(r)
  BY <1>9, EndsOver DEF CompareInput
<1> QED
  BY <1>1, <1>2, <1>3, <1>4, <1>5, <1>6, <1>7, <1>8, <1>9 DEF Later
OneBusy == \A r, q \in Runners : Busy(r) /\ Busy(q) => r = q

(* Nothing comes up between docker ps and docker rm. *)
StaleListed ==
  \A r \in Runners : pc[r] = "evict" => \A q \in Runners : box[q] = "up" => q \in stale[r]

AloneInv == RunnerInv /\ OneBusy /\ StaleListed /\ NoLeftover

LEMMA InitAlone == Init => AloneInv
BY InitRunner DEF AloneInv, Init, OneBusy, StaleListed, NoLeftover, Busy

(* The only invocation under way evicts what earlier ones have left.       *)
LEMMA NextAlone == ASSUME Alone = TRUE PROVE AloneInv /\ [Next]_vars => AloneInv'
<1> SUFFICES ASSUME AloneInv, [Next]_vars PROVE AloneInv'
  OBVIOUS
<1>0. TypeOK /\ RunnerInv'
  BY NextRunner DEF AloneInv, RunnerInv
<1> DEFINE Good == OneBusy' /\ StaleListed' /\ NoLeftover'
<1> USE DEF AloneInv, OneBusy, StaleListed, NoLeftover, Busy
<1>a. ASSUME NEW r \in Runners, Busy(r), Over(r) PROVE Good
  BY <1>0, <1>a DEF Over, TypeOK
<1>1. ASSUME NEW r \in Runners, Later(r) PROVE Good
  <2>1. CASE Over(r)
    BY <1>0, <1>1, <1>a, <2>1, LaterShape
  <2>2. CASE Onward(r)
    BY <1>0, <2>2 DEF Onward, TypeOK, Watching
  <2> QED
    BY <1>0, <1>1, <2>1, <2>2, LaterShape
<1>2. ASSUME NEW r \in Runners, List(r) PROVE Good
  <2>1. /\ \A q \in Runners : pc[q] \in {"idle", "over"}
        /\ pc' = [pc EXCEPT ![r] = "evict"] /\ box' = box
        /\ stale' = [stale EXCEPT ![r] = {q \in Runners : box[q] = "up"}]
    BY <1>2 DEF List, Goto, world
  <2> QED
    BY <1>0, <2>1 DEF TypeOK
<1>3. ASSUME NEW r \in Runners, Evict(r) PROVE Good
  <2>1. /\ pc[r] = "evict" /\ pc' = [pc EXCEPT ![r] = "launch"] /\ stale' = stale
        /\ \A q \in Runners : box'[q] = IF q \in stale[r] THEN "gone" ELSE box[q]
    BY <1>3 DEF Evict, Goto
  <2> QED
    BY <1>0, <2>1 DEF TypeOK
<1>4. ASSUME NEW r \in Runners, Launch(r) PROVE Good
  <2>1. CASE Die(r)
    BY <1>0, <1>4, <2>1, <1>a, EndsOver DEF Launch
  <2>2. CASE /\ box' = [box EXCEPT ![r] = "up"] /\ Goto(r, "findlog") /\ stale' = stale
    <3>1. /\ pc[r] = "launch" /\ pc' = [pc EXCEPT ![r] = "findlog"]
          /\ box' = [box EXCEPT ![r] = "up"] /\ stale' = stale
      BY <1>4, <2>2 DEF Launch, Goto
    <3>2. /\ pc'[r] = "findlog" /\ \A q \in Runners \ {r} : pc'[q] = pc[q]
          /\ \A q \in Runners \ {r} : box'[q] = box[q]
      BY <1>0, <3>1 DEF TypeOK
    <3> QED
      BY <1>0, <3>1, <3>2
  <2> QED
    BY <1>4, <2>1, <2>2 DEF Launch
<1>5. ASSUME NEW r \in Runners, Interrupt(r) PROVE Good
  BY <1>0, <1>5, <1>a, EndsOver DEF Interrupt
<1>6. ASSUME NEW q \in Runners, Container(q) PROVE Good
  <2>1. /\ pc' = pc /\ stale' = stale
        /\ \A s \in Runners : box'[s] = "up" => box[s] = "up"
    BY <1>0, <1>6 DEF Container, QemuStarts, GuestBoots, QemuDies, run, TypeOK
  <2> QED
    BY <2>1
<1>7. ASSUME UNCHANGED vars PROVE Good
  BY <1>7 DEF vars, run, world
<1>8. Good
  BY <1>1, <1>2, <1>3, <1>4, <1>5, <1>6, <1>7 DEF Next, RunPhase, Later
<1> QED
  BY <1>0, <1>8

(* With one invocation at a time, none works beside a container that an    *)
(* earlier one left, whatever ended that one.                              *)
THEOREM LeftoversEvicted == ASSUME Alone = TRUE PROVE Spec => []NoLeftover
<1>1. AloneInv => NoLeftover
  BY DEF AloneInv
<1> QED
  BY InitAlone, NextAlone, <1>1, PTL DEF Spec

-----------------------------------------------------------------------------
(* The log                                                                 *)

(* Only the invocation's own log has been written since its launch, and it *)
(* has found that one before it looks for the marker.                      *)
OwnRecent ==
  \A r \in Runners :
    /\ pc[r] \in Watching \cup {"findlog"} => recent[r] \subseteq {r}
    /\ pc[r] \in Watching => watched[r] = r

LogInv == AloneInv /\ OwnRecent /\ OwnLog

LEMMA InitLog == Init => LogInv
BY InitAlone DEF LogInv, Init, OwnRecent, OwnLog, Watching

LEMMA NextLog == ASSUME Alone = TRUE, SameSecond = FALSE PROVE LogInv /\ [Next]_vars => LogInv'
<1> SUFFICES ASSUME LogInv, [Next]_vars PROVE LogInv'
  OBVIOUS
<1>0. TypeOK /\ NoLeftover /\ OneBusy /\ AloneInv'
  BY NextAlone DEF LogInv, AloneInv, RunnerInv
<1> DEFINE Good == OwnRecent' /\ OwnLog'
<1> USE DEF LogInv, OwnRecent, OwnLog, Watching
<1>a. ASSUME NEW r \in Runners, Over(r) PROVE Good
  BY <1>0, <1>a DEF Over, TypeOK
<1>b. ASSUME NEW r \in Runners, Onward(r), watched' = watched, pc[r] # "findlog" PROVE Good
  BY <1>0, <1>b DEF Onward, TypeOK
<1>1. ASSUME NEW r \in Runners, Later(r) PROVE Good
  <2>1. CASE Over(r)
    BY <1>a, <2>1
  <2>2. CASE FindLog(r)
    <3>1. \A q \in Newest(r) : q \in recent[r]
      BY DEF Newest, Fresh
    <3>2. PICK q \in Newest(r) : watched' = [watched EXCEPT ![r] = q]
      BY <2>2 DEF FindLog
    <3>3. q = r
      BY <1>0, <2>2, <3>1 DEF FindLog
    <3>4. pc[r] = "findlog" /\ pc' = [pc EXCEPT ![r] = "poll"] /\ recent' = recent
      BY <2>2 DEF FindLog, Goto
    <3> QED
      BY <1>0, <3>2, <3>3, <3>4 DEF TypeOK
  <2>3. CASE ~FindLog(r) /\ Onward(r)
    BY <1>b, <2>3 DEF Onward
  <2> QED
    BY <1>0, <1>1, <2>1, <2>2, <2>3, LaterShape
<1>2. ASSUME NEW r \in Runners, List(r) \/ Evict(r) PROVE Good
  BY <1>0, <1>2 DEF List, Evict, Goto, TypeOK
<1>3. ASSUME NEW r \in Runners, Launch(r) PROVE Good
  <2>1. CASE Die(r)
    BY <1>0, <2>1, <1>a, EndsOver
  <2>2. CASE /\ recent' = [recent EXCEPT ![r] = {q \in Runners : box[q] = "up"}]
             /\ Goto(r, "findlog") /\ watched' = watched
    BY <1>0, <1>3, <2>2, SMTT(60) DEF Launch, Goto, TypeOK, NoLeftover
  <2> QED
    BY <1>3, <2>1, <2>2 DEF Launch
<1>4. ASSUME NEW r \in Runners, Interrupt(r) PROVE Good
  BY <1>0, <1>4, <1>a, EndsOver
<1>5. ASSUME NEW q \in Runners, QemuStarts(q) PROVE Good
  <2>1. \A r \in Runners : pc[r] \in Watching \cup {"findlog"} => r = q
    BY <1>0, <1>5 DEF QemuStarts, NoLeftover
  <2>2. /\ pc' = pc /\ watched' = watched
        /\ \A r \in Runners : recent'[r] \subseteq recent[r] \cup {q}
    BY <1>5 DEF QemuStarts
  <2> QED
    BY <2>1, <2>2
<1>6. ASSUME NEW q \in Runners, GuestBoots(q) \/ QemuDies(q) PROVE Good
  BY <1>6 DEF GuestBoots, QemuDies, run
<1>7. ASSUME UNCHANGED vars PROVE Good
  BY <1>7 DEF vars, run
<1>8. Good
  BY <1>1, <1>2, <1>3, <1>4, <1>5, <1>6, <1>7 DEF Next, RunPhase, Later, Container
<1> QED
  BY <1>0, <1>8

(* The log an invocation watches is the one its own QEMU writes. *)
THEOREM LogIsOwn == ASSUME Alone = TRUE, SameSecond = FALSE PROVE Spec => []OwnLog
<1>1. LogInv => OwnLog
  BY DEF LogInv
<1> QED
  BY InitLog, NextLog, <1>1, PTL DEF Spec
-----------------------------------------------------------------------------
(* PASS                                                                    *)

OwnShot(r, shot) == shot.of = r /\ shot.picture # "none"

(* What an invocation knows on its way to PASS: its log has the marker,    *)
(* its guest made the pictures, the first of them was right before the     *)
(* keys were sent.                                                         *)
Evidence(r) ==
  /\ pc[r] \in Watching \ {"poll"} \/ verdict[r] = "PASS" => watched[r] = r /\ log[r] = "login"
  /\ pc[r] \in {"check", "convert"} => OwnShot(r, ppm[kind[r]])
  /\ pc[r] = "compare" => OwnShot(r, png[kind[r]])
  /\ pc[r] = "drive" \/ (kind[r] = "input" /\ Busy(r)) \/ verdict[r] = "PASS" =>
       judged[r]["boot"] = [of |-> r, picture |-> "login"]
  /\ kind[r] = "input" => pc[r] \in {"dump", "check", "convert", "compare", "over"}
  /\ verdict[r] = "PASS" /\ InputVerify =>
       /\ gold["input"] # "none" /\ judged[r]["input"].of = r
       /\ gold["input"] = "typed" => judged[r]["input"].picture = "typed"

(* A log with the marker is finished. *)
LogTells == \A q \in Runners : log[q] = "login" => guest[q] \in {"login", "typed"}

PassInv == /\ LogInv /\ LogTells /\ gold["boot"] = "login"
           /\ \A r \in Runners : Evidence(r)

LEMMA InitPass == Init => PassInv
BY InitLog DEF PassInv, Init, Evidence, LogTells, Watching, Busy

(* What the steps of r leave to the other invocations. *)
Elsewhere(r) ==
  /\ \A q \in Runners \ {r} :
       /\ pc'[q] = pc[q] /\ kind'[q] = kind[q] /\ verdict'[q] = verdict[q]
       /\ judged'[q] = judged[q] /\ watched'[q] = watched[q]
  /\ log' = log /\ gold'["boot"] = gold["boot"]
  /\ gold["input"] # "none" => gold'["input"] = gold["input"]

LEMMA OthersKeep ==
  ASSUME PassInv, NEW r \in Runners, Elsewhere(r), \A q \in Runners : Busy(q) => q = r,
         NEW q \in Runners \ {r}
  PROVE  Evidence(q)'
<1>1. ~Busy(q)
  OBVIOUS
<1> QED
  BY <1>1 DEF PassInv, Elsewhere, Evidence, Busy, Watching

(* What the files and r itself undergo when it ends without PASS. *)
LEMMA FailsElsewhere ==
  ASSUME PassInv, NEW r \in Runners, Busy(r), Fail(r) \/ Die(r) \/ Interrupt(r)
  PROVE  Elsewhere(r) /\ Evidence(r)' /\ verdict'[r] # "PASS"
<1>0. TypeOK
  BY DEF PassInv, LogInv, AloneInv, RunnerInv
<1>1. /\ pc' = [pc EXCEPT ![r] = "over"] /\ verdict'[r] \in {"FAIL", "DIED", "KILLED"}
      /\ UNCHANGED <<log, kind, watched, judged, gold>>
      /\ \A q \in Runners \ {r} : verdict'[q] = verdict[q]
  BY <1>0 DEF Fail, Die, Interrupt, End, Goto, world, files, TypeOK
<1> QED
  BY <1>0, <1>1 DEF Elsewhere, Evidence, TypeOK, Watching, Busy

LEMMA NextLogTells == TypeOK /\ LogTells /\ [Next]_vars => LogTells'
<1> SUFFICES ASSUME TypeOK, LogTells, [Next]_vars PROVE LogTells'
  OBVIOUS
<1> USE DEF LogTells
<1>1. ASSUME NEW r \in Runners, Later(r) \/ Interrupt(r) PROVE LogTells'
  BY <1>1, LaterShape, EndsOver DEF Over, Onward
<1>2. ASSUME NEW r \in Runners, List(r) \/ Evict(r) PROVE LogTells'
  BY <1>2 DEF List, Evict, world
<1>3. ASSUME NEW r \in Runners, Launch(r) PROVE LogTells'
  BY <1>3, EndsOver DEF Launch, Over
<1>4. ASSUME NEW q \in Runners, Container(q) PROVE LogTells'
  <2>1. CASE QemuStarts(q)
    BY <2>1 DEF QemuStarts, TypeOK
  <2>2. CASE GuestBoots(q)
    BY <2>2 DEF GuestBoots, TypeOK
  <2>3. CASE QemuDies(q)
    BY <2>3 DEF QemuDies
  <2> QED
    BY <1>4, <2>1, <2>2, <2>3 DEF Container
<1>5. ASSUME UNCHANGED vars PROVE LogTells'
  BY <1>5 DEF vars, world
<1> QED
  BY <1>1, <1>2, <1>3, <1>4, <1>5 DEF Next, RunPhase, Later

(* With one invocation, one second between launches and a surface to dump, *)
(* every step keeps what stands behind a PASS.                             *)
LEMMA NextPass ==
  ASSUME Alone = TRUE, SameSecond = FALSE, Surface = TRUE
  PROVE  PassInv /\ [Next]_vars => PassInv'
<1> SUFFICES ASSUME PassInv, [Next]_vars PROVE PassInv'
  OBVIOUS
<1>0. TypeOK /\ NoLeftover /\ OneBusy /\ LogTells /\ LogTells' /\ LogInv'
  BY NextLog, NextLogTells DEF PassInv, LogInv, AloneInv, RunnerInv
<1>e. \A r \in Runners : Evidence(r)
  BY DEF PassInv
<1>g. gold["boot"] = "login"
  BY DEF PassInv
<1>w. \A r \in Runners : pc[r] \in Watching => watched[r] = r
  BY DEF PassInv, LogInv, OwnRecent
<1> DEFINE Good == gold'["boot"] = "login" /\ \A q \in Runners : Evidence(q)'
<1>b. ASSUME NEW r \in Runners, \A q \in Runners : Busy(q) => q = r,
             Elsewhere(r), Evidence(r)'
      PROVE  Good
  <2>1. \A q \in Runners \ {r} : Evidence(q)'
    BY <1>b, OthersKeep
  <2> QED
    BY <1>b, <1>g, <2>1 DEF Elsewhere
<1>o. ASSUME NEW r \in Runners, Busy(r) PROVE \A q \in Runners : Busy(q) => q = r
  BY <1>0, <1>o DEF OneBusy
<1>f. ASSUME NEW r \in Runners, Busy(r), Fail(r) \/ Die(r) \/ Interrupt(r) PROVE Good
  BY <1>f, <1>o, <1>b, FailsElsewhere
<1>1. ASSUME NEW r \in Runners, List(r) PROVE Good
  <2>1. /\ pc[r] = "idle" /\ pc' = [pc EXCEPT ![r] = "evict"] /\ \A q \in Runners : ~Busy(q)
        /\ UNCHANGED <<log, gold, kind, verdict, judged, watched>>
    BY <1>1 DEF List, Goto, world, files
  <2>2. verdict[r] = "none" /\ kind[r] = "boot"
    BY <1>0, <1>e, <2>1, ZenonT(60) DEF TypeOK, Evidence, Kinds
  <2>3. Elsewhere(r) /\ Evidence(r)'
    BY <1>0, <1>e, <2>1, <2>2 DEF Elsewhere, Evidence, Watching, Busy, TypeOK
  <2> QED
    BY <1>b, <2>1, <2>3
<1>2. ASSUME NEW r \in Runners, Evict(r) PROVE Good
  <2>1. /\ pc[r] = "evict" /\ pc' = [pc EXCEPT ![r] = "launch"]
        /\ UNCHANGED <<log, gold, kind, verdict, judged, watched>>
    BY <1>2 DEF Evict, Goto, world, files
  <2>2. verdict[r] = "none" /\ kind[r] = "boot"
    BY <1>0, <1>e, <2>1, ZenonT(60) DEF TypeOK, Evidence, Kinds
  <2>3. Elsewhere(r) /\ Evidence(r)'
    BY <1>2, <1>0, <1>e, <1>w, <2>1, <2>2 DEF Evict, Elsewhere, Evidence, Watching, Busy, TypeOK
  <2>4. \A q \in Runners : Busy(q) => q = r
    BY <1>2, <1>o, <2>1 DEF Busy, Evict
  <2> QED
    BY <1>b, <2>3, <2>4
<1>3. ASSUME NEW r \in Runners, Launch(r) PROVE Good
  <2>0. pc[r] = "launch" /\ Busy(r)
    BY <1>3 DEF Launch, Busy
  <2>1. CASE Die(r)
    BY <2>0, <2>1, <1>f
  <2>2. ASSUME /\ pc' = [pc EXCEPT ![r] = "findlog"]
               /\ UNCHANGED <<log, gold, kind, verdict, judged, watched>>
        PROVE  Good
    <3>1. verdict[r] = "none" /\ kind[r] = "boot"
      BY <1>0, <1>e, <2>0, ZenonT(60) DEF TypeOK, Evidence, Kinds
    <3>2. Elsewhere(r) /\ Evidence(r)'
      BY <1>0, <1>e, <2>0, <2>2, <3>1 DEF Elsewhere, Evidence, Watching, Busy, TypeOK
    <3> QED
      BY <1>b, <1>o, <2>0, <3>2
  <2> QED
    BY <1>3, <2>1, <2>2 DEF Launch, Goto, files
<1>4. ASSUME NEW r \in Runners, FindLog(r) PROVE Good
  <2>1. /\ pc[r] = "findlog" /\ pc' = [pc EXCEPT ![r] = "poll"]
        /\ UNCHANGED <<log, gold, kind, verdict, judged>>
    BY <1>4 DEF FindLog, Goto, world, files
  <2>2. verdict[r] = "none" /\ kind[r] = "boot"
    BY <1>0, <1>e, <2>1, ZenonT(60) DEF TypeOK, Evidence, Kinds
  <2>3. Elsewhere(r) /\ Evidence(r)'
    BY <1>4, <1>0, <1>e, <1>w, <2>1, <2>2 DEF FindLog, Elsewhere, Evidence, Watching, Busy, TypeOK
  <2>4. \A q \in Runners : Busy(q) => q = r
    BY <1>4, <1>o, <2>1 DEF Busy, FindLog
  <2> QED
    BY <1>b, <2>3, <2>4
<1>5. ASSUME NEW r \in Runners, Timeout(r) \/ Panic(r) \/ Interrupt(r) PROVE Good
  BY <1>5, <1>f DEF Timeout, Panic, Interrupt, Busy
<1>6. ASSUME NEW r \in Runners, Marker(r) PROVE Good
  <2>1. /\ pc[r] = "poll" /\ pc' = [pc EXCEPT ![r] = "dump"]
        /\ UNCHANGED <<log, gold, kind, verdict, judged, watched>>
    BY <1>6 DEF Marker, Goto, world, files
  <2>2. verdict[r] = "none" /\ kind[r] = "boot"
    BY <1>0, <1>e, <2>1, ZenonT(60) DEF TypeOK, Evidence, Kinds
  <2>3. Elsewhere(r) /\ Evidence(r)'
    BY <1>6, <1>0, <1>e, <1>w, <2>1, <2>2 DEF Marker, Elsewhere, Evidence, Watching, Busy, TypeOK
  <2>4. \A q \in Runners : Busy(q) => q = r
    BY <1>6, <1>o, <2>1 DEF Busy, Marker
  <2> QED
    BY <1>b, <2>3, <2>4
<1>7. ASSUME NEW r \in Runners, Dump(r) PROVE Good
  <2>0. pc[r] = "dump" /\ Busy(r) /\ verdict[r] = "none" /\ kind[r] \in Kinds
    BY <1>7, <1>0 DEF Dump, Busy, TypeOK
  <2>1. CASE ~Up(sock)
    BY <1>7, <2>0, <2>1, <1>f DEF Dump
  <2>2. CASE Up(sock)
    <3>1. sock = r
      BY <1>0, <2>0, <2>2 DEF NoLeftover, Up
    <3>2. /\ pc' = [pc EXCEPT ![r] = "check"]
          /\ UNCHANGED <<log, gold, kind, verdict, judged, watched>>
      BY <1>7, <2>2 DEF Dump, Goto, world
    <3>3. PICK s \in Shots(sock) : ppm' = [ppm EXCEPT ![kind[r]] = s]
      BY <1>7, <2>2 DEF Dump
    <3>4. OwnShot(r, s)
      BY <3>1, <3>3 DEF Shots, OwnShot
    <3>5. OwnShot(r, ppm'[kind'[r]])
      BY <1>0, <2>0, <3>2, <3>3, <3>4 DEF TypeOK
    <3>6. Elsewhere(r) /\ Evidence(r)'
      BY <1>0, <1>e, <2>0, <3>2, <3>5 DEF Elsewhere, Evidence, Watching, Busy, TypeOK
    <3> QED
      BY <1>b, <1>o, <2>0, <3>6
  <2> QED
    BY <2>1, <2>2
<1>8. ASSUME NEW r \in Runners, Check(r) PROVE Good
  <2>0. pc[r] = "check" /\ Busy(r) /\ verdict[r] = "none"
    BY <1>8, <1>0 DEF Check, Busy, TypeOK
  <2>1. CASE ppm[kind[r]] = NoShot
    BY <1>8, <2>0, <2>1, <1>f DEF Check
  <2>2. CASE ppm[kind[r]] # NoShot
    <3>1. /\ pc' = [pc EXCEPT ![r] = "convert"]
          /\ UNCHANGED <<log, gold, kind, verdict, judged, watched, ppm>>
      BY <1>8, <2>2 DEF Check, Goto, world, files
    <3>2. Elsewhere(r) /\ Evidence(r)'
      BY <1>0, <1>e, <2>0, <3>1 DEF Elsewhere, Evidence, Watching, Busy, TypeOK
    <3> QED
      BY <1>b, <1>o, <2>0, <3>2
  <2> QED
    BY <2>1, <2>2
<1>9. ASSUME NEW r \in Runners, Convert(r) PROVE Good
  <2>0. pc[r] = "convert" /\ Busy(r) /\ verdict[r] = "none" /\ kind[r] \in Kinds
    BY <1>9, <1>0 DEF Convert, Busy, TypeOK
  <2>1. CASE Fail(r)
    BY <2>0, <2>1, <1>f
  <2>2. ASSUME /\ png' = [png EXCEPT ![kind[r]] = ppm[kind[r]]]
               /\ pc' = [pc EXCEPT ![r] = "compare"]
               /\ UNCHANGED <<log, gold, kind, verdict, judged, watched>>
        PROVE  Good
    <3>1. OwnShot(r, png'[kind'[r]])
      <4>1. OwnShot(r, ppm[kind[r]])
        BY <1>e, <2>0 DEF Evidence
      <4>2. kind' = kind /\ png'[kind[r]] = ppm[kind[r]]
        BY <1>0, <2>0, <2>2 DEF TypeOK
      <4> QED
        BY <4>1, <4>2
    <3>2. Elsewhere(r) /\ Evidence(r)'
      BY <1>0, <1>e, <2>0, <2>2, <3>1 DEF Elsewhere, Evidence, Watching, Busy, TypeOK
    <3> QED
      BY <1>b, <1>o, <2>0, <3>2
  <2> QED
    BY <1>9, <2>1, <2>2 DEF Convert, Goto, world
<1>10. ASSUME NEW r \in Runners, Compare(r) PROVE Good
  <2>0. /\ pc[r] = "compare" /\ Busy(r) /\ verdict[r] = "none" /\ kind[r] = "boot"
        /\ watched[r] = r /\ log[r] = "login" /\ OwnShot(r, png["boot"])
    BY <1>10, <1>0, <1>e DEF Compare, Busy, TypeOK, Evidence, Watching
  <2>1. CASE Fractional
    BY <1>10, <2>0, <2>1, <1>f DEF Compare
  <2>2. ASSUME ~Fractional PROVE Good
    <3>1. /\ judged' = [judged EXCEPT ![r]["boot"] = png["boot"]]
          /\ UNCHANGED <<log, gold, kind, watched>>
      BY <1>10, <2>0, <2>2 DEF Compare, Judge, files, End, world
    <3>2. CASE End(r, "FAIL")
      <4>1. pc' = [pc EXCEPT ![r] = "over"] /\ verdict' = [verdict EXCEPT ![r] = "FAIL"]
        BY <3>2 DEF End, Goto
      <4>2. Elsewhere(r) /\ Evidence(r)'
        BY <1>0, <1>e, <2>0, <3>1, <4>1 DEF Elsewhere, Evidence, Watching, Busy, TypeOK
      <4> QED
        BY <1>b, <1>o, <2>0, <4>2
    <3>m. ASSUME Matches(r) PROVE judged'[r]["boot"] = [of |-> r, picture |-> "login"]
      <4>1. png["boot"] \in ShotType /\ png["boot"].of = r /\ png["boot"].picture = "login"
        BY <1>0, <1>g, <2>0, <3>m DEF TypeOK, Matches, OwnShot, Kinds
      <4>2. png["boot"] = [of |-> r, picture |-> "login"]
        BY <4>1 DEF ShotType
      <4> QED
        BY <1>0, <3>1, <4>2 DEF TypeOK, Kinds
    <3>3. CASE Matches(r) /\ ~InputVerify /\ End(r, "PASS")
      <4>1. pc' = [pc EXCEPT ![r] = "over"] /\ verdict' = [verdict EXCEPT ![r] = "PASS"]
        BY <3>3 DEF End, Goto
      <4>2. Elsewhere(r) /\ Evidence(r)'
        BY <1>0, <1>e, <2>0, <3>1, <3>3, <3>m, <4>1
           DEF Elsewhere, Evidence, Watching, Busy, TypeOK
      <4> QED
        BY <1>b, <1>o, <2>0, <4>2
    <3>4. CASE Matches(r) /\ Goto(r, "drive") /\ verdict' = verdict
      <4>1. Elsewhere(r) /\ Evidence(r)'
        BY <1>0, <1>e, <2>0, <3>1, <3>4, <3>m
           DEF Goto, Elsewhere, Evidence, Watching, Busy, TypeOK
      <4> QED
        BY <1>b, <1>o, <2>0, <4>1
    <3> QED
      BY <1>10, <2>2, <3>2, <3>3, <3>4 DEF Compare
  <2> QED
    BY <2>1, <2>2
<1>11. ASSUME NEW r \in Runners, Drive(r) PROVE Good
  <2>0. pc[r] = "drive" /\ Busy(r) /\ verdict[r] = "none"
    BY <1>11, <1>0 DEF Drive, Busy, TypeOK
  <2>1. CASE ~Up(sock)
    BY <1>11, <2>0, <2>1, <1>f DEF Drive
  <2>2. CASE Up(sock)
    <3>1. /\ pc' = [pc EXCEPT ![r] = "dump"] /\ kind' = [kind EXCEPT ![r] = "input"]
          /\ UNCHANGED <<log, gold, verdict, judged, watched>>
      BY <1>11, <2>2 DEF Drive, Goto, files
    <3>2. Elsewhere(r) /\ Evidence(r)'
      BY <1>0, <1>e, <2>0, <3>1 DEF Elsewhere, Evidence, Watching, Busy, TypeOK
    <3> QED
      BY <1>b, <1>o, <2>0, <3>2
  <2> QED
    BY <2>1, <2>2
<1>12. ASSUME NEW r \in Runners, CompareInput(r) PROVE Good
  <2>0. /\ pc[r] = "compare" /\ Busy(r) /\ verdict[r] = "none" /\ kind[r] = "input"
        /\ watched[r] = r /\ log[r] = "login" /\ OwnShot(r, png["input"])
        /\ judged[r]["boot"] = [of |-> r, picture |-> "login"]
    BY <1>12, <1>0, <1>e DEF CompareInput, Busy, TypeOK, Evidence, Watching
  <2>1. /\ judged' = [judged EXCEPT ![r]["input"] = png["input"]]
        /\ pc' = [pc EXCEPT ![r] = "over"] /\ UNCHANGED <<log, kind, watched>>
    BY <1>12, <2>0 DEF CompareInput, Judge, End, Goto
  <2>2. judged'[r]["boot"] = judged[r]["boot"] /\ judged'[r]["input"] = png["input"]
    BY <1>0, <2>1 DEF TypeOK, Kinds
  <2>3. CASE gold["input"] = "none"
    <3>1. /\ gold' = [gold EXCEPT !["input"] = png["input"].picture]
          /\ verdict' = [verdict EXCEPT ![r] = "PASS"]
      BY <1>12, <2>3 DEF CompareInput, End
    <3>2. gold'["input"] = png["input"].picture /\ gold'["boot"] = gold["boot"]
      BY <1>0, <3>1 DEF TypeOK, Kinds
    <3>3. Elsewhere(r) /\ Evidence(r)'
      BY <1>0, <1>e, <2>0, <2>1, <2>2, <2>3, <3>1, <3>2
         DEF Elsewhere, Evidence, Watching, Busy, TypeOK, OwnShot
    <3> QED
      BY <1>b, <1>o, <2>0, <3>3
  <2>4. CASE gold["input"] # "none"
    <3>1. /\ gold' = gold
          /\ verdict' = [verdict EXCEPT ![r] = IF Matches(r) THEN "PASS" ELSE "FAIL"]
      BY <1>12, <2>4 DEF CompareInput, End
    <3>2. Elsewhere(r) /\ Evidence(r)'
      BY <1>0, <1>e, <2>0, <2>1, <2>2, <2>4, <3>1
         DEF Elsewhere, Evidence, Watching, Busy, TypeOK, OwnShot, Matches
    <3> QED
      BY <1>b, <1>o, <2>0, <3>2
  <2> QED
    BY <2>3, <2>4
<1>13. ASSUME NEW q \in Runners, Container(q) PROVE Good
  <2>1. UNCHANGED <<pc, kind, verdict, judged, watched, ppm, png, gold>>
    BY <1>13 DEF Container, QemuStarts, GuestBoots, QemuDies, run, files
  <2>2. \A r \in Runners : log[r] = "login" => log'[r] = "login"
    <3>1. CASE QemuDies(q)
      BY <3>1 DEF QemuDies
    <3>2. CASE QemuStarts(q) \/ GuestBoots(q)
      <4>1. log[q] # "login"
        BY <1>0, <3>2 DEF LogTells, QemuStarts, GuestBoots
      <4> QED
        BY <1>0, <3>2, <4>1 DEF QemuStarts, GuestBoots, TypeOK
    <3> QED
      BY <1>13, <3>1, <3>2 DEF Container
  <2> QED
    BY <1>e, <1>g, <2>1, <2>2 DEF Evidence, Busy
<1>14. ASSUME UNCHANGED vars PROVE Good
  BY <1>14, <1>e, <1>g DEF vars, run, world, files, Evidence, Busy
<1>15. Good
  BY <1>1, <1>2, <1>3, <1>4, <1>5, <1>6, <1>7, <1>8, <1>9, <1>10, <1>11, <1>12, <1>13, <1>14
     DEF Next, RunPhase
<1> QED
  BY <1>0, <1>15 DEF PassInv

(* A PASS rests on the marker in the invocation's own log and on matching  *)
(* pictures of its own guest.                                              *)
THEOREM PassEarned ==
  ASSUME Alone = TRUE, SameSecond = FALSE, Surface = TRUE
  PROVE  Spec => []PassNeedsBoth
<1>1. PassInv => PassNeedsBoth
  BY DEF PassInv, Evidence, PassNeedsBoth
<1> QED
  BY InitPass, NextPass, <1>1, PTL DEF Spec
=============================================================================
