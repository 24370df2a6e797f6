-------------------------- MODULE GuestGraphicsProofs --------------------------
(***************************************************************************)
(* The handles of the plug-in, for any number of instances, contexts and   *)
(* blit surfaces of a process; the references to framebuffers, for any     *)
(* number of them, with drivers, accelerator and helper; the regions the   *)
(* processor clips and copies, of any size; and the references to kernel   *)
(* objects, for any number of contexts, devices and objects.              *)
(***************************************************************************)
EXTENDS GuestGraphics, FiniteSetTheorems, FunctionTheorems, NaturalsInduction,
        WellFoundedInduction, TLAPS

-----------------------------------------------------------------------------
(* Counting.                                                               *)

(* Where an operator tells the members of a finite set apart, its values   *)
(* are as many as they.                                                    *)
LEMMA SameNumber ==
  ASSUME NEW S, IsFiniteSet(S), NEW f, \A x, y \in S : f[x] = f[y] => x = y
  PROVE  /\ IsFiniteSet({f[x] : x \in S})
         /\ Cardinality({f[x] : x \in S}) = Cardinality(S)
<1> DEFINE T == {f[x] : x \in S}
           g == [x \in S |-> f[x]]
<1>1. g \in Bijection(S, T)
  <2>1. g \in [S -> T]
    OBVIOUS
  <2>2. \A x, y \in S : g[x] = g[y] => x = y
    OBVIOUS
  <2>3. \A t \in T : \E x \in S : g[x] = t
    OBVIOUS
  <2> QED
    BY <2>1, <2>2, <2>3 DEF Bijection, Injection, Surjection, IsInjective
<1>2. ExistsBijection(S, T)
  BY <1>1 DEF ExistsBijection
<1> QED
  BY <1>2, FS_Bijection, Zenon

-----------------------------------------------------------------------------
(* The plug-in.                                                            *)

Started == {i \in Instances : ga[i].phase = "started"}

InstanceType ==
  [phase : {"none", "created", "started", "stopped", "failed"}, refs : Int,
   context : Ports \cup {None}, accelerator : BOOLEAN, surface : BlitSurfaces \cup {None}]
ContextType ==
  [open : BOOLEAN, cgs : BOOLEAN, surf : CGSSurfaces \cup {None}, set : {"ok", "failed"}]

TypeGA ==
  /\ ga \in [Instances -> InstanceType]
  /\ kctx \in [Ports -> ContextType]
  /\ info \in [Infos -> [id : CGSSurfaces \cup {None}, by : Instances \cup {None}]]
  /\ iref \in [BlitSurfaces -> Infos \cup {None}]

(* A started instance has an open context, which no other has.             *)
Connected ==
  \A i \in Started : /\ ga[i].accelerator = TRUE /\ ga[i].context \in Ports
                     /\ kctx[ga[i].context].open = TRUE

OwnContext == \A i, j \in Started : ga[i].context = ga[j].context => i = j

OpenIsHeld == \A p \in Ports : kctx[p].open = TRUE => \E i \in Started : ga[i].context = p

AccCounted == accRefs = Cardinality(Started)

(* A SurfaceInfo lives while a blit surface, and one only, points to it.   *)
InfoLives == \A b \in BlitSurfaces : iref[b] # None => info[iref[b]] # Free

OwnInfo == \A b, d \in BlitSurfaces : iref[b] # None /\ iref[b] = iref[d] => b = d

LivingIsNamed == \A n \in Infos : info[n] # Free => \E b \in BlitSurfaces : iref[b] = n

TargetLives ==
  \A i \in Started :
    LET k == kctx[ga[i].context]  b == ga[i].surface
    IN  k.set = "ok" /\ k.surf # None =>
          b \in BlitSurfaces /\ iref[b] # None /\ info[iref[b]].by = i /\ info[iref[b]].id = k.surf

ContextInv == TypeGA /\ Connected /\ OwnContext /\ OpenIsHeld /\ AccCounted
HandleInv == ContextInv /\ InfoLives /\ OwnInfo /\ LivingIsNamed /\ TargetLives

LEMMA InitHandles == InitGA => HandleInv
<1> SUFFICES ASSUME InitGA PROVE HandleInv
  OBVIOUS
<1> USE HandleAssumption DEF InitGA
<1>1. TypeGA
  <2>1. NoInstance \in InstanceType /\ ClosedContext \in ContextType
    BY DEF NoInstance, InstanceType, ClosedContext, ContextType
  <2> QED
    BY <2>1 DEF TypeGA, Free
<1>2. Started = {}
  BY DEF Started, NoInstance
<1>3. AccCounted
  BY <1>2, FS_EmptySet DEF AccCounted
<1>4. OpenIsHeld
  BY DEF OpenIsHeld, ClosedContext
<1> QED
  BY <1>1, <1>2, <1>3, <1>4 DEF HandleInv, ContextInv, Connected, OwnContext, InfoLives, OwnInfo,
     LivingIsNamed, TargetLives

LEMMA HandlesKept == HandleInv => PlugInHandles
<1> SUFFICES ASSUME HandleInv PROVE PlugInHandles
  OBVIOUS
<1> USE HandleAssumption DEF HandleInv, ContextInv
<1> DEFINE open == {p \in Ports : kctx[p].open}
           context == [i \in Started |-> ga[i].context]
           named == {b \in BlitSurfaces : iref[b] # None}
           living == {n \in Infos : info[n] # Free}
<1>1. IsFiniteSet(Started) /\ IsFiniteSet(named)
  BY FS_Subset DEF Started
<1>2. open = {context[i] : i \in Started}
  BY DEF Connected, OpenIsHeld, TypeGA, ContextType
<1>3. Cardinality(open) = Cardinality(Started)
  <2>1. \A i, j \in Started : context[i] = context[j] => i = j
    BY DEF OwnContext
  <2> HIDE DEF context
  <2>2. Cardinality({context[i] : i \in Started}) = Cardinality(Started)
    BY <1>1, <2>1, SameNumber
  <2> QED
    BY <1>2, <2>2
<1>4. living = {iref[b] : b \in named}
  BY DEF InfoLives, LivingIsNamed, TypeGA
<1>5. Cardinality(living) = Cardinality(named)
  <2>1. \A b, d \in named : iref[b] = iref[d] => b = d
    BY DEF OwnInfo
  <2>2. Cardinality({iref[b] : b \in named}) = Cardinality(named)
    BY <1>1, <2>1, SameNumber
  <2> QED
    BY <1>4, <2>2
<1>6. \A i \in Started :
        LET k == kctx[ga[i].context]  b == ga[i].surface
        IN  k.set = "ok" /\ k.surf # None => b \in Mine(i) /\ info[iref[b]].id = k.surf
  BY DEF TargetLives, Mine
<1> QED
  BY <1>2, <1>3, <1>4, <1>5, <1>6 DEF PlugInHandles, Started, AccCounted

LEMMA Closed == ClosedContext \in ContextType /\ [ClosedContext EXCEPT !.open = TRUE] \in ContextType
BY DEF ClosedContext, ContextType

(* Steps that start no instance and stop none.                             *)
LEMMA QuietSteps ==
  ASSUME HandleInv, NEW i \in Instances,
         \/ VMsvga2GAFactory(i) \/ vmAddRef(i) \/ vmRelease(i) \/ StartFails(i)
         \/ \E p \in Ports : StartFailsLate(i, p)
  PROVE  HandleInv'
<1> DEFINE x == ga[i]
<1>1. ga \in [Instances -> InstanceType] /\ x \in InstanceType
  BY DEF HandleInv, ContextInv, TypeGA
<1>2. \E y \in InstanceType :
        /\ ga' = [ga EXCEPT ![i] = y]
        /\ y.phase = "started" <=> x.phase = "started"
        /\ x.phase = "started" => /\ y.context = x.context /\ y.accelerator = x.accelerator
                                  /\ y.surface = x.surface
  <2> DEFINE Found(y) ==
        /\ y \in InstanceType /\ ga' = [ga EXCEPT ![i] = y]
        /\ y.phase = "started" <=> x.phase = "started"
        /\ x.phase = "started" => /\ y.context = x.context /\ y.accelerator = x.accelerator
                                  /\ y.surface = x.surface
  <2>1. ASSUME VMsvga2GAFactory(i) PROVE Found([x EXCEPT !.phase = "created", !.refs = 1])
    <3> DEFINE y == [x EXCEPT !.phase = "created", !.refs = 1]
    <3>1. ga' = [ga EXCEPT ![i] = y] /\ x.phase # "started"
      BY <2>1 DEF VMsvga2GAFactory
    <3>2. [x EXCEPT !.phase = "created"] \in InstanceType
      BY <1>1 DEF InstanceType
    <3>3. y = [[x EXCEPT !.phase = "created"] EXCEPT !.refs = 1]
      BY <1>1 DEF InstanceType
    <3>4. \A z \in InstanceType : [z EXCEPT !.refs = 1] \in InstanceType
      BY DEF InstanceType
    <3>5. y.phase = "created"
      BY <1>1 DEF InstanceType
    <3> HIDE DEF y
    <3> QED
      BY <3>1, <3>2, <3>3, <3>4, <3>5
  <2>2. ASSUME vmAddRef(i) PROVE Found([x EXCEPT !.refs = @ + 1])
    BY <1>1, <2>2 DEF vmAddRef, InstanceType
  <2>3. ASSUME vmRelease(i), x.refs = 1 PROVE Found(NoInstance)
    <3>1. ga' = [ga EXCEPT ![i] = NoInstance] /\ x.phase # "started"
      BY <2>3 DEF vmRelease, _deallocGAType
    <3>2. NoInstance \in InstanceType /\ NoInstance.phase = "none"
      BY DEF NoInstance, InstanceType
    <3> QED
      BY <3>1, <3>2
  <2>4. ASSUME vmRelease(i), x.refs # 1 PROVE Found([x EXCEPT !.refs = @ - 1])
    BY <1>1, <2>4 DEF vmRelease, InstanceType
  <2>5. ASSUME StartFails(i) PROVE Found([x EXCEPT !.phase = "failed"])
    BY <1>1, <2>5 DEF StartFails, InstanceType
  <2>6. ASSUME NEW p \in Ports, StartFailsLate(i, p)
        PROVE  Found([x EXCEPT !.phase = "failed", !.context = p, !.accelerator = TRUE])
    <3> DEFINE y == [x EXCEPT !.phase = "failed", !.context = p, !.accelerator = TRUE]
    <3>1. ga' = [ga EXCEPT ![i] = y] /\ x.phase # "started"
      BY <2>6 DEF StartFailsLate
    <3>2. y \in InstanceType /\ y.phase = "failed"
      BY <1>1 DEF InstanceType
    <3> QED
      BY <3>1, <3>2
  <2> HIDE DEF x, Found
  <2>7. \E y : Found(y)
    BY <2>1, <2>2, <2>3, <2>4, <2>5, <2>6
  <2> QED
    BY <2>7 DEF Found
<1>3. /\ ga' \in [Instances -> InstanceType] /\ Started' = Started
      /\ \A j \in Started : /\ ga'[j].context = ga[j].context
                            /\ ga'[j].accelerator = ga[j].accelerator
                            /\ ga'[j].surface = ga[j].surface
  BY <1>1, <1>2 DEF Started
<1>4. kctx' = kctx /\ accRefs' = accRefs /\ info' = info /\ iref' = iref
  BY DEF VMsvga2GAFactory, vmAddRef, vmRelease, StartFails, StartFailsLate
<1> HIDE DEF x
<1> USE DEF HandleInv, ContextInv
<1>5. TypeGA'
  BY <1>3, <1>4 DEF TypeGA
<1>6. Connected' /\ OwnContext' /\ OpenIsHeld' /\ AccCounted'
  BY <1>3, <1>4 DEF Connected, OwnContext, OpenIsHeld, AccCounted
<1>7. InfoLives' /\ OwnInfo' /\ LivingIsNamed' /\ TargetLives'
  BY <1>3, <1>4 DEF InfoLives, OwnInfo, LivingIsNamed, TargetLives
<1> QED
  BY <1>5, <1>6, <1>7

LEMMA StartSteps ==
  ASSUME HandleInv, NEW i \in Instances, NEW p \in Ports, vmStart(i, p)
  PROVE  HandleInv'
<1> USE DEF HandleInv, ContextInv
<1> DEFINE y == [ga[i] EXCEPT !.phase = "started", !.context = p, !.accelerator = TRUE]
<1>1. /\ ga' = [ga EXCEPT ![i] = y] /\ kctx' = [kctx EXCEPT ![p] = [ClosedContext EXCEPT !.open = TRUE]]
      /\ accRefs' = accRefs + 1 /\ info' = info /\ iref' = iref
      /\ i \notin Started /\ kctx[p].open # TRUE
  BY DEF vmStart, Started
<1>2. /\ y \in InstanceType /\ y.phase = "started" /\ y.context = p /\ y.accelerator = TRUE
      /\ ga \in [Instances -> InstanceType] /\ kctx \in [Ports -> ContextType]
  BY DEF TypeGA, InstanceType
<1> HIDE DEF y
<1>3. TypeGA'
  BY <1>1, <1>2, Closed DEF TypeGA
<1>4. /\ Started' = Started \cup {i} /\ ga'[i] = y /\ \A j \in Started : ga'[j] = ga[j]
      /\ kctx'[p] = [ClosedContext EXCEPT !.open = TRUE]
      /\ \A q \in Ports : q # p => kctx'[q] = kctx[q]
  BY <1>1, <1>2 DEF Started
<1>5. \A j \in Started : ga[j].context # p
  BY <1>1 DEF Connected
<1>6. Connected' /\ OwnContext' /\ OpenIsHeld'
  BY <1>2, <1>4, <1>5 DEF Connected, OwnContext, OpenIsHeld, ClosedContext
<1>7. AccCounted'
  <2>1. IsFiniteSet(Started)
    BY HandleAssumption, FS_Subset DEF Started
  <2>2. Cardinality(Started \cup {i}) = Cardinality(Started) + 1
    BY <1>1, <2>1, FS_AddElement
  <2> QED
    BY <1>1, <1>4, <2>2 DEF AccCounted
<1>8. InfoLives' /\ OwnInfo' /\ LivingIsNamed'
  BY <1>1 DEF InfoLives, OwnInfo, LivingIsNamed
<1>9. TargetLives'
  <2>1. kctx'[p].surf = None
    BY <1>4 DEF ClosedContext
  <2> QED
    BY <1>1, <1>2, <1>4, <1>5, <2>1 DEF TargetLives, Connected
<1> QED
  BY <1>3, <1>6, <1>7, <1>8, <1>9

LEMMA StopSteps ==
  ASSUME HandleInv, NEW i \in Instances, vmStop(i)
  PROVE  HandleInv'
<1> USE DEF HandleInv, ContextInv
<1> DEFINE p == ga[i].context
           y == [ga[i] EXCEPT !.phase = "stopped", !.context = None, !.accelerator = FALSE]
<1>1. i \in Started /\ p \in Ports /\ ga[i].accelerator = TRUE
  BY DEF vmStop, Started, Connected
<1>2. /\ kctx' = [kctx EXCEPT ![p] = ClosedContext] /\ accRefs' = accRefs - 1
      /\ ga' = [ga EXCEPT ![i] = y] /\ info' = info /\ iref' = iref
  BY <1>1, HandleAssumption DEF vmStop
<1>3. /\ y \in InstanceType /\ y.phase = "stopped"
      /\ ga \in [Instances -> InstanceType] /\ kctx \in [Ports -> ContextType]
  BY DEF TypeGA, InstanceType
<1> HIDE DEF y
<1>4. TypeGA'
  BY <1>2, <1>3, Closed DEF TypeGA
<1>5. /\ Started' = Started \ {i} /\ \A j \in Started \ {i} : ga'[j] = ga[j]
      /\ kctx'[p] = ClosedContext /\ \A q \in Ports : q # p => kctx'[q] = kctx[q]
  BY <1>1, <1>2, <1>3 DEF Started
<1>6. \A j \in Started \ {i} : ga[j].context # p
  BY <1>1 DEF OwnContext
<1> HIDE DEF p
<1>7. Connected' /\ OwnContext'
  BY <1>5, <1>6 DEF Connected, OwnContext
<1>8. OpenIsHeld'
  <2>1. ASSUME NEW q \in Ports, kctx'[q].open = TRUE PROVE \E j \in Started' : ga'[j].context = q
    <3>1. q # p
      BY <1>5, <2>1 DEF ClosedContext
    <3>2. PICK j \in Started : ga[j].context = q
      BY <1>5, <2>1, <3>1 DEF OpenIsHeld
    <3> QED
      BY <1>5, <3>1, <3>2 DEF p
  <2> QED
    BY <2>1 DEF OpenIsHeld
<1>9. AccCounted'
  <2>1. IsFiniteSet(Started)
    BY HandleAssumption, FS_Subset DEF Started
  <2>2. Cardinality(Started \ {i}) = Cardinality(Started) - 1
    BY <1>1, <2>1, FS_RemoveElement
  <2> QED
    BY <1>2, <1>5, <2>2 DEF AccCounted
<1>10. InfoLives' /\ OwnInfo' /\ LivingIsNamed'
  BY <1>2 DEF InfoLives, OwnInfo, LivingIsNamed
<1>11. TargetLives'
  BY <1>2, <1>5, <1>6 DEF TargetLives, Connected
<1> QED
  BY <1>4, <1>7, <1>8, <1>9, <1>10, <1>11

(* A request to the context changes its target, and the destination.       *)
LEMMA Requested ==
  ASSUME ContextInv, NEW i \in Instances, Ready(i), NEW b \in BlitSurfaces \cup {None},
         NEW id \in CGSSurfaces \cup {None}, NEW r \in vmSetSurface(i, b, id)
  PROVE  /\ i \in Started /\ ga[i].context \in Ports
         /\ r.k \in [open : {TRUE}, cgs : BOOLEAN, surf : CGSSurfaces \cup {None},
                     set : {"ok", "failed"}]
         /\ r.surface \in BlitSurfaces \cup {None}
         /\ r.k.set = "ok" /\ r.k.surf # None => id # None /\ r.k.surf = id /\ r.surface = b
         /\ (r.ok <=> r.k.set = "ok")
<1> USE DEF ContextInv
<1>1. i \in Started /\ ga[i].context \in Ports /\ kctx[ga[i].context].open = TRUE
  BY DEF Ready, Started, Connected
<1>2. PICK k \in SetSurfaceOutcomes(kctx[ga[i].context], id) :
        r = [k |-> k, ok |-> k.set = "ok",
             surface |-> IF k.set # "ok" THEN ga[i].surface
                         ELSE IF id # None THEN b ELSE None]
  BY DEF vmSetSurface
<1>3. /\ k \in [open : {TRUE}, cgs : BOOLEAN, surf : CGSSurfaces \cup {None}, set : {"ok", "failed"}]
      /\ k.set = "ok" /\ k.surf # None => id # None /\ k.surf = id
  <2>1. kctx[ga[i].context] \in [open : {TRUE}, cgs : BOOLEAN, surf : CGSSurfaces \cup {None},
                                 set : {"ok", "failed"}]
    BY <1>1 DEF TypeGA, ContextType
  <2> QED
    BY <1>2, <2>1, ZenonT(60) DEF SetSurfaceOutcomes
<1>4. r.k = k /\ r.ok = (k.set = "ok") /\ r.surface = IF k.set # "ok" THEN ga[i].surface
                         ELSE IF id # None THEN b ELSE None
  BY <1>2
<1>5. ga[i].surface \in BlitSurfaces \cup {None}
  BY DEF TypeGA, InstanceType
<1> QED
  BY <1>1, <1>3, <1>4, <1>5

(* What a request leaves: the connections, and a target that lives when it *)
(* was none or when it is the destination that was asked for.              *)
LEMMA Targeted ==
  ASSUME HandleInv, NEW i \in Started, ga[i].context \in Ports,
         NEW k \in ContextType, k.open = TRUE, NEW s \in BlitSurfaces \cup {None},
         ga' = [ga EXCEPT ![i].surface = s], kctx' = [kctx EXCEPT ![ga[i].context] = k],
         accRefs' = accRefs
  PROVE  /\ ga' \in [Instances -> InstanceType] /\ kctx' \in [Ports -> ContextType]
         /\ Connected' /\ OwnContext' /\ OpenIsHeld' /\ AccCounted'
         /\ Started' = Started /\ \A j \in Started : ga'[j].context = ga[j].context
         /\ kctx'[ga[i].context] = k /\ ga'[i].surface = s
         /\ \A j \in Started : j # i => /\ ga'[j].surface = ga[j].surface
                                        /\ kctx'[ga[j].context] = kctx[ga[j].context]
<1> USE DEF HandleInv, ContextInv
<1> DEFINE y == [ga[i] EXCEPT !.surface = s]
           p == ga[i].context
<1>1. ga' = [ga EXCEPT ![i] = y] /\ i \in Instances
  BY DEF Started
<1>2. /\ y \in InstanceType /\ y.phase = "started" /\ y.context = p /\ y.surface = s
      /\ y.accelerator = ga[i].accelerator
      /\ ga \in [Instances -> InstanceType] /\ kctx \in [Ports -> ContextType]
  BY DEF TypeGA, InstanceType, Started
<1> HIDE DEF y
<1>3. ga' \in [Instances -> InstanceType] /\ kctx' \in [Ports -> ContextType]
  BY <1>1, <1>2
<1>4. /\ Started' = Started /\ ga'[i] = y /\ \A j \in Instances \ {i} : ga'[j] = ga[j]
      /\ kctx'[p] = k /\ \A q \in Ports : q # p => kctx'[q] = kctx[q]
  BY <1>1, <1>2 DEF Started
<1>5. \A j \in Started : j # i => ga[j].context # p /\ ga[j].context \in Ports
  BY DEF OwnContext, Connected
<1>6. Started \subseteq Instances
  BY DEF Started
<1>7. \A j \in Started : ga'[j].context = ga[j].context /\ ga'[j].accelerator = ga[j].accelerator
  BY <1>2, <1>4, <1>6
<1> HIDE DEF p
<1>8. \A j \in Started : j # i => /\ ga'[j].surface = ga[j].surface
                                  /\ kctx'[ga[j].context] = kctx[ga[j].context]
  BY <1>4, <1>5, <1>6
<1>9. Connected'
  BY <1>4, <1>5, <1>6, <1>7 DEF Connected, p
<1>10. OwnContext' /\ AccCounted'
  BY <1>4, <1>7 DEF OwnContext, AccCounted
<1>11. OpenIsHeld'
  <2>1. ASSUME NEW q \in Ports, kctx'[q].open = TRUE PROVE \E j \in Started' : ga'[j].context = q
    <3>1. q = p \/ kctx[q].open = TRUE
      BY <1>4, <2>1
    <3>2. \E j \in Started : ga[j].context = q
      BY <3>1 DEF OpenIsHeld, p
    <3> QED
      BY <1>4, <1>7, <3>2
  <2> QED
    BY <2>1 DEF OpenIsHeld
<1>12. kctx'[ga[i].context] = k /\ ga'[i].surface = s
  BY <1>2, <1>4 DEF p
<1> QED
  BY <1>3, <1>4, <1>7, <1>8, <1>9, <1>10, <1>11, <1>12

LEMMA FreeIsFree ==
  ASSUME TypeGA, NEW n \in Infos
  PROVE  /\ info[n] = Free <=> (info[n].by = None /\ info[n].id = None)
         /\ \A id \in CGSSurfaces, i \in Instances : [id |-> id, by |-> i] # Free
BY HandleAssumption DEF TypeGA, Free

LEMMA AllocateSteps ==
  ASSUME HandleInv, NEW i \in Instances, NEW b \in BlitSurfaces, NEW n \in Infos,
         NEW id \in CGSSurfaces, vmAllocateSurface(i, b, n, id)
  PROVE  HandleInv'
<1> USE DEF HandleInv, ContextInv
<1>1. Ready(i) /\ iref[b] = None /\ info[n] = Free /\ accRefs' = accRefs /\ n # None /\ id # None /\ b # None
  BY HandleAssumption DEF vmAllocateSurface
<1>2. PICK r \in vmSetSurface(i, b, id) :
        \/ /\ r.ok
           /\ Apply(i, r)
           /\ info' = [info EXCEPT ![n] = [id |-> id, by |-> i]]
           /\ iref' = [iref EXCEPT ![b] = n]
        \/ /\ Apply(i, [r EXCEPT !.k.set = "failed"])
           /\ UNCHANGED <<info, iref>>
  BY DEF vmAllocateSurface
<1>3. /\ i \in Started /\ ga[i].context \in Ports /\ r.surface \in BlitSurfaces \cup {None}
      /\ r.k \in ContextType /\ r.k.open = TRUE /\ (r.ok <=> r.k.set = "ok")
      /\ r.k.set = "ok" /\ r.k.surf # None => r.k.surf = id /\ r.surface = b
  <2>1. /\ i \in Started /\ ga[i].context \in Ports
        /\ r.k \in [open : {TRUE}, cgs : BOOLEAN, surf : CGSSurfaces \cup {None},
                    set : {"ok", "failed"}]
        /\ r.surface \in BlitSurfaces \cup {None}
        /\ r.k.set = "ok" /\ r.k.surf # None => id # None /\ r.k.surf = id /\ r.surface = b
        /\ (r.ok <=> r.k.set = "ok")
    <3>1. ContextInv /\ b \in BlitSurfaces \cup {None} /\ id \in CGSSurfaces \cup {None}
      OBVIOUS
    <3> HIDE DEF HandleInv, ContextInv
    <3> QED
      BY <1>1, <1>2, <3>1, Requested, Zenon
  <2>2. r.k \in ContextType /\ r.k.open = TRUE
    BY <2>1 DEF ContextType
  <2> QED
    BY <2>1, <2>2
<1>4. ASSUME r.ok, Apply(i, r), info' = [info EXCEPT ![n] = [id |-> id, by |-> i]],
             iref' = [iref EXCEPT ![b] = n]
      PROVE  HandleInv'
  <2> DEFINE live == [id |-> id, by |-> i]
  <2>0. live.id = id /\ live.by = i /\ live # Free
        /\ live \in [id : CGSSurfaces \cup {None}, by : Instances \cup {None}]
    BY FreeIsFree
  <2>1. ga' = [ga EXCEPT ![i].surface = r.surface] /\ kctx' = [kctx EXCEPT ![ga[i].context] = r.k]
    BY <1>4 DEF Apply
  <2> HIDE DEF live
  <2>2. info' = [info EXCEPT ![n] = live]
    BY <1>4 DEF live
  <2>a. /\ ga' \in [Instances -> InstanceType] /\ kctx' \in [Ports -> ContextType]
        /\ Connected' /\ OwnContext' /\ OpenIsHeld' /\ AccCounted'
        /\ Started' = Started /\ \A j \in Started : ga'[j].context = ga[j].context
        /\ kctx'[ga[i].context] = r.k /\ ga'[i].surface = r.surface
        /\ \A j \in Started : j # i => /\ ga'[j].surface = ga[j].surface
                                       /\ kctx'[ga[j].context] = kctx[ga[j].context]
    <3> DEFINE k == r.k
               s == r.surface
    <3>1. /\ i \in Started /\ ga[i].context \in Ports /\ s \in BlitSurfaces \cup {None}
          /\ k \in ContextType /\ k.open = TRUE
      BY <1>3
    <3>2. ga' = [ga EXCEPT ![i].surface = s] /\ kctx' = [kctx EXCEPT ![ga[i].context] = k]
      BY <2>1
    <3> HIDE DEF HandleInv, k, s
    <3>3. /\ ga' \in [Instances -> InstanceType] /\ kctx' \in [Ports -> ContextType]
          /\ Connected' /\ OwnContext' /\ OpenIsHeld' /\ AccCounted'
          /\ Started' = Started /\ \A j \in Started : ga'[j].context = ga[j].context
          /\ kctx'[ga[i].context] = k /\ ga'[i].surface = s
          /\ \A j \in Started : j # i => /\ ga'[j].surface = ga[j].surface
                                         /\ kctx'[ga[j].context] = kctx[ga[j].context]
      BY <1>1, <3>1, <3>2, Targeted, Zenon
    <3> QED
      BY <3>3 DEF k, s
  <2>3. TypeGA'
    BY <2>0, <2>2, <1>4, <2>a DEF TypeGA
  <2>4. /\ info'[n] = live /\ \A m \in Infos : m # n => info'[m] = info[m]
        /\ iref'[b] = n /\ \A d \in BlitSurfaces : d # b => iref'[d] = iref[d]
    BY <1>4, <2>2 DEF TypeGA
  <2>5. \A d \in BlitSurfaces : iref[d] # n /\ (iref[d] # None => iref[d] \in Infos)
    BY <1>1 DEF InfoLives, TypeGA
  <2>6. InfoLives' /\ OwnInfo'
    BY <2>0, <2>4, <2>5 DEF InfoLives, OwnInfo
  <2>7. LivingIsNamed'
    <3>1. ASSUME NEW m \in Infos, info'[m] # Free PROVE \E d \in BlitSurfaces : iref'[d] = m
      <4>1. ASSUME m # n PROVE \E d \in BlitSurfaces : iref'[d] = m
        <5>1. PICK d \in BlitSurfaces : iref[d] = m
          BY <2>4, <3>1, <4>1 DEF LivingIsNamed
        <5>2. d # b
          BY <1>1, <5>1, HandleAssumption
        <5> QED
          BY <2>4, <5>1, <5>2
      <4> QED
        BY <2>4, <4>1
    <3> QED
      BY <3>1 DEF LivingIsNamed
  <2>8. TargetLives'
    <3>1. ASSUME NEW j \in Started, kctx'[ga[j].context].set = "ok", kctx'[ga[j].context].surf # None
          PROVE  /\ ga'[j].surface \in BlitSurfaces /\ iref'[ga'[j].surface] # None
                 /\ info'[iref'[ga'[j].surface]].by = j
                 /\ info'[iref'[ga'[j].surface]].id = kctx'[ga[j].context].surf
      <4>1. ASSUME j = i PROVE /\ ga'[j].surface = b /\ kctx'[ga[j].context].surf = id
        BY <1>3, <2>a, <3>1, <4>1
      <4>2. ASSUME j # i
            PROVE  /\ ga'[j].surface = ga[j].surface /\ ga[j].surface \in BlitSurfaces
                   /\ iref[ga[j].surface] # None /\ info[iref[ga[j].surface]].by = j
                   /\ info[iref[ga[j].surface]].id = kctx[ga[j].context].surf
                   /\ kctx'[ga[j].context] = kctx[ga[j].context]
        <5>1. ga'[j].surface = ga[j].surface /\ kctx'[ga[j].context] = kctx[ga[j].context]
          BY <2>a, <4>2
        <5> QED
          BY <5>1, <3>1 DEF TargetLives
      <4> QED
        BY <1>1, <2>0, <2>4, <2>5, <4>1, <4>2
    <3> QED
      BY <3>1, <2>a DEF TargetLives
  <2> QED
    BY <2>3, <2>6, <2>7, <2>8, <2>a
<1>5. ASSUME Apply(i, [r EXCEPT !.k.set = "failed"]), info' = info, iref' = iref
      PROVE  HandleInv'
  <2> DEFINE k == [r.k EXCEPT !.set = "failed"]
  <2>1. ga' = [ga EXCEPT ![i].surface = r.surface] /\ kctx' = [kctx EXCEPT ![ga[i].context] = k]
    BY <1>5 DEF Apply, vmSetSurface
  <2>2. k \in ContextType /\ k.open = TRUE /\ k.set = "failed"
    BY <1>3 DEF ContextType
  <2> HIDE DEF k
  <2>3. /\ ga' \in [Instances -> InstanceType] /\ kctx' \in [Ports -> ContextType]
        /\ Connected' /\ OwnContext' /\ OpenIsHeld' /\ AccCounted'
        /\ Started' = Started /\ \A j \in Started : ga'[j].context = ga[j].context
        /\ kctx'[ga[i].context] = k /\ ga'[i].surface = r.surface
        /\ \A j \in Started : j # i => /\ ga'[j].surface = ga[j].surface
                                       /\ kctx'[ga[j].context] = kctx[ga[j].context]
    <3> HIDE DEF HandleInv
    <3> QED
      BY <1>1, <1>3, <2>1, <2>2, Targeted, ZenonT(60)
  <2>4. TypeGA' /\ InfoLives' /\ OwnInfo' /\ LivingIsNamed'
    BY <1>5, <2>3 DEF TypeGA, InfoLives, OwnInfo, LivingIsNamed
  <2>6. TargetLives'
    BY <1>5, <2>2, <2>3 DEF TargetLives
  <2> QED
    BY <2>3, <2>4, <2>6
<1> QED
  BY <1>2, <1>4, <1>5

LEMMA Applied ==
  ASSUME HandleInv, NEW i \in Instances, Ready(i), NEW b \in BlitSurfaces \cup {None},
         NEW id \in CGSSurfaces \cup {None}, NEW r \in vmSetSurface(i, b, id),
         Apply(i, r), accRefs' = accRefs
  PROVE  /\ ga' \in [Instances -> InstanceType] /\ kctx' \in [Ports -> ContextType]
         /\ Connected' /\ OwnContext' /\ OpenIsHeld' /\ AccCounted'
         /\ i \in Started /\ Started' = Started
         /\ \A j \in Started : ga'[j].context = ga[j].context
         /\ LET k == kctx'[ga[i].context]
            IN  k.set = "ok" /\ k.surf # None => id # None /\ k.surf = id /\ ga'[i].surface = b
         /\ \A j \in Started : j # i => /\ ga'[j].surface = ga[j].surface
                                        /\ kctx'[ga[j].context] = kctx[ga[j].context]
<1> DEFINE k == r.k
           s == r.surface
<1>1. ContextInv
  BY DEF HandleInv
<1>2. /\ i \in Started /\ ga[i].context \in Ports
      /\ r.k \in [open : {TRUE}, cgs : BOOLEAN, surf : CGSSurfaces \cup {None},
                  set : {"ok", "failed"}]
      /\ r.surface \in BlitSurfaces \cup {None}
      /\ r.k.set = "ok" /\ r.k.surf # None => id # None /\ r.k.surf = id /\ r.surface = b
      /\ (r.ok <=> r.k.set = "ok")
  BY <1>1, Requested, Zenon
<1>3. k \in ContextType /\ k.open = TRUE /\ s \in BlitSurfaces \cup {None}
  BY <1>2 DEF ContextType
<1>4. ga' = [ga EXCEPT ![i].surface = s] /\ kctx' = [kctx EXCEPT ![ga[i].context] = k]
  BY DEF Apply
<1>5. k.set = "ok" /\ k.surf # None => id # None /\ k.surf = id /\ s = b
  BY <1>2
<1> HIDE DEF k, s
<1>6. /\ ga' \in [Instances -> InstanceType] /\ kctx' \in [Ports -> ContextType]
      /\ Connected' /\ OwnContext' /\ OpenIsHeld' /\ AccCounted'
      /\ Started' = Started /\ \A j \in Started : ga'[j].context = ga[j].context
      /\ kctx'[ga[i].context] = k /\ ga'[i].surface = s
      /\ \A j \in Started : j # i => /\ ga'[j].surface = ga[j].surface
                                     /\ kctx'[ga[j].context] = kctx[ga[j].context]
  <2>1. i \in Started /\ ga[i].context \in Ports
    BY <1>2
  <2> QED
    BY <2>1, <1>3, <1>4, Targeted, Zenon
<1> QED
  BY <1>2, <1>5, <1>6

LEMMA FreeSteps ==
  ASSUME HandleInv, NEW i \in Instances, NEW b \in BlitSurfaces, vmFreeSurface(i, b)
  PROVE  HandleInv'
<1>1. /\ Ready(i) /\ b \in Mine(i) /\ accRefs' = accRefs
      /\ info' = [info EXCEPT ![iref[b]] = Free] /\ iref' = [iref EXCEPT ![b] = None]
      /\ IF ga[i].surface = None THEN UNCHANGED <<ga, kctx>>
         ELSE \E r \in vmSetSurface(i, None, None) : Apply(i, r)
  BY DEF vmFreeSurface
<1>2. /\ ga' \in [Instances -> InstanceType] /\ kctx' \in [Ports -> ContextType]
      /\ Connected' /\ OwnContext' /\ OpenIsHeld' /\ AccCounted'
      /\ i \in Started /\ Started' = Started
      /\ \A j \in Started : ga'[j].context = ga[j].context
      /\ LET k == kctx'[ga[i].context] IN ~ (k.set = "ok" /\ k.surf # None)
      /\ \A j \in Started : j # i => /\ ga'[j].surface = ga[j].surface
                                     /\ kctx'[ga[j].context] = kctx[ga[j].context]
  <2>1. ASSUME ga[i].surface = None, ga' = ga, kctx' = kctx PROVE <1>2!:
    <3>1. i \in Started
      BY <1>1 DEF Ready, Started
    <3>2. LET k == kctx[ga[i].context] IN ~ (k.set = "ok" /\ k.surf # None)
      BY <2>1, <3>1, HandleAssumption DEF HandleInv, TargetLives
    <3>3. /\ ga' \in [Instances -> InstanceType] /\ kctx' \in [Ports -> ContextType] /\ Started' = Started
      BY <2>1 DEF HandleInv, ContextInv, TypeGA, Started
    <3>4. Connected' /\ OwnContext' /\ OpenIsHeld' /\ AccCounted'
      BY <1>1, <2>1, <3>3 DEF HandleInv, ContextInv, Connected, OwnContext, OpenIsHeld, AccCounted
    <3> QED
      BY <2>1, <3>1, <3>2, <3>3, <3>4
  <2>2. ASSUME NEW r \in vmSetSurface(i, None, None), Apply(i, r) PROVE <1>2!:
    <3>1. None \in BlitSurfaces \cup {None} /\ None \in CGSSurfaces \cup {None}
      OBVIOUS
    <3> QED
      BY <1>1, <2>2, <3>1, Applied
  <2> QED
    BY <1>1, <2>1, <2>2
<1> USE DEF HandleInv, ContextInv
<1>3. b \in BlitSurfaces /\ iref[b] \in Infos /\ info[iref[b]].by = i
  BY <1>1 DEF Mine, TypeGA
<1>4. /\ info'[iref[b]] = Free /\ \A m \in Infos : m # iref[b] => info'[m] = info[m]
      /\ iref'[b] = None /\ \A d \in BlitSurfaces : d # b => iref'[d] = iref[d]
  BY <1>1, <1>3 DEF TypeGA
<1>5. TypeGA'
  BY <1>1, <1>2 DEF TypeGA, Free
<1>6. \A d \in BlitSurfaces : d # b /\ iref[d] # None => iref[d] # iref[b] /\ iref[d] \in Infos
  BY <1>3 DEF OwnInfo, TypeGA
<1>7. InfoLives' /\ OwnInfo'
  BY <1>4, <1>6 DEF InfoLives, OwnInfo
<1>8. LivingIsNamed'
  <2>1. ASSUME NEW m \in Infos, info'[m] # Free PROVE \E d \in BlitSurfaces : iref'[d] = m
    <3>1. m # iref[b] /\ info[m] # Free
      BY <1>4, <2>1
    <3>2. PICK d \in BlitSurfaces : iref[d] = m
      BY <3>1 DEF LivingIsNamed
    <3> QED
      BY <1>4, <3>1, <3>2
  <2> QED
    BY <2>1 DEF LivingIsNamed
<1>9. TargetLives'
  <2>1. ASSUME NEW j \in Started, kctx'[ga[j].context].set = "ok", kctx'[ga[j].context].surf # None
        PROVE  /\ ga'[j].surface \in BlitSurfaces /\ iref'[ga'[j].surface] # None
               /\ info'[iref'[ga'[j].surface]].by = j
               /\ info'[iref'[ga'[j].surface]].id = kctx'[ga[j].context].surf
    <3>1. j # i
      BY <1>2, <2>1
    <3>2. ga'[j].surface = ga[j].surface /\ kctx'[ga[j].context] = kctx[ga[j].context]
      BY <1>2, <3>1
    <3>3. /\ ga[j].surface \in BlitSurfaces
          /\ iref[ga[j].surface] # None /\ info[iref[ga[j].surface]].by = j
          /\ info[iref[ga[j].surface]].id = kctx[ga[j].context].surf
      BY <2>1, <3>2 DEF TargetLives
    <3>4. ga[j].surface # b
      BY <1>3, <3>1, <3>3
    <3> QED
      BY <1>4, <1>6, <3>2, <3>3, <3>4
  <2> QED
    BY <2>1, <1>2 DEF TargetLives
<1> QED
  BY <1>2, <1>5, <1>7, <1>8, <1>9

LEMMA DestinationSteps ==
  ASSUME HandleInv, NEW i \in Instances, NEW b \in Mine(i) \cup {None}, vmSetDestination(i, b)
  PROVE  HandleInv'
<1> DEFINE id == IF b = None THEN None ELSE info[iref[b]].id
<1>1. Ready(i) /\ accRefs' = accRefs /\ info' = info /\ iref' = iref
      /\ \E r \in vmSetSurface(i, b, id) : Apply(i, r)
  BY DEF vmSetDestination
<1>2. PICK r \in vmSetSurface(i, b, id) : Apply(i, r)
  BY <1>1
<1>3. b # None => b \in BlitSurfaces /\ iref[b] \in Infos /\ iref[b] # None /\ info[iref[b]].by = i
  BY DEF Mine, HandleInv, ContextInv, TypeGA
<1>4. b \in BlitSurfaces \cup {None} /\ id \in CGSSurfaces \cup {None}
  BY <1>3 DEF HandleInv, ContextInv, TypeGA, Mine
<1>5. b # None => id = info[iref[b]].id
  OBVIOUS
<1>6. b = None => id = None
  OBVIOUS
<1> HIDE DEF id
<1>7. /\ ga' \in [Instances -> InstanceType] /\ kctx' \in [Ports -> ContextType]
      /\ Connected' /\ OwnContext' /\ OpenIsHeld' /\ AccCounted'
      /\ i \in Started /\ Started' = Started
      /\ \A j \in Started : ga'[j].context = ga[j].context
      /\ LET k == kctx'[ga[i].context]
         IN  k.set = "ok" /\ k.surf # None => id # None /\ k.surf = id /\ ga'[i].surface = b
      /\ \A j \in Started : j # i => /\ ga'[j].surface = ga[j].surface
                                     /\ kctx'[ga[j].context] = kctx[ga[j].context]
  BY <1>1, <1>2, <1>4, Applied
<1>8. TargetLives'
  <2>1. ASSUME NEW j \in Started, kctx'[ga[j].context].set = "ok", kctx'[ga[j].context].surf # None
        PROVE  /\ ga'[j].surface \in BlitSurfaces /\ iref[ga'[j].surface] # None
               /\ info[iref[ga'[j].surface]].by = j
               /\ info[iref[ga'[j].surface]].id = kctx'[ga[j].context].surf
    <3> DEFINE Lives(d, surf) == /\ d \in BlitSurfaces /\ iref[d] # None
                                 /\ info[iref[d]].by = j /\ info[iref[d]].id = surf
    <3>1. ASSUME j = i PROVE Lives(ga'[j].surface, kctx'[ga[j].context].surf)
      <4>1. ga'[j].surface = b /\ kctx'[ga[j].context].surf = id /\ b # None
        BY <1>6, <1>7, <2>1, <3>1
      <4> QED
        BY <1>3, <1>5, <3>1, <4>1
    <3>2. ASSUME j # i PROVE Lives(ga'[j].surface, kctx'[ga[j].context].surf)
      <4>1. ga'[j].surface = ga[j].surface /\ kctx'[ga[j].context] = kctx[ga[j].context]
        BY <1>7, <3>2
      <4> QED
        BY <2>1, <4>1 DEF HandleInv, TargetLives
    <3> QED
      BY <3>1, <3>2
  <2> QED
    BY <1>1, <1>7, <2>1 DEF TargetLives
<1>9. TypeGA' /\ InfoLives' /\ OwnInfo' /\ LivingIsNamed'
  BY <1>1, <1>7 DEF HandleInv, ContextInv, TypeGA, InfoLives, OwnInfo, LivingIsNamed
<1> QED
  BY <1>7, <1>8, <1>9 DEF HandleInv, ContextInv

LEMMA NextHandles == ASSUME HandleInv, [Next]_vars PROVE HandleInv'
<1>1. ASSUME NextGA PROVE HandleInv'
  <2>1. PICK i \in Instances : InstanceStep(i) \/ SurfaceOf(i)
    BY <1>1 DEF NextGA
  <2>2. ASSUME InstanceStep(i) PROVE HandleInv'
    BY <2>2, QuietSteps, StartSteps, StopSteps DEF InstanceStep
  <2>3. ASSUME SurfaceOf(i) PROVE HandleInv'
    BY <2>3, AllocateSteps, FreeSteps, DestinationSteps DEF SurfaceOf
  <2> QED
    BY <2>1, <2>2, <2>3
<1>2. ASSUME UNCHANGED gaVars PROVE HandleInv'
  <2>1. Started' = Started
    BY <1>2 DEF gaVars, Started
  <2> QED
    BY <1>2, <2>1 DEF gaVars, HandleInv, ContextInv, TypeGA, Connected, OwnContext, OpenIsHeld,
       AccCounted, InfoLives, OwnInfo, LivingIsNamed, TargetLives
<1> QED
  BY <1>1, <1>2 DEF Next, PlugInStep, ClientStep, DriverStep, HelperStep, CopyStep, vars

(* Starts that fail half-way, stops, and surfaces freed in any order leave *)
(* no context open, no SurfaceInfo lost and no target behind.              *)
THEOREM PlugInKeepsHandles == Spec => []PlugInHandles
<1>1. Init => HandleInv
  BY InitHandles DEF Init
<1> QED
  BY <1>1, NextHandles, HandlesKept, PTL DEF Spec

-----------------------------------------------------------------------------
(* The drivers and the helper.                                             *)

Acquired == {"bar2_map", "bounce_buffer", "refresh_call", "restore_call", "edid", "iolock"}
AllModes == Modes \cup KnownModes \cup {FirstMode}
FBType ==
  [st : {"none", "attached", "started", "gone"}, driver : Drivers \cup MatchedDrivers \cup {Nil},
   refs : Int, held : SUBSET Acquired, mem : {"none", "register", "bar1", "ndrv", "fixed"},
   edid : BOOLEAN, mode : AllModes, mask : SUBSET KnownModes, bar : Int, ranges : Int]
PatchType ==
  [routes : {"none", "asked", "made"}, routed : RouteOutcomes \cup {{}}, mode : AllModes,
   asked : SUBSET KnownModes]
AccType ==
  [started : BOOLEAN, framebuffer : Framebuffers \cup {Nil},
   held : SUBSET {"iolock", "allocator", "surface_root", "vram_kernel_map"}]

TypeFB ==
  /\ fb \in [Framebuffers -> FBType]
  /\ patch \in PatchType
  /\ acc \in AccType
  /\ note \in [Framebuffers -> {"none", "retained", "stored", "done"}]
  /\ gFramebuffer \in Framebuffers \cup {Nil}
  /\ action \in [pc : {"idle", "vram", "edid", "limits"}, fb : Framebuffers \cup {Nil}]

(* References of the registry and the accelerator, and of the map.         *)
Registered(x) == IF x.st \in {"attached", "started"} THEN 1 ELSE 0
Accelerated(f) == IF acc.framebuffer = f THEN 1 ELSE 0
Mapped(f) == IF acc.framebuffer = f /\ "vram_kernel_map" \in acc.held THEN 1 ELSE 0

(* What a driver may be, whoever uses it. *)
Served == {"QEMUDisplay", "IONDRVFramebuffer", "VMsvga2"}
Sound(x) ==
  /\ x.held # {} => x.st = "started" /\ x.driver = "VMsvga2"
  /\ x.st = "started" => x.driver \in Served
BarCounted(x, map) == x.driver # "QEMUDisplay" => x.bar = 1 + x.ranges + map

(* The references left to the helper. *)
HelperRefs(f) == fb[f].refs - Registered(fb[f]) - Accelerated(f)

DriverInv == \A f \in Framebuffers : Sound(fb[f]) /\ BarCounted(fb[f], Mapped(f))

AccelInv ==
  /\ acc.started = (acc.framebuffer # Nil)
  /\ acc.framebuffer = Nil => acc.held = {}
  /\ acc.framebuffer # Nil => fb[acc.framebuffer].st # "none"

(* The helper has at most one reference to a framebuffer, and has it while *)
(* it keeps a pointer, in gFramebuffer or in a call of its timer's action. *)
HelperInv ==
  \A f \in Framebuffers :
    /\ HelperRefs(f) \in {0, 1}
    /\ note[f] = "none" => HelperRefs(f) = 0
    /\ note[f] = "retained" => HelperRefs(f) = 1
    /\ note[f] # "none" => fb[f].st # "none"
    /\ gFramebuffer = f => HelperRefs(f) = 1 /\ note[f] \in {"stored", "done"}
    /\ action.fb = f => HelperRefs(f) = 1

HeldInv == TypeFB /\ DriverInv /\ AccelInv /\ HelperInv

LEMMA InitHeld == InitFB /\ InitHelper => HeldInv
<1> SUFFICES ASSUME InitFB, InitHelper PROVE HeldInv
  OBVIOUS
<1> USE NilAssumption DEF InitFB, InitHelper
<1>1. NoFramebuffer \in FBType /\ Stopped \in AccType
  BY DEF NoFramebuffer, FBType, AllModes, Stopped, AccType
<1>2. TypeFB
  <2>1. patch \in PatchType
    BY DEF PatchType, AllModes
  <2>2. action \in [pc : {"idle", "vram", "edid", "limits"}, fb : Framebuffers \cup {Nil}]
    BY DEF Idle
  <2>3. /\ fb \in [Framebuffers -> FBType] /\ acc \in AccType /\ gFramebuffer \in Framebuffers \cup {Nil}
        /\ note \in [Framebuffers -> {"none", "retained", "stored", "done"}]
    BY <1>1
  <2> QED
    BY <2>1, <2>2, <2>3 DEF TypeFB
<1>3. DriverInv
  BY DEF DriverInv, Sound, BarCounted, Mapped, NoFramebuffer, Stopped
<1>4. AccelInv
  BY DEF AccelInv, Stopped
<1>5. HelperInv
  BY DEF HelperInv, HelperRefs, Registered, Accelerated, NoFramebuffer, Stopped, Idle
<1> QED
  BY <1>2, <1>3, <1>4, <1>5 DEF HeldInv

LEMMA HeldMeans == HeldInv => FramebufferHeld
<1> SUFFICES ASSUME HeldInv PROVE FramebufferHeld
  OBVIOUS
<1> USE DEF HeldInv
<1>1. ASSUME NEW f \in Framebuffers
      PROVE  LET registry == IF fb[f].st \in {"attached", "started"} THEN 1 ELSE 0
                 accel == IF acc.framebuffer = f THEN 1 ELSE 0
                 map == IF accel = 1 /\ "vram_kernel_map" \in acc.held THEN 1 ELSE 0
             IN  /\ fb[f].refs \in registry + accel .. registry + accel + 1
                 /\ note[f] = "none" => fb[f].refs = registry + accel
                 /\ fb[f].held # {} => fb[f].st = "started"
                 /\ fb[f].driver # "QEMUDisplay" => fb[f].bar = 1 + fb[f].ranges + map
  <2>1. fb[f].refs \in Int
    BY DEF TypeFB, FBType
  <2>2. HelperRefs(f) \in {0, 1} /\ (note[f] = "none" => HelperRefs(f) = 0)
    BY DEF HelperInv
  <2>3. Sound(fb[f]) /\ BarCounted(fb[f], Mapped(f))
    BY DEF DriverInv
  <2> QED
    BY <2>1, <2>2, <2>3 DEF HelperRefs, Registered, Accelerated, Sound, BarCounted, Mapped
<1>2. ASSUME NEW f \in Framebuffers, HelperRefs(f) = 1
      PROVE  /\ fb[f].refs > 0
             /\ fb[f].st = "gone" => fb[f].refs = IF acc.framebuffer = f THEN 2 ELSE 1
  <2>1. fb[f].refs \in Int
    BY DEF TypeFB, FBType
  <2> QED
    BY <1>2, <2>1 DEF HelperRefs, Registered, Accelerated
<1>3. \A f \in {gFramebuffer, action.fb} \ {Nil} : f \in Framebuffers /\ HelperRefs(f) = 1
  BY DEF HelperInv, TypeFB
<1>4. gFramebuffer # Nil => gFramebuffer \in Framebuffers /\ HelperRefs(gFramebuffer) = 1
  BY <1>3
<1>5. acc.started = (acc.framebuffer # Nil) /\ (~acc.started => acc.held = {})
  <2>1. acc.started = (acc.framebuffer # Nil) /\ (acc.framebuffer = Nil => acc.held = {})
    BY Zenon DEF AccelInv
  <2>2. ASSUME ~acc.started PROVE acc.framebuffer = Nil
    BY <2>1, <2>2
  <2> QED
    BY <2>1, <2>2
<1> HIDE DEF HeldInv
<1> QED
  BY <1>1, <1>2, <1>3, <1>4, <1>5 DEF FramebufferHeld

(* A framebuffer changes, and with it only the registry's reference and    *)
(* those to BAR1.                                                          *)
LEMMA OneChanges ==
  ASSUME HeldInv, NEW f \in Framebuffers, NEW y \in FBType, fb' = [fb EXCEPT ![f] = y],
         acc' = acc, patch' \in PatchType,
         gFramebuffer' = gFramebuffer, action' = action, note' = note,
         y.refs - Registered(y) = fb[f].refs - Registered(fb[f]),
         fb[f].st # "none" => y.st # "none", Sound(y), BarCounted(y, Mapped(f))
  PROVE  HeldInv'
<1> USE DEF HeldInv
<1>1. fb \in [Framebuffers -> FBType]
  BY DEF TypeFB
<1>2. fb' \in [Framebuffers -> FBType] /\ fb'[f] = y /\ \A g \in Framebuffers \ {f} : fb'[g] = fb[g]
  BY <1>1
<1>3. TypeFB'
  BY <1>2 DEF TypeFB
<1>4. DriverInv'
  BY <1>2 DEF DriverInv, Mapped
<1>5. AccelInv'
  BY <1>2 DEF AccelInv, TypeFB, AccType
<1>6. \A g \in Framebuffers : HelperRefs(g)' = HelperRefs(g) /\ (fb[g].st # "none" => fb'[g].st # "none")
  <2>1. ASSUME NEW g \in Framebuffers
        PROVE HelperRefs(g)' = HelperRefs(g) /\ (fb[g].st # "none" => fb'[g].st # "none")
    <3>1. fb[g].refs \in Int /\ y.refs \in Int
      BY <1>1 DEF FBType
    <3>2. ASSUME g = f PROVE HelperRefs(g)' = HelperRefs(g)
      BY <1>2, <3>1, <3>2 DEF HelperRefs, Registered, Accelerated
    <3>3. ASSUME g # f PROVE HelperRefs(g)' = HelperRefs(g)
      BY <1>2, <3>3 DEF HelperRefs, Accelerated
    <3> QED
      BY <1>2, <3>2, <3>3
  <2> QED
    BY <2>1
<1>7. HelperInv'
  BY <1>6 DEF HelperInv
<1> QED
  BY <1>3, <1>4, <1>5, <1>7

(* What the calls that publish, set a mode or patch a property leave alone. *)
Plainly(x, y) ==
  /\ y \in FBType /\ y.st = x.st /\ y.driver = x.driver /\ y.refs = x.refs /\ y.held = x.held
  /\ y.bar = x.bar /\ y.ranges = x.ranges

LEMMA PlainChange ==
  ASSUME HeldInv, NEW f \in Framebuffers, fb[f].st # "none", NEW y, Plainly(fb[f], y),
         fb' = [fb EXCEPT ![f] = y], acc' = acc, patch' \in PatchType,
         gFramebuffer' = gFramebuffer, action' = action, note' = note
  PROVE  HeldInv'
<1>1. Sound(fb[f]) /\ BarCounted(fb[f], Mapped(f))
  BY DEF HeldInv, DriverInv
<1>2. Sound(y) /\ BarCounted(y, Mapped(f)) /\ y.refs - Registered(y) = fb[f].refs - Registered(fb[f])
  BY <1>1 DEF Plainly, Sound, BarCounted, Registered
<1> QED
  BY <1>2, OneChanges DEF Plainly

(* Each field of a driver that such a call writes. *)
LEMMA PlainFields ==
  ASSUME NEW x \in FBType
  PROVE  /\ \A m \in {"none", "register", "bar1", "ndrv", "fixed"} : Plainly(x, [x EXCEPT !.mem = m])
         /\ \A m \in AllModes : Plainly(x, [x EXCEPT !.mode = m])
         /\ Plainly(x, [x EXCEPT !.edid = TRUE])
         /\ \A s \in SUBSET KnownModes : Plainly(x, [x EXCEPT !.mem = "bar1", !.mask = s])
         /\ Plainly(x, x)
BY DEF Plainly, FBType

LEMMA PatchFields ==
  ASSUME NEW p \in PatchType
  PROVE  /\ \A m \in AllModes : [p EXCEPT !.mode = m] \in PatchType
         /\ \A m \in KnownModes : [p EXCEPT !.asked = @ \cup {m}] \in PatchType
         /\ [p EXCEPT !.routes = "asked"] \in PatchType
         /\ \A r \in RouteOutcomes : [p EXCEPT !.routes = "made", !.routed = r] \in PatchType
BY DEF PatchType

LEMMA ConfiguringKeeps ==
  ASSUME HeldInv, NEW f \in Framebuffers, Configuring(f),
         gFramebuffer' = gFramebuffer, action' = action, note' = note
  PROVE  HeldInv'
<1>1. fb[f] \in FBType /\ patch \in PatchType /\ patch.asked \in SUBSET KnownModes
  BY DEF HeldInv, TypeFB, PatchType
<1>2. PICK y : Plainly(fb[f], y) /\ fb' = [fb EXCEPT ![f] = y] /\ fb[f].st # "none"
  <2> DEFINE Found(y) == Plainly(fb[f], y) /\ fb' = [fb EXCEPT ![f] = y] /\ fb[f].st # "none"
  <2>1. ASSUME enableController(f) \/ patchedEnableController(f)
        PROVE  Found([fb[f] EXCEPT !.mem = "bar1"])
    BY <1>1, <2>1, PlainFields DEF enableController, patchedEnableController, Routed, Is
  <2>2. ASSUME patchedSetupForCurrentConfig(f)
        PROVE  Found([fb[f] EXCEPT !.mem = "bar1", !.mask = patch.asked])
    BY <1>1, <2>2, PlainFields DEF patchedSetupForCurrentConfig, Routed, Is
  <2>3. ASSUME originalSetupForCurrentConfig(f)
        PROVE  Found([fb[f] EXCEPT !.mem = "ndrv"])
    BY <1>1, <2>3, PlainFields DEF originalSetupForCurrentConfig, Is
  <2> HIDE DEF Found
  <2>4. \E y : Found(y)
    BY <2>1, <2>2, <2>3 DEF Configuring
  <2> QED
    BY <2>4 DEF Found
<1>3. acc' = acc /\ patch' = patch
  BY DEF Configuring, enableController, patchedEnableController, patchedSetupForCurrentConfig,
     originalSetupForCurrentConfig
<1> QED
  BY <1>1, <1>2, <1>3, PlainChange

LEMMA NoneChanges ==
  ASSUME HeldInv, fb' = fb, acc' = acc, patch' \in PatchType,
         gFramebuffer' = gFramebuffer, action' = action, note' = note
  PROVE  HeldInv'
BY DEF HeldInv, TypeFB, DriverInv, AccelInv, HelperInv, HelperRefs, Accelerated, Mapped

(* What a driver is made into when it is attached, or let go. *)
LEMMA StateFields ==
  ASSUME NEW x \in FBType, NEW s \in {"none", "attached", "started", "gone"}, NEW n \in Int
  PROVE  /\ [x EXCEPT !.st = s, !.refs = n] \in FBType
         /\ \A d \in Drivers \cup MatchedDrivers : [x EXCEPT !.st = s, !.driver = d, !.refs = n] \in FBType
         /\ [x EXCEPT !.st = s, !.refs = n, !.held = {}] \in FBType
BY DEF FBType

(* A driver as its start leaves it, before it is started or let go.        *)
LEMMA StartEnds ==
  ASSUME HeldInv, NEW f \in Framebuffers, fb[f].st = "attached", fb[f].driver \in Served, NEW x \in FBType,
         x.driver = fb[f].driver, x.refs = fb[f].refs, x.bar = fb[f].bar, x.ranges = fb[f].ranges,
         NEW ok \in BOOLEAN, x.held # {} => ok /\ x.driver = "VMsvga2",
         Starts(f, x, ok), acc' = acc, patch' \in PatchType,
         gFramebuffer' = gFramebuffer, action' = action, note' = note
  PROVE  HeldInv'
<1>1. BarCounted(fb[f], Mapped(f)) /\ fb[f].refs \in Int
  BY DEF HeldInv, DriverInv, TypeFB, FBType
<1>2. ASSUME ok PROVE HeldInv'
  <2> DEFINE y == [x EXCEPT !.st = "started"]
  <2>1. y \in FBType /\ y.st = "started" /\ y.refs = x.refs /\ y.bar = x.bar /\ y.ranges = x.ranges
        /\ y.driver = x.driver /\ y.held = x.held
    BY DEF FBType
  <2>2. fb' = [fb EXCEPT ![f] = y]
    BY <1>2 DEF Starts
  <2> HIDE DEF y
  <2>3. Sound(y) /\ BarCounted(y, Mapped(f)) /\ y.refs - Registered(y) = fb[f].refs - Registered(fb[f])
    BY <1>1, <2>1 DEF Sound, BarCounted, Registered
  <2> QED
    BY <2>1, <2>2, <2>3, OneChanges
<1>3. ASSUME ~ok PROVE HeldInv'
  <2> DEFINE y == [x EXCEPT !.st = "gone", !.refs = @ - 1]
  <2>1. y \in FBType /\ y.st = "gone" /\ y.refs = x.refs - 1 /\ y.bar = x.bar /\ y.ranges = x.ranges
        /\ y.driver = x.driver /\ y.held = {}
    <3>1. x.refs - 1 \in Int /\ y = [x EXCEPT !.st = "gone", !.refs = x.refs - 1]
      BY DEF FBType
    <3>2. y \in FBType
      BY <3>1, StateFields
    <3>3. y.st = "gone" /\ y.refs = x.refs - 1 /\ y.bar = x.bar /\ y.ranges = x.ranges
          /\ y.driver = x.driver /\ y.held = x.held
      BY DEF FBType
    <3> QED
      BY <1>3, <3>2, <3>3
  <2>2. fb' = [fb EXCEPT ![f] = y]
    BY <1>3 DEF Starts
  <2> HIDE DEF y
  <2>3. Sound(y) /\ BarCounted(y, Mapped(f)) /\ y.refs - Registered(y) = fb[f].refs - Registered(fb[f])
    BY <1>1, <2>1 DEF Sound, BarCounted, Registered
  <2> QED
    BY <2>1, <2>2, <2>3, OneChanges
<1> QED
  BY <1>2, <1>3

LEMMA Attaches ==
  ASSUME HeldInv, NEW f \in Framebuffers, NEW d \in Drivers \cup MatchedDrivers, Attach(f, d),
         gFramebuffer' = gFramebuffer, action' = action, note' = note
  PROVE  HeldInv'
<1> DEFINE y == [NoFramebuffer EXCEPT !.st = "attached", !.driver = d, !.refs = 1]
<1>1. y \in FBType /\ y.st = "attached" /\ y.refs = 1 /\ y.held = {} /\ y.bar = 1 /\ y.ranges = 0
  <2>1. NoFramebuffer \in FBType
    BY DEF NoFramebuffer, FBType, AllModes
  <2>2. ASSUME NEW n \in Int
        PROVE  [NoFramebuffer EXCEPT !.st = "attached", !.driver = d, !.refs = n] \in FBType
    BY <2>1, StateFields
  <2>3. 1 \in Int
    OBVIOUS
  <2>4. y \in FBType
    BY <2>2, <2>3, Zenon
  <2> QED
    BY <2>4 DEF NoFramebuffer
<1>2. fb[f].st = "none" /\ fb' = [fb EXCEPT ![f] = y] /\ acc' = acc /\ patch' = patch
  BY DEF Attach
<1> HIDE DEF y
<1>3. acc.framebuffer # f
  BY <1>2, NilAssumption DEF HeldInv, AccelInv
<1>4. HelperRefs(f) = 0 /\ fb[f].refs \in Int
  BY <1>2 DEF HeldInv, HelperInv, TypeFB, FBType
<1>5. fb[f].refs - Registered(fb[f]) = 0
  BY <1>2, <1>3, <1>4 DEF HelperRefs, Accelerated, Registered
<1>6. Sound(y) /\ BarCounted(y, Mapped(f)) /\ y.refs - Registered(y) = 0 /\ patch \in PatchType
  BY <1>1, <1>3 DEF Sound, BarCounted, Mapped, Registered, HeldInv, TypeFB
<1> QED
  BY <1>1, <1>2, <1>5, <1>6, OneChanges

LEMMA AllGivenBack ==
  /\ \A s \in SUBSET Acquired : Cleanup_(s) = {}
  /\ \A e \in {{}, {"edid"}} : \A s \in SVGAStart(e) : s.held \in SUBSET Acquired
BY DEF Cleanup_, SVGACleanup, Acquired, SVGAStart

LEMMA StartingKeeps ==
  ASSUME HeldInv, NEW f \in Framebuffers, NEW drivers \in SUBSET (Drivers \cup MatchedDrivers),
         Starting(f, drivers),
         gFramebuffer' = gFramebuffer, action' = action, note' = note
  PROVE  HeldInv'
<1>1. fb[f] \in FBType /\ patch \in PatchType /\ Sound(fb[f])
  BY DEF HeldInv, TypeFB, DriverInv
<1>2. ASSUME NEW d \in drivers, Attach(f, d) PROVE HeldInv'
  BY <1>2, Attaches
<1>3. ASSUME startQEMUDisplay(f) PROVE HeldInv'
  <2> DEFINE x == [fb[f] EXCEPT !.mem = "register", !.mode = FirstMode]
  <2>1. fb[f].st = "attached" /\ fb[f].driver \in Served /\ fb[f].held = {} /\ acc' = acc /\ patch' = patch
    BY <1>1, <1>3 DEF startQEMUDisplay, Sound, Served
  <2>2. x \in FBType /\ x.driver = fb[f].driver /\ x.refs = fb[f].refs /\ x.bar = fb[f].bar
        /\ x.ranges = fb[f].ranges /\ x.held = fb[f].held
    BY <1>1 DEF FBType, AllModes
  <2>3. Starts(f, fb[f], FALSE) \/ \E ok \in BOOLEAN : Starts(f, x, ok)
    BY <1>3 DEF startQEMUDisplay
  <2> HIDE DEF x
  <2>4. ASSUME Starts(f, fb[f], FALSE) PROVE HeldInv'
    BY <1>1, <2>1, <2>4, StartEnds
  <2>5. ASSUME NEW ok \in BOOLEAN, Starts(f, x, ok) PROVE HeldInv'
    BY <1>1, <2>1, <2>2, <2>5, StartEnds
  <2> QED
    BY <2>3, <2>4, <2>5
<1>4. ASSUME startIONDRVFramebuffer(f) PROVE HeldInv'
  <2> DEFINE x == [fb[f] EXCEPT !.mem = "ndrv"]
  <2>1. fb[f].st = "attached" /\ fb[f].driver \in Served /\ fb[f].held = {} /\ acc' = acc
    BY <1>1, <1>4 DEF startIONDRVFramebuffer, Sound, Served
  <2>2. x \in FBType /\ x.driver = fb[f].driver /\ x.refs = fb[f].refs /\ x.bar = fb[f].bar
        /\ x.ranges = fb[f].ranges /\ x.held = fb[f].held
    BY <1>1 DEF FBType
  <2>3. PICK ok \in BOOLEAN : Starts(f, x, ok)
    BY <1>4 DEF startIONDRVFramebuffer
  <2>4. patch' \in PatchType
    BY <1>1, <1>4, PatchFields DEF startIONDRVFramebuffer
  <2> HIDE DEF x
  <2> QED
    BY <2>1, <2>2, <2>3, <2>4, StartEnds
<1>5. ASSUME startVMsvga2(f) PROVE HeldInv'
  <2>1. fb[f].st = "attached" /\ fb[f].driver = "VMsvga2" /\ "VMsvga2" \in Served /\ acc' = acc /\ patch' = patch
    BY <1>5 DEF startVMsvga2, Served
  <2>2. \A s \in SUBSET Acquired :
          LET x == [fb[f] EXCEPT !.held = s]
          IN  x \in FBType /\ x.driver = fb[f].driver /\ x.refs = fb[f].refs /\ x.bar = fb[f].bar
              /\ x.ranges = fb[f].ranges /\ x.held = s
    BY <1>1 DEF FBType
  <2>3. ASSUME NEW s \in SUBSET Acquired, NEW ok \in BOOLEAN, s # {} => ok,
               Starts(f, [fb[f] EXCEPT !.held = s], ok)
        PROVE  HeldInv'
    <3> DEFINE x == [fb[f] EXCEPT !.held = s]
    <3>1. x \in FBType /\ x.driver = fb[f].driver /\ x.refs = fb[f].refs /\ x.bar = fb[f].bar
          /\ x.ranges = fb[f].ranges /\ x.held = s /\ Starts(f, x, ok)
      BY <2>2, <2>3
    <3> HIDE DEF x
    <3> QED
      BY <1>1, <2>1, <2>3, <3>1, StartEnds
  <2>4. PICK edid \in {{}, {"edid"}} : \E s \in SVGAStart(edid) :
         \/ /\ ~s.ok
            /\ Starts(f, [fb[f] EXCEPT !.held = Cleanup_(s.held)], FALSE)
         \/ /\ s.ok
            /\ \E calls \in SUBSET {"restore_call", "refresh_call"} :
                 \/ Starts(f, [fb[f] EXCEPT !.held = Cleanup_(s.held \cup calls)], FALSE)
                 \/ Starts(f, [fb[f] EXCEPT !.held = s.held \cup calls \cup {"iolock"}], TRUE)
    BY <1>5 DEF startVMsvga2
  <2>5. PICK s \in SVGAStart(edid) :
         \/ Starts(f, [fb[f] EXCEPT !.held = Cleanup_(s.held)], FALSE)
         \/ \E calls \in SUBSET {"restore_call", "refresh_call"} :
              \/ Starts(f, [fb[f] EXCEPT !.held = Cleanup_(s.held \cup calls)], FALSE)
              \/ Starts(f, [fb[f] EXCEPT !.held = s.held \cup calls \cup {"iolock"}], TRUE)
    BY <2>4
  <2>6. s.held \in SUBSET Acquired
    BY <2>4, <2>5, AllGivenBack
  <2>7. \A calls \in SUBSET {"restore_call", "refresh_call"} :
          /\ s.held \cup calls \in SUBSET Acquired
          /\ s.held \cup calls \cup {"iolock"} \in SUBSET Acquired
    BY <2>6 DEF Acquired
  <2>8. /\ Cleanup_(s.held) = {}
        /\ \A calls \in SUBSET {"restore_call", "refresh_call"} : Cleanup_(s.held \cup calls) = {}
    BY <2>6, <2>7, AllGivenBack
  <2>9. \/ Starts(f, [fb[f] EXCEPT !.held = {}], FALSE)
        \/ \E t \in SUBSET Acquired : Starts(f, [fb[f] EXCEPT !.held = t], TRUE)
    BY <2>5, <2>7, <2>8
  <2> QED
    BY <2>3, <2>9
<1> QED
  BY <1>2, <1>3, <1>4, <1>5 DEF Starting

LEMMA StoppingKeeps ==
  ASSUME HeldInv, NEW f \in Framebuffers, Stopping(f),
         gFramebuffer' = gFramebuffer, action' = action, note' = note
  PROVE  HeldInv'
<1>1. /\ fb[f] \in FBType /\ patch \in PatchType /\ Sound(fb[f]) /\ BarCounted(fb[f], Mapped(f))
      /\ fb[f].refs \in Int
  BY DEF HeldInv, TypeFB, DriverInv, FBType
<1> DEFINE y == [fb[f] EXCEPT !.st = "gone", !.refs = @ - 1, !.held = {}]
<1>2. /\ y \in FBType /\ y.st = "gone" /\ y.refs = fb[f].refs - 1 /\ y.held = {}
      /\ y.driver = fb[f].driver /\ y.bar = fb[f].bar /\ y.ranges = fb[f].ranges
  <2>1. fb[f].refs - 1 \in Int /\ y = [fb[f] EXCEPT !.st = "gone", !.refs = fb[f].refs - 1, !.held = {}]
    BY <1>1 DEF FBType
  <2>2. y \in FBType
    BY <1>1, <2>1, StateFields
  <2>3. /\ y.st = "gone" /\ y.refs = fb[f].refs - 1 /\ y.held = {}
        /\ y.driver = fb[f].driver /\ y.bar = fb[f].bar /\ y.ranges = fb[f].ranges
    BY <1>1 DEF FBType
  <2> QED
    BY <2>2, <2>3
<1>3. fb' = [fb EXCEPT ![f] = y]
  <2>1. ASSUME NEW x, x = [fb[f] EXCEPT !.held = {}], Detaches(f, x) PROVE fb' = [fb EXCEPT ![f] = y]
    <3>1. [x EXCEPT !.st = "gone", !.refs = @ - 1] = y
      BY <1>1, <2>1 DEF FBType
    <3> QED
      BY <2>1, <3>1 DEF Detaches
  <2>2. ASSUME fb[f].held = {} PROVE fb[f] = [fb[f] EXCEPT !.held = {}]
    BY <1>1, <2>2 DEF FBType
  <2>3. ASSUME stopQEMUDisplay(f) \/ stopIONDRVFramebuffer(f)
        PROVE  Detaches(f, fb[f]) /\ fb[f].held = {}
    BY <1>1, <2>3 DEF stopQEMUDisplay, stopIONDRVFramebuffer, Is, Sound
  <2>4. ASSUME stopVMsvga2(f) PROVE Detaches(f, [fb[f] EXCEPT !.held = {}])
    <3>1. fb[f].held \in SUBSET Acquired
      BY <1>1 DEF FBType
    <3>2. Cleanup_(fb[f].held) = {}
      BY <3>1, AllGivenBack
    <3>3. [fb[f] EXCEPT !.held = Cleanup_(@)] = [fb[f] EXCEPT !.held = {}]
      BY <1>1, <3>2
    <3> QED
      BY <2>4, <3>3 DEF stopVMsvga2
  <2> HIDE DEF y
  <2> QED
    BY <2>1, <2>2, <2>3, <2>4 DEF Stopping
<1> HIDE DEF y
<1>4. fb[f].st = "started" /\ acc' = acc /\ patch' = patch
  BY DEF Stopping, stopQEMUDisplay, stopIONDRVFramebuffer, stopVMsvga2, Is
<1>5. Sound(y) /\ BarCounted(y, Mapped(f)) /\ y.refs - Registered(y) = fb[f].refs - Registered(fb[f])
  BY <1>1, <1>2, <1>4 DEF Sound, BarCounted, Registered
<1> QED
  BY <1>1, <1>2, <1>3, <1>4, <1>5, OneChanges

(* A driver that keeps everything but its ranges and the references for them. *)
Handing(x, y) ==
  /\ y \in FBType /\ y.st = x.st /\ y.driver = x.driver /\ y.refs = x.refs /\ y.held = x.held
  /\ y.driver # "QEMUDisplay" => y.bar - y.ranges = x.bar - x.ranges

(* A client takes a range, or gives one back: one reference for each, but  *)
(* none with QEMUDisplay.                                                  *)
LEMMA RangeFields ==
  ASSUME NEW x \in FBType
  PROVE  /\ Handing(x, x) /\ Handing(x, withSubRange(x))
         /\ x.driver = "QEMUDisplay" => Handing(x, getVRAMRange(x))
         /\ Handing(x, [x EXCEPT !.ranges = @ - 1, !.bar = @ - 1])
<1> DEFINE y(a, b) == [x EXCEPT !.bar = a, !.ranges = b]
           z == [x EXCEPT !.ranges = @ + 1]
<1>1. x.bar \in Int /\ x.ranges \in Int
  BY DEF FBType
<1>2. ASSUME NEW a \in Int, NEW b \in Int, a - b = x.bar - x.ranges PROVE Handing(x, y(a, b))
  <2>1. y(a, b) \in FBType
    BY DEF FBType
  <2>2. /\ y(a, b).st = x.st /\ y(a, b).driver = x.driver /\ y(a, b).refs = x.refs
        /\ y(a, b).held = x.held /\ y(a, b).bar = a /\ y(a, b).ranges = b
    BY DEF FBType
  <2> HIDE DEF y
  <2> QED
    BY <1>2, <2>1, <2>2 DEF Handing
<1>3. ASSUME x.driver = "QEMUDisplay" PROVE Handing(x, z)
  <2>1. z \in FBType
    BY DEF FBType
  <2>2. z.st = x.st /\ z.driver = x.driver /\ z.refs = x.refs /\ z.held = x.held
    BY DEF FBType
  <2> HIDE DEF z
  <2> QED
    BY <1>3, <2>1, <2>2 DEF Handing
<1>4. /\ x = y(x.bar, x.ranges) /\ withSubRange(x) = y(x.bar + 1, x.ranges + 1)
      /\ [x EXCEPT !.ranges = @ - 1, !.bar = @ - 1] = y(x.bar - 1, x.ranges - 1)
      /\ getVRAMRange(x) = z
  BY DEF FBType, withSubRange, getVRAMRange
<1> HIDE DEF y, z
<1>5. /\ Handing(x, y(x.bar, x.ranges)) /\ Handing(x, y(x.bar + 1, x.ranges + 1))
      /\ Handing(x, y(x.bar - 1, x.ranges - 1))
  <2>1. /\ (x.bar + 1) - (x.ranges + 1) = x.bar - x.ranges
        /\ (x.bar - 1) - (x.ranges - 1) = x.bar - x.ranges
        /\ x.bar - 1 \in Int /\ x.ranges - 1 \in Int /\ x.bar + 1 \in Int /\ x.ranges + 1 \in Int
    BY <1>1
  <2> QED
    BY <1>1, <1>2, <2>1
<1> QED
  BY <1>3, <1>4, <1>5

LEMMA HandingKeeps ==
  ASSUME HeldInv, NEW f \in Framebuffers, NEW y, Handing(fb[f], y),
         fb' = [fb EXCEPT ![f] = y], acc' = acc, patch' = patch,
         gFramebuffer' = gFramebuffer, action' = action, note' = note
  PROVE  HeldInv'
<1>1. /\ Sound(fb[f]) /\ BarCounted(fb[f], Mapped(f)) /\ patch \in PatchType
      /\ fb[f].bar \in Int /\ fb[f].ranges \in Int /\ y.bar \in Int /\ y.ranges \in Int
  BY DEF HeldInv, DriverInv, TypeFB, FBType, Handing
<1>2. BarCounted(y, Mapped(f))
  BY <1>1 DEF BarCounted, Handing, Mapped
<1>3. Sound(y) /\ y.refs - Registered(y) = fb[f].refs - Registered(fb[f])
  BY <1>1 DEF Handing, Sound, Registered
<1>4. y \in FBType /\ (fb[f].st # "none" => y.st # "none")
  BY DEF Handing
<1> QED
  BY <1>1, <1>2, <1>3, <1>4, OneChanges

LEMMA UsingKeeps ==
  ASSUME HeldInv, NEW f \in Framebuffers, Using(f),
         gFramebuffer' = gFramebuffer, action' = action, note' = note
  PROVE  HeldInv'
<1>1. fb[f] \in FBType /\ patch \in PatchType /\ Sound(fb[f]) /\ fb \in [Framebuffers -> FBType]
  BY DEF HeldInv, TypeFB, DriverInv
<1>2. ASSUME NEW mode \in Modes, setDisplayMode(f, mode) PROVE HeldInv'
  <2>1. fb' = [fb EXCEPT ![f] = [fb[f] EXCEPT !.mode = mode]] /\ fb[f].st = "started"
        /\ acc' = acc /\ patch' = patch
    BY <1>2 DEF setDisplayMode, Is
  <2>2. Plainly(fb[f], [fb[f] EXCEPT !.mode = mode])
    BY <1>1, PlainFields DEF AllModes
  <2> QED
    BY <1>1, <2>1, <2>2, PlainChange
<1>3. ASSUME NEW mode \in Modes, patchedSetDisplayMode(f, mode) PROVE HeldInv'
  <2>1. patch' \in PatchType
    BY <1>1, <1>3, PatchFields DEF patchedSetDisplayMode, AllModes
  <2> QED
    BY <1>3, <2>1, NoneChanges DEF patchedSetDisplayMode
<1>4. ASSUME NEW mode \in Modes, patchedGetInformationForDisplayMode(f, mode) PROVE HeldInv'
  <2>1. patch' \in PatchType
    BY <1>1, <1>4, PatchFields DEF patchedGetInformationForDisplayMode
  <2> QED
    BY <1>4, <2>1, NoneChanges DEF patchedGetInformationForDisplayMode
<1>5. ASSUME TakeRange(f) PROVE HeldInv'
  <2>1. PICK y \in Ranges(f) : fb' = [fb EXCEPT ![f] = y]
    BY <1>5 DEF TakeRange
  <2>2. fb[f].st = "started" /\ acc' = acc /\ patch' = patch /\ fb[f].driver \in Served
    BY <1>1, <1>5 DEF TakeRange, Sound
  <2>3. Handing(fb[f], fb[f]) /\ Handing(fb[f], withSubRange(fb[f]))
    BY <1>1, RangeFields
  <2>4. fb[f].driver = "QEMUDisplay" => Handing(fb[f], getVRAMRange(fb[f]))
    BY <1>1, RangeFields
  <2>5. ASSUME fb[f].driver = "VMsvga2" PROVE y \in {fb[f], withSubRange(fb[f])}
    BY <2>1, <2>2, <2>5 DEF Ranges, Is, VMsvga2GetVRAMRange, VMsvga2GetApertureRange
  <2>6. ASSUME fb[f].driver = "IONDRVFramebuffer" PROVE y \in {fb[f], withSubRange(fb[f])}
    BY <2>1, <2>2, <2>6 DEF Ranges, Is, patchedGetVRAMRange, patchedGetApertureRange
  <2>7. ASSUME fb[f].driver = "QEMUDisplay"
        PROVE  y \in {fb[f], withSubRange(fb[f]), getVRAMRange(fb[f])}
    BY <2>1, <2>2, <2>7 DEF Ranges, Is, getApertureRange
  <2>8. Handing(fb[f], y)
    BY <2>2, <2>3, <2>4, <2>5, <2>6, <2>7 DEF Served
  <2> QED
    BY <2>1, <2>2, <2>8, HandingKeeps
<1>6. ASSUME GiveBackRange(f) PROVE HeldInv'
  <2> DEFINE y == [fb[f] EXCEPT !.ranges = @ - 1, !.bar = @ - 1]
  <2>1. fb' = [fb EXCEPT ![f] = y] /\ acc' = acc /\ patch' = patch
    BY <1>1, <1>6 DEF GiveBackRange
  <2>2. Handing(fb[f], y)
    BY <1>1, RangeFields
  <2> QED
    BY <2>1, <2>2, HandingKeeps
<1> QED
  BY <1>2, <1>3, <1>4, <1>5, <1>6 DEF Using

(* The accelerator takes a framebuffer or lets it go, or maps its memory:  *)
(* the framebuffer's counts follow.                                        *)
LEMMA AccelChanges ==
  ASSUME HeldInv, NEW f \in Framebuffers, fb[f].st # "none", NEW y \in FBType,
         fb' = [fb EXCEPT ![f] = y], acc' \in AccType, patch' = patch,
         acc.framebuffer \in {f, Nil}, acc'.framebuffer \in {f, Nil},
         acc'.started = (acc'.framebuffer # Nil), acc'.framebuffer = Nil => acc'.held = {},
         y.st = fb[f].st, y.driver = fb[f].driver, y.held = fb[f].held, y.ranges = fb[f].ranges,
         y.refs - Accelerated(f)' = fb[f].refs - Accelerated(f),
         y.bar - Mapped(f)' = fb[f].bar - Mapped(f),
         gFramebuffer' = gFramebuffer, action' = action, note' = note
  PROVE  HeldInv'
<1> USE NilAssumption DEF HeldInv
<1>1. fb \in [Framebuffers -> FBType]
  BY DEF TypeFB
<1>2. fb' \in [Framebuffers -> FBType] /\ fb'[f] = y /\ \A g \in Framebuffers \ {f} : fb'[g] = fb[g]
  BY <1>1
<1>3. TypeFB'
  BY <1>2 DEF TypeFB
<1>4. \A g \in Framebuffers \ {f} : Mapped(g)' = Mapped(g) /\ Accelerated(g)' = Accelerated(g)
  BY DEF Mapped, Accelerated
<1>5. fb[f].refs \in Int /\ fb[f].bar \in Int /\ y.refs \in Int /\ y.bar \in Int /\ fb[f].ranges \in Int
  BY <1>1 DEF FBType
<1>6. DriverInv'
  <2>1. Sound(y) /\ BarCounted(y, Mapped(f)')
    <3>1. Sound(fb[f]) /\ BarCounted(fb[f], Mapped(f)) /\ Mapped(f) \in Int /\ Mapped(f)' \in Int
      BY DEF DriverInv, Mapped
    <3> QED
      BY <3>1, <1>5 DEF Sound, BarCounted
  <2>2. ASSUME NEW g \in Framebuffers PROVE Sound(fb'[g]) /\ BarCounted(fb'[g], Mapped(g)')
    <3>1. CASE g = f
      BY <2>1, <1>2, <3>1
    <3>2. CASE g # f
      BY <1>2, <1>4, <3>2 DEF DriverInv
    <3> QED
      BY <3>1, <3>2
  <2> QED
    BY <2>2 DEF DriverInv
<1>7. AccelInv'
  <2>1. acc'.framebuffer # Nil => fb'[acc'.framebuffer].st # "none"
    BY <1>2
  <2> QED
    BY <2>1 DEF AccelInv
<1>8. \A g \in Framebuffers : HelperRefs(g)' = HelperRefs(g) /\ (fb[g].st # "none" => fb'[g].st # "none")
  <2>1. HelperRefs(f)' = HelperRefs(f)
    <3>1. Accelerated(f) \in Int /\ Accelerated(f)' \in Int /\ Registered(y) = Registered(fb[f])
          /\ Registered(y) \in Int
      BY DEF Accelerated, Registered
    <3> QED
      BY <1>2, <1>5, <3>1 DEF HelperRefs
  <2>2. ASSUME NEW g \in Framebuffers \ {f} PROVE HelperRefs(g)' = HelperRefs(g)
    BY <1>2, <1>4 DEF HelperRefs
  <2> QED
    BY <1>2, <2>1, <2>2
<1>9. HelperInv'
  BY <1>8 DEF HelperInv
<1> QED
  BY <1>3, <1>6, <1>7, <1>9

(* The counts of a framebuffer, rewritten together. *)
Counts(x, n, m) == [x EXCEPT !.refs = n, !.bar = m]

LEMMA CountFields ==
  ASSUME NEW x \in FBType, NEW n \in Int, NEW m \in Int
  PROVE  /\ Counts(x, n, m) \in FBType
         /\ Counts(x, n, m).refs = n /\ Counts(x, n, m).bar = m /\ Counts(x, n, m).st = x.st
         /\ Counts(x, n, m).driver = x.driver /\ Counts(x, n, m).held = x.held
         /\ Counts(x, n, m).ranges = x.ranges
<1>1. Counts(x, n, m) \in FBType
  BY DEF Counts, FBType
<1> QED
  BY <1>1 DEF Counts, FBType

(* The accelerator's start has failed. *)
LEMMA AccelGone ==
  ASSUME HeldInv, acc.framebuffer = Nil, acc' = Stopped, fb' = fb, patch' = patch,
         gFramebuffer' = gFramebuffer, action' = action, note' = note
  PROVE  HeldInv'
<1>1. acc' \in AccType /\ acc'.framebuffer = Nil /\ acc'.held = {} /\ acc'.started = FALSE
  BY DEF Stopped, AccType
<1>2. \A f \in Framebuffers : Accelerated(f)' = Accelerated(f) /\ Mapped(f)' = Mapped(f)
  BY <1>1, NilAssumption DEF Accelerated, Mapped
<1>3. TypeFB' /\ DriverInv'
  BY <1>1, <1>2 DEF HeldInv, TypeFB, DriverInv
<1>4. AccelInv'
  BY <1>1 DEF AccelInv
<1>5. HelperInv'
  BY <1>2 DEF HeldInv, HelperInv, HelperRefs
<1> QED
  BY <1>3, <1>4, <1>5 DEF HeldInv

LEMMA AcceleratingKeeps ==
  ASSUME HeldInv, Accelerating, gFramebuffer' = gFramebuffer, action' = action, note' = note
  PROVE  HeldInv'
<1>1. /\ fb \in [Framebuffers -> FBType] /\ acc \in AccType /\ patch \in PatchType
      /\ acc.held \in SUBSET {"iolock", "allocator", "surface_root", "vram_kernel_map"}
  BY DEF HeldInv, TypeFB, AccType
<1>2. \A f \in Framebuffers : fb[f].refs \in Int /\ fb[f].bar \in Int
  BY <1>1 DEF FBType
<1>3. acc.started = (acc.framebuffer # Nil) /\ (acc.framebuffer = Nil => acc.held = {})
  BY Zenon DEF HeldInv, AccelInv
<1>4. acc.framebuffer # Nil => acc.framebuffer \in Framebuffers /\ fb[acc.framebuffer].st # "none"
  BY <1>1 DEF HeldInv, AccelInv, AccType
<1>5. ASSUME setupAllocator PROVE HeldInv'
  <2> DEFINE a == [acc EXCEPT !.held = @ \cup {"vram_kernel_map"}]
  <2>1. PICK f \in Framebuffers :
          f = acc.framebuffer /\ f # Nil /\ fb[f].st # "none" /\ "vram_kernel_map" \notin acc.held
          /\ acc' = a /\ patch' = patch
    BY <1>3, <1>4, <1>5 DEF setupAllocator
  <2> DEFINE y == Counts(fb[f], fb[f].refs, fb[f].bar + 1)
  <2>2. fb' = [fb EXCEPT ![f] = y]
    <3>1. [fb EXCEPT ![f].bar = @ + 1] = [fb EXCEPT ![f] = y]
      BY <1>1, <2>1 DEF Counts, FBType
    <3> QED
      BY <1>5, <2>1, <3>1 DEF setupAllocator
  <2>3. /\ y \in FBType /\ y.refs = fb[f].refs /\ y.bar = fb[f].bar + 1
        /\ y.st = fb[f].st /\ y.driver = fb[f].driver /\ y.held = fb[f].held /\ y.ranges = fb[f].ranges
    BY <1>1, <1>2, <2>1, CountFields, SMTT(60)
  <2>4. /\ a \in AccType /\ a.framebuffer = f /\ a.started = acc.started
        /\ "vram_kernel_map" \in a.held
    <3> DEFINE h == acc.held \cup {"vram_kernel_map"}
    <3>1. h \in SUBSET {"iolock", "allocator", "surface_root", "vram_kernel_map"} /\ "vram_kernel_map" \in h
          /\ a = [acc EXCEPT !.held = h]
      BY <1>1
    <3> HIDE DEF h
    <3>2. a \in AccType /\ a.framebuffer = acc.framebuffer /\ a.started = acc.started /\ a.held = h
      BY <1>1, <3>1 DEF AccType
    <3> QED
      BY <2>1, <3>1, <3>2
  <2>5. a.started = (a.framebuffer # Nil)
    BY <1>3, <2>4
  <2> HIDE DEF y, a
  <2>6. Accelerated(f)' = Accelerated(f) /\ Mapped(f)' = 1 /\ Mapped(f) = 0
    BY <2>1, <2>4 DEF Accelerated, Mapped
  <2>7. y.refs - Accelerated(f)' = fb[f].refs - Accelerated(f) /\ y.bar - Mapped(f)' = fb[f].bar - Mapped(f)
    BY <1>2, <2>1, <2>3, <2>6
  <2> QED
    BY <2>1, <2>2, <2>3, <2>4, <2>5, <2>7, AccelChanges
<1>6. Stopped \in AccType /\ Stopped.framebuffer = Nil /\ Stopped.held = {} /\ Stopped.started = FALSE
  BY DEF Stopped, AccType
<1>7. ASSUME stopAccel PROVE HeldInv'
  <2>1. PICK f \in Framebuffers : f = acc.framebuffer /\ f # Nil /\ fb[f].st # "none" /\ patch' = patch
    BY <1>3, <1>4, <1>7 DEF stopAccel
  <2> DEFINE map == IF "vram_kernel_map" \in acc.held THEN 1 ELSE 0
             y == Counts(fb[f], fb[f].refs - 1, fb[f].bar - map)
  <2>2. acc' = Stopped /\ fb' = [fb EXCEPT ![f].refs = @ - 1, ![f].bar = @ - map]
    BY <1>7, <2>1 DEF stopAccel, AccelCleanup
  <2>3. map \in Int
    OBVIOUS
  <2>4. fb' = [fb EXCEPT ![f] = y]
    <3> HIDE DEF map
    <3>1. [fb EXCEPT ![f].refs = @ - 1, ![f].bar = @ - map] = [fb EXCEPT ![f] = y]
      BY <1>1, <2>1 DEF Counts, FBType
    <3> QED
      BY <2>2, <3>1
  <2>5. Mapped(f) = map /\ Accelerated(f) = 1 /\ Mapped(f)' = 0 /\ Accelerated(f)' = 0
    BY <1>6, <2>1, <2>2 DEF Mapped, Accelerated
  <2> HIDE DEF map
  <2>6. fb[f].refs - 1 \in Int /\ fb[f].bar - map \in Int
    BY <1>2, <2>1, <2>3
  <2>7. /\ y \in FBType /\ y.refs = fb[f].refs - 1 /\ y.bar = fb[f].bar - map
        /\ y.st = fb[f].st /\ y.driver = fb[f].driver /\ y.held = fb[f].held /\ y.ranges = fb[f].ranges
    BY <1>1, <2>1, <2>6, CountFields
  <2> HIDE DEF y
  <2>8. y.refs - Accelerated(f)' = fb[f].refs - Accelerated(f) /\ y.bar - Mapped(f)' = fb[f].bar - Mapped(f)
    BY <1>2, <2>1, <2>3, <2>5, <2>7
  <2>9. acc'.started = (acc'.framebuffer # Nil)
    BY <1>6, <2>2
  <2> QED
    BY <1>6, <2>1, <2>2, <2>4, <2>7, <2>8, <2>9, AccelChanges
<1>8. ASSUME startAccel PROVE HeldInv'
  <2> DEFINE Accepted(x, held) == x.acc.framebuffer # Nil /\ "allocator" \in held
             Ends(x, held) == IF Accepted(x, held)
                              THEN [x EXCEPT !.acc.held = held, !.acc.started = TRUE]
                              ELSE AccelCleanup([x EXCEPT !.acc.held = held])
             Acquirable == {{}, {"iolock"}, {"iolock", "allocator"}, {"iolock", "allocator", "surface_root"}}
             Found(f) == [acc |-> [acc EXCEPT !.framebuffer = f], fb |-> [fb EXCEPT ![f].refs = @ + 1]]
  <2>1. patch' = patch /\ ~acc.started
    BY <1>8 DEF startAccel
  <2>2. acc.framebuffer = Nil /\ acc.held = {}
    BY <1>3, <2>1
  <2>3. PICK x \in findFramebuffer([acc |-> acc, fb |-> fb]), held \in Acquirable :
          acc' = Ends(x, held).acc /\ fb' = Ends(x, held).fb
    BY <1>8 DEF startAccel
  <2>4. held \in SUBSET {"iolock", "allocator", "surface_root"} /\ "vram_kernel_map" \notin held
    OBVIOUS
  <2>5. CASE x = [acc |-> acc, fb |-> fb]
    <3>1. x.acc.framebuffer = Nil /\ x.fb = fb /\ ~Accepted(x, held)
      BY <2>2, <2>5
    <3>2. [x EXCEPT !.acc.held = held].acc.framebuffer = Nil /\ [x EXCEPT !.acc.held = held].fb = fb
      BY <1>1, <2>2, <2>5 DEF AccType
    <3>3. Ends(x, held) = AccelCleanup([x EXCEPT !.acc.held = held])
      BY <3>1
    <3>4. acc' = Stopped /\ fb' = fb
      BY <2>3, <3>2, <3>3 DEF AccelCleanup
    <3> QED
      BY <2>1, <2>2, <3>4, AccelGone
  <2>6. CASE x # [acc |-> acc, fb |-> fb]
    <3>1. PICK f \in Framebuffers : Is(f, "VMsvga2") /\ x = Found(f)
      BY <2>3, <2>6 DEF findFramebuffer
    <3>2. fb[f].st # "none" /\ f # Nil
      BY <3>1, NilAssumption DEF Is
    <3>3. x.acc = [acc EXCEPT !.framebuffer = f] /\ x.fb = [fb EXCEPT ![f].refs = @ + 1]
      BY <3>1
    <3>4. x.acc.framebuffer = f /\ x.acc \in AccType
      BY <1>1, <3>3 DEF AccType
    <3>5. CASE Accepted(x, held)
      <4> DEFINE a == [x.acc EXCEPT !.held = held, !.started = TRUE]
                 y == Counts(fb[f], fb[f].refs + 1, fb[f].bar)
      <4>1. acc' = a
        BY <2>3, <3>1, <3>5
      <4>2. a \in AccType /\ a.framebuffer = f /\ a.started = TRUE /\ a.held = held
        BY <2>4, <3>4 DEF AccType
      <4>3. fb' = x.fb
        BY <2>3, <3>1, <3>5
      <4>4. [fb EXCEPT ![f].refs = @ + 1] = [fb EXCEPT ![f] = y]
        BY <1>1 DEF Counts, FBType
      <4>5. fb[f].refs + 1 \in Int
        BY <1>2
      <4>6. /\ y \in FBType /\ y.refs = fb[f].refs + 1 /\ y.bar = fb[f].bar
            /\ y.st = fb[f].st /\ y.driver = fb[f].driver /\ y.held = fb[f].held /\ y.ranges = fb[f].ranges
        BY <1>1, <1>2, <4>5, CountFields
      <4> HIDE DEF a, y
      <4>7. Accelerated(f) = 0 /\ Mapped(f) = 0 /\ Accelerated(f)' = 1 /\ Mapped(f)' = 0
        BY <2>2, <2>4, <3>2, <4>1, <4>2 DEF Accelerated, Mapped
      <4>8. y.refs - Accelerated(f)' = fb[f].refs - Accelerated(f) /\ y.bar - Mapped(f)' = fb[f].bar - Mapped(f)
        BY <1>2, <4>6, <4>7
      <4>9. /\ acc' \in AccType /\ acc'.framebuffer = f /\ acc'.started = (acc'.framebuffer # Nil)
            /\ fb' = [fb EXCEPT ![f] = y]
        BY <3>2, <3>3, <4>1, <4>2, <4>3, <4>4
      <4> QED
        BY <2>1, <2>2, <3>2, <4>6, <4>8, <4>9, AccelChanges
    <3>6. CASE ~Accepted(x, held)
      <4>1. [x EXCEPT !.acc.held = held].acc.framebuffer = f /\ [x EXCEPT !.acc.held = held].fb = x.fb
            /\ "vram_kernel_map" \notin [x EXCEPT !.acc.held = held].acc.held
        BY <1>1, <2>4, <3>1 DEF AccType
      <4>2. acc' = Stopped /\ fb' = [x.fb EXCEPT ![f].refs = @ - 1, ![f].bar = @ - 0]
        BY <2>3, <3>2, <3>6, <4>1 DEF AccelCleanup
      <4>3. [x.fb EXCEPT ![f].refs = @ - 1, ![f].bar = @ - 0] = fb
        <5>1. x.fb[f] = [fb[f] EXCEPT !.refs = fb[f].refs + 1] /\ x.fb \in [Framebuffers -> FBType]
          BY <1>1, <1>2, <3>3 DEF FBType
        <5>2. x.fb[f].refs = fb[f].refs + 1 /\ x.fb[f].bar = fb[f].bar
          BY <1>1, <5>1 DEF FBType
        <5>3. x.fb[f].refs - 1 = fb[f].refs /\ x.fb[f].bar - 0 = fb[f].bar
          BY <1>2, <5>2
        <5>4. [x.fb[f] EXCEPT !.refs = @ - 1, !.bar = @ - 0] = fb[f]
          BY <1>1, <5>1, <5>3 DEF FBType
        <5> QED
          BY <1>1, <3>3, <5>1, <5>4
      <4> QED
        BY <2>1, <2>2, <4>2, <4>3, AccelGone
    <3> QED
      BY <3>5, <3>6
  <2> QED
    BY <2>5, <2>6
<1> QED
  BY <1>5, <1>7, <1>8 DEF Accelerating

(* A step of the helper changes a framebuffer's references or a property,  *)
(* or nothing: what is left to say is whom the reference is for.           *)
HelperLeft ==
  /\ TypeFB' /\ DriverInv' /\ AccelInv'
  /\ \A g \in Framebuffers : fb[g].st # "none" => fb'[g].st # "none"

LEMMA HelperChanges ==
  ASSUME HeldInv, NEW f \in Framebuffers, NEW y \in FBType, fb' = [fb EXCEPT ![f] = y],
         y.st = fb[f].st, y.driver = fb[f].driver, y.held = fb[f].held, y.bar = fb[f].bar,
         y.ranges = fb[f].ranges, acc' = acc, patch' = patch,
         note' \in [Framebuffers -> {"none", "retained", "stored", "done"}],
         gFramebuffer' \in Framebuffers \cup {Nil},
         action' \in [pc : {"idle", "vram", "edid", "limits"}, fb : Framebuffers \cup {Nil}]
  PROVE  /\ HelperLeft
         /\ HelperRefs(f)' = HelperRefs(f) + (y.refs - fb[f].refs)
         /\ \A g \in Framebuffers \ {f} : HelperRefs(g)' = HelperRefs(g)
<1> USE DEF HeldInv
<1>1. fb \in [Framebuffers -> FBType]
  BY DEF TypeFB
<1>2. fb' \in [Framebuffers -> FBType] /\ fb'[f] = y /\ \A g \in Framebuffers \ {f} : fb'[g] = fb[g]
  BY <1>1
<1>3. TypeFB'
  BY <1>2 DEF TypeFB
<1>4. Sound(y) /\ BarCounted(y, Mapped(f))
  BY DEF DriverInv, Sound, BarCounted, Mapped
<1>5. DriverInv'
  BY <1>2, <1>4 DEF DriverInv, Mapped
<1>6. AccelInv'
  BY <1>2 DEF AccelInv, TypeFB, AccType
<1>7. fb[f].refs \in Int /\ y.refs \in Int
  BY <1>1 DEF FBType
<1>8. HelperRefs(f)' = HelperRefs(f) + (y.refs - fb[f].refs)
  BY <1>2, <1>7 DEF HelperRefs, Registered, Accelerated
<1>9. \A g \in Framebuffers \ {f} : HelperRefs(g)' = HelperRefs(g)
  BY <1>2 DEF HelperRefs, Accelerated
<1> QED
  BY <1>2, <1>3, <1>5, <1>6, <1>8, <1>9 DEF HelperLeft

LEMMA HelperOnly ==
  ASSUME HeldInv, fb' = fb, acc' = acc, patch' = patch,
         note' \in [Framebuffers -> {"none", "retained", "stored", "done"}],
         gFramebuffer' \in Framebuffers \cup {Nil},
         action' \in [pc : {"idle", "vram", "edid", "limits"}, fb : Framebuffers \cup {Nil}]
  PROVE  HelperLeft /\ \A g \in Framebuffers : HelperRefs(g)' = HelperRefs(g)
BY DEF HelperLeft, HeldInv, TypeFB, DriverInv, AccelInv, HelperRefs, Accelerated, Mapped

(* patchEDID and patchVRAM, at a framebuffer or at no one's. *)
LEMMA Patches ==
  ASSUME HeldInv, NEW f \in Framebuffers \cup {Nil}, fb' \in patchEDID(f) \cup patchVRAM(f),
         acc' = acc, patch' = patch,
         note' \in [Framebuffers -> {"none", "retained", "stored", "done"}],
         gFramebuffer' \in Framebuffers \cup {Nil},
         action' \in [pc : {"idle", "vram", "edid", "limits"}, fb : Framebuffers \cup {Nil}]
  PROVE  HelperLeft /\ \A g \in Framebuffers : HelperRefs(g)' = HelperRefs(g)
<1>1. fb \in [Framebuffers -> FBType]
  BY DEF HeldInv, TypeFB
<1>2. CASE fb' = fb
  BY <1>2, HelperOnly
<1>3. CASE fb' # fb
  <2>1. f \in Framebuffers
    BY <1>1, <1>3 DEF patchEDID, patchVRAM
  <2>2. PICK y \in {[fb[f] EXCEPT !.edid = TRUE], [fb[f] EXCEPT !.mem = "fixed"]} : fb' = [fb EXCEPT ![f] = y]
    BY <1>1, <1>3, <2>1 DEF patchEDID, patchVRAM
  <2>3. Plainly(fb[f], y)
    <3>1. Plainly(fb[f], [fb[f] EXCEPT !.edid = TRUE]) /\ Plainly(fb[f], [fb[f] EXCEPT !.mem = "fixed"])
      BY <1>1, <2>1, PlainFields
    <3> QED
      BY <2>2, <3>1
  <2>4. /\ y \in FBType /\ y.st = fb[f].st /\ y.driver = fb[f].driver /\ y.held = fb[f].held
        /\ y.bar = fb[f].bar /\ y.ranges = fb[f].ranges /\ y.refs = fb[f].refs
    BY <2>3 DEF Plainly
  <2>5. /\ HelperLeft
        /\ HelperRefs(f)' = HelperRefs(f) + (y.refs - fb[f].refs)
        /\ \A g \in Framebuffers \ {f} : HelperRefs(g)' = HelperRefs(g)
    BY <2>1, <2>2, <2>4, HelperChanges
  <2>6. HelperRefs(f) \in Int /\ y.refs - fb[f].refs = 0
    BY <1>1, <2>1, <2>4 DEF HeldInv, HelperInv, FBType
  <2> QED
    BY <2>5, <2>6
<1> QED
  BY <1>2, <1>3

LEMMA MatchingKeeps ==
  ASSUME HeldInv, NEW f \in Framebuffers, Matching(f)
  PROVE  HeldInv'
<1> DEFINE Notes == [Framebuffers -> {"none", "retained", "stored", "done"}]
           Actions == [pc : {"idle", "vram", "edid", "limits"}, fb : Framebuffers \cup {Nil}]
<1>1. /\ fb \in [Framebuffers -> FBType] /\ note \in Notes /\ action \in Actions
      /\ gFramebuffer \in Framebuffers \cup {Nil} /\ fb[f].refs \in Int
  BY DEF HeldInv, TypeFB, FBType
<1>2. ASSUME matchedRetain(f) PROVE HeldInv'
  <2> DEFINE y == [fb[f] EXCEPT !.refs = @ + 1]
  <2>1. /\ y \in FBType /\ y.refs = fb[f].refs + 1 /\ y.st = fb[f].st /\ y.driver = fb[f].driver
        /\ y.held = fb[f].held /\ y.bar = fb[f].bar /\ y.ranges = fb[f].ranges
    BY <1>1 DEF FBType
  <2>2. fb' = [fb EXCEPT ![f] = y]
    BY <1>2 DEF matchedRetain
  <2> HIDE DEF y
  <2>3. /\ note' = [note EXCEPT ![f] = "retained"] /\ note[f] = "none" /\ fb[f].st = "started"
        /\ acc' = acc /\ patch' = patch /\ gFramebuffer' = gFramebuffer /\ action' = action
    BY <1>2 DEF matchedRetain
  <2>4. note' \in Notes
    BY <1>1, <2>3
  <2>5. /\ HelperLeft /\ HelperRefs(f)' = HelperRefs(f) + (y.refs - fb[f].refs)
        /\ \A g \in Framebuffers \ {f} : HelperRefs(g)' = HelperRefs(g)
    BY <1>1, <2>1, <2>2, <2>3, <2>4, HelperChanges, ZenonT(60)
  <2>6. HelperRefs(f)' = 1 /\ gFramebuffer # f /\ action.fb # f
    <3>1. HelperRefs(f) = 0 /\ gFramebuffer # f
      BY <2>3 DEF HeldInv, HelperInv
    <3>2. action.fb # f
      BY <3>1 DEF HeldInv, HelperInv
    <3> QED
      BY <1>1, <2>1, <2>5, <3>1, <3>2
  <2>7. HelperInv'
    BY <1>1, <2>3, <2>5, <2>6 DEF HeldInv, HelperInv, HelperLeft
  <2> QED
    BY <2>5, <2>7 DEF HeldInv, HelperLeft
<1>3. ASSUME matchedStore(f) PROVE HeldInv'
  <2>1. /\ note' = [note EXCEPT ![f] = "stored"] /\ note[f] = "retained" /\ gFramebuffer' = f
        /\ fb' = fb /\ acc' = acc /\ patch' = patch /\ action' = action
    BY <1>3 DEF matchedStore, fbVars
  <2>2. note' \in Notes
    BY <1>1, <2>1
  <2>3. HelperLeft /\ \A g \in Framebuffers : HelperRefs(g)' = HelperRefs(g)
    BY <1>1, <2>1, <2>2, HelperOnly
  <2>4. HelperRefs(f) = 1 /\ fb[f].st # "none"
    BY <2>1 DEF HeldInv, HelperInv
  <2>5. HelperInv'
    BY <1>1, <2>1, <2>3, <2>4 DEF HeldInv, HelperInv, HelperLeft
  <2> QED
    BY <2>3, <2>5 DEF HeldInv, HelperLeft
<1>4. ASSUME matchedPatch(f) PROVE HeldInv'
  <2>1. /\ note' = [note EXCEPT ![f] = "done"] /\ note[f] = "stored" /\ fb' \in patchEDID(f)
        /\ acc' = acc /\ patch' = patch /\ gFramebuffer' = gFramebuffer /\ action' = action
    BY <1>4 DEF matchedPatch
  <2>2. note' \in Notes
    BY <1>1, <2>1
  <2>3. HelperLeft /\ \A g \in Framebuffers : HelperRefs(g)' = HelperRefs(g)
    BY <1>1, <2>1, <2>2, Patches
  <2>4. HelperInv'
    BY <1>1, <2>1, <2>3 DEF HeldInv, HelperInv, HelperLeft
  <2> QED
    BY <2>3, <2>4 DEF HeldInv, HelperLeft
<1> QED
  BY <1>2, <1>3, <1>4 DEF Matching

LEMMA TimerKeeps ==
  ASSUME HeldInv, TimerAction \/ stopRelease \/ \E f \in Framebuffers : displayConnectMatched(f)
  PROVE  HeldInv'
<1> DEFINE Actions == [pc : {"idle", "vram", "edid", "limits"}, fb : Framebuffers \cup {Nil}]
<1>1. /\ fb \in [Framebuffers -> FBType] /\ action \in Actions
      /\ note \in [Framebuffers -> {"none", "retained", "stored", "done"}]
      /\ gFramebuffer \in Framebuffers \cup {Nil}
  BY DEF HeldInv, TypeFB
<1>2. Idle \in Actions /\ Idle.fb = Nil
  BY DEF Idle
<1>3. \A pc \in {"vram", "edid", "limits"}, f \in Framebuffers \cup {Nil} :
        [pc |-> pc, fb |-> f] \in Actions
  OBVIOUS
\* What is left is to see whom the pointer that the action has read names.
<1>4. ASSUME HelperLeft, \A g \in Framebuffers : HelperRefs(g)' = HelperRefs(g),
             gFramebuffer' = gFramebuffer, note' = note,
             action'.fb \in {action.fb, gFramebuffer, Nil}
      PROVE  HeldInv'
  <2>1. HelperInv'
    BY <1>4, NilAssumption DEF HeldInv, HelperInv, HelperLeft
  <2> QED
    BY <1>4, <2>1 DEF HeldInv, HelperLeft
<1>5. ASSUME timerFired \/ actionEnd PROVE HeldInv'
  <2>1. fb' = fb /\ acc' = acc /\ patch' = patch /\ note' = note /\ gFramebuffer' = gFramebuffer
    BY <1>5 DEF timerFired, actionEnd, fbVars
  <2>2. action' = action \/ action' = [pc |-> "vram", fb |-> gFramebuffer] \/ action' = Idle
    BY <1>5 DEF timerFired, actionEnd
  <2>3. action' \in Actions /\ action'.fb \in {action.fb, gFramebuffer, Nil}
    BY <1>1, <1>2, <1>3, <2>2
  <2>4. HelperLeft /\ \A g \in Framebuffers : HelperRefs(g)' = HelperRefs(g)
    BY <1>1, <2>1, <2>3, HelperOnly
  <2> QED
    BY <1>4, <2>1, <2>3, <2>4
<1>6. ASSUME actionVRAM \/ actionEDID PROVE HeldInv'
  <2>1. /\ fb' \in patchEDID(action.fb) \cup patchVRAM(action.fb)
        /\ acc' = acc /\ patch' = patch /\ note' = note /\ gFramebuffer' = gFramebuffer
    BY <1>6 DEF actionVRAM, actionEDID
  <2>2. action' = [pc |-> "edid", fb |-> gFramebuffer] \/ action' = [pc |-> "limits", fb |-> Nil]
    BY <1>6 DEF actionVRAM, actionEDID
  <2>3. action' \in Actions /\ action'.fb \in {action.fb, gFramebuffer, Nil}
    BY <1>1, <1>3, <2>2
  <2>4. action.fb \in Framebuffers \cup {Nil}
    BY <1>1
  <2>5. HelperLeft /\ \A g \in Framebuffers : HelperRefs(g)' = HelperRefs(g)
    BY <1>1, <2>1, <2>3, <2>4, Patches
  <2> QED
    BY <1>4, <2>1, <2>3, <2>5
<1>7. ASSUME NEW f \in Framebuffers, displayConnectMatched(f) PROVE HeldInv'
  <2>1. /\ fb' \in patchEDID(f) /\ acc' = acc /\ patch' = patch /\ note' = note
        /\ gFramebuffer' = gFramebuffer /\ action' = action
    BY <1>7 DEF displayConnectMatched, helperVars
  <2>2. HelperLeft /\ \A g \in Framebuffers : HelperRefs(g)' = HelperRefs(g)
    BY <1>1, <2>1, Patches
  <2> QED
    BY <1>4, <2>1, <2>2
<1>8. ASSUME stopRelease PROVE HeldInv'
  <2>1. /\ action = Idle /\ action' = action /\ gFramebuffer' = Nil /\ note' = note
        /\ acc' = acc /\ patch' = patch
        /\ fb' = IF gFramebuffer = Nil THEN fb ELSE [fb EXCEPT ![gFramebuffer].refs = @ - 1]
    BY <1>8 DEF stopRelease
  <2>2. CASE gFramebuffer = Nil
    <3>1. fb' = fb /\ gFramebuffer' = gFramebuffer
      BY <2>1, <2>2
    <3>2. HelperLeft /\ \A g \in Framebuffers : HelperRefs(g)' = HelperRefs(g)
      BY <1>1, <2>1, <3>1, HelperOnly
    <3> QED
      BY <1>4, <2>1, <3>1, <3>2
  <2>3. CASE gFramebuffer # Nil
    <3>1. PICK f \in Framebuffers : f = gFramebuffer
      BY <1>1, <2>3
    <3> DEFINE y == [fb[f] EXCEPT !.refs = @ - 1]
    <3>2. /\ y \in FBType /\ y.refs = fb[f].refs - 1 /\ y.st = fb[f].st /\ y.driver = fb[f].driver
          /\ y.held = fb[f].held /\ y.bar = fb[f].bar /\ y.ranges = fb[f].ranges
      BY <1>1 DEF FBType
    <3>3. fb' = [fb EXCEPT ![f] = y]
      BY <2>1, <2>3, <3>1
    <3> HIDE DEF y
    <3>4. /\ HelperLeft /\ HelperRefs(f)' = HelperRefs(f) + (y.refs - fb[f].refs)
          /\ \A g \in Framebuffers \ {f} : HelperRefs(g)' = HelperRefs(g)
      BY <1>1, <2>1, <3>2, <3>3, HelperChanges
    <3>5. HelperRefs(f) = 1 /\ note[f] \in {"stored", "done"} /\ fb[f].refs \in Int
      BY <1>1, <3>1 DEF HeldInv, HelperInv, FBType
    <3>6. HelperRefs(f)' = 0
      BY <3>2, <3>4, <3>5
    <3>7. HelperInv'
      BY <1>2, <2>1, <3>4, <3>5, <3>6, NilAssumption DEF HeldInv, HelperInv, HelperLeft
    <3> QED
      BY <3>4, <3>7 DEF HeldInv, HelperLeft
  <2> QED
    BY <2>2, <2>3
<1> QED
  BY <1>5, <1>6, <1>7, <1>8 DEF TimerAction

LEMMA HeldKept == HeldInv /\ [Next]_vars => HeldInv'
<1> SUFFICES ASSUME HeldInv, [Next]_vars PROVE HeldInv'
  OBVIOUS
<1>1. patch \in PatchType
  BY DEF HeldInv, TypeFB
<1>2. ASSUME NextDrivers PROVE HeldInv'
  <2>1. gFramebuffer' = gFramebuffer /\ action' = action /\ note' = note
    BY <1>2 DEF NextDrivers, helperVars
  <2>2. ASSUME NEW f \in Framebuffers, Starting(f, Drivers) PROVE HeldInv'
    BY <2>1, <2>2, StartingKeeps
  <2>3. ASSUME NEW f \in Framebuffers, Stopping(f) PROVE HeldInv'
    BY <2>1, <2>3, StoppingKeeps
  <2>4. ASSUME NEW f \in Framebuffers, Configuring(f) PROVE HeldInv'
    BY <2>1, <2>4, ConfiguringKeeps
  <2>5. ASSUME NEW f \in Framebuffers, Using(f) PROVE HeldInv'
    BY <2>1, <2>5, UsingKeeps
  <2>6. ASSUME qdp_start PROVE HeldInv'
    BY <1>1, <2>1, <2>6, PatchFields, NoneChanges DEF qdp_start
  <2>7. ASSUME Accelerating PROVE HeldInv'
    BY <2>1, <2>7, AcceleratingKeeps
  <2> QED
    BY <1>2, <2>2, <2>3, <2>4, <2>5, <2>6, <2>7 DEF NextDrivers
<1>3. ASSUME NextHelper PROVE HeldInv'
  <2>1. ASSUME startHelper \/ stopCancel PROVE HeldInv'
    BY <1>1, <2>1, NoneChanges DEF startHelper, stopCancel, fbVars
  <2>2. ASSUME TimerAction \/ stopRelease \/ \E f \in Framebuffers : displayConnectMatched(f)
        PROVE  HeldInv'
    BY <2>2, TimerKeeps
  <2>3. ASSUME NEW f \in Framebuffers, Matching(f) PROVE HeldInv'
    BY <2>3, MatchingKeeps
  <2>4. ASSUME NEW f \in Framebuffers, Stopping_(f) PROVE HeldInv'
    BY <2>4, StoppingKeeps DEF Stopping_, helperVars
  <2>5. ASSUME NEW f \in Framebuffers, Starting(f, MatchedDrivers), UNCHANGED helperVars PROVE HeldInv'
    BY <2>5, StartingKeeps DEF helperVars
  <2>6. ASSUME NEW f \in Framebuffers, Configuring(f), UNCHANGED helperVars PROVE HeldInv'
    BY <2>6, ConfiguringKeeps DEF helperVars
  <2>7. ASSUME qdp_start, UNCHANGED helperVars PROVE HeldInv'
    BY <1>1, <2>7, PatchFields, NoneChanges DEF qdp_start, helperVars
  <2> QED
    BY <1>3, <2>1, <2>2, <2>3, <2>4, <2>5, <2>6, <2>7 DEF NextHelper
<1>4. ASSUME UNCHANGED <<fbVars, helperVars>> PROVE HeldInv'
  BY <1>1, <1>4, NoneChanges DEF fbVars, helperVars
<1> QED
  BY <1>2, <1>3, <1>4 DEF Next, PlugInStep, ClientStep, DriverStep, HelperStep, CopyStep, vars

(* A framebuffer has the references of the registry, of the accelerator    *)
(* and at most one of QEMUHelper, which covers every pointer the helper    *)
(* keeps, however drivers start, fail, stop, hand out ranges of BAR1 and   *)
(* are matched while the timer's action runs.                              *)
THEOREM FramebuffersHeld == Spec => []FramebufferHeld
<1>1. Init => HeldInv
  BY InitHeld DEF Init
<1> QED
  BY <1>1, HeldKept, HeldMeans, PTL DEF Spec

-----------------------------------------------------------------------------
(* Clipping, for coordinates and words of any width: where no store wraps, *)
(* the rectangle left is the part of it that lies in the buffer.           *)

LEMMA ModSmall == ASSUME NEW a \in Nat, NEW b \in Nat, a < b PROVE a % b = a
  BY SMT

\* Storing a number that fits changes nothing.
LEMMA Int16Small == ASSUME NEW n \in Coordinates PROVE Int16(n) = n
  <1>1. n + Half \in Nat /\ 2 * Half \in Nat /\ n + Half < 2 * Half
    BY HalfAssumption DEF Coordinates
  <1>2. (n + Half) % (2 * Half) = n + Half
    BY <1>1, ModSmall
  <1> QED BY <1>2, HalfAssumption DEF Int16, Coordinates

\* Storing any number gives one that fits.
LEMMA Int16Type == ASSUME NEW n \in Int PROVE Int16(n) \in Coordinates
  BY HalfAssumption, SMT DEF Int16, Coordinates

LEMMA ModRange == ASSUME NEW a \in Int, NEW b \in Nat \ {0} PROVE a % b \in 0..(b - 1)
  BY SMT

LEMMA Int32Small == ASSUME NEW n \in Ints PROVE Int32(n) = n
  <1>1. n + HalfWord \in Nat /\ Word \in Nat /\ n + HalfWord < Word
    BY HalfAssumption DEF Ints, Word
  <1>2. (n + HalfWord) % Word = n + HalfWord
    BY <1>1, ModSmall
  <1> QED BY <1>2, HalfAssumption DEF Int32, Ints

LEMMA Int32Type == ASSUME NEW n \in Int PROVE Int32(n) \in Int
  <1>1. Word \in Nat \ {0} /\ HalfWord \in Int
    BY HalfAssumption DEF Word
  <1>2. (n + HalfWord) % Word \in 0..(Word - 1)
    BY <1>1, ModRange
  <1> QED BY <1>1, <1>2 DEF Int32

LEMMA SpanType ==
  ASSUME NEW pos \in Int, NEW len \in Int, NEW delta \in Int, NEW size \in Int
  PROVE  LET c == ClipSpan(pos, len, delta, size) IN c.pos \in Int /\ c.len \in Int
<1> DEFINE x == Int32(pos + delta)
           at == IF x < 0 THEN 0 ELSE x
           rest == IF x < 0 THEN Int16(len + x) ELSE len
           end == IF Int32(at + rest) > size THEN Int16(size - at) ELSE rest
<1>1. x \in Int
  BY Int32Type
<1> HIDE DEF x
<1>2. ASSUME NEW n \in Int PROVE Int16(n) \in Int
  BY Int16Type, HalfAssumption DEF Coordinates
<1>3. at \in Int /\ rest \in Int
  BY <1>1, <1>2
<1> HIDE DEF at, rest
<1>4. end \in Int
  BY <1>2, <1>3
<1> HIDE DEF end
<1>5. /\ ClipSpan(pos, len, delta, size).pos = IF x < 0 THEN Int16(-delta) ELSE pos
      /\ ClipSpan(pos, len, delta, size).len = IF end < 0 THEN 0 ELSE end
  BY DEF ClipSpan, x, at, rest, end
<1> QED
  BY <1>2, <1>4, <1>5

\* clipRegionToBuffer on one axis: of a span, exactly the points remain that
\* the shift takes into the buffer, where no number on the way wraps.
LEMMA ClipSpanExact ==
  ASSUME NEW pos \in Coordinates, NEW len \in Coordinates, NEW delta \in Int,
         NEW size \in Coordinates, SpanFits(pos, len, delta, size),
         NEW c, c = ClipSpan(pos, len, delta, size)
  PROVE  /\ c.pos \in Int /\ c.len \in Nat
         /\ \A p \in Int : (c.pos <= p /\ p < c.pos + c.len)
                             <=> (/\ pos <= p /\ p < pos + len
                                  /\ 0 <= p + delta /\ p + delta < size)
<1> DEFINE x == pos + delta
<1>0. pos \in Int /\ len \in Int /\ size \in Int /\ x \in Int
  BY HalfAssumption DEF Coordinates
<1>1. x \in Ints /\ Int32(pos + delta) = x
  BY Int32Small DEF SpanFits
<1>2. CASE x < 0
  <2> DEFINE rest == len + x
  <2>1. rest \in Coordinates /\ -delta \in Coordinates /\ 0 + rest \in Ints
    BY <1>2 DEF SpanFits
  <2>2. Int16(len + x) = rest /\ Int16(-delta) = -delta /\ Int32(0 + rest) = rest
    BY <2>1, <1>0, Int16Small, Int32Small
  <2>3. Int16(size - 0) = size
    BY <1>0, Int16Small
  <2>4. c.pos = -delta /\ c.len = IF rest > size THEN (IF size < 0 THEN 0 ELSE size)
                                  ELSE IF rest < 0 THEN 0 ELSE rest
    <3> HIDE DEF x, rest
    <3> QED BY <1>1, <1>2, <2>2, <2>3 DEF ClipSpan
  <2> QED BY <1>0, <1>2, <2>4
<1>3. CASE ~(x < 0)
  <2> DEFINE end == size - x
  <2>1. Int32(x + len) = x + len
    BY <1>3, Int32Small DEF SpanFits
  <2>2. x + len > size => Int16(size - x) = end
    BY <1>3, Int16Small DEF SpanFits
  <2>3. c.pos = pos /\ c.len = IF x + len > size THEN (IF end < 0 THEN 0 ELSE end)
                               ELSE IF len < 0 THEN 0 ELSE len
    <3> HIDE DEF x, end
    <3> QED BY <1>1, <1>3, <2>1, <2>2 DEF ClipSpan
  <2> QED BY <1>0, <1>3, <2>3
<1> QED BY <1>2, <1>3

LEMMA InPixels ==
  ASSUME NEW r, r.x \in Int, r.w \in Int, r.y \in Int, r.h \in Int,
         NEW x \in Int, NEW y \in Int
  PROVE  <<x, y>> \in Pixels(r) <=> /\ r.x <= x /\ x < r.x + r.w
                                   /\ r.y <= y /\ y < r.y + r.h
  BY DEF Pixels

IsRect(r) == r.x \in Int /\ r.y \in Int /\ r.w \in Int /\ r.h \in Int

LEMMA BoxType ==
  ASSUME NEW r \in Boxes
  PROVE  /\ IsRect(r) /\ r.x \in Coordinates /\ r.y \in Coordinates
         /\ r.w \in Coordinates /\ r.h \in Coordinates
BY HalfAssumption DEF Boxes, IsRect, Coordinates

\* What clipRegionToBuffer leaves of a rectangle is, pixel for pixel, the part
\* of it that the shift takes into the buffer of the surface, for rectangles
\* and buffers of any sizes, negative ones too, where no store or sum wraps.
THEOREM ClipExact ==
  ASSUME NEW rects, NEW i \in DOMAIN rects, rects[i] \in Boxes,
         NEW delta \in Int \X Int, NEW s, s.bw \in Coordinates, s.bh \in Coordinates,
         SpanFits(rects[i].x, rects[i].w, delta[1], s.bw),
         SpanFits(rects[i].y, rects[i].h, delta[2], s.bh),
         NEW r, r = clipRegionToBuffer(rects, delta, s)[i]
  PROVE  IsRect(r) /\ Pixels(r) = InBuffer(Pixels(rects[i]), delta, s)
<1> DEFINE q == rects[i]
           h == ClipSpan(q.x, q.w, delta[1], s.bw)
           v == ClipSpan(q.y, q.h, delta[2], s.bh)
<1>1. r.x = h.pos /\ r.w = h.len /\ r.y = v.pos /\ r.h = v.len
  BY DEF clipRegionToBuffer
<1>0. /\ IsRect(q) /\ q.x \in Coordinates /\ q.y \in Coordinates
      /\ q.w \in Coordinates /\ q.h \in Coordinates /\ delta[1] \in Int /\ delta[2] \in Int
  BY BoxType
<1>2. /\ h.pos \in Int /\ h.len \in Nat
      /\ \A p \in Int : (h.pos <= p /\ p < h.pos + h.len)
                         <=> (/\ q.x <= p /\ p < q.x + q.w
                              /\ 0 <= p + delta[1] /\ p + delta[1] < s.bw)
  <2> HIDE DEF h
  <2> QED BY <1>0, ClipSpanExact DEF h
<1>3. /\ v.pos \in Int /\ v.len \in Nat
      /\ \A p \in Int : (v.pos <= p /\ p < v.pos + v.len)
                         <=> (/\ q.y <= p /\ p < q.y + q.h
                              /\ 0 <= p + delta[2] /\ p + delta[2] < s.bh)
  <2> HIDE DEF v
  <2> QED BY <1>0, ClipSpanExact DEF v
<1>4. /\ r.x \in Int /\ r.w \in Int /\ r.y \in Int /\ r.h \in Int
      /\ q.x \in Int /\ q.w \in Int /\ q.y \in Int /\ q.h \in Int
  BY <1>0, <1>1, <1>2, <1>3 DEF IsRect
<1>5. ASSUME NEW x \in Int, NEW y \in Int
      PROVE  <<x, y>> \in Pixels(r) <=> <<x, y>> \in InBuffer(Pixels(q), delta, s)
  <2>1. <<x, y>> \in Pixels(r) <=> /\ r.x <= x /\ x < r.x + r.w
                                   /\ r.y <= y /\ y < r.y + r.h
    BY <1>4, InPixels
  <2>2. <<x, y>> \in Pixels(q) <=> /\ q.x <= x /\ x < q.x + q.w
                                   /\ q.y <= y /\ y < q.y + q.h
    BY <1>4, InPixels
  <2>3. InBox(<<x + delta[1], y + delta[2]>>, s.bw, s.bh)
          <=> /\ 0 <= x + delta[1] /\ x + delta[1] < s.bw
              /\ 0 <= y + delta[2] /\ y + delta[2] < s.bh
    BY <1>0, HalfAssumption DEF InBox, Coordinates
  <2> QED BY <1>1, <1>2, <1>3, <2>1, <2>2, <2>3 DEF InBuffer
<1>6. Pixels(r) \subseteq Int \X Int /\ Pixels(q) \subseteq Int \X Int
  BY <1>4 DEF Pixels
<1> QED BY <1>4, <1>5, <1>6 DEF InBuffer, IsRect

-----------------------------------------------------------------------------
(* Images.  The limit of one is the end of its memory, unless it starts    *)
(* behind it.                                                              *)

IsImage(image) ==
  /\ image.base \in Nat /\ image.limit \in Nat /\ image.end \in Nat /\ image.pitch \in Nat
  /\ image.base <= image.end => image.limit = image.end
IsShift(delta) == delta[1] \in Int /\ delta[2] \in Int

LEMMA WordType == Word \in Nat \ {0} /\ Half \in Nat /\ Coordinates \subseteq Int /\ Ints \subseteq Int
BY HalfAssumption DEF Word, Coordinates, Ints

LEMMA RoundUpType == ASSUME NEW n \in Nat PROVE RoundUp(n) \in 0..(Word - 1)
<1>1. PageSize \in Nat \ {0}
  BY ShapeAssumption
<1> DEFINE q == (n + PageSize - 1) \div PageSize
<1>2. n + PageSize - 1 \in Int
  BY <1>1
<1>3. q \in Int
  BY <1>1, <1>2, SMT
<1> HIDE DEF q
<1>4. q * PageSize \in Int
  BY <1>1, <1>3
<1>5. RoundUp(n) = (q * PageSize) % Word
  BY DEF RoundUp, q
<1> QED
  BY <1>4, <1>5, ModRange, WordType

LEMMA ScaleType ==
  ASSUME NEW s \in Shapes
  PROVE  LET p == calculateScaleParameters(s)
         IN  p.size \in 0..(Word - 1) /\ p.pitch \in Nat /\ p.offset \in Nat
<1> DEFINE p == calculateScaleParameters(s)
           screen == Screen.h * Screen.pitch
<1>0. /\ {s.w, s.h, s.x, s.y, s.bw, s.bh} \subseteq Coordinates
      /\ {s.rowbytes, s.length, s.backing} \subseteq 0..(Word - 1)
      /\ s.residue \in Nat /\ Screen.pitch \in Nat /\ Screen.h \in Nat
  BY ShapeAssumption
<1>1. /\ s.rowbytes \in Nat /\ s.length \in Nat
      /\ s.residue \in Nat /\ Screen.pitch \in Nat /\ Screen.h \in Nat
  BY <1>0, WordType
<1>2. s.w \in Int /\ s.h \in Int /\ s.x \in Int /\ s.y \in Int
  BY <1>0, WordType
<1>3. screen \in Nat
  BY <1>1, SMT
<1>4. s.w % Word \in Nat
  BY <1>2, ModRange, WordType
<1>5. p.pitch \in Nat
  BY <1>1, <1>4 DEF calculateScaleParameters, getScreenInfo
<1>6. (s.h * (s.w % Word)) % Word \in Nat
  <2> DEFINE rows == s.w % Word
             size == s.h * rows
  <2>1. size \in Int
    <3>1. rows \in Int /\ s.h \in Int
      BY <1>2, <1>4
    <3> HIDE DEF rows
    <3> QED BY <3>1
  <2> HIDE DEF size
  <2>2. size % Word \in Nat
    BY <2>1, ModRange, WordType
  <2> QED BY <2>2 DEF size
<1>7. (s.length + s.residue) % Word \in Nat
  <2> DEFINE size == s.length + s.residue
  <2>1. size \in Int
    BY <1>1
  <2> HIDE DEF size
  <2>2. size % Word \in Nat
    BY <2>1, ModRange, WordType
  <2> QED BY <2>2 DEF size
<1>8. p.size \in 0..(Word - 1)
  BY <1>3, <1>6, <1>7, RoundUpType DEF calculateScaleParameters, getScreenInfo
<1>9. p.offset = (s.y * p.pitch + s.x) % Word
  BY DEF calculateScaleParameters
<1> HIDE DEF p
<1> DEFINE first == s.y * p.pitch + s.x
<1>10. first \in Int
  BY <1>2, <1>5
<1> HIDE DEF first
<1>11. first % Word \in Nat
  BY <1>10, ModRange, WordType
<1>12. p.offset \in Nat
  BY <1>9, <1>11 DEF first
<1> QED
  BY <1>5, <1>8, <1>12 DEF p

LEMMA SurfaceImage ==
  ASSUME NEW s \in Shapes, NEW size \in 0..(Word - 1)
  PROVE  IsImage(obtainKernelPtrs(s, size))
<1> DEFINE p == calculateScaleParameters(s)
           t == s.residue + p.offset
           image == obtainKernelPtrs(s, size)
<1>1. p.pitch \in Nat /\ t \in Nat /\ size \in Nat /\ size < Word
  BY ScaleType, ShapeAssumption, WordType
<1>2. /\ image.base = t /\ image.limit = t + ((size - t) % Word)
      /\ image.pitch = p.pitch /\ image.end = size
  BY DEF obtainKernelPtrs
<1> HIDE DEF p, t, image
<1>3. (size - t) % Word \in Nat
  BY <1>1, ModRange, WordType
<1>4. t <= size => (size - t) % Word = size - t
  BY <1>1, ModSmall, WordType
<1> QED
  BY <1>1, <1>2, <1>3, <1>4 DEF IsImage, image

LEMMA Backings ==
  ASSUME NEW s \in Shapes
  PROVE  allocBacking(s) \in 0..(Word - 1) /\ s.backing \in 0..(Word - 1)
BY ScaleType, ShapeAssumption DEF allocBacking

LEMMA ScreenImage == IsImage(GFBImage)
<1>1. Screen.pitch \in Nat /\ Screen.h \in Nat /\ Screen.h * Screen.pitch \in Nat
  BY ShapeAssumption, SMT
<1> QED
  BY <1>1 DEF GFBImage, IsImage

LEMMA StartType ==
  ASSUME NEW image, IsImage(image), NEW delta, IsShift(delta), NEW r, IsRect(r)
  PROVE  Start(image, delta, r) \in Int
<1> DEFINE y == Int32(r.y + delta[2])
<1>1. y \in Int /\ Int32(r.x + delta[1]) \in Int
  BY Int32Type DEF IsShift, IsRect
<1> HIDE DEF y
<1>2. y * image.pitch \in Int
  BY <1>1 DEF IsImage
<1>3. (y * image.pitch) % Word \in Nat
  BY <1>2, ModRange, WordType
<1> QED
  BY <1>1, <1>3 DEF Start, IsImage, y

LEMMA AddressRight ==
  ASSUME NEW image, IsImage(image), NEW delta, IsShift(delta),
         NEW x \in Int, NEW y \in Int, NEW k \in Int
  PROVE  /\ Address(image, delta, x, y) \in Int
         /\ Address(image, delta, x + k, y) = Address(image, delta, x, y) + k
<1>1. image.pitch \in Int /\ image.base \in Int /\ delta[2] \in Int /\ delta[1] \in Int
  BY DEF IsImage, IsShift
<1>2. (y + delta[2]) * image.pitch \in Int
  BY <1>1
<1> QED
  BY <1>1, <1>2 DEF Address

LEMMA AddressDown ==
  ASSUME NEW image, IsImage(image), NEW delta, IsShift(delta), NEW x \in Int, NEW y \in Int
  PROVE  Address(image, delta, x, y + 1) = Address(image, delta, x, y) + image.pitch
<1> DEFINE p == image.pitch
           d == delta[2]
<1>1. p \in Int /\ image.base \in Int /\ d \in Int /\ delta[1] \in Int
  BY DEF IsImage, IsShift
<1> HIDE DEF p, d
<1>2. (y + 1 + d) * p = (y + d) * p + p /\ (y + d) * p \in Int
  BY <1>1, SMT
<1> QED
  BY <1>1, <1>2 DEF Address, p, d

-----------------------------------------------------------------------------
(* The loop over rectangles and rows.                                      *)

\* Row j of a rectangle lies in the memory of both sides.
RowFits(ask, r, j) ==
  /\ Within(Address(ask.dst, ask.dstDelta, r.x, r.y + j), r.w, ask.dst)
  /\ Within(Address(ask.src, ask.srcDelta, r.x, r.y + j), r.w, ask.src)

AllMoves(ask, P) == {Move(ask, p) : p \in P}

IsWay(ask) == /\ IsImage(ask.dst) /\ IsImage(ask.src)
              /\ IsShift(ask.dstDelta) /\ IsShift(ask.srcDelta)

\* The images and rectangles of a copy; what is wanted of one that fits.
CopyReady(ask, rects) ==
  /\ IsWay(ask)
  /\ Len(rects) \in Nat /\ DOMAIN rects = 1..Len(rects)
  /\ \A i \in DOMAIN rects : IsRect(rects[i])
  /\ ask.fits =>
       /\ ask.dst.limit = ask.dst.end /\ ask.src.limit = ask.src.end
       /\ ask.wanted = UNION {StoredRows(ask, Pixels(rects[i])) : i \in DOMAIN rects}
       /\ \A i \in DOMAIN rects : LET r == rects[i] IN
            ~IsEmpty(r) => /\ Start(ask.dst, ask.dstDelta, r) = Address(ask.dst, ask.dstDelta, r.x, r.y)
                           /\ Start(ask.src, ask.srcDelta, r) = Address(ask.src, ask.srcDelta, r.x, r.y)

IsCopy(b) ==
  /\ DOMAIN b = {"st", "ask", "rects", "at", "row", "to", "from", "copied"}
  /\ b.st = "copy"

\* The rectangle is not empty and the row is one of its rows.
OnRow(b) ==
  /\ b.at \in 1..(Len(b.rects) + 1)
  /\ b.at <= Len(b.rects) => LET r == b.rects[b.at] IN
       ~IsEmpty(r) /\ b.row \in 0..(r.h - 1) /\ b.to \in Int /\ b.from \in Int

Contained(b) ==
  \A move \in b.copied :
    /\ b.ask.dst.base <= b.ask.dst.end => move[1] \in b.ask.dst.base..(b.ask.dst.end - 1)
    /\ b.ask.src.base <= b.ask.src.end => move[2] \in b.ask.src.base..(b.ask.src.end - 1)

\* The part of what is wanted that has been copied when the rectangles before
\* the i-th and j rows of that one are done.
Done(b, i, j) ==
  {p \in b.ask.wanted : \E m \in DOMAIN b.rects :
     /\ p \in StoredRows(b.ask, Pixels(b.rects[m]))
     /\ m < i \/ (m = i /\ p[2] < b.rects[m].y + j)}

\* The addresses are those of the row, or of the first row that did not fit
\* and was passed over; what was copied is what comes before.
InRow(b) ==
  /\ b.at <= Len(b.rects) => LET r == b.rects[b.at] IN
       \E k \in 0..b.row :
         /\ \A i \in 0..(k - 1) : RowFits(b.ask, r, i)
         /\ k < b.row => ~RowFits(b.ask, r, k)
         /\ b.to = Address(b.ask.dst, b.ask.dstDelta, r.x, r.y + k)
         /\ b.from = Address(b.ask.src, b.ask.srcDelta, r.x, r.y + k)
  /\ b.copied = AllMoves(b.ask, Done(b, b.at, b.row))

Copying(b) == /\ IsCopy(b) /\ CopyReady(b.ask, b.rects) /\ OnRow(b) /\ Contained(b)
              /\ b.ask.fits => InRow(b)

CopyInv == blit = NoBlit \/ Copying(blit)

LEMMA PixelIn ==
  ASSUME NEW r, IsRect(r), NEW p \in Pixels(r)
  PROVE  /\ p[1] \in Int /\ r.x <= p[1] /\ p[1] < r.x + r.w
         /\ p[2] \in Int /\ r.y <= p[2] /\ p[2] < r.y + r.h
         /\ p = <<p[1], p[2]>>
BY DEF IsRect, Pixels

\* Along a row both addresses advance by one.
LEMMA MoveRight ==
  ASSUME NEW ask, IsWay(ask), NEW r, IsRect(r), NEW j \in Int, NEW k \in Int
  PROVE  LET to == Address(ask.dst, ask.dstDelta, r.x, r.y + j)
             from == Address(ask.src, ask.srcDelta, r.x, r.y + j)
         IN  /\ to \in Int /\ from \in Int
             /\ Move(ask, <<r.x + k, r.y + j>>) = <<to + k, from + k>>
<1> DEFINE x == r.x
           y == r.y + j
<1>1. x \in Int /\ y \in Int
  BY DEF IsRect
<1> HIDE DEF x, y
<1>0. ASSUME NEW image, IsImage(image), NEW delta, IsShift(delta)
      PROVE  /\ Address(image, delta, x, y) \in Int
             /\ Address(image, delta, x + k, y) = Address(image, delta, x, y) + k
  BY ONLY <1>0, <1>1, k \in Int, AddressRight
<1>2. /\ Address(ask.dst, ask.dstDelta, x, y) \in Int
      /\ Address(ask.dst, ask.dstDelta, x + k, y) = Address(ask.dst, ask.dstDelta, x, y) + k
  <2>1. IsImage(ask.dst) /\ IsShift(ask.dstDelta)
    BY DEF IsWay
  <2> QED
    BY <1>0, <2>1
<1>3. /\ Address(ask.src, ask.srcDelta, x, y) \in Int
      /\ Address(ask.src, ask.srcDelta, x + k, y) = Address(ask.src, ask.srcDelta, x, y) + k
  <2>1. IsImage(ask.src) /\ IsShift(ask.srcDelta)
    BY DEF IsWay
  <2> QED
    BY <1>0, <2>1
<1>4. Move(ask, <<x + k, y>>) = <<Address(ask.dst, ask.dstDelta, x, y) + k,
                                  Address(ask.src, ask.srcDelta, x, y) + k>>
  BY <1>2, <1>3 DEF Move
<1> QED
  BY <1>2, <1>3, <1>4 DEF x, y

\* A row fits when each of its pixels is in memory.
LEMMA RowStored ==
  ASSUME NEW ask, IsWay(ask), ask.dst.limit = ask.dst.end, ask.src.limit = ask.src.end,
         NEW r, IsRect(r), ~IsEmpty(r), NEW j \in Int
  PROVE  RowFits(ask, r, j) <=> \A k \in 0..(r.w - 1) : Stored(ask, <<r.x + k, r.y + j>>)
<1> DEFINE to == Address(ask.dst, ask.dstDelta, r.x, r.y + j)
           from == Address(ask.src, ask.srcDelta, r.x, r.y + j)
           d == ask.dst
           s == ask.src
<1>1. to \in Int /\ from \in Int
  BY MoveRight
<1>2. ASSUME NEW k \in 0..(r.w - 1)
      PROVE  Stored(ask, <<r.x + k, r.y + j>>)
               <=> to + k \in d.base..(d.end - 1) /\ from + k \in s.base..(s.end - 1)
  BY <1>2, MoveRight DEF Stored, IsRect
<1>3. RowFits(ask, r, j) <=> /\ to >= d.base /\ to + r.w <= d.end
                             /\ from >= s.base /\ from + r.w <= s.end
  BY DEF RowFits, Within
<1>4. /\ d.base \in Int /\ d.end \in Int /\ s.base \in Int /\ s.end \in Int
      /\ r.w \in Int /\ r.w > 0
  BY DEF IsWay, IsImage, IsRect, IsEmpty
<1> HIDE DEF to, from, d, s
<1>5. ASSUME RowFits(ask, r, j), NEW k \in 0..(r.w - 1) PROVE Stored(ask, <<r.x + k, r.y + j>>)
  <2>1. to + k \in d.base..(d.end - 1) /\ from + k \in s.base..(s.end - 1)
    BY <1>1, <1>3, <1>4, <1>5
  <2> QED
    BY <1>2, <2>1
<1>6. ASSUME \A k \in 0..(r.w - 1) : Stored(ask, <<r.x + k, r.y + j>>) PROVE RowFits(ask, r, j)
  <2>1. 0 \in 0..(r.w - 1) /\ r.w - 1 \in 0..(r.w - 1)
    BY <1>4
  <2>2. /\ to + 0 \in d.base..(d.end - 1) /\ from + 0 \in s.base..(s.end - 1)
        /\ to + (r.w - 1) \in d.base..(d.end - 1) /\ from + (r.w - 1) \in s.base..(s.end - 1)
    BY <1>2, <1>6, <2>1
  <2> QED
    BY <1>1, <1>3, <1>4, <2>2
<1> QED
  BY <1>5, <1>6

\* The rows of a rectangle down to the first that is not in memory are those
\* before the first that does not fit.
LEMMA RowsStored ==
  ASSUME NEW ask, IsWay(ask), ask.dst.limit = ask.dst.end, ask.src.limit = ask.src.end,
         NEW r, IsRect(r), ~IsEmpty(r), NEW p \in Pixels(r)
  PROVE  p \in StoredRows(ask, Pixels(r)) <=> \A i \in 0..(p[2] - r.y) : RowFits(ask, r, i)
<1>1. /\ p[2] \in Int /\ r.y <= p[2] /\ p[2] < r.y + r.h
      /\ r.x \in Int /\ r.y \in Int /\ r.w \in Int /\ r.h \in Int
  BY PixelIn DEF IsRect
<1>2. ASSUME p \in StoredRows(ask, Pixels(r)), NEW i \in 0..(p[2] - r.y) PROVE RowFits(ask, r, i)
  <2>1. ASSUME NEW k \in 0..(r.w - 1) PROVE Stored(ask, <<r.x + k, r.y + i>>)
    <3> DEFINE q == <<r.x + k, r.y + i>>
    <3>1. q \in Pixels(r) /\ q[2] <= p[2]
      BY <1>1, InPixels
    <3> QED
      BY <1>2, <3>1 DEF StoredRows
  <2>2. i \in Int
    BY <1>1, <1>2
  <2> QED
    BY <2>1, <2>2, RowStored
<1>3. ASSUME \A i \in 0..(p[2] - r.y) : RowFits(ask, r, i) PROVE p \in StoredRows(ask, Pixels(r))
  <2>1. ASSUME NEW q \in Pixels(r), q[2] <= p[2] PROVE Stored(ask, q)
    <3> DEFINE i == q[2] - r.y
               k == q[1] - r.x
    <3>1. /\ q[1] \in Int /\ r.x <= q[1] /\ q[1] < r.x + r.w
          /\ q[2] \in Int /\ r.y <= q[2] /\ q = <<q[1], q[2]>>
      BY PixelIn
    <3>2. i \in 0..(p[2] - r.y) /\ k \in 0..(r.w - 1) /\ r.x + k = q[1] /\ r.y + i = q[2]
      BY <1>1, <2>1, <3>1
    <3> HIDE DEF i, k
    <3>3. Stored(ask, <<r.x + k, r.y + i>>)
      BY <1>3, <3>2, RowStored
    <3> QED
      BY <3>1, <3>2, <3>3
  <2> QED
    BY <2>1 DEF StoredRows
<1> QED
  BY <1>2, <1>3

\* A rectangle with no pixels has no part in what is done.
LEMMA EmptyDone ==
  ASSUME NEW b, CopyReady(b.ask, b.rects), NEW i \in Nat, NEW n \in Nat, i <= n,
         \A m \in i..(n - 1) : m \in DOMAIN b.rects /\ IsEmpty(b.rects[m])
  PROVE  Done(b, n, 0) = Done(b, i, 0)
<1>1. ASSUME NEW m \in DOMAIN b.rects, IsEmpty(b.rects[m]) PROVE Pixels(b.rects[m]) = {}
  <2>1. IsRect(b.rects[m])
    BY DEF CopyReady
  <2> SUFFICES ASSUME NEW p \in Pixels(b.rects[m]) PROVE FALSE
    OBVIOUS
  <2> QED
    BY <1>1, <2>1, PixelIn DEF IsEmpty, IsRect
<1>2. ASSUME NEW m \in DOMAIN b.rects, NEW p \in Pixels(b.rects[m])
      PROVE  m \in Nat /\ p[2] \in Int /\ b.rects[m].y \in Int /\ b.rects[m].y <= p[2]
  BY <1>2, PixelIn DEF CopyReady, IsRect
<1>3. ASSUME NEW m \in DOMAIN b.rects, NEW p \in Pixels(b.rects[m]), NEW k \in Nat
      PROVE  (m < k \/ (m = k /\ p[2] < b.rects[m].y + 0)) <=> m < k
  BY <1>2
<1>4. ASSUME NEW m \in DOMAIN b.rects, NEW p \in Pixels(b.rects[m]) PROVE m < n <=> m < i
  BY <1>1, <1>2
<1>5. ASSUME NEW m \in DOMAIN b.rects, NEW p \in StoredRows(b.ask, Pixels(b.rects[m]))
      PROVE  p \in Pixels(b.rects[m])
  BY <1>5 DEF StoredRows
<1> QED
  BY <1>3, <1>4, <1>5 DEF Done

\* What Enter makes of a copy that has done everything before rectangle i.
LEMMA EnterCopies ==
  ASSUME NEW b, IsCopy(b), CopyReady(b.ask, b.rects), Contained(b),
         NEW i \in 1..(Len(b.rects) + 1), Enter(b, i),
         b.ask.fits => b.copied = AllMoves(b.ask, Done(b, i, 0))
  PROVE  Copying(blit')
<1>1. PICK n \in i..(Len(b.rects) + 1) :
      /\ \A m \in i..(n - 1) : IsEmpty(b.rects[m])
      /\ \/ n > Len(b.rects) /\ blit' = [b EXCEPT !.at = n]
         \/ /\ n <= Len(b.rects) /\ ~IsEmpty(b.rects[n])
            /\ blit' = LET r == b.rects[n]
                       IN  [b EXCEPT !.at = n, !.row = 0,
                                     !.to = Start(b.ask.dst, b.ask.dstDelta, r),
                                     !.from = Start(b.ask.src, b.ask.srcDelta, r)]
  BY DEF Enter
<1> DEFINE r == b.rects[n]
           to == Start(b.ask.dst, b.ask.dstDelta, r)
           from == Start(b.ask.src, b.ask.srcDelta, r)
<1>2. /\ IsCopy(blit') /\ blit'.ask = b.ask /\ blit'.rects = b.rects /\ blit'.copied = b.copied
      /\ blit'.at = n
      /\ n > Len(b.rects) \/ (~IsEmpty(r) /\ blit'.row = 0 /\ blit'.to = to /\ blit'.from = from)
  <2> DEFINE e == [b EXCEPT !.at = n]
             f == [b EXCEPT !.at = n, !.row = 0, !.to = to, !.from = from]
  <2>1. /\ IsCopy(e) /\ e.ask = b.ask /\ e.rects = b.rects /\ e.copied = b.copied /\ e.at = n
    BY DEF IsCopy
  <2>2. /\ IsCopy(f) /\ f.ask = b.ask /\ f.rects = b.rects /\ f.copied = b.copied /\ f.at = n
        /\ f.row = 0 /\ f.to = to /\ f.from = from
    <3> HIDE DEF to, from
    <3> QED BY DEF IsCopy
  <2>3. CASE n > Len(b.rects) /\ blit' = e
    BY <2>1, <2>3
  <2>4. CASE n <= Len(b.rects) /\ ~IsEmpty(r) /\ blit' = f
    BY <2>2, <2>4
  <2> QED
    BY <1>1, <2>3, <2>4
<1>3. /\ i \in Nat /\ n \in Nat /\ i <= n /\ n \in 1..(Len(b.rects) + 1)
      /\ Len(b.rects) \in Nat /\ DOMAIN b.rects = 1..Len(b.rects)
  BY <1>1 DEF CopyReady
<1>4. ~(n > Len(b.rects)) => IsRect(r) /\ 0 \in 0..(r.h - 1) /\ to \in Int /\ from \in Int
  <2> HAVE ~(n > Len(b.rects))
  <2>1. IsRect(r) /\ IsWay(b.ask)
    BY <1>3 DEF CopyReady
  <2>2. to \in Int /\ from \in Int
    BY <2>1, StartType DEF IsWay
  <2> QED
    BY <1>2, <2>1, <2>2 DEF IsRect, IsEmpty
<1>5. OnRow(blit')
  <2> HIDE DEF to, from
  <2> QED BY <1>2, <1>3, <1>4 DEF OnRow
<1>6. Contained(blit') /\ CopyReady(blit'.ask, blit'.rects)
  BY <1>2 DEF Contained
<1>7. ASSUME b.ask.fits PROVE InRow(blit')
  <2>1. Done(b, n, 0) = Done(b, i, 0)
    BY <1>1, <1>3, EmptyDone
  <2>2. Done(blit', n, blit'.row) = Done(b, n, 0)
    <3>1. CASE n > Len(b.rects)
      <4>1. ASSUME NEW m \in DOMAIN b.rects, NEW p, NEW j
            PROVE  m < n \/ (m = n /\ p[2] < b.rects[m].y + j)
        BY <1>3, <3>1
      <4> QED
        BY <1>2, <4>1 DEF Done
    <3>2. CASE ~(n > Len(b.rects))
      BY <1>2, <3>2 DEF Done
    <3> QED
      BY <3>1, <3>2
  <2>3. blit'.copied = AllMoves(blit'.ask, Done(blit', blit'.at, blit'.row))
    BY <1>2, <1>7, <2>1, <2>2
  <2>4. ASSUME ~(n > Len(b.rects))
        PROVE  \E k \in 0..blit'.row :
                 /\ \A j \in 0..(k - 1) : RowFits(blit'.ask, r, j)
                 /\ k < blit'.row => ~RowFits(blit'.ask, r, k)
                 /\ blit'.to = Address(blit'.ask.dst, blit'.ask.dstDelta, r.x, r.y + k)
                 /\ blit'.from = Address(blit'.ask.src, blit'.ask.srcDelta, r.x, r.y + k)
    <3>1. /\ to = Address(b.ask.dst, b.ask.dstDelta, r.x, r.y)
          /\ from = Address(b.ask.src, b.ask.srcDelta, r.x, r.y)
      BY <1>2, <1>3, <1>7, <2>4 DEF CopyReady
    <3>2. r.y + 0 = r.y
      BY <1>4, <2>4 DEF IsRect
    <3> HIDE DEF to, from, r
    <3>3. blit'.row = 0 /\ 0 \in 0..blit'.row /\ 0..(0 - 1) = {}
      BY <1>2, <2>4
    <3> QED
      BY <1>2, <2>4, <3>1, <3>2, <3>3
  <2> HIDE DEF to, from
  <2> QED
    BY <1>2, <1>3, <2>3, <2>4 DEF InRow
<1> QED
  BY <1>2, <1>5, <1>6, <1>7 DEF Copying

\* The pixels of a row are what a step copies.
LEMMA RowMoves ==
  ASSUME NEW ask, IsWay(ask), NEW r, IsRect(r), NEW j \in 0..(r.h - 1),
         NEW to, to = Address(ask.dst, ask.dstDelta, r.x, r.y + j),
         NEW from, from = Address(ask.src, ask.srcDelta, r.x, r.y + j)
  PROVE  {<<to + k, from + k>> : k \in 0..(r.w - 1)}
           = AllMoves(ask, {p \in Pixels(r) : p[2] = r.y + j})
<1> DEFINE row == {p \in Pixels(r) : p[2] = r.y + j}
           step == {<<to + k, from + k>> : k \in 0..(r.w - 1)}
<1>0. j \in Int /\ r.x \in Int /\ r.y \in Int /\ r.w \in Int /\ r.h \in Int /\ r.y + j \in Int
  BY DEF IsRect
<1>1. ASSUME NEW k \in Int
      PROVE  Move(ask, <<r.x + k, r.y + j>>) = <<to + k, from + k>>
  BY <1>0, MoveRight
<1>2. ASSUME NEW k \in 0..(r.w - 1) PROVE <<r.x + k, r.y + j>> \in row
  BY <1>0, InPixels
<1>3. ASSUME NEW p \in row PROVE \E k \in 0..(r.w - 1) : p = <<r.x + k, r.y + j>>
  <2>1. PICK x \in r.x..(r.x + r.w - 1), y \in r.y..(r.y + r.h - 1) : p = <<x, y>>
    BY DEF Pixels
  <2>2. x - r.x \in 0..(r.w - 1) /\ x = r.x + (x - r.x) /\ y = r.y + j
    BY <1>0, <2>1
  <2> QED
    BY <2>1, <2>2
<1>4. ASSUME NEW k \in 0..(r.w - 1) PROVE <<to + k, from + k>> \in AllMoves(ask, row)
  <2>1. Move(ask, <<r.x + k, r.y + j>>) = <<to + k, from + k>>
    BY <1>1
  <2> QED
    BY <1>2, <2>1 DEF AllMoves
<1>5. ASSUME NEW p \in row PROVE Move(ask, p) \in step
  <2>1. PICK k \in 0..(r.w - 1) : p = <<r.x + k, r.y + j>>
    BY <1>3
  <2> QED
    BY <1>1, <2>1
<1>6. step \subseteq AllMoves(ask, row)
  BY <1>4
<1>7. AllMoves(ask, row) \subseteq step
  BY <1>5 DEF AllMoves
<1> QED
  BY <1>6, <1>7

\* A row that is copied lies within the limits of both sides.
LEMMA RowContained ==
  ASSUME NEW image, IsImage(image), NEW at \in Int, NEW w \in Int, Within(at, w, image),
         image.base <= image.end, NEW k \in 0..(w - 1)
  PROVE  at + k \in image.base..(image.end - 1)
BY DEF Within, IsImage

\* A step copies the row, whole, to where the region says, or passes over it.
LEMMA RowCopies == ASSUME Copying(blit), CopyRow PROVE Copying(blit')
<1> DEFINE ask == blit.ask
           r == blit.rects[blit.at]
           b == [blit EXCEPT !.row = @ + 1]
           fit == Within(blit.to, r.w, ask.dst) /\ Within(blit.from, r.w, ask.src)
           more == {<<blit.to + k, blit.from + k>> : k \in 0..(r.w - 1)}
           c == IF Within(b.to, r.w, b.ask.dst) /\ Within(b.from, r.w, b.ask.src)
                THEN [b EXCEPT !.to = @ + b.ask.dst.pitch, !.from = @ + b.ask.src.pitch,
                               !.copied = @ \cup {<<b.to + k, b.from + k>> : k \in 0..(r.w - 1)}]
                ELSE b
<1>1. /\ blit.at \in DOMAIN blit.rects
      /\ IF c.row = r.h THEN Enter(c, c.at + 1) ELSE blit' = c
  BY DEF CopyRow
<1>2. /\ IsCopy(c) /\ c.ask = blit.ask /\ c.rects = blit.rects /\ c.at = blit.at
      /\ c.row = blit.row + 1
      /\ fit => /\ c.to = blit.to + ask.dst.pitch /\ c.from = blit.from + ask.src.pitch
                /\ c.copied = blit.copied \cup more
      /\ ~fit => c.to = blit.to /\ c.from = blit.from /\ c.copied = blit.copied
  <2>1. /\ IsCopy(b) /\ b.ask = blit.ask /\ b.rects = blit.rects /\ b.at = blit.at
        /\ b.row = blit.row + 1 /\ b.to = blit.to /\ b.from = blit.from /\ b.copied = blit.copied
    BY DEF Copying, IsCopy
  <2> HIDE DEF b
  <2> DEFINE adds == {<<b.to + k, b.from + k>> : k \in 0..(r.w - 1)}
             to == b.to + b.ask.dst.pitch
             from == b.from + b.ask.src.pitch
             e == [b EXCEPT !.to = to, !.from = from, !.copied = @ \cup adds]
  <2>2. /\ IsCopy(e) /\ e.ask = b.ask /\ e.rects = b.rects /\ e.at = b.at /\ e.row = b.row
        /\ e.to = to /\ e.from = from
        /\ e.copied = b.copied \cup adds
    <3> HIDE DEF adds, to, from
    <3> QED BY <2>1 DEF IsCopy
  <2>3. CASE fit
    <3>1. c = e
      BY <2>1, <2>3 DEF IsCopy
    <3>2. adds = more
      BY <2>1
    <3> QED
      BY <2>1, <2>2, <2>3, <3>1, <3>2
  <2>4. CASE ~fit
    <3>1. c = b
      BY <2>1, <2>4
    <3> QED
      BY <2>1, <2>4, <3>1
  <2> QED
    BY <2>3, <2>4
<1> HIDE DEF b, c
<1>3. /\ CopyReady(ask, blit.rects) /\ OnRow(blit) /\ Contained(blit) /\ IsWay(ask)
      /\ Len(blit.rects) \in Nat /\ blit.at \in 1..Len(blit.rects)
      /\ DOMAIN blit.rects = 1..Len(blit.rects)
      /\ \A m \in DOMAIN blit.rects : IsRect(blit.rects[m])
  BY <1>1 DEF Copying, CopyReady
<1>4. /\ IsRect(r) /\ ~IsEmpty(r) /\ blit.row \in 0..(r.h - 1) /\ blit.to \in Int /\ blit.from \in Int
      /\ r.x \in Int /\ r.y \in Int /\ r.w \in Int /\ r.h \in Int /\ blit.row \in Int /\ blit.row >= 0
  <2>1. IsRect(r) /\ blit.at <= Len(blit.rects)
    BY ONLY <1>3
  <2>2. ~IsEmpty(r) /\ blit.row \in 0..(r.h - 1) /\ blit.to \in Int /\ blit.from \in Int
    BY ONLY <1>3, <2>1 DEF OnRow
  <2> HIDE DEF r
  <2> QED
    BY ONLY <2>1, <2>2 DEF IsRect
<1>5. CopyReady(c.ask, c.rects) /\ c.at + 1 \in 1..(Len(c.rects) + 1)
  BY ONLY <1>2, <1>3
<1>6. c.to \in Int /\ c.from \in Int
  <2>1. ask.dst.pitch \in Int /\ ask.src.pitch \in Int
    <3>1. IsWay(ask)
      BY ONLY <1>3
    <3> HIDE DEF ask
    <3> QED
      BY ONLY <3>1 DEF IsWay, IsImage
  <2>2. blit.to + ask.dst.pitch \in Int /\ blit.from + ask.src.pitch \in Int
    BY <1>4, <2>1
  <2> HIDE DEF fit, more
  <2> QED
    BY <1>2, <1>4, <2>2
<1>7. Contained(c)
  <2>1. CASE fit
    <3>1. ASSUME NEW move \in more
          PROVE  /\ ask.dst.base <= ask.dst.end => move[1] \in ask.dst.base..(ask.dst.end - 1)
                 /\ ask.src.base <= ask.src.end => move[2] \in ask.src.base..(ask.src.end - 1)
      <4>1. PICK k \in 0..(r.w - 1) : move = <<blit.to + k, blit.from + k>>
        OBVIOUS
      <4>2. move[1] = blit.to + k /\ move[2] = blit.from + k
        BY <4>1
      <4>3. /\ ask.dst.base <= ask.dst.end => blit.to + k \in ask.dst.base..(ask.dst.end - 1)
            /\ ask.src.base <= ask.src.end => blit.from + k \in ask.src.base..(ask.src.end - 1)
        <5> HIDE DEF r
        <5> QED BY <1>3, <1>4, <2>1, RowContained DEF IsWay
      <4> QED
        BY <4>2, <4>3
    <3> HIDE DEF more
    <3> QED
      BY <1>2, <1>3, <2>1, <3>1 DEF Contained
  <2>2. CASE ~fit
    BY <1>2, <1>3, <2>2 DEF Contained
  <2> QED
    BY <2>1, <2>2
<1>8. ASSUME ask.fits
      PROVE  /\ \E k \in 0..c.row :
                  /\ \A i \in 0..(k - 1) : RowFits(ask, r, i)
                  /\ k < c.row => ~RowFits(ask, r, k)
                  /\ c.to = Address(ask.dst, ask.dstDelta, r.x, r.y + k)
                  /\ c.from = Address(ask.src, ask.srcDelta, r.x, r.y + k)
             /\ c.copied = AllMoves(ask, Done(c, c.at, c.row))
             /\ c.row = r.h => Done(c, c.at, c.row) = Done(c, c.at + 1, 0)
  <2>1. PICK k \in 0..blit.row :
          /\ \A i \in 0..(k - 1) : RowFits(ask, r, i)
          /\ k < blit.row => ~RowFits(ask, r, k)
          /\ blit.to = Address(ask.dst, ask.dstDelta, r.x, r.y + k)
          /\ blit.from = Address(ask.src, ask.srcDelta, r.x, r.y + k)
    BY <1>3, <1>8 DEF Copying, InRow
  <2>2. blit.copied = AllMoves(ask, Done(blit, blit.at, blit.row))
    BY <1>8 DEF Copying, InRow
  <2>3. /\ ask.dst.limit = ask.dst.end /\ ask.src.limit = ask.src.end
        /\ ask.wanted = UNION {StoredRows(ask, Pixels(blit.rects[m])) : m \in DOMAIN blit.rects}
    BY <1>3, <1>8 DEF CopyReady
  <2>4. fit <=> RowFits(ask, r, k)
    BY <2>1 DEF RowFits
  <2>5. fit => k = blit.row
    BY <1>4, <2>1, <2>4
  <2>6. k \in Int /\ k >= 0 /\ k <= blit.row
    BY <1>4, <2>1
  <2> DEFINE row == {p \in Pixels(r) : p[2] = r.y + blit.row}
  \* A pixel of a rectangle that is stored down to its row.
  <2>7. ASSUME NEW m \in DOMAIN blit.rects, NEW p \in StoredRows(ask, Pixels(blit.rects[m]))
        PROVE  /\ m \in Nat /\ p[2] \in Int /\ blit.rects[m].y \in Int /\ p \in ask.wanted
               /\ p[2] < blit.rects[m].y + blit.rects[m].h /\ blit.rects[m].h \in Int
               /\ blit.rects[m].y <= p[2] /\ p \in Pixels(blit.rects[m])
    <3>1. IsRect(blit.rects[m]) /\ m \in Nat /\ p \in ask.wanted /\ p \in Pixels(blit.rects[m])
      BY <1>3, <2>3, <2>7 DEF StoredRows
    <3> QED
      BY <3>1, PixelIn DEF IsRect
  \* The row is among them if it was copied, and no pixel of it is if not.
  <2>8. ASSUME fit, NEW p \in row PROVE p \in StoredRows(ask, Pixels(r))
    <3>1. p \in Pixels(r) /\ p[2] - r.y = k
      BY <1>4, <2>5, <2>6, <2>8
    <3>2. \A i \in 0..k : RowFits(ask, r, i)
      BY <2>1, <2>4, <2>6, <2>8
    <3> HIDE DEF r
    <3> QED
      BY <1>3, <1>4, <2>3, <3>1, <3>2, RowsStored
  <2>9. ASSUME ~fit, NEW p \in StoredRows(ask, Pixels(r)) PROVE p[2] # r.y + blit.row
    <3> SUFFICES ASSUME p[2] = r.y + blit.row PROVE FALSE
      OBVIOUS
    <3>1. p \in Pixels(r) /\ p[2] - r.y = blit.row
      BY <1>4, <2>9 DEF StoredRows
    <3>2. \A i \in 0..blit.row : RowFits(ask, r, i)
      <4> HIDE DEF r
      <4> QED BY <1>3, <1>4, <2>3, <2>9, <3>1, RowsStored
    <3> QED
      BY <2>1, <2>4, <2>9, <3>2
  <2>10. ASSUME NEW m \in DOMAIN blit.rects, NEW p \in StoredRows(ask, Pixels(blit.rects[m]))
         PROVE  (m < blit.at \/ (m = blit.at /\ p[2] < blit.rects[m].y + (blit.row + 1)))
                  <=> \/ m < blit.at \/ (m = blit.at /\ p[2] < blit.rects[m].y + blit.row)
                      \/ m = blit.at /\ p[2] = blit.rects[m].y + blit.row
    <3>1. ASSUME NEW a \in Int, NEW y \in Int, NEW j \in Int
          PROVE  a < y + (j + 1) <=> a < y + j \/ a = y + j
      OBVIOUS
    <3>2. p[2] \in Int /\ blit.rects[m].y \in Int /\ blit.row \in Int
      BY <1>4, <2>7, <2>10
    <3> QED
      BY <3>1, <3>2
  <2>11. c.copied = AllMoves(ask, Done(c, c.at, c.row))
    <3>1. CASE fit
      <4>1. more = AllMoves(ask, row)
        <5> DEFINE to == blit.to
                   from == blit.from
                   j == blit.row
        <5>1. /\ to = Address(ask.dst, ask.dstDelta, r.x, r.y + j)
              /\ from = Address(ask.src, ask.srcDelta, r.x, r.y + j)
              /\ j \in 0..(r.h - 1) /\ IsRect(r) /\ IsWay(ask)
          BY <1>3, <1>4, <2>1, <2>5, <3>1
        <5> HIDE DEF r, to, from, j, ask
        <5>2. {<<to + i, from + i>> : i \in 0..(r.w - 1)}
                = AllMoves(ask, {p \in Pixels(r) : p[2] = r.y + j})
          BY <5>1, RowMoves
        <5> QED BY <5>2 DEF to, from, j
      <4>2. Done(c, c.at, c.row) = Done(blit, blit.at, blit.row) \cup row
        <5>1. \A p \in row : p \in StoredRows(ask, Pixels(blit.rects[blit.at]))
          BY <2>8, <3>1
        <5>2. \A p : p \in StoredRows(ask, Pixels(blit.rects[blit.at])) => p \in Pixels(r)
          BY DEF StoredRows
        <5>3. blit.at \in DOMAIN blit.rects /\ \A p \in row : p \in ask.wanted
          BY <1>1, <2>7, <5>1
        <5> QED
          BY <1>2, <2>10, <5>1, <5>2, <5>3 DEF Done
      <4> QED
        BY <1>2, <2>2, <3>1, <4>1, <4>2 DEF AllMoves
    <3>2. CASE ~fit
      <4>1. \A p \in StoredRows(ask, Pixels(blit.rects[blit.at])) :
               p[2] # blit.rects[blit.at].y + blit.row
        BY <2>9, <3>2
      <4>2. Done(c, c.at, c.row) = Done(blit, blit.at, blit.row)
        BY <1>2, <2>10, <4>1 DEF Done
      <4> QED
        BY <1>2, <2>2, <3>2, <4>2
    <3> QED
      BY <3>1, <3>2
  <2>12. ASSUME c.row = r.h PROVE Done(c, c.at, c.row) = Done(c, c.at + 1, 0)
    <3>1. ASSUME NEW m \in DOMAIN blit.rects, NEW p \in StoredRows(ask, Pixels(blit.rects[m]))
          PROVE  (m < blit.at \/ (m = blit.at /\ p[2] < blit.rects[m].y + r.h))
                   <=> (m < blit.at + 1 \/ (m = blit.at + 1 /\ p[2] < blit.rects[m].y + 0))
      <4>1. blit.at \in Nat
        BY <1>3
      <4> QED
        BY <2>7, <4>1
    <3> QED
      BY <1>2, <2>12, <3>1 DEF Done
  <2>13. \E i \in 0..c.row :
            /\ \A j \in 0..(i - 1) : RowFits(ask, r, j)
            /\ i < c.row => ~RowFits(ask, r, i)
            /\ c.to = Address(ask.dst, ask.dstDelta, r.x, r.y + i)
            /\ c.from = Address(ask.src, ask.srcDelta, r.x, r.y + i)
    <3>1. CASE fit
      <4>1. r.y + (k + 1) = (r.y + k) + 1 /\ r.y + k \in Int /\ k + 1 \in 0..c.row
            /\ ~(k + 1 < c.row) /\ (k + 1) - 1 = k
        BY <1>2, <1>4, <2>5, <2>6, <3>1
      <4>2. /\ c.to = Address(ask.dst, ask.dstDelta, r.x, (r.y + k) + 1)
            /\ c.from = Address(ask.src, ask.srcDelta, r.x, (r.y + k) + 1)
        <5> DEFINE x == r.x
                   y == r.y + k
        <5>1. /\ IsImage(ask.dst) /\ IsImage(ask.src)
              /\ IsShift(ask.dstDelta) /\ IsShift(ask.srcDelta) /\ x \in Int /\ y \in Int
          BY <1>3, <1>4, <4>1 DEF IsWay
        <5>2. blit.to = Address(ask.dst, ask.dstDelta, x, y) /\ blit.from = Address(ask.src, ask.srcDelta, x, y)
          BY <2>1
        <5>3. c.to = blit.to + ask.dst.pitch /\ c.from = blit.from + ask.src.pitch
          BY <1>2, <3>1
        <5> HIDE DEF x, y
        <5>4. /\ Address(ask.dst, ask.dstDelta, x, y + 1) = blit.to + ask.dst.pitch
              /\ Address(ask.src, ask.srcDelta, x, y + 1) = blit.from + ask.src.pitch
          BY <5>1, <5>2, AddressDown
        <5> QED BY <5>3, <5>4 DEF x, y
      <4>3. \A j \in 0..k : RowFits(ask, r, j)
        BY <2>1, <2>4, <2>6, <3>1
      <4> QED
        BY <4>1, <4>2, <4>3
    <3>2. CASE ~fit
      <4>1. k \in 0..c.row /\ ~RowFits(ask, r, k)
        BY <1>2, <1>4, <2>4, <2>6, <3>2
      <4> QED
        BY <1>2, <2>1, <3>2, <4>1
    <3> QED
      BY <3>1, <3>2
  <2> QED
    BY <2>11, <2>12, <2>13
<1>9. CASE c.row = r.h
  <2>1. c.ask.fits => c.copied = AllMoves(c.ask, Done(c, c.at + 1, 0))
    BY <1>2, <1>8, <1>9
  <2> QED
    BY <1>1, <1>2, <1>5, <1>7, <1>9, <2>1, EnterCopies
<1>10. CASE c.row # r.h
  <2>1. blit' = c
    BY <1>1, <1>10
  <2>2. c.row \in 0..(r.h - 1) /\ c.at \in 1..(Len(c.rects) + 1) /\ c.rects[c.at] = r
    <3>1. /\ c.row = blit.row + 1 /\ blit.row \in 0..(r.h - 1) /\ r.h \in Int /\ blit.row \in Int
          /\ c.row # r.h
      BY ONLY <1>2, <1>4, <1>10
    <3>2. c.at = blit.at /\ c.rects = blit.rects /\ blit.at \in 1..Len(blit.rects) /\ Len(blit.rects) \in Nat
      BY ONLY <1>2, <1>3
    <3>3. c.rects[c.at] = r
      BY ONLY <3>2
    <3>4. c.at \in 1..(Len(c.rects) + 1)
      BY ONLY <3>2
    <3> HIDE DEF r
    <3>5. c.row \in 0..(r.h - 1)
      BY ONLY <3>1
    <3> QED
      BY ONLY <3>3, <3>4, <3>5
  <2>3. OnRow(c)
    BY <1>4, <1>6, <2>2 DEF OnRow
  <2>4. ASSUME c.ask.fits PROVE InRow(c)
    <3>1. c.at <= Len(c.rects) =>
            \E k \in 0..c.row :
              /\ \A i \in 0..(k - 1) : RowFits(c.ask, c.rects[c.at], i)
              /\ k < c.row => ~RowFits(c.ask, c.rects[c.at], k)
              /\ c.to = Address(c.ask.dst, c.ask.dstDelta, c.rects[c.at].x, c.rects[c.at].y + k)
              /\ c.from = Address(c.ask.src, c.ask.srcDelta, c.rects[c.at].x, c.rects[c.at].y + k)
      <4>1. c.ask = ask /\ c.rects[c.at] = r /\ ask.fits
        BY <1>2, <2>2, <2>4
      <4> HIDE DEF ask, r
      <4>2. PICK k \in 0..c.row :
              /\ \A i \in 0..(k - 1) : RowFits(ask, r, i)
              /\ k < c.row => ~RowFits(ask, r, k)
              /\ c.to = Address(ask.dst, ask.dstDelta, r.x, r.y + k)
              /\ c.from = Address(ask.src, ask.srcDelta, r.x, r.y + k)
        BY ONLY <1>8, <4>1
      <4> QED
        BY ONLY <4>1, <4>2
    <3>2. c.copied = AllMoves(c.ask, Done(c, c.at, c.row))
      BY ONLY <1>2, <1>8, <2>4
    <3> QED
      BY ONLY <3>1, <3>2 DEF InRow
  <2> QED
    BY <1>2, <1>5, <1>7, <2>1, <2>3, <2>4 DEF Copying
<1> QED
  BY <1>9, <1>10

\* A copy that starts with rectangles that are ready.
LEMMA StartCopies ==
  ASSUME NEW ask, NEW rects, genericBlitCopy(ask, rects), CopyReady(ask, rects)
  PROVE  Copying(blit')
<1> DEFINE b == [NoBlit EXCEPT !.st = "copy", !.ask = ask, !.rects = rects]
<1>1. IsCopy(b) /\ b.ask = ask /\ b.rects = rects /\ b.copied = {} /\ Enter(b, 1)
  BY DEF IsCopy, NoBlit, genericBlitCopy
<1> HIDE DEF b
<1>2. CopyReady(b.ask, b.rects) /\ Contained(b) /\ 1 \in 1..(Len(b.rects) + 1)
  BY <1>1 DEF CopyReady, Contained
<1>3. DOMAIN b.rects = 1..Len(b.rects) /\ Len(b.rects) \in Nat
  BY <1>2 DEF CopyReady
<1>4. ASSUME NEW m \in DOMAIN b.rects, NEW p \in StoredRows(b.ask, Pixels(b.rects[m]))
      PROVE  ~(m < 1 \/ (m = 1 /\ p[2] < b.rects[m].y + 0))
  <2>1. IsRect(b.rects[m]) /\ p \in Pixels(b.rects[m])
    BY <1>2, <1>4 DEF CopyReady, StoredRows
  <2>2. p[2] \in Int /\ b.rects[m].y \in Int /\ b.rects[m].y <= p[2]
    BY <2>1, PixelIn DEF IsRect
  <2> QED
    BY <1>3, <2>2
<1>5. Done(b, 1, 0) = {}
  BY <1>4 DEF Done
<1>6. b.copied = AllMoves(b.ask, Done(b, 1, 0))
  BY <1>1, <1>5 DEF AllMoves
<1> QED
  BY <1>1, <1>2, <1>6, EnterCopies

\* What is wanted depends on where a copy goes, and on nothing else of it.
LEMMA SameWay ==
  ASSUME NEW a, NEW b, a.dst = b.dst, a.src = b.src, a.dstDelta = b.dstDelta,
         a.srcDelta = b.srcDelta, NEW P
  PROVE  StoredRows(a, P) = StoredRows(b, P)
BY DEF StoredRows, Stored, Move

\* Copy asks for the pixels of rectangles between two images.
LEMMA CopyStarts ==
  ASSUME NEW dst, IsImage(dst), NEW dstDelta, IsShift(dstDelta),
         NEW src, IsImage(src), NEW srcDelta, IsShift(srcDelta),
         NEW rects, Len(rects) \in Nat, DOMAIN rects = 1..Len(rects),
         \A i \in DOMAIN rects : IsRect(rects[i]),
         NEW asked, DOMAIN asked = DOMAIN rects,
         NEW clips, clips => \A i \in DOMAIN rects : asked[i] = Pixels(rects[i]),
         Copy(dst, dstDelta, src, srcDelta, rects, asked, clips)
  PROVE  Copying(blit')
<1> DEFINE way == [dst |-> dst, dstDelta |-> dstDelta, src |-> src, srcDelta |-> srcDelta]
           wanted == UNION {StoredRows(way, asked[i]) : i \in DOMAIN asked}
           fits == clips /\ ImageFits(dst, dstDelta, rects) /\ ImageFits(src, srcDelta, rects)
           ask == [dst |-> dst, dstDelta |-> dstDelta, src |-> src, srcDelta |-> srcDelta,
                   wanted |-> wanted, fits |-> fits]
<1>1. genericBlitCopy(ask, rects)
  BY DEF Copy
<1>2. /\ ask.dst = dst /\ ask.src = src /\ ask.dstDelta = dstDelta /\ ask.srcDelta = srcDelta
      /\ way.dst = dst /\ way.src = src /\ way.dstDelta = dstDelta /\ way.srcDelta = srcDelta
      /\ ask.wanted = wanted /\ ask.fits = fits
  <2> HIDE DEF wanted, fits
  <2> QED OBVIOUS
<1> HIDE DEF ask, way
<1>3. ASSUME fits
      PROVE  /\ dst.limit = dst.end /\ src.limit = src.end
             /\ wanted = UNION {StoredRows(ask, Pixels(rects[i])) : i \in DOMAIN rects}
             /\ \A i \in DOMAIN rects : LET r == rects[i] IN
                  ~IsEmpty(r) => /\ Start(dst, dstDelta, r) = Address(dst, dstDelta, r.x, r.y)
                                 /\ Start(src, srcDelta, r) = Address(src, srcDelta, r.x, r.y)
  <2>1. dst.limit = dst.end /\ src.limit = src.end
    BY <1>3 DEF ImageFits, IsImage
  <2>2. \A i \in DOMAIN rects : StoredRows(way, asked[i]) = StoredRows(ask, Pixels(rects[i]))
    BY <1>2, <1>3, SameWay
  <2>3. wanted = UNION {StoredRows(ask, Pixels(rects[i])) : i \in DOMAIN rects}
    BY <2>2
  <2> HIDE DEF wanted
  <2> QED
    BY <1>3, <2>1, <2>3 DEF ImageFits
<1>4. CopyReady(ask, rects)
  <2> HIDE DEF wanted, fits
  <2> QED BY <1>2, <1>3 DEF CopyReady, IsWay
<1> QED
  BY <1>1, <1>4, StartCopies

\* The rectangles of a region are boxes, and its shift is two numbers.
LEMMA RegionType ==
  ASSUME NEW region \in Regions, NEW dest \in Points
  PROVE  /\ region.bounds \in Boxes /\ Len(region.rects) \in Nat
         /\ DOMAIN region.rects = 1..Len(region.rects)
         /\ \A i \in DOMAIN region.rects : region.rects[i] \in Boxes
         /\ Shift(region, dest) \in Int \X Int /\ IsShift(Shift(region, dest))
<1>1. region.bounds \in Boxes /\ region.rects \in Seq(Boxes) /\ dest \in Ints \X Ints
  BY RegionAssumption
<1>2. /\ region.bounds.x \in Int /\ region.bounds.y \in Int /\ dest[1] \in Int /\ dest[2] \in Int
  BY <1>1, BoxType, WordType DEF IsRect
<1>3. Shift(region, dest) \in Int \X Int
  BY <1>2, Int32Type DEF Shift
<1> QED
  BY <1>1, <1>3 DEF IsShift

\* Clipping leaves rectangles, and the pixels that are asked for if all fits.
LEMMA RegionClips ==
  ASSUME NEW s \in Shapes, NEW region \in Regions, NEW dest \in Points
  PROVE  LET delta == Shift(region, dest)
             rects == clipRegionToBuffer(region.rects, delta, s)
             asked == AskedOf(region.rects, delta, s)
         IN
         /\ Len(rects) \in Nat /\ DOMAIN rects = 1..Len(rects) /\ DOMAIN asked = DOMAIN rects
         /\ \A i \in DOMAIN rects : IsRect(rects[i])
         /\ RegionFits(region, dest, s) => \A i \in DOMAIN rects : asked[i] = Pixels(rects[i])
<1> DEFINE n == Len(region.rects)
           delta == Shift(region, dest)
           rects == clipRegionToBuffer(region.rects, delta, s)
           asked == AskedOf(region.rects, delta, s)
<1>1. /\ n \in Nat /\ DOMAIN region.rects = 1..n /\ delta \in Int \X Int
      /\ \A i \in 1..n : region.rects[i] \in Boxes
  BY RegionType
<1>2. rects = [i \in 1..n |-> rects[i]] /\ DOMAIN rects = 1..n /\ DOMAIN asked = 1..n
  BY <1>1 DEF clipRegionToBuffer, AskedOf
<1>3. Len(rects) = n
  BY <1>1, <1>2
<1>4. s.bw \in Coordinates /\ s.bh \in Coordinates
  BY ShapeAssumption
<1>5. ASSUME NEW i \in 1..n PROVE IsRect(rects[i])
  <2> DEFINE q == region.rects[i]
             h == ClipSpan(q.x, q.w, delta[1], s.bw)
             v == ClipSpan(q.y, q.h, delta[2], s.bh)
  <2>1. rects[i] = [x |-> h.pos, y |-> v.pos, w |-> h.len, h |-> v.len]
    BY <1>1, <1>5 DEF clipRegionToBuffer
  <2>2. h.pos \in Int /\ h.len \in Int /\ v.pos \in Int /\ v.len \in Int
    BY <1>1, <1>4, <1>5, BoxType, WordType, SpanType
  <2> HIDE DEF h, v
  <2> QED BY <2>1, <2>2 DEF IsRect
<1>6. ASSUME RegionFits(region, dest, s), NEW i \in 1..n PROVE asked[i] = Pixels(rects[i])
  <2> DEFINE q == region.rects[i]
  <2>1. /\ SpanFits(q.x, q.w, delta[1], s.bw) /\ SpanFits(q.y, q.h, delta[2], s.bh)
        /\ i \in DOMAIN region.rects
    BY <1>1, <1>6 DEF RegionFits
  <2>2. Pixels(rects[i]) = InBuffer(Pixels(q), delta, s)
    <3> HIDE DEF delta
    <3> QED BY <1>1, <1>4, <2>1, ClipExact
  <2> QED
    BY <2>1, <2>2 DEF AskedOf
<1> HIDE DEF rects, asked
<1> QED
  BY <1>1, <1>2, <1>3, <1>5, <1>6 DEF rects, asked

LEMMA SurfaceCopies ==
  ASSUME NEW s \in Shapes, NEW source \in Shapes, NEW region \in Regions, NEW dest \in Points,
         BlitSurface(s, source, region, dest)
  PROVE  Copying(blit')
<1> DEFINE delta == Shift(region, dest)
           b == region.bounds
           dst == obtainKernelPtrs(s, allocBacking(s))
           src == obtainKernelPtrs(source, source.backing)
           rects == clipRegionToBuffer(region.rects, delta, s)
           asked == AskedOf(region.rects, delta, s)
           fits == RegionFits(region, dest, s)
<1>1. \/ Copy(dst, delta, src, <<0, 0>>, rects, asked, fits)
      \/ Copy(dst, delta, src, <<0, 0>>, <<b>>, Asked(<<b>>), fits)
  BY DEF BlitSurface
<1>2. IsImage(dst) /\ IsImage(src) /\ IsShift(delta) /\ IsShift(<<0, 0>>) /\ IsRect(b)
  BY SurfaceImage, Backings, RegionType, BoxType DEF IsShift
<1>3. /\ Len(rects) \in Nat /\ DOMAIN rects = 1..Len(rects) /\ DOMAIN asked = DOMAIN rects
      /\ \A i \in DOMAIN rects : IsRect(rects[i])
      /\ fits => \A i \in DOMAIN rects : asked[i] = Pixels(rects[i])
  BY RegionClips
<1> HIDE DEF delta, b, dst, src, rects, asked, fits
<1>4. CASE Copy(dst, delta, src, <<0, 0>>, rects, asked, fits)
  BY <1>2, <1>3, <1>4, CopyStarts
<1>5. CASE Copy(dst, delta, src, <<0, 0>>, <<b>>, Asked(<<b>>), fits)
  <2> DEFINE one == <<b>>
  <2>1. Len(one) \in Nat /\ DOMAIN one = 1..Len(one) /\ \A i \in DOMAIN one : IsRect(one[i])
    BY <1>2
  <2> HIDE DEF one
  <2>2. DOMAIN Asked(one) = DOMAIN one /\ \A i \in DOMAIN one : Asked(one)[i] = Pixels(one[i])
    BY DEF Asked
  <2>3. Copy(dst, delta, src, <<0, 0>>, one, Asked(one), fits)
    BY <1>5 DEF one
  <2> QED
    BY <1>2, <2>1, <2>2, <2>3, CopyStarts
<1> QED
  BY <1>1, <1>4, <1>5

LEMMA ScreenCopies ==
  ASSUME NEW s \in Shapes, NEW region \in Regions, NEW dest \in Points,
         BlitFromGFB(s, region, dest)
  PROVE  Copying(blit')
<1> DEFINE delta == Shift(region, dest)
           dst == obtainKernelPtrs(s, allocBacking(s))
           rects == clipRegionToBuffer(region.rects, delta, s)
           asked == AskedOf(region.rects, delta, s)
           fits == RegionFits(region, dest, s)
<1>1. Copy(dst, delta, GFBImage, <<0, 0>>, rects, asked, fits)
  BY DEF BlitFromGFB
<1>2. IsImage(dst) /\ IsImage(GFBImage) /\ IsShift(delta) /\ IsShift(<<0, 0>>)
  BY SurfaceImage, ScreenImage, Backings, RegionType DEF IsShift
<1>3. /\ Len(rects) \in Nat /\ DOMAIN rects = 1..Len(rects) /\ DOMAIN asked = DOMAIN rects
      /\ \A i \in DOMAIN rects : IsRect(rects[i])
      /\ fits => \A i \in DOMAIN rects : asked[i] = Pixels(rects[i])
  BY RegionClips
<1> HIDE DEF delta, dst, rects, asked, fits
<1> QED
  BY <1>1, <1>2, <1>3, CopyStarts

LEMMA SurfaceShown ==
  ASSUME NEW s \in Shapes, NEW region \in Regions, GFBOutDirect(s, region)
  PROVE  Copying(blit')
<1> DEFINE src == obtainKernelPtrs(s, s.backing)
           delta == <<-region.bounds.x, -region.bounds.y>>
           rects == region.rects
<1>1. Copy(GFBImage, <<0, 0>>, src, delta, rects, Asked(rects), TRUE)
  BY DEF GFBOutDirect
<1>2. /\ region.bounds \in Boxes /\ rects \in Seq(Boxes)
  BY RegionAssumption
<1>3. IsRect(region.bounds) /\ \A i \in DOMAIN rects : IsRect(rects[i])
  BY <1>2, BoxType
<1>4. IsImage(src) /\ IsImage(GFBImage) /\ IsShift(delta) /\ IsShift(<<0, 0>>)
  BY <1>3, SurfaceImage, ScreenImage, Backings DEF IsShift, IsRect
<1>5. Len(rects) \in Nat /\ DOMAIN rects = 1..Len(rects)
  BY <1>2
<1>6. DOMAIN Asked(rects) = DOMAIN rects /\ \A i \in DOMAIN rects : Asked(rects)[i] = Pixels(rects[i])
  BY DEF Asked
<1> HIDE DEF src, delta, rects
<1> QED
  BY <1>1, <1>3, <1>4, <1>5, <1>6, CopyStarts

LEMMA CopyStays == CopyInv /\ (NextBlit \/ UNCHANGED blit) => CopyInv'
<1> SUFFICES ASSUME CopyInv, NextBlit \/ UNCHANGED blit PROVE CopyInv'
  OBVIOUS
<1>1. ASSUME Copying(blit') PROVE CopyInv'
  BY ONLY <1>1 DEF CopyInv, Copying, IsCopy, CopyReady, OnRow, Contained, InRow, Done
<1>2. CASE blit.st = "idle" /\ \E s \in Shapes, region \in Regions :
             \/ \E source \in Shapes, dest \in Points : BlitSurface(s, source, region, dest)
             \/ \E dest \in Points : BlitFromGFB(s, region, dest)
             \/ GFBOutDirect(s, region)
  BY <1>1, <1>2, SurfaceCopies, ScreenCopies, SurfaceShown
<1>3. CASE CopyRow
  <2>1. blit # NoBlit
    <3>1. NoBlit.at \notin DOMAIN NoBlit.rects
      BY DEF NoBlit
    <3> QED
      BY <1>3, <3>1 DEF CopyRow
  <2> QED
    BY <1>1, <1>3, <2>1, RowCopies DEF CopyInv
<1>4. CASE UNCHANGED blit
  BY ONLY CopyInv, <1>4 DEF CopyInv, Copying, IsCopy, CopyReady, OnRow, Contained, InRow, Done, NoBlit
<1> QED
  BY <1>2, <1>3, <1>4 DEF NextBlit

\* A copy whose rectangles are done has copied what was wanted.
LEMMA CopyMeans == CopyInv => BlitExact
<1> SUFFICES ASSUME CopyInv, blit.st = "copy", blit.at > Len(blit.rects), blit.ask.fits
             PROVE  blit.copied = {Move(blit.ask, p) : p \in blit.ask.wanted}
  BY DEF BlitExact
<1>1. Copying(blit) /\ CopyReady(blit.ask, blit.rects) /\ OnRow(blit) /\ InRow(blit)
  BY DEF CopyInv, Copying, NoBlit
<1>2. /\ Len(blit.rects) \in Nat /\ DOMAIN blit.rects = 1..Len(blit.rects)
      /\ blit.at \in 1..(Len(blit.rects) + 1) /\ blit.at = Len(blit.rects) + 1
      /\ blit.ask.wanted = UNION {StoredRows(blit.ask, Pixels(blit.rects[i])) : i \in DOMAIN blit.rects}
      /\ blit.copied = AllMoves(blit.ask, Done(blit, blit.at, blit.row))
  BY <1>1 DEF CopyReady, OnRow, InRow
<1>3. \A m \in DOMAIN blit.rects : m < blit.at
  BY <1>2
<1>4. Done(blit, blit.at, blit.row) = blit.ask.wanted
  BY <1>2, <1>3 DEF Done
<1> QED
  BY <1>2, <1>4 DEF AllMoves

\* What was copied lies in the memory of both sides.
LEMMA CopyStaysIn == CopyInv => BlitContained
<1> SUFFICES ASSUME CopyInv PROVE BlitContained
  OBVIOUS
<1>1. CASE blit = NoBlit
  BY <1>1 DEF BlitContained, NoBlit
<1>2. CASE Copying(blit)
  BY <1>2 DEF Copying, Contained, BlitContained
<1> QED
  BY <1>1, <1>2 DEF CopyInv

LEMMA CopyStarted == Init => CopyInv
  BY DEF Init, InitBlit, CopyInv

LEMMA CopyKept == CopyInv /\ [Next]_vars => CopyInv'
<1>1. [Next]_vars => NextBlit \/ UNCHANGED blit
  BY DEF Next, PlugInStep, ClientStep, DriverStep, HelperStep, CopyStep, vars
<1> QED
  BY <1>1, CopyStays

(* Whatever geometry the client gives a surface, whatever rectangles it    *)
(* asks for and wherever they go: where the buffer of a surface starts in  *)
(* its backing, a copy leaves alone what lies before the buffer and behind *)
(* the backing (set_scale, obtainKernelPtrs, genericBlitCopy).             *)
THEOREM CopiesContained == Spec => []BlitContained
  BY CopyStarted, CopyKept, CopyStaysIn, PTL DEF Spec

(* A copy in which no number wraps moves, of every rectangle, the pixels   *)
(* that have a place in the buffer, down to the first row that is in no    *)
(* memory, from where they are to where they belong, and writes nothing    *)
(* else (clipRegionToBuffer, genericBlitCopy).                             *)
THEOREM CopiesExact == Spec => []BlitExact
  BY CopyStarted, CopyKept, CopyMeans, PTL DEF Spec

-----------------------------------------------------------------------------
(* Kernel objects: each has as many references as holders.  Who holds is a *)
(* function e from the objects to numbers; the maps that are alive hold    *)
(* what they map besides.                                                  *)

Every == Objects \cup {Channel}
Heaps == [Every -> [refs : Nat, of : Every \cup {Null}]]
Maps(h, o) == {m \in Objects : h[m].refs > 0 /\ h[m].of = o}

Balanced(h, e) ==
  /\ h \in Heaps /\ e \in [Every -> Nat]
  /\ \A o \in Every : h[o].refs = e[o] + Cardinality(Maps(h, o))
  /\ \A o \in Every : h[o].refs = 0 => h[o].of = Null
  /\ \A o \in Every : h[o].of # Null => h[h[o].of].of = Null
  /\ h[Channel].of = Null

\* The objects that were descriptors are.
Descriptor(h, o) == o \in Every /\ h[o].of = Null

More(e, o) == [e EXCEPT ![o] = @ + 1]
Less(e, o) == [e EXCEPT ![o] = @ - 1]

LEMMA MapsFinite == ASSUME NEW h, NEW o PROVE IsFiniteSet(Maps(h, o)) /\ Cardinality(Maps(h, o)) \in Nat
<1>1. Maps(h, o) \subseteq Objects /\ IsFiniteSet(Objects)
  BY ClientAssumption DEF Maps
<1> QED
  BY <1>1, FS_Subset, FS_CardinalityType

LEMMA HolderAlive ==
  ASSUME NEW h, NEW e, Balanced(h, e), NEW o \in Every
  PROVE  /\ e[o] > 0 => h[o].refs > 0
         /\ h[o].refs = 0 => e[o] = 0 /\ Maps(h, o) = {}
<1>1. h[o].refs = e[o] + Cardinality(Maps(h, o)) /\ e[o] \in Nat /\ Cardinality(Maps(h, o)) \in Nat
  BY MapsFinite DEF Balanced
<1>2. h[o].refs = 0 => Cardinality(Maps(h, o)) = 0
  BY <1>1
<1>3. Cardinality(Maps(h, o)) = 0 => Maps(h, o) = {}
  BY MapsFinite, FS_EmptySet
<1> QED
  BY <1>1, <1>2, <1>3

LEMMA Retains ==
  ASSUME NEW h, NEW e, Balanced(h, e), NEW o \in Every, h[o].refs > 0
  PROVE  /\ Balanced(retain(h, o), More(e, o))
         /\ \A p \in Every : retain(h, o)[p].of = h[p].of
<1> DEFINE g == retain(h, o)
           f == More(e, o)
<1>1. /\ g \in Heaps /\ f \in [Every -> Nat]
      /\ g[o].refs = h[o].refs + 1 /\ f[o] = e[o] + 1
      /\ \A p \in Every : g[p].of = h[p].of /\ (p # o => g[p].refs = h[p].refs /\ f[p] = e[p])
  BY DEF Balanced, Heaps, retain, More
<1> HIDE DEF g, f
<1>2. \A p \in Every : Maps(g, p) = Maps(h, p)
  <2>1. \A m \in Objects : m \in Every /\ h[m].refs \in Nat
    BY DEF Balanced, Heaps, Every
  <2>2. \A m \in Objects : g[m].refs > 0 <=> h[m].refs > 0
    BY <1>1, <2>1
  <2> QED BY <1>1, <2>1, <2>2 DEF Maps
<1>3. \A p \in Every : g[p].refs = f[p] + Cardinality(Maps(g, p))
  <2>1. \A p \in Every : h[p].refs = e[p] + Cardinality(Maps(h, p)) /\ e[p] \in Nat /\ Cardinality(Maps(h, p)) \in Nat
    BY MapsFinite DEF Balanced
  <2> QED BY <1>1, <1>2, <2>1
<1>4. \A p \in Every : g[p].refs = 0 => g[p].of = Null
  <2>1. h[o].refs \in Nat
    BY DEF Balanced, Heaps
  <2> QED BY <1>1, <2>1 DEF Balanced
<1>5. \A p \in Every : g[p].of # Null => g[g[p].of].of = Null
  <2>1. \A p \in Every : h[p].of # Null => h[p].of \in Every /\ h[h[p].of].of = Null
    BY DEF Balanced, Heaps
  <2> QED BY <1>1, <2>1
<1>6. g[Channel].of = Null
  BY <1>1 DEF Balanced, Every
<1>7. Balanced(g, f)
  BY <1>1, <1>3, <1>4, <1>5, <1>6 DEF Balanced
<1> QED
  BY <1>1, <1>7 DEF g, f

\* How a new object is told apart: nobody held it.
LEMMA NewGives ==
  ASSUME NEW h, NEW e, Balanced(h, e), NEW of, of = Null \/ (Descriptor(h, of) /\ h[of].refs > 0),
         NEW n \in New(h, of)
  PROVE  \/ n.o = Null /\ n.h = h
         \/ /\ n.o \in Objects /\ h[n.o].refs = 0
            /\ Balanced(n.h, More(e, n.o)) /\ n.h[n.o].of = of
            /\ \A p \in Every : p # n.o => n.h[p].of = h[p].of
<1> DEFINE left == {p \in Objects : h[p].refs = 0}
           o == CHOOSE p \in left : TRUE
           b == IF of = Null THEN h ELSE retain(h, of)
           k == [b EXCEPT ![o] = [refs |-> 1, of |-> of]]
           f == More(e, o)
<1>1. n = [o |-> Null, h |-> h] \/ (left # {} /\ n = [o |-> o, h |-> k])
  BY DEF New
<1> HIDE DEF left, o, b, k
<1> SUFFICES ASSUME left # {}
             PROVE  /\ o \in Objects /\ h[o].refs = 0 /\ Balanced(k, f) /\ k[o].of = of
                    /\ \A p \in Every : p # o => k[p].of = h[p].of
  BY <1>1
<1>2. o \in Objects /\ h[o].refs = 0
  BY DEF left, o
<1>3. o \in Objects /\ o \in Every /\ h[o].refs = 0 /\ o # of /\ o # Channel /\ (of \in Every => of # Null)
  BY <1>2, ClientAssumption DEF Every, Descriptor
<1>4. e[o] = 0 /\ Maps(h, o) = {} /\ h[o].of = Null
  BY <1>3, HolderAlive DEF Balanced
<1>5. h \in Heaps /\ \A p \in Every : h[p].refs \in Nat /\ h[p].of \in Every \cup {Null}
  BY DEF Balanced, Heaps
<1>6. /\ b \in Heaps /\ (of # Null => b[of].refs = h[of].refs + 1)
      /\ \A p \in Every : b[p].of = h[p].of /\ (p # of => b[p].refs = h[p].refs)
  BY <1>5 DEF retain, Heaps, Descriptor, b
<1>7. /\ k \in Heaps /\ k[o].refs = 1 /\ k[o].of = of
      /\ \A p \in Every : p # o => k[p] = b[p]
  BY <1>3, <1>6 DEF Heaps, Descriptor, k
<1>8. f \in [Every -> Nat] /\ f[o] = 1 /\ \A p \in Every : p # o => f[p] = e[p]
  BY <1>3, <1>4 DEF Balanced, More
<1> HIDE DEF f
<1>9. \A p \in Every : Maps(k, p) = Maps(h, p) \cup (IF p = of THEN {o} ELSE {}) /\ o \notin Maps(h, p)
  <2>1. \A m \in Objects : m # o => (k[m].refs > 0 <=> h[m].refs > 0) /\ k[m].of = h[m].of
    <3>1. \A m \in Objects : m \in Every
      BY DEF Every
    <3>2. of # Null => b[of].refs > 0 /\ h[of].refs > 0
      BY <1>5, <1>6 DEF Descriptor
    <3>3. ASSUME NEW m \in Objects, m # o
          PROVE  (k[m].refs > 0 <=> h[m].refs > 0) /\ k[m].of = h[m].of
      <4>1. k[m] = b[m] /\ b[m].of = h[m].of /\ m # Null
        BY <1>6, <1>7, <3>1, <3>3, ClientAssumption
      <4>2. m # of => b[m].refs = h[m].refs
        BY <1>6, <3>1
      <4> QED BY <3>2, <4>1, <4>2
    <3> QED BY <3>3
  <2>2. \A p \in Every : o \notin Maps(h, p)
    BY <1>3 DEF Maps
  <2> QED BY <1>3, <1>7, <2>1, <2>2 DEF Maps
<1>10. ASSUME NEW p \in Every PROVE k[p].refs = f[p] + Cardinality(Maps(k, p))
  <2>1. h[p].refs = e[p] + Cardinality(Maps(h, p)) /\ e[p] \in Nat /\ Cardinality(Maps(h, p)) \in Nat
    BY MapsFinite DEF Balanced
  <2>2. CASE p = o
    <3>1. Maps(k, o) = {}
      BY <1>3, <1>4, <1>9
    <3> QED BY <1>7, <1>8, <2>2, <3>1, FS_EmptySet
  <2>3. CASE p = of /\ p # o
    <3>1. Maps(k, p) = Maps(h, p) \cup {o} /\ o \notin Maps(h, p)
      BY <1>9, <2>3
    <3>2. Cardinality(Maps(k, p)) = Cardinality(Maps(h, p)) + 1
      BY <3>1, MapsFinite, FS_AddElement
    <3>3. k[p].refs = h[p].refs + 1 /\ f[p] = e[p]
      BY <1>6, <1>7, <1>8, <2>3, ClientAssumption DEF Every
    <3> QED BY <2>1, <3>2, <3>3
  <2>4. CASE p # of /\ p # o
    <3>1. Maps(k, p) = Maps(h, p)
      BY <1>9, <2>4
    <3>2. k[p].refs = h[p].refs /\ f[p] = e[p]
      BY <1>6, <1>7, <1>8, <2>4
    <3> QED BY <2>1, <3>1, <3>2
  <2> QED BY <2>2, <2>3, <2>4
<1>11. \A p \in Every : p # o => k[p].of = h[p].of
  BY <1>6, <1>7
<1>12. \A p \in Every : k[p].refs = 0 => k[p].of = Null
  <2>1. ASSUME NEW p \in Every, p # o, k[p].refs = 0 PROVE h[p].refs = 0
    <3>1. p # of => h[p].refs = 0
      BY <1>6, <1>7, <2>1
    <3>2. p = of => h[p].refs = 0
      BY <1>3, <1>5, <1>6, <1>7, <2>1
    <3> QED BY <3>1, <3>2
  <2> QED BY <1>7, <1>11, <2>1 DEF Balanced
<1>13. \A p \in Every : k[p].of # Null => k[k[p].of].of = Null
  <2>1. \A p \in Every : h[p].of # o
    <3>1. ASSUME NEW p \in Every, h[p].of = o PROVE FALSE
      <4>1. h[p].refs > 0 /\ p \in Objects
        BY <1>3, <1>5, <3>1, ClientAssumption DEF Balanced, Every
      <4> QED BY <1>4, <3>1, <4>1 DEF Maps
    <3> QED BY <3>1
  <2>2. \A p \in Every : h[p].of # Null => h[h[p].of].of = Null /\ h[p].of \in Every
    BY <1>5 DEF Balanced
  <2>3. of # Null => k[of].of = Null
    BY <1>3, <1>11 DEF Descriptor
  <2> QED BY <1>7, <1>11, <2>1, <2>2, <2>3
<1>14. k[Channel].of = Null
  BY <1>3, <1>11 DEF Balanced, Every
<1>15. Balanced(k, f)
  BY <1>7, <1>8, <1>10, <1>12, <1>13, <1>14 DEF Balanced
<1> QED
  BY <1>3, <1>7, <1>11, <1>15

LEMMA Releases ==
  ASSUME NEW h, NEW e, Balanced(h, e), NEW o \in Every, e[o] > 0
  PROVE  /\ Balanced(release(h, o), Less(e, o))
         /\ \A p \in Every : release(h, o)[p].of \in {h[p].of, Null} /\ (p # o => release(h, o)[p].of = h[p].of)
<1> DEFINE k == release(h, o)
           f == Less(e, o)
           t == h[o].of
           Last == h[o].refs = 1 /\ t # Null
<1>1. h \in Heaps /\ \A p \in Every : h[p].refs \in Nat /\ h[p].of \in Every \cup {Null}
  BY DEF Balanced, Heaps
<1>2. \A p \in Every : h[p].refs = e[p] + Cardinality(Maps(h, p)) /\ e[p] \in Nat /\ Cardinality(Maps(h, p)) \in Nat
  BY MapsFinite DEF Balanced
<1>3. h[o].refs > 0
  BY HolderAlive
<1>4. f \in [Every -> Nat] /\ f[o] = e[o] - 1 /\ \A p \in Every : p # o => f[p] = e[p]
  BY <1>2 DEF Balanced, Less
<1>5. ASSUME Last
      PROVE  /\ t \in Every /\ t # o /\ o \in Objects /\ o \in Maps(h, t) /\ h[t].refs > 0
             /\ e[o] = 1 /\ Cardinality(Maps(h, o)) = 0
             /\ k \in Heaps /\ k[o].refs = 0 /\ k[o].of = Null /\ k[t].refs = h[t].refs - 1 /\ k[t].of = h[t].of
             /\ \A p \in Every : p # o /\ p # t => k[p] = h[p]
  <2>1. t \in Every /\ t # o /\ o \in Objects
    BY <1>1, <1>5 DEF Balanced, Every
  <2>2. o \in Maps(h, t)
    BY <1>5, <2>1 DEF Maps
  <2>3. h[t].refs > 0
    BY <2>1, <2>2, HolderAlive, <1>1
  <2>4. e[o] = 1 /\ Cardinality(Maps(h, o)) = 0
    BY <1>2, <1>5
  <2>5. k = [h EXCEPT ![o] = [refs |-> 0, of |-> Null], ![t].refs = @ - 1]
    BY <1>5 DEF release
  <2> HIDE DEF k, t
  <2>6. /\ k \in Heaps /\ k[o].refs = 0 /\ k[o].of = Null /\ k[t].refs = h[t].refs - 1 /\ k[t].of = h[t].of
        /\ \A p \in Every : p # o /\ p # t => k[p] = h[p]
    BY <1>1, <2>1, <2>3, <2>5 DEF Heaps
  <2> QED BY <2>1, <2>2, <2>3, <2>4, <2>6
<1>6. ASSUME ~Last
      PROVE  /\ k \in Heaps /\ k[o].refs = h[o].refs - 1 /\ k[o].of = h[o].of
             /\ \A p \in Every : p # o => k[p] = h[p]
  <2>1. k = [h EXCEPT ![o].refs = @ - 1]
    BY <1>6 DEF release
  <2> HIDE DEF k
  <2> QED BY <1>1, <1>3, <2>1 DEF Heaps
<1> HIDE DEF k, f
<1>7. \A p \in Every : k[p].of \in {h[p].of, Null} /\ (p # o => k[p].of = h[p].of)
  BY <1>5, <1>6
<1>8. \A p \in Every : Maps(k, p) = Maps(h, p) \ (IF Last /\ p = t THEN {o} ELSE {})
  <2>1. \A m \in Objects : m \in Every /\ h[m].refs \in Nat
    BY <1>1 DEF Every
  <2>2. CASE Last
    <3>1. \A m \in Objects, p \in Every :
            m # o => ((k[m].refs > 0 /\ k[m].of = p) <=> (h[m].refs > 0 /\ h[m].of = p))
      <4>1. \A m \in Objects : m # o /\ m = t => k[m].of = Null /\ h[m].of = Null
        BY <1>5, <2>2 DEF Balanced
      <4>2. \A p \in Every : p # Null
        BY ClientAssumption DEF Every
      <4> QED BY <1>5, <2>1, <2>2, <4>1, <4>2
    <3>2. \A p \in Every : o \notin Maps(k, p) /\ (o \in Maps(h, p) => p = t)
      BY <1>5, <2>2 DEF Maps
    <3> QED BY <2>2, <3>1, <3>2 DEF Maps
  <2>3. CASE ~Last
    <3>1. \A m \in Objects, p \in Every :
            (k[m].refs > 0 /\ k[m].of = p) <=> (h[m].refs > 0 /\ h[m].of = p)
      <4>1. \A p \in Every : p # Null
        BY ClientAssumption DEF Every
      <4>2. h[o].refs = 1 => h[o].of = Null /\ k[o].of = Null
        BY <1>6, <2>3
      <4>3. h[o].refs # 1 => h[o].refs > 0 /\ k[o].refs > 0
        BY <1>1, <1>3, <1>6, <2>3
      <4> QED BY <1>6, <2>1, <2>3, <4>1, <4>2, <4>3
    <3> QED BY <2>3, <3>1 DEF Maps
  <2> QED BY <2>2, <2>3
<1>9. ASSUME NEW p \in Every PROVE k[p].refs = f[p] + Cardinality(Maps(k, p))
  <2>1. CASE Last /\ p = t
    <3>1. Maps(k, p) = Maps(h, p) \ {o} /\ o \in Maps(h, p)
      BY <1>5, <1>8, <2>1
    <3>2. Cardinality(Maps(k, p)) = Cardinality(Maps(h, p)) - 1
      BY <3>1, MapsFinite, FS_RemoveElement
    <3>3. k[p].refs = h[p].refs - 1 /\ f[p] = e[p]
      BY <1>4, <1>5, <2>1
    <3> QED BY <1>2, <3>2, <3>3
  <2>2. CASE ~(Last /\ p = t)
    <3>1. Maps(k, p) = Maps(h, p)
      BY <1>8, <2>2
    <3>2. CASE p = o
      <4>1. k[o].refs = h[o].refs - 1
        BY <1>5, <1>6, <1>1
      <4> QED BY <1>2, <1>4, <3>1, <3>2, <4>1
    <3>3. CASE p # o
      <4>1. k[p].refs = h[p].refs
        BY <1>5, <1>6, <2>2, <3>3
      <4> QED BY <1>2, <1>4, <3>1, <3>3, <4>1
    <3> QED BY <3>2, <3>3
  <2> QED BY <2>1, <2>2
<1>10. \A p \in Every : k[p].refs = 0 => k[p].of = Null
  <2>1. CASE Last
    <3>1. h[t].of = Null
      BY <1>5, <2>1 DEF Balanced
    <3> QED BY <1>5, <2>1, <3>1 DEF Balanced
  <2>2. CASE ~Last
    <3>1. k[o].refs = 0 => k[o].of = Null
      BY <1>1, <1>3, <1>6, <2>2
    <3> QED BY <1>6, <2>2, <3>1 DEF Balanced
  <2> QED BY <2>1, <2>2
<1>11. \A p \in Every : k[p].of # Null => k[k[p].of].of = Null
  <2>1. \A p \in Every : h[p].of # Null => h[h[p].of].of = Null /\ h[p].of \in Every
    BY <1>1 DEF Balanced
  <2> QED BY <1>7, <2>1
<1>12. k[Channel].of = Null
  BY <1>7 DEF Balanced, Every
<1>13. k \in Heaps
  BY <1>5, <1>6
<1>14. Balanced(k, f)
  BY <1>4, <1>9, <1>10, <1>11, <1>12, <1>13 DEF Balanced
<1> QED
  BY <1>7, <1>14 DEF k, f

\* What releaseAll releases is the objects of a set, one after the other.
One(h, o) == IF o = Null THEN h ELSE release(h, o)
Pick(t) == CHOOSE o \in t : TRUE
Unrolls(h, S, f) == f = [t \in S |-> IF t = {} THEN h ELSE One(f[t \ {Pick(t)}], Pick(t))]
Without(e, s) == [o \in Every |-> IF o \in s THEN e[o] - 1 ELSE e[o]]

LEMMA AllIs ==
  ASSUME NEW h, NEW s PROVE releaseAll(h, s) = (CHOOSE f : Unrolls(h, SUBSET s, f))[s]
BY Zenon DEF releaseAll, Unrolls, One, Pick

LEMMA Picked == ASSUME NEW t, t # {} PROVE Pick(t) \in t
BY DEF Pick

LEMMA Smaller ==
  ASSUME NEW s, IsFiniteSet(s), NEW t \in SUBSET s
  PROVE  /\ IsFiniteSet(t) /\ Cardinality(t) \in Nat /\ Cardinality(t) <= Cardinality(s)
         /\ Cardinality(s) \in Nat /\ (Cardinality(t) = 0 <=> t = {})
         /\ t # {} => Cardinality(t \ {Pick(t)}) = Cardinality(t) - 1 /\ t \ {Pick(t)} \in SUBSET s
<1>1. IsFiniteSet(t) /\ Cardinality(t) <= Cardinality(s)
  BY FS_Subset
<1>2. Cardinality(t) \in Nat /\ Cardinality(s) \in Nat /\ (Cardinality(t) = 0 <=> t = {})
  BY <1>1, FS_CardinalityType, FS_EmptySet
<1>3. t # {} => Cardinality(t \ {Pick(t)}) = Cardinality(t) - 1
  BY <1>1, Picked, FS_RemoveElement
<1> QED
  BY <1>1, <1>2, <1>3

LEMMA UnrollExists ==
  ASSUME NEW h, NEW s, IsFiniteSet(s) PROVE \E f : Unrolls(h, SUBSET s, f)
<1> DEFINE Small(n) == {t \in SUBSET s : Cardinality(t) <= n}
           Bad == {n \in Nat : ~\E f : Unrolls(h, Small(n), f)}
<1>1. Cardinality(s) \in Nat /\ Small(Cardinality(s)) = SUBSET s
  <2>1. \A t \in SUBSET s : Cardinality(t) <= Cardinality(s) /\ Cardinality(s) \in Nat
    BY Smaller
  <2> QED BY <2>1, FS_CardinalityType
<1> SUFFICES ASSUME Bad # {} PROVE FALSE
  <2>1. Bad = {} => \E f : Unrolls(h, Small(Cardinality(s)), f)
    BY <1>1
  <2> QED BY <1>1, <2>1
<1>2. PICK m \in Bad : \A k \in Bad : <<k, m>> \notin OpToRel(<, Nat)
  BY WFMin, NatLessThanWellFounded, Zenon
<1>3. m \in Nat /\ \A k \in Bad : ~(k < m)
  <2>1. ASSUME NEW k \in Bad PROVE ~(k < m)
    <3>1. <<k, m>> \notin OpToRel(<, Nat)
      BY <1>2
    <3>2. k \in Nat /\ m \in Nat
      OBVIOUS
    <3> QED BY <3>1, <3>2, Zenon DEF OpToRel
  <2> QED BY <2>1
<1>4. m # 0
  <2> DEFINE g == [t \in {{}} |-> h]
  <2>1. Small(0) = {{}}
    <3>1. ASSUME NEW t \in SUBSET s PROVE Cardinality(t) <= 0 <=> t = {}
      <4>1. Cardinality(t) \in Nat /\ (Cardinality(t) = 0 <=> t = {})
        BY Smaller
      <4> QED BY <4>1
    <3> QED BY <3>1
  <2>2. Unrolls(h, {{}}, g)
    BY DEF Unrolls
  <2> HIDE DEF g, Small
  <2>3. 0 \notin Bad
    BY <2>1, <2>2
  <2> QED BY <2>3
<1>5. m - 1 \in Nat /\ m - 1 \notin Bad
  <2>1. m - 1 \in Nat /\ m - 1 < m
    BY <1>3, <1>4
  <2> HIDE DEF Bad
  <2> QED BY <1>3, <2>1
<1>6. PICK g : Unrolls(h, Small(m - 1), g)
  BY <1>5
<1> DEFINE k == [t \in Small(m) |-> IF Cardinality(t) <= m - 1 THEN g[t] ELSE One(g[t \ {Pick(t)}], Pick(t))]
<1>7. ASSUME NEW t \in Small(m)
      PROVE  k[t] = IF t = {} THEN h ELSE One(k[t \ {Pick(t)}], Pick(t))
  <2> DEFINE u == t \ {Pick(t)}
  <2>1. t # {} => Cardinality(u) = Cardinality(t) - 1 /\ u \in SUBSET s
    BY Smaller
  <2>2. Cardinality(t) \in Nat /\ Cardinality(t) <= m /\ (Cardinality(t) = 0 <=> t = {})
    BY Smaller
  <2>3. t # {} => u \in Small(m) /\ u \in Small(m - 1) /\ Cardinality(u) <= m - 1
    BY <1>3, <2>1, <2>2
  <2>4. t # {} => k[u] = g[u]
    <3> HIDE DEF u
    <3> QED BY <2>3
  <2>5. CASE Cardinality(t) <= m - 1
    <3>1. t \in Small(m - 1) /\ k[t] = g[t]
      BY <2>5
    <3>2. g[t] = IF t = {} THEN h ELSE One(g[u], Pick(t))
      BY <1>6, <3>1 DEF Unrolls
    <3> HIDE DEF k, u
    <3>3. k[t] = IF t = {} THEN h ELSE One(k[u], Pick(t))
      BY <2>4, <3>1, <3>2
    <3> QED BY <3>3 DEF u
  <2>6. CASE ~(Cardinality(t) <= m - 1)
    <3>1. t # {} /\ k[t] = One(g[u], Pick(t))
      BY <1>5, <2>2, <2>6
    <3> HIDE DEF k, u
    <3>2. k[t] = IF t = {} THEN h ELSE One(k[u], Pick(t))
      BY <2>4, <3>1
    <3> QED BY <3>2 DEF u
  <2> QED BY <2>5, <2>6
<1>8. Unrolls(h, Small(m), k)
  <2>1. k = [t \in Small(m) |-> k[t]]
    OBVIOUS
  <2> HIDE DEF k, Small
  <2> QED BY <1>7, <2>1 DEF Unrolls
<1> HIDE DEF k, Small
<1>9. \E f : Unrolls(h, Small(m), f)
  BY <1>8
<1> QED
  BY <1>2, <1>9

LEMMA ReleasesAll ==
  ASSUME NEW h, NEW e, Balanced(h, e), NEW s \in SUBSET (Every \cup {Null}), IsFiniteSet(s),
         \A o \in s : o # Null => e[o] > 0
  PROVE  /\ Balanced(releaseAll(h, s), Without(e, s))
         /\ \A p \in Every : releaseAll(h, s)[p].of \in {h[p].of, Null}
                             /\ (p \notin s => releaseAll(h, s)[p].of = h[p].of)
<1> DEFINE f == CHOOSE g : Unrolls(h, SUBSET s, g)
           Good(t) == /\ Balanced(f[t], Without(e, t))
                      /\ \A p \in Every : f[t][p].of \in {h[p].of, Null} /\ (p \notin t => f[t][p].of = h[p].of)
           Bad == {n \in Nat : \E t \in SUBSET s : Cardinality(t) = n /\ ~Good(t)}
<1>1. Unrolls(h, SUBSET s, f) /\ releaseAll(h, s) = f[s]
  BY UnrollExists, AllIs
<1> HIDE DEF f
<1>2. \A t \in SUBSET s : f[t] = IF t = {} THEN h ELSE One(f[t \ {Pick(t)}], Pick(t))
  BY <1>1 DEF Unrolls
<1> SUFFICES ASSUME Bad # {} PROVE FALSE
  <2>1. Cardinality(s) \in Nat /\ s \in SUBSET s
    BY FS_CardinalityType
  <2> HIDE DEF Good
  <2>2. Bad = {} => Good(s)
    BY <2>1
  <2>3. Bad = {}
    OBVIOUS
  <2> QED BY <1>1, <2>2, <2>3 DEF Good
<1>3. PICK m \in Bad : \A k \in Bad : <<k, m>> \notin OpToRel(<, Nat)
  <2>1. Bad \subseteq Nat
    OBVIOUS
  <2> HIDE DEF Bad
  <2> QED BY <2>1, WFMin, NatLessThanWellFounded, Zenon
<1>4. m \in Nat /\ \A k \in Bad : ~(k < m)
  <2>1. ASSUME NEW k \in Bad PROVE ~(k < m)
    <3>1. <<k, m>> \notin OpToRel(<, Nat)
      BY <1>3
    <3>2. k \in Nat /\ m \in Nat
      OBVIOUS
    <3> QED BY <3>1, <3>2, Zenon DEF OpToRel
  <2> QED BY <2>1
<1> HIDE DEF Good
<1>5. PICK t \in SUBSET s : Cardinality(t) = m /\ ~Good(t)
  BY <1>3
<1>6. t # {}
  <2>1. f[{}] = h
    BY <1>2
  <2>2. Without(e, {}) = e
    BY DEF Without, Balanced
  <2>3. Good({})
    BY <2>1, <2>2 DEF Good
  <2> QED BY <1>5, <2>3
<1> DEFINE o == Pick(t)
           u == t \ {o}
<1>7. o \in t /\ u \in SUBSET s /\ Cardinality(u) = m - 1 /\ m - 1 \in Nat
  <2>1. Cardinality(t) \in Nat /\ Cardinality(t) # 0
    BY <1>6, Smaller
  <2>2. Cardinality(u) = Cardinality(t) - 1 /\ u \in SUBSET s
    BY <1>6, Smaller
  <2>3. o \in t
    BY <1>6, Picked
  <2> HIDE DEF o, u
  <2> QED BY <1>5, <2>1, <2>2, <2>3
<1> HIDE DEF o
<1>8. Good(u)
  BY <1>4, <1>7
<1>9. f[t] = One(f[u], o)
  BY <1>2, <1>6 DEF o
<1>10. CASE o = Null
  <2>1. f[t] = f[u]
    BY <1>9, <1>10 DEF One
  <2>2. Without(e, u) = Without(e, t)
    BY <1>7, <1>10, ClientAssumption DEF Without, Every
  <2>3. Good(t)
    BY <1>7, <1>8, <2>1, <2>2, <1>10 DEF Good
  <2> QED BY <1>5, <2>3
<1>11. CASE o # Null
  <2> DEFINE w == Without(e, u)
             g == f[u]
  <2>1. o \in Every /\ e[o] > 0 /\ w[o] = e[o] /\ o \notin u
    BY <1>7, <1>11 DEF Without
  <2>2. Without(e, t) = Less(w, o)
    BY <1>7, <2>1 DEF Without, Less
  <2>3. f[t] = release(g, o)
    BY <1>9, <1>11 DEF One
  <2> HIDE DEF w, g
  <2>4. Balanced(g, w) /\ \A p \in Every : g[p].of \in {h[p].of, Null} /\ (p \notin u => g[p].of = h[p].of)
    BY <1>8 DEF Good, w, g
  <2>5. /\ Balanced(release(g, o), Less(w, o))
        /\ \A p \in Every : release(g, o)[p].of \in {g[p].of, Null} /\ (p # o => release(g, o)[p].of = g[p].of)
    BY <2>1, <2>4, Releases
  <2>6. Good(t)
    BY <1>7, <2>2, <2>3, <2>4, <2>5 DEF Good
  <2> QED BY <1>5, <2>6
<1> QED
  BY <1>10, <1>11

-----------------------------------------------------------------------------
(* The clients.                                                            *)

B(p) == IF p THEN 1 ELSE 0

GLType ==
  [open : BOOLEAN, gc : SUBSET Objects, context_buffer0 : Objects \cup {Null},
   command_buffer : Objects \cup {Null}, fences : Objects \cup {Null},
   doublings : Nat, mem_type : {0, 4}]
DeviceType == [open : BOOLEAN, channel_memory_map : Objects \cup {Null}]

\* The references one context with fields g and its client with maps u hold.
Own(g, u, o) ==
  B(g.context_buffer0 = o) + B(g.command_buffer = o) + B(g.fences = o) + B(o \in g.gc) + B(o \in u)

\* Those of the contexts in S, and of all but contexts.
Parts(S, G, U, o) ==
  Cardinality({c \in S : G[c].context_buffer0 = o}) + Cardinality({c \in S : G[c].command_buffer = o})
  + Cardinality({c \in S : G[c].fences = o}) + Cardinality({c \in S : o \in G[c].gc})
  + Cardinality({c \in S : o \in U[c]})
Fixed(D, o) == Cardinality({d \in Devices : D[d].channel_memory_map = o}) + B(o = Channel)

Counted == [o \in Every |-> Parts(GLContexts, gl, user, o) + Fixed(cd, o)]
Besides(c) == [o \in Every |-> Parts(GLContexts \ {c}, gl, user, o) + Fixed(cd, o)]
Total(R, g, u) == [o \in Every |-> R[o] + Own(g, u, o)]

\* A context's descriptors are three objects, and descriptors they are.
Distinct(g) ==
  /\ g.context_buffer0 # Null => g.context_buffer0 \notin {g.command_buffer, g.fences}
  /\ g.command_buffer # Null => g.command_buffer # g.fences
Descriptors(g) == {g.context_buffer0, g.command_buffer, g.fences} \ {Null}
PlainlyHeld(g, h) == \A p \in Descriptors(g) : h[p].of = Null

\* An open context has what start allocates, a closed one nothing.
Opened(g, u) ==
  IF g.open THEN g.context_buffer0 # Null /\ g.command_buffer # Null
  ELSE Descriptors(g) = {} /\ g.gc = {} /\ u = {}

ClientInv ==
  /\ gl \in [GLContexts -> GLType] /\ user \in [GLContexts -> SUBSET Objects]
  /\ cd \in [Devices -> DeviceType]
  /\ Balanced(obj, Counted)
  /\ \A c \in GLContexts : Distinct(gl[c]) /\ PlainlyHeld(gl[c], obj) /\ Opened(gl[c], user[c])

LEMMA SplitOff ==
  ASSUME NEW S, IsFiniteSet(S), NEW A \in SUBSET S, NEW c
  PROVE  Cardinality(A) \in Nat /\ Cardinality(A \ {c}) \in Nat
         /\ Cardinality(A) = Cardinality(A \ {c}) + B(c \in A)
<1>1. IsFiniteSet(A) /\ IsFiniteSet(A \ {c})
  BY FS_Subset, FS_RemoveElement
<1>2. Cardinality(A) \in Nat /\ Cardinality(A \ {c}) \in Nat
  BY <1>1, FS_CardinalityType
<1>3. Cardinality(A \ {c}) = IF c \in A THEN Cardinality(A) - 1 ELSE Cardinality(A)
  BY <1>1, FS_RemoveElement
<1> QED
  BY <1>2, <1>3 DEF B

LEMMA PartsSplit ==
  ASSUME NEW G, NEW U, NEW c \in GLContexts, NEW o
  PROVE  /\ Parts(GLContexts \ {c}, G, U, o) \in Nat
         /\ Own(G[c], U[c], o) \in Nat
         /\ Parts(GLContexts, G, U, o) = Parts(GLContexts \ {c}, G, U, o) + Own(G[c], U[c], o)
<1> DEFINE S == GLContexts
           T == GLContexts \ {c}
           A0(X) == {d \in X : G[d].context_buffer0 = o}
           A1(X) == {d \in X : G[d].command_buffer = o}
           A2(X) == {d \in X : G[d].fences = o}
           A3(X) == {d \in X : o \in G[d].gc}
           A4(X) == {d \in X : o \in U[d]}
<1>1. /\ A0(T) = A0(S) \ {c} /\ A1(T) = A1(S) \ {c} /\ A2(T) = A2(S) \ {c}
      /\ A3(T) = A3(S) \ {c} /\ A4(T) = A4(S) \ {c}
  OBVIOUS
<1>2. /\ A0(S) \in SUBSET S /\ A1(S) \in SUBSET S /\ A2(S) \in SUBSET S
      /\ A3(S) \in SUBSET S /\ A4(S) \in SUBSET S
  OBVIOUS
<1>3. /\ c \in A0(S) <=> G[c].context_buffer0 = o
      /\ c \in A1(S) <=> G[c].command_buffer = o
      /\ c \in A2(S) <=> G[c].fences = o
      /\ c \in A3(S) <=> o \in G[c].gc
      /\ c \in A4(S) <=> o \in U[c]
  OBVIOUS
<1>4. /\ Parts(T, G, U, o) = Cardinality(A0(T)) + Cardinality(A1(T)) + Cardinality(A2(T))
                             + Cardinality(A3(T)) + Cardinality(A4(T))
      /\ Parts(S, G, U, o) = Cardinality(A0(S)) + Cardinality(A1(S)) + Cardinality(A2(S))
                             + Cardinality(A3(S)) + Cardinality(A4(S))
  BY DEF Parts
<1> HIDE DEF A0, A1, A2, A3, A4
<1>5. IsFiniteSet(S)
  BY ClientAssumption
<1>6. /\ Cardinality(A0(T)) \in Nat /\ Cardinality(A0(S)) = Cardinality(A0(T)) + B(c \in A0(S))
      /\ Cardinality(A1(T)) \in Nat /\ Cardinality(A1(S)) = Cardinality(A1(T)) + B(c \in A1(S))
      /\ Cardinality(A2(T)) \in Nat /\ Cardinality(A2(S)) = Cardinality(A2(T)) + B(c \in A2(S))
  BY <1>1, <1>2, <1>5, SplitOff
<1>7. /\ Cardinality(A3(T)) \in Nat /\ Cardinality(A3(S)) = Cardinality(A3(T)) + B(c \in A3(S))
      /\ Cardinality(A4(T)) \in Nat /\ Cardinality(A4(S)) = Cardinality(A4(T)) + B(c \in A4(S))
  BY <1>1, <1>2, <1>5, SplitOff
<1>8. Own(G[c], U[c], o) = B(c \in A0(S)) + B(c \in A1(S)) + B(c \in A2(S)) + B(c \in A3(S)) + B(c \in A4(S))
  BY <1>3 DEF Own
<1>9. \A p : B(p) \in Nat
  BY DEF B
<1> QED
  BY <1>4, <1>6, <1>7, <1>8, <1>9

LEMMA PartsSame ==
  ASSUME NEW S, NEW G, NEW U, NEW H, NEW V, \A c \in S : G[c] = H[c] /\ U[c] = V[c], NEW o
  PROVE  Parts(S, G, U, o) = Parts(S, H, V, o)
<1>1. /\ {c \in S : G[c].context_buffer0 = o} = {c \in S : H[c].context_buffer0 = o}
      /\ {c \in S : G[c].command_buffer = o} = {c \in S : H[c].command_buffer = o}
      /\ {c \in S : G[c].fences = o} = {c \in S : H[c].fences = o}
      /\ {c \in S : o \in G[c].gc} = {c \in S : o \in H[c].gc}
      /\ {c \in S : o \in U[c]} = {c \in S : o \in V[c]}
  OBVIOUS
<1> QED
  BY <1>1 DEF Parts

LEMMA FixedType == ASSUME NEW D, NEW o PROVE Fixed(D, o) \in Nat
<1>1. Cardinality({d \in Devices : D[d].channel_memory_map = o}) \in Nat
  BY ClientAssumption, FS_Subset, FS_CardinalityType
<1> QED
  BY <1>1 DEF Fixed, B

LEMMA CountedSplits ==
  ASSUME NEW c \in GLContexts
  PROVE  /\ Besides(c) \in [Every -> Nat] /\ Counted = Total(Besides(c), gl[c], user[c])
         /\ \A g, u : Total(Besides(c), g, u) \in [Every -> Nat]
<1> DEFINE R == Besides(c)
<1>1. \A o \in Every : R[o] = Parts(GLContexts \ {c}, gl, user, o) + Fixed(cd, o)
  BY DEF Besides
<1>2. \A o \in Every : R[o] \in Nat
  <2> TAKE o \in Every
  <2>1. Parts(GLContexts \ {c}, gl, user, o) \in Nat
    BY PartsSplit
  <2>2. Fixed(cd, o) \in Nat
    BY FixedType
  <2>3. R[o] = Parts(GLContexts \ {c}, gl, user, o) + Fixed(cd, o)
    BY <1>1
  <2> HIDE DEF R
  <2> QED BY <2>1, <2>2, <2>3
<1>3. R = [o \in Every |-> R[o]]
  BY DEF Besides
<1> HIDE DEF R
<1>4. \A o \in Every : Counted[o] = R[o] + Own(gl[c], user[c], o)
  <2> TAKE o \in Every
  <2>1. Counted[o] = Parts(GLContexts, gl, user, o) + Fixed(cd, o)
    BY DEF Counted
  <2>2. /\ Parts(GLContexts \ {c}, gl, user, o) \in Nat /\ Own(gl[c], user[c], o) \in Nat
        /\ Parts(GLContexts, gl, user, o) = Parts(GLContexts \ {c}, gl, user, o) + Own(gl[c], user[c], o)
    BY PartsSplit
  <2>3. Fixed(cd, o) \in Nat
    BY FixedType
  <2>4. R[o] = Parts(GLContexts \ {c}, gl, user, o) + Fixed(cd, o)
    BY <1>1
  <2> QED BY <2>1, <2>2, <2>3, <2>4
<1>5. Counted = Total(R, gl[c], user[c])
  BY <1>4 DEF Counted, Total
<1>6. \A g, u : Total(R, g, u) \in [Every -> Nat]
  <2>1. \A g, u, o : Own(g, u, o) \in Nat
    BY DEF Own, B
  <2>2. ASSUME NEW g, NEW u PROVE Total(R, g, u) \in [Every -> Nat]
    <3>1. \A o \in Every : R[o] + Own(g, u, o) \in Nat
      BY <1>2, <2>1
    <3> QED BY <3>1 DEF Total
  <2> QED BY <2>2
<1>7. R \in [Every -> Nat]
  BY <1>2, <1>3
<1> QED
  BY <1>5, <1>6, <1>7 DEF R

\* A client between two steps of a call: the objects are as many as the fields
\* x.gl, the maps u and the holders R elsewhere say, except for the references
\* in local variables of the call, by which e exceeds that.
Client(x, u, R) ==
  /\ x = [gl |-> x.gl, h |-> x.h]
  /\ x.gl \in GLType /\ u \in SUBSET Objects /\ R \in [Every -> Nat]
  /\ Distinct(x.gl) /\ PlainlyHeld(x.gl, x.h)
Settled(x, u, R) == Client(x, u, R) /\ Balanced(x.h, Total(R, x.gl, u))

\* Descriptors that are held elsewhere remain descriptors.
Stays(h, k, R) == \A p \in Every : R[p] > 0 /\ h[p].of = Null => k[p].of = Null

LEMMA OwnIs ==
  ASSUME NEW R \in [Every -> Nat], NEW g, NEW u, NEW o \in Every
  PROVE  /\ Total(R, g, u) \in [Every -> Nat] /\ Total(R, g, u)[o] = R[o] + Own(g, u, o)
         /\ Own(g, u, o) \in Nat /\ R[o] \in Nat
         /\ (o \in Descriptors(g) \/ o \in g.gc \/ o \in u) => Own(g, u, o) > 0
<1>1. \A p : Own(g, u, p) \in Nat /\ B(p) \in {0, 1}
  BY DEF Own, B
<1>2. Total(R, g, u) \in [Every -> Nat] /\ Total(R, g, u)[o] = R[o] + Own(g, u, o)
  BY <1>1 DEF Total
<1>3. (o \in Descriptors(g) \/ o \in g.gc \/ o \in u) => Own(g, u, o) > 0
  BY DEF Own, B, Descriptors
<1> QED
  BY <1>1, <1>2, <1>3

LEMMA MoreLess ==
  ASSUME NEW e \in [Every -> Nat], NEW o \in Every, NEW p \in Every
  PROVE  /\ More(e, o) \in [Every -> Nat] /\ More(e, o)[o] > 0
         /\ Less(More(e, o), o) = e /\ Less(More(More(e, o), p), o) = More(e, p)
         /\ More(e, o)[p] >= e[p] /\ (p # o => More(e, o)[p] = e[p])
<1>1. \A q \in Every : e[q] \in Nat
  OBVIOUS
<1>2. /\ More(e, o) \in [Every -> Nat] /\ More(e, o)[o] = e[o] + 1
      /\ \A q \in Every : q # o => More(e, o)[q] = e[q]
  BY DEF More
<1>3. Less(More(e, o), o) = e
  <2> DEFINE f == More(e, o)
  <2>1. Less(f, o) = [q \in Every |-> IF q = o THEN f[q] - 1 ELSE f[q]]
    BY <1>2 DEF Less
  <2>2. \A q \in Every : (IF q = o THEN f[q] - 1 ELSE f[q]) = e[q]
    BY <1>1, <1>2
  <2>3. e = [q \in Every |-> e[q]]
    OBVIOUS
  <2> HIDE DEF f
  <2>4. Less(f, o) = e
    BY <2>1, <2>2, <2>3
  <2> QED BY <2>4 DEF f
<1>4. Less(More(More(e, o), p), o) = More(e, p)
  <2> DEFINE f == More(e, o)
             g == More(f, p)
             k == More(e, p)
  <2>1. f \in [Every -> Nat] /\ k \in [Every -> Nat] /\ k[p] = e[p] + 1 /\ \A q \in Every : q # p => k[q] = e[q]
    BY <1>2 DEF More
  <2>2. g \in [Every -> Nat] /\ g[p] = f[p] + 1 /\ \A q \in Every : q # p => g[q] = f[q]
    BY <2>1 DEF More
  <2>3. f[o] = e[o] + 1 /\ \A q \in Every : q # o => f[q] = e[q]
    BY <1>2
  <2> HIDE DEF f, g, k
  <2>4. Less(g, o) = [q \in Every |-> IF q = o THEN g[q] - 1 ELSE g[q]]
    BY <2>2 DEF Less
  <2>5. ASSUME NEW q \in Every PROVE (IF q = o THEN g[q] - 1 ELSE g[q]) = k[q]
    BY <1>1, <2>1, <2>2, <2>3
  <2>6. k = [q \in Every |-> k[q]]
    BY <2>1
  <2>7. Less(g, o) = k
    BY <2>4, <2>5, <2>6
  <2> QED BY <2>7 DEF f, g, k
<1> QED
  BY <1>1, <1>2, <1>3, <1>4

LEMMA SameTotal ==
  ASSUME NEW R \in [Every -> Nat], NEW g, NEW u, NEW f \in [Every -> Nat],
         \A q \in Every : f[q] = R[q] + Own(g, u, q)
  PROVE  f = Total(R, g, u)
<1>1. f = [q \in Every |-> f[q]]
  OBVIOUS
<1> QED
  BY <1>1 DEF Total

\* The caller's map of what it was lent: the reference lent is given up.
LEMMA Borrowed ==
  ASSUME NEW h, NEW e \in [Every -> Nat], NEW md \in Every, Balanced(h, More(e, md)), h[md].of = Null,
         NEW n \in New(h, md)
  PROVE  /\ \/ n.o = Null /\ Balanced(release(n.h, md), e)
            \/ /\ n.o \in Objects /\ h[n.o].refs = 0 /\ n.o # md
               /\ More(e, md)[n.o] = 0 /\ Balanced(release(n.h, md), More(e, n.o))
         /\ \A p \in Every : p # n.o => release(n.h, md)[p].of = h[p].of
<1> DEFINE k == release(n.h, md)
           f == More(e, md)
           Good == /\ \/ n.o = Null /\ Balanced(k, e)
                      \/ /\ n.o \in Objects /\ h[n.o].refs = 0 /\ n.o # md
                         /\ f[n.o] = 0 /\ Balanced(k, More(e, n.o))
                   /\ \A p \in Every : p # n.o => k[p].of = h[p].of
<1>1. f \in [Every -> Nat] /\ f[md] > 0 /\ Less(f, md) = e
  BY MoreLess
<1> HIDE DEF f, k
<1>2. h[md].refs > 0
  BY <1>1, HolderAlive DEF f
<1>3. \/ n.o = Null /\ n.h = h
      \/ /\ n.o \in Objects /\ h[n.o].refs = 0
         /\ Balanced(n.h, More(f, n.o)) /\ n.h[n.o].of = md
         /\ \A p \in Every : p # n.o => n.h[p].of = h[p].of
  <2>1. Balanced(h, f) /\ Descriptor(h, md)
    BY DEF f, Descriptor
  <2> QED BY <1>2, <2>1, NewGives
<1>4. ASSUME n.o = Null, n.h = h PROVE Good
  <2>1. Balanced(k, Less(f, md)) /\ \A p \in Every : k[p].of \in {h[p].of, Null} /\ (p # md => k[p].of = h[p].of)
    BY <1>1, <1>4, Releases DEF f, k
  <2>2. \A p \in Every : k[p].of = h[p].of
    BY <2>1
  <2> QED BY <1>1, <1>4, <2>1, <2>2
<1>5. ASSUME n.o \in Objects, h[n.o].refs = 0, Balanced(n.h, More(f, n.o)), n.h[n.o].of = md,
             \A p \in Every : p # n.o => n.h[p].of = h[p].of
      PROVE  Good
  <2>1. n.o \in Every /\ n.o # md
    BY <1>2, <1>5 DEF Every
  <2>2. f[n.o] = 0
    BY <1>5, <2>1, HolderAlive DEF f
  <2>3. More(f, n.o)[md] > 0
    BY <1>1, <2>1, MoreLess
  <2>4. Less(More(f, n.o), md) = More(e, n.o)
    BY <2>1, MoreLess DEF f
  <2>5. /\ Balanced(k, Less(More(f, n.o), md))
        /\ \A p \in Every : k[p].of \in {n.h[p].of, Null} /\ (p # md => k[p].of = n.h[p].of)
    BY <1>5, <2>3, Releases DEF k
  <2>6. \A p \in Every : p # n.o => k[p].of = h[p].of
    <3>1. n.h[md].of = Null
      BY <1>5, <2>1
    <3> QED BY <1>5, <2>5, <3>1
  <2>7. Balanced(k, More(e, n.o))
    BY <2>4, <2>5
  <2> QED BY <1>5, <2>1, <2>2, <2>6, <2>7
<1> HIDE DEF Good
<1>6. Good
  BY <1>3, <1>4, <1>5
<1> QED
  BY <1>6 DEF Good, f, k

LEMMA BNat == ASSUME NEW p PROVE B(p) \in Nat /\ (p => B(p) = 1) /\ (~p => B(p) = 0)
BY DEF B

\* What Cleanup leaves of a context is nothing, and of the objects what the
\* others hold.
LEMMA CleanupGives ==
  ASSUME NEW x, NEW u, NEW R, Settled(x, u, R)
  PROVE  /\ Settled(Cleanup(x), u, R) /\ Stays(x.h, Cleanup(x).h, R)
         /\ Descriptors(Cleanup(x).gl) = {} /\ Cleanup(x).gl.gc = {}
         /\ Cleanup(x).gl.open = x.gl.open
<1> DEFINE g == x.gl
           T == Total(R, g, u)
           g1 == [g EXCEPT !.gc = {}]
           T1 == Total(R, g1, u)
           h1 == releaseAll(x.h, g.gc)
           D == {g.context_buffer0, g.command_buffer, g.fences}
           g2 == [g EXCEPT !.gc = {}, !.context_buffer0 = Null, !.command_buffer = Null,
                           !.fences = Null, !.doublings = 0]
           T2 == Total(R, g2, u)
           h2 == releaseAll(h1, D)
<1>1. /\ g \in GLType /\ u \in SUBSET Objects /\ R \in [Every -> Nat] /\ Distinct(g) /\ PlainlyHeld(g, x.h)
      /\ Balanced(x.h, T) /\ Cleanup(x) = [gl |-> g2, h |-> h2]
  BY DEF Settled, Client, Cleanup
<1>2. /\ g1 \in GLType /\ g1.gc = {} /\ g1.context_buffer0 = g.context_buffer0
      /\ g1.command_buffer = g.command_buffer /\ g1.fences = g.fences
      /\ g2 \in GLType /\ g2.gc = {} /\ g2.context_buffer0 = Null /\ g2.command_buffer = Null
      /\ g2.fences = Null /\ g2.open = g.open
  BY <1>1 DEF GLType
<1>3. /\ g.gc \subseteq Objects /\ D \subseteq Every \cup {Null}
      /\ g.gc \in SUBSET (Every \cup {Null}) /\ D \in SUBSET (Every \cup {Null})
  BY <1>1 DEF GLType, Every
<1>4. IsFiniteSet(g.gc) /\ IsFiniteSet(D)
  <2>1. IsFiniteSet(Every \cup {Null})
    BY ClientAssumption, FS_AddElement DEF Every
  <2> QED BY <1>3, <2>1, ClientAssumption, FS_Subset
<1> HIDE DEF g, T, g1, T1, h1, D, g2, T2, h2
<1>5. Balanced(h1, T1) /\ \A p \in Every : h1[p].of \in {x.h[p].of, Null}
  <2>1. \A o \in g.gc : o # Null => T[o] > 0
    <3>1. ASSUME NEW o \in g.gc PROVE T[o] > 0
      <4>1. o \in Every
        BY <1>3 DEF Every
      <4>2. T[o] = R[o] + Own(g, u, o) /\ Own(g, u, o) \in Nat /\ R[o] \in Nat /\ Own(g, u, o) > 0
        BY <1>1, <4>1, OwnIs DEF T
      <4> QED BY <4>2
    <3> QED BY <3>1
  <2>2. Balanced(h1, Without(T, g.gc)) /\ \A p \in Every : h1[p].of \in {x.h[p].of, Null}
    BY <1>1, <1>3, <1>4, <2>1, ReleasesAll DEF h1
  <2>3. Without(T, g.gc) = T1
    <3>1. ASSUME NEW q \in Every PROVE Without(T, g.gc)[q] = R[q] + Own(g1, u, q)
      <4>1. Without(T, g.gc)[q] = IF q \in g.gc THEN T[q] - 1 ELSE T[q]
        BY DEF Without
      <4>2. T[q] = R[q] + Own(g, u, q) /\ Own(g, u, q) \in Nat /\ R[q] \in Nat /\ Own(g1, u, q) \in Nat
        BY <1>1, OwnIs DEF T
      <4>3. Own(g, u, q) = Own(g1, u, q) + B(q \in g.gc)
        <5>1. B(q \in g1.gc) = 0
          BY <1>2 DEF B
        <5>2. /\ B(g.context_buffer0 = q) \in Nat /\ B(g.command_buffer = q) \in Nat
              /\ B(g.fences = q) \in Nat /\ B(q \in g.gc) \in Nat /\ B(q \in u) \in Nat
          BY BNat
        <5>3. Own(g1, u, q) = B(g.context_buffer0 = q) + B(g.command_buffer = q) + B(g.fences = q)
                              + B(q \in g1.gc) + B(q \in u)
          BY <1>2 DEF Own
        <5>4. Own(g, u, q) = B(g.context_buffer0 = q) + B(g.command_buffer = q) + B(g.fences = q)
                             + B(q \in g.gc) + B(q \in u)
          BY DEF Own
        <5> QED BY <5>1, <5>2, <5>3, <5>4
      <4>4. B(q \in g.gc) = IF q \in g.gc THEN 1 ELSE 0
        BY DEF B
      <4> QED BY <4>1, <4>2, <4>3, <4>4
    <3>2. Without(T, g.gc) \in [Every -> Nat]
      BY <2>2 DEF Balanced
    <3> QED BY <1>1, <3>1, <3>2, SameTotal DEF T1
  <2> QED BY <2>2, <2>3
<1>6. Balanced(h2, T2) /\ \A p \in Every : h2[p].of \in {h1[p].of, Null}
  <2>1. \A o \in D : o # Null => T1[o] > 0
    <3>1. ASSUME NEW o \in D, o # Null PROVE T1[o] > 0
      <4>1. o \in Every /\ o \in Descriptors(g1)
        BY <1>2, <1>3, <3>1 DEF D, Descriptors
      <4>2. T1[o] = R[o] + Own(g1, u, o) /\ Own(g1, u, o) \in Nat /\ R[o] \in Nat /\ Own(g1, u, o) > 0
        BY <1>1, <4>1, OwnIs DEF T1
      <4> QED BY <4>2
    <3> QED BY <3>1
  <2>2. Balanced(h2, Without(T1, D)) /\ \A p \in Every : h2[p].of \in {h1[p].of, Null}
    BY <1>3, <1>4, <1>5, <2>1, ReleasesAll DEF h2
  <2>3. Without(T1, D) = T2
    <3>1. ASSUME NEW q \in Every PROVE Without(T1, D)[q] = R[q] + Own(g2, u, q)
      <4>1. Without(T1, D)[q] = IF q \in D THEN T1[q] - 1 ELSE T1[q]
        BY DEF Without
      <4>2. T1[q] = R[q] + Own(g1, u, q) /\ Own(g1, u, q) \in Nat /\ R[q] \in Nat /\ Own(g2, u, q) \in Nat
        BY <1>1, OwnIs DEF T1
      <4>3. Own(g1, u, q) = Own(g2, u, q) + B(q \in D)
        <5>1. Own(g2, u, q) = B(q \in u)
          <6>1. q # Null
            BY ClientAssumption DEF Every
          <6>2. Own(g2, u, q) = 0 + 0 + 0 + 0 + B(q \in u)
            BY <1>2, <6>1 DEF Own, B
          <6> QED BY <6>2, BNat
        <5>2. /\ B(g.context_buffer0 = q) \in Nat /\ B(g.command_buffer = q) \in Nat
              /\ B(g.fences = q) \in Nat /\ B(q \in g.gc) \in Nat /\ B(q \in u) \in Nat
          BY BNat
        <5>3. Own(g1, u, q) = B(g.context_buffer0 = q) + B(g.command_buffer = q) + B(g.fences = q)
                              + 0 + B(q \in u)
          BY <1>2 DEF Own, B
        <5>4. B(g.context_buffer0 = q) + B(g.command_buffer = q) + B(g.fences = q) = B(q \in D)
          <6>1. q # Null
            BY ClientAssumption DEF Every
          <6> QED BY <1>1, <6>1 DEF Distinct, D, B
        <5> QED BY <5>1, <5>2, <5>3, <5>4
      <4>4. B(q \in D) = IF q \in D THEN 1 ELSE 0
        BY DEF B
      <4> QED BY <4>1, <4>2, <4>3, <4>4
    <3>2. Without(T1, D) \in [Every -> Nat]
      BY <2>2 DEF Balanced
    <3> QED BY <1>1, <3>1, <3>2, SameTotal DEF T2
  <2> QED BY <2>2, <2>3
<1>7. Descriptors(g2) = {} /\ Distinct(g2) /\ PlainlyHeld(g2, h2)
  BY <1>2 DEF Descriptors, Distinct, PlainlyHeld
<1>8. Stays(x.h, h2, R)
  BY <1>5, <1>6 DEF Stays
<1>9. Cleanup(x).gl = g2 /\ Cleanup(x).h = h2 /\ Cleanup(x) = [gl |-> Cleanup(x).gl, h |-> Cleanup(x).h]
  BY <1>1
<1>10. Settled(Cleanup(x), u, R)
  BY <1>1, <1>2, <1>6, <1>7, <1>9 DEF Settled, Client, T2
<1> QED
  BY <1>2, <1>7, <1>8, <1>9, <1>10 DEF g

\* What clientMemoryForType hands out is a descriptor with a reference for the
\* caller, and its context is as settled as it was.
Lent(x, r, u, R) ==
  /\ Client(r.x, u, R) /\ Stays(x.h, r.x.h, R)
  /\ r.x.gl.open = x.gl.open /\ r.x.gl.gc = x.gl.gc
  /\ r.x.gl.context_buffer0 = x.gl.context_buffer0 /\ r.x.gl.command_buffer = x.gl.command_buffer
  /\ \/ r.md = Null /\ r.x = x
     \/ /\ r.md \in Every /\ r.x.h[r.md].of = Null
        /\ Balanced(r.x.h, More(Total(R, r.x.gl, u), r.md))

LEMMA LendsOwn ==
  ASSUME NEW x, NEW u, NEW R, Settled(x, u, R), NEW o \in Descriptors(x.gl)
  PROVE  Lent(x, [md |-> o, x |-> [x EXCEPT !.h = retain(@, o)]], u, R)
<1> DEFINE T == Total(R, x.gl, u)
           k == retain(x.h, o)
           y == [x EXCEPT !.h = k]
           r == [md |-> o, x |-> y]
<1>1. /\ x = [gl |-> x.gl, h |-> x.h] /\ x.gl \in GLType /\ u \in SUBSET Objects /\ R \in [Every -> Nat]
      /\ Distinct(x.gl) /\ PlainlyHeld(x.gl, x.h) /\ Balanced(x.h, T)
  BY DEF Settled, Client
<1>2. o \in Every /\ x.h[o].of = Null /\ \A p \in Descriptors(x.gl) : p \in Every
  BY <1>1 DEF Descriptors, GLType, Every, PlainlyHeld
<1> HIDE DEF T
<1>3. T[o] > 0
  <2>1. T[o] = R[o] + Own(x.gl, u, o) /\ Own(x.gl, u, o) \in Nat /\ R[o] \in Nat /\ Own(x.gl, u, o) > 0
    BY <1>1, <1>2, OwnIs DEF T
  <2> QED BY <2>1
<1>4. Balanced(k, More(T, o)) /\ \A p \in Every : k[p].of = x.h[p].of
  <2>1. x.h[o].refs > 0
    BY <1>1, <1>2, <1>3, HolderAlive
  <2> QED BY <1>1, <1>2, <2>1, Retains
<1> HIDE DEF k
<1>5. y.gl = x.gl /\ y.h = k /\ y = [gl |-> y.gl, h |-> y.h] /\ r.md = o /\ r.x = y
  BY <1>1
<1> HIDE DEF y, r
<1>6. Client(y, u, R) /\ Stays(x.h, y.h, R)
  BY <1>1, <1>2, <1>4, <1>5 DEF Client, Stays, PlainlyHeld
<1>7. Lent(x, r, u, R)
  BY <1>2, <1>4, <1>5, <1>6 DEF Lent, T
<1> QED
  BY <1>7 DEF r, y, k

\* Type 2: the fence memory is replaced.
Doubled(x, n) ==
  IF n.o = Null THEN [md |-> Null, x |-> x]
  ELSE LET h == IF x.gl.fences = Null THEN n.h ELSE release(n.h, x.gl.fences)
       IN  [md |-> n.o, x |-> [gl |-> [x.gl EXCEPT !.fences = n.o, !.doublings = @ + 1],
                               h |-> retain(h, n.o)]]

LEMMA LendsDoubled ==
  ASSUME NEW x, NEW u, NEW R, Settled(x, u, R), NEW n \in New(x.h, Null)
  PROVE  Lent(x, Doubled(x, n), u, R)
<1> DEFINE T == Total(R, x.gl, u)
           w == x.gl.fences
           h == IF w = Null THEN n.h ELSE release(n.h, w)
           e == IF w = Null THEN More(T, n.o) ELSE Less(More(T, n.o), w)
           g == [x.gl EXCEPT !.fences = n.o, !.doublings = @ + 1]
           k == retain(h, n.o)
           y == [gl |-> g, h |-> k]
           r == [md |-> n.o, x |-> y]
<1>1. /\ x = [gl |-> x.gl, h |-> x.h] /\ x.gl \in GLType /\ u \in SUBSET Objects /\ R \in [Every -> Nat]
      /\ Distinct(x.gl) /\ PlainlyHeld(x.gl, x.h) /\ Balanced(x.h, T)
  BY DEF Settled, Client
<1>2. w \in Objects \cup {Null} /\ (w # Null => w \in Every /\ w \in Descriptors(x.gl))
  BY <1>1 DEF GLType, Every, Descriptors
<1>3. CASE n.o = Null
  <2>1. Doubled(x, n) = [md |-> Null, x |-> x]
    BY <1>3 DEF Doubled
  <2>2. Stays(x.h, x.h, R)
    BY DEF Stays
  <2> QED BY <2>1, <2>2 DEF Lent, Settled
<1>4. CASE n.o # Null
  <2>1. Doubled(x, n) = r
    BY <1>4 DEF Doubled
  <2>2. /\ g \in GLType /\ g.fences = n.o /\ g.context_buffer0 = x.gl.context_buffer0
        /\ g.command_buffer = x.gl.command_buffer /\ g.gc = x.gl.gc /\ g.open = x.gl.open
        /\ n.o \in Objects /\ n.o \in Every /\ x.h[n.o].refs = 0
    <3>1. n.o \in Objects /\ x.h[n.o].refs = 0
      BY <1>1, <1>4, NewGives
    <3>2. g \in GLType /\ g.fences = n.o /\ g.context_buffer0 = x.gl.context_buffer0
        /\ g.command_buffer = x.gl.command_buffer /\ g.gc = x.gl.gc /\ g.open = x.gl.open
      <4> DEFINE g0 == [x.gl EXCEPT !.fences = n.o]
      <4>1. x.gl \in GLType
        BY <1>1
      <4>2. g0 \in GLType /\ g0.fences = n.o /\ g0.context_buffer0 = x.gl.context_buffer0
            /\ g0.command_buffer = x.gl.command_buffer /\ g0.gc = x.gl.gc /\ g0.open = x.gl.open
        BY <3>1, <4>1 DEF GLType
      <4>3. g = [g0 EXCEPT !.doublings = @ + 1]
        BY DEF g
      <4> HIDE DEF g0, g
      <4>4. g0.doublings + 1 \in Nat
        BY <4>2 DEF GLType
      <4> QED BY <4>2, <4>3, <4>4 DEF GLType
    <3> QED BY <3>1, <3>2 DEF Every
  <2> HIDE DEF T, g, r, e, h, w
  <2>3. /\ Balanced(n.h, More(T, n.o)) /\ n.h[n.o].of = Null
        /\ \A p \in Every : p # n.o => n.h[p].of = x.h[p].of
    BY <1>1, <1>4, NewGives
  <2>4. T \in [Every -> Nat] /\ T[n.o] = 0
    BY <1>1, <2>2, HolderAlive DEF Balanced
  <2>5. \A p \in Every : T[p] > 0 => p # n.o
    BY <2>4
  <2>6. \A p \in Every : T[p] = R[p] + Own(x.gl, u, p) /\ Own(x.gl, u, p) \in Nat /\ R[p] \in Nat
                         /\ (p \in Descriptors(x.gl) => Own(x.gl, u, p) > 0)
    BY <1>1, OwnIs DEF T
  <2>7. \A p \in Every : (R[p] > 0 => T[p] > 0) /\ (p \in Descriptors(x.gl) => T[p] > 0)
    <3> TAKE p \in Every
    <3>1. T[p] = R[p] + Own(x.gl, u, p) /\ Own(x.gl, u, p) \in Nat /\ R[p] \in Nat
          /\ (p \in Descriptors(x.gl) => Own(x.gl, u, p) > 0)
      BY <2>6
    <3> QED BY <3>1
  <2>8. w # Null => T[w] > 0 /\ w # n.o
    BY <1>2, <2>5, <2>7
  <2>9. /\ Balanced(h, e) /\ \A p \in Every : p # n.o => h[p].of \in {x.h[p].of, Null}
        /\ h[n.o].of = Null /\ e[n.o] > 0
    <3>1. More(T, n.o)[n.o] > 0 /\ More(T, n.o) \in [Every -> Nat]
      BY <2>2, <2>4, MoreLess
    <3>2. CASE w = Null
      BY <2>3, <3>1, <3>2 DEF h, e
    <3>3. CASE w # Null
      <4>1. w \in Every /\ w # n.o /\ More(T, n.o)[w] > 0
        <5>1. More(T, n.o)[w] = T[w]
          BY <1>2, <2>2, <2>4, <2>8, <3>3, MoreLess
        <5> QED BY <1>2, <2>8, <3>3, <5>1
      <4>2. /\ Balanced(release(n.h, w), Less(More(T, n.o), w))
            /\ \A p \in Every : release(n.h, w)[p].of \in {n.h[p].of, Null}
        BY <2>3, <4>1, Releases
      <4>3. h = release(n.h, w) /\ e = Less(More(T, n.o), w)
        BY <3>3 DEF h, e
      <4>4. e[n.o] = More(T, n.o)[n.o]
        BY <2>2, <3>1, <4>1, <4>3 DEF Less
      <4> QED BY <2>2, <2>3, <3>1, <4>2, <4>3, <4>4
    <3> QED BY <3>2, <3>3
  <2>10. e = Total(R, g, u)
    <3>1. e \in [Every -> Nat]
      BY <2>9 DEF Balanced
    <3>2. ASSUME NEW q \in Every PROVE e[q] = R[q] + Own(g, u, q)
      <4>1. More(T, n.o)[q] = T[q] + B(n.o = q)
        <5>1. More(T, n.o)[q] = IF n.o = q THEN T[q] + 1 ELSE T[q]
          BY <2>4 DEF More
        <5>2. T[q] \in Nat
          BY <2>4
        <5> QED BY <5>1, <5>2 DEF B
      <4>2. e[q] = T[q] + B(n.o = q) - B(w = q)
        <5>1. CASE w = Null
          <6>1. B(w = q) = 0
            BY <5>1, ClientAssumption DEF B, Every
          <6>2. e[q] = More(T, n.o)[q]
            BY <5>1 DEF e
          <6>3. T[q] \in Nat /\ B(n.o = q) \in Nat
            BY <2>4, BNat
          <6> QED BY <4>1, <6>1, <6>2, <6>3
        <5>2. CASE w # Null
          <6>1. More(T, n.o) \in [Every -> Nat] /\ e = Less(More(T, n.o), w)
            BY <2>2, <2>4, <5>2, MoreLess DEF e
          <6>2. e[q] = IF w = q THEN More(T, n.o)[q] - 1 ELSE More(T, n.o)[q]
            BY <6>1 DEF Less
          <6>3. More(T, n.o)[q] \in Nat
            BY <6>1
          <6>4. e[q] = More(T, n.o)[q] - B(w = q)
            BY <6>2, <6>3 DEF B
          <6>5. T[q] \in Nat /\ B(n.o = q) \in Nat /\ B(w = q) \in Nat
            BY <2>4, BNat
          <6> QED BY <4>1, <6>4, <6>5
        <5> QED BY <5>1, <5>2
      <4>3. /\ B(x.gl.context_buffer0 = q) \in Nat /\ B(x.gl.command_buffer = q) \in Nat
            /\ B(w = q) \in Nat /\ B(n.o = q) \in Nat /\ B(q \in x.gl.gc) \in Nat /\ B(q \in u) \in Nat
        BY BNat
      <4>4. Own(x.gl, u, q) = B(x.gl.context_buffer0 = q) + B(x.gl.command_buffer = q) + B(w = q)
                              + B(q \in x.gl.gc) + B(q \in u)
        BY DEF Own, w
      <4>5. Own(g, u, q) = B(x.gl.context_buffer0 = q) + B(x.gl.command_buffer = q) + B(n.o = q)
                           + B(q \in x.gl.gc) + B(q \in u)
        BY <2>2 DEF Own
      <4>6. T[q] = R[q] + Own(x.gl, u, q) /\ R[q] \in Nat
        BY <2>6
      <4> QED BY <4>2, <4>3, <4>4, <4>5, <4>6
    <3> QED BY <1>1, <3>1, <3>2, SameTotal
  <2>11. Balanced(k, More(e, n.o)) /\ \A p \in Every : k[p].of = h[p].of
    <3>1. h[n.o].refs > 0
      BY <2>2, <2>9, HolderAlive
    <3> QED BY <2>2, <2>9, <3>1, Retains
  <2> HIDE DEF k
  <2>12. Distinct(g) /\ PlainlyHeld(g, k)
    <3>1. \A p \in Descriptors(x.gl) : p # n.o /\ p \in Every /\ x.h[p].of = Null
      <4>1. \A p \in Descriptors(x.gl) : p \in Every
        BY <1>1 DEF Descriptors, GLType, Every
      <4> QED BY <1>1, <2>5, <2>7, <4>1 DEF PlainlyHeld
    <3>2. Distinct(g)
      BY <1>1, <2>2, <3>1 DEF Distinct, Descriptors
    <3>3. \A p \in Descriptors(g) : p = n.o \/ p \in Descriptors(x.gl)
      BY <2>2 DEF Descriptors
    <3> QED BY <2>2, <2>9, <2>11, <3>1, <3>2, <3>3 DEF PlainlyHeld
  <2>13. Stays(x.h, k, R)
    BY <2>5, <2>7, <2>9, <2>11 DEF Stays
  <2>14. r.md = n.o /\ r.x = y /\ y.gl = g /\ y.h = k
    BY DEF r
  <2> HIDE DEF y
  <2>15. y = [gl |-> y.gl, h |-> y.h]
    BY DEF y
  <2>16. Client(y, u, R)
    BY <1>1, <2>2, <2>12, <2>14, <2>15 DEF Client
  <2>17. k[n.o].of = Null
    BY <2>2, <2>9, <2>11
  <2>18. Lent(x, r, u, R)
    BY <2>2, <2>10, <2>11, <2>13, <2>14, <2>16, <2>17 DEF Lent
  <2> QED BY <2>1, <2>18
<1> QED
  BY <1>3, <1>4

LEMMA Lends ==
  ASSUME NEW x, NEW u, NEW R, Settled(x, u, R), x.gl.context_buffer0 # Null, x.gl.command_buffer # Null,
         NEW type \in 0..4, NEW r \in clientMemoryForType(x, type)
  PROVE  Lent(x, r, u, R)
<1>1. CASE type = 1
  <2>1. r = [md |-> x.gl.context_buffer0, x |-> [x EXCEPT !.h = retain(@, x.gl.context_buffer0)]]
    BY <1>1 DEF clientMemoryForType
  <2>2. x.gl.context_buffer0 \in Descriptors(x.gl)
    BY DEF Descriptors
  <2> QED BY <2>1, <2>2, LendsOwn
<1>2. CASE type = 4
  <2>1. r = [md |-> x.gl.command_buffer, x |-> [x EXCEPT !.h = retain(@, x.gl.command_buffer)]]
    BY <1>2 DEF clientMemoryForType
  <2>2. x.gl.command_buffer \in Descriptors(x.gl)
    BY DEF Descriptors
  <2> QED BY <2>1, <2>2, LendsOwn
<1>3. CASE type = 2
  <2>0. clientMemoryForType(x, 2) = {Doubled(x, n) : n \in New(x.h, Null)}
    <3> DEFINE S == {Doubled(x, n) : n \in New(x.h, Null)}
    <3>1. S = {IF n.o = Null THEN [md |-> Null, x |-> x]
               ELSE LET h == IF x.gl.fences = Null THEN n.h ELSE release(n.h, x.gl.fences)
                    IN  [md |-> n.o,
                         x |-> [gl |-> [x.gl EXCEPT !.fences = n.o, !.doublings = @ + 1],
                                h |-> retain(h, n.o)]] : n \in New(x.h, Null)}
      BY Zenon DEF Doubled
    <3> HIDE DEF S
    <3>2. clientMemoryForType(x, 2) = S
      <4>1. 2 # 1 /\ 2 # 4
        OBVIOUS
      <4> QED BY <3>1, <4>1, Zenon DEF clientMemoryForType
    <3> QED BY <3>2 DEF S
  <2>1. PICK n \in New(x.h, Null) : r = Doubled(x, n)
    BY <1>3, <2>0
  <2> QED BY <2>1, LendsDoubled
<1>4. CASE type \notin {1, 2, 4}
  <2>1. r = [md |-> Null, x |-> x]
    BY <1>4 DEF clientMemoryForType
  <2>2. Stays(x.h, x.h, R)
    BY DEF Stays
  <2> QED BY <2>1, <2>2 DEF Lent, Settled
<1> QED
  BY <1>1, <1>2, <1>3, <1>4

\* What is not counted does not matter.
Alike(g, k) ==
  /\ g.context_buffer0 = k.context_buffer0 /\ g.command_buffer = k.command_buffer
  /\ g.fences = k.fences /\ g.gc = k.gc

LEMMA AlikeSettled ==
  ASSUME NEW x, NEW u, NEW R, Settled(x, u, R), NEW g \in GLType, Alike(x.gl, g)
  PROVE  Settled([gl |-> g, h |-> x.h], u, R)
<1>1. \A o : Own(g, u, o) = Own(x.gl, u, o)
  BY DEF Alike, Own
<1>2. Total(R, g, u) = Total(R, x.gl, u)
  BY <1>1 DEF Total
<1>3. Descriptors(g) = Descriptors(x.gl) /\ (Distinct(x.gl) => Distinct(g))
  BY DEF Alike, Descriptors, Distinct
<1> QED
  BY <1>2, <1>3 DEF Settled, Client, PlainlyHeld

\* A new descriptor in one more field.
LEMMA HoldsNew ==
  ASSUME NEW x, NEW u, NEW R, Settled(x, u, R), NEW n \in New(x.h, Null), n.o # Null, NEW g \in GLType,
         Descriptors(g) \subseteq Descriptors(x.gl) \cup {n.o}, n.o \notin Descriptors(x.gl) => Distinct(g),
         \A q \in Every : Own(g, u, q) = Own(x.gl, u, q) + B(n.o = q)
  PROVE  Settled([gl |-> g, h |-> n.h], u, R) /\ Stays(x.h, n.h, R) /\ n.o \in Objects
<1> DEFINE T == Total(R, x.gl, u)
<1>1. /\ x.gl \in GLType /\ u \in SUBSET Objects /\ R \in [Every -> Nat]
      /\ Distinct(x.gl) /\ PlainlyHeld(x.gl, x.h) /\ Balanced(x.h, T)
  BY DEF Settled, Client
<1> HIDE DEF T
<1>2. /\ n.o \in Objects /\ x.h[n.o].refs = 0 /\ Balanced(n.h, More(T, n.o)) /\ n.h[n.o].of = Null
      /\ \A p \in Every : p # n.o => n.h[p].of = x.h[p].of
  BY <1>1, NewGives
<1>3. n.o \in Every /\ T \in [Every -> Nat] /\ T[n.o] = 0
  <2>1. n.o \in Every
    BY <1>2 DEF Every
  <2>2. T \in [Every -> Nat]
    BY <1>1 DEF Balanced
  <2>3. T[n.o] = 0
    BY <1>1, <1>2, <2>1, HolderAlive
  <2> QED BY <2>1, <2>2, <2>3
<1>4. \A p \in Every : T[p] = R[p] + Own(x.gl, u, p) /\ Own(x.gl, u, p) \in Nat /\ R[p] \in Nat
                       /\ (p \in Descriptors(x.gl) => Own(x.gl, u, p) > 0)
  BY <1>1, OwnIs DEF T
<1>5. ASSUME NEW p \in Every, R[p] > 0 \/ p \in Descriptors(x.gl) PROVE p # n.o
  <2>1. T[p] = R[p] + Own(x.gl, u, p) /\ Own(x.gl, u, p) \in Nat /\ R[p] \in Nat
        /\ (p \in Descriptors(x.gl) => Own(x.gl, u, p) > 0)
    BY <1>4
  <2>2. T[p] # 0
    BY <1>5, <2>1
  <2> QED BY <1>3, <2>2
<1>6. More(T, n.o) = Total(R, g, u)
  <2>1. More(T, n.o) \in [Every -> Nat]
    BY <1>3, MoreLess
  <2>2. ASSUME NEW q \in Every PROVE More(T, n.o)[q] = R[q] + Own(g, u, q)
    <3>1. More(T, n.o)[q] = IF n.o = q THEN T[q] + 1 ELSE T[q]
      BY <1>3 DEF More
    <3>2. T[q] = R[q] + Own(x.gl, u, q) /\ Own(x.gl, u, q) \in Nat /\ R[q] \in Nat
      BY <1>4
    <3>3. Own(g, u, q) = Own(x.gl, u, q) + (IF n.o = q THEN 1 ELSE 0)
      BY DEF B
    <3> QED BY <3>1, <3>2, <3>3
  <2> QED BY <1>1, <2>1, <2>2, SameTotal
<1>7. \A p \in Descriptors(x.gl) : p \in Every /\ p # n.o /\ x.h[p].of = Null
  <2>1. \A p \in Descriptors(x.gl) : p \in Every
    BY <1>1 DEF Descriptors, GLType, Every
  <2> QED BY <1>1, <1>5, <2>1 DEF PlainlyHeld
<1>8. Distinct(g)
  BY <1>7
<1>9. PlainlyHeld(g, n.h)
  BY <1>2, <1>7 DEF PlainlyHeld
<1>10. Stays(x.h, n.h, R)
  BY <1>2, <1>5 DEF Stays
<1> QED
  BY <1>1, <1>2, <1>6, <1>8, <1>9, <1>10 DEF Settled, Client

\* A call begins with a settled client, and a step that leaves one keeps the
\* invariant.
LEMMA Begins ==
  ASSUME ClientInv, NEW c \in GLContexts
  PROVE  /\ Settled(Call(c), user[c], Besides(c)) /\ Call(c).gl = gl[c] /\ Call(c).h = obj
         /\ Opened(gl[c], user[c]) /\ gl[c] \in GLType /\ user[c] \in SUBSET Objects
<1>1. /\ Besides(c) \in [Every -> Nat] /\ Counted = Total(Besides(c), gl[c], user[c])
  BY CountedSplits
<1>2. /\ gl[c] \in GLType /\ user[c] \in SUBSET Objects /\ Distinct(gl[c]) /\ PlainlyHeld(gl[c], obj)
      /\ Opened(gl[c], user[c]) /\ Balanced(obj, Counted)
  BY DEF ClientInv
<1>3. Call(c).gl = gl[c] /\ Call(c).h = obj /\ Call(c) = [gl |-> Call(c).gl, h |-> Call(c).h]
  BY DEF Call
<1> QED
  BY <1>1, <1>2, <1>3 DEF Settled, Client

LEMMA HeldElsewhere ==
  ASSUME ClientInv, NEW c \in GLContexts, NEW d \in GLContexts, d # c, NEW p \in Descriptors(gl[d])
  PROVE  p \in Every /\ Besides(c)[p] > 0
<1> DEFINE S == GLContexts \ {c}
           A0 == {x \in S : gl[x].context_buffer0 = p}
           A1 == {x \in S : gl[x].command_buffer = p}
           A2 == {x \in S : gl[x].fences = p}
           A3 == {x \in S : p \in gl[x].gc}
           A4 == {x \in S : p \in user[x]}
<1>1. p \in Every
  <2>1. gl[d] \in GLType
    BY DEF ClientInv
  <2> QED BY <2>1 DEF GLType, Descriptors, Every
<1>2. d \in A0 \cup A1 \cup A2
  BY DEF Descriptors
<1>3. /\ A0 \in SUBSET GLContexts /\ A1 \in SUBSET GLContexts /\ A2 \in SUBSET GLContexts
      /\ A3 \in SUBSET GLContexts /\ A4 \in SUBSET GLContexts
  OBVIOUS
<1>4. Besides(c)[p] = Cardinality(A0) + Cardinality(A1) + Cardinality(A2) + Cardinality(A3)
                      + Cardinality(A4) + Fixed(cd, p)
  BY <1>1 DEF Besides, Parts
<1> HIDE DEF A0, A1, A2, A3, A4
<1>5. \A A \in SUBSET GLContexts : Cardinality(A) \in Nat /\ (Cardinality(A) = 0 <=> A = {})
  BY ClientAssumption, FS_Subset, FS_CardinalityType, FS_EmptySet
<1>6. /\ Cardinality(A0) \in Nat /\ Cardinality(A1) \in Nat /\ Cardinality(A2) \in Nat
      /\ Cardinality(A3) \in Nat /\ Cardinality(A4) \in Nat /\ Fixed(cd, p) \in Nat
      /\ (Cardinality(A0) # 0 \/ Cardinality(A1) # 0 \/ Cardinality(A2) # 0)
  BY <1>2, <1>3, <1>5, FixedType
<1>7. \A k0, k1, k2, k3, k4, k5 \in Nat : k0 # 0 \/ k1 # 0 \/ k2 # 0 => k0 + k1 + k2 + k3 + k4 + k5 > 0
  OBVIOUS
<1>8. Cardinality(A0) + Cardinality(A1) + Cardinality(A2) + Cardinality(A3)
      + Cardinality(A4) + Fixed(cd, p) > 0
  BY <1>6, <1>7
<1> QED
  BY <1>1, <1>4, <1>8

Leaves(c, x, u) ==
  /\ gl' = [gl EXCEPT ![c] = x.gl] /\ obj' = x.h
  /\ user' = [user EXCEPT ![c] = u] /\ cd' = cd

LEMMA Ends ==
  ASSUME ClientInv, NEW c \in GLContexts, NEW x, NEW u, Settled(x, u, Besides(c)), Opened(x.gl, u),
         Stays(obj, x.h, Besides(c)), Leaves(c, x, u)
  PROVE  ClientInv'
<1> DEFINE R == Besides(c)
<1>1. /\ x.gl \in GLType /\ u \in SUBSET Objects /\ R \in [Every -> Nat] /\ Distinct(x.gl)
      /\ PlainlyHeld(x.gl, x.h) /\ Balanced(x.h, Total(R, x.gl, u))
  BY DEF Settled, Client
<1>2. /\ gl \in [GLContexts -> GLType] /\ user \in [GLContexts -> SUBSET Objects]
      /\ cd \in [Devices -> DeviceType]
  BY DEF ClientInv
<1>3. /\ gl' \in [GLContexts -> GLType] /\ user' \in [GLContexts -> SUBSET Objects]
      /\ cd' \in [Devices -> DeviceType] /\ gl'[c] = x.gl /\ user'[c] = u
      /\ \A d \in GLContexts \ {c} : gl'[d] = gl[d] /\ user'[d] = user[d]
      /\ obj' = x.h /\ cd' = cd
  BY <1>1, <1>2 DEF Leaves
<1>4. Counted' = Total(R, x.gl, u)
  <2>1. ASSUME NEW o \in Every
        PROVE  Parts(GLContexts, gl', user', o) + Fixed(cd', o) = R[o] + Own(x.gl, u, o)
    <3>1. /\ Parts(GLContexts \ {c}, gl', user', o) \in Nat /\ Own(gl'[c], user'[c], o) \in Nat
          /\ Parts(GLContexts, gl', user', o) = Parts(GLContexts \ {c}, gl', user', o) + Own(gl'[c], user'[c], o)
      BY PartsSplit
    <3>2. Parts(GLContexts \ {c}, gl', user', o) = Parts(GLContexts \ {c}, gl, user, o)
      BY <1>3, PartsSame
    <3>3. Fixed(cd, o) \in Nat
      BY FixedType
    <3>4. R[o] = Parts(GLContexts \ {c}, gl, user, o) + Fixed(cd, o)
      BY DEF Besides
    <3> HIDE DEF R
    <3> QED BY <1>3, <3>1, <3>2, <3>3, <3>4
  <2>2. Counted' = [o \in Every |-> Parts(GLContexts, gl', user', o) + Fixed(cd', o)]
    BY DEF Counted, Every
  <2> HIDE DEF R
  <2> QED BY <2>1, <2>2 DEF Total
<1>5. Balanced(obj', Counted')
  BY <1>1, <1>3, <1>4
<1>6. ASSUME NEW d \in GLContexts
      PROVE  Distinct(gl'[d]) /\ PlainlyHeld(gl'[d], obj') /\ Opened(gl'[d], user'[d])
  <2>1. CASE d = c
    BY <1>1, <1>3, <2>1
  <2>2. CASE d # c
    <3>1. Distinct(gl[d]) /\ PlainlyHeld(gl[d], obj) /\ Opened(gl[d], user[d])
      BY DEF ClientInv
    <3>2. \A p \in Descriptors(gl[d]) : x.h[p].of = Null
      BY <2>2, <3>1, HeldElsewhere DEF Stays, PlainlyHeld
    <3> QED BY <1>3, <2>2, <3>1, <3>2 DEF PlainlyHeld
  <2> QED BY <2>1, <2>2
<1>7. ClientInv' <=> /\ gl' \in [GLContexts -> GLType] /\ user' \in [GLContexts -> SUBSET Objects]
                     /\ cd' \in [Devices -> DeviceType] /\ Balanced(obj', Counted')
                     /\ \A d \in GLContexts : Distinct(gl'[d]) /\ PlainlyHeld(gl'[d], obj') /\ Opened(gl'[d], user'[d])
  BY DEF ClientInv, Balanced, Heaps, Every, Maps, Distinct, PlainlyHeld, Opened, Descriptors, GLType, DeviceType
<1> QED
  BY <1>3, <1>5, <1>6, <1>7

LEMMA Returns ==
  ASSUME ClientInv, NEW c \in GLContexts, NEW x, Return(c, x), user' = user, cd' = cd
  PROVE  Leaves(c, x, user[c])
<1>1. user = [user EXCEPT ![c] = user[c]]
  BY DEF ClientInv
<1> QED
  BY <1>1 DEF Return, Leaves

LEMMA StaysOn ==
  ASSUME NEW h, NEW k, NEW l, NEW R, Stays(h, k, R), Stays(k, l, R) PROVE Stays(h, l, R)
BY DEF Stays

\* A context that cannot start is as it was before.
LEMMA Aborts ==
  ASSUME NEW x, NEW R, Settled(x, {}, R)
  PROVE  LET z == [Cleanup(x) EXCEPT !.gl.open = FALSE]
         IN  Settled(z, {}, R) /\ Stays(x.h, z.h, R) /\ Opened(z.gl, {})
<1> DEFINE no == FALSE
           y == Cleanup(x)
           g == [y.gl EXCEPT !.open = no]
           w == [y EXCEPT !.gl.open = no]
<1>1. Settled(y, {}, R) /\ Stays(x.h, y.h, R) /\ Descriptors(y.gl) = {} /\ y.gl.gc = {}
  BY CleanupGives
<1> HIDE DEF y
<1>2. y = [gl |-> y.gl, h |-> y.h] /\ y.gl \in GLType
  BY <1>1 DEF Settled, Client
<1>3. g \in GLType /\ Alike(y.gl, g) /\ g.open = FALSE
  BY <1>2 DEF GLType, Alike
<1>4. w.gl = g /\ w.h = y.h /\ w = [gl |-> g, h |-> y.h]
  <2>1. no = FALSE
    OBVIOUS
  <2> HIDE DEF no
  <2>2. w = [gl |-> g, h |-> y.h]
    BY <1>2
  <2> HIDE DEF g, w
  <2> QED BY <2>2
<1> HIDE DEF g, w
<1>5. Settled(w, {}, R)
  BY <1>1, <1>3, <1>4, AlikeSettled
<1>6. Opened(w.gl, {})
  BY <1>1, <1>3, <1>4 DEF Opened, Descriptors, Alike
<1>7. Settled(w, {}, R) /\ Stays(x.h, w.h, R) /\ Opened(w.gl, {})
  BY <1>1, <1>4, <1>5, <1>6
<1> QED
  BY <1>7 DEF w, y, no

LEMMA startKeeps ==
  ASSUME ClientInv, NEW c \in GLContexts, start(c) PROVE ClientInv'
<1> DEFINE R == Besides(c)
           g0 == [NewGL EXCEPT !.open = TRUE]
           x0 == [gl |-> g0, h |-> obj]
<1>1. /\ Settled(Call(c), user[c], R) /\ Call(c).gl = gl[c] /\ Call(c).h = obj
      /\ Opened(gl[c], user[c]) /\ gl[c] \in GLType
  BY Begins
<1>2. ~gl[c].open /\ user' = user /\ cd' = cd
  BY DEF start
<1>3. Descriptors(gl[c]) = {} /\ gl[c].gc = {} /\ user[c] = {}
  BY <1>1, <1>2 DEF Opened
<1>4. /\ g0 \in GLType /\ Alike(gl[c], g0) /\ g0.open = TRUE /\ g0.context_buffer0 = Null
      /\ g0.command_buffer = Null /\ g0.fences = Null /\ g0.gc = {}
  <2>1. g0 = [open |-> TRUE, gc |-> {}, context_buffer0 |-> Null, command_buffer |-> Null,
              fences |-> Null, doublings |-> 0, mem_type |-> 4]
    <3>1. \A v, w : [[open |-> v, gc |-> {}, context_buffer0 |-> Null, command_buffer |-> Null,
                      fences |-> Null, doublings |-> 0, mem_type |-> 4] EXCEPT !.open = w]
                  = [open |-> w, gc |-> {}, context_buffer0 |-> Null, command_buffer |-> Null,
                     fences |-> Null, doublings |-> 0, mem_type |-> 4]
      OBVIOUS
    <3> QED BY <3>1, Zenon DEF NewGL
  <2>2. gl[c].context_buffer0 = Null /\ gl[c].command_buffer = Null /\ gl[c].fences = Null
    BY <1>3 DEF Descriptors
  <2> HIDE DEF g0
  <2>3. /\ g0.context_buffer0 = Null /\ g0.command_buffer = Null /\ g0.fences = Null /\ g0.gc = {}
        /\ g0.open = TRUE
    BY <2>1
  <2>4. g0 \in GLType
    BY <2>1 DEF GLType
  <2> QED BY <1>3, <2>2, <2>3, <2>4 DEF Alike
<1>5. [Call(c) EXCEPT !.gl = [NewGL EXCEPT !.open = TRUE]] = x0
  <2> HIDE DEF g0
  <2>1. [Call(c) EXCEPT !.gl = g0] = x0
    BY DEF Call
  <2> QED BY <2>1 DEF g0
<1> HIDE DEF g0, R
<1>6. x0.gl = g0 /\ x0.h = obj
  OBVIOUS
<1>7. Settled(x0, {}, R)
  BY <1>1, <1>3, <1>4, AlikeSettled
<1>8. PICK x \in allocAllContextBuffers(x0) :
         IF x.gl.context_buffer0 = Null THEN Return(c, [Cleanup(x) EXCEPT !.gl.open = FALSE])
         ELSE \E y \in allocCommandBuffer(x) :
                Return(c, IF y.gl.command_buffer # Null THEN y
                          ELSE [Cleanup(y) EXCEPT !.gl.open = FALSE])
  BY <1>5 DEF start
<1>9. PICK n \in New(obj, Null) : x = [x0 EXCEPT !.gl.context_buffer0 = n.o, !.h = n.h]
  BY <1>8, <1>6 DEF allocAllContextBuffers
<1> DEFINE g1 == [g0 EXCEPT !.context_buffer0 = n.o]
<1>10. x = [gl |-> g1, h |-> n.h] /\ x.gl = g1 /\ x.h = n.h
  BY <1>9
<1> HIDE DEF x0
<1>11. ASSUME NEW z, Settled(z, {}, R), Stays(obj, z.h, R), Opened(z.gl, {}), Return(c, z)
       PROVE  ClientInv'
  BY <1>2, <1>3, <1>11, Returns, Ends DEF R
<1>12. CASE n.o = Null
  <2>1. n.h = obj
    <3>1. Balanced(obj, Total(R, gl[c], user[c]))
      BY <1>1 DEF Settled
    <3> QED BY <1>12, <3>1, NewGives, ClientAssumption
  <2>2. g1 = g0
    BY <1>4, <1>12 DEF GLType
  <2>3. Settled(x, {}, R) /\ x.h = obj /\ x.gl.context_buffer0 = Null
    BY <1>4, <1>7, <1>10, <2>1, <2>2 DEF x0
  <2>4. Return(c, [Cleanup(x) EXCEPT !.gl.open = FALSE])
    BY <1>8, <2>3
  <2> QED BY <1>11, <2>3, <2>4, Aborts
<1>13. CASE n.o # Null
  <2>1. n.o \in Objects
    <3>1. Balanced(obj, Total(R, gl[c], user[c]))
      BY <1>1 DEF Settled
    <3> QED BY <1>13, <3>1, NewGives
  <2>2. /\ g1 \in GLType /\ g1.context_buffer0 = n.o /\ g1.command_buffer = Null /\ g1.fences = Null
        /\ g1.gc = {} /\ g1.open = TRUE
    BY <1>4, <2>1 DEF GLType
  <2> HIDE DEF g1
  <2>3. Settled(x, {}, R) /\ Stays(obj, x.h, R)
    <3>1. ASSUME NEW q \in Every PROVE Own(g1, {}, q) = Own(x0.gl, {}, q) + B(n.o = q)
      <4>0. q # Null
        BY ClientAssumption DEF Every
      <4>1. Own(g1, {}, q) = B(n.o = q) + 0 + 0 + 0 + 0
        BY <2>2, <4>0 DEF Own, B
      <4>2. Own(g0, {}, q) = 0 + 0 + 0 + 0 + 0
        BY <1>4, <4>0 DEF Own, B
      <4> QED BY <1>6, <4>1, <4>2, BNat
    <3>2. Descriptors(g1) \subseteq Descriptors(x0.gl) \cup {n.o} /\ Distinct(g1)
      BY <1>13, <2>2 DEF Descriptors, Distinct
    <3>3. n \in New(x0.h, Null)
      BY <1>6
    <3>4. Settled([gl |-> g1, h |-> n.h], {}, R) /\ Stays(x0.h, n.h, R)
      BY <1>7, <1>13, <2>2, <3>1, <3>2, <3>3, HoldsNew
    <3> QED BY <1>6, <1>10, <3>4
  <2>4. PICK y \in allocCommandBuffer(x) :
          Return(c, IF y.gl.command_buffer # Null THEN y ELSE [Cleanup(y) EXCEPT !.gl.open = FALSE])
    BY <1>8, <1>10, <1>13, <2>2
  <2>5. PICK m \in New(x.h, Null) : y = [x EXCEPT !.gl.command_buffer = m.o, !.h = m.h]
    BY <2>4 DEF allocCommandBuffer
  <2> DEFINE g2 == [g1 EXCEPT !.command_buffer = m.o]
  <2>6. y = [gl |-> g2, h |-> m.h] /\ y.gl = g2 /\ y.h = m.h
    BY <1>10, <2>5
  <2>7. Balanced(x.h, Total(R, x.gl, {}))
    BY <2>3 DEF Settled
  <2>8. CASE m.o = Null
    <3>1. m.h = x.h
      BY <2>7, <2>8, NewGives, ClientAssumption
    <3>2. g2 = g1
      BY <2>2, <2>8 DEF GLType
    <3>3. y = x /\ y.gl.command_buffer = Null
      BY <1>10, <2>2, <2>6, <3>1, <3>2
    <3>4. Return(c, [Cleanup(x) EXCEPT !.gl.open = FALSE])
      BY <2>4, <3>3
    <3> QED BY <1>11, <2>3, <3>4, Aborts, StaysOn
  <2>9. CASE m.o # Null
    <3>1. m.o \in Objects
      BY <2>7, <2>9, NewGives
    <3>2. /\ g2 \in GLType /\ g2.context_buffer0 = n.o /\ g2.command_buffer = m.o /\ g2.fences = Null
          /\ g2.gc = {} /\ g2.open = TRUE
      BY <2>2, <3>1 DEF GLType
    <3> HIDE DEF g2
    <3>3. ASSUME NEW q \in Every PROVE Own(g2, {}, q) = Own(x.gl, {}, q) + B(m.o = q)
      <4>0. q # Null
        BY ClientAssumption DEF Every
      <4>1. Own(g1, {}, q) = B(n.o = q) + 0 + 0 + 0 + 0
        BY <2>2, <4>0 DEF Own, B
      <4>2. Own(g2, {}, q) = B(n.o = q) + B(m.o = q) + 0 + 0 + 0
        BY <3>2, <4>0 DEF Own, B
      <4> QED BY <1>10, <4>1, <4>2, BNat
    <3>4. Descriptors(g2) \subseteq Descriptors(x.gl) \cup {m.o}
      BY <1>10, <2>2, <3>2 DEF Descriptors
    <3>5. m.o \notin Descriptors(x.gl) => Distinct(g2)
      BY <1>10, <1>13, <2>2, <3>2 DEF Descriptors, Distinct
    <3>6. Settled([gl |-> g2, h |-> m.h], {}, R) /\ Stays(x.h, m.h, R)
      BY <2>3, <2>9, <3>2, <3>3, <3>4, <3>5, HoldsNew
    <3>7. Settled(y, {}, R) /\ Stays(obj, y.h, R)
      BY <2>3, <2>6, <3>6, StaysOn
    <3>8. y.gl.command_buffer # Null /\ Return(c, y)
      BY <2>4, <2>6, <2>9, <3>2
    <3>9. Opened(y.gl, {})
      BY <1>13, <2>6, <2>9, <3>2 DEF Opened
    <3> QED BY <1>11, <3>7, <3>8, <3>9
  <2> QED BY <2>8, <2>9
<1> QED
  BY <1>12, <1>13

\* One more reference held.
Adds(k, v, g, u, m) == \A q \in Every : Own(k, v, q) = Own(g, u, q) + B(m = q)

LEMMA AddsOne ==
  ASSUME NEW R \in [Every -> Nat], NEW g, NEW u, NEW k, NEW v, NEW m \in Every, Adds(k, v, g, u, m)
  PROVE  Total(R, k, v) = More(Total(R, g, u), m)
<1> DEFINE T == Total(R, g, u)
<1>1. T \in [Every -> Nat]
  BY OwnIs
<1> HIDE DEF T
<1>2. More(T, m) \in [Every -> Nat]
  BY <1>1, MoreLess
<1>3. ASSUME NEW q \in Every PROVE More(T, m)[q] = R[q] + Own(k, v, q)
  <2>1. More(T, m)[q] = IF m = q THEN T[q] + 1 ELSE T[q]
    BY <1>1 DEF More
  <2>2. T[q] = R[q] + Own(g, u, q) /\ R[q] \in Nat /\ Own(g, u, q) \in Nat
    BY OwnIs DEF T
  <2>3. Own(k, v, q) = Own(g, u, q) + (IF m = q THEN 1 ELSE 0)
    BY DEF B, Adds
  <2> QED BY <2>1, <2>2, <2>3
<1>4. More(T, m) = Total(R, k, v)
  BY <1>2, <1>3, SameTotal
<1> QED
  BY <1>4 DEF T

LEMMA NotHeld ==
  ASSUME NEW R \in [Every -> Nat], NEW g, NEW u, NEW m \in Every, Total(R, g, u)[m] = 0
  PROVE  m \notin u /\ m \notin g.gc
<1>1. /\ Total(R, g, u)[m] = R[m] + Own(g, u, m) /\ Own(g, u, m) \in Nat /\ R[m] \in Nat
      /\ (m \in g.gc \/ m \in u) => Own(g, u, m) > 0
  BY OwnIs
<1>2. Own(g, u, m) = 0
  BY <1>1
<1> QED
  BY <1>1, <1>2

\* A new map in the client's hands.
LEMMA AddsMap ==
  ASSUME NEW g, NEW u, NEW m, m \notin u
  PROVE  Adds(g, u \cup {m}, g, u, m)
<1> SUFFICES ASSUME NEW q \in Every PROVE Own(g, u \cup {m}, q) = Own(g, u, q) + B(m = q)
  BY DEF Adds
<1>1. B(q \in u \cup {m}) = B(q \in u) + B(m = q)
  BY DEF B
<1>2. /\ B(g.context_buffer0 = q) \in Nat /\ B(g.command_buffer = q) \in Nat
      /\ B(g.fences = q) \in Nat /\ B(q \in g.gc) \in Nat /\ B(q \in u) \in Nat /\ B(m = q) \in Nat
  BY BNat
<1> QED
  BY <1>1, <1>2 DEF Own

\* A new map in the collection.
LEMMA Collects ==
  ASSUME NEW g, NEW k, NEW u, NEW m, m \notin g.gc, k.gc = g.gc \cup {m},
         k.context_buffer0 = g.context_buffer0, k.command_buffer = g.command_buffer, k.fences = g.fences
  PROVE  Adds(k, u, g, u, m)
<1> SUFFICES ASSUME NEW q \in Every PROVE Own(k, u, q) = Own(g, u, q) + B(m = q)
  BY DEF Adds
<1>1. B(q \in k.gc) = B(q \in g.gc) + B(m = q)
  BY DEF B
<1>2. /\ B(g.context_buffer0 = q) \in Nat /\ B(g.command_buffer = q) \in Nat
      /\ B(g.fences = q) \in Nat /\ B(q \in g.gc) \in Nat /\ B(q \in u) \in Nat /\ B(m = q) \in Nat
  BY BNat
<1>3. Own(k, u, q) = B(g.context_buffer0 = q) + B(g.command_buffer = q) + B(g.fences = q)
                     + B(q \in k.gc) + B(q \in u)
  BY DEF Own
<1> QED
  BY <1>1, <1>2, <1>3 DEF Own

\* The descriptor lent is mapped, and what was lent given back.
LEMMA AfterLoan ==
  ASSUME NEW x, NEW r, NEW u, NEW R, Lent(x, r, u, R), r.md # Null, NEW n \in New(r.x.h, r.md)
  PROVE  /\ \/ n.o = Null /\ Balanced(release(n.h, r.md), Total(R, r.x.gl, u))
            \/ /\ n.o \in Objects /\ Total(R, r.x.gl, u)[n.o] = 0
               /\ Balanced(release(n.h, r.md), More(Total(R, r.x.gl, u), n.o))
         /\ Stays(x.h, release(n.h, r.md), R) /\ PlainlyHeld(r.x.gl, release(n.h, r.md))
<1> DEFINE T == Total(R, r.x.gl, u)
           k == release(n.h, r.md)
           md == r.md
<1>1. /\ r.x.gl \in GLType /\ R \in [Every -> Nat] /\ PlainlyHeld(r.x.gl, r.x.h) /\ Stays(x.h, r.x.h, R)
      /\ md \in Every /\ r.x.h[md].of = Null /\ Balanced(r.x.h, More(T, md))
  BY DEF Lent, Client
<1>2. T \in [Every -> Nat]
  BY <1>1, OwnIs, ClientAssumption
<1> HIDE DEF T, k, md
<1>3. /\ \/ n.o = Null /\ Balanced(k, T)
         \/ /\ n.o \in Objects /\ r.x.h[n.o].refs = 0 /\ n.o # md
            /\ More(T, md)[n.o] = 0 /\ Balanced(k, More(T, n.o))
      /\ \A p \in Every : p # n.o => k[p].of = r.x.h[p].of
  BY <1>1, <1>2, Borrowed DEF k, md
<1>4. \A p \in Every : T[p] = R[p] + Own(r.x.gl, u, p) /\ Own(r.x.gl, u, p) \in Nat /\ R[p] \in Nat
                       /\ (p \in Descriptors(r.x.gl) => Own(r.x.gl, u, p) > 0)
  BY <1>1, OwnIs DEF T
<1>5. n.o \in Objects => n.o \in Every /\ T[n.o] = 0
  <2>1. n.o \in Objects => n.o \in Every /\ n.o # Null
    BY ClientAssumption DEF Every
  <2> QED BY <1>1, <1>2, <1>3, <2>1, MoreLess
<1>6. ASSUME NEW p \in Every, R[p] > 0 \/ p \in Descriptors(r.x.gl) PROVE p # n.o
  <2>1. T[p] = R[p] + Own(r.x.gl, u, p) /\ Own(r.x.gl, u, p) \in Nat /\ R[p] \in Nat
        /\ (p \in Descriptors(r.x.gl) => Own(r.x.gl, u, p) > 0)
    BY <1>4
  <2>2. T[p] # 0
    BY <1>6, <2>1
  <2>3. p # Null
    BY ClientAssumption DEF Every
  <2> QED BY <1>3, <1>5, <2>2, <2>3
<1>7. Stays(x.h, k, R)
  BY <1>1, <1>3, <1>6 DEF Stays
<1>8. PlainlyHeld(r.x.gl, k)
  <2>1. \A p \in Descriptors(r.x.gl) : p \in Every
    BY <1>1 DEF Descriptors, GLType, Every
  <2> QED BY <1>1, <1>3, <1>6, <2>1 DEF PlainlyHeld
<1> QED
  BY <1>3, <1>5, <1>7, <1>8 DEF T, k

LEMMA OpenBegins ==
  ASSUME ClientInv, NEW c \in GLContexts, gl[c].open, NEW type \in 0..4,
         NEW r \in clientMemoryForType(Call(c), type)
  PROVE  /\ Lent(Call(c), r, user[c], Besides(c)) /\ Client(r.x, user[c], Besides(c))
         /\ r.x.gl.open = TRUE /\ r.x.gl.context_buffer0 # Null /\ r.x.gl.command_buffer # Null
         /\ Call(c).h = obj
         /\ (r.md = Null => Settled(r.x, user[c], Besides(c)))
<1>1. /\ Settled(Call(c), user[c], Besides(c)) /\ Call(c).gl = gl[c] /\ Call(c).h = obj
      /\ Opened(gl[c], user[c]) /\ gl[c] \in GLType
  BY Begins
<1>2. gl[c].context_buffer0 # Null /\ gl[c].command_buffer # Null /\ gl[c].open = TRUE
  BY <1>1 DEF Opened, GLType
<1>3. Lent(Call(c), r, user[c], Besides(c))
  BY <1>1, <1>2, Lends
<1>4. r.md = Null => Settled(r.x, user[c], Besides(c))
  BY <1>1, <1>3, ClientAssumption DEF Lent, Every
<1> QED
  BY <1>1, <1>2, <1>3, <1>4 DEF Lent

LEMMA MapMemoryKeeps ==
  ASSUME ClientInv, NEW c \in GLContexts, NEW type \in 0..4, MapMemory(c, type) PROVE ClientInv'
<1> DEFINE R == Besides(c)
           u == user[c]
<1>1. gl[c].open /\ cd' = cd
  BY DEF MapMemory
<1>2. PICK r \in clientMemoryForType(Call(c), type) :
         IF r.md = Null THEN Return(c, r.x) /\ UNCHANGED user
         ELSE \E m \in New(r.x.h, r.md) :
                /\ Return(c, [r.x EXCEPT !.h = release(m.h, r.md)])
                /\ user' = [user EXCEPT ![c] = @ \cup ({m.o} \ {Null})]
  BY DEF MapMemory
<1>3. /\ Lent(Call(c), r, u, R) /\ Client(r.x, u, R)
      /\ r.x.gl.open = TRUE /\ r.x.gl.context_buffer0 # Null /\ r.x.gl.command_buffer # Null
      /\ Call(c).h = obj /\ (r.md = Null => Settled(r.x, u, R))
  BY <1>1, OpenBegins
<1>4. \A v : Opened(r.x.gl, v)
  BY <1>3 DEF Opened
<1>5. CASE r.md = Null
  <2>1. Return(c, r.x) /\ user' = user
    BY <1>2, <1>5
  <2>2. Leaves(c, r.x, u)
    BY <1>1, <2>1, Returns
  <2>3. Stays(obj, r.x.h, R)
    BY <1>3 DEF Lent
  <2> HIDE DEF u, R
  <2> QED BY <1>3, <1>4, <1>5, <2>2, <2>3, Ends DEF R
<1>6. CASE r.md # Null
  <2>1. PICK m \in New(r.x.h, r.md) :
           /\ Return(c, [r.x EXCEPT !.h = release(m.h, r.md)])
           /\ user' = [user EXCEPT ![c] = @ \cup ({m.o} \ {Null})]
    BY <1>2, <1>6
  <2> DEFINE k == release(m.h, r.md)
             g == r.x.gl
             v == u \cup ({m.o} \ {Null})
             z == [gl |-> g, h |-> k]
             T == Total(R, g, u)
  <2>2. /\ \/ m.o = Null /\ Balanced(k, T)
           \/ m.o \in Objects /\ T[m.o] = 0 /\ Balanced(k, More(T, m.o))
        /\ Stays(obj, k, R) /\ PlainlyHeld(g, k)
    BY <1>3, <1>6, AfterLoan
  <2>3. [r.x EXCEPT !.h = k] = z
    <3>1. r.x = [gl |-> r.x.gl, h |-> r.x.h]
      BY <1>3 DEF Client
    <3> HIDE DEF k
    <3> QED BY <3>1
  <2>4. z.gl = g /\ z.h = k
    OBVIOUS
  <2>5. Leaves(c, z, v)
    <3>1. Return(c, z) /\ user' = [user EXCEPT ![c] = v]
      BY <2>1, <2>3
    <3> HIDE DEF z, v
    <3> QED BY <1>1, <3>1 DEF Return, Leaves
  <2> HIDE DEF k, u, z, R
  <2>6. g \in GLType /\ R \in [Every -> Nat] /\ u \in SUBSET Objects /\ Distinct(g)
    BY <1>3 DEF Client
  <2>7. Balanced(k, Total(R, g, v)) /\ v \in SUBSET Objects
    <3>1. CASE m.o = Null
      <4>1. v = u /\ Null \notin Objects
        BY <3>1, ClientAssumption
      <4> HIDE DEF v
      <4> QED BY <2>2, <2>6, <3>1, <4>1
    <3>2. CASE m.o # Null
      <4>1. v = u \cup {m.o} /\ m.o \in Objects /\ T[m.o] = 0 /\ Balanced(k, More(T, m.o))
        BY <2>2, <3>2
      <4>2. Total(R, g, u \cup {m.o}) = More(T, m.o)
        <5>1. Total(R, g, u)[m.o] = 0 /\ m.o \in Every
          BY <4>1 DEF Every
        <5> HIDE DEF T, g, v
        <5>2. m.o \notin u
          BY <2>6, <5>1, NotHeld
        <5>3. Adds(g, u \cup {m.o}, g, u, m.o)
          BY <5>2, AddsMap
        <5>4. Total(R, g, u \cup {m.o}) = More(Total(R, g, u), m.o)
          BY <2>6, <5>1, <5>3, AddsOne
        <5> QED BY <5>4 DEF T
      <4> QED BY <2>6, <4>1, <4>2
    <3> QED BY <3>1, <3>2
  <2>8. z = [gl |-> z.gl, h |-> z.h]
    BY DEF z
  <2>9. Settled(z, v, R)
    BY <2>2, <2>4, <2>6, <2>7, <2>8 DEF Settled, Client
  <2>10. Opened(z.gl, v) /\ Stays(obj, z.h, R)
    BY <1>4, <2>2, <2>4
  <2> HIDE DEF v
  <2> QED BY <2>5, <2>9, <2>10, Ends DEF R
<1> QED
  BY <1>5, <1>6

LEMMA UnmapMemoryKeeps ==
  ASSUME ClientInv, NEW c \in GLContexts, NEW m \in user[c], UnmapMemory(c, m) PROVE ClientInv'
<1> DEFINE R == Besides(c)
           u == user[c]
           g == gl[c]
           T == Total(R, g, u)
           k == release(obj, m)
           v == u \ {m}
           z == [gl |-> g, h |-> k]
<1>1. /\ Settled(Call(c), u, R) /\ Call(c).gl = g /\ Call(c).h = obj
      /\ Opened(g, u) /\ g \in GLType /\ u \in SUBSET Objects
  BY Begins
<1>2. /\ gl' = gl /\ cd' = cd /\ obj' = k /\ user' = [user EXCEPT ![c] = v]
  BY DEF UnmapMemory
<1>3. Leaves(c, z, v)
  <2>1. gl = [gl EXCEPT ![c] = gl[c]]
    BY DEF ClientInv
  <2> QED BY <1>2, <2>1 DEF Leaves
<1>4. m \in u
  OBVIOUS
<1> HIDE DEF R, u, g, T, k, v
<1>5. /\ R \in [Every -> Nat] /\ Distinct(g) /\ PlainlyHeld(g, obj) /\ Balanced(obj, T)
  BY <1>1 DEF Settled, Client, T
<1>6. m \in Every
  BY <1>1, <1>4 DEF Every
<1>7. T \in [Every -> Nat] /\ T[m] > 0
  <2>1. T \in [Every -> Nat] /\ T[m] = R[m] + Own(g, u, m) /\ Own(g, u, m) \in Nat /\ R[m] \in Nat /\ Own(g, u, m) > 0
    BY <1>4, <1>5, <1>6, OwnIs DEF T
  <2> QED BY <2>1
<1>8. Balanced(k, Less(T, m)) /\ \A p \in Every : k[p].of \in {obj[p].of, Null}
  BY <1>5, <1>6, <1>7, Releases DEF k
<1>9. Less(T, m) = Total(R, g, v)
  <2>1. Less(T, m) \in [Every -> Nat]
    BY <1>8 DEF Balanced
  <2>2. ASSUME NEW q \in Every PROVE Less(T, m)[q] = R[q] + Own(g, v, q)
    <3>1. Less(T, m)[q] = IF m = q THEN T[q] - 1 ELSE T[q]
      BY <1>7 DEF Less
    <3>2. T[q] = R[q] + Own(g, u, q) /\ R[q] \in Nat
      BY <1>5, OwnIs DEF T
    <3>3. B(q \in v) = IF m = q THEN B(q \in u) - 1 ELSE B(q \in u)
      BY <1>4 DEF B, v
    <3>4. /\ B(g.context_buffer0 = q) \in Nat /\ B(g.command_buffer = q) \in Nat
          /\ B(g.fences = q) \in Nat /\ B(q \in g.gc) \in Nat /\ B(q \in u) \in Nat
      BY BNat
    <3>5. /\ Own(g, u, q) = B(g.context_buffer0 = q) + B(g.command_buffer = q) + B(g.fences = q)
                            + B(q \in g.gc) + B(q \in u)
          /\ Own(g, v, q) = B(g.context_buffer0 = q) + B(g.command_buffer = q) + B(g.fences = q)
                            + B(q \in g.gc) + B(q \in v)
      BY DEF Own
    <3> QED BY <3>1, <3>2, <3>3, <3>4, <3>5
  <2> QED BY <1>5, <2>1, <2>2, SameTotal
<1>10. z.gl = g /\ z.h = k /\ z = [gl |-> z.gl, h |-> z.h]
  OBVIOUS
<1> HIDE DEF z
<1>11. v \in SUBSET Objects /\ Opened(g, v)
  BY <1>1 DEF v, Opened
<1>12. PlainlyHeld(g, k)
  <2>1. \A p \in Descriptors(g) : p \in Every
    BY <1>1 DEF Descriptors, GLType, Every
  <2> QED BY <1>5, <1>8, <2>1 DEF PlainlyHeld
<1>13. Settled(z, v, R) /\ Stays(obj, z.h, R) /\ Opened(z.gl, v)
  BY <1>1, <1>5, <1>8, <1>9, <1>10, <1>11, <1>12 DEF Settled, Client, Stays
<1> QED
  BY <1>3, <1>13, Ends DEF R

LEMMA submitKeeps ==
  ASSUME ClientInv, NEW c \in GLContexts, NEW do_get_data \in BOOLEAN, submit_command_buffer(c, do_get_data)
  PROVE  ClientInv'
<1> DEFINE R == Besides(c)
           u == user[c]
<1>1. gl[c].open /\ cd' = cd /\ user' = user /\ gl[c].mem_type \in 0..4
  <2>1. gl[c] \in GLType
    BY DEF ClientInv
  <2>2. gl[c].mem_type \in {0, 4}
    BY <2>1 DEF GLType
  <2>3. gl[c].mem_type \in 0..4
    BY <2>2
  <2> QED BY <2>3 DEF submit_command_buffer
<1>2. PICK r \in clientMemoryForType(Call(c), gl[c].mem_type) :
         LET x == [r.x EXCEPT !.gl.mem_type = 0]
         IN  IF r.md = Null THEN Return(c, x)
             ELSE \E m \in New(x.h, r.md) :
                    LET h == release(m.h, r.md)
                    IN  IF m.o = Null THEN Return(c, [x EXCEPT !.h = h])
                        ELSE IF do_get_data /\ ~get_data_buffer
                        THEN Return(c, [x EXCEPT !.h = release(h, m.o)])
                        ELSE Return(c, [x EXCEPT !.gl.gc = @ \cup {m.o},
                                                 !.h = release(retain(h, m.o), m.o)])
  BY DEF submit_command_buffer, Call
<1>3. /\ Lent(Call(c), r, u, R) /\ Client(r.x, u, R)
      /\ r.x.gl.open = TRUE /\ r.x.gl.context_buffer0 # Null /\ r.x.gl.command_buffer # Null
      /\ Call(c).h = obj /\ (r.md = Null => Settled(r.x, u, R))
  BY <1>1, OpenBegins
<1> DEFINE g == r.x.gl
           g0 == [g EXCEPT !.mem_type = 0]
           x == [r.x EXCEPT !.gl.mem_type = 0]
           T == Total(R, g, u)
<1>4. x = [gl |-> g0, h |-> r.x.h] /\ x.gl = g0 /\ x.h = r.x.h
  <2>1. r.x = [gl |-> r.x.gl, h |-> r.x.h]
    BY <1>3 DEF Client
  <2> QED BY <2>1
<1>5. /\ g \in GLType /\ R \in [Every -> Nat] /\ u \in SUBSET Objects /\ Distinct(g)
      /\ g0 \in GLType /\ Alike(g, g0) /\ g0.open = TRUE
  <2>1. g \in GLType /\ R \in [Every -> Nat] /\ u \in SUBSET Objects /\ Distinct(g)
    BY <1>3 DEF Client
  <2> QED BY <1>3, <2>1 DEF GLType, Alike
<1> HIDE DEF x, g0, R, u
<1>6. ASSUME NEW z, z.gl = g0, z = [gl |-> z.gl, h |-> z.h],
             Balanced(z.h, T), PlainlyHeld(g, z.h), Stays(obj, z.h, R), Return(c, z)
      PROVE  ClientInv'
  <2> DEFINE y == [gl |-> g, h |-> z.h]
  <2>1. y.gl = g /\ y.h = z.h /\ y = [gl |-> y.gl, h |-> y.h]
    OBVIOUS
  <2> HIDE DEF y, g
  <2>2. Settled(y, u, R)
    BY <1>5, <1>6, <2>1 DEF Settled, Client
  <2>3. Settled(z, u, R)
    <3>1. Alike(y.gl, g0)
      BY <1>5, <2>1
    <3>2. Settled([gl |-> g0, h |-> y.h], u, R)
      BY <1>5, <2>2, <3>1, AlikeSettled
    <3> QED BY <1>6, <2>1, <3>2
  <2>4. Opened(z.gl, u)
    BY <1>3, <1>5, <1>6 DEF Opened, Alike, g
  <2>5. Leaves(c, z, u)
    BY <1>1, <1>6, Returns DEF u
  <2> QED BY <1>6, <2>3, <2>4, <2>5, Ends DEF R
<1>7. CASE r.md = Null
  <2>1. Return(c, x)
    BY <1>2, <1>7 DEF x
  <2>2. Balanced(x.h, T) /\ PlainlyHeld(g, x.h) /\ Stays(obj, x.h, R)
    BY <1>3, <1>4, <1>7 DEF Settled, Client, Lent
  <2>3. x = [gl |-> x.gl, h |-> x.h]
    BY <1>4
  <2> HIDE DEF T, g
  <2> QED BY <1>4, <1>6, <2>1, <2>2, <2>3
<1>8. CASE r.md # Null
  <2>1. PICK m \in New(x.h, r.md) :
          LET h == release(m.h, r.md)
          IN  IF m.o = Null THEN Return(c, [x EXCEPT !.h = h])
              ELSE IF do_get_data /\ ~get_data_buffer
              THEN Return(c, [x EXCEPT !.h = release(h, m.o)])
              ELSE Return(c, [x EXCEPT !.gl.gc = @ \cup {m.o},
                                       !.h = release(retain(h, m.o), m.o)])
    BY <1>2, <1>8 DEF x
  <2> DEFINE k == release(m.h, r.md)
  <2>2. /\ \/ m.o = Null /\ Balanced(k, T)
           \/ m.o \in Objects /\ T[m.o] = 0 /\ Balanced(k, More(T, m.o))
        /\ Stays(obj, k, R) /\ PlainlyHeld(g, k)
    BY <1>3, <1>4, <1>8, AfterLoan
  <2>3. \A p \in Descriptors(g) : p \in Every
    BY <1>5 DEF Descriptors, GLType, Every
  <2> HIDE DEF k, T, g
  <2>4. CASE m.o = Null
    <3>1. Return(c, [x EXCEPT !.h = k])
      BY <2>1, <2>4 DEF k
    <3>2. [x EXCEPT !.h = k] = [gl |-> g0, h |-> k]
      BY <1>4
    <3> DEFINE z == [gl |-> g0, h |-> k]
    <3>3. z.gl = g0 /\ z.h = k /\ z = [gl |-> z.gl, h |-> z.h] /\ Return(c, z)
      BY <3>1, <3>2
    <3> HIDE DEF z
    <3>4. Balanced(k, T)
      BY <2>2, <2>4, ClientAssumption
    <3> QED BY <1>6, <2>2, <3>3, <3>4
  <2>5. CASE m.o # Null
    <3>1. m.o \in Objects /\ T[m.o] = 0 /\ Balanced(k, More(T, m.o))
      BY <2>2, <2>5
    <3>2. m.o \in Every /\ T \in [Every -> Nat] /\ More(T, m.o) \in [Every -> Nat] /\ More(T, m.o)[m.o] > 0
          /\ Less(More(T, m.o), m.o) = T
      <4>1. m.o \in Every
        BY <3>1 DEF Every
      <4>2. T \in [Every -> Nat]
        BY <1>5, <4>1, OwnIs DEF T
      <4> QED BY <4>1, <4>2, MoreLess
    <3>3. CASE do_get_data /\ ~get_data_buffer
      <4> DEFINE l == release(k, m.o)
                 z == [gl |-> g0, h |-> l]
      <4>1. Return(c, [x EXCEPT !.h = l])
        BY <2>1, <2>5, <3>3 DEF k
      <4>2. Balanced(l, T) /\ \A p \in Every : l[p].of \in {k[p].of, Null}
        <5>1. /\ Balanced(l, Less(More(T, m.o), m.o))
              /\ \A p \in Every : l[p].of \in {k[p].of, Null}
          BY <3>1, <3>2, Releases
        <5> QED BY <3>2, <5>1
      <4> HIDE DEF l
      <4>3. [x EXCEPT !.h = l] = z
        BY <1>4
      <4>4. z.gl = g0 /\ z.h = l /\ z = [gl |-> z.gl, h |-> z.h] /\ Return(c, z)
        BY <4>1, <4>3
      <4> HIDE DEF z
      <4>5. Stays(obj, l, R) /\ PlainlyHeld(g, l)
        BY <2>2, <2>3, <4>2 DEF Stays, PlainlyHeld
      <4> QED BY <1>6, <4>2, <4>4, <4>5
    <3>4. CASE ~(do_get_data /\ ~get_data_buffer)
      <4> DEFINE l == retain(k, m.o)
                 j == release(l, m.o)
                 g1 == [g0 EXCEPT !.gc = @ \cup {m.o}]
                 z == [gl |-> g1, h |-> j]
      <4>1. Return(c, [x EXCEPT !.gl.gc = @ \cup {m.o}, !.h = j])
        BY <2>1, <2>5, <3>4 DEF k
      <4>2. Balanced(l, More(More(T, m.o), m.o)) /\ \A p \in Every : l[p].of = k[p].of
        <5>1. k[m.o].refs > 0
          BY <3>1, <3>2, HolderAlive
        <5> QED BY <3>1, <3>2, <5>1, Retains
      <4>3. Balanced(j, More(T, m.o)) /\ \A p \in Every : j[p].of \in {k[p].of, Null}
        <5>1. Less(More(More(T, m.o), m.o), m.o) = More(T, m.o) /\ More(More(T, m.o), m.o)[m.o] > 0
          BY <3>2, MoreLess
        <5>2. /\ Balanced(j, Less(More(More(T, m.o), m.o), m.o))
              /\ \A p \in Every : j[p].of \in {l[p].of, Null}
          BY <3>2, <4>2, <5>1, Releases
        <5> QED BY <4>2, <5>1, <5>2
      <4> HIDE DEF j, l
      <4>4. [x EXCEPT !.gl.gc = @ \cup {m.o}, !.h = j] = z
        <5> DEFINE x1 == [x EXCEPT !.gl.gc = @ \cup {m.o}]
        <5>1. x1 = [gl |-> g1, h |-> r.x.h]
          BY <1>4
        <5>2. [x EXCEPT !.gl.gc = @ \cup {m.o}, !.h = j] = [x1 EXCEPT !.h = j]
          OBVIOUS
        <5> HIDE DEF x1, g1
        <5> QED BY <5>1, <5>2
      <4>5. /\ g1 \in GLType /\ g1.gc = g0.gc \cup {m.o} /\ g1.open = TRUE
            /\ g1.context_buffer0 = g0.context_buffer0 /\ g1.command_buffer = g0.command_buffer
            /\ g1.fences = g0.fences
        BY <1>5, <3>1 DEF GLType
      <4>6. Total(R, g0, u) = T
        <5>1. \A q : Own(g0, u, q) = Own(g, u, q)
          BY <1>5 DEF Own, Alike
        <5> QED BY <5>1 DEF Total, T
      <4>7. Total(R, g1, u) = More(T, m.o)
        <5>1. Total(R, g0, u)[m.o] = 0 /\ R \in [Every -> Nat]
          BY <1>5, <3>1, <4>6
        <5> HIDE DEF g1
        <5>2. m.o \notin g0.gc
          BY <3>2, <5>1, NotHeld
        <5>3. Adds(g1, u, g0, u, m.o)
          BY <4>5, <5>2, Collects
        <5>4. Total(R, g1, u) = More(Total(R, g0, u), m.o)
          BY <3>2, <5>1, <5>3, AddsOne
        <5> QED BY <4>6, <5>4
      <4> HIDE DEF g1
      <4>8. Distinct(g1) /\ Descriptors(g1) = Descriptors(g)
        BY <1>5, <4>5 DEF Distinct, Descriptors, Alike
      <4>9. z.gl = g1 /\ z.h = j /\ z = [gl |-> z.gl, h |-> z.h] /\ Return(c, z)
        BY <4>1, <4>4
      <4> HIDE DEF z
      <4>10. Stays(obj, j, R) /\ PlainlyHeld(g1, j)
        BY <2>2, <2>3, <4>3, <4>8 DEF Stays, PlainlyHeld
      <4>11. Settled(z, u, R) /\ Stays(obj, z.h, R)
        BY <1>5, <4>3, <4>5, <4>7, <4>8, <4>9, <4>10 DEF Settled, Client
      <4>12. Opened(z.gl, u)
        BY <1>3, <1>5, <4>5, <4>9 DEF Opened, Alike, g
      <4>13. Leaves(c, z, u)
        BY <1>1, <4>9, Returns DEF u
      <4> QED BY <4>11, <4>12, <4>13, Ends DEF R
    <3> QED BY <3>3, <3>4
  <2> QED BY <2>4, <2>5
<1> QED
  BY <1>7, <1>8

LEMMA clientCloseKeeps ==
  ASSUME ClientInv, NEW c \in GLContexts, clientClose(c) PROVE ClientInv'
<1> DEFINE R == Besides(c)
           u == user[c]
           x == Cleanup(Call(c))
           g == [x.gl EXCEPT !.open = FALSE, !.mem_type = 4]
           k == releaseAll(x.h, u)
           z == [gl |-> g, h |-> k]
           T == Total(R, x.gl, u)
<1>1. /\ Settled(Call(c), u, R) /\ Call(c).gl = gl[c] /\ Call(c).h = obj /\ u \in SUBSET Objects
  BY Begins
<1>2. /\ Settled(x, u, R) /\ Stays(obj, x.h, R) /\ Descriptors(x.gl) = {} /\ x.gl.gc = {}
  BY <1>1, CleanupGives
<1>3. cd' = cd /\ gl' = [gl EXCEPT ![c] = g] /\ obj' = k /\ user' = [user EXCEPT ![c] = {}]
  BY DEF clientClose
<1>4. z.gl = g /\ z.h = k /\ z = [gl |-> z.gl, h |-> z.h]
  OBVIOUS
<1> HIDE DEF R, u, x, k, z, T
<1>5. Leaves(c, z, {})
  BY <1>3, <1>4 DEF Leaves
<1>6. /\ x.gl \in GLType /\ R \in [Every -> Nat] /\ Balanced(x.h, T)
  BY <1>2 DEF Settled, Client, T
<1>7. g \in GLType /\ Alike(x.gl, g) /\ g.open = FALSE
  <2> DEFINE no == FALSE
             g1 == [x.gl EXCEPT !.open = no]
  <2>1. no \in BOOLEAN
    OBVIOUS
  <2>2. g = [g1 EXCEPT !.mem_type = 4]
    OBVIOUS
  <2> HIDE DEF no, g
  <2>3. g1 \in GLType /\ Alike(x.gl, g1) /\ g1.open = no
    BY <1>6, <2>1 DEF GLType, Alike
  <2> HIDE DEF g1
  <2>4. g \in GLType /\ Alike(x.gl, g) /\ g.open = no
    BY <2>2, <2>3 DEF GLType, Alike
  <2> QED BY <2>4 DEF no
<1> HIDE DEF g
<1>8. Balanced(k, Without(T, u)) /\ \A p \in Every : k[p].of \in {x.h[p].of, Null}
  <2>1. u \in SUBSET (Every \cup {Null}) /\ IsFiniteSet(u)
    BY <1>1, ClientAssumption, FS_Subset DEF Every
  <2>2. ASSUME NEW o \in u PROVE T[o] > 0
    <3>1. o \in Every
      BY <1>1, <2>2 DEF Every
    <3>2. T[o] = R[o] + Own(x.gl, u, o) /\ Own(x.gl, u, o) \in Nat /\ R[o] \in Nat /\ Own(x.gl, u, o) > 0
      BY <1>6, <3>1, OwnIs DEF T
    <3> QED BY <3>2
  <2> QED BY <1>6, <2>1, <2>2, ReleasesAll DEF k
<1>9. Without(T, u) = Total(R, g, {})
  <2>1. Without(T, u) \in [Every -> Nat]
    BY <1>8 DEF Balanced
  <2>2. ASSUME NEW q \in Every PROVE Without(T, u)[q] = R[q] + Own(g, {}, q)
    <3>0. q # Null
      BY ClientAssumption DEF Every
    <3>1. Without(T, u)[q] = IF q \in u THEN T[q] - 1 ELSE T[q]
      BY DEF Without
    <3>2. T[q] = R[q] + Own(x.gl, u, q) /\ R[q] \in Nat
      BY <1>6, OwnIs DEF T
    <3>3. x.gl.context_buffer0 # q /\ x.gl.command_buffer # q /\ x.gl.fences # q
      BY <1>2, <3>0 DEF Descriptors
    <3>4. Own(x.gl, u, q) = IF q \in u THEN 1 ELSE 0
      BY <1>2, <3>3 DEF Own, B
    <3>5. Own(g, {}, q) = 0
      BY <1>2, <1>7, <3>3 DEF Own, B, Alike
    <3> QED BY <3>1, <3>2, <3>4, <3>5
  <2> QED BY <1>6, <2>1, <2>2, SameTotal
<1>10. Descriptors(g) = {} /\ g.gc = {}
  BY <1>2, <1>7 DEF Descriptors, Alike
<1>11. Distinct(g) /\ PlainlyHeld(g, k) /\ Opened(g, {})
  BY <1>7, <1>10 DEF Distinct, PlainlyHeld, Opened, Descriptors
<1>12. Settled(z, {}, R) /\ Opened(z.gl, {})
  BY <1>4, <1>6, <1>7, <1>8, <1>9, <1>11 DEF Settled, Client
<1>13. Stays(obj, z.h, R)
  BY <1>2, <1>4, <1>8 DEF Stays
<1> QED
  BY <1>5, <1>12, <1>13, Ends DEF R

\* Steps that leave the contexts alone.
LEMMA DeviceEnds ==
  ASSUME ClientInv, gl' = gl, user' = user, cd' \in [Devices -> DeviceType],
         NEW e, Balanced(obj', e), \A o \in Every : e[o] = Parts(GLContexts, gl, user, o) + Fixed(cd', o),
         \A c \in GLContexts : \A p \in Descriptors(gl[c]) : obj'[p].of = Null
  PROVE  ClientInv'
<1>1. e = [o \in Every |-> Parts(GLContexts, gl, user, o) + Fixed(cd', o)]
  <2>1. e = [o \in Every |-> e[o]]
    BY DEF Balanced
  <2> QED BY <2>1
<1>2. Counted' = e
  BY <1>1 DEF Counted, Every
<1> HIDE DEF Counted
<1>3. /\ gl' \in [GLContexts -> GLType] /\ user' \in [GLContexts -> SUBSET Objects]
      /\ Balanced(obj', Counted')
  BY <1>2 DEF ClientInv
<1>4. \A c \in GLContexts : Distinct(gl'[c]) /\ PlainlyHeld(gl'[c], obj') /\ Opened(gl'[c], user'[c])
  BY DEF ClientInv, PlainlyHeld
<1>5. ClientInv' <=> /\ gl' \in [GLContexts -> GLType] /\ user' \in [GLContexts -> SUBSET Objects]
                     /\ cd' \in [Devices -> DeviceType] /\ Balanced(obj', Counted')
                     /\ \A d \in GLContexts : Distinct(gl'[d]) /\ PlainlyHeld(gl'[d], obj') /\ Opened(gl'[d], user'[d])
  BY DEF ClientInv, Balanced, Heaps, Every, Maps, Distinct, PlainlyHeld, Opened, Descriptors, GLType, DeviceType
<1> QED
  BY <1>3, <1>4, <1>5

LEMMA FixedSplit ==
  ASSUME NEW D, NEW d \in Devices, NEW o
  PROVE  LET n == Cardinality({x \in Devices \ {d} : D[x].channel_memory_map = o}) + B(o = Channel)
         IN  n \in Nat /\ Fixed(D, o) = n + B(D[d].channel_memory_map = o)
<1> DEFINE A == {x \in Devices : D[x].channel_memory_map = o}
           A0 == {x \in Devices \ {d} : D[x].channel_memory_map = o}
<1>1. A0 = A \ {d} /\ A \in SUBSET Devices /\ (d \in A <=> D[d].channel_memory_map = o)
  OBVIOUS
<1> HIDE DEF A, A0
<1>2. Cardinality(A0) \in Nat /\ Cardinality(A) = Cardinality(A0) + B(d \in A)
  BY <1>1, SplitOff, ClientAssumption
<1>3. B(d \in A) = B(D[d].channel_memory_map = o)
  BY <1>1 DEF B
<1>4. B(o = Channel) \in Nat /\ B(D[d].channel_memory_map = o) \in Nat
  BY BNat
<1>5. Cardinality(A0) + B(o = Channel) \in Nat
      /\ Fixed(D, o) = Cardinality(A0) + B(o = Channel) + B(D[d].channel_memory_map = o)
  BY <1>2, <1>3, <1>4 DEF Fixed, A
<1> QED
  BY <1>5 DEF A0

\* The fixed references when the map of a device is another.
Moves(D, E, d) == \A x \in Devices \ {d} : E[x].channel_memory_map = D[x].channel_memory_map

LEMMA FixedMoves ==
  ASSUME NEW D, NEW E, NEW d \in Devices, Moves(D, E, d), NEW o
  PROVE  /\ Fixed(D, o) \in Nat /\ Fixed(E, o) \in Nat
         /\ Fixed(E, o) + B(D[d].channel_memory_map = o) = Fixed(D, o) + B(E[d].channel_memory_map = o)
<1> DEFINE n == Cardinality({x \in Devices \ {d} : D[x].channel_memory_map = o}) + B(o = Channel)
           m == Cardinality({x \in Devices \ {d} : E[x].channel_memory_map = o}) + B(o = Channel)
<1>1. n = m
  <2>1. {x \in Devices \ {d} : D[x].channel_memory_map = o} = {x \in Devices \ {d} : E[x].channel_memory_map = o}
    BY DEF Moves
  <2> QED BY <2>1
<1>2. n \in Nat /\ Fixed(D, o) = n + B(D[d].channel_memory_map = o)
  BY FixedSplit
<1>3. m \in Nat /\ Fixed(E, o) = m + B(E[d].channel_memory_map = o)
  BY FixedSplit
<1>4. B(D[d].channel_memory_map = o) \in Nat /\ B(E[d].channel_memory_map = o) \in Nat
  BY BNat
<1> HIDE DEF n, m
<1> QED
  BY <1>1, <1>2, <1>3, <1>4

\* What devices and the clients find.
LEMMA CountedType ==
  ASSUME ClientInv
  PROVE  /\ Counted \in [Every -> Nat] /\ Balanced(obj, Counted) /\ cd \in [Devices -> DeviceType]
         /\ \A o \in Every : /\ Counted[o] = Parts(GLContexts, gl, user, o) + Fixed(cd, o)
                             /\ Parts(GLContexts, gl, user, o) \in Nat /\ Fixed(cd, o) \in Nat
         /\ \A c \in GLContexts : \A p \in Descriptors(gl[c]) : p \in Every /\ Counted[p] > 0 /\ obj[p].of = Null
<1>1. Balanced(obj, Counted) /\ Counted \in [Every -> Nat] /\ cd \in [Devices -> DeviceType]
  BY DEF ClientInv, Balanced
<1>2. ASSUME NEW o \in Every
      PROVE  /\ Counted[o] = Parts(GLContexts, gl, user, o) + Fixed(cd, o)
             /\ Parts(GLContexts, gl, user, o) \in Nat /\ Fixed(cd, o) \in Nat
  <2>1. \A A \in SUBSET GLContexts : Cardinality(A) \in Nat
    BY ClientAssumption, FS_Subset, FS_CardinalityType
  <2>2. Parts(GLContexts, gl, user, o) \in Nat
    <3>1. /\ Cardinality({c \in GLContexts : gl[c].context_buffer0 = o}) \in Nat
          /\ Cardinality({c \in GLContexts : gl[c].command_buffer = o}) \in Nat
          /\ Cardinality({c \in GLContexts : gl[c].fences = o}) \in Nat
          /\ Cardinality({c \in GLContexts : o \in gl[c].gc}) \in Nat
          /\ Cardinality({c \in GLContexts : o \in user[c]}) \in Nat
      BY <2>1
    <3> QED BY <3>1 DEF Parts
  <2> QED BY <2>2, FixedType DEF Counted
<1>3. ASSUME NEW c \in GLContexts, NEW p \in Descriptors(gl[c])
      PROVE  p \in Every /\ Counted[p] > 0 /\ obj[p].of = Null
  <2>1. Settled(Call(c), user[c], Besides(c)) /\ Call(c).gl = gl[c] /\ Call(c).h = obj /\ gl[c] \in GLType
    BY Begins
  <2>2. p \in Every
    BY <2>1 DEF GLType, Descriptors, Every
  <2>3. Besides(c) \in [Every -> Nat] /\ Counted = Total(Besides(c), gl[c], user[c])
    BY CountedSplits
  <2>4. /\ Counted[p] = Besides(c)[p] + Own(gl[c], user[c], p) /\ Own(gl[c], user[c], p) \in Nat
        /\ Besides(c)[p] \in Nat /\ Own(gl[c], user[c], p) > 0
    BY <2>2, <2>3, OwnIs
  <2>5. obj[p].of = Null
    BY DEF ClientInv, PlainlyHeld
  <2> QED BY <2>2, <2>4, <2>5
<1> QED
  BY <1>1, <1>2, <1>3

LEMMA startDeviceKeeps ==
  ASSUME ClientInv, NEW d \in Devices, startDevice(d) PROVE ClientInv'
<1> DEFINE yes == TRUE
           D == [cd EXCEPT ![d].open = yes]
<1>1. cd' = D /\ gl' = gl /\ user' = user /\ obj' = obj
  BY DEF startDevice
<1>2. yes \in BOOLEAN
  OBVIOUS
<1> HIDE DEF yes
<1>3. D \in [Devices -> DeviceType] /\ \A x \in Devices : D[x].channel_memory_map = cd[x].channel_memory_map
  BY <1>2, CountedType DEF DeviceType
<1> HIDE DEF D
<1>4. ASSUME NEW o \in Every PROVE Fixed(D, o) = Fixed(cd, o)
  <2>1. {x \in Devices : D[x].channel_memory_map = o} = {x \in Devices : cd[x].channel_memory_map = o}
    BY <1>3
  <2> QED BY <2>1 DEF Fixed
<1>5. \A o \in Every : Counted[o] = Parts(GLContexts, gl, user, o) + Fixed(cd', o)
  BY <1>1, <1>4, CountedType
<1>6. Balanced(obj', Counted) /\ \A c \in GLContexts : \A p \in Descriptors(gl[c]) : obj'[p].of = Null
  BY <1>1, CountedType
<1> QED
  BY <1>1, <1>3, <1>5, <1>6, DeviceEnds

LEMMA get_channel_memoryKeeps ==
  ASSUME ClientInv, NEW d \in Devices, get_channel_memory(d) PROVE ClientInv'
<1>1. PICK m \in New(obj, Channel) : cd' = [cd EXCEPT ![d].channel_memory_map = m.o] /\ obj' = m.h
  BY DEF get_channel_memory
<1> DEFINE D == [cd EXCEPT ![d].channel_memory_map = m.o]
           T == Counted
<1>2. /\ gl' = gl /\ user' = user /\ cd[d].channel_memory_map = Null
  BY DEF get_channel_memory
<1>3. /\ T \in [Every -> Nat] /\ Balanced(obj, T) /\ cd \in [Devices -> DeviceType]
      /\ \A o \in Every : /\ T[o] = Parts(GLContexts, gl, user, o) + Fixed(cd, o)
                          /\ Parts(GLContexts, gl, user, o) \in Nat /\ Fixed(cd, o) \in Nat
      /\ \A c \in GLContexts : \A p \in Descriptors(gl[c]) : p \in Every /\ T[p] > 0 /\ obj[p].of = Null
  BY CountedType
<1> HIDE DEF T
<1>4. Descriptor(obj, Channel) /\ obj[Channel].refs > 0
  <2>1. Channel \in Every /\ obj[Channel].of = Null
    BY <1>3 DEF Every, Balanced
  <2>2. T[Channel] > 0
    <3>1. /\ Fixed(cd, Channel) = Cardinality({x \in Devices : cd[x].channel_memory_map = Channel}) + 1
          /\ Cardinality({x \in Devices : cd[x].channel_memory_map = Channel}) \in Nat
      <4>1. Cardinality({x \in Devices : cd[x].channel_memory_map = Channel}) \in Nat
        BY ClientAssumption, FS_Subset, FS_CardinalityType
      <4> QED BY <4>1 DEF Fixed, B
    <3>2. /\ T[Channel] = Parts(GLContexts, gl, user, Channel) + Fixed(cd, Channel)
          /\ Parts(GLContexts, gl, user, Channel) \in Nat
      BY <1>3, <2>1
    <3> QED BY <3>1, <3>2
  <2> QED BY <1>3, <2>1, <2>2, HolderAlive DEF Descriptor
<1>5. \/ m.o = Null /\ m.h = obj
      \/ /\ m.o \in Objects /\ obj[m.o].refs = 0 /\ Balanced(m.h, More(T, m.o))
         /\ \A p \in Every : p # m.o => m.h[p].of = obj[p].of
  BY <1>3, <1>4, NewGives
<1>6. cd' = D /\ obj' = m.h
  BY <1>1
<1>7. /\ D \in [Devices -> DeviceType] /\ D[d].channel_memory_map = m.o
      /\ \A x \in Devices \ {d} : D[x].channel_memory_map = cd[x].channel_memory_map
  BY <1>3, <1>5 DEF DeviceType
<1> HIDE DEF D
<1>8. ASSUME NEW o \in Every PROVE Fixed(D, o) = Fixed(cd, o) + B(m.o = o)
  <2>1. /\ Fixed(cd, o) \in Nat /\ Fixed(D, o) \in Nat
        /\ Fixed(D, o) + B(cd[d].channel_memory_map = o) = Fixed(cd, o) + B(D[d].channel_memory_map = o)
    <3>1. Moves(cd, D, d)
      BY <1>7 DEF Moves
    <3> QED BY <3>1, FixedMoves
  <2>2. B(cd[d].channel_memory_map = o) = 0
    <3>1. o # Null
      BY ClientAssumption DEF Every
    <3> QED BY <1>2, <3>1 DEF B
  <2>3. B(m.o = o) \in Nat
    BY BNat
  <2> QED BY <1>7, <2>1, <2>2, <2>3
<1>9. CASE m.o = Null
  <2>1. Null \notin Objects
    BY ClientAssumption
  <2>2. m.h = obj
    BY <1>5, <1>9, <2>1
  <2>3. ASSUME NEW o \in Every PROVE T[o] = Parts(GLContexts, gl, user, o) + Fixed(D, o)
    <3>1. o # Null
      BY ClientAssumption DEF Every
    <3>2. B(m.o = o) = 0
      BY <1>9, <3>1 DEF B
    <3> QED BY <1>3, <1>8, <3>2
  <2>4. Balanced(obj', T) /\ \A c \in GLContexts : \A p \in Descriptors(gl[c]) : obj'[p].of = Null
    BY <1>3, <1>6, <2>2
  <2> QED BY <1>2, <1>6, <1>7, <2>3, <2>4, DeviceEnds
<1>10. CASE m.o # Null
  <2>1. /\ m.o \in Objects /\ obj[m.o].refs = 0 /\ Balanced(m.h, More(T, m.o))
        /\ \A p \in Every : p # m.o => m.h[p].of = obj[p].of
    BY <1>5, <1>10
  <2>2. m.o \in Every /\ T[m.o] = 0
    <3>1. m.o \in Every
      BY <2>1 DEF Every
    <3> QED BY <1>3, <2>1, <3>1, HolderAlive
  <2>3. ASSUME NEW o \in Every PROVE More(T, m.o)[o] = Parts(GLContexts, gl, user, o) + Fixed(D, o)
    <3>1. More(T, m.o)[o] = IF m.o = o THEN T[o] + 1 ELSE T[o]
      BY <1>3 DEF More
    <3>2. B(m.o = o) = IF m.o = o THEN 1 ELSE 0
      BY DEF B
    <3>3. /\ T[o] = Parts(GLContexts, gl, user, o) + Fixed(cd, o)
          /\ Parts(GLContexts, gl, user, o) \in Nat /\ Fixed(cd, o) \in Nat
      BY <1>3
    <3> QED BY <1>8, <3>1, <3>2, <3>3
  <2>4. Balanced(obj', More(T, m.o))
    BY <1>6, <2>1
  <2>5. \A c \in GLContexts : \A p \in Descriptors(gl[c]) : obj'[p].of = Null
    BY <1>3, <1>6, <2>1, <2>2
  <2> QED BY <1>2, <1>6, <1>7, <2>3, <2>4, <2>5, DeviceEnds
<1> QED
  BY <1>9, <1>10

LEMMA clientCloseDeviceKeeps ==
  ASSUME ClientInv, NEW d \in Devices, clientCloseDevice(d) PROVE ClientInv'
<1> DEFINE no == FALSE
           w == cd[d].channel_memory_map
           D == [cd EXCEPT ![d] = [open |-> no, channel_memory_map |-> Null]]
           T == Counted
           k == releaseAll(obj, {w})
<1>1. /\ gl' = gl /\ user' = user /\ cd' = D /\ obj' = k
  BY DEF clientCloseDevice
<1>2. no \in BOOLEAN
  OBVIOUS
<1>3. /\ T \in [Every -> Nat] /\ Balanced(obj, T) /\ cd \in [Devices -> DeviceType]
      /\ \A o \in Every : /\ T[o] = Parts(GLContexts, gl, user, o) + Fixed(cd, o)
                          /\ Parts(GLContexts, gl, user, o) \in Nat /\ Fixed(cd, o) \in Nat
      /\ \A c \in GLContexts : \A p \in Descriptors(gl[c]) : p \in Every /\ T[p] > 0 /\ obj[p].of = Null
  BY CountedType
<1> HIDE DEF T, no
<1>4. w \in Objects \cup {Null}
  BY <1>3 DEF DeviceType
<1>5. /\ D \in [Devices -> DeviceType] /\ D[d].channel_memory_map = Null
      /\ \A x \in Devices \ {d} : D[x].channel_memory_map = cd[x].channel_memory_map
  BY <1>2, <1>3 DEF DeviceType
<1> HIDE DEF D, k, w
<1>6. ASSUME NEW o \in Every PROVE Fixed(cd, o) = Fixed(D, o) + B(w = o) /\ Fixed(D, o) \in Nat
  <2>1. /\ Fixed(cd, o) \in Nat /\ Fixed(D, o) \in Nat
        /\ Fixed(D, o) + B(cd[d].channel_memory_map = o) = Fixed(cd, o) + B(D[d].channel_memory_map = o)
    <3>1. Moves(cd, D, d)
      BY <1>5 DEF Moves
    <3> QED BY <3>1, FixedMoves
  <2>2. B(D[d].channel_memory_map = o) = 0
    <3>1. o # Null
      BY ClientAssumption DEF Every
    <3> QED BY <1>5, <3>1 DEF B
  <2>3. B(w = o) \in Nat
    BY BNat
  <2> QED BY <2>1, <2>2, <2>3 DEF w
<1>7. Balanced(k, Without(T, {w})) /\ \A p \in Every : k[p].of \in {obj[p].of, Null}
  <2>1. {w} \in SUBSET (Every \cup {Null}) /\ IsFiniteSet({w})
    BY <1>4, FS_Singleton DEF Every
  <2>2. ASSUME w # Null PROVE T[w] > 0
    <3>1. w \in Every
      BY <1>4, <2>2 DEF Every
    <3>2. B(w = w) = 1
      BY DEF B
    <3>3. /\ T[w] = Parts(GLContexts, gl, user, w) + Fixed(cd, w) /\ Parts(GLContexts, gl, user, w) \in Nat
          /\ Fixed(cd, w) = Fixed(D, w) + B(w = w) /\ Fixed(D, w) \in Nat
      BY <1>3, <1>6, <3>1
    <3> QED BY <3>2, <3>3
  <2> QED BY <1>3, <2>1, <2>2, ReleasesAll DEF k
<1>8. ASSUME NEW o \in Every PROVE Without(T, {w})[o] = Parts(GLContexts, gl, user, o) + Fixed(D, o)
  <2>1. Without(T, {w})[o] = IF w = o THEN T[o] - 1 ELSE T[o]
    BY DEF Without
  <2>2. B(w = o) = IF w = o THEN 1 ELSE 0
    BY DEF B
  <2>3. /\ T[o] = Parts(GLContexts, gl, user, o) + Fixed(cd, o)
        /\ Parts(GLContexts, gl, user, o) \in Nat /\ Fixed(cd, o) \in Nat
    BY <1>3
  <2> QED BY <1>6, <2>1, <2>2, <2>3
<1>9. \A c \in GLContexts : \A p \in Descriptors(gl[c]) : obj'[p].of = Null
  BY <1>1, <1>3, <1>7
<1>10. Balanced(obj', Without(T, {w}))
  BY <1>1, <1>7
<1> QED
  BY <1>1, <1>5, <1>8, <1>9, <1>10, DeviceEnds

LEMMA InitClients == InitGL => ClientInv
<1> HAVE InitGL
<1> DEFINE e == [o \in Every |-> IF o = Channel THEN 1 ELSE 0]
           no == FALSE
<1>1. /\ gl = [c \in GLContexts |-> NewGL] /\ user = [c \in GLContexts |-> {}]
      /\ cd = [d \in Devices |-> [open |-> no, channel_memory_map |-> Null]]
      /\ obj = [o \in Every |-> [refs |-> IF o = Channel THEN 1 ELSE 0, of |-> Null]]
  BY DEF InitGL, Every
<1>2. no \in BOOLEAN
  OBVIOUS
<1> HIDE DEF no
<1>3. /\ NewGL \in GLType /\ NewGL.gc = {} /\ NewGL.context_buffer0 = Null
      /\ NewGL.command_buffer = Null /\ NewGL.fences = Null /\ ~NewGL.open
  BY DEF NewGL, GLType
<1>4. /\ gl \in [GLContexts -> GLType] /\ user \in [GLContexts -> SUBSET Objects]
      /\ cd \in [Devices -> DeviceType]
      /\ \A c \in GLContexts : Descriptors(gl[c]) = {}
      /\ \A c \in GLContexts : Distinct(gl[c]) /\ PlainlyHeld(gl[c], obj) /\ Opened(gl[c], user[c])
  <2>1. \A c \in GLContexts : gl[c] = NewGL /\ user[c] = {}
    BY <1>1
  <2>2. Descriptors(NewGL) = {}
    BY <1>3 DEF Descriptors
  <2>3. gl \in [GLContexts -> GLType] /\ user \in [GLContexts -> SUBSET Objects]
    BY <1>1, <1>3
  <2>4. cd \in [Devices -> DeviceType]
    BY <1>1, <1>2 DEF DeviceType
  <2>5. Distinct(NewGL) /\ PlainlyHeld(NewGL, obj) /\ Opened(NewGL, {})
    BY <1>3, <2>2 DEF Distinct, PlainlyHeld, Opened
  <2> QED BY <2>1, <2>2, <2>3, <2>4, <2>5
<1>5. Counted = e
  <2>1. ASSUME NEW o \in Every PROVE Parts(GLContexts, gl, user, o) + Fixed(cd, o) = IF o = Channel THEN 1 ELSE 0
    <3>1. o # Null
      BY ClientAssumption DEF Every
    <3>2. /\ {c \in GLContexts : gl[c].context_buffer0 = o} = {}
          /\ {c \in GLContexts : gl[c].command_buffer = o} = {}
          /\ {c \in GLContexts : gl[c].fences = o} = {}
          /\ {c \in GLContexts : o \in gl[c].gc} = {}
          /\ {c \in GLContexts : o \in user[c]} = {}
          /\ {d \in Devices : cd[d].channel_memory_map = o} = {}
      BY <1>1, <1>3, <3>1
    <3>3. Cardinality({}) = 0
      BY FS_EmptySet
    <3>4. Parts(GLContexts, gl, user, o) = 0 + 0 + 0 + 0 + 0
      BY <3>2, <3>3, Zenon DEF Parts
    <3>5. Fixed(cd, o) = 0 + B(o = Channel)
      BY <3>2, <3>3, Zenon DEF Fixed
    <3> QED BY <3>4, <3>5 DEF B
  <2> QED BY <2>1 DEF Counted
<1>6. Balanced(obj, e)
  <2>1. \A o \in Every : obj[o].refs = e[o] /\ obj[o].of = Null /\ e[o] \in Nat
    BY <1>1
  <2>2. obj \in Heaps /\ e \in [Every -> Nat]
    BY <1>1 DEF Heaps
  <2> HIDE DEF e
  <2>3. ASSUME NEW o \in Every PROVE obj[o].refs = e[o] + Cardinality(Maps(obj, o))
    <3>1. Maps(obj, o) = {}
      BY <2>1, ClientAssumption DEF Maps, Every
    <3> QED BY <2>1, <3>1, FS_EmptySet
  <2>4. obj[Channel].of = Null
    BY <2>1 DEF Every
  <2> QED BY <2>1, <2>2, <2>3, <2>4 DEF Balanced
<1> QED
  BY <1>4, <1>5, <1>6 DEF ClientInv

ClientsIdle == UNCHANGED <<gl, cd, user, obj>>

LEMMA ClientsUnchanged == ASSUME ClientInv, ClientsIdle PROVE ClientInv'
<1>1. /\ gl' = gl /\ user' = user /\ cd' = cd /\ obj' = obj
  BY DEF ClientsIdle
<1>2. Counted' = Counted
  BY <1>1 DEF Counted, Every
<1> HIDE DEF Counted
<1>3. ClientInv' <=> /\ gl' \in [GLContexts -> GLType] /\ user' \in [GLContexts -> SUBSET Objects]
                     /\ cd' \in [Devices -> DeviceType] /\ Balanced(obj', Counted')
                     /\ \A d \in GLContexts : Distinct(gl'[d]) /\ PlainlyHeld(gl'[d], obj') /\ Opened(gl'[d], user'[d])
  BY DEF ClientInv, Balanced, Heaps, Every, Maps, Distinct, PlainlyHeld, Opened, Descriptors, GLType, DeviceType
<1> QED
  BY <1>1, <1>2, <1>3 DEF ClientInv

LEMMA NextClients == ClientInv /\ [Next]_vars => ClientInv'
<1> SUFFICES ASSUME ClientInv, [Next]_vars PROVE ClientInv'
  OBVIOUS
<1>1. ASSUME NEW c \in GLContexts, start(c) PROVE ClientInv'
  BY <1>1, startKeeps
<1>2. ASSUME NEW c \in GLContexts, NEW type \in 0..4, MapMemory(c, type) PROVE ClientInv'
  BY <1>2, MapMemoryKeeps
<1>3. ASSUME NEW c \in GLContexts, NEW m \in user[c], UnmapMemory(c, m) PROVE ClientInv'
  BY <1>3, UnmapMemoryKeeps
<1>4. ASSUME NEW c \in GLContexts, NEW do_get_data \in BOOLEAN, submit_command_buffer(c, do_get_data)
      PROVE  ClientInv'
  BY <1>4, submitKeeps
<1>5. ASSUME NEW c \in GLContexts, clientClose(c) PROVE ClientInv'
  BY <1>5, clientCloseKeeps
<1>6. ASSUME NEW d \in Devices, startDevice(d) PROVE ClientInv'
  BY <1>6, startDeviceKeeps
<1>7. ASSUME NEW d \in Devices, get_channel_memory(d) PROVE ClientInv'
  BY <1>7, get_channel_memoryKeeps
<1>8. ASSUME NEW d \in Devices, clientCloseDevice(d) PROVE ClientInv'
  BY <1>8, clientCloseDeviceKeeps
<1>9. ASSUME NEW o \in Others, startOther(o) \/ clientCloseOther(o) PROVE ClientInv'
  <2>1. ClientsIdle
    BY <1>9 DEF startOther, clientCloseOther, ClientsIdle
  <2> QED BY <2>1, ClientsUnchanged
<1>10. CASE ClientStep
  <2>1. NextGL
    BY <1>10 DEF ClientStep
  <2> QED BY <1>1, <1>2, <1>3, <1>4, <1>5, <1>6, <1>7, <1>8, <1>9, <2>1 DEF NextGL
<1>11. CASE PlugInStep \/ DriverStep \/ HelperStep \/ CopyStep \/ UNCHANGED vars
  <2>1. ClientsIdle
    BY <1>11 DEF ClientsIdle, PlugInStep, DriverStep, HelperStep, CopyStep, vars, glVars
  <2> QED BY <2>1, ClientsUnchanged
<1> QED
  BY <1>10, <1>11 DEF Next

LEMMA AllCounted == ClientInv => ClientMemoryCounted
<1> HAVE ClientInv
<1> SUFFICES ASSUME NEW o \in Every PROVE obj[o].refs = Holders(o)
  BY DEF ClientMemoryCounted, Every
<1>1. obj[o].refs = Counted[o] + Cardinality(Maps(obj, o))
  BY DEF ClientInv, Balanced
<1>2. Counted[o] = Parts(GLContexts, gl, user, o) + Fixed(cd, o)
  BY DEF Counted
<1>3. /\ Cardinality({c \in GLContexts : gl[c].context_buffer0 = o}) \in Nat
      /\ Cardinality({c \in GLContexts : gl[c].command_buffer = o}) \in Nat
      /\ Cardinality({c \in GLContexts : gl[c].fences = o}) \in Nat
      /\ Cardinality({c \in GLContexts : o \in gl[c].gc}) \in Nat
      /\ Cardinality({c \in GLContexts : o \in user[c]}) \in Nat
      /\ Cardinality({d \in Devices : cd[d].channel_memory_map = o}) \in Nat
      /\ Cardinality({m \in Objects : obj[m].refs > 0 /\ obj[m].of = o}) \in Nat
  BY ClientAssumption, FS_Subset, FS_CardinalityType
<1>4. B(o = Channel) = IF o = Channel THEN 1 ELSE 0
  BY DEF B
<1> QED
  BY <1>1, <1>2, <1>3, <1>4 DEF Holders, Parts, Fixed, Maps

\* VMsvga2GLContext, VMsvga2Device: for any number of contexts, devices and
\* kernel objects, each object has as many references as the fields, the
\* collections, the clients' maps and the maps of it that hold it, however
\* starts, maps, submissions and closes of the clients follow one another and
\* wherever an allocation fails.
THEOREM ClientsReleaseAll == Spec => []ClientMemoryCounted
<1>1. Init => ClientInv
  BY InitClients DEF Init
<1> QED
  BY <1>1, NextClients, AllCounted, PTL DEF Spec

=============================================================================
