------------------------------- MODULE GAPlugIn -------------------------------
(***************************************************************************)
(* VMsvga2GA: the plug-in through which a process of the guest draws in    *)
(* two dimensions.  An instance holds a connection to a 2D context of the  *)
(* accelerator and a reference to the accelerator service; a blit surface  *)
(* of the process carries a SurfaceInfo the plug-in allocated.  Of the 2D  *)
(* context in the kernel (Context2D) only the target of its drawing        *)
(* matters here.                                                           *)
(*                                                                         *)
(* SurfaceInfo.d0 and SurfaceInfo.addr are never set, so the branches that *)
(* need an image or an address are never taken; this_ga and this_ga_ctx    *)
(* are written and never read; drawing does not change this state.         *)
(***************************************************************************)
EXTENDS Naturals, FiniteSets

CONSTANTS Instances,    \* GAType objects
          Ports,        \* connections to 2D contexts (io_connect_t)
          BlitSurfaces, \* IOBlitSurface records of the process
          Infos,        \* SurfaceInfo blocks
          CGSSurfaces,  \* surface ids of the window server
          None,         \* a null pointer, name or id
          MaxRefs       \* references the process takes to an instance

ASSUME HandleAssumption ==
    /\ IsFiniteSet(Instances) /\ IsFiniteSet(BlitSurfaces)
    /\ None \notin Instances \cup Ports \cup BlitSurfaces \cup Infos \cup CGSSurfaces

VARIABLES ga,      \* per instance: phase, _refCount, _context, _accelerator, _surface
          kctx,    \* per port: open; the target's kind and surface; the last set_surface
          accRefs, \* references of the process to the accelerator service
          info,    \* per SurfaceInfo: its cgsSurfaceID and the instance, or Free
          iref     \* per blit surface: interfaceRef

gaVars == <<ga, kctx, accRefs, info, iref>>

NoInstance == [phase |-> "none", refs |-> 0, context |-> None,
               accelerator |-> FALSE, surface |-> None]
Free == [id |-> None, by |-> None]
ClosedContext == [open |-> FALSE, cgs |-> FALSE, surf |-> None, set |-> "ok"]

InitGA ==
    /\ ga = [i \in Instances |-> NoInstance]
    /\ kctx = [p \in Ports |-> ClosedContext]
    /\ accRefs = 0
    /\ info = [n \in Infos |-> Free]
    /\ iref = [b \in BlitSurfaces |-> None]

-----------------------------------------------------------------------------
(* IUnknown and IOCFPlugIn.  The process starts an instance that is not    *)
(* started, stops one that is, releases one whose start has failed, and    *)
(* gives up its last reference to an instance only when it is stopped.     *)

\* _allocGAType: the block may not be had.
VMsvga2GAFactory(i) ==
    /\ ga[i].phase = "none"
    /\ ga' = [ga EXCEPT ![i].phase = "created", ![i].refs = 1]
    /\ UNCHANGED <<kctx, accRefs, info, iref>>

vmAddRef(i) ==
    /\ ga[i].phase # "none" /\ ga[i].refs < MaxRefs
    /\ ga' = [ga EXCEPT ![i].refs = @ + 1]
    /\ UNCHANGED <<kctx, accRefs, info, iref>>

_deallocGAType(i) == [ga EXCEPT ![i] = NoInstance]

vmRelease(i) ==
    /\ ga[i].phase # "none"
    /\ ga[i].refs = 1 => ga[i].phase # "started"
    /\ ga' = IF ga[i].refs = 1 THEN _deallocGAType(i) ELSE [ga EXCEPT ![i].refs = @ - 1]
    /\ UNCHANGED <<kctx, accRefs, info, iref>>

\* The accelerator is not found (nothing has changed), its 2D context cannot
\* be opened (the reference to it is given back), or the context answers with
\* an error (it is closed as well; _context and _accelerator keep the values
\* of what was closed).
StartFails(i) ==
    /\ ga[i].phase \in {"created", "stopped"}
    /\ ga' = [ga EXCEPT ![i].phase = "failed"]
    /\ UNCHANGED <<kctx, accRefs, info, iref>>

StartFailsLate(i, p) ==
    /\ ga[i].phase \in {"created", "stopped"} /\ ~kctx[p].open
    /\ ga' = [ga EXCEPT ![i].phase = "failed", ![i].context = p, ![i].accelerator = TRUE]
    /\ UNCHANGED <<kctx, accRefs, info, iref>>

vmStart(i, p) ==
    /\ ga[i].phase \in {"created", "stopped"} /\ ~kctx[p].open
    /\ ga' = [ga EXCEPT ![i].phase = "started", ![i].context = p, ![i].accelerator = TRUE]
    /\ kctx' = [kctx EXCEPT ![p] = [ClosedContext EXCEPT !.open = TRUE]]
    /\ accRefs' = accRefs + 1
    /\ UNCHANGED <<info, iref>>

\* _surface is left as it was.
vmStop(i) ==
    /\ ga[i].phase = "started"
    /\ IF ~ga[i].accelerator THEN UNCHANGED <<ga, kctx, accRefs>>
       ELSE /\ kctx' = IF ga[i].context = None THEN kctx
                       ELSE [kctx EXCEPT ![ga[i].context] = ClosedContext]
            /\ accRefs' = accRefs - 1
            /\ ga' = [ga EXCEPT ![i].phase = "stopped",
                                ![i].context = None, ![i].accelerator = FALSE]
    /\ UNCHANGED <<info, iref>>

-----------------------------------------------------------------------------
(* Surfaces and destinations.                                              *)

Ready(i) == ga[i].phase = "started" /\ ga[i].context # None

\* kIOVM2DSetSurface, as the 2D context answers it: the surface held before
\* is let go, the new one may be unknown, or may refuse.
SetSurfaceOutcomes(k, id) ==
    LET let == [k EXCEPT !.surf = None]
    IN  IF id = None THEN {[let EXCEPT !.cgs = FALSE, !.set = "ok"]}
        ELSE {[let EXCEPT !.cgs = TRUE, !.set = "failed"],
              [let EXCEPT !.cgs = TRUE, !.surf = id, !.set = "failed"],
              [let EXCEPT !.cgs = TRUE, !.surf = id, !.set = "ok"]}

\* vmSetSurface for a blit surface b with this id (None for the framebuffer,
\* index 0): the outcomes, as the fields it leaves behind.  A surface whose id
\* is 0 is sent to the context and is not found.
vmSetSurface(i, b, id) ==
    {[k |-> k, ok |-> k.set = "ok",
      surface |-> IF k.set # "ok" THEN ga[i].surface
                  ELSE IF id # None THEN b ELSE None] :
        k \in SetSurfaceOutcomes(kctx[ga[i].context], id)}

Apply(i, r) ==
    /\ kctx' = [kctx EXCEPT ![ga[i].context] = r.k]
    /\ ga' = [ga EXCEPT ![i].surface = r.surface]

\* The surfaces that were allocated through instance i.
Mine(i) == {b \in BlitSurfaces : iref[b] # None /\ info[iref[b]].by = i}

\* With kIOBlitHasCGSSurface: the context refuses the surface, or takes it, and
\* then the scaling that kIOBlitFixedSource asks for may fail.  Every other
\* request is refused, and leaves interfaceRef null.
vmAllocateSurface(i, b, n, id) ==
    /\ Ready(i) /\ iref[b] = None /\ info[n] = Free
    /\ \E r \in vmSetSurface(i, b, id) :
         \/ /\ r.ok
            /\ Apply(i, r)
            /\ info' = [info EXCEPT ![n] = [id |-> id, by |-> i]]
            /\ iref' = [iref EXCEPT ![b] = n]
         \/ /\ Apply(i, [r EXCEPT !.k.set = "failed"])
            /\ UNCHANGED <<info, iref>>
    /\ UNCHANGED accRefs

\* Faulty variant: the destination stays what it was.
vmFreeSurfaceKeeps(i, b) ==
    /\ Ready(i) /\ b \in Mine(i)
    /\ info' = [info EXCEPT ![iref[b]] = Free]
    /\ iref' = [iref EXCEPT ![b] = None]
    /\ UNCHANGED <<ga, kctx, accRefs>>

\* The framebuffer becomes the destination whenever a surface was, whichever.
vmFreeSurface(i, b) ==
    /\ Ready(i) /\ b \in Mine(i)
    /\ IF ga[i].surface = None THEN UNCHANGED <<ga, kctx>>
       ELSE \E r \in vmSetSurface(i, None, None) : Apply(i, r)
    /\ info' = [info EXCEPT ![iref[b]] = Free]
    /\ iref' = [iref EXCEPT ![b] = None]
    /\ UNCHANGED accRefs

vmSetDestination(i, b) ==
    /\ Ready(i)
    /\ \E r \in vmSetSurface(i, b, IF b = None THEN None ELSE info[iref[b]].id) : Apply(i, r)
    /\ UNCHANGED <<accRefs, info, iref>>

-----------------------------------------------------------------------------

InstanceStep(i) ==
    \/ VMsvga2GAFactory(i)
    \/ vmAddRef(i)
    \/ vmRelease(i)
    \/ StartFails(i)
    \/ \E p \in Ports : StartFailsLate(i, p) \/ vmStart(i, p)
    \/ vmStop(i)

SurfaceOf(i) ==
    \/ \E b \in BlitSurfaces, n \in Infos, id \in CGSSurfaces :
          vmAllocateSurface(i, b, n, id)
    \/ \E b \in BlitSurfaces : vmFreeSurface(i, b)
    \/ \E b \in Mine(i) \cup {None} : vmSetDestination(i, b)

NextGA == \E i \in Instances : InstanceStep(i) \/ SurfaceOf(i)

-----------------------------------------------------------------------------
(* Properties.                                                             *)

\* What an instance holds is open and its own, and what is open is held by a
\* started instance: a failed start and a stop give back the context and the
\* accelerator.  A SurfaceInfo is alive exactly while one blit surface points
\* to it.  A context whose last request succeeded draws to a surface only while
\* the plug-in has that surface for its destination and its SurfaceInfo lives:
\* freeing surfaces in any order leaves no context on a freed one.
PlugInHandles ==
    LET started == {i \in Instances : ga[i].phase = "started"}
        named == {b \in BlitSurfaces : iref[b] # None}
    IN  /\ {p \in Ports : kctx[p].open} = {ga[i].context : i \in started}
        /\ Cardinality({p \in Ports : kctx[p].open}) = Cardinality(started)
        /\ accRefs = Cardinality(started)
        /\ {n \in Infos : info[n] # Free} = {iref[b] : b \in named}
        /\ Cardinality({n \in Infos : info[n] # Free}) = Cardinality(named)
        /\ \A i \in started :
             LET k == kctx[ga[i].context]  b == ga[i].surface
             IN  k.set = "ok" /\ k.surf # None =>
                   b \in Mine(i) /\ info[iref[b]].id = k.surf

=============================================================================
