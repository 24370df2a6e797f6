------------------------------ MODULE GLClients ------------------------------
(***************************************************************************)
(* The kernel side of OpenGL: VMsvga2GLContext, which owns the memory it   *)
(* shares with its client, VMsvga2Device, which maps the fence of the      *)
(* device for its client, and VMsvga2OCDContext and VMsvga2DVDContext,     *)
(* which own nothing.  Most external methods of these classes log their    *)
(* arguments and answer; the ones here allocate, retain or release.        *)
(*                                                                         *)
(* Kernel objects are counted: an object is a memory descriptor or a map   *)
(* of one, which holds a reference to what it maps until it is freed.  The *)
(* calls of one client do not overlap: a GL context is used by one thread  *)
(* at a time.                                                              *)
(***************************************************************************)
EXTENDS Integers, FiniteSets

CONSTANTS GLContexts,   \* VMsvga2GLContext objects
          Devices,      \* VMsvga2Device objects
          Others,       \* VMsvga2OCDContext and VMsvga2DVDContext objects
          Objects,      \* kernel objects that can be alive
          Channel,      \* the accelerator's channel memory, an object of its own
          Null,
          MaxDoublings  \* times a client has its fence memory doubled

\* Clients and kernel objects are finitely many, the channel's descriptor was
\* there before any client, and a null pointer is none of them.
ASSUME ClientAssumption ==
    /\ IsFiniteSet(GLContexts) /\ IsFiniteSet(Devices) /\ IsFiniteSet(Objects)
    /\ Channel \notin Objects /\ Null \notin Objects \cup {Channel}

VARIABLES gl,    \* per context: its fields
          cd,    \* per device: open, m_channel_memory_map
          plain, \* the open clients among Others
          user,  \* per context: the maps its client made of client memory
          obj    \* per object: its references, and what it maps

glVars == <<gl, cd, plain, user, obj>>

NewGL == [open |-> FALSE, gc |-> {}, context_buffer0 |-> Null, command_buffer |-> Null,
          fences |-> Null, doublings |-> 0, mem_type |-> 4]

InitGL ==
    /\ gl = [c \in GLContexts |-> NewGL]
    /\ cd = [d \in Devices |-> [open |-> FALSE, channel_memory_map |-> Null]]
    /\ plain = {}
    /\ user = [c \in GLContexts |-> {}]
    /\ obj = [o \in Objects \cup {Channel} |->
                [refs |-> IF o = Channel THEN 1 ELSE 0, of |-> Null]]

-----------------------------------------------------------------------------
(* Kernel objects (external).                                              *)

retain(h, o) == [h EXCEPT ![o].refs = @ + 1]

\* The last reference to a map gives back the map's reference.
release(h, o) ==
    IF h[o].refs = 1 /\ h[o].of # Null
    THEN [h EXCEPT ![o] = [refs |-> 0, of |-> Null], ![h[o].of].refs = @ - 1]
    ELSE [h EXCEPT ![o].refs = @ - 1]

\* The outcomes of an allocation: an object (which one is immaterial), or none.
New(h, of) ==
    LET left == {o \in Objects : h[o].refs = 0}
        o == CHOOSE o \in left : TRUE
        g == IF of = Null THEN h ELSE retain(h, of)
    IN  {[o |-> Null, h |-> h]}
        \cup (IF left = {} THEN {}
              ELSE {[o |-> o, h |-> [g EXCEPT ![o] = [refs |-> 1, of |-> of]]]})

releaseAll(h, s) ==
    LET once(g, o) == IF o = Null THEN g ELSE release(g, o)
        f[t \in SUBSET s] == IF t = {} THEN h
                             ELSE LET o == CHOOSE o \in t : TRUE IN once(f[t \ {o}], o)
    IN  f[s]

-----------------------------------------------------------------------------
(* VMsvga2GLContext.  A private method works on x, the context's fields    *)
(* and the objects.                                                        *)

Call(c) == [gl |-> gl[c], h |-> obj]
Return(c, x) == gl' = [gl EXCEPT ![c] = x.gl] /\ obj' = x.h

\* Maps in the collection are freed before the descriptors.
Cleanup(x) ==
    [gl |-> [x.gl EXCEPT !.gc = {}, !.context_buffer0 = Null, !.command_buffer = Null,
                         !.fences = Null, !.doublings = 0],
     h |-> releaseAll(releaseAll(x.h, x.gl.gc),
                      {x.gl.context_buffer0, x.gl.command_buffer, x.gl.fences})]

allocAllContextBuffers(x) ==
    {[x EXCEPT !.gl.context_buffer0 = n.o, !.h = n.h] : n \in New(x.h, Null)}
allocCommandBuffer(x) ==
    {[x EXCEPT !.gl.command_buffer = n.o, !.h = n.h] : n \in New(x.h, Null)}

\* newUserClient, initWithTask and start; what was had is given back when
\* the context cannot have all of it.
start(c) ==
    /\ ~gl[c].open
    /\ \E x \in allocAllContextBuffers([Call(c) EXCEPT !.gl = [NewGL EXCEPT !.open = TRUE]]) :
         IF x.gl.context_buffer0 = Null THEN Return(c, [Cleanup(x) EXCEPT !.gl.open = FALSE])
         ELSE \E y \in allocCommandBuffer(x) :
                Return(c, IF y.gl.command_buffer # Null THEN y
                          ELSE [Cleanup(y) EXCEPT !.gl.open = FALSE])
    /\ UNCHANGED <<cd, plain, user>>

\* The descriptor handed out carries a reference for the caller.  Types 0 and
\* 3 are the superclass's, which has none.  Type 2 replaces the memory by
\* one of twice its length, into which it is copied.
clientMemoryForType(x, type) ==
    CASE type = 1 -> {[md |-> x.gl.context_buffer0, x |-> [x EXCEPT !.h = retain(@, x.gl.context_buffer0)]]}
      [] type = 4 -> {[md |-> x.gl.command_buffer, x |-> [x EXCEPT !.h = retain(@, x.gl.command_buffer)]]}
      [] type = 2 -> {IF n.o = Null THEN [md |-> Null, x |-> x]
                      ELSE LET h == IF x.gl.fences = Null THEN n.h ELSE release(n.h, x.gl.fences)
                           IN  [md |-> n.o,
                                x |-> [gl |-> [x.gl EXCEPT !.fences = n.o, !.doublings = @ + 1],
                                       h |-> retain(h, n.o)]] :
                      n \in New(x.h, Null)}
      [] OTHER    -> {[md |-> Null, x |-> x]}

\* IOConnectMapMemory: the kernel maps what clientMemoryForType hands out in
\* the client's task, and gives up the reference that came with it.
MapMemory(c, type) ==
    /\ gl[c].open
    /\ type = 2 => gl[c].doublings < MaxDoublings
    /\ \E r \in clientMemoryForType(Call(c), type) :
         IF r.md = Null THEN Return(c, r.x) /\ UNCHANGED user
         ELSE \E m \in New(r.x.h, r.md) :
                /\ Return(c, [r.x EXCEPT !.h = release(m.h, r.md)])
                /\ user' = [user EXCEPT ![c] = @ \cup ({m.o} \ {Null})]
    /\ UNCHANGED <<cd, plain>>

UnmapMemory(c, m) ==
    /\ m \in user[c]
    /\ user' = [user EXCEPT ![c] = @ \ {m}]
    /\ obj' = release(obj, m)
    /\ UNCHANGED <<gl, cd, plain>>

get_data_buffer == FALSE     \* always an error

\* Faulty variant: the reference that came with the descriptor is kept.
submit_command_bufferKeeps(c, do_get_data) ==
    /\ gl[c].open
    /\ \E r \in clientMemoryForType(Call(c), gl[c].mem_type) :
         LET x == [r.x EXCEPT !.gl.mem_type = 0]
         IN  IF r.md = Null THEN Return(c, x)
             ELSE \E m \in New(x.h, r.md) :
                    IF m.o = Null THEN Return(c, x)
                    ELSE IF do_get_data /\ ~get_data_buffer
                    THEN Return(c, [x EXCEPT !.h = release(m.h, m.o)])
                    ELSE Return(c, [x EXCEPT !.gl.gc = @ \cup {m.o},
                                             !.h = release(retain(m.h, m.o), m.o)])
    /\ UNCHANGED <<cd, plain, user>>

\* The command buffer is mapped by the first call only: mem_type is 0 after
\* it, whatever becomes of it.
submit_command_buffer(c, do_get_data) ==
    /\ gl[c].open
    /\ \E r \in clientMemoryForType(Call(c), gl[c].mem_type) :
         LET x == [r.x EXCEPT !.gl.mem_type = 0]
         IN  IF r.md = Null THEN Return(c, x)
             ELSE \E m \in New(x.h, r.md) :
                    LET h == release(m.h, r.md)
                    IN  IF m.o = Null THEN Return(c, [x EXCEPT !.h = h])
                        ELSE IF do_get_data /\ ~get_data_buffer
                        THEN Return(c, [x EXCEPT !.h = release(h, m.o)])
                        ELSE Return(c, [x EXCEPT !.gl.gc = @ \cup {m.o},
                                                 !.h = release(retain(h, m.o), m.o)])
    /\ UNCHANGED <<cd, plain, user>>

\* The maps the client has made go with the connection.
clientClose(c) ==
    /\ gl[c].open
    /\ LET x == Cleanup(Call(c))
       IN  /\ gl' = [gl EXCEPT ![c] = [x.gl EXCEPT !.open = FALSE, !.mem_type = 4]]
           /\ obj' = releaseAll(x.h, user[c])
    /\ user' = [user EXCEPT ![c] = {}]
    /\ UNCHANGED <<cd, plain>>

-----------------------------------------------------------------------------
(* VMsvga2Device and the clients that own nothing.                         *)

startDevice(d) ==
    /\ ~cd[d].open
    /\ cd' = [cd EXCEPT ![d].open = TRUE]
    /\ UNCHANGED <<gl, plain, user, obj>>

\* Mapped once; asked again, the same address is the answer.
get_channel_memory(d) ==
    /\ cd[d].open /\ cd[d].channel_memory_map = Null
    /\ \E m \in New(obj, Channel) :
         cd' = [cd EXCEPT ![d].channel_memory_map = m.o] /\ obj' = m.h
    /\ UNCHANGED <<gl, plain, user>>

clientCloseDevice(d) ==
    /\ cd[d].open
    /\ obj' = releaseAll(obj, {cd[d].channel_memory_map})
    /\ cd' = [cd EXCEPT ![d] = [open |-> FALSE, channel_memory_map |-> Null]]
    /\ UNCHANGED <<gl, plain, user>>

startOther(o) ==
    /\ o \notin plain
    /\ plain' = plain \cup {o}
    /\ UNCHANGED <<gl, cd, user, obj>>

clientCloseOther(o) ==
    /\ o \in plain
    /\ plain' = plain \ {o}
    /\ UNCHANGED <<gl, cd, user, obj>>

-----------------------------------------------------------------------------

NextGL ==
    \/ \E c \in GLContexts :
         \/ start(c)
         \/ \E type \in 0..4 : MapMemory(c, type)
         \/ \E m \in user[c] : UnmapMemory(c, m)
         \/ \E do_get_data \in BOOLEAN : submit_command_buffer(c, do_get_data)
         \/ clientClose(c)
    \/ \E d \in Devices : startDevice(d) \/ get_channel_memory(d) \/ clientCloseDevice(d)
    \/ \E o \in Others : startOther(o) \/ clientCloseOther(o)

-----------------------------------------------------------------------------
(* Properties.                                                             *)

Holders(o) ==
    Cardinality({c \in GLContexts : gl[c].context_buffer0 = o})
    + Cardinality({c \in GLContexts : gl[c].command_buffer = o})
    + Cardinality({c \in GLContexts : gl[c].fences = o})
    + Cardinality({c \in GLContexts : o \in gl[c].gc})
    + Cardinality({c \in GLContexts : o \in user[c]})
    + Cardinality({d \in Devices : cd[d].channel_memory_map = o})
    + Cardinality({m \in Objects : obj[m].refs > 0 /\ obj[m].of = o})
    + (IF o = Channel THEN 1 ELSE 0)

\* The references to a kernel object are the fields, collections and maps that
\* hold it: a start that fails half-way, fence memory replaced under a client
\* that has the old one mapped, a command buffer that cannot be mapped, and a
\* close in any of these states neither leak an object nor free one in use.
ClientMemoryCounted == \A o \in Objects \cup {Channel} : obj[o].refs = Holders(o)

=============================================================================
