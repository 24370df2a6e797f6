---------------------------- MODULE CommandQueue ----------------------------
(***************************************************************************)
(* What the command FIFO of the SVGA device promises its callers, with no  *)
(* ring, no bounce buffer and no registers: one command is being built at  *)
(* a time, it reaches the device whole, unmodified, once and in order, or  *)
(* it is abandoned and the device never sees any of it.                    *)
(*                                                                         *)
(* SVGAFifo implements this module (SVGAFifo!QueueRefinement).             *)
(***************************************************************************)
EXTENDS Naturals, Sequences

CONSTANTS
  Commands,  \* what a caller may post: records with a length n, in dwords
  Nothing    \* no command is being built

VARIABLES
  queue,     \* the dwords the device has still to read
  open,      \* the command being built, or Nothing
  posted,    \* how many dwords of it the device can already see
  whole      \* a post is one step; if not, the device may see it grow

qvars == <<queue, open, posted, whole>>

(* The k-th dword of command c. *)
Dword(c, k) == [cmd |-> c, k |-> k]

Init ==
  /\ whole \in BOOLEAN
  /\ queue = <<>>
  /\ open = Nothing
  /\ posted = 0

Open(c) ==
  /\ open = Nothing
  /\ open' = c
  /\ UNCHANGED <<queue, posted, whole>>

Abandon ==
  /\ open # Nothing
  /\ posted = 0
  /\ open' = Nothing
  /\ UNCHANGED <<queue, posted, whole>>

Post ==
  /\ whole
  /\ open # Nothing
  /\ queue' = queue \o [k \in 1..open.n |-> Dword(open, k)]
  /\ open' = Nothing
  /\ UNCHANGED <<posted, whole>>

PostDword ==
  /\ ~whole
  /\ open # Nothing
  /\ queue' = Append(queue, Dword(open, posted + 1))
  /\ IF posted + 1 = open.n
       THEN open' = Nothing /\ posted' = 0
       ELSE posted' = posted + 1 /\ UNCHANGED open
  /\ UNCHANGED whole

Take ==
  /\ queue # <<>>
  /\ queue' = Tail(queue)
  /\ UNCHANGED <<open, posted, whole>>

Next ==
  \/ \E c \in Commands : Open(c)
  \/ Abandon
  \/ Post
  \/ PostDword
  \/ Take

Spec == Init /\ [][Next]_qvars
=============================================================================
