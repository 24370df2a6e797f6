----------------------------- MODULE StoragePool -----------------------------
(***************************************************************************)
(* What an allocator of video memory promises its callers: the ranges they *)
(* hold are disjoint and outside the part reserved for the screen, nobody  *)
(* but the holder changes what is in them, and a range that is resized     *)
(* keeps its contents.                                                     *)
(***************************************************************************)
EXTENDS Naturals

CONSTANTS Blocks

VARIABLES
  usable,    \* the blocks that may be handed out; set once
  held,      \* the ranges in use, [first, length]
  content    \* what is in their blocks

vars == <<usable, held, content>>

Cells(h) == h.first .. (h.first + h.length - 1)
Covered(ranges) == UNION {Cells(h) : h \in ranges}

Fits(h, others) ==
  /\ h.length > 0 /\ Cells(h) \subseteq usable
  /\ Cells(h) \cap Covered(others) = {}

(* What others hold stays as it is. *)
Keeps(others) ==
  LET old == content
      new == content'
  IN  /\ DOMAIN new = Covered(held')
      /\ \A b \in Covered(others) : new[b] = old[b]

Init == usable = {} /\ held = {} /\ content = <<>>

Open ==
  /\ usable = {} /\ usable' \in SUBSET Blocks
  /\ UNCHANGED <<held, content>>

Take ==
  /\ \E h \in held' \ held : held' = held \cup {h} /\ Fits(h, held)
  /\ Keeps(held)

Give ==
  /\ \E h \in held : held' = held \ {h}
  /\ Keeps(held')

Resize ==
  \E h \in held, g \in held' :
    LET others == held \ {h}
    IN  /\ held' = others \cup {g}
        /\ Fits(g, others)
        /\ Keeps(others)
        /\ \A i \in 0..(h.length - 1) :
             i < g.length => content'[g.first + i] = content[h.first + i]

Use ==
  \E h \in held :
    /\ held' = held
    /\ Keeps(held \ {h})

Next ==
  \/ Open
  \/ (Use \/ Take \/ Give \/ Resize) /\ UNCHANGED usable

Spec == Init /\ [][Next]_vars
=============================================================================
