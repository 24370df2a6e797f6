------------------------ MODULE VendorTransferBuffer ------------------------
(***************************************************************************)
(* VendorTransferBuffer: guest memory the device may reach through a guest *)
(* memory region.  The buffer is the field vtb of a call state: gmr (the   *)
(* region, VRAM, or NoId), md (the memory descriptor), gart (0: memory of  *)
(* the kernel, 1: of the client, 2: of the client, who has since chosen    *)
(* other memory), fence (whether a fence was inserted behind its last      *)
(* transfer) and tag (whose fence that is).                                *)
(***************************************************************************)
EXTENDS AccelService

NewTransferBuffer(tag) ==
    [gmr |-> NoId, md |-> NoId, gart |-> 0, fence |-> FALSE, tag |-> tag]

\* Every memory descriptor may fail to be wired down.
prepare(x) ==
    IF x.vtb.gmr \in GmrIds THEN {[ok |-> TRUE, x |-> x]}
    ELSE LET failed == [ok |-> FALSE, x |-> [x EXCEPT !.vtb.gmr = NoId]]
             made(g, r) == IF r.ok THEN [ok |-> TRUE, x |-> [r.x EXCEPT !.vtb.gmr = g]]
                           ELSE [ok |-> FALSE, x |-> [FreeGMRID(r.x, g) EXCEPT !.vtb.gmr = NoId]]
         IN  {failed} \cup
             UNION {{made(a.id, r) : r \in createGMR(a.x, a.id, x.vtb.md)} : a \in AllocGMRID(x)}

sync(x) ==
    IF x.vtb.fence THEN [SyncToFence(x, x.vtb.tag) EXCEPT !.vtb.fence = FALSE]
    ELSE x

\* Faulty variant: the region is destroyed without waiting for the fence.
completeAtOnce(x) ==
    IF x.vtb.gmr \notin GmrIds THEN x
    ELSE [FreeGMRID(destroyGMR(x, x.vtb.gmr), x.vtb.gmr) EXCEPT !.vtb.gmr = NoId]

complete(x) ==
    LET y == sync(x)
    IN  IF y.vtb.gmr \notin GmrIds THEN y
        ELSE [FreeGMRID(destroyGMR(y, y.vtb.gmr), y.vtb.gmr) EXCEPT !.vtb.gmr = NoId]

discard(x) == [x EXCEPT !.acc.wired = @ \ {x.vtb.md}, !.vtb.md = NoId]

=============================================================================
