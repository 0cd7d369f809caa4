---------------------------- MODULE XdmaRequest -----------------------------
(***************************************************************************)
(* How a user's buffer becomes descriptors: the pages of                   *)
(* char_sgdma_map_user_buf_to_sgl() (xdma/cdev_sgdma.c), the software      *)
(* descriptors of xdma_init_request(), the transfers of transfer_init()    *)
(* and transfer_build(), or those of xdma_xfer_aperture() (all             *)
(* xdma/libxdma.c), and the copy of the listed descriptors that a read of  *)
(* the bypass device returns (xdma/cdev_bypass.c).                         *)
(*                                                                         *)
(* One request is followed.  A byte of host memory is known by its user    *)
(* address.  What the engine does with a transfer, and what becomes of one *)
(* that does not complete, is the subject of XdmaEngine and XdmaAsync;     *)
(* here it ends an aperture request, which returns what it did before.     *)
(***************************************************************************)
EXTENDS Integers, Sequences, FiniteSets, SequencesExt, FiniteSetsExt, Bitwise

CONSTANTS
    PageSize,   \* PAGE_SIZE
    MaxLen,     \* bound: bytes of a request
    Blens,      \* values of the module parameter desc_blen_max
    DescMax,    \* engine->desc_max, the ring's size
    Block,      \* XDMA_MAX_ADJ_BLOCK_SIZE
    Apertures,  \* apertures a request may name
    Sizes,      \* sizes of a bypass read, in descriptors
    Wrap        \* where a 32-bit length wraps

ASSUME SizesAssumption ==
    /\ {PageSize, DescMax, Block, Wrap} \subseteq Nat \ {0}
    /\ MaxLen \in Nat /\ MaxLen < Wrap
    /\ Blens \subseteq Nat \ {0}
    /\ Apertures \subseteq Nat \ {0}
    /\ Sizes \subseteq Nat

\* The device address of the request.
Ep == 100

VARIABLES
    op,         \* "submit" or "aperture"
    buf, len,   \* the user's buffer
    fixed,      \* engine->non_incr_addr
    aperture,   \* io.aperture
    blen_max,   \* desc_blen_max, which root may write at any time
    at,         \* how far the request is
    sg,         \* the scatterlist
    max,        \* software descriptors allocated
    sdesc,      \* req->sdesc[], the software descriptors written
    idx,        \* req->sw_desc_idx
    ep_addr,    \* req->ep_addr
    offset,     \* req->offset (aperture)
    sg_idx,     \* req->sg_idx (aperture)
    sg_offset,  \* req->sg_offset (aperture)
    done,       \* the bytes of the aperture transfers that completed
    io,         \* io.done and io.error, as the aperture ioctl returns them
    desc_idx,   \* engine->desc_idx
    xfers,      \* the transfers built so far, each a chain of descriptors
    changed,    \* auxiliary: desc_blen_max was written while it was used
    restarted,  \* auxiliary: a transfer started again after leaving entries behind
    copied      \* the last bypass read: descriptors copied, result, all there were

reqVars == <<op, buf, len, fixed, aperture>>
apVars  == <<offset, sg_idx, sg_offset, done, io>>
auxVars == <<changed, restarted>>
vars    == <<reqVars, blen_max, at, sg, max, sdesc, idx, ep_addr, apVars,
             desc_idx, xfers, auxVars, copied>>

NotCopied == [n |-> 0, rc |-> "none", all |-> 0]

Init ==
    /\ op \in {"submit", "aperture"}
    /\ buf \in 0..(PageSize - 1)
    /\ len \in 0..MaxLen
    /\ fixed \in IF op = "submit" THEN BOOLEAN ELSE {FALSE}
    /\ aperture \in IF op = "submit" THEN {0} ELSE Apertures
    /\ blen_max \in Blens
    /\ at = IF op = "submit" THEN "map" ELSE "ioctl"
    /\ sg = <<>>
    /\ max = 0
    /\ sdesc = <<>>
    /\ idx = 0
    /\ ep_addr = Ep
    /\ offset = 0
    /\ sg_idx = 0
    /\ sg_offset = 0
    /\ done = 0
    /\ io = [done |-> 0, error |-> "ok"]
    /\ desc_idx \in 0..(DescMax - 1)
    /\ xfers = <<>>
    /\ changed = FALSE
    /\ restarted = FALSE
    /\ copied = NotCopied

Min2(a, b) == IF a < b THEN a ELSE b
Ceil(a, b) == (a + b - 1) \div b
-----------------------------------------------------------------------------
(* char_sgdma_map_user_buf_to_sgl()                                        *)

PagesNr == (buf + len + PageSize - 1) \div PageSize

\* One entry per page: from the current place to the end of its page.
SgEntries ==
    FoldLeft(LAMBDA s, i :
                LET n == Min2(PageSize - (s.addr % PageSize), s.left)
                IN [addr |-> s.addr + n, left |-> s.left - n,
                    sg |-> Append(s.sg, [addr |-> s.addr, len |-> n])],
             [addr |-> buf, left |-> len, sg |-> <<>>],
             [i \in 1..PagesNr |-> i])

MapUserBuf ==
    /\ at = "map"
    /\ IF PagesNr = 0 \/ SgEntries.left > 0
         THEN at' = "EINVAL" /\ UNCHANGED sg
         ELSE /\ sg' = SgEntries.sg
              /\ at' = IF op = "submit" THEN "count" ELSE "begin"
    /\ UNCHANGED <<reqVars, blen_max, max, sdesc, idx, ep_addr, apVars, desc_idx,
                   xfers, auxVars, copied>>
-----------------------------------------------------------------------------
(* xdma_init_request()                                                     *)

Sum(seq) == FoldLeft(LAMBDA a, b : a + b, 0, seq)

\* Mutant: the extra descriptors of a long entry are rounded down, less one.
ExtraFew(n) == IF n > blen_max THEN (n \div blen_max) - 1 ELSE 0

\* What an entry that is too long for one descriptor adds.
Extra(n) == IF n > blen_max THEN Ceil(n, blen_max) ELSE 0

\* First the software descriptors are counted and allocated ...
RequestCount ==
    /\ at = "count"
    /\ max' = Len(sg) + Sum([i \in 1..Len(sg) |-> Extra(sg[i].len)])
    /\ at' = "fill"
    /\ UNCHANGED <<reqVars, blen_max, sg, sdesc, idx, ep_addr, apVars, desc_idx,
                   xfers, auxVars, copied>>

\* The pieces of one entry, each at most desc_blen_max long.
SplitEntry(e) ==
    [k \in 1..Ceil(e.len, blen_max) |->
        [addr |-> e.addr + (k - 1) * blen_max,
         len  |-> Min2(blen_max, e.len - (k - 1) * blen_max)]]

\* ... then written, and only then the number compared with the allocation.
RequestFill ==
    /\ at = "fill"
    /\ sdesc' = FlattenSeq([i \in 1..Len(sg) |-> SplitEntry(sg[i])])
    /\ at' = IF Len(sdesc') > max THEN "EINVAL" ELSE "transfer"
    /\ UNCHANGED <<reqVars, blen_max, sg, max, idx, ep_addr, apVars, desc_idx,
                   xfers, auxVars, copied>>

\* A write of /sys/module/xdma/parameters/desc_blen_max (mode 0644).
SetBlenMax(n) ==
    /\ at = "fill"
    /\ n # blen_max
    /\ blen_max' = n
    /\ changed' = TRUE
    /\ UNCHANGED <<reqVars, at, sg, max, sdesc, idx, ep_addr, apVars, desc_idx,
                   xfers, restarted, copied>>
-----------------------------------------------------------------------------
(* transfer_init(), transfer_build()                                       *)

\* Mutant: the last descriptor of a block is counted as one with a neighbour.
NextAdjOver(remaining, next) ==
    IF remaining <= 1 THEN 0 ELSE Min2(Block - (next % Block), remaining - 1)

\* xdma_get_next_adj(): how many descriptors after the next one can be fetched
\* with it.  `next' is the ring index of the next descriptor.
NextAdj(remaining, next) ==
    IF remaining <= 1 THEN 0 ELSE Min2(Block - (next % Block) - 1, remaining - 1)

\* A chain of descriptors from ring entry `first' on: each has its piece, the
\* number of its adjacent descriptors, and only the last one stops the engine.
Chain(first, pieces) ==
    [k \in 1..Len(pieces) |->
        [ring |-> first + k - 1, addr |-> pieces[k].addr, ep |-> pieces[k].ep,
         len  |-> pieces[k].len, stop |-> k = Len(pieces),
         adj  |-> NextAdj(Len(pieces) - k, first + k)]]

\* The descriptors of this transfer: at most to the end of the ring.
DescNum ==
    LET want == Min2(Len(sdesc) - idx, DescMax)
    IN IF desc_idx + want >= DescMax THEN DescMax - desc_idx ELSE want

\* The device address of piece k: it advances, unless the engine is in
\* non-incremental mode.
EpOf(k) == IF fixed THEN ep_addr
           ELSE ep_addr + Sum([i \in 1..(k - 1) |-> sdesc[idx + i].len])

TransferInit ==
    LET pieces == [k \in 1..DescNum |->
                     [addr |-> sdesc[idx + k].addr, len |-> sdesc[idx + k].len,
                      ep |-> EpOf(k)]]
    IN
    /\ at = "transfer"
    /\ idx < Len(sdesc)
    /\ xfers' = Append(xfers, Chain(desc_idx, pieces))
    /\ ep_addr' = EpOf(DescNum + 1)
    /\ idx' = idx + DescNum
    /\ desc_idx' = (desc_idx + DescNum) % DescMax
    /\ UNCHANGED <<reqVars, blen_max, at, sg, max, sdesc, apVars, auxVars, copied>>

SubmitEnd ==
    /\ at = "transfer"
    /\ idx = Len(sdesc)
    /\ at' = "done"
    /\ UNCHANGED <<reqVars, blen_max, sg, max, sdesc, idx, ep_addr, apVars,
                   desc_idx, xfers, auxVars, copied>>
-----------------------------------------------------------------------------
(* ioctl_do_aperture_dma(), xdma_xfer_aperture()                           *)

\* An ioctl for the other direction, or of a buffer that is not aligned as the
\* engine needs it, is refused before the buffer is mapped.
ApertureIoctl ==
    /\ at = "ioctl"
    /\ at' \in {"map", "EINVAL"}
    /\ UNCHANGED <<reqVars, blen_max, sg, max, sdesc, idx, ep_addr, apVars,
                   desc_idx, xfers, auxVars, copied>>

\* What the caller of xdma_xfer_aperture() writes back: a count, or an error.
IoResult(n, rv) ==
    IF n = 0 /\ rv # "ok" THEN [io EXCEPT !.error = rv] ELSE [io EXCEPT !.done = n]

\* A device that is offline, a streaming engine, a scatterlist that cannot be
\* mapped and a request that cannot be allocated end the call before the loop.
ApertureBegin ==
    /\ at = "begin"
    /\ \/ at' = "aperture" /\ UNCHANGED io
       \/ \E rv \in {"EBUSY", "EINVAL", "EIO", "ENOMEM"} :
            at' = "returned" /\ io' = IoResult(0, rv)
    /\ UNCHANGED <<reqVars, blen_max, sg, max, sdesc, idx, ep_addr, offset, sg_idx,
                   sg_offset, done, desc_idx, xfers, auxVars, copied>>

EpMax == Ep + aperture - 1
PieceMax == Min2(aperture, blen_max)

\* Mutant: the end of the aperture does not cut a piece.
AperturePieceOver(s) ==
    LET ep == IF s.ep > EpMax THEN Ep ELSE s.ep
        n  == Min2(s.tlen, PieceMax)
    IN [s EXCEPT !.pieces = Append(@, [addr |-> s.addr, ep |-> ep, len |-> n]),
                 !.sg_offset = @ + n, !.offset = @ + n, !.ep = ep + n,
                 !.addr = @ + n, !.tlen = @ - n, !.ring = @ + 1]

\* One pass of the inner loop: the piece ends where the entry, the aperture or
\* the longest descriptor does.
AperturePiece(s) ==
    LET ep == IF s.ep > EpMax THEN Ep ELSE s.ep
        n0 == Min2(s.tlen, PieceMax)
        n  == IF ep + n0 > EpMax THEN EpMax - ep + 1 ELSE n0
    IN [s EXCEPT !.pieces = Append(@, [addr |-> s.addr, ep |-> ep, len |-> n]),
                 !.sg_offset = @ + n, !.offset = @ + n, !.ep = ep + n,
                 !.addr = @ + n, !.tlen = @ - n, !.ring = @ + 1]

RECURSIVE ApertureEntry(_)
ApertureEntry(s) ==
    IF s.tlen = 0 \/ s.ring = DescMax THEN s ELSE ApertureEntry(AperturePiece(s))

\* Entering entry number `head': what is left of it, as an unsigned number.
EnterEntry(s) ==
    LET e == sg[s.head] IN
    [s EXCEPT !.tlen = (e.len - s.sg_offset) % Wrap, !.addr = e.addr + s.sg_offset]

\* The outer loop: `i' counts entries, `head' is the entry looked at.
RECURSIVE ApertureLoop(_)
ApertureLoop(s) ==
    IF s.i >= Len(sg) \/ s.ring >= DescMax THEN s
    ELSE LET e == ApertureEntry(EnterEntry(s))
         IN IF e.tlen # 0 THEN e
            ELSE ApertureLoop([e EXCEPT !.sg_offset = 0, !.i = @ + 1, !.head = @ + 1])

\* A transfer of n bytes completes; one that is refused, fails or is given up
\* ends the request.
ApertureSettle(n) ==
    \/ at' = at /\ done' = done + n
    \/ at' = "failed" /\ UNCHANGED done

\* One transfer.  It starts again from the first entry of the scatterlist,
\* whatever the count of entries says.  With no piece it would write
\* descriptors past the ring: the model ends there.
ApertureTransfer ==
    LET end == ApertureLoop(
                 [i |-> sg_idx, head |-> 1, sg_offset |-> sg_offset, tlen |-> 0,
                  addr |-> 0, ep |-> Ep + (offset & (aperture - 1)),
                  offset |-> offset, ring |-> desc_idx, pieces |-> <<>>])
    IN
    /\ at = "aperture"
    /\ offset < len
    /\ IF end.pieces = <<>>
         THEN at' = "empty" /\ UNCHANGED <<xfers, done>>
         ELSE /\ xfers' = Append(xfers, Chain(desc_idx, end.pieces))
              /\ ApertureSettle(end.offset - offset)
    /\ restarted' = (restarted \/ sg_idx > 0)
    /\ offset' = end.offset
    /\ sg_idx' = end.i
    /\ sg_offset' = end.sg_offset
    /\ desc_idx' = (desc_idx + Len(end.pieces)) % DescMax
    /\ UNCHANGED <<reqVars, blen_max, sg, max, sdesc, idx, ep_addr, io, changed,
                   copied>>

\* The end of the loop (one error stands for those of a refused, a failed and an
\* abandoned transfer): the scatterlist and the user's pages are released, and
\* the count is returned as long as some data was processed.
ApertureEnd ==
    /\ \/ at = "aperture" /\ offset >= len /\ io' = IoResult(done, "ok")
       \/ at = "failed" /\ io' = IoResult(done, "EIO")
    /\ at' = "returned"
    /\ UNCHANGED <<reqVars, blen_max, sg, max, sdesc, idx, ep_addr, offset, sg_idx,
                   sg_offset, done, desc_idx, xfers, auxVars, copied>>
-----------------------------------------------------------------------------
(* cdev_bypass.c                                                           *)

\* copy_desc_data() for one descriptor; the copy of descriptor number `bad'
\* fails, which uses up the whole buffer.
CopyOne(s, size, bad) ==
    CASE s.offset < size /\ s.n # bad -> [s EXCEPT !.offset = @ + 1, !.n = @ + 1]
      [] s.offset < size /\ s.n = bad -> [s EXCEPT !.rc = "EINVAL", !.offset = size]
      [] OTHER                        -> [s EXCEPT !.rc = "ENOMEM"]

\* copy_desc_data(): rc starts afresh for each transfer.
CopyDescData(s, size, bad, xfer) ==
    FoldLeft(LAMBDA r, d : CopyOne(r, size, bad), [s EXCEPT !.rc = "ok"], xfer)

\* char_bypass_read(), with all the transfers of the request listed, as the
\* asynchronous path queues them.  The result is that of the last one.
BypassRead(size, bad) ==
    LET end == FoldLeft(LAMBDA s, x : CopyDescData(s, size, bad, x),
                        [offset |-> 0, n |-> 0, rc |-> "ok"], xfers)
    IN
    /\ at = "done"
    /\ op = "submit"
    /\ copied' = [n |-> end.offset, rc |-> end.rc,
                  all |-> Sum([i \in 1..Len(xfers) |-> Len(xfers[i])])]
    /\ UNCHANGED <<reqVars, blen_max, at, sg, max, sdesc, idx, ep_addr, apVars,
                   desc_idx, xfers, auxVars>>
-----------------------------------------------------------------------------
Next ==
    \/ MapUserBuf
    \/ RequestCount
    \/ \E n \in Blens : SetBlenMax(n)
    \/ RequestFill
    \/ TransferInit
    \/ SubmitEnd
    \/ ApertureIoctl
    \/ ApertureBegin
    \/ ApertureTransfer
    \/ ApertureEnd
    \/ \E size \in Sizes, bad \in -1..3 : BypassRead(size, bad)

Spec == Init /\ [][Next]_vars
-----------------------------------------------------------------------------
(* Properties                                                              *)

\* The bytes the hardware moves for a chain, in order: where in the host's
\* memory and where in the device's.
Bytes(chain) ==
    FlattenSeq([k \in 1..Len(chain) |->
        [i \in 1..chain[k].len |->
            <<chain[k].addr + i - 1, chain[k].ep + (IF fixed THEN 0 ELSE i - 1)>>]])
Moved == FlattenSeq([i \in 1..Len(xfers) |-> Bytes(xfers[i])])

\* What a request means: byte i of the buffer goes to (or comes from) byte i of
\* the device, the one fixed address, or byte i of the aperture repeated.
Meant ==
    [i \in 1..len |-> <<buf + i - 1,
        Ep + (CASE fixed -> 0 [] op = "aperture" -> (i - 1) % aperture
                [] OTHER -> i - 1)>>]

PowerOfTwo == \E k \in 0..10 : aperture = 2^k

\* The transfers of read(), write() and asynchronous I/O move every byte of the
\* buffer once, in order and to its place, however the buffer lies on the pages
\* and wherever the ring is cut; and the software descriptors they are built from
\* were allocated, unless desc_blen_max changed between counting and writing.
SubmitTiles ==
    op = "submit" =>
        /\ IsPrefix(Moved, Meant)
        /\ at = "done" => Moved = Meant
        /\ ~changed => Len(sdesc) <= max

\* So do those of an aperture request, if its size is a power of two and no
\* transfer is cut after the first page: the second transfer starts over at
\* the first page.  The ioctl reports an error only when no transfer completed;
\* otherwise its count is that of the transfers which did: the whole buffer, or
\* all but the transfer that ended the request.
ApertureTiles ==
    op = "aperture" /\ ~restarted /\ (PowerOfTwo \/ Len(xfers) < 2) =>
        /\ IsPrefix(Moved, Meant)
        /\ at = "returned" =>
             /\ len > 0 => (io.error = "ok" <=> io.done > 0)
             /\ io.done \in 1..Len(Moved) =>
                  \/ io.done = Len(Moved) /\ Moved = Meant
                  \/ io.done = Len(Moved) - Len(Bytes(Last(xfers)))

\* Hardware that fetches a descriptor's neighbours with it gets descriptors of
\* the same chain, none beyond the one that stops, and from one aligned block.
AdjacentSafe ==
    \A i \in 1..Len(xfers) :
        \A k \in 1..(Len(xfers[i]) - 1) :
            LET next == xfers[i][k].ring + 1
                end == next + xfers[i][k].adj
            IN /\ end <= xfers[i][Len(xfers[i])].ring
               /\ next \div Block = end \div Block
=============================================================================
