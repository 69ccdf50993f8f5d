--------------------------- MODULE VuDescriptors ----------------------------
(***************************************************************************)
(* The three walks of libvhost-user.c along a chain of descriptors in      *)
(* guest memory: vu_queue_get_avail_bytes adds up what is on offer,        *)
(* vu_queue_pop turns one chain into an element of iovecs, and             *)
(* vu_log_queue_fill marks the pages of what was written as dirty.  Each   *)
(* of them meets whatever the guest has put there.                         *)
(***************************************************************************)
EXTENDS Integers, Sequences, SequencesExt, FiniteSetsExt

CONSTANTS Num,       \* vring.num
          MaxSize,   \* VIRTQUEUE_MAX_SIZE
          DescSize,  \* sizeof(struct vring_desc)
          TotalMod,  \* one more than the largest unsigned int
          Page,      \* VHOST_LOG_PAGE
          PerByte,   \* pages that one byte of the dirty log stands for
          LogSize,   \* dev->log_size, in bytes
          Regions,   \* the regions, a sequence of [gpa, size, va]
          Memories,  \* guest memories: [table, ind, avail] as described below
          Descs,     \* what an uninitialised descriptor may hold
          Limits     \* pairs of byte counts that a device asks for

ASSUME VuDescriptorsConstants ==
    /\ {Num, MaxSize, DescSize, TotalMod, Page, PerByte} \subseteq Nat \ {0}
    /\ LogSize \in Nat
    /\ Limits \subseteq (0..TotalMod - 1) \X (0..TotalMod - 1)
    /\ \A m \in Memories : \A d \in Range(m.table) \cup Range(m.ind.entries) :
          d.len \in 0..TotalMod - 1
    /\ \A k \in DOMAIN Regions : Regions[k] \in [gpa : Nat, size : Nat, va : Nat]

(***************************************************************************)
(* Definitions named Bug_... are deliberate mistakes that no specification *)
(* uses; each could replace the definition after it.                       *)
(***************************************************************************)

VARIABLES
    mem,     \* table: the descriptors [addr, len, write, more, next, indirect];
             \* ind: an indirect table [entries, ragged, first, rest], of which
             \* the region of its address holds the first entries, and rest says
             \* whether the others are mapped; avail: the avail ring and idx
    last,    \* vq->last_avail_idx
    broken,  \* dev->broken, with what vu_panic said, or "no"; how the
             \* process ended, after an assertion or an overrun
    elem,    \* the element popped last, or none: [index, out, in]
    bytes,   \* the last answer of vu_queue_avail_bytes
    log,     \* pages of buffers marked dirty since that element was popped;
             \* the pages of the used ring, which vring_used_write marks, are
             \* left out
    written  \* bytes of it that vu_queue_fill was told were written
vars == <<mem, last, broken, elem, bytes, log, written>>

(* virtqueue_num_heads, with its "-1" for a guest that moved the index too *)
(* far, and what virtqueue_get_head reads; a head is valid when below Num. *)
NumHeads(idx) ==
    LET n == mem.avail.idx - idx
    IN  IF n > Num THEN -1 ELSE n

HeadAt(idx) == mem.avail.ring[(idx % Num) + 1]

NoElem == [index |-> -1, out |-> << >>, in |-> << >>]
NoBytes == [asked |-> <<0, 0>>, in |-> 0, out |-> 0, yes |-> TRUE]

Init ==
    /\ mem \in Memories
    /\ last = 0 /\ broken = "no"
    /\ elem = NoElem /\ bytes = NoBytes
    /\ log = {} /\ written = 0

-----------------------------------------------------------------------------
(* vu_gpa_to_va: the first region with the address, and the length cut at  *)
(* its end; length 0 when there is none.                                   *)
GpaToVa(addr, len) ==
    LET hits == {k \in DOMAIN Regions :
                    Regions[k].gpa <= addr /\ addr < Regions[k].gpa + Regions[k].size}
        r == Regions[Min(hits)]
    IN  IF len = 0 \/ hits = {} THEN [base |-> 0, len |-> 0]
        ELSE [base |-> addr - r.gpa + r.va, len |-> Min({len, r.gpa + r.size - addr})]

(* n times step, from s.                                                   *)
Iterate(step(_), s, n) == FoldLeft(LAMBDA t, k : step(t), s, [k \in 1..n |-> k])

Fail(why) == [ok |-> FALSE, why |-> why]

(* virtqueue_read_indirect_desc copies what lies in the first region, and  *)
(* then moves its destination by as many descriptors as it has copied      *)
(* bytes, so that the entries after the first part land further down, or   *)
(* past the end of desc_buf, which has room for MaxSize. The places between *)
(* keep what the stack held: a value of Descs, or of a table copied before. *)
Overruns(t) ==
    DescSize * t.first + (Len(t.entries) - t.first) > MaxSize

ReadIndirectDesc(t) ==
    LET n == Len(t.entries)
        shift == (DescSize - 1) * t.first
    IN  IF n > MaxSize \/ ~t.rest THEN {}
        ELSE {s \in [1..n -> Descs \cup Range(t.entries)] :
                 /\ \A k \in 1..t.first : s[k] = t.entries[k]
                 /\ \A k \in t.first + 1..n :
                       k + shift <= n => s[k + shift] = t.entries[k]}

(* Where a walk begins.  Main is the ring's own table; an indirect table   *)
(* is used where it lies, or copied when it is not in one region.  What a  *)
(* copy past the end of desc_buf does is undefined: the walk goes on, or   *)
(* the process ends with "overrun".                                        *)
Loads(i) ==
    LET t == mem.ind
        n == Len(t.entries)
    IN  IF ~mem.table[i + 1].indirect
        THEN {[ok |-> TRUE, desc |-> mem.table, max |-> Num, start |-> i]}
        ELSE IF t.ragged THEN {Fail("size")}
        ELSE IF n = 0 \/ t.first = 0 THEN {Fail("table")}
        ELSE IF t.first = n
        THEN {[ok |-> TRUE, desc |-> t.entries, max |-> n, start |-> 0]}
        ELSE IF ReadIndirectDesc(t) = {} THEN {Fail("table")}
        ELSE {[ok |-> TRUE, desc |-> s, max |-> n, start |-> 0] :
                  s \in ReadIndirectDesc(t)}
             \cup (IF Overruns(t) THEN {Fail("overrun")} ELSE {})

(* virtqueue_read_next_desc.  rc is "more", "done", or what the panic said. *)
ReadNextDesc(w, t) ==
    LET d == t.desc[w.i + 1]
    IN  IF ~d.more THEN [w EXCEPT !.rc = "done"]
        ELSE IF d.next >= t.max THEN [w EXCEPT !.rc = "next"]
        ELSE [w EXCEPT !.i = d.next]

-----------------------------------------------------------------------------
(***************************************************************************)
(* vu_queue_get_avail_bytes                                                *)
(***************************************************************************)
Bug_BytesStep(w, t, limits) ==   \* the limits are looked at one by one
    LET d == t.desc[w.i + 1]
        v == IF d.write THEN [w EXCEPT !.bufs = @ + 1, !.in = (@ + d.len) % TotalMod]
                        ELSE [w EXCEPT !.bufs = @ + 1,
                                       !.out = (@ + d.len) % TotalMod]
    IN  IF w.rc # "more" THEN w
        ELSE IF w.bufs + 1 > t.max THEN [w EXCEPT !.rc = "loop"]
        ELSE IF v.in >= limits[1] \/ v.out >= limits[2] THEN [v EXCEPT !.rc = "enough"]
        ELSE ReadNextDesc(v, t)

(* One turn of the inner loop.  in_total and out_total are unsigned ints,  *)
(* and so are the lengths the guest gives: the sums wrap.                  *)
BytesStep(w, t, limits) ==
    LET d == t.desc[w.i + 1]
        v == IF d.write THEN [w EXCEPT !.bufs = @ + 1, !.in = (@ + d.len) % TotalMod]
                        ELSE [w EXCEPT !.bufs = @ + 1,
                                       !.out = (@ + d.len) % TotalMod]
    IN  IF w.rc # "more" THEN w
        ELSE IF w.bufs + 1 > t.max THEN [w EXCEPT !.rc = "loop"]
        ELSE IF v.in >= limits[1] /\ v.out >= limits[2] THEN [v EXCEPT !.rc = "enough"]
        ELSE ReadNextDesc(v, t)

(* One turn of the outer loop, for the head at position w.idx.  total      *)
(* counts descriptors over all the chains, an indirect one as one.         *)
BytesOfHead(w, limits) ==
    LET heads == NumHeads(w.idx)
        i == HeadAt(w.idx)
        direct == ~mem.table[i + 1].indirect
        Walk(t) ==
            LET v == Iterate(LAMBDA u : BytesStep(u, t, limits),
                             [w EXCEPT !.i = t.start,
                                       !.bufs = IF direct THEN w.total ELSE 0],
                             t.max + 1)
            IN  [v EXCEPT !.idx = @ + 1, !.rc = IF @ = "done" THEN "more" ELSE @,
                          !.total = IF direct THEN v.bufs ELSE w.total + 1]
    IN  IF w.rc # "more" THEN {w}
        ELSE IF heads = -1 THEN {[w EXCEPT !.rc = "moved"]}
        ELSE IF heads = 0 THEN {[w EXCEPT !.rc = "done"]}
        ELSE IF i >= Num THEN {[w EXCEPT !.rc = "head"]}
        ELSE IF ~direct /\ ~mem.ind.ragged /\ w.total >= Num
        THEN {[w EXCEPT !.rc = "loop"]}
        ELSE {IF t.ok THEN Walk(t) ELSE [w EXCEPT !.rc = t.why] : t \in Loads(i)}

AvailBytes(limits) ==
    Iterate(LAMBDA ws : UNION {BytesOfHead(w, limits) : w \in ws},
            {[idx |-> last, i |-> 0, bufs |-> 0, total |-> 0, in |-> 0, out |-> 0,
              rc |-> "more"]},
            Num + 1)

(* vu_queue_avail_bytes.                                                   *)
QueueAvailBytes(limits) ==
    /\ broken = "no"
    /\ \E w \in AvailBytes(limits) :
           LET fine == w.rc \in {"done", "enough"}
               in == IF fine THEN w.in ELSE 0
               out == IF fine THEN w.out ELSE 0
           IN  /\ bytes' = [asked |-> limits, in |-> in, out |-> out,
                            yes |-> limits[1] <= in /\ limits[2] <= out]
               /\ broken' = IF fine THEN "no" ELSE w.rc
    /\ UNCHANGED <<mem, last, elem, log, written>>

-----------------------------------------------------------------------------
(***************************************************************************)
(* vu_queue_pop                                                            *)
(***************************************************************************)

(* virtqueue_map_desc: a buffer as pieces, one for each region it is in.   *)
PieceStep(m, room) ==
    LET p == GpaToVa(m.pa, m.sz)
    IN  IF m.why # "" \/ m.sz = 0 THEN m
        ELSE IF Len(m.iov) = room THEN [m EXCEPT !.why = "many"]
        ELSE IF p.len = 0 THEN [m EXCEPT !.why = "address"]
        ELSE [m EXCEPT !.iov = Append(@, p), !.pa = @ + p.len, !.sz = @ - p.len]

MapDesc(iov, room, d) ==
    LET m == [iov |-> iov, pa |-> d.addr, sz |-> d.len, why |-> ""]
    IN  IF d.len = 0 THEN [m EXCEPT !.why = "zero"]
        ELSE Iterate(LAMBDA u : PieceStep(u, room), m, room + 1)

Bug_MapStep(w, t) ==   \* a readable buffer may follow a writable one
    LET d == t.desc[w.i + 1]
        m == IF d.write THEN MapDesc(w.in, MaxSize - Len(w.out), d)
                        ELSE MapDesc(w.out, MaxSize, d)
        v == IF d.write THEN [w EXCEPT !.in = m.iov] ELSE [w EXCEPT !.out = m.iov]
    IN  IF w.rc # "more" THEN w
        ELSE IF m.why # "" THEN [w EXCEPT !.rc = m.why]
        ELSE IF Len(v.in) + Len(v.out) > t.max THEN [w EXCEPT !.rc = "loop"]
        ELSE ReadNextDesc(v, t)

(* One turn of vu_queue_map_desc.                                          *)
MapStep(w, t) ==
    LET d == t.desc[w.i + 1]
        m == IF d.write THEN MapDesc(w.in, MaxSize - Len(w.out), d)
                        ELSE MapDesc(w.out, MaxSize, d)
        v == IF d.write THEN [w EXCEPT !.in = m.iov] ELSE [w EXCEPT !.out = m.iov]
    IN  IF w.rc # "more" THEN w
        ELSE IF ~d.write /\ w.in # << >> THEN [w EXCEPT !.rc = "order"]
        ELSE IF m.why # "" THEN [w EXCEPT !.rc = m.why]
        ELSE IF Len(v.in) + Len(v.out) > t.max THEN [w EXCEPT !.rc = "loop"]
        ELSE ReadNextDesc(v, t)

QueueMapDesc(head) ==
    {IF t.ok
     THEN Iterate(LAMBDA w : MapStep(w, t),
                  [i |-> t.start, out |-> << >>, in |-> << >>, rc |-> "more"],
                  t.max + 1)
     ELSE [rc |-> t.why] : t \in Loads(head)}

(* The queue is not empty, and not full of elements in use; last_avail_idx *)
(* moves whatever comes of it.                                             *)
Pop ==
    /\ broken = "no" /\ mem.avail.idx # last
    /\ LET head == HeadAt(last)
       IN  IF head >= Num
           THEN broken' = "head" /\ elem' = NoElem
           ELSE \E w \in QueueMapDesc(head) :
                    IF w.rc = "done"
                    THEN /\ elem' = [index |-> head, out |-> w.out, in |-> w.in]
                         /\ UNCHANGED broken
                    ELSE broken' = w.rc /\ elem' = NoElem
    /\ last' = last + 1
    /\ log' = {} /\ written' = 0
    /\ UNCHANGED <<mem, bytes>>

-----------------------------------------------------------------------------
(***************************************************************************)
(* vu_queue_fill, with the log of dirty pages                              *)
(***************************************************************************)
Bug_LogWrite(address, length) ==   \* the first page only
    IF length = 0 THEN {} ELSE {address \div Page}

(* vu_log_write.                                                           *)
LogWrite(address, length) ==
    {p \in (address \div Page)..(address + length) : p * Page < address + length}

(* Its assertion: the last byte written is on a page that the log has.     *)
LogHolds(address, length) ==
    LogSize > ((address + length - 1) \div Page) \div PerByte

Bug_LogStep(w, t) ==   \* a chain as long as its table is taken for a loop
    LET d == t.desc[w.i + 1]
        n == IF d.write THEN Min({d.len, w.len}) ELSE 0
        v == [w EXCEPT !.bufs = @ + 1, !.len = @ - n,
                       !.pages = @ \cup (IF n = 0 THEN {} ELSE LogWrite(d.addr, n))]
    IN  IF w.rc # "more" THEN w
        ELSE IF w.bufs + 1 >= t.max THEN [w EXCEPT !.rc = "loop"]
        ELSE IF n > 0 /\ ~LogHolds(d.addr, n) THEN [w EXCEPT !.rc = "assert"]
        ELSE IF v.len = 0 THEN [v EXCEPT !.rc = "done"]
        ELSE ReadNextDesc(v, t)

(* One turn of vu_log_queue_fill; a failed assertion aborts the process.   *)
LogStep(w, t) ==
    LET d == t.desc[w.i + 1]
        n == IF d.write THEN Min({d.len, w.len}) ELSE 0
        v == [w EXCEPT !.bufs = @ + 1, !.len = @ - n,
                       !.pages = @ \cup (IF n = 0 THEN {} ELSE LogWrite(d.addr, n))]
    IN  IF w.rc # "more" THEN w
        ELSE IF w.bufs + 1 > t.max THEN [w EXCEPT !.rc = "loop"]
        ELSE IF n > 0 /\ ~LogHolds(d.addr, n) THEN [w EXCEPT !.rc = "assert"]
        ELSE IF v.len = 0 THEN [v EXCEPT !.rc = "done"]
        ELSE ReadNextDesc(v, t)

LogQueueFill(head, len) ==
    {IF t.ok
     THEN Iterate(LAMBDA w : LogStep(w, t),
                  [i |-> t.start, len |-> len, bufs |-> 0, pages |-> {}, rc |-> "more"],
                  t.max + 1)
     ELSE [pages |-> {}, rc |-> t.why] : t \in Loads(head)}

(* The device has written len bytes into the writable part.                *)
Fill(len) ==
    /\ broken = "no" /\ elem # NoElem /\ written = 0
    /\ \E w \in LogQueueFill(elem.index, len) :
           /\ log' = w.pages
           /\ broken' = IF w.rc = "done" THEN "no" ELSE w.rc
    /\ written' = len
    /\ UNCHANGED <<mem, last, elem, bytes>>

SizeOf(iov) == FoldLeft(LAMBDA n, p : n + p.len, 0, iov)

Next ==
    \/ \E limits \in Limits : QueueAvailBytes(limits)
    \/ Pop
    \/ \E len \in 1..SizeOf(elem.in) : Fill(len)

Spec == Init /\ [][Next]_vars

-----------------------------------------------------------------------------
(***************************************************************************)
(* Properties.  What a chain is, apart from how the walks go along it.     *)
(***************************************************************************)
Whole(head) == mem.table[head + 1].indirect => mem.ind.first = Len(mem.ind.entries)
Table(head) == IF mem.table[head + 1].indirect THEN mem.ind.entries ELSE mem.table
Start(head) == IF mem.table[head + 1].indirect THEN 0 ELSE head

(* The positions of the chain of a head: none when it loops or leaves its  *)
(* table.                                                                  *)
Chains(head) ==
    LET t == Table(head)
    IN  {p \in UNION {[1..n -> 0..Len(t) - 1] : n \in 1..Len(t)} :
            /\ p[1] = Start(head)
            /\ \A k \in 1..Len(p) - 1 : t[p[k] + 1].more /\ t[p[k] + 1].next = p[k + 1]
            /\ ~t[p[Len(p)] + 1].more}

BytesOf(d) == [k \in 1..d.len |-> d.addr + k - 1]
BuffersOf(head, p, write) ==
    LET t == Table(head)
        ds == [k \in DOMAIN p |-> t[p[k] + 1]]
    IN  FlattenSeq([k \in DOMAIN p |-> IF ds[k].write = write THEN BytesOf(ds[k])
                                                              ELSE << >>])

HostOf(a) == GpaToVa(a, 1)
Hosts(iov) == FlattenSeq([k \in DOMAIN iov |->
                            [j \in 1..iov[k].len |-> iov[k].base + j - 1]])

(* An element that vu_queue_pop returns is the whole chain of its head and *)
(* nothing else: the chain ends without a loop inside its table, its       *)
(* readable buffers come first, and the iovecs are the bytes of the        *)
(* buffers, in order, where the regions put them, also when a buffer lies  *)
(* across two regions.                                                     *)
ElementIsChain ==
    elem # NoElem /\ Whole(elem.index) =>
        \E p \in Chains(elem.index) :
            LET t == Table(elem.index)
                Mapped(g) == [k \in DOMAIN g |-> HostOf(g[k]).base]
            IN  /\ Hosts(elem.out) = Mapped(BuffersOf(elem.index, p, FALSE))
                /\ Hosts(elem.in) = Mapped(BuffersOf(elem.index, p, TRUE))
                /\ \A k \in DOMAIN p : t[p[k] + 1].len > 0
                /\ \A j \in DOMAIN p : \A k \in 1..j :
                       t[p[k] + 1].write => t[p[j] + 1].write

(* "If we've got too many, that implies a descriptor loop."                *)
LoopIsLoop ==
    broken = "loop" /\ last > 0 =>
        \E k \in 0..last - 1 : LET h == HeadAt(k)
                               IN  h < Num /\ Chains(h) = {}

Straddles(d) == GpaToVa(d.addr, d.len).len < d.len

(* The walks stop, and one that says "Looped descriptor" is right, as long *)
(* as every buffer lies in one region and the chains on offer share no     *)
(* descriptors.                                                            *)
WalksEnd ==
    /\ broken # "more"
    /\ broken = "loop" =>
         LET n == Min({Num, mem.avail.idx})
             heads == [k \in 1..n |-> HeadAt(k - 1)]
         IN  \/ \E k \in 1..n : Chains(heads[k]) = {} \/ ~Whole(heads[k])
             \/ \E d \in Range(mem.table) \cup Range(mem.ind.entries) : Straddles(d)
             \/ \E j, k \in 1..n : \E p \in Chains(heads[j]), q \in Chains(heads[k]) :
                    /\ j # k /\ Table(heads[j]) = Table(heads[k])
                    /\ Range(p) \cap Range(q) # {}

(* vu_log_queue_fill marks the pages of the bytes that the device was      *)
(* given to write, and no others: a frontend that migrates the guest       *)
(* copies what changed, and its walk agrees with that of vu_queue_pop, the *)
(* chain being as it was. The assertion of vu_log_write aborts only when a *)
(* byte that was written has no page in the log.                           *)
LogIsExact ==
    elem # NoElem /\ Whole(elem.index) /\ written > 0 =>
        \E p \in Chains(elem.index) :
            LET pages == {BuffersOf(elem.index, p, TRUE)[k] \div Page : k \in 1..written}
            IN  IF broken = "assert"
                THEN log \subseteq pages /\ \E g \in pages : g \div PerByte >= LogSize
                ELSE log = pages

(* vu_queue_avail_bytes says yes only when the chains on offer hold the    *)
(* bytes that were asked for: stopping early does not count any twice, and *)
(* a total that wraps counts too few, never too many. It says no only when *)
(* they do not hold them, or offer more than an unsigned int can count.    *)
BytesAreOffered ==
    LET n == mem.avail.idx
        heads == [k \in 1..n |-> HeadAt(k - 1)]
        Sum(write) == FoldLeft(LAMBDA s, h :
                          s + Len(BuffersOf(h, CHOOSE p \in Chains(h) : TRUE, write)),
                          0, heads)
    IN  /\ bytes # NoBytes /\ broken = "no" /\ last = 0
        /\ n <= Num
        /\ \A h \in Range(heads) : h < Num /\ Whole(h) /\ Chains(h) # {}
        => LET offered == bytes.asked[1] <= Sum(TRUE) /\ bytes.asked[2] <= Sum(FALSE)
           IN  /\ bytes.yes => offered
               /\ offered /\ {Sum(TRUE), Sum(FALSE)} \subseteq 0..TotalMod - 1 => bytes.yes
=============================================================================
