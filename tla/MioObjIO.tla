------------------------------ MODULE MioObjIO -------------------------------
(***************************************************************************)
(* The reads and writes of one object through one handle                   *)
(* (driver_motr_obj.c): what the chains of Motr operations behind          *)
(* mio_obj_readv and mio_obj_writev do to the bytes of the object, to the  *)
(* application's buffers and to the size of the object.  Several calls may *)
(* be in flight; their Motr operations and post-processing interleave.     *)
(***************************************************************************)
EXTENDS IoVectors

CONSTANTS
    Ops,           (* calls of mio_obj_readv and mio_obj_writev            *)
    Vectors,       (* the I/O vectors that each call may be given          *)
    Sizes,         (* the sizes that the object may have at first          *)
    MayFail,       (* may Motr operations fail?                            *)
    PagesApart,    (* are a write and another call only in flight together *)
                   (* if they touch different pages?                       *)
    ExtendAlone,   (* is one write at most in flight that grows the object? *)
    RbwOneOp       (* does what is read before a write fit one operation?  *)

Ranges == [off : Nat, len : Nat]

ASSUME IOAssumption ==
    /\ \A o \in Ops : \A iovs \in Vectors[o] : iovs \in Seq(Ranges) /\ iovs # <<>>
    /\ Sizes \subseteq Nat
    /\ {MayFail, PagesApart, ExtendAlone, RbwOneOp} \subseteq BOOLEAN

(* The bytes of the object that can be reached: all pages of all vectors.  *)
LastByte ==
    LET ends == {v.off + v.len : v \in UNION {Range(iovs) : iovs \in UNION {Vectors[o] : o \in Ops}}}
    IN  CeilDiv(Max(ends \cup Sizes), PageSize) * PageSize - 1

VARIABLES
    data,       (* external: the bytes of the object in Motr               *)
    moa_size,   (* mo_attrs.moa_size of the handle                         *)
    stored,     (* the size in the attribute index                         *)
    call,       (* the state of each call                                  *)
    mem,        (* the memory regions of each call                         *)
    written     (* history: the furthest end of the completed writes       *)

vars == <<data, moa_size, stored, call, mem, written>>

(***************************************************************************)
(* A byte is named by where it comes from: the object as it was at first,  *)
(* zeroed memory or a hole, position k of buffer n of a call.              *)
(***************************************************************************)
Zero         == <<"zero", 0, 0>>
OldByte(i)   == <<"object", 0, i>>
AppByte(o, n, k) == <<o, n, k>>

(***************************************************************************)
(* progress: rwa_rbw_progress and rwa_aligned_progress; batch: the vectors *)
(* of the Motr operation in flight.                                        *)
(***************************************************************************)
NoCall == [step |-> "idle", iovs |-> <<>>, args |-> motr_obj_rw_args_alloc(FALSE, 0, 0),
           progress |-> [rbw |-> 0, aligned |-> 0],
           batch |-> <<>>, opcode |-> "none", executed |-> FALSE]

InFlight(o) == call[o].step \in {"rbw", "write", "read", "put"}
IsWrite(o)  == call[o].args.is_write

IOTypeOK ==
    /\ DOMAIN data = 0..LastByte
    /\ moa_size \in 0..(LastByte + 1)
    /\ stored \in 0..(LastByte + 1)
    /\ written \in 0..(LastByte + 1)
    /\ \A o \in Ops :
         /\ call[o].step \in {"idle", "rbw", "write", "read", "put", "done", "failed"}
         /\ call[o].opcode \in {"none", "READ", "WRITE"}
         /\ call[o].progress.rbw \in 0..Len(call[o].args.rbw)
         /\ call[o].progress.aligned \in 0..Len(call[o].args.aligned)
         /\ Len(mem[o]) = call[o].args.iovcnt + call[o].args.pages

Init ==
    /\ \E size \in Sizes :
         /\ data     = [i \in 0..LastByte |-> IF i < size THEN OldByte(i) ELSE Zero]
         /\ moa_size = size
         /\ stored   = size
         /\ written  = size
    /\ call = [o \in Ops |-> NoCall]
    /\ mem  = [o \in Ops |-> <<>>]

------------------------------------------------------------------------------
(* The application's vectors, with a buffer for each.                      *)
WithBuffers(iovs) == [n \in DOMAIN iovs |-> Iov(iovs[n].off, iovs[n].len, Base(n, 0))]

Buffers(o, iovs) == [n \in DOMAIN iovs |-> [k \in 0..(iovs[n].len - 1) |-> AppByte(o, n, k)]]

ZeroPages(n) == [p \in 1..n |-> [k \in 0..(PageSize - 1) |-> Zero]]

Pages(iovs) == UNION {PagesOf(v) : v \in Range(iovs)}

(***************************************************************************)
(* What the application has to see to ("MIO assumes application takes care *)
(* of concurrent accesses to an object").                                  *)
(***************************************************************************)
Grows(p) == IsWrite(p) /\ (call[p].step = "put" \/ max_eow(call[p].iovs) > moa_size)

Allowed(o, is_write, iovs) ==
    \A p \in Ops \ {o} : InFlight(p) =>
        /\ (PagesApart /\ (is_write \/ IsWrite(p))) => Pages(iovs) \cap Pages(call[p].iovs) = {}
        /\ (ExtendAlone /\ is_write /\ Grows(p)) => max_eow(iovs) <= moa_size

(***************************************************************************)
(* A call that ends frees its args (motr_obj_rw_args_free) with the extra  *)
(* pages; the vectors and the buffers are the application's.               *)
(***************************************************************************)
Ended(c, step) == [NoCall EXCEPT !.step = step, !.iovs = c.iovs,
                                 !.args.is_write = c.args.is_write,
                                 !.args.iovcnt = c.args.iovcnt]

OwnBuffers(o, m) == SubSeq(m, 1, call'[o].args.iovcnt + call'[o].args.pages)

(* Variant: the cursor stays where it was.                                 *)
RwAlignedStuck(c, which, opcode) ==
    LET next == NextCursor(c.args[which], c.progress[which])
    IN  [c EXCEPT !.batch = SubSeq(c.args[which], c.progress[which] + 1, next),
                  !.opcode = opcode, !.executed = FALSE]

(***************************************************************************)
(* motr_obj_rw_aligned and motr_obj_rw_one_op: the call c launches a Motr  *)
(* operation with the next vectors of its list which, or fails (-E2BIG).   *)
(***************************************************************************)
motr_obj_rw_aligned(c, which, opcode) ==
    LET cursor == c.progress[which]
        next   == NextCursor(c.args[which], cursor)
    IN  IF next = cursor THEN Ended(c, "failed")
        ELSE [c EXCEPT !.progress[which] = next,
                       !.batch = SubSeq(c.args[which], cursor + 1, next),
                       !.opcode = opcode, !.executed = FALSE]

(* The args of a call once its vectors are sorted and adjusted.            *)
Adjusted(is_write, iovs) ==
    motr_obj_iovec_adjust(motr_obj_rw_args_alloc(is_write, moa_size, Len(iovs)),
                          motr_obj_iovec_sort(WithBuffers(iovs)))

Begun(step, iovs, args) == [NoCall EXCEPT !.step = step, !.iovs = iovs, !.args = args]

(***************************************************************************)
(* mio_motr_obj_writev: overlapping vectors are refused (-EINVAL); partial *)
(* pages are read first, if there are any within the object.               *)
(***************************************************************************)
mio_motr_obj_writev(o, iovs) ==
    LET args  == motr_obj_read_before_write_optimise(Adjusted(TRUE, iovs))
        first == IF args.rbw # <<>>
                 THEN motr_obj_rw_aligned(Begun("rbw", iovs, args), "rbw", "READ")
                 ELSE motr_obj_rw_aligned(Begun("write", iovs, args), "aligned", "WRITE")
        all   == Buffers(o, iovs) \o ZeroPages(args.pages)
    IN  /\ call[o].step = "idle"
        /\ Allowed(o, TRUE, iovs)
        /\ RbwOneOp => SumLen(args.rbw) <= MaxSizePerOp
        /\ call' = [call EXCEPT ![o] =
             IF Overlapping(motr_obj_iovec_sort(WithBuffers(iovs))) THEN Ended(first, "failed")
                                                                    ELSE first]
        /\ mem' = [mem EXCEPT ![o] =
             OwnBuffers(o, IF call'[o].step = "write" THEN motr_obj_data_copy(all, args) ELSE all)]
        /\ UNCHANGED <<data, moa_size, stored, written>>

(* mio_motr_obj_readv: the result of the check for overlaps is ignored.    *)
mio_motr_obj_readv(o, iovs) ==
    LET args == Adjusted(FALSE, iovs)
    IN  /\ call[o].step = "idle"
        /\ Allowed(o, FALSE, iovs)
        /\ call' = [call EXCEPT ![o] =
                      motr_obj_rw_aligned(Begun("read", iovs, args), "aligned", "READ")]
        /\ mem' = [mem EXCEPT ![o] = OwnBuffers(o, Buffers(o, iovs) \o ZeroPages(args.pages))]
        /\ UNCHANGED <<data, moa_size, stored, written>>

------------------------------------------------------------------------------
(* External: what a Motr operation does with the vectors of its batch.     *)
Launched(o) == call[o].step \in {"rbw", "write", "read"} /\ ~call[o].executed

ReadInto(m, batch) ==
    [r \in DOMAIN m |-> [k \in DOMAIN m[r] |->
       LET hits == {v \in Range(batch) : v.base.r = r /\ k \in v.base.at .. (v.base.at + v.len - 1)}
       IN  IF hits = {} THEN m[r][k]
           ELSE LET v == CHOOSE v \in hits : TRUE IN data[v.off + k - v.base.at]]]

WrittenFrom(m, batch) ==
    [i \in DOMAIN data |->
       LET hits == {v \in Range(batch) : i \in BytesOf(v)}
       IN  IF hits = {} THEN data[i]
           ELSE LET v == CHOOSE v \in hits : TRUE IN m[v.base.r][v.base.at + i - v.off]]

MotrExecute(o) ==
    /\ Launched(o)
    /\ call' = [call EXCEPT ![o].executed = TRUE]
    /\ IF call[o].opcode = "READ"
       THEN mem' = [mem EXCEPT ![o] = ReadInto(@, call[o].batch)] /\ UNCHANGED data
       ELSE data' = WrittenFrom(mem[o], call[o].batch) /\ UNCHANGED mem
    /\ UNCHANGED <<moa_size, stored, written>>

(* A Motr operation fails, having written any of its vectors; the failure  *)
(* ends the call.                                                          *)
MotrFail(o) ==
    /\ MayFail
    /\ Launched(o)
    /\ IF call[o].opcode = "WRITE"
       THEN \E S \in SUBSET DOMAIN call[o].batch :
              data' = WrittenFrom(mem[o], [b \in S |-> call[o].batch[b]])
       ELSE UNCHANGED data
    /\ call' = [call EXCEPT ![o] = Ended(@, "failed")]
    /\ mem'  = [mem EXCEPT ![o] = OwnBuffers(o, @)]
    /\ UNCHANGED <<moa_size, stored, written>>

------------------------------------------------------------------------------
(* Variant: the data is not copied into the pages that were read.          *)
RbwPpNoCopy(o) ==
    /\ call[o].step = "rbw" /\ call[o].executed
    /\ call' = [call EXCEPT ![o] =
                  motr_obj_rw_aligned([@ EXCEPT !.step = "write"], "aligned", "WRITE")]
    /\ mem'  = [mem EXCEPT ![o] = OwnBuffers(o, @)]
    /\ UNCHANGED <<data, moa_size, stored, written>>

(***************************************************************************)
(* motr_obj_read_before_write_pp: once all pages are read the data is      *)
(* copied into them and the writing begins.  A second batch of pages is    *)
(* launched with M0_OC_WRITE.                                              *)
(***************************************************************************)
motr_obj_read_before_write_pp(o) ==
    LET c    == call[o]
        last == c.progress.rbw = Len(c.args.rbw)
    IN  /\ c.step = "rbw" /\ c.executed
        /\ call' = [call EXCEPT ![o] =
             IF last THEN motr_obj_rw_aligned([c EXCEPT !.step = "write"], "aligned", "WRITE")
                     ELSE motr_obj_rw_aligned(c, "rbw", "WRITE")]
        /\ mem' = [mem EXCEPT ![o] =
             OwnBuffers(o, IF last THEN motr_obj_data_copy(@, c.args) ELSE @)]
        /\ UNCHANGED <<data, moa_size, stored, written>>

WriteCompleted(o) == written' = Max({written, max_eow(call[o].iovs)})

(* Variant: the size is stored by the write that came last.                *)
WritePpEveryEnd(o) ==
    /\ call[o].step = "write" /\ call[o].executed
    /\ call[o].progress.aligned = Len(call[o].args.aligned)
    /\ call' = [call EXCEPT ![o] = [Ended(@, "put") EXCEPT !.args.size = max_eow(call[o].iovs)]]
    /\ moa_size' = max_eow(call[o].iovs)
    /\ mem' = [mem EXCEPT ![o] = OwnBuffers(o, @)]
    /\ UNCHANGED <<data, stored, written>>

(***************************************************************************)
(* motr_obj_write_pp: the next batch; after the last, the call is over, or *)
(* goes on to store the new size.                                          *)
(***************************************************************************)
motr_obj_write_pp(o) ==
    LET c   == call[o]
        eow == max_eow(c.iovs)
    IN  /\ c.step = "write" /\ c.executed
        /\ CASE c.progress.aligned # Len(c.args.aligned) ->
                  /\ call' = [call EXCEPT ![o] = motr_obj_rw_aligned(c, "aligned", "WRITE")]
                  /\ UNCHANGED <<moa_size, written>>
             [] c.progress.aligned = Len(c.args.aligned) /\ eow <= moa_size ->
                  /\ call' = [call EXCEPT ![o] = Ended(c, "done")]
                  /\ WriteCompleted(o)
                  /\ UNCHANGED moa_size
             [] OTHER ->
                  /\ call' = [call EXCEPT ![o] = [Ended(c, "put") EXCEPT !.args.size = eow]]
                  /\ moa_size' = eow
                  /\ UNCHANGED written
        /\ mem' = [mem EXCEPT ![o] = OwnBuffers(o, @)]
        /\ UNCHANGED <<data, stored>>

(* The PUT of the size, which carries what it was when it was launched.    *)
PutDone(o) ==
    /\ call[o].step = "put"
    /\ stored' = call[o].args.size
    /\ WriteCompleted(o)
    /\ call' = [call EXCEPT ![o] = Ended(@, "done")]
    /\ UNCHANGED <<data, moa_size, mem>>

PutFail(o) ==
    /\ MayFail
    /\ call[o].step = "put"
    /\ call' = [call EXCEPT ![o] = Ended(@, "failed")]
    /\ UNCHANGED <<data, moa_size, stored, mem, written>>

(* motr_obj_read_pp: the next batch; after the last, the parts of pages    *)
(* are copied to the application's buffers.                                *)
motr_obj_read_pp(o) ==
    LET c    == call[o]
        last == c.progress.aligned = Len(c.args.aligned)
    IN  /\ c.step = "read" /\ c.executed
        /\ call' = [call EXCEPT ![o] =
             IF last THEN Ended(c, "done") ELSE motr_obj_rw_aligned(c, "aligned", "READ")]
        /\ mem' = [mem EXCEPT ![o] =
             OwnBuffers(o, IF last THEN motr_obj_data_copy(@, c.args) ELSE @)]
        /\ UNCHANGED <<data, moa_size, stored, written>>

Call(o) == \E iovs \in Vectors[o] : mio_motr_obj_writev(o, iovs) \/ mio_motr_obj_readv(o, iovs)

PostProcess(o) ==
    motr_obj_read_before_write_pp(o) \/ motr_obj_write_pp(o) \/ motr_obj_read_pp(o)

Next == \E o \in Ops : \/ Call(o) \/ MotrExecute(o) \/ MotrFail(o)
                       \/ PostProcess(o) \/ PutDone(o) \/ PutFail(o)

(* Motr ends what it has launched, and post-processing follows.            *)
Fairness == \A o \in Ops : /\ WF_vars(MotrExecute(o))
                           /\ WF_vars(PostProcess(o))
                           /\ WF_vars(PutDone(o))

Spec == Init /\ [][Next]_vars
FairSpec == Spec /\ Fairness

------------------------------------------------------------------------------
(* The bytes of the object that vector n of a call is about, each with the *)
(* byte of the buffer that belongs to it.                                  *)
Places(o) == UNION {{<<call[o].iovs[n].off + k, n, k>> : k \in 0..(call[o].iovs[n].len - 1)} :
                    n \in DOMAIN call[o].iovs}

(* "to avoid data overwriting" (mio_motr_obj_writev): a byte of the object *)
(* changes only to the byte that a write in flight has for it, whatever    *)
(* else shares its page, also when the write fails half way.  Beyond the   *)
(* known size, where only a failed write can have left something, it may   *)
(* also become zero.                                                       *)
OnlyOwnBytes ==
    [][\A i \in DOMAIN data : data'[i] # data[i] =>
          \/ \E o \in Ops : /\ InFlight(o) /\ IsWrite(o)
                            /\ \E p \in Places(o) : p[1] = i /\ data'[i] = AppByte(o, p[2], p[3])
          \/ i >= moa_size /\ data'[i] = Zero]_vars

(* When the last of its data operations ends, all bytes of a write are in  *)
(* the object, however its vectors were sorted, cut and batched.           *)
WriteLands ==
    [][\A o \in Ops : (call[o].step = "write" /\ call'[o].step \in {"put", "done"}) =>
          \A p \in Places(o) : data[p[1]] = AppByte(o, p[2], p[3])]_vars

(* When a read is reported complete, the application's buffers hold the    *)
(* bytes of the object, in the order in which the application gave them.   *)
ReadDelivers ==
    [][\A o \in Ops : (call[o].step = "read" /\ call'[o].step = "done") =>
          \A p \in Places(o) : mem'[o][p[2]][p[3]] = data[p[1]]]_vars

(* What Motr is given: whole pages ("make all byte ranges aligned to page  *)
(* size", motr_obj_iovec_adjust), not more than it accepts in an operation,*)
(* and no byte written twice.  Only a read before a write may hold vectors *)
(* without a page, which its optimisation leaves there (EmptyNotSent).     *)
BatchesLegal ==
    \A o \in Ops : LET b == call[o].batch IN
        /\ \A i \in DOMAIN b : /\ b[i].off % PageSize = 0 /\ b[i].len % PageSize = 0
                               /\ b[i].len = 0 => call[o].step = "rbw"
        /\ SumLen(b) <= MaxSizePerOp
        /\ call[o].opcode = "WRITE" =>
             \A i, j \in DOMAIN b : i # j => BytesOf(b[i]) \cap BytesOf(b[j]) = {}

(* The arrays that motr_obj_rw_args_alloc allocates before the vectors are *)
(* cut are large enough for the result.                                    *)
WithinRoom ==
    \A o \in Ops : LET c == call[o] IN InFlight(o) =>
        /\ Len(c.args.aligned) <= AlignedRoom(c.iovs)
        /\ Max({Len(c.args.dc), Len(c.args.rbw), c.args.pages}) <= CopyRoom(c.iovs)

(* When no call is in flight and none has failed, the size that is stored, *)
(* and the one in the handle, is the furthest end of the completed writes. *)
SizeStored == (\A o \in Ops : call[o].step \in {"idle", "done"}) =>
                  stored = written /\ moa_size = written

(* Every call ends: no batch is launched twice and none is forgotten.      *)
CallsEnd == \A o \in Ops : InFlight(o) ~> call[o].step \in {"done", "failed"}

(***************************************************************************)
(* What the code does not achieve (see README.md).                         *)
(***************************************************************************)
(* "A whole page is found. Set the offset and len to 0, so this IO vector  *)
(* is not sent to motr" (motr_obj_read_before_write_optimise): no batch    *)
(* has a vector without bytes.  Broken by writes that fill a page in two   *)
(* parts: motr_obj_rw_aligned takes such a vector like any other.          *)
EmptyNotSent == \A o \in Ops : \A i \in DOMAIN call[o].batch : call[o].batch[i].len # 0
==============================================================================
