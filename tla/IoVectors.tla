------------------------------ MODULE IoVectors ------------------------------
(***************************************************************************)
(* How driver_motr_obj.c turns the I/O vectors of an application into      *)
(* vectors that Motr accepts: sorted, cut at page boundaries, partial      *)
(* pages moved to pages of the driver's own, at most MaxSizePerOp bytes at *)
(* a time.                                                                 *)
(*                                                                         *)
(* An I/O vector [off, len, base] is a range of the object and where it    *)
(* is in memory; a base is a memory region and a position in it.  The      *)
(* first iovcnt regions of an operation are the application's buffers, the *)
(* others the extra pages in the order in which they are allocated.        *)
(***************************************************************************)
EXTENDS Naturals, SequencesExt

CONSTANTS
    PageSize,      (* motr_obj_io_pagesize, in bytes                       *)
    MaxSizePerOp   (* motr_obj_max_size_per_op, in bytes                   *)

ASSUME VectorsAssumption ==
    /\ PageSize \in Nat \ {0}
    /\ MaxSizePerOp \in Nat \ {0}

Base(r, at)        == [r |-> r, at |-> at]
Plus(base, k)      == Base(base.r, base.at + k)
Iov(off, len, base) == [off |-> off, len |-> len, base |-> base]

(* The bytes of the object, and the pages, that a vector is about.         *)
BytesOf(v) == v.off .. (v.off + v.len - 1)
PagesOf(v) == {i \div PageSize : i \in BytesOf(v)}

CeilDiv(a, b) == (a + b - 1) \div b
SumLen(iovs)  == FoldLeft(LAMBDA n, v : n + v.len, 0, iovs)

(* Variant: no room for the parts before and behind whole pages.           *)
AlignedRoomTight(iovs) ==
    FoldLeft(LAMBDA n, v : n + CeilDiv(v.len, MaxSizePerOp), 0, iovs)

(***************************************************************************)
(* motr_obj_rw_args_estimate_iovcnts: how many aligned vectors, and how    *)
(* many copies, extra pages and reads before write there is room for.      *)
(***************************************************************************)
AlignedRoom(iovs) ==
    FoldLeft(LAMBDA n, v : n + CeilDiv(v.len, MaxSizePerOp) + 2, 0, iovs)
CopyRoom(iovs) == 2 * Len(iovs)

(***************************************************************************)
(* motr_obj_iovec_sort: a selection sort that puts the first of the        *)
(* vectors with the least offset in place i, and the checks after it.      *)
(***************************************************************************)
SortPlace(s, i) ==
    LET min_idx == Min({j \in i..Len(s) : \A k \in i..Len(s) : s[j].off <= s[k].off})
    IN  [s EXCEPT ![i] = s[min_idx], ![min_idx] = s[i]]

motr_obj_iovec_sort(iovs) == FoldLeft(SortPlace, iovs, [i \in DOMAIN iovs |-> i])

Overlapping(s) == \E i \in 2..Len(s) : s[i].off < s[i-1].off + s[i-1].len

max_eow(iovs) == Max({v.off + v.len : v \in Range(iovs)})

------------------------------------------------------------------------------
(* struct motr_obj_rw_args, as motr_obj_rw_args_alloc leaves it; size is   *)
(* the moa_size of the object.                                             *)
motr_obj_rw_args_alloc(is_write, size, iovcnt) ==
    [is_write |-> is_write, size |-> size, iovcnt |-> iovcnt,
     aligned |-> <<>>, rbw |-> <<>>, dc |-> <<>>, pages |-> 0]

(* Variant: the page of the previous vector is not shared.                 *)
PartialUnshared(a, off, len, base) ==
    LET page == Iov((off \div PageSize) * PageSize, PageSize, Base(a.iovcnt + a.pages + 1, 0))
    IN  [a EXCEPT !.aligned = Append(@, page),
                  !.pages   = @ + 1,
                  !.rbw     = IF a.is_write /\ page.off < a.size THEN Append(@, page) ELSE @,
                  !.dc      = Append(@, [page |-> page.base, off |-> off % PageSize,
                                         app |-> base, len |-> len])]
(***************************************************************************)
(* motr_obj_iovec_partial_page: a part of one page goes through a page of  *)
(* the driver's, which is read first when a write finds it within the      *)
(* object.  Neighbouring parts of the same page share it.  A copy (dc)     *)
(* connects a position in the page with one in the application's buffer.   *)
(***************************************************************************)
motr_obj_iovec_partial_page(a, off, len, base) ==
    LET aligned_off == (off \div PageSize) * PageSize
        shared == a.aligned # <<>> /\ Last(a.aligned).off = aligned_off
        page   == IF shared THEN Last(a.aligned).base ELSE Base(a.iovcnt + a.pages + 1, 0)
        whole  == Iov(aligned_off, PageSize, page)
    IN  IF len = 0 THEN a
        ELSE [a EXCEPT
                !.aligned = IF shared THEN @ ELSE Append(@, whole),
                !.pages   = IF shared THEN @ ELSE @ + 1,
                !.rbw     = IF a.is_write /\ aligned_off < a.size /\ ~shared
                            THEN Append(@, whole) ELSE @,
                !.dc      = Append(@, [page |-> page, off |-> off % PageSize,
                                       app |-> base, len |-> len])]

(***************************************************************************)
(* motr_obj_iovec_clone: whole pages are read and written in place, in     *)
(* parts of at most MaxSizePerOp.  Its callers ignore -EINVAL.             *)
(***************************************************************************)
motr_obj_iovec_clone(a, off, len, base) ==
    LET Part(k) == Iov(off + k, Min({MaxSizePerOp, len - k}), Plus(base, k))
    IN  IF off % PageSize # 0 \/ len % PageSize # 0 THEN a
        ELSE [a EXCEPT !.aligned =
                @ \o [i \in 1..CeilDiv(len, MaxSizePerOp) |-> Part((i - 1) * MaxSizePerOp)]]

(* motr_obj_iovec_split_2: whole pages and a last part, or two parts of    *)
(* two pages.                                                              *)
motr_obj_iovec_split_2(a, v) ==
    LET whole == v.off % PageSize = 0
        len1  == IF whole THEN v.len - ((v.off + v.len) % PageSize)
                          ELSE PageSize - (v.off % PageSize)
        a1    == IF whole THEN motr_obj_iovec_clone(a, v.off, len1, v.base)
                          ELSE motr_obj_iovec_partial_page(a, v.off, len1, v.base)
        len2  == v.len - len1
    IN  IF len2 = PageSize
        THEN motr_obj_iovec_clone(a1, v.off + len1, len2, Plus(v.base, len1))
        ELSE motr_obj_iovec_partial_page(a1, v.off + len1, len2, Plus(v.base, len1))

FirstPage(v) == v.off \div PageSize
LastPage(v)  == (v.off + v.len - 1) \div PageSize

(* Variant: the last page is left out although the vector ends with it.    *)
Split3ShortMiddle(a, v) ==
    LET len1 == PageSize - (v.off % PageSize)
        len2 == (LastPage(v) - FirstPage(v) - 1) * PageSize
        a1   == motr_obj_iovec_partial_page(a, v.off, len1, v.base)
        a2   == motr_obj_iovec_clone(a1, v.off + len1, len2, Plus(v.base, len1))
        len3 == (v.len - len1 - len2) % PageSize
    IN  motr_obj_iovec_partial_page(a2, v.off + len1 + len2, len3, Plus(v.base, len1 + len2))

(* motr_obj_iovec_split_3: a part, whole pages, a part.                    *)
motr_obj_iovec_split_3(a, v) ==
    LET len1 == PageSize - (v.off % PageSize)
        len2 == IF (v.off + v.len) % PageSize # 0
                THEN (LastPage(v) - FirstPage(v) - 1) * PageSize
                ELSE (LastPage(v) - FirstPage(v)) * PageSize
        len3 == v.len - len1 - len2
        a1   == motr_obj_iovec_partial_page(a, v.off, len1, v.base)
        a2   == motr_obj_iovec_clone(a1, v.off + len1, len2, Plus(v.base, len1))
    IN  motr_obj_iovec_partial_page(a2, v.off + len1 + len2, len3, Plus(v.base, len1 + len2))

(* motr_obj_iovec_adjust_with_aligned_off, ..._with_nonaligned_off.        *)
AdjustAlignedOff(a, v) ==
    IF v.len > PageSize THEN motr_obj_iovec_split_2(a, v)
                        ELSE motr_obj_iovec_partial_page(a, v.off, v.len, v.base)

AdjustNonalignedOff(a, v) ==
    CASE FirstPage(v) = LastPage(v) -> motr_obj_iovec_partial_page(a, v.off, v.len, v.base)
      [] LastPage(v) = FirstPage(v) + 1 -> motr_obj_iovec_split_2(a, v)
      [] OTHER -> motr_obj_iovec_split_3(a, v)

AdjustOne(a, v) ==
    CASE v.off % PageSize = 0 /\ v.len % PageSize = 0 ->
           motr_obj_iovec_clone(a, v.off, v.len, v.base)
      [] v.off % PageSize = 0 /\ v.len % PageSize # 0 -> AdjustAlignedOff(a, v)
      [] OTHER -> AdjustNonalignedOff(a, v)

(* motr_obj_iovec_adjust, for the sorted vectors.                          *)
motr_obj_iovec_adjust(a, sorted) == FoldLeft(AdjustOne, a, sorted)

------------------------------------------------------------------------------
(***************************************************************************)
(* motr_obj_read_before_write_optimise: a page that is written completely  *)
(* need not be read, and its vector becomes empty.  The copies of a page   *)
(* are next to one another, in the order of their offsets; the scan over   *)
(* the pages ends at the first page whose first byte is not written.       *)
(***************************************************************************)
CoveredFrom(dc, j) ==
    LET covered[k \in j..Len(dc)] ==
          IF k = j THEN dc[j].len
          ELSE LET len == covered[k - 1]
               IN  IF len # PageSize /\ dc[k].page = dc[j].page /\ dc[k].off <= len
                   THEN len + dc[k].len ELSE len
    IN  covered[Len(dc)]

(* Variant: the copies are counted wherever they begin.                    *)
OptimiseAnywhere(a) ==
    [a EXCEPT !.rbw = [i \in DOMAIN a.rbw |->
       LET j == Min({k \in DOMAIN a.dc : a.dc[k].page = a.rbw[i].base})
       IN  IF a.dc[j].off + CoveredFrom(a.dc, j) = PageSize
           THEN Iov(0, 0, a.rbw[i].base) ELSE a.rbw[i]]]

motr_obj_read_before_write_optimise(a) ==
    LET First(i) == Min({k \in DOMAIN a.dc : a.dc[k].page = a.rbw[i].base})
        Scanned(i) == \A h \in 1..i : a.dc[First(h)].off = 0
    IN  [a EXCEPT !.rbw = [i \in DOMAIN a.rbw |->
           IF Scanned(i) /\ CoveredFrom(a.dc, First(i)) = PageSize
           THEN Iov(0, 0, a.rbw[i].base) ELSE a.rbw[i]]]

------------------------------------------------------------------------------
(* A copy of len bytes between two places in memory (mio_mem_copy).        *)
mio_mem_copy(mem, dst, src, len) ==
    [mem EXCEPT ![dst.r] = [k \in DOMAIN @ |->
       IF k \in dst.at .. (dst.at + len - 1) THEN mem[src.r][src.at + k - dst.at] ELSE @[k]]]

(* motr_obj_data_copy: into the pages for a write, out of them for a read. *)
motr_obj_data_copy(mem, a) ==
    LET Copy(m, c) == IF a.is_write
                      THEN mio_mem_copy(m, Plus(c.page, c.off), c.app, c.len)
                      ELSE mio_mem_copy(m, c.app, Plus(c.page, c.off), c.len)
    IN  FoldLeft(Copy, mem, a.dc)

(* motr_obj_rw_aligned: the vectors after the cursor that fit one          *)
(* operation; the cursor itself (-E2BIG) if not even one does.             *)
NextCursor(iovs, cursor) ==
    Max({c \in cursor..Len(iovs) : SumLen(SubSeq(iovs, cursor + 1, c)) <= MaxSizePerOp})
==============================================================================
