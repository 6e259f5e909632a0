-------------------------- MODULE MioObjBytesProofs --------------------------
(***************************************************************************)
(* Theorems about the bytes of MioObjIO: a read delivers the bytes of the  *)
(* object, a write lands, and no other byte changes, for any vectors and   *)
(* any number of calls.                                                    *)
(*                                                                         *)
(* First what motr_obj_iovec_adjust makes of the vectors of a call: where  *)
(* its lists lead (Fits), that they leave out no byte (Covered), and what  *)
(* else is true of a write whose vectors do not overlap (Tidy).            *)
(***************************************************************************)
EXTENDS MioObjIOProofs

(* A range of the object that is at base in one of the buffers.            *)
Within(iovs, off, len, base) ==
    /\ base.r \in 1..Len(iovs) /\ base.at + len <= iovs[base.r].len
    /\ off = iovs[base.r].off + base.at

(* A vector of whole pages is a part of a buffer, or a page of the         *)
(* driver's, on pages that the call is about.                              *)
VecFits(a, iovs, v) ==
    /\ v.base.r \in 1..(a.iovcnt + a.pages)
    /\ v.base.r <= a.iovcnt => Within(iovs, v.off, v.len, v.base)
    /\ v.base.r > a.iovcnt => v.base.at = 0 /\ v.len = PageSize
    /\ \A i \in BytesOf(v) : i \div PageSize \in Pages(iovs)

(* A copy connects the same bytes of the object.                           *)
CopyFits(a, iovs, c) ==
    /\ c.len > 0
    /\ \E j \in DOMAIN a.aligned :
         /\ a.aligned[j].base = c.page /\ c.off + c.len <= a.aligned[j].len
         /\ Within(iovs, a.aligned[j].off + c.off, c.len, c.app)

(* No page of the driver's has two vectors.                                *)
OwnPages(a) == \A i, j \in DOMAIN a.aligned :
    i # j /\ a.aligned[i].base.r = a.aligned[j].base.r => a.aligned[i].base.r <= a.iovcnt

Fits(a, iovs) ==
    /\ a.iovcnt = Len(iovs) /\ OwnPages(a)
    /\ \A i \in DOMAIN a.aligned : VecFits(a, iovs, a.aligned[i])
    /\ \A i \in DOMAIN a.dc : CopyFits(a, iovs, a.dc[i])

(* Position k of buffer r is in a vector, or copied.                       *)
InVector(v, r, k) == v.base.r = r /\ v.base.at <= k /\ k < v.base.at + v.len
InCopy(c, r, k)   == c.app.r = r /\ c.app.at <= k /\ k < c.app.at + c.len

Covered(a, r, k) == \/ \E i \in DOMAIN a.aligned : InVector(a.aligned[i], r, k)
                    \/ \E i \in DOMAIN a.dc : InCopy(a.dc[i], r, k)

Covers(a, base, len) == \A k \in base.at .. (base.at + len - 1) : Covered(a, base.r, k)

Keeps(a, b) == \A r, k \in Nat : Covered(a, r, k) => Covered(b, r, k)

(* A copy is of bytes before e.                                            *)
DoneBy(iovs, c, e) == iovs[c.app.r].off + c.app.at + c.len <= e

(***************************************************************************)
(* The lists of a write without overlaps, when the vectors up to byte e    *)
(* are done: copies go to pages of the driver's, those of a page one after *)
(* another, and the pages that are read are those that begin within the    *)
(* object.                                                                 *)
(***************************************************************************)
CopiesTidy(a, iovs, e) ==
    /\ \A i \in DOMAIN a.dc : a.dc[i].page.r > a.iovcnt /\ DoneBy(iovs, a.dc[i], e)
    /\ \A i, j \in DOMAIN a.dc : i < j /\ a.dc[i].page = a.dc[j].page
                                   => a.dc[i].off + a.dc[i].len <= a.dc[j].off

PageUsed(a, v) ==
    /\ v.off < a.size => \E i \in DOMAIN a.rbw : a.rbw[i] = v
    /\ \E i \in DOMAIN a.dc : a.dc[i].page = v.base

PagesTidy(a) ==
    /\ \A i \in DOMAIN a.rbw : /\ a.rbw[i].base.r > a.iovcnt /\ a.rbw[i].off < a.size
                               /\ \E j \in DOMAIN a.aligned : a.aligned[j] = a.rbw[i]
    /\ \A j \in DOMAIN a.aligned : a.aligned[j].base.r > a.iovcnt => PageUsed(a, a.aligned[j])

LastTidy(a, e) == a.aligned # <<>> /\ Last(a.aligned).base.r <= a.iovcnt => End(Last(a.aligned)) <= e

Tidy(a, iovs, e) ==
    a.is_write /\ InOrder(a, e) /\ LastTidy(a, e) /\ CopiesTidy(a, iovs, e) /\ PagesTidy(a)

(* One list begins with another.                                           *)
Longer(s, t) == Len(s) <= Len(t) /\ \A i \in 1..Len(s) : t[i] = s[i]

(* What is covered stays covered.                                          *)
LEMMA LongerKeeps ==
    ASSUME NEW a \in ArgsType, NEW b \in ArgsType, Longer(a.aligned, b.aligned), Longer(a.dc, b.dc)
    PROVE  Keeps(a, b)
  <1> SUFFICES ASSUME NEW r \in Nat, NEW k \in Nat, Covered(a, r, k) PROVE Covered(b, r, k)
    BY DEF Keeps
  <1>1. /\ DOMAIN a.aligned = 1..Len(a.aligned) /\ DOMAIN b.aligned = 1..Len(b.aligned)
        /\ DOMAIN a.dc = 1..Len(a.dc) /\ DOMAIN b.dc = 1..Len(b.dc)
        /\ Len(a.aligned) \in Nat /\ Len(b.aligned) \in Nat /\ Len(a.dc) \in Nat /\ Len(b.dc) \in Nat
    BY DEF ArgsType
  <1>2. CASE \E i \in DOMAIN a.aligned : InVector(a.aligned[i], r, k)
    <2>1. PICK i \in 1..Len(a.aligned) : InVector(a.aligned[i], r, k)
      BY <1>1, <1>2
    <2>2. i \in DOMAIN b.aligned /\ b.aligned[i] = a.aligned[i]
      BY <1>1 DEF Longer
    <2> QED BY <2>1, <2>2 DEF Covered
  <1>3. CASE \E i \in DOMAIN a.dc : InCopy(a.dc[i], r, k)
    <2>1. PICK i \in 1..Len(a.dc) : InCopy(a.dc[i], r, k)
      BY <1>1, <1>3
    <2>2. i \in DOMAIN b.dc /\ b.dc[i] = a.dc[i]
      BY <1>1 DEF Longer
    <2> QED BY <2>1, <2>2 DEF Covered
  <1> QED BY <1>2, <1>3 DEF Covered

(* Lists with more at their ends fit, if what is new does.                 *)
LEMMA FitsMore ==
    ASSUME NEW iovs \in Seq(Ranges), NEW a \in ArgsType, NEW b \in ArgsType, Fits(a, iovs),
           b.iovcnt = a.iovcnt, a.pages <= b.pages,
           Longer(a.aligned, b.aligned), Longer(a.dc, b.dc),
           \A i \in (Len(a.aligned) + 1)..Len(b.aligned) :
              /\ VecFits(b, iovs, b.aligned[i])
              /\ b.aligned[i].base.r > a.iovcnt =>
                   \A j \in DOMAIN b.aligned : b.aligned[j].base.r = b.aligned[i].base.r => j = i,
           \A i \in (Len(a.dc) + 1)..Len(b.dc) : CopyFits(b, iovs, b.dc[i])
    PROVE  Fits(b, iovs)
  <1>1. /\ DOMAIN a.aligned = 1..Len(a.aligned) /\ DOMAIN b.aligned = 1..Len(b.aligned)
        /\ DOMAIN a.dc = 1..Len(a.dc) /\ DOMAIN b.dc = 1..Len(b.dc)
        /\ Len(a.aligned) \in Nat /\ Len(b.aligned) \in Nat /\ Len(a.dc) \in Nat /\ Len(b.dc) \in Nat
        /\ a.iovcnt \in Nat /\ a.pages \in Nat /\ b.pages \in Nat
    BY DEF ArgsType
  <1>2. ASSUME NEW i \in DOMAIN b.aligned
        PROVE  /\ b.aligned[i].base.r \in Nat
               /\ \/ i \in DOMAIN a.aligned /\ b.aligned[i] = a.aligned[i]
                  \/ i \in (Len(a.aligned) + 1)..Len(b.aligned)
    <2>1. b.aligned[i] \in VecType
      BY DEF ArgsType
    <2>2. b.aligned[i].base.r \in Nat
      BY <2>1 DEF VecType, BaseType
    <2>3. i \in 1..Len(a.aligned) \/ i \in (Len(a.aligned) + 1)..Len(b.aligned)
      BY <1>1
    <2> QED BY <1>1, <2>2, <2>3 DEF Longer
  <1>3. ASSUME NEW i \in DOMAIN b.aligned PROVE VecFits(b, iovs, b.aligned[i])
    <2>1. CASE i \in DOMAIN a.aligned /\ b.aligned[i] = a.aligned[i]
      <3>1. VecFits(a, iovs, b.aligned[i])
        BY <2>1 DEF Fits
      <3>2. b.aligned[i].base.r \in 1..(b.iovcnt + b.pages)
        BY <1>1, <3>1, SMTT(30) DEF VecFits
      <3> QED BY <3>1, <3>2 DEF VecFits
    <2> QED BY <1>2, <2>1
  <1>4. ASSUME NEW i \in DOMAIN b.dc PROVE CopyFits(b, iovs, b.dc[i])
    <2>1. CASE i \in 1..Len(a.dc)
      <3>1. CopyFits(a, iovs, b.dc[i])
        BY <1>1, <2>1 DEF Fits, Longer
      <3>2. \A j \in DOMAIN a.aligned : j \in DOMAIN b.aligned /\ b.aligned[j] = a.aligned[j]
        BY <1>1 DEF Longer
      <3> QED BY <3>1, <3>2 DEF CopyFits
    <2>2. CASE i \in (Len(a.dc) + 1)..Len(b.dc)
      BY <2>2
    <2> QED BY <1>1, <2>1, <2>2
  <1>5. OwnPages(b)
    <2> SUFFICES ASSUME NEW i \in DOMAIN b.aligned, NEW j \in DOMAIN b.aligned, i # j,
                        b.aligned[i].base.r = b.aligned[j].base.r, b.aligned[i].base.r > a.iovcnt
                 PROVE  FALSE
      BY <1>1, <1>2 DEF OwnPages
    <2>1. i \in DOMAIN a.aligned /\ b.aligned[i] = a.aligned[i]
      BY <1>2
    <2>2. j \in DOMAIN a.aligned /\ b.aligned[j] = a.aligned[j]
      BY <1>2
    <2>3. a.aligned[i].base.r <= a.iovcnt /\ b.aligned[i].base.r \in Nat
      BY <1>2, <2>1, <2>2 DEF Fits, OwnPages
    <2> QED BY <1>1, <2>1, <2>3
  <1> QED BY <1>3, <1>4, <1>5 DEF Fits

(***************************************************************************)
(* What motr_obj_iovec_partial_page adds to the lists: a copy, and, unless *)
(* it shares the last page, a page, which is read first if it begins       *)
(* within the object.                                                      *)
(***************************************************************************)
Shared(a, off) == a.aligned # <<>> /\ Last(a.aligned).off = PageOff(off)
PageFor(a, off) == IF Shared(a, off) THEN Last(a.aligned).base ELSE Base(a.iovcnt + a.pages + 1, 0)
WholePage(a, off) == Iov(PageOff(off), PageSize, PageFor(a, off))
RbwFor(a, off) == IF a.is_write /\ PageOff(off) < a.size
                  THEN Append(a.rbw, WholePage(a, off)) ELSE a.rbw
CopyFor(a, off, len, base) ==
    [page |-> PageFor(a, off), off |-> off % PageSize, app |-> base, len |-> len]

AlignedFor(a, off) == Append(a.aligned, WholePage(a, off))
DcFor(a, off, len, base) == Append(a.dc, CopyFor(a, off, len, base))

SameKind(a, b) == b.is_write = a.is_write /\ b.size = a.size /\ b.iovcnt = a.iovcnt

PartialAdds(a, b, off, len, base) ==
    /\ b \in ArgsType /\ SameKind(a, b) /\ b.dc = DcFor(a, off, len, base)
    /\ Shared(a, off) => b.aligned = a.aligned /\ b.rbw = a.rbw /\ b.pages = a.pages
    /\ ~Shared(a, off) => /\ b.aligned = AlignedFor(a, off) /\ b.pages = a.pages + 1
                          /\ b.rbw = RbwFor(a, off)
    /\ CopyFor(a, off, len, base) \in CopyType /\ WholePage(a, off) \in VecType

(* The model has this effect.                                              *)
LEMMA PartialLists ==
    ASSUME NEW a \in ArgsType, NEW off \in Nat, NEW len \in Nat \ {0}, NEW base \in BaseType,
           NEW b, b = motr_obj_iovec_partial_page(a, off, len, base)
    PROVE  PartialAdds(a, b, off, len, base)
  <1>1. b \in ArgsType /\ SameKind(a, b)
    BY PartialGrows DEF Grown, SameKind
  <1>2. /\ b.dc = DcFor(a, off, len, base)
        /\ Shared(a, off) => b.aligned = a.aligned /\ b.rbw = a.rbw /\ b.pages = a.pages
        /\ ~Shared(a, off) =>
             /\ b.aligned = AlignedFor(a, off) /\ b.pages = a.pages + 1
             /\ b.rbw = RbwFor(a, off)
    BY DEF motr_obj_iovec_partial_page, PageOff, Shared, PageFor, WholePage, CopyFor,
           RbwFor, AlignedFor, DcFor, ArgsType
  <1>3. PageFor(a, off) \in BaseType
    <2>1. CASE Shared(a, off)
      <3>1. a.aligned \in Seq(VecType) /\ Len(a.aligned) \in 1..Len(a.aligned)
        BY <2>1 DEF ArgsType, Shared
      <3>2. Last(a.aligned) \in VecType
        BY <3>1 DEF Last
      <3> QED BY <2>1, <3>2 DEF VecType, PageFor
    <2>2. CASE ~Shared(a, off)
      BY <2>2 DEF Base, BaseType, PageFor, ArgsType
    <2> QED BY <2>1, <2>2
  <1>4. CopyFor(a, off, len, base) \in CopyType
    BY <1>3, PageOffIs DEF CopyFor, CopyType
  <1>5. WholePage(a, off) \in VecType
    BY <1>3, PageOffIs, VectorsAssumption DEF WholePage, Iov, VecType
  <1> QED BY <1>1, <1>2, <1>4, <1>5 DEF PartialAdds

(* A list with one more at its end begins with it.                         *)
LEMMA LongerOne ==
    ASSUME NEW S, NEW s \in Seq(S), NEW v \in S
    PROVE  /\ Longer(s, Append(s, v)) /\ Len(Append(s, v)) = Len(s) + 1
           /\ Append(s, v)[Len(s) + 1] = v /\ Append(s, v) \in Seq(S)
           /\ Longer(s, s) /\ Len(s) \in Nat /\ DOMAIN s = 1..Len(s)
           /\ DOMAIN Append(s, v) = 1..(Len(s) + 1)
  BY DEF Longer

(* What is whole pages, and not nothing, is a page at least.               *)
LEMMA PageAtLeast ==
    ASSUME NEW x \in Nat, x % PageSize = 0, x > 0
    PROVE  PageSize <= x
  <1>1. PageSize \in Nat \ {0} /\ 0 \in Nat
    BY VectorsAssumption
  <1>2. 0 = PageSize * 0 + 0 /\ 0 \in 0..(PageSize - 1)
    BY <1>1
  <1>3. 0 % PageSize = 0
    BY <1>1, <1>2, Remainder
  <1>4. 0 + PageSize <= x
    BY <1>1, <1>3, Multiples
  <1> QED BY <1>1, <1>4

(* The bytes of a page are on the same page.                               *)
LEMMA PageBytes ==
    ASSUME NEW off \in Nat, NEW i \in PageOff(off)..(PageOff(off) + PageSize - 1)
    PROVE  i \div PageSize = off \div PageSize
  <1> DEFINE q == off \div PageSize
  <1>1. PageSize \in Nat \ {0} /\ q \in Nat
    BY VectorsAssumption, Division
  <1>2. PageOff(off) = q * PageSize
    BY DEF PageOff
  <1> HIDE DEF q
  <1>3. q * PageSize = PageSize * q /\ PageSize * q \in Nat
    BY <1>1
  <1>4. i \in Nat /\ i - PageSize * q \in 0..(PageSize - 1) /\ i = PageSize * q + (i - PageSize * q)
    BY <1>1, <1>2, <1>3
  <1>5. i \div PageSize = q
    BY <1>1, <1>4, Remainder
  <1> QED BY <1>5 DEF q

(* The pages of a range in a buffer are pages of the call.                 *)
LEMMA PagesWithin ==
    ASSUME NEW iovs \in Seq(Ranges), NEW off \in Nat, NEW len \in Nat, NEW base \in BaseType,
           Within(iovs, off, len, base), NEW i \in off..(off + len - 1)
    PROVE  i \div PageSize \in Pages(iovs)
  <1> DEFINE v == iovs[base.r]
  <1>1. v \in Ranges /\ base.at \in Nat
    BY DEF Within, BaseType
  <1>2. v.off \in Nat /\ v.len \in Nat
    BY <1>1 DEF Ranges
  <1>3. v \in Range(iovs) /\ off = v.off + base.at /\ base.at + len <= v.len
    BY DEF Within, Range
  <1> HIDE DEF v
  <1>4. i \in BytesOf(v)
    BY <1>1, <1>2, <1>3, SMTT(30) DEF BytesOf
  <1> QED BY <1>3, <1>4 DEF Pages, PagesOf

(* A part of a page: where the page is, and that the copy is in it.        *)
LEMMA PartialFits ==
    ASSUME NEW iovs \in Seq(Ranges), NEW a \in ArgsType, NEW off \in Nat, NEW len \in Nat \ {0},
           NEW base \in BaseType, InPage(off, len), Within(iovs, off, len, base),
           AllPaged(a.aligned), Fits(a, iovs),
           NEW b, b = motr_obj_iovec_partial_page(a, off, len, base)
    PROVE  /\ Fits(b, iovs) /\ Keeps(a, b) /\ Covers(b, base, len)
           /\ Longer(a.aligned, b.aligned) /\ Longer(a.dc, b.dc) /\ Longer(a.rbw, b.rbw)
  <1> DEFINE n  == Len(a.aligned)
             po == PageOff(off)
             copy == CopyFor(a, off, len, base)
             whole == WholePage(a, off)
             page == PageFor(a, off)
  <1>1. /\ b \in ArgsType /\ SameKind(a, b) /\ b.dc = DcFor(a, off, len, base)
        /\ Shared(a, off) => b.aligned = a.aligned /\ b.rbw = a.rbw /\ b.pages = a.pages
        /\ ~Shared(a, off) =>
             /\ b.aligned = AlignedFor(a, off) /\ b.pages = a.pages + 1
             /\ b.rbw = RbwFor(a, off)
        /\ copy \in CopyType /\ whole \in VecType
    <2>1. PartialAdds(a, b, off, len, base)
      BY PartialLists
    <2> QED BY <2>1 DEF PartialAdds
  <1>2. /\ po \in Nat /\ off = po + (off % PageSize) /\ off % PageSize \in 0..(PageSize - 1)
        /\ PageSize \in Nat \ {0} /\ a.iovcnt \in Nat /\ a.pages \in Nat /\ b.iovcnt = a.iovcnt
        /\ a.aligned \in Seq(VecType) /\ a.dc \in Seq(CopyType) /\ a.rbw \in Seq(VecType)
        /\ (off % PageSize) + len <= PageSize
    BY <1>1, PageOffIs, VectorsAssumption DEF ArgsType, SameKind, InPage
  <1>3. /\ copy.page = page /\ copy.off = off % PageSize /\ copy.app = base /\ copy.len = len
        /\ whole.off = po /\ whole.len = PageSize /\ whole.base = page
    BY DEF CopyFor, WholePage, Iov
  <1> HIDE DEF copy, whole, page, po
  <1>4. /\ Longer(a.dc, b.dc) /\ Len(b.dc) = Len(a.dc) + 1 /\ b.dc[Len(a.dc) + 1] = copy
        /\ Len(a.dc) \in Nat /\ DOMAIN b.dc = 1..(Len(a.dc) + 1)
    <2>1. a.dc \in Seq(CopyType) /\ copy \in CopyType /\ b.dc = Append(a.dc, copy)
      BY <1>1, <1>2 DEF DcFor, copy
    <2> QED BY <2>1, LongerOne
  <1>5. /\ Longer(a.aligned, b.aligned) /\ Longer(a.rbw, b.rbw) /\ n \in Nat /\ DOMAIN a.aligned = 1..n
        /\ ~Shared(a, off) => /\ Len(b.aligned) = n + 1 /\ b.aligned[n + 1] = whole
                              /\ DOMAIN b.aligned = 1..(n + 1)
    <2>1. Longer(a.aligned, a.aligned) /\ Longer(a.rbw, a.rbw) /\ n \in Nat /\ DOMAIN a.aligned = 1..n
      BY <1>1, <1>2, LongerOne
    <2>2. /\ Longer(a.aligned, Append(a.aligned, whole)) /\ Longer(a.rbw, Append(a.rbw, whole))
          /\ Len(Append(a.aligned, whole)) = n + 1 /\ Append(a.aligned, whole)[n + 1] = whole
          /\ DOMAIN Append(a.aligned, whole) = 1..(n + 1)
      BY <1>1, <1>2, LongerOne
    <2>3. /\ RbwFor(a, off) = a.rbw \/ RbwFor(a, off) = Append(a.rbw, whole)
          /\ AlignedFor(a, off) = Append(a.aligned, whole)
      BY DEF RbwFor, AlignedFor, whole
    <2> QED BY <1>1, <2>1, <2>2, <2>3
  <1>6. Keeps(a, b)
    BY <1>1, <1>4, <1>5, LongerKeeps
  <1>7. Covers(b, base, len)
    <2> SUFFICES ASSUME NEW k \in base.at .. (base.at + len - 1) PROVE Covered(b, base.r, k)
      BY DEF Covers
    <2>1. Len(a.dc) + 1 \in DOMAIN b.dc
      BY <1>4
    <2>2. base.at \in Nat
      BY DEF BaseType
    <2>3. InCopy(copy, base.r, k)
      BY <1>3, <2>2 DEF InCopy
    <2> QED BY <1>4, <2>1, <2>3 DEF Covered
  <1>8. \E j \in DOMAIN b.aligned : /\ b.aligned[j].base = page /\ b.aligned[j].off = po
                                    /\ PageSize <= b.aligned[j].len
    <2>1. CASE Shared(a, off)
      <3>1. n \in DOMAIN a.aligned /\ Last(a.aligned) = a.aligned[n] /\ a.aligned[n] \in VecType
        BY <1>2, <1>5, <2>1 DEF Shared, Last
      <3>2. a.aligned[n].base = page /\ a.aligned[n].off = po /\ b.aligned = a.aligned
        BY <1>1, <2>1, <3>1 DEF Shared, page, po, PageFor
      <3>3. a.aligned[n].len % PageSize = 0 /\ a.aligned[n].len > 0 /\ a.aligned[n].len \in Nat
        BY <3>1 DEF AllPaged, Paged, VecType
      <3>4. PageSize <= a.aligned[n].len
        BY <3>3, PageAtLeast
      <3> QED BY <3>1, <3>2, <3>4
    <2>2. CASE ~Shared(a, off)
      <3>1. n + 1 \in DOMAIN b.aligned
        BY <1>5, <2>2
      <3> QED BY <1>2, <1>3, <1>5, <2>2, <3>1
    <2> QED BY <2>1, <2>2
  <1>9. CopyFits(b, iovs, copy)
    <2>1. PICK j \in DOMAIN b.aligned : /\ b.aligned[j].base = page /\ b.aligned[j].off = po
                                        /\ PageSize <= b.aligned[j].len
      BY <1>8
    <2>2. b.aligned[j].len \in Nat
      <3>1. b.aligned[j] \in VecType
        BY <1>1 DEF ArgsType
      <3> QED BY <3>1 DEF VecType
    <2>3. copy.off + copy.len <= b.aligned[j].len /\ copy.len > 0 /\ b.aligned[j].off + copy.off = off
      BY <1>2, <1>3, <2>1, <2>2
    <2> QED BY <1>3, <2>1, <2>3 DEF CopyFits
  <1>10. ASSUME ~Shared(a, off)
         PROVE  /\ VecFits(b, iovs, whole) /\ page.r = a.iovcnt + a.pages + 1
                /\ \A j \in DOMAIN a.aligned : a.aligned[j].base.r # page.r
    <2>1. page.r = a.iovcnt + a.pages + 1 /\ page.at = 0
      BY <1>10 DEF page, PageFor, Base
    <2>2. \A j \in DOMAIN a.aligned : a.aligned[j].base.r # page.r
      <3>1. \A j \in DOMAIN a.aligned : a.aligned[j].base.r \in 1..(a.iovcnt + a.pages)
        BY DEF Fits, VecFits
      <3> QED BY <1>2, <2>1, <3>1
    <2>3. ASSUME NEW i \in BytesOf(whole) PROVE i \div PageSize \in Pages(iovs)
      <3>1. i \div PageSize = off \div PageSize
        BY <1>3, <2>3, PageBytes DEF BytesOf, po
      <3>2. off \div PageSize \in Pages(iovs)
        <4>1. off \in off..(off + len - 1)
          OBVIOUS
        <4> QED BY <4>1, PagesWithin
      <3> QED BY <3>1, <3>2
    <2>4. page.r \in 1..(b.iovcnt + b.pages) /\ page.r > b.iovcnt
      <3>1. b.pages = a.pages + 1 /\ b.iovcnt = a.iovcnt
        BY <1>1, <1>2, <1>10
      <3>2. a.iovcnt \in Nat /\ a.pages \in Nat
        BY <1>2
      <3> QED BY <2>1, <3>1, <3>2
    <2>5. ~(page.r <= b.iovcnt)
      BY <1>2, <2>4
    <2>6. VecFits(b, iovs, whole)
      BY <1>3, <2>1, <2>3, <2>4, <2>5 DEF VecFits
    <2> QED BY <2>1, <2>2, <2>6
  <1>11. Fits(b, iovs)
    <2>1. \A i \in (Len(a.dc) + 1)..Len(b.dc) : CopyFits(b, iovs, b.dc[i])
      BY <1>4, <1>9
    <2>2. a.pages <= b.pages
      BY <1>1, <1>2
    <2>3. ASSUME NEW i \in (n + 1)..Len(b.aligned)
          PROVE  /\ VecFits(b, iovs, b.aligned[i])
                 /\ b.aligned[i].base.r > a.iovcnt =>
                      \A j \in DOMAIN b.aligned : b.aligned[j].base.r = b.aligned[i].base.r => j = i
      <3>1. CASE Shared(a, off)
        BY <1>1, <1>5, <3>1
      <3>2. CASE ~Shared(a, off)
        <4>1. i = n + 1 /\ b.aligned[i] = whole
          BY <1>5, <3>2
        <4>2. ASSUME NEW j \in DOMAIN b.aligned, j # n + 1 PROVE b.aligned[j].base.r # page.r
          <5>1. DOMAIN b.aligned = 1..(n + 1) /\ n \in Nat
            BY <1>1, <1>5, <3>2
          <5>2. j \in 1..n
            BY <4>2, <5>1
          <5>3. j \in DOMAIN a.aligned
            BY <1>1, <5>2
          <5>4. b.aligned[j] = a.aligned[j]
            BY <1>5, <5>3 DEF Longer
          <5> QED BY <1>10, <3>2, <5>3, <5>4
        <4> QED BY <1>3, <1>10, <3>2, <4>1, <4>2
      <3> QED BY <3>1, <3>2
    <2> QED BY <1>1, <1>2, <1>4, <1>5, <2>1, <2>2, <2>3, FitsMore
  <1> QED BY <1>4, <1>5, <1>6, <1>7, <1>11

(* The numbers of a copy.                                                  *)
LEMMA CopyNumbers ==
    ASSUME NEW iovs \in Seq(Ranges), NEW c \in CopyType, c.app.r \in 1..Len(iovs)
    PROVE  /\ iovs[c.app.r].off \in Nat /\ iovs[c.app.r].len \in Nat
           /\ c.app.at \in Nat /\ c.app.r \in Nat /\ c.page.r \in Nat /\ c.page.at \in Nat
           /\ c.len \in Nat /\ c.off \in Nat
  <1>1. c.app \in BaseType /\ c.page \in BaseType /\ c.len \in Nat /\ c.off \in Nat
    BY DEF CopyType
  <1>2. iovs[c.app.r] \in Ranges
    OBVIOUS
  <1>3. iovs[c.app.r].off \in Nat /\ iovs[c.app.r].len \in Nat
    BY <1>2 DEF Ranges
  <1> QED BY <1>1, <1>3 DEF BaseType

(* It stays so.                                                            *)
LEMMA DoneLater ==
    ASSUME NEW iovs \in Seq(Ranges), NEW a \in ArgsType, Fits(a, iovs), NEW e \in Nat, NEW f \in Nat,
           e <= f, NEW i \in DOMAIN a.dc, DoneBy(iovs, a.dc[i], e)
    PROVE  DoneBy(iovs, a.dc[i], f)
  <1> DEFINE c == a.dc[i]
  <1>1. c \in CopyType /\ CopyFits(a, iovs, c)
    BY DEF ArgsType, Fits
  <1>2. c.app.r \in 1..Len(iovs)
    BY <1>1 DEF CopyFits, Within
  <1> HIDE DEF c
  <1>3. DoneBy(iovs, c, e)
    BY DEF c
  <1>4. DoneBy(iovs, c, f)
    <2> DEFINE x == iovs[c.app.r].off
    <2>1. x \in Nat /\ c.app.at \in Nat /\ c.len \in Nat
      BY <1>1, <1>2, CopyNumbers
    <2>2. x + c.app.at + c.len <= e
      BY <1>3 DEF DoneBy
    <2> HIDE DEF x
    <2>3. x + c.app.at + c.len <= f
      BY <2>1, <2>2
    <2> QED BY <2>3 DEF x, DoneBy
  <1> QED BY <1>4 DEF c

(* What is true up to byte e is true up to a later one.                    *)
LEMMA TidyLater ==
    ASSUME NEW iovs \in Seq(Ranges), NEW a \in ArgsType, NEW e \in Nat, NEW f \in Nat, e <= f,
           PageSized, PagedArgs(a), Fits(a, iovs), Tidy(a, iovs, e)
    PROVE  Tidy(a, iovs, f)
  <1>1. InOrder(a, f)
    BY AdvanceNone DEF Advances, Tidy
  <1>2. LastTidy(a, f)
    <2> SUFFICES ASSUME a.aligned # <<>>, Last(a.aligned).base.r <= a.iovcnt
                 PROVE  End(Last(a.aligned)) <= f
      BY DEF LastTidy
    <2>1. Last(a.aligned) \in VecType
      <3>1. a.aligned \in Seq(VecType) /\ Len(a.aligned) \in 1..Len(a.aligned)
        BY DEF ArgsType
      <3> QED BY <3>1 DEF Last
    <2>2. End(Last(a.aligned)) <= e /\ End(Last(a.aligned)) \in Nat
      BY <2>1 DEF Tidy, LastTidy, VecType, End
    <2> QED BY <2>2
  <1>3. CopiesTidy(a, iovs, f)
    <2>1. \A i \in DOMAIN a.dc : DoneBy(iovs, a.dc[i], e)
      BY DEF Tidy, CopiesTidy
    <2>2. \A i \in DOMAIN a.dc : DoneBy(iovs, a.dc[i], f)
      BY <2>1, DoneLater
    <2> QED BY <2>2 DEF Tidy, CopiesTidy
  <1> QED BY <1>1, <1>2, <1>3 DEF Tidy

(* Pages stay tidy when lists get longer, if what is new is.               *)
LEMMA PagesTidyMore ==
    ASSUME NEW a \in ArgsType, NEW b \in ArgsType, PagesTidy(a), SameKind(a, b),
           Longer(a.aligned, b.aligned), Longer(a.dc, b.dc), Longer(a.rbw, b.rbw),
           \A i \in (Len(a.rbw) + 1)..Len(b.rbw) :
              /\ b.rbw[i].base.r > a.iovcnt /\ b.rbw[i].off < a.size
              /\ \E j \in DOMAIN b.aligned : b.aligned[j] = b.rbw[i],
           \A j \in (Len(a.aligned) + 1)..Len(b.aligned) :
              b.aligned[j].base.r > a.iovcnt => PageUsed(b, b.aligned[j])
    PROVE  PagesTidy(b)
  <1>1. /\ DOMAIN a.aligned = 1..Len(a.aligned) /\ DOMAIN b.aligned = 1..Len(b.aligned)
        /\ DOMAIN a.dc = 1..Len(a.dc) /\ DOMAIN b.dc = 1..Len(b.dc)
        /\ DOMAIN a.rbw = 1..Len(a.rbw) /\ DOMAIN b.rbw = 1..Len(b.rbw)
        /\ Len(a.aligned) \in Nat /\ Len(b.aligned) \in Nat /\ Len(a.dc) \in Nat /\ Len(b.dc) \in Nat
        /\ Len(a.rbw) \in Nat /\ Len(b.rbw) \in Nat
    BY DEF ArgsType
  <1>2. /\ \A j \in DOMAIN a.aligned : j \in DOMAIN b.aligned /\ b.aligned[j] = a.aligned[j]
        /\ \A j \in DOMAIN a.dc : j \in DOMAIN b.dc /\ b.dc[j] = a.dc[j]
        /\ \A j \in DOMAIN a.rbw : j \in DOMAIN b.rbw /\ b.rbw[j] = a.rbw[j]
    BY <1>1, SMTT(30) DEF Longer
  <1>3. b.iovcnt = a.iovcnt /\ b.size = a.size
    BY DEF SameKind
  <1>4. ASSUME NEW i \in DOMAIN b.rbw
        PROVE  /\ b.rbw[i].base.r > b.iovcnt /\ b.rbw[i].off < b.size
               /\ \E j \in DOMAIN b.aligned : b.aligned[j] = b.rbw[i]
    <2>1. CASE i \in DOMAIN a.rbw
      BY <1>2, <1>3, <2>1 DEF PagesTidy
    <2>2. CASE i \in (Len(a.rbw) + 1)..Len(b.rbw)
      BY <1>3, <2>2
    <2> QED BY <1>1, <2>1, <2>2
  <1>5. ASSUME NEW j \in DOMAIN b.aligned, b.aligned[j].base.r > b.iovcnt PROVE PageUsed(b, b.aligned[j])
    <2>1. CASE j \in DOMAIN a.aligned
      <3>1. PageUsed(a, b.aligned[j])
        BY <1>2, <1>3, <1>5, <2>1 DEF PagesTidy
      <3> QED BY <1>2, <1>3, <3>1 DEF PageUsed
    <2>2. CASE j \in (Len(a.aligned) + 1)..Len(b.aligned)
      BY <1>3, <1>5, <2>2
    <2> QED BY <1>1, <2>1, <2>2
  <1> QED BY <1>4, <1>5 DEF PagesTidy

(* Copies stay tidy with one more that comes after them.                   *)
LEMMA CopiesTidyOne ==
    ASSUME NEW iovs \in Seq(Ranges), NEW a \in ArgsType, NEW b, Fits(a, iovs), b.iovcnt = a.iovcnt,
           NEW e \in Nat, NEW f \in Nat, e <= f, CopiesTidy(a, iovs, e), NEW m, m = Len(a.dc),
           Longer(a.dc, b.dc), DOMAIN b.dc = 1..(m + 1), NEW copy, b.dc[m + 1] = copy,
           copy.page.r > a.iovcnt, DoneBy(iovs, copy, f),
           \A i \in 1..m : a.dc[i].page = copy.page => a.dc[i].off + a.dc[i].len <= copy.off
    PROVE  CopiesTidy(b, iovs, f)
  <1>1. m \in Nat /\ DOMAIN a.dc = 1..m
    BY DEF ArgsType
  <1>2. \A i \in 1..m : b.dc[i] = a.dc[i]
    BY DEF Longer
  <1>3. ASSUME NEW i \in 1..m PROVE a.dc[i].page.r > a.iovcnt /\ DoneBy(iovs, a.dc[i], f)
    BY <1>1, DoneLater DEF CopiesTidy
  <1>4. ASSUME NEW i \in DOMAIN b.dc PROVE b.dc[i].page.r > b.iovcnt /\ DoneBy(iovs, b.dc[i], f)
    <2>1. CASE i \in 1..m
      BY <1>2, <1>3, <2>1
    <2>2. CASE i = m + 1
      BY <2>2
    <2> QED BY <1>1, <2>1, <2>2
  <1>5. ASSUME NEW i \in DOMAIN b.dc, NEW j \in DOMAIN b.dc, i < j, b.dc[i].page = b.dc[j].page
        PROVE  b.dc[i].off + b.dc[i].len <= b.dc[j].off
    <2>1. i \in 1..m /\ (j \in 1..m \/ j = m + 1)
      BY <1>1, <1>5
    <2>2. CASE j \in 1..m
      BY <1>1, <1>2, <1>5, <2>1, <2>2 DEF CopiesTidy
    <2>3. CASE j = m + 1
      BY <1>2, <1>5, <2>1, <2>3
    <2> QED BY <2>1, <2>2, <2>3
  <1> QED BY <1>4, <1>5 DEF CopiesTidy

(* A part of a page of a write: the page is one of the driver's, and its   *)
(* copies follow one another.                                              *)
LEMMA PartialTidy ==
    ASSUME NEW iovs \in Seq(Ranges), NEW a \in ArgsType, NEW off \in Nat, NEW len \in Nat \ {0},
           NEW base \in BaseType, InPage(off, len), Within(iovs, off, len, base),
           PageSized, PagedArgs(a), Fits(a, iovs), NEW e \in Nat, e <= off, Tidy(a, iovs, e),
           NEW b, b = motr_obj_iovec_partial_page(a, off, len, base)
    PROVE  Tidy(b, iovs, off + len)
  <1> DEFINE n  == Len(a.aligned)
             m  == Len(a.dc)
             po == PageOff(off)
             rest == off % PageSize
             copy == CopyFor(a, off, len, base)
             whole == WholePage(a, off)
             page == PageFor(a, off)
  <1>1. /\ b \in ArgsType /\ SameKind(a, b) /\ b.dc = DcFor(a, off, len, base)
        /\ Shared(a, off) => b.aligned = a.aligned /\ b.rbw = a.rbw /\ b.pages = a.pages
        /\ ~Shared(a, off) =>
             /\ b.aligned = AlignedFor(a, off) /\ b.pages = a.pages + 1
             /\ b.rbw = RbwFor(a, off)
        /\ copy \in CopyType /\ whole \in VecType
    <2>1. PartialAdds(a, b, off, len, base)
      BY PartialLists
    <2> QED BY <2>1 DEF PartialAdds
  <1>2. /\ po \in Nat /\ off = po + rest /\ rest \in 0..(PageSize - 1) /\ rest + len <= PageSize
        /\ PageSize \in Nat \ {0} /\ a.iovcnt \in Nat /\ a.pages \in Nat
    BY PageOffIs, VectorsAssumption DEF ArgsType, InPage
  <1>12. a.aligned \in Seq(VecType) /\ a.dc \in Seq(CopyType) /\ a.rbw \in Seq(VecType)
    BY DEF ArgsType
  <1>3. /\ copy.page = page /\ copy.off = rest /\ copy.app = base /\ copy.len = len
        /\ whole.off = po /\ whole.len = PageSize /\ whole.base = page
    BY DEF CopyFor, WholePage, Iov
  <1>4. b.iovcnt = a.iovcnt /\ b.size = a.size /\ b.is_write /\ AllPaged(a.aligned) /\ a.is_write
    BY <1>1 DEF SameKind, Tidy, PagedArgs
  <1>5. Fits(b, iovs) /\ Longer(a.aligned, b.aligned) /\ Longer(a.dc, b.dc) /\ Longer(a.rbw, b.rbw)
    BY <1>4, PartialFits
  <1>6. InOrder(b, off + len)
    <2>1. Advances(a, b, off, off + len, 1, 1)
      BY PartialAdvances DEF InPage
    <2> QED BY <2>1 DEF Advances, Tidy
  <1> HIDE DEF copy, whole, page, po, rest
  <1>7. DOMAIN b.dc = 1..(m + 1) /\ b.dc[m + 1] = copy /\ m \in Nat
    <2>1. a.dc \in Seq(CopyType) /\ copy \in CopyType /\ b.dc = Append(a.dc, copy)
      BY <1>1, <1>12 DEF DcFor, copy
    <2>2. m \in Nat /\ DOMAIN Append(a.dc, copy) = 1..(m + 1) /\ Append(a.dc, copy)[m + 1] = copy
      BY <2>1, LongerOne
    <2> QED BY <2>1, <2>2
  <1>8. n \in Nat /\ DOMAIN a.aligned = 1..n
    BY <1>12
  <1>11. DoneBy(iovs, copy, off + len) /\ e <= off + len /\ off + len \in Nat
    <2>1. iovs[base.r].off + base.at = off
      BY DEF Within
    <2>2. iovs[copy.app.r].off + copy.app.at + copy.len = off + len
      BY <1>3, <2>1
    <2> QED BY <2>2 DEF DoneBy
  <1>9. CASE Shared(a, off)
    <2>1. n \in 1..n /\ Last(a.aligned) = a.aligned[n] /\ a.aligned # <<>>
      BY <1>12, <1>8, <1>9 DEF Shared, Last
    <2>2. a.aligned[n].base = page /\ a.aligned[n].off = po /\ a.aligned[n] \in VecType
      BY <1>12, <1>9, <2>1 DEF Shared, page, po, PageFor
    <2>3. page.r \in Nat /\ page.r > a.iovcnt
      <3>1. page.r \in Nat /\ a.aligned[n].len \in Nat
        BY <2>2 DEF VecType, BaseType
      <3>2. ASSUME page.r <= a.iovcnt PROVE FALSE
        <4>1. End(a.aligned[n]) <= e
          BY <2>1, <2>2, <3>2 DEF Tidy, LastTidy
        <4>2. PageSize <= a.aligned[n].len
          <5>1. a.aligned[n].len % PageSize = 0 /\ a.aligned[n].len > 0
            BY <1>4, <1>8, <2>1 DEF AllPaged, Paged
          <5> QED BY <3>1, <5>1, PageAtLeast
        <4>3. End(a.aligned[n]) = po + a.aligned[n].len
          BY <2>2 DEF End
        <4> QED BY <1>2, <3>1, <4>1, <4>2, <4>3
      <3> QED BY <1>2, <3>1, <3>2
    <2>4. LastTidy(b, off + len)
      BY <1>1, <1>2, <1>4, <1>9, <2>1, <2>2, <2>3 DEF LastTidy
    <2>5. ASSUME NEW i \in 1..m, a.dc[i].page = page PROVE a.dc[i].off + a.dc[i].len <= rest
      <3> DEFINE c == a.dc[i]
                 x == iovs[c.app.r].off
      <3>1. c \in CopyType /\ CopyFits(a, iovs, c)
        BY <1>12 DEF Fits
      <3>2. PICK j \in DOMAIN a.aligned : /\ a.aligned[j].base = page
                                          /\ Within(iovs, a.aligned[j].off + c.off, c.len, c.app)
        BY <2>5, <3>1 DEF CopyFits
      <3>3. j = n
        <4>1. n \in DOMAIN a.aligned /\ a.aligned[n].base.r = a.aligned[j].base.r
          BY <1>8, <2>1, <2>2, <3>2
        <4>2. j # n => page.r <= a.iovcnt
          BY <3>2, <4>1 DEF Fits, OwnPages
        <4> QED BY <1>2, <2>3, <4>2
      <3>4. po + c.off = x + c.app.at /\ c.app.r \in 1..Len(iovs)
        BY <2>2, <3>2, <3>3 DEF Within
      <3>5. x \in Nat /\ c.app.at \in Nat /\ c.len \in Nat /\ c.off \in Nat
        BY <3>1, <3>4, CopyNumbers
      <3>6. x + c.app.at + c.len <= e
        BY <1>12 DEF Tidy, CopiesTidy, DoneBy
      <3> HIDE DEF c, x
      <3>7. c.off + c.len <= rest
        BY <1>2, <3>4, <3>5, <3>6
      <3> QED BY <3>7 DEF c
    <2>6. PagesTidy(b)
      <3>1. PagesTidy(a) /\ Len(b.aligned) = n /\ Len(b.rbw) = Len(a.rbw) /\ Len(a.rbw) \in Nat
        BY <1>1, <1>12, <1>9 DEF Tidy
      <3>2. /\ \A i \in (Len(a.rbw) + 1)..Len(b.rbw) : FALSE
            /\ \A i \in (n + 1)..Len(b.aligned) : FALSE
        BY <1>8, <3>1
      <3> QED BY <1>1, <1>5, <3>1, <3>2, PagesTidyMore
    <2>7. CopiesTidy(b, iovs, off + len)
      <3>1. CopiesTidy(a, iovs, e) /\ copy.page.r > a.iovcnt
        BY <1>3, <2>3 DEF Tidy
      <3>2. \A i \in 1..m : a.dc[i].page = copy.page => a.dc[i].off + a.dc[i].len <= copy.off
        BY <1>3, <2>5
      <3> QED BY <1>4, <1>5, <1>7, <1>11, <3>1, <3>2, CopiesTidyOne
    <2> QED BY <1>4, <1>6, <2>4, <2>6, <2>7 DEF Tidy
  <1>10. CASE ~Shared(a, off)
    <2>1. /\ b.aligned = Append(a.aligned, whole) /\ b.pages = a.pages + 1
          /\ b.rbw = IF po < a.size THEN Append(a.rbw, whole) ELSE a.rbw
      BY <1>1, <1>4, <1>10 DEF AlignedFor, RbwFor, whole, po
    <2>2. page.r = a.iovcnt + a.pages + 1 /\ page.at = 0
      BY <1>10 DEF page, PageFor, Base
    <2>3. /\ DOMAIN b.aligned = 1..(n + 1) /\ b.aligned[n + 1] = whole /\ Len(b.aligned) = n + 1
          /\ Len(a.rbw) \in Nat /\ DOMAIN a.rbw = 1..Len(a.rbw)
          /\ po < a.size => /\ Len(b.rbw) = Len(a.rbw) + 1 /\ DOMAIN b.rbw = 1..(Len(a.rbw) + 1)
                            /\ b.rbw[Len(a.rbw) + 1] = whole
      BY <1>1, <1>12, <2>1, LongerOne
    <2>4. LastTidy(b, off + len)
      <3>1. Last(b.aligned) = whole
        BY <2>3 DEF Last
      <3>2. ~(page.r <= b.iovcnt)
        BY <1>2, <1>4, <2>2
      <3> QED BY <1>3, <3>1, <3>2 DEF LastTidy
    <2>5. ASSUME NEW i \in 1..m PROVE a.dc[i].page # page
      <3>1. i \in DOMAIN a.dc
        BY <1>12
      <3>2. PICK j \in DOMAIN a.aligned : a.aligned[j].base = a.dc[i].page
        BY <3>1 DEF Fits, CopyFits
      <3>3. a.aligned[j].base.r \in 1..(a.iovcnt + a.pages)
        BY DEF Fits, VecFits
      <3> QED BY <1>2, <2>2, <3>2, <3>3, SMTT(30)
    <2>6. CopiesTidy(b, iovs, off + len)
      <3>1. copy.page.r > a.iovcnt
        BY <1>2, <1>3, <2>2
      <3>2. CopiesTidy(a, iovs, e)
        BY DEF Tidy
      <3>3. \A i \in 1..m : a.dc[i].page = copy.page => a.dc[i].off + a.dc[i].len <= copy.off
        BY <1>3, <2>5
      <3> QED BY <1>4, <1>5, <1>7, <1>11, <3>1, <3>2, <3>3, CopiesTidyOne
    <2>7. PagesTidy(b)
      <3>1. PageUsed(b, whole)
        <4>1. m + 1 \in DOMAIN b.dc /\ b.dc[m + 1].page = whole.base
          BY <1>3, <1>7
        <4>2. whole.off < b.size => \E i \in DOMAIN b.rbw : b.rbw[i] = whole
          <5> SUFFICES ASSUME po < a.size PROVE \E i \in DOMAIN b.rbw : b.rbw[i] = whole
            BY <1>3, <1>4
          <5>1. Len(a.rbw) + 1 \in DOMAIN b.rbw
            BY <2>3
          <5> QED BY <2>3, <5>1
        <4> QED BY <4>1, <4>2 DEF PageUsed
      <3>2. ASSUME NEW i \in (Len(a.rbw) + 1)..Len(b.rbw)
            PROVE  /\ b.rbw[i].base.r > a.iovcnt /\ b.rbw[i].off < a.size
                   /\ \E j \in DOMAIN b.aligned : b.aligned[j] = b.rbw[i]
        <4>1. po < a.size
          BY <2>1, <2>3
        <4>2. i = Len(a.rbw) + 1 /\ b.rbw[i] = whole
          BY <2>3, <4>1
        <4>3. whole.base.r > a.iovcnt
          BY <1>2, <1>3, <2>2
        <4>4. n + 1 \in DOMAIN b.aligned
          BY <1>8, <2>3
        <4> QED BY <1>3, <2>3, <4>1, <4>2, <4>3, <4>4
      <3>3. ASSUME NEW j \in (n + 1)..Len(b.aligned) PROVE b.aligned[j] = whole
        BY <1>8, <2>3
      <3>4. \A j \in (n + 1)..Len(b.aligned) : b.aligned[j].base.r > a.iovcnt => PageUsed(b, b.aligned[j])
        BY <3>1, <3>3
      <3>5. PagesTidy(a)
        BY DEF Tidy
      <3> QED BY <1>1, <1>5, <3>2, <3>4, <3>5, PagesTidyMore
    <2> QED BY <1>4, <1>6, <2>4, <2>6, <2>7 DEF Tidy
  <1> QED BY <1>9, <1>10

------------------------------------------------------------------------------
(***************************************************************************)
(* From a to b by the range of len bytes from off, which is at base.       *)
(***************************************************************************)
Ready(a, iovs) == a \in ArgsType /\ PagedArgs(a) /\ Fits(a, iovs)

Takes(iovs, a, b, off, len, base) ==
    /\ Ready(b, iovs) /\ SameKind(a, b) /\ Keeps(a, b) /\ Covers(b, base, len)
    /\ \A e \in Nat : e <= off /\ Tidy(a, iovs, e) => Tidy(b, iovs, off + len)

(* Nothing takes nothing.                                                  *)
LEMMA TakesNone ==
    ASSUME PageSized, NEW iovs \in Seq(Ranges), NEW a, Ready(a, iovs), NEW off \in Nat, NEW base \in BaseType
    PROVE  Takes(iovs, a, a, off, 0, base)
  <1>1. Keeps(a, a) /\ SameKind(a, a)
    BY DEF Keeps, SameKind
  <1>2. Covers(a, base, 0)
    <2>1. base.at \in Nat
      BY DEF BaseType
    <2>2. \A k \in base.at .. (base.at + 0 - 1) : FALSE
      BY <2>1
    <2> QED BY <2>2 DEF Covers
  <1>3. ASSUME NEW e \in Nat, e <= off, Tidy(a, iovs, e) PROVE Tidy(a, iovs, off)
    BY <1>3, TidyLater DEF Ready
  <1>4. off + 0 = off
    OBVIOUS
  <1> QED BY <1>1, <1>2, <1>3, <1>4 DEF Takes

(* A part of a page.                                                       *)
LEMMA PartialTakes ==
    ASSUME PageSized, NEW iovs \in Seq(Ranges), NEW a, Ready(a, iovs), NEW off \in Nat, NEW len \in Nat,
           NEW base \in BaseType, InPage(off, len), Within(iovs, off, len, base),
           NEW b, b = motr_obj_iovec_partial_page(a, off, len, base)
    PROVE  Takes(iovs, a, b, off, len, base)
  <1>1. CASE len = 0
    <2>1. b = a
      BY <1>1 DEF motr_obj_iovec_partial_page
    <2> QED BY <1>1, <2>1, TakesNone
  <1>2. CASE len # 0
    <2>1. a \in ArgsType /\ PagedArgs(a) /\ Fits(a, iovs) /\ AllPaged(a.aligned) /\ len \in Nat \ {0}
      BY <1>2 DEF Ready, PagedArgs
    <2>2. Fits(b, iovs) /\ Keeps(a, b) /\ Covers(b, base, len)
      BY <2>1, PartialFits
    <2>3. b \in ArgsType /\ PagedArgs(b) /\ SameKind(a, b)
      BY <2>1, PartialGrows DEF Grown, SameKind
    <2>4. ASSUME NEW e \in Nat, e <= off, Tidy(a, iovs, e) PROVE Tidy(b, iovs, off + len)
      BY <2>1, <2>4, PartialTidy
    <2> QED BY <2>2, <2>3, <2>4 DEF Takes, Ready
  <1> QED BY <1>1, <1>2

(* A range of whole pages.                                                 *)
WholePages(off, len) == off % PageSize = 0 /\ len % PageSize = 0

(* Where a part of whole pages is.                                         *)
LEMMA PartWithin ==
    ASSUME NEW iovs \in Seq(Ranges), NEW off \in Nat, NEW len \in Nat, NEW base \in BaseType,
           WholePages(off, len), Within(iovs, off, len, base),
           NEW i \in 1..CeilDiv(len, MaxSizePerOp), NEW v, v = Part(off, len, base, i)
    PROVE  /\ v \in VecType /\ v.base.r = base.r /\ v.base.at = base.at + MaxSizePerOp * (i - 1)
           /\ v.len = IF MaxSizePerOp <= len - MaxSizePerOp * (i - 1)
                      THEN MaxSizePerOp ELSE len - MaxSizePerOp * (i - 1)
           /\ Within(iovs, v.off, v.len, v.base)
  <1> DEFINE k == MaxSizePerOp * (i - 1)
             n == iovs[base.r]
  <1>1. MaxSizePerOp \in Nat \ {0} /\ CeilDiv(len, MaxSizePerOp) \in Nat /\ i - 1 \in Nat
    BY CeilDivIs, VectorsAssumption
  <1>2. k \in Nat /\ (i - 1) * MaxSizePerOp = k
    BY <1>1
  <1>3. v \in VecType /\ v.off = off + k /\ End(v) <= off + len
    BY PartIs DEF WholePages
  <1> HIDE DEF k
  <1>4. v = Iov(off + k, Min({MaxSizePerOp, len - k}), Plus(base, k))
    BY <1>2 DEF Part
  <1>5. Min({MaxSizePerOp, len - k}) = IF MaxSizePerOp <= len - k THEN MaxSizePerOp ELSE len - k
    BY <1>1, <1>2, MinOfTwo
  <1>6. /\ v.len = (IF MaxSizePerOp <= len - k THEN MaxSizePerOp ELSE len - k)
        /\ v.base.r = base.r /\ v.base.at = base.at + k
    BY <1>4, <1>5 DEF Iov, Plus, Base
  <1>7. base.r \in 1..Len(iovs) /\ base.at + len <= n.len /\ off = n.off + base.at /\ base.at \in Nat
    BY DEF Within, BaseType
  <1>8. n.off \in Nat /\ n.len \in Nat
    <2>1. n \in Ranges
      BY <1>7
    <2> QED BY <2>1 DEF Ranges
  <1>9. v.len \in Nat /\ v.off + v.len <= off + len
    BY <1>3 DEF VecType, End
  <1> HIDE DEF n
  <1>10. v.base.at + v.len <= n.len /\ v.off = n.off + v.base.at
    <2>1. k \in Nat /\ v.base.at = base.at + k /\ v.off = off + k
      BY <1>2, <1>3, <1>6
    <2>2. k + v.len <= len
      BY <1>9, <2>1
    <2>3. v.off = n.off + v.base.at
      BY <1>7, <1>8, <2>1
    <2>4. v.base.at + v.len <= base.at + len
      BY <1>7, <1>9, <2>1, <2>2
    <2>5. v.base.at + v.len <= n.len
      <3>1. base.at + len <= n.len /\ base.at \in Nat
        BY <1>7
      <3>2. v.base.at \in Nat
        BY <2>1, <3>1
      <3>3. v.base.at + v.len \in Nat /\ base.at + len \in Nat
        BY <1>9, <3>1, <3>2
      <3>4. \A x, y, z \in Nat : x <= y /\ y <= z => x <= z
        OBVIOUS
      <3> QED BY <1>8, <2>4, <3>1, <3>3, <3>4
    <2> QED BY <2>3, <2>5
  <1> QED BY <1>3, <1>6, <1>7, <1>10 DEF Within, k, n

(* A position of whole pages is in one of the parts.                       *)
LEMMA PartOf ==
    ASSUME NEW len \in Nat, NEW k \in 0..(len - 1), NEW i, i = (k \div MaxSizePerOp) + 1
    PROVE  /\ i \in 1..CeilDiv(len, MaxSizePerOp) /\ MaxSizePerOp * (i - 1) <= k
           /\ k < MaxSizePerOp * (i - 1) + MaxSizePerOp
  <1> DEFINE m == MaxSizePerOp
             n == CeilDiv(len, m)
             q == k \div m
             r == k % m
  <1>1. m \in Nat \ {0} /\ k \in Nat
    BY VectorsAssumption
  <1>2. q \in Nat /\ r \in 0..(m - 1) /\ k = m * q + r
    BY <1>1, Division
  <1>3. n \in Nat /\ m * n >= len
    BY <1>1, CeilDivIs
  <1> HIDE DEF m, n, q, r
  <1>4. m * q \in Nat /\ m * n \in Nat
    BY <1>1, <1>2, <1>3
  <1>5. i = q + 1 /\ i - 1 = q
    BY <1>2 DEF q, m
  <1>6. ASSUME n <= q PROVE FALSE
    <2>1. n < q => m * n + m <= m * q
      BY <1>1, <1>2, <1>3, Products
    <2>2. n = q => m * n = m * q
      OBVIOUS
    <2>3. m * n <= m * q
      BY <1>1, <1>2, <1>3, <1>4, <1>6, <2>1, <2>2
    <2> QED BY <1>1, <1>2, <1>3, <1>4, <2>3
  <1>7. i \in 1..n
    BY <1>2, <1>3, <1>5, <1>6
  <1>8. m * q <= k /\ k < m * q + m
    BY <1>1, <1>2, <1>4
  <1> QED BY <1>5, <1>7, <1>8 DEF m, n

(* Whole pages.                                                            *)
LEMMA CloneTakes ==
    ASSUME PageSized, NEW iovs \in Seq(Ranges), NEW a, Ready(a, iovs), NEW off \in Nat, NEW len \in Nat,
           NEW base \in BaseType, WholePages(off, len), Within(iovs, off, len, base),
           NEW b, b = motr_obj_iovec_clone(a, off, len, base)
    PROVE  Takes(iovs, a, b, off, len, base)
  <1> DEFINE n == Len(a.aligned)
             c == CeilDiv(len, MaxSizePerOp)
             Q(i) == Part(off, len, base, i)
  <1>1. a \in ArgsType /\ PagedArgs(a) /\ Fits(a, iovs) /\ AllPaged(a.aligned)
    BY DEF Ready, PagedArgs
  <1>2. b \in ArgsType /\ PagedArgs(b) /\ SameKind(a, b)
    BY <1>1, CloneGrows DEF Grown, SameKind
  <1>3. b.aligned = With(a.aligned, off, len, base) /\ b.rbw = a.rbw /\ b.dc = a.dc /\ b.pages = a.pages
    BY <1>1 DEF motr_obj_iovec_clone, With, Parts, Part, ArgsType, WholePages
  <1>4. /\ a.aligned \in Seq(VecType) /\ n \in Nat /\ DOMAIN a.aligned = 1..n
        /\ a.dc \in Seq(CopyType) /\ a.rbw \in Seq(VecType)
        /\ a.pages \in Nat /\ a.iovcnt \in Nat /\ b.iovcnt = a.iovcnt /\ a.iovcnt = Len(iovs)
    BY <1>1, <1>2 DEF ArgsType, SameKind, Fits
  <1>5. /\ c \in Nat /\ Len(b.aligned) = n + c /\ \A i \in 1..n : b.aligned[i] = a.aligned[i]
        /\ \A i \in 1..c : b.aligned[n + i] = Q(i)
    <2> DEFINE s == a.aligned
               t == With(s, off, len, base)
    <2>1. s \in Seq(VecType) /\ off % PageSize = 0 /\ len % PageSize = 0
      BY <1>4 DEF WholePages
    <2> HIDE DEF s
    <2>2. /\ c \in Nat /\ Len(t) = Len(s) + c /\ \A i \in 1..Len(s) : t[i] = s[i]
          /\ \A i \in 1..c : t[Len(s) + i] = Q(i)
      BY <2>1, PartsMore, ZenonT(60)
    <2>3. b.aligned = t
      BY <1>3 DEF s
    <2> HIDE DEF t, c, Q
    <2> QED BY <2>2, <2>3 DEF s
  <1>6. DOMAIN b.aligned = 1..(n + c)
    BY <1>2, <1>5 DEF ArgsType
  <1>7. ASSUME NEW i \in 1..c
        PROVE  /\ Q(i) \in VecType /\ Q(i).base.r = base.r
               /\ Q(i).base.at = base.at + MaxSizePerOp * (i - 1)
               /\ Q(i).len = IF MaxSizePerOp <= len - MaxSizePerOp * (i - 1)
                             THEN MaxSizePerOp ELSE len - MaxSizePerOp * (i - 1)
               /\ Within(iovs, Q(i).off, Q(i).len, Q(i).base)
               /\ i = c => End(Q(i)) = off + len
    BY PartWithin, PartIs DEF WholePages
  <1>8. base.r \in 1..Len(iovs) /\ base.at \in Nat
    BY DEF Within, BaseType
  <1> HIDE DEF n, c, Q
  <1>9. Longer(a.aligned, b.aligned) /\ Longer(a.dc, b.dc) /\ Longer(a.rbw, b.rbw)
    <2>1. n <= n + c /\ Len(a.dc) \in Nat /\ Len(a.rbw) \in Nat
      BY <1>4, <1>5
    <2> QED BY <1>3, <1>5, <2>1 DEF Longer, n
  <1>10. ASSUME NEW i \in 1..c PROVE VecFits(b, iovs, Q(i)) /\ Q(i).base.r <= a.iovcnt
    <2>1. Q(i).base.r \in 1..(b.iovcnt + b.pages) /\ Q(i).base.r <= b.iovcnt /\ ~(Q(i).base.r > b.iovcnt)
      BY <1>3, <1>4, <1>7, <1>8
    <2>2. Q(i).off \in Nat /\ Q(i).len \in Nat /\ Q(i).base \in BaseType
      BY <1>7 DEF VecType
    <2>3. \A k \in BytesOf(Q(i)) : k \div PageSize \in Pages(iovs)
      BY <1>7, <2>2, PagesWithin DEF BytesOf
    <2> QED BY <1>4, <1>7, <2>1, <2>3 DEF VecFits
  <1>11. Fits(b, iovs)
    <2>1. ASSUME NEW i \in (n + 1)..Len(b.aligned)
          PROVE  /\ VecFits(b, iovs, b.aligned[i])
                 /\ b.aligned[i].base.r > a.iovcnt =>
                      \A j \in DOMAIN b.aligned : b.aligned[j].base.r = b.aligned[i].base.r => j = i
      <3>1. i - n \in 1..c /\ n + (i - n) = i
        BY <1>4, <1>5
      <3>2. b.aligned[i] = Q(i - n)
        BY <1>5, <3>1
      <3>3. VecFits(b, iovs, b.aligned[i]) /\ b.aligned[i].base.r <= a.iovcnt /\ b.aligned[i] \in VecType
        BY <1>7, <1>10, <3>1, <3>2
      <3>4. b.aligned[i].base.r \in Nat
        BY <3>3 DEF VecType, BaseType
      <3>5. ~(b.aligned[i].base.r > a.iovcnt)
        BY <1>4, <3>3, <3>4
      <3> QED BY <3>3, <3>5
    <2>2. \A i \in (Len(a.dc) + 1)..Len(b.dc) : CopyFits(b, iovs, b.dc[i])
      <3>1. Len(a.dc) \in Nat /\ Len(b.dc) = Len(a.dc)
        BY <1>3, <1>4
      <3>2. \A i \in (Len(a.dc) + 1)..Len(b.dc) : FALSE
        BY <3>1
      <3> QED BY <3>2
    <2>3. a.pages <= b.pages
      BY <1>3, <1>4
    <2> QED BY <1>1, <1>2, <1>4, <1>9, <2>1, <2>2, <2>3, FitsMore DEF n
  <1>12. Keeps(a, b)
    BY <1>1, <1>2, <1>9, LongerKeeps
  <1>13. Covers(b, base, len)
    <2> SUFFICES ASSUME NEW k \in base.at .. (base.at + len - 1) PROVE Covered(b, base.r, k)
      BY DEF Covers
    <2> DEFINE x == k - base.at
               i == (x \div MaxSizePerOp) + 1
               y == MaxSizePerOp * (i - 1)
    <2>1. x \in 0..(len - 1) /\ k = base.at + x /\ MaxSizePerOp \in Nat \ {0}
      BY <1>8, VectorsAssumption
    <2> HIDE DEF x
    <2>2. i \in 1..c /\ y <= x /\ x < y + MaxSizePerOp
      BY <2>1, PartOf DEF c
    <2>3. n + i \in DOMAIN b.aligned /\ b.aligned[n + i] = Q(i)
      <3> HIDE DEF i
      <3> QED BY <1>4, <1>5, <1>6, <2>2, SMTT(30)
    <2>4. y \in Nat
      <3> HIDE DEF i
      <3>1. i - 1 \in Nat
        BY <1>5, <2>2
      <3> QED BY <2>1, <3>1
    <2>5. /\ Q(i).base.r = base.r /\ Q(i).base.at = base.at + y
          /\ Q(i).len = IF MaxSizePerOp <= len - y THEN MaxSizePerOp ELSE len - y
      BY <1>7, <2>2
    <2> HIDE DEF i, y
    <2>6. InVector(Q(i), base.r, k)
      BY <1>8, <2>1, <2>2, <2>4, <2>5, SMTT(30) DEF InVector
    <2> QED BY <2>3, <2>6 DEF Covered
  <1>14. ASSUME NEW e \in Nat, e <= off, Tidy(a, iovs, e) PROVE Tidy(b, iovs, off + len)
    <2>1. InOrder(b, off + len)
      <3>1. Advances(a, b, off, off + len, c, 0)
        BY <1>1, CloneAdvances DEF c, WholePages
      <3> QED BY <1>1, <1>14, <3>1 DEF Advances, Tidy
    <2>2. e <= off + len /\ off + len \in Nat
      BY <1>14
    <2>3. Tidy(a, iovs, off + len)
      BY <1>1, <1>14, <2>2, TidyLater
    <2>4. b.is_write /\ CopiesTidy(b, iovs, off + len)
      BY <1>2, <1>3, <1>4, <2>3 DEF Tidy, CopiesTidy, SameKind
    <2>5. ASSUME NEW i \in 1..c PROVE b.aligned[n + i].base.r <= b.iovcnt /\ b.aligned[n + i].base.r \in Nat
      <3>1. Q(i).base.r = base.r /\ Q(i).base.r <= a.iovcnt
        BY <1>7, <1>10
      <3>2. b.aligned[n + i] = Q(i)
        BY <1>5
      <3> QED BY <1>4, <1>8, <3>1, <3>2
    <2>6. PagesTidy(b)
      <3>1. Len(a.rbw) \in Nat /\ Len(b.rbw) = Len(a.rbw) /\ PagesTidy(a)
        BY <1>3, <1>4, <2>3 DEF Tidy
      <3>2. \A i \in (Len(a.rbw) + 1)..Len(b.rbw) : FALSE
        BY <3>1
      <3>3. ASSUME NEW j \in (n + 1)..Len(b.aligned) PROVE ~(b.aligned[j].base.r > a.iovcnt)
        <4>1. j - n \in 1..c /\ n + (j - n) = j
          BY <1>4, <1>5
        <4>2. b.aligned[j].base.r <= b.iovcnt /\ b.aligned[j].base.r \in Nat
          BY <2>5, <4>1
        <4> QED BY <1>4, <4>2
      <3> QED BY <1>1, <1>2, <1>9, <3>1, <3>2, <3>3, PagesTidyMore DEF n
    <2>7. LastTidy(b, off + len)
      <3>1. CASE c = 0
        <4> SUFFICES ASSUME b.aligned # <<>>, Last(b.aligned).base.r <= b.iovcnt
                     PROVE  End(Last(b.aligned)) <= off + len
          BY DEF LastTidy
        <4>1. n \in 1..n /\ Len(b.aligned) = n
          BY <1>2, <1>4, <1>5, <3>1 DEF ArgsType
        <4>2. Last(b.aligned) = Last(a.aligned) /\ a.aligned # <<>>
          BY <1>4, <1>5, <4>1 DEF Last, n
        <4> QED BY <1>4, <2>3, <4>2 DEF Tidy, LastTidy
      <3>2. CASE c # 0
        <4>1. c \in 1..c
          BY <1>5, <3>2
        <4>2. Last(b.aligned) = Q(c)
          BY <1>5, <4>1 DEF Last
        <4>3. End(Q(c)) = off + len
          BY <1>7, <4>1
        <4> QED BY <2>2, <4>2, <4>3 DEF LastTidy
      <3> QED BY <3>1, <3>2
    <2> QED BY <2>1, <2>4, <2>6, <2>7 DEF Tidy
  <1> QED BY <1>2, <1>11, <1>12, <1>13, <1>14 DEF Takes, Ready

(* A range and then the next one.                                          *)
LEMMA TakesTwice ==
    ASSUME NEW iovs \in Seq(Ranges), NEW a, NEW b, NEW c, NEW off \in Nat, NEW x \in Nat, NEW y \in Nat, x <= y,
           NEW base \in BaseType,
           Takes(iovs, a, b, off, x, base), Takes(iovs, b, c, off + x, y - x, Plus(base, x))
    PROVE  Takes(iovs, a, c, off, y, base)
  <1>1. off + x \in Nat /\ (off + x) + (y - x) = off + y
    OBVIOUS
  <1>2. Keeps(a, c) /\ SameKind(a, c) /\ Ready(c, iovs)
    BY DEF Takes, Keeps, SameKind
  <1>3. ASSUME NEW e \in Nat, e <= off, Tidy(a, iovs, e) PROVE Tidy(c, iovs, off + y)
    <2>1. Tidy(b, iovs, off + x) /\ off + x <= off + x
      BY <1>1, <1>3 DEF Takes
    <2>2. Tidy(c, iovs, (off + x) + (y - x))
      BY <1>1, <2>1 DEF Takes
    <2> QED BY <1>1, <2>2
  <1>4. Covers(c, base, y)
    <2> SUFFICES ASSUME NEW k \in base.at .. (base.at + y - 1) PROVE Covered(c, base.r, k)
      BY DEF Covers
    <2>1. base.at \in Nat /\ base.r \in Nat /\ k \in Nat
      BY DEF BaseType
    <2>2. CASE k < base.at + x
      <3>1. k \in base.at .. (base.at + x - 1)
        BY <2>1, <2>2
      <3>2. Covered(b, base.r, k)
        BY <3>1 DEF Takes, Covers
      <3> QED BY <2>1, <3>2 DEF Takes, Keeps
    <2>3. CASE k >= base.at + x
      <3>1. k \in (base.at + x) .. ((base.at + x) + (y - x) - 1)
        BY <2>1, <2>3
      <3>2. Plus(base, x).r = base.r /\ Plus(base, x).at = base.at + x
        BY DEF Plus, Base
      <3> QED BY <3>1, <3>2 DEF Takes, Covers
    <2> QED BY <2>1, <2>2, <2>3
  <1> QED BY <1>2, <1>3, <1>4 DEF Takes

(* A part of a range is where the range is.                                *)
LEMMA PlusWithin ==
    ASSUME NEW iovs \in Seq(Ranges), NEW v \in VecType, Within(iovs, v.off, v.len, v.base),
           NEW x \in Nat, NEW y \in Nat, x <= y, y <= v.len
    PROVE  Within(iovs, v.off + x, y - x, Plus(v.base, x))
  <1> DEFINE n == iovs[v.base.r]
  <1>1. v.off \in Nat /\ v.len \in Nat /\ v.base.at \in Nat
    BY DEF VecType, BaseType
  <1>2. /\ v.base.r \in 1..Len(iovs) /\ v.base.at + v.len <= n.len /\ v.off = n.off + v.base.at
    BY DEF Within
  <1>3. n.off \in Nat /\ n.len \in Nat
    <2>1. n \in Ranges
      BY <1>2
    <2> QED BY <2>1 DEF Ranges
  <1>4. Plus(v.base, x).r = v.base.r /\ Plus(v.base, x).at = v.base.at + x
    BY DEF Plus, Base
  <1> HIDE DEF n
  <1>5. (v.base.at + x) + (y - x) <= n.len /\ v.off + x = n.off + (v.base.at + x)
    <2>2. v.base.at + v.len <= n.len /\ v.off = n.off + v.base.at
      BY <1>2
    <2>3. v.off + x = n.off + (v.base.at + x)
      BY <1>1, <1>3, <2>2
    <2>4. (v.base.at + x) + (y - x) = v.base.at + y
      BY <1>1
    <2>5. v.base.at + y <= v.base.at + v.len
      BY <1>1
    <2>6. v.base.at + y <= n.len
      BY <1>1, <1>3, <2>2, <2>5
    <2> QED BY <2>3, <2>4, <2>6
  <1> QED BY <1>2, <1>4, <1>5 DEF Within, n

(* One vector.                                                             *)
LEMMA AdjustTakes ==
    ASSUME PageSized, NEW iovs \in Seq(Ranges), NEW a, Ready(a, iovs), NEW v \in VecType,
           Within(iovs, v.off, v.len, v.base)
    PROVE  Takes(iovs, a, AdjustOne(a, v), v.off, v.len, v.base)
  <1> DEFINE b == AdjustOne(a, v)
  <1>0. a \in ArgsType
    BY DEF Ready
  <1>1. PICK x, y, a1, a2 : FirstCut(a, a1, v, x) /\ MiddleCut(a1, a2, v, x, y) /\ LastCut(a2, b, v, y)
    BY <1>0, AdjustCuts DEF Cut
  <1>2. x \in Nat /\ y \in Nat /\ x <= y /\ y <= v.len
    BY <1>1 DEF FirstCut, MiddleCut, LastCut
  <1> HIDE DEF b
  <1>3. /\ v.off \in Nat /\ v.len \in Nat /\ v.base \in BaseType
        /\ v.off + x \in Nat /\ v.off + y \in Nat /\ y - x \in Nat /\ v.len - y \in Nat
        /\ Plus(v.base, x) \in BaseType /\ Plus(v.base, y) \in BaseType
    BY <1>2, CutNumbers
  <1>4. Takes(iovs, a, a1, v.off, x, v.base)
    <2>1. Within(iovs, v.off + 0, x - 0, Plus(v.base, 0))
      <3>1. 0 \in Nat /\ 0 <= x /\ x <= v.len
        BY <1>2, <1>3
      <3> QED BY <1>2, <3>1, PlusWithin
    <2>2. v.off + 0 = v.off /\ x - 0 = x
      BY <1>2, <1>3
    <2>3. Plus(v.base, 0) = v.base
      BY <1>3 DEF Plus, Base, BaseType
    <2>4. Within(iovs, v.off, x, v.base)
      BY <2>1, <2>2, <2>3
    <2> QED BY <1>1, <1>2, <1>3, <2>4, PartialTakes DEF FirstCut
  <1>5. Ready(a1, iovs)
    BY <1>4 DEF Takes
  <1>6. Takes(iovs, a1, a2, v.off + x, y - x, Plus(v.base, x))
    <2>1. CASE x = y /\ a2 = a1
      <3>1. y - x = 0
        BY <1>2, <2>1
      <3> QED BY <1>3, <1>5, <2>1, <3>1, TakesNone
    <2>2. CASE ~(x = y /\ a2 = a1)
      <3>1. /\ WholePages(v.off + x, y - x)
            /\ a2 = motr_obj_iovec_clone(a1, v.off + x, y - x, Plus(v.base, x))
        BY <1>1, <2>2 DEF MiddleCut, WholePages
      <3>2. Within(iovs, v.off + x, y - x, Plus(v.base, x))
        BY <1>2, PlusWithin
      <3> QED BY <1>3, <1>5, <3>1, <3>2, CloneTakes
    <2> QED BY <2>1, <2>2
  <1>7. Ready(a2, iovs)
    BY <1>6 DEF Takes
  <1>8. Takes(iovs, a2, b, v.off + y, v.len - y, Plus(v.base, y))
    <2>1. Within(iovs, v.off + y, v.len - y, Plus(v.base, y))
      <3>1. v.len <= v.len
        BY <1>3
      <3> QED BY <1>2, <1>3, <3>1, PlusWithin
    <2> QED BY <1>1, <1>3, <1>7, <2>1, PartialTakes DEF LastCut
  <1>9. Takes(iovs, a, a2, v.off, y, v.base)
    BY <1>2, <1>3, <1>4, <1>6, TakesTwice
  <1>10. Takes(iovs, a, b, v.off, v.len, v.base)
    BY <1>2, <1>3, <1>8, <1>9, TakesTwice
  <1> QED BY <1>10 DEF b

(* All vectors, one after another.                                         *)
LEMMA AdjustAll ==
    ASSUME PageSized, NEW iovs \in Seq(Ranges), NEW a, Ready(a, iovs), NEW s \in Seq(VecType),
           \A k \in 1..Len(s) : Within(iovs, s[k].off, s[k].len, s[k].base),
           NEW b, b = motr_obj_iovec_adjust(a, s)
    PROVE  /\ Ready(b, iovs) /\ SameKind(a, b) /\ \A k \in 1..Len(s) : Covers(b, s[k].base, s[k].len)
           /\ Tidy(a, iovs, 0) /\ ~Overlapping(s) => \E e \in Nat : Tidy(b, iovs, e)
  <1> DEFINE n == Len(s)
             e(k) == IF k = 0 THEN 0 ELSE End(s[k])
  <1>1. /\ n \in Nat /\ n \in 0..n
        /\ \A k \in 1..n : /\ s[k] \in VecType /\ End(s[k]) \in Nat /\ s[k].off \in Nat /\ s[k].len \in Nat
                           /\ s[k].base \in BaseType
    <2>1. n \in Nat /\ n \in 0..n /\ \A k \in 1..n : s[k] \in VecType
      OBVIOUS
    <2>2. \A v \in VecType : v.off \in Nat /\ v.len \in Nat /\ End(v) \in Nat /\ v.base \in BaseType
      BY DEF VecType, End
    <2> QED BY <2>1, <2>2
  <1>2. a \in ArgsType
    BY DEF Ready
  <1>3. PICK run \in [0..n -> ArgsType] :
             /\ run[0] = a /\ run[n] = b
             /\ \A k \in 1..n : run[k] = AdjustOne(run[k - 1], s[k])
    BY <1>2, AdjustRun
  <1> DEFINE C(k) == \A j \in 1..k : Covers(run[k], s[j].base, s[j].len)
             D(k) == Tidy(a, iovs, 0) /\ ~Overlapping(s) => Tidy(run[k], iovs, e(k))
             T == {k \in 0..n : Ready(run[k], iovs) /\ SameKind(a, run[k]) /\ C(k) /\ D(k)}
  <1>4. 0 \in T
    BY <1>1, <1>3 DEF SameKind
  <1>5. ASSUME NEW k \in 0..(n - 1), k \in T PROVE k + 1 \in T
    <2> DEFINE v == s[k + 1]
    <2>1. k + 1 \in 1..n /\ k \in 0..n /\ k \in Nat /\ (k + 1) - 1 = k /\ k + 1 \in 0..n
      BY <1>1
    <2>2. run[k + 1] = AdjustOne(run[k], v)
      BY <1>3, <2>1
    <2>3. v \in VecType /\ Within(iovs, v.off, v.len, v.base) /\ v.off \in Nat
      BY <1>1, <2>1
    <2>4. Ready(run[k], iovs) /\ SameKind(a, run[k]) /\ C(k) /\ D(k)
      BY <1>5
    <2> HIDE DEF C, D, T
    <2>5. Takes(iovs, run[k], run[k + 1], v.off, v.len, v.base)
      BY <2>2, <2>3, <2>4, AdjustTakes
    <2>6. Ready(run[k + 1], iovs) /\ SameKind(a, run[k + 1])
      BY <2>4, <2>5 DEF Takes, SameKind
    <2>7. C(k + 1)
      <3> SUFFICES ASSUME NEW j \in 1..(k + 1) PROVE Covers(run[k + 1], s[j].base, s[j].len)
        BY DEF C
      <3>1. CASE j = k + 1
        BY <2>5, <3>1 DEF Takes
      <3>2. CASE j # k + 1
        <4>1. j \in 1..k /\ s[j].base \in BaseType /\ s[j].len \in Nat
          BY <1>1, <2>1, <3>2
        <4>2. Covers(run[k], s[j].base, s[j].len) /\ Keeps(run[k], run[k + 1])
          BY <2>4, <2>5, <4>1 DEF C, Takes
        <4>3. ASSUME NEW i \in s[j].base.at .. (s[j].base.at + s[j].len - 1) PROVE i \in Nat
          BY <4>1 DEF BaseType
        <4>4. s[j].base.r \in Nat
          BY <4>1 DEF BaseType
        <4> QED BY <4>2, <4>3, <4>4 DEF Covers, Keeps
      <3> QED BY <3>1, <3>2
    <2>8. D(k + 1)
      <3> SUFFICES ASSUME Tidy(a, iovs, 0), ~Overlapping(s) PROVE Tidy(run[k + 1], iovs, e(k + 1))
        BY DEF D
      <3>1. e(k) \in Nat /\ e(k) <= v.off
        <4>1. CASE k = 0
          BY <2>1, <2>3, <4>1
        <4>2. CASE k # 0
          <5>1. k \in 1..n /\ k + 1 \in 2..n /\ (k + 1) - 1 = k
            BY <1>1, <2>1, <4>2
          <5>2. ~(s[k + 1].off < End(s[k]))
            BY <5>1 DEF Overlapping, End
          <5>3. s[k + 1].off \in Nat /\ End(s[k]) \in Nat
            BY <1>1, <2>1, <5>1
          <5> QED BY <4>2, <5>2, <5>3
        <4> QED BY <4>1, <4>2
      <3>2. Tidy(run[k], iovs, e(k))
        BY <2>4 DEF D
      <3>3. e(k + 1) = v.off + v.len
        BY <2>1 DEF End
      <3> HIDE DEF e
      <3> QED BY <2>5, <3>1, <3>2, <3>3 DEF Takes
    <2> QED BY <2>1, <2>6, <2>7, <2>8 DEF T
  <1>6. 0..n \subseteq T
    <2> HIDE DEF T
    <2> QED BY <1>1, <1>4, <1>5, Induct
  <1>7. Ready(b, iovs) /\ SameKind(a, b) /\ C(n) /\ D(n)
    BY <1>1, <1>3, <1>6
  <1>8. e(n) \in Nat
    BY <1>1
  <1> QED BY <1>3, <1>7, <1>8

(* Every byte of the buffers is in the lists.                              *)
AllCovered(a, iovs) ==
    \A n \in 1..Len(iovs) : \A k \in 0..(iovs[n].len - 1) : Covered(a, n, k)

(* The args of a call.                                                     *)
LEMMA AdjustedHolds ==
    ASSUME PageSized, moa_size \in Nat, NEW w \in BOOLEAN, NEW iovs \in Seq(Ranges),
           NEW b, b = Adjusted(w, iovs)
    PROVE  /\ Ready(b, iovs) /\ b.size = moa_size /\ b.is_write = w /\ AllCovered(b, iovs)
           /\ w /\ ~Overlapping(motr_obj_iovec_sort(WithBuffers(iovs))) => \E e \in Nat : Tidy(b, iovs, e)
  <1> DEFINE a == motr_obj_rw_args_alloc(w, moa_size, Len(iovs))
             t == WithBuffers(iovs)
             s == motr_obj_iovec_sort(t)
  <1>1. a = [is_write |-> w, size |-> moa_size, iovcnt |-> Len(iovs),
             aligned |-> <<>>, rbw |-> <<>>, dc |-> <<>>, pages |-> 0]
    BY DEF motr_obj_rw_args_alloc
  <1>2. a \in ArgsType /\ a.is_write = w /\ a.iovcnt = Len(iovs) /\ a.size = moa_size
    BY <1>1 DEF ArgsType
  <1>3. DOMAIN a.aligned = {} /\ DOMAIN a.rbw = {} /\ DOMAIN a.dc = {} /\ a.aligned = <<>>
    BY <1>1
  <1>4. b = motr_obj_iovec_adjust(a, s)
    BY DEF Adjusted
  <1> HIDE DEF a
  <1>5. Ready(a, iovs)
    BY <1>2, <1>3 DEF Ready, Fits, OwnPages, PagedArgs, AllPaged
  <1>6. w => Tidy(a, iovs, 0)
    BY <1>2, <1>3 DEF Tidy, InOrder, Ordered, LastTidy, CopiesTidy, PagesTidy
  <1>7. t \in Seq(VecType) /\ Len(t) = Len(iovs)
    BY BuffersKeep
  <1>8. ASSUME NEW k \in 1..Len(iovs)
        PROVE  t[k].base.r = k /\ t[k].base.at = 0 /\ t[k].len = iovs[k].len /\ t[k].off = iovs[k].off
    BY DEF WithBuffers, Iov, Base
  <1>9. ASSUME NEW k \in 1..Len(iovs) PROVE Within(iovs, t[k].off, t[k].len, t[k].base)
    <2>1. iovs[k] \in Ranges
      OBVIOUS
    <2>2. iovs[k].off \in Nat /\ iovs[k].len \in Nat
      BY <2>1 DEF Ranges
    <2> HIDE DEF t
    <2> QED BY <1>8, <2>2 DEF Within
  <1> HIDE DEF t
  <1>10. s \in Seq(VecType) /\ Len(s) = Len(iovs) /\ Range(s) = Range(t)
    BY <1>7, SortKeeps
  <1> HIDE DEF s
  <1>11. /\ DOMAIN t = 1..Len(iovs) /\ DOMAIN s = 1..Len(iovs)
    BY <1>7, <1>10
  <1>12. /\ \A k \in 1..Len(iovs) : \E j \in 1..Len(iovs) : s[k] = t[j]
         /\ \A k \in 1..Len(iovs) : \E j \in 1..Len(iovs) : t[k] = s[j]
    <2>1. Range(t) = {t[k] : k \in 1..Len(iovs)} /\ Range(s) = {s[k] : k \in 1..Len(iovs)}
      BY <1>11 DEF Range
    <2> QED BY <1>10, <2>1
  <1>13. \A k \in 1..Len(s) : Within(iovs, s[k].off, s[k].len, s[k].base)
    BY <1>9, <1>10, <1>12
  <1>14. /\ Ready(b, iovs) /\ SameKind(a, b) /\ \A k \in 1..Len(s) : Covers(b, s[k].base, s[k].len)
         /\ Tidy(a, iovs, 0) /\ ~Overlapping(s) => \E e \in Nat : Tidy(b, iovs, e)
    BY <1>4, <1>5, <1>10, <1>13, AdjustAll
  <1>15. AllCovered(b, iovs)
    <2> SUFFICES ASSUME NEW n \in 1..Len(iovs), NEW k \in 0..(iovs[n].len - 1) PROVE Covered(b, n, k)
      BY DEF AllCovered
    <2>1. PICK j \in 1..Len(iovs) : t[n] = s[j]
      BY <1>12
    <2>2. Covers(b, t[n].base, t[n].len)
      BY <1>10, <1>14, <2>1
    <2>3. t[n].base.r = n /\ t[n].base.at = 0 /\ t[n].len = iovs[n].len
      BY <1>8
    <2>4. iovs[n] \in Ranges
      OBVIOUS
    <2>5. k \in 0 .. (0 + iovs[n].len - 1)
      BY <2>4 DEF Ranges
    <2> QED BY <2>2, <2>3, <2>5 DEF Covers
  <1> QED BY <1>2, <1>6, <1>14, <1>15 DEF SameKind, s, t

------------------------------------------------------------------------------
(***************************************************************************)
(* The memory of a call.  A shape has the positions of each region.        *)
(***************************************************************************)
IsShape(S) == \A r \in DOMAIN S : S[r] \in SUBSET Nat

Shaped(m, S) == /\ m = [r \in DOMAIN S |-> m[r]]
                /\ \A r \in DOMAIN S : m[r] = [k \in S[r] |-> m[r][k]]

Inside(S, base, len) ==
    base.r \in DOMAIN S /\ base.at \in Nat /\ \A x \in 0..(len - 1) : base.at + x \in S[base.r]

Memories(S, B) ==
    {m \in [DOMAIN S -> UNION {[S[r] -> B] : r \in DOMAIN S}] : \A r \in DOMAIN S : m[r] \in [S[r] -> B]}

(* Memory of a shape has some bytes; such memory has the shape.            *)
LEMMA MemoriesAre ==
    ASSUME NEW S
    PROVE  /\ \A m : Shaped(m, S) => \E B : m \in Memories(S, B)
           /\ \A B : \A m \in Memories(S, B) : Shaped(m, S)
  <1>1. ASSUME NEW m, Shaped(m, S) PROVE \E B : m \in Memories(S, B)
    <2> DEFINE B == UNION {{m[r][k] : k \in S[r]} : r \in DOMAIN S}
    <2>1. ASSUME NEW r \in DOMAIN S PROVE m[r] \in [S[r] -> B]
      BY <1>1 DEF Shaped
    <2> HIDE DEF B
    <2>2. m \in [DOMAIN S -> UNION {[S[r] -> B] : r \in DOMAIN S}]
      BY <1>1, <2>1 DEF Shaped
    <2> QED BY <2>1, <2>2 DEF Memories
  <1>2. ASSUME NEW B, NEW m \in Memories(S, B) PROVE Shaped(m, S)
    BY DEF Memories, Shaped
  <1> QED BY <1>1, <1>2

(* From m to b, len bytes are copied from src to dst.                      *)
Copied(S, m, b, dst, src, len) ==
    /\ Shaped(b, S)
    /\ \A x \in 0..(len - 1) : b[dst.r][dst.at + x] = m[src.r][src.at + x]
    /\ \A r \in DOMAIN S : \A k \in S[r] :
         \/ b[r][k] = m[r][k]
         \/ r = dst.r /\ \E x \in 0..(len - 1) : k = dst.at + x
    /\ \A B : m \in Memories(S, B) => b \in Memories(S, B)

(* What mio_mem_copy does.                                                 *)
LEMMA CopyOne ==
    ASSUME NEW S, IsShape(S), NEW m, Shaped(m, S), NEW dst, NEW src, NEW len \in Nat,
           Inside(S, dst, len), Inside(S, src, len)
    PROVE  Copied(S, m, mio_mem_copy(m, dst, src, len), dst, src, len)
  <1> DEFINE row == [k \in S[dst.r] |-> IF k \in dst.at .. (dst.at + len - 1)
                                        THEN m[src.r][src.at + k - dst.at] ELSE m[dst.r][k]]
             b == mio_mem_copy(m, dst, src, len)
  <1>1. /\ m = [r \in DOMAIN S |-> m[r]] /\ DOMAIN m = DOMAIN S
        /\ \A r \in DOMAIN S : m[r] = [k \in S[r] |-> m[r][k]] /\ DOMAIN m[r] = S[r] /\ S[r] \in SUBSET Nat
    BY DEF Shaped, IsShape
  <1>2. /\ dst.r \in DOMAIN S /\ dst.at \in Nat /\ \A x \in 0..(len - 1) : dst.at + x \in S[dst.r]
        /\ src.r \in DOMAIN S /\ src.at \in Nat /\ \A x \in 0..(len - 1) : src.at + x \in S[src.r]
    BY DEF Inside
  <1>3. b = [m EXCEPT ![dst.r] = row]
    BY <1>1, <1>2 DEF mio_mem_copy
  <1> HIDE DEF b
  <1>4. /\ b = [r \in DOMAIN S |-> b[r]] /\ b[dst.r] = row
        /\ \A r \in DOMAIN S : r # dst.r => b[r] = m[r]
    BY <1>1, <1>2, <1>3
  <1>5. ASSUME NEW x \in 0..(len - 1)
        PROVE  row[dst.at + x] = m[src.r][src.at + x] /\ dst.at + x \in S[dst.r]
    <2>1. /\ dst.at + x \in S[dst.r] /\ dst.at + x \in dst.at .. (dst.at + len - 1)
          /\ src.at + (dst.at + x) - dst.at = src.at + x
      BY <1>2
    <2> QED BY <2>1
  <1>6. ASSUME NEW k \in S[dst.r]
        PROVE  row[k] = m[dst.r][k] \/ \E x \in 0..(len - 1) : k = dst.at + x
    <2>1. CASE k \in dst.at .. (dst.at + len - 1)
      <3>1. k - dst.at \in 0..(len - 1) /\ k = dst.at + (k - dst.at)
        BY <1>1, <1>2, <2>1
      <3> QED BY <3>1
    <2>2. CASE k \notin dst.at .. (dst.at + len - 1)
      BY <2>2
    <2> QED BY <2>1, <2>2
  <1>7. row = [k \in S[dst.r] |-> row[k]]
    OBVIOUS
  <1>8. ASSUME NEW B, m \in Memories(S, B) PROVE b \in Memories(S, B)
    <2>1. \A r \in DOMAIN S : \A k \in S[r] : m[r][k] \in B
      BY <1>8 DEF Memories
    <2>2. ASSUME NEW k \in S[dst.r] PROVE row[k] \in B
      <3>1. CASE row[k] = m[dst.r][k]
        BY <1>2, <2>1, <3>1
      <3>2. CASE \E x \in 0..(len - 1) : k = dst.at + x
        BY <1>2, <1>5, <2>1, <3>2
      <3> QED BY <1>6, <3>1, <3>2
    <2>3. row \in [S[dst.r] -> B]
      BY <1>7, <2>2
    <2>4. \A r \in DOMAIN S : b[r] \in [S[r] -> B]
      BY <1>4, <1>8, <2>3 DEF Memories
    <2> QED BY <1>4, <2>4 DEF Memories
  <1> HIDE DEF row
  <1>9. Shaped(b, S)
    BY <1>1, <1>4, <1>7 DEF Shaped
  <1>10. \A r \in DOMAIN S : \A k \in S[r] :
                \/ b[r][k] = m[r][k]
                \/ r = dst.r /\ \E x \in 0..(len - 1) : k = dst.at + x
    BY <1>4, <1>6
  <1> QED BY <1>4, <1>5, <1>8, <1>9, <1>10 DEF Copied, b

(* Where motr_obj_data_copy copies from, and to.                           *)
Source(w, c) == IF w THEN c.app ELSE Plus(c.page, c.off)
Target(w, c) == IF w THEN Plus(c.page, c.off) ELSE c.app

CopyStep(w, m, c) == IF w THEN mio_mem_copy(m, Plus(c.page, c.off), c.app, c.len)
                          ELSE mio_mem_copy(m, c.app, Plus(c.page, c.off), c.len)

CopyInside(S, w, c) == c.len \in Nat /\ Inside(S, Target(w, c), c.len) /\ Inside(S, Source(w, c), c.len)

(* motr_obj_data_copy, copy by copy.                                       *)
LEMMA CopyRun ==
    ASSUME NEW S, IsShape(S), NEW m, Shaped(m, S), NEW a \in ArgsType,
           \A i \in 1..Len(a.dc) : CopyInside(S, a.is_write, a.dc[i]),
           NEW b, b = motr_obj_data_copy(m, a)
    PROVE  \E run : /\ run[0] = m /\ run[Len(a.dc)] = b
                    /\ \A k \in 0..Len(a.dc) : Shaped(run[k], S)
                    /\ \A k \in 1..Len(a.dc) : run[k] = CopyStep(a.is_write, run[k - 1], a.dc[k])
  <1> DEFINE w == a.is_write
             s == a.dc
             V == {c \in CopyType : CopyInside(S, w, c)}
  <1>1. PICK B : m \in Memories(S, B)
    BY MemoriesAre
  <1> DEFINE A == Memories(S, B)
             G == [x \in A \X V |-> CopyStep(w, x[1], x[2])]
             P(i) == i = [t \in SUBSET (1..Len(s)) |->
                            IF t = {} THEN m ELSE CopyStep(w, i[t \ {Max(t)}], s[Max(t)])]
             iter == CHOOSE i : P(i)
  <1>2. \A n \in A, c \in V : CopyStep(w, n, c) \in A
    <2> SUFFICES ASSUME NEW n \in A, NEW c \in V PROVE CopyStep(w, n, c) \in A
      OBVIOUS
    <2>1. Shaped(n, S) /\ CopyInside(S, w, c)
      BY MemoriesAre
    <2>2. CopyStep(w, n, c) = mio_mem_copy(n, Target(w, c), Source(w, c), c.len)
      BY DEF CopyStep, Target, Source
    <2>3. Copied(S, n, CopyStep(w, n, c), Target(w, c), Source(w, c), c.len)
      BY <2>1, <2>2, CopyOne DEF CopyInside
    <2> QED BY <2>3 DEF Copied
  <1>3. G \in [A \X V -> A] /\ \A n \in A, c \in V : G[<<n, c>>] = CopyStep(w, n, c)
    BY <1>2
  <1>4. m \in A /\ s \in Seq(V) /\ Len(s) \in Nat /\ DOMAIN s = 1..Len(s)
    <2>1. s \in Seq(CopyType) /\ DOMAIN s = 1..Len(s) /\ Len(s) \in Nat
      BY DEF ArgsType
    <2>2. \A i \in 1..Len(s) : s[i] \in V
      BY <2>1
    <2> HIDE DEF s, V
    <2>3. s \in Seq(V)
      BY <2>1, <2>2
    <2> QED BY <1>1, <2>1, <2>3
  <1> HIDE DEF G, A, V
  <1>5. PICK f \in [SUBSET (1..Len(s)) -> A] : Iterates(f, G, m, s, Len(s))
    BY <1>3, <1>4, FoldExists
  <1>6. P(f)
    <2>1. ASSUME NEW t \in SUBSET (1..Len(s))
          PROVE  f[t] = IF t = {} THEN m ELSE CopyStep(w, f[t \ {Max(t)}], s[Max(t)])
      <3>1. f[t] = IF t = {} THEN m ELSE G[<<f[t \ {Max(t)}], s[Max(t)]>>]
        BY <1>5 DEF Iterates
      <3>2. t # {} => f[t \ {Max(t)}] \in A /\ s[Max(t)] \in V
        <4> HIDE DEF s
        <4> QED BY <1>4, FoldArgs
      <3> QED BY <1>3, <3>1, <3>2
    <2> QED BY <2>1
  <1>7. P(iter)
    BY <1>6
  <1>8. b = iter[1..Len(s)]
    <2>1. b = (CHOOSE i : i = [t \in SUBSET DOMAIN s |->
                 IF t = {} THEN m ELSE CopyStep(w, i[t \ {Max(t)}], s[Max(t)])])[DOMAIN s]
      BY DEF motr_obj_data_copy, FoldLeft, MapThenFoldSet, CopyStep
    <2> QED BY <1>4, <2>1
  <1> HIDE DEF iter
  <1>9. iter[{}] = m
    BY <1>7
  <1>10. ASSUME NEW k \in 1..Len(s), iter[1..(k - 1)] \in A
        PROVE  iter[1..k] = G[<<iter[1..(k - 1)], s[k]>>]
    <2>1. k \in Nat \ {0} /\ 1..k \in SUBSET (1..Len(s)) /\ s[k] \in V
      BY <1>4
    <2>2. iter[1..k] = IF 1..k = {} THEN m ELSE CopyStep(w, iter[(1..k) \ {Max(1..k)}], s[Max(1..k)])
      BY <1>7, <2>1
    <2>3. iter[1..k] = CopyStep(w, iter[1..(k - 1)], s[k])
      BY <2>1, <2>2, LastOf
    <2> QED BY <1>3, <1>10, <2>1, <2>3
  <1>11. StepsBy(iter, G, m, s, A, V)
    BY <1>3, <1>4, <1>9, <1>10 DEF StepsBy
  <1>12. PICK run : IsRun(run, G, m, s, A) /\ run[Len(s)] = iter[1..Len(s)]
    BY <1>11, FoldRun
  <1>13. \A k \in 1..Len(s) : k - 1 \in 0..Len(s) /\ s[k] \in V
    BY <1>4
  <1>14. \A k \in 1..Len(s) : run[k] = CopyStep(w, run[k - 1], s[k])
    BY <1>3, <1>12, <1>13 DEF IsRun
  <1>15. \A k \in 0..Len(s) : Shaped(run[k], S)
    BY <1>12, MemoriesAre DEF IsRun, A
  <1>16. run[0] = m /\ run[Len(s)] = b
    BY <1>8, <1>12 DEF IsRun
  <1> QED BY <1>14, <1>15, <1>16

(* The memory of a call has its buffers and the driver's pages.            *)
ShapeOf(iovs, pages) ==
    [r \in 1..(Len(iovs) + pages) |-> 0..((IF r <= Len(iovs) THEN iovs[r].len ELSE PageSize) - 1)]

Placed(a, iovs) == a \in ArgsType /\ iovs \in Seq(Ranges) /\ Fits(a, iovs)

HasShape(S, iovs, pages) ==
    /\ IsShape(S) /\ DOMAIN S = 1..(Len(iovs) + pages)
    /\ \A r \in 1..Len(iovs) : r \in DOMAIN S /\ S[r] = 0..(iovs[r].len - 1) /\ iovs[r].len \in Nat
    /\ \A r \in DOMAIN S : r > Len(iovs) => S[r] = 0..(PageSize - 1)

(* What its regions are.                                                   *)
LEMMA ShapeIs ==
    ASSUME NEW iovs \in Seq(Ranges), NEW pages \in Nat
    PROVE  HasShape(ShapeOf(iovs, pages), iovs, pages)
  <1> DEFINE S == ShapeOf(iovs, pages)
  <1>1. Len(iovs) \in Nat /\ PageSize \in Nat
    BY VectorsAssumption
  <1>2. \A r \in 1..Len(iovs) : iovs[r].len \in Nat
    <2>1. \A r \in 1..Len(iovs) : iovs[r] \in Ranges
      OBVIOUS
    <2> QED BY <2>1 DEF Ranges
  <1>3. DOMAIN S = 1..(Len(iovs) + pages)
    BY DEF ShapeOf
  <1>4. ASSUME NEW r \in 1..Len(iovs) PROVE r \in DOMAIN S /\ S[r] = 0..(iovs[r].len - 1)
    <2>1. r \in 1..(Len(iovs) + pages) /\ r <= Len(iovs)
      BY <1>1
    <2> QED BY <1>3, <2>1 DEF ShapeOf
  <1>5. ASSUME NEW r \in DOMAIN S, r > Len(iovs) PROVE S[r] = 0..(PageSize - 1)
    <2>1. r \in 1..(Len(iovs) + pages) /\ ~(r <= Len(iovs))
      BY <1>1, <1>3, <1>5
    <2> QED BY <2>1 DEF ShapeOf
  <1>6. ASSUME NEW r \in DOMAIN S PROVE S[r] \in SUBSET Nat
    <2>1. r \in 1..Len(iovs) \/ r > Len(iovs)
      BY <1>1, <1>3
    <2>2. \A n \in Nat : 0..(n - 1) \in SUBSET Nat
      OBVIOUS
    <2> QED BY <1>1, <1>2, <1>4, <1>5, <2>1, <2>2
  <1> QED BY <1>2, <1>3, <1>4, <1>5, <1>6 DEF IsShape, HasShape

(* A vector is inside.                                                     *)
LEMMA VecInside ==
    ASSUME NEW a, NEW iovs, Placed(a, iovs), NEW v \in VecType, VecFits(a, iovs, v)
    PROVE  Inside(ShapeOf(iovs, a.pages), v.base, v.len)
  <1> DEFINE S == ShapeOf(iovs, a.pages)
  <1>1. /\ iovs \in Seq(Ranges) /\ a.pages \in Nat /\ a.iovcnt = Len(iovs) /\ Len(iovs) \in Nat
        /\ v.base.r \in Nat /\ v.base.at \in Nat /\ v.len \in Nat /\ PageSize \in Nat
    BY VectorsAssumption DEF Placed, ArgsType, Fits, VecType, BaseType
  <1>2. /\ DOMAIN S = 1..(Len(iovs) + a.pages)
        /\ \A r \in 1..Len(iovs) : S[r] = 0..(iovs[r].len - 1) /\ iovs[r].len \in Nat
        /\ \A r \in DOMAIN S : r > Len(iovs) => S[r] = 0..(PageSize - 1)
    <2>1. iovs \in Seq(Ranges) /\ a.pages \in Nat
      BY <1>1
    <2>2. HasShape(S, iovs, a.pages)
      BY <2>1, ShapeIs
    <2> QED BY <2>2 DEF HasShape
  <1> HIDE DEF S
  <1>3. v.base.r \in DOMAIN S
    BY <1>1, <1>2 DEF VecFits
  <1>4. ASSUME NEW x \in 0..(v.len - 1) PROVE v.base.at + x \in S[v.base.r]
    <2>1. CASE v.base.r <= Len(iovs)
      <3>1. v.base.r \in 1..Len(iovs) /\ v.base.at + v.len <= iovs[v.base.r].len
        BY <1>1, <2>1 DEF VecFits, Within
      <3>2. S[v.base.r] = 0..(iovs[v.base.r].len - 1) /\ iovs[v.base.r].len \in Nat
        BY <1>2, <3>1
      <3>3. \A l \in Nat : v.base.at + v.len <= l => v.base.at + x \in 0..(l - 1)
        BY <1>1
      <3> QED BY <3>1, <3>2, <3>3
    <2>2. CASE v.base.r > Len(iovs)
      <3>1. v.base.at = 0 /\ v.len = PageSize
        BY <1>1, <2>2 DEF VecFits
      <3> QED BY <1>1, <1>2, <1>3, <2>2, <3>1
    <2> QED BY <1>1, <2>1, <2>2
  <1> QED BY <1>1, <1>3, <1>4 DEF Inside, S

(* A copy is inside, and of the same bytes as a vector.                    *)
CopyOf(a, iovs, c, v) ==
    /\ c.page = v.base /\ c.off + c.len <= v.len /\ c.len > 0
    /\ Within(iovs, v.off + c.off, c.len, c.app)

(* At both ends.                                                           *)
LEMMA CopyIsInside ==
    ASSUME NEW a, NEW iovs, Placed(a, iovs), NEW i \in DOMAIN a.dc, NEW w
    PROVE  /\ CopyInside(ShapeOf(iovs, a.pages), w, a.dc[i]) /\ a.dc[i] \in CopyType
           /\ \E j \in DOMAIN a.aligned : CopyOf(a, iovs, a.dc[i], a.aligned[j])
  <1> DEFINE S == ShapeOf(iovs, a.pages)
             c == a.dc[i]
  <1>1. /\ iovs \in Seq(Ranges) /\ a.pages \in Nat /\ Len(iovs) \in Nat /\ c \in CopyType
    BY DEF Placed, ArgsType
  <1>2. PICK j \in DOMAIN a.aligned : CopyOf(a, iovs, c, a.aligned[j])
    BY DEF Placed, Fits, CopyFits, CopyOf
  <1> DEFINE v == a.aligned[j]
  <1>3. v \in VecType /\ VecFits(a, iovs, v)
    BY DEF Placed, ArgsType, Fits
  <1>4. Inside(S, v.base, v.len)
    BY <1>3, VecInside
  <1>5. \A r \in 1..Len(iovs) : r \in DOMAIN S /\ S[r] = 0..(iovs[r].len - 1) /\ iovs[r].len \in Nat
    <2>1. HasShape(S, iovs, a.pages)
      BY <1>1, ShapeIs
    <2> QED BY <2>1 DEF HasShape
  <1> HIDE DEF S, c, v
  <1>6. /\ c.off \in Nat /\ c.len \in Nat /\ c.app.at \in Nat /\ c.app.r \in Nat
        /\ v.len \in Nat /\ v.base.at \in Nat
    BY <1>1, <1>3 DEF CopyType, BaseType, VecType
  <1>7. Inside(S, c.app, c.len)
    <2>1. c.app.r \in 1..Len(iovs) /\ c.app.at + c.len <= iovs[c.app.r].len
      BY <1>2 DEF CopyOf, Within, v
    <2> QED BY <1>5, <1>6, <2>1, SMTT(30) DEF Inside
  <1>8. Inside(S, Plus(c.page, c.off), c.len)
    <2>1. c.page = v.base /\ c.off + c.len <= v.len
      BY <1>2 DEF CopyOf, v
    <2>2. Plus(c.page, c.off).r = v.base.r /\ Plus(c.page, c.off).at = v.base.at + c.off
      BY <2>1 DEF Plus, Base
    <2>3. v.base.r \in DOMAIN S /\ \A x \in 0..(v.len - 1) : v.base.at + x \in S[v.base.r]
      BY <1>4 DEF Inside
    <2>4. ASSUME NEW x \in 0..(c.len - 1) PROVE (v.base.at + c.off) + x \in S[v.base.r]
      <3>1. c.off + x \in 0..(v.len - 1) /\ (v.base.at + c.off) + x = v.base.at + (c.off + x)
        BY <1>6, <2>1
      <3> QED BY <2>3, <3>1
    <2>5. v.base.at + c.off \in Nat
      BY <1>6
    <2> QED BY <2>2, <2>3, <2>4, <2>5 DEF Inside
  <1>9. CopyInside(S, w, c)
    BY <1>6, <1>7, <1>8 DEF CopyInside, Source, Target
  <1> QED BY <1>1, <1>2, <1>9 DEF S, c, v

(***************************************************************************)
(* The byte i of the object that belongs at position k of region r: that   *)
(* of the buffer, or of the one vector that has the page.                  *)
(***************************************************************************)
Home(a, iovs, r, k, i) ==
    \/ r \in 1..Len(iovs) /\ i = iovs[r].off + k
    \/ r > Len(iovs) /\ \E j \in DOMAIN a.aligned : a.aligned[j].base.r = r /\ i = a.aligned[j].off + k

(* There is one at most.                                                   *)
LEMMA HomeOne ==
    ASSUME NEW a, NEW iovs, Placed(a, iovs), NEW r \in Nat, NEW k, NEW i1, NEW i2,
           Home(a, iovs, r, k, i1), Home(a, iovs, r, k, i2)
    PROVE  i1 = i2
  <1>1. CASE r <= Len(iovs)
    BY <1>1 DEF Home, Placed
  <1>2. CASE r > Len(iovs)
    <2>1. Len(iovs) \in Nat /\ a.iovcnt = Len(iovs) /\ OwnPages(a) /\ r \notin 1..Len(iovs)
      BY <1>2 DEF Placed, Fits
    <2>2. PICK j1 \in DOMAIN a.aligned : a.aligned[j1].base.r = r /\ i1 = a.aligned[j1].off + k
      BY <2>1 DEF Home
    <2>3. PICK j2 \in DOMAIN a.aligned : a.aligned[j2].base.r = r /\ i2 = a.aligned[j2].off + k
      BY <2>1 DEF Home
    <2>4. j1 = j2
      BY <1>2, <2>1, <2>2, <2>3 DEF OwnPages
    <2> QED BY <2>2, <2>3, <2>4
  <1>3. Len(iovs) \in Nat
    BY DEF Placed
  <1> QED BY <1>1, <1>2, <1>3

(* That of a position in a vector.                                         *)
LEMMA HomeVec ==
    ASSUME NEW a, NEW iovs, Placed(a, iovs), NEW j \in DOMAIN a.aligned,
           NEW v, v = a.aligned[j], NEW x \in 0..(v.len - 1)
    PROVE  Home(a, iovs, v.base.r, v.base.at + x, v.off + x)
  <1>1. v \in VecType /\ VecFits(a, iovs, v)
    BY DEF Placed, ArgsType, Fits
  <1>2. v.base.r \in Nat /\ v.base.at \in Nat /\ v.off \in Nat /\ v.len \in Nat /\ x \in Nat
    BY <1>1 DEF VecType, BaseType
  <1>3. Len(iovs) \in Nat /\ a.iovcnt = Len(iovs)
    BY DEF Placed, Fits
  <1>4. CASE v.base.r <= Len(iovs)
    <2>1. v.base.r \in 1..Len(iovs) /\ v.off = iovs[v.base.r].off + v.base.at
      BY <1>1, <1>3, <1>4 DEF VecFits, Within
    <2>2. iovs[v.base.r] \in Ranges
      BY <2>1 DEF Placed
    <2>3. iovs[v.base.r].off \in Nat
      BY <2>2 DEF Ranges
    <2>4. \A n \in Nat : v.off = n + v.base.at => v.off + x = n + (v.base.at + x)
      BY <1>2
    <2>5. v.off + x = iovs[v.base.r].off + (v.base.at + x)
      BY <2>1, <2>3, <2>4
    <2> QED BY <2>1, <2>5 DEF Home
  <1>5. CASE v.base.r > Len(iovs)
    <2>1. v.base.at = 0
      BY <1>1, <1>3, <1>5 DEF VecFits
    <2>2. v.off + x = v.off + (v.base.at + x)
      BY <1>2, <2>1
    <2> QED BY <1>5, <2>2 DEF Home
  <1> QED BY <1>2, <1>3, <1>4, <1>5

(* Those of the two ends of a copy.                                        *)
LEMMA HomeCopy ==
    ASSUME NEW a, NEW iovs, Placed(a, iovs), NEW h \in DOMAIN a.dc, NEW j \in DOMAIN a.aligned,
           NEW c, c = a.dc[h], NEW v, v = a.aligned[j], CopyOf(a, iovs, c, v), NEW x \in 0..(c.len - 1)
    PROVE  /\ Home(a, iovs, c.app.r, c.app.at + x, v.off + c.off + x)
           /\ Home(a, iovs, c.page.r, c.page.at + c.off + x, v.off + c.off + x)
           /\ c.off + x \in 0..(v.len - 1) /\ v.off + c.off + x \in Nat /\ c.app.r \in 1..Len(iovs)
           /\ v.off + c.off + x = iovs[c.app.r].off + (c.app.at + x)
           /\ c.app.at + x \in 0..(iovs[c.app.r].len - 1)
  <1>1. v \in VecType /\ c \in CopyType
    BY DEF Placed, ArgsType
  <1>2. /\ v.base.at \in Nat /\ v.off \in Nat /\ v.len \in Nat /\ x \in Nat
        /\ c.off \in Nat /\ c.len \in Nat /\ c.app.at \in Nat /\ c.app.r \in Nat
    BY <1>1 DEF VecType, CopyType, BaseType
  <1>3. /\ c.page = v.base /\ c.off + c.len <= v.len /\ c.app.r \in 1..Len(iovs)
        /\ v.off + c.off = iovs[c.app.r].off + c.app.at /\ c.app.at + c.len <= iovs[c.app.r].len
    BY DEF CopyOf, Within
  <1>4. /\ c.off + x \in 0..(v.len - 1) /\ v.base.at + (c.off + x) = v.base.at + c.off + x
        /\ v.off + (c.off + x) = v.off + c.off + x
    <2>1. c.off + c.len <= v.len
      BY <1>3
    <2> QED BY <1>2, <2>1
  <1>5. Home(a, iovs, v.base.r, v.base.at + (c.off + x), v.off + (c.off + x))
    BY <1>4, HomeVec
  <1>6. Home(a, iovs, c.page.r, c.page.at + c.off + x, v.off + c.off + x)
    BY <1>3, <1>4, <1>5
  <1>7. iovs[c.app.r] \in Ranges
    BY <1>3 DEF Placed
  <1>8. iovs[c.app.r].off \in Nat /\ iovs[c.app.r].len \in Nat
    BY <1>7 DEF Ranges
  <1>9. \A n \in Nat : v.off + c.off = n + c.app.at => v.off + c.off + x = n + (c.app.at + x)
    BY <1>2
  <1>10. v.off + c.off + x = iovs[c.app.r].off + (c.app.at + x)
    BY <1>3, <1>8, <1>9
  <1>11. Home(a, iovs, c.app.r, c.app.at + x, v.off + c.off + x)
    BY <1>3, <1>10 DEF Home
  <1>12. \A l \in Nat : c.app.at + c.len <= l => c.app.at + x \in 0..(l - 1)
    BY <1>2
  <1>13. c.app.at + x \in 0..(iovs[c.app.r].len - 1)
    BY <1>3, <1>8, <1>12
  <1>14. v.off + c.off + x \in Nat
    BY <1>2
  <1> QED BY <1>3, <1>4, <1>6, <1>10, <1>11, <1>13, <1>14

(* A position holds its byte of the object D; all positions of a vector do.*)
Agrees(D, m, a, iovs, r, k) == \A i \in DOMAIN D : Home(a, iovs, r, k, i) => m[r][k] = D[i]

Synced(D, m, a, iovs, v) == \A x \in 0..(v.len - 1) : Agrees(D, m, a, iovs, v.base.r, v.base.at + x)

(* A copy to a buffer keeps what agrees, and what is copied does.          *)
LEMMA CopyOutStep ==
    ASSUME NEW a, NEW iovs, Placed(a, iovs), NEW D, NEW S, S = ShapeOf(iovs, a.pages),
           NEW m, Shaped(m, S), \A j \in DOMAIN a.aligned : Synced(D, m, a, iovs, a.aligned[j]),
           NEW h \in DOMAIN a.dc, NEW c, c = a.dc[h], NEW b, b = CopyStep(FALSE, m, c)
    PROVE  /\ \A r \in DOMAIN S : \A k \in S[r] :
                Agrees(D, m, a, iovs, r, k) => Agrees(D, b, a, iovs, r, k)
           /\ \A x \in 0..(c.len - 1) : Agrees(D, b, a, iovs, c.app.r, c.app.at + x)
  <1>1. iovs \in Seq(Ranges) /\ a.pages \in Nat
    BY DEF Placed, ArgsType
  <1>2. IsShape(S) /\ DOMAIN S = 1..(Len(iovs) + a.pages)
    <2>1. HasShape(S, iovs, a.pages)
      BY <1>1, ShapeIs
    <2> QED BY <2>1 DEF HasShape
  <1>3. /\ CopyInside(S, FALSE, c) /\ c \in CopyType
        /\ \E j \in DOMAIN a.aligned : CopyOf(a, iovs, c, a.aligned[j])
    BY CopyIsInside
  <1>4. PICK j \in DOMAIN a.aligned : CopyOf(a, iovs, c, a.aligned[j])
    BY <1>3
  <1> DEFINE v == a.aligned[j]
             src == Plus(c.page, c.off)
  <1>5. c.len \in Nat /\ Inside(S, c.app, c.len) /\ Inside(S, src, c.len)
    BY <1>3 DEF CopyInside, Target, Source
  <1>6. b = mio_mem_copy(m, c.app, src, c.len)
    BY DEF CopyStep
  <1>7. src.r = c.page.r /\ src.at = c.page.at + c.off
    BY DEF Plus, Base
  <1> HIDE DEF src
  <1>8. /\ \A x \in 0..(c.len - 1) : b[c.app.r][c.app.at + x] = m[src.r][src.at + x]
        /\ \A r \in DOMAIN S : \A k \in S[r] :
                \/ b[r][k] = m[r][k]
                \/ r = c.app.r /\ \E x \in 0..(c.len - 1) : k = c.app.at + x
    <2>1. Copied(S, m, b, c.app, src, c.len)
      BY <1>2, <1>5, <1>6, CopyOne
    <2> QED BY <2>1 DEF Copied
  <1>9. ASSUME NEW x \in 0..(c.len - 1) PROVE Agrees(D, b, a, iovs, c.app.r, c.app.at + x)
    <2> SUFFICES ASSUME NEW i \in DOMAIN D, Home(a, iovs, c.app.r, c.app.at + x, i)
                 PROVE  b[c.app.r][c.app.at + x] = D[i]
      BY DEF Agrees
    <2>1. /\ Home(a, iovs, c.app.r, c.app.at + x, v.off + c.off + x)
          /\ Home(a, iovs, c.page.r, c.page.at + c.off + x, v.off + c.off + x)
          /\ c.off + x \in 0..(v.len - 1) /\ c.app.r \in 1..Len(iovs)
      BY <1>4, HomeCopy
    <2>2. i = v.off + c.off + x
      <3>1. c.app.r \in Nat
        BY <2>1
      <3> QED BY <2>1, <3>1, HomeOne
    <2>3. Agrees(D, m, a, iovs, v.base.r, v.base.at + (c.off + x))
      BY <2>1 DEF Synced
    <2>4. v.base = c.page /\ c.page.at + (c.off + x) = c.page.at + c.off + x
      <3>1. c.page.at \in Nat /\ c.off \in Nat /\ x \in Nat
        BY <1>3, <1>5 DEF CopyType, BaseType
      <3>2. c.page.at + (c.off + x) = c.page.at + c.off + x
        BY <3>1
      <3>3. v.base = c.page
        BY <1>4 DEF CopyOf
      <3> QED BY <3>2, <3>3
    <2>5. Agrees(D, m, a, iovs, c.page.r, c.page.at + c.off + x)
      BY <2>3, <2>4
    <2>6. m[c.page.r][c.page.at + c.off + x] = D[i]
      BY <2>1, <2>2, <2>5 DEF Agrees
    <2> QED BY <1>7, <1>8, <2>6
  <1>10. ASSUME NEW r \in DOMAIN S, NEW k \in S[r], Agrees(D, m, a, iovs, r, k)
         PROVE  Agrees(D, b, a, iovs, r, k)
    <2>1. CASE b[r][k] = m[r][k]
      BY <1>10, <2>1 DEF Agrees
    <2>2. CASE r = c.app.r /\ \E x \in 0..(c.len - 1) : k = c.app.at + x
      BY <1>9, <2>2
    <2> QED BY <1>8, <2>1, <2>2
  <1> QED BY <1>9, <1>10

(* Positions of the vectors and of the copies are in the shape.            *)
LEMMA PositionsInside ==
    ASSUME NEW a, NEW iovs, Placed(a, iovs), NEW S, S = ShapeOf(iovs, a.pages), NEW j \in DOMAIN a.aligned,
           NEW x \in 0..(a.aligned[j].len - 1)
    PROVE  a.aligned[j].base.r \in DOMAIN S /\ a.aligned[j].base.at + x \in S[a.aligned[j].base.r]
  <1>1. a.aligned[j] \in VecType /\ VecFits(a, iovs, a.aligned[j])
    BY DEF Placed, ArgsType, Fits
  <1>2. Inside(S, a.aligned[j].base, a.aligned[j].len)
    BY <1>1, VecInside
  <1> QED BY <1>2 DEF Inside

(* When all vectors of a read agree, and the copies are done, so do the    *)
(* buffers.                                                                *)
LEMMA CopyOut ==
    ASSUME NEW a, NEW iovs, Placed(a, iovs), a.is_write = FALSE, AllCovered(a, iovs), NEW D,
           NEW m, Shaped(m, ShapeOf(iovs, a.pages)),
           \A j \in DOMAIN a.aligned : Synced(D, m, a, iovs, a.aligned[j]),
           NEW b, b = motr_obj_data_copy(m, a)
    PROVE  /\ Shaped(b, ShapeOf(iovs, a.pages))
           /\ \A n \in 1..Len(iovs) : \A k \in 0..(iovs[n].len - 1) : Agrees(D, b, a, iovs, n, k)
  <1> DEFINE S == ShapeOf(iovs, a.pages)
             N == Len(a.dc)
  <1>1. a \in ArgsType /\ iovs \in Seq(Ranges) /\ a.pages \in Nat
    BY DEF Placed, ArgsType
  <1>2. N \in Nat /\ DOMAIN a.dc = 1..N /\ N \in 0..N
    BY <1>1 DEF ArgsType
  <1>3. /\ IsShape(S) /\ DOMAIN S = 1..(Len(iovs) + a.pages)
        /\ \A r \in 1..Len(iovs) : r \in DOMAIN S /\ S[r] = 0..(iovs[r].len - 1) /\ iovs[r].len \in Nat
    <2>1. HasShape(S, iovs, a.pages)
      BY <1>1, ShapeIs
    <2> QED BY <2>1 DEF HasShape
  <1>4. PICK run : /\ run[0] = m /\ run[Len(a.dc)] = b
                   /\ \A k \in 0..Len(a.dc) : Shaped(run[k], S)
                   /\ \A k \in 1..Len(a.dc) : run[k] = CopyStep(a.is_write, run[k - 1], a.dc[k])
    <2>1. \A i \in 1..Len(a.dc) : CopyInside(S, a.is_write, a.dc[i])
      BY <1>2, CopyIsInside
    <2> HIDE DEF S
    <2>2. Shaped(m, S)
      BY DEF S
    <2> QED BY <1>1, <1>3, <2>1, <2>2, CopyRun, SMTT(30)
  <1> DEFINE C(k) == \A h \in 1..k : \A x \in 0..(a.dc[h].len - 1) :
                       Agrees(D, run[k], a, iovs, a.dc[h].app.r, a.dc[h].app.at + x)
             W(k) == \A j \in DOMAIN a.aligned : Synced(D, run[k], a, iovs, a.aligned[j])
             T == {k \in 0..N : W(k) /\ C(k)}
  <1>5. 0 \in T
    BY <1>2, <1>4
  <1>6. ASSUME NEW k \in 0..(N - 1), k \in T PROVE k + 1 \in T
    <2>1. k + 1 \in 1..N /\ k \in 0..N /\ k \in Nat /\ (k + 1) - 1 = k /\ k + 1 \in 0..N
      BY <1>2
    <2> DEFINE c == a.dc[k + 1]
    <2>2. run[k + 1] = CopyStep(FALSE, run[k], c) /\ Shaped(run[k], S) /\ k + 1 \in DOMAIN a.dc
      BY <1>2, <1>4, <2>1
    <2>3. W(k) /\ C(k)
      BY <1>6
    <2>4. /\ \A r \in DOMAIN S : \A i \in S[r] :
                Agrees(D, run[k], a, iovs, r, i) => Agrees(D, run[k + 1], a, iovs, r, i)
          /\ \A x \in 0..(c.len - 1) : Agrees(D, run[k + 1], a, iovs, c.app.r, c.app.at + x)
      <3> HIDE DEF S, c
      <3> QED BY <2>2, <2>3, CopyOutStep DEF S, c
    <2>5. W(k + 1)
      <3> SUFFICES ASSUME NEW j \in DOMAIN a.aligned, NEW x \in 0..(a.aligned[j].len - 1)
                   PROVE  Agrees(D, run[k + 1], a, iovs, a.aligned[j].base.r, a.aligned[j].base.at + x)
        BY DEF Synced
      <3>1. Agrees(D, run[k], a, iovs, a.aligned[j].base.r, a.aligned[j].base.at + x)
        BY <2>3 DEF Synced
      <3>2. a.aligned[j].base.r \in DOMAIN S /\ a.aligned[j].base.at + x \in S[a.aligned[j].base.r]
        BY PositionsInside
      <3> QED BY <2>4, <3>1, <3>2
    <2>6. C(k + 1)
      <3> SUFFICES ASSUME NEW h \in 1..(k + 1), NEW x \in 0..(a.dc[h].len - 1)
                   PROVE  Agrees(D, run[k + 1], a, iovs, a.dc[h].app.r, a.dc[h].app.at + x)
        OBVIOUS
      <3>1. CASE h = k + 1
        BY <2>4, <3>1
      <3>2. CASE h # k + 1
        <4>1. h \in 1..k /\ h \in DOMAIN a.dc
          BY <1>2, <2>1, <3>2
        <4>2. Agrees(D, run[k], a, iovs, a.dc[h].app.r, a.dc[h].app.at + x)
          BY <2>3, <4>1
        <4>3. CopyInside(S, FALSE, a.dc[h])
          BY <4>1, CopyIsInside
        <4>4. a.dc[h].app.r \in DOMAIN S /\ a.dc[h].app.at + x \in S[a.dc[h].app.r]
          BY <4>3 DEF CopyInside, Target, Inside
        <4> QED BY <2>4, <4>2, <4>4
      <3> QED BY <3>1, <3>2
    <2> HIDE DEF C, W
    <2> QED BY <2>1, <2>5, <2>6
  <1>7. 0..N \subseteq T
    <2> HIDE DEF T
    <2> QED BY <1>2, <1>5, <1>6, Induct
  <1>8. W(N) /\ C(N) /\ run[N] = b /\ Shaped(b, S)
    BY <1>2, <1>4, <1>7
  <1>9. ASSUME NEW n \in 1..Len(iovs), NEW k \in 0..(iovs[n].len - 1) PROVE Agrees(D, b, a, iovs, n, k)
    <2>1. Covered(a, n, k) /\ k \in Nat
      BY <1>3 DEF AllCovered
    <2>2. CASE \E i \in DOMAIN a.aligned : InVector(a.aligned[i], n, k)
      <3>1. PICK j \in DOMAIN a.aligned : InVector(a.aligned[j], n, k)
        BY <2>2
      <3>2. a.aligned[j].base.at \in Nat /\ a.aligned[j].len \in Nat
        <4>1. a.aligned[j] \in VecType
          BY <1>1 DEF ArgsType
        <4> QED BY <4>1 DEF VecType, BaseType
      <3>3. /\ k - a.aligned[j].base.at \in 0..(a.aligned[j].len - 1)
            /\ a.aligned[j].base.at + (k - a.aligned[j].base.at) = k
        BY <2>1, <3>1, <3>2, SMTT(30) DEF InVector
      <3>4. Agrees(D, b, a, iovs, a.aligned[j].base.r, a.aligned[j].base.at + (k - a.aligned[j].base.at))
        BY <1>8, <3>3 DEF Synced
      <3> QED BY <3>1, <3>3, <3>4 DEF InVector
    <2>3. CASE \E i \in DOMAIN a.dc : InCopy(a.dc[i], n, k)
      <3>1. PICK h \in 1..N : InCopy(a.dc[h], n, k)
        BY <1>2, <2>3
      <3>2. a.dc[h].app.at \in Nat /\ a.dc[h].len \in Nat
        <4>1. a.dc[h] \in CopyType
          BY <1>1 DEF ArgsType
        <4> QED BY <4>1 DEF CopyType, BaseType
      <3>3. k - a.dc[h].app.at \in 0..(a.dc[h].len - 1) /\ a.dc[h].app.at + (k - a.dc[h].app.at) = k
        <4>1. a.dc[h].app.at <= k /\ k < a.dc[h].app.at + a.dc[h].len
          BY <3>1 DEF InCopy
        <4>2. \A y, l \in Nat : y <= k /\ k < y + l => k - y \in 0..(l - 1) /\ y + (k - y) = k
          BY <2>1
        <4> QED BY <3>2, <4>1, <4>2
      <3>4. Agrees(D, b, a, iovs, a.dc[h].app.r, a.dc[h].app.at + (k - a.dc[h].app.at))
        BY <1>8, <3>3
      <3> QED BY <3>1, <3>3, <3>4 DEF InCopy
    <2> QED BY <2>1, <2>2, <2>3 DEF Covered
  <1> QED BY <1>8, <1>9

------------------------------------------------------------------------------
(***************************************************************************)
(* The Motr operations.  A batch has vectors of the list aligned, or empty *)
(* ones.                                                                   *)
(***************************************************************************)
BatchOf(a, batch) ==
    \A v \in Range(batch) : v \in VecType /\ (v.len = 0 \/ \E j \in DOMAIN a.aligned : v = a.aligned[j])

(* The byte at a position after a read.                                    *)
ReadByte(m, b, batch, r, k) ==
    \/ b[r][k] = m[r][k] /\ \A v \in Range(batch) : ~InVector(v, r, k)
    \/ \E v \in Range(batch) : InVector(v, r, k) /\ b[r][k] = data[v.off + (k - v.base.at)]

(* What ReadInto does.                                                     *)
LEMMA ReadIntoIs ==
    ASSUME NEW a, NEW batch, BatchOf(a, batch), NEW S, IsShape(S), NEW m, Shaped(m, S),
           NEW b, b = ReadInto(m, batch)
    PROVE  Shaped(b, S) /\ \A r \in DOMAIN S : \A k \in S[r] : ReadByte(m, b, batch, r, k)
  <1>1. /\ DOMAIN m = DOMAIN S
        /\ \A r \in DOMAIN S : DOMAIN m[r] = S[r] /\ S[r] \in SUBSET Nat
    BY DEF Shaped, IsShape
  <1>2. Shaped(b, S)
    <2> DEFINE at(r, k) == LET hits == {v \in Range(batch) : v.base.r = r /\ k \in v.base.at .. (v.base.at + v.len - 1)}
                           IN  IF hits = {} THEN m[r][k]
                               ELSE LET v == CHOOSE v \in hits : TRUE IN data[v.off + k - v.base.at]
    <2>1. b = [r \in DOMAIN m |-> [k \in DOMAIN m[r] |-> at(r, k)]]
      BY DEF ReadInto
    <2> HIDE DEF at
    <2> QED BY <1>1, <2>1 DEF Shaped
  <1>3. ASSUME NEW r \in DOMAIN S, NEW k \in S[r] PROVE ReadByte(m, b, batch, r, k)
    <2> DEFINE hits == {v \in Range(batch) : v.base.r = r /\ k \in v.base.at .. (v.base.at + v.len - 1)}
               h == CHOOSE v \in hits : TRUE
    <2>1. b[r][k] = IF hits = {} THEN m[r][k] ELSE data[h.off + k - h.base.at]
      BY <1>1 DEF ReadInto
    <2>2. ASSUME NEW v \in Range(batch) PROVE v \in hits <=> InVector(v, r, k)
      <3>1. v \in VecType /\ k \in Nat
        BY <1>1 DEF BatchOf
      <3>2. v.base.at \in Nat /\ v.len \in Nat
        BY <3>1 DEF VecType, BaseType
      <3>3. k \in v.base.at .. (v.base.at + v.len - 1) <=> v.base.at <= k /\ k < v.base.at + v.len
        BY <3>1, <3>2
      <3> QED BY <3>3 DEF InVector
    <2>3. CASE hits = {}
      BY <2>1, <2>2, <2>3 DEF ReadByte
    <2>4. CASE hits # {}
      <3>1. h \in hits
        BY <2>4
      <3>2. b[r][k] = data[h.off + k - h.base.at]
        BY <2>1, <2>4
      <3>3. h \in Range(batch) /\ InVector(h, r, k)
        BY <2>2, <3>1
      <3>4. h.off + k - h.base.at = h.off + (k - h.base.at)
        <4>1. h \in VecType /\ k \in Nat
          BY <1>1, <3>3 DEF BatchOf
        <4> HIDE DEF h
        <4>2. h.off \in Nat /\ h.base.at \in Nat
          BY <4>1 DEF VecType, BaseType
        <4> QED BY <4>1, <4>2
      <3> HIDE DEF h
      <3> QED BY <3>2, <3>3, <3>4 DEF ReadByte
    <2> QED BY <2>3, <2>4
  <1> QED BY <1>2, <1>3

(* A read keeps what agrees with the object, and its vectors do.           *)
LEMMA ReadAgrees ==
    ASSUME NEW a, NEW iovs, Placed(a, iovs), NEW batch, BatchOf(a, batch),
           NEW S, S = ShapeOf(iovs, a.pages), NEW m, Shaped(m, S), NEW b, b = ReadInto(m, batch)
    PROVE  /\ Shaped(b, S)
           /\ \A r \in DOMAIN S : \A k \in S[r] :
                Agrees(data, m, a, iovs, r, k) => Agrees(data, b, a, iovs, r, k)
           /\ \A j \in DOMAIN a.aligned : a.aligned[j] \in Range(batch) =>
                Synced(data, b, a, iovs, a.aligned[j])
  <1>1. iovs \in Seq(Ranges) /\ a.pages \in Nat
    BY DEF Placed, ArgsType
  <1>2. IsShape(S)
    <2>1. HasShape(S, iovs, a.pages)
      BY <1>1, ShapeIs
    <2> QED BY <2>1 DEF HasShape
  <1>3. Shaped(b, S) /\ \A r \in DOMAIN S : \A k \in S[r] : ReadByte(m, b, batch, r, k)
    BY <1>2, ReadIntoIs
  <1>4. ASSUME NEW r \in DOMAIN S, NEW k \in S[r], NEW v \in Range(batch), InVector(v, r, k),
               b[r][k] = data[v.off + (k - v.base.at)]
        PROVE  Agrees(data, b, a, iovs, r, k)
    <2>1. v \in VecType /\ k \in Nat
      BY <1>2 DEF BatchOf, IsShape
    <2>2. v.base.at \in Nat /\ v.len \in Nat /\ v.base.r \in Nat
      BY <2>1 DEF VecType, BaseType
    <2>3. v.base.r = r /\ v.base.at <= k /\ k < v.base.at + v.len
      BY <1>4 DEF InVector
    <2>4. k - v.base.at \in 0..(v.len - 1) /\ v.base.at + (k - v.base.at) = k /\ v.len # 0
      BY <2>1, <2>2, <2>3
    <2>5. PICK j \in DOMAIN a.aligned : v = a.aligned[j]
      BY <2>4 DEF BatchOf
    <2>6. Home(a, iovs, v.base.r, v.base.at + (k - v.base.at), v.off + (k - v.base.at))
      BY <2>4, <2>5, HomeVec
    <2>7. Home(a, iovs, r, k, v.off + (k - v.base.at)) /\ r \in Nat
      BY <2>2, <2>3, <2>4, <2>6
    <2>8. \A i \in DOMAIN data : Home(a, iovs, r, k, i) => i = v.off + (k - v.base.at)
      BY <2>7, HomeOne
    <2> QED BY <1>4, <2>8 DEF Agrees
  <1>5. ASSUME NEW r \in DOMAIN S, NEW k \in S[r], Agrees(data, m, a, iovs, r, k)
        PROVE  Agrees(data, b, a, iovs, r, k)
    <2>1. CASE b[r][k] = m[r][k]
      BY <1>5, <2>1 DEF Agrees
    <2> QED BY <1>3, <1>4, <2>1 DEF ReadByte
  <1>6. ASSUME NEW j \in DOMAIN a.aligned, a.aligned[j] \in Range(batch)
        PROVE  Synced(data, b, a, iovs, a.aligned[j])
    <2> DEFINE u == a.aligned[j]
    <2> SUFFICES ASSUME NEW x \in 0..(u.len - 1) PROVE Agrees(data, b, a, iovs, u.base.r, u.base.at + x)
      BY DEF Synced
    <2>1. u.base.r \in DOMAIN S /\ u.base.at + x \in S[u.base.r]
      BY PositionsInside
    <2>2. InVector(u, u.base.r, u.base.at + x)
      <3>1. u \in VecType
        BY <1>6 DEF BatchOf
      <3> HIDE DEF u
      <3>2. u.base.at \in Nat /\ u.len \in Nat
        BY <3>1 DEF VecType, BaseType
      <3> QED BY <3>2 DEF InVector
    <2>3. ReadByte(m, b, batch, u.base.r, u.base.at + x)
      BY <1>3, <2>1
    <2>4. PICK v \in Range(batch) : /\ InVector(v, u.base.r, u.base.at + x)
                                    /\ b[u.base.r][u.base.at + x] = data[v.off + ((u.base.at + x) - v.base.at)]
      BY <1>6, <2>2, <2>3 DEF ReadByte
    <2> QED BY <1>4, <2>1, <2>4
  <1> QED BY <1>3, <1>5, <1>6

(* A byte of the object after a write.                                     *)
WrittenByte(m, E, batch, i) ==
    \/ E[i] = data[i] /\ \A v \in Range(batch) : i \notin BytesOf(v)
    \/ \E v \in Range(batch) : i \in BytesOf(v) /\ E[i] = m[v.base.r][v.base.at + (i - v.off)]

(* What WrittenFrom does.                                                  *)
LEMMA WrittenFromIs ==
    ASSUME NEW a, NEW batch, BatchOf(a, batch), NEW m, NEW E, E = WrittenFrom(m, batch)
    PROVE  DOMAIN E = DOMAIN data /\ \A i \in DOMAIN data : WrittenByte(m, E, batch, i)
  <1>1. DOMAIN E = DOMAIN data
    BY DEF WrittenFrom
  <1>2. ASSUME NEW i \in DOMAIN data PROVE WrittenByte(m, E, batch, i)
    <2> DEFINE hits == {v \in Range(batch) : i \in BytesOf(v)}
               h == CHOOSE v \in hits : TRUE
    <2>1. E[i] = IF hits = {} THEN data[i] ELSE m[h.base.r][h.base.at + i - h.off]
      BY DEF WrittenFrom
    <2>2. CASE hits = {}
      BY <2>1, <2>2 DEF WrittenByte
    <2>3. CASE hits # {}
      <3>1. h \in hits
        BY <2>3
      <3>2. h \in Range(batch) /\ i \in BytesOf(h) /\ E[i] = m[h.base.r][h.base.at + i - h.off]
        BY <2>1, <2>3, <3>1
      <3> HIDE DEF h
      <3>3. h \in VecType
        BY <3>2 DEF BatchOf
      <3>4. h.off \in Nat /\ h.base.at \in Nat /\ h.len \in Nat
        BY <3>3 DEF VecType, BaseType
      <3>5. i \in Int
        BY <3>2, <3>4 DEF BytesOf
      <3>6. h.base.at + i - h.off = h.base.at + (i - h.off)
        BY <3>4, <3>5
      <3> QED BY <3>2, <3>6 DEF WrittenByte
    <2> QED BY <2>2, <2>3
  <1> QED BY <1>1, <1>2

(* Bytes of vectors that have none in common.                              *)
LEMMA SameVector ==
    ASSUME NEW a \in ArgsType, Disjoint(a.aligned), NEW i \in DOMAIN a.aligned, NEW j \in DOMAIN a.aligned,
           NEW x, x \in BytesOf(a.aligned[i]), x \in BytesOf(a.aligned[j])
    PROVE  a.aligned[i] = a.aligned[j]
  BY DEF Disjoint

(* After a write, its vectors agree with the object, and those that did    *)
(* still do.                                                               *)
LEMMA WriteAgrees ==
    ASSUME NEW a, NEW iovs, Placed(a, iovs), Disjoint(a.aligned), NEW batch, BatchOf(a, batch),
           NEW m, NEW E, E = WrittenFrom(m, batch), NEW j \in DOMAIN a.aligned,
           Synced(data, m, a, iovs, a.aligned[j]) \/ a.aligned[j] \in Range(batch)
    PROVE  Synced(E, m, a, iovs, a.aligned[j])
  <1> DEFINE u == a.aligned[j]
  <1>1. DOMAIN E = DOMAIN data /\ \A i \in DOMAIN data : WrittenByte(m, E, batch, i)
    BY WrittenFromIs
  <1>2. a \in ArgsType /\ u \in VecType
    BY DEF Placed, ArgsType
  <1>3. u.base.r \in Nat /\ u.base.at \in Nat /\ u.len \in Nat /\ u.off \in Nat
    BY <1>2 DEF VecType, BaseType
  <1> SUFFICES ASSUME NEW x \in 0..(u.len - 1) PROVE Agrees(E, m, a, iovs, u.base.r, u.base.at + x)
    BY DEF Synced
  <1> SUFFICES ASSUME NEW i \in DOMAIN data, Home(a, iovs, u.base.r, u.base.at + x, i)
               PROVE  m[u.base.r][u.base.at + x] = E[i]
    BY <1>1 DEF Agrees
  <1>4. i = u.off + x
    <2>1. Home(a, iovs, u.base.r, u.base.at + x, u.off + x)
      BY HomeVec
    <2> QED BY <1>3, <2>1, HomeOne
  <1>5. i \in BytesOf(u) /\ u.base.at + (i - u.off) = u.base.at + x
    <2> HIDE DEF u
    <2> QED BY <1>3, <1>4 DEF BytesOf
  <1>6. CASE \A v \in Range(batch) : i \notin BytesOf(v)
    <2>1. E[i] = data[i] /\ Synced(data, m, a, iovs, u)
      BY <1>1, <1>5, <1>6 DEF WrittenByte
    <2> QED BY <2>1 DEF Synced, Agrees
  <1>7. CASE \E v \in Range(batch) : i \in BytesOf(v) /\ E[i] = m[v.base.r][v.base.at + (i - v.off)]
    <2>1. PICK v \in Range(batch) : i \in BytesOf(v) /\ E[i] = m[v.base.r][v.base.at + (i - v.off)]
      BY <1>7
    <2>2. v.len # 0
      <3>1. v \in VecType
        BY DEF BatchOf
      <3> QED BY <2>1, <3>1 DEF BytesOf, VecType
    <2>3. PICK h \in DOMAIN a.aligned : v = a.aligned[h]
      BY <2>2 DEF BatchOf
    <2>4. v = u
      BY <1>2, <1>5, <2>1, <2>3, SameVector
    <2> QED BY <1>5, <2>1, <2>4
  <1> QED BY <1>1, <1>6, <1>7 DEF WrittenByte

(* A write changes bytes on pages of its call only.                        *)
LEMMA WriteOnPages ==
    ASSUME NEW a, NEW iovs, Placed(a, iovs), NEW batch, BatchOf(a, batch),
           NEW m, NEW E, E = WrittenFrom(m, batch), NEW i \in DOMAIN data, E[i] # data[i]
    PROVE  i \div PageSize \in Pages(iovs)
  <1>1. WrittenByte(m, E, batch, i)
    BY WrittenFromIs
  <1>2. PICK v \in Range(batch) : i \in BytesOf(v)
    BY <1>1 DEF WrittenByte
  <1>3. v.len # 0
    <2>1. v \in VecType
      BY DEF BatchOf
    <2> QED BY <1>2, <2>1 DEF BytesOf, VecType
  <1>4. PICK h \in DOMAIN a.aligned : v = a.aligned[h]
    BY <1>3 DEF BatchOf
  <1>5. VecFits(a, iovs, v)
    BY <1>4 DEF Placed, Fits
  <1> QED BY <1>2, <1>5 DEF VecFits

(* What agrees with the object on the pages of a call does so after a      *)
(* write to other pages.                                                   *)
LEMMA AgreesElsewhere ==
    ASSUME NEW a, NEW iovs, Placed(a, iovs), NEW m, NEW D, NEW E, DOMAIN E = DOMAIN D,
           \A i \in DOMAIN D : i \div PageSize \in Pages(iovs) => E[i] = D[i],
           NEW j \in DOMAIN a.aligned, Synced(D, m, a, iovs, a.aligned[j])
    PROVE  Synced(E, m, a, iovs, a.aligned[j])
  <1> DEFINE u == a.aligned[j]
  <1>1. u \in VecType /\ VecFits(a, iovs, u)
    BY DEF Placed, ArgsType, Fits
  <1>2. u.base.r \in Nat /\ u.base.at \in Nat /\ u.len \in Nat /\ u.off \in Nat
    BY <1>1 DEF VecType, BaseType
  <1> SUFFICES ASSUME NEW x \in 0..(u.len - 1), NEW i \in DOMAIN D,
                      Home(a, iovs, u.base.r, u.base.at + x, i)
               PROVE  m[u.base.r][u.base.at + x] = E[i]
    BY DEF Synced, Agrees
  <1>3. i = u.off + x
    <2>1. Home(a, iovs, u.base.r, u.base.at + x, u.off + x)
      BY HomeVec
    <2> QED BY <1>2, <2>1, HomeOne
  <1>4. i \in BytesOf(u)
    <2> HIDE DEF u
    <2> QED BY <1>2, <1>3 DEF BytesOf
  <1>5. E[i] = D[i]
    BY <1>1, <1>4 DEF VecFits
  <1>6. m[u.base.r][u.base.at + x] = D[i]
    BY DEF Synced, Agrees
  <1> QED BY <1>5, <1>6

------------------------------------------------------------------------------
(***************************************************************************)
(* The copies of a write go to pages of the driver's, those of a page to   *)
(* different positions.                                                    *)
(***************************************************************************)
CopiesApart(a) ==
    /\ \A i \in DOMAIN a.dc : a.dc[i].page.r > a.iovcnt
    /\ \A i, j \in DOMAIN a.dc : i < j /\ a.dc[i].page = a.dc[j].page
                                   => a.dc[i].off + a.dc[i].len <= a.dc[j].off

(* Copies to the same region are to the same page.                         *)
LEMMA SamePage ==
    ASSUME NEW a, NEW iovs, Placed(a, iovs), CopiesApart(a), NEW g \in DOMAIN a.dc, NEW h \in DOMAIN a.dc,
           a.dc[g].page.r = a.dc[h].page.r
    PROVE  a.dc[g].page = a.dc[h].page
  <1>1. PICK i \in DOMAIN a.aligned : CopyOf(a, iovs, a.dc[g], a.aligned[i])
    BY CopyIsInside
  <1>2. PICK j \in DOMAIN a.aligned : CopyOf(a, iovs, a.dc[h], a.aligned[j])
    BY CopyIsInside
  <1>3. a.dc[g].page = a.aligned[i].base /\ a.dc[h].page = a.aligned[j].base
    BY <1>1, <1>2 DEF CopyOf
  <1>4. a.aligned[i].base.r > a.iovcnt /\ a.aligned[i].base.r = a.aligned[j].base.r
    BY <1>3 DEF CopiesApart
  <1>5. a.iovcnt \in Nat /\ a.aligned[i].base.r \in Nat
    <2>1. a.aligned[i] \in VecType /\ a.iovcnt \in Nat
      BY DEF Placed, ArgsType
    <2> QED BY <2>1 DEF VecType, BaseType
  <1>6. ~(a.aligned[i].base.r <= a.iovcnt)
    BY <1>4, <1>5
  <1>7. i = j
    BY <1>4, <1>6 DEF Placed, Fits, OwnPages
  <1> QED BY <1>3, <1>7

(* Copies to pages leave one another's bytes alone.                        *)
LEMMA CopiesMiss ==
    ASSUME NEW a, NEW iovs, Placed(a, iovs), CopiesApart(a), NEW g \in DOMAIN a.dc, NEW h \in DOMAIN a.dc, g < h,
           NEW x \in 0..(a.dc[g].len - 1), NEW y \in 0..(a.dc[h].len - 1),
           a.dc[g].page.r = a.dc[h].page.r
    PROVE  a.dc[g].page.at + a.dc[g].off + x # a.dc[h].page.at + a.dc[h].off + y
  <1> DEFINE c == a.dc[g]
             d == a.dc[h]
  <1>1. c \in CopyType /\ d \in CopyType
    BY DEF Placed, ArgsType
  <1>2. c.page = d.page
    BY SamePage
  <1>3. c.off + c.len <= d.off
    BY <1>2 DEF CopiesApart
  <1> HIDE DEF c, d
  <1>4. c.off \in Nat /\ c.len \in Nat /\ d.off \in Nat /\ d.len \in Nat /\ c.page.at \in Nat
    BY <1>1 DEF CopyType, BaseType
  <1>5. x \in 0..(c.len - 1) /\ y \in 0..(d.len - 1)
    BY DEF c, d
  <1>6. c.page.at + c.off + x # c.page.at + d.off + y
    BY <1>3, <1>4, <1>5
  <1> QED BY <1>2, <1>6 DEF c, d

(* What the first n copies have done to the memory m.                      *)
CopiedIn(a, iovs, S, m, b, n) ==
    /\ \A r \in 1..Len(iovs) : \A k \in S[r] : b[r][k] = m[r][k]
    /\ \A h \in 1..n : \A x \in 0..(a.dc[h].len - 1) :
         b[a.dc[h].page.r][a.dc[h].page.at + a.dc[h].off + x] = m[a.dc[h].app.r][a.dc[h].app.at + x]
    /\ \A r \in DOMAIN S : \A k \in S[r] :
         \/ b[r][k] = m[r][k]
         \/ \E h \in 1..n : r = a.dc[h].page.r /\ \E x \in 0..(a.dc[h].len - 1) :
              k = a.dc[h].page.at + a.dc[h].off + x

(* One more copy.                                                          *)
LEMMA CopyInStep ==
    ASSUME NEW a, NEW iovs, Placed(a, iovs), CopiesApart(a), NEW S, S = ShapeOf(iovs, a.pages),
           NEW m, Shaped(m, S), NEW b, Shaped(b, S), NEW n \in Nat, n + 1 \in DOMAIN a.dc,
           CopiedIn(a, iovs, S, m, b, n), NEW e, e = CopyStep(TRUE, b, a.dc[n + 1])
    PROVE  CopiedIn(a, iovs, S, m, e, n + 1)
  <1> DEFINE c == a.dc[n + 1]
             dst == Plus(c.page, c.off)
  <1>1. iovs \in Seq(Ranges) /\ a.pages \in Nat
    BY DEF Placed, ArgsType
  <1>2. /\ IsShape(S) /\ DOMAIN S = 1..(Len(iovs) + a.pages)
        /\ \A r \in 1..Len(iovs) : r \in DOMAIN S /\ S[r] = 0..(iovs[r].len - 1) /\ iovs[r].len \in Nat
    <2>1. HasShape(S, iovs, a.pages)
      BY <1>1, ShapeIs
    <2> QED BY <2>1 DEF HasShape
  <1>3. CopyInside(S, TRUE, c) /\ c \in CopyType
    BY CopyIsInside
  <1>4. c.len \in Nat /\ Inside(S, dst, c.len) /\ Inside(S, c.app, c.len)
    BY <1>3 DEF CopyInside, Target, Source
  <1>5. dst.r = c.page.r /\ dst.at = c.page.at + c.off
    BY DEF Plus, Base
  <1>6. e = mio_mem_copy(b, dst, c.app, c.len)
    BY DEF CopyStep
  <1> HIDE DEF dst
  <1>7. Copied(S, b, e, dst, c.app, c.len)
    <2> HIDE DEF c
    <2>1. Copied(S, b, mio_mem_copy(b, dst, c.app, c.len), dst, c.app, c.len)
      BY <1>2, <1>4, CopyOne
    <2> QED BY <1>6, <2>1
  <1>8. ASSUME NEW r \in DOMAIN S, NEW k \in S[r]
        PROVE  \/ e[r][k] = b[r][k]
               \/ r = c.page.r /\ \E x \in 0..(c.len - 1) : k = c.page.at + c.off + x
    <2> HIDE DEF c
    <2>1. \/ e[r][k] = b[r][k]
          \/ r = dst.r /\ \E x \in 0..(c.len - 1) : k = dst.at + x
      BY <1>7 DEF Copied
    <2> QED BY <1>5, <2>1
  <1>9. c.page.r > Len(iovs) /\ c.page.r \in Nat /\ Len(iovs) \in Nat
    BY <1>1, <1>3 DEF CopiesApart, Placed, Fits, CopyType, BaseType
  <1>10. ASSUME NEW r \in 1..Len(iovs), NEW k \in S[r] PROVE e[r][k] = m[r][k]
    <2>1. r \in DOMAIN S /\ r # c.page.r
      BY <1>2, <1>9
    <2> QED BY <1>8, <2>1 DEF CopiedIn
  <1>11. ASSUME NEW h \in 1..(n + 1), NEW x \in 0..(a.dc[h].len - 1)
         PROVE  e[a.dc[h].page.r][a.dc[h].page.at + a.dc[h].off + x] = m[a.dc[h].app.r][a.dc[h].app.at + x]
    <2>1. CASE h = n + 1
      <3>1. e[c.page.r][c.page.at + c.off + x] = b[c.app.r][c.app.at + x]
        BY <1>5, <1>7, <2>1 DEF Copied
      <3>2. PICK j \in DOMAIN a.aligned : CopyOf(a, iovs, c, a.aligned[j])
        BY CopyIsInside
      <3>3. c.app.r \in 1..Len(iovs)
        BY <3>2 DEF CopyOf, Within
      <3>4. c.app.at + x \in S[c.app.r]
        BY <1>4, <2>1 DEF Inside
      <3>5. b[c.app.r][c.app.at + x] = m[c.app.r][c.app.at + x]
        BY <3>3, <3>4 DEF CopiedIn
      <3> QED BY <2>1, <3>1, <3>5
    <2>2. CASE h # n + 1
      <3> DEFINE d == a.dc[h]
                 k == d.page.at + d.off + x
      <3>1. h \in 1..n /\ h < n + 1
        BY <2>2
      <3>2. h \in DOMAIN a.dc
        <4>1. DOMAIN a.dc = 1..Len(a.dc) /\ Len(a.dc) \in Nat
          BY DEF Placed, ArgsType
        <4> QED BY <3>1, <4>1
      <3>3. b[d.page.r][k] = m[d.app.r][d.app.at + x]
        BY <3>1 DEF CopiedIn
      <3>4. d.page.r \in DOMAIN S /\ k \in S[d.page.r]
        <4>1. CopyInside(S, TRUE, d)
          BY <3>2, CopyIsInside
        <4>2. Inside(S, Plus(d.page, d.off), d.len)
          BY <4>1 DEF CopyInside, Target
        <4> QED BY <4>2 DEF Inside, Plus, Base
      <3>5. ~(d.page.r = c.page.r /\ \E y \in 0..(c.len - 1) : k = c.page.at + c.off + y)
        BY <3>1, <3>2, CopiesMiss
      <3>6. e[d.page.r][k] = b[d.page.r][k]
        BY <1>8, <3>4, <3>5
      <3> QED BY <3>3, <3>6
    <2> QED BY <2>1, <2>2
  <1>12. ASSUME NEW r \in DOMAIN S, NEW k \in S[r]
         PROVE  \/ e[r][k] = m[r][k]
                \/ \E h \in 1..(n + 1) : r = a.dc[h].page.r /\ \E x \in 0..(a.dc[h].len - 1) :
                     k = a.dc[h].page.at + a.dc[h].off + x
    <2>1. n + 1 \in 1..(n + 1) /\ \A h \in 1..n : h \in 1..(n + 1)
      OBVIOUS
    <2>2. CASE e[r][k] = b[r][k]
      BY <2>1, <2>2 DEF CopiedIn
    <2>3. CASE r = c.page.r /\ \E x \in 0..(c.len - 1) : k = c.page.at + c.off + x
      BY <2>1, <2>3
    <2> QED BY <1>8, <2>2, <2>3
  <1> QED BY <1>10, <1>11, <1>12 DEF CopiedIn

(* All of them.                                                            *)
LEMMA CopyIn ==
    ASSUME NEW a, NEW iovs, Placed(a, iovs), a.is_write = TRUE, CopiesApart(a), NEW S,
           S = ShapeOf(iovs, a.pages), NEW m, Shaped(m, S), NEW b, b = motr_obj_data_copy(m, a)
    PROVE  Shaped(b, S) /\ CopiedIn(a, iovs, S, m, b, Len(a.dc))
  <1> DEFINE N == Len(a.dc)
  <1>1. a \in ArgsType /\ iovs \in Seq(Ranges) /\ a.pages \in Nat
    BY DEF Placed, ArgsType
  <1>2. N \in Nat /\ DOMAIN a.dc = 1..N /\ N \in 0..N
    BY <1>1 DEF ArgsType
  <1>3. IsShape(S)
    <2>1. HasShape(S, iovs, a.pages)
      BY <1>1, ShapeIs
    <2> QED BY <2>1 DEF HasShape
  <1>4. PICK run : /\ run[0] = m /\ run[Len(a.dc)] = b
                   /\ \A k \in 0..Len(a.dc) : Shaped(run[k], S)
                   /\ \A k \in 1..Len(a.dc) : run[k] = CopyStep(a.is_write, run[k - 1], a.dc[k])
    <2>1. \A i \in 1..Len(a.dc) : CopyInside(S, a.is_write, a.dc[i])
      BY <1>2, CopyIsInside
    <2> QED BY <1>1, <1>3, <2>1, CopyRun
  <1> DEFINE T == {k \in 0..N : CopiedIn(a, iovs, S, m, run[k], k)}
  <1>5. 0 \in T
    BY <1>2, <1>4 DEF CopiedIn
  <1>6. ASSUME NEW k \in 0..(N - 1), k \in T PROVE k + 1 \in T
    <2>1. k + 1 \in 1..N /\ k \in 0..N /\ k \in Nat /\ (k + 1) - 1 = k /\ k + 1 \in 0..N
      BY <1>2
    <2>2. run[k + 1] = CopyStep(TRUE, run[k], a.dc[k + 1]) /\ Shaped(run[k], S) /\ k + 1 \in DOMAIN a.dc
      BY <1>2, <1>4, <2>1
    <2>3. CopiedIn(a, iovs, S, m, run[k], k)
      BY <1>6
    <2>4. CopiedIn(a, iovs, S, m, run[k + 1], k + 1)
      BY <2>1, <2>2, <2>3, CopyInStep
    <2> QED BY <2>1, <2>4
  <1>7. 0..N \subseteq T
    <2> HIDE DEF T
    <2> QED BY <1>2, <1>5, <1>6, Induct
  <1> QED BY <1>2, <1>4, <1>7

------------------------------------------------------------------------------
(***************************************************************************)
(* A call that has launched the next vectors of its list which.            *)
(***************************************************************************)
Launches(c, d, which, opcode) ==
    /\ d.step = c.step /\ d.iovs = c.iovs /\ d.args = c.args /\ d.opcode = opcode /\ d.executed = FALSE
    /\ \A v \in Range(d.batch) : \E j \in DOMAIN c.args[which] : v = c.args[which][j]
    /\ \A j \in DOMAIN c.args[which] : j <= d.progress[which] =>
         j <= c.progress[which] \/ c.args[which][j] \in Range(d.batch)
    /\ which = "rbw" => d.progress.aligned = c.progress.aligned
    /\ which = "rbw" /\ c.progress.rbw = 0 /\ SumLen(c.args.rbw) <= MaxSizePerOp =>
         d.progress.rbw = Len(c.args.rbw) /\ d.batch = c.args.rbw

(* The vectors that fit one operation are all taken.                       *)
LEMMA TakesAll ==
    ASSUME NEW s \in Seq(VecType), SumLen(s) <= MaxSizePerOp
    PROVE  NextCursor(s, 0) = Len(s) /\ SubSeq(s, 1, Len(s)) = s
  <1> DEFINE n == Len(s)
             T == {c \in 0..n : SumLen(SubSeq(s, 0 + 1, c)) <= MaxSizePerOp}
  <1>1. n \in Nat /\ SubSeq(s, 1, n) = s
    OBVIOUS
  <1>2. n \in T
    <2>1. 0 + 1 = 1 /\ n \in 0..n
      BY <1>1
    <2> QED BY <1>1, <2>1
  <1>3. T \in SUBSET Nat /\ \A c \in T : c <= n
    BY <1>1
  <1> HIDE DEF T, n
  <1>4. Max(T) \in T /\ n <= Max(T)
    BY <1>1, <1>2, <1>3, Greatest
  <1>5. Max(T) = n
    <2>1. Max(T) <= n /\ Max(T) \in Nat
      BY <1>3, <1>4
    <2>2. n \in Nat
      BY <1>1
    <2> QED BY <1>4, <2>1, <2>2
  <1>6. NextCursor(s, 0) = Max(T)
    BY DEF NextCursor, T, n
  <1> QED BY <1>1, <1>5, <1>6 DEF n

(* motr_obj_rw_aligned launches, or the call fails.                        *)
LEMMA LaunchIs ==
    ASSUME NEW c, CallOK(c), c.iovs # <<>>,
           NEW which \in {"rbw", "aligned"}, NEW opcode \in {"READ", "WRITE"},
           NEW d, d = motr_obj_rw_aligned(c, which, opcode)
    PROVE  d.step = "failed" \/ Launches(c, d, which, opcode)
  <1> DEFINE list == c.args[which]
             cur  == c.progress[which]
             next == NextCursor(list, cur)
             part == SubSeq(list, cur + 1, next)
             p    == [c.progress EXCEPT ![which] = next]
  <1>1. /\ c \in CallType /\ c.args \in ArgsType /\ c.progress \in [rbw : Nat, aligned : Nat]
        /\ c.progress.rbw <= Len(c.args.rbw) /\ c.progress.aligned <= Len(c.args.aligned)
    BY DEF CallOK, CallType
  <1>2. list \in Seq(VecType) /\ cur \in Nat /\ cur <= Len(list) /\ Len(list) \in Nat
    <2>1. CASE which = "rbw"
      BY <1>1, <2>1 DEF ArgsType
    <2>2. CASE which = "aligned"
      BY <1>1, <2>2 DEF ArgsType
    <2> QED BY <2>1, <2>2
  <1>3. next \in cur..Len(list)
    BY <1>2, NextCursorIs
  <1>4. d = IF next = cur THEN Ended(c, "failed")
            ELSE [c EXCEPT !.progress[which] = next, !.batch = part, !.opcode = opcode, !.executed = FALSE]
    BY DEF motr_obj_rw_aligned
  <1>5. CASE next = cur
    BY <1>4, <1>5 DEF Ended, NoCall
  <1>6. CASE next # cur
    <2>1. /\ p[which] = next /\ (which = "rbw" => p.aligned = c.progress.aligned /\ p.rbw = next)
      <3> HIDE DEF next, list, cur
      <3> QED BY <1>1
    <2>2. d = [c EXCEPT !.progress = p, !.batch = part, !.opcode = opcode, !.executed = FALSE]
      BY <1>4, <1>6
    <2>3. part \in Seq(VecType) /\ DOMAIN part = 1..(next - cur) /\ \A i \in 1..(next - cur) : part[i] = list[cur + i]
      <3> HIDE DEF next, list, cur
      <3> QED BY <1>2, <1>3
    <2> HIDE DEF p, part
    <2>4. /\ d.step = c.step /\ d.iovs = c.iovs /\ d.args = c.args
          /\ d.progress = p /\ d.batch = part /\ d.opcode = opcode /\ d.executed = FALSE
      BY <1>1, <2>2 DEF CallType
    <2>5. ASSUME NEW v \in Range(part) PROVE \E j \in DOMAIN list : v = list[j]
      <3> HIDE DEF next, list, cur
      <3>1. PICK i \in 1..(next - cur) : v = list[cur + i]
        BY <2>3 DEF Range
      <3>2. cur + i \in DOMAIN list
        BY <1>2, <1>3
      <3> QED BY <3>1, <3>2
    <2>6. ASSUME NEW j \in DOMAIN list, j <= next PROVE j <= cur \/ list[j] \in Range(part)
      <3> HIDE DEF next, list, cur
      <3>1. j \in Nat
        BY <1>2
      <3>2. CASE j > cur
        <4>1. j - cur \in 1..(next - cur) /\ cur + (j - cur) = j
          BY <1>2, <1>3, <2>6, <3>1, <3>2
        <4>2. j - cur \in DOMAIN part /\ part[j - cur] = list[j]
          BY <2>3, <4>1
        <4> QED BY <4>2 DEF Range
      <3> QED BY <1>2, <3>1, <3>2
    <2>7. ASSUME which = "rbw", c.progress.rbw = 0, SumLen(c.args.rbw) <= MaxSizePerOp
          PROVE  next = Len(c.args.rbw) /\ part = c.args.rbw
      <3>1. list = c.args.rbw /\ cur = 0 /\ cur + 1 = 1
        BY <2>7
      <3>2. NextCursor(list, 0) = Len(list) /\ SubSeq(list, 1, Len(list)) = list
        <4> HIDE DEF list
        <4> QED BY <1>2, <2>7, <3>1, TakesAll
      <3> QED BY <3>1, <3>2 DEF part
    <2> QED BY <2>1, <2>4, <2>5, <2>6, <2>7 DEF Launches
  <1> QED BY <1>5, <1>6

(***************************************************************************)
(* The bytes of a call in flight: the object is D and its memory m.        *)
(***************************************************************************)
Busy == {"rbw", "write", "read"}

Laid(c, m) ==
    /\ Placed(c.args, c.iovs) /\ AllCovered(c.args, c.iovs) /\ BatchOf(c.args, c.batch)
    /\ Shaped(m, ShapeOf(c.iovs, c.args.pages))

(* The vectors that have been launched agree with the object, but for      *)
(* those of an operation that has not been executed.                       *)
Transferred(c, m, D) ==
    \A j \in DOMAIN c.args.aligned : j <= c.progress.aligned =>
        \/ Synced(D, m, c.args, c.iovs, c.args.aligned[j])
        \/ ~c.executed /\ c.args.aligned[j] \in Range(c.batch)

ReadBytes(c, m, D) == c.args.is_write = FALSE /\ c.opcode = "READ" /\ Transferred(c, m, D)

(* A write has its data in the buffers; once the pages are read, also in   *)
(* them.                                                                   *)
WriteLists(a) ==
    /\ a.is_write = TRUE /\ CopiesApart(a) /\ Disjoint(a.aligned) /\ BatchOf(a, a.rbw)
    /\ \A v \in Range(a.rbw) : v.base.r > a.iovcnt

BuffersHold(o, c, m) ==
    \A n \in 1..Len(c.iovs) : \A k \in 0..(c.iovs[n].len - 1) : m[n][k] = AppByte(o, n, k)

PagesHold(o, c, m) ==
    \A h \in 1..Len(c.args.dc) : \A x \in 0..(c.args.dc[h].len - 1) :
        m[c.args.dc[h].page.r][c.args.dc[h].page.at + c.args.dc[h].off + x] =
            AppByte(o, c.args.dc[h].app.r, c.args.dc[h].app.at + x)

(* They depend on the call through its vectors and its lists only.         *)
LEMMA HoldAgain ==
    ASSUME NEW o, NEW c, NEW d, NEW m, d.args = c.args, d.iovs = c.iovs,
           BuffersHold(o, c, m), PagesHold(o, c, m)
    PROVE  BuffersHold(o, d, m) /\ PagesHold(o, d, m)
  <1>1. BuffersHold(o, d, m)
    BY DEF BuffersHold
  <1>2. ASSUME NEW h \in 1..Len(d.args.dc), NEW x \in 0..(d.args.dc[h].len - 1)
        PROVE  m[d.args.dc[h].page.r][d.args.dc[h].page.at + d.args.dc[h].off + x] =
                 AppByte(o, d.args.dc[h].app.r, d.args.dc[h].app.at + x)
    <2> DEFINE g == c.args.dc[h]
    <2>1. d.args.dc[h] = g /\ h \in 1..Len(c.args.dc) /\ x \in 0..(g.len - 1)
      BY <1>2
    <2>2. m[g.page.r][g.page.at + g.off + x] = AppByte(o, g.app.r, g.app.at + x)
      BY <2>1 DEF PagesHold
    <2> HIDE DEF g
    <2> QED BY <2>1, <2>2
  <1> QED BY <1>1, <1>2 DEF PagesHold

WriteBytes(o, c, m, D) ==
    /\ WriteLists(c.args) /\ BuffersHold(o, c, m)
    /\ c.step = "write" => c.opcode = "WRITE" /\ PagesHold(o, c, m) /\ Transferred(c, m, D)
    /\ c.step = "rbw" => Range(c.batch) \subseteq Range(c.args.rbw) /\ c.progress.aligned = 0

CallBytes(o, c, m, D) ==
    c.step \in Busy => /\ Laid(c, m)
                       /\ c.step = "read" => ReadBytes(c, m, D)
                       /\ c.step # "read" => WriteBytes(o, c, m, D)

(* All vectors that have been launched agree with the object.              *)
AllSynced(c, m, D) ==
    \A j \in DOMAIN c.args.aligned : j <= c.progress.aligned =>
        Synced(D, m, c.args, c.iovs, c.args.aligned[j])

(* A launch of vectors of the list aligned, when those launched before     *)
(* agree with the object.                                                  *)
LEMMA LaunchAligned ==
    ASSUME NEW c, NEW d, NEW opcode, Launches(c, d, "aligned", opcode), NEW m, Laid(c, m), NEW D,
           AllSynced(c, m, D)
    PROVE  Laid(d, m) /\ Transferred(d, m, D)
  <1>1. /\ d.iovs = c.iovs /\ d.args = c.args /\ d.executed = FALSE
        /\ \A v \in Range(d.batch) : \E j \in DOMAIN c.args.aligned : v = c.args.aligned[j]
        /\ \A j \in DOMAIN c.args.aligned : j <= d.progress.aligned =>
             j <= c.progress.aligned \/ c.args.aligned[j] \in Range(d.batch)
    BY DEF Launches
  <1>2. BatchOf(c.args, d.batch)
    <2>1. c.args \in ArgsType
      BY DEF Laid, Placed
    <2>2. \A j \in DOMAIN c.args.aligned : c.args.aligned[j] \in VecType
      BY <2>1 DEF ArgsType
    <2> QED BY <1>1, <2>2 DEF BatchOf
  <1>3. Laid(d, m)
    BY <1>1, <1>2 DEF Laid
  <1>4. Transferred(d, m, D)
    BY <1>1 DEF Transferred, AllSynced
  <1> QED BY <1>3, <1>4

(* The first regions of a memory.                                          *)
LEMMA FirstRegions ==
    ASSUME NEW n \in Nat, NEW b, b = [r \in 1..n |-> b[r]], NEW k \in 0..n
    PROVE  SubSeq(b, 1, k) = [r \in 1..k |-> b[r]]
  <1> DEFINE T == {b[r] : r \in 1..n}
  <1>1. b \in Seq(T) /\ Len(b) = n
    <2>1. \A r \in 1..n : b[r] \in T
      OBVIOUS
    <2> HIDE DEF T
    <2>2. [r \in 1..n |-> b[r]] \in Seq(T) /\ Len([r \in 1..n |-> b[r]]) = n
      BY <2>1
    <2> QED BY <2>2
  <1> HIDE DEF T
  <1> QED BY <1>1

(* Those of the memory of a call that goes on are all of them.             *)
LEMMA AllRegions ==
    ASSUME NEW a, NEW iovs, Placed(a, iovs), NEW m, Shaped(m, ShapeOf(iovs, a.pages))
    PROVE  SubSeq(m, 1, a.iovcnt + a.pages) = m
  <1> DEFINE n == Len(iovs) + a.pages
             S == ShapeOf(iovs, a.pages)
  <1>1. iovs \in Seq(Ranges) /\ a.pages \in Nat /\ a.iovcnt = Len(iovs) /\ Len(iovs) \in Nat
    BY DEF Placed, ArgsType, Fits
  <1>2. DOMAIN S = 1..n
    <2>1. HasShape(S, iovs, a.pages)
      BY <1>1, ShapeIs
    <2> QED BY <2>1 DEF HasShape
  <1>3. m = [r \in 1..n |-> m[r]]
    BY <1>2 DEF Shaped
  <1>4. n \in Nat /\ n \in 0..n /\ a.iovcnt + a.pages = n
    BY <1>1
  <1> HIDE DEF n
  <1>5. SubSeq(m, 1, n) = [r \in 1..n |-> m[r]]
    BY <1>3, <1>4, FirstRegions
  <1> QED BY <1>3, <1>4, <1>5

(* The memory of a call at first.                                          *)
LEMMA Concatenated ==
    ASSUME NEW l \in Nat, NEW n \in Nat, NEW s, s = [r \in 1..l |-> s[r]],
           NEW t, t = [p \in 1..n |-> t[p]]
    PROVE  /\ s \o t = [r \in 1..(l + n) |-> (s \o t)[r]]
           /\ \A r \in 1..l : (s \o t)[r] = s[r]
           /\ \A r \in 1..(l + n) : r > l => r - l \in 1..n /\ (s \o t)[r] = t[r - l]
  <1> DEFINE B == {s[r] : r \in 1..l} \cup {t[p] : p \in 1..n}
  <1>1. (\A r \in 1..l : s[r] \in B) /\ (\A p \in 1..n : t[p] \in B)
    OBVIOUS
  <1> HIDE DEF B
  <1>2. [r \in 1..l |-> s[r]] \in Seq(B) /\ Len([r \in 1..l |-> s[r]]) = l
    BY <1>1
  <1>3. [p \in 1..n |-> t[p]] \in Seq(B) /\ Len([p \in 1..n |-> t[p]]) = n
    BY <1>1
  <1>4. s \in Seq(B) /\ t \in Seq(B) /\ Len(s) = l /\ Len(t) = n
    BY <1>2, <1>3
  <1>5. \A u, w \in Seq(B) :
          /\ u \o w \in Seq(B) /\ Len(u \o w) = Len(u) + Len(w)
          /\ \A r \in 1..(Len(u) + Len(w)) :
               (u \o w)[r] = IF r <= Len(u) THEN u[r] ELSE w[r - Len(u)]
    OBVIOUS
  <1>6. /\ s \o t \in Seq(B) /\ Len(s \o t) = l + n
        /\ \A r \in 1..(l + n) : (s \o t)[r] = IF r <= l THEN s[r] ELSE t[r - l]
    BY <1>4, <1>5
  <1>7. \A r \in 1..l : r \in 1..(l + n) /\ r <= l
    OBVIOUS
  <1>8. \A r \in 1..(l + n) : r > l => r - l \in 1..n /\ ~(r <= l)
    OBVIOUS
  <1>9. \A w \in Seq(B) : w = [r \in 1..Len(w) |-> w[r]]
    OBVIOUS
  <1>10. s \o t = [r \in 1..(l + n) |-> (s \o t)[r]]
    BY <1>6, <1>9
  <1> QED BY <1>6, <1>7, <1>8, <1>10

(* What a memory holds when a call begins.                                 *)
Starts(o, iovs, pages, m) ==
    /\ \A n \in 1..Len(iovs) : \A k \in 0..(iovs[n].len - 1) : m[n][k] = AppByte(o, n, k)
    /\ \A r \in 1..(Len(iovs) + pages) : \A k \in 0..(PageSize - 1) :
         r > Len(iovs) => m[r][k] = Zero

(* The memory of a call begins with the buffers and zeroed pages.          *)
LEMMA MemoryBegins ==
    ASSUME NEW o, NEW iovs \in Seq(Ranges), NEW pages \in Nat
    PROVE  /\ Shaped(Buffers(o, iovs) \o ZeroPages(pages), ShapeOf(iovs, pages))
           /\ Starts(o, iovs, pages, Buffers(o, iovs) \o ZeroPages(pages))
  <1> DEFINE S == ShapeOf(iovs, pages)
             l == Len(iovs)
             s == Buffers(o, iovs)
             t == ZeroPages(pages)
             m == s \o t
  <1>1. l \in Nat /\ DOMAIN iovs = 1..l
    OBVIOUS
  <1>2. /\ s = [n \in 1..l |-> s[n]] /\ t = [p \in 1..pages |-> t[p]]
        /\ \A n \in 1..l : s[n] = [k \in 0..(iovs[n].len - 1) |-> AppByte(o, n, k)]
        /\ \A p \in 1..pages : t[p] = [k \in 0..(PageSize - 1) |-> Zero]
    BY <1>1 DEF Buffers, ZeroPages
  <1> HIDE DEF s, t
  <1>3. /\ m = [r \in 1..(l + pages) |-> m[r]] /\ \A r \in 1..l : m[r] = s[r]
        /\ \A r \in 1..(l + pages) : r > l => r - l \in 1..pages /\ m[r] = t[r - l]
    <2> HIDE DEF l
    <2> QED BY <1>1, <1>2, Concatenated, SMTT(30)
  <1> HIDE DEF m
  <1>4. /\ DOMAIN S = 1..(l + pages)
        /\ \A r \in 1..l : S[r] = 0..(iovs[r].len - 1)
        /\ \A r \in DOMAIN S : r > l => S[r] = 0..(PageSize - 1)
    <2>1. HasShape(S, iovs, pages)
      BY ShapeIs
    <2> QED BY <2>1 DEF HasShape
  <1> HIDE DEF S
  <1>5. \A r \in 1..l : m[r] = [k \in 0..(iovs[r].len - 1) |-> AppByte(o, r, k)]
    BY <1>2, <1>3
  <1>6. \A r \in 1..(l + pages) : r > l => m[r] = [k \in 0..(PageSize - 1) |-> Zero]
    BY <1>2, <1>3
  <1>7. \A r \in 1..(l + pages) : r \in 1..l \/ r > l
    BY <1>1
  <1> HIDE DEF l
  <1>8. ASSUME NEW r \in 1..(l + pages) PROVE m[r] = [k \in S[r] |-> m[r][k]]
    <2>1. CASE r \in 1..l
      <3>1. m[r] = [k \in S[r] |-> AppByte(o, r, k)]
        BY <1>4, <1>5, <2>1
      <3> QED BY <3>1
    <2>2. CASE r > l
      <3>1. m[r] = [k \in S[r] |-> Zero]
        BY <1>4, <1>6, <2>2
      <3> QED BY <3>1
    <2> QED BY <1>7, <2>1, <2>2
  <1>9. Shaped(m, S)
    BY <1>3, <1>4, <1>8 DEF Shaped
  <1>10. \A n \in 1..l : \A k \in 0..(iovs[n].len - 1) : m[n][k] = AppByte(o, n, k)
    BY <1>5
  <1>11. \A r \in 1..(l + pages) : \A k \in 0..(PageSize - 1) : r > l => m[r][k] = Zero
    BY <1>6
  <1>12. Starts(o, iovs, pages, m)
    BY <1>10, <1>11 DEF Starts, l
  <1> QED BY <1>9, <1>12 DEF S, m, s, t

(* Which vectors motr_obj_read_before_write_optimise makes empty is not    *)
(* said here, but where they are.                                          *)
LEMMA OptimisedBases ==
    ASSUME NEW a \in ArgsType, NEW b, b = motr_obj_read_before_write_optimise(a)
    PROVE  /\ b.size = a.size
           /\ \A i \in 1..Len(b.rbw) : b.rbw[i] = a.rbw[i] \/ b.rbw[i] = Iov(0, 0, a.rbw[i].base)
  <1>1. DOMAIN a.rbw = 1..Len(a.rbw) /\ Len(b.rbw) = Len(a.rbw)
    BY OptimisedIs DEF ArgsType
  <1> QED BY <1>1 DEF motr_obj_read_before_write_optimise, ArgsType

(* The lists of a write.                                                   *)
LEMMA WriteListsBegin ==
    ASSUME PageSized, moa_size \in Nat, NEW iovs \in Seq(Ranges),
           ~Overlapping(motr_obj_iovec_sort(WithBuffers(iovs))),
           NEW b, b = motr_obj_read_before_write_optimise(Adjusted(TRUE, iovs))
    PROVE  Placed(b, iovs) /\ AllCovered(b, iovs) /\ WriteLists(b) /\ b.size = moa_size
  <1> DEFINE a == Adjusted(TRUE, iovs)
  <1>1. /\ Ready(a, iovs) /\ a.size = moa_size /\ a.is_write = TRUE /\ AllCovered(a, iovs)
        /\ \E e \in Nat : Tidy(a, iovs, e)
    BY AdjustedHolds
  <1>2. b = motr_obj_read_before_write_optimise(a)
    OBVIOUS
  <1> HIDE DEF a
  <1>3. PICK e \in Nat : Tidy(a, iovs, e)
    BY <1>1
  <1>4. a \in ArgsType /\ Fits(a, iovs)
    BY <1>1 DEF Ready
  <1>5. /\ b \in ArgsType /\ b.is_write = a.is_write /\ b.iovcnt = a.iovcnt
        /\ b.aligned = a.aligned /\ b.dc = a.dc /\ b.pages = a.pages /\ Len(b.rbw) = Len(a.rbw)
    BY <1>2, <1>4, OptimisedIs
  <1>6. /\ b.size = a.size
        /\ \A i \in 1..Len(b.rbw) : b.rbw[i] = a.rbw[i] \/ b.rbw[i] = Iov(0, 0, a.rbw[i].base)
    BY <1>2, <1>4, OptimisedBases
  <1>7. Placed(b, iovs)
    BY <1>4, <1>5, ZenonT(30) DEF Placed, Fits, OwnPages, VecFits, CopyFits
  <1>8. AllCovered(b, iovs)
    BY <1>1, <1>5 DEF AllCovered, Covered
  <1>9. CopiesApart(b)
    <2>1. CopiesApart(a)
      BY <1>3 DEF Tidy, CopiesTidy, CopiesApart
    <2>2. b.dc = a.dc /\ b.iovcnt = a.iovcnt
      BY <1>5
    <2> DEFINE P(dc, l) == CopiesApart([dc |-> dc, iovcnt |-> l])
    <2>3. \A x : CopiesApart(x) <=> P(x.dc, x.iovcnt)
      BY DEF CopiesApart
    <2> HIDE DEF P
    <2> QED BY <2>1, <2>2, <2>3
  <1>10. Disjoint(b.aligned)
    <2>1. Ordered(a.aligned) /\ a.aligned \in Seq(VecType)
      BY <1>3, <1>4 DEF Tidy, InOrder, ArgsType
    <2> QED BY <1>5, <2>1, OrderedDisjoint
  <1>11. ASSUME NEW v \in Range(b.rbw)
         PROVE  /\ v \in VecType /\ (v.len = 0 \/ \E j \in DOMAIN b.aligned : v = b.aligned[j])
                /\ v.base.r > b.iovcnt
    <2>7. b.rbw \in Seq(VecType) /\ a.rbw \in Seq(VecType)
      BY <1>4, <1>5 DEF ArgsType
    <2>8. \A s \in Seq(VecType) : DOMAIN s = 1..Len(s) /\ \A i \in DOMAIN s : s[i] \in VecType
      OBVIOUS
    <2>1. DOMAIN b.rbw = 1..Len(b.rbw) /\ DOMAIN a.rbw = 1..Len(a.rbw)
      BY <2>7, <2>8
    <2>9. Len(b.rbw) = Len(a.rbw)
      BY <1>5
    <2>2. PICK i \in 1..Len(b.rbw) : v = b.rbw[i]
      BY <2>1 DEF Range
    <2>3. v \in VecType /\ i \in DOMAIN a.rbw
      BY <2>1, <2>2, <2>7, <2>8, <2>9
    <2>4. a.rbw[i].base.r > a.iovcnt /\ \E j \in DOMAIN a.aligned : a.aligned[j] = a.rbw[i]
      BY <1>3, <2>3 DEF Tidy, PagesTidy
    <2>5. CASE v = a.rbw[i]
      BY <1>5, <2>3, <2>4, <2>5
    <2>6. CASE v = Iov(0, 0, a.rbw[i].base)
      <3>1. v.len = 0 /\ v.base = a.rbw[i].base
        BY <2>6 DEF Iov
      <3> QED BY <1>5, <2>3, <2>4, <3>1
    <2> QED BY <1>6, <2>2, <2>5, <2>6
  <1>12. WriteLists(b)
    BY <1>1, <1>5, <1>9, <1>10, <1>11 DEF WriteLists, BatchOf
  <1> QED BY <1>1, <1>6, <1>7, <1>8, <1>12

(* A call that begins.                                                     *)
Fresh(c, step, iovs, a) ==
    /\ CallOK(c) /\ c.step = step /\ c.iovs = iovs /\ c.args = a
    /\ c.progress.rbw = 0 /\ c.progress.aligned = 0 /\ c.batch = <<>>

(* A call that begins has moved nothing.                                   *)
LEMMA BegunIs ==
    ASSUME NEW iovs \in Seq(Ranges), iovs # <<>>, NEW a \in ArgsType, Roomy(a, iovs),
           NEW step \in {"rbw", "write", "read"}, step # "read" => a.is_write
    PROVE  Fresh(Begun(step, iovs, a), step, iovs, a)
  <1>1. ASSUME NEW c, c = Begun(step, iovs, a)
        PROVE  /\ c.step = step /\ c.iovs = iovs /\ c.args = a
               /\ c.progress.rbw = 0 /\ c.progress.aligned = 0 /\ c.batch = <<>>
    <2>1. c = [step |-> step, iovs |-> iovs, args |-> a, progress |-> [rbw |-> 0, aligned |-> 0],
               batch |-> <<>>, opcode |-> "none", executed |-> FALSE]
      BY <1>1 DEF Begun, NoCall
    <2> QED BY <2>1
  <1>2. CallOK(Begun(step, iovs, a))
    BY BegunOK
  <1> QED BY <1>1, <1>2 DEF Fresh

(* As long as nothing has been moved, all that was moved is right.         *)
LEMMA BegunLaid ==
    ASSUME NEW c, Placed(c.args, c.iovs), AllCovered(c.args, c.iovs), c.batch = <<>>, c.progress.aligned = 0,
           NEW m, Shaped(m, ShapeOf(c.iovs, c.args.pages)), NEW D
    PROVE  Laid(c, m) /\ AllSynced(c, m, D)
  <1>1. Range(<<>>) = {}
    BY DEF Range
  <1>2. BatchOf(c.args, c.batch)
    BY <1>1 DEF BatchOf
  <1>3. Laid(c, m)
    BY <1>2 DEF Laid
  <1>4. ASSUME NEW j \in DOMAIN c.args.aligned PROVE ~(j <= c.progress.aligned)
    <2>1. c.args.aligned \in Seq(VecType)
      BY DEF Placed, ArgsType
    <2>2. \A s \in Seq(VecType) : \A x \in DOMAIN s : ~(x <= 0)
      OBVIOUS
    <2> QED BY <1>4, <2>1, <2>2
  <1> QED BY <1>3, <1>4 DEF AllSynced

(* A read that begins.                                                     *)
LEMMA ReadStarts ==
    ASSUME PageSized, moa_size \in Nat, NEW o, NEW D, NEW iovs \in Seq(Ranges), iovs # <<>>,
           NEW a, a = Adjusted(FALSE, iovs),
           NEW d, d = motr_obj_rw_aligned(Begun("read", iovs, a), "aligned", "READ"),
           NEW m, Shaped(m, ShapeOf(iovs, a.pages))
    PROVE  CallBytes(o, d, SubSeq(m, 1, d.args.iovcnt + d.args.pages), D)
  <1> DEFINE c == Begun("read", iovs, a)
  <1>1. /\ Ready(a, iovs) /\ a.is_write = FALSE /\ AllCovered(a, iovs)
    BY AdjustedHolds
  <1>2. Roomy(a, iovs)
    BY AdjustedIs
  <1>3. Placed(a, iovs) /\ a \in ArgsType /\ a.pages \in Nat
    BY <1>1 DEF Placed, Ready, ArgsType
  <1>5. d = motr_obj_rw_aligned(c, "aligned", "READ")
    OBVIOUS
  <1>6. /\ CallOK(c) /\ c.step = "read" /\ c.iovs = iovs /\ c.args = a
        /\ c.batch = <<>> /\ c.progress.aligned = 0
    <2>1. Fresh(c, "read", iovs, a)
      BY <1>2, <1>3, BegunIs
    <2> HIDE DEF c
    <2> QED BY <2>1 DEF Fresh
  <1> HIDE DEF c
  <1>7. Laid(c, m) /\ AllSynced(c, m, D)
    BY <1>1, <1>3, <1>6, BegunLaid
  <1>8. d.step = "failed" \/ Launches(c, d, "aligned", "READ")
    BY <1>5, <1>6, LaunchIs
  <1>9. CASE d.step = "failed"
    BY <1>9 DEF CallBytes, Busy
  <1>10. CASE Launches(c, d, "aligned", "READ")
    <2>1. Laid(d, m) /\ Transferred(d, m, D)
      BY <1>7, <1>10, LaunchAligned
    <2>2. d.step = "read" /\ d.args = a /\ d.opcode = "READ"
      BY <1>6, <1>10 DEF Launches
    <2>3. SubSeq(m, 1, d.args.iovcnt + d.args.pages) = m
      BY <1>3, <2>2, AllRegions
    <2> QED BY <1>1, <2>1, <2>2, <2>3 DEF CallBytes, ReadBytes
  <1> QED BY <1>8, <1>9, <1>10

(* The data of a write is in its buffers, and after motr_obj_data_copy     *)
(* also in its pages.                                                      *)
LEMMA PagesFilled ==
    ASSUME NEW o, NEW a, NEW iovs, Placed(a, iovs), a.is_write = TRUE, CopiesApart(a),
           NEW c, c.iovs = iovs, c.args = a, NEW m, Shaped(m, ShapeOf(iovs, a.pages)),
           BuffersHold(o, c, m), NEW b, b = motr_obj_data_copy(m, a)
    PROVE  Shaped(b, ShapeOf(iovs, a.pages)) /\ BuffersHold(o, c, b) /\ PagesHold(o, c, b)
  <1> DEFINE S == ShapeOf(iovs, a.pages)
  <1>1. Shaped(b, S) /\ CopiedIn(a, iovs, S, m, b, Len(a.dc))
    BY CopyIn
  <1>2. iovs \in Seq(Ranges) /\ a \in ArgsType /\ a.pages \in Nat
    BY DEF Placed, ArgsType
  <1>3. \A r \in 1..Len(iovs) : S[r] = 0..(iovs[r].len - 1)
    <2>1. HasShape(S, iovs, a.pages)
      BY <1>2, ShapeIs
    <2> QED BY <2>1 DEF HasShape
  <1> HIDE DEF S
  <1>4. BuffersHold(o, c, b)
    <2> SUFFICES ASSUME NEW n \in 1..Len(iovs), NEW k \in 0..(iovs[n].len - 1) PROVE b[n][k] = AppByte(o, n, k)
      BY DEF BuffersHold
    <2>1. m[n][k] = AppByte(o, n, k)
      BY DEF BuffersHold
    <2>2. b[n][k] = m[n][k]
      BY <1>1, <1>3, ZenonT(30) DEF CopiedIn
    <2> QED BY <2>1, <2>2
  <1>5. PagesHold(o, c, b)
    <2> SUFFICES ASSUME NEW h \in 1..Len(a.dc), NEW x \in 0..(a.dc[h].len - 1)
                 PROVE  b[a.dc[h].page.r][a.dc[h].page.at + a.dc[h].off + x] =
                            AppByte(o, a.dc[h].app.r, a.dc[h].app.at + x)
      BY DEF PagesHold
    <2> DEFINE e == a.dc[h]
    <2>1. b[e.page.r][e.page.at + e.off + x] = m[e.app.r][e.app.at + x]
      BY <1>1 DEF CopiedIn
    <2>2. h \in DOMAIN a.dc
      BY <1>2 DEF ArgsType
    <2>3. PICK j \in DOMAIN a.aligned : CopyOf(a, iovs, e, a.aligned[j])
      BY <2>2, CopyIsInside
    <2>4. e.app.r \in 1..Len(iovs) /\ e.app.at + x \in 0..(iovs[e.app.r].len - 1)
      BY <2>2, <2>3, HomeCopy
    <2> HIDE DEF e
    <2>5. m[e.app.r][e.app.at + x] = AppByte(o, e.app.r, e.app.at + x)
      BY <2>4 DEF BuffersHold
    <2> QED BY <2>1, <2>5 DEF e
  <1> QED BY <1>1, <1>4, <1>5 DEF S

(* A write that has all its pages begins to write.                         *)
LEMMA WritingStarts ==
    ASSUME NEW o, NEW D, NEW c, CallOK(c), c.iovs # <<>>, c.step = "write", c.progress.aligned = 0,
           WriteLists(c.args), NEW m, Laid(c, m), BuffersHold(o, c, m), NEW b, b = motr_obj_data_copy(m, c.args),
           NEW d, d = motr_obj_rw_aligned(c, "aligned", "WRITE")
    PROVE  CallBytes(o, d, SubSeq(b, 1, d.args.iovcnt + d.args.pages), D)
  <1> DEFINE a == c.args
  <1>1. /\ Placed(a, c.iovs) /\ AllCovered(a, c.iovs) /\ BatchOf(a, c.batch)
        /\ Shaped(m, ShapeOf(c.iovs, a.pages))
    BY DEF Laid
  <1>2. a.is_write = TRUE /\ CopiesApart(a)
    BY DEF WriteLists
  <1>3. Shaped(b, ShapeOf(c.iovs, a.pages)) /\ BuffersHold(o, c, b) /\ PagesHold(o, c, b)
    BY <1>1, <1>2, PagesFilled
  <1>4. Laid(c, b)
    BY <1>1, <1>3 DEF Laid
  <1>5. ASSUME NEW j \in DOMAIN c.args.aligned PROVE ~(j <= c.progress.aligned)
    <2>1. c.args.aligned \in Seq(VecType)
      BY <1>1 DEF Placed, ArgsType
    <2>2. \A s \in Seq(VecType) : \A x \in DOMAIN s : ~(x <= 0)
      OBVIOUS
    <2> QED BY <1>5, <2>1, <2>2
  <1>9. AllSynced(c, b, D)
    BY <1>5 DEF AllSynced
  <1>6. d.step = "failed" \/ Launches(c, d, "aligned", "WRITE")
    BY LaunchIs
  <1>7. CASE d.step = "failed"
    BY <1>7 DEF CallBytes, Busy
  <1>8. CASE Launches(c, d, "aligned", "WRITE")
    <2>1. Laid(d, b) /\ Transferred(d, b, D)
      BY <1>4, <1>8, <1>9, LaunchAligned
    <2>2. d.step = "write" /\ d.args = a /\ d.iovs = c.iovs /\ d.opcode = "WRITE"
      BY <1>8 DEF Launches
    <2>3. SubSeq(b, 1, d.args.iovcnt + d.args.pages) = b
      BY <1>1, <1>3, <2>2, AllRegions
    <2>4. BuffersHold(o, d, b) /\ PagesHold(o, d, b)
      BY <1>3, <2>2, HoldAgain
    <2> QED BY <2>1, <2>2, <2>3, <2>4 DEF CallBytes, WriteBytes
  <1> QED BY <1>6, <1>7, <1>8

(* A write that reads pages first, or reads on.                            *)
LEMMA ReadingPages ==
    ASSUME NEW o, NEW D, NEW c, CallOK(c), c.iovs # <<>>, c.step = "rbw", c.progress.aligned = 0,
           WriteLists(c.args), NEW m, Laid(c, m), BuffersHold(o, c, m),
           NEW opcode \in {"READ", "WRITE"}, NEW d, d = motr_obj_rw_aligned(c, "rbw", opcode)
    PROVE  CallBytes(o, d, SubSeq(m, 1, d.args.iovcnt + d.args.pages), D)
  <1> DEFINE a == c.args
  <1>1. /\ Placed(a, c.iovs) /\ AllCovered(a, c.iovs) /\ Shaped(m, ShapeOf(c.iovs, a.pages))
    BY DEF Laid
  <1>2. d.step = "failed" \/ Launches(c, d, "rbw", opcode)
    BY LaunchIs
  <1>3. CASE d.step = "failed"
    BY <1>3 DEF CallBytes, Busy
  <1>4. CASE Launches(c, d, "rbw", opcode)
    <2>1. /\ d.step = "rbw" /\ d.args = a /\ d.iovs = c.iovs /\ d.progress.aligned = 0
          /\ \A v \in Range(d.batch) : \E j \in DOMAIN a.rbw : v = a.rbw[j]
      BY <1>4 DEF Launches
    <2>2. Range(d.batch) \subseteq Range(a.rbw)
      BY <2>1 DEF Range
    <2>3. BatchOf(a, d.batch)
      BY <2>2 DEF WriteLists, BatchOf
    <2>4. Laid(d, m)
      BY <1>1, <2>1, <2>3 DEF Laid
    <2>5. SubSeq(m, 1, d.args.iovcnt + d.args.pages) = m
      BY <1>1, <2>1, AllRegions
    <2>6. BuffersHold(o, d, m)
      BY <2>1 DEF BuffersHold
    <2> QED BY <2>1, <2>2, <2>4, <2>5, <2>6 DEF CallBytes, WriteBytes
  <1> QED BY <1>2, <1>3, <1>4

(* A write that begins.                                                    *)
LEMMA WriteStarts ==
    ASSUME PageSized, moa_size \in Nat, NEW o, NEW D, NEW iovs \in Seq(Ranges), iovs # <<>>,
           ~Overlapping(motr_obj_iovec_sort(WithBuffers(iovs))),
           NEW a, a = motr_obj_read_before_write_optimise(Adjusted(TRUE, iovs)),
           NEW d, d = FirstOf(iovs, a),
           NEW m, Shaped(m, ShapeOf(iovs, a.pages)), Starts(o, iovs, a.pages, m),
           NEW b, b = IF d.step = "write" THEN motr_obj_data_copy(m, a) ELSE m
    PROVE  CallBytes(o, d, SubSeq(b, 1, d.args.iovcnt + d.args.pages), D)
  <1>1. Placed(a, iovs) /\ AllCovered(a, iovs) /\ WriteLists(a)
    BY WriteListsBegin
  <1>2. a \in ArgsType /\ a.is_write = TRUE /\ a.is_write /\ Roomy(a, iovs)
    <2>1. Adjusted(TRUE, iovs) \in ArgsType /\ Roomy(Adjusted(TRUE, iovs), iovs)
      BY AdjustedIs
    <2>2. /\ a.aligned = Adjusted(TRUE, iovs).aligned /\ a.dc = Adjusted(TRUE, iovs).dc
          /\ a.pages = Adjusted(TRUE, iovs).pages /\ Len(a.rbw) = Len(Adjusted(TRUE, iovs).rbw)
      BY <2>1, OptimisedIs
    <2>3. Roomy(a, iovs)
      BY <2>1, <2>2 DEF Roomy
    <2> QED BY <1>1, <2>3 DEF Placed, WriteLists
  <1>3. ASSUME NEW c, c.iovs = iovs, c.args = a, c.batch = <<>>, c.progress.aligned = 0
        PROVE  Laid(c, m) /\ BuffersHold(o, c, m)
    <2>1. Laid(c, m)
      BY <1>1, <1>3, BegunLaid
    <2>2. BuffersHold(o, c, m)
      BY <1>3 DEF BuffersHold, Starts
    <2> QED BY <2>1, <2>2
  <1>4. CASE a.rbw # <<>>
    <2> DEFINE c == Begun("rbw", iovs, a)
    <2>1. /\ CallOK(c) /\ c.step = "rbw" /\ c.iovs = iovs /\ c.args = a
          /\ c.batch = <<>> /\ c.progress.aligned = 0
      <3>1. Fresh(c, "rbw", iovs, a)
        BY <1>2, BegunIs
      <3> HIDE DEF c
      <3> QED BY <3>1 DEF Fresh
    <2>2. d = motr_obj_rw_aligned(c, "rbw", "READ")
      BY <1>4 DEF FirstOf
    <2> HIDE DEF c
    <2>6. Laid(c, m) /\ BuffersHold(o, c, m)
      BY <1>3, <2>1
    <2>3. d.step # "write"
      <3>1. d.step = "failed" \/ Launches(c, d, "rbw", "READ")
        BY <2>1, <2>2, LaunchIs
      <3> QED BY <2>1, <3>1 DEF Launches
    <2>4. b = m
      BY <2>3
    <2>5. CallBytes(o, d, SubSeq(m, 1, d.args.iovcnt + d.args.pages), D)
      BY <1>1, <2>1, <2>2, <2>6, ReadingPages
    <2> QED BY <2>4, <2>5
  <1>5. CASE a.rbw = <<>>
    <2> DEFINE c == Begun("write", iovs, a)
               e == motr_obj_data_copy(m, a)
    <2>1. /\ CallOK(c) /\ c.step = "write" /\ c.iovs = iovs /\ c.args = a
          /\ c.batch = <<>> /\ c.progress.aligned = 0
      <3>1. Fresh(c, "write", iovs, a)
        BY <1>2, BegunIs
      <3> HIDE DEF c
      <3> QED BY <3>1 DEF Fresh
    <2>2. d = motr_obj_rw_aligned(c, "aligned", "WRITE")
      BY <1>5 DEF FirstOf
    <2> HIDE DEF c
    <2>6. Laid(c, m) /\ BuffersHold(o, c, m)
      BY <1>3, <2>1
    <2>3. CallBytes(o, d, SubSeq(e, 1, d.args.iovcnt + d.args.pages), D)
      BY <1>1, <2>1, <2>2, <2>6, WritingStarts
    <2>4. CASE d.step = "write"
      BY <2>3, <2>4
    <2>5. CASE d.step # "write"
      <3>1. d.step = "failed" \/ Launches(c, d, "aligned", "WRITE")
        BY <2>1, <2>2, LaunchIs
      <3>2. d.step = "failed"
        BY <2>1, <2>5, <3>1 DEF Launches
      <3> QED BY <3>2 DEF CallBytes, Busy
    <2> QED BY <2>4, <2>5
  <1> QED BY <1>4, <1>5

------------------------------------------------------------------------------
(***************************************************************************)
(* What an action does to the bytes: the call o goes on as d, with memory  *)
(* b, and the object changes on its pages only.                            *)
(***************************************************************************)
Becomes(o, d, b) ==
    /\ call' = [call EXCEPT ![o] = d] /\ mem' = [mem EXCEPT ![o] = b]
    /\ CallBytes(o, d, b, data')

(* How a call comes to touch pages.                                        *)
Touches(o, c, d) ==
    d.step \in Busy => \/ c.step = "idle" /\ Allowed(o, d.args.is_write, d.iovs) /\ d.iovs \in Vectors[o]
                       \/ c.step \in Busy /\ d.iovs = c.iovs /\ d.args.is_write = c.args.is_write

ChangesOwn(c) ==
    \/ data' = data
    \/ /\ c.step \in Busy /\ c.args.is_write = TRUE /\ DOMAIN data' = DOMAIN data
       /\ \A i \in DOMAIN data : data'[i] # data[i] => i \div PageSize \in Pages(c.iovs)

ByteStep(o) == \E d, b : Becomes(o, d, b) /\ Touches(o, call[o], d) /\ ChangesOwn(call[o])

(* The state of the bytes of all calls.                                    *)
BytesOK == /\ CallsInv /\ mem = [o \in Ops |-> mem[o]]
           /\ \A o \in Ops : CallBytes(o, call[o], mem[o], data)

(* A read begins.                                                          *)
LEMMA ReadvStep ==
    ASSUME PageSized, BytesOK, NEW o \in Ops, NEW iovs \in Vectors[o], mio_motr_obj_readv(o, iovs)
    PROVE  ByteStep(o)
  <1> DEFINE a == Adjusted(FALSE, iovs)
             d == motr_obj_rw_aligned(Begun("read", iovs, a), "aligned", "READ")
             m == Buffers(o, iovs) \o ZeroPages(a.pages)
             b == SubSeq(m, 1, d.args.iovcnt + d.args.pages)
  <1>1. iovs \in Seq(Ranges) /\ iovs # <<>> /\ moa_size \in Nat /\ call \in [Ops -> CallType]
    BY IOAssumption DEF BytesOK, CallsInv
  <1>2. /\ call[o].step = "idle" /\ Allowed(o, FALSE, iovs) /\ call' = [call EXCEPT ![o] = d]
        /\ mem' = [mem EXCEPT ![o] = SubSeq(m, 1, call'[o].args.iovcnt + call'[o].args.pages)]
        /\ data' = data
    BY DEF mio_motr_obj_readv, OwnBuffers
  <1>3. a.pages \in Nat /\ a.is_write = FALSE
    <2>1. a \in ArgsType /\ a.is_write = FALSE
      BY <1>1, AdjustedIs
    <2> HIDE DEF a
    <2> QED BY <2>1 DEF ArgsType
  <1> HIDE DEF a
  <1>4. Shaped(m, ShapeOf(iovs, a.pages))
    BY <1>1, <1>3, MemoryBegins
  <1> HIDE DEF m, d
  <1>5. call'[o] = d
    BY <1>1, <1>2
  <1>6. mem' = [mem EXCEPT ![o] = b]
    BY <1>2, <1>5
  <1>7. CallBytes(o, d, b, data')
    BY <1>1, <1>4, ReadStarts DEF a, d
  <1>8. Touches(o, call[o], d)
    <2>1. CallOK(Begun("read", iovs, a)) /\ Begun("read", iovs, a).iovs = iovs
          /\ Begun("read", iovs, a).args = a
      <3>1. a \in ArgsType /\ Roomy(a, iovs)
        BY <1>1, AdjustedIs DEF a
      <3> QED BY <1>1, <3>1, BegunOK
    <2>2. d.step = "failed" \/ Launches(Begun("read", iovs, a), d, "aligned", "READ")
      BY <1>1, <2>1, LaunchIs DEF d
    <2>3. d.step = "failed" \/ (d.iovs = iovs /\ d.args.is_write = FALSE)
      BY <1>3, <2>1, <2>2 DEF Launches
    <2> QED BY <1>2, <2>3 DEF Touches, Busy
  <1> HIDE DEF b
  <1> QED BY <1>2, <1>6, <1>7, <1>8 DEF ByteStep, Becomes, ChangesOwn

(* A write begins.                                                         *)
LEMMA WritevStep ==
    ASSUME PageSized, BytesOK, NEW o \in Ops, NEW iovs \in Vectors[o], mio_motr_obj_writev(o, iovs)
    PROVE  ByteStep(o)
  <1> DEFINE a == motr_obj_read_before_write_optimise(Adjusted(TRUE, iovs))
             over == Overlapping(motr_obj_iovec_sort(WithBuffers(iovs)))
             d == WriteOf(iovs)
             m == Buffers(o, iovs) \o ZeroPages(a.pages)
             e == IF d.step = "write" THEN motr_obj_data_copy(m, a) ELSE m
             b == SubSeq(e, 1, d.args.iovcnt + d.args.pages)
  <1>1. iovs \in Seq(Ranges) /\ iovs # <<>> /\ moa_size \in Nat /\ call \in [Ops -> CallType]
    BY IOAssumption DEF BytesOK, CallsInv
  <1>2. /\ call[o].step = "idle" /\ Allowed(o, TRUE, iovs) /\ call' = [call EXCEPT ![o] = d]
        /\ mem' = [mem EXCEPT ![o] =
             SubSeq(IF call'[o].step = "write" THEN motr_obj_data_copy(m, a) ELSE m, 1,
                    call'[o].args.iovcnt + call'[o].args.pages)]
        /\ data' = data
    BY DEF mio_motr_obj_writev, OwnBuffers, WriteOf, FirstOf
  <1>3. d.iovs = iovs /\ d.args.is_write /\ d.args.is_write \in BOOLEAN
    BY <1>1, WriteBegins DEF CallOK, CallType, ArgsType
  <1>4. a.pages \in Nat
    <2>1. Adjusted(TRUE, iovs) \in ArgsType
      BY <1>1, AdjustedIs
    <2>2. a \in ArgsType
      BY <2>1, OptimisedIs
    <2> QED BY <2>2 DEF ArgsType
  <1> HIDE DEF d, a
  <1>5. Shaped(m, ShapeOf(iovs, a.pages)) /\ Starts(o, iovs, a.pages, m)
    BY <1>1, <1>4, MemoryBegins
  <1> HIDE DEF m
  <1>6. call'[o] = d
    BY <1>1, <1>2
  <1>7. mem' = [mem EXCEPT ![o] = b]
    BY <1>2, <1>6
  <1>8. CallBytes(o, d, b, data')
    <2>1. CASE over
      <3>1. d.step = "failed"
        BY <2>1 DEF d, WriteOf, Ended, NoCall
      <3> QED BY <3>1 DEF CallBytes, Busy
    <2>2. CASE ~over
      <3>1. d = FirstOf(iovs, a)
        BY <2>2 DEF d, WriteOf, a
      <3>2. a = motr_obj_read_before_write_optimise(Adjusted(TRUE, iovs))
        BY DEF a
      <3> HIDE DEF e
      <3>3. e = IF d.step = "write" THEN motr_obj_data_copy(m, a) ELSE m
        BY DEF e
      <3> QED BY <1>1, <1>5, <2>2, <3>1, <3>2, <3>3, WriteStarts
    <2> QED BY <2>1, <2>2
  <1>9. Touches(o, call[o], d)
    BY <1>2, <1>3 DEF Touches
  <1> HIDE DEF b
  <1> QED BY <1>2, <1>7, <1>8, <1>9 DEF ByteStep, Becomes, ChangesOwn

(* A call whose operation is executed.                                     *)
Executes(c, d) ==
    /\ d.step = c.step /\ d.iovs = c.iovs /\ d.args = c.args /\ d.progress = c.progress
    /\ d.batch = c.batch /\ d.opcode = c.opcode /\ d.executed = TRUE

(* Motr reads into the memory of a read ...                                *)
LEMMA ExecutesRead ==
    ASSUME NEW c, NEW m, Laid(c, m), Transferred(c, m, data), NEW b, b = ReadInto(m, c.batch),
           NEW d, Executes(c, d)
    PROVE  Laid(d, b) /\ Transferred(d, b, data)
  <1> DEFINE a == c.args
             S == ShapeOf(c.iovs, a.pages)
  <1>1. Placed(a, c.iovs) /\ BatchOf(a, c.batch) /\ Shaped(m, S)
    BY DEF Laid
  <1>2. /\ Shaped(b, S)
        /\ \A r \in DOMAIN S : \A k \in S[r] :
             Agrees(data, m, a, c.iovs, r, k) => Agrees(data, b, a, c.iovs, r, k)
        /\ \A j \in DOMAIN a.aligned : a.aligned[j] \in Range(c.batch) =>
             Synced(data, b, a, c.iovs, a.aligned[j])
    BY <1>1, ReadAgrees
  <1>3. Laid(d, b)
    BY <1>2 DEF Laid, Executes
  <1>4. ASSUME NEW j \in DOMAIN a.aligned, Synced(data, m, a, c.iovs, a.aligned[j])
        PROVE  Synced(data, b, a, c.iovs, a.aligned[j])
    <2> SUFFICES ASSUME NEW x \in 0..(a.aligned[j].len - 1)
                 PROVE  Agrees(data, b, a, c.iovs, a.aligned[j].base.r, a.aligned[j].base.at + x)
      BY DEF Synced
    <2>1. Agrees(data, m, a, c.iovs, a.aligned[j].base.r, a.aligned[j].base.at + x)
      BY <1>4 DEF Synced
    <2>2. a.aligned[j].base.r \in DOMAIN S /\ a.aligned[j].base.at + x \in S[a.aligned[j].base.r]
      BY <1>1, PositionsInside
    <2> HIDE DEF S
    <2> QED BY <1>2, <2>1, <2>2
  <1>5. Transferred(d, b, data)
    <2> HIDE DEF S
    <2> QED BY <1>2, <1>4 DEF Transferred, Executes
  <1> QED BY <1>3, <1>5

(* ... or into pages, which are not buffers.                               *)
LEMMA ExecutesPages ==
    ASSUME NEW o, NEW c, NEW m, Laid(c, m), WriteLists(c.args), Range(c.batch) \subseteq Range(c.args.rbw),
           BuffersHold(o, c, m), NEW b, b = ReadInto(m, c.batch), NEW d, Executes(c, d)
    PROVE  Laid(d, b) /\ BuffersHold(o, d, b)
  <1> DEFINE a == c.args
             S == ShapeOf(c.iovs, a.pages)
  <1>1. Placed(a, c.iovs) /\ BatchOf(a, c.batch) /\ Shaped(m, S)
    BY DEF Laid
  <1>2. c.iovs \in Seq(Ranges) /\ a.pages \in Nat /\ a.iovcnt = Len(c.iovs)
    BY <1>1 DEF Placed, ArgsType, Fits
  <1>3. HasShape(S, c.iovs, a.pages)
    BY <1>2, ShapeIs
  <1>4. /\ IsShape(S) /\ \A r \in 1..Len(c.iovs) : r \in DOMAIN S /\ S[r] = 0..(c.iovs[r].len - 1)
    BY <1>3 DEF HasShape
  <1> HIDE DEF S
  <1>5. Shaped(b, S) /\ \A r \in DOMAIN S : \A k \in S[r] : ReadByte(m, b, c.batch, r, k)
    BY <1>1, <1>4, ReadIntoIs
  <1>6. Laid(d, b)
    BY <1>5 DEF Laid, Executes, S
  <1>7. ASSUME NEW n \in 1..Len(c.iovs), NEW k \in 0..(c.iovs[n].len - 1) PROVE b[n][k] = AppByte(o, n, k)
    <2>1. m[n][k] = AppByte(o, n, k)
      BY DEF BuffersHold
    <2>2. ReadByte(m, b, c.batch, n, k)
      BY <1>4, <1>5
    <2>3. ASSUME NEW v \in Range(c.batch) PROVE ~InVector(v, n, k)
      <3>1. v.base.r > Len(c.iovs)
        BY <1>2 DEF WriteLists
      <3>2. v.base.r # n
        <4>1. Len(c.iovs) \in Nat /\ n \in Nat /\ n <= Len(c.iovs)
          BY <1>2
        <4>2. v \in VecType
          BY <1>1 DEF BatchOf
        <4>3. v.base.r \in Nat
          BY <4>2 DEF VecType, BaseType
        <4> QED BY <3>1, <4>1, <4>3
      <3> QED BY <3>2 DEF InVector
    <2> QED BY <2>1, <2>2, <2>3 DEF ReadByte
  <1>8. BuffersHold(o, d, b)
    BY <1>7 DEF BuffersHold, Executes
  <1> QED BY <1>6, <1>8

(* Motr writes what a write has launched.                                  *)
LEMMA ExecutesWrite ==
    ASSUME NEW c, NEW m, Laid(c, m), Disjoint(c.args.aligned), Transferred(c, m, data),
           NEW E, E = WrittenFrom(m, c.batch), NEW d, Executes(c, d)
    PROVE  Laid(d, m) /\ Transferred(d, m, E)
  <1>1. Laid(d, m)
    BY DEF Laid, Executes
  <1>2. ASSUME NEW j \in DOMAIN c.args.aligned, j <= c.progress.aligned
        PROVE  Synced(E, m, c.args, c.iovs, c.args.aligned[j])
    <2>1. Synced(data, m, c.args, c.iovs, c.args.aligned[j]) \/ c.args.aligned[j] \in Range(c.batch)
      BY <1>2 DEF Transferred
    <2>2. Placed(c.args, c.iovs) /\ BatchOf(c.args, c.batch)
      BY DEF Laid
    <2> QED BY <2>1, <2>2, WriteAgrees
  <1>3. Transferred(d, m, E)
    BY <1>2 DEF Transferred, Executes
  <1> QED BY <1>1, <1>3

(* What is written is on the pages of the call.                            *)
LEMMA WritesOwn ==
    ASSUME NEW c, NEW m, Laid(c, m), c.step \in Busy, c.args.is_write = TRUE,
           NEW batch, BatchOf(c.args, batch), data' = WrittenFrom(m, batch)
    PROVE  ChangesOwn(c)
  <1>1. Placed(c.args, c.iovs)
    BY DEF Laid
  <1>2. DOMAIN data' = DOMAIN data
    BY WrittenFromIs
  <1>3. ASSUME NEW i \in DOMAIN data, data'[i] # data[i] PROVE i \div PageSize \in Pages(c.iovs)
    BY <1>1, <1>3, WriteOnPages
  <1> QED BY <1>2, <1>3 DEF ChangesOwn

(* Motr executes a batch.                                                  *)
LEMMA ExecuteStep ==
    ASSUME BytesOK, NEW o \in Ops, MotrExecute(o)
    PROVE  ByteStep(o)
  <1> DEFINE c == call[o]
             m == mem[o]
             d == [c EXCEPT !.executed = TRUE]
  <1>1. /\ c \in CallType /\ CallOK(c) /\ CallBytes(o, c, m, data) /\ call \in [Ops -> CallType]
        /\ mem = [p \in Ops |-> mem[p]]
    BY DEF BytesOK, CallsInv, Good, CallOK
  <1>2. /\ c.step \in Busy /\ call' = [call EXCEPT ![o] = d]
        /\ c.opcode = "READ" => mem' = [mem EXCEPT ![o] = ReadInto(mem[o], c.batch)] /\ data' = data
        /\ c.opcode # "READ" => data' = WrittenFrom(m, c.batch) /\ mem' = mem
    BY DEF MotrExecute, Launched, Busy
  <1>3. Executes(c, d)
    BY <1>1 DEF CallType, Executes
  <1> HIDE DEF d, c, m
  <1>4. /\ Laid(c, m) /\ (c.step = "read" => ReadBytes(c, m, data))
        /\ (c.step # "read" => WriteBytes(o, c, m, data))
    BY <1>1, <1>2 DEF CallBytes
  <1>5. Touches(o, c, d)
    BY <1>2, <1>3 DEF Touches, Executes
  <1>6. CASE c.opcode = "READ"
    <2> DEFINE b == ReadInto(m, c.batch)
    <2>1. mem' = [mem EXCEPT ![o] = b] /\ data' = data
      BY <1>2, <1>6 DEF m
    <2> HIDE DEF b
    <2>2. CallBytes(o, d, b, data)
      <3>1. CASE c.step = "read"
        <4>1. Laid(d, b) /\ Transferred(d, b, data)
          BY <1>3, <1>4, <3>1, ExecutesRead DEF ReadBytes, b
        <4> QED BY <1>3, <1>4, <3>1, <4>1 DEF CallBytes, ReadBytes, Executes
      <3>2. CASE c.step = "rbw"
        <4>1. Laid(d, b) /\ BuffersHold(o, d, b)
          BY <1>3, <1>4, <3>2, ExecutesPages DEF WriteBytes, b
        <4> QED BY <1>3, <1>4, <3>2, <4>1 DEF CallBytes, WriteBytes, Executes
      <3>3. c.step # "write"
        BY <1>4, <1>6 DEF WriteBytes
      <3> QED BY <1>2, <3>1, <3>2, <3>3 DEF Busy
    <2>3. Becomes(o, d, b) /\ ChangesOwn(c)
      BY <1>2, <2>1, <2>2 DEF Becomes, ChangesOwn
    <2> QED BY <1>5, <2>3 DEF ByteStep, c
  <1>7. CASE c.opcode # "READ"
    <2>1. data' = WrittenFrom(m, c.batch) /\ mem' = [mem EXCEPT ![o] = m]
      BY <1>1, <1>2, <1>7 DEF m
    <2>2. c.step # "read"
      BY <1>4, <1>7 DEF ReadBytes
    <2>3. WriteBytes(o, c, m, data) /\ c.args.is_write = TRUE /\ Disjoint(c.args.aligned)
      BY <1>4, <2>2 DEF WriteBytes, WriteLists
    <2>4. CallBytes(o, d, m, data')
      <3>1. CASE c.step = "write"
        <4>1. Transferred(c, m, data) /\ BuffersHold(o, c, m) /\ PagesHold(o, c, m) /\ c.opcode = "WRITE"
          BY <2>3, <3>1 DEF WriteBytes
        <4>2. Laid(d, m) /\ Transferred(d, m, data')
          BY <1>3, <1>4, <2>1, <2>3, <4>1, ExecutesWrite
        <4>3. BuffersHold(o, d, m) /\ PagesHold(o, d, m)
          BY <1>3, <4>1 DEF BuffersHold, PagesHold, Executes
        <4> QED BY <1>3, <2>3, <3>1, <4>1, <4>2, <4>3 DEF CallBytes, WriteBytes, Executes
      <3>2. CASE c.step = "rbw"
        <4>1. Laid(d, m)
          BY <1>3, <1>4 DEF Laid, Executes
        <4>2. BuffersHold(o, d, m)
          BY <1>3, <2>3 DEF BuffersHold, Executes, WriteBytes
        <4> QED BY <1>3, <2>3, <3>2, <4>1, <4>2 DEF CallBytes, WriteBytes, Executes
      <3> QED BY <1>2, <2>2, <3>1, <3>2 DEF Busy
    <2>5. ChangesOwn(c)
      <3>1. BatchOf(c.args, c.batch)
        BY <1>4 DEF Laid
      <3> QED BY <1>2, <1>4, <2>1, <2>3, <3>1, WritesOwn
    <2>6. Becomes(o, d, m)
      BY <1>2, <2>1, <2>4 DEF Becomes
    <2> QED BY <1>5, <2>5, <2>6 DEF ByteStep, c
  <1> QED BY <1>6, <1>7

(* A call that ends.                                                       *)
LEMMA EndStep ==
    ASSUME NEW o, NEW d, NEW b, call' = [call EXCEPT ![o] = d], mem' = [mem EXCEPT ![o] = b],
           d.step \notin Busy, ChangesOwn(call[o])
    PROVE  ByteStep(o)
  BY DEF ByteStep, Becomes, CallBytes, Touches

(* Motr fails.                                                             *)
LEMMA FailStep ==
    ASSUME BytesOK, NEW o \in Ops, MotrFail(o)
    PROVE  ByteStep(o)
  <1> DEFINE c == call[o]
             m == mem[o]
             d == Ended(c, "failed")
             b == SubSeq(mem[o], 1, call'[o].args.iovcnt + call'[o].args.pages)
  <1>1. /\ c \in CallType /\ CallOK(c) /\ CallBytes(o, c, m, data)
    BY DEF BytesOK, CallsInv, Good, CallOK
  <1>2. /\ c.step \in Busy /\ call' = [call EXCEPT ![o] = d] /\ mem' = [mem EXCEPT ![o] = b]
        /\ c.opcode = "WRITE" => \E S \in SUBSET DOMAIN c.batch : data' = WrittenFrom(m, [i \in S |-> c.batch[i]])
        /\ c.opcode # "WRITE" => data' = data
    BY DEF MotrFail, Launched, Busy, OwnBuffers
  <1>3. d.step \notin Busy
    BY DEF Ended, NoCall, Busy
  <1> HIDE DEF d, c, m, b
  <1>4. /\ Laid(c, m) /\ (c.step = "read" => ReadBytes(c, m, data))
        /\ (c.step # "read" => WriteBytes(o, c, m, data))
    BY <1>1, <1>2 DEF CallBytes
  <1>5. ChangesOwn(c)
    <2>1. CASE c.opcode = "WRITE"
      <3>1. PICK S \in SUBSET DOMAIN c.batch : data' = WrittenFrom(m, [i \in S |-> c.batch[i]])
        BY <1>2, <2>1
      <3>2. c.args.is_write = TRUE
        BY <1>4, <2>1 DEF ReadBytes, WriteBytes, WriteLists
      <3>3. BatchOf(c.args, c.batch)
        BY <1>4 DEF Laid
      <3>4. Range([i \in S |-> c.batch[i]]) \subseteq Range(c.batch)
        BY DEF Range
      <3>5. BatchOf(c.args, [i \in S |-> c.batch[i]])
        BY <3>3, <3>4 DEF BatchOf
      <3> QED BY <1>2, <1>4, <3>1, <3>2, <3>5, WritesOwn
    <2>2. CASE c.opcode # "WRITE"
      BY <1>2, <2>2 DEF ChangesOwn
    <2> QED BY <2>1, <2>2
  <1> QED BY <1>2, <1>3, <1>5, EndStep DEF c

(* Once the operation is executed, all vectors launched agree.             *)
LEMMA ExecutedSynced ==
    ASSUME NEW c, NEW m, NEW D, Transferred(c, m, D), c.executed
    PROVE  AllSynced(c, m, D)
  BY DEF Transferred, AllSynced

(* What a launch keeps of the call.                                        *)
LEMMA LaunchTouches ==
    ASSUME NEW o, NEW c, c.step \in Busy, NEW e, e.iovs = c.iovs, e.args = c.args, NEW which, NEW opcode,
           NEW d, d.step = "failed" \/ Launches(e, d, which, opcode)
    PROVE  Touches(o, c, d)
  BY DEF Touches, Launches, Busy

(* Pages have been read.                                                   *)
LEMMA PagesReadStep ==
    ASSUME BytesOK, NEW o \in Ops, motr_obj_read_before_write_pp(o)
    PROVE  ByteStep(o)
  <1> DEFINE c == call[o]
             m == mem[o]
             w == [c EXCEPT !.step = "write"]
             last == c.progress.rbw = Len(c.args.rbw)
             d == IF last THEN motr_obj_rw_aligned(w, "aligned", "WRITE")
                          ELSE motr_obj_rw_aligned(c, "rbw", "WRITE")
             e == IF last THEN motr_obj_data_copy(m, c.args) ELSE m
             b == SubSeq(e, 1, d.args.iovcnt + d.args.pages)
  <1>1. /\ c \in CallType /\ CallOK(c) /\ CallBytes(o, c, m, data) /\ call \in [Ops -> CallType]
    BY DEF BytesOK, CallsInv, Good, CallOK
  <1>2. /\ c.step = "rbw" /\ call' = [call EXCEPT ![o] = d] /\ data' = data
        /\ mem' = [mem EXCEPT ![o] = SubSeq(e, 1, call'[o].args.iovcnt + call'[o].args.pages)]
    BY DEF motr_obj_read_before_write_pp, OwnBuffers
  <1>3. /\ w \in CallType /\ w.step = "write" /\ w.iovs = c.iovs /\ w.args = c.args
        /\ w.progress = c.progress /\ w.batch = c.batch
    BY <1>1 DEF CallType
  <1> HIDE DEF w, c, m
  <1>4. CallOK(w) /\ c.iovs # <<>>
    BY <1>1, <1>2, <1>3 DEF CallOK, Writing
  <1>5. /\ Laid(c, m) /\ WriteLists(c.args) /\ BuffersHold(o, c, m) /\ c.progress.aligned = 0
    BY <1>1, <1>2 DEF CallBytes, Busy, WriteBytes
  <1>6. CASE last
    <2>1. d = motr_obj_rw_aligned(w, "aligned", "WRITE") /\ e = motr_obj_data_copy(m, w.args)
      BY <1>3, <1>6
    <2> HIDE DEF d, e, last
    <2>2. Laid(w, m) /\ BuffersHold(o, w, m)
      BY <1>3, <1>5 DEF Laid, BuffersHold
    <2>3. CallBytes(o, d, b, data)
      BY <1>3, <1>4, <1>5, <2>1, <2>2, WritingStarts
    <2>4. d.step = "failed" \/ Launches(w, d, "aligned", "WRITE")
      BY <1>3, <1>4, <2>1, LaunchIs
    <2>5. Touches(o, c, d)
      <3>1. c.step \in Busy
        BY <1>2 DEF Busy
      <3> QED BY <1>3, <2>4, <3>1, LaunchTouches
    <2>6. call'[o] = d
      BY <1>1, <1>2
    <2>7. mem' = [mem EXCEPT ![o] = b]
      BY <1>2, <2>6
    <2> HIDE DEF b
    <2> QED BY <1>2, <2>3, <2>5, <2>7 DEF ByteStep, Becomes, ChangesOwn, c
  <1>7. CASE ~last
    <2>1. d = motr_obj_rw_aligned(c, "rbw", "WRITE") /\ e = m
      BY <1>7
    <2> HIDE DEF d, e, last
    <2>2. CallBytes(o, d, b, data)
      BY <1>1, <1>2, <1>4, <1>5, <2>1, ReadingPages
    <2>3. d.step = "failed" \/ Launches(c, d, "rbw", "WRITE")
      BY <1>1, <1>4, <2>1, LaunchIs
    <2>4. Touches(o, c, d)
      <3>1. c.step \in Busy
        BY <1>2 DEF Busy
      <3> QED BY <2>3, <3>1, LaunchTouches
    <2>5. call'[o] = d
      BY <1>1, <1>2
    <2>6. mem' = [mem EXCEPT ![o] = b]
      BY <1>2, <2>5
    <2> HIDE DEF b
    <2> QED BY <1>2, <2>2, <2>4, <2>6 DEF ByteStep, Becomes, ChangesOwn, c
  <1> QED BY <1>6, <1>7

(* A call goes on with the next vectors of its list.                       *)
LEMMA NextStep ==
    ASSUME BytesOK, NEW o \in Ops, NEW opcode \in {"READ", "WRITE"}, call[o].executed,
           call[o].step = (IF opcode = "READ" THEN "read" ELSE "write"),
           NEW d, d = motr_obj_rw_aligned(call[o], "aligned", opcode),
           call' = [call EXCEPT ![o] = d], mem' = [mem EXCEPT ![o] = OwnBuffers(o, mem[o])],
           data' = data
    PROVE  ByteStep(o)
  <1> DEFINE c == call[o]
             m == mem[o]
             b == SubSeq(m, 1, d.args.iovcnt + d.args.pages)
  <1>1. /\ c \in CallType /\ CallOK(c) /\ CallBytes(o, c, m, data) /\ call \in [Ops -> CallType]
    BY DEF BytesOK, CallsInv, Good, CallOK
  <1>2. c.step \in Busy /\ c.executed /\ c.step = (IF opcode = "READ" THEN "read" ELSE "write")
    BY DEF Busy
  <1>3. call'[o] = d
    BY <1>1
  <1>4. mem' = [mem EXCEPT ![o] = b]
    BY <1>3 DEF OwnBuffers
  <1>5. d = motr_obj_rw_aligned(c, "aligned", opcode)
    OBVIOUS
  <1> HIDE DEF c, m
  <1>6. c.iovs # <<>>
    BY <1>1, <1>2 DEF CallOK, Busy
  <1>7. /\ Laid(c, m) /\ Transferred(c, m, data)
        /\ (c.step = "read" => ReadBytes(c, m, data)) /\ (c.step = "write" => WriteBytes(o, c, m, data))
    BY <1>1, <1>2 DEF CallBytes, ReadBytes, WriteBytes
  <1>8. AllSynced(c, m, data)
    BY <1>2, <1>7, ExecutedSynced
  <1>9. d.step = "failed" \/ Launches(c, d, "aligned", opcode)
    BY <1>1, <1>5, <1>6, LaunchIs
  <1>10. Touches(o, c, d)
    BY <1>2, <1>9, LaunchTouches
  <1>11. CallBytes(o, d, b, data)
    <2>1. CASE d.step = "failed"
      BY <2>1 DEF CallBytes, Busy
    <2>2. CASE Launches(c, d, "aligned", opcode)
      <3>1. Laid(d, m) /\ Transferred(d, m, data)
        BY <1>7, <1>8, <2>2, LaunchAligned
      <3>2. d.step = c.step /\ d.args = c.args /\ d.iovs = c.iovs /\ d.opcode = opcode
        BY <2>2 DEF Launches
      <3>3. b = m
        BY <1>7, <3>2, AllRegions DEF Laid
      <3> HIDE DEF b
      <3>4. CASE c.step = "read"
        <4>1. c.args.is_write = FALSE /\ opcode = "READ"
          BY <1>2, <1>7, <3>4 DEF ReadBytes
        <4> QED BY <3>1, <3>2, <3>3, <3>4, <4>1 DEF CallBytes, ReadBytes
      <3>5. CASE c.step = "write"
        <4>1. WriteLists(c.args) /\ BuffersHold(o, c, m) /\ PagesHold(o, c, m) /\ opcode = "WRITE"
          BY <1>2, <1>7, <3>5 DEF WriteBytes
        <4>2. BuffersHold(o, d, m) /\ PagesHold(o, d, m)
          <5>1. d.args = c.args /\ d.iovs = c.iovs
            BY <3>2
          <5> QED BY <4>1, <5>1, HoldAgain
        <4> QED BY <3>1, <3>2, <3>3, <3>5, <4>1, <4>2 DEF CallBytes, WriteBytes
      <3> QED BY <1>2, <3>4, <3>5
    <2> QED BY <1>9, <2>1, <2>2
  <1> HIDE DEF b
  <1> QED BY <1>4, <1>10, <1>11 DEF ByteStep, Becomes, ChangesOwn, c

(* A batch has been written.                                               *)
LEMMA WrittenStep ==
    ASSUME BytesOK, NEW o \in Ops, motr_obj_write_pp(o)
    PROVE  ByteStep(o)
  <1> DEFINE c == call[o]
             last == c.progress.aligned = Len(c.args.aligned)
  <1>1. c.step = "write" /\ c.executed /\ data' = data
    BY DEF motr_obj_write_pp
  <1>2. mem' = [mem EXCEPT ![o] = OwnBuffers(o, mem[o])]
    BY DEF motr_obj_write_pp
  <1>3. CASE ~last
    <2> DEFINE d == motr_obj_rw_aligned(c, "aligned", "WRITE")
    <2>1. call' = [call EXCEPT ![o] = d]
      BY <1>3 DEF motr_obj_write_pp
    <2> HIDE DEF d
    <2>2. d = motr_obj_rw_aligned(c, "aligned", "WRITE")
      BY DEF d
    <2> QED BY <1>1, <1>2, <2>1, <2>2, NextStep
  <1>4. CASE last
    <2>1. \E d : call' = [call EXCEPT ![o] = d] /\ d.step \notin Busy
      <3>1. CASE max_eow(c.iovs) <= moa_size
        <4>1. call' = [call EXCEPT ![o] = Ended(c, "done")]
          BY <1>4, <3>1 DEF motr_obj_write_pp
        <4>2. Ended(c, "done").step \notin Busy
          BY DEF Ended, NoCall, Busy
        <4> QED BY <4>1, <4>2
      <3>2. CASE ~(max_eow(c.iovs) <= moa_size)
        <4> DEFINE d == [Ended(c, "put") EXCEPT !.args.size = max_eow(c.iovs)]
        <4>1. call' = [call EXCEPT ![o] = d]
          BY <1>4, <3>2 DEF motr_obj_write_pp
        <4>2. d.step \notin Busy
          BY DEF Ended, NoCall, Busy
        <4> HIDE DEF d
        <4> QED BY <4>1, <4>2
      <3> QED BY <3>1, <3>2
    <2>2. ChangesOwn(c)
      BY <1>1 DEF ChangesOwn
    <2> QED BY <1>2, <2>1, <2>2, EndStep
  <1> QED BY <1>3, <1>4

(* A batch has been read.                                                  *)
LEMMA ReadStep ==
    ASSUME BytesOK, NEW o \in Ops, motr_obj_read_pp(o)
    PROVE  ByteStep(o)
  <1> DEFINE c == call[o]
             last == c.progress.aligned = Len(c.args.aligned)
  <1>1. c.step = "read" /\ c.executed /\ data' = data
    BY DEF motr_obj_read_pp
  <1>2. CASE ~last
    <2> DEFINE d == motr_obj_rw_aligned(c, "aligned", "READ")
    <2>1. call' = [call EXCEPT ![o] = d] /\ mem' = [mem EXCEPT ![o] = OwnBuffers(o, mem[o])]
      BY <1>2 DEF motr_obj_read_pp
    <2> HIDE DEF d
    <2>2. d = motr_obj_rw_aligned(c, "aligned", "READ")
      BY DEF d
    <2> QED BY <1>1, <2>1, <2>2, NextStep
  <1>3. CASE last
    <2>1. /\ call' = [call EXCEPT ![o] = Ended(c, "done")]
          /\ mem' = [mem EXCEPT ![o] = OwnBuffers(o, motr_obj_data_copy(mem[o], c.args))]
      BY <1>3 DEF motr_obj_read_pp
    <2>2. Ended(c, "done").step \notin Busy
      BY DEF Ended, NoCall, Busy
    <2>3. ChangesOwn(c)
      BY <1>1 DEF ChangesOwn
    <2> QED BY <2>1, <2>2, <2>3, EndStep
  <1> QED BY <1>2, <1>3

(* Every step of a call is one of them.                                    *)
Acts(o) == Call(o) \/ MotrExecute(o) \/ MotrFail(o) \/ PostProcess(o) \/ PutDone(o) \/ PutFail(o)

(* Every step of a call keeps its bytes and changes the object on its own  *)
(* pages only.                                                             *)
LEMMA ByteSteps ==
    ASSUME PageSized, BytesOK, NEW o \in Ops, Acts(o)
    PROVE  ByteStep(o)
  <1>1. Call(o) \/ MotrExecute(o) \/ MotrFail(o) \/ PostProcess(o) \/ PutDone(o) \/ PutFail(o)
    BY DEF Acts
  <1>2. CASE Call(o)
    BY <1>2, ReadvStep, WritevStep DEF Call
  <1>3. CASE MotrExecute(o)
    BY <1>3, ExecuteStep
  <1>4. CASE MotrFail(o)
    BY <1>4, FailStep
  <1>5. CASE PostProcess(o)
    BY <1>5, PagesReadStep, WrittenStep, ReadStep DEF PostProcess
  <1>6. CASE PutDone(o) \/ PutFail(o)
    <2>1. mem' = [mem EXCEPT ![o] = mem[o]] /\ data' = data
      <3>1. mem = [p \in Ops |-> mem[p]]
        BY DEF BytesOK
      <3>2. mem' = mem /\ data' = data
        BY <1>6 DEF PutDone, PutFail
      <3> QED BY <3>1, <3>2
    <2>2. \E d : call' = [call EXCEPT ![o] = d] /\ d.step \notin Busy
      <3>1. Ended(call[o], "done").step \notin Busy /\ Ended(call[o], "failed").step \notin Busy
        BY DEF Ended, NoCall, Busy
      <3> QED BY <1>6, <3>1 DEF PutDone, PutFail
    <2>3. ChangesOwn(call[o])
      BY <2>1 DEF ChangesOwn
    <2> QED BY <2>1, <2>2, <2>3, EndStep
  <1> QED BY <1>1, <1>2, <1>3, <1>4, <1>5, <1>6

------------------------------------------------------------------------------
(***************************************************************************)
(* The invariant: the bytes of each call, and that no two calls of which   *)
(* one writes touch the same page.                                         *)
(***************************************************************************)
Clear(c, e) ==
    c.step \in Busy /\ e.step \in Busy /\ (c.args.is_write \/ e.args.is_write)
      => Pages(c.iovs) \cap Pages(e.iovs) = {}

Apart == \A p, q \in Ops : p # q => Clear(call[p], call[q])

Known == \A o \in Ops : call[o].step \in Busy => call[o].iovs \in Vectors[o]

ByteInv == BytesOK /\ Apart /\ Known /\ DOMAIN data = 0..LastByte

(* A call whose pages do not change.                                       *)
LEMMA BytesElsewhere ==
    ASSUME NEW p, NEW c, NEW m, NEW D, CallBytes(p, c, m, D), NEW E, DOMAIN E = DOMAIN D,
           \A i \in DOMAIN D : i \div PageSize \in Pages(c.iovs) => E[i] = D[i]
    PROVE  CallBytes(p, c, m, E)
  <1> SUFFICES ASSUME c.step \in Busy PROVE CallBytes(p, c, m, E)
    BY DEF CallBytes
  <1>1. /\ Laid(c, m) /\ (c.step = "read" => ReadBytes(c, m, D))
        /\ (c.step # "read" => WriteBytes(p, c, m, D))
    BY DEF CallBytes
  <1>2. Placed(c.args, c.iovs)
    BY <1>1 DEF Laid
  <1>3. ASSUME NEW j \in DOMAIN c.args.aligned, Synced(D, m, c.args, c.iovs, c.args.aligned[j])
        PROVE  Synced(E, m, c.args, c.iovs, c.args.aligned[j])
    BY <1>2, <1>3, AgreesElsewhere
  <1>4. Transferred(c, m, D) => Transferred(c, m, E)
    BY <1>3 DEF Transferred
  <1>5. (c.step = "read" => ReadBytes(c, m, E)) /\ (c.step # "read" => WriteBytes(p, c, m, E))
    BY <1>1, <1>4 DEF ReadBytes, WriteBytes
  <1> QED BY <1>1, <1>5 DEF CallBytes

(* A call that goes on as d stays clear of another.                        *)
LEMMA StaysClear ==
    ASSUME PagesApart, NEW o \in Ops, NEW q \in Ops, o # q, Clear(call[o], call[q]),
           NEW d, Touches(o, call[o], d)
    PROVE  Clear(d, call[q])
  <1> SUFFICES ASSUME d.step \in Busy, call[q].step \in Busy, d.args.is_write \/ call[q].args.is_write
               PROVE  Pages(d.iovs) \cap Pages(call[q].iovs) = {}
    BY DEF Clear
  <1>1. InFlight(q) /\ q \in Ops \ {o}
    BY DEF InFlight, Busy
  <1>2. CASE Allowed(o, d.args.is_write, d.iovs)
    BY <1>1, <1>2 DEF Allowed, IsWrite
  <1>3. CASE call[o].step \in Busy /\ d.iovs = call[o].iovs /\ d.args.is_write = call[o].args.is_write
    BY <1>3 DEF Clear
  <1> QED BY <1>2, <1>3 DEF Touches

(* That two calls are clear of each other is symmetric.                    *)
LEMMA ClearBoth ==
    ASSUME NEW c, NEW e, Clear(c, e)
    PROVE  Clear(e, c)
  BY DEF Clear

(* A step keeps the bytes of all calls.                                    *)
LEMMA BytesStep ==
    ASSUME PageSized, PagesApart, ByteInv, Next
    PROVE  ByteInv'
  <1>1. BytesOK /\ Apart /\ Known /\ DOMAIN data = 0..LastByte
    BY DEF ByteInv
  <1>2. /\ CallsInv /\ mem = [p \in Ops |-> mem[p]] /\ call \in [Ops -> CallType]
        /\ \A p \in Ops : CallBytes(p, call[p], mem[p], data)
    BY <1>1 DEF BytesOK, CallsInv
  <1>3. PICK o \in Ops : ByteStep(o)
    <2>1. PICK o \in Ops : Acts(o)
      BY DEF Next, Acts
    <2> QED BY <1>1, <2>1, ByteSteps
  <1>4. PICK d, b : Becomes(o, d, b) /\ Touches(o, call[o], d) /\ ChangesOwn(call[o])
    BY <1>3 DEF ByteStep
  <1>5. CallsInv'
    BY <1>2, CallsStep
  <1>6. /\ call'[o] = d /\ mem'[o] = b /\ CallBytes(o, d, b, data')
        /\ \A p \in Ops : p # o => call'[p] = call[p] /\ mem'[p] = mem[p]
        /\ mem' = [p \in Ops |-> mem'[p]]
    BY <1>2, <1>4 DEF Becomes
  <1>7. DOMAIN data' = 0..LastByte
    BY <1>1, <1>4 DEF ChangesOwn
  <1>8. ASSUME NEW p \in Ops PROVE CallBytes(p, call'[p], mem'[p], data')
    <2>1. CASE p = o
      BY <1>6, <2>1
    <2>2. CASE p # o
      <3>1. call'[p] = call[p] /\ mem'[p] = mem[p] /\ CallBytes(p, call[p], mem[p], data)
        BY <1>2, <1>6, <2>2
      <3>2. CASE data' = data
        BY <3>1, <3>2
      <3>3. CASE call[p].step \notin Busy
        BY <3>1, <3>3 DEF CallBytes
      <3>4. CASE data' # data /\ call[p].step \in Busy
        <4>1. /\ call[o].step \in Busy /\ call[o].args.is_write = TRUE /\ DOMAIN data' = DOMAIN data
              /\ \A i \in DOMAIN data : data'[i] # data[i] => i \div PageSize \in Pages(call[o].iovs)
          BY <1>4, <3>4 DEF ChangesOwn
        <4>2. Pages(call[o].iovs) \cap Pages(call[p].iovs) = {}
          BY <1>1, <2>2, <3>4, <4>1 DEF Apart, Clear
        <4>3. \A i \in DOMAIN data : i \div PageSize \in Pages(call[p].iovs) => data'[i] = data[i]
          BY <4>1, <4>2
        <4>4. CallBytes(p, call[p], mem[p], data')
          BY <3>1, <4>1, <4>3, BytesElsewhere
        <4> QED BY <3>1, <4>4
      <3> QED BY <3>2, <3>3, <3>4
    <2> QED BY <2>1, <2>2
  <1>9. BytesOK'
    BY <1>5, <1>6, <1>8 DEF BytesOK
  <1>10. ASSUME NEW q \in Ops, q # o PROVE Clear(d, call[q])
    <2>1. Clear(call[o], call[q])
      BY <1>1, <1>10 DEF Apart
    <2> QED BY <1>4, <1>10, <2>1, StaysClear
  <1>11. Apart'
    <2> SUFFICES ASSUME NEW p \in Ops, NEW q \in Ops, p # q PROVE Clear(call'[p], call'[q])
      BY DEF Apart, Clear
    <2>1. CASE p = o
      BY <1>6, <1>10, <2>1
    <2>2. CASE q = o
      <3>1. Clear(d, call[p])
        BY <1>10, <2>2
      <3> QED BY <1>6, <2>2, <3>1, ClearBoth
    <2>3. CASE p # o /\ q # o
      BY <1>1, <1>6, <2>3 DEF Apart
    <2> QED BY <2>1, <2>2, <2>3
  <1>12. Known'
    <2> SUFFICES ASSUME NEW p \in Ops, call'[p].step \in Busy PROVE call'[p].iovs \in Vectors[p]
      BY DEF Known
    <2>1. CASE p = o
      BY <1>1, <1>4, <1>6, <2>1 DEF Touches, Known
    <2>2. CASE p # o
      BY <1>1, <1>6, <2>2 DEF Known
    <2> QED BY <2>1, <2>2
  <1>13. (DOMAIN data = 0..LastByte)'
    BY <1>7 DEF LastByte
  <1> QED BY <1>9, <1>11, <1>12, <1>13 DEF ByteInv

(* At first there are no calls.                                            *)
LEMMA BytesInitially ==
    ASSUME Init
    PROVE  ByteInv
  <1>1. CallsInv
    BY CallsInitially
  <1>2. /\ \A o \in Ops : call[o].step = "idle"
        /\ mem = [o \in Ops |-> <<>>]
    BY DEF Init, NoCall
  <1>3. BytesOK /\ Apart /\ Known
    BY <1>1, <1>2 DEF BytesOK, CallBytes, Apart, Clear, Known, Busy
  <1>4. DOMAIN data = 0..LastByte
    BY DEF Init
  <1> QED BY <1>3, <1>4 DEF ByteInv

(* The bytes of all calls are always as the steps of the calls say.        *)
LEMMA BytesAlways ==
    ASSUME PageSized, PagesApart
    PROVE  Spec => []ByteInv
  <1>1. Init => ByteInv
    BY BytesInitially
  <1>2. ByteInv /\ [Next]_vars => ByteInv'
    <2> SUFFICES ASSUME ByteInv, [Next]_vars PROVE ByteInv'
      OBVIOUS
    <2>1. CASE Next
      BY <2>1, BytesStep
    <2>2. CASE UNCHANGED vars
      BY <2>2 DEF ByteInv, BytesOK, CallsInv, Apart, Known, vars
    <2> QED BY <2>1, <2>2
  <1> QED BY <1>1, <1>2, PTL DEF Spec

------------------------------------------------------------------------------
(* The object is finite.                                                   *)
Bounded ==
    \E b \in Nat : /\ \A o \in Ops : \A iovs \in Vectors[o] : \A n \in DOMAIN iovs : iovs[n].off + iovs[n].len <= b
                   /\ \A s \in Sizes : s <= b

(* A byte that a vector is about is one of the object's.                   *)
LEMMA InObject ==
    ASSUME Bounded, NEW o \in Ops, NEW iovs \in Vectors[o], NEW n \in DOMAIN iovs, NEW k \in 0..(iovs[n].len - 1)
    PROVE  iovs[n].off + k \in 0..LastByte
  <1> DEFINE all  == UNION {Vectors[p] : p \in Ops}
             ends == {v.off + v.len : v \in UNION {Range(s) : s \in all}}
             T    == ends \cup Sizes
             end  == iovs[n].off + iovs[n].len
  <1>1. PICK b \in Nat : /\ \A p \in Ops : \A s \in Vectors[p] : \A i \in DOMAIN s : s[i].off + s[i].len <= b
                         /\ \A s \in Sizes : s <= b
    BY DEF Bounded
  <1>2. \A p \in Ops : \A s \in Vectors[p] : \A i \in DOMAIN s : s[i].off \in Nat /\ s[i].len \in Nat
    <2>1. \A s \in Seq(Ranges) : \A i \in DOMAIN s : s[i] \in Ranges
      OBVIOUS
    <2>2. \A v \in Ranges : v.off \in Nat /\ v.len \in Nat
      BY DEF Ranges
    <2> QED BY <2>1, <2>2, IOAssumption
  <1>3. \A e \in ends : e \in Nat /\ e <= b
    <2> SUFFICES ASSUME NEW p \in Ops, NEW s \in Vectors[p], NEW i \in DOMAIN s
                 PROVE  s[i].off + s[i].len \in Nat /\ s[i].off + s[i].len <= b
      BY DEF Range
    <2> QED BY <1>1, <1>2
  <1>4. end \in ends
    BY DEF Range
  <1> HIDE DEF ends
  <1>5. T \in SUBSET Nat /\ T # {} /\ \A e \in T : e <= b
    BY <1>1, <1>3, <1>4, IOAssumption
  <1>6. Max(T) \in T /\ end <= Max(T)
    <2> HIDE DEF T, end
    <2>1. end \in T
      BY <1>4 DEF T
    <2> QED BY <1>5, <2>1, Greatest
  <1>7. Max(T) \in Nat
    BY <1>5, <1>6
  <1>8. LastByte = CeilDiv(Max(T), PageSize) * PageSize - 1
    BY DEF LastByte, ends
  <1> HIDE DEF T
  <1>9. CeilDiv(Max(T), PageSize) \in Nat /\ PageSize * CeilDiv(Max(T), PageSize) >= Max(T)
    BY <1>7, VectorsAssumption, CeilDivIs
  <1>10. CeilDiv(Max(T), PageSize) * PageSize = PageSize * CeilDiv(Max(T), PageSize)
    BY <1>9, VectorsAssumption
  <1>11. iovs[n].off \in Nat /\ iovs[n].len \in Nat
    BY <1>2
  <1>12. \A f, l, q, z \in Nat : f + l <= q /\ z >= q => \A x \in 0..(l - 1) : f + x \in 0..(z - 1)
    OBVIOUS
  <1>13. PageSize * CeilDiv(Max(T), PageSize) \in Nat
    BY <1>9, VectorsAssumption
  <1>14. iovs[n].off + k \in 0..(PageSize * CeilDiv(Max(T), PageSize) - 1)
    BY <1>6, <1>7, <1>9, <1>11, <1>12, <1>13
  <1> QED BY <1>8, <1>10, <1>14

(* Only what a call does changes it.                                       *)
LEMMA WhoActs ==
    ASSUME CallsInv, Next, NEW o \in Ops, call'[o] # call[o]
    PROVE  Call(o) \/ MotrExecute(o) \/ MotrFail(o) \/ PostProcess(o) \/ PutDone(o) \/ PutFail(o)
  <1>1. PICK p \in Ops : \/ Call(p) \/ MotrExecute(p) \/ MotrFail(p)
                         \/ PostProcess(p) \/ PutDone(p) \/ PutFail(p)
    BY DEF Next
  <1>2. call \in [Ops -> CallType]
    BY DEF CallsInv
  <1>3. \E d : call' = [call EXCEPT ![p] = d]
    <2>1. CASE Call(p)
      BY <2>1 DEF Call, mio_motr_obj_readv, mio_motr_obj_writev
    <2>2. CASE MotrExecute(p)
      BY <2>2 DEF MotrExecute
    <2>3. CASE MotrFail(p)
      BY <2>3 DEF MotrFail
    <2>4. CASE motr_obj_read_before_write_pp(p)
      BY <2>4 DEF motr_obj_read_before_write_pp
    <2>5. CASE motr_obj_write_pp(p)
      <3>1. \/ call' = [call EXCEPT ![p] = motr_obj_rw_aligned(call[p], "aligned", "WRITE")]
            \/ call' = [call EXCEPT ![p] = Ended(call[p], "done")]
            \/ call' = [call EXCEPT ![p] = [Ended(call[p], "put") EXCEPT !.args.size = max_eow(call[p].iovs)]]
        BY <2>5 DEF motr_obj_write_pp
      <3> QED BY <3>1
    <2>6. CASE motr_obj_read_pp(p)
      BY <2>6 DEF motr_obj_read_pp
    <2>7. CASE PutDone(p) \/ PutFail(p)
      BY <2>7 DEF PutDone, PutFail
    <2> QED BY <1>1, <2>1, <2>2, <2>3, <2>4, <2>5, <2>6, <2>7 DEF PostProcess
  <1>4. p = o
    BY <1>2, <1>3
  <1> QED BY <1>1, <1>4

(* A read is reported complete by motr_obj_read_pp after its last batch.   *)
LEMMA ReadEnds ==
    ASSUME CallsInv, Next, NEW o \in Ops, call[o].step = "read", call'[o].step = "done"
    PROVE  motr_obj_read_pp(o) /\ call[o].progress.aligned = Len(call[o].args.aligned)
  <1> DEFINE c == call[o]
  <1>1. call \in [Ops -> CallType] /\ CallOK(c)
    BY DEF CallsInv, Good
  <1>2. Call(o) \/ MotrExecute(o) \/ MotrFail(o) \/ PostProcess(o) \/ PutDone(o) \/ PutFail(o)
    BY WhoActs
  <1>3. ~Call(o)
    BY DEF Call, mio_motr_obj_readv, mio_motr_obj_writev
  <1>4. ~MotrExecute(o)
    <2> SUFFICES ASSUME MotrExecute(o) PROVE FALSE
      OBVIOUS
    <2>1. call' = [call EXCEPT ![o].executed = TRUE]
      BY DEF MotrExecute
    <2>2. call'[o].step = call[o].step
      BY <1>1, <2>1 DEF CallType
    <2> QED BY <2>2
  <1>5. ~MotrFail(o)
    <2> SUFFICES ASSUME MotrFail(o) PROVE FALSE
      OBVIOUS
    <2>1. call'[o] = Ended(c, "failed")
      BY <1>1 DEF MotrFail
    <2>2. Ended(c, "failed").step = "failed"
      BY DEF Ended, NoCall
    <2> QED BY <2>1, <2>2
  <1>6. ~PutDone(o) /\ ~PutFail(o) /\ ~motr_obj_write_pp(o) /\ ~motr_obj_read_before_write_pp(o)
    BY DEF PutDone, PutFail, motr_obj_write_pp, motr_obj_read_before_write_pp
  <1>7. motr_obj_read_pp(o)
    BY <1>2, <1>3, <1>4, <1>5, <1>6 DEF PostProcess
  <1>8. ASSUME c.progress.aligned # Len(c.args.aligned) PROVE FALSE
    <2> DEFINE d == motr_obj_rw_aligned(c, "aligned", "READ")
    <2>1. call'[o] = d
      BY <1>1, <1>7, <1>8 DEF motr_obj_read_pp
    <2> HIDE DEF d
    <2>2. d.step = "failed" \/ Launches(c, d, "aligned", "READ")
      <3>1. c.iovs # <<>>
        BY <1>1 DEF CallOK
      <3> HIDE DEF c
      <3> QED BY <1>1, <3>1, LaunchIs DEF d
    <2> QED BY <2>1, <2>2 DEF Launches
  <1> QED BY <1>7, <1>8

(* A write has written its last batch.                                     *)
LEMMA WriteEnds ==
    ASSUME CallsInv, Next, NEW o \in Ops, call[o].step = "write", call'[o].step \in {"put", "done"}
    PROVE  call[o].executed /\ call[o].progress.aligned = Len(call[o].args.aligned)
  <1> DEFINE c == call[o]
  <1>1. call \in [Ops -> CallType] /\ CallOK(c)
    BY DEF CallsInv, Good
  <1>2. Call(o) \/ MotrExecute(o) \/ MotrFail(o) \/ PostProcess(o) \/ PutDone(o) \/ PutFail(o)
    BY WhoActs
  <1>3. ~Call(o)
    BY DEF Call, mio_motr_obj_readv, mio_motr_obj_writev
  <1>4. ~MotrExecute(o)
    <2> SUFFICES ASSUME MotrExecute(o) PROVE FALSE
      OBVIOUS
    <2>1. call' = [call EXCEPT ![o].executed = TRUE]
      BY DEF MotrExecute
    <2>2. call'[o].step = call[o].step
      BY <1>1, <2>1 DEF CallType
    <2> QED BY <2>2
  <1>5. ~MotrFail(o)
    <2> SUFFICES ASSUME MotrFail(o) PROVE FALSE
      OBVIOUS
    <2>1. call'[o] = Ended(c, "failed")
      BY <1>1 DEF MotrFail
    <2>2. Ended(c, "failed").step = "failed"
      BY DEF Ended, NoCall
    <2> QED BY <2>1, <2>2
  <1>6. ~PutDone(o) /\ ~PutFail(o) /\ ~motr_obj_read_pp(o) /\ ~motr_obj_read_before_write_pp(o)
    BY DEF PutDone, PutFail, motr_obj_read_pp, motr_obj_read_before_write_pp
  <1>7. motr_obj_write_pp(o)
    BY <1>2, <1>3, <1>4, <1>5, <1>6 DEF PostProcess
  <1>8. ASSUME c.progress.aligned # Len(c.args.aligned) PROVE FALSE
    <2> DEFINE d == motr_obj_rw_aligned(c, "aligned", "WRITE")
    <2>1. call'[o] = d
      BY <1>1, <1>7, <1>8 DEF motr_obj_write_pp
    <2> HIDE DEF d
    <2>2. d.step = "failed" \/ Launches(c, d, "aligned", "WRITE")
      <3>1. c.iovs # <<>>
        BY <1>1 DEF CallOK
      <3> HIDE DEF c
      <3> QED BY <1>1, <3>1, LaunchIs DEF d
    <2> QED BY <2>1, <2>2 DEF Launches
  <1>9. c.executed
    BY <1>7 DEF motr_obj_write_pp
  <1> QED BY <1>8, <1>9

(* The pages and vectors of a call that has nothing left to launch agree.  *)
LEMMA AllAgree ==
    ASSUME NEW c, NEW m, NEW D, Transferred(c, m, D), c.executed, c.args \in ArgsType,
           c.progress.aligned = Len(c.args.aligned)
    PROVE  \A j \in DOMAIN c.args.aligned : Synced(D, m, c.args, c.iovs, c.args.aligned[j])
  <1>1. AllSynced(c, m, D)
    BY ExecutedSynced
  <1>2. c.args.aligned \in Seq(VecType)
    BY DEF ArgsType
  <1>3. \A s \in Seq(VecType) : \A j \in DOMAIN s : j <= Len(s)
    OBVIOUS
  <1>4. \A j \in DOMAIN c.args.aligned : j <= c.progress.aligned
    BY <1>2, <1>3
  <1> QED BY <1>1, <1>4 DEF AllSynced

(* The last step of a read.                                                *)
LEMMA Delivers ==
    ASSUME ByteInv, Bounded, Next, NEW o \in Ops, call[o].step = "read", call'[o].step = "done",
           NEW n \in DOMAIN call[o].iovs, NEW k \in 0..(call[o].iovs[n].len - 1)
    PROVE  mem'[o][n][k] = data[call[o].iovs[n].off + k]
  <1> DEFINE c == call[o]
             m == mem[o]
             a == c.args
             e == motr_obj_data_copy(m, a)
             d == Ended(c, "done")
  <1>1. /\ CallsInv /\ CallBytes(o, c, m, data) /\ c.iovs \in Vectors[o] /\ DOMAIN data = 0..LastByte
        /\ mem = [p \in Ops |-> mem[p]] /\ call \in [Ops -> CallType]
    BY DEF ByteInv, BytesOK, Known, Busy, CallsInv
  <1>2. motr_obj_read_pp(o) /\ c.progress.aligned = Len(a.aligned)
    BY <1>1, ReadEnds
  <1>3. /\ c.executed /\ call' = [call EXCEPT ![o] = d]
        /\ mem' = [mem EXCEPT ![o] = SubSeq(e, 1, call'[o].args.iovcnt + call'[o].args.pages)]
    BY <1>2 DEF motr_obj_read_pp, OwnBuffers
  <1>4. d.args.iovcnt = a.iovcnt /\ d.args.pages = 0
    BY DEF Ended, NoCall, motr_obj_rw_args_alloc
  <1>5. call'[o] = d
    BY <1>1, <1>3
  <1> HIDE DEF d, e
  <1>6. mem'[o] = SubSeq(e, 1, a.iovcnt + 0)
    BY <1>1, <1>3, <1>4, <1>5
  <1>7. Laid(c, m) /\ ReadBytes(c, m, data)
    BY <1>1 DEF CallBytes, Busy
  <1>8. /\ Placed(a, c.iovs) /\ a.is_write = FALSE /\ AllCovered(a, c.iovs)
        /\ Shaped(m, ShapeOf(c.iovs, a.pages)) /\ Transferred(c, m, data)
    BY <1>7 DEF Laid, ReadBytes
  <1>9. /\ a \in ArgsType /\ c.iovs \in Seq(Ranges) /\ a.iovcnt = Len(c.iovs) /\ a.pages \in Nat
        /\ Len(c.iovs) \in Nat /\ DOMAIN c.iovs = 1..Len(c.iovs)
    BY <1>8 DEF Placed, Fits, ArgsType
  <1>10. \A j \in DOMAIN a.aligned : Synced(data, m, a, c.iovs, a.aligned[j])
    BY <1>2, <1>3, <1>8, <1>9, AllAgree
  <1>11. /\ Shaped(e, ShapeOf(c.iovs, a.pages))
         /\ \A r \in 1..Len(c.iovs) : \A x \in 0..(c.iovs[r].len - 1) : Agrees(data, e, a, c.iovs, r, x)
    BY <1>8, <1>10, CopyOut DEF e
  <1>12. mem'[o] = [r \in 1..Len(c.iovs) |-> e[r]]
    <2> DEFINE l == Len(c.iovs)
               t == l + a.pages
    <2>1. DOMAIN ShapeOf(c.iovs, a.pages) = 1..t
      BY DEF ShapeOf
    <2>2. e = [r \in 1..t |-> e[r]]
      BY <1>11, <2>1 DEF Shaped
    <2>3. l \in Nat /\ t \in Nat /\ l \in 0..t /\ a.iovcnt + 0 = l
      BY <1>9
    <2> HIDE DEF l, t
    <2>4. SubSeq(e, 1, l) = [r \in 1..l |-> e[r]]
      BY <2>2, <2>3, FirstRegions
    <2>5. mem'[o] = [r \in 1..l |-> e[r]]
      BY <1>6, <2>3, <2>4
    <2> QED BY <2>5 DEF l
  <1>13. n \in 1..Len(c.iovs)
    BY <1>9
  <1>14. mem'[o][n] = e[n]
    BY <1>12, <1>13
  <1>15. Agrees(data, e, a, c.iovs, n, k)
    BY <1>11, <1>13
  <1>16. c.iovs[n].off + k \in DOMAIN data
    BY <1>1, InObject
  <1>17. Home(a, c.iovs, n, k, c.iovs[n].off + k)
    BY <1>13 DEF Home
  <1>18. e[n][k] = data[c.iovs[n].off + k]
    BY <1>15, <1>16, <1>17 DEF Agrees
  <1> QED BY <1>14, <1>18

(* Both ends of a copy are of the same byte of the object.                 *)
OneHome(a, iovs, g, v, x) ==
    /\ Home(a, iovs, g.page.r, g.page.at + g.off + x, v.off + g.off + x)
    /\ g.off + x \in 0..(v.len - 1)
    /\ v.off + g.off + x = iovs[g.app.r].off + (g.app.at + x)
    /\ g.app.r \in 1..Len(iovs) /\ g.app.at + x \in 0..(iovs[g.app.r].len - 1)

(* A byte of a copy has one place in a page and one in a buffer.           *)
LEMMA HomesOfCopy ==
    ASSUME NEW a, NEW iovs, Placed(a, iovs), NEW h \in DOMAIN a.dc, NEW j \in DOMAIN a.aligned,
           CopyOf(a, iovs, a.dc[h], a.aligned[j]), NEW x \in 0..(a.dc[h].len - 1)
    PROVE  OneHome(a, iovs, a.dc[h], a.aligned[j], x)
  <1> DEFINE c == a.dc[h]
             v == a.aligned[j]
  <1>1. c = a.dc[h] /\ v = a.aligned[j] /\ CopyOf(a, iovs, c, v) /\ x \in 0..(c.len - 1)
    OBVIOUS
  <1> HIDE DEF c, v
  <1>2. /\ Home(a, iovs, c.page.r, c.page.at + c.off + x, v.off + c.off + x)
        /\ c.off + x \in 0..(v.len - 1) /\ c.app.r \in 1..Len(iovs)
        /\ v.off + c.off + x = iovs[c.app.r].off + (c.app.at + x)
        /\ c.app.at + x \in 0..(iovs[c.app.r].len - 1)
    BY <1>1, HomeCopy
  <1> QED BY <1>2 DEF OneHome, c, v

(* The last step of a write.                                               *)
LEMMA Lands ==
    ASSUME ByteInv, Bounded, Next, NEW o \in Ops, call[o].step = "write", call'[o].step \in {"put", "done"},
           NEW n \in DOMAIN call[o].iovs, NEW k \in 0..(call[o].iovs[n].len - 1)
    PROVE  data[call[o].iovs[n].off + k] = AppByte(o, n, k)
  <1> DEFINE c == call[o]
             m == mem[o]
             a == c.args
             i == c.iovs[n].off + k
  <1>1. /\ CallsInv /\ CallBytes(o, c, m, data) /\ c.iovs \in Vectors[o] /\ DOMAIN data = 0..LastByte
    BY DEF ByteInv, BytesOK, Known, Busy
  <1>2. c.executed /\ c.progress.aligned = Len(a.aligned)
    BY <1>1, WriteEnds
  <1>3. Laid(c, m) /\ WriteBytes(o, c, m, data)
    BY <1>1 DEF CallBytes, Busy
  <1>4. /\ Placed(a, c.iovs) /\ AllCovered(a, c.iovs) /\ BuffersHold(o, c, m) /\ PagesHold(o, c, m)
        /\ Transferred(c, m, data)
    BY <1>3 DEF Laid, WriteBytes
  <1>5. /\ a \in ArgsType /\ c.iovs \in Seq(Ranges) /\ DOMAIN c.iovs = 1..Len(c.iovs)
    BY <1>4 DEF Placed
  <1>6. \A j \in DOMAIN a.aligned : Synced(data, m, a, c.iovs, a.aligned[j])
    BY <1>2, <1>4, <1>5, AllAgree
  <1>7. i \in DOMAIN data
    BY <1>1, InObject
  <1>8. n \in 1..Len(c.iovs) /\ k \in Int
    BY <1>5
  <1>9. Covered(a, n, k) /\ m[n][k] = AppByte(o, n, k) /\ Home(a, c.iovs, n, k, i)
    BY <1>4, <1>8 DEF AllCovered, BuffersHold, Home
  <1> HIDE DEF i
  <1>10. CASE \E j \in DOMAIN a.aligned : InVector(a.aligned[j], n, k)
    <2>1. PICK j \in DOMAIN a.aligned : InVector(a.aligned[j], n, k)
      BY <1>10
    <2> DEFINE v == a.aligned[j]
    <2>2. v \in VecType
      BY <1>5 DEF ArgsType
    <2>3. v.base.r = n /\ v.base.at <= k /\ k < v.base.at + v.len
      BY <2>1 DEF InVector
    <2>4. v.base.at \in Nat /\ v.len \in Nat
      BY <2>2 DEF VecType, BaseType
    <2>5. Synced(data, m, a, c.iovs, v)
      BY <1>6
    <2> HIDE DEF v
    <2>6. k - v.base.at \in 0..(v.len - 1) /\ v.base.at + (k - v.base.at) = k
      BY <1>8, <2>3, <2>4
    <2>7. Agrees(data, m, a, c.iovs, v.base.r, v.base.at + (k - v.base.at))
      BY <2>5, <2>6 DEF Synced
    <2>8. m[n][k] = data[i]
      BY <1>7, <1>9, <2>3, <2>6, <2>7 DEF Agrees
    <2> QED BY <1>9, <2>8 DEF i
  <1>11. CASE \E h \in DOMAIN a.dc : InCopy(a.dc[h], n, k)
    <2>1. PICK h \in DOMAIN a.dc : InCopy(a.dc[h], n, k)
      BY <1>11
    <2> DEFINE g == a.dc[h]
               x == k - g.app.at
    <2>2. g \in CopyType
      BY <1>4, CopyIsInside
    <2>3. g.app.r = n /\ g.app.at <= k /\ k < g.app.at + g.len
      BY <2>1 DEF InCopy
    <2>4. g.app.at \in Nat /\ g.len \in Nat /\ g.off \in Nat /\ g.page.at \in Nat
      BY <2>2 DEF CopyType, BaseType
    <2>5. PICK j \in DOMAIN a.aligned : CopyOf(a, c.iovs, g, a.aligned[j])
      BY <1>4, CopyIsInside
    <2> DEFINE v == a.aligned[j]
    <2>6. x \in 0..(g.len - 1) /\ g.app.at + x = k
      <3> HIDE DEF g
      <3> QED BY <1>8, <2>3, <2>4, SMTT(30)
    <2> HIDE DEF x
    <2>7. /\ Home(a, c.iovs, g.page.r, g.page.at + g.off + x, v.off + g.off + x)
          /\ g.off + x \in 0..(v.len - 1)
          /\ v.off + g.off + x = c.iovs[g.app.r].off + (g.app.at + x)
      <3>1. x \in 0..(g.len - 1) /\ Placed(a, c.iovs)
        BY <1>4, <2>6
      <3>2. OneHome(a, c.iovs, g, v, x)
        BY <2>5, <3>1, HomesOfCopy
      <3> QED BY <3>2 DEF OneHome
    <2>8. m[g.page.r][g.page.at + g.off + x] = AppByte(o, g.app.r, g.app.at + x)
      <3>1. h \in 1..Len(a.dc)
        <4>1. a.dc \in Seq(CopyType)
          BY <1>5 DEF ArgsType
        <4> QED BY <4>1
      <3> QED BY <1>4, <2>6, <3>1 DEF PagesHold
    <2>9. Synced(data, m, a, c.iovs, v)
      BY <1>6
    <2>10. g.page = v.base
      BY <2>5 DEF CopyOf
    <2> HIDE DEF g, v
    <2>11. Agrees(data, m, a, c.iovs, g.page.r, g.page.at + (g.off + x))
      BY <2>7, <2>9, <2>10 DEF Synced
    <2>12. g.page.at + (g.off + x) = g.page.at + g.off + x
      BY <2>4, <2>6
    <2>13. v.off + g.off + x = i
      BY <2>3, <2>6, <2>7 DEF i
    <2>14. m[g.page.r][g.page.at + g.off + x] = data[i]
      BY <1>7, <2>7, <2>11, <2>12, <2>13 DEF Agrees
    <2> QED BY <2>3, <2>6, <2>8, <2>14 DEF i
  <1> QED BY <1>9, <1>10, <1>11 DEF Covered

(* The places of a call.                                                   *)
LEMMA PlaceIs ==
    ASSUME NEW o, NEW p \in Places(o)
    PROVE  \E n \in DOMAIN call[o].iovs : \E k \in 0..(call[o].iovs[n].len - 1) :
             p = <<call[o].iovs[n].off + k, n, k>>
  BY DEF Places

(***************************************************************************)
(* When a read is reported complete, the application's buffers hold the    *)
(* bytes of the object, however many vectors there are, in which order and *)
(* whether they overlap, and whatever the other calls do, as long as none  *)
(* writes to the same pages.                                               *)
(***************************************************************************)
THEOREM ReadsDeliver ==
    ASSUME PageSized, PagesApart, Bounded
    PROVE  Spec => ReadDelivers
  <1>1. ASSUME ByteInv, [Next]_vars, NEW o \in Ops, call[o].step = "read", call'[o].step = "done",
               NEW p \in Places(o)
        PROVE  mem'[o][p[2]][p[3]] = data[p[1]]
    <2>1. Next
      <3>1. ~UNCHANGED vars
        BY <1>1 DEF vars
      <3> QED BY <1>1, <3>1
    <2>2. PICK n \in DOMAIN call[o].iovs : \E k \in 0..(call[o].iovs[n].len - 1) :
             p = <<call[o].iovs[n].off + k, n, k>>
      BY PlaceIs
    <2>3. PICK k \in 0..(call[o].iovs[n].len - 1) : p = <<call[o].iovs[n].off + k, n, k>>
      BY <2>2
    <2>4. mem'[o][n][k] = data[call[o].iovs[n].off + k]
      BY <1>1, <2>1, Delivers
    <2>5. p[1] = call[o].iovs[n].off + k /\ p[2] = n /\ p[3] = k
      BY <2>3
    <2> QED BY <2>4, <2>5
  <1>2. ByteInv /\ [Next]_vars => [\A o \in Ops : (call[o].step = "read" /\ call'[o].step = "done") =>
          \A p \in Places(o) : mem'[o][p[2]][p[3]] = data[p[1]]]_vars
    BY <1>1
  <1>3. Spec => []ByteInv
    BY BytesAlways
  <1> QED BY <1>2, <1>3, PTL DEF Spec, ReadDelivers

(***************************************************************************)
(* When the last of its data operations ends, all bytes of a write are in  *)
(* the object: those of whole pages, and those that went by way of a page  *)
(* of the driver's.                                                        *)
(***************************************************************************)
THEOREM WritesLand ==
    ASSUME PageSized, PagesApart, Bounded
    PROVE  Spec => WriteLands
  <1>1. ASSUME ByteInv, [Next]_vars, NEW o \in Ops, call[o].step = "write", call'[o].step \in {"put", "done"},
               NEW p \in Places(o)
        PROVE  data[p[1]] = AppByte(o, p[2], p[3])
    <2>1. Next
      <3>1. ~UNCHANGED vars
        BY <1>1 DEF vars
      <3> QED BY <1>1, <3>1
    <2>2. PICK n \in DOMAIN call[o].iovs : \E k \in 0..(call[o].iovs[n].len - 1) :
             p = <<call[o].iovs[n].off + k, n, k>>
      BY PlaceIs
    <2>3. PICK k \in 0..(call[o].iovs[n].len - 1) : p = <<call[o].iovs[n].off + k, n, k>>
      BY <2>2
    <2>4. data[call[o].iovs[n].off + k] = AppByte(o, n, k)
      BY <1>1, <2>1, Lands
    <2>5. p[1] = call[o].iovs[n].off + k /\ p[2] = n /\ p[3] = k
      BY <2>3
    <2> QED BY <2>4, <2>5
  <1>2. ByteInv /\ [Next]_vars =>
          [\A o \in Ops : (call[o].step = "write" /\ call'[o].step \in {"put", "done"}) =>
             \A p \in Places(o) : data[p[1]] = AppByte(o, p[2], p[3])]_vars
    BY <1>1
  <1>3. Spec => []ByteInv
    BY BytesAlways
  <1> QED BY <1>2, <1>3, PTL DEF Spec, WriteLands

------------------------------------------------------------------------------
(***************************************************************************)
(* What motr_obj_read_before_write_optimise counts: the copies of the page *)
(* of copy j, one after another, add up to a page only if they leave no    *)
(* byte of it out.                                                         *)
(***************************************************************************)
Counts(dc, j, len, k) ==
    IF len # PageSize /\ dc[k].page = dc[j].page /\ dc[k].off <= len THEN len + dc[k].len ELSE len

IsCount(g, dc, j, n) ==
    g = [k \in j..n |-> IF k = j THEN dc[j].len ELSE Counts(dc, j, g[k - 1], k)]

Overwrites(dc, page, y) == \E h \in DOMAIN dc : dc[h].page = page /\ dc[h].off <= y /\ y < dc[h].off + dc[h].len

(* The count exists.                                                       *)
LEMMA CountExists ==
    ASSUME NEW dc \in Seq(CopyType), NEW j \in DOMAIN dc
    PROVE  \E g \in [j..Len(dc) -> Nat] : IsCount(g, dc, j, Len(dc))
  <1> DEFINE T == {n \in Nat : \E g \in [j..(j + n) -> Nat] : IsCount(g, dc, j, j + n)}
             l == Len(dc) - j
  <1>1. j \in Nat /\ Len(dc) \in Nat /\ j <= Len(dc) /\ l \in Nat /\ j + l = Len(dc) /\ DOMAIN dc = 1..Len(dc)
    <2>1. DOMAIN dc = 1..Len(dc) /\ Len(dc) \in Nat
      OBVIOUS
    <2>2. j \in 1..Len(dc)
      BY <2>1
    <2> QED BY <2>1, <2>2
  <1>2. \A k \in DOMAIN dc : dc[k].len \in Nat
    <2>1. \A k \in DOMAIN dc : dc[k] \in CopyType
      OBVIOUS
    <2>2. \A c \in CopyType : c.len \in Nat
      BY DEF CopyType
    <2> QED BY <2>1, <2>2
  <1>3. 0 \in T
    <2> DEFINE g == [k \in j..(j + 0) |-> dc[j].len]
    <2>1. g \in [j..(j + 0) -> Nat]
      BY <1>2
    <2>2. \A k \in j..(j + 0) : k = j
      BY <1>1
    <2>3. g = [k \in j..(j + 0) |-> IF k = j THEN dc[j].len ELSE Counts(dc, j, g[k - 1], k)]
      BY <2>2
    <2> HIDE DEF g
    <2>4. IsCount(g, dc, j, j + 0)
      BY <2>3 DEF IsCount
    <2> QED BY <2>1, <2>4
  <1>4. ASSUME NEW n \in 0..(l - 1), n \in T PROVE n + 1 \in T
    <2>1. PICK f \in [j..(j + n) -> Nat] : IsCount(f, dc, j, j + n)
      BY <1>4
    <2> DEFINE e == j + n
               c == Counts(dc, j, f[e], e + 1)
               g == [k \in j..(e + 1) |-> IF k = e + 1 THEN c ELSE f[k]]
    <2>2. e \in Nat /\ j <= e /\ e \in j..e /\ e + 1 \in j..(e + 1) /\ e + 1 \in DOMAIN dc /\ j + (n + 1) = e + 1
      BY <1>1
    <2>3. f = [k \in j..e |-> IF k = j THEN dc[j].len ELSE Counts(dc, j, f[k - 1], k)] /\ f \in [j..e -> Nat]
      BY <2>1 DEF IsCount
    <2> HIDE DEF e, l
    <2>4. c \in Nat
      <3>1. f[e] \in Nat /\ dc[e + 1].len \in Nat
        BY <1>2, <2>2, <2>3
      <3>2. c = f[e] \/ c = f[e] + dc[e + 1].len
        BY DEF Counts
      <3> HIDE DEF c
      <3> QED BY <3>1, <3>2
    <2>5. \A k \in j..(e + 1) : k = e + 1 \/ (k \in j..e /\ k # e + 1)
      BY <1>1, <2>2
    <2>6. g \in [j..(e + 1) -> Nat]
      BY <2>3, <2>4, <2>5
    <2>7. \A k \in j..e : k \in j..(e + 1) /\ k # e + 1 /\ (k # j => k - 1 \in j..e)
      BY <1>1, <2>2
    <2>8. /\ g[e + 1] = c
          /\ \A k \in j..e : g[k] = f[k]
      BY <2>2, <2>7
    <2>9. (e + 1) - 1 = e /\ e + 1 # j
      BY <1>1, <2>2
    <2> HIDE DEF g
    <2>10. \A k \in j..(e + 1) : g[k] = IF k = j THEN dc[j].len ELSE Counts(dc, j, g[k - 1], k)
      <3> SUFFICES ASSUME NEW k \in j..(e + 1)
                   PROVE  g[k] = IF k = j THEN dc[j].len ELSE Counts(dc, j, g[k - 1], k)
        OBVIOUS
      <3>1. CASE k = e + 1
        <4>1. g[k - 1] = f[e]
          BY <2>2, <2>8, <2>9, <3>1
        <4> QED BY <2>8, <2>9, <3>1, <4>1
      <3>2. CASE k \in j..e
        <4>1. g[k] = f[k] /\ (k # j => g[k - 1] = f[k - 1])
          BY <2>7, <2>8, <3>2
        <4>2. f[k] = IF k = j THEN dc[j].len ELSE Counts(dc, j, f[k - 1], k)
          BY <2>3, <3>2
        <4> QED BY <4>1, <4>2
      <3> QED BY <2>5, <3>1, <3>2
    <2>11. g = [k \in j..(e + 1) |-> IF k = j THEN dc[j].len ELSE Counts(dc, j, g[k - 1], k)]
      BY <2>6, <2>10
    <2>12. IsCount(g, dc, j, e + 1)
      BY <2>11 DEF IsCount
    <2>13. n + 1 \in Nat
      OBVIOUS
    <2> QED BY <2>2, <2>6, <2>12, <2>13
  <1>5. l \in T
    <2> HIDE DEF T, l
    <2>1. 0..l \subseteq T /\ l \in 0..l
      BY <1>1, <1>3, <1>4, Induct
    <2> QED BY <2>1
  <1>6. PICK g \in [j..(j + l) -> Nat] : IsCount(g, dc, j, j + l)
    BY <1>5
  <1> QED BY <1>1, <1>6

(* CoveredFrom is a recursive function: it is the last value of a count.   *)
LEMMA CoveredFromIs ==
    ASSUME NEW dc \in Seq(CopyType), NEW j \in DOMAIN dc
    PROVE  \E g : IsCount(g, dc, j, Len(dc)) /\ CoveredFrom(dc, j) = g[Len(dc)]
  <1> DEFINE P(g) == g = [k \in j..Len(dc) |-> IF k = j THEN dc[j].len ELSE Counts(dc, j, g[k - 1], k)]
             c == CHOOSE g : P(g)
  <1>1. \E g : P(g)
    BY CountExists DEF IsCount
  <1>2. P(c)
    BY <1>1
  <1>3. CoveredFrom(dc, j) = c[Len(dc)]
    BY DEF CoveredFrom, Counts
  <1> HIDE DEF c
  <1>4. IsCount(c, dc, j, Len(dc))
    BY <1>2 DEF IsCount
  <1> QED BY <1>3, <1>4

(* One more copy.                                                          *)
Counted(dc, j, len, k) ==
    /\ len \in Nat
    /\ \E h \in j..k : dc[h].page = dc[j].page /\ len <= dc[h].off + dc[h].len
    /\ \A y \in 0..(len - 1) : Overwrites(dc, dc[j].page, y)

InTurn(dc) == \A i, k \in DOMAIN dc : i < k /\ dc[i].page = dc[k].page => dc[i].off + dc[i].len <= dc[k].off

(* The count stays within what the copies overwrite.                       *)
LEMMA CountsOne ==
    ASSUME NEW dc \in Seq(CopyType), InTurn(dc), NEW j \in DOMAIN dc, NEW k \in DOMAIN dc, j < k,
           NEW len, Counted(dc, j, len, k - 1)
    PROVE  Counted(dc, j, Counts(dc, j, len, k), k)
  <1> DEFINE c == dc[k]
  <1>1. len \in Nat /\ \A y \in 0..(len - 1) : Overwrites(dc, dc[j].page, y)
    BY DEF Counted
  <1>2. PICK h \in j..(k - 1) : dc[h].page = dc[j].page /\ len <= dc[h].off + dc[h].len
    BY DEF Counted
  <1>3. DOMAIN dc = 1..Len(dc) /\ Len(dc) \in Nat
    OBVIOUS
  <1>4. h \in DOMAIN dc /\ h < k /\ h \in j..k /\ k \in j..k
    BY <1>3
  <1>5. dc[h] \in CopyType /\ c \in CopyType
    BY <1>4
  <1>6. dc[h].off \in Nat /\ dc[h].len \in Nat /\ c.off \in Nat /\ c.len \in Nat
    <2>1. \A x \in CopyType : x.off \in Nat /\ x.len \in Nat
      BY DEF CopyType
    <2> QED BY <1>5, <2>1
  <1>7. CASE Counts(dc, j, len, k) = len
    BY <1>1, <1>2, <1>4, <1>7 DEF Counted
  <1>8. CASE Counts(dc, j, len, k) = len + c.len /\ c.page = dc[j].page /\ c.off <= len
    <2>1. dc[h].off + dc[h].len <= c.off
      BY <1>2, <1>4, <1>8 DEF InTurn
    <2>2. len = c.off
      <3> DEFINE z == dc[h].off + dc[h].len
      <3>1. z \in Nat /\ len <= z /\ z <= c.off /\ c.off <= len
        BY <1>2, <1>6, <1>8, <2>1
      <3> HIDE DEF z, c
      <3> QED BY <1>1, <1>6, <3>1
    <2> DEFINE z == len + c.len
    <2>3. ASSUME NEW y \in 0..(z - 1) PROVE Overwrites(dc, dc[j].page, y)
      <3>1. CASE y <= len - 1
        <4>1. y \in 0..(len - 1)
          BY <1>1, <3>1
        <4> QED BY <1>1, <4>1
      <3>2. CASE ~(y <= len - 1)
        <4>1. c.off <= y /\ y < c.off + c.len
          <5> HIDE DEF c
          <5> QED BY <1>1, <1>6, <2>2, <3>2
        <4> QED BY <1>8, <4>1 DEF Overwrites
      <3> QED BY <3>1, <3>2
    <2>4. len + c.len \in Nat /\ len + c.len <= c.off + c.len
      <3> HIDE DEF c
      <3> QED BY <1>1, <1>6, <2>2
    <2>5. \E x \in j..k : dc[x].page = dc[j].page /\ len + c.len <= dc[x].off + dc[x].len
      BY <1>4, <1>8, <2>4
    <2>6. z \in Nat /\ \E x \in j..k : dc[x].page = dc[j].page /\ z <= dc[x].off + dc[x].len
      BY <2>4, <2>5
    <2>7. Counts(dc, j, len, k) = z
      BY <1>8
    <2> HIDE DEF z
    <2>8. Counted(dc, j, z, k)
      BY <2>3, <2>6 DEF Counted
    <2> QED BY <2>7, <2>8
  <1> QED BY <1>7, <1>8 DEF Counts

(* Copies that add up to a page are all of it.                             *)
LEMMA CoveredAll ==
    ASSUME NEW dc \in Seq(CopyType), InTurn(dc), NEW j \in DOMAIN dc, dc[j].off = 0,
           CoveredFrom(dc, j) = PageSize
    PROVE  \A y \in 0..(PageSize - 1) : Overwrites(dc, dc[j].page, y)
  <1> DEFINE n == Len(dc)
             l == n - j
  <1>1. DOMAIN dc = 1..n /\ n \in Nat
    OBVIOUS
  <1>2. j \in Nat /\ l \in Nat /\ j + l = n /\ j \in j..j /\ 1 <= j
    <2>1. j \in 1..n
      BY <1>1
    <2> QED BY <1>1, <2>1
  <1>3. PICK g : IsCount(g, dc, j, n) /\ CoveredFrom(dc, j) = g[n]
    BY CoveredFromIs
  <1>4. \A k \in j..n : g[k] = IF k = j THEN dc[j].len ELSE Counts(dc, j, g[k - 1], k)
    BY <1>3 DEF IsCount
  <1> DEFINE T == {i \in Nat : Counted(dc, j, g[j + i], j + i)}
  <1>5. 0 \in T
    <2>1. dc[j].len \in Nat
      <3>1. dc[j] \in CopyType
        OBVIOUS
      <3> QED BY <3>1 DEF CopyType
    <2>2. j + 0 = j /\ j \in j..n /\ g[j] = dc[j].len
      BY <1>2, <1>4
    <2>3. dc[j].len <= dc[j].off + dc[j].len
      BY <2>1
    <2>4. \A y \in 0..(dc[j].len - 1) : dc[j].off <= y /\ y < dc[j].off + dc[j].len
      BY <2>1
    <2>5. \A y \in 0..(dc[j].len - 1) : Overwrites(dc, dc[j].page, y)
      BY <2>4 DEF Overwrites
    <2>6. Counted(dc, j, dc[j].len, j)
      BY <1>2, <2>1, <2>3, <2>5 DEF Counted
    <2> QED BY <2>2, <2>6
  <1>6. ASSUME NEW i \in 0..(l - 1), i \in T PROVE i + 1 \in T
    <2> DEFINE k == j + (i + 1)
    <2>1. k \in j..n /\ k # j /\ k - 1 = j + i /\ k \in 1..n /\ j < k /\ i + 1 \in Nat
      BY <1>1, <1>2
    <2> HIDE DEF k, n, l
    <2>2. g[k] = Counts(dc, j, g[k - 1], k)
      BY <1>4, <2>1
    <2>3. Counted(dc, j, g[k - 1], k - 1)
      BY <1>6, <2>1
    <2>4. k \in DOMAIN dc
      BY <1>1, <2>1
    <2> HIDE DEF T
    <2>5. Counted(dc, j, Counts(dc, j, g[k - 1], k), k)
      BY <2>1, <2>3, <2>4, CountsOne
    <2>6. Counted(dc, j, g[k], k)
      BY <2>2, <2>5
    <2> QED BY <2>1, <2>6 DEF T, k
  <1>7. l \in T
    <2> HIDE DEF T, l
    <2>1. 0..l \subseteq T /\ l \in 0..l
      BY <1>2, <1>5, <1>6, Induct
    <2> QED BY <2>1
  <1>8. Counted(dc, j, g[n], n)
    BY <1>2, <1>7
  <1> HIDE DEF T, l, n
  <1> QED BY <1>3, <1>8 DEF Counted

(***************************************************************************)
(* motr_obj_read_before_write_optimise leaves out only pages of which each *)
(* byte is written.                                                        *)
(***************************************************************************)
LEMMA OptimisedCovers ==
    ASSUME NEW a \in ArgsType, CopiesApart(a), NEW b, b = motr_obj_read_before_write_optimise(a),
           NEW i \in 1..Len(a.rbw), \E k \in DOMAIN a.dc : a.dc[k].page = a.rbw[i].base
    PROVE  \/ b.rbw[i] = a.rbw[i]
           \/ \A y \in 0..(PageSize - 1) : Overwrites(a.dc, a.rbw[i].base, y)
  <1> DEFINE F(h) == Min({k \in DOMAIN a.dc : a.dc[k].page = a.rbw[h].base})
             K    == {k \in DOMAIN a.dc : a.dc[k].page = a.rbw[i].base}
             j    == F(i)
  <1>1. a.rbw \in Seq(VecType) /\ a.dc \in Seq(CopyType)
    BY DEF ArgsType
  <1>2. DOMAIN a.rbw = 1..Len(a.rbw) /\ i \in DOMAIN a.rbw /\ i \in 1..i
    <2>1. DOMAIN a.rbw = 1..Len(a.rbw)
      BY <1>1
    <2> QED BY <2>1
  <1>3. b.rbw[i] = a.rbw[i] \/ ((\A h \in 1..i : a.dc[F(h)].off = 0) /\ CoveredFrom(a.dc, j) = PageSize)
    BY <1>2 DEF motr_obj_read_before_write_optimise, ArgsType
  <1>4. j \in K
    <2>1. K \in SUBSET Nat /\ K # {}
      <3>1. \A k \in DOMAIN a.dc : k \in Nat
        BY <1>1
      <3> QED BY <3>1
    <2>2. \E x \in K : \A y \in K : x <= y
      <3> HIDE DEF K
      <3> QED BY <2>1, Least
    <2>3. j = CHOOSE x \in K : \A y \in K : x <= y
      BY DEF Min
    <2> HIDE DEF j, K
    <2> QED BY <2>2, <2>3
  <1>5. CASE (\A h \in 1..i : a.dc[F(h)].off = 0) /\ CoveredFrom(a.dc, j) = PageSize
    <2>1. a.dc[j].off = 0
      BY <1>2, <1>5
    <2>2. j \in DOMAIN a.dc /\ a.dc[j].page = a.rbw[i].base
      BY <1>4
    <2>3. InTurn(a.dc)
      BY DEF CopiesApart, InTurn
    <2> HIDE DEF j, F, K
    <2>4. \A y \in 0..(PageSize - 1) : Overwrites(a.dc, a.dc[j].page, y)
      BY <1>1, <1>5, <2>1, <2>2, <2>3, CoveredAll
    <2> QED BY <2>2, <2>4
  <1> QED BY <1>3, <1>5

------------------------------------------------------------------------------
(***************************************************************************)
(* The pages of a write: where the bytes in them come from.                *)
(***************************************************************************)
OwnVecs(a) == {v \in Range(a.aligned) : v.base.r > a.iovcnt}

IsPage(a, v) ==
    /\ v \in VecType /\ v.base.at = 0 /\ v.len = PageSize /\ v.base.r \in Nat /\ v.off \in Nat
    /\ \A w \in Range(a.aligned) : w.base.r = v.base.r => w = v
    /\ \E j \in DOMAIN a.aligned : v = a.aligned[j]

(* A vector of a page of the driver's is the only one of that page.        *)
LEMMA PageIs ==
    ASSUME NEW a, NEW iovs, Placed(a, iovs), NEW v \in OwnVecs(a)
    PROVE  IsPage(a, v)
  <1>1. PICK j \in DOMAIN a.aligned : v = a.aligned[j]
    BY DEF OwnVecs, Range
  <1>2. v \in VecType /\ VecFits(a, iovs, v) /\ OwnPages(a)
    BY <1>1 DEF Placed, ArgsType, Fits
  <1>3. v.base.r \in Nat /\ v.off \in Nat
    BY <1>2 DEF VecType, BaseType
  <1>4. v.base.r > a.iovcnt
    BY DEF OwnVecs
  <1>5. v.base.at = 0 /\ v.len = PageSize
    BY <1>2, <1>4 DEF VecFits
  <1>6. ASSUME NEW w \in Range(a.aligned), w.base.r = v.base.r PROVE w = v
    <2>1. PICK i \in DOMAIN a.aligned : w = a.aligned[i]
      BY DEF Range
    <2>2. ~(v.base.r <= a.iovcnt)
      <3>1. a.iovcnt \in Nat
        BY DEF Placed, ArgsType
      <3> QED BY <1>3, <1>4, <3>1
    <2>3. i = j
      BY <1>1, <1>2, <1>6, <2>1, <2>2 DEF OwnPages
    <2> QED BY <1>1, <2>1, <2>3
  <1> QED BY <1>1, <1>2, <1>3, <1>5, <1>6 DEF IsPage

(* A copy to a page is a copy to bytes of its vector.                      *)
LEMMA CopyToPage ==
    ASSUME NEW a, NEW iovs, Placed(a, iovs), NEW v \in OwnVecs(a), NEW h \in DOMAIN a.dc,
           a.dc[h].page.r = v.base.r
    PROVE  a.dc[h].page = v.base /\ CopyOf(a, iovs, a.dc[h], v)
  <1>1. PICK j \in DOMAIN a.aligned : CopyOf(a, iovs, a.dc[h], a.aligned[j])
    BY CopyIsInside
  <1>2. a.dc[h].page = a.aligned[j].base
    BY <1>1 DEF CopyOf
  <1>3. a.aligned[j] \in Range(a.aligned)
    BY DEF Range
  <1>4. a.aligned[j] = v
    BY <1>2, <1>3, PageIs DEF IsPage
  <1> QED BY <1>1, <1>2, <1>4

(* Each page has a copy, and is read, or new, or written completely.       *)
Accounted(a) ==
    \A v \in OwnVecs(a) :
        /\ \E h \in DOMAIN a.dc : a.dc[h].page = v.base
        /\ v \in Range(a.rbw) \/ v.off >= a.size \/ \A y \in 0..(PageSize - 1) : Overwrites(a.dc, v.base, y)

(* Of every page of the driver's, after                                    *)
(* motr_obj_read_before_write_optimise: it is read first, lies behind the  *)
(* object, or is overwritten as a whole.                                   *)
LEMMA AccountedBegin ==
    ASSUME PageSized, moa_size \in Nat, NEW iovs \in Seq(Ranges),
           ~Overlapping(motr_obj_iovec_sort(WithBuffers(iovs))),
           NEW b, b = motr_obj_read_before_write_optimise(Adjusted(TRUE, iovs))
    PROVE  Accounted(b)
  <1> DEFINE a == Adjusted(TRUE, iovs)
  <1>1. /\ Ready(a, iovs) /\ a.size = moa_size /\ \E e \in Nat : Tidy(a, iovs, e)
    BY AdjustedHolds
  <1>2. b = motr_obj_read_before_write_optimise(a)
    OBVIOUS
  <1> HIDE DEF a
  <1>3. PagesTidy(a) /\ CopiesApart(a)
    <2>1. PICK e \in Nat : Tidy(a, iovs, e)
      BY <1>1
    <2> QED BY <2>1 DEF Tidy, CopiesTidy, CopiesApart
  <1>4. a \in ArgsType
    BY <1>1 DEF Ready
  <1>5. b.iovcnt = a.iovcnt /\ b.aligned = a.aligned /\ b.dc = a.dc /\ b \in ArgsType
    BY <1>2, <1>4, OptimisedIs
  <1>6. Len(b.rbw) = Len(a.rbw)
    BY <1>2, <1>4, OptimisedIs
  <1>7. b.size = a.size
    BY <1>2, <1>4, OptimisedBases
  <1> SUFFICES ASSUME NEW v \in OwnVecs(b)
               PROVE  /\ \E h \in DOMAIN b.dc : b.dc[h].page = v.base
                      /\ \/ v \in Range(b.rbw) \/ v.off >= b.size
                         \/ \A y \in 0..(PageSize - 1) : Overwrites(b.dc, v.base, y)
    BY DEF Accounted
  <1>8. PICK j \in DOMAIN a.aligned : v = a.aligned[j] /\ v.base.r > a.iovcnt
    BY <1>5 DEF OwnVecs, Range
  <1>9. PageUsed(a, v)
    BY <1>3, <1>8 DEF PagesTidy
  <1>10. PICK h \in DOMAIN a.dc : a.dc[h].page = v.base
    BY <1>9 DEF PageUsed
  <1>11. CASE v.off < a.size
    <2>1. PICK i \in DOMAIN a.rbw : a.rbw[i] = v
      BY <1>9, <1>11 DEF PageUsed
    <2>2. a.rbw \in Seq(VecType) /\ b.rbw \in Seq(VecType)
      BY <1>4, <1>5 DEF ArgsType
    <2>3. \A s \in Seq(VecType) : DOMAIN s = 1..Len(s)
      OBVIOUS
    <2>4. i \in 1..Len(a.rbw) /\ i \in DOMAIN b.rbw
      BY <1>6, <2>2, <2>3
    <2>5. \E k \in DOMAIN a.dc : a.dc[k].page = a.rbw[i].base
      BY <1>10, <2>1
    <2>6. b.rbw[i] = a.rbw[i] \/ \A y \in 0..(PageSize - 1) : Overwrites(a.dc, a.rbw[i].base, y)
      BY <1>2, <1>3, <1>4, <2>4, <2>5, OptimisedCovers
    <2>7. v \in Range(b.rbw) \/ \A y \in 0..(PageSize - 1) : Overwrites(b.dc, v.base, y)
      BY <1>5, <2>1, <2>4, <2>6 DEF Range
    <2> QED BY <1>5, <1>10, <2>7
  <1>12. CASE ~(v.off < a.size)
    <2>1. v.off \in Nat /\ a.size \in Nat
      <3>1. v \in VecType
        BY <1>4, <1>8 DEF ArgsType
      <3> QED BY <1>4, <3>1 DEF ArgsType, VecType
    <2>3. \A x, z \in Nat : x < z \/ x >= z
      OBVIOUS
    <2>4. v.off >= a.size
      BY <1>12, <2>1, <2>3
    <2>2. v.off >= b.size
      BY <1>7, <2>4
    <2> QED BY <1>5, <1>10, <2>2
  <1> QED BY <1>11, <1>12

(* The page of v: copied, or as in the object, or zero behind the object.  *)
PageByte(a, iovs, m, D, v, y) ==
    \/ Overwrites(a.dc, v.base, y)
    \/ Agrees(D, m, a, iovs, v.base.r, y)
    \/ m[v.base.r][y] = Zero /\ v.off >= a.size

PageZero(m, v) == \A y \in 0..(PageSize - 1) : m[v.base.r][y] = Zero

PagesKept(c, m, D) ==
    \A v \in OwnVecs(c.args) : \A y \in 0..(PageSize - 1) : PageByte(c.args, c.iovs, m, D, v, y)

(* Pages as they are before the data is copied into them.                  *)
PagesRead(a, iovs, m, D) ==
    \A v \in OwnVecs(a) : /\ v \in Range(a.rbw) => Synced(D, m, a, iovs, v)
                          /\ v \notin Range(a.rbw) => PageZero(m, v)

(* motr_obj_data_copy changes the application's bytes of a page, and the   *)
(* others stay those of the object or zero.                                *)
LEMMA CopyKeeps ==
    ASSUME NEW a, NEW iovs, Placed(a, iovs), WriteLists(a), Accounted(a), NEW D,
           NEW m, Shaped(m, ShapeOf(iovs, a.pages)), PagesRead(a, iovs, m, D),
           NEW b, b = motr_obj_data_copy(m, a), NEW v \in OwnVecs(a), NEW y \in 0..(PageSize - 1)
    PROVE  PageByte(a, iovs, b, D, v, y)
  <1> DEFINE S == ShapeOf(iovs, a.pages)
             r == v.base.r
  <1>1. IsPage(a, v)
    BY PageIs
  <1>2. /\ v.base.at = 0 /\ v.len = PageSize /\ r \in Nat /\ PageSize \in Nat /\ 0 + y = y
        /\ \E j \in DOMAIN a.aligned : v = a.aligned[j]
    BY <1>1, VectorsAssumption DEF IsPage
  <1>3. r \in DOMAIN S /\ y \in S[r]
    <2>1. PICK j \in DOMAIN a.aligned : v = a.aligned[j]
      BY <1>2
    <2>2. y \in 0..(a.aligned[j].len - 1)
      BY <1>2, <2>1
    <2>3. a.aligned[j].base.r \in DOMAIN S /\ a.aligned[j].base.at + y \in S[a.aligned[j].base.r]
      BY <2>2, PositionsInside
    <2> HIDE DEF S
    <2> QED BY <1>2, <2>1, <2>3
  <1>4. CopiedIn(a, iovs, S, m, b, Len(a.dc))
    BY CopyIn DEF WriteLists
  <1> HIDE DEF S
  <1>5. \/ b[r][y] = m[r][y]
        \/ \E h \in 1..Len(a.dc) : r = a.dc[h].page.r /\ \E x \in 0..(a.dc[h].len - 1) :
              y = a.dc[h].page.at + a.dc[h].off + x
    BY <1>3, <1>4 DEF CopiedIn
  <1>6. CASE b[r][y] = m[r][y]
    <2>1. CASE v \in Range(a.rbw)
      <3>1. Synced(D, m, a, iovs, v)
        BY <2>1 DEF PagesRead
      <3>2. Agrees(D, m, a, iovs, r, 0 + y)
        BY <1>2, <3>1 DEF Synced
      <3>3. Agrees(D, b, a, iovs, r, y)
        BY <1>2, <1>6, <3>2 DEF Agrees
      <3> QED BY <3>3 DEF PageByte
    <2>2. CASE v \notin Range(a.rbw)
      <3>1. m[r][y] = Zero
        BY <2>2 DEF PagesRead, PageZero
      <3> QED BY <1>6, <2>2, <3>1 DEF Accounted, PageByte
    <2> QED BY <2>1, <2>2
  <1>7. ASSUME NEW h \in 1..Len(a.dc), r = a.dc[h].page.r, NEW x \in 0..(a.dc[h].len - 1),
               y = a.dc[h].page.at + a.dc[h].off + x
        PROVE  PageByte(a, iovs, b, D, v, y)
    <2> DEFINE g == a.dc[h]
    <2>1. h \in DOMAIN a.dc /\ a.dc[h] \in CopyType
      <3>1. a.dc \in Seq(CopyType)
        BY DEF Placed, ArgsType
      <3> QED BY <3>1
    <2>2. g.page = v.base
      BY <1>7, <2>1, CopyToPage
    <2>3. g.off \in Nat /\ g.len \in Nat
      BY <2>1 DEF CopyType
    <2>4. y = g.off + x
      <3>1. g.page.at = 0
        BY <1>2, <2>2
      <3>2. y = 0 + g.off + x
        BY <1>7, <3>1
      <3> HIDE DEF g
      <3> QED BY <2>3, <3>2
    <2>5. g.off <= y /\ y < g.off + g.len
      <3>1. x \in 0..(g.len - 1)
        OBVIOUS
      <3> HIDE DEF g
      <3> QED BY <2>3, <2>4, <3>1
    <2>6. Overwrites(a.dc, v.base, y)
      BY <2>1, <2>2, <2>5 DEF Overwrites
    <2> QED BY <2>6 DEF PageByte
  <1> QED BY <1>5, <1>6, <1>7

------------------------------------------------------------------------------
(* The byte of the object that a byte of a page is for.                    *)
LEMMA PageHome ==
    ASSUME NEW a, NEW iovs, Placed(a, iovs), NEW v \in OwnVecs(a), NEW y \in 0..(PageSize - 1)
    PROVE  /\ Home(a, iovs, v.base.r, y, v.off + y) /\ v.off + y \in BytesOf(v)
           /\ (v.off + y) \div PageSize \in Pages(iovs)
  <1>1. IsPage(a, v)
    BY PageIs
  <1>2. /\ v.base.at = 0 /\ v.len = PageSize /\ v.off \in Nat /\ y \in Nat /\ y < PageSize
    BY <1>1, VectorsAssumption DEF IsPage
  <1>3. PICK j \in DOMAIN a.aligned : v = a.aligned[j]
    BY <1>1 DEF IsPage
  <1>4. v.off + y \in BytesOf(v)
    BY <1>2, VectorsAssumption DEF BytesOf
  <1>5. Home(a, iovs, v.base.r, v.base.at + y, v.off + y)
    <2>1. y \in 0..(v.len - 1)
      BY <1>2
    <2> QED BY <1>3, <2>1, HomeVec
  <1>6. v.base.at + y = y
    BY <1>2
  <1>7. VecFits(a, iovs, v)
    BY <1>3 DEF Placed, Fits
  <1>8. (v.off + y) \div PageSize \in Pages(iovs)
    BY <1>4, <1>7 DEF VecFits
  <1> QED BY <1>4, <1>5, <1>6, <1>8

(* A byte of a page that is as in the object stays so when its call writes *)
(* a batch ...                                                             *)
LEMMA WriteAgreesAt ==
    ASSUME NEW a, NEW iovs, Placed(a, iovs), Disjoint(a.aligned), NEW batch, BatchOf(a, batch),
           NEW m, NEW E, E = WrittenFrom(m, batch), NEW v \in OwnVecs(a), NEW y \in 0..(PageSize - 1),
           Agrees(data, m, a, iovs, v.base.r, y)
    PROVE  Agrees(E, m, a, iovs, v.base.r, y)
  <1>1. DOMAIN E = DOMAIN data /\ \A i \in DOMAIN data : WrittenByte(m, E, batch, i)
    BY WrittenFromIs
  <1>2. IsPage(a, v)
    BY PageIs
  <1>3. /\ v.base.at = 0 /\ v.off \in Nat /\ y \in Nat /\ v.base.r \in Nat
    BY <1>2, VectorsAssumption DEF IsPage
  <1>4. PICK j \in DOMAIN a.aligned : v = a.aligned[j]
    BY <1>2 DEF IsPage
  <1>5. Home(a, iovs, v.base.r, y, v.off + y) /\ v.off + y \in BytesOf(v)
    BY PageHome
  <1> SUFFICES ASSUME NEW i \in DOMAIN E, Home(a, iovs, v.base.r, y, i) PROVE m[v.base.r][y] = E[i]
    BY DEF Agrees
  <1>6. i = v.off + y /\ i \in DOMAIN data
    BY <1>1, <1>3, <1>5, HomeOne
  <1>7. m[v.base.r][y] = data[i]
    BY <1>6 DEF Agrees
  <1>8. CASE E[i] = data[i]
    BY <1>7, <1>8
  <1>9. ASSUME NEW w \in Range(batch), i \in BytesOf(w), E[i] = m[w.base.r][w.base.at + (i - w.off)]
        PROVE  m[v.base.r][y] = E[i]
    <2>1. w \in VecType /\ (w.len = 0 \/ \E k \in DOMAIN a.aligned : w = a.aligned[k])
      BY DEF BatchOf
    <2>2. w.len # 0
      <3>1. w.off \in Nat /\ w.len \in Nat
        BY <2>1 DEF VecType
      <3>2. i >= w.off /\ i <= w.off + w.len - 1
        BY <1>9, <3>1 DEF BytesOf
      <3>3. i \in Nat
        BY <1>3, <1>6
      <3> QED BY <3>1, <3>2, <3>3
    <2>3. PICK k \in DOMAIN a.aligned : w = a.aligned[k]
      BY <2>1, <2>2
    <2>4. w = v
      <3>1. a \in ArgsType
        BY DEF Placed
      <3>2. i \in BytesOf(a.aligned[j]) /\ i \in BytesOf(a.aligned[k])
        BY <1>4, <1>5, <1>6, <1>9, <2>3
      <3>3. a.aligned[j] = a.aligned[k]
        BY <3>1, <3>2, SameVector
      <3> QED BY <1>4, <2>3, <3>3
    <2>5. w.base.at + (i - w.off) = y
      BY <1>3, <1>6, <2>4
    <2> QED BY <1>9, <2>4, <2>5
  <1> QED BY <1>1, <1>6, <1>8, <1>9 DEF WrittenByte

(* ... and when another call writes elsewhere.                             *)
LEMMA ElsewhereAt ==
    ASSUME NEW a, NEW iovs, Placed(a, iovs), NEW m, NEW D, NEW E, DOMAIN E = DOMAIN D,
           \A i \in DOMAIN D : i \div PageSize \in Pages(iovs) => E[i] = D[i],
           NEW v \in OwnVecs(a), NEW y \in 0..(PageSize - 1), Agrees(D, m, a, iovs, v.base.r, y)
    PROVE  Agrees(E, m, a, iovs, v.base.r, y)
  <1>1. Home(a, iovs, v.base.r, y, v.off + y) /\ (v.off + y) \div PageSize \in Pages(iovs)
    BY PageHome
  <1>2. v.base.r \in Nat
    BY PageIs DEF IsPage
  <1> SUFFICES ASSUME NEW i \in DOMAIN E, Home(a, iovs, v.base.r, y, i) PROVE m[v.base.r][y] = E[i]
    BY DEF Agrees
  <1>3. i = v.off + y /\ i \in DOMAIN D
    BY <1>1, <1>2, HomeOne
  <1>4. m[v.base.r][y] = D[i]
    BY <1>3 DEF Agrees
  <1> QED BY <1>1, <1>3, <1>4

(***************************************************************************)
(* The pages of a write that reads first, in one operation, and then       *)
(* writes them.                                                            *)
(***************************************************************************)
PagesIn(c, m, D) ==
    /\ c.step \in {"rbw", "write"} => Accounted(c.args)
    /\ c.step = "rbw" =>
         /\ c.opcode = "READ" /\ c.progress.rbw = Len(c.args.rbw) /\ c.batch = c.args.rbw
         /\ c.executed => PagesRead(c.args, c.iovs, m, D)
         /\ ~c.executed => \A v \in OwnVecs(c.args) : PageZero(m, v)
    /\ c.step = "write" => PagesKept(c, m, D)

(* The size that a write goes by is the one that the handle had at first.  *)
KeepsSize(c, d) ==
    d.step \in {"rbw", "write"} =>
        \/ d.args.size = moa_size
        \/ c.step \in {"rbw", "write"} /\ d.args = c.args /\ d.iovs = c.iovs

PageStep(o) == PagesIn(call'[o], mem'[o], data') /\ KeepsSize(call[o], call'[o])

(* A change on other pages leaves the pages of a call alone.               *)
LEMMA PagesElsewhere ==
    ASSUME NEW c, NEW m, Laid(c, m), NEW D, PagesIn(c, m, D), NEW E, DOMAIN E = DOMAIN D,
           \A i \in DOMAIN D : i \div PageSize \in Pages(c.iovs) => E[i] = D[i]
    PROVE  PagesIn(c, m, E)
  <1>1. Placed(c.args, c.iovs)
    BY DEF Laid
  <1>2. ASSUME PagesRead(c.args, c.iovs, m, D) PROVE PagesRead(c.args, c.iovs, m, E)
    <2> SUFFICES ASSUME NEW v \in OwnVecs(c.args), v \in Range(c.args.rbw)
                 PROVE  Synced(E, m, c.args, c.iovs, v)
      BY <1>2 DEF PagesRead
    <2>1. Synced(D, m, c.args, c.iovs, v)
      BY <1>2 DEF PagesRead
    <2>2. PICK j \in DOMAIN c.args.aligned : v = c.args.aligned[j]
      BY <1>1, PageIs DEF IsPage
    <2> QED BY <1>1, <2>1, <2>2, AgreesElsewhere
  <1>3. ASSUME PagesKept(c, m, D) PROVE PagesKept(c, m, E)
    <2> SUFFICES ASSUME NEW v \in OwnVecs(c.args), NEW y \in 0..(PageSize - 1)
                 PROVE  PageByte(c.args, c.iovs, m, E, v, y)
      BY DEF PagesKept
    <2>1. PageByte(c.args, c.iovs, m, D, v, y)
      BY <1>3 DEF PagesKept
    <2>2. Agrees(D, m, c.args, c.iovs, v.base.r, y) => Agrees(E, m, c.args, c.iovs, v.base.r, y)
      BY <1>1, ElsewhereAt
    <2> QED BY <2>1, <2>2 DEF PageByte
  <1> QED BY <1>2, <1>3 DEF PagesIn

(* Where the pages of a call are, and that they are zero at first.         *)
LEMMA PagesZero ==
    ASSUME NEW o, NEW a, NEW iovs, Placed(a, iovs), NEW m, Starts(o, iovs, a.pages, m), NEW v \in OwnVecs(a)
    PROVE  PageZero(m, v)
  <1>1. PICK j \in DOMAIN a.aligned : v = a.aligned[j]
    BY PageIs DEF IsPage
  <1>2. VecFits(a, iovs, v) /\ a.iovcnt = Len(iovs)
    BY <1>1 DEF Placed, Fits
  <1>3. v.base.r \in 1..(Len(iovs) + a.pages) /\ v.base.r > Len(iovs)
    BY <1>2 DEF VecFits, OwnVecs
  <1> QED BY <1>3 DEF Starts, PageZero

(* Pages, read as far as they have to be, get their data.                  *)
LEMMA PagesReady ==
    ASSUME NEW c, Placed(c.args, c.iovs), WriteLists(c.args), Accounted(c.args), NEW D, NEW m,
           Shaped(m, ShapeOf(c.iovs, c.args.pages)), PagesRead(c.args, c.iovs, m, D),
           NEW b, b = motr_obj_data_copy(m, c.args),
           NEW d, d.step = "failed" \/ (d.step = "write" /\ d.args = c.args /\ d.iovs = c.iovs)
    PROVE  PagesIn(d, SubSeq(b, 1, d.args.iovcnt + d.args.pages), D)
  <1>1. CASE d.step = "failed"
    BY <1>1 DEF PagesIn
  <1>2. CASE d.step = "write" /\ d.args = c.args /\ d.iovs = c.iovs
    <2>1. Shaped(b, ShapeOf(c.iovs, c.args.pages))
      BY CopyIn DEF WriteLists
    <2>2. SubSeq(b, 1, d.args.iovcnt + d.args.pages) = b
      BY <1>2, <2>1, AllRegions
    <2>3. \A v \in OwnVecs(c.args) : \A y \in 0..(PageSize - 1) : PageByte(c.args, c.iovs, b, D, v, y)
      BY CopyKeeps
    <2>4. PagesKept(d, b, D)
      BY <1>2, <2>3 DEF PagesKept
    <2>5. PagesIn(d, b, D)
      BY <1>2, <2>4 DEF PagesIn
    <2> QED BY <2>2, <2>5
  <1> QED BY <1>1, <1>2

(* The pages of a write that begins.                                       *)
LEMMA PagesBegin ==
    ASSUME PageSized, moa_size \in Nat, NEW o, NEW D, NEW iovs \in Seq(Ranges), iovs # <<>>,
           ~Overlapping(motr_obj_iovec_sort(WithBuffers(iovs))),
           NEW a, a = motr_obj_read_before_write_optimise(Adjusted(TRUE, iovs)),
           SumLen(a.rbw) <= MaxSizePerOp,
           NEW d, d = FirstOf(iovs, a),
           NEW m, Shaped(m, ShapeOf(iovs, a.pages)), Starts(o, iovs, a.pages, m),
           NEW b, b = IF d.step = "write" THEN motr_obj_data_copy(m, a) ELSE m
    PROVE  /\ PagesIn(d, SubSeq(b, 1, d.args.iovcnt + d.args.pages), D)
           /\ d.step \in {"rbw", "write"} => d.args.size = moa_size
  <1>1. Placed(a, iovs) /\ WriteLists(a) /\ a.size = moa_size
    BY WriteListsBegin
  <1>2. Accounted(a)
    BY AccountedBegin
  <1>3. a \in ArgsType /\ a.is_write /\ Roomy(a, iovs)
    <2>1. Adjusted(TRUE, iovs) \in ArgsType /\ Roomy(Adjusted(TRUE, iovs), iovs)
      BY AdjustedIs
    <2>2. /\ a.aligned = Adjusted(TRUE, iovs).aligned /\ a.dc = Adjusted(TRUE, iovs).dc
          /\ a.pages = Adjusted(TRUE, iovs).pages /\ Len(a.rbw) = Len(Adjusted(TRUE, iovs).rbw)
      BY <2>1, OptimisedIs
    <2>3. Roomy(a, iovs)
      BY <2>1, <2>2 DEF Roomy
    <2> QED BY <1>1, <2>3 DEF Placed, WriteLists
  <1>4. \A v \in OwnVecs(a) : PageZero(m, v)
    BY <1>1, PagesZero
  <1>5. CASE a.rbw # <<>>
    <2> DEFINE c == Begun("rbw", iovs, a)
    <2>1. /\ CallOK(c) /\ c.step = "rbw" /\ c.iovs = iovs /\ c.args = a /\ c.progress.rbw = 0
      <3>1. Fresh(c, "rbw", iovs, a)
        BY <1>3, BegunIs
      <3> HIDE DEF c
      <3> QED BY <3>1 DEF Fresh
    <2>2. d = motr_obj_rw_aligned(c, "rbw", "READ")
      BY <1>5 DEF FirstOf
    <2> HIDE DEF c
    <2>3. d.step = "failed" \/ Launches(c, d, "rbw", "READ")
      BY <2>1, <2>2, LaunchIs
    <2>4. CASE d.step = "failed"
      BY <2>4 DEF PagesIn
    <2>5. CASE Launches(c, d, "rbw", "READ")
      <3>1. d.step = "rbw" /\ d.iovs = iovs /\ d.args = a /\ d.opcode = "READ" /\ d.executed = FALSE
        BY <2>1, <2>5 DEF Launches
      <3>2. d.progress.rbw = Len(a.rbw) /\ d.batch = a.rbw
        BY <2>1, <2>5 DEF Launches
      <3>3. b = m
        BY <3>1
      <3>4. SubSeq(m, 1, d.args.iovcnt + d.args.pages) = m
        BY <1>1, <3>1, AllRegions
      <3>5. PagesIn(d, m, D)
        BY <1>2, <1>4, <3>1, <3>2 DEF PagesIn
      <3> QED BY <1>1, <3>1, <3>3, <3>4, <3>5
    <2> QED BY <2>3, <2>4, <2>5
  <1>6. CASE a.rbw = <<>>
    <2> DEFINE c == Begun("write", iovs, a)
    <2>1. /\ CallOK(c) /\ c.step = "write" /\ c.iovs = iovs /\ c.args = a
      <3>1. Fresh(c, "write", iovs, a)
        BY <1>3, BegunIs
      <3> HIDE DEF c
      <3> QED BY <3>1 DEF Fresh
    <2>2. d = motr_obj_rw_aligned(c, "aligned", "WRITE")
      BY <1>6 DEF FirstOf
    <2> HIDE DEF c
    <2>3. d.step = "failed" \/ Launches(c, d, "aligned", "WRITE")
      BY <2>1, <2>2, LaunchIs
    <2>4. CASE d.step = "failed"
      BY <2>4 DEF PagesIn
    <2>5. CASE Launches(c, d, "aligned", "WRITE")
      <3>1. d.step = "write" /\ d.iovs = iovs /\ d.args = a
        BY <2>1, <2>5 DEF Launches
      <3>2. Range(a.rbw) = {}
        <4>1. Range(<<>>) = {}
          BY DEF Range
        <4> QED BY <1>6, <4>1
      <3>3. PagesRead(a, iovs, m, D)
        BY <1>4, <3>2 DEF PagesRead
      <3>4. b = motr_obj_data_copy(m, a)
        BY <3>1
      <3>5. PagesIn(d, SubSeq(b, 1, d.args.iovcnt + d.args.pages), D)
        BY <1>1, <1>2, <2>1, <3>1, <3>3, <3>4, PagesReady
      <3> QED BY <1>1, <3>1, <3>5
    <2> QED BY <2>3, <2>4, <2>5
  <1> QED BY <1>5, <1>6

(* A write begins.                                                         *)
LEMMA PagesWritev ==
    ASSUME PageSized, RbwOneOp, BytesOK, NEW o \in Ops, NEW iovs \in Vectors[o], mio_motr_obj_writev(o, iovs)
    PROVE  PageStep(o)
  <1> DEFINE a == motr_obj_read_before_write_optimise(Adjusted(TRUE, iovs))
             over == Overlapping(motr_obj_iovec_sort(WithBuffers(iovs)))
             d == WriteOf(iovs)
             m == Buffers(o, iovs) \o ZeroPages(a.pages)
             e == IF d.step = "write" THEN motr_obj_data_copy(m, a) ELSE m
             b == SubSeq(e, 1, d.args.iovcnt + d.args.pages)
  <1>1. /\ iovs \in Seq(Ranges) /\ iovs # <<>> /\ moa_size \in Nat /\ call \in [Ops -> CallType]
        /\ mem = [p \in Ops |-> mem[p]]
    BY IOAssumption DEF BytesOK, CallsInv
  <1>2. /\ call' = [call EXCEPT ![o] = d] /\ SumLen(a.rbw) <= MaxSizePerOp
        /\ mem' = [mem EXCEPT ![o] =
             SubSeq(IF call'[o].step = "write" THEN motr_obj_data_copy(m, a) ELSE m, 1,
                    call'[o].args.iovcnt + call'[o].args.pages)]
    BY DEF mio_motr_obj_writev, OwnBuffers, WriteOf, FirstOf
  <1>4. a.pages \in Nat
    <2>1. Adjusted(TRUE, iovs) \in ArgsType
      BY <1>1, AdjustedIs
    <2>2. a \in ArgsType
      BY <2>1, OptimisedIs
    <2> QED BY <2>2 DEF ArgsType
  <1> HIDE DEF d, a
  <1>5. Shaped(m, ShapeOf(iovs, a.pages)) /\ Starts(o, iovs, a.pages, m)
    BY <1>1, <1>4, MemoryBegins
  <1> HIDE DEF m
  <1>6. call'[o] = d
    BY <1>1, <1>2
  <1>7. mem'[o] = b
    BY <1>1, <1>2, <1>6
  <1>8. PagesIn(d, b, data') /\ (d.step \in {"rbw", "write"} => d.args.size = moa_size)
    <2>1. CASE over
      <3>1. d.step = "failed"
        BY <2>1 DEF d, WriteOf, Ended, NoCall
      <3> QED BY <3>1 DEF PagesIn
    <2>2. CASE ~over
      <3>1. d = FirstOf(iovs, a)
        BY <2>2 DEF d, WriteOf, a
      <3>2. a = motr_obj_read_before_write_optimise(Adjusted(TRUE, iovs))
        BY DEF a
      <3> HIDE DEF e
      <3>3. e = IF d.step = "write" THEN motr_obj_data_copy(m, a) ELSE m
        BY DEF e
      <3> QED BY <1>1, <1>2, <1>5, <2>2, <3>1, <3>2, <3>3, PagesBegin
    <2> QED BY <2>1, <2>2
  <1> HIDE DEF b
  <1> QED BY <1>6, <1>7, <1>8 DEF PageStep, KeepsSize

(* Motr reads the pages.                                                   *)
LEMMA PagesExecuteRead ==
    ASSUME NEW c, NEW m, Laid(c, m), PagesIn(c, m, data), c.step = "rbw", ~c.executed,
           NEW b, b = ReadInto(m, c.batch), NEW d, Executes(c, d)
    PROVE  PagesIn(d, b, data)
  <1> DEFINE a == c.args
             S == ShapeOf(c.iovs, a.pages)
  <1>1. Placed(a, c.iovs) /\ BatchOf(a, c.batch) /\ Shaped(m, S)
    BY DEF Laid
  <1>2. /\ Accounted(a) /\ c.opcode = "READ" /\ c.progress.rbw = Len(a.rbw) /\ c.batch = a.rbw
        /\ \A v \in OwnVecs(a) : PageZero(m, v)
    BY DEF PagesIn
  <1>3. IsShape(S)
    <2>1. c.iovs \in Seq(Ranges) /\ a.pages \in Nat
      BY <1>1 DEF Placed, ArgsType
    <2> QED BY <2>1, ShapeIs DEF HasShape
  <1>4. \A j \in DOMAIN a.aligned : a.aligned[j] \in Range(c.batch) => Synced(data, b, a, c.iovs, a.aligned[j])
    BY <1>1, ReadAgrees
  <1>5. \A r \in DOMAIN S : \A k \in S[r] : ReadByte(m, b, c.batch, r, k)
    <2> HIDE DEF S
    <2> QED BY <1>1, <1>3, ReadIntoIs
  <1>6. ASSUME NEW v \in OwnVecs(a), v \in Range(a.rbw) PROVE Synced(data, b, a, c.iovs, v)
    <2>1. PICK j \in DOMAIN a.aligned : v = a.aligned[j]
      BY <1>1, PageIs DEF IsPage
    <2> QED BY <1>2, <1>4, <1>6, <2>1
  <1>7. ASSUME NEW v \in OwnVecs(a), v \notin Range(a.rbw), NEW y \in 0..(PageSize - 1)
        PROVE  b[v.base.r][y] = Zero
    <2>1. IsPage(a, v)
      BY <1>1, PageIs
    <2>2. PICK j \in DOMAIN a.aligned : v = a.aligned[j]
      BY <2>1 DEF IsPage
    <2>3. v.base.at = 0 /\ v.len = PageSize /\ 0 + y = y
      BY <2>1, VectorsAssumption DEF IsPage
    <2>4. v.base.r \in DOMAIN S /\ y \in S[v.base.r]
      <3>1. y \in 0..(a.aligned[j].len - 1)
        BY <2>2, <2>3
      <3>2. a.aligned[j].base.r \in DOMAIN S /\ a.aligned[j].base.at + y \in S[a.aligned[j].base.r]
        BY <1>1, <3>1, PositionsInside
      <3> HIDE DEF S
      <3> QED BY <2>2, <2>3, <3>2
    <2>5. ReadByte(m, b, c.batch, v.base.r, y)
      <3> HIDE DEF S
      <3> QED BY <1>5, <2>4
    <2>6. ASSUME NEW w \in Range(c.batch), InVector(w, v.base.r, y) PROVE FALSE
      <3>1. w \in VecType /\ (w.len = 0 \/ \E k \in DOMAIN a.aligned : w = a.aligned[k])
        BY <1>1 DEF BatchOf
      <3>2. w.base.r = v.base.r /\ w.base.at <= y /\ y < w.base.at + w.len
        BY <2>6 DEF InVector
      <3>3. w.len # 0
        <4>1. w.base.at \in Nat /\ w.len \in Nat /\ y \in Int
          BY <3>1 DEF VecType, BaseType
        <4> QED BY <3>2, <4>1
      <3>4. w \in Range(a.aligned)
        BY <3>1, <3>3 DEF Range
      <3>5. w = v
        BY <2>1, <3>2, <3>4 DEF IsPage
      <3> QED BY <1>2, <1>7, <3>5
    <2>7. b[v.base.r][y] = m[v.base.r][y]
      BY <2>5, <2>6 DEF ReadByte
    <2> QED BY <1>2, <2>7 DEF PageZero
  <1>8. PagesRead(a, c.iovs, b, data)
    BY <1>6, <1>7 DEF PagesRead, PageZero
  <1>9. /\ d.step = "rbw" /\ d.iovs = c.iovs /\ d.args = a /\ d.progress = c.progress
        /\ d.batch = c.batch /\ d.opcode = c.opcode /\ d.executed = TRUE
    BY DEF Executes
  <1> QED BY <1>2, <1>8, <1>9 DEF PagesIn

(* Motr writes a batch.                                                    *)
LEMMA PagesExecuteWrite ==
    ASSUME NEW c, NEW m, Laid(c, m), PagesIn(c, m, data), c.step = "write", Disjoint(c.args.aligned),
           NEW E, E = WrittenFrom(m, c.batch), NEW d, Executes(c, d)
    PROVE  PagesIn(d, m, E)
  <1> DEFINE a == c.args
  <1>1. Placed(a, c.iovs) /\ BatchOf(a, c.batch)
    BY DEF Laid
  <1>2. Accounted(a) /\ PagesKept(c, m, data)
    BY DEF PagesIn
  <1>3. d.step = "write" /\ d.iovs = c.iovs /\ d.args = a
    BY DEF Executes
  <1>4. ASSUME NEW v \in OwnVecs(a), NEW y \in 0..(PageSize - 1) PROVE PageByte(a, c.iovs, m, E, v, y)
    <2>1. PageByte(a, c.iovs, m, data, v, y)
      BY <1>2 DEF PagesKept
    <2>2. Agrees(data, m, a, c.iovs, v.base.r, y) => Agrees(E, m, a, c.iovs, v.base.r, y)
      BY <1>1, WriteAgreesAt
    <2> QED BY <2>1, <2>2 DEF PageByte
  <1>5. PagesKept(d, m, E)
    BY <1>3, <1>4 DEF PagesKept
  <1> QED BY <1>2, <1>3, <1>5 DEF PagesIn

(* Motr executes a batch of a write or of what is read before it.          *)
LEMMA PagesExecute ==
    ASSUME BytesOK, NEW o \in Ops, PagesIn(call[o], mem[o], data), MotrExecute(o)
    PROVE  PageStep(o)
  <1> DEFINE c == call[o]
             m == mem[o]
             d == [c EXCEPT !.executed = TRUE]
  <1>1. /\ c \in CallType /\ CallBytes(o, c, m, data) /\ call \in [Ops -> CallType]
        /\ mem = [p \in Ops |-> mem[p]] /\ PagesIn(c, m, data)
    BY DEF BytesOK, CallsInv, Good, CallOK
  <1>2. /\ c.step \in Busy /\ ~c.executed /\ call' = [call EXCEPT ![o] = d]
        /\ c.opcode = "READ" => mem' = [mem EXCEPT ![o] = ReadInto(mem[o], c.batch)] /\ data' = data
        /\ c.opcode # "READ" => data' = WrittenFrom(m, c.batch) /\ mem' = mem
    BY DEF MotrExecute, Launched, Busy
  <1>3. Executes(c, d)
    BY <1>1 DEF CallType, Executes
  <1> HIDE DEF d
  <1>4. call'[o] = d
    BY <1>1, <1>2
  <1>5. d.step = c.step /\ d.args = c.args /\ d.iovs = c.iovs
    BY <1>3 DEF Executes
  <1>6. KeepsSize(c, d)
    BY <1>5 DEF KeepsSize
  <1>7. /\ Laid(c, m) /\ (c.step # "read" => WriteBytes(o, c, m, data))
    BY <1>1, <1>2 DEF CallBytes
  <1>8. CASE c.step = "read"
    <2>1. PagesIn(d, mem'[o], data')
      BY <1>5, <1>8 DEF PagesIn
    <2> QED BY <1>4, <1>6, <2>1 DEF PageStep
  <1>9. CASE c.step = "rbw"
    <2>1. c.opcode = "READ"
      BY <1>1, <1>9 DEF PagesIn
    <2>2. mem'[o] = ReadInto(m, c.batch) /\ data' = data
      BY <1>1, <1>2, <2>1
    <2> HIDE DEF c, m
    <2>3. PagesIn(d, ReadInto(m, c.batch), data)
      BY <1>1, <1>2, <1>3, <1>7, <1>9, PagesExecuteRead
    <2> QED BY <1>4, <1>6, <2>2, <2>3 DEF PageStep, c
  <1>10. CASE c.step = "write"
    <2>1. c.opcode = "WRITE" /\ Disjoint(c.args.aligned)
      BY <1>7, <1>10 DEF WriteBytes, WriteLists
    <2>2. mem'[o] = m /\ data' = WrittenFrom(m, c.batch)
      BY <1>2, <2>1
    <2> HIDE DEF c, m
    <2>3. PagesIn(d, m, data')
      BY <1>1, <1>3, <1>7, <1>10, <2>1, <2>2, PagesExecuteWrite
    <2> QED BY <1>4, <1>6, <2>2, <2>3 DEF PageStep, c
  <1> QED BY <1>2, <1>8, <1>9, <1>10 DEF Busy

(* A call that has no pages, or frees them.                                *)
LEMMA PagesGone ==
    ASSUME NEW o, call'[o].step \notin {"rbw", "write"}
    PROVE  PageStep(o)
  BY DEF PageStep, PagesIn, KeepsSize

(* The pages have been read.                                               *)
LEMMA PagesReadPp ==
    ASSUME BytesOK, NEW o \in Ops, PagesIn(call[o], mem[o], data), motr_obj_read_before_write_pp(o)
    PROVE  PageStep(o)
  <1> DEFINE c == call[o]
             m == mem[o]
             w == [c EXCEPT !.step = "write"]
             d == motr_obj_rw_aligned(w, "aligned", "WRITE")
             e == motr_obj_data_copy(m, c.args)
             b == SubSeq(e, 1, d.args.iovcnt + d.args.pages)
  <1>1. /\ c \in CallType /\ CallOK(c) /\ CallBytes(o, c, m, data) /\ call \in [Ops -> CallType]
        /\ mem = [p \in Ops |-> mem[p]]
    BY DEF BytesOK, CallsInv, Good, CallOK
  <1>2. c.step = "rbw" /\ c.executed /\ data' = data
    BY DEF motr_obj_read_before_write_pp
  <1>3. /\ Accounted(c.args) /\ c.progress.rbw = Len(c.args.rbw) /\ PagesRead(c.args, c.iovs, m, data)
    BY <1>2 DEF PagesIn
  <1>4. /\ call' = [call EXCEPT ![o] = d]
        /\ mem' = [mem EXCEPT ![o] = SubSeq(e, 1, call'[o].args.iovcnt + call'[o].args.pages)]
    BY <1>3 DEF motr_obj_read_before_write_pp, OwnBuffers
  <1>5. w \in CallType /\ w.step = "write" /\ w.iovs = c.iovs /\ w.args = c.args /\ w.progress = c.progress
    BY <1>1 DEF CallType
  <1> HIDE DEF w, c, m
  <1>6. CallOK(w) /\ c.iovs # <<>>
    BY <1>1, <1>2, <1>5 DEF CallOK, Writing
  <1>7. Laid(c, m) /\ WriteLists(c.args)
    BY <1>1, <1>2 DEF CallBytes, Busy, WriteBytes
  <1>8. d.step = "failed" \/ Launches(w, d, "aligned", "WRITE")
    BY <1>5, <1>6, LaunchIs
  <1>9. d.step = "failed" \/ (d.step = "write" /\ d.args = c.args /\ d.iovs = c.iovs)
    BY <1>5, <1>8 DEF Launches
  <1> HIDE DEF d
  <1>10. PagesIn(d, b, data)
    <2>1. Placed(c.args, c.iovs) /\ Shaped(m, ShapeOf(c.iovs, c.args.pages))
      BY <1>7 DEF Laid
    <2> QED BY <1>3, <1>7, <1>9, <2>1, PagesReady
  <1>11. call'[o] = d
    BY <1>1, <1>4
  <1>12. mem'[o] = b
    BY <1>1, <1>4, <1>11
  <1>13. KeepsSize(c, d)
    BY <1>2, <1>9 DEF KeepsSize
  <1> HIDE DEF b
  <1> QED BY <1>2, <1>10, <1>11, <1>12, <1>13 DEF PageStep, c

(* A batch has been written.                                               *)
LEMMA PagesWritePp ==
    ASSUME BytesOK, NEW o \in Ops, PagesIn(call[o], mem[o], data), motr_obj_write_pp(o)
    PROVE  PageStep(o)
  <1> DEFINE c == call[o]
             m == mem[o]
             last == c.progress.aligned = Len(c.args.aligned)
  <1>1. /\ c \in CallType /\ CallOK(c) /\ CallBytes(o, c, m, data) /\ call \in [Ops -> CallType]
        /\ mem = [p \in Ops |-> mem[p]] /\ PagesIn(c, m, data)
    BY DEF BytesOK, CallsInv, Good, CallOK
  <1>2. /\ c.step = "write" /\ data' = data
        /\ mem' = [mem EXCEPT ![o] = SubSeq(m, 1, call'[o].args.iovcnt + call'[o].args.pages)]
    BY DEF motr_obj_write_pp, OwnBuffers
  <1>3. CASE ~last
    <2> DEFINE d == motr_obj_rw_aligned(c, "aligned", "WRITE")
    <2>1. call' = [call EXCEPT ![o] = d]
      BY <1>3 DEF motr_obj_write_pp
    <2>2. c.iovs # <<>>
      BY <1>1, <1>2 DEF CallOK
    <2> HIDE DEF c, m
    <2>3. d.step = "failed" \/ Launches(c, d, "aligned", "WRITE")
      BY <1>1, <2>2, LaunchIs
    <2> HIDE DEF d
    <2>4. call'[o] = d
      BY <1>1, <2>1
    <2>5. CASE d.step = "failed"
      BY <2>4, <2>5, PagesGone
    <2>6. CASE Launches(c, d, "aligned", "WRITE")
      <3>1. d.step = "write" /\ d.args = c.args /\ d.iovs = c.iovs
        BY <1>2, <2>6 DEF Launches
      <3>2. Laid(c, m)
        BY <1>1, <1>2 DEF CallBytes, Busy
      <3>3. SubSeq(m, 1, d.args.iovcnt + d.args.pages) = m
        BY <3>1, <3>2, AllRegions DEF Laid
      <3>4. mem'[o] = m
        BY <1>1, <1>2, <2>4, <3>3
      <3>5. Accounted(c.args) /\ PagesKept(c, m, data)
        BY <1>1, <1>2 DEF PagesIn
      <3>6. PagesKept(d, m, data)
        BY <3>1, <3>5 DEF PagesKept
      <3>7. PagesIn(d, m, data)
        BY <3>1, <3>5, <3>6 DEF PagesIn
      <3>8. KeepsSize(c, d)
        BY <1>2, <3>1 DEF KeepsSize
      <3> QED BY <1>2, <2>4, <3>4, <3>7, <3>8 DEF PageStep, c
    <2> QED BY <2>3, <2>5, <2>6
  <1>4. CASE last
    <2>1. call'[o].step \in {"put", "done"}
      <3>1. CASE max_eow(c.iovs) <= moa_size
        <4>1. call' = [call EXCEPT ![o] = Ended(c, "done")]
          BY <1>4, <3>1 DEF motr_obj_write_pp
        <4>2. Ended(c, "done").step = "done"
          BY DEF Ended, NoCall
        <4> QED BY <1>1, <4>1, <4>2
      <3>2. CASE ~(max_eow(c.iovs) <= moa_size)
        <4> DEFINE d == [Ended(c, "put") EXCEPT !.args.size = max_eow(c.iovs)]
        <4>1. call' = [call EXCEPT ![o] = d]
          BY <1>4, <3>2 DEF motr_obj_write_pp
        <4>2. d.step = "put"
          BY DEF Ended, NoCall
        <4> HIDE DEF d
        <4> QED BY <1>1, <4>1, <4>2
      <3> QED BY <3>1, <3>2
    <2> QED BY <2>1, PagesGone
  <1> QED BY <1>3, <1>4

(* Every step of a call keeps what is known of its pages.                  *)
LEMMA PageSteps ==
    ASSUME PageSized, RbwOneOp, BytesOK, NEW o \in Ops, PagesIn(call[o], mem[o], data), Acts(o)
    PROVE  PageStep(o)
  <1> DEFINE c == call[o]
  <1>1. call \in [Ops -> CallType] /\ CallOK(c) /\ moa_size \in Nat
    BY DEF BytesOK, CallsInv, Good
  <1>2. ASSUME NEW iovs \in Vectors[o], mio_motr_obj_readv(o, iovs) PROVE PageStep(o)
    <2> DEFINE d == motr_obj_rw_aligned(Begun("read", iovs, Adjusted(FALSE, iovs)), "aligned", "READ")
    <2>1. iovs \in Seq(Ranges) /\ iovs # <<>>
      BY IOAssumption
    <2>2. d.step \in {"read", "failed"}
      BY <1>1, <2>1, ReadBegins
    <2>3. call' = [call EXCEPT ![o] = d]
      BY <1>2 DEF mio_motr_obj_readv
    <2> HIDE DEF d
    <2>4. call'[o].step \notin {"rbw", "write"}
      BY <1>1, <2>2, <2>3
    <2> QED BY <2>4, PagesGone
  <1>3. CASE MotrFail(o)
    <2>1. call'[o] = Ended(c, "failed")
      BY <1>1, <1>3 DEF MotrFail
    <2>2. Ended(c, "failed").step = "failed"
      BY DEF Ended, NoCall
    <2> QED BY <2>1, <2>2, PagesGone
  <1>4. CASE PutDone(o) \/ PutFail(o)
    <2>1. call'[o] = Ended(c, "done") \/ call'[o] = Ended(c, "failed")
      BY <1>1, <1>4 DEF PutDone, PutFail
    <2>2. Ended(c, "done").step = "done" /\ Ended(c, "failed").step = "failed"
      BY DEF Ended, NoCall
    <2> QED BY <2>1, <2>2, PagesGone
  <1>5. CASE motr_obj_read_pp(o)
    <2> DEFINE d == motr_obj_rw_aligned(c, "aligned", "READ")
    <2>1. call'[o] = Ended(c, "done") \/ call'[o] = d
      BY <1>1, <1>5 DEF motr_obj_read_pp
    <2>2. Ended(c, "done").step = "done"
      BY DEF Ended, NoCall
    <2>3. c.step = "read" /\ c.iovs # <<>>
      BY <1>1, <1>5 DEF motr_obj_read_pp, CallOK
    <2> HIDE DEF c
    <2>4. d.step = "failed" \/ Launches(c, d, "aligned", "READ")
      BY <1>1, <2>3, LaunchIs
    <2> HIDE DEF d
    <2>5. d.step \in {"failed", "read"}
      BY <2>3, <2>4 DEF Launches
    <2> QED BY <2>1, <2>2, <2>5, PagesGone
  <1>6. CASE Call(o)
    BY <1>2, <1>6, PagesWritev DEF Call
  <1> QED BY <1>3, <1>4, <1>5, <1>6, PagesExecute, PagesReadPp, PagesWritePp DEF Acts, PostProcess

(***************************************************************************)
(* The invariant: the pages of each write are accounted for; and a write   *)
(* goes by the size that the handle has, or lies within what it goes by.   *)
(***************************************************************************)
PagesOK   == \A o \in Ops : PagesIn(call[o], mem[o], data)

SizeKnown == \A o \in Ops : call[o].step \in {"rbw", "write"} =>
                 call[o].args.size = moa_size \/ max_eow(call[o].iovs) <= call[o].args.size

OwnInv == ByteInv /\ SizeInv /\ PagesOK /\ SizeKnown

(* Only a write that ends behind the object changes the size.              *)
LEMMA Enlarges ==
    ASSUME CallsInv, NEW o \in Ops, Acts(o), moa_size' # moa_size
    PROVE  Growing(o) /\ call'[o].step = "put"
  <1> DEFINE c == call[o]
             d == [Ended(c, "put") EXCEPT !.args.size = max_eow(c.iovs)]
  <1>1. motr_obj_write_pp(o)
    BY DEF Acts, Call, PostProcess, mio_motr_obj_writev, mio_motr_obj_readv, MotrExecute, MotrFail,
           motr_obj_read_before_write_pp, motr_obj_read_pp, PutDone, PutFail
  <1>2. /\ c.step = "write" /\ c.progress.aligned = Len(c.args.aligned) /\ ~(max_eow(c.iovs) <= moa_size)
        /\ call' = [call EXCEPT ![o] = d]
    BY <1>1 DEF motr_obj_write_pp
  <1>3. d.step = "put"
    BY DEF Ended, NoCall
  <1> HIDE DEF d
  <1>4. call'[o].step = "put"
    BY <1>2, <1>3 DEF CallsInv
  <1>5. c.step \in Writing
    BY <1>2 DEF Writing
  <1>6. max_eow(c.iovs) \in Nat /\ moa_size \in Nat
    BY <1>5, EndsAre DEF CallsInv
  <1>7. max_eow(c.iovs) > moa_size
    <2> DEFINE e == max_eow(c.iovs)
    <2>1. e \in Nat /\ ~(e <= moa_size) /\ moa_size \in Nat
      BY <1>2, <1>6
    <2> HIDE DEF e
    <2>2. e > moa_size
      BY <2>1
    <2> QED BY <2>2 DEF e
  <1> QED BY <1>4, <1>5, <1>7 DEF Growing

(* A write goes by the size of the handle, or lies within what it goes by, *)
(* also when another call has made the object larger.                      *)
LEMMA KnownStep ==
    ASSUME CallsInv, OneGrows, SizeKnown, NEW o \in Ops, Acts(o), KeepsSize(call[o], call'[o]),
           \A p \in Ops : p # o => call'[p] = call[p], NEW p \in Ops, call'[p].step \in {"rbw", "write"}
    PROVE  call'[p].args.size = moa_size' \/ max_eow(call'[p].iovs) <= call'[p].args.size
  <1>1. CASE moa_size' = moa_size
    <2>1. CASE p = o
      BY <1>1, <2>1 DEF KeepsSize, SizeKnown
    <2>2. CASE p # o
      BY <1>1, <2>2 DEF SizeKnown
    <2> QED BY <2>1, <2>2
  <1>2. CASE moa_size' # moa_size
    <2>1. Growing(o) /\ call'[o].step = "put"
      BY <1>2, Enlarges
    <2>2. p # o /\ call'[p] = call[p]
      BY <2>1
    <2>3. ~Growing(p) /\ call[p].step \in Writing
      BY <2>1, <2>2 DEF OneGrows, Writing
    <2>4. ~(max_eow(call[p].iovs) > moa_size)
      BY <2>3 DEF Growing
    <2>5. max_eow(call[p].iovs) <= moa_size
      <3> DEFINE e == max_eow(call[p].iovs)
      <3>1. e \in Nat /\ moa_size \in Nat /\ ~(e > moa_size)
        BY <2>3, <2>4, EndsAre DEF CallsInv
      <3> HIDE DEF e
      <3>2. e <= moa_size
        BY <3>1
      <3> QED BY <3>2 DEF e
    <2> QED BY <2>2, <2>5 DEF SizeKnown
  <1> QED BY <1>1, <1>2

(* The invariant is inductive.                                             *)
LEMMA OwnStep ==
    ASSUME PageSized, PagesApart, ExtendAlone, RbwOneOp, OwnInv, Next
    PROVE  OwnInv'
  <1>1. ByteInv /\ BytesOK /\ Apart /\ SizeInv /\ PagesOK /\ SizeKnown
    BY DEF OwnInv, ByteInv
  <1>2. /\ CallsInv /\ OneGrows /\ mem = [p \in Ops |-> mem[p]] /\ call \in [Ops -> CallType]
        /\ \A p \in Ops : CallBytes(p, call[p], mem[p], data)
    BY <1>1 DEF BytesOK, CallsInv, SizeInv
  <1>3. PICK o \in Ops : Acts(o)
    BY DEF Next, Acts
  <1>4. PICK d, b : Becomes(o, d, b) /\ Touches(o, call[o], d) /\ ChangesOwn(call[o])
    BY <1>1, <1>3, ByteSteps DEF ByteStep
  <1>5. \A p \in Ops : p # o => call'[p] = call[p] /\ mem'[p] = mem[p]
    BY <1>2, <1>4 DEF Becomes
  <1>6. PageStep(o)
    BY <1>1, <1>3, PageSteps DEF PagesOK
  <1>7. ASSUME NEW p \in Ops PROVE PagesIn(call'[p], mem'[p], data')
    <2>1. CASE p = o
      BY <1>6, <2>1 DEF PageStep
    <2>2. CASE p # o
      <3>1. call'[p] = call[p] /\ mem'[p] = mem[p] /\ PagesIn(call[p], mem[p], data)
        BY <1>1, <1>5, <2>2 DEF PagesOK
      <3>2. CASE data' = data
        BY <3>1, <3>2
      <3>3. CASE call[p].step \notin Busy
        BY <3>1, <3>3 DEF PagesIn, Busy
      <3>4. CASE data' # data /\ call[p].step \in Busy
        <4>1. /\ call[o].step \in Busy /\ call[o].args.is_write = TRUE /\ DOMAIN data' = DOMAIN data
              /\ \A i \in DOMAIN data : data'[i] # data[i] => i \div PageSize \in Pages(call[o].iovs)
          BY <1>4, <3>4 DEF ChangesOwn
        <4>2. Pages(call[o].iovs) \cap Pages(call[p].iovs) = {}
          BY <1>1, <2>2, <3>4, <4>1 DEF Apart, Clear
        <4>3. \A i \in DOMAIN data : i \div PageSize \in Pages(call[p].iovs) => data'[i] = data[i]
          BY <4>1, <4>2
        <4>4. Laid(call[p], mem[p])
          BY <1>2, <3>4 DEF CallBytes
        <4>5. PagesIn(call[p], mem[p], data')
          BY <3>1, <4>1, <4>3, <4>4, PagesElsewhere
        <4> QED BY <3>1, <4>5
      <3> QED BY <3>2, <3>3, <3>4
    <2> QED BY <2>1, <2>2
  <1>8. PagesOK'
    BY <1>7 DEF PagesOK
  <1>9. ASSUME NEW p \in Ops, call'[p].step \in {"rbw", "write"}
        PROVE  call'[p].args.size = moa_size' \/ max_eow(call'[p].iovs) <= call'[p].args.size
    BY <1>1, <1>2, <1>3, <1>5, <1>6, <1>9, KnownStep DEF PageStep
  <1>10. SizeKnown'
    BY <1>9 DEF SizeKnown
  <1>11. ByteInv' /\ SizeInv'
    BY <1>1, BytesStep, SizesStep
  <1> QED BY <1>8, <1>10, <1>11 DEF OwnInv

(* It always holds.                                                        *)
LEMMA OwnAlways ==
    ASSUME PageSized, PagesApart, ExtendAlone, RbwOneOp
    PROVE  Spec => []OwnInv
  <1>1. Init => OwnInv
    <2> SUFFICES ASSUME Init PROVE OwnInv
      OBVIOUS
    <2>1. ByteInv /\ SizeInv
      BY BytesInitially, SizesInitially
    <2>2. \A o \in Ops : call[o].step = "idle"
      BY DEF Init, NoCall
    <2> QED BY <2>1, <2>2 DEF OwnInv, PagesOK, PagesIn, SizeKnown
  <1>2. OwnInv /\ [Next]_vars => OwnInv'
    <2> SUFFICES ASSUME OwnInv, [Next]_vars PROVE OwnInv'
      OBVIOUS
    <2>1. CASE Next
      BY <2>1, OwnStep
    <2>2. CASE UNCHANGED vars
      <3>1. ByteInv /\ SizeInv /\ PagesOK /\ SizeKnown
        BY DEF OwnInv
      <3>2. ByteInv'
        BY <2>2, <3>1 DEF ByteInv, BytesOK, CallsInv, Apart, Known, vars
      <3>3. SizeInv'
        BY <3>1, SizesStep
      <3>4. PagesOK' /\ SizeKnown'
        BY <2>2, <3>1 DEF PagesOK, SizeKnown, vars
      <3> QED BY <3>2, <3>3, <3>4 DEF OwnInv
    <2> QED BY <2>1, <2>2
  <1> QED BY <1>1, <1>2, PTL DEF Spec

------------------------------------------------------------------------------
(* The byte that the call o has for byte i of the object.                  *)
OwnByte(o, i, byte) == \E p \in Places(o) : p[1] = i /\ byte = AppByte(o, p[2], p[3])

(* A byte of a buffer is the call's own at its place.                      *)
LEMMA OwnByteIs ==
    ASSUME NEW o, NEW n \in DOMAIN call[o].iovs, NEW k \in 0..(call[o].iovs[n].len - 1)
    PROVE  OwnByte(o, call[o].iovs[n].off + k, AppByte(o, n, k))
  <1> DEFINE p == <<call[o].iovs[n].off + k, n, k>>
  <1>1. p \in Places(o)
    BY DEF Places
  <1>2. p[1] = call[o].iovs[n].off + k /\ p[2] = n /\ p[3] = k
    OBVIOUS
  <1> QED BY <1>1, <1>2 DEF OwnByte

(* What is written from a buffer ...                                       *)
LEMMA OwnFromBuffer ==
    ASSUME NEW o, NEW a, a = call[o].args, NEW iovs, iovs = call[o].iovs, Placed(a, iovs),
           NEW m, BuffersHold(o, call[o], m), NEW v, v \in VecType, VecFits(a, iovs, v), v.base.r <= a.iovcnt,
           NEW x \in 0..(v.len - 1)
    PROVE  OwnByte(o, v.off + x, m[v.base.r][v.base.at + x])
  <1> DEFINE r == v.base.r
             k == v.base.at + x
  <1>1. r \in 1..Len(iovs) /\ v.base.at + v.len <= iovs[r].len /\ v.off = iovs[r].off + v.base.at
    BY DEF VecFits, Within
  <1>2. iovs \in Seq(Ranges)
    BY DEF Placed
  <1>3. r \in DOMAIN iovs /\ iovs[r] \in Ranges
    BY <1>1, <1>2
  <1>4. iovs[r].off \in Nat /\ iovs[r].len \in Nat /\ v.base.at \in Nat /\ v.len \in Nat
    BY <1>3 DEF Ranges, VecType, BaseType
  <1>5. k \in 0..(iovs[r].len - 1) /\ v.off + x = iovs[r].off + k
    <2>1. \A l, f, t, n \in Nat : \A z \in 0..(n - 1) :
            t + n <= l => t + z \in 0..(l - 1) /\ f + t + z = f + (t + z)
      OBVIOUS
    <2> HIDE DEF r
    <2>2. v.base.at + x \in 0..(iovs[r].len - 1)
      BY <1>1, <1>4, <2>1
    <2>3. iovs[r].off + v.base.at + x = iovs[r].off + (v.base.at + x)
      BY <1>1, <1>4, <2>1
    <2> QED BY <1>1, <2>2, <2>3
  <1> HIDE DEF k, r
  <1>6. m[r][k] = AppByte(o, r, k)
    BY <1>1, <1>5 DEF BuffersHold
  <1>7. OwnByte(o, iovs[r].off + k, AppByte(o, r, k))
    BY <1>3, <1>5, OwnByteIs
  <1>8. OwnByte(o, v.off + x, m[r][k])
    BY <1>5, <1>6, <1>7
  <1> QED BY <1>8 DEF r, k

(* ... and from the part of a page into which data was copied.             *)
LEMMA OwnFromCopy ==
    ASSUME NEW o, NEW a, a = call[o].args, NEW iovs, iovs = call[o].iovs, Placed(a, iovs),
           NEW m, PagesHold(o, call[o], m), NEW v \in OwnVecs(a), NEW y \in 0..(PageSize - 1),
           Overwrites(a.dc, v.base, y)
    PROVE  OwnByte(o, v.off + y, m[v.base.r][y])
  <1>1. PICK h \in DOMAIN a.dc : a.dc[h].page = v.base /\ a.dc[h].off <= y /\ y < a.dc[h].off + a.dc[h].len
    BY DEF Overwrites
  <1> DEFINE g == a.dc[h]
             x == y - g.off
  <1>2. IsPage(a, v)
    BY PageIs
  <1>3. v.base.at = 0 /\ v.off \in Nat /\ y \in Nat
    BY <1>2, VectorsAssumption DEF IsPage
  <1>4. PICK j \in DOMAIN a.aligned : v = a.aligned[j]
    BY <1>2 DEF IsPage
  <1>5. a.dc \in Seq(CopyType) /\ DOMAIN a.dc = 1..Len(a.dc)
    BY DEF Placed, ArgsType
  <1>6. g.off \in Nat /\ g.len \in Nat
    <2>1. g \in CopyType
      BY <1>5
    <2> QED BY <2>1 DEF CopyType
  <1>7. g.page = v.base /\ g.off <= y /\ y < g.off + g.len
    BY <1>1
  <1>8. x \in 0..(g.len - 1) /\ g.off + x = y
    <2> HIDE DEF g
    <2> QED BY <1>3, <1>6, <1>7
  <1>9. CopyOf(a, iovs, g, v)
    <2>1. g.page.r = v.base.r
      BY <1>7
    <2> QED BY <2>1, CopyToPage
  <1> HIDE DEF x
  <1>10. OneHome(a, iovs, g, v, x)
    BY <1>4, <1>8, <1>9, HomesOfCopy
  <1>11. h \in 1..Len(a.dc)
    BY <1>5
  <1>12. m[g.page.r][g.page.at + g.off + x] = AppByte(o, g.app.r, g.app.at + x)
    BY <1>8, <1>11 DEF PagesHold
  <1> HIDE DEF g
  <1>13. /\ v.off + g.off + x = iovs[g.app.r].off + (g.app.at + x)
         /\ g.app.r \in 1..Len(iovs) /\ g.app.at + x \in 0..(iovs[g.app.r].len - 1)
    BY <1>10 DEF OneHome
  <1>14. g.app.r \in DOMAIN iovs
    BY <1>13 DEF Placed
  <1>15. OwnByte(o, iovs[g.app.r].off + (g.app.at + x), AppByte(o, g.app.r, g.app.at + x))
    BY <1>13, <1>14, OwnByteIs
  <1>16. v.off + g.off + x = v.off + y /\ g.page.at + g.off + x = y
    <2>1. x \in Int
      BY <1>8
    <2>2. v.off + g.off + x = v.off + (g.off + x)
      BY <1>3, <1>6, <2>1
    <2>3. 0 + g.off + x = g.off + x
      BY <1>6, <2>1
    <2> QED BY <1>3, <1>7, <1>8, <2>2, <2>3
  <1>17. m[v.base.r][y] = AppByte(o, g.app.r, g.app.at + x)
    BY <1>7, <1>12, <1>16
  <1> QED BY <1>13, <1>15, <1>16, <1>17

(* A page that has nothing of the object lies behind the size.             *)
LEMMA PageBehind ==
    ASSUME NEW a, NEW iovs, iovs # <<>>, Placed(a, iovs), Accounted(a), NEW v \in OwnVecs(a), v.off >= a.size,
           a.size = moa_size \/ max_eow(iovs) <= a.size, moa_size \in Nat, NEW y \in 0..(PageSize - 1)
    PROVE  v.off + y >= moa_size
  <1>1. PICK h \in DOMAIN a.dc : a.dc[h].page = v.base
    BY DEF Accounted
  <1> DEFINE g == a.dc[h]
             r == g.app.r
  <1>2. CopyOf(a, iovs, g, v)
    <2>1. g.page.r = v.base.r
      BY <1>1
    <2> QED BY <2>1, CopyToPage
  <1>3. g \in CopyType /\ iovs \in Seq(Ranges) /\ a.size \in Nat
    <2>1. a.dc \in Seq(CopyType)
      BY DEF Placed, ArgsType
    <2> QED BY <2>1 DEF Placed, ArgsType
  <1>4. g.off \in Nat /\ g.len \in Nat /\ g.app.at \in Nat
    BY <1>3 DEF CopyType, BaseType
  <1> HIDE DEF g
  <1>5. /\ g.len > 0 /\ r \in 1..Len(iovs) /\ g.app.at + g.len <= iovs[r].len
        /\ v.off + g.off = iovs[r].off + g.app.at
    BY <1>2 DEF CopyOf, Within
  <1>6. r \in DOMAIN iovs /\ iovs[r] \in Ranges
    BY <1>3, <1>5
  <1>7. iovs[r].off \in Nat /\ iovs[r].len \in Nat
    BY <1>6 DEF Ranges
  <1>8. max_eow(iovs) \in Nat /\ iovs[r].off + iovs[r].len <= max_eow(iovs)
    BY <1>3, <1>6, MaxEow
  <1>9. v.off \in Nat /\ y \in Nat
    BY PageIs, VectorsAssumption DEF IsPage
  <1> DEFINE e == max_eow(iovs)
             f == iovs[r].off
             l == iovs[r].len
             s == a.size
  <1>10. e \in Nat /\ f \in Nat /\ l \in Nat /\ f + l <= e /\ s \in Nat /\ v.off >= s /\ (s = moa_size \/ e <= s)
    BY <1>3, <1>7, <1>8
  <1>11. g.app.at + g.len <= l /\ v.off + g.off = f + g.app.at
    BY <1>5
  <1> HIDE DEF e, f, l, s, r
  <1>12. v.off < e
    BY <1>4, <1>5, <1>9, <1>10, <1>11, SMTT(30)
  <1>13. s = moa_size
    BY <1>9, <1>10, <1>12
  <1> QED BY <1>9, <1>10, <1>13

(* Motr writes vectors of what is launched, all or, when it fails, some.   *)
LEMMA WhoWrites ==
    ASSUME NEW o \in Ops, Acts(o), data' # data
    PROVE  /\ call[o].step \in Busy /\ call[o].opcode # "READ"
           /\ \E batch : Range(batch) \subseteq Range(call[o].batch) /\ data' = WrittenFrom(mem[o], batch)
  <1>1. MotrExecute(o) \/ MotrFail(o)
    BY DEF Acts, Call, PostProcess, mio_motr_obj_writev, mio_motr_obj_readv,
           motr_obj_read_before_write_pp, motr_obj_write_pp, motr_obj_read_pp, PutDone, PutFail
  <1>2. call[o].step \in Busy
    BY <1>1 DEF MotrExecute, MotrFail, Launched, Busy
  <1>3. CASE MotrExecute(o)
    <2>1. call[o].opcode # "READ" /\ data' = WrittenFrom(mem[o], call[o].batch)
      BY <1>3 DEF MotrExecute
    <2> QED BY <1>2, <2>1
  <1>4. CASE MotrFail(o)
    <2>1. /\ call[o].opcode = "WRITE"
          /\ \E S \in SUBSET DOMAIN call[o].batch : data' = WrittenFrom(mem[o], [i \in S |-> call[o].batch[i]])
      BY <1>4 DEF MotrFail
    <2>2. PICK S \in SUBSET DOMAIN call[o].batch : data' = WrittenFrom(mem[o], [i \in S |-> call[o].batch[i]])
      BY <2>1
    <2>3. Range([i \in S |-> call[o].batch[i]]) \subseteq Range(call[o].batch)
      BY DEF Range
    <2> QED BY <1>2, <2>1, <2>2, <2>3
  <1> QED BY <1>1, <1>3, <1>4

(* A byte that changes becomes the byte of a write in flight, or zero      *)
(* behind the object.                                                      *)
LEMMA WrittenIsOwn ==
    ASSUME OwnInv, Next, NEW i \in DOMAIN data, data'[i] # data[i]
    PROVE  \/ \E o \in Ops : InFlight(o) /\ IsWrite(o) /\ OwnByte(o, i, data'[i])
           \/ i >= moa_size /\ data'[i] = Zero
  <1>1. ByteInv /\ BytesOK /\ CallsInv /\ PagesOK /\ SizeKnown /\ moa_size \in Nat
    BY DEF OwnInv, ByteInv, BytesOK, CallsInv
  <1>2. PICK o \in Ops : Acts(o)
    BY DEF Next, Acts
  <1> DEFINE c == call[o]
             m == mem[o]
             a == c.args
  <1>3. /\ c.step \in Busy /\ c.opcode # "READ"
        /\ \E batch : Range(batch) \subseteq Range(c.batch) /\ data' = WrittenFrom(m, batch)
    BY <1>2, WhoWrites
  <1>4. PICK batch : Range(batch) \subseteq Range(c.batch) /\ data' = WrittenFrom(m, batch)
    BY <1>3
  <1>5. CallBytes(o, c, m, data) /\ PagesIn(c, m, data)
    BY <1>1 DEF BytesOK, PagesOK
  <1>6. c.step = "write"
    BY <1>3, <1>5 DEF CallBytes, ReadBytes, PagesIn, Busy
  <1>7. Laid(c, m) /\ WriteLists(a) /\ BuffersHold(o, c, m) /\ PagesHold(o, c, m)
    BY <1>5, <1>6 DEF CallBytes, WriteBytes, Busy
  <1>8. /\ InFlight(o) /\ IsWrite(o)
    BY <1>6, <1>7 DEF InFlight, IsWrite, WriteLists
  <1>9. Accounted(a) /\ PagesKept(c, m, data)
    BY <1>5, <1>6 DEF PagesIn
  <1>10. c.iovs # <<>> /\ (a.size = moa_size \/ max_eow(c.iovs) <= a.size)
    <2>1. CallOK(c)
      BY <1>1 DEF CallsInv, Good
    <2> QED BY <1>1, <1>6, <2>1 DEF CallOK, SizeKnown
  <1>11. Placed(a, c.iovs) /\ BatchOf(a, c.batch)
    BY <1>7 DEF Laid
  <1>12. BatchOf(a, batch)
    BY <1>4, <1>11 DEF BatchOf
  <1>13. WrittenByte(m, data', batch, i)
    BY <1>4, <1>12, WrittenFromIs
  <1>14. PICK v \in Range(batch) : i \in BytesOf(v) /\ data'[i] = m[v.base.r][v.base.at + (i - v.off)]
    BY <1>13 DEF WrittenByte
  <1>15. v \in VecType /\ (v.len = 0 \/ \E j \in DOMAIN a.aligned : v = a.aligned[j])
    BY <1>12 DEF BatchOf
  <1>16. v.off \in Nat /\ v.len \in Nat /\ v.base.r \in Nat /\ v.base.at \in Nat
    BY <1>15 DEF VecType, BaseType
  <1> DEFINE x == i - v.off
  <1>17. x \in 0..(v.len - 1) /\ v.off + x = i /\ v.len # 0
    BY <1>14, <1>16 DEF BytesOf
  <1>18. data'[i] = m[v.base.r][v.base.at + x]
    BY <1>14
  <1>19. PICK j \in DOMAIN a.aligned : v = a.aligned[j]
    BY <1>15, <1>17
  <1>20. VecFits(a, c.iovs, v)
    BY <1>11, <1>19 DEF Placed, Fits
  <1> HIDE DEF x
  <1>21. CASE v.base.r <= a.iovcnt
    <2>1. OwnByte(o, v.off + x, m[v.base.r][v.base.at + x])
      BY <1>7, <1>11, <1>15, <1>17, <1>20, <1>21, OwnFromBuffer
    <2> QED BY <1>8, <1>17, <1>18, <2>1
  <1>22. CASE ~(v.base.r <= a.iovcnt)
    <2>1. v \in OwnVecs(a)
      <3>1. v \in Range(a.aligned)
        BY <1>19 DEF Range
      <3>2. a.iovcnt \in Nat
        BY <1>11 DEF Placed, ArgsType
      <3>3. v.base.r > a.iovcnt
        BY <1>16, <1>22, <3>2
      <3> QED BY <3>1, <3>3 DEF OwnVecs
    <2>2. IsPage(a, v)
      BY <1>11, <2>1, PageIs
    <2>3. v.base.at = 0 /\ x \in 0..(PageSize - 1)
      BY <1>17, <2>2 DEF IsPage
    <2>4. v.base.at + x = x
      BY <2>3
    <2>5. data'[i] = m[v.base.r][x]
      BY <1>18, <2>4
    <2>6. PageByte(a, c.iovs, m, data, v, x)
      BY <1>9, <2>1, <2>3 DEF PagesKept
    <2>7. CASE Overwrites(a.dc, v.base, x)
      <3>1. OwnByte(o, v.off + x, m[v.base.r][x])
        BY <1>7, <1>11, <2>1, <2>3, <2>7, OwnFromCopy
      <3> QED BY <1>8, <1>17, <2>5, <3>1
    <2>8. CASE Agrees(data, m, a, c.iovs, v.base.r, x)
      <3>1. Home(a, c.iovs, v.base.r, x, v.off + x)
        BY <1>11, <2>1, <2>3, PageHome
      <3>2. m[v.base.r][x] = data[i]
        BY <1>17, <2>8, <3>1 DEF Agrees
      <3> QED BY <2>5, <3>2
    <2>9. CASE m[v.base.r][x] = Zero /\ v.off >= a.size
      <3>1. v.off + x >= moa_size
        BY <1>1, <1>9, <1>10, <1>11, <2>1, <2>3, <2>9, PageBehind
      <3> QED BY <1>17, <2>5, <2>9, <3>1
    <2> QED BY <2>6, <2>7, <2>8, <2>9 DEF PageByte
  <1> QED BY <1>21, <1>22

(***************************************************************************)
(* A byte of the object changes only to the byte that a write in flight    *)
(* has for it, whatever else shares its page and also when the write fails *)
(* half way; behind the known size it may become zero.  This is so when    *)
(* the calls that share pages take turns, one write at a time grows the    *)
(* object and what is read before a write fits one Motr operation.         *)
(***************************************************************************)
THEOREM OthersBytesStay ==
    ASSUME PageSized, PagesApart, ExtendAlone, RbwOneOp
    PROVE  Spec => OnlyOwnBytes
  <1>1. ASSUME OwnInv, [Next]_vars, NEW i \in DOMAIN data, data'[i] # data[i]
        PROVE  \/ \E o \in Ops : /\ InFlight(o) /\ IsWrite(o)
                                 /\ \E p \in Places(o) : p[1] = i /\ data'[i] = AppByte(o, p[2], p[3])
               \/ i >= moa_size /\ data'[i] = Zero
    <2>1. Next
      <3>1. ~UNCHANGED vars
        BY <1>1 DEF vars
      <3> QED BY <1>1, <3>1
    <2>2. \/ \E o \in Ops : InFlight(o) /\ IsWrite(o) /\ OwnByte(o, i, data'[i])
          \/ i >= moa_size /\ data'[i] = Zero
      BY <1>1, <2>1, WrittenIsOwn
    <2> QED BY <2>2 DEF OwnByte
  <1>2. OwnInv /\ [Next]_vars =>
          [\A i \in DOMAIN data : data'[i] # data[i] =>
             \/ \E o \in Ops : /\ InFlight(o) /\ IsWrite(o)
                               /\ \E p \in Places(o) : p[1] = i /\ data'[i] = AppByte(o, p[2], p[3])
             \/ i >= moa_size /\ data'[i] = Zero]_vars
    BY <1>1
  <1>3. Spec => []OwnInv
    BY OwnAlways
  <1> QED BY <1>2, <1>3, PTL DEF Spec, OnlyOwnBytes
=============================================================================
