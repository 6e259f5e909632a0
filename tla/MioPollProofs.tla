---------------------------- MODULE MioPollProofs ----------------------------
(***************************************************************************)
(* Proofs about MioOp for every set of operations, every table of link     *)
(* kinds and every bound on the length of a chain, and then about MioPoll, *)
(* which extends it, for every number of threads and of operations in a    *)
(* call, and every timeout.                                                *)
(***************************************************************************)
EXTENDS MioPoll, FiniteSetTheorems, TLAPS

(***************************************************************************)
(* Facts about chains.                                                     *)
(***************************************************************************)

(* A driver operation that is added goes to the head of the chain and      *)
(* leaves the other links alone.                                           *)
LEMMA AddShape ==
    ASSUME NEW c \in Seq(DriverOp), NEW l \in Links
    PROVE  /\ mio_driver_op_add(c, l) \in Seq(DriverOp)
           /\ Len(mio_driver_op_add(c, l)) = Len(c) + 1
           /\ \A i \in 1..Len(c) : mio_driver_op_add(c, l)[i] = c[i]
           /\ mio_driver_op_add(c, l)[Len(c) + 1] = NewDriverOp(l)
  <1>1. NewDriverOp(l) \in DriverOp
    BY DEF NewDriverOp, DriverOp, MaxCount
  <1>2. QED
    BY <1>1 DEF mio_driver_op_add

(* Post-processing counts the head and changes no other link; if it        *)
(* launches a link, that is the new head, else the length stays.           *)
LEMMA PostProcessedShape ==
    ASSUME NEW c \in Seq(DriverOp), c # <<>>, NEW r
    PROVE  /\ PostProcessed(c, r) \in Seq(DriverOp)
           /\ \A i \in 1..Len(c)-1 : PostProcessed(c, r)[i] = c[i]
           /\ PostProcessed(c, r)[Len(c)].st = c[Len(c)].st
           /\ PostProcessed(c, r)[Len(c)].link = c[Len(c)].link
           /\ PostProcessed(c, r)[Len(c)].nr_pp = Count(c[Len(c)].nr_pp)
           /\ r \in Links =>
                /\ Len(PostProcessed(c, r)) = Len(c) + 1
                /\ PostProcessed(c, r)[Len(c) + 1] = NewDriverOp(r)
           /\ r \notin Links => Len(PostProcessed(c, r)) = Len(c)
  <1> DEFINE n == Len(c)
             c1 == [c EXCEPT ![n].nr_pp = Count(@)]
  <1>1. n \in Nat /\ n >= 1 /\ DOMAIN c = 1..n
    OBVIOUS
  <1>2. c[n] \in DriverOp
    BY <1>1
  <1>3. Count(c[n].nr_pp) \in 0..MaxCount
    BY <1>2 DEF Count, MaxCount, DriverOp
  <1>4. [c[n] EXCEPT !.nr_pp = Count(c[n].nr_pp)] \in DriverOp
    BY <1>2, <1>3 DEF DriverOp
  <1>5. /\ c1 \in Seq(DriverOp)
        /\ Len(c1) = n
        /\ c1[n] = [c[n] EXCEPT !.nr_pp = Count(c[n].nr_pp)]
        /\ \A i \in 1..n-1 : c1[i] = c[i]
    BY <1>1, <1>4
  <1>6. /\ c1[n].st = c[n].st
        /\ c1[n].link = c[n].link
        /\ c1[n].nr_pp = Count(c[n].nr_pp)
    BY <1>2, <1>5 DEF DriverOp
  <1>7. CASE r \in Links
    <2> DEFINE c2 == mio_driver_op_add(c1, r)
    <2>1. PostProcessed(c, r) = c2
      BY <1>7 DEF PostProcessed
    <2> HIDE DEF c1
    <2>2. /\ c2 \in Seq(DriverOp)
          /\ Len(c2) = n + 1
          /\ \A i \in 1..n : c2[i] = c1[i]
          /\ c2[n + 1] = NewDriverOp(r)
      BY <1>5, <1>7, AddShape
    <2>3. n \in 1..n /\ \A i \in 1..n-1 : i \in 1..n
      BY <1>1
    <2>4. /\ \A i \in 1..n-1 : c2[i] = c[i]
          /\ c2[n] = c1[n]
      BY <1>5, <2>2, <2>3
    <2> HIDE DEF c2
    <2> QED BY <1>6, <1>7, <2>1, <2>2, <2>4
  <1>8. CASE r \notin Links
    BY <1>1, <1>5, <1>6, <1>8 DEF PostProcessed
  <1> QED BY <1>7, <1>8

(***************************************************************************)
(* The invariant of one operation, and what a step on one operation has to *)
(* show: the other operations are left alone.                              *)
(***************************************************************************)
SerialOp(o) == \A i \in 1 .. Len(chain[o]) - 1 :
    chain[o][i].st = "stable" /\ chain[o][i].nr_pp = 1

PhaseOp(o) ==
    /\ phase[o] = "idle"     => IdleOp(o)
    /\ phase[o] = "launched" => LaunchedOp(o)
    /\ phase[o] = "done"     => DoneOp(o)

SameOp(o) ==
    /\ phase'[o] = phase[o]     /\ has_cbs'[o] = has_cbs[o]
    /\ chain'[o] = chain[o]     /\ cb_due'[o] = cb_due[o]
    /\ mop_rc'[o] = mop_rc[o]   /\ reports'[o] = reports[o]
    /\ told'[o] = told[o]

OthersSame(o) == \A p \in Ops \ {o} : SameOp(p)

(* Is the Motr operation of the head in flight?                            *)
InFlight(o) == MdocHead(chain[o]).st = "launched"

(* A step that keeps the invariant of the op it is about and leaves the    *)
(* other ops alone keeps it for all.                                       *)
LEMMA StepOnOneOp ==
    ASSUME OpInv, TypeOK', NEW o \in Ops,
           OthersSame(o),
           SerialOp(o)', PhaseOp(o)'
    PROVE  OpInv'
  <1> USE DEF OpInv
  <1>1. ASSUME NEW p \in Ops, p # o PROVE SerialOp(p)' /\ PhaseOp(p)'
    <2>1. SameOp(p)
      BY <1>1 DEF OthersSame
    <2>2. SerialOp(p) /\ PhaseOp(p)
      BY DEF ChainSerial, OpPhases, SerialOp, PhaseOp
    <2>3. SerialOp(p)'
      BY <2>1, <2>2 DEF SameOp, SerialOp
    <2>4. PhaseOp(p)'
      BY <2>1, <2>2 DEF SameOp, PhaseOp, IdleOp, LaunchedOp, DoneOp,
                        MdocHead, HasPostProc
    <2> QED BY <2>3, <2>4
  <1>2. \A p \in Ops : SerialOp(p)' /\ PhaseOp(p)'
    BY <1>1
  <1> QED BY <1>2 DEF ChainSerial, OpPhases, SerialOp, PhaseOp

(* What the invariant says of one op.                                      *)
LEMMA OpInvAt ==
    ASSUME OpInv, NEW o \in Ops
    PROVE  /\ SerialOp(o) /\ PhaseOp(o)
           /\ chain[o] \in Seq(DriverOp)
           /\ phase[o] \in {"idle", "launched", "done"}
  BY DEF OpInv, TypeOK, ChainSerial, OpPhases, SerialOp, PhaseOp

(***************************************************************************)
(* The invariant is inductive.                                             *)
(***************************************************************************)
(* No op is launched at first.                                             *)
LEMMA InitInv == Init => OpInv
  BY DEF Init, OpInv, TypeOK, ChainSerial, OpPhases, IdleOp, MaxCount

(* Launch (mio_op_init and a call of mio.h) gives the op a chain of one    *)
(* link in flight.                                                         *)
LEMMA LaunchInv ==
    ASSUME OpInv, NEW o \in Ops, NEW l \in FirstLinks, Launch(o, l, TRUE)
    PROVE  /\ OpInv' /\ OthersSame(o)
           /\ phase[o] = "idle" /\ phase'[o] = "launched" /\ InFlight(o)'
  <1>1. l \in Links
    BY LinksAssumption
  <1>2. NewDriverOp(l) \in DriverOp
    BY <1>1 DEF NewDriverOp, DriverOp, MaxCount
  <1>3. /\ mio_driver_op_add(<<>>, l) \in Seq(DriverOp)
        /\ Len(mio_driver_op_add(<<>>, l)) = 1
        /\ mio_driver_op_add(<<>>, l)[1] = NewDriverOp(l)
    BY <1>2 DEF mio_driver_op_add
  <1>4. TypeOK'
    BY <1>3 DEF Launch, OpInv, TypeOK
  <1>5. OthersSame(o)
    BY DEF OthersSame, Launch, SameOp, OpInv, TypeOK
  <1>6. /\ chain'[o] = mio_driver_op_add(<<>>, l)
        /\ phase'[o] = "launched" /\ has_cbs'[o] = TRUE
        /\ cb_due'[o] = "none" /\ reports'[o] = 0
    BY OpInvAt DEF Launch, OpInv, TypeOK, PhaseOp, IdleOp
  <1>7. SerialOp(o)'
    <2>1. Len(chain'[o]) = 1
      BY <1>3, <1>6
    <2> QED BY <2>1 DEF SerialOp
  <1>8. chain'[o] # <<>> /\ MdocHead(chain'[o]) = NewDriverOp(l)
    BY <1>3, <1>6 DEF MdocHead
  <1>9. LaunchedOp(o)'
    BY <1>6, <1>8 DEF LaunchedOp, NewDriverOp
  <1>10. PhaseOp(o)'
    BY <1>6, <1>9 DEF PhaseOp
  <1>11. OpInv'
    BY <1>4, <1>5, <1>7, <1>10, StepOnOneOp
  <1> QED BY <1>5, <1>6, <1>8, <1>11 DEF Launch, InFlight, NewDriverOp

SettledChain(c, i, s) == [c EXCEPT ![i].st = s]

(* A Motr operation that ends changes the state of its own link only.      *)
LEMMA SettleShape ==
    ASSUME NEW c \in Seq(DriverOp), NEW i \in DOMAIN c,
           NEW s \in {"stable", "failed"}
    PROVE  /\ SettledChain(c, i, s) \in Seq(DriverOp)
           /\ Len(SettledChain(c, i, s)) = Len(c)
           /\ SettledChain(c, i, s)[i].st = s
           /\ SettledChain(c, i, s)[i].link = c[i].link
           /\ SettledChain(c, i, s)[i].nr_pp = c[i].nr_pp
           /\ \A j \in DOMAIN c : j # i => SettledChain(c, i, s)[j] = c[j]
  <1> DEFINE d == [c[i] EXCEPT !.st = s]
             c1 == SettledChain(c, i, s)
  <1>1. c[i] \in DriverOp
    OBVIOUS
  <1>2. d \in DriverOp /\ d.st = s /\ d.link = c[i].link /\ d.nr_pp = c[i].nr_pp
    BY <1>1 DEF DriverOp
  <1>3. c1 = [c EXCEPT ![i] = d]
    BY DEF SettledChain
  <1> HIDE DEF d
  <1>4. /\ c1 \in Seq(DriverOp)
        /\ Len(c1) = Len(c)
        /\ c1[i] = d
        /\ \A j \in DOMAIN c : j # i => c1[j] = c[j]
    BY <1>2, <1>3
  <1> QED BY <1>2, <1>4

(* MotrSettle ends the Motr operation of the head, the only one in flight, *)
(* and makes its callback due.                                             *)
LEMMA SettleInv ==
    ASSUME OpInv, NEW o \in Ops, NEW s \in {"stable", "failed"}, MotrSettle(o, s)
    PROVE  /\ OpInv' /\ OthersSame(o)
           /\ phase[o] = "launched" /\ phase'[o] = "launched"
           /\ InFlight(o) /\ ~InFlight(o)'
  <1> DEFINE n == Len(chain[o])
  <1>1. PICK i \in DOMAIN chain[o] :
          /\ chain[o][i].st = "launched"
          /\ chain' = [chain EXCEPT ![o][i].st = s]
    BY DEF MotrSettle
  <1>2. chain \in [Ops -> Seq(DriverOp)] /\ chain[o] \in Seq(DriverOp)
    BY DEF OpInv, TypeOK
  <1>3. n \in Nat /\ n >= 1 /\ DOMAIN chain[o] = 1..n /\ chain[o] # <<>>
    BY <1>1, <1>2
  <1>4. i = n
    <2>1. SerialOp(o)
      BY OpInvAt
    <2> QED BY <1>1, <1>3, <2>1 DEF SerialOp
  <1>5. MdocHead(chain[o]).st = "launched"
    BY <1>1, <1>4 DEF MdocHead
  <1>6. phase[o] = "launched"
    BY <1>3, <1>5, OpInvAt DEF PhaseOp, IdleOp, DoneOp
  <1>7. LaunchedOp(o)
    BY <1>6, OpInvAt DEF PhaseOp
  <1> DEFINE c1 == SettledChain(chain[o], i, s)
  <1>8. chain'[o] = c1
    BY <1>1, <1>2 DEF SettledChain
  <1>9. /\ c1 \in Seq(DriverOp) /\ Len(c1) = n
        /\ c1[n].st = s /\ c1[n].link = chain[o][n].link
        /\ c1[n].nr_pp = chain[o][n].nr_pp
        /\ \A j \in 1 .. n-1 : c1[j] = chain[o][j]
    <2>1. /\ c1 \in Seq(DriverOp) /\ Len(c1) = Len(chain[o])
          /\ c1[i].st = s /\ c1[i].link = chain[o][i].link
          /\ c1[i].nr_pp = chain[o][i].nr_pp
          /\ \A j \in DOMAIN chain[o] : j # i => c1[j] = chain[o][j]
      BY <1>2, SettleShape
    <2> HIDE DEF c1
    <2> QED BY <1>3, <1>4, <2>1
  <1>10. chain' = [chain EXCEPT ![o] = c1]
    BY <1>1, <1>2 DEF SettledChain
  <1> HIDE DEF c1
  <1>11. /\ phase'[o] = "launched" /\ has_cbs'[o] /\ reports'[o] = 0
         /\ cb_due'[o] = s
    BY <1>6, <1>7 DEF MotrSettle, LaunchedOp, OpInv, TypeOK
  <1>12. TypeOK'
    BY <1>2, <1>9, <1>10 DEF MotrSettle, OpInv, TypeOK
  <1>13. OthersSame(o)
    BY <1>2, <1>10 DEF OthersSame, MotrSettle, SameOp, OpInv, TypeOK
  <1>14. SerialOp(o)'
    BY <1>3, <1>8, <1>9, OpInvAt DEF SerialOp
  <1>15. /\ chain'[o] # <<>> /\ MdocHead(chain'[o]).st = s
         /\ MdocHead(chain'[o]).nr_pp = 0
    BY <1>3, <1>7, <1>8, <1>9 DEF MdocHead, LaunchedOp
  <1>16. PhaseOp(o)'
    BY <1>11, <1>15 DEF PhaseOp, LaunchedOp
  <1>17. OpInv'
    BY <1>12, <1>13, <1>14, <1>16, StepOnOneOp
  <1> QED BY <1>5, <1>6, <1>11, <1>13, <1>15, <1>17 DEF InFlight

(* What the application's callback does to the op, and to no other op.     *)
LEMMA RealCb ==
    ASSUME TypeOK, NEW o \in Ops, NEW rc \in {"ok", "err"},
           mio_driver_op_invoke_real_cb(o, rc), reports[o] = 0
    PROVE  /\ mop_rc'[o] = rc /\ reports'[o] = 1 /\ phase'[o] = "done"
           /\ told'[o] = IF rc = "ok" THEN "complete" ELSE "failed"
           /\ phase'   \in [Ops -> {"idle", "launched", "done"}]
           /\ mop_rc'  \in [Ops -> {"ok", "err"}]
           /\ reports' \in [Ops -> 0..MaxCount]
           /\ told'    \in [Ops -> {"none", "complete", "failed"}]
           /\ \A p \in Ops \ {o} : /\ phase'[p] = phase[p] /\ mop_rc'[p] = mop_rc[p]
                                   /\ reports'[p] = reports[p] /\ told'[p] = told[p]
  BY DEF TypeOK, mio_driver_op_invoke_real_cb, Count, MaxCount

(* An op whose Motr callback is due is launched, and its head is settled.  *)
LEMMA DueOp ==
    ASSUME OpInv, NEW o \in Ops, cb_due[o] # "none"
    PROVE  /\ phase[o] = "launched" /\ LaunchedOp(o)
           /\ MdocHead(chain[o]).st = cb_due[o]
  <1>1. phase[o] = "launched"
    BY OpInvAt DEF PhaseOp, IdleOp, DoneOp
  <1>2. LaunchedOp(o)
    BY <1>1, OpInvAt DEF PhaseOp
  <1> QED BY <1>1, <1>2 DEF LaunchedOp

(* motr_op_cb_failed reports an op whose head has failed.                  *)
LEMMA FailedInv ==
    ASSUME OpInv, NEW o \in Ops, motr_op_cb_failed(o)
    PROVE  /\ OpInv' /\ OthersSame(o)
           /\ phase[o] = "launched" /\ ~InFlight(o) /\ phase'[o] = "done"
  <1>1. /\ LaunchedOp(o) /\ MdocHead(chain[o]).st = "failed"
        /\ phase[o] = "launched"
    BY DueOp DEF motr_op_cb_failed
  <1>2. reports[o] = 0 /\ TypeOK
    BY <1>1 DEF LaunchedOp, OpInv
  <1>3. mio_driver_op_invoke_real_cb(o, "err")
    BY DEF motr_op_cb_failed
  <1>4. TypeOK'
    BY <1>2, <1>3, RealCb DEF motr_op_cb_failed, TypeOK
  <1>5. OthersSame(o)
    BY <1>2, <1>3, RealCb DEF OthersSame, motr_op_cb_failed, TypeOK, SameOp
  <1>6. chain' = chain /\ has_cbs' = has_cbs /\ cb_due'[o] = "none"
    BY <1>2 DEF motr_op_cb_failed, TypeOK
  <1>7. SerialOp(o)'
    BY <1>6, OpInvAt DEF SerialOp
  <1>8. DoneOp(o)'
    BY <1>1, <1>2, <1>3, <1>6, RealCb DEF DoneOp, LaunchedOp, MdocHead
  <1>9. PhaseOp(o)'
    BY <1>2, <1>3, <1>8, RealCb DEF PhaseOp
  <1>10. OpInv'
    BY <1>4, <1>5, <1>7, <1>9, StepOnOneOp
  <1> QED BY <1>1, <1>2, <1>3, <1>5, <1>10, RealCb DEF InFlight

(* mio_op_fini empties the chain of an op that was reported.               *)
LEMMA FiniInv ==
    ASSUME OpInv, NEW o \in Ops, mio_op_fini(o)
    PROVE  /\ OpInv' /\ OthersSame(o)
           /\ phase[o] = "done" /\ phase'[o] = "idle"
  <1>1. phase[o] = "done" /\ cb_due[o] = "none"
    BY OpInvAt DEF mio_op_fini, PhaseOp, DoneOp
  <1>2. TypeOK'
    BY DEF mio_op_fini, OpInv, TypeOK, MaxCount
  <1>3. OthersSame(o)
    BY DEF OthersSame, mio_op_fini, OpInv, TypeOK, SameOp
  <1>4. /\ chain'[o] = <<>> /\ cb_due'[o] = "none" /\ reports'[o] = 0
        /\ phase'[o] = "idle"
    BY <1>1 DEF mio_op_fini, OpInv, TypeOK
  <1>5. SerialOp(o)' /\ PhaseOp(o)'
    BY <1>4 DEF SerialOp, PhaseOp, IdleOp
  <1>6. OpInv'
    BY <1>2, <1>3, <1>5, StepOnOneOp
  <1> QED BY <1>1, <1>3, <1>4, <1>6

(* motr_op_cb_complete post-processes a stable head; then it reports the   *)
(* op, or a new head is in flight.                                         *)
LEMMA CompleteInv ==
    ASSUME OpInv, NEW o \in Ops, motr_op_cb_complete(o)
    PROVE  /\ OpInv' /\ OthersSame(o)
           /\ phase[o] = "launched" /\ ~InFlight(o)
           /\ phase'[o] = "done" \/ (phase'[o] = "launched" /\ InFlight(o)')
  <1> DEFINE n == Len(chain[o])
  <1>1. /\ LaunchedOp(o) /\ MdocHead(chain[o]).st = "stable"
        /\ phase[o] = "launched"
    BY DueOp DEF motr_op_cb_complete
  <1>2. reports[o] = 0 /\ TypeOK
    BY <1>1 DEF LaunchedOp, OpInv
  <1>3. chain[o] \in Seq(DriverOp) /\ chain[o] # <<>> /\ n \in Nat /\ n >= 1
    BY <1>1, <1>2 DEF LaunchedOp, TypeOK
  <1>4. /\ cb_due' \in [Ops -> {"none", "stable", "failed"}]
        /\ cb_due'[o] = "none" /\ has_cbs' = has_cbs
        /\ \A p \in Ops \ {o} : cb_due'[p] = cb_due[p]
    BY <1>2 DEF motr_op_cb_complete, TypeOK
  <1>5. SerialOp(o) /\ has_cbs[o] /\ chain[o][n].st = "stable" /\ chain[o][n].nr_pp = 0
    BY <1>1, OpInvAt DEF LaunchedOp, MdocHead
  <1>6. CASE ~HasPostProc(chain[o])
    <2>1. /\ mio_driver_op_invoke_real_cb(o, "ok")
          /\ chain' = chain /\ pp_failed' = pp_failed
      BY <1>6 DEF motr_op_cb_complete
    <2>2. TypeOK'
      BY <1>2, <1>4, <2>1, RealCb DEF TypeOK
    <2>3. OthersSame(o)
      BY <1>2, <1>4, <2>1, RealCb DEF OthersSame, SameOp
    <2>4. SerialOp(o)'
      BY <1>5, <2>1 DEF SerialOp
    <2>5. DoneOp(o)'
      BY <1>2, <1>3, <1>4, <1>5, <1>6, <2>1, RealCb DEF DoneOp, MdocHead, HasPostProc
    <2>6. PhaseOp(o)'
      BY <1>2, <2>1, <2>5, RealCb DEF PhaseOp
    <2>7. OpInv'
      BY <2>2, <2>3, <2>4, <2>6, StepOnOneOp
    <2> QED BY <1>1, <1>2, <2>1, <2>3, <2>7, RealCb DEF InFlight
  <1>7. CASE HasPostProc(chain[o])
    <2>1. PICK r \in PpReturns(chain[o]) :
            /\ chain' = [chain EXCEPT ![o] = PostProcessed(@, r)]
            /\ pp_failed' = [pp_failed EXCEPT ![o] = (r = ERR)]
            /\ IF RealCbAfter(r) THEN mio_driver_op_invoke_real_cb(o, "ok")
                                 ELSE NoRealCb
      BY <1>7 DEF motr_op_cb_complete
    <2> DEFINE c2 == PostProcessed(chain[o], r)
    <2>2. /\ c2 \in Seq(DriverOp)
          /\ \A i \in 1..n-1 : c2[i] = chain[o][i]
          /\ c2[n].st = "stable" /\ c2[n].nr_pp = 1
          /\ r \in Links => Len(c2) = n + 1 /\ c2[n + 1] = NewDriverOp(r)
          /\ r \notin Links => Len(c2) = n
      BY <1>3, <1>5, PostProcessedShape DEF Count, MaxCount
    <2> HIDE DEF c2
    <2>3. /\ chain' \in [Ops -> Seq(DriverOp)] /\ chain'[o] = c2
          /\ \A p \in Ops \ {o} : chain'[p] = chain[p]
      BY <1>2, <2>1, <2>2 DEF TypeOK, c2
    <2>4. pp_failed' \in [Ops -> BOOLEAN]
      BY <1>2, <2>1 DEF TypeOK
    <2>5. SerialOp(o)'
      <3>1. \A i \in 1..n : c2[i].st = "stable" /\ c2[i].nr_pp = 1
        BY <1>3, <1>5, <2>2 DEF SerialOp
      <3>2. Len(c2) - 1 \in {n - 1, n}
        BY <1>3, <2>2
      <3> QED BY <1>3, <2>3, <3>1, <3>2 DEF SerialOp
    <2>6. CASE r \in Links
      <3>1. NoRealCb
        BY <2>1, <2>6 DEF RealCbAfter
      <3>2. TypeOK'
        BY <1>2, <1>4, <2>3, <2>4, <3>1 DEF TypeOK, NoRealCb
      <3>3. OthersSame(o)
        BY <1>4, <2>3, <3>1 DEF OthersSame, SameOp, NoRealCb
      <3>4. chain'[o] # <<>> /\ MdocHead(chain'[o]) = NewDriverOp(r)
        BY <1>3, <2>2, <2>3, <2>6 DEF MdocHead
      <3>5. PhaseOp(o)'
        BY <1>1, <1>4, <3>1, <3>4 DEF PhaseOp, LaunchedOp, NoRealCb, NewDriverOp
      <3>6. OpInv'
        BY <2>5, <3>2, <3>3, <3>5, StepOnOneOp
      <3> QED BY <1>1, <3>1, <3>3, <3>4, <3>6 DEF InFlight, NoRealCb, NewDriverOp
    <2>7. CASE r \notin Links
      <3>1. mio_driver_op_invoke_real_cb(o, "ok")
        BY <2>1, <2>7 DEF RealCbAfter
      <3>2. TypeOK'
        BY <1>2, <1>4, <2>3, <2>4, <3>1, RealCb DEF TypeOK
      <3>3. OthersSame(o)
        BY <1>2, <1>4, <2>3, <3>1, RealCb DEF OthersSame, SameOp
      <3>4. /\ chain'[o] # <<>> /\ MdocHead(chain'[o]).st = "stable"
            /\ MdocHead(chain'[o]).nr_pp = 1
        BY <1>3, <2>2, <2>3, <2>7 DEF MdocHead
      <3>5. DoneOp(o)'
        BY <1>2, <1>4, <1>5, <3>1, <3>4, RealCb DEF DoneOp
      <3>6. PhaseOp(o)'
        BY <1>2, <3>1, <3>5, RealCb DEF PhaseOp
      <3>7. OpInv'
        BY <2>5, <3>2, <3>3, <3>6, StepOnOneOp
      <3> QED BY <1>1, <1>2, <3>1, <3>3, <3>7, RealCb DEF InFlight
    <2> QED BY <2>6, <2>7
  <1> QED BY <1>6, <1>7

(* Every step of an op with callbacks keeps the invariant.                 *)
LEMMA NextInv == OpInv /\ [Next]_opvars => OpInv'
  <1> SUFFICES ASSUME OpInv, [Next]_opvars PROVE OpInv'
    OBVIOUS
  <1>1. CASE Next
    BY <1>1, LaunchInv, SettleInv, CompleteInv, FailedInv, FiniInv DEF Next
  <1>2. CASE UNCHANGED opvars
    BY <1>2 DEF opvars, OpInv, TypeOK, ChainSerial, OpPhases, IdleOp, LaunchedOp,
                DoneOp, MdocHead, HasPostProc
  <1> QED BY <1>1, <1>2

(***************************************************************************)
(* Theorems.                                                               *)
(***************************************************************************)

(* The inductive invariant holds of every reachable state.                 *)
THEOREM Invariance == Spec => []OpInv
  BY InitInv, NextInv, PTL DEF Spec

(* The state of every op has its type in every reachable state.            *)
THEOREM TypeCorrect == Spec => []TypeOK
  <1>1. OpInv => TypeOK
    BY DEF OpInv
  <1> QED BY <1>1, Invariance, PTL

(* A link is added only behind links that are stable and post-processed.   *)
THEOREM SerialChains == Spec => []ChainSerial
  <1>1. OpInv => ChainSerial
    BY DEF OpInv
  <1> QED BY <1>1, Invariance, PTL

(* With callbacks, no link is ever post-processed twice:                   *)
(* motr_op_cb_complete runs once for each link and only for the head.      *)
THEOREM PostProcessedOnce == Spec => []PostProcOnce
  <1>1. OpInv => PostProcOnce
    <2> SUFFICES ASSUME OpInv, NEW o \in Ops, NEW i \in DOMAIN chain[o]
                 PROVE  chain[o][i].nr_pp <= 1
      BY DEF PostProcOnce
    <2> DEFINE n == Len(chain[o])
    <2>1. chain[o] \in Seq(DriverOp) /\ SerialOp(o) /\ PhaseOp(o)
          /\ phase[o] \in {"idle", "launched", "done"}
      BY OpInvAt
    <2>2. i \in 1..n /\ n \in Nat /\ chain[o] # <<>>
      BY <2>1
    <2>3. CASE i = n
      BY <2>1, <2>2, <2>3 DEF PhaseOp, IdleOp, LaunchedOp, DoneOp, MdocHead
    <2>4. CASE i # n
      BY <2>1, <2>2, <2>4 DEF SerialOp
    <2> QED BY <2>3, <2>4
  <1> QED BY <1>1, Invariance, PTL

(* The links of an op that is not launched are settled: each is behind the *)
(* head, hence stable, or is the head of a finished chain.                 *)
LEMMA DoneIsSettled ==
    ASSUME OpInv, NEW o \in Ops, phase[o] = "done"
    PROVE  /\ DoneOp(o)
           /\ \A i \in DOMAIN chain[o] : i # Len(chain[o]) =>
                 chain[o][i].st = "stable" /\ chain[o][i].nr_pp = 1
           /\ Len(chain[o]) \in DOMAIN chain[o]
           /\ Settled(o)
  <1> DEFINE n == Len(chain[o])
  <1>1. chain[o] \in Seq(DriverOp) /\ SerialOp(o) /\ DoneOp(o)
    BY OpInvAt DEF PhaseOp
  <1>2. n \in Nat /\ n >= 1 /\ DOMAIN chain[o] = 1..n
    BY <1>1 DEF DoneOp
  <1>3. \A i \in DOMAIN chain[o] : i # n =>
          chain[o][i].st = "stable" /\ chain[o][i].nr_pp = 1
    BY <1>1, <1>2 DEF SerialOp
  <1>4. chain[o][n].st # "launched"
    BY <1>1 DEF DoneOp, MdocHead
  <1> QED BY <1>1, <1>2, <1>3, <1>4 DEF Settled

(* The application hears once of each op, when nothing of it is in flight. *)
THEOREM ReportedOnce == Spec => []ReportOnce
  <1>1. OpInv => ReportOnce
    <2> SUFFICES ASSUME OpInv, NEW o \in Ops
                 PROVE  /\ reports[o] <= 1
                        /\ phase[o] = "done" => Settled(o) /\ cb_due[o] = "none"
      BY DEF ReportOnce
    <2>1. reports[o] <= 1
      BY OpInvAt DEF PhaseOp, IdleOp, LaunchedOp, DoneOp
    <2>2. phase[o] = "done" => Settled(o) /\ cb_due[o] = "none"
      BY DoneIsSettled DEF DoneOp
    <2> QED BY <2>1, <2>2
  <1> QED BY <1>1, Invariance, PTL

(* The callback that is made, and mop_rc, say how the chain ended.         *)
THEOREM ReportedTruthfully == Spec => []ReportTruthful
  <1>1. OpInv => ReportTruthful
    <2> SUFFICES ASSUME OpInv, NEW o \in Ops, phase[o] = "done"
                 PROVE  /\ told[o] = "complete" <=> Processed(o)
                        /\ told[o] = "failed"   <=> MdocHead(chain[o]).st = "failed"
                        /\ mop_rc[o] = "ok"     <=> told[o] = "complete"
      BY DEF ReportTruthful
    <2>1. DoneOp(o)
      BY DoneIsSettled
    <2>2. told[o] = "complete" => Processed(o)
      BY <2>1, DoneIsSettled DEF DoneOp, Processed, MdocHead, HasPostProc
    <2>3. told[o] = "failed" => ~Processed(o)
      BY <2>1, DoneIsSettled DEF DoneOp, Processed, MdocHead
    <2> QED BY <2>1, <2>2, <2>3 DEF DoneOp
  <1> QED BY <1>1, Invariance, PTL

(***************************************************************************)
(* Refinement: operations with callbacks implement AsyncOp.                *)
(***************************************************************************)
absStatus == [o \in Ops |-> AsyncStatus(o)]
absBusy   == [o \in Ops |-> ~Settled(o)]

(* Work of an op goes on exactly while its head is in flight.              *)
BusyIsInFlight == \A o \in Ops :
    /\ phase[o] \in {"idle", "done"} => Settled(o)
    /\ phase[o] = "launched" => (Settled(o) <=> ~InFlight(o))

(* A launched op has unsettled work exactly while its head is in flight.   *)
LEMMA InvBusy == OpInv => BusyIsInFlight
  <1> SUFFICES ASSUME OpInv, NEW o \in Ops
               PROVE  /\ phase[o] \in {"idle", "done"} => Settled(o)
                      /\ phase[o] = "launched" => (Settled(o) <=> ~InFlight(o))
    BY DEF BusyIsInFlight
  <1> DEFINE n == Len(chain[o])
  <1>1. chain[o] \in Seq(DriverOp) /\ SerialOp(o) /\ PhaseOp(o)
    BY OpInvAt
  <1>2. CASE phase[o] = "idle"
    BY <1>1, <1>2 DEF PhaseOp, IdleOp, Settled
  <1>3. CASE phase[o] = "done"
    BY <1>3, DoneIsSettled
  <1>4. CASE phase[o] = "launched"
    <2>1. n \in Nat /\ n >= 1 /\ DOMAIN chain[o] = 1..n
      BY <1>1, <1>4 DEF PhaseOp, LaunchedOp
    <2>2. \A i \in DOMAIN chain[o] : i # n => chain[o][i].st # "launched"
      BY <1>1, <2>1 DEF SerialOp
    <2>3. n \in DOMAIN chain[o]
      BY <2>1
    <2> QED BY <1>4, <2>2, <2>3 DEF Settled, InFlight, MdocHead
  <1> QED BY <1>2, <1>3, <1>4

(* A step on one op changes the abstract state of that op only.            *)
LEMMA AbstractStep ==
    ASSUME NEW o \in Ops, OthersSame(o)
    PROVE  /\ absStatus' = [absStatus EXCEPT ![o] = AsyncStatus(o)']
           /\ absBusy'   = [absBusy   EXCEPT ![o] = (~Settled(o))']
  <1>1. ASSUME NEW p \in Ops, p # o
        PROVE  AsyncStatus(p)' = AsyncStatus(p) /\ Settled(p)' = Settled(p)
    BY <1>1 DEF OthersSame, SameOp, AsyncStatus, Settled
  <1>2. absStatus' = [p \in Ops |-> AsyncStatus(p)']
    BY DEF absStatus
  <1>3. absBusy' = [p \in Ops |-> (~Settled(p))']
    BY DEF absBusy
  <1> QED BY <1>1, <1>2, <1>3 DEF absStatus, absBusy

(* The abstract steps, in terms of the abstract state of one op.           *)
LEMMA AbsReport ==
    ASSUME NEW o \in Ops, NEW res \in {"completed", "failed"},
           absStatus[o] = "onfly", ~absBusy[o],
           absStatus' = [absStatus EXCEPT ![o] = res], absBusy' = absBusy
    PROVE  Abstract!Next
  <1>1. [p \in {o} |-> res] \in [{o} -> {"completed", "failed"}]
    OBVIOUS
  <1>2. absStatus' = [p \in Ops |-> IF p \in {o} THEN [q \in {o} |-> res][p]
                                                ELSE absStatus[p]]
    BY DEF absStatus
  <1>3. Abstract!Report({o})
    BY <1>1, <1>2 DEF Abstract!Report, absStatus, absBusy
  <1> QED BY <1>3 DEF Abstract!Next

(* Every step of MioOp is a step of AsyncOp, or changes nothing there.     *)
LEMMA StepRefines == OpInv /\ [Next]_opvars => [Abstract!Next]_(Abstract!vars)
  <1> SUFFICES ASSUME OpInv, [Next]_opvars
               PROVE  [Abstract!Next]_(Abstract!vars)
    OBVIOUS
  <1>1. OpInv' /\ BusyIsInFlight
    BY NextInv, InvBusy
  <1>2. BusyIsInFlight'
    BY <1>1, InvBusy, PTL
  <1>3. ASSUME NEW o \in Ops, NEW l \in FirstLinks, Launch(o, l, TRUE)
        PROVE  Abstract!Next
    <2>1. /\ OthersSame(o) /\ phase[o] = "idle" /\ phase'[o] = "launched"
          /\ InFlight(o)'
      BY <1>3, LaunchInv
    <2>2. AsyncStatus(o) = "idle" /\ AsyncStatus(o)' = "onfly" /\ (~Settled(o))'
      BY <1>2, <2>1 DEF AsyncStatus, BusyIsInFlight
    <2>3. Abstract!Launch(o)
      BY <2>1, <2>2, AbstractStep DEF Abstract!Launch, absStatus, absBusy
    <2> QED BY <2>3 DEF Abstract!Next
  <1>4. ASSUME NEW o \in Ops, NEW s \in {"stable", "failed"}, MotrSettle(o, s)
        PROVE  Abstract!Next
    <2>1. /\ OthersSame(o) /\ phase[o] = "launched" /\ phase'[o] = "launched"
          /\ InFlight(o) /\ ~InFlight(o)'
      BY <1>4, SettleInv
    <2>2. /\ AsyncStatus(o) = "onfly" /\ AsyncStatus(o)' = "onfly"
          /\ ~Settled(o) /\ Settled(o)'
      BY <1>1, <1>2, <2>1 DEF AsyncStatus, BusyIsInFlight
    <2>3. Abstract!Settle(o)
      BY <2>1, <2>2, AbstractStep DEF Abstract!Settle, absStatus, absBusy
    <2> QED BY <2>3 DEF Abstract!Next
  <1>5. ASSUME NEW o \in Ops, OthersSame(o), phase[o] = "launched", ~InFlight(o),
               phase'[o] = "done"
        PROVE  Abstract!Next
    <2>1. AsyncStatus(o) = "onfly" /\ Settled(o) /\ Settled(o)'
      BY <1>1, <1>2, <1>5 DEF AsyncStatus, BusyIsInFlight
    <2>2. AsyncStatus(o)' \in {"completed", "failed"}
      BY <1>5 DEF AsyncStatus
    <2>3. absStatus[o] = "onfly" /\ ~absBusy[o] /\ absBusy' = absBusy
      BY <1>5, <2>1, AbstractStep DEF absStatus, absBusy
    <2> QED BY <1>5, <2>2, <2>3, AbstractStep, AbsReport
  <1>6. ASSUME NEW o \in Ops, motr_op_cb_complete(o)
        PROVE  Abstract!Next
    <2>1. /\ OthersSame(o) /\ phase[o] = "launched" /\ ~InFlight(o)
          /\ phase'[o] = "done" \/ (phase'[o] = "launched" /\ InFlight(o)')
      BY <1>6, CompleteInv
    <2>2. CASE phase'[o] = "done"
      BY <1>5, <2>1, <2>2
    <2>3. CASE phase'[o] = "launched" /\ InFlight(o)'
      <3>1. /\ AsyncStatus(o) = "onfly" /\ AsyncStatus(o)' = "onfly"
            /\ Settled(o) /\ ~Settled(o)'
        BY <1>1, <1>2, <2>1, <2>3 DEF AsyncStatus, BusyIsInFlight
      <3>2. Abstract!Continue(o)
        BY <2>1, <3>1, AbstractStep DEF Abstract!Continue, absStatus, absBusy
      <3> QED BY <3>2 DEF Abstract!Next
    <2> QED BY <2>1, <2>2, <2>3
  <1>7. ASSUME NEW o \in Ops, motr_op_cb_failed(o)
        PROVE  Abstract!Next
    BY <1>5, <1>7, FailedInv
  <1>8. ASSUME NEW o \in Ops, mio_op_fini(o)
        PROVE  Abstract!Next
    <2>1. OthersSame(o) /\ phase[o] = "done" /\ phase'[o] = "idle"
      BY <1>8, FiniInv
    <2>2. /\ AsyncStatus(o) \in {"completed", "failed"} /\ AsyncStatus(o)' = "idle"
          /\ Settled(o) /\ Settled(o)'
      BY <1>1, <1>2, <2>1 DEF AsyncStatus, BusyIsInFlight
    <2>3. Abstract!Fini(o)
      BY <2>1, <2>2, AbstractStep DEF Abstract!Fini, absStatus, absBusy
    <2> QED BY <2>3 DEF Abstract!Next
  <1>9. CASE UNCHANGED opvars
    BY <1>9 DEF opvars, Abstract!vars, AsyncStatus, Settled
  <1>10. CASE Next
    BY <1>3, <1>4, <1>6, <1>7, <1>8, <1>10 DEF Next
  <1> QED BY <1>9, <1>10

(* What an application with callbacks sees of a chain of driver operations *)
(* is a single operation of AsyncOp, for any table of link kinds.          *)
THEOREM Refinement == Spec => ImplementsAsyncOp
  <1>1. Init => Abstract!Init
    <2> SUFFICES ASSUME Init PROVE Abstract!Init
      OBVIOUS
    <2>1. \A o \in Ops : AsyncStatus(o) = "idle"
      BY DEF Init, AsyncStatus
    <2>2. \A o \in Ops : Settled(o)
      BY InitInv, InvBusy DEF Init, BusyIsInFlight
    <2> QED BY <2>1, <2>2 DEF Abstract!Init
  <1>2. OpInv /\ [Next]_opvars => [Abstract!Next]_(Abstract!vars)
    BY StepRefines
  <1> QED BY <1>1, <1>2, Invariance, PTL DEF Spec, ImplementsAsyncOp, Abstract!Spec

(***************************************************************************)
(* From here on, MioPoll.                                                  *)
(***************************************************************************)

(***************************************************************************)
(* The invariant of an operation.  In contrast to MioOp, a head that is    *)
(* stable can be post-processed again, in a later pass.                    *)
(***************************************************************************)
BehindHead(o) == \A i \in 1 .. Len(chain[o]) - 1 :
    chain[o][i].st = "stable" /\ chain[o][i].nr_pp >= 1

PollOp(o) ==
    /\ BehindHead(o)
    /\ phase[o] = "idle" <=> chain[o] = <<>>
    /\ cb_due[o] # "none" => /\ phase[o] = "launched" /\ has_cbs[o]
                             /\ MdocHead(chain[o]).st = cb_due[o]
    /\ (phase[o] = "done" /\ (has_cbs[o] \/ ~WaitErrors)) => ~InFlight(o)

(* The entry of an op tells how its chain has ended.                       *)
EntryTrue(o) ==
    /\ mp_retstate[o] = "COMPLETED" => Processed(o) /\ mop_rc[o] = "ok"
    /\ (mp_retstate[o] = "FAILED" /\ ~WaitErrors) =>
          MdocHead(chain[o]).st = "failed" /\ mop_rc[o] = "err"

(* The array of a call: ops that only this call waits for.  What a pass    *)
(* has gone over is true; the rest will be gone over before the return.    *)
PollArray(t) == pc[t] # "idle" =>
    /\ ops[t] # <<>> /\ Len(ops[t]) <= MaxPollOps
    /\ \A i, j \in DOMAIN ops[t] : i # j => ops[t][i] # ops[t][j]
    /\ \A i \in DOMAIN ops[t] : /\ phase[ops[t][i]] = "launched" /\ ~has_cbs[ops[t][i]]
                                /\ i < idx[t] => EntryTrue(ops[t][i])
    /\ pc[t] = "ret" => idx[t] > Len(ops[t])

Apart(t, u) == (t # u /\ pc[t] # "idle" /\ pc[u] # "idle") =>
    \A i \in DOMAIN ops[t], j \in DOMAIN ops[u] : ops[t][i] # ops[u][j]

PollInv ==
    /\ PollTypeOK
    /\ \A o \in Ops : PollOp(o)
    /\ \A t \in Threads : PollArray(t)
    /\ \A t, u \in Threads : Apart(t, u)

(***************************************************************************)
(* The invariant of the counter of a call with MIO_TIME_NEVER: for ops of  *)
(* a single link, and for a single op.                                     *)
(***************************************************************************)
SingleLinks == \A l \in FirstLinks : PpTable[l] \cap Links = {}

FirstLinkOnly == SingleLinks =>
    \A o \in Ops : chain[o] # <<>> => MdocHead(chain[o]).link \in FirstLinks

CallCount(t) == (pc[t] # "idle" /\ asked[t] = Never) =>
    /\ timeout[t] = Never /\ idx[t] <= Len(ops[t]) + 1
    /\ SingleLinks => /\ nr_done[t] = idx[t] - 1
                      /\ \A i \in DOMAIN ops[t] : i < idx[t] => mp_retstate[ops[t][i]] # "ONFLY"
    /\ MaxPollOps = 1 =>
          nr_done[t] = IF idx[t] > 1 /\ mp_retstate[ops[t][1]] # "ONFLY" THEN 1 ELSE 0
    /\ pc[t] = "ret" => nr_done[t] = Len(ops[t])

Asked(t) == pc[t] # "idle" => asked[t] \in Timeouts

CountInv == FirstLinkOnly /\ \A t \in Threads : CallCount(t) /\ Asked(t)

(***************************************************************************)
(* Chains.                                                                 *)
(***************************************************************************)
(* Post-processing of a stable head leaves a chain that is stable and      *)
(* post-processed behind its head, and as a whole if no link is added.     *)
LEMMA PollPostProcessed ==
    ASSUME NEW c \in Seq(DriverOp), c # <<>>, NEW r, MdocHead(c).st = "stable",
           \A i \in 1 .. Len(c) - 1 : c[i].st = "stable" /\ c[i].nr_pp >= 1
    PROVE  LET d == PostProcessed(c, r) IN
           /\ d \in Seq(DriverOp) /\ d # <<>>
           /\ \A i \in 1 .. Len(d) - 1 : d[i].st = "stable" /\ d[i].nr_pp >= 1
           /\ r \in Links => MdocHead(d) = NewDriverOp(r)
           /\ r \notin Links => /\ MdocHead(d).st = "stable" /\ MdocHead(d).nr_pp >= 1
                                /\ MdocHead(d).link = MdocHead(c).link
  <1> DEFINE n == Len(c)
             d == PostProcessed(c, r)
  <1>1. n \in Nat /\ n >= 1 /\ c[n] \in DriverOp
    OBVIOUS
  <1>2. Count(c[n].nr_pp) >= 1
    BY <1>1 DEF Count, MaxCount, DriverOp
  <1>3. /\ d \in Seq(DriverOp)
        /\ \A i \in 1..n-1 : d[i] = c[i]
        /\ d[n].st = c[n].st /\ d[n].link = c[n].link /\ d[n].nr_pp = Count(c[n].nr_pp)
        /\ r \in Links => Len(d) = n + 1 /\ d[n + 1] = NewDriverOp(r)
        /\ r \notin Links => Len(d) = n
    BY PostProcessedShape
  <1> HIDE DEF d
  <1>4. \A i \in 1..n : d[i].st = "stable" /\ d[i].nr_pp >= 1
    <2> SUFFICES ASSUME NEW i \in 1..n PROVE d[i].st = "stable" /\ d[i].nr_pp >= 1
      OBVIOUS
    <2>1. CASE i = n
      BY <1>2, <1>3, <2>1 DEF MdocHead
    <2>2. CASE i # n
      <3>1. i \in 1..n-1
        BY <1>1, <2>2
      <3> QED BY <1>3, <3>1
    <2> QED BY <2>1, <2>2
  <1>5. CASE r \in Links
    <2>1. Len(d) = n + 1 /\ MdocHead(d) = NewDriverOp(r) /\ d # <<>>
      BY <1>1, <1>3, <1>5 DEF MdocHead
    <2>2. \A i \in 1 .. Len(d) - 1 : i \in 1..n
      BY <1>1, <2>1
    <2> QED BY <1>3, <1>4, <1>5, <2>1, <2>2 DEF d
  <1>6. CASE r \notin Links
    <2>1. Len(d) = n /\ MdocHead(d) = d[n] /\ d # <<>> /\ n \in 1..n
      BY <1>1, <1>3, <1>6 DEF MdocHead
    <2>2. \A i \in 1 .. Len(d) - 1 : i \in 1..n
      BY <1>1, <2>1
    <2> QED BY <1>3, <1>4, <1>6, <2>1, <2>2 DEF d, MdocHead
  <1> QED BY <1>5, <1>6

(* A chain that is stable and post-processed behind its head, and whose    *)
(* head is, is processed.                                                  *)
LEMMA ProcessedByHead ==
    ASSUME NEW o \in Ops, chain[o] \in Seq(DriverOp), chain[o] # <<>>, BehindHead(o)
    PROVE  /\ Settled(o) <=> ~InFlight(o)
           /\ Processed(o) <=> /\ MdocHead(chain[o]).st = "stable"
                               /\ HasPostProc(chain[o]) => MdocHead(chain[o]).nr_pp >= 1
  <1> DEFINE n == Len(chain[o])
  <1>1. n \in Nat /\ n >= 1 /\ DOMAIN chain[o] = 1..n /\ n \in DOMAIN chain[o]
    OBVIOUS
  <1>2. \A i \in DOMAIN chain[o] : i # n =>
          chain[o][i].st = "stable" /\ chain[o][i].nr_pp >= 1
    BY <1>1 DEF BehindHead
  <1> QED BY <1>1, <1>2 DEF Settled, InFlight, Processed, HasPostProc, MdocHead

(***************************************************************************)
(* What a step has to show.                                                *)
(***************************************************************************)
(* The invariant gives the types of an op and of a call.                   *)
LEMMA PollAt ==
    ASSUME PollInv
    PROVE  /\ PollTypeOK /\ TypeOK
           /\ \A o \in Ops : chain[o] \in Seq(DriverOp) /\ PollOp(o)
           /\ \A t \in Threads : /\ ops[t] \in Seq(Ops) /\ idx[t] \in Nat /\ PollArray(t)
                                 /\ nr_done[t] \in Nat
  BY PollAssumption DEF PollInv, PollTypeOK, TypeOK, MaxDone

(* An op and its entry that are left alone keep what is said of them.      *)
LEMMA SamePollOp ==
    ASSUME NEW o \in Ops, SameOp(o), PollOp(o), mp_retstate'[o] = mp_retstate[o]
    PROVE  PollOp(o)' /\ (EntryTrue(o) => EntryTrue(o)')
  BY DEF SameOp, PollOp, BehindHead, InFlight, EntryTrue, Processed, MdocHead

(* A step outside mio_op_poll, on one op: if it is one that is polled, it  *)
(* stays launched and its entry stays true.                                *)
LEMMA OutsideStep ==
    ASSUME PollInv, TypeOK', NEW o \in Ops, OthersSame(o), UNCHANGED pollvars, PollOp(o)',
           (phase[o] = "launched" /\ ~has_cbs[o]) =>
               /\ phase'[o] = "launched" /\ ~has_cbs'[o]
               /\ EntryTrue(o) => EntryTrue(o)'
    PROVE  PollInv'
  <1>1. PollTypeOK'
    BY PollAt DEF PollTypeOK, pollvars
  <1>2. /\ pc' = pc /\ ops' = ops /\ idx' = idx /\ mp_retstate' = mp_retstate
    BY DEF pollvars
  <1>3. ASSUME NEW p \in Ops PROVE PollOp(p)'
    BY <1>2, PollAt, SamePollOp DEF OthersSame
  <1>4. ASSUME NEW t \in Threads PROVE PollArray(t)'
    <2> SUFFICES ASSUME pc[t] # "idle", NEW i \in DOMAIN ops[t]
                 PROVE  /\ phase'[ops[t][i]] = "launched" /\ ~has_cbs'[ops[t][i]]
                        /\ i < idx[t] => EntryTrue(ops[t][i])'
      BY <1>2, PollAt DEF PollArray
    <2>1. /\ ops[t][i] \in Ops /\ phase[ops[t][i]] = "launched" /\ ~has_cbs[ops[t][i]]
          /\ i < idx[t] => EntryTrue(ops[t][i])
      BY PollAt DEF PollArray
    <2>2. CASE ops[t][i] = o
      <3>1. ops'[t][i] = o
        BY <1>2, <2>2
      <3> QED BY <2>1, <2>2, <3>1 DEF EntryTrue, Processed, MdocHead
    <2>3. CASE ops[t][i] # o
      BY <1>2, <2>1, <2>3, PollAt, SamePollOp DEF OthersSame, SameOp
    <2> QED BY <2>2, <2>3
  <1>5. \A t, u \in Threads : Apart(t, u)'
    BY <1>2 DEF PollInv, Apart
  <1> QED BY <1>1, <1>3, <1>4, <1>5 DEF PollInv

(***************************************************************************)
(* The steps outside mio_op_poll.                                          *)
(***************************************************************************)
(* No op is launched and no call is made at first.                         *)
LEMMA PollInitInv == PollInit => PollInv
  <1> SUFFICES ASSUME PollInit PROVE PollInv
    OBVIOUS
  <1>1. TypeOK
    BY InitInv DEF PollInit, OpInv
  <1>2. PollTypeOK
    <2>1. 0 \in 0..MaxDone /\ 0 \in 0..MaxTicks /\ <<>> \in Seq(Ops)
      BY PollAssumption DEF MaxDone
    <2>2. /\ pc \in [Threads -> {"idle", "loop", "ret"}] /\ ops \in [Threads -> Seq(Ops)]
          /\ idx \in [Threads -> Nat \ {0}] /\ nr_done \in [Threads -> 0..MaxDone]
      BY <2>1 DEF PollInit
    <2>3. /\ timeout \in [Threads -> Nat \cup {Never}] /\ asked \in [Threads -> Nat \cup {Never}]
          /\ elapsed \in [Threads -> 0..MaxTicks] /\ waited \in [Threads -> 0..MaxTicks]
      BY <2>1 DEF PollInit
    <2>4. mp_retstate \in [Ops -> {"ONFLY", "COMPLETED", "FAILED"}] /\ aborted \in BOOLEAN
      BY DEF PollInit
    <2> QED BY <1>1, <2>2, <2>3, <2>4 DEF PollTypeOK
  <1>3. ASSUME NEW o \in Ops PROVE PollOp(o)
    BY DEF PollInit, Init, PollOp, BehindHead
  <1> QED BY <1>2, <1>3 DEF PollInit, PollInv, PollArray, Apart

(* Launch gives the op a chain of one link in flight.                      *)
LEMMA PollLaunchInv ==
    ASSUME PollInv, NEW o \in Ops, NEW l \in FirstLinks, NEW cbs \in BOOLEAN,
           PollLaunch(o, l, cbs)
    PROVE  /\ PollInv' /\ OthersSame(o)
           /\ phase[o] = "idle" /\ phase'[o] = "launched" /\ InFlight(o)'
           /\ MdocHead(chain'[o]).link = l
  <1>0. TypeOK /\ PollOp(o)
    BY PollAt
  <1>1. NewDriverOp(l) \in DriverOp /\ <<>> \in Seq(DriverOp)
    BY LinksAssumption DEF NewDriverOp, DriverOp, MaxCount
  <1>2. /\ mio_driver_op_add(<<>>, l) \in Seq(DriverOp)
        /\ Len(mio_driver_op_add(<<>>, l)) = 1
        /\ mio_driver_op_add(<<>>, l)[1] = NewDriverOp(l)
    BY <1>1 DEF mio_driver_op_add
  <1>3. TypeOK'
    BY <1>0, <1>2 DEF PollLaunch, Launch, TypeOK
  <1>4. OthersSame(o)
    BY <1>0 DEF OthersSame, PollLaunch, Launch, SameOp, TypeOK
  <1>5. /\ chain'[o] = mio_driver_op_add(<<>>, l) /\ phase[o] = "idle"
        /\ phase'[o] = "launched" /\ cb_due'[o] = "none"
    BY <1>0 DEF PollLaunch, Launch, TypeOK, PollOp
  <1>6. chain'[o] # <<>> /\ MdocHead(chain'[o]) = NewDriverOp(l) /\ Len(chain'[o]) = 1
    BY <1>2, <1>5 DEF MdocHead
  <1>7. PollOp(o)'
    <2>1. BehindHead(o)'
      BY <1>6 DEF BehindHead
    <2> QED BY <1>5, <1>6, <2>1 DEF PollOp
  <1>8. PollInv'
    BY <1>3, <1>4, <1>5, <1>7, OutsideStep DEF PollLaunch
  <1> QED BY <1>4, <1>5, <1>6, <1>8 DEF InFlight, NewDriverOp

(* Motr ends the operation of the head, the only one in flight.  An entry  *)
(* that calls the op done would not be true of a head in flight.           *)
LEMMA PollMotrInv ==
    ASSUME PollInv, NEW o \in Ops, PollMotr(o)
    PROVE  /\ PollInv' /\ OthersSame(o) /\ phase' = phase /\ has_cbs' = has_cbs
           /\ InFlight(o) /\ ~InFlight(o)' /\ chain[o] # <<>> /\ chain'[o] # <<>>
           /\ MdocHead(chain'[o]).link = MdocHead(chain[o]).link
           /\ UNCHANGED pollvars
  <1> DEFINE n == Len(chain[o])
  <1>0. TypeOK /\ PollOp(o) /\ chain \in [Ops -> Seq(DriverOp)] /\ chain[o] \in Seq(DriverOp)
    BY PollAt DEF TypeOK
  <1>1. PICK s \in {"stable", "failed"} : MotrSettle(o, s)
    BY DEF PollMotr
  <1>2. PICK i \in DOMAIN chain[o] : /\ chain[o][i].st = "launched"
                                     /\ chain' = [chain EXCEPT ![o][i].st = s]
    BY <1>1 DEF MotrSettle
  <1>3. n \in Nat /\ n >= 1 /\ DOMAIN chain[o] = 1..n /\ chain[o] # <<>>
    BY <1>0, <1>2
  <1>4. i = n
    BY <1>0, <1>2, <1>3 DEF PollOp, BehindHead
  <1> DEFINE c1 == SettledChain(chain[o], i, s)
  <1>5. chain' = [chain EXCEPT ![o] = c1] /\ chain'[o] = c1
    BY <1>0, <1>2 DEF SettledChain
  <1>6. /\ c1 \in Seq(DriverOp) /\ Len(c1) = Len(chain[o])
        /\ c1[i].st = s /\ c1[i].link = chain[o][i].link
        /\ \A j \in DOMAIN chain[o] : j # i => c1[j] = chain[o][j]
    BY <1>0, SettleShape
  <1> HIDE DEF c1
  <1>7. /\ UNCHANGED pollvars /\ phase' = phase /\ has_cbs' = has_cbs /\ mop_rc' = mop_rc
        /\ cb_due' = [cb_due EXCEPT ![o] = IF has_cbs[o] THEN s ELSE "none"]
        /\ UNCHANGED <<reports, told, pp_failed>>
    BY <1>1 DEF PollMotr, MotrSettle
  <1>8. TypeOK'
    BY <1>0, <1>5, <1>6, <1>7 DEF TypeOK
  <1>9. OthersSame(o)
    BY <1>0, <1>5, <1>7 DEF OthersSame, SameOp, TypeOK
  <1>10. /\ InFlight(o) /\ chain'[o] # <<>> /\ MdocHead(chain'[o]).st = s
         /\ MdocHead(chain'[o]).link = MdocHead(chain[o]).link
    BY <1>2, <1>3, <1>4, <1>5, <1>6 DEF InFlight, MdocHead
  <1>11. BehindHead(o)'
    <2> SUFFICES ASSUME NEW j \in 1..n-1
                 PROVE  chain'[o][j].st = "stable" /\ chain'[o][j].nr_pp >= 1
      BY <1>5, <1>6 DEF BehindHead
    <2>1. j \in DOMAIN chain[o] /\ j # i
      BY <1>3, <1>4
    <2>2. chain'[o][j] = chain[o][j]
      BY <1>5, <1>6, <2>1
    <2> QED BY <1>0, <2>2 DEF PollOp, BehindHead
  <1>12. cb_due'[o] = IF has_cbs[o] THEN s ELSE "none"
    BY <1>0, <1>7 DEF TypeOK
  <1>13. /\ phase[o] # "idle"
         /\ (phase[o] = "done" /\ (has_cbs[o] \/ ~WaitErrors)) => FALSE
    BY <1>0, <1>3, <1>10 DEF PollOp
  <1>14. phase[o] = "launched" \/ ~has_cbs[o]
    BY <1>0, <1>13 DEF TypeOK
  <1>15. PollOp(o)'
    BY <1>7, <1>10, <1>11, <1>12, <1>13, <1>14 DEF PollOp, InFlight
  <1>16. EntryTrue(o) => EntryTrue(o)'
    <2> SUFFICES ASSUME EntryTrue(o) PROVE EntryTrue(o)'
      OBVIOUS
    <2>1. ~Processed(o)
      BY <1>0, <1>3, <1>10, ProcessedByHead DEF PollOp, InFlight
    <2>2. mp_retstate'[o] # "COMPLETED" /\ (mp_retstate'[o] = "FAILED" => WaitErrors)
      BY <1>7, <1>10, <2>1 DEF EntryTrue, InFlight, pollvars
    <2> QED BY <2>2 DEF EntryTrue
  <1>17. PollInv'
    BY <1>7, <1>8, <1>9, <1>15, <1>16, OutsideStep
  <1> QED BY <1>3, <1>7, <1>9, <1>10, <1>17 DEF InFlight

(* What the application's callback does to the op, and to no other op.     *)
LEMMA PollRealCb ==
    ASSUME TypeOK, NEW o \in Ops, NEW rc \in {"ok", "err"}, mio_driver_op_invoke_real_cb(o, rc)
    PROVE  /\ phase'[o] = "done"
           /\ phase'   \in [Ops -> {"idle", "launched", "done"}]
           /\ mop_rc'  \in [Ops -> {"ok", "err"}]
           /\ reports' \in [Ops -> 0..MaxCount]
           /\ told'    \in [Ops -> {"none", "complete", "failed"}]
           /\ \A p \in Ops \ {o} : /\ phase'[p] = phase[p] /\ mop_rc'[p] = mop_rc[p]
                                   /\ reports'[p] = reports[p] /\ told'[p] = told[p]
  BY DEF TypeOK, mio_driver_op_invoke_real_cb, Count, MaxCount

(* motr_op_cb_failed reports an op whose head has failed.                  *)
LEMMA PollFailedInv ==
    ASSUME PollInv, NEW o \in Ops, PollCbFailed(o)
    PROVE  /\ PollInv' /\ OthersSame(o) /\ chain' = chain /\ UNCHANGED pollvars
           /\ has_cbs[o] /\ has_cbs'[o] /\ chain[o] # <<>>
           /\ phase[o] = "launched" /\ ~InFlight(o) /\ phase'[o] = "done"
  <1>0. TypeOK /\ PollOp(o)
    BY PollAt
  <1>1. /\ phase[o] = "launched" /\ has_cbs[o] /\ MdocHead(chain[o]).st = "failed"
        /\ chain[o] # <<>>
    BY <1>0 DEF PollCbFailed, motr_op_cb_failed, PollOp
  <1>2. /\ mio_driver_op_invoke_real_cb(o, "err")
        /\ chain' = chain /\ has_cbs' = has_cbs /\ pp_failed' = pp_failed
        /\ cb_due' = [cb_due EXCEPT ![o] = "none"] /\ UNCHANGED pollvars
    BY DEF PollCbFailed, motr_op_cb_failed
  <1>3. TypeOK'
    BY <1>0, <1>2, PollRealCb DEF TypeOK
  <1>4. OthersSame(o)
    BY <1>0, <1>2, PollRealCb DEF OthersSame, TypeOK, SameOp
  <1>5. phase'[o] = "done" /\ cb_due'[o] = "none"
    BY <1>0, <1>2, PollRealCb DEF TypeOK
  <1>6. PollOp(o)'
    BY <1>0, <1>1, <1>2, <1>5 DEF PollOp, BehindHead, InFlight
  <1>7. PollInv'
    BY <1>1, <1>2, <1>3, <1>4, <1>6, OutsideStep
  <1> QED BY <1>1, <1>2, <1>4, <1>5, <1>7 DEF InFlight

(* mio_op_fini empties the chain of an op that is done.                    *)
LEMMA PollFiniInv ==
    ASSUME PollInv, NEW o \in Ops, PollFini(o)
    PROVE  /\ PollInv' /\ OthersSame(o)
           /\ phase[o] = "done" /\ phase'[o] = "idle" /\ chain'[o] = <<>>
           /\ UNCHANGED pollvars /\ has_cbs' = has_cbs
  <1>0. TypeOK /\ PollOp(o)
    BY PollAt
  <1>1. /\ phase[o] = "done" /\ UNCHANGED pollvars /\ has_cbs' = has_cbs
        /\ cb_due' = cb_due /\ cb_due[o] = "none"
    BY <1>0 DEF PollFini, mio_op_fini, PollOp, TypeOK
  <1>2. TypeOK'
    BY <1>0 DEF PollFini, mio_op_fini, TypeOK, MaxCount
  <1>3. OthersSame(o)
    BY <1>0 DEF OthersSame, PollFini, mio_op_fini, TypeOK, SameOp
  <1>4. chain'[o] = <<>> /\ phase'[o] = "idle"
    BY <1>0 DEF PollFini, mio_op_fini, TypeOK
  <1>5. PollOp(o)'
    BY <1>1, <1>4 DEF PollOp, BehindHead
  <1>6. PollInv'
    BY <1>1, <1>2, <1>3, <1>5, OutsideStep
  <1> QED BY <1>1, <1>3, <1>4, <1>6

(* motr_op_cb_complete post-processes a stable head; then it reports the   *)
(* op, or a new head is in flight.                                         *)
LEMMA PollCompleteInv ==
    ASSUME PollInv, NEW o \in Ops, PollCbComplete(o)
    PROVE  /\ PollInv' /\ OthersSame(o) /\ UNCHANGED pollvars
           /\ has_cbs[o] /\ has_cbs'[o] /\ chain[o] # <<>> /\ chain'[o] # <<>>
           /\ phase[o] = "launched" /\ ~InFlight(o)
           /\ \/ phase'[o] = "done" /\ MdocHead(chain'[o]).link = MdocHead(chain[o]).link
              \/ /\ phase'[o] = "launched" /\ InFlight(o)'
                 /\ MdocHead(chain'[o]).link \in PpTable[MdocHead(chain[o]).link] \cap Links
  <1>0. TypeOK /\ PollOp(o) /\ chain[o] \in Seq(DriverOp) /\ chain \in [Ops -> Seq(DriverOp)]
    BY PollAt DEF TypeOK
  <1>1. /\ phase[o] = "launched" /\ has_cbs[o] /\ MdocHead(chain[o]).st = "stable"
        /\ chain[o] # <<>> /\ BehindHead(o)
    BY <1>0 DEF PollCbComplete, motr_op_cb_complete, PollOp
  <1>2. /\ has_cbs' = has_cbs /\ UNCHANGED pollvars
        /\ cb_due' \in [Ops -> {"none", "stable", "failed"}]
        /\ cb_due'[o] = "none" /\ \A p \in Ops \ {o} : cb_due'[p] = cb_due[p]
    BY <1>0 DEF PollCbComplete, motr_op_cb_complete, TypeOK
  <1>3. CASE ~HasPostProc(chain[o])
    <2>1. mio_driver_op_invoke_real_cb(o, "ok") /\ chain' = chain /\ pp_failed' = pp_failed
      BY <1>3 DEF PollCbComplete, motr_op_cb_complete
    <2>2. TypeOK' /\ phase'[o] = "done"
      BY <1>0, <1>2, <2>1, PollRealCb DEF TypeOK
    <2>3. OthersSame(o)
      BY <1>0, <1>2, <2>1, PollRealCb DEF OthersSame, SameOp
    <2>4. PollOp(o)'
      BY <1>1, <1>2, <2>1, <2>2 DEF PollOp, BehindHead, InFlight
    <2>5. PollInv'
      BY <1>1, <1>2, <2>2, <2>3, <2>4, OutsideStep
    <2> QED BY <1>1, <1>2, <2>1, <2>2, <2>3, <2>5 DEF InFlight
  <1>4. CASE HasPostProc(chain[o])
    <2>1. PICK r \in PpReturns(chain[o]) :
            /\ chain' = [chain EXCEPT ![o] = PostProcessed(@, r)]
            /\ pp_failed' = [pp_failed EXCEPT ![o] = (r = ERR)]
            /\ IF RealCbAfter(r) THEN mio_driver_op_invoke_real_cb(o, "ok") ELSE NoRealCb
      BY <1>4 DEF PollCbComplete, motr_op_cb_complete
    <2> DEFINE d == PostProcessed(chain[o], r)
    <2>2. /\ d \in Seq(DriverOp) /\ d # <<>>
          /\ \A i \in 1 .. Len(d) - 1 : d[i].st = "stable" /\ d[i].nr_pp >= 1
          /\ r \in Links => MdocHead(d) = NewDriverOp(r)
          /\ r \notin Links => /\ MdocHead(d).st = "stable" /\ MdocHead(d).nr_pp >= 1
                               /\ MdocHead(d).link = MdocHead(chain[o]).link
      BY <1>0, <1>1, PollPostProcessed DEF BehindHead
    <2> HIDE DEF d
    <2>3. /\ chain' \in [Ops -> Seq(DriverOp)] /\ chain'[o] = d
          /\ \A p \in Ops \ {o} : chain'[p] = chain[p]
      BY <1>0, <2>1, <2>2 DEF d
    <2>4. pp_failed' \in [Ops -> BOOLEAN]
      BY <1>0, <2>1 DEF TypeOK
    <2>5. BehindHead(o)'
      BY <2>2, <2>3 DEF BehindHead
    <2>6. CASE r \in Links
      <3>1. NoRealCb
        BY <2>1, <2>6 DEF RealCbAfter
      <3>2. TypeOK'
        BY <1>0, <1>2, <2>3, <2>4, <3>1 DEF TypeOK, NoRealCb
      <3>3. OthersSame(o)
        BY <1>2, <2>3, <3>1 DEF OthersSame, SameOp, NoRealCb
      <3>4. chain'[o] # <<>> /\ MdocHead(chain'[o]) = NewDriverOp(r) /\ phase'[o] = "launched"
        BY <1>1, <2>2, <2>3, <2>6, <3>1 DEF NoRealCb
      <3>5. PollOp(o)'
        BY <1>2, <2>5, <3>4 DEF PollOp
      <3>6. PollInv'
        BY <1>1, <1>2, <3>2, <3>3, <3>5, OutsideStep
      <3>7. InFlight(o)' /\ MdocHead(chain'[o]).link \in PpTable[MdocHead(chain[o]).link] \cap Links
        BY <2>6, <3>4 DEF InFlight, NewDriverOp, PpReturns
      <3> QED BY <1>1, <1>2, <3>3, <3>4, <3>6, <3>7 DEF InFlight
    <2>7. CASE r \notin Links
      <3>1. mio_driver_op_invoke_real_cb(o, "ok")
        BY <2>1, <2>7 DEF RealCbAfter
      <3>2. TypeOK' /\ phase'[o] = "done"
        BY <1>0, <1>2, <2>3, <2>4, <3>1, PollRealCb DEF TypeOK
      <3>3. OthersSame(o)
        BY <1>0, <1>2, <2>3, <3>1, PollRealCb DEF OthersSame, SameOp
      <3>4. /\ chain'[o] # <<>> /\ MdocHead(chain'[o]).st = "stable"
            /\ MdocHead(chain'[o]).link = MdocHead(chain[o]).link
        BY <2>2, <2>3, <2>7
      <3>5. PollOp(o)'
        BY <1>2, <2>5, <3>2, <3>4 DEF PollOp, InFlight
      <3>6. PollInv'
        BY <1>1, <1>2, <3>2, <3>3, <3>5, OutsideStep
      <3> QED BY <1>1, <1>2, <3>2, <3>3, <3>4, <3>6 DEF InFlight
    <2> QED BY <2>6, <2>7
  <1> QED BY <1>3, <1>4

(***************************************************************************)
(* The steps of mio_op_poll.                                               *)
(***************************************************************************)
(* The op that a pass is at.                                               *)
LEMMA PassAt ==
    ASSUME PollInv, NEW t \in Threads, InPass(t)
    PROVE  /\ Op(t) \in Ops /\ idx[t] \in DOMAIN ops[t] /\ pc[t] = "loop"
           /\ chain[Op(t)] \in Seq(DriverOp) /\ chain[Op(t)] # <<>> /\ BehindHead(Op(t))
           /\ phase[Op(t)] = "launched" /\ ~has_cbs[Op(t)] /\ cb_due[Op(t)] = "none"
  <1>1. /\ ops[t] \in Seq(Ops) /\ idx[t] \in Nat \ {0} /\ PollArray(t)
        /\ pc[t] = "loop" /\ idx[t] <= Len(ops[t])
    BY PollAt DEF InPass, PollTypeOK
  <1>2. idx[t] \in DOMAIN ops[t] /\ Op(t) \in Ops
    BY <1>1 DEF Op
  <1>3. phase[Op(t)] = "launched" /\ ~has_cbs[Op(t)]
    BY <1>1, <1>2 DEF PollArray, Op
  <1> QED BY <1>1, <1>2, <1>3, PollAt DEF PollOp

(* The entries of the other ops.                                           *)
EntriesKept(o) == \A p \in Ops \ {o} : mp_retstate'[p] = mp_retstate[p]

(* An iteration of the loop for the op o, which leaves a true entry.       *)
LEMMA WaitStep ==
    ASSUME PollInv, NEW t \in Threads, InPass(t), NEW o \in Ops, o = Op(t),
           NEW done \in BOOLEAN, Advance(t, done),
           NEW st \in {"ONFLY", "COMPLETED", "FAILED"}, NEW rc \in {"ok", "err"},
           SetState(o, st, rc), aborted' \in BOOLEAN, pp_failed' \in [Ops -> BOOLEAN],
           chain' \in [Ops -> Seq(DriverOp)], \A p \in Ops \ {o} : chain'[p] = chain[p],
           chain'[o] # <<>>, BehindHead(o)',
           st = "COMPLETED" => Processed(o)' /\ rc = "ok",
           (st = "FAILED" /\ ~WaitErrors) => MdocHead(chain'[o]).st = "failed" /\ rc = "err"
    PROVE  /\ PollInv' /\ OthersSame(o) /\ EntriesKept(o)
           /\ phase' = phase /\ has_cbs' = has_cbs /\ pc' = pc /\ ops' = ops
           /\ mp_retstate'[o] = st
  <1>0. /\ PollTypeOK /\ TypeOK /\ PollArray(t) /\ idx[t] \in DOMAIN ops[t]
        /\ \A p \in Ops : PollOp(p)
    BY PollAt, PassAt
  <1>1. /\ phase[o] = "launched" /\ ~has_cbs[o] /\ cb_due[o] = "none" /\ pc[t] = "loop"
    BY PassAt
  <1>2. /\ phase' = phase /\ has_cbs' = has_cbs /\ cb_due' = cb_due
        /\ reports' = reports /\ told' = told
        /\ mop_rc' = [mop_rc EXCEPT ![o] = rc]
        /\ mp_retstate' = [mp_retstate EXCEPT ![o] = st]
    BY DEF SetState
  <1>3. /\ pc' = pc /\ ops' = ops /\ timeout' = timeout /\ asked' = asked /\ elapsed' = elapsed
        /\ idx' = [idx EXCEPT ![t] = @ + 1]
        /\ nr_done' = [nr_done EXCEPT ![t] = IF done /\ @ < MaxDone THEN @ + 1 ELSE @]
        /\ waited' = [waited EXCEPT ![t] = 0]
    BY DEF Advance
  <1>4. TypeOK'
    BY <1>0, <1>2 DEF TypeOK
  <1>5. PollTypeOK'
    <2>1. idx' \in [Threads -> Nat \ {0}] /\ waited' \in [Threads -> 0..MaxTicks]
      BY <1>0, <1>3, PollAssumption DEF PollTypeOK
    <2>2. nr_done' \in [Threads -> 0..MaxDone]
      BY <1>0, <1>3, PollAssumption DEF PollTypeOK, MaxDone
    <2>3. mp_retstate' \in [Ops -> {"ONFLY", "COMPLETED", "FAILED"}]
      BY <1>0, <1>2 DEF PollTypeOK
    <2> QED BY <1>0, <1>3, <1>4, <2>1, <2>2, <2>3 DEF PollTypeOK
  <1>6. /\ mop_rc'[o] = rc /\ mp_retstate'[o] = st
        /\ \A p \in Ops \ {o} : mop_rc'[p] = mop_rc[p] /\ mp_retstate'[p] = mp_retstate[p]
    BY <1>0, <1>2 DEF PollTypeOK, TypeOK
  <1>7. OthersSame(o)
    BY <1>2, <1>6 DEF OthersSame, SameOp
  <1>8. PollOp(o)'
    BY <1>1, <1>2 DEF PollOp
  <1>9. EntryTrue(o)'
    BY <1>6 DEF EntryTrue
  <1>10. ASSUME NEW p \in Ops, p # o PROVE PollOp(p)' /\ (EntryTrue(p) => EntryTrue(p)')
    BY <1>0, <1>6, <1>7, <1>10, SamePollOp DEF OthersSame
  <1>11. ASSUME NEW u \in Threads PROVE PollArray(u)'
    <2> SUFFICES ASSUME pc[u] # "idle"
                 PROVE  /\ ops[u] # <<>> /\ Len(ops[u]) <= MaxPollOps
                        /\ \A i, j \in DOMAIN ops[u] : i # j => ops[u][i] # ops[u][j]
                        /\ \A i \in DOMAIN ops[u] :
                              /\ phase[ops[u][i]] = "launched" /\ ~has_cbs[ops[u][i]]
                              /\ i < idx'[u] => EntryTrue(ops[u][i])'
                        /\ pc[u] = "ret" => idx'[u] > Len(ops[u])
      BY <1>2, <1>3 DEF PollArray
    <2>0. PollArray(u) /\ idx[u] \in Nat /\ ops[u] \in Seq(Ops)
      BY PollAt
    <2>1. pc[u] = "ret" => idx'[u] > Len(ops[u])
      BY <1>0, <1>1, <1>3, <2>0 DEF PollArray, PollTypeOK
    <2>2. ASSUME NEW i \in DOMAIN ops[u], i < idx'[u] PROVE EntryTrue(ops[u][i])'
      <3>1. PICK p \in Ops : p = ops[u][i]
        BY <2>0
      <3>2. ops'[u][i] = p
        BY <1>3, <3>1
      <3>3. EntryTrue(p)'
        <4>1. CASE p = o
          BY <1>9, <4>1
        <4>2. CASE p # o
          <5>1. i < idx[u]
            <6>1. CASE u = t
              <7>1. idx'[u] = idx[u] + 1 /\ i # idx[u]
                BY <1>0, <1>3, <3>1, <4>2, <6>1 DEF PollTypeOK, Op
              <7>2. i \in Nat
                BY <2>0
              <7> QED BY <2>0, <2>2, <7>1, <7>2
            <6>2. CASE u # t
              BY <1>0, <1>3, <2>2, <6>2 DEF PollTypeOK
            <6> QED BY <6>1, <6>2
          <5> QED BY <1>10, <2>0, <3>1, <4>2, <5>1 DEF PollArray
        <4> QED BY <4>1, <4>2
      <3> QED BY <3>2, <3>3 DEF EntryTrue, Processed, MdocHead
    <2> QED BY <2>0, <2>1, <2>2 DEF PollArray
  <1>12. \A u, v \in Threads : Apart(u, v)'
    BY <1>3 DEF PollInv, Apart
  <1>13. PollInv'
    BY <1>5, <1>8, <1>10, <1>11, <1>12 DEF PollInv
  <1> QED BY <1>2, <1>3, <1>6, <1>7, <1>13 DEF EntriesKept

(* What every iteration leaves alone, and what it makes of its op o.       *)
Iterated(t, o) ==
    /\ PollInv' /\ OthersSame(o) /\ EntriesKept(o)
    /\ phase' = phase /\ has_cbs' = has_cbs /\ pc' = pc /\ ops' = ops
    /\ phase[o] = "launched" /\ ~has_cbs[o]
    /\ chain[o] # <<>> /\ chain'[o] # <<>>

(* mopo_wait finds the head stable: its post-processing ends the op, or    *)
(* launches a further link.                                                *)
LEMMA WaitCompletedInv ==
    ASSUME PollInv, NEW t \in Threads, NEW o \in Ops, o = Op(t), WaitCompleted(t)
    PROVE  /\ Iterated(t, o) /\ ~InFlight(o)
           /\ \/ /\ ~InFlight(o)' /\ mp_retstate'[o] = "COMPLETED" /\ Advance(t, TRUE)
                 /\ MdocHead(chain'[o]).link = MdocHead(chain[o]).link
              \/ /\ InFlight(o)' /\ mp_retstate'[o] = "ONFLY" /\ Advance(t, FALSE)
                 /\ MdocHead(chain'[o]).link \in PpTable[MdocHead(chain[o]).link] \cap Links
  <1>0. TypeOK /\ chain[o] \in Seq(DriverOp) /\ chain \in [Ops -> Seq(DriverOp)]
    BY PollAt DEF TypeOK
  <1>1. /\ phase[o] = "launched" /\ ~has_cbs[o] /\ MdocHead(chain[o]).st = "stable"
        /\ chain[o] # <<>> /\ BehindHead(o) /\ InPass(t)
    BY PassAt DEF WaitCompleted, HeadStable
  <1>2. CASE ~HasPostProc(chain[o])
    <2>1. SetState(o, "COMPLETED", "ok") /\ Advance(t, TRUE) /\ UNCHANGED <<chain, pp_failed, aborted>>
      BY <1>2 DEF WaitCompleted
    <2>2. BehindHead(o)' /\ Processed(o)' /\ chain'[o] # <<>>
      <3>1. Processed(o)
        BY <1>0, <1>1, <1>2, ProcessedByHead
      <3> QED BY <1>1, <2>1, <3>1 DEF BehindHead, Processed
    <2>3. aborted' \in BOOLEAN /\ pp_failed' \in [Ops -> BOOLEAN]
      BY <2>1, PollAt DEF PollTypeOK, TypeOK
    <2>4. /\ PollInv' /\ OthersSame(o) /\ EntriesKept(o)
          /\ phase' = phase /\ has_cbs' = has_cbs /\ pc' = pc /\ ops' = ops
          /\ mp_retstate'[o] = "COMPLETED"
      BY <1>0, <1>1, <2>1, <2>2, <2>3, WaitStep
    <2> QED BY <1>1, <2>1, <2>2, <2>4 DEF Iterated, InFlight
  <1>3. CASE HasPostProc(chain[o])
    <2>1. PICK r \in PpReturns(chain[o]) :
               /\ chain' = [chain EXCEPT ![o] = PostProcessed(@, r)]
               /\ pp_failed' = [pp_failed EXCEPT ![o] = (r = ERR)]
               /\ SetState(o, IF OpDone(r) THEN "COMPLETED" ELSE "ONFLY", "ok")
               /\ Advance(t, OpDone(r))
               /\ aborted' = (r = ERR)
      BY <1>3 DEF WaitCompleted
    <2> DEFINE d == PostProcessed(chain[o], r)
    <2>2. /\ d \in Seq(DriverOp) /\ d # <<>>
          /\ \A i \in 1 .. Len(d) - 1 : d[i].st = "stable" /\ d[i].nr_pp >= 1
          /\ r \in Links => MdocHead(d) = NewDriverOp(r)
          /\ r \notin Links => /\ MdocHead(d).st = "stable" /\ MdocHead(d).nr_pp >= 1
                               /\ MdocHead(d).link = MdocHead(chain[o]).link
      BY <1>0, <1>1, PollPostProcessed DEF BehindHead
    <2> HIDE DEF d
    <2>3. /\ chain' \in [Ops -> Seq(DriverOp)] /\ chain'[o] = d
          /\ \A p \in Ops \ {o} : chain'[p] = chain[p]
      BY <1>0, <2>1, <2>2 DEF d
    <2>4. BehindHead(o)' /\ chain'[o] # <<>> /\ chain'[o] \in Seq(DriverOp)
      BY <2>2, <2>3 DEF BehindHead
    <2>5. aborted' \in BOOLEAN /\ pp_failed' \in [Ops -> BOOLEAN]
      BY <1>0, <2>1 DEF TypeOK
    <2>6. CASE r \in Links
      <3>1. SetState(o, "ONFLY", "ok") /\ Advance(t, FALSE)
        BY <2>1, <2>6 DEF OpDone
      <3>2. /\ PollInv' /\ OthersSame(o) /\ EntriesKept(o)
            /\ phase' = phase /\ has_cbs' = has_cbs /\ pc' = pc /\ ops' = ops
            /\ mp_retstate'[o] = "ONFLY"
        BY <1>1, <2>3, <2>4, <2>5, <3>1, WaitStep
      <3>3. InFlight(o)' /\ MdocHead(chain'[o]).link \in PpTable[MdocHead(chain[o]).link] \cap Links
        BY <2>2, <2>3, <2>6 DEF InFlight, NewDriverOp, PpReturns
      <3> QED BY <1>1, <2>4, <3>1, <3>2, <3>3 DEF Iterated, InFlight
    <2>7. CASE r \notin Links
      <3>1. SetState(o, "COMPLETED", "ok") /\ Advance(t, TRUE)
        BY <2>1, <2>7 DEF OpDone
      <3>2. /\ MdocHead(chain'[o]).st = "stable" /\ MdocHead(chain'[o]).nr_pp >= 1
            /\ MdocHead(chain'[o]).link = MdocHead(chain[o]).link
        BY <2>2, <2>3, <2>7
      <3>3. Processed(o)'
        <4>1. ((/\ chain[o] \in Seq(DriverOp) /\ chain[o] # <<>> /\ BehindHead(o)
                /\ MdocHead(chain[o]).st = "stable" /\ MdocHead(chain[o]).nr_pp >= 1)
                 => Processed(o))'
          BY ProcessedByHead, PTL
        <4> QED BY <2>4, <3>2, <4>1 DEF MdocHead
      <3>4. /\ PollInv' /\ OthersSame(o) /\ EntriesKept(o)
            /\ phase' = phase /\ has_cbs' = has_cbs /\ pc' = pc /\ ops' = ops
            /\ mp_retstate'[o] = "COMPLETED"
        BY <1>1, <2>3, <2>4, <2>5, <3>1, <3>3, WaitStep
      <3> QED BY <1>1, <2>4, <3>1, <3>2, <3>4 DEF Iterated, InFlight
    <2> QED BY <2>6, <2>7
  <1> QED BY <1>2, <1>3

(* The other ends of an iteration leave the chain as it is.                *)
LEMMA WaitOtherInv ==
    ASSUME PollInv, NEW t \in Threads, NEW o \in Ops, o = Op(t),
           WaitFailed(t) \/ WaitTimedOut(t) \/ WaitError(t)
    PROVE  /\ Iterated(t, o) /\ chain' = chain
           /\ \/ mp_retstate'[o] = "FAILED" /\ Advance(t, TRUE)
              \/ mp_retstate'[o] = "ONFLY" /\ Advance(t, FALSE) /\ timeout[t] # Never
  <1>0. TypeOK /\ chain[o] \in Seq(DriverOp) /\ chain \in [Ops -> Seq(DriverOp)]
    BY PollAt DEF TypeOK
  <1>1. /\ phase[o] = "launched" /\ ~has_cbs[o] /\ chain[o] # <<>> /\ BehindHead(o) /\ InPass(t)
        /\ UNCHANGED <<chain, pp_failed, aborted>>
    BY PassAt DEF WaitFailed, WaitTimedOut, WaitError
  <1>2. /\ BehindHead(o)' /\ chain'[o] # <<>> /\ chain' \in [Ops -> Seq(DriverOp)]
        /\ aborted' \in BOOLEAN /\ pp_failed' \in [Ops -> BOOLEAN]
        /\ \A p \in Ops \ {o} : chain'[p] = chain[p]
    BY <1>0, <1>1, PollAt DEF PollTypeOK, TypeOK, BehindHead
  <1>3. CASE WaitFailed(t) \/ WaitError(t)
    <2>1. SetState(o, "FAILED", "err") /\ Advance(t, TRUE)
      BY <1>3 DEF WaitFailed, WaitError
    <2>2. ~WaitErrors => MdocHead(chain'[o]).st = "failed"
      BY <1>1, <1>3 DEF WaitFailed, WaitError
    <2>3. /\ PollInv' /\ OthersSame(o) /\ EntriesKept(o)
          /\ phase' = phase /\ has_cbs' = has_cbs /\ pc' = pc /\ ops' = ops
          /\ mp_retstate'[o] = "FAILED"
      BY <1>1, <1>2, <2>1, <2>2, WaitStep
    <2> QED BY <1>1, <1>2, <2>1, <2>3 DEF Iterated
  <1>4. CASE WaitTimedOut(t)
    <2>1. SetState(o, "ONFLY", "err") /\ Advance(t, FALSE) /\ timeout[t] # Never
      BY <1>4 DEF WaitTimedOut
    <2>2. /\ PollInv' /\ OthersSame(o) /\ EntriesKept(o)
          /\ phase' = phase /\ has_cbs' = has_cbs /\ pc' = pc /\ ops' = ops
          /\ mp_retstate'[o] = "ONFLY"
      BY <1>1, <1>2, <2>1, WaitStep
    <2> QED BY <1>1, <1>2, <2>1, <2>2 DEF Iterated
  <1> QED BY <1>3, <1>4

(* A call is made, with ops that no other call waits for.                  *)
LEMMA PollCallInv ==
    ASSUME PollInv, NEW t \in Threads, NEW s \in PollArrays, NEW to \in Timeouts, PollCall(t, s, to)
    PROVE  /\ PollInv' /\ UNCHANGED opvars /\ mp_retstate' = mp_retstate
           /\ ops'[t] = s /\ s # <<>>
  <1>0. /\ PollTypeOK /\ TypeOK /\ \A u \in Threads : PollArray(u)
        /\ MaxPollOps \in Nat
    BY PollAt, PollAssumption
  <1>1. PICK n \in 1..MaxPollOps : s \in [1..n -> Ops]
    BY DEF PollArrays
  <1>2. s \in Seq(Ops) /\ Len(s) = n /\ DOMAIN s = 1..n /\ s # <<>> /\ Len(s) <= MaxPollOps
    BY <1>0, <1>1
  <1>3. /\ \A i, j \in DOMAIN s : i # j => s[i] # s[j]
        /\ \A i \in DOMAIN s : phase[s[i]] = "launched" /\ ~has_cbs[s[i]] /\ ~Polled(s[i])
    BY DEF PollArrays
  <1>4. /\ UNCHANGED opvars /\ mp_retstate' = mp_retstate /\ aborted' = aborted
        /\ pc' = [pc EXCEPT ![t] = "loop"] /\ ops' = [ops EXCEPT ![t] = s]
        /\ idx' = [idx EXCEPT ![t] = 1] /\ nr_done' = [nr_done EXCEPT ![t] = 0]
        /\ timeout' = [timeout EXCEPT ![t] = to] /\ asked' = [asked EXCEPT ![t] = to]
        /\ elapsed' = [elapsed EXCEPT ![t] = 0] /\ waited' = [waited EXCEPT ![t] = 0]
    BY DEF PollCall
  <1>5. to \in Nat \cup {Never} /\ 0 \in 0..MaxDone /\ 0 \in 0..MaxTicks
    BY PollAssumption DEF MaxDone
  <1>6. TypeOK'
    BY <1>0, <1>4 DEF TypeOK, opvars
  <1>7. PollTypeOK'
    <2>1. pc' \in [Threads -> {"idle", "loop", "ret"}] /\ ops' \in [Threads -> Seq(Ops)]
      BY <1>0, <1>2, <1>4 DEF PollTypeOK
    <2>2. idx' \in [Threads -> Nat \ {0}] /\ nr_done' \in [Threads -> 0..MaxDone]
      BY <1>0, <1>4, <1>5 DEF PollTypeOK
    <2>3. /\ timeout' \in [Threads -> Nat \cup {Never}] /\ asked' \in [Threads -> Nat \cup {Never}]
      BY <1>0, <1>4, <1>5 DEF PollTypeOK
    <2>4. elapsed' \in [Threads -> 0..MaxTicks] /\ waited' \in [Threads -> 0..MaxTicks]
      BY <1>0, <1>4, <1>5 DEF PollTypeOK
    <2> QED BY <1>0, <1>4, <1>6, <2>1, <2>2, <2>3, <2>4 DEF PollTypeOK
  <1>8. /\ pc'[t] = "loop" /\ ops'[t] = s /\ idx'[t] = 1
        /\ \A u \in Threads \ {t} : pc'[u] = pc[u] /\ ops'[u] = ops[u] /\ idx'[u] = idx[u]
    BY <1>0, <1>4 DEF PollTypeOK
  <1>9. \A o \in Ops : PollOp(o)' /\ (EntryTrue(o) => EntryTrue(o)')
    BY <1>4, PollAt, SamePollOp DEF SameOp, opvars
  <1>10. ASSUME NEW u \in Threads PROVE PollArray(u)'
    <2>1. CASE u = t
      <3>1. \A i \in DOMAIN s : ~(i < 1)
        BY <1>2
      <3>2. phase' = phase /\ has_cbs' = has_cbs
        BY <1>4 DEF opvars
      <3>3. \A i \in DOMAIN ops'[t] : phase'[ops'[t][i]] = "launched" /\ ~has_cbs'[ops'[t][i]]
                                      /\ ~(i < idx'[t])
        BY <1>3, <1>8, <3>1, <3>2
      <3>4. \A i, j \in DOMAIN ops'[t] : i # j => ops'[t][i] # ops'[t][j]
        BY <1>3, <1>8
      <3> QED BY <1>2, <1>8, <2>1, <3>3, <3>4 DEF PollArray
    <2>2. CASE u # t
      <3>1. pc'[u] = pc[u] /\ ops'[u] = ops[u] /\ idx'[u] = idx[u] /\ PollArray(u)
        BY <1>0, <1>8, <2>2
      <3>2. phase' = phase /\ has_cbs' = has_cbs /\ ops[u] \in Seq(Ops)
        BY <1>0, <1>4 DEF opvars, PollTypeOK
      <3>3. ASSUME pc[u] # "idle", NEW i \in DOMAIN ops[u], i < idx[u]
            PROVE  EntryTrue(ops[u][i])'
        <4>1. PICK p \in Ops : p = ops[u][i]
          BY <3>2, <3>3
        <4>2. EntryTrue(p)'
          BY <1>9, <3>1, <3>3, <4>1 DEF PollArray
        <4>3. ops'[u][i] = p
          BY <3>1, <4>1
        <4> QED BY <4>2, <4>3 DEF EntryTrue, Processed, MdocHead
      <3> QED BY <3>1, <3>2, <3>3 DEF PollArray
    <2> QED BY <2>1, <2>2
  <1>11. ASSUME NEW u \in Threads, NEW v \in Threads PROVE Apart(u, v)'
    <2>0. Apart(u, v)
      BY DEF PollInv
    <2>1. CASE u # t /\ v # t
      BY <1>8, <2>0, <2>1 DEF Apart
    <2>2. CASE u = t /\ v # t
      BY <1>3, <1>8, <2>2 DEF Apart, Polled
    <2>3. CASE u # t /\ v = t
      BY <1>3, <1>8, <2>3 DEF Apart, Polled
    <2> QED BY <2>1, <2>2, <2>3 DEF Apart
  <1> QED BY <1>2, <1>4, <1>7, <1>8, <1>9, <1>10, <1>11 DEF PollInv

(* The end of a pass and the clock leave ops and entries alone.            *)
LEMMA PassEndInv ==
    ASSUME PollInv, NEW t \in Threads, PassEnd(t) \/ Tick(t)
    PROVE  PollInv' /\ UNCHANGED opvars /\ mp_retstate' = mp_retstate
  <1>0. PollTypeOK /\ TypeOK /\ \A u \in Threads : PollArray(u)
    BY PollAt
  <1>1. /\ UNCHANGED opvars /\ mp_retstate' = mp_retstate /\ aborted' = aborted /\ ops' = ops
        /\ nr_done' = nr_done /\ asked' = asked /\ pc[t] = "loop"
    BY DEF PassEnd, Tick
  <1>2. /\ pc' = pc \/ (pc' = [pc EXCEPT ![t] = "ret"] /\ idx[t] > Len(ops[t]) /\ idx' = idx)
        /\ idx' = idx \/ idx' = [idx EXCEPT ![t] = 1]
    BY DEF PassEnd, Tick
  <1>3. /\ timeout' \in [Threads -> Nat \cup {Never}]
        /\ elapsed' \in [Threads -> 0..MaxTicks] /\ waited' \in [Threads -> 0..MaxTicks]
    <2>1. /\ timeout \in [Threads -> Nat \cup {Never}] /\ MaxTicks \in Nat
          /\ elapsed \in [Threads -> 0..MaxTicks] /\ waited \in [Threads -> 0..MaxTicks]
      BY <1>0, PollAssumption DEF PollTypeOK
    <2>2. CASE PassEnd(t)
      <3>1. elapsed' = elapsed /\ (waited' = waited \/ waited' = [waited EXCEPT ![t] = 0])
        BY <2>2 DEF PassEnd
      <3>2. CASE timeout' = timeout
        BY <2>1, <3>1, <3>2
      <3>3. CASE Again(t) /\ timeout' = [timeout EXCEPT ![t] = IF @ = Never THEN @ ELSE @ - elapsed[t]]
        <4>1. CASE timeout[t] = Never
          BY <2>1, <3>1, <3>3, <4>1
        <4>2. CASE timeout[t] # Never
          <5>1. timeout[t] \in Nat /\ elapsed[t] \in Nat /\ elapsed[t] < timeout[t]
            BY <2>1, <3>3, <4>2 DEF Again
          <5>2. timeout[t] - elapsed[t] \in Nat
            BY <5>1
          <5> QED BY <2>1, <3>1, <3>3, <4>2, <5>2
        <4> QED BY <4>1, <4>2
      <3> QED BY <2>2, <3>2, <3>3 DEF PassEnd
    <2>3. CASE Tick(t)
      <3>1. /\ timeout' = timeout /\ elapsed[t] < MaxTicks
            /\ elapsed' = [elapsed EXCEPT ![t] = @ + 1]
            /\ waited'  = [waited  EXCEPT ![t] = IF @ < MaxTicks THEN @ + 1 ELSE @]
        BY <2>3 DEF Tick
      <3>2. elapsed[t] + 1 \in 0..MaxTicks
        BY <2>1, <3>1
      <3>3. waited[t] < MaxTicks => waited[t] + 1 \in 0..MaxTicks
        BY <2>1
      <3> QED BY <2>1, <3>1, <3>2, <3>3
    <2> QED BY <2>2, <2>3
  <1>4. PollTypeOK'
    <2>1. TypeOK'
      BY <1>0, <1>1 DEF TypeOK, opvars
    <2>2. pc' \in [Threads -> {"idle", "loop", "ret"}] /\ idx' \in [Threads -> Nat \ {0}]
      <3>1. pc' = pc \/ pc' = [pc EXCEPT ![t] = "ret"]
        BY <1>2
      <3>2. idx' = idx \/ idx' = [idx EXCEPT ![t] = 1]
        BY <1>2
      <3>3. pc' \in [Threads -> {"idle", "loop", "ret"}]
        BY <1>0, <3>1 DEF PollTypeOK
      <3>4. idx' \in [Threads -> Nat \ {0}]
        <4>1. idx \in [Threads -> Nat \ {0}] /\ 1 \in Nat \ {0}
          BY <1>0 DEF PollTypeOK
        <4>2. CASE idx' = idx
          BY <4>1, <4>2
        <4>3. CASE idx' = [idx EXCEPT ![t] = 1]
          BY <4>1, <4>3
        <4> QED BY <3>2, <4>2, <4>3
      <3> QED BY <3>3, <3>4
    <2> QED BY <1>0, <1>1, <1>3, <2>1, <2>2 DEF PollTypeOK
  <1>5. \A o \in Ops : PollOp(o)'
    BY <1>1, PollAt, SamePollOp DEF SameOp, opvars
  <1>6. ASSUME NEW u \in Threads
        PROVE  /\ pc'[u] # "idle" <=> pc[u] # "idle"
               /\ idx'[u] = idx[u] \/ idx'[u] = 1
               /\ pc'[u] = "ret" => \/ pc[u] = "ret" /\ idx'[u] = idx[u]
                                    \/ idx'[u] > Len(ops[u])
    BY <1>0, <1>1, <1>2 DEF PollTypeOK
  <1>7. ASSUME NEW u \in Threads PROVE PollArray(u)'
    <2>1. ops[u] \in Seq(Ops) /\ idx[u] \in Nat
      BY PollAt
    <2>2. \A i \in DOMAIN ops[u] : i < idx'[u] => i < idx[u]
      BY <1>6, <2>1
    <2> QED BY <1>0, <1>1, <1>6, <2>2 DEF PollArray, opvars, EntryTrue, Processed, MdocHead
  <1>8. \A u, v \in Threads : Apart(u, v)'
    BY <1>1, <1>6 DEF PollInv, Apart
  <1> QED BY <1>1, <1>4, <1>5, <1>7, <1>8 DEF PollInv


(* The ops a call returns as done become done for the application: they    *)
(* are the launched ops whose entries, which are true, say so.             *)
ReportedBy(t) == {o \in Ops : /\ \E i \in DOMAIN ops[t] : ops[t][i] = o
                              /\ mp_retstate[o] # "ONFLY"}

(* What the application learns from the entries of a call is true.         *)
LEMMA ReportedTrue ==
    ASSUME PollInv, NEW t \in Threads, pc[t] = "ret", NEW o \in ReportedBy(t)
    PROVE  /\ phase[o] = "launched" /\ ~has_cbs[o] /\ EntryTrue(o) /\ chain[o] # <<>>
           /\ ~WaitErrors => ~InFlight(o)
  <1>1. PICK i \in DOMAIN ops[t] : ops[t][i] = o /\ mp_retstate[o] # "ONFLY"
    BY DEF ReportedBy
  <1>2. /\ ops[t] \in Seq(Ops) /\ idx[t] \in Nat /\ PollArray(t) /\ o \in Ops
        /\ PollOp(o) /\ chain[o] \in Seq(DriverOp)
    BY PollAt DEF ReportedBy
  <1>3. i < idx[t]
    <2>1. idx[t] > Len(ops[t]) /\ i \in Nat /\ i <= Len(ops[t])
      BY <1>2 DEF PollArray
    <2> QED BY <1>2, <2>1
  <1>4. phase[o] = "launched" /\ ~has_cbs[o] /\ EntryTrue(o)
    BY <1>1, <1>2, <1>3 DEF PollArray
  <1>5. chain[o] # <<>> /\ BehindHead(o)
    BY <1>2, <1>4 DEF PollOp
  <1>6. mp_retstate[o] \in {"COMPLETED", "FAILED"}
    BY <1>1, <1>2, PollAt DEF PollTypeOK
  <1>7. ~WaitErrors => ~InFlight(o)
    BY <1>2, <1>4, <1>5, <1>6, ProcessedByHead DEF EntryTrue, InFlight
  <1> QED BY <1>4, <1>5, <1>7

(* mio_op_poll returns, and the application reads the entries.             *)
LEMMA CollectInv ==
    ASSUME PollInv, NEW t \in Threads, Collect(t)
    PROVE  /\ PollInv' /\ chain' = chain /\ has_cbs' = has_cbs /\ mp_retstate' = mp_retstate
           /\ told' = told
           /\ \A o \in Ops : phase'[o] = IF o \in ReportedBy(t) THEN "done" ELSE phase[o]
           /\ pc[t] = "ret" /\ pc'[t] = "idle" /\ \A u \in Threads \ {t} : pc'[u] = pc[u]
  <1>0. PollTypeOK /\ TypeOK
    BY PollAt
  <1>1. /\ chain' = chain /\ has_cbs' = has_cbs /\ mp_retstate' = mp_retstate /\ cb_due' = cb_due
        /\ mop_rc' = mop_rc /\ reports' = reports /\ told' = told /\ pp_failed' = pp_failed
        /\ aborted' = aborted /\ pc[t] = "ret" /\ pc' = [pc EXCEPT ![t] = "idle"]
        /\ phase' = [o \in Ops |-> IF o \in ReportedBy(t) THEN "done" ELSE phase[o]]
    BY DEF Collect, ReportedBy
  <1>2. Reset(t)
    BY DEF Collect
  <1>3. TypeOK'
    <2>1. phase' \in [Ops -> {"idle", "launched", "done"}]
      BY <1>0, <1>1 DEF TypeOK
    <2> QED BY <1>0, <1>1, <2>1 DEF TypeOK
  <1>4. PollTypeOK'
    <2>1. 0 \in 0..MaxDone /\ 0 \in 0..MaxTicks /\ <<>> \in Seq(Ops) /\ 1 \in Nat \ {0}
      BY PollAssumption DEF MaxDone
    <2>2. /\ pc' \in [Threads -> {"idle", "loop", "ret"}] /\ ops' \in [Threads -> Seq(Ops)]
          /\ idx' \in [Threads -> Nat \ {0}] /\ nr_done' \in [Threads -> 0..MaxDone]
      BY <1>0, <1>1, <1>2, <2>1 DEF PollTypeOK, Reset
    <2>3. /\ timeout' \in [Threads -> Nat \cup {Never}] /\ asked' \in [Threads -> Nat \cup {Never}]
          /\ elapsed' \in [Threads -> 0..MaxTicks] /\ waited' \in [Threads -> 0..MaxTicks]
      BY <1>0, <1>2, <2>1 DEF PollTypeOK, Reset
    <2> QED BY <1>0, <1>1, <1>3, <2>2, <2>3 DEF PollTypeOK
  <1>5. /\ \A o \in Ops : phase'[o] = IF o \in ReportedBy(t) THEN "done" ELSE phase[o]
        /\ pc'[t] = "idle"
        /\ \A u \in Threads \ {t} : pc'[u] = pc[u] /\ ops'[u] = ops[u] /\ idx'[u] = idx[u]
    BY <1>0, <1>1, <1>2 DEF PollTypeOK, Reset
  <1>6. ASSUME NEW o \in Ops PROVE PollOp(o)'
    <2>1. PollOp(o) /\ cb_due[o] \in {"none", "stable", "failed"}
      BY PollAt DEF TypeOK
    <2>2. CASE o \in ReportedBy(t)
      <3>1. /\ phase[o] = "launched" /\ ~has_cbs[o] /\ chain[o] # <<>>
            /\ ~WaitErrors => ~InFlight(o)
        BY <1>1, <2>2, ReportedTrue
      <3> QED BY <1>1, <1>5, <2>1, <2>2, <3>1 DEF PollOp, BehindHead, InFlight
    <2>3. CASE o \notin ReportedBy(t)
      BY <1>1, <1>5, <2>1, <2>3 DEF PollOp, BehindHead, InFlight
    <2> QED BY <2>2, <2>3
  <1>7. \A o \in Ops : EntryTrue(o) => EntryTrue(o)'
    BY <1>1 DEF EntryTrue, Processed, MdocHead
  <1>8. ASSUME NEW u \in Threads PROVE PollArray(u)'
    <2>1. CASE u = t
      BY <1>5, <2>1 DEF PollArray
    <2>2. CASE u # t
      <3>1. pc'[u] = pc[u] /\ ops'[u] = ops[u] /\ idx'[u] = idx[u] /\ PollArray(u)
        BY <1>5, <2>2, PollAt
      <3>2. ops[u] \in Seq(Ops)
        BY PollAt
      <3>3. ASSUME pc[u] # "idle", NEW i \in DOMAIN ops[u]
            PROVE  /\ phase'[ops[u][i]] = "launched"
                   /\ i < idx[u] => EntryTrue(ops[u][i])'
        <4>1. PICK p \in Ops : p = ops[u][i]
          BY <3>2, <3>3
        <4>2. ops'[u][i] = p
          BY <3>1, <4>1
        <4>3. p \notin ReportedBy(t)
          BY <1>1, <2>2, <3>3, <4>1 DEF PollInv, Apart, ReportedBy
        <4>4. phase'[p] = "launched"
          BY <1>5, <3>1, <3>3, <4>1, <4>3 DEF PollArray
        <4>5. i < idx[u] => EntryTrue(p)'
          BY <1>7, <3>1, <3>3, <4>1 DEF PollArray
        <4> QED BY <4>1, <4>2, <4>4, <4>5 DEF EntryTrue, Processed, MdocHead
      <3> QED BY <1>1, <3>1, <3>3 DEF PollArray
    <2> QED BY <2>1, <2>2
  <1>9. ASSUME NEW u \in Threads, NEW v \in Threads PROVE Apart(u, v)'
    BY <1>5 DEF PollInv, Apart
  <1> QED BY <1>1, <1>4, <1>5, <1>6, <1>8, <1>9 DEF PollInv

(* Every step of PollNext preserves PollInv.                               *)
LEMMA PollNextInv == PollInv /\ [PollNext]_vars => PollInv'
  <1> SUFFICES ASSUME PollInv, [PollNext]_vars PROVE PollInv'
    OBVIOUS
  <1>1. CASE UNCHANGED vars
    <2>1. UNCHANGED opvars /\ UNCHANGED pollvars
      BY <1>1 DEF vars
    <2>2. PollTypeOK'
      BY <2>1, PollAt DEF opvars, pollvars, PollTypeOK, TypeOK
    <2>3. \A o \in Ops : PollOp(o)'
      BY <2>1, PollAt, SamePollOp DEF SameOp, opvars, pollvars
    <2>4. \A t \in Threads : PollArray(t)'
      BY <2>1, PollAt DEF opvars, pollvars, PollArray, EntryTrue, Processed, MdocHead
    <2>5. \A t, u \in Threads : Apart(t, u)'
      BY <2>1 DEF pollvars, PollInv, Apart
    <2> QED BY <2>2, <2>3, <2>4, <2>5 DEF PollInv
  <1>2. ASSUME NEW t \in Threads, WaitCompleted(t) \/ WaitFailed(t) \/ WaitTimedOut(t) \/ WaitError(t)
        PROVE  PollInv'
    <2>1. PICK o \in Ops : o = Op(t)
      BY <1>2, PassAt DEF WaitCompleted, WaitFailed, WaitTimedOut, WaitError
    <2>2. CASE WaitCompleted(t)
      <3>1. Iterated(t, o)
        BY <2>1, <2>2, WaitCompletedInv
      <3> QED BY <3>1 DEF Iterated
    <2>3. CASE WaitFailed(t) \/ WaitTimedOut(t) \/ WaitError(t)
      <3>1. Iterated(t, o)
        BY <2>1, <2>3, WaitOtherInv
      <3> QED BY <3>1 DEF Iterated
    <2> QED BY <1>2, <2>2, <2>3
  <1>3. ASSUME NEW t \in Threads, PollStep(t) PROVE PollInv'
    BY <1>2, <1>3, PassEndInv, CollectInv DEF PollStep
  <1>4. ASSUME NEW o \in Ops, NEW l \in FirstLinks, NEW cbs \in Cbs, PollLaunch(o, l, cbs)
        PROVE  PollInv'
    BY <1>4, PollLaunchInv, PollAssumption
  <1>5. CASE PollNext
    BY <1>1, <1>3, <1>4, <1>5, PollMotrInv, PollCompleteInv, PollFailedInv, PollFiniInv,
       PollCallInv, PassEndInv DEF PollNext, Halted
  <1> QED BY <1>1, <1>5

(* The invariant of mio_op_poll holds of every reachable state.            *)
THEOREM PollInvariance == PollSpec => []PollInv
  BY PollInitInv, PollNextInv, PTL DEF PollSpec

(* What mio_op_poll returns of an op is how its chain of Motr operations   *)
(* ended, for any timeouts, unless m0_op_wait itself fails.                *)
THEOREM PollsTruthfully ==
    ASSUME ~WaitErrors
    PROVE  PollSpec => []PollTruthful
  <1>1. PollInv => PollTruthful
    <2> SUFFICES ASSUME PollInv, NEW t \in Threads, pc[t] = "ret", NEW i \in DOMAIN ops[t]
                 PROVE  /\ mp_retstate[ops[t][i]] = "COMPLETED" =>
                             Processed(ops[t][i]) /\ mop_rc[ops[t][i]] = "ok"
                        /\ mp_retstate[ops[t][i]] = "FAILED" =>
                             MdocHead(chain[ops[t][i]]).st = "failed" /\ mop_rc[ops[t][i]] = "err"
      BY DEF PollTruthful, PollCompletedTruthful, PollFailedTruthful, Returned
    <2>1. PICK o \in Ops : o = ops[t][i]
      BY PollAt
    <2>2. mp_retstate[o] # "ONFLY" => o \in ReportedBy(t)
      BY <2>1 DEF ReportedBy
    <2>3. mp_retstate[o] # "ONFLY" => EntryTrue(o)
      BY <2>2, ReportedTrue
    <2> QED BY <2>1, <2>3 DEF EntryTrue
  <1> QED BY <1>1, PollInvariance, PTL


(***************************************************************************)
(* The counter of a call with MIO_TIME_NEVER.                              *)
(***************************************************************************)
(* The calls of other threads, and the entries of their ops, stay as they  *)
(* are: so does what is said of their counters.                            *)
SameCall(u) ==
    /\ pc'[u] = pc[u] /\ ops'[u] = ops[u] /\ idx'[u] = idx[u] /\ nr_done'[u] = nr_done[u]
    /\ timeout'[u] = timeout[u] /\ asked'[u] = asked[u]
    /\ pc[u] # "idle" =>
          \A i \in DOMAIN ops[u] : mp_retstate'[ops[u][i]] = mp_retstate[ops[u][i]]

(* A step of another thread keeps what is said of a call's counter.        *)
LEMMA SameCallCount ==
    ASSUME PollInv, NEW u \in Threads, CallCount(u), SameCall(u)
    PROVE  CallCount(u)'
  <1> SUFFICES ASSUME pc[u] # "idle", asked[u] = Never PROVE CallCount(u)'
    BY DEF CallCount, SameCall
  <1>1. ops[u] \in Seq(Ops) /\ ops[u] # <<>>
    BY PollAt DEF PollArray
  <1>2. 1 \in DOMAIN ops[u]
    BY <1>1
  <1>3. mp_retstate'[ops'[u][1]] = mp_retstate[ops[u][1]]
    BY <1>2 DEF SameCall
  <1> QED BY <1>3 DEF CallCount, SameCall

(* An iteration for the op o of thread t counts it exactly if its entry    *)
(* says that it is done.                                                   *)
LEMMA IterationCounts ==
    ASSUME PollInv, NEW t \in Threads, NEW o \in Ops, o = Op(t), InPass(t), Iterated(t, o),
           NEW done \in BOOLEAN, Advance(t, done), done <=> mp_retstate'[o] # "ONFLY",
           timeout[t] = Never /\ SingleLinks => done,
           \A u \in Threads : CallCount(u)
    PROVE  \A u \in Threads : CallCount(u)'
  <1>0. /\ PollTypeOK /\ PollArray(t) /\ ops[t] \in Seq(Ops) /\ idx[t] \in DOMAIN ops[t]
        /\ pc[t] = "loop" /\ CallCount(t) /\ MaxPollOps \in Nat
        /\ idx[t] \in Nat /\ nr_done[t] \in Nat
    BY PollAt, PassAt, PollAssumption
  <1>1. /\ pc' = pc /\ ops' = ops /\ timeout' = timeout /\ asked' = asked
        /\ idx' = [idx EXCEPT ![t] = @ + 1]
        /\ nr_done' = [nr_done EXCEPT ![t] = IF done /\ @ < MaxDone THEN @ + 1 ELSE @]
    BY DEF Advance
  <1>2. ASSUME NEW u \in Threads, u # t PROVE CallCount(u)'
    <2>1. idx'[u] = idx[u] /\ nr_done'[u] = nr_done[u]
      BY <1>0, <1>1, <1>2 DEF PollTypeOK
    <2>2. ASSUME pc[u] # "idle", NEW i \in DOMAIN ops[u]
          PROVE  mp_retstate'[ops[u][i]] = mp_retstate[ops[u][i]]
      <3>1. ops[u][i] \in Ops /\ ops[u][i] # o
        BY <1>0, <1>2, <2>2, PollAt DEF PollInv, Apart, Op
      <3> QED BY <3>1 DEF Iterated, EntriesKept
    <2> QED BY <1>1, <2>1, <2>2, SameCallCount DEF SameCall
  <1>3. CallCount(t)'
    <2> SUFFICES ASSUME asked[t] = Never PROVE CallCount(t)'
      BY <1>1 DEF CallCount
    <2> DEFINE n == Len(ops[t])
    <2>1. /\ timeout[t] = Never /\ n \in Nat /\ n <= MaxPollOps /\ n >= 1
          /\ idx[t] >= 1 /\ idx[t] <= n
          /\ \A i \in DOMAIN ops[t] : i \in Nat /\ i >= 1 /\ i <= n
          /\ SingleLinks => nr_done[t] = idx[t] - 1
          /\ MaxPollOps = 1 =>
               nr_done[t] = IF idx[t] > 1 /\ mp_retstate[ops[t][1]] # "ONFLY" THEN 1 ELSE 0
      BY <1>0 DEF CallCount, PollArray
    <2>2. idx'[t] = idx[t] + 1
      BY <1>0, <1>1 DEF PollTypeOK
    <2>3. nr_done[t] < MaxDone => nr_done'[t] = IF done THEN nr_done[t] + 1 ELSE nr_done[t]
      BY <1>0, <1>1 DEF PollTypeOK
    <2>4. SingleLinks => /\ nr_done'[t] = idx'[t] - 1
                         /\ \A i \in DOMAIN ops[t] : i < idx'[t] => mp_retstate'[ops[t][i]] # "ONFLY"
      <3> SUFFICES ASSUME SingleLinks
                   PROVE  /\ nr_done'[t] = idx'[t] - 1
                          /\ \A i \in DOMAIN ops[t] : i < idx'[t] => mp_retstate'[ops[t][i]] # "ONFLY"
        OBVIOUS
      <3>1. done /\ nr_done[t] < MaxDone
        BY <1>0, <2>1 DEF MaxDone
      <3>2. nr_done'[t] = idx'[t] - 1
        BY <1>0, <2>1, <2>2, <2>3, <3>1
      <3>3. ASSUME NEW i \in DOMAIN ops[t], i < idx'[t] PROVE mp_retstate'[ops[t][i]] # "ONFLY"
        <4>1. CASE i = idx[t]
          BY <3>1, <4>1 DEF Op
        <4>2. CASE i # idx[t]
          <5>1. i < idx[t] /\ ops[t][i] \in Ops /\ ops[t][i] # o
            BY <1>0, <2>1, <2>2, <3>3, <4>2 DEF PollArray, Op
          <5>2. mp_retstate[ops[t][i]] # "ONFLY"
            BY <1>0, <5>1 DEF CallCount
          <5> QED BY <5>1, <5>2 DEF Iterated, EntriesKept
        <4> QED BY <4>1, <4>2
      <3> QED BY <3>2, <3>3
    <2>5. MaxPollOps = 1 =>
            nr_done'[t] = IF idx'[t] > 1 /\ mp_retstate'[ops[t][1]] # "ONFLY" THEN 1 ELSE 0
      <3> SUFFICES ASSUME MaxPollOps = 1
                   PROVE  nr_done'[t] = IF idx'[t] > 1 /\ mp_retstate'[ops[t][1]] # "ONFLY" THEN 1 ELSE 0
        OBVIOUS
      <3>1. idx[t] = 1 /\ nr_done[t] = 0 /\ nr_done[t] < MaxDone /\ o = ops[t][1]
        BY <1>0, <2>1 DEF MaxDone, Op
      <3> QED BY <2>2, <2>3, <3>1
    <2>6. idx'[t] <= n + 1
      BY <1>0, <2>1, <2>2
    <2> QED BY <1>0, <1>1, <2>1, <2>4, <2>5, <2>6 DEF CallCount
  <1> QED BY <1>2, <1>3


(* A step outside mio_op_poll that gives an op no link but a first one.    *)
LEMMA OutsideCounts ==
    ASSUME PollInv, CountInv, UNCHANGED pollvars, NEW o \in Ops, OthersSame(o),
           SingleLinks => \/ chain'[o] = <<>>
                          \/ MdocHead(chain'[o]).link \in FirstLinks
    PROVE  CountInv'
  <1>1. FirstLinkOnly'
    <2> SUFFICES ASSUME SingleLinks, NEW p \in Ops, chain'[p] # <<>>
                 PROVE  MdocHead(chain'[p]).link \in FirstLinks
      BY DEF FirstLinkOnly
    <2> QED BY DEF CountInv, FirstLinkOnly, OthersSame, SameOp
  <1>2. \A u \in Threads : SameCall(u)
    BY DEF pollvars, SameCall
  <1>3. \A u \in Threads : CallCount(u)'
    BY <1>2, SameCallCount DEF CountInv
  <1>4. \A u \in Threads : Asked(u)'
    BY DEF CountInv, Asked, pollvars
  <1> QED BY <1>1, <1>3, <1>4 DEF CountInv

(* Under SingleLinks the post-processing of a head launches no link.       *)
LEMMA NoNext ==
    ASSUME CountInv, NEW o \in Ops, chain[o] # <<>>, SingleLinks
    PROVE  /\ MdocHead(chain[o]).link \in FirstLinks
           /\ PpTable[MdocHead(chain[o]).link] \cap Links = {}
  BY DEF CountInv, FirstLinkOnly, SingleLinks

(* The iterations.                                                         *)
LEMMA WaitCounts ==
    ASSUME PollInv, CountInv, NEW t \in Threads,
           WaitCompleted(t) \/ WaitFailed(t) \/ WaitTimedOut(t) \/ WaitError(t)
    PROVE  CountInv'
  <1>0. InPass(t) /\ \A u \in Threads : CallCount(u)
    BY DEF WaitCompleted, WaitFailed, WaitTimedOut, WaitError, CountInv
  <1>1. PICK o \in Ops : o = Op(t)
    BY <1>0, PassAt
  <1>2. /\ Iterated(t, o) /\ asked' = asked
        /\ SingleLinks => MdocHead(chain'[o]).link \in FirstLinks
        /\ \E done \in BOOLEAN : /\ Advance(t, done) /\ (done <=> mp_retstate'[o] # "ONFLY")
                                 /\ (timeout[t] = Never /\ SingleLinks) => done
    <2>1. CASE WaitCompleted(t)
      <3>1. /\ Iterated(t, o)
            /\ \/ /\ mp_retstate'[o] = "COMPLETED" /\ Advance(t, TRUE)
                  /\ MdocHead(chain'[o]).link = MdocHead(chain[o]).link
               \/ /\ mp_retstate'[o] = "ONFLY" /\ Advance(t, FALSE)
                  /\ MdocHead(chain'[o]).link \in PpTable[MdocHead(chain[o]).link] \cap Links
        BY <1>1, <2>1, WaitCompletedInv
      <3>2. chain[o] # <<>>
        BY <3>1 DEF Iterated
      <3>3. SingleLinks => MdocHead(chain'[o]).link \in FirstLinks
        BY <3>1, <3>2, NoNext
      <3>4. \E done \in BOOLEAN : /\ Advance(t, done) /\ (done <=> mp_retstate'[o] # "ONFLY")
                                  /\ (timeout[t] = Never /\ SingleLinks) => done
        <4>1. CASE mp_retstate'[o] = "COMPLETED" /\ Advance(t, TRUE)
          BY <4>1
        <4>2. CASE mp_retstate'[o] = "ONFLY" /\ Advance(t, FALSE) /\ ~SingleLinks
          BY <4>2
        <4> QED BY <3>1, <3>2, <4>1, <4>2, NoNext
      <3>5. asked' = asked
        BY <3>4 DEF Advance
      <3> QED BY <3>1, <3>3, <3>4, <3>5
    <2>2. CASE WaitFailed(t) \/ WaitTimedOut(t) \/ WaitError(t)
      <3>1. /\ Iterated(t, o) /\ chain' = chain
            /\ \/ mp_retstate'[o] = "FAILED" /\ Advance(t, TRUE)
               \/ mp_retstate'[o] = "ONFLY" /\ Advance(t, FALSE) /\ timeout[t] # Never
        BY <1>1, <2>2, WaitOtherInv
      <3>2. chain[o] # <<>>
        BY <3>1 DEF Iterated
      <3>3. SingleLinks => MdocHead(chain'[o]).link \in FirstLinks
        BY <3>1, <3>2, NoNext
      <3>4. \E done \in BOOLEAN : /\ Advance(t, done) /\ (done <=> mp_retstate'[o] # "ONFLY")
                                  /\ (timeout[t] = Never /\ SingleLinks) => done
        <4>1. CASE mp_retstate'[o] = "FAILED" /\ Advance(t, TRUE)
          BY <4>1
        <4>2. CASE mp_retstate'[o] = "ONFLY" /\ Advance(t, FALSE) /\ timeout[t] # Never
          BY <4>2
        <4> QED BY <3>1, <4>1, <4>2
      <3>5. asked' = asked
        BY <3>4 DEF Advance
      <3> QED BY <3>1, <3>3, <3>4, <3>5
    <2> QED BY <2>1, <2>2
  <1>3. \A u \in Threads : CallCount(u)'
    BY <1>0, <1>1, <1>2, IterationCounts
  <1>4. FirstLinkOnly'
    <2> SUFFICES ASSUME SingleLinks, NEW p \in Ops, chain'[p] # <<>>
                 PROVE  MdocHead(chain'[p]).link \in FirstLinks
      BY DEF FirstLinkOnly
    <2> QED BY <1>2 DEF CountInv, FirstLinkOnly, OthersSame, SameOp, Iterated
  <1>5. \A u \in Threads : Asked(u)'
    BY <1>2 DEF CountInv, Asked, Iterated
  <1> QED BY <1>3, <1>4, <1>5 DEF CountInv

(* PollCall, PassEnd, Tick and Collect, which leave chains and entries     *)
(* alone and concern one thread.                                           *)
LEMMA CallCounts ==
    ASSUME PollInv, CountInv, NEW t \in Threads, chain' = chain, mp_retstate' = mp_retstate,
           \A u \in Threads \ {t} : SameCall(u), CallCount(t)', Asked(t)'
    PROVE  CountInv'
  <1>1. FirstLinkOnly'
    BY DEF CountInv, FirstLinkOnly
  <1>2. \A u \in Threads : CallCount(u)'
    BY SameCallCount DEF CountInv
  <1>3. \A u \in Threads : Asked(u)'
    BY DEF CountInv, Asked, SameCall
  <1> QED BY <1>1, <1>2, <1>3 DEF CountInv


(* A call begins with nothing counted.                                     *)
LEMMA PollCallCounts ==
    ASSUME PollInv, CountInv, NEW t \in Threads, NEW s \in PollArrays, NEW to \in Timeouts,
           PollCall(t, s, to)
    PROVE  CountInv'
  <1>0. PollTypeOK
    BY PollAt
  <1>1. /\ chain' = chain /\ mp_retstate' = mp_retstate /\ ops'[t] = s /\ s # <<>>
    BY PollCallInv DEF opvars
  <1>2. PICK n \in 1..MaxPollOps : s \in [1..n -> Ops]
    BY DEF PollArrays
  <1>3. s \in Seq(Ops) /\ Len(s) \in Nat /\ DOMAIN s = 1..Len(s)
    BY <1>2, PollAssumption
  <1>4. /\ pc'[t] = "loop" /\ idx'[t] = 1 /\ nr_done'[t] = 0 /\ timeout'[t] = to /\ asked'[t] = to
        /\ \A u \in Threads \ {t} : SameCall(u)
    BY <1>0, <1>1 DEF PollCall, PollTypeOK, SameCall
  <1>5. CallCount(t)'
    <2>1. /\ 1 <= Len(s) + 1 /\ 0 = 1 - 1 /\ ~(1 > 1) /\ \A i \in DOMAIN s : ~(i < 1)
      BY <1>3
    <2> QED BY <1>1, <1>4, <2>1 DEF CallCount
  <1> QED BY <1>1, <1>4, <1>5, CallCounts DEF Asked

(* A pass with MIO_TIME_NEVER is the last when all ops are counted; the    *)
(* clock does not matter.                                                  *)
LEMMA PassEndCounts ==
    ASSUME PollInv, CountInv, NEW t \in Threads, PassEnd(t) \/ Tick(t)
    PROVE  CountInv'
  <1>0. PollTypeOK /\ CallCount(t) /\ Asked(t) /\ ops[t] \in Seq(Ops) /\ PollArray(t)
        /\ idx[t] \in Nat /\ nr_done[t] \in Nat
    BY PollAt DEF CountInv
  <1>1. /\ chain' = chain /\ mp_retstate' = mp_retstate
    BY PassEndInv DEF opvars
  <1>2. /\ pc[t] = "loop" /\ ops' = ops /\ nr_done' = nr_done /\ asked' = asked
        /\ \A u \in Threads \ {t} : SameCall(u)
    BY <1>0, <1>1 DEF PassEnd, Tick, PollTypeOK, SameCall
  <1>3. Asked(t)'
    BY <1>0, <1>2 DEF Asked
  <1>4. CallCount(t)'
    <2> SUFFICES ASSUME asked[t] = Never PROVE CallCount(t)'
      BY <1>2 DEF CallCount
    <2> DEFINE n == Len(ops[t])
    <2>1. /\ timeout[t] = Never /\ n \in Nat /\ n >= 1 /\ n <= MaxPollOps /\ MaxPollOps \in Nat
          /\ \A i \in DOMAIN ops[t] : i \in Nat /\ i >= 1
      BY <1>0, <1>2, PollAssumption DEF CallCount, PollArray
    <2>2. PassEnd(t)
      BY <2>1 DEF Tick
    <2>3. idx[t] = n + 1
      BY <1>0, <1>2, <2>1, <2>2 DEF CallCount, PassEnd
    <2>4. CASE Again(t)
      <3>1. /\ nr_done[t] # n /\ idx'[t] = 1 /\ timeout'[t] = Never /\ pc' = pc
        BY <1>0, <2>1, <2>2, <2>4 DEF PassEnd, Again, PollTypeOK
      <3>2. ~SingleLinks
        BY <1>0, <1>2, <2>1, <2>3, <3>1 DEF CallCount
      <3>3. MaxPollOps = 1 => nr_done[t] = 0
        BY <1>0, <1>2, <2>1, <2>3, <3>1 DEF CallCount
      <3>4. 1 <= n + 1 /\ ~(1 > 1)
        BY <2>1
      <3> QED BY <1>1, <1>2, <3>1, <3>2, <3>3, <3>4 DEF CallCount
    <2>5. CASE ~Again(t)
      <3>1. nr_done[t] = n /\ idx' = idx /\ timeout' = timeout
        BY <2>1, <2>2, <2>5 DEF PassEnd, Again
      <3> QED BY <1>0, <1>1, <1>2, <3>1 DEF CallCount
    <2> QED BY <2>4, <2>5
  <1> QED BY <1>1, <1>2, <1>3, <1>4, CallCounts

(* Every step of PollNext preserves CountInv.                              *)
LEMMA CountNextInv == PollInv /\ CountInv /\ [PollNext]_vars => CountInv'
  <1> SUFFICES ASSUME PollInv, CountInv, [PollNext]_vars PROVE CountInv'
    OBVIOUS
  <1>1. CASE UNCHANGED vars
    <2>1. chain' = chain /\ UNCHANGED pollvars
      BY <1>1 DEF vars, opvars
    <2>2. \A u \in Threads : SameCall(u)
      BY <2>1 DEF SameCall, pollvars
    <2>3. \A u \in Threads : CallCount(u)'
      BY <2>2, SameCallCount DEF CountInv
    <2> QED BY <2>1, <2>3 DEF pollvars, CountInv, FirstLinkOnly, Asked
  <1>2. ASSUME NEW o \in Ops, NEW l \in FirstLinks, NEW cbs \in Cbs, PollLaunch(o, l, cbs)
        PROVE  CountInv'
    <2>1. OthersSame(o) /\ MdocHead(chain'[o]).link = l /\ UNCHANGED pollvars
      BY <1>2, PollLaunchInv, PollAssumption DEF PollLaunch
    <2> QED BY <2>1, OutsideCounts
  <1>3. ASSUME NEW o \in Ops, PollMotr(o) PROVE CountInv'
    <2>1. /\ OthersSame(o) /\ chain[o] # <<>> /\ UNCHANGED pollvars
          /\ MdocHead(chain'[o]).link = MdocHead(chain[o]).link
      BY <1>3, PollMotrInv
    <2> QED BY <2>1, NoNext, OutsideCounts
  <1>4. ASSUME NEW o \in Ops, PollCbComplete(o) PROVE CountInv'
    <2>1. /\ OthersSame(o) /\ chain[o] # <<>> /\ UNCHANGED pollvars
          /\ \/ MdocHead(chain'[o]).link = MdocHead(chain[o]).link
             \/ MdocHead(chain'[o]).link \in PpTable[MdocHead(chain[o]).link] \cap Links
      BY <1>4, PollCompleteInv
    <2> QED BY <2>1, NoNext, OutsideCounts
  <1>5. ASSUME NEW o \in Ops, PollCbFailed(o) PROVE CountInv'
    <2>1. OthersSame(o) /\ chain[o] # <<>> /\ chain' = chain /\ UNCHANGED pollvars
      BY <1>5, PollFailedInv
    <2> QED BY <2>1, NoNext, OutsideCounts
  <1>6. ASSUME NEW o \in Ops, PollFini(o) PROVE CountInv'
    BY <1>6, PollFiniInv, OutsideCounts
  <1>7. ASSUME NEW t \in Threads, Collect(t) PROVE CountInv'
    <2>1. /\ chain' = chain /\ mp_retstate' = mp_retstate /\ pc'[t] = "idle" /\ PollTypeOK
          /\ \A u \in Threads \ {t} : pc'[u] = pc[u]
      BY <1>7, CollectInv, PollAt
    <2>2. Reset(t)
      BY <1>7 DEF Collect
    <2>3. \A u \in Threads \ {t} : SameCall(u)
      BY <2>1, <2>2 DEF Reset, SameCall, PollTypeOK
    <2>4. CallCount(t)' /\ Asked(t)'
      BY <2>1 DEF CallCount, Asked
    <2> QED BY <2>1, <2>3, <2>4, CallCounts
  <1>8. ASSUME NEW t \in Threads, PollStep(t) PROVE CountInv'
    BY <1>7, <1>8, WaitCounts, PassEndCounts DEF PollStep
  <1>9. CASE PollNext
    BY <1>1, <1>2, <1>3, <1>4, <1>5, <1>6, <1>8, <1>9, PollCallCounts, PassEndCounts
       DEF PollNext, Halted
  <1> QED BY <1>1, <1>9

(* A call with MIO_TIME_NEVER counts the ops that are done, for one op, or *)
(* for ops of one link.                                                    *)
LEMMA CountInvariance == PollSpec => []CountInv
  <1>1. PollInit => CountInv
    BY DEF PollInit, Init, CountInv, FirstLinkOnly, CallCount, Asked
  <1> QED BY <1>1, CountNextInv, PollInvariance, PTL DEF PollSpec

(* A call with MIO_TIME_NEVER that returns has counted and seen done all   *)
(* the ops of its array.                                                   *)
LEMMA AllCounted ==
    ASSUME MaxPollOps = 1 \/ SingleLinks, PollInv, CountInv,
           NEW t \in Threads, Returned(t), asked[t] = Never
    PROVE  /\ nr_done[t] = Len(ops[t])
           /\ PollDone(t) = DOMAIN ops[t]
           /\ DOMAIN ops[t] = 1..Len(ops[t]) /\ Len(ops[t]) \in Nat
  <1> DEFINE n == Len(ops[t])
  <1>1. /\ ops[t] \in Seq(Ops) /\ idx[t] \in Nat /\ PollArray(t) /\ CallCount(t)
        /\ pc[t] = "ret" /\ MaxPollOps \in Nat
    BY PollAt, PollAssumption DEF CountInv, Returned
  <1>2. n \in Nat /\ n >= 1 /\ n <= MaxPollOps /\ DOMAIN ops[t] = 1..n /\ idx[t] > n
    BY <1>1 DEF PollArray
  <1>3. nr_done[t] = n
    BY <1>1 DEF CallCount
  <1>4. ASSUME NEW i \in DOMAIN ops[t] PROVE mp_retstate[ops[t][i]] # "ONFLY"
    <2>0. i \in Nat /\ i >= 1 /\ i <= n /\ n \in Nat /\ idx[t] \in Nat /\ idx[t] > n
      BY <1>1, <1>2
    <2> HIDE DEF n
    <2>1. CASE SingleLinks
      BY <1>1, <2>0, <2>1 DEF CallCount
    <2>2. CASE MaxPollOps = 1
      <3>1. n = 1 /\ i = 1 /\ idx[t] > 1
        BY <1>2, <2>0, <2>2
      <3> QED BY <1>1, <1>3, <2>2, <3>1 DEF CallCount
    <2> QED BY <2>1, <2>2
  <1> QED BY <1>2, <1>3, <1>4 DEF PollDone

(* mio_op_poll with MIO_TIME_NEVER returns with all its ops done, and      *)
(* their number, when it is called for one op, or for ops whose            *)
(* post-processing ends them.                                              *)
THEOREM PollsAll ==
    ASSUME MaxPollOps = 1 \/ SingleLinks
    PROVE  PollSpec => []PollAll
  <1>1. PollInv /\ CountInv => PollAll
    BY AllCounted DEF PollAll
  <1> QED BY <1>1, PollInvariance, CountInvariance, PTL

(* Under the same condition, and when no call has a timeout, what          *)
(* mio_op_poll returns is the number of ops that are done.                 *)
THEOREM PollCounts ==
    ASSUME MaxPollOps = 1 \/ SingleLinks, Timeouts \subseteq {Never}
    PROVE  PollSpec => []PollCount
  <1>1. PollInv /\ CountInv => PollCount
    <2> SUFFICES ASSUME PollInv, CountInv, NEW t \in Threads, Returned(t)
                 PROVE  nr_done[t] = Cardinality(PollDone(t))
      BY DEF PollCount
    <2>1. asked[t] = Never
      BY DEF CountInv, Asked, Returned
    <2>2. /\ nr_done[t] = Len(ops[t]) /\ PollDone(t) = 1..Len(ops[t]) /\ Len(ops[t]) \in Nat
      BY <2>1, AllCounted
    <2>3. Cardinality(1..Len(ops[t])) = Len(ops[t])
      BY <2>2, FS_Interval
    <2> QED BY <2>2, <2>3
  <1> QED BY <1>1, PollInvariance, CountInvariance, PTL


(***************************************************************************)
(* Refinement: polled operations implement AsyncOp.                        *)
(***************************************************************************)
pollStatus == [o \in Ops |-> PollStatus(o)]

(* What PollStatus is, phase by phase.                                     *)
LEMMA PollStatusIs ==
    ASSUME NEW o \in Ops
    PROVE  /\ phase[o] = "idle" => PollStatus(o) = "idle"
           /\ phase[o] = "launched" => PollStatus(o) = "onfly"
           /\ phase[o] = "done" => PollStatus(o) \in {"completed", "failed"}
  BY DEF PollStatus, AsyncStatus

(* Work of an op goes on exactly while its head is in flight, and never    *)
(* once the op is done.                                                    *)
LEMMA PollBusy == ~WaitErrors /\ PollInv => BusyIsInFlight
  <1> SUFFICES ASSUME ~WaitErrors, PollInv, NEW o \in Ops
               PROVE  /\ phase[o] \in {"idle", "done"} => Settled(o)
                      /\ phase[o] = "launched" => (Settled(o) <=> ~InFlight(o))
    BY DEF BusyIsInFlight
  <1>1. chain[o] \in Seq(DriverOp) /\ PollOp(o)
    BY PollAt
  <1>2. CASE phase[o] = "idle"
    BY <1>1, <1>2 DEF PollOp, Settled
  <1>3. CASE phase[o] # "idle"
    <2>1. chain[o] # <<>> /\ BehindHead(o) /\ (phase[o] = "done" => ~InFlight(o))
      BY <1>1, <1>3 DEF PollOp
    <2> QED BY <1>1, <1>3, <2>1, ProcessedByHead
  <1> QED BY <1>2, <1>3

(* A step on one op changes the abstract state of that op only.            *)
LEMMA PollAbstractStep ==
    ASSUME NEW o \in Ops, OthersSame(o), EntriesKept(o)
    PROVE  /\ pollStatus' = [pollStatus EXCEPT ![o] = PollStatus(o)']
           /\ absBusy'    = [absBusy    EXCEPT ![o] = (~Settled(o))']
  <1>1. ASSUME NEW p \in Ops, p # o
        PROVE  PollStatus(p)' = PollStatus(p)
    BY <1>1 DEF OthersSame, SameOp, EntriesKept, PollStatus, AsyncStatus
  <1>2. pollStatus' = [p \in Ops |-> PollStatus(p)']
    BY DEF pollStatus
  <1> QED BY <1>1, <1>2, AbstractStep DEF pollStatus

(* The steps of AsyncOp, in terms of the phase and the head of one op.     *)
LEMMA PollOneOp ==
    ASSUME NEW o \in Ops, OthersSame(o), EntriesKept(o), BusyIsInFlight, BusyIsInFlight'
    PROVE  /\ (phase[o] = "idle" /\ phase'[o] = "launched" /\ InFlight(o)') => PollAbstract!Next
           /\ (phase[o] = "launched" /\ phase'[o] = "launched" /\ InFlight(o) /\ ~InFlight(o)')
                => PollAbstract!Next
           /\ (phase[o] = "launched" /\ phase'[o] = "launched" /\ ~InFlight(o) /\ InFlight(o)')
                => PollAbstract!Next
           /\ (phase[o] = "launched" /\ phase'[o] = "launched" /\ (InFlight(o) <=> InFlight(o)'))
                => UNCHANGED PollAbstract!vars
           /\ (phase[o] = "launched" /\ ~InFlight(o) /\ phase'[o] = "done") => PollAbstract!Next
           /\ (phase[o] = "done" /\ phase'[o] = "idle") => PollAbstract!Next
  <1>1. /\ pollStatus' = [pollStatus EXCEPT ![o] = PollStatus(o)']
        /\ absBusy'    = [absBusy    EXCEPT ![o] = (~Settled(o))']
    BY PollAbstractStep
  <1>2. /\ phase'[o] = "idle" => PollStatus(o)' = "idle"
        /\ phase'[o] = "launched" => PollStatus(o)' = "onfly"
        /\ phase'[o] = "done" => PollStatus(o)' \in {"completed", "failed"}
    BY DEF PollStatus, AsyncStatus
  <1>3. /\ phase[o] \in {"idle", "done"} => Settled(o)
        /\ phase[o] = "launched" => (Settled(o) <=> ~InFlight(o))
    BY DEF BusyIsInFlight
  <1>4. /\ phase'[o] \in {"idle", "done"} => Settled(o)'
        /\ phase'[o] = "launched" => (Settled(o)' <=> ~InFlight(o)')
    BY DEF BusyIsInFlight
  <1>5. ASSUME phase[o] = "idle", phase'[o] = "launched", InFlight(o)' PROVE PollAbstract!Next
    <2>1. PollAbstract!Launch(o)
      BY <1>1, <1>2, <1>4, <1>5, PollStatusIs DEF PollAbstract!Launch, pollStatus, absBusy
    <2> QED BY <2>1 DEF PollAbstract!Next
  <1>6. ASSUME phase[o] = "launched", phase'[o] = "launched", InFlight(o), ~InFlight(o)'
        PROVE  PollAbstract!Next
    <2>1. PollAbstract!Settle(o)
      BY <1>1, <1>2, <1>3, <1>4, <1>6, PollStatusIs DEF PollAbstract!Settle, pollStatus, absBusy
    <2> QED BY <2>1 DEF PollAbstract!Next
  <1>7. ASSUME phase[o] = "launched", phase'[o] = "launched", ~InFlight(o), InFlight(o)'
        PROVE  PollAbstract!Next
    <2>1. PollAbstract!Continue(o)
      BY <1>1, <1>2, <1>3, <1>4, <1>7, PollStatusIs DEF PollAbstract!Continue, pollStatus, absBusy
    <2> QED BY <2>1 DEF PollAbstract!Next
  <1>8. ASSUME phase[o] = "launched", phase'[o] = "launched", InFlight(o) <=> InFlight(o)'
        PROVE  UNCHANGED PollAbstract!vars
    <2>1. pollStatus' = pollStatus /\ absBusy' = absBusy
      BY <1>1, <1>2, <1>3, <1>4, <1>8, PollStatusIs DEF pollStatus, absBusy
    <2> QED BY <2>1 DEF PollAbstract!vars, pollStatus, absBusy
  <1>9. ASSUME phase[o] = "launched", ~InFlight(o), phase'[o] = "done" PROVE PollAbstract!Next
    <2>1. pollStatus[o] = "onfly" /\ ~absBusy[o] /\ absBusy' = absBusy
      BY <1>1, <1>3, <1>4, <1>9, PollStatusIs DEF pollStatus, absBusy
    <2>2. PICK res \in {"completed", "failed"} : res = PollStatus(o)'
      BY <1>2, <1>9
    <2>3. [p \in {o} |-> res] \in [{o} -> {"completed", "failed"}]
      OBVIOUS
    <2>4. pollStatus' = [p \in Ops |-> IF p \in {o} THEN [q \in {o} |-> res][p] ELSE pollStatus[p]]
      BY <1>1, <2>2 DEF pollStatus
    <2>5. PollAbstract!Report({o})
      BY <2>1, <2>3, <2>4 DEF PollAbstract!Report, pollStatus, absBusy
    <2> QED BY <2>5 DEF PollAbstract!Next
  <1>10. ASSUME phase[o] = "done", phase'[o] = "idle" PROVE PollAbstract!Next
    <2>1. PollAbstract!Fini(o)
      BY <1>1, <1>2, <1>3, <1>4, <1>10, PollStatusIs DEF PollAbstract!Fini, pollStatus, absBusy
    <2> QED BY <2>1 DEF PollAbstract!Next
  <1> QED BY <1>5, <1>6, <1>7, <1>8, <1>9, <1>10


(* A call that returns reports the ops that its entries call done.         *)
LEMMA CollectRefines ==
    ASSUME ~WaitErrors, PollInv, NEW t \in Threads, Collect(t), BusyIsInFlight
    PROVE  PollAbstract!Next
  <1> DEFINE S == ReportedBy(t)
             res == [o \in S |-> IF mp_retstate[o] = "COMPLETED" THEN "completed" ELSE "failed"]
  <1>1. /\ chain' = chain /\ has_cbs' = has_cbs /\ mp_retstate' = mp_retstate
        /\ told' = told /\ pc[t] = "ret"
        /\ \A o \in Ops : phase'[o] = IF o \in S THEN "done" ELSE phase[o]
    BY CollectInv
  <1>2. \A o \in S : o \in Ops /\ phase[o] = "launched" /\ ~has_cbs[o] /\ ~InFlight(o)
    BY <1>1, ReportedTrue DEF ReportedBy
  <1>3. \A o \in S : pollStatus[o] = "onfly" /\ ~absBusy[o]
    BY <1>2, PollStatusIs DEF BusyIsInFlight, pollStatus, absBusy
  <1>4. absBusy' = absBusy
    BY <1>1 DEF absBusy, Settled
  <1>5. ASSUME NEW o \in Ops PROVE PollStatus(o)' = IF o \in S THEN res[o] ELSE PollStatus(o)
    <2>1. CASE o \in S
      BY <1>1, <1>2, <2>1 DEF PollStatus
    <2>2. CASE o \notin S
      BY <1>1, <2>2 DEF PollStatus, AsyncStatus
    <2> QED BY <2>1, <2>2
  <1>6. res \in [S -> {"completed", "failed"}]
    OBVIOUS
  <1>7. pollStatus' = [o \in Ops |-> IF o \in S THEN res[o] ELSE pollStatus[o]]
    BY <1>5 DEF pollStatus
  <1> HIDE DEF res
  <1>8. PollAbstract!Report(S)
    BY <1>2, <1>3, <1>4, <1>6, <1>7 DEF PollAbstract!Report, pollStatus, absBusy
  <1>9. S \in SUBSET Ops
    BY <1>2
  <1> QED BY <1>8, <1>9 DEF PollAbstract!Next

(* Every step of MioPoll is a step of AsyncOp, or changes nothing there.   *)
LEMMA PollStepRefines ==
    ~WaitErrors /\ PollInv /\ [PollNext]_vars => [PollAbstract!Next]_(PollAbstract!vars)
  <1> SUFFICES ASSUME ~WaitErrors, PollInv, [PollNext]_vars
               PROVE  [PollAbstract!Next]_(PollAbstract!vars)
    OBVIOUS
  <1>1. PollInv' /\ BusyIsInFlight
    BY PollNextInv, PollBusy
  <1>2. BusyIsInFlight'
    <2>1. (~WaitErrors /\ PollInv => BusyIsInFlight)'
      BY PollBusy, PTL
    <2> QED BY <1>1, <2>1
  <1>3. ASSUME UNCHANGED opvars, mp_retstate' = mp_retstate PROVE UNCHANGED PollAbstract!vars
    BY <1>3 DEF opvars, PollAbstract!vars, PollStatus, AsyncStatus, Settled
  <1>4. ASSUME NEW o \in Ops, NEW l \in FirstLinks, NEW cbs \in Cbs, PollLaunch(o, l, cbs)
        PROVE  PollAbstract!Next
    <2>1. /\ OthersSame(o) /\ phase[o] = "idle" /\ phase'[o] = "launched" /\ InFlight(o)'
          /\ EntriesKept(o)
      BY <1>4, PollLaunchInv, PollAssumption DEF PollLaunch, pollvars, EntriesKept
    <2> QED BY <1>1, <1>2, <2>1, PollOneOp
  <1>5. ASSUME NEW o \in Ops, PollMotr(o) PROVE PollAbstract!Next
    <2>1. /\ OthersSame(o) /\ EntriesKept(o) /\ phase' = phase /\ has_cbs' = has_cbs
          /\ InFlight(o) /\ ~InFlight(o)' /\ chain[o] # <<>>
      BY <1>5, PollMotrInv DEF pollvars, EntriesKept
    <2>2. phase[o] = "launched"
      BY <2>1, PollAt DEF PollOp, TypeOK
    <2> QED BY <1>1, <1>2, <2>1, <2>2, PollOneOp
  <1>6. ASSUME NEW o \in Ops, PollCbComplete(o) PROVE PollAbstract!Next
    <2>1. /\ OthersSame(o) /\ EntriesKept(o) /\ phase[o] = "launched" /\ ~InFlight(o)
          /\ phase'[o] = "done" \/ (phase'[o] = "launched" /\ InFlight(o)')
      BY <1>6, PollCompleteInv DEF pollvars, EntriesKept
    <2> QED BY <1>1, <1>2, <2>1, PollOneOp
  <1>7. ASSUME NEW o \in Ops, PollCbFailed(o) PROVE PollAbstract!Next
    <2>1. /\ OthersSame(o) /\ EntriesKept(o) /\ phase[o] = "launched" /\ ~InFlight(o)
          /\ phase'[o] = "done"
      BY <1>7, PollFailedInv DEF pollvars, EntriesKept
    <2> QED BY <1>1, <1>2, <2>1, PollOneOp
  <1>8. ASSUME NEW o \in Ops, PollFini(o) PROVE PollAbstract!Next
    <2>1. OthersSame(o) /\ EntriesKept(o) /\ phase[o] = "done" /\ phase'[o] = "idle"
      BY <1>8, PollFiniInv DEF pollvars, EntriesKept
    <2> QED BY <1>1, <1>2, <2>1, PollOneOp
  <1>9. ASSUME NEW t \in Threads, WaitCompleted(t) \/ WaitFailed(t) \/ WaitTimedOut(t) \/ WaitError(t)
        PROVE  [PollAbstract!Next]_(PollAbstract!vars)
    <2>1. PICK o \in Ops : o = Op(t)
      BY <1>9, PassAt DEF WaitCompleted, WaitFailed, WaitTimedOut, WaitError
    <2>2. CASE WaitCompleted(t)
      <3>1. Iterated(t, o) /\ ~InFlight(o) /\ InFlight(o)' \in BOOLEAN
        BY <2>1, <2>2, WaitCompletedInv DEF InFlight
      <3>2. OthersSame(o) /\ EntriesKept(o) /\ phase[o] = "launched" /\ phase'[o] = "launched"
        BY <3>1 DEF Iterated
      <3> QED BY <1>1, <1>2, <3>1, <3>2, PollOneOp
    <2>3. CASE WaitFailed(t) \/ WaitTimedOut(t) \/ WaitError(t)
      <3>1. Iterated(t, o) /\ chain' = chain
        BY <2>1, <2>3, WaitOtherInv
      <3>2. /\ OthersSame(o) /\ EntriesKept(o) /\ phase[o] = "launched" /\ phase'[o] = "launched"
            /\ InFlight(o) <=> InFlight(o)'
        BY <3>1 DEF Iterated, InFlight
      <3> QED BY <1>1, <1>2, <3>2, PollOneOp
    <2> QED BY <1>9, <2>2, <2>3
  <1>10. ASSUME NEW t \in Threads, PollStep(t) \/ Tick(t)
         PROVE  [PollAbstract!Next]_(PollAbstract!vars)
    BY <1>1, <1>3, <1>9, <1>10, PassEndInv, CollectRefines DEF PollStep
  <1>11. ASSUME NEW t \in Threads, NEW s \in PollArrays, NEW to \in Timeouts, PollCall(t, s, to)
         PROVE  UNCHANGED PollAbstract!vars
    BY <1>3, <1>11, PollCallInv
  <1>12. CASE UNCHANGED vars
    BY <1>3, <1>12 DEF vars, pollvars
  <1>13. CASE PollNext
    BY <1>4, <1>5, <1>6, <1>7, <1>8, <1>10, <1>11, <1>12, <1>13 DEF PollNext, Halted
  <1> QED BY <1>12, <1>13

(* Operations that are polled, with callbacks or without, with any         *)
(* timeouts and in any number per call, are single operations of AsyncOp,  *)
(* unless m0_op_wait itself fails.                                         *)
THEOREM PollRefinement ==
    ASSUME ~WaitErrors
    PROVE  PollSpec => PollImplementsAsyncOp
  <1>1. PollInit => PollAbstract!Init
    <2> SUFFICES ASSUME PollInit PROVE PollAbstract!Init
      OBVIOUS
    <2>1. \A o \in Ops : phase[o] = "idle"
      BY DEF PollInit, Init
    <2>2. \A o \in Ops : PollStatus(o) = "idle"
      BY <2>1, PollStatusIs
    <2>3. \A o \in Ops : Settled(o)
      BY <2>1, PollInitInv, PollBusy DEF BusyIsInFlight
    <2> QED BY <2>2, <2>3 DEF PollAbstract!Init
  <1>2. PollInv /\ [PollNext]_vars => [PollAbstract!Next]_(PollAbstract!vars)
    BY PollStepRefines
  <1> QED BY <1>1, <1>2, PollInvariance, PTL DEF PollSpec, PollImplementsAsyncOp, PollAbstract!Spec

=============================================================================
