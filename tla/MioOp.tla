-------------------------------- MODULE MioOp --------------------------------
(***************************************************************************)
(* The operation core of MIO (mio.c, mio_driver.c, driver_motr.c).         *)
(*                                                                         *)
(* A MIO operation is carried out by a chain of driver operations.  Each   *)
(* link of the chain wraps one Motr operation; when that is stable the     *)
(* link's post-processing function either ends the operation (FINAL),      *)
(* fails (a negative return code), or adds a further link at the head of   *)
(* the chain and launches it (NEXT).                                       *)
(*                                                                         *)
(* This module has the chain, the Motr operations (external), the          *)
(* post-processing step, and the way an application that has set callbacks *)
(* is told of the end of its operations.  MioPoll adds mio_op_poll.        *)
(***************************************************************************)
EXTENDS Naturals, Sequences

CONSTANTS
    Ops,          (* the application's operations (struct mio_op)          *)
    Links,        (* the kinds of driver operation                         *)
    FirstLinks,   (* the kinds a MIO call can start an operation with      *)
    PpTable,      (* what the post-processing of each kind can return      *)
    MaxLinks      (* bound: links in a chain                               *)

FINAL == "FINAL"  (* MIO_DRV_OP_FINAL                                      *)
ERR   == "ERR"    (* a negative return code                                *)

(***************************************************************************)
(* PpTable[l] = {} is a link without post-processing; a link kind k in     *)
(* PpTable[l] stands for "launches a link k and returns MIO_DRV_OP_NEXT".  *)
(* A step that can launch a link can also fail to: it allocates memory.    *)
(***************************************************************************)
ASSUME LinksAssumption ==
    /\ FINAL \notin Links /\ ERR \notin Links
    /\ FirstLinks \subseteq Links
    /\ PpTable \in [Links -> SUBSET (Links \cup {FINAL, ERR})]
    /\ \A l \in Links : PpTable[l] \cap Links # {} => ERR \in PpTable[l]
    /\ MaxLinks \in Nat \ {0}

VARIABLES
    phase,        (* the application's view of an op: idle, launched, done *)
    has_cbs,      (* are both application callbacks set (mop_app_cbs)?     *)
    chain,        (* mop_drv_op_chain, oldest link first; mdoc_head last   *)
    cb_due,       (* the Motr callback that Motr has yet to make           *)
    mop_rc,       (* mop_rc: "ok" for 0, "err" for any negative code       *)
    reports,      (* history: number of application callbacks made         *)
    told,         (* history: which callback was the last                  *)
    pp_failed     (* history: a post-processing step of the op failed      *)

opvars == <<phase, has_cbs, chain, cb_due, mop_rc, reports, told, pp_failed>>

(* Counters of history variables stop here: two is already one too many.   *)
MaxCount == 2

DriverOp == [link  : Links,
             st    : {"launched", "stable", "failed"},
             nr_pp : 0..MaxCount]   (* history: times post-processed       *)

Count(n) == IF n < MaxCount THEN n + 1 ELSE n

(* mdoc_head of a chain.                                                   *)
MdocHead(c) == c[Len(c)]

TypeOK ==
    /\ phase     \in [Ops -> {"idle", "launched", "done"}]
    /\ has_cbs   \in [Ops -> BOOLEAN]
    /\ chain     \in [Ops -> Seq(DriverOp)]
    /\ cb_due    \in [Ops -> {"none", "stable", "failed"}]
    /\ mop_rc    \in [Ops -> {"ok", "err"}]
    /\ reports   \in [Ops -> 0..MaxCount]
    /\ told      \in [Ops -> {"none", "complete", "failed"}]
    /\ pp_failed \in [Ops -> BOOLEAN]

(***************************************************************************)
(* The chain of driver operations.                                         *)
(***************************************************************************)
(* Variant: m0_op_launch is forgotten.                                     *)
NotLaunched(l) == [link |-> l, st |-> "initialised", nr_pp |-> 0]

(* mio_motr_op_set_cbs is part of it: Motr calls back for every link.      *)
NewDriverOp(l) == [link |-> l, st |-> "launched", nr_pp |-> 0]

(* Variant: the new link goes to the far end of the list.                  *)
AddAtTail(c, l) == <<NewDriverOp(l)>> \o c

(* mio_driver_op_add and the m0_op_launch that follows it.                 *)
mio_driver_op_add(c, l) == Append(c, NewDriverOp(l))

HasPostProc(c) == PpTable[MdocHead(c).link] # {}

(* What the post-processing of the head may return; MaxLinks bounds NEXT.  *)
PpReturns(c) ==
    {r \in PpTable[MdocHead(c).link] : r \in Links => Len(c) < MaxLinks}

(* The chain once mdo_post_proc of its head has run and returned r.        *)
PostProcessed(c, r) ==
    LET c1 == [c EXCEPT ![Len(c)].nr_pp = Count(@)]
    IN  IF r \in Links THEN mio_driver_op_add(c1, r) ELSE c1

(***************************************************************************)
(* The application launches an operation: mio_op_init, possibly            *)
(* mio_op_callbacks_set, and one of the calls of mio.h.  A call whose      *)
(* driver function returns an error adds no link: the op stays idle.       *)
(***************************************************************************)
Launch(o, l, cbs) ==
    /\ phase[o] = "idle"
    /\ phase'     = [phase     EXCEPT ![o] = "launched"]
    /\ has_cbs'   = [has_cbs   EXCEPT ![o] = cbs]
    /\ chain'     = [chain     EXCEPT ![o] = mio_driver_op_add(<<>>, l)]
    /\ mop_rc'    = [mop_rc    EXCEPT ![o] = "ok"]
    /\ UNCHANGED <<cb_due, reports, told, pp_failed>>

(***************************************************************************)
(* External: a launched Motr operation ends, in M0_OS_STABLE or            *)
(* M0_OS_FAILED.  Motr calls oop_stable or oop_failed, once, later.        *)
(***************************************************************************)
MotrSettle(o, s) ==
    /\ \E i \in DOMAIN chain[o] :
         /\ chain[o][i].st = "launched"
         /\ chain' = [chain EXCEPT ![o][i].st = s]
    /\ cb_due' = [cb_due EXCEPT ![o] = IF has_cbs[o] THEN s ELSE "none"]
    /\ UNCHANGED <<phase, has_cbs, mop_rc, reports, told, pp_failed>>

(***************************************************************************)
(* Callbacks.                                                              *)
(***************************************************************************)
mio_driver_op_invoke_real_cb(o, rc) ==
    /\ mop_rc'  = [mop_rc  EXCEPT ![o] = rc]
    /\ told'    = [told    EXCEPT ![o] = IF rc = "ok" THEN "complete" ELSE "failed"]
    /\ reports' = [reports EXCEPT ![o] = Count(@)]
    /\ phase'   = [phase   EXCEPT ![o] = "done"]

NoRealCb == UNCHANGED <<mop_rc, told, reports, phase>>

(* Variants: no return after MIO_DRV_OP_NEXT; an error ends in silence.    *)
AlwaysRealCb(r) == TRUE
RealCbOnFinal(r) == r = FINAL

(* Does motr_op_cb_complete go on to the application's callback?           *)
RealCbAfter(r) == r \notin Links

(***************************************************************************)
(* motr_op_cb_complete: the head's post-processing, if any, and then the   *)
(* application's callback unless a further link was launched.              *)
(***************************************************************************)
motr_op_cb_complete(o) ==
    /\ cb_due[o] = "stable"
    /\ cb_due' = [cb_due EXCEPT ![o] = "none"]
    /\ \/ /\ HasPostProc(chain[o])
          /\ \E r \in PpReturns(chain[o]) :
               /\ chain' = [chain EXCEPT ![o] = PostProcessed(@, r)]
               /\ pp_failed' = [pp_failed EXCEPT ![o] = (r = ERR)]
               /\ IF RealCbAfter(r) THEN mio_driver_op_invoke_real_cb(o, "ok")
                                    ELSE NoRealCb
       \/ /\ ~HasPostProc(chain[o])
          /\ mio_driver_op_invoke_real_cb(o, "ok")
          /\ UNCHANGED <<chain, pp_failed>>
    /\ UNCHANGED has_cbs

(* Variant: the failure of a Motr operation is relayed with rc 0.          *)
CbFailedRcLost(o) ==
    /\ cb_due[o] = "failed"
    /\ cb_due' = [cb_due EXCEPT ![o] = "none"]
    /\ mio_driver_op_invoke_real_cb(o, "ok")
    /\ UNCHANGED <<chain, has_cbs, pp_failed>>

motr_op_cb_failed(o) ==
    /\ cb_due[o] = "failed"
    /\ cb_due' = [cb_due EXCEPT ![o] = "none"]
    /\ mio_driver_op_invoke_real_cb(o, "err")
    /\ UNCHANGED <<chain, has_cbs, pp_failed>>

(***************************************************************************)
(* mio_op_fini, once the application knows that the op is done: every      *)
(* link of the chain is unlinked, its Motr operation finalised and freed.  *)
(***************************************************************************)
mio_op_fini(o) ==
    /\ phase[o] = "done"
    /\ phase'     = [phase     EXCEPT ![o] = "idle"]
    /\ chain'     = [chain     EXCEPT ![o] = <<>>]
    /\ reports'   = [reports   EXCEPT ![o] = 0]
    /\ told'      = [told      EXCEPT ![o] = "none"]
    /\ pp_failed' = [pp_failed EXCEPT ![o] = FALSE]
    /\ UNCHANGED <<has_cbs, cb_due, mop_rc>>

------------------------------------------------------------------------------
Init ==
    /\ phase     = [o \in Ops |-> "idle"]
    /\ has_cbs   = [o \in Ops |-> FALSE]
    /\ chain     = [o \in Ops |-> <<>>]
    /\ cb_due    = [o \in Ops |-> "none"]
    /\ mop_rc    = [o \in Ops |-> "ok"]
    /\ reports   = [o \in Ops |-> 0]
    /\ told      = [o \in Ops |-> "none"]
    /\ pp_failed = [o \in Ops |-> FALSE]

Next == \E o \in Ops :
    \/ \E l \in FirstLinks : Launch(o, l, TRUE)
    \/ \E s \in {"stable", "failed"} : MotrSettle(o, s)
    \/ motr_op_cb_complete(o)
    \/ motr_op_cb_failed(o)
    \/ mio_op_fini(o)

(* Motr ends every operation that was launched and makes its callbacks.    *)
Fairness == \A o \in Ops :
    /\ WF_opvars(\E s \in {"stable", "failed"} : MotrSettle(o, s))
    /\ WF_opvars(motr_op_cb_complete(o))
    /\ WF_opvars(motr_op_cb_failed(o))

(* An application whose operations all have callbacks.                     *)
Spec == Init /\ [][Next]_opvars

FairSpec == Spec /\ Fairness

------------------------------------------------------------------------------
(* Every link but the head is stable and was post-processed exactly once:  *)
(* mio_driver_op_add only ever runs in the post-processing of a stable     *)
(* head, so at most one Motr operation of an op is in flight.              *)
ChainSerial == \A o \in Ops : \A i \in 1 .. Len(chain[o]) - 1 :
    chain[o][i].st = "stable" /\ chain[o][i].nr_pp = 1

(* No link is post-processed twice: post-processing frees its arguments    *)
(* (mio_internal.h: "to avoid double entries to the post processing        *)
(* action").                                                               *)
PostProcOnce == \A o \in Ops : \A i \in DOMAIN chain[o] : chain[o][i].nr_pp <= 1

Settled(o) == \A i \in DOMAIN chain[o] : chain[o][i].st # "launched"

Processed(o) == \A i \in DOMAIN chain[o] :
    /\ chain[o][i].st = "stable"
    /\ PpTable[chain[o][i].link] # {} => chain[o][i].nr_pp >= 1

(* An application callback is made at most once per launch, and then no    *)
(* Motr operation of the op is in flight and no Motr callback is due: the  *)
(* callback may finalise and free the op.                                  *)
ReportOnce == \A o \in Ops :
    /\ reports[o] <= 1
    /\ phase[o] = "done" => Settled(o) /\ cb_due[o] = "none"

(* The complete callback means that every link is stable and was           *)
(* post-processed, the failed callback that the last Motr operation        *)
(* failed, and mop_rc says the same.                                       *)
ReportTruthful == \A o \in Ops : (phase[o] = "done" /\ has_cbs[o]) =>
    /\ told[o] = "complete" <=> Processed(o)
    /\ told[o] = "failed"   <=> MdocHead(chain[o]).st = "failed"
    /\ mop_rc[o] = "ok"     <=> told[o] = "complete"

(* A post-processing step that fails is not reported as a success          *)
(* (mio.h: the failed callback is triggered when "the operation turns into *)
(* FAILED state").                                                         *)
ErrorReported == \A o \in Ops :
    (phase[o] = "done" /\ pp_failed[o]) => told[o] # "complete"

(* Every operation launched with callbacks is eventually reported.         *)
EventuallyReported == \A o \in Ops : phase[o] = "launched" ~> phase[o] = "done"

(***************************************************************************)
(* The inductive invariant behind the properties above: what each phase of *)
(* an operation with callbacks says about its chain and the Motr callback  *)
(* that is due.                                                            *)
(***************************************************************************)
IdleOp(o) == chain[o] = <<>> /\ cb_due[o] = "none" /\ reports[o] = 0

LaunchedOp(o) ==
    /\ chain[o] # <<>> /\ has_cbs[o] /\ reports[o] = 0
    /\ MdocHead(chain[o]).nr_pp = 0
    /\ cb_due[o] = IF MdocHead(chain[o]).st = "launched"
                   THEN "none" ELSE MdocHead(chain[o]).st

DoneOp(o) ==
    /\ chain[o] # <<>> /\ has_cbs[o] /\ reports[o] = 1 /\ cb_due[o] = "none"
    /\ MdocHead(chain[o]).nr_pp <= 1
    /\ \/ /\ told[o] = "complete" /\ mop_rc[o] = "ok"
          /\ MdocHead(chain[o]).st = "stable"
          /\ HasPostProc(chain[o]) => MdocHead(chain[o]).nr_pp = 1
       \/ /\ told[o] = "failed" /\ mop_rc[o] = "err"
          /\ MdocHead(chain[o]).st = "failed"

(* Every op is idle, launched or done, and its chain, its callback and its *)
(* report agree with that: exactly the launched ops have a Motr operation  *)
(* in flight or a Motr callback due (motr_op_cb_complete, _failed).        *)
OpPhases == \A o \in Ops :
    /\ phase[o] = "idle"     => IdleOp(o)
    /\ phase[o] = "launched" => LaunchedOp(o)
    /\ phase[o] = "done"     => DoneOp(o)

(* The inductive invariant: types, serial chains, and phases that agree    *)
(* with chains, callbacks due and reports.                                 *)
OpInv == TypeOK /\ ChainSerial /\ OpPhases

------------------------------------------------------------------------------
(* MIO operations with callbacks implement AsyncOp.                        *)
AsyncStatus(o) == CASE phase[o] = "idle"     -> "idle"
                    [] phase[o] = "launched" -> "onfly"
                    [] OTHER -> IF told[o] = "complete" THEN "completed" ELSE "failed"

Abstract == INSTANCE AsyncOp WITH
    status <- [o \in Ops |-> AsyncStatus(o)],
    busy   <- [o \in Ops |-> ~Settled(o)]

(* Refinement: what the application sees of a chain of driver operations   *)
(* is one operation, reported once, after all of its work has settled.     *)
ImplementsAsyncOp == Abstract!Spec
==============================================================================
