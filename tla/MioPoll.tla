------------------------------- MODULE MioPoll -------------------------------
(***************************************************************************)
(* mio_op_poll (mio.c): application threads wait for operations that have  *)
(* no callbacks.  A pass of the loop waits for each op of the array in     *)
(* turn and runs the post-processing of those that are stable; the array   *)
(* is passed over again until nr_done says that all are done               *)
(* (MIO_TIME_NEVER), or until the time is up.                              *)
(***************************************************************************)
EXTENDS MioOp, FiniteSets

CONSTANTS
    Never,        (* MIO_TIME_NEVER                                        *)
    Threads,      (* application threads                                   *)
    MaxPollOps,   (* bound: ops in one call of mio_op_poll                 *)
    Timeouts,     (* the timeouts used: Never, or numbers of clock ticks   *)
    MaxTicks,     (* bound: the clock of one call; no timeout is longer    *)
    WaitErrors,   (* can m0_op_wait fail with something but -ETIMEDOUT?    *)
    Cbs           (* has_cbs of the ops launched: a subset of BOOLEAN      *)

ASSUME PollAssumption ==
    /\ Never \notin Nat
    /\ MaxPollOps \in Nat \ {0}
    /\ MaxTicks \in Nat
    /\ Timeouts \subseteq (0..MaxTicks \cup {Never})
    /\ WaitErrors \in BOOLEAN
    /\ Cbs \subseteq BOOLEAN

VARIABLES
    pc,           (* idle, loop (in mio_op_poll), ret (returning nr_done)  *)
    ops,          (* the array of ops of the call                          *)
    idx,          (* the loop's i, from 1                                  *)
    nr_done,      (* nr_done                                               *)
    timeout,      (* timeout, which the loop decrements                    *)
    asked,        (* history: the timeout the call was made with           *)
    elapsed,      (* mio_now() - start                                     *)
    waited,       (* ticks since the current m0_op_wait began              *)
    mp_retstate,  (* mp_retstate of the entry of each op                   *)
    aborted       (* assert(rc == MIO_DRV_OP_FINAL) has ended the process  *)

pollvars == <<pc, ops, idx, nr_done, timeout, asked, elapsed, waited,
              mp_retstate, aborted>>

vars == <<opvars, pollvars>>

(* Bound: nr_done stops one above the largest value that can be right.     *)
MaxDone == MaxPollOps + 1

PollTypeOK ==
    /\ TypeOK
    /\ pc          \in [Threads -> {"idle", "loop", "ret"}]
    /\ ops         \in [Threads -> Seq(Ops)]
    /\ idx         \in [Threads -> Nat \ {0}]
    /\ nr_done     \in [Threads -> 0..MaxDone]
    /\ timeout     \in [Threads -> Nat \cup {Never}]
    /\ asked       \in [Threads -> Nat \cup {Never}]
    /\ elapsed     \in [Threads -> 0..MaxTicks]
    /\ waited      \in [Threads -> 0..MaxTicks]
    /\ mp_retstate \in [Ops -> {"ONFLY", "COMPLETED", "FAILED"}]
    /\ aborted     \in BOOLEAN

Polled(o) == \E t \in Threads : pc[t] # "idle" /\ \E i \in DOMAIN ops[t] : ops[t][i] = o

(* The arrays an application may pass: distinct ops it has launched        *)
(* without callbacks and that no other thread is polling.                  *)
PollArrays ==
    {s \in UNION {[1..n -> Ops] : n \in 1..MaxPollOps} :
        /\ \A i, j \in DOMAIN s : i # j => s[i] # s[j]
        /\ \A i \in DOMAIN s : /\ phase[s[i]] = "launched"
                               /\ ~has_cbs[s[i]]
                               /\ ~Polled(s[i])}

PollCall(t, s, to) ==
    /\ ~aborted /\ pc[t] = "idle"
    /\ pc'      = [pc      EXCEPT ![t] = "loop"]
    /\ ops'     = [ops     EXCEPT ![t] = s]
    /\ idx'     = [idx     EXCEPT ![t] = 1]
    /\ nr_done' = [nr_done EXCEPT ![t] = 0]
    /\ timeout' = [timeout EXCEPT ![t] = to]
    /\ asked'   = [asked   EXCEPT ![t] = to]
    /\ elapsed' = [elapsed EXCEPT ![t] = 0]
    /\ waited'  = [waited  EXCEPT ![t] = 0]
    /\ UNCHANGED <<opvars, mp_retstate, aborted>>

(* The op thread t is waiting for.                                         *)
InPass(t) == ~aborted /\ pc[t] = "loop" /\ idx[t] <= Len(ops[t])
Op(t) == ops[t][idx[t]]

(* The end of an iteration: nr_done counts the ops that are done.          *)
Advance(t, done) ==
    /\ idx'     = [idx EXCEPT ![t] = @ + 1]
    /\ nr_done' = [nr_done EXCEPT ![t] = IF done /\ @ < MaxDone THEN @ + 1 ELSE @]
    /\ waited'  = [waited EXCEPT ![t] = 0]
    /\ UNCHANGED <<pc, ops, timeout, asked, elapsed>>

SetState(o, st, rc) ==
    /\ mp_retstate' = [mp_retstate EXCEPT ![o] = st]
    /\ mop_rc' = [mop_rc EXCEPT ![o] = rc]
    /\ UNCHANGED <<phase, has_cbs, cb_due, reports, told>>

(* Variant: an op that has launched a further link is counted as done.     *)
AlwaysDone(r) == TRUE

(* op_done, from what the post-processing of a stable op returned.         *)
OpDone(r) == r \notin Links

(* m0_op_wait and m0_rc say that the Motr operation of the head is stable. *)
HeadStable(t) == MdocHead(chain[Op(t)]).st = "stable"

(***************************************************************************)
(* mopo_wait finds the Motr operation of the head stable: post-processing. *)
(* NEXT leaves the op ONFLY, FINAL makes it done, anything else trips the  *)
(* assert, and what the counters of the ended process hold is immaterial.  *)
(***************************************************************************)
WaitCompleted(t) ==
    /\ InPass(t)
    /\ HeadStable(t)
    /\ \/ /\ HasPostProc(chain[Op(t)])
          /\ \E r \in PpReturns(chain[Op(t)]) :
               /\ chain' = [chain EXCEPT ![Op(t)] = PostProcessed(@, r)]
               /\ pp_failed' = [pp_failed EXCEPT ![Op(t)] = (r = ERR)]
               /\ SetState(Op(t), IF OpDone(r) THEN "COMPLETED" ELSE "ONFLY", "ok")
               /\ Advance(t, OpDone(r))
               /\ aborted' = (r = ERR)
       \/ /\ ~HasPostProc(chain[Op(t)])
          /\ SetState(Op(t), "COMPLETED", "ok")
          /\ Advance(t, TRUE)
          /\ UNCHANGED <<chain, pp_failed, aborted>>

(* Variant: only a completed op counts as done.                            *)
WaitFailedNotDone(t) ==
    /\ InPass(t)
    /\ MdocHead(chain[Op(t)]).st = "failed"
    /\ SetState(Op(t), "FAILED", "err")
    /\ Advance(t, FALSE)
    /\ UNCHANGED <<chain, pp_failed, aborted>>

(* The Motr operation has failed: the op is done, without post-processing. *)
WaitFailed(t) ==
    /\ InPass(t)
    /\ MdocHead(chain[Op(t)]).st = "failed"
    /\ SetState(Op(t), "FAILED", "err")
    /\ Advance(t, TRUE)
    /\ UNCHANGED <<chain, pp_failed, aborted>>

(* Variant: m0_op_wait takes the timeout for one that is already over.     *)
WaitTimedOutAtOnce(t) ==
    /\ InPass(t)
    /\ MdocHead(chain[Op(t)]).st = "launched"
    /\ SetState(Op(t), "ONFLY", "err")
    /\ Advance(t, FALSE)
    /\ UNCHANGED <<chain, pp_failed, aborted>>

(* -ETIMEDOUT after the time given to m0_op_wait: the op is ONFLY.         *)
WaitTimedOut(t) ==
    /\ InPass(t)
    /\ MdocHead(chain[Op(t)]).st = "launched"
    /\ timeout[t] # Never
    /\ waited[t] >= timeout[t]
    /\ SetState(Op(t), "ONFLY", "err")
    /\ Advance(t, FALSE)
    /\ UNCHANGED <<chain, pp_failed, aborted>>

(* m0_op_wait fails otherwise: the op is reported FAILED.                  *)
WaitError(t) ==
    /\ WaitErrors
    /\ InPass(t)
    /\ SetState(Op(t), "FAILED", "err")
    /\ Advance(t, TRUE)
    /\ UNCHANGED <<chain, pp_failed, aborted>>

(* The tests at the end of a pass.                                         *)
Again(t) == IF timeout[t] = Never THEN nr_done[t] # Len(ops[t])
                                  ELSE elapsed[t] < timeout[t]

(* The end of a pass: goto again, or return nr_done.                       *)
PassEnd(t) ==
    /\ ~aborted /\ pc[t] = "loop" /\ idx[t] > Len(ops[t])
    /\ \/ /\ Again(t)
          /\ idx' = [idx EXCEPT ![t] = 1]
          /\ timeout' = [timeout EXCEPT ![t] = IF @ = Never THEN @ ELSE @ - elapsed[t]]
          /\ waited' = [waited EXCEPT ![t] = 0]
          /\ UNCHANGED pc
       \/ /\ ~Again(t)
          /\ pc' = [pc EXCEPT ![t] = "ret"]
          /\ UNCHANGED <<idx, timeout, waited>>
    /\ UNCHANGED <<opvars, ops, nr_done, asked, elapsed, mp_retstate, aborted>>

(* Time passes during a call that has a timeout.                           *)
Tick(t) ==
    /\ ~aborted /\ pc[t] = "loop" /\ timeout[t] # Never /\ elapsed[t] < MaxTicks
    /\ elapsed' = [elapsed EXCEPT ![t] = @ + 1]
    /\ waited'  = [waited  EXCEPT ![t] = IF @ < MaxTicks THEN @ + 1 ELSE @]
    /\ UNCHANGED <<opvars, pc, ops, idx, nr_done, timeout, asked, mp_retstate, aborted>>

(* The locals of a call that has returned.                                 *)
Reset(t) ==
    /\ ops'     = [ops     EXCEPT ![t] = <<>>]
    /\ idx'     = [idx     EXCEPT ![t] = 1]
    /\ nr_done' = [nr_done EXCEPT ![t] = 0]
    /\ timeout' = [timeout EXCEPT ![t] = Never]
    /\ asked'   = [asked   EXCEPT ![t] = Never]
    /\ elapsed' = [elapsed EXCEPT ![t] = 0]
    /\ waited'  = [waited  EXCEPT ![t] = 0]

(* mio_op_poll has returned: the application reads mp_retstate of each op. *)
Collect(t) ==
    /\ ~aborted /\ pc[t] = "ret"
    /\ pc' = [pc EXCEPT ![t] = "idle"]
    /\ phase' = [o \in Ops |->
                   IF /\ \E i \in DOMAIN ops[t] : ops[t][i] = o
                      /\ mp_retstate[o] # "ONFLY"
                   THEN "done" ELSE phase[o]]
    /\ UNCHANGED <<has_cbs, chain, cb_due, mop_rc, reports, told, pp_failed>>
    /\ Reset(t)
    /\ UNCHANGED <<mp_retstate, aborted>>

------------------------------------------------------------------------------
PollInit ==
    /\ Init
    /\ pc          = [t \in Threads |-> "idle"]
    /\ ops         = [t \in Threads |-> <<>>]
    /\ idx         = [t \in Threads |-> 1]
    /\ nr_done     = [t \in Threads |-> 0]
    /\ timeout     = [t \in Threads |-> Never]
    /\ asked       = [t \in Threads |-> Never]
    /\ elapsed     = [t \in Threads |-> 0]
    /\ waited      = [t \in Threads |-> 0]
    /\ mp_retstate = [o \in Ops |-> "ONFLY"]
    /\ aborted     = FALSE

(* The steps outside mio_op_poll.                                          *)
PollLaunch(o, l, cbs) == ~aborted /\ Launch(o, l, cbs) /\ UNCHANGED pollvars
PollMotr(o)  == /\ ~aborted /\ UNCHANGED pollvars
                /\ \E s \in {"stable", "failed"} : MotrSettle(o, s)
PollCbComplete(o) == ~aborted /\ motr_op_cb_complete(o) /\ UNCHANGED pollvars
PollCbFailed(o)   == ~aborted /\ motr_op_cb_failed(o) /\ UNCHANGED pollvars
PollFini(o)  == ~aborted /\ mio_op_fini(o) /\ UNCHANGED pollvars

(* An assert that has fired has ended the process.                         *)
Halted == aborted /\ UNCHANGED vars

(* The steps of mio_op_poll.                                               *)
PollStep(t) ==
    \/ WaitCompleted(t) \/ WaitFailed(t) \/ WaitTimedOut(t) \/ WaitError(t)
    \/ PassEnd(t) \/ Collect(t)

PollNext ==
    \/ \E o \in Ops :
         \/ \E l \in FirstLinks, cbs \in Cbs : PollLaunch(o, l, cbs)
         \/ PollMotr(o) \/ PollCbComplete(o) \/ PollCbFailed(o) \/ PollFini(o)
    \/ \E t \in Threads :
         \/ \E s \in PollArrays, to \in Timeouts : PollCall(t, s, to)
         \/ PollStep(t)
         \/ Tick(t)
    \/ Halted

PollSpec == PollInit /\ [][PollNext]_vars

(* Motr ends every operation and makes its callbacks, a thread inside      *)
(* mio_op_poll runs, and time passes.                                      *)
PollFairSpec ==
    /\ PollSpec
    /\ \A o \in Ops : /\ WF_vars(PollMotr(o))
                      /\ WF_vars(PollCbComplete(o))
                      /\ WF_vars(PollCbFailed(o))
    /\ \A t \in Threads : WF_vars(PollStep(t)) /\ WF_vars(Tick(t))

------------------------------------------------------------------------------
Returned(t) == pc[t] = "ret"

PollDone(t) == {i \in DOMAIN ops[t] : mp_retstate[ops[t][i]] # "ONFLY"}

(* An op that mio_op_poll returns as COMPLETED is one whose links are all  *)
(* stable and post-processed, and its mop_rc is 0.                         *)
PollCompletedTruthful == \A t \in Threads : Returned(t) =>
    \A i \in DOMAIN ops[t] : mp_retstate[ops[t][i]] = "COMPLETED" =>
        Processed(ops[t][i]) /\ mop_rc[ops[t][i]] = "ok"

(* An op that mio_op_poll returns as FAILED is one whose last Motr         *)
(* operation failed, and its mop_rc is not 0.                              *)
PollFailedTruthful == \A t \in Threads : Returned(t) =>
    \A i \in DOMAIN ops[t] : mp_retstate[ops[t][i]] = "FAILED" =>
        MdocHead(chain[ops[t][i]]).st = "failed" /\ mop_rc[ops[t][i]] = "err"

(* What mio_op_poll returns of an op, COMPLETED or FAILED, is how its      *)
(* chain of Motr operations ended.                                         *)
PollTruthful == PollCompletedTruthful /\ PollFailedTruthful

(* With MIO_TIME_NEVER a call that returns has seen all of its ops done,   *)
(* and returns their number: that is what the loop of mio_op_poll waits    *)
(* for and the comment at its end says, where mio.h has it wait for one of *)
(* the ops (PollWaitsForOne) and return 0 (PollReturnsZero).               *)
PollAll == \A t \in Threads : (Returned(t) /\ asked[t] = Never) =>
    PollDone(t) = DOMAIN ops[t] /\ nr_done[t] = Len(ops[t])

(* Every call of mio_op_poll returns (or the process has ended).           *)
PollReturns == \A t \in Threads : pc[t] = "loop" ~> (pc[t] # "loop" \/ aborted)

------------------------------------------------------------------------------
(* Polled operations implement AsyncOp as well.                            *)
PollStatus(o) == IF has_cbs[o] \/ phase[o] # "done" THEN AsyncStatus(o)
                 ELSE IF mp_retstate[o] = "COMPLETED" THEN "completed" ELSE "failed"

PollAbstract == INSTANCE AsyncOp WITH
    status <- [o \in Ops |-> PollStatus(o)],
    busy   <- [o \in Ops |-> ~Settled(o)]

(* Refinement: unless m0_op_wait itself fails, an op that is polled, with  *)
(* others or alone, is one operation that is reported once, when all its   *)
(* work has settled.                                                       *)
PollImplementsAsyncOp == PollAbstract!Spec

(***************************************************************************)
(* What the code does not achieve (see README.md).                         *)
(***************************************************************************)
(* "it waits for one of a set of operations to reach COMPLETED or FAILED   *)
(* state" (mio.h): a call that has found an op done does not go on to wait *)
(* for ever for another.  Broken by every array in which a later op takes  *)
(* longer.                                                                 *)
PollWaitsForOne == \A t \in Threads :
    (InPass(t) /\ timeout[t] = Never /\ MdocHead(chain[Op(t)]).st = "launched") =>
        \A i \in 1..(idx[t] - 1) : mp_retstate[ops[t][i]] = "ONFLY"

(* "@return 0 the operation is completed or failed, < 0 for error" (mio.h):*)
(* a call that has seen its ops done returns 0.  Broken by every such call.*)
PollReturnsZero == \A t \in Threads :
    (Returned(t) /\ PollDone(t) = DOMAIN ops[t]) => nr_done[t] = 0

(* "Return the number of operations done (completed or failed.)" (mio.c).  *)
(* Broken by calls with a timeout that see an op done early: it is counted *)
(* again in every further pass, until the time is up.                      *)
PollCount == \A t \in Threads : Returned(t) =>
    nr_done[t] = Cardinality(PollDone(t))

(* "The call will block until either: an operation reaches the state       *)
(* requested; the timeout expires" (mio.h): a call that returns with no op *)
(* done has used its time.  Broken by chains: the time of a pass is        *)
(* subtracted from timeout again in every later pass.                      *)
PollBlocks == \A t \in Threads :
    (Returned(t) /\ asked[t] # Never /\ PollDone(t) = {}) => elapsed[t] >= asked[t]

(* "if it doesn't create a new op, MIO_DRV_OP_FINAL is returned"           *)
(* (mio_internal.h): mio_op_poll's assert on that never fires.  Broken by  *)
(* every post-processing function that cannot launch its next driver op.   *)
NoAbort == ~aborted
==============================================================================
