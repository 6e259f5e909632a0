------------------------------- MODULE AsyncOp -------------------------------
(***************************************************************************)
(* What a MIO operation promises its application, whatever the driver does *)
(* to carry it out: an operation that was launched is reported exactly     *)
(* once, as completed or as failed, and not before all the work done on    *)
(* its behalf has settled ("called when all actions of an operation are    *)
(* done", mio.h).  Only a reported operation can be finalised and used     *)
(* again.                                                                  *)
(***************************************************************************)
CONSTANT Ops          (* the application's operations (struct mio_op)      *)

VARIABLES status,     (* what the application was told about each op       *)
          busy        (* is some work of the op still going on?            *)

vars == <<status, busy>>

Status == {"idle", "onfly", "completed", "failed"}

TypeOK ==
    /\ status \in [Ops -> Status]
    /\ busy   \in [Ops -> BOOLEAN]

Init ==
    /\ status = [o \in Ops |-> "idle"]
    /\ busy   = [o \in Ops |-> FALSE]

Launch(o) ==
    /\ status[o] = "idle"
    /\ status' = [status EXCEPT ![o] = "onfly"]
    /\ busy'   = [busy   EXCEPT ![o] = TRUE]

(* One piece of the work ends.                                             *)
Settle(o) ==
    /\ status[o] = "onfly"
    /\ busy[o]
    /\ busy' = [busy EXCEPT ![o] = FALSE]
    /\ UNCHANGED status

(* The work needs another piece: it goes on before anything is reported.   *)
Continue(o) ==
    /\ status[o] = "onfly"
    /\ ~busy[o]
    /\ busy' = [busy EXCEPT ![o] = TRUE]
    /\ UNCHANGED status

(* Several operations can be reported by one call of mio_op_poll.          *)
Report(S) ==
    /\ \A o \in S : status[o] = "onfly" /\ ~busy[o]
    /\ \E res \in [S -> {"completed", "failed"}] :
         status' = [o \in Ops |-> IF o \in S THEN res[o] ELSE status[o]]
    /\ UNCHANGED busy

Fini(o) ==
    /\ status[o] \in {"completed", "failed"}
    /\ status' = [status EXCEPT ![o] = "idle"]
    /\ UNCHANGED busy

Next ==
    \/ \E o \in Ops : Launch(o) \/ Settle(o) \/ Continue(o) \/ Fini(o)
    \/ \E S \in SUBSET Ops : Report(S)

Spec == Init /\ [][Next]_vars
==============================================================================
