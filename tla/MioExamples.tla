----------------------------- MODULE MioExamples -----------------------------
(***************************************************************************)
(* What the example applications share: a program that initialises MIO and *)
(* cuts its blocks into operations of a bounded number of blocks.          *)
(***************************************************************************)
EXTENDS MioInit

CONSTANT BlocksPerOp    (* MIO_CMD_MAX_BLOCK_COUNT_PER_OP                   *)

ASSUME ExamplesAssumption == BlocksPerOp \in Nat \ {0}

(* A call of MIO may succeed; after mio_fini it fails, or ends the process. *)
MioUp == instance = "set"

Bcount(limit, left) == IF left > limit THEN limit ELSE left
==============================================================================
