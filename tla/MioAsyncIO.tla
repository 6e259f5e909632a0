----------------------------- MODULE MioAsyncIO -----------------------------
(***************************************************************************)
(* mio_cmd_obj_write_async and mio_cmd_obj_read_async of obj_io_cbs.c: all *)
(* operations of a transfer are launched with a mutex held that their      *)
(* callbacks need, and the caller then waits for the count of operations   *)
(* to fall to zero.  Callbacks run on Motr's threads.  A write has a       *)
(* source file, a read an output file.                                     *)
(***************************************************************************)
EXTENDS MioExamples

CONSTANTS AioBlocks,    (* blocks of a transfer                             *)
          AioSteps      (* the values of async_step, the option -l          *)

ASSUME AioAssumption == AioBlocks \in Nat \ {0} /\ AioSteps \subseteq Nat

VARIABLES call,      (* where the caller is                                 *)
          io,        (* its locals: [write, step, left, rc]                 *)
          ops,       (* the operations launched                             *)
          on_fly,    (* obj_io_nr_ops_on_fly                                *)
          slots,     (* obj_io_ops: its length and the entries set          *)
          moved,     (* what reached the object, or the file: place -> block *)
          fpos,      (* the position of the output file                     *)
          ghost      (* the source file ended where an operation begins;    *)
                     (* two callbacks wrote the output file at once         *)

aioVars == <<call, io, ops, on_fly, slots, moved, fpos, ghost>>

AioInit == /\ call = "init"
           /\ io \in [write : BOOLEAN, step : AioSteps, left : {AioBlocks}, rc : {0}]
           /\ ops = <<>> /\ on_fly = 0
           /\ slots = [len |-> 0, set |-> {}, over |-> FALSE]
           /\ moved = [b \in 1..AioBlocks |-> 0] /\ fpos = 0
           /\ ghost = [ended |-> FALSE, clash |-> FALSE]

AioErr == io' = [io EXCEPT !.rc = 0 - 1]

(* obj_write_init or obj_read_init, once mio_init has returned.            *)
AioOpen ==
    /\ call = "init" /\ stage = "out" /\ inits > 0
    /\ \/ MioUp /\ call' = "slots" /\ UNCHANGED io
       \/ call' = (IF MioUp THEN "fini" ELSE "exit") /\ AioErr
    /\ UNCHANGED <<initVars, ops, on_fly, slots, moved, fpos, ghost>>

(* Variant: a last operation of fewer blocks has no slot.                  *)
SlotsDown ==
    /\ call = "slots" /\ io.step > 0
    /\ call' = "launch" /\ slots' = [slots EXCEPT !.len = AioBlocks \div io.step] /\ UNCHANGED io
    /\ UNCHANGED <<initVars, ops, on_fly, moved, fpos, ghost>>

(* One slot for every operation of async_step blocks; a step of 0 divides  *)
(* by it.  Then the mutex is taken.                                        *)
obj_io_async_init ==
    /\ call = "slots"
    /\ \/ /\ io.step > 0 /\ call' = "launch"
          /\ slots' = [slots EXCEPT !.len = (AioBlocks + io.step - 1) \div io.step]
          /\ UNCHANGED io
       \/ call' = (IF io.step = 0 THEN "exit" ELSE "fini") /\ AioErr /\ UNCHANGED slots
    /\ UNCHANGED <<initVars, ops, on_fly, moved, fpos, ghost>>

(* The blocks of the next operation: only now the step is cut to what an   *)
(* operation may have.                                                     *)
NextCount == Bcount(Bcount(BlocksPerOp, io.step), io.left)

(* One pass of the loop.  The slot is the number of operations on the fly. *)
AioLaunch ==
    /\ call = "launch" /\ io.left > 0
    /\ ops' = Append(ops, [at |-> AioBlocks - io.left, n |-> NextCount, st |-> "flight", rc |-> "ok"])
    /\ slots' = [slots EXCEPT !.set = @ \cup {on_fly}, !.over = @ \/ on_fly >= slots.len]
    /\ on_fly' = on_fly + 1
    /\ io' = [io EXCEPT !.left = @ - NextCount]
    /\ UNCHANGED <<initVars, call, moved, fpos, ghost>>

(* No memory, or MIO refuses the operation.                                *)
LaunchFails ==
    /\ call = "launch" /\ io.left > 0 /\ call' = "wait" /\ AioErr
    /\ UNCHANGED <<initVars, ops, on_fly, slots, moved, fpos, ghost>>

(* The source file has fewer blocks left than the operation: their number, *)
(* which may be 0, stays in rc.                                            *)
obj_read_data_from_file ==
    /\ call = "launch" /\ io.left > 0 /\ io.write /\ call' = "wait"
    /\ \E i \in 0..NextCount - 1 : /\ io' = [io EXCEPT !.rc = i]
                                   /\ ghost' = [ghost EXCEPT !.ended = i = 0]
    /\ UNCHANGED <<initVars, ops, on_fly, slots, moved, fpos>>

AioUnlock ==
    /\ call = "launch" /\ io.left = 0 /\ call' = "wait"
    /\ UNCHANGED <<initVars, io, ops, on_fly, slots, moved, fpos, ghost>>

(* Variant: the count is not waited for.                                   *)
WaitNot == /\ call = "wait" /\ call' = "free"
           /\ UNCHANGED <<initVars, io, ops, on_fly, slots, moved, fpos, ghost>>

obj_wait_on_all_ops ==
    /\ call = "wait" /\ on_fly = 0 /\ call' = "free"
    /\ UNCHANGED <<initVars, io, ops, on_fly, slots, moved, fpos, ghost>>

(* The operations in the slots are finalised and freed; the object closed. *)
obj_io_async_fini ==
    /\ call = "free" /\ call' = "fini"
    /\ ops' = [i \in 1..Len(ops) |-> IF i - 1 \in slots.set /\ i <= slots.len
                                     THEN [ops[i] EXCEPT !.st = "freed"] ELSE ops[i]]
    /\ UNCHANGED <<initVars, io, on_fly, slots, moved, fpos, ghost>>

(* What was written past the slots may be found out when they are freed.   *)
SlotsAbort ==
    /\ call = "free" /\ slots.over /\ call' = "exit" /\ AioErr
    /\ UNCHANGED <<initVars, ops, on_fly, slots, moved, fpos, ghost>>

AioFini == /\ call = "fini" /\ call' = "exit" /\ mio_fini
           /\ UNCHANGED <<io, ops, on_fly, slots, moved, fpos, ghost>>

(* ------------------------------ Motr's threads ------------------------ *)
Blocks(op) == op.at+1..op.at+op.n

(* The operation ends, and its callback is made on some thread.            *)
OpEnds(i) ==
    /\ ops[i].st = "flight"
    /\ \/ /\ moved' = IF io.write THEN [b \in DOMAIN moved |-> IF b \in Blocks(ops[i]) THEN b ELSE moved[b]]
                                  ELSE moved
          /\ ops' = [ops EXCEPT ![i].st = IF io.write THEN "lock" ELSE "seek"]
       \/ ops' = [ops EXCEPT ![i].st = "lock", ![i].rc = "err"] /\ UNCHANGED moved
    /\ UNCHANGED <<initVars, call, io, on_fly, slots, fpos, ghost>>

(* obj_write_data_to_file, without the mutex: the position ...             *)
FileSeek(i) ==
    /\ ops[i].st = "seek"
    /\ fpos' = ops[i].at
    /\ ops' = [ops EXCEPT ![i].st = "write"]
    /\ ghost' = [ghost EXCEPT !.clash = @ \/ \E j \in 1..Len(ops) : ops[j].st = "write"]
    /\ UNCHANGED <<initVars, call, io, on_fly, slots, moved>>

(* ... and then the blocks, wherever the position is by now, up to one     *)
(* that cannot be written.  The callback does not look at the result.      *)
FileWrite(i) ==
    /\ ops[i].st = "write"
    /\ LET op == ops[i] IN \E k \in 0..op.n :
       /\ moved' = [b \in DOMAIN moved |-> IF b - fpos \in 1..k THEN op.at + b - fpos ELSE moved[b]]
       /\ fpos' = fpos + k
       /\ ops' = [ops EXCEPT ![i].st = "lock", ![i].rc = IF k = op.n THEN "ok" ELSE "cut"]
    /\ UNCHANGED <<initVars, call, io, on_fly, slots, ghost>>

(* The end of a callback: the count, under the mutex, and the signal.      *)
obj_io_cb(i) ==
    /\ ops[i].st = "lock" /\ call # "launch"
    /\ on_fly' = on_fly - 1
    /\ ops' = [ops EXCEPT ![i].st = "done"]
    /\ UNCHANGED <<initVars, call, io, slots, moved, fpos, ghost>>

MotrStep(i) == OpEnds(i) \/ FileSeek(i) \/ FileWrite(i) \/ obj_io_cb(i)

CallStep == \/ AioOpen \/ obj_io_async_init \/ AioLaunch \/ LaunchFails
            \/ obj_read_data_from_file \/ AioUnlock \/ obj_wait_on_all_ops
            \/ obj_io_async_fini \/ SlotsAbort \/ AioFini

AioStep == CallStep \/ \E i \in 1..Len(ops) : MotrStep(i)

(* -------------------------------- properties -------------------------- *)
Transferred == call \in {"fini", "exit"} /\ slots.len > 0

(* Whatever the step: the operations are freed and the object is closed    *)
(* only after every callback is through with them, and each is freed that  *)
(* has a slot.  All have one, and the array of slots is not overrun, if    *)
(* the step is no larger than the number of blocks an operation may have.  *)
AsyncSafe ==
    /\ slots.over => io.step > BlocksPerOp
    /\ call = "free" => \A i \in 1..Len(ops) : ops[i].st = "done"
    /\ call = "fini" => \A i \in 1..Len(ops) : ops[i].st = IF i <= slots.len THEN "freed" ELSE "done"
    /\ call = "fini" /\ io.step <= BlocksPerOp => Len(ops) <= slots.len

(* When a transfer is over, and no two callbacks of it wrote to the file   *)
(* at once, every block is in its place, unless it is a block of an        *)
(* operation that failed, in Motr or at the output file, or comes after    *)
(* the end of the loop.  The caller learns of a loop that ended too early, *)
(* except in one case: the source file ended where an operation begins.    *)
AsyncComplete ==
    Transferred =>
        /\ ~ghost.clash => \A b \in DOMAIN moved :
              \/ moved[b] = b
              \/ b > AioBlocks - io.left
              \/ \E i \in 1..Len(ops) : b \in Blocks(ops[i]) /\ ops[i].rc # "ok"
        /\ io.rc = 0 /\ ~ghost.ended => io.left = 0

(* To be refuted: "how many blocks for each op." (obj.h): every operation  *)
(* but the last has as many blocks as async_step says, so that the slots   *)
(* made for them suffice.                                                  *)
AsyncStepKept ==
    \A i \in 1..Len(ops) : (i < Len(ops) => ops[i].n = io.step) /\ i <= slots.len
==============================================================================
