------------------------------ MODULE MioRwLock ------------------------------
(***************************************************************************)
(* The example mio_rw_lock: after a first write by main, writer and reader *)
(* threads each open one object, lock it, take the next entry of a report, *)
(* write or read all of the object and unlock it.  A reader compares its   *)
(* digest with that of the entry before its own.  A digest is the sequence *)
(* of blocks that went into it, a block the entry whose writer made it.    *)
(***************************************************************************)
EXTENDS MioExamples, SequencesExt

CONSTANTS RwlThreads,   (* writers, and as many readers                     *)
          RwlBlocks     (* blocks of the object                             *)

ASSUME RwlAssumption == RwlThreads \in Nat \ {0} /\ RwlBlocks \in Nat \ {0}

VARIABLES rwl_main,   (* where main is                                      *)
          rwl,        (* the locals of each thread; 0 is main's first write *)
          holder,     (* external: the thread whose handle has the lock     *)
          ioses,      (* the entries of ior_ioses taken so far              *)
          disk        (* the blocks of the object                           *)

rwlVars == <<rwl_main, rwl, holder, ioses, disk>>

RwlWriters == 0..RwlThreads
Lockers    == 0..2*RwlThreads
Nobody     == 0 - 1

(* pc: none, open, lock, task, io, print, unlock, gone.                    *)
Locker == [pc |-> "none", idx |-> 0, left |-> 0, sum |-> <<>>, rc |-> "ok"]

RwlInit == /\ rwl_main = "init"
           /\ rwl = [t \in Lockers |-> Locker]
           /\ holder = Nobody /\ ioses = <<>>
           /\ disk = [b \in 1..RwlBlocks |-> 0]

(* ------------------------------- main --------------------------------- *)
(* mio_init has returned; mio_cmd_obj_touch refuses an object that exists. *)
RwlMain ==
    /\ rwl_main = "init" /\ stage = "out" /\ inits > 0
    /\ \/ MioUp /\ rwl_main' = "prepare" /\ rwl' = [rwl EXCEPT ![0].pc = "open"]
       \/ rwl_main' = "fini" /\ UNCHANGED rwl
    /\ UNCHANGED <<initVars, holder, ioses, disk>>

(* The first write is over.                                                *)
RwlPrepared ==
    /\ rwl_main = "prepare" /\ rwl[0].pc = "gone"
    /\ rwl_main' = IF rwl[0].rc = "ok" THEN "start" ELSE "fini"
    /\ UNCHANGED <<initVars, rwl, holder, ioses, disk>>

(* The writers, then the readers; a thread that cannot be created ends it. *)
mio_rwl_start ==
    /\ rwl_main = "start"
    /\ LET todo == {t \in Lockers : rwl[t].pc = "none"} IN
       IF todo = {} THEN rwl_main' = "join" /\ UNCHANGED rwl
       ELSE \/ rwl' = [rwl EXCEPT ![Min(todo)].pc = "open"] /\ UNCHANGED rwl_main
            \/ rwl_main' = "fini" /\ UNCHANGED rwl
    /\ UNCHANGED <<initVars, holder, ioses, disk>>

mio_rwl_stop ==
    /\ rwl_main = "join" /\ \A t \in Lockers : rwl[t].pc = "gone"
    /\ rwl_main' = "unlink"
    /\ UNCHANGED <<initVars, rwl, holder, ioses, disk>>

(* mio_cmd_obj_unlink, whether it succeeds or not.                         *)
RwlUnlink ==
    /\ rwl_main = "unlink" /\ rwl_main' = "fini"
    /\ \/ disk' = [b \in 1..RwlBlocks |-> 0]
       \/ UNCHANGED disk
    /\ UNCHANGED <<initVars, rwl, holder, ioses>>

RwlFini ==
    /\ rwl_main = "fini" /\ rwl_main' = "return"
    /\ mio_fini
    /\ UNCHANGED <<rwl, holder, ioses, disk>>

(* main returns, or a thread that was left running has called MIO and that *)
(* was the end: either way the process is gone with all its threads.       *)
RwlReturn ==
    /\ rwl_main = "return" /\ rwl_main' = "exit"
    /\ UNCHANGED <<initVars, rwl, holder, ioses, disk>>

(* ----------------- rwl_obj_write and rwl_obj_read --------------------- *)
RwlGoto(t, l) == rwl' = [rwl EXCEPT ![t].pc = l]
RwlErr(t, l)  == rwl' = [rwl EXCEPT ![t].pc = l, ![t].rc = "err"]

rwl_obj_open(t) ==
    /\ rwl[t].pc = "open"
    /\ (MioUp /\ RwlGoto(t, "lock")) \/ RwlErr(t, "gone")
    /\ UNCHANGED <<initVars, rwl_main, holder, ioses, disk>>

(* mio_obj_lock waits for the lock ...                                     *)
rwl_obj_lock(t) ==
    /\ rwl[t].pc = "lock" /\ RwlGoto(t, "task")
    /\ MioUp /\ holder = Nobody /\ holder' = t
    /\ UNCHANGED <<initVars, rwl_main, ioses, disk>>

(* ... or fails, which nobody who waits may count on.                      *)
LockFails(t) ==
    /\ rwl[t].pc = "lock" /\ RwlErr(t, "gone")
    /\ UNCHANGED <<initVars, rwl_main, holder, ioses, disk>>

NewEntry(t) == [role |-> IF t \in RwlWriters THEN "WRITER" ELSE "READER",
                sum |-> <<>>, end |-> "busy", verdict |-> "none"]

(* Variant: the lock is only held for the report.                          *)
TaskUnlocks(t) ==
    /\ rwl[t].pc = "task"
    /\ ioses' = Append(ioses, NewEntry(t))
    /\ rwl' = [rwl EXCEPT ![t] = [@ EXCEPT !.pc = "io", !.idx = Len(ioses) + 1, !.left = RwlBlocks]]
    /\ holder' = Nobody
    /\ UNCHANGED <<initVars, rwl_main, disk>>

(* The next entry of the report.                                           *)
rwl_task(t) ==
    /\ rwl[t].pc = "task"
    /\ ioses' = Append(ioses, NewEntry(t))
    /\ rwl' = [rwl EXCEPT ![t] = [@ EXCEPT !.pc = "io", !.idx = Len(ioses) + 1, !.left = RwlBlocks]]
    /\ UNCHANGED <<initVars, rwl_main, holder, disk>>

(* One pass of io_thread_obj_write or io_thread_obj_read: blocks go to the *)
(* object after the digest has taken them, and to the digest after they    *)
(* were read.  A write that fails may have stored some of them.            *)
RwlPass(th, n, more) == [th EXCEPT !.sum = @ \o more, !.left = @ - n,
                                   !.pc = IF th.left = n THEN "print" ELSE "io"]
RwlFail(th, more)    == [th EXCEPT !.sum = @ \o more, !.pc = "print", !.rc = "err"]

rwl_io(t) ==
    /\ rwl[t].pc = "io"
    /\ LET n    == Bcount(BlocksPerOp, rwl[t].left)
           from == RwlBlocks - rwl[t].left
           new(k) == [b \in 1..RwlBlocks |-> IF b \in from+1..from+k THEN rwl[t].idx ELSE disk[b]]
       IN  IF t \in RwlWriters
           THEN LET own == [i \in 1..n |-> rwl[t].idx] IN
                \/ MioUp /\ disk' = new(n) /\ rwl' = [rwl EXCEPT ![t] = RwlPass(rwl[t], n, own)]
                \/ /\ \E k \in 0..n : (MioUp \/ k = 0) /\ disk' = new(k)
                   /\ rwl' = [rwl EXCEPT ![t] = RwlFail(rwl[t], own)]
           ELSE /\ LET read == SubSeq(disk, from + 1, from + n) IN
                   \/ MioUp /\ rwl' = [rwl EXCEPT ![t] = RwlPass(rwl[t], n, read)]
                   \/ RwlErr(t, "print")
                /\ UNCHANGED disk
    /\ UNCHANGED <<initVars, rwl_main, holder, ioses>>

(* MD5_Final, and rwl_print_io, which has a reader's digest compared with  *)
(* that of the entry before, whether that one succeeded or not.            *)
rwl_print_io(t) ==
    /\ rwl[t].pc = "print"
    /\ LET i == rwl[t].idx
           same == i = 1 \/ ioses[i - 1].sum = rwl[t].sum
       IN  ioses' = [ioses EXCEPT ![i] = [@ EXCEPT
               !.sum = rwl[t].sum,
               !.end = IF rwl[t].rc = "ok" THEN "ok" ELSE "failed",
               !.verdict = CASE t \in RwlWriters -> "none" [] same -> "MATCHED" [] OTHER -> "FAILED"]]
    /\ RwlGoto(t, "unlock")
    /\ UNCHANGED <<initVars, rwl_main, holder, disk>>

(* mio_obj_unlock; mio_obj_close changes nothing that another thread sees. *)
rwl_obj_unlock(t) ==
    /\ rwl[t].pc = "unlock" /\ RwlGoto(t, "gone")
    /\ holder' = Nobody
    /\ UNCHANGED <<initVars, rwl_main, ioses, disk>>

LockerStep(t) ==
    /\ rwl_main # "exit"
    /\ \/ rwl_obj_open(t) \/ rwl_obj_lock(t) \/ rwl_task(t) \/ rwl_io(t)
       \/ rwl_print_io(t) \/ rwl_obj_unlock(t)

RwlMainStep == \/ RwlMain \/ RwlPrepared \/ mio_rwl_start \/ mio_rwl_stop
               \/ RwlUnlink \/ RwlFini \/ RwlReturn

RwlStep == \/ RwlMainStep
           \/ \E t \in Lockers : LockerStep(t) \/ (rwl_main # "exit" /\ LockFails(t))

(* ------------------------------ properties ---------------------------- *)
(* "Data read from a reader should match the latest data written by a      *)
(* writer": the latest in the order of the report, and whole; and then the *)
(* program says MATCHED if the I/O before the reader's did not fail.       *)
LastWriter(i) == Max({j \in 1..i-1 : ioses[j].role = "WRITER"})
ReadersMatch ==
    \A i \in DOMAIN ioses : ioses[i].role = "READER" /\ ioses[i].end = "ok" =>
        (ioses[LastWriter(i)].end # "failed" =>
            /\ ioses[i].sum = [b \in 1..RwlBlocks |-> LastWriter(i)]
            /\ ioses[i - 1].end # "failed" => ioses[i].verdict = "MATCHED")
==============================================================================
