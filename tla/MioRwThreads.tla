---------------------------- MODULE MioRwThreads ----------------------------
(***************************************************************************)
(* The example mio_rw_threads: writer threads take objects off one list,   *)
(* write them and put them on a second one, reader threads take them from  *)
(* there, read them back, compare the digests and remove them, while main  *)
(* waits for all of them and then finalises MIO.  A critical section is    *)
(* one step; a digest is the number of blocks that went into it, or        *)
(* Foreign if one of them is not of the object's writer.                   *)
(***************************************************************************)
EXTENDS MioExamples

CONSTANTS NrThreads,    (* writers, and as many readers                     *)
          NrObjs,
          BlockCount    (* blocks of an object                              *)

ASSUME RwtAssumption == /\ NrThreads \in Nat \ {0} /\ NrObjs \in Nat
                        /\ BlockCount \in Nat \ {0}

VARIABLES main,     (* where main of mio_rw_threads is                      *)
          spawned,  (* threads started                                      *)
          thr,      (* the locals of a thread                               *)
          wlist,    (* obj_to_write_list                                    *)
          rlist,    (* obj_to_read_list                                     *)
          nr,       (* the counters of obj_to_read_list                     *)
          sums,     (* ot_md5sum_write and ot_md5sum_read                   *)
          stored    (* blocks of its writer an object has; -1 if there is none *)

rwtVars == <<main, spawned, thr, wlist, rlist, nr, sums, stored>>

Objs    == 1..NrObjs
Writers == 1..NrThreads
Readers == NrThreads+1..2*NrThreads
NoTodo  == 0
Foreign == 0 - 1

(* pc: none, take (or check, for a reader), wait, open, io, put,    *)
(* remove, leave, gone.                                                    *)
Thread == [pc |-> "none", todo |-> NoTodo, left |-> 0, rc |-> "ok", all_done |-> FALSE]

RwtInit == /\ main = "init" /\ spawned = 0
           /\ thr = [t \in Writers \cup Readers |-> Thread]
           /\ wlist = <<>> /\ rlist = <<>>
           /\ nr = [done |-> 0, failed |-> 0, matched |-> 0]
           /\ sums = [o \in Objs |-> [w |-> 0, r |-> 0]]
           /\ stored \in [Objs -> {0, 0 - 1}]

Set(t, r) == [thr EXCEPT ![t] = r]
Goto(t, l) == thr' = [thr EXCEPT ![t].pc = l]

(* pthread_cond_broadcast.                                                 *)
Broadcast(f) == [t \in DOMAIN f |-> IF f[t].pc = "wait" THEN [f[t] EXCEPT !.pc = "check"] ELSE f[t]]

(* -------------------------- main of the program ----------------------- *)
(* mio_init has returned.                                                  *)
RwtMain ==
    /\ main = "init" /\ stage = "out" /\ inits > 0
    /\ main' = IF MioUp THEN "start" ELSE "fini"
    /\ wlist' = IF MioUp THEN Reverse([i \in Objs |-> i]) ELSE wlist
    /\ UNCHANGED <<initVars, spawned, thr, rlist, nr, sums, stored>>

(* mio_rwt_start: all writers, then all readers, which begin with          *)
(* mio_thread_init; a thread that cannot be                                *)
(* created ends it, and main goes on to mio_fini.                          *)
mio_rwt_start ==
    /\ main = "start"
    /\ IF spawned = 2 * NrThreads
       THEN main' = "join" /\ UNCHANGED <<spawned, thr>>
       ELSE \/ /\ spawned' = spawned + 1 /\ Goto(spawned + 1, IF spawned < NrThreads THEN "take" ELSE "check")
               /\ UNCHANGED main
            \/ main' = "fini" /\ UNCHANGED <<spawned, thr>>
    /\ UNCHANGED <<initVars, wlist, rlist, nr, sums, stored>>

(* Variant: the readers are not waited for.                                *)
StopEarly ==
    /\ main = "join" /\ \A t \in Writers : thr[t].pc = "gone"
    /\ main' = "fini"
    /\ UNCHANGED <<initVars, spawned, thr, wlist, rlist, nr, sums, stored>>

(* Every thread is joined; the report; the lists go.                       *)
mio_rwt_stop ==
    /\ main = "join" /\ \A t \in DOMAIN thr : thr[t].pc = "gone"
    /\ main' = "fini"
    /\ UNCHANGED <<initVars, spawned, thr, wlist, rlist, nr, sums, stored>>

RwtFini ==
    /\ main = "fini" /\ main' = "return"
    /\ mio_fini
    /\ UNCHANGED <<spawned, thr, wlist, rlist, nr, sums, stored>>

(* main returns, or a thread that was left running has called MIO and that *)
(* was the end: either way the process is gone with all its threads.       *)
RwtReturn ==
    /\ main = "return" /\ main' = "exit"
    /\ UNCHANGED <<initVars, spawned, thr, wlist, rlist, nr, sums, stored>>

(* ------------------------------ the threads --------------------------- *)
(* The head of the list of objects to write, or the end of the thread.     *)
rwt_writer_take(t) ==
    /\ thr[t].pc = "take"
    /\ IF wlist = <<>>
       THEN Goto(t, "leave") /\ UNCHANGED wlist
       ELSE thr' = Set(t, [Thread EXCEPT !.pc = "open", !.todo = Head(wlist)])
            /\ wlist' = Tail(wlist)
    /\ UNCHANGED <<initVars, main, spawned, rlist, nr, sums, stored>>

(* obj_create for a writer, for which -EEXIST is as good, obj_open for a   *)
(* reader; any MIO operation may fail.                                     *)
rwt_obj_open(t) ==
    /\ thr[t].pc = "open"
    /\ LET o == thr[t].todo IN
       \/ /\ MioUp /\ (t \in Writers \/ stored[o] >= 0)
          /\ thr' = Set(t, [thr[t] EXCEPT !.pc = "io", !.left = BlockCount])
          /\ stored' = [stored EXCEPT ![o] = IF @ < 0 THEN 0 ELSE @]
          /\ sums' = [sums EXCEPT ![o] = IF t \in Writers THEN [@ EXCEPT !.w = 0]
                                                          ELSE [@ EXCEPT !.r = 0]]
       \/ thr' = Set(t, [thr[t] EXCEPT !.pc = "put", !.rc = "err"]) /\ UNCHANGED <<stored, sums>>
    /\ UNCHANGED <<initVars, main, spawned, wlist, rlist, nr>>

IoPass(th, n) == [th EXCEPT !.left = @ - n, !.pc = IF th.left = n THEN "put" ELSE "io"]
IoFail(th)    == [th EXCEPT !.pc = "put", !.rc = "err"]

(* One pass of the loop of io_thread_obj_write: the digest takes the       *)
(* blocks before they are written.                                         *)
io_thread_obj_write(t) ==
    /\ t \in Writers /\ thr[t].pc = "io"
    /\ LET o == thr[t].todo
           bcount == Bcount(BlocksPerOp, thr[t].left)
       IN  /\ sums' = [sums EXCEPT ![o].w = @ + bcount]
           /\ \/ /\ MioUp /\ stored' = [stored EXCEPT ![o] = sums'[o].w]
                 /\ thr' = Set(t, IoPass(thr[t], bcount))
              \/ thr' = Set(t, IoFail(thr[t])) /\ UNCHANGED stored
    /\ UNCHANGED <<initVars, main, spawned, wlist, rlist, nr>>

(* The digest of the next n blocks the object has, after those in d.       *)
Digest(d, o, from, n) == IF d = from /\ from + n <= stored[o] THEN d + n ELSE Foreign

io_thread_obj_read(t) ==
    /\ t \in Readers /\ thr[t].pc = "io"
    /\ LET o == thr[t].todo
           bcount == Bcount(BlocksPerOp, thr[t].left)
       IN  \/ /\ MioUp /\ sums' = [sums EXCEPT ![o].r = Digest(@, o, BlockCount - thr[t].left, bcount)]
              /\ thr' = Set(t, IoPass(thr[t], bcount))
           \/ thr' = Set(t, IoFail(thr[t])) /\ UNCHANGED sums
    /\ UNCHANGED <<initVars, main, spawned, wlist, rlist, nr, stored>>

(* Variant: a failed write is not counted.                                 *)
PutUncounted(t) ==
    /\ t \in Writers /\ thr[t].pc = "put"
    /\ rlist' = IF thr[t].rc = "ok" THEN <<thr[t].todo>> \o rlist ELSE rlist
    /\ thr' = Broadcast(Set(t, [Thread EXCEPT !.pc = "take"]))
    /\ UNCHANGED <<initVars, main, spawned, wlist, nr, sums, stored>>

(* A written object goes to the readers, a failed one is counted.          *)
rwt_writer_put(t) ==
    /\ t \in Writers /\ thr[t].pc = "put"
    /\ rlist' = IF thr[t].rc = "ok" THEN <<thr[t].todo>> \o rlist ELSE rlist
    /\ nr' = [nr EXCEPT !.failed = IF thr[t].rc = "ok" THEN @ ELSE @ + 1]
    /\ thr' = Broadcast(Set(t, [Thread EXCEPT !.pc = "take"]))
    /\ UNCHANGED <<initVars, main, spawned, wlist, sums, stored>>

AllDone(n) == n.done + n.failed = NrObjs

(* Variant: the head stays in the list.                                    *)
CheckPeek(t) ==
    /\ thr[t].pc = "check"
    /\ thr' = CASE rlist # <<>> -> Set(t, [Thread EXCEPT !.pc = "open", !.todo = Head(rlist)])
                [] rlist = <<>> /\ AllDone(nr) -> Set(t, [Thread EXCEPT !.pc = "leave"])
                [] OTHER -> Set(t, [Thread EXCEPT !.pc = "wait"])
    /\ UNCHANGED <<initVars, main, spawned, wlist, rlist, nr, sums, stored>>

(* With the mutex: take an object, or leave if none is to come, or wait.   *)
rwt_reader_check(t) ==
    /\ thr[t].pc = "check"
    /\ thr' = CASE rlist # <<>> -> Set(t, [Thread EXCEPT !.pc = "open", !.todo = Head(rlist)])
                [] rlist = <<>> /\ AllDone(nr) -> Set(t, [Thread EXCEPT !.pc = "leave"])
                [] OTHER -> Set(t, [Thread EXCEPT !.pc = "wait"])
    /\ rlist' = IF rlist = <<>> THEN rlist ELSE Tail(rlist)
    /\ UNCHANGED <<initVars, main, spawned, wlist, nr, sums, stored>>

(* pthread_cond_wait may return without a broadcast.                       *)
SpuriousWakeup(t) ==
    /\ thr[t].pc = "wait" /\ Goto(t, "check")
    /\ UNCHANGED <<initVars, main, spawned, wlist, rlist, nr, sums, stored>>

(* The result of a read; only a successful one looks whether it was the    *)
(* last.                                                                   *)
rwt_reader_put(t) ==
    /\ t \in Readers /\ thr[t].pc = "put"
    /\ LET same == sums[thr[t].todo].w = sums[thr[t].todo].r IN
       nr' = IF thr[t].rc = "ok"
             THEN [nr EXCEPT !.done = @ + 1, !.matched = IF same THEN @ + 1 ELSE @]
             ELSE [nr EXCEPT !.failed = @ + 1]
    /\ thr' = Set(t, [thr[t] EXCEPT !.pc = "remove",
                                    !.all_done = thr[t].rc = "ok" /\ AllDone(nr')])
    /\ UNCHANGED <<initVars, main, spawned, wlist, rlist, sums, stored>>

(* obj_rm, whose result is not looked at, and the end of the loop.         *)
rwt_reader_remove(t) ==
    /\ thr[t].pc = "remove"
    /\ \/ MioUp /\ stored' = [stored EXCEPT ![thr[t].todo] = 0 - 1]
       \/ UNCHANGED stored
    /\ thr' = Set(t, [Thread EXCEPT !.pc = IF thr[t].all_done THEN "leave" ELSE "check"])
    /\ UNCHANGED <<initVars, main, spawned, wlist, rlist, nr, sums>>

(* mio_thread_fini, and then a last broadcast.                             *)
rwt_leave(t) ==
    /\ thr[t].pc = "leave"
    /\ thr' = Broadcast([thr EXCEPT ![t].pc = "gone"])
    /\ UNCHANGED <<initVars, main, spawned, wlist, rlist, nr, sums, stored>>

(* What a thread does of its own accord, while the process lives.          *)
ThreadStep(t) ==
    /\ main # "exit"
    /\ \/ rwt_writer_take(t) \/ rwt_obj_open(t)
       \/ io_thread_obj_write(t) \/ io_thread_obj_read(t)
       \/ rwt_writer_put(t) \/ rwt_reader_check(t) \/ rwt_reader_put(t)
       \/ rwt_reader_remove(t) \/ rwt_leave(t)

RwtMainStep == RwtMain \/ mio_rwt_start \/ mio_rwt_stop \/ RwtFini \/ RwtReturn

RwtStep == \/ RwtMainStep
           \/ \E t \in Writers \cup Readers : ThreadStep(t) \/ (main # "exit" /\ SpuriousWakeup(t))

(* -------------------------------- properties -------------------------- *)
(* An object is never in two hands: once the lists are made it is on one   *)
(* list, with one thread, or finished, and the counters account for all    *)
(* that are finished.                                                      *)
Held(o)   == {t \in DOMAIN thr : thr[t].todo = o /\ thr[t].pc # "remove"}
Places(o) == Cardinality(Held(o)) + Cardinality({i \in 1..Len(wlist) : wlist[i] = o})
             + Cardinality({i \in 1..Len(rlist) : rlist[i] = o})
HandedOverOnce ==
    main # "init" /\ instance # "NULL" =>
        /\ \A o \in Objs : Places(o) <= 1
        /\ Cardinality({o \in Objs : Places(o) = 0}) = nr.done + nr.failed

(* When main reports after all threads were started, every object is       *)
(* accounted for, none is left on a list, and every digest of an object    *)
(* that was read back is that of what was written.                         *)
ReportTrue ==
    main = "fini" /\ spawned = 2 * NrThreads =>
        /\ AllDone(nr) /\ nr.matched = nr.done
        /\ wlist = <<>> /\ rlist = <<>>
==============================================================================
