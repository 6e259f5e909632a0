------------------------------- MODULE MioHsm -------------------------------
(***************************************************************************)
(* mio_hsm.c, a shell that keeps objects in the pool that their hotness    *)
(* stands for.  A move copies the object to a temporary one, deletes it,   *)
(* creates it anew in another pool and copies the data back.  The process  *)
(* is alone with its objects; each of the steps of a command may fail, and *)
(* the process may end at any of them and be started again.                *)
(***************************************************************************)
EXTENDS MioPools, FiniteSets

CONSTANTS NrObjs,       (* cop_nr_objs                                      *)
          MaxBlocks,    (* bound on the blocks of an object                 *)
          MaxHot,       (* bound on the accesses that are counted           *)
          Thlds,        (* the thresholds that are set                      *)
          Junk,         (* counts that an uninitialised variable may hold   *)
          MaxCmds,      (* bound on the commands                            *)
          BlocksPerOp   (* MIO_CMD_MAX_BLOCK_COUNT_PER_OP                   *)

ASSUME HsmAssumption == /\ NrObjs \in Nat \ {0} /\ MaxBlocks \in Nat
                        /\ BlocksPerOp \in Nat \ {0} /\ MaxHot \in Nat
                        /\ Thlds \subseteq Nat /\ MaxCmds \in Nat
                        /\ Junk \subseteq 0..MaxHot

Objs == 0..NrObjs - 1   (* hsm_make_oid                                     *)
Tmp  == NrObjs          (* hsm_make_tmp_oid: one identifier for all moves   *)
Hole == NrObjs + 1      (* the content of a block that nobody has written   *)

VARIABLES pools,      (* mio_pools: the configuration                       *)
          store,      (* the objects Motr has and their attributes          *)
          sys_hints,  (* mio_sys_hints                                      *)
          sh,         (* the shell: its command and where it is             *)
          cmds,       (* the number of commands given so far                *)
          full        (* history: the blocks that were stored in an object  *)

vars == <<pools, store, sys_hints, sh, cmds, full>>

(* An object: its pool, is there a record of its attributes, whose data    *)
(* each block within its size holds, and the accesses counted.             *)
NoObj == [there |-> FALSE, pool |-> NullPool, rec |-> FALSE, data |-> <<>>, count |-> 0]
NewObj(pool) == [NoObj EXCEPT !.there = TRUE, !.pool = pool]

Prompt == [at |-> "prompt", i |-> 0, end |-> 0, blocks |-> 0, hot |-> 0,
           before |-> <<>>, clean |-> FALSE]
Down   == [Prompt EXCEPT !.at = "down"]

HsmInit == /\ pools \in PoolConfs
           /\ store = [o \in Objs \cup {Tmp} |-> NoObj]
           /\ sys_hints = NoMap
           /\ sh = Down /\ cmds = 0
           /\ full = [o \in Objs |-> 0]

Least(a, b) == IF a < b THEN a ELSE b

(* n blocks of from over the first ones of to.                             *)
Over(from, to, n) ==
    [b \in 1..(IF n > Len(to) THEN n ELSE Len(to)) |-> IF b <= n THEN from[b] ELSE to[b]]

(* obj_stats_update for n blocks, and the record that holds the counts.    *)
obj_stats_update(obj, n) == [obj EXCEPT !.count = @ + n, !.rec = @ \/ n > 0]

(* All that was stored in o is there.                                      *)
Whole(o, obj) == Len(obj.data) >= full[o] /\ \A b \in 1..full[o] : obj.data[b] = o

(***************************************************************************)
(* The shell.                                                              *)
(***************************************************************************)
Start == /\ sh.at = "down"
         /\ sh' = Prompt
         /\ sys_hints' = mio_hints_init
         /\ UNCHANGED <<pools, cmds, store, full>>

(* The process ends, wherever it is.                                       *)
Crash == /\ sh.at # "down"
         /\ sh' = Down
         /\ UNCHANGED <<pools, cmds, store, sys_hints, full>>

(* A command is given at the prompt.                                       *)
Command == sh.at = "prompt" /\ cmds < MaxCmds /\ cmds' = cmds + 1

hsm_set_obj_thld(key, thld) ==
    /\ Command
    /\ sys_hints' = mio_hint_map_set(sys_hints, key, thld).map
    /\ UNCHANGED <<pools, store, sh, full>>

hsm_shell_run_cmd(at, idx, end, blocks) ==
    /\ Command /\ idx < NrObjs
    /\ sh' = [Prompt EXCEPT !.at = at, !.i = idx, !.end = end, !.blocks = blocks]
    /\ UNCHANGED <<pools, store, sys_hints, full>>

(* A number of objects that is too large is cut off.                       *)
Cut(idx, nr) == Least(nr, NrObjs - idx)

(* The loop goes on with the next object, or the command has ended.        *)
NextObj == IF sh.i + 1 < sh.end THEN [sh EXCEPT !.i = @ + 1] ELSE Prompt

(***************************************************************************)
(* create: mio_cmd_obj_touch, which refuses an object that exists and      *)
(* leaves a new one open.  After an error all the objects are unlinked.    *)
(***************************************************************************)
Created(hints) == NewObj(SelectedPool(sys_hints, pools, NullPool, hints))

mio_cmd_obj_touch ==
    /\ sh.at = "create"
    /\ \/ /\ ~store[sh.i].there
          /\ store' = [store EXCEPT ![sh.i] = Created(NoMap)]
          /\ sh' = NextObj
       \/ /\ UNCHANGED store
          /\ sh' = [sh EXCEPT !.at = "cleanup", !.i = 0]
    /\ UNCHANGED <<pools, cmds, sys_hints, full>>

(* The result of the unlink is not looked at.                              *)
CreateCleanup ==
    /\ sh.at = "cleanup"
    /\ \/ store' = [store EXCEPT ![sh.i] = NoObj]
       \/ UNCHANGED store
    /\ full' = [full EXCEPT ![sh.i] = 0]
    /\ sh' = NextObj
    /\ UNCHANGED <<pools, cmds, sys_hints>>

(***************************************************************************)
(* write: mio_cmd_obj_write with data of its own making, so that the same  *)
(* block of an object always gets the same data.  A write that fails has   *)
(* stored some of the blocks.  fclose of a file that was never opened ends *)
(* the process, unless the C library bears it.                             *)
(***************************************************************************)
mio_cmd_obj_write ==
    /\ sh.at = "write"
    /\ LET o   == sh.i
           obj == IF store[o].there THEN store[o] ELSE Created(NoMap)
       IN  \E n \in 0..sh.blocks :
             /\ obj.count + n <= MaxHot
             /\ store' = [store EXCEPT ![o] = [obj_stats_update(obj, n) EXCEPT
                                                 !.data = Over([b \in 1..n |-> o], @, n)]]
             /\ \/ /\ n = sh.blocks
                   /\ full' = [full EXCEPT ![o] = IF n > @ THEN n ELSE @]
                   /\ sh' \in {NextObj, Down}
                \/ sh' \in {Prompt, Down} /\ UNCHANGED full
    /\ UNCHANGED <<pools, cmds, sys_hints>>

(***************************************************************************)
(* read: mio_cmd_obj_read does not clear its struct mio_obj, so that the   *)
(* size and the counts of an object without a record are whatever was on   *)
(* the stack, and closing it stores them.  Storing may fail unnoticed.     *)
(***************************************************************************)
ReadObj(o, n) ==
    LET obj == store[o] IN
    \/ UNCHANGED store
    \/ /\ obj.rec
       /\ obj.count + n <= MaxHot
       /\ store' = [store EXCEPT ![o].count = @ + n]
    \/ /\ obj.there /\ ~obj.rec
       /\ \E size \in 0..MaxBlocks, count \in Junk :
            store' = [store EXCEPT ![o] = [@ EXCEPT !.rec = TRUE, !.count = count,
                                                    !.data = [b \in 1..size |-> Hole]]]

(* hsm_read_objs ends at the number of objects, not at idx + nr_objs.      *)
mio_cmd_obj_read ==
    /\ sh.at = "read"
    /\ \/ sh.i < sh.end
          /\ \E n \in 0..Least(sh.blocks, Len(store[sh.i].data)) : ReadObj(sh.i, n)
          /\ sh' \in {NextObj, Prompt}
       \/ sh.i >= sh.end /\ sh' = Prompt /\ UNCHANGED store
    /\ UNCHANGED <<pools, cmds, sys_hints, full>>

(* workload: any number of reads of any objects; no draw but 0 for the     *)
(* frequencies ends it with a division by 0.                               *)
hsm_workload_generate ==
    /\ sh.at = "workload"
    /\ \/ \E o \in Objs : \E n \in 0..Least(sh.blocks, Len(store[o].data)) : ReadObj(o, n) /\ UNCHANGED sh
       \/ sh' \in {Prompt, Down} /\ UNCHANGED store
    /\ UNCHANGED <<pools, cmds, sys_hints, full>>

(***************************************************************************)
(* move.                                                                   *)
(***************************************************************************)
(* mio_obj_hint_get of the hotness.                                        *)
Hotness(obj) == mio_hint_map_get(obj_hot_index_cal(mio_hints_init, obj.count).map, "HOT_INDEX").value

HotHint(hot) == mio_hint_map_set(mio_hints_init, "HOT_INDEX", hot).map

(* hsm_obj_hint_stat and hsm_obj_if_move: the value of the hint is the     *)
(* count of accesses; an object in the right pool stays.  An error of      *)
(* hsm_obj_if_move counts as a different pool.                             *)
hsm_obj_if_move ==
    /\ sh.at = "move"
    /\ LET obj == store[sh.i]
           to  == mio_obj_hotness_to_pool_idx(sys_hints, pools.nr, Hotness(obj))
       IN  \/ ~obj.there /\ sh' = Prompt
           \/ obj.there /\ sh' = Prompt                    (* not opened     *)
           \/ obj.there /\ to = Killed /\ sh' = Down
           \/ obj.there /\ to = obj.pool /\ sh' = NextObj
           \/ /\ obj.there /\ to # Killed
              /\ sh' = [sh EXCEPT !.at = "copy_out", !.hot = Hotness(obj), !.before = obj.data,
                                  !.clean = ~store[Tmp].there]
    /\ UNCHANGED <<pools, cmds, store, sys_hints, full>>

(* mio_cmd_obj_copy, from here to there: n blocks have been copied, ok     *)
(* tells whether they are all.  Every read and write of a block counts;    *)
(* the counts of `to' are stored with its size when that grows, the others *)
(* when the objects are closed, which may fail.  The number of blocks of   *)
(* an empty object wraps around, and reading them fails.                   *)
mio_cmd_obj_copy(from, to, hints, n, ok) ==
    LET f == store[from]
        t == IF store[to].there THEN store[to] ELSE Created(hints)
        more == n > Len(t.data)
    IN  /\ f.there /\ t.pool # Killed
        /\ n <= Len(f.data)
        /\ ok => n = Len(f.data) /\ n > 0
        /\ \E r \in {0} \cup (IF f.data = <<>> THEN {BlocksPerOp}
                              ELSE n..Least(n + BlocksPerOp, Len(f.data))),
              w \in (IF more THEN {n} ELSE {0, n}) :
             /\ f.count + r <= MaxHot /\ t.count + w <= MaxHot
             /\ store' = [store EXCEPT
                  ![from] = obj_stats_update(f, r),
                  ![to]   = [obj_stats_update(t, w) EXCEPT !.data = Over(f.data, @, n)]]

(* A step of the move that fails ends the command.                         *)
Copy(from, to, hints, then) ==
    \/ \E n \in 0..MaxBlocks : \/ mio_cmd_obj_copy(from, to, hints, n, TRUE) /\ sh' = [sh EXCEPT !.at = then]
                               \/ mio_cmd_obj_copy(from, to, hints, n, FALSE) /\ sh' = Prompt
    \/ sh' = Prompt /\ UNCHANGED store

(* A stranded object has its only copy under the temporary identifier,     *)
(* which the next move takes for its own object.                           *)
Stranded(o) == ~Whole(o, store[o])
Kept(o)    == IF Stranded(o) /\ (sh.i # o \/ \E b \in DOMAIN store[o].data : store[o].data[b] # o)
                 THEN 0 ELSE full[o]

(* Variant: the original goes although the copy was not complete.          *)
CopyOutUnchecked ==
    /\ sh.at = "copy_out"
    /\ sh' = [sh EXCEPT !.at = "unlink"]
    /\ \E n \in 0..MaxBlocks : mio_cmd_obj_copy(sh.i, Tmp, NoMap, n, FALSE)
    /\ full' = [o \in Objs |-> Kept(o)]
    /\ UNCHANGED <<pools, cmds, sys_hints>>

CopyOut == /\ sh.at = "copy_out"
           /\ Copy(sh.i, Tmp, NoMap, "unlink")
           /\ full' = [o \in Objs |-> Kept(o)]
           /\ UNCHANGED <<pools, cmds, sys_hints>>

Unlink(o, at, then) ==
    /\ sh.at = at
    /\ \/ store' = [store EXCEPT ![o] = NoObj] /\ sh' = [sh EXCEPT !.at = then]
       \/ sh' = Prompt /\ UNCHANGED store
    /\ UNCHANGED <<pools, cmds, sys_hints, full>>

UnlinkOld == Unlink(sh.i, "unlink", "copy_back")

(* Variant: the hint is not passed on.                                     *)
CopyBackNoHint == /\ sh.at = "copy_back"
                  /\ Copy(Tmp, sh.i, NoMap, "unlink_tmp")
                  /\ UNCHANGED <<pools, cmds, sys_hints, full>>

CopyBack == /\ sh.at = "copy_back"
            /\ Copy(Tmp, sh.i, HotHint(sh.hot), "unlink_tmp")
            /\ UNCHANGED <<pools, cmds, sys_hints, full>>

UnlinkTmp == Unlink(Tmp, "unlink_tmp", "moved")

Moved == /\ sh.at = "moved"
         /\ sh' = [NextObj EXCEPT !.at = IF sh.i + 1 < sh.end THEN "move" ELSE "prompt"]
         /\ UNCHANGED <<pools, cmds, store, sys_hints, full>>

hsm_move_one == hsm_obj_if_move \/ CopyOut \/ UnlinkOld \/ CopyBack \/ UnlinkTmp \/ Moved

------------------------------------------------------------------------------
HsmNext ==
    \/ Start \/ Crash
    \/ \E key \in DOMAIN sys_hint_table, thld \in Thlds : hsm_set_obj_thld(key, thld)
    \/ hsm_shell_run_cmd("create", 0, NrObjs, 0)
    \/ hsm_shell_run_cmd("workload", 0, NrObjs, MaxBlocks)
    \/ \E idx \in Objs, nr \in 1..NrObjs :
         \/ hsm_shell_run_cmd("move", idx, idx + Cut(idx, nr), 0)
         \/ \E blocks \in 1..MaxBlocks : hsm_shell_run_cmd("write", idx, idx + Cut(idx, nr), blocks)
         \/ hsm_shell_run_cmd("read", idx, Cut(idx, nr), MaxBlocks)
    \/ mio_cmd_obj_touch \/ CreateCleanup
    \/ mio_cmd_obj_write \/ mio_cmd_obj_read \/ hsm_workload_generate
    \/ hsm_move_one

HsmSpec == HsmInit /\ [][HsmNext]_vars

------------------------------------------------------------------------------
(* hsm_move_one, wherever it fails or the process ends: what was stored in *)
(* an object is whole under its own identifier or under the temporary one, *)
(* until a move of another object takes the latter.                        *)
MoveKeepsData == \A o \in Objs :
    full[o] > 0 => Whole(o, store[o]) \/ Whole(o, store[Tmp])

(* A move that succeeds has put the object into the pool of its hotness,   *)
(* with the content it had, and has left no temporary object, provided     *)
(* there was none before it (a longer one leaves its tail in the object);  *)
(* a hotness of 0 is no hint for mio_obj_create.                           *)
MoveArrives == sh.at = "moved" =>
    /\ ~store[Tmp].there
    /\ sh.clean => store[sh.i].data = sh.before
    /\ sh.hot > 0 => store[sh.i].pool = mio_obj_hotness_to_pool_idx(sys_hints, pools.nr, sh.hot)

(* mio_obj_hotness_to_pool_idx with the thresholds that the next command   *)
(* finds, where there are pools and they divide the thresholds' distance:  *)
(* an object is given one of the pools, a hotter one never a slower pool,  *)
(* and of three or more pools none is left without objects.                *)
PoolsOrdered ==
    (sh.at = "prompt" /\ pools.nr > 0 /\ Even(sys_hints, pools.nr)) =>
        TiersOrdered(sys_hints, pools.nr)

(* What the code does not achieve (see README.md): the object that was     *)
(* moved is where its hotness, as a next move sees it, says.               *)
MoveSettles == sh.at = "moved" =>
    store[sh.i].pool = mio_obj_hotness_to_pool_idx(sys_hints, pools.nr, store[sh.i].count)
==============================================================================
