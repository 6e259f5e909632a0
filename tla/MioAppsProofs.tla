---------------------------- MODULE MioAppsProofs ----------------------------
(***************************************************************************)
(* Proofs about MioApps for any configuration files, any number of         *)
(* threads, objects and blocks, and any number of calls of mio_init.       *)
(***************************************************************************)
EXTENDS MioApps, MioConfProofs, FiniteSetTheorems, TLAPS

(***************************************************************************)
(* The stages of mio_init: which of them have an instance, and which a     *)
(* client of Motr.                                                         *)
(***************************************************************************)
ClientStages == {"lookup", "create", "telemetry"}
DriverStages == {"perm", "log", "client"} \cup ClientStages

HasClient == stage \in ClientStages \/ (stage = "out" /\ instance = "set")

StageInv ==
    /\ stage \in {"out", "conf"} \cup DriverStages
    /\ inits \in Nat /\ strays \in Nat
    /\ clients = strays + (IF HasClient THEN 1 ELSE 0)
    /\ stage = "out"  => instance # "live"
    /\ stage = "conf" => instance = "live"
    /\ stage \in DriverStages => instance = "set"
    /\ telem_ops # "NULL" => stage = "out" /\ instance = "set" /\ telem_ops = conf.telem

(* The stages of a call of mio_init keep it, whichever of them fails.      *)
LEMMA InitStepStage ==
    ASSUME StageInv, InitStep \/ (\E f \in DOMAIN Files : mio_init(f))
    PROVE  StageInv' /\ (stage = "out" => inits' > 0) /\ (inits' = inits \/ inits' = inits + 1)
  <1>1. CASE \E f \in DOMAIN Files : mio_init(f)
    BY <1>1 DEF mio_init, StageInv, HasClient, ClientStages, DriverStages
  <1>2. CASE OpenFails
    BY <1>2 DEF OpenFails, ConfFails, StageInv, HasClient, ClientStages, DriverStages
  <1>3. CASE ScanForever
    BY <1>3 DEF ScanForever, initVars, StageInv, HasClient, ClientStages, DriverStages
  <1>4. CASE mio_conf_init
    <2>1. /\ stage = "conf" /\ UNCHANGED <<file, clients, telem_ops, attrs_kvs, inits, strays>>
          /\ \/ stage' = "out" /\ instance' = "NULL"
             \/ stage' = "perm" /\ instance' = "set"
      BY <1>4 DEF mio_conf_init, ConfFails, Pass
    <2> QED BY <2>1 DEF StageInv, HasClient, ClientStages, DriverStages
  <1>5. CASE mio_motr_user_perm \/ mio_log_init \/ mio_motr_init
    BY <1>5 DEF mio_motr_user_perm, mio_log_init, mio_motr_init, Pass, InitFails,
                StageInv, HasClient, ClientStages, DriverStages
  <1>6. CASE AttrsLookup \/ AttrsCreate
    BY <1>6 DEF AttrsLookup, AttrsCreate, AttrsFail, Pass, InitFails,
                StageInv, HasClient, ClientStages, DriverStages
  <1>7. CASE mio_telemetry_init
    BY <1>7 DEF mio_telemetry_init, Pass, InitFails,
                StageInv, HasClient, ClientStages, DriverStages
  <1> QED BY <1>1, <1>2, <1>3, <1>4, <1>5, <1>6, <1>7 DEF InitStep

(* mio_fini ends the client and the telemetry.                             *)
LEMMA FiniStage ==
    ASSUME StageInv, mio_fini
    PROVE  StageInv' /\ stage' = "out" /\ inits' = inits
  BY DEF mio_fini, StageInv, HasClient, ClientStages, DriverStages

(* What leaves the instance alone keeps what is said of it.                *)
LEMMA SameStage ==
    ASSUME StageInv, UNCHANGED <<stage, conf, instance, clients, telem_ops, inits, strays>>
    PROVE  StageInv'
  BY DEF StageInv, HasClient


(* The programs touch the instance with mio_fini only.                     *)
LEMMA ProgramSteps ==
    ASSUME RwThreads \/ RwLock \/ Async
    PROVE  UNCHANGED initVars \/ mio_fini
  <1>1. CASE RwThreads
    BY <1>1 DEF RwThreads, RwtStep, RwtMainStep, RwtMain, mio_rwt_start, mio_rwt_stop, RwtFini,
                RwtReturn, ThreadStep, rwt_writer_take, rwt_obj_open, io_thread_obj_write, io_thread_obj_read,
                rwt_writer_put, rwt_reader_check, rwt_reader_put, rwt_reader_remove, rwt_leave,
                SpuriousWakeup
  <1>2. CASE RwLock
    BY <1>2 DEF RwLock, RwlStep, RwlMainStep, RwlMain, RwlPrepared, mio_rwl_start, mio_rwl_stop,
                RwlUnlink, RwlFini, RwlReturn, LockerStep, rwl_obj_open, rwl_obj_lock, rwl_task, rwl_io,
                rwl_print_io, rwl_obj_unlock, LockFails
  <1>3. CASE Async
    BY <1>3 DEF Async, AioStep, CallStep, AioOpen, obj_io_async_init, AioLaunch, LaunchFails,
                obj_read_data_from_file, AioUnlock, obj_wait_on_all_ops, obj_io_async_fini,
                SlotsAbort, AioFini, MotrStep, OpEnds, FileSeek, FileWrite, obj_io_cb
  <1> QED BY <1>1, <1>2, <1>3

(* Every step of a process keeps StageInv.                                 *)
LEMMA StageNext == StageInv /\ [Next]_vars => StageInv'
  <1> SUFFICES ASSUME StageInv, [Next]_vars PROVE StageInv'
    OBVIOUS
  <1>1. CASE UNCHANGED initVars
    BY <1>1, SameStage DEF initVars
  <1>2. CASE mio_fini
    BY <1>2, FiniStage
  <1>3. CASE Start \/ Startup
    BY <1>3, InitStepStage DEF Start, Startup
  <1>4. CASE Other
    BY <1>4, SameStage DEF Other, OtherCreates
  <1> QED BY <1>1, <1>2, <1>3, <1>4, ProgramSteps DEF Next, Library, vars

(* At first there is no instance.                                          *)
LEMMA StageInitially == Init => StageInv
  BY DEF Init, InstanceInit, StageInv, HasClient, ClientStages, DriverStages

(* Whatever sequence of calls of mio_init and mio_fini a process makes,    *)
(* with whatever files, and whichever stages of mio_init fail: outside of  *)
(* these calls there is one client of Motr, and telemetry, exactly while   *)
(* MIO is up, but for the clients left by a failed mio_telemetry_init.     *)
THEOREM NothingIsLeftRunning == Spec => []NothingLeftRunning
  <1>1. StageInv => NothingLeftRunning
    BY DEF StageInv, HasClient, ClientStages, DriverStages, NothingLeftRunning
  <1> QED BY <1>1, StageInitially, StageNext, PTL DEF Spec


(* A process touches the configuration with mio_init and mio_fini only.    *)
LEMMA ConfNext == ConfInv /\ [Next]_vars => ConfInv'
  <1> SUFFICES ASSUME ConfInv, [Next]_vars PROVE ConfInv'
    OBVIOUS
  <1>1. CASE UNCHANGED initVars
    BY <1>1, SameConf DEF initVars
  <1>2. CASE mio_fini
    BY <1>2, FiniConf
  <1>3. CASE Start \/ Startup
    BY <1>3, InitStepConf DEF Start, Startup
  <1>4. CASE Other
    BY <1>4, SameConf DEF Other, OtherCreates
  <1> QED BY <1>1, <1>2, <1>3, <1>4, ProgramSteps DEF Next, Library, vars

(* Whatever files a process has given to mio_init before, and however      *)
(* these calls have ended, a mio_init that got past mio_conf_init works    *)
(* with every setting, the pools and the default pool of its own file, and *)
(* mio_conf.c never frees or reads what it has not set.                    *)
THEOREM ConfIsAsDeclared == Spec => []ConfAsDeclared
  <1>1. Init => ConfInv
    BY StartConf DEF Init
  <1> QED BY <1>1, ConfNext, ConfInvSays, PTL DEF Spec


(***************************************************************************)
(* The asynchronous transfer.                                              *)
(***************************************************************************)
OpStates == {"flight", "seek", "write", "lock", "done", "freed"}
OpResults == {"ok", "err", "cut"}
AioOp == [at : Nat, n : Nat, st : OpStates, rc : OpResults]
AioIo == [write : BOOLEAN, step : AioSteps, left : 0..AioBlocks, rc : Int]

AioType ==
    /\ call \in {"init", "slots", "launch", "wait", "free", "fini", "exit"}
    /\ io \in AioIo
    /\ ops \in Seq(AioOp)
    /\ on_fly \in Nat
    /\ slots \in [len : Nat, set : SUBSET Nat, over : BOOLEAN]
    /\ DOMAIN moved = 1..AioBlocks
    /\ fpos \in Nat
    /\ ghost \in [ended : BOOLEAN, clash : BOOLEAN]

(* The operations whose callback has yet to count them off.                *)
OnFly == {i \in 1..Len(ops) : ops[i].st \notin {"done", "freed"}}

(* What becomes of an operation at the end.                                *)
Disposed(st, has) == (has => st = "freed") /\ (~has => st = "done")

(* The count, the slots and the operations agree, in every place of the    *)
(* caller: all callbacks wait for it while it launches operations, so that *)
(* each operation gets the next slot, if there is one, and it frees none   *)
(* before all are done.                                                    *)
AioCount ==
    /\ slots.over => io.step > BlocksPerOp
    /\ ~slots.over => Len(ops) <= slots.len
    /\ slots.set = {k - 1 : k \in 1..Len(ops)}
    /\ IsFiniteSet(OnFly) /\ on_fly = Cardinality(OnFly)
    /\ call \in {"init", "slots"} => ops = <<>> /\ io.left = AioBlocks
    /\ call = "launch" => /\ OnFly = 1..Len(ops) /\ io.step >= 1
                          /\ slots.len = (AioBlocks + io.step - 1) \div io.step
                          /\ (io.left > 0 /\ io.step <= BlocksPerOp) =>
                                Len(ops) * io.step = AioBlocks - io.left
    /\ call \notin {"fini", "exit"} => \A i \in 1..Len(ops) : ops[i].st # "freed"
    /\ call = "free" => OnFly = {}
    /\ call = "fini" => \A i \in 1..Len(ops) : Disposed(ops[i].st, i <= slots.len)
    /\ call = "exit" => OnFly = {}

(* The operations cover what was launched, and those that are over have    *)
(* moved their blocks.                                                     *)
AioMoved ==
    /\ \A b \in 1..AioBlocks - io.left : \E i \in 1..Len(ops) : b \in Blocks(ops[i])
    /\ ~ghost.clash => \A i \in 1..Len(ops) : ops[i].st = "write" =>
          /\ fpos = ops[i].at
          /\ \A j \in 1..Len(ops) : ops[j].st = "write" => i = j
    /\ ~ghost.clash => \A i \in 1..Len(ops) :
          (ops[i].st \in {"lock", "done", "freed"} /\ ops[i].rc = "ok") =>
             \A b \in 1..AioBlocks : b \in Blocks(ops[i]) => moved[b] = b
    /\ (io.rc = 0 /\ ~ghost.ended /\ call \in {"wait", "free", "fini", "exit"}) => io.left = 0

AioInv == AioType /\ AioCount /\ AioMoved

(* The number of operations launched so far.                               *)
LEMMA IntervalCard ==
    ASSUME NEW k \in Nat
    PROVE  IsFiniteSet(1..k) /\ Cardinality(1..k) = k
  BY FS_Interval

(* There is a slot for an operation that begins before the end.            *)
LEMMA SlotsSuffice ==
    ASSUME NEW s \in Nat, s >= 1, NEW k \in Nat, NEW B \in Nat, k * s < B
    PROVE  (B + s - 1) \div s > k
  <1> DEFINE x == B + s - 1
             q == x \div s
  <1>1. x \in Nat /\ x >= k * s + s /\ k * s + s = (k + 1) * s
    OBVIOUS
  <1>2. q \in Int /\ x = s * q + (x % s) /\ x % s \in 0..s-1
    BY <1>1
  <1>3. s * q > s * k
    BY <1>1, <1>2
  <1> QED BY <1>2, <1>3

(* What a step of Motr's threads does to its operation and to no other.    *)
OpTurns(i, x, r) ==
    /\ ops' \in Seq(AioOp) /\ Len(ops') = Len(ops)
    /\ ops'[i].st = x /\ ops'[i].rc = r /\ Blocks(ops'[i]) = Blocks(ops[i])
    /\ ops'[i].at = ops[i].at /\ ops'[i].n = ops[i].n
    /\ \A j \in 1..Len(ops) : j # i => ops'[j] = ops[j]

(* Setting the state of an operation, with or without its return code, is  *)
(* such a turn.                                                            *)
LEMMA OpTurn ==
    ASSUME ops \in Seq(AioOp), NEW i \in 1..Len(ops), NEW x \in OpStates,
           NEW r \in OpResults,
           \/ ops' = [ops EXCEPT ![i].st = x] /\ r = ops[i].rc
           \/ ops' = [ops EXCEPT ![i].st = x, ![i].rc = r]
    PROVE  OpTurns(i, x, r)
  <1>1. ops[i] \in AioOp
    OBVIOUS
  <1>2. CASE ops' = [ops EXCEPT ![i].st = x] /\ r = ops[i].rc
    <2>1. [ops[i] EXCEPT !.st = x] \in AioOp
      BY <1>1 DEF AioOp
    <2>2. ops' = [ops EXCEPT ![i] = [ops[i] EXCEPT !.st = x]]
      BY <1>2
    <2> QED BY <1>1, <2>1, <2>2 DEF OpTurns, AioOp, Blocks
  <1>3. CASE ops' = [ops EXCEPT ![i].st = x, ![i].rc = r]
    <2> DEFINE e == [ops[i] EXCEPT !.st = x, !.rc = r]
    <2>1. e \in AioOp
      BY <1>1 DEF AioOp
    <2>2. ops' = [ops EXCEPT ![i] = e]
      BY <1>3
    <2>3. e.st = x /\ e.rc = r /\ e.at = ops[i].at /\ e.n = ops[i].n
      BY <1>1 DEF AioOp
    <2> HIDE DEF e
    <2> QED BY <1>1, <2>1, <2>2, <2>3 DEF OpTurns, Blocks
  <1> QED BY <1>2, <1>3


(* The steps of the caller that launch and free nothing.                   *)
LEMMA AioQuietSteps ==
    ASSUME AioInv, AioOpen \/ obj_io_async_init \/ AioUnlock \/ obj_wait_on_all_ops
    PROVE  AioInv'
  <1>0. /\ AioBlocks \in Nat /\ AioBlocks >= 1 /\ AioSteps \subseteq Nat /\ BlocksPerOp \in Nat
    BY AioAssumption, ExamplesAssumption
  <1>1. /\ ops' = ops /\ on_fly' = on_fly /\ moved' = moved /\ fpos' = fpos /\ ghost' = ghost
        /\ OnFly' = OnFly
    BY DEF AioOpen, obj_io_async_init, AioUnlock, obj_wait_on_all_ops, OnFly
  <1>2. CASE AioOpen
    <2>1. /\ call = "init" /\ slots' = slots
          /\ \/ call' = "slots" /\ io' = io
             \/ call' \in {"fini", "exit"} /\ io' = [io EXCEPT !.rc = 0 - 1]
      BY <1>2 DEF AioOpen, AioErr
    <2>2. ops = <<>> /\ io.left = AioBlocks
      BY <2>1 DEF AioInv, AioCount
    <2>3. AioType'
      BY <1>1, <2>1 DEF AioInv, AioType, AioIo
    <2>4. io'.left = AioBlocks /\ io'.step = io.step /\ (call' # "slots" => io'.rc = 0 - 1)
      BY <2>1, <2>2 DEF AioInv, AioType, AioIo
    <2>5. AioCount'
      BY <1>1, <2>1, <2>2, <2>4 DEF AioInv, AioCount, OnFly
    <2>6. AioMoved'
      BY <1>0, <1>1, <2>1, <2>2, <2>4 DEF AioInv, AioMoved
    <2> QED BY <2>3, <2>5, <2>6 DEF AioInv
  <1>3. CASE obj_io_async_init
    <2>1. /\ call = "slots"
          /\ \/ /\ call' = "launch" /\ io' = io /\ io.step > 0
                /\ slots' = [slots EXCEPT !.len = (AioBlocks + io.step - 1) \div io.step]
             \/ call' \in {"fini", "exit"} /\ io' = [io EXCEPT !.rc = 0 - 1] /\ slots' = slots
      BY <1>3 DEF obj_io_async_init, AioErr
    <2>2. ops = <<>> /\ io.left = AioBlocks /\ io.step \in Nat
      BY <1>0, <2>1 DEF AioInv, AioCount, AioType, AioIo
    <2>3. io.step > 0 => (AioBlocks + io.step - 1) \div io.step \in Nat
      BY <1>0, <2>2
    <2>4. /\ slots' \in [len : Nat, set : SUBSET Nat, over : BOOLEAN]
          /\ slots'.set = slots.set /\ slots'.over = slots.over
          /\ call' = "launch" => slots'.len = (AioBlocks + io.step - 1) \div io.step
      BY <2>1, <2>3 DEF AioInv, AioType
    <2>5. /\ io' \in AioIo
          /\ io'.left = AioBlocks /\ io'.step = io.step /\ (call' # "launch" => io'.rc = 0 - 1)
      BY <2>1, <2>2 DEF AioInv, AioType, AioIo
    <2>6. AioType'
      BY <1>1, <2>1, <2>4, <2>5 DEF AioInv, AioType
    <2>7. AioCount'
      BY <1>0, <1>1, <2>1, <2>2, <2>4, <2>5 DEF AioInv, AioCount, OnFly
    <2>8. AioMoved'
      BY <1>0, <1>1, <2>1, <2>2, <2>5 DEF AioInv, AioMoved
    <2> QED BY <2>6, <2>7, <2>8 DEF AioInv
  <1>4. CASE AioUnlock \/ obj_wait_on_all_ops
    <2>1. /\ io' = io /\ slots' = slots
          /\ \/ call = "launch" /\ io.left = 0 /\ call' = "wait"
             \/ call = "wait" /\ on_fly = 0 /\ call' = "free"
      BY <1>4 DEF AioUnlock, obj_wait_on_all_ops
    <2>2. call' = "free" => OnFly = {}
      BY <2>1, FS_EmptySet DEF AioInv, AioCount
    <2>3. AioType'
      BY <1>1, <2>1 DEF AioInv, AioType
    <2>4. AioCount'
      BY <1>1, <2>1, <2>2 DEF AioInv, AioCount
    <2>5. AioMoved'
      BY <1>1, <2>1 DEF AioInv, AioMoved
    <2> QED BY <2>3, <2>4, <2>5 DEF AioInv
  <1> QED BY <1>2, <1>3, <1>4

(* What a pass of the loop launches: at least a block, no more than are    *)
(* left, and the step or what is left of it, if an operation may have it.  *)
LEMMA NextCountIs ==
    ASSUME AioType, io.step >= 1, io.left > 0
    PROVE  /\ NextCount \in Nat /\ NextCount >= 1 /\ NextCount <= io.left
           /\ (io.step <= BlocksPerOp /\ io.left - NextCount > 0) => NextCount = io.step
  <1>1. /\ io.step \in Nat /\ io.left \in Nat /\ BlocksPerOp \in Nat /\ BlocksPerOp >= 1
    <2>1. io.step \in AioSteps /\ io.left \in 0..AioBlocks
      BY DEF AioType, AioIo
    <2>2. AioBlocks \in Nat /\ AioSteps \subseteq Nat
      BY AioAssumption
    <2>3. io.step \in Nat
      BY <2>1, <2>2, Zenon
    <2>4. io.left \in Nat
      BY <2>1, <2>2
    <2> QED BY <2>3, <2>4, ExamplesAssumption
  <1> DEFINE m == Bcount(BlocksPerOp, io.step)
  <1>2. m \in Nat /\ m >= 1 /\ (io.step <= BlocksPerOp => m = io.step)
    BY <1>1 DEF Bcount
  <1> HIDE DEF m
  <1>3. NextCount = IF io.left > m THEN m ELSE io.left
    BY DEF NextCount, Bcount, m
  <1> QED BY <1>1, <1>2, <1>3

(* A pass of the loop that ends it before all blocks are launched.         *)
LEMMA AioBreakInv ==
    ASSUME AioInv, LaunchFails \/ obj_read_data_from_file
    PROVE  AioInv'
  <1>0. /\ call = "launch" /\ call' = "wait" /\ io.left > 0 /\ io.step >= 1 /\ AioType
        /\ UNCHANGED <<ops, on_fly, slots, moved, fpos>>
    BY DEF AioInv, AioCount, LaunchFails, obj_read_data_from_file
  <1>1. PICK i \in Int : /\ io' = [io EXCEPT !.rc = i]
                         /\ \/ i # 0 /\ ghost' = ghost
                            \/ ghost' = [ghost EXCEPT !.ended = i = 0]
    <2>1. CASE LaunchFails
      BY <2>1 DEF LaunchFails, AioErr
    <2>2. CASE obj_read_data_from_file
      <3>1. NextCount \in Nat
        BY <1>0, NextCountIs
      <3>2. PICK i \in 0..NextCount - 1 : /\ io' = [io EXCEPT !.rc = i]
                                          /\ ghost' = [ghost EXCEPT !.ended = i = 0]
        BY <2>2 DEF obj_read_data_from_file
      <3> QED BY <3>1, <3>2
    <2> QED BY <2>1, <2>2
  <1>2. /\ io' \in AioIo /\ io'.left = io.left /\ io'.step = io.step /\ io'.rc = i
    BY <1>0, <1>1 DEF AioType, AioIo
  <1>3. /\ ghost' \in [ended : BOOLEAN, clash : BOOLEAN] /\ (~ghost'.clash => ~ghost.clash)
        /\ i = 0 => ghost'.ended
    BY <1>0, <1>1 DEF AioType
  <1>4. OnFly' = OnFly
    BY <1>0 DEF OnFly
  <1>5. AioType'
    BY <1>0, <1>2, <1>3 DEF AioType
  <1>6. AioCount'
    BY <1>0, <1>2, <1>4 DEF AioInv, AioCount
  <1>7. AioMoved'
    BY <1>0, <1>2, <1>3 DEF AioInv, AioMoved
  <1> QED BY <1>5, <1>6, <1>7 DEF AioInv

(* A pass of the loop: a new operation, in the next slot.                  *)
LEMMA AioLaunchInv ==
    ASSUME AioInv, AioLaunch
    PROVE  AioInv'
  <1> DEFINE bcount == NextCount
             n == Len(ops)
             new == [at |-> AioBlocks - io.left, n |-> bcount, st |-> "flight", rc |-> "ok"]
  <1>0. /\ AioBlocks \in Nat /\ AioBlocks >= 1 /\ io.step \in Nat /\ io.step >= 1
        /\ io.left \in Nat /\ io.left <= AioBlocks /\ io.left > 0 /\ BlocksPerOp \in Nat
        /\ call = "launch" /\ n \in Nat /\ ops \in Seq(AioOp)
    BY AioAssumption, ExamplesAssumption DEF AioInv, AioType, AioIo, AioCount, AioLaunch
  <1>1. /\ moved' = moved /\ fpos' = fpos /\ ghost' = ghost
    BY DEF AioLaunch
  <1>2. /\ bcount \in Nat /\ bcount >= 1 /\ bcount <= io.left
        /\ (io.step <= BlocksPerOp /\ io.left - bcount > 0) => bcount = io.step
    BY <1>0, NextCountIs DEF AioInv
  <1>4. CASE /\ ops' = Append(ops, new)
             /\ slots' = [slots EXCEPT !.set = @ \cup {on_fly}, !.over = @ \/ on_fly >= slots.len]
             /\ on_fly' = on_fly + 1
             /\ io' = [io EXCEPT !.left = @ - bcount]
             /\ UNCHANGED call
    <2>1. new \in AioOp /\ Blocks(new) = AioBlocks - io.left + 1 .. AioBlocks - io.left + bcount
      BY <1>0, <1>2 DEF AioOp, OpStates, OpResults, Blocks
    <2>1a. new.st = "flight"
      OBVIOUS
    <2> HIDE DEF new, bcount
    <2>2. /\ ops' \in Seq(AioOp) /\ Len(ops') = n + 1 /\ ops'[n + 1] = new
          /\ \A i \in 1..n : ops'[i] = ops[i]
      BY <1>0, <1>4, <2>1
    <2>3. /\ io' \in AioIo
          /\ io'.left = io.left - bcount /\ io'.step = io.step /\ io'.rc = io.rc
      <3>1. io.left - bcount \in 0..AioBlocks
        BY <1>0, <1>2
      <3> QED BY <1>4, <3>1 DEF AioInv, AioType, AioIo
    <2>4. on_fly = n /\ OnFly = 1..n /\ (io.step <= BlocksPerOp => slots.len > n)
      <3>1. /\ OnFly = 1..n /\ on_fly = Cardinality(OnFly)
            /\ io.step <= BlocksPerOp => n * io.step = AioBlocks - io.left
            /\ slots.len = (AioBlocks + io.step - 1) \div io.step
        BY <1>0 DEF AioInv, AioCount
      <3>2. on_fly = n
        BY <1>0, <3>1, IntervalCard
      <3>3. io.step <= BlocksPerOp => n * io.step < AioBlocks
        BY <1>0, <3>1
      <3>4. io.step <= BlocksPerOp => (AioBlocks + io.step - 1) \div io.step > n
        BY <1>0, <3>3, SlotsSuffice
      <3> QED BY <3>1, <3>2, <3>4
    <2>5. /\ slots' \in [len : Nat, set : SUBSET Nat, over : BOOLEAN]
          /\ slots'.over => io.step > BlocksPerOp
          /\ ~slots'.over => n + 1 <= slots'.len
          /\ slots'.set = slots.set \cup {n} /\ slots'.len = slots.len
      <3>1. /\ slots \in [len : Nat, set : SUBSET Nat, over : BOOLEAN]
            /\ slots.over => io.step > BlocksPerOp
        BY DEF AioInv, AioType, AioCount
      <3>2. PICK o \in BOOLEAN : o <=> (slots.over \/ on_fly >= slots.len)
        BY <3>1
      <3>3. slots' = [slots EXCEPT !.set = slots.set \cup {n}, !.over = o]
        BY <1>4, <2>4, <3>1, <3>2, Zenon
      <3>4. /\ slots' \in [len : Nat, set : SUBSET Nat, over : BOOLEAN] /\ slots'.over = o
            /\ slots'.set = slots.set \cup {n} /\ slots'.len = slots.len
        BY <1>0, <3>1, <3>3
      <3>5. o => io.step > BlocksPerOp
        BY <1>0, <2>4, <3>1, <3>2
      <3>6. ~o => n + 1 <= slots.len
        BY <1>0, <2>4, <3>1, <3>2
      <3> QED BY <3>4, <3>5, <3>6
    <2>6. OnFly' = 1..n+1
      <3>1. ASSUME NEW i \in 1..n+1 PROVE ops'[i].st \notin {"done", "freed"}
        <4>1. CASE i = n + 1
          BY <2>1a, <2>2, <4>1
        <4>2. CASE i # n + 1
          <5>1. i \in 1..n
            BY <1>0, <4>2
          <5> QED BY <2>2, <2>4, <5>1 DEF OnFly
        <4> QED BY <4>1, <4>2
      <3> QED BY <2>2, <3>1 DEF OnFly
    <2>7. AioType'
      BY <1>0, <1>1, <1>4, <2>2, <2>3, <2>4, <2>5 DEF AioInv, AioType
    <2>8. AioCount'
      <3>1. slots'.set = {k - 1 : k \in 1..n+1}
        <4>1. slots.set = {k - 1 : k \in 1..n}
          BY DEF AioInv, AioCount
        <4>2. slots'.set = slots.set \cup {n}
          BY <2>5
        <4> QED BY <1>0, <4>1, <4>2
      <3>2. IsFiniteSet(1..n+1) /\ Cardinality(1..n+1) = n + 1
        BY <1>0, IntervalCard
      <3>3. (io'.left > 0 /\ io.step <= BlocksPerOp) => (n + 1) * io.step = AioBlocks - io'.left
        <4>1. io.step <= BlocksPerOp => n * io.step = AioBlocks - io.left
          BY <1>0 DEF AioInv, AioCount
        <4>2. (n + 1) * io.step = n * io.step + io.step
          BY <1>0
        <4> QED BY <1>0, <1>2, <2>3, <4>1, <4>2
      <3>4. \A i \in 1..n+1 : ops'[i].st # "freed"
        BY <2>6 DEF OnFly
      <3>5. slots'.len = (AioBlocks + io'.step - 1) \div io'.step
        BY <1>0, <2>3, <2>5 DEF AioInv, AioCount
      <3> QED BY <1>0, <1>4, <2>2, <2>3, <2>4, <2>5, <2>6, <3>1, <3>2, <3>3, <3>4, <3>5 DEF AioCount
    <2>9. AioMoved'
      <3>1. ASSUME NEW b \in 1..AioBlocks - io'.left PROVE \E i \in 1..n+1 : b \in Blocks(ops'[i])
        <4>1. CASE b <= AioBlocks - io.left
          <5>1. PICK i \in 1..n : b \in Blocks(ops[i])
            BY <1>0, <4>1 DEF AioInv, AioMoved
          <5> QED BY <1>0, <2>2, <5>1
        <4>2. CASE b > AioBlocks - io.left
          <5>1. b \in Blocks(new) /\ n + 1 \in 1..n+1
            BY <1>0, <1>2, <2>1, <2>3, <4>2, SMTT(30)
          <5> QED BY <2>2, <5>1
        <4> QED BY <1>0, <2>3, <4>1, <4>2
      <3>2. \A i \in 1..n+1 : ops'[i].st \notin {"flight"} => i \in 1..n /\ ops'[i] = ops[i]
        BY <1>0, <2>1a, <2>2
      <3> QED BY <1>0, <1>1, <1>4, <2>2, <3>1, <3>2 DEF AioInv, AioMoved
    <2> QED BY <2>7, <2>8, <2>9 DEF AioInv
  <1> QED BY <1>4 DEF AioLaunch


(* All operations are done, and those that have slots are freed.           *)
LEMMA AioFreeInv ==
    ASSUME AioInv, obj_io_async_fini
    PROVE  AioInv'
  <1> DEFINE n == Len(ops)
  <1>0. /\ ops \in Seq(AioOp) /\ n \in Nat /\ call = "free" /\ call' = "fini"
        /\ OnFly = {} /\ slots.set = {k - 1 : k \in 1..n}
        /\ io' = io /\ on_fly' = on_fly /\ slots' = slots /\ moved' = moved /\ fpos' = fpos /\ ghost' = ghost
        /\ ops' = [i \in 1..n |-> IF i - 1 \in slots.set /\ i <= slots.len
                                  THEN [ops[i] EXCEPT !.st = "freed"] ELSE ops[i]]
    BY DEF AioInv, AioType, AioCount, obj_io_async_fini
  <1>1. \A i \in 1..n : i - 1 \in slots.set /\ ops[i] \in AioOp
    BY <1>0
  <1>2. ops' = [i \in 1..n |-> IF i <= slots.len THEN [ops[i] EXCEPT !.st = "freed"] ELSE ops[i]]
    BY <1>0, <1>1
  <1>3. ASSUME NEW i \in 1..n
        PROVE  /\ [ops[i] EXCEPT !.st = "freed"] \in AioOp
               /\ [ops[i] EXCEPT !.st = "freed"].st = "freed"
               /\ [ops[i] EXCEPT !.st = "freed"].rc = ops[i].rc
               /\ Blocks([ops[i] EXCEPT !.st = "freed"]) = Blocks(ops[i])
    BY <1>1 DEF AioOp, OpStates, Blocks
  <1>5. \A i \in 1..n : ops[i].st = "done"
    BY <1>0 DEF AioInv, AioCount, OnFly, AioType, AioOp, OpStates
  <1>4. /\ ops' \in Seq(AioOp) /\ Len(ops') = n
        /\ \A i \in 1..n : /\ Disposed(ops'[i].st, i <= slots.len)
                            /\ Blocks(ops'[i]) = Blocks(ops[i]) /\ ops'[i].rc = ops[i].rc
    <2>1. ops' \in [1..n -> AioOp]
      BY <1>1, <1>2, <1>3
    <2>2. ops' \in Seq(AioOp) /\ Len(ops') = n
      BY <1>0, <2>1
    <2>3. ASSUME NEW i \in 1..n
          PROVE  /\ Disposed(ops'[i].st, i <= slots.len)
                 /\ Blocks(ops'[i]) = Blocks(ops[i]) /\ ops'[i].rc = ops[i].rc
      <3>1. CASE i <= slots.len
        <4>1. ops'[i] = [ops[i] EXCEPT !.st = "freed"]
          BY <1>2, <3>1
        <4> QED BY <1>3, <3>1, <4>1 DEF Disposed
      <3>2. CASE ~(i <= slots.len)
        <4>1. ops'[i] = ops[i]
          BY <1>2, <3>2
        <4> QED BY <1>5, <3>2, <4>1 DEF Disposed
      <3> QED BY <3>1, <3>2
    <2> QED BY <2>2, <2>3
  <1>6. OnFly' = {}
    BY <1>4 DEF OnFly, Disposed
  <1>7. AioType'
    BY <1>0, <1>4 DEF AioInv, AioType
  <1>8. AioCount'
    BY <1>0, <1>4, <1>6 DEF AioInv, AioCount
  <1>9. AioMoved'
    BY <1>0, <1>4, <1>5 DEF AioInv, AioMoved
  <1> QED BY <1>7, <1>8, <1>9 DEF AioInv

(* What a callback has to show: its operation turns to state x, and is     *)
(* counted off when it is done.                                            *)
LEMMA TurnCounts ==
    ASSUME AioInv, NEW i \in 1..Len(ops), ops[i].st \notin {"done", "freed"},
           NEW x \in OpStates \ {"freed"}, NEW r, OpTurns(i, x, r), slots' = slots, io' = io, call' = call,
           on_fly' = IF x = "done" THEN on_fly - 1 ELSE on_fly,
           x = "done" => call # "launch"
    PROVE  AioCount' /\ on_fly' \in Nat /\ ops' \in Seq(AioOp)
  <1> DEFINE n == Len(ops)
  <1>0. /\ n \in Nat /\ i \in OnFly /\ Len(ops') = n /\ on_fly \in Nat
        /\ IsFiniteSet(OnFly) /\ on_fly = Cardinality(OnFly) /\ AioCount
    <2>1. AioCount /\ ops \in Seq(AioOp) /\ on_fly \in Nat
      BY DEF AioInv, AioType
    <2>2. n \in Nat /\ i \in OnFly /\ Len(ops') = n
      BY <2>1 DEF OnFly, OpTurns
    <2> QED BY <2>1, <2>2 DEF AioCount
  <1>0a. call \notin {"fini", "exit"}
    <2>1. ~Disposed(ops[i].st, i <= slots.len)
      BY DEF Disposed
    <2> QED BY <1>0, <2>1 DEF AioCount
  <1>1. \A j \in 1..n : j # i => ops'[j].st = ops[j].st
    BY DEF OpTurns
  <1>2. CASE x = "done"
    <2>1. OnFly' = OnFly \ {i}
      BY <1>0, <1>1, <1>2 DEF OnFly, OpTurns
    <2>2. IsFiniteSet(OnFly') /\ Cardinality(OnFly') = on_fly - 1
      BY <1>0, <2>1, FS_RemoveElement
    <2>3. on_fly - 1 \in Nat
      BY <2>2, FS_CardinalityType
    <2> QED BY <1>0, <1>0a, <1>1, <1>2, <2>1, <2>2, <2>3 DEF AioCount, OpTurns
  <1>3. CASE x # "done"
    <2>1. OnFly' = OnFly
      BY <1>0, <1>1, <1>3 DEF OnFly, OpTurns
    <2> QED BY <1>0, <1>0a, <1>1, <1>3, <2>1 DEF AioCount, OpTurns
  <1> QED BY <1>2, <1>3

(* ... and that it has moved its blocks, and no other callback is at the   *)
(* file, unless two have met there.                                        *)
AtFile == \A j \in 1..Len(ops) : ops[j].st = "write" =>
    /\ fpos = ops[j].at
    /\ \A k \in 1..Len(ops) : ops[k].st = "write" => j = k

(* A turn keeps that, if it does the same to the blocks and to the file    *)
(* position.                                                               *)
LEMMA TurnMoves ==
    ASSUME AioInv, NEW i \in 1..Len(ops), NEW x \in OpStates, NEW r, OpTurns(i, x, r),
           io' = io, call' = call, ghost'.ended = ghost.ended,
           ~ghost'.clash => ~ghost.clash /\ AtFile',
           ~ghost'.clash => \A b \in 1..AioBlocks : moved'[b] = b \/ moved'[b] = moved[b],
           (~ghost'.clash /\ x \in {"lock", "done"} /\ r = "ok") =>
              \A b \in 1..AioBlocks : b \in Blocks(ops[i]) => moved'[b] = b,
           x # "freed"
    PROVE  AioMoved'
  <1> DEFINE n == Len(ops)
  <1>0. AioMoved /\ Len(ops') = n /\ \A j \in 1..n : Blocks(ops'[j]) = Blocks(ops[j])
    BY DEF AioInv, OpTurns
  <1>1. \A b \in 1..AioBlocks - io'.left : \E j \in 1..Len(ops') : b \in Blocks(ops'[j])
    BY <1>0 DEF AioMoved
  <1>2. ~ghost'.clash => \A j \in 1..Len(ops') : ops'[j].st = "write" =>
          /\ fpos' = ops'[j].at
          /\ \A k \in 1..Len(ops') : ops'[k].st = "write" => j = k
    BY <1>0 DEF AtFile
  <1>3. ASSUME ~ghost'.clash, NEW j \in 1..n,
               ops'[j].st \in {"lock", "done", "freed"}, ops'[j].rc = "ok",
               NEW b \in 1..AioBlocks, b \in Blocks(ops'[j])
        PROVE  moved'[b] = b
    <2>1. CASE j = i
      BY <1>0, <1>3, <2>1 DEF OpTurns
    <2>2. CASE j # i
      <3>1. ops[j].st \in {"lock", "done", "freed"} /\ ops[j].rc = "ok" /\ b \in Blocks(ops[j])
        BY <1>0, <1>3, <2>2 DEF OpTurns
      <3>2. moved[b] = b
        BY <1>0, <1>3, <3>1 DEF AioMoved
      <3> QED BY <1>3, <3>2
    <2> QED BY <2>1, <2>2
  <1>4. (io'.rc = 0 /\ ~ghost'.ended /\ call' \in {"wait", "free", "fini", "exit"}) => io'.left = 0
    BY <1>0 DEF AioMoved
  <1> QED BY <1>0, <1>1, <1>2, <1>3, <1>4 DEF AioMoved

(* The steps of Motr's threads.                                            *)
LEMMA MotrStepInv ==
    ASSUME AioInv, NEW i \in 1..Len(ops), MotrStep(i)
    PROVE  AioInv'
  <1> DEFINE n == Len(ops)
  <1>0. /\ AioType /\ AioCount /\ AioMoved /\ ops \in Seq(AioOp) /\ n \in Nat
        /\ ops[i] \in AioOp /\ AioBlocks \in Nat
    BY AioAssumption DEF AioInv, AioType
  <1>1. /\ ops[i].at \in Nat /\ ops[i].n \in Nat /\ fpos \in Nat /\ ops[i].rc \in OpResults
    BY <1>0 DEF AioOp, AioType
  <1>2. /\ call' = call /\ io' = io /\ slots' = slots
    BY DEF MotrStep, OpEnds, FileSeek, FileWrite, obj_io_cb
  <1>3. CASE OpEnds(i)
    <2>0. /\ ops[i].st = "flight" /\ on_fly' = on_fly /\ fpos' = fpos /\ ghost' = ghost
      BY <1>3 DEF OpEnds
    <2>1. PICK x \in {"lock", "seek"}, r \in OpResults :
            /\ OpTurns(i, x, r) /\ DOMAIN moved' = 1..AioBlocks
            /\ \A b \in 1..AioBlocks : moved'[b] = b \/ moved'[b] = moved[b]
            /\ x = "lock" /\ r = "ok" => \A b \in 1..AioBlocks : b \in Blocks(ops[i]) => moved'[b] = b
      <3>1. CASE ops' = [ops EXCEPT ![i].st = "lock", ![i].rc = "err"] /\ UNCHANGED moved
        <4>1. OpTurns(i, "lock", "err") /\ "err" \in OpResults
          BY <1>0, <3>1, OpTurn DEF OpStates, OpResults
        <4> QED BY <1>0, <3>1, <4>1 DEF AioType
      <3>2. CASE io.write /\ ops' = [ops EXCEPT ![i].st = "lock"]
                 /\ moved' = [b \in DOMAIN moved |-> IF b \in Blocks(ops[i]) THEN b ELSE moved[b]]
        <4>1. OpTurns(i, "lock", ops[i].rc)
          BY <1>0, <1>1, <3>2, OpTurn DEF OpStates
        <4> QED BY <1>0, <1>1, <3>2, <4>1 DEF AioType
      <3>3. CASE ops' = [ops EXCEPT ![i].st = "seek"] /\ moved' = moved
        <4>1. OpTurns(i, "seek", ops[i].rc)
          BY <1>0, <1>1, <3>3, OpTurn DEF OpStates
        <4> QED BY <1>0, <1>1, <3>3, <4>1 DEF AioType
      <3> QED BY <1>3, <3>1, <3>2, <3>3 DEF OpEnds
    <2>2. AioCount' /\ on_fly' \in Nat /\ ops' \in Seq(AioOp)
      BY <1>2, <2>0, <2>1, TurnCounts DEF OpStates
    <2>3. AioType'
      BY <1>0, <1>2, <2>0, <2>1, <2>2 DEF AioType
    <2>4. AioMoved'
      <3>1. ~ghost'.clash => ~ghost.clash /\ AtFile'
        BY <1>0, <2>0, <2>1 DEF AioMoved, AtFile, OpTurns
      <3> QED BY <1>2, <2>0, <2>1, <3>1, TurnMoves DEF OpStates
    <2> QED BY <2>2, <2>3, <2>4 DEF AioInv
  <1>5. CASE FileSeek(i)
    <2>0. /\ ops[i].st = "seek" /\ on_fly' = on_fly /\ fpos' = ops[i].at /\ moved' = moved
          /\ ghost' = [ghost EXCEPT !.clash = @ \/ \E j \in 1..n : ops[j].st = "write"]
          /\ OpTurns(i, "write", ops[i].rc)
      BY <1>0, <1>1, <1>5, OpTurn DEF FileSeek, OpStates
    <2>1. /\ ghost' \in [ended : BOOLEAN, clash : BOOLEAN] /\ ghost'.ended = ghost.ended
          /\ ~ghost'.clash => ~ghost.clash /\ \A j \in 1..n : ops[j].st # "write"
      BY <1>0, <2>0 DEF AioType
    <2>1a. ~ghost'.clash => ~ghost.clash /\ AtFile'
      BY <2>0, <2>1 DEF AtFile, OpTurns
    <2>2. AioCount' /\ on_fly' \in Nat /\ ops' \in Seq(AioOp)
      BY <1>2, <2>0, TurnCounts DEF OpStates
    <2>3. AioType'
      BY <1>0, <1>1, <1>2, <2>0, <2>1, <2>2 DEF AioType
    <2>4. AioMoved'
      BY <1>2, <2>0, <2>1, <2>1a, TurnMoves DEF OpStates
    <2> QED BY <2>2, <2>3, <2>4 DEF AioInv
  <1>6. CASE FileWrite(i)
    <2>a. PICK k \in 0..ops[i].n, r \in {"ok", "cut"} :
          /\ moved' = [b \in DOMAIN moved |->
                         IF b - fpos \in 1..k THEN ops[i].at + b - fpos ELSE moved[b]]
          /\ fpos' = fpos + k
          /\ ops' = [ops EXCEPT ![i].st = "lock", ![i].rc = r]
          /\ r = "ok" => k = ops[i].n
      BY <1>6 DEF FileWrite
    <2>0. /\ ops[i].st = "write" /\ on_fly' = on_fly /\ ghost' = ghost
          /\ OpTurns(i, "lock", r) /\ k \in Nat
      <3>1. ops[i].st = "write" /\ on_fly' = on_fly /\ ghost' = ghost /\ k \in Nat
        BY <1>1, <1>6, <2>a DEF FileWrite
      <3>2. "lock" \in OpStates /\ r \in OpResults
        BY DEF OpStates, OpResults
      <3> QED BY <1>0, <2>a, <3>1, <3>2, OpTurn
    <2>1. ~ghost.clash =>
            /\ \A b \in 1..AioBlocks : moved'[b] = b \/ moved'[b] = moved[b]
            /\ r = "ok" => \A b \in 1..AioBlocks : b \in Blocks(ops[i]) => moved'[b] = b
            /\ \A j \in 1..n : ops'[j].st # "write"
      <3> SUFFICES ASSUME ~ghost.clash
                   PROVE  /\ \A b \in 1..AioBlocks : moved'[b] = b \/ moved'[b] = moved[b]
                          /\ r = "ok" => \A b \in 1..AioBlocks : b \in Blocks(ops[i]) => moved'[b] = b
                          /\ \A j \in 1..n : ops'[j].st # "write"
        OBVIOUS
      <3>1. fpos = ops[i].at /\ \A j \in 1..n : ops[j].st = "write" => i = j
        BY <1>0, <2>0 DEF AioMoved
      <3>2. ASSUME NEW b \in 1..AioBlocks
            PROVE  /\ moved'[b] = b \/ moved'[b] = moved[b]
                   /\ r = "ok" /\ b \in Blocks(ops[i]) => moved'[b] = b
        <4>1. moved'[b] = IF b - fpos \in 1..k THEN ops[i].at + b - fpos ELSE moved[b]
          BY <1>0, <2>a DEF AioType
        <4>2. ops[i].at + b - fpos = b
          BY <1>0, <1>1, <3>1
        <4>3. r = "ok" /\ b \in Blocks(ops[i]) => b - fpos \in 1..k
          BY <1>0, <1>1, <2>a, <3>1 DEF Blocks
        <4> QED BY <4>1, <4>2, <4>3
      <3>3. \A j \in 1..n : ops'[j].st # "write"
        BY <2>0, <3>1 DEF OpTurns
      <3> QED BY <3>2, <3>3
    <2>2. AioCount' /\ on_fly' \in Nat /\ ops' \in Seq(AioOp)
      BY <1>2, <2>0, TurnCounts DEF OpStates
    <2>3. AioType'
      BY <1>0, <1>1, <1>2, <2>a, <2>0, <2>2 DEF AioType
    <2>4. AioMoved'
      <3>1. ~ghost'.clash => ~ghost.clash /\ AtFile'
        BY <2>0, <2>1 DEF AtFile, OpTurns
      <3> QED BY <1>2, <2>0, <2>1, <3>1, TurnMoves DEF OpStates
    <2> QED BY <2>2, <2>3, <2>4 DEF AioInv
  <1>7. CASE obj_io_cb(i)
    <2>0. /\ ops[i].st = "lock" /\ on_fly' = on_fly - 1 /\ ghost' = ghost /\ moved' = moved
          /\ fpos' = fpos /\ call # "launch" /\ OpTurns(i, "done", ops[i].rc)
      BY <1>0, <1>1, <1>7, OpTurn DEF obj_io_cb, OpStates
    <2>2. AioCount' /\ on_fly' \in Nat /\ ops' \in Seq(AioOp)
      BY <1>2, <2>0, TurnCounts DEF OpStates
    <2>3. AioType'
      BY <1>0, <1>2, <2>0, <2>2 DEF AioType
    <2>4. AioMoved'
      BY <1>0, <1>2, <2>0, SMTT(30) DEF AioMoved, OpTurns
    <2> QED BY <2>2, <2>3, <2>4 DEF AioInv
  <1> QED BY <1>3, <1>5, <1>6, <1>7 DEF MotrStep


(* Nothing is launched at first.                                           *)
LEMMA AioInitially == Init => AioInv
  <1> SUFFICES ASSUME Init PROVE AioInv
    OBVIOUS
  <1>0. AioBlocks \in Nat /\ AioBlocks >= 1
    BY AioAssumption
  <1>1. /\ call = "init" /\ ops = <<>> /\ on_fly = 0 /\ fpos = 0
        /\ io \in [write : BOOLEAN, step : AioSteps, left : {AioBlocks}, rc : {0}]
        /\ slots = [len |-> 0, set |-> {}, over |-> FALSE]
        /\ moved = [b \in 1..AioBlocks |-> 0] /\ ghost = [ended |-> FALSE, clash |-> FALSE]
    BY DEF Init, AioInit
  <1>2. io.left = AioBlocks /\ AioBlocks \in 0..AioBlocks
    BY <1>0, <1>1
  <1>3. AioType
    BY <1>0, <1>1, <1>2 DEF AioType, AioIo
  <1>4. OnFly = {} /\ IsFiniteSet(OnFly) /\ Cardinality(OnFly) = 0
    BY <1>1, FS_EmptySet DEF OnFly
  <1>5. AioCount
    BY <1>1, <1>2, <1>4 DEF AioCount
  <1>6. AioMoved
    BY <1>0, <1>1, <1>2 DEF AioMoved
  <1> QED BY <1>3, <1>5, <1>6 DEF AioInv

(* Every step of a process keeps AioInv.                                   *)
LEMMA AioNext == AioInv /\ [Next]_vars => AioInv'
  <1> SUFFICES ASSUME AioInv, [Next]_vars PROVE AioInv'
    OBVIOUS
  <1>1. CASE UNCHANGED aioVars
    <2>1. AioType'
      BY <1>1 DEF aioVars, AioInv, AioType
    <2>2. AioCount'
      BY <1>1 DEF aioVars, AioInv, AioCount, OnFly
    <2>3. AioMoved'
      BY <1>1 DEF aioVars, AioInv, AioMoved
    <2> QED BY <2>1, <2>2, <2>3 DEF AioInv
  <1>2. CASE AioFini
    <2>1. /\ call = "fini" /\ call' = "exit"
          /\ UNCHANGED <<io, ops, on_fly, slots, moved, fpos, ghost>>
      BY <1>2 DEF AioFini
    <2>2. AioType'
      BY <2>1 DEF AioInv, AioType
    <2>3. AioCount'
      BY <2>1 DEF AioInv, AioCount, OnFly, Disposed
    <2>4. AioMoved'
      BY <2>1 DEF AioInv, AioMoved
    <2> QED BY <2>2, <2>3, <2>4 DEF AioInv
  <1>2a. CASE SlotsAbort
    <2>1. /\ call = "free" /\ call' = "exit" /\ io' = [io EXCEPT !.rc = 0 - 1]
          /\ UNCHANGED <<ops, on_fly, slots, moved, fpos, ghost>>
      BY <1>2a DEF SlotsAbort, AioErr
    <2>2. /\ io' \in AioIo /\ io'.rc = 0 - 1 /\ io'.left = io.left /\ io'.step = io.step
      BY <2>1 DEF AioInv, AioType, AioIo
    <2>3. AioType'
      BY <2>1, <2>2 DEF AioInv, AioType
    <2>4. AioCount'
      BY <2>1, <2>2 DEF AioInv, AioCount, OnFly
    <2>5. AioMoved'
      BY <2>1, <2>2 DEF AioInv, AioMoved
    <2> QED BY <2>3, <2>4, <2>5 DEF AioInv
  <1>3. CASE Async
    BY <1>2, <1>2a, <1>3, AioQuietSteps, AioBreakInv, AioLaunchInv, AioFreeInv, MotrStepInv
       DEF Async, AioStep, CallStep
  <1> QED BY <1>1, <1>3 DEF Next, Start, Startup, Library, Other, RwThreads, RwLock, vars

(* The invariant of a transfer holds of every reachable state.             *)
LEMMA AioInvariance == Spec => []AioInv
  BY AioInitially, AioNext, PTL DEF Spec

(* However the callbacks and the caller interleave, for any number of      *)
(* blocks and any step, 0 and those above the limit of an operation too:   *)
(* no operation is freed, and the object not closed, before every callback *)
(* is through; the array of slots is overrun, and an operation left over,  *)
(* only with a step above that limit.                                      *)
THEOREM AsyncIsSafe == Spec => []AsyncSafe
  <1>1. ASSUME AioInv PROVE AsyncSafe
    <2>1. call = "free" => \A i \in 1..Len(ops) : ops[i].st = "done"
      BY <1>1 DEF AioInv, AioCount, OnFly
    <2>2. slots.over \in BOOLEAN /\ AioCount /\ io.step \in Nat /\ BlocksPerOp \in Nat
      BY <1>1, AioAssumption, ExamplesAssumption DEF AioInv, AioType, AioIo
    <2>3. call = "fini" /\ io.step <= BlocksPerOp => Len(ops) <= slots.len
      BY <2>2 DEF AioCount
    <2>4. call = "fini" => \A i \in 1..Len(ops) :
                               ops[i].st = IF i <= slots.len THEN "freed" ELSE "done"
      BY <2>2 DEF AioCount, Disposed
    <2> QED BY <2>1, <2>2, <2>3, <2>4 DEF AioCount, AsyncSafe
  <1> QED BY <1>1, AioInvariance, PTL

(* For any number of blocks, any step, any order of the callbacks and any  *)
(* failures: unless two callbacks met at the output file, a transfer that  *)
(* is over has moved every block it has launched, but for those of failed  *)
(* operations; and it returns 0 with blocks not launched only if the       *)
(* source file ended where an operation begins.                            *)
THEOREM AsyncIsComplete == Spec => []AsyncComplete
  <1>1. ASSUME AioInv PROVE AsyncComplete
    <2> SUFFICES ASSUME Transferred
                 PROVE  /\ ~ghost.clash => \A b \in DOMAIN moved :
                              \/ moved[b] = b
                              \/ b > AioBlocks - io.left
                              \/ \E i \in 1..Len(ops) : b \in Blocks(ops[i]) /\ ops[i].rc # "ok"
                        /\ io.rc = 0 /\ ~ghost.ended => io.left = 0
      BY DEF AsyncComplete
    <2>1. ASSUME ~ghost.clash, NEW b \in DOMAIN moved, ~(b > AioBlocks - io.left)
          PROVE  \/ moved[b] = b
                 \/ \E i \in 1..Len(ops) : b \in Blocks(ops[i]) /\ ops[i].rc # "ok"
      <3>1. /\ b \in 1..AioBlocks /\ AioBlocks \in Nat /\ io.left \in 0..AioBlocks
        BY <1>1, AioAssumption DEF AioInv, AioType, AioIo
      <3>2. \A i \in 1..Len(ops) : ops[i].st \in {"done", "freed"}
        BY <1>1 DEF AioInv, AioCount, Transferred, OnFly, Disposed
      <3>3. b \in 1..AioBlocks - io.left
        BY <2>1, <3>1
      <3>4. PICK i \in 1..Len(ops) : b \in Blocks(ops[i])
        BY <1>1, <3>3 DEF AioInv, AioMoved
      <3> QED BY <1>1, <2>1, <3>1, <3>2, <3>4 DEF AioInv, AioMoved
    <2>2. io.rc = 0 /\ ~ghost.ended => io.left = 0
      BY <1>1 DEF AioInv, AioMoved, Transferred
    <2> QED BY <2>1, <2>2
  <1> QED BY <1>1, AioInvariance, PTL


(***************************************************************************)
(* mio_rw_threads: where the objects are.  hand[t] is the object thread t  *)
(* has in its hand, w and r are the two lists, k the number of objects     *)
(* that are finished.                                                      *)
(***************************************************************************)
On(s, o)     == \E i \in 1..Len(s) : s[i] = o
Distinct(s)  == \A i, j \in 1..Len(s) : s[i] = s[j] => i = j
RwtThreads   == Writers \cup Readers
Finished(h, w, r) == {o \in Objs : ~On(w, o) /\ ~On(r, o) /\ \A t \in RwtThreads : h[t] # o}

With(S, x) == S \cup {x}

Custody(h, w, r, k) ==
    /\ Distinct(w) /\ Distinct(r)
    /\ \A o \in Objs : ~(On(w, o) /\ On(r, o))
    /\ \A o \in Objs, t \in RwtThreads : h[t] = o =>
          ~On(w, o) /\ ~On(r, o) /\ \A u \in RwtThreads : h[u] = o => u = t
    /\ IsFiniteSet(Finished(h, w, r)) /\ Cardinality(Finished(h, w, r)) = k

InHand(h, w, r, k, j, t) ==
    /\ h \in [RwtThreads -> Objs \cup {NoTodo}] /\ t \in RwtThreads /\ h[t] \in Objs
    /\ Custody(h, w, r, k) /\ k \in Nat /\ j = k + 1

hand == [t \in RwtThreads |-> IF thr[t].pc = "remove" THEN NoTodo ELSE thr[t].todo]

RwtThread == [pc : {"none", "take", "check", "wait", "open", "io", "put", "remove", "leave", "gone"},
              todo : Objs \cup {NoTodo}, left : Nat, rc : {"ok", "err"}, all_done : BOOLEAN]

Sums == [w : Nat, r : Int]

RwtType ==
    /\ main \in {"init", "start", "join", "fini", "return", "exit"}
    /\ spawned \in 0..2*NrThreads
    /\ thr \in [RwtThreads -> RwtThread]
    /\ wlist \in Seq(Objs) /\ rlist \in Seq(Objs)
    /\ nr \in [done : Nat, failed : Nat, matched : Nat]
    /\ sums \in [Objs -> Sums] /\ stored \in [Objs -> Int]

(* Where a thread may be, and what it has there.                           *)
Idle   == {"none", "take", "check", "wait", "leave", "gone"}
AtWork == {"open", "io", "put", "remove"}
ThreadOK(t) ==
    /\ t \in Writers => thr[t].pc \in {"none", "take", "open", "io", "put", "leave", "gone"}
    /\ t \in Readers => thr[t].pc \in (Idle \cup AtWork) \ {"take"}
    /\ thr[t].pc \in Idle => thr[t].todo = NoTodo
    /\ thr[t].pc \in AtWork => thr[t].todo \in Objs
    /\ thr[t].pc \in {"open", "io"} => thr[t].rc = "ok"
    /\ thr[t].pc = "io" => thr[t].left >= 1
    /\ thr[t].pc = "none" <=> t > spawned

(* The life of the program: it has threads only if MIO was up, and, if it  *)
(* could start them all, goes on when they have all ended.                 *)
RwtLife ==
    /\ app # "rwt" => main = "init"
    /\ main = "init" => /\ wlist = <<>> /\ rlist = <<>>
                        /\ nr = [done |-> 0, failed |-> 0, matched |-> 0]
    /\ (main = "init" \/ instance = "NULL") =>
          spawned = 0 /\ \A t \in RwtThreads : thr[t] = Thread
    /\ (app = "rwt" /\ main = "init") => instance \in {"NULL", "live", "set"}
    /\ main # "init" => inits > 0 /\ stage = "out"
    /\ main \in {"start", "join"} => instance = "set"
    /\ main = "fini" => instance \in {"NULL", "set"}
    /\ main = "join" => spawned = 2 * NrThreads
    /\ (main \in {"fini", "return", "exit"} /\ spawned = 2 * NrThreads) =>
          \A t \in RwtThreads : thr[t].pc = "gone"

(* The digests of what was written and of what is being read, and what the *)
(* object has.                                                             *)
Written(o) == sums[o].w = BlockCount /\ stored[o] = BlockCount
DigestOK(t) ==
    LET o == thr[t].todo IN
    /\ (t \in Writers /\ thr[t].pc = "io") => sums[o].w + thr[t].left = BlockCount
    /\ (t \in Writers /\ thr[t].pc = "put" /\ thr[t].rc = "ok") => Written(o)
    /\ (t \in Readers /\ thr[t].pc \in {"open", "io", "put"}) => Written(o)
    /\ (t \in Readers /\ thr[t].pc = "io") => sums[o].r + thr[t].left = BlockCount
    /\ (t \in Readers /\ thr[t].pc = "put" /\ thr[t].rc = "ok") => sums[o].r = BlockCount

(* A thread leaves when there is nothing left for it.                      *)
LeaveOK(t) ==
    /\ (t \in Writers /\ thr[t].pc \in {"leave", "gone"}) => wlist = <<>>
    /\ (t \in Readers /\ (thr[t].pc \in {"leave", "gone"} \/ thr[t].all_done)) => AllDone(nr)

(* An object that is being removed is in nobody else's hands.              *)
Over == Finished(hand, wlist, rlist)
RemoveOK(t) == thr[t].pc = "remove" => thr[t].todo \in Over

RwtWork ==
    /\ Custody(hand, wlist, rlist, nr.done + nr.failed)
    /\ \A t \in RwtThreads : DigestOK(t) /\ LeaveOK(t) /\ RemoveOK(t)
    /\ \A i \in 1..Len(rlist) : Written(rlist[i])
    /\ nr.matched = nr.done

RwtInv ==
    /\ RwtType /\ RwtLife
    /\ \A t \in RwtThreads : ThreadOK(t)
    /\ (main # "init" /\ instance # "NULL") => RwtWork


(* The head of a list, and what is left without it.                        *)
LEMMA TakeHead ==
    ASSUME NEW w \in Seq(Objs), w # <<>>, Distinct(w)
    PROVE  /\ Head(w) \in Objs /\ Tail(w) \in Seq(Objs) /\ Distinct(Tail(w))
           /\ \A o : On(w, o) <=> (On(Tail(w), o) \/ o = Head(w))
           /\ ~On(Tail(w), Head(w))
           /\ \A i \in 1..Len(Tail(w)) : \E j \in 1..Len(w) : Tail(w)[i] = w[j]
  <1>1. /\ Head(w) = w[1] /\ Tail(w) \in Seq(Objs) /\ Len(Tail(w)) = Len(w) - 1 /\ Len(w) \in Nat
        /\ Len(w) >= 1 /\ w[1] \in Objs /\ \A i \in 1..Len(w) - 1 : Tail(w)[i] = w[i+1]
    OBVIOUS
  <1>2. Distinct(Tail(w))
    BY <1>1 DEF Distinct
  <1>3. ASSUME NEW o PROVE On(w, o) <=> (On(Tail(w), o) \/ o = Head(w))
    <2>1. ASSUME NEW i \in 1..Len(w), w[i] = o, i # 1 PROVE On(Tail(w), o)
      <3>1. i - 1 \in 1..Len(w) - 1 /\ Tail(w)[i-1] = w[i]
        BY <1>1, <2>1
      <3> QED BY <3>1, <2>1, <1>1 DEF On
    <2>2. ASSUME NEW i \in 1..Len(Tail(w)), Tail(w)[i] = o PROVE On(w, o)
      BY <1>1, <2>2 DEF On
    <2>3. 1 \in 1..Len(w)
      BY <1>1
    <2> QED BY <2>1, <2>2, <2>3, <1>1 DEF On
  <1>4. ~On(Tail(w), Head(w))
    BY <1>1 DEF On, Distinct
  <1>5. \A i \in 1..Len(Tail(w)) : i + 1 \in 1..Len(w) /\ Tail(w)[i] = w[i+1]
    BY <1>1
  <1> QED BY <1>1, <1>2, <1>3, <1>4, <1>5

(* A list with an element put in front.                                    *)
LEMMA PutInFront ==
    ASSUME NEW r \in Seq(Objs), NEW x \in Objs, Distinct(r), ~On(r, x), NEW s, s = <<x>> \o r
    PROVE  /\ s \in Seq(Objs) /\ Distinct(s)
           /\ \A o : On(s, o) <=> (On(r, o) \/ o = x)
           /\ \A i \in 1..Len(s) : s[i] = x \/ \E j \in 1..Len(r) : s[i] = r[j]
  <1>1. /\ s \in Seq(Objs) /\ Len(s) = Len(r) + 1 /\ Len(r) \in Nat /\ s[1] = x
        /\ \A i \in 2..Len(r) + 1 : s[i] = r[i-1]
    OBVIOUS
  <1>2. \A i \in 1..Len(s) : s[i] = x \/ \E j \in 1..Len(r) : s[i] = r[j]
    BY <1>1
  <1>3. Distinct(s)
    BY <1>1 DEF Distinct, On
  <1>4. \A j \in 1..Len(r) : j + 1 \in 1..Len(s) /\ s[j+1] = r[j]
    BY <1>1
  <1>5. ASSUME NEW o PROVE On(s, o) <=> (On(r, o) \/ o = x)
    BY <1>1, <1>2, <1>4 DEF On
  <1> QED BY <1>1, <1>2, <1>3, <1>5

(* The two lists play the same part.                                       *)
LEMMA CustodySym ==
    ASSUME NEW h, NEW w, NEW r, NEW k, Custody(h, w, r, k)
    PROVE  Custody(h, r, w, k) /\ Finished(h, r, w) = Finished(h, w, r)
  <1>1. Finished(h, r, w) = Finished(h, w, r)
    BY DEF Finished
  <1> QED BY <1>1 DEF Custody

(* A thread with empty hands takes the head of a list.                     *)
LEMMA CustodyTake ==
    ASSUME NEW h \in [RwtThreads -> Objs \cup {NoTodo}], NEW w \in Seq(Objs), NEW r, NEW k,
           Custody(h, w, r, k), w # <<>>, NEW t \in RwtThreads, h[t] = NoTodo
    PROVE  /\ Custody([h EXCEPT ![t] = Head(w)], Tail(w), r, k)
           /\ Finished([h EXCEPT ![t] = Head(w)], Tail(w), r) = Finished(h, w, r)
  <1> DEFINE x == Head(w)
             v == Tail(w)
             g == [h EXCEPT ![t] = x]
  <1>0. NoTodo \notin Objs
    BY RwtAssumption DEF NoTodo, Objs
  <1>1. /\ x \in Objs /\ Distinct(v) /\ \A o : On(w, o) <=> (On(v, o) \/ o = x)
        /\ ~On(v, x)
    BY TakeHead DEF Custody
  <1>2. g[t] = x /\ \A u \in RwtThreads : u # t => g[u] = h[u]
    OBVIOUS
  <1> HIDE DEF x, v, g
  <1>3. Finished(g, v, r) = Finished(h, w, r)
    BY <1>0, <1>1, <1>2 DEF Finished, Custody
  <1>4. \A u \in RwtThreads : u # t => h[u] # x
    BY <1>1 DEF Custody
  <1>5. ASSUME NEW o \in Objs, NEW u \in RwtThreads, g[u] = o
        PROVE  ~On(v, o) /\ ~On(r, o) /\ \A q \in RwtThreads : g[q] = o => q = u
    <2>1. CASE u = t
      BY <1>1, <1>2, <1>4, <1>5, <2>1 DEF Custody
    <2>2. CASE u # t
      <3>1. h[u] = o /\ o # x
        BY <1>2, <1>4, <1>5, <2>2
      <3> QED BY <1>1, <1>2, <2>2, <3>1 DEF Custody
    <2> QED BY <2>1, <2>2
  <1> QED BY <1>1, <1>3, <1>5 DEF Custody, g, v, x

(* A thread puts the object in its hand in front of the second list.       *)
LEMMA CustodyPut ==
    ASSUME NEW h \in [RwtThreads -> Objs \cup {NoTodo}], NEW w, NEW r \in Seq(Objs), NEW k,
           Custody(h, w, r, k), NEW t \in RwtThreads, h[t] \in Objs
    PROVE  /\ Custody([h EXCEPT ![t] = NoTodo], w, <<h[t]>> \o r, k)
           /\ Finished([h EXCEPT ![t] = NoTodo], w, <<h[t]>> \o r) = Finished(h, w, r)
  <1> DEFINE x == h[t]
             v == <<x>> \o r
             g == [h EXCEPT ![t] = NoTodo]
  <1>0. NoTodo \notin Objs
    BY RwtAssumption DEF NoTodo, Objs
  <1>1. /\ x \in Objs /\ ~On(r, x) /\ ~On(w, x) /\ \A u \in RwtThreads : h[u] = x => u = t
    BY DEF Custody
  <1>2. /\ Distinct(v) /\ \A o : On(v, o) <=> (On(r, o) \/ o = x)
    <2>1. Distinct(r)
      BY DEF Custody
    <2> HIDE DEF x
    <2> QED BY <1>1, <2>1, PutInFront
  <1>3. g[t] = NoTodo /\ \A u \in RwtThreads : u # t => g[u] = h[u]
    OBVIOUS
  <1> HIDE DEF v, g
  <1>4. Finished(g, w, v) = Finished(h, w, r)
    BY <1>0, <1>1, <1>2, <1>3 DEF Finished
  <1>5. ASSUME NEW o \in Objs, NEW u \in RwtThreads, g[u] = o
        PROVE  ~On(w, o) /\ ~On(v, o) /\ \A q \in RwtThreads : g[q] = o => q = u
    <2>1. u # t /\ h[u] = o /\ o # x
      BY <1>0, <1>1, <1>3, <1>5
    <2> QED BY <1>0, <1>2, <1>3, <2>1 DEF Custody
  <1> QED BY <1>1, <1>2, <1>4, <1>5 DEF Custody, g, v

(* A thread is through with the object in its hand.                        *)
LEMMA CustodyEnd ==
    ASSUME NEW h, NEW w, NEW r, NEW k, NEW j, NEW t, InHand(h, w, r, k, j, t)
    PROVE  /\ Custody([h EXCEPT ![t] = NoTodo], w, r, j)
           /\ Finished([h EXCEPT ![t] = NoTodo], w, r) = With(Finished(h, w, r), h[t])
  <1> DEFINE x == h[t]
             g == [h EXCEPT ![t] = NoTodo]
  <1>. /\ h \in [RwtThreads -> Objs \cup {NoTodo}] /\ t \in RwtThreads /\ h[t] \in Objs
       /\ Custody(h, w, r, k) /\ k \in Nat /\ j = k + 1
    BY DEF InHand
  <1>0. NoTodo \notin Objs
    BY RwtAssumption DEF NoTodo, Objs
  <1>1. /\ x \in Objs /\ ~On(r, x) /\ ~On(w, x) /\ \A u \in RwtThreads : h[u] = x => u = t
    BY DEF Custody
  <1>2. g[t] = NoTodo /\ \A u \in RwtThreads : u # t => g[u] = h[u]
    OBVIOUS
  <1> HIDE DEF g
  <1>3. Finished(g, w, r) = Finished(h, w, r) \cup {x} /\ x \notin Finished(h, w, r)
    BY <1>0, <1>1, <1>2 DEF Finished
  <1>4. IsFiniteSet(Finished(g, w, r)) /\ Cardinality(Finished(g, w, r)) = j
    BY <1>3, FS_AddElement DEF Custody
  <1>5. ASSUME NEW o \in Objs, NEW u \in RwtThreads, g[u] = o
        PROVE  ~On(w, o) /\ ~On(r, o) /\ \A q \in RwtThreads : g[q] = o => q = u
    BY <1>0, <1>2, <1>5 DEF Custody
  <1> QED BY <1>3, <1>4, <1>5 DEF Custody, g, With

(* All are finished exactly when NrObjs are.                               *)
LEMMA CustodyAll ==
    ASSUME NEW h, NEW w, NEW r, NEW k, Custody(h, w, r, k)
    PROVE  k = NrObjs <=> \A o \in Objs : o \in Finished(h, w, r)
  <1>1. IsFiniteSet(Objs) /\ Cardinality(Objs) = NrObjs
    BY RwtAssumption, IntervalCard DEF Objs
  <1>2. Finished(h, w, r) \subseteq Objs
    BY DEF Finished
  <1>3. Finished(h, w, r) # Objs => Cardinality(Finished(h, w, r)) < Cardinality(Objs)
    <2>1. /\ Cardinality(Objs) = Cardinality(Finished(h, w, r)) => Objs = Finished(h, w, r)
          /\ Cardinality(Finished(h, w, r)) <= Cardinality(Objs)
      BY <1>1, <1>2, FS_Subset
    <2>2. Cardinality(Objs) \in Nat /\ Cardinality(Finished(h, w, r)) \in Nat
      BY <1>1, FS_CardinalityType DEF Custody
    <2> QED BY <2>1, <2>2
  <1>4. NrObjs \in Nat
    BY RwtAssumption
  <1> QED BY <1>1, <1>2, <1>3, <1>4 DEF Custody


(* A step of thread t: the other threads stay as they are, but for those   *)
(* that wait and are woken.                                                *)
Turn(t) ==
    /\ thr' \in [RwtThreads -> RwtThread]
    /\ \A u \in RwtThreads : u # t =>
          \/ thr'[u] = thr[u]
          \/ thr[u].pc = "wait" /\ thr'[u] = [thr[u] EXCEPT !.pc = "check"]

(* An assignment to the locals of a thread, with or without a broadcast,   *)
(* is such a step.                                                         *)
LEMMA TurnOf ==
    ASSUME thr \in [RwtThreads -> RwtThread], NEW t \in RwtThreads, NEW e \in RwtThread,
           thr' = Set(t, e) \/ (thr' = Broadcast(Set(t, e)) /\ e.pc # "wait")
    PROVE  Turn(t) /\ thr'[t] = e
  <1>1. CASE thr' = Set(t, e)
    BY <1>1 DEF Set, Turn
  <1>2. CASE thr' = Broadcast(Set(t, e)) /\ e.pc # "wait"
    <2> DEFINE f == [thr EXCEPT ![t] = e]
    <2>1. f \in [RwtThreads -> RwtThread] /\ f[t] = e /\ \A u \in RwtThreads : u # t => f[u] = thr[u]
      OBVIOUS
    <2>2. thr' = [u \in RwtThreads |-> IF f[u].pc = "wait" THEN [f[u] EXCEPT !.pc = "check"] ELSE f[u]]
      BY <1>2, <2>1 DEF Broadcast, Set
    <2> HIDE DEF f
    <2>3. \A u \in RwtThreads : [f[u] EXCEPT !.pc = "check"] \in RwtThread
      BY <2>1 DEF RwtThread
    <2> QED BY <1>2, <2>1, <2>2, <2>3 DEF Turn
  <1> QED BY <1>1, <1>2

(* What is in the hands after it.                                          *)
LEMMA TurnHand ==
    ASSUME thr \in [RwtThreads -> RwtThread], NEW t \in RwtThreads, Turn(t)
    PROVE  /\ hand \in [RwtThreads -> Objs \cup {NoTodo}]
           /\ hand' = [hand EXCEPT ![t] = IF thr'[t].pc = "remove" THEN NoTodo ELSE thr'[t].todo]
  <1>1. hand \in [RwtThreads -> Objs \cup {NoTodo}]
    BY DEF hand, RwtThread
  <1>2. ASSUME NEW u \in RwtThreads, u # t PROVE hand'[u] = hand[u]
    <2>1. thr'[u].todo = thr[u].todo /\ (thr'[u].pc = "remove" <=> thr[u].pc = "remove")
      BY <1>2 DEF Turn, RwtThread
    <2> QED BY <2>1 DEF hand
  <1>3. hand'[t] = IF thr'[t].pc = "remove" THEN NoTodo ELSE thr'[t].todo
    BY DEF hand
  <1>4. hand' = [u \in RwtThreads |-> hand'[u]]
    BY DEF hand
  <1> QED BY <1>1, <1>2, <1>3, <1>4

(* The life of the program and the places of its threads, when one of them *)
(* has made a step.                                                        *)
LEMMA TurnLife ==
    ASSUME RwtType, RwtLife, \A u \in RwtThreads : ThreadOK(u),
           NEW t \in RwtThreads, Turn(t), main # "exit", thr[t].pc \notin {"none", "gone"},
           UNCHANGED <<app, main, spawned, stage, instance, inits>>, ThreadOK(t)'
    PROVE  /\ main # "init" /\ instance # "NULL"
           /\ RwtLife'
           /\ \A u \in RwtThreads : ThreadOK(u)'
  <1>1. main # "init" /\ instance # "NULL"
    BY DEF RwtLife, Thread
  <1>3. RwtLife'
    BY <1>1 DEF RwtLife
  <1>4. ASSUME NEW u \in RwtThreads, u # t PROVE ThreadOK(u)'
    <2>0. thr[u] \in RwtThread
      BY DEF RwtType
    <2>1. CASE thr'[u] = thr[u]
      BY <2>1 DEF ThreadOK
    <2>2. CASE thr[u].pc = "wait" /\ thr'[u] = [thr[u] EXCEPT !.pc = "check"]
      <3>1. thr'[u].pc = "check" /\ thr'[u].todo = thr[u].todo
        BY <2>0, <2>2 DEF RwtThread
      <3> QED BY <2>2, <3>1 DEF ThreadOK, Idle, AtWork
    <2> QED BY <1>4, <2>1, <2>2 DEF Turn
  <1> QED BY <1>1, <1>3, <1>4

(* A step of thread t changes no object but that in its own hand, and      *)
(* those that are over.                                                    *)
Others(t) == \A o \in Objs : (o # hand[t] /\ o \notin Over) => sums'[o] = sums[o] /\ stored'[o] = stored[o]

(* Then the other threads find what they had.                              *)
LEMMA TurnDigests ==
    ASSUME RwtType, RwtWork, \A u \in RwtThreads : ThreadOK(u),
           NEW t \in RwtThreads, Turn(t), Others(t), Over \subseteq Over',
           (wlist = <<>> => wlist' = <<>>), (AllDone(nr) => AllDone(nr)'),
           NEW u \in RwtThreads, u # t
    PROVE  DigestOK(u)' /\ LeaveOK(u)' /\ RemoveOK(u)'
  <1>0. thr[u] \in RwtThread
    BY DEF RwtType
  <1>1. CASE thr'[u] = thr[u]
    <2>1. LeaveOK(u)'
      BY <1>1 DEF LeaveOK, RwtWork
    <2>2. ASSUME thr[u].pc \in {"open", "io", "put"}
          PROVE  sums'[thr[u].todo] = sums[thr[u].todo] /\ stored'[thr[u].todo] = stored[thr[u].todo]
      <3>1. thr[u].todo \in Objs /\ hand[u] = thr[u].todo
        BY <2>2 DEF ThreadOK, AtWork, hand
      <3>2. hand[u] # hand[t] /\ hand[u] \notin Over
        BY <3>1 DEF RwtWork, Custody, Over, Finished
      <3> QED BY <3>1, <3>2 DEF Others
    <2>3. DigestOK(u)'
      <3> DEFINE a == sums[thr[u].todo]
                 b == stored[thr[u].todo]
      <3>1. thr[u].pc \in {"open", "io", "put"} => sums'[thr[u].todo] = a /\ stored'[thr[u].todo] = b
        BY <2>2
      <3>2. DigestOK(u)
        BY DEF RwtWork
      <3> QED BY <1>1, <3>1, <3>2 DEF DigestOK, Written
    <2>4. RemoveOK(u)'
      BY <1>1 DEF RwtWork, RemoveOK
    <2> QED BY <2>1, <2>3, <2>4
  <1>2. CASE thr[u].pc = "wait" /\ thr'[u] = [thr[u] EXCEPT !.pc = "check"]
    <2>1. thr'[u].pc = "check" /\ thr'[u].all_done = thr[u].all_done
      BY <1>0, <1>2 DEF RwtThread
    <2> QED BY <1>2, <2>1 DEF RwtWork, DigestOK, LeaveOK, RemoveOK
  <1> QED BY <1>1, <1>2 DEF Turn

(* What a step of a thread has to see to.                                  *)
LEMMA TurnInv ==
    ASSUME RwtInv, NEW t \in RwtThreads, Turn(t), main # "exit", thr[t].pc \notin {"none", "gone"},
           UNCHANGED <<app, main, spawned, stage, instance, inits>>, RwtType',
           RwtWork =>
               /\ ThreadOK(t)' /\ DigestOK(t)' /\ LeaveOK(t)' /\ RemoveOK(t)'
               /\ Custody(hand', wlist', rlist', nr'.done + nr'.failed)
               /\ Others(t) /\ Over \subseteq Over'
               /\ \A i \in 1..Len(rlist') : \/ \E j \in 1..Len(rlist) : rlist'[i] = rlist[j]
                                            \/ Written(rlist[i])'
               /\ wlist = <<>> => wlist' = <<>>
               /\ AllDone(nr) => AllDone(nr)'
               /\ nr'.matched = nr'.done
    PROVE  RwtInv'
  <1>0. RwtType /\ RwtLife /\ \A u \in RwtThreads : ThreadOK(u)
    BY DEF RwtInv
  <1>1. RwtWork
    <2>1. main # "init" /\ instance # "NULL"
      BY <1>0 DEF RwtLife, Thread
    <2> QED BY <2>1 DEF RwtInv
  <1>2. RwtLife' /\ \A u \in RwtThreads : ThreadOK(u)'
    BY <1>0, <1>1, TurnLife
  <1>3. \A u \in RwtThreads : DigestOK(u)' /\ LeaveOK(u)' /\ RemoveOK(u)'
    BY <1>0, <1>1, TurnDigests
  <1>4. ASSUME NEW i \in 1..Len(rlist') PROVE Written(rlist[i])'
    <2>1. CASE \E j \in 1..Len(rlist) : rlist'[i] = rlist[j]
      <3>1. PICK j \in 1..Len(rlist) : rlist'[i] = rlist[j]
        BY <2>1
      <3>2. rlist[j] \in Objs /\ On(rlist, rlist[j])
        <4>1. rlist \in Seq(Objs)
          BY <1>0 DEF RwtType
        <4>2. rlist[j] \in Objs
          BY <4>1
        <4> QED BY <4>2 DEF On
      <3>3. rlist[j] # hand[t] /\ rlist[j] \notin Over
        BY <3>2, <1>1 DEF RwtWork, Custody, Over, Finished
      <3> QED BY <1>1, <3>1, <3>2, <3>3 DEF RwtWork, Written, Others
    <2> QED BY <1>1, <1>4, <2>1
  <1> QED BY <1>1, <1>2, <1>3, <1>4 DEF RwtInv, RwtWork


(* A thread is a writer or a reader.                                       *)
LEMMA WriterOrReader ==
    ASSUME NEW t \in RwtThreads
    PROVE  t \in Int /\ (t \in Writers <=> t \notin Readers)
  BY RwtAssumption DEF RwtThreads, Writers, Readers

(* A writer takes an object, or leaves.                                    *)
LEMMA TakeInv ==
    ASSUME RwtInv, NEW t \in RwtThreads, main # "exit", rwt_writer_take(t), app' = app
    PROVE  RwtInv'
  <1>0. /\ RwtType /\ ThreadOK(t) /\ thr[t] \in RwtThread /\ thr \in [RwtThreads -> RwtThread]
        /\ wlist \in Seq(Objs)
    BY DEF RwtInv, RwtType
  <1>1. /\ thr[t].pc = "take" /\ t \in Writers /\ t \notin Readers
        /\ UNCHANGED <<app, main, spawned, stage, instance, inits, rlist, nr, sums, stored>>
    BY <1>0, WriterOrReader DEF rwt_writer_take, ThreadOK, initVars
  <1>1a. Others(t)
    BY <1>1 DEF Others
  <1>2. thr[t].todo = NoTodo /\ hand[t] = NoTodo
    BY <1>0, <1>1 DEF ThreadOK, Idle, hand
  <1>3. CASE wlist = <<>>
    <2> DEFINE e == [thr[t] EXCEPT !.pc = "leave"]
    <2>1. e \in RwtThread /\ e.pc = "leave" /\ e.todo = NoTodo
      BY <1>0, <1>2 DEF RwtThread
    <2>2. thr' = Set(t, e) /\ wlist' = wlist
      BY <1>3, <1>0 DEF rwt_writer_take, Goto, Set
    <2> HIDE DEF e
    <2>3. Turn(t) /\ thr'[t] = e
      BY <1>0, <2>1, <2>2, TurnOf
    <2>4. hand' = hand
      BY <1>0, <1>2, <2>1, <2>3, TurnHand
    <2>5. ThreadOK(t)'
      BY <1>0, <1>1, <2>1, <2>3 DEF ThreadOK, Idle, AtWork
    <2>6. DigestOK(t)' /\ LeaveOK(t)' /\ RemoveOK(t)'
      BY <1>1, <1>3, <2>1, <2>2, <2>3 DEF DigestOK, LeaveOK, RemoveOK
    <2>7. RwtType'
      BY <1>0, <1>1, <2>2, <2>3 DEF RwtType, Turn
    <2>8. (AllDone(nr)' = AllDone(nr)) /\ Over' = Over
      BY <1>1, <2>2, <2>4 DEF AllDone, Over, Finished
    <2> QED BY <1>1, <1>1a, <2>2, <2>3, <2>4, <2>5, <2>6, <2>7, <2>8, TurnInv DEF RwtWork
  <1>4. CASE wlist # <<>>
    <2> DEFINE e == [Thread EXCEPT !.pc = "open", !.todo = Head(wlist)]
    <2>0. Head(wlist) \in Objs /\ Tail(wlist) \in Seq(Objs)
      BY <1>0, <1>4
    <2>1. e \in RwtThread /\ e.pc = "open" /\ e.todo = Head(wlist) /\ e.rc = "ok"
      BY <2>0 DEF RwtThread, Thread
    <2>2. thr' = Set(t, e) /\ wlist' = Tail(wlist)
      BY <1>4 DEF rwt_writer_take
    <2> HIDE DEF e
    <2>3. Turn(t) /\ thr'[t] = e
      BY <1>0, <2>1, <2>2, TurnOf
    <2>4. /\ hand \in [RwtThreads -> Objs \cup {NoTodo}]
          /\ hand' = [hand EXCEPT ![t] = Head(wlist)]
      BY <1>0, <2>1, <2>3, TurnHand
    <2>5. ThreadOK(t)'
      BY <1>0, <1>1, <2>0, <2>1, <2>3 DEF ThreadOK, Idle, AtWork
    <2>6. DigestOK(t)' /\ LeaveOK(t)' /\ RemoveOK(t)'
      BY <1>1, <2>1, <2>3 DEF DigestOK, LeaveOK, RemoveOK
    <2>7. RwtType'
      BY <1>0, <1>1, <2>0, <2>2, <2>3 DEF RwtType, Turn
    <2>8. RwtWork => Custody(hand', wlist', rlist', nr'.done + nr'.failed) /\ Over' = Over
      BY <1>0, <1>1, <1>2, <1>4, <2>2, <2>4, CustodyTake DEF RwtWork, Over
    <2>9. AllDone(nr)' = AllDone(nr)
      BY <1>1 DEF AllDone
    <2> QED BY <1>1, <1>1a, <1>4, <2>3, <2>5, <2>6, <2>7, <2>8, <2>9, TurnInv DEF RwtWork
  <1> QED BY <1>3, <1>4


(* A step of the I/O of an object: it stays in the thread's hand, and no   *)
(* digest of another one is touched.                                       *)
LEMMA WorkTurn ==
    ASSUME RwtInv, NEW t \in RwtThreads, main # "exit", thr[t].pc \in {"open", "io"},
           NEW e \in RwtThread, thr' = Set(t, e), e.pc \in {"io", "put"}, e.todo = thr[t].todo,
           e.pc = "io" => e.rc = "ok" /\ e.left >= 1, e.all_done = thr[t].all_done,
           UNCHANGED <<app, main, spawned, stage, instance, inits, wlist, rlist, nr>>,
           sums' \in [Objs -> Sums], stored' \in [Objs -> Int],
           \A o \in Objs : o # thr[t].todo => sums'[o] = sums[o] /\ stored'[o] = stored[o],
           RwtWork => DigestOK(t)'
    PROVE  RwtInv'
  <1>0. /\ RwtType /\ ThreadOK(t) /\ thr[t] \in RwtThread /\ thr \in [RwtThreads -> RwtThread]
        /\ rlist \in Seq(Objs)
    BY DEF RwtInv, RwtType
  <1>1. Turn(t) /\ thr'[t] = e
    BY <1>0, TurnOf
  <1>2. hand[t] = thr[t].todo /\ thr[t].todo \in Objs
    BY <1>0 DEF hand, ThreadOK, AtWork
  <1>3. hand' = hand
    BY <1>0, <1>1, <1>2, TurnHand
  <1>4. ThreadOK(t)'
    BY <1>0, <1>1, <1>2 DEF ThreadOK, Idle, AtWork
  <1>5. RwtWork => LeaveOK(t)' /\ RemoveOK(t)'
    BY <1>1 DEF RwtWork, LeaveOK, AllDone, RemoveOK
  <1>6. RwtType'
    BY <1>0, <1>1 DEF RwtType, Turn
  <1>7. AllDone(nr)' = AllDone(nr)
    BY DEF AllDone
  <1>8. RwtWork => Custody(hand', wlist', rlist', nr'.done + nr'.failed)
    BY <1>3 DEF RwtWork
  <1>9. nr' = nr /\ (RwtWork => nr.matched = nr.done)
    BY DEF RwtWork
  <1>10. Others(t) /\ Over' = Over
    BY <1>2, <1>3 DEF Others, Over, Finished
  <1> QED BY <1>1, <1>2, <1>4, <1>5, <1>6, <1>7, <1>8, <1>9, <1>10, TurnInv


(* The object is opened, or not.                                           *)
LEMMA OpenInv ==
    ASSUME RwtInv, NEW t \in RwtThreads, main # "exit", rwt_obj_open(t), app' = app
    PROVE  RwtInv'
  <1>0. /\ ThreadOK(t) /\ thr[t] \in RwtThread /\ sums \in [Objs -> Sums] /\ stored \in [Objs -> Int]
        /\ BlockCount \in Nat /\ BlockCount >= 1
    BY RwtAssumption DEF RwtInv, RwtType
  <1>1. /\ thr[t].pc = "open" /\ thr[t].todo \in Objs /\ thr[t].rc = "ok"
        /\ UNCHANGED <<app, main, spawned, stage, instance, inits, wlist, rlist, nr>>
    BY <1>0 DEF rwt_obj_open, ThreadOK, AtWork, initVars
  <1> DEFINE o == thr[t].todo
  <1>2. CASE /\ thr' = Set(t, [thr[t] EXCEPT !.pc = "io", !.left = BlockCount])
             /\ stored' = [stored EXCEPT ![o] = IF @ < 0 THEN 0 ELSE @]
             /\ sums' = [sums EXCEPT ![o] = IF t \in Writers THEN [@ EXCEPT !.w = 0]
                                                             ELSE [@ EXCEPT !.r = 0]]
    <2> DEFINE e == [thr[t] EXCEPT !.pc = "io", !.left = BlockCount]
               d == IF t \in Writers THEN [sums[o] EXCEPT !.w = 0] ELSE [sums[o] EXCEPT !.r = 0]
    <2>1. /\ e \in RwtThread /\ e.pc = "io" /\ e.todo = thr[t].todo /\ e.left = BlockCount
          /\ e.rc = "ok" /\ e.all_done = thr[t].all_done
      BY <1>0, <1>1 DEF RwtThread
    <2>2. /\ sums[o] \in Sums /\ d \in Sums
          /\ t \in Writers => d.w = 0
          /\ t \notin Writers => d.r = 0 /\ d.w = sums[o].w
      BY <1>0, <1>1 DEF Sums
    <2>3. thr' = Set(t, e) /\ sums' = [sums EXCEPT ![o] = d]
      BY <1>2
    <2> HIDE DEF e, d
    <2>4. /\ sums' \in [Objs -> Sums] /\ sums'[o] = d
          /\ \A q \in Objs : q # o => sums'[q] = sums[q]
      BY <1>0, <1>1, <2>2, <2>3
    <2>4a. /\ stored' \in [Objs -> Int] /\ (stored[o] >= 0 => stored'[o] = stored[o])
           /\ \A q \in Objs : q # o => stored'[q] = stored[q]
      BY <1>0, <1>1, <1>2
    <2>5. thr'[t] = e
      BY <2>3 DEF Set, RwtInv, RwtType
    <2>6. ASSUME RwtWork PROVE DigestOK(t)'
      <3>1. t \in Readers => Written(o) /\ stored'[o] = stored[o]
        BY <1>0, <1>1, <2>4a, <2>6 DEF RwtWork, DigestOK, Written
      <3>2. t \in Writers => d.w + BlockCount = BlockCount
        BY <1>0, <2>2
      <3>3. t \in Readers => d.r + BlockCount = BlockCount /\ d.w = sums[o].w
        BY <1>0, <2>2, WriterOrReader
      <3> QED BY <2>1, <2>4, <2>5, <3>1, <3>2, <3>3 DEF DigestOK, Written
    <2> QED BY <1>0, <1>1, <2>1, <2>3, <2>4, <2>4a, <2>6, WorkTurn
  <1>3. CASE /\ thr' = Set(t, [thr[t] EXCEPT !.pc = "put", !.rc = "err"]) /\ sums' = sums
             /\ stored' = stored
    <2> DEFINE e == [thr[t] EXCEPT !.pc = "put", !.rc = "err"]
    <2>1. /\ e \in RwtThread /\ e.pc = "put" /\ e.todo = thr[t].todo /\ e.rc = "err"
          /\ e.all_done = thr[t].all_done
      BY <1>0 DEF RwtThread
    <2>2. thr' = Set(t, e)
      BY <1>3
    <2> HIDE DEF e
    <2>3. thr'[t] = e
      BY <2>2 DEF Set, RwtInv, RwtType
    <2>4. RwtWork => DigestOK(t)'
      BY <1>1, <1>3, <2>1, <2>3 DEF DigestOK, RwtWork, Written
    <2> QED BY <1>0, <1>1, <1>3, <2>1, <2>2, <2>4, WorkTurn
  <1> QED BY <1>2, <1>3 DEF rwt_obj_open

(* A pass over some blocks of the object leaves no fewer than one, or none.*)
LEMMA PassBlocks ==
    ASSUME NEW th \in RwtThread, th.pc = "io", th.left >= 1, th.rc = "ok"
    PROVE  LET n == Bcount(BlocksPerOp, th.left)
               e == IoPass(th, n)
               f == IoFail(th)
           IN  /\ n \in Nat /\ e \in RwtThread /\ e.pc \in {"io", "put"} /\ e.todo = th.todo
               /\ e.rc = "ok" /\ e.all_done = th.all_done /\ e.left + n = th.left
               /\ (e.pc = "io" => e.left >= 1) /\ (e.pc = "put" => e.left = 0)
               /\ f \in RwtThread /\ f.pc = "put" /\ f.todo = th.todo /\ f.rc = "err"
               /\ f.all_done = th.all_done
  <1> DEFINE n == Bcount(BlocksPerOp, th.left)
             e == IoPass(th, n)
             f == IoFail(th)
  <1>1. n \in Nat /\ n >= 1 /\ n <= th.left /\ th.left \in Nat
    BY ExamplesAssumption DEF Bcount, RwtThread
  <1> HIDE DEF n
  <1>2. th.left - n \in Nat
    BY <1>1
  <1>3. /\ e \in RwtThread /\ e.pc = (IF th.left = n THEN "put" ELSE "io") /\ e.todo = th.todo
        /\ e.rc = "ok" /\ e.all_done = th.all_done /\ e.left = th.left - n
    BY <1>2 DEF IoPass, RwtThread
  <1>4. /\ f \in RwtThread /\ f.pc = "put" /\ f.todo = th.todo /\ f.rc = "err"
        /\ f.all_done = th.all_done
    BY DEF IoFail, RwtThread
  <1> HIDE DEF e, f
  <1>5. /\ e.pc \in {"io", "put"} /\ e.left + n = th.left
        /\ (e.pc = "io" => e.left >= 1) /\ (e.pc = "put" => e.left = 0)
    BY <1>1, <1>3
  <1> QED BY <1>1, <1>3, <1>4, <1>5 DEF n, e, f

(* A pass of the loop of a writer or of a reader.                          *)
LEMMA PassInv ==
    ASSUME RwtInv, NEW t \in RwtThreads, main # "exit", app' = app,
           io_thread_obj_write(t) \/ io_thread_obj_read(t)
    PROVE  RwtInv'
  <1>0. /\ ThreadOK(t) /\ thr[t] \in RwtThread /\ sums \in [Objs -> Sums] /\ stored \in [Objs -> Int]
        /\ BlockCount \in Nat
    BY RwtAssumption DEF RwtInv, RwtType
  <1>1. /\ thr[t].pc = "io" /\ thr[t].todo \in Objs /\ thr[t].rc = "ok" /\ thr[t].left >= 1
        /\ UNCHANGED <<app, main, spawned, stage, instance, inits, wlist, rlist, nr>>
    BY <1>0 DEF io_thread_obj_write, io_thread_obj_read, ThreadOK, AtWork, initVars
  <1> DEFINE o == thr[t].todo
             n == Bcount(BlocksPerOp, thr[t].left)
             e == IoPass(thr[t], n)
             f == IoFail(thr[t])
  <1>2. /\ n \in Nat /\ e \in RwtThread /\ e.pc \in {"io", "put"} /\ e.todo = o
        /\ e.rc = "ok" /\ e.all_done = thr[t].all_done /\ e.left + n = thr[t].left
        /\ (e.pc = "io" => e.left >= 1) /\ (e.pc = "put" => e.left = 0)
        /\ f \in RwtThread /\ f.pc = "put" /\ f.todo = o /\ f.rc = "err"
        /\ f.all_done = thr[t].all_done
    BY <1>0, <1>1, PassBlocks
  <1> HIDE DEF e, f
  <1>3. n \in Nat /\ thr[t].left \in Nat /\ e.left \in Nat
    BY <1>0, <1>2 DEF RwtThread
  <1>4. CASE io_thread_obj_write(t)
    <2> DEFINE d == [sums[o] EXCEPT !.w = @ + n]
    <2>1. /\ t \in Writers /\ t \notin Readers /\ sums' = [sums EXCEPT ![o] = d]
          /\ \/ stored' = [stored EXCEPT ![o] = sums'[o].w] /\ thr' = Set(t, e)
             \/ stored' = stored /\ thr' = Set(t, f)
      BY <1>4, WriterOrReader DEF io_thread_obj_write, e, f
    <2> HIDE DEF n
    <2>2. d \in Sums /\ d.w = sums[o].w + n /\ d.w \in Nat /\ sums[o].w \in Nat
      BY <1>0, <1>1, <1>3 DEF Sums
    <2> HIDE DEF d
    <2>3. /\ sums' \in [Objs -> Sums] /\ sums'[o] = d
          /\ \A q \in Objs : q # o => sums'[q] = sums[q]
      BY <1>0, <1>1, <2>1, <2>2
    <2>4. /\ stored' \in [Objs -> Int]
          /\ \A q \in Objs : q # o => stored'[q] = stored[q]
          /\ thr' # Set(t, f) => stored'[o] = d.w
      BY <1>0, <1>1, <2>1, <2>2, <2>3
    <2>5. CASE thr' = Set(t, e) /\ stored'[o] = d.w
      <3>1. thr'[t] = e
        BY <2>5 DEF Set, RwtInv, RwtType
      <3>2. ASSUME RwtWork PROVE DigestOK(t)'
        <4>1. sums[o].w + thr[t].left = BlockCount
          BY <1>1, <2>1, <3>2 DEF RwtWork, DigestOK
        <4>2. d.w + e.left = BlockCount /\ (e.pc = "put" => d.w = BlockCount)
          BY <1>0, <1>2, <1>3, <2>2, <4>1
        <4> QED BY <1>2, <2>1, <2>3, <2>5, <3>1, <4>2 DEF DigestOK, Written
      <3> QED BY <1>0, <1>1, <1>2, <2>3, <2>4, <2>5, <3>2, WorkTurn
    <2>6. CASE thr' = Set(t, f)
      <3>1. thr'[t] = f
        BY <2>6 DEF Set, RwtInv, RwtType
      <3>2. DigestOK(t)'
        BY <1>2, <2>1, <3>1 DEF DigestOK
      <3> QED BY <1>0, <1>1, <1>2, <2>3, <2>4, <2>6, <3>2, WorkTurn
    <2> QED BY <2>1, <2>4, <2>5, <2>6
  <1>5. CASE io_thread_obj_read(t)
    <2> DEFINE x == Digest(sums[o].r, o, BlockCount - thr[t].left, n)
               d == [sums[o] EXCEPT !.r = x]
    <2>1. /\ t \in Readers /\ t \notin Writers /\ stored' = stored
          /\ \/ sums' = [sums EXCEPT ![o] = d] /\ thr' = Set(t, e)
             \/ sums' = sums /\ thr' = Set(t, f)
      BY <1>5, WriterOrReader DEF io_thread_obj_read, e, f
    <2> HIDE DEF n
    <2>2. /\ x \in Int /\ sums[o].w \in Nat /\ sums[o].r \in Int /\ stored[o] \in Int
          /\ (sums[o].r = BlockCount - thr[t].left /\ stored[o] = BlockCount) => x = sums[o].r + n
      <3>1. /\ sums[o].w \in Nat /\ sums[o].r \in Int /\ stored[o] \in Int
        BY <1>0, <1>1 DEF Sums
      <3>2. BlockCount - thr[t].left + n <= BlockCount
        BY <1>0, <1>2, <1>3
      <3> QED BY <1>0, <1>3, <3>1, <3>2 DEF Digest, Foreign
    <2> HIDE DEF x
    <2>3. d \in Sums /\ d.w = sums[o].w /\ d.r = x
      BY <1>0, <1>1, <2>2 DEF Sums
    <2> HIDE DEF d
    <2>4. /\ sums' \in [Objs -> Sums] /\ sums'[o].w = sums[o].w
          /\ \A q \in Objs : q # o => sums'[q] = sums[q]
          /\ sums' = [sums EXCEPT ![o] = d] => sums'[o].r = x
      BY <1>0, <1>1, <2>1, <2>3
    <2>5. CASE sums' = [sums EXCEPT ![o] = d] /\ thr' = Set(t, e)
      <3>1. thr'[t] = e
        BY <2>5 DEF Set, RwtInv, RwtType
      <3>2. ASSUME RwtWork PROVE DigestOK(t)'
        <4>1. sums[o].r + thr[t].left = BlockCount /\ Written(o)
          BY <1>1, <2>1, <3>2 DEF RwtWork, DigestOK
        <4>2. x = sums[o].r + n
          BY <1>0, <1>3, <2>2, <4>1 DEF Written
        <4>3. x + e.left = BlockCount /\ (e.pc = "put" => x = BlockCount)
          BY <1>0, <1>2, <1>3, <2>2, <4>1, <4>2
        <4> QED BY <1>2, <2>1, <2>4, <2>5, <3>1, <4>1, <4>3 DEF DigestOK, Written
      <3> QED BY <1>0, <1>1, <1>2, <2>1, <2>4, <2>5, <3>2, WorkTurn
    <2>6. CASE sums' = sums /\ thr' = Set(t, f)
      <3>1. thr'[t] = f
        BY <2>6 DEF Set, RwtInv, RwtType
      <3>2. ASSUME RwtWork PROVE DigestOK(t)'
        BY <1>1, <1>2, <2>1, <2>6, <3>1, <3>2 DEF RwtWork, DigestOK, Written
      <3> QED BY <1>0, <1>1, <1>2, <2>1, <2>4, <2>6, <3>2, WorkTurn
    <2> QED BY <2>1, <2>5, <2>6
  <1> QED BY <1>4, <1>5


(* While an object is in a hand, not all of them are finished.             *)
LEMMA HandNotDone ==
    ASSUME RwtWork, NEW t \in RwtThreads, hand[t] \in Objs
    PROVE  ~AllDone(nr)
  <1>1. hand[t] \notin Finished(hand, wlist, rlist)
    BY DEF Finished
  <1> QED BY <1>1, CustodyAll DEF RwtWork, AllDone

(* A written object goes to the readers, a failed one is finished.         *)
LEMMA WriterPutInv ==
    ASSUME RwtInv, NEW t \in RwtThreads, main # "exit", rwt_writer_put(t), app' = app
    PROVE  RwtInv'
  <1>0. /\ RwtType /\ ThreadOK(t) /\ thr[t] \in RwtThread /\ thr \in [RwtThreads -> RwtThread]
        /\ rlist \in Seq(Objs) /\ nr \in [done : Nat, failed : Nat, matched : Nat]
    BY DEF RwtInv, RwtType
  <1>1. /\ thr[t].pc = "put" /\ t \in Writers /\ t \notin Readers /\ thr[t].todo \in Objs
        /\ hand[t] = thr[t].todo
        /\ UNCHANGED <<app, main, spawned, stage, instance, inits, wlist, sums, stored>>
    BY <1>0, WriterOrReader DEF rwt_writer_put, ThreadOK, AtWork, initVars, hand
  <1>1a. Others(t)
    BY <1>1 DEF Others
  <1> DEFINE e == [Thread EXCEPT !.pc = "take"]
  <1>2. e \in RwtThread /\ e.pc = "take" /\ e.todo = NoTodo
    BY DEF RwtThread, Thread, NoTodo
  <1>3. thr' = Broadcast(Set(t, e))
    BY DEF rwt_writer_put
  <1> HIDE DEF e
  <1>4. Turn(t) /\ thr'[t] = e
    BY <1>0, <1>2, <1>3, TurnOf
  <1>5. /\ hand \in [RwtThreads -> Objs \cup {NoTodo}]
        /\ hand' = [hand EXCEPT ![t] = NoTodo]
    BY <1>0, <1>2, <1>4, TurnHand
  <1>6. ThreadOK(t)' /\ DigestOK(t)' /\ LeaveOK(t)' /\ RemoveOK(t)'
    BY <1>0, <1>1, <1>2, <1>4 DEF ThreadOK, DigestOK, LeaveOK, RemoveOK, Idle, AtWork
  <1>7. RwtWork => ~AllDone(nr)
    BY <1>1, HandNotDone
  <1>8. CASE thr[t].rc = "ok"
    <2>1. nr' = nr
      <3>1. nr' = [nr EXCEPT !.failed = nr.failed]
        BY <1>8 DEF rwt_writer_put
      <3> QED BY <1>0, <3>1
    <2>2. rlist' = <<thr[t].todo>> \o rlist
      BY <1>8 DEF rwt_writer_put
    <2>3. RwtWork => Custody(hand', wlist', rlist', nr'.done + nr'.failed) /\ Over' = Over
      <3> SUFFICES ASSUME RwtWork
                   PROVE  /\ Custody(hand', wlist', rlist', nr'.done + nr'.failed)
                          /\ Finished(hand', wlist', rlist') = Finished(hand, wlist, rlist)
        BY DEF Over, With
      <3> DEFINE k == nr.done + nr.failed
      <3>1. Custody(hand, wlist, rlist, k)
        BY DEF RwtWork
      <3> HIDE DEF k
      <3>2. /\ Custody([hand EXCEPT ![t] = NoTodo], wlist, <<hand[t]>> \o rlist, k)
            /\ Finished([hand EXCEPT ![t] = NoTodo], wlist, <<hand[t]>> \o rlist)
                  = Finished(hand, wlist, rlist)
        <4>1. hand \in [RwtThreads -> Objs \cup {NoTodo}] /\ rlist \in Seq(Objs) /\ hand[t] \in Objs
          BY <1>0, <1>1, <1>5
        <4> QED BY <3>1, <4>1, CustodyPut, Zenon
      <3> QED BY <1>1, <1>5, <2>1, <2>2, <3>2, Zenon DEF k
    <2>4. /\ rlist' \in Seq(Objs)
          /\ \A i \in 1..Len(rlist') : \/ \E j \in 1..Len(rlist) : rlist'[i] = rlist[j]
                                       \/ rlist'[i] = thr[t].todo
      <3>1. /\ rlist' \in Seq(Objs) /\ Len(rlist') = Len(rlist) + 1 /\ Len(rlist) \in Nat
            /\ rlist'[1] = thr[t].todo /\ \A i \in 2..Len(rlist) + 1 : rlist'[i] = rlist[i-1]
        BY <1>0, <1>1, <2>2
      <3> QED BY <3>1
    <2>5. RwtType'
      BY <1>0, <1>1, <1>4, <2>1, <2>4 DEF RwtType, Turn
    <2>6. ASSUME RwtWork, NEW i \in 1..Len(rlist'), rlist'[i] = thr[t].todo PROVE Written(rlist[i])'
      <3>1. Written(thr[t].todo)
        BY <1>1, <1>8, <2>6 DEF RwtWork, DigestOK
      <3> QED BY <1>1, <2>6, <3>1 DEF Written
    <2> QED BY <1>1, <1>1a, <1>4, <1>6, <1>7, <2>1, <2>3, <2>4, <2>5, <2>6, TurnInv DEF RwtWork
  <1>9. CASE thr[t].rc # "ok"
    <2>1. /\ nr' \in [done : Nat, failed : Nat, matched : Nat] /\ nr'.failed = nr.failed + 1
          /\ nr'.done = nr.done /\ nr'.matched = nr.matched
      BY <1>0, <1>9 DEF rwt_writer_put
    <2>2. rlist' = rlist
      BY <1>9 DEF rwt_writer_put
    <2>3. nr.done + nr.failed \in Nat /\ nr'.done + nr'.failed = (nr.done + nr.failed) + 1
      BY <1>0, <2>1
    <2>4. RwtWork => Custody(hand', wlist', rlist', nr'.done + nr'.failed) /\ Over \subseteq Over'
      <3> SUFFICES ASSUME RwtWork
                   PROVE  /\ Custody(hand', wlist', rlist', nr'.done + nr'.failed)
                          /\ Finished(hand', wlist', rlist')
                                = With(Finished(hand, wlist, rlist), thr[t].todo)
        BY DEF Over, With
      <3> DEFINE k == nr.done + nr.failed
                 j == nr'.done + nr'.failed
      <3>1. InHand(hand, wlist, rlist, k, j, t)
        BY <1>1, <1>5, <2>3 DEF RwtWork, InHand
      <3> HIDE DEF k, j
      <3>2. /\ Custody([hand EXCEPT ![t] = NoTodo], wlist, rlist, j)
            /\ Finished([hand EXCEPT ![t] = NoTodo], wlist, rlist)
                  = With(Finished(hand, wlist, rlist), hand[t])
        <4>1. Custody([hand EXCEPT ![t] = NoTodo], wlist, rlist, j)
          BY <3>1, CustodyEnd
        <4>2. Finished([hand EXCEPT ![t] = NoTodo], wlist, rlist)
                  = With(Finished(hand, wlist, rlist), hand[t])
          BY <3>1, CustodyEnd
        <4> QED BY <4>1, <4>2
      <3> QED BY <1>1, <1>5, <2>2, <2>3, <3>2, Zenon DEF j
    <2>5. RwtType'
      BY <1>0, <1>1, <1>4, <2>1, <2>2 DEF RwtType, Turn
    <2> QED BY <1>1, <1>1a, <1>4, <1>6, <1>7, <2>1, <2>2, <2>4, <2>5, TurnInv DEF RwtWork
  <1> QED BY <1>8, <1>9

(* A reader takes an object, leaves or waits.                              *)
LEMMA CheckInv ==
    ASSUME RwtInv, NEW t \in RwtThreads, main # "exit", rwt_reader_check(t), app' = app
    PROVE  RwtInv'
  <1>0. /\ RwtType /\ ThreadOK(t) /\ thr[t] \in RwtThread /\ thr \in [RwtThreads -> RwtThread]
        /\ rlist \in Seq(Objs)
    BY DEF RwtInv, RwtType
  <1>1. /\ thr[t].pc = "check" /\ t \in Readers /\ t \notin Writers
        /\ UNCHANGED <<app, main, spawned, stage, instance, inits, wlist, nr, sums, stored>>
    BY <1>0, WriterOrReader DEF rwt_reader_check, ThreadOK, initVars
  <1>1a. Others(t)
    BY <1>1 DEF Others
  <1>2. thr[t].todo = NoTodo /\ hand[t] = NoTodo
    BY <1>0, <1>1 DEF ThreadOK, Idle, hand
  <1>3. AllDone(nr)' = AllDone(nr)
    BY <1>1 DEF AllDone
  <1>4. CASE rlist = <<>>
    <2>1. PICK l \in {"leave", "wait"} : /\ thr' = Set(t, [Thread EXCEPT !.pc = l])
                                         /\ l = "leave" => AllDone(nr)
      BY <1>4 DEF rwt_reader_check
    <2>2. rlist' = rlist
      BY <1>4 DEF rwt_reader_check
    <2> DEFINE e == [Thread EXCEPT !.pc = l]
    <2>3. e \in RwtThread /\ e.pc = l /\ e.todo = NoTodo /\ ~e.all_done
      BY DEF RwtThread, Thread, NoTodo
    <2>4. thr' = Set(t, e)
      BY <2>1 DEF Set
    <2> HIDE DEF e
    <2>5. Turn(t) /\ thr'[t] = e
      BY <1>0, <2>3, <2>4, TurnOf
    <2>6. hand' = hand
      BY <1>0, <1>2, <2>3, <2>5, TurnHand
    <2>7. ThreadOK(t)' /\ DigestOK(t)' /\ LeaveOK(t)' /\ RemoveOK(t)'
      <3>1. ThreadOK(t)'
        BY <1>0, <1>1, <2>3, <2>5 DEF ThreadOK, Idle, AtWork
      <3>2. DigestOK(t)' /\ RemoveOK(t)'
        BY <1>1, <2>3, <2>5 DEF DigestOK, RemoveOK
      <3>3. LeaveOK(t)'
        BY <1>1, <1>3, <2>1, <2>3, <2>5 DEF LeaveOK, AllDone
      <3> QED BY <3>1, <3>2, <3>3
    <2>8. RwtType'
      BY <1>0, <1>1, <2>2, <2>5 DEF RwtType, Turn
    <2>9. Over' = Over
      BY <1>1, <2>2, <2>6 DEF Over, Finished
    <2> QED BY <1>1, <1>1a, <1>3, <2>2, <2>5, <2>6, <2>7, <2>8, <2>9, TurnInv DEF RwtWork
  <1>5. CASE rlist # <<>>
    <2> DEFINE e == [Thread EXCEPT !.pc = "open", !.todo = Head(rlist)]
    <2>0. Head(rlist) \in Objs /\ Tail(rlist) \in Seq(Objs) /\ Head(rlist) = rlist[1] /\ 1 \in 1..Len(rlist)
      BY <1>0, <1>5
    <2>1. e \in RwtThread /\ e.pc = "open" /\ e.todo = Head(rlist) /\ e.rc = "ok" /\ ~e.all_done
      BY <2>0 DEF RwtThread, Thread
    <2>2. thr' = Set(t, e) /\ rlist' = Tail(rlist)
      BY <1>5 DEF rwt_reader_check
    <2> HIDE DEF e
    <2>3. Turn(t) /\ thr'[t] = e
      BY <1>0, <2>1, <2>2, TurnOf
    <2>4. /\ hand \in [RwtThreads -> Objs \cup {NoTodo}]
          /\ hand' = [hand EXCEPT ![t] = Head(rlist)]
      BY <1>0, <2>1, <2>3, TurnHand
    <2>5. ThreadOK(t)'
      BY <1>0, <1>1, <2>0, <2>1, <2>3 DEF ThreadOK, Idle, AtWork
    <2>6. ASSUME RwtWork PROVE DigestOK(t)' /\ LeaveOK(t)' /\ RemoveOK(t)'
      <3>1. Written(Head(rlist))
        BY <2>0, <2>6 DEF RwtWork
      <3> QED BY <1>1, <2>1, <2>3, <3>1 DEF DigestOK, LeaveOK, RemoveOK, Written
    <2>7. RwtType'
      BY <1>0, <1>1, <2>0, <2>2, <2>3 DEF RwtType, Turn
    <2>8. ASSUME RwtWork
          PROVE  /\ Custody(hand', wlist', rlist', nr'.done + nr'.failed) /\ Over' = Over
                 /\ \A i \in 1..Len(rlist') : \E j \in 1..Len(rlist) : rlist'[i] = rlist[j]
      <3>1. /\ Custody(hand, rlist, wlist, nr.done + nr.failed)
            /\ Finished(hand, rlist, wlist) = Over
        BY <2>8, CustodySym DEF RwtWork, Over
      <3>2. /\ Custody(hand', rlist', wlist', nr'.done + nr'.failed)
            /\ Finished(hand', rlist', wlist') = Finished(hand, rlist, wlist)
        BY <1>0, <1>1, <1>2, <1>5, <2>2, <2>4, <3>1, CustodyTake
      <3>3. Distinct(rlist)
        BY <3>1 DEF Custody
      <3>4. Over' = Over
        BY <3>1, <3>2 DEF Over, Finished
      <3> QED BY <1>0, <1>5, <2>2, <3>2, <3>3, <3>4, CustodySym, TakeHead
    <2> QED BY <1>1, <1>1a, <1>3, <2>3, <2>5, <2>6, <2>7, <2>8, TurnInv DEF RwtWork
  <1> QED BY <1>4, <1>5


(* The result of a read.                                                   *)
LEMMA ReaderPutInv ==
    ASSUME RwtInv, NEW t \in RwtThreads, main # "exit", rwt_reader_put(t), app' = app
    PROVE  RwtInv'
  <1>0. /\ RwtType /\ ThreadOK(t) /\ thr[t] \in RwtThread /\ thr \in [RwtThreads -> RwtThread]
        /\ nr \in [done : Nat, failed : Nat, matched : Nat]
    BY DEF RwtInv, RwtType
  <1>1. /\ thr[t].pc = "put" /\ t \in Readers /\ t \notin Writers /\ thr[t].todo \in Objs
        /\ hand[t] = thr[t].todo
        /\ UNCHANGED <<app, main, spawned, stage, instance, inits, wlist, rlist, sums, stored>>
    BY <1>0, WriterOrReader DEF rwt_reader_put, ThreadOK, AtWork, initVars, hand
  <1>1a. Others(t)
    BY <1>1 DEF Others
  <1> DEFINE e == [thr[t] EXCEPT !.pc = "remove", !.all_done = thr[t].rc = "ok" /\ AllDone(nr')]
  <1>2. /\ e \in RwtThread /\ e.pc = "remove" /\ e.todo = thr[t].todo
        /\ e.all_done => AllDone(nr')
    BY <1>0 DEF RwtThread, AllDone
  <1>3. thr' = Set(t, e)
    BY DEF rwt_reader_put
  <1> HIDE DEF e
  <1>4. Turn(t) /\ thr'[t] = e
    BY <1>0, <1>2, <1>3, TurnOf
  <1>5. /\ hand \in [RwtThreads -> Objs \cup {NoTodo}]
        /\ hand' = [hand EXCEPT ![t] = NoTodo]
    BY <1>0, <1>2, <1>4, TurnHand
  <1>6. ThreadOK(t)' /\ DigestOK(t)' /\ LeaveOK(t)'
    <2>1. ThreadOK(t)'
      BY <1>0, <1>1, <1>2, <1>4 DEF ThreadOK, Idle, AtWork
    <2>2. DigestOK(t)'
      BY <1>1, <1>2, <1>4 DEF DigestOK
    <2>3. LeaveOK(t)'
      BY <1>1, <1>2, <1>4 DEF LeaveOK
    <2> QED BY <2>1, <2>2, <2>3
  <1>7. RwtWork => ~AllDone(nr)
    BY <1>1, HandNotDone
  <1>8. /\ nr' \in [done : Nat, failed : Nat, matched : Nat]
        /\ nr'.done + nr'.failed = (nr.done + nr.failed) + 1 /\ nr.done + nr.failed \in Nat
        /\ RwtWork => nr'.matched = nr'.done
    <2>1. CASE thr[t].rc = "ok"
      <3> DEFINE same == sums[thr[t].todo].w = sums[thr[t].todo].r
      <3>1. RwtWork => same
        BY <1>1, <2>1 DEF RwtWork, DigestOK, Written
      <3>2. /\ nr' \in [done : Nat, failed : Nat, matched : Nat]
            /\ nr'.done = nr.done + 1 /\ nr'.failed = nr.failed
            /\ nr'.matched = IF same THEN nr.matched + 1 ELSE nr.matched
        <4> DEFINE m == IF same THEN nr.matched + 1 ELSE nr.matched
        <4>1. nr' = [nr EXCEPT !.done = @ + 1, !.matched = m]
          BY <2>1 DEF rwt_reader_put
        <4> HIDE DEF same
        <4>2. m \in Nat
          BY <1>0
        <4> HIDE DEF m
        <4>3. nr.done + 1 \in Nat
          BY <1>0
        <4>4. /\ nr' \in [done : Nat, failed : Nat, matched : Nat]
              /\ nr'.done = nr.done + 1 /\ nr'.failed = nr.failed /\ nr'.matched = m
          BY <1>0, <4>1, <4>2, <4>3, Zenon
        <4> QED BY <4>4 DEF m
      <3> QED BY <1>0, <3>1, <3>2 DEF RwtWork
    <2>2. CASE thr[t].rc # "ok"
      BY <1>0, <2>2 DEF rwt_reader_put, RwtWork
    <2> QED BY <2>1, <2>2
  <1>9. RwtWork => /\ Custody(hand', wlist', rlist', nr'.done + nr'.failed)
                   /\ Over' = Over \cup {thr[t].todo}
    <2> SUFFICES ASSUME RwtWork
                 PROVE  /\ Custody(hand', wlist', rlist', nr'.done + nr'.failed)
                        /\ Finished(hand', wlist', rlist')
                              = With(Finished(hand, wlist, rlist), thr[t].todo)
      BY DEF Over, With
    <2> DEFINE k == nr.done + nr.failed
               j == nr'.done + nr'.failed
    <2>1. InHand(hand, wlist, rlist, k, j, t)
      BY <1>1, <1>5, <1>8 DEF RwtWork, InHand
    <2> HIDE DEF k, j
    <2>2. /\ Custody([hand EXCEPT ![t] = NoTodo], wlist, rlist, j)
          /\ Finished([hand EXCEPT ![t] = NoTodo], wlist, rlist)
                = With(Finished(hand, wlist, rlist), hand[t])
      <3>1. Custody([hand EXCEPT ![t] = NoTodo], wlist, rlist, j)
        BY <2>1, CustodyEnd
      <3>2. Finished([hand EXCEPT ![t] = NoTodo], wlist, rlist)
                = With(Finished(hand, wlist, rlist), hand[t])
        BY <2>1, CustodyEnd
      <3> QED BY <3>1, <3>2
    <2> QED BY <1>1, <1>5, <1>8, <2>2, Zenon DEF j
  <1>10. RwtType'
    BY <1>0, <1>1, <1>4, <1>8 DEF RwtType, Turn
  <1>11. RwtWork => RemoveOK(t)'
    BY <1>2, <1>4, <1>9 DEF RemoveOK
  <1> QED BY <1>1, <1>1a, <1>4, <1>6, <1>7, <1>8, <1>9, <1>10, <1>11, TurnInv DEF RwtWork

(* The end of the loop of a reader, a wake-up, and the end of a thread.    *)
LEMMA QuietInv ==
    ASSUME RwtInv, NEW t \in RwtThreads, main # "exit", app' = app,
           rwt_reader_remove(t) \/ SpuriousWakeup(t) \/ rwt_leave(t)
    PROVE  RwtInv'
  <1>0. /\ RwtType /\ ThreadOK(t) /\ thr[t] \in RwtThread /\ thr \in [RwtThreads -> RwtThread]
    BY DEF RwtInv, RwtType
  <1>1. /\ thr[t].pc \in {"remove", "wait", "leave"} /\ hand[t] = NoTodo
        /\ UNCHANGED <<app, main, spawned, stage, instance, inits, wlist, rlist, nr, sums>>
    BY <1>0 DEF rwt_reader_remove, SpuriousWakeup, rwt_leave, ThreadOK, Idle, initVars, hand
  <1>1a. stored' \in [Objs -> Int] /\ (RwtWork => Others(t))
    <2>1. CASE stored' = stored
      BY <1>0, <1>1, <2>1 DEF RwtType, Others
    <2>2. CASE rwt_reader_remove(t) /\ stored' = [stored EXCEPT ![thr[t].todo] = 0 - 1]
      <3>1. RwtWork => thr[t].todo \in Over
        BY <2>2 DEF rwt_reader_remove, RwtWork, RemoveOK
      <3>2. stored \in [Objs -> Int] /\ 0 - 1 \in Int
        BY <1>0 DEF RwtType
      <3>3. stored' \in [Objs -> Int]
        BY <2>2, <3>2
      <3>4. ASSUME NEW o \in Objs, o # thr[t].todo PROVE sums'[o] = sums[o] /\ stored'[o] = stored[o]
        BY <1>1, <2>2, <3>2, <3>4
      <3> QED BY <3>1, <3>3, <3>4 DEF Others
    <2> QED BY <2>1, <2>2 DEF rwt_reader_remove, SpuriousWakeup, rwt_leave
  <1>2. PICK e \in RwtThread :
            /\ thr' = Set(t, e) \/ (thr' = Broadcast(Set(t, e)) /\ e.pc # "wait")
            /\ e.todo = NoTodo /\ e.pc \in {"check", "leave", "gone"}
            /\ e.pc \in {"check", "leave"} => t \in Readers
            /\ (e.pc = "leave" \/ e.all_done) => thr[t].all_done
            /\ e.pc = "gone" => thr[t].pc = "leave"
    <2>1. CASE rwt_reader_remove(t)
      <3> DEFINE e == [Thread EXCEPT !.pc = IF thr[t].all_done THEN "leave" ELSE "check"]
      <3>1. /\ e \in RwtThread /\ e.todo = NoTodo /\ ~e.all_done
            /\ e.pc = IF thr[t].all_done THEN "leave" ELSE "check"
        BY DEF RwtThread, Thread, NoTodo
      <3>2. thr' = Set(t, e) /\ t \in Readers
        BY <1>0, <2>1, WriterOrReader DEF rwt_reader_remove, ThreadOK
      <3> HIDE DEF e
      <3> QED BY <3>1, <3>2
    <2>2. CASE SpuriousWakeup(t)
      <3> DEFINE e == [thr[t] EXCEPT !.pc = "check"]
      <3>1. /\ e \in RwtThread /\ e.todo = thr[t].todo /\ e.all_done = thr[t].all_done
            /\ e.pc = "check"
        BY <1>0 DEF RwtThread
      <3>2. thr' = Set(t, e) /\ t \in Readers /\ thr[t].todo = NoTodo
        BY <1>0, <2>2, WriterOrReader DEF SpuriousWakeup, Goto, Set, ThreadOK, Idle
      <3> HIDE DEF e
      <3> QED BY <3>1, <3>2
    <2>3. CASE rwt_leave(t)
      <3> DEFINE e == [thr[t] EXCEPT !.pc = "gone"]
      <3>1. /\ e \in RwtThread /\ e.todo = thr[t].todo /\ e.all_done = thr[t].all_done
            /\ e.pc = "gone"
        BY <1>0 DEF RwtThread
      <3>2. /\ thr' = Broadcast(Set(t, e)) /\ thr[t].todo = NoTodo /\ thr[t].pc = "leave"
        BY <1>0, <2>3 DEF rwt_leave, Set, ThreadOK, Idle
      <3> HIDE DEF e
      <3> QED BY <3>1, <3>2
    <2> QED BY <2>1, <2>2, <2>3
  <1>3. Turn(t) /\ thr'[t] = e
    BY <1>0, <1>2, TurnOf
  <1>4. hand' = hand
    BY <1>0, <1>1, <1>2, <1>3, TurnHand
  <1>5. ThreadOK(t)'
    BY <1>0, <1>1, <1>2, <1>3, WriterOrReader DEF ThreadOK, Idle, AtWork
  <1>6. AllDone(nr)' = AllDone(nr)
    BY <1>1 DEF AllDone
  <1>7. RwtWork => DigestOK(t)' /\ LeaveOK(t)' /\ RemoveOK(t)'
    <2>1. DigestOK(t)' /\ RemoveOK(t)'
      BY <1>2, <1>3 DEF DigestOK, RemoveOK
    <2>2. ASSUME RwtWork PROVE LeaveOK(t)'
      <3>1. LeaveOK(t)
        BY <2>2 DEF RwtWork
      <3> QED BY <1>1, <1>2, <1>3, <1>6, <3>1, WriterOrReader DEF LeaveOK, AllDone
    <2> QED BY <2>1, <2>2
  <1>8. RwtType'
    BY <1>0, <1>1, <1>1a, <1>3 DEF RwtType, Turn
  <1>9. Over' = Over
    BY <1>1, <1>4 DEF Over, Finished
  <1> QED BY <1>1, <1>1a, <1>3, <1>4, <1>5, <1>6, <1>7, <1>8, <1>9, TurnInv DEF RwtWork


(* The list of all objects that mio_rw_threads begins with.                *)
LEMMA AllToWrite ==
    ASSUME NEW w, w = Reverse([i \in Objs |-> i]), NEW h, h = [t \in RwtThreads |-> NoTodo]
    PROVE  w \in Seq(Objs) /\ Custody(h, w, <<>>, 0)
  <1>0. NrObjs \in Nat /\ Objs = 1..NrObjs /\ NoTodo \notin Objs
    BY RwtAssumption DEF Objs, NoTodo
  <1> DEFINE s == [i \in 1..NrObjs |-> i]
  <1>1. s \in Seq(Objs) /\ Len(s) = NrObjs /\ \A i \in 1..NrObjs : s[i] = i
    BY <1>0
  <1>2. w = [i \in 1..Len(s) |-> s[(Len(s) - i) + 1]]
    BY <1>0 DEF Reverse
  <1> HIDE DEF s
  <1>3. \A i \in 1..NrObjs : w[i] = NrObjs - i + 1 /\ w[i] \in Objs
    BY SMTT(30), <1>0, <1>1, <1>2
  <1>4. w \in Seq(Objs) /\ Len(w) = NrObjs
    BY <1>0, <1>1, <1>2, <1>3
  <1>5. Distinct(w)
    <2> SUFFICES ASSUME NEW i \in 1..NrObjs, NEW j \in 1..NrObjs, w[i] = w[j] PROVE i = j
      BY <1>4 DEF Distinct
    <2>1. NrObjs - i + 1 = NrObjs - j + 1
      BY <1>3
    <2> QED BY <1>0, <2>1
  <1>6. ASSUME NEW o \in Objs PROVE On(w, o)
    <2>1. NrObjs - o + 1 \in 1..NrObjs /\ w[NrObjs - o + 1] = o
      BY <1>0, <1>3
    <2> QED BY <1>4, <2>1 DEF On
  <1>7. Distinct(<<>>) /\ \A o : ~On(<<>>, o)
    BY DEF Distinct, On
  <1>8. Finished(h, w, <<>>) = {}
    BY <1>6 DEF Finished
  <1>9. \A t \in RwtThreads : h[t] \notin Objs
    BY <1>0
  <1> QED BY <1>4, <1>5, <1>7, <1>8, <1>9, FS_EmptySet DEF Custody

(* main begins.                                                            *)
LEMMA MainBegins ==
    ASSUME RwtInv, app = "rwt", app' = app, RwtMain, StageInv
    PROVE  RwtInv'
  <1>0. /\ RwtType /\ RwtLife /\ main = "init" /\ stage = "out" /\ inits > 0 /\ instance # "live"
        /\ UNCHANGED <<spawned, thr, rlist, nr, sums, stored, stage, instance, inits>>
    BY DEF RwtInv, RwtMain, StageInv, initVars
  <1>1. /\ spawned = 0 /\ wlist = <<>> /\ rlist = <<>> /\ nr = [done |-> 0, failed |-> 0, matched |-> 0]
        /\ \A t \in RwtThreads : thr[t] = Thread
    BY <1>0 DEF RwtLife
  <1>2. \A t \in RwtThreads : ThreadOK(t)'
    BY <1>0 DEF RwtInv, ThreadOK
  <1>3. CASE instance = "set"
    <2>1. main' = "start" /\ wlist' = Reverse([i \in Objs |-> i])
      BY <1>3 DEF RwtMain, MioUp
    <2>2. hand' = [t \in RwtThreads |-> NoTodo]
      BY <1>0, <1>1 DEF hand, Thread, NoTodo
    <2>3. wlist' \in Seq(Objs) /\ Custody(hand', wlist', <<>>, 0)
      BY <2>1, <2>2, AllToWrite
    <2>4. RwtType'
      BY <1>0, <2>1, <2>3 DEF RwtType
    <2>5. RwtLife'
      BY <1>0, <1>3, <2>1 DEF RwtLife
    <2>6. \A t \in RwtThreads : DigestOK(t)' /\ LeaveOK(t)' /\ RemoveOK(t)'
      BY <1>0, <1>1 DEF Thread, DigestOK, LeaveOK, RemoveOK
    <2>7. /\ rlist' = <<>> /\ nr'.done = 0 /\ nr'.failed = 0 /\ nr'.matched = 0 /\ Len(rlist') = 0
      BY <1>0, <1>1
    <2>8. RwtWork'
      BY <2>3, <2>6, <2>7 DEF RwtWork
    <2> QED BY <1>2, <2>4, <2>5, <2>8 DEF RwtInv
  <1>4. CASE instance # "set"
    <2>1. main' = "fini" /\ wlist' = wlist /\ instance' = "NULL"
      BY <1>0, <1>4 DEF RwtMain, MioUp, RwtLife
    <2>2. RwtType'
      BY <1>0, <2>1 DEF RwtType
    <2>3. RwtLife'
      BY <1>0, <1>1, <1>4, <2>1, RwtAssumption DEF RwtLife
    <2> QED BY <1>2, <2>1, <2>2, <2>3 DEF RwtInv
  <1> QED BY <1>3, <1>4

(* A step that leaves the threads, the lists and the objects alone.        *)
LEMMA WorkStays ==
    ASSUME RwtWork, UNCHANGED <<thr, wlist, rlist, nr, sums, stored>>
    PROVE  RwtWork'
  <1>1. hand' = hand /\ Over' = Over
    BY DEF hand, Over, Finished
  <1>2. \A t \in RwtThreads : DigestOK(t)' /\ LeaveOK(t)' /\ RemoveOK(t)'
    BY <1>1 DEF RwtWork, DigestOK, LeaveOK, RemoveOK, AllDone, Written
  <1> QED BY <1>1, <1>2 DEF RwtWork, Written

(* main starts a thread, waits for them all, or ends.                      *)
LEMMA MainInv ==
    ASSUME RwtInv, app = "rwt", app' = app, mio_rwt_start \/ mio_rwt_stop \/ RwtFini \/ RwtReturn
    PROVE  RwtInv'
  <1>0. /\ RwtType /\ RwtLife /\ main # "init" /\ (instance # "NULL" => RwtWork)
        /\ thr \in [RwtThreads -> RwtThread] /\ spawned \in 0..2*NrThreads /\ NrThreads \in Nat
        /\ UNCHANGED <<wlist, rlist, nr, sums, stored>>
    BY RwtAssumption DEF RwtInv, RwtType, mio_rwt_start, mio_rwt_stop, RwtFini, RwtReturn
  <1>1. CASE /\ main = "start" /\ spawned # 2 * NrThreads
             /\ spawned' = spawned + 1 /\ main' = main /\ UNCHANGED initVars
             /\ Goto(spawned + 1, IF spawned < NrThreads THEN "take" ELSE "check")
    <2>a. RwtWork
      BY <1>0, <1>1 DEF RwtLife
    <2>0. PICK t \in RwtThreads, l \in {"take", "check"} :
              t = spawned + 1 /\ l = IF spawned < NrThreads THEN "take" ELSE "check"
      BY <1>0, <1>1 DEF RwtThreads, Writers, Readers
    <2> DEFINE e == [thr[t] EXCEPT !.pc = l]
    <2>1. (t \in Writers <=> l = "take") /\ spawned' \in 0..2*NrThreads
      BY <1>0, <1>1, <2>0 DEF Writers, Readers
    <2>2. /\ ThreadOK(t) /\ thr[t].pc = "none" /\ thr[t].todo = NoTodo /\ thr[t] \in RwtThread
      BY <1>0, <2>0 DEF RwtInv, ThreadOK, Idle
    <2>3. /\ e \in RwtThread /\ e.pc = l /\ e.todo = NoTodo /\ e.all_done = thr[t].all_done
      BY <2>2 DEF RwtThread
    <2>4. thr' = Set(t, e)
      BY <1>1, <2>0 DEF Goto, Set
    <2> HIDE DEF e
    <2>5. Turn(t) /\ thr'[t] = e
      BY <1>0, <2>1, <2>3, <2>4, TurnOf
    <2>6. hand[t] = NoTodo /\ hand' = hand
      <3>1. hand[t] = NoTodo
        BY <2>2 DEF hand
      <3> QED BY <1>0, <2>3, <2>5, <3>1, TurnHand
    <2>7. RwtType'
      BY <1>0, <1>1, <2>1, <2>5 DEF RwtType, Turn
    <2>8. RwtLife'
      BY <1>0, <1>1 DEF RwtLife, initVars
    <2>9. ThreadOK(t)' /\ DigestOK(t)' /\ LeaveOK(t)' /\ RemoveOK(t)'
      <3>1. ThreadOK(t)'
        BY <1>0, <1>1, <2>0, <2>1, <2>3, <2>5, WriterOrReader DEF ThreadOK, Idle, AtWork
      <3>2. DigestOK(t)' /\ RemoveOK(t)'
        BY <2>3, <2>5 DEF DigestOK, RemoveOK
      <3>3. LeaveOK(t)'
        BY <1>0, <2>a, <2>3, <2>5 DEF LeaveOK, RwtWork, AllDone
      <3> QED BY <3>1, <3>2, <3>3
    <2>9a. Over' = Over
      BY <1>0, <2>6 DEF Over, Finished
    <2>10. ASSUME NEW u \in RwtThreads, u # t
           PROVE  ThreadOK(u)' /\ DigestOK(u)' /\ LeaveOK(u)' /\ RemoveOK(u)'
      <3>1. thr'[u] = thr[u] /\ u \in Int
        BY <1>0, <2>4, <2>10, WriterOrReader DEF Set
      <3>2. u > spawned <=> u > spawned'
        BY <1>0, <1>1, <2>0, <2>10, <3>1
      <3>3. ThreadOK(u)'
        BY <1>0, <3>1, <3>2 DEF RwtInv, ThreadOK
      <3>4. DigestOK(u)' /\ LeaveOK(u)' /\ RemoveOK(u)'
        BY <1>0, <2>a, <2>9a, <3>1 DEF RwtWork, DigestOK, LeaveOK, RemoveOK, AllDone, Written
      <3> QED BY <3>3, <3>4
    <2>11. RwtWork'
      BY <1>0, <2>a, <2>6, <2>9, <2>10 DEF RwtWork, Written
    <2> QED BY <2>7, <2>8, <2>9, <2>10, <2>11 DEF RwtInv
  <1>2. CASE /\ main \in {"start", "join"} /\ main' \in {"join", "fini"} /\ UNCHANGED <<initVars, spawned, thr>>
             /\ main' = "join" => spawned = 2 * NrThreads
             /\ (main' = "fini" /\ spawned = 2 * NrThreads) => \A t \in RwtThreads : thr[t].pc = "gone"
    <2>1. RwtType'
      BY <1>0, <1>2 DEF RwtType
    <2>2. RwtLife'
      BY <1>0, <1>2 DEF RwtLife, initVars
    <2>3. \A t \in RwtThreads : ThreadOK(t)'
      BY <1>0, <1>2 DEF RwtInv, ThreadOK
    <2>4. RwtWork'
      BY <1>0, <1>2, WorkStays DEF RwtLife
    <2> QED BY <2>1, <2>2, <2>3, <2>4 DEF RwtInv
  <1>3. CASE RwtFini \/ RwtReturn
    <2>1. /\ main \in {"fini", "return"} /\ main' \in {"return", "exit"}
          /\ instance' = "NULL" <=> instance = "NULL"
          /\ stage' = stage /\ inits' = inits
          /\ UNCHANGED <<spawned, thr>>
      BY <1>3 DEF RwtFini, RwtReturn, mio_fini, initVars
    <2>2. RwtType'
      BY <1>0, <2>1 DEF RwtType
    <2>3. RwtLife'
      BY <1>0, <2>1 DEF RwtLife
    <2>4. \A t \in RwtThreads : ThreadOK(t)'
      BY <2>1 DEF RwtInv, ThreadOK
    <2>5. instance' # "NULL" => RwtWork'
      BY <1>0, <2>1, WorkStays
    <2> QED BY <2>1, <2>2, <2>3, <2>4, <2>5 DEF RwtInv
  <1>4. CASE mio_rwt_stop
    <2>1. DOMAIN thr = RwtThreads
      BY <1>0
    <2> QED BY <1>2, <1>4, <2>1 DEF mio_rwt_stop
  <1>5. CASE mio_rwt_start
    BY <1>0, <1>1, <1>2, <1>5 DEF mio_rwt_start
  <1> QED BY <1>3, <1>4, <1>5


(* The stages of mio_init are taken inside mio_init only.                  *)
LEMMA InitStepInside ==
    InitStep => stage # "out" /\ (instance' \in {"NULL", "set"} \/ instance' = instance)
  BY DEF InitStep, OpenFails, ScanForever, mio_conf_init, mio_motr_user_perm, mio_log_init,
         mio_motr_init, AttrsLookup, AttrsCreate, mio_telemetry_init, ConfFails, InitFails,
         AttrsFail, Pass, initVars

(* Every step keeps the invariant of mio_rw_threads, and so do the steps   *)
(* of the other programs.                                                  *)
LEMMA RwtNext == RwtInv /\ StageInv /\ [Next]_vars => RwtInv'
  <1> SUFFICES ASSUME RwtInv, StageInv, [Next]_vars PROVE RwtInv'
    OBVIOUS
  <1>1. ASSUME UNCHANGED <<app, rwtVars>>,
               main # "init" => UNCHANGED <<stage, instance, inits>>,
               app = "rwt" => instance' \in {"NULL", "live", "set"} \/ instance' = instance
        PROVE  RwtInv'
    <2>1. RwtType'
      BY <1>1 DEF RwtInv, RwtType, rwtVars
    <2>2. RwtLife'
      BY <1>1 DEF RwtInv, RwtLife, rwtVars
    <2>3. \A t \in RwtThreads : ThreadOK(t)'
      BY <1>1 DEF RwtInv, ThreadOK, rwtVars
    <2>5. RwtWork => RwtWork'
      BY <1>1, WorkStays DEF rwtVars
    <2> QED BY <1>1, <2>1, <2>2, <2>3, <2>5 DEF RwtInv, rwtVars
  <1>2. RwtLife
    BY DEF RwtInv
  <1>3. CASE Start
    <2>1. /\ UNCHANGED <<app, rwtVars>> /\ (app # "library" => inits = 0)
          /\ instance' \in {"NULL", "live"}
      BY <1>3 DEF Start, mio_init
    <2>2. main = "init"
      BY <1>2, <2>1 DEF RwtLife, RwtInv
    <2> QED BY <1>1, <2>1, <2>2
  <1>4. CASE Startup
    <2>1. /\ UNCHANGED <<app, rwtVars>> /\ stage # "out"
          /\ instance' \in {"NULL", "set"} \/ instance' = instance
      BY <1>4, InitStepInside DEF Startup
    <2>2. main = "init"
      BY <1>2, <2>1 DEF RwtLife
    <2> QED BY <1>1, <2>1, <2>2
  <1>5. CASE Library \/ RwLock \/ Async
    <2>1. UNCHANGED <<app, rwtVars>> /\ app # "rwt"
      BY <1>5 DEF Library, RwLock, Async
    <2>2. main = "init"
      BY <1>2, <2>1 DEF RwtLife
    <2> QED BY <1>1, <2>1, <2>2
  <1>6. CASE Other
    BY <1>1, <1>6 DEF Other, OtherCreates
  <1>7. CASE RwThreads
    <2>0. app = "rwt" /\ app' = app /\ RwtStep
      BY <1>7 DEF RwThreads
    <2>1. CASE RwtMain
      BY <2>0, <2>1, MainBegins
    <2>2. CASE mio_rwt_start \/ mio_rwt_stop \/ RwtFini \/ RwtReturn
      BY <2>0, <2>2, MainInv
    <2>3. ASSUME NEW t \in RwtThreads, main # "exit", ThreadStep(t) \/ SpuriousWakeup(t) PROVE RwtInv'
      BY <2>0, <2>3, TakeInv, OpenInv, PassInv, WriterPutInv, CheckInv, ReaderPutInv, QuietInv
         DEF ThreadStep
    <2> QED BY <2>0, <2>1, <2>2, <2>3 DEF RwtStep, RwtMainStep, RwtThreads, ThreadStep
  <1>8. CASE UNCHANGED vars
    BY <1>1, <1>8 DEF vars, initVars
  <1> QED BY <1>3, <1>4, <1>5, <1>6, <1>7, <1>8 DEF Next

(* At first mio_rw_threads has no threads and no lists.                    *)
LEMMA RwtInitially == Init => RwtInv
  <1> SUFFICES ASSUME Init PROVE RwtInv
    OBVIOUS
  <1>1. RwtInit
    BY DEF Init
  <1>2. /\ main = "init" /\ spawned = 0 /\ wlist = <<>> /\ rlist = <<>>
        /\ thr = [t \in RwtThreads |-> Thread]
        /\ nr = [done |-> 0, failed |-> 0, matched |-> 0]
        /\ sums = [o \in Objs |-> [w |-> 0, r |-> 0]] /\ stored \in [Objs -> {0, 0 - 1}]
    BY <1>1 DEF RwtInit, RwtThreads
  <1>3. Thread \in RwtThread /\ NrThreads \in Nat \ {0}
    BY RwtAssumption DEF Thread, RwtThread, NoTodo
  <1>4. RwtType
    <2>1. thr \in [RwtThreads -> RwtThread]
      BY <1>2, <1>3
    <2>2. sums \in [Objs -> Sums] /\ stored \in [Objs -> Int]
      BY <1>2 DEF Sums
    <2> QED BY <1>2, <1>3, <2>1, <2>2 DEF RwtType
  <1>5. RwtLife
    BY <1>2 DEF RwtLife, Init, InstanceInit
  <1>6. ASSUME NEW t \in RwtThreads PROVE ThreadOK(t)
    <2>1. t \in Int /\ t > 0
      BY RwtAssumption DEF RwtThreads, Writers, Readers
    <2> QED BY <1>2, <2>1 DEF ThreadOK, Thread, Idle, AtWork
  <1> QED BY <1>2, <1>4, <1>5, <1>6 DEF RwtInv

(* The invariant holds throughout.                                         *)
LEMMA RwtInvariance == Spec => [](RwtInv /\ StageInv)
  BY RwtInitially, RwtNext, StageInitially, StageNext, PTL DEF Spec

(* An object is in no more than one place, and in none when it is          *)
(* finished.                                                               *)
LEMMA PlacesCount ==
    ASSUME RwtType, RwtWork, NEW o \in Objs
    PROVE  Places(o) = IF o \in Finished(hand, wlist, rlist) THEN 0 ELSE 1
  <1> DEFINE A == Held(o)
             B == {i \in 1..Len(wlist) : wlist[i] = o}
             C == {i \in 1..Len(rlist) : rlist[i] = o}
  <1>0. NoTodo \notin Objs
    BY RwtAssumption DEF NoTodo, Objs
  <1>1. A = {t \in RwtThreads : hand[t] = o}
    <2>1. DOMAIN thr = RwtThreads
      BY DEF RwtType
    <2> QED BY <1>0, <2>1 DEF Held, hand
  <1>2. /\ On(wlist, o) <=> B # {}
        /\ On(rlist, o) <=> C # {}
    BY DEF On
  <1>3. ASSUME NEW S, \A x, y \in S : x = y
        PROVE  Cardinality(S) = IF S = {} THEN 0 ELSE 1
    <2>1. CASE S = {}
      BY <2>1, FS_EmptySet
    <2>2. CASE S # {}
      <3>1. PICK x : S = {x}
        BY <1>3, <2>2
      <3> QED BY <2>2, <3>1, FS_Singleton
    <2> QED BY <2>1, <2>2
  <1>4. /\ \A x, y \in A : x = y
        /\ \A x, y \in B : x = y
        /\ \A x, y \in C : x = y
    BY <1>1 DEF RwtWork, Custody, Distinct
  <1>5. /\ A # {} => B = {} /\ C = {}
        /\ ~(B # {} /\ C # {})
    BY <1>1, <1>2 DEF RwtWork, Custody
  <1>6. o \in Finished(hand, wlist, rlist) <=> (A = {} /\ B = {} /\ C = {})
    BY <1>1, <1>2 DEF Finished
  <1> HIDE DEF A, B, C
  <1>7. Places(o) = Cardinality(A) + Cardinality(B) + Cardinality(C)
    BY DEF Places, A, B, C
  <1>8. /\ Cardinality(A) = IF A = {} THEN 0 ELSE 1
        /\ Cardinality(B) = IF B = {} THEN 0 ELSE 1
        /\ Cardinality(C) = IF C = {} THEN 0 ELSE 1
    BY <1>3, <1>4
  <1> QED BY <1>5, <1>6, <1>7, <1>8

(* mio_rw_threads, with any number of threads and objects, whichever       *)
(* operations fail: an object is on one list, in one thread's hands or     *)
(* finished, and the counters count exactly those that are finished.       *)
THEOREM HandedOver == Spec => []HandedOverOnce
  <1>1. RwtInv => HandedOverOnce
    <2> SUFFICES ASSUME RwtInv, main # "init", instance # "NULL" PROVE HandedOverOnce
      BY DEF HandedOverOnce
    <2>1. RwtType /\ RwtWork
      BY DEF RwtInv
    <2>2. \A o \in Objs : Places(o) <= 1
      BY <2>1, PlacesCount
    <2>3. {o \in Objs : Places(o) = 0} = Finished(hand, wlist, rlist)
      <3>1. Finished(hand, wlist, rlist) \subseteq Objs
        BY DEF Finished
      <3> QED BY <2>1, <3>1, PlacesCount
    <2> QED BY <2>1, <2>2, <2>3 DEF HandedOverOnce, RwtWork, Custody
  <1> QED BY <1>1, RwtInvariance, PTL

(* When all threads were started and have ended, the report accounts for   *)
(* every object, both lists are empty, and every object that was read back *)
(* has the digest of what was written.                                     *)
THEOREM ReportIsTrue == Spec => []ReportTrue
  <1>1. RwtInv => ReportTrue
    <2> SUFFICES ASSUME RwtInv, main = "fini", spawned = 2 * NrThreads PROVE ReportTrue
      BY DEF ReportTrue
    <2>1. RwtType /\ RwtWork /\ \A t \in RwtThreads : thr[t].pc = "gone"
      <3>1. 2 * NrThreads # 0
        BY RwtAssumption
      <3> QED BY <3>1 DEF RwtInv, RwtLife
    <2>2. 1 \in Writers /\ NrThreads + 1 \in Readers
      BY RwtAssumption DEF Writers, Readers
    <2>3. AllDone(nr) /\ wlist = <<>>
      BY <2>1, <2>2 DEF RwtWork, LeaveOK, RwtThreads
    <2>4. \A o \in Objs : o \in Finished(hand, wlist, rlist)
      BY <2>1, <2>3, CustodyAll DEF RwtWork, AllDone
    <2>5. rlist = <<>>
      <3>1. rlist \in Seq(Objs)
        BY <2>1 DEF RwtType
      <3>2. ASSUME rlist # <<>> PROVE FALSE
        <4>1. rlist[1] \in Objs /\ 1 \in 1..Len(rlist)
          BY <3>1, <3>2
        <4> QED BY <2>4, <4>1 DEF Finished, On
      <3> QED BY <3>2
    <2> QED BY <2>1, <2>3, <2>5 DEF ReportTrue, RwtWork
  <1> QED BY <1>1, RwtInvariance, PTL



(***************************************************************************)
(* mio_rw_lock: main begins without threads.                               *)
(***************************************************************************)
RwlLife ==
    /\ DOMAIN rwl = Lockers
    /\ rwl_main = "init" => \A t \in Lockers : rwl[t].pc = "none"

(* A step of one of the threads: a thread that is not started stays so.    *)
LEMMA LockerSteps ==
    ASSUME RwlLife, NEW t \in Lockers, LockerStep(t) \/ (rwl_main # "exit" /\ LockFails(t))
    PROVE  /\ DOMAIN rwl' = Lockers /\ rwl[t].pc \notin {"none", "gone"}
           /\ \A u \in Lockers : u # t => rwl'[u] = rwl[u]
           /\ UNCHANGED <<initVars, rwl_main>>
  <1>1. UNCHANGED <<initVars, rwl_main>> /\ rwl[t].pc \notin {"none", "gone"}
    BY DEF LockerStep, LockFails, rwl_obj_open, rwl_obj_lock, rwl_task, rwl_io, rwl_print_io,
           rwl_obj_unlock
  <1>2. DOMAIN rwl = Lockers
    BY DEF RwlLife
  <1>3. CASE rwl_io(t)
    <2>1. \E e : rwl' = [rwl EXCEPT ![t] = e]
      <3>1. CASE t \in RwlWriters
        BY <1>3, <3>1 DEF rwl_io
      <3>2. CASE t \notin RwlWriters
        BY <1>3, <3>2 DEF rwl_io, RwlErr
      <3> QED BY <3>1, <3>2
    <2> QED BY <1>1, <1>2, <2>1
  <1>4. CASE LockFails(t) \/ rwl_obj_open(t) \/ rwl_obj_lock(t) \/ rwl_task(t) \/ rwl_print_io(t)
             \/ rwl_obj_unlock(t)
    <2>1. \E e : rwl' = [rwl EXCEPT ![t] = e]
      BY <1>4 DEF LockFails, rwl_obj_open, rwl_obj_lock, rwl_task, rwl_print_io, rwl_obj_unlock,
                  RwlGoto, RwlErr
    <2> QED BY <1>1, <1>2, <2>1
  <1> QED BY <1>3, <1>4 DEF LockerStep

(* Every step keeps this.                                                  *)
LEMMA RwlLifeNext == RwlLife /\ [Next]_vars => RwlLife'
  <1> SUFFICES ASSUME RwlLife, [Next]_vars PROVE RwlLife'
    OBVIOUS
  <1>1. CASE UNCHANGED rwlVars
    BY <1>1 DEF RwlLife, rwlVars
  <1>2. CASE RwlMainStep
    <2>1. rwl_main' # "init" /\ (DOMAIN rwl = Lockers => DOMAIN rwl' = Lockers)
      BY <1>2 DEF RwlMainStep, RwlMain, RwlPrepared, mio_rwl_start, mio_rwl_stop, RwlUnlink, RwlFini,
                  RwlReturn
    <2> QED BY <2>1 DEF RwlLife
  <1>3. ASSUME NEW t \in Lockers, LockerStep(t) \/ (rwl_main # "exit" /\ LockFails(t)) PROVE RwlLife'
    BY <1>3, LockerSteps DEF RwlLife
  <1> QED BY <1>1, <1>2, <1>3 DEF Next, Start, Startup, Library, Other, RwThreads, RwLock, RwlStep,
                                  Async, vars

(* At first mio_rw_lock has no threads.                                    *)
LEMMA RwlInitially == Init => RwlLife
  BY DEF Init, RwlInit, RwlLife, Locker

(***************************************************************************)
(* mio_rw_lock for any number of threads and blocks: what a reader finds   *)
(* in the object is what the last writer before it put there.              *)
(***************************************************************************)

(***************************************************************************)
(* The report, a sequence s of entries: j is the last writer before entry  *)
(* i.  The digest of n blocks that all come from the writer of entry j is  *)
(* Filled(n, j).                                                           *)
(***************************************************************************)
Filled(n, j) == [b \in 1..n |-> j]

Latest(s, i, j) == /\ j \in 1..i-1 /\ s[j].role = "WRITER"
                   /\ \A k \in j+1..i-1 : s[k].role # "WRITER"

(* An entry of a reader that succeeded.                                    *)
Matches(s, i) ==
    (s[i].role = "READER" /\ s[i].end = "ok") => \A j \in 1..Len(s) :
        (Latest(s, i, j) /\ s[j].end # "failed") =>
            /\ s[i].sum = Filled(RwlBlocks, j)
            /\ s[i-1].end # "failed" => s[i].verdict = "MATCHED"

(* The first entry is a writer's, so that there is a last writer before    *)
(* every other one; a writer that succeeded has written all blocks.        *)
Report(s) ==
    /\ Len(s) > 0 => s[1].role = "WRITER"
    /\ \A i \in 2..Len(s)+1 : \E j \in 1..Len(s) : Latest(s, i, j)
    /\ \A i \in 1..Len(s) : s[i].role = "WRITER" /\ s[i].end = "ok" => s[i].sum = Filled(RwlBlocks, i)
    /\ \A i \in 1..Len(s) : Matches(s, i)
    /\ \A i \in 1..Len(s) : s[i].end = "busy" => i = Len(s)

(***************************************************************************)
(* The threads.                                                            *)
(***************************************************************************)
LockerPlaces == {"none", "open", "lock", "task", "io", "print", "unlock", "gone"}
Locked       == {"task", "io", "print", "unlock"}
LockerType   == [pc : LockerPlaces, idx : Nat, left : 0..RwlBlocks, sum : Seq(Nat), rc : {"ok", "err"}]
EntryType    == [role : {"WRITER", "READER"}, sum : Seq(Nat), end : {"busy", "ok", "failed"},
                 verdict : {"none", "MATCHED", "FAILED"}]

RwlType ==
    /\ rwl \in [Lockers -> LockerType]
    /\ holder \in Lockers \cup {Nobody}
    /\ ioses \in Seq(EntryType)
    /\ disk \in [1..RwlBlocks -> Nat]

(* What a thread has done: only the one that has the lock has an entry it  *)
(* is not through with, the last; its digest is that of the blocks it has  *)
(* passed, a writer's own, and for a reader those of the last writer.      *)
Passing(t) == rwl[t].pc = "io" \/ (rwl[t].pc = "print" /\ rwl[t].rc = "ok")
LockerOK(t) ==
    /\ rwl[t].pc \in Locked <=> holder = t
    /\ rwl[t].pc \in {"none", "open", "lock", "task"} => rwl[t].sum = <<>> /\ rwl[t].rc = "ok"
    /\ rwl[t].pc \in {"io", "print"} =>
          /\ Len(ioses) > 0 /\ rwl[t].idx = Len(ioses) /\ ioses[Len(ioses)].end = "busy"
          /\ ioses[Len(ioses)].role = NewEntry(t).role
    /\ rwl[t].pc = "io" => rwl[t].left > 0 /\ rwl[t].rc = "ok"
    /\ (rwl[t].pc = "print" /\ rwl[t].rc = "ok") => rwl[t].left = 0
    /\ (Passing(t) /\ t \in RwlWriters) =>
          /\ rwl[t].sum = Filled(RwlBlocks - rwl[t].left, Len(ioses))
          /\ \A b \in 1..RwlBlocks - rwl[t].left : disk[b] = Len(ioses)
    /\ (Passing(t) /\ t \notin RwlWriters) => \A j \in 1..Len(ioses) :
          (Latest(ioses, Len(ioses), j) /\ ioses[j].end # "failed") =>
              rwl[t].sum = Filled(RwlBlocks - rwl[t].left, j)

(* The threads are started in order, and only after the first write has    *)
(* succeeded.                                                              *)
FirstWrite ==
    /\ \E k \in 0..2*RwlThreads+1 : \A t \in Lockers : rwl[t].pc = "none" <=> t >= k
    /\ \A t \in Lockers : t # 0 /\ rwl[t].pc # "none" => rwl[0].pc = "gone" /\ rwl[0].rc = "ok"
    /\ rwl_main = "start" => rwl[0].pc = "gone" /\ rwl[0].rc = "ok"
    /\ (rwl[0].pc \in {"io", "print", "unlock"} \/ (rwl[0].pc = "gone" /\ rwl[0].rc = "ok")) =>
          Len(ioses) > 0
    /\ rwl_main = "unlink" => \A t \in Lockers : rwl[t].pc = "gone"

(* The object holds what the last writer put there, if it succeeded, until *)
(* all threads have ended and main unlinks it.                             *)
Content ==
    (\E t \in Lockers : rwl[t].pc # "gone") => \A j \in 1..Len(ioses) :
        (Latest(ioses, Len(ioses) + 1, j) /\ ioses[j].end = "ok") => disk = Filled(RwlBlocks, j)

(* Only an entry whose thread is at work is unfinished.                    *)
AtWorkOnly ==
    \A i \in 1..Len(ioses) : ioses[i].end = "busy" =>
        holder \in Lockers /\ rwl[holder].pc \in {"io", "print"}

RwlInv == /\ RwlType /\ Report(ioses) /\ FirstWrite /\ Content /\ AtWorkOnly
          /\ \A t \in Lockers : LockerOK(t)


(* Blocks of one writer after blocks of the same writer.                   *)
LEMMA FilledMore ==
    ASSUME NEW m \in Nat, NEW n \in Nat, NEW j \in Nat
    PROVE  /\ Filled(m, j) \o Filled(n, j) = Filled(m + n, j)
           /\ Filled(n, j) \in Seq(Nat) /\ Filled(0, j) = <<>>
  <1>1. /\ Filled(m, j) \in Seq(Nat) /\ Len(Filled(m, j)) = m /\ \A b \in 1..m : Filled(m, j)[b] = j
        /\ Filled(n, j) \in Seq(Nat) /\ Len(Filled(n, j)) = n /\ \A b \in 1..n : Filled(n, j)[b] = j
        /\ Filled(m + n, j) \in Seq(Nat) /\ Len(Filled(m + n, j)) = m + n
        /\ \A b \in 1..m + n : Filled(m + n, j)[b] = j
    BY DEF Filled
  <1> DEFINE s == Filled(m, j) \o Filled(n, j)
  <1>2. s \in Seq(Nat) /\ Len(s) = m + n /\ \A b \in 1..m + n : s[b] = j
    <2>1. /\ s \in Seq(Nat) /\ Len(s) = m + n
          /\ \A b \in 1..m + n : s[b] = IF b <= m THEN Filled(m, j)[b] ELSE Filled(n, j)[b - m]
      <3> DEFINE p == Filled(m, j)
                 q == Filled(n, j)
      <3>1. p \in Seq(Nat) /\ Len(p) = m /\ q \in Seq(Nat) /\ Len(q) = n
        BY <1>1
      <3> HIDE DEF p, q
      <3>2. /\ p \o q \in Seq(Nat) /\ Len(p \o q) = m + n
            /\ \A b \in 1..m + n : (p \o q)[b] = IF b <= m THEN p[b] ELSE q[b - m]
        BY <3>1
      <3> QED BY <3>2 DEF p, q
    <2> HIDE DEF s
    <2>2. ASSUME NEW b \in 1..m + n PROVE s[b] = j
      <3>1. CASE b \in 1..m
        BY <1>1, <2>1, <3>1
      <3>2. CASE b - m \in 1..n
        BY <1>1, <2>1, <3>2
      <3> QED BY <3>1, <3>2
    <2> QED BY <2>1, <2>2
  <1>3. s = Filled(m + n, j)
    <2> HIDE DEF s
    <2> QED BY <1>1, <1>2
  <1>4. Filled(0, j) = <<>>
    <2>1. Filled(0, j) \in Seq(Nat) /\ Len(Filled(0, j)) = 0
      BY DEF Filled
    <2> QED BY <2>1
  <1> QED BY <1>1, <1>3, <1>4

(* A sequence of blocks that are all of one writer.                        *)
LEMMA FilledIs ==
    ASSUME NEW s \in Seq(Nat), NEW n \in Nat, NEW j \in Nat, Len(s) = n, \A b \in 1..n : s[b] = j
    PROVE  s = Filled(n, j)
  <1>1. Filled(n, j) \in Seq(Nat) /\ Len(Filled(n, j)) = n /\ \A b \in 1..n : Filled(n, j)[b] = j
    BY DEF Filled
  <1> QED BY <1>1

(* There is only one last writer.                                          *)
LEMMA LatestUnique ==
    ASSUME NEW s, NEW i \in Int, NEW j \in Int, NEW k \in Int, Latest(s, i, j), Latest(s, i, k)
    PROVE  j = k
  BY DEF Latest

(* What Max finds is the last writer.                                      *)
LEMMA LatestIsMax ==
    ASSUME NEW i \in Int, NEW j \in Int, Latest(ioses, i, j)
    PROVE  LastWriter(i) = j
  <1> DEFINE S == {k \in 1..i-1 : ioses[k].role = "WRITER"}
  <1>1. j \in S /\ \A k \in S : j >= k
    BY DEF Latest
  <1>2. \A x \in S : (\A y \in S : x >= y) => x = j
    BY <1>1
  <1> HIDE DEF S
  <1>3. Max(S) = j
    BY <1>1, <1>2 DEF Max
  <1> QED BY <1>3 DEF LastWriter, S

(* The last writers of a longer report.                                    *)
LEMMA LatestAppend ==
    ASSUME NEW s \in Seq(EntryType), NEW e \in EntryType, NEW j \in Int
    PROVE  LET r == Append(s, e) IN
           /\ \A i \in 1..Len(s)+1 : Latest(r, i, j) <=> Latest(s, i, j)
           /\ Latest(r, Len(s) + 2, j) <=> IF e.role = "WRITER" THEN j = Len(s) + 1
                                                                ELSE Latest(s, Len(s) + 1, j)
  <1> DEFINE r == Append(s, e)
             n == Len(s)
  <1>1. n \in Nat /\ Len(r) = n + 1 /\ r[n+1] = e /\ \A k \in 1..n : r[k] = s[k]
    OBVIOUS
  <1> HIDE DEF r, n
  <1>2. \A i \in 1..n+1 : Latest(r, i, j) <=> Latest(s, i, j)
    BY <1>1 DEF Latest
  <1>3. CASE e.role = "WRITER"
    <2>1. j = n + 1 => Latest(r, n + 2, j)
      BY <1>1, <1>3 DEF Latest
    <2>2. Latest(r, n + 2, j) => j = n + 1
      <3> SUFFICES ASSUME Latest(r, n + 2, j), j # n + 1 PROVE FALSE
        OBVIOUS
      <3>1. n + 1 \in j+1..n + 2 - 1
        BY <1>1 DEF Latest
      <3> QED BY <1>1, <1>3, <3>1 DEF Latest
    <2> QED BY <1>2, <1>3, <2>1, <2>2 DEF r, n
  <1>4. CASE e.role # "WRITER"
    <2>1. Latest(r, n + 2, j) => Latest(s, n + 1, j)
      BY <1>1, <1>4 DEF Latest
    <2>2. Latest(s, n + 1, j) => Latest(r, n + 2, j)
      BY <1>1, <1>4 DEF Latest
    <2> QED BY <1>2, <1>4, <2>1, <2>2 DEF r, n
  <1> QED BY <1>3, <1>4

(* A new entry keeps what is said of the report.                           *)
LEMMA ReportAppend ==
    ASSUME NEW s \in Seq(EntryType), NEW e \in EntryType, Report(s), e.end = "busy",
           \A i \in 1..Len(s) : s[i].end # "busy", Len(s) = 0 => e.role = "WRITER"
    PROVE  Report(Append(s, e))
  <1> DEFINE r == Append(s, e)
             n == Len(s)
  <1>1. n \in Nat /\ Len(r) = n + 1 /\ r[n+1] = e /\ \A k \in 1..n : r[k] = s[k]
    OBVIOUS
  <1>2. /\ \A j \in Int, i \in 1..n+1 : Latest(r, i, j) <=> Latest(s, i, j)
        /\ \A j \in Int : Latest(r, n + 2, j) <=> IF e.role = "WRITER" THEN j = n + 1 ELSE Latest(s, n + 1, j)
    BY LatestAppend
  <1> HIDE DEF r, n
  <1>0. /\ n > 0 => s[1].role = "WRITER"
        /\ \A i \in 2..n+1 : \E j \in 1..n : Latest(s, i, j)
        /\ \A i \in 1..n : s[i].role = "WRITER" /\ s[i].end = "ok" => s[i].sum = Filled(RwlBlocks, i)
        /\ \A i \in 1..n : Matches(s, i)
        /\ \A i \in 1..n : s[i].end # "busy"
    BY DEF Report, n
  <1>3. r[1].role = "WRITER"
    <2>1. CASE n = 0
      BY <1>1, <2>1 DEF n
    <2>2. CASE n > 0
      BY <1>0, <1>1, <2>2
    <2> QED BY <1>1, <2>1, <2>2
  <1>4. ASSUME NEW i \in 2..n+2 PROVE \E j \in 1..n+1 : Latest(r, i, j)
    <2>1. CASE i \in 2..n+1
      <3>1. PICK j \in 1..n : Latest(s, i, j)
        BY <1>0, <2>1
      <3>2. j \in Int /\ i \in 1..n+1 /\ j \in 1..n+1
        BY <1>1, <2>1
      <3> QED BY <1>2, <3>1, <3>2
    <2>2. CASE i = n + 2 /\ e.role = "WRITER"
      BY <1>1, <1>2, <2>2
    <2>3. CASE i = n + 2 /\ e.role # "WRITER"
      <3>1. n > 0
        BY <1>1, <2>3 DEF n
      <3>2. PICK j \in 1..n : Latest(s, n + 1, j)
        <4>1. n + 1 \in 2..n+1
          BY <1>1, <3>1
        <4> QED BY <1>0, <4>1
      <3> QED BY <1>1, <1>2, <2>3, <3>2
    <2> QED BY <1>1, <2>1, <2>2, <2>3
  <1>5. \A i \in 1..n+1 : r[i].role = "WRITER" /\ r[i].end = "ok" => r[i].sum = Filled(RwlBlocks, i)
    BY <1>0, <1>1
  <1>6. ASSUME NEW i \in 1..n+1 PROVE Matches(r, i)
    <2>1. CASE i = n + 1
      BY <1>1, <2>1 DEF Matches
    <2>2. CASE i \in 1..n
      <3> SUFFICES ASSUME r[i].role = "READER", r[i].end = "ok",
                          NEW j \in 1..n+1, Latest(r, i, j), r[j].end # "failed"
                   PROVE  /\ r[i].sum = Filled(RwlBlocks, j)
                          /\ r[i-1].end # "failed" => r[i].verdict = "MATCHED"
        BY <1>1 DEF Matches
      <3>1. j \in 1..n /\ i - 1 \in 1..n /\ Latest(s, i, j)
        <4>1. j \in Int /\ i \in 1..n+1
          BY <1>1, <2>2
        <4>2. Latest(s, i, j)
          BY <1>2, <4>1
        <4>3. j \in 1..i-1
          BY <4>2 DEF Latest
        <4> QED BY <1>1, <2>2, <4>2, <4>3
      <3>2. Matches(s, i) /\ r[i] = s[i] /\ r[j] = s[j] /\ r[i-1] = s[i-1]
        BY <1>0, <1>1, <2>2, <3>1
      <3> QED BY <3>1, <3>2 DEF Matches, n
    <2> QED BY <1>1, <2>1, <2>2
  <1>7. \A i \in 1..n+1 : r[i].end = "busy" => i = n + 1
    BY <1>0, <1>1
  <1>8. n + 2 = Len(r) + 1
    BY <1>1
  <1> QED BY <1>1, <1>3, <1>4, <1>5, <1>6, <1>7, <1>8 DEF Report, r


(* The digest of the entry before a reader's is that of the last writer,   *)
(* if both the writer and the one before succeeded.                        *)
LEMMA BeforeReader ==
    ASSUME NEW s \in Seq(EntryType), Report(s), NEW n \in 1..Len(s), NEW j \in 1..Len(s),
           Latest(s, n, j), s[j].end # "failed", s[n-1].end # "failed"
    PROVE  n > 1 /\ s[n-1].sum = Filled(RwlBlocks, j)
  <1>0. /\ \A i \in 1..Len(s) : s[i] \in EntryType /\ Matches(s, i)
        /\ \A i \in 1..Len(s) : s[i].role = "WRITER" /\ s[i].end = "ok" => s[i].sum = Filled(RwlBlocks, i)
        /\ \A i \in 1..Len(s) : s[i].end = "busy" => i = Len(s)
    BY DEF Report
  <1>1. n > 1 /\ n - 1 \in 1..Len(s) /\ n - 1 # Len(s) /\ j # Len(s) /\ j <= n - 1
    BY DEF Latest
  <1>2. s[n-1].end = "ok" /\ s[j].end = "ok"
    BY <1>0, <1>1 DEF EntryType
  <1>3. CASE s[n-1].role = "WRITER"
    <2>1. j = n - 1
      BY <1>1, <1>3 DEF Latest
    <2> QED BY <1>0, <1>1, <1>2, <1>3, <2>1
  <1>4. CASE s[n-1].role # "WRITER"
    <2>1. s[n-1].role = "READER"
      BY <1>0, <1>1, <1>4 DEF EntryType
    <2>2. Latest(s, n - 1, j)
      BY <1>1, <1>4 DEF Latest
    <2>3. Matches(s, n - 1)
      BY <1>0, <1>1
    <2> QED BY <1>1, <1>2, <2>1, <2>2, <2>3 DEF Matches
  <1> QED BY <1>1, <1>3, <1>4

(* The last entry is finished.                                             *)
LEMMA ReportPrint ==
    ASSUME NEW s \in Seq(EntryType), NEW e \in EntryType, Report(s), NEW n \in 1..Len(s), n = Len(s),
           e.role = s[n].role, e.end # "busy",
           (e.role = "WRITER" /\ e.end = "ok") => e.sum = Filled(RwlBlocks, n),
           (e.role = "READER" /\ e.end = "ok") => \A j \in 1..n :
               (Latest(s, n, j) /\ s[j].end # "failed") => e.sum = Filled(RwlBlocks, j),
           (e.role = "READER" /\ n > 1) => (s[n-1].sum = e.sum => e.verdict = "MATCHED")
    PROVE  Report([s EXCEPT ![n] = e])
  <1> DEFINE r == [s EXCEPT ![n] = e]
  <1>0. /\ n > 0 => s[1].role = "WRITER"
        /\ \A i \in 2..n+1 : \E j \in 1..n : Latest(s, i, j)
        /\ \A i \in 1..n : s[i].role = "WRITER" /\ s[i].end = "ok" => s[i].sum = Filled(RwlBlocks, i)
        /\ \A i \in 1..n : Matches(s, i)
        /\ \A i \in 1..n : s[i].end = "busy" => i = n
    BY DEF Report
  <1>1. Len(r) = n /\ n \in Nat /\ r[n] = e /\ \A i \in 1..n : i # n => r[i] = s[i]
    OBVIOUS
  <1> HIDE DEF r
  <1>2. \A i \in 1..n : r[i].role = s[i].role
    BY <1>1
  <1>3. \A i \in 1..n+1, j \in 1..n : Latest(r, i, j) <=> Latest(s, i, j)
    BY <1>1, <1>2 DEF Latest
  <1>4. r[1].role = "WRITER"
    BY <1>0, <1>1, <1>2
  <1>5. \A i \in 2..n+1 : \E j \in 1..n : Latest(r, i, j)
    <2>1. ASSUME NEW i \in 2..n+1 PROVE \E j \in 1..n : Latest(r, i, j)
      <3>1. PICK j \in 1..n : Latest(s, i, j)
        BY <1>0
      <3>2. i \in 1..n+1
        OBVIOUS
      <3> QED BY <1>3, <3>1, <3>2
    <2> QED BY <2>1
  <1>6. \A i \in 1..n : r[i].role = "WRITER" /\ r[i].end = "ok" => r[i].sum = Filled(RwlBlocks, i)
    BY <1>0, <1>1
  <1>7. ASSUME NEW i \in 1..n PROVE Matches(r, i)
    <2> SUFFICES ASSUME r[i].role = "READER", r[i].end = "ok",
                        NEW j \in 1..n, Latest(r, i, j), r[j].end # "failed"
                 PROVE  /\ r[i].sum = Filled(RwlBlocks, j)
                        /\ r[i-1].end # "failed" => r[i].verdict = "MATCHED"
      BY <1>1 DEF Matches
    <2>1. Latest(s, i, j) /\ i \in 1..n+1 /\ j <= i - 1 /\ i > 1 /\ i - 1 \in 1..n /\ i - 1 # n /\ j # n
      <3>1. i \in 1..n+1
        OBVIOUS
      <3>2. Latest(s, i, j)
        BY <1>3, <3>1
      <3> QED BY <3>1, <3>2 DEF Latest
    <2>2. r[j] = s[j] /\ r[i-1] = s[i-1]
      BY <1>1, <2>1
    <2>3. CASE i # n
      BY <1>0, <1>1, <2>1, <2>2, <2>3 DEF Matches
    <2>4. CASE i = n
      <3>1. e.sum = Filled(RwlBlocks, j)
        BY <1>1, <2>1, <2>2, <2>4
      <3>2. ASSUME r[i-1].end # "failed" PROVE e.verdict = "MATCHED"
        <4>1. s[n-1].sum = Filled(RwlBlocks, j)
          BY <2>1, <2>2, <2>4, <3>2, BeforeReader
        <4> QED BY <1>1, <2>1, <2>4, <3>1, <4>1
      <3> QED BY <1>1, <2>4, <3>1, <3>2
    <2> QED BY <2>3, <2>4
  <1>8. \A i \in 1..n : r[i].end = "busy" => i = n
    BY <1>0, <1>1
  <1> QED BY <1>1, <1>4, <1>5, <1>6, <1>7, <1>8 DEF Report, r


(* A step of thread t, which leaves the locals of the others alone.        *)
LockerTurn(t, e) == /\ rwl \in [Lockers -> LockerType] /\ e \in LockerType
                    /\ rwl' = [rwl EXCEPT ![t] = e]
                    /\ rwl[t].pc \notin {"none", "gone"} /\ e.pc # "none"
                    /\ rwl_main' = rwl_main

(* Only the thread that has the lock touches the report and the object,    *)
(* and the lock is taken when it is free; so the others are as they were.  *)
LEMMA OtherLockers ==
    ASSUME RwlInv, NEW t \in Lockers, NEW e, LockerTurn(t, e), NEW u \in Lockers, u # t,
           \/ holder' = holder /\ ioses' = ioses /\ disk' = disk
           \/ holder = t /\ holder' \in {t, Nobody}
           \/ holder = Nobody /\ holder' = t
    PROVE  rwl'[u] = rwl[u] /\ LockerOK(u)'
  <1>0. Nobody \notin Lockers
    BY RwlAssumption DEF Nobody, Lockers
  <1>1. rwl'[u] = rwl[u] /\ LockerOK(u)
    BY DEF LockerTurn, RwlInv
  <1>2. CASE holder' = holder /\ ioses' = ioses /\ disk' = disk
    BY <1>1, <1>2 DEF LockerOK, Passing, NewEntry
  <1>3. CASE holder # u /\ holder' # u
    <2>1. rwl[u].pc \notin Locked
      BY <1>1, <1>3 DEF LockerOK
    <2>2. rwl'[u].pc \notin {"task", "io", "print", "unlock"}
      BY <1>1, <2>1 DEF Locked
    <2> QED BY <1>1, <1>3, <2>2 DEF LockerOK, Passing, Locked
  <1> QED BY <1>0, <1>1, <1>2, <1>3

(* The first write and the order of the threads.                           *)
LEMMA FirstWriteTurn ==
    ASSUME RwlInv, NEW t \in Lockers, NEW e, LockerTurn(t, e),
           Len(ioses) \in Nat, Len(ioses') \in Nat, Len(ioses') >= Len(ioses),
           (e.pc \in {"io", "print", "unlock"} \/ (e.pc = "gone" /\ e.rc = "ok")) => Len(ioses') > 0
    PROVE  FirstWrite'
  <1>0. FirstWrite /\ 0 \in Lockers
    BY RwlAssumption DEF RwlInv, Lockers
  <1>1. rwl'[t] = e /\ \A u \in Lockers : u # t => rwl'[u] = rwl[u]
    BY DEF LockerTurn
  <1>2. \A u \in Lockers : rwl'[u].pc = "none" <=> rwl[u].pc = "none"
    BY <1>1 DEF LockerTurn
  <1>3. \E k \in 0..2*RwlThreads+1 : \A u \in Lockers : rwl'[u].pc = "none" <=> u >= k
    BY <1>0, <1>2 DEF FirstWrite
  <1>4. t = 0 => \A u \in Lockers : u # 0 => rwl[u].pc = "none"
    BY <1>0 DEF FirstWrite, LockerTurn
  <1>5. \A u \in Lockers : u # 0 /\ rwl'[u].pc # "none" => rwl'[0].pc = "gone" /\ rwl'[0].rc = "ok"
    <2>1. CASE t = 0
      BY <1>1, <1>4, <2>1
    <2>2. CASE t # 0
      BY <1>0, <1>1, <1>2, <2>2 DEF FirstWrite
    <2> QED BY <2>1, <2>2
  <1>6. rwl_main # "unlink" /\ (rwl_main = "start" => t # 0)
    BY <1>0 DEF FirstWrite, LockerTurn
  <1>7. (rwl'[0].pc \in {"io", "print", "unlock"} \/ (rwl'[0].pc = "gone" /\ rwl'[0].rc = "ok")) =>
            Len(ioses') > 0
    <2>1. CASE t = 0
      BY <1>1, <2>1
    <2>2. CASE t # 0
      BY <1>0, <1>1, <2>2 DEF FirstWrite
    <2> QED BY <2>1, <2>2
  <1>8. rwl_main' = "start" => rwl'[0].pc = "gone" /\ rwl'[0].rc = "ok"
    BY <1>0, <1>1, <1>6 DEF FirstWrite, LockerTurn
  <1> QED BY <1>3, <1>5, <1>6, <1>7, <1>8 DEF FirstWrite, LockerTurn

(* The steps that touch neither the report nor the object: opening,        *)
(* locking and unlocking.                                                  *)
LEMMA LockingInv ==
    ASSUME RwlInv, NEW t \in Lockers,
           rwl_obj_open(t) \/ rwl_obj_lock(t) \/ LockFails(t) \/ rwl_obj_unlock(t)
    PROVE  RwlInv'
  <1>0. /\ RwlType /\ rwl \in [Lockers -> LockerType] /\ rwl[t] \in LockerType /\ LockerOK(t)
        /\ ioses \in Seq(EntryType) /\ Nobody \notin Lockers
    BY RwlAssumption DEF RwlInv, RwlType, Nobody, Lockers
  <1>1. PICK e \in LockerType :
            /\ rwl' = [rwl EXCEPT ![t] = e] /\ UNCHANGED <<rwl_main, ioses, disk>>
            /\ \/ rwl[t].pc = "open" /\ e.pc = "lock" /\ e.sum = rwl[t].sum /\ e.rc = rwl[t].rc /\ holder' = holder
               \/ rwl[t].pc = "lock" /\ e.pc = "task" /\ e.sum = rwl[t].sum /\ e.rc = rwl[t].rc
                  /\ holder = Nobody /\ holder' = t
               \/ rwl[t].pc \in {"open", "lock"} /\ e.pc = "gone" /\ e.rc = "err" /\ holder' = holder
               \/ rwl[t].pc = "unlock" /\ e.pc = "gone" /\ e.rc = rwl[t].rc /\ holder' = Nobody
    <2>1. \A p \in LockerPlaces : LET e == [rwl[t] EXCEPT !.pc = p] IN
              e \in LockerType /\ e.pc = p /\ e.sum = rwl[t].sum /\ e.rc = rwl[t].rc
      BY <1>0 DEF LockerType
    <2>2. LET e == [rwl[t] EXCEPT !.pc = "gone", !.rc = "err"] IN
              e \in LockerType /\ e.pc = "gone" /\ e.rc = "err"
      BY <1>0 DEF LockerType, LockerPlaces
    <2>3. CASE rwl_obj_open(t) /\ RwlGoto(t, "lock")
      <3>1. [rwl[t] EXCEPT !.pc = "lock"] \in LockerType /\ rwl' = [rwl EXCEPT ![t] = [rwl[t] EXCEPT !.pc = "lock"]]
        BY <1>0, <2>1, <2>3 DEF RwlGoto, LockerPlaces
      <3> QED BY <2>1, <2>3, <3>1 DEF rwl_obj_open, LockerPlaces
    <2>4. CASE (rwl_obj_open(t) \/ LockFails(t)) /\ RwlErr(t, "gone")
      <3>1. rwl' = [rwl EXCEPT ![t] = [rwl[t] EXCEPT !.pc = "gone", !.rc = "err"]]
        BY <1>0, <2>4 DEF RwlErr
      <3> QED BY <2>2, <2>4, <3>1 DEF rwl_obj_open, LockFails
    <2>5. CASE rwl_obj_lock(t)
      <3>1. [rwl[t] EXCEPT !.pc = "task"] \in LockerType /\ rwl' = [rwl EXCEPT ![t] = [rwl[t] EXCEPT !.pc = "task"]]
        BY <1>0, <2>1, <2>5 DEF rwl_obj_lock, RwlGoto, LockerPlaces
      <3> QED BY <2>1, <2>5, <3>1 DEF rwl_obj_lock, LockerPlaces
    <2>6. CASE rwl_obj_unlock(t)
      <3>1. [rwl[t] EXCEPT !.pc = "gone"] \in LockerType /\ rwl' = [rwl EXCEPT ![t] = [rwl[t] EXCEPT !.pc = "gone"]]
        BY <1>0, <2>1, <2>6 DEF rwl_obj_unlock, RwlGoto, LockerPlaces
      <3> QED BY <2>1, <2>6, <3>1 DEF rwl_obj_unlock, LockerPlaces
    <2> QED BY <2>3, <2>4, <2>5, <2>6 DEF rwl_obj_open, LockFails
  <1>2. LockerTurn(t, e)
    BY <1>0, <1>1 DEF LockerTurn
  <1>3. rwl'[t] = e /\ \A u \in Lockers : u # t => rwl'[u] = rwl[u]
    BY <1>2 DEF LockerTurn
  <1>4. RwlType'
    BY <1>0, <1>1 DEF RwlType
  <1>5. rwl[t].pc = "unlock" => holder = t
    BY <1>0 DEF LockerOK, Locked
  <1>6. \A u \in Lockers : u # t => LockerOK(u)'
    BY <1>1, <1>2, <1>5, OtherLockers
  <1>7. LockerOK(t)'
    BY <1>0, <1>1, <1>3 DEF LockerOK, Locked, Passing
  <1>8. FirstWrite'
    <2>1. Len(ioses) \in Nat /\ ioses' = ioses
      BY <1>0, <1>1
    <2>2. (e.pc = "gone" /\ e.rc = "ok") => Len(ioses) > 0
      <3> SUFFICES ASSUME e.pc = "gone", e.rc = "ok" PROVE Len(ioses) > 0
        OBVIOUS
      <3>1. rwl[t].pc = "unlock" /\ rwl[t].rc = "ok"
        BY <1>1
      <3>2. t = 0 \/ (rwl[0].pc = "gone" /\ rwl[0].rc = "ok")
        BY <3>1 DEF RwlInv, FirstWrite
      <3> QED BY <3>1, <3>2 DEF RwlInv, FirstWrite
    <2>3. e.pc \notin {"io", "print", "unlock"}
      BY <1>1
    <2> QED BY <1>2, <2>1, <2>2, <2>3, FirstWriteTurn
  <1>9. Content'
    BY <1>1, <1>2 DEF RwlInv, Content, LockerTurn
  <1>10. AtWorkOnly'
    <2> SUFFICES ASSUME NEW i \in 1..Len(ioses), ioses[i].end = "busy"
                 PROVE  holder' \in Lockers /\ rwl'[holder'].pc \in {"io", "print"}
      BY <1>1 DEF AtWorkOnly
    <2>1. holder \in Lockers /\ rwl[holder].pc \in {"io", "print"}
      BY DEF RwlInv, AtWorkOnly
    <2> QED BY <1>0, <1>1, <1>3, <1>5, <2>1
  <1> QED BY <1>1, <1>4, <1>6, <1>7, <1>8, <1>9, <1>10 DEF RwlInv


(* A new entry of the report is of a writer or of a reader, and the first  *)
(* one of a writer.                                                        *)
LEMMA FirstEntry ==
    ASSUME RwlInv, NEW t \in Lockers, rwl[t].pc # "none"
    PROVE  /\ NewEntry(t) \in EntryType /\ NewEntry(t).end = "busy"
           /\ NewEntry(t).role = IF t \in RwlWriters THEN "WRITER" ELSE "READER"
           /\ Len(ioses) = 0 => t = 0 /\ t \in RwlWriters
  <1>1. /\ NewEntry(t) \in EntryType /\ NewEntry(t).end = "busy"
        /\ NewEntry(t).role = IF t \in RwlWriters THEN "WRITER" ELSE "READER"
    BY DEF NewEntry, EntryType
  <1>2. t # 0 => Len(ioses) > 0
    BY DEF RwlInv, FirstWrite
  <1>3. 0 \in RwlWriters
    BY RwlAssumption DEF RwlWriters
  <1> QED BY <1>1, <1>2, <1>3

(* A thread takes the next entry of the report.                            *)
LEMMA TaskInv ==
    ASSUME RwlInv, NEW t \in Lockers, rwl_task(t)
    PROVE  RwlInv'
  <1>0. /\ RwlType /\ rwl \in [Lockers -> LockerType] /\ rwl[t] \in LockerType /\ LockerOK(t)
        /\ ioses \in Seq(EntryType) /\ Nobody \notin Lockers /\ RwlBlocks \in Nat /\ RwlBlocks > 0
    BY RwlAssumption DEF RwlInv, RwlType, Nobody, Lockers
  <1> DEFINE x == NewEntry(t)
             n == Len(ioses)
             e == [rwl[t] EXCEPT !.pc = "io", !.idx = n + 1, !.left = RwlBlocks]
  <1>1. /\ rwl[t].pc = "task" /\ ioses' = Append(ioses, x) /\ rwl' = [rwl EXCEPT ![t] = e]
        /\ UNCHANGED <<rwl_main, holder, disk>>
    BY DEF rwl_task
  <1>2. /\ e \in LockerType /\ e.pc = "io" /\ e.idx = n + 1 /\ e.left = RwlBlocks
        /\ e.sum = rwl[t].sum /\ e.rc = rwl[t].rc /\ n \in Nat
    <2>1. n \in Nat /\ n + 1 \in Nat /\ RwlBlocks \in 0..RwlBlocks
      BY <1>0
    <2> HIDE DEF n
    <2> QED BY <1>0, <2>1 DEF LockerType, LockerPlaces
  <1>3. holder = t /\ rwl[t].sum = <<>> /\ rwl[t].rc = "ok"
    BY <1>0, <1>1 DEF LockerOK, Locked
  <1>4. \A i \in 1..n : ioses[i].end # "busy"
    BY <1>1, <1>3 DEF RwlInv, AtWorkOnly
  <1>5. /\ x \in EntryType /\ x.end = "busy"
        /\ x.role = IF t \in RwlWriters THEN "WRITER" ELSE "READER"
        /\ n = 0 => t \in RwlWriters
    BY <1>1, FirstEntry
  <1>6. /\ ioses' \in Seq(EntryType) /\ Len(ioses') = n + 1 /\ ioses'[n+1] = x
        /\ \A i \in 1..n : ioses'[i] = ioses[i]
    BY <1>0, <1>1, <1>5
  <1>7. /\ \A j \in Int, i \in 1..n+1 : Latest(ioses', i, j) <=> Latest(ioses, i, j)
        /\ \A j \in Int : Latest(ioses', n + 2, j) <=> IF x.role = "WRITER" THEN j = n + 1
                                                                           ELSE Latest(ioses, n + 1, j)
    BY <1>0, <1>1, <1>5, LatestAppend
  <1> HIDE DEF x, n, e
  <1>8. Report(ioses)'
    BY <1>0, <1>1, <1>4, <1>5, ReportAppend DEF RwlInv, n
  <1>9. LockerTurn(t, e)
    BY <1>0, <1>1, <1>2 DEF LockerTurn
  <1>10. rwl'[t] = e
    BY <1>9 DEF LockerTurn
  <1>11. RwlType'
    BY <1>0, <1>1, <1>2, <1>6 DEF RwlType
  <1>12. \A u \in Lockers : u # t => LockerOK(u)'
    BY <1>1, <1>3, <1>9, OtherLockers
  <1>13. LockerOK(t)'
    <2>1. RwlBlocks - e.left = 0 /\ \A j \in Nat : Filled(0, j) = <<>>
      BY <1>0, <1>2, FilledMore
    <2>2. e.sum = <<>> /\ e.rc = "ok" /\ holder' = t
      BY <1>1, <1>2, <1>3
    <2>3. Len(ioses') > 0 /\ e.idx = Len(ioses') /\ ioses'[Len(ioses')] = x /\ e.left > 0
          /\ Len(ioses') \in Nat
      BY <1>0, <1>2, <1>6
    <2>4. x.role = NewEntry(t)'.role
      BY DEF x, NewEntry
    <2>5. (t \in RwlWriters) => /\ e.sum = Filled(RwlBlocks - e.left, Len(ioses'))
                                /\ \A b \in 1..RwlBlocks - e.left : disk'[b] = Len(ioses')
      BY <2>1, <2>2, <2>3
    <2>6. \A j \in 1..Len(ioses') : e.sum = Filled(RwlBlocks - e.left, j)
      BY <2>1, <2>2
    <2> QED BY <1>2, <1>5, <1>10, <2>2, <2>3, <2>4, <2>5, <2>6 DEF LockerOK, Locked, Passing
  <1>14. FirstWrite'
    BY <1>2, <1>6, <1>9, FirstWriteTurn DEF n
  <1>15. Content'
    <2> SUFFICES ASSUME NEW j \in 1..n+1, Latest(ioses', n + 2, j), ioses'[j].end = "ok"
                 PROVE  disk' = Filled(RwlBlocks, j)
      <3>1. Len(ioses') + 1 = n + 2
        BY <1>2, <1>6
      <3> QED BY <1>6, <3>1 DEF Content
    <2>1. j # n + 1
      BY <1>5, <1>6
    <2>2. j \in 1..n /\ Latest(ioses, n + 1, j) /\ ioses[j].end = "ok"
      BY <1>2, <1>6, <1>7, <2>1
    <2>3. \E u \in Lockers : rwl[u].pc # "gone"
      BY <1>1
    <2> QED BY <1>1, <2>2, <2>3 DEF RwlInv, Content, n
  <1>16. AtWorkOnly'
    BY <1>1, <1>2, <1>3, <1>10 DEF AtWorkOnly
  <1> QED BY <1>8, <1>11, <1>12, <1>13, <1>14, <1>15, <1>16 DEF RwlInv

(* The last writer, when the last entry is one, and when it is not.        *)
LEMMA LatestLast ==
    ASSUME NEW s, NEW n \in Nat, n > 0, NEW j \in 1..n
    PROVE  /\ s[n].role = "WRITER" => (Latest(s, n + 1, j) => j = n)
           /\ s[n].role # "WRITER" => (Latest(s, n + 1, j) <=> Latest(s, n, j))
  BY DEF Latest

(* What a pass of the thread that has the lock has to see to.              *)
LEMMA IoTurn ==
    ASSUME RwlInv, NEW t \in Lockers, rwl[t].pc = "io", NEW e \in LockerType,
           rwl' = [rwl EXCEPT ![t] = e], e.pc \in {"io", "print"}, e.idx = rwl[t].idx,
           e.pc = "io" => e.left > 0 /\ e.rc = "ok",
           (e.pc = "print" /\ e.rc = "ok") => e.left = 0,
           UNCHANGED <<rwl_main, holder, ioses>>, disk' \in [1..RwlBlocks -> Nat],
           t \notin RwlWriters => disk' = disk,
           (e.rc = "ok" /\ t \in RwlWriters) =>
               /\ e.sum = Filled(RwlBlocks - e.left, Len(ioses))
               /\ \A b \in 1..RwlBlocks - e.left : disk'[b] = Len(ioses),
           (e.rc = "ok" /\ t \notin RwlWriters) => \A j \in 1..Len(ioses) :
               (Latest(ioses, Len(ioses), j) /\ ioses[j].end # "failed") =>
                   e.sum = Filled(RwlBlocks - e.left, j)
    PROVE  RwlInv'
  <1>0. /\ RwlType /\ rwl \in [Lockers -> LockerType] /\ LockerOK(t) /\ ioses \in Seq(EntryType)
    BY DEF RwlInv, RwlType
  <1>1. /\ holder = t /\ Len(ioses) > 0 /\ rwl[t].idx = Len(ioses) /\ ioses[Len(ioses)].end = "busy"
        /\ ioses[Len(ioses)].role = NewEntry(t).role
    BY <1>0 DEF LockerOK, Locked
  <1>2. LockerTurn(t, e)
    BY <1>0 DEF LockerTurn
  <1>3. rwl'[t] = e
    BY <1>2 DEF LockerTurn
  <1>4. RwlType'
    BY <1>0 DEF RwlType
  <1>5. \A u \in Lockers : u # t => LockerOK(u)'
    BY <1>1, <1>2, OtherLockers
  <1>6. LockerOK(t)'
    <2>1. NewEntry(t)' = NewEntry(t) /\ (Passing(t)' => e.rc = "ok")
      BY <1>3 DEF NewEntry, Passing
    <2>2. ioses' = ioses /\ holder' = t
      BY <1>1
    <2> QED BY <1>1, <1>3, <2>1, <2>2 DEF LockerOK, Locked
  <1>7. FirstWrite'
    <2>1. Len(ioses) \in Nat
      BY <1>0
    <2> QED BY <1>1, <1>2, <2>1, FirstWriteTurn
  <1>8. Content'
    <2>1. CASE t \notin RwlWriters
      BY <2>1 DEF RwlInv, Content
    <2>2. CASE t \in RwlWriters
      <3>1. ioses[Len(ioses)].role = "WRITER"
        BY <1>1, <2>2 DEF NewEntry
      <3>2. \A j \in 1..Len(ioses) : Latest(ioses, Len(ioses) + 1, j) => ioses[j].end = "busy"
        BY <1>0, <1>1, <3>1, LatestLast
      <3> QED BY <3>2 DEF Content
    <2> QED BY <2>1, <2>2
  <1>9. AtWorkOnly'
    BY <1>1, <1>3 DEF AtWorkOnly
  <1>10. Report(ioses)'
    BY DEF RwlInv
  <1> QED BY <1>4, <1>5, <1>6, <1>7, <1>8, <1>9, <1>10 DEF RwlInv

(* A pass of io_thread_obj_write or io_thread_obj_read.                    *)
LEMMA IoInv ==
    ASSUME RwlInv, NEW t \in Lockers, rwl_io(t)
    PROVE  RwlInv'
  <1>0. /\ RwlType /\ rwl[t] \in LockerType /\ LockerOK(t) /\ ioses \in Seq(EntryType)
        /\ disk \in [1..RwlBlocks -> Nat] /\ RwlBlocks \in Nat /\ BlocksPerOp \in Nat /\ BlocksPerOp > 0
    BY RwlAssumption, ExamplesAssumption DEF RwlInv, RwlType
  <1> DEFINE left == rwl[t].left
             n == Bcount(BlocksPerOp, left)
             from == RwlBlocks - left
             k == Len(ioses)
  <1>1. /\ rwl[t].pc = "io" /\ UNCHANGED <<rwl_main, holder, ioses>>
    BY DEF rwl_io
  <1>2. /\ rwl[t].idx = k /\ k \in Nat /\ k > 0 /\ ioses[k].end = "busy"
        /\ ioses[k].role = (IF t \in RwlWriters THEN "WRITER" ELSE "READER")
        /\ left > 0 /\ rwl[t].rc = "ok"
    BY <1>0, <1>1 DEF LockerOK, NewEntry
  <1>3. /\ left \in 0..RwlBlocks /\ n \in Nat /\ n > 0 /\ n <= left /\ from \in Nat /\ left - n \in 0..RwlBlocks
        /\ from + n <= RwlBlocks /\ RwlBlocks - (left - n) = from + n
    <2>1. left \in 0..RwlBlocks
      BY <1>0 DEF LockerType
    <2> HIDE DEF left
    <2>2. n \in Nat /\ n > 0 /\ n <= left
      BY <1>0, <1>2, <2>1 DEF Bcount
    <2> HIDE DEF n
    <2> QED BY <1>0, <2>1, <2>2
  <1>4. rwl[t].sum \in Seq(Nat)
    BY <1>0 DEF LockerType
  <1> DEFINE pass(more) == RwlPass(rwl[t], n, more)
  <1>5. ASSUME NEW more \in Seq(Nat)
        PROVE  /\ pass(more) \in LockerType /\ pass(more).pc = (IF left = n THEN "print" ELSE "io")
               /\ pass(more).left = left - n /\ pass(more).sum = rwl[t].sum \o more
               /\ pass(more).rc = "ok" /\ pass(more).idx = rwl[t].idx
    <2>1. rwl[t].sum \o more \in Seq(Nat)
      BY <1>4
    <2> HIDE DEF n
    <2> QED BY <1>0, <1>2, <1>3, <2>1 DEF RwlPass, LockerType, LockerPlaces
  <1>6. CASE t \in RwlWriters
    <2> DEFINE new(m) == [b \in 1..RwlBlocks |-> IF b \in from+1..from+m THEN rwl[t].idx ELSE disk[b]]
               more == Filled(n, k)
    <2>1. more \in Seq(Nat) /\ more = [i \in 1..n |-> rwl[t].idx]
      BY <1>2, <1>3, FilledMore DEF Filled
    <2>2. \A m \in Nat : new(m) \in [1..RwlBlocks -> Nat]
      BY <1>0, <1>2
    <2>3. /\ rwl[t].sum = Filled(from, k)
          /\ \A b \in 1..from : disk[b] = k
      BY <1>0, <1>1, <1>6 DEF LockerOK, Passing
    <2>4. \/ disk' = new(n) /\ rwl' = [rwl EXCEPT ![t] = pass(more)]
          \/ /\ \E m \in 0..n : disk' = new(m)
             /\ rwl' = [rwl EXCEPT ![t] = RwlFail(rwl[t], more)]
      BY <1>6, <2>1 DEF rwl_io
    <2>5. CASE disk' = new(n) /\ rwl' = [rwl EXCEPT ![t] = pass(more)]
      <3> DEFINE e == pass(more)
      <3>1. /\ e \in LockerType /\ e.pc = (IF left = n THEN "print" ELSE "io") /\ e.left = left - n
            /\ e.sum = rwl[t].sum \o more /\ e.rc = "ok" /\ e.idx = rwl[t].idx
        BY <1>5, <2>1
      <3> HIDE DEF e
      <3>2. e.sum = Filled(from + n, k)
        BY <1>2, <1>3, <2>3, <3>1, FilledMore
      <3>3. ASSUME NEW b \in 1..from + n PROVE disk'[b] = k
        <4> HIDE DEF from, n, left, pass, more
        <4>1. b \in 1..RwlBlocks /\ (b \in 1..from \/ b \in from+1..from+n)
          BY <1>0, <1>3
        <4> QED BY <1>2, <2>3, <2>5, <4>1
      <3>4. disk' \in [1..RwlBlocks -> Nat]
        BY <1>3, <2>2, <2>5
      <3>5. e.pc \in {"io", "print"} /\ (e.pc = "io" => e.left > 0) /\ (e.pc = "print" => e.left = 0)
        BY <1>3, <3>1
      <3>6. RwlBlocks - e.left = from + n
        BY <1>3, <3>1
      <3>7. rwl' = [rwl EXCEPT ![t] = e]
        BY <2>5 DEF e
      <3> HIDE DEF pass, more, n, from, left
      <3> QED BY <1>1, <1>6, <3>1, <3>2, <3>3, <3>4, <3>5, <3>6, <3>7, IoTurn
    <2>6. CASE /\ \E m \in 0..n : disk' = new(m)
               /\ rwl' = [rwl EXCEPT ![t] = RwlFail(rwl[t], more)]
      <3> DEFINE e == RwlFail(rwl[t], more)
      <3>1. rwl[t].sum \o more \in Seq(Nat)
        BY <1>4, <2>1
      <3>2. e \in LockerType /\ e.pc = "print" /\ e.rc = "err" /\ e.idx = rwl[t].idx
        BY <1>0, <3>1 DEF RwlFail, LockerType, LockerPlaces
      <3>3. disk' \in [1..RwlBlocks -> Nat]
        BY <1>3, <2>2, <2>6
      <3>4. rwl' = [rwl EXCEPT ![t] = e]
        BY <2>6
      <3> HIDE DEF e, more, n, from, left
      <3> QED BY <1>1, <1>6, <3>2, <3>3, <3>4, IoTurn
    <2> QED BY <2>4, <2>5, <2>6
  <1>7. CASE t \notin RwlWriters
    <2> DEFINE more == SubSeq(disk, from + 1, from + n)
    <2>1. /\ more \in Seq(Nat) /\ disk' = disk
          /\ Len(more) = n /\ \A b \in 1..n : more[b] = disk[from + b]
      <3>1. disk \in Seq(Nat) /\ Len(disk) = RwlBlocks
        BY <1>0
      <3>2. disk' = disk
        BY <1>7 DEF rwl_io
      <3> HIDE DEF from, n
      <3>3. from + 1 \in Int /\ from + n \in Int /\ \A i \in from + 1..from + n : disk[i] \in Nat
        BY <1>0, <1>3
      <3>4. /\ more \in Seq(Nat) /\ Len(more) = (from + n) - (from + 1) + 1
            /\ \A b \in 1..(from + n) - (from + 1) + 1 : more[b] = disk[(from + 1) + b - 1]
        BY <1>3, <3>1, <3>3, SubSeqProperties
      <3>5. (from + n) - (from + 1) + 1 = n /\ \A b \in 1..n : (from + 1) + b - 1 = from + b
        BY <1>3
      <3> HIDE DEF more
      <3> QED BY <3>2, <3>4, <3>5
    <2>2. rwl' = [rwl EXCEPT ![t] = pass(more)] \/ RwlErr(t, "print")
      BY <1>7 DEF rwl_io
    <2>3. CASE rwl' = [rwl EXCEPT ![t] = pass(more)]
      <3> DEFINE e == pass(more)
      <3>1. /\ e \in LockerType /\ e.pc = (IF left = n THEN "print" ELSE "io") /\ e.left = left - n
            /\ e.sum = rwl[t].sum \o more /\ e.rc = "ok" /\ e.idx = rwl[t].idx
        BY <1>5, <2>1
      <3> HIDE DEF e
      <3>2. ASSUME NEW j \in 1..k, Latest(ioses, k, j), ioses[j].end # "failed"
            PROVE  e.sum = Filled(from + n, j)
        <4>1. j # k /\ j \in Nat
          BY <1>2, <3>2 DEF Latest
        <4>2. ioses[j].end = "ok"
          <5>1. ioses[j] \in EntryType
            BY <1>0
          <5>2. ioses[j].end # "busy"
            BY <4>1 DEF RwlInv, Report
          <5> QED BY <3>2, <5>1, <5>2 DEF EntryType
        <4>3. Latest(ioses, k + 1, j)
          BY <1>2, <1>7, <3>2, LatestLast
        <4>4. disk = Filled(RwlBlocks, j)
          BY <1>1, <4>2, <4>3 DEF RwlInv, Content
        <4>5. rwl[t].sum = Filled(from, j)
          BY <1>0, <1>1, <1>7, <3>2 DEF LockerOK, Passing
        <4>6. more = Filled(n, j)
          <5> HIDE DEF from, n
          <5>1. \A b \in 1..n : from + b \in 1..RwlBlocks
            BY <1>0, <1>3, SMTT(30)
          <5>2. \A b \in 1..n : more[b] = j
            <6>1. \A i \in 1..RwlBlocks : Filled(RwlBlocks, j)[i] = j
              BY DEF Filled
            <6>2. \A b \in 1..n : disk[from + b] = j
              BY <4>4, <5>1, <6>1
            <6> HIDE DEF more
            <6> QED BY <2>1, <6>2
          <5> HIDE DEF more
          <5> QED BY <1>3, <2>1, <4>1, <5>2, FilledIs
        <4> QED BY <1>3, <3>1, <4>1, <4>5, <4>6, FilledMore, ZenonT(60)
      <3>5. e.pc \in {"io", "print"} /\ (e.pc = "io" => e.left > 0) /\ (e.pc = "print" => e.left = 0)
        BY <1>3, <3>1
      <3>6. RwlBlocks - e.left = from + n
        BY <1>3, <3>1
      <3>7. rwl' = [rwl EXCEPT ![t] = e]
        BY <2>3 DEF e
      <3> HIDE DEF pass, more, n, from, left
      <3> QED BY <1>0, <1>1, <1>7, <2>1, <3>1, <3>2, <3>5, <3>6, <3>7, IoTurn
    <2>4. CASE RwlErr(t, "print")
      <3> DEFINE e == [rwl[t] EXCEPT !.pc = "print", !.rc = "err"]
      <3>1. e \in LockerType /\ e.pc = "print" /\ e.rc = "err" /\ e.idx = rwl[t].idx
        BY <1>0 DEF LockerType, LockerPlaces
      <3>2. rwl' = [rwl EXCEPT ![t] = e]
        BY <1>0, <2>4 DEF RwlErr, RwlType
      <3> HIDE DEF e, more, n, from, left
      <3> QED BY <1>0, <1>1, <1>7, <2>1, <3>1, <3>2, IoTurn
    <2> QED BY <2>2, <2>3, <2>4
  <1> QED BY <1>6, <1>7


(* The entry is finished.                                                  *)
LEMMA PrintInv ==
    ASSUME RwlInv, NEW t \in Lockers, rwl_print_io(t)
    PROVE  RwlInv'
  <1>0. /\ RwlType /\ rwl \in [Lockers -> LockerType] /\ rwl[t] \in LockerType /\ LockerOK(t)
        /\ ioses \in Seq(EntryType) /\ disk \in [1..RwlBlocks -> Nat] /\ RwlBlocks \in Nat
    BY RwlAssumption DEF RwlInv, RwlType
  <1> DEFINE n == Len(ioses)
             th == rwl[t]
             same == n = 1 \/ ioses[n - 1].sum = th.sum
             x == [ioses[n] EXCEPT
                       !.sum = th.sum, !.end = IF th.rc = "ok" THEN "ok" ELSE "failed",
                       !.verdict = CASE t \in RwlWriters -> "none" [] same -> "MATCHED" [] OTHER -> "FAILED"]
             e == [th EXCEPT !.pc = "unlock"]
  <1>1. /\ th.pc = "print" /\ th.idx = n /\ n \in Nat /\ n > 0 /\ holder = t /\ ioses[n].end = "busy"
        /\ ioses[n].role = IF t \in RwlWriters THEN "WRITER" ELSE "READER"
    BY <1>0 DEF rwl_print_io, LockerOK, Locked, NewEntry
  <1>2. /\ ioses' = [ioses EXCEPT ![n] = x] /\ rwl' = [rwl EXCEPT ![t] = e]
        /\ UNCHANGED <<rwl_main, holder, disk>>
    BY <1>1 DEF rwl_print_io, RwlGoto
  <1>3. e \in LockerType /\ e.pc = "unlock"
    BY <1>0 DEF LockerType, LockerPlaces
  <1>4. /\ x \in EntryType /\ x.role = ioses[n].role /\ x.sum = th.sum
        /\ x.end = IF th.rc = "ok" THEN "ok" ELSE "failed"
        /\ (t \notin RwlWriters /\ ioses[n-1].sum = th.sum) => x.verdict = "MATCHED"
    <2>1. ioses[n] \in EntryType /\ th.sum \in Seq(Nat)
      BY <1>0, <1>1 DEF LockerType
    <2> DEFINE v == CASE t \in RwlWriters -> "none" [] same -> "MATCHED" [] OTHER -> "FAILED"
               f == IF th.rc = "ok" THEN "ok" ELSE "failed"
    <2>2. v \in {"none", "MATCHED", "FAILED"} /\ f \in {"busy", "ok", "failed"}
      OBVIOUS
    <2>3. (t \notin RwlWriters /\ ioses[n-1].sum = th.sum) => v = "MATCHED"
      OBVIOUS
    <2>4. x = [ioses[n] EXCEPT !.sum = th.sum, !.end = f, !.verdict = v]
      OBVIOUS
    <2> HIDE DEF v, f, x, n, th, same
    <2>5. x \in EntryType /\ x.role = ioses[n].role /\ x.sum = th.sum /\ x.end = f /\ x.verdict = v
      BY <2>1, <2>2, <2>4 DEF EntryType
    <2> QED BY <2>3, <2>5 DEF f
  <1> HIDE DEF x, e, same
  <1>5. (th.rc = "ok" /\ t \in RwlWriters) => th.sum = Filled(RwlBlocks, n) /\ disk = Filled(RwlBlocks, n)
    <2> SUFFICES ASSUME th.rc = "ok", t \in RwlWriters
                 PROVE  th.sum = Filled(RwlBlocks, n) /\ disk = Filled(RwlBlocks, n)
      OBVIOUS
    <2>1. th.left = 0 /\ RwlBlocks - th.left = RwlBlocks
      BY <1>0, <1>1 DEF LockerOK
    <2>2. th.sum = Filled(RwlBlocks, n) /\ \A b \in 1..RwlBlocks : disk[b] = n
      BY <1>0, <1>1, <2>1 DEF LockerOK, Passing
    <2> QED BY <1>0, <2>2 DEF Filled
  <1>6. (th.rc = "ok" /\ t \notin RwlWriters) => \A j \in 1..n :
            (Latest(ioses, n, j) /\ ioses[j].end # "failed") => th.sum = Filled(RwlBlocks, j)
    <2> SUFFICES ASSUME th.rc = "ok", t \notin RwlWriters
                 PROVE  \A j \in 1..n : (Latest(ioses, n, j) /\ ioses[j].end # "failed") =>
                            th.sum = Filled(RwlBlocks, j)
      OBVIOUS
    <2>1. th.left = 0 /\ RwlBlocks - th.left = RwlBlocks
      BY <1>0, <1>1 DEF LockerOK
    <2> QED BY <1>0, <1>1, <2>1 DEF LockerOK, Passing
  <1>7. /\ ioses' \in Seq(EntryType) /\ Len(ioses') = n /\ ioses'[n] = x
        /\ \A i \in 1..n : i # n => ioses'[i] = ioses[i]
    BY <1>0, <1>1, <1>2, <1>4
  <1>8. Report(ioses)'
    <2>1. Report(ioses)
      BY DEF RwlInv
    <2>2. /\ n \in 1..Len(ioses) /\ x.end # "busy"
          /\ (x.role = "WRITER" /\ x.end = "ok") => x.sum = Filled(RwlBlocks, n)
          /\ (x.role = "READER" /\ x.end = "ok") => \A j \in 1..n :
                 (Latest(ioses, n, j) /\ ioses[j].end # "failed") => x.sum = Filled(RwlBlocks, j)
          /\ (x.role = "READER" /\ n > 1) => (ioses[n-1].sum = x.sum => x.verdict = "MATCHED")
      BY <1>1, <1>4, <1>5, <1>6
    <2>3. Report([ioses EXCEPT ![n] = x])
      BY <1>0, <1>4, <2>1, <2>2, ReportPrint
    <2> QED BY <1>2, <2>3
  <1>9. LockerTurn(t, e)
    BY <1>0, <1>1, <1>2, <1>3 DEF LockerTurn
  <1>10. rwl'[t] = e
    BY <1>9 DEF LockerTurn
  <1>11. RwlType'
    BY <1>0, <1>2, <1>3, <1>7 DEF RwlType
  <1>12. \A u \in Lockers : u # t => LockerOK(u)'
    BY <1>1, <1>2, <1>9, OtherLockers
  <1>13. LockerOK(t)'
    BY <1>1, <1>2, <1>3, <1>10 DEF LockerOK, Locked, Passing
  <1>14. FirstWrite'
    BY <1>1, <1>3, <1>7, <1>9, FirstWriteTurn
  <1>15. Content'
    <2> SUFFICES ASSUME NEW j \in 1..n, Latest(ioses', n + 1, j), ioses'[j].end = "ok"
                 PROVE  disk = Filled(RwlBlocks, j)
      BY <1>2, <1>7 DEF Content
    <2>0. \A i \in 1..n : ioses'[i].role = ioses[i].role
      BY <1>4, <1>7
    <2>1. Latest(ioses, n + 1, j)
      BY <1>1, <2>0 DEF Latest
    <2>2. CASE t \in RwlWriters
      <3>1. j = n
        BY <1>1, <2>1, <2>2, LatestLast
      <3> QED BY <1>4, <1>5, <1>7, <2>2, <3>1
    <2>3. CASE t \notin RwlWriters
      <3>1. j # n
        BY <1>1, <2>1, <2>3 DEF Latest
      <3>2. ioses[j].end = "ok" /\ \E u \in Lockers : rwl[u].pc # "gone"
        BY <1>1, <1>7, <3>1
      <3> QED BY <2>1, <3>2 DEF RwlInv, Content
    <2> QED BY <2>2, <2>3
  <1>16. AtWorkOnly'
    <2>1. \A i \in 1..n : ioses'[i].end # "busy"
      <3>1. \A i \in 1..n : i # n => ioses[i].end # "busy"
        BY DEF RwlInv, Report
      <3> QED BY <1>4, <1>7, <3>1
    <2> QED BY <1>7, <2>1 DEF AtWorkOnly
  <1> QED BY <1>8, <1>11, <1>12, <1>13, <1>14, <1>15, <1>16 DEF RwlInv


(* main starts a thread: it is the next one, which has done nothing yet.   *)
LEMMA StartsNext ==
    ASSUME RwlInv, NEW t \in Lockers, rwl[t].pc = "none", rwl' = [rwl EXCEPT ![t].pc = "open"],
           \A u \in Lockers : u < t => rwl[u].pc # "none",
           UNCHANGED <<holder, ioses, disk>>,
           t = 0 \/ (rwl[0].pc = "gone" /\ rwl[0].rc = "ok"),
           rwl_main' # "unlink", rwl_main' = "start" => rwl_main = "start"
    PROVE  RwlInv'
  <1>0. /\ RwlType /\ rwl \in [Lockers -> LockerType] /\ rwl[t] \in LockerType /\ FirstWrite
        /\ RwlThreads \in Nat /\ \A u \in Lockers : LockerOK(u)
    BY RwlAssumption DEF RwlInv, RwlType
  <1> DEFINE e == [rwl[t] EXCEPT !.pc = "open"]
  <1>1. e \in LockerType /\ e.pc = "open" /\ e.sum = rwl[t].sum /\ e.rc = rwl[t].rc
    BY <1>0 DEF LockerType, LockerPlaces
  <1>2. rwl' = [rwl EXCEPT ![t] = e]
    OBVIOUS
  <1> HIDE DEF e
  <1>3. rwl'[t] = e /\ \A u \in Lockers : u # t => rwl'[u] = rwl[u]
    BY <1>0, <1>2
  <1>4. RwlType'
    BY <1>0, <1>1, <1>2 DEF RwlType
  <1>5. \A u \in Lockers : u # t => LockerOK(u)'
    BY <1>0, <1>3 DEF LockerOK, Passing, NewEntry
  <1>6. LockerOK(t)'
    <2>1. LockerOK(t)
      BY <1>0
    <2> QED BY <1>1, <1>3, <2>1 DEF LockerOK, Locked, Passing
  <1>7. FirstWrite'
    <2>1. PICK k \in 0..2*RwlThreads+1 : \A u \in Lockers : rwl[u].pc = "none" <=> u >= k
      BY <1>0 DEF FirstWrite
    <2>2. t = k
      <3>1. t >= k /\ t \in 0..2*RwlThreads
        BY <2>1 DEF Lockers
      <3>2. k \in Lockers
        BY <1>0, <3>1 DEF Lockers
      <3> QED BY <1>0, <2>1, <3>1, <3>2
    <2>3. k + 1 \in 0..2*RwlThreads+1 /\ \A u \in Lockers : rwl'[u].pc = "none" <=> u >= k + 1
      <3>1. \A u \in Lockers : u \in Int /\ 2*RwlThreads \in Nat
        BY <1>0 DEF Lockers
      <3> QED BY <1>0, <1>1, <1>3, <2>1, <2>2, <3>1 DEF Lockers
    <2>4. 0 \in Lockers /\ (t = 0 => \A u \in Lockers : u # 0 => rwl'[u].pc = "none")
      <3>1. 0 \in Lockers /\ \A u \in Lockers : u # 0 => u >= 1
        BY <1>0 DEF Lockers
      <3> QED BY <2>2, <2>3, <3>1
    <2>5. \A u \in Lockers : u # 0 /\ rwl'[u].pc # "none" => rwl'[0].pc = "gone" /\ rwl'[0].rc = "ok"
      <3>1. CASE t = 0
        BY <2>4, <3>1
      <3>2. CASE t # 0
        BY <1>3, <2>4, <3>2
      <3> QED BY <3>1, <3>2
    <2>6. rwl_main' = "start" => rwl'[0].pc = "gone" /\ rwl'[0].rc = "ok"
      BY <1>0, <1>3, <2>4 DEF FirstWrite
    <2>7. (rwl'[0].pc \in {"io", "print", "unlock"} \/ (rwl'[0].pc = "gone" /\ rwl'[0].rc = "ok")) =>
              Len(ioses') > 0
      BY <1>0, <1>1, <1>3, <2>4 DEF FirstWrite
    <2>8. rwl_main' = "unlink" => FALSE
      OBVIOUS
    <2> QED BY <2>3, <2>5, <2>6, <2>7, <2>8 DEF FirstWrite
  <1>8. Content'
    BY <1>0 DEF RwlInv, Content
  <1>9. AtWorkOnly'
    BY <1>3 DEF RwlInv, AtWorkOnly
  <1> QED BY <1>4, <1>5, <1>6, <1>7, <1>8, <1>9 DEF RwlInv

(* A step that leaves the threads, the report and the object as they are.  *)
LEMMA RwlSame ==
    ASSUME RwlInv, UNCHANGED <<rwl, holder, ioses, disk>>,
           rwl_main' = "start" => rwl[0].pc = "gone" /\ rwl[0].rc = "ok",
           rwl_main' = "unlink" => \A t \in Lockers : rwl[t].pc = "gone"
    PROVE  RwlInv'
  <1>1. RwlType' /\ Content' /\ AtWorkOnly' /\ Report(ioses)'
    BY DEF RwlInv, RwlType, Content, AtWorkOnly
  <1>2. FirstWrite'
    BY DEF RwlInv, FirstWrite
  <1>3. \A t \in Lockers : LockerOK(t)'
    BY DEF RwlInv, LockerOK, Passing, NewEntry
  <1> QED BY <1>1, <1>2, <1>3 DEF RwlInv

(* The steps of main.                                                      *)
LEMMA MainLockInv ==
    ASSUME RwlInv, RwlLife, RwlMainStep
    PROVE  RwlInv'
  <1>0. /\ RwlThreads \in Nat /\ 0 \in Lockers /\ FirstWrite /\ rwl \in [Lockers -> LockerType]
        /\ \A u \in Lockers : u >= 0
    BY RwlAssumption DEF Lockers, RwlInv, RwlType
  <1>1. CASE RwlMain
    <2>1. CASE rwl_main' = "prepare" /\ rwl' = [rwl EXCEPT ![0].pc = "open"]
      <3>1. rwl[0].pc = "none" /\ UNCHANGED <<holder, ioses, disk>>
        BY <1>0, <1>1 DEF RwlMain, RwlLife
      <3>2. \A u \in Lockers : ~(u < 0)
        BY <1>0 DEF Lockers
      <3> QED BY <1>0, <2>1, <3>1, <3>2, StartsNext
    <2>2. CASE rwl_main' = "fini" /\ rwl' = rwl
      BY <1>1, <2>2, RwlSame DEF RwlMain
    <2> QED BY <1>1, <2>1, <2>2 DEF RwlMain
  <1>2. CASE RwlPrepared \/ mio_rwl_stop \/ RwlFini \/ RwlReturn
    <2>1. UNCHANGED <<rwl, holder, ioses, disk>> /\ (rwl_main' = "start" => rwl[0].pc = "gone" /\ rwl[0].rc = "ok")
      BY <1>2 DEF RwlPrepared, mio_rwl_stop, RwlFini, RwlReturn
    <2>2. rwl_main' = "unlink" => \A t \in Lockers : rwl[t].pc = "gone"
      BY <1>2 DEF RwlPrepared, mio_rwl_stop, RwlFini, RwlReturn
    <2> QED BY <2>1, <2>2, RwlSame
  <1>3. CASE mio_rwl_start
    <2> DEFINE todo == {t \in Lockers : rwl[t].pc = "none"}
    <2>0. rwl_main = "start" /\ UNCHANGED <<holder, ioses, disk>> /\ rwl[0].pc = "gone" /\ rwl[0].rc = "ok"
      BY <1>0, <1>3 DEF mio_rwl_start, FirstWrite
    <2>1. CASE rwl' = rwl /\ rwl_main' \in {"join", "fini"}
      BY <2>0, <2>1, RwlSame
    <2>2. CASE todo # {} /\ rwl' = [rwl EXCEPT ![Min(todo)].pc = "open"] /\ rwl_main' = rwl_main
      <3>1. PICK k \in 0..2*RwlThreads+1 : \A u \in Lockers : rwl[u].pc = "none" <=> u >= k
        BY <1>0 DEF FirstWrite
      <3>2. k \in todo /\ \A u \in todo : k <= u
        <4>1. PICK u \in Lockers : u >= k
          BY <2>2, <3>1
        <4>2. k \in Lockers
          BY <1>0, <4>1 DEF Lockers
        <4> QED BY <3>1, <4>2
      <3>3. \A x \in todo : (\A y \in todo : x <= y) => x = k
        BY <1>0, <3>2 DEF Lockers
      <3> HIDE DEF todo
      <3>4. Min(todo) = k
        BY <3>2, <3>3 DEF Min
      <3>5. k \in Lockers /\ rwl[k].pc = "none" /\ \A u \in Lockers : u < k => rwl[u].pc # "none"
        BY <1>0, <3>1, <3>2 DEF todo, Lockers
      <3> QED BY <2>0, <2>2, <3>4, <3>5, StartsNext
    <2> QED BY <1>3, <2>1, <2>2 DEF mio_rwl_start
  <1>4. CASE RwlUnlink
    <2>1. /\ \A t \in Lockers : rwl[t].pc = "gone"
          /\ UNCHANGED <<rwl, holder, ioses>> /\ rwl_main' = "fini"
      BY <1>0, <1>4 DEF RwlUnlink, FirstWrite
    <2>2. disk' \in [1..RwlBlocks -> Nat]
      BY <1>4 DEF RwlUnlink, RwlInv, RwlType
    <2>3. RwlType' /\ Content' /\ AtWorkOnly' /\ Report(ioses)'
      BY <2>1, <2>2 DEF RwlInv, RwlType, Content, AtWorkOnly
    <2>4. FirstWrite'
      BY <2>1 DEF RwlInv, FirstWrite
    <2>5. \A t \in Lockers : LockerOK(t)'
      BY <2>1 DEF RwlInv, LockerOK, Passing
    <2> QED BY <2>3, <2>4, <2>5 DEF RwlInv
  <1> QED BY <1>1, <1>2, <1>3, <1>4 DEF RwlMainStep

(* Every step keeps the invariant of mio_rw_lock.                          *)
LEMMA RwlNext == RwlInv /\ RwlLife /\ [Next]_vars => RwlInv'
  <1> SUFFICES ASSUME RwlInv, RwlLife, [Next]_vars PROVE RwlInv'
    OBVIOUS
  <1>1. CASE UNCHANGED rwlVars
    <2>1. FirstWrite
      BY DEF RwlInv
    <2> QED BY <1>1, <2>1, RwlSame DEF rwlVars, FirstWrite
  <1>2. CASE RwLock
    <2>1. CASE RwlMainStep
      BY <2>1, MainLockInv
    <2>2. ASSUME NEW t \in Lockers, LockerStep(t) \/ LockFails(t) PROVE RwlInv'
      BY <2>2, LockingInv, TaskInv, IoInv, PrintInv DEF LockerStep
    <2> QED BY <1>2, <2>1, <2>2 DEF RwLock, RwlStep
  <1> QED BY <1>1, <1>2 DEF Next, Start, Startup, Library, Other, RwThreads, Async, vars

(* At first there are no threads and no report.                            *)
LEMMA RwlInvInitially == Init => RwlInv
  <1> SUFFICES ASSUME Init PROVE RwlInv
    OBVIOUS
  <1>1. /\ rwl_main = "init" /\ rwl = [t \in Lockers |-> Locker] /\ holder = Nobody /\ ioses = <<>>
        /\ disk = [b \in 1..RwlBlocks |-> 0]
    BY DEF Init, RwlInit
  <1>2. /\ Locker \in LockerType /\ Locker.pc = "none" /\ Locker.sum = <<>> /\ Locker.rc = "ok"
        /\ Nobody \notin Lockers /\ 0 \in Lockers /\ Len(ioses) = 0
    BY <1>1, RwlAssumption DEF Locker, LockerType, LockerPlaces, Nobody, Lockers
  <1>3. RwlType
    BY <1>1, <1>2 DEF RwlType
  <1>4. \A t \in Lockers : rwl[t].pc = "none" /\ rwl[t].sum = <<>> /\ rwl[t].rc = "ok"
    BY <1>1, <1>2
  <1>5. \A t \in Lockers : LockerOK(t)
    BY <1>1, <1>2, <1>4 DEF LockerOK, Locked, Passing
  <1>6. FirstWrite
    <2>1. 0 \in 0..2*RwlThreads+1 /\ \A t \in Lockers : t >= 0
      BY RwlAssumption DEF Lockers
    <2> QED BY <1>1, <1>2, <1>4, <2>1 DEF FirstWrite
  <1>7. Report(ioses) /\ Content /\ AtWorkOnly
    BY <1>2 DEF Report, Content, AtWorkOnly
  <1> QED BY <1>3, <1>5, <1>6, <1>7 DEF RwlInv

(* mio_rw_lock, with any number of threads and blocks, whichever           *)
(* operations fail: what a reader finds is all of what the last writer     *)
(* before it wrote, if that one did not fail, and then the program says    *)
(* MATCHED if the I/O before the reader's did not fail.                    *)
THEOREM ReadersAlwaysMatch == Spec => []ReadersMatch
  <1>1. RwlInv => ReadersMatch
    <2> SUFFICES ASSUME RwlInv, NEW i \in DOMAIN ioses, ioses[i].role = "READER", ioses[i].end = "ok",
                        ioses[LastWriter(i)].end # "failed"
                 PROVE  /\ ioses[i].sum = [b \in 1..RwlBlocks |-> LastWriter(i)]
                        /\ ioses[i - 1].end # "failed" => ioses[i].verdict = "MATCHED"
      BY DEF ReadersMatch
    <2>0. ioses \in Seq(EntryType) /\ Report(ioses)
      BY DEF RwlInv, RwlType
    <2>1. i \in 1..Len(ioses) /\ Len(ioses) \in Nat
      BY <2>0
    <2>2. i # 1 /\ i \in 2..Len(ioses)+1
      BY <2>0, <2>1 DEF Report
    <2>3. PICK j \in 1..Len(ioses) : Latest(ioses, i, j)
      BY <2>0, <2>2 DEF Report
    <2>4. LastWriter(i) = j
      BY <2>1, <2>3, LatestIsMax
    <2>5. Matches(ioses, i)
      BY <2>0, <2>1 DEF Report
    <2> QED BY <2>3, <2>4, <2>5 DEF Matches, Filled
  <1>2. Init => RwlInv /\ RwlLife
    BY RwlInvInitially, RwlInitially
  <1>3. RwlInv /\ RwlLife /\ [Next]_vars => (RwlInv /\ RwlLife)'
    BY RwlNext, RwlLifeNext
  <1> QED BY <1>1, <1>2, <1>3, PTL DEF Spec

=============================================================================
