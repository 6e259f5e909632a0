------------------------------- MODULE MioApps -------------------------------
(***************************************************************************)
(* A process that uses MIO: mio_rw_threads, mio_rw_lock, a program that    *)
(* transfers one object asynchronously, or one that does nothing but       *)
(* initialise and finalise MIO again and again with different files.       *)
(***************************************************************************)
EXTENDS MioRwThreads, MioRwLock, MioAsyncIO

CONSTANT AppFile        (* the file of the first three, one of Files        *)

ASSUME AppAssumption == AppFile \in DOMAIN Files /\ Files[AppFile].well

VARIABLE app

vars == <<app, initVars, rwtVars, rwlVars, aioVars>>

Init == /\ app \in {"library", "rwt", "rwl", "async"}
        /\ InstanceInit /\ RwtInit /\ RwlInit /\ AioInit
        /\ (app # "rwt") => stored = [o \in Objs |-> 0]
        /\ (app # "async") => io.write /\ io.step = CHOOSE s \in AioSteps : TRUE
        /\ (app # "library") => file = AppFile

Start == /\ \E f \in DOMAIN Files : mio_init(f) /\ (app # "library" => inits = 0 /\ f = AppFile)
         /\ UNCHANGED <<app, rwtVars, rwlVars, aioVars>>

Startup == InitStep /\ UNCHANGED <<app, rwtVars, rwlVars, aioVars>>

Library == /\ app = "library" /\ mio_fini
           /\ UNCHANGED <<app, rwtVars, rwlVars, aioVars>>

Other == stage # "out" /\ OtherCreates /\ UNCHANGED <<app, rwtVars, rwlVars, aioVars>>

RwThreads == app = "rwt" /\ RwtStep /\ UNCHANGED <<app, rwlVars, aioVars>>

RwLock == app = "rwl" /\ RwlStep /\ UNCHANGED <<app, rwtVars, aioVars>>

Async == app = "async" /\ AioStep /\ UNCHANGED <<app, rwtVars, rwlVars>>

Next == Start \/ Startup \/ Library \/ Other \/ RwThreads \/ RwLock \/ Async

(***************************************************************************)
(* Fairness: every thread of the process that can go on does in the end,   *)
(* and so does an operation of Motr; a lock that is released goes to one   *)
(* of those that wait.  Nothing is assumed of other processes, of spurious *)
(* wake-ups, or of the calls a program makes.                              *)
(***************************************************************************)
Fairness ==
    /\ WF_vars(Startup) /\ WF_vars(app = "async" /\ CallStep /\ UNCHANGED <<app, rwtVars, rwlVars>>)
    /\ WF_vars(app = "rwt" /\ RwtMainStep /\ UNCHANGED <<app, rwlVars, aioVars>>)
    /\ \A t \in Writers \cup Readers :
          WF_vars(app = "rwt" /\ ThreadStep(t) /\ UNCHANGED <<app, rwlVars, aioVars>>)
    /\ WF_vars(app = "rwl" /\ RwlMainStep /\ UNCHANGED <<app, rwtVars, aioVars>>)
    /\ \A t \in Lockers :
          WF_vars(app = "rwl" /\ LockerStep(t) /\ UNCHANGED <<app, rwtVars, aioVars>>)
    /\ \A i \in 1..AioBlocks :
          WF_vars(app = "async" /\ i <= Len(ops) /\ MotrStep(i) /\ UNCHANGED <<app, rwtVars, rwlVars>>)

Spec == Init /\ [][Next]_vars /\ Fairness

(* A program that was started comes to its end: mio_init returns whatever  *)
(* fails in it, if the scanner finds no error in the file; no reader is    *)
(* left waiting for an object that never comes, no thread for a lock that  *)
(* is never released, and no transfer for an operation that is done.       *)
Running == IF app = "library" THEN stage = "conf" /\ Files[file].well ELSE inits > 0
Ended   == CASE app = "library" -> stage = "out"
             [] app = "rwt" -> main = "exit"
             [] app = "rwl" -> rwl_main = "exit"
             [] OTHER -> call = "exit"
AppEnds == Running ~> Ended
==============================================================================
