------------------------------- MODULE MioObj --------------------------------
(***************************************************************************)
(* MIO objects (mio.c, hints.c, driver_motr_obj.c).  Motr keeps the data   *)
(* of an object; MIO keeps its size and its persistent hints as a record   *)
(* of an index, and a copy of them in every open handle (struct mio_obj).  *)
(* A handle writes its copy back when a write extends the object, when a   *)
(* hint is set, and when it is closed after any I/O.                       *)
(*                                                                         *)
(* A step of a handle is one driver operation: MioOp says how these follow *)
(* one another and how the end of the last is reported.                    *)
(***************************************************************************)
EXTENDS Naturals, FiniteSets

CONSTANTS
    Oids,         (* object identifiers                                    *)
    Handles,      (* struct mio_obj's of the application                   *)
    NoHandle,     (* the owner of a lock that is free                      *)
    MaxSize,      (* bound: the largest end of a write, in blocks          *)
    Hints,        (* the keys of the hints that are set                    *)
    UseLock,      (* does the application use mio_obj_lock?                *)
    MayFail,      (* the steps that may fail                               *)
    MayDelete,    (* does the application delete objects?                  *)
    ArgsReused,   (* may other threads reuse memory that was just freed?   *)
    MayCrash      (* may the application's process crash?                  *)

HintKeys == {"LIFETIME", "WHERE", "HOT_INDEX"}

(* obj_hint_table: the hints of type MIO_HINT_PERSISTENT.                  *)
PersistentHints == {"LIFETIME", "HOT_INDEX"}

(* The steps of a handle that wait for a driver operation.                 *)
Steps == {"create", "open", "open_get", "size_get", "write", "attrs_put",
          "hint_put", "close_put"}

(* The steps of mio_obj_delete.                                            *)
DeleteSteps == {"delete_open", "obj_delete", "attrs_del"}

AllSteps == Steps \cup DeleteSteps

ASSUME ObjAssumption ==
    /\ Oids # {}
    /\ NoHandle \notin Handles
    /\ MaxSize \in Nat \ {0}
    /\ Hints \subseteq HintKeys
    /\ MayFail \subseteq AllSteps
    /\ {UseLock, MayDelete, MayCrash, ArgsReused} \subseteq BOOLEAN

VARIABLES
    exists,       (* the objects that Motr has                             *)
    index,        (* mio_obj_attrs_kvs: the attributes of each object      *)
    step,         (* what each handle is doing: free, ready or a step      *)
    oid,          (* mo_id of each handle                                  *)
    moa_size,     (* mo_attrs.moa_size                                     *)
    moa_phints,   (* mo_attrs.moa_phints                                   *)
    mo_hints,     (* mo_hints                                              *)
    updated,      (* mo_attrs_updated                                      *)
    wire,         (* the attributes a launched PUT carries (mem2wire)      *)
    eow,          (* rwa_max_eow of the write in flight                    *)
    lock,         (* external: the owner of the Motr lock of each object   *)
    deleting,     (* the step of the mio_obj_delete of each object         *)
    written,      (* history: the furthest end of the completed writes     *)
    tried,        (* history: the furthest end of any write                *)
    hinted,       (* history: the persistent hints set successfully        *)
    orphan,       (* history: a delete ended before it removed the record  *)
    faulty        (* history: a step has failed or the process has crashed *)

objvars    == <<exists, index, lock, deleting>>
handlevars == <<step, oid, moa_size, moa_phints, mo_hints, updated, wire, eow>>
history    == <<written, tried, hinted, orphan, faulty>>
vars       == <<objvars, handlevars, history>>

Values == 0..1        (* of a hint; 0 is a hint that is not set            *)
HintMap == [Hints -> Values]
NoHints == [k \in Hints |-> 0]
Attrs   == [present : BOOLEAN, size : 0..MaxSize, hints : HintMap]
NoAttrs == [present |-> FALSE, size |-> 0, hints |-> NoHints]

ObjTypeOK ==
    /\ exists     \in [Oids -> BOOLEAN]
    /\ index      \in [Oids -> Attrs]
    /\ step       \in [Handles -> Steps \cup {"free", "ready"}]
    /\ oid        \in [Handles -> Oids]
    /\ moa_size   \in [Handles -> 0..MaxSize]
    /\ moa_phints \in [Handles -> HintMap]
    /\ mo_hints   \in [Handles -> HintMap]
    /\ updated    \in [Handles -> BOOLEAN]
    /\ wire       \in [Handles -> Attrs]
    /\ eow        \in [Handles -> 0..MaxSize]
    /\ lock       \in [Oids -> Handles \cup {NoHandle}]
    /\ deleting   \in [Oids -> DeleteSteps \cup {"none"}]
    /\ written    \in [Oids -> 0..MaxSize]
    /\ tried      \in [Oids -> 0..MaxSize]
    /\ hinted     \in [Oids -> HintMap]
    /\ orphan     \in [Oids -> BOOLEAN]
    /\ faulty     \in BOOLEAN

Greater(a, b) == IF a > b THEN a ELSE b

UsedBy(o) == {h \in Handles : step[h] # "free" /\ oid[h] = o}

(***************************************************************************)
(* obj_init on a handle that the application has zeroed, and the first     *)
(* step of mio_obj_create or mio_obj_open.                                 *)
(***************************************************************************)
obj_init(h, o, s) ==
    /\ step[h] = "free"
    /\ deleting[o] = "none"
    /\ step'       = [step       EXCEPT ![h] = s]
    /\ oid'        = [oid        EXCEPT ![h] = o]
    /\ moa_size'   = [moa_size   EXCEPT ![h] = 0]
    /\ moa_phints' = [moa_phints EXCEPT ![h] = NoHints]
    /\ mo_hints'   = [mo_hints   EXCEPT ![h] = NoHints]
    /\ updated'    = [updated    EXCEPT ![h] = FALSE]
    /\ UNCHANGED <<objvars, wire, eow, history>>

mio_obj_create(h, o) == obj_init(h, o, "create")
mio_obj_open(h, o)   == obj_init(h, o, "open")

(* A Motr operation that fails changes nothing and ends the MIO operation; *)
(* a handle that is not open then is given up.                             *)
StepFailed(h) ==
    /\ step[h] \in MayFail
    /\ step' = [step EXCEPT ![h] =
                  IF @ \in {"create", "open", "open_get", "close_put"} THEN "free"
                                                                     ELSE "ready"]
    /\ faulty' = TRUE
    /\ UNCHANGED <<objvars, oid, moa_size, moa_phints, mo_hints, updated, wire, eow,
                   written, tried, hinted, orphan>>

(* External: Motr creates an object that it does not have.                 *)
CreateDone(h) ==
    /\ step[h] = "create"
    /\ IF exists[oid[h]]
       THEN /\ step' = [step EXCEPT ![h] = "free"]
            /\ UNCHANGED <<exists, history>>
       ELSE /\ step'    = [step    EXCEPT ![h] = "ready"]
            /\ exists'  = [exists  EXCEPT ![oid[h]] = TRUE]
            /\ written' = [written EXCEPT ![oid[h]] = 0]
            /\ tried'   = [tried   EXCEPT ![oid[h]] = 0]
            /\ hinted'  = [hinted  EXCEPT ![oid[h]] = NoHints]
    /\ UNCHANGED <<index, lock, deleting, oid, moa_size, moa_phints, mo_hints, updated,
                   wire, eow, orphan, faulty>>

(* motr_obj_open_pp: an object that was opened has its attributes fetched. *)
motr_obj_open_pp(h) ==
    /\ step[h] = "open"
    /\ step' = [step EXCEPT ![h] = IF exists[oid[h]] THEN "open_get" ELSE "free"]
    /\ UNCHANGED <<objvars, oid, moa_size, moa_phints, mo_hints, updated, wire, eow, history>>

(***************************************************************************)
(* motr_obj_attrs_get_pp and motr_obj_attrs_wire2mem: the size of a record *)
(* that is there, and its hints if it has any, replace those of the        *)
(* handle; moa_phints is left alone.                                       *)
(***************************************************************************)
motr_obj_attrs_wire2mem(h, a) ==
    /\ moa_size' = [moa_size EXCEPT ![h] = IF a.present THEN a.size ELSE @]
    /\ mo_hints' = [mo_hints EXCEPT ![h] =
                      IF a.present /\ a.hints # NoHints THEN a.hints ELSE @]

motr_obj_attrs_get_pp(h) ==
    /\ step[h] \in {"open_get", "size_get"}
    /\ motr_obj_attrs_wire2mem(h, index[oid[h]])
    /\ step' = [step EXCEPT ![h] = "ready"]
    /\ UNCHANGED <<objvars, oid, moa_phints, updated, wire, eow, history>>

(***************************************************************************)
(* I/O.  mio.h: open the object, lock, do some I/Os, unlock, close.        *)
(***************************************************************************)
CanUse(h) == step[h] = "ready" /\ (UseLock => lock[oid[h]] = h)

(* External: m0_obj_write_lock_get_sync returns with the exclusive lock.   *)
mio_obj_lock(h) ==
    /\ UseLock
    /\ step[h] = "ready"
    /\ lock[oid[h]] = NoHandle
    /\ lock' = [lock EXCEPT ![oid[h]] = h]
    /\ UNCHANGED <<exists, index, deleting, handlevars, history>>

mio_obj_unlock(h) ==
    /\ step[h] = "ready"
    /\ lock[oid[h]] = h
    /\ lock' = [lock EXCEPT ![oid[h]] = NoHandle]
    /\ UNCHANGED <<exists, index, deleting, handlevars, history>>

(* mio_obj_size.                                                           *)
mio_obj_size(h) ==
    /\ CanUse(h)
    /\ step' = [step EXCEPT ![h] = "size_get"]
    /\ UNCHANGED <<objvars, oid, moa_size, moa_phints, mo_hints, updated, wire, eow, history>>

(* mio_obj_readv: obj_stats_update; the reads themselves change nothing.   *)
mio_obj_readv(h) ==
    /\ CanUse(h)
    /\ updated' = [updated EXCEPT ![h] = TRUE]
    /\ UNCHANGED <<objvars, step, oid, moa_size, moa_phints, mo_hints, wire, eow, history>>

(* mio_obj_writev up to the end e: obj_stats_update, and the data is sent. *)
mio_obj_writev(h, e) ==
    /\ CanUse(h)
    /\ step'    = [step    EXCEPT ![h] = "write"]
    /\ updated' = [updated EXCEPT ![h] = TRUE]
    /\ eow'     = [eow     EXCEPT ![h] = e]
    /\ tried'   = [tried   EXCEPT ![oid[h]] = Greater(@, e)]
    /\ UNCHANGED <<objvars, oid, moa_size, moa_phints, mo_hints, wire, written, hinted, orphan, faulty>>

(* The write is complete: the application is told so.                      *)
WriteCompleted(h) == written' = [written EXCEPT ![oid[h]] = Greater(@, eow[h])]

(* Variants: the size is one too large; the hints are left out.            *)
Mem2wireSizeOff(size, phints) ==
    [present |-> TRUE, size |-> size + 1, hints |-> phints]
Mem2wireNoHints(size, phints) ==
    [present |-> TRUE, size |-> size, hints |-> NoHints]

(* motr_obj_attrs_mem2wire: the record that a PUT stores.                  *)
motr_obj_attrs_mem2wire(size, phints) ==
    [present |-> TRUE, size |-> size, hints |-> phints]

(***************************************************************************)
(* motr_obj_write_pp reads rwa_max_eow after motr_obj_rw_args_free.  The   *)
(* C library leaves that word of a freed block alone, so the value is the  *)
(* right one unless another thread has been given the block meanwhile.     *)
(***************************************************************************)
FreedEow(h) == IF ArgsReused THEN 0..MaxSize ELSE {eow[h]}

(* Variant: a write that ends before the known size stores its end.        *)
EveryWrite(h, e) == TRUE

(* ~(rwa_max_eow <= moa_size).                                             *)
Extends(h, e) == e > moa_size[h]

(***************************************************************************)
(* motr_obj_write_pp once all data is written: a write beyond the known    *)
(* size goes on to store the new size.                                     *)
(***************************************************************************)
motr_obj_write_pp(h) ==
    /\ step[h] = "write"
    /\ \E e \in FreedEow(h) :
         \/ /\ ~Extends(h, e)
            /\ step' = [step EXCEPT ![h] = "ready"]
            /\ WriteCompleted(h)
            /\ UNCHANGED <<moa_size, wire>>
         \/ /\ Extends(h, e)
            /\ moa_size' = [moa_size EXCEPT ![h] = e]
            /\ wire' = [wire EXCEPT ![h] = motr_obj_attrs_mem2wire(e, moa_phints[h])]
            /\ step' = [step EXCEPT ![h] = "attrs_put"]
            /\ UNCHANGED written
    /\ UNCHANGED <<objvars, oid, moa_phints, mo_hints, updated, eow, tried, hinted, orphan, faulty>>

(* The PUT that ends a write is stable.                                    *)
WritePutDone(h) ==
    /\ step[h] = "attrs_put"
    /\ index' = [index EXCEPT ![oid[h]] = wire[h]]
    /\ step'  = [step  EXCEPT ![h] = "ready"]
    /\ WriteCompleted(h)
    /\ UNCHANGED <<exists, lock, deleting, oid, moa_size, moa_phints, mo_hints, updated,
                   wire, eow, tried, hinted, orphan, faulty>>

(***************************************************************************)
(* mio_obj_hint_set: the hint is added to mo_hints, obj_hint_store makes   *)
(* moa_phints of the persistent ones, and the record is put and waited for *)
(* (motr_obj_attrs_update_sync).                                           *)
(***************************************************************************)
(* Variant: the type of a hint is not looked at.                           *)
AllOf(m) == m

PersistentOf(m) == [k \in Hints |-> IF k \in PersistentHints THEN m[k] ELSE 0]

mio_obj_hint_set(h, k) ==
    /\ CanUse(h)
    /\ LET m == [mo_hints[h] EXCEPT ![k] = 1]
       IN  /\ mo_hints'   = [mo_hints   EXCEPT ![h] = m]
           /\ moa_phints' = [moa_phints EXCEPT ![h] = PersistentOf(m)]
           /\ wire' = [wire EXCEPT ![h] =
                          motr_obj_attrs_mem2wire(moa_size[h], PersistentOf(m))]
    /\ step' = [step EXCEPT ![h] = "hint_put"]
    /\ UNCHANGED <<objvars, oid, moa_size, updated, eow, history>>

HintPutDone(h) ==
    /\ step[h] = "hint_put"
    /\ index'  = [index  EXCEPT ![oid[h]] = wire[h]]
    /\ hinted' = [hinted EXCEPT ![oid[h]] =
                    [k \in Hints |-> Greater(@[k], wire[h].hints[k])]]
    /\ step'   = [step EXCEPT ![h] = "ready"]
    /\ UNCHANGED <<exists, lock, deleting, oid, moa_size, moa_phints, mo_hints, updated,
                   wire, eow, written, tried, orphan, faulty>>

(***************************************************************************)
(* mio_obj_close, of a handle that does not hold the lock: a handle that   *)
(* has done I/O stores its attributes and waits for that.                  *)
(***************************************************************************)
mio_obj_close(h) ==
    /\ step[h] = "ready"
    /\ lock[oid[h]] # h
    /\ mo_hints' = [mo_hints EXCEPT ![h] = NoHints]
    /\ IF updated[h]
       THEN /\ step' = [step EXCEPT ![h] = "close_put"]
            /\ wire' = [wire EXCEPT ![h] = motr_obj_attrs_mem2wire(moa_size[h], moa_phints[h])]
       ELSE /\ step' = [step EXCEPT ![h] = "free"]
            /\ UNCHANGED wire
    /\ UNCHANGED <<objvars, oid, moa_size, moa_phints, updated, eow, history>>

ClosePutDone(h) ==
    /\ step[h] = "close_put"
    /\ index' = [index EXCEPT ![oid[h]] = wire[h]]
    /\ step'  = [step  EXCEPT ![h] = "free"]
    /\ UNCHANGED <<exists, lock, deleting, oid, moa_size, moa_phints, mo_hints, updated,
                   wire, eow, history>>

(***************************************************************************)
(* mio_obj_delete: OPEN, DELETE, and DEL of the record, on an object that  *)
(* the application has not open ("MIO assumes application takes care of    *)
(* concurrent accesses to an object and its attributes").                  *)
(***************************************************************************)
mio_obj_delete(o) ==
    /\ MayDelete
    /\ UsedBy(o) = {}
    /\ deleting[o] = "none"
    /\ deleting' = [deleting EXCEPT ![o] = "delete_open"]
    /\ UNCHANGED <<exists, index, lock, handlevars, history>>

(* Variant: the record of the attributes goes first.                       *)
DeleteAttrsFirst(o) ==
    /\ deleting[o] = "delete_open"
    /\ deleting' = [deleting EXCEPT ![o] = IF exists[o] THEN "obj_delete" ELSE "none"]
    /\ index' = [index EXCEPT ![o] = NoAttrs]
    /\ UNCHANGED <<exists, lock, handlevars, history>>

motr_obj_delete_open_pp(o) ==
    /\ deleting[o] = "delete_open"
    /\ deleting' = [deleting EXCEPT ![o] = IF exists[o] THEN "obj_delete" ELSE "none"]
    /\ UNCHANGED <<exists, index, lock, handlevars, history>>

(* Variant: the record of the attributes is left in the index.             *)
DeleteDataOnly(o) ==
    /\ deleting[o] = "obj_delete"
    /\ exists'   = [exists   EXCEPT ![o] = FALSE]
    /\ deleting' = [deleting EXCEPT ![o] = "none"]
    /\ UNCHANGED <<index, lock, handlevars, history>>

motr_obj_delete_pp(o) ==
    /\ deleting[o] = "obj_delete"
    /\ exists'   = [exists   EXCEPT ![o] = FALSE]
    /\ deleting' = [deleting EXCEPT ![o] = "attrs_del"]
    /\ UNCHANGED <<index, lock, handlevars, history>>

AttrsDelDone(o) ==
    /\ deleting[o] = "attrs_del"
    /\ index'    = [index    EXCEPT ![o] = NoAttrs]
    /\ deleting' = [deleting EXCEPT ![o] = "none"]
    /\ orphan'   = [orphan   EXCEPT ![o] = FALSE]
    /\ UNCHANGED <<exists, lock, handlevars, written, tried, hinted, faulty>>

DeleteFailed(o) ==
    /\ deleting[o] \in MayFail
    /\ deleting' = [deleting EXCEPT ![o] = "none"]
    /\ orphan'   = [orphan   EXCEPT ![o] = @ \/ deleting[o] = "attrs_del"]
    /\ faulty'   = TRUE
    /\ UNCHANGED <<exists, index, lock, handlevars, written, tried, hinted>>

(* The process ends: its handles, operations and locks are gone.           *)
Crash ==
    /\ MayCrash
    /\ step'     = [h \in Handles |-> "free"]
    /\ deleting' = [o \in Oids |-> "none"]
    /\ orphan'   = [o \in Oids |-> orphan[o] \/ deleting[o] = "attrs_del"]
    /\ lock'     = [o \in Oids |-> NoHandle]
    /\ faulty'   = TRUE
    /\ UNCHANGED <<exists, index, oid, moa_size, moa_phints, mo_hints, updated, wire, eow,
                   written, tried, hinted>>

------------------------------------------------------------------------------
Init ==
    /\ exists     = [o \in Oids |-> FALSE]
    /\ index      = [o \in Oids |-> NoAttrs]
    /\ step       = [h \in Handles |-> "free"]
    /\ oid        = [h \in Handles |-> CHOOSE o \in Oids : TRUE]
    /\ moa_size   = [h \in Handles |-> 0]
    /\ moa_phints = [h \in Handles |-> NoHints]
    /\ mo_hints   = [h \in Handles |-> NoHints]
    /\ updated    = [h \in Handles |-> FALSE]
    /\ wire       = [h \in Handles |-> NoAttrs]
    /\ eow        = [h \in Handles |-> 0]
    /\ lock       = [o \in Oids |-> NoHandle]
    /\ deleting   = [o \in Oids |-> "none"]
    /\ written    = [o \in Oids |-> 0]
    /\ tried      = [o \in Oids |-> 0]
    /\ hinted     = [o \in Oids |-> NoHints]
    /\ orphan     = [o \in Oids |-> FALSE]
    /\ faulty     = FALSE

(* What an application calls.                                              *)
Call(h) ==
    \/ \E o \in Oids : mio_obj_create(h, o) \/ mio_obj_open(h, o)
    \/ mio_obj_lock(h) \/ mio_obj_unlock(h)
    \/ mio_obj_size(h) \/ mio_obj_readv(h)
    \/ \E e \in 1..MaxSize : mio_obj_writev(h, e)
    \/ \E k \in Hints : mio_obj_hint_set(h, k)
    \/ mio_obj_close(h)

(* A step that a handle waits for ends.                                    *)
Settle(h) ==
    \/ CreateDone(h) \/ motr_obj_open_pp(h) \/ motr_obj_attrs_get_pp(h)
    \/ motr_obj_write_pp(h) \/ WritePutDone(h)
    \/ HintPutDone(h) \/ ClosePutDone(h)
    \/ StepFailed(h)

SettleDelete(o) ==
    \/ motr_obj_delete_open_pp(o) \/ motr_obj_delete_pp(o) \/ AttrsDelDone(o)
    \/ DeleteFailed(o)

Next ==
    \/ \E h \in Handles : Call(h) \/ Settle(h)
    \/ \E o \in Oids : mio_obj_delete(o) \/ SettleDelete(o)
    \/ Crash

Spec == Init /\ [][Next]_vars

------------------------------------------------------------------------------
(* Nothing is going on with an object.                                     *)
Quiet(o) == /\ deleting[o] = "none"
            /\ \A h \in UsedBy(o) : step[h] = "ready"
            /\ lock[o] = NoHandle

(* "any object WRITE has to update the size" (driver_motr_obj.c): when     *)
(* nothing is going on with an object, the size in the index is the        *)
(* furthest end of the writes that completed, as long as nothing fails.    *)
(* It holds for one handle at a time; two handles that follow the lock     *)
(* protocol of mio.h break it.                                             *)
SizeOfWrites == ~faulty => \A o \in Oids :
    (exists[o] /\ Quiet(o)) => index[o].size = written[o]

(* The size in the index, and in a handle, is the end of a write to this   *)
(* very object: never that of a write to a deleted object of the same      *)
(* identifier, unless its delete ended between DELETE and DEL.             *)
NoForeignSize == \A o \in Oids : (exists[o] /\ ~orphan[o]) =>
    /\ deleting[o] = "none" => index[o].size <= tried[o]
    /\ \A h \in UsedBy(o) : step[h] # "create" => moa_size[h] <= tried[o]

(* An object that mio_obj_delete has deleted leaves no attributes behind,  *)
(* with the same exception.                                                *)
NoOrphans == \A o \in Oids :
    (~exists[o] /\ ~orphan[o] /\ deleting[o] = "none" /\ UsedBy(o) = {})
        => ~index[o].present

(* A stored size only grows while the object lives, whatever fails and     *)
(* wherever the process crashes, with the same exception.                  *)
SizeGrows == [][\A o \in Oids : (exists[o] /\ exists'[o] /\ ~orphan[o]) =>
                   index'[o].size >= index[o].size]_vars

(* The persistent hints set in a session stay in the index whatever else   *)
(* the session stores later (writes, other hints), as long as nothing      *)
(* fails.                                                                  *)
SessionHintsStored == ~faulty => \A h \in Handles :
    (step[h] = "ready" /\ exists[oid[h]] /\ moa_phints[h] # NoHints)
        => index[oid[h]].hints = moa_phints[h]

(* A hint of type MIO_HINT_SESSION is never stored ("won't be valid for    *)
(* next session", mio.h).                                                  *)
SessionHintsLocal == \A o \in Oids, k \in Hints \ PersistentHints : index[o].hints[k] = 0

(***************************************************************************)
(* The invariant from which these follow (proved in MioObjProofs).         *)
(***************************************************************************)
Open(h)    == step[h] \notin {"free", "create", "open", "open_get"}
Putting(h) == step[h] \in {"attrs_put", "hint_put", "close_put"}

(* A handle beyond its first step is one of an object that exists and is   *)
(* not being deleted, it knows nothing of the object before it is open,    *)
(* and a PUT in flight carries what the handle has by then.                *)
HandleLife(h) ==
    /\ step[h] \notin {"free", "create", "open"} => exists[oid[h]]
    /\ step[h] # "free" => deleting[oid[h]] = "none"
    /\ step[h] \in {"create", "open", "open_get"} =>
          moa_size[h] = 0 /\ moa_phints[h] = NoHints
    /\ Putting(h) => wire[h] = motr_obj_attrs_mem2wire(moa_size[h], moa_phints[h])

(* A record without an object is one that a delete is about to remove, or  *)
(* that a failed delete has left.                                          *)
ObjLife(o) ==
    /\ deleting[o] = "obj_delete" => exists[o]
    /\ deleting[o] = "attrs_del" => ~exists[o]
    /\ ~index[o].present => index[o] = NoAttrs
    /\ index[o].present => exists[o] \/ orphan[o] \/ deleting[o] = "attrs_del"
    /\ orphan[o] => faulty

LifeInv == /\ ObjTypeOK
           /\ \A h \in Handles : HandleLife(h)
           /\ \A o \in Oids : ObjLife(o)

(* Session hints are left out before a PUT is made.                        *)
LocalInv == /\ SessionHintsLocal
            /\ \A h \in Handles, k \in Hints \ PersistentHints :
                  moa_phints[h][k] = 0 /\ wire[h].hints[k] = 0

(* No size that a handle or the index has lies beyond every write.         *)
TriedInv ==
    /\ \A o \in Oids : (exists[o] /\ ~orphan[o]) => index[o].size <= tried[o]
    /\ \A h \in Handles : (Open(h) /\ ~orphan[oid[h]]) =>
          /\ moa_size[h] <= tried[oid[h]]
          /\ step[h] = "write" => eow[h] <= tried[oid[h]]

(* The application sees to it that an object is used through one handle at *)
(* a time ("MIO assumes application takes care of concurrent accesses to   *)
(* an object and its attributes").                                         *)
ExclusiveUse == \A h1, h2 \in Handles :
    (step[h1] # "free" /\ step[h2] # "free" /\ oid[h1] = oid[h2]) => h1 = h2

(* Then an open handle is never behind the index, ...                      *)
AheadInv == \A h \in Handles :
    (Open(h) /\ ~orphan[oid[h]]) => index[oid[h]].size <= moa_size[h]

(* ... is ahead of it only during a write that extends the object, ...     *)
ExactInv == ~faulty =>
    /\ \A o \in Oids : exists[o] => index[o].size = written[o]
    /\ \A h \in Handles : Open(h) =>
          IF step[h] = "attrs_put" THEN moa_size[h] = eow[h] /\ index[oid[h]].size < eow[h]
                                   ELSE moa_size[h] = index[oid[h]].size

(* ... and a hint that it has set is in the index.                         *)
StoredInv == ~faulty => \A h \in Handles :
    (Open(h) /\ step[h] # "hint_put" /\ moa_phints[h] # NoHints)
        => index[oid[h]].hints = moa_phints[h]

(* Whatever fails and wherever the process crashes: what a handle, a PUT   *)
(* in flight and the index say of an object belong together at every step, *)
(* not only when the object is at rest.                                    *)
ObjInv == LifeInv /\ LocalInv /\ TriedInv /\ AheadInv /\ ExactInv /\ StoredInv

(***************************************************************************)
(* What the code does not achieve (see README.md).                         *)
(***************************************************************************)
(* A write that was reported complete lies within the size in the index:   *)
(* broken by a write that is retried after its PUT failed.                 *)
WritesCovered == \A o \in Oids : (exists[o] /\ Quiet(o)) => index[o].size >= written[o]

(* "The persistent hints are valid for the life time of the object"        *)
(* (mio.h): broken by a later session that does I/O and sets no hint.      *)
HintsPersist == \A o \in Oids : (exists[o] /\ Quiet(o)) => index[o].hints = hinted[o]
==============================================================================
