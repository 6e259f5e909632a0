---------------------------- MODULE MioObjProofs ----------------------------
(***************************************************************************)
(* Proofs about MioObj for every set of objects, handles and hints, every  *)
(* bound on the sizes, and whatever may fail.                              *)
(***************************************************************************)
EXTENDS MioObj, TLAPS

(***************************************************************************)
(* Facts about the records.                                                *)
(***************************************************************************)
(* The map without hints is a map of hints, and the record of an object    *)
(* that has none is a record.                                              *)
LEMMA NoHintsType == NoHints \in HintMap /\ NoAttrs \in Attrs
  BY ObjAssumption DEF NoHints, HintMap, NoAttrs, Attrs, Values

(* motr_obj_attrs_mem2wire makes a record of what it is given.             *)
LEMMA Mem2wireType ==
    ASSUME NEW n \in 0..MaxSize, NEW m \in HintMap
    PROVE  /\ motr_obj_attrs_mem2wire(n, m) \in Attrs
           /\ motr_obj_attrs_mem2wire(n, m).present
           /\ motr_obj_attrs_mem2wire(n, m).size = n
           /\ motr_obj_attrs_mem2wire(n, m).hints = m
  BY DEF motr_obj_attrs_mem2wire, Attrs

(* The variables have their types at first ...                             *)
LEMMA InitType == Init => ObjTypeOK
  <1>1. (CHOOSE o \in Oids : TRUE) \in Oids
    BY ObjAssumption
  <1>2. 0 \in 0..MaxSize
    BY ObjAssumption
  <1> SUFFICES ASSUME Init PROVE ObjTypeOK
    OBVIOUS
  <1>3. /\ exists \in [Oids -> BOOLEAN] /\ index \in [Oids -> Attrs]
        /\ lock \in [Oids -> Handles \cup {NoHandle}]
        /\ deleting \in [Oids -> DeleteSteps \cup {"none"}]
    BY NoHintsType DEF Init
  <1>4. /\ step \in [Handles -> Steps \cup {"free", "ready"}] /\ oid \in [Handles -> Oids]
        /\ moa_size \in [Handles -> 0..MaxSize] /\ eow \in [Handles -> 0..MaxSize]
        /\ moa_phints \in [Handles -> HintMap] /\ mo_hints \in [Handles -> HintMap]
        /\ updated \in [Handles -> BOOLEAN] /\ wire \in [Handles -> Attrs]
    BY <1>1, <1>2, NoHintsType DEF Init
  <1>5. /\ written \in [Oids -> 0..MaxSize] /\ tried \in [Oids -> 0..MaxSize]
        /\ hinted \in [Oids -> HintMap] /\ orphan \in [Oids -> BOOLEAN] /\ faulty \in BOOLEAN
    BY <1>2, NoHintsType DEF Init
  <1> QED
    BY <1>3, <1>4, <1>5 DEF ObjTypeOK

(* ... and every call, and every completion of a query or PUT, keeps       *)
(* them.                                                                   *)
LEMMA NextType == ObjTypeOK /\ [Next]_vars => ObjTypeOK'
  <1> SUFFICES ASSUME ObjTypeOK, [Next]_vars PROVE ObjTypeOK'
    OBVIOUS
  <1> USE DEF ObjTypeOK
  <1> USE NoHintsType, ObjAssumption
  <1>1. ASSUME NEW h \in Handles, NEW o \in Oids, NEW s \in {"create", "open"}, obj_init(h, o, s)
        PROVE  ObjTypeOK'
    BY <1>1 DEF obj_init, objvars, history, Steps
  <1>2. ASSUME NEW h \in Handles, CreateDone(h) PROVE ObjTypeOK'
    <2>1. CASE exists[oid[h]]
      BY <1>2, <2>1 DEF CreateDone, history
    <2>2. CASE ~exists[oid[h]]
      <3>1. oid[h] \in Oids /\ 0 \in 0..MaxSize
        OBVIOUS
      <3>2. /\ written' \in [Oids -> 0..MaxSize] /\ tried' \in [Oids -> 0..MaxSize]
            /\ hinted' \in [Oids -> HintMap] /\ exists' \in [Oids -> BOOLEAN]
            /\ step' \in [Handles -> Steps \cup {"free", "ready"}]
        BY <1>2, <2>2, <3>1, ZenonT(60) DEF CreateDone
      <3> QED BY <1>2, <2>2, <3>2 DEF CreateDone
    <2> QED BY <2>1, <2>2
  <1>3. ASSUME NEW h \in Handles, motr_obj_open_pp(h) PROVE ObjTypeOK'
    BY <1>3 DEF motr_obj_open_pp, objvars, history, Steps
  <1>4. ASSUME NEW h \in Handles, motr_obj_attrs_get_pp(h) PROVE ObjTypeOK'
    BY <1>4 DEF motr_obj_attrs_get_pp, motr_obj_attrs_wire2mem, objvars, history, Attrs
  <1>5. ASSUME NEW h \in Handles, mio_obj_lock(h) \/ mio_obj_unlock(h) PROVE ObjTypeOK'
    BY <1>5 DEF mio_obj_lock, mio_obj_unlock, handlevars, history
  <1>6. ASSUME NEW h \in Handles, mio_obj_size(h) \/ mio_obj_readv(h) PROVE ObjTypeOK'
    BY <1>6 DEF mio_obj_size, mio_obj_readv, objvars, history, Steps
  <1>7. ASSUME NEW h \in Handles, NEW e \in 1..MaxSize, mio_obj_writev(h, e) PROVE ObjTypeOK'
    BY <1>7 DEF mio_obj_writev, objvars, Steps, Greater
  <1>8. ASSUME NEW h \in Handles, motr_obj_write_pp(h) PROVE ObjTypeOK'
    <2>1. PICK e \in FreedEow(h) : motr_obj_write_pp(h)!2!(e)
      BY <1>8 DEF motr_obj_write_pp
    <2>2. e \in 0..MaxSize
      BY DEF FreedEow
    <2>3. motr_obj_attrs_mem2wire(e, moa_phints[h]) \in Attrs
      BY <2>2, Mem2wireType
    <2>4. CASE Extends(h, e)
      BY <1>8, <2>1, <2>2, <2>3, <2>4 DEF motr_obj_write_pp, objvars, Steps
    <2>5. CASE ~Extends(h, e)
      BY <1>8, <2>1, <2>2, <2>5 DEF motr_obj_write_pp, WriteCompleted, objvars, Greater
    <2> QED BY <2>4, <2>5
  <1>9. ASSUME NEW h \in Handles, WritePutDone(h) PROVE ObjTypeOK'
    BY <1>9 DEF WritePutDone, WriteCompleted, Greater
  <1>10. ASSUME NEW h \in Handles, NEW k \in Hints, mio_obj_hint_set(h, k) PROVE ObjTypeOK'
    BY <1>10, Mem2wireType DEF mio_obj_hint_set, PersistentOf, HintMap, Values, objvars, history, Steps
  <1>11. ASSUME NEW h \in Handles, HintPutDone(h) PROVE ObjTypeOK'
    BY <1>11 DEF HintPutDone, Greater, HintMap, Values, Attrs
  <1>12. ASSUME NEW h \in Handles, mio_obj_close(h) PROVE ObjTypeOK'
    <2>1. motr_obj_attrs_mem2wire(moa_size[h], moa_phints[h]) \in Attrs
      BY Mem2wireType
    <2>2. CASE updated[h]
      BY <1>12, <2>1, <2>2 DEF mio_obj_close, objvars, history, Steps
    <2>3. CASE ~updated[h]
      BY <1>12, <2>3 DEF mio_obj_close, objvars, history
    <2> QED BY <2>2, <2>3
  <1>13. ASSUME NEW h \in Handles, ClosePutDone(h) PROVE ObjTypeOK'
    BY <1>13 DEF ClosePutDone, history
  <1>14. ASSUME NEW h \in Handles, StepFailed(h) PROVE ObjTypeOK'
    BY <1>14 DEF StepFailed, objvars
  <1>15. ASSUME NEW o \in Oids, mio_obj_delete(o) PROVE ObjTypeOK'
    BY <1>15 DEF mio_obj_delete, handlevars, history, DeleteSteps
  <1>16. ASSUME NEW o \in Oids, SettleDelete(o) PROVE ObjTypeOK'
    <2>1. CASE motr_obj_delete_open_pp(o)
      BY <2>1 DEF motr_obj_delete_open_pp, handlevars, history, DeleteSteps
    <2>2. CASE motr_obj_delete_pp(o)
      BY <2>2 DEF motr_obj_delete_pp, handlevars, history, DeleteSteps
    <2>3. CASE AttrsDelDone(o)
      BY <2>3 DEF AttrsDelDone, handlevars
    <2>4. CASE DeleteFailed(o)
      BY <2>4 DEF DeleteFailed, handlevars
    <2> QED BY <1>16, <2>1, <2>2, <2>3, <2>4 DEF SettleDelete
  <1>17. CASE Crash
    BY <1>17 DEF Crash
  <1>18. CASE UNCHANGED vars
    BY <1>18 DEF vars, objvars, handlevars, history
  <1> QED
    BY <1>1, <1>2, <1>3, <1>4, <1>5, <1>6, <1>7, <1>8, <1>9, <1>10, <1>11, <1>12, <1>13,
       <1>14, <1>15, <1>16, <1>17, <1>18
    DEF Next, Call, Settle, mio_obj_create, mio_obj_open

(***************************************************************************)
(* The life of objects and handles.                                        *)
(***************************************************************************)
(* At first there is no object, no record and no open handle.              *)
LEMMA InitLife == Init => LifeInv
  <1> SUFFICES ASSUME Init PROVE LifeInv
    OBVIOUS
  <1>1. \A h \in Handles : HandleLife(h)
    BY DEF Init, HandleLife, Putting
  <1>2. \A o \in Oids : ObjLife(o)
    BY DEF Init, ObjLife, NoAttrs
  <1> QED BY <1>1, <1>2, InitType DEF LifeInv

(* Every step keeps what is said of the lives of handles and objects: no   *)
(* handle outlives its object, and no record does but for a delete.        *)
LEMMA NextLife == LifeInv /\ [Next]_vars => LifeInv'
  <1> SUFFICES ASSUME LifeInv, [Next]_vars
               PROVE  (\A h \in Handles : HandleLife(h)') /\ (\A o \in Oids : ObjLife(o)')
    BY NextType DEF LifeInv
  <1> DEFINE Goal == (\A h \in Handles : HandleLife(h)') /\ (\A o \in Oids : ObjLife(o)')
  <1> USE DEF LifeInv, ObjTypeOK, HandleLife, ObjLife, Putting
  <1>1. ASSUME NEW h \in Handles, NEW o \in Oids, NEW s \in {"create", "open"}, obj_init(h, o, s)
        PROVE  Goal
    BY <1>1 DEF obj_init, objvars, history
  <1>2. ASSUME NEW h \in Handles, CreateDone(h) PROVE Goal
    BY <1>2 DEF CreateDone, history
  <1>3. ASSUME NEW h \in Handles, motr_obj_open_pp(h) PROVE Goal
    BY <1>3 DEF motr_obj_open_pp, objvars, history
  <1>4. ASSUME NEW h \in Handles, motr_obj_attrs_get_pp(h) PROVE Goal
    BY <1>4 DEF motr_obj_attrs_get_pp, motr_obj_attrs_wire2mem, objvars, history
  <1>5. ASSUME NEW h \in Handles, mio_obj_lock(h) \/ mio_obj_unlock(h) PROVE Goal
    BY <1>5 DEF mio_obj_lock, mio_obj_unlock, handlevars, history
  <1>6. ASSUME NEW h \in Handles, mio_obj_size(h) \/ mio_obj_readv(h) PROVE Goal
    BY <1>6 DEF mio_obj_size, mio_obj_readv, objvars, history, CanUse
  <1>7. ASSUME NEW h \in Handles, NEW e \in 1..MaxSize, mio_obj_writev(h, e) PROVE Goal
    BY <1>7 DEF mio_obj_writev, objvars, CanUse
  <1>8. ASSUME NEW h \in Handles, motr_obj_write_pp(h) PROVE Goal
    BY <1>8 DEF motr_obj_write_pp, objvars
  <1>9. ASSUME NEW h \in Handles, WritePutDone(h) PROVE Goal
    BY <1>9 DEF WritePutDone, motr_obj_attrs_mem2wire
  <1>10. ASSUME NEW h \in Handles, NEW k \in Hints, mio_obj_hint_set(h, k) PROVE Goal
    BY <1>10 DEF mio_obj_hint_set, objvars, history, CanUse
  <1>11. ASSUME NEW h \in Handles, HintPutDone(h) PROVE Goal
    BY <1>11 DEF HintPutDone, motr_obj_attrs_mem2wire
  <1>12. ASSUME NEW h \in Handles, mio_obj_close(h) PROVE Goal
    BY <1>12 DEF mio_obj_close, objvars, history
  <1>13. ASSUME NEW h \in Handles, ClosePutDone(h) PROVE Goal
    BY <1>13 DEF ClosePutDone, history, motr_obj_attrs_mem2wire
  <1>14. ASSUME NEW h \in Handles, StepFailed(h) PROVE Goal
    <2>0. step[h] # "free" /\ step[h] # "ready"
      BY <1>14, ObjAssumption DEF StepFailed, AllSteps, Steps, DeleteSteps
    <2>1. ASSUME NEW g \in Handles PROVE HandleLife(g)'
      BY <1>14, <2>0 DEF StepFailed, objvars
    <2>2. faulty'
      BY <1>14 DEF StepFailed
    <2>3. ASSUME NEW o \in Oids PROVE ObjLife(o)'
      BY <1>14, <2>2 DEF StepFailed, objvars
    <2> QED BY <2>1, <2>3
  <1>15. ASSUME NEW o \in Oids, mio_obj_delete(o) PROVE Goal
    BY <1>15 DEF mio_obj_delete, UsedBy, handlevars, history
  <1>16. ASSUME NEW o \in Oids, SettleDelete(o) PROVE Goal
    <2>1. CASE motr_obj_delete_open_pp(o)
      BY <2>1 DEF motr_obj_delete_open_pp, handlevars, history
    <2>2. CASE motr_obj_delete_pp(o)
      BY <2>2 DEF motr_obj_delete_pp, handlevars, history
    <2>3. CASE AttrsDelDone(o)
      BY <2>3 DEF AttrsDelDone, handlevars, NoAttrs
    <2>4. CASE DeleteFailed(o)
      <3>1. ASSUME NEW h \in Handles PROVE HandleLife(h)'
        BY <2>4 DEF DeleteFailed, handlevars
      <3>2. faulty'
        BY <2>4 DEF DeleteFailed
      <3>3. ASSUME NEW p \in Oids PROVE ObjLife(p)'
        <4>1. CASE p # o
          BY <2>4, <3>2, <4>1 DEF DeleteFailed
        <4>2. CASE p = o
          <5>1. orphan'[o] = (orphan[o] \/ deleting[o] = "attrs_del") /\ deleting'[o] = "none"
            BY <2>4 DEF DeleteFailed
          <5> QED BY <2>4, <3>2, <4>2, <5>1 DEF DeleteFailed
        <4> QED BY <4>1, <4>2
      <3> QED BY <3>1, <3>3
    <2> QED BY <1>16, <2>1, <2>2, <2>3, <2>4 DEF SettleDelete
  <1>17. CASE Crash
    BY <1>17 DEF Crash
  <1>18. CASE UNCHANGED vars
    BY <1>18 DEF vars, objvars, handlevars, history
  <1> QED
    BY <1>1, <1>2, <1>3, <1>4, <1>5, <1>6, <1>7, <1>8, <1>9, <1>10, <1>11, <1>12, <1>13,
       <1>14, <1>15, <1>16, <1>17, <1>18
    DEF Next, Call, Settle, mio_obj_create, mio_obj_open

(***************************************************************************)
(* Session hints.                                                          *)
(***************************************************************************)
(* Which steps change the hints in the index, in a PUT or in moa_phints.   *)
HintSteps(h) ==
    \/ \E o \in Oids : mio_obj_create(h, o) \/ mio_obj_open(h, o)
    \/ motr_obj_write_pp(h) \/ mio_obj_close(h)
    \/ WritePutDone(h) \/ HintPutDone(h) \/ ClosePutDone(h)
    \/ \E k \in Hints : mio_obj_hint_set(h, k)

(* All other steps leave them alone, but for the record that goes with a   *)
(* deleted object.                                                         *)
LEMMA OtherSteps ==
    ASSUME [Next]_vars
    PROVE  \/ \E h \in Handles : HintSteps(h)
           \/ \E o \in Oids : AttrsDelDone(o)
           \/ UNCHANGED <<index, moa_phints, wire>>
  BY DEF Next, vars, objvars, handlevars, history, HintSteps, Call, Settle, mio_obj_lock,
         mio_obj_unlock, mio_obj_size, mio_obj_readv, mio_obj_writev, CreateDone,
         motr_obj_open_pp, motr_obj_attrs_get_pp, StepFailed, SettleDelete,
         motr_obj_delete_open_pp, motr_obj_delete_pp, DeleteFailed, mio_obj_delete, Crash

(* Every PUT is made of the persistent hints alone.                        *)
LEMMA NextLocal == ObjTypeOK /\ LocalInv /\ [Next]_vars => LocalInv'
  <1> SUFFICES ASSUME ObjTypeOK, LocalInv, [Next]_vars,
                      NEW k \in Hints \ PersistentHints
               PROVE  /\ \A o \in Oids : index'[o].hints[k] = 0
                      /\ \A h \in Handles : moa_phints'[h][k] = 0 /\ wire'[h].hints[k] = 0
    BY DEF LocalInv, SessionHintsLocal
  <1> DEFINE Goal == /\ \A o \in Oids : index'[o].hints[k] = 0
                     /\ \A h \in Handles : moa_phints'[h][k] = 0 /\ wire'[h].hints[k] = 0
  <1>a. NoHints[k] = 0 /\ NoAttrs.hints[k] = 0
    BY DEF NoHints, NoAttrs
  <1>b. \A n, m : motr_obj_attrs_mem2wire(n, m).hints = m
    BY DEF motr_obj_attrs_mem2wire
  <1> USE DEF ObjTypeOK, LocalInv, SessionHintsLocal
  <1>1. ASSUME NEW h \in Handles, NEW o \in Oids, mio_obj_create(h, o) \/ mio_obj_open(h, o)
        PROVE  Goal
    <2>1. index' = index /\ wire' = wire /\ moa_phints' = [moa_phints EXCEPT ![h] = NoHints]
      BY <1>1 DEF mio_obj_create, mio_obj_open, obj_init, objvars
    <2> QED BY <1>a, <2>1
  <1>2. ASSUME NEW h \in Handles, motr_obj_write_pp(h) PROVE Goal
    <2>1. \/ wire' = wire
          \/ \E e : wire' = [wire EXCEPT ![h] = motr_obj_attrs_mem2wire(e, moa_phints[h])]
      BY <1>2 DEF motr_obj_write_pp
    <2>2. index' = index /\ moa_phints' = moa_phints
      BY <1>2 DEF motr_obj_write_pp, objvars
    <2>3. ASSUME NEW e, wire' = [wire EXCEPT ![h] = motr_obj_attrs_mem2wire(e, moa_phints[h])]
          PROVE  \A g \in Handles : wire'[g].hints[k] = 0
      <3>1. wire'[h].hints = moa_phints[h]
        BY <1>b, <2>3
      <3> QED BY <2>3, <3>1
    <2> QED BY <2>1, <2>2, <2>3
  <1>3. ASSUME NEW h \in Handles, mio_obj_close(h) PROVE Goal
    BY <1>3, <1>b DEF mio_obj_close, objvars
  <1>4. ASSUME NEW h \in Handles, WritePutDone(h) \/ HintPutDone(h) \/ ClosePutDone(h) PROVE Goal
    <2>1. /\ index' = [index EXCEPT ![oid[h]] = wire[h]]
          /\ moa_phints' = moa_phints /\ wire' = wire
      BY <1>4 DEF WritePutDone, HintPutDone, ClosePutDone
    <2> QED BY <2>1
  <1>5. ASSUME NEW h \in Handles, NEW j \in Hints, mio_obj_hint_set(h, j) PROVE Goal
    <2>1. \A m : PersistentOf(m)[k] = 0
      BY DEF PersistentOf
    <2> QED BY <1>5, <1>b, <2>1 DEF mio_obj_hint_set, objvars
  <1>6. ASSUME NEW o \in Oids, AttrsDelDone(o) PROVE Goal
    BY <1>6, <1>a DEF AttrsDelDone, handlevars
  <1>7. CASE UNCHANGED <<index, moa_phints, wire>>
    BY <1>7
  <1> QED
    BY <1>1, <1>2, <1>3, <1>4, <1>5, <1>6, <1>7, OtherSteps DEF HintSteps

(* A hint of type MIO_HINT_SESSION is never stored, whoever sets it and    *)
(* whatever fails: obj_hint_store is the only source of moa_phints, and    *)
(* every PUT takes its hints from there.                                   *)
THEOREM HintsStayLocal == Spec => []SessionHintsLocal
  <1>1. Init => LocalInv
    BY DEF Init, LocalInv, SessionHintsLocal, NoHints, NoAttrs
  <1>2. LocalInv => SessionHintsLocal
    BY DEF LocalInv
  <1> QED BY <1>1, <1>2, InitType, NextType, NextLocal, PTL DEF Spec


(***************************************************************************)
(* The sizes.                                                              *)
(***************************************************************************)
(* What ObjAssumption says of the steps that may fail.                     *)
LEMMA FailingSteps ==
    ASSUME NEW h \in Handles, StepFailed(h)
    PROVE  step[h] # "free" /\ step[h] # "ready"
  BY ObjAssumption DEF StepFailed, AllSteps, Steps, DeleteSteps

(* A size only comes from a write, from the index or from a PUT, and a new *)
(* object begins without one.                                              *)
LEMMA NextTried == ~ArgsReused /\ LifeInv /\ TriedInv /\ [Next]_vars => TriedInv'
  <1> SUFFICES ASSUME ~ArgsReused, LifeInv, TriedInv, [Next]_vars PROVE TriedInv'
    OBVIOUS
  <1> USE DEF LifeInv, TriedInv, ObjTypeOK, HandleLife, ObjLife, Open, Putting
  <1>1. ASSUME NEW h \in Handles, NEW o \in Oids, NEW s \in {"create", "open"}, obj_init(h, o, s) PROVE TriedInv'
    BY <1>1 DEF obj_init, objvars, history
  <1>2. ASSUME NEW h \in Handles, CreateDone(h) PROVE TriedInv'
    <2>1. CASE exists[oid[h]]
      BY <1>2, <2>1 DEF CreateDone, history
    <2>2. CASE ~exists[oid[h]]
      <3>1. NoAttrs.size = 0
        BY DEF NoAttrs
      <3>2. ~orphan[oid[h]] => index[oid[h]].size = 0
        BY <1>2, <2>2, <3>1 DEF CreateDone
      <3>3. ASSUME NEW o \in Oids, exists'[o], ~orphan'[o] PROVE index'[o].size <= tried'[o]
        BY <1>2, <2>2, <3>2, <3>3 DEF CreateDone
      <3>4. ASSUME NEW g \in Handles, Open(g)', ~orphan'[oid'[g]]
            PROVE  /\ moa_size'[g] <= tried'[oid'[g]]
                   /\ step'[g] = "write" => eow'[g] <= tried'[oid'[g]]
        <4>1. CASE g = h
          BY <1>2, <2>2, <3>4, <4>1 DEF CreateDone
        <4>2. CASE g # h
          <5>1. Open(g) /\ oid[g] # oid[h]
            BY <1>2, <2>2, <3>4, <4>2 DEF CreateDone
          <5> QED BY <1>2, <2>2, <3>4, <4>2, <5>1 DEF CreateDone
        <4> QED BY <4>1, <4>2
      <3> QED BY <3>3, <3>4
    <2> QED BY <2>1, <2>2
  <1>3. ASSUME NEW h \in Handles, motr_obj_open_pp(h) PROVE TriedInv'
    BY <1>3 DEF motr_obj_open_pp, objvars, history
  <1>4. ASSUME NEW h \in Handles, motr_obj_attrs_get_pp(h) PROVE TriedInv'
    BY <1>4 DEF motr_obj_attrs_get_pp, motr_obj_attrs_wire2mem, objvars, history
  <1>5. ASSUME NEW h \in Handles, mio_obj_lock(h) \/ mio_obj_unlock(h) PROVE TriedInv'
    BY <1>5 DEF mio_obj_lock, mio_obj_unlock, handlevars, history
  <1>6. ASSUME NEW h \in Handles, mio_obj_size(h) \/ mio_obj_readv(h) PROVE TriedInv'
    BY <1>6 DEF mio_obj_size, mio_obj_readv, CanUse, objvars, history
  <1>7. ASSUME NEW h \in Handles, NEW e \in 1..MaxSize, mio_obj_writev(h, e) PROVE TriedInv'
    <2>1. /\ tried' \in [Oids -> Nat]
          /\ \A o \in Oids : tried[o] <= tried'[o]
          /\ e <= tried'[oid[h]]
      BY <1>7, ObjAssumption DEF mio_obj_writev, Greater
    <2>2. /\ index' = index /\ exists' = exists /\ orphan' = orphan /\ oid' = oid
          /\ moa_size' = moa_size
          /\ step' = [step EXCEPT ![h] = "write"] /\ step[h] = "ready"
          /\ eow' = [eow EXCEPT ![h] = e]
      BY <1>7 DEF mio_obj_writev, CanUse, objvars
    <2>3. ASSUME NEW o \in Oids, exists'[o], ~orphan'[o] PROVE index'[o].size <= tried'[o]
      <3>1. index[o].size \in Nat /\ tried[o] \in Nat
        BY DEF Attrs
      <3> QED BY <2>1, <2>2, <2>3, <3>1
    <2>4. ASSUME NEW g \in Handles, Open(g)', ~orphan'[oid'[g]]
          PROVE  /\ moa_size'[g] <= tried'[oid'[g]]
                 /\ step'[g] = "write" => eow'[g] <= tried'[oid'[g]]
      <3>1. Open(g) /\ oid[g] \in Oids /\ moa_size[g] \in Nat /\ eow[g] \in Nat
        BY <2>2, <2>4
      <3>2. moa_size[g] <= tried[oid[g]] /\ (step[g] = "write" => eow[g] <= tried[oid[g]])
        BY <2>2, <2>4, <3>1
      <3>3. tried[oid[g]] \in Nat /\ tried[oid[g]] <= tried'[oid[g]] /\ tried'[oid[g]] \in Nat
        BY <2>1, <3>1
      <3> QED BY <2>1, <2>2, <3>1, <3>2, <3>3
    <2> QED BY <2>3, <2>4
  <1>8. ASSUME NEW h \in Handles, motr_obj_write_pp(h) PROVE TriedInv'
    BY <1>8 DEF motr_obj_write_pp, objvars, FreedEow, Extends
  <1>9. ASSUME NEW h \in Handles, WritePutDone(h) PROVE TriedInv'
    BY <1>9 DEF WritePutDone, motr_obj_attrs_mem2wire
  <1>10. ASSUME NEW h \in Handles, NEW k \in Hints, mio_obj_hint_set(h, k) PROVE TriedInv'
    BY <1>10 DEF mio_obj_hint_set, CanUse, objvars, history
  <1>11. ASSUME NEW h \in Handles, HintPutDone(h) PROVE TriedInv'
    BY <1>11 DEF HintPutDone, motr_obj_attrs_mem2wire
  <1>12. ASSUME NEW h \in Handles, mio_obj_close(h) PROVE TriedInv'
    BY <1>12 DEF mio_obj_close, objvars, history
  <1>13. ASSUME NEW h \in Handles, ClosePutDone(h) PROVE TriedInv'
    BY <1>13 DEF ClosePutDone, history, motr_obj_attrs_mem2wire
  <1>14. ASSUME NEW h \in Handles, StepFailed(h) PROVE TriedInv'
    <2>1. \A g \in Handles : /\ Open(g)' => Open(g)
                             /\ step'[g] = "write" => step[g] = "write"
      <3>1. step[h] # "free"
        BY <1>14, FailingSteps
      <3> QED BY <1>14, <3>1 DEF StepFailed
    <2> QED BY <1>14, <2>1 DEF StepFailed, objvars
  <1>15. ASSUME NEW o \in Oids, mio_obj_delete(o) PROVE TriedInv'
    BY <1>15 DEF mio_obj_delete, handlevars, history
  <1>16. ASSUME NEW o \in Oids, SettleDelete(o) PROVE TriedInv'
    <2>1. CASE motr_obj_delete_open_pp(o)
      BY <2>1 DEF motr_obj_delete_open_pp, handlevars, history
    <2>2. CASE motr_obj_delete_pp(o)
      BY <2>2 DEF motr_obj_delete_pp, handlevars, history
    <2>3. CASE AttrsDelDone(o)
      BY <2>3 DEF AttrsDelDone, handlevars
    <2>4. CASE DeleteFailed(o)
      BY <2>4 DEF DeleteFailed, handlevars
    <2> QED BY <1>16, <2>1, <2>2, <2>3, <2>4 DEF SettleDelete
  <1>17. CASE Crash
    BY <1>17 DEF Crash
  <1>18. CASE UNCHANGED vars
    BY <1>18 DEF vars, objvars, handlevars, history
  <1> QED
    BY <1>1, <1>2, <1>3, <1>4, <1>5, <1>6, <1>7, <1>8, <1>9, <1>10, <1>11, <1>12, <1>13,
       <1>14, <1>15, <1>16, <1>17, <1>18
    DEF Next, Call, Settle, mio_obj_create, mio_obj_open

(* A PUT stores the size of its handle, which is not below that of the     *)
(* index as long as no other handle has moved it on.                       *)
LEMMA NextAhead == LifeInv /\ AheadInv /\ ExclusiveUse /\ [Next]_vars => AheadInv'
  <1> SUFFICES ASSUME LifeInv, AheadInv, ExclusiveUse, [Next]_vars PROVE AheadInv'
    OBVIOUS
  <1>a. /\ NoAttrs.size = 0
        /\ \A o \in Oids : index[o].size \in Nat
        /\ \A h \in Handles : moa_size[h] \in Nat /\ oid[h] \in Oids
        /\ \A n, m : motr_obj_attrs_mem2wire(n, m).size = n
    BY DEF LifeInv, ObjTypeOK, Attrs, NoAttrs, motr_obj_attrs_mem2wire
  <1> USE <1>a DEF LifeInv, AheadInv, ExclusiveUse, ObjTypeOK, HandleLife, ObjLife, Open, Putting
  <1>1. ASSUME NEW h \in Handles, NEW o \in Oids, NEW s \in {"create", "open"}, obj_init(h, o, s) PROVE AheadInv'
    BY <1>1 DEF obj_init, objvars, history
  <1>2. ASSUME NEW h \in Handles, CreateDone(h) PROVE AheadInv'
    BY <1>2 DEF CreateDone, history
  <1>3. ASSUME NEW h \in Handles, motr_obj_open_pp(h) PROVE AheadInv'
    BY <1>3 DEF motr_obj_open_pp, objvars, history
  <1>4. ASSUME NEW h \in Handles, motr_obj_attrs_get_pp(h) PROVE AheadInv'
    BY <1>4 DEF motr_obj_attrs_get_pp, motr_obj_attrs_wire2mem, objvars, history
  <1>5. ASSUME NEW h \in Handles, mio_obj_lock(h) \/ mio_obj_unlock(h) PROVE AheadInv'
    BY <1>5 DEF mio_obj_lock, mio_obj_unlock, handlevars, history
  <1>6. ASSUME NEW h \in Handles, mio_obj_size(h) \/ mio_obj_readv(h) PROVE AheadInv'
    BY <1>6 DEF mio_obj_size, mio_obj_readv, CanUse, objvars, history
  <1>7. ASSUME NEW h \in Handles, NEW e \in 1..MaxSize, mio_obj_writev(h, e) PROVE AheadInv'
    BY <1>7 DEF mio_obj_writev, CanUse, objvars
  <1>8. ASSUME NEW h \in Handles, motr_obj_write_pp(h) PROVE AheadInv'
    BY <1>8 DEF motr_obj_write_pp, objvars, FreedEow, Extends
  <1>9. ASSUME NEW h \in Handles, WritePutDone(h) PROVE AheadInv'
    BY <1>9 DEF WritePutDone
  <1>10. ASSUME NEW h \in Handles, NEW k \in Hints, mio_obj_hint_set(h, k) PROVE AheadInv'
    BY <1>10 DEF mio_obj_hint_set, CanUse, objvars, history
  <1>11. ASSUME NEW h \in Handles, HintPutDone(h) PROVE AheadInv'
    BY <1>11 DEF HintPutDone
  <1>12. ASSUME NEW h \in Handles, mio_obj_close(h) PROVE AheadInv'
    BY <1>12 DEF mio_obj_close, objvars, history
  <1>13. ASSUME NEW h \in Handles, ClosePutDone(h) PROVE AheadInv'
    BY <1>13 DEF ClosePutDone, history
  <1>14. ASSUME NEW h \in Handles, StepFailed(h) PROVE AheadInv'
    <2>1. step[h] # "free"
      BY <1>14, FailingSteps
    <2>2. \A g \in Handles : Open(g)' => Open(g)
      BY <1>14, <2>1 DEF StepFailed
    <2> QED BY <1>14, <2>2 DEF StepFailed, objvars
  <1>15. ASSUME NEW o \in Oids, mio_obj_delete(o) PROVE AheadInv'
    BY <1>15 DEF mio_obj_delete, handlevars, history
  <1>16. ASSUME NEW o \in Oids, SettleDelete(o) PROVE AheadInv'
    <2>1. CASE motr_obj_delete_open_pp(o)
      BY <2>1 DEF motr_obj_delete_open_pp, handlevars, history
    <2>2. CASE motr_obj_delete_pp(o)
      BY <2>2 DEF motr_obj_delete_pp, handlevars, history
    <2>3. CASE AttrsDelDone(o)
      BY <2>3 DEF AttrsDelDone, handlevars
    <2>4. CASE DeleteFailed(o)
      BY <2>4 DEF DeleteFailed, handlevars
    <2> QED BY <1>16, <2>1, <2>2, <2>3, <2>4 DEF SettleDelete
  <1>17. CASE Crash
    BY <1>17 DEF Crash
  <1>18. CASE UNCHANGED vars
    BY <1>18 DEF vars, objvars, handlevars, history
  <1> QED
    BY <1>1, <1>2, <1>3, <1>4, <1>5, <1>6, <1>7, <1>8, <1>9, <1>10, <1>11, <1>12, <1>13,
       <1>14, <1>15, <1>16, <1>17, <1>18
    DEF Next, Call, Settle, mio_obj_create, mio_obj_open

(* Without failures, the size of an open handle is that of the index but   *)
(* for a write that extends the object, between the end of its data and    *)
(* that of its PUT; the index and the count of the completed writes change *)
(* together.                                                               *)
LEMMA NextExact ==
    ~ArgsReused /\ LifeInv /\ ExactInv /\ ExclusiveUse /\ [Next]_vars => ExactInv'
  <1> SUFFICES ASSUME ~ArgsReused, LifeInv, ExactInv, ExclusiveUse, [Next]_vars PROVE ExactInv'
    OBVIOUS
  <1>a. /\ NoAttrs.size = 0
        /\ \A o \in Oids : index[o].size \in Nat /\ written[o] \in Nat
        /\ \A h \in Handles : moa_size[h] \in Nat /\ eow[h] \in Nat /\ oid[h] \in Oids
        /\ \A n, m : motr_obj_attrs_mem2wire(n, m).size = n
    BY DEF LifeInv, ObjTypeOK, Attrs, NoAttrs, motr_obj_attrs_mem2wire
  <1> USE <1>a DEF LifeInv, ExactInv, ExclusiveUse, ObjTypeOK, HandleLife, ObjLife, Open, Putting
  <1>1. ASSUME NEW h \in Handles, NEW o \in Oids, NEW s \in {"create", "open"}, obj_init(h, o, s) PROVE ExactInv'
    BY <1>1 DEF obj_init, objvars, history
  <1>2. ASSUME NEW h \in Handles, CreateDone(h) PROVE ExactInv'
    <2>1. CASE exists[oid[h]]
      BY <1>2, <2>1, SMTT(30) DEF CreateDone, history
    <2>2. CASE ~exists[oid[h]]
      <3>1. ~faulty => index[oid[h]].size = 0
        BY <1>2, <2>2 DEF CreateDone
      <3>2. ASSUME NEW o \in Oids, ~faulty, exists'[o] PROVE index'[o].size = written'[o]
        BY <1>2, <2>2, <3>1, <3>2 DEF CreateDone
      <3>3. ASSUME NEW g \in Handles, ~faulty, Open(g)'
            PROVE  IF step'[g] = "attrs_put"
                   THEN moa_size'[g] = eow'[g] /\ index'[oid'[g]].size < eow'[g]
                   ELSE moa_size'[g] = index'[oid'[g]].size
        BY <1>2, <2>2, <3>1, <3>3 DEF CreateDone
      <3>4. faulty' = faulty
        BY <1>2, <2>2 DEF CreateDone
      <3> QED BY <3>2, <3>3, <3>4
    <2> QED BY <2>1, <2>2
  <1>3. ASSUME NEW h \in Handles, motr_obj_open_pp(h) PROVE ExactInv'
    BY <1>3 DEF motr_obj_open_pp, objvars, history
  <1>4. ASSUME NEW h \in Handles, motr_obj_attrs_get_pp(h) PROVE ExactInv'
    BY <1>4 DEF motr_obj_attrs_get_pp, motr_obj_attrs_wire2mem, objvars, history
  <1>5. ASSUME NEW h \in Handles, mio_obj_lock(h) \/ mio_obj_unlock(h) PROVE ExactInv'
    BY <1>5 DEF mio_obj_lock, mio_obj_unlock, handlevars, history
  <1>6. ASSUME NEW h \in Handles, mio_obj_size(h) \/ mio_obj_readv(h) PROVE ExactInv'
    BY <1>6 DEF mio_obj_size, mio_obj_readv, CanUse, objvars, history
  <1>7. ASSUME NEW h \in Handles, NEW e \in 1..MaxSize, mio_obj_writev(h, e) PROVE ExactInv'
    BY <1>7 DEF mio_obj_writev, CanUse, objvars, Greater
  <1>8. ASSUME NEW h \in Handles, motr_obj_write_pp(h) PROVE ExactInv'
    <2>1. PICK e \in FreedEow(h) : motr_obj_write_pp(h)!2!(e)
      BY <1>8 DEF motr_obj_write_pp
    <2>2. e = eow[h]
      BY DEF FreedEow
    <2>3. CASE ~Extends(h, e)
      <3>1. ~faulty => written' = written
        <4>1. ASSUME ~faulty PROVE Greater(written[oid[h]], eow[h]) = written[oid[h]]
          <5>1. exists[oid[h]] /\ moa_size[h] = written[oid[h]]
            BY <1>8, <4>1 DEF motr_obj_write_pp
          <5>2. ~(eow[h] > moa_size[h]) /\ eow[h] \in Nat /\ moa_size[h] \in Nat
            BY <2>2, <2>3 DEF Extends
          <5>3. Greater(moa_size[h], eow[h]) = moa_size[h]
            BY ONLY <5>2 DEF Greater
          <5> QED BY <5>1, <5>3
        <4>2. written' = [written EXCEPT ![oid[h]] = Greater(written[oid[h]], eow[h])]
          BY <2>1, <2>3 DEF WriteCompleted
        <4> QED BY <4>1, <4>2
      <3> QED BY <1>8, <2>1, <2>3, <3>1 DEF motr_obj_write_pp, objvars
    <2>4. CASE Extends(h, e)
      BY <1>8, <2>1, <2>2, <2>4 DEF motr_obj_write_pp, objvars, Extends
    <2> QED BY <2>3, <2>4
  <1>9. ASSUME NEW h \in Handles, WritePutDone(h) PROVE ExactInv'
    BY <1>9, SMTT(30) DEF WritePutDone, WriteCompleted, Greater
  <1>10. ASSUME NEW h \in Handles, NEW k \in Hints, mio_obj_hint_set(h, k) PROVE ExactInv'
    BY <1>10 DEF mio_obj_hint_set, CanUse, objvars, history
  <1>11. ASSUME NEW h \in Handles, HintPutDone(h) PROVE ExactInv'
    BY <1>11, SMTT(30) DEF HintPutDone
  <1>12. ASSUME NEW h \in Handles, mio_obj_close(h) PROVE ExactInv'
    BY <1>12 DEF mio_obj_close, objvars, history
  <1>13. ASSUME NEW h \in Handles, ClosePutDone(h) PROVE ExactInv'
    BY <1>13 DEF ClosePutDone, history
  <1>14. ASSUME NEW h \in Handles, StepFailed(h) PROVE ExactInv'
    <2>1. faulty'
      BY <1>14 DEF StepFailed
    <2> QED BY <2>1
  <1>15. ASSUME NEW o \in Oids, mio_obj_delete(o) PROVE ExactInv'
    BY <1>15 DEF mio_obj_delete, handlevars, history
  <1>16. ASSUME NEW o \in Oids, SettleDelete(o) PROVE ExactInv'
    <2>1. CASE motr_obj_delete_open_pp(o)
      BY <2>1 DEF motr_obj_delete_open_pp, handlevars, history
    <2>2. CASE motr_obj_delete_pp(o)
      BY <2>2 DEF motr_obj_delete_pp, handlevars, history
    <2>3. CASE AttrsDelDone(o)
      BY <2>3 DEF AttrsDelDone, handlevars
    <2>4. CASE DeleteFailed(o)
      <3>1. faulty'
        BY <2>4 DEF DeleteFailed
      <3> QED BY <3>1
    <2> QED BY <1>16, <2>1, <2>2, <2>3, <2>4 DEF SettleDelete
  <1>17. CASE Crash
    BY <1>17 DEF Crash
  <1>18. CASE UNCHANGED vars
    BY <1>18 DEF vars, objvars, handlevars, history
  <1> QED
    BY <1>1, <1>2, <1>3, <1>4, <1>5, <1>6, <1>7, <1>8, <1>9, <1>10, <1>11, <1>12, <1>13,
       <1>14, <1>15, <1>16, <1>17, <1>18
    DEF Next, Call, Settle, mio_obj_create, mio_obj_open

(* Without failures, every PUT of a handle that has set a hint carries all *)
(* the persistent hints of the handle.                                     *)
LEMMA NextStored == LifeInv /\ StoredInv /\ ExclusiveUse /\ [Next]_vars => StoredInv'
  <1> SUFFICES ASSUME LifeInv, StoredInv, ExclusiveUse, [Next]_vars PROVE StoredInv'
    OBVIOUS
  <1>a. \A n, m : motr_obj_attrs_mem2wire(n, m).hints = m
    BY DEF motr_obj_attrs_mem2wire
  <1> USE <1>a DEF LifeInv, StoredInv, ExclusiveUse, ObjTypeOK, HandleLife, ObjLife, Open, Putting
  <1>1. ASSUME NEW h \in Handles, NEW o \in Oids, NEW s \in {"create", "open"}, obj_init(h, o, s) PROVE StoredInv'
    BY <1>1 DEF obj_init, objvars, history
  <1>2. ASSUME NEW h \in Handles, CreateDone(h) PROVE StoredInv'
    BY <1>2 DEF CreateDone, history
  <1>3. ASSUME NEW h \in Handles, motr_obj_open_pp(h) PROVE StoredInv'
    BY <1>3 DEF motr_obj_open_pp, objvars, history
  <1>4. ASSUME NEW h \in Handles, motr_obj_attrs_get_pp(h) PROVE StoredInv'
    BY <1>4 DEF motr_obj_attrs_get_pp, motr_obj_attrs_wire2mem, objvars, history
  <1>5. ASSUME NEW h \in Handles, mio_obj_lock(h) \/ mio_obj_unlock(h) PROVE StoredInv'
    BY <1>5 DEF mio_obj_lock, mio_obj_unlock, handlevars, history
  <1>6. ASSUME NEW h \in Handles, mio_obj_size(h) \/ mio_obj_readv(h) PROVE StoredInv'
    BY <1>6 DEF mio_obj_size, mio_obj_readv, CanUse, objvars, history
  <1>7. ASSUME NEW h \in Handles, NEW e \in 1..MaxSize, mio_obj_writev(h, e) PROVE StoredInv'
    BY <1>7 DEF mio_obj_writev, CanUse, objvars
  <1>8. ASSUME NEW h \in Handles, motr_obj_write_pp(h) PROVE StoredInv'
    BY <1>8 DEF motr_obj_write_pp, objvars
  <1>9. ASSUME NEW h \in Handles, WritePutDone(h) PROVE StoredInv'
    BY <1>9 DEF WritePutDone
  <1>10. ASSUME NEW h \in Handles, NEW k \in Hints, mio_obj_hint_set(h, k) PROVE StoredInv'
    BY <1>10 DEF mio_obj_hint_set, CanUse, objvars, history
  <1>11. ASSUME NEW h \in Handles, HintPutDone(h) PROVE StoredInv'
    BY <1>11 DEF HintPutDone
  <1>12. ASSUME NEW h \in Handles, mio_obj_close(h) PROVE StoredInv'
    BY <1>12 DEF mio_obj_close, objvars, history
  <1>13. ASSUME NEW h \in Handles, ClosePutDone(h) PROVE StoredInv'
    BY <1>13 DEF ClosePutDone, history
  <1>14. ASSUME NEW h \in Handles, StepFailed(h) PROVE StoredInv'
    <2>1. faulty'
      BY <1>14 DEF StepFailed
    <2> QED BY <2>1
  <1>15. ASSUME NEW o \in Oids, mio_obj_delete(o) PROVE StoredInv'
    BY <1>15 DEF mio_obj_delete, handlevars, history
  <1>16. ASSUME NEW o \in Oids, SettleDelete(o) PROVE StoredInv'
    <2>1. CASE motr_obj_delete_open_pp(o)
      BY <2>1 DEF motr_obj_delete_open_pp, handlevars, history
    <2>2. CASE motr_obj_delete_pp(o)
      BY <2>2 DEF motr_obj_delete_pp, handlevars, history
    <2>3. CASE AttrsDelDone(o)
      BY <2>3 DEF AttrsDelDone, handlevars
    <2>4. CASE DeleteFailed(o)
      <3>1. faulty'
        BY <2>4 DEF DeleteFailed
      <3> QED BY <3>1
    <2> QED BY <1>16, <2>1, <2>2, <2>3, <2>4 DEF SettleDelete
  <1>17. CASE Crash
    BY <1>17 DEF Crash
  <1>18. CASE UNCHANGED vars
    BY <1>18 DEF vars, objvars, handlevars, history
  <1> QED
    BY <1>1, <1>2, <1>3, <1>4, <1>5, <1>6, <1>7, <1>8, <1>9, <1>10, <1>11, <1>12, <1>13,
       <1>14, <1>15, <1>16, <1>17, <1>18
    DEF Next, Call, Settle, mio_obj_create, mio_obj_open

(***************************************************************************)
(* The theorems.                                                           *)
(***************************************************************************)
(* Every variable of a handle, of the index and of an object keeps its     *)
(* type in every step, with any number of handles on an object.            *)
THEOREM ObjTypeCorrect == Spec => []ObjTypeOK
  BY InitType, NextType, PTL DEF Spec

(* Objects, their records and the steps of handles and deletes belong      *)
(* together, with any number of handles on an object.                      *)
THEOREM LifeAlways == Spec => []LifeInv
  BY InitLife, NextLife, PTL DEF Spec

(* mio_obj_delete leaves no attributes behind, with any number of handles  *)
(* that come and go, unless it ended between DELETE and DEL.               *)
THEOREM DeleteLeavesNothing == Spec => []NoOrphans
  <1>1. LifeInv => NoOrphans
    BY DEF LifeInv, NoOrphans, ObjLife
  <1> QED BY <1>1, LifeAlways, PTL

(* The size of an object, in the index and in every handle, is never that  *)
(* of a deleted object of the same identifier, with any number of handles  *)
(* on the object, if rwa_max_eow still holds what was stored when it is    *)
(* read after it was freed.                                                *)
THEOREM SizeIsItsOwn ==
    ASSUME ~ArgsReused
    PROVE  Spec => []NoForeignSize
  <1>1. Init => TriedInv
    BY DEF Init, TriedInv, Open
  <1>2. LifeInv /\ TriedInv /\ [Next]_vars => TriedInv'
    BY NextTried
  <1>3. ASSUME LifeInv, TriedInv PROVE NoForeignSize
    <2> SUFFICES ASSUME NEW o \in Oids, exists[o], ~orphan[o]
                 PROVE  /\ deleting[o] = "none" => index[o].size <= tried[o]
                        /\ \A h \in UsedBy(o) : step[h] # "create" => moa_size[h] <= tried[o]
      BY DEF NoForeignSize
    <2>1. index[o].size <= tried[o]
      BY <1>3 DEF TriedInv
    <2>2. ASSUME NEW h \in UsedBy(o), step[h] # "create" PROVE moa_size[h] <= tried[o]
      <3>1. h \in Handles /\ step[h] # "free" /\ oid[h] = o
        BY <2>2 DEF UsedBy
      <3>2. CASE Open(h)
        BY <1>3, <3>1, <3>2 DEF TriedInv
      <3>3. CASE ~Open(h)
        <4>1. moa_size[h] = 0
          BY <1>3, <2>2, <3>1, <3>3 DEF LifeInv, HandleLife, Open
        <4>2. tried[o] \in Nat
          BY <1>3 DEF LifeInv, ObjTypeOK
        <4> QED BY <4>1, <4>2
      <3> QED BY <3>2, <3>3
    <2> QED BY <2>1, <2>2
  <1> QED BY <1>1, <1>2, <1>3, LifeAlways, PTL DEF Spec

(* With one handle at a time on an object its stored size only grows,      *)
(* whatever fails and wherever the process crashes, also if the memory of  *)
(* rwa_max_eow is reused before it is read.                                *)
THEOREM StoredSizeGrows == Spec /\ []ExclusiveUse => SizeGrows
  <1>1. Init => AheadInv
    BY DEF Init, AheadInv, Open
  <1>2. ASSUME LifeInv, AheadInv, [Next]_vars
        PROVE  [\A o \in Oids : (exists[o] /\ exists'[o] /\ ~orphan[o]) =>
                   index'[o].size >= index[o].size]_vars
    <2> SUFFICES ASSUME NEW o \in Oids, exists[o], exists'[o], ~orphan[o]
                 PROVE  index'[o].size >= index[o].size
      OBVIOUS
    <2>1. index[o].size \in Nat /\ \A h \in Handles : moa_size[h] \in Nat /\ oid[h] \in Oids
      BY <1>2 DEF LifeInv, ObjTypeOK, Attrs
    <2>2. ASSUME NEW h \in Handles, HintSteps(h) PROVE index'[o].size >= index[o].size
      <3>1. CASE Putting(h) /\ index' = [index EXCEPT ![oid[h]] = wire[h]]
        <4>1. Open(h) /\ wire[h].size = moa_size[h]
          <5>1. Open(h)
            BY <3>1 DEF Open, Putting
          <5>2. wire[h] = motr_obj_attrs_mem2wire(moa_size[h], moa_phints[h])
            BY <1>2, <3>1 DEF LifeInv, HandleLife
          <5> QED BY <5>1, <5>2 DEF motr_obj_attrs_mem2wire
        <4>2. CASE oid[h] = o
          BY <1>2, <2>1, <3>1, <4>1, <4>2 DEF AheadInv, LifeInv, ObjTypeOK
        <4>3. CASE oid[h] # o
          BY <1>2, <2>1, <3>1, <4>3 DEF LifeInv, ObjTypeOK
        <4> QED BY <4>2, <4>3
      <3>2. CASE index' = index
        BY <2>1, <3>2
      <3> QED
        BY <2>2, <3>1, <3>2
        DEF HintSteps, WritePutDone, HintPutDone, ClosePutDone, Putting, mio_obj_create,
            mio_obj_open, obj_init, motr_obj_write_pp, mio_obj_close, mio_obj_hint_set, objvars
    <2>3. ASSUME NEW p \in Oids, AttrsDelDone(p) PROVE index'[o].size >= index[o].size
      <3>1. p # o
        BY <1>2, <2>3 DEF AttrsDelDone, LifeInv, ObjLife
      <3> QED BY <1>2, <2>1, <2>3, <3>1 DEF AttrsDelDone, LifeInv, ObjTypeOK
    <2>4. CASE index' = index
      BY <2>1, <2>4
    <2> QED BY <1>2, <2>2, <2>3, <2>4, OtherSteps
  <1> QED BY <1>1, <1>2, NextAhead, LifeAlways, PTL DEF Spec, SizeGrows

(* "any object WRITE has to update the size": with one handle at a time on *)
(* an object and no failure, the size in the index is the furthest end of  *)
(* the writes that completed, whenever nothing is going on with the object *)
(* (and, as ExactInv says, at every other moment).                         *)
THEOREM SizeIsStored ==
    ASSUME ~ArgsReused
    PROVE  Spec /\ []ExclusiveUse => []SizeOfWrites
  <1>1. Init => ExactInv
    BY DEF Init, ExactInv, Open
  <1>2. LifeInv /\ ExactInv /\ ExclusiveUse /\ [Next]_vars => ExactInv'
    BY NextExact
  <1>3. ExactInv => SizeOfWrites
    BY DEF ExactInv, SizeOfWrites
  <1> QED BY <1>1, <1>2, <1>3, LifeAlways, PTL DEF Spec

(* With one handle at a time on an object and no failure, the persistent   *)
(* hints that a session has set stay in the index until it is closed.      *)
THEOREM HintsAreStored == Spec /\ []ExclusiveUse => []SessionHintsStored
  <1>1. Init => StoredInv
    BY DEF Init, StoredInv, Open
  <1>2. StoredInv => SessionHintsStored
    BY DEF StoredInv, SessionHintsStored, Open
  <1> QED BY <1>1, <1>2, NextStored, LifeAlways, PTL DEF Spec

(* All of this together is the invariant that the run of one session       *)
(* checks, for any number of handles and objects in exclusive use.         *)
THEOREM ObjInvariant ==
    ASSUME ~ArgsReused
    PROVE  Spec /\ []ExclusiveUse => []ObjInv
  <1>1. Init => LocalInv /\ TriedInv /\ AheadInv /\ ExactInv /\ StoredInv
    BY DEF Init, LocalInv, SessionHintsLocal, TriedInv, AheadInv, ExactInv, StoredInv, Open,
           NoHints, NoAttrs
  <1>2. LifeInv /\ TriedInv /\ [Next]_vars => TriedInv'
    BY NextTried
  <1>3. LifeInv /\ ExactInv /\ ExclusiveUse /\ [Next]_vars => ExactInv'
    BY NextExact
  <1>4. LifeInv /\ LocalInv /\ TriedInv /\ AheadInv /\ ExactInv /\ StoredInv => ObjInv
    BY DEF ObjInv
  <1>5. LifeInv => ObjTypeOK
    BY DEF LifeInv
  <1> QED
    BY <1>1, <1>2, <1>3, <1>4, <1>5, LifeAlways, NextLocal, NextAhead, NextStored, PTL DEF Spec
=============================================================================
