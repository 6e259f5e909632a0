------------------------------ MODULE MioHints ------------------------------
(***************************************************************************)
(* The hint maps of hints.c: a table of key-value pairs with room for a    *)
(* fixed number of them, in the order they were first set.                 *)
(***************************************************************************)
EXTENDS Integers, Sequences

CONSTANT HintRoom       (* MIO_OBJ_HINT_NUM                                 *)

ASSUME HintsAssumption == HintRoom \in Nat \ {0}

(* obj_hint_table and sys_hint_table.  A key that is in none has no type.  *)
obj_hint_table == [LIFETIME |-> "PERSISTENT", WHERE |-> "SESSION", HOT_INDEX |-> "PERSISTENT"]
sys_hint_table == [HOT_OBJ_THRESHOLD |-> "SESSION", COLD_OBJ_THRESHOLD |-> "SESSION"]

mio_hint_type(table, key) == IF key \in DOMAIN table THEN table[key] ELSE "EINVAL"

(* A map: mhm_nr_entries, and the mhm_nr_set pairs of mhm_keys, mhm_values. *)
NoMap == [room |-> 0, pairs |-> <<>>]          (* mio_hint_map_fini           *)
mio_hint_map_init(n) == [room |-> n, pairs |-> <<>>]
mio_hints_init == mio_hint_map_init(HintRoom)

Keys(map) == {map.pairs[i].key : i \in DOMAIN map.pairs}

(* A key that is there gets a new value; another one needs room.           *)
mio_hint_map_set(map, key, value) ==
    LET pair == [key |-> key, value |-> value] IN
    IF key \in Keys(map)
      THEN [rc |-> "ok", map |-> [map EXCEPT !.pairs =
              [i \in DOMAIN @ |-> IF @[i].key = key THEN pair ELSE @[i]]]]
    ELSE IF Len(map.pairs) = map.room
      THEN [rc |-> "EINVAL", map |-> map]
      ELSE [rc |-> "ok", map |-> [map EXCEPT !.pairs = Append(@, pair)]]

mio_hint_map_get(map, key) ==
    IF key \in Keys(map)
      THEN [rc |-> "ok", value |-> (CHOOSE p \in {map.pairs[i] : i \in DOMAIN map.pairs} :
                                      p.key = key).value]
      ELSE [rc |-> "ENOENT", value |-> 0]

(* All of `from', or nothing if the keys new to `to' do not fit.  A map    *)
(* that was never initialised gets the room of `from'.                     *)
mio_hint_map_copy(to, from) ==
    LET fresh == SelectSeq(from.pairs, LAMBDA p : p.key \notin Keys(to))
        base  == IF to.room = 0 THEN mio_hint_map_init(from.room) ELSE to
        kept  == [i \in DOMAIN base.pairs |->
                    IF base.pairs[i].key \in Keys(from)
                      THEN [base.pairs[i] EXCEPT !.value = mio_hint_map_get(from, base.pairs[i].key).value]
                      ELSE base.pairs[i]]
    IN  IF Len(base.pairs) + Len(fresh) > base.room
          THEN [rc |-> "E2BIG", map |-> base]
          ELSE [rc |-> "ok", map |-> [base EXCEPT !.pairs = kept \o fresh]]

(* A hint of value MIO_HINT_VALUE_NULL, which is 0, counts as not set.     *)
mio_hint_is_set(map, key) ==
    LET hint == mio_hint_map_get(map, key) IN hint.rc = "ok" /\ hint.value # 0

(* obj_hint_store: the pairs of the persistent hints, in their order.      *)
obj_hint_store(map) ==
    [mio_hints_init EXCEPT !.pairs =
        SelectSeq(map.pairs, LAMBDA p : mio_hint_type(obj_hint_table, p.key) = "PERSISTENT")]

(* obj_hot_index_cal, for mio_obj_hint_get of the one dynamic hint: the    *)
(* value is the number of reads and writes when it is asked for.           *)
obj_hot_index_cal(map, accesses) == mio_hint_map_set(map, "HOT_INDEX", accesses)
==============================================================================
