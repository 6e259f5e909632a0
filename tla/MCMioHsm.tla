------------------------------ MODULE MCMioHsm ------------------------------
(* An instance of MioHsm: two and four pools, with and without a default.  *)
(* The assumptions compare hint maps and the block sizes of pools with     *)
(* what they stand for, over small inputs.                                 *)
EXTENDS MioHsm

MCPoolConfs == {[nr |-> 2, default |-> 0], [nr |-> 4, default |-> -1]}

------------------------------------------------------------------------------
SomeKeys  == {"LIFETIME", "WHERE", "other"}
SomePairs == [key : SomeKeys, value : 0..1]
SomeMaps  == {map \in [room : 0..3, pairs : UNION {[1..n -> SomePairs] : n \in 0..2}] :
                 /\ Len(map.pairs) <= map.room
                 /\ Cardinality(Keys(map)) = Len(map.pairs)}

(* A map as a function of its keys.                                        *)
AsFunction(map) == [k \in Keys(map) |-> mio_hint_map_get(map, k).value]

(* mio_hint_map_set, mio_hint_map_copy and obj_hint_store are updates and  *)
(* restrictions of these functions, as long as there is room.              *)
ASSUME HintMapsAreFunctions == \A to, from \in SomeMaps :
    LET copy == mio_hint_map_copy(to, from)
        keys == Keys(to) \cup Keys(from)
        room == IF to.room = 0 THEN from.room ELSE to.room
    IN  /\ copy.rc = "ok" <=> Cardinality(keys) <= room
        /\ copy.rc = "ok" =>
             /\ Cardinality(keys) = Len(copy.map.pairs)
             /\ AsFunction(copy.map) = [k \in keys |-> IF k \in Keys(from) THEN AsFunction(from)[k]
                                                                           ELSE AsFunction(to)[k]]
        /\ AsFunction(obj_hint_store(to)) = [k \in Keys(to) \cap {"LIFETIME"} |-> AsFunction(to)[k]]
        /\ \A k \in SomeKeys : LET set == mio_hint_map_set(to, k, 1) IN
             /\ set.rc = "ok" <=> Cardinality(Keys(to) \cup {k}) <= to.room
             /\ set.rc = "ok" => AsFunction(set.map) =
                  [j \in Keys(to) \cup {k} |-> IF j = k THEN 1 ELSE AsFunction(to)[j]]

(* The block sizes of every pool that is wide enough for its layout: at    *)
(* least one, as many as the table holds at most, whole stripes, and all   *)
(* within the twofold width of the pool.  A unit of less than 16 bytes     *)
(* would be too many; "the unit size returned is power of 2", and Motr has *)
(* none below 4096.                                                        *)
ASSUME BlockSizesFit ==
    \A unit \in {16, 64}, N \in 1..6, K \in 0..3 : \A P \in N + 2 * K..30 :
        LET sizes == mio_motr_pool_get(unit, N, K, P)
        IN  /\ Len(sizes) \in 1..MIO_POOL_MAX_NR_OPT_BLKSIZES
            /\ \A i \in DOMAIN sizes : /\ sizes[i] % (unit * N) = 0
                                       /\ sizes[i] * (N + 2 * K) <= 2 * unit * P * N + (N + 2 * K)
==============================================================================
