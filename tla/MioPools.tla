------------------------------ MODULE MioPools ------------------------------
(***************************************************************************)
(* The choice of the pool of a new object (mio.c), among configured pools  *)
(* that are numbered from the fastest to the slowest, and the tier that    *)
(* the hotness of an object stands for (hints.c).                          *)
(***************************************************************************)
EXTENDS MioHints

CONSTANT PoolConfs      (* configurations: [nr, default], default -1: not set *)

ASSUME PoolsAssumption == \A c \in PoolConfs : c.nr \in Nat /\ c.default \in -1..c.nr - 1

NullPool == -1          (* no pool id: Motr takes a pool of its own choice  *)
Killed   == -2          (* an assert fails, or a division by 0              *)

MIO_DEFAULT_COLD_OBJ_THLD == 16
MIO_DEFAULT_HOT_OBJ_THLD  == 128

Thld(sys, key, otherwise) ==
    LET hint == mio_hint_map_get(sys, key) IN IF hint.rc = "ok" THEN hint.value ELSE otherwise

HotThld(sys)  == Thld(sys, "HOT_OBJ_THRESHOLD", MIO_DEFAULT_HOT_OBJ_THLD)
ColdThld(sys) == Thld(sys, "COLD_OBJ_THRESHOLD", MIO_DEFAULT_COLD_OBJ_THLD)

(* Variant: the tiers between the thresholds are one too many.             *)
WarmOff(nr, hot, cold, hotness) ==
    IF nr <= 2 THEN nr - 1
    ELSE LET warm_interv == (hot - cold) \div (nr - 1)
         IN  IF warm_interv = 0 THEN Killed ELSE nr - 2 - (hotness - cold) \div warm_interv

(* The pool of a hotness between the thresholds.                           *)
WarmPool(nr, hot, cold, hotness) ==
    IF nr <= 2 THEN nr - 1
    ELSE LET warm_interv == (hot - cold) \div (nr - 2)
         IN  IF warm_interv = 0 THEN Killed ELSE nr - 2 - (hotness - cold) \div warm_interv

mio_obj_hotness_to_pool_idx(sys, nr, hotness) ==
    LET hot == HotThld(sys)  cold == ColdThld(sys) IN
    IF nr < 1 THEN Killed
    ELSE IF hotness > hot THEN 0
    ELSE IF hotness < cold THEN nr - 1
    ELSE LET warm == WarmPool(nr, hot, cold, hotness)
         IN  IF warm \in 0..nr - 1 THEN warm ELSE Killed

(* Gold, silver and bronze: the first three pools, as far as there are.    *)
obj_pool_select_by_perf_hint(nr, value) ==
    LET silver == IF nr > 1 THEN 1 ELSE 0
        bronze == IF nr > 2 THEN 2 ELSE silver
    IN  CASE value = "GOLD"   -> 0
          [] value = "SILVER" -> silver
          [] value = "BRONZE" -> bronze
          [] OTHER            -> NullPool

obj_pool_select(sys, nr, hints) ==
    IF nr <= 0 THEN NullPool
    ELSE IF mio_hint_is_set(hints, "WHERE")
      THEN obj_pool_select_by_perf_hint(nr, mio_hint_map_get(hints, "WHERE").value)
    ELSE IF mio_hint_is_set(hints, "HOT_INDEX")
      THEN mio_obj_hotness_to_pool_idx(sys, nr, mio_hint_map_get(hints, "HOT_INDEX").value)
      ELSE NullPool

(* The pool mio_obj_create passes to the driver: the caller's, or the one  *)
(* the hints select, or the default of the configuration.                  *)
SelectedPool(sys, c, pool_id, hints) ==
    LET selected == obj_pool_select(sys, c.nr, hints) IN
    IF pool_id # NullPool THEN pool_id
    ELSE IF selected # NullPool THEN selected
    ELSE c.default
(***************************************************************************)
(* mio_motr_pool_get: the block sizes recommended for a pool of N data, K  *)
(* parity and P devices, multiples of a step that are less than the most   *)
(* that Motr takes.  A division that is rounded up is a multiple of a      *)
(* group, the data of one stripe.                                          *)
(***************************************************************************)
MIO_POOL_MAX_NR_OPT_BLKSIZES == 16

RoundUp(n, m) == ((n + m - 1) \div m) * m

mio_motr_pool_get(unit, N, K, P) ==
    LET grp  == unit * N
        max  == RoundUp((unit * 2 * P * N) \div (N + 2 * K), grp)
        nr   == IF max \div grp > MIO_POOL_MAX_NR_OPT_BLKSIZES
                  THEN MIO_POOL_MAX_NR_OPT_BLKSIZES ELSE max \div grp
        incr == RoundUp(max \div nr, grp)
    IN  [i \in 1..(max - 1) \div incr |-> i * incr]

------------------------------------------------------------------------------
(* The pools between the extremes share the thresholds' interval evenly;   *)
(* otherwise the integer division may run past the first pool or be by 0   *)
(* (see README.md).                                                        *)
Even(sys, nr) ==
    LET d == HotThld(sys) - ColdThld(sys)
    IN  nr <= 2 \/ d < 0 \/ (d > 0 /\ d % (nr - 2) = 0)

(* mio_obj_hotness_to_pool_idx for every threshold that was set: an object *)
(* is given one of the pools, a hotter one never a slower pool, and of     *)
(* three or more pools none is left without objects.                       *)
TiersOrdered(sys, nr) ==
    LET idx == [h \in 0..HotThld(sys) + 1 |-> mio_obj_hotness_to_pool_idx(sys, nr, h)]
    IN  /\ \A h \in DOMAIN idx : /\ idx[h] \in 0..nr - 1
                                 /\ h > 0 => idx[h] <= idx[h - 1]
        /\ idx[HotThld(sys) + 1] = 0
        /\ (nr > 2 /\ 0 < ColdThld(sys) /\ ColdThld(sys) <= HotThld(sys)) =>
              \A p \in 0..nr - 1 : \E h \in DOMAIN idx : idx[h] = p
==============================================================================
