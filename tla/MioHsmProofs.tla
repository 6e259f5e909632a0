---------------------------- MODULE MioHsmProofs ----------------------------
(***************************************************************************)
(* Theorems about MioHsm: hotter objects are in faster pools, and what the *)
(* shell has stored in an object survives its moves.                       *)
(***************************************************************************)
EXTENDS MioHsm, SequenceTheorems, TLAPS

ShPlaces == {"down", "prompt", "create", "cleanup", "write", "read", "workload", "move",
             "copy_out", "unlink", "copy_back", "unlink_tmp", "moved"}

ObjType  == [there : BOOLEAN, pool : Int, rec : BOOLEAN, data : Seq(Nat), count : Nat]
MapType  == [room : Nat, pairs : Seq([key : DOMAIN sys_hint_table, value : Nat])]
ShType   == [at : ShPlaces, i : Objs, end : 0..NrObjs, blocks : Nat, hot : Nat,
             before : Seq(Nat), clean : BOOLEAN]

HsmType == /\ pools \in PoolConfs
           /\ store \in [Objs \cup {Tmp} -> ObjType]
           /\ sys_hints \in MapType
           /\ sh \in ShType
           /\ cmds \in Nat
           /\ full \in [Objs -> Nat]

(* Only an object has data, and then there is a record of its size.        *)
Recorded == \A o \in Objs \cup {Tmp} :
    store[o].data # <<>> => store[o].there /\ store[o].rec

(* All that was stored in o is in o, or in the temporary object.           *)
InPlace(o) == full[o] > 0 => Whole(o, store[o])
InTmp(o)   == full[o] > 0 => Whole(o, store[Tmp])

TierIs(hot) == mio_obj_hotness_to_pool_idx(sys_hints, pools.nr, hot)

Moving == {"copy_out", "unlink", "copy_back", "unlink_tmp", "moved"}

(* What is where, step by step of a move.                                  *)
MoveInv ==
    /\ sh.at \in Moving => TierIs(sh.hot) # Killed
    /\ sh.at = "copy_out" =>
          (sh.clean => ~store[Tmp].there) /\ sh.before = store[sh.i].data
    /\ sh.at \in {"unlink", "copy_back", "unlink_tmp", "moved"} =>
          \A o \in Objs \ {sh.i} : InPlace(o)
    /\ sh.at \in {"unlink", "copy_back"} =>
          InTmp(sh.i) /\ (sh.clean => store[Tmp].data = sh.before)
    /\ sh.at = "copy_back" => store[sh.i] = NoObj
    /\ sh.at \in {"unlink_tmp", "moved"} =>
          /\ InPlace(sh.i) /\ (sh.clean => store[sh.i].data = sh.before)
          /\ sh.hot > 0 => store[sh.i].pool = TierIs(sh.hot)
    /\ sh.at = "moved" => ~store[Tmp].there

HsmInv == HsmType /\ Recorded /\ MoveKeepsData /\ MoveInv


(***************************************************************************)
(* The tiers.                                                              *)
(***************************************************************************)
(* What integer division is.                                               *)
LEMMA Division ==
    ASSUME NEW x \in Nat, NEW w \in Nat, w >= 1
    PROVE  /\ x \div w \in Nat /\ x % w \in 0..w - 1
           /\ x = w * (x \div w) + (x % w)
  <1> DEFINE q == x \div w
             r == x % w
  <1>1. q \in Int /\ x = w * q + r /\ r \in 0..w - 1
    OBVIOUS
  <1> HIDE DEF q, r
  <1>2. q >= 0
    <2> SUFFICES ASSUME q <= -1 PROVE FALSE
      BY <1>1
    <2>1. w * q <= -w
      BY <1>1
    <2> QED BY <1>1, <2>1
  <1>3. q \in Nat /\ x = w * q + r /\ r \in 0..w - 1
    BY <1>1, <1>2
  <1> QED BY <1>3 DEF q, r

(* A quotient is known by its bounds.                                      *)
LEMMA Quotient ==
    ASSUME NEW x \in Nat, NEW w \in Nat, w >= 1, NEW k \in Nat
    PROVE  /\ x >= w * k => x \div w >= k
           /\ x <= w * k => x \div w <= k
           /\ x = w * k => x \div w = k
  <1> DEFINE q == x \div w
             r == x % w
  <1>1. q \in Nat /\ r \in 0..w - 1 /\ x = w * q + r
    BY Division
  <1> HIDE DEF q, r
  <1>2. ASSUME x >= w * k, q < k PROVE FALSE
    <2>1. w * q + w <= w * k
      <3>1. k - q \in Nat /\ k - q >= 1 /\ k = q + (k - q)
        BY <1>1, <1>2
      <3>2. w * (k - q) >= w
        BY <3>1
      <3>3. w * k = w * q + w * (k - q)
        BY <1>1, <3>1
      <3> QED BY <1>1, <3>1, <3>2, <3>3
    <2> QED BY <1>1, <1>2, <2>1
  <1>3. ASSUME x <= w * k, q > k PROVE FALSE
    <2>1. w * k + w <= w * q
      <3>1. q - k \in Nat /\ q - k >= 1 /\ q = k + (q - k)
        BY <1>1, <1>3
      <3>2. w * (q - k) >= w
        BY <3>1
      <3>3. w * q = w * k + w * (q - k)
        BY <1>1, <3>1
      <3> QED BY <1>1, <3>1, <3>2, <3>3
    <2> QED BY <1>1, <1>3, <2>1
  <1>4. q >= k \/ ~(x >= w * k)
    BY <1>1, <1>2
  <1>5. q <= k \/ ~(x <= w * k)
    BY <1>1, <1>3
  <1>6. w * k \in Nat
    OBVIOUS
  <1> QED BY <1>1, <1>4, <1>5, <1>6 DEF q

(* A larger number has no smaller quotient.                                *)
LEMMA QuotientGrows ==
    ASSUME NEW x \in Nat, NEW y \in Nat, x <= y, NEW w \in Nat, w >= 1
    PROVE  x \div w <= y \div w
  <1>1. x \div w \in Nat /\ x >= w * (x \div w)
    BY Division
  <1>2. y >= w * (x \div w) /\ w * (x \div w) \in Nat
    BY <1>1
  <1> QED BY <1>1, <1>2, Quotient


(* A pair of a map has a value, and what is not in it the default.         *)
LEMMA ThldType ==
    ASSUME NEW sys \in MapType
    PROVE  HotThld(sys) \in Nat /\ ColdThld(sys) \in Nat
  <1>1. ASSUME NEW key, NEW n \in Nat PROVE Thld(sys, key, n) \in Nat
    <2> DEFINE ps == {sys.pairs[i] : i \in DOMAIN sys.pairs}
    <2>1. \A p \in ps : p.value \in Nat
      <3>1. sys.pairs \in Seq([key : DOMAIN sys_hint_table, value : Nat])
        BY DEF MapType
      <3> DEFINE s == sys.pairs
                 P == [key : DOMAIN sys_hint_table, value : Nat]
      <3>2. \A p \in P : p.value \in Nat
        OBVIOUS
      <3>3. s \in Seq(P)
        BY <3>1
      <3> HIDE DEF s, P
      <3>4. \A i \in DOMAIN s : s[i] \in P
        BY <3>3
      <3> QED BY <3>2, <3>4 DEF s
    <2>2. CASE key \in Keys(sys)
      <3>1. PICK i \in DOMAIN sys.pairs : sys.pairs[i].key = key
        BY <2>2 DEF Keys
      <3>2. \E p \in ps : p.key = key
        BY <3>1
      <3>3. (CHOOSE p \in ps : p.key = key) \in ps
        BY <3>2
      <3>4. mio_hint_map_get(sys, key).value \in Nat
        BY <2>1, <2>2, <3>3 DEF mio_hint_map_get
      <3> QED BY <1>1, <3>4 DEF Thld
    <2>3. CASE key \notin Keys(sys)
      BY <1>1, <2>3 DEF Thld, mio_hint_map_get
    <2> QED BY <2>2, <2>3
  <1> QED BY <1>1 DEF HotThld, ColdThld, MIO_DEFAULT_HOT_OBJ_THLD, MIO_DEFAULT_COLD_OBJ_THLD

(* mio_obj_hotness_to_pool_idx where the pools divide the distance of the  *)
(* thresholds: w is the width of a tier between the extremes.              *)
LEMMA Tiers ==
    ASSUME NEW sys \in MapType, NEW nr \in Nat, nr >= 1, Even(sys, nr),
           NEW hot, hot = HotThld(sys), NEW cold, cold = ColdThld(sys),
           NEW w, w = (hot - cold) \div (nr - 2)
    PROVE  /\ hot \in Nat /\ cold \in Nat
           /\ (nr > 2 /\ hot >= cold) => w \in Nat /\ w >= 1 /\ hot - cold = w * (nr - 2)
           /\ \A h \in Nat :
                 /\ h > hot => mio_obj_hotness_to_pool_idx(sys, nr, h) = 0
                 /\ (h <= hot /\ (h < cold \/ nr <= 2)) =>
                       mio_obj_hotness_to_pool_idx(sys, nr, h) = nr - 1
                 /\ (h <= hot /\ h >= cold /\ nr > 2) =>
                       /\ (h - cold) \div w \in 0..nr - 2
                       /\ mio_obj_hotness_to_pool_idx(sys, nr, h) = nr - 2 - ((h - cold) \div w)
  <1>1. hot \in Nat /\ cold \in Nat
    BY ThldType
  <1>2. ASSUME nr > 2, hot >= cold
        PROVE  w \in Nat /\ w >= 1 /\ hot - cold = w * (nr - 2)
    <2> DEFINE d == hot - cold
               n == nr - 2
    <2>1. d \in Nat /\ n \in Nat /\ n >= 1 /\ d > 0 /\ d % n = 0
      <3>1. nr <= 2 \/ hot - cold < 0 \/ (hot - cold > 0 /\ (hot - cold) % (nr - 2) = 0)
        BY DEF Even
      <3> QED BY <1>1, <1>2, <3>1
    <2> HIDE DEF d, n
    <2>2. w = d \div n
      BY DEF d, n
    <2>3. w \in Nat /\ d = n * w
      <3>1. d \div n \in Nat /\ d = n * (d \div n) + (d % n)
        BY <2>1, Division
      <3> QED BY <2>1, <2>2, <3>1
    <2>4. w >= 1
      BY <2>1, <2>3
    <2> QED BY <2>1, <2>3, <2>4 DEF d, n
  <1>3. ASSUME NEW h \in Nat, h <= hot, h >= cold, nr > 2
        PROVE  /\ (h - cold) \div w \in 0..nr - 2
               /\ WarmPool(nr, hot, cold, h) = nr - 2 - ((h - cold) \div w)
    <2>1. w \in Nat /\ w >= 1 /\ hot - cold = w * (nr - 2)
      BY <1>1, <1>2, <1>3
    <2>2. h - cold \in Nat /\ nr - 2 \in Nat /\ h - cold <= w * (nr - 2)
      BY <1>1, <1>3, <2>1
    <2>3. (h - cold) \div w \in Nat /\ (h - cold) \div w <= nr - 2
      BY <2>1, <2>2, Division, Quotient
    <2>4. WarmPool(nr, hot, cold, h) = nr - 2 - ((h - cold) \div w)
      BY <1>3, <2>1 DEF WarmPool
    <2> QED BY <2>2, <2>3, <2>4
  <1>4. ASSUME NEW h \in Nat, h <= hot, h >= cold, nr <= 2
        PROVE  WarmPool(nr, hot, cold, h) = nr - 1
    BY <1>4 DEF WarmPool
  <1>5. \A h \in Nat : mio_obj_hotness_to_pool_idx(sys, nr, h) =
          IF h > hot THEN 0 ELSE IF h < cold THEN nr - 1
          ELSE IF WarmPool(nr, hot, cold, h) \in 0..nr - 1 THEN WarmPool(nr, hot, cold, h) ELSE Killed
    BY DEF mio_obj_hotness_to_pool_idx
  <1>6. ASSUME NEW h \in Nat, h <= hot, h >= cold, nr > 2
        PROVE  mio_obj_hotness_to_pool_idx(sys, nr, h) = nr - 2 - ((h - cold) \div w)
    <2> DEFINE q == (h - cold) \div w
    <2>1. q \in 0..nr - 2 /\ WarmPool(nr, hot, cold, h) = nr - 2 - q
      BY <1>3, <1>6
    <2> HIDE DEF q
    <2>2. nr - 2 - q \in 0..nr - 1
      BY <2>1
    <2>3. mio_obj_hotness_to_pool_idx(sys, nr, h) = nr - 2 - q
      BY <1>1, <1>5, <1>6, <2>1, <2>2
    <2> QED BY <2>3 DEF q
  <1>7. ASSUME NEW h \in Nat, h <= hot, h < cold \/ nr <= 2
        PROVE  mio_obj_hotness_to_pool_idx(sys, nr, h) = nr - 1
    <2>1. nr - 1 \in 0..nr - 1
      OBVIOUS
    <2> QED BY <1>1, <1>4, <1>5, <1>7, <2>1
  <1>8. ASSUME NEW h \in Nat, h > hot PROVE mio_obj_hotness_to_pool_idx(sys, nr, h) = 0
    BY <1>5, <1>8
  <1> QED BY <1>1, <1>2, <1>3, <1>6, <1>7, <1>8


(* Every hotness has a pool, a hotter one none that is slower, and no pool *)
(* is left over.                                                           *)
LEMMA AllTiers ==
    ASSUME NEW sys \in MapType, NEW nr \in Nat, nr >= 1, Even(sys, nr)
    PROVE  TiersOrdered(sys, nr)
  <1> DEFINE hot  == HotThld(sys)
             cold == ColdThld(sys)
             w    == (hot - cold) \div (nr - 2)
             Q(h) == (h - cold) \div w
             I(h) == mio_obj_hotness_to_pool_idx(sys, nr, h)
  <1>1. /\ hot \in Nat /\ cold \in Nat
        /\ (nr > 2 /\ hot >= cold) => w \in Nat /\ w >= 1 /\ hot - cold = w * (nr - 2)
        /\ \A h \in Nat : /\ h > hot => I(h) = 0
                          /\ (h <= hot /\ (h < cold \/ nr <= 2)) => I(h) = nr - 1
                          /\ (h <= hot /\ h >= cold /\ nr > 2) =>
                                Q(h) \in 0..nr - 2 /\ I(h) = nr - 2 - Q(h)
    BY Tiers
  <1>2. ASSUME NEW h \in Nat, NEW g \in Nat, g <= h, g >= cold, h <= hot, nr > 2
        PROVE  Q(g) <= Q(h)
    <2>1. g - cold \in Nat /\ h - cold \in Nat /\ g - cold <= h - cold /\ w \in Nat /\ w >= 1
      BY <1>1, <1>2
    <2> HIDE DEF w
    <2> QED BY <2>1, QuotientGrows
  <1>3. ASSUME NEW p \in 1..nr - 2, nr > 2, hot >= cold
        PROVE  \E h \in 0..hot : I(h) = p
    <2> DEFINE k == nr - 2 - p
               h == cold + w * k
    <2>1. w \in Nat /\ w >= 1 /\ hot - cold = w * (nr - 2) /\ k \in Nat /\ k <= nr - 2
      BY <1>1, <1>3
    <2> HIDE DEF w
    <2>2. w * k \in Nat /\ w * k <= w * (nr - 2)
      <3>1. k \in Nat /\ nr - 2 \in Nat /\ k <= nr - 2
        BY <1>3, <2>1
      <3> HIDE DEF k
      <3> QED BY <2>1, <3>1
    <2>3. h \in Nat /\ h >= cold /\ h <= hot /\ h - cold = w * k
      <3> DEFINE m == w * k
                 n == w * (nr - 2)
      <3>1. m \in Nat /\ m <= n /\ hot - cold = n /\ hot \in Nat /\ cold \in Nat
        BY <1>1, <2>1, <2>2
      <3> HIDE DEF m, n, hot, cold
      <3>2. cold + m \in Nat /\ cold + m >= cold /\ cold + m <= hot /\ (cold + m) - cold = m
        BY <3>1
      <3> QED BY <3>2 DEF m
    <2>4. Q(h) = k
      BY <2>1, <2>2, <2>3, Quotient
    <2> HIDE DEF h, Q, I
    <2>5. I(h) = p
      <3>1. I(h) = nr - 2 - Q(h)
        BY <1>1, <1>3, <2>3
      <3> QED BY <2>4, <3>1
    <2> QED BY <2>3, <2>5
  <1> HIDE DEF w, I, Q
  <1>4. ASSUME NEW h \in Nat PROVE I(h) \in 0..nr - 1
    BY <1>1, <1>4
  <1>5. ASSUME NEW h \in Nat, NEW g \in Nat, g <= h PROVE I(h) <= I(g)
    BY <1>1, <1>2, <1>4, <1>5
  <1>6. I(hot + 1) = 0
    BY <1>1
  <1>7. ASSUME nr > 2, 0 < cold, cold <= hot, NEW p \in 0..nr - 1
        PROVE  \E h \in 0..hot + 1 : I(h) = p
    <2>1. CASE p = 0
      <3>1. hot + 1 \in 0..hot + 1
        BY <1>1
      <3> QED BY <1>6, <2>1, <3>1
    <2>2. CASE p = nr - 1
      <3>1. 0 \in 0..hot + 1 /\ I(0) = p
        BY <1>1, <1>7, <2>2
      <3> QED BY <3>1
    <2>3. CASE p \in 1..nr - 2
      <3>1. PICK h \in 0..hot : I(h) = p
        BY <1>1, <1>3, <1>7, <2>3
      <3>2. h \in 0..hot + 1
        BY <1>1
      <3> QED BY <3>1, <3>2
    <2> QED BY <1>7, <2>1, <2>2, <2>3
  <1> DEFINE idx == [h \in 0..hot + 1 |-> I(h)]
  <1>8. \A h \in DOMAIN idx : idx[h] \in 0..nr - 1 /\ (h > 0 => idx[h] <= idx[h - 1])
    <2> SUFFICES ASSUME NEW h \in 0..hot + 1
                 PROVE  I(h) \in 0..nr - 1 /\ (h > 0 => h - 1 \in 0..hot + 1 /\ I(h) <= I(h - 1))
      OBVIOUS
    <2> QED BY <1>1, <1>4, <1>5
  <1>9. idx[hot + 1] = 0
    BY <1>1, <1>6
  <1>10. (nr > 2 /\ 0 < cold /\ cold <= hot) => \A p \in 0..nr - 1 : \E h \in DOMAIN idx : idx[h] = p
    BY <1>7
  <1> HIDE DEF hot, cold
  <1> QED BY <1>8, <1>9, <1>10 DEF TiersOrdered, I, hot, cold


(***************************************************************************)
(* Hint maps and new objects.                                              *)
(***************************************************************************)
(* A map with one hint has this one only.                                  *)
LEMMA OneHint ==
    ASSUME NEW hot \in Nat
    PROVE  /\ mio_hint_map_get(HotHint(hot), "HOT_INDEX") = [rc |-> "ok", value |-> hot]
           /\ mio_hint_map_get(HotHint(hot), "WHERE").rc = "ENOENT"
  <1> DEFINE pair == [key |-> "HOT_INDEX", value |-> hot]
  <1>1. HotHint(hot) = [room |-> HintRoom, pairs |-> <<pair>>]
    <2>1. mio_hints_init = [room |-> HintRoom, pairs |-> <<>>] /\ HintRoom # 0
      BY HintsAssumption DEF mio_hints_init, mio_hint_map_init
    <2>2. Keys(mio_hints_init) = {}
      BY <2>1 DEF Keys
    <2>3. mio_hint_map_set(mio_hints_init, "HOT_INDEX", hot).map =
            [mio_hints_init EXCEPT !.pairs = Append(mio_hints_init.pairs, pair)]
      BY <2>1, <2>2 DEF mio_hint_map_set
    <2>4. Append(<<>>, pair) = <<pair>>
      OBVIOUS
    <2> QED BY <2>1, <2>3, <2>4 DEF HotHint
  <1>2. DOMAIN HotHint(hot).pairs = {1} /\ HotHint(hot).pairs[1] = pair
    BY <1>1
  <1> HIDE DEF pair
  <1>3. {HotHint(hot).pairs[i] : i \in DOMAIN HotHint(hot).pairs} = {pair}
    BY <1>2
  <1>4. Keys(HotHint(hot)) = {"HOT_INDEX"}
    BY <1>2 DEF Keys, pair
  <1>5. (CHOOSE p \in {pair} : p.key = "HOT_INDEX") = pair
    BY DEF pair
  <1>6. mio_hint_map_get(HotHint(hot), "HOT_INDEX") = [rc |-> "ok", value |-> pair.value]
    BY <1>3, <1>4, <1>5 DEF mio_hint_map_get
  <1>7. mio_hint_map_get(HotHint(hot), "WHERE").rc = "ENOENT"
    BY <1>4 DEF mio_hint_map_get
  <1> QED BY <1>6, <1>7 DEF pair

(* The hotness of an object is its count.                                  *)
LEMMA HotnessIs ==
    ASSUME NEW obj \in ObjType
    PROVE  Hotness(obj) = obj.count /\ Hotness(obj) \in Nat
  <1>1. obj.count \in Nat
    BY DEF ObjType
  <1>2. Hotness(obj) = mio_hint_map_get(HotHint(obj.count), "HOT_INDEX").value
    BY DEF Hotness, HotHint, obj_hot_index_cal
  <1> QED BY <1>1, <1>2, OneHint

(* A map stays a map when a threshold is set.                              *)
LEMMA SetType ==
    ASSUME NEW sys \in MapType, NEW key \in DOMAIN sys_hint_table, NEW thld \in Nat
    PROVE  mio_hint_map_set(sys, key, thld).map \in MapType
  <1> DEFINE P == [key : DOMAIN sys_hint_table, value : Nat]
             pair == [key |-> key, value |-> thld]
             s == sys.pairs
             other == [i \in DOMAIN s |-> IF s[i].key = key THEN pair ELSE s[i]]
  <1>1. pair \in P
    OBVIOUS
  <1>2. s \in Seq(P) /\ sys.room \in Nat /\ sys = [room |-> sys.room, pairs |-> s]
    BY DEF MapType
  <1>3. Append(s, pair) \in Seq(P) /\ other \in Seq(P)
    <2> HIDE DEF P, pair, s
    <2>1. DOMAIN s = 1..Len(s) /\ Len(s) \in Nat /\ \A i \in DOMAIN s : s[i] \in P
      BY <1>2
    <2> QED BY <1>1, <1>2, <2>1
  <1>4. \/ mio_hint_map_set(sys, key, thld).map = [sys EXCEPT !.pairs = other]
        \/ mio_hint_map_set(sys, key, thld).map = sys
        \/ mio_hint_map_set(sys, key, thld).map = [sys EXCEPT !.pairs = Append(s, pair)]
    BY DEF mio_hint_map_set
  <1>5. \A q \in Seq(P) : [sys EXCEPT !.pairs = q] \in MapType
    BY <1>2 DEF MapType
  <1> HIDE DEF other, pair, s, P
  <1> QED BY <1>3, <1>4, <1>5

(* The pool of an object that is created for its hotness, and of another.  *)
LEMMA NewType ==
    ASSUME HsmType, NEW hot \in Nat
    PROVE  /\ NoObj \in ObjType /\ Created(NoMap) \in ObjType /\ Created(HotHint(hot)) \in ObjType
           /\ Created(NoMap).data = <<>> /\ Created(HotHint(hot)).data = <<>>
           /\ NoObj.data = <<>> /\ ~NoObj.there
           /\ Created(NoMap).there /\ Created(HotHint(hot)).there
           /\ (hot > 0 /\ TierIs(hot) # Killed) => Created(HotHint(hot)).pool = TierIs(hot)
  <1>1. pools.nr \in Nat /\ pools.default \in Int
    BY PoolsAssumption DEF HsmType
  <1>2. TierIs(hot) \in {Killed} \cup 0..pools.nr - 1 /\ (pools.nr < 1 => TierIs(hot) = Killed)
    <2>1. pools.nr >= 1 => 0 \in 0..pools.nr - 1 /\ pools.nr - 1 \in 0..pools.nr - 1
      BY <1>1
    <2> QED BY <1>1, <2>1 DEF TierIs, mio_obj_hotness_to_pool_idx
  <1>3. ASSUME NEW p \in Int PROVE NewObj(p) \in ObjType /\ NewObj(p).pool = p
                                   /\ NewObj(p).data = <<>> /\ NewObj(p).there
    <2>1. NoObj \in ObjType /\ NoObj.data = <<>>
      BY DEF NoObj, ObjType, NullPool
    <2>2. NewObj(p) = [NoObj EXCEPT !.there = TRUE, !.pool = p]
      BY DEF NewObj
    <2> HIDE DEF NoObj
    <2> QED BY <2>1, <2>2 DEF ObjType
  <1>4. SelectedPool(sys_hints, pools, NullPool, NoMap) \in Int
    <2>1. Keys(NoMap) = {}
      BY DEF Keys, NoMap
    <2>2. ~mio_hint_is_set(NoMap, "WHERE") /\ ~mio_hint_is_set(NoMap, "HOT_INDEX")
      BY <2>1 DEF mio_hint_is_set, mio_hint_map_get
    <2>3. obj_pool_select(sys_hints, pools.nr, NoMap) = NullPool
      BY <2>2 DEF obj_pool_select
    <2> QED BY <1>1, <2>3 DEF SelectedPool, NullPool
  <1>5. SelectedPool(sys_hints, pools, NullPool, HotHint(hot)) \in Int
        /\ ((hot > 0 /\ TierIs(hot) # Killed) =>
              SelectedPool(sys_hints, pools, NullPool, HotHint(hot)) = TierIs(hot))
    <2>1. ~mio_hint_is_set(HotHint(hot), "WHERE")
          /\ (mio_hint_is_set(HotHint(hot), "HOT_INDEX") <=> hot # 0)
      BY OneHint DEF mio_hint_is_set
    <2>2. obj_pool_select(sys_hints, pools.nr, HotHint(hot)) =
            IF pools.nr <= 0 THEN NullPool ELSE IF hot # 0 THEN TierIs(hot) ELSE NullPool
      BY <2>1, OneHint DEF obj_pool_select, TierIs
    <2>3. TierIs(hot) \in Int /\ (TierIs(hot) # Killed => TierIs(hot) # NullPool /\ ~(pools.nr <= 0))
      BY <1>1, <1>2 DEF Killed, NullPool
    <2> QED BY <1>1, <2>2, <2>3 DEF SelectedPool, NullPool
  <1>6. NoObj \in ObjType /\ NoObj.data = <<>> /\ ~NoObj.there
    BY DEF NoObj, ObjType, NullPool
  <1> QED BY <1>3, <1>4, <1>5, <1>6 DEF Created


(***************************************************************************)
(* What objects hold.                                                      *)
(***************************************************************************)
Holds(o, s, k) == Len(s) >= k /\ \A b \in 1..k : s[b] = o

(* The blocks after a copy.                                                *)
LEMMA OverIs ==
    ASSUME NEW from \in Seq(Nat), NEW to \in Seq(Nat), NEW n \in Nat, n <= Len(from),
           NEW s, s = Over(from, to, n)
    PROVE  /\ s \in Seq(Nat) /\ Len(s) = (IF n > Len(to) THEN n ELSE Len(to))
           /\ \A b \in 1..Len(s) : s[b] = IF b <= n THEN from[b] ELSE to[b]
  <1> DEFINE k == IF n > Len(to) THEN n ELSE Len(to)
             F(b) == IF b <= n THEN from[b] ELSE to[b]
  <1>1. k \in Nat /\ Len(to) \in Nat
    OBVIOUS
  <1>2. \A b \in 1..k : F(b) \in Nat
    <2> SUFFICES ASSUME NEW b \in 1..k PROVE F(b) \in Nat
      OBVIOUS
    <2>1. CASE b <= n
      BY <2>1
    <2>2. CASE b > n
      BY <2>2
    <2> QED BY <2>1, <2>2
  <1>3. s = [b \in 1..k |-> F(b)]
    BY DEF Over
  <1> HIDE DEF k, F
  <1>4. s \in Seq(Nat) /\ Len(s) = k /\ \A b \in 1..k : s[b] = F(b)
    BY <1>1, <1>2, <1>3
  <1> QED BY <1>4 DEF k, F

(* A copy of all to nothing is the same.                                   *)
LEMMA OverNothing ==
    ASSUME NEW from \in Seq(Nat), NEW to \in Seq(Nat), Len(to) = 0,
           NEW n \in Nat, n <= Len(from), n >= Len(from)
    PROVE  Over(from, to, n) = from
  <1>1. (IF n > Len(to) THEN n ELSE Len(to)) = Len(from)
    OBVIOUS
  <1>2. Over(from, to, n) = [b \in 1..Len(from) |-> IF b <= n THEN from[b] ELSE to[b]]
    BY <1>1 DEF Over
  <1>3. \A b \in 1..Len(from) : b <= n
    OBVIOUS
  <1>4. from = [b \in 1..Len(from) |-> from[b]]
    OBVIOUS
  <1> QED BY <1>2, <1>3, <1>4

(* A copy of nothing changes nothing.                                      *)
LEMMA OverSame ==
    ASSUME NEW from \in Seq(Nat), NEW to \in Seq(Nat)
    PROVE  Over(from, to, 0) = to
  <1>1. Len(to) \in Nat
    OBVIOUS
  <1>2. (IF 0 > Len(to) THEN 0 ELSE Len(to)) = Len(to)
    BY <1>1
  <1>3. Over(from, to, 0) = [b \in 1..Len(to) |-> IF b <= 0 THEN from[b] ELSE to[b]]
    BY <1>2 DEF Over
  <1>4. \A b \in 1..Len(to) : ~(b <= 0)
    BY <1>1
  <1>5. to = [b \in 1..Len(to) |-> to[b]]
    OBVIOUS
  <1> QED BY <1>3, <1>4, <1>5

(* A copy onto what is whole, of blocks that are no other's, and a copy of *)
(* what is whole, leave it whole.                                          *)
LEMMA OverHolds ==
    ASSUME NEW from \in Seq(Nat), NEW to \in Seq(Nat), NEW n \in Nat, n <= Len(from),
           NEW o \in Nat, NEW k \in Nat
    PROVE  /\ Holds(o, to, k) /\ (\A b \in 1..n : from[b] = o) => Holds(o, Over(from, to, n), k)
           /\ Holds(o, from, k) /\ n >= k => Holds(o, Over(from, to, n), k)
  <1> DEFINE s == Over(from, to, n)
  <1> HIDE DEF s
  <1>1. /\ s \in Seq(Nat) /\ Len(s) = (IF n > Len(to) THEN n ELSE Len(to))
        /\ \A b \in 1..Len(s) : s[b] = IF b <= n THEN from[b] ELSE to[b]
        /\ Len(to) \in Nat /\ Len(s) \in Nat
    BY OverIs DEF s
  <1>2. ASSUME Holds(o, to, k), \A b \in 1..n : from[b] = o PROVE Holds(o, s, k)
    <2>1. Len(to) >= k /\ \A b \in 1..k : to[b] = o
      BY <1>2 DEF Holds
    <2>2. ASSUME NEW b \in 1..k PROVE s[b] = o
      <3>1. b \in 1..Len(s)
        BY <1>1, <2>1
      <3>2. CASE b <= n
        BY <1>1, <1>2, <3>1, <3>2, SMTT(30)
      <3>3. CASE ~(b <= n)
        BY <1>1, <2>1, <3>1, <3>3
      <3> QED BY <3>2, <3>3
    <2> QED BY <1>1, <2>1, <2>2 DEF Holds
  <1>3. ASSUME Holds(o, from, k), n >= k PROVE Holds(o, s, k)
    <2>1. \A b \in 1..k : from[b] = o
      BY <1>3 DEF Holds
    <2>2. ASSUME NEW b \in 1..k PROVE s[b] = o
      <3>1. b \in 1..Len(s) /\ b <= n
        BY <1>1, <1>3
      <3> QED BY <1>1, <2>1, <3>1
    <2> QED BY <1>1, <1>3, <2>2 DEF Holds
  <1> QED BY <1>2, <1>3 DEF s

(* Counting accesses leaves all else of an object.                         *)
LEMMA Counted ==
    ASSUME NEW obj \in ObjType, NEW n \in Nat, NEW u, u = obj_stats_update(obj, n)
    PROVE  /\ u \in ObjType /\ u.data = obj.data /\ u.pool = obj.pool /\ u.there = obj.there
           /\ (obj.rec \/ n > 0) => u.rec
  <1> DEFINE r == obj.rec \/ n > 0
             c == obj.count + n
  <1>1. r \in BOOLEAN /\ c \in Nat
    BY DEF ObjType
  <1>2. u = [obj EXCEPT !.count = c, !.rec = r]
    BY DEF obj_stats_update
  <1> HIDE DEF r, c
  <1>3. u \in ObjType /\ u.rec = r
    BY <1>1, <1>2 DEF ObjType
  <1>4. u.data = obj.data /\ u.pool = obj.pool /\ u.there = obj.there
    BY <1>2 DEF ObjType
  <1> QED BY <1>3, <1>4 DEF r

(* A new state of one object.                                              *)
LEMMA OneObj ==
    ASSUME HsmInv, NEW o \in Objs \cup {Tmp}, NEW e \in ObjType, e.data # <<>> => e.there /\ e.rec,
           store' = [store EXCEPT ![o] = e]
    PROVE  /\ store' \in [Objs \cup {Tmp} -> ObjType] /\ Recorded'
           /\ store'[o] = e /\ \A p \in (Objs \cup {Tmp}) \ {o} : store'[p] = store[p]
  BY DEF HsmInv, HsmType, Recorded

(* The temporary object is none of the objects, which are numbers.         *)
LEMMA TmpIsNone == Tmp \notin Objs /\ Objs \subseteq Nat /\ 0 \in Objs
  BY HsmAssumption DEF Tmp, Objs

(* The shell goes on within its objects.                                   *)
LEMMA ShSteps ==
    ASSUME HsmType
    PROVE  /\ Prompt \in ShType /\ Down \in ShType /\ NextObj \in ShType
           /\ Prompt.at = "prompt" /\ Down.at = "down" /\ NextObj.at \in {"prompt", sh.at}
           /\ \A at \in ShPlaces : [sh EXCEPT !.at = at] \in ShType
  <1>1. sh \in ShType /\ 0 \in Objs /\ NrObjs \in Nat
    BY TmpIsNone, HsmAssumption DEF HsmType
  <1>2. Prompt \in ShType /\ Down \in ShType /\ Prompt.at = "prompt" /\ Down.at = "down"
    <2>1. 0 \in 0..NrObjs /\ <<>> \in Seq(Nat) /\ {"prompt", "down"} \subseteq ShPlaces
      BY <1>1 DEF ShPlaces
    <2> QED BY <1>1, <2>1 DEF ShType, Prompt, Down
  <1>3. ASSUME sh.i + 1 < sh.end PROVE [sh EXCEPT !.i = @ + 1] \in ShType
    <2>1. sh.i + 1 \in Objs
      BY <1>1, <1>3 DEF ShType, Objs
    <2> QED BY <1>1, <2>1 DEF ShType
  <1>4. \A at \in ShPlaces : [sh EXCEPT !.at = at] \in ShType
    BY <1>1 DEF ShType
  <1>5. [sh EXCEPT !.i = @ + 1].at = sh.at
    BY <1>1 DEF ShType
  <1> QED BY <1>2, <1>3, <1>4, <1>5 DEF NextObj


(***************************************************************************)
(* The steps outside of a move.                                            *)
(***************************************************************************)
(* A step that leaves the objects alone and does not go on with a move.    *)
LEMMA QuietStep ==
    ASSUME HsmInv, UNCHANGED <<pools, store, full>>, sys_hints' \in MapType, cmds' \in Nat,
           sh' \in ShType, sh'.at \notin Moving
    PROVE  HsmInv'
  <1>1. HsmType'
    BY DEF HsmInv, HsmType
  <1>2. Recorded' /\ MoveKeepsData'
    BY DEF HsmInv, Recorded, MoveKeepsData, Whole
  <1>3. MoveInv'
    BY DEF MoveInv, Moving
  <1> QED BY <1>1, <1>2, <1>3 DEF HsmInv

(* A step that changes one object and does not go on with a move.          *)
LEMMA StoreStep ==
    ASSUME HsmInv, UNCHANGED <<pools, cmds, sys_hints>>, sh' \in ShType, sh'.at \notin Moving,
           NEW o \in Objs, NEW e \in ObjType, e.data # <<>> => e.there /\ e.rec,
           store' = [store EXCEPT ![o] = e],
           full' \in [Objs -> Nat], \A p \in Objs \ {o} : full'[p] = full[p],
           full'[o] > 0 => \/ Holds(o, e.data, full'[o])
                           \/ Holds(o, store[Tmp].data, full'[o])
    PROVE  HsmInv'
  <1>1. /\ store' \in [Objs \cup {Tmp} -> ObjType] /\ Recorded'
        /\ store'[o] = e /\ \A p \in (Objs \cup {Tmp}) \ {o} : store'[p] = store[p]
    BY OneObj
  <1>2. HsmType'
    BY <1>1 DEF HsmInv, HsmType
  <1>3. ASSUME NEW p \in Objs, full'[p] > 0
        PROVE  Whole(p, store[p])' \/ Whole(p, store[Tmp])'
    <2>1. store'[Tmp] = store[Tmp]
      BY <1>1, TmpIsNone
    <2>2. CASE p = o
      BY <1>1, <1>3, <2>1, <2>2 DEF Whole, Holds
    <2>3. CASE p # o
      BY <1>1, <1>3, <2>1, <2>3 DEF HsmInv, MoveKeepsData, Whole
    <2> QED BY <2>2, <2>3
  <1>4. MoveKeepsData'
    BY <1>3 DEF MoveKeepsData
  <1>5. MoveInv'
    BY DEF MoveInv, Moving
  <1> QED BY <1>1, <1>2, <1>4, <1>5 DEF HsmInv

(* Starting, ending and commands.                                          *)
LEMMA ShellInv ==
    ASSUME HsmInv,
           \/ Start \/ Crash
           \/ \E key \in DOMAIN sys_hint_table, thld \in Thlds : hsm_set_obj_thld(key, thld)
    PROVE  HsmInv'
  <1>1. HsmType /\ Prompt \in ShType /\ Down \in ShType /\ Prompt.at = "prompt" /\ Down.at = "down"
    BY ShSteps DEF HsmInv
  <1>2. CASE Start
    <2>1. mio_hints_init \in MapType
      BY HintsAssumption DEF mio_hints_init, mio_hint_map_init, MapType
    <2> QED BY <1>1, <1>2, <2>1, QuietStep DEF Start, HsmType, Moving
  <1>3. CASE Crash
    BY <1>1, <1>3, QuietStep DEF Crash, HsmType, Moving
  <1>4. ASSUME NEW key \in DOMAIN sys_hint_table, NEW thld \in Thlds, hsm_set_obj_thld(key, thld)
        PROVE  HsmInv'
    <2>1. thld \in Nat /\ sys_hints \in MapType
      BY <1>1, HsmAssumption DEF HsmType
    <2>2. sys_hints' \in MapType
      BY <1>4, <2>1, SetType DEF hsm_set_obj_thld
    <2> QED BY <1>1, <1>4, <2>2, QuietStep DEF hsm_set_obj_thld, Command, HsmType, Moving
  <1> QED BY <1>2, <1>3, <1>4

(* A command that works on objects.                                        *)
LEMMA CmdInv ==
    ASSUME HsmInv, NEW at \in {"create", "workload", "move", "write", "read"}, NEW idx \in Objs,
           NEW end \in 0..NrObjs, NEW blocks \in Nat, hsm_shell_run_cmd(at, idx, end, blocks)
    PROVE  HsmInv'
  <1>1. HsmType /\ Prompt \in ShType
    BY ShSteps DEF HsmInv
  <1>2. at \in ShPlaces /\ at \notin Moving
    BY DEF ShPlaces, Moving
  <1>3. sh' \in ShType /\ sh'.at = at
    BY <1>1, <1>2 DEF hsm_shell_run_cmd, ShType
  <1> QED BY <1>1, <1>2, <1>3, QuietStep DEF hsm_shell_run_cmd, Command, HsmType

(* create.                                                                 *)
LEMMA CreateInv ==
    ASSUME HsmInv, mio_cmd_obj_touch \/ CreateCleanup
    PROVE  HsmInv'
  <1> DEFINE o == sh.i
  <1>1. /\ HsmType /\ o \in Objs /\ NextObj \in ShType /\ NextObj.at \in {"prompt", sh.at}
        /\ 0 \in Nat
    BY ShSteps DEF HsmInv, HsmType, ShType
  <1>2. /\ Created(NoMap) \in ObjType /\ Created(NoMap).data = <<>>
        /\ NoObj \in ObjType /\ NoObj.data = <<>>
    BY <1>1, NewType
  <1>3. full \in [Objs -> Nat]
    BY <1>1 DEF HsmType
  <1>4. CASE mio_cmd_obj_touch
    <2>1. CASE /\ ~store[o].there
               /\ store' = [store EXCEPT ![o] = Created(NoMap)]
               /\ sh' = NextObj
      <3>1. full[o] > 0 => Holds(o, store[Tmp].data, full[o])
        <4>1. store[o].data = <<>>
          BY <1>1, <2>1 DEF HsmInv, Recorded
        <4>2. full[o] > 0 => ~Whole(o, store[o])
          BY <1>1, <1>3, <4>1 DEF Whole
        <4> QED BY <1>1, <4>2 DEF HsmInv, MoveKeepsData, Whole, Holds
      <3> QED BY <1>1, <1>2, <1>3, <1>4, <2>1, <3>1, StoreStep DEF mio_cmd_obj_touch, Moving
    <2>2. CASE UNCHANGED store /\ sh' = [sh EXCEPT !.at = "cleanup", !.i = 0]
      <3>1. sh' \in ShType /\ sh'.at = "cleanup"
        BY <1>1, <2>2, TmpIsNone DEF HsmType, ShType, ShPlaces
      <3> QED BY <1>1, <1>4, <2>2, <3>1, QuietStep DEF mio_cmd_obj_touch, Moving, HsmType
    <2> QED BY <1>4, <2>1, <2>2 DEF mio_cmd_obj_touch
  <1>5. CASE CreateCleanup
    <2>1. full' \in [Objs -> Nat] /\ full'[o] = 0 /\ \A p \in Objs \ {o} : full'[p] = full[p]
      BY <1>1, <1>3, <1>5 DEF CreateCleanup
    <2>2. \E e \in ObjType : store' = [store EXCEPT ![o] = e] /\ (e.data # <<>> => e.there /\ e.rec)
      <3>1. CASE store' = [store EXCEPT ![o] = NoObj]
        BY <1>2, <3>1
      <3>2. CASE UNCHANGED store
        <4>1. store' = [store EXCEPT ![o] = store[o]] /\ store[o] \in ObjType
              /\ (store[o].data # <<>> => store[o].there /\ store[o].rec)
          BY <1>1, <3>2 DEF HsmType, HsmInv, Recorded
        <4> QED BY <4>1
      <3> QED BY <1>5, <3>1, <3>2 DEF CreateCleanup
    <2>3. PICK e \in ObjType : store' = [store EXCEPT ![o] = e] /\ (e.data # <<>> => e.there /\ e.rec)
      BY <2>2
    <2>4. UNCHANGED <<pools, cmds, sys_hints>> /\ sh' \in ShType /\ sh'.at \notin Moving
      BY <1>1, <1>5 DEF CreateCleanup, Moving
    <2>5. ~(full'[o] > 0)
      BY <2>1
    <2> HIDE DEF o
    <2> QED BY <1>1, <2>1, <2>3, <2>4, <2>5, StoreStep
  <1> QED BY <1>4, <1>5


(* write: what the object has lost is in the temporary one, or is what is  *)
(* written now.                                                            *)
LEMMA WriteInv ==
    ASSUME HsmInv, mio_cmd_obj_write
    PROVE  HsmInv'
  <1> DEFINE o   == sh.i
             obj == IF store[o].there THEN store[o] ELSE Created(NoMap)
  <1>1. /\ HsmType /\ o \in Objs /\ o \in Nat /\ sh.at = "write" /\ sh.blocks \in Nat
        /\ sh' \in ShType /\ sh'.at \notin Moving
    BY ShSteps, TmpIsNone, ZenonT(60) DEF HsmInv, HsmType, ShType, mio_cmd_obj_write, Moving
  <1>2. obj \in ObjType /\ obj.there /\ (obj.data # <<>> => obj.rec)
        /\ (obj = store[o] \/ (store[o].data = <<>> /\ obj.data = <<>>))
    BY <1>1, NewType DEF HsmInv, HsmType, Recorded
  <1> HIDE DEF obj
  <1>3. PICK n \in 0..sh.blocks :
          /\ store' = [store EXCEPT ![o] = [obj_stats_update(obj, n) EXCEPT
                         !.data = Over([b \in 1..n |-> o], obj_stats_update(obj, n).data, n)]]
          /\ \/ n = sh.blocks /\ full' = [full EXCEPT ![o] = IF n > full[o] THEN n ELSE full[o]]
             \/ full' = full
    BY DEF mio_cmd_obj_write, obj
  <1> DEFINE s == Over([b \in 1..n |-> o], obj.data, n)
             e == [obj_stats_update(obj, n) EXCEPT !.data = s]
             new == [b \in 1..n |-> o]
  <1>4. n \in Nat
    BY <1>1
  <1>5. new \in Seq(Nat) /\ Len(new) = n /\ \A b \in 1..n : new[b] = o
    BY <1>1, <1>4
  <1>6. obj.data \in Seq(Nat)
    BY <1>2 DEF ObjType
  <1>7. s \in Seq(Nat) /\ (n = 0 => s = obj.data)
    <2> HIDE DEF new
    <2>1. s = Over(new, obj.data, n)
      BY DEF new
    <2> HIDE DEF s
    <2> QED BY <1>1, <1>4, <1>5, <1>6, <2>1, OverIs, OverSame
  <1>8. \A k \in Nat : Holds(o, obj.data, k) \/ n >= k => Holds(o, s, k)
    <2> SUFFICES ASSUME NEW k \in Nat, Holds(o, obj.data, k) \/ n >= k PROVE Holds(o, s, k)
      OBVIOUS
    <2> HIDE DEF new
    <2>1. s = Over(new, obj.data, n)
      BY DEF new
    <2> HIDE DEF s, o
    <2>2. n >= k => Holds(o, new, k)
      BY <1>4, <1>5 DEF Holds
    <2> QED BY <1>1, <1>4, <1>5, <1>6, <2>1, <2>2, OverHolds
  <1> HIDE DEF s
  <1>9. e \in ObjType /\ e.data = s /\ (e.data # <<>> => e.there /\ e.rec)
    <2> DEFINE u == obj_stats_update(obj, n)
    <2>1. u \in ObjType /\ u.there /\ (obj.rec \/ n > 0 => u.rec)
      BY <1>2, <1>4, Counted
    <2> HIDE DEF u
    <2>2. e = [u EXCEPT !.data = s]
      BY DEF u
    <2> HIDE DEF e
    <2>3. e \in ObjType /\ e.data = s /\ e.there = u.there /\ e.rec = u.rec
      BY <1>7, <2>1, <2>2 DEF ObjType
    <2> QED BY <1>2, <1>4, <1>7, <2>1, <2>3
  <1>10. store' = [store EXCEPT ![o] = e]
    <2>1. obj_stats_update(obj, n).data = obj.data
      BY <1>2, <1>4, Counted
    <2> QED BY <1>3, <2>1 DEF s
  <1> HIDE DEF e
  <1>11. full \in [Objs -> Nat]
    BY <1>1 DEF HsmType
  <1>12. /\ full' \in [Objs -> Nat] /\ \A p \in Objs \ {o} : full'[p] = full[p]
         /\ full'[o] = full[o] \/ (full'[o] = n)
    BY <1>1, <1>3, <1>4, <1>11
  <1>13. ASSUME full'[o] > 0 PROVE Holds(o, e.data, full'[o]) \/ Holds(o, store[Tmp].data, full'[o])
    <2>1. full'[o] \in Nat /\ full[o] \in Nat
      BY <1>1, <1>11, <1>12
    <2>2. CASE full'[o] = n
      BY <1>4, <1>8, <1>9, <2>1, <2>2
    <2>3. CASE full'[o] = full[o] /\ Whole(o, store[o])
      <3>1. Holds(o, obj.data, full[o])
        BY <1>2, <1>13, <2>1, <2>3 DEF Whole, Holds
      <3> QED BY <1>8, <1>9, <2>1, <2>3, <3>1
    <2>4. CASE full'[o] = full[o] /\ Whole(o, store[Tmp])
      BY <2>4 DEF Whole, Holds
    <2> QED BY <1>1, <1>12, <1>13, <2>2, <2>3, <2>4 DEF HsmInv, MoveKeepsData
  <1>14. UNCHANGED <<pools, cmds, sys_hints>>
    BY DEF mio_cmd_obj_write
  <1> HIDE DEF o
  <1> QED BY <1>1, <1>9, <1>10, <1>12, <1>13, <1>14, StoreStep

(* Reads: an object that loses its data had none that was stored in it.    *)
LEMMA ReadInv ==
    ASSUME HsmInv, NEW o \in Objs, NEW n \in Nat, ReadObj(o, n),
           UNCHANGED <<pools, cmds, sys_hints, full>>, sh' \in ShType, sh'.at \notin Moving
    PROVE  HsmInv'
  <1>1. HsmType /\ store[o] \in ObjType /\ full \in [Objs -> Nat]
    BY DEF HsmInv, HsmType
  <1>2. CASE UNCHANGED store
    BY <1>1, <1>2, QuietStep DEF HsmType
  <1>3. CASE store[o].rec /\ store' = [store EXCEPT ![o].count = @ + n]
    <2> DEFINE e == [store[o] EXCEPT !.count = store[o].count + n]
    <2>0. store[o].count + n \in Nat
      BY <1>1 DEF ObjType
    <2>1. e \in ObjType /\ e.data = store[o].data
      BY <1>1, <2>0 DEF ObjType
    <2>5. e.there = store[o].there /\ e.rec = store[o].rec
      BY <1>1 DEF ObjType
    <2>2. store' = [store EXCEPT ![o] = e]
      BY <1>3
    <2> HIDE DEF e
    <2>3. e.data # <<>> => e.there /\ e.rec
      BY <2>1, <2>5 DEF HsmInv, Recorded
    <2>4. full'[o] > 0 => Holds(o, e.data, full'[o]) \/ Holds(o, store[Tmp].data, full'[o])
      BY <2>1 DEF HsmInv, MoveKeepsData, Whole, Holds
    <2> QED BY <1>1, <2>1, <2>2, <2>3, <2>4, StoreStep
  <1>4. ASSUME store[o].there, ~store[o].rec, NEW size \in 0..MaxBlocks, NEW count \in Junk,
               store' = [store EXCEPT ![o] = [@ EXCEPT !.rec = TRUE, !.count = count,
                                                       !.data = [b \in 1..size |-> Hole]]]
        PROVE  HsmInv'
    <2> DEFINE d == [b \in 1..size |-> Hole]
               e == [store[o] EXCEPT !.rec = TRUE, !.count = count, !.data = d]
    <2>1. d \in Seq(Nat) /\ count \in Nat
      BY HsmAssumption DEF Hole
    <2>2. store' = [store EXCEPT ![o] = e]
      BY <1>4
    <2> HIDE DEF d
    <2>3. e \in ObjType /\ e.there /\ e.rec
      BY <1>1, <1>4, <2>1 DEF ObjType
    <2> HIDE DEF e
    <2>4. full'[o] > 0 => Holds(o, store[Tmp].data, full'[o])
      <3>1. store[o].data = <<>>
        BY <1>4 DEF HsmInv, Recorded
      <3>2. full[o] > 0 => ~Whole(o, store[o])
        BY <1>1, <3>1 DEF Whole
      <3> QED BY <3>2 DEF HsmInv, MoveKeepsData, Whole, Holds
    <2> QED BY <1>1, <2>2, <2>3, <2>4, StoreStep
  <1> QED BY <1>2, <1>3, <1>4 DEF ReadObj


(* read and workload.                                                      *)
LEMMA ReadsInv ==
    ASSUME HsmInv, mio_cmd_obj_read \/ hsm_workload_generate
    PROVE  HsmInv'
  <1>1. /\ HsmType /\ sh.i \in Objs /\ sh \in ShType
        /\ NextObj \in ShType /\ NextObj.at \in {"prompt", sh.at}
        /\ Prompt \in ShType /\ Prompt.at = "prompt" /\ Down \in ShType /\ Down.at = "down"
    BY ShSteps DEF HsmInv, HsmType, ShType
  <1>2. CASE mio_cmd_obj_read
    <2>1. sh' \in ShType /\ sh'.at \notin Moving
      BY <1>1, <1>2 DEF mio_cmd_obj_read, Moving
    <2>2. CASE UNCHANGED store
      BY <1>1, <1>2, <2>1, <2>2, QuietStep DEF mio_cmd_obj_read, HsmType
    <2>3. ASSUME NEW n \in 0..Least(sh.blocks, Len(store[sh.i].data)), ReadObj(sh.i, n)
          PROVE  HsmInv'
      <3>1. n \in Nat
        OBVIOUS
      <3> QED BY <1>1, <1>2, <2>1, <2>3, <3>1, ReadInv DEF mio_cmd_obj_read
    <2> QED BY <1>2, <2>2, <2>3 DEF mio_cmd_obj_read
  <1>3. CASE hsm_workload_generate
    <2>1. sh' \in ShType /\ sh'.at \notin Moving
      BY <1>1, <1>3 DEF hsm_workload_generate, Moving
    <2>2. CASE UNCHANGED store
      BY <1>1, <1>3, <2>1, <2>2, QuietStep DEF hsm_workload_generate, HsmType
    <2>3. ASSUME NEW o \in Objs, NEW n \in 0..Least(sh.blocks, Len(store[o].data)), ReadObj(o, n)
          PROVE  HsmInv'
      <3>1. n \in Nat
        OBVIOUS
      <3> QED BY <1>3, <2>1, <2>3, <3>1, ReadInv DEF hsm_workload_generate
    <2> QED BY <1>3, <2>2, <2>3 DEF hsm_workload_generate
  <1> QED BY <1>2, <1>3

(***************************************************************************)
(* The steps of a move.                                                    *)
(***************************************************************************)
(* hsm_obj_if_move.                                                        *)
LEMMA IfMoveInv ==
    ASSUME HsmInv, hsm_obj_if_move
    PROVE  HsmInv'
  <1>1. /\ HsmType /\ sh \in ShType /\ sh.i \in Objs /\ store[sh.i] \in ObjType /\ sh.at = "move"
        /\ NextObj \in ShType /\ NextObj.at \in {"prompt", sh.at}
        /\ Prompt \in ShType /\ Prompt.at = "prompt" /\ Down \in ShType /\ Down.at = "down"
    BY ShSteps DEF HsmInv, HsmType, ShType, hsm_obj_if_move
  <1>2. UNCHANGED <<pools, cmds, store, sys_hints, full>>
    BY DEF hsm_obj_if_move
  <1>3. CASE sh' \in {Prompt, Down, NextObj}
    BY <1>1, <1>2, <1>3, QuietStep DEF Moving, HsmType
  <1> DEFINE hot == Hotness(store[sh.i])
             clean == ~store[Tmp].there
  <1>4. CASE /\ TierIs(hot) # Killed
             /\ sh' = [sh EXCEPT !.at = "copy_out", !.hot = hot, !.before = store[sh.i].data,
                                 !.clean = clean]
    <2>1. hot \in Nat /\ store[sh.i].data \in Seq(Nat) /\ clean \in BOOLEAN
      BY <1>1, HotnessIs DEF ObjType
    <2> HIDE DEF hot, clean
    <2>2. /\ sh' \in ShType /\ sh'.at = "copy_out" /\ sh'.hot = hot /\ sh'.i = sh.i
          /\ sh'.before = store[sh.i].data /\ sh'.clean = clean
      BY <1>1, <1>4, <2>1 DEF ShType, ShPlaces
    <2>3. HsmType' /\ Recorded' /\ MoveKeepsData'
      BY <1>2, <2>2 DEF HsmInv, HsmType, Recorded, MoveKeepsData, Whole
    <2>4. TierIs(sh.hot)' # Killed
      BY <1>2, <1>4, <2>2 DEF TierIs
    <2>5. MoveInv'
      BY <1>2, <2>2, <2>4 DEF MoveInv, Moving, clean
    <2> QED BY <2>3, <2>5 DEF HsmInv
  <1> QED BY <1>3, <1>4 DEF hsm_obj_if_move, TierIs

(* A copy changes the data of one of the two objects.                      *)
LEMMA CopyIs ==
    ASSUME HsmInv, NEW from \in Objs \cup {Tmp}, NEW to \in Objs \cup {Tmp}, from # to, NEW n \in Nat,
           NEW hints,
           mio_cmd_obj_copy(from, to, hints, n, TRUE) \/ mio_cmd_obj_copy(from, to, hints, n, FALSE),
           Created(hints) \in ObjType, Created(hints).data = <<>>, Created(hints).there
    PROVE  /\ store' \in [Objs \cup {Tmp} -> ObjType] /\ Recorded'
           /\ \A p \in (Objs \cup {Tmp}) \ {from, to} : store'[p] = store[p]
           /\ store'[from].data = store[from].data
           /\ store'[to].data = Over(store[from].data, store[to].data, n)
           /\ ~store[to].there => store'[to].pool = Created(hints).pool
           /\ n <= Len(store[from].data)
           /\ mio_cmd_obj_copy(from, to, hints, n, TRUE) => n = Len(store[from].data)
  <1> DEFINE f == store[from]
             t == IF store[to].there THEN store[to] ELSE Created(hints)
             s == Over(f.data, t.data, n)
  <1>1. /\ f \in ObjType /\ f.there /\ t \in ObjType /\ t.there /\ t.data = store[to].data
        /\ (t.data # <<>> => t.rec) /\ (f.data # <<>> => f.rec) /\ store \in [Objs \cup {Tmp} -> ObjType]
        /\ (~store[to].there => t = Created(hints))
    BY DEF mio_cmd_obj_copy, HsmInv, HsmType, Recorded
  <1>2. n <= Len(f.data) /\ (mio_cmd_obj_copy(from, to, hints, n, TRUE) => n = Len(f.data))
    BY DEF mio_cmd_obj_copy
  <1> HIDE DEF f, t
  <1>3. PICK r \in {0} \cup (IF f.data = <<>> THEN {BlocksPerOp} ELSE n..Least(n + BlocksPerOp, Len(f.data))),
             w \in (IF n > Len(t.data) THEN {n} ELSE {0, n}) :
          store' = [store EXCEPT
                      ![from] = obj_stats_update(f, r),
                      ![to]   = [obj_stats_update(t, w) EXCEPT
                                   !.data = Over(f.data, obj_stats_update(t, w).data, n)]]
    BY DEF mio_cmd_obj_copy, f, t
  <1>4. r \in Nat /\ w \in Nat /\ (w = 0 => n <= Len(t.data)) /\ Len(t.data) \in Nat
    <2>1. BlocksPerOp \in Nat /\ t.data \in Seq(Nat)
      BY <1>1, HsmAssumption DEF ObjType
    <2> QED BY <2>1
  <1>5. f.data \in Seq(Nat) /\ t.data \in Seq(Nat)
    BY <1>1 DEF ObjType
  <1>6. s \in Seq(Nat) /\ (w = 0 /\ t.data = <<>> => s = <<>>)
    <2>1. s \in Seq(Nat) /\ (n = 0 => s = t.data)
      <3> HIDE DEF s
      <3>1. s = Over(f.data, t.data, n)
        BY DEF s
      <3> QED BY <1>2, <1>5, <3>1, OverIs, OverSame
    <2>2. w = 0 /\ t.data = <<>> => n = 0
      BY <1>4
    <2> QED BY <2>1, <2>2
  <1> DEFINE ef == obj_stats_update(f, r)
             u  == obj_stats_update(t, w)
             et == [u EXCEPT !.data = s]
  <1>7. /\ ef \in ObjType /\ ef.data = f.data /\ ef.there = f.there /\ (f.rec \/ r > 0 => ef.rec)
        /\ u \in ObjType /\ u.data = t.data /\ u.there = t.there /\ u.pool = t.pool
        /\ (t.rec \/ w > 0 => u.rec)
    <2>0. f \in ObjType /\ t \in ObjType /\ r \in Nat /\ w \in Nat
          /\ ef = obj_stats_update(f, r) /\ u = obj_stats_update(t, w)
      BY <1>1, <1>4
    <2> HIDE DEF ef, u
    <2>1. ef \in ObjType /\ ef.data = f.data /\ ef.there = f.there /\ (f.rec \/ r > 0 => ef.rec)
      BY ONLY <2>0, Counted
    <2>2. /\ u \in ObjType /\ u.data = t.data /\ u.there = t.there /\ u.pool = t.pool
          /\ (t.rec \/ w > 0 => u.rec)
      BY ONLY <2>0, Counted, ZenonT(60)
    <2> QED BY <2>1, <2>2
  <1>8. store' = [store EXCEPT ![from] = ef, ![to] = et]
    BY <1>3, <1>7
  <1> HIDE DEF ef, u, s
  <1>9. et \in ObjType /\ et.data = s /\ et.there = u.there /\ et.rec = u.rec /\ et.pool = u.pool
    BY <1>6, <1>7 DEF ObjType
  <1> HIDE DEF et
  <1>10. s # <<>> => u.rec
    BY <1>1, <1>4, <1>6, <1>7
  <1>11. /\ store' \in [Objs \cup {Tmp} -> ObjType] /\ store'[from] = ef /\ store'[to] = et
         /\ \A p \in (Objs \cup {Tmp}) \ {from, to} : store'[p] = store[p]
    BY <1>1, <1>7, <1>8, <1>9
  <1>12. Recorded'
    <2> SUFFICES ASSUME NEW p \in Objs \cup {Tmp}, store'[p].data # <<>>
                 PROVE  store'[p].there /\ store'[p].rec
      BY DEF Recorded
    <2>1. CASE p = from
      BY <1>1, <1>7, <1>11, <2>1
    <2>2. CASE p = to
      BY <1>1, <1>7, <1>9, <1>10, <1>11, <2>2
    <2>3. CASE p \notin {from, to}
      BY <1>11, <2>3 DEF HsmInv, Recorded
    <2> QED BY <2>1, <2>2, <2>3
  <1>13. store'[from].data = store[from].data /\ store'[to].data = Over(store[from].data, store[to].data, n)
    BY <1>1, <1>7, <1>9, <1>11 DEF f, s
  <1>14. ~store[to].there => store'[to].pool = Created(hints).pool
    BY <1>1, <1>7, <1>9, <1>11
  <1> QED BY <1>2, <1>11, <1>12, <1>13, <1>14 DEF f


(* What was stored in an object is still known to be so after CopyOut only *)
(* if it is in place, or if only its own blocks are copied over it.        *)
LEMMA KeptIs ==
    ASSUME HsmInv, NEW o \in Objs, Kept(o) > 0
    PROVE  /\ Kept(o) = full[o] /\ full[o] > 0
           /\ \/ Whole(o, store[o])
              \/ /\ o = sh.i /\ Whole(o, store[Tmp])
                 /\ \A b \in DOMAIN store[o].data : store[o].data[b] = o
  <1>1. Kept(o) = full[o] /\ (Stranded(o) =>
                                o = sh.i /\ \A b \in DOMAIN store[o].data : store[o].data[b] = o)
    BY DEF Kept
  <1> QED BY <1>1 DEF Stranded, HsmInv, MoveKeepsData

(* The copy to the temporary object.                                       *)
LEMMA CopyOutInv ==
    ASSUME HsmInv, CopyOut
    PROVE  HsmInv'
  <1>0. PICK i \in Objs : i = sh.i
    BY DEF HsmInv, HsmType, ShType
  <1>1. /\ HsmType /\ sh \in ShType /\ i # Tmp /\ i \in Nat /\ sh.at = "copy_out"
        /\ Prompt \in ShType /\ Prompt.at = "prompt" /\ full \in [Objs -> Nat]
        /\ store[i].data \in Seq(Nat) /\ store[Tmp].data \in Seq(Nat)
    BY ShSteps, TmpIsNone DEF HsmInv, HsmType, ShType, CopyOut, ObjType
  <1>2. UNCHANGED <<pools, cmds, sys_hints>> /\ full' = [o \in Objs |-> Kept(o)]
    BY DEF CopyOut
  <1>3. full' \in [Objs -> Nat] /\ \A o \in Objs : full'[o] = Kept(o)
    BY <1>1, <1>2 DEF Kept
  <1>4. /\ Created(NoMap) \in ObjType /\ Created(NoMap).data = <<>> /\ Created(NoMap).there
    BY <1>1, NewType
  <1>5. CASE UNCHANGED store /\ sh' = Prompt
    <2>1. HsmType' /\ Recorded'
      BY <1>1, <1>2, <1>3, <1>5 DEF HsmInv, HsmType, Recorded
    <2>2. MoveKeepsData'
      BY <1>3, <1>5, KeptIs DEF MoveKeepsData, Whole
    <2>3. MoveInv'
      BY <1>1, <1>5 DEF MoveInv, Moving
    <2> QED BY <2>1, <2>2, <2>3 DEF HsmInv
  <1>6. ASSUME NEW n \in 0..MaxBlocks,
               \/ mio_cmd_obj_copy(i, Tmp, NoMap, n, TRUE) /\ sh' = [sh EXCEPT !.at = "unlink"]
               \/ mio_cmd_obj_copy(i, Tmp, NoMap, n, FALSE) /\ sh' = Prompt
        PROVE  HsmInv'
    <2> DEFINE ok == mio_cmd_obj_copy(i, Tmp, NoMap, n, TRUE) /\ sh' = [sh EXCEPT !.at = "unlink"]
    <2> HIDE DEF ok
    <2>1. /\ store' \in [Objs \cup {Tmp} -> ObjType] /\ Recorded'
          /\ \A p \in Objs : store'[p].data = store[p].data
          /\ store'[Tmp].data = Over(store[i].data, store[Tmp].data, n)
          /\ n <= Len(store[i].data) /\ (ok => n = Len(store[i].data)) /\ n \in Nat
      <3>1. n \in Nat
        OBVIOUS
      <3>2. /\ store' \in [Objs \cup {Tmp} -> ObjType] /\ Recorded'
            /\ \A p \in (Objs \cup {Tmp}) \ {i, Tmp} : store'[p] = store[p]
            /\ store'[i].data = store[i].data
            /\ store'[Tmp].data = Over(store[i].data, store[Tmp].data, n)
            /\ n <= Len(store[i].data) /\ (ok => n = Len(store[i].data))
        <4>1. i \in Objs \cup {Tmp} /\ Tmp \in Objs \cup {Tmp} /\ i # Tmp
          BY <1>1
        <4> QED BY <1>4, <1>6, <3>1, <4>1, CopyIs DEF ok
      <3>3. ASSUME NEW p \in Objs PROVE store'[p].data = store[p].data
        BY <3>2, TmpIsNone
      <3> QED BY <3>1, <3>2, <3>3
    <2> DEFINE s == store'[Tmp].data
    <2>2. /\ sh' \in ShType /\ sh'.at = (IF ok THEN "unlink" ELSE "prompt")
          /\ ok => /\ sh'.i = i /\ sh'.clean = sh.clean /\ sh'.before = sh.before
                   /\ sh'.hot = sh.hot
      <3>1. CASE ok
        BY <1>0, <1>1, <3>1 DEF ShType, ShPlaces, ok
      <3>2. CASE ~ok
        BY <1>1, <1>6, <3>2 DEF ok
      <3> QED BY <3>1, <3>2
    <2>3. HsmType'
      BY <1>1, <1>2, <1>3, <2>1, <2>2 DEF HsmType
    <2>4. ASSUME NEW o \in Objs, full'[o] > 0
          PROVE  Whole(o, store[o])' \/ (o = i /\ Whole(o, store[Tmp])')
      <3>1. full'[o] = full[o] /\ full[o] \in Nat
        BY <1>1, <1>3, <2>4, KeptIs
      <3>2. CASE Whole(o, store[o])
        BY <2>1, <3>1, <3>2 DEF Whole
      <3>3. CASE /\ o = i /\ Whole(o, store[Tmp])
                 /\ \A b \in DOMAIN store[o].data : store[o].data[b] = o
        <4>1. \A b \in 1..n : store[i].data[b] = i
          BY <1>1, <2>1, <3>3
        <4>2. Holds(i, store[Tmp].data, full[i])
          BY <3>3 DEF Whole, Holds
        <4>3. Holds(i, s, full[i])
          <5> DEFINE from == store[i].data
                     to   == store[Tmp].data
                     k    == full[i]
          <5>1. /\ from \in Seq(Nat) /\ to \in Seq(Nat) /\ n \in Nat /\ n <= Len(from)
                /\ k \in Nat /\ s = Over(from, to, n) /\ Holds(i, to, k)
                /\ \A b \in 1..n : from[b] = i
            BY <1>1, <2>1, <3>1, <3>3, <4>1, <4>2
          <5> HIDE DEF s, from, to, k
          <5>2. Holds(i, s, k)
            BY <1>1, <5>1, OverHolds
          <5> QED BY <5>2 DEF k
        <4> QED BY <3>1, <3>3, <4>3 DEF Whole, Holds
      <3> QED BY <1>0, <1>3, <2>4, <3>2, <3>3, KeptIs
    <2>5. MoveKeepsData'
      BY <2>4 DEF MoveKeepsData
    <2>6. CASE ~ok
      BY <2>1, <2>2, <2>3, <2>5, <2>6 DEF HsmInv, MoveInv, Moving
    <2>7. CASE ok
      <3>1. ASSUME full'[i] > 0 PROVE Whole(i, store[Tmp])'
        <4>1. full'[i] = full[i] /\ full[i] \in Nat
          BY <1>1, <1>3, <3>1, KeptIs
        <4>2. CASE Whole(i, store[i])'
          <5>1. Holds(i, store[i].data, full[i]) /\ n >= full[i]
            BY <1>1, <2>1, <2>7, <4>1, <4>2 DEF Whole, Holds
          <5>2. Holds(i, s, full[i])
            BY <1>1, <2>1, <4>1, <5>1, OverHolds
          <5> QED BY <4>1, <5>2 DEF Whole, Holds
        <4> QED BY <1>1, <2>4, <3>1, <4>2
      <3>2. sh.clean => s = sh.before
        <4> SUFFICES ASSUME sh.clean PROVE s = sh.before
          OBVIOUS
        <4>1. ~store[Tmp].there /\ sh.before = store[i].data
          BY <1>0, <1>1 DEF HsmInv, MoveInv
        <4>2. store[Tmp].data = <<>>
          BY <4>1 DEF HsmInv, Recorded
        <4>3. s = Over(store[i].data, store[Tmp].data, n) /\ n = Len(store[i].data)
          BY <2>1, <2>7
        <4> DEFINE from == store[i].data
                   to   == store[Tmp].data
        <4>4. /\ from \in Seq(Nat) /\ to \in Seq(Nat) /\ Len(to) = 0 /\ s = Over(from, to, n)
              /\ n \in Nat /\ n <= Len(from) /\ n >= Len(from)
          BY <1>1, <4>2, <4>3
        <4> HIDE DEF s, from, to
        <4>5. s = from
          BY <4>4, OverNothing
        <4> QED BY <4>1, <4>5 DEF from
      <3>3. TierIs(sh.hot)' # Killed
        BY <1>1, <1>2, <2>2, <2>7 DEF HsmInv, MoveInv, Moving, TierIs
      <3>4. \A o \in Objs \ {i} : InPlace(o)'
        BY <2>4 DEF InPlace
      <3>5. InTmp(i)'
        BY <3>1 DEF InTmp
      <3>6. sh'.at = "unlink" /\ sh'.i = i
        BY <2>2, <2>7
      <3>7. InTmp(sh.i)' /\ \A o \in Objs \ {sh'.i} : InPlace(o)'
        BY <3>4, <3>5, <3>6 DEF InTmp, Whole
      <3>8. MoveInv'
        BY <2>2, <2>7, <3>2, <3>3, <3>6, <3>7 DEF MoveInv, Moving
      <3> QED BY <2>1, <2>3, <2>5, <3>8 DEF HsmInv
    <2> QED BY <2>6, <2>7
  <1> QED BY <1>0, <1>5, <1>6 DEF CopyOut, Copy


(* The original goes when its copy is complete.                            *)
LEMMA UnlinkOldInv ==
    ASSUME HsmInv, UnlinkOld
    PROVE  HsmInv'
  <1>0. PICK i \in Objs : i = sh.i
    BY DEF HsmInv, HsmType, ShType
  <1>1. /\ HsmType /\ sh \in ShType /\ i # Tmp /\ sh.at = "unlink"
        /\ Prompt \in ShType /\ Prompt.at = "prompt" /\ NoObj \in ObjType /\ NoObj.data = <<>>
        /\ UNCHANGED <<pools, cmds, sys_hints, full>>
    BY <1>0, ShSteps, TmpIsNone, NewType DEF HsmInv, HsmType, UnlinkOld, Unlink
  <1>2. CASE sh' = Prompt /\ UNCHANGED store
    BY <1>1, <1>2, QuietStep DEF Moving, HsmType
  <1>3. CASE store' = [store EXCEPT ![i] = NoObj] /\ sh' = [sh EXCEPT !.at = "copy_back"]
    <2>1. /\ store' \in [Objs \cup {Tmp} -> ObjType] /\ Recorded'
          /\ store'[i] = NoObj /\ \A p \in (Objs \cup {Tmp}) \ {i} : store'[p] = store[p]
      BY <1>1, <1>3, OneObj
    <2>2. /\ sh' \in ShType /\ sh'.at = "copy_back" /\ sh'.i = i /\ sh'.clean = sh.clean
          /\ sh'.before = sh.before /\ sh'.hot = sh.hot
      BY <1>0, <1>1, <1>3 DEF ShType, ShPlaces
    <2>3. /\ TierIs(sh.hot) # Killed /\ InTmp(i) /\ (sh.clean => store[Tmp].data = sh.before)
          /\ \A o \in Objs \ {i} : InPlace(o)
      BY <1>0, <1>1 DEF HsmInv, MoveInv, Moving
    <2>4. store'[Tmp] = store[Tmp] /\ \A o \in Objs \ {i} : store'[o] = store[o]
      BY <1>1, <2>1
    <2>5. InTmp(i)' /\ \A o \in Objs \ {i} : InPlace(o)'
      BY <1>1, <2>3, <2>4 DEF InTmp, InPlace, Whole
    <2>6. MoveKeepsData'
      BY <2>5 DEF MoveKeepsData, InTmp, InPlace
    <2>7. TierIs(sh.hot)' # Killed
      BY <1>1, <2>2, <2>3 DEF TierIs
    <2>8. InTmp(sh.i)' /\ \A o \in Objs \ {sh'.i} : InPlace(o)'
      BY <2>2, <2>5 DEF InTmp, Whole
    <2>9. MoveInv'
      BY <2>1, <2>2, <2>3, <2>4, <2>7, <2>8 DEF MoveInv, Moving
    <2>10. HsmType'
      BY <1>1, <2>1, <2>2 DEF HsmType
    <2> QED BY <2>1, <2>6, <2>9, <2>10 DEF HsmInv
  <1> QED BY <1>0, <1>2, <1>3 DEF UnlinkOld, Unlink

(* The copy back, to a new object in the pool of the hotness.              *)
LEMMA CopyBackInv ==
    ASSUME HsmInv, CopyBack
    PROVE  HsmInv'
  <1>0. PICK i \in Objs : i = sh.i
    BY DEF HsmInv, HsmType, ShType
  <1>1. /\ HsmType /\ sh \in ShType /\ i # Tmp /\ sh.at = "copy_back" /\ sh.hot \in Nat
        /\ Prompt \in ShType /\ Prompt.at = "prompt"
        /\ UNCHANGED <<pools, cmds, sys_hints, full>>
    BY <1>0, ShSteps, TmpIsNone DEF HsmInv, HsmType, ShType, CopyBack
  <1>2. /\ TierIs(sh.hot) # Killed /\ InTmp(i) /\ (sh.clean => store[Tmp].data = sh.before)
        /\ store[i] = NoObj /\ \A o \in Objs \ {i} : InPlace(o)
    BY <1>0, <1>1 DEF HsmInv, MoveInv, Moving
  <1> DEFINE hints == HotHint(sh.hot)
  <1>3. /\ Created(hints) \in ObjType /\ Created(hints).data = <<>> /\ Created(hints).there
        /\ (sh.hot > 0 => Created(hints).pool = TierIs(sh.hot))
        /\ store[i].data = <<>> /\ ~store[i].there
    BY <1>1, <1>2, NewType
  <1> HIDE DEF hints
  <1>4. CASE sh' = Prompt /\ UNCHANGED store
    BY <1>1, <1>4, QuietStep DEF Moving, HsmType
  <1>5. ASSUME NEW n \in 0..MaxBlocks,
               \/ mio_cmd_obj_copy(Tmp, i, hints, n, TRUE) /\ sh' = [sh EXCEPT !.at = "unlink_tmp"]
               \/ mio_cmd_obj_copy(Tmp, i, hints, n, FALSE) /\ sh' = Prompt
        PROVE  HsmInv'
    <2>1. /\ store' \in [Objs \cup {Tmp} -> ObjType] /\ Recorded'
          /\ \A p \in (Objs \cup {Tmp}) \ {Tmp, i} : store'[p] = store[p]
          /\ store'[Tmp].data = store[Tmp].data
          /\ store'[i].data = Over(store[Tmp].data, store[i].data, n)
          /\ ~store[i].there => store'[i].pool = Created(hints).pool
          /\ n <= Len(store[Tmp].data)
          /\ mio_cmd_obj_copy(Tmp, i, hints, n, TRUE) => n = Len(store[Tmp].data)
      <3>1. n \in Nat /\ i \in Objs \cup {Tmp} /\ Tmp \in Objs \cup {Tmp} /\ i # Tmp
        BY <1>1
      <3> QED BY <1>3, <1>5, <3>1, CopyIs
    <2>2. InTmp(i)' /\ \A o \in Objs \ {i} : InPlace(o)'
      BY <1>1, <1>2, <2>1 DEF InTmp, InPlace, Whole
    <2>3. MoveKeepsData'
      BY <2>2 DEF MoveKeepsData, InTmp, InPlace
    <2>4. CASE mio_cmd_obj_copy(Tmp, i, hints, n, FALSE) /\ sh' = Prompt
      <3>1. HsmType'
        BY <1>1, <2>1, <2>4 DEF HsmType
      <3>2. MoveInv'
        BY <1>1, <2>4 DEF MoveInv, Moving
      <3> QED BY <2>1, <2>3, <3>1, <3>2 DEF HsmInv
    <2>5. CASE mio_cmd_obj_copy(Tmp, i, hints, n, TRUE) /\ sh' = [sh EXCEPT !.at = "unlink_tmp"]
      <3>1. /\ sh' \in ShType /\ sh'.at = "unlink_tmp" /\ sh'.i = i /\ sh'.clean = sh.clean
            /\ sh'.before = sh.before /\ sh'.hot = sh.hot
        BY <1>0, <1>1, <2>5 DEF ShType, ShPlaces
      <3>2. store'[i].data = store[Tmp].data
        <4> DEFINE from == store[Tmp].data
                   to   == store[i].data
        <4>1. /\ from \in Seq(Nat) /\ to \in Seq(Nat) /\ Len(to) = 0 /\ n \in Nat
              /\ n <= Len(from) /\ n >= Len(from) /\ store'[i].data = Over(from, to, n)
          BY <1>1, <1>3, <2>1, <2>5, SMTT(30) DEF HsmType, ObjType
        <4> HIDE DEF from, to
        <4>2. store'[i].data = from
          BY <4>1, OverNothing
        <4> QED BY <4>2 DEF from
      <3>3. InPlace(i)' /\ (sh.clean => store'[i].data = sh.before)
        BY <1>1, <1>2, <3>2 DEF InPlace, InTmp, Whole
      <3>4. sh.hot > 0 => store'[i].pool = TierIs(sh.hot)
        BY <1>3, <2>1
      <3>5. TierIs(sh.hot)' = TierIs(sh.hot)
        BY <1>1, <3>1 DEF TierIs
      <3>6. InPlace(sh.i)' /\ \A o \in Objs \ {sh'.i} : InPlace(o)'
        BY <2>2, <3>1, <3>3 DEF InPlace, Whole
      <3>7. MoveInv'
        BY <1>2, <3>1, <3>3, <3>4, <3>5, <3>6 DEF MoveInv, Moving
      <3>8. HsmType'
        BY <1>1, <2>1, <3>1 DEF HsmType
      <3> QED BY <2>1, <2>3, <3>7, <3>8 DEF HsmInv
    <2> QED BY <1>5, <2>4, <2>5
  <1> QED BY <1>0, <1>4, <1>5 DEF CopyBack, Copy, hints

(* The temporary object goes, and the move has ended.                      *)
LEMMA UnlinkTmpInv ==
    ASSUME HsmInv, UnlinkTmp
    PROVE  HsmInv'
  <1>0. PICK i \in Objs : i = sh.i
    BY DEF HsmInv, HsmType, ShType
  <1>1. /\ HsmType /\ sh \in ShType /\ i # Tmp /\ sh.at = "unlink_tmp"
        /\ Prompt \in ShType /\ Prompt.at = "prompt"
        /\ NoObj \in ObjType /\ NoObj.data = <<>> /\ ~NoObj.there
        /\ UNCHANGED <<pools, cmds, sys_hints, full>>
    BY <1>0, ShSteps, TmpIsNone, NewType DEF HsmInv, HsmType, UnlinkTmp, Unlink
  <1>2. CASE sh' = Prompt /\ UNCHANGED store
    BY <1>1, <1>2, QuietStep DEF Moving, HsmType
  <1>3. CASE store' = [store EXCEPT ![Tmp] = NoObj] /\ sh' = [sh EXCEPT !.at = "moved"]
    <2>1. /\ store' \in [Objs \cup {Tmp} -> ObjType] /\ Recorded'
          /\ store'[Tmp] = NoObj /\ \A p \in Objs : store'[p] = store[p]
      BY <1>1, <1>3, OneObj, TmpIsNone
    <2>2. /\ sh' \in ShType /\ sh'.at = "moved" /\ sh'.i = i /\ sh'.clean = sh.clean
          /\ sh'.before = sh.before /\ sh'.hot = sh.hot
      BY <1>0, <1>1, <1>3 DEF ShType, ShPlaces
    <2>3. /\ TierIs(sh.hot) # Killed /\ (sh.clean => store[i].data = sh.before)
          /\ sh.hot > 0 => store[i].pool = TierIs(sh.hot)
          /\ \A o \in Objs : InPlace(o)
      BY <1>0, <1>1 DEF HsmInv, MoveInv, Moving
    <2>4. \A o \in Objs : InPlace(o)'
      BY <1>1, <2>1, <2>3 DEF InPlace, Whole
    <2>5. MoveKeepsData'
      BY <2>4 DEF MoveKeepsData, InPlace
    <2>6. TierIs(sh.hot)' = TierIs(sh.hot)
      BY <1>1, <2>2 DEF TierIs
    <2>7. InPlace(sh.i)'
      BY <2>2, <2>4 DEF InPlace, Whole
    <2>8. MoveInv'
      BY <1>1, <2>1, <2>2, <2>3, <2>4, <2>6, <2>7 DEF MoveInv, Moving
    <2>9. HsmType'
      BY <1>1, <2>1, <2>2 DEF HsmType
    <2> QED BY <2>1, <2>5, <2>8, <2>9 DEF HsmInv
  <1> QED BY <1>0, <1>2, <1>3 DEF UnlinkTmp, Unlink

(* The next object, or the prompt.                                         *)
LEMMA MovedInv ==
    ASSUME HsmInv, Moved
    PROVE  HsmInv'
  <1> DEFINE at == IF sh.i + 1 < sh.end THEN "move" ELSE "prompt"
  <1>1. HsmType /\ NextObj \in ShType /\ at \in ShPlaces /\ at \notin Moving
    BY ShSteps DEF HsmInv, ShPlaces, Moving
  <1>2. sh' = [NextObj EXCEPT !.at = at]
    BY DEF Moved
  <1> HIDE DEF at
  <1>3. sh' \in ShType /\ sh'.at = at
    BY <1>1, <1>2 DEF ShType
  <1> QED BY <1>1, <1>3, QuietStep DEF Moved, HsmType

(***************************************************************************)
(* The theorems.                                                           *)
(***************************************************************************)
(* At first there are no objects, and the shell is not running.            *)
LEMMA HsmInitInv == HsmInit => HsmInv
  <1> SUFFICES ASSUME HsmInit PROVE HsmInv
    OBVIOUS
  <1>1. NoObj \in ObjType /\ NoObj.data = <<>> /\ NoMap \in MapType
    BY DEF NoObj, ObjType, NullPool, NoMap, MapType
  <1>2. Down \in ShType /\ Down.at = "down"
    <2>1. 0 \in 0..NrObjs /\ 0 \in Objs /\ <<>> \in Seq(Nat) /\ "down" \in ShPlaces
      BY TmpIsNone, HsmAssumption DEF ShPlaces
    <2> QED BY <2>1 DEF Down, Prompt, ShType
  <1>3. HsmType
    BY <1>1, <1>2 DEF HsmInit, HsmType
  <1>4. Recorded /\ MoveKeepsData
    BY <1>1 DEF HsmInit, Recorded, MoveKeepsData
  <1>5. MoveInv
    BY <1>2 DEF HsmInit, MoveInv, Moving
  <1> QED BY <1>3, <1>4, <1>5 DEF HsmInv

(* Every step of the shell keeps the invariant.                            *)
LEMMA HsmNextInv == HsmInv /\ [HsmNext]_vars => HsmInv'
  <1> SUFFICES ASSUME HsmInv, [HsmNext]_vars PROVE HsmInv'
    OBVIOUS
  <1>1. CASE UNCHANGED vars
    BY <1>1 DEF vars, HsmInv, HsmType, Recorded, MoveKeepsData, Whole, MoveInv, InPlace, InTmp, TierIs
  <1>2. ASSUME \/ hsm_shell_run_cmd("create", 0, NrObjs, 0)
               \/ hsm_shell_run_cmd("workload", 0, NrObjs, MaxBlocks)
        PROVE  HsmInv'
    <2>1. 0 \in Objs /\ NrObjs \in 0..NrObjs /\ 0 \in Nat /\ MaxBlocks \in Nat
      BY TmpIsNone, HsmAssumption
    <2> QED BY <1>2, <2>1, CmdInv
  <1>3. ASSUME NEW idx \in Objs, NEW nr \in 1..NrObjs,
               \/ hsm_shell_run_cmd("move", idx, idx + Cut(idx, nr), 0)
               \/ \E blocks \in 1..MaxBlocks :
                     hsm_shell_run_cmd("write", idx, idx + Cut(idx, nr), blocks)
               \/ hsm_shell_run_cmd("read", idx, Cut(idx, nr), MaxBlocks)
        PROVE  HsmInv'
    <2>1. idx + Cut(idx, nr) \in 0..NrObjs /\ Cut(idx, nr) \in 0..NrObjs
      BY HsmAssumption DEF Cut, Least, Objs
    <2>2. MaxBlocks \in Nat /\ 0 \in Nat /\ \A b \in 1..MaxBlocks : b \in Nat
      BY HsmAssumption
    <2> QED BY <1>3, <2>1, <2>2, CmdInv
  <1> QED BY <1>1, <1>2, <1>3, ShellInv, CreateInv, WriteInv, ReadsInv, IfMoveInv, CopyOutInv,
             UnlinkOldInv, CopyBackInv, UnlinkTmpInv, MovedInv DEF HsmNext, hsm_move_one

(* The shell's invariant holds of every reachable state.                   *)
THEOREM HsmInvariance == HsmSpec => []HsmInv
  BY HsmInitInv, HsmNextInv, PTL DEF HsmSpec

(* Whatever step of a move fails and wherever the process ends: what was   *)
(* stored in an object is whole under its own identifier or under the      *)
(* temporary one, until a move of another object takes the latter.         *)
THEOREM MovesKeepData == HsmSpec => []MoveKeepsData
  <1>1. HsmInv => MoveKeepsData
    BY DEF HsmInv
  <1> QED BY <1>1, HsmInvariance, PTL

(* A move that succeeds has put the object into the pool of its hotness,   *)
(* with the content it had if there was no temporary object before it.     *)
THEOREM MovesArrive == HsmSpec => []MoveArrives
  <1>1. HsmInv => MoveArrives
    BY DEF HsmInv, MoveInv, MoveArrives, TierIs
  <1> QED BY <1>1, HsmInvariance, PTL

(* For any number of pools and any thresholds that are set, if the pools   *)
(* divide their distance: every hotness has a pool, a hotter object none   *)
(* that is slower, and no pool is left without objects.                    *)
THEOREM PoolsAreOrdered == HsmSpec => []PoolsOrdered
  <1>1. HsmInv => PoolsOrdered
    <2> SUFFICES ASSUME HsmInv, pools.nr > 0, Even(sys_hints, pools.nr)
                 PROVE  TiersOrdered(sys_hints, pools.nr)
      BY DEF PoolsOrdered
    <2>1. sys_hints \in MapType /\ pools.nr \in Nat /\ pools.nr >= 1
      BY PoolsAssumption DEF HsmInv, HsmType
    <2> QED BY <2>1, AllTiers
  <1> QED BY <1>1, HsmInvariance, PTL
=============================================================================
