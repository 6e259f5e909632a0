------------------------------- MODULE MioConf -------------------------------
(***************************************************************************)
(* The configuration of MIO (mio_conf.c): what a stream of YAML tokens     *)
(* leaves in the static variables of the library.  A parser state is a     *)
(* record; a function of mio_conf.c is an operator from one to the next.   *)
(***************************************************************************)
EXTENDS Naturals, Sequences, FiniteSets, SequencesExt

CONSTANTS MaxPools,              (* MIO_MOTR_MAX_POOL_CNT                   *)
          YAML_MAX_VAL_LEN,      (* what is counted of a value              *)
          MIO_POOL_MAX_NAME_LEN  (* a name has room for one character more  *)

ASSUME ConfAssumption == /\ MaxPools \in Nat \ {0}
                         /\ YAML_MAX_VAL_LEN \in Nat \ {0}
                         /\ MIO_POOL_MAX_NAME_LEN \in Nat \ {0}

(* conf_table, by type and by how a value is taken.                        *)
InstSettings == {"MIO_LOG_DIR", "MIO_TELEMETRY_PREFIX", "MIO_LOG_LEVEL"}
MotrStrings  == {"MOTR_INST_ADDR", "MOTR_HA_ADDR", "MOTR_PROFILE", "MOTR_PROCESS_FID"}
MotrNumbers  == {"MOTR_TM_RECV_QUEUE_MIN_LEN", "MOTR_MAX_RPC_MSG_SIZE",
                 "MOTR_MAX_IOSIZE_PER_DEV", "MOTR_DEFAULT_UNIT_SIZE",
                 "MOTR_IS_OOSTORE", "MOTR_IS_READ_VERIFY"}
MotrSettings == MotrStrings \cup MotrNumbers \cup {"MOTR_USER_GROUP"}
PoolFields   == [MOTR_POOL_NAME |-> "name", MOTR_POOL_ID |-> "id", MOTR_POOL_TYPE |-> "type"]
MotrKeys     == MotrSettings \cup DOMAIN PoolFields
                \cup {"MOTR_CONFIG", "MOTR_POOLS", "MOTR_POOL_DEFAULT"}
ConfKeys     == InstSettings \cup MotrKeys
                \cup {"MIO_CONFIG", "MIO_DRIVER", "MIO_TELEMETRY_STORE"}

LogLevels == {"MIO_ERROR", "MIO_WARN", "MIO_INFO", "MIO_TRACE", "MIO_TELEMETRY", "MIO_DEBUG"}
PoolTypes == {"NVM", "SSD", "HDD"}

(* Memory that malloc returned and nothing was stored in.                  *)
Garbage == "garbage"

NoConf     == [k \in {} |-> ""]        (* motr_conf = NULL                 *)
NoPoolName == "MIO_DEFAULT_POOL_NULL"  (* mio_default_pool_null_str        *)
ZeroPool   == [name |-> "", id |-> "0:0", type |-> ""]

(***************************************************************************)
(* A document: entries of a key with a scalar, with nothing, or with a     *)
(* list of mappings.  Scan is external: the tokens libyaml makes of it.    *)
(***************************************************************************)
Entry(k, v)   == [key |-> k, val |-> v, items |-> <<>>]
Listing(k, s) == [key |-> k, val |-> "", items |-> s]

Tok(t, s)    == [type |-> t, text |-> s]
ScanPair(e)  == <<Tok("KEY", ""), Tok("SCALAR", e.key), Tok("VALUE", "")>>
                \o (IF e.val = "" THEN <<>> ELSE <<Tok("SCALAR", e.val)>>)
ScanItem(s)  == <<Tok("ENTRY", "")>> \o FlattenSeq([i \in 1..Len(s) |-> ScanPair(s[i])])
ScanEntry(e) == ScanPair(e) \o
                IF e.items = <<>> THEN <<>>
                ELSE <<Tok("SEQUENCE", "")>>
                     \o FlattenSeq([i \in 1..Len(e.items) |-> ScanItem(e.items[i])])
                     \o <<Tok("END", "")>>
Scan(doc)    == FlattenSeq([i \in 1..Len(doc) |-> ScanEntry(doc[i])]) \o <<Tok("STREAM_END", "")>>

(***************************************************************************)
(* The static variables before the first mio_conf_init; is_key, key and rc *)
(* are its locals, inst the fields of the new instance, open the strings   *)
(* of the heap that have no end; wild records that memory in which nothing *)
(* was stored is used or freed as a string, and an access outside of the   *)
(* table of pools.                                                         *)
(***************************************************************************)
StaticConf ==
    [blk_seq |-> FALSE, drv_id |-> "MOTR", telem |-> "NONE", motr_conf |-> NoConf,
     default |-> "", table |-> FALSE, pools |-> <<>>, default_idx |-> 0,
     is_key |-> TRUE, key |-> "INVALID", rc |-> "ok",
     inst |-> [k \in InstSettings |-> ""], open |-> {}, wild |-> FALSE]

(* A new instance is zeroed; mio_conf_init starts with its locals and      *)
(* forgets the default pool.                                               *)
ConfStart(c) ==
    [c EXCEPT !.default = NoPoolName, !.is_key = TRUE, !.key = "INVALID", !.rc = "ok",
              !.inst = [k \in InstSettings |-> ""], !.open = @ \ InstSettings]

conf_alloc_driver(c) ==
    IF c.key \in MotrKeys /\ c.motr_conf = NoConf
    THEN [c EXCEPT !.motr_conf = [k \in MotrSettings |->
             IF k = "MOTR_MAX_IOSIZE_PER_DEV" THEN "default" ELSE Garbage]]
    ELSE c

(* The strings of a configuration are freed, set or not.                   *)
conf_free_drivers(c) ==
    [c EXCEPT !.wild = @ \/ (c.motr_conf # NoConf
                             /\ \E k \in MotrStrings : c.motr_conf[k] = Garbage),
              !.motr_conf = NoConf, !.open = @ \ MotrSettings]

conf_alloc_mio_pools(c) == [c EXCEPT !.table = TRUE, !.pools = <<>>, !.default_idx = 0]
conf_free_mio_pools(c)  == [c EXCEPT !.table = FALSE, !.pools = <<>>, !.default_idx = 0]

mio_conf_fini(c) == conf_free_drivers(conf_free_mio_pools(c))

(* Variant: the pools of an earlier table stay.                            *)
BlkSeqKeep(c) == IF c.key = "MOTR_POOLS" THEN [c EXCEPT !.blk_seq = TRUE, !.table = TRUE] ELSE c

(* The kind of list is remembered, and never forgotten.                    *)
conf_extract_blk_seq(c) ==
    IF c.key = "MOTR_POOLS" THEN conf_alloc_mio_pools([c EXCEPT !.blk_seq = TRUE]) ELSE c

conf_start_block(c) ==
    IF ~c.blk_seq THEN c
    ELSE IF Len(c.pools) + 1 = MaxPools THEN [c EXCEPT !.rc = "err"]
    ELSE [c EXCEPT !.pools = Append(@, ZeroPool), !.wild = @ \/ ~c.table]

conf_extract_key(c, s) ==
    IF s \notin ConfKeys THEN [c EXCEPT !.rc = "err"]
                         ELSE conf_alloc_driver([c EXCEPT !.key = s])

(* atoi of the numerals that occur; anything else is 0.                    *)
atoi(s) == IF s \in {"1", "2", "4096"} THEN s ELSE "0"

(* An identifier of one number leaves the other half unset.                *)
conf_pool_id_sscanf(s) == IF s \in {"1:1", "1:2", "1:3"} THEN s ELSE Garbage

(* A string as it is stored: of its characters the first n.                *)
First(n, s) == IF Len(s) > n THEN SubSeq(s, 1, n) ELSE s

(* conf_copy_str allocates and copies the characters that were counted;    *)
(* there is no byte for the end of the string.                             *)
conf_copy_str(v) == First(YAML_MAX_VAL_LEN, v)
NoEnd(c)         == [c EXCEPT !.open = @ \cup {c.key}]

(* No name is refused for its length: a long one fills the array and has   *)
(* no end.                                                                 *)
PoolName(v) == First(MIO_POOL_MAX_NAME_LEN + 1, v)

(* A field of the last pool of the table.                                  *)
PoolSet(c, f, v) ==
    IF c.pools = <<>> THEN [c EXCEPT !.wild = TRUE]
                      ELSE [c EXCEPT !.pools[Len(c.pools)][f] = v]

conf_extract_value(c, v) ==
    CASE c.key = "MIO_DRIVER" ->
           IF v = "MOTR" THEN [c EXCEPT !.drv_id = v]
                         ELSE [c EXCEPT !.drv_id = "INVALID", !.rc = "err"]
      [] c.key = "MIO_TELEMETRY_STORE" ->
           [c EXCEPT !.telem = IF v \in {"ADDB", "LOG"} THEN v ELSE "NONE"]
      [] c.key = "MIO_LOG_LEVEL" ->
           [c EXCEPT !.inst[c.key] = v, !.rc = IF v \notin LogLevels THEN "err" ELSE @]
      [] c.key \in InstSettings \ {"MIO_LOG_LEVEL"} ->
           NoEnd([c EXCEPT !.inst[c.key] = conf_copy_str(v)])
      [] c.key \in MotrNumbers -> [c EXCEPT !.motr_conf[c.key] = atoi(v)]
      [] c.key \in MotrSettings \ MotrNumbers ->
           NoEnd([c EXCEPT !.motr_conf[c.key] = conf_copy_str(v)])
      [] c.key = "MOTR_POOL_DEFAULT" -> [c EXCEPT !.default = PoolName(v)]
      [] c.key = "MOTR_POOL_NAME" -> PoolSet(c, "name", PoolName(v))
      [] c.key = "MOTR_POOL_ID" -> PoolSet(c, "id", conf_pool_id_sscanf(v))
      [] c.key = "MOTR_POOL_TYPE" ->
           IF v \in PoolTypes THEN PoolSet(c, "type", v) ELSE [c EXCEPT !.rc = "err"]
      [] OTHER -> c

(* One pass of the loop of mio_conf_init.                                  *)
ConfToken(c, t) ==
    CASE t.type = "KEY" -> [c EXCEPT !.is_key = TRUE]
      [] t.type = "VALUE" -> [c EXCEPT !.is_key = FALSE]
      [] t.type = "SCALAR" -> IF c.is_key THEN conf_extract_key(c, t.text)
                                          ELSE conf_extract_value(c, t.text)
      [] t.type = "SEQUENCE" -> conf_extract_blk_seq(c)
      [] t.type = "ENTRY" -> conf_start_block(c)
      [] OTHER -> c

(* The loop of mio_conf_init: it ends at the first error or with the stream. *)
ConfScan(c, toks) ==
    LET loop[i \in 0..Len(toks)] ==
            IF i = 0 THEN ConfStart(c)
            ELSE LET x == loop[i - 1] IN IF x.rc = "ok" THEN ConfToken(x, toks[i]) ELSE x
    IN  loop[Len(toks)]

mio_conf_default_pool_has_set(c) == c.default # NoPoolName

(* The first pool of the default's name; none of that name is an error.    *)
(* Two names without an end may differ in what lies behind them: any of    *)
(* the pools may be taken for it, and none.                                *)
ConfDefaultPool(c) ==
    LET found == {i \in 1..Len(c.pools) : c.pools[i].name = c.default}
        first == {i \in found : \A j \in found : i <= j}
        none  == [c EXCEPT !.rc = "err"]
        is(i) == [c EXCEPT !.default_idx = i - 1]
    IN  IF ~mio_conf_default_pool_has_set(c) THEN {c}
        ELSE IF found = {} THEN {none}
        ELSE IF Len(c.default) > MIO_POOL_MAX_NAME_LEN THEN {none} \cup {is(i) : i \in found}
        ELSE {is(i) : i \in first}

(***************************************************************************)
(* What a document says, read without a parser.                            *)
(***************************************************************************)
Says(doc, k)  == \E i \in 1..Len(doc) : doc[i].key = k /\ (doc[i].val # "" \/ doc[i].items # <<>>)
Place(doc, k) == CHOOSE i \in 1..Len(doc) :
                    doc[i].key = k /\ \A j \in i+1..Len(doc) : doc[j].key # k
Said(doc, k)  == doc[Place(doc, k)].val
SaidPools(doc) ==
    LET items == doc[Place(doc, "MOTR_POOLS")].items
        field(s, k) == s[CHOOSE i \in 1..Len(s) : s[i].key = k].val
    IN  [i \in 1..Len(items) |-> [name |-> PoolName(field(items[i], "MOTR_POOL_NAME")),
                                  id   |-> field(items[i], "MOTR_POOL_ID"),
                                  type |-> field(items[i], "MOTR_POOL_TYPE")]]
==============================================================================
