------------------------------- MODULE MioKvs -------------------------------
(***************************************************************************)
(* A key-value set of Motr and the tools of examples/kvs.c that work on it *)
(* through mio_kvs_pair_put, _get, _del and _next, in batches: several     *)
(* processes insert, retrieve, delete and list pairs at the same time.     *)
(* Keys are strings that end in a serial number, so the order of a set is  *)
(* not that of the numbers.  A pair is its key; values are left out.       *)
(***************************************************************************)
EXTENDS Integers, Sequences, FiniteSets

CONSTANTS Clients,     (* the processes                                     *)
          KeyOrder,    (* the serial numbers, in the order of their strings *)
          PairsPerOp   (* KVS_MAX_NR_PAIRS_PER_OP                           *)

Knos == {KeyOrder[i] : i \in DOMAIN KeyOrder}

ASSUME KvsAssumption == /\ KeyOrder \in Seq(Nat)
                        /\ Cardinality(Knos) = Len(KeyOrder)
                        /\ PairsPerOp \in Nat \ {0}

VARIABLES set,     (* the set in Motr: is there one, and its keys           *)
          tool,    (* what each process runs                                *)
          stay     (* history: the keys, not below its start, that a        *)
                   (* listing could have found at any moment so far         *)

kvsvars == <<set, tool, stay>>

Rank(k) == CHOOSE i \in DOMAIN KeyOrder : KeyOrder[i] = k
From(k) == {j \in Knos : Rank(j) >= Rank(k)}

NoSet == [there |-> FALSE, keys |-> {}]
Idle  == [at |-> "idle", start |-> 0, kno |-> 0, nr |-> 0, done |-> {},
          first |-> TRUE, listed |-> <<>>, garbled |-> FALSE]
Gone  == [Idle EXCEPT !.at = "gone"]

(* Earlier processes may have left a set.                                  *)
KvsInit == /\ set \in {NoSet} \cup [there : {TRUE}, keys : SUBSET Knos]
           /\ tool = [c \in Clients |-> Idle]
           /\ stay = [c \in Clients |-> {}]

NrPairsOp(c) == IF tool[c].nr > PairsPerOp THEN PairsPerOp ELSE tool[c].nr
Batch(c)     == tool[c].kno..tool[c].kno + NrPairsOp(c) - 1

------------------------------------------------------------------------------
(* The set is created or deleted, or it is not.                            *)
mio_kvs_create_set(c) == /\ tool[c].at = "idle" /\ ~set.there
                         /\ set' = [there |-> TRUE, keys |-> {}]
                         /\ UNCHANGED <<tool, stay>>

mio_kvs_del_set(c) == /\ tool[c].at = "idle" /\ set.there
                      /\ set' = NoSet
                      /\ stay' = [d \in Clients |-> {}]
                      /\ UNCHANGED tool

(* A tool is started on nr pairs from the serial number kno.               *)
RunTool(c, at, kno, nr) ==
    /\ tool[c].at = "idle"
    /\ at # "next" => kno + nr - 1 \in Knos
    /\ tool' = [tool EXCEPT ![c] = [Idle EXCEPT !.at = at, !.start = kno, !.kno = kno, !.nr = nr]]
    /\ stay' = [stay EXCEPT ![c] = IF at = "next" THEN set.keys \cap From(kno) ELSE {}]
    /\ UNCHANGED set

(***************************************************************************)
(* PUT, GET and DEL of a batch.  Motr serves the keys in any order; the    *)
(* result of each key is not looked at, and a key that exists is left      *)
(* alone by PUT.                                                           *)
(***************************************************************************)
Serve(c, k) ==
    /\ set.there /\ k \in Batch(c) \ tool[c].done
    /\ tool' = [tool EXCEPT ![c].done = @ \cup {k}]

mio_motr_kvs_put(c, k) == /\ tool[c].at = "put" /\ Serve(c, k)
                          /\ set' = [set EXCEPT !.keys = @ \cup {k}]
                          /\ UNCHANGED stay

mio_motr_kvs_get(c, k) == /\ tool[c].at = "get" /\ Serve(c, k)
                          /\ UNCHANGED <<set, stay>>

mio_motr_kvs_del(c, k) == /\ tool[c].at = "del" /\ Serve(c, k)
                          /\ set' = [set EXCEPT !.keys = @ \ {k}]
                          /\ stay' = [d \in Clients |-> stay[d] \ {k}]

BatchRest(t, n) == [t EXCEPT !.nr = t.nr - n, !.kno = t.kno + n, !.done = {}]

(* All the keys are served and the tool goes on with the next batch.       *)
BatchDone(c) ==
    /\ tool[c].at \in {"put", "get", "del"} /\ tool[c].done = Batch(c)
    /\ tool' = [tool EXCEPT ![c] =
          IF tool[c].nr = NrPairsOp(c) THEN Idle ELSE BatchRest(tool[c], NrPairsOp(c))]
    /\ UNCHANGED <<set, stay>>

(* The operation fails, with some of its keys served, and the tool ends.   *)
(* mio_kvs_pair_del drops the result of the driver, so that the tool waits *)
(* for an operation that does not exist and the process ends.              *)
BatchFails(c) ==
    /\ tool[c].at \in {"put", "get", "del"}
    /\ tool' = [tool EXCEPT ![c] = IF tool[c].at = "del" /\ tool[c].done = {} THEN Gone ELSE Idle]
    /\ UNCHANGED <<set, stay>>

(***************************************************************************)
(* mio_cmd_kvs_list_pairs.                                                 *)
(***************************************************************************)
(* The keys of a set that are not below the start, or that are above it.   *)
(* The start need not be a key of the set.                                 *)
KeysFrom(start, exclude) ==
    (set.keys \cap From(start)) \ (IF exclude THEN {start} ELSE {})

(* NEXT: the first n of them, in order, or all if there are fewer.         *)
mio_motr_kvs_next(start, exclude, n) ==
    LET all == KeysFrom(start, exclude) IN
    {ks \in UNION {[1..m -> all] : m \in 0..n} :
        /\ \A i, j \in DOMAIN ks : i < j => Rank(ks[i]) < Rank(ks[j])
        /\ \A k \in all : \/ \E i \in DOMAIN ks : ks[i] = k
                          \/ /\ Len(ks) = n
                             /\ \A i \in DOMAIN ks : Rank(ks[i]) < Rank(k)}

(* The tool has room for one pair: the others overwrite what is next to    *)
(* it, of which the process may die.                                       *)
Overrun(c) == NrPairsOp(c) > 1

(* The keys ks are listed, of n asked for: the serial number of the last   *)
(* one is the next start.                                                  *)
Queried(t, ks, n) == [t EXCEPT !.at = IF Len(ks) = n THEN "next" ELSE "end",
                               !.first = FALSE, !.nr = t.nr - n, !.listed = t.listed \o ks,
                               !.kno = IF ks = <<>> THEN t.kno ELSE ks[Len(ks)]]

(* Variant: every query begins with its start key.                         *)
QueryNextFromStart(c, n) ==
    \E ks \in mio_motr_kvs_next(tool[c].kno, FALSE, n) :
        tool' = [tool EXCEPT ![c] = Queried(tool[c], ks, n)]

kvs_query_next(c, n) ==
    \E ks \in mio_motr_kvs_next(tool[c].kno, ~tool[c].first, n) :
        tool' = [tool EXCEPT ![c] = Queried(tool[c], ks, n)]

mio_cmd_kvs_list_pairs(c) ==
    /\ tool[c].at = "next" /\ tool[c].nr > 0
    /\ \/ set.there /\ kvs_query_next(c, NrPairsOp(c))
       \/ Overrun(c) /\ tool' = [tool EXCEPT ![c] = Gone]
    /\ UNCHANGED <<set, stay>>

(* A query that fails: the results of the keys are what the memory held.   *)
(* The tool ends, or it takes the query for a success and goes on from     *)
(* its start or, with more than one pair, from any key it finds, or dies.  *)
QueryNextFails(c) ==
    /\ tool[c].at = "next" /\ tool[c].nr > 0
    /\ \/ tool' = [tool EXCEPT ![c] = [tool[c] EXCEPT !.at = "end", !.garbled = TRUE]]
       \/ \E k \in IF Overrun(c) THEN Knos ELSE {tool[c].kno} :
            tool' = [tool EXCEPT ![c] = [tool[c] EXCEPT !.kno = k, !.nr = tool[c].nr - NrPairsOp(c),
                                                        !.first = FALSE, !.garbled = TRUE]]
       \/ Overrun(c) /\ tool' = [tool EXCEPT ![c] = Gone]
    /\ UNCHANGED <<set, stay>>

(* The end of the set, an error, or as many pairs as were asked for.       *)
ListDone(c) == /\ tool[c].at = "end" \/ (tool[c].at = "next" /\ tool[c].nr = 0)
               /\ tool' = [tool EXCEPT ![c] = Idle]
               /\ UNCHANGED <<set, stay>>

------------------------------------------------------------------------------
(* Every listing none of whose queries failed, whoever inserts and deletes *)
(* meanwhile: the keys come in the order of the set, none twice and none   *)
(* below the start; and a key that was there all the time is not passed    *)
(* over, nor left out when the listing says that it has reached the end.   *)
ListComplete == \A c \in Clients :
    LET t == tool[c]
        l == t.listed
    IN  (t.at \in {"next", "end"} /\ ~t.garbled) =>
          /\ \A i, j \in DOMAIN l : i < j => Rank(l[i]) < Rank(l[j])
          /\ \A i \in DOMAIN l : Rank(l[i]) >= Rank(t.start)
          /\ \A k \in stay[c] :
               \/ \E i \in DOMAIN l : l[i] = k
               \/ t.at = "next" /\ \A i \in DOMAIN l : Rank(l[i]) < Rank(k)
==============================================================================
