----------------------------- MODULE MioIndices -----------------------------
(* Processes that use what MIO keeps in the indices of Motr: a key-value   *)
(* set and the layers of a composite object.  A process does one thing at  *)
(* a time.                                                                 *)
EXTENDS MioKvs, MioCompObj

CONSTANTS MaxPairs,   (* bound on the pairs of a call                       *)
          MaxCalls    (* bound on the calls                                 *)

ASSUME IndicesAssumption == /\ Openers = Clients
                            /\ MaxPairs \in Nat /\ MaxCalls \in Nat

VARIABLE calls        (* the number of calls so far                         *)

vars == <<kvsvars, compvars, calls>>

(* To keep the instances small, only one of the two has a past.            *)
IndicesInit == KvsInit /\ CompInit /\ calls = 0 /\ (set = NoSet \/ layout = {})

(* A process that is free makes a call.                                    *)
Free(c) == tool[c].at = "idle" /\ call[c].at = "none" /\ calls < MaxCalls /\ calls' = calls + 1

KvsCall(c) ==
    /\ Free(c)
    /\ \/ mio_kvs_create_set(c) \/ mio_kvs_del_set(c)
       \/ \E at \in {"put", "get", "del", "next"}, kno \in Knos, nr \in 1..MaxPairs : RunTool(c, at, kno, nr)
    /\ UNCHANGED compvars

CompCall(c) ==
    /\ Free(c)
    /\ \/ Call(c, "create", {}) \/ Call(c, "list", {})
       \/ \E ls \in SUBSET Layers \ {{}} : Call(c, "add", ls) \/ Call(c, "del", ls)
    /\ UNCHANGED kvsvars

KvsStep(c) ==
    /\ \/ \E k \in Knos : mio_motr_kvs_put(c, k) \/ mio_motr_kvs_get(c, k) \/ mio_motr_kvs_del(c, k)
       \/ BatchDone(c) \/ BatchFails(c)
       \/ mio_cmd_kvs_list_pairs(c) \/ QueryNextFails(c) \/ ListDone(c)
    /\ UNCHANGED <<compvars, calls>>

CompStep(c) ==
    /\ \/ mio_motr_comp_obj_create(c) \/ mio_motr_comp_obj_add_layers(c)
       \/ motr_comp_obj_get_layers(c) \/ motr_comp_obj_del_layers_pp(c)
       \/ motr_comp_obj_list_layers_pp(c) \/ CompFails(c)
    /\ UNCHANGED <<kvsvars, calls>>

IndicesNext == \E c \in Clients : KvsCall(c) \/ CompCall(c) \/ KvsStep(c) \/ CompStep(c)

IndicesSpec == IndicesInit /\ [][IndicesNext]_vars
==============================================================================
