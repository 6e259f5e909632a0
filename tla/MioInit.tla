------------------------------- MODULE MioInit -------------------------------
(***************************************************************************)
(* The life of the library in one process: mio_init with all its stages,   *)
(* mio_fini, and what they leave behind in the static variables of the     *)
(* library and in Motr.  The process may initialise MIO several times, and *)
(* another process may create the index of attributes at any moment.       *)
(***************************************************************************)
EXTENDS MioConf

CONSTANTS Files,     (* the files mio_init may be given: [doc, toks, well]  *)
          MaxInits   (* bound on the calls of mio_init                      *)

VARIABLES stage,     (* "out" of mio_init, or its next stage                *)
          file,      (* the file that is being read, or was read last       *)
          conf,      (* the static variables of mio_conf.c                  *)
          instance,  (* mio_instance: NULL, live, set (has a driver), freed, *)
                     (* or the process is dead                              *)
          clients,   (* Motr clients that are running                       *)
          telem_ops, (* mio_telem_rec_ops                                   *)
          attrs_kvs, (* the index of attributes exists in Motr              *)
          inits,     (* calls of mio_init                                   *)
          strays     (* clients that a failed mio_init has left running     *)

initVars == <<stage, file, conf, instance, clients, telem_ops, attrs_kvs, inits, strays>>

(***************************************************************************)
(* What is assumed of a file: its keys may be unknown and its values wrong *)
(* or missing, but it says nothing twice, only the pools are a list, and a *)
(* pool has its three fields.                                              *)
(***************************************************************************)
Needed  == MotrStrings \cup {"MOTR_USER_GROUP"}
Values  == {v \in STRING : conf_copy_str(v) \in STRING /\ PoolName(v) \in STRING}
Pairs   == [key : STRING, val : Values, items : {<<>>}]
Entries == [key : STRING, val : Values, items : Seq(Seq(Pairs))]

PoolItem(s) ==
    /\ Len(s) = 3 /\ {s[i].key : i \in 1..3} = DOMAIN PoolFields
    /\ \A i \in 1..3 : /\ s[i].val # ""
                       /\ s[i].key = "MOTR_POOL_ID" => conf_pool_id_sscanf(s[i].val) = s[i].val

EntryMade(e) ==
    /\ e.key \notin DOMAIN PoolFields
    /\ e.items # <<>> => e.key = "MOTR_POOLS"
    /\ e.key = "MOTR_POOLS" => e.val = "" /\ \A i \in 1..Len(e.items) : PoolItem(e.items[i])
    /\ e.key = "MIO_TELEMETRY_STORE" => e.val \in {"", "ADDB", "LOG", "NONE"}
    /\ e.key = "MOTR_POOL_DEFAULT" => PoolName(e.val) # NoPoolName
    /\ e.key \in Needed => e.val # "" /\ conf_copy_str(e.val) # Garbage
    /\ e.key = "MIO_DRIVER" => e.val # ""

(* What may be wrong comes before the section of Motr or after the strings *)
(* of it: mio_conf_init frees them if it fails, set or not.  NoWild needs  *)
(* this.                                                                   *)
MayFail(e) == e.key \notin ConfKeys \ {"MIO_DRIVER", "MIO_LOG_LEVEL", "MOTR_POOLS"}
Careful(doc) == \A j \in 1..Len(doc) : MayFail(doc[j]) =>
    \/ \A h \in 1..j : doc[h].key \notin MotrKeys
    \/ \A k \in MotrStrings : \E i \in 1..j : doc[i].key = k

Made(doc) ==
    /\ doc \in Seq(Entries)
    /\ \A i \in 1..Len(doc) : EntryMade(doc[i])
    /\ \A i, j \in 1..Len(doc) : doc[i].key = doc[j].key => i = j
    /\ \A k \in Needed \cup {"MIO_DRIVER"} : \E i \in 1..Len(doc) : doc[i].key = k
    /\ Careful(doc)

ASSUME InitAssumption == /\ MaxInits \in Nat
                         /\ \A f \in DOMAIN Files : /\ Made(Files[f].doc)
                                                    /\ Files[f].well \in BOOLEAN
                                                    /\ Files[f].toks = Scan(Files[f].doc)

Doc == Files[file].doc

mio_driver_get(id) == id = "MOTR"   (* the one driver mio_drivers_register knows *)

(* mio_instance_check lets a call pass; "freed" passes as well.            *)
mio_instance_check == instance \in {"set", "freed"}

InstanceInit ==
    /\ stage = "out" /\ inits = 0 /\ strays = 0 /\ clients = 0
    /\ file \in DOMAIN Files
    /\ conf = StaticConf
    /\ instance = "NULL" /\ telem_ops = "NULL"
    /\ attrs_kvs \in BOOLEAN

(* A stage succeeds and the next one follows.                              *)
Pass(from, to) == stage = from /\ stage' = to

mio_init(f) ==
    /\ stage = "out" /\ instance \notin {"set", "dead"} /\ inits < MaxInits
    /\ inits' = inits + 1 /\ file' = f
    /\ \/ instance' = "live" /\ stage' = "conf"
       \/ instance' = "NULL" /\ UNCHANGED stage       (* no memory           *)
    /\ UNCHANGED <<conf, clients, telem_ops, attrs_kvs, strays>>

(* mio_conf_init failed: the instance goes; of the configuration only what *)
(* mio_conf_init freed itself.                                             *)
ConfFails(c) == stage = "conf" /\ stage' = "out" /\ instance' = "NULL" /\ conf' = c

OpenFails == /\ ConfFails([conf EXCEPT !.default = NoPoolName])
             /\ UNCHANGED <<file, clients, telem_ops, attrs_kvs, inits, strays>>

(* A scanner that met an error returns no token for ever.                  *)
ScanForever == /\ stage = "conf" /\ ~Files[file].well /\ ConfScan(conf, Files[file].toks).rc = "ok"
               /\ UNCHANGED initVars

mio_conf_init ==
    /\ stage = "conf"
    /\ LET scanned == ConfScan(conf, Files[file].toks)
       IN  \/ scanned.rc # "ok" /\ ConfFails(conf_free_drivers(scanned))
           \/ /\ scanned.rc = "ok" /\ Files[file].well
              /\ \E c \in ConfDefaultPool(scanned) :
                    \/ c.rc # "ok" /\ ConfFails(c)
                    \/ /\ c.rc = "ok"
                       /\ Pass("conf", "perm")
                       /\ instance' = "set"
                       /\ conf' = [c EXCEPT !.wild = @ \/ ~mio_driver_get(c.drv_id)]
    /\ UNCHANGED <<file, clients, telem_ops, attrs_kvs, inits, strays>>

(* The label error of mio_init.                                            *)
InitFails(s) == /\ stage = s /\ stage' = "out"
                /\ instance' = "NULL"
                /\ conf' = mio_conf_fini(conf)

(* Root, or a member of the configured group; an unset group is read.      *)
mio_motr_user_perm ==
    /\ \/ Pass("perm", "log") /\ UNCHANGED <<conf, instance>>
       \/ InitFails("perm")
    /\ UNCHANGED <<file, clients, telem_ops, attrs_kvs, inits, strays>>

mio_log_init ==
    /\ \/ Pass("log", "client") /\ UNCHANGED <<conf, instance>>
       \/ InitFails("log")
    /\ UNCHANGED <<file, clients, telem_ops, attrs_kvs, inits, strays>>

(* mio_motr_init up to the realm; a realm that cannot be opened ends the   *)
(* client again.                                                           *)
mio_motr_init ==
    /\ \/ Pass("client", "lookup") /\ clients' = clients + 1 /\ UNCHANGED <<conf, instance>>
       \/ InitFails("client") /\ UNCHANGED clients
    /\ UNCHANGED <<file, telem_ops, attrs_kvs, inits, strays>>

(* Variant: the client is left running.                                    *)
AttrsFailLoose(s) == InitFails(s) /\ UNCHANGED clients

(* The label error of mio_motr_init, and then that of mio_init.            *)
AttrsFail(s) == InitFails(s) /\ clients' = clients - 1

(* motr_create_obj_attrs_kvs: LOOKUP ...                                   *)
AttrsLookup ==
    /\ \/ /\ Pass("lookup", IF attrs_kvs THEN "telemetry" ELSE "create")
          /\ UNCHANGED <<conf, instance, clients>>
       \/ AttrsFail("lookup")
    /\ UNCHANGED <<file, telem_ops, attrs_kvs, inits, strays>>

(* ... and CREATE, which fails if the index has come into being since.     *)
AttrsCreate ==
    /\ \/ /\ ~attrs_kvs /\ attrs_kvs' = TRUE
          /\ Pass("create", "telemetry")
          /\ UNCHANGED <<conf, instance, clients>>
       \/ AttrsFail("create") /\ UNCHANGED attrs_kvs
    /\ UNCHANGED <<file, telem_ops, inits, strays>>

(* mio_telemetry_init, which fails for want of memory only, and then       *)
(* mio_hints_init.  Its failure leaves the driver as it is.                *)
mio_telemetry_init ==
    /\ \/ /\ Pass("telemetry", "out")
          /\ telem_ops' = IF conf.telem = "NONE" THEN "NULL" ELSE conf.telem
          /\ UNCHANGED <<conf, instance, strays>>
       \/ InitFails("telemetry") /\ strays' = strays + 1 /\ UNCHANGED telem_ops
    /\ UNCHANGED <<file, clients, attrs_kvs, inits>>

(* Nothing without an instance.  The pointer to a freed one stays as it is: *)
(* called once more, mio_fini takes the driver from freed memory and ends  *)
(* Motr's client and frees the instance again, which no process survives.  *)
mio_fini ==
    /\ stage = "out" /\ instance # "dead"
    /\ \/ instance = "NULL" /\ UNCHANGED <<telem_ops, clients, instance, conf>>
       \/ /\ instance = "set" /\ instance' = "freed"
          /\ telem_ops' = "NULL" /\ clients' = clients - 1 /\ conf' = mio_conf_fini(conf)
       \/ instance = "freed" /\ instance' = "dead" /\ UNCHANGED <<telem_ops, clients, conf>>
    /\ UNCHANGED <<stage, file, attrs_kvs, inits, strays>>

(* Another process initialises MIO.                                        *)
OtherCreates ==
    /\ ~attrs_kvs /\ attrs_kvs' = TRUE
    /\ UNCHANGED <<stage, file, conf, instance, clients, telem_ops, inits, strays>>

(* The steps of mio_init after the call.                                   *)
InitStep == \/ OpenFails \/ ScanForever \/ mio_conf_init
            \/ mio_motr_user_perm \/ mio_log_init \/ mio_motr_init
            \/ AttrsLookup \/ AttrsCreate \/ mio_telemetry_init

(* No file of the form above, and no sequence of calls, makes mio_conf.c   *)
(* free a string that was never set or write outside its table of pools.   *)
NoWild == ~conf.wild

(* Whatever earlier calls have left in the static variables of mio_conf.c, *)
(* a call of mio_init that got past mio_conf_init has stored the           *)
(* characters its own file says: every setting, up to YAML_MAX_VAL_LEN,    *)
(* the pools in their order, with names up to the size of their array, and *)
(* as default a pool of the declared name; with NoWild on the way.  It     *)
(* does not say where a string ends: ConfTerminated does.                  *)
ConfAsDeclared ==
    /\ NoWild
    /\ instance = "set" /\ stage # "out" =>
        /\ \A k \in MotrSettings : Says(Doc, k) =>
              conf.motr_conf[k] = IF k \in MotrNumbers THEN atoi(Said(Doc, k))
                                                       ELSE conf_copy_str(Said(Doc, k))
        /\ \A k \in InstSettings : Says(Doc, k) =>
              conf.inst[k] = IF k = "MIO_LOG_LEVEL" THEN Said(Doc, k) ELSE conf_copy_str(Said(Doc, k))
        /\ Says(Doc, "MIO_TELEMETRY_STORE") => conf.telem = Said(Doc, "MIO_TELEMETRY_STORE")
        /\ Says(Doc, "MOTR_POOLS") => conf.pools = SaidPools(Doc)
        /\ Says(Doc, "MOTR_POOL_DEFAULT") =>
              conf.pools[conf.default_idx + 1].name = PoolName(Said(Doc, "MOTR_POOL_DEFAULT"))

(* To be refuted: the strings that the later stages of mio_init read (the  *)
(* group in mio_motr_user_perm, the directory in mio_log_init, addresses,  *)
(* profile and process in mio_motr_init, the names of pools) have an end,  *)
(* as mio_conf.c:271 counted it: "strnlen(from, max_len) + 1".             *)
ConfTerminated ==
    instance = "set" /\ stage # "out" =>
        /\ conf.open = {}
        /\ \A i \in 1..Len(conf.pools) : Len(conf.pools[i].name) <= MIO_POOL_MAX_NAME_LEN

(* Outside of mio_init and mio_fini, MIO is either up with one client of   *)
(* Motr and the telemetry of its configuration, or down with neither; the  *)
(* one exception are the clients of calls of mio_init in which telemetry   *)
(* could not be started.                                                   *)
NothingLeftRunning ==
    stage = "out" =>
        /\ clients = strays + (IF instance = "set" THEN 1 ELSE 0)
        /\ instance # "live"
        /\ (telem_ops # "NULL") => (instance = "set" /\ telem_ops = conf.telem)

==============================================================================
