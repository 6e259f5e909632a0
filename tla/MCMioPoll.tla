------------------------------ MODULE MCMioPoll ------------------------------
(* Constants for TLC runs of MioPoll.                                        *)
EXTENDS MioPoll, MotrLinks

(* Operations of every shape: no post-processing, one link, a fixed chain,   *)
(* a chain whose length depends on the data.                                 *)
MCFirstLinks == {"obj_create", "obj_open", "delete_open", "rbw", "kvs", "del_layers"}

(* Operations that are a single link.                                        *)
MCSingleLinks == {"obj_create", "kvs"}

(* Composite objects: create one, delete layers of another.                  *)
MCCompLinks == {"layout_set", "del_layers"}
=============================================================================
