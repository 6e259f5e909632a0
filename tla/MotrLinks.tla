------------------------------ MODULE MotrLinks ------------------------------
(***************************************************************************)
(* The driver operations of the Motr driver and what their post-processing *)
(* functions can return (driver_motr_obj.c, driver_motr_kvs.c,             *)
(* driver_motr_comp_obj.c).  A member of the set that is a link kind is a  *)
(* further driver operation that the function launches.                    *)
(***************************************************************************)

(* Objects: create and sync have no post-processing.                       *)
ObjPlain == {"obj_create", "obj_sync"}

motr_obj_open_pp            == {"attrs_get", "ERR"}
motr_obj_attrs_get_pp       == {"FINAL"}
motr_obj_attrs_query_free_pp == {"FINAL"}
motr_obj_delete_open_pp     == {"obj_delete", "ERR"}
motr_obj_delete_pp          == {"attrs_del", "ERR"}
motr_obj_read_before_write_pp == {"rbw", "write", "ERR"}
motr_obj_write_pp           == {"write", "attrs_put", "FINAL", "ERR"}
motr_obj_read_pp            == {"read", "FINAL", "ERR"}

(* Key-value sets: each call is one Motr operation, whose post-processing  *)
(* hands out the values (get, next) and frees the index; put, del,         *)
(* create_set and del_set share motr_kvs_generic_pp.  The -EIO return of   *)
(* get and next needs a Motr operation that is not stable, which no caller *)
(* of a post-processing function hands it.                                 *)
motr_kvs_get_pp             == {"FINAL"}
motr_kvs_next_pp            == {"FINAL"}
motr_kvs_generic_pp         == {"FINAL"}

(* Composite objects.                                                      *)
CompPlain == {"layout_set"}
motr_comp_obj_add_layers_pp  == {"FINAL"}
motr_comp_obj_del_layers_pp  == {"layout_set", "ERR"}
motr_comp_obj_list_layers_pp == {"FINAL", "ERR"}
motr_comp_obj_exts_release_pp == {"FINAL"}
motr_comp_obj_exts_get_pp    == {"FINAL"}

MotrLinkKinds == ObjPlain \cup CompPlain \cup
    {"obj_open", "attrs_get", "delete_open", "obj_delete", "attrs_del",
     "rbw", "write", "attrs_put", "read", "kvs_get", "kvs_next", "kvs",
     "add_layers", "del_layers", "list_layers", "exts", "exts_get"}

MotrPpTable == [l \in MotrLinkKinds |->
    CASE l = "obj_open"    -> motr_obj_open_pp
      [] l = "attrs_get"   -> motr_obj_attrs_get_pp
      [] l = "delete_open" -> motr_obj_delete_open_pp
      [] l = "obj_delete"  -> motr_obj_delete_pp
      [] l \in {"attrs_put", "attrs_del"} -> motr_obj_attrs_query_free_pp
      [] l = "rbw"         -> motr_obj_read_before_write_pp
      [] l = "write"       -> motr_obj_write_pp
      [] l = "read"        -> motr_obj_read_pp
      [] l = "kvs_get"     -> motr_kvs_get_pp
      [] l = "kvs_next"    -> motr_kvs_next_pp
      [] l = "kvs"         -> motr_kvs_generic_pp
      [] l = "add_layers"  -> motr_comp_obj_add_layers_pp
      [] l = "del_layers"  -> motr_comp_obj_del_layers_pp
      [] l = "list_layers" -> motr_comp_obj_list_layers_pp
      [] l = "exts"        -> motr_comp_obj_exts_release_pp
      [] l = "exts_get"    -> motr_comp_obj_exts_get_pp
      [] OTHER             -> {}]

(* The links a call of mio.h starts with.  attrs_get is mio_obj_size.      *)
ObjFirstLinks  == ObjPlain \cup {"obj_open", "attrs_get", "delete_open", "rbw", "write", "read"}
KvsFirstLinks  == {"kvs_get", "kvs_next", "kvs"}
CompFirstLinks == CompPlain \cup {"add_layers", "del_layers", "list_layers", "exts", "exts_get"}
==============================================================================
