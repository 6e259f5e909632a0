----------------------------- MODULE MioCompObj -----------------------------
(***************************************************************************)
(* A composite object: driver_motr_comp_obj.c keeps the list of its layers *)
(* in Motr as one layout, which is read and replaced as a whole.  Several  *)
(* processes have the object open and change its layers.                   *)
(***************************************************************************)
EXTENDS Integers, FiniteSets

CONSTANTS Openers,   (* the processes                                       *)
          Layers     (* the objects that are layers                         *)

VARIABLES layout,    (* in Motr: the layers of the object                   *)
          sets,      (* history: the number of SETs that have taken effect  *)
          call,      (* the call each process has in flight                 *)
          added,     (* history: the layers that were there at first or     *)
                     (* added, and not deleted since                        *)
          deleted    (* history: the layers deleted and not added since     *)

compvars == <<layout, sets, call, added, deleted>>

NoCall == [at |-> "none", layers |-> {}, got |-> {}, since |-> 0]

(* Earlier processes may have left layers.                                 *)
CompInit == /\ layout \in SUBSET Layers /\ sets = 0
            /\ call = [c \in Openers |-> NoCall]
            /\ added = layout /\ deleted = {}

Call(c, at, ls) == /\ call[c].at = "none"
                   /\ call' = [call EXCEPT ![c] = [NoCall EXCEPT !.at = at, !.layers = ls]]
                   /\ UNCHANGED <<layout, sets, added, deleted>>

(* SET with the layers ls.                                                 *)
LayoutSet(ls) == layout' = ls /\ sets' = sets + 1

(* The layers in were added, or out deleted, by what mio.h says.           *)
Said(in, out) == /\ added' = (added \cup in) \ out
                 /\ deleted' = (deleted \cup out) \ in

(* A call has ended.  It may report an error with its SET in effect.       *)
Return(c) == call' = [call EXCEPT ![c] = NoCall]

------------------------------------------------------------------------------
(* mio_motr_comp_obj_create: the layout without layers.                    *)
mio_motr_comp_obj_create(c) ==
    /\ call[c].at = "create"
    /\ LayoutSet({}) /\ added' = {} /\ deleted' = {} /\ Return(c)

(* mio_motr_comp_obj_add_layers: SET of a new layout of the layers given.  *)
(* It is said to add them; what the object had before is replaced.         *)
mio_motr_comp_obj_add_layers(c) ==
    /\ call[c].at = "add"
    /\ LayoutSet(call[c].layers) /\ Said(call[c].layers, {}) /\ Return(c)

(* motr_comp_obj_get_layers, the first step of a deletion and all of a     *)
(* listing.                                                                *)
motr_comp_obj_get_layers(c) ==
    /\ call[c].at \in {"del", "list"}
    /\ call' = [call EXCEPT ![c] = [call[c] EXCEPT
                     !.at = IF call[c].at = "del" THEN "del_pp" ELSE "listed",
                     !.got = layout, !.since = sets]]
    /\ UNCHANGED <<layout, sets, added, deleted>>

(* Variant: of the layers to be deleted one stays.                         *)
DelLayersButOne(c) ==
    /\ call[c].at = "del_pp"
    /\ LayoutSet(call[c].got \ (call[c].layers \ {CHOOSE l \in call[c].layers : TRUE}))
    /\ Said({}, call[c].layers)
    /\ Return(c)

(* motr_comp_obj_del_layers_pp: SET of what GET returned without the       *)
(* layers to be deleted.                                                   *)
motr_comp_obj_del_layers_pp(c) ==
    /\ call[c].at = "del_pp"
    /\ LayoutSet(call[c].got \ call[c].layers) /\ Said({}, call[c].layers)
    /\ Return(c)

(* motr_comp_obj_list_layers_pp: the layers are given to the application.  *)
motr_comp_obj_list_layers_pp(c) ==
    /\ call[c].at = "listed"
    /\ Return(c) /\ UNCHANGED <<layout, sets, added, deleted>>

(* The operation fails, or its successor cannot be added.                  *)
CompFails(c) == /\ call[c].at # "none"
                /\ Return(c) /\ UNCHANGED <<layout, sets, added, deleted>>

------------------------------------------------------------------------------
(* A deletion that takes effect leaves none of the layers it names in      *)
(* Motr, whatever other processes do meanwhile, and if no SET came between *)
(* its GET and its SET it takes out nothing else and brings nothing back.  *)
(* An addition, for which mio.h promises something else (LayersAdded),     *)
(* leaves the layers it names and no other.                                *)
LayersChanged == [][\A c \in Openers : (call'[c].at = "none" /\ sets' # sets) =>
    /\ call[c].at = "add" => layout' = call[c].layers
    /\ call[c].at = "del_pp" =>
          /\ layout' \cap call[c].layers = {}
          /\ call[c].since = sets => layout' = layout \ call[c].layers]_compvars

(***************************************************************************)
(* What the code does not achieve (see README.md).                         *)
(***************************************************************************)
(* "mio_composite_obj_add_layer() adds a new layer (sub-object) to a       *)
(* composite object" (mio.h): the layers that were there before and were   *)
(* not deleted are still there.  Broken by every addition to an object     *)
(* that has layers.                                                        *)
LayersAdded == added \subseteq layout

(* "mio_composite_obj_del_layer() deletes a layer from the composite       *)
(* object" (mio.h): a layer that a call has deleted is not there until it  *)
(* is added again.  Broken by a deletion whose GET was before: its SET     *)
(* brings the layer back.                                                  *)
LayersStayDeleted == layout \cap deleted = {}
==============================================================================
