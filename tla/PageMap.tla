------------------------------ MODULE PageMap -------------------------------
(***************************************************************************)
(* What a caller of the virtual memory manager may rely on.  A call names  *)
(* pages, and asks for a target for each of them if it maps.  The page map *)
(* is a partial function: a page gets the target that was asked for it and *)
(* keeps it until a call unmaps or remaps that very page.  The boot code's *)
(* pages stay for ever, in their frames; but a call that is refused        *)
(* because it names one of them may give it more flags.  Bulk calls that   *)
(* fail may have done a part of their work, and a remap that fails may     *)
(* have lost its page.                                                     *)
(***************************************************************************)
CONSTANTS Page, Target   \* pages, and the frame-and-flags pairs they map to

VARIABLES
  started, boot, mapping,
  reply  \* of the last call: op, result, the pages it names, what it wants

mapVars == <<started, boot, mapping, reply>>

MapInit == /\ started = FALSE /\ boot = {}
           /\ mapping = [p \in {} |-> p]
           /\ reply.op = "none"

Take ==
  /\ ~started /\ started'
  /\ DOMAIN mapping' \subseteq Page
  /\ \A p \in DOMAIN mapping' : mapping'[p] \in Target
  /\ boot' = DOMAIN mapping'
  /\ reply'.op = "init"

(* The mapped pages that are still mapped are so to the same target. *)
Kept(S) == \A p \in S : p \in DOMAIN mapping' /\ mapping'[p] = mapping[p]

Added == DOMAIN mapping' \ DOMAIN mapping
Lost  == DOMAIN mapping \ DOMAIN mapping'

(* A boot page gains flags that the refused call was to give. *)
Widened(p) ==
  /\ p \in boot /\ reply'.result = "ParentEntryHugePage"
  /\ p \in DOMAIN mapping' /\ mapping'[p].frame = mapping[p].frame
  /\ mapping[p].flags \subseteq mapping'[p].flags
  /\ \E q \in DOMAIN reply'.wanted :
       mapping'[p].flags \subseteq mapping[p].flags \cup reply'.wanted[q].flags

Map ==
  /\ reply'.op \in {"map_page", "map_region", "identity_map"}
  /\ \A p \in DOMAIN mapping : Kept({p}) \/ Widened(p)
  /\ Added \subseteq DOMAIN reply'.wanted
  /\ \A p \in Added : mapping'[p] = reply'.wanted[p]
  /\ CASE reply'.result = "Ok" ->
            /\ DOMAIN reply'.wanted \subseteq DOMAIN mapping'
            /\ reply'.op # "identity_map" => Added = DOMAIN reply'.wanted
       [] OTHER -> reply'.op = "map_page" => Added = {}

Unmap ==
  /\ reply'.op \in {"unmap_page", "unmap_region"}
  /\ Added = {} /\ Kept(DOMAIN mapping \ Lost)
  /\ CASE reply'.result = "Ok" ->
            /\ Lost = (reply'.pages \cap DOMAIN mapping) \ boot
            /\ reply'.op = "unmap_page" => Lost = reply'.pages
       [] OTHER -> Lost = {}

Remap ==
  /\ reply'.op = "remap_page"
  /\ \E p \in reply'.pages \cap (DOMAIN mapping \ boot) :
       /\ Kept(DOMAIN mapping \ {p}) /\ Added = {}
       /\ IF reply'.result = "Ok"
            THEN p \in DOMAIN mapping' /\ mapping'[p] = reply'.wanted[p]
            ELSE Lost = {p}

Refuse ==
  /\ reply'.result # "Ok" \/ reply'.op \in {"flush", "set_validation"}
  /\ mapping' = mapping

MapNext == \/ Take
           \/ /\ started /\ UNCHANGED <<started, boot>>
              /\ Map \/ Unmap \/ Remap \/ Refuse

MapSpec == MapInit /\ [][MapNext]_mapVars

=============================================================================
