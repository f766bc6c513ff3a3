-------------------------------- MODULE Dict --------------------------------
(* What set_t and map_t promise: a finite map from keys to values, in which   *)
(* inserting a key that is there replaces its value. A set is a map whose     *)
(* values are its keys.                                                       *)
EXTENDS TLC
VARIABLE dict

Put(k, v) == dict' = (k :> v) @@ dict
Drop(k) == dict' = [x \in DOMAIN dict \ {k} |-> dict[x]]
DropAll == dict' = <<>>
Empty == dict = <<>>
=============================================================================
