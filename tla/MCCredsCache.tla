---------------------------- MODULE MCCredsCache ----------------------------
(***************************************************************************)
(* A group (g), which asks for one link and refreshes it, and the hash     *)
(* check (h), which goes through two links with one cache, or only one.    *)
(***************************************************************************)
EXTENDS CredsCache, TLC

CONSTANTS g, h, l1, l2

OneLinkEach == (g :> {l1}) @@ (h :> {l1})

(* Only the group has workers.                                             *)
MCWorkers == (g :> 2) @@ (h :> 0)
OneWorker == (g :> 1) @@ (h :> 0)

MCLinksOf == (g :> {l1}) @@ (h :> {l1, l2})

=============================================================================
