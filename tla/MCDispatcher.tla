---------------------------- MODULE MCDispatcher ----------------------------
(***************************************************************************)
(* Three slots with channels of one packet, so that a full channel, a full *)
(* tunnel and a departure ahead of the cursor all happen.  Two classes:    *)
(* acknowledgements, which use the priority channels and whose chunk is    *)
(* one, and bulk packets with a chunk of two.  A pause is more than one    *)
(* tick and a dwell is two.                                                *)
(***************************************************************************)
EXTENDS Dispatcher, TLC

MCChunk == ("ack" :> 1) @@ ("bulk" :> 2)
MCSmall == {"ack"}
SlotSymmetry == Permutations(Slots)
=============================================================================
