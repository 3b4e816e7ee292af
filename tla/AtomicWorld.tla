---------------------------- MODULE AtomicWorld ----------------------------
(***************************************************************************)
(* What a restoration promises: the world the players own only ever        *)
(* changes by being played, or by being replaced, in one step, by an       *)
(* archive.  No interruption can leave anything in between.                *)
(***************************************************************************)
EXTENDS World

VARIABLE world

Init == world = OldWorld

Play == world' \in World /\ PlayedOver(world, world')

(* The restored server may have run before the restoration is committed.   *)
Restore(a) == world' \in World /\ PlayedOver(Overlay(world, a), world')

Next == Play \/ \E a \in Archives : Restore(a)

Spec == Init /\ [][Next]_world
=============================================================================
