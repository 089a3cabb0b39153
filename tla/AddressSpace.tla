---------------------------- MODULE AddressSpace ----------------------------
(***************************************************************************)
(* What the page tables promise their users: a partial map from virtual to *)
(* physical pages.  A page is mapped only if it was not, and mapping or    *)
(* unmapping one page changes no other page's translation.                 *)
(***************************************************************************)
CONSTANTS VirtualPages, PhysicalPages, Unmapped

VARIABLE translation

SpaceInit == translation = [v \in VirtualPages |-> Unmapped]

(* Some physical page appears at v, and nothing else changes. *)
Map(v) ==
  /\ translation[v] = Unmapped
  /\ translation'[v] \in PhysicalPages
  /\ translation' = [translation EXCEPT ![v] = translation'[v]]

Unmap(v) ==
  /\ translation[v] # Unmapped
  /\ translation' = [translation EXCEPT ![v] = Unmapped]

SpaceNext == \E v \in VirtualPages : Map(v) \/ Unmap(v)

SpaceSpec == SpaceInit /\ [][SpaceNext]_translation
=============================================================================
