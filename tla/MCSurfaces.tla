----------------------------- MODULE MCSurfaces -----------------------------
(***************************************************************************)
(* An extension surface that is read while its extensions change.          *)
(***************************************************************************)
EXTENDS OmniSurfaces, TLC

CONSTANTS c1, c2

SurfaceSetups == INSTANCE MCSurfaceSetups

ReadSetups == SurfaceSetups!ReadSetups

Symmetry == Permutations(Callers)
=============================================================================
