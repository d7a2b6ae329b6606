--------------------------- MODULE MCSurfaceSetups ---------------------------
(***************************************************************************)
(* What an application defines for the generated surfaces of OmniSurfaces, *)
(* with the bounds of a behaviour: it is about edges, about the contents   *)
(* of extensions, or about reads while extensions change.                  *)
(***************************************************************************)
EXTENDS TLC

CONSTANT None

Surface(kind, allowed, aliased) == [kind |-> kind, allowed |-> allowed, aliased |-> aliased]

Definitions ==
    {Surface("a", None, TRUE), Surface(None, <<"a">>, FALSE), Surface(None, <<"a", "b">>, TRUE),
     Surface(None, <<"a", "a">>, FALSE), Surface(None, <<>>, FALSE), Surface("a", <<"b">>, FALSE)}

Setup(d, lifecycle, catalog, focus) ==
    [def |-> d, lifecycle |-> lifecycle, catalog |-> catalog,
     edges |-> focus = "edges", reads |-> focus = "reads",
     values |-> CASE focus = "edges" -> (1 :> {10}) @@ (2 :> {20})
                  [] focus = "reads" -> (1 :> {10, 20}) @@ (2 :> {})
                  [] OTHER -> (1 :> {10, 20}) @@ (2 :> {10, 20})]

ReadSetups == {Setup(Surface("a", None, TRUE), l, TRUE, "reads") : l \in BOOLEAN}

All ==
    {Setup(d, l, TRUE, "edges") : d \in Definitions, l \in BOOLEAN}
      \cup {Setup(Surface("a", None, TRUE), TRUE, FALSE, "edges")}
      \cup {Setup(Surface("a", None, TRUE), l, TRUE, "values") : l \in BOOLEAN}
      \cup ReadSetups
=============================================================================
