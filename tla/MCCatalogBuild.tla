--------------------------- MODULE MCCatalogBuild ---------------------------
(* Values for TLC: two instances with different devices, a network of its    *)
(* own for each project, and a port.                                         *)
EXTENDS CatalogBuild, TLC

CONSTANTS i1, i2, v1, n1, n2, q1, p1, p2, d1, d2

MCNamesOf == i1 :> {"vda"} @@ i2 :> {"vdb"}
MCNetworkOf == q1 :> n1
MCStart == {{}, Things}
Symmetry == Permutations({p1, p2}) \cup Permutations({d1, d2})
=============================================================================
