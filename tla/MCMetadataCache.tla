--------------------------- MODULE MCMetadataCache ---------------------------
(* Two threads and two keys, one of which may be without a value.                *)
EXTENDS MetadataCache, TLC

CONSTANTS t1, t2, k1, k2, v1
MCCallers == {t1, t2}
MCKeys == {k1, k2}
MCNullable == {k2}
MCValues == {v1}
MCSymmetry == Permutations(MCCallers)
=============================================================================
