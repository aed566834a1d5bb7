-------------------------- MODULE MCGeocodingCache --------------------------
(* Small instances of GeocodingCache for TLC. *)
EXTENDS GeocodingCache, TLC

CONSTANTS t1, t2, p1, p2

TwoTexts   == {t1, t2}
TwoPollers == {p1, p2}

TextAndPollerSymmetry == Permutations(Texts) \cup Permutations(Pollers)
=============================================================================
