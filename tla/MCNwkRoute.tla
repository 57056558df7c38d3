------------------------------ MODULE MCNwkRoute ------------------------------
(* A small routing table: three destinations compete for two entries that  *)
(* may be reused; one more entry is fixed, to a fourth or to one of them.  *)
EXTENDS NwkRoute

CONSTANTS a, b, c, d

FourPeers == {a, b, c, d}
OneNonRouting == {c}
FirstPinned == {1}
===============================================================================
