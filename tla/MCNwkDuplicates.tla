---------------------------- MODULE MCNwkDuplicates ----------------------------
(* Small duplicate tables.                                                 *)
EXTENDS NwkDuplicates

CONSTANTS a, b

TwoSources == {a, b}
===============================================================================
