-------------------------------- MODULE MCRouter --------------------------------
(* A router with fewer slots than tags.                                    *)
EXTENDS Router

CONSTANTS tag1, tag2, tag3

Tags == {tag1, tag2, tag3}
===============================================================================
