-------------------------- MODULE MCNwkRouteDiscovery --------------------------
(* S looks for T, by A or B or both: the short paths are weak, the long    *)
(* ones good, and the weaker request may be answered first.                *)
EXTENDS NwkRouteDiscovery, TLC

CONSTANTS S, A, B, T

FourNodes == {S, A, B, T}
OnlySelf == [n \in FourNodes |-> {n}]
Links ==
  LET q == (<<S, A>> :> 200) @@ (<<S, B>> :> 90) @@ (<<A, B>> :> 220)
           @@ (<<A, T>> :> 100) @@ (<<B, T>> :> 230)
  IN  [l \in {<<x, y>> \in FourNodes \X FourNodes : 
               <<x, y>> \in DOMAIN q \/ <<y, x>> \in DOMAIN q} |->
         IF l \in DOMAIN q THEN q[l] ELSE q[<<l[2], l[1]>>]]
OneDemand == {<<S, T>>}
LossyLinks == {<<S, A>>, <<T, A>>, <<A, B>>}
LostAtSource == {<<S, T>>}
===============================================================================
