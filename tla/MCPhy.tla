---------------------------------- MODULE MCPhy ----------------------------------
(* Two frames in the air, two results, one setting beside the receiver's.  *)
EXTENDS Phy

TwoFrames == {"a", "b"}
TwoResults == {"SUCCESS", "NO_ACK"}
===============================================================================
