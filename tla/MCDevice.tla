-------------------------------- MODULE MCDevice --------------------------------
(* Bytes of three bits and a configuration of five bytes: the node's type, *)
(* both bytes of its network, the channel and the acknowledgement byte,    *)
(* whose largest interval overflows.                                       *)
EXTENDS Device

RouterAtHome == <<{0}, {0}, {1}, {1}, {}>>
MCDefaults == [a \in 0..4 |-> RouterAtHome[a + 1]]

OtherNetwork == {<<{1}, {0}>>}
OtherChannels == {{0}}
OtherIntervals == {{}, {1}, {0, 1}}
SomeRands == {0, 1, 16384, 32767}

(* Every pattern of zeros before the checksum, among the smallest and the  *)
(* largest of the other bytes.                                             *)
AllMessages == {Append(m, {}) : m \in [1..4 -> {{}, {0}, {0, 1, 2}}]}
===============================================================================
