------------------------------- MODULE MCAtParser -------------------------------
(* Small buffers and a short line.                                         *)
EXTENDS AtParser

SomeBytes == {ZERO, Star, EndOfLine}

ShortAndLong == {<<Star>>, <<Star, ZERO, Star>>}
===============================================================================
