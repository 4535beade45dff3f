----------------------------- MODULE ReadNextMC -----------------------------
(* All telegram sizes, read whole or in part, from the start or further on. *)
EXTENDS ReadNext

AllSizes    == 0 .. 255
SomeStarts  == {0, 1, 26, 230}
SomeFirst   == {0, 1, 10, 30}
SomeLengths == {0, 1, 25, 26, 27, 54, 100, 254}
=============================================================================
