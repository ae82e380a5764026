--------------------------- MODULE MCMemorySystem ---------------------------
(***************************************************************************)
(* Instances of MemorySystem for TLC.                                      *)
(***************************************************************************)
EXTENDS MemorySystem

\* The defaults of BaseCacheParameterSet, with two ways for four.
OnePerLevel == [l \in Level |-> 1]
TwoPerLevel == [l \in Level |-> 2]

\* The first cache has one set, each cache below twice as many as the one above.
DoublingSets == [l \in Level |-> 2^(l - 1)]

\* The first cache differs from those below.
TwoThenOne == [l \in Level |-> IF l = 1 THEN 2 ELSE 1]

LastLevel == {LevelNum}
EveryLevel == Level
NoLevel == {}
=============================================================================
