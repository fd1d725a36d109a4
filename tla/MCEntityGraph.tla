---------------------------- MODULE MCEntityGraph ----------------------------
(* Two documents that state one triple both, and a third relation that makes  *)
(* a path; a chunk in which a sentence repeats what was said.                 *)
EXTENDS EntityGraph
CONSTANTS k1, k2, d1, d2

Said(names, said) == [names |-> names, said |-> said]
MCDocOf == [c \in Chunk |-> IF c = k1 THEN d1 ELSE d2]
MCSentences == [c \in Chunk |->
  IF c = k1 THEN <<Said({1, 2}, << <<2, "uses", 1>> >>), Said({2, 3}, << >>)>>
  ELSE <<Said({1, 2}, << <<2, "uses", 1>> >>), Said({1, 2, 3}, << <<2, "uses", 1>>, <<2, "has", 3>> >>)>>]
MCQuestions == {[asked |-> {1, 2}, hops |-> 1], [asked |-> {3}, hops |-> 2], [asked |-> {1, 3}, hops |-> 2]}
=============================================================================
