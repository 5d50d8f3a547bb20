------------------------- MODULE MCTreeQueueManager -------------------------
(* Instances of TreeQueueManager for TLC. *)
EXTENDS TreeSnapshots, TLC

CONSTANTS p1, p2, p3

ThreePrompts == {p1, p2, p3}

\* One chat.
OneChat         == {"a"}
OneChatScopeOf  == [r \in Refs |-> "a"]

UpTo2 == 1 .. 2
UpTo3 == 1 .. 3

PromptSymmetry == Permutations(Prompts)
=============================================================================
