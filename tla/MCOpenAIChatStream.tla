-------------------------- MODULE MCOpenAIChatStream --------------------------
(* A tool and the Task tool. *)
EXTENDS OpenAIChatStream

PlainAndTask == [t \in Tools |-> IF t = 0 THEN "plain" ELSE "task"]
=============================================================================
