----------------------------- MODULE MCTextParsers -----------------------------
(* Texts with calls and parameters. *)
EXTENDS TextParsers

Calls == UNION {[1 .. n -> {Text, Space, Call, Param}] : n \in 1 .. 4}
=============================================================================
