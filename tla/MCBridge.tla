------------------------------- MODULE MCBridge -------------------------------
(***************************************************************************)
(* The parts of the messaging bridge, with what each of them needs for its *)
(* interesting cases to happen.                                            *)
(***************************************************************************)
EXTENDS MessagingBridge, TLC

CONSTANTS c1, r1, r2, s1, s2

\* Two prompts, the second a reply to the first, and a command of the same chat.
ReplyToFirst == [p \in {1, 2} |-> IF p = 2 THEN 1 ELSE None]
InChatA      == [p \in {1, 2} |-> "a"]

\* Two runners, and two session ids that the CLI may hand out in any order.
PendingIds == [r \in {r1, r2} |-> <<"pending", r>>]
FirstTwice == (r1 :> 2) @@ (r2 :> 0)

\* Three notes, the third a second delivery of the first, two of which are themselves
\* commands and cancel as a command that is typed does.
ThreeNotes   == ("f1" :> "v1") @@ ("f2" :> "v2") @@ ("f3" :> "v1")
ThreeReplies == ("f1" :> "s1") @@ ("f2" :> "s2") @@ ("f3" :> "s3")

\* A Task's id may begin with another's.
BeginsWith == {<<"task1", "task12">>}
=============================================================================
