------------------------ MODULE TreeQueueRefinement ------------------------
(***************************************************************************)
(* The manager of the conversation trees implements ConversationExecutor:  *)
(* a turn is the status message sent for its admission, the line of a tree *)
(* its queue, the busy turn the one whose claim is held.                   *)
(***************************************************************************)
EXTENDS TreeQueueManager

StatusLine(t) ==
    [s \in {t.nodes[n].status : n \in Queued(t)} |->
        t.queue[CHOOSE n \in Queued(t) : t.nodes[n].status = s]]

Executor == INSTANCE ConversationExecutor WITH
    Conversations <- Trees,
    Turns         <- Statuses,
    Nobody        <- None,
    submitted     <- sent,
    line          <- [t \in Trees |-> StatusLine(tree[t])],
    busy          <- [t \in Trees |-> IF tree[t].active = None THEN None
                                      ELSE slot[tree[t].active].status]

\* Every behaviour of the trees, their tasks and the user's commands is one
\* the abstract executor allows.
ImplementsExecutor == Executor!Spec
=============================================================================
