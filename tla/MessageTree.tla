---------------------------- MODULE MessageTree ----------------------------
(***************************************************************************)
(* The per-conversation aggregate of the messaging bridge                  *)
(* (src/codefa/messaging/trees/{runtime,graph,queue,node}.py): a graph of  *)
(* user prompts and their status messages, a FIFO queue of prompts that    *)
(* wait for the agent, and the claim of the prompt that is being executed. *)
(* Every method of MessageTree runs under one lock and never yields inside *)
(* it, so a method is an operator from a tree to the tree it leaves.       *)
(*                                                                         *)
(* The deque of the source is a ticket per queued prompt: the order of the *)
(* tickets is the order of the deque, 0 is "not queued", tail is the last   *)
(* ticket handed out since the queue was last drained.                     *)
(***************************************************************************)
EXTENDS Integers, FiniteSets

CONSTANTS
    Prompts,    \* platform ids of user messages, one node each
    Statuses,   \* platform ids of the bot's status messages, in the order of sending
    Claims,     \* claim ids, in the order of drawing; also the CLI session of a claim
    None        \* Python's None

ASSUME ReferencesAssumption ==
    /\ Prompts \cap Statuses = {}
    /\ Statuses \subseteq Nat /\ Claims \subseteq Nat
    /\ None \notin Prompts \cup Statuses \cup Claims

Refs == Prompts \cup Statuses

MessageState == {"absent", "pending", "in_progress", "completed", "error"}
Runnable     == {"pending", "in_progress"}

Node == [state     : MessageState,
         status    : Statuses \cup {None},
         parent    : Prompts \cup {None},
         parentRef : Refs \cup {None},
         session   : Claims \cup {None}]

\* A key the graph's node dictionary does not hold.
NoNode == [state |-> "absent", status |-> None, parent |-> None,
           parentRef |-> None, session |-> None]

Tree == [root       : Prompts \cup {None},
         nodes      : [Prompts -> Node],
         queue      : [Prompts -> Nat],
         tail       : Nat,
         active     : Claims \cup {None},
         activeNode : Prompts \cup {None},
         stopping   : BOOLEAN]

NoQueue == [n \in Prompts |-> 0]

EmptyTree == [root |-> None, nodes |-> [n \in Prompts |-> NoNode],
              queue |-> NoQueue, tail |-> 0, active |-> None,
              activeNode |-> None, stopping |-> FALSE]

-----------------------------------------------------------------------------
(* Lookups *)

Present(t)        == {n \in Prompts : t.nodes[n].state # "absent"}
InState(t, S)     == {n \in Prompts : t.nodes[n].state \in S}
Queued(t)         == {n \in Prompts : t.queue[n] > 0}
IsActive(t, n)    == t.active # None /\ t.activeNode = n

\* A prompt owns itself and its live status message.
OwnedRefs(t, n)   == {n, t.nodes[n].status} \ {None}
Owns(t, n, r)     == n \in Present(t) /\ r \in OwnedRefs(t, n)
AllReferences(t)  == UNION {OwnedRefs(t, n) : n \in Present(t)}

\* _ui_target raises on a node whose status message was cleared.  The callers
\* ask for the target of every runnable node, and of an errored active one.
UiTargetMissing(t, n) ==
    /\ t.nodes[n].status = None
    /\ \/ t.nodes[n].state \in Runnable
       \/ t.nodes[n].state = "error" /\ IsActive(t, n)

\* The least set of nodes with n that holds the children of its members.
Descendants(t, n) ==
    LET present == Present(t)
        closed  == {S \in SUBSET present :
                      \A k \in present : k = n \/ t.nodes[k].parent \in S => k \in S}
    IN  {m \in present : \A S \in closed : m \in S}

\* Deviation, for the mutation runs: only the direct replies.
PromptsBelow_DirectOnly(t, r) ==
    {n \in Present(t) : n = r \/ t.nodes[n].parentRef = r}

\* The prompts of the platform reply chain below the message r: r itself if it is
\* a prompt, and every direct reply to r or to a message of such a prompt.
PromptsBelow(t, r) ==
    LET present == Present(t)
        closed  == {S \in SUBSET present :
                      \A n \in present :
                        n = r \/ t.nodes[n].parentRef \in {r} \cup UNION {OwnedRefs(t, k) : k \in S}
                        => n \in S}
    IN  {n \in present : \A S \in closed : n \in S}

\* get_reference_descendants of a reference the tree owns.
ReferenceDescendants(t, r) == {r} \cup UNION {OwnedRefs(t, n) : n \in PromptsBelow(t, r)}

-----------------------------------------------------------------------------
(* Admission *)

NewRoot(n, s) ==
    [EmptyTree EXCEPT !.root = n,
                      !.nodes[n] = [NoNode EXCEPT !.state = "pending", !.status = s]]

\* add_node: parent is the owner of the reference r the user replied to.
AddNode(t, n, s, parent, r) ==
    [t EXCEPT !.nodes[n] = [state |-> "pending", status |-> s, parent |-> parent,
                            parentRef |-> r, session |-> None]]

Claim(t, n, c) ==
    [t EXCEPT !.nodes[n].state = "in_progress", !.active = c,
              !.activeNode = n, !.stopping = FALSE]

\* Deviation, for the mutation runs: the parent's id instead of its session.
ParentSession_Id(t, n) == t.nodes[n].parent

\* The session the claim of node n resumes.
ParentSession(t, n) ==
    LET p == t.nodes[n].parent
    IN  IF p \in Present(t) THEN t.nodes[p].session ELSE None

\* Deviation, for the mutation runs: the newcomer goes to the front.
Put_Front(t, n) ==
    [t EXCEPT !.queue = [m \in Prompts |-> IF m = n THEN 1
                                           ELSE IF t.queue[m] = 0 THEN 0 ELSE t.queue[m] + 1],
              !.tail = t.tail + 1]

Put(t, n) == [t EXCEPT !.queue[n] = t.tail + 1, !.tail = t.tail + 1]

\* Deviation, for the mutation runs: the active claim is not looked at.
MustClaim_WhileActive(t, n) == t.nodes[n].state = "pending"

\* The outcomes of _enqueue_or_claim; anything else is a duplicate delivery.
MustClaim(t, n) == t.nodes[n].state = "pending" /\ t.active = None
MustQueue(t, n) == /\ t.nodes[n].state = "pending" /\ t.active # None
                   /\ n \notin Queued(t)

EnqueueOrClaim(t, n, c) ==
    CASE MustClaim(t, n) -> Claim(t, n, c)
      [] MustQueue(t, n) -> Put(t, n)
      [] OTHER           -> t

-----------------------------------------------------------------------------
(* The end of a claim *)

\* The queued prompts a finishing claim may be followed by, and the first one.
Waiting(t)       == {n \in Queued(t) : t.nodes[n].state = "pending"}
NextInLine(t, n) == n \in Waiting(t) /\ \A m \in Waiting(t) : t.queue[n] <= t.queue[m]

\* finish_and_claim_next of the matching claim, without and with a successor:
\* what was popped on the way to n leaves the queue with it.
Release(t) == [t EXCEPT !.active = None, !.activeNode = None, !.stopping = FALSE,
                        !.queue = NoQueue, !.tail = 0]

ReleaseTo(t, n, c) ==
    Claim([t EXCEPT !.queue = [m \in Prompts |->
              IF t.queue[m] <= t.queue[n] THEN 0 ELSE t.queue[m]]], n, c)

-----------------------------------------------------------------------------
(* Results of the runner that holds claim c: void once it is being cancelled *)

\* Deviation, for the mutation runs: a result counts while its claim is being cancelled.
Holds_Stopping(t, c, S) == t.active = c /\ t.nodes[t.activeNode].state \in S

Holds(t, c, S) == /\ t.active = c /\ ~t.stopping
                  /\ t.nodes[t.activeNode].state \in S

RecordSession(t, c) ==
    IF Holds(t, c, {"in_progress"})
    THEN [t EXCEPT !.nodes[t.activeNode].session = c] ELSE t

\* session is None when the run never told its session id.
CompleteClaim(t, c, session) ==
    IF Holds(t, c, {"in_progress", "error"})
    THEN [t EXCEPT !.nodes[t.activeNode].state = "completed",
                   !.nodes[t.activeNode].session =
                       IF session = None THEN @ ELSE session]
    ELSE t

\* S become errors; every other node is left as it is.
MarkError(t, S) ==
    [n \in Prompts |-> IF n \in S THEN [t.nodes[n] EXCEPT !.state = "error"]
                                  ELSE t.nodes[n]]
Dequeue(t, S) == [n \in Prompts |-> IF n \in S THEN 0 ELSE t.queue[n]]

\* fail_claim: the node, and when propagating the pending nodes below it.
FailedBy(t, propagate) ==
    {t.activeNode} \cup
      (IF propagate THEN Descendants(t, t.activeNode) \cap InState(t, {"pending"})
                    ELSE {})

FailClaim(t, c, propagate) ==
    IF Holds(t, c, {"pending", "in_progress", "error"})
    THEN [t EXCEPT !.nodes = MarkError(t, FailedBy(t, propagate)),
                   !.queue = Dequeue(t, FailedBy(t, propagate) \ {t.activeNode})]
    ELSE t

-----------------------------------------------------------------------------
(* Cancellation.  Each of the three may raise half way: see UiTargetMissing *)

\* Deviation, for the mutation runs: the active claim is not told.
RequestStop_Forgotten(t) == t
RequestStop(t) == [t EXCEPT !.stopping = (t.active # None)]

\* Deviation, for the mutation runs: the node stays in the deque.
CancelNode_StaysQueued(t, n) ==
    [t EXCEPT !.stopping = t.stopping \/ IsActive(t, n),
              !.nodes = MarkError(t, {n} \cap InState(t, Runnable))]

CancelNode(t, n) ==
    [t EXCEPT !.stopping = t.stopping \/ IsActive(t, n),
              !.queue = Dequeue(t, {n}),
              !.nodes = MarkError(t, {n} \cap InState(t, Runnable))]

CancelNodeRaises(t, n) == UiTargetMissing(t, n)

\* Deviation, for the mutation runs: the waiting turns are left alone.
CancelAll_ActiveOnly(t) ==
    [RequestStop(t) EXCEPT !.nodes = MarkError(t, {t.activeNode} \cap InState(t, Runnable))]

CancelAll(t) ==
    [RequestStop(t) EXCEPT !.queue = NoQueue, !.tail = 0,
                           !.nodes = MarkError(t, InState(t, Runnable))]

\* The active node is asked first: when that raises only stopping was set.
CancelAllRaises(t)  == t.active # None /\ UiTargetMissing(t, t.activeNode)
CancelAllPartial(t) == RequestStop(t)

-----------------------------------------------------------------------------
(* remove_message_subtree *)

\* removed are the prompts whose message is deleted; a deleted status message only
\* affects the prompt that owns it.
AffectedNodes(t, r, removed) == removed \cup {n \in Prompts : Owns(t, n, r)}

ClearStatus(node) ==
    [node EXCEPT !.status = None, !.session = None, !.state = "error"]

RemoveSubtree(t, r, removed) ==
    LET affected == AffectedNodes(t, r, removed)
    IN  [t EXCEPT
           !.stopping = t.stopping \/ (t.active # None /\ t.activeNode \in affected),
           !.queue = Dequeue(t, affected),
           !.nodes = [n \in Prompts |->
               CASE n \in removed            -> NoNode
                 [] n \in affected \ removed -> ClearStatus(t.nodes[n])
                 [] OTHER                    -> t.nodes[n]]]

\* Raised while visiting the affected nodes in the order of a Python set: S is
\* what was visited before, nothing has been removed yet.
RemoveSubtreePartial(t, S) ==
    [t EXCEPT !.stopping = (t.active # None),
              !.queue = Dequeue(t, S),
              !.nodes = MarkError(t, S \cap InState(t, Runnable))]

=============================================================================
