-------------------------- MODULE TreeQueueManager --------------------------
(***************************************************************************)
(* The manager of all conversation trees and the processor of their tasks  *)
(* (src/codefa/messaging/trees/{manager,processor,repository}.py).         *)
(*                                                                         *)
(* Every tree operation runs under TreeQueueManager._lock and awaits       *)
(* nothing else, so it is one action.  What interleaves is the tasks: the  *)
(* task of a claim is created, may announce its start, runs the node       *)
(* runner, and gives the claim back; it can be cancelled in any of these   *)
(* phases, and before its body was ever entered.                           *)
(*                                                                         *)
(* A tree object outlives its place in the repository: a task that is      *)
(* still cleaning up keeps the tree it was launched for, while the same    *)
(* prompt, delivered again, may found a new tree of the same identity.     *)
(***************************************************************************)
EXTENDS MessageTree

CONSTANTS
    Trees,          \* tree objects, numbered in the order they are built
    Scopes,         \* platform chats
    ScopeOf         \* the chat of each message id

ASSUME TreesAssumption  == Trees \subseteq Nat /\ None \notin Trees
ASSUME ScopesAssumption == ScopeOf \in [Refs -> Scopes]

VARIABLES
    tree,       \* every tree object ever built
    published,  \* TreeRepository._trees
    index,      \* TreeRepository._reference_to_tree
    slot,       \* TreeQueueProcessor._tasks, one slot per claim
    sent        \* status messages the platform has handed out

vars == <<tree, published, index, slot, sent>>

(* _TaskSlot.  "free": the id is unused.  "created": the task has not run yet.
   "announcing": inside the started and queue callbacks.  "running": inside the
   node runner (slot.runner_started).  "done": popped from _tasks. *)
Phase == {"free", "created", "announcing", "running", "done"}

Slot == [phase     : Phase,
         tree      : Trees \cup {None},
         node      : Prompts \cup {None},
         status    : Statuses \cup {None},
         resumes   : Claims \cup {None},
         announce  : BOOLEAN,
         cancelled : BOOLEAN]

FreeSlot == [phase |-> "free", tree |-> None, node |-> None, status |-> None,
             resumes |-> None, announce |-> FALSE, cancelled |-> FALSE]
DoneSlot == [FreeSlot EXCEPT !.phase = "done"]

Live(c)       == slot[c].phase \in {"created", "announcing", "running"}
ScopeOfTree(t) == ScopeOf[tree[t].root]

\* Ids are drawn in order: a claim id is a fresh uuid4, a status message a new
\* platform message, a tree a new object.
IsNext(x, S)      == x \in S /\ \A y \in S : x <= y
NextClaim(c)      == IsNext(c, {d \in Claims : slot[d].phase = "free"})
NextStatus(s)     == IsNext(s, {x \in Statuses \ sent : ScopeOf[x] = ScopeOf[s]})
NextTree(t)       == IsNext(t, {u \in Trees : tree[u].root = None})

Init ==
    /\ tree = [t \in Trees |-> EmptyTree]
    /\ published = {}
    /\ index = [r \in Refs |-> None]
    /\ slot = [c \in Claims |-> FreeSlot]
    /\ sent = {}

-----------------------------------------------------------------------------
(* Repository and processor steps the operations are built from *)

\* Deviation, for the mutation runs: the status messages stay indexed.
Unregister_PromptsOnly(t, refs) ==
    [r \in Refs |-> IF r \in refs \cap Prompts /\ index[r] = t THEN None ELSE index[r]]

Register(t, refs)   == [r \in Refs |-> IF r \in refs THEN t ELSE index[r]]
Unregister(t, refs) == [r \in Refs |-> IF r \in refs /\ index[r] = t THEN None
                                                                  ELSE index[r]]
UnregisterTrees(S)  == [r \in Refs |-> IF index[r] \in S THEN None ELSE index[r]]

\* launch: the task is attached before any other coroutine can run.  The claim
\* carries a copy of the node's coordinates; from is the tree it is taken from.
Launched(t, from, n, c, announce) ==
    [slot EXCEPT ![c] = [phase |-> "created", tree |-> t, node |-> n,
                         status |-> from.nodes[n].status,
                         resumes |-> ParentSession(from, n),
                         announce |-> announce, cancelled |-> FALSE]]

\* processor.cancel on the active claim of each tree in S that is being stopped.
CancelTasks(S, newTree) ==
    [c \in Claims |->
        IF Live(c) /\ \E t \in S : newTree[t].active = c /\ newTree[t].stopping
        THEN [slot[c] EXCEPT !.cancelled = TRUE] ELSE slot[c]]

-----------------------------------------------------------------------------
(* admit *)

\* The prompt or the status message is already indexed: the delivery goes to
\* the tree that holds it.
AdmitKnown(n, s) ==
    \E t \in published, c \in Claims :
        /\ NextClaim(c)
        /\ t = IF index[n] # None THEN index[n] ELSE index[s]
        /\ tree' = [tree EXCEPT ![t] = EnqueueOrClaim(tree[t], n, c)]
        /\ slot' = IF MustClaim(tree[t], n)
                   THEN Launched(t, tree[t], n, c, FALSE)
                   ELSE slot
        /\ UNCHANGED <<published, index>>

AdmitRoot(n, s) ==
    \E t \in Trees, c \in Claims :
        /\ NextTree(t) /\ NextClaim(c)
        /\ index[n] = None /\ index[s] = None
        /\ tree' = [tree EXCEPT ![t] = EnqueueOrClaim(NewRoot(n, s), n, c)]
        /\ published' = published \cup {t}
        /\ index' = Register(t, {n, s})
        /\ slot' = Launched(t, NewRoot(n, s), n, c, FALSE)

\* A reply to the reference r, wherever r has gone since it was resolved.
AdmitReply(n, s, r) ==
    \E t \in published, parent \in Prompts, c \in Claims :
        /\ NextClaim(c)
        /\ index[n] = None /\ index[s] = None /\ index[r] = t
        /\ Owns(tree[t], parent, r)
        /\ LET added == AddNode(tree[t], n, s, parent, r)
           IN  /\ tree' = [tree EXCEPT ![t] = EnqueueOrClaim(added, n, c)]
               /\ slot' = IF MustClaim(added, n)
                          THEN Launched(t, added, n, c, FALSE)
                          ELSE slot
        /\ index' = Register(t, {n, s})
        /\ UNCHANGED published

\* AdmissionRejection.PARENT_REMOVED: r left its tree while the status was sent.
ParentRemoved(n, s, r) ==
    /\ index[n] = None /\ index[s] = None
    /\ ~ \E t \in published, parent \in Prompts :
            index[r] = t /\ Owns(tree[t], parent, r)
    /\ UNCHANGED <<tree, published, index, slot>>

\* Every delivery comes with the status message the bot has just sent for it.
Admit(n, s) ==
    /\ ScopeOf[n] = ScopeOf[s] /\ NextStatus(s)
    /\ sent' = sent \cup {s}
    /\ \/ AdmitKnown(n, s)
       \/ AdmitRoot(n, s)
       \/ \E r \in (Prompts \cup sent) \ {n} :
            /\ ScopeOf[r] = ScopeOf[n]
            /\ AdmitReply(n, s, r) \/ ParentRemoved(n, s, r)

-----------------------------------------------------------------------------
(* /stop and /clear, as far as the manager lock is held *)

\* cancel_node: reply-/stop.
StopReply(r) ==
    \E t \in published, n \in Prompts :
        /\ index[r] = t /\ Owns(tree[t], n, r)
        /\ tree' = [tree EXCEPT ![t] = CancelNode(tree[t], n)]
        /\ slot' = IF CancelNodeRaises(tree[t], n) \/ ~IsActive(tree[t], n) THEN slot
                   ELSE CancelTasks({t}, tree')
        /\ UNCHANGED <<published, index, sent>>

\* The loop of _cancel_all and _clear_scope visits S in the order the trees were
\* built and stops at the first one whose cancel_all raises.
Failing(S)    == {t \in S : CancelAllRaises(tree[t])}
Reached(S)    == {t \in S : \A u \in Failing(S) : t <= u}
Cancelled(S)  == Reached(S) \ Failing(S)

CancelTrees(S) ==
    /\ tree' = [t \in Trees |->
                  IF t \in Cancelled(S) THEN CancelAll(tree[t])
                  ELSE IF t \in Reached(S) THEN CancelAllPartial(tree[t])
                  ELSE tree[t]]
    /\ slot' = CancelTasks(Cancelled(S), tree')

\* cancel_all: global /stop.
StopAll ==
    /\ published # {}
    /\ CancelTrees(published)
    /\ UNCHANGED <<published, index, sent>>

\* clear_scope: /clear of one chat.
InScope(sc) == {t \in published : ScopeOfTree(t) = sc}

ClearScope(sc) ==
    /\ InScope(sc) # {}
    /\ CancelTrees(InScope(sc))
    /\ published' = published \ Cancelled(InScope(sc))
    /\ index' = UnregisterTrees(Cancelled(InScope(sc)))
    /\ UNCHANGED sent

\* remove_message_subtree: reply-/clear.
ClearReply(r) ==
    \E t \in published :
      /\ index[r] = t /\ r \in AllReferences(tree[t])
      /\ \E removed \in {PromptsBelow(tree[t], r)} :
          /\ \A n \in AffectedNodes(tree[t], r, removed) : ~UiTargetMissing(tree[t], n)
          /\ tree' = [tree EXCEPT ![t] = RemoveSubtree(tree[t], r, removed)]
          /\ IF tree[t].root \in removed
             THEN /\ published' = published \ {t}
                  /\ index' = UnregisterTrees({t})
             ELSE /\ UNCHANGED published
                  /\ index' = Unregister(t, ReferenceDescendants(tree[t], r))
          /\ slot' = IF tree[t].activeNode \in AffectedNodes(tree[t], r, removed)
                     THEN CancelTasks({t}, tree') ELSE slot
          /\ UNCHANGED sent

ClearReplyRaises(r) ==
    \E t \in published :
      /\ index[r] = t /\ r \in AllReferences(tree[t])
      /\ \E removed \in {PromptsBelow(tree[t], r)} :
          /\ \E n \in AffectedNodes(tree[t], r, removed) :
               /\ UiTargetMissing(tree[t], n)
               /\ \E S \in SUBSET (AffectedNodes(tree[t], r, removed) \ {n}) :
                    tree' = [tree EXCEPT ![t] = RemoveSubtreePartial(tree[t], S)]
          /\ UNCHANGED <<published, index, slot, sent>>

-----------------------------------------------------------------------------
(* The task of a claim *)

Enter(c) ==
    /\ slot[c].phase = "created" /\ ~slot[c].cancelled
    /\ slot' = [slot EXCEPT ![c].phase =
                   IF slot[c].announce THEN "announcing" ELSE "running"]
    /\ UNCHANGED <<tree, published, index, sent>>

StartRunner(c) ==
    /\ slot[c].phase = "announcing" /\ ~slot[c].cancelled
    /\ slot' = [slot EXCEPT ![c].phase = "running"]
    /\ UNCHANGED <<tree, published, index, sent>>

\* The tree a runner's result reaches is looked up by identity, not by object.
Addressed(c) == {t \in published : tree[t].root = tree[slot[c].tree].root}

OnAddressed(c, Op(_)) ==
    [t \in Trees |-> IF t \in Addressed(c) THEN Op(tree[t]) ELSE tree[t]]

RunnerRecordsSession(c) ==
    /\ slot[c].phase = "running"
    /\ tree' = OnAddressed(c, LAMBDA t : RecordSession(t, c))
    /\ UNCHANGED <<published, index, slot, sent>>

RunnerCompletes(c) ==
    /\ slot[c].phase = "running"
    /\ \E session \in {c, None} :
         tree' = OnAddressed(c, LAMBDA t : CompleteClaim(t, c, session))
    /\ UNCHANGED <<published, index, slot, sent>>

RunnerFails(c) ==
    /\ slot[c].phase = "running"
    /\ \E propagate \in BOOLEAN :
         tree' = OnAddressed(c, LAMBDA t : FailClaim(t, c, propagate))
    /\ UNCHANGED <<published, index, slot, sent>>

\* _finish_and_continue with _finish_claim on the tree object t as it is in
\* trees: give the claim back, choose the successor, attach the successor's task
\* if the tree is still published, drop the slot.
FinishIn(trees, c) ==
    LET t == slot[c].tree
    IN  \/ /\ trees[t].active # c
           /\ tree' = trees
           /\ slot' = [slot EXCEPT ![c] = DoneSlot]
        \/ /\ trees[t].active = c /\ Waiting(trees[t]) = {}
           /\ tree' = [trees EXCEPT ![t] = Release(trees[t])]
           /\ slot' = [slot EXCEPT ![c] = DoneSlot]
        \/ /\ trees[t].active = c
           /\ \E n \in Prompts, d \in Claims :
                /\ NextInLine(trees[t], n) /\ NextClaim(d)
                /\ tree' = [trees EXCEPT ![t] = ReleaseTo(trees[t], n, d)]
                /\ slot' = [IF t \in published
                            THEN Launched(t, trees[t], n, d, TRUE)
                            ELSE slot
                            EXCEPT ![c] = DoneSlot]

\* The runner returned, or was cancelled and has cleaned up.  It never returns
\* with its own claim still in progress: a stream of CLI events that ends without
\* a result, an exception and a cancellation all fail the claim.
RunnerReturns(c) ==
    /\ slot[c].phase = "running"
    /\ ~Holds(tree[slot[c].tree], c, {"in_progress"})
    /\ FinishIn(tree, c)
    /\ UNCHANGED <<published, index, sent>>

\* An exception escaped the runner: the claim fails before it is given back.
RunnerRaises(c) ==
    /\ slot[c].phase = "running"
    /\ FinishIn(OnAddressed(c, LAMBDA t : FailClaim(t, c, TRUE)), c)
    /\ UNCHANGED <<published, index, sent>>

\* Deviation, for the mutation runs: a task cancelled before its body ran is left.
Recover_EnteredOnly(c) ==
    /\ slot[c].phase = "announcing" /\ slot[c].cancelled
    /\ FinishIn(tree, c)
    /\ UNCHANGED <<published, index, sent>>

\* Cancelled before the runner started: the finally block of an announcing task,
\* the recovery task of one whose body was never entered.
Recover(c) ==
    /\ slot[c].phase \in {"created", "announcing"} /\ slot[c].cancelled
    /\ FinishIn(tree, c)
    /\ UNCHANGED <<published, index, sent>>

-----------------------------------------------------------------------------
Deliver == \E n \in Prompts, s \in Statuses : Admit(n, s)

Command == \/ StopAll
           \/ \E sc \in Scopes : ClearScope(sc)
           \/ \E r \in Refs : StopReply(r) \/ ClearReply(r) \/ ClearReplyRaises(r)

TaskStep(c) == Enter(c) \/ StartRunner(c) \/ Recover(c) \/ RunnerReturns(c)

Task(c) == \/ TaskStep(c) \/ RunnerRaises(c) \/ RunnerRecordsSession(c)
           \/ RunnerCompletes(c) \/ RunnerFails(c)

Next == Deliver \/ Command \/ \E c \in Claims : Task(c)

Spec == Init /\ [][Next]_vars

\* The event loop runs every ready task, and every CLI process ends: by itself,
\* or killed by the session it belongs to.
FairSpec ==
    /\ Spec
    /\ \A c \in Claims : /\ WF_vars(TaskStep(c))
                         /\ WF_vars(RunnerCompletes(c) \/ RunnerFails(c))

-----------------------------------------------------------------------------
(* Safety *)

\* Every variable has the shape the code's data classes give it.
TypeOK ==
    /\ tree \in [Trees -> Tree]
    /\ published \subseteq Trees
    /\ index \in [Refs -> Trees \cup {None}]
    /\ slot \in [Claims -> Slot]
    /\ sent \subseteq Statuses

\* A tree's active claim and the task slot of that claim come and go together:
\* a live task holds the claim of its tree for its own node, and a claim that is
\* held has a live task.  Hence one task per conversation, and none is lost
\* between the cancellation, recovery and completion paths of the processor.
ClaimHasItsTask ==
    /\ \A c \in Claims : Live(c) =>
          /\ tree[slot[c].tree].active = c
          /\ tree[slot[c].tree].activeNode = slot[c].node
    /\ \A t \in Trees : tree[t].active # None =>
          Live(tree[t].active) /\ slot[tree[t].active].tree = t

\* The waiting turns of a tree are exactly its pending nodes, and the only turn
\* in progress is the active one: no admitted turn is forgotten, none runs twice.
QueueIsPending ==
    \A t \in Trees :
        /\ InState(tree[t], {"pending"}) = Queued(tree[t])
        /\ \A n \in InState(tree[t], {"in_progress"}) : IsActive(tree[t], n)

\* Turns only wait while a claim is held whose end will pick the next one.
WaitingImpliesActive ==
    \A t \in Trees : Queued(tree[t]) # {} => tree[t].active # None

\* A tree that left the repository, by /clear or with its root prompt, holds no
\* waiting turn and its remaining task is being cancelled: nothing starts in a
\* conversation the user has deleted.
DetachedIsQuiet ==
    \A t \in Trees \ published :
        /\ Queued(tree[t]) = {}
        /\ tree[t].active # None => tree[t].stopping

\* Detaching the root prompt detaches everything: the nodes of a tree hang
\* together, each under a message its parent still owns.
GraphIsConnected ==
    \A t \in Trees :
        /\ t \in published => tree[t].root \in Present(tree[t])
        /\ \A n \in Present(tree[t]) \ {tree[t].root} :
              Owns(tree[t], tree[t].nodes[n].parent, tree[t].nodes[n].parentRef)

\* The reference index names a message if and only if a published tree owns it:
\* a reply can neither reach a cleared conversation nor miss a live one.
IndexIsExact ==
    \A r \in Refs, t \in Trees :
        index[r] = t <=> t \in published /\ r \in AllReferences(tree[t])

\* Nothing that may still run has lost the status message its progress is
\* reported on.
RunnableHasStatus ==
    \A t \in Trees, n \in Prompts :
        tree[t].nodes[n].state \in Runnable => tree[t].nodes[n].status # None

\* The CLI session a turn resumes was left by a task that is gone: no session is
\* forked while the process that writes it may still be running.
ResumedSessionIsClosed ==
    \A c \in Claims : Live(c) /\ slot[c].resumes # None =>
        slot[slot[c].resumes].phase = "done"

\* Two published trees never have the same identity, so that looking a tree up by
\* identity finds the object a live task of a published tree was launched for.
IdentityIsUnique ==
    \A t, u \in published : tree[t].root = tree[u].root => t = u

-----------------------------------------------------------------------------
(* Action properties *)

\* What a user stopped stays stopped: while the claim of a node is being
\* cancelled no result of its runner is recorded, and once the claim is given
\* back the node is never executed again.
StoppedIsFinal ==
    [][\A t \in Trees : \A n \in Present(tree[t]) :
          /\ tree[t].nodes[n].state = "error" /\ (IsActive(tree[t], n) => tree[t].stopping)
          => /\ tree'[t].nodes[n].state \in {"error", "absent"}
             /\ tree'[t].nodes[n].session \in {tree[t].nodes[n].session, None}]_vars

\* ARCHITECTURE.md: "Global `/stop` drains every queue instead".
StopAllDrainsEveryQueue ==
    [][StopAll => \A t \in published : Queued(tree'[t]) = {}]_vars

\* The same promise when no active prompt has lost its status message.
StopAllDrainsWhenStatusesLive ==
    [][StopAll /\ Failing(published) = {} =>
          /\ \A t \in published : InState(tree'[t], Runnable) = {}
          /\ \A c \in Claims : Live(c) => slot'[c].cancelled]_vars

-----------------------------------------------------------------------------
(* Liveness *)

\* Every admitted turn is settled: run, failed, stopped or removed.
TurnsSettle ==
    \A t \in Trees, n \in Prompts :
        (tree[t].nodes[n].state \in Runnable) ~> (tree[t].nodes[n].state \notin Runnable)
=============================================================================
