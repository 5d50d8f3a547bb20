----------------------- MODULE TreeQueueManager_proofs -----------------------
(***************************************************************************)
(* Proofs about TreeQueueManager.  The invariant (IInv) says of every tree *)
(* object that it is consistent in itself, and that trees, repository,     *)
(* reference index and tasks agree with each other; every operation either *)
(* halts trees, or replaces one tree and the task of its claim, and three  *)
(* lemmas say that this is enough (HaltStep, DetachStep, TreeStep).        *)
(*                                                                         *)
(* The lemmas about MessageTree come first: what its operations do to the   *)
(* fields of a tree, and that each keeps the two halves of a tree           *)
(* consistent, the graph of prompts (Shape) and the schedule of their       *)
(* execution (Sched).                                                       *)
(*                                                                         *)
(* What the conversation trees promise their user, as theorems about every *)
(* behaviour, are at the end.  IInv says which states are reachable; what  *)
(* is shown there is mostly about steps:                                   *)
(*                                                                         *)
(*   - what was stopped stays stopped (StoppedIsFinal): every operator of  *)
(*     MessageTree keeps settled nodes, and every action applies such      *)
(*     operators;                                                          *)
(*   - a session is never forked (ResumedSessionIsClosed), a restart loses *)
(*     no conversation (RestartKeepsEveryTree) and global /stop reaches    *)
(*     every task (StopAllDrainsWhenStatusesLive): IInv is strengthened to *)
(*     JInv, and a step either delivers a turn, only drops turns (Quiet)   *)
(*     or ends a claim (Ends);                                             *)
(*   - the trees implement ConversationExecutor (ImplementsExecutor): the  *)
(*     three kinds of steps are the three kinds of steps of the executor.  *)
(***************************************************************************)
EXTENDS TreeSnapshots, TreeQueueRefinement, TLAPS

-----------------------------------------------------------------------------
(* Fields *)

\* A claim resumes a session or nothing.
LEMMA ParentSessionType ==
    ASSUME NEW t \in Tree, NEW n \in Prompts
    PROVE  ParentSession(t, n) \in Claims \cup {None}
BY DEF ParentSession, Tree, Node, Present

\* The fields of a tree that has just been founded (get_or_create_tree).
LEMMA NewRootFields ==
    ASSUME NEW n \in Prompts, NEW s \in Statuses
    PROVE  /\ NewRoot(n, s) \in Tree
           /\ NewRoot(n, s).root = n
           /\ NewRoot(n, s).nodes = [m \in Prompts |->
                 IF m = n THEN [NoNode EXCEPT !.state = "pending", !.status = s] ELSE NoNode]
           /\ NewRoot(n, s).queue = NoQueue
           /\ NewRoot(n, s).active = None /\ NewRoot(n, s).activeNode = None
           /\ NewRoot(n, s).tail = 0 /\ NewRoot(n, s).stopping = FALSE
BY DEF NewRoot, EmptyTree, Tree, NoNode, NoQueue, Node, MessageState

\* add_node writes the new node and nothing else.
LEMMA AddNodeFields ==
    ASSUME NEW t \in Tree, NEW n \in Prompts, NEW s \in Statuses,
           NEW parent \in Prompts, NEW r \in Refs,
           NEW u, u = AddNode(t, n, s, parent, r)
    PROVE  /\ u \in Tree
           /\ u.nodes = [t.nodes EXCEPT ![n] =
                 [state |-> "pending", status |-> s, parent |-> parent,
                  parentRef |-> r, session |-> None]]
           /\ u.root = t.root /\ u.queue = t.queue /\ u.tail = t.tail
           /\ u.active = t.active /\ u.activeNode = t.activeNode /\ (u.stopping <=> t.stopping)
<1> DEFINE node == [state |-> "pending", status |-> s, parent |-> parent,
                    parentRef |-> r, session |-> None]
           nodes == [t.nodes EXCEPT ![n] = node]
<1>1. nodes \in [Prompts -> Node]
  BY DEF Tree, Node, MessageState
<1>2. u = [t EXCEPT !.nodes = nodes]
  BY DEF AddNode, Tree
<1> HIDE DEF nodes
<1>3. u \in Tree /\ u.nodes = nodes /\ u.root = t.root /\ u.queue = t.queue
      /\ u.tail = t.tail /\ u.active = t.active /\ u.activeNode = t.activeNode
      /\ (u.stopping <=> t.stopping)
  BY <1>1, <1>2 DEF Tree
<1>4. QED BY <1>3 DEF nodes

\* A claim moves the pending node into progress and takes the tree.
LEMMA ClaimFields ==
    ASSUME NEW t \in Tree, NEW n \in Prompts, NEW c \in Claims,
           NEW u, u = Claim(t, n, c)
    PROVE  /\ u \in Tree
           /\ \A k \in Prompts \ {n} : u.nodes[k] = t.nodes[k]
           /\ u.nodes[n].state = "in_progress" /\ u.nodes[n].status = t.nodes[n].status
           /\ u.nodes[n].parent = t.nodes[n].parent
           /\ u.nodes[n].parentRef = t.nodes[n].parentRef
           /\ u.root = t.root /\ u.queue = t.queue /\ u.tail = t.tail
           /\ u.active = c /\ u.activeNode = n /\ ~u.stopping
<1> DEFINE node == [t.nodes[n] EXCEPT !.state = "in_progress"]
           nodes == [t.nodes EXCEPT ![n] = node]
<1>1. /\ node \in Node /\ node.state = "in_progress" /\ node.status = t.nodes[n].status
      /\ node.parent = t.nodes[n].parent /\ node.parentRef = t.nodes[n].parentRef
  BY DEF Tree, Node, MessageState
<1>2. u = [t EXCEPT !.nodes = nodes, !.active = c, !.activeNode = n, !.stopping = FALSE]
  BY DEF Claim, Tree
<1> HIDE DEF node
<1>3. /\ nodes \in [Prompts -> Node] /\ nodes[n] = node
      /\ \A k \in Prompts \ {n} : nodes[k] = t.nodes[k]
  BY <1>1 DEF Tree
<1> HIDE DEF nodes
<1>4. u \in Tree /\ u.nodes = nodes /\ u.root = t.root /\ u.queue = t.queue
      /\ u.tail = t.tail /\ u.active = c /\ u.activeNode = n /\ ~u.stopping
  BY <1>2, <1>3 DEF Tree
<1>5. QED BY <1>1, <1>3, <1>4

\* The queue gives the node the next ticket.
LEMMA PutFields ==
    ASSUME NEW t \in Tree, NEW n \in Prompts, NEW u, u = Put(t, n)
    PROVE  /\ u \in Tree
           /\ u.queue[n] = t.tail + 1
           /\ \A k \in Prompts \ {n} : u.queue[k] = t.queue[k]
           /\ u.tail = t.tail + 1
           /\ u.root = t.root /\ u.nodes = t.nodes /\ u.active = t.active
           /\ u.activeNode = t.activeNode /\ (u.stopping <=> t.stopping)
<1> DEFINE queue == [t.queue EXCEPT ![n] = t.tail + 1]
<1>1. /\ queue \in [Prompts -> Nat] /\ t.tail + 1 \in Nat
      /\ queue[n] = t.tail + 1
      /\ \A k \in Prompts \ {n} : queue[k] = t.queue[k]
  BY DEF Tree
<1>2. u = [t EXCEPT !.queue = queue, !.tail = t.tail + 1]
  BY DEF Put, Tree
<1> HIDE DEF queue
<1>3. u \in Tree /\ u.queue = queue /\ u.tail = t.tail + 1 /\ u.root = t.root
      /\ u.nodes = t.nodes /\ u.active = t.active /\ u.activeNode = t.activeNode
      /\ (u.stopping <=> t.stopping)
  BY <1>1, <1>2 DEF Tree
<1>4. QED BY <1>1, <1>3

\* finish_and_claim_next without a successor empties the queue.
LEMMA ReleaseFields ==
    ASSUME NEW t \in Tree, NEW u, u = Release(t)
    PROVE  /\ u \in Tree
           /\ u.active = None /\ u.activeNode = None /\ ~u.stopping
           /\ u.queue = NoQueue /\ u.tail = 0 /\ u.root = t.root /\ u.nodes = t.nodes
BY DEF Release, Tree, NoQueue

\* finish_and_claim_next with a successor drops what was popped before it.
LEMMA ReleaseToFields ==
    ASSUME NEW t \in Tree, NEW n \in Prompts, NEW c \in Claims,
           NEW u, u = ReleaseTo(t, n, c)
    PROVE  /\ u \in Tree
           /\ \A k \in Prompts \ {n} : u.nodes[k] = t.nodes[k]
           /\ u.nodes[n].state = "in_progress" /\ u.nodes[n].status = t.nodes[n].status
           /\ u.nodes[n].parent = t.nodes[n].parent
           /\ u.nodes[n].parentRef = t.nodes[n].parentRef
           /\ \A k \in Prompts :
                 u.queue[k] = IF t.queue[k] <= t.queue[n] THEN 0 ELSE t.queue[k]
           /\ u.root = t.root /\ u.tail = t.tail
           /\ u.active = c /\ u.activeNode = n /\ ~u.stopping
<1> DEFINE queue == [m \in Prompts |-> IF t.queue[m] <= t.queue[n] THEN 0 ELSE t.queue[m]]
           v == [t EXCEPT !.queue = queue]
<1>1. /\ queue \in [Prompts -> Nat]
      /\ \A k \in Prompts : queue[k] = IF t.queue[k] <= t.queue[n] THEN 0 ELSE t.queue[k]
  BY DEF Tree
<1>2. u = Claim(v, n, c)
  BY DEF ReleaseTo
<1> HIDE DEF queue
<1>3. v \in Tree /\ v.queue = queue /\ v.nodes = t.nodes /\ v.root = t.root /\ v.tail = t.tail
  BY <1>1 DEF Tree
<1> HIDE DEF v
<1>4. /\ u \in Tree
      /\ \A k \in Prompts \ {n} : u.nodes[k] = v.nodes[k]
      /\ u.nodes[n].state = "in_progress" /\ u.nodes[n].status = v.nodes[n].status
      /\ u.nodes[n].parent = v.nodes[n].parent
      /\ u.nodes[n].parentRef = v.nodes[n].parentRef
      /\ u.root = v.root /\ u.queue = v.queue /\ u.tail = v.tail
      /\ u.active = c /\ u.activeNode = n /\ ~u.stopping
  BY <1>2, <1>3, ClaimFields
<1>5. QED BY <1>1, <1>3, <1>4

\* Marking nodes as errors changes their state and nothing else.
LEMMA MarkErrorFields ==
    ASSUME NEW t \in Tree, NEW S
    PROVE  /\ MarkError(t, S) \in [Prompts -> Node]
           /\ Dequeue(t, S) \in [Prompts -> Nat]
           /\ \A k \in Prompts :
                /\ MarkError(t, S)[k].state = IF k \in S THEN "error" ELSE t.nodes[k].state
                /\ MarkError(t, S)[k].status = t.nodes[k].status
                /\ MarkError(t, S)[k].parent = t.nodes[k].parent
                /\ MarkError(t, S)[k].parentRef = t.nodes[k].parentRef
BY DEF MarkError, Dequeue, Tree, Node, MessageState

-----------------------------------------------------------------------------
(* What holds of a tree between two operations *)

\* S holds, with a node, every node that answers a message of it.
Closed(t, S) == \A n \in Present(t) : \A k \in S :
                   t.nodes[n].parentRef \in OwnedRefs(t, k) => n \in S

\* The graph: every node but the root answers a message its parent owns, nothing
\* is cut off from the root, and no two nodes share a status message.
Shape(t) ==
    /\ Present(t) # {} => t.root \in Present(t)
    /\ \A n \in Present(t) \ {t.root} : Owns(t, t.nodes[n].parent, t.nodes[n].parentRef)
    /\ \A S \in SUBSET Present(t) : t.root \in S /\ Closed(t, S) => S = Present(t)
    /\ \A m, n \in Present(t) :
          m # n /\ t.nodes[m].status # None => t.nodes[m].status # t.nodes[n].status

\* The schedule: pending is queued, what is in progress is the active node of a
\* claim nobody stops, and nobody waits in a tree without a claim.
Sched(t) ==
    /\ t.active = None <=> t.activeNode = None
    /\ \A n \in Prompts : t.nodes[n].state = "pending" <=> t.queue[n] > 0
    /\ \A n \in Prompts : t.nodes[n].state = "in_progress" => IsActive(t, n) /\ ~t.stopping
    /\ \A n \in Prompts : t.queue[n] > 0 => t.active # None /\ t.queue[n] <= t.tail
    /\ \A n \in Prompts : t.queue[n] > 0 /\ t.activeNode = n => t.stopping
    /\ \A m, n \in Prompts : m # n /\ t.queue[m] > 0 => t.queue[m] # t.queue[n]
    /\ t.active # None /\ t.activeNode \notin Present(t) => t.stopping
    /\ \A n \in Prompts : t.nodes[n].state \in Runnable => t.nodes[n].status # None
    /\ t.stopping => t.active # None
    /\ t.root = None => t.active = None

\* u differs from t in the schedule at most.
SameShape(t, u) ==
    /\ u.root = t.root
    /\ \A k \in Prompts :
          /\ u.nodes[k].status = t.nodes[k].status
          /\ u.nodes[k].parent = t.nodes[k].parent
          /\ u.nodes[k].parentRef = t.nodes[k].parentRef
          /\ u.nodes[k].state = "absent" <=> t.nodes[k].state = "absent"

\* u is t after turns were failed or stopped, or a result was recorded: no claim
\* changes hands, no node begins to run or to wait.
Halted(t, u) ==
    /\ SameShape(t, u)
    /\ u.active = t.active /\ u.activeNode = t.activeNode
    /\ t.stopping => u.stopping
    /\ u.stopping => u.active # None
    /\ u.stopping => \A k \in Prompts : u.nodes[k].state # "in_progress"
    /\ \A k \in Prompts :
          /\ u.nodes[k].state \in {t.nodes[k].state, "error", "completed"}
          /\ u.queue[k] \in {t.queue[k], 0}
          /\ u.nodes[k].state = "pending" <=> u.queue[k] > 0
    /\ u.tail = t.tail \/ u.queue = NoQueue

\* References, and what the shape says of them, depend on the graph only.
LEMMA SameShapeLemma ==
    ASSUME NEW t \in Tree, NEW u \in Tree, SameShape(t, u)
    PROVE  /\ Present(u) = Present(t)
           /\ \A k \in Prompts : OwnedRefs(u, k) = OwnedRefs(t, k)
           /\ AllReferences(u) = AllReferences(t)
           /\ Shape(t) => Shape(u)
<1>1. Present(u) = Present(t)
  BY DEF Present, SameShape
<1>2. \A k \in Prompts : OwnedRefs(u, k) = OwnedRefs(t, k)
  BY DEF OwnedRefs, SameShape
<1>3. AllReferences(u) = AllReferences(t)
  <2>1. Present(t) \subseteq Prompts
    BY DEF Present
  <2>2. QED BY <1>1, <1>2, <2>1 DEF AllReferences
<1>4. ASSUME Shape(t) PROVE Shape(u)
  <2>1. \A n \in Present(t) \ {u.root} : Owns(u, u.nodes[n].parent, u.nodes[n].parentRef)
    BY <1>1, <1>2, <1>4 DEF Shape, Owns, SameShape, Present
  <2>2. \A S \in SUBSET Present(t) : Closed(u, S) => Closed(t, S)
    BY <1>1, <1>2 DEF Closed, SameShape, Present
  <2>3. \A m, n \in Present(t) :
          m # n /\ u.nodes[m].status # None => u.nodes[m].status # u.nodes[n].status
    BY <1>4 DEF Shape, SameShape, Present
  <2>4. QED BY <1>1, <1>4, <2>1, <2>2, <2>3 DEF Shape, SameShape
<1>5. QED BY <1>1, <1>2, <1>3, <1>4

\* Halting a schedule leaves a schedule.
LEMMA HaltedLemma ==
    ASSUME NEW t \in Tree, NEW u \in Tree, Sched(t), Halted(t, u)
    PROVE  Sched(u)
<1>1. Present(u) = Present(t)
  BY SameShapeLemma DEF Halted
<1>2. u.active = None <=> u.activeNode = None
  BY DEF Sched, Halted
<1>3. \A n \in Prompts : u.nodes[n].state = "pending" <=> u.queue[n] > 0
  BY DEF Halted
<1>4. \A n \in Prompts : u.nodes[n].state = "in_progress" => IsActive(u, n) /\ ~u.stopping
  BY DEF Sched, Halted, IsActive
<1>5. \A n \in Prompts : u.queue[n] > 0 => u.active # None /\ u.queue[n] <= u.tail
  BY DEF Sched, Halted, NoQueue, Tree
<1>6. \A m, n \in Prompts : m # n /\ u.queue[m] > 0 => u.queue[m] # u.queue[n]
  BY DEF Sched, Halted, Tree
<1>7. u.active # None /\ u.activeNode \notin Present(u) => u.stopping
  BY <1>1 DEF Sched, Halted
<1>8. \A n \in Prompts : u.nodes[n].state \in Runnable => u.nodes[n].status # None
  BY DEF Sched, Halted, SameShape, Runnable
<1>9. u.root = None => u.active = None
  BY DEF Sched, Halted, SameShape
<1>10. \A n \in Prompts : u.queue[n] > 0 /\ u.activeNode = n => u.stopping
  BY DEF Sched, Halted, Tree
<1>11. u.stopping => u.active # None
  BY DEF Halted
<1>12. QED BY <1>10, <1>11, <1>2, <1>3, <1>4, <1>5, <1>6, <1>7, <1>8, <1>9 DEF Sched

-----------------------------------------------------------------------------
(* Results and cancellation *)

\* An untouched tree is halted.
LEMMA HaltedReflexive ==
    ASSUME NEW t \in Tree, Sched(t)
    PROVE  Halted(t, t)
BY DEF Halted, SameShape, Sched, Tree

\* The runner's three results only halt: the session id ...
LEMMA RecordSessionHalts ==
    ASSUME NEW t \in Tree, NEW c \in Claims, Sched(t)
    PROVE  RecordSession(t, c) \in Tree /\ Halted(t, RecordSession(t, c))
<1> DEFINE u == RecordSession(t, c)
<1>1. CASE ~Holds(t, c, {"in_progress"})
  BY <1>1, HaltedReflexive DEF RecordSession
<1>2. CASE Holds(t, c, {"in_progress"})
  <2> DEFINE node == [t.nodes[t.activeNode] EXCEPT !.session = c]
             nodes == [t.nodes EXCEPT ![t.activeNode] = node]
  <2>0. t.activeNode \in Prompts /\ c # None
    BY <1>2, ReferencesAssumption DEF Holds, Sched, Tree
  <2>1. node \in Node
    BY <2>0 DEF Tree, Node
  <2>2. nodes \in [Prompts -> Node]
    BY <2>1 DEF Tree
  <2>3. u = [t EXCEPT !.nodes = nodes]
    BY <1>2 DEF RecordSession, Tree
  <2>4. \A k \in Prompts :
          /\ nodes[k].state = t.nodes[k].state
          /\ nodes[k].status = t.nodes[k].status
          /\ nodes[k].parent = t.nodes[k].parent
          /\ nodes[k].parentRef = t.nodes[k].parentRef
    BY <2>0 DEF Tree, Node
  <2> HIDE DEF nodes
  <2>5. /\ u \in Tree /\ u.nodes = nodes /\ u.root = t.root /\ u.queue = t.queue
        /\ u.tail = t.tail /\ u.active = t.active /\ u.activeNode = t.activeNode
        /\ u.stopping = t.stopping
    BY <2>2, <2>3 DEF Tree
  <2> HIDE DEF u
  <2>6. QED BY <2>4, <2>5 DEF Halted, SameShape, Sched, u
<1>3. QED BY <1>1, <1>2

\* ... the successful end ...
LEMMA CompleteClaimHalts ==
    ASSUME NEW t \in Tree, NEW c \in Claims, NEW session \in {c, None}, Sched(t)
    PROVE  /\ CompleteClaim(t, c, session) \in Tree
           /\ Halted(t, CompleteClaim(t, c, session))
<1> DEFINE u == CompleteClaim(t, c, session)
<1>1. CASE ~Holds(t, c, {"in_progress", "error"})
  BY <1>1, HaltedReflexive DEF CompleteClaim
<1>2. CASE Holds(t, c, {"in_progress", "error"})
  <2> DEFINE kept == IF session = None THEN t.nodes[t.activeNode].session ELSE session
             node == [t.nodes[t.activeNode] EXCEPT !.state = "completed", !.session = kept]
             nodes == [t.nodes EXCEPT ![t.activeNode] = node]
  <2>0. t.activeNode \in Prompts /\ c # None
    BY <1>2, ReferencesAssumption DEF Holds, Sched, Tree
  <2>1. kept \in Claims \cup {None}
    BY <2>0 DEF Tree, Node
  <2>2. node \in Node /\ node.state = "completed"
        /\ node.status = t.nodes[t.activeNode].status
        /\ node.parent = t.nodes[t.activeNode].parent
        /\ node.parentRef = t.nodes[t.activeNode].parentRef
    <3> DEFINE old == t.nodes[t.activeNode]
               named == [old EXCEPT !.session = kept]
    <3> HIDE DEF kept
    <3>1. old \in Node
      BY <2>0 DEF Tree
    <3>2. named \in Node /\ named.status = old.status /\ named.parent = old.parent
          /\ named.parentRef = old.parentRef
      BY <3>1, <2>1 DEF Node
    <3>3. node = [named EXCEPT !.state = "completed"]
      BY <3>1 DEF Node
    <3> HIDE DEF named, node
    <3>4. QED BY <3>2, <3>3 DEF Node, MessageState
  <2>3. u = [t EXCEPT !.nodes = nodes]
    BY <1>2 DEF CompleteClaim, Tree
  <2> HIDE DEF node
  <2>4. nodes \in [Prompts -> Node]
    BY <2>2 DEF Tree
  <2>5. \A k \in Prompts :
          /\ nodes[k].state = IF k = t.activeNode THEN "completed" ELSE t.nodes[k].state
          /\ nodes[k].status = t.nodes[k].status
          /\ nodes[k].parent = t.nodes[k].parent
          /\ nodes[k].parentRef = t.nodes[k].parentRef
    BY <2>0, <2>2 DEF Tree
  <2> HIDE DEF nodes
  <2>6. /\ u \in Tree /\ u.nodes = nodes /\ u.root = t.root /\ u.queue = t.queue
        /\ u.tail = t.tail /\ u.active = t.active /\ u.activeNode = t.activeNode
        /\ u.stopping = t.stopping
    BY <2>3, <2>4 DEF Tree
  <2>7. t.nodes[t.activeNode].state \in {"in_progress", "error"}
    BY <1>2 DEF Holds
  <2> HIDE DEF u
  <2>8. QED BY <2>5, <2>6, <2>7 DEF Halted, SameShape, Sched, u
<1>3. QED BY <1>1, <1>2

(* The operations that make errors of the nodes in S and take some out of the queue. *)
LEMMA MarkErrorHalts ==
    ASSUME NEW t \in Tree, Sched(t), NEW S, NEW Q, S \subseteq Present(t),
           NEW u \in Tree, u.root = t.root,
           u.active = t.active, u.activeNode = t.activeNode,
           t.stopping => u.stopping, u.stopping => u.active # None,
           u.nodes = MarkError(t, S),
           u.queue = Dequeue(t, Q),
           u.tail = t.tail \/ u.queue = NoQueue,
           S \cap InState(t, {"pending"}) = Q \cap InState(t, {"pending"}),
           u.stopping /\ ~t.stopping => t.activeNode \in S \/ t.nodes[t.activeNode].state # "in_progress"
    PROVE  Halted(t, u)
<1>1. SameShape(t, u)
  BY MarkErrorFields DEF SameShape, Present
<1>2. \A k \in Prompts : u.nodes[k].state \in {t.nodes[k].state, "error", "completed"}
  BY MarkErrorFields
<1>3. \A k \in Prompts : u.queue[k] = IF k \in Q THEN 0 ELSE t.queue[k]
  BY DEF Dequeue
<1>4. \A k \in Prompts : u.nodes[k].state = "pending" <=> u.queue[k] > 0
  BY <1>3, MarkErrorFields DEF Sched, InState
<1>5. u.stopping => \A k \in Prompts : u.nodes[k].state # "in_progress"
  BY MarkErrorFields DEF Sched, IsActive
<1>6. QED BY <1>1, <1>2, <1>3, <1>4, <1>5 DEF Halted

\* ... and the failure, after which the claim's node is not in progress.
LEMMA FailClaimHalts ==
    ASSUME NEW t \in Tree, NEW c \in Claims, NEW propagate \in BOOLEAN, Sched(t)
    PROVE  /\ FailClaim(t, c, propagate) \in Tree
           /\ Halted(t, FailClaim(t, c, propagate))
           /\ ~Holds(FailClaim(t, c, propagate), c, {"in_progress"})
<1> DEFINE u == FailClaim(t, c, propagate)
           S == FailedBy(t, propagate)
           Q == S \ {t.activeNode}
           runnable == {"pending", "in_progress", "error"}
<1>1. CASE ~Holds(t, c, runnable)
  BY <1>1, HaltedReflexive DEF FailClaim, Holds
<1>2. CASE Holds(t, c, runnable)
  <2>1. t.activeNode \in Prompts /\ c # None /\ ~t.stopping /\ t.active = c
    BY <1>2, ReferencesAssumption DEF Holds, Sched, Tree
  <2>2. t.activeNode \in S /\ S \subseteq {t.activeNode} \cup InState(t, {"pending"})
    BY DEF FailedBy
  <2>3. S \subseteq Present(t)
    BY <1>2, <2>1, <2>2 DEF Present, InState, Holds
  <2>4. t.nodes[t.activeNode].state # "pending"
    BY <2>1 DEF Sched
  <2>5. u = [t EXCEPT !.nodes = MarkError(t, S), !.queue = Dequeue(t, Q)]
    BY <1>2 DEF FailClaim
  <2> HIDE DEF S, Q
  <2>5a. MarkError(t, S) \in [Prompts -> Node] /\ Dequeue(t, Q) \in [Prompts -> Nat]
    BY MarkErrorFields
  <2>6. /\ u \in Tree /\ u.nodes = MarkError(t, S) /\ u.queue = Dequeue(t, Q)
        /\ u.root = t.root /\ u.tail = t.tail /\ u.active = t.active
        /\ u.activeNode = t.activeNode /\ u.stopping = t.stopping
    BY <2>5, <2>5a DEF Tree
  <2>7. S \cap InState(t, {"pending"}) = Q \cap InState(t, {"pending"})
    BY <2>4 DEF Q, InState
  <2> HIDE DEF u
  <2>8. Halted(t, u)
    BY <2>1, <2>3, <2>6, <2>7, MarkErrorHalts
  <2>9. ~Holds(u, c, {"in_progress"})
    BY <2>1, <2>2, <2>6, MarkErrorFields DEF Holds
  <2>10. QED BY <2>6, <2>8, <2>9 DEF u
<1>3. QED BY <1>1, <1>2

\* Reply-/stop halts the one node.
LEMMA CancelNodeHalts ==
    ASSUME NEW t \in Tree, NEW n \in Prompts, Sched(t)
    PROVE  CancelNode(t, n) \in Tree /\ Halted(t, CancelNode(t, n))
           /\ (IsActive(t, n) => CancelNode(t, n).stopping)
<1> DEFINE u == CancelNode(t, n)
           S == {n} \cap InState(t, Runnable)
<1>1. S \subseteq Present(t)
  BY DEF InState, Present, Runnable
<1>2. /\ u \in Tree /\ u.nodes = MarkError(t, S) /\ u.queue = Dequeue(t, {n})
      /\ u.root = t.root /\ u.tail = t.tail /\ u.active = t.active
      /\ u.activeNode = t.activeNode /\ u.stopping = (t.stopping \/ IsActive(t, n))
  BY MarkErrorFields DEF CancelNode, Tree, IsActive
<1>3. S \cap InState(t, {"pending"}) = {n} \cap InState(t, {"pending"})
  BY DEF InState, Runnable
<1>4. IsActive(t, n) => t.activeNode \in S \/ t.nodes[t.activeNode].state # "in_progress"
  BY DEF IsActive, InState, Runnable
<1> HIDE DEF u, S
<1>5. u.stopping => u.active # None
  BY <1>2 DEF Sched, IsActive
<1>5a. u.stopping /\ ~t.stopping
       => t.activeNode \in S \/ t.nodes[t.activeNode].state # "in_progress"
  BY <1>2, <1>4
<1>5b. Halted(t, u)
  BY <1>1, <1>2, <1>3, <1>5, <1>5a, MarkErrorHalts
<1>6. QED BY <1>2, <1>5b DEF u

\* /stop and /clear halt the tree: nobody waits and the claim is stopping.
LEMMA CancelAllHalts ==
    ASSUME NEW t \in Tree, Sched(t)
    PROVE  /\ CancelAll(t) \in Tree /\ Halted(t, CancelAll(t))
           /\ CancelAll(t).stopping <=> t.active # None
           /\ CancelAll(t).queue = NoQueue
<1> DEFINE u == CancelAll(t)
           S == InState(t, Runnable)
<1>1. S \subseteq Present(t)
  BY DEF InState, Present, Runnable
<1>2. /\ u \in Tree /\ u.nodes = MarkError(t, S) /\ u.queue = NoQueue
      /\ u.root = t.root /\ u.active = t.active
      /\ u.activeNode = t.activeNode /\ u.stopping = (t.active # None)
  BY MarkErrorFields DEF CancelAll, RequestStop, Tree, NoQueue
<1>3. NoQueue = Dequeue(t, Prompts)
  BY DEF NoQueue, Dequeue
<1>4. S \cap InState(t, {"pending"}) = Prompts \cap InState(t, {"pending"})
  BY DEF InState, Runnable
<1>5. t.active # None => t.activeNode \in S \/ t.nodes[t.activeNode].state # "in_progress"
  BY DEF Sched, InState, Runnable, Tree
<1>6. t.stopping => t.active # None
  BY DEF Sched
<1> HIDE DEF u, S
<1>7. Halted(t, u)
  BY <1>1, <1>2, <1>3, <1>4, <1>5, <1>6, MarkErrorHalts
<1>8. QED BY <1>2, <1>7 DEF u

-----------------------------------------------------------------------------
(* Cancellation that raises, and removal *)

\* Only an active node whose claim is stopping has lost its status message, so
\* that a cancel that raises never leaves a turn running that was not stopping.
LEMMA MissingTarget ==
    ASSUME NEW t \in Tree, NEW n \in Prompts, Sched(t), UiTargetMissing(t, n)
    PROVE  /\ t.active # None /\ t.activeNode = n
           /\ t.nodes[n].state = "error"
BY DEF UiTargetMissing, Sched, IsActive

\* A cancel_all that raised has only set stopping.
LEMMA CancelAllPartialHalts ==
    ASSUME NEW t \in Tree, Sched(t), CancelAllRaises(t)
    PROVE  CancelAllPartial(t) \in Tree /\ Halted(t, CancelAllPartial(t))
<1>1. t.activeNode \in Prompts
  BY DEF CancelAllRaises, Sched, Tree
<1>2. t.active # None /\ t.nodes[t.activeNode].state = "error"
  BY <1>1, MissingTarget DEF CancelAllRaises
<1> DEFINE u == CancelAllPartial(t)
<1>3. /\ u \in Tree /\ u.nodes = t.nodes /\ u.queue = t.queue /\ u.tail = t.tail
      /\ u.root = t.root /\ u.active = t.active /\ u.activeNode = t.activeNode
      /\ u.stopping = TRUE
  BY <1>2 DEF CancelAllPartial, RequestStop, Tree
<1> HIDE DEF u
<1>4. QED BY <1>2, <1>3 DEF Halted, SameShape, Sched, IsActive, u

\* A removal that raised has stopped and dequeued what it visited.
LEMMA RemovePartialHalts ==
    ASSUME NEW t \in Tree, Sched(t), NEW n \in Prompts, UiTargetMissing(t, n), NEW S
    PROVE  RemoveSubtreePartial(t, S) \in Tree /\ Halted(t, RemoveSubtreePartial(t, S))
<1> DEFINE u == RemoveSubtreePartial(t, S)
           E == S \cap InState(t, Runnable)
<1>1. t.active # None /\ t.activeNode = n /\ t.nodes[n].state = "error"
  BY MissingTarget
<1>2. E \subseteq Present(t)
  BY DEF InState, Present, Runnable
<1>2a. u = [t EXCEPT !.stopping = TRUE, !.queue = Dequeue(t, S), !.nodes = MarkError(t, E)]
  BY <1>1 DEF RemoveSubtreePartial
<1>2b. MarkError(t, E) \in [Prompts -> Node] /\ Dequeue(t, S) \in [Prompts -> Nat]
  BY MarkErrorFields
<1>3. /\ u \in Tree /\ u.nodes = MarkError(t, E) /\ u.queue = Dequeue(t, S)
      /\ u.root = t.root /\ u.tail = t.tail /\ u.active = t.active
      /\ u.activeNode = t.activeNode /\ u.stopping = TRUE
  <2> HIDE DEF E
  <2>1. QED BY <1>2a, <1>2b DEF Tree
<1>4. E \cap InState(t, {"pending"}) = S \cap InState(t, {"pending"})
  BY DEF InState, Runnable
<1>5. t.nodes[t.activeNode].state # "in_progress"
  BY <1>1
<1> HIDE DEF u, E
<1>6. Halted(t, u)
  BY <1>1, <1>2, <1>3, <1>4, <1>5, MarkErrorHalts
<1>7. QED BY <1>3, <1>6 DEF u

-----------------------------------------------------------------------------
(* remove_message_subtree *)

\* The reply chain below a message is closed under answering.
LEMMA PromptsBelowClosed ==
    ASSUME NEW t \in Tree, NEW r \in Refs, NEW removed, removed = PromptsBelow(t, r)
    PROVE  /\ removed \subseteq Present(t)
           /\ Closed(t, removed)
           /\ r \in Present(t) => r \in removed
           /\ \A n \in Present(t) : t.nodes[n].parentRef = r => n \in removed
BY DEF PromptsBelow, Closed

\* The fields of a tree after remove_message_subtree.
LEMMA RemoveFields ==
    ASSUME NEW t \in Tree, NEW r \in Refs, NEW removed, removed = PromptsBelow(t, r),
           NEW u, u = RemoveSubtree(t, r, removed),
           NEW affected, affected = AffectedNodes(t, r, removed)
    PROVE  /\ u \in Tree /\ u.root = t.root /\ u.tail = t.tail
           /\ u.active = t.active /\ u.activeNode = t.activeNode
           /\ u.stopping = (t.stopping \/ (t.active # None /\ t.activeNode \in affected))
           /\ u.queue = Dequeue(t, affected)
           /\ \A k \in Prompts :
                /\ k \in removed => u.nodes[k] = NoNode
                /\ k \in affected \ removed => u.nodes[k] = ClearStatus(t.nodes[k])
                /\ k \notin affected => u.nodes[k] = t.nodes[k]
<1> DEFINE nodes == [n \in Prompts |->
               CASE n \in removed            -> NoNode
                 [] n \in affected \ removed -> ClearStatus(t.nodes[n])
                 [] OTHER                    -> t.nodes[n]]
           stopping == (t.stopping \/ (t.active # None /\ t.activeNode \in affected))
<1>1. nodes \in [Prompts -> Node]
  <2>1. \A node \in Node : ClearStatus(node) \in Node
    BY DEF ClearStatus, Node, MessageState
  <2>2. NoNode \in Node
    BY DEF NoNode, Node, MessageState
  <2>3. QED BY <2>1, <2>2 DEF Tree
<1>2. Dequeue(t, affected) \in [Prompts -> Nat] /\ stopping \in BOOLEAN
  BY MarkErrorFields DEF Tree
<1>3. u = [t EXCEPT !.stopping = stopping, !.queue = Dequeue(t, affected), !.nodes = nodes]
  BY DEF RemoveSubtree
<1>4. \A k \in Prompts :
          /\ k \in removed => nodes[k] = NoNode
          /\ k \in affected \ removed => nodes[k] = ClearStatus(t.nodes[k])
          /\ k \notin affected => nodes[k] = t.nodes[k]
  BY DEF AffectedNodes
<1> HIDE DEF nodes, stopping
<1>5. /\ u \in Tree /\ u.root = t.root /\ u.tail = t.tail
      /\ u.active = t.active /\ u.activeNode = t.activeNode
      /\ u.stopping = stopping /\ u.queue = Dequeue(t, affected) /\ u.nodes = nodes
  BY <1>1, <1>2, <1>3 DEF Tree
<1>6. QED BY <1>4, <1>5 DEF stopping

\* Removing a subtree leaves a schedule: what was queued of it is not.
LEMMA RemoveSched ==
    ASSUME NEW t \in Tree, NEW r \in Refs, NEW removed, removed = PromptsBelow(t, r),
           NEW u, u = RemoveSubtree(t, r, removed), Sched(t)
    PROVE  Sched(u)
<1> DEFINE affected == AffectedNodes(t, r, removed)
<1>1. /\ u \in Tree /\ u.root = t.root /\ u.tail = t.tail
      /\ u.active = t.active /\ u.activeNode = t.activeNode
      /\ u.stopping = (t.stopping \/ (t.active # None /\ t.activeNode \in affected))
      /\ u.queue = Dequeue(t, affected)
      /\ \A k \in Prompts :
           /\ k \in removed => u.nodes[k] = NoNode
           /\ k \in affected \ removed => u.nodes[k] = ClearStatus(t.nodes[k])
           /\ k \notin affected => u.nodes[k] = t.nodes[k]
  BY RemoveFields
<1>2. \A k \in Prompts : /\ k \in affected => u.nodes[k].state \in {"absent", "error"}
                         /\ k \notin affected => u.nodes[k] = t.nodes[k]
                         /\ u.queue[k] = IF k \in affected THEN 0 ELSE t.queue[k]
  <2>1. NoNode.state = "absent" /\ \A node \in Node : ClearStatus(node).state = "error"
    BY DEF NoNode, ClearStatus, Node
  <2>2. QED BY <1>1, <2>1 DEF Dequeue, Tree
<1>3. Present(u) = Present(t) \ removed
  <2>1. NoNode.state = "absent" /\ \A node \in Node : ClearStatus(node).state = "error"
    BY DEF NoNode, ClearStatus, Node
  <2>2. removed \subseteq affected /\ affected \subseteq Present(t)
    BY PromptsBelowClosed DEF AffectedNodes, Owns
  <2>3. QED BY <1>1, <2>1, <2>2 DEF Present, Tree
<1>4. /\ removed \subseteq affected /\ t.queue \in [Prompts -> Nat] /\ t.tail \in Nat
      /\ u.stopping <=> t.stopping \/ (t.active # None /\ t.activeNode \in affected)
  BY <1>1 DEF AffectedNodes, Tree
<1> HIDE DEF affected
<1>5. \A n \in Prompts : u.nodes[n].state = "pending" <=> u.queue[n] > 0
  BY <1>2, <1>4 DEF Sched
<1>6. \A n \in Prompts : u.nodes[n].state = "in_progress" => IsActive(u, n) /\ ~u.stopping
  BY <1>1, <1>2, <1>4 DEF Sched, IsActive
<1>7. /\ \A n \in Prompts : u.queue[n] > 0 => u.active # None /\ u.queue[n] <= u.tail
      /\ \A n \in Prompts : u.queue[n] > 0 /\ u.activeNode = n => u.stopping
      /\ \A m, n \in Prompts : m # n /\ u.queue[m] > 0 => u.queue[m] # u.queue[n]
  BY <1>1, <1>2, <1>4 DEF Sched
<1>8. u.active # None /\ u.activeNode \notin Present(u) => u.stopping
  BY <1>1, <1>3, <1>4 DEF Sched
<1>9. \A n \in Prompts : u.nodes[n].state \in Runnable => u.nodes[n].status # None
  BY <1>2 DEF Sched, Runnable
<1>10. QED BY <1>1, <1>5, <1>6, <1>7, <1>8, <1>9 DEF Sched

\* Who stays owns the messages that stay: a node survives only with the message
\* it answers.
LEMMA RemoveOwned ==
    ASSUME NEW t \in Tree, NEW r \in Refs, NEW removed, removed = PromptsBelow(t, r),
           NEW u, u = RemoveSubtree(t, r, removed)
    PROVE  /\ Present(u) = Present(t) \ removed
           /\ \A k \in Present(u) :
                /\ u.nodes[k].parent = t.nodes[k].parent
                /\ u.nodes[k].parentRef = t.nodes[k].parentRef
                /\ u.nodes[k].status = IF t.nodes[k].status = r THEN None
                                                                ELSE t.nodes[k].status
                /\ OwnedRefs(u, k) = OwnedRefs(t, k) \ {r}
<1> DEFINE affected == AffectedNodes(t, r, removed)
<1>1. /\ u \in Tree
      /\ \A k \in Prompts :
           /\ k \in removed => u.nodes[k] = NoNode
           /\ k \in affected \ removed => u.nodes[k] = ClearStatus(t.nodes[k])
           /\ k \notin affected => u.nodes[k] = t.nodes[k]
  BY RemoveFields
<1>2. /\ NoNode.state = "absent"
      /\ \A node \in Node : /\ ClearStatus(node).state = "error"
                            /\ ClearStatus(node).status = None
                            /\ ClearStatus(node).parent = node.parent
                            /\ ClearStatus(node).parentRef = node.parentRef
  BY DEF NoNode, ClearStatus, Node
<1>3. /\ removed \subseteq affected /\ affected \subseteq Present(t)
      /\ Present(t) \subseteq Prompts
  BY PromptsBelowClosed DEF AffectedNodes, Owns, Present
<1>4. Present(u) = Present(t) \ removed
  BY <1>1, <1>2, <1>3 DEF Present, Tree
<1>5. ASSUME NEW k \in Present(u)
      PROVE  /\ u.nodes[k].parent = t.nodes[k].parent
             /\ u.nodes[k].parentRef = t.nodes[k].parentRef
             /\ u.nodes[k].status = IF t.nodes[k].status = r THEN None
                                                             ELSE t.nodes[k].status
             /\ OwnedRefs(u, k) = OwnedRefs(t, k) \ {r}
  <2>1. k \in Prompts /\ k \in Present(t) /\ k \notin removed /\ t.nodes[k] \in Node
    BY <1>3, <1>4 DEF Tree
  <2>2. k # r
    BY <2>1, PromptsBelowClosed
  <2>3. r # None
    BY ReferencesAssumption DEF Refs
  <2>4. k \in affected <=> t.nodes[k].status = r
    BY <2>1, <2>2, <2>3 DEF AffectedNodes, Owns, OwnedRefs
  <2> HIDE DEF affected
  <2>5. /\ u.nodes[k].parent = t.nodes[k].parent
        /\ u.nodes[k].parentRef = t.nodes[k].parentRef
        /\ u.nodes[k].status = IF t.nodes[k].status = r THEN None ELSE t.nodes[k].status
    BY <1>1, <1>2, <2>1, <2>4
  <2>6. OwnedRefs(u, k) = OwnedRefs(t, k) \ {r}
    BY <2>2, <2>3, <2>5 DEF OwnedRefs
  <2>7. QED BY <2>5, <2>6
<1>6. QED BY <1>4, <1>5

\* Removing a reply chain that does not hold the root leaves the rest connected.
LEMMA RemoveShape ==
    ASSUME NEW t \in Tree, NEW r \in Refs, NEW removed, removed = PromptsBelow(t, r),
           NEW u, u = RemoveSubtree(t, r, removed), Shape(t)
    PROVE  /\ Shape(u)
           /\ t.root \in removed => Present(u) = {}
<1>1. /\ removed \subseteq Present(t)
      /\ Closed(t, removed)
      /\ \A n \in Present(t) : t.nodes[n].parentRef = r => n \in removed
  BY PromptsBelowClosed
<1>2. u \in Tree /\ u.root = t.root
  BY RemoveFields
<1>3. /\ Present(u) = Present(t) \ removed
      /\ \A k \in Present(u) :
           /\ u.nodes[k].parent = t.nodes[k].parent
           /\ u.nodes[k].parentRef = t.nodes[k].parentRef
           /\ u.nodes[k].status = IF t.nodes[k].status = r THEN None ELSE t.nodes[k].status
           /\ OwnedRefs(u, k) = OwnedRefs(t, k) \ {r}
  BY RemoveOwned
<1>4. t.root \in removed => Present(u) = {}
  BY <1>1, <1>3 DEF Shape
<1>5. Present(u) # {} => u.root \in Present(u)
  BY <1>2, <1>3, <1>4 DEF Shape
<1>6. \A n \in Present(u) \ {u.root} : Owns(u, u.nodes[n].parent, u.nodes[n].parentRef)
  <2> SUFFICES ASSUME NEW n \in Present(u), n # u.root
               PROVE  Owns(u, u.nodes[n].parent, u.nodes[n].parentRef)
    OBVIOUS
  <2> DEFINE p == t.nodes[n].parent
             q == t.nodes[n].parentRef
  <2>1. n \in Present(t) /\ n \notin removed
    BY <1>3
  <2>2. p \in Present(t) /\ q \in OwnedRefs(t, p)
    BY <1>2, <2>1 DEF Shape, Owns
  <2>3. p \notin removed
    BY <1>1, <2>1, <2>2 DEF Closed
  <2>4. q # r
    BY <1>1, <2>1
  <2>5. u.nodes[n].parent = p /\ u.nodes[n].parentRef = q
    BY <1>3
  <2> HIDE DEF p, q
  <2>6. p \in Present(u) /\ q \in OwnedRefs(u, p)
    BY <1>3, <2>2, <2>3, <2>4
  <2>7. QED BY <2>5, <2>6 DEF Owns
<1>7. ASSUME NEW S \in SUBSET Present(u), u.root \in S, Closed(u, S)
      PROVE  S = Present(u)
  <2>1. S \cup removed \subseteq Present(t)
    BY <1>1, <1>3
  <2>2. Closed(t, S \cup removed)
    <3> SUFFICES ASSUME NEW n \in Present(t), NEW k \in S \cup removed,
                        t.nodes[n].parentRef \in OwnedRefs(t, k), n \notin removed
                 PROVE  n \in S
      BY DEF Closed
    <3>1. k \in S
      BY <1>1 DEF Closed
    <3>2. t.nodes[n].parentRef # r
      BY <1>1
    <3>3. n \in Present(u) /\ k \in Present(u)
      BY <1>3, <3>1
    <3>4. u.nodes[n].parentRef \in OwnedRefs(u, k)
      BY <1>3, <3>2, <3>3
    <3>5. QED BY <1>7, <3>1, <3>3, <3>4 DEF Closed
  <2>3. S \cup removed = Present(t)
    BY <1>2, <1>7, <2>1, <2>2 DEF Shape
  <2>4. QED BY <1>3, <2>3
<1>8. ASSUME NEW m \in Present(u), NEW n \in Present(u), m # n, u.nodes[m].status # None
      PROVE  u.nodes[m].status # u.nodes[n].status
  BY <1>3, <1>8 DEF Shape
<1>9. QED BY <1>4, <1>5, <1>6, <1>7, <1>8 DEF Shape

\* What the subtree owned is what the tree no longer owns.
LEMMA RemoveReferences ==
    ASSUME NEW t \in Tree, NEW r \in Refs, NEW removed, removed = PromptsBelow(t, r),
           NEW u, u = RemoveSubtree(t, r, removed), Shape(t)
    PROVE  AllReferences(u) = AllReferences(t) \ ReferenceDescendants(t, r)
<1>1. /\ Present(u) = Present(t) \ removed
      /\ \A k \in Present(u) : OwnedRefs(u, k) = OwnedRefs(t, k) \ {r}
  BY RemoveOwned
<1>2. removed \subseteq Present(t) /\ Present(t) \subseteq Prompts
  BY PromptsBelowClosed DEF Present
<1>3. \A j, k \in Present(t) : j # k => OwnedRefs(t, j) \cap OwnedRefs(t, k) = {}
  BY <1>2, ReferencesAssumption DEF Shape, OwnedRefs, Tree, Node
<1>4. ReferenceDescendants(t, r) = {r} \cup UNION {OwnedRefs(t, k) : k \in removed}
  BY DEF ReferenceDescendants
<1>5. QED BY <1>1, <1>2, <1>3, <1>4 DEF AllReferences

-----------------------------------------------------------------------------
(* Admission *)

\* A node the tree already holds is neither claimed nor queued again.
LEMMA AdmitKnownStutters ==
    ASSUME NEW t \in Tree, Sched(t), NEW n \in Prompts, NEW c \in Claims
    PROVE  ~MustClaim(t, n) /\ EnqueueOrClaim(t, n, c) = t
BY DEF MustClaim, MustQueue, EnqueueOrClaim, Sched, Queued

\* A founded tree runs its root.
LEMMA AdmitRootTree ==
    ASSUME NEW n \in Prompts, NEW s \in Statuses, NEW c \in Claims,
           NEW u, u = EnqueueOrClaim(NewRoot(n, s), n, c)
    PROVE  /\ u \in Tree /\ Sched(u) /\ Shape(u)
           /\ u.root = n /\ u.active = c /\ u.activeNode = n
           /\ ~u.stopping
           /\ Present(u) = {n}
           /\ AllReferences(u) = {n, s}
<1> DEFINE t == NewRoot(n, s)
<1>1. /\ t \in Tree /\ t.root = n /\ t.queue = NoQueue /\ t.active = None
      /\ t.tail = 0
      /\ t.nodes = [m \in Prompts |->
            IF m = n THEN [NoNode EXCEPT !.state = "pending", !.status = s] ELSE NoNode]
  BY NewRootFields
<1>2. \A m \in Prompts : t.nodes[m].state = IF m = n THEN "pending" ELSE "absent"
  BY <1>1 DEF NoNode
<1>3. t.nodes[n].status = s
  BY <1>1 DEF NoNode
<1>3a. t \in Tree /\ t.root = n /\ t.queue = NoQueue /\ t.tail = 0
  BY <1>1
<1> HIDE DEF t
<1>4. u = Claim(t, n, c)
  BY <1>1, <1>2 DEF EnqueueOrClaim, MustClaim, MustQueue, t
<1>5. /\ u \in Tree /\ u.root = n /\ u.queue = NoQueue /\ u.tail = 0
      /\ u.active = c /\ u.activeNode = n /\ ~u.stopping
      /\ \A k \in Prompts \ {n} : u.nodes[k] = t.nodes[k]
      /\ u.nodes[n].state = "in_progress" /\ u.nodes[n].status = t.nodes[n].status
  BY <1>3a, <1>4, ClaimFields
<1>6. /\ \A m \in Prompts : u.nodes[m].state = IF m = n THEN "in_progress" ELSE "absent"
      /\ u.nodes[n].status = s
  BY <1>2, <1>3, <1>5
<1>7. Present(u) = {n}
  BY <1>6 DEF Present
<1>8. s # None /\ c # None /\ n # None
  BY ReferencesAssumption
<1>9. AllReferences(u) = {n, s}
  BY <1>6, <1>7, <1>8 DEF AllReferences, OwnedRefs
<1>10. Shape(u)
  BY <1>5, <1>7 DEF Shape
<1>11. Sched(u)
  BY <1>5, <1>6, <1>7, <1>8 DEF Sched, NoQueue, IsActive, Runnable
<1>12. QED BY <1>5, <1>7, <1>9, <1>10, <1>11

\* A reply is claimed by an idle tree and queued by a busy one.
LEMMA AdmitReplyTree ==
    ASSUME NEW t \in Tree, Sched(t), Shape(t),
           NEW n \in Prompts, n \notin AllReferences(t),
           NEW s \in Statuses, s \notin AllReferences(t),
           NEW parent \in Prompts, NEW r \in Refs, Owns(t, parent, r), NEW c \in Claims,
           NEW a, a = AddNode(t, n, s, parent, r),
           NEW u, u = EnqueueOrClaim(a, n, c)
    PROVE  /\ a \in Tree
           /\ u \in Tree /\ Sched(u) /\ Shape(u)
           /\ u.root = t.root /\ u.root \in Present(u)
           /\ AllReferences(u) = AllReferences(t) \cup {n, s}
           /\ MustClaim(a, n) <=> t.active = None
           /\ t.active = None => u.active = c /\ u.activeNode = n
           /\ t.active # None => u.active = t.active /\ u.activeNode = t.activeNode
                                 /\ (u.stopping <=> t.stopping)
<1>1. /\ a \in Tree
      /\ a.nodes = [t.nodes EXCEPT ![n] =
            [state |-> "pending", status |-> s, parent |-> parent,
             parentRef |-> r, session |-> None]]
      /\ a.root = t.root /\ a.queue = t.queue /\ a.tail = t.tail
      /\ a.active = t.active /\ a.activeNode = t.activeNode /\ (a.stopping <=> t.stopping)
  BY AddNodeFields
<1>1a. a \in Tree
  BY <1>1
<1>2. n # None /\ s # None /\ c # None /\ n # s
  BY ReferencesAssumption
<1>3. n \notin Present(t) /\ Present(t) \subseteq Prompts
  BY <1>2 DEF AllReferences, OwnedRefs, Present
<1>4. /\ a.nodes[n].state = "pending" /\ a.nodes[n].status = s
      /\ a.nodes[n].parent = parent /\ a.nodes[n].parentRef = r
      /\ \A m \in Prompts \ {n} : a.nodes[m] = t.nodes[m]
  BY <1>1 DEF Tree
<1>5. t.nodes[n].state = "absent" /\ t.queue[n] = 0
  BY <1>3 DEF Present, Sched, Tree
<1>6. Present(a) = Present(t) \cup {n}
  BY <1>3, <1>4 DEF Present
<1>7. /\ \A k \in Present(t) : k # n /\ OwnedRefs(a, k) = OwnedRefs(t, k)
      /\ OwnedRefs(a, n) = {n, s}
  BY <1>2, <1>3, <1>4 DEF OwnedRefs
<1>8. AllReferences(a) = AllReferences(t) \cup {n, s}
  BY <1>6, <1>7 DEF AllReferences
<1>9. parent \in Present(t) /\ r \in OwnedRefs(t, parent)
  BY DEF Owns
<1>10. Shape(a)
  <2>1. a.root \in Present(a) /\ t.root \in Present(t)
    BY <1>1, <1>6, <1>9 DEF Shape
  <2>2. \A m \in Present(a) \ {a.root} : Owns(a, a.nodes[m].parent, a.nodes[m].parentRef)
    <3> SUFFICES ASSUME NEW m \in Present(a), m # a.root
                 PROVE  Owns(a, a.nodes[m].parent, a.nodes[m].parentRef)
      OBVIOUS
    <3>1. CASE m = n
      BY <1>4, <1>6, <1>7, <1>9, <3>1 DEF Owns
    <3>2. CASE m # n
      <4>1. m \in Present(t) /\ m # t.root /\ a.nodes[m] = t.nodes[m]
        BY <1>1, <1>3, <1>4, <1>6, <3>2
      <4>2. Owns(t, t.nodes[m].parent, t.nodes[m].parentRef)
        BY <4>1 DEF Shape
      <4>3. QED BY <1>6, <1>7, <4>1, <4>2 DEF Owns
    <3>3. QED BY <3>1, <3>2
  <2>3. ASSUME NEW S \in SUBSET Present(a), a.root \in S, Closed(a, S)
        PROVE  S = Present(a)
    <3>1. S \ {n} \in SUBSET Present(t) /\ t.root \in S \ {n}
      BY <1>1, <1>3, <1>6, <2>1, <2>3
    <3>2. Closed(t, S \ {n})
      BY <1>3, <1>4, <1>6, <1>7, <2>3, <3>1 DEF Closed
    <3>3. S \ {n} = Present(t)
      BY <3>1, <3>2 DEF Shape
    <3>4. n \in S
      BY <1>4, <1>6, <1>7, <1>9, <2>3, <3>3 DEF Closed
    <3>5. QED BY <1>6, <3>3, <3>4
  <2>4. ASSUME NEW m \in Present(a), NEW k \in Present(a), m # k, a.nodes[m].status # None
        PROVE  a.nodes[m].status # a.nodes[k].status
    <3>1. \A j \in Present(t) : t.nodes[j].status # s
      BY <1>2 DEF AllReferences, OwnedRefs
    <3>2. QED BY <1>3, <1>4, <1>6, <2>4, <3>1 DEF Shape
  <2>5. QED BY <2>1, <2>2, <2>3, <2>4 DEF Shape
<1>11. a.root \in Present(a) /\ t.root \in Present(t)
  BY <1>1, <1>6, <1>9 DEF Shape
<1>12. MustClaim(a, n) <=> t.active = None
  BY <1>1, <1>4 DEF MustClaim
<1>13. CASE t.active = None
  <2>1. u = Claim(a, n, c)
    BY <1>1, <1>12, <1>13 DEF EnqueueOrClaim, MustQueue
  <2>2. /\ u \in Tree
        /\ \A k \in Prompts \ {n} : u.nodes[k] = a.nodes[k]
        /\ u.nodes[n].state = "in_progress" /\ u.nodes[n].status = a.nodes[n].status
        /\ u.nodes[n].parent = a.nodes[n].parent
        /\ u.nodes[n].parentRef = a.nodes[n].parentRef
        /\ u.root = a.root /\ u.queue = a.queue /\ u.tail = a.tail
        /\ u.active = c /\ u.activeNode = n /\ ~u.stopping
    BY <1>1a, <2>1, ClaimFields
  <2>4. /\ u.nodes[n].state = "in_progress" /\ u.nodes[n].status = s
    BY <1>4, <2>2
  <2>5. SameShape(a, u)
    BY <1>4, <2>2 DEF SameShape
  <2>6. \A m \in Prompts : u.queue[m] = 0
    BY <1>1, <1>13, <2>2 DEF Sched, Tree
  <2>7. u.root # None
    BY <1>3, <1>11, <2>2, <1>1, ReferencesAssumption
  <2>8. Sched(u)
    <3>1. \A m \in Prompts \ {n} : t.nodes[m].state # "pending" /\ t.nodes[m].state # "in_progress"
      BY <1>1, <1>13, <2>2, <2>6 DEF Sched, IsActive
    <3>2. n \in Present(u)
      BY <2>4 DEF Present
    <3>3. QED BY <1>2, <1>4, <2>2, <2>4, <2>6, <2>7, <3>1, <3>2
              DEF Sched, IsActive, Runnable
  <2>9. QED BY <1>1, <1>8, <1>10, <1>11, <1>12, <1>13, <2>2, <2>5, <2>8, SameShapeLemma
<1>14. CASE t.active # None
  <2>1. u = Put(a, n)
    BY <1>1, <1>4, <1>5, <1>12, <1>14 DEF EnqueueOrClaim, MustQueue, Queued
  <2>2a. u.queue[n] = a.tail + 1 /\ \A k \in Prompts \ {n} : u.queue[k] = a.queue[k]
    <3>1. u.queue[n] = a.tail + 1
      BY <1>1a, <2>1, PutFields
    <3>2. u.queue = [a.queue EXCEPT ![n] = a.tail + 1] /\ a.queue \in [Prompts -> Nat]
      BY <1>1a, <2>1 DEF Put, Tree
    <3>3. \A k \in Prompts \ {n} : u.queue[k] = a.queue[k]
      BY <3>2
    <3>4. QED BY <3>1, <3>3
  <2>2b. u \in Tree /\ u.tail = a.tail + 1
    BY <1>1a, <2>1, PutFields
  <2>2c. /\ u.root = a.root /\ u.nodes = a.nodes /\ u.active = a.active
         /\ u.activeNode = a.activeNode /\ (u.stopping <=> a.stopping)
    BY <1>1a, <2>1, PutFields
  <2>2. /\ u \in Tree
        /\ \A k \in Prompts : u.queue[k] = IF k = n THEN a.tail + 1 ELSE a.queue[k]
        /\ u.tail = a.tail + 1
        /\ u.root = a.root /\ u.nodes = a.nodes /\ u.active = a.active
        /\ u.activeNode = a.activeNode /\ (u.stopping <=> a.stopping)
    BY <2>2a, <2>2b, <2>2c
  <2>3. SameShape(a, u)
    BY <2>2 DEF SameShape
  <2>4. /\ \A m \in Prompts : u.queue[m] = IF m = n THEN t.tail + 1 ELSE t.queue[m]
        /\ t.tail \in Nat /\ t.queue \in [Prompts -> Nat]
    BY <1>1, <2>2 DEF Tree
  <2>5. t.activeNode = n => t.stopping
    BY <1>3, <1>14 DEF Sched
  <2>6. (u.stopping <=> t.stopping) /\ Present(u) = Present(a)
    BY <1>1, <2>2, <2>3, SameShapeLemma DEF Tree
  <2>7. Sched(u)
    <3>1. /\ u.active = None <=> u.activeNode = None
          /\ \A m \in Prompts : u.nodes[m].state = "pending" <=> u.queue[m] > 0
          /\ \A m \in Prompts : u.queue[m] > 0 => u.active # None /\ u.queue[m] <= u.tail
          /\ \A m, k \in Prompts : m # k /\ u.queue[m] > 0 => u.queue[m] # u.queue[k]
      BY <1>1, <1>4, <1>14, <2>2, <2>4 DEF Sched
    <3>2. /\ \A m \in Prompts : u.nodes[m].state = "in_progress" => IsActive(u, m) /\ ~u.stopping
          /\ \A m \in Prompts : u.queue[m] > 0 /\ u.activeNode = m => u.stopping
          /\ u.active # None /\ u.activeNode \notin Present(u) => u.stopping
          /\ u.stopping => u.active # None
      BY <1>1, <1>4, <1>6, <1>14, <2>2, <2>4, <2>5, <2>6 DEF Sched, IsActive
    <3>3. /\ \A m \in Prompts : u.nodes[m].state \in Runnable => u.nodes[m].status # None
          /\ u.root = None => u.active = None
      BY <1>1, <1>2, <1>4, <1>14, <2>2 DEF Sched
    <3>4. QED BY <3>1, <3>2, <3>3 DEF Sched
  <2>8. QED BY <1>1, <1>8, <1>10, <1>11, <1>12, <1>14, <2>2, <2>3, <2>6, <2>7, SameShapeLemma
<1>15. QED BY <1>13, <1>14

-----------------------------------------------------------------------------
(* The end of a claim *)

\* No node of t is in progress.
Idle(t) == \A k \in Prompts : t.nodes[k].state # "in_progress"

\* Giving the claim of an idle tree back without a successor.
LEMMA ReleaseTree ==
    ASSUME NEW t \in Tree, Sched(t), Shape(t), Idle(t), Waiting(t) = {},
           NEW u, u = Release(t)
    PROVE  /\ u \in Tree /\ Sched(u) /\ Shape(u) /\ SameShape(t, u)
           /\ u.active = None /\ Queued(u) = {}
<1>1. /\ u \in Tree
      /\ u.active = None /\ u.activeNode = None /\ ~u.stopping
      /\ u.queue = NoQueue /\ u.root = t.root /\ u.nodes = t.nodes
  BY ReleaseFields
<1>2. \A k \in Prompts : t.nodes[k].state # "pending"
  BY DEF Sched, Waiting, Queued
<1>3. SameShape(t, u)
  BY <1>1 DEF SameShape
<1>4. Sched(u)
  BY <1>1, <1>2 DEF Sched, Idle, NoQueue, Runnable
<1>5. Queued(u) = {}
  BY <1>1 DEF Queued, NoQueue
<1>6. QED BY <1>1, <1>3, <1>4, <1>5, SameShapeLemma

\* Giving the claim of an idle tree to the successor n.
LEMMA ReleaseToTree ==
    ASSUME NEW t \in Tree, Sched(t), Shape(t), Idle(t),
           NEW n \in Prompts, NextInLine(t, n), NEW d \in Claims,
           NEW u, u = ReleaseTo(t, n, d)
    PROVE  /\ u \in Tree /\ Sched(u) /\ Shape(u) /\ SameShape(t, u)
           /\ u.active = d /\ u.activeNode = n
<1>1. /\ \A k \in Prompts \ {n} : u.nodes[k] = t.nodes[k]
      /\ u.nodes[n].state = "in_progress" /\ u.nodes[n].status = t.nodes[n].status
      /\ u.nodes[n].parent = t.nodes[n].parent
      /\ u.nodes[n].parentRef = t.nodes[n].parentRef
  BY ReleaseToFields
<1>2. \A k \in Prompts : u.queue[k] = IF t.queue[k] <= t.queue[n] THEN 0 ELSE t.queue[k]
  BY ReleaseToFields
<1>3. u \in Tree /\ u.root = t.root /\ u.tail = t.tail
  BY ReleaseToFields
<1>4. u.active = d /\ u.activeNode = n /\ ~u.stopping
  BY ReleaseToFields
<1>5. d # None /\ t.queue \in [Prompts -> Nat] /\ t.tail \in Nat
  BY ReferencesAssumption DEF Tree
<1>6. t.nodes[n].state = "pending" /\ t.queue[n] > 0
  BY DEF NextInLine, Waiting, Queued
<1>7. SameShape(t, u)
  BY <1>1, <1>3, <1>6 DEF SameShape
\* Tickets are distinct and the first one is the least: only n leaves the queue.
<1>8. \A k \in Prompts : u.queue[k] = IF k = n THEN 0 ELSE t.queue[k]
  <2> SUFFICES ASSUME NEW k \in Prompts, k # n
               PROVE  u.queue[k] = t.queue[k]
    BY <1>2, <1>5
  <2>1. CASE t.queue[k] = 0
    BY <1>2, <1>5, <2>1
  <2>2. CASE t.queue[k] > 0
    <3>1. k \in Waiting(t)
      BY <2>2 DEF Waiting, Queued, Sched
    <3>2. t.queue[n] <= t.queue[k]
      BY <3>1 DEF NextInLine
    <3>3. t.queue[n] # t.queue[k]
      BY <2>2, <1>6 DEF Sched
    <3>4. QED BY <1>2, <1>5, <3>2, <3>3
  <2>3. QED BY <1>5, <2>1, <2>2
<1>9. Sched(u)
  <2>1. \A k \in Prompts : u.nodes[k].state = "pending" <=> u.queue[k] > 0
    BY <1>1, <1>5, <1>6, <1>8 DEF Sched
  <2>2. \A k \in Prompts : u.nodes[k].state = "in_progress" => IsActive(u, k) /\ ~u.stopping
    BY <1>1, <1>4, <1>5 DEF Idle, IsActive
  <2>3. /\ \A k \in Prompts : u.queue[k] > 0 => u.active # None /\ u.queue[k] <= u.tail
        /\ \A k \in Prompts : u.queue[k] > 0 /\ u.activeNode = k => u.stopping
        /\ \A j, k \in Prompts : j # k /\ u.queue[j] > 0 => u.queue[j] # u.queue[k]
    BY <1>3, <1>4, <1>5, <1>8 DEF Sched
  <2>4. n \in Present(u)
    BY <1>1 DEF Present
  <2>5. \A k \in Prompts : u.nodes[k].state \in Runnable => u.nodes[k].status # None
    BY <1>1, <1>6 DEF Sched, Runnable
  <2>6. t.root # None
    BY <1>6 DEF Sched
  <2>7. n # None
    BY ReferencesAssumption
  <2>8. QED BY <1>3, <1>4, <1>5, <2>1, <2>2, <2>3, <2>4, <2>5, <2>6, <2>7 DEF Sched
<1>10. QED BY <1>3, <1>4, <1>7, <1>9, SameShapeLemma


-----------------------------------------------------------------------------
(* The invariant *)

\* Live, of a given slot function.
LiveIn(sl, c) == sl[c].phase \in {"created", "announcing", "running"}

\* Trees, repository, index and tasks agree.
Consistent(tr, pub, idx, sl) ==
    /\ tr \in [Trees -> Tree] /\ pub \in SUBSET Trees
    /\ idx \in [Refs -> Trees \cup {None}] /\ sl \in [Claims -> Slot]
    /\ \A t \in Trees : Sched(tr[t]) /\ Shape(tr[t])
    /\ \A c \in Claims : LiveIn(sl, c) =>
          /\ sl[c].tree \in Trees
          /\ tr[sl[c].tree].active = c
          /\ tr[sl[c].tree].activeNode = sl[c].node
          /\ sl[c].cancelled => tr[sl[c].tree].stopping
    /\ \A t \in Trees : tr[t].active # None =>
          LiveIn(sl, tr[t].active) /\ sl[tr[t].active].tree = t
    /\ \A t \in Trees \ pub : /\ Queued(tr[t]) = {}
                              /\ tr[t].active # None => tr[t].stopping
    /\ \A t \in pub : tr[t].root \in Present(tr[t])
    /\ \A r \in Refs, t \in Trees : idx[r] = t <=> t \in pub /\ r \in AllReferences(tr[t])

\* The inductive invariant.
IInv == Consistent(tree, published, index, slot) /\ sent \subseteq Statuses

\* The types Consistent speaks of.
LEMMA ConsistentType ==
    ASSUME NEW tr, NEW pub, NEW idx, NEW sl, Consistent(tr, pub, idx, sl)
    PROVE  /\ tr \in [Trees -> Tree] /\ pub \in SUBSET Trees
           /\ idx \in [Refs -> Trees \cup {None}] /\ sl \in [Claims -> Slot]
           /\ \A t \in Trees : tr[t] \in Tree /\ Sched(tr[t]) /\ Shape(tr[t])
           /\ \A c \in Claims : sl[c] \in Slot
BY DEF Consistent

\* Trees are halted, tasks are only told about it.
LEMMA HaltStep ==
    ASSUME NEW tr, NEW pub, NEW idx, NEW sl, Consistent(tr, pub, idx, sl),
           NEW tr1 \in [Trees -> Tree], \A t \in Trees : Halted(tr[t], tr1[t]),
           NEW sl1 \in [Claims -> Slot],
           \A c \in Claims :
              /\ LiveIn(sl1, c) <=> LiveIn(sl, c)
              /\ LiveIn(sl, c) => /\ sl1[c].tree = sl[c].tree /\ sl1[c].node = sl[c].node
                                  /\ sl1[c].cancelled /\ ~sl[c].cancelled
                                        => tr1[sl[c].tree].stopping
    PROVE  Consistent(tr1, pub, idx, sl1)
<1>1. \A t \in Trees : tr[t] \in Tree /\ tr1[t] \in Tree /\ Sched(tr[t]) /\ Shape(tr[t])
  BY ConsistentType
<1>2. \A t \in Trees : Sched(tr1[t])
  BY <1>1, HaltedLemma
<1>3. \A t \in Trees : SameShape(tr[t], tr1[t])
  BY DEF Halted
<1>4. \A t \in Trees : /\ Shape(tr1[t]) /\ Present(tr1[t]) = Present(tr[t])
                       /\ AllReferences(tr1[t]) = AllReferences(tr[t])
                       /\ tr1[t].root = tr[t].root
  <2>1. \A t \in Trees : tr1[t].root = tr[t].root
    BY <1>3 DEF SameShape
  <2>2. QED BY <1>1, <1>3, <2>1, SameShapeLemma
<1>5. \A t \in Trees : /\ tr1[t].active = tr[t].active /\ tr1[t].activeNode = tr[t].activeNode
                       /\ tr[t].stopping => tr1[t].stopping
  BY DEF Halted
<1>6. \A t \in Trees : Queued(tr1[t]) \subseteq Queued(tr[t])
  BY DEF Halted, Queued
<1>7. ASSUME NEW c \in Claims, LiveIn(sl1, c)
      PROVE  /\ sl1[c].tree \in Trees
             /\ tr1[sl1[c].tree].active = c
             /\ tr1[sl1[c].tree].activeNode = sl1[c].node
             /\ sl1[c].cancelled => tr1[sl1[c].tree].stopping
  <2>1. /\ LiveIn(sl, c) /\ sl1[c].tree = sl[c].tree /\ sl1[c].node = sl[c].node
    BY <1>7
  <2>2. /\ sl[c].tree \in Trees
        /\ tr[sl[c].tree].active = c /\ tr[sl[c].tree].activeNode = sl[c].node
        /\ sl[c].cancelled => tr[sl[c].tree].stopping
    BY <2>1 DEF Consistent
  <2>3. QED BY <1>5, <2>1, <2>2
<1>8. ASSUME NEW t \in Trees, tr1[t].active # None
      PROVE  LiveIn(sl1, tr1[t].active) /\ sl1[tr1[t].active].tree = t
  <2>1. tr[t].active \in Claims
    BY <1>1, <1>5, <1>8 DEF Tree
  <2>2. LiveIn(sl, tr[t].active) /\ sl[tr[t].active].tree = t
    BY <1>5, <1>8 DEF Consistent
  <2>3. QED BY <1>5, <2>1, <2>2
<1>9. \A t \in Trees \ pub : Queued(tr1[t]) = {} /\ (tr1[t].active # None => tr1[t].stopping)
  BY <1>5, <1>6 DEF Consistent
<1>10. \A t \in pub : tr1[t].root \in Present(tr1[t])
  BY <1>4 DEF Consistent
<1>11. \A r \in Refs, t \in Trees : idx[r] = t <=> t \in pub /\ r \in AllReferences(tr1[t])
  BY <1>4 DEF Consistent
<1>12. QED BY <1>2, <1>4, <1>7, <1>8, <1>9, <1>10, <1>11, ConsistentType DEF Consistent

\* Cancelled trees leave the repository.
LEMMA DetachStep ==
    ASSUME NEW tr, NEW pub, NEW idx, NEW sl, Consistent(tr, pub, idx, sl),
           NEW D \in SUBSET Trees,
           \A t \in D : Queued(tr[t]) = {} /\ (tr[t].active # None => tr[t].stopping),
           NEW idx1, idx1 = [r \in Refs |-> IF idx[r] \in D THEN None ELSE idx[r]]
    PROVE  Consistent(tr, pub \ D, idx1, sl)
<1>1. idx1 \in [Refs -> Trees \cup {None}]
  BY ConsistentType
<1>2. \A r \in Refs, t \in Trees : idx1[r] = t <=> t \in pub \ D /\ r \in AllReferences(tr[t])
  <2> SUFFICES ASSUME NEW r \in Refs, NEW t \in Trees
               PROVE  idx1[r] = t <=> t \in pub \ D /\ r \in AllReferences(tr[t])
    OBVIOUS
  <2>1. idx[r] = t <=> t \in pub /\ r \in AllReferences(tr[t])
    BY DEF Consistent
  <2>2. None # t
    BY TreesAssumption
  <2>3. QED BY <2>1, <2>2
<1>3. QED BY <1>1, <1>2 DEF Consistent

\* sl is sl0 with a new task for the claim c of node n of tree t.
Started(sl0, sl, t, n, c) ==
    /\ sl \in [Claims -> Slot]
    /\ \A d \in Claims \ {c} : sl[d] = sl0[d]
    /\ sl[c].phase = "created" /\ sl[c].tree = t /\ sl[c].node = n
    /\ ~sl[c].cancelled

\* launch starts a task.
LEMMA LaunchedStarts ==
    ASSUME slot \in [Claims -> Slot], NEW t \in Trees, NEW from \in Tree,
           NEW n \in Prompts, NEW c \in Claims
    PROVE  /\ Started(slot, Launched(t, from, n, c, TRUE), t, n, c)
           /\ Started(slot, Launched(t, from, n, c, FALSE), t, n, c)
<1> SUFFICES ASSUME NEW announce \in BOOLEAN
             PROVE  Started(slot, Launched(t, from, n, c, announce), t, n, c)
  OBVIOUS
<1> DEFINE new == [phase |-> "created", tree |-> t, node |-> n,
                   status |-> from.nodes[n].status,
                   resumes |-> ParentSession(from, n),
                   announce |-> announce, cancelled |-> FALSE]
           sl == Launched(t, from, n, c, announce)
<1>1. new \in Slot
  BY ParentSessionType DEF Slot, Phase, Tree, Node
<1>2. sl = [slot EXCEPT ![c] = new]
  BY DEF Launched
<1>3. new.phase = "created" /\ new.tree = t /\ new.node = n /\ ~new.cancelled
  OBVIOUS
<1> HIDE DEF new, sl
<1>4. Started(slot, sl, t, n, c)
  BY <1>1, <1>2, <1>3 DEF Started
<1>5. QED BY <1>4 DEF sl

\* A claim id that is drawn has no task.
LEMMA NextClaimFree ==
    ASSUME NEW c, NextClaim(c)
    PROVE  c \in Claims /\ ~LiveIn(slot, c)
BY DEF NextClaim, IsNext, LiveIn

-----------------------------------------------------------------------------
(* Admission *)

\* One tree changes, and with it the task of the claim it gives up or takes.
\* u replaces tree t; sl1 is sl with the task of the claim that t gave up, if any,
\* gone, and with a live task for the claim that u holds.
Replaced(tr, sl, t, u, tr1, sl1) ==
    /\ t \in Trees /\ u \in Tree /\ Sched(u) /\ Shape(u)
    /\ tr1 = [tr EXCEPT ![t] = u]
    /\ sl1 \in [Claims -> Slot]
    /\ \A c \in Claims \ {tr[t].active, u.active} : sl1[c] = sl[c]
    /\ tr[t].active \notin {None, u.active} => ~LiveIn(sl1, tr[t].active)
    /\ u.active # None => /\ LiveIn(sl1, u.active)
                          /\ sl1[u.active].tree = t
                          /\ sl1[u.active].node = u.activeNode
                          /\ sl1[u.active].cancelled => u.stopping
    /\ u.active \notin {None, tr[t].active} => ~LiveIn(sl, u.active)

\* The repository holds pub1 and idx1 after t became u.
Indexed(pub, t, u, tr1, pub1, idx1) ==
    /\ pub1 \in {pub, pub \cup {t}, pub \ {t}}
    /\ t \notin pub1 => Queued(u) = {} /\ (u.active # None => u.stopping)
    /\ t \in pub1 => u.root \in Present(u)
    /\ idx1 \in [Refs -> Trees \cup {None}]
    /\ \A r \in Refs, v \in Trees :
          idx1[r] = v <=> v \in pub1 /\ r \in AllReferences(tr1[v])

\* Such a replacement leaves everything consistent.
LEMMA TreeStep ==
    ASSUME NEW tr, NEW pub, NEW idx, NEW sl, Consistent(tr, pub, idx, sl),
           NEW t, NEW u, NEW tr1, NEW sl1, Replaced(tr, sl, t, u, tr1, sl1),
           NEW pub1, NEW idx1, Indexed(pub, t, u, tr1, pub1, idx1)
    PROVE  Consistent(tr1, pub1, idx1, sl1)
<1> USE DEF Replaced, Indexed
<1>0. t \in Trees /\ u \in Tree
  OBVIOUS
<1>1. /\ tr1 \in [Trees -> Tree] /\ tr1[t] = u /\ tr[t] \in Tree
      /\ \A v \in Trees \ {t} : tr1[v] = tr[v]
  BY <1>0, ConsistentType
<1>2. \A v \in Trees : Sched(tr1[v]) /\ Shape(tr1[v])
  BY <1>1, ConsistentType
<1>3. u.active \in Claims \cup {None} /\ tr[t].active \in Claims \cup {None} /\ None \notin Claims
  BY <1>1, ReferencesAssumption DEF Tree
<1>4. ASSUME NEW c \in Claims, LiveIn(sl1, c)
      PROVE  /\ sl1[c].tree \in Trees
             /\ tr1[sl1[c].tree].active = c
             /\ tr1[sl1[c].tree].activeNode = sl1[c].node
             /\ sl1[c].cancelled => tr1[sl1[c].tree].stopping
  <2>1. CASE c = u.active
    BY <1>1, <1>3, <2>1
  <2>2. CASE c # u.active
    <3>1. c # tr[t].active
      BY <1>3, <1>4, <2>2
    <3>2. sl1[c] = sl[c] /\ LiveIn(sl, c)
      BY <1>4, <2>2, <3>1 DEF LiveIn
    <3>3. /\ sl[c].tree \in Trees /\ tr[sl[c].tree].active = c
          /\ tr[sl[c].tree].activeNode = sl[c].node
          /\ sl[c].cancelled => tr[sl[c].tree].stopping
      BY <3>2 DEF Consistent
    <3>4. sl[c].tree # t
      BY <3>1, <3>3
    <3>5. QED BY <1>1, <3>2, <3>3, <3>4
  <2>3. QED BY <2>1, <2>2
<1>5. ASSUME NEW v \in Trees, tr1[v].active # None
      PROVE  LiveIn(sl1, tr1[v].active) /\ sl1[tr1[v].active].tree = v
  <2>1. CASE v = t
    BY <1>1, <1>5, <2>1
  <2>2. CASE v # t
    <3>1. tr1[v] = tr[v] /\ tr[v].active # None /\ tr[v].active \in Claims
      BY <1>1, <1>5, <2>2 DEF Tree
    <3>2. LiveIn(sl, tr[v].active) /\ sl[tr[v].active].tree = v
      BY <3>1 DEF Consistent
    <3>3. tr[v].active # tr[t].active
      <4>1. tr[t].active # None => sl[tr[t].active].tree = t
        BY DEF Consistent
      <4>2. QED BY <2>2, <3>1, <3>2, <4>1
    <3>4. tr[v].active # u.active
      BY <1>3, <3>1, <3>2, <3>3
    <3>5. sl1[tr[v].active] = sl[tr[v].active]
      BY <3>1, <3>3, <3>4
    <3>6. QED BY <3>1, <3>2, <3>5 DEF LiveIn
  <2>3. QED BY <2>1, <2>2
<1>6. \A v \in Trees \ pub1 : Queued(tr1[v]) = {} /\ (tr1[v].active # None => tr1[v].stopping)
  BY <1>1 DEF Consistent
<1>7. \A v \in pub1 : tr1[v].root \in Present(tr1[v])
  BY <1>1 DEF Consistent
<1>8. pub1 \in SUBSET Trees
  BY <1>0, ConsistentType
<1>9. QED BY <1>1, <1>2, <1>4, <1>5, <1>6, <1>7, <1>8 DEF Consistent

\* A reference the index does not hold is owned by no published tree.
LEMMA FreshRefs ==
    ASSUME IInv, NEW x \in Refs, index[x] = None, NEW t \in published
    PROVE  x \notin AllReferences(tree[t])
BY TreesAssumption DEF IInv, Consistent

\* admit of a message the repository knows.
LEMMA AdmitKnownStep ==
    ASSUME IInv, NEW n \in Prompts, NEW s \in Statuses, AdmitKnown(n, s)
    PROVE  Consistent(tree', published', index', slot')
<1>1. PICK t \in published, c \in Claims :
        /\ tree' = [tree EXCEPT ![t] = EnqueueOrClaim(tree[t], n, c)]
        /\ slot' = IF MustClaim(tree[t], n)
                   THEN Launched(t, tree[t], n, c, FALSE) ELSE slot
        /\ UNCHANGED <<published, index>>
  BY DEF AdmitKnown
<1>2. t \in Trees /\ tree \in [Trees -> Tree] /\ tree[t] \in Tree /\ Sched(tree[t])
  BY ConsistentType DEF IInv
<1>3. ~MustClaim(tree[t], n) /\ EnqueueOrClaim(tree[t], n, c) = tree[t]
  BY <1>2, AdmitKnownStutters
<1>4. tree' = tree /\ slot' = slot /\ published' = published /\ index' = index
  BY <1>1, <1>2, <1>3
<1>5. QED BY <1>4 DEF IInv

\* admit of a message that opens a conversation.
LEMMA AdmitRootStep ==
    ASSUME IInv, NEW n \in Prompts, NEW s \in Statuses, AdmitRoot(n, s)
    PROVE  Consistent(tree', published', index', slot')
<1>1. PICK t \in Trees, c \in Claims :
        /\ NextTree(t) /\ NextClaim(c)
        /\ index[n] = None /\ index[s] = None
        /\ tree' = [tree EXCEPT ![t] = EnqueueOrClaim(NewRoot(n, s), n, c)]
        /\ published' = published \cup {t}
        /\ index' = Register(t, {n, s})
        /\ slot' = Launched(t, NewRoot(n, s), n, c, FALSE)
  BY DEF AdmitRoot
<1> DEFINE u == EnqueueOrClaim(NewRoot(n, s), n, c)
<1>2. /\ u \in Tree /\ Sched(u) /\ Shape(u)
      /\ u.root = n /\ u.active = c /\ u.activeNode = n /\ Present(u) = {n}
      /\ AllReferences(u) = {n, s}
  BY AdmitRootTree
<1>3. /\ tree \in [Trees -> Tree] /\ slot \in [Claims -> Slot] /\ published \subseteq Trees
      /\ index \in [Refs -> Trees \cup {None}] /\ Sched(tree[t])
  BY ConsistentType DEF IInv
<1>4. tree[t].root = None /\ tree[t].active = None
  BY <1>1, <1>3 DEF NextTree, IsNext, Sched
<1>5. ~LiveIn(slot, c) /\ c # None
  BY <1>1, NextClaimFree, ReferencesAssumption
<1>6. NewRoot(n, s) \in Tree
  BY NewRootFields
<1>7. Started(slot, slot', t, n, c)
  BY <1>1, <1>3, <1>6, LaunchedStarts
<1> HIDE DEF u
<1>8. t \notin published
  <2>1. t \in published => tree[t].root \in Present(tree[t])
    BY DEF IInv, Consistent
  <2>2. QED BY <1>4, <2>1, ReferencesAssumption DEF Present
<1>9. index' \in [Refs -> Trees \cup {None}]
  BY <1>1, <1>3 DEF Register
<1>10. tree' = [tree EXCEPT ![t] = u]
  BY <1>1 DEF u
<1>11. tree'[t] = u /\ \A v \in Trees \ {t} : tree'[v] = tree[v]
  BY <1>3, <1>10
<1>12. published' = published \cup {t}
  BY <1>1
<1>13. \A r \in Refs, v \in Trees :
          index'[r] = v <=> v \in published' /\ r \in AllReferences(tree'[v])
  <2> SUFFICES ASSUME NEW r \in Refs, NEW v \in Trees
               PROVE  index'[r] = v <=> v \in published' /\ r \in AllReferences(tree'[v])
    OBVIOUS
  <2>1. index[r] = v <=> v \in published /\ r \in AllReferences(tree[v])
    BY DEF IInv, Consistent
  <2>2. index'[r] = IF r \in {n, s} THEN t ELSE index[r]
    BY <1>1 DEF Register
  <2>3. r \in {n, s} => index[r] = None /\ None # v
    BY <1>1, TreesAssumption
  <2>4. CASE v = t
    <3>1. index[r] # t
      BY <1>8, <2>1, <2>4
    <3>2. QED BY <1>2, <1>11, <1>12, <2>2, <2>4, <3>1
  <2>5. CASE v # t
    BY <1>11, <1>12, <2>1, <2>2, <2>3, <2>5
  <2>6. QED BY <2>4, <2>5
<1>14. Replaced(tree, slot, t, u, tree', slot')
  BY <1>2, <1>4, <1>5, <1>7, <1>10 DEF Replaced, Started, LiveIn
<1>15. Indexed(published, t, u, tree', published', index')
  BY <1>2, <1>9, <1>12, <1>13 DEF Indexed
<1>16. QED
  BY <1>14, <1>15, TreeStep DEF IInv

\* admit of a reply.
LEMMA AdmitReplyStep ==
    ASSUME IInv, NEW n \in Prompts, NEW s \in Statuses, NEW r \in Refs, AdmitReply(n, s, r)
    PROVE  Consistent(tree', published', index', slot')
<1>1. PICK t \in published, parent \in Prompts, c \in Claims :
        /\ NextClaim(c)
        /\ index[n] = None /\ index[s] = None /\ index[r] = t
        /\ Owns(tree[t], parent, r)
        /\ LET added == AddNode(tree[t], n, s, parent, r)
           IN  /\ tree' = [tree EXCEPT ![t] = EnqueueOrClaim(added, n, c)]
               /\ slot' = IF MustClaim(added, n)
                          THEN Launched(t, added, n, c, FALSE)
                          ELSE slot
        /\ index' = Register(t, {n, s})
        /\ UNCHANGED published
  BY DEF AdmitReply
<1> DEFINE a == AddNode(tree[t], n, s, parent, r)
           u == EnqueueOrClaim(a, n, c)
<1>2. /\ tree \in [Trees -> Tree] /\ slot \in [Claims -> Slot] /\ t \in Trees
      /\ index \in [Refs -> Trees \cup {None}]
      /\ tree[t] \in Tree /\ Sched(tree[t]) /\ Shape(tree[t])
  BY ConsistentType DEF IInv
<1>3. n \notin AllReferences(tree[t]) /\ s \notin AllReferences(tree[t])
  BY <1>1, FreshRefs DEF Refs
<1>4. /\ a \in Tree
      /\ u \in Tree /\ Sched(u) /\ Shape(u) /\ u.root \in Present(u)
      /\ AllReferences(u) = AllReferences(tree[t]) \cup {n, s}
      /\ MustClaim(a, n) <=> tree[t].active = None
      /\ tree[t].active = None => u.active = c /\ u.activeNode = n
      /\ tree[t].active # None => /\ u.active = tree[t].active
                                  /\ u.activeNode = tree[t].activeNode
                                  /\ (u.stopping <=> tree[t].stopping)
  BY <1>1, <1>2, <1>3, AdmitReplyTree
<1>5. tree' = [tree EXCEPT ![t] = u]
  BY <1>1
<1>6. slot' = IF MustClaim(a, n) THEN Launched(t, a, n, c, FALSE) ELSE slot
  BY <1>1
<1> HIDE DEF a, u
<1>7. tree'[t] = u /\ \A v \in Trees \ {t} : tree'[v] = tree[v]
  BY <1>2, <1>5
<1>8. c # None /\ ~LiveIn(slot, c)
  BY <1>1, NextClaimFree, ReferencesAssumption
<1>9. Replaced(tree, slot, t, u, tree', slot')
  <2>1. CASE tree[t].active = None
    <3>1. Started(slot, slot', t, n, c)
      BY <1>2, <1>4, <1>6, <2>1, LaunchedStarts
    <3>2. QED BY <1>2, <1>4, <1>5, <1>8, <2>1, <3>1 DEF Replaced, Started, LiveIn
  <2>2. CASE tree[t].active # None
    <3>1. slot' = slot
      BY <1>4, <1>6, <2>2
    <3>2. tree[t].active \in Claims
      BY <1>2, <2>2 DEF Tree
    <3>3. LET d == tree[t].active
          IN  /\ LiveIn(slot, d) /\ slot[d].tree = t /\ slot[d].node = tree[t].activeNode
              /\ slot[d].cancelled => tree[t].stopping
      BY <1>2, <2>2, <3>2 DEF IInv, Consistent
    <3>4. QED BY <1>2, <1>4, <1>5, <2>2, <3>1, <3>3 DEF Replaced
  <2>3. QED BY <2>1, <2>2
<1>10. index' \in [Refs -> Trees \cup {None}]
  BY <1>1, <1>2 DEF Register
<1>11. \A x \in Refs, v \in Trees :
          index'[x] = v <=> v \in published' /\ x \in AllReferences(tree'[v])
  <2> SUFFICES ASSUME NEW x \in Refs, NEW v \in Trees
               PROVE  index'[x] = v <=> v \in published /\ x \in AllReferences(tree'[v])
    BY <1>1
  <2>1. index[x] = v <=> v \in published /\ x \in AllReferences(tree[v])
    BY DEF IInv, Consistent
  <2>2. index'[x] = IF x \in {n, s} THEN t ELSE index[x]
    BY <1>1 DEF Register
  <2>3. x \in {n, s} => index[x] = None /\ None # v
    BY <1>1, TreesAssumption
  <2>4. CASE v = t
    BY <1>4, <1>7, <2>1, <2>2, <2>4
  <2>5. CASE v # t
    BY <1>7, <2>1, <2>2, <2>3, <2>5
  <2>6. QED BY <2>4, <2>5
<1>12. Indexed(published, t, u, tree', published', index')
  BY <1>1, <1>4, <1>10, <1>11 DEF Indexed
<1>13. QED
  BY <1>9, <1>12, TreeStep DEF IInv

-----------------------------------------------------------------------------
(* /stop and /clear *)

\* Tasks that are told to cancel stay the tasks they are.
LEMMA CancelTasksFields ==
    ASSUME IInv, NEW S \in SUBSET Trees, NEW tr1 \in [Trees -> Tree],
           \A t \in Trees : Halted(tree[t], tr1[t])
    PROVE  /\ CancelTasks(S, tr1) \in [Claims -> Slot]
           /\ \A c \in Claims :
                 LET new == CancelTasks(S, tr1)[c]
                 IN  /\ new.phase = slot[c].phase /\ new.tree = slot[c].tree
                     /\ new.node = slot[c].node
                     /\ LiveIn(slot, c) /\ new.cancelled /\ ~slot[c].cancelled
                           => tr1[slot[c].tree].stopping
<1>1. slot \in [Claims -> Slot] /\ tree \in [Trees -> Tree]
  BY ConsistentType DEF IInv
<1> SUFFICES ASSUME NEW c \in Claims
             PROVE  LET new == CancelTasks(S, tr1)[c]
                    IN  /\ new \in Slot
                        /\ new.phase = slot[c].phase /\ new.tree = slot[c].tree
                        /\ new.node = slot[c].node
                        /\ LiveIn(slot, c) /\ new.cancelled /\ ~slot[c].cancelled
                              => tr1[slot[c].tree].stopping
  BY DEF CancelTasks
<1> DEFINE new == CancelTasks(S, tr1)[c]
           hit == Live(c) /\ \E t \in S : tr1[t].active = c /\ tr1[t].stopping
<1>2. new = IF hit THEN [slot[c] EXCEPT !.cancelled = TRUE] ELSE slot[c]
  BY DEF CancelTasks
<1>3. slot[c] \in Slot
  BY <1>1
<1>4. new \in Slot /\ new.phase = slot[c].phase /\ new.tree = slot[c].tree
      /\ new.node = slot[c].node /\ (new.cancelled /\ ~slot[c].cancelled => hit)
  <2> HIDE DEF hit
  <2>1. QED BY <1>2, <1>3 DEF Slot
<1>5. ASSUME hit PROVE tr1[slot[c].tree].stopping
  <2>1. PICK t \in S : tr1[t].active = c /\ tr1[t].stopping
    BY <1>5
  <2>2. tree[t].active = c
    BY <2>1 DEF Halted
  <2>3. slot[c].tree = t
    BY <2>2, ReferencesAssumption DEF IInv, Consistent
  <2>4. QED BY <2>1, <2>3
<1> HIDE DEF hit
<1>6. QED BY <1>4, <1>5

-----------------------------------------------------------------------------
(* Cancellation and results *)

\* Halting trees, with or without telling their tasks, is consistent.
LEMMA HaltTasks ==
    ASSUME IInv, NEW S \in SUBSET Trees, NEW tr1 \in [Trees -> Tree],
           \A t \in Trees : Halted(tree[t], tr1[t])
    PROVE  /\ Consistent(tr1, published, index, slot)
           /\ Consistent(tr1, published, index, CancelTasks(S, tr1))
<1>1. slot \in [Claims -> Slot] /\ Consistent(tree, published, index, slot)
  BY ConsistentType DEF IInv
<1>2. Consistent(tr1, published, index, slot)
  BY <1>1, HaltStep
<1>3. Consistent(tr1, published, index, CancelTasks(S, tr1))
  <2> DEFINE sl1 == CancelTasks(S, tr1)
  <2>1. /\ sl1 \in [Claims -> Slot]
        /\ \A c \in Claims :
              /\ sl1[c].phase = slot[c].phase /\ sl1[c].tree = slot[c].tree
              /\ sl1[c].node = slot[c].node
              /\ LiveIn(slot, c) /\ sl1[c].cancelled /\ ~slot[c].cancelled
                    => tr1[slot[c].tree].stopping
    BY CancelTasksFields
  <2> HIDE DEF sl1
  <2>2. \A c \in Claims :
           /\ LiveIn(sl1, c) <=> LiveIn(slot, c)
           /\ LiveIn(slot, c) => /\ sl1[c].tree = slot[c].tree /\ sl1[c].node = slot[c].node
                                 /\ sl1[c].cancelled /\ ~slot[c].cancelled
                                       => tr1[slot[c].tree].stopping
    BY <2>1 DEF LiveIn
  <2>3. Consistent(tr1, published, index, sl1)
    BY <1>1, <2>1, <2>2, HaltStep
  <2>4. QED BY <2>3 DEF sl1
<1>4. QED BY <1>2, <1>3

\* cancel_node.
LEMMA StopReplyStep ==
    ASSUME IInv, NEW r \in Refs, StopReply(r)
    PROVE  Consistent(tree', published', index', slot')
<1>1. PICK t \in published, n \in Prompts :
        /\ tree' = [tree EXCEPT ![t] = CancelNode(tree[t], n)]
        /\ slot' \in {slot, CancelTasks({t}, tree')}
        /\ UNCHANGED <<published, index, sent>>
  BY DEF StopReply
<1>2. /\ tree \in [Trees -> Tree] /\ t \in Trees
      /\ \A v \in Trees : tree[v] \in Tree /\ Sched(tree[v])
  BY ConsistentType DEF IInv
<1> DEFINE u == CancelNode(tree[t], n)
<1>3. u \in Tree /\ Halted(tree[t], u)
  BY <1>2, CancelNodeHalts
<1>4. tree' = [tree EXCEPT ![t] = u]
  BY <1>1
<1> HIDE DEF u
<1>5. tree' \in [Trees -> Tree] /\ \A v \in Trees : Halted(tree[v], tree'[v])
  BY <1>2, <1>3, <1>4, HaltedReflexive
<1>6. {t} \in SUBSET Trees
  BY <1>2
<1>7. /\ Consistent(tree', published, index, slot)
      /\ Consistent(tree', published, index, CancelTasks({t}, tree'))
  BY <1>5, <1>6, HaltTasks
<1>8. QED BY <1>1, <1>7

\* The loop of cancel_all and clear_scope, wherever it stops.
LEMMA CancelTreesStep ==
    ASSUME IInv, NEW S \in SUBSET Trees, CancelTrees(S)
    PROVE  /\ Consistent(tree', published, index, slot')
           /\ \A t \in Cancelled(S) : /\ Queued(tree'[t]) = {}
                                      /\ tree'[t].active # None => tree'[t].stopping
<1>1. /\ tree \in [Trees -> Tree]
      /\ \A v \in Trees : tree[v] \in Tree /\ Sched(tree[v])
  BY ConsistentType DEF IInv
<1>2. /\ Cancelled(S) \in SUBSET Trees
      /\ \A t \in Trees : t \in Reached(S) \ Cancelled(S) => CancelAllRaises(tree[t])
  BY DEF Cancelled, Reached, Failing
<1>3. /\ tree' = [t \in Trees |->
                     IF t \in Cancelled(S) THEN CancelAll(tree[t])
                     ELSE IF t \in Reached(S) THEN CancelAllPartial(tree[t])
                     ELSE tree[t]]
      /\ slot' = CancelTasks(Cancelled(S), tree')
  BY DEF CancelTrees
<1>4. ASSUME NEW t \in Trees
      PROVE  /\ tree'[t] \in Tree /\ Halted(tree[t], tree'[t])
             /\ t \in Cancelled(S) => /\ Queued(tree'[t]) = {}
                                      /\ tree'[t].active # None => tree'[t].stopping
  <2>1. CASE t \in Cancelled(S)
    <3>1. tree'[t] = CancelAll(tree[t])
      BY <1>3, <2>1
    <3>2. /\ tree'[t] \in Tree /\ Halted(tree[t], tree'[t])
          /\ tree'[t].stopping <=> tree[t].active # None
          /\ tree'[t].queue = NoQueue
      BY <1>1, <3>1, CancelAllHalts
    <3>3. tree'[t].active = tree[t].active
      BY <3>2 DEF Halted
    <3>4. QED BY <3>2, <3>3 DEF Queued, NoQueue
  <2>2. CASE t \notin Cancelled(S) /\ t \in Reached(S)
    <3>1. tree'[t] = CancelAllPartial(tree[t]) /\ CancelAllRaises(tree[t])
      BY <1>2, <1>3, <2>2
    <3>2. QED BY <1>1, <2>2, <3>1, CancelAllPartialHalts
  <2>3. CASE t \notin Cancelled(S) /\ t \notin Reached(S)
    <3>1. tree'[t] = tree[t]
      BY <1>3, <2>3
    <3>2. QED BY <1>1, <2>3, <3>1, HaltedReflexive
  <2>4. QED BY <2>1, <2>2, <2>3
<1>5. tree' \in [Trees -> Tree]
  BY <1>3, <1>4
<1>6. QED BY <1>2, <1>3, <1>4, <1>5, HaltTasks

\* cancel_all.
LEMMA StopAllStep ==
    ASSUME IInv, StopAll
    PROVE  Consistent(tree', published', index', slot')
<1>1. published \in SUBSET Trees
  BY ConsistentType DEF IInv
<1>2. CancelTrees(published) /\ published' = published /\ index' = index
  BY DEF StopAll
<1>3. QED BY <1>1, <1>2, CancelTreesStep

\* clear_scope.
LEMMA ClearScopeStep ==
    ASSUME IInv, NEW sc \in Scopes, ClearScope(sc)
    PROVE  Consistent(tree', published', index', slot')
<1> DEFINE S == InScope(sc)
           D == Cancelled(S)
<1>1. S \in SUBSET Trees
  BY ConsistentType DEF IInv, InScope
<1>2. /\ CancelTrees(S) /\ published' = published \ D /\ index' = UnregisterTrees(D)
  BY DEF ClearScope
<1> HIDE DEF S
<1>3. /\ Consistent(tree', published, index, slot')
      /\ \A t \in D : Queued(tree'[t]) = {} /\ (tree'[t].active # None => tree'[t].stopping)
  BY <1>1, <1>2, CancelTreesStep
<1>4. D \in SUBSET Trees
  BY <1>1 DEF Cancelled, Reached
<1> HIDE DEF D
<1>5. index' = [r \in Refs |-> IF index[r] \in D THEN None ELSE index[r]]
  BY <1>2 DEF UnregisterTrees
<1>6. QED BY <1>2, <1>3, <1>4, <1>5, DetachStep

\* remove_message_subtree that raised.
LEMMA ClearReplyRaisesStep ==
    ASSUME IInv, NEW r \in Refs, ClearReplyRaises(r)
    PROVE  Consistent(tree', published', index', slot')
<1>1. PICK t \in published, n \in Prompts, S \in SUBSET Prompts :
        /\ UiTargetMissing(tree[t], n)
        /\ tree' = [tree EXCEPT ![t] = RemoveSubtreePartial(tree[t], S)]
        /\ UNCHANGED <<published, index, slot, sent>>
  BY DEF ClearReplyRaises, AffectedNodes, PromptsBelow, Present
<1>2. /\ tree \in [Trees -> Tree] /\ t \in Trees
      /\ \A v \in Trees : tree[v] \in Tree /\ Sched(tree[v])
  BY ConsistentType DEF IInv
<1> DEFINE u == RemoveSubtreePartial(tree[t], S)
<1>3. u \in Tree /\ Halted(tree[t], u)
  BY <1>1, <1>2, RemovePartialHalts
<1>4. tree' = [tree EXCEPT ![t] = u]
  BY <1>1
<1> HIDE DEF u
<1>5. tree' \in [Trees -> Tree] /\ \A v \in Trees : Halted(tree[v], tree'[v])
  BY <1>2, <1>3, <1>4, HaltedReflexive
<1>6. QED BY <1>1, <1>5, HaltTasks

\* What a runner reports only halts trees.
LEMMA ResultStep ==
    ASSUME IInv, NEW c \in Claims, NEW tr1,
           \/ tr1 = OnAddressed(c, LAMBDA t : RecordSession(t, c))
           \/ \E session \in {c, None} :
                 tr1 = OnAddressed(c, LAMBDA t : CompleteClaim(t, c, session))
           \/ \E propagate \in BOOLEAN :
                 tr1 = OnAddressed(c, LAMBDA t : FailClaim(t, c, propagate))
    PROVE  tr1 \in [Trees -> Tree] /\ \A t \in Trees : Halted(tree[t], tr1[t])
<1>1. \A v \in Trees : tree[v] \in Tree /\ Sched(tree[v])
  BY ConsistentType DEF IInv
<1>2. CASE tr1 = OnAddressed(c, LAMBDA t : RecordSession(t, c))
  <2>1. tr1 = [t \in Trees |-> IF t \in Addressed(c) THEN RecordSession(tree[t], c)
                                                   ELSE tree[t]]
    BY <1>2 DEF OnAddressed
  <2>2. QED BY <1>1, <2>1, RecordSessionHalts, HaltedReflexive
<1>3. ASSUME NEW session \in {c, None},
             tr1 = OnAddressed(c, LAMBDA t : CompleteClaim(t, c, session))
      PROVE  tr1 \in [Trees -> Tree] /\ \A t \in Trees : Halted(tree[t], tr1[t])
  <2>1. tr1 = [t \in Trees |-> IF t \in Addressed(c) THEN CompleteClaim(tree[t], c, session)
                                                   ELSE tree[t]]
    BY <1>3 DEF OnAddressed
  <2>2. QED BY <1>1, <2>1, CompleteClaimHalts, HaltedReflexive
<1>4. ASSUME NEW propagate \in BOOLEAN,
             tr1 = OnAddressed(c, LAMBDA t : FailClaim(t, c, propagate))
      PROVE  tr1 \in [Trees -> Tree] /\ \A t \in Trees : Halted(tree[t], tr1[t])
  <2>1. tr1 = [t \in Trees |-> IF t \in Addressed(c) THEN FailClaim(tree[t], c, propagate)
                                                   ELSE tree[t]]
    BY <1>4 DEF OnAddressed
  <2>2. QED BY <1>1, <2>1, FailClaimHalts, HaltedReflexive
<1>5. QED BY <1>2, <1>3, <1>4

\* remove_message_subtree, of the root and of a branch.
LEMMA ClearReplyStep ==
    ASSUME IInv, NEW r \in Refs, ClearReply(r)
    PROVE  Consistent(tree', published', index', slot')
<1>1. PICK t \in published :
        /\ index[r] = t /\ r \in AllReferences(tree[t])
        /\ \E removed \in {PromptsBelow(tree[t], r)} :
             /\ tree' = [tree EXCEPT ![t] = RemoveSubtree(tree[t], r, removed)]
             /\ IF tree[t].root \in removed
                THEN /\ published' = published \ {t}
                     /\ index' = UnregisterTrees({t})
                ELSE /\ UNCHANGED published
                     /\ index' = Unregister(t, ReferenceDescendants(tree[t], r))
             /\ slot' = IF tree[t].activeNode \in AffectedNodes(tree[t], r, removed)
                        THEN CancelTasks({t}, tree') ELSE slot
  BY DEF ClearReply
<1> DEFINE removed == PromptsBelow(tree[t], r)
           affected == AffectedNodes(tree[t], r, removed)
           u == RemoveSubtree(tree[t], r, removed)
<1>2. /\ tree \in [Trees -> Tree] /\ t \in Trees /\ slot \in [Claims -> Slot]
      /\ index \in [Refs -> Trees \cup {None}]
      /\ tree[t] \in Tree /\ Sched(tree[t]) /\ Shape(tree[t])
  BY ConsistentType DEF IInv
<1>3. /\ u \in Tree /\ u.root = tree[t].root
      /\ u.active = tree[t].active /\ u.activeNode = tree[t].activeNode
      /\ u.stopping = (tree[t].stopping \/ (tree[t].active # None /\ tree[t].activeNode \in affected))
  BY <1>2, RemoveFields
<1>3a. u.stopping <=> tree[t].stopping \/ (tree[t].active # None /\ tree[t].activeNode \in affected)
  BY <1>2, <1>3 DEF Tree
<1>4. Sched(u)
  BY <1>2, RemoveSched
<1>5. Shape(u) /\ (tree[t].root \in removed => Present(u) = {})
  BY <1>2, RemoveShape
<1>6. Present(u) = Present(tree[t]) \ removed
  BY <1>2, RemoveOwned
<1>7. AllReferences(u) = AllReferences(tree[t]) \ ReferenceDescendants(tree[t], r)
  BY <1>2, RemoveReferences
<1>8. /\ tree' = [tree EXCEPT ![t] = u]
      /\ IF tree[t].root \in removed
         THEN /\ published' = published \ {t}
              /\ index' = UnregisterTrees({t})
         ELSE /\ published' = published
              /\ index' = Unregister(t, ReferenceDescendants(tree[t], r))
      /\ slot' = IF tree[t].activeNode \in affected THEN CancelTasks({t}, tree') ELSE slot
  BY <1>1
<1> HIDE DEF removed, affected, u
<1>9. ASSUME NEW c \in Claims
      PROVE  /\ slot'[c] \in Slot
             /\ c # tree[t].active => slot'[c] = slot[c]
             /\ slot'[c].phase = slot[c].phase /\ slot'[c].tree = slot[c].tree
             /\ slot'[c].node = slot[c].node
             /\ slot'[c].cancelled /\ ~slot[c].cancelled => u.stopping
  <2>1. CASE tree[t].activeNode \notin affected
    BY <1>2, <1>8, <2>1
  <2>2. CASE tree[t].activeNode \in affected
    <3>1. slot' = CancelTasks({t}, tree')
      BY <1>8, <2>2
    <3>2. tree'[t] = u /\ slot[c] \in Slot
      BY <1>2, <1>8
    <3>3. slot'[c] = IF Live(c) /\ u.active = c /\ u.stopping
                     THEN [slot[c] EXCEPT !.cancelled = TRUE] ELSE slot[c]
      BY <3>1, <3>2 DEF CancelTasks
    <3>4. QED BY <1>3, <3>2, <3>3 DEF Slot
  <2>3. QED BY <2>1, <2>2
<1>10. slot' \in [Claims -> Slot]
  BY <1>2, <1>8, <1>9 DEF CancelTasks
<1>11. Replaced(tree, slot, t, u, tree', slot')
  <2>1. ASSUME u.active # None
        PROVE  /\ LiveIn(slot', u.active) /\ slot'[u.active].tree = t
               /\ slot'[u.active].node = u.activeNode
               /\ slot'[u.active].cancelled => u.stopping
    <3> DEFINE d == tree[t].active
    <3>1. d \in Claims /\ d # None /\ u.active = d /\ u.activeNode = tree[t].activeNode
      BY <1>2, <1>3, <2>1 DEF Tree
    <3>2. /\ LiveIn(slot, d) /\ slot[d].tree = t /\ slot[d].node = tree[t].activeNode
          /\ slot[d].cancelled => tree[t].stopping
      BY <1>2, <3>1 DEF IInv, Consistent
    <3>3. QED BY <1>3a, <1>9, <3>1, <3>2 DEF LiveIn
  <2>2. \A c \in Claims \ {tree[t].active, u.active} : slot'[c] = slot[c]
    BY <1>9
  <2>3. QED BY <1>2, <1>3, <1>4, <1>5, <1>8, <1>10, <2>1, <2>2 DEF Replaced
<1>12. Indexed(published, t, u, tree', published', index')
  <2>1. CASE tree[t].root \notin removed
    <3>1. published' = published /\ index' = Unregister(t, ReferenceDescendants(tree[t], r))
      BY <1>8, <2>1
    <3>2a. index' \in [Refs -> Trees \cup {None}]
      BY <1>2, <3>1 DEF Unregister
    <3>2. \A x \in Refs, v \in Trees :
             index'[x] = v <=> v \in published' /\ x \in AllReferences(tree'[v])
      <4> SUFFICES ASSUME NEW x \in Refs, NEW v \in Trees
                   PROVE  index'[x] = v <=> v \in published /\ x \in AllReferences(tree'[v])
        BY <3>1
      <4> DEFINE gone == ReferenceDescendants(tree[t], r)
      <4>1. index[x] = v <=> v \in published /\ x \in AllReferences(tree[v])
        BY DEF IInv, Consistent
      <4>2. index'[x] = IF x \in gone /\ index[x] = t THEN None ELSE index[x]
        BY <3>1 DEF Unregister
      <4>3. None # v /\ tree'[v] = IF v = t THEN u ELSE tree[v]
        BY <1>2, <1>8, TreesAssumption
      <4>4. AllReferences(u) = AllReferences(tree[t]) \ gone
        BY <1>7
      <4> HIDE DEF gone
      <4>5. QED BY <4>1, <4>2, <4>3, <4>4
    <3>3. tree[t].root \in Present(tree[t])
      BY DEF IInv, Consistent
    <3>4. QED BY <1>3, <1>6, <2>1, <3>1, <3>2, <3>2a, <3>3 DEF Indexed
  <2>2. CASE tree[t].root \in removed
    <3>1. published' = published \ {t} /\ index' = UnregisterTrees({t})
      BY <1>8, <2>2
    <3>2. Queued(u) = {}
      BY <1>4, <1>5, <2>2 DEF Queued, Sched, Present
    <3>3. u.active # None => u.stopping
      BY <1>4, <1>5, <2>2 DEF Sched
    <3>4. index' \in [Refs -> Trees \cup {None}]
      BY <1>2, <3>1 DEF UnregisterTrees
    <3>5. \A x \in Refs, v \in Trees :
             index'[x] = v <=> v \in published' /\ x \in AllReferences(tree'[v])
      <4> SUFFICES ASSUME NEW x \in Refs, NEW v \in Trees
                   PROVE  index'[x] = v <=> v \in published' /\ x \in AllReferences(tree'[v])
        OBVIOUS
      <4>1. index[x] = v <=> v \in published /\ x \in AllReferences(tree[v])
        BY DEF IInv, Consistent
      <4>2. index'[x] = IF index[x] = t THEN None ELSE index[x]
        BY <3>1 DEF UnregisterTrees
      <4>3. None # v /\ (v # t => tree'[v] = tree[v])
        BY <1>2, <1>8, TreesAssumption
      <4>4. QED BY <3>1, <4>1, <4>2, <4>3
    <3>6. QED BY <3>1, <3>2, <3>3, <3>4, <3>5 DEF Indexed
  <2>3. QED BY <2>1, <2>2
<1>13. QED BY <1>11, <1>12, TreeStep DEF IInv

-----------------------------------------------------------------------------
(* Tasks *)

\* A task that is entered, or that leaves its callbacks.
LEMMA EnterStep ==
    ASSUME IInv, NEW c \in Claims, Enter(c) \/ StartRunner(c)
    PROVE  Consistent(tree', published', index', slot')
<1>1. /\ tree \in [Trees -> Tree] /\ slot \in [Claims -> Slot]
      /\ \A v \in Trees : tree[v] \in Tree /\ Sched(tree[v])
  BY ConsistentType DEF IInv
<1>2. PICK phase \in {"announcing", "running"} :
        slot' = [slot EXCEPT ![c].phase = phase]
  BY DEF Enter, StartRunner
<1>3. /\ slot[c] \in Slot /\ LiveIn(slot, c)
      /\ tree' = tree /\ published' = published /\ index' = index
  BY <1>1 DEF Enter, StartRunner, LiveIn
<1> DEFINE new == [slot[c] EXCEPT !.phase = phase]
<1>4. /\ new \in Slot /\ new.phase = phase /\ new.tree = slot[c].tree
      /\ new.node = slot[c].node /\ (new.cancelled <=> slot[c].cancelled)
  BY <1>3 DEF Slot, Phase
<1>5. slot' = [slot EXCEPT ![c] = new]
  BY <1>2
<1> HIDE DEF new
<1>6. /\ slot' \in [Claims -> Slot] /\ slot'[c] = new
      /\ \A d \in Claims \ {c} : slot'[d] = slot[d]
  BY <1>1, <1>4, <1>5
<1>7. \A d \in Claims :
         /\ LiveIn(slot', d) <=> LiveIn(slot, d)
         /\ LiveIn(slot, d) => /\ slot'[d].tree = slot[d].tree /\ slot'[d].node = slot[d].node
                               /\ slot'[d].cancelled /\ ~slot[d].cancelled
                                     => tree[slot[d].tree].stopping
  BY <1>3, <1>4, <1>6 DEF LiveIn
<1>8. \A t \in Trees : Halted(tree[t], tree[t])
  BY <1>1, HaltedReflexive
<1>9. Consistent(tree, published, index, slot')
  BY <1>1, <1>6, <1>7, <1>8, HaltStep DEF IInv
<1>10. QED BY <1>3, <1>9

\* A result of the runner is recorded.
LEMMA RunnerResultStep ==
    ASSUME IInv, NEW c \in Claims,
           RunnerRecordsSession(c) \/ RunnerCompletes(c) \/ RunnerFails(c)
    PROVE  Consistent(tree', published', index', slot')
<1>1. tree' \in [Trees -> Tree] /\ \A t \in Trees : Halted(tree[t], tree'[t])
  <2>1. CASE RunnerRecordsSession(c)
    BY <2>1, ResultStep DEF RunnerRecordsSession
  <2>2. CASE RunnerCompletes(c)
    BY <2>2, ResultStep DEF RunnerCompletes
  <2>3. CASE RunnerFails(c)
    BY <2>3, ResultStep DEF RunnerFails
  <2>4. QED BY <2>1, <2>2, <2>3
<1>2. published' = published /\ index' = index /\ slot' = slot
  BY DEF RunnerRecordsSession, RunnerCompletes, RunnerFails
<1>3. QED BY <1>1, <1>2, HaltTasks

\* A claim whose node is settled leaves nothing in progress.
LEMMA SettledIsIdle ==
    ASSUME NEW t \in Tree, Sched(t), NEW c, t.active = c, ~Holds(t, c, {"in_progress"})
    PROVE  Idle(t)
BY DEF Holds, Idle, Sched, IsActive

\* The claim of an idle tree is given back and its successor launched.
LEMMA FinishStep ==
    ASSUME NEW trees, Consistent(trees, published, index, slot),
           NEW c \in Claims, LiveIn(slot, c), Idle(trees[slot[c].tree]),
           FinishIn(trees, c), published' = published, index' = index
    PROVE  Consistent(tree', published', index', slot')
<1> DEFINE t == slot[c].tree
<1>1. /\ trees \in [Trees -> Tree] /\ slot \in [Claims -> Slot]
      /\ index \in [Refs -> Trees \cup {None}]
      /\ t \in Trees /\ trees[t] \in Tree /\ Sched(trees[t]) /\ Shape(trees[t])
      /\ trees[t].active = c /\ c # None
  BY ReferencesAssumption DEF Consistent
<1>2. DoneSlot \in Slot /\ DoneSlot.phase = "done"
  BY DEF DoneSlot, FreeSlot, Slot, Phase
\* The graph is what it was, and so are its references.
<1>3. ASSUME NEW u \in Tree, SameShape(trees[t], u), tree' = [trees EXCEPT ![t] = u],
             t \notin published => Queued(u) = {} /\ (u.active # None => u.stopping)
      PROVE  Indexed(published, t, u, tree', published', index')
  <2>1. /\ Present(u) = Present(trees[t]) /\ AllReferences(u) = AllReferences(trees[t])
        /\ u.root = trees[t].root
    BY <1>1, <1>3, SameShapeLemma DEF SameShape
  <2>2. tree'[t] = u /\ \A v \in Trees \ {t} : tree'[v] = trees[v]
    BY <1>1, <1>3
  <2>3. t \in published => u.root \in Present(u)
    BY <2>1 DEF Consistent
  <2>4. \A r \in Refs, v \in Trees :
           index[r] = v <=> v \in published /\ r \in AllReferences(tree'[v])
    BY <2>1, <2>2 DEF Consistent
  <2>5. QED BY <1>1, <1>3, <2>3, <2>4 DEF Indexed
<1>4. CASE /\ Waiting(trees[t]) = {}
           /\ tree' = [trees EXCEPT ![t] = Release(trees[t])]
           /\ slot' = [slot EXCEPT ![c] = DoneSlot]
  <2> DEFINE u == Release(trees[t])
  <2>1. /\ u \in Tree /\ Sched(u) /\ Shape(u) /\ SameShape(trees[t], u)
        /\ u.active = None /\ Queued(u) = {}
    BY <1>1, <1>4, ReleaseTree
  <2>2. tree' = [trees EXCEPT ![t] = u]
    BY <1>4
  <2> HIDE DEF u, t
  <2>3. slot' \in [Claims -> Slot] /\ slot'[c] = DoneSlot
        /\ \A d \in Claims \ {c} : slot'[d] = slot[d]
    BY <1>1, <1>2, <1>4
  <2>4. Replaced(trees, slot, t, u, tree', slot')
    BY <1>1, <1>2, <2>1, <2>2, <2>3 DEF Replaced, LiveIn
  <2>5. Indexed(published, t, u, tree', published', index')
    BY <1>3, <2>1, <2>2
  <2>6. QED BY <2>4, <2>5, TreeStep
<1>5. ASSUME NEW n \in Prompts, NEW d \in Claims,
             NextInLine(trees[t], n), NextClaim(d),
             tree' = [trees EXCEPT ![t] = ReleaseTo(trees[t], n, d)],
             slot' = [IF t \in published THEN Launched(t, trees[t], n, d, TRUE) ELSE slot
                      EXCEPT ![c] = DoneSlot]
      PROVE  Consistent(tree', published', index', slot')
  <2> DEFINE u == ReleaseTo(trees[t], n, d)
  <2>1. /\ u \in Tree /\ Sched(u) /\ Shape(u) /\ SameShape(trees[t], u)
        /\ u.active = d /\ u.activeNode = n
    BY <1>1, <1>5, ReleaseToTree
  <2>2. t \in published
    BY <1>1, <1>5 DEF Consistent, NextInLine, Waiting
  <2>3. ~LiveIn(slot, d) /\ d # c /\ d # None
    BY <1>5, NextClaimFree, ReferencesAssumption
  <2>4. tree' = [trees EXCEPT ![t] = u]
    BY <1>5
  <2> DEFINE sl == Launched(t, trees[t], n, d, TRUE)
  <2>5. Started(slot, sl, t, n, d)
    BY <1>1, LaunchedStarts
  <2>6. slot' = [sl EXCEPT ![c] = DoneSlot]
    BY <1>5, <2>2
  <2> HIDE DEF u, t, sl
  <2>7. /\ slot' \in [Claims -> Slot] /\ slot'[c] = DoneSlot /\ slot'[d] = sl[d]
        /\ \A e \in Claims \ {c, d} : slot'[e] = slot[e]
    BY <1>2, <2>3, <2>5, <2>6 DEF Started
  <2>8. Replaced(trees, slot, t, u, tree', slot')
    BY <1>1, <1>2, <2>1, <2>3, <2>4, <2>5, <2>7 DEF Replaced, LiveIn, Started
  <2>9. Indexed(published, t, u, tree', published', index')
    BY <1>3, <2>1, <2>2, <2>4
  <2>10. QED BY <2>8, <2>9, TreeStep
<1>6. QED BY <1>1, <1>4, <1>5 DEF FinishIn

\* _finish_and_continue after the runner returned.
LEMMA RunnerReturnsStep ==
    ASSUME IInv, NEW c \in Claims, RunnerReturns(c)
    PROVE  Consistent(tree', published', index', slot')
<1>1. LiveIn(slot, c) /\ ~Holds(tree[slot[c].tree], c, {"in_progress"})
      /\ FinishIn(tree, c) /\ published' = published /\ index' = index
  BY DEF RunnerReturns, LiveIn
<1>2. /\ tree[slot[c].tree] \in Tree /\ Sched(tree[slot[c].tree])
      /\ tree[slot[c].tree].active = c
  BY <1>1 DEF IInv, Consistent
<1>3. Idle(tree[slot[c].tree])
  BY <1>1, <1>2, SettledIsIdle
<1>4. QED BY <1>1, <1>3, FinishStep DEF IInv

\* _finish_and_continue for a task cancelled before its runner started.
LEMMA RecoverStep ==
    ASSUME IInv, NEW c \in Claims, Recover(c)
    PROVE  Consistent(tree', published', index', slot')
<1>1. LiveIn(slot, c) /\ slot[c].cancelled
      /\ FinishIn(tree, c) /\ published' = published /\ index' = index
  BY DEF Recover, LiveIn
<1>2. /\ tree[slot[c].tree] \in Tree /\ Sched(tree[slot[c].tree])
      /\ tree[slot[c].tree].stopping
  BY <1>1 DEF IInv, Consistent
<1>3. Idle(tree[slot[c].tree])
  BY <1>2 DEF Idle, Sched
<1>4. QED BY <1>1, <1>3, FinishStep DEF IInv

\* _finish_and_continue after an exception escaped the runner.
LEMMA RunnerRaisesStep ==
    ASSUME IInv, NEW c \in Claims, RunnerRaises(c)
    PROVE  Consistent(tree', published', index', slot')
<1> DEFINE trees == OnAddressed(c, LAMBDA v : FailClaim(v, c, TRUE))
           t == slot[c].tree
<1>1. LiveIn(slot, c) /\ FinishIn(trees, c) /\ published' = published /\ index' = index
  BY DEF RunnerRaises, LiveIn
<1>2. trees \in [Trees -> Tree] /\ \A v \in Trees : Halted(tree[v], trees[v])
  BY ResultStep
<1>3. Consistent(trees, published, index, slot)
  BY <1>2, HaltTasks
<1>4. /\ t \in Trees /\ tree[t] \in Tree /\ Sched(tree[t]) /\ tree[t].active = c
  BY <1>1 DEF IInv, Consistent
<1>5. trees[t] = IF t \in Addressed(c) THEN FailClaim(tree[t], c, TRUE) ELSE tree[t]
  BY <1>4 DEF OnAddressed
<1>6. Idle(trees[t])
  <2>1. CASE t \in published
    <3>1. t \in Addressed(c)
      BY <2>1 DEF Addressed
    <3>2. ~Holds(trees[t], c, {"in_progress"})
      BY <1>4, <1>5, <3>1, FailClaimHalts
    <3>3. trees[t] \in Tree /\ Sched(trees[t]) /\ trees[t].active = c
      BY <1>1, <1>3 DEF Consistent
    <3>4. QED BY <3>2, <3>3, SettledIsIdle
  <2>2. CASE t \notin published
    <3>1. trees[t] = tree[t]
      BY <1>5, <2>2 DEF Addressed
    <3>2. tree[t].stopping
      BY <1>4, <2>2, ReferencesAssumption DEF IInv, Consistent
    <3>3. QED BY <1>4, <3>1, <3>2 DEF Idle, Sched
  <2>3. QED BY <2>1, <2>2
<1> HIDE DEF trees
<1>7. QED BY <1>1, <1>3, <1>6, FinishStep

-----------------------------------------------------------------------------
(* The specification *)

\* A tree object that was never built.
LEMMA EmptyTreeFields ==
    /\ EmptyTree \in Tree /\ Sched(EmptyTree) /\ Shape(EmptyTree)
    /\ EmptyTree.active = None /\ EmptyTree.root = None
    /\ Present(EmptyTree) = {} /\ Queued(EmptyTree) = {}
<1>1. NoNode \in Node /\ NoNode.state = "absent" /\ NoNode.status = None
  BY DEF NoNode, Node, MessageState
<1> DEFINE nodes == [n \in Prompts |-> NoNode]
<1>2. nodes \in [Prompts -> Node]
      /\ \A n \in Prompts : nodes[n].state = "absent" /\ nodes[n].status = None
  BY <1>1
<1>3. NoQueue \in [Prompts -> Nat] /\ \A n \in Prompts : NoQueue[n] = 0
  BY DEF NoQueue
<1>4. /\ EmptyTree.nodes = nodes /\ EmptyTree.queue = NoQueue
      /\ EmptyTree.active = None /\ EmptyTree.activeNode = None
      /\ EmptyTree.root = None /\ ~EmptyTree.stopping
  BY DEF EmptyTree
<1>5. EmptyTree = [root |-> None, nodes |-> nodes, queue |-> NoQueue, tail |-> 0,
                   active |-> None, activeNode |-> None, stopping |-> FALSE]
  BY DEF EmptyTree
<1> HIDE DEF nodes
<1>6. EmptyTree \in Tree
  BY <1>2, <1>3, <1>5 DEF Tree
<1>7. Present(EmptyTree) = {} /\ Queued(EmptyTree) = {}
  BY <1>2, <1>3, <1>4 DEF Present, Queued
<1>8. Sched(EmptyTree)
  BY <1>2, <1>3, <1>4 DEF Sched, Runnable
<1>9. Shape(EmptyTree)
  BY <1>7 DEF Shape
<1>10. QED BY <1>4, <1>6, <1>7, <1>8, <1>9

\* The manager starts without trees, tasks and references, which is consistent.
THEOREM InitConsistent == Init => IInv
<1> SUFFICES ASSUME Init PROVE IInv
  OBVIOUS
<1>1. \A t \in Trees : tree[t] = EmptyTree
  BY DEF Init
<1>2. /\ tree \in [Trees -> Tree] /\ published = {} /\ sent = {}
      /\ index = [r \in Refs |-> None]
  BY EmptyTreeFields DEF Init
<1>3. slot \in [Claims -> Slot] /\ \A c \in Claims : ~LiveIn(slot, c)
  BY DEF Init, FreeSlot, Slot, Phase, LiveIn
<1>4. \A r \in Refs, t \in Trees : index[r] # t
  BY <1>2, TreesAssumption
<1>5. QED BY <1>1, <1>2, <1>3, <1>4, EmptyTreeFields DEF IInv, Consistent

\* admit, whatever it meets.
LEMMA AdmitStep ==
    ASSUME IInv, NEW n \in Prompts, NEW s \in Statuses, Admit(n, s)
    PROVE  Consistent(tree', published', index', slot')
<1>1. CASE AdmitKnown(n, s)
  BY <1>1, AdmitKnownStep
<1>2. CASE AdmitRoot(n, s)
  BY <1>2, AdmitRootStep
<1>3. ASSUME NEW r \in (Prompts \cup sent) \ {n}, AdmitReply(n, s, r) \/ ParentRemoved(n, s, r)
      PROVE  Consistent(tree', published', index', slot')
  <2>1. r \in Refs
    BY DEF IInv, Refs
  <2>2. CASE AdmitReply(n, s, r)
    BY <2>1, <2>2, AdmitReplyStep
  <2>3. CASE ParentRemoved(n, s, r)
    BY <2>3 DEF ParentRemoved, IInv
  <2>4. QED BY <1>3, <2>2, <2>3
<1>4. QED BY <1>1, <1>2, <1>3 DEF Admit

\* No operation of the manager and no step of a task breaks the invariant.
THEOREM NextConsistent == IInv /\ [Next]_vars => IInv'
<1> SUFFICES ASSUME IInv, [Next]_vars PROVE IInv'
  OBVIOUS
<1>1. CASE Deliver
  <2>1. PICK n \in Prompts, s \in Statuses : Admit(n, s)
    BY <1>1 DEF Deliver
  <2>2. sent' \subseteq Statuses
    BY <2>1 DEF Admit, IInv
  <2>3. QED BY <2>1, <2>2, AdmitStep DEF IInv
<1>2. CASE StopAll
  BY <1>2, StopAllStep DEF StopAll, IInv
<1>3. ASSUME NEW sc \in Scopes, ClearScope(sc) PROVE IInv'
  BY <1>3, ClearScopeStep DEF ClearScope, IInv
<1>4. ASSUME NEW r \in Refs, StopReply(r) PROVE IInv'
  BY <1>4, StopReplyStep DEF StopReply, IInv
<1>5. ASSUME NEW r \in Refs, ClearReply(r) PROVE IInv'
  <2>1. sent' = sent
    BY <1>5 DEF ClearReply
  <2>2. QED BY <1>5, <2>1, ClearReplyStep DEF IInv
<1>6. ASSUME NEW r \in Refs, ClearReplyRaises(r) PROVE IInv'
  <2>1. sent' = sent
    BY <1>6 DEF ClearReplyRaises
  <2>2. QED BY <1>6, <2>1, ClearReplyRaisesStep DEF IInv
<1>7. ASSUME NEW c \in Claims, Enter(c) \/ StartRunner(c) PROVE IInv'
  <2>1. sent' = sent
    BY <1>7 DEF Enter, StartRunner
  <2>2. QED BY <1>7, <2>1, EnterStep DEF IInv
<1>8. ASSUME NEW c \in Claims, Recover(c) PROVE IInv'
  BY <1>8, RecoverStep DEF Recover, IInv
<1>9. ASSUME NEW c \in Claims, RunnerReturns(c) PROVE IInv'
  BY <1>9, RunnerReturnsStep DEF RunnerReturns, IInv
<1>10. ASSUME NEW c \in Claims, RunnerRaises(c) PROVE IInv'
  <2>1. sent' = sent
    BY <1>10 DEF RunnerRaises
  <2>2. QED BY <1>10, <2>1, RunnerRaisesStep DEF IInv
<1>11. ASSUME NEW c \in Claims,
              RunnerRecordsSession(c) \/ RunnerCompletes(c) \/ RunnerFails(c)
       PROVE  IInv'
  <2>1. sent' = sent
    BY <1>11 DEF RunnerRecordsSession, RunnerCompletes, RunnerFails
  <2>2. QED BY <1>11, <2>1, RunnerResultStep DEF IInv
<1>12. CASE UNCHANGED vars
  BY <1>12 DEF vars, IInv
<1>13. QED BY <1>1, <1>2, <1>3, <1>4, <1>5, <1>6, <1>7, <1>8, <1>9, <1>10, <1>11, <1>12
           DEF Next, Command, Task, TaskStep

\* Hence it holds of every behaviour.
THEOREM Inductive == Spec => []IInv
BY InitConsistent, NextConsistent, PTL DEF Spec

\* The invariant contains what the runs check.
LEMMA Implied ==
    ASSUME IInv
    PROVE  /\ TypeOK
           /\ ClaimHasItsTask /\ QueueIsPending /\ WaitingImpliesActive
           /\ DetachedIsQuiet /\ GraphIsConnected /\ IndexIsExact
           /\ RunnableHasStatus /\ IdentityIsUnique
<1>1. /\ TypeOK /\ \A t \in Trees : tree[t] \in Tree /\ Sched(tree[t]) /\ Shape(tree[t])
  BY ConsistentType DEF IInv, TypeOK
<1>2. ClaimHasItsTask
  BY DEF IInv, Consistent, ClaimHasItsTask, Live, LiveIn
<1>3. QueueIsPending
  BY <1>1 DEF QueueIsPending, InState, Queued, Sched
<1>4. WaitingImpliesActive
  BY <1>1 DEF WaitingImpliesActive, Queued, Sched
<1>5. DetachedIsQuiet
  BY DEF IInv, Consistent, DetachedIsQuiet
<1>6. GraphIsConnected
  BY <1>1 DEF IInv, Consistent, GraphIsConnected, Shape
<1>7. IndexIsExact
  BY DEF IInv, Consistent, IndexIsExact
<1>8. RunnableHasStatus
  BY <1>1 DEF RunnableHasStatus, Sched
<1>9. IdentityIsUnique
  <2> SUFFICES ASSUME NEW t \in published, NEW u \in published, tree[t].root = tree[u].root
               PROVE  t = u
    BY DEF IdentityIsUnique
  <2>1. published \subseteq Trees
    BY <1>1 DEF TypeOK
  <2>2. tree[t].root \in Present(tree[t]) /\ tree[u].root \in Present(tree[u])
    BY <1>6, <2>1 DEF GraphIsConnected
  <2>3. tree[t].root \in Prompts /\ tree[t].root # None
    BY <2>2, ReferencesAssumption DEF Present
  <2>4. tree[t].root \in AllReferences(tree[t]) /\ tree[t].root \in AllReferences(tree[u])
    BY <2>2, <2>3 DEF AllReferences, OwnedRefs
  <2>5. index[tree[t].root] = t /\ index[tree[t].root] = u
    BY <1>7, <2>1, <2>3, <2>4 DEF IndexIsExact, Refs
  <2>6. QED BY <2>5
<1>10. QED BY <1>1, <1>2, <1>3, <1>4, <1>5, <1>6, <1>7, <1>8, <1>9

\* Every variable keeps the shape of the code's data classes.
THEOREM TypeCorrect == Spec => []TypeOK
BY Inductive, Implied, PTL

\* Whatever is delivered, stopped, cleared, cancelled or recovered, in whatever order,
\* a claim has exactly one live task and a live task holds its claim: no turn runs
\* twice and no conversation is left claimed by a task that is gone.
THEOREM TasksMatchClaims == Spec => []ClaimHasItsTask
BY Inductive, Implied, PTL

\* An admitted turn is waiting if and only if its tree's queue holds it, and only the
\* active turn is in progress.
THEOREM QueueMatchesPending == Spec => []QueueIsPending
BY Inductive, Implied, PTL

\* Nobody waits in a conversation whose claim nobody holds.
THEOREM NobodyWaitsInVain == Spec => []WaitingImpliesActive
BY Inductive, Implied, PTL

\* A conversation that was cleared starts nothing any more.
THEOREM NothingStartsAfterClear == Spec => []DetachedIsQuiet
BY Inductive, Implied, PTL

\* No removal of messages leaves a turn without the turn it answers.
THEOREM ConversationsAreConnected == Spec => []GraphIsConnected
BY Inductive, Implied, PTL

\* The reference index and the published trees always name the same messages.
THEOREM IndexMatchesTrees == Spec => []IndexIsExact
BY Inductive, Implied, PTL

\* A turn that may run has a message to report on.
THEOREM RunningTurnsHaveStatus == Spec => []RunnableHasStatus
BY Inductive, Implied, PTL

\* A conversation's identity names one published tree.
THEOREM IdentitiesAreUnique == Spec => []IdentityIsUnique
BY Inductive, Implied, PTL


-----------------------------------------------------------------------------
(* What is stopped stays stopped: definitions *)

\* The node of a tree has failed or was stopped, and no result may overturn that.
Settled(t, n) == t.nodes[n].state = "error" /\ (IsActive(t, n) => t.stopping)

\* u is t after a step that keeps the settled nodes, or clears their messages.
KeepsSettled(t, u) ==
    \A n \in Present(t) : Settled(t, n) =>
        /\ u.nodes[n].state \in {"error", "absent"}
        /\ u.nodes[n].session \in {t.nodes[n].session, None}

\* No node that has failed is touched.
KeepsErrors(t, u) ==
    \A n \in Prompts : t.nodes[n].state = "error" => u.nodes[n] = t.nodes[n]

-----------------------------------------------------------------------------
(* What is stopped stays stopped: the operators of MessageTree *)

\* Leaving failed nodes alone keeps the settled ones, also after a step that kept them.
LEMMA ErrorsKeepSettled ==
    ASSUME NEW t, NEW u, KeepsErrors(t, u)
    PROVE  KeepsSettled(t, u)
BY DEF KeepsErrors, KeepsSettled, Settled, Present

\* Marking errors keeps the session of every node.
LEMMA MarkErrorKeeps ==
    ASSUME NEW t \in Tree, NEW S, NEW u, u.nodes = MarkError(t, S)
    PROVE  /\ KeepsSettled(t, u)
           /\ \A n \in Prompts : t.nodes[n].state = "error" => u.nodes[n] = t.nodes[n]
<1>1. ASSUME NEW n \in Prompts, t.nodes[n].state = "error"
      PROVE  u.nodes[n] = t.nodes[n]
  <2>1. t.nodes[n] \in Node
    BY DEF Tree
  <2>2. [t.nodes[n] EXCEPT !.state = "error"] = t.nodes[n]
    BY <1>1, <2>1 DEF Node
  <2>3. QED BY <2>2 DEF MarkError
<1>2. KeepsErrors(t, u)
  BY <1>1 DEF KeepsErrors
<1>3. QED BY <1>1, <1>2, ErrorsKeepSettled

\* A failed claim touches no node that has already failed.
LEMMA FailClaimKeeps ==
    ASSUME NEW t \in Tree, NEW c \in Claims, NEW propagate \in BOOLEAN,
           NEW u, u = FailClaim(t, c, propagate)
    PROVE  KeepsErrors(t, u)
<1>1. CASE u = t
  BY <1>1 DEF KeepsErrors
<1>2. CASE u # t
  <2>1. u.nodes = MarkError(t, FailedBy(t, propagate))
    BY <1>2 DEF FailClaim, Tree
  <2>2. QED BY <2>1, MarkErrorKeeps DEF KeepsErrors
<1>3. QED BY <1>1, <1>2

\* A result of the runner reaches no settled node: it is void while the claim is
\* being stopped, and it only touches the claim's node and waiting ones.
LEMMA ResultKeeps ==
    ASSUME NEW t \in Tree, NEW c \in Claims, Sched(t),
           NEW u,
           \/ u = RecordSession(t, c)
           \/ \E session \in {c, None} : u = CompleteClaim(t, c, session)
           \/ \E propagate \in BOOLEAN : u = FailClaim(t, c, propagate)
    PROVE  KeepsSettled(t, u)
<1>1. CASE u = t
  BY <1>1 DEF KeepsSettled, Settled
<1>2. CASE u = RecordSession(t, c) /\ u # t
  <2>1. Holds(t, c, {"in_progress"}) /\ u = [t EXCEPT !.nodes[t.activeNode].session = c]
    BY <1>2 DEF RecordSession
  <2>2. \A n \in Prompts \ {t.activeNode} : u.nodes[n] = t.nodes[n]
    BY <2>1 DEF Tree
  <2>3. t.nodes[t.activeNode].state # "error"
    BY <2>1 DEF Holds
  <2>4. KeepsErrors(t, u)
    BY <2>2, <2>3 DEF KeepsErrors
  <2>5. QED BY <2>4, ErrorsKeepSettled
<1>3. ASSUME NEW session \in {c, None}, u = CompleteClaim(t, c, session), u # t
      PROVE  KeepsSettled(t, u)
  <2>1. /\ Holds(t, c, {"in_progress", "error"})
        /\ u = [t EXCEPT !.nodes[t.activeNode].state = "completed",
                         !.nodes[t.activeNode].session = IF session = None THEN @ ELSE session]
    BY <1>3 DEF CompleteClaim
  <2>2. \A n \in Prompts \ {t.activeNode} : u.nodes[n] = t.nodes[n]
    BY <2>1 DEF Tree
  <2>3. IsActive(t, t.activeNode) /\ ~t.stopping
    BY <2>1, ReferencesAssumption DEF Holds, IsActive
  <2>4. \A n \in Present(t) : Settled(t, n) => n # t.activeNode
    BY <2>3 DEF Settled
  <2>5. QED BY <2>2, <2>4 DEF KeepsSettled, Settled, Present
<1>4. ASSUME NEW propagate \in BOOLEAN, u = FailClaim(t, c, propagate)
      PROVE  KeepsSettled(t, u)
  BY <1>4, FailClaimKeeps, ErrorsKeepSettled
<1>5. QED BY <1>1, <1>2, <1>3, <1>4

\* Giving a claim back, with or without a successor, leaves failed nodes alone.
LEMMA ReleaseKeeps ==
    ASSUME NEW t \in Tree, NEW u,
           \/ u = Release(t)
           \/ \E n \in Prompts, c \in Claims : NextInLine(t, n) /\ u = ReleaseTo(t, n, c)
    PROVE  KeepsErrors(t, u)
<1>1. CASE u = Release(t)
  BY <1>1, ReleaseFields DEF KeepsErrors
<1>2. ASSUME NEW n \in Prompts, NEW c \in Claims, NextInLine(t, n), u = ReleaseTo(t, n, c)
      PROVE  KeepsErrors(t, u)
  <2>1. t.nodes[n].state = "pending"
    BY <1>2 DEF NextInLine, Waiting
  <2>2. \A k \in Prompts \ {n} : u.nodes[k] = t.nodes[k]
    BY <1>2, ReleaseToFields
  <2>3. QED BY <2>1, <2>2 DEF KeepsErrors
<1>3. QED BY <1>1, <1>2

\* Admitting a reply only touches the node it creates.
LEMMA AdmitReplyKeeps ==
    ASSUME NEW t \in Tree, NEW n \in Prompts, n \notin AllReferences(t), NEW s \in Statuses,
           NEW parent \in Prompts, NEW r \in Refs, NEW c \in Claims,
           NEW u, u = EnqueueOrClaim(AddNode(t, n, s, parent, r), n, c)
    PROVE  KeepsSettled(t, u)
<1> DEFINE a == AddNode(t, n, s, parent, r)
<1>1. n \notin Present(t)
  BY ReferencesAssumption DEF AllReferences, OwnedRefs
<1>2. a \in Tree /\ \A k \in Prompts \ {n} : a.nodes[k] = t.nodes[k]
  <2>1. /\ a \in Tree
        /\ a.nodes = [t.nodes EXCEPT ![n] =
                 [state |-> "pending", status |-> s, parent |-> parent,
                  parentRef |-> r, session |-> None]]
    BY AddNodeFields
  <2> HIDE DEF a
  <2>2. QED BY <2>1 DEF Tree
<1>3. u \in {Claim(a, n, c), Put(a, n), a}
  BY DEF EnqueueOrClaim
<1> HIDE DEF a
<1>4. \A k \in Prompts \ {n} : u.nodes[k] = a.nodes[k]
  <2>0. a \in Tree
    BY <1>2
  <2>1. CASE u = Claim(a, n, c)
    BY <2>0, <2>1, ClaimFields
  <2>2. CASE u = Put(a, n)
    <3>1. u.nodes = a.nodes
      BY <2>0, <2>2, PutFields
    <3>2. QED BY <3>1
  <2>3. CASE u = a
    BY <2>3
  <2>4. QED BY <1>3, <2>1, <2>2, <2>3
<1>5. QED BY <1>1, <1>2, <1>4 DEF KeepsSettled, Settled, Present

\* A command keeps the session of what it stops; only a clear deletes messages.
LEMMA CommandKeeps ==
    ASSUME NEW t \in Tree, NEW u,
           \/ \E n \in Prompts : u = CancelNode(t, n)
           \/ u = CancelAll(t) \/ u = CancelAllPartial(t)
           \/ \E S \in SUBSET Prompts : u = RemoveSubtreePartial(t, S)
    PROVE  KeepsSettled(t, u)
<1>1. CASE u = CancelAllPartial(t)
  <2>1. u.nodes = t.nodes
    BY <1>1 DEF CancelAllPartial, RequestStop, Tree
  <2>2. QED BY <2>1 DEF KeepsSettled, Settled
<1>2. CASE u = CancelAll(t)
  <2>1. u.nodes = MarkError(t, InState(t, Runnable))
    BY <1>2, MarkErrorFields DEF CancelAll, RequestStop, Tree
  <2>2. QED BY <2>1, MarkErrorKeeps
<1>3. ASSUME NEW n \in Prompts, u = CancelNode(t, n) PROVE KeepsSettled(t, u)
  <2>1. u.nodes = MarkError(t, {n} \cap InState(t, Runnable))
    BY <1>3, MarkErrorFields DEF CancelNode, Tree
  <2>2. QED BY <2>1, MarkErrorKeeps
<1>4. ASSUME NEW S \in SUBSET Prompts, u = RemoveSubtreePartial(t, S)
      PROVE  KeepsSettled(t, u)
  <2>1. u.nodes = MarkError(t, S \cap InState(t, Runnable))
    BY <1>4, MarkErrorFields DEF RemoveSubtreePartial, Tree
  <2>2. QED BY <2>1, MarkErrorKeeps
<1>5. QED BY <1>1, <1>2, <1>3, <1>4

\* Reply-/clear: a node is gone, has lost its session, or is left alone.
LEMMA RemoveKeeps ==
    ASSUME NEW t \in Tree, NEW r \in Refs, NEW removed, removed = PromptsBelow(t, r),
           NEW u, u = RemoveSubtree(t, r, removed)
    PROVE  KeepsSettled(t, u)
<1>1. \A k \in Prompts : u.nodes[k] \in {NoNode, ClearStatus(t.nodes[k]), t.nodes[k]}
  <2> DEFINE affected == AffectedNodes(t, r, removed)
  <2>1. \A k \in Prompts :
          /\ k \in removed => u.nodes[k] = NoNode
          /\ k \in affected \ removed => u.nodes[k] = ClearStatus(t.nodes[k])
          /\ k \notin affected => u.nodes[k] = t.nodes[k]
    BY RemoveFields
  <2>2. QED BY <2>1
<1>2. ASSUME NEW k \in Prompts, u.nodes[k] = ClearStatus(t.nodes[k])
      PROVE  u.nodes[k].state = "error" /\ u.nodes[k].session = None
  <2>1. t.nodes[k] \in Node
    BY DEF Tree
  <2>2. QED BY <1>2, <2>1 DEF ClearStatus, Node
<1>3. QED BY <1>1, <1>2 DEF KeepsSettled, Settled, Present, NoNode

-----------------------------------------------------------------------------
(* The actions of the manager *)

\* Every tree keeps its settled nodes in this step.
AllKeepSettled == \A t \in Trees : KeepsSettled(tree[t], tree'[t])

\* A tree that did not change keeps them.
LEMMA KeptReflexive ==
    ASSUME NEW t
    PROVE  KeepsSettled(t, t) /\ KeepsErrors(t, t)
BY DEF KeepsSettled, KeepsErrors, Settled

\* One tree changes, in a way that keeps its settled nodes.
LEMMA OneTreeKeeps ==
    ASSUME IInv, NEW t \in Trees, NEW u, tree' = [tree EXCEPT ![t] = u],
           KeepsSettled(tree[t], u)
    PROVE  AllKeepSettled
<1>1. tree \in [Trees -> Tree]
  BY ConsistentType DEF IInv
<1>2. \A v \in Trees : tree'[v] = IF v = t THEN u ELSE tree[v]
  BY <1>1
<1>3. QED BY <1>2, KeptReflexive DEF AllKeepSettled

\* A new turn is only written where nothing was.
LEMMA AdmitSettles ==
    ASSUME IInv, NEW n \in Prompts, NEW s \in Statuses, Admit(n, s)
    PROVE  AllKeepSettled
<1>0. /\ tree \in [Trees -> Tree] /\ published \subseteq Trees
      /\ \A t \in Trees : tree[t] \in Tree /\ Sched(tree[t]) /\ Shape(tree[t])
  BY ConsistentType DEF IInv
<1>1. CASE AdmitKnown(n, s)
  <2>1. PICK t \in published, c \in Claims : tree' = [tree EXCEPT ![t] = EnqueueOrClaim(tree[t], n, c)]
    BY <1>1 DEF AdmitKnown
  <2>2. EnqueueOrClaim(tree[t], n, c) = tree[t]
    BY <1>0, AdmitKnownStutters
  <2>3. t \in Trees /\ KeepsSettled(tree[t], EnqueueOrClaim(tree[t], n, c))
    BY <1>0, <2>2, KeptReflexive
  <2>4. QED BY <2>1, <2>3, OneTreeKeeps
<1>2. CASE AdmitRoot(n, s)
  <2>1. PICK t \in Trees, c \in Claims :
           NextTree(t) /\ tree' = [tree EXCEPT ![t] = EnqueueOrClaim(NewRoot(n, s), n, c)]
    BY <1>2 DEF AdmitRoot
  <2>2. tree[t].root = None
    BY <2>1 DEF NextTree, IsNext
  <2>3. Present(tree[t]) = {}
    BY <1>0, <2>2, ReferencesAssumption DEF Shape, Present
  <2>4. KeepsSettled(tree[t], EnqueueOrClaim(NewRoot(n, s), n, c))
    BY <2>3 DEF KeepsSettled
  <2>5. QED BY <2>1, <2>4, OneTreeKeeps
<1>3. ASSUME NEW r \in (Prompts \cup sent) \ {n}, AdmitReply(n, s, r)
      PROVE  AllKeepSettled
  <2>1. r \in Refs
    BY DEF IInv, Refs
  <2>2. PICK t \in published, parent \in Prompts, c \in Claims :
           /\ index[n] = None
           /\ tree' = [tree EXCEPT ![t] = EnqueueOrClaim(AddNode(tree[t], n, s, parent, r), n, c)]
    BY <1>3 DEF AdmitReply
  <2>3. t \in Trees /\ tree[t] \in Tree /\ n \notin AllReferences(tree[t])
    BY <1>0, <2>2, FreshRefs DEF Refs
  <2>4. KeepsSettled(tree[t], EnqueueOrClaim(AddNode(tree[t], n, s, parent, r), n, c))
    BY <2>1, <2>3, AdmitReplyKeeps
  <2>5. QED BY <2>2, <2>3, <2>4, OneTreeKeeps
<1>4. ASSUME NEW r \in (Prompts \cup sent) \ {n}, ParentRemoved(n, s, r)
      PROVE  AllKeepSettled
  BY <1>4, KeptReflexive DEF ParentRemoved, AllKeepSettled
<1>5. QED BY <1>1, <1>2, <1>3, <1>4 DEF Admit

\* The loop over the trees of /stop and /clear, wherever it stops.
LEMMA CancelTreesSettles ==
    ASSUME IInv, NEW S, CancelTrees(S)
    PROVE  AllKeepSettled
<1> SUFFICES ASSUME NEW t \in Trees PROVE KeepsSettled(tree[t], tree'[t])
  BY DEF AllKeepSettled
<1>1. tree[t] \in Tree
  BY ConsistentType DEF IInv
<1>2. tree'[t] \in {CancelAll(tree[t]), CancelAllPartial(tree[t]), tree[t]}
  BY DEF CancelTrees
<1>3. QED BY <1>1, <1>2, CommandKeeps, KeptReflexive

\* The commands, also the ones that raise half way.
LEMMA CommandSettles ==
    ASSUME IInv, Command
    PROVE  AllKeepSettled
<1>0. /\ published \subseteq Trees
      /\ \A t \in Trees : tree[t] \in Tree
  BY ConsistentType DEF IInv
<1>1. CASE StopAll
  BY <1>1, CancelTreesSettles DEF StopAll
<1>2. ASSUME NEW sc \in Scopes, ClearScope(sc) PROVE AllKeepSettled
  BY <1>2, CancelTreesSettles DEF ClearScope
<1>3. ASSUME NEW r \in Refs, StopReply(r) PROVE AllKeepSettled
  <2>1. PICK t \in published, n \in Prompts : tree' = [tree EXCEPT ![t] = CancelNode(tree[t], n)]
    BY <1>3 DEF StopReply
  <2>2. t \in Trees /\ KeepsSettled(tree[t], CancelNode(tree[t], n))
    BY <1>0, CommandKeeps
  <2>3. QED BY <2>1, <2>2, OneTreeKeeps
<1>4. ASSUME NEW r \in Refs, ClearReply(r) PROVE AllKeepSettled
  <2>1. PICK t \in published :
           tree' = [tree EXCEPT ![t] = RemoveSubtree(tree[t], r, PromptsBelow(tree[t], r))]
    BY <1>4 DEF ClearReply
  <2>2. t \in Trees /\ KeepsSettled(tree[t], RemoveSubtree(tree[t], r, PromptsBelow(tree[t], r)))
    BY <1>0, RemoveKeeps
  <2>3. QED BY <2>1, <2>2, OneTreeKeeps
<1>5. ASSUME NEW r \in Refs, ClearReplyRaises(r) PROVE AllKeepSettled
  <2>1. PICK t \in published, S \in SUBSET Prompts :
           tree' = [tree EXCEPT ![t] = RemoveSubtreePartial(tree[t], S)]
    BY <1>5 DEF ClearReplyRaises, AffectedNodes, PromptsBelow, Present
  <2>2. t \in Trees /\ KeepsSettled(tree[t], RemoveSubtreePartial(tree[t], S))
    BY <1>0, CommandKeeps
  <2>3. QED BY <2>1, <2>2, OneTreeKeeps
<1>6. QED BY <1>1, <1>2, <1>3, <1>4, <1>5 DEF Command

\* A result of the runner, in whatever tree it is recorded.
LEMMA ResultSettles ==
    ASSUME IInv, NEW c \in Claims,
           RunnerRecordsSession(c) \/ RunnerCompletes(c) \/ RunnerFails(c)
    PROVE  AllKeepSettled
<1> SUFFICES ASSUME NEW t \in Trees PROVE KeepsSettled(tree[t], tree'[t])
  BY DEF AllKeepSettled
<1>1. tree[t] \in Tree /\ Sched(tree[t])
  BY ConsistentType DEF IInv
<1>2. \/ tree'[t] = tree[t]
      \/ tree'[t] = RecordSession(tree[t], c)
      \/ \E session \in {c, None} : tree'[t] = CompleteClaim(tree[t], c, session)
      \/ \E propagate \in BOOLEAN : tree'[t] = FailClaim(tree[t], c, propagate)
  <2>1. CASE RunnerRecordsSession(c)
    BY <2>1 DEF RunnerRecordsSession, OnAddressed
  <2>2. CASE RunnerCompletes(c)
    <3>1. PICK session \in {c, None} :
             tree' = OnAddressed(c, LAMBDA v : CompleteClaim(v, c, session))
      BY <2>2 DEF RunnerCompletes
    <3>2. tree'[t] \in {tree[t], CompleteClaim(tree[t], c, session)}
      BY <3>1 DEF OnAddressed
    <3>3. QED BY <3>2
  <2>3. CASE RunnerFails(c)
    <3>1. PICK propagate \in BOOLEAN :
             tree' = OnAddressed(c, LAMBDA v : FailClaim(v, c, propagate))
      BY <2>3 DEF RunnerFails
    <3>2. tree'[t] \in {tree[t], FailClaim(tree[t], c, propagate)}
      BY <3>1 DEF OnAddressed
    <3>3. QED BY <3>2
  <2>4. QED BY <2>1, <2>2, <2>3
<1>3. QED BY <1>1, <1>2, ResultKeeps, KeptReflexive

\* Giving back a claim, of trees that a failing claim may just have marked.
LEMMA FinishSettles ==
    ASSUME IInv, NEW c \in Claims, NEW trees \in [Trees -> Tree],
           \A t \in Trees : KeepsErrors(tree[t], trees[t]),
           FinishIn(trees, c)
    PROVE  AllKeepSettled
<1> SUFFICES ASSUME NEW t \in Trees PROVE KeepsErrors(tree[t], tree'[t])
  BY ErrorsKeepSettled DEF AllKeepSettled
<1>1. KeepsErrors(trees[t], tree'[t])
  <2>1. \/ tree'[t] = trees[t] \/ tree'[t] = Release(trees[t])
        \/ \E n \in Prompts, d \in Claims :
              NextInLine(trees[t], n) /\ tree'[t] = ReleaseTo(trees[t], n, d)
    <3>1. CASE tree' = trees
      BY <3>1
    <3>2. CASE tree' = [trees EXCEPT ![slot[c].tree] = Release(trees[slot[c].tree])]
      BY <3>2
    <3>3. ASSUME NEW n \in Prompts, NEW d \in Claims, NextInLine(trees[slot[c].tree], n),
                 tree' = [trees EXCEPT ![slot[c].tree] = ReleaseTo(trees[slot[c].tree], n, d)]
          PROVE  \/ tree'[t] = trees[t]
                 \/ NextInLine(trees[t], n) /\ tree'[t] = ReleaseTo(trees[t], n, d)
      BY <3>3
    <3>4. QED BY <3>1, <3>2, <3>3 DEF FinishIn
  <2>2. QED BY <2>1, ReleaseKeeps, KeptReflexive
<1>2. QED BY <1>1 DEF KeepsErrors

\* A task, in every phase and on every way out of it.
LEMMA TaskSettles ==
    ASSUME IInv, NEW c \in Claims, Task(c)
    PROVE  AllKeepSettled
<1>0. tree \in [Trees -> Tree] /\ \A t \in Trees : tree[t] \in Tree
  BY ConsistentType DEF IInv
<1>1. CASE Enter(c) \/ StartRunner(c)
  BY <1>1, KeptReflexive DEF Enter, StartRunner, AllKeepSettled
<1>2. CASE Recover(c) \/ RunnerReturns(c)
  <2>1. FinishIn(tree, c)
    BY <1>2 DEF Recover, RunnerReturns
  <2>2. QED BY <1>0, <2>1, FinishSettles, KeptReflexive
<1>3. CASE RunnerRaises(c)
  <2> DEFINE trees == OnAddressed(c, LAMBDA v : FailClaim(v, c, TRUE))
  <2>1. FinishIn(trees, c)
    BY <1>3 DEF RunnerRaises
  <2>2. trees \in [Trees -> Tree]
    BY ResultStep
  <2>3. \A t \in Trees : trees[t] \in {tree[t], FailClaim(tree[t], c, TRUE)}
    BY DEF OnAddressed
  <2> HIDE DEF trees
  <2>4. \A t \in Trees : KeepsErrors(tree[t], trees[t])
    BY <1>0, <2>3, FailClaimKeeps, KeptReflexive
  <2>5. QED BY <2>1, <2>2, <2>4, FinishSettles
<1>4. CASE RunnerRecordsSession(c) \/ RunnerCompletes(c) \/ RunnerFails(c)
  BY <1>4, ResultSettles
<1>5. QED BY <1>1, <1>2, <1>3, <1>4 DEF Task, TaskStep

-----------------------------------------------------------------------------
(* What is stopped stays stopped: the specification *)

\* A turn that was stopped or has failed is never executed again, and a runner that is
\* being cancelled can neither complete it nor leave a session behind: no order of
\* deliveries, commands, results, cancellations and recoveries brings it back.
THEOREM StoppedStaysStopped == Spec => StoppedIsFinal
<1>1. IInv /\ [Next]_vars =>
        [\A t \in Trees : \A n \in Present(tree[t]) :
          /\ tree[t].nodes[n].state = "error" /\ (IsActive(tree[t], n) => tree[t].stopping)
          => /\ tree'[t].nodes[n].state \in {"error", "absent"}
             /\ tree'[t].nodes[n].session \in {tree[t].nodes[n].session, None}]_vars
  <2> SUFFICES ASSUME IInv, Next
               PROVE  AllKeepSettled
    BY DEF AllKeepSettled, KeepsSettled, Settled
  <2>1. CASE Deliver
    BY <2>1, AdmitSettles DEF Deliver
  <2>2. CASE Command
    BY <2>2, CommandSettles
  <2>3. ASSUME NEW c \in Claims, Task(c) PROVE AllKeepSettled
    BY <2>3, TaskSettles
  <2>4. QED BY <2>1, <2>2, <2>3 DEF Next
<1>2. QED BY <1>1, Inductive, PTL DEF Spec, StoppedIsFinal

-----------------------------------------------------------------------------
(* Sessions, status messages and what a snapshot needs *)

\* Nothing is left of a message that was deleted, and the root answers nobody.
Clean(t) ==
    /\ \A n \in Prompts : t.nodes[n].state = "absent" => t.nodes[n] = NoNode
    /\ t.root # None => t.nodes[t.root].parent = None /\ t.nodes[t.root].parentRef = None

\* A session was left by a task that is gone, or is still being written by the task
\* that holds the claim of its tree; a task knows the status message of its turn and
\* resumes a session only once the task that left it is gone.
Honest(tr, sl) ==
    /\ \A t \in Trees : Clean(tr[t])
    /\ \A t \in Trees, n \in Prompts : tr[t].nodes[n].session # None =>
          \/ tr[t].active = tr[t].nodes[n].session
          \/ sl[tr[t].nodes[n].session].phase = "done"
    /\ \A c \in Claims : LiveIn(sl, c) =>
          /\ sl[c].status # None
          /\ sl[c].resumes # None => sl[sl[c].resumes].phase = "done"

\* The tree t was cleared, or the message of the turn that holds its claim was.
Lost(tr, pub, t) == t \notin pub \/ tr[t].activeNode \notin Present(tr[t])

\* Then the task that holds the claim has been told to stop.
Told(tr, pub, sl) ==
    \A t \in Trees : tr[t].active # None /\ Lost(tr, pub, t) => sl[tr[t].active].cancelled

\* The invariant of this module; IInv is the one of TreeQueueManager_proofs.
JInv == IInv /\ Honest(tree, slot) /\ Told(tree, published, slot)

\* u is t after turns were stopped, failed or removed, or a result was recorded: the
\* claim stays where it is and the queue keeps its order.
Drops(t, u) ==
    /\ u.root = t.root /\ u.active = t.active /\ u.activeNode = t.activeNode
    /\ \A k \in Prompts :
         /\ u.queue[k] \in {t.queue[k], 0}
         /\ u.queue[k] > 0 => u.nodes[k].status = t.nodes[k].status
         /\ u.nodes[k].session \in {t.nodes[k].session, None, t.active}
         /\ \/ u.nodes[k] = NoNode
            \/ u.nodes[k] = t.nodes[k]
            \/ /\ u.nodes[k].state # "absent" /\ t.nodes[k].state # "absent"
               /\ u.nodes[k].parent = t.nodes[k].parent
               /\ u.nodes[k].parentRef = t.nodes[k].parentRef

\* Tasks go on, or are told to stop; none begins or ends.
SameTasks(sl, sl1) ==
    \A c \in Claims :
        /\ LiveIn(sl1, c) <=> LiveIn(sl, c)
        /\ sl1[c].phase = "done" <=> sl[c].phase = "done"
        /\ sl1[c].status = sl[c].status /\ sl1[c].resumes = sl[c].resumes
        /\ sl[c].cancelled => sl1[c].cancelled

\* Every task that loses its tree or its message in this step is told.
Tells == \A t \in Trees :
            tree[t].active # None /\ Lost(tree', published', t) =>
               Lost(tree, published, t) \/ slot'[tree[t].active].cancelled

\* A step that only drops turns.
Quiet == /\ \A t \in Trees : Drops(tree[t], tree'[t])
         /\ SameTasks(slot, slot')
         /\ Tells
         /\ sent' = sent

\* A tree that was halted, with sessions and absent nodes left alone, has dropped turns.
LEMMA HaltedDrops ==
    ASSUME NEW t \in Tree, NEW u \in Tree, Halted(t, u),
           \A k \in Prompts :
              /\ u.nodes[k].session \in {t.nodes[k].session, None, t.active}
              /\ t.nodes[k].state = "absent" => u.nodes[k] = t.nodes[k]
    PROVE  Drops(t, u) /\ Present(u) = Present(t)
<1>1. u.root = t.root /\ u.active = t.active /\ u.activeNode = t.activeNode
  BY DEF Halted, SameShape
<1>2. ASSUME NEW k \in Prompts
      PROVE  /\ u.queue[k] \in {t.queue[k], 0}
             /\ u.nodes[k].status = t.nodes[k].status
             /\ \/ u.nodes[k] = t.nodes[k]
                \/ /\ u.nodes[k].state # "absent" /\ t.nodes[k].state # "absent"
                   /\ u.nodes[k].parent = t.nodes[k].parent
                   /\ u.nodes[k].parentRef = t.nodes[k].parentRef
  BY <1>2 DEF Halted, SameShape
<1>3. Present(u) = Present(t)
  BY DEF Halted, SameShape, Present
<1>4. QED BY <1>1, <1>2, <1>3 DEF Drops

\* Nothing changed.
LEMMA DropsReflexive == ASSUME NEW t \in Tree PROVE Drops(t, t)
BY DEF Drops

\* Marking errors leaves sessions and absent nodes alone.
LEMMA MarkErrorSessions ==
    ASSUME NEW t \in Tree, NEW S, S \subseteq Present(t), NEW u, u.nodes = MarkError(t, S),
           NEW k \in Prompts
    PROVE  /\ u.nodes[k].session = t.nodes[k].session
           /\ t.nodes[k].state = "absent" => u.nodes[k] = t.nodes[k]
<1>1. t.nodes[k] \in Node
  BY DEF Tree
<1>2. u.nodes[k] = IF k \in S THEN [t.nodes[k] EXCEPT !.state = "error"] ELSE t.nodes[k]
  BY DEF MarkError
<1>3. QED BY <1>1, <1>2 DEF Node, Present

\* The commands that stop turns.
LEMMA CommandDrops ==
    ASSUME NEW t \in Tree, Sched(t), NEW u \in Tree, Halted(t, u),
           \/ \E n \in Prompts : u = CancelNode(t, n)
           \/ u = CancelAll(t) \/ u = CancelAllPartial(t)
           \/ \E S \in SUBSET Prompts : u = RemoveSubtreePartial(t, S)
    PROVE  Drops(t, u) /\ Present(u) = Present(t)
<1>1. \E S \in SUBSET Present(t) : u.nodes = MarkError(t, S)
  <2>1. InState(t, Runnable) \subseteq Present(t)
    BY DEF InState, Present, Runnable
  <2>2. ASSUME NEW n \in Prompts, u = CancelNode(t, n)
        PROVE  \E S \in SUBSET Present(t) : u.nodes = MarkError(t, S)
    <3>1. u.nodes = MarkError(t, {n} \cap InState(t, Runnable))
      BY <2>2 DEF CancelNode, Tree
    <3>2. {n} \cap InState(t, Runnable) \in SUBSET Present(t)
      BY <2>1
    <3>3. QED BY <3>1, <3>2
  <2>3. CASE u = CancelAll(t)
    <3>1. u.nodes = MarkError(t, InState(t, Runnable))
      BY <2>3 DEF CancelAll, RequestStop, Tree
    <3>2. QED BY <2>1, <3>1
  <2>4. CASE u = CancelAllPartial(t)
    <3>1. u.nodes = t.nodes
      BY <2>4 DEF CancelAllPartial, RequestStop, Tree
    <3>2. t.nodes = MarkError(t, {})
      BY DEF MarkError, Tree
    <3>3. {} \in SUBSET Present(t) /\ u.nodes = MarkError(t, {})
      BY <3>1, <3>2
    <3>4. QED BY <3>3
  <2>5. ASSUME NEW S \in SUBSET Prompts, u = RemoveSubtreePartial(t, S)
        PROVE  \E R \in SUBSET Present(t) : u.nodes = MarkError(t, R)
    <3>1. u.nodes = MarkError(t, S \cap InState(t, Runnable))
      BY <2>5 DEF RemoveSubtreePartial, Tree
    <3>2. S \cap InState(t, Runnable) \in SUBSET Present(t)
      BY <2>1
    <3>3. QED BY <3>1, <3>2
  <2>6. QED BY <2>2, <2>3, <2>4, <2>5
<1>2. PICK S \in SUBSET Present(t) : u.nodes = MarkError(t, S)
  BY <1>1
<1>3. \A k \in Prompts : /\ u.nodes[k].session = t.nodes[k].session
                         /\ t.nodes[k].state = "absent" => u.nodes[k] = t.nodes[k]
  BY <1>2, MarkErrorSessions
<1>4. QED BY <1>3, HaltedDrops

\* The results of a runner.
LEMMA ResultDrops ==
    ASSUME NEW t \in Tree, Sched(t), NEW c \in Claims, NEW u \in Tree, Halted(t, u),
           \/ u = RecordSession(t, c)
           \/ \E session \in {c, None} : u = CompleteClaim(t, c, session)
           \/ \E propagate \in BOOLEAN : u = FailClaim(t, c, propagate)
    PROVE  Drops(t, u) /\ Present(u) = Present(t)
<1>0. CASE u = t
  BY <1>0, DropsReflexive
<1>1. CASE u = RecordSession(t, c) /\ u # t
  <2>1. /\ t.active = c /\ t.nodes[t.activeNode].state = "in_progress"
        /\ u.nodes = [t.nodes EXCEPT ![t.activeNode].session = c]
    BY <1>1 DEF RecordSession, Holds, Tree
  <2>2. \A k \in Prompts :
           /\ u.nodes[k].session \in {t.nodes[k].session, None, t.active}
           /\ t.nodes[k].state = "absent" => u.nodes[k] = t.nodes[k]
    BY <2>1 DEF Tree, Node
  <2>3. QED BY <2>2, HaltedDrops
<1>2. ASSUME NEW session \in {c, None}, u = CompleteClaim(t, c, session), u # t
      PROVE  Drops(t, u) /\ Present(u) = Present(t)
  <2> DEFINE kept == IF session = None THEN t.nodes[t.activeNode].session ELSE session
             node == [t.nodes[t.activeNode] EXCEPT !.state = "completed", !.session = kept]
  <2>1. /\ t.active = c /\ t.nodes[t.activeNode].state \in {"in_progress", "error"}
        /\ u = [t EXCEPT !.nodes[t.activeNode].state = "completed",
                         !.nodes[t.activeNode].session = IF session = None THEN @ ELSE session]
    BY <1>2 DEF CompleteClaim, Holds
  <2>2. t.activeNode \in Prompts
    BY <2>1, ReferencesAssumption DEF Sched, Tree
  <2>3. u.nodes = [t.nodes EXCEPT ![t.activeNode] = node]
    BY <2>1, <2>2 DEF Tree, Node
  <2>4. node.session = kept
    BY <2>2 DEF Tree, Node
  <2>5. kept \in {t.nodes[t.activeNode].session, None, t.active}
    BY <2>1
  <2> HIDE DEF node, kept
  <2>6. \A k \in Prompts :
           /\ u.nodes[k].session \in {t.nodes[k].session, None, t.active}
           /\ t.nodes[k].state = "absent" => u.nodes[k] = t.nodes[k]
    <3> SUFFICES ASSUME NEW k \in Prompts
                 PROVE  /\ u.nodes[k].session \in {t.nodes[k].session, None, t.active}
                        /\ t.nodes[k].state = "absent" => u.nodes[k] = t.nodes[k]
      OBVIOUS
    <3>1. CASE k = t.activeNode
      BY <2>1, <2>2, <2>3, <2>4, <2>5, <3>1 DEF Tree
    <3>2. CASE k # t.activeNode
      BY <2>3, <3>2 DEF Tree
    <3>3. QED BY <3>1, <3>2
  <2>7. QED BY <2>6, HaltedDrops
<1>3. ASSUME NEW propagate \in BOOLEAN, u = FailClaim(t, c, propagate), u # t
      PROVE  Drops(t, u) /\ Present(u) = Present(t)
  <2>1. /\ Holds(t, c, {"pending", "in_progress", "error"})
        /\ u.nodes = MarkError(t, FailedBy(t, propagate))
    BY <1>3 DEF FailClaim, Tree
  <2>2. t.activeNode \in Prompts
    BY <2>1, ReferencesAssumption DEF Holds, Sched, Tree
  <2>3. FailedBy(t, propagate) \subseteq Present(t)
    BY <2>1, <2>2 DEF FailedBy, Holds, Present, InState
  <2>4. \A k \in Prompts : /\ u.nodes[k].session = t.nodes[k].session
                           /\ t.nodes[k].state = "absent" => u.nodes[k] = t.nodes[k]
    BY <2>1, <2>3, MarkErrorSessions
  <2>5. QED BY <2>4, HaltedDrops
<1>4. QED BY <1>0, <1>1, <1>2, <1>3

\* The removal of messages.
LEMMA RemoveDrops ==
    ASSUME NEW t \in Tree, Sched(t), NEW r \in Refs, NEW removed, removed = PromptsBelow(t, r),
           NEW u, u = RemoveSubtree(t, r, removed)
    PROVE  Drops(t, u)
<1> DEFINE affected == AffectedNodes(t, r, removed)
<1>1. /\ u \in Tree /\ u.root = t.root
      /\ u.active = t.active /\ u.activeNode = t.activeNode
      /\ u.queue = Dequeue(t, affected)
  BY RemoveFields
<1>2. \A k \in Prompts :
         /\ k \in removed => u.nodes[k] = NoNode
         /\ k \in affected \ removed => u.nodes[k] = ClearStatus(t.nodes[k])
         /\ k \notin affected => u.nodes[k] = t.nodes[k]
  BY RemoveFields
<1>3. affected \subseteq Present(t) /\ removed \subseteq affected
  BY PromptsBelowClosed DEF AffectedNodes, Owns
<1> HIDE DEF affected
<1>4. ASSUME NEW k \in Prompts
      PROVE  /\ u.queue[k] \in {t.queue[k], 0}
             /\ u.queue[k] > 0 => u.nodes[k].status = t.nodes[k].status
             /\ u.nodes[k].session \in {t.nodes[k].session, None, t.active}
             /\ \/ u.nodes[k] = NoNode
                \/ u.nodes[k] = t.nodes[k]
                \/ /\ u.nodes[k].state # "absent" /\ t.nodes[k].state # "absent"
                   /\ u.nodes[k].parent = t.nodes[k].parent
                   /\ u.nodes[k].parentRef = t.nodes[k].parentRef
  <2>1. u.queue[k] = IF k \in affected THEN 0 ELSE t.queue[k]
    BY <1>1 DEF Dequeue
  <2>2. CASE k \in removed
    BY <1>2, <1>3, <2>1, <2>2 DEF NoNode
  <2>3. CASE k \in affected \ removed
    <3>1. t.nodes[k] \in Node /\ t.nodes[k].state # "absent"
      BY <1>3, <2>3 DEF Tree, Present
    <3>2. u.nodes[k] = ClearStatus(t.nodes[k])
      BY <1>2, <2>3
    <3>3. /\ u.nodes[k].state = "error" /\ u.nodes[k].session = None
          /\ u.nodes[k].parent = t.nodes[k].parent
          /\ u.nodes[k].parentRef = t.nodes[k].parentRef
      BY <3>1, <3>2 DEF ClearStatus, Node
    <3>4. QED BY <2>1, <2>3, <3>1, <3>3
  <2>4. CASE k \notin affected
    BY <1>2, <2>1, <2>4
  <2>5. QED BY <1>3, <2>2, <2>3, <2>4
<1>5. QED BY <1>1, <1>4 DEF Drops

-----------------------------------------------------------------------------
(* Steps that only drop turns *)

\* Telling tasks to stop ends none.
LEMMA CancelKeepsTasks ==
    ASSUME IInv, NEW S, NEW tr1
    PROVE  SameTasks(slot, CancelTasks(S, tr1)) /\ SameTasks(slot, slot)
<1>1. \A c \in Claims : slot[c] \in Slot
  BY ConsistentType DEF IInv
<1>2. ASSUME NEW c \in Claims, NEW new,
             new = slot[c] \/ new = [slot[c] EXCEPT !.cancelled = TRUE]
      PROVE  /\ new.phase = slot[c].phase /\ new.status = slot[c].status
             /\ new.resumes = slot[c].resumes
             /\ slot[c].cancelled => new.cancelled
  <2>1. CASE new = slot[c]
    BY <2>1
  <2>2. CASE new = [slot[c] EXCEPT !.cancelled = TRUE]
    <3>1. new.cancelled
      BY <1>1, <2>2 DEF Slot
    <3>2. QED BY <1>1, <2>2, <3>1 DEF Slot
  <2>3. QED BY <1>2, <2>1, <2>2
<1>3. ASSUME NEW c \in Claims
      PROVE  \/ CancelTasks(S, tr1)[c] = slot[c]
             \/ CancelTasks(S, tr1)[c] = [slot[c] EXCEPT !.cancelled = TRUE]
  BY DEF CancelTasks
<1>4. ASSUME NEW c \in Claims
      PROVE  /\ CancelTasks(S, tr1)[c].phase = slot[c].phase
             /\ CancelTasks(S, tr1)[c].status = slot[c].status
             /\ CancelTasks(S, tr1)[c].resumes = slot[c].resumes
             /\ slot[c].cancelled => CancelTasks(S, tr1)[c].cancelled
  BY <1>2, <1>3
<1>5. QED BY <1>4 DEF SameTasks, LiveIn

\* A step that removes no message and no tree has nobody to tell.
LEMMA NobodyToTell ==
    ASSUME \A t \in Trees : /\ tree'[t].activeNode = tree[t].activeNode
                            /\ Present(tree'[t]) = Present(tree[t]),
           published' = published
    PROVE  Tells
BY DEF Tells, Lost

\* One tree drops turns, and its task may be told to stop.
LEMMA OneTreeDrops ==
    ASSUME IInv, NEW t \in Trees, NEW u, Drops(tree[t], u),
           tree' = [tree EXCEPT ![t] = u]
    PROVE  /\ \A v \in Trees : Drops(tree[v], tree'[v])
           /\ \A v \in Trees \ {t} : tree'[v] = tree[v]
           /\ Present(u) = Present(tree[t]) /\ published' = published => Tells
<1>1. tree \in [Trees -> Tree]
  BY ConsistentType DEF IInv
<1>2. \A v \in Trees : tree'[v] = IF v = t THEN u ELSE tree[v]
  BY <1>1
<1>3. \A v \in Trees : Drops(tree[v], tree'[v])
  BY <1>1, <1>2, DropsReflexive
<1>4. Present(u) = Present(tree[t]) => \A v \in Trees : Present(tree'[v]) = Present(tree[v])
  BY <1>2
<1>5. QED BY <1>2, <1>3, <1>4, NobodyToTell DEF Drops

\* The loop of /stop and /clear, wherever it ends.
LEMMA CancelTreesQuiet ==
    ASSUME IInv, NEW S \in SUBSET Trees, CancelTrees(S)
    PROVE  /\ \A t \in Trees : /\ Drops(tree[t], tree'[t])
                               /\ Present(tree'[t]) = Present(tree[t])
           /\ SameTasks(slot, slot')
           /\ \A t \in Cancelled(S) : /\ tree'[t] = CancelAll(tree[t])
                                      /\ tree[t].active # None => slot'[tree[t].active].cancelled
<1>1. ASSUME NEW t \in Trees
      PROVE  Drops(tree[t], tree'[t]) /\ Present(tree'[t]) = Present(tree[t])
  <2>1. tree[t] \in Tree /\ Sched(tree[t])
    BY ConsistentType DEF IInv
  <2>2. t \in Reached(S) \ Cancelled(S) => CancelAllRaises(tree[t])
    BY DEF Cancelled, Reached, Failing
  <2>3. \/ tree'[t] = CancelAll(tree[t])
        \/ tree'[t] = CancelAllPartial(tree[t]) /\ CancelAllRaises(tree[t])
        \/ tree'[t] = tree[t]
    BY <2>2 DEF CancelTrees
  <2>4. CASE tree'[t] = CancelAll(tree[t])
    <3>1. tree'[t] \in Tree /\ Halted(tree[t], tree'[t])
      BY <2>1, <2>4, CancelAllHalts
    <3>2. QED BY <2>1, <2>4, <3>1, CommandDrops
  <2>5. CASE tree'[t] = CancelAllPartial(tree[t]) /\ CancelAllRaises(tree[t])
    <3>1. tree'[t] \in Tree /\ Halted(tree[t], tree'[t])
      BY <2>1, <2>5, CancelAllPartialHalts
    <3>2. QED BY <2>1, <2>5, <3>1, CommandDrops
  <2>6. CASE tree'[t] = tree[t]
    BY <2>1, <2>6, DropsReflexive
  <2>7. QED BY <2>3, <2>4, <2>5, <2>6
<1>2. ASSUME NEW t \in Cancelled(S)
      PROVE  /\ tree'[t] = CancelAll(tree[t])
             /\ tree[t].active # None => slot'[tree[t].active].cancelled
  <2>1. t \in Trees /\ tree[t] \in Tree /\ Sched(tree[t])
    BY ConsistentType DEF IInv, Cancelled, Reached
  <2>2. tree'[t] = CancelAll(tree[t])
    BY <2>1 DEF CancelTrees
  <2>3. tree'[t].stopping <=> tree[t].active # None
    BY <2>1, <2>2, CancelAllHalts
  <2>4. tree'[t].active = tree[t].active
    BY <1>1, <2>1 DEF Drops
  <2>5. ASSUME tree[t].active # None PROVE slot'[tree[t].active].cancelled
    <3> DEFINE c == tree[t].active
    <3>1. c \in Claims /\ Live(c) /\ slot[c] \in Slot
      BY <2>1, <2>5 DEF IInv, Consistent, Tree, Live, LiveIn
    <3>2. slot' = CancelTasks(Cancelled(S), tree')
      BY DEF CancelTrees
    <3>3. slot'[c] = [slot[c] EXCEPT !.cancelled = TRUE]
      BY <2>3, <2>4, <2>5, <3>1, <3>2 DEF CancelTasks
    <3>4. QED BY <3>1, <3>3 DEF Slot
  <2>6. QED BY <2>2, <2>5
<1>3. QED BY <1>1, <1>2, CancelKeepsTasks DEF CancelTrees

\* Every command only drops turns, also one that raises half way.
LEMMA CommandQuiet ==
    ASSUME IInv, Command
    PROVE  Quiet
<1>0. /\ tree \in [Trees -> Tree] /\ published \in SUBSET Trees
      /\ \A t \in Trees : tree[t] \in Tree /\ Sched(tree[t])
  BY ConsistentType DEF IInv
<1>1. CASE StopAll
  <2>1. CancelTrees(published) /\ published' = published /\ sent' = sent
    BY <1>1 DEF StopAll
  <2>2. /\ \A t \in Trees : Drops(tree[t], tree'[t]) /\ Present(tree'[t]) = Present(tree[t])
        /\ SameTasks(slot, slot')
    BY <1>0, <2>1, CancelTreesQuiet
  <2>3. Tells
    BY <2>1, <2>2, NobodyToTell DEF Drops
  <2>4. QED BY <2>1, <2>2, <2>3 DEF Quiet
<1>2. ASSUME NEW sc \in Scopes, ClearScope(sc) PROVE Quiet
  <2>1. InScope(sc) \in SUBSET Trees
    BY <1>0 DEF InScope
  <2>2. CancelTrees(InScope(sc)) /\ published' = published \ Cancelled(InScope(sc)) /\ sent' = sent
    BY <1>2 DEF ClearScope
  <2>3. /\ \A t \in Trees : Drops(tree[t], tree'[t]) /\ Present(tree'[t]) = Present(tree[t])
        /\ SameTasks(slot, slot')
        /\ \A t \in Cancelled(InScope(sc)) : tree[t].active # None => slot'[tree[t].active].cancelled
    BY <2>1, <2>2, CancelTreesQuiet
  <2>4. Tells
    BY <2>2, <2>3 DEF Tells, Lost, Drops
  <2>5. QED BY <2>2, <2>3, <2>4 DEF Quiet
<1>3. ASSUME NEW r \in Refs, StopReply(r) PROVE Quiet
  <2>1. PICK t \in published, n \in Prompts :
          /\ tree' = [tree EXCEPT ![t] = CancelNode(tree[t], n)]
          /\ slot' \in {slot, CancelTasks({t}, tree')} /\ sent' = sent
          /\ published' = published
    BY <1>3 DEF StopReply
  <2>2. t \in Trees /\ tree[t] \in Tree /\ Sched(tree[t])
    BY <1>0
  <2>3. CancelNode(tree[t], n) \in Tree /\ Halted(tree[t], CancelNode(tree[t], n))
    BY <2>2, CancelNodeHalts
  <2>4. /\ Drops(tree[t], CancelNode(tree[t], n))
        /\ Present(CancelNode(tree[t], n)) = Present(tree[t])
    BY <2>2, <2>3, CommandDrops
  <2>5. QED BY <2>1, <2>2, <2>4, OneTreeDrops, CancelKeepsTasks DEF Quiet
<1>4. ASSUME NEW r \in Refs, ClearReply(r) PROVE Quiet
  <2>1. PICK t \in published : \E removed \in {PromptsBelow(tree[t], r)} :
          /\ tree' = [tree EXCEPT ![t] = RemoveSubtree(tree[t], r, removed)]
          /\ slot' = IF tree[t].activeNode \in AffectedNodes(tree[t], r, removed)
                     THEN CancelTasks({t}, tree') ELSE slot
          /\ published' = IF tree[t].root \in removed THEN published \ {t} ELSE published
          /\ sent' = sent
    BY <1>4 DEF ClearReply
  <2> DEFINE removed == PromptsBelow(tree[t], r)
             affected == AffectedNodes(tree[t], r, removed)
             u == RemoveSubtree(tree[t], r, removed)
  <2>2. /\ t \in Trees /\ tree[t] \in Tree /\ Sched(tree[t]) /\ Shape(tree[t])
        /\ slot \in [Claims -> Slot]
    BY <1>0, ConsistentType DEF IInv
  <2>3. Drops(tree[t], u)
    BY <2>2, RemoveDrops
  <2>4. Present(u) = Present(tree[t]) \ removed /\ (tree[t].root \in removed => Present(u) = {})
    BY <2>2, RemoveOwned, RemoveShape
  <2>5. u.stopping = (tree[t].stopping \/ (tree[t].active # None /\ tree[t].activeNode \in affected))
    BY <2>2, RemoveFields
  <2>6. /\ tree' = [tree EXCEPT ![t] = u]
        /\ slot' = IF tree[t].activeNode \in affected THEN CancelTasks({t}, tree') ELSE slot
        /\ published' = IF tree[t].root \in removed THEN published \ {t} ELSE published
        /\ sent' = sent
    BY <2>1
  <2>7. removed \subseteq affected
    BY DEF AffectedNodes
  <2> HIDE DEF removed, affected, u
  <2>8. /\ \A v \in Trees : Drops(tree[v], tree'[v])
        /\ tree'[t] = u /\ \A v \in Trees \ {t} : tree'[v] = tree[v]
    BY <1>0, <2>2, <2>3, <2>6, OneTreeDrops
\* The task whose message goes is told; one whose message was gone already had been.
  <2>9. ASSUME tree[t].active # None, tree[t].activeNode \in affected
        PROVE  slot'[tree[t].active].cancelled
    <3> DEFINE c == tree[t].active
    <3>1. c \in Claims /\ Live(c) /\ slot[c] \in Slot
      BY <2>2, <2>9 DEF IInv, Consistent, Tree, Live, LiveIn
    <3>2. tree'[t].stopping /\ tree'[t].active = c
      BY <2>3, <2>5, <2>8, <2>9 DEF Drops
    <3>3. slot' = CancelTasks({t}, tree')
      BY <2>6, <2>9
    <3>4. slot'[c] = [slot[c] EXCEPT !.cancelled = TRUE]
      BY <3>1, <3>2, <3>3 DEF CancelTasks
    <3>5. QED BY <3>1, <3>4 DEF Slot
  <2>10. Tells
    <3> SUFFICES ASSUME NEW v \in Trees, tree[v].active # None, Lost(tree', published', v),
                        ~Lost(tree, published, v)
                 PROVE  slot'[tree[v].active].cancelled
      BY DEF Tells
    <3>1. v = t
      BY <2>6, <2>8 DEF Lost
    <3>2. tree[t].activeNode \in Present(tree[t]) /\ u.activeNode = tree[t].activeNode
      BY <2>3, <3>1 DEF Lost, Drops
    <3>3. tree[t].activeNode \in affected
      BY <2>4, <2>6, <2>7, <2>8, <3>1, <3>2 DEF Lost
    <3>4. QED BY <2>9, <3>1, <3>3
  <2>11. QED BY <2>6, <2>8, <2>10, CancelKeepsTasks DEF Quiet
<1>5. ASSUME NEW r \in Refs, ClearReplyRaises(r) PROVE Quiet
  <2>1. PICK t \in published, n \in Prompts, S \in SUBSET Prompts :
          /\ UiTargetMissing(tree[t], n)
          /\ tree' = [tree EXCEPT ![t] = RemoveSubtreePartial(tree[t], S)]
          /\ UNCHANGED <<published, index, slot, sent>>
    BY <1>5 DEF ClearReplyRaises, AffectedNodes, PromptsBelow, Present
  <2>2. t \in Trees /\ tree[t] \in Tree /\ Sched(tree[t])
    BY <1>0
  <2>3. RemoveSubtreePartial(tree[t], S) \in Tree /\ Halted(tree[t], RemoveSubtreePartial(tree[t], S))
    BY <2>1, <2>2, RemovePartialHalts
  <2>4. /\ Drops(tree[t], RemoveSubtreePartial(tree[t], S))
        /\ Present(RemoveSubtreePartial(tree[t], S)) = Present(tree[t])
    BY <2>2, <2>3, CommandDrops
  <2>5. QED BY <2>1, <2>2, <2>4, OneTreeDrops, CancelKeepsTasks DEF Quiet
<1>6. QED BY <1>1, <1>2, <1>3, <1>4, <1>5 DEF Command

\* A result, in whatever tree it is recorded.
LEMMA ResultDropsTrees ==
    ASSUME IInv, NEW c \in Claims, NEW tr1,
           \/ tr1 = OnAddressed(c, LAMBDA t : RecordSession(t, c))
           \/ \E session \in {c, None} :
                 tr1 = OnAddressed(c, LAMBDA t : CompleteClaim(t, c, session))
           \/ \E propagate \in BOOLEAN :
                 tr1 = OnAddressed(c, LAMBDA t : FailClaim(t, c, propagate))
    PROVE  \A t \in Trees : Drops(tree[t], tr1[t]) /\ Present(tr1[t]) = Present(tree[t])
<1> SUFFICES ASSUME NEW t \in Trees
             PROVE  Drops(tree[t], tr1[t]) /\ Present(tr1[t]) = Present(tree[t])
  OBVIOUS
<1>1. tree[t] \in Tree /\ Sched(tree[t]) /\ tr1[t] \in Tree /\ Halted(tree[t], tr1[t])
  BY ResultStep, ConsistentType DEF IInv
<1>2. \/ tr1[t] = tree[t]
      \/ tr1[t] = RecordSession(tree[t], c)
      \/ \E session \in {c, None} : tr1[t] = CompleteClaim(tree[t], c, session)
      \/ \E propagate \in BOOLEAN : tr1[t] = FailClaim(tree[t], c, propagate)
  <2>1. CASE tr1 = OnAddressed(c, LAMBDA v : RecordSession(v, c))
    BY <2>1 DEF OnAddressed
  <2>2. ASSUME NEW session \in {c, None},
               tr1 = OnAddressed(c, LAMBDA v : CompleteClaim(v, c, session))
        PROVE  tr1[t] \in {tree[t], CompleteClaim(tree[t], c, session)}
    BY <2>2 DEF OnAddressed
  <2>3. ASSUME NEW propagate \in BOOLEAN,
               tr1 = OnAddressed(c, LAMBDA v : FailClaim(v, c, propagate))
        PROVE  tr1[t] \in {tree[t], FailClaim(tree[t], c, propagate)}
    BY <2>3 DEF OnAddressed
  <2>4. QED BY <2>1, <2>2, <2>3
<1>3. QED BY <1>1, <1>2, ResultDrops, DropsReflexive

\* A task that goes on, or reports a result.
LEMMA TaskQuiet ==
    ASSUME IInv, NEW c \in Claims,
           \/ Enter(c) \/ StartRunner(c)
           \/ RunnerRecordsSession(c) \/ RunnerCompletes(c) \/ RunnerFails(c)
    PROVE  Quiet
<1>0. /\ tree \in [Trees -> Tree] /\ slot \in [Claims -> Slot]
      /\ \A t \in Trees : tree[t] \in Tree
  BY ConsistentType DEF IInv
<1>1. CASE Enter(c) \/ StartRunner(c)
  <2>1. /\ tree' = tree /\ sent' = sent /\ published' = published /\ LiveIn(slot, c)
        /\ \E phase \in {"announcing", "running"} : slot' = [slot EXCEPT ![c].phase = phase]
    BY <1>1 DEF Enter, StartRunner, LiveIn
  <2>2. \A d \in Claims :
           /\ slot'[d].status = slot[d].status /\ slot'[d].resumes = slot[d].resumes
           /\ slot'[d].cancelled = slot[d].cancelled
           /\ d # c => slot'[d].phase = slot[d].phase
           /\ slot'[c].phase \in {"announcing", "running"}
    BY <1>0, <2>1 DEF Slot
  <2>3. SameTasks(slot, slot')
    BY <2>1, <2>2 DEF SameTasks, LiveIn
  <2>4. Tells
    BY <2>1, NobodyToTell
  <2>5. QED BY <1>0, <2>1, <2>3, <2>4, DropsReflexive DEF Quiet
<1>2. CASE RunnerRecordsSession(c) \/ RunnerCompletes(c) \/ RunnerFails(c)
  <2>1. slot' = slot /\ sent' = sent /\ published' = published
    BY <1>2 DEF RunnerRecordsSession, RunnerCompletes, RunnerFails
  <2>2. \/ tree' = OnAddressed(c, LAMBDA t : RecordSession(t, c))
        \/ \E session \in {c, None} :
              tree' = OnAddressed(c, LAMBDA t : CompleteClaim(t, c, session))
        \/ \E propagate \in BOOLEAN :
              tree' = OnAddressed(c, LAMBDA t : FailClaim(t, c, propagate))
    BY <1>2 DEF RunnerRecordsSession, RunnerCompletes, RunnerFails
  <2>3. \A t \in Trees : Drops(tree[t], tree'[t]) /\ Present(tree'[t]) = Present(tree[t])
    BY <2>2, ResultDropsTrees
  <2>4. Tells
    BY <2>1, <2>3, NobodyToTell DEF Drops
  <2>5. QED BY <2>1, <2>3, <2>4, CancelKeepsTasks DEF Quiet
<1>3. QED BY <1>1, <1>2

\* Dropping turns keeps a tree clean, and everything honest.
LEMMA DropsHonest ==
    ASSUME NEW tr \in [Trees -> Tree], NEW sl \in [Claims -> Slot], Honest(tr, sl),
           NEW tr1, \A t \in Trees : Drops(tr[t], tr1[t]),
           NEW sl1, SameTasks(sl, sl1)
    PROVE  Honest(tr1, sl1)
<1>1. ASSUME NEW t \in Trees PROVE Clean(tr1[t])
  <2>1. Clean(tr[t]) /\ Drops(tr[t], tr1[t]) /\ tr[t].root \in Prompts \cup {None}
    BY DEF Honest, Tree
  <2>2. QED BY <2>1 DEF Clean, Drops, NoNode
<1>2. ASSUME NEW t \in Trees, NEW n \in Prompts, tr1[t].nodes[n].session # None
      PROVE  \/ tr1[t].active = tr1[t].nodes[n].session
             \/ sl1[tr1[t].nodes[n].session].phase = "done"
  <2>1. tr1[t].active = tr[t].active
        /\ tr1[t].nodes[n].session \in {tr[t].nodes[n].session, None, tr[t].active}
    BY DEF Drops
  <2>2. CASE tr1[t].nodes[n].session = tr[t].nodes[n].session
    <3> DEFINE e == tr[t].nodes[n].session
    <3>1. e \in Claims
      BY <1>2, <2>2 DEF Tree, Node
    <3>2. tr[t].active = e \/ sl[e].phase = "done"
      BY <1>2, <2>2 DEF Honest
    <3>3. QED BY <2>1, <2>2, <3>1, <3>2 DEF SameTasks
  <2>3. QED BY <1>2, <2>1, <2>2
<1>3. ASSUME NEW c \in Claims, LiveIn(sl1, c)
      PROVE  /\ sl1[c].status # None
             /\ sl1[c].resumes # None => sl1[sl1[c].resumes].phase = "done"
  <2>1. LiveIn(sl, c) /\ sl1[c].status = sl[c].status /\ sl1[c].resumes = sl[c].resumes
    BY <1>3 DEF SameTasks
  <2>2. sl[c].resumes \in Claims \cup {None}
    BY DEF Slot
  <2>3. sl[c].status # None /\ (sl[c].resumes # None => sl[sl[c].resumes].phase = "done")
    BY <2>1 DEF Honest
  <2>4. QED BY <2>1, <2>2, <2>3 DEF SameTasks
<1>4. QED BY <1>1, <1>2, <1>3 DEF Honest

-----------------------------------------------------------------------------
(* The end of a claim, and admissions *)

\* What launch copies into the slot of the claim.
LEMMA LaunchedFields ==
    ASSUME slot \in [Claims -> Slot], NEW t, NEW from, NEW n, NEW c \in Claims,
           NEW announce, NEW sl, sl = Launched(t, from, n, c, announce)
    PROVE  /\ sl[c].phase = "created"
           /\ sl[c].status = from.nodes[n].status
           /\ sl[c].resumes = ParentSession(from, n)
           /\ \A d \in Claims \ {c} : sl[d] = slot[d]
BY DEF Launched

\* A successor keeps its session.
LEMMA ReleaseToSession ==
    ASSUME NEW t \in Tree, NEW n \in Prompts, NEW c \in Claims,
           NEW u, u = ReleaseTo(t, n, c) \/ u = Claim(t, n, c)
    PROVE  u.nodes[n].session = t.nodes[n].session
<1> DEFINE node == [t.nodes[n] EXCEPT !.state = "in_progress"]
<1>1. u.nodes = [t.nodes EXCEPT ![n].state = "in_progress"]
  BY DEF ReleaseTo, Claim, Tree
<1>2. u.nodes[n] = node
  BY <1>1 DEF Tree
<1>3. node.session = t.nodes[n].session
  BY DEF Tree, Node
<1>4. QED BY <1>2, <1>3

\* The ways a task gives its claim back: nobody follows, or n does with the claim d.
LEMMA FinishCases ==
    ASSUME NEW trees, Consistent(trees, published, index, slot),
           NEW c \in Claims, LiveIn(slot, c), FinishIn(trees, c)
    PROVE  LET t == slot[c].tree
           IN  /\ t \in Trees /\ trees[t] \in Tree /\ trees[t].active = c
               /\ Sched(trees[t]) /\ Shape(trees[t])
               /\ \/ /\ Waiting(trees[t]) = {}
                     /\ tree' = [trees EXCEPT ![t] = Release(trees[t])]
                     /\ slot' = [slot EXCEPT ![c] = DoneSlot]
                  \/ \E n \in Prompts, d \in Claims :
                       /\ NextInLine(trees[t], n) /\ ~LiveIn(slot, d) /\ d # c
                       /\ slot[d].phase = "free"
                       /\ tree' = [trees EXCEPT ![t] = ReleaseTo(trees[t], n, d)]
                       /\ slot' = [Launched(t, trees[t], n, d, TRUE) EXCEPT ![c] = DoneSlot]
<1> DEFINE t == slot[c].tree
<1>1. /\ t \in Trees /\ trees[t] \in Tree /\ trees[t].active = c
      /\ Sched(trees[t]) /\ Shape(trees[t])
      /\ t \notin published => Queued(trees[t]) = {}
  BY DEF Consistent
<1>2. ASSUME NEW n \in Prompts, NEW d \in Claims, NextInLine(trees[t], n), NextClaim(d)
      PROVE  t \in published /\ ~LiveIn(slot, d) /\ d # c /\ slot[d].phase = "free"
  BY <1>1, <1>2, NextClaimFree DEF NextInLine, Waiting, NextClaim, IsNext
<1>3. QED BY <1>1, <1>2 DEF FinishIn

\* Giving a claim back closes the session it may have left.
LEMMA FinishHonest ==
    ASSUME NEW trees, Consistent(trees, published, index, slot), Honest(trees, slot),
           NEW c \in Claims, LiveIn(slot, c), FinishIn(trees, c)
    PROVE  Honest(tree', slot')
<1> DEFINE t == slot[c].tree
<1>1. /\ t \in Trees /\ trees[t] \in Tree /\ trees[t].active = c
      /\ trees \in [Trees -> Tree] /\ slot \in [Claims -> Slot] /\ c # None
      /\ Sched(trees[t]) /\ Shape(trees[t])
  BY FinishCases, ConsistentType, ReferencesAssumption
<1>1a. DoneSlot.phase = "done"
  BY DEF DoneSlot, FreeSlot
\* Whatever becomes of the tree, its nodes keep sessions and parents.
<1>2. ASSUME NEW u, tree' = [trees EXCEPT ![t] = u], u.root = trees[t].root,
             \A k \in Prompts :
                /\ u.nodes[k].session = trees[t].nodes[k].session
                /\ \/ u.nodes[k] = trees[t].nodes[k]
                   \/ /\ u.nodes[k].state # "absent"
                      /\ u.nodes[k].parent = trees[t].nodes[k].parent
                      /\ u.nodes[k].parentRef = trees[t].nodes[k].parentRef,
             slot'[c] = DoneSlot,
             \A e \in Claims : slot[e].phase = "done" => slot'[e].phase = "done"
      PROVE  /\ \A v \in Trees : Clean(tree'[v])
             /\ \A v \in Trees, k \in Prompts : tree'[v].nodes[k].session # None =>
                  \/ tree'[v].active = tree'[v].nodes[k].session
                  \/ slot'[tree'[v].nodes[k].session].phase = "done"
             /\ \A k \in Prompts : trees[t].nodes[k].session # None =>
                  slot'[trees[t].nodes[k].session].phase = "done"
  <2>1. tree'[t] = u /\ \A v \in Trees \ {t} : tree'[v] = trees[v]
    BY <1>1, <1>2
  <2>2. Clean(u)
    <3>1. Clean(trees[t]) /\ trees[t].root \in Prompts \cup {None}
      BY <1>1 DEF Honest, Tree
    <3>2. QED BY <1>2, <3>1 DEF Clean
  <2>3. \A k \in Prompts : trees[t].nodes[k].session # None =>
                  slot'[trees[t].nodes[k].session].phase = "done"
    <3> SUFFICES ASSUME NEW k \in Prompts, trees[t].nodes[k].session # None
                 PROVE  slot'[trees[t].nodes[k].session].phase = "done"
      OBVIOUS
    <3>1. trees[t].nodes[k].session \in Claims
      BY <1>1 DEF Tree, Node
    <3>2. trees[t].nodes[k].session = c \/ slot[trees[t].nodes[k].session].phase = "done"
      BY <1>1 DEF Honest
    <3>3. QED BY <1>1a, <1>2, <3>1, <3>2
  <2>4. ASSUME NEW v \in Trees, NEW k \in Prompts, tree'[v].nodes[k].session # None
        PROVE  \/ tree'[v].active = tree'[v].nodes[k].session
               \/ slot'[tree'[v].nodes[k].session].phase = "done"
    <3>1. CASE v = t
      BY <1>2, <2>1, <2>3, <2>4, <3>1
    <3>2. CASE v # t
      <4>1. tree'[v] = trees[v]
        BY <2>1, <3>2
      <4>2. trees[v].nodes[k].session \in Claims
        BY <1>1, <2>4, <4>1 DEF Tree, Node
      <4>3. \/ trees[v].active = trees[v].nodes[k].session
            \/ slot[trees[v].nodes[k].session].phase = "done"
        BY <2>4, <4>1 DEF Honest
      <4>4. QED BY <1>2, <4>1, <4>2, <4>3
    <3>3. QED BY <3>1, <3>2
  <2>5. \A v \in Trees : Clean(tree'[v])
    BY <2>1, <2>2 DEF Honest
  <2>6. QED BY <2>3, <2>4, <2>5
\* The tasks of other claims are as they were.
<1>3. ASSUME NEW d \in Claims, LiveIn(slot, d), slot'[d] = slot[d],
             \A e \in Claims : slot[e].phase = "done" => slot'[e].phase = "done"
      PROVE  /\ slot'[d].status # None
             /\ slot'[d].resumes # None => slot'[slot'[d].resumes].phase = "done"
  <2>1. slot[d].resumes \in Claims \cup {None}
    BY <1>1 DEF Slot
  <2>2. slot[d].status # None /\ (slot[d].resumes # None => slot[slot[d].resumes].phase = "done")
    BY <1>3 DEF Honest
  <2>3. QED BY <1>3, <2>1, <2>2
<1>4. CASE /\ tree' = [trees EXCEPT ![t] = Release(trees[t])]
           /\ slot' = [slot EXCEPT ![c] = DoneSlot]
  <2> DEFINE u == Release(trees[t])
  <2>1. u.root = trees[t].root /\ u.nodes = trees[t].nodes
    BY <1>1, ReleaseFields
  <2>2. tree' = [trees EXCEPT ![t] = u]
    BY <1>4
  <2> HIDE DEF u, t
  <2>3. slot'[c] = DoneSlot /\ \A d \in Claims \ {c} : slot'[d] = slot[d]
    BY <1>1, <1>4
  <2>4. \A e \in Claims : slot[e].phase = "done" => slot'[e].phase = "done"
    BY <1>1a, <2>3
  <2>5. /\ \A v \in Trees : Clean(tree'[v])
        /\ \A v \in Trees, k \in Prompts : tree'[v].nodes[k].session # None =>
             \/ tree'[v].active = tree'[v].nodes[k].session
             \/ slot'[tree'[v].nodes[k].session].phase = "done"
    BY <1>2, <2>1, <2>2, <2>3, <2>4
  <2>6. \A d \in Claims : LiveIn(slot', d) => LiveIn(slot, d) /\ slot'[d] = slot[d]
    BY <1>1a, <2>3 DEF LiveIn
  <2>7. QED BY <1>3, <2>4, <2>5, <2>6 DEF Honest
<1>5. ASSUME NEW n \in Prompts, NEW d \in Claims,
             NextInLine(trees[t], n), slot[d].phase = "free", d # c,
             tree' = [trees EXCEPT ![t] = ReleaseTo(trees[t], n, d)],
             slot' = [Launched(t, trees[t], n, d, TRUE) EXCEPT ![c] = DoneSlot]
      PROVE  Honest(tree', slot')
  <2> DEFINE u == ReleaseTo(trees[t], n, d)
             sl == Launched(t, trees[t], n, d, TRUE)
  <2>1. /\ u.root = trees[t].root
        /\ \A k \in Prompts \ {n} : u.nodes[k] = trees[t].nodes[k]
        /\ u.nodes[n].state = "in_progress"
        /\ u.nodes[n].parent = trees[t].nodes[n].parent
        /\ u.nodes[n].parentRef = trees[t].nodes[n].parentRef
    BY <1>1, ReleaseToFields
  <2>1a. u.nodes[n].session = trees[t].nodes[n].session
    BY <1>1, ReleaseToSession
  <2>2. /\ sl[d].phase = "created" /\ sl[d].status = trees[t].nodes[n].status
        /\ sl[d].resumes = ParentSession(trees[t], n)
        /\ \A e \in Claims \ {d} : sl[e] = slot[e]
    BY <1>1 DEF Launched
  <2>3. tree' = [trees EXCEPT ![t] = u] /\ slot' = [sl EXCEPT ![c] = DoneSlot]
    BY <1>5
  <2>4. c \in DOMAIN sl /\ DOMAIN sl = Claims
    BY <1>1 DEF Launched
  <2>5. trees[t].nodes[n].state = "pending"
    BY <1>5 DEF NextInLine, Waiting
  <2>6. trees[t].nodes[n].status # None
    BY <1>1, <2>5 DEF Sched, Runnable
  <2>7. ParentSession(trees[t], n) # None =>
           \E k \in Prompts : ParentSession(trees[t], n) = trees[t].nodes[k].session
    BY DEF ParentSession, Present
  <2> HIDE DEF u, sl, t
  <2>8. /\ slot'[c] = DoneSlot /\ slot'[d] = sl[d]
        /\ \A e \in Claims \ {c, d} : slot'[e] = slot[e]
    BY <1>5, <2>2, <2>3, <2>4
  <2>9. \A e \in Claims : slot[e].phase = "done" => slot'[e].phase = "done"
    BY <1>1a, <1>5, <2>8
  <2>10. /\ \A v \in Trees : Clean(tree'[v])
         /\ \A v \in Trees, k \in Prompts : tree'[v].nodes[k].session # None =>
              \/ tree'[v].active = tree'[v].nodes[k].session
              \/ slot'[tree'[v].nodes[k].session].phase = "done"
         /\ \A k \in Prompts : trees[t].nodes[k].session # None =>
              slot'[trees[t].nodes[k].session].phase = "done"
    <3>1. \A k \in Prompts :
             /\ u.nodes[k].session = trees[t].nodes[k].session
             /\ \/ u.nodes[k] = trees[t].nodes[k]
                \/ /\ u.nodes[k].state # "absent"
                   /\ u.nodes[k].parent = trees[t].nodes[k].parent
                   /\ u.nodes[k].parentRef = trees[t].nodes[k].parentRef
      <4> SUFFICES ASSUME NEW k \in Prompts
                   PROVE  /\ u.nodes[k].session = trees[t].nodes[k].session
                          /\ \/ u.nodes[k] = trees[t].nodes[k]
                             \/ /\ u.nodes[k].state # "absent"
                                /\ u.nodes[k].parent = trees[t].nodes[k].parent
                                /\ u.nodes[k].parentRef = trees[t].nodes[k].parentRef
        OBVIOUS
      <4>1. CASE k = n
        BY <2>1, <2>1a, <4>1
      <4>2. CASE k # n
        BY <2>1, <4>2
      <4>3. QED BY <4>1, <4>2
    <3>2. QED BY <1>2, <2>1, <2>3, <2>8, <2>9, <3>1
  <2>11. /\ slot'[d].status # None
         /\ slot'[d].resumes # None => slot'[slot'[d].resumes].phase = "done"
    BY <2>2, <2>6, <2>7, <2>8, <2>10
  <2>12. \A e \in Claims \ {d} : LiveIn(slot', e) => LiveIn(slot, e) /\ slot'[e] = slot[e]
    BY <1>1a, <2>8 DEF LiveIn
  <2>13. QED BY <1>3, <2>9, <2>10, <2>11, <2>12 DEF Honest
<1>6. \/ /\ Waiting(trees[t]) = {}
         /\ tree' = [trees EXCEPT ![t] = Release(trees[t])]
         /\ slot' = [slot EXCEPT ![c] = DoneSlot]
      \/ \E n \in Prompts, d \in Claims :
           /\ NextInLine(trees[t], n) /\ ~LiveIn(slot, d) /\ d # c
           /\ slot[d].phase = "free"
           /\ tree' = [trees EXCEPT ![t] = ReleaseTo(trees[t], n, d)]
           /\ slot' = [Launched(t, trees[t], n, d, TRUE) EXCEPT ![c] = DoneSlot]
  BY FinishCases
<1>7. QED BY <1>4, <1>5, <1>6

\* The tree a reply leaves: one more node, running in an idle tree, else last in line.
LEMMA ReplyFields ==
    ASSUME NEW t \in Tree, Sched(t), NEW n \in Prompts, n \notin Present(t),
           NEW s \in Statuses, NEW parent \in Prompts, NEW r \in Refs, NEW c \in Claims,
           NEW a, a = AddNode(t, n, s, parent, r), NEW u, u = EnqueueOrClaim(a, n, c)
    PROVE  /\ u.root = t.root
           /\ \A k \in Prompts \ {n} : u.nodes[k] = t.nodes[k]
           /\ u.nodes[n].state # "absent" /\ u.nodes[n].status = s
           /\ u.nodes[n].session = None
           /\ MustClaim(a, n) <=> t.active = None
           /\ t.active = None => u.active = c /\ u.activeNode = n /\ u.queue = t.queue
           /\ t.active # None => /\ u.active = t.active /\ u.activeNode = t.activeNode
                                 /\ u.queue[n] = t.tail + 1
                                 /\ \A k \in Prompts \ {n} : u.queue[k] = t.queue[k]
           /\ a.nodes[n].status = s
           /\ ParentSession(a, n) \in {t.nodes[k].session : k \in Prompts} \cup {None}
<1>1. /\ a \in Tree
      /\ a.nodes = [t.nodes EXCEPT ![n] =
            [state |-> "pending", status |-> s, parent |-> parent,
                     parentRef |-> r, session |-> None]]
      /\ a.root = t.root /\ a.queue = t.queue /\ a.tail = t.tail
      /\ a.active = t.active /\ a.activeNode = t.activeNode
  BY AddNodeFields
<1>1a. a \in Tree
  BY <1>1
<1>2. a.nodes[n] = [state |-> "pending", status |-> s, parent |-> parent,
                    parentRef |-> r, session |-> None]
      /\ \A k \in Prompts \ {n} : a.nodes[k] = t.nodes[k]
  BY <1>1 DEF Tree
<1>3. t.queue[n] = 0
  BY DEF Sched, Present, Tree
<1>4. MustClaim(a, n) <=> t.active = None
  BY <1>1, <1>2 DEF MustClaim
<1>5. ParentSession(a, n) \in {t.nodes[k].session : k \in Prompts} \cup {None}
  BY <1>2 DEF ParentSession, Present
<1>6. CASE t.active = None
  <2>1. u = Claim(a, n, c)
    BY <1>1, <1>4, <1>6 DEF EnqueueOrClaim, MustQueue
  <2>2. /\ \A k \in Prompts \ {n} : u.nodes[k] = a.nodes[k]
        /\ u.nodes[n].state = "in_progress" /\ u.nodes[n].status = a.nodes[n].status
        /\ u.root = a.root /\ u.queue = a.queue /\ u.active = c /\ u.activeNode = n
    BY <1>1a, <2>1, ClaimFields
  <2>3. u.nodes[n].session = a.nodes[n].session
    BY <1>1a, <2>1, ReleaseToSession
  <2>4. QED BY <1>1, <1>2, <1>4, <1>5, <1>6, <2>2, <2>3
<1>7. CASE t.active # None
  <2>1. u = Put(a, n)
    BY <1>1, <1>2, <1>3, <1>4, <1>7 DEF EnqueueOrClaim, MustQueue, Queued
  <2>2. /\ u.queue[n] = a.tail + 1
        /\ \A k \in Prompts \ {n} : u.queue[k] = a.queue[k]
        /\ u.root = a.root /\ u.nodes = a.nodes /\ u.active = a.active
        /\ u.activeNode = a.activeNode
    BY <1>1a, <2>1, PutFields
  <2>3. QED BY <1>1, <1>2, <1>4, <1>5, <1>7, <2>2
<1>8. QED BY <1>6, <1>7

\* A new turn leaves everything honest.
LEMMA AdmitHonest ==
    ASSUME JInv, NEW n \in Prompts, NEW s \in Statuses, Admit(n, s)
    PROVE  Honest(tree', slot')
<1>0. /\ tree \in [Trees -> Tree] /\ slot \in [Claims -> Slot] /\ published \subseteq Trees
      /\ \A t \in Trees : tree[t] \in Tree /\ Sched(tree[t]) /\ Shape(tree[t])
      /\ Honest(tree, slot) /\ IInv
  BY ConsistentType DEF JInv, IInv
<1>1. CASE AdmitKnown(n, s)
  <2>1. PICK t \in published, c \in Claims :
        /\ tree' = [tree EXCEPT ![t] = EnqueueOrClaim(tree[t], n, c)]
        /\ slot' = IF MustClaim(tree[t], n)
                   THEN Launched(t, tree[t], n, c, FALSE) ELSE slot
    BY <1>1 DEF AdmitKnown
  <2>2. ~MustClaim(tree[t], n) /\ EnqueueOrClaim(tree[t], n, c) = tree[t]
    BY <1>0, AdmitKnownStutters
  <2>3. tree' = tree /\ slot' = slot
    BY <1>0, <2>1, <2>2
  <2>4. QED BY <1>0, <2>3
\* Tree t becomes u, and the free claim c may get a task.
<1>2. ASSUME NEW t \in Trees, NEW u, tree' = [tree EXCEPT ![t] = u], NEW c \in Claims,
             slot[c].phase = "free",
             \A d \in Claims \ {c} : slot'[d] = slot[d],
             Clean(u),
             \A k \in Prompts : u.nodes[k].session # None =>
                /\ u.nodes[k].session \in {tree[t].nodes[j].session : j \in Prompts}
                /\ u.active # tree[t].active => tree[t].active = None,
             LiveIn(slot', c) => /\ slot'[c].status # None
                                 /\ slot'[c].resumes # None =>
                                       /\ slot'[c].resumes \in {tree[t].nodes[j].session : j \in Prompts}
                                       /\ tree[t].active = None
      PROVE  Honest(tree', slot')
  <2>1. tree'[t] = u /\ \A v \in Trees \ {t} : tree'[v] = tree[v]
    BY <1>0, <1>2
  <2>2. \A e \in Claims : slot[e].phase = "done" => slot'[e].phase = "done"
    BY <1>2
  <2>3. \A v \in Trees, k \in Prompts : tree[v].nodes[k].session # None =>
           /\ tree[v].nodes[k].session \in Claims /\ tree[v].nodes[k].session # None
           /\ \/ tree[v].active = tree[v].nodes[k].session
              \/ slot'[tree[v].nodes[k].session].phase = "done"
    BY <1>0, <2>2 DEF Honest, Tree, Node
  <2>4. \A v \in Trees : Clean(tree'[v])
    BY <1>0, <1>2, <2>1 DEF Honest
  <2>5. \A v \in Trees, k \in Prompts : tree'[v].nodes[k].session # None =>
           \/ tree'[v].active = tree'[v].nodes[k].session
           \/ slot'[tree'[v].nodes[k].session].phase = "done"
    <3> SUFFICES ASSUME NEW v \in Trees, NEW k \in Prompts, tree'[v].nodes[k].session # None
                 PROVE  \/ tree'[v].active = tree'[v].nodes[k].session
                        \/ slot'[tree'[v].nodes[k].session].phase = "done"
      OBVIOUS
    <3>1. CASE v = t
      <4>1. PICK j \in Prompts : u.nodes[k].session = tree[t].nodes[j].session
        BY <1>2, <2>1, <3>1
      <4>2. QED BY <1>2, <2>1, <2>3, <3>1, <4>1
    <3>2. CASE v # t
      BY <2>1, <2>3, <3>2
    <3>3. QED BY <3>1, <3>2
  <2>6. ASSUME NEW d \in Claims, LiveIn(slot', d)
        PROVE  /\ slot'[d].status # None
               /\ slot'[d].resumes # None => slot'[slot'[d].resumes].phase = "done"
    <3>1. CASE d = c
      BY <1>2, <2>3, <2>6, <3>1
    <3>2. CASE d # c
      <4>1. slot'[d] = slot[d] /\ LiveIn(slot, d) /\ slot[d].resumes \in Claims \cup {None}
        BY <1>0, <1>2, <2>6, <3>2 DEF LiveIn, Slot
      <4>2. slot[d].status # None /\ (slot[d].resumes # None => slot[slot[d].resumes].phase = "done")
        BY <1>0, <4>1 DEF Honest
      <4>3. QED BY <2>2, <4>1, <4>2
    <3>3. QED BY <3>1, <3>2
  <2>7. QED BY <2>4, <2>5, <2>6 DEF Honest
<1>3. CASE AdmitRoot(n, s)
  <2>1. PICK t \in Trees, c \in Claims :
        /\ NextTree(t) /\ NextClaim(c)
        /\ tree' = [tree EXCEPT ![t] = EnqueueOrClaim(NewRoot(n, s), n, c)]
        /\ slot' = Launched(t, NewRoot(n, s), n, c, FALSE)
    BY <1>3 DEF AdmitRoot
  <2> DEFINE a == NewRoot(n, s)
             u == EnqueueOrClaim(a, n, c)
  <2>2. /\ a \in Tree /\ a.root = n /\ a.active = None
        /\ a.nodes = [m \in Prompts |->
              IF m = n THEN [NoNode EXCEPT !.state = "pending", !.status = s] ELSE NoNode]
    BY NewRootFields
  <2>3. /\ \A k \in Prompts \ {n} : a.nodes[k] = NoNode
        /\ a.nodes[n] = [NoNode EXCEPT !.state = "pending", !.status = s]
    BY <2>2
  <2>4. /\ a.nodes[n].state = "pending" /\ a.nodes[n].status = s
        /\ a.nodes[n].parent = None /\ a.nodes[n].parentRef = None /\ a.nodes[n].session = None
    BY <2>3 DEF NoNode
  <2>4a. a \in Tree
    BY <2>2
  <2>6. ParentSession(a, n) = None
    BY <2>4, ReferencesAssumption DEF ParentSession, Present
  <2> HIDE DEF a
  <2>5. u = Claim(a, n, c)
    <3>1. MustClaim(a, n) /\ ~MustQueue(a, n)
      BY <2>2, <2>4 DEF MustClaim, MustQueue
    <3>2. QED BY <3>1 DEF EnqueueOrClaim
  <2>7. /\ u.root = n /\ u.nodes[n].state = "in_progress"
        /\ u.nodes[n].parent = None /\ u.nodes[n].parentRef = None
        /\ u.nodes[n].session = None
        /\ \A k \in Prompts \ {n} : u.nodes[k] = NoNode
    <3> HIDE DEF u
    <3>1. /\ \A k \in Prompts \ {n} : u.nodes[k] = a.nodes[k]
          /\ u.nodes[n].state = "in_progress" /\ u.nodes[n].parent = a.nodes[n].parent
          /\ u.nodes[n].parentRef = a.nodes[n].parentRef /\ u.root = a.root
      BY <2>4a, <2>5, ClaimFields
    <3>2. u.nodes[n].session = a.nodes[n].session
      BY <2>4a, <2>5, ReleaseToSession
    <3>3. QED BY <2>2, <2>3, <2>4, <3>1, <3>2
  <2>8. Clean(u) /\ \A k \in Prompts : u.nodes[k].session = None
    <3>1. \A k \in Prompts : u.nodes[k].session = None
      BY <2>7 DEF NoNode
    <3>2. Clean(u)
      BY <2>7 DEF Clean
    <3>3. QED BY <3>1, <3>2
  <2> HIDE DEF u
  <2>9. tree' = [tree EXCEPT ![t] = u] /\ slot' = Launched(t, a, n, c, FALSE)
    BY <2>1 DEF a, u
  <2>10. /\ slot'[c].status = s /\ slot'[c].resumes = None
         /\ \A d \in Claims \ {c} : slot'[d] = slot[d]
    BY <1>0, <2>4, <2>6, <2>9 DEF Launched
  <2>11. slot[c].phase = "free" /\ s # None
    BY <2>1, ReferencesAssumption DEF NextClaim, IsNext
  <2>12. QED BY <1>2, <2>8, <2>9, <2>10, <2>11
<1>4. ASSUME NEW r \in (Prompts \cup sent) \ {n}, AdmitReply(n, s, r)
      PROVE  Honest(tree', slot')
  <2>1. PICK t \in published, parent \in Prompts, c \in Claims :
          /\ NextClaim(c) /\ index[n] = None
          /\ tree' = [tree EXCEPT ![t] = EnqueueOrClaim(AddNode(tree[t], n, s, parent, r), n, c)]
          /\ slot' = IF MustClaim(AddNode(tree[t], n, s, parent, r), n)
                     THEN Launched(t, AddNode(tree[t], n, s, parent, r), n, c, FALSE)
                     ELSE slot
    BY <1>4 DEF AdmitReply
  <2> DEFINE a == AddNode(tree[t], n, s, parent, r)
             u == EnqueueOrClaim(a, n, c)
  <2>2. r \in Refs /\ t \in Trees /\ n \notin AllReferences(tree[t])
    BY <1>0, <2>1, FreshRefs DEF IInv, Refs
  <2>3. n \notin Present(tree[t])
    BY <2>2, ReferencesAssumption DEF AllReferences, OwnedRefs
  <2>4. /\ u.root = tree[t].root
        /\ \A k \in Prompts \ {n} : u.nodes[k] = tree[t].nodes[k]
        /\ u.nodes[n].state # "absent" /\ u.nodes[n].session = None
        /\ MustClaim(a, n) <=> tree[t].active = None
        /\ tree[t].active # None => u.active = tree[t].active
        /\ a.nodes[n].status = s
        /\ ParentSession(a, n) \in {tree[t].nodes[k].session : k \in Prompts} \cup {None}
    BY <1>0, <2>2, <2>3, ReplyFields
  <2>5. /\ tree' = [tree EXCEPT ![t] = u]
        /\ slot' = IF MustClaim(a, n) THEN Launched(t, a, n, c, FALSE) ELSE slot
    BY <2>1
  <2> HIDE DEF a, u
  <2>6. slot[c].phase = "free" /\ s # None
    BY <2>1, ReferencesAssumption DEF NextClaim, IsNext
  <2>7. Clean(u)
    <3>1. Clean(tree[t]) /\ tree[t].root \in Present(tree[t])
      BY <1>0, <2>1, <2>2 DEF Honest, IInv, Consistent
    <3>2. n # tree[t].root
      BY <2>3, <3>1
    <3>3. tree[t].root \in Prompts
      BY <3>1 DEF Present
    <3>4. QED BY <2>4, <3>1, <3>2, <3>3 DEF Clean
  <2>8. \A k \in Prompts : u.nodes[k].session # None =>
                /\ u.nodes[k].session \in {tree[t].nodes[j].session : j \in Prompts}
                /\ u.active # tree[t].active => tree[t].active = None
    BY <2>4
  <2>9. CASE MustClaim(a, n)
    <3>1. slot' = Launched(t, a, n, c, FALSE)
      BY <2>5, <2>9
    <3>2. /\ slot'[c].status = s /\ slot'[c].resumes = ParentSession(a, n)
          /\ \A d \in Claims \ {c} : slot'[d] = slot[d]
      BY <1>0, <2>4, <3>1 DEF Launched
    <3>3. LiveIn(slot', c) => /\ slot'[c].status # None
                              /\ slot'[c].resumes # None =>
                                       /\ slot'[c].resumes \in {tree[t].nodes[j].session : j \in Prompts}
                                       /\ tree[t].active = None
      BY <2>4, <2>6, <2>9, <3>2
    <3>4. QED BY <1>2, <2>2, <2>5, <2>6, <2>7, <2>8, <3>2, <3>3
  <2>10. CASE ~MustClaim(a, n)
    <3>1. slot' = slot /\ ~LiveIn(slot', c)
      BY <2>5, <2>6, <2>10 DEF LiveIn
    <3>2. QED BY <1>2, <2>2, <2>5, <2>6, <2>7, <2>8, <3>1
  <2>11. QED BY <2>9, <2>10
<1>5. ASSUME NEW r \in (Prompts \cup sent) \ {n}, ParentRemoved(n, s, r)
      PROVE  Honest(tree', slot')
  BY <1>0, <1>5 DEF ParentRemoved
<1>6. QED BY <1>1, <1>3, <1>4, <1>5 DEF Admit

-----------------------------------------------------------------------------
(* The specification *)

\* The task of c gives its claim back, after the turns that fail with it were dropped.
Ends(trees, c) ==
    /\ Consistent(trees, published, index, slot)
    /\ \A t \in Trees : Drops(tree[t], trees[t]) /\ Present(trees[t]) = Present(tree[t])
    /\ \A t \in Trees \ {slot[c].tree} : trees[t] = tree[t]
    /\ LiveIn(slot, c) /\ FinishIn(trees, c)
    /\ sent' = sent /\ published' = published

\* Every way out of a task.
LEMMA TaskEnds ==
    ASSUME IInv, NEW c \in Claims, Recover(c) \/ RunnerReturns(c) \/ RunnerRaises(c)
    PROVE  \E trees \in [Trees -> Tree] : Ends(trees, c)
<1>0. tree \in [Trees -> Tree] /\ Consistent(tree, published, index, slot)
  BY ConsistentType DEF IInv
<1>1. CASE Recover(c) \/ RunnerReturns(c)
  <2>1. LiveIn(slot, c) /\ FinishIn(tree, c) /\ sent' = sent /\ published' = published
    BY <1>1 DEF Recover, RunnerReturns, LiveIn
  <2>2. Ends(tree, c)
    BY <1>0, <2>1, DropsReflexive DEF Ends
  <2>3. QED BY <1>0, <2>2
<1>2. CASE RunnerRaises(c)
  <2> DEFINE trees == OnAddressed(c, LAMBDA v : FailClaim(v, c, TRUE))
  <2>1. LiveIn(slot, c) /\ FinishIn(trees, c) /\ sent' = sent /\ published' = published
    BY <1>2 DEF RunnerRaises, LiveIn
  <2>2. trees \in [Trees -> Tree] /\ \A v \in Trees : Halted(tree[v], trees[v])
    BY ResultStep
  <2>3. Consistent(trees, published, index, slot)
    BY <2>2, HaltTasks
  <2>4. \A t \in Trees : Drops(tree[t], trees[t]) /\ Present(trees[t]) = Present(tree[t])
    BY ResultDropsTrees
  <2>5. ASSUME NEW t \in Trees \ {slot[c].tree} PROVE trees[t] = tree[t]
    <3>1. tree[t].active # c
      BY ReferencesAssumption DEF IInv, Consistent
    <3>2. QED BY <3>1 DEF OnAddressed, FailClaim, Holds
  <2> HIDE DEF trees
  <2>6. Ends(trees, c)
    BY <2>1, <2>3, <2>4, <2>5 DEF Ends
  <2>7. QED BY <2>2, <2>6
<1>3. QED BY <1>1, <1>2

\* A step delivers a turn, drops turns, or ends a claim.
LEMMA StepKinds ==
    ASSUME IInv, Next
    PROVE  \/ \E n \in Prompts, s \in Statuses : Admit(n, s)
           \/ Quiet
           \/ \E c \in Claims, trees \in [Trees -> Tree] : Ends(trees, c)
<1>1. CASE Deliver
  BY <1>1 DEF Deliver
<1>2. CASE Command
  BY <1>2, CommandQuiet
<1>3. ASSUME NEW c \in Claims, Task(c)
      PROVE  Quiet \/ \E trees \in [Trees -> Tree] : Ends(trees, c)
  <2>1. CASE Enter(c) \/ StartRunner(c)
    BY <2>1, TaskQuiet
  <2>2. CASE RunnerRecordsSession(c) \/ RunnerCompletes(c) \/ RunnerFails(c)
    BY <2>2, TaskQuiet
  <2>3. CASE Recover(c) \/ RunnerReturns(c) \/ RunnerRaises(c)
    BY <2>3, TaskEnds
  <2>4. QED BY <1>3, <2>1, <2>2, <2>3 DEF Task, TaskStep
<1>4. QED BY <1>1, <1>2, <1>3 DEF Next

\* It begins honestly.
LEMMA InitHonest == Init => JInv
<1> SUFFICES ASSUME Init PROVE Honest(tree, slot) /\ Told(tree, published, slot)
  BY InitConsistent DEF JInv
<1>1. \A t \in Trees : tree[t] = EmptyTree
  BY DEF Init
<1>2. \A n \in Prompts : EmptyTree.nodes[n] = NoNode
  BY DEF EmptyTree
<1>3. EmptyTree.root = None /\ EmptyTree.active = None /\ NoNode.session = None
  BY DEF EmptyTree, NoNode
<1>4. \A c \in Claims : ~LiveIn(slot, c)
  BY DEF Init, FreeSlot, LiveIn
<1>5. Honest(tree, slot)
  BY <1>1, <1>2, <1>3, <1>4 DEF Honest, Clean
<1>6. Told(tree, published, slot)
  BY <1>1, <1>3 DEF Told
<1>7. QED BY <1>5, <1>6

\* A new turn is delivered to a published tree, and the message of the turn that
\* holds its claim, or takes it now, is there.
LEMMA AdmitTold ==
    ASSUME JInv, NEW n \in Prompts, NEW s \in Statuses, Admit(n, s)
    PROVE  Told(tree', published', slot')
<1>0. /\ tree \in [Trees -> Tree] /\ slot \in [Claims -> Slot] /\ published \subseteq Trees
      /\ \A t \in Trees : tree[t] \in Tree /\ Sched(tree[t]) /\ Shape(tree[t])
      /\ Told(tree, published, slot) /\ IInv
  BY ConsistentType DEF JInv, IInv
\* The tasks that hold a claim are left alone.
<1>1. ASSUME NEW t \in Trees, NEW u, tree' = [tree EXCEPT ![t] = u],
             published' = published \cup {t}, NEW c \in Claims, slot[c].phase = "free",
             \A d \in Claims \ {c} : slot'[d] = slot[d],
             u.activeNode \in Present(u)
                \/ (/\ t \in published /\ Present(tree[t]) \subseteq Present(u)
                    /\ u.active = tree[t].active /\ u.activeNode = tree[t].activeNode)
      PROVE  Told(tree', published', slot')
  <2> SUFFICES ASSUME NEW v \in Trees, tree'[v].active # None, Lost(tree', published', v)
               PROVE  slot'[tree'[v].active].cancelled
    BY DEF Told
  <2>1. tree'[v] = IF v = t THEN u ELSE tree[v]
    BY <1>0, <1>1
  <2>2. tree'[v].active = tree[v].active /\ Lost(tree, published, v)
    BY <1>1, <2>1 DEF Lost
  <2>3. slot[tree[v].active].cancelled
    BY <1>0, <2>2 DEF Told
  <2>4. tree[v].active \in Claims \ {c}
    <3>1. tree[v].active \in Claims /\ LiveIn(slot, tree[v].active)
      BY <1>0, <2>2 DEF IInv, Consistent, Tree
    <3>2. QED BY <1>1, <3>1 DEF LiveIn
  <2>5. QED BY <1>1, <2>2, <2>3, <2>4
<1>2. CASE AdmitKnown(n, s)
  <2>1. PICK t \in published, c \in Claims :
        /\ tree' = [tree EXCEPT ![t] = EnqueueOrClaim(tree[t], n, c)]
        /\ slot' = IF MustClaim(tree[t], n)
                   THEN Launched(t, tree[t], n, c, FALSE) ELSE slot
        /\ published' = published
    BY <1>2 DEF AdmitKnown
  <2>2. ~MustClaim(tree[t], n) /\ EnqueueOrClaim(tree[t], n, c) = tree[t]
    BY <1>0, AdmitKnownStutters
  <2>3. tree' = tree /\ slot' = slot
    BY <1>0, <2>1, <2>2
  <2>4. QED BY <1>0, <2>1, <2>3
<1>3. CASE AdmitRoot(n, s)
  <2>1. PICK t \in Trees, c \in Claims :
        /\ NextTree(t) /\ NextClaim(c)
        /\ tree' = [tree EXCEPT ![t] = EnqueueOrClaim(NewRoot(n, s), n, c)]
        /\ slot' = Launched(t, NewRoot(n, s), n, c, FALSE)
        /\ published' = published \cup {t}
    BY <1>3 DEF AdmitRoot
  <2> DEFINE a == NewRoot(n, s)
             u == EnqueueOrClaim(a, n, c)
  <2>2. /\ a \in Tree /\ a.active = None
        /\ a.nodes = [m \in Prompts |->
              IF m = n THEN [NoNode EXCEPT !.state = "pending", !.status = s] ELSE NoNode]
    BY NewRootFields
  <2>3. a \in Tree
    BY <2>2
  <2>4. a.nodes[n].state = "pending"
    BY <2>2 DEF NoNode
  <2> HIDE DEF a
  <2>5. u = Claim(a, n, c)
    <3>1. MustClaim(a, n) /\ ~MustQueue(a, n)
      BY <2>2, <2>4 DEF MustClaim, MustQueue
    <3>2. QED BY <3>1 DEF EnqueueOrClaim
  <2>6. u.nodes[n].state = "in_progress" /\ u.activeNode = n
    BY <2>3, <2>5, ClaimFields
  <2>7. u.activeNode \in Present(u)
    BY <2>6 DEF Present
  <2>8. tree' = [tree EXCEPT ![t] = u] /\ slot' = Launched(t, a, n, c, FALSE)
    BY <2>1 DEF a
  <2> HIDE DEF u
  <2>9. slot[c].phase = "free" /\ \A d \in Claims \ {c} : slot'[d] = slot[d]
    BY <1>0, <2>1, <2>8 DEF Launched, NextClaim, IsNext
  <2>10. QED BY <1>1, <2>1, <2>7, <2>8, <2>9
<1>4. ASSUME NEW r \in (Prompts \cup sent) \ {n}, AdmitReply(n, s, r)
      PROVE  Told(tree', published', slot')
  <2>1. PICK t \in published, parent \in Prompts, c \in Claims :
          /\ NextClaim(c) /\ index[n] = None /\ published' = published
          /\ tree' = [tree EXCEPT ![t] = EnqueueOrClaim(AddNode(tree[t], n, s, parent, r), n, c)]
          /\ slot' = IF MustClaim(AddNode(tree[t], n, s, parent, r), n)
                     THEN Launched(t, AddNode(tree[t], n, s, parent, r), n, c, FALSE)
                     ELSE slot
    BY <1>4 DEF AdmitReply
  <2> DEFINE a == AddNode(tree[t], n, s, parent, r)
             u == EnqueueOrClaim(a, n, c)
  <2>2. r \in Refs /\ t \in Trees /\ n \notin AllReferences(tree[t])
    BY <1>0, <2>1, FreshRefs DEF IInv, Refs
  <2>3. n \notin Present(tree[t])
    BY <2>2, ReferencesAssumption DEF AllReferences, OwnedRefs
  <2>4. /\ \A k \in Prompts \ {n} : u.nodes[k] = tree[t].nodes[k]
        /\ u.nodes[n].state # "absent"
        /\ tree[t].active = None => u.activeNode = n
        /\ tree[t].active # None => u.active = tree[t].active /\ u.activeNode = tree[t].activeNode
    BY <1>0, <2>2, <2>3, ReplyFields
  <2>5. /\ tree' = [tree EXCEPT ![t] = u]
        /\ slot' = IF MustClaim(a, n) THEN Launched(t, a, n, c, FALSE) ELSE slot
    BY <2>1
  <2> HIDE DEF a, u
  <2>6. slot[c].phase = "free" /\ \A d \in Claims \ {c} : slot'[d] = slot[d]
    BY <1>0, <2>1, <2>5 DEF Launched, NextClaim, IsNext
  <2>7. Present(tree[t]) \subseteq Present(u) /\ n \in Present(u)
    BY <2>4 DEF Present
  <2>8. published' = published \cup {t}
    BY <2>1
  <2>9. u.activeNode \in Present(u)
          \/ (/\ t \in published /\ Present(tree[t]) \subseteq Present(u)
              /\ u.active = tree[t].active /\ u.activeNode = tree[t].activeNode)
    BY <2>4, <2>7
  <2>10. QED BY <1>1, <2>2, <2>5, <2>6, <2>8, <2>9
<1>5. ASSUME NEW r \in (Prompts \cup sent) \ {n}, ParentRemoved(n, s, r)
      PROVE  Told(tree', published', slot')
  BY <1>0, <1>5 DEF ParentRemoved
<1>6. QED BY <1>2, <1>3, <1>4, <1>5 DEF Admit

\* A step that only drops turns tells whoever loses a message.
LEMMA QuietTold ==
    ASSUME JInv, Quiet
    PROVE  Told(tree', published', slot')
<1> SUFFICES ASSUME NEW t \in Trees, tree'[t].active # None, Lost(tree', published', t)
             PROVE  slot'[tree'[t].active].cancelled
  BY DEF Told
<1>1. tree'[t].active = tree[t].active /\ tree[t].active \in Claims
  BY ConsistentType DEF JInv, IInv, Quiet, Drops, Tree
<1>2. Lost(tree, published, t) \/ slot'[tree[t].active].cancelled
  BY <1>1 DEF Quiet, Tells
<1>3. Lost(tree, published, t) => slot[tree[t].active].cancelled
  BY <1>1 DEF JInv, Told
<1>4. QED BY <1>1, <1>2, <1>3 DEF Quiet, SameTasks

\* A claim that ends is followed by one for a message that is there.
LEMMA EndsTold ==
    ASSUME JInv, NEW c \in Claims, NEW trees \in [Trees -> Tree], Ends(trees, c)
    PROVE  Told(tree', published', slot')
<1> DEFINE t == slot[c].tree
<1>1. /\ t \in Trees /\ trees[t] \in Tree /\ trees[t].active = c
      /\ \/ /\ Waiting(trees[t]) = {}
            /\ tree' = [trees EXCEPT ![t] = Release(trees[t])]
            /\ slot' = [slot EXCEPT ![c] = DoneSlot]
         \/ \E n \in Prompts, d \in Claims :
              /\ NextInLine(trees[t], n) /\ ~LiveIn(slot, d) /\ d # c
              /\ slot[d].phase = "free"
              /\ tree' = [trees EXCEPT ![t] = ReleaseTo(trees[t], n, d)]
              /\ slot' = [Launched(t, trees[t], n, d, TRUE) EXCEPT ![c] = DoneSlot]
  <2>1. Consistent(trees, published, index, slot) /\ LiveIn(slot, c) /\ FinishIn(trees, c)
    BY DEF Ends
  <2>2. QED BY <2>1, FinishCases
<1>2. slot \in [Claims -> Slot] /\ published' = published
  BY ConsistentType DEF JInv, IInv, Ends
\* The other trees keep their tasks.
<1>3. ASSUME NEW v \in Trees \ {t}, tree'[v] = trees[v],
             tree'[v].active # None, Lost(tree', published', v),
             \A e \in Claims : LiveIn(slot, e) /\ e # c => slot'[e] = slot[e]
      PROVE  slot'[tree'[v].active].cancelled
  <2>1. tree'[v].active = tree[v].active /\ Lost(tree, published, v)
    BY <1>2, <1>3 DEF Ends, Drops, Lost
  <2>2. slot[tree[v].active].cancelled
    BY <1>3, <2>1 DEF JInv, Told
  <2>3. tree[v].active \in Claims /\ LiveIn(slot, tree[v].active) /\ tree[v].active # c
    BY <1>3, <2>1 DEF JInv, IInv, Consistent, Tree
  <2>4. QED BY <1>3, <2>1, <2>2, <2>3
<1>4. CASE /\ tree' = [trees EXCEPT ![t] = Release(trees[t])]
           /\ slot' = [slot EXCEPT ![c] = DoneSlot]
  <2>1. Release(trees[t]).active = None
    BY <1>1, ReleaseFields
  <2>2. tree'[t].active = None /\ \A v \in Trees \ {t} : tree'[v] = trees[v]
    BY <1>1, <1>4, <2>1
  <2>3. \A e \in Claims : LiveIn(slot, e) /\ e # c => slot'[e] = slot[e]
    BY <1>2, <1>4
  <2> HIDE DEF t
  <2>4. QED BY <1>3, <2>2, <2>3 DEF Told
<1>5. ASSUME NEW n \in Prompts, NEW d \in Claims,
             NextInLine(trees[t], n), d # c, ~LiveIn(slot, d),
             tree' = [trees EXCEPT ![t] = ReleaseTo(trees[t], n, d)],
             slot' = [Launched(t, trees[t], n, d, TRUE) EXCEPT ![c] = DoneSlot]
      PROVE  Told(tree', published', slot')
  <2> DEFINE u == ReleaseTo(trees[t], n, d)
  <2>1. u.nodes[n].state = "in_progress" /\ u.activeNode = n
    BY <1>1, ReleaseToFields
  <2> HIDE DEF u
  <2>2. u.activeNode \in Present(u)
    BY <2>1 DEF Present
  <2>3. tree'[t] = u /\ \A v \in Trees \ {t} : tree'[v] = trees[v]
    BY <1>1, <1>5 DEF u
  <2>4. \A e \in Claims : LiveIn(slot, e) /\ e # c => slot'[e] = slot[e]
    BY <1>2, <1>5 DEF Launched
  <2>5. t \in published
    <3>1. Queued(trees[t]) # {}
      BY <1>5 DEF NextInLine, Waiting
    <3>2. QED BY <1>1, <3>1 DEF Ends, Consistent
  <2> HIDE DEF t
  <2>6. QED BY <1>2, <1>3, <2>2, <2>3, <2>4, <2>5 DEF Told, Lost
<1>6. QED BY <1>1, <1>4, <1>5

\* And every step keeps it so.
THEOREM NextHonest == JInv /\ [Next]_vars => JInv'
<1> SUFFICES ASSUME JInv, [Next]_vars PROVE JInv'
  OBVIOUS
<1>0. /\ IInv /\ IInv' /\ Honest(tree, slot) /\ Told(tree, published, slot)
      /\ tree \in [Trees -> Tree] /\ slot \in [Claims -> Slot]
  BY NextConsistent, ConsistentType DEF JInv, IInv
<1>1. CASE UNCHANGED vars
  BY <1>0, <1>1 DEF vars, JInv
<1>2. ASSUME NEW n \in Prompts, NEW s \in Statuses, Admit(n, s)
      PROVE  JInv'
  BY <1>0, <1>2, AdmitHonest, AdmitTold DEF JInv
<1>3. CASE Quiet
  <2>1. Honest(tree', slot')
    BY <1>0, <1>3, DropsHonest DEF Quiet
  <2>2. QED BY <1>0, <1>3, <2>1, QuietTold DEF JInv
<1>4. ASSUME NEW c \in Claims, NEW trees \in [Trees -> Tree], Ends(trees, c)
      PROVE  JInv'
  <2>1. SameTasks(slot, slot)
    BY DEF SameTasks
  <2>2. Honest(trees, slot)
    BY <1>0, <1>4, <2>1, DropsHonest DEF Ends
  <2>3. Honest(tree', slot')
    BY <1>4, <2>2, FinishHonest DEF Ends
  <2>4. QED BY <1>0, <1>4, <2>3, EndsTold DEF JInv
<1>5. QED BY <1>0, <1>1, <1>2, <1>3, <1>4, StepKinds

\* Hence it holds of every behaviour.
THEOREM Honesty == Spec => []JInv
BY InitHonest, NextHonest, PTL DEF Spec

\* A turn never resumes a session whose process may still be running: the session of
\* a node is written by the task that holds the claim of its tree, and a claim is only
\* taken from a tree nobody holds, or from the task that gives it up in that step.
THEOREM SessionsAreNotForked == Spec => []ResumedSessionIsClosed
<1>1. JInv => ResumedSessionIsClosed
  BY DEF JInv, Honest, ResumedSessionIsClosed, Live, LiveIn
<1>2. QED BY <1>1, Honesty, PTL

-----------------------------------------------------------------------------
(* Restarts *)

\* Loading what was stored of a tree gives its nodes back.
LEMMA LoadedNodes ==
    ASSUME NEW t \in Tree, Shape(t), Clean(t), t.root \in Present(t),
           NEW u, u = LoadedTree(SnapshotOf(t))
    PROVE  /\ u.nodes = t.nodes /\ u.root = t.root
           /\ SnapshotOf(t).root = t.root
           /\ DOMAIN SnapshotOf(t).nodes = Present(t)
           /\ \A n \in Present(t) : SnapshotOf(t).nodes[n] = t.nodes[n]
<1> DEFINE s == SnapshotOf(t)
<1>1. /\ s.root = t.root /\ DOMAIN s.nodes = Present(t)
      /\ \A n \in Present(t) : s.nodes[n] = t.nodes[n]
  BY DEF SnapshotOf, Stored
<1> HIDE DEF s
<1>2. u.root = t.root
  BY <1>1 DEF LoadedTree, EmptyTree, s
<1>3. u.nodes = [n \in Prompts |-> IF n \in Present(t) THEN Loaded(t.nodes[n]) ELSE NoNode]
  <2>1. u.nodes = [n \in Prompts |-> IF n \in DOMAIN s.nodes THEN Loaded(s.nodes[n]) ELSE NoNode]
    BY DEF LoadedTree, EmptyTree, s
  <2>2. QED BY <1>1, <2>1
<1>4. ASSUME NEW n \in Present(t) PROVE Loaded(t.nodes[n]) = t.nodes[n]
  <2>1. n \in Prompts /\ t.nodes[n] \in Node
    BY DEF Tree, Present
  <2>2. t.nodes[n].parentRef = None => t.nodes[n].parent = None
    <3>1. CASE n = t.root
      BY <2>1, <3>1, ReferencesAssumption DEF Clean
    <3>2. CASE n # t.root
      BY <3>2 DEF Shape, Owns, OwnedRefs
    <3>3. QED BY <3>1, <3>2
  <2>3. QED BY <2>1, <2>2 DEF Loaded, Node
<1>5. u.nodes = t.nodes
  <2>1. \A n \in Prompts : u.nodes[n] = t.nodes[n]
    BY <1>3, <1>4 DEF Clean, Present
  <2>2. QED BY <1>3, <2>1 DEF Tree
<1>6. QED BY <1>1, <1>2, <1>5 DEF s

\* Lookups only read the nodes.
LEMMA SameNodes ==
    ASSUME NEW t, NEW u, u.nodes = t.nodes
    PROVE  /\ Present(u) = Present(t)
           /\ \A n \in Prompts : OwnedRefs(u, n) = OwnedRefs(t, n)
           /\ \A n \in Prompts : Descendants(u, n) = Descendants(t, n)
           /\ \A n, r : Owns(u, n, r) <=> Owns(t, n, r)
           /\ \A S : InState(u, S) = InState(t, S)
           /\ \A S : MarkError(u, S) = MarkError(t, S)
BY DEF Present, OwnedRefs, Descendants, Owns, InState, MarkError

\* A tree hangs together by its parents as it does by its references.
LEMMA AllDescend ==
    ASSUME NEW t \in Tree, Shape(t), t.root \in Present(t)
    PROVE  Descendants(t, t.root) = Present(t)
<1> SUFFICES ASSUME NEW S \in SUBSET Present(t),
                    \A k \in Present(t) : k = t.root \/ t.nodes[k].parent \in S => k \in S
             PROVE  S = Present(t)
  BY DEF Descendants
<1>1. t.root \in S
  OBVIOUS
<1>2. Closed(t, S)
  <2> SUFFICES ASSUME NEW n \in Present(t), NEW k \in S, n # t.root,
                      t.nodes[n].parentRef \in OwnedRefs(t, k)
               PROVE  n \in S
    BY <1>1 DEF Closed
  <2> DEFINE p == t.nodes[n].parent
  <2>1. p \in Present(t) /\ t.nodes[n].parentRef \in OwnedRefs(t, p)
    BY DEF Shape, Owns
  <2>2. k = p
    <3>1. k \in Present(t) /\ k \in Prompts /\ p \in Prompts /\ Prompts \cap Statuses = {}
          /\ None \notin Prompts
      BY <2>1, ReferencesAssumption DEF Present
    <3>2. t.nodes[k].status \in Statuses \cup {None} /\ t.nodes[p].status \in Statuses \cup {None}
      BY <3>1 DEF Tree, Node
    <3>3. k # p /\ t.nodes[k].status # None => t.nodes[k].status # t.nodes[p].status
      BY <2>1, <3>1 DEF Shape
    <3>4. QED BY <2>1, <3>1, <3>2, <3>3 DEF OwnedRefs
  <2>3. QED BY <2>2
<1>3. QED BY <1>1, <1>2 DEF Shape

\* What is stored of a published tree is accepted, and restored as it was but for
\* the turns that were running or waiting.
LEMMA SnapshotAccepted ==
    ASSUME NEW t \in Tree, Sched(t), Shape(t), Clean(t), t.root \in Present(t)
    PROVE  /\ Accepted(SnapshotOf(t))
           /\ LookupIds(SnapshotOf(t)) = AllReferences(t)
           /\ \A n \in Prompts :
                 Restored(SnapshotOf(t)).nodes[n] =
                     [t.nodes[n] EXCEPT !.state = IF @ \in Runnable THEN "error" ELSE @]
<1> DEFINE s == SnapshotOf(t)
           u == LoadedTree(s)
<1>1. /\ u.nodes = t.nodes /\ u.root = t.root /\ s.root = t.root
      /\ DOMAIN s.nodes = Present(t)
      /\ \A n \in Present(t) : s.nodes[n] = t.nodes[n]
  BY LoadedNodes
<1>2. /\ Present(u) = Present(t)
      /\ \A n \in Prompts : OwnedRefs(u, n) = OwnedRefs(t, n)
      /\ \A n \in Prompts : Descendants(u, n) = Descendants(t, n)
      /\ \A n, r : Owns(u, n, r) <=> Owns(t, n, r)
      /\ InState(u, Runnable) = InState(t, Runnable)
      /\ MarkError(u, InState(t, Runnable)) = MarkError(t, InState(t, Runnable))
  BY <1>1, SameNodes
<1>3. LookupIds(s) = AllReferences(t)
  <2>1. Present(t) \subseteq Prompts /\ None \notin Prompts
    BY ReferencesAssumption DEF Present
  <2>2. LookupIds(s) = Present(t) \cup ({t.nodes[n].status : n \in Present(t)} \ {None})
    BY <1>1 DEF LookupIds
  <2>3. QED BY <2>1, <2>2 DEF AllReferences, OwnedRefs
<1>4. ASSUME NEW n \in Prompts
      PROVE  Restored(s).nodes[n] = [t.nodes[n] EXCEPT !.state = IF @ \in Runnable THEN "error" ELSE @]
  <2>1. Restored(s).nodes = MarkError(u, InState(u, Runnable))
    BY DEF Restored, LoadedTree, EmptyTree
  <2>2. Restored(s).nodes[n] = IF n \in InState(t, Runnable) THEN [t.nodes[n] EXCEPT !.state = "error"]
                                                           ELSE t.nodes[n]
    BY <1>2, <2>1 DEF MarkError
  <2>3. n \in InState(t, Runnable) <=> t.nodes[n].state \in Runnable
    BY DEF InState
  <2>4. t.nodes[n] \in Node
    BY DEF Tree
  <2>5. QED BY <2>2, <2>3, <2>4 DEF Node
<1> HIDE DEF u
<1>5. ASSUME NEW n \in Present(t)
      PROVE  /\ u.nodes[n].state \in Runnable => u.nodes[n].status # None
             /\ \A m \in Present(t) \ {n} : OwnedRefs(u, n) \cap OwnedRefs(u, m) = {}
             /\ IF n = t.root THEN u.nodes[n].parent = None /\ u.nodes[n].parentRef = None
                ELSE /\ u.nodes[n].parent \in Present(t)
                     /\ Owns(u, u.nodes[n].parent, u.nodes[n].parentRef)
  <2>1. n \in Prompts /\ Prompts \cap Statuses = {} /\ None \notin Prompts
    BY ReferencesAssumption DEF Present
  <2>2. u.nodes[n].state \in Runnable => u.nodes[n].status # None
    BY <1>1, <2>1 DEF Sched
  <2>3. ASSUME NEW m \in Present(t) \ {n} PROVE OwnedRefs(u, n) \cap OwnedRefs(u, m) = {}
    <3>1. m \in Prompts /\ OwnedRefs(u, m) = {m, t.nodes[m].status} \ {None}
          /\ OwnedRefs(u, n) = {n, t.nodes[n].status} \ {None}
      BY <1>2, <2>1 DEF Present, OwnedRefs
    <3>2. t.nodes[m].status \in Statuses \cup {None} /\ t.nodes[n].status \in Statuses \cup {None}
      BY <2>1, <3>1 DEF Tree, Node
    <3>3. t.nodes[m].status # None => t.nodes[m].status # t.nodes[n].status
      BY DEF Shape
    <3>4. QED BY <2>1, <3>1, <3>2, <3>3
  <2>4. CASE n = t.root
    BY <1>1, <2>1, <2>2, <2>3, <2>4 DEF Clean
  <2>5. CASE n # t.root
    <3>1. Owns(t, t.nodes[n].parent, t.nodes[n].parentRef)
      BY <2>5 DEF Shape
    <3>2. QED BY <1>1, <1>2, <2>2, <2>3, <2>5, <3>1 DEF Owns
  <2>6. QED BY <2>4, <2>5
<1>6. Descendants(u, t.root) = Present(t)
  BY <1>2, AllDescend DEF Present
<1>7. Accepted(s)
  BY <1>1, <1>5, <1>6 DEF Accepted, u
<1>8. QED BY <1>3, <1>4, <1>7

\* Whatever was done to the trees, a restart finds every conversation again: none is
\* refused or left out, every reply is where it was and the index names the same
\* messages.
THEOREM RestartsLoseNothing == Spec => []RestartKeepsEveryTree
<1>1. ASSUME JInv PROVE RestartKeepsEveryTree
  <2>1. \A t \in published : /\ t \in Trees /\ tree[t] \in Tree
                             /\ Sched(tree[t]) /\ Shape(tree[t]) /\ Clean(tree[t])
                             /\ tree[t].root \in Present(tree[t])
    BY <1>1 DEF JInv, IInv, Consistent, Honest
  <2>2. \A t \in published :
           /\ Accepted(SnapshotOf(tree[t]))
           /\ LookupIds(SnapshotOf(tree[t])) = AllReferences(tree[t])
           /\ \A n \in Prompts :
                 Restored(SnapshotOf(tree[t])).nodes[n] =
                     [tree[t].nodes[n] EXCEPT !.state = IF @ \in Runnable THEN "error" ELSE @]
    BY <2>1, SnapshotAccepted
  <2>3. \A t \in published : AllReferences(tree[t]) = {r \in Refs : index[r] = t}
    <3> SUFFICES ASSUME NEW t \in published
                 PROVE  AllReferences(tree[t]) = {r \in Refs : index[r] = t}
      OBVIOUS
    <3>1. \A n \in Present(tree[t]) : n \in Prompts /\ tree[t].nodes[n].status \in Statuses \cup {None}
      BY <2>1 DEF Present, Tree, Node
    <3>2. AllReferences(tree[t]) \subseteq Refs
      BY <3>1 DEF AllReferences, OwnedRefs, Refs
    <3>3. \A r \in Refs : index[r] = t <=> r \in AllReferences(tree[t])
      BY <1>1, <2>1 DEF JInv, IInv, Consistent
    <3>4. QED BY <3>2, <3>3
  <2>4. Registered({SnapshotOf(tree[t]) : t \in published})
    <3> SUFFICES ASSUME NEW t \in published, NEW v \in published,
                        SnapshotOf(tree[t]) # SnapshotOf(tree[v])
                 PROVE  LookupIds(SnapshotOf(tree[t])) \cap LookupIds(SnapshotOf(tree[v])) = {}
      BY DEF Registered
    <3>1. t # v
      OBVIOUS
    <3>2. LookupIds(SnapshotOf(tree[t])) = {r \in Refs : index[r] = t}
          /\ LookupIds(SnapshotOf(tree[v])) = {r \in Refs : index[r] = v}
      BY <2>2, <2>3
    <3>3. QED BY <3>1, <3>2
  <2>5. QED BY <2>2, <2>3, <2>4 DEF RestartKeepsEveryTree
<1>2. QED BY <1>1, Honesty, PTL

-----------------------------------------------------------------------------
(* Global /stop *)

\* When no active prompt has lost its status message, /stop reaches everything: each
\* published tree is drained, and every task is told, also the ones whose tree was
\* cleared before: they were told then.
THEOREM StopReachesEverything == Spec => StopAllDrainsWhenStatusesLive
<1>1. ASSUME JInv, StopAll, Failing(published) = {}
      PROVE  /\ \A t \in published : InState(tree'[t], Runnable) = {}
             /\ \A c \in Claims : Live(c) => slot'[c].cancelled
  <2>1. published \in SUBSET Trees /\ IInv /\ Told(tree, published, slot)
    BY <1>1, ConsistentType DEF JInv, IInv
  <2>2. Cancelled(published) = published
    BY <1>1 DEF Cancelled, Reached
  <2>3. /\ SameTasks(slot, slot')
        /\ \A t \in published : /\ tree'[t] = CancelAll(tree[t])
                                /\ tree[t].active # None => slot'[tree[t].active].cancelled
    BY <1>1, <2>1, <2>2, CancelTreesQuiet DEF StopAll
  <2>4. ASSUME NEW t \in published PROVE InState(tree'[t], Runnable) = {}
    <3>1. tree[t] \in Tree
      BY <2>1, ConsistentType DEF IInv
    <3>2. tree'[t].nodes = MarkError(tree[t], InState(tree[t], Runnable))
      BY <2>3, <3>1 DEF CancelAll, RequestStop, Tree
    <3>3. \A n \in Prompts : tree'[t].nodes[n].state \notin Runnable
      BY <3>1, <3>2 DEF MarkError, InState, Runnable, Tree, Node
    <3>4. QED BY <3>3 DEF InState
  <2>5. ASSUME NEW c \in Claims, Live(c) PROVE slot'[c].cancelled
    <3> DEFINE t == slot[c].tree
    <3>1. t \in Trees /\ tree[t].active = c /\ c # None
      BY <2>1, <2>5, ReferencesAssumption DEF IInv, Consistent, Live, LiveIn
    <3>2. CASE t \in published
      BY <2>3, <3>1, <3>2
    <3>3. CASE t \notin published
      <4>1. slot[c].cancelled
        BY <2>1, <3>1, <3>3 DEF Told, Lost
      <4>2. QED BY <2>3, <4>1 DEF SameTasks
    <3>4. QED BY <3>2, <3>3
  <2>6. QED BY <2>4, <2>5
<1>2. JInv => [StopAll /\ Failing(published) = {} =>
                 /\ \A t \in published : InState(tree'[t], Runnable) = {}
                 /\ \A c \in Claims : Live(c) => slot'[c].cancelled]_vars
  BY <1>1
<1>3. QED BY <1>2, Honesty, PTL DEF StopAllDrainsWhenStatusesLive

-----------------------------------------------------------------------------
(* The executor the trees implement *)

\* The line of a tree names each waiting turn once, with its ticket.
LEMMA LineFields ==
    ASSUME NEW t \in Tree, Sched(t), Shape(t)
    PROVE  /\ DOMAIN StatusLine(t) = {t.nodes[n].status : n \in Queued(t)}
           /\ DOMAIN StatusLine(t) \subseteq Statuses
           /\ \A n \in Queued(t) : StatusLine(t)[t.nodes[n].status] = t.queue[n]
           /\ StatusLine(t) = [x \in DOMAIN StatusLine(t) |-> StatusLine(t)[x]]
<1>1. ASSUME NEW n \in Queued(t)
      PROVE  n \in Present(t) /\ t.nodes[n].status \in Statuses /\ t.nodes[n].status # None
  <2>1. n \in Prompts /\ t.queue[n] > 0 /\ t.nodes[n].state = "pending"
    BY DEF Queued, Sched
  <2>2. t.nodes[n].status # None /\ t.nodes[n].status \in Statuses \cup {None}
    BY <2>1 DEF Sched, Runnable, Tree, Node
  <2>3. QED BY <2>1, <2>2 DEF Present
<1>2. ASSUME NEW n \in Queued(t)
      PROVE  (CHOOSE m \in Queued(t) : t.nodes[m].status = t.nodes[n].status) = n
  <2> DEFINE m == CHOOSE m \in Queued(t) : t.nodes[m].status = t.nodes[n].status
  <2>1. m \in Queued(t) /\ t.nodes[m].status = t.nodes[n].status
    OBVIOUS
  <2> HIDE DEF m
  <2>2. m = n
    BY <1>1, <2>1 DEF Shape
  <2>3. QED BY <2>2 DEF m
<1>3. DOMAIN StatusLine(t) = {t.nodes[n].status : n \in Queued(t)}
  BY DEF StatusLine
<1>4. \A n \in Queued(t) : StatusLine(t)[t.nodes[n].status] = t.queue[n]
  BY <1>2 DEF StatusLine
<1>5. StatusLine(t) = [x \in DOMAIN StatusLine(t) |-> StatusLine(t)[x]]
  BY DEF StatusLine
<1>6. QED BY <1>1, <1>3, <1>4, <1>5

\* Nobody waits: the line is empty.
LEMMA EmptyLine ==
    ASSUME NEW t, Queued(t) = {}
    PROVE  StatusLine(t) = Executor!Empty
<1>1. DOMAIN StatusLine(t) = {} /\ DOMAIN Executor!Empty = {}
  BY DEF StatusLine, Executor!Empty
<1>2. QED BY <1>1 DEF StatusLine, Executor!Empty

\* Dropping turns takes them out of the line.
LEMMA DroppedLine ==
    ASSUME NEW t \in Tree, Sched(t), Shape(t), NEW u \in Tree, Sched(u), Shape(u),
           Drops(t, u)
    PROVE  StatusLine(u) = Executor!Without(StatusLine(t), DOMAIN StatusLine(t) \ DOMAIN StatusLine(u))
<1>1. Queued(u) \subseteq Queued(t)
      /\ \A n \in Queued(u) : u.queue[n] = t.queue[n] /\ u.nodes[n].status = t.nodes[n].status
  BY DEF Queued, Drops
<1>2. /\ DOMAIN StatusLine(u) = {u.nodes[n].status : n \in Queued(u)}
      /\ \A n \in Queued(u) : StatusLine(u)[u.nodes[n].status] = u.queue[n]
      /\ StatusLine(u) = [x \in DOMAIN StatusLine(u) |-> StatusLine(u)[x]]
  BY LineFields
<1>3. /\ DOMAIN StatusLine(t) = {t.nodes[n].status : n \in Queued(t)}
      /\ \A n \in Queued(t) : StatusLine(t)[t.nodes[n].status] = t.queue[n]
  BY LineFields
<1>4. ASSUME NEW x \in DOMAIN StatusLine(u)
      PROVE  x \in DOMAIN StatusLine(t) /\ StatusLine(u)[x] = StatusLine(t)[x]
  <2>1. PICK n \in Queued(u) : x = u.nodes[n].status
    BY <1>2
  <2>2. QED BY <1>1, <1>2, <1>3, <2>1
<1>5. DOMAIN StatusLine(t) \ (DOMAIN StatusLine(t) \ DOMAIN StatusLine(u)) = DOMAIN StatusLine(u)
  BY <1>4
<1>6. QED BY <1>2, <1>4, <1>5 DEF Executor!Without

\* What each tree executes, and who waits in it.
Busy(tr, sl) == [t \in Trees |-> IF tr[t].active = None THEN None ELSE sl[tr[t].active].status]
Lines(tr)    == [t \in Trees |-> StatusLine(tr[t])]

\* The variables and steps of the executor, as the trees see them.
LEMMA Mapped ==
    /\ (sent = {} /\ Lines(tree) = [t \in Trees |-> Executor!Empty]
          /\ Busy(tree, slot) = [t \in Trees |-> None]) => Executor!Init
    /\ (/\ sent' = sent /\ Busy(tree', slot') = Busy(tree, slot)
        /\ \E S \in [Trees -> SUBSET Statuses] :
              Lines(tree') = [t \in Trees |-> Executor!Without(Lines(tree)[t], S[t])])
       => Executor!Withdraw
    /\ \A x \in Statuses :
          (/\ x \notin sent /\ sent' = sent \cup {x}
           /\ Lines(tree') = Lines(tree) /\ Busy(tree', slot') = Busy(tree, slot))
          => Executor!Refuse(x)
    /\ \A x \in Statuses, t \in Trees :
          (/\ x \notin sent /\ sent' = sent \cup {x}
           /\ Busy(tree, slot)[t] = None
           /\ Busy(tree', slot') = [Busy(tree, slot) EXCEPT ![t] = x]
           /\ Lines(tree') = Lines(tree))
          => Executor!Start(t, x)
    /\ \A x \in Statuses, t \in Trees :
          (/\ x \notin sent /\ sent' = sent \cup {x}
           /\ Busy(tree, slot)[t] # None
           /\ x \in DOMAIN Lines(tree')[t]
           /\ Lines(tree') = [Lines(tree) EXCEPT ![t] = Executor!Behind(@, x, Lines(tree')[t][x])]
           /\ \A y \in DOMAIN Lines(tree)[t] : Lines(tree)[t][y] < Lines(tree')[t][x]
           /\ Busy(tree', slot') = Busy(tree, slot))
          => Executor!Wait(t, x)
<1> USE DEF Busy, Lines
<1>1. (sent = {} /\ Lines(tree) = [t \in Trees |-> Executor!Empty]
          /\ Busy(tree, slot) = [t \in Trees |-> None]) => Executor!Init
  BY DEF Executor!Init
<1>2. (/\ sent' = sent /\ Busy(tree', slot') = Busy(tree, slot)
       /\ \E S \in [Trees -> SUBSET Statuses] :
              Lines(tree') = [t \in Trees |-> Executor!Without(Lines(tree)[t], S[t])])
       => Executor!Withdraw
  BY DEF Executor!Withdraw
<1>3. \A x \in Statuses :
          (/\ x \notin sent /\ sent' = sent \cup {x}
           /\ Lines(tree') = Lines(tree) /\ Busy(tree', slot') = Busy(tree, slot))
          => Executor!Refuse(x)
  BY DEF Executor!Refuse
<1>4. \A x \in Statuses, t \in Trees :
          (/\ x \notin sent /\ sent' = sent \cup {x}
           /\ Busy(tree, slot)[t] = None
           /\ Busy(tree', slot') = [Busy(tree, slot) EXCEPT ![t] = x]
           /\ Lines(tree') = Lines(tree))
          => Executor!Start(t, x)
  BY DEF Executor!Start
<1>5. \A x \in Statuses, t \in Trees :
          (/\ x \notin sent /\ sent' = sent \cup {x}
           /\ Busy(tree, slot)[t] # None
           /\ x \in DOMAIN Lines(tree')[t]
           /\ Lines(tree') = [Lines(tree) EXCEPT ![t] = Executor!Behind(@, x, Lines(tree')[t][x])]
           /\ \A y \in DOMAIN Lines(tree)[t] : Lines(tree)[t][y] < Lines(tree')[t][x]
           /\ Busy(tree', slot') = Busy(tree, slot))
          => Executor!Wait(t, x)
  BY DEF Executor!Wait
<1>6. QED BY <1>1, <1>2, <1>3, <1>4, <1>5

\* At the start nobody waits and nobody runs.
LEMMA InitMapped == Init => Executor!Init
<1> SUFFICES ASSUME Init PROVE Executor!Init
  OBVIOUS
<1>1. \A t \in Trees : tree[t] = EmptyTree
  BY DEF Init
<1>2. Queued(EmptyTree) = {} /\ EmptyTree.active = None
  BY EmptyTreeFields
<1>3. \A t \in Trees : StatusLine(tree[t]) = Executor!Empty
  BY <1>1, <1>2, EmptyLine
<1>4. Lines(tree) = [t \in Trees |-> Executor!Empty]
  BY <1>3 DEF Lines
<1>5. Busy(tree, slot) = [t \in Trees |-> None]
  BY <1>1, <1>2 DEF Busy
<1>6. QED BY <1>4, <1>5, Mapped DEF Init

\* A step that drops turns withdraws them.
LEMMA QuietWithdraws ==
    ASSUME IInv, IInv', Quiet
    PROVE  Executor!Withdraw
<1> DEFINE S == [t \in Trees |-> DOMAIN StatusLine(tree[t]) \ DOMAIN StatusLine(tree'[t])]
<1>1. \A t \in Trees : /\ tree[t] \in Tree /\ Sched(tree[t]) /\ Shape(tree[t])
                        /\ tree'[t] \in Tree /\ Sched(tree'[t]) /\ Shape(tree'[t])
  <2>1. \A t \in Trees : tree[t] \in Tree /\ Sched(tree[t]) /\ Shape(tree[t])
    BY ConsistentType DEF IInv
  <2>2. \A t \in Trees : tree'[t] \in Tree /\ Sched(tree'[t]) /\ Shape(tree'[t])
    BY ConsistentType DEF IInv
  <2>3. QED BY <2>1, <2>2
<1>2. \A t \in Trees : StatusLine(tree'[t]) = Executor!Without(StatusLine(tree[t]), S[t])
  BY <1>1, DroppedLine DEF Quiet
<1>3. S \in [Trees -> SUBSET Statuses]
  BY <1>1, LineFields
<1>4. Lines(tree') = [t \in Trees |-> Executor!Without(Lines(tree)[t], S[t])]
  BY <1>2 DEF Lines
<1>5. Busy(tree', slot') = Busy(tree, slot)
  BY <1>1 DEF Busy, Quiet, Drops, SameTasks, Tree
<1> HIDE DEF S
<1>6. QED BY <1>3, <1>4, <1>5, Mapped DEF Quiet

\* How the executor sees the end of a turn that nobody follows ...
LEMMA MappedEnd ==
    ASSUME NEW t \in Trees, NEW S \in SUBSET Statuses, sent' = sent,
           Busy(tree, slot)[t] # None,
           NEW left, left = Executor!Without(Lines(tree)[t], S), DOMAIN left = {},
           Busy(tree', slot') = [Busy(tree, slot) EXCEPT ![t] = None],
           Lines(tree') = [Lines(tree) EXCEPT ![t] = left]
    PROVE  Executor!Finish(t)
BY DEF Executor!Finish, Busy, Lines

\* ... and of one that is followed by x.
LEMMA MappedHandover ==
    ASSUME NEW t \in Trees, NEW S \in SUBSET Statuses, sent' = sent,
           Busy(tree, slot)[t] # None,
           NEW left, left = Executor!Without(Lines(tree)[t], S), NEW x \in DOMAIN left,
           Executor!IsFirst(left, x),
           Busy(tree', slot') = [Busy(tree, slot) EXCEPT ![t] = x],
           Lines(tree') = [Lines(tree) EXCEPT ![t] = Executor!Without(left, {x})]
    PROVE  Executor!Finish(t)
BY DEF Executor!Finish, Busy, Lines

\* A claim that ends is the end of a turn; the successor is the first in line.
LEMMA EndsFinish ==
    ASSUME JInv, IInv', NEW c \in Claims, NEW trees \in [Trees -> Tree], Ends(trees, c),
           NEW t, t = slot[c].tree
    PROVE  t \in Trees /\ Executor!Finish(t)
<1> DEFINE left == StatusLine(trees[t])
<1>1. /\ t \in Trees /\ trees[t] \in Tree /\ trees[t].active = c
      /\ Sched(trees[t]) /\ Shape(trees[t])
      /\ \/ /\ Waiting(trees[t]) = {}
            /\ tree' = [trees EXCEPT ![t] = Release(trees[t])]
            /\ slot' = [slot EXCEPT ![c] = DoneSlot]
         \/ \E n \in Prompts, d \in Claims :
              /\ NextInLine(trees[t], n) /\ ~LiveIn(slot, d) /\ d # c
              /\ slot[d].phase = "free"
              /\ tree' = [trees EXCEPT ![t] = ReleaseTo(trees[t], n, d)]
              /\ slot' = [Launched(t, trees[t], n, d, TRUE) EXCEPT ![c] = DoneSlot]
  <2> DEFINE v == slot[c].tree
  <2>1. Consistent(trees, published, index, slot) /\ LiveIn(slot, c) /\ FinishIn(trees, c)
    BY DEF Ends
  <2>2. /\ v \in Trees /\ trees[v] \in Tree /\ trees[v].active = c
        /\ Sched(trees[v]) /\ Shape(trees[v])
        /\ \/ /\ Waiting(trees[v]) = {}
              /\ tree' = [trees EXCEPT ![v] = Release(trees[v])]
              /\ slot' = [slot EXCEPT ![c] = DoneSlot]
           \/ \E n \in Prompts, d \in Claims :
                /\ NextInLine(trees[v], n) /\ ~LiveIn(slot, d) /\ d # c
                /\ slot[d].phase = "free"
                /\ tree' = [trees EXCEPT ![v] = ReleaseTo(trees[v], n, d)]
                /\ slot' = [Launched(v, trees[v], n, d, TRUE) EXCEPT ![c] = DoneSlot]
    BY <2>1, FinishCases
  <2>3. v = t
    OBVIOUS
  <2> HIDE DEF v
  <2>4. QED BY <2>2, <2>3
<1>2. /\ tree[t] \in Tree /\ Sched(tree[t]) /\ Shape(tree[t]) /\ Drops(tree[t], trees[t])
      /\ tree \in [Trees -> Tree] /\ slot \in [Claims -> Slot]
      /\ LiveIn(slot, c) /\ sent' = sent
      /\ \A v \in Trees \ {t} : trees[v] = tree[v]
  BY <1>1, ConsistentType DEF JInv, IInv, Ends
<1>2a. \A v \in Trees : tree'[v] \in Tree /\ Sched(tree'[v]) /\ Shape(tree'[v])
  BY ConsistentType DEF IInv
<1>3. PICK S \in SUBSET Statuses : left = Executor!Without(StatusLine(tree[t]), S)
  <2>1. DOMAIN StatusLine(tree[t]) \ DOMAIN left \in SUBSET Statuses
    BY <1>2, LineFields
  <2>2. QED BY <1>1, <1>2, <2>1, DroppedLine
<1>5. tree[t].active = c /\ c # None /\ slot[c].status # None
  BY <1>1, <1>2, ReferencesAssumption DEF Drops, JInv, Honest
<1>6. Waiting(trees[t]) = Queued(trees[t])
  BY <1>1 DEF Waiting, Queued, Sched
<1>7. /\ DOMAIN left = {trees[t].nodes[n].status : n \in Queued(trees[t])}
      /\ \A n \in Queued(trees[t]) : left[trees[t].nodes[n].status] = trees[t].queue[n]
  BY <1>1, LineFields
<1>8. Busy(tree, slot)[t] # None /\ left = Executor!Without(Lines(tree)[t], S)
  BY <1>1, <1>3, <1>5 DEF Busy, Lines
<1> HIDE DEF left
\* The other trees go on.
<1>9. ASSUME NEW u, tree' = [trees EXCEPT ![t] = u], NEW x,
             x = IF u.active = None THEN None ELSE slot'[u.active].status,
             \A e \in Claims : LiveIn(slot, e) /\ e # c => slot'[e] = slot[e]
      PROVE  /\ Busy(tree', slot') = [Busy(tree, slot) EXCEPT ![t] = x]
             /\ Lines(tree') = [Lines(tree) EXCEPT ![t] = StatusLine(u)]
  <2>1. tree'[t] = u /\ \A v \in Trees \ {t} : tree'[v] = tree[v]
    BY <1>1, <1>2, <1>9
  <2>2. ASSUME NEW v \in Trees \ {t}, tree[v].active # None
        PROVE  slot'[tree[v].active] = slot[tree[v].active]
    <3>1. tree[v].active \in Claims /\ LiveIn(slot, tree[v].active) /\ tree[v].active # c
      BY <1>2, <2>2 DEF JInv, IInv, Consistent, Tree
    <3>2. QED BY <1>9, <3>1
  <2>3. \A v \in Trees : Busy(tree', slot')[v] = IF v = t THEN x ELSE Busy(tree, slot)[v]
    BY <1>9, <2>1, <2>2 DEF Busy
  <2>4. Busy(tree', slot') = [Busy(tree, slot) EXCEPT ![t] = x]
    BY <2>3 DEF Busy
  <2>5. Lines(tree') = [Lines(tree) EXCEPT ![t] = StatusLine(u)]
    BY <2>1 DEF Lines
  <2>6. QED BY <2>4, <2>5
<1>10. CASE /\ Waiting(trees[t]) = {}
            /\ tree' = [trees EXCEPT ![t] = Release(trees[t])]
            /\ slot' = [slot EXCEPT ![c] = DoneSlot]
  <2> DEFINE u == Release(trees[t])
  <2>1. u.active = None /\ u.queue = NoQueue
    BY <1>1, ReleaseFields
  <2>2. tree' = [trees EXCEPT ![t] = u]
    BY <1>10
  <2> HIDE DEF u
  <2>3. Queued(u) = {} /\ Queued(trees[t]) = {}
    BY <1>6, <1>10, <2>1 DEF Queued, NoQueue
  <2>4. StatusLine(u) = left /\ DOMAIN left = {}
    BY <1>7, <2>3, EmptyLine DEF left
  <2>5. \A e \in Claims : LiveIn(slot, e) /\ e # c => slot'[e] = slot[e]
    BY <1>2, <1>10
  <2>6. /\ Busy(tree', slot') = [Busy(tree, slot) EXCEPT ![t] = None]
        /\ Lines(tree') = [Lines(tree) EXCEPT ![t] = left]
    BY <1>9, <2>1, <2>2, <2>4, <2>5
  <2>7. t \in Trees /\ sent' = sent
    BY <1>1, <1>2
  <2>8. QED BY <1>8, <2>4, <2>6, <2>7, MappedEnd
<1>11. ASSUME NEW n \in Prompts, NEW d \in Claims,
              NextInLine(trees[t], n), ~LiveIn(slot, d), d # c,
              tree' = [trees EXCEPT ![t] = ReleaseTo(trees[t], n, d)],
              slot' = [Launched(t, trees[t], n, d, TRUE) EXCEPT ![c] = DoneSlot]
       PROVE  Executor!Finish(t)
  <2> DEFINE u == ReleaseTo(trees[t], n, d)
             x == trees[t].nodes[n].status
  <2>1. /\ \A k \in Prompts : u.nodes[k].status = trees[t].nodes[k].status
        /\ \A k \in Prompts :
              u.queue[k] = IF trees[t].queue[k] <= trees[t].queue[n] THEN 0 ELSE trees[t].queue[k]
        /\ u.active = d
    <3>1. /\ \A k \in Prompts \ {n} : u.nodes[k] = trees[t].nodes[k]
          /\ u.nodes[n].status = trees[t].nodes[n].status
          /\ \A k \in Prompts :
                u.queue[k] = IF trees[t].queue[k] <= trees[t].queue[n] THEN 0 ELSE trees[t].queue[k]
          /\ u.active = d
      BY <1>1, ReleaseToFields
    <3> HIDE DEF u
    <3>2. QED BY <3>1
  <2>2. tree'[t] = u
    BY <1>1, <1>11
  <2>3. u \in Tree /\ Sched(u) /\ Shape(u)
    BY <1>1, <1>2a, <2>2
  <2>4. tree' = [trees EXCEPT ![t] = u]
    BY <1>11
  <2> HIDE DEF u
  <2>5. n \in Queued(trees[t]) /\ \A m \in Queued(trees[t]) : trees[t].queue[n] <= trees[t].queue[m]
    BY <1>6, <1>11 DEF NextInLine
  <2>6. Queued(u) = Queued(trees[t]) \ {n}
        /\ \A k \in Queued(u) : u.queue[k] = trees[t].queue[k]
    <3>1. \A k \in Prompts : trees[t].queue[k] \in Nat
      BY <1>1 DEF Tree
    <3>2. \A k \in Prompts : k # n /\ trees[t].queue[k] > 0 => trees[t].queue[k] # trees[t].queue[n]
      BY <1>1, <1>11 DEF Sched
    <3>3. QED BY <2>1, <2>5, <3>1, <3>2 DEF Queued
  <2>7. x \in DOMAIN left /\ Executor!IsFirst(left, x)
    <3>1. left[x] = trees[t].queue[n] /\ x \in DOMAIN left
      BY <1>7, <2>5
    <3>2. ASSUME NEW y \in DOMAIN left PROVE left[x] <= left[y]
      BY <1>7, <2>5, <3>1
    <3>3. QED BY <3>1, <3>2 DEF Executor!IsFirst
  <2>8. StatusLine(u) = Executor!Without(left, {x})
    <3>1. /\ DOMAIN StatusLine(u) = {u.nodes[k].status : k \in Queued(u)}
          /\ \A k \in Queued(u) : StatusLine(u)[u.nodes[k].status] = u.queue[k]
          /\ StatusLine(u) = [y \in DOMAIN StatusLine(u) |-> StatusLine(u)[y]]
      BY <2>3, LineFields
    <3>2. \A k \in Queued(u) : u.nodes[k].status = trees[t].nodes[k].status
      BY <2>1 DEF Queued
    <3>3. \A k \in Queued(trees[t]) : k # n => trees[t].nodes[k].status # x
      <4>1. \A k \in Queued(trees[t]) : k \in Present(trees[t]) /\ trees[t].nodes[k].status # None
        BY <1>1 DEF Queued, Present, Sched, Runnable
      <4>2. QED BY <1>1, <2>5, <4>1 DEF Shape
    <3>4. DOMAIN StatusLine(u) = DOMAIN left \ {x}
      <4>1. DOMAIN StatusLine(u) = {trees[t].nodes[k].status : k \in Queued(trees[t]) \ {n}}
        BY <2>6, <3>1, <3>2
      <4> HIDE DEF x
      <4>2. DOMAIN StatusLine(u) \subseteq DOMAIN left \ {x}
        BY <1>7, <3>3, <4>1
      <4>3. DOMAIN left \ {x} \subseteq DOMAIN StatusLine(u)
        BY <1>7, <4>1 DEF x
      <4>4. QED BY <4>2, <4>3
    <3>5. ASSUME NEW y \in DOMAIN StatusLine(u) PROVE StatusLine(u)[y] = left[y]
      <4>1. PICK k \in Queued(u) : y = u.nodes[k].status
        BY <3>1
      <4>2. k \in Queued(trees[t]) /\ u.queue[k] = trees[t].queue[k]
        BY <2>6
      <4>3. y = trees[t].nodes[k].status
        BY <3>2, <4>1
      <4>4. StatusLine(u)[y] = u.queue[k]
        BY <3>1, <4>1
      <4>5. left[y] = trees[t].queue[k]
        BY <1>7, <4>2, <4>3
      <4>6. QED BY <4>2, <4>4, <4>5
    <3>6. QED BY <3>1, <3>4, <3>5 DEF Executor!Without
  <2>9. slot'[d].status = x /\ \A e \in Claims : LiveIn(slot, e) /\ e # c => slot'[e] = slot[e]
    BY <1>2, <1>11 DEF Launched
  <2>10. d # None
    BY ReferencesAssumption
  <2> HIDE DEF x
  <2>11. /\ Busy(tree', slot') = [Busy(tree, slot) EXCEPT ![t] = x]
         /\ Lines(tree') = [Lines(tree) EXCEPT ![t] = Executor!Without(left, {x})]
    <3>1. x = IF u.active = None THEN None ELSE slot'[u.active].status
      BY <2>1, <2>9, <2>10
    <3>2. \A e \in Claims : LiveIn(slot, e) /\ e # c => slot'[e] = slot[e]
      BY <2>9
    <3>3. /\ Busy(tree', slot') = [Busy(tree, slot) EXCEPT ![t] = x]
          /\ Lines(tree') = [Lines(tree) EXCEPT ![t] = StatusLine(u)]
      BY <1>9, <2>4, <3>1, <3>2
    <3>4. QED BY <2>8, <3>3
  <2>12. t \in Trees /\ sent' = sent
    BY <1>1, <1>2
  <2>13. QED BY <1>8, <2>7, <2>11, <2>12, MappedHandover
<1>12. QED BY <1>1, <1>10, <1>11

\* A delivery is a turn that starts, waits or is refused.
LEMMA AdmitDelivers ==
    ASSUME JInv, IInv', NEW n \in Prompts, NEW s \in Statuses, Admit(n, s)
    PROVE  Executor!Refuse(s) \/ \E t \in Trees : Executor!Start(t, s) \/ Executor!Wait(t, s)
<1>0. /\ tree \in [Trees -> Tree] /\ slot \in [Claims -> Slot] /\ published \subseteq Trees
      /\ \A t \in Trees : tree[t] \in Tree /\ Sched(tree[t]) /\ Shape(tree[t])
      /\ Honest(tree, slot) /\ IInv
  BY ConsistentType DEF JInv, IInv
<1>0a. \A t \in Trees : tree'[t] \in Tree /\ Sched(tree'[t]) /\ Shape(tree'[t])
  BY ConsistentType DEF IInv
<1>0b. s \notin sent /\ sent' = sent \cup {s} /\ s # None
  BY ReferencesAssumption DEF Admit, NextStatus, IsNext
<1>1. ASSUME tree' = tree, slot' = slot PROVE Executor!Refuse(s)
  <2>1. Lines(tree') = Lines(tree) /\ Busy(tree', slot') = Busy(tree, slot)
    BY <1>1
  <2>2. QED BY <1>0b, <2>1, Mapped
\* One tree changes, and no running task does.
<1>2. ASSUME NEW t \in Trees, NEW u, tree' = [tree EXCEPT ![t] = u],
             \A d \in Claims : LiveIn(slot, d) => slot'[d] = slot[d]
      PROVE  /\ Busy(tree', slot') = [Busy(tree, slot) EXCEPT ![t] =
                                        IF u.active = None THEN None ELSE slot'[u.active].status]
             /\ Lines(tree') = [Lines(tree) EXCEPT ![t] = StatusLine(u)]
  <2>1. tree'[t] = u /\ \A v \in Trees \ {t} : tree'[v] = tree[v]
    BY <1>0, <1>2
  <2>2. ASSUME NEW v \in Trees \ {t}, tree[v].active # None
        PROVE  slot'[tree[v].active] = slot[tree[v].active]
    <3>1. tree[v].active \in Claims /\ LiveIn(slot, tree[v].active)
      BY <1>0, <2>2 DEF IInv, Consistent, Tree
    <3>2. QED BY <1>2, <3>1
  <2>3. \A v \in Trees \ {t} : Busy(tree', slot')[v] = Busy(tree, slot)[v]
    BY <2>1, <2>2 DEF Busy
  <2>4. Busy(tree', slot') = [Busy(tree, slot) EXCEPT ![t] =
                                 IF u.active = None THEN None ELSE slot'[u.active].status]
    BY <2>1, <2>3 DEF Busy
  <2>5. Lines(tree') = [Lines(tree) EXCEPT ![t] = StatusLine(u)]
    BY <2>1 DEF Lines
  <2>6. QED BY <2>4, <2>5
\* A turn that starts leaves the line, which is empty, alone.
<1>3. ASSUME NEW t \in Trees, tree[t].active = None, NEW u, tree' = [tree EXCEPT ![t] = u],
             u.queue = tree[t].queue \/ u.queue = NoQueue,
             NEW c \in Claims, slot[c].phase = "free", u.active = c, slot'[c].status = s,
             \A d \in Claims \ {c} : slot'[d] = slot[d]
      PROVE  Executor!Start(t, s)
  <2>1. Queued(tree[t]) = {}
    BY <1>0, <1>3 DEF Queued, Sched
  <2>2. Queued(u) = {}
    BY <1>3, <2>1 DEF Queued, NoQueue
  <2>3. StatusLine(u) = StatusLine(tree[t])
    BY <2>1, <2>2, EmptyLine
  <2>4. s = IF u.active = None THEN None ELSE slot'[u.active].status
    BY <1>3, ReferencesAssumption
  <2>5. /\ Busy(tree', slot') = [Busy(tree, slot) EXCEPT ![t] = s]
        /\ Lines(tree') = [Lines(tree) EXCEPT ![t] = StatusLine(u)]
    <3>1. /\ Busy(tree', slot') = [Busy(tree, slot) EXCEPT ![t] =
                                      IF u.active = None THEN None ELSE slot'[u.active].status]
          /\ Lines(tree') = [Lines(tree) EXCEPT ![t] = StatusLine(u)]
      <4>1. \A d \in Claims : LiveIn(slot, d) => slot'[d] = slot[d]
        BY <1>3 DEF LiveIn
      <4>2. QED BY <1>2, <1>3, <4>1
    <3>2. QED BY <2>4, <3>1
  <2>6. Lines(tree') = Lines(tree)
    BY <2>3, <2>5 DEF Lines
  <2>7. Busy(tree, slot)[t] = None
    BY <1>3 DEF Busy
  <2>8. QED BY <1>0b, <2>5, <2>6, <2>7, Mapped
<1>4. CASE AdmitKnown(n, s)
  <2>1. PICK t \in published, c \in Claims :
        /\ tree' = [tree EXCEPT ![t] = EnqueueOrClaim(tree[t], n, c)]
        /\ slot' = IF MustClaim(tree[t], n)
                   THEN Launched(t, tree[t], n, c, FALSE) ELSE slot
    BY <1>4 DEF AdmitKnown
  <2>2. ~MustClaim(tree[t], n) /\ EnqueueOrClaim(tree[t], n, c) = tree[t]
    BY <1>0, AdmitKnownStutters
  <2>3. tree' = tree /\ slot' = slot
    BY <1>0, <2>1, <2>2
  <2>4. QED BY <1>1, <2>3
<1>5. CASE AdmitRoot(n, s)
  <2>1. PICK t \in Trees, c \in Claims :
        /\ NextTree(t) /\ NextClaim(c)
        /\ tree' = [tree EXCEPT ![t] = EnqueueOrClaim(NewRoot(n, s), n, c)]
        /\ slot' = Launched(t, NewRoot(n, s), n, c, FALSE)
    BY <1>5 DEF AdmitRoot
  <2> DEFINE a == NewRoot(n, s)
             u == EnqueueOrClaim(a, n, c)
  <2>2. /\ a \in Tree /\ a.active = None
        /\ a.nodes = [m \in Prompts |->
              IF m = n THEN [NoNode EXCEPT !.state = "pending", !.status = s] ELSE NoNode]
    BY NewRootFields
  <2>3. a.queue = NoQueue
    BY DEF NewRoot, EmptyTree
  <2>4. a.nodes[n].state = "pending" /\ a.nodes[n].status = s
    BY <2>2 DEF NoNode
  <2>4a. a \in Tree
    BY <2>2
  <2> HIDE DEF a
  <2>5. u = Claim(a, n, c)
    <3>1. MustClaim(a, n) /\ ~MustQueue(a, n)
      BY <2>2, <2>4 DEF MustClaim, MustQueue
    <3>2. QED BY <3>1 DEF EnqueueOrClaim
  <2>6. u.active = c /\ u.queue = NoQueue
    BY <2>3, <2>4a, <2>5, ClaimFields
  <2>7. tree' = [tree EXCEPT ![t] = u] /\ slot' = Launched(t, a, n, c, FALSE)
    BY <2>1 DEF a
  <2> HIDE DEF u
  <2>8. slot'[c].status = s /\ \A d \in Claims \ {c} : slot'[d] = slot[d]
    BY <1>0, <2>4, <2>7 DEF Launched
  <2>9. slot[c].phase = "free"
    BY <2>1 DEF NextClaim, IsNext
  <2>10. tree[t].active = None
    BY <1>0, <2>1 DEF NextTree, IsNext, Sched
  <2>11. Executor!Start(t, s)
    BY <1>3, <2>6, <2>7, <2>8, <2>9, <2>10
  <2>12. QED BY <2>11
<1>6. ASSUME NEW r \in (Prompts \cup sent) \ {n}, AdmitReply(n, s, r)
      PROVE  \E t \in Trees : Executor!Start(t, s) \/ Executor!Wait(t, s)
  <2>1. PICK t \in published, parent \in Prompts, c \in Claims :
          /\ NextClaim(c) /\ index[n] = None
          /\ tree' = [tree EXCEPT ![t] = EnqueueOrClaim(AddNode(tree[t], n, s, parent, r), n, c)]
          /\ slot' = IF MustClaim(AddNode(tree[t], n, s, parent, r), n)
                     THEN Launched(t, AddNode(tree[t], n, s, parent, r), n, c, FALSE)
                     ELSE slot
    BY <1>6 DEF AdmitReply
  <2> DEFINE a == AddNode(tree[t], n, s, parent, r)
             u == EnqueueOrClaim(a, n, c)
  <2>2. r \in Refs /\ t \in Trees /\ n \notin AllReferences(tree[t])
    BY <1>0, <2>1, FreshRefs DEF IInv, Refs
  <2>3. n \notin Present(tree[t])
    BY <2>2, ReferencesAssumption DEF AllReferences, OwnedRefs
  <2>4. /\ \A k \in Prompts \ {n} : u.nodes[k] = tree[t].nodes[k]
        /\ u.nodes[n].status = s
        /\ MustClaim(a, n) <=> tree[t].active = None
        /\ tree[t].active = None => u.active = c /\ u.queue = tree[t].queue
        /\ tree[t].active # None => /\ u.active = tree[t].active
                                    /\ u.queue[n] = tree[t].tail + 1
                                    /\ \A k \in Prompts \ {n} : u.queue[k] = tree[t].queue[k]
        /\ a.nodes[n].status = s
    BY <1>0, <2>2, <2>3, ReplyFields
  <2>5. /\ tree' = [tree EXCEPT ![t] = u]
        /\ slot' = IF MustClaim(a, n) THEN Launched(t, a, n, c, FALSE) ELSE slot
    BY <2>1
  <2> HIDE DEF a, u
  <2>6. slot[c].phase = "free" /\ \A d \in Claims \ {c} : slot'[d] = slot[d]
    BY <1>0, <2>1, <2>5 DEF Launched, NextClaim, IsNext
  <2>7. CASE tree[t].active = None
    <3>1. slot'[c].status = s
      BY <1>0, <2>4, <2>5, <2>7 DEF Launched
    <3>2. Executor!Start(t, s)
      BY <1>3, <2>2, <2>4, <2>5, <2>6, <2>7, <3>1
    <3>3. QED BY <2>2, <3>2
  <2>8. CASE tree[t].active # None
    <3> DEFINE q == StatusLine(tree[t])
               q1 == StatusLine(u)
    <3>1. /\ tree[t] \in Tree /\ Sched(tree[t]) /\ Shape(tree[t])
          /\ u \in Tree /\ Sched(u) /\ Shape(u) /\ tree'[t] = u
      BY <1>0, <1>0a, <2>2, <2>5
    <3>2. slot' = slot
      BY <2>4, <2>5, <2>8
    <3>3. Busy(tree, slot)[t] # None
      <4>1. tree[t].active \in Claims /\ LiveIn(slot, tree[t].active)
        BY <1>0, <2>2, <2>8, <3>1 DEF IInv, Consistent, Tree
      <4>2. slot[tree[t].active].status # None
        BY <1>0, <4>1 DEF Honest
      <4>3. QED BY <2>2, <2>8, <4>2 DEF Busy
    <3>4. /\ Busy(tree', slot') = Busy(tree, slot)
          /\ Lines(tree') = [Lines(tree) EXCEPT ![t] = q1]
      <4>1. /\ Busy(tree', slot') = [Busy(tree, slot) EXCEPT ![t] =
                                      IF u.active = None THEN None ELSE slot'[u.active].status]
            /\ Lines(tree') = [Lines(tree) EXCEPT ![t] = q1]
        <5>1. \A d \in Claims : LiveIn(slot, d) => slot'[d] = slot[d]
          BY <3>2
        <5>2. QED BY <1>2, <2>2, <2>5, <5>1 DEF q1
      <4>2. (IF u.active = None THEN None ELSE slot'[u.active].status) = Busy(tree, slot)[t]
        BY <2>2, <2>4, <2>8, <3>2 DEF Busy
      <4>3. QED BY <4>1, <4>2 DEF Busy
    <3>5. /\ DOMAIN q = {tree[t].nodes[k].status : k \in Queued(tree[t])}
          /\ \A k \in Queued(tree[t]) : q[tree[t].nodes[k].status] = tree[t].queue[k]
      BY <3>1, LineFields
    <3>6. /\ DOMAIN q1 = {u.nodes[k].status : k \in Queued(u)}
          /\ \A k \in Queued(u) : q1[u.nodes[k].status] = u.queue[k]
          /\ q1 = [x \in DOMAIN q1 |-> q1[x]]
      BY <3>1, LineFields
    <3>7. /\ n \notin Queued(tree[t]) /\ Queued(u) = Queued(tree[t]) \cup {n}
          /\ \A k \in Queued(tree[t]) : /\ u.queue[k] = tree[t].queue[k]
                                         /\ u.nodes[k].status = tree[t].nodes[k].status
                                         /\ tree[t].queue[k] < u.queue[n]
      <4>1. tree[t].tail \in Nat /\ \A k \in Prompts : tree[t].queue[k] \in Nat
        BY <3>1 DEF Tree
      <4>2. \A k \in Prompts : tree[t].queue[k] > 0 => k # n /\ tree[t].queue[k] <= tree[t].tail
        BY <2>3, <3>1 DEF Sched, Present
      <4>3. QED BY <2>4, <2>8, <4>1, <4>2 DEF Queued
    <3> HIDE DEF q, q1
    <3>8. DOMAIN q1 = DOMAIN q \cup {s}
      BY <2>4, <3>5, <3>6, <3>7
    <3>9. s \in DOMAIN q1 /\ q1[s] = u.queue[n]
      BY <2>4, <3>6, <3>7
    <3>10. ASSUME NEW y \in DOMAIN q PROVE q[y] < q1[s] /\ y \in DOMAIN q1 /\ (y # s => q1[y] = q[y])
      <4>1. PICK k \in Queued(tree[t]) : y = tree[t].nodes[k].status
        BY <3>5
      <4>2. q[y] = tree[t].queue[k] /\ y = u.nodes[k].status /\ k \in Queued(u)
        BY <3>5, <3>7, <4>1
      <4>3. q1[y] = u.queue[k]
        BY <3>6, <4>2
      <4>4. QED BY <3>6, <3>7, <3>9, <4>2, <4>3
    <3>11. q1 = Executor!Behind(q, s, q1[s])
      BY <3>6, <3>8, <3>10 DEF Executor!Behind
    <3>12. Lines(tree)[t] = q /\ Lines(tree')[t] = q1
      BY <2>2, <3>1 DEF Lines, q, q1
    <3>13. Lines(tree') = [Lines(tree) EXCEPT ![t] = Executor!Behind(@, s, Lines(tree')[t][s])]
      BY <3>4, <3>11, <3>12
    <3>14. Executor!Wait(t, s)
      BY <1>0b, <2>2, <3>3, <3>4, <3>9, <3>10, <3>12, <3>13, Mapped
    <3>15. QED BY <2>2, <3>14
  <2>9. QED BY <2>7, <2>8
<1>7. ASSUME NEW r \in (Prompts \cup sent) \ {n}, ParentRemoved(n, s, r)
      PROVE  Executor!Refuse(s)
  BY <1>1, <1>7 DEF ParentRemoved
<1>8. QED BY <1>4, <1>5, <1>6, <1>7 DEF Admit

\* The trees, their tasks and the user's commands implement the executor: every step
\* is one of its steps.  One turn at a time in each conversation, first come first
\* served, none twice and none after it was withdrawn.
THEOREM TreesImplementExecutor == Spec => ImplementsExecutor
<1>1. Init => Executor!Init
  BY InitMapped
<1>2. JInv /\ [Next]_vars => [Executor!Next]_Executor!execVars
  <2> SUFFICES ASSUME JInv, [Next]_vars PROVE [Executor!Next]_Executor!execVars
    OBVIOUS
  <2>1. IInv /\ IInv'
    BY NextConsistent DEF JInv
  <2>2. CASE UNCHANGED vars
    BY <2>2 DEF vars, Executor!execVars
  <2>3. ASSUME NEW n \in Prompts, NEW s \in Statuses, Admit(n, s) PROVE Executor!Next
    BY <2>1, <2>3, AdmitDelivers DEF Executor!Next
  <2>4. CASE Quiet
    BY <2>1, <2>4, QuietWithdraws DEF Executor!Next
  <2>5. ASSUME NEW c \in Claims, NEW trees \in [Trees -> Tree], Ends(trees, c)
        PROVE  Executor!Next
    <3>1. PICK t : t = slot[c].tree
      OBVIOUS
    <3>2. t \in Trees /\ Executor!Finish(t)
      BY <2>1, <2>5, <3>1, EndsFinish
    <3>3. QED BY <3>2 DEF Executor!Next
  <2>6. QED BY <2>1, <2>2, <2>3, <2>4, <2>5, StepKinds
<1>3. QED BY <1>1, <1>2, Honesty, PTL DEF Spec, ImplementsExecutor, Executor!Spec
=============================================================================
