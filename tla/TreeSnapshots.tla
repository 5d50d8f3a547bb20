---------------------------- MODULE TreeSnapshots ----------------------------
(***************************************************************************)
(* What the store keeps of the trees and what a restart makes of it        *)
(* (src/codefa/messaging/trees/snapshot.py, MessageTreeGraph.snapshot and  *)
(* from_snapshot, MessageTree.from_snapshot, TreeRepository.from_snapshot).*)
(*                                                                         *)
(* A restart refuses a snapshot that is not a tree, with a warning: the    *)
(* conversation is then gone.  Nothing of what the managers do to a tree   *)
(* may lead there.                                                         *)
(***************************************************************************)
EXTENDS TreeQueueRefinement

\* Deviation, for the mutation runs: the message that was replied to is not stored.
Stored_WithoutReference(node) == [node EXCEPT !.parentRef = None]

\* node_to_snapshot
Stored(node) == node

\* MessageTreeGraph.snapshot, and TreeSnapshot on its way through JSON
SnapshotOf(t) == [root |-> t.root, nodes |-> [n \in Present(t) |-> Stored(t.nodes[n])]]

\* node_from_snapshot: a reply without an exact reference replied to the prompt.
Loaded(data) == [data EXCEPT !.parentRef = IF @ = None THEN data.parent ELSE @]
LoadedTree(s) ==
    [EmptyTree EXCEPT !.root = s.root,
        !.nodes = [n \in Prompts |-> IF n \in DOMAIN s.nodes THEN Loaded(s.nodes[n]) ELSE NoNode]]

\* MessageTreeGraph.from_snapshot: a runnable node has a status message, no message is
\* owned twice, the root has no parent, every other node replied to a message its
\* parent owns, and all hang below the root.
Accepted(s) ==
    LET t == LoadedTree(s)
    IN  /\ s.root \in DOMAIN s.nodes
        /\ \A n \in DOMAIN s.nodes :
              /\ t.nodes[n].state \in Runnable => t.nodes[n].status # None
              /\ \A m \in DOMAIN s.nodes \ {n} : OwnedRefs(t, n) \cap OwnedRefs(t, m) = {}
              /\ IF n = s.root THEN t.nodes[n].parent = None /\ t.nodes[n].parentRef = None
                 ELSE /\ t.nodes[n].parent \in DOMAIN s.nodes
                      /\ Owns(t, t.nodes[n].parent, t.nodes[n].parentRef)
        /\ Descendants(t, s.root) = DOMAIN s.nodes

\* MessageTree.from_snapshot: what was interrupted has failed.
Restored(s) ==
    LET t == LoadedTree(s) IN [t EXCEPT !.nodes = MarkError(t, InState(t, Runnable))]

\* TreeSnapshot.lookup_ids
LookupIds(s) == DOMAIN s.nodes \cup ({s.nodes[n].status : n \in DOMAIN s.nodes} \ {None})

\* TreeRepository.from_snapshot leaves out a tree whose messages another tree owns.
Registered(snapshots) ==
    \A s, u \in snapshots : s # u => LookupIds(s) \cap LookupIds(u) = {}

\* Whatever users, runners and commands have done, a restart finds every conversation
\* again as it was: none is refused or left out, every reply is where it was, the
\* index names the same messages, and only what was running or waiting has failed.
RestartKeepsEveryTree ==
    /\ Registered({SnapshotOf(tree[t]) : t \in published})
    /\ \A t \in published :
          LET s == SnapshotOf(tree[t])
          IN  /\ Accepted(s)
              /\ LookupIds(s) = {r \in Refs : index[r] = t}
              /\ \A n \in Prompts :
                    Restored(s).nodes[n] =
                        [tree[t].nodes[n] EXCEPT !.state = IF @ \in Runnable THEN "error" ELSE @]
=============================================================================
