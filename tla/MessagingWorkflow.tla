-------------------------- MODULE MessagingWorkflow --------------------------
(***************************************************************************)
(* The messaging workflow: turns, /stop, /clear, the startup notice, and   *)
(* what of them survives a restart (src/codefa/messaging/workflow.py,      *)
(* turn_intake.py, commands.py, session/store.py).                         *)
(*                                                                         *)
(* Everything that changes conversation state runs under _state_lock, but  *)
(* a cancellation gives the event loop back while it holds the lock: the   *)
(* transition, the snapshot taken after the drain and the writes that      *)
(* follow are three steps, and the runners and the status messages of      *)
(* other turns go on between them.  Platform I/O runs without the lock.    *)
(*                                                                         *)
(* The conversation trees are the ones of TreeQueueManager, reduced to the *)
(* state and the root of each prompt; a reply-/clear selects a prompt.     *)
(***************************************************************************)
EXTENDS Naturals, FiniteSets

CONSTANTS
    Prompts,    \* prompts, numbered in the order a queue serves them
    Parent,     \* the prompt each one replies to, or None
    Chats,
    ChatOf,     \* the chat of each prompt
    Commands,   \* command messages
    HomeChat,   \* the chat of the commands and of the startup notice
    MaxCrashes, \* bound on the restarts
    Notices,    \* whether the start-up notice is published
    None

\* Prompts come in an order, reply to prompts, and stand in a chat each.
WorkflowAssumption ==
    /\ Prompts \subseteq Nat /\ None \notin Prompts /\ None \notin Commands
    /\ Parent \in [Prompts -> Prompts \cup {None}]
    /\ ChatOf \in [Prompts -> Chats] /\ HomeChat \in Chats

VARIABLES
    stopGen,    \* _stop_generation
    clearGen,   \* _clear_generations
    lock,       \* the command that holds _state_lock across steps, or None
    turn,       \* handle_message of each prompt
    node,       \* the state of each prompt in its tree
    root,       \* the root of the tree a prompt was admitted to
    running,    \* prompts whose runner task is alive
    log,        \* ManagedMessageLog, per chat
    store,      \* SessionStore._conversation
    file,       \* what a restart reads
    visible,    \* messages that exist on the platform
    cmd,        \* the handler of each command
    notice,     \* publish_startup_notice
    crashes,
    past        \* history: prompts stopped, cleared and erased from the file, trees
                \* written while a command held a snapshot of them, and messages whose
                \* deletion failed

vars == <<stopGen, clearGen, lock, turn, node, root, running, log, store, file,
          visible, cmd, notice, crashes, past>>

trees   == <<node, root, running>>
disk    == <<store, file>>
gens    == <<stopGen, clearGen>>
history == <<crashes, past>>

\* Messages on the platform.
Prompt(p)  == <<"prompt", p>>
Status(p)  == <<"status", p>>
Command(c) == <<"command", c>>
Reply(c)   == <<"reply", c>>
Notice     == <<"notice", None>>
ChatOfMessage(m) == IF m[1] \in {"prompt", "status"} THEN ChatOf[m[2]] ELSE HomeChat

Runnable == {"pending", "in_progress"}
Absent   == [p \in Prompts |-> "absent"]
Present  == {p \in Prompts : node[p] # "absent"}
NoTurn   == [phase |-> "new", token |-> None, reply |-> FALSE]
NoCommand == [phase |-> "new", kind |-> None, target |-> None, snap |-> Absent,
              trees |-> {}, ids |-> {}, scopes |-> {}]
NoNotice == [phase |-> "new", token |-> None]

Init ==
    /\ stopGen = 0 /\ clearGen = [ch \in Chats |-> 0]
    /\ lock = None
    /\ turn = [p \in Prompts |-> NoTurn]
    /\ node = Absent /\ root = [p \in Prompts |-> None] /\ running = {}
    /\ log = [ch \in Chats |-> {}]
    /\ store = Absent
    /\ file = [nodes |-> Absent, log |-> [ch \in Chats |-> {}]]
    /\ visible = {}
    /\ cmd = [c \in Commands |-> NoCommand]
    /\ notice = NoNotice
    /\ crashes = 0 /\ past = [stopped |-> {}, cleared |-> {}, erased |-> {}, overtaken |-> {},
                              gaveUp |-> {}]

Record(m)       == [log EXCEPT ![ChatOfMessage(m)] = @ \cup {m}]
Forget(ids)     == [ch \in Chats |-> log[ch] \ ids]
Token(ch)       == <<stopGen, clearGen[ch]>>
Saved(nodes, S) == [p \in Prompts |-> IF root[p] \in S THEN nodes[p] ELSE store[p]]

\* A best-effort deletion: the platform may refuse it, and nobody asks again.
Delete(ids) ==
    \/ visible' = visible \ ids /\ UNCHANGED past
    \/ visible' = visible /\ past' = [past EXCEPT !.gaveUp = @ \cup (ids \cap visible)]

-----------------------------------------------------------------------------
(* A prompt: handle_message, the intake, and the admission *)

Receive(p) ==
    /\ turn[p].phase = "new" /\ lock = None
    /\ Parent[p] # None => turn[Parent[p]].phase # "new"
    /\ turn' = [turn EXCEPT ![p] = [@ EXCEPT !.phase = "received", !.token = Token(ChatOf[p])]]
    /\ visible' = visible \cup {Prompt(p)}
    /\ log' = Record(Prompt(p))
    /\ UNCHANGED <<gens, lock, trees, disk, cmd, notice, history>>

\* resolve_reply: a reply to an unknown message starts a conversation of its own.
Resolve(p) ==
    /\ turn[p].phase = "received"
    /\ turn' = [turn EXCEPT ![p].phase = "resolved",
                            ![p].reply = Parent[p] \in Present]
    /\ UNCHANGED <<gens, lock, trees, log, disk, visible, cmd, notice, history>>

\* The status message goes out, or the platform refuses it and the turn ends.
SendStatus(p) ==
    /\ turn[p].phase = "resolved"
    /\ \/ /\ turn' = [turn EXCEPT ![p].phase = "sent"]
          /\ visible' = visible \cup {Status(p)}
       \/ /\ turn' = [turn EXCEPT ![p].phase = "done"]
          /\ UNCHANGED visible
    /\ UNCHANGED <<gens, lock, trees, log, disk, cmd, notice, history>>

RecordStatus(p) ==
    /\ turn[p].phase = "sent"
    /\ turn' = [turn EXCEPT ![p].phase = "recorded"]
    /\ log' = Record(Status(p))
    /\ UNCHANGED <<gens, lock, trees, disk, visible, cmd, notice, history>>

\* Deviation, for the mutation runs: /stop does not void a turn on its way.
IsCurrent_ClearOnly(p) == turn[p].token[2] = clearGen[ChatOf[p]]

IsCurrent(p)    == turn[p].token = Token(ChatOf[p])
ParentGone(p)   == turn[p].reply /\ Parent[p] \notin Present
RootFor(p)      == IF turn[p].reply THEN root[Parent[p]] ELSE p
IdleTree(r)     == \A q \in running : root[q] # r

\* _admit_if_current: admission, launch and snapshot are one step under the lock.
Admit(p) ==
    /\ turn[p].phase = "recorded" /\ lock = None
    /\ IsCurrent(p) /\ ~ParentGone(p)
    /\ LET r == RootFor(p)
           state == IF IdleTree(r) THEN "in_progress" ELSE "pending"
       IN  /\ root' = [root EXCEPT ![p] = r]
           /\ node' = [node EXCEPT ![p] = state]
           /\ running' = IF IdleTree(r) THEN running \cup {p} ELSE running
           /\ store' = [q \in Prompts |-> IF root'[q] = r THEN node'[q] ELSE store[q]]
    /\ turn' = [turn EXCEPT ![p].phase = "done"]
    /\ UNCHANGED <<gens, lock, log, file, visible, cmd, notice, history>>

\* A stop or clear has passed, or the message replied to was cleared meanwhile.
Refuse(p) ==
    /\ turn[p].phase = "recorded" /\ lock = None
    /\ \/ ~IsCurrent(p) /\ turn' = [turn EXCEPT ![p].phase = "stale"]
       \/ /\ IsCurrent(p) /\ ParentGone(p)
          /\ turn' = [turn EXCEPT ![p].phase = "orphaned"]
    /\ UNCHANGED <<gens, lock, trees, log, disk, visible, cmd, notice, history>>

\* _discard_rejected_messages.
Discard(p) ==
    /\ turn[p].phase \in {"stale", "orphaned"}
    /\ LET ids == {Status(p)} \cup IF turn[p].phase = "orphaned" THEN {Prompt(p)} ELSE {}
       IN  Delete(ids) /\ log' = Forget(ids)
    /\ turn' = [turn EXCEPT ![p].phase = "done"]
    /\ UNCHANGED <<gens, lock, trees, disk, cmd, notice, crashes>>

-----------------------------------------------------------------------------
(* The runner of a prompt *)

\* Deviation, for the mutation runs: the snapshot is taken before the result.
RunnerWrites_Early(p) ==
    /\ p \in running /\ node[p] = "in_progress"
    /\ node' = [node EXCEPT ![p] = "completed"]
    /\ store' = Saved(node, {root[p]})
    /\ UNCHANGED <<gens, lock, turn, root, running, log, file, visible, cmd, notice, history>>

\* Nothing is written for a claim that was cancelled or whose prompt is gone; the
\* snapshot of the others is saved in the step that takes it.
RunnerWrites(p) ==
    /\ p \in running /\ node[p] = "in_progress"
    /\ \E state \in {"completed", "error"} :
         node' = [q \in Prompts |->
                    IF q = p THEN state
                    ELSE IF state = "error" /\ Parent[q] = p /\ root[q] = root[p] /\ node[q] = "pending"
                         THEN "error" ELSE node[q]]
    /\ store' = Saved(node', {root[p]})
    /\ past' = [past EXCEPT !.overtaken = @ \cup
                  {r \in {root[p]} : \E c \in Commands : cmd[c].phase = "snapshot" /\ r \in cmd[c].trees}]
    /\ UNCHANGED <<gens, lock, turn, root, running, log, file, visible, cmd, notice, crashes>>

\* The claim is given back; the next prompt of a published tree starts, unsaved.
RunnerEnds(p) ==
    /\ p \in running /\ node[p] # "in_progress"
    /\ LET waiting == {q \in Prompts : root[q] = root[p] /\ node[q] = "pending"}
           next    == {q \in waiting : \A s \in waiting : q <= s}
       IN  /\ running' = (running \ {p}) \cup next
           /\ node' = [q \in Prompts |-> IF q \in next THEN "in_progress" ELSE node[q]]
    /\ UNCHANGED <<gens, lock, turn, root, log, disk, visible, cmd, notice, history>>

-----------------------------------------------------------------------------
(* Commands *)

IsClearChat(k) == k = "clear chat"

Ask(c) ==
    /\ cmd[c].phase = "new" /\ lock = None
    /\ \E kind \in {"stop reply", "stop all", "clear reply", "clear chat"}, p \in Prompts :
         /\ kind \in {"stop reply", "clear reply"} =>
               ChatOf[p] = HomeChat /\ turn[p].phase # "new"
         /\ kind \in {"stop all", "clear chat"} => p = CHOOSE q \in Prompts : TRUE
         /\ cmd' = [cmd EXCEPT ![c] = [@ EXCEPT !.phase = "asked", !.kind = kind, !.target = p]]
         /\ log' = IF IsClearChat(kind) THEN log ELSE Record(Command(c))
    /\ visible' = visible \cup {Command(c)}
    /\ UNCHANGED <<gens, lock, turn, trees, disk, notice, history>>

\* Literal descendants of a prompt within its tree: what every set holds that holds the
\* prompt and the replies to its members.
Above(p, q) ==
    \A S \in SUBSET Prompts :
        p \in S /\ (\A s \in S, r \in Prompts : Parent[r] = s /\ root[r] = root[s] => r \in S) => q \in S
Below(p) == {q \in Present : Above(p, q)}

Settle(S)  == [p \in Prompts |-> IF p \in S /\ node[p] \in Runnable THEN "error" ELSE node[p]]
Detach(S)  == [p \in Prompts |-> IF p \in S THEN "absent" ELSE node[p]]
InChat(ch) == {p \in Present : ChatOf[p] = ch}
Messages(S) == {Prompt(p) : p \in S} \cup {Status(p) : p \in S}

\* The turns of a chat, or of all of them, that were received and are not over.
Received(P) == {p \in P : turn[p].phase # "new"}

\* _finish_owned_operation: the operation keeps the lock to its end, also when its
\* caller is cancelled.
Enter(c, nodes, roots, ids, hit) ==
    /\ lock' = c
    /\ node' = nodes
    /\ cmd' = [cmd EXCEPT ![c].phase = "draining", ![c].trees = roots, ![c].ids = ids,
                          ![c].scopes = {ChatOf[p] : p \in hit}]

\* cancel_node under the manager lock.
StopReply(c) ==
    /\ cmd[c].phase = "asked" /\ cmd[c].kind = "stop reply" /\ lock = None
    /\ LET p == cmd[c].target
           hit == {p} \cap {q \in Present : node[q] \in Runnable}
       IN  /\ Enter(c, Settle({p}), IF p \in Present THEN {root[p]} ELSE {}, {}, hit)
           /\ past' = [past EXCEPT !.stopped = @ \cup hit]
    /\ UNCHANGED <<gens, turn, root, running, log, disk, visible, notice, crashes>>

StopAll(c) ==
    /\ cmd[c].phase = "asked" /\ cmd[c].kind = "stop all" /\ lock = None
    /\ stopGen' = stopGen + 1
    /\ Enter(c, Settle(Present), {root[p] : p \in Present}, {},
             {p \in Present : node[p] \in Runnable})
    /\ past' = [past EXCEPT !.stopped = @ \cup Received(Prompts)]
    /\ UNCHANGED <<clearGen, turn, root, running, log, disk, visible, notice, crashes>>

\* remove_message_subtree: the tree goes with its root.
ClearReply(c) ==
    /\ cmd[c].phase = "asked" /\ cmd[c].kind = "clear reply" /\ lock = None
    /\ LET p == cmd[c].target
           gone == IF p \in Present THEN Below(p) ELSE {}
       IN  /\ Enter(c, Detach(gone), IF p \in Present THEN {root[p]} ELSE {},
                    IF gone = {} THEN {} ELSE Messages(gone) \cup {Command(c)}, {})
           /\ past' = [past EXCEPT !.cleared = @ \cup gone]
    /\ UNCHANGED <<gens, turn, root, running, log, disk, visible, notice, crashes>>

\* Deviation, for the mutation runs: the generation of the chat stays.
ClearChat_SameGeneration(c) ==
    /\ cmd[c].phase = "asked" /\ cmd[c].kind = "clear chat" /\ lock = None
    /\ Enter(c, Detach(InChat(HomeChat)), {},
             log[HomeChat] \cup Messages(InChat(HomeChat)) \cup {Command(c)}, {})
    /\ past' = [past EXCEPT !.cleared = @ \cup {p \in Received(Prompts) : ChatOf[p] = HomeChat}]
    /\ UNCHANGED <<gens, turn, root, running, log, disk, visible, notice, crashes>>

\* The ids are read first; from the new generation on the clear goes one way.
ClearChat(c) ==
    /\ cmd[c].phase = "asked" /\ cmd[c].kind = "clear chat" /\ lock = None
    /\ clearGen' = [clearGen EXCEPT ![HomeChat] = @ + 1]
    /\ Enter(c, Detach(InChat(HomeChat)), {},
             log[HomeChat] \cup Messages(InChat(HomeChat)) \cup {Command(c)}, {})
    /\ past' = [past EXCEPT !.cleared = @ \cup {p \in Received(Prompts) : ChatOf[p] = HomeChat}]
    /\ UNCHANGED <<stopGen, turn, root, running, log, disk, visible, notice, crashes>>

\* _current_snapshot of the trees that are still published, when their cancelled
\* tasks have ended or the wait for them has given up.
Snapshot(c) ==
    /\ cmd[c].phase = "draining"
    /\ cmd' = [cmd EXCEPT ![c].phase = "snapshot", ![c].snap = node]
    /\ UNCHANGED <<gens, lock, turn, trees, log, disk, visible, notice, history>>

Feedback(c) == IF cmd[c].scopes = {HomeChat} THEN "done" ELSE "replying"

\* _apply_cancellation_result, _save_cancellation_snapshots, remove_tree_snapshot:
\* a removed tree has no node left, which is what the snapshot then says.
Apply(c) ==
    /\ cmd[c].phase = "snapshot" /\ ~IsClearChat(cmd[c].kind)
    /\ store' = Saved(cmd[c].snap, cmd[c].trees)
    /\ lock' = None
    /\ cmd' = [cmd EXCEPT ![c].phase =
                 IF cmd[c].kind # "clear reply" THEN Feedback(c)
                 ELSE IF cmd[c].ids = {} THEN "replying" ELSE "deleting"]
    /\ UNCHANGED <<gens, turn, trees, log, file, visible, notice, history>>

\* SessionStore.clear_scope writes at once; when that fails the command is recorded
\* and what it cleared in memory stays cleared.
ClearStore(c) ==
    /\ cmd[c].phase = "snapshot" /\ IsClearChat(cmd[c].kind)
    /\ LET cleared == [p \in Prompts |-> IF ChatOf[p] = HomeChat THEN "absent" ELSE store[p]]
           empty   == [log EXCEPT ![HomeChat] = {}]
       IN  /\ store' = cleared
           /\ \/ /\ log' = empty
                 /\ file' = [nodes |-> cleared, log |-> empty]
                 /\ cmd' = [cmd EXCEPT ![c].phase = "deleting"]
                 /\ past' = [past EXCEPT !.erased =
                               @ \cup {p \in past.cleared : ChatOf[p] = HomeChat}]
              \/ /\ log' = [empty EXCEPT ![HomeChat] = {Command(c)}]
                 /\ UNCHANGED file
                 /\ cmd' = [cmd EXCEPT ![c].phase = "done"]
                 /\ past' = [past EXCEPT !.gaveUp =
                               @ \cup ((cmd[c].ids \cap visible) \ {Command(c)})]
    /\ lock' = None
    /\ UNCHANGED <<gens, turn, trees, visible, notice, crashes>>

\* _delete_message_ids; only a reply-/clear has entries left in the log to forget.
DeleteMessages(c) ==
    /\ cmd[c].phase = "deleting"
    /\ Delete(cmd[c].ids)
    /\ log' = IF IsClearChat(cmd[c].kind) THEN log ELSE Forget(cmd[c].ids)
    /\ cmd' = [cmd EXCEPT ![c].phase = "done"]
    /\ UNCHANGED <<gens, lock, turn, trees, disk, notice, crashes>>

\* "Nothing to stop", "Nothing to clear", or a stop that no status shows.
SendReply(c) ==
    /\ cmd[c].phase = "replying"
    /\ visible' = visible \cup {Reply(c)}
    /\ cmd' = [cmd EXCEPT ![c].phase = "replied"]
    /\ UNCHANGED <<gens, lock, turn, trees, log, disk, notice, history>>

RecordReply(c) ==
    /\ cmd[c].phase = "replied"
    /\ log' = Record(Reply(c))
    /\ cmd' = [cmd EXCEPT ![c].phase = "done"]
    /\ UNCHANGED <<gens, lock, turn, trees, disk, visible, notice, history>>

-----------------------------------------------------------------------------
(* publish_startup_notice *)

Reserve ==
    /\ Notices /\ notice.phase = "new" /\ lock = None
    /\ notice' = [phase |-> "reserved", token |-> clearGen[HomeChat]]
    /\ UNCHANGED <<gens, lock, turn, trees, log, disk, visible, cmd, history>>

SendNotice ==
    /\ notice.phase = "reserved"
    /\ \/ /\ notice' = [notice EXCEPT !.phase = "delivered"]
          /\ visible' = visible \cup {Notice}
       \/ /\ notice' = [notice EXCEPT !.phase = "done"]
          /\ UNCHANGED visible
    /\ UNCHANGED <<gens, lock, turn, trees, log, disk, cmd, history>>

\* _finalize_startup_notice: cancelled publishers and failed records discard too.
Finalize ==
    /\ notice.phase = "delivered" /\ lock = None
    /\ \/ /\ notice.token = clearGen[HomeChat]
          /\ log' = Record(Notice)
          /\ notice' = [notice EXCEPT !.phase = "done"]
       \/ /\ notice' = [notice EXCEPT !.phase = "discarding"]
          /\ UNCHANGED log
    /\ UNCHANGED <<gens, lock, turn, trees, disk, visible, cmd, history>>

\* Deviation, for the mutation runs: a failed deletion is forgotten.
DiscardNotice_Forgets ==
    /\ notice.phase = "discarding" /\ lock = None
    /\ \/ visible' = visible \ {Notice}
       \/ visible' = visible
    /\ log' = Forget({Notice})
    /\ notice' = [notice EXCEPT !.phase = "done"]
    /\ UNCHANGED <<gens, lock, turn, trees, disk, cmd, history>>

\* _discard_startup_notice: a notice that cannot be deleted is handed to a later clear.
DiscardNotice ==
    /\ notice.phase = "discarding" /\ lock = None
    /\ \/ visible' = visible \ {Notice} /\ log' = Forget({Notice})
       \/ visible' = visible /\ log' = Record(Notice)
    /\ notice' = [notice EXCEPT !.phase = "done"]
    /\ UNCHANGED <<gens, lock, turn, trees, disk, cmd, history>>

-----------------------------------------------------------------------------
(* The session file and a restart *)

Flush ==
    /\ file # [nodes |-> store, log |-> log]
    /\ crashes < MaxCrashes     \* a later write is not read again
    /\ file' = [nodes |-> store, log |-> log]
    /\ UNCHANGED <<gens, lock, turn, trees, log, store, visible, cmd, notice, history>>

\* Deviation, for the mutation runs: a restored turn keeps the state it had.
Reconciled_AsStored(state) == state

\* from_snapshot: what was waiting or running is marked as interrupted.
Reconciled(state) == IF state \in Runnable THEN "error" ELSE state

Restored == [p \in Prompts |-> Reconciled(file.nodes[p])]

\* The process ends at any point and starts again: _load, restore.
Restart ==
    /\ crashes < MaxCrashes
    /\ crashes' = crashes + 1
    /\ node' = Restored
    /\ store' = node'
    /\ log' = file.log
    /\ running' = {}
    /\ lock' = None /\ stopGen' = 0 /\ clearGen' = [ch \in Chats |-> 0]
    /\ turn' = [p \in Prompts |-> IF turn[p].phase = "new" THEN NoTurn
                                  ELSE [turn[p] EXCEPT !.phase = "done"]]
    /\ cmd' = [c \in Commands |-> IF cmd[c].phase = "new" THEN NoCommand
                                  ELSE [cmd[c] EXCEPT !.phase = "done"]]
    /\ notice' = [notice EXCEPT !.phase = "done"]
    /\ past' = [past EXCEPT !.gaveUp = visible \ UNION {file.log[ch] : ch \in Chats},
                            !.stopped = {}, !.cleared = {}, !.overtaken = {}]
    /\ UNCHANGED <<root, file, visible>>

-----------------------------------------------------------------------------
Turn(p) == \/ Receive(p) \/ Resolve(p) \/ SendStatus(p) \/ RecordStatus(p)
           \/ Admit(p) \/ Refuse(p) \/ Discard(p) \/ RunnerWrites(p) \/ RunnerEnds(p)
Handle(c) == \/ Ask(c) \/ StopReply(c) \/ StopAll(c) \/ ClearReply(c) \/ ClearChat(c)
             \/ Snapshot(c) \/ Apply(c) \/ ClearStore(c) \/ DeleteMessages(c)
             \/ SendReply(c) \/ RecordReply(c)
StartupNotice == Reserve \/ SendNotice \/ Finalize \/ DiscardNotice

Next == \/ \E p \in Prompts : Turn(p)
        \/ \E c \in Commands : Handle(c)
        \/ StartupNotice \/ Flush \/ Restart

Spec == Init /\ [][Next]_vars

-----------------------------------------------------------------------------
\* Only a command that drains keeps the lock.
TypeOK ==
    /\ lock \in Commands \cup {None}
    /\ \A c \in Commands : lock = c <=> cmd[c].phase \in {"draining", "snapshot"}
    /\ running \subseteq Prompts

\* A prompt that was on its way when the user stopped everything, or was stopped
\* itself, never waits or runs again, whatever step of its delivery it was in.
NothingOutlivesStop ==
    \A p \in past.stopped : node[p] \notin Runnable

\* A prompt that was cleared, or on its way into a chat that was, is in no tree
\* and, once the command has released the lock, in no snapshot: a runner that is
\* still cleaning up, or a turn that is being admitted, cannot bring it back.
ClearedStaysCleared ==
    /\ \A p \in past.cleared : /\ node[p] = "absent"
                               /\ lock = None => store[p] = "absent"
    /\ \A p \in past.erased : /\ node[p] = "absent"
                              /\ file.nodes[p] = "absent"

\* A restart settles every interrupted turn, so that no conversation waits for a
\* task that no longer exists: what can run has a live task in its tree.
RunnableHasTask ==
    \A p \in Present : node[p] \in Runnable => \E q \in running : root[q] = root[p]

\* Every message the bot manages on the platform can still be found by a later
\* /clear, or somebody who will delete or record it is on the way.
InFlight(m) ==
    \/ m[1] = "status" /\ turn[m[2]].phase \in {"sent", "recorded", "stale", "orphaned"}
    \/ m[1] = "reply" /\ cmd[m[2]].phase = "replied"
    \/ m[1] = "command" /\ cmd[m[2]].phase \in {"asked", "draining", "snapshot"}
    \/ m[1] = "notice" /\ notice.phase \in {"delivered", "discarding"}
    \/ \E c \in Commands : m \in cmd[c].ids /\ cmd[c].phase \in {"draining", "snapshot", "deleting"}
Tracked(m) == \/ m \in log[ChatOfMessage(m)] \/ m \in Messages(Present) \/ InFlight(m)

NoOrphans ==
    \A m \in visible \ past.gaveUp : m[1] # "reply" => Tracked(m)

\* A finished turn is stored as finished, so that a restart does not report it as
\* interrupted and its replies can resume its session, unless its runner wrote
\* between the snapshot of a command and its save.
StoredAsFinished ==
    \A p \in Prompts :
        node[p] = "completed" /\ lock = None /\ root[p] \notin past.overtaken =>
            store[p] = "completed"
=============================================================================
