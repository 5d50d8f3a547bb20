----------------------- MODULE MessagingWorkflow_proofs ------------------------
(***************************************************************************)
(* What /stop and /clear promise, for any number of prompts, chats and     *)
(* commands.  A turn on its way is in no tree, so that a new generation is *)
(* enough to refuse it (Delivered); what a command stops or clears it      *)
(* settles or takes out in one step, and what it will write of it later is *)
(* the snapshot that says so (Kept, Commanded); and a message leaves the   *)
(* log only into the hands of somebody who deletes it (Found).             *)
(***************************************************************************)
EXTENDS MessagingWorkflow, WellFoundedInduction, TLAPS

-----------------------------------------------------------------------------
(* The invariant *)

States == {"absent", "pending", "in_progress", "completed", "error"}
Kinds  == {"stop reply", "stop all", "clear reply", "clear chat"}
AllMessages == {Prompt(p) : p \in Prompts} \cup {Status(p) : p \in Prompts}
               \cup {Command(c) : c \in Commands} \cup {Reply(c) : c \in Commands} \cup {Notice}
TurnType == [phase : {"new", "received", "resolved", "sent", "recorded", "stale", "orphaned", "done"},
             token : (Nat \X Nat) \cup {None}, reply : BOOLEAN]
CommandType == [phase : {"new", "asked", "draining", "snapshot", "deleting", "replying", "replied", "done"},
                kind : Kinds \cup {None}, target : Prompts \cup {None}, snap : [Prompts -> States],
                trees : SUBSET (Prompts \cup {None}), ids : SUBSET AllMessages, scopes : SUBSET Chats]
NoticeType == [phase : {"new", "reserved", "delivered", "discarding", "done"}, token : Nat \cup {None}]
PastType == [stopped : SUBSET Prompts, cleared : SUBSET Prompts, erased : SUBSET Prompts,
             overtaken : SUBSET (Prompts \cup {None}), gaveUp : SUBSET AllMessages]

Types ==
    /\ stopGen \in Nat /\ clearGen \in [Chats -> Nat] /\ lock \in Commands \cup {None}
    /\ turn \in [Prompts -> TurnType]
    /\ node \in [Prompts -> States] /\ root \in [Prompts -> Prompts \cup {None}]
    /\ running \subseteq Prompts
    /\ log \in [Chats -> SUBSET AllMessages] /\ store \in [Prompts -> States]
    /\ file \in [nodes : [Prompts -> States], log : [Chats -> SUBSET AllMessages]]
    /\ visible \subseteq AllMessages /\ cmd \in [Commands -> CommandType]
    /\ notice \in NoticeType /\ past \in PastType

OnWay(p)    == turn[p].phase \in {"received", "resolved", "sent", "recorded"}
Holding(c)  == cmd[c].phase \in {"draining", "snapshot"}
Saves(c, p) == Holding(c) /\ ~IsClearChat(cmd[c].kind) /\ root[p] \in cmd[c].trees

\* A turn on its way has the generations of its reception, and is in no tree yet.
Delivered(p) ==
    /\ OnWay(p) => /\ turn[p].token \in Nat \X Nat
                   /\ turn[p].token[1] <= stopGen /\ turn[p].token[2] <= clearGen[ChatOf[p]]
    /\ turn[p].phase # "done" => /\ node[p] = "absent" /\ store[p] = "absent"
                                 /\ file.nodes[p] = "absent" /\ p \notin running
                                 /\ \A c \in Commands : cmd[c].phase = "snapshot" => cmd[c].snap[p] = "absent"

\* What can run has a task in its tree.
Scheduled(p) ==
    /\ node[p] = "in_progress" => p \in running
    /\ node[p] \in Runnable => \E q \in running : root[q] = root[p]

\* What was stopped is settled, or will be refused.
IsStopped(p) ==
    /\ turn[p].phase # "new" /\ node[p] \notin Runnable
    /\ OnWay(p) => turn[p].token[1] < stopGen

\* What was cleared is in no tree and no snapshot of one, or will be refused.
IsCleared(p) ==
    /\ turn[p].phase # "new" /\ node[p] = "absent"
    /\ OnWay(p) => turn[p].token[2] < clearGen[ChatOf[p]]
    /\ \A c \in Commands : cmd[c].phase = "snapshot" => cmd[c].snap[p] = "absent"

\* The command that will clear it from the store.
WillClear(c, p) ==
    /\ Holding(c)
    /\ IF IsClearChat(cmd[c].kind) THEN ChatOf[p] = HomeChat ELSE root[p] \in cmd[c].trees

Kept(p) ==
    /\ p \in past.stopped => IsStopped(p)
    /\ p \in past.cleared \cup past.erased => IsCleared(p)
    /\ p \in past.cleared => store[p] = "absent" \/ \E c \in Commands : WillClear(c, p)
    /\ p \in past.erased => store[p] = "absent" /\ file.nodes[p] = "absent"
    /\ node[p] = "completed" /\ root[p] \notin past.overtaken =>
          /\ store[p] = "completed"
          /\ \A c \in Commands : cmd[c].phase = "snapshot" /\ ~IsClearChat(cmd[c].kind)
                                    /\ root[p] \in cmd[c].trees => cmd[c].snap[p] = "completed"

\* A command that clears a chat has left no prompt in it, and knows its messages; one
\* that stops deletes none.
Commanded(c) ==
    /\ lock = c <=> Holding(c)
    /\ Holding(c) /\ ~IsClearChat(cmd[c].kind) /\ cmd[c].kind # "clear reply" => cmd[c].ids = {}
    /\ Holding(c) /\ IsClearChat(cmd[c].kind) =>
          /\ \A p \in Prompts : ChatOf[p] = HomeChat => node[p] = "absent"
          /\ Command(c) \in cmd[c].ids
          /\ \A m \in log[HomeChat] : \/ m \in cmd[c].ids
                                      \/ \E d \in Commands : m = Reply(d)
                                      \/ \E p \in Prompts : m = Status(p) /\ turn[p].phase = "recorded"

\* Messages.
Listed(m) ==
    \/ m \in log[ChatOfMessage(m)] \/ m \in Messages(Present)
    \/ \E c \in Commands : m \in cmd[c].ids /\ cmd[c].phase \in {"draining", "snapshot", "deleting"}
Coming(m) ==
    \/ \E p \in Prompts : m = Status(p) /\ turn[p].phase \in {"sent", "recorded", "stale", "orphaned"}
    \/ \E c \in Commands : m = Command(c) /\ cmd[c].phase = "asked" /\ IsClearChat(cmd[c].kind)
    \/ m = Notice /\ notice.phase \in {"delivered", "discarding"}

Found ==
    \A m \in visible \ past.gaveUp : m \in {Reply(c) : c \in Commands} \/ Listed(m) \/ Coming(m)
Sorted ==
    \A ch \in Chats : \A m \in log[ch] \cup file.log[ch] : ChatOfMessage(m) = ch

IInv ==
    /\ Types
    /\ \A p \in Prompts : Delivered(p) /\ Scheduled(p) /\ Kept(p)
    /\ \A c \in Commands : Commanded(c)
    /\ Sorted /\ Found

-----------------------------------------------------------------------------
(* Frames *)

LEMMA MessagesAre ==
    ASSUME NEW p, NEW c
    PROVE  /\ \A q : /\ Status(p) = Status(q) => p = q
                     /\ Prompt(p) = Prompt(q) => p = q
                     /\ Prompt(p) # Status(q) /\ Prompt(p) # Command(q) /\ Prompt(p) # Reply(q)
                     /\ Status(p) # Command(q) /\ Status(p) # Reply(q)
                     /\ Command(c) = Command(q) => c = q
                     /\ Command(c) # Reply(q)
           /\ Prompt(p) # Notice /\ Status(p) # Notice /\ Command(c) # Notice /\ Reply(c) # Notice
           /\ ChatOfMessage(Prompt(p)) = ChatOf[p] /\ ChatOfMessage(Status(p)) = ChatOf[p]
           /\ ChatOfMessage(Command(c)) = HomeChat /\ ChatOfMessage(Reply(c)) = HomeChat
           /\ ChatOfMessage(Notice) = HomeChat
BY DEF Prompt, Status, Command, Reply, Notice, ChatOfMessage

LEMMA MessageTypes ==
    ASSUME NEW p \in Prompts, NEW c \in Commands
    PROVE  {Prompt(p), Status(p), Command(c), Reply(c)} \subseteq AllMessages
           /\ Notice \in AllMessages
BY DEF AllMessages

LEMMA ChatsAre ==
    ASSUME WorkflowAssumption, NEW m \in AllMessages
    PROVE  ChatOfMessage(m) \in Chats
BY MessagesAre DEF AllMessages, WorkflowAssumption

LEMMA PhaseIs ==
    ASSUME Types, NEW p \in Prompts, NEW ph, turn' = [turn EXCEPT ![p].phase = ph],
           ph \in {"new", "received", "resolved", "sent", "recorded", "stale", "orphaned", "done"}
    PROVE  /\ turn' \in [Prompts -> TurnType] /\ turn'[p].phase = ph
           /\ turn'[p].token = turn[p].token
           /\ \A q \in Prompts \ {p} : turn'[q] = turn[q]
<1>1. turn \in [Prompts -> TurnType] /\ turn[p] \in TurnType
  BY DEF Types
<1>2. turn'[p] = [turn[p] EXCEPT !.phase = ph]
  BY <1>1
<1>3. turn'[p] \in TurnType /\ turn'[p].phase = ph /\ turn'[p].token = turn[p].token
  BY <1>1, <1>2 DEF TurnType
<1> QED BY <1>1, <1>2, <1>3

LEMMA StageIs ==
    ASSUME Types, NEW c \in Commands, NEW ph, cmd' = [cmd EXCEPT ![c].phase = ph],
           ph \in {"new", "asked", "draining", "snapshot", "deleting", "replying", "replied", "done"}
    PROVE  /\ cmd' \in [Commands -> CommandType] /\ cmd'[c].phase = ph
           /\ cmd'[c].kind = cmd[c].kind /\ cmd'[c].ids = cmd[c].ids /\ cmd'[c].trees = cmd[c].trees
           /\ cmd'[c].snap = cmd[c].snap
           /\ \A d \in Commands \ {c} : cmd'[d] = cmd[d]
<1>1. cmd \in [Commands -> CommandType] /\ cmd[c] \in CommandType
  BY DEF Types
<1>2. cmd'[c] = [cmd[c] EXCEPT !.phase = ph]
  BY <1>1
<1>3. /\ cmd'[c] \in CommandType /\ cmd'[c].phase = ph
      /\ cmd'[c].kind = cmd[c].kind /\ cmd'[c].ids = cmd[c].ids /\ cmd'[c].trees = cmd[c].trees
      /\ cmd'[c].snap = cmd[c].snap
  BY <1>1, <1>2 DEF CommandType
<1> QED BY <1>1, <1>2, <1>3

\* What is recorded is recorded in its chat.
LEMMA RecordIs ==
    ASSUME WorkflowAssumption, IInv, NEW m \in AllMessages, log' = Record(m),
           file'.log = file.log
    PROVE  /\ log' \in [Chats -> SUBSET AllMessages] /\ Sorted'
           /\ m \in log'[ChatOfMessage(m)]
           /\ \A ch \in Chats : log[ch] \subseteq log'[ch] /\ log'[ch] \subseteq log[ch] \cup {m}
<1>1. log \in [Chats -> SUBSET AllMessages] /\ ChatOfMessage(m) \in Chats /\ Sorted
  BY ChatsAre DEF IInv, Types
<1>2. log' = [log EXCEPT ![ChatOfMessage(m)] = @ \cup {m}]
  BY DEF Record
<1> DEFINE h == ChatOfMessage(m)
<1> HIDE DEF h
<1>3. \A ch \in Chats : log'[ch] = IF ch = h THEN log[ch] \cup {m} ELSE log[ch]
  BY <1>1, <1>2 DEF h
<1>4. log' \in [Chats -> SUBSET AllMessages]
  BY <1>1, <1>2 DEF h
<1>5. Sorted'
  BY <1>1, <1>3 DEF Sorted, h
<1> QED BY <1>1, <1>3, <1>4, <1>5 DEF h

LEMMA ForgetIs ==
    ASSUME IInv, NEW S, log' = Forget(S), file'.log = file.log
    PROVE  /\ log' \in [Chats -> SUBSET AllMessages] /\ Sorted'
           /\ \A ch \in Chats : log'[ch] = log[ch] \ S
<1>1. log \in [Chats -> SUBSET AllMessages] /\ Sorted
  BY DEF IInv, Types
<1>2. \A ch \in Chats : log'[ch] = log[ch] \ S
  BY DEF Forget
<1>3. log' \in [Chats -> SUBSET AllMessages]
  BY <1>1, <1>2 DEF Forget
<1>4. Sorted'
  BY <1>1, <1>2 DEF Sorted
<1> QED BY <1>2, <1>3, <1>4

LEMMA SortedStays ==
    ASSUME IInv, log' = log, file'.log = file.log \/ file'.log = log
    PROVE  Sorted'
BY DEF IInv, Sorted

\* The history of what was asked for and done.
SameHistory == /\ past'.stopped = past.stopped /\ past'.cleared = past.cleared
               /\ past'.erased = past.erased /\ past'.overtaken = past.overtaken
SameHold(c) == (Holding(c)' <=> Holding(c)) /\ (Holding(c) => cmd'[c] = cmd[c])

\* One prompt on its way moves on, or is received.
LEMMA TurnMoves ==
    ASSUME IInv, NEW p \in Prompts, UNCHANGED <<gens, trees, disk, cmd>>, SameHistory,
           \A q \in Prompts \ {p} : turn'[q] = turn[q],
           turn'[p].phase # "new", turn[p].phase # "done",
           OnWay(p)' => IF turn[p].phase = "new"
                        THEN turn'[p].token = Token(ChatOf[p]) /\ Token(ChatOf[p]) \in Nat \X Nat
                        ELSE OnWay(p) /\ turn'[p].token = turn[p].token
    PROVE  \A q \in Prompts : Delivered(q)' /\ Scheduled(q)' /\ Kept(q)'
<1>1. UNCHANGED <<stopGen, clearGen, node, root, running, store, file, cmd>>
  BY DEF gens, trees, disk
<1>2. ASSUME NEW q \in Prompts PROVE Delivered(q) /\ Scheduled(q) /\ Kept(q)
  BY DEF IInv
<1>3. stopGen \in Nat /\ clearGen \in [Chats -> Nat]
  BY DEF IInv, Types
<1>4. ASSUME NEW q \in Prompts PROVE Delivered(q)'
  <2>1. CASE q # p
    BY <1>1, <1>2, <2>1 DEF Delivered, OnWay
  <2>2. CASE q = p
    <3>1. /\ node[p] = "absent" /\ store[p] = "absent" /\ file.nodes[p] = "absent"
          /\ p \notin running
          /\ \A c \in Commands : cmd[c].phase = "snapshot" => cmd[c].snap[p] = "absent"
      BY <1>2 DEF Delivered
    <3>2. CASE OnWay(p)'
      <4>1. CASE turn[p].phase = "new"
        <5>1. turn'[p].token \in Nat \X Nat /\ turn'[p].token[1] = stopGen
              /\ turn'[p].token[2] = clearGen[ChatOf[p]]
          BY <3>2, <4>1 DEF Token
        <5>2. clearGen[ChatOf[p]] <= clearGen[ChatOf[p]] /\ stopGen <= stopGen
          BY <5>1, <1>3
        <5> QED BY <1>1, <2>2, <3>1, <5>1, <5>2 DEF Delivered
      <4>2. CASE turn[p].phase # "new"
        BY <1>1, <1>2, <2>2, <3>1, <3>2, <4>2 DEF Delivered
      <4> QED BY <4>1, <4>2
    <3>3. CASE ~OnWay(p)'
      BY <1>1, <2>2, <3>1, <3>3 DEF Delivered
    <3> QED BY <3>2, <3>3
  <2> QED BY <2>1, <2>2
<1>5. ASSUME NEW q \in Prompts PROVE Scheduled(q)'
  BY <1>1, <1>2 DEF Scheduled
<1>6. ASSUME NEW q \in Prompts PROVE Kept(q)'
  <2>1. /\ q \in past.stopped => IsStopped(q)'
        /\ q \in past.cleared \cup past.erased => IsCleared(q)'
    <3>1. turn[q].phase # "new" => turn'[q].phase # "new"
          /\ (OnWay(q)' => OnWay(q) /\ turn'[q].token = turn[q].token)
      BY DEF OnWay
    <3> QED BY <1>1, <1>2, <3>1 DEF Kept, IsStopped, IsCleared
  <2>2. \A c \in Commands : WillClear(c, q)' <=> WillClear(c, q)
    BY <1>1 DEF WillClear, Holding
  <2> QED BY <1>1, <1>2, <2>1, <2>2 DEF Kept, SameHistory
<1> QED BY <1>4, <1>5, <1>6

\* A step that leaves prompts, trees and their snapshots alone, or writes the file.
LEMMA PromptsStay ==
    ASSUME IInv, UNCHANGED <<gens, turn, trees, store>>, SameHistory,
           file'.nodes = file.nodes \/ file'.nodes = store,
           \A c \in Commands : SameHold(c)
    PROVE  \A q \in Prompts : Delivered(q)' /\ Scheduled(q)' /\ Kept(q)'
<1>1. UNCHANGED <<stopGen, clearGen, turn, node, root, running, store>>
  BY DEF gens, trees
<1>2. TAKE q \in Prompts
<1>3. Delivered(q) /\ Scheduled(q) /\ Kept(q)
  BY DEF IInv
<1>6. \A c \in Commands : /\ WillClear(c, q)' <=> WillClear(c, q)
                          /\ cmd'[c].phase = "snapshot" => cmd'[c] = cmd[c]
  BY <1>1 DEF WillClear, SameHold, Holding
<1>4. Delivered(q)'
  BY <1>1, <1>3, <1>6 DEF Delivered, OnWay
<1>5. Scheduled(q)'
  BY <1>1, <1>3 DEF Scheduled
<1>7. q \in past.cleared \cup past.erased => IsCleared(q)'
  BY <1>1, <1>3, <1>6 DEF Kept, IsCleared, OnWay
<1>8. q \in past.stopped => IsStopped(q)'
  BY <1>1, <1>3 DEF Kept, IsStopped, OnWay
<1>9. node[q] = "completed" /\ root[q] \notin past.overtaken =>
          /\ store[q] = "completed"
          /\ \A c \in Commands : cmd'[c].phase = "snapshot" /\ ~IsClearChat(cmd'[c].kind)
                                    /\ root[q] \in cmd'[c].trees => cmd'[c].snap[q] = "completed"
  BY <1>3, <1>6 DEF Kept
<1>10. Kept(q)'
  BY <1>1, <1>3, <1>6, <1>7, <1>8, <1>9 DEF Kept, SameHistory
<1> QED BY <1>4, <1>5, <1>10

\* A step beside the command that holds the lock.
LEMMA CommandsStay ==
    ASSUME WorkflowAssumption, IInv, lock' = lock, \A c \in Commands : SameHold(c),
           lock # None => \A q \in Prompts : /\ node[q] = "absent" => node'[q] = "absent"
                                             /\ turn[q].phase = "recorded" => turn'[q].phase = "recorded",
           lock # None => \A m \in log'[HomeChat] :
                             \/ m \in log[HomeChat]
                             \/ \E d \in Commands : m = Reply(d)
                             \/ \E q \in Prompts : m = Status(q) /\ turn'[q].phase = "recorded"
    PROVE  \A c \in Commands : Commanded(c)'
<1>1. TAKE c \in Commands
<1>2. Commanded(c) /\ SameHold(c)
  BY DEF IInv
<1>3. lock' = c <=> Holding(c)'
  BY <1>2 DEF Commanded, SameHold
<1>4. CASE Holding(c)' /\ IsClearChat(cmd'[c].kind)
  <2>1. Holding(c) /\ cmd'[c] = cmd[c]
    BY <1>2, <1>4 DEF SameHold
  <2>2. lock # None
    BY <1>2, <2>1 DEF Commanded, WorkflowAssumption
  <2> QED BY <1>2, <1>3, <1>4, <2>1, <2>2 DEF Commanded
<1>5. CASE ~(Holding(c)' /\ IsClearChat(cmd'[c].kind))
  <2>1. Holding(c)' => Holding(c) /\ cmd'[c] = cmd[c]
    BY <1>2 DEF SameHold
  <2> QED BY <1>2, <1>3, <1>5, <2>1 DEF Commanded
<1> QED BY <1>4, <1>5

LEMMA ListedStays ==
    ASSUME NEW m, \A q \in Prompts : node[q] # "absent" => node'[q] # "absent",
           \A c \in Commands : cmd[c].phase \in {"draining", "snapshot", "deleting"} =>
                /\ cmd'[c].phase \in {"draining", "snapshot", "deleting"}
                /\ cmd[c].ids \subseteq cmd'[c].ids,
           m \in log[ChatOfMessage(m)] => m \in log'[ChatOfMessage(m)]
    PROVE  Listed(m) => Listed(m)'
<1>1. m \in Messages(Present) => m \in Messages(Present)'
  BY DEF Messages, Present
<1> QED BY <1>1 DEF Listed

\* Messages are deleted, or given up; either way nobody needs to find them any more.
LEMMA DeleteIs ==
    ASSUME Types, NEW ids, Delete(ids)
    PROVE  /\ visible' \subseteq AllMessages /\ past' \in PastType /\ SameHistory
           /\ \A m \in visible' \ past'.gaveUp : m \in visible \ past.gaveUp /\ m \notin ids
<1>1. visible \subseteq AllMessages /\ past \in PastType
  BY DEF Types
<1>2. CASE visible' = visible \ ids /\ past' = past
  BY <1>1, <1>2 DEF SameHistory
<1>3. CASE visible' = visible /\ past' = [past EXCEPT !.gaveUp = @ \cup (ids \cap visible)]
  <2>1. past' \in PastType /\ past'.gaveUp = past.gaveUp \cup (ids \cap visible) /\ SameHistory
    BY <1>1, <1>3 DEF PastType, SameHistory
  <2> QED BY <1>1, <1>3, <2>1
<1> QED BY <1>2, <1>3 DEF Delete

LEMMA SameHoldIs ==
    ASSUME cmd' = cmd
    PROVE  \A c \in Commands : SameHold(c)
BY DEF SameHold, Holding

LEMMA HistoryStays == ASSUME past' = past PROVE SameHistory
BY DEF SameHistory

\* Each message other than a reply that nobody has given up is found after the step.
LEMMA FoundIs ==
    ASSUME IInv,
           \A m \in visible' \ past'.gaveUp : m \in {Reply(c) : c \in Commands} \/
              \/ m \in visible \ past.gaveUp /\ (Listed(m) \/ Coming(m) => Listed(m)' \/ Coming(m)')
              \/ Listed(m)' \/ Coming(m)'
    PROVE  Found'
BY DEF IInv, Found

-----------------------------------------------------------------------------
(* The delivery of a prompt *)

LEMMA ReceiveKeeps ==
    ASSUME WorkflowAssumption, IInv, NEW p \in Prompts, Receive(p) PROVE IInv'
<1>1. /\ Types /\ turn[p].phase = "new" /\ lock = None /\ lock' = lock
      /\ turn' = [turn EXCEPT ![p] = [@ EXCEPT !.phase = "received", !.token = Token(ChatOf[p])]]
      /\ visible' = visible \cup {Prompt(p)} /\ log' = Record(Prompt(p))
      /\ UNCHANGED <<gens, trees, disk, cmd, notice, past>> /\ Prompt(p) \in AllMessages
  BY MessageTypes DEF Receive, IInv, history, AllMessages
<1>2. UNCHANGED <<stopGen, clearGen, node, root, running, store, file, cmd, notice, past>>
  BY <1>1 DEF gens, trees, disk
<1>3. Token(ChatOf[p]) \in Nat \X Nat
  BY <1>1 DEF Token, Types, WorkflowAssumption
<1>4. turn'[p] = [turn[p] EXCEPT !.phase = "received", !.token = Token(ChatOf[p])]
  BY <1>1 DEF Types
<1>5. /\ turn' \in [Prompts -> TurnType] /\ turn'[p].phase = "received"
      /\ turn'[p].token = Token(ChatOf[p]) /\ \A q \in Prompts \ {p} : turn'[q] = turn[q]
  BY <1>1, <1>3, <1>4 DEF Types, TurnType
<1>6. /\ log' \in [Chats -> SUBSET AllMessages] /\ Sorted'
      /\ Prompt(p) \in log'[ChatOfMessage(Prompt(p))]
      /\ \A ch \in Chats : log[ch] \subseteq log'[ch]
  BY <1>1, <1>2, RecordIs
<1>7. Types'
  BY <1>1, <1>2, <1>5, <1>6 DEF Types
<1>8. \A q \in Prompts : Delivered(q)' /\ Scheduled(q)' /\ Kept(q)'
  BY <1>1, <1>2, <1>3, <1>5, TurnMoves, HistoryStays
<1>9. \A c \in Commands : Commanded(c)'
  BY <1>1, <1>2, CommandsStay, SameHoldIs
<1>10. Found'
  <2>1. ASSUME NEW m \in visible \ past.gaveUp PROVE Listed(m) \/ Coming(m) => Listed(m)' \/ Coming(m)'
    <3>1. m \in log[ChatOfMessage(m)] => m \in log'[ChatOfMessage(m)]
      BY <1>1, <1>6, ChatsAre DEF Types
    <3>2. Listed(m) => Listed(m)'
      BY <1>2, <3>1, ListedStays
    <3>3. Coming(m) => Coming(m)'
      BY <1>1, <1>2, <1>5 DEF Coming
    <3> QED BY <3>2, <3>3
  <2>2. Listed(Prompt(p))'
    BY <1>6 DEF Listed
  <2> QED BY <1>1, <1>2, <2>1, <2>2, FoundIs
<1> QED BY <1>6, <1>7, <1>8, <1>9, <1>10 DEF IInv

LEMMA ResolveKeeps ==
    ASSUME WorkflowAssumption, IInv, NEW p \in Prompts, Resolve(p) PROVE IInv'
<1>1. /\ Types /\ turn[p].phase = "received" /\ lock' = lock
      /\ turn' = [turn EXCEPT ![p].phase = "resolved", ![p].reply = Parent[p] \in Present]
      /\ UNCHANGED <<gens, trees, disk, cmd, notice, past, log, visible>>
  BY DEF Resolve, IInv, history
<1>2. UNCHANGED <<stopGen, clearGen, node, root, running, store, file, cmd, notice, past>>
  BY <1>1 DEF gens, trees, disk
<1> DEFINE known == Parent[p] \in Present
<1>3. turn'[p] = [turn[p] EXCEPT !.phase = "resolved", !.reply = known]
  BY <1>1 DEF Types
<1>4. /\ turn' \in [Prompts -> TurnType] /\ turn'[p].phase = "resolved"
      /\ turn'[p].token = turn[p].token /\ \A q \in Prompts \ {p} : turn'[q] = turn[q]
  <2>1. known \in BOOLEAN
    OBVIOUS
  <2> HIDE DEF known
  <2>2. turn[p] \in TurnType
    BY <1>1 DEF Types
  <2>3. /\ turn'[p] \in TurnType /\ turn'[p].phase = "resolved"
        /\ turn'[p].token = turn[p].token
    BY <1>3, <2>1, <2>2 DEF TurnType
  <2>4. turn' = [turn EXCEPT ![p] = turn'[p]]
    BY <1>1 DEF Types
  <2>5. \A q \in Prompts \ {p} : turn'[q] = turn[q]
    BY <1>1, <2>4 DEF Types
  <2>6. turn' \in [Prompts -> TurnType]
    BY <1>1, <2>3, <2>4 DEF Types
  <2> QED BY <2>3, <2>5, <2>6
<1>5. Types'
  BY <1>1, <1>2, <1>4 DEF Types
<1>6. \A q \in Prompts : Delivered(q)' /\ Scheduled(q)' /\ Kept(q)'
  BY <1>1, <1>2, <1>4, TurnMoves, HistoryStays DEF OnWay
<1>7. \A c \in Commands : Commanded(c)'
  BY <1>1, <1>2, <1>4, CommandsStay, SameHoldIs
<1>8. Found'
  <2>1. ASSUME NEW m PROVE Listed(m) \/ Coming(m) => Listed(m)' \/ Coming(m)'
    <3>1. Listed(m) => Listed(m)'
      BY <1>1, <1>2, ListedStays
    <3>2. Coming(m) => Coming(m)'
      BY <1>1, <1>2, <1>4 DEF Coming
    <3> QED BY <3>1, <3>2
  <2> QED BY <1>1, <1>2, <2>1, FoundIs
<1>9. Sorted'
  BY <1>1, <1>2, SortedStays
<1> QED BY <1>5, <1>6, <1>7, <1>8, <1>9 DEF IInv

LEMMA SendStatusKeeps ==
    ASSUME WorkflowAssumption, IInv, NEW p \in Prompts, SendStatus(p) PROVE IInv'
<1>1. /\ Types /\ turn[p].phase = "resolved" /\ lock' = lock /\ Status(p) \in AllMessages
      /\ UNCHANGED <<gens, trees, disk, cmd, notice, past, log>>
  BY DEF SendStatus, IInv, history, AllMessages
<1>2. UNCHANGED <<stopGen, clearGen, node, root, running, store, file, cmd, notice, past>>
  BY <1>1 DEF gens, trees, disk
<1>3. PICK ph \in {"sent", "done"} : /\ turn' = [turn EXCEPT ![p].phase = ph]
                                     /\ visible' = visible \/ (ph = "sent" /\ visible' = visible \cup {Status(p)})
  BY DEF SendStatus
<1>4. /\ turn' \in [Prompts -> TurnType] /\ turn'[p].phase = ph
      /\ turn'[p].token = turn[p].token /\ \A q \in Prompts \ {p} : turn'[q] = turn[q]
  BY <1>1, <1>3, PhaseIs
<1>5. Types'
  BY <1>1, <1>2, <1>3, <1>4 DEF Types
<1>6. \A q \in Prompts : Delivered(q)' /\ Scheduled(q)' /\ Kept(q)'
  BY <1>1, <1>2, <1>4, TurnMoves, HistoryStays DEF OnWay
<1>7. \A c \in Commands : Commanded(c)'
  BY <1>1, <1>2, <1>4, CommandsStay, SameHoldIs
<1>8. Found'
  <2>1. ASSUME NEW m PROVE Listed(m) \/ Coming(m) => Listed(m)' \/ Coming(m)'
    <3>1. Listed(m) => Listed(m)'
      BY <1>1, <1>2, ListedStays
    <3>2. Coming(m) => Coming(m)'
      BY <1>1, <1>2, <1>4 DEF Coming
    <3> QED BY <3>1, <3>2
  <2>2. ph = "sent" => Coming(Status(p))'
    BY <1>4 DEF Coming
  <2> QED BY <1>1, <1>2, <1>3, <2>1, <2>2, FoundIs
<1>9. Sorted'
  BY <1>1, <1>2, SortedStays
<1> QED BY <1>5, <1>6, <1>7, <1>8, <1>9 DEF IInv

LEMMA RecordStatusKeeps ==
    ASSUME WorkflowAssumption, IInv, NEW p \in Prompts, RecordStatus(p) PROVE IInv'
<1>1. /\ Types /\ turn[p].phase = "sent" /\ lock' = lock /\ Status(p) \in AllMessages
      /\ turn' = [turn EXCEPT ![p].phase = "recorded"] /\ log' = Record(Status(p))
      /\ UNCHANGED <<gens, trees, disk, cmd, notice, past, visible>>
  BY DEF RecordStatus, IInv, history, AllMessages
<1>2. UNCHANGED <<stopGen, clearGen, node, root, running, store, file, cmd, notice, past>>
  BY <1>1 DEF gens, trees, disk
<1>4. /\ turn' \in [Prompts -> TurnType] /\ turn'[p].phase = "recorded"
      /\ turn'[p].token = turn[p].token /\ \A q \in Prompts \ {p} : turn'[q] = turn[q]
  BY <1>1, PhaseIs
<1>5. /\ log' \in [Chats -> SUBSET AllMessages] /\ Sorted'
      /\ \A ch \in Chats : log[ch] \subseteq log'[ch] /\ log'[ch] \subseteq log[ch] \cup {Status(p)}
  BY <1>1, <1>2, RecordIs
<1>6. Types'
  BY <1>1, <1>2, <1>4, <1>5 DEF Types
<1>7. \A q \in Prompts : Delivered(q)' /\ Scheduled(q)' /\ Kept(q)'
  BY <1>1, <1>2, <1>4, TurnMoves, HistoryStays DEF OnWay
<1>8. \A m \in log'[HomeChat] : m \in log[HomeChat] \/ (m = Status(p) /\ turn'[p].phase = "recorded")
  BY <1>4, <1>5 DEF WorkflowAssumption
<1>9. \A c \in Commands : Commanded(c)'
  BY <1>1, <1>2, <1>4, <1>8, CommandsStay, SameHoldIs
<1>10. Found'
  <2>1. ASSUME NEW m \in visible PROVE Listed(m) \/ Coming(m) => Listed(m)' \/ Coming(m)'
    <3>1. m \in log[ChatOfMessage(m)] => m \in log'[ChatOfMessage(m)]
      BY <1>1, <1>5, ChatsAre DEF Types
    <3>2. Listed(m) => Listed(m)'
      BY <1>2, <3>1, ListedStays
    <3>3. Coming(m) => Coming(m)'
      BY <1>1, <1>2, <1>4 DEF Coming
    <3> QED BY <3>2, <3>3
  <2> QED BY <1>1, <1>2, <2>1, FoundIs
<1> QED BY <1>5, <1>6, <1>7, <1>9, <1>10 DEF IInv

LEMMA RefuseKeeps ==
    ASSUME WorkflowAssumption, IInv, NEW p \in Prompts, Refuse(p) PROVE IInv'
<1>1. /\ Types /\ turn[p].phase = "recorded" /\ lock = None /\ lock' = lock
      /\ UNCHANGED <<gens, trees, disk, cmd, notice, past, log, visible>>
  BY DEF Refuse, IInv, history
<1>2. UNCHANGED <<stopGen, clearGen, node, root, running, store, file, cmd, notice, past>>
  BY <1>1 DEF gens, trees, disk
<1>3. PICK ph \in {"stale", "orphaned"} : turn' = [turn EXCEPT ![p].phase = ph]
  BY DEF Refuse
<1>4. /\ turn' \in [Prompts -> TurnType] /\ turn'[p].phase = ph
      /\ turn'[p].token = turn[p].token /\ \A q \in Prompts \ {p} : turn'[q] = turn[q]
  BY <1>1, <1>3, PhaseIs
<1>5. Types'
  BY <1>1, <1>2, <1>4 DEF Types
<1>6. \A q \in Prompts : Delivered(q)' /\ Scheduled(q)' /\ Kept(q)'
  BY <1>1, <1>2, <1>4, TurnMoves, HistoryStays DEF OnWay
<1>7. \A c \in Commands : Commanded(c)'
  BY <1>1, <1>2, CommandsStay, SameHoldIs
<1>8. Found'
  <2>1. ASSUME NEW m PROVE Listed(m) \/ Coming(m) => Listed(m)' \/ Coming(m)'
    <3>1. Listed(m) => Listed(m)'
      BY <1>1, <1>2, ListedStays
    <3>2. Coming(m) => Coming(m)'
      BY <1>1, <1>2, <1>4 DEF Coming
    <3> QED BY <3>1, <3>2
  <2> QED BY <1>1, <1>2, <2>1, FoundIs
<1>9. Sorted'
  BY <1>1, <1>2, SortedStays
<1> QED BY <1>5, <1>6, <1>7, <1>8, <1>9 DEF IInv

LEMMA DiscardKeeps ==
    ASSUME WorkflowAssumption, IInv, NEW p \in Prompts, Discard(p) PROVE IInv'
<1> DEFINE ids == {Status(p)} \cup IF turn[p].phase = "orphaned" THEN {Prompt(p)} ELSE {}
<1>1. /\ Types /\ turn[p].phase \in {"stale", "orphaned"} /\ lock' = lock
      /\ turn' = [turn EXCEPT ![p].phase = "done"] /\ Delete(ids) /\ log' = Forget(ids)
      /\ UNCHANGED <<gens, trees, disk, cmd, notice>> /\ Status(p) \in ids
  BY DEF Discard, IInv
<1> HIDE DEF ids
<1>2. UNCHANGED <<stopGen, clearGen, node, root, running, store, file, cmd, notice>>
  BY <1>1 DEF gens, trees, disk
<1>3. /\ visible' \subseteq AllMessages /\ past' \in PastType /\ SameHistory
      /\ \A m \in visible' \ past'.gaveUp : m \in visible \ past.gaveUp /\ m \notin ids
  BY <1>1, DeleteIs
<1>4. /\ turn' \in [Prompts -> TurnType] /\ turn'[p].phase = "done"
      /\ turn'[p].token = turn[p].token /\ \A q \in Prompts \ {p} : turn'[q] = turn[q]
  BY <1>1, PhaseIs
<1>5. /\ log' \in [Chats -> SUBSET AllMessages] /\ Sorted' /\ \A ch \in Chats : log'[ch] = log[ch] \ ids
  BY <1>1, <1>2, ForgetIs
<1>6. Types'
  BY <1>1, <1>2, <1>3, <1>4, <1>5 DEF Types
<1>7. \A q \in Prompts : Delivered(q)' /\ Scheduled(q)' /\ Kept(q)'
  BY <1>1, <1>2, <1>3, <1>4, TurnMoves DEF OnWay
<1>8. \A q \in Prompts : turn[q].phase = "recorded" => turn'[q].phase = "recorded"
  BY <1>1, <1>4
<1>9. \A m \in log'[HomeChat] : m \in log[HomeChat]
  BY <1>5 DEF WorkflowAssumption
<1>10. \A c \in Commands : Commanded(c)'
  BY <1>1, <1>2, <1>8, <1>9, CommandsStay, SameHoldIs
<1>11. Found'
  <2>1. ASSUME NEW m \in visible, m \notin ids
        PROVE  Listed(m) \/ Coming(m) => Listed(m)' \/ Coming(m)'
    <3>1. m \in log[ChatOfMessage(m)] => m \in log'[ChatOfMessage(m)]
      BY <1>1, <1>5, <2>1, ChatsAre DEF Types
    <3>2. Listed(m) => Listed(m)'
      BY <1>2, <3>1, ListedStays
    <3>3. Coming(m) => Coming(m)'
      BY <1>1, <1>2, <1>4, <2>1 DEF Coming
    <3> QED BY <3>2, <3>3
  <2> QED BY <1>3, <2>1, FoundIs
<1> QED BY <1>5, <1>6, <1>7, <1>10, <1>11 DEF IInv

\* While nobody holds the lock, no snapshot is waiting to be saved.
LEMMA NobodyHolds ==
    ASSUME WorkflowAssumption, IInv, lock = None
    PROVE  /\ \A c \in Commands : ~Holding(c) /\ cmd[c].phase # "snapshot"
           /\ \A p \in past.cleared : store[p] = "absent"
<1>1. \A c \in Commands : ~Holding(c) /\ cmd[c].phase # "snapshot"
  BY DEF IInv, Commanded, WorkflowAssumption, Holding
<1>2. ASSUME NEW p \in past.cleared PROVE store[p] = "absent"
  <2>1. p \in Prompts
    BY <1>2 DEF IInv, Types, PastType
  <2>2. Kept(p)
    BY <2>1 DEF IInv
  <2> QED BY <1>1, <1>2, <2>2 DEF Kept, WillClear
<1> QED BY <1>1, <1>2

LEMMA AdmitKeeps ==
    ASSUME WorkflowAssumption, IInv, NEW p \in Prompts, Admit(p) PROVE IInv'
<1> DEFINE r == RootFor(p)
           state == IF IdleTree(r) THEN "in_progress" ELSE "pending"
<1>1. /\ Types /\ turn[p].phase = "recorded" /\ lock = None /\ lock' = lock
      /\ IsCurrent(p) /\ ~ParentGone(p)
      /\ root' = [root EXCEPT ![p] = r] /\ node' = [node EXCEPT ![p] = state]
      /\ running' = IF IdleTree(r) THEN running \cup {p} ELSE running
      /\ store' = [q \in Prompts |-> IF root'[q] = r THEN node'[q] ELSE store[q]]
      /\ turn' = [turn EXCEPT ![p].phase = "done"]
      /\ UNCHANGED <<gens, log, file, visible, cmd, notice, past>>
  BY DEF Admit, IInv, history
<1>2. UNCHANGED <<stopGen, clearGen, log, file, visible, cmd, notice, past>>
  BY <1>1 DEF gens
<1>3. /\ turn' \in [Prompts -> TurnType] /\ turn'[p].phase = "done"
      /\ \A q \in Prompts \ {p} : turn'[q] = turn[q]
  BY <1>1, PhaseIs
<1>4. r \in Prompts \cup {None}
  BY <1>1 DEF RootFor, ParentGone, Present, Types
<1>5. state \in Runnable /\ (IdleTree(r) => p \in running') /\ running \subseteq running'
      /\ running' \subseteq running \cup {p} /\ running' \subseteq Prompts
  BY <1>1 DEF Runnable, Types
<1>6. (~IdleTree(r) => state = "pending") /\ (~IdleTree(r) => \E s \in running : root[s] = r)
  BY DEF IdleTree
<1> HIDE DEF r, state
<1>7. /\ root' \in [Prompts -> Prompts \cup {None}] /\ node' \in [Prompts -> States]
      /\ node'[p] = state /\ root'[p] = r
      /\ \A q \in Prompts \ {p} : node'[q] = node[q] /\ root'[q] = root[q]
  BY <1>1, <1>4, <1>5 DEF Types, Runnable, States
<1>8. \A q \in Prompts : store'[q] = node'[q] \/ (root'[q] # r /\ store'[q] = store[q])
  BY <1>1
<1>9. store' \in [Prompts -> States]
  BY <1>1, <1>7 DEF Types
<1>10. Types'
  BY <1>1, <1>2, <1>3, <1>5, <1>7, <1>9 DEF Types
<1>11. /\ \A c \in Commands : ~Holding(c) /\ cmd[c].phase # "snapshot"
       /\ \A q \in past.cleared : store[q] = "absent"
  BY <1>1, NobodyHolds
<1>12. p \notin past.stopped /\ p \notin past.cleared \cup past.erased /\ p \notin running
       /\ node[p] = "absent"
  <2>1. turn[p].token = <<stopGen, clearGen[ChatOf[p]]>> /\ OnWay(p)
    BY <1>1 DEF IsCurrent, Token, OnWay
  <2>2. stopGen \in Nat /\ clearGen[ChatOf[p]] \in Nat
    BY <1>1 DEF Types, WorkflowAssumption
  <2>3. ~(turn[p].token[1] < stopGen) /\ ~(turn[p].token[2] < clearGen[ChatOf[p]])
    BY <2>1, <2>2
  <2>4. Delivered(p) /\ Kept(p)
    BY DEF IInv
  <2> QED BY <1>1, <2>1, <2>3, <2>4 DEF Delivered, Kept, IsStopped, IsCleared
<1>13. ASSUME NEW q \in Prompts PROVE Delivered(q)' /\ Scheduled(q)' /\ Kept(q)'
  <2>1. Delivered(q) /\ Scheduled(q) /\ Kept(q)
    BY DEF IInv
  <2>2. Delivered(q)'
    <3>1. CASE q = p
      BY <1>3, <3>1 DEF Delivered, OnWay
    <3>2. CASE q # p
      BY <1>2, <1>3, <1>5, <1>7, <1>8, <2>1, <3>2 DEF Delivered, OnWay
    <3> QED BY <3>1, <3>2
  <2>3. Scheduled(q)'
    <3>1. CASE q = p
      <4>1. CASE IdleTree(r)
        BY <1>5, <1>7, <3>1, <4>1 DEF Scheduled
      <4>2. CASE ~IdleTree(r)
        <5>1. PICK s \in running : root[s] = r
          BY <1>6, <4>2
        <5>2. s \in running' /\ root'[s] = root'[q]
          BY <1>1, <1>5, <1>7, <1>12, <3>1, <5>1 DEF Types
        <5>3. node'[q] # "in_progress"
          BY <1>6, <1>7, <3>1, <4>2
        <5> QED BY <5>2, <5>3 DEF Scheduled
      <4> QED BY <4>1, <4>2
    <3>2. CASE q # p
      <4>1. \A s \in running : s \in running' /\ root'[s] = root[s]
        BY <1>1, <1>5, <1>7, <1>12 DEF Types
      <4> QED BY <1>7, <2>1, <3>2, <4>1 DEF Scheduled
    <3> QED BY <3>1, <3>2
  <2>4. Kept(q)'
    <3>1. CASE q = p
      <4>1. node'[q] # "completed"
        BY <1>5, <1>7, <3>1 DEF Runnable
      <4> QED BY <1>2, <1>12, <3>1, <4>1 DEF Kept
    <3>2. CASE q # p
      <4>1. node'[q] = node[q] /\ turn'[q] = turn[q] /\ root'[q] = root[q]
        BY <1>3, <1>7, <3>2
      <4>2. q \in past.stopped => IsStopped(q)'
        BY <1>2, <2>1, <4>1 DEF Kept, IsStopped, OnWay
      <4>3. q \in past.cleared \cup past.erased => IsCleared(q)'
        BY <1>2, <2>1, <4>1 DEF Kept, IsCleared, OnWay
      <4>4. q \in past.cleared \cup past.erased => node[q] = "absent" /\ store[q] = "absent"
        BY <1>11, <2>1 DEF Kept, IsCleared
      <4>5. q \in past.cleared \cup past.erased => store'[q] = "absent"
        BY <1>8, <4>1, <4>4
      <4>6. node'[q] = "completed" /\ root'[q] \notin past.overtaken => store'[q] = "completed"
        BY <1>8, <2>1, <4>1 DEF Kept
      <4>7. \A c \in Commands : cmd'[c].phase # "snapshot"
        BY <1>2, <1>11
      <4>8. q \in past.erased => file.nodes[q] = "absent"
        BY <2>1 DEF Kept
      <4> QED BY <1>2, <4>2, <4>3, <4>5, <4>6, <4>7, <4>8 DEF Kept
    <3> QED BY <3>1, <3>2
  <2> QED BY <2>2, <2>3, <2>4
<1>14. \A c \in Commands : Commanded(c)'
  BY <1>1, <1>2, CommandsStay, SameHoldIs
<1>15. Found'
  <2>1. p \in Present' /\ \A q \in Prompts : node[q] # "absent" => node'[q] # "absent"
    BY <1>5, <1>7, <1>12 DEF Present, Runnable
  <2>2. ASSUME NEW m PROVE Listed(m) \/ Coming(m) => Listed(m)' \/ Coming(m)'
    <3>1. Listed(m) => Listed(m)'
      BY <1>2, <2>1, ListedStays
    <3>2. m = Status(p) => Listed(m)'
      BY <2>1 DEF Listed, Messages
    <3>3. Coming(m) => m = Status(p) \/ Coming(m)'
      BY <1>2, <1>3 DEF Coming
    <3> QED BY <3>1, <3>2, <3>3
  <2> QED BY <1>2, <2>2, FoundIs
<1>16. Sorted'
  BY <1>1, <1>2, SortedStays
<1> QED BY <1>10, <1>13, <1>14, <1>15, <1>16 DEF IInv

-----------------------------------------------------------------------------
(* The runner of a prompt *)

LEMMA RunnerWritesKeeps ==
    ASSUME WorkflowAssumption, IInv, NEW p \in Prompts, RunnerWrites(p) PROVE IInv'
<1>1. /\ Types /\ node[p] = "in_progress" /\ lock' = lock
      /\ store' = Saved(node', {root[p]})
      /\ past' = [past EXCEPT !.overtaken = @ \cup
                    {r \in {root[p]} : \E c \in Commands : cmd[c].phase = "snapshot" /\ r \in cmd[c].trees}]
      /\ UNCHANGED <<gens, turn, root, running, log, file, visible, cmd, notice>>
  BY DEF RunnerWrites, IInv
<1>2. UNCHANGED <<stopGen, clearGen, turn, root, running, log, file, visible, cmd, notice>>
  BY <1>1 DEF gens
<1>3. PICK state \in {"completed", "error"} :
         node' = [q \in Prompts |->
                    IF q = p THEN state
                    ELSE IF state = "error" /\ Parent[q] = p /\ root[q] = root[p] /\ node[q] = "pending"
                         THEN "error" ELSE node[q]]
  BY DEF RunnerWrites
<1>4. /\ node' \in [Prompts -> States] /\ node'[p] = state
      /\ \A q \in Prompts : /\ node'[q] = "absent" <=> node[q] = "absent"
                            /\ node'[q] \in Runnable => node'[q] = node[q]
                            /\ node'[q] = "completed" => q = p \/ node[q] = "completed"
  BY <1>1, <1>3 DEF Types, States, Runnable
<1>5. /\ store' \in [Prompts -> States]
      /\ \A q \in Prompts : store'[q] = IF root[q] = root[p] THEN node'[q] ELSE store[q]
  BY <1>1, <1>2, <1>4 DEF Types, Saved
<1>6. /\ past' \in PastType /\ past'.stopped = past.stopped /\ past'.cleared = past.cleared
      /\ past'.erased = past.erased /\ past'.gaveUp = past.gaveUp
      /\ past.overtaken \subseteq past'.overtaken
      /\ \A c \in Commands : cmd[c].phase = "snapshot" /\ root[p] \in cmd[c].trees =>
                                root[p] \in past'.overtaken
  BY <1>1 DEF Types, PastType
<1>7. Types'
  BY <1>1, <1>2, <1>4, <1>5, <1>6 DEF Types
<1>8. ASSUME NEW q \in Prompts PROVE Delivered(q)' /\ Scheduled(q)' /\ Kept(q)'
  <2>1. Delivered(q) /\ Scheduled(q) /\ Kept(q)
    BY DEF IInv
  <2>2. Delivered(q)'
    BY <1>2, <1>4, <1>5, <2>1 DEF Delivered, OnWay
  <2>3. Scheduled(q)'
    BY <1>2, <1>4, <2>1 DEF Scheduled, Runnable
  <2>4. Kept(q)'
    <3>1. q \in past.stopped => IsStopped(q)'
      BY <1>2, <1>4, <2>1 DEF Kept, IsStopped, OnWay
    <3>2. q \in past.cleared \cup past.erased => node'[q] = "absent" /\ IsCleared(q)'
      BY <1>2, <1>4, <2>1 DEF Kept, IsCleared, OnWay
    <3>3. \A c \in Commands : WillClear(c, q)' <=> WillClear(c, q)
      BY <1>2 DEF WillClear, Holding
    <3>4. q \in past.cleared => store'[q] = "absent" \/ \E c \in Commands : WillClear(c, q)'
      BY <1>5, <2>1, <3>2, <3>3 DEF Kept
    <3>5. q \in past.erased => store'[q] = "absent" /\ file'.nodes[q] = "absent"
      BY <1>2, <1>5, <2>1, <3>2 DEF Kept
    <3>6. ASSUME node'[q] = "completed", root[q] \notin past'.overtaken
          PROVE  /\ store'[q] = "completed"
                 /\ \A c \in Commands : cmd[c].phase = "snapshot" /\ ~IsClearChat(cmd[c].kind)
                                    /\ root[q] \in cmd[c].trees => cmd[c].snap[q] = "completed"
      <4>1. CASE q = p
        BY <1>5, <1>6, <3>6, <4>1
      <4>2. CASE q # p
        BY <1>4, <1>5, <1>6, <2>1, <3>6, <4>2 DEF Kept
      <4> QED BY <4>1, <4>2
    <3> QED BY <1>2, <1>6, <3>1, <3>2, <3>4, <3>5, <3>6 DEF Kept
  <2> QED BY <2>2, <2>3, <2>4
<1>9. \A c \in Commands : Commanded(c)'
  BY <1>1, <1>2, <1>4, CommandsStay, SameHoldIs
<1>10. Found'
  <2>1. ASSUME NEW m PROVE Listed(m) \/ Coming(m) => Listed(m)' \/ Coming(m)'
    <3>1. Listed(m) => Listed(m)'
      BY <1>2, <1>4, ListedStays
    <3>2. Coming(m) => Coming(m)'
      BY <1>2 DEF Coming
    <3> QED BY <3>1, <3>2
  <2> QED BY <1>2, <1>6, <2>1, FoundIs
<1>11. Sorted'
  BY <1>1, <1>2, SortedStays
<1> QED BY <1>7, <1>8, <1>9, <1>10, <1>11 DEF IInv

\* Of the prompts that wait, one is the first.
LEMMA FirstIs ==
    ASSUME WorkflowAssumption, NEW S \in SUBSET Prompts, S # {}
    PROVE  \E q \in S : \A s \in S : q <= s
<1>1. S \subseteq Nat
  BY DEF WorkflowAssumption
<1>2. PICK q \in S : \A s \in S : ~(<<s, q>> \in OpToRel(<, Nat))
  BY <1>1, NatLessThanWellFounded, WFMin
<1>3. \A s \in S : ~(s < q)
  BY <1>1, <1>2 DEF OpToRel
<1> QED BY <1>1, <1>3

LEMMA RunnerEndsKeeps ==
    ASSUME WorkflowAssumption, IInv, NEW p \in Prompts, RunnerEnds(p) PROVE IInv'
<1> DEFINE waiting == {q \in Prompts : root[q] = root[p] /\ node[q] = "pending"}
           first   == {q \in waiting : \A s \in waiting : q <= s}
<1>1. /\ Types /\ node[p] # "in_progress" /\ lock' = lock
      /\ running' = (running \ {p}) \cup first
      /\ node' = [q \in Prompts |-> IF q \in first THEN "in_progress" ELSE node[q]]
      /\ UNCHANGED <<gens, turn, root, log, disk, visible, cmd, notice, past>>
  BY DEF RunnerEnds, IInv, history
<1>2. UNCHANGED <<stopGen, clearGen, turn, root, log, store, file, visible, cmd, notice, past>>
  BY <1>1 DEF gens, disk
<1>3. /\ first \subseteq Prompts
      /\ \A q \in first : root[q] = root[p] /\ node[q] = "pending"
      /\ \A q \in Prompts : node[q] = "pending" /\ root[q] = root[p] => first # {}
  BY FirstIs
<1> HIDE DEF waiting, first
<1>4. /\ node' \in [Prompts -> States] /\ running' \subseteq Prompts
      /\ \A q \in Prompts : /\ node'[q] = "absent" <=> node[q] = "absent"
                            /\ node'[q] \in Runnable <=> node[q] \in Runnable
                            /\ node'[q] = "completed" <=> node[q] = "completed"
                            /\ node'[q] = "in_progress" => q \in first \/ node[q] = "in_progress"
  BY <1>1, <1>3 DEF Types, States, Runnable
<1>7. Types'
  BY <1>1, <1>2, <1>4 DEF Types
<1>8. ASSUME NEW q \in Prompts PROVE Delivered(q)' /\ Scheduled(q)' /\ Kept(q)'
  <2>1. Delivered(q) /\ Scheduled(q) /\ Kept(q)
    BY DEF IInv
  <2>2. Delivered(q)'
    <3>1. turn[q].phase # "done" => q \notin running'
      BY <1>1, <1>3, <2>1 DEF Delivered
    <3> QED BY <1>2, <1>4, <2>1, <3>1 DEF Delivered, OnWay
  <2>3. Scheduled(q)'
    <3>1. node'[q] = "in_progress" => q \in running'
      BY <1>1, <1>4, <2>1 DEF Scheduled
    <3>2. ASSUME node'[q] \in Runnable PROVE \E s \in running' : root[s] = root[q]
      <4>1. node[q] \in Runnable
        BY <1>4, <3>2
      <4>2. CASE root[q] # root[p]
        BY <1>1, <2>1, <4>1, <4>2 DEF Scheduled
      <4>3. CASE node[q] = "in_progress"
        BY <1>1, <2>1, <4>3 DEF Scheduled
      <4>4. CASE root[q] = root[p] /\ node[q] = "pending"
        BY <1>1, <1>3, <4>4
      <4> QED BY <4>1, <4>2, <4>3, <4>4 DEF Runnable
    <3> QED BY <1>2, <3>1, <3>2 DEF Scheduled
  <2>4. Kept(q)'
    <3>1. q \in past.stopped => IsStopped(q)'
      BY <1>2, <1>4, <2>1 DEF Kept, IsStopped, OnWay
    <3>2. q \in past.cleared \cup past.erased => IsCleared(q)'
      BY <1>2, <1>4, <2>1 DEF Kept, IsCleared, OnWay
    <3>3. \A c \in Commands : WillClear(c, q)' <=> WillClear(c, q)
      BY <1>2 DEF WillClear, Holding
    <3> QED BY <1>2, <1>4, <2>1, <3>1, <3>2, <3>3 DEF Kept
  <2> QED BY <2>2, <2>3, <2>4
<1>9. \A c \in Commands : Commanded(c)'
  BY <1>1, <1>2, <1>4, CommandsStay, SameHoldIs
<1>10. Found'
  <2>1. ASSUME NEW m PROVE Listed(m) \/ Coming(m) => Listed(m)' \/ Coming(m)'
    <3>1. Listed(m) => Listed(m)'
      BY <1>2, <1>4, ListedStays
    <3>2. Coming(m) => Coming(m)'
      BY <1>2 DEF Coming
    <3> QED BY <3>1, <3>2
  <2> QED BY <1>2, <2>1, FoundIs
<1>11. Sorted'
  BY <1>1, <1>2, SortedStays
<1> QED BY <1>7, <1>8, <1>9, <1>10, <1>11 DEF IInv

-----------------------------------------------------------------------------
(* Commands *)

LEMMA AskKeeps ==
    ASSUME WorkflowAssumption, IInv, NEW c \in Commands, Ask(c) PROVE IInv'
<1>1. /\ Types /\ cmd[c].phase = "new" /\ lock = None /\ lock' = lock
      /\ visible' = visible \cup {Command(c)} /\ Command(c) \in AllMessages
      /\ UNCHANGED <<gens, turn, trees, disk, notice, past>>
  BY DEF Ask, IInv, history, AllMessages
<1>2. UNCHANGED <<stopGen, clearGen, turn, node, root, running, store, file, notice, past>>
  BY <1>1 DEF gens, trees, disk
<1>3. PICK kind \in Kinds, p \in Prompts :
        /\ cmd' = [cmd EXCEPT ![c] = [@ EXCEPT !.phase = "asked", !.kind = kind, !.target = p]]
        /\ log' = IF IsClearChat(kind) THEN log ELSE Record(Command(c))
  BY DEF Ask, Kinds
<1>4. /\ cmd' \in [Commands -> CommandType] /\ cmd'[c].phase = "asked" /\ cmd'[c].kind = kind
      /\ \A d \in Commands \ {c} : cmd'[d] = cmd[d]
  <2>1. cmd'[c] = [cmd[c] EXCEPT !.phase = "asked", !.kind = kind, !.target = p]
    BY <1>1, <1>3 DEF Types
  <2>2. cmd'[c] \in CommandType /\ cmd'[c].phase = "asked" /\ cmd'[c].kind = kind
    BY <1>1, <2>1 DEF Types, CommandType
  <2> QED BY <1>1, <1>3, <2>2 DEF Types
<1>5. /\ log' \in [Chats -> SUBSET AllMessages] /\ Sorted'
      /\ \A ch \in Chats : log[ch] \subseteq log'[ch]
      /\ ~IsClearChat(kind) => Command(c) \in log'[ChatOfMessage(Command(c))]
  <2>1. CASE IsClearChat(kind)
    BY <1>1, <1>2, <1>3, <2>1, SortedStays DEF Types
  <2>2. CASE ~IsClearChat(kind)
    BY <1>1, <1>2, <1>3, <2>2, RecordIs
  <2> QED BY <2>1, <2>2
<1>6. Types'
  BY <1>1, <1>2, <1>4, <1>5 DEF Types
<1>7. \A d \in Commands : SameHold(d)
  BY <1>1, <1>4 DEF SameHold, Holding
<1>8. \A q \in Prompts : Delivered(q)' /\ Scheduled(q)' /\ Kept(q)'
  BY <1>1, <1>2, <1>7, PromptsStay, HistoryStays
<1>9. \A d \in Commands : Commanded(d)'
  BY <1>1, <1>7, CommandsStay
<1>10. Found'
  <2>1. ASSUME NEW m \in visible PROVE Listed(m) \/ Coming(m) => Listed(m)' \/ Coming(m)'
    <3>1. m \in log[ChatOfMessage(m)] => m \in log'[ChatOfMessage(m)]
      BY <1>1, <1>5, ChatsAre DEF Types
    <3>2. Listed(m) => Listed(m)'
      BY <1>1, <1>2, <1>4, <3>1, ListedStays
    <3>3. Coming(m) => Coming(m)'
      BY <1>1, <1>2, <1>4 DEF Coming
    <3> QED BY <3>2, <3>3
  <2>2. Listed(Command(c))' \/ Coming(Command(c))'
    BY <1>4, <1>5 DEF Listed, Coming
  <2> QED BY <1>1, <1>2, <2>1, <2>2, FoundIs
<1> QED BY <1>5, <1>6, <1>8, <1>9, <1>10 DEF IInv

LEMMA AtMostIs ==
    ASSUME NEW i \in Nat, NEW j \in Nat, NEW k \in Nat, j <= k
    PROVE  (i <= j => i <= k) /\ (i < j => i < k)
OBVIOUS

\* A transition settles prompts, or takes them out of their trees and lists their messages;
\* it may open a new generation, and the history is told what it stopped and cleared.
Settles(nodes, ids) ==
    \A q \in Prompts : \/ nodes[q] = node[q]
                       \/ node[q] \in Runnable /\ nodes[q] = "error"
                       \/ nodes[q] = "absent" /\ Messages({q}) \subseteq ids
Dates ==
    /\ stopGen' \in Nat /\ clearGen' \in [Chats -> Nat] /\ stopGen <= stopGen'
    /\ \A ch \in Chats : clearGen[ch] <= clearGen'[ch]
Tells(c, nodes, roots) ==
    /\ past' \in PastType /\ past'.erased = past.erased /\ past'.overtaken = past.overtaken
    /\ past'.gaveUp = past.gaveUp
    /\ \A q \in past'.stopped \ past.stopped :
          /\ turn[q].phase # "new" /\ nodes[q] \notin Runnable
          /\ OnWay(q) => turn[q].token[1] < stopGen'
    /\ \A q \in past'.cleared \ past.cleared :
          /\ turn[q].phase # "new" /\ nodes[q] = "absent"
          /\ OnWay(q) => turn[q].token[2] < clearGen'[ChatOf[q]]
          /\ IF IsClearChat(cmd[c].kind) THEN ChatOf[q] = HomeChat ELSE root[q] \in roots
Lists(c, nodes, ids) ==
    /\ IsClearChat(cmd[c].kind) => /\ \A q \in Prompts : ChatOf[q] = HomeChat => nodes[q] = "absent"
                                   /\ Command(c) \in ids /\ log[HomeChat] \subseteq ids
    /\ ~IsClearChat(cmd[c].kind) /\ cmd[c].kind # "clear reply" => ids = {}

Beside == UNCHANGED <<turn, root, running, log, disk, visible, notice>>

LEMMA EnterKeeps ==
    ASSUME WorkflowAssumption, IInv, NEW c \in Commands, lock = None, cmd[c].phase = "asked",
           NEW nodes \in [Prompts -> States], NEW roots \in SUBSET (Prompts \cup {None}),
           NEW ids \in SUBSET AllMessages, NEW hit \in SUBSET Prompts, Enter(c, nodes, roots, ids, hit),
           Beside,
           Settles(nodes, ids), Dates, Tells(c, nodes, roots), Lists(c, nodes, ids)
    PROVE  IInv'
<1>1. /\ Types /\ lock' = c /\ node' = nodes
      /\ cmd' = [cmd EXCEPT ![c].phase = "draining", ![c].trees = roots, ![c].ids = ids,
                            ![c].scopes = {ChatOf[p] : p \in hit}]
  BY DEF Enter, IInv
<1>2. UNCHANGED <<turn, root, running, log, store, file, visible, notice>>
  BY DEF disk, Beside
<1>3. /\ cmd' \in [Commands -> CommandType] /\ cmd'[c].phase = "draining" /\ cmd'[c].kind = cmd[c].kind
      /\ cmd'[c].trees = roots /\ cmd'[c].ids = ids /\ \A d \in Commands \ {c} : cmd'[d] = cmd[d]
  <2> DEFINE scopes == {ChatOf[p] : p \in hit}
  <2>1. scopes \subseteq Chats
    <3>1. \A p \in hit : ChatOf[p] \in Chats
      BY DEF WorkflowAssumption
    <3> QED BY <3>1
  <2>2. cmd'[c] = [cmd[c] EXCEPT !.phase = "draining", !.trees = roots, !.ids = ids, !.scopes = scopes]
    BY <1>1 DEF Types
  <2>3. cmd[c] \in CommandType
    BY <1>1 DEF Types
  <2>4. cmd' = [cmd EXCEPT ![c] = cmd'[c]]
    BY <1>1 DEF Types
  <2> HIDE DEF scopes
  <2>5. /\ cmd'[c] \in CommandType /\ cmd'[c].phase = "draining" /\ cmd'[c].kind = cmd[c].kind
        /\ cmd'[c].trees = roots /\ cmd'[c].ids = ids
    BY <2>1, <2>2, <2>3 DEF CommandType
  <2> QED BY <1>1, <2>4, <2>5 DEF Types
<1>4. Types'
  BY <1>1, <1>2, <1>3 DEF Types, Dates, Tells
<1>5. /\ \A d \in Commands : ~Holding(d) /\ cmd[d].phase # "snapshot"
      /\ \A q \in past.cleared : store[q] = "absent"
  BY NobodyHolds
<1>6. \A d \in Commands : (Holding(d)' <=> d = c) /\ cmd'[d].phase # "snapshot"
  BY <1>3, <1>5 DEF Holding
<1>7. /\ node' \in [Prompts -> States]
      /\ \A q \in Prompts : /\ node[q] = "absent" => node'[q] = "absent"
                            /\ node'[q] \in Runnable => node'[q] = node[q]
                            /\ node'[q] = "completed" => node[q] = "completed"
  BY <1>1 DEF Runnable, Settles
<1>8. ASSUME NEW q \in Prompts PROVE Delivered(q)' /\ Scheduled(q)' /\ Kept(q)'
  <2>1. Delivered(q) /\ Scheduled(q) /\ Kept(q) /\ (OnWay(q)' <=> OnWay(q))
    BY <1>2 DEF IInv, OnWay
  <2>2. Delivered(q)'
    <3>1. OnWay(q) => /\ turn[q].token \in Nat \X Nat /\ turn[q].token[1] \in Nat /\ turn[q].token[2] \in Nat
                       /\ turn[q].token[1] <= stopGen /\ turn[q].token[2] <= clearGen[ChatOf[q]]
      BY <2>1 DEF Delivered, OnWay
    <3>2. /\ ChatOf[q] \in Chats /\ stopGen \in Nat /\ clearGen[ChatOf[q]] \in Nat
          /\ clearGen'[ChatOf[q]] \in Nat /\ clearGen[ChatOf[q]] <= clearGen'[ChatOf[q]]
      BY <1>1 DEF Types, WorkflowAssumption, Dates
    <3>3. OnWay(q) => turn[q].token[1] <= stopGen' /\ turn[q].token[2] <= clearGen'[ChatOf[q]]
      BY <3>1, <3>2, AtMostIs DEF Dates
    <3> QED BY <1>2, <1>6, <1>7, <2>1, <3>1, <3>3 DEF Delivered
  <2>3. Scheduled(q)'
    BY <1>2, <1>7, <2>1 DEF Scheduled, Runnable
  <2>4. Kept(q)'
    <3>1. q \in past'.stopped => IsStopped(q)'
      <4>1. CASE q \in past.stopped
        <5>1. /\ turn[q].phase # "new" /\ node[q] \notin Runnable
              /\ OnWay(q) => (turn[q].token[1] < stopGen /\ turn[q].token[1] \in Nat)
          BY <2>1, <4>1 DEF Kept, IsStopped, Delivered
        <5>2. stopGen \in Nat
          BY <1>1 DEF Types
        <5>3. OnWay(q) => turn[q].token[1] < stopGen'
          BY <5>1, <5>2, AtMostIs DEF Dates
        <5> QED BY <1>2, <1>7, <2>1, <5>1, <5>3 DEF IsStopped
      <4>2. CASE q \notin past.stopped
        BY <1>1, <1>2, <2>1, <4>2 DEF IsStopped, Tells
      <4> QED BY <4>1, <4>2
    <3>2. q \in past'.cleared \cup past'.erased => IsCleared(q)'
      <4>1. CASE q \in past.cleared \cup past.erased
        <5>1. /\ turn[q].phase # "new" /\ node[q] = "absent"
              /\ OnWay(q) => (turn[q].token[2] < clearGen[ChatOf[q]] /\ turn[q].token[2] \in Nat)
          BY <2>1, <4>1 DEF Kept, IsCleared, Delivered
        <5>2. /\ clearGen[ChatOf[q]] \in Nat /\ clearGen'[ChatOf[q]] \in Nat
              /\ clearGen[ChatOf[q]] <= clearGen'[ChatOf[q]]
          BY <1>1 DEF Types, WorkflowAssumption, Dates
        <5>3. OnWay(q) => turn[q].token[2] < clearGen'[ChatOf[q]]
          BY <5>1, <5>2, AtMostIs
        <5> QED BY <1>2, <1>6, <1>7, <2>1, <5>1, <5>3 DEF IsCleared
      <4>2. CASE q \notin past.cleared \cup past.erased
        BY <1>1, <1>2, <1>6, <2>1, <4>2 DEF IsCleared, Tells
      <4> QED BY <4>1, <4>2
    <3>3. q \in past'.cleared => store'[q] = "absent" \/ \E d \in Commands : WillClear(d, q)'
      <4>1. CASE q \in past.cleared
        BY <1>2, <1>5, <4>1
      <4>2. CASE q \in past'.cleared \ past.cleared
        <5>1. WillClear(c, q)'
          BY <1>2, <1>3, <1>6, <4>2 DEF WillClear, Tells
        <5> QED BY <5>1
      <4> QED BY <4>1, <4>2
    <3>4. q \in past'.erased => store'[q] = "absent" /\ file'.nodes[q] = "absent"
      BY <1>2, <2>1 DEF Kept, Tells
    <3>5. node'[q] = "completed" /\ root'[q] \notin past'.overtaken => store'[q] = "completed"
      BY <1>2, <1>7, <2>1 DEF Kept, Tells
    <3> QED BY <1>2, <1>6, <3>1, <3>2, <3>3, <3>4, <3>5 DEF Kept
  <2> QED BY <2>2, <2>3, <2>4
<1>9. ASSUME NEW d \in Commands PROVE Commanded(d)'
  <2>1. (lock' = d <=> Holding(d)')
    BY <1>1, <1>6
  <2>2. CASE d = c
    BY <1>1, <1>2, <1>3, <1>6, <2>1, <2>2 DEF Commanded, Lists
  <2>3. CASE d # c
    BY <1>6, <2>1, <2>3 DEF Commanded
  <2> QED BY <2>2, <2>3
<1>10. Found'
  <2>1. ASSUME NEW m PROVE Listed(m) \/ Coming(m) => Listed(m)' \/ Coming(m)'
    <3>1. m \in log[ChatOfMessage(m)] => Listed(m)'
      BY <1>2 DEF Listed
    <3>2. m \in Messages(Present) => Listed(m)'
      <4>1. ASSUME m \in Messages(Present) PROVE Listed(m)'
        <5>1. PICK q \in Present : m = Prompt(q) \/ m = Status(q)
          BY <4>1 DEF Messages
        <5>2. q \in Prompts /\ m \in Messages({q}) /\ node[q] # "absent"
          BY <5>1 DEF Messages, Present
        <5>3. CASE nodes[q] = "absent"
          <6>1. m \in cmd'[c].ids
            BY <1>3, <5>2, <5>3 DEF Settles, Runnable
          <6> QED BY <1>3, <6>1 DEF Listed
        <5>4. CASE nodes[q] # "absent"
          <6>1. q \in Present'
            BY <1>1, <5>2, <5>4 DEF Present
          <6> QED BY <5>1, <6>1 DEF Listed, Messages
        <5> QED BY <5>3, <5>4
      <4> QED BY <4>1
    <3>3. ASSUME NEW d \in Commands, m \in cmd[d].ids, cmd[d].phase \in {"draining", "snapshot", "deleting"}
          PROVE  Listed(m)'
      <4>1. cmd'[d] = cmd[d]
        BY <1>3, <3>3
      <4> QED BY <3>3, <4>1 DEF Listed
    <3>4. Coming(m) => Listed(m)' \/ Coming(m)'
      <4>1. ASSUME NEW d \in Commands, m = Command(d), cmd[d].phase = "asked", IsClearChat(cmd[d].kind)
            PROVE  Listed(m)' \/ Coming(m)'
        <5>1. CASE d = c
          <6>1. m \in cmd'[c].ids
            BY <1>3, <4>1, <5>1 DEF Lists
          <6> QED BY <1>3, <6>1 DEF Listed
        <5>2. CASE d # c
          <6>1. cmd'[d] = cmd[d]
            BY <1>3, <5>2
          <6> QED BY <4>1, <6>1 DEF Coming
        <5> QED BY <5>1, <5>2
      <4> QED BY <1>2, <4>1 DEF Coming
    <3> QED BY <3>1, <3>2, <3>3, <3>4 DEF Listed
  <2> QED BY <1>2, <2>1, FoundIs DEF Tells
<1>11. Sorted'
  BY <1>2, SortedStays
<1> QED BY <1>4, <1>8, <1>9, <1>10, <1>11 DEF IInv

LEMMA SameDates ==
    ASSUME Types, UNCHANGED gens PROVE Dates
<1>1. stopGen \in Nat /\ clearGen \in [Chats -> Nat] /\ stopGen' = stopGen /\ clearGen' = clearGen
  BY DEF Types, gens
<1> QED BY <1>1 DEF Dates

\* What is in a tree has been delivered.
LEMMA DeliveredIs ==
    ASSUME IInv, NEW q \in Present
    PROVE  q \in Prompts /\ turn[q].phase = "done" /\ ~OnWay(q)
BY DEF IInv, Delivered, Present, OnWay

LEMMA StopReplyKeeps ==
    ASSUME WorkflowAssumption, IInv, NEW c \in Commands, StopReply(c) PROVE IInv'
<1> DEFINE p == cmd[c].target
<1>1. PICK nodes, roots, ids, hit :
         /\ nodes = Settle({p}) /\ roots = (IF p \in Present THEN {root[p]} ELSE {})
         /\ ids = {} /\ hit = {p} \cap {q \in Present : node[q] \in Runnable}
  OBVIOUS
<1> HIDE DEF p
<1>2. /\ Types /\ cmd[c].phase = "asked" /\ cmd[c].kind = "stop reply" /\ lock = None
      /\ Enter(c, nodes, roots, ids, hit) /\ past' = [past EXCEPT !.stopped = @ \cup hit]
      /\ Beside /\ UNCHANGED gens
  BY <1>1 DEF StopReply, Beside, IInv, p
<1>3. /\ nodes \in [Prompts -> States] /\ roots \in SUBSET (Prompts \cup {None})
      /\ ids \in SUBSET AllMessages /\ hit \in SUBSET Prompts
  BY <1>1, <1>2 DEF Types, Settle, Present, States
<1>4. Settles(nodes, ids)
  BY <1>1, <1>2, <1>3 DEF Settles, Settle, Types
<1>5. /\ past' \in PastType /\ past'.stopped = past.stopped \cup hit /\ past'.cleared = past.cleared
      /\ past'.erased = past.erased /\ past'.overtaken = past.overtaken /\ past'.gaveUp = past.gaveUp
  BY <1>2, <1>3 DEF Types, PastType
<1>6. \A q \in hit : turn[q].phase # "new" /\ nodes[q] = "error" /\ ~OnWay(q)
  BY <1>1, DeliveredIs DEF Settle
<1>7. Tells(c, nodes, roots)
  BY <1>5, <1>6 DEF Tells, Runnable
<1>8. Lists(c, nodes, ids)
  BY <1>1, <1>2 DEF Lists, IsClearChat
<1> QED BY <1>2, <1>3, <1>4, <1>7, <1>8, SameDates, EnterKeeps

LEMMA StopAllKeeps ==
    ASSUME WorkflowAssumption, IInv, NEW c \in Commands, StopAll(c) PROVE IInv'
<1>1. PICK nodes, roots, ids, hit :
         /\ nodes = Settle(Present) /\ roots = {root[p] : p \in Present}
         /\ ids = {} /\ hit = {p \in Present : node[p] \in Runnable}
  OBVIOUS
<1>2. /\ Types /\ cmd[c].phase = "asked" /\ cmd[c].kind = "stop all" /\ lock = None
      /\ Enter(c, nodes, roots, ids, hit)
      /\ past' = [past EXCEPT !.stopped = @ \cup Received(Prompts)]
      /\ Beside /\ stopGen' = stopGen + 1 /\ clearGen' = clearGen
  BY <1>1 DEF StopAll, Beside, IInv
<1>3. /\ nodes \in [Prompts -> States] /\ roots \in SUBSET (Prompts \cup {None})
      /\ ids \in SUBSET AllMessages /\ hit \in SUBSET Prompts
  <2>1. nodes \in [Prompts -> States]
    BY <1>1, <1>2 DEF Types, Settle, States
  <2>2. \A q \in Present : root[q] \in Prompts \cup {None}
    BY <1>2 DEF Types, Present
  <2>3. hit \in SUBSET Prompts
    BY <1>1 DEF Present
  <2> QED BY <1>1, <2>1, <2>2, <2>3
<1>4. Settles(nodes, ids)
  BY <1>1, <1>2, <1>3 DEF Settles, Settle, Types
<1>5. /\ past' \in PastType /\ past'.stopped = past.stopped \cup Received(Prompts)
      /\ past'.cleared = past.cleared
      /\ past'.erased = past.erased /\ past'.overtaken = past.overtaken /\ past'.gaveUp = past.gaveUp
  BY <1>2 DEF Types, PastType, Received
<1>6. stopGen \in Nat /\ clearGen \in [Chats -> Nat]
  BY <1>2 DEF Types
<1>7. Dates
  <2>1. \A i \in Nat : i <= i /\ i <= i + 1 /\ i + 1 \in Nat
    OBVIOUS
  <2>2. \A ch \in Chats : clearGen[ch] \in Nat
    BY <1>6
  <2> QED BY <1>2, <1>6, <2>1, <2>2 DEF Dates
<1>8. ASSUME NEW q \in Received(Prompts)
      PROVE  /\ turn[q].phase # "new" /\ nodes[q] \notin Runnable
             /\ OnWay(q) => turn[q].token[1] < stopGen'
  <2>1. q \in Prompts /\ turn[q].phase # "new"
    BY <1>8 DEF Received
  <2>2. nodes[q] \notin Runnable
    BY <1>1, <2>1 DEF Settle, Runnable, Present
  <2>3. OnWay(q) => turn[q].token \in Nat \X Nat /\ turn[q].token[1] <= stopGen
    BY <2>1 DEF IInv, Delivered
  <2>4. OnWay(q) => turn[q].token[1] \in Nat
    BY <2>3
  <2>5. \A i \in Nat : i <= stopGen => i < stopGen + 1
    BY <1>6
  <2> QED BY <1>2, <2>1, <2>2, <2>3, <2>4, <2>5
<1>9. Tells(c, nodes, roots)
  BY <1>5, <1>8 DEF Tells
<1>10. Lists(c, nodes, ids)
  BY <1>1, <1>2 DEF Lists, IsClearChat
<1> QED BY <1>2, <1>3, <1>4, <1>7, <1>9, <1>10, EnterKeeps

LEMMA BelowIs ==
    ASSUME NEW p \in Present
    PROVE  Below(p) \subseteq Present /\ \A q \in Below(p) : root[q] = root[p]
<1> DEFINE tree == {q \in Prompts : root[q] = root[p]}
<1>1. tree \in SUBSET Prompts /\ p \in tree
  BY DEF Present
<1>2. \A s \in tree, r \in Prompts : Parent[r] = s /\ root[r] = root[s] => r \in tree
  OBVIOUS
<1> HIDE DEF tree
<1>3. \A q \in Below(p) : q \in tree
  BY <1>1, <1>2 DEF Below, Above
<1> QED BY <1>3 DEF Below, tree

LEMMA ClearReplyKeeps ==
    ASSUME WorkflowAssumption, IInv, NEW c \in Commands, ClearReply(c) PROVE IInv'
<1> DEFINE p == cmd[c].target
<1>1. PICK gone : gone = IF p \in Present THEN Below(p) ELSE {}
  OBVIOUS
<1>2. PICK nodes, roots, ids, hit :
         /\ nodes = Detach(gone) /\ roots = (IF p \in Present THEN {root[p]} ELSE {})
         /\ ids = (IF gone = {} THEN {} ELSE Messages(gone) \cup {Command(c)}) /\ hit = {}
  OBVIOUS
<1>3. /\ gone \subseteq Present /\ \A q \in gone : root[q] \in roots
  BY <1>1, <1>2, BelowIs
<1> HIDE DEF p
<1>4. /\ Types /\ cmd[c].phase = "asked" /\ cmd[c].kind = "clear reply" /\ lock = None
      /\ Enter(c, nodes, roots, ids, hit) /\ past' = [past EXCEPT !.cleared = @ \cup gone]
      /\ Beside /\ UNCHANGED gens
  BY <1>1, <1>2 DEF ClearReply, Beside, IInv, p
<1>5. /\ nodes \in [Prompts -> States] /\ roots \in SUBSET (Prompts \cup {None})
      /\ ids \in SUBSET AllMessages /\ hit \in SUBSET Prompts
  <2>1. nodes \in [Prompts -> States] /\ roots \in SUBSET (Prompts \cup {None})
    BY <1>2, <1>4 DEF Types, Detach, Present, States
  <2>2. Messages(gone) \subseteq AllMessages /\ Command(c) \in AllMessages
    BY <1>3 DEF Messages, Present, AllMessages
  <2> QED BY <1>2, <2>1, <2>2
<1>6. Settles(nodes, ids)
  <2>1. ASSUME NEW q \in Prompts
        PROVE  nodes[q] = node[q] \/ (nodes[q] = "absent" /\ Messages({q}) \subseteq ids)
    <3>1. CASE q \in gone
      BY <1>2, <3>1 DEF Detach, Messages
    <3>2. CASE q \notin gone
      BY <1>2, <3>2 DEF Detach
    <3> QED BY <3>1, <3>2
  <2> QED BY <1>4, <1>5, <2>1 DEF Settles, Types
<1>7. /\ past' \in PastType /\ past'.stopped = past.stopped /\ past'.cleared = past.cleared \cup gone
      /\ past'.erased = past.erased /\ past'.overtaken = past.overtaken /\ past'.gaveUp = past.gaveUp
  BY <1>3, <1>4 DEF Types, PastType, Present
<1>8. \A q \in gone : turn[q].phase # "new" /\ nodes[q] = "absent" /\ ~OnWay(q)
  BY <1>2, <1>3, DeliveredIs DEF Detach
<1>9. Tells(c, nodes, roots)
  BY <1>3, <1>4, <1>7, <1>8 DEF Tells, IsClearChat
<1>10. Lists(c, nodes, ids)
  BY <1>4 DEF Lists, IsClearChat
<1> QED BY <1>4, <1>5, <1>6, <1>9, <1>10, SameDates, EnterKeeps

LEMMA ClearChatKeeps ==
    ASSUME WorkflowAssumption, IInv, NEW c \in Commands, ClearChat(c) PROVE IInv'
<1> DEFINE gone == InChat(HomeChat)
<1>1. PICK nodes, roots, ids, hit :
         /\ nodes = Detach(gone) /\ roots = {}
         /\ ids = log[HomeChat] \cup Messages(gone) \cup {Command(c)} /\ hit = {}
  OBVIOUS
<1>2. /\ gone \subseteq Present /\ gone \subseteq Prompts
      /\ \A q \in Prompts : ChatOf[q] = HomeChat => q \in gone \/ node[q] = "absent"
  BY DEF InChat, Present
<1>3. PICK met : met = {p \in Received(Prompts) : ChatOf[p] = HomeChat}
  OBVIOUS
<1>4. /\ Types /\ cmd[c].phase = "asked" /\ cmd[c].kind = "clear chat" /\ lock = None
      /\ Enter(c, nodes, roots, ids, hit) /\ past' = [past EXCEPT !.cleared = @ \cup met]
      /\ Beside /\ stopGen' = stopGen /\ clearGen' = [clearGen EXCEPT ![HomeChat] = @ + 1]
  BY <1>1, <1>3 DEF ClearChat, Beside, IInv
<1> HIDE DEF gone
<1>5. /\ nodes \in [Prompts -> States] /\ roots \in SUBSET (Prompts \cup {None})
      /\ ids \in SUBSET AllMessages /\ hit \in SUBSET Prompts
  <2>1. nodes \in [Prompts -> States]
    BY <1>1, <1>4 DEF Types, Detach, States
  <2>2. Messages(gone) \subseteq AllMessages /\ Command(c) \in AllMessages
    BY <1>2 DEF Messages, AllMessages
  <2>3. log[HomeChat] \subseteq AllMessages
    BY <1>4 DEF Types, WorkflowAssumption
  <2> QED BY <1>1, <2>1, <2>2, <2>3
<1>6. Settles(nodes, ids)
  <2>1. ASSUME NEW q \in Prompts
        PROVE  nodes[q] = node[q] \/ (nodes[q] = "absent" /\ Messages({q}) \subseteq ids)
    <3>1. CASE q \in gone
      BY <1>1, <3>1 DEF Detach, Messages
    <3>2. CASE q \notin gone
      BY <1>1, <3>2 DEF Detach
    <3> QED BY <3>1, <3>2
  <2> QED BY <1>4, <1>5, <2>1 DEF Settles, Types
<1>7. /\ past' \in PastType /\ past'.stopped = past.stopped /\ past'.cleared = past.cleared \cup met
      /\ past'.erased = past.erased /\ past'.overtaken = past.overtaken /\ past'.gaveUp = past.gaveUp
  BY <1>3, <1>4 DEF Types, PastType, Received
<1>8. stopGen \in Nat /\ clearGen \in [Chats -> Nat] /\ HomeChat \in Chats
  BY <1>4 DEF Types, WorkflowAssumption
<1>9. clearGen' \in [Chats -> Nat] /\ clearGen'[HomeChat] = clearGen[HomeChat] + 1
      /\ \A ch \in Chats : clearGen[ch] <= clearGen'[ch]
  <2>1. \A i \in Nat : i <= i /\ i <= i + 1 /\ i + 1 \in Nat
    OBVIOUS
  <2>2. ASSUME NEW ch \in Chats
        PROVE  clearGen[ch] \in Nat /\ clearGen'[ch] = IF ch = HomeChat THEN clearGen[ch] + 1 ELSE clearGen[ch]
    BY <1>4, <1>8
  <2>3. clearGen' \in [Chats -> Nat]
    BY <1>4, <1>8, <2>1, <2>2
  <2> QED BY <1>8, <2>1, <2>2, <2>3
<1>10. Dates
  <2>1. stopGen <= stopGen
    BY <1>8
  <2> QED BY <1>4, <1>8, <1>9, <2>1 DEF Dates
<1>11. ASSUME NEW q \in met
       PROVE  /\ turn[q].phase # "new" /\ nodes[q] = "absent" /\ ChatOf[q] = HomeChat
              /\ OnWay(q) => turn[q].token[2] < clearGen'[ChatOf[q]]
  <2>1. q \in Prompts /\ turn[q].phase # "new" /\ ChatOf[q] = HomeChat
    BY <1>3 DEF Received
  <2>2. nodes[q] = "absent"
    BY <1>1, <1>2, <2>1 DEF Detach
  <2>3. OnWay(q) => turn[q].token \in Nat \X Nat /\ turn[q].token[2] <= clearGen[HomeChat]
    BY <2>1 DEF IInv, Delivered
  <2>4. OnWay(q) => turn[q].token[2] \in Nat
    BY <2>3
  <2>5. \A i \in Nat : i <= clearGen[HomeChat] => i < clearGen[HomeChat] + 1
    BY <1>8
  <2> QED BY <1>9, <2>1, <2>2, <2>3, <2>4, <2>5
<1>12. Tells(c, nodes, roots)
  BY <1>4, <1>7, <1>11 DEF Tells, IsClearChat
<1>13. Lists(c, nodes, ids)
  BY <1>1, <1>2, <1>4 DEF Lists, IsClearChat, Detach
<1> QED BY <1>4, <1>5, <1>6, <1>10, <1>12, <1>13, EnterKeeps

LEMMA SnapshotKeeps ==
    ASSUME WorkflowAssumption, IInv, NEW c \in Commands, Snapshot(c) PROVE IInv'
<1>1. /\ Types /\ cmd[c].phase = "draining" /\ lock' = lock
      /\ cmd' = [cmd EXCEPT ![c].phase = "snapshot", ![c].snap = node]
      /\ UNCHANGED <<gens, turn, trees, log, disk, visible, notice, past>>
  BY DEF Snapshot, IInv, history
<1>2. UNCHANGED <<stopGen, clearGen, turn, node, root, running, log, store, file, visible, notice, past>>
  BY <1>1 DEF gens, trees, disk
<1>3. /\ cmd' \in [Commands -> CommandType] /\ cmd'[c].phase = "snapshot" /\ cmd'[c].snap = node
      /\ cmd'[c].kind = cmd[c].kind /\ cmd'[c].trees = cmd[c].trees /\ cmd'[c].ids = cmd[c].ids
      /\ \A d \in Commands \ {c} : cmd'[d] = cmd[d]
  <2>1. cmd'[c] = [cmd[c] EXCEPT !.phase = "snapshot", !.snap = node] /\ cmd[c] \in CommandType
    BY <1>1 DEF Types
  <2>2. node \in [Prompts -> States]
    BY <1>1 DEF Types
  <2>3. /\ cmd'[c] \in CommandType /\ cmd'[c].phase = "snapshot" /\ cmd'[c].snap = node
        /\ cmd'[c].kind = cmd[c].kind /\ cmd'[c].trees = cmd[c].trees /\ cmd'[c].ids = cmd[c].ids
    BY <2>1, <2>2 DEF CommandType
  <2>4. cmd' = [cmd EXCEPT ![c] = cmd'[c]]
    BY <1>1 DEF Types
  <2> QED BY <1>1, <2>3, <2>4 DEF Types
<1>4. Types'
  BY <1>1, <1>2, <1>3 DEF Types
<1>5. \A d \in Commands : Holding(d)' <=> Holding(d)
  BY <1>1, <1>3 DEF Holding
<1>6. ASSUME NEW q \in Prompts PROVE Delivered(q)' /\ Scheduled(q)' /\ Kept(q)'
  <2>1. Delivered(q) /\ Scheduled(q) /\ Kept(q) /\ (OnWay(q)' <=> OnWay(q))
    BY <1>2 DEF IInv, OnWay
  <2>2. \A d \in Commands : WillClear(d, q)' <=> WillClear(d, q)
    BY <1>2, <1>3, <1>5 DEF WillClear
  <2>3. Delivered(q)'
    BY <1>2, <1>3, <2>1 DEF Delivered
  <2>4. Scheduled(q)'
    BY <1>2, <2>1 DEF Scheduled
  <2>5. q \in past.stopped => IsStopped(q)'
    BY <1>2, <2>1 DEF Kept, IsStopped
  <2>6. q \in past.cleared \cup past.erased => IsCleared(q)'
    BY <1>2, <1>3, <2>1 DEF Kept, IsCleared
  <2>7. node[q] = "completed" /\ root[q] \notin past.overtaken =>
          \A d \in Commands : cmd'[d].phase = "snapshot" /\ ~IsClearChat(cmd'[d].kind)
                                 /\ root[q] \in cmd'[d].trees => cmd'[d].snap[q] = "completed"
    BY <1>3, <2>1 DEF Kept
  <2>8. Kept(q)'
    BY <1>2, <2>1, <2>2, <2>5, <2>6, <2>7 DEF Kept
  <2> QED BY <2>3, <2>4, <2>8
<1>7. ASSUME NEW d \in Commands PROVE Commanded(d)'
  <2>1. Commanded(d) /\ cmd'[d].kind = cmd[d].kind /\ cmd'[d].ids = cmd[d].ids
    BY <1>3 DEF IInv
  <2> QED BY <1>1, <1>2, <1>5, <2>1 DEF Commanded
<1>8. Found'
  <2>1. ASSUME NEW m PROVE Listed(m) \/ Coming(m) => Listed(m)' \/ Coming(m)'
    <3>1. Listed(m) => Listed(m)'
      BY <1>2, <1>3, ListedStays
    <3>2. Coming(m) => Coming(m)'
      BY <1>1, <1>2, <1>3 DEF Coming
    <3> QED BY <3>1, <3>2
  <2> QED BY <1>2, <2>1, FoundIs
<1>9. Sorted'
  BY <1>2, SortedStays
<1> QED BY <1>4, <1>6, <1>7, <1>8, <1>9 DEF IInv

\* Only the command that holds the lock holds anything.
LEMMA OneHolds ==
    ASSUME IInv, NEW c \in Commands, Holding(c)
    PROVE  lock = c /\ \A d \in Commands : Holding(d) => d = c
BY DEF IInv, Commanded

LEMMA ApplyKeeps ==
    ASSUME WorkflowAssumption, IInv, NEW c \in Commands, Apply(c) PROVE IInv'
<1> DEFINE ph == IF cmd[c].kind # "clear reply" THEN Feedback(c)
                 ELSE IF cmd[c].ids = {} THEN "replying" ELSE "deleting"
<1>1. /\ Types /\ cmd[c].phase = "snapshot" /\ ~IsClearChat(cmd[c].kind) /\ lock' = None
      /\ store' = Saved(cmd[c].snap, cmd[c].trees) /\ cmd' = [cmd EXCEPT ![c].phase = ph]
      /\ UNCHANGED <<gens, turn, trees, log, file, visible, notice, past>>
  BY DEF Apply, IInv, history
<1>2. UNCHANGED <<stopGen, clearGen, turn, node, root, running, log, file, visible, notice, past>>
  BY <1>1 DEF gens, trees
<1>3. ph \in {"done", "replying", "deleting"}
      /\ (cmd[c].kind = "clear reply" /\ cmd[c].ids # {} => ph = "deleting")
  BY DEF Feedback
<1> HIDE DEF ph
<1>4. /\ cmd' \in [Commands -> CommandType] /\ cmd'[c].phase = ph
      /\ cmd'[c].ids = cmd[c].ids
      /\ \A d \in Commands \ {c} : cmd'[d] = cmd[d]
  BY <1>1, <1>3, StageIs
<1>5. Holding(c) /\ lock = c /\ (\A d \in Commands : Holding(d) => d = c)
      /\ \A d \in Commands : ~Holding(d)' /\ cmd'[d].phase # "snapshot"
  <2>1. Holding(c)
    BY <1>1 DEF Holding
  <2>2. lock = c /\ \A d \in Commands : Holding(d) => d = c
    BY <2>1, OneHolds
  <2> QED BY <1>3, <1>4, <2>1, <2>2 DEF Holding
<1>6. /\ cmd[c].snap \in [Prompts -> States] /\ store' \in [Prompts -> States]
      /\ \A q \in Prompts : store'[q] = IF root[q] \in cmd[c].trees THEN cmd[c].snap[q] ELSE store[q]
  <2>1. cmd[c].snap \in [Prompts -> States]
    BY <1>1 DEF Types, CommandType
  <2> QED BY <1>1, <2>1 DEF Types, Saved
<1>7. Types'
  BY <1>1, <1>2, <1>4, <1>6 DEF Types
<1>8. ASSUME NEW q \in Prompts PROVE Delivered(q)' /\ Scheduled(q)' /\ Kept(q)'
  <2>1. Delivered(q) /\ Scheduled(q) /\ Kept(q) /\ (OnWay(q)' <=> OnWay(q))
    BY <1>2 DEF IInv, OnWay
  <2>2. Delivered(q)'
    <3>1. turn[q].phase # "done" => store'[q] = "absent"
      BY <1>1, <1>6, <2>1 DEF Delivered
    <3> QED BY <1>2, <1>5, <2>1, <3>1 DEF Delivered
  <2>3. Scheduled(q)'
    BY <1>2, <2>1 DEF Scheduled
  <2>4. q \in past.stopped => IsStopped(q)'
    BY <1>2, <2>1 DEF Kept, IsStopped
  <2>5. q \in past.cleared \cup past.erased => IsCleared(q)'
    BY <1>2, <1>5, <2>1 DEF Kept, IsCleared
  <2>6. q \in past.cleared => store[q] = "absent" \/ root[q] \in cmd[c].trees
    BY <1>1, <1>5, <2>1 DEF Kept, WillClear
  <2>7. q \in past.cleared \cup past.erased => cmd[c].snap[q] = "absent"
    BY <1>1, <2>1 DEF Kept, IsCleared
  <2>8. q \in past.cleared \cup past.erased => store'[q] = "absent"
    BY <1>6, <2>1, <2>6, <2>7 DEF Kept
  <2>9. node[q] = "completed" /\ root[q] \notin past.overtaken => store'[q] = "completed"
    BY <1>1, <1>6, <2>1 DEF Kept
  <2>10. q \in past.erased => file.nodes[q] = "absent"
    BY <2>1 DEF Kept
  <2>11. Kept(q)'
    BY <1>2, <1>5, <2>4, <2>5, <2>8, <2>9, <2>10 DEF Kept
  <2> QED BY <2>2, <2>3, <2>11
<1>9. \A d \in Commands : Commanded(d)'
  BY <1>1, <1>5 DEF Commanded, WorkflowAssumption
<1>10. Found'
  <2>1. cmd[c].ids = {} \/ ph = "deleting"
    BY <1>1, <1>3, <1>5 DEF IInv, Commanded
  <2>2. ASSUME NEW m PROVE Listed(m) \/ Coming(m) => Listed(m)' \/ Coming(m)'
    <3>1. m \in log[ChatOfMessage(m)] \/ m \in Messages(Present) => Listed(m)'
      BY <1>2 DEF Listed, Messages, Present
    <3>2. ASSUME NEW d \in Commands, m \in cmd[d].ids, cmd[d].phase \in {"draining", "snapshot", "deleting"}
          PROVE  Listed(m)'
      <4>1. m \in cmd'[d].ids /\ cmd'[d].phase \in {"draining", "snapshot", "deleting"}
        BY <1>4, <2>1, <3>2
      <4> QED BY <4>1 DEF Listed
    <3>3. Coming(m) => Coming(m)'
      BY <1>1, <1>2, <1>4 DEF Coming
    <3> QED BY <3>1, <3>2, <3>3 DEF Listed
  <2> QED BY <1>2, <2>2, FoundIs
<1>11. Sorted'
  BY <1>2, SortedStays
<1> QED BY <1>7, <1>8, <1>9, <1>10, <1>11 DEF IInv

LEMMA ClearStoreKeeps ==
    ASSUME WorkflowAssumption, IInv, NEW c \in Commands, ClearStore(c) PROVE IInv'
<1>1. PICK cleared, empty :
         /\ cleared = [p \in Prompts |-> IF ChatOf[p] = HomeChat THEN "absent" ELSE store[p]]
         /\ empty = [log EXCEPT ![HomeChat] = {}]
  OBVIOUS
<1>2. /\ Types /\ cmd[c].phase = "snapshot" /\ IsClearChat(cmd[c].kind) /\ lock' = None
      /\ store' = cleared
      /\ UNCHANGED <<gens, turn, trees, visible, notice>>
      /\ \/ /\ log' = empty
            /\ file' = [nodes |-> cleared, log |-> empty]
            /\ cmd' = [cmd EXCEPT ![c].phase = "deleting"]
            /\ past' = [past EXCEPT !.erased = @ \cup {p \in past.cleared : ChatOf[p] = HomeChat}]
         \/ /\ log' = [empty EXCEPT ![HomeChat] = {Command(c)}]
            /\ UNCHANGED file
            /\ cmd' = [cmd EXCEPT ![c].phase = "done"]
            /\ past' = [past EXCEPT !.gaveUp = @ \cup ((cmd[c].ids \cap visible) \ {Command(c)})]
  BY <1>1 DEF ClearStore, IInv
<1>3. UNCHANGED <<stopGen, clearGen, turn, node, root, running, visible, notice>>
  BY <1>2 DEF gens, trees
<1>4. /\ cleared \in [Prompts -> States] /\ HomeChat \in Chats
      /\ \A q \in Prompts : cleared[q] = IF ChatOf[q] = HomeChat THEN "absent" ELSE store[q]
      /\ empty \in [Chats -> SUBSET AllMessages]
      /\ \A ch \in Chats : empty[ch] = IF ch = HomeChat THEN {} ELSE log[ch]
  BY <1>1, <1>2 DEF Types, States, WorkflowAssumption
<1>5. Command(c) \in AllMessages /\ cmd[c].ids \subseteq AllMessages /\ visible \subseteq AllMessages
  BY <1>2 DEF Types, CommandType, AllMessages
<1>6. /\ log' \in [Chats -> SUBSET AllMessages]
      /\ \A ch \in Chats : ch # HomeChat => log'[ch] = log[ch]
      /\ log'[HomeChat] \subseteq {Command(c)}
  <2>1. CASE log' = empty
    BY <1>4, <2>1
  <2>2. CASE log' = [empty EXCEPT ![HomeChat] = {Command(c)}]
    BY <1>4, <1>5, <2>2
  <2> QED BY <1>2, <2>1, <2>2
<1>7. file' = file \/ file' = [nodes |-> cleared, log |-> empty]
  BY <1>2
<1>8. PICK ph \in {"deleting", "done"} :
         /\ cmd' = [cmd EXCEPT ![c].phase = ph]
         /\ ph = "done" => Command(c) \in log'[HomeChat]
                          /\ past'.gaveUp = past.gaveUp \cup ((cmd[c].ids \cap visible) \ {Command(c)})
         /\ ph = "deleting" => past'.gaveUp = past.gaveUp
  <2>1. past \in PastType
    BY <1>2 DEF Types
  <2>2. CASE /\ log' = empty
             /\ cmd' = [cmd EXCEPT ![c].phase = "deleting"]
             /\ past' = [past EXCEPT !.erased = @ \cup {p \in past.cleared : ChatOf[p] = HomeChat}]
    BY <2>1, <2>2 DEF PastType
  <2>3. CASE /\ log' = [empty EXCEPT ![HomeChat] = {Command(c)}]
             /\ cmd' = [cmd EXCEPT ![c].phase = "done"]
             /\ past' = [past EXCEPT !.gaveUp = @ \cup ((cmd[c].ids \cap visible) \ {Command(c)})]
    BY <1>4, <2>1, <2>3 DEF PastType
  <2> QED BY <1>2, <2>2, <2>3
<1>9. /\ past' \in PastType /\ past'.stopped = past.stopped /\ past'.cleared = past.cleared
      /\ past'.overtaken = past.overtaken /\ past.gaveUp \subseteq past'.gaveUp
      /\ past'.erased \subseteq past.erased
           \cup (IF file' = [nodes |-> cleared, log |-> empty]
                 THEN {p \in past.cleared : ChatOf[p] = HomeChat} ELSE {})
  <2>1. past \in PastType
    BY <1>2 DEF Types
  <2>2. CASE /\ file' = [nodes |-> cleared, log |-> empty]
             /\ past' = [past EXCEPT !.erased = @ \cup {p \in past.cleared : ChatOf[p] = HomeChat}]
    BY <2>1, <2>2 DEF PastType
  <2>3. CASE past' = [past EXCEPT !.gaveUp = @ \cup ((cmd[c].ids \cap visible) \ {Command(c)})]
    BY <1>5, <2>1, <2>3 DEF PastType
  <2> QED BY <1>2, <2>2, <2>3
<1>10. /\ cmd' \in [Commands -> CommandType] /\ cmd'[c].phase = ph /\ cmd'[c].ids = cmd[c].ids
       /\ \A d \in Commands \ {c} : cmd'[d] = cmd[d]
  BY <1>2, <1>8, StageIs
<1>11. Holding(c) /\ lock = c /\ (\A d \in Commands : Holding(d) => d = c)
       /\ \A d \in Commands : ~Holding(d)' /\ cmd'[d].phase # "snapshot"
  <2>1. Holding(c)
    BY <1>2 DEF Holding
  <2>2. lock = c /\ \A d \in Commands : Holding(d) => d = c
    BY <2>1, OneHolds
  <2> QED BY <1>8, <1>10, <2>1, <2>2 DEF Holding
<1>12. /\ file' \in [nodes : [Prompts -> States], log : [Chats -> SUBSET AllMessages]]
       /\ \A q \in Prompts : file'.nodes[q] = file.nodes[q] \/ file'.nodes[q] = cleared[q]
       /\ \A ch \in Chats : file'.log[ch] \subseteq file.log[ch] \/ file'.log[ch] \subseteq log[ch]
  <2>1. CASE file' = file
    BY <1>2, <2>1 DEF Types
  <2>2. CASE file' = [nodes |-> cleared, log |-> empty]
    BY <1>4, <2>2
  <2> QED BY <1>7, <2>1, <2>2
<1>13. Types'
  BY <1>2, <1>3, <1>4, <1>6, <1>9, <1>10, <1>12 DEF Types
<1>14. Commanded(c)
  BY DEF IInv
<1>15. ASSUME NEW q \in Prompts PROVE Delivered(q)' /\ Scheduled(q)' /\ Kept(q)'
  <2>1. Delivered(q) /\ Scheduled(q) /\ Kept(q) /\ (OnWay(q)' <=> OnWay(q))
    BY <1>3 DEF IInv, OnWay
  <2>2. store'[q] = IF ChatOf[q] = HomeChat THEN "absent" ELSE store[q]
    BY <1>2, <1>4
  <2>3. Delivered(q)'
    <3>1. turn[q].phase # "done" => store'[q] = "absent" /\ file'.nodes[q] = "absent"
      BY <1>4, <1>12, <2>1, <2>2 DEF Delivered
    <3> QED BY <1>3, <1>11, <2>1, <3>1 DEF Delivered
  <2>4. Scheduled(q)'
    BY <1>3, <2>1 DEF Scheduled
  <2>5. q \in past'.stopped => IsStopped(q)'
    BY <1>3, <1>9, <2>1 DEF Kept, IsStopped
  <2>6. q \in past'.cleared \cup past'.erased => IsCleared(q)'
    BY <1>3, <1>9, <1>11, <2>1 DEF Kept, IsCleared
  <2>7. q \in past.cleared => store[q] = "absent" \/ ChatOf[q] = HomeChat
    BY <1>2, <1>11, <2>1 DEF Kept, WillClear
  <2>8. q \in past.cleared \cup past.erased => store'[q] = "absent" /\ cleared[q] = "absent"
    BY <1>4, <2>1, <2>2, <2>7 DEF Kept
  <2>9. q \in past'.cleared \cup past'.erased => store'[q] = "absent"
    BY <1>9, <2>8
  <2>10. q \in past'.erased => file'.nodes[q] = "absent"
    <3>1. CASE q \in past.erased
      BY <1>12, <2>1, <2>8, <3>1 DEF Kept
    <3>2. CASE file' = [nodes |-> cleared, log |-> empty] /\ q \in past.cleared
      BY <2>8, <3>2
    <3> QED BY <1>9, <3>1, <3>2
  <2>11. node[q] = "completed" /\ root[q] \notin past.overtaken => store'[q] = "completed"
    BY <1>2, <1>11, <1>14, <2>1, <2>2 DEF Kept, Commanded
  <2>12. Kept(q)'
    BY <1>3, <1>9, <1>11, <2>5, <2>6, <2>9, <2>10, <2>11 DEF Kept
  <2> QED BY <2>3, <2>4, <2>12
<1>16. \A d \in Commands : Commanded(d)'
  BY <1>2, <1>11 DEF Commanded, WorkflowAssumption
<1>17. Found'
  <2>1. ASSUME NEW m \in visible \ past'.gaveUp, m \in cmd[c].ids PROVE Listed(m)'
    <3>1. CASE ph = "deleting"
      BY <1>10, <2>1, <3>1 DEF Listed
    <3>2. CASE ph = "done"
      <4>1. m = Command(c)
        BY <1>8, <2>1, <3>2
      <4>2. ChatOfMessage(m) = HomeChat
        BY <4>1, MessagesAre
      <4> QED BY <1>8, <3>2, <4>1, <4>2 DEF Listed
    <3> QED BY <3>1, <3>2
  <2>2. ASSUME NEW m \in visible \ past'.gaveUp
        PROVE  m \in {Reply(d) : d \in Commands} \/ (Listed(m) \/ Coming(m) => Listed(m)' \/ Coming(m)')
    <3>1. ASSUME m \in log[ChatOfMessage(m)]
          PROVE  m \in {Reply(d) : d \in Commands} \/ Listed(m)' \/ Coming(m)'
      <4>1. CASE ChatOfMessage(m) # HomeChat
        <5>1. ChatOfMessage(m) \in Chats
          BY <1>5, ChatsAre
        <5> QED BY <1>6, <3>1, <4>1, <5>1 DEF Listed
      <4>2. CASE ChatOfMessage(m) = HomeChat
        <5>1. \/ m \in cmd[c].ids \/ m \in {Reply(d) : d \in Commands}
              \/ \E p \in Prompts : m = Status(p) /\ turn[p].phase = "recorded"
          BY <1>2, <1>11, <1>14, <3>1, <4>2 DEF Commanded
        <5>2. ASSUME NEW p \in Prompts, m = Status(p), turn[p].phase = "recorded" PROVE Coming(m)'
          BY <1>3, <5>2 DEF Coming
        <5> QED BY <2>1, <5>1, <5>2
      <4> QED BY <4>1, <4>2
    <3>2. m \in Messages(Present) => Listed(m)'
      BY <1>3 DEF Listed, Messages, Present
    <3>3. ASSUME NEW d \in Commands, m \in cmd[d].ids, cmd[d].phase \in {"draining", "snapshot", "deleting"}
          PROVE  Listed(m)'
      <4>1. CASE d = c
        BY <2>1, <3>3, <4>1
      <4>2. CASE d # c
        <5>1. cmd'[d] = cmd[d]
          BY <1>10, <4>2
        <5> QED BY <3>3, <5>1 DEF Listed
      <4> QED BY <4>1, <4>2
    <3>4. Coming(m) => Coming(m)'
      BY <1>2, <1>3, <1>10 DEF Coming
    <3> QED BY <3>1, <3>2, <3>3, <3>4 DEF Listed
  <2> QED BY <1>3, <1>9, <2>2, FoundIs
<1>18. Sorted'
  <2>1. ChatOfMessage(Command(c)) = HomeChat
    BY MessagesAre
  <2>2. ASSUME NEW ch \in Chats, NEW m \in log'[ch] \cup file'.log[ch]
        PROVE  m \in log[ch] \cup file.log[ch] \/ (m = Command(c) /\ ch = HomeChat)
    BY <1>6, <1>12, <2>2
  <2> QED BY <2>1, <2>2 DEF IInv, Sorted
<1> QED BY <1>13, <1>15, <1>16, <1>17, <1>18 DEF IInv

LEMMA DeleteMessagesKeeps ==
    ASSUME WorkflowAssumption, IInv, NEW c \in Commands, DeleteMessages(c) PROVE IInv'
<1>1. PICK ids : ids = cmd[c].ids
  OBVIOUS
<1>2. /\ Types /\ cmd[c].phase = "deleting" /\ lock' = lock /\ Delete(ids)
      /\ log' = (IF IsClearChat(cmd[c].kind) THEN log ELSE Forget(ids))
      /\ cmd' = [cmd EXCEPT ![c].phase = "done"]
      /\ UNCHANGED <<gens, turn, trees, disk, notice>>
  BY <1>1 DEF DeleteMessages, IInv
<1>3. UNCHANGED <<stopGen, clearGen, turn, node, root, running, store, file, notice>>
  BY <1>2 DEF gens, trees, disk
<1>4. /\ visible' \subseteq AllMessages /\ past' \in PastType /\ SameHistory
      /\ \A m \in visible' \ past'.gaveUp : m \in visible \ past.gaveUp /\ m \notin ids
  BY <1>2, DeleteIs
<1>5. /\ cmd' \in [Commands -> CommandType] /\ cmd'[c].phase = "done"
      /\ \A d \in Commands \ {c} : cmd'[d] = cmd[d]
  BY <1>2, StageIs
<1>6. /\ log' \in [Chats -> SUBSET AllMessages] /\ Sorted'
      /\ \A ch \in Chats : log'[ch] \subseteq log[ch] /\ log[ch] \ ids \subseteq log'[ch]
  <2>1. CASE log' = log
    BY <1>2, <1>3, <2>1, SortedStays DEF Types
  <2>2. CASE log' = Forget(ids)
    BY <1>3, <2>2, ForgetIs
  <2> QED BY <1>2, <2>1, <2>2
<1>7. Types'
  BY <1>2, <1>3, <1>4, <1>5, <1>6 DEF Types
<1>8. \A d \in Commands : SameHold(d)
  BY <1>2, <1>5 DEF SameHold, Holding
<1>9. \A q \in Prompts : Delivered(q)' /\ Scheduled(q)' /\ Kept(q)'
  BY <1>2, <1>3, <1>4, <1>8, PromptsStay
<1>10. \A m \in log'[HomeChat] : m \in log[HomeChat]
  BY <1>6 DEF WorkflowAssumption
<1>11. \A d \in Commands : Commanded(d)'
  BY <1>2, <1>3, <1>8, <1>10, CommandsStay
<1>12. Found'
  <2>1. ASSUME NEW m \in visible, m \notin ids
        PROVE  Listed(m) \/ Coming(m) => Listed(m)' \/ Coming(m)'
    <3>1. m \in log[ChatOfMessage(m)] => m \in log'[ChatOfMessage(m)]
      BY <1>2, <1>6, <2>1, ChatsAre DEF Types
    <3>2. \A d \in Commands : m \in cmd[d].ids => cmd'[d] = cmd[d]
      BY <1>1, <1>5, <2>1
    <3>3. Listed(m) => Listed(m)'
      BY <1>3, <3>1, <3>2 DEF Listed, Messages, Present
    <3>4. Coming(m) => Coming(m)'
      BY <1>2, <1>3, <1>5, <2>1 DEF Coming
    <3> QED BY <3>3, <3>4
  <2> QED BY <1>4, <2>1, FoundIs
<1> QED BY <1>6, <1>7, <1>9, <1>11, <1>12 DEF IInv

LEMMA SendReplyKeeps ==
    ASSUME WorkflowAssumption, IInv, NEW c \in Commands, SendReply(c) PROVE IInv'
<1>1. /\ Types /\ cmd[c].phase = "replying" /\ lock' = lock /\ Reply(c) \in AllMessages
      /\ cmd' = [cmd EXCEPT ![c].phase = "replied"] /\ visible' = visible \cup {Reply(c)}
      /\ UNCHANGED <<gens, turn, trees, log, disk, notice, past>>
  BY DEF SendReply, IInv, history, AllMessages
<1>2. UNCHANGED <<stopGen, clearGen, turn, node, root, running, log, store, file, notice, past>>
  BY <1>1 DEF gens, trees, disk
<1>3. /\ cmd' \in [Commands -> CommandType] /\ cmd'[c].phase = "replied"
      /\ \A d \in Commands \ {c} : cmd'[d] = cmd[d]
  BY <1>1, StageIs
<1>4. Types'
  BY <1>1, <1>2, <1>3 DEF Types
<1>5. \A d \in Commands : SameHold(d)
  BY <1>1, <1>3 DEF SameHold, Holding
<1>6. \A q \in Prompts : Delivered(q)' /\ Scheduled(q)' /\ Kept(q)'
  BY <1>1, <1>2, <1>5, PromptsStay, HistoryStays
<1>7. \A d \in Commands : Commanded(d)'
  BY <1>1, <1>2, <1>5, CommandsStay
<1>8. Found'
  <2>1. ASSUME NEW m PROVE Listed(m) \/ Coming(m) => Listed(m)' \/ Coming(m)'
    <3>1. Listed(m) => Listed(m)'
      BY <1>1, <1>2, <1>3, ListedStays
    <3>2. Coming(m) => Coming(m)'
      BY <1>1, <1>2, <1>3 DEF Coming
    <3> QED BY <3>1, <3>2
  <2> QED BY <1>1, <1>2, <2>1, FoundIs
<1>9. Sorted'
  BY <1>2, SortedStays
<1> QED BY <1>4, <1>6, <1>7, <1>8, <1>9 DEF IInv

LEMMA RecordReplyKeeps ==
    ASSUME WorkflowAssumption, IInv, NEW c \in Commands, RecordReply(c) PROVE IInv'
<1>1. /\ Types /\ cmd[c].phase = "replied" /\ lock' = lock /\ Reply(c) \in AllMessages
      /\ cmd' = [cmd EXCEPT ![c].phase = "done"] /\ log' = Record(Reply(c))
      /\ UNCHANGED <<gens, turn, trees, disk, visible, notice, past>>
  BY DEF RecordReply, IInv, history, AllMessages
<1>2. UNCHANGED <<stopGen, clearGen, turn, node, root, running, store, file, visible, notice, past>>
  BY <1>1 DEF gens, trees, disk
<1>3. /\ cmd' \in [Commands -> CommandType] /\ cmd'[c].phase = "done"
      /\ \A d \in Commands \ {c} : cmd'[d] = cmd[d]
  BY <1>1, StageIs
<1>4. /\ log' \in [Chats -> SUBSET AllMessages] /\ Sorted'
      /\ \A ch \in Chats : log[ch] \subseteq log'[ch] /\ log'[ch] \subseteq log[ch] \cup {Reply(c)}
  BY <1>1, <1>2, RecordIs
<1>5. Types'
  BY <1>1, <1>2, <1>3, <1>4 DEF Types
<1>6. \A d \in Commands : SameHold(d)
  BY <1>1, <1>3 DEF SameHold, Holding
<1>7. \A q \in Prompts : Delivered(q)' /\ Scheduled(q)' /\ Kept(q)'
  BY <1>1, <1>2, <1>6, PromptsStay, HistoryStays
<1>8. \A m \in log'[HomeChat] : m \in log[HomeChat] \/ m = Reply(c)
  BY <1>4 DEF WorkflowAssumption
<1>9. \A d \in Commands : Commanded(d)'
  BY <1>1, <1>2, <1>6, <1>8, CommandsStay
<1>10. Found'
  <2>1. ASSUME NEW m \in visible PROVE Listed(m) \/ Coming(m) => Listed(m)' \/ Coming(m)'
    <3>1. m \in log[ChatOfMessage(m)] => m \in log'[ChatOfMessage(m)]
      BY <1>1, <1>4, ChatsAre DEF Types
    <3>2. Listed(m) => Listed(m)'
      BY <1>1, <1>2, <1>3, <3>1, ListedStays
    <3>3. Coming(m) => Coming(m)'
      BY <1>1, <1>2, <1>3 DEF Coming
    <3> QED BY <3>2, <3>3
  <2> QED BY <1>2, <2>1, FoundIs
<1> QED BY <1>4, <1>5, <1>7, <1>9, <1>10 DEF IInv

-----------------------------------------------------------------------------
(* The startup notice *)

LEMMA ReserveKeeps ==
    ASSUME WorkflowAssumption, IInv, Reserve PROVE IInv'
<1>1. /\ Types /\ notice.phase = "new" /\ lock' = lock
      /\ notice' = [phase |-> "reserved", token |-> clearGen[HomeChat]]
      /\ UNCHANGED <<gens, turn, trees, log, disk, visible, cmd, past>>
  BY DEF Reserve, IInv, history
<1>2. UNCHANGED <<stopGen, clearGen, turn, node, root, running, log, store, file, visible, cmd, past>>
  BY <1>1 DEF gens, trees, disk
<1>3. notice' \in NoticeType
  BY <1>1 DEF Types, NoticeType, WorkflowAssumption
<1>4. Types'
  BY <1>1, <1>2, <1>3 DEF Types
<1>5. \A q \in Prompts : Delivered(q)' /\ Scheduled(q)' /\ Kept(q)'
  BY <1>1, <1>2, PromptsStay, HistoryStays, SameHoldIs
<1>6. \A d \in Commands : Commanded(d)'
  BY <1>1, <1>2, CommandsStay, SameHoldIs
<1>7. Found'
  <2>1. ASSUME NEW m PROVE Listed(m) \/ Coming(m) => Listed(m)' \/ Coming(m)'
    BY <1>1, <1>2 DEF Listed, Coming, Messages, Present
  <2> QED BY <1>1, <1>2, <2>1, FoundIs
<1>8. Sorted'
  BY <1>2, SortedStays
<1> QED BY <1>4, <1>5, <1>6, <1>7, <1>8 DEF IInv

LEMMA NoticeIs ==
    ASSUME Types, NEW ph, notice' = [notice EXCEPT !.phase = ph],
           ph \in {"new", "reserved", "delivered", "discarding", "done"}
    PROVE  notice' \in NoticeType /\ notice'.phase = ph
BY DEF Types, NoticeType

LEMMA SendNoticeKeeps ==
    ASSUME WorkflowAssumption, IInv, SendNotice PROVE IInv'
<1>1. /\ Types /\ notice.phase = "reserved" /\ lock' = lock /\ Notice \in AllMessages
      /\ UNCHANGED <<gens, turn, trees, log, disk, cmd, past>>
  BY DEF SendNotice, IInv, history, AllMessages
<1>2. UNCHANGED <<stopGen, clearGen, turn, node, root, running, log, store, file, cmd, past>>
  BY <1>1 DEF gens, trees, disk
<1>3. PICK ph \in {"delivered", "done"} :
         /\ notice' = [notice EXCEPT !.phase = ph]
         /\ visible' = visible \/ (ph = "delivered" /\ visible' = visible \cup {Notice})
  BY DEF SendNotice
<1>4. notice' \in NoticeType /\ notice'.phase = ph
  BY <1>1, <1>3, NoticeIs
<1>5. Types'
  BY <1>1, <1>2, <1>3, <1>4 DEF Types
<1>6. \A q \in Prompts : Delivered(q)' /\ Scheduled(q)' /\ Kept(q)'
  BY <1>1, <1>2, PromptsStay, HistoryStays, SameHoldIs
<1>7. \A d \in Commands : Commanded(d)'
  BY <1>1, <1>2, CommandsStay, SameHoldIs
<1>8. Found'
  <2>1. ASSUME NEW m PROVE Listed(m) \/ Coming(m) => Listed(m)' \/ Coming(m)'
    BY <1>1, <1>2 DEF Listed, Coming, Messages, Present
  <2>2. ph = "delivered" => Coming(Notice)'
    BY <1>4 DEF Coming
  <2> QED BY <1>2, <1>3, <2>1, <2>2, FoundIs
<1>9. Sorted'
  BY <1>2, SortedStays
<1> QED BY <1>5, <1>6, <1>7, <1>8, <1>9 DEF IInv

LEMMA FinalizeKeeps ==
    ASSUME WorkflowAssumption, IInv, Finalize PROVE IInv'
<1>1. /\ Types /\ lock = None /\ lock' = lock /\ Notice \in AllMessages
      /\ UNCHANGED <<gens, turn, trees, disk, visible, cmd, past>>
  BY DEF Finalize, IInv, history, AllMessages
<1>2. UNCHANGED <<stopGen, clearGen, turn, node, root, running, store, file, visible, cmd, past>>
  BY <1>1 DEF gens, trees, disk
<1>3. PICK ph \in {"discarding", "done"} :
         /\ notice' = [notice EXCEPT !.phase = ph]
         /\ (ph = "done" /\ log' = Record(Notice)) \/ (ph = "discarding" /\ log' = log)
  BY DEF Finalize
<1>4. notice' \in NoticeType /\ notice'.phase = ph
  BY <1>1, <1>3, NoticeIs
<1>5. /\ log' \in [Chats -> SUBSET AllMessages] /\ Sorted'
      /\ \A ch \in Chats : log[ch] \subseteq log'[ch]
      /\ ph = "done" => Notice \in log'[ChatOfMessage(Notice)]
  <2>1. CASE log' = log /\ ph # "done"
    BY <1>1, <1>2, <2>1, SortedStays DEF Types
  <2>2. CASE log' = Record(Notice)
    BY <1>1, <1>2, <2>2, RecordIs
  <2> QED BY <1>3, <2>1, <2>2
<1>6. Types'
  BY <1>1, <1>2, <1>4, <1>5 DEF Types
<1>7. \A q \in Prompts : Delivered(q)' /\ Scheduled(q)' /\ Kept(q)'
  BY <1>1, <1>2, PromptsStay, HistoryStays, SameHoldIs
<1>8. \A d \in Commands : Commanded(d)'
  BY <1>1, <1>2, CommandsStay, SameHoldIs
<1>9. Found'
  <2>1. ASSUME NEW m \in visible PROVE Listed(m) \/ Coming(m) => Listed(m)' \/ Coming(m)'
    <3>1. m \in log[ChatOfMessage(m)] => m \in log'[ChatOfMessage(m)]
      BY <1>1, <1>5, ChatsAre DEF Types
    <3>2. Listed(m) => Listed(m)'
      BY <1>2, <3>1, ListedStays
    <3>3. Listed(Notice)' \/ Coming(Notice)'
      BY <1>4, <1>5 DEF Listed, Coming
    <3>4. Coming(m) => m = Notice \/ Coming(m)'
      BY <1>2 DEF Coming
    <3> QED BY <3>2, <3>3, <3>4
  <2> QED BY <1>2, <2>1, FoundIs
<1> QED BY <1>5, <1>6, <1>7, <1>8, <1>9 DEF IInv

LEMMA DiscardNoticeKeeps ==
    ASSUME WorkflowAssumption, IInv, DiscardNotice PROVE IInv'
<1>1. /\ Types /\ lock = None /\ lock' = lock /\ Notice \in AllMessages
      /\ notice' = [notice EXCEPT !.phase = "done"]
      /\ UNCHANGED <<gens, turn, trees, disk, cmd, past>>
      /\ \/ visible' = visible \ {Notice} /\ log' = Forget({Notice})
         \/ visible' = visible /\ log' = Record(Notice)
  BY DEF DiscardNotice, IInv, history, AllMessages
<1>2. UNCHANGED <<stopGen, clearGen, turn, node, root, running, store, file, cmd, past>>
  BY <1>1 DEF gens, trees, disk
<1>3. notice' \in NoticeType /\ notice'.phase = "done"
  BY <1>1, NoticeIs
<1>4. /\ log' \in [Chats -> SUBSET AllMessages] /\ Sorted'
      /\ \A ch \in Chats : log[ch] \ {Notice} \subseteq log'[ch]
      /\ Notice \in visible' => Notice \in log'[ChatOfMessage(Notice)]
  <2>1. CASE visible' = visible \ {Notice} /\ log' = Forget({Notice})
    BY <1>2, <2>1, ForgetIs
  <2>2. CASE visible' = visible /\ log' = Record(Notice)
    BY <1>1, <1>2, <2>2, RecordIs
  <2> QED BY <1>1, <2>1, <2>2
<1>5. visible' \subseteq visible
  BY <1>1
<1>6. Types'
  BY <1>1, <1>2, <1>3, <1>4, <1>5 DEF Types
<1>7. \A q \in Prompts : Delivered(q)' /\ Scheduled(q)' /\ Kept(q)'
  BY <1>1, <1>2, PromptsStay, HistoryStays, SameHoldIs
<1>8. \A d \in Commands : Commanded(d)'
  BY <1>1, <1>2, CommandsStay, SameHoldIs
<1>9. Found'
  <2>1. ASSUME NEW m \in visible, m # Notice PROVE Listed(m) \/ Coming(m) => Listed(m)' \/ Coming(m)'
    <3>1. m \in log[ChatOfMessage(m)] => m \in log'[ChatOfMessage(m)]
      BY <1>1, <1>4, <2>1, ChatsAre DEF Types
    <3>2. Listed(m) => Listed(m)'
      BY <1>2, <3>1, ListedStays
    <3>3. Coming(m) => Coming(m)'
      BY <1>2, <2>1 DEF Coming
    <3> QED BY <3>2, <3>3
  <2>2. Notice \in visible' => Listed(Notice)'
    BY <1>4 DEF Listed
  <2> QED BY <1>2, <1>5, <2>1, <2>2, FoundIs
<1> QED BY <1>4, <1>6, <1>7, <1>8, <1>9 DEF IInv

-----------------------------------------------------------------------------
(* The session file and a restart *)

LEMMA FlushKeeps ==
    ASSUME WorkflowAssumption, IInv, Flush PROVE IInv'
<1>1. /\ Types /\ lock' = lock /\ file' = [nodes |-> store, log |-> log]
      /\ UNCHANGED <<gens, turn, trees, log, store, visible, cmd, notice, past>>
  BY DEF Flush, IInv, history
<1>2. UNCHANGED <<stopGen, clearGen, turn, node, root, running, store, log, visible, cmd, notice, past>>
  BY <1>1 DEF gens, trees
<1>3. file'.nodes = store /\ file'.log = log
      /\ file' \in [nodes : [Prompts -> States], log : [Chats -> SUBSET AllMessages]]
  BY <1>1 DEF Types
<1>4. Types'
  BY <1>1, <1>2, <1>3 DEF Types
<1>5. \A q \in Prompts : Delivered(q)' /\ Scheduled(q)' /\ Kept(q)'
  BY <1>1, <1>2, <1>3, PromptsStay, HistoryStays, SameHoldIs
<1>6. \A d \in Commands : Commanded(d)'
  BY <1>1, <1>2, CommandsStay, SameHoldIs
<1>7. Found'
  <2>1. ASSUME NEW m PROVE Listed(m) \/ Coming(m) => Listed(m)' \/ Coming(m)'
    BY <1>2 DEF Listed, Coming, Messages, Present
  <2> QED BY <1>2, <2>1, FoundIs
<1>8. Sorted'
  BY <1>2, <1>3, SortedStays
<1> QED BY <1>4, <1>5, <1>6, <1>7, <1>8 DEF IInv

LEMMA RestartKeeps ==
    ASSUME WorkflowAssumption, IInv, Restart PROVE IInv'
<1>1. /\ Types /\ Sorted /\ node' = Restored /\ store' = node' /\ log' = file.log /\ running' = {}
      /\ lock' = None /\ stopGen' = 0 /\ clearGen' = [ch \in Chats |-> 0]
      /\ turn' = [p \in Prompts |-> IF turn[p].phase = "new" THEN NoTurn
                                    ELSE [turn[p] EXCEPT !.phase = "done"]]
      /\ cmd' = [c \in Commands |-> IF cmd[c].phase = "new" THEN NoCommand
                                    ELSE [cmd[c] EXCEPT !.phase = "done"]]
      /\ notice' = [notice EXCEPT !.phase = "done"]
      /\ past' = [past EXCEPT !.gaveUp = visible \ UNION {file.log[ch] : ch \in Chats},
                              !.stopped = {}, !.cleared = {}, !.overtaken = {}]
      /\ root' = root /\ file' = file /\ visible' = visible
  BY DEF Restart, IInv
<1>2. notice' \in NoticeType
  BY <1>1, NoticeIs
<1>3. file.nodes \in [Prompts -> States] /\ file.log \in [Chats -> SUBSET AllMessages]
  BY <1>1 DEF Types
<1>4. /\ node' \in [Prompts -> States]
      /\ \A q \in Prompts : /\ node'[q] \notin Runnable
                            /\ file.nodes[q] = "absent" => node'[q] = "absent"
  BY <1>1, <1>3 DEF Restored, Reconciled, Runnable, States
<1>5. /\ turn' \in [Prompts -> TurnType]
      /\ \A q \in Prompts : turn'[q].phase = IF turn[q].phase = "new" THEN "new" ELSE "done"
  <2>1. ASSUME NEW q \in Prompts
        PROVE  turn'[q] \in TurnType /\ turn'[q].phase = IF turn[q].phase = "new" THEN "new" ELSE "done"
    <3>1. turn[q] \in TurnType
      BY <1>1 DEF Types
    <3>2. CASE turn[q].phase = "new"
      BY <1>1, <3>2 DEF NoTurn, TurnType
    <3>3. CASE turn[q].phase # "new"
      BY <1>1, <3>1, <3>3 DEF TurnType
    <3> QED BY <3>2, <3>3
  <2> QED BY <1>1, <2>1
<1>6. /\ cmd' \in [Commands -> CommandType]
      /\ \A c \in Commands : cmd'[c].phase \in {"new", "done"}
  <2>1. ASSUME NEW c \in Commands
        PROVE  cmd'[c] \in CommandType /\ cmd'[c].phase \in {"new", "done"}
    <3>1. cmd[c] \in CommandType
      BY <1>1 DEF Types
    <3>2. CASE cmd[c].phase = "new"
      <4>1. Absent \in [Prompts -> States]
        BY DEF Absent, States
      <4> QED BY <1>1, <3>2, <4>1 DEF NoCommand, CommandType
    <3>3. CASE cmd[c].phase # "new"
      BY <1>1, <3>1, <3>3 DEF CommandType
    <3> QED BY <3>2, <3>3
  <2> QED BY <1>1, <2>1
<1>7. /\ past' \in PastType /\ past'.stopped = {} /\ past'.cleared = {} /\ past'.erased = past.erased
      /\ past'.gaveUp = visible \ UNION {file.log[ch] : ch \in Chats}
  <2> DEFINE lost == visible \ UNION {file.log[ch] : ch \in Chats}
  <2>1. lost \subseteq AllMessages /\ past \in PastType
    BY <1>1 DEF Types
  <2> HIDE DEF lost
  <2>2. past' \in PastType /\ past'.stopped = {} /\ past'.cleared = {} /\ past'.erased = past.erased
        /\ past'.gaveUp = lost
    BY <1>1, <2>1 DEF PastType, lost
  <2> QED BY <2>2 DEF lost
<1>8. Types'
  <2>1. stopGen' \in Nat /\ clearGen' \in [Chats -> Nat]
    BY <1>1
  <2> QED BY <1>1, <1>2, <1>3, <1>4, <1>5, <1>6, <1>7, <2>1 DEF Types
<1>9. \A c \in Commands : ~Holding(c)' /\ cmd'[c].phase # "snapshot"
  BY <1>6 DEF Holding
<1>10. ASSUME NEW q \in Prompts PROVE Delivered(q)' /\ Scheduled(q)' /\ Kept(q)'
  <2>1. Delivered(q) /\ Kept(q)
    BY DEF IInv
  <2>2. ~OnWay(q)'
    BY <1>5 DEF OnWay
  <2>3. Delivered(q)'
    BY <1>1, <1>4, <1>5, <1>9, <2>1, <2>2 DEF Delivered
  <2>4. Scheduled(q)'
    BY <1>4 DEF Scheduled, Runnable
  <2>5. q \in past.erased => IsCleared(q)' /\ store'[q] = "absent" /\ file'.nodes[q] = "absent"
    BY <1>1, <1>4, <1>5, <1>9, <2>1, <2>2 DEF Kept, IsCleared
  <2>6. Kept(q)'
    BY <1>1, <1>7, <1>9, <2>5 DEF Kept
  <2> QED BY <2>3, <2>4, <2>6
<1>11. \A c \in Commands : Commanded(c)'
  BY <1>1, <1>9 DEF Commanded, WorkflowAssumption
<1>12. Found'
  <2>1. ASSUME NEW m \in visible' \ past'.gaveUp PROVE Listed(m)'
    <3>1. PICK ch \in Chats : m \in file.log[ch]
      BY <1>1, <1>7
    <3>2. ChatOfMessage(m) = ch
      BY <1>1, <3>1 DEF Sorted
    <3> QED BY <1>1, <3>1, <3>2 DEF Listed
  <2> QED BY <2>1 DEF Found
<1>13. Sorted'
  BY <1>1, SortedStays DEF Sorted
<1> QED BY <1>8, <1>10, <1>11, <1>12, <1>13 DEF IInv

-----------------------------------------------------------------------------
(* The promises *)

LEMMA StutterKeeps ==
    ASSUME WorkflowAssumption, IInv, UNCHANGED vars PROVE IInv'
<1>1. /\ Types /\ lock' = lock
      /\ UNCHANGED <<stopGen, clearGen, turn, node, root, running, store, file, log, visible,
                     cmd, notice, past>>
  BY DEF vars, IInv
<1>2. Types'
  BY <1>1 DEF Types
<1>3. UNCHANGED <<gens, turn, trees, store>>
  BY <1>1 DEF gens, trees
<1>4. \A q \in Prompts : Delivered(q)' /\ Scheduled(q)' /\ Kept(q)'
  BY <1>1, <1>3, PromptsStay, HistoryStays, SameHoldIs
<1>5. \A c \in Commands : Commanded(c)'
  BY <1>1, CommandsStay, SameHoldIs
<1>6. Found'
  <2>1. ASSUME NEW m PROVE Listed(m) \/ Coming(m) => Listed(m)' \/ Coming(m)'
    BY <1>1 DEF Listed, Coming, Messages, Present
  <2> QED BY <1>1, <2>1, FoundIs
<1>7. Sorted'
  BY <1>1, SortedStays
<1> QED BY <1>2, <1>4, <1>5, <1>6, <1>7 DEF IInv

LEMMA InitKeeps == ASSUME WorkflowAssumption, Init PROVE IInv
<1>1. /\ stopGen = 0 /\ clearGen = [ch \in Chats |-> 0] /\ lock = None
      /\ turn = [p \in Prompts |-> NoTurn] /\ node = Absent /\ root = [p \in Prompts |-> None]
      /\ running = {} /\ log = [ch \in Chats |-> {}] /\ store = Absent
      /\ file = [nodes |-> Absent, log |-> [ch \in Chats |-> {}]] /\ visible = {}
      /\ cmd = [c \in Commands |-> NoCommand] /\ notice = NoNotice
      /\ past = [stopped |-> {}, cleared |-> {}, erased |-> {}, overtaken |-> {}, gaveUp |-> {}]
  BY DEF Init
<1>2. Absent \in [Prompts -> States] /\ \A p \in Prompts : Absent[p] = "absent"
  BY DEF Absent, States
<1>3. NoTurn \in TurnType /\ NoTurn.phase = "new"
  BY DEF NoTurn, TurnType
<1>4. NoCommand \in CommandType /\ NoCommand.phase = "new"
  BY <1>2 DEF NoCommand, CommandType
<1>5. NoNotice \in NoticeType
  BY DEF NoNotice, NoticeType
<1>6. Types
  <2>1. stopGen \in Nat /\ clearGen \in [Chats -> Nat] /\ lock \in Commands \cup {None}
    BY <1>1
  <2>2. turn \in [Prompts -> TurnType] /\ cmd \in [Commands -> CommandType]
    BY <1>1, <1>3, <1>4
  <2>3. node \in [Prompts -> States] /\ store \in [Prompts -> States]
        /\ root \in [Prompts -> Prompts \cup {None}] /\ running \subseteq Prompts
    BY <1>1, <1>2
  <2>4. log \in [Chats -> SUBSET AllMessages] /\ visible \subseteq AllMessages
    BY <1>1
  <2>5. file \in [nodes : [Prompts -> States], log : [Chats -> SUBSET AllMessages]]
    BY <1>1, <1>2
  <2>6. past \in PastType
    BY <1>1 DEF PastType
  <2> QED BY <1>1, <1>5, <2>1, <2>2, <2>3, <2>4, <2>5, <2>6 DEF Types
<1>7. /\ \A c \in Commands : cmd[c].phase = "new" /\ ~Holding(c)
      /\ \A p \in Prompts : turn[p].phase = "new" /\ node[p] = "absent" /\ store[p] = "absent"
      /\ \A p \in Prompts : file.nodes[p] = "absent"
      /\ \A ch \in Chats : log[ch] = {} /\ file.log[ch] = {}
  BY <1>1, <1>2, <1>3, <1>4 DEF Holding
<1>8. \A p \in Prompts : Delivered(p)
  BY <1>1, <1>7 DEF Delivered, OnWay
<1>9. \A p \in Prompts : Scheduled(p)
  BY <1>1, <1>2 DEF Scheduled, Runnable
<1>10. \A p \in Prompts : Kept(p)
  BY <1>1, <1>7 DEF Kept
<1>11. \A c \in Commands : Commanded(c)
  BY <1>1, <1>7 DEF Commanded, WorkflowAssumption
<1>12. Sorted /\ Found
  BY <1>1, <1>7 DEF Sorted, Found
<1> QED BY <1>6, <1>8, <1>9, <1>10, <1>11, <1>12 DEF IInv

LEMMA NextKeeps == ASSUME WorkflowAssumption, IInv, [Next]_vars PROVE IInv'
<1>1. ASSUME NEW p \in Prompts, Turn(p) PROVE IInv'
  BY <1>1, ReceiveKeeps, ResolveKeeps, SendStatusKeeps, RecordStatusKeeps, AdmitKeeps,
     RefuseKeeps, DiscardKeeps, RunnerWritesKeeps, RunnerEndsKeeps DEF Turn
<1>2. ASSUME NEW c \in Commands, Handle(c) PROVE IInv'
  BY <1>2, AskKeeps, StopReplyKeeps, StopAllKeeps, ClearReplyKeeps, ClearChatKeeps,
     SnapshotKeeps, ApplyKeeps, ClearStoreKeeps, DeleteMessagesKeeps, SendReplyKeeps,
     RecordReplyKeeps DEF Handle
<1>3. ASSUME StartupNotice PROVE IInv'
  BY <1>3, ReserveKeeps, SendNoticeKeeps, FinalizeKeeps, DiscardNoticeKeeps DEF StartupNotice
<1> QED BY <1>1, <1>2, <1>3, FlushKeeps, RestartKeeps, StutterKeeps DEF Next

\* Turns, commands, trees, the log and the file agree in every reachable state (the whole of
\* MessagingWorkflow).
THEOREM WorkflowIsSound == ASSUME WorkflowAssumption PROVE Spec => []IInv
<1>1. Init => IInv
  BY InitKeeps
<1>2. IInv /\ [Next]_vars => IInv'
  BY NextKeeps
<1> QED BY <1>1, <1>2, PTL DEF Spec

\* Who holds the state lock is a command that drains.
LEMMA LockIsHeld == ASSUME IInv PROVE TypeOK
BY DEF IInv, Types, Commanded, Holding, TypeOK

\* Only a command that drains keeps the state lock, and it keeps it alone.
THEOREM OneCommandDrains == ASSUME WorkflowAssumption PROVE Spec => []TypeOK
<1>1. IInv => TypeOK
  BY LockIsHeld
<1> QED BY <1>1, WorkflowIsSound, PTL

\* What the invariant says of the prompts that were stopped.
LEMMA StoppedIsQuiet == ASSUME IInv PROVE NothingOutlivesStop
<1>1. \A p \in past.stopped : p \in Prompts /\ Kept(p)
  BY DEF IInv, Types, PastType
<1> QED BY <1>1 DEF Kept, IsStopped, NothingOutlivesStop

\* Whatever step of its delivery a prompt was in when the user stopped everything, it never
\* waits or runs again, and neither does one that was stopped itself (workflow.py
\* _stop_all_tasks, _stop_reply, _admit_if_current).
THEOREM StopIsFinal == ASSUME WorkflowAssumption PROVE Spec => []NothingOutlivesStop
<1>1. IInv => NothingOutlivesStop
  BY StoppedIsQuiet
<1> QED BY <1>1, WorkflowIsSound, PTL

\* What the invariant says of the prompts that were cleared.
LEMMA ClearedIsGone == ASSUME WorkflowAssumption, IInv PROVE ClearedStaysCleared
<1>1. \A p \in past.cleared \cup past.erased : p \in Prompts /\ Kept(p)
  BY DEF IInv, Types, PastType
<1>2. lock = None => \A p \in past.cleared : store[p] = "absent"
  BY NobodyHolds
<1> QED BY <1>1, <1>2 DEF Kept, IsCleared, ClearedStaysCleared

\* What was cleared is in no tree, in no snapshot once the lock is free, and, once the store
\* has said so, in no file: neither a runner that still cleans up nor a turn on its way nor a
\* restart brings it back (workflow.py _clear_chat, _clear_reply, store.py
\* clear_scope).
THEOREM ClearIsFinal == ASSUME WorkflowAssumption PROVE Spec => []ClearedStaysCleared
<1>1. IInv => ClearedStaysCleared
  BY ClearedIsGone
<1> QED BY <1>1, WorkflowIsSound, PTL

\* What the invariant says of the messages on the platform.
LEMMA MessagesAreListed == ASSUME IInv PROVE NoOrphans
<1>1. ASSUME NEW m \in visible \ past.gaveUp, m[1] # "reply" PROVE Tracked(m)
  <2>1. m \notin {Reply(c) : c \in Commands}
    BY <1>1 DEF Reply
  <2>2. Listed(m) \/ Coming(m)
    BY <2>1 DEF IInv, Found
  <2>3. Listed(m) => Tracked(m)
    BY DEF Listed, Tracked, InFlight
  <2>4. Coming(m) => InFlight(m)
    BY DEF Coming, InFlight, Status, Command, Notice
  <2> QED BY <2>2, <2>3, <2>4 DEF Tracked
<1> QED BY <1>1 DEF NoOrphans

\* Every message the bot manages on the platform can still be found by a later /clear, or
\* somebody is on the way who will record it, delete it, or be refused by the platform.
THEOREM MessagesAreFound == ASSUME WorkflowAssumption PROVE Spec => []NoOrphans
<1>1. IInv => NoOrphans
  BY MessagesAreListed
<1> QED BY <1>1, WorkflowIsSound, PTL

\* What the invariant says of turns that can run, and of those that have finished.
LEMMA RestartsAreTrue == ASSUME IInv PROVE RunnableHasTask /\ StoredAsFinished
<1>1. \A p \in Prompts : Scheduled(p) /\ Kept(p)
  BY DEF IInv
<1>2. RunnableHasTask
  BY <1>1 DEF RunnableHasTask, Scheduled, Present
<1>3. StoredAsFinished
  BY <1>1 DEF StoredAsFinished, Kept
<1> QED BY <1>2, <1>3

\* What can run has a live task in its tree, also after a restart, and a turn that has finished
\* is stored as finished unless its runner wrote between the snapshot of a command and its
\* save; a run checks the two as RestartsAreHonest (store.py _load, node_runner.py).
THEOREM RestartsFindTheTruth ==
    ASSUME WorkflowAssumption PROVE Spec => [](RunnableHasTask /\ StoredAsFinished)
<1>1. IInv => RunnableHasTask /\ StoredAsFinished
  BY RestartsAreTrue
<1> QED BY <1>1, WorkflowIsSound, PTL
=============================================================================
