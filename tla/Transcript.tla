------------------------------ MODULE Transcript ------------------------------
(***************************************************************************)
(* The transcript of one turn: parsed CLI events become segments, the      *)
(* narration of a subagent (a Task tool call) is hidden until its result   *)
(* arrives, and the segments are rendered into one message of bounded      *)
(* length (src/codefa/messaging/transcript/ and ui_updates.py).            *)
(*                                                                         *)
(* A segment is what it is of and how long it renders.  The CLI is         *)
(* external: it announces tool calls and later sends their results, and    *)
(* its blocks carry indexes that may be missing or used again.             *)
(***************************************************************************)
EXTENDS Integers, Sequences, FiniteSets, SequencesExt

CONSTANTS
    Ids,       \* tool-use ids
    NoId,      \* a Task without an id
    TaskLike,  \* the ids with "task" in them
    Roughly,   \* the pairs of different ids of which one begins with the other
    Indexes,   \* block indexes
    MaxEvents, \* events of a turn
    Limit,     \* limit_chars
    Marker,    \* length of the truncation marker
    MinTail    \* a tail shorter than this is not worth showing

VARIABLES
    applied,   \* events applied
    segments,  \* the segments, in order
    open,      \* the segments of the open blocks, by kind and index
    names,     \* _tool_name_by_id
    stack,     \* SubagentState: markers and segments of the Tasks that hide narration
    running    \* the tool calls announced and not answered: their ids, and whether Tasks

vars == <<applied, segments, open, names, stack, running>>

NoIndex == -1
Kinds   == {"thinking", "text"}

Init ==
    /\ applied = 0 /\ segments = <<>> /\ open = <<>> /\ names = <<>>
    /\ stack = <<>> /\ running = {}

Segment(kind, of, length) == [kind |-> kind, of |-> of, length |-> length, tools |-> 0]

-----------------------------------------------------------------------------
(* SubagentState *)

Match(marker, id) == marker = id \/ <<marker, id>> \in Roughly \/ <<id, marker>> \in Roughly

\* What the theorems take for granted: of two ids that are not one, at most one matches a
\* third.  Two Tasks whose ids both begin with that of a third may leave it on the stack.
TranscriptAssumption ==
    /\ NoId \notin Ids /\ Limit \in Nat /\ Marker \in Nat /\ MinTail \in Nat
    /\ \A a, b, c \in Ids : Match(a, b) /\ Match(a, c) => a = b \/ a = c \/ b = c

\* push: a Task without an id gets a marker that is nobody's id.
Synthetic(m) == m = NoId

\* The depths at which the result of `id` matches the stack.
Depths(id) ==
    {d \in DOMAIN stack : ~Synthetic(stack[d].marker) /\ Match(stack[d].marker, id)}

\* Deviation, for the mutation runs: an unmatched result never closes a Task.
Popped_Exact(id) ==
    IF Depths(id) # {} THEN SubSeq(stack, 1, (CHOOSE d \in Depths(id) : \A e \in Depths(id) : e <= d) - 1)
    ELSE stack

\* close_for_tool_result: everything from the innermost match up, or a Task without
\* an id on top if the result looks like a Task's.
Popped(id) ==
    IF Depths(id) # {}
    THEN SubSeq(stack, 1, (CHOOSE d \in Depths(id) : \A e \in Depths(id) : e <= d) - 1)
    ELSE IF /\ stack # <<>> /\ Synthetic(Last(stack).marker) /\ id \in TaskLike
            /\ id \notin DOMAIN names \/ names[id] = "Task"
    THEN Front(stack)
    ELSE stack

-----------------------------------------------------------------------------
(* TranscriptBuffer.apply *)

Without(f, i) == [j \in DOMAIN f \ {i} |-> f[j]]
With(f, i, v) == [j \in DOMAIN f \union {i} |-> IF j = i THEN v ELSE f[j]]

\* _close_block: one block of the index, a tool call first.
Closed(i) ==
    LET kind == IF <<"tool", i>> \in DOMAIN open THEN "tool"
                ELSE IF <<"thinking", i>> \in DOMAIN open THEN "thinking" ELSE "text"
    IN  Without(open, <<kind, i>>)

\* A segment is appended, and is the open one of its index if it has one.
Opened(blocks, kind, i, length) ==
    /\ segments' = Append(segments, Segment(kind, NoId, length))
    /\ open' = IF i = NoIndex THEN blocks ELSE With(blocks, <<kind, i>>, Len(segments) + 1)

\* _start_thinking and _start_text: an index in use is closed first.
StartBlock(kind, i) ==
    /\ stack = <<>>
    /\ Opened(Closed(i), kind, i, 0)
    /\ UNCHANGED <<names, stack, running>>

\* _append_thinking and _append_text: to the open segment, or to a new one.
AppendText(kind, i, length) ==
    /\ stack = <<>>
    /\ IF <<kind, i>> \in DOMAIN open
       THEN segments' = [segments EXCEPT ![open[kind, i]].length = @ + length] /\ UNCHANGED open
       ELSE Opened(open, kind, i, length)
    /\ UNCHANGED <<names, stack, running>>

\* Narration of a subagent is not shown.
Suppressed ==
    stack # <<>> /\ UNCHANGED <<segments, open, names, stack, running>>

\* thinking_stop, text_stop and tool_use_stop of a kind, and block_stop of any
StopBlock(i) ==
    /\ \/ \E kind \in Kinds \union {"tool"} :
             <<kind, i>> \in DOMAIN open /\ open' = Without(open, <<kind, i>>)
       \/ open' = Closed(i)
    /\ UNCHANGED <<segments, names, stack, running>>

Named(id, name) == IF id = NoId THEN names ELSE With(names, id, name)

\* _start_tool_use and _append_complete_tool_use, of a Task
StartTask(id) ==
    /\ segments' = Append(segments, Segment("subagent", id, 1))
    /\ stack' = Append(stack, [marker |-> id, at |-> Len(segments) + 1])
    /\ names' = Named(id, "Task")
    /\ running' = running \union {[id |-> id, task |-> TRUE]}
    /\ UNCHANGED open

\* The same of another tool: a subagent shows its tools in its own segment.
StartTool(id, i) ==
    /\ names' = Named(id, "tool")
    /\ IF stack = <<>>
       THEN segments' = Append(segments, Segment("tool", id, 1))
       ELSE segments' = [segments EXCEPT ![Last(stack).at].tools = @ + 1]
    /\ open' = IF i = NoIndex THEN open
               ELSE With(Closed(i), <<"tool", i>>,
                         IF stack = <<>> THEN Len(segments) + 1 ELSE Last(stack).at)
    /\ running' = running \union {[id |-> id, task |-> FALSE]}
    /\ UNCHANGED stack

\* _append_tool_result.  The result of a Task without an id comes under some id.
ToolResult(id, show) ==
    /\ \E call \in running :
          /\ \/ call.id = id
             \/ call = [id |-> NoId, task |-> TRUE] /\ id \in TaskLike /\ id \notin DOMAIN names
          /\ running' = running \ {call}
    /\ stack' = Popped(id)
    /\ segments' = IF show THEN Append(segments, Segment("result", id, 1)) ELSE segments
    /\ UNCHANGED <<open, names>>

Error ==
    /\ segments' = Append(segments, Segment("error", NoId, 1))
    /\ UNCHANGED <<open, names, stack, running>>

-----------------------------------------------------------------------------
(* Rendering *)

\* The segments that render to something, and how long.
Size(k)  == segments[k].length + segments[k].tools
Rendered == {k \in DOMAIN segments : Size(k) > 0}

\* _join of the segments from `first` on: one line break between two of them.
Joined(first, status, marked) ==
    LET some == {k \in Rendered : first <= k}
    IN  (IF some = {} THEN 0
         ELSE MapThenSumSet(Size, some) + Cardinality(some) - 1 + IF marked THEN Marker ELSE 0)
        + status

Fitting(status) == {k \in Rendered : Joined(k, status, TRUE) <= Limit}

\* Deviation, for the mutation runs: the marker is not counted.
Budget_Unmarked(status) == Limit - status

\* What is left for the tail of the last segment.
Budget(status) == Limit - Marker - status

Least(S) == CHOOSE k \in S : \A j \in S : k <= j
Newest   == CHOOSE k \in Rendered : \A j \in Rendered : j <= k

TailLength(status) == IF Size(Newest) < Budget(status) THEN Size(Newest) ELSE Budget(status)
Shown(from, length) == [from |-> from, length |-> length]

\* render_segments: the whole, the newest segments behind a marker, the tail of the
\* last one, the marker alone, or nothing but the status.
Render(status) ==
    CASE Joined(1, status, FALSE) <= Limit -> Shown(1, Joined(1, status, FALSE))
      [] OTHER -> CASE Fitting(status) # {} ->
                          Shown(Least(Fitting(status)), Joined(Least(Fitting(status)), status, TRUE))
                    [] /\ Fitting(status) = {} /\ Rendered # {} /\ Budget(status) > MinTail
                       /\ Marker + TailLength(status) + status <= Limit ->
                          Shown(Newest, Marker + TailLength(status) + status)
                    [] OTHER -> Shown(Len(segments) + 1,
                                      IF Rendered # {} /\ Marker + status <= Limit
                                      THEN Marker + status ELSE status)

-----------------------------------------------------------------------------
\* Ids are used once; a Task without an id runs alone (external).
RunningTasks == {call.id : call \in {c \in running : c.task}}
Fresh(id)    == id \notin DOMAIN names
FreshTask(id) ==
    /\ Fresh(id) /\ NoId \notin RunningTasks
    /\ id = NoId => RunningTasks = {}

Narration ==
    \/ \E kind \in Kinds, i \in Indexes \union {NoIndex} :
          StartBlock(kind, i) \/ AppendText(kind, i, 5)
    \/ Suppressed
    \/ \E i \in Indexes : StopBlock(i)
Tooling ==
    \/ \E id \in Ids \union {NoId} : FreshTask(id) /\ StartTask(id)
    \/ \E id \in Ids, i \in Indexes \union {NoIndex} : Fresh(id) /\ StartTool(id, i)
    \/ \E id \in Ids, show \in BOOLEAN : ToolResult(id, show)

Apply ==
    /\ applied < MaxEvents /\ applied' = applied + 1
    /\ Narration \/ Tooling \/ Error

Next == Apply

Spec == Init /\ [][Next]_vars

-----------------------------------------------------------------------------
(* What a transcript promises *)

\* Narration is hidden only while a subagent runs: once every Task that was announced
\* has its result, in whatever order and under whatever id the results came, what the
\* turn says is shown again (subagents.py close_for_tool_result).
SuppressedOnlyDuringATask == stack # <<>> => \E call \in running : call.task

\* A message fits its limit unless its status alone is too long, and shows the newest
\* segment, or its tail, whenever there is room for one (renderer.py render_segments).
RenderedFits ==
    \A status \in {0, 2, Limit - MinTail, Limit + 1} :
       LET r == Render(status)
       IN  /\ r.length <= Limit \/ r.length = status
           /\ Rendered # {} /\ Limit - Marker - status > MinTail => \E k \in Rendered : r.from <= k
=============================================================================
