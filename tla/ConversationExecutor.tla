------------------------ MODULE ConversationExecutor ------------------------
(***************************************************************************)
(* What the messaging trees promise, without trees, claims or tasks: each  *)
(* conversation executes one turn at a time, in the order of submission,   *)
(* and every turn is executed at most once.  A turn may be withdrawn while *)
(* it waits (stopped, cleared, or failed with the turn it depends on), and *)
(* never returns.                                                          *)
(***************************************************************************)
EXTENDS Naturals

CONSTANTS Conversations, Turns, Nobody

VARIABLES
    submitted,  \* turns that were ever delivered
    line,       \* the waiting turns of each conversation, each with its ticket
    busy        \* the turn each conversation executes, or Nobody

execVars == <<submitted, line, busy>>

Empty == [x \in {} |-> 0]

Init ==
    /\ submitted = {}
    /\ line = [t \in Conversations |-> Empty]
    /\ busy = [t \in Conversations |-> Nobody]

Without(q, S)     == [x \in DOMAIN q \ S |-> q[x]]
Behind(q, x, k)   == [y \in DOMAIN q \cup {x} |-> IF y = x THEN k ELSE q[y]]
IsFirst(q, x)     == x \in DOMAIN q /\ \A y \in DOMAIN q : q[x] <= q[y]

\* A new turn starts at once in an idle conversation ...
Start(t, x) ==
    /\ x \notin submitted /\ busy[t] = Nobody
    /\ submitted' = submitted \cup {x}
    /\ busy' = [busy EXCEPT ![t] = x]
    /\ UNCHANGED line

\* ... and otherwise waits, with a ticket greater than anybody's; ...
Wait(t, x) ==
    /\ x \notin submitted /\ busy[t] # Nobody
    /\ submitted' = submitted \cup {x}
    /\ x \in DOMAIN line'[t]
    /\ line' = [line EXCEPT ![t] = Behind(@, x, line'[t][x])]
    /\ \A y \in DOMAIN line[t] : line[t][y] < line'[t][x]
    /\ UNCHANGED busy

\* ... or it is refused.
Refuse(x) ==
    /\ x \notin submitted
    /\ submitted' = submitted \cup {x}
    /\ UNCHANGED <<line, busy>>

\* Waiting turns of any conversations are withdrawn.
Withdraw ==
    /\ UNCHANGED <<submitted, busy>>
    /\ \E S \in [Conversations -> SUBSET Turns] :
          line' = [t \in Conversations |-> Without(line[t], S[t])]

\* The executing turn ends, possibly taking waiting turns with it, and hands the
\* conversation to the first one left.
Finish(t) ==
    /\ busy[t] # Nobody
    /\ UNCHANGED submitted
    /\ \E S \in SUBSET Turns :
         LET left == Without(line[t], S)
         IN  \/ /\ DOMAIN left = {}
                /\ busy' = [busy EXCEPT ![t] = Nobody]
                /\ line' = [line EXCEPT ![t] = left]
             \/ \E x \in DOMAIN left :
                /\ IsFirst(left, x)
                /\ busy' = [busy EXCEPT ![t] = x]
                /\ line' = [line EXCEPT ![t] = Without(left, {x})]

Next ==
    \/ \E x \in Turns :
         Refuse(x) \/ \E t \in Conversations : Start(t, x) \/ Wait(t, x)
    \/ Withdraw
    \/ \E t \in Conversations : Finish(t)

Spec == Init /\ [][Next]_execVars
=============================================================================
