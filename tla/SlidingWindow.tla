--------------------------- MODULE SlidingWindow ---------------------------
(***************************************************************************)
(* The strict sliding-window limiter (src/codefa/core/rate_limit.py) that  *)
(* paces provider attempts and messaging deliveries.                       *)
(*                                                                         *)
(* Nothing under the limiter's lock suspends, so one round of _acquire is  *)
(* one action.  The deque _times is the part of `acquired` from `first`    *)
(* on: appending is appending, popleft moves `first`.  Time is counted in  *)
(* ticks, and may pass between the two readings of the clock in a round.   *)
(***************************************************************************)
EXTENDS Integers, Sequences, FiniteSets

CONSTANTS
    Callers, RateLimit, RateWindow,
    MaxTime, MaxAcquisitions   \* bounds on the ticks and on the acquisitions

ASSUME WindowAssumption ==
    /\ RateLimit \in Nat \ {0} /\ RateWindow \in Nat \ {0}
    /\ MaxTime \in Nat /\ MaxAcquisitions \in Nat

VARIABLES
    now,       \* time.monotonic()
    acquired,  \* when the acquisitions were made, from the first one on
    first,     \* the index in `acquired` of _times[0]
    waiting,   \* who is in _acquire
    until      \* when each caller's sleep ends

vars == <<now, acquired, first, waiting, until>>

Init ==
    /\ now = 0 /\ acquired = <<>> /\ first = 1
    /\ waiting = {} /\ until = [c \in Callers |-> 0]

\* Deviation, for the mutation runs: an entry expires one tick early.
Expired_Early(i) == acquired[i] - 1 <= now - RateWindow
Expired(i) == acquired[i] <= now - RateWindow

\* first after the expired entries have been dropped from the left.
FirstKept(f) ==
    /\ f \in first..(Len(acquired) + 1)
    /\ \A i \in first..(f - 1) : Expired(i)
    /\ f <= Len(acquired) => ~Expired(f)

HasCapacity(f) == Len(acquired) - f + 1 < RateLimit

Tick ==
    /\ now < MaxTime /\ now' = now + 1
    /\ UNCHANGED <<acquired, first, waiting, until>>

Ask(c) ==
    /\ c \notin waiting
    /\ waiting' = waiting \cup {c} /\ until' = [until EXCEPT ![c] = now]
    /\ UNCHANGED <<now, acquired, first>>

\* A round that finds capacity: the acquisition is recorded with the clock's reading then.
Acquire(c) ==
    /\ c \in waiting /\ until[c] <= now /\ Len(acquired) < MaxAcquisitions
    /\ \E f \in 1..(Len(acquired) + 1) :
           FirstKept(f) /\ HasCapacity(f) /\ first' = f
    /\ now' \in {now, now + 1}
    /\ acquired' = Append(acquired, now')
    /\ waiting' = waiting \ {c}
    /\ UNCHANGED until

\* acquire_if whose condition no longer holds: no quota is consumed.
Refuse(c) ==
    /\ c \in waiting /\ until[c] <= now
    /\ \E f \in 1..(Len(acquired) + 1) :
           FirstKept(f) /\ HasCapacity(f) /\ first' = f
    /\ waiting' = waiting \ {c}
    /\ UNCHANGED <<now, acquired, until>>

\* Deviation, for the mutation runs: the caller sleeps until the newest entry expires.
Sleep_Newest(c) ==
    /\ c \in waiting /\ until[c] <= now
    /\ \E f \in 1..(Len(acquired) + 1) :
           /\ FirstKept(f) /\ ~HasCapacity(f) /\ first' = f
           /\ until' = [until EXCEPT ![c] = acquired[Len(acquired)] + RateWindow]
    /\ UNCHANGED <<now, acquired, waiting>>

\* A round that finds none: the caller sleeps until the oldest entry expires.
Sleep(c) ==
    /\ c \in waiting /\ until[c] <= now
    /\ \E f \in 1..(Len(acquired) + 1) :
           /\ FirstKept(f) /\ ~HasCapacity(f) /\ first' = f
           /\ until' = [until EXCEPT ![c] = acquired[f] + RateWindow]
    /\ UNCHANGED <<now, acquired, waiting>>

\* A caller is cancelled in its sleep.
GiveUp(c) ==
    /\ c \in waiting /\ until[c] > now
    /\ waiting' = waiting \ {c}
    /\ UNCHANGED <<now, acquired, first, until>>

Next == Tick \/ \E c \in Callers : Ask(c) \/ Acquire(c) \/ Refuse(c) \/ Sleep(c) \/ GiveUp(c)

Spec == Init /\ [][Next]_vars

-----------------------------------------------------------------------------
(* Properties *)

\* Types of every variable; the deque is a suffix of the acquisitions.
TypeOK ==
    /\ now \in Nat /\ acquired \in Seq(Nat)
    /\ first \in Nat /\ 1 <= first /\ first <= Len(acquired) + 1
    /\ waiting \subseteq Callers /\ until \in [Callers -> Nat]

\* "at most rate_limit acquisitions in any interval of length rate_window": an
\* acquisition comes at least a window after the one rate_limit places before it.
AtMostRateLimit ==
    \A i \in 1..Len(acquired) :
        i + RateLimit <= Len(acquired) => acquired[i + RateLimit] - acquired[i] >= RateWindow

\* While anybody sleeps the window is full: the last rate_limit acquisitions are all
\* less than a window old, so no caller sleeps past the moment it could be admitted.
NobodySleepsBesideCapacity ==
    \A c \in waiting :
        until[c] > now => /\ Len(acquired) >= RateLimit
                          /\ \A i \in (Len(acquired) - RateLimit + 1)..Len(acquired) :
                                 acquired[i] > now - RateWindow
=============================================================================
