-------------------------- MODULE ProxyServer_proofs --------------------------
(***************************************************************************)
(* What the server promises, for any limits, requests, fields, clients,    *)
(* providers and models, and any bounds.  The parts whose proofs have no   *)
(* module of their own are proved here, one after the other: the rate      *)
(* window, the background server, the application's lifetime, a response,  *)
(* the fate of an error, Admin's Apply and the models on offer; then the   *)
(* server, of which each part keeps its invariant.                         *)
(***************************************************************************)
EXTENDS ProxyServer, TLAPS

-----------------------------------------------------------------------------
(* The rate window: SlidingWindow *)

(***************************************************************************)
(* The limiter keeps its promise for every limit, window and number of     *)
(* callers.  An entry leaves the deque only when it is a window old, and   *)
(* the deque is never longer than the limit: so when the n-th acquisition  *)
(* is recorded, the one RateLimit places before it has left the deque.     *)
(***************************************************************************)

\* Acquisitions are recorded in the order of the clock.
InOrder ==
    /\ \A i, j \in 1..Len(acquired) : i <= j => acquired[i] <= acquired[j]
    /\ \A i \in 1..Len(acquired) : acquired[i] <= now

DroppedAreOld == \A i \in 1..(first - 1) : acquired[i] <= now - RateWindow

NotTooLong == Len(acquired) - first + 1 <= RateLimit

\* Who sleeps was told a moment at which the window is no longer full.
SleepersAreBound ==
    \A c \in waiting :
        until[c] > now => /\ Len(acquired) >= RateLimit
                          /\ until[c] <= acquired[Len(acquired) - RateLimit + 1] + RateWindow

WindowInv ==
    /\ TypeOK /\ InOrder /\ DroppedAreOld /\ NotTooLong
    /\ AtMostRateLimit /\ SleepersAreBound

\* What the deque's new head is, whatever the round then decides (rate_limit.py:50).
LEMMA HeadIsOldest ==
    ASSUME WindowInv, NEW f \in 1..(Len(acquired) + 1), FirstKept(f)
    PROVE  /\ f \in Nat /\ 1 <= f /\ f <= Len(acquired) + 1 /\ first <= f
           /\ \A i \in 1..(f - 1) : acquired[i] <= now - RateWindow
           /\ f <= Len(acquired) => acquired[f] > now - RateWindow
           /\ Len(acquired) - f + 1 <= RateLimit
<1> USE WindowAssumption
<1>1. first \in Nat /\ Len(acquired) \in Nat /\ now \in Nat /\ 1 <= first
      /\ \A i \in 1..Len(acquired) : acquired[i] \in Nat
  BY DEF WindowInv, TypeOK
<1>2. first <= f /\ f <= Len(acquired) + 1 /\ f \in Nat /\ 1 <= f
  BY <1>1 DEF FirstKept
<1>3. ASSUME NEW i \in 1..(f - 1) PROVE acquired[i] <= now - RateWindow
  BY <1>1, <1>2 DEF WindowInv, DroppedAreOld, FirstKept, Expired
<1>4. f <= Len(acquired) => acquired[f] > now - RateWindow
  <2>1. HAVE f <= Len(acquired)
  <2>2. acquired[f] \in Nat
    BY <1>1, <1>2, <2>1
  <2> QED BY <1>1, <2>1, <2>2 DEF FirstKept, Expired
<1>5. Len(acquired) - f + 1 <= RateLimit
  BY <1>1, <1>2 DEF WindowInv, NotTooLong
<1> QED BY <1>2, <1>3, <1>4, <1>5

\* Recording an acquisition after the old entries were dropped (rate_limit.py:50-57).
LEMMA AcquirePreserves ==
    ASSUME WindowInv, NEW c \in Callers, Acquire(c)
    PROVE  WindowInv'
<1> USE WindowAssumption
<1>1. PICK f \in 1..(Len(acquired) + 1) : FirstKept(f) /\ HasCapacity(f) /\ first' = f
  BY DEF Acquire
<1> DEFINE n == Len(acquired)
<1>2. /\ f \in Nat /\ 1 <= f /\ f <= n + 1
      /\ \A i \in 1..(f - 1) : acquired[i] <= now - RateWindow
  BY <1>1, HeadIsOldest
<1>3. n - f + 1 < RateLimit
  BY <1>1 DEF HasCapacity
<1>4. /\ now \in Nat /\ n \in Nat /\ acquired \in Seq(Nat) /\ now' \in Nat /\ now <= now'
      /\ \A i \in 1..n : acquired[i] \in Nat /\ acquired[i] <= now
  BY DEF WindowInv, TypeOK, InOrder, Acquire
<1>5. /\ acquired' \in Seq(Nat) /\ Len(acquired') = n + 1
      /\ \A i \in 1..n : acquired'[i] = acquired[i]
      /\ acquired'[n + 1] = now'
  BY <1>4 DEF Acquire
<1> HIDE DEF n
<1>6. TypeOK'
  BY <1>1, <1>2, <1>4, <1>5 DEF WindowInv, TypeOK, Acquire
<1>7. InOrder'
  <2>1. ASSUME NEW i \in 1..(n + 1) PROVE acquired'[i] <= now'
    <3>1. CASE i = n + 1
      <4>1. acquired'[i] = now'
        BY <3>1, <1>5
      <4> QED BY <4>1, <1>4
    <3>2. CASE i # n + 1
      <4>1. i \in 1..n
        BY <3>2, <1>4
      <4>2. acquired'[i] = acquired[i] /\ acquired[i] \in Nat /\ acquired[i] <= now
        BY <4>1, <1>4, <1>5
      <4> QED BY <4>2, <1>4
    <3> QED BY <3>1, <3>2
  <2>2. ASSUME NEW i \in 1..(n + 1), NEW j \in 1..(n + 1), i <= j
        PROVE  acquired'[i] <= acquired'[j]
    <3>1. CASE j = n + 1
      BY <3>1, <2>1, <1>5
    <3>2. CASE j # n + 1
      <4>1. i \in 1..n /\ j \in 1..n
        BY <3>2, <2>2, <1>4
      <4>2. acquired[i] <= acquired[j]
        BY <4>1, <2>2 DEF WindowInv, InOrder, n
      <4> QED BY <4>1, <4>2, <1>5
    <3> QED BY <3>1, <3>2
  <2> QED BY <2>1, <2>2, <1>5 DEF InOrder
<1>8. DroppedAreOld'
  <2>1. ASSUME NEW i \in 1..(f - 1) PROVE acquired'[i] <= now' - RateWindow
    <3>1. i \in 1..n
      BY <1>2, <1>4
    <3>2. acquired[i] <= now - RateWindow /\ acquired'[i] = acquired[i]
      BY <3>1, <1>2, <1>5
    <3> QED BY <3>1, <3>2, <1>4
  <2> QED BY <2>1, <1>1 DEF DroppedAreOld
<1>9. NotTooLong'
  BY <1>1, <1>2, <1>3, <1>4, <1>5 DEF NotTooLong
<1>10. AtMostRateLimit'
  <2>1. ASSUME NEW i \in 1..(n + 1), i + RateLimit <= n + 1
        PROVE  acquired'[i + RateLimit] - acquired'[i] >= RateWindow
    <3>1. CASE i + RateLimit = n + 1
      <4>1. i \in 1..(f - 1) /\ i \in 1..n
        BY <3>1, <1>2, <1>3, <1>4
      <4>2. acquired[i] <= now - RateWindow /\ acquired'[i] = acquired[i]
        BY <4>1, <1>2, <1>5
      <4>3. acquired'[i + RateLimit] = now'
        BY <3>1, <1>5
      <4>4. acquired[i] \in Nat
        BY <4>1, <1>4
      <4> QED BY <4>2, <4>3, <4>4, <1>4
    <3>2. CASE i + RateLimit # n + 1
      <4>1. i \in 1..n /\ i + RateLimit \in 1..n /\ i + RateLimit <= n
        BY <3>2, <2>1, <1>4
      <4>2. acquired[i + RateLimit] - acquired[i] >= RateWindow
        BY <4>1 DEF WindowInv, AtMostRateLimit, n
      <4> QED BY <4>1, <4>2, <1>5
    <3> QED BY <3>1, <3>2
  <2> QED BY <2>1, <1>5 DEF AtMostRateLimit
<1>11. SleepersAreBound'
  <2>1. SUFFICES ASSUME NEW d \in waiting', until'[d] > now'
        PROVE  /\ Len(acquired') >= RateLimit
               /\ until'[d] <= acquired'[Len(acquired') - RateLimit + 1] + RateWindow
    BY DEF SleepersAreBound
  <2>2. d \in waiting /\ until'[d] = until[d] /\ until[d] \in Nat
    BY <2>1 DEF Acquire, WindowInv, TypeOK
  <2>3. until[d] > now
    BY <2>1, <2>2, <1>4
  <2>4. n >= RateLimit /\ until[d] <= acquired[n - RateLimit + 1] + RateWindow
    BY <2>2, <2>3 DEF WindowInv, SleepersAreBound, n
  <2> DEFINE k == n - RateLimit + 1
  <2>5. k \in 1..n /\ k + 1 \in 1..(n + 1)
    BY <2>4, <1>4
  <2>6. acquired'[k] <= acquired'[k + 1]
    BY <2>5, <1>5, <1>7, <1>4 DEF InOrder
  <2>7. acquired'[k] = acquired[k] /\ acquired[k] \in Nat /\ acquired'[k + 1] \in Nat
    BY <2>5, <1>4, <1>5
  <2>8. k + 1 = Len(acquired') - RateLimit + 1 /\ Len(acquired') >= RateLimit
    BY <2>4, <1>4, <1>5
  <2>9. until[d] <= acquired[k] + RateWindow
    BY <2>4
  <2> HIDE DEF k
  <2>10. until'[d] <= acquired'[k + 1] + RateWindow
    BY <2>2, <2>6, <2>7, <2>9
  <2> QED BY <2>8, <2>10
<1> QED BY <1>6, <1>7, <1>8, <1>9, <1>10, <1>11 DEF WindowInv

\* A round that finds the window full, and the sleep it begins (rate_limit.py:59-65).
LEMMA SleepPreserves ==
    ASSUME WindowInv, NEW c \in Callers, Sleep(c)
    PROVE  WindowInv'
<1> USE WindowAssumption
<1>1. PICK f \in 1..(Len(acquired) + 1) :
          /\ FirstKept(f) /\ ~HasCapacity(f) /\ first' = f
          /\ until' = [until EXCEPT ![c] = acquired[f] + RateWindow]
  BY DEF Sleep
<1> DEFINE n == Len(acquired)
<1>2. /\ f \in Nat /\ 1 <= f /\ f <= n + 1 /\ n - f + 1 <= RateLimit
      /\ \A i \in 1..(f - 1) : acquired[i] <= now - RateWindow
  BY <1>1, HeadIsOldest
<1>3. n \in Nat /\ now \in Nat /\ until \in [Callers -> Nat] /\ acquired \in Seq(Nat)
      /\ \A i \in 1..n : acquired[i] \in Nat
  BY DEF WindowInv, TypeOK
<1>4. f = n - RateLimit + 1 /\ f \in 1..n /\ n >= RateLimit
  <2>1. ~(n - f + 1 < RateLimit)
    BY <1>1 DEF HasCapacity
  <2> HIDE DEF n
  <2> QED BY <2>1, <1>2, <1>3
<1>5. acquired[f] + RateWindow \in Nat
  BY <1>3, <1>4
<1>6. now' = now /\ acquired' = acquired /\ waiting' = waiting
  BY DEF Sleep
<1>7. TypeOK'
  BY <1>1, <1>2, <1>3, <1>5, <1>6 DEF WindowInv, TypeOK
<1>8. InOrder' /\ AtMostRateLimit'
  BY <1>6 DEF WindowInv, InOrder, AtMostRateLimit
<1>9. DroppedAreOld' /\ NotTooLong'
  BY <1>1, <1>2, <1>6 DEF DroppedAreOld, NotTooLong
<1>10. SleepersAreBound'
  <2>1. SUFFICES ASSUME NEW d \in waiting, until'[d] > now
        PROVE  n >= RateLimit /\ until'[d] <= acquired[n - RateLimit + 1] + RateWindow
    BY <1>6 DEF SleepersAreBound
  <2>2. d \in Callers
    BY DEF WindowInv, TypeOK
  <2>3. CASE d = c
    <3>1. until'[d] = acquired[f] + RateWindow
      BY <2>2, <2>3, <1>1, <1>3
    <3> QED BY <3>1, <1>4, <1>5
  <2>4. CASE d # c
    <3>1. until'[d] = until[d]
      BY <2>2, <2>4, <1>1, <1>3
    <3> QED BY <3>1, <2>1 DEF WindowInv, SleepersAreBound
  <2> QED BY <2>3, <2>4
<1> QED BY <1>7, <1>8, <1>9, <1>10 DEF WindowInv

\* The steps that record nothing and put nobody to sleep.
LEMMA OthersPreserve ==
    ASSUME WindowInv,
           \/ Tick
           \/ \E c \in Callers : Ask(c) \/ Refuse(c) \/ GiveUp(c)
    PROVE  WindowInv'
<1> USE WindowAssumption
<1>0. /\ now \in Nat /\ Len(acquired) \in Nat /\ until \in [Callers -> Nat]
      /\ acquired \in Seq(Nat) /\ waiting \subseteq Callers /\ first \in Nat /\ 1 <= first
      /\ first <= Len(acquired) + 1 /\ \A i \in 1..Len(acquired) : acquired[i] \in Nat
  BY DEF WindowInv, TypeOK
<1>1. CASE Tick
  <2>1. now' = now + 1 /\ UNCHANGED <<acquired, first, waiting, until>>
    BY <1>1 DEF Tick
  <2>2. TypeOK' /\ AtMostRateLimit' /\ NotTooLong'
    BY <2>1, <1>0 DEF WindowInv, TypeOK, AtMostRateLimit, NotTooLong
  <2>3. InOrder'
    BY <2>1, <1>0 DEF WindowInv, InOrder
  <2>4. DroppedAreOld'
    BY <2>1, <1>0 DEF WindowInv, DroppedAreOld
  <2>5. SleepersAreBound'
    BY <2>1, <1>0 DEF WindowInv, SleepersAreBound
  <2> QED BY <2>2, <2>3, <2>4, <2>5 DEF WindowInv
<1>2. ASSUME NEW c \in Callers, Ask(c) PROVE WindowInv'
  <2>1. /\ UNCHANGED <<now, acquired, first>> /\ waiting' = waiting \cup {c}
        /\ until' = [until EXCEPT ![c] = now]
    BY <1>2 DEF Ask
  <2>2. TypeOK' /\ AtMostRateLimit' /\ NotTooLong' /\ InOrder' /\ DroppedAreOld'
    BY <2>1, <1>0 DEF WindowInv, TypeOK, AtMostRateLimit, NotTooLong, InOrder, DroppedAreOld
  <2>3. SleepersAreBound'
    BY <2>1, <1>0 DEF WindowInv, SleepersAreBound
  <2> QED BY <2>2, <2>3 DEF WindowInv
<1>3. ASSUME NEW c \in Callers, Refuse(c) PROVE WindowInv'
  <2>1. PICK f \in 1..(Len(acquired) + 1) : FirstKept(f) /\ first' = f
    BY <1>3 DEF Refuse
  <2>2. UNCHANGED <<now, acquired, until>> /\ waiting' = waiting \ {c}
    BY <1>3 DEF Refuse
  <2>3. /\ f \in Nat /\ 1 <= f /\ f <= Len(acquired) + 1
        /\ \A i \in 1..(f - 1) : acquired[i] <= now - RateWindow
        /\ Len(acquired) - f + 1 <= RateLimit
    BY <2>1, HeadIsOldest
  <2>4. TypeOK' /\ NotTooLong' /\ DroppedAreOld'
    BY <2>1, <2>2, <2>3, <1>0 DEF TypeOK, NotTooLong, DroppedAreOld
  <2>5. AtMostRateLimit' /\ InOrder' /\ SleepersAreBound'
    BY <2>2 DEF WindowInv, AtMostRateLimit, InOrder, SleepersAreBound
  <2> QED BY <2>4, <2>5 DEF WindowInv
<1>4. ASSUME NEW c \in Callers, GiveUp(c) PROVE WindowInv'
  <2>1. UNCHANGED <<now, acquired, first, until>> /\ waiting' = waiting \ {c}
    BY <1>4 DEF GiveUp
  <2> QED
    BY <2>1, <1>0 DEF WindowInv, TypeOK, AtMostRateLimit, NotTooLong, InOrder, DroppedAreOld,
                      SleepersAreBound
<1> QED BY <1>1, <1>2, <1>3, <1>4

LEMMA WindowInit == ASSUME Init PROVE WindowInv
BY WindowAssumption
DEF Init, WindowInv, TypeOK, InOrder, DroppedAreOld, NotTooLong, AtMostRateLimit, SleepersAreBound

LEMMA WindowNext == ASSUME WindowInv, [Next]_vars PROVE WindowInv'
<1>1. CASE UNCHANGED vars
  BY <1>1 DEF vars, WindowInv, TypeOK, InOrder, DroppedAreOld, NotTooLong, AtMostRateLimit,
              SleepersAreBound
<1>2. ASSUME NEW c \in Callers, Acquire(c) PROVE WindowInv'
  BY <1>2, AcquirePreserves
<1>3. ASSUME NEW c \in Callers, Sleep(c) PROVE WindowInv'
  BY <1>3, SleepPreserves
<1>4. ASSUME \/ Tick
             \/ \E c \in Callers : Ask(c) \/ Refuse(c) \/ GiveUp(c)
      PROVE  WindowInv'
  BY <1>4, OthersPreserve
<1> QED BY <1>1, <1>2, <1>3, <1>4 DEF Next

\* The strengthened invariant holds in every state.
THEOREM Inductive == Spec => []WindowInv
BY WindowInit, WindowNext, PTL DEF Spec

\* "Guarantees: at most rate_limit acquisitions in any interval of length rate_window"
\* (rate_limit.py:12), for every limit and window and any number of callers.
THEOREM RateIsKept == Spec => []AtMostRateLimit
<1>1. WindowInv => AtMostRateLimit
  BY DEF WindowInv
<1> QED BY <1>1, Inductive, PTL

\* A caller sleeps only while the window is full (rate_limit.py:59-63).
THEOREM NoCapacityIsWasted == Spec => []NobodySleepsBesideCapacity
<1>1. ASSUME WindowInv, NEW c \in waiting, until[c] > now
      PROVE  /\ Len(acquired) >= RateLimit
             /\ \A i \in (Len(acquired) - RateLimit + 1)..Len(acquired) :
                    acquired[i] > now - RateWindow
  <2> DEFINE k == Len(acquired) - RateLimit + 1
  <2>1. /\ now \in Nat /\ Len(acquired) \in Nat /\ until[c] \in Nat
        /\ \A i \in 1..Len(acquired) : acquired[i] \in Nat
    BY <1>1 DEF WindowInv, TypeOK
  <2>2. Len(acquired) >= RateLimit /\ until[c] <= acquired[k] + RateWindow
    BY <1>1 DEF WindowInv, SleepersAreBound
  <2>3. k \in 1..Len(acquired)
    BY <2>1, <2>2, WindowAssumption
  <2>4. ASSUME NEW i \in k..Len(acquired) PROVE acquired[i] > now - RateWindow
    <3>1. i \in 1..Len(acquired) /\ k <= i
      BY <2>3, <2>4
    <3>2. acquired[k] <= acquired[i]
      BY <3>1, <2>3, <1>1 DEF WindowInv, InOrder
    <3>3. acquired[i] \in Nat /\ acquired[k] \in Nat
      BY <3>1, <2>1, <2>3
    <3>4. until[c] <= acquired[k] + RateWindow
      BY <2>2
    <3> HIDE DEF k
    <3> QED BY <3>2, <3>3, <3>4, <2>1, <1>1, WindowAssumption
  <2> QED BY <2>2, <2>4
<1>2. WindowInv => NobodySleepsBesideCapacity
  BY <1>1 DEF NobodySleepsBesideCapacity
<1> QED BY <1>2, Inductive, PTL

-----------------------------------------------------------------------------
(* The background server: BackgroundServer *)

Points    == {"probe", "reused", "start", "write", "poll", "ready", "gone", "error"}
Processes == {"none", "booting", "bound", "closing", "terminated", "dead"}

LauncherType ==
    /\ terminal \in [Terminals -> Points] /\ process \in [Terminals -> Processes]
    /\ pidfile \in Terminals \cup {None} /\ stop \in Terminals \cup {None}
    /\ stopped \in BOOLEAN /\ untracked \in BOOLEAN

\* A terminal has a server from when it has started one.
HasServer(t) ==
    /\ terminal[t] \in {"probe", "reused", "start"} => process[t] = "none"
    /\ terminal[t] \in {"write", "poll", "ready", "error"} => process[t] # "none"

\* A server that nobody has told to end.
Untold(t) == process[t] \in {"booting", "bound"}

\* While a terminal starts a server there is no other, and nobody else starts one.
StartsAlone(t) == \A u \in Terminals : u # t => u \notin Launcher!Starting /\ process[u] \notin Launcher!Running

\* A server nobody has told to end is its terminal's to watch or in the pid file.
IsTracked(t) ==
    /\ terminal[t] \in {"write", "poll", "ready", "gone"}
    /\ terminal[t] # "write" => pidfile = t

NoneIsLeft == Launcher!Starting = {} /\ \A t \in Terminals : ~Untold(t)

LauncherInv ==
    /\ LauncherType
    /\ \A t \in Terminals : HasServer(t)
    /\ stop # None => process[stop] # "none"
    /\ ~untracked => /\ \A t \in Launcher!Starting : StartsAlone(t)
                     /\ \A t \in Terminals : Untold(t) => IsTracked(t)
                     /\ stop # None \/ stopped => NoneIsLeft

LEMMA LauncherInit == ASSUME Launcher!Init PROVE LauncherInv
BY DEF Launcher!Init, LauncherInv, LauncherType, Points, Processes, HasServer, StartsAlone, Untold, Launcher!Starting, NoneIsLeft

LEMMA LauncherNext == ASSUME None \notin Terminals, LauncherInv, [Launcher!Next]_Launcher!vars PROVE LauncherInv'
<1> USE DEF Points, Processes, HasServer, Untold, StartsAlone, IsTracked, NoneIsLeft, Launcher!Starting,
        Launcher!Running, Launcher!Reachable, Launcher!Alive, Launcher!Step
<1>1. ASSUME NEW t \in Terminals, Launcher!Probe(t) PROVE LauncherInv'
  <2>1. /\ terminal[t] = "probe" /\ process[t] = "none"
        /\ process' = process /\ pidfile' = pidfile /\ stop' = stop
    BY <1>1 DEF Launcher!Probe, LauncherInv
  <2>2. CASE Launcher!Step(t, "reused") /\ UNCHANGED <<stopped, untracked>>
    BY <2>1, <2>2 DEF LauncherInv, LauncherType
  <2>3. CASE /\ Launcher!Step(t, "start") /\ stopped' = FALSE
             /\ untracked' = \/ untracked \/ Launcher!Starting # {} \/ stop # None
                             \/ \E u \in Terminals : process[u] \in Launcher!Running
    <3>1. LauncherType' /\ \A u \in Terminals : HasServer(u)'
      BY <2>1, <2>3 DEF LauncherInv, LauncherType
    <3>2. CASE untracked'
      BY <2>1, <3>1, <3>2 DEF LauncherInv
    <3>3. CASE ~untracked'
      <4>1. /\ ~untracked /\ Launcher!Starting = {} /\ stop = None /\ Launcher!Starting' = {t}
            /\ \A u \in Terminals : process[u] \notin Launcher!Running
        BY <2>1, <2>3, <3>3 DEF LauncherInv, LauncherType
      <4> QED BY <2>1, <2>3, <3>1, <4>1 DEF LauncherInv
    <3> QED BY <3>1, <3>2, <3>3
  <2> QED BY <1>1, <2>2, <2>3 DEF Launcher!Probe
<1>2. ASSUME NEW t \in Terminals, Launcher!Start(t) \/ Launcher!WritePid(t) PROVE LauncherInv'
  BY <1>2 DEF LauncherInv, LauncherType, Launcher!Start, Launcher!WritePid
<1>3. ASSUME NEW t \in Terminals, Launcher!Ready(t) \/ Launcher!ExitedEarly(t) PROVE LauncherInv'
  BY <1>3 DEF LauncherInv, LauncherType, Launcher!Ready, Launcher!ExitedEarly
<1>4. ASSUME NEW t \in Terminals, Launcher!Interrupt(t) PROVE LauncherInv'
  <2>1. /\ t \in Launcher!Starting /\ terminal' = [terminal EXCEPT ![t] = "gone"]
        /\ UNCHANGED <<process, pidfile, stop, stopped>>
        /\ untracked' = (untracked \/ terminal[t] = "write")
    BY <1>4 DEF Launcher!Interrupt
  <2>2. LauncherType' /\ \A u \in Terminals : HasServer(u)'
    BY <2>1 DEF LauncherInv, LauncherType
  <2>3. ASSUME ~untracked'
        PROVE  /\ \A u \in Launcher!Starting' : StartsAlone(u)'
               /\ \A u \in Terminals : Untold(u)' => IsTracked(u)'
               /\ stop' # None \/ stopped' => NoneIsLeft'
    <3>1. ~untracked /\ terminal[t] # "write" /\ Launcher!Starting' \subseteq Launcher!Starting
      BY <2>1, <2>3 DEF LauncherInv, LauncherType
    <3>2. \A u \in Launcher!Starting' : StartsAlone(u)'
      BY <2>1, <3>1 DEF LauncherInv
    <3>3. \A u \in Terminals : Untold(u)' => IsTracked(u)'
      BY <2>1, <3>1 DEF LauncherInv, LauncherType
    <3>4. stop' # None \/ stopped' => NoneIsLeft'
      BY <2>1, <3>1 DEF LauncherInv
    <3> QED BY <3>2, <3>3, <3>4
  <2> QED BY <2>1, <2>2, <2>3 DEF LauncherInv
<1>5. ASSUME NEW t \in Terminals, Launcher!TimedOut(t) PROVE LauncherInv'
  BY <1>5 DEF LauncherInv, LauncherType, Launcher!TimedOut, Launcher!Terminated
<1>6. ASSUME NEW t \in Terminals, Launcher!Bind(t) \/ Launcher!Close(t) \/ Launcher!Exit(t) PROVE LauncherInv'
  BY <1>6 DEF LauncherInv, LauncherType, Launcher!Bind, Launcher!Close, Launcher!Exit
<1>7. ASSUME Launcher!BeginStop PROVE LauncherInv'
  <2>1. /\ stop = None /\ terminal' = terminal /\ Launcher!Starting' = Launcher!Starting
        /\ untracked' = (untracked \/ Launcher!Starting # {})
    BY <1>7 DEF Launcher!BeginStop
  <2>2. CASE pidfile = None \/ ~Launcher!Alive(pidfile)
    <3>1. stopped' = TRUE /\ pidfile' = None /\ process' = process /\ stop' = stop
      BY <1>7, <2>2 DEF Launcher!BeginStop
    <3>2. LauncherType' /\ \A u \in Terminals : HasServer(u)'
      BY <2>1, <3>1 DEF LauncherInv, LauncherType
    <3>3. ASSUME ~untracked' PROVE NoneIsLeft
      <4>1. ~untracked /\ Launcher!Starting = {}
        BY <2>1, <3>3
      <4>2. ASSUME NEW u \in Terminals, Untold(u) PROVE FALSE
        BY <2>2, <4>1, <4>2 DEF LauncherInv, LauncherType
      <4> QED BY <4>1, <4>2
    <3> QED BY <2>1, <3>1, <3>2, <3>3 DEF LauncherInv
  <2>3. CASE ~(pidfile = None \/ ~Launcher!Alive(pidfile))
    <3>1. /\ pidfile \in Terminals /\ process' = Launcher!Terminated(pidfile) /\ stop' = pidfile
          /\ pidfile' = pidfile /\ stopped' = stopped
      BY <1>7, <2>3 DEF Launcher!BeginStop, LauncherInv, LauncherType
    <3>2. /\ process' \in [Terminals -> Processes]
          /\ \A u \in Terminals : u # pidfile => process'[u] = process[u]
          /\ process'[pidfile] \in {"closing", "terminated", "dead", "none"}
          /\ process[pidfile] # "none" /\ process'[pidfile] # "none"
      BY <2>3, <3>1 DEF Launcher!Terminated, LauncherInv, LauncherType
    <3>3. LauncherType' /\ \A u \in Terminals : HasServer(u)'
      BY <2>1, <3>1, <3>2 DEF LauncherInv, LauncherType
    <3>4. ASSUME ~untracked' PROVE NoneIsLeft'
      <4>1. ~untracked /\ Launcher!Starting = {}
        BY <2>1, <3>4
      <4>2. ASSUME NEW u \in Terminals, Untold(u)' PROVE FALSE
        BY <3>1, <3>2, <4>1, <4>2 DEF LauncherInv, LauncherType
      <4> QED BY <2>1, <4>1, <4>2
    <3>5. stop' # None => process'[stop'] # "none"
      BY <3>1, <3>2
    <3>6. ~untracked' => /\ \A t \in Launcher!Starting' : StartsAlone(t)'
                         /\ \A t \in Terminals : Untold(t)' => IsTracked(t)'
      BY <2>1, <3>4
    <3> QED BY <3>3, <3>4, <3>5, <3>6 DEF LauncherInv
  <2> QED BY <2>2, <2>3
<1>8. ASSUME Launcher!EndStop PROVE LauncherInv'
  BY <1>8 DEF LauncherInv, LauncherType, Launcher!EndStop
<1>9. ASSUME UNCHANGED Launcher!vars PROVE LauncherInv'
  BY <1>9 DEF LauncherInv, LauncherType, Launcher!vars
<1> QED BY <1>1, <1>2, <1>3, <1>4, <1>5, <1>6, <1>7, <1>8, <1>9 DEF Launcher!Next

LEMMA StopIsComplete == ASSUME LauncherInv PROVE Launcher!StopEndsTheServer
BY DEF LauncherInv, Launcher!StopEndsTheServer, NoneIsLeft, Untold

-----------------------------------------------------------------------------
(* Start, shutdown and restart: ApplicationLifecycle *)

Places == Application!Starting \cup {"up", "quiesce", "drain", "release", "transcriber", "providers", "down"}

ApplicationType ==
    /\ applicationPc \in Places /\ caller \in {"start", "close"} /\ work \in Nat
    /\ own \in [runtime : {"none", "idle", "open", "quiesced"}, workflow : BOOLEAN, cli : BOOLEAN,
                transcriber : BOOLEAN, providers : BOOLEAN]
    /\ flags \in [closed : BOOLEAN, failed : BOOLEAN, restart : BOOLEAN]

\* The resources go in the order of the gates, and come in the order of the start.
NoMessaging == own.runtime = "none" /\ ~own.workflow /\ ~own.cli
StartIsOrdered ==
    /\ work > 0 => own.workflow
    /\ own.workflow => own.cli
    /\ own.cli => own.runtime # "none"
    /\ own.runtime # "none" => own.transcriber
    /\ own.transcriber => own.providers

\* What is owned at each gate.
WorkIsOwned ==
    /\ applicationPc \notin {"providers", "down"} => own.transcriber
    /\ applicationPc \in {"starting", "components", "transcriber", "providers"} => NoMessaging
    /\ applicationPc \in {"cli", "workflow", "polling"} =>
                     own.runtime = "idle" /\ (own.workflow <=> applicationPc = "polling") /\ (own.cli <=> applicationPc # "cli")
    /\ applicationPc = "repairing" => own.runtime = "open" /\ own.workflow /\ own.cli
    /\ applicationPc = "up" => NoMessaging \/ (own.runtime = "open" /\ own.workflow /\ own.cli)
    /\ applicationPc \in {"drain", "release"} => own.runtime \in {"none", "quiesced"}
    /\ applicationPc = "release" => ~own.workflow /\ ~own.cli
    /\ applicationPc = "providers" => own.providers /\ ~own.transcriber
    /\ applicationPc \in {"transcriber", "providers"} => caller = "close"
    /\ flags.closed => applicationPc = "down" /\ NoMessaging /\ ~own.transcriber /\ ~own.providers

ApplicationInv == ApplicationType /\ StartIsOrdered /\ WorkIsOwned /\ ~supervisor.leaked

LEMMA ApplicationInit == ASSUME Application!Init PROVE ApplicationInv
BY DEF Application!Init, ApplicationInv, ApplicationType, Places, Application!Starting, Application!Built, Application!Fresh, StartIsOrdered, WorkIsOwned, NoMessaging

LEMMA FieldsAre ==
    ASSUME ApplicationType
    PROVE  /\ own = [runtime |-> own.runtime, workflow |-> own.workflow, cli |-> own.cli,
                     transcriber |-> own.transcriber, providers |-> own.providers]
           /\ own.runtime \in {"none", "idle", "open", "quiesced"} /\ own.workflow \in BOOLEAN
           /\ own.cli \in BOOLEAN /\ own.transcriber \in BOOLEAN /\ own.providers \in BOOLEAN
           /\ flags.closed \in BOOLEAN /\ flags.failed \in BOOLEAN /\ flags.restart \in BOOLEAN
BY DEF ApplicationType

\* Starting, one resource after the other, and giving the start up.
LEMMA StartKeeps ==
    ASSUME ApplicationInv,
           \/ Application!Validate \/ Application!CreateComponents \/ Application!CreateCli \/ Application!CreateWorkflow \/ Application!StartPolling \/ Application!Repair
           \/ Application!StartFails \/ Application!StartAborts
    PROVE  ApplicationInv'
<1> USE DEF ApplicationInv, ApplicationType, StartIsOrdered, WorkIsOwned, NoMessaging, Places, Application!Starting
<1>1. ASSUME Application!Validate PROVE ApplicationInv'
  BY <1>1, FieldsAre DEF Application!Validate
<1>2. ASSUME Application!CreateComponents PROVE ApplicationInv'
  BY <1>2, FieldsAre DEF Application!CreateComponents
<1>3. ASSUME Application!CreateCli PROVE ApplicationInv'
  BY <1>3, FieldsAre DEF Application!CreateCli
<1>4. ASSUME Application!CreateWorkflow PROVE ApplicationInv'
  BY <1>4, FieldsAre DEF Application!CreateWorkflow
<1>5. ASSUME Application!StartPolling PROVE ApplicationInv'
  BY <1>5, FieldsAre DEF Application!StartPolling
<1>6. ASSUME Application!Repair PROVE ApplicationInv'
  BY <1>6, FieldsAre DEF Application!Repair
<1>7. ASSUME Application!StartFails PROVE ApplicationInv'
  BY <1>7, FieldsAre DEF Application!StartFails
<1>8. ASSUME Application!StartAborts PROVE ApplicationInv'
  BY <1>8, FieldsAre DEF Application!StartAborts
<1> QED BY <1>1, <1>2, <1>3, <1>4, <1>5, <1>6, <1>7, <1>8

\* The gates, each of which is passed or ends the attempt.
LEMMA GateKeeps ==
    ASSUME ApplicationInv, Application!Quiesce \/ Application!Drain \/ Application!Release \/ Application!CloseTranscriber \/ Application!CloseProviders
    PROVE  ApplicationInv'
<1> USE DEF ApplicationInv, ApplicationType, StartIsOrdered, WorkIsOwned, NoMessaging, Places, Application!Starting
<1>1. ASSUME Application!Quiesce PROVE ApplicationInv'
  BY <1>1, FieldsAre DEF Application!Quiesce, Application!GiveUp
<1>2. ASSUME Application!Drain PROVE ApplicationInv'
  <2>1. CASE /\ applicationPc' = "release" /\ UNCHANGED <<caller, flags, supervisor>> /\ work' = 0
             /\ own' = [own EXCEPT !.workflow = FALSE, !.cli = FALSE]
    <3>1. /\ own'.runtime = own.runtime /\ ~own'.workflow /\ ~own'.cli
          /\ own'.transcriber = own.transcriber /\ own'.providers = own.providers
      BY <2>1
    <3>2. ApplicationType'
      BY <2>1, FieldsAre
    <3>3. applicationPc = "drain" /\ applicationPc' = "release" /\ work' = 0 /\ flags' = flags /\ supervisor' = supervisor
      BY <1>2, <2>1 DEF Application!Drain
    <3>4. StartIsOrdered'
      BY <3>1, <3>3
    <3>5. ~flags.closed /\ own.transcriber /\ own.runtime \in {"none", "quiesced"}
      BY <3>3, FieldsAre
    <3>6. WorkIsOwned'
      BY <3>1, <3>3, <3>5
    <3> QED BY <3>2, <3>3, <3>4, <3>6
  <2>2. CASE Application!GiveUp /\ UNCHANGED <<own, work, supervisor>>
    BY <1>2, <2>2, FieldsAre DEF Application!Drain, Application!GiveUp
  <2> QED BY <1>2, <2>1, <2>2 DEF Application!Drain
<1>3. ASSUME Application!Release PROVE ApplicationInv'
  <2>1. CASE /\ applicationPc' = (IF caller = "start" THEN "up" ELSE "transcriber")
             /\ UNCHANGED <<caller, flags, work, supervisor>> /\ own' = [own EXCEPT !.runtime = "none"]
    <3>1. /\ own'.runtime = "none" /\ own'.workflow = own.workflow /\ own'.cli = own.cli
          /\ own'.transcriber = own.transcriber /\ own'.providers = own.providers
      BY <2>1
    <3> QED BY <1>3, <2>1, <3>1, FieldsAre DEF Application!Release
  <2>2. CASE Application!GiveUp /\ UNCHANGED <<own, work, supervisor>>
    BY <1>3, <2>2, FieldsAre DEF Application!Release, Application!GiveUp
  <2> QED BY <1>3, <2>1, <2>2 DEF Application!Release
<1>4. ASSUME Application!CloseTranscriber PROVE ApplicationInv'
  BY <1>4, FieldsAre DEF Application!CloseTranscriber, Application!GiveUp
<1>5. ASSUME Application!CloseProviders PROVE ApplicationInv'
  <2>1. CASE /\ own' = [own EXCEPT !.providers = FALSE] /\ applicationPc' = "down"
             /\ flags' = [flags EXCEPT !.closed = TRUE] /\ UNCHANGED <<caller, work, supervisor>>
    <3>1. /\ own'.runtime = own.runtime /\ own'.workflow = own.workflow /\ own'.cli = own.cli
          /\ own'.transcriber = own.transcriber /\ ~own'.providers
      BY <2>1
    <3>2. ApplicationType'
      BY <2>1, FieldsAre
    <3>3. applicationPc = "providers" /\ applicationPc' = "down" /\ work' = work /\ supervisor' = supervisor
      BY <1>5, <2>1 DEF Application!CloseProviders
    <3>4. NoMessaging
      BY <3>3
    <3>5. ~own.transcriber
      BY <1>5 DEF Application!CloseProviders
    <3>6. StartIsOrdered'
      BY <3>1, <3>3, <3>4
    <3>7. WorkIsOwned'
      BY <3>1, <3>3, <3>4
    <3> QED BY <3>2, <3>3, <3>6, <3>7
  <2>2. CASE Application!GiveUp /\ UNCHANGED <<own, work, supervisor>>
    BY <1>5, <2>2, FieldsAre DEF Application!CloseProviders, Application!GiveUp
  <2> QED BY <1>5, <2>1, <2>2 DEF Application!CloseProviders
<1> QED BY <1>1, <1>2, <1>3, <1>4, <1>5

\* Turns, and the end of an instance.
LEMMA RunKeeps ==
    ASSUME ApplicationInv,
           \/ Application!Ingress \/ Application!TurnEnds \/ Application!ForceExit \/ Application!Supervise
           \/ \E restart \in BOOLEAN : Application!Shutdown(restart)
    PROVE  ApplicationInv'
<1> USE DEF ApplicationInv, ApplicationType, StartIsOrdered, WorkIsOwned, NoMessaging, Places, Application!Starting
<1>1. ASSUME Application!Ingress PROVE ApplicationInv'
  BY <1>1, FieldsAre DEF Application!Ingress
<1>2. ASSUME Application!TurnEnds PROVE ApplicationInv'
  BY <1>2, FieldsAre DEF Application!TurnEnds
<1>3. ASSUME Application!ForceExit PROVE ApplicationInv'
  BY <1>3, FieldsAre DEF Application!ForceExit
<1>4. ASSUME Application!Supervise PROVE ApplicationInv'
  BY <1>4, FieldsAre DEF Application!Supervise, Application!Built, Application!Fresh
<1>5. ASSUME NEW restart \in BOOLEAN, Application!Shutdown(restart) PROVE ApplicationInv'
  BY <1>5, FieldsAre DEF Application!Shutdown
<1> QED BY <1>1, <1>2, <1>3, <1>4, <1>5

LEMMA ApplicationNext == ASSUME ApplicationInv, [Application!Next]_Application!vars PROVE ApplicationInv'
<1>1. ASSUME UNCHANGED Application!vars PROVE ApplicationInv'
  BY <1>1 DEF ApplicationInv, ApplicationType, StartIsOrdered, WorkIsOwned, NoMessaging, Application!vars
<1> QED BY <1>1, StartKeeps, GateKeeps, RunKeeps DEF Application!Next

LEMMA GraphsAreApart == ASSUME ApplicationInv PROVE Application!GraphsDoNotOverlap /\ Application!WorkKeepsItsResources
BY DEF ApplicationInv, ApplicationType, StartIsOrdered, WorkIsOwned, NoMessaging, Application!GraphsDoNotOverlap, Application!WorkKeepsItsResources

-----------------------------------------------------------------------------
(* A response: ResponseStream *)

Kinds == {Response!Nothing, "stream", "json", "ordinary_error", "final_error"}

\* Types, of what the properties are about.
ResponseType ==
    /\ requestPc \in {"acquire", "handle", "refuse", "bind", "first", "head", "next", "send", "close", "done"}
    /\ requestPc \notin {"acquire", "done"} => request \in Requests
    /\ lease \in {Response!Nothing, "held", "released"} /\ body \in {Response!Nothing, "open", "closed"}
    /\ frame \in Response!Frames \cup {Response!Nothing} /\ cleanup \in {Response!Nothing, "body", "release", "done"}
    /\ source \in [chunks : Nat, ended : BOOLEAN, failed : BOOLEAN, emitted : BOOLEAN]
    /\ wire \in [kind : Kinds, frames : Seq(Response!Frames), lost : BOOLEAN]
    /\ cancels \in [count : Nat, pending : BOOLEAN]

\* The lease is held from the acquisition to the end of the request or of its cleanup.
LeaseIsHeld ==
    /\ requestPc = "acquire" => lease = Response!Nothing /\ cleanup = Response!Nothing
    /\ requestPc \notin {"acquire", "close", "done"} => lease = "held" /\ cleanup = Response!Nothing
    /\ requestPc = "close" => lease = (IF cleanup = "done" THEN "released" ELSE "held")
    /\ requestPc = "done" => lease # "held" /\ cleanup \in {Response!Nothing, "done"}

\* Whether a frame is on its way to the client of a stream.
Streaming == requestPc \in {"head", "next", "send"} \/ (requestPc = "bind" /\ wire.kind = Response!Nothing)

\* Where the body is open: between the handler and the cleanup of a response that streams.
BodyIsOpen ==
    /\ requestPc \in {"acquire", "handle"} => body = Response!Nothing /\ wire.kind = Response!Nothing
    /\ requestPc \in {"refuse", "done"} => body # "open"
    /\ requestPc = "bind" /\ wire.kind # Response!Nothing => body # "open"
    /\ cleanup \in {"release", "done"} => body # "open"
    /\ requestPc \in {"first", "next"} => body = "open"
    /\ Streaming => body # Response!Nothing

HasEnd(frames)      == \E i \in 1 .. Len(frames) : frames[i] \in {"stop", "error"}
HasError(frames)    == \E i \in 1 .. Len(frames) : frames[i] = "error"
LastIsError(frames) == frames # <<>> /\ frames[Len(frames)] = "error"
OnlyThen(frames, api) ==
    \A i \in 1 .. Len(frames) :
        i < Len(frames) => frames[i] = "chunk" \/ (frames[i] = "stop" /\ api = "messages")

\* What has been sent, and what was drawn from the body and is to be sent.
SentInOrder ==
    /\ source.emitted <=> source.chunks > 0
    /\ source.failed => wire.kind \in {"final_error", "stream"}
    /\ wire.kind # "stream" => wire.frames = <<>>
    /\ OnlyThen(wire.frames, request.api)
    /\ HasError(wire.frames) => source.failed \/ request.api = "responses"
FrameInOrder ==
    /\ frame \in Response!Frames /\ ~LastIsError(wire.frames)
    /\ HasEnd(wire.frames) => source.ended /\ request.api = "messages"
    /\ source.ended => HasEnd(wire.frames) \/ frame \in {"stop", "error"}
    /\ frame \in {"stop", "error"} => source.ended \/ body = "closed"
    /\ body = "closed" \/ source.failed => frame = "error"
    /\ frame = "error" => (source.failed /\ body = "closed") \/ request.api = "responses"

\* How far a stream is.  A Messages stream is read on behind its end, a Responses stream is
\* not; the frame that tells of an error is the last one of either.
StreamIsInOrder ==
    /\ SentInOrder
    /\ requestPc \in {"acquire", "handle", "first"} => wire.kind = Response!Nothing /\ frame = Response!Nothing
    /\ requestPc \in {"acquire", "handle"} \/ (requestPc = "first" /\ request.stream) => source.chunks = 0 /\ ~source.ended
    /\ requestPc \in {"next", "send"} => wire.kind = "stream"
    /\ requestPc \in {"refuse", "bind"} => wire.kind # "stream"
    /\ requestPc = "head" => wire.kind = Response!Nothing
    /\ requestPc = "first" /\ ~request.stream => request.api = "messages"
    /\ Streaming => source.chunks > 0
    /\ Streaming /\ requestPc # "next" => FrameInOrder
    /\ requestPc = "next" => /\ source.ended <=> HasEnd(wire.frames)
                             /\ LastIsError(wire.frames) => request.api = "responses"
                             /\ source.failed => LastIsError(wire.frames)
    /\ requestPc \in {"close", "done"} /\ wire.kind = "stream" /\ ~wire.lost /\ cancels.count = 0 =>
                 HasEnd(wire.frames) /\ (source.failed => LastIsError(wire.frames))

ResponseInv == ResponseType /\ LeaseIsHeld /\ BodyIsOpen /\ StreamIsInOrder

LEMMA NoFrames ==
    /\ ~HasEnd(<<>>) /\ ~HasError(<<>>) /\ ~LastIsError(<<>>)
    /\ \A api : OnlyThen(<<>>, api)
BY DEF HasEnd, HasError, LastIsError, OnlyThen

LEMMA ResponseInit == ASSUME Response!Init PROVE ResponseInv
BY DEF Response!Init, ResponseInv, ResponseType, Kinds, LeaseIsHeld, BodyIsOpen, StreamIsInOrder,
       SentInOrder, FrameInOrder, HasEnd, HasError, LastIsError, OnlyThen, Streaming, Response!Nothing

\* What is drawn from the body: a Responses stream ends with its terminal event, and the
\* failure of a Messages stream, wherever it comes, is raised.
LEMMA DrawIs ==
    ASSUME ResponseInv, Response!ResponseAssumption, request \in Requests,
           NEW outcome \in Response!Outcomes, Response!Draw(outcome)
    PROVE  /\ source' \in [chunks : Nat, ended : BOOLEAN, failed : BOOLEAN, emitted : BOOLEAN]
           /\ source'.emitted <=> source'.chunks > 0
           /\ outcome \in Response!Frames =>
                 /\ body' = body /\ source'.chunks > 0
                 /\ source'.ended <=> source.ended \/ outcome \in {"stop", "error"}
                 /\ source.ended => request.api = "messages"
                 /\ source.failed => source'.failed
                 /\ source'.failed => source.failed \/ outcome = "error"
                 /\ source'.failed => source.failed \/ source.chunks > 0
                 /\ outcome = "error" => request.api = "responses"
           /\ outcome \notin Response!Frames =>
                 /\ body' = "closed" /\ source'.chunks = source.chunks
                 /\ source'.ended <=> source.ended
           /\ outcome = "end" => (source.ended \/ source.chunks = 0) /\ source'.failed = source.failed
           /\ outcome = "failure" =>
                 source'.failed /\ (request.api = "messages" \/ source.chunks = 0)
<1>1. PICK answer \in Response!Answers :
         /\ outcome \in Response!Adapted(answer)
         /\ source' = [chunks  |-> source.chunks + (IF outcome \in Response!Frames THEN 1 ELSE 0),
                       ended   |-> source.ended \/ outcome \in {"stop", "error"},
                       failed  |-> source.failed \/ answer = "failure",
                       emitted |-> source.emitted \/ outcome \in Response!Frames]
         /\ body' = IF outcome \in Response!Frames THEN body ELSE "closed"
  BY DEF Response!Draw
<1>2. /\ source.chunks \in Nat /\ source.ended \in BOOLEAN /\ source.failed \in BOOLEAN
      /\ source.emitted \in BOOLEAN /\ (source.emitted <=> source.chunks > 0)
  BY DEF ResponseInv, ResponseType, StreamIsInOrder, SentInOrder
<1>3. request.api \in {"messages", "responses"}
  BY DEF Response!ResponseAssumption, Response!Request
<1>4. /\ answer \in {"chunk", "stop", "end", "failure"}
      /\ answer # "end" => request.api = "messages" \/ ~source.ended
      /\ answer = "stop" => ~source.ended
      /\ answer = "end" => source.chunks = 0 \/ source.ended
  BY <1>1, <1>3 DEF Response!Answers
<1>5. /\ outcome = "chunk" => answer = "chunk"
      /\ outcome = "stop" => answer = "stop" \/ (answer = "end" /\ ~source.ended)
      /\ outcome = "error" =>
            request.api = "responses" /\ (answer = "stop" \/ (answer = "failure" /\ source.emitted))
      /\ outcome = "end" => answer = "end"
      /\ outcome = "failure" => answer = "failure" /\ (request.api = "messages" \/ ~source.emitted)
  BY <1>1, <1>3, <1>4 DEF Response!Adapted, Response!Outcomes, Response!Frames
<1>6. source' \in [chunks : Nat, ended : BOOLEAN, failed : BOOLEAN, emitted : BOOLEAN]
  BY <1>1, <1>2
<1>7. /\ source'.chunks = source.chunks + (IF outcome \in Response!Frames THEN 1 ELSE 0)
      /\ source'.ended <=> source.ended \/ outcome \in {"stop", "error"}
      /\ source'.failed <=> source.failed \/ answer = "failure"
      /\ source'.emitted <=> source.emitted \/ outcome \in Response!Frames
  BY <1>1
<1>8. source'.emitted <=> source'.chunks > 0
  BY <1>2, <1>7
<1>9. outcome \in Response!Frames /\ source.ended => request.api = "messages"
  BY <1>3, <1>4, <1>5 DEF Response!Frames
<1> QED BY <1>1, <1>2, <1>3, <1>4, <1>5, <1>6, <1>7, <1>8, <1>9 DEF Response!Outcomes, Response!Frames

\* Before the response streams.
LEMMA HandlersKeep ==
    ASSUME ResponseInv, Response!ResponseAssumption, Response!Acquire \/ Response!Handle \/ Response!Refuse \/ Response!BindLifetime
    PROVE  ResponseInv'
<1> USE DEF ResponseInv, ResponseType, Kinds, LeaseIsHeld, BodyIsOpen, StreamIsInOrder,
        SentInOrder, FrameInOrder, Response!Frames, Streaming, Response!Nothing, Response!Goto
<1>1. ASSUME Response!Acquire PROVE ResponseInv'
  <2>1. ResponseType'
    BY <1>1 DEF Response!Acquire
  <2>2. LeaseIsHeld' /\ BodyIsOpen'
    BY <1>1 DEF Response!Acquire
  <2>3. StreamIsInOrder'
    BY <1>1, NoFrames DEF Response!Acquire
  <2> QED BY <2>1, <2>2, <2>3
<1>2. ASSUME Response!Handle PROVE ResponseInv'
  <2>1. requestPc' = "first" /\ ~request.stream => request.api = "messages"
    BY <1>2 DEF Response!Handle, Response!Disposition, Response!ResponseAssumption, Response!Request
  <2> QED BY <1>2, <2>1, NoFrames DEF Response!Handle
<1>3. ASSUME Response!Refuse PROVE ResponseInv'
  <2>1. ResponseType'
    BY <1>3 DEF Response!Refuse
  <2>2. LeaseIsHeld' /\ BodyIsOpen'
    BY <1>3 DEF Response!Refuse
  <2>3. StreamIsInOrder'
    BY <1>3, NoFrames DEF Response!Refuse
  <2> QED BY <2>1, <2>2, <2>3
<1>4. ASSUME Response!BindLifetime PROVE ResponseInv'
  <2>1. ResponseType'
    BY <1>4 DEF Response!BindLifetime
  <2>2. LeaseIsHeld' /\ BodyIsOpen'
    BY <1>4 DEF Response!BindLifetime
  <2>3. StreamIsInOrder'
    BY <1>4, NoFrames DEF Response!BindLifetime
  <2> QED BY <2>1, <2>2, <2>3
<1> QED BY <1>1, <1>2, <1>3, <1>4

\* Drawing from the body, and sending what was drawn.
LEMMA StreamKeeps ==
    ASSUME ResponseInv, Response!ResponseAssumption, Response!First \/ Response!SendHead \/ Response!NextFrame \/ Response!Send
    PROVE  ResponseInv'
<1> USE DEF ResponseInv, ResponseType, Kinds, LeaseIsHeld, BodyIsOpen, StreamIsInOrder,
        SentInOrder, FrameInOrder, Response!Frames, Streaming, Response!Nothing, Response!Goto
<1>1. ASSUME Response!First PROVE ResponseInv'
  <2>1. PICK outcome \in Response!Outcomes :
           /\ Response!Draw(outcome)
           /\ IF outcome \notin Response!Frames
              THEN /\ IF request.stream \/ outcome = "failure"
                      THEN wire' = [wire EXCEPT !.kind = "final_error"]
                      ELSE wire' = [wire EXCEPT !.kind = "json"]
                   /\ Response!Goto("bind") /\ UNCHANGED frame
              ELSE /\ UNCHANGED wire
                   /\ IF request.stream THEN Response!Goto("bind") /\ frame' = outcome
                      ELSE UNCHANGED <<requestPc, frame>>
    BY <1>1 DEF Response!First
  <2>2. requestPc = "first" /\ request \in Requests /\ UNCHANGED <<request, lease, cleanup, cancels>>
    BY <1>1 DEF Response!First
  <2> HIDE DEF ResponseInv
  <2>3. /\ source' \in [chunks : Nat, ended : BOOLEAN, failed : BOOLEAN, emitted : BOOLEAN]
        /\ source'.emitted <=> source'.chunks > 0
        /\ outcome \in Response!Frames =>
              /\ body' = body /\ source'.chunks > 0
              /\ source'.ended <=> source.ended \/ outcome \in {"stop", "error"}
              /\ source'.failed => source.failed \/ outcome = "error"
              /\ source'.failed => source.failed \/ source.chunks > 0
              /\ outcome = "error" => request.api = "responses"
        /\ outcome \notin Response!Frames =>
              /\ body' = "closed" /\ source'.chunks = source.chunks
              /\ source'.ended <=> source.ended
        /\ outcome = "end" => source'.failed = source.failed
    BY <2>1, <2>2, DrawIs
  <2> USE DEF ResponseInv
  <2>4. wire.kind = Response!Nothing /\ ~source.failed /\ wire.frames = <<>> /\ frame = Response!Nothing /\ body = "open"
    BY <2>2
  <2>5. CASE outcome \notin Response!Frames
    BY <2>1, <2>2, <2>3, <2>4, <2>5, NoFrames DEF Response!Outcomes
  <2>6. CASE outcome \in Response!Frames /\ request.stream
    <3>1. /\ requestPc' = "bind" /\ frame' = outcome /\ wire' = wire /\ body' = "open"
          /\ source.chunks = 0 /\ ~source.ended /\ ~source'.failed
      BY <2>1, <2>2, <2>3, <2>4, <2>6
    <3>2. ResponseType' /\ LeaseIsHeld' /\ BodyIsOpen'
      BY <2>2, <2>3, <2>4, <2>6, <3>1
    <3>3. SentInOrder' /\ FrameInOrder'
      BY <2>2, <2>3, <2>4, <2>6, <3>1, NoFrames
    <3>4. StreamIsInOrder'
      BY <2>2, <2>3, <2>4, <2>6, <3>1, <3>3
    <3> QED BY <3>2, <3>4
  <2>7. CASE outcome \in Response!Frames /\ ~request.stream
    <3>1. /\ requestPc' = "first" /\ frame' = frame /\ wire' = wire /\ body' = "open"
          /\ ~source'.failed
      BY <2>1, <2>2, <2>3, <2>4, <2>7
    <3>2. ResponseType' /\ LeaseIsHeld' /\ BodyIsOpen'
      BY <2>2, <2>3, <2>4, <2>7, <3>1
    <3>3. SentInOrder'
      BY <2>2, <2>3, <2>4, <2>7, <3>1, NoFrames
    <3>4. StreamIsInOrder'
      BY <2>2, <2>3, <2>4, <2>7, <3>1, <3>3
    <3> QED BY <3>2, <3>4
  <2> QED BY <2>5, <2>6, <2>7
<1>2. ASSUME Response!SendHead PROVE ResponseInv'
  BY <1>2, NoFrames DEF Response!SendHead
<1>3. ASSUME Response!NextFrame PROVE ResponseInv'
  <2>1. PICK outcome \in Response!Outcomes :
           /\ Response!Draw(outcome)
           /\ CASE outcome \in Response!Frames -> Response!Goto("send") /\ frame' = outcome
                [] outcome = "failure" /\ request.api = "messages" -> Response!Goto("send") /\ frame' = "error"
                [] OTHER -> Response!Goto("close") /\ UNCHANGED frame
    BY <1>3 DEF Response!NextFrame
  <2>2. /\ requestPc = "next" /\ request \in Requests /\ UNCHANGED <<request, lease, wire, cleanup, cancels>>
        /\ request.api \in {"messages", "responses"} /\ source.chunks > 0
    BY <1>3 DEF Response!NextFrame, Response!ResponseAssumption, Response!Request
  <2> HIDE DEF ResponseInv
  <2>3. /\ source' \in [chunks : Nat, ended : BOOLEAN, failed : BOOLEAN, emitted : BOOLEAN]
        /\ source'.emitted <=> source'.chunks > 0
        /\ outcome \in Response!Frames =>
              /\ body' = body /\ source'.chunks > 0
              /\ source'.ended <=> source.ended \/ outcome \in {"stop", "error"}
              /\ source.ended => request.api = "messages"
              /\ source.failed => source'.failed
              /\ source'.failed => source.failed \/ outcome = "error"
              /\ outcome = "error" => request.api = "responses"
        /\ outcome \notin Response!Frames =>
              /\ body' = "closed" /\ source'.chunks = source.chunks
              /\ source'.ended <=> source.ended
        /\ outcome = "end" => (source.ended \/ source.chunks = 0) /\ source'.failed = source.failed
        /\ outcome = "failure" =>
              source'.failed /\ (request.api = "messages" \/ source.chunks = 0)
    BY <2>1, <2>2, DrawIs
  <2> USE DEF ResponseInv
  <2>4. /\ wire.kind = "stream" /\ body = "open" /\ (source.ended <=> HasEnd(wire.frames))
        /\ LastIsError(wire.frames) => request.api = "responses" /\ HasEnd(wire.frames)
        /\ source.failed => LastIsError(wire.frames)
    BY <2>2 DEF LastIsError, HasEnd
  <2>5. CASE outcome = "end"
    <3>1. requestPc' = "close" /\ frame' = frame /\ source.ended /\ source'.ended
      BY <2>1, <2>2, <2>3, <2>5
    <3> QED BY <2>2, <2>3, <2>4, <2>5, <3>1
  <2>6. CASE outcome = "failure"
    <3>1. /\ request.api = "messages" /\ requestPc' = "send" /\ frame' = "error" /\ source'.failed
          /\ ~LastIsError(wire.frames) /\ body' = "closed"
      BY <2>1, <2>2, <2>3, <2>4, <2>6
    <3> QED BY <2>2, <2>3, <2>4, <2>6, <3>1
  <2>7. CASE outcome \in Response!Frames
    <3>1. requestPc' = "send" /\ frame' = outcome /\ ~LastIsError(wire.frames) /\ ~source.failed
      BY <2>1, <2>2, <2>3, <2>4, <2>7
    <3> QED BY <2>2, <2>3, <2>4, <2>7, <3>1
  <2> QED BY <2>5, <2>6, <2>7 DEF Response!Outcomes
<1>4. ASSUME Response!Send PROVE ResponseInv'
  <2>1. /\ requestPc = "send" /\ frame' = Response!Nothing /\ UNCHANGED <<request, lease, body, source, cleanup, cancels>>
        /\ wire.kind = "stream" /\ wire.frames \in Seq(Response!Frames) /\ FrameInOrder
        /\ body \in {"open", "closed"}
    BY <1>4 DEF Response!Send
  <2>2. CASE wire' = [wire EXCEPT !.lost = TRUE] /\ requestPc' = "close"
    BY <2>1, <2>2
  <2>3. CASE /\ wire' = [wire EXCEPT !.frames = Append(@, frame)]
             /\ requestPc' = (IF body = "closed" THEN "close" ELSE "next")
    <3>1. /\ wire'.frames = Append(wire.frames, frame) /\ wire'.kind = wire.kind
          /\ wire' \in [kind : Kinds, frames : Seq(Response!Frames), lost : BOOLEAN]
      <4>1. /\ wire = [kind |-> wire.kind, frames |-> wire.frames, lost |-> wire.lost]
            /\ wire.kind \in Kinds /\ wire.lost \in BOOLEAN
        BY DEF ResponseInv
      <4>2. Append(wire.frames, frame) \in Seq(Response!Frames)
        BY <2>1
      <4>3. wire' = [wire EXCEPT !.frames = Append(wire.frames, frame)]
        BY <2>3
      <4> QED BY <4>1, <4>2, <4>3
    <3>2. /\ Len(wire'.frames) = Len(wire.frames) + 1 /\ wire'.frames[Len(wire'.frames)] = frame
          /\ \A i \in 1 .. Len(wire.frames) : wire'.frames[i] = wire.frames[i]
          /\ wire'.frames # <<>> /\ Len(wire.frames) \in Nat
      BY <2>1, <3>1
    <3>3. OnlyThen(wire'.frames, request.api)
      <4>1. ASSUME NEW i \in 1 .. Len(wire.frames)
            PROVE  wire.frames[i] = "chunk" \/ (wire.frames[i] = "stop" /\ request.api = "messages")
        <5>1. CASE i < Len(wire.frames)
          BY <5>1 DEF OnlyThen
        <5>2. CASE i = Len(wire.frames)
          <6>1. wire.frames # <<>> /\ wire.frames[i] # "error" /\ wire.frames[i] \in Response!Frames
            BY <2>1, <5>2 DEF LastIsError
          <6>2. wire.frames[i] = "stop" => request.api = "messages"
            BY <2>1 DEF HasEnd
          <6> QED BY <6>1, <6>2
        <5> QED BY <3>2, <5>1, <5>2
      <4> QED BY <3>2, <4>1 DEF OnlyThen
    <3>4. /\ LastIsError(wire'.frames) <=> frame = "error"
          /\ HasError(wire'.frames) <=> HasError(wire.frames) \/ frame = "error"
          /\ HasEnd(wire'.frames) <=> HasEnd(wire.frames) \/ frame \in {"stop", "error"}
      <4>1. LastIsError(wire'.frames) <=> frame = "error"
        BY <3>2 DEF LastIsError
      <4>2. \A i \in 1 .. Len(wire'.frames) :
               wire'.frames[i] = IF i = Len(wire.frames) + 1 THEN frame ELSE wire.frames[i]
        BY <3>2
      <4>3. 1 .. Len(wire'.frames) = 1 .. Len(wire.frames) \cup {Len(wire.frames) + 1}
        BY <3>2
      <4>4. Len(wire.frames) + 1 \notin 1 .. Len(wire.frames)
        BY <3>2
      <4> HIDE DEF ResponseInv
      <4>5. HasError(wire'.frames) <=> HasError(wire.frames) \/ frame = "error"
        BY <4>2, <4>3, <4>4 DEF HasError
      <4>6. HasEnd(wire'.frames) <=> HasEnd(wire.frames) \/ frame \in {"stop", "error"}
        BY <4>2, <4>3, <4>4 DEF HasEnd
      <4> QED BY <4>1, <4>5, <4>6
    <3>5. SentInOrder'
      BY <2>1, <3>1, <3>2, <3>3, <3>4
    <3>6. LeaseIsHeld' /\ BodyIsOpen'
      BY <2>1, <2>3, <3>1
    <3>7. ResponseType'
      <4>1. request \in Requests /\ lease = "held" /\ requestPc' \in {"close", "next"}
        BY <2>1, <2>3
      <4>2. /\ source \in [chunks : Nat, ended : BOOLEAN, failed : BOOLEAN, emitted : BOOLEAN]
            /\ cancels \in [count : Nat, pending : BOOLEAN]
        BY DEF ResponseInv
      <4> QED BY <2>1, <3>1, <4>1, <4>2
    <3>8. CASE body = "closed"
      <4>1. requestPc' = "close" /\ frame = "error" /\ LastIsError(wire'.frames) /\ HasEnd(wire'.frames)
        BY <2>1, <2>3, <3>4, <3>8
      <4>2. StreamIsInOrder'
        BY <2>1, <3>1, <3>5, <4>1
      <4> QED BY <3>6, <3>7, <4>2
    <3>9. CASE body = "open"
      <4>1. /\ requestPc' = "next" /\ (source.ended <=> HasEnd(wire'.frames))
            /\ LastIsError(wire'.frames) => request.api = "responses"
            /\ source.failed => LastIsError(wire'.frames)
        BY <2>1, <2>3, <3>4, <3>9
      <4>2. StreamIsInOrder'
        BY <2>1, <3>1, <3>5, <4>1
      <4> QED BY <3>6, <3>7, <4>2
    <3> QED BY <2>1, <3>8, <3>9
  <2> QED BY <1>4, <2>2, <2>3 DEF Response!Send
<1> QED BY <1>1, <1>2, <1>3, <1>4

\* The cleanup, and the cancellations that it waits out.
LEMMA CleanupKeeps ==
    ASSUME ResponseInv, Response!StartCleanup \/ Response!Cleanup \/ Response!Closed \/ Response!Cancel
    PROVE  ResponseInv'
<1> USE DEF ResponseInv, ResponseType, Kinds, LeaseIsHeld, BodyIsOpen, StreamIsInOrder,
        SentInOrder, FrameInOrder, Response!Frames, Streaming, Response!Nothing, Response!Goto
<1>1. ASSUME Response!StartCleanup PROVE ResponseInv'
  BY <1>1, NoFrames DEF Response!StartCleanup
<1>2. ASSUME Response!Cleanup PROVE ResponseInv'
  <2>1. ResponseType'
    BY <1>2 DEF Response!Cleanup
  <2>2. LeaseIsHeld' /\ BodyIsOpen'
    BY <1>2 DEF Response!Cleanup
  <2>3. StreamIsInOrder'
    BY <1>2, NoFrames DEF Response!Cleanup
  <2> QED BY <2>1, <2>2, <2>3
<1>3. ASSUME Response!Closed PROVE ResponseInv'
  <2>1. ResponseType'
    <3>1. cancels.count \in Nat /\ cancels.pending \in BOOLEAN
      BY DEF ResponseInv
    <3>2. cancels' \in [count : Nat, pending : BOOLEAN]
      BY <1>3, <3>1 DEF Response!Closed
    <3> QED BY <1>3, <3>2 DEF Response!Closed
  <2>2. LeaseIsHeld' /\ BodyIsOpen'
    BY <1>3 DEF Response!Closed
  <2>3. StreamIsInOrder'
    BY <1>3, NoFrames DEF Response!Closed
  <2> QED BY <2>1, <2>2, <2>3
<1>4. ASSUME Response!Cancel PROVE ResponseInv'
  <2>1. ResponseType'
    <3>1. cancels.count \in Nat /\ cancels.pending \in BOOLEAN
      BY DEF ResponseInv
    <3>2. cancels' \in [count : Nat, pending : BOOLEAN]
      <4>1. \/ cancels' = [cancels EXCEPT !.count = cancels.count + 1]
            \/ cancels' = [count |-> cancels.count + 1, pending |-> TRUE]
        BY <1>4 DEF Response!Cancel
      <4>2. cancels \in [count : Nat, pending : BOOLEAN]
        BY DEF ResponseInv
      <4> HIDE DEF ResponseInv
      <4>3. cancels.count + 1 \in Nat
        BY <3>1
      <4>4. CASE cancels' = [cancels EXCEPT !.count = cancels.count + 1]
        BY <4>2, <4>3, <4>4
      <4>5. CASE cancels' = [count |-> cancels.count + 1, pending |-> TRUE]
        BY <4>3, <4>5
      <4> QED BY <4>1, <4>4, <4>5
    <3> QED BY <1>4, <3>2 DEF Response!Cancel
  <2>2. LeaseIsHeld' /\ BodyIsOpen'
    BY <1>4 DEF Response!Cancel
  <2>3. StreamIsInOrder'
    BY <1>4, NoFrames DEF Response!Cancel
  <2> QED BY <2>1, <2>2, <2>3
<1> QED BY <1>1, <1>2, <1>3, <1>4

LEMMA ResponseNext == ASSUME ResponseInv, Response!ResponseAssumption, [Response!Next]_Response!vars PROVE ResponseInv'
<1>1. ASSUME UNCHANGED Response!vars PROVE ResponseInv'
  BY <1>1 DEF ResponseInv, ResponseType, LeaseIsHeld, BodyIsOpen, StreamIsInOrder,
              SentInOrder, FrameInOrder, Streaming, Response!vars
<1> QED BY <1>1, HandlersKeep, StreamKeeps, CleanupKeeps DEF Response!Next

LEMMA ResponsesAreOwned == ASSUME ResponseInv PROVE Response!LeaseOutlivesBody /\ Response!EndIsTold
<1>1. Response!LeaseOutlivesBody
  BY DEF ResponseInv, LeaseIsHeld, BodyIsOpen, Response!LeaseOutlivesBody
<1>2. Response!EndIsTold
  BY DEF ResponseInv, StreamIsInOrder, SentInOrder, OnlyThen, HasError, HasEnd, LastIsError, Response!EndIsTold
<1> QED BY <1>1, <1>2

-----------------------------------------------------------------------------
(* The fate of an error: FailurePolicy *)

ProviderKinds == {"plain", "openai", "nim", "anthropic"}

\* What is known of an error before a hop.
Raised == IF provider = "anthropic" THEN Errors!AnthropicErrors ELSE Errors!OpenAIErrors
Plausible(e) == e \in Raised /\ Errors!Sensible(e)

\* What an instance tells of a failure: one without a status of its own is an upstream's.
CanBeTold(f) ==
    /\ f = [kind |-> f.kind, status |-> f.status, retryable |-> f.retryable]
    /\ f.status \in Nat /\ f.retryable \in BOOLEAN
    /\ f.retryable => Errors!IsRetryableStatus(f.status)
    /\ \/ f = Errors!Overloaded \/ f = Errors!ContextExceeded \/ f = Errors!BillingFailure
       \/ f = Errors!Failure("permission", 403, FALSE) \/ f = Errors!Failure("authentication", 401, FALSE)
       \/ f = Errors!Failure("rate_limit", 429, TRUE)
       \/ f.kind = "invalid_request" /\ f.status \in {400, 404, 413} /\ ~f.retryable
       \/ f.kind \in {"timeout", "unavailable"} /\ f.retryable
       \/ f.kind = "upstream"

\* What the instance behind a hop reads of it.
Heard(e, f) ==
    /\ e.type \in {"http_status", "frame"} /\ e.named = Errors!WireName(f)
    /\ e.says = (IF f.kind = "context_window" THEN "context" ELSE "none")

Verdict(e) == Errors!Classified(e).retryable

\* What is known of an error: where it was raised, and behind a hop.
Known(e) ==
    \/ origin = Errors!NoFailure /\ Plausible(e)
    \/ CanBeTold(origin) /\ provider = "anthropic" /\ Heard(e, origin)

ErrorInv ==
    /\ provider \in ProviderKinds
    /\ errorPc \in {"opening", "reading", "retrying", "exhausted", "surfaced"}
    /\ decided \in {"none", "retry", "final"}
    /\ Known(error)
    /\ errorPc = "reading" => provider # "anthropic"
    /\ errorPc = "retrying" => decided = "retry"
    /\ errorPc \in {"retrying", "exhausted", "surfaced"} => (decided = "retry" <=> Verdict(error))
    /\ errorPc = "surfaced" => failure = Errors!Classified(error)

LEMMA FailureIs ==
    ASSUME NEW k, NEW s, NEW r
    PROVE  /\ Errors!Failure(k, s, r).kind = k /\ Errors!Failure(k, s, r).status = s /\ Errors!Failure(k, s, r).retryable = r
           /\ Errors!Failure(k, s, r) = [kind |-> k, status |-> s, retryable |-> r]
BY DEF Errors!Failure

LEMMA StatusIs ==
    /\ Errors!IsRetryableStatus(429) /\ Errors!IsRetryableStatus(500) /\ Errors!IsRetryableStatus(502)
    /\ Errors!IsRetryableStatus(503) /\ Errors!IsRetryableStatus(504) /\ Errors!IsRetryableStatus(529)
    /\ ~Errors!IsRetryableStatus(0) /\ ~Errors!IsRetryableStatus(400) /\ ~Errors!IsRetryableStatus(401)
    /\ ~Errors!IsRetryableStatus(403) /\ ~Errors!IsRetryableStatus(404) /\ ~Errors!IsRetryableStatus(409)
    /\ ~Errors!IsRetryableStatus(413) /\ ~Errors!IsRetryableStatus(402)
BY DEF Errors!IsRetryableStatus

\* What the classes and statuses of errors leave open.
LEMMA PlausibleIs ==
    ASSUME NEW e, Plausible(e)
    PROVE  /\ e.type \in Errors!Sdk \cup Errors!Client \cup {"truncated", "http_status", "frame", "protocol"}
           /\ provider # "anthropic" => e.type \in Errors!Sdk \cup Errors!Client \cup {"truncated"}
           /\ provider = "anthropic" => e.type \in Errors!Client \cup {"http_status", "frame", "truncated", "protocol"}
           /\ e.status \in Errors!StatusesOf(e.type) /\ e.body \in Nat
           /\ e.named \in DOMAIN Errors!Named \cup {"none"}
<1>1. ASSUME provider = "anthropic" PROVE e \in Errors!AnthropicErrors
  BY <1>1 DEF Plausible, Raised
<1>2. ASSUME provider # "anthropic" PROVE e \in Errors!OpenAIErrors
  BY <1>2 DEF Plausible, Raised
<1>3. ASSUME e \in Errors!AnthropicErrors
      PROVE  /\ e.type \in Errors!Client \cup {"http_status", "frame", "truncated", "protocol"}
             /\ e.body \in Nat /\ e.named \in DOMAIN Errors!Named \cup {"none"}
  <2>1. PICK t \in Errors!Client \cup {"http_status", "frame", "truncated", "protocol"},
             s \in Errors!StatusesOf("http_status") \cup {0}, b \in {0, 429, 503}, m \in Errors!Markers,
             n \in DOMAIN Errors!Named \cup {"none"}, w \in {"none", "context", "credit"} :
           e = Errors!Error(t, s, b, m, n, w)
    BY <1>3 DEF Errors!AnthropicErrors
  <2> QED BY <2>1 DEF Errors!Error
<1>4. ASSUME e \in Errors!OpenAIErrors
      PROVE  /\ e.type \in Errors!Sdk \cup Errors!Client \cup {"truncated"}
             /\ e.body \in Nat /\ e.named = "none"
  <2>1. PICK t \in Errors!Sdk \cup Errors!Client \cup {"truncated"}, s \in UNION {Errors!StatusesOf(u) : u \in Errors!Sdk},
             b \in {0, 404, 429, 500}, m \in Errors!Markers, w \in {"none", "quota", "context", "degraded"} :
           e = Errors!Error(t, s, b, m, "none", w)
    BY <1>4 DEF Errors!OpenAIErrors
  <2> QED BY <2>1 DEF Errors!Error
<1> QED BY <1>1, <1>2, <1>3, <1>4 DEF Plausible, Errors!Sensible

LEMMA StatusesAre ==
    ASSUME NEW t
    PROVE  /\ t = "rate_limit" => Errors!StatusesOf(t) = {429}
           /\ t = "authentication" => Errors!StatusesOf(t) = {401}
           /\ t = "bad_request" => Errors!StatusesOf(t) = {400}
           /\ t = "internal_server" => Errors!StatusesOf(t) = {500, 503, 529}
           /\ t = "api_error" => Errors!StatusesOf(t) = {0, 403, 404, 409}
           /\ t = "http_status" => Errors!StatusesOf(t) = {400, 401, 403, 404, 413, 429, 500, 503, 529}
           /\ t \notin {"rate_limit", "authentication", "bad_request", "internal_server",
                        "api_error", "http_status"} => Errors!StatusesOf(t) = {0}
BY DEF Errors!StatusesOf

LEMMA TransientIs ==
    ASSUME NEW e, e.status \in Nat, e.body \in Nat
    PROVE  /\ Errors!TransientStatus(e) \in Nat
           /\ Errors!TransientStatus(e) # 0 <=> Errors!IsRetryableStatus(Errors!TransientStatus(e))
           /\ e.type = "rate_limit" => Errors!TransientStatus(e) = 429
           /\ e.type = "http_status" =>
                 Errors!TransientStatus(e) = IF Errors!IsRetryableStatus(e.status) THEN e.status ELSE 0
           /\ e.type \notin {"rate_limit", "http_status"} /\ Errors!IsRetryableStatus(e.status) =>
                 Errors!TransientStatus(e) = e.status
BY DEF Errors!TransientStatus, Errors!IsRetryableStatus

\* The documented names
LEMMA NamedIs ==
    /\ DOMAIN Errors!Named = {"invalid_request_error", "authentication_error", "billing_error",
                              "permission_error", "not_found_error", "request_too_large",
                              "rate_limit_error", "api_error", "timeout_error", "overloaded_error"}
    /\ Errors!Named["invalid_request_error"] = <<"invalid_request", 400>>
    /\ Errors!Named["authentication_error"] = <<"authentication", 401>>
    /\ Errors!Named["billing_error"] = <<"permission", 402>>
    /\ Errors!Named["permission_error"] = <<"permission", 403>>
    /\ Errors!Named["not_found_error"] = <<"invalid_request", 404>>
    /\ Errors!Named["request_too_large"] = <<"invalid_request", 413>>
    /\ Errors!Named["rate_limit_error"] = <<"rate_limit", 429>>
    /\ Errors!Named["api_error"] = <<"upstream", 500>>
    /\ Errors!Named["timeout_error"] = <<"timeout", 504>>
    /\ Errors!Named["overloaded_error"] = <<"overloaded", 529>>
BY DEF Errors!Named

\* What Anthropic's name of an error says, with the phrase in its message.
LEMMA NoOverride ==
    ASSUME NEW e, e.named = "none"
    PROVE  Errors!AnthropicOverride(e) = Errors!NoFailure
BY DEF Errors!AnthropicOverride

LEMMA OverrideInvalid ==
    ASSUME NEW e, e.named = "invalid_request_error"
    PROVE  Errors!AnthropicOverride(e) = IF e.says = "context" THEN Errors!ContextExceeded
                                   ELSE IF e.says = "credit" THEN Errors!BillingFailure
                                   ELSE Errors!Failure("invalid_request", 400, FALSE)
BY NamedIs DEF Errors!AnthropicOverride

LEMMA OverrideAuthentication ==
    ASSUME NEW e, e.named = "authentication_error"
    PROVE  Errors!AnthropicOverride(e) = Errors!Failure("authentication", 401, FALSE)
BY NamedIs DEF Errors!AnthropicOverride

LEMMA OverrideBilling ==
    ASSUME NEW e, e.named = "billing_error"
    PROVE  Errors!AnthropicOverride(e) = Errors!BillingFailure
BY NamedIs DEF Errors!AnthropicOverride

LEMMA OverridePermission ==
    ASSUME NEW e, e.named = "permission_error"
    PROVE  Errors!AnthropicOverride(e) = Errors!Failure("permission", 403, FALSE)
BY NamedIs DEF Errors!AnthropicOverride

LEMMA OverrideNotFound ==
    ASSUME NEW e, e.named = "not_found_error"
    PROVE  Errors!AnthropicOverride(e) = Errors!Failure("invalid_request", 404, FALSE)
BY NamedIs DEF Errors!AnthropicOverride

LEMMA OverrideTooLarge ==
    ASSUME NEW e, e.named = "request_too_large"
    PROVE  Errors!AnthropicOverride(e) = Errors!Failure("invalid_request", 413, FALSE)
BY NamedIs DEF Errors!AnthropicOverride

LEMMA OverrideRateLimit ==
    ASSUME NEW e, e.named = "rate_limit_error"
    PROVE  Errors!AnthropicOverride(e) = Errors!Failure("rate_limit", 429, TRUE)
BY NamedIs DEF Errors!AnthropicOverride

LEMMA OverrideApi ==
    ASSUME NEW e, e.named = "api_error"
    PROVE  Errors!AnthropicOverride(e) = Errors!Failure("upstream", 500, TRUE)
BY NamedIs DEF Errors!AnthropicOverride

LEMMA OverrideTimeout ==
    ASSUME NEW e, e.named = "timeout_error"
    PROVE  Errors!AnthropicOverride(e) = Errors!Failure("timeout", 504, TRUE)
BY NamedIs DEF Errors!AnthropicOverride

LEMMA OverrideOverload ==
    ASSUME NEW e, e.named = "overloaded_error"
    PROVE  Errors!AnthropicOverride(e) = Errors!Overloaded
BY NamedIs DEF Errors!AnthropicOverride

\* The failures that can be told, as ones that may be retried and as ones that may not.
ToldRetryable(f) == CanBeTold(f) /\ f.retryable
ToldFinal(f)     == CanBeTold(f) /\ ~f.retryable

LEMMA ToldTransient ==
    ASSUME NEW n \in Nat, Errors!IsRetryableStatus(n), NEW k \in {"upstream", "timeout", "unavailable"}
    PROVE  ToldRetryable(Errors!Failure(k, n, TRUE))
BY DEF ToldRetryable, CanBeTold, Errors!Failure

LEMMA ToldPermanent ==
    ASSUME NEW n \in Nat
    PROVE  ToldFinal(Errors!Failure("upstream", n, FALSE))
BY DEF ToldFinal, CanBeTold, Errors!Failure

LEMMA ToldOverloaded == ToldRetryable(Errors!Overloaded)
BY StatusIs DEF ToldRetryable, CanBeTold, Errors!Failure, Errors!Overloaded

LEMMA ToldRateLimit == ToldRetryable(Errors!Failure("rate_limit", 429, TRUE))
BY StatusIs DEF ToldRetryable, CanBeTold, Errors!Failure

LEMMA ToldContext == ToldFinal(Errors!ContextExceeded)
BY DEF ToldFinal, CanBeTold, Errors!Failure, Errors!ContextExceeded

LEMMA ToldBilling == ToldFinal(Errors!BillingFailure)
BY DEF ToldFinal, CanBeTold, Errors!Failure, Errors!BillingFailure

LEMMA ToldPermission == ToldFinal(Errors!Failure("permission", 403, FALSE))
BY DEF ToldFinal, CanBeTold, Errors!Failure

LEMMA ToldAuthentication == ToldFinal(Errors!Failure("authentication", 401, FALSE))
BY DEF ToldFinal, CanBeTold, Errors!Failure

LEMMA ToldInvalid == ToldFinal(Errors!Failure("invalid_request", 400, FALSE))
BY DEF ToldFinal, CanBeTold, Errors!Failure

LEMMA ToldNotFound == ToldFinal(Errors!Failure("invalid_request", 404, FALSE))
BY DEF ToldFinal, CanBeTold, Errors!Failure

LEMMA ToldTooLarge == ToldFinal(Errors!Failure("invalid_request", 413, FALSE))
BY DEF ToldFinal, CanBeTold, Errors!Failure

LEMMA ToldUpstream == ToldRetryable(Errors!Failure("upstream", 500, TRUE))
BY StatusIs DEF ToldRetryable, CanBeTold, Errors!Failure

LEMMA ToldTimeout == ToldRetryable(Errors!Failure("timeout", 504, TRUE))
BY StatusIs DEF ToldRetryable, CanBeTold, Errors!Failure

LEMMA ToldApiTimeout == ToldRetryable(Errors!Failure("timeout", 500, TRUE))
BY StatusIs DEF ToldRetryable, CanBeTold, Errors!Failure

LEMMA ToldUnavailable == ToldRetryable(Errors!Failure("unavailable", 500, TRUE))
BY StatusIs DEF ToldRetryable, CanBeTold, Errors!Failure

LEMMA ToldFailed == ToldFinal(Errors!Failure("upstream", 502, FALSE))
BY DEF ToldFinal, CanBeTold, Errors!Failure

LEMMA ToldIsTold ==
    ASSUME NEW f, ToldRetryable(f) \/ ToldFinal(f)
    PROVE  CanBeTold(f)
BY DEF ToldRetryable, ToldFinal

\* An override is a failure that can be told.
LEMMA AnthropicIsTold ==
    ASSUME NEW e, e.named \in DOMAIN Errors!Named
    PROVE  CanBeTold(Errors!AnthropicOverride(e)) /\ Errors!AnthropicOverride(e) # Errors!NoFailure
<1> DEFINE f == Errors!AnthropicOverride(e)
<1>1. ASSUME CanBeTold(f) PROVE f # Errors!NoFailure
  BY <1>1 DEF CanBeTold, Errors!NoFailure, Errors!Failure, Errors!Overloaded, Errors!ContextExceeded, Errors!BillingFailure
<1>2. CASE e.named = "invalid_request_error"
  <2>1. f = IF e.says = "context" THEN Errors!ContextExceeded
            ELSE IF e.says = "credit" THEN Errors!BillingFailure ELSE Errors!Failure("invalid_request", 400, FALSE)
    BY <1>2, OverrideInvalid
  <2> QED BY <1>1, <2>1, ToldContext, ToldBilling, ToldInvalid, ToldIsTold
<1>3. CASE e.named = "authentication_error"
  <2>1. f = Errors!Failure("authentication", 401, FALSE)
    BY <1>3, OverrideAuthentication
  <2> QED BY <1>1, <2>1, ToldAuthentication, ToldIsTold
<1>4. CASE e.named = "billing_error"
  <2>1. f = Errors!BillingFailure
    BY <1>4, OverrideBilling
  <2> QED BY <1>1, <2>1, ToldBilling, ToldIsTold
<1>5. CASE e.named = "permission_error"
  <2>1. f = Errors!Failure("permission", 403, FALSE)
    BY <1>5, OverridePermission
  <2> QED BY <1>1, <2>1, ToldPermission, ToldIsTold
<1>6. CASE e.named = "not_found_error"
  <2>1. f = Errors!Failure("invalid_request", 404, FALSE)
    BY <1>6, OverrideNotFound
  <2> QED BY <1>1, <2>1, ToldNotFound, ToldIsTold
<1>7. CASE e.named = "request_too_large"
  <2>1. f = Errors!Failure("invalid_request", 413, FALSE)
    BY <1>7, OverrideTooLarge
  <2> QED BY <1>1, <2>1, ToldTooLarge, ToldIsTold
<1>8. CASE e.named = "rate_limit_error"
  <2>1. f = Errors!Failure("rate_limit", 429, TRUE)
    BY <1>8, OverrideRateLimit
  <2> QED BY <1>1, <2>1, ToldRateLimit, ToldIsTold
<1>9. CASE e.named = "api_error"
  <2>1. f = Errors!Failure("upstream", 500, TRUE)
    BY <1>9, OverrideApi
  <2> QED BY <1>1, <2>1, ToldUpstream, ToldIsTold
<1>10. CASE e.named = "timeout_error"
  <2>1. f = Errors!Failure("timeout", 504, TRUE)
    BY <1>10, OverrideTimeout
  <2> QED BY <1>1, <2>1, ToldTimeout, ToldIsTold
<1>11. CASE e.named = "overloaded_error"
  <2>1. f = Errors!Overloaded
    BY <1>11, OverrideOverload
  <2> QED BY <1>1, <2>1, ToldOverloaded, ToldIsTold
<1> QED BY NamedIs, <1>2, <1>3, <1>4, <1>5, <1>6, <1>7, <1>8, <1>9, <1>10, <1>11

LEMMA OverrideIsTold ==
    ASSUME NEW e, e.named \in DOMAIN Errors!Named \cup {"none"}, Errors!Override(e) # Errors!NoFailure
    PROVE  CanBeTold(Errors!Override(e))
<1>1. ASSUME Errors!AnthropicOverride(e) # Errors!NoFailure PROVE CanBeTold(Errors!AnthropicOverride(e))
  <2>1. e.named # "none"
    BY <1>1, NoOverride
  <2> QED BY <2>1, AnthropicIsTold
<1>2. ASSUME Errors!NimOverride(e) # Errors!NoFailure PROVE CanBeTold(Errors!NimOverride(e))
  <2>1. Errors!NimOverride(e) = Errors!ContextExceeded \/ Errors!NimOverride(e) = Errors!Overloaded
    BY <1>2 DEF Errors!NimOverride
  <2> QED BY <2>1, ToldContext, ToldOverloaded, ToldIsTold
<1>3. ASSUME Errors!OpenAIOverride(e) # Errors!NoFailure PROVE CanBeTold(Errors!OpenAIOverride(e))
  <2>1. Errors!OpenAIOverride(e) = Errors!BillingFailure
    BY <1>3 DEF Errors!OpenAIOverride
  <2> QED BY <2>1, ToldBilling, ToldIsTold
<1>4. \/ Errors!Override(e) = Errors!AnthropicOverride(e) \/ Errors!Override(e) = Errors!NimOverride(e)
      \/ Errors!Override(e) = Errors!OpenAIOverride(e) \/ Errors!Override(e) = Errors!NoFailure
  BY DEF Errors!Override
<1> QED BY <1>1, <1>2, <1>3, <1>4

\* What is told is what the policy decided.
Agrees(e) ==
    \/ Errors!IsRetryable(e) /\ ToldRetryable(Errors!Classified(e))
    \/ ~Errors!IsRetryable(e) /\ ToldFinal(Errors!Classified(e))

LEMMA RetryableIs ==
    ASSUME NEW e
    PROVE  /\ Errors!IsRetryable(e) \in BOOLEAN
           /\ e.type \in {"authentication", "bad_request"} => ~Errors!IsRetryable(e)
           /\ e.type \notin {"authentication", "bad_request"} /\ Errors!TransientStatus(e) # 0 => Errors!IsRetryable(e)
           /\ e.type \in {"read_timeout", "other_timeout", "network", "remote_protocol", "timeout",
                          "api_timeout", "api_connection", "protocol", "truncated"} => Errors!IsRetryable(e)
           /\ e.type \in {"rate_limit", "internal_server", "api_error", "http_status", "frame", "value"}
                 /\ Errors!TransientStatus(e) = 0 => ~Errors!IsRetryable(e)
BY DEF Errors!IsRetryable, Errors!Client

\* Of an error that no override names, by its class.
LEMMA SdkAgrees ==
    ASSUME NEW e, e.status \in Errors!StatusesOf(e.type), e.status \in Nat, e.body \in Nat,
           Errors!Classified(e) = Errors!ClassifiedSdk(e), e.type \in Errors!Sdk
    PROVE  Agrees(e)
<1> DEFINE s == Errors!TransientStatus(e)
<1>1. /\ s \in Nat /\ (s # 0 <=> Errors!IsRetryableStatus(s))
      /\ e.type = "rate_limit" => s = 429
      /\ e.type \notin {"rate_limit", "http_status"} /\ Errors!IsRetryableStatus(e.status) => s = e.status
  BY TransientIs
<1>2. e.marker = "overload" /\ e.type = "api_error" => s # 0
  BY DEF Errors!TransientStatus, Errors!IsRetryableStatus
<1> HIDE DEF s
<1>3. CASE e.type = "authentication"
  <2>1. Errors!ClassifiedSdk(e) = Errors!Failure("authentication", 401, FALSE)
    BY <1>3 DEF Errors!ClassifiedSdk
  <2>2. ~Errors!IsRetryable(e)
    BY <1>3, RetryableIs
  <2> QED BY <2>1, <2>2, ToldAuthentication DEF Agrees
<1>4. CASE e.type = "bad_request"
  <2>1. Errors!ClassifiedSdk(e) = Errors!Failure("invalid_request", 400, FALSE)
    BY <1>4 DEF Errors!ClassifiedSdk
  <2>2. ~Errors!IsRetryable(e)
    BY <1>4, RetryableIs
  <2>3. ToldFinal(Errors!Failure("invalid_request", 400, FALSE))
    BY ToldInvalid
  <2> QED BY <2>1, <2>2, <2>3 DEF Agrees
<1>5. CASE e.type = "rate_limit"
  <2>1. Errors!ClassifiedSdk(e) = Errors!Failure("rate_limit", 429, TRUE)
    BY <1>5 DEF Errors!ClassifiedSdk
  <2>2. Errors!IsRetryable(e)
    BY <1>1, <1>5, RetryableIs DEF s
  <2> QED BY <2>1, <2>2, ToldRateLimit DEF Agrees
<1>6. CASE e.type = "api_timeout"
  <2>1. Errors!ClassifiedSdk(e) = Errors!Failure("timeout", 500, TRUE)
    BY <1>6 DEF Errors!ClassifiedSdk
  <2>2. Errors!IsRetryable(e)
    BY <1>6, RetryableIs
  <2>3. ToldRetryable(Errors!Failure("timeout", 500, TRUE))
    BY ToldApiTimeout
  <2> QED BY <2>1, <2>2, <2>3 DEF Agrees
<1>7. CASE e.type = "api_connection"
  <2>1. Errors!ClassifiedSdk(e) = Errors!Failure("unavailable", 500, TRUE)
    BY <1>7 DEF Errors!ClassifiedSdk
  <2>2. Errors!IsRetryable(e)
    BY <1>7, RetryableIs
  <2>3. ToldRetryable(Errors!Failure("unavailable", 500, TRUE))
    BY ToldUnavailable
  <2> QED BY <2>1, <2>2, <2>3 DEF Agrees
<1>8. CASE e.type = "internal_server"
  <2>1. Errors!ClassifiedSdk(e) = IF e.marker = "overload" THEN Errors!Overloaded ELSE Errors!Failure("upstream", s, TRUE)
    BY <1>8 DEF Errors!ClassifiedSdk, s
  <2>2. Errors!IsRetryableStatus(s) /\ s # 0
    <3>1. e.status \in {500, 503, 529}
      BY <1>8, StatusesAre
    <3>2. Errors!IsRetryableStatus(e.status)
      BY <3>1, StatusIs
    <3> QED BY <1>1, <1>8, <3>1, <3>2
  <2>3. Errors!IsRetryable(e)
    BY <1>8, <2>2, RetryableIs DEF s
  <2>4. ToldRetryable(Errors!Failure("upstream", s, TRUE))
    BY <1>1, <2>2, ToldTransient
  <2> QED BY <2>1, <2>3, <2>4, ToldOverloaded DEF Agrees
<1>9. CASE e.type = "api_error"
  <2> DEFINE n == IF s # 0 THEN s ELSE IF e.status # 0 THEN e.status ELSE 500
  <2>1. Errors!ClassifiedSdk(e) = IF s = 429 THEN Errors!Failure("rate_limit", 429, TRUE)
                                  ELSE IF e.marker = "overload" THEN Errors!Overloaded
                                  ELSE Errors!Failure("upstream", n, Errors!IsRetryable(e))
    BY <1>9 DEF Errors!ClassifiedSdk, s
  <2>2. n \in Nat /\ (s # 0 => Errors!IsRetryableStatus(n))
    BY <1>1
  <2> HIDE DEF n
  <2>3. CASE s # 0
    <3>1. Errors!IsRetryable(e) /\ Errors!IsRetryable(e) = TRUE
      BY <1>9, <2>3, RetryableIs DEF s
    <3>2. ToldRetryable(Errors!Failure("upstream", n, TRUE))
      BY <2>2, <2>3, ToldTransient
    <3> QED BY <2>1, <3>1, <3>2, ToldRateLimit, ToldOverloaded DEF Agrees
  <2>4. CASE s = 0
    <3>1. ~Errors!IsRetryable(e) /\ Errors!IsRetryable(e) = FALSE
      BY <1>9, <2>4, RetryableIs DEF s
    <3>2. ToldFinal(Errors!Failure("upstream", n, FALSE))
      BY <2>2, ToldPermanent
    <3>3. Errors!ClassifiedSdk(e) = Errors!Failure("upstream", n, FALSE)
      <4>1. s # 429 /\ e.marker # "overload"
        BY <1>2, <1>9, <2>4
      <4>2. Errors!ClassifiedSdk(e) = Errors!Failure("upstream", n, Errors!IsRetryable(e))
        BY <2>1, <4>1
      <4> QED BY <3>1, <4>2
    <3> QED BY <3>1, <3>2, <3>3 DEF Agrees
  <2> QED BY <2>3, <2>4
<1> QED BY <1>3, <1>4, <1>5, <1>6, <1>7, <1>8, <1>9 DEF Errors!Sdk

LEMMA HttpAgrees ==
    ASSUME NEW e, e.status \in Errors!StatusesOf(e.type), e.status \in Nat, e.body \in Nat,
           Errors!Classified(e) = Errors!ClassifiedHttp(e), e.type = "http_status"
    PROVE  Agrees(e)
<1>1. e.status \in {400, 401, 403, 404, 413, 429, 500, 503, 529}
  BY StatusesAre
<1>2. /\ Errors!IsRetryableStatus(e.status) => Errors!IsRetryable(e)
      /\ ~Errors!IsRetryableStatus(e.status) => ~Errors!IsRetryable(e)
  <2>1. Errors!TransientStatus(e) = IF Errors!IsRetryableStatus(e.status) THEN e.status ELSE 0
    BY TransientIs
  <2>2. Errors!IsRetryableStatus(e.status) => e.status # 0
    BY <1>1
  <2> QED BY <2>1, <2>2, RetryableIs
<1>3. CASE e.status \in {401, 403}
  <2>1. Errors!ClassifiedHttp(e) = Errors!Failure("authentication", 401, FALSE)
    <3>1. ASSUME e.status = 401 PROVE Errors!ClassifiedHttp(e) = Errors!Failure("authentication", 401, FALSE)
      BY <3>1 DEF Errors!ClassifiedHttp
    <3>2. ASSUME e.status = 403 PROVE Errors!ClassifiedHttp(e) = Errors!Failure("authentication", 401, FALSE)
      BY <3>2 DEF Errors!ClassifiedHttp
    <3> QED BY <1>3, <3>1, <3>2
  <2>2. ~Errors!IsRetryable(e)
    BY <1>2, <1>3, StatusIs
  <2> QED BY <2>1, <2>2, ToldAuthentication DEF Agrees
<1>4. CASE e.status = 429
  <2>1. Errors!ClassifiedHttp(e) = Errors!Failure("rate_limit", 429, TRUE)
    BY <1>4 DEF Errors!ClassifiedHttp
  <2>2. Errors!IsRetryable(e)
    BY <1>2, <1>4, StatusIs
  <2> QED BY <2>1, <2>2, ToldRateLimit DEF Agrees
<1>5. CASE e.status = 400
  <2>1. Errors!ClassifiedHttp(e) = Errors!Failure("invalid_request", 400, FALSE)
    BY <1>5 DEF Errors!ClassifiedHttp
  <2>2. ~Errors!IsRetryable(e)
    BY <1>2, <1>5, StatusIs
  <2>3. ToldFinal(Errors!Failure("invalid_request", 400, FALSE))
    BY ToldInvalid
  <2> QED BY <2>1, <2>2, <2>3 DEF Agrees
<1>6. CASE e.status = 503
  <2>1. Errors!ClassifiedHttp(e) = Errors!Overloaded
    BY <1>6 DEF Errors!ClassifiedHttp
  <2>2. Errors!IsRetryable(e)
    BY <1>2, <1>6, StatusIs
  <2> QED BY <2>1, <2>2, ToldOverloaded DEF Agrees
<1>7. CASE e.status \in {404, 413, 500, 529}
  <2>1. Errors!ClassifiedHttp(e) = Errors!Failure("upstream", e.status, Errors!IsRetryableStatus(e.status))
    <3>1. ASSUME e.status = 404
          PROVE  Errors!ClassifiedHttp(e) = Errors!Failure("upstream", e.status, Errors!IsRetryableStatus(e.status))
      BY <3>1 DEF Errors!ClassifiedHttp
    <3>2. ASSUME e.status = 413
          PROVE  Errors!ClassifiedHttp(e) = Errors!Failure("upstream", e.status, Errors!IsRetryableStatus(e.status))
      BY <3>2 DEF Errors!ClassifiedHttp
    <3>3. ASSUME e.status = 500
          PROVE  Errors!ClassifiedHttp(e) = Errors!Failure("upstream", e.status, Errors!IsRetryableStatus(e.status))
      BY <3>3 DEF Errors!ClassifiedHttp
    <3>4. ASSUME e.status = 529
          PROVE  Errors!ClassifiedHttp(e) = Errors!Failure("upstream", e.status, Errors!IsRetryableStatus(e.status))
      BY <3>4 DEF Errors!ClassifiedHttp
    <3> QED BY <1>7, <3>1, <3>2, <3>3, <3>4
  <2>2. CASE e.status \in {500, 529}
    <3>1. Errors!IsRetryableStatus(e.status) /\ Errors!IsRetryableStatus(e.status) = TRUE
      BY <2>2 DEF Errors!IsRetryableStatus
    <3>2. Errors!ClassifiedHttp(e) = Errors!Failure("upstream", e.status, TRUE)
      BY <2>1, <3>1
    <3>3. ToldRetryable(Errors!Failure("upstream", e.status, TRUE))
      BY <3>1, ToldTransient
    <3> QED BY <1>2, <3>1, <3>2, <3>3 DEF Agrees
  <2>3. CASE e.status \in {404, 413}
    <3>1. ~Errors!IsRetryableStatus(e.status) /\ Errors!IsRetryableStatus(e.status) = FALSE
      BY <2>3 DEF Errors!IsRetryableStatus
    <3>2. Errors!ClassifiedHttp(e) = Errors!Failure("upstream", e.status, FALSE)
      BY <2>1, <3>1
    <3>3. ToldFinal(Errors!Failure("upstream", e.status, FALSE))
      BY ToldPermanent
    <3> QED BY <1>2, <3>1, <3>2, <3>3 DEF Agrees
  <2> QED BY <1>7, <2>2, <2>3
<1> QED BY <1>1, <1>3, <1>4, <1>5, <1>6, <1>7

LEMMA OthersAgree ==
    ASSUME NEW e, e.type \in Errors!Client \cup {"truncated", "frame", "protocol"}, Errors!Override(e) = Errors!NoFailure
    PROVE  Agrees(e)
<1> DEFINE kind == CASE e.type \in {"timeout", "read_timeout", "other_timeout"} -> "timeout"
                     [] e.type = "network" -> "unavailable"
                     [] OTHER              -> "upstream"
<1>1. Errors!Classified(e) = Errors!Failure(kind, 502, Errors!IsRetryable(e))
  BY DEF Errors!Classified, Errors!Sdk, Errors!Client
<1>2. /\ kind \in {"timeout", "unavailable", "upstream"}
      /\ kind # "upstream" => e.type \in {"timeout", "read_timeout", "other_timeout", "network"}
  OBVIOUS
<1> HIDE DEF kind
<1>3. CASE Errors!IsRetryable(e)
  <2>1. Errors!IsRetryable(e) = TRUE
    BY <1>3, RetryableIs
  <2>2. ToldRetryable(Errors!Failure(kind, 502, TRUE))
    BY <1>2, StatusIs DEF ToldRetryable, CanBeTold, Errors!Failure
  <2>3. Errors!Classified(e) = Errors!Failure(kind, 502, TRUE)
    BY <1>1, <2>1
  <2> QED BY <1>3, <2>2, <2>3 DEF Agrees
<1>4. CASE ~Errors!IsRetryable(e)
  <2>1. Errors!IsRetryable(e) = FALSE
    BY <1>4, RetryableIs
  <2>2. kind = "upstream"
    <3>1. e.type \notin {"timeout", "read_timeout", "other_timeout", "network"}
      BY <1>4, RetryableIs
    <3> QED BY <1>2, <3>1
  <2>3. ToldFinal(Errors!Failure("upstream", 502, FALSE))
    BY ToldFailed
  <2>4. Errors!Classified(e) = Errors!Failure("upstream", 502, FALSE)
    BY <1>1, <2>1, <2>2
  <2> QED BY <1>4, <2>3, <2>4 DEF Agrees
<1> QED BY <1>3, <1>4

LEMMA ClassesAgree ==
    ASSUME NEW e, Plausible(e), Errors!Override(e) = Errors!NoFailure
    PROVE  Agrees(e)
<1>1. /\ e.type \in Errors!Sdk \cup Errors!Client \cup {"truncated", "http_status", "frame", "protocol"}
      /\ e.status \in Errors!StatusesOf(e.type) /\ e.body \in Nat
  BY PlausibleIs
<1>2. e.status \in Nat
  BY <1>1, StatusesAre
<1>3. CASE e.type \in Errors!Sdk
  <2>1. Errors!Classified(e) = Errors!ClassifiedSdk(e)
    BY <1>3 DEF Errors!Classified
  <2> QED BY <1>1, <1>2, <1>3, <2>1, SdkAgrees
<1>4. CASE e.type = "http_status"
  <2>1. Errors!Classified(e) = Errors!ClassifiedHttp(e)
    BY <1>4 DEF Errors!Classified, Errors!Sdk
  <2> QED BY <1>1, <1>2, <1>4, <2>1, HttpAgrees
<1> QED BY <1>1, <1>3, <1>4, OthersAgree

\* A stream that broke is judged as it is told.
LEMMA StreamsAgree ==
    ASSUME NEW e, Plausible(e), Errors!Override(e) = Errors!NoFailure, provider # "anthropic",
           e.type # "other_timeout"
    PROVE  Errors!IsRetryableStream(e) <=> Errors!IsRetryable(e)
<1>1. e.type \in Errors!Sdk \cup Errors!Client \cup {"truncated"}
  BY PlausibleIs
<1> QED BY <1>1 DEF Errors!IsRetryableStream, Errors!IsRetryable, Errors!Client, Errors!Sdk

\* Behind a hop the name of the failure is all there is to go by.
LEMMA WireNameIs ==
    ASSUME NEW f
    PROVE  Errors!WireName(f) \in DOMAIN Errors!Named
BY NamedIs DEF Errors!WireName

LEMMA HeardIs ==
    ASSUME NEW e, NEW f, Heard(e, f), provider = "anthropic"
    PROVE  Errors!Override(e) = Errors!AnthropicOverride(e) /\ e.named \in DOMAIN Errors!Named
BY WireNameIs DEF Heard, Errors!Override

LEMMA Hop ==
    ASSUME NEW e, NEW f, CanBeTold(f), Heard(e, f)
    PROVE  \/ Errors!AnthropicOverride(e) = f
           \/ /\ f.kind \in {"upstream", "timeout", "unavailable"}
              /\ Errors!AnthropicOverride(e).retryable
<1>1. e.named = Errors!WireName(f) /\ e.says = IF f.kind = "context_window" THEN "context" ELSE "none"
  BY DEF Heard
<1>2. CASE f = Errors!Overloaded
  <2>1. e.named = "overloaded_error"
    BY <1>1, <1>2 DEF Errors!WireName, Errors!Overloaded, Errors!Failure
  <2> QED BY <1>2, <2>1, OverrideOverload
<1>3. CASE f = Errors!ContextExceeded
  <2>1. e.named = "invalid_request_error" /\ e.says = "context"
    BY <1>1, <1>3 DEF Errors!WireName, Errors!ContextExceeded, Errors!Failure
  <2> QED BY <1>3, <2>1, OverrideInvalid
<1>4. CASE f = Errors!BillingFailure
  <2>1. e.named = "billing_error"
    BY <1>1, <1>4 DEF Errors!WireName, Errors!BillingFailure, Errors!Failure
  <2> QED BY <1>4, <2>1, OverrideBilling
<1>5. CASE f = Errors!Failure("permission", 403, FALSE)
  <2>1. e.named = "permission_error"
    BY <1>1, <1>5 DEF Errors!WireName, Errors!Failure
  <2> QED BY <1>5, <2>1, OverridePermission
<1>6. CASE f = Errors!Failure("authentication", 401, FALSE)
  <2>1. e.named = "authentication_error"
    BY <1>1, <1>6 DEF Errors!WireName, Errors!Failure
  <2> QED BY <1>6, <2>1, OverrideAuthentication
<1>7. CASE f = Errors!Failure("rate_limit", 429, TRUE)
  <2>1. e.named = "rate_limit_error"
    BY <1>1, <1>7 DEF Errors!WireName, Errors!Failure
  <2> QED BY <1>7, <2>1, OverrideRateLimit
<1>8. CASE f.kind = "invalid_request" /\ f.status \in {400, 404, 413} /\ ~f.retryable
  <2>1. f = [kind |-> f.kind, status |-> f.status, retryable |-> f.retryable] /\ f.retryable = FALSE
    BY <1>8 DEF CanBeTold
  <2>2. f = Errors!Failure("invalid_request", f.status, FALSE)
    BY <1>8, <2>1 DEF Errors!Failure
  <2>3. CASE f.status = 400
    <3>1. e.named = "invalid_request_error" /\ e.says = "none"
      BY <1>1, <1>8, <2>3 DEF Errors!WireName
    <3>2. Errors!AnthropicOverride(e) = Errors!Failure("invalid_request", 400, FALSE)
      BY <3>1, OverrideInvalid
    <3> QED BY <2>2, <2>3, <3>2
  <2>4. CASE f.status = 404
    <3>1. e.named = "not_found_error"
      BY <1>1, <1>8, <2>4 DEF Errors!WireName
    <3>2. f = Errors!Failure("invalid_request", 404, FALSE)
      BY <1>8, <2>1, <2>4 DEF Errors!Failure
    <3>3. Errors!AnthropicOverride(e) = Errors!Failure("invalid_request", 404, FALSE)
      BY <3>1, OverrideNotFound
    <3> QED BY <3>2, <3>3
  <2>5. CASE f.status = 413
    <3>1. e.named = "request_too_large"
      BY <1>1, <1>8, <2>5 DEF Errors!WireName
    <3>2. f = Errors!Failure("invalid_request", 413, FALSE)
      BY <1>8, <2>1, <2>5 DEF Errors!Failure
    <3>3. Errors!AnthropicOverride(e) = Errors!Failure("invalid_request", 413, FALSE)
      BY <3>1, OverrideTooLarge
    <3> QED BY <3>2, <3>3
  <2> QED BY <1>8, <2>3, <2>4, <2>5
<1>9. CASE f.kind \in {"upstream", "timeout", "unavailable"}
  <2>1. e.named \in {"timeout_error", "api_error"}
    BY <1>1, <1>9 DEF Errors!WireName
  <2>2. CASE e.named = "timeout_error"
    <3>1. Errors!AnthropicOverride(e) = Errors!Failure("timeout", 504, TRUE)
      BY <2>2, OverrideTimeout
    <3> QED BY <1>9, <3>1, ToldTimeout DEF ToldRetryable
  <2>3. CASE e.named = "api_error"
    <3>1. Errors!AnthropicOverride(e) = Errors!Failure("upstream", 500, TRUE)
      BY <2>3, OverrideApi
    <3> QED BY <1>9, <3>1, ToldUpstream DEF ToldRetryable
  <2> QED BY <2>1, <2>2, <2>3
<1>10. \/ f = Errors!Overloaded \/ f = Errors!ContextExceeded \/ f = Errors!BillingFailure
       \/ f = Errors!Failure("permission", 403, FALSE) \/ f = Errors!Failure("authentication", 401, FALSE)
       \/ f = Errors!Failure("rate_limit", 429, TRUE)
       \/ f.kind = "invalid_request" /\ f.status \in {400, 404, 413} /\ ~f.retryable
       \/ f.kind \in {"upstream", "timeout", "unavailable"}
  BY DEF CanBeTold
<1> QED BY <1>2, <1>3, <1>4, <1>5, <1>6, <1>7, <1>8, <1>9, <1>10

\* What is told of a known error, and that it is what the policy decides.
LEMMA KnownIsTold ==
    ASSUME Known(error)
    PROVE  /\ CanBeTold(Errors!Classified(error))
           /\ Errors!Override(error) # Errors!NoFailure => Errors!Classified(error) = Errors!Override(error)
           /\ Errors!Override(error) = Errors!NoFailure => (Verdict(error) <=> Errors!IsRetryable(error))
<1>1. Errors!Override(error) # Errors!NoFailure => Errors!Classified(error) = Errors!Override(error)
  BY DEF Errors!Classified
<1>2. CASE origin = Errors!NoFailure /\ Plausible(error)
  <2>1. CASE Errors!Override(error) = Errors!NoFailure
    <3>1. Agrees(error)
      BY <1>2, <2>1, ClassesAgree
    <3>2. CanBeTold(Errors!Classified(error)) /\ (Verdict(error) <=> Errors!IsRetryable(error))
      BY <3>1 DEF Agrees, ToldRetryable, ToldFinal, Verdict
    <3> QED BY <1>1, <3>2
  <2>2. CASE Errors!Override(error) # Errors!NoFailure
    <3>1. error.named \in DOMAIN Errors!Named \cup {"none"}
      BY <1>2, PlausibleIs
    <3>2. CanBeTold(Errors!Override(error))
      BY <2>2, <3>1, OverrideIsTold
    <3> QED BY <1>1, <2>2, <3>2
  <2> QED BY <2>1, <2>2
<1>3. CASE CanBeTold(origin) /\ provider = "anthropic" /\ Heard(error, origin)
  <2>1. Errors!Override(error) = Errors!AnthropicOverride(error) /\ error.named \in DOMAIN Errors!Named
    BY <1>3, HeardIs
  <2>2. CanBeTold(Errors!AnthropicOverride(error)) /\ Errors!AnthropicOverride(error) # Errors!NoFailure
    BY <2>1, AnthropicIsTold
  <2> QED BY <1>1, <2>1, <2>2
<1> QED BY <1>2, <1>3 DEF Known

\* An error whose instance stays the same is judged the same.
LEMMA ErrorStays ==
    ASSUME UNCHANGED <<provider, error, origin>>
    PROVE  /\ Known(error)' <=> Known(error)
           /\ Verdict(error)' <=> Verdict(error)
           /\ Errors!Classified(error)' = Errors!Classified(error)
<1>1. Errors!Classified(error)' = Errors!Classified(error)
  BY DEF Errors!Classified, Errors!Override
<1>2. Verdict(error)' <=> Verdict(error)
  BY <1>1 DEF Verdict
<1>3. Plausible(error)' <=> Plausible(error)
  BY DEF Plausible, Raised
<1> QED BY <1>1, <1>2, <1>3 DEF Known

LEMMA ErrorInit ==
    ASSUME Errors!Init
    PROVE  ErrorInv
<1>1. Plausible(error)
  BY DEF Errors!Init, Plausible, Raised
<1> QED BY <1>1 DEF Errors!Init, ErrorInv, Known, ProviderKinds

LEMMA JudgedKeeps ==
    ASSUME ErrorInv, NEW b \in BOOLEAN, Errors!Judged(b), b <=> Verdict(error)
    PROVE  ErrorInv'
<1>1. UNCHANGED <<provider, error, origin>> /\ UNCHANGED failure
  BY DEF Errors!Judged
<1>2. /\ decided' = IF b THEN "retry" ELSE "final"
      /\ errorPc' \in IF b THEN {"retrying", "exhausted"} ELSE {"exhausted"}
  BY DEF Errors!Judged
<1> QED BY <1>1, <1>2, ErrorStays DEF ErrorInv

LEMMA ErrorNext ==
    ASSUME ErrorInv, [Errors!Next]_Errors!vars
    PROVE  ErrorInv'
<1>1. ASSUME Errors!Opening PROVE ErrorInv'
  <2>1. PICK b : b = (IF Errors!Override(error) # Errors!NoFailure THEN Errors!Override(error).retryable ELSE Errors!IsRetryable(error))
    OBVIOUS
  <2>2. /\ CanBeTold(Errors!Classified(error))
        /\ Errors!Override(error) # Errors!NoFailure => Errors!Classified(error) = Errors!Override(error)
        /\ Errors!Override(error) = Errors!NoFailure => (Verdict(error) <=> Errors!IsRetryable(error))
    BY KnownIsTold DEF ErrorInv
  <2>3. b \in BOOLEAN /\ (b <=> Verdict(error))
    <3>1. CASE Errors!Override(error) # Errors!NoFailure
      <4>1. b = Errors!Classified(error).retryable
        BY <2>1, <2>2, <3>1
      <4> QED BY <2>2, <4>1 DEF Verdict, CanBeTold
    <3>2. CASE Errors!Override(error) = Errors!NoFailure
      <4>1. b = Errors!IsRetryable(error)
        BY <2>1, <3>2
      <4> QED BY <2>2, <3>2, <4>1, RetryableIs
    <3> QED BY <3>1, <3>2
  <2>4. Errors!Judged(b)
    BY <1>1, <2>1 DEF Errors!Opening
  <2> QED BY <2>3, <2>4, JudgedKeeps
<1>2. ASSUME Errors!Reading PROVE ErrorInv'
  <2>1. provider # "anthropic" /\ Errors!Override(error) = Errors!NoFailure /\ error.type # "other_timeout"
    BY <1>2 DEF Errors!Reading, ErrorInv
  <2>2. Plausible(error)
    BY <2>1 DEF ErrorInv, Known
  <2>3. Verdict(error) <=> Errors!IsRetryableStream(error)
    BY <2>1, <2>2, StreamsAgree, KnownIsTold DEF ErrorInv
  <2>4. PICK b \in BOOLEAN : b = Errors!IsRetryableStream(error)
    BY DEF Errors!IsRetryableStream
  <2>5. Errors!Judged(b)
    BY <1>2, <2>4 DEF Errors!Reading
  <2> QED BY <2>3, <2>4, <2>5, JudgedKeeps
<1>3. ASSUME Errors!Exhaust PROVE ErrorInv'
  BY <1>3, ErrorStays DEF Errors!Exhaust, ErrorInv
<1>4. ASSUME Errors!Surface PROVE ErrorInv'
  BY <1>4, ErrorStays DEF Errors!Surface, ErrorInv
<1>5. ASSUME Errors!Relay PROVE ErrorInv'
  <2>1. /\ errorPc = "surfaced" /\ origin' = failure /\ provider' = "anthropic" /\ errorPc' = "opening"
        /\ decided' = "none"
    BY <1>5 DEF Errors!Relay
  <2>2. CanBeTold(origin)'
    <3>1. failure = Errors!Classified(error) /\ CanBeTold(Errors!Classified(error))
      BY <2>1, KnownIsTold DEF ErrorInv
    <3>2. CanBeTold(failure)
      BY <3>1
    <3> QED BY <2>1, <3>2
  <2>3. Heard(error', failure)
    <3>1. PICK type \in {"http_status", "frame"} : \E code, inner :
             error' = Errors!Error(type, code, inner, "none", Errors!WireName(failure),
                                   IF failure.kind = "context_window" THEN "context" ELSE "none")
      BY <1>5 DEF Errors!Relay
    <3> QED BY <3>1 DEF Errors!Error, Heard
  <2>4. Known(error)'
    BY <2>1, <2>2, <2>3 DEF Known
  <2> QED BY <2>1, <2>4 DEF ErrorInv, ProviderKinds
<1>6. ASSUME UNCHANGED Errors!vars PROVE ErrorInv'
  BY <1>6, ErrorStays DEF Errors!vars, ErrorInv
<1> QED BY <1>1, <1>2, <1>3, <1>4, <1>5, <1>6 DEF Errors!Next

\* failure_policy.py: what the client is told is what was decided, behind a hop too.
LEMMA ErrorsAreTold ==
    ASSUME ErrorInv
    PROVE  Errors!ToldAsDecided /\ Errors!SurvivesTheHop
<1>1. ASSUME errorPc = "surfaced"
      PROVE  failure = Errors!Classified(error) /\ (decided = "retry" <=> Verdict(error)) /\ CanBeTold(Errors!Classified(error))
  BY <1>1, KnownIsTold DEF ErrorInv
<1>2. Errors!ToldAsDecided
  BY <1>1 DEF Errors!ToldAsDecided, Verdict, CanBeTold
<1>3. Errors!SurvivesTheHop
  <2>1. SUFFICES ASSUME errorPc = "surfaced", origin # Errors!NoFailure
                 PROVE  \/ failure = origin
                        \/ /\ origin.kind \in {"upstream", "timeout", "unavailable"}
                           /\ failure.retryable
    BY DEF Errors!SurvivesTheHop
  <2>2. CanBeTold(origin) /\ provider = "anthropic" /\ Heard(error, origin)
    BY <2>1 DEF ErrorInv, Known
  <2>3. Errors!Override(error) = Errors!AnthropicOverride(error) /\ error.named \in DOMAIN Errors!Named
    BY <2>2, HeardIs
  <2>4. failure = Errors!AnthropicOverride(error)
    <3>1. Errors!AnthropicOverride(error) # Errors!NoFailure
      BY <2>3, AnthropicIsTold
    <3> QED BY <1>1, <2>1, <2>3, <3>1 DEF Errors!Classified
  <2> QED BY <2>2, <2>4, Hop
<1> QED BY <1>2, <1>3

-----------------------------------------------------------------------------
(* Admin's Apply: AdminConfig *)

\* A server that is up runs on what is stored, but for what is owed; an Apply that holds the
\* locks has prepared what it commits; and a managed file that defines anything defines every key.
Served ==
    server \in {"up", "committing"} =>
        /\ "current" \notin owed => current = Admin!Effective
        /\ "captured" \notin owed => \A k \in RestartFields : captured[k] = Admin!Effective[k]

Prepared ==
    server = "committing" =>
        /\ DOMAIN apply.updates \subseteq Fields
        /\ apply.target = Admin!Target(apply.updates) /\ apply.pending = Admin!PendingOf(apply.updates)

AdminInv ==
    /\ server \in {"down", "up", "committing", "restarting"}
    /\ managed = [file |-> managed.file, temp |-> managed.temp]
    /\ DOMAIN managed.file \in {{}, Fields}
    /\ Served /\ Prepared

\* load_value_state, key by key
LEMMA EffectiveIs ==
    Admin!Effective = [k \in Fields |->
                    IF k \in DOMAIN locked THEN locked[k]
                    ELSE IF k \in DOMAIN managed.file THEN managed.file[k]
                    ELSE IF k \in DOMAIN repo THEN repo[k] ELSE TemplateValue]
BY DEF Admin!Effective, Admin!Or, Admin!Only, Admin!Template

\* What a target has of each key: the update, or what is effective.
LEMMA TargetIs ==
    ASSUME NEW updates, DOMAIN updates \subseteq Fields, DOMAIN managed.file \in {{}, Fields}
    PROVE  /\ DOMAIN Admin!Target(updates) = Fields
           /\ \A k \in Admin!Unmasked(updates) : Admin!Target(updates)[k] = updates[k]
           /\ \A k \in Fields \ Admin!Unmasked(updates) :
                 ~Admin!IsLocked(k) => Admin!Target(updates)[k] = Admin!Effective[k]
<1> DEFINE base == Admin!Or(Admin!Seed, Admin!Template)
<1>1. DOMAIN Admin!Seed \subseteq Fields /\ DOMAIN Admin!Template = Fields
  BY DEF Admin!Seed, Admin!Only, Admin!Template
<1>2. DOMAIN base = Fields /\ \A k \in DOMAIN Admin!Seed : base[k] = Admin!Seed[k]
  BY <1>1 DEF Admin!Or
<1>3. \A k \in Fields : ~Admin!IsLocked(k) => k \in DOMAIN Admin!Seed /\ Admin!Seed[k] = Admin!Effective[k]
  <2>1. CASE DOMAIN managed.file = {}
    BY <2>1 DEF Admin!Seed
  <2>2. CASE DOMAIN managed.file # {}
    <3>1. DOMAIN managed.file = Fields
      BY <2>2
    <3>2. Admin!Seed = [k \in Fields |-> managed.file[k]]
      BY <2>2, <3>1 DEF Admin!Seed, Admin!Only
    <3> QED BY <3>1, <3>2, EffectiveIs DEF Admin!IsLocked
  <2> QED BY <2>1, <2>2
<1> HIDE DEF base
<1>4. Admin!Target(updates) = Admin!Or([k \in Admin!Unmasked(updates) |-> updates[k]], base)
  BY DEF Admin!Target, base
<1>5. Admin!Unmasked(updates) \subseteq Fields
  BY DEF Admin!Unmasked
<1>6. Admin!Target(updates) = [k \in Fields |-> IF k \in Admin!Unmasked(updates) THEN updates[k] ELSE base[k]]
  BY <1>2, <1>4, <1>5 DEF Admin!Or
<1> QED BY <1>2, <1>3, <1>5, <1>6

\* A commit: what is effective then is what was validated, and differs from what was effective
\* before only in the fields that were to be changed.
LEMMA CommitIs ==
    ASSUME AdminInv, server = "committing", Admin!Replaced, UNCHANGED <<repo, locked>>
    PROVE  /\ Admin!Effective' = Admin!Prospective(apply.target)
           /\ \A k \in Fields :
                  \/ k \in Admin!Unmasked(apply.updates) /\ Admin!Effective'[k] = apply.updates[k]
                  \/ k \notin Admin!Unmasked(apply.updates) /\ Admin!Effective'[k] = Admin!Effective[k]
           /\ DOMAIN managed'.file = Fields
           /\ managed' = [file |-> managed'.file, temp |-> managed'.temp]
<1> DEFINE u == apply.updates
<1>1. /\ DOMAIN u \subseteq Fields /\ DOMAIN managed.file \in {{}, Fields}
      /\ apply.target = Admin!Target(u)
  BY DEF AdminInv, Prepared
<1>2. managed' = [file |-> Admin!Target(u), temp |-> Admin!NoFile]
  BY <1>1 DEF Admin!Replaced
<1> HIDE DEF u
<1>3. /\ DOMAIN Admin!Target(u) = Fields
      /\ \A k \in Admin!Unmasked(u) : Admin!Target(u)[k] = u[k]
      /\ \A k \in Fields \ Admin!Unmasked(u) : ~Admin!IsLocked(k) => Admin!Target(u)[k] = Admin!Effective[k]
  BY <1>1, TargetIs
<1> DEFINE T == Admin!Target(u)
<1>4. managed'.file = T /\ managed'.temp = Admin!NoFile
  BY <1>2
<1>5. DOMAIN T = Fields
  BY <1>3
<1>6. Admin!Effective' = [k \in Fields |->
                       IF k \in DOMAIN locked' THEN locked'[k]
                       ELSE IF k \in DOMAIN managed'.file THEN managed'.file[k]
                       ELSE IF k \in DOMAIN repo' THEN repo'[k] ELSE TemplateValue]
  BY DEF Admin!Effective, Admin!Or, Admin!Only, Admin!Template
<1> HIDE DEF T
<1>7. Admin!Effective' = [k \in Fields |-> IF k \in DOMAIN locked THEN locked[k] ELSE T[k]]
  BY <1>4, <1>5, <1>6
<1>8. Admin!Effective' = Admin!Prospective(T)
  BY <1>5, <1>7 DEF Admin!Prospective, Admin!Or, Admin!Only
<1>9. ASSUME NEW k \in Fields
      PROVE  \/ k \in Admin!Unmasked(u) /\ Admin!Effective'[k] = u[k]
             \/ k \notin Admin!Unmasked(u) /\ Admin!Effective'[k] = Admin!Effective[k]
  <2>1. CASE k \in DOMAIN locked
    <3>1. k \notin Admin!Unmasked(u)
      BY <2>1 DEF Admin!Unmasked, Admin!IsLocked
    <3> QED BY <1>7, <2>1, <3>1, EffectiveIs
  <2>2. CASE k \notin DOMAIN locked
    <3>1. Admin!Effective'[k] = T[k]
      BY <1>7, <2>2
    <3> QED BY <1>3, <2>2, <3>1 DEF T, Admin!IsLocked
  <2> QED BY <2>1, <2>2
<1> QED BY <1>1, <1>2, <1>4, <1>5, <1>8, <1>9 DEF T, u

LEMMA AdminInit ==
    ASSUME Admin!Init
    PROVE  AdminInv
BY DEF Admin!Init, AdminInv, Served, Prepared, Admin!NoFile

\* What is effective changes only with the three sources of values.
LEMMA EffectiveStays ==
    ASSUME UNCHANGED <<repo, locked>>, managed'.file = managed.file
    PROVE  /\ Admin!Effective' = Admin!Effective
           /\ \A updates : Admin!Target(updates)' = Admin!Target(updates) /\ Admin!PendingOf(updates)' = Admin!PendingOf(updates)
<1>1. Admin!Effective' = Admin!Effective
  BY DEF Admin!Effective
<1>2. ASSUME NEW updates PROVE Admin!Unmasked(updates)' = Admin!Unmasked(updates)
  BY DEF Admin!Unmasked, Admin!IsLocked
<1>3. Admin!Seed' = Admin!Seed
  BY <1>1 DEF Admin!Seed, Admin!IsLocked
<1> QED BY <1>1, <1>2, <1>3 DEF Admin!Target, Admin!PendingOf

LEMMA AdminNext ==
    ASSUME AdminInv, [Admin!Next]_Admin!vars, Admin!AdminAssumption
    PROVE  AdminInv'
<1>1. ASSUME Admin!Boot PROVE AdminInv'
  <2>1. managed' = [managed EXCEPT !.file = Admin!Migrated(@)]
    BY <1>1 DEF Admin!Boot
  <2>2. Admin!Migrated(managed.file) = managed.file
    BY DEF AdminInv, Admin!AdminAssumption, Admin!Migrated
  <2>3. managed' = managed
    BY <2>1, <2>2 DEF AdminInv
  <2>4. server' = "up" /\ captured' = Admin!Effective' /\ current' = Admin!Effective'
    BY <1>1 DEF Admin!Boot
  <2>5. Served' /\ Prepared'
    BY <2>4 DEF Served, Prepared
  <2> QED BY <2>3, <2>4, <2>5 DEF AdminInv
<1>2. ASSUME Admin!Crash PROVE AdminInv'
  BY <1>2 DEF Admin!Crash, AdminInv, Served, Prepared
<1>3. ASSUME Admin!Edit PROVE AdminInv'
  <2>1. server' = "down" /\ managed' = managed
    BY <1>3 DEF Admin!Edit
  <2> QED BY <2>1 DEF AdminInv, Served, Prepared
<1>4. ASSUME UNCHANGED <<repo, managed, locked, captured, current, owed>>,
             \/ UNCHANGED <<server, apply>>
             \/ /\ server = "up" /\ server' = "committing"
                /\ \E updates : /\ DOMAIN updates \subseteq Fields
                                /\ apply' = [updates |-> updates, target |-> Admin!Target(updates),
                                             pending |-> Admin!PendingOf(updates)]
      PROVE  AdminInv'
  <2>1. /\ Admin!Effective' = Admin!Effective
        /\ \A updates : Admin!Target(updates)' = Admin!Target(updates) /\ Admin!PendingOf(updates)' = Admin!PendingOf(updates)
    BY <1>4, EffectiveStays
  <2>2. Served'
    BY <1>4, <2>1 DEF AdminInv, Served
  <2>3. Prepared'
    <3>1. CASE UNCHANGED <<server, apply>>
      BY <2>1, <3>1 DEF AdminInv, Prepared
    <3>2. CASE server' = "committing" /\
               \E updates : /\ DOMAIN updates \subseteq Fields
                            /\ apply' = [updates |-> updates, target |-> Admin!Target(updates),
                                         pending |-> Admin!PendingOf(updates)]
      BY <2>1, <3>2 DEF Prepared
    <3> QED BY <1>4, <3>1, <3>2
  <2> QED BY <1>4, <2>2, <2>3 DEF AdminInv
<1>5. ASSUME Admin!BeginApply PROVE AdminInv'
  <2>1. UNCHANGED <<repo, managed, locked, captured, current, owed>> /\ server = "up"
    BY <1>5 DEF Admin!BeginApply
  <2>2. PICK K \in SUBSET Fields : \E updates \in [K -> FieldValues \union {BadValue, MaskValue}] :
           IF Admin!Valid(Admin!Target(updates))
           THEN /\ server' = "committing"
                /\ apply' = [updates |-> updates, target |-> Admin!Target(updates),
                             pending |-> Admin!PendingOf(updates)]
           ELSE UNCHANGED <<server, apply>>
    BY <1>5 DEF Admin!BeginApply
  <2>3. PICK updates \in [K -> FieldValues \union {BadValue, MaskValue}] :
           IF Admin!Valid(Admin!Target(updates))
           THEN /\ server' = "committing"
                /\ apply' = [updates |-> updates, target |-> Admin!Target(updates),
                             pending |-> Admin!PendingOf(updates)]
           ELSE UNCHANGED <<server, apply>>
    BY <2>2
  <2>4. DOMAIN updates \subseteq Fields
    BY <2>2, <2>3
  <2> QED BY <1>4, <2>1, <2>3, <2>4
<1>6. ASSUME managed' = [managed EXCEPT !.temp = managed'.temp],
             UNCHANGED <<repo, locked, captured, current, owed>>,
             \/ UNCHANGED <<server, apply>>
             \/ server' = "up" /\ server = "committing"
      PROVE  AdminInv'
  <2>1. managed'.file = managed.file /\ managed' = [file |-> managed'.file, temp |-> managed'.temp]
    BY <1>6 DEF AdminInv
  <2>2. /\ Admin!Effective' = Admin!Effective
        /\ \A updates : Admin!Target(updates)' = Admin!Target(updates) /\ Admin!PendingOf(updates)' = Admin!PendingOf(updates)
    BY <1>6, <2>1, EffectiveStays
  <2>3. Served'
    BY <1>6, <2>2 DEF AdminInv, Served
  <2>4. Prepared'
    BY <1>6, <2>2 DEF AdminInv, Prepared
  <2> QED BY <1>6, <2>1, <2>3, <2>4 DEF AdminInv
<1>7. ASSUME Admin!WriteTemp PROVE AdminInv'
  <2>1. managed' = [managed EXCEPT !.temp = managed'.temp]
    BY <1>7 DEF Admin!WriteTemp, AdminInv
  <2> QED BY <1>6, <1>7, <2>1 DEF Admin!WriteTemp
<1>8. ASSUME Admin!ApplyFails PROVE AdminInv'
  <2>1. managed' = [managed EXCEPT !.temp = managed'.temp]
    BY <1>8 DEF Admin!ApplyFails, AdminInv
  <2> QED BY <1>6, <1>8, <2>1 DEF Admin!ApplyFails
<1>9. ASSUME Admin!CommitPending PROVE AdminInv'
  <2>1. /\ server = "committing" /\ Admin!Replaced /\ UNCHANGED <<repo, locked>>
        /\ server' \in {"restarting", "up"} /\ owed' = {"captured", "current"}
    BY <1>9 DEF Admin!CommitPending
  <2>2. DOMAIN managed'.file = Fields /\ managed' = [file |-> managed'.file, temp |-> managed'.temp]
    BY <2>1, CommitIs
  <2>3. Served' /\ Prepared'
    BY <2>1 DEF Served, Prepared
  <2> QED BY <2>1, <2>2, <2>3 DEF AdminInv
<1>10. ASSUME Admin!Publish PROVE AdminInv'
  <2>1. /\ server = "committing" /\ Admin!Replaced /\ UNCHANGED <<repo, locked, captured>>
        /\ server' = "up" /\ current' = Admin!Prospective(apply.target)
        /\ owed' = owed \ {"current"} /\ apply.pending = {}
    BY <1>10 DEF Admin!Publish
  <2>2. /\ Admin!Effective' = Admin!Prospective(apply.target)
        /\ \A k \in Fields :
               \/ k \in Admin!Unmasked(apply.updates) /\ Admin!Effective'[k] = apply.updates[k]
               \/ k \notin Admin!Unmasked(apply.updates) /\ Admin!Effective'[k] = Admin!Effective[k]
        /\ DOMAIN managed'.file = Fields /\ managed' = [file |-> managed'.file, temp |-> managed'.temp]
    BY <2>1, CommitIs
  <2>3. ASSUME NEW k \in RestartFields PROVE Admin!Effective'[k] = Admin!Effective[k]
    <3>1. k \in Fields /\ Admin!PendingOf(apply.updates) = {}
      BY <2>1 DEF Admin!AdminAssumption, AdminInv, Prepared
    <3>2. k \in Admin!Unmasked(apply.updates) => apply.updates[k] = Admin!Effective[k]
      BY <3>1 DEF Admin!PendingOf
    <3> QED BY <2>2, <3>1, <3>2
  <2>4. Served'
    BY <2>1, <2>2, <2>3 DEF AdminInv, Served
  <2>5. Prepared'
    BY <2>1 DEF Prepared
  <2> QED BY <2>1, <2>2, <2>4, <2>5 DEF AdminInv
<1>11. ASSUME UNCHANGED Admin!vars PROVE AdminInv'
  BY <1>4, <1>11 DEF Admin!vars
<1> QED BY <1>1, <1>2, <1>3, <1>5, <1>7, <1>8, <1>9, <1>10, <1>11 DEF Admin!Next

\* application.py, persistence.py: what is stored is what is served.
LEMMA StoredAndServed ==
    ASSUME AdminInv
    PROVE  Admin!StoredIsServed /\ Admin!CapturedIsStored
BY DEF AdminInv, Served, Admin!StoredIsServed, Admin!CapturedIsStored

\* persistence.py: a step that changes the managed file while an Apply holds the locks changes
\* what it was asked to.
CommitStep ==
    managed'.file # managed.file /\ server = "committing" =>
        \A k \in Fields :
           \/ k \in Admin!Unmasked(apply.updates) /\ Admin!Effective'[k] = apply.updates[k]
           \/ k \notin Admin!Unmasked(apply.updates) /\ Admin!Effective'[k] = Admin!Effective[k]
           \/ DOMAIN managed.file # {} /\ k \notin DOMAIN managed.file

LEMMA CommitsAreExact ==
    ASSUME AdminInv, [Admin!Next]_Admin!vars
    PROVE  [CommitStep]_Admin!vars
<1> SUFFICES ASSUME Admin!Next, managed'.file # managed.file, server = "committing"
             PROVE  CommitStep
  BY DEF CommitStep
<1>1. managed'.file # managed.file => ~Admin!WriteTemp /\ ~Admin!ApplyFails
  BY DEF AdminInv, Admin!WriteTemp, Admin!ApplyFails
<1>2. Admin!Replaced /\ UNCHANGED <<repo, locked>>
  BY <1>1 DEF Admin!Next, Admin!Boot, Admin!Crash, Admin!Edit, Admin!BeginApply, Admin!CommitPending, Admin!Publish
<1> QED BY <1>2, CommitIs DEF CommitStep

-----------------------------------------------------------------------------
(* The models on offer: ModelCatalog *)

\* The refresh that is under way is of the current generation; what was cached and what a
\* test has found are models; and what a client picked names a provider and a model.
RefreshIsCurrent ==
    /\ refresh = [phase |-> refresh.phase, gen |-> refresh.gen, all |-> refresh.all,
                  explicit |-> refresh.explicit, wanted |-> refresh.wanted]
    /\ refresh.phase # "idle" => refresh.gen = generation

OnlyInfos(c) == \A p \in DOMAIN c : c[p].infos \subseteq Catalog!Info

Offered(entry) == \E prefix \in {Catalog!Gateway, Catalog!NoThinking}, ref \in Catalog!Refs : entry = Catalog!Entry(prefix, ref)

CatalogInv ==
    /\ boot \in {"validating", "serving", "closed"}
    /\ settings \in Catalog!Settings /\ generation \in 1 .. MaxReplacements
    /\ scope = settings.configured /\ DOMAIN catalog \subseteq scope
    /\ boot # "serving" => refresh = Catalog!Idle
    /\ RefreshIsCurrent
    /\ OnlyInfos(catalog) /\ test.infos \subseteq Catalog!Info
    /\ test = [provider |-> test.provider, gen |-> test.gen, infos |-> test.infos]
    /\ picked = Catalog!NoEntry \/ Offered(picked)
    /\ Catalog!PickedIsRouted

\* A reference is never empty, and parts into its provider and its model.
LEMMA RefIs ==
    ASSUME NEW ref \in Catalog!Refs, Catalog!CatalogAssumption
    PROVE  /\ Catalog!Known(ref) /\ ref # <<>> /\ <<Head(ref)>> \o Tail(ref) = ref
           /\ \A prefix : Head(<<prefix>> \o ref) = prefix /\ Tail(<<prefix>> \o ref) = ref
<1>1. PICK p \in Providers, m \in Models : ref = Catalog!Ref(p, m)
  BY DEF Catalog!Refs
<1>2. m \in Seq(STRING) /\ m # <<>>
  BY DEF Catalog!CatalogAssumption
<1>3. /\ ref = <<p>> \o m /\ Head(ref) = p /\ Tail(ref) = m
      /\ Len(ref) >= 2 /\ ref # <<>>
  BY <1>1, <1>2 DEF Catalog!Ref
<1>4. ASSUME NEW prefix PROVE Head(<<prefix>> \o ref) = prefix /\ Tail(<<prefix>> \o ref) = ref
  <2>1. ref \in Seq(STRING \cup {p})
    BY <1>2, <1>3
  <2> QED BY <1>3, <2>1
<1> QED BY <1>3, <1>4 DEF Catalog!Known

LEMMA CachedIs ==
    ASSUME NEW answers, NEW gen, NEW by, OnlyInfos(catalog),
           \A p \in DOMAIN answers : answers[p] \subseteq Catalog!Info
    PROVE  LET c == Catalog!Cached(catalog, answers, gen, by)
           IN  /\ DOMAIN c = DOMAIN catalog \union (DOMAIN answers \intersect scope)
               /\ OnlyInfos(c)
               /\ \A p \in DOMAIN c : \/ c[p].gen = gen /\ c[p].by = by
                                      \/ p \in DOMAIN catalog /\ c[p] = catalog[p]
<1> DEFINE c == Catalog!Cached(catalog, answers, gen, by)
<1>1. c = [p \in DOMAIN catalog \union (DOMAIN answers \intersect scope) |->
              IF p \in DOMAIN answers THEN [infos |-> answers[p], gen |-> gen, by |-> by] ELSE catalog[p]]
  BY DEF Catalog!Cached
<1>2. DOMAIN c = DOMAIN catalog \union (DOMAIN answers \intersect scope)
  BY <1>1
<1>3. ASSUME NEW p \in DOMAIN c
      PROVE  \/ /\ p \in DOMAIN answers /\ c[p].infos = answers[p] /\ c[p].gen = gen /\ c[p].by = by
             \/ p \in DOMAIN catalog /\ c[p] = catalog[p]
  BY <1>1
<1> HIDE DEF c
<1>4. OnlyInfos(c)
  BY <1>3 DEF OnlyInfos
<1> QED BY <1>2, <1>3, <1>4 DEF c

LEMMA AnswersAre ==
    ASSUME NEW asked, NEW answers \in Catalog!Answers(asked)
    PROVE  \A p \in DOMAIN answers : answers[p] \subseteq Catalog!Info
<1>1. PICK answering \in SUBSET asked : answers \in [answering -> {{i} : i \in Catalog!Info}]
  BY DEF Catalog!Answers
<1>2. ASSUME NEW p \in DOMAIN answers PROVE answers[p] \subseteq Catalog!Info
  <2>1. answers[p] \in {{i} : i \in Catalog!Info}
    BY <1>1, <1>2
  <2> QED BY <2>1
<1> QED BY <1>2

\* discovery.py: what a step may do to the catalog.
RefreshStep ==
    \A p \in DOMAIN catalog' :
       LET written == catalog'[p] # (IF p \in DOMAIN catalog THEN catalog[p] ELSE <<>>)
       IN  written /\ catalog'[p].by = "refresh" => catalog'[p].gen = generation

RetainStep ==
    \A p \in DOMAIN catalog :
       p \in DOMAIN catalog' \/ p \notin settings'.configured \/ boot' = "closed"

LEMMA CachingKeeps ==
    ASSUME CatalogInv, UNCHANGED <<settings, generation, scope>>,
           NEW answers, NEW gen, NEW by, by = "refresh" => gen = generation,
           \A p \in DOMAIN answers : answers[p] \subseteq Catalog!Info,
           catalog' = Catalog!Cached(catalog, answers, gen, by)
    PROVE  (DOMAIN catalog \subseteq scope)' /\ OnlyInfos(catalog)' /\ RefreshStep /\ RetainStep
<1>1. /\ DOMAIN catalog' = DOMAIN catalog \union (DOMAIN answers \intersect scope)
      /\ OnlyInfos(catalog')
      /\ \A p \in DOMAIN catalog' : \/ catalog'[p].gen = gen /\ catalog'[p].by = by
                                    \/ p \in DOMAIN catalog /\ catalog'[p] = catalog[p]
  BY CachedIs DEF CatalogInv
<1>2. DOMAIN catalog \subseteq scope
  BY DEF CatalogInv
<1> QED BY <1>1, <1>2 DEF RefreshStep, RetainStep

\* What a step that leaves the catalog, or the settings, alone keeps.
LEMMA CatalogStays ==
    ASSUME UNCHANGED catalog
    PROVE  RefreshStep /\ RetainStep /\ (OnlyInfos(catalog)' <=> OnlyInfos(catalog))
BY DEF RefreshStep, RetainStep, OnlyInfos

LEMMA CatalogInit ==
    ASSUME Catalog!Init, Catalog!CatalogAssumption
    PROVE  CatalogInv
<1>1. settings \in Catalog!Settings /\ 1 \in 1 .. MaxReplacements
  BY DEF Catalog!Init, Catalog!CatalogAssumption
<1>2. DOMAIN catalog = {}
  BY DEF Catalog!Init
<1>3. RefreshIsCurrent /\ refresh = Catalog!Idle
  BY DEF Catalog!Init, RefreshIsCurrent, Catalog!Idle
<1>4. Catalog!PickedIsRouted
  BY DEF Catalog!Init, Catalog!PickedIsRouted, Catalog!NoRoute, Catalog!NoEntry, Catalog!Unset
<1>5. /\ test.infos \subseteq Catalog!Info
      /\ test = [provider |-> test.provider, gen |-> test.gen, infos |-> test.infos]
  BY DEF Catalog!Init, Catalog!NoTest
<1> QED BY <1>1, <1>2, <1>3, <1>4, <1>5 DEF Catalog!Init, CatalogInv, OnlyInfos

\* The list offers references.
LEMMA ListedAreOffered ==
    ASSUME CatalogInv, NEW entry \in Catalog!ModelsList
    PROVE  Offered(entry)
<1>1. Catalog!ConfiguredRefs(settings) \subseteq Catalog!Refs
  BY DEF CatalogInv, Catalog!Settings, Catalog!ConfiguredRefs
<1>2. Catalog!DiscoveredRefs \subseteq Catalog!Refs
  <2>1. SUFFICES ASSUME NEW p \in DOMAIN catalog, NEW i \in catalog[p].infos
                 PROVE  Catalog!Ref(p, i.model) \in Catalog!Refs
    BY DEF Catalog!DiscoveredRefs
  <2>2. p \in Providers
    BY DEF CatalogInv, Catalog!Settings
  <2>3. i.model \in Models
    BY DEF CatalogInv, OnlyInfos, Catalog!Info
  <2> QED BY <2>2, <2>3 DEF Catalog!Refs
<1>3. PICK ref \in Catalog!ConfiguredRefs(settings) \union Catalog!DiscoveredRefs :
         entry = Catalog!Entry(Catalog!NoThinking, ref) \/ entry = Catalog!Entry(Catalog!Gateway, ref)
  BY DEF Catalog!ModelsList
<1> QED BY <1>1, <1>2, <1>3 DEF Offered

\* routing.py: an entry of the list leads to its own provider and model.
LEMMA OfferedIsRouted ==
    ASSUME NEW entry, Offered(entry), Catalog!CatalogAssumption
    PROVE  /\ <<Catalog!Resolve(entry.id).provider>> \o Catalog!Resolve(entry.id).model = entry.ref
           /\ entry.silent => Catalog!Resolve(entry.id).preference = "off"
<1>1. PICK prefix \in {Catalog!Gateway, Catalog!NoThinking}, ref \in Catalog!Refs : entry = Catalog!Entry(prefix, ref)
  BY DEF Offered
<1>2. entry.id = <<prefix>> \o ref /\ entry.ref = ref /\ (entry.silent <=> prefix = Catalog!NoThinking)
  BY <1>1 DEF Catalog!Entry
<1>3. /\ Catalog!Known(ref) /\ ref # <<>> /\ <<Head(ref)>> \o Tail(ref) = ref
      /\ Head(entry.id) = prefix /\ Tail(entry.id) = ref
  BY <1>2, RefIs
<1>4. Catalog!Direct(entry.id) = [ref |-> ref, silent |-> prefix = Catalog!NoThinking]
  BY <1>3 DEF Catalog!Direct
<1>5. Catalog!Direct(entry.id) # Catalog!NotDirect /\ Catalog!Direct(entry.id).ref = ref
      /\ (Catalog!Direct(entry.id).silent <=> prefix = Catalog!NoThinking)
  <2>1. [ref |-> ref, silent |-> prefix = Catalog!NoThinking].ref = ref
    OBVIOUS
  <2>2. [ref |-> ref, silent |-> prefix = Catalog!NoThinking].silent <=> prefix = Catalog!NoThinking
    OBVIOUS
  <2>3. Catalog!NotDirect.ref = <<>>
    BY DEF Catalog!NotDirect, Catalog!Unset
  <2> QED BY <1>3, <1>4, <2>1, <2>2, <2>3
<1>6. /\ Catalog!Resolve(entry.id).provider = Head(ref) /\ Catalog!Resolve(entry.id).model = Tail(ref)
      /\ Catalog!Direct(entry.id).silent => Catalog!Resolve(entry.id).preference = "off"
  BY <1>5 DEF Catalog!Resolve
<1> QED BY <1>2, <1>3, <1>5, <1>6

LEMMA CatalogNext ==
    ASSUME CatalogInv, [Catalog!Next]_Catalog!vars, Catalog!CatalogAssumption
    PROVE  CatalogInv' /\ RefreshStep /\ RetainStep
<1> USE DEF Catalog!Idle
<1>1. ASSUME Catalog!Start PROVE CatalogInv' /\ RefreshStep /\ RetainStep
  <2>1. UNCHANGED <<settings, generation, scope, test, picked, routed>> /\ boot' = "serving"
    BY <1>1 DEF Catalog!Start
  <2>2. PICK answers \in Catalog!Answers(Catalog!ReferencedProviders(settings) \intersect settings.configured) :
           catalog' = Catalog!Cached(catalog, answers, generation, "validation")
    BY <1>1 DEF Catalog!Start
  <2>3. (DOMAIN catalog \subseteq scope)' /\ OnlyInfos(catalog)' /\ RefreshStep /\ RetainStep
    BY <2>1, <2>2, AnswersAre, CachingKeeps
  <2>4. RefreshIsCurrent'
    BY <1>1 DEF Catalog!Start, RefreshIsCurrent
  <2> QED BY <2>1, <2>3, <2>4 DEF CatalogInv, Catalog!PickedIsRouted
<1>2. ASSUME Catalog!Ask PROVE CatalogInv' /\ RefreshStep /\ RetainStep
  <2>1. UNCHANGED <<boot, settings, generation, scope, catalog, test, picked, routed>>
        /\ refresh.phase = "scheduled"
    BY <1>2 DEF Catalog!Ask
  <2>2. \E asked : refresh' = [refresh EXCEPT !.phase = "asking", !.wanted = asked]
    BY <1>2 DEF Catalog!Ask
  <2>3. RefreshIsCurrent'
    BY <2>1, <2>2 DEF CatalogInv, RefreshIsCurrent
  <2>4. boot = "serving"
    BY <2>1 DEF CatalogInv
  <2> QED BY <2>1, <2>3, <2>4, CatalogStays DEF CatalogInv, Catalog!PickedIsRouted
<1>3. ASSUME Catalog!Answered PROVE CatalogInv' /\ RefreshStep /\ RetainStep
  <2>1. UNCHANGED <<boot, settings, generation, scope, test, picked, routed>> /\ refresh' = Catalog!Idle
    BY <1>3 DEF Catalog!Answered
  <2>2. PICK answers \in Catalog!Answers(refresh.wanted) :
           catalog' = Catalog!Cached(catalog, answers, refresh.gen, "refresh")
    BY <1>3 DEF Catalog!Answered
  <2>3. refresh.gen = generation
    BY <1>3 DEF Catalog!Answered, CatalogInv, RefreshIsCurrent
  <2>4. (DOMAIN catalog \subseteq scope)' /\ OnlyInfos(catalog)' /\ RefreshStep /\ RetainStep
    BY <2>1, <2>2, <2>3, AnswersAre, CachingKeeps
  <2>5. RefreshIsCurrent'
    BY <2>1 DEF RefreshIsCurrent
  <2> QED BY <2>1, <2>4, <2>5 DEF CatalogInv, Catalog!PickedIsRouted
<1>4. ASSUME Catalog!RefreshModels PROVE CatalogInv' /\ RefreshStep /\ RetainStep
  <2>1. UNCHANGED <<boot, settings, generation, scope, catalog, test, picked, routed>>
        /\ boot = "serving"
    BY <1>4 DEF Catalog!RefreshModels
  <2>2. RefreshIsCurrent'
    BY <1>4 DEF Catalog!RefreshModels, RefreshIsCurrent
  <2> QED BY <2>1, <2>2, CatalogStays DEF CatalogInv, Catalog!PickedIsRouted
<1>5. ASSUME Catalog!Replace PROVE CatalogInv' /\ RefreshStep /\ RetainStep
  <2>1. UNCHANGED <<boot, test, picked, routed>> /\ boot = "serving"
        /\ generation < MaxReplacements /\ generation' = generation + 1
    BY <1>5 DEF Catalog!Replace
  <2>2. settings' \in AllSettings /\ scope' = settings'.configured
        /\ catalog' = Catalog!Restrict(catalog, DOMAIN catalog \intersect settings'.configured)
    BY <1>5 DEF Catalog!Replace, Catalog!Available
  <2>3. /\ DOMAIN catalog' = DOMAIN catalog \intersect settings'.configured
        /\ \A p \in DOMAIN catalog' : catalog'[p] = catalog[p]
    BY <2>2 DEF Catalog!Restrict
  <2>4. settings' \in Catalog!Settings /\ generation' \in 1 .. MaxReplacements
    BY <2>1, <2>2 DEF Catalog!CatalogAssumption, CatalogInv
  <2>5. OnlyInfos(catalog)' /\ RefreshStep /\ RetainStep
    BY <2>3 DEF CatalogInv, OnlyInfos, RefreshStep, RetainStep
  <2>6. RefreshIsCurrent'
    BY <1>5 DEF Catalog!Replace, Catalog!NextRefresh, RefreshIsCurrent
  <2> QED BY <2>1, <2>2, <2>3, <2>4, <2>5, <2>6 DEF CatalogInv, Catalog!PickedIsRouted
<1>6. ASSUME Catalog!ReplaceFails PROVE CatalogInv' /\ RefreshStep /\ RetainStep
  <2>1. UNCHANGED <<boot, settings, generation, scope, catalog, test, picked, routed>>
        /\ refresh' = Catalog!Idle
    BY <1>6 DEF Catalog!ReplaceFails
  <2>2. RefreshIsCurrent'
    BY <2>1 DEF RefreshIsCurrent
  <2> QED BY <2>1, <2>2, CatalogStays DEF CatalogInv, Catalog!PickedIsRouted
<1>7. ASSUME Catalog!Close PROVE CatalogInv' /\ RefreshStep /\ RetainStep
  <2>1. UNCHANGED <<settings, generation, scope, test, picked, routed>>
        /\ boot' = "closed" /\ refresh' = Catalog!Idle /\ catalog' = <<>>
    BY <1>7 DEF Catalog!Close
  <2>2. DOMAIN catalog' = {}
    BY <2>1
  <2>3. RefreshIsCurrent' /\ OnlyInfos(catalog)' /\ RefreshStep /\ RetainStep
    BY <2>1, <2>2 DEF RefreshIsCurrent, OnlyInfos, RefreshStep, RetainStep
  <2> QED BY <2>1, <2>2, <2>3 DEF CatalogInv, Catalog!PickedIsRouted
<1>8. ASSUME UNCHANGED <<boot, settings, generation, scope, catalog, refresh, picked, routed>>,
             test'.infos \subseteq Catalog!Info,
             test' = [provider |-> test'.provider, gen |-> test'.gen, infos |-> test'.infos]
      PROVE  CatalogInv' /\ RefreshStep /\ RetainStep
  BY <1>8, CatalogStays DEF CatalogInv, RefreshIsCurrent, Catalog!PickedIsRouted
<1>9. ASSUME UNCHANGED <<boot, settings, generation, scope, refresh, picked, routed>>,
             NEW found, NEW infos, infos \subseteq Catalog!Info, test'.infos \subseteq Catalog!Info,
             test' = [provider |-> test'.provider, gen |-> test'.gen, infos |-> test'.infos],
             NEW answers, answers = [p \in {found} |-> infos],
             catalog' = Catalog!Cached(catalog, answers, test.gen, "test")
      PROVE  CatalogInv' /\ RefreshStep /\ RetainStep
  <2>1. \A p \in DOMAIN answers : answers[p] \subseteq Catalog!Info
    BY <1>9
  <2>2. (DOMAIN catalog \subseteq scope)' /\ OnlyInfos(catalog)' /\ RefreshStep /\ RetainStep
    BY <1>9, <2>1, CachingKeeps
  <2> QED BY <1>9, <2>2 DEF CatalogInv, RefreshIsCurrent, Catalog!PickedIsRouted
<1>10. ASSUME Catalog!TestProvider PROVE CatalogInv' /\ RefreshStep /\ RetainStep
  <2>1. UNCHANGED <<boot, settings, generation, scope, catalog, refresh, picked, routed>>
    BY <1>10 DEF Catalog!TestProvider
  <2>2. PICK p : test' = [provider |-> p, gen |-> generation, infos |-> {}]
    BY <1>10 DEF Catalog!TestProvider
  <2>3. test'.infos \subseteq Catalog!Info
        /\ test' = [provider |-> test'.provider, gen |-> test'.gen, infos |-> test'.infos]
    BY <2>2
  <2> QED BY <1>8, <2>1, <2>3
<1>11. ASSUME Catalog!TestFails PROVE CatalogInv' /\ RefreshStep /\ RetainStep
  BY <1>8, <1>11 DEF Catalog!TestFails, Catalog!NoTest
<1>12. ASSUME Catalog!Tested PROVE CatalogInv' /\ RefreshStep /\ RetainStep
  <2>1. PICK i \in Catalog!Info :
           IF test.gen = generation
           THEN /\ test' = Catalog!NoTest
                /\ catalog' = Catalog!Cached(catalog, [p \in {test.provider} |-> {i}], test.gen, "test")
           ELSE test' = [test EXCEPT !.infos = {i}] /\ UNCHANGED catalog
    BY <1>12 DEF Catalog!Tested
  <2>2. UNCHANGED <<boot, settings, generation, scope, refresh, picked, routed>>
    BY <1>12 DEF Catalog!Tested
  <2>3. CASE test.gen = generation
    <3>1. test'.infos \subseteq Catalog!Info
          /\ test' = [provider |-> test'.provider, gen |-> test'.gen, infos |-> test'.infos]
      BY <2>1, <2>3 DEF Catalog!NoTest
    <3>2. catalog' = Catalog!Cached(catalog, [p \in {test.provider} |-> {i}], test.gen, "test")
          /\ {i} \subseteq Catalog!Info
      BY <2>1, <2>3
    <3> QED BY <1>9, <2>2, <3>1, <3>2
  <2>4. CASE test.gen # generation
    <3>1. test'.infos \subseteq Catalog!Info
          /\ test' = [provider |-> test'.provider, gen |-> test'.gen, infos |-> test'.infos]
      BY <2>1, <2>4 DEF CatalogInv
    <3> QED BY <1>8, <2>1, <2>2, <2>4, <3>1
  <2> QED BY <2>3, <2>4
<1>13. ASSUME Catalog!TestCached PROVE CatalogInv' /\ RefreshStep /\ RetainStep
  <2>1. UNCHANGED <<boot, settings, generation, scope, refresh, picked, routed>> /\ test' = Catalog!NoTest
        /\ catalog' = Catalog!Cached(catalog, [p \in {test.provider} |-> test.infos], test.gen, "test")
    BY <1>13 DEF Catalog!TestCached
  <2>2. test'.infos \subseteq Catalog!Info /\ test.infos \subseteq Catalog!Info
        /\ test' = [provider |-> test'.provider, gen |-> test'.gen, infos |-> test'.infos]
    BY <2>1 DEF Catalog!NoTest, CatalogInv
  <2> QED BY <1>9, <2>1, <2>2
<1>14. ASSUME Catalog!Pick PROVE CatalogInv' /\ RefreshStep /\ RetainStep
  <2>1. UNCHANGED <<boot, settings, generation, scope, catalog, refresh, test, routed>>
        /\ picked' \in Catalog!ModelsList
    BY <1>14 DEF Catalog!Pick
  <2>2. Offered(picked)'
    BY <2>1, ListedAreOffered DEF Offered
  <2> QED BY <2>1, <2>2, CatalogStays DEF CatalogInv, RefreshIsCurrent, Catalog!PickedIsRouted
<1>15. ASSUME Catalog!Route PROVE CatalogInv' /\ RefreshStep /\ RetainStep
  <2>1. UNCHANGED <<boot, settings, generation, scope, catalog, refresh, test, picked>>
    BY <1>15 DEF Catalog!Route
  <2>2. PICK entry \in {picked} \union {[Catalog!NoEntry EXCEPT !.id = <<n>>] : n \in {"fable", "other"}} :
           /\ entry # Catalog!NoEntry
           /\ routed' = [entry |-> entry, provider |-> Catalog!Resolve(entry.id).provider,
                         model |-> Catalog!Resolve(entry.id).model,
                         preference |-> Catalog!Resolve(entry.id).preference]
    BY <1>15 DEF Catalog!Route
  <2>3. Catalog!PickedIsRouted'
    <3>1. CASE entry = picked
      <4>1. Offered(entry)
        BY <2>2, <3>1 DEF CatalogInv
      <4>2. <<routed'.provider>> \o routed'.model = routed'.entry.ref
        BY <2>2, <4>1, OfferedIsRouted
      <4>3. routed'.entry.silent => routed'.preference = "off"
        BY <2>2, <4>1, OfferedIsRouted
      <4> QED BY <4>2, <4>3 DEF Catalog!PickedIsRouted, Catalog!ResolvePolicy
    <3>2. CASE entry.ref = Catalog!Unset
      BY <2>2, <3>2 DEF Catalog!PickedIsRouted
    <3> QED BY <2>2, <3>1, <3>2 DEF Catalog!NoEntry, Catalog!Unset
  <2> QED BY <2>1, <2>3, CatalogStays DEF CatalogInv, RefreshIsCurrent
<1>16. ASSUME UNCHANGED Catalog!vars PROVE CatalogInv' /\ RefreshStep /\ RetainStep
  BY <1>8, <1>16 DEF Catalog!vars, CatalogInv
<1> QED BY <1>1, <1>2, <1>3, <1>4, <1>5, <1>6, <1>7, <1>10, <1>11, <1>12, <1>13, <1>14, <1>15,
           <1>16 DEF Catalog!Next

\* discovery.py, routing.py, reasoning.py: what the list offers can be served, as it was offered.
LEMMA CatalogIsServed ==
    ASSUME CatalogInv
    PROVE  Catalog!TypeOK /\ Catalog!DiscoveredIsServable /\ Catalog!PickedIsRouted /\ Catalog!PoliciesAreConsistent
<1>1. Catalog!TypeOK /\ Catalog!DiscoveredIsServable /\ Catalog!PickedIsRouted
  BY DEF CatalogInv, Catalog!TypeOK, Catalog!DiscoveredIsServable
<1>2. Catalog!PoliciesAreConsistent
  BY DEF Catalog!PoliciesAreConsistent, Catalog!ResolvePolicy, Catalog!ClientPolicy, Catalog!Policy
<1> QED BY <1>1, <1>2

-----------------------------------------------------------------------------
(* The parts together. *)

\* What is known of each part, whichever of them runs.
ServerInv ==
    /\ WindowInv /\ ResponseInv /\ ErrorInv /\ ApplicationInv /\ LauncherInv
    /\ AdminInv /\ Manager!IInv /\ CatalogInv

LEMMA ServerInit == ASSUME InitServer PROVE ServerInv
<1>1. WindowInv
  BY WindowInit DEF InitServer, InitParts
<1>2. ResponseInv
  BY ResponseInit DEF InitServer, InitParts
<1>3. ErrorInv
  BY ErrorInit DEF InitServer, InitParts
<1>4. ApplicationInv
  BY ApplicationInit DEF InitServer, InitParts
<1>5. LauncherInv
  BY LauncherInit DEF InitServer, InitParts
<1>6. AdminInv
  BY AdminInit DEF InitServer, InitParts
<1>7. Manager!IInv
  BY Manager!InitIInv, PartsAssumption DEF InitServer, InitParts, PartsAssumption
<1>8. CatalogInv
  BY CatalogInit, PartsAssumption DEF InitServer, InitParts, PartsAssumption
<1> QED BY <1>1, <1>2, <1>3, <1>4, <1>5, <1>6, <1>7, <1>8 DEF ServerInv

\* A step is one of the part that runs, and leaves the other parts alone.
LEMMA OnePartSteps ==
    ASSUME [NextServer]_serverVars
    PROVE  /\ [Next]_vars
           /\ [Response!Next]_Response!vars
           /\ [Errors!Next]_Errors!vars
           /\ [Application!Next]_Application!vars
           /\ [Launcher!Next]_Launcher!vars
           /\ [Admin!Next]_Admin!vars
           /\ [Manager!Next]_Manager!vars
           /\ [Catalog!Next]_Catalog!vars
<1>1. /\ UNCHANGED responseVars => UNCHANGED Response!vars
      /\ UNCHANGED errorVars => UNCHANGED Errors!vars
      /\ UNCHANGED applicationVars => UNCHANGED Application!vars
      /\ UNCHANGED launcherVars => UNCHANGED Launcher!vars
      /\ UNCHANGED adminVars => UNCHANGED Admin!vars
      /\ UNCHANGED managerVars => UNCHANGED Manager!vars
      /\ UNCHANGED catalogVars => UNCHANGED Catalog!vars
  BY DEF responseVars, errorVars, applicationVars, launcherVars, adminVars, managerVars,
         catalogVars, Response!vars, Errors!vars, Application!vars, Launcher!vars, Admin!vars,
         Manager!vars, Catalog!vars
<1>2. CASE NextServer
  BY <1>1, <1>2 DEF NextServer
<1>3. CASE UNCHANGED serverVars
  BY <1>1, <1>3 DEF serverVars
<1> QED BY <1>2, <1>3

LEMMA ServerNext == ASSUME ServerInv, [NextServer]_serverVars PROVE ServerInv'
<1>1. WindowInv'
  BY OnePartSteps, WindowNext DEF ServerInv
<1>2. ResponseInv'
  BY OnePartSteps, ResponseNext, PartsAssumption DEF ServerInv, PartsAssumption
<1>3. ErrorInv'
  BY OnePartSteps, ErrorNext DEF ServerInv
<1>4. ApplicationInv'
  BY OnePartSteps, ApplicationNext DEF ServerInv
<1>5. LauncherInv'
  BY OnePartSteps, LauncherNext, PartsAssumption DEF ServerInv, PartsAssumption
<1>6. AdminInv'
  BY OnePartSteps, AdminNext, PartsAssumption DEF ServerInv, PartsAssumption
<1>7. Manager!IInv'
  BY OnePartSteps, Manager!NextIInv, PartsAssumption DEF ServerInv, PartsAssumption
<1>8. CatalogInv'
  BY OnePartSteps, CatalogNext, PartsAssumption DEF ServerInv, PartsAssumption
<1> QED BY <1>1, <1>2, <1>3, <1>4, <1>5, <1>6, <1>7, <1>8 DEF ServerInv

\* The invariant behind the results below.
THEOREM ServerIsSound == SpecServer => []ServerInv
BY ServerInit, ServerNext, PTL DEF SpecServer

\* A new server does not run beside an old one, messaging is up as a whole or not at all; and
\* from `codefa stop` to the next start every background server is dead or told to end, for any
\* number of terminals, at once or one after the other, and of restarts, provided that no server
\* was started beside another, during a stop or with nobody left to write its pid (asgi.py,
\* commands.py serve, background_server.py).
THEOREM ServersStayApart == SpecServer => []ServersDoNotOverlap
<1>1. ServerInv => ServersDoNotOverlap
  BY GraphsAreApart, StopIsComplete DEF ServerInv, ServersDoNotOverlap
<1> QED BY <1>1, ServerIsSound, PTL

\* The client is told of a failure what the retry policy decided, and the same behind another
\* instance of the program; and of a stream it is told how it ended, an error being the last
\* thing it is told (failure_policy.py, core/anthropic/errors.py, response_streams.py).
THEOREM FailuresAreTold == SpecServer => []FailuresAreToldAsDecided
<1>1. ServerInv => FailuresAreToldAsDecided
  BY ErrorsAreTold, ResponsesAreOwned DEF ServerInv, FailuresAreToldAsDecided
<1> QED BY <1>1, ServerIsSound, PTL

\* For any fields, secrets and sources of values: what is stored is what is served unless a
\* restart is owed, through failed candidates, failed writes and crashes, and a commit changes
\* the fields it was asked to change and no other (application.py apply_admin_config,
\* persistence.py).
THEOREM ConfigurationIsServed == SpecServer => StoredIsServed
<1>1. ServerInv => Admin!StoredIsServed /\ Admin!CapturedIsStored
  BY StoredAndServed DEF ServerInv
<1>2. ServerInv /\ [NextServer]_serverVars =>
         [managed'.file # managed.file /\ server = "committing" =>
             \A k \in Fields :
                \/ k \in Admin!Unmasked(apply.updates) /\ Admin!Effective'[k] = apply.updates[k]
                \/ k \notin Admin!Unmasked(apply.updates) /\ Admin!Effective'[k] = Admin!Effective[k]
                \/ DOMAIN managed.file # {} /\ k \notin DOMAIN managed.file]_Admin!vars
  BY OnePartSteps, CommitsAreExact DEF ServerInv, CommitStep
<1> QED BY <1>1, <1>2, ServerIsSound, PTL DEF SpecServer, StoredIsServed, Admin!CommitIsExact

\* A generation is used only while its clients are open, is reachable until it is closed, and
\* is closed once; the shutdown only drains, and after it there is none; the lease of a request
\* outlives its body, and the application's resources the turns that use them, for any number
\* of requests, generations and cancellations (provider_manager.py, response_streams.py,
\* application.py).
THEOREM ResourcesHaveOwners == SpecServer => ResourcesAreOwned
<1>1. ServerInv => /\ Manager!TypeOK /\ Manager!InUseIsOpen /\ Manager!RetiredAreOwned
                   /\ Manager!ClosedOnce /\ Manager!ClosedIsEmpty
  BY Manager!IInvPromises, PartsAssumption
     DEF ServerInv, PartsAssumption, Manager!IInv, Manager!GenerationsAreOwned
<1>2. ServerInv => Response!LeaseOutlivesBody
  BY ResponsesAreOwned DEF ServerInv
<1>3. ServerInv => Application!WorkKeepsItsResources
  BY GraphsAreApart DEF ServerInv
<1>4. ServerInv /\ [NextServer]_serverVars =>
         [closing => /\ latest' = latest
                     /\ \A g \in Manager!Generations : runtimes'[g].leases <= runtimes[g].leases]_Manager!vars
  BY OnePartSteps, Manager!DrainStep, PartsAssumption DEF ServerInv, PartsAssumption
<1> QED BY <1>1, <1>2, <1>3, <1>4, ServerIsSound, PTL
        DEF SpecServer, ResourcesAreOwned, Manager!OnlyDrains

\* For any providers, models and settings: whatever discovery answers, however late, the list
\* offers what the current generation can serve, a failed discovery loses nothing, and a client
\* gets the model it picked with the reasoning its configuration allows (discovery.py,
\* model_cache.py, model_catalog.py, routing.py, reasoning.py).
THEOREM OffersAreServed == SpecServer => OfferedIsServed
<1>1. ServerInv => /\ Catalog!TypeOK /\ Catalog!DiscoveredIsServable
                   /\ Catalog!PickedIsRouted /\ Catalog!PoliciesAreConsistent
  BY CatalogIsServed DEF ServerInv
<1>2. ServerInv /\ [NextServer]_serverVars => RefreshStep /\ RetainStep
  BY OnePartSteps, CatalogNext, PartsAssumption DEF ServerInv, PartsAssumption
<1>3. ServerInv /\ [NextServer]_serverVars =>
         [\A p \in DOMAIN catalog' :
             LET written == catalog'[p] # (IF p \in DOMAIN catalog THEN catalog[p] ELSE <<>>)
             IN  written /\ catalog'[p].by = "refresh" => catalog'[p].gen = generation]_Catalog!vars
  BY <1>2 DEF RefreshStep
<1>4. ServerInv /\ [NextServer]_serverVars =>
         [\A p \in DOMAIN catalog :
             \/ p \in DOMAIN catalog'
             \/ p \notin settings'.configured
             \/ boot' = "closed"]_Catalog!vars
  BY <1>2 DEF RetainStep
<1> QED BY <1>1, <1>3, <1>4, ServerIsSound, PTL
        DEF SpecServer, OfferedIsServed, Catalog!RefreshesAreCurrent, Catalog!FailuresRetainEntries
=============================================================================
