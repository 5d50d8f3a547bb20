--------------------- MODULE ProviderGenerations_proofs ---------------------
(***************************************************************************)
(* A generation is in use only while its clients are open, whatever the    *)
(* number of requests, replacements and shutdowns.  The argument counts:   *)
(* leases is the number of those who hold the generation, and a cleanup is *)
(* started only for a generation that is retired and has no lease, which   *)
(* nobody can lease any more.  That nobody can is what the places of the   *)
(* operations show: the refresh of a generation is cancelled, and has      *)
(* ended, before the generation is retired.                                *)
(***************************************************************************)
EXTENDS ProviderGenerations, FiniteSetTheorems, TLAPS

Holders(g)    == {c \in Clients : lease[c] = g}
Background(g) == IF task[g] = "leased" THEN 1 ELSE 0
Explicit(g)   == IF pc["refresh"] = "refreshing" /\ arg["refresh"] = g THEN 1 ELSE 0

LeasesAreCounted ==
    \A g \in Generations :
        /\ IsFiniteSet(Holders(g))
        /\ gen[g].leases = Cardinality(Holders(g)) + Background(g) + Explicit(g)

\* Every generation before the current one is retired, the current one only by the
\* shutdown, and only a retired generation without leases is cleaned up.
OnlyTheIdleAreCleaned ==
    /\ next = current + 1
    /\ gen[current].retired => closing
    /\ \A g \in Generations :
           /\ g < current => gen[g].retired
           /\ g > current => ~gen[g].retired
           /\ gen[g].closed \/ gen[g].cleanups > 0 => gen[g].retired /\ gen[g].leases = 0

\* Only the current generation may still be waiting for its background refresh, and a
\* generation that is not published has none.
RefreshIsCurrent ==
    /\ refreshTask \in {0, current}
    /\ \A g \in Generations : task[g] = "scheduled" => refreshTask = g
    /\ \A g \in Generations : g > current => task[g] = "none"

\* Where the operations can be, and what each has done by then.
OperationsAreOrdered ==
    /\ pc["replace"] \in {"idle", "cancelling", "preparing", "cleaning", "joining"}
    /\ pc["refresh"] \in {"idle", "cancelling", "refreshing"}
    /\ pc["close"] \in {"idle", "waiting", "cancelling", "draining", "joining", "retrying"}
    /\ pc["refresh"] = "refreshing" => arg["refresh"] # 0
    /\ pc["replace"] \in {"cancelling", "preparing", "cleaning"} => refreshTask = 0
    /\ closing => refreshTask = 0 /\ pc["replace"] = "idle" /\ pc["refresh"] = "idle"
    /\ pc["close"] \in {"cancelling", "draining", "joining", "retrying"} => closing
    /\ pc["close"] \in {"draining", "joining", "retrying"} => gen[current].retired
    /\ closed => /\ closing /\ pc["close"] = "idle"
                 /\ gen[current].retired /\ retired = {} /\ unpublished = 0

IInv == /\ TypeOK /\ RetiredAreOwned /\ ClosedOnce /\ LeasesAreCounted
        /\ OnlyTheIdleAreCleaned /\ RefreshIsCurrent /\ OperationsAreOrdered

-----------------------------------------------------------------------------
(* What the helpers return *)

\* One lease more (provider_manager.py:115).
LEMMA LeasedIs ==
    ASSUME gen \in [Generations -> Generation], NEW g \in Generations
    PROVE  /\ Leased(g) \in [Generations -> Generation]
           /\ \A h \in Generations :
                 /\ Leased(g)[h].leases = gen[h].leases + (IF h = g THEN 1 ELSE 0)
                 /\ Leased(g)[h].retired = gen[h].retired
                 /\ Leased(g)[h].closed = gen[h].closed
                 /\ Leased(g)[h].cleanups = gen[h].cleanups
BY DEF Leased, Generation

\* A cleanup task more, unless the generation is closed, leased or being cleaned
\* (provider_manager.py:337).
LEMMA CloseGenerationIs ==
    ASSUME NEW gs \in [Generations -> Generation], NEW g \in Generations
    PROVE  /\ CloseGeneration(gs, g) \in [Generations -> Generation]
           /\ \A h \in Generations :
                 /\ CloseGeneration(gs, g)[h].leases = gs[h].leases
                 /\ CloseGeneration(gs, g)[h].retired = gs[h].retired
                 /\ CloseGeneration(gs, g)[h].closed = gs[h].closed
                 /\ CloseGeneration(gs, g)[h].cleanups = gs[h].cleanups
                    \/ /\ h = g /\ gs[h].cleanups = 0 /\ gs[h].leases = 0 /\ ~gs[h].closed
                       /\ CloseGeneration(gs, g)[h].cleanups = 1
BY DEF CloseGeneration, Generation

\* One lease less, and a cleanup if it was the last of a retired generation
\* (provider_manager.py:261).
LEMMA ReleasedIs ==
    ASSUME gen \in [Generations -> Generation], NEW g \in Generations, gen[g].leases > 0
    PROVE  /\ Released(g) \in [Generations -> Generation]
           /\ \A h \in Generations :
                 /\ Released(g)[h].leases = gen[h].leases - (IF h = g THEN 1 ELSE 0)
                 /\ Released(g)[h].retired = gen[h].retired
                 /\ Released(g)[h].closed = gen[h].closed
                 /\ Released(g)[h].cleanups = gen[h].cleanups
                    \/ /\ h = g /\ gen[h].cleanups = 0 /\ gen[h].leases = 1
                       /\ ~gen[h].closed /\ gen[h].retired
                       /\ Released(g)[h].cleanups = 1
<1> DEFINE gs == [gen EXCEPT ![g].leases = @ - 1]
<1>1. /\ gs \in [Generations -> Generation]
      /\ \A h \in Generations :
            /\ gs[h].leases = gen[h].leases - (IF h = g THEN 1 ELSE 0)
            /\ gs[h].retired = gen[h].retired /\ gs[h].closed = gen[h].closed
            /\ gs[h].cleanups = gen[h].cleanups
  BY DEF Generation
<1>2. Released(g) = IF gs[g].leases = 0 /\ gs[g].retired /\ ~closing
                    THEN CloseGeneration(gs, g) ELSE gs
  BY DEF Released
<1> HIDE DEF gs
<1>3. gen[g].leases \in Nat
  BY DEF Generation
<1>4. CASE gs[g].leases = 0 /\ gs[g].retired /\ ~closing
  <2>1. /\ CloseGeneration(gs, g) \in [Generations -> Generation]
        /\ \A h \in Generations :
              /\ CloseGeneration(gs, g)[h].leases = gs[h].leases
              /\ CloseGeneration(gs, g)[h].retired = gs[h].retired
              /\ CloseGeneration(gs, g)[h].closed = gs[h].closed
              /\ CloseGeneration(gs, g)[h].cleanups = gs[h].cleanups
                 \/ /\ h = g /\ gs[h].cleanups = 0 /\ gs[h].leases = 0 /\ ~gs[h].closed
                    /\ CloseGeneration(gs, g)[h].cleanups = 1
    BY <1>1, CloseGenerationIs
  <2>2. Released(g) = CloseGeneration(gs, g)
    BY <1>2, <1>4
  <2>3. gen[g].leases = 1 /\ gen[g].retired
    BY <1>1, <1>3, <1>4
  <2> QED BY <1>1, <2>1, <2>2, <2>3
<1>5. CASE ~(gs[g].leases = 0 /\ gs[g].retired /\ ~closing)
  BY <1>1, <1>2, <1>5
<1> QED BY <1>4, <1>5

\* A request takes a lease of g: one holder more.
LEMMA HolderAdded ==
    ASSUME TypeOK, NEW c \in Clients, NEW g \in Generations, lease[c] = 0,
           lease' = [lease EXCEPT ![c] = g],
           NEW h \in Generations, IsFiniteSet(Holders(h))
    PROVE  /\ IsFiniteSet(Holders(h)')
           /\ Cardinality(Holders(h)') = Cardinality(Holders(h)) + (IF h = g THEN 1 ELSE 0)
           /\ Cardinality(Holders(h)) \in Nat
<1>1. g # 0 /\ h # 0
  BY GenerationsAssumption DEF Generations
<1>2. CASE h = g
  <2>1. Holders(h)' = Holders(h) \cup {c} /\ c \notin Holders(h)
    BY <1>1, <1>2 DEF Holders, TypeOK
  <2> QED BY <1>2, <2>1, FS_AddElement, FS_CardinalityType
<1>3. CASE h # g
  <2>1. Holders(h)' = Holders(h)
    BY <1>1, <1>3 DEF Holders, TypeOK
  <2> QED BY <1>3, <2>1, FS_CardinalityType
<1> QED BY <1>2, <1>3

\* A request returns its lease: one holder less.
LEMMA HolderRemoved ==
    ASSUME TypeOK, NEW c \in Clients, lease[c] # 0, lease' = [lease EXCEPT ![c] = 0],
           NEW h \in Generations, IsFiniteSet(Holders(h))
    PROVE  /\ IsFiniteSet(Holders(h)')
           /\ Cardinality(Holders(h)') = Cardinality(Holders(h)) - (IF h = lease[c] THEN 1 ELSE 0)
           /\ Cardinality(Holders(h)) \in Nat /\ Cardinality(Holders(h)') \in Nat
<1>1. h # 0
  BY GenerationsAssumption DEF Generations
<1>2. CASE h = lease[c]
  <2>1. Holders(h)' = Holders(h) \ {c} /\ c \in Holders(h)
    BY <1>1, <1>2 DEF Holders, TypeOK
  <2> QED BY <1>2, <2>1, FS_RemoveElement, FS_CardinalityType
<1>3. CASE h # lease[c]
  <2>1. Holders(h)' = Holders(h)
    BY <1>1, <1>3 DEF Holders, TypeOK
  <2> QED BY <1>3, <2>1, FS_CardinalityType
<1> QED BY <1>2, <1>3

\* Who uses a generation is counted by its leases.
LEMMA UsersHaveLeases ==
    ASSUME IInv, NEW g \in Generations
    PROVE  /\ Uses(g) <=> gen[g].leases > 0
           /\ gen[g].leases \in Nat /\ gen[g].cleanups \in Nat
           /\ gen[g].closed \in BOOLEAN /\ gen[g].retired \in BOOLEAN
<1>1. /\ IsFiniteSet(Holders(g)) /\ Cardinality(Holders(g)) \in Nat
      /\ gen[g].leases = Cardinality(Holders(g)) + Background(g) + Explicit(g)
  BY FS_CardinalityType DEF IInv, LeasesAreCounted
<1>2. Cardinality(Holders(g)) = 0 <=> Holders(g) = {}
  BY <1>1, FS_EmptySet
<1>3. Holders(g) # {} <=> \E c \in Clients : lease[c] = g
  BY DEF Holders
<1>4. gen[g] \in Generation
  BY DEF IInv, TypeOK
<1> QED BY <1>1, <1>2, <1>3, <1>4 DEF Uses, Background, Explicit, Generation

-----------------------------------------------------------------------------
(* Steps that several actions share *)

Owned == RetiredAreOwned /\ ClosedOnce /\ OnlyTheIdleAreCleaned

\* What the generations are stays as it is.
LEMMA SameGenerations ==
    ASSUME IInv, UNCHANGED <<gen, current, next, retired>>, closing => closing'
    PROVE  Owned'
BY DEF IInv, Owned, RetiredAreOwned, ClosedOnce, OnlyTheIdleAreCleaned

\* A lease is taken of a generation that is not closed nor being closed.
LEMMA TakeStep ==
    ASSUME IInv, NEW g \in Generations, gen' = Leased(g),
           ~gen[g].closed, gen[g].cleanups = 0,
           UNCHANGED <<current, next, retired, closing>>
    PROVE  Owned' /\ gen' \in [Generations -> Generation]
<1>1. gen \in [Generations -> Generation]
  BY DEF IInv, TypeOK
<1>2. /\ gen' \in [Generations -> Generation]
      /\ \A h \in Generations :
            /\ gen'[h].leases = gen[h].leases + (IF h = g THEN 1 ELSE 0)
            /\ gen'[h].retired = gen[h].retired
            /\ gen'[h].closed = gen[h].closed
            /\ gen'[h].cleanups = gen[h].cleanups
  BY <1>1, LeasedIs
<1>3. current \in Generations
  BY DEF IInv, TypeOK
<1>4. RetiredAreOwned'
  BY <1>2 DEF IInv, RetiredAreOwned
<1>5. ClosedOnce'
  BY <1>2 DEF IInv, ClosedOnce
<1>6. OnlyTheIdleAreCleaned'
  <2>1. ASSUME NEW h \in Generations, gen'[h].closed \/ gen'[h].cleanups > 0
        PROVE  gen'[h].retired /\ gen'[h].leases = 0
    <3>1. h # g /\ gen[h].retired /\ gen[h].leases = 0
      BY <1>2, <2>1 DEF IInv, OnlyTheIdleAreCleaned
    <3> QED BY <1>2, <3>1
  <2> QED BY <1>2, <1>3, <2>1 DEF IInv, OnlyTheIdleAreCleaned
<1> QED BY <1>2, <1>4, <1>5, <1>6 DEF Owned

\* A lease is returned, and the generation cleaned up if it has to be.
LEMMA ReturnStep ==
    ASSUME IInv, NEW g \in Generations, gen' = Released(g), gen[g].leases > 0,
           UNCHANGED <<current, next, retired, closing>>
    PROVE  Owned' /\ gen' \in [Generations -> Generation]
<1>1. gen \in [Generations -> Generation]
  BY DEF IInv, TypeOK
<1>2. /\ gen' \in [Generations -> Generation]
      /\ \A h \in Generations :
            /\ gen'[h].leases = gen[h].leases - (IF h = g THEN 1 ELSE 0)
            /\ gen'[h].retired = gen[h].retired
            /\ gen'[h].closed = gen[h].closed
            /\ gen'[h].cleanups = gen[h].cleanups
                \/ /\ h = g /\ gen[h].cleanups = 0 /\ gen[h].leases = 1
                   /\ ~gen[h].closed /\ gen[h].retired
                   /\ gen'[h].cleanups = 1
  BY <1>1, ReleasedIs
<1>3. current \in Generations
  BY DEF IInv, TypeOK
<1>4. RetiredAreOwned'
  BY <1>2 DEF IInv, RetiredAreOwned
<1>5. ClosedOnce'
  BY <1>2 DEF IInv, ClosedOnce
<1>6. OnlyTheIdleAreCleaned'
  <2>1. ASSUME NEW h \in Generations, gen'[h].closed \/ gen'[h].cleanups > 0
        PROVE  gen'[h].retired /\ gen'[h].leases = 0
    <3>1. CASE gen'[h].cleanups = gen[h].cleanups
      <4>1. gen[h].retired /\ gen[h].leases = 0
        BY <1>2, <2>1, <3>1 DEF IInv, OnlyTheIdleAreCleaned
      <4> QED BY <1>2, <4>1
    <3>2. CASE gen'[h].cleanups # gen[h].cleanups
      BY <1>2, <3>2
    <3> QED BY <3>1, <3>2
  <2> QED BY <1>2, <1>3, <2>1 DEF IInv, OnlyTheIdleAreCleaned
<1> QED BY <1>2, <1>4, <1>5, <1>6 DEF Owned

\* Nobody takes or returns a lease.
LEMMA SameLeases ==
    ASSUME IInv, lease' = lease,
           \A h \in Generations : /\ gen'[h].leases = gen[h].leases
                                  /\ Background(h)' = Background(h)
                                  /\ Explicit(h)' = Explicit(h)
    PROVE  LeasesAreCounted'
<1>1. \A h \in Generations : Holders(h)' = Holders(h)
  BY DEF Holders
<1> QED BY <1>1 DEF IInv, LeasesAreCounted

-----------------------------------------------------------------------------
(* The actions *)

\* A request takes a lease of the current generation (provider_manager.py:115).
LEMMA AcquireStep == ASSUME IInv, NEW c \in Clients, Acquire(c) PROVE IInv'
<1> DEFINE g == current
<1>1. /\ g \in Generations /\ ~gen[g].closed /\ gen[g].cleanups = 0
      /\ gen[g].cleanups \in Nat /\ gen' = Leased(g)
  BY UsersHaveLeases DEF IInv, TypeOK, OnlyTheIdleAreCleaned, Acquire, Accepting
<1>2. Owned' /\ gen' \in [Generations -> Generation]
  BY <1>1, TakeStep DEF Acquire
<1>3. TypeOK'
  BY <1>1, <1>2, GenerationsAssumption DEF IInv, TypeOK, Acquire, Generations
<1>4. LeasesAreCounted'
  <2> SUFFICES ASSUME NEW h \in Generations
               PROVE  /\ IsFiniteSet(Holders(h)')
                      /\ gen'[h].leases = Cardinality(Holders(h)') + Background(h)' + Explicit(h)'
    BY DEF LeasesAreCounted
  <2>1. /\ IsFiniteSet(Holders(h))
        /\ gen[h].leases = Cardinality(Holders(h)) + Background(h) + Explicit(h)
    BY DEF IInv, LeasesAreCounted
  <2>2. gen'[h].leases = gen[h].leases + (IF h = g THEN 1 ELSE 0)
    BY <1>1, LeasedIs DEF IInv, TypeOK
  <2>3. Background(h)' = Background(h) /\ Explicit(h)' = Explicit(h)
    BY DEF Acquire, Background, Explicit
  <2>4. Background(h) \in Nat /\ Explicit(h) \in Nat
    BY DEF Background, Explicit
  <2>5. /\ IsFiniteSet(Holders(h)')
        /\ Cardinality(Holders(h)') = Cardinality(Holders(h)) + (IF h = g THEN 1 ELSE 0)
        /\ Cardinality(Holders(h)) \in Nat
    BY <1>1, <2>1, HolderAdded DEF IInv, Acquire
  <2> HIDE DEF g
  <2> QED BY <2>1, <2>2, <2>3, <2>4, <2>5
<1>5. RefreshIsCurrent'
  BY DEF IInv, RefreshIsCurrent, Acquire
<1>6. OperationsAreOrdered'
  <2>1. gen'[g].retired = gen[g].retired
    BY <1>1, LeasedIs DEF IInv, TypeOK
  <2> QED BY <2>1 DEF IInv, OperationsAreOrdered, Acquire
<1> QED BY <1>2, <1>3, <1>4, <1>5, <1>6 DEF IInv, Owned

\* A request returns its lease (provider_manager.py:70).
LEMMA ReleaseStep == ASSUME IInv, NEW c \in Clients, Release(c) PROVE IInv'
<1> DEFINE g == lease[c]
<1>1. g \in Generations /\ gen' = Released(g) /\ Uses(g)
  BY GenerationsAssumption DEF IInv, TypeOK, Release, Generations, Uses
<1>2. gen[g].leases > 0
  BY <1>1, UsersHaveLeases
<1>3. Owned' /\ gen' \in [Generations -> Generation]
  BY <1>1, <1>2, ReturnStep DEF Release
<1>4. TypeOK'
  BY <1>3, GenerationsAssumption DEF IInv, TypeOK, Release
<1>5. LeasesAreCounted'
  <2> SUFFICES ASSUME NEW h \in Generations
               PROVE  /\ IsFiniteSet(Holders(h)')
                      /\ gen'[h].leases = Cardinality(Holders(h)') + Background(h)' + Explicit(h)'
    BY DEF LeasesAreCounted
  <2>1. /\ IsFiniteSet(Holders(h))
        /\ gen[h].leases = Cardinality(Holders(h)) + Background(h) + Explicit(h)
    BY DEF IInv, LeasesAreCounted
  <2>2. gen'[h].leases = gen[h].leases - (IF h = g THEN 1 ELSE 0)
    BY <1>1, <1>2, ReleasedIs DEF IInv, TypeOK
  <2>3. Background(h)' = Background(h) /\ Explicit(h)' = Explicit(h)
    BY DEF Release, Background, Explicit
  <2>4. Background(h) \in Nat /\ Explicit(h) \in Nat
    BY DEF Background, Explicit
  <2>5. /\ IsFiniteSet(Holders(h)')
        /\ Cardinality(Holders(h)') = Cardinality(Holders(h)) - (IF h = g THEN 1 ELSE 0)
        /\ Cardinality(Holders(h)) \in Nat
    BY <2>1, HolderRemoved DEF IInv, Release
  <2> HIDE DEF g
  <2> QED BY <2>1, <2>2, <2>3, <2>4, <2>5
<1>6. RefreshIsCurrent'
  BY DEF IInv, RefreshIsCurrent, Release
<1>7. OperationsAreOrdered'
  <2>1. gen'[current].retired = gen[current].retired
    BY <1>1, <1>2, ReleasedIs DEF IInv, TypeOK
  <2> QED BY <2>1 DEF IInv, OperationsAreOrdered, Release
<1> QED BY <1>3, <1>4, <1>5, <1>6, <1>7 DEF IInv, Owned

\* A cleanup task ends: the generation is closed, or stays with the manager
\* (provider_manager.py:356-390).
LEMMA CleanupStep ==
    ASSUME IInv, NEW g \in Generations, CleanupSucceeds(g) \/ CleanupFails(g)
    PROVE  IInv'
<1>1. /\ gen \in [Generations -> Generation] /\ gen[g].cleanups = 1 /\ ~gen[g].closed
      /\ gen[g].retired /\ gen[g].leases = 0
  BY UsersHaveLeases
     DEF IInv, TypeOK, ClosedOnce, OnlyTheIdleAreCleaned, CleanupSucceeds, CleanupFails
<1>2. /\ gen' \in [Generations -> Generation]
      /\ \A h \in Generations :
            /\ gen'[h].leases = gen[h].leases /\ gen'[h].retired = gen[h].retired
            /\ h # g => gen'[h] = gen[h]
      /\ gen'[g].cleanups = 0
  BY <1>1 DEF CleanupSucceeds, CleanupFails, Generation
<1>3. TypeOK'
  BY <1>2, GenerationsAssumption DEF IInv, TypeOK, CleanupSucceeds, CleanupFails
<1>4. RetiredAreOwned'
  <2>1. CASE CleanupSucceeds(g)
    <3>1. gen'[g].closed = TRUE
      BY <1>1, <2>1 DEF CleanupSucceeds, Generation
    <3> QED BY <1>2, <2>1, <3>1 DEF IInv, RetiredAreOwned, CleanupSucceeds
  <2>2. CASE CleanupFails(g)
    <3>1. gen'[g].closed = gen[g].closed
      BY <1>1, <2>2 DEF CleanupFails, Generation
    <3> QED BY <1>2, <2>2, <3>1 DEF IInv, RetiredAreOwned, CleanupFails
  <2> QED BY <2>1, <2>2
<1>5. ClosedOnce'
  BY <1>2 DEF IInv, ClosedOnce
<1>6. LeasesAreCounted'
  BY <1>2, SameLeases DEF Background, Explicit, CleanupSucceeds, CleanupFails
<1>7. OnlyTheIdleAreCleaned'
  <2>1. current \in Generations /\ UNCHANGED <<current, next, closing>>
    BY DEF IInv, TypeOK, CleanupSucceeds, CleanupFails
  <2> QED BY <1>1, <1>2, <2>1 DEF IInv, OnlyTheIdleAreCleaned
<1>8. RefreshIsCurrent'
  BY DEF IInv, RefreshIsCurrent, CleanupSucceeds, CleanupFails
<1>9. OperationsAreOrdered'
  <2>1. current \in Generations
    BY DEF IInv, TypeOK
  <2> QED BY <1>2, <2>1 DEF IInv, OperationsAreOrdered, CleanupSucceeds, CleanupFails
<1> QED BY <1>3, <1>4, <1>5, <1>6, <1>7, <1>8, <1>9 DEF IInv

\* The background refresh of a generation begins (provider_manager.py:271).
LEMMA RefreshEnterStep == ASSUME IInv, NEW g \in Generations, RefreshEnter(g) PROVE IInv'
<1>1. CASE task[g] = "cancelled" \/ gen[g].closed
  <2>1. /\ task' = [task EXCEPT ![g] = "done"]
        /\ UNCHANGED <<gen, current, next, retired, unpublished, refreshTask, lease, pc, arg,
                       closing, closed, failures>>
        /\ task \in [Generations -> Refresh] /\ task[g] # "leased"
    BY <1>1 DEF IInv, TypeOK, RefreshEnter
  <2>2. TypeOK'
    BY <2>1 DEF IInv, TypeOK, Refresh
  <2>3. LeasesAreCounted'
    BY <2>1, SameLeases DEF Background, Explicit
  <2>4. RefreshIsCurrent'
    <3>1. g <= current
      <4>1. g \in Nat /\ current \in Nat
        BY DEF IInv, TypeOK, Generations
      <4>2. task[g] # "none"
        BY DEF RefreshEnter
      <4> QED BY <4>1, <4>2 DEF IInv, RefreshIsCurrent
    <3>2. \A h \in Generations : h # g => task'[h] = task[h]
      BY <2>1
    <3>3. task'[g] = "done"
      BY <2>1
    <3>4. \A h \in Generations : h > current => h # g
      BY <3>1 DEF IInv, TypeOK, Generations
    <3> QED BY <2>1, <3>2, <3>3, <3>4 DEF IInv, RefreshIsCurrent
  <2>5. OperationsAreOrdered'
    BY <2>1 DEF IInv, OperationsAreOrdered
  <2> QED BY <2>1, <2>2, <2>3, <2>4, <2>5, SameGenerations DEF IInv, Owned
<1>2. CASE ~(task[g] = "cancelled" \/ gen[g].closed)
  <2>1. /\ task' = [task EXCEPT ![g] = "leased"] /\ gen' = Leased(g)
        /\ UNCHANGED <<current, next, retired, unpublished, refreshTask, lease, pc, arg,
                       closing, closed, failures>>
        /\ task \in [Generations -> Refresh] /\ task[g] = "scheduled"
    BY <1>2 DEF IInv, TypeOK, RefreshEnter
  <2>2. g = current /\ ~closing
    BY <2>1, GenerationsAssumption
       DEF IInv, RefreshIsCurrent, OperationsAreOrdered, Generations
  <2>3. ~gen[g].closed /\ gen[g].cleanups = 0
    BY <2>2, UsersHaveLeases DEF IInv, OnlyTheIdleAreCleaned
  <2>4. Owned' /\ gen' \in [Generations -> Generation]
    BY <2>1, <2>3, TakeStep
  <2>5. TypeOK'
    BY <2>1, <2>4 DEF IInv, TypeOK, Refresh
  <2>6. LeasesAreCounted'
    <3> SUFFICES ASSUME NEW h \in Generations
                 PROVE  /\ IsFiniteSet(Holders(h)')
                        /\ gen'[h].leases = Cardinality(Holders(h)') + Background(h)' + Explicit(h)'
      BY DEF LeasesAreCounted
    <3>1. /\ IsFiniteSet(Holders(h)) /\ Cardinality(Holders(h)) \in Nat
          /\ gen[h].leases = Cardinality(Holders(h)) + Background(h) + Explicit(h)
      BY FS_CardinalityType DEF IInv, LeasesAreCounted
    <3>2. gen'[h].leases = gen[h].leases + (IF h = g THEN 1 ELSE 0)
      BY <2>1, LeasedIs DEF IInv, TypeOK
    <3>3. /\ Background(h)' = Background(h) + (IF h = g THEN 1 ELSE 0)
          /\ Background(h) \in Nat /\ Explicit(h) \in Nat
      BY <2>1 DEF Background, Explicit
    <3>4. Holders(h)' = Holders(h) /\ Explicit(h)' = Explicit(h)
      BY <2>1 DEF Holders, Explicit
    <3> QED BY <3>1, <3>2, <3>3, <3>4
  <2>7. RefreshIsCurrent'
    BY <2>1 DEF IInv, RefreshIsCurrent
  <2>8. OperationsAreOrdered'
    <3>1. gen'[current].retired = gen[current].retired
      BY <2>1, LeasedIs DEF IInv, TypeOK
    <3> QED BY <2>1, <3>1 DEF IInv, OperationsAreOrdered
  <2> QED BY <2>4, <2>5, <2>6, <2>7, <2>8 DEF IInv, Owned
<1> QED BY <1>1, <1>2

\* The background refresh ends, however (provider_manager.py:282-305).
LEMMA RefreshEndStep == ASSUME IInv, NEW g \in Generations, RefreshEnd(g) PROVE IInv'
<1>1. /\ task' = [task EXCEPT ![g] = "done"] /\ gen' = Released(g)
      /\ UNCHANGED <<current, next, retired, unpublished, refreshTask, lease, pc, arg,
                     closing, closed, failures>>
      /\ task \in [Generations -> Refresh] /\ task[g] = "leased"
  BY DEF IInv, TypeOK, RefreshEnd
<1>2. gen[g].leases > 0
  BY <1>1, UsersHaveLeases DEF Uses
<1>3. Owned' /\ gen' \in [Generations -> Generation]
  BY <1>1, <1>2, ReturnStep
<1>4. TypeOK'
  BY <1>1, <1>3 DEF IInv, TypeOK, Refresh
<1>5. LeasesAreCounted'
  <2> SUFFICES ASSUME NEW h \in Generations
               PROVE  /\ IsFiniteSet(Holders(h)')
                      /\ gen'[h].leases = Cardinality(Holders(h)') + Background(h)' + Explicit(h)'
    BY DEF LeasesAreCounted
  <2>1. /\ IsFiniteSet(Holders(h)) /\ Cardinality(Holders(h)) \in Nat
        /\ gen[h].leases = Cardinality(Holders(h)) + Background(h) + Explicit(h)
    BY FS_CardinalityType DEF IInv, LeasesAreCounted
  <2>2. gen'[h].leases = gen[h].leases - (IF h = g THEN 1 ELSE 0)
    BY <1>1, <1>2, ReleasedIs DEF IInv, TypeOK
  <2>3. /\ Background(h)' = Background(h) - (IF h = g THEN 1 ELSE 0)
        /\ Background(h) \in Nat /\ Explicit(h) \in Nat
    BY <1>1 DEF Background, Explicit
  <2>4. Holders(h)' = Holders(h) /\ Explicit(h)' = Explicit(h)
    BY <1>1 DEF Holders, Explicit
  <2> QED BY <2>1, <2>2, <2>3, <2>4
<1>6. RefreshIsCurrent'
  BY <1>1 DEF IInv, RefreshIsCurrent
<1>7. OperationsAreOrdered'
  <2>1. gen'[current].retired = gen[current].retired
    BY <1>1, <1>2, ReleasedIs DEF IInv, TypeOK
  <2> QED BY <1>1, <2>1 DEF IInv, OperationsAreOrdered
<1> QED BY <1>3, <1>4, <1>5, <1>6, <1>7 DEF IInv, Owned

\* What _cancel_refresh changes (provider_manager.py:307): the current generation is no
\* longer waiting for its refresh.
LEMMA CancelRefreshStep ==
    ASSUME IInv, NEW o \in Operations, CancelRefresh(o), UNCHANGED current
    PROVE  /\ task' \in [Generations -> Refresh] /\ refreshTask' = 0
           /\ arg' \in [Operations -> 0..MaxGeneration]
           /\ \A g \in Generations : task'[g] = "leased" <=> task[g] = "leased"
           /\ RefreshIsCurrent'
<1>1. /\ task \in [Generations -> Refresh] /\ refreshTask \in 0..MaxGeneration
      /\ arg \in [Operations -> 0..MaxGeneration]
  BY DEF IInv, TypeOK
<1> QED BY <1>1, GenerationsAssumption
        DEF IInv, CancelRefresh, RefreshIsCurrent, Refresh, Generations

\* An Apply or an explicit refresh gets the lock (provider_manager.py:167-186).
LEMMA BeginStep == ASSUME IInv, NEW o \in Operations, Begin(o) PROVE IInv'
<1>1. /\ o \in {"replace", "refresh"} /\ pc[o] = "idle" /\ ~closing /\ ~closed
      /\ pc' = [pc EXCEPT ![o] = "cancelling"]
      /\ UNCHANGED <<gen, current, next, retired, unpublished, lease, closing, closed, failures>>
  BY DEF Begin, Operations, Accepting, Goto
<1>2. pc \in [Operations -> Place] /\ pc' \in [Operations -> Place]
  BY <1>1 DEF IInv, TypeOK, Place, Holding
<1>3. /\ task' \in [Generations -> Refresh] /\ refreshTask' = 0
      /\ arg' \in [Operations -> 0..MaxGeneration]
      /\ \A g \in Generations : task'[g] = "leased" <=> task[g] = "leased"
      /\ RefreshIsCurrent'
  BY <1>1, CancelRefreshStep DEF Begin
<1>4. TypeOK'
  BY <1>1, <1>2, <1>3, GenerationsAssumption DEF IInv, TypeOK
<1>5. LeasesAreCounted'
  <2>1. ASSUME NEW h \in Generations
        PROVE  Background(h)' = Background(h) /\ Explicit(h)' = Explicit(h)
    <3>1. Background(h)' = Background(h)
      BY <1>3 DEF Background
    <3>2. (pc'["refresh"] = "refreshing" <=> pc["refresh"] = "refreshing")
          /\ (o = "replace" => arg'["refresh"] = arg["refresh"])
          /\ (o = "refresh" => pc'["refresh"] # "refreshing")
      BY <1>1, <1>2 DEF IInv, TypeOK, Begin, CancelRefresh, Operations
    <3> QED BY <1>1, <3>1, <3>2 DEF Explicit
  <2> QED BY <1>1, <2>1, SameLeases
<1>6. OperationsAreOrdered'
  <2>1. arg'["refresh"] = arg["refresh"] \/ pc'["refresh"] # "refreshing"
    BY <1>1, <1>2 DEF IInv, TypeOK, Begin, CancelRefresh, Operations
  <2> QED BY <1>1, <1>2, <1>3, <2>1 DEF IInv, OperationsAreOrdered, Operations
<1> QED BY <1>1, <1>3, <1>4, <1>5, <1>6, SameGenerations DEF IInv, Owned

\* An operation moves on and keeps the leases, the generations and their refreshes.
LEMMA MoveStep ==
    ASSUME IInv, UNCHANGED <<gen, current, next, retired, task, refreshTask, lease>>,
           closing => closing', TypeOK', OperationsAreOrdered',
           \A h \in Generations : Explicit(h)' = Explicit(h)
    PROVE  IInv'
<1>1. \A h \in Generations : Background(h)' = Background(h)
  BY DEF Background
<1>2. LeasesAreCounted'
  BY <1>1, SameLeases
<1>3. RefreshIsCurrent'
  BY DEF IInv, RefreshIsCurrent
<1> QED BY <1>2, <1>3, SameGenerations DEF IInv, Owned

\* The explicit refresh leases the current generation (provider_manager.py:172).
LEMMA RefreshNowStep == ASSUME IInv, RefreshNow PROVE IInv'
<1> DEFINE g == current
<1>1. /\ pc["refresh"] = "cancelling" /\ gen' = Leased(g)
      /\ pc' = [pc EXCEPT !["refresh"] = "refreshing"]
      /\ arg' = [arg EXCEPT !["refresh"] = g]
      /\ UNCHANGED <<current, next, retired, unpublished, task, refreshTask, lease, closing,
                     closed, failures>>
      /\ g \in Generations /\ pc \in [Operations -> Place]
      /\ arg \in [Operations -> 0..MaxGeneration]
  BY DEF IInv, TypeOK, RefreshNow, CancelledRefresh, Goto
<1>2. ~closing /\ ~gen[g].closed /\ gen[g].cleanups = 0
  <2>1. ~closing
    BY <1>1 DEF IInv, OperationsAreOrdered
  <2> QED BY <1>1, <2>1, UsersHaveLeases DEF IInv, OnlyTheIdleAreCleaned
<1>3. Owned' /\ gen' \in [Generations -> Generation]
  BY <1>1, <1>2, TakeStep
<1>4. TypeOK'
  BY <1>1, <1>3, GenerationsAssumption
     DEF IInv, TypeOK, Place, Holding, Generations, Operations
<1>5. LeasesAreCounted'
  <2> SUFFICES ASSUME NEW h \in Generations
               PROVE  /\ IsFiniteSet(Holders(h)')
                      /\ gen'[h].leases = Cardinality(Holders(h)') + Background(h)' + Explicit(h)'
    BY DEF LeasesAreCounted
  <2>1. /\ IsFiniteSet(Holders(h)) /\ Cardinality(Holders(h)) \in Nat
        /\ gen[h].leases = Cardinality(Holders(h)) + Background(h) + Explicit(h)
    BY FS_CardinalityType DEF IInv, LeasesAreCounted
  <2>2. gen'[h].leases = gen[h].leases + (IF h = g THEN 1 ELSE 0)
    BY <1>1, LeasedIs DEF IInv, TypeOK
  <2>3. Explicit(h) = 0 /\ Explicit(h)' = (IF h = g THEN 1 ELSE 0)
    BY <1>1 DEF Explicit, Operations
  <2>4. /\ Holders(h)' = Holders(h) /\ Background(h)' = Background(h)
        /\ Background(h) \in Nat
    BY <1>1 DEF Holders, Background
  <2> HIDE DEF g
  <2> QED BY <2>1, <2>2, <2>3, <2>4
<1>6. RefreshIsCurrent'
  BY <1>1 DEF IInv, RefreshIsCurrent
<1>7. OperationsAreOrdered'
  <2>1. gen'[g].retired = gen[g].retired
    BY <1>1, LeasedIs DEF IInv, TypeOK
  <2>2. g # 0 /\ pc'["refresh"] = "refreshing" /\ arg'["refresh"] = g
        /\ \A o \in Operations \ {"refresh"} : pc'[o] = pc[o]
    BY <1>1, GenerationsAssumption DEF Generations, Operations
  <2> HIDE DEF g
  <2> QED BY <1>1, <1>2, <2>1, <2>2 DEF IInv, OperationsAreOrdered, Operations
<1> QED BY <1>3, <1>4, <1>5, <1>6, <1>7 DEF IInv, Owned

\* The explicit refresh ends, fails or is cancelled, and returns its lease
\* (provider_manager.py:173).
LEMMA RefreshDoneStep == ASSUME IInv, RefreshDone PROVE IInv'
<1> DEFINE g == arg["refresh"]
<1>1. /\ pc["refresh"] = "refreshing" /\ gen' = Released(g)
      /\ pc' = [pc EXCEPT !["refresh"] = "idle"]
      /\ arg' = [arg EXCEPT !["refresh"] = 0]
      /\ UNCHANGED <<current, next, retired, unpublished, task, refreshTask, lease, closing,
                     closed, failures>>
      /\ pc \in [Operations -> Place] /\ arg \in [Operations -> 0..MaxGeneration]
      /\ g \in 0..MaxGeneration
  BY DEF IInv, TypeOK, RefreshDone, Goto, Operations
<1>2. g \in Generations /\ gen[g].leases > 0
  <2>1. g # 0
    BY <1>1 DEF IInv, OperationsAreOrdered
  <2>2. g \in Generations
    BY <1>1, <2>1, GenerationsAssumption DEF Generations
  <2>3. Uses(g)
    BY <1>1 DEF Uses
  <2> QED BY <2>2, <2>3, UsersHaveLeases
<1>3. Owned' /\ gen' \in [Generations -> Generation]
  BY <1>1, <1>2, ReturnStep
<1>4. TypeOK'
  <2>1. "idle" \in Place /\ 0 \in 0..MaxGeneration
    BY GenerationsAssumption DEF Place
  <2> QED BY <1>1, <1>3, <2>1 DEF IInv, TypeOK
<1>5. LeasesAreCounted'
  <2> SUFFICES ASSUME NEW h \in Generations
               PROVE  /\ IsFiniteSet(Holders(h)')
                      /\ gen'[h].leases = Cardinality(Holders(h)') + Background(h)' + Explicit(h)'
    BY DEF LeasesAreCounted
  <2>1. /\ IsFiniteSet(Holders(h)) /\ Cardinality(Holders(h)) \in Nat
        /\ gen[h].leases = Cardinality(Holders(h)) + Background(h) + Explicit(h)
    BY FS_CardinalityType DEF IInv, LeasesAreCounted
  <2>2. gen'[h].leases = gen[h].leases - (IF h = g THEN 1 ELSE 0)
    BY <1>1, <1>2, ReleasedIs DEF IInv, TypeOK
  <2>3. Explicit(h)' = 0 /\ Explicit(h) = (IF h = g THEN 1 ELSE 0)
    BY <1>1 DEF Explicit, Operations
  <2>4. /\ Holders(h)' = Holders(h) /\ Background(h)' = Background(h)
        /\ Background(h) \in Nat
    BY <1>1 DEF Holders, Background
  <2> HIDE DEF g
  <2> QED BY <2>1, <2>2, <2>3, <2>4
<1>6. RefreshIsCurrent'
  BY <1>1 DEF IInv, RefreshIsCurrent
<1>7. OperationsAreOrdered'
  <2>1. gen'[current].retired = gen[current].retired
    BY <1>1, <1>2, ReleasedIs DEF IInv, TypeOK
  <2> QED BY <1>1, <2>1 DEF IInv, OperationsAreOrdered, Operations
<1> QED BY <1>3, <1>4, <1>5, <1>6, <1>7 DEF IInv, Owned

\* The steps of an Apply but its publication (provider_manager.py:186-229).
LEMMA ReplaceMoves ==
    ASSUME IInv, Prepare \/ PrepareFails \/ CandidateKept \/ ReplaceDone
    PROVE  IInv'
<1>1. /\ UNCHANGED <<gen, current, next, retired, task, refreshTask, lease, closing, closed,
                     failures>>
      /\ pc \in [Operations -> Place] /\ arg \in [Operations -> 0..MaxGeneration]
      /\ unpublished \in 0..MaxUnpublished
      /\ pc["replace"] # "idle"
  BY DEF IInv, TypeOK, Prepare, PrepareFails, CandidateKept, ReplaceDone, CancelledRefresh
<1>2. /\ ~closing /\ ~closed
      /\ refreshTask = 0 \/ ReplaceDone
  BY <1>1 DEF IInv, OperationsAreOrdered, Prepare, PrepareFails, CandidateKept,
              CancelledRefresh
<1>3. PICK place \in {"idle", "preparing", "cleaning"} :
          pc' = [pc EXCEPT !["replace"] = place] /\ (ReplaceDone => place = "idle")
  BY DEF Prepare, PrepareFails, CandidateKept, ReplaceDone, Goto
<1>4. arg' \in [Operations -> 0..MaxGeneration] /\ arg'["refresh"] = arg["refresh"]
  BY <1>1, GenerationsAssumption
     DEF Prepare, PrepareFails, CandidateKept, ReplaceDone, Operations
<1>5. unpublished' \in 0..MaxUnpublished
  BY <1>1, GenerationsAssumption DEF Prepare, PrepareFails, CandidateKept, ReplaceDone
<1>6. TypeOK'
  BY <1>1, <1>3, <1>4, <1>5 DEF IInv, TypeOK, Place, Holding
<1>7. OperationsAreOrdered'
  BY <1>1, <1>2, <1>3, <1>4 DEF IInv, OperationsAreOrdered, Operations
<1>8. \A h \in Generations : Explicit(h)' = Explicit(h)
  BY <1>1, <1>3, <1>4 DEF Explicit, Operations
<1> QED BY <1>1, <1>6, <1>7, <1>8, MoveStep

\* A failed candidate is cleaned up after all (provider_manager.py:315-335).
LEMMA UnpublishedCleanedStep ==
    ASSUME IInv, NEW o \in Operations, UnpublishedCleaned(o)
    PROVE  IInv'
<1>1. /\ UNCHANGED <<gen, current, next, retired, task, refreshTask, lease, arg, closing,
                     closed, failures>>
      /\ pc \in [Operations -> Place] /\ unpublished \in 0..MaxUnpublished /\ unpublished > 0
      /\ unpublished' = unpublished - 1
  BY DEF IInv, TypeOK, UnpublishedCleaned
<1>2. \/ pc' = pc
      \/ pc' = [pc EXCEPT !["replace"] = "idle"]
  BY DEF UnpublishedCleaned, Goto
<1>3. ~closed
  BY <1>1 DEF IInv, OperationsAreOrdered
<1>4. TypeOK'
  BY <1>1, <1>2, GenerationsAssumption DEF IInv, TypeOK, Place, Holding
<1>5. OperationsAreOrdered'
  BY <1>1, <1>2, <1>3 DEF IInv, OperationsAreOrdered, Operations
<1>6. \A h \in Generations : Explicit(h)' = Explicit(h)
  BY <1>1, <1>2 DEF Explicit, Operations
<1> QED BY <1>1, <1>4, <1>5, <1>6, MoveStep

\* The caller of an operation is cancelled (provider_manager.py:348).
LEMMA InterruptStep == ASSUME IInv, NEW o \in Operations, Interrupt(o) PROVE IInv'
<1>1. /\ UNCHANGED <<gen, current, next, retired, unpublished, task, refreshTask, lease,
                     closing, closed, failures>>
      /\ pc \in [Operations -> Place] /\ arg \in [Operations -> 0..MaxGeneration]
      /\ pc' = [pc EXCEPT ![o] = "idle"] /\ arg' = [arg EXCEPT ![o] = 0]
      /\ pc[o] # "refreshing"
  BY DEF IInv, TypeOK, Interrupt, Goto
<1>2. TypeOK'
  BY <1>1, GenerationsAssumption DEF IInv, TypeOK, Place, Holding
<1>3. OperationsAreOrdered'
  BY <1>1 DEF IInv, OperationsAreOrdered, Operations
<1>4. \A h \in Generations : Explicit(h)' = Explicit(h)
  BY <1>1 DEF Explicit, Operations
<1> QED BY <1>1, <1>2, <1>3, <1>4, MoveStep

\* The candidate becomes the current generation; the previous one is retired, and cleaned
\* up at once if nobody leases it (provider_manager.py:192-229).
LEMMA PublishStep == ASSUME IInv, Publish PROVE IInv'
<1> DEFINE old == current
<1> DEFINE gs == [gen EXCEPT ![old].retired = TRUE]
<1>1. /\ pc["replace"] = "preparing" /\ next <= MaxGeneration
      /\ next' = next + 1 /\ current' = next /\ retired' = retired \cup {old}
      /\ task' = [task EXCEPT ![next] = "scheduled"] /\ refreshTask' = next
      /\ UNCHANGED <<unpublished, lease, closing, closed, failures>>
      /\ gen \in [Generations -> Generation] /\ task \in [Generations -> Refresh]
      /\ pc \in [Operations -> Place] /\ arg \in [Operations -> 0..MaxGeneration]
  BY DEF IInv, TypeOK, Publish
<1>2. /\ refreshTask = 0 /\ ~closing /\ ~closed
      /\ pc["close"] \in {"idle", "waiting"}
  BY <1>1 DEF IInv, OperationsAreOrdered
<1>3. /\ old \in Generations /\ next = old + 1 /\ next \in Generations /\ old \in Nat
      /\ next # 0
  BY <1>1, GenerationsAssumption DEF IInv, TypeOK, OnlyTheIdleAreCleaned, Generations
<1>4. ~gen[old].retired /\ ~gen[old].closed /\ gen[old].cleanups = 0
  BY <1>2, <1>3, UsersHaveLeases DEF IInv, OnlyTheIdleAreCleaned
<1>5. /\ gs \in [Generations -> Generation]
      /\ \A h \in Generations :
            /\ gs[h].leases = gen[h].leases /\ gs[h].closed = gen[h].closed
            /\ gs[h].cleanups = gen[h].cleanups
            /\ h # old => gs[h].retired = gen[h].retired
      /\ gs[old].retired = TRUE
  BY <1>1, <1>3 DEF Generation
<1>6. IF gs[old].leases = 0
      THEN gen' = CloseGeneration(gs, old)
           /\ arg' = [arg EXCEPT !["replace"] = old] /\ pc' = [pc EXCEPT !["replace"] = "joining"]
      ELSE gen' = gs /\ pc' = [pc EXCEPT !["replace"] = "idle"] /\ arg' = arg
  BY DEF Publish, Goto
<1> HIDE DEF gs
<1>7. /\ gen' \in [Generations -> Generation]
      /\ \A h \in Generations :
            /\ gen'[h].leases = gen[h].leases /\ gen'[h].closed = gen[h].closed
            /\ h # old => gen'[h].retired = gen[h].retired
            /\ gen'[h].cleanups = gen[h].cleanups
                \/ (h = old /\ gen[h].leases = 0 /\ gen'[h].cleanups = 1)
      /\ gen'[old].retired = TRUE
  <2>1. CASE gs[old].leases = 0
    <3>1. gen' = CloseGeneration(gs, old)
      BY <1>6, <2>1
    <3>2. /\ gen' \in [Generations -> Generation]
          /\ \A h \in Generations :
                /\ gen'[h].leases = gs[h].leases /\ gen'[h].closed = gs[h].closed
                /\ gen'[h].retired = gs[h].retired
                /\ gen'[h].cleanups = gs[h].cleanups
                    \/ (h = old /\ gs[h].leases = 0 /\ gen'[h].cleanups = 1)
      BY <1>3, <1>5, <3>1, CloseGenerationIs
    <3> HIDE DEF old
    <3> QED BY <1>3, <1>5, <3>2
  <2>2. CASE gs[old].leases # 0
    <3>1. gen' = gs
      BY <1>6, <2>2
    <3> HIDE DEF old
    <3> QED BY <1>5, <3>1
  <2> QED BY <2>1, <2>2
<1>8. /\ pc' \in [Operations -> Place] /\ arg' \in [Operations -> 0..MaxGeneration]
      /\ pc'["replace"] \in {"idle", "joining"}
      /\ \A o \in Operations \ {"replace"} : pc'[o] = pc[o] /\ arg'[o] = arg[o]
  <2>1. /\ "idle" \in Place /\ "joining" \in Place /\ old \in 0..MaxGeneration
        /\ "replace" \in Operations
    BY <1>3, GenerationsAssumption DEF Place, Holding, Generations, Operations
  <2> HIDE DEF old
  <2> QED BY <1>1, <1>6, <2>1
<1>9. TypeOK'
  <2>1. "scheduled" \in Refresh /\ next' \in 2..(MaxGeneration + 1) /\ next \in 0..MaxGeneration
    BY <1>1, <1>3, GenerationsAssumption DEF Refresh, Generations
  <2> QED BY <1>1, <1>3, <1>7, <1>8, <2>1 DEF IInv, TypeOK
<1>10. RetiredAreOwned'
  BY <1>1, <1>3, <1>4, <1>7 DEF IInv, RetiredAreOwned
<1>11. ClosedOnce'
  BY <1>4, <1>7 DEF IInv, ClosedOnce
<1>12. LeasesAreCounted'
  <2>1. ASSUME NEW h \in Generations
        PROVE  Background(h)' = Background(h) /\ Explicit(h)' = Explicit(h)
    <3>1. task[next] # "leased" /\ task'[next] # "leased"
      <4>1. next > current
        BY <1>3
      <4>2. task[next] = "none" /\ task'[next] = "scheduled"
        BY <1>1, <1>3, <4>1 DEF IInv, RefreshIsCurrent
      <4> QED BY <4>2
    <3> QED BY <1>1, <1>3, <1>8, <3>1 DEF Background, Explicit, Operations
  <2> QED BY <1>1, <1>7, <2>1, SameLeases
<1>13. OnlyTheIdleAreCleaned'
  <2>1. next' = current' + 1
    BY <1>1, <1>3
  <2>2. gen'[next].retired = gen[next].retired /\ ~gen[next].retired
    BY <1>3, <1>7 DEF IInv, OnlyTheIdleAreCleaned
  <2>3. ASSUME NEW h \in Generations
        PROVE  /\ h < next => gen'[h].retired
               /\ h > next => ~gen'[h].retired
    BY <1>3, <1>7 DEF IInv, OnlyTheIdleAreCleaned, Generations
  <2>4. ASSUME NEW h \in Generations, gen'[h].closed \/ gen'[h].cleanups > 0
        PROVE  gen'[h].retired /\ gen'[h].leases = 0
    BY <1>4, <1>7, <2>4 DEF IInv, OnlyTheIdleAreCleaned
  <2> QED BY <1>1, <1>3, <2>1, <2>2, <2>3, <2>4 DEF OnlyTheIdleAreCleaned
<1>14. RefreshIsCurrent'
  <2>1. \A h \in Generations : task[h] # "scheduled"
    BY <1>2, GenerationsAssumption DEF IInv, RefreshIsCurrent, Generations
  <2>2. ASSUME NEW h \in Generations, h > next PROVE task'[h] = "none"
    <3>1. h > current /\ h # next
      BY <1>3, <2>2 DEF Generations
    <3> QED BY <1>1, <3>1 DEF IInv, RefreshIsCurrent
  <2> HIDE DEF old
  <2> QED BY <1>1, <1>3, <2>1, <2>2 DEF RefreshIsCurrent
<1>15. OperationsAreOrdered'
  BY <1>1, <1>2, <1>8 DEF IInv, OperationsAreOrdered, Operations
<1> QED BY <1>9, <1>10, <1>11, <1>12, <1>13, <1>14, <1>15 DEF IInv

\* The shutdown asks for the lock (provider_manager.py:231).
LEMMA CloseStep == ASSUME IInv, Close PROVE IInv'
<1>1. /\ UNCHANGED <<gen, current, next, retired, unpublished, task, refreshTask, lease, arg,
                     closing, closed, failures>>
      /\ pc \in [Operations -> Place] /\ pc' = [pc EXCEPT !["close"] = "waiting"] /\ ~closed
  BY DEF IInv, TypeOK, Close, Goto
<1>2. TypeOK'
  BY <1>1 DEF IInv, TypeOK, Place
<1>3. OperationsAreOrdered'
  BY <1>1 DEF IInv, OperationsAreOrdered, Operations
<1>4. \A h \in Generations : Explicit(h)' = Explicit(h)
  BY <1>1 DEF Explicit, Operations
<1> QED BY <1>1, <1>2, <1>3, <1>4, MoveStep

\* The shutdown has the lock: nobody else is at work, and nobody will be
\* (provider_manager.py:236).
LEMMA CloseBeginStep == ASSUME IInv, CloseBegin PROVE IInv'
<1>1. /\ UNCHANGED <<gen, current, next, retired, unpublished, lease, closed, failures>>
      /\ closing' = TRUE /\ CancelRefresh("close") /\ pc["close"] = "waiting"
      /\ pc \in [Operations -> Place] /\ pc' = [pc EXCEPT !["close"] = "cancelling"]
      /\ arg' = [arg EXCEPT !["close"] = refreshTask]
  BY DEF IInv, TypeOK, CloseBegin, Goto, CancelRefresh
<1>2. /\ task' \in [Generations -> Refresh] /\ refreshTask' = 0
      /\ arg' \in [Operations -> 0..MaxGeneration]
      /\ \A g \in Generations : task'[g] = "leased" <=> task[g] = "leased"
      /\ RefreshIsCurrent'
  BY <1>1, CancelRefreshStep DEF Operations
<1>3. pc["replace"] = "idle" /\ pc["refresh"] = "idle"
  BY DEF IInv, OperationsAreOrdered, CloseBegin, LockFree, Holding, Operations
<1>4. TypeOK'
  BY <1>1, <1>2, GenerationsAssumption DEF IInv, TypeOK, Place, Holding
<1>5. LeasesAreCounted'
  <2>1. ASSUME NEW h \in Generations
        PROVE  Background(h)' = Background(h) /\ Explicit(h)' = Explicit(h)
    BY <1>1, <1>2, <1>3 DEF Background, Explicit, Operations
  <2> QED BY <1>1, <2>1, SameLeases
<1>6. OperationsAreOrdered'
  BY <1>1, <1>2, <1>3 DEF IInv, OperationsAreOrdered, Operations
<1> QED BY <1>1, <1>2, <1>4, <1>5, <1>6, SameGenerations DEF IInv, Owned

\* The shutdown retires the current generation (provider_manager.py:238).
LEMMA RetireCurrentStep == ASSUME IInv, RetireCurrent PROVE IInv'
<1>1. /\ UNCHANGED <<current, next, unpublished, task, refreshTask, lease, closing, closed,
                     failures>>
      /\ pc["close"] = "cancelling" /\ pc \in [Operations -> Place]
      /\ pc' = [pc EXCEPT !["close"] = "draining"]
      /\ arg' = [arg EXCEPT !["close"] = 0] /\ arg \in [Operations -> 0..MaxGeneration]
      /\ current \in Generations /\ gen \in [Generations -> Generation]
  BY DEF IInv, TypeOK, RetireCurrent, CancelledRefresh, Goto
<1>2. closing /\ ~closed
  BY <1>1 DEF IInv, OperationsAreOrdered
<1>3. /\ gen' \in [Generations -> Generation]
      /\ \A h \in Generations :
            /\ gen'[h].leases = gen[h].leases /\ gen'[h].closed = gen[h].closed
            /\ gen'[h].cleanups = gen[h].cleanups
            /\ h # current => gen'[h].retired = gen[h].retired
      /\ gen'[current].retired
  <2>1. CASE gen[current].retired
    BY <1>1, <2>1 DEF RetireCurrent
  <2>2. CASE ~gen[current].retired
    <3>1. gen' = [gen EXCEPT ![current].retired = TRUE]
      BY <2>2 DEF RetireCurrent
    <3> QED BY <1>1, <3>1 DEF Generation
  <2> QED BY <2>1, <2>2
<1>4. TypeOK'
  <2>1. pc' \in [Operations -> Place] /\ arg' \in [Operations -> 0..MaxGeneration]
    <3>1. "draining" \in Place /\ 0 \in 0..MaxGeneration
      BY GenerationsAssumption DEF Place
    <3> QED BY <1>1, <3>1
  <2>2. retired' \subseteq Generations
    BY <1>1 DEF IInv, TypeOK, RetireCurrent
  <2> QED BY <1>1, <1>3, <2>1, <2>2 DEF IInv, TypeOK
<1>5. RetiredAreOwned'
  <2>1. CASE gen[current].retired
    BY <2>1 DEF IInv, RetiredAreOwned, RetireCurrent
  <2>2. CASE ~gen[current].retired
    <3>1. ~gen[current].closed /\ retired' = retired \cup {current}
      BY <1>1, <2>2 DEF IInv, OnlyTheIdleAreCleaned, RetireCurrent
    <3> QED BY <1>1, <1>3, <3>1 DEF IInv, RetiredAreOwned
  <2> QED BY <2>1, <2>2
<1>6. ClosedOnce'
  BY <1>3 DEF IInv, ClosedOnce
<1>7. LeasesAreCounted'
  BY <1>1, <1>3, SameLeases DEF Background, Explicit, Operations
<1>8. OnlyTheIdleAreCleaned'
  <2>1. ASSUME NEW h \in Generations
        PROVE  /\ h < current => gen'[h].retired
               /\ h > current => ~gen'[h].retired
               /\ gen'[h].closed \/ gen'[h].cleanups > 0 => gen'[h].retired /\ gen'[h].leases = 0
    <3>1. CASE h = current
      BY <1>3, <3>1 DEF IInv, OnlyTheIdleAreCleaned, Generations
    <3>2. CASE h # current
      BY <1>3, <3>2 DEF IInv, OnlyTheIdleAreCleaned
    <3> QED BY <3>1, <3>2
  <2> QED BY <1>1, <1>2, <2>1 DEF IInv, OnlyTheIdleAreCleaned
<1>9. RefreshIsCurrent'
  BY <1>1 DEF IInv, RefreshIsCurrent
<1>10. OperationsAreOrdered'
  BY <1>1, <1>2, <1>3 DEF IInv, OperationsAreOrdered, Operations
<1> QED BY <1>4, <1>5, <1>6, <1>7, <1>8, <1>9, <1>10 DEF IInv

\* Every generation is drained: the shutdown has them cleaned up (provider_manager.py:245).
LEMMA CloseAllStep == ASSUME IInv, CloseAll PROVE IInv'
<1>1. /\ UNCHANGED <<current, next, retired, unpublished, task, refreshTask, lease, arg, closing,
                     closed, failures>>
      /\ pc["close"] = "draining" /\ pc \in [Operations -> Place]
      /\ pc' = [pc EXCEPT !["close"] = "joining"]
      /\ \A h \in retired : gen[h].leases = 0
      /\ gen' = [h \in Generations |-> IF h \in retired THEN CloseGeneration(gen, h)[h] ELSE gen[h]]
      /\ current \in Generations /\ gen \in [Generations -> Generation]
  BY DEF IInv, TypeOK, CloseAll, Drained, Goto
<1>2. ~closed
  BY <1>1 DEF IInv, OperationsAreOrdered
<1>3. /\ gen' \in [Generations -> Generation]
      /\ \A h \in Generations :
            /\ gen'[h].leases = gen[h].leases /\ gen'[h].closed = gen[h].closed
            /\ gen'[h].retired = gen[h].retired
            /\ gen'[h].cleanups = gen[h].cleanups
                \/ /\ h \in retired /\ gen[h].leases = 0 /\ ~gen[h].closed
                   /\ gen'[h].cleanups = 1
  <2>1. ASSUME NEW h \in Generations
        PROVE  /\ gen'[h] \in Generation
               /\ gen'[h].leases = gen[h].leases /\ gen'[h].closed = gen[h].closed
               /\ gen'[h].retired = gen[h].retired
               /\ gen'[h].cleanups = gen[h].cleanups
                   \/ /\ h \in retired /\ gen[h].leases = 0 /\ ~gen[h].closed
                      /\ gen'[h].cleanups = 1
    <3>1. CASE h \in retired
      <4>1. gen'[h] = CloseGeneration(gen, h)[h]
        BY <1>1, <3>1
      <4> QED BY <1>1, <3>1, <4>1, CloseGenerationIs
    <3>2. CASE h \notin retired
      BY <1>1, <3>2
    <3> QED BY <3>1, <3>2
  <2> QED BY <1>1, <2>1
<1>4. TypeOK'
  <2>1. "joining" \in Place
    BY DEF Place, Holding
  <2> QED BY <1>1, <1>3, <2>1 DEF IInv, TypeOK
<1>5. RetiredAreOwned'
  BY <1>1, <1>3 DEF IInv, RetiredAreOwned
<1>6. ClosedOnce'
  BY <1>3 DEF IInv, ClosedOnce
<1>7. LeasesAreCounted'
  BY <1>1, <1>3, SameLeases DEF Background, Explicit, Operations
<1>8. OnlyTheIdleAreCleaned'
  <2>1. ASSUME NEW h \in Generations, gen'[h].closed \/ gen'[h].cleanups > 0
        PROVE  gen'[h].retired /\ gen'[h].leases = 0
    <3>1. CASE h \in retired /\ gen[h].leases = 0
      BY <1>3, <3>1 DEF IInv, RetiredAreOwned
    <3>2. CASE gen'[h].cleanups = gen[h].cleanups
      BY <1>3, <2>1, <3>2 DEF IInv, OnlyTheIdleAreCleaned
    <3> QED BY <1>3, <3>1, <3>2
  <2> QED BY <1>1, <1>3, <2>1 DEF IInv, OnlyTheIdleAreCleaned
<1>9. RefreshIsCurrent'
  BY <1>1 DEF IInv, RefreshIsCurrent
<1>10. OperationsAreOrdered'
  BY <1>1, <1>2, <1>3 DEF IInv, OperationsAreOrdered, Operations
<1> QED BY <1>4, <1>5, <1>6, <1>7, <1>8, <1>9, <1>10 DEF IInv

\* The shutdown has joined the cleanup tasks, and returns or raises
\* (provider_manager.py:249-259).
LEMMA CloseEndStep == ASSUME IInv, Joined \/ CloseDone PROVE IInv'
<1>1. /\ UNCHANGED <<gen, current, next, retired, unpublished, task, refreshTask, lease, arg,
                     closing, failures>>
      /\ pc \in [Operations -> Place] /\ pc["close"] \in {"joining", "retrying"}
      /\ \/ closed' = closed /\ pc' = [pc EXCEPT !["close"] = "retrying"]
         \/ closed' = (retired = {} /\ unpublished = 0) /\ pc' = [pc EXCEPT !["close"] = "idle"]
  BY DEF IInv, TypeOK, Joined, CloseDone, Goto, AllClosed
<1>2. closing /\ ~closed /\ gen[current].retired
  BY <1>1 DEF IInv, OperationsAreOrdered
<1>3. TypeOK'
  <2>1. "retrying" \in Place /\ "idle" \in Place
    BY DEF Place
  <2> QED BY <1>1, <2>1 DEF IInv, TypeOK
<1>4. OperationsAreOrdered'
  <2>1. CASE closed' = closed /\ pc' = [pc EXCEPT !["close"] = "retrying"]
    BY <1>1, <1>2, <2>1 DEF IInv, OperationsAreOrdered, Operations
  <2>2. CASE closed' = (retired = {} /\ unpublished = 0) /\ pc' = [pc EXCEPT !["close"] = "idle"]
    BY <1>1, <1>2, <2>2 DEF IInv, OperationsAreOrdered, Operations
  <2> QED BY <1>1, <2>1, <2>2
<1>5. \A h \in Generations : Explicit(h)' = Explicit(h)
  BY <1>1 DEF Explicit, Operations
<1> QED BY <1>1, <1>3, <1>4, <1>5, MoveStep

-----------------------------------------------------------------------------
(* The theorems *)

\* The manager starts with one generation that nobody leases (provider_manager.py:79).
LEMMA InitIInv == ASSUME Init PROVE IInv
<1>1. 1 \in Generations /\ 2 \in 2..(MaxGeneration + 1) /\ 1 \in 0..MaxGeneration
      /\ 0 \in 0..MaxGeneration /\ 0 \in 0..MaxUnpublished /\ 0 \in 0..MaxFailures
  BY GenerationsAssumption DEF Generations
<1>2. gen \in [Generations -> Generation] /\ \A g \in Generations : gen[g] = NewGeneration
  BY DEF Init, NewGeneration, Generation
<1>3. TypeOK
  BY <1>1, <1>2 DEF Init, TypeOK, Refresh, Place
<1>4. RetiredAreOwned /\ ClosedOnce
  BY <1>2 DEF Init, RetiredAreOwned, ClosedOnce, NewGeneration
<1>5. LeasesAreCounted
  <2>1. \A g \in Generations : Holders(g) = {}
    BY GenerationsAssumption DEF Init, Holders, Generations
  <2>2. \A g \in Generations : Background(g) = 0 /\ Explicit(g) = 0
    BY DEF Init, Background, Explicit, Operations
  <2> QED BY <1>2, <2>1, <2>2, FS_EmptySet DEF LeasesAreCounted, NewGeneration
<1>6. OnlyTheIdleAreCleaned
  BY <1>1, <1>2 DEF Init, OnlyTheIdleAreCleaned, NewGeneration, Generations
<1>7. RefreshIsCurrent
  BY <1>1 DEF Init, RefreshIsCurrent
<1>8. OperationsAreOrdered
  BY DEF Init, OperationsAreOrdered, Operations
<1> QED BY <1>3, <1>4, <1>5, <1>6, <1>7, <1>8 DEF IInv

\* Whatever the manager does next, the invariant stays true.
LEMMA NextIInv == ASSUME IInv, [Next]_vars PROVE IInv'
<1>1. CASE UNCHANGED vars
  <2>1. TypeOK' /\ OperationsAreOrdered'
    BY <1>1 DEF vars, IInv, TypeOK, OperationsAreOrdered
  <2> QED BY <1>1, <2>1, MoveStep DEF vars, Explicit
<1>2. CASE \E c \in Clients : Acquire(c) \/ Release(c)
  BY <1>2, AcquireStep, ReleaseStep
<1>3. CASE \E g \in Generations :
               CleanupSucceeds(g) \/ CleanupFails(g) \/ RefreshEnter(g) \/ RefreshEnd(g)
  BY <1>3, CleanupStep, RefreshEnterStep, RefreshEndStep
<1>4. CASE Replace
  BY <1>4, BeginStep, ReplaceMoves, PublishStep DEF Replace, Operations
<1>5. CASE RefreshOperation
  BY <1>5, BeginStep, RefreshNowStep, RefreshDoneStep DEF RefreshOperation, Operations
<1>6. CASE Shutdown
  BY <1>6, CloseStep, CloseBeginStep, RetireCurrentStep, CloseAllStep, CloseEndStep DEF Shutdown
<1>7. CASE \E o \in Operations : UnpublishedCleaned(o) \/ Interrupt(o)
  BY <1>7, UnpublishedCleanedStep, InterruptStep
<1> QED BY <1>1, <1>2, <1>3, <1>4, <1>5, <1>6, <1>7 DEF Next

\* What the manager and the users of a generation are promised is in the invariant: a
\* generation that is being cleaned has no leases, so nobody uses it.
LEMMA IInvPromises == ASSUME IInv PROVE GenerationsAreOwned
<1>1. InUseIsOpen
  <2> SUFFICES ASSUME NEW g \in Generations, gen[g].closed \/ gen[g].cleanups > 0
               PROVE  ~Uses(g)
    BY DEF InUseIsOpen
  <2>1. gen[g].leases = 0
    BY DEF IInv, OnlyTheIdleAreCleaned
  <2> QED BY <2>1, UsersHaveLeases
<1>2. ASSUME closed, NEW g \in Generations, g < next
      PROVE  gen[g].closed /\ ~Uses(g)
  <2>1. gen[current].retired /\ retired = {}
    BY <1>2 DEF IInv, OperationsAreOrdered
  <2>2. g < current \/ g = current
    BY <1>2 DEF IInv, TypeOK, OnlyTheIdleAreCleaned, Generations
  <2>3. gen[g].retired
    BY <2>1, <2>2 DEF IInv, OnlyTheIdleAreCleaned
  <2>4. gen[g].closed
    BY <2>1, <2>3 DEF IInv, RetiredAreOwned
  <2> QED BY <1>1, <2>4 DEF InUseIsOpen
<1>3. ClosedIsEmpty
  BY <1>2 DEF ClosedIsEmpty, IInv, OperationsAreOrdered
<1> QED BY <1>1, <1>3 DEF GenerationsAreOwned, IInv

\* Every variable keeps its type (provider_manager.py).
THEOREM TypeCorrect == Spec => []TypeOK
<1>1. IInv => TypeOK
  BY DEF IInv
<1> QED BY <1>1, InitIInv, NextIInv, PTL DEF Spec

\* Nobody uses a generation whose clients are being closed or are closed; what is retired
\* stays reachable until it is closed; it is closed once; and a manager that says it is
\* closed has nothing left (provider_manager.py:115-390).
THEOREM OwnedUntilClosed == Spec => []GenerationsAreOwned
BY InitIInv, NextIInv, IInvPromises, PTL DEF Spec

\* The leases of a generation are the requests, the background refresh and the explicit
\* refresh that use it, no more and no less (provider_manager.py:115-269).
THEOREM LeasesAreUsers == Spec => []LeasesAreCounted
<1>1. IInv => LeasesAreCounted
  BY DEF IInv
<1> QED BY <1>1, InitIInv, NextIInv, PTL DEF Spec

\* From the first step of the shutdown on, leases only go away and nothing is published
\* (provider_manager.py:116, 236).
LEMMA DrainStep ==
    ASSUME IInv, [Next]_vars, closing
    PROVE  current' = current /\ \A g \in Generations : gen'[g].leases <= gen[g].leases
<1>1. /\ gen \in [Generations -> Generation]
      /\ \A g \in Generations : gen[g].leases \in Nat
      /\ pc["replace"] = "idle" /\ pc["refresh"] = "idle" /\ refreshTask = 0
  BY UsersHaveLeases DEF IInv, TypeOK, OperationsAreOrdered
<1>2. CASE gen' = gen /\ current' = current
  BY <1>1, <1>2
<1>3. CASE \E c \in Clients : Release(c)
  <2>1. PICK c \in Clients : Release(c)
    BY <1>3
  <2>2. lease[c] \in Generations /\ Uses(lease[c])
    BY <2>1, GenerationsAssumption DEF IInv, TypeOK, Release, Generations, Uses
  <2>3. gen[lease[c]].leases > 0
    BY <2>2, UsersHaveLeases
  <2> QED BY <1>1, <2>1, <2>2, <2>3, ReleasedIs DEF Release
<1>4. CASE \E g \in Generations : CleanupSucceeds(g) \/ CleanupFails(g)
  <2>1. PICK g \in Generations : CleanupSucceeds(g) \/ CleanupFails(g)
    BY <1>4
  <2>2. CASE CleanupSucceeds(g)
    BY <1>1, <2>2 DEF CleanupSucceeds, Generation
  <2>3. CASE CleanupFails(g)
    BY <1>1, <2>3 DEF CleanupFails, Generation
  <2> QED BY <2>1, <2>2, <2>3
<1>5. CASE \E g \in Generations : RefreshEnter(g)
  <2>1. PICK g \in Generations : RefreshEnter(g)
    BY <1>5
  <2>2. task[g] # "scheduled"
    BY <1>1, GenerationsAssumption DEF IInv, RefreshIsCurrent, Generations
  <2> QED BY <1>2, <2>1, <2>2 DEF RefreshEnter
<1>6. CASE \E g \in Generations : RefreshEnd(g)
  <2>1. PICK g \in Generations : RefreshEnd(g)
    BY <1>6
  <2>2. gen[g].leases > 0
    BY <2>1, UsersHaveLeases DEF RefreshEnd, Uses
  <2> QED BY <1>1, <2>1, <2>2, ReleasedIs DEF RefreshEnd
<1>7. CASE RetireCurrent
  <2>1. CASE gen[current].retired
    BY <1>2, <1>7, <2>1 DEF RetireCurrent
  <2>2. CASE ~gen[current].retired
    <3>1. gen' = [gen EXCEPT ![current].retired = TRUE] /\ current' = current
      BY <1>7, <2>2 DEF RetireCurrent
    <3> QED BY <1>1, <3>1 DEF Generation
  <2> QED BY <2>1, <2>2
<1>8. CASE CloseAll
  <2>1. /\ current' = current
        /\ gen' = [g \in Generations |->
                      IF g \in retired THEN CloseGeneration(gen, g)[g] ELSE gen[g]]
    BY <1>8 DEF CloseAll
  <2>2. \A g \in Generations : CloseGeneration(gen, g)[g].leases = gen[g].leases
    BY <1>1, CloseGenerationIs
  <2> QED BY <1>1, <2>1, <2>2
<1>9. CASE \/ UNCHANGED vars
           \/ Close \/ CloseBegin \/ Joined \/ CloseDone
           \/ \E o \in Operations : UnpublishedCleaned(o) \/ Interrupt(o)
  BY <1>2, <1>9 DEF vars, Close, CloseBegin, Joined, CloseDone, UnpublishedCleaned, Interrupt
<1>10. ~Replace /\ ~RefreshOperation /\ \A c \in Clients : ~Acquire(c)
  BY <1>1 DEF Replace, RefreshOperation, Begin, Prepare, PrepareFails, CandidateKept, Publish,
              ReplaceDone, RefreshNow, RefreshDone, CancelledRefresh, Acquire, Accepting
<1> QED BY <1>3, <1>4, <1>5, <1>6, <1>7, <1>8, <1>9, <1>10 DEF Next, Shutdown

\* "Final shutdown rejects new acquisition and replacement" (provider_manager.py:116-246).
THEOREM ShutdownOnlyDrains == Spec => OnlyDrains
<1>1. IInv /\ [Next]_vars => [closing => /\ current' = current
                                       /\ \A g \in Generations : gen'[g].leases <= gen[g].leases]_vars
  BY DrainStep
<1> QED BY <1>1, InitIInv, NextIInv, PTL DEF Spec, OnlyDrains

=============================================================================
