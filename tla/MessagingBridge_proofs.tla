------------------------- MODULE MessagingBridge_proofs -------------------------
(***************************************************************************)
(* What the messaging bridge promises, for any prompts, commands, runners, *)
(* calls, voice notes and messages, and any bounds.  The parts whose       *)
(* proofs have no module of their own are proved here, one after the       *)
(* other: the store, voice notes, transcripts, the platform's runtime and  *)
(* the delivery queue; then the bridge, whose invariant is that of the     *)
(* part that runs.                                                         *)
(***************************************************************************)
EXTENDS MessagingBridge, FiniteSetTheorems, SequenceTheorems, WellFoundedInduction, TLAPS

-----------------------------------------------------------------------------
(* The session store: SessionPersistence *)

(***************************************************************************)
(* What a flush or a clear returned for stays on disk, for any number of   *)
(* saves and timer threads.  A state is numbered by the changes made, and  *)
(* _save_generation counts the same changes, a step later.  So a thread    *)
(* that passed the check under the writer's lock carries a snapshot of     *)
(* exactly the generation it claimed, which is the newest there was; and   *)
(* what is in the file was written before it, by such a thread.            *)
(***************************************************************************)

\* The changes are counted by _save_generation, but for one the event loop is about to
\* count, with the store's lock in its hands.
ChangesAreCounted ==
    /\ at[Loop] \in {"saving", "superseding"} =>
           held /\ generation < MaxGeneration /\ memory = generation + 1
    /\ at[Loop] \notin {"saving", "superseding"} => memory = generation
    /\ at[Loop] = "superseding" => pending[Loop].snapshot = memory

\* A pending write never runs ahead of the changes; one that was claimed late may carry
\* more than it claimed, and the check drops it.
SnapshotsAreBounded ==
    \A t \in Threads :
        /\ at[t] \in {"claimed", "snapped", "locked", "checked"} =>
               pending[t].generation <= generation
        /\ at[t] \in {"snapped", "locked"} =>
               /\ pending[t].generation <= pending[t].snapshot
               /\ pending[t].snapshot <= generation

\* Who writes has the writer's lock and the newest snapshot.
WriterIsNewest ==
    \A t \in Threads :
        /\ at[t] \in {"locked", "checked"} => writer = t
        /\ at[t] = "checked" => /\ pending[t].snapshot = pending[t].generation
                               /\ file <= pending[t].snapshot

\* The event loop is never superseded by itself, and returns for what it has written.
LoopIsCurrent ==
    /\ at[Loop] \in {"claimed", "snapped", "locked", "checked", "written", "cleaning"} =>
           pending[Loop].generation = generation
    /\ at[Loop] \in {"written", "cleaning"} => pending[Loop].snapshot <= file

StoreInv == /\ TypeOK /\ ChangesAreCounted /\ SnapshotsAreBounded /\ WriterIsNewest
        /\ LoopIsCurrent /\ file <= generation /\ PromisesKept

\* The event loop and the timer threads are told apart by their numbers.
LEMMA ThreadsAreNumbered ==
    /\ Loop \in Threads /\ Loop = 0 /\ Nobody \notin Threads
    /\ \A t \in Timers : t \in Threads /\ t # Loop /\ t \in Nat /\ t # 0
    /\ \A t \in Threads : t \in Nat /\ (t # Loop => t \in Timers)
BY PersistenceAssumption DEF Threads, Timers, Loop, Nobody

\* Cancelling the timer ends a thread that still sleeps (persistence.py:117), and no other.
LEMMA CancelledIs ==
    ASSUME StoreInv
    PROVE  /\ Cancelled \in [Threads -> Place]
           /\ \A t \in Threads :
                 \/ Cancelled[t] = at[t]
                 \/ /\ t = timer /\ timer # 0 /\ t # Loop /\ at[t] = "armed"
                    /\ Cancelled[t] = "ended"
<1>1. at \in [Threads -> Place] /\ "ended" \in Place
  BY DEF StoreInv, TypeOK, Place
<1> QED BY <1>1, ThreadsAreNumbered DEF Cancelled

-----------------------------------------------------------------------------
(* The event loop *)

\* A change, up to _timer_lock (persistence.py:50, store.py:93-162).
LEMMA ChangeStep == ASSUME StoreInv, Save \/ Clear PROVE StoreInv'
<1>1. /\ UNCHANGED <<file, generation, timer, writer, promised, failures>>
      /\ at[Loop] = "idle" /\ generation < MaxGeneration /\ memory' = memory + 1
      /\ dirty' = TRUE /\ held' = TRUE
      /\ at \in [Threads -> Place] /\ generation \in 0..MaxGeneration
      /\ memory = generation /\ Loop \in Threads
      /\ pending \in [Threads -> [generation : 0..MaxGeneration, snapshot : 0..MaxGeneration]]
  BY ThreadsAreNumbered DEF StoreInv, TypeOK, ChangesAreCounted, Save, Clear
<1>2. PICK place \in {"saving", "superseding"} :
          /\ at' = [at EXCEPT ![Loop] = place]
          /\ \/ place = "saving" /\ pending' = pending
             \/ pending' = [pending EXCEPT ![Loop].snapshot = memory + 1]
  BY DEF Save, Clear, Goto
<1>3. /\ at' \in [Threads -> Place] /\ at'[Loop] = place
      /\ \A t \in Threads : t # Loop => at'[t] = at[t]
  BY <1>1, <1>2 DEF Place
<1>4. memory + 1 \in 0..MaxGeneration /\ memory' \in 0..MaxGeneration
  BY <1>1, PersistenceAssumption
<1>5. /\ pending' \in [Threads -> [generation : 0..MaxGeneration, snapshot : 0..MaxGeneration]]
      /\ \A t \in Threads : t # Loop => pending'[t] = pending[t]
      /\ place = "superseding" => pending'[Loop].snapshot = memory'
  BY <1>1, <1>2, <1>4
<1>6. TypeOK'
  <2>1. timer # 0 => timer \in Threads /\ timer # Loop
    BY PersistenceAssumption DEF StoreInv, TypeOK, Threads, Timers, Loop
  <2>2. timer' # 0 => timer' = generation' /\ at'[timer'] \in {"armed", "fired"}
    BY <1>1, <1>3, <2>1 DEF StoreInv, TypeOK
  <2> QED BY <1>1, <1>3, <1>4, <1>5, <2>2 DEF StoreInv, TypeOK
<1>7. ChangesAreCounted' /\ LoopIsCurrent'
  BY <1>1, <1>2, <1>3, <1>5 DEF ChangesAreCounted, LoopIsCurrent
<1>8. SnapshotsAreBounded'
  BY <1>1, <1>2, <1>3, <1>5 DEF StoreInv, SnapshotsAreBounded
<1>9. WriterIsNewest'
  BY <1>1, <1>2, <1>3, <1>5 DEF StoreInv, WriterIsNewest
<1> QED BY <1>1, <1>6, <1>7, <1>8, <1>9 DEF StoreInv, PromisesKept

\* The change is counted and a timer started for it (persistence.py:50-62).
LEMMA ScheduleStep == ASSUME StoreInv, Schedule PROVE StoreInv'
<1> DEFINE new == generation + 1
<1>1. /\ UNCHANGED <<memory, file, dirty, writer, pending, promised, failures>>
      /\ at[Loop] = "saving" /\ generation' = new /\ timer' = new /\ held' = FALSE
      /\ at' = [Cancelled EXCEPT ![Loop] = "idle", ![new] = "armed"]
      /\ generation \in 0..MaxGeneration /\ generation < MaxGeneration
      /\ memory = new /\ Loop \in Threads
  BY ThreadsAreNumbered DEF StoreInv, TypeOK, ChangesAreCounted, Schedule
<1>2. new \in Timers /\ new \in Threads /\ new # Loop /\ new # 0 /\ new \in 0..MaxGeneration
  BY <1>1, PersistenceAssumption, ThreadsAreNumbered DEF Timers
<1>3. /\ at' \in [Threads -> Place] /\ at'[Loop] = "idle" /\ at'[new] = "armed"
      /\ \A t \in Threads : at'[t] = at[t] \/ at'[t] \in {"idle", "ended", "armed"}
  <2>1. "idle" \in Place /\ "armed" \in Place
    BY DEF Place
  <2> HIDE DEF new
  <2> QED BY <1>1, <1>2, <2>1, CancelledIs
<1> HIDE DEF new
<1>4. TypeOK'
  BY <1>1, <1>2, <1>3 DEF StoreInv, TypeOK
<1>5. ChangesAreCounted' /\ LoopIsCurrent'
  BY <1>1, <1>3 DEF ChangesAreCounted, LoopIsCurrent
<1>6. file' <= generation'
  <2>1. file \in Nat /\ generation \in Nat /\ file <= generation
    BY <1>1, PersistenceAssumption DEF StoreInv, TypeOK
  <2> QED BY <1>1, <2>1 DEF new
<1>7. SnapshotsAreBounded'
  <2> SUFFICES ASSUME NEW t \in Threads, at'[t] = at[t]
               PROVE  /\ at[t] \in {"claimed", "snapped", "locked", "checked"} =>
                             pending[t].generation <= new
                      /\ at[t] \in {"snapped", "locked"} =>
                             /\ pending[t].generation <= pending[t].snapshot
                             /\ pending[t].snapshot <= new
    BY <1>1, <1>3 DEF SnapshotsAreBounded
  <2>1. pending[t].generation \in Nat /\ pending[t].snapshot \in Nat /\ generation \in Nat
    BY <1>1, PersistenceAssumption DEF StoreInv, TypeOK
  <2> QED BY <2>1 DEF new, StoreInv, SnapshotsAreBounded
<1>8. WriterIsNewest'
  BY <1>1, <1>3 DEF StoreInv, WriterIsNewest
<1> QED BY <1>1, <1>4, <1>5, <1>6, <1>7, <1>8 DEF StoreInv, PromisesKept

\* A clear is counted; the timer is cancelled and every older snapshot superseded
\* (persistence.py:130-142).
LEMMA SupersedeStep == ASSUME StoreInv, Supersede PROVE StoreInv'
<1> DEFINE new == generation + 1
<1>1. /\ UNCHANGED <<memory, file, dirty, held, writer, promised, failures>>
      /\ at[Loop] = "superseding" /\ generation' = new /\ timer' = 0
      /\ pending' = [pending EXCEPT ![Loop].generation = new]
      /\ at' = [Cancelled EXCEPT ![Loop] = "snapped"]
      /\ generation \in 0..MaxGeneration /\ generation < MaxGeneration
      /\ memory = new /\ pending[Loop].snapshot = memory /\ Loop \in Threads
      /\ pending \in [Threads -> [generation : 0..MaxGeneration, snapshot : 0..MaxGeneration]]
  BY ThreadsAreNumbered DEF StoreInv, TypeOK, ChangesAreCounted, Supersede
<1>2. new \in 0..MaxGeneration /\ 0 \in 0..MaxGeneration /\ new <= new
  BY <1>1, PersistenceAssumption
<1>3. /\ at' \in [Threads -> Place] /\ at'[Loop] = "snapped"
      /\ \A t \in Threads : t # Loop => at'[t] = at[t] \/ at'[t] = "ended"
  <2>1. "snapped" \in Place
    BY DEF Place
  <2> QED BY <1>1, <2>1, CancelledIs
<1>4. /\ pending' \in [Threads -> [generation : 0..MaxGeneration, snapshot : 0..MaxGeneration]]
      /\ \A t \in Threads : t # Loop => pending'[t] = pending[t]
      /\ pending'[Loop].generation = new /\ pending'[Loop].snapshot = new
  <2> HIDE DEF new
  <2> QED BY <1>1, <1>2
<1> HIDE DEF new
<1>5. TypeOK'
  BY <1>1, <1>2, <1>3, <1>4 DEF StoreInv, TypeOK
<1>6. ChangesAreCounted' /\ LoopIsCurrent'
  BY <1>1, <1>3, <1>4 DEF ChangesAreCounted, LoopIsCurrent
<1>7. file' <= generation'
  <2>1. file \in Nat /\ generation \in Nat /\ file <= generation
    BY <1>1, PersistenceAssumption DEF StoreInv, TypeOK
  <2> QED BY <1>1, <2>1 DEF new
<1>8. SnapshotsAreBounded'
  <2> SUFFICES ASSUME NEW t \in Threads, t # Loop, at'[t] = at[t]
               PROVE  /\ at[t] \in {"claimed", "snapped", "locked", "checked"} =>
                             pending[t].generation <= new
                      /\ at[t] \in {"snapped", "locked"} =>
                             /\ pending[t].generation <= pending[t].snapshot
                             /\ pending[t].snapshot <= new
    BY <1>1, <1>2, <1>3, <1>4 DEF SnapshotsAreBounded
  <2>1. pending[t].generation \in Nat /\ pending[t].snapshot \in Nat /\ generation \in Nat
    BY <1>1, PersistenceAssumption DEF StoreInv, TypeOK
  <2> QED BY <2>1 DEF new, StoreInv, SnapshotsAreBounded
<1>9. WriterIsNewest'
  BY <1>1, <1>3, <1>4 DEF StoreInv, WriterIsNewest
<1> QED BY <1>1, <1>5, <1>6, <1>7, <1>8, <1>9 DEF StoreInv, PromisesKept

-----------------------------------------------------------------------------
(* The threads *)

\* A thread moves on and neither claims nor writes.
LEMMA MoveStep ==
    ASSUME StoreInv, NEW t \in Threads, NEW place \in Place, at' = [at EXCEPT ![t] = place],
           UNCHANGED <<memory, file, generation, pending>>,
           dirty' \in BOOLEAN, failures' \in 0..MaxFailures,
           at[t] \notin {"saving", "superseding"}, place \notin {"saving", "superseding"},
           held' = held \/ (held' = FALSE /\ t = Loop),
           timer' = timer \/ timer' = 0,
           t = timer' /\ timer' # 0 => place = "fired",
           place \in {"idle", "fired", "ended", "locked", "failed", "cleaning"},
           place = "locked" => at[t] = "snapped" /\ writer' = t,
           place = "cleaning" => at[t] = "written",
           writer' \in Threads \cup {Nobody},
           \A u \in Threads \ {t} : writer = u => writer' = u,
           promised' = promised \/ (t = Loop /\ promised' = pending[Loop].snapshot
                                   /\ at[t] \in {"written", "cleaning"})
    PROVE  StoreInv'
<1>1. /\ at' \in [Threads -> Place] /\ at'[t] = place
      /\ \A u \in Threads : u # t => at'[u] = at[u]
      /\ Loop \in Threads
  BY ThreadsAreNumbered DEF StoreInv, TypeOK
<1>2. promised' \in 0..MaxGeneration /\ file >= promised'
  BY <1>1 DEF StoreInv, TypeOK, PromisesKept, LoopIsCurrent
<1>3. TypeOK'
  <2>1. timer' \in 0..MaxGeneration
    BY PersistenceAssumption DEF StoreInv, TypeOK
  <2>3. held' \in BOOLEAN
    BY Zenon DEF StoreInv, TypeOK
  <2>2. timer' # 0 => timer' = generation' /\ at'[timer'] \in {"armed", "fired"}
    <3>1. HAVE timer' # 0
    <3>2. timer' = timer /\ timer = generation /\ at[timer] \in {"armed", "fired"}
      BY <3>1 DEF StoreInv, TypeOK
    <3>3. timer \in Threads
      BY <3>1, <3>2, PersistenceAssumption DEF StoreInv, TypeOK, Threads, Timers
    <3> QED BY <1>1, <3>1, <3>2, <3>3
  <2> QED BY <1>1, <1>2, <2>1, <2>2, <2>3 DEF StoreInv, TypeOK
<1>4. ChangesAreCounted'
  BY <1>1 DEF StoreInv, ChangesAreCounted
<1>5. SnapshotsAreBounded'
  BY <1>1 DEF StoreInv, SnapshotsAreBounded
<1>6. WriterIsNewest'
  BY <1>1 DEF StoreInv, WriterIsNewest
<1>7. LoopIsCurrent'
  BY <1>1 DEF StoreInv, LoopIsCurrent
<1> QED BY <1>2, <1>3, <1>4, <1>5, <1>6, <1>7 DEF StoreInv, PromisesKept

\* The thread that has the writer's lock or a snapshot is not the armed one.
LEMMA ArmedIsWaiting ==
    ASSUME StoreInv, NEW t \in Threads, at[t] \notin {"armed", "fired"}
    PROVE  t # timer \/ timer = 0
BY DEF StoreInv, TypeOK

\* The steps in which nothing is claimed, copied or written (persistence.py:53-142).
LEMMA QuietSteps ==
    ASSUME StoreInv, NEW t \in Threads,
           \/ t = Loop /\ Flush
           \/ t \in Timers /\ Fire(t)
           \/ Claim(t) /\ ~MayClaim(t)
           \/ LockWriter(t) \/ WriteFails(t) \/ LeaveDirty(t) \/ DecideClean(t) \/ MarkClean(t)
           \/ CheckCurrent(t) /\ ~IsCurrent(t)
    PROVE  StoreInv'
<1>1. /\ dirty \in BOOLEAN /\ held \in BOOLEAN /\ failures \in 0..MaxFailures
      /\ writer \in Threads \cup {Nobody} /\ Home(t) \in {"idle", "ended"}
      /\ at[t] \in {"locked", "checked"} => writer = t
      /\ {"idle", "fired", "ended", "locked", "failed", "cleaning"} \subseteq Place
  BY DEF StoreInv, TypeOK, Home, WriterIsNewest, Place
<1>2. CASE t = Loop /\ Flush
  BY <1>1, <1>2, MoveStep, ThreadsAreNumbered DEF Flush, Goto
<1>3. CASE t \in Timers /\ Fire(t)
  BY <1>1, <1>3, MoveStep DEF Fire, Goto
<1>4. CASE Claim(t) /\ ~MayClaim(t)
  <2>1. t # timer \/ timer = 0
    BY <1>4, ThreadsAreNumbered DEF StoreInv, TypeOK, MayClaim
  <2> QED BY <1>1, <1>4, <2>1, MoveStep DEF Claim, Goto
<1>5. CASE LockWriter(t)
  <2>1. t # timer \/ timer = 0
    BY <1>5, ArmedIsWaiting DEF LockWriter
  <2>2. \A u \in Threads : writer # u
    BY <1>5, ThreadsAreNumbered DEF LockWriter
  <2> QED BY <1>1, <1>5, <2>1, <2>2, MoveStep DEF LockWriter, Goto
<1>6. CASE WriteFails(t)
  <2>1. t # timer \/ timer = 0
    BY <1>6, ArmedIsWaiting DEF WriteFails
  <2>2. failures' \in 0..MaxFailures
    BY <1>1, <1>6, PersistenceAssumption DEF WriteFails
  <2> QED BY <1>1, <1>6, <2>1, <2>2, MoveStep DEF WriteFails, Goto
<1>7. CASE LeaveDirty(t)
  <2>1. t # timer \/ timer = 0
    BY <1>7, ArmedIsWaiting DEF LeaveDirty
  <2>2. held' = held \/ (held' = FALSE /\ t = Loop)
    BY <1>1, <1>7 DEF LeaveDirty
  <2>3. writer' \in Threads \cup {Nobody} /\ \A u \in Threads \ {t} : writer = u => writer' = u
    BY <1>1, <1>7 DEF LeaveDirty
  <2> QED BY <1>1, <1>7, <2>1, <2>2, <2>3, MoveStep DEF LeaveDirty, Goto
<1>8. CASE DecideClean(t) \/ MarkClean(t)
  <2>1. t # timer \/ timer = 0
    BY <1>8, ArmedIsWaiting DEF DecideClean, MarkClean
  <2>2. held' = held \/ (held' = FALSE /\ t = Loop)
    BY <1>1, <1>8 DEF DecideClean, MarkClean, Returned
  <2>3. promised' = promised \/ (t = Loop /\ promised' = pending[Loop].snapshot)
    BY <1>8 DEF DecideClean, MarkClean, Returned
  <2>4. /\ UNCHANGED <<memory, file, generation, timer, writer, pending, failures>>
        /\ dirty' \in BOOLEAN
    BY <1>1, <1>8 DEF DecideClean, MarkClean
  <2>5. PICK place \in {"idle", "ended", "cleaning"} :
            at' = [at EXCEPT ![t] = place] /\ (place = "cleaning" => at[t] = "written")
    BY <1>1, <1>8 DEF DecideClean, MarkClean, Goto
  <2>6. at[t] \in {"written", "cleaning"}
    BY <1>8 DEF DecideClean, MarkClean
  <2> QED BY <1>1, <2>1, <2>2, <2>3, <2>4, <2>5, <2>6, MoveStep
<1>9. CASE CheckCurrent(t) /\ ~IsCurrent(t)
  <2>1. (t # timer \/ timer = 0) /\ at[t] = "locked"
    BY <1>9, ArmedIsWaiting DEF CheckCurrent
  <2>2. t # Loop
    BY <1>9, <2>1 DEF StoreInv, LoopIsCurrent, IsCurrent
  <2>3. held' = held /\ promised' = promised
    BY <1>1, <1>9, <2>2 DEF CheckCurrent, Returned
  <2> QED BY <1>1, <1>9, <2>1, <2>3, MoveStep DEF CheckCurrent, Goto
<1> QED BY <1>2, <1>3, <1>4, <1>5, <1>6, <1>7, <1>8, <1>9

\* A timer, or a flush, claims the generation and cancels what still sleeps
\* (persistence.py:102-120).
LEMMA ClaimStep == ASSUME StoreInv, NEW t \in Threads, Claim(t), MayClaim(t) PROVE StoreInv'
<1>1. /\ UNCHANGED <<memory, file, dirty, generation, held, writer, promised, failures>>
      /\ at[t] = "fired" /\ timer' = 0
      /\ pending' = [pending EXCEPT ![t].generation = generation]
      /\ at' = [Cancelled EXCEPT ![t] = "claimed"]
      /\ generation \in 0..MaxGeneration /\ generation <= generation
      /\ pending \in [Threads -> [generation : 0..MaxGeneration, snapshot : 0..MaxGeneration]]
      /\ Loop \in Threads
  BY PersistenceAssumption, ThreadsAreNumbered DEF StoreInv, TypeOK, Claim
<1>2. /\ at' \in [Threads -> Place] /\ at'[t] = "claimed"
      /\ \A u \in Threads : u # t => at'[u] = at[u] \/ (u # Loop /\ at'[u] = "ended")
  <2>1. "claimed" \in Place
    BY DEF Place
  <2> QED BY <1>1, <2>1, CancelledIs
<1>3. /\ pending' \in [Threads -> [generation : 0..MaxGeneration, snapshot : 0..MaxGeneration]]
      /\ \A u \in Threads : u # t => pending'[u] = pending[u]
      /\ pending'[t].generation = generation
  BY <1>1
<1>4. TypeOK'
  <2>1. 0 \in 0..MaxGeneration
    BY PersistenceAssumption
  <2> QED BY <1>1, <1>2, <1>3, <2>1 DEF StoreInv, TypeOK
<1>5. ChangesAreCounted'
  BY <1>1, <1>2, <1>3 DEF StoreInv, ChangesAreCounted
<1>6. SnapshotsAreBounded'
  BY <1>1, <1>2, <1>3 DEF StoreInv, SnapshotsAreBounded
<1>7. WriterIsNewest'
  BY <1>1, <1>2, <1>3 DEF StoreInv, WriterIsNewest
<1>8. LoopIsCurrent'
  BY <1>1, <1>2, <1>3 DEF StoreInv, LoopIsCurrent
<1> QED BY <1>1, <1>4, <1>5, <1>6, <1>7, <1>8 DEF StoreInv, PromisesKept

\* The state is copied under the store's lock: no change is half counted
\* (persistence.py:108).
LEMMA SnapshotStep == ASSUME StoreInv, NEW t \in Threads, Snapshot(t) PROVE StoreInv'
<1>1. /\ UNCHANGED <<memory, file, dirty, generation, timer, held, writer, promised, failures>>
      /\ at[t] = "claimed" /\ (t = Loop \/ ~held)
      /\ pending' = [pending EXCEPT ![t].snapshot = memory]
      /\ at' = [at EXCEPT ![t] = "snapped"] /\ memory \in 0..MaxGeneration
      /\ pending \in [Threads -> [generation : 0..MaxGeneration, snapshot : 0..MaxGeneration]]
      /\ at \in [Threads -> Place] /\ Loop \in Threads
  BY ThreadsAreNumbered DEF StoreInv, TypeOK, Snapshot, StoreFree, Goto
<1>2. memory = generation /\ at[Loop] \notin {"saving", "superseding"} /\ generation <= generation
  BY <1>1, PersistenceAssumption DEF StoreInv, TypeOK, ChangesAreCounted
<1>3. /\ at' \in [Threads -> Place] /\ at'[t] = "snapped"
      /\ \A u \in Threads : u # t => at'[u] = at[u]
  BY <1>1 DEF Place
<1>4. /\ pending' \in [Threads -> [generation : 0..MaxGeneration, snapshot : 0..MaxGeneration]]
      /\ \A u \in Threads : u # t => pending'[u] = pending[u]
      /\ pending'[t].generation = pending[t].generation /\ pending'[t].snapshot = memory
  BY <1>1
<1>5. TypeOK'
  <2>1. t # timer \/ timer = 0
    BY <1>1, ArmedIsWaiting
  <2>2. timer # 0 => timer \in Threads
    BY PersistenceAssumption DEF StoreInv, TypeOK, Threads, Timers
  <2>3. timer' # 0 => timer' = generation' /\ at'[timer'] \in {"armed", "fired"}
    BY <1>1, <1>3, <2>1, <2>2 DEF StoreInv, TypeOK
  <2> QED BY <1>1, <1>3, <1>4, <2>3 DEF StoreInv, TypeOK
<1>6. ChangesAreCounted'
  BY <1>1, <1>2, <1>3 DEF ChangesAreCounted
<1>7. SnapshotsAreBounded'
  BY <1>1, <1>2, <1>3, <1>4 DEF StoreInv, SnapshotsAreBounded
<1>8. WriterIsNewest'
  BY <1>1, <1>3, <1>4 DEF StoreInv, WriterIsNewest
<1>9. LoopIsCurrent'
  BY <1>1, <1>3, <1>4 DEF StoreInv, LoopIsCurrent
<1> QED BY <1>1, <1>5, <1>6, <1>7, <1>8, <1>9 DEF StoreInv, PromisesKept

\* The check under the writer's lock passes: the snapshot is the newest there is
\* (persistence.py:97).
LEMMA CheckStep == ASSUME StoreInv, NEW t \in Threads, CheckCurrent(t), IsCurrent(t) PROVE StoreInv'
<1>1. /\ UNCHANGED <<memory, file, dirty, generation, timer, held, writer, pending, promised,
                     failures>>
      /\ at[t] = "locked" /\ at' = [at EXCEPT ![t] = "checked"]
      /\ pending[t].generation = generation /\ at \in [Threads -> Place] /\ Loop \in Threads
  BY ThreadsAreNumbered DEF StoreInv, TypeOK, CheckCurrent, IsCurrent, Goto
<1>2. /\ at' \in [Threads -> Place] /\ at'[t] = "checked"
      /\ \A u \in Threads : u # t => at'[u] = at[u]
  BY <1>1 DEF Place
<1>3. /\ writer = t /\ pending[t].snapshot = pending[t].generation
      /\ file <= pending[t].snapshot
  <2>1. /\ pending[t].generation <= pending[t].snapshot /\ pending[t].snapshot <= generation
        /\ pending[t].snapshot \in Nat /\ generation \in Nat
    BY <1>1, PersistenceAssumption DEF StoreInv, TypeOK, SnapshotsAreBounded
  <2>2. pending[t].snapshot = generation
    BY <1>1, <2>1
  <2> QED BY <1>1, <2>2 DEF StoreInv, WriterIsNewest
<1>4. TypeOK'
  <2>1. t # timer \/ timer = 0
    BY <1>1, ArmedIsWaiting
  <2>2. timer # 0 => timer \in Threads
    BY PersistenceAssumption DEF StoreInv, TypeOK, Threads, Timers
  <2>3. timer' # 0 => timer' = generation' /\ at'[timer'] \in {"armed", "fired"}
    BY <1>1, <1>2, <2>1, <2>2 DEF StoreInv, TypeOK
  <2> QED BY <1>1, <1>2, <2>3 DEF StoreInv, TypeOK
<1>5. ChangesAreCounted'
  BY <1>1, <1>2 DEF StoreInv, ChangesAreCounted
<1>6. SnapshotsAreBounded'
  BY <1>1, <1>2 DEF StoreInv, SnapshotsAreBounded
<1>7. WriterIsNewest'
  BY <1>1, <1>2, <1>3 DEF StoreInv, WriterIsNewest
<1>8. LoopIsCurrent'
  BY <1>1, <1>2 DEF StoreInv, LoopIsCurrent
<1> QED BY <1>1, <1>4, <1>5, <1>6, <1>7, <1>8 DEF StoreInv, PromisesKept

\* The file becomes the snapshot, which is not older than it (persistence.py:144).
LEMMA WriteFileStep ==
    ASSUME StoreInv, NEW t \in Threads, WriteFile(t)
    PROVE  StoreInv' /\ file' >= file
<1>1. /\ UNCHANGED <<memory, dirty, generation, timer, held, pending, promised, failures>>
      /\ at[t] = "checked" /\ at' = [at EXCEPT ![t] = "written"]
      /\ file' = pending[t].snapshot /\ writer' = Nobody
      /\ at \in [Threads -> Place] /\ Loop \in Threads
      /\ pending[t] \in [generation : 0..MaxGeneration, snapshot : 0..MaxGeneration]
  BY ThreadsAreNumbered DEF StoreInv, TypeOK, WriteFile, Goto
<1>2. /\ at' \in [Threads -> Place] /\ at'[t] = "written"
      /\ \A u \in Threads : u # t => at'[u] = at[u]
  BY <1>1 DEF Place
<1>3. /\ file \in Nat /\ file' \in 0..MaxGeneration /\ file <= file' /\ generation \in Nat
      /\ file' <= generation /\ writer = t
      /\ \A u \in Threads : u # t => at[u] \notin {"locked", "checked"}
  BY <1>1, PersistenceAssumption DEF StoreInv, TypeOK, WriterIsNewest, SnapshotsAreBounded
<1>4. TypeOK'
  <2>1. t # timer \/ timer = 0
    BY <1>1, ArmedIsWaiting
  <2>2. timer # 0 => timer \in Threads
    BY PersistenceAssumption DEF StoreInv, TypeOK, Threads, Timers
  <2>3. timer' # 0 => timer' = generation' /\ at'[timer'] \in {"armed", "fired"}
    BY <1>1, <1>2, <2>1, <2>2 DEF StoreInv, TypeOK
  <2> QED BY <1>1, <1>2, <1>3, <2>3 DEF StoreInv, TypeOK
<1>5. ChangesAreCounted'
  BY <1>1, <1>2 DEF StoreInv, ChangesAreCounted
<1>6. SnapshotsAreBounded'
  BY <1>1, <1>2 DEF StoreInv, SnapshotsAreBounded
<1>7. WriterIsNewest'
  BY <1>1, <1>2, <1>3 DEF WriterIsNewest
<1>8. LoopIsCurrent'
  <2>1. CASE t = Loop
    BY <1>1, <1>2, <1>3, <2>1 DEF StoreInv, LoopIsCurrent
  <2>2. CASE t # Loop
    <3>1. pending[Loop].snapshot \in Nat
      BY <1>1, PersistenceAssumption DEF StoreInv, TypeOK
    <3> QED BY <1>1, <1>2, <1>3, <2>2, <3>1 DEF StoreInv, LoopIsCurrent
  <2> QED BY <2>1, <2>2
<1>9. PromisesKept'
  <2>1. promised \in Nat
    BY PersistenceAssumption DEF StoreInv, TypeOK
  <2> QED BY <1>1, <1>3, <2>1 DEF StoreInv, PromisesKept
<1> QED BY <1>1, <1>3, <1>4, <1>5, <1>6, <1>7, <1>8, <1>9 DEF StoreInv

-----------------------------------------------------------------------------
(* The theorems *)

\* The store starts with what it loaded (persistence.py:29).
LEMMA StoreInit == ASSUME Init PROVE StoreInv
<1>1. /\ 0 \in 0..MaxGeneration /\ 0 \in 0..MaxFailures /\ Loop \in Threads
      /\ NoWrite \in [generation : 0..MaxGeneration, snapshot : 0..MaxGeneration]
  BY PersistenceAssumption, ThreadsAreNumbered DEF NoWrite
<1>2. /\ at \in [Threads -> Place]
      /\ \A t \in Threads : at[t] \in {"idle", "unborn"}
  BY DEF Init, Place
<1>3. TypeOK
  BY <1>1, <1>2 DEF Init, TypeOK
<1> QED BY <1>1, <1>2, <1>3 DEF Init, StoreInv, ChangesAreCounted, SnapshotsAreBounded,
           WriterIsNewest, LoopIsCurrent, PromisesKept

\* Whatever happens next, the invariant stays true and the file does not go back.
LEMMA StoreNext == ASSUME StoreInv, [Next]_vars PROVE StoreInv' /\ file' >= file
<1>1. file \in Nat
  BY PersistenceAssumption DEF StoreInv, TypeOK
<1>2. CASE UNCHANGED vars
  BY <1>1, <1>2 DEF vars, StoreInv, TypeOK, ChangesAreCounted, SnapshotsAreBounded, WriterIsNewest,
                    LoopIsCurrent, PromisesKept
<1>3. CASE Save \/ Schedule \/ Flush \/ Clear \/ Supersede
  <2>1. file' = file
    BY <1>3 DEF Save, Schedule, Flush, Clear, Supersede
  <2> QED BY <1>1, <1>3, <2>1, ChangeStep, ScheduleStep, SupersedeStep, QuietSteps,
             ThreadsAreNumbered
<1>4. CASE \E t \in Timers : Fire(t)
  <2>1. PICK t \in Timers : Fire(t)
    BY <1>4
  <2>2. t \in Threads /\ file' = file
    BY <2>1, ThreadsAreNumbered DEF Fire
  <2> QED BY <1>1, <2>1, <2>2, QuietSteps
<1>5. CASE \E t \in Threads : Write(t)
  <2>1. PICK t \in Threads : Write(t)
    BY <1>5
  <2>2. CASE WriteFile(t)
    BY <2>2, WriteFileStep
  <2>3. CASE ~WriteFile(t)
    <3>1. file' = file
      BY <2>1, <2>3 DEF Write, Claim, Snapshot, LockWriter, CheckCurrent, WriteFails, LeaveDirty,
                        DecideClean, MarkClean
    <3>2. StoreInv'
      BY <2>1, <2>3, ClaimStep, SnapshotStep, CheckStep, QuietSteps DEF Write
    <3> QED BY <1>1, <3>1, <3>2
  <2> QED BY <2>2, <2>3
<1> QED BY <1>2, <1>3, <1>4, <1>5 DEF Next

\* For any number of saves, clears and timer threads: what a flush or a clear returned for
\* is on disk, and no snapshot of an earlier state lands on it (persistence.py:29-161).
THEOREM PromisesAreKept == Spec => StoreKeepsPromises
<1>1. StoreInv => TypeOK /\ PromisesKept
  BY DEF StoreInv
<1>2. StoreInv /\ [Next]_vars => [file' >= file]_vars
  BY StoreNext
<1> QED BY <1>1, <1>2, StoreInit, StoreNext, PTL
        DEF Spec, StoreKeepsPromises, NoOlderSnapshotLands

\* A thread that has passed the check writes exactly the newest generation it can know of,
\* and nobody else can write meanwhile (persistence.py:93-100).
THEOREM WritersAreNewest == Spec => []WriterIsNewest
<1>1. StoreInv => WriterIsNewest
  BY DEF StoreInv
<1> QED BY <1>1, StoreInit, StoreNext, PTL DEF Spec

-----------------------------------------------------------------------------
(* Voice notes: VoiceNotes *)

Before  == {"new", "status", "bind", "download", "transcribe", "listening", "waiting", "handoff"}
WithFile == {"download", "transcribe", "listening", "waiting", "handoff", "joined", "draining"}
Points  == Before \cup WithFile \cup {"cleanup", "done"}
Flow    == [pc : Points, bound : BOOLEAN, sent : BOOLEAN, file : BOOLEAN, handed : BOOLEAN,
            voided : BOOLEAN, reported : BOOLEAN, deleted : BOOLEAN]
Children == {"none", "created", "running", "cancelling", "completed", "cancelled", "failed"}

NotesType ==
    /\ flow \in [Flows -> Flow] /\ child \in [Flows -> Children]
    /\ ops \in [Notes!Cancellers -> [pc : {"idle", "draining", "done"}, took : SUBSET Flows]]
    /\ service \in [thread : Flows \cup {Notes!Nobody}, closed : BOOLEAN, released : BOOLEAN]

\* An entry is under an id of its note.
Registered ==
    \A i \in DOMAIN notes : notes[i] \in Flows /\ i \in {Voice[notes[i]], StatusOf[notes[i]]}

HasAlias(f) == StatusOf[f] \in DOMAIN notes /\ notes[StatusOf[f]] = f

\* What each point of its flow says of a note.
Situated(f) ==
    /\ HasAlias(f) <=> Notes!Owns(f) /\ flow[f].bound
    /\ flow[f].pc \in {"new", "done"} => ~Notes!Owns(f)
    /\ flow[f].pc \in {"new", "status", "bind"} => ~flow[f].bound
    /\ flow[f].pc \in Before => child[f] = "none"
    /\ flow[f].pc \in {"cleanup", "done"} => ~Notes!Active(f)
    /\ flow[f].pc \in WithFile => flow[f].file
    /\ flow[f].deleted => flow[f].pc = "done"

Taker(c, f) == ops[c].pc # "idle" /\ f \in ops[c].took

\* A note that was taken is nobody's any more, and its child will not begin.
Released(f) ==
    /\ flow[f].voided \/ flow[f].reported \/ (\E c \in Notes!Cancellers : Taker(c, f)) =>
           ~Notes!Owns(f) /\ flow[f].pc # "new" /\ child[f] # "created"
    /\ flow[f].voided => ~flow[f].handed
    /\ flow[f].reported => flow[f].bound /\ ~flow[f].deleted

Settled(f) ==
    /\ Notes!Active(f) => Notes!Owns(f) \/ \E c \in Notes!Cancellers : ops[c].pc = "draining" /\ f \in ops[c].took
    /\ \A c \in Notes!Cancellers : ops[c].pc = "done" /\ f \in ops[c].took => ~Notes!Active(f)

ThreadIsWaitedFor ==
    /\ service.thread # Notes!Nobody => flow[service.thread].pc \in {"listening", "waiting"}
    /\ service.released => service.closed /\ service.thread = Notes!Nobody

Sound(f) == Situated(f) /\ Released(f) /\ Settled(f)

NotesInv == NotesType /\ Registered /\ (\A f \in Flows : Sound(f)) /\ ThreadIsWaitedFor /\ Notes!NoJoinCycle

-----------------------------------------------------------------------------
\* What removing the entries of some notes leaves (voice.py _remove_entry).
LEMMA DroppedIs ==
    ASSUME NEW F, notes' = Notes!Dropped(F), Registered
    PROVE  /\ Registered'
           /\ \A f \in Flows : /\ Notes!Owns(f)' <=> Notes!Owns(f) /\ f \notin F
                               /\ HasAlias(f)' <=> HasAlias(f) /\ f \notin F
<1>1. /\ DOMAIN notes' = {i \in DOMAIN notes : notes[i] \notin F}
      /\ \A i \in DOMAIN notes' : notes'[i] = notes[i]
  BY DEF Notes!Dropped, Notes!Keys
<1>2. Registered'
  BY <1>1 DEF Registered
<1> QED BY <1>1, <1>2 DEF Notes!Owns, HasAlias

\* A wait that goes on was going on before, unless it is of somebody who just began.
LEMMA NoNewWaits ==
    ASSUME NotesInv, ops' = ops,
           \A f \in Flows : Notes!Active(f)' => Notes!Active(f) \/ Notes!Owns(f)
    PROVE  Notes!NoJoinCycle'
<1>1. \A f, g \in Flows : ops'[f].pc = "draining" /\ g \in ops'[f].took /\ Notes!Active(g)'
          => ops[f].pc = "draining" /\ g \in ops[f].took /\ Notes!Active(g)
  BY DEF NotesInv, Sound, Released, Taker, Notes!Cancellers
<1>2. Notes!NoJoinCycle
  BY DEF NotesInv
<1> QED BY <1>1, <1>2 DEF Notes!NoJoinCycle

\* A step of one flow that takes nothing keeps all that is said of the other notes.
LEMMA OneFlow ==
    ASSUME NotesInv, NEW f \in Flows,
           NotesType', Registered', ThreadIsWaitedFor', Sound(f)', ops' = ops,
           Notes!Active(f)' => Notes!Active(f) \/ Notes!Owns(f),
           \A g \in Flows \ {f} : /\ flow'[g] = flow[g] /\ child'[g] = child[g]
                                  /\ Notes!Owns(g)' <=> Notes!Owns(g)
                                  /\ HasAlias(g)' <=> HasAlias(g)
    PROVE  NotesInv'
<1>1. ASSUME NEW g \in Flows, g # f PROVE Sound(g)'
  <2>1. Sound(g) /\ flow'[g] = flow[g] /\ child'[g] = child[g] /\ (Notes!Owns(g)' <=> Notes!Owns(g))
        /\ (HasAlias(g)' <=> HasAlias(g))
    BY <1>1 DEF NotesInv
  <2>2. Notes!Active(g)' <=> Notes!Active(g)
    BY <2>1 DEF Notes!Active
  <2>3. \A c \in Notes!Cancellers : Taker(c, g)' <=> Taker(c, g)
    BY DEF Taker
  <2>4. Situated(g)'
    BY <2>1, <2>2 DEF Sound, Situated
  <2>5. Released(g)'
    BY <2>1, <2>3 DEF Sound, Released
  <2>6. Settled(g)'
    BY <2>1, <2>2 DEF Sound, Settled
  <2> QED BY <2>4, <2>5, <2>6 DEF Sound
<1>2. \A g \in Flows : Notes!Active(g)' => Notes!Active(g) \/ Notes!Owns(g)
  BY DEF Notes!Active
<1>3. Notes!NoJoinCycle'
  BY <1>2, NoNewWaits
<1> QED BY <1>1, <1>3 DEF NotesInv

\* Of those, the steps that leave the registry and the children alone.
LEMMA FlowMoves ==
    ASSUME NotesInv, NEW f \in Flows, NEW r \in Flow,
           flow' = [flow EXCEPT ![f] = r], UNCHANGED <<notes, child, ops>>,
           NotesType', ThreadIsWaitedFor',
           r.pc # "new", r.bound = flow[f].bound, r.handed = flow[f].handed,
           r.voided = flow[f].voided, r.reported = flow[f].reported, r.deleted = flow[f].deleted,
           r.pc = "done" => ~Notes!Owns(f),
           r.pc \in {"status", "bind"} => ~r.bound,
           r.pc \in Before => child[f] = "none",
           r.pc \in {"cleanup", "done"} => ~Notes!Active(f),
           r.pc \in WithFile => r.file,
           r.deleted => r.pc = "done"
    PROVE  NotesInv'
<1>1. /\ flow'[f] = r /\ \A g \in Flows \ {f} : flow'[g] = flow[g]
  BY DEF NotesInv, NotesType
<1>2. \A g \in Flows : /\ Notes!Owns(g)' <=> Notes!Owns(g)
                       /\ HasAlias(g)' <=> HasAlias(g)
                       /\ Notes!Active(g)' <=> Notes!Active(g)
  BY DEF Notes!Owns, HasAlias, Notes!Active
<1>3. Registered'
  BY DEF NotesInv, Registered
<1>4. Sound(f)
  BY DEF NotesInv
<1>5. Situated(f)'
  BY <1>1, <1>2, <1>4 DEF Sound, Situated
<1>6. Released(f)'
  BY <1>1, <1>2, <1>4 DEF Sound, Released, Taker
<1>7. Settled(f)'
  BY <1>1, <1>2, <1>4 DEF Sound, Settled
<1> QED BY <1>1, <1>2, <1>3, <1>5, <1>6, <1>7, OneFlow DEF Sound

\* The fields of a flow that steps change, one by one.
LEMMA FlowIs ==
    ASSUME NotesInv, NEW f \in Flows
    PROVE  /\ flow[f] \in Flow /\ flow \in [Flows -> Flow] /\ child \in [Flows -> Children]
           /\ child[f] \in Children
           /\ service \in [thread : Flows \cup {Notes!Nobody}, closed : BOOLEAN, released : BOOLEAN]
           /\ Situated(f) /\ Released(f) /\ Settled(f)
BY DEF NotesInv, NotesType, Sound

LEMMA ReserveKeeps == ASSUME Notes!VoiceAssumption, NotesInv, NEW f \in Flows, Notes!Reserve(f) PROVE NotesInv'
<1>1. flow[f] \in Flow /\ flow[f].pc = "new" /\ Situated(f) /\ Released(f) /\ Settled(f)
  BY FlowIs DEF Notes!Reserve
<1>2. CASE Voice[f] \in DOMAIN notes
  <2> DEFINE r == [flow[f] EXCEPT !.pc = "done"]
  <2>1. r \in Flow /\ flow' = [flow EXCEPT ![f] = r] /\ UNCHANGED <<notes, child, ops, service>>
    BY <1>1, <1>2 DEF Notes!Reserve, Notes!Goto, Flow, Points, Before, WithFile
  <2>2. NotesType' /\ ThreadIsWaitedFor'
    BY <2>1, <1>1 DEF NotesInv, NotesType, ThreadIsWaitedFor, Flow
  <2> QED BY <1>1, <2>1, <2>2, FlowMoves DEF Situated, Notes!Active, Before, WithFile, Flow
<1>3. CASE Voice[f] \notin DOMAIN notes
  <2> DEFINE r == [flow[f] EXCEPT !.pc = "status"]
  <2>1. r \in Flow /\ flow' = [flow EXCEPT ![f] = r] /\ UNCHANGED <<child, ops, service>>
        /\ notes' = Notes!Published(Voice[f], f)
    BY <1>1, <1>3 DEF Notes!Reserve, Notes!Goto, Flow, Points, Before, WithFile
  <2>2. /\ DOMAIN notes' = DOMAIN notes \cup {Voice[f]}
        /\ notes'[Voice[f]] = f
        /\ \A i \in DOMAIN notes : notes'[i] = notes[i]
    BY <2>1, <1>3 DEF Notes!Published
  <2>3. Registered'
    BY <2>2 DEF NotesInv, Registered
  <2>4. NotesType' /\ ThreadIsWaitedFor'
    BY <2>1, <1>1 DEF NotesInv, NotesType, ThreadIsWaitedFor, Flow
  <2>5. \A g \in Flows : HasAlias(g)' <=> HasAlias(g)
    BY <2>2 DEF HasAlias, Notes!VoiceAssumption
  <2>6. \A g \in Flows : g # f => (Notes!Owns(g)' <=> Notes!Owns(g))
    BY <2>2, <1>3 DEF Notes!Owns
  <2>7. flow'[f] = r /\ \A g \in Flows \ {f} : flow'[g] = flow[g]
    BY <2>1, FlowIs
  <2>8. Notes!Owns(f)' /\ ~flow'[f].bound /\ flow'[f].pc = "status" /\ ~HasAlias(f) /\ child'[f] = "none"
    BY <2>1, <2>2, <2>7, <1>1 DEF Notes!Owns, Situated, Flow, Before
  <2>9. Sound(f)'
    <3>1. Situated(f)'
      BY <2>5, <2>8, <2>7, <2>1, <1>1 DEF Situated, Notes!Active, Before, WithFile, Flow
    <3>2. Released(f)'
      BY <2>7, <2>1, <1>1 DEF Released, Taker, Flow
    <3>3. Settled(f)'
      BY <2>8 DEF Settled, Notes!Active
    <3> QED BY <3>1, <3>2, <3>3 DEF Sound
  <2> QED BY <2>1, <2>3, <2>4, <2>5, <2>6, <2>7, <2>8, <2>9, OneFlow DEF Notes!Active
<1> QED BY <1>2, <1>3

LEMMA SendStatusKeeps == ASSUME NotesInv, NEW f \in Flows, Notes!SendStatus(f) PROVE NotesInv'
<1>1. flow[f] \in Flow /\ flow[f].pc = "status" /\ Situated(f)
  BY FlowIs DEF Notes!SendStatus
<1>2. PICK r \in {[flow[f] EXCEPT !.pc = "bind", !.sent = TRUE], [flow[f] EXCEPT !.pc = "cleanup"]} :
          flow' = [flow EXCEPT ![f] = r]
  BY FlowIs DEF Notes!SendStatus, Notes!Goto
<1>3. r \in Flow /\ UNCHANGED <<notes, child, ops, service>>
  BY <1>1, <1>2 DEF Notes!SendStatus, Flow, Points, Before, WithFile
<1>4. NotesType' /\ ThreadIsWaitedFor'
  BY <1>1, <1>2, <1>3 DEF NotesInv, NotesType, ThreadIsWaitedFor, Flow
<1> QED BY <1>1, <1>2, <1>3, <1>4, FlowMoves DEF Situated, Notes!Active, Before, WithFile, Flow

LEMMA BindStatusKeeps == ASSUME Notes!VoiceAssumption, NotesInv, NEW f \in Flows, Notes!BindStatus(f) PROVE NotesInv'
<1>1. flow[f] \in Flow /\ flow[f].pc = "bind" /\ Situated(f) /\ Released(f) /\ Settled(f)
  BY FlowIs DEF Notes!BindStatus
<1>2. CASE ~Notes!Owns(f)
  <2> DEFINE r == [flow[f] EXCEPT !.pc = "cleanup"]
  <2>1. r \in Flow /\ flow' = [flow EXCEPT ![f] = r] /\ UNCHANGED <<notes, child, ops, service>>
    BY <1>1, <1>2 DEF Notes!BindStatus, Notes!Goto, Flow, Points, Before, WithFile
  <2>2. NotesType' /\ ThreadIsWaitedFor'
    BY <2>1, <1>1 DEF NotesInv, NotesType, ThreadIsWaitedFor, Flow
  <2> QED BY <1>1, <2>1, <2>2, FlowMoves DEF Situated, Notes!Active, Before, WithFile, Flow
<1>3. CASE Notes!Owns(f)
  <2> DEFINE r == [flow[f] EXCEPT !.pc = "download", !.bound = TRUE, !.file = TRUE]
  <2>1. r \in Flow /\ flow' = [flow EXCEPT ![f] = r] /\ UNCHANGED <<child, ops, service>>
        /\ notes' = Notes!Published(StatusOf[f], f)
    BY <1>1, <1>3, FlowIs DEF Notes!BindStatus, Flow, Points, Before, WithFile
  <2>2. /\ DOMAIN notes' = DOMAIN notes \cup {StatusOf[f]}
        /\ notes'[StatusOf[f]] = f
        /\ \A i \in DOMAIN notes : i # StatusOf[f] => notes'[i] = notes[i]
    BY <2>1 DEF Notes!Published
  <2>3. Registered'
    BY <2>2 DEF NotesInv, Registered
  <2>4. NotesType' /\ ThreadIsWaitedFor'
    BY <2>1, <1>1 DEF NotesInv, NotesType, ThreadIsWaitedFor, Flow
  <2>5. \A g \in Flows : Notes!Owns(g)' <=> Notes!Owns(g)
    BY <2>2 DEF Notes!Owns, Notes!VoiceAssumption
  <2>6. \A g \in Flows : g # f => (HasAlias(g)' <=> HasAlias(g))
    BY <2>2 DEF HasAlias, Notes!VoiceAssumption
  <2>7. flow'[f] = r /\ \A g \in Flows \ {f} : flow'[g] = flow[g]
    BY <2>1, FlowIs
  <2>8. HasAlias(f)' /\ Notes!Owns(f)' /\ child'[f] = "none"
    BY <2>1, <2>2, <2>5, <1>1, <1>3 DEF HasAlias, Situated, Before
  <2>9. Sound(f)'
    <3>1. Situated(f)'
      BY <2>8, <2>7, <2>1, <1>1 DEF Situated, Notes!Active, Before, WithFile, Flow
    <3>2. Released(f)'
      BY <2>7, <2>1, <1>1, <1>3 DEF Released, Taker, Flow
    <3>3. Settled(f)'
      BY <2>8 DEF Settled, Notes!Active
    <3> QED BY <3>1, <3>2, <3>3 DEF Sound
  <2> QED BY <2>1, <2>3, <2>4, <2>5, <2>6, <2>7, <2>8, <2>9, OneFlow DEF Notes!Active
<1> QED BY <1>2, <1>3

LEMMA DownloadKeeps == ASSUME NotesInv, NEW f \in Flows, Notes!Download(f) PROVE NotesInv'
<1>1. flow[f] \in Flow /\ flow[f].pc = "download" /\ Situated(f)
  BY FlowIs DEF Notes!Download
<1>2. PICK r \in {[flow[f] EXCEPT !.pc = "transcribe"], [flow[f] EXCEPT !.pc = "cleanup"]} :
          flow' = [flow EXCEPT ![f] = r]
  BY FlowIs DEF Notes!Download, Notes!Goto
<1>3. r \in Flow /\ UNCHANGED <<notes, child, ops, service>>
  BY <1>1, <1>2 DEF Notes!Download, Flow, Points, Before, WithFile
<1>4. NotesType' /\ ThreadIsWaitedFor'
  BY <1>1, <1>2, <1>3 DEF NotesInv, NotesType, ThreadIsWaitedFor, Flow
<1> QED BY <1>1, <1>2, <1>3, <1>4, FlowMoves DEF Situated, Notes!Active, Before, WithFile, Flow

LEMMA StartThreadKeeps == ASSUME Notes!VoiceAssumption, NotesInv, NEW f \in Flows, Notes!StartThread(f) PROVE NotesInv'
<1>1. flow[f] \in Flow /\ flow[f].pc = "transcribe" /\ Situated(f) /\ service.thread = Notes!Nobody
  BY FlowIs DEF Notes!StartThread
<1>2. PICK r \in {[flow[f] EXCEPT !.pc = "listening"], [flow[f] EXCEPT !.pc = "cleanup"]} :
          flow' = [flow EXCEPT ![f] = r] /\ (r.pc = "cleanup" \/ ~service.closed)
          /\ service' = IF r.pc = "cleanup" THEN service ELSE [service EXCEPT !.thread = f]
  BY <1>1, FlowIs DEF Notes!StartThread, Notes!Goto, Flow
<1>3. r \in Flow /\ UNCHANGED <<notes, child, ops>> /\ r.pc \in {"listening", "cleanup"}
  BY <1>1, <1>2 DEF Notes!StartThread, Flow, Points, Before, WithFile
<1>4. NotesType'
  BY <1>1, <1>2, <1>3 DEF NotesInv, NotesType
<1>5. ThreadIsWaitedFor'
  BY <1>1, <1>2, <1>3, FlowIs DEF NotesInv, ThreadIsWaitedFor, Notes!VoiceAssumption
<1> QED BY <1>1, <1>2, <1>3, <1>4, <1>5, FlowMoves DEF Situated, Notes!Active, Before, WithFile, Flow

LEMMA EndThreadKeeps == ASSUME Notes!VoiceAssumption, NotesInv, NEW f \in Flows, Notes!EndThread(f) PROVE NotesInv'
<1>1. flow[f] \in Flow /\ flow[f].pc \in {"listening", "waiting"} /\ Situated(f)
  BY FlowIs DEF Notes!EndThread
<1>2. PICK r \in {[flow[f] EXCEPT !.pc = "handoff"], [flow[f] EXCEPT !.pc = "cleanup"]} :
          flow' = [flow EXCEPT ![f] = r]
  BY FlowIs DEF Notes!EndThread, Notes!Goto
<1>3. /\ r \in Flow /\ UNCHANGED <<notes, child, ops>>
      /\ service' = [service EXCEPT !.thread = Notes!Nobody] /\ service.thread = f
  BY <1>1, <1>2 DEF Notes!EndThread, Flow, Points, Before, WithFile
<1>4. NotesType'
  BY <1>1, <1>2, <1>3 DEF NotesInv, NotesType
<1>5. ThreadIsWaitedFor'
  BY <1>1, <1>2, <1>3, FlowIs DEF NotesInv, ThreadIsWaitedFor, Notes!VoiceAssumption
<1> QED BY <1>1, <1>2, <1>3, <1>4, <1>5, FlowMoves DEF Situated, Notes!Active, Before, WithFile, Flow

LEMMA HandoffKeeps == ASSUME Notes!VoiceAssumption, NotesInv, NEW f \in Flows, Notes!Handoff(f) PROVE NotesInv'
<1>1. flow[f] \in Flow /\ flow[f].pc = "handoff" /\ Situated(f) /\ Released(f) /\ Settled(f)
  BY FlowIs DEF Notes!Handoff
<1>2. CASE ~Notes!Owns(f)
  <2> DEFINE r == [flow[f] EXCEPT !.pc = "cleanup"]
  <2>1. r \in Flow /\ flow' = [flow EXCEPT ![f] = r] /\ UNCHANGED <<notes, child, ops, service>>
    BY <1>1, <1>2 DEF Notes!Handoff, Notes!Goto, Flow, Points, Before, WithFile
  <2>2. NotesType' /\ ThreadIsWaitedFor'
    BY <2>1, <1>1 DEF NotesInv, NotesType, ThreadIsWaitedFor, Flow
  <2> QED BY <1>1, <2>1, <2>2, FlowMoves DEF Situated, Notes!Active, Before, WithFile, Flow
<1>3. CASE Notes!Owns(f)
  <2> DEFINE r == [flow[f] EXCEPT !.pc = "joined"]
  <2>1. r \in Flow /\ flow' = [flow EXCEPT ![f] = r] /\ child' = [child EXCEPT ![f] = "created"]
        /\ UNCHANGED <<notes, ops, service>>
    BY <1>1, <1>3 DEF Notes!Handoff, Notes!Goto, Flow, Points, Before, WithFile
  <2>2. NotesType' /\ ThreadIsWaitedFor'
    BY <2>1, <1>1 DEF NotesInv, NotesType, ThreadIsWaitedFor, Flow, Children
  <2>3. flow'[f] = r /\ child'[f] = "created"
        /\ \A g \in Flows \ {f} : flow'[g] = flow[g] /\ child'[g] = child[g]
    BY <2>1, FlowIs
  <2>4. Registered'
    BY <2>1 DEF NotesInv, Registered
  <2>5. \A g \in Flows : /\ Notes!Owns(g)' <=> Notes!Owns(g)
                         /\ HasAlias(g)' <=> HasAlias(g)
    BY <2>1 DEF Notes!Owns, HasAlias
  <2>6. Situated(f)'
    BY <2>3, <2>5, <1>1, <1>3 DEF Situated, Notes!Active, Before, WithFile, Flow
  <2>7. Released(f)'
    BY <2>3, <2>5, <2>1, <1>1, <1>3 DEF Released, Taker, Flow
  <2>8. Settled(f)'
    BY <2>1, <2>5, <1>1, <1>3 DEF Settled, Released, Taker
  <2> QED BY <2>1, <2>2, <2>3, <2>4, <2>5, <2>6, <2>7, <2>8, <1>3, OneFlow DEF Sound
<1> QED BY <1>2, <1>3

\* The callback of a child, from its start to its end.
LEMMA ChildKeeps ==
    ASSUME NotesInv, NEW f \in Flows, Notes!ChildStarts(f) \/ Notes!ChildEnds(f) \/ Notes!ChildFails(f)
    PROVE  NotesInv'
<1>1. /\ flow[f] \in Flow /\ flow \in [Flows -> Flow] /\ child \in [Flows -> Children]
      /\ Situated(f) /\ Released(f) /\ Settled(f)
  BY FlowIs
<1>2. PICK s \in {"running", "completed", "cancelled", "failed"} : child' = [child EXCEPT ![f] = s]
  BY <1>1 DEF Notes!ChildStarts, Notes!ChildEnds, Notes!ChildFails
<1>3. PICK r \in {flow[f], [flow[f] EXCEPT !.handed = TRUE]} : flow' = [flow EXCEPT ![f] = r]
  BY <1>1 DEF Notes!ChildStarts, Notes!ChildEnds, Notes!ChildFails
<1>4. /\ flow'[f] = r /\ child'[f] = s /\ Notes!Active(f)
      /\ r.handed # flow[f].handed => child[f] = "created"
      /\ s = "running" => child[f] = "created"
      /\ \A g \in Flows \ {f} : flow'[g] = flow[g] /\ child'[g] = child[g]
      /\ UNCHANGED <<notes, ops, service>>
  BY <1>1, <1>2, <1>3 DEF Notes!ChildStarts, Notes!ChildEnds, Notes!ChildFails, Notes!Active
<1>5. /\ r.pc = flow[f].pc /\ r.bound = flow[f].bound /\ r.file = flow[f].file
      /\ r.voided = flow[f].voided /\ r.reported = flow[f].reported /\ r.deleted = flow[f].deleted
  BY <1>1 DEF Flow
<1>6. NotesType' /\ ThreadIsWaitedFor'
  <2>1. NotesType'
    BY <1>1, <1>2, <1>3, <1>4 DEF NotesInv, NotesType, Flow, Children
  <2>2. \A g \in Flows : flow'[g].pc = flow[g].pc
    BY <1>4, <1>5
  <2> QED BY <2>1, <2>2, <1>4 DEF NotesInv, NotesType, ThreadIsWaitedFor
<1>7. Registered'
  BY <1>4 DEF NotesInv, Registered
<1>8. \A g \in Flows : /\ Notes!Owns(g)' <=> Notes!Owns(g)
                       /\ HasAlias(g)' <=> HasAlias(g)
  BY <1>4 DEF Notes!Owns, HasAlias
<1>9. Situated(f)'
  BY <1>1, <1>4, <1>8, <1>5 DEF Situated, Notes!Active
<1>10. Released(f)'
  BY <1>1, <1>2, <1>4, <1>8, <1>5 DEF Released, Taker
<1>11. Settled(f)'
  BY <1>1, <1>4, <1>8 DEF Settled, Notes!Active
<1> QED BY <1>4, <1>6, <1>7, <1>8, <1>9, <1>10, <1>11, OneFlow DEF Sound

\* What ends a note: its entry goes, if it is still its own (voice.py _finish_ownership,
\* voice_flow.py _clear_failed_pending_voice).
LEMMA EndKeeps ==
    ASSUME NotesInv, NEW f \in Flows, Notes!Finish(f) \/ Notes!Cleanup(f)
    PROVE  NotesInv'
<1>1. /\ flow[f] \in Flow /\ flow \in [Flows -> Flow] /\ child \in [Flows -> Children]
      /\ Situated(f) /\ Released(f) /\ Settled(f) /\ ~Notes!Active(f)
      /\ flow[f].pc \in {"joined", "draining", "cleanup"}
      /\ UNCHANGED <<child, ops, service>>
  BY FlowIs DEF Notes!Finish, Notes!Cleanup, Situated
<1>2. PICK r \in Flow :
          /\ flow' = [flow EXCEPT ![f] = r] /\ r.pc \in {"cleanup", "done"}
          /\ r.bound = flow[f].bound /\ r.handed = flow[f].handed
          /\ r.voided = flow[f].voided /\ r.reported = flow[f].reported
          /\ r.deleted => r.pc = "done" /\ (Notes!Owns(f) \/ ~flow[f].bound)
  <2>1. CASE Notes!Finish(f)
    <3>1. PICK r \in {[flow[f] EXCEPT !.pc = "cleanup"], [flow[f] EXCEPT !.pc = "done", !.file = FALSE]} :
             flow' = [flow EXCEPT ![f] = r]
      BY <2>1, <1>1 DEF Notes!Finish, Notes!Goto
    <3>2. ~flow[f].deleted
      BY <1>1 DEF Situated
    <3>3. r \in Flow
      BY <3>1, <1>1 DEF Flow, Points, Before, WithFile
    <3>4. /\ r.pc \in {"cleanup", "done"} /\ r.bound = flow[f].bound /\ r.handed = flow[f].handed
          /\ r.voided = flow[f].voided /\ r.reported = flow[f].reported /\ ~r.deleted
      BY <3>1, <3>2, <1>1 DEF Flow
    <3> QED BY <3>1, <3>3, <3>4
  <2>2. CASE Notes!Cleanup(f)
    <3> DEFINE d == /\ flow[f].sent /\ ~flow[f].handed
                    /\ Notes!Owns(f) \/ ~flow[f].bound
               r == [flow[f] EXCEPT !.pc = "done", !.file = FALSE, !.deleted = d]
    <3>1. d \in BOOLEAN
      BY <1>1 DEF Flow
    <3>2. r \in Flow
      <4> HIDE DEF d
      <4> QED BY <3>1, <1>1 DEF Flow, Points, Before, WithFile
    <3>3. flow' = [flow EXCEPT ![f] = r]
      BY <2>2, <1>1 DEF Notes!Cleanup
    <3>4. /\ r.pc = "done" /\ r.bound = flow[f].bound /\ r.handed = flow[f].handed
          /\ r.voided = flow[f].voided /\ r.reported = flow[f].reported /\ r.deleted = d
      <4> HIDE DEF d
      <4> QED BY <3>1, <1>1 DEF Flow
    <3> QED BY <3>2, <3>3, <3>4
  <2> QED BY <2>1, <2>2
<1>3. /\ flow'[f] = r /\ \A g \in Flows \ {f} : flow'[g] = flow[g] /\ child'[g] = child[g]
  BY <1>1, <1>2
<1>4. /\ Registered'
      /\ ~Notes!Owns(f)' /\ ~HasAlias(f)'
      /\ \A g \in Flows \ {f} : /\ Notes!Owns(g)' <=> Notes!Owns(g)
                                /\ HasAlias(g)' <=> HasAlias(g)
  <2>1. Registered
    BY DEF NotesInv
  <2>2. CASE Notes!Owns(f)
    <3>1. notes' = Notes!Dropped({f})
      BY <2>2 DEF Notes!Finish, Notes!Cleanup
    <3> QED BY <2>1, <3>1, DroppedIs
  <2>3. CASE ~Notes!Owns(f)
    <3>1. notes' = notes
      BY <2>3 DEF Notes!Finish, Notes!Cleanup
    <3>2. ~HasAlias(f)
      BY <2>3, <1>1 DEF Situated
    <3> QED BY <2>1, <2>3, <3>1, <3>2 DEF Registered, Notes!Owns, HasAlias
  <2> QED BY <2>2, <2>3
<1>5. NotesType'
  BY <1>1, <1>2 DEF NotesInv, NotesType
<1>6. ThreadIsWaitedFor'
  BY <1>1, <1>3 DEF NotesInv, ThreadIsWaitedFor, NotesType
<1>7. Situated(f)'
  BY <1>1, <1>2, <1>3, <1>4 DEF Situated, Notes!Active, Before, WithFile
<1>8. Released(f)'
  BY <1>1, <1>2, <1>3, <1>4 DEF Released, Taker
<1>9. Settled(f)'
  BY <1>1 DEF Settled, Notes!Active
<1> QED BY <1>1, <1>3, <1>4, <1>5, <1>6, <1>7, <1>8, <1>9, OneFlow DEF Sound, Notes!Active

LEMMA KillFlowKeeps == ASSUME NotesInv, NEW f \in Flows, Notes!KillFlow(f) PROVE NotesInv'
<1>1. /\ flow[f] \in Flow /\ flow \in [Flows -> Flow] /\ child \in [Flows -> Children]
      /\ Situated(f) /\ Released(f) /\ Settled(f) /\ UNCHANGED <<notes, ops, service>>
  BY FlowIs DEF Notes!KillFlow
<1>2. CASE flow[f].pc = "joined"
  <2> DEFINE r == [flow[f] EXCEPT !.pc = "draining"]
  <2>1. /\ flow' = [flow EXCEPT ![f] = r] /\ child' = [child EXCEPT ![f] = "cancelling"]
        /\ Notes!Active(f) /\ r \in Flow
    BY <1>1, <1>2 DEF Notes!KillFlow, Notes!Goto, Flow, Points, Before, WithFile
  <2>2. /\ flow'[f] = r /\ child'[f] = "cancelling"
        /\ \A g \in Flows \ {f} : flow'[g] = flow[g] /\ child'[g] = child[g]
    BY <1>1, <2>1
  <2>3. NotesType'
    BY <1>1, <2>1 DEF NotesInv, NotesType, Children
  <2>4. ThreadIsWaitedFor'
    BY <1>1, <1>2, <2>2 DEF NotesInv, ThreadIsWaitedFor, NotesType, Flow
  <2>5. Registered'
    BY <1>1 DEF NotesInv, Registered
  <2>6. \A g \in Flows : /\ Notes!Owns(g)' <=> Notes!Owns(g)
                         /\ HasAlias(g)' <=> HasAlias(g)
    BY <1>1 DEF Notes!Owns, HasAlias
  <2>7. Situated(f)'
    BY <1>1, <1>2, <2>2, <2>6 DEF Situated, Notes!Active, Before, WithFile, Flow
  <2>8. Released(f)'
    BY <1>1, <1>2, <2>2, <2>6 DEF Released, Taker, Flow
  <2>9. Settled(f)'
    BY <1>1, <2>1, <2>2, <2>6 DEF Settled, Notes!Active
  <2> QED BY <1>1, <2>1, <2>2, <2>3, <2>4, <2>5, <2>6, <2>7, <2>8, <2>9, OneFlow DEF Sound
<1>3. CASE flow[f].pc # "joined"
  <2>1. PICK r \in {[flow[f] EXCEPT !.pc = "cleanup"], [flow[f] EXCEPT !.pc = "waiting"]} :
            /\ flow' = [flow EXCEPT ![f] = r] /\ UNCHANGED child
            /\ r.pc = "waiting" <=> flow[f].pc = "listening"
    BY <1>1, <1>3 DEF Notes!KillFlow, Notes!Goto, Flow
  <2>2. r \in Flow /\ flow[f].pc \in {"status", "bind", "download", "transcribe", "listening"}
    BY <1>1, <1>3, <2>1 DEF Notes!KillFlow, Flow, Points, Before, WithFile
  <2>3. NotesType'
    BY <1>1, <2>1, <2>2 DEF NotesInv, NotesType
  <2>4. ThreadIsWaitedFor'
    BY <1>1, <2>1, <2>2 DEF NotesInv, ThreadIsWaitedFor, NotesType, Flow
  <2> QED BY <1>1, <2>1, <2>2, <2>3, <2>4, FlowMoves DEF Situated, Notes!Active, Before, WithFile, Flow
<1> QED BY <1>2, <1>3

LEMMA ServiceKeeps == ASSUME NotesInv, Notes!Close \/ Notes!Release \/ UNCHANGED Notes!vars PROVE NotesInv'
<1>1. UNCHANGED <<flow, notes, child, ops>>
  BY DEF Notes!Close, Notes!Release, Notes!vars
<1>2. NotesType' /\ Registered' /\ ThreadIsWaitedFor'
  BY <1>1 DEF NotesInv, NotesType, Registered, ThreadIsWaitedFor, Notes!Close, Notes!Release, Notes!vars
<1>3. \A f \in Flows : Sound(f)'
  BY <1>1 DEF NotesInv, Sound, Situated, Released, Settled, Taker, Notes!Active, Notes!Owns, HasAlias
<1>4. Notes!NoJoinCycle'
  BY <1>1 DEF NotesInv, Notes!NoJoinCycle, Notes!Active
<1> QED BY <1>2, <1>3, <1>4 DEF NotesInv

\* Nobody waits for one who began to wait earlier: a note whose child asks is spared by
\* whoever asks later (voice.py _is_excluded).
LEMMA TakingMakesNoCycle ==
    ASSUME NotesInv, NEW c \in Notes!Cancellers, NEW F \in SUBSET Flows,
           \A f \in F : ~Notes!Excluded(c, f),
           \A d \in Notes!Cancellers \ {c} : ops'[d] = ops[d],
           ops'[c].took = F,
           \A f \in Flows : Notes!Active(f)' => Notes!Active(f)
    PROVE  Notes!NoJoinCycle'
<1> DEFINE waits(f, g) == ops[f].pc = "draining" /\ g \in ops[f].took /\ Notes!Active(g)
           waitsThen(f, g) == ops'[f].pc = "draining" /\ g \in ops'[f].took /\ Notes!Active(g)'
<1>1. \A f, g \in Flows : f # c /\ waitsThen(f, g) => waits(f, g)
  BY DEF Notes!Cancellers
<1>2. \A g \in F, h \in Flows : ~waitsThen(g, h)
  BY DEF Notes!Excluded, Notes!Cancellers
<1>3. \A S \in SUBSET Flows : S # {} => \E f \in S : \A g \in S : ~waits(f, g)
  BY DEF NotesInv, Notes!NoJoinCycle
<1>4. ASSUME NEW S \in SUBSET Flows, S # {} PROVE \E f \in S : \A g \in S : ~waitsThen(f, g)
  <2>1. CASE c \notin S
    BY <2>1, <1>1, <1>3, <1>4
  <2>2. CASE c \in S /\ \A g \in S : g \notin F
    BY <2>2
  <2>3. CASE \E g \in S : g \in F
    BY <2>3, <1>2
  <2> QED BY <2>1, <2>2, <2>3
<1> QED BY <1>4 DEF Notes!NoJoinCycle

\* Whoever takes notes takes them from their flows, and joins their children.
LEMMA TakenKeeps ==
    ASSUME NotesInv, NEW c \in Notes!Cancellers, NEW F \in SUBSET Flows, ops[c].pc = "idle",
           \A f \in F : Notes!Owns(f) /\ ~Notes!Excluded(c, f), Notes!Taken(c, F)
    PROVE  NotesInv'
<1>1. /\ flow \in [Flows -> Flow] /\ child \in [Flows -> Children]
      /\ ops \in [Notes!Cancellers -> [pc : {"idle", "draining", "done"}, took : SUBSET Flows]]
  BY DEF NotesInv, NotesType
<1>2. /\ \A d \in Notes!Cancellers \ {c} : ops'[d] = ops[d]
      /\ ops'[c] = [pc |-> "draining", took |-> F]
      /\ \A f \in Flows \ F : flow'[f] = flow[f] /\ child'[f] = child[f]
      /\ \A f \in F : child'[f] = IF Notes!Active(f) THEN "cancelling" ELSE child[f]
      /\ service' = service
  BY <1>1 DEF Notes!Taken
<1>3. /\ Registered'
      /\ \A f \in Flows : /\ Notes!Owns(f)' <=> Notes!Owns(f) /\ f \notin F
                          /\ HasAlias(f)' <=> HasAlias(f) /\ f \notin F
  BY DroppedIs DEF NotesInv, Notes!Taken
<1>4. \A f \in F : /\ flow'[f] \in Flow /\ flow'[f].pc = flow[f].pc
                   /\ flow'[f].bound = flow[f].bound /\ flow'[f].file = flow[f].file
                   /\ flow'[f].handed = flow[f].handed /\ flow'[f].deleted = flow[f].deleted
                   /\ flow'[f].voided = ~flow[f].handed /\ flow'[f].reported = flow[f].bound
  <2> TAKE f \in F
  <2> DEFINE v == ~flow[f].handed
             b == flow[f].bound
  <2>1. flow[f] \in Flow /\ v \in BOOLEAN /\ b \in BOOLEAN
    BY <1>1 DEF Flow
  <2>2. flow'[f] = [flow[f] EXCEPT !.voided = v, !.reported = b]
    BY <1>1 DEF Notes!Taken
  <2>3. flow'[f].voided = v /\ flow'[f].reported = b
    <3> HIDE DEF v, b
    <3> QED BY <2>1, <2>2 DEF Flow
  <2>4. /\ flow'[f] \in Flow /\ flow'[f].pc = flow[f].pc
        /\ flow'[f].bound = flow[f].bound /\ flow'[f].file = flow[f].file
        /\ flow'[f].handed = flow[f].handed /\ flow'[f].deleted = flow[f].deleted
    <3> HIDE DEF v, b
    <3> QED BY <2>1, <2>2 DEF Flow
  <2> QED BY <2>3, <2>4
<1>5. NotesType'
  <2>1. flow' \in [Flows -> Flow]
    BY <1>1, <1>2, <1>4 DEF Notes!Taken
  <2>2. child' \in [Flows -> Children]
    BY <1>1 DEF Notes!Taken, Children
  <2>3. ops' \in [Notes!Cancellers -> [pc : {"idle", "draining", "done"}, took : SUBSET Flows]]
    BY <1>1 DEF Notes!Taken
  <2> QED BY <2>1, <2>2, <2>3, <1>2 DEF NotesInv, NotesType
<1>6. ThreadIsWaitedFor'
  BY <1>2, <1>4 DEF NotesInv, ThreadIsWaitedFor, NotesType
<1>7. \A f \in Flows : Notes!Active(f)' <=> Notes!Active(f)
  BY <1>2 DEF Notes!Active
<1>8. ASSUME NEW f \in Flows \ F PROVE Sound(f)'
  <2>1. Situated(f) /\ Released(f) /\ Settled(f)
    BY FlowIs
  <2>2. \A d \in Notes!Cancellers : Taker(d, f)' <=> Taker(d, f)
    BY <1>2, <1>8 DEF Taker
  <2>3. Situated(f)'
    BY <1>2, <1>3, <1>7, <1>8, <2>1 DEF Situated
  <2>4. Released(f)'
    BY <1>2, <1>3, <1>8, <2>1, <2>2 DEF Released
  <2>5. Settled(f)'
    BY <1>2, <1>3, <1>7, <1>8, <2>1 DEF Settled
  <2> QED BY <2>3, <2>4, <2>5 DEF Sound
<1>9. ASSUME NEW f \in F PROVE Sound(f)'
  <2>1. Situated(f) /\ Released(f) /\ Settled(f) /\ Notes!Owns(f) /\ flow[f] \in Flow
    BY FlowIs
  <2>2. ~Notes!Owns(f)' /\ ~HasAlias(f)' /\ flow[f].pc \notin {"new", "done"} /\ ~flow[f].deleted
    BY <1>3, <2>1 DEF Situated
  <2>3. Situated(f)'
    BY <1>2, <1>4, <1>7, <2>1, <2>2 DEF Situated, Notes!Active
  <2>4. Released(f)'
    BY <1>2, <1>4, <2>1, <2>2 DEF Released, Notes!Active, Flow
  <2>5. Settled(f)'
    BY <1>2, <1>7, <2>1 DEF Settled, Released, Taker
  <2> QED BY <2>3, <2>4, <2>5 DEF Sound
<1>10. Notes!NoJoinCycle'
  BY <1>2, <1>7, TakingMakesNoCycle
<1> QED BY <1>3, <1>5, <1>6, <1>8, <1>9, <1>10 DEF NotesInv

LEMMA CancelKeeps ==
    ASSUME NotesInv, NEW c \in Notes!Cancellers, Notes!CancelOne(c) \/ Notes!CancelAll(c)
    PROVE  NotesInv'
<1>1. \A i \in DOMAIN notes : notes[i] \in Flows /\ Notes!Owns(notes[i])
  BY DEF NotesInv, Registered, Sound, Situated, Notes!Owns, HasAlias
<1>2. ops[c].pc = "idle"
  BY DEF Notes!CancelOne, Notes!CancelAll, Notes!MayCancel
<1>3. CASE Notes!CancelOne(c)
  <2>1. PICK i \in DOMAIN notes : ~Notes!Excluded(c, notes[i]) /\ Notes!Taken(c, {notes[i]})
    BY <1>3 DEF Notes!CancelOne
  <2> QED BY <2>1, <1>1, <1>2, TakenKeeps
<1>4. CASE Notes!CancelAll(c)
  <2> DEFINE F == {f \in Notes!Range(notes) : ~Notes!Excluded(c, f)}
  <2>1. Notes!Taken(c, F)
    BY <1>4 DEF Notes!CancelAll
  <2>2. F \in SUBSET Flows /\ \A f \in F : Notes!Owns(f) /\ ~Notes!Excluded(c, f)
    BY <1>1 DEF Notes!Range
  <2> QED BY <2>1, <2>2, <1>2, TakenKeeps
<1> QED BY <1>3, <1>4

LEMMA EndCancelKeeps == ASSUME NotesInv, NEW c \in Notes!Cancellers, Notes!EndCancel(c) PROVE NotesInv'
<1>1. /\ ops \in [Notes!Cancellers -> [pc : {"idle", "draining", "done"}, took : SUBSET Flows]]
      /\ ops' = [ops EXCEPT ![c].pc = "done"] /\ UNCHANGED <<flow, notes, child, service>>
      /\ ops[c].pc = "draining" /\ \A f \in ops[c].took : ~Notes!Active(f)
  BY DEF NotesInv, NotesType, Notes!EndCancel
<1>2. /\ \A d \in Notes!Cancellers \ {c} : ops'[d] = ops[d]
      /\ ops'[c].pc = "done" /\ ops'[c].took = ops[c].took
  BY <1>1
<1>3. NotesType' /\ Registered' /\ ThreadIsWaitedFor'
  BY <1>1 DEF NotesInv, NotesType, Registered, ThreadIsWaitedFor
<1>4. \A f \in Flows : /\ Notes!Active(f)' <=> Notes!Active(f)
                       /\ Notes!Owns(f)' <=> Notes!Owns(f)
                       /\ HasAlias(f)' <=> HasAlias(f)
                       /\ \A d \in Notes!Cancellers : Taker(d, f)' <=> Taker(d, f)
  BY <1>1, <1>2 DEF Notes!Active, Notes!Owns, HasAlias, Taker
<1>5. ASSUME NEW f \in Flows PROVE Sound(f)'
  <2>1. Situated(f) /\ Released(f) /\ Settled(f)
    BY FlowIs
  <2>2. Situated(f)'
    BY <1>1, <1>4, <2>1 DEF Situated
  <2>3. Released(f)'
    BY <1>1, <1>4, <2>1 DEF Released
  <2>4. Settled(f)'
    BY <1>1, <1>2, <1>4, <2>1 DEF Settled
  <2> QED BY <2>2, <2>3, <2>4 DEF Sound
<1>6. Notes!NoJoinCycle'
  <2>1. \A f, g \in Flows : ops'[f].pc = "draining" /\ g \in ops'[f].took /\ Notes!Active(g)'
            => ops[f].pc = "draining" /\ g \in ops[f].took /\ Notes!Active(g)
    BY <1>2, <1>4 DEF Notes!Cancellers
  <2>2. Notes!NoJoinCycle
    BY DEF NotesInv
  <2> QED BY <2>1, <2>2 DEF Notes!NoJoinCycle
<1> QED BY <1>3, <1>5, <1>6 DEF NotesInv

LEMMA NotesInit == ASSUME Notes!VoiceAssumption, Notes!Init PROVE NotesInv
<1>1. NotesType
  BY DEF Notes!Init, NotesType, Flow, Points, Children, Before, WithFile
<1>2. \A f \in Flows : ~Notes!Owns(f) /\ ~HasAlias(f) /\ ~Notes!Active(f)
  BY DEF Notes!Init, Notes!Owns, HasAlias, Notes!Active
<1>3. \A f \in Flows : flow[f].pc = "new" /\ child[f] = "none" /\ ~flow[f].bound /\ ~flow[f].voided
                       /\ ~flow[f].reported /\ ~flow[f].deleted
  BY DEF Notes!Init
<1>4. \A c \in Notes!Cancellers : ops[c].pc = "idle" /\ ops[c].took = {}
  BY DEF Notes!Init
<1>5. \A f \in Flows : Sound(f)
  BY <1>2, <1>3, <1>4 DEF Sound, Situated, Released, Settled, Taker, WithFile
<1>6. Registered /\ ThreadIsWaitedFor
  BY DEF Notes!Init, Registered, ThreadIsWaitedFor
<1>7. Notes!NoJoinCycle
  BY <1>4 DEF Notes!NoJoinCycle, Notes!Cancellers
<1> QED BY <1>1, <1>5, <1>6, <1>7 DEF NotesInv

LEMMA NotesNext == ASSUME Notes!VoiceAssumption, NotesInv, [Notes!Next]_Notes!vars PROVE NotesInv'
<1>1. ASSUME NEW f \in Flows, Notes!FlowStep(f) PROVE NotesInv'
  BY <1>1, ReserveKeeps, SendStatusKeeps, BindStatusKeeps, DownloadKeeps, StartThreadKeeps,
     EndThreadKeeps, HandoffKeeps, ChildKeeps, EndKeeps, KillFlowKeeps DEF Notes!FlowStep
<1> QED BY <1>1, CancelKeeps, EndCancelKeeps, ServiceKeeps DEF Notes!Next

LEMMA NotesPromises ==
    ASSUME NotesInv PROVE Notes!AliasesAgree /\ Notes!CancellationWins /\ Notes!CleanupIsExclusive /\ Notes!NoJoinCycle
<1>1. \A f \in Flows : Situated(f) /\ Released(f) /\ Settled(f)
  BY FlowIs
<1>2. ASSUME NEW f \in Flows
      PROVE  Notes!Keys({f}) \in {{}, {Voice[f]} \cup (IF flow[f].bound THEN {StatusOf[f]} ELSE {})}
  <2>1. \A i : i \in Notes!Keys({f}) <=> (i = Voice[f] /\ Notes!Owns(f)) \/ (i = StatusOf[f] /\ HasAlias(f))
    BY DEF NotesInv, Registered, Notes!Keys, Notes!Owns, HasAlias
  <2>2. CASE Notes!Owns(f)
    BY <2>1, <2>2, <1>1 DEF Situated
  <2>3. CASE ~Notes!Owns(f)
    BY <2>1, <2>3, <1>1 DEF Situated
  <2> QED BY <2>2, <2>3
<1>3. Notes!AliasesAgree
  BY <1>1, <1>2 DEF Notes!AliasesAgree, Settled
<1>4. Notes!CancellationWins
  BY <1>1 DEF Notes!CancellationWins, Released, Settled, NotesInv, NotesType
<1>5. Notes!CleanupIsExclusive
  BY <1>1 DEF Notes!CleanupIsExclusive, Released, Situated, NotesInv, NotesType, ThreadIsWaitedFor, WithFile
<1> QED BY <1>3, <1>4, <1>5 DEF NotesInv

-----------------------------------------------------------------------------
(* The transcript of a turn: Transcript *)

Segments == [kind : {"thinking", "text", "subagent", "tool", "result", "error"},
             of : CallIds \cup {NoId}, length : Nat, tools : Nat]
Frames   == [marker : CallIds \cup {NoId}, at : Nat]
Calls    == [id : CallIds \cup {NoId}, task : BOOLEAN]

TranscriptType ==
    /\ segments \in Seq(Segments) /\ stack \in Seq(Frames)
    /\ DOMAIN names \subseteq CallIds /\ announced \in SUBSET Calls

TaskOf(id) == [id |-> id, task |-> TRUE]
OnStack(m) == \E d \in DOMAIN stack : stack[d].marker = m

\* A Task on the stack runs, or the result of another that its id matches has closed it
\* instead, and that one runs.
Explained(m) ==
    \/ TaskOf(m) \in announced
    \/ m # NoId /\ \E p \in CallIds : p # m /\ Progress!Match(m, p) /\ TaskOf(p) \in announced /\ ~OnStack(p)

StackIsExplained ==
    /\ \A d, e \in DOMAIN stack : stack[d].marker = stack[e].marker => d = e
    /\ \A d \in DOMAIN stack : LET m == stack[d].marker
                               IN  /\ m = NoId \/ m \in DOMAIN names
                                   /\ m = NoId => Len(stack) = 1
                                   /\ Explained(m)

CallsAreNamed ==
    /\ TaskOf(NoId) \in announced => Progress!RunningTasks = {NoId}
    /\ \A c \in announced : IF c.id = NoId THEN c.task
                          ELSE c.id \in DOMAIN names /\ (names[c.id] = "Task" <=> c.task)

ProgressInv == TranscriptType /\ StackIsExplained /\ CallsAreNamed

-----------------------------------------------------------------------------
\* Of some positions in a sequence, one is the first and one the last.
LEMMA FirstPosition ==
    ASSUME NEW S \in SUBSET Nat, S # {}
    PROVE  \E k \in S : \A j \in S : k <= j
<1>1. PICK k \in S : \A j \in S : ~(<<j, k>> \in OpToRel(<, Nat))
  BY NatLessThanWellFounded, WFMin
<1>2. \A j \in S : j \in Nat
  OBVIOUS
<1>3. \A j \in S : ~(j < k)
  BY <1>1, <1>2 DEF OpToRel
<1>4. \A j \in S : k <= j
  BY <1>2, <1>3
<1> QED BY <1>4

LEMMA LastPosition ==
    ASSUME NEW n \in Nat, NEW S \in SUBSET 1..n, S # {}
    PROVE  \E k \in S : \A j \in S : j <= k
<1> DEFINE T == {n - j : j \in S}
<1>1. T \in SUBSET Nat /\ T # {}
  <2>1. \A j \in S : j \in 1..n
    OBVIOUS
  <2>2. \A j \in S : n - j \in Nat
    BY <2>1
  <2> QED BY <2>2
<1>2. PICK t \in T : \A u \in T : t <= u
  BY <1>1, FirstPosition
<1>3. PICK k \in S : t = n - k
  OBVIOUS
<1>4. \A j \in S : t <= n - j
  BY <1>2
<1> QED BY <1>3, <1>4

\* Longer segments are segments.
LEMMA SegmentsStay ==
    ASSUME segments \in Seq(Segments), NEW i, NEW n \in Nat
    PROVE  /\ [segments EXCEPT ![i].length = @ + n] \in Seq(Segments)
           /\ [segments EXCEPT ![i].tools = @ + n] \in Seq(Segments)
<1>1. CASE i \in 1..Len(segments)
  <2>1. segments[i] \in Segments
    BY <1>1, ElementOfSeq
  <2>2. /\ [segments[i] EXCEPT !.length = @ + n] \in Segments
        /\ [segments[i] EXCEPT !.tools = @ + n] \in Segments
    <3>1. segments[i].length + n \in Nat /\ segments[i].tools + n \in Nat
      BY <2>1 DEF Segments
    <3>2. \A m \in Nat : /\ [segments[i] EXCEPT !.length = m] \in Segments
                        /\ [segments[i] EXCEPT !.tools = m] \in Segments
      BY <2>1 DEF Segments
    <3> QED BY <3>1, <3>2
  <2>3. /\ [segments EXCEPT ![i] = [segments[i] EXCEPT !.length = @ + n]] \in Seq(Segments)
        /\ [segments EXCEPT ![i] = [segments[i] EXCEPT !.tools = @ + n]] \in Seq(Segments)
    BY <1>1, <2>2, ExceptSeq
  <2> QED BY <2>3
<1>2. CASE i \notin 1..Len(segments)
  <2>1. DOMAIN segments = 1..Len(segments)
    BY LenProperties
  <2>2. /\ [segments EXCEPT ![i].length = @ + n] = segments
        /\ [segments EXCEPT ![i].tools = @ + n] = segments
    BY <1>2, <2>1
  <2> QED BY <2>2
<1> QED BY <1>1, <1>2

LEMMA SegmentIs ==
    ASSUME NEW kind \in {"thinking", "text", "subagent", "tool", "result", "error"},
           NEW of \in CallIds \cup {NoId}, NEW length \in Nat
    PROVE  Progress!Segment(kind, of, length) \in Segments
BY DEF Progress!Segment, Segments

-----------------------------------------------------------------------------
\* Steps that leave the stack and the calls alone.
LEMMA QuietKeeps ==
    ASSUME ProgressInv, segments' \in Seq(Segments), UNCHANGED <<names, stack, announced>>
    PROVE  ProgressInv'
<1>1. \A m : Explained(m)' <=> Explained(m)
  BY DEF Explained, OnStack
<1>2. StackIsExplained'
  BY <1>1 DEF ProgressInv, StackIsExplained
<1>3. CallsAreNamed'
  BY DEF ProgressInv, CallsAreNamed, Progress!RunningTasks
<1> QED BY <1>2, <1>3 DEF ProgressInv, TranscriptType

LEMMA NarrationKeeps == ASSUME Progress!TranscriptAssumption, ProgressInv, Progress!Narration \/ Progress!Error PROVE ProgressInv'
<1>1. UNCHANGED <<names, stack, announced>>
  <2>1. \A kind, i : Progress!StartBlock(kind, i) \/ Progress!AppendText(kind, i, 5) => UNCHANGED <<names, stack, announced>>
    BY DEF Progress!StartBlock, Progress!AppendText
  <2>2. Progress!Suppressed \/ Progress!Error \/ (\E i \in Indexes : Progress!StopBlock(i)) => UNCHANGED <<names, stack, announced>>
    BY DEF Progress!Suppressed, Progress!Error, Progress!StopBlock
  <2> QED BY <2>1, <2>2 DEF Progress!Narration
<1>2. \A kind \in Progress!Kinds, n \in Nat : Append(segments, Progress!Segment(kind, NoId, n)) \in Seq(Segments)
  <2>1. \A kind \in Progress!Kinds, n \in Nat : Progress!Segment(kind, NoId, n) \in Segments
    BY SegmentIs DEF Progress!Kinds
  <2> QED BY <2>1, AppendProperties DEF ProgressInv, TranscriptType
<1>3. segments' \in Seq(Segments)
  <2>1. CASE \E kind \in Progress!Kinds, i \in Indexes \union {Progress!NoIndex} : Progress!StartBlock(kind, i)
    BY <1>2, <2>1 DEF Progress!StartBlock, Progress!Opened
  <2>2. CASE \E kind \in Progress!Kinds, i \in Indexes \union {Progress!NoIndex} : Progress!AppendText(kind, i, 5)
    <3>1. PICK kind \in Progress!Kinds, i \in Indexes \union {Progress!NoIndex} : Progress!AppendText(kind, i, 5)
      BY <2>2
    <3>2. CASE <<kind, i>> \in DOMAIN open
      <4> DEFINE slot == open[<<kind, i>>]
      <4>1. segments' = [segments EXCEPT ![slot].length = @ + 5]
        BY <3>1, <3>2 DEF Progress!AppendText
      <4> HIDE DEF slot
      <4> QED BY <4>1, SegmentsStay DEF ProgressInv, TranscriptType
    <3>3. CASE <<kind, i>> \notin DOMAIN open
      BY <1>2, <3>1, <3>3 DEF Progress!AppendText, Progress!Opened
    <3> QED BY <3>2, <3>3
  <2>3. CASE Progress!Suppressed \/ \E i \in Indexes : Progress!StopBlock(i)
    <3>1. segments' = segments
      BY <2>3 DEF Progress!Suppressed, Progress!StopBlock
    <3> QED BY <3>1 DEF ProgressInv, TranscriptType
  <2>4. CASE Progress!Error
    <3>1. Progress!Segment("error", NoId, 1) \in Segments
      BY SegmentIs
    <3> QED BY <2>4, <3>1, AppendProperties DEF Progress!Error, ProgressInv, TranscriptType
  <2> QED BY <2>1, <2>2, <2>3, <2>4 DEF Progress!Narration
<1> QED BY <1>1, <1>3, QuietKeeps

-----------------------------------------------------------------------------
\* A Task runs if it was announced and not answered.
LEMMA TasksOf ==
    ASSUME NEW R \in SUBSET Calls
    PROVE  \A id : id \in {a.id : a \in {b \in R : b.task}} <=> TaskOf(id) \in R
<1>1. \A c \in R : c.task => c = TaskOf(c.id)
  BY DEF Calls, TaskOf
<1> QED BY <1>1 DEF TaskOf

LEMMA RunningIs ==
    ASSUME TranscriptType
    PROVE  \A id : id \in Progress!RunningTasks <=> TaskOf(id) \in announced
BY TasksOf DEF Progress!RunningTasks, TranscriptType

\* A Task without an id is the only one on the stack, and runs.
LEMMA NoIdIsAlone ==
    ASSUME Progress!TranscriptAssumption, ProgressInv
    PROVE  /\ \A d \in DOMAIN stack : stack[d].marker = NoId => TaskOf(NoId) \in announced
           /\ TaskOf(NoId) \in announced => \A d \in DOMAIN stack : stack[d].marker = NoId
           /\ Progress!RunningTasks = {} => stack = <<>>
<1>1. \A d \in DOMAIN stack : Explained(stack[d].marker)
  BY DEF ProgressInv, StackIsExplained
<1>2. \A d \in DOMAIN stack : stack[d].marker = NoId => TaskOf(NoId) \in announced
  BY <1>1 DEF Explained
<1>3. ASSUME NEW d \in DOMAIN stack, stack[d].marker # NoId
      PROVE  \E p \in CallIds : p # NoId /\ p \in Progress!RunningTasks
  <2>1. stack[d].marker \in CallIds
    <3>1. stack[d] \in Frames
      BY LenProperties, ElementOfSeq DEF ProgressInv, TranscriptType
    <3> QED BY <1>3, <3>1 DEF Frames
  <2>2. TaskOf(stack[d].marker) \in announced \/ \E p \in CallIds : TaskOf(p) \in announced
    BY <1>1 DEF Explained
  <2>3. NoId \notin CallIds /\ \A p : TaskOf(p) \in announced <=> p \in Progress!RunningTasks
    BY RunningIs DEF ProgressInv, Progress!TranscriptAssumption
  <2> QED BY <2>1, <2>2, <2>3
<1>4. TaskOf(NoId) \in announced => Progress!RunningTasks = {NoId}
  BY DEF ProgressInv, CallsAreNamed
<1>5. Progress!RunningTasks = {} => DOMAIN stack = {}
  BY <1>2, <1>3, RunningIs DEF ProgressInv
<1>6. DOMAIN stack = {} => stack = <<>>
  BY EmptySeq, LenProperties DEF ProgressInv, TranscriptType
<1> QED BY <1>2, <1>3, <1>4, <1>5, <1>6

\* A Task that is announced comes on top of the stack.
LEMMA StartTaskKeeps ==
    ASSUME Progress!TranscriptAssumption, ProgressInv, NEW id \in CallIds \cup {NoId}, Progress!FreshTask(id), Progress!StartTask(id)
    PROVE  ProgressInv'
<1>1. /\ id \notin DOMAIN names /\ TaskOf(NoId) \notin announced
      /\ id = NoId => stack = <<>>
      /\ \A d \in DOMAIN stack : stack[d].marker # NoId
  BY RunningIs, NoIdIsAlone DEF Progress!FreshTask, Progress!Fresh, ProgressInv
<1>2. segments' \in Seq(Segments) /\ Len(segments) + 1 \in Nat
  <2>1. Progress!Segment("subagent", id, 1) \in Segments
    BY SegmentIs
  <2> QED BY <2>1, AppendProperties, LenProperties DEF Progress!StartTask, ProgressInv, TranscriptType
<1> DEFINE frame == [marker |-> id, at |-> Len(segments) + 1]
<1>3. frame \in Frames
  BY <1>2 DEF Frames
<1>4. stack' = Append(stack, frame) /\ stack \in Seq(Frames)
  BY DEF Progress!StartTask, ProgressInv, TranscriptType
<1>5. frame.marker = id
  OBVIOUS
<1> HIDE DEF frame
<1>6. /\ stack' \in Seq(Frames) /\ Len(stack') = Len(stack) + 1
      /\ DOMAIN stack = 1..Len(stack) /\ DOMAIN stack' = 1..(Len(stack) + 1) /\ Len(stack) \in Nat
      /\ \A d \in 1..Len(stack) : stack'[d] = stack[d]
      /\ stack'[Len(stack) + 1] = frame
  BY <1>3, <1>4, AppendProperties, LenProperties
<1>7. announced' = announced \cup {TaskOf(id)}
  BY DEF Progress!StartTask, TaskOf
<1>8. /\ DOMAIN names' = IF id = NoId THEN DOMAIN names ELSE DOMAIN names \cup {id}
      /\ \A j \in DOMAIN names : names'[j] = names[j]
      /\ id # NoId => names'[id] = "Task"
  BY <1>1 DEF Progress!StartTask, Progress!Named, Progress!With
<1>9. TranscriptType'
  <2>1. TaskOf(id) \in Calls
    BY DEF Calls, TaskOf
  <2> QED BY <1>2, <1>6, <1>7, <1>8, <2>1 DEF ProgressInv, TranscriptType
<1>10. CallsAreNamed'
  <2>1. \A c \in announced' : IF c.id = NoId THEN c.task
                            ELSE c.id \in DOMAIN names' /\ (names'[c.id] = "Task" <=> c.task)
    BY <1>1, <1>7, <1>8 DEF ProgressInv, CallsAreNamed, TaskOf
  <2>2. TaskOf(NoId) \in announced' => Progress!RunningTasks' = {NoId}
    <3>1. TaskOf(NoId) \in announced' => id = NoId /\ Progress!RunningTasks = {}
      BY <1>1, <1>7 DEF TaskOf, Progress!FreshTask
    <3>2. \A j : j \in Progress!RunningTasks' <=> TaskOf(j) \in announced'
      BY <1>9, TasksOf DEF TranscriptType, Progress!RunningTasks
    <3>3. \A j : TaskOf(j) \in announced' <=> j \in Progress!RunningTasks \/ j = id
      BY <1>7, RunningIs DEF ProgressInv, TaskOf
    <3> QED BY <3>1, <3>2, <3>3
  <2> QED BY <2>1, <2>2 DEF CallsAreNamed
<1>11. StackIsExplained'
  <2>1. \A d \in 1..Len(stack) : stack'[d].marker # id
    BY <1>1, <1>6 DEF ProgressInv, StackIsExplained
  <2>2. \A d, e \in DOMAIN stack' : stack'[d].marker = stack'[e].marker => d = e
    BY <1>5, <1>6, <2>1 DEF ProgressInv, StackIsExplained
  <2>3. Explained(id)'
    BY <1>7 DEF Explained
  <2>4. ASSUME NEW d \in 1..Len(stack), NEW m, m = stack[d].marker PROVE Explained(m)'
    <3>1. Explained(m) /\ m # NoId
      BY <1>1, <1>6, <2>4 DEF ProgressInv, StackIsExplained
    <3>2. CASE TaskOf(m) \in announced
      BY <1>7, <3>2 DEF Explained
    <3>3. CASE TaskOf(m) \notin announced
      <4>1. PICK p \in CallIds : p # m /\ Progress!Match(m, p) /\ TaskOf(p) \in announced /\ ~OnStack(p)
        BY <3>1, <3>3 DEF Explained
      <4>2. p \in DOMAIN names
        <5>1. TaskOf(p).id = p /\ p # NoId
          BY DEF TaskOf, Progress!TranscriptAssumption
        <5> QED BY <4>1, <5>1 DEF ProgressInv, CallsAreNamed
      <4>3. ~OnStack(p)'
        BY <1>1, <1>5, <1>6, <4>1, <4>2 DEF OnStack
      <4> QED BY <1>7, <3>1, <4>1, <4>3 DEF Explained
    <3> QED BY <3>2, <3>3
  <2>5. \A d \in DOMAIN stack' : LET m == stack'[d].marker
                                 IN  m = NoId \/ m \in DOMAIN names'
    BY <1>5, <1>6, <1>8 DEF ProgressInv, StackIsExplained
  <2>6. \A d \in DOMAIN stack' : stack'[d].marker = NoId => Len(stack') = 1
    <3>1. id = NoId => Len(stack) = 0
      BY <1>1, EmptySeq
    <3> QED BY <1>1, <1>5, <1>6, <3>1
  <2>7. \A m : \A d \in DOMAIN stack' : m = stack'[d].marker => Explained(m)'
    BY <1>5, <1>6, <2>3, <2>4
  <2> QED BY <2>2, <2>5, <2>6, <2>7 DEF StackIsExplained
<1> QED BY <1>9, <1>10, <1>11 DEF ProgressInv

\* Any other tool neither hides narration nor shows it again.
LEMMA StartToolKeeps ==
    ASSUME Progress!TranscriptAssumption, ProgressInv, NEW id \in CallIds, NEW i, Progress!Fresh(id), Progress!StartTool(id, i)
    PROVE  ProgressInv'
<1>1. segments' \in Seq(Segments)
  <2>1. Progress!Segment("tool", id, 1) \in Segments
    BY SegmentIs
  <2>2. CASE stack = <<>>
    BY <2>1, <2>2, AppendProperties DEF Progress!StartTool, ProgressInv, TranscriptType
  <2>3. CASE stack # <<>>
    <3> DEFINE slot == Progress!Last(stack).at
    <3>1. segments' = [segments EXCEPT ![slot].tools = @ + 1]
      BY <2>3 DEF Progress!StartTool
    <3> HIDE DEF slot
    <3> QED BY <3>1, SegmentsStay DEF ProgressInv, TranscriptType
  <2> QED BY <2>2, <2>3
<1> DEFINE tool == [id |-> id, task |-> FALSE]
<1>2. announced' = announced \cup {tool} /\ stack' = stack
  BY DEF Progress!StartTool
<1>3. /\ DOMAIN names' = DOMAIN names \cup {id} /\ id \notin DOMAIN names /\ id # NoId
      /\ \A j \in DOMAIN names : names'[j] = names[j]
      /\ names'[id] = "tool"
  BY DEF Progress!StartTool, Progress!Named, Progress!With, Progress!Fresh, Progress!TranscriptAssumption
<1>4. TranscriptType'
  <2>1. tool \in Calls
    BY DEF Calls
  <2> HIDE DEF tool
  <2> QED BY <1>1, <1>2, <1>3, <2>1 DEF ProgressInv, TranscriptType
<1>5. \A j : TaskOf(j) \in announced' <=> TaskOf(j) \in announced
  BY <1>2 DEF TaskOf
<1>6. \A m : Explained(m)' <=> Explained(m)
  BY <1>2, <1>5 DEF Explained, OnStack
<1>7. StackIsExplained'
  BY <1>2, <1>3, <1>6 DEF ProgressInv, StackIsExplained
<1>8. Progress!RunningTasks' = Progress!RunningTasks
  BY <1>2 DEF Progress!RunningTasks
<1>9. CallsAreNamed'
  BY <1>2, <1>3, <1>5, <1>8 DEF ProgressInv, CallsAreNamed
<1> QED BY <1>4, <1>7, <1>9 DEF ProgressInv

\* What a result leaves of the stack: what is below the innermost match, or below a Task
\* without an id, or everything.
LEMMA PoppedIs ==
    ASSUME ProgressInv, NEW id \in CallIds
    PROVE  \E n \in 0..Len(stack) :
              /\ Progress!Popped(id) \in Seq(Frames) /\ Len(Progress!Popped(id)) = n
              /\ \A d \in 1..n : Progress!Popped(id)[d] = stack[d]
              /\ \/ /\ n < Len(stack) /\ stack[n + 1].marker # NoId
                    /\ Progress!Match(stack[n + 1].marker, id)
                 \/ /\ Progress!Depths(id) = {} /\ n + 1 = Len(stack) /\ stack[n + 1].marker = NoId
                    /\ id \notin DOMAIN names \/ names[id] = "Task"
                 \/ /\ Progress!Depths(id) = {} /\ n = Len(stack)
                    /\ \/ n = 0 \/ stack[n].marker # NoId \/ id \notin TaskLike
                       \/ id \in DOMAIN names /\ names[id] # "Task"
<1>1. stack \in Seq(Frames) /\ Len(stack) \in Nat /\ DOMAIN stack = 1..Len(stack)
  BY LenProperties DEF ProgressInv, TranscriptType
<1>2. \A n \in 0..Len(stack) : /\ SubSeq(stack, 1, n) \in Seq(Frames)
                               /\ Len(SubSeq(stack, 1, n)) = n
                               /\ \A d \in 1..n : SubSeq(stack, 1, n)[d] = stack[d]
  <2>1. TAKE n \in 0..Len(stack)
  <2>2. /\ SubSeq(stack, 1, n) \in Seq(Frames)
        /\ Len(SubSeq(stack, 1, n)) = IF 1 <= n THEN n - 1 + 1 ELSE 0
        /\ \A i \in 1 .. n - 1 + 1 : SubSeq(stack, 1, n)[i] = stack[1 + i - 1]
    BY <1>1, SubSeqProperties
  <2> QED BY <1>1, <2>2
<1>3. CASE Progress!Depths(id) # {}
  <2>1. Progress!Depths(id) \in SUBSET (1..Len(stack))
    BY <1>1 DEF Progress!Depths
  <2>2. \E d \in Progress!Depths(id) : \A e \in Progress!Depths(id) : e <= d
    BY <1>1, <1>3, <2>1, LastPosition
  <2> DEFINE top == CHOOSE d \in Progress!Depths(id) : \A e \in Progress!Depths(id) : e <= d
  <2>3. top \in Progress!Depths(id)
    BY <2>2
  <2>4. Progress!Popped(id) = SubSeq(stack, 1, top - 1)
    BY <1>3 DEF Progress!Popped
  <2>5. stack[top].marker # NoId /\ Progress!Match(stack[top].marker, id)
    BY <2>3 DEF Progress!Depths, Progress!Synthetic
  <2> HIDE DEF top
  <2>6. top \in 1..Len(stack)
    BY <2>1, <2>3
  <2>7. PICK n \in 0..Len(stack) : n = top - 1
    BY <1>1, <2>6
  <2>8. n + 1 = top /\ n < Len(stack)
    BY <1>1, <2>6, <2>7
  <2> QED BY <1>2, <2>4, <2>5, <2>7, <2>8
<1>4. CASE Progress!Depths(id) = {}
  <2>1. CASE /\ stack # <<>> /\ Progress!Synthetic(Progress!Last(stack).marker) /\ id \in TaskLike
             /\ id \notin DOMAIN names \/ names[id] = "Task"
    <3>1. Len(stack) # 0 /\ stack[Len(stack)].marker = NoId
      BY <1>1, <2>1, EmptySeq DEF Progress!Last, Progress!Synthetic
    <3>5. \A k \in Nat : k # 0 => k - 1 \in 0..k
      OBVIOUS
    <3>6. Len(stack) - 1 \in 0..Len(stack)
      BY <1>1, <3>1, <3>5
    <3>2. PICK n \in 0..Len(stack) : n = Len(stack) - 1
      BY <3>6
    <3>3. Progress!Popped(id) = SubSeq(stack, 1, n)
      BY <1>4, <2>1, <3>2 DEF Progress!Popped, Progress!Front
    <3>4. n + 1 = Len(stack)
      BY <1>1, <3>2
    <3> QED BY <1>2, <1>4, <2>1, <3>1, <3>3, <3>4
  <2>2. CASE ~(/\ stack # <<>> /\ Progress!Synthetic(Progress!Last(stack).marker) /\ id \in TaskLike
               /\ id \notin DOMAIN names \/ names[id] = "Task")
    <3>1. Progress!Popped(id) = stack
      BY <1>4, <2>2 DEF Progress!Popped
    <3>2. \/ Len(stack) = 0 \/ stack[Len(stack)].marker # NoId \/ id \notin TaskLike
          \/ id \in DOMAIN names /\ names[id] # "Task"
      BY <1>1, <2>2, EmptySeq DEF Progress!Last, Progress!Synthetic
    <3>3. Len(stack) \in 0..Len(stack)
      BY <1>1
    <3> QED BY <1>1, <1>4, <3>1, <3>2, <3>3
  <2> QED BY <2>1, <2>2
<1> QED BY <1>3, <1>4

\* A result that closes a Task under another's id leaves that other running, and the Task it
\* answers on the stack.
LEMMA ToolResultKeeps ==
    ASSUME Progress!TranscriptAssumption, ProgressInv, NEW id \in CallIds, NEW show, Progress!ToolResult(id, show)
    PROVE  ProgressInv'
<1>0. TaskOf(NoId) = [id |-> NoId, task |-> TRUE]
  BY DEF TaskOf
<1>1. PICK c \in announced :
              /\ \/ c.id = id
                 \/ c = TaskOf(NoId) /\ id \in TaskLike /\ id \notin DOMAIN names
              /\ announced' = announced \ {c}
  BY <1>0 DEF Progress!ToolResult
<1>2. stack' = Progress!Popped(id) /\ names' = names
  BY DEF Progress!ToolResult
<1>3. /\ stack \in Seq(Frames) /\ Len(stack) \in Nat /\ DOMAIN stack = 1..Len(stack)
      /\ announced \in SUBSET Calls /\ NoId \notin CallIds /\ id # NoId
  BY LenProperties DEF ProgressInv, TranscriptType, Progress!TranscriptAssumption
<1>4. segments' \in Seq(Segments)
  <2>1. Progress!Segment("result", id, 1) \in Segments
    BY SegmentIs
  <2> QED BY <2>1, AppendProperties DEF Progress!ToolResult, ProgressInv, TranscriptType
<1>5. PICK n \in 0..Len(stack) :
              /\ Progress!Popped(id) \in Seq(Frames) /\ Len(Progress!Popped(id)) = n
              /\ \A d \in 1..n : Progress!Popped(id)[d] = stack[d]
              /\ \/ /\ n < Len(stack) /\ stack[n + 1].marker # NoId
                    /\ Progress!Match(stack[n + 1].marker, id)
                 \/ /\ Progress!Depths(id) = {} /\ n + 1 = Len(stack) /\ stack[n + 1].marker = NoId
                    /\ id \notin DOMAIN names \/ names[id] = "Task"
                 \/ /\ Progress!Depths(id) = {} /\ n = Len(stack)
                    /\ \/ n = 0 \/ stack[n].marker # NoId \/ id \notin TaskLike
                       \/ id \in DOMAIN names /\ names[id] # "Task"
  BY PoppedIs
<1>6. /\ stack' \in Seq(Frames) /\ Len(stack') = n /\ DOMAIN stack' = 1..n /\ n <= Len(stack)
      /\ \A d \in 1..n : stack'[d] = stack[d] /\ d \in 1..Len(stack)
  BY <1>2, <1>3, <1>5, LenProperties
<1>7. TranscriptType'
  BY <1>1, <1>2, <1>4, <1>6 DEF ProgressInv, TranscriptType
<1>8. CallsAreNamed'
  <2>1. \A a \in announced' : IF a.id = NoId THEN a.task
                            ELSE a.id \in DOMAIN names' /\ (names'[a.id] = "Task" <=> a.task)
    BY <1>1, <1>2 DEF ProgressInv, CallsAreNamed
  <2>2. ASSUME TaskOf(NoId) \in announced' PROVE Progress!RunningTasks' = {NoId}
    <3>1. TaskOf(NoId) \in announced /\ Progress!RunningTasks = {NoId}
      BY <1>1, <2>2 DEF ProgressInv, CallsAreNamed
    <3>2. \A j : j \in Progress!RunningTasks' <=> TaskOf(j) \in announced'
      BY <1>7, TasksOf DEF TranscriptType, Progress!RunningTasks
    <3>3. \A j : TaskOf(j) \in announced' => j \in Progress!RunningTasks
      BY <1>1, RunningIs DEF ProgressInv
    <3> QED BY <2>2, <3>1, <3>2, <3>3
  <2> QED BY <2>1, <2>2 DEF CallsAreNamed, TaskOf
<1>9. \A d \in 1..n : /\ stack[d].marker = NoId \/ stack[d].marker \in DOMAIN names
                      /\ stack[d].marker = NoId => Len(stack) = 1
                      /\ Explained(stack[d].marker)
  BY <1>3, <1>6 DEF ProgressInv, StackIsExplained
<1>10. \A d, e \in 1..Len(stack) : stack[d].marker = stack[e].marker => d = e
  BY <1>3 DEF ProgressInv, StackIsExplained
<1>11. \A d \in 1..Len(stack) : stack[d].marker \in CallIds \cup {NoId}
  <2>1. \A d \in 1..Len(stack) : stack[d] \in Frames
    BY <1>3, ElementOfSeq
  <2> QED BY <2>1 DEF Frames
\* The call that was answered is a tool's, or a Task's of which the stack says so.
<1>12. ASSUME NEW d \in 1..n, NEW m, m = stack[d].marker PROVE Explained(m)'
  <2>1. \A p : ~OnStack(p) => ~OnStack(p)'
    BY <1>3, <1>6 DEF OnStack
  <2>2. \A p : TaskOf(p) \in announced /\ TaskOf(p) # c => TaskOf(p) \in announced'
    BY <1>1
  <2>3. \/ TaskOf(m) \in announced
        \/ m # NoId /\ \E p \in CallIds : p # m /\ Progress!Match(m, p) /\ TaskOf(p) \in announced /\ ~OnStack(p)
    BY <1>9, <1>12 DEF Explained
  <2>4. CASE c = TaskOf(NoId)
    \* Then nothing else runs, and the stack is empty.
    <3>1. Progress!RunningTasks = {NoId} /\ \A p : TaskOf(p) \in announced => p = NoId
      BY <1>1, <2>4, RunningIs DEF ProgressInv, CallsAreNamed
    <3>2. m = NoId
      BY <1>3, <2>3, <3>1
    <3>6. Len(stack) = 1
      BY <1>9, <1>12, <3>2
    <3>7. n \in 0..1 /\ d \in 1..n
      BY <1>12, <3>6
    <3>3. Len(stack) = 1 /\ n = 1 /\ d = 1
      BY <3>6, <3>7
    <3>4. id \in TaskLike /\ id \notin DOMAIN names
      BY <1>1, <1>3, <2>4 DEF TaskOf
    <3>5. stack[1].marker = NoId
      BY <1>12, <3>2, <3>3
    <3> QED BY <1>5, <3>3, <3>4, <3>5
  <2>5. CASE c # TaskOf(NoId) /\ c # TaskOf(id)
    <3>1. c.id = id
      BY <1>1, <2>5
    <3>2. \A p : TaskOf(p) \in announced => TaskOf(p) # c
      BY <2>5, <3>1 DEF TaskOf
    <3> QED BY <2>1, <2>2, <2>3, <3>2 DEF Explained
  <2>6. CASE c = TaskOf(id)
    <3>1. \A p : p # id => TaskOf(p) # c
      BY <2>6 DEF TaskOf
    <3>2. id \in DOMAIN names /\ names[id] = "Task" /\ TaskOf(id) \in announced
      BY <1>1, <1>3, <2>6 DEF ProgressInv, CallsAreNamed, TaskOf
    <3>3. \A p : TaskOf(p) \in announced => p # NoId
      <4>1. TaskOf(NoId) \in announced => Progress!RunningTasks = {NoId}
        BY DEF ProgressInv, CallsAreNamed
      <4>2. id \in Progress!RunningTasks
        BY <3>2, RunningIs DEF ProgressInv
      <4> QED BY <1>3, <4>1, <4>2
    <3>4. m # NoId /\ m \in CallIds
      BY <1>11, <1>12, <1>6, <2>3, <3>3
    <3>5. CASE m # id /\ TaskOf(m) \in announced
      BY <2>2, <3>1, <3>5 DEF Explained
    <3>6. CASE m = id
      \* The result has closed another Task, that was above and runs.
      <4>1. Progress!Depths(id) # {}
        BY <1>3, <1>6, <1>12, <3>4, <3>6 DEF Progress!Depths, Progress!Synthetic, Progress!Match
      <4>2. n < Len(stack) /\ stack[n + 1].marker # NoId /\ Progress!Match(stack[n + 1].marker, id)
        BY <1>5, <4>1
      <4>3. PICK q \in CallIds : q = stack[n + 1].marker
        BY <1>3, <1>11, <4>2
      <4>11. /\ n + 1 \in 1..Len(stack) /\ d \in 1..Len(stack) /\ d # n + 1
             /\ stack[d].marker = id
        BY <1>3, <1>6, <1>12, <3>6, <4>2
      <4>4. q # id /\ n + 1 \in 1..Len(stack)
        BY <1>10, <4>3, <4>11
      <4>5. Explained(q)
        BY <1>3, <4>3, <4>4 DEF ProgressInv, StackIsExplained
      <4>6. OnStack(id)
        BY <1>3, <1>6, <1>12, <3>6 DEF OnStack
      <4>7. \A p \in CallIds : p # q /\ Progress!Match(q, p) => p = id
        BY <4>2, <4>3, <4>4 DEF Progress!TranscriptAssumption
      <4>8. TaskOf(q) \in announced
        BY <4>5, <4>6, <4>7 DEF Explained
      <4>9. ~OnStack(q)'
        BY <1>3, <1>6, <1>10, <4>3, <4>4 DEF OnStack
      <4>10. Progress!Match(m, q) /\ TaskOf(q) \in announced' /\ q # m
        BY <2>2, <3>1, <3>6, <4>2, <4>3, <4>4, <4>8 DEF Progress!Match
      <4> QED BY <3>4, <4>9, <4>10 DEF Explained
    <3>7. CASE m # id /\ TaskOf(m) \notin announced
      <4>1. PICK p \in CallIds : p # m /\ Progress!Match(m, p) /\ TaskOf(p) \in announced /\ ~OnStack(p)
        BY <2>3, <3>7
      <4>2. CASE p # id
        BY <2>1, <2>2, <3>1, <3>4, <4>1, <4>2 DEF Explained
      <4>3. CASE p = id
        \* Its result closes this Task and everything above.
        <5>1. Progress!Depths(id) # {}
          BY <1>3, <1>6, <1>12, <3>4, <4>1, <4>3 DEF Progress!Depths, Progress!Synthetic
        <5>2. n < Len(stack) /\ stack[n + 1].marker # NoId /\ Progress!Match(stack[n + 1].marker, id)
          BY <1>5, <5>1
        <5>3. PICK q \in CallIds : q = stack[n + 1].marker
          BY <1>3, <1>11, <5>2
        <5>4. q # id /\ n + 1 \in 1..Len(stack)
          BY <1>3, <4>1, <4>3, <5>2, <5>3 DEF OnStack
        <5>5. q # m
          BY <1>3, <1>6, <1>10, <1>12, <5>3, <5>4
        <5>6. Progress!Match(id, q) /\ Progress!Match(id, m)
          BY <4>1, <4>3, <5>2, <5>3 DEF Progress!Match
        <5> QED BY <3>4, <3>7, <5>4, <5>5, <5>6 DEF Progress!TranscriptAssumption
      <4> QED BY <4>2, <4>3
    <3> QED BY <3>5, <3>6, <3>7
  <2> QED BY <2>4, <2>5, <2>6
<1>13. StackIsExplained'
  <2>1. \A d, e \in DOMAIN stack' : stack'[d].marker = stack'[e].marker => d = e
    BY <1>6, <1>10
  <2>2. \A d \in DOMAIN stack' : /\ stack'[d].marker = NoId \/ stack'[d].marker \in DOMAIN names'
                                 /\ stack'[d].marker = NoId => Len(stack') = 1
    BY <1>2, <1>3, <1>6, <1>9
  <2>3. \A m : \A d \in DOMAIN stack' : m = stack'[d].marker => Explained(m)'
    BY <1>6, <1>12
  <2> QED BY <2>1, <2>2, <2>3 DEF StackIsExplained
<1> QED BY <1>7, <1>8, <1>13 DEF ProgressInv

-----------------------------------------------------------------------------
LEMMA TranscriptInit == ASSUME Progress!Init PROVE ProgressInv
<1>1. segments \in Seq(Segments) /\ stack \in Seq(Frames) /\ DOMAIN stack = {} /\ DOMAIN names = {}
  BY EmptySeq DEF Progress!Init
<1> QED BY <1>1 DEF Progress!Init, ProgressInv, TranscriptType, StackIsExplained, CallsAreNamed

LEMMA TranscriptNext == ASSUME Progress!TranscriptAssumption, ProgressInv, [Progress!Next]_Progress!vars PROVE ProgressInv'
<1>1. CASE UNCHANGED Progress!vars
  BY <1>1, QuietKeeps DEF Progress!vars, ProgressInv, TranscriptType
<1>2. CASE Progress!Next
  <2>1. CASE Progress!Narration \/ Progress!Error
    BY <2>1, NarrationKeeps
  <2>2. CASE Progress!Tooling
    BY <2>2, StartTaskKeeps, StartToolKeeps, ToolResultKeeps DEF Progress!Tooling
  <2> QED BY <1>2, <2>1, <2>2 DEF Progress!Next, Progress!Apply
<1> QED BY <1>1, <1>2

\* Whoever is on the stack runs, or another Task does in its place.
LEMMA StackMeansTask == ASSUME Progress!TranscriptAssumption, ProgressInv PROVE Progress!SuppressedOnlyDuringATask
<1>1. ASSUME stack # <<>> PROVE Progress!RunningTasks # {}
  BY <1>1, NoIdIsAlone
<1> QED BY <1>1 DEF Progress!SuppressedOnlyDuringATask, Progress!RunningTasks

-----------------------------------------------------------------------------
\* Whatever the status, the message fits, or there was no room but for the status; and the
\* tail of the newest segment fits whenever it is worth showing.
LEMMA MessageFits == ASSUME Progress!TranscriptAssumption, ProgressInv PROVE Progress!RenderedFits
<1>1. Progress!Rendered \in SUBSET (1..Len(segments)) /\ Len(segments) \in Nat
  BY LenProperties DEF ProgressInv, TranscriptType, Progress!Rendered
<1>2. \A k \in Progress!Rendered : Progress!Size(k) \in Nat /\ k \in Nat /\ k >= 1
  <2>1. \A k \in Progress!Rendered : segments[k] \in Segments /\ k \in 1..Len(segments)
    BY <1>1, ElementOfSeq DEF ProgressInv, TranscriptType
  <2> QED BY <1>1, <2>1 DEF Progress!Size, Segments
<1>3. Progress!Rendered # {} => Progress!Newest \in Progress!Rendered
  BY <1>1, LastPosition DEF Progress!Newest
<1>4. ASSUME NEW status \in {0, 2, Limit - MinTail, Limit + 1}
      PROVE  LET r == Progress!Render(status)
             IN  /\ r.length <= Limit \/ r.length = status
                 /\ Progress!Rendered # {} /\ Limit - Marker - status > MinTail => \E k \in Progress!Rendered : r.from <= k
  <2>1. Limit \in Nat /\ Marker \in Nat /\ MinTail \in Nat /\ status \in Int
    BY DEF Progress!TranscriptAssumption
  <2>2. CASE Progress!Joined(1, status, FALSE) <= Limit
    BY <1>2, <2>2 DEF Progress!Render, Progress!Shown
  <2>3. CASE ~(Progress!Joined(1, status, FALSE) <= Limit) /\ Progress!Fitting(status) # {}
    <3>1. Progress!Fitting(status) \in SUBSET Nat /\ Progress!Fitting(status) \subseteq Progress!Rendered
      BY <1>2 DEF Progress!Fitting
    <3>2. Progress!Least(Progress!Fitting(status)) \in Progress!Fitting(status)
      BY <2>3, <3>1, FirstPosition DEF Progress!Least
    <3>3. PICK k \in Progress!Fitting(status) : k = Progress!Least(Progress!Fitting(status))
      BY <3>2
    <3>4. Progress!Render(status) = Progress!Shown(k, Progress!Joined(k, status, TRUE))
      BY <2>3, <3>3 DEF Progress!Render
    <3>5. Progress!Joined(k, status, TRUE) <= Limit /\ k \in Progress!Rendered
      BY DEF Progress!Fitting
    <3>6. k <= k
      BY <1>2, <3>5
    <3> DEFINE length == Progress!Joined(k, status, TRUE)
    <3>7. Progress!Render(status) = [from |-> k, length |-> length] /\ length <= Limit
      BY <3>4, <3>5 DEF Progress!Shown
    <3> HIDE DEF length
    <3> QED BY <3>5, <3>6, <3>7
  <2>4. CASE ~(Progress!Joined(1, status, FALSE) <= Limit) /\ Progress!Fitting(status) = {}
    <3>1. CASE Progress!Rendered # {} /\ Progress!Budget(status) > MinTail
      <4>1. Progress!Size(Progress!Newest) \in Nat /\ Progress!Budget(status) = Limit - Marker - status
        BY <1>2, <1>3, <3>1 DEF Progress!Budget
      <4>2. Marker + Progress!TailLength(status) + status <= Limit
        BY <2>1, <4>1 DEF Progress!TailLength
      <4>3. Progress!Render(status) = Progress!Shown(Progress!Newest, Marker + Progress!TailLength(status) + status)
        BY <2>4, <3>1, <4>2 DEF Progress!Render
      <4>4. Progress!Newest \in Progress!Rendered /\ Progress!Newest <= Progress!Newest
        BY <1>2, <1>3, <3>1
      <4> QED BY <4>2, <4>3, <4>4 DEF Progress!Shown
    <3>2. CASE ~(Progress!Rendered # {} /\ Progress!Budget(status) > MinTail)
      <4>1. Progress!Render(status) = Progress!Shown(Len(segments) + 1,
                                   IF Progress!Rendered # {} /\ Marker + status <= Limit
                                   THEN Marker + status ELSE status)
        BY <2>4, <3>2 DEF Progress!Render
      <4> QED BY <3>2, <4>1 DEF Progress!Shown, Progress!Budget
    <3> QED BY <3>1, <3>2
  <2> QED BY <2>2, <2>3, <2>4
<1> QED BY <1>4 DEF Progress!RenderedFits

-----------------------------------------------------------------------------
(* The platform's runtime: PlatformRuntime *)

Shutdown == {"ingress", "handlers", "workflow", "outbox", "awaiting", "limiter", "down"}
Drained  == {"workflow", "outbox", "awaiting", "limiter", "down"}
Places   == {"new", "created", "application", "polling", "waiting", "up", "failed"} \cup Shutdown

PlatformType ==
    /\ platform \in {"none", "telegram", "discord"} /\ pc \in Places
    /\ sdk \in [polling : BOOLEAN, running : BOOLEAN, closed : BOOLEAN]
    /\ accepting \in BOOLEAN /\ connected \in BOOLEAN
    /\ handlers \in [ChatMessages -> {"none", "dispatched", "text", "voice", "replying", "done"}]
    /\ delivery \in [limiter : {"off", "on", "shut"}, closed : BOOLEAN, background : SUBSET ChatMessages]
    /\ tries \in [steps : Nat, sends : Nat, failed : BOOLEAN] /\ outages \in Nat

NobodyIsIn == ~accepting /\ ~sdk.running /\ \A m \in ChatMessages : ~Platform!Active(m)

\* What is certain in which step of a shutdown; what a closed outbox stands for outlives a
\* shutdown that fails and is retried.
IngressStops ==
    /\ platform = "none" => pc = "new"
    /\ platform = "none" => delivery.background = {}
    /\ pc \in Shutdown \cup {"failed"} => ~accepting
    /\ pc = "handlers" /\ ~tries.failed => ~sdk.polling
    /\ pc \in Drained => NobodyIsIn /\ ~sdk.polling /\ ~connected
    /\ delivery.closed => NobodyIsIn /\ pc \in Shutdown \cup {"failed"}

DeliveryStops ==
    /\ pc \in {"awaiting", "limiter", "down"} => delivery.closed
    /\ pc \in {"limiter", "down"} => delivery.background = {}
    /\ pc = "down" => delivery.limiter = "shut"

PlatformInv == PlatformType /\ IngressStops /\ DeliveryStops

-----------------------------------------------------------------------------
LEMMA PlatformInit == ASSUME Platform!Init PROVE PlatformInv
BY DEF Platform!Init, PlatformInv, PlatformType, IngressStops, DeliveryStops, NobodyIsIn, Platform!Active, Places, Shutdown, Drained

\* The fields of the records, each with its type.
LEMMA FieldsAre ==
    ASSUME PlatformType
    PROVE  /\ sdk.polling \in BOOLEAN /\ sdk.running \in BOOLEAN /\ sdk.closed \in BOOLEAN
           /\ delivery.limiter \in {"off", "on", "shut"} /\ delivery.closed \in BOOLEAN
           /\ delivery.background \in SUBSET ChatMessages
           /\ tries.steps \in Nat /\ tries.sends \in Nat /\ tries.failed \in BOOLEAN
BY DEF PlatformType

\* Starting: no step of it is taken once a shutdown has begun.
LEMMA StartKeeps ==
    ASSUME PlatformInv,
           \/ Platform!Create \/ Platform!TelegramInitialize \/ Platform!TelegramApplication \/ Platform!TelegramPolling
           \/ Platform!DiscordStart \/ Platform!DiscordStarted
    PROVE  PlatformInv'
<1>1. PlatformType'
  <2>1. platform' \in {"none", "telegram", "discord"} /\ outages' \in Nat
    BY DEF PlatformInv, PlatformType, Platform!Create, Platform!TelegramInitialize, Platform!TelegramApplication, Platform!TelegramPolling,
           Platform!DiscordStart, Platform!DiscordStarted, Platform!StepFails, Platform!Fails
  <2>2. pc' \in Places
    BY DEF Platform!Create, Platform!TelegramInitialize, Platform!TelegramApplication, Platform!TelegramPolling,
           Platform!DiscordStart, Platform!DiscordStarted, Platform!StepFails, Platform!Goes, Places
  <2>3. accepting' \in BOOLEAN /\ handlers' = handlers
    BY DEF PlatformInv, PlatformType, Platform!Create, Platform!TelegramInitialize, Platform!TelegramApplication, Platform!TelegramPolling,
           Platform!DiscordStart, Platform!DiscordStarted
  <2>4. connected' \in BOOLEAN
    BY DEF PlatformInv, PlatformType, Platform!Create, Platform!TelegramInitialize, Platform!TelegramApplication, Platform!TelegramPolling,
           Platform!DiscordStart, Platform!DiscordStarted
  <2>5. sdk' = sdk \/ sdk' = [sdk EXCEPT !.running = TRUE] \/ sdk' = [sdk EXCEPT !.polling = TRUE]
    BY DEF Platform!Create, Platform!TelegramInitialize, Platform!TelegramApplication, Platform!TelegramPolling, Platform!DiscordStart, Platform!DiscordStarted
  <2>6. sdk' \in [polling : BOOLEAN, running : BOOLEAN, closed : BOOLEAN]
    BY <2>5 DEF PlatformInv, PlatformType
  <2>7. delivery' = delivery \/ delivery' = [delivery EXCEPT !.limiter = "on"]
    BY DEF Platform!Create, Platform!TelegramInitialize, Platform!TelegramApplication, Platform!TelegramPolling, Platform!DiscordStart, Platform!DiscordStarted
  <2>8. delivery' \in [limiter : {"off", "on", "shut"}, closed : BOOLEAN, background : SUBSET ChatMessages]
    BY <2>7 DEF PlatformInv, PlatformType
  <2>9. \/ tries' = tries \/ tries' = [tries EXCEPT !.steps = 0]
        \/ tries' = [tries EXCEPT !.steps = @ + 1]
    BY DEF Platform!Create, Platform!TelegramInitialize, Platform!TelegramApplication, Platform!TelegramPolling, Platform!DiscordStart,
           Platform!DiscordStarted, Platform!StepFails, Platform!Goes
  <2>10. tries' \in [steps : Nat, sends : Nat, failed : BOOLEAN]
    BY <2>9 DEF PlatformInv, PlatformType
  <2> QED BY <2>1, <2>2, <2>3, <2>4, <2>6, <2>8, <2>10 DEF PlatformInv, PlatformType
<1>2. /\ pc \in {"new", "created", "application", "polling", "waiting"}
      /\ pc' \in {"created", "application", "polling", "waiting", "up"}
      /\ platform' # "none"
      /\ delivery'.closed = delivery.closed
  BY DEF Platform!Create, Platform!TelegramInitialize, Platform!TelegramApplication, Platform!TelegramPolling, Platform!DiscordStart, Platform!DiscordStarted,
         Platform!StepFails, Platform!Fails, Platform!Goes, PlatformInv, PlatformType
<1> QED BY <1>1, <1>2 DEF PlatformInv, IngressStops, DeliveryStops, Shutdown, Drained

LEMMA ConnectionKeeps == ASSUME PlatformInv, Platform!MarkConnected \/ Platform!ClientExits PROVE PlatformInv'
<1>1. PlatformType'
  <2>1. sdk' = sdk \/ sdk' = [sdk EXCEPT !.running = FALSE]
    <3>1. CASE Platform!MarkConnected
      BY <3>1 DEF Platform!MarkConnected
    <3>2. CASE Platform!ClientExits
      BY <3>2 DEF Platform!ClientExits, PlatformInv, PlatformType
    <3> QED BY <3>1, <3>2
  <2>2. connected' \in BOOLEAN
    <3>1. CASE Platform!MarkConnected
      BY <3>1 DEF Platform!MarkConnected
    <3>2. CASE Platform!ClientExits
      <4>1. PICK v \in BOOLEAN : v <=> (connected /\ ~accepting)
        OBVIOUS
      <4>2. v = (connected /\ ~accepting)
        BY <4>1
      <4> QED BY <3>2, <4>2 DEF Platform!ClientExits
    <3> QED BY <3>1, <3>2
  <2>4. outages' \in Nat
    BY DEF PlatformInv, PlatformType, Platform!MarkConnected, Platform!ClientExits, Platform!Fails
  <2>3. UNCHANGED <<platform, pc, accepting, handlers, delivery, tries>>
    BY DEF Platform!MarkConnected, Platform!ClientExits
  <2> QED BY <2>1, <2>2, <2>3, <2>4 DEF PlatformInv, PlatformType
<1>2. /\ UNCHANGED <<pc, accepting, handlers, delivery, tries, platform>>
      /\ sdk'.running => sdk.running
      /\ sdk'.polling = sdk.polling
      /\ connected' => connected \/ accepting
  BY DEF PlatformInv, PlatformType, Platform!MarkConnected, Platform!ClientExits
<1>3. platform # "none"
  BY DEF Platform!MarkConnected, Platform!ClientExits
<1> QED BY <1>1, <1>2, <1>3 DEF PlatformInv, IngressStops, DeliveryStops, NobodyIsIn, Platform!Active, Shutdown, Drained

\* A message gets in only where the ingress is open.
LEMMA MessageKeeps ==
    ASSUME PlatformInv, NEW m \in ChatMessages, Platform!Arrive(m) \/ Platform!Handle(m) \/ Platform!Ignore(m) \/ Platform!Handled(m) \/ Platform!Reply(m)
    PROVE  PlatformInv'
<1>1. PlatformType'
  <2>1. CASE Platform!Handle(m)
    <3>1. PICK e \in Platform!Events :
             handlers' = [handlers EXCEPT ![m] = IF platform = "telegram" THEN Platform!FromUpdate(e) ELSE Platform!FromEvent(e)]
      BY <2>1 DEF Platform!Handle
    <3>2. Platform!FromEvent(e) \in {"done", "text", "voice"}
      BY DEF Platform!FromEvent
    <3>3. Platform!FromUpdate(e) \in {"done", "text", "voice"}
      <4>1. e.content \in SUBSET {"text", "voice"}
        BY DEF Platform!Events
      <4>2. CASE e.served /\ Cardinality(e.content) = 1 /\ e.content = {}
        <5>1. Cardinality(e.content) = 0
          BY <4>2, FS_EmptySet
        <5> QED BY <4>2, <5>1
      <4>3. CASE e.content # {} \/ ~(e.served /\ Cardinality(e.content) = 1)
        BY <4>1, <4>3 DEF Platform!FromUpdate
      <4> QED BY <4>2, <4>3
    <3> QED BY <2>1, <3>1, <3>2, <3>3 DEF PlatformInv, PlatformType, Platform!Handle
  <2>2. CASE Platform!Arrive(m) \/ Platform!Ignore(m) \/ Platform!Handled(m) \/ Platform!Reply(m)
    BY <2>2 DEF PlatformInv, PlatformType, Platform!Arrive, Platform!Ignore, Platform!Handled, Platform!Reply, Platform!Fails
  <2> QED BY <2>1, <2>2
<1>2. /\ UNCHANGED <<pc, sdk, accepting, connected, delivery, platform>> /\ tries'.failed = tries.failed
      /\ \A n \in ChatMessages : Platform!Active(n)' => Platform!Active(n) \/ sdk.running \/ accepting
  BY DEF PlatformInv, PlatformType, Platform!Arrive, Platform!Handle, Platform!Ignore, Platform!Handled, Platform!Reply, Platform!Active, Platform!MayHandle, Platform!MayEnter
<1> QED BY <1>1, <1>2 DEF PlatformInv, IngressStops, DeliveryStops, NobodyIsIn, Shutdown, Drained

LEMMA DetachKeeps ==
    ASSUME PlatformInv, NEW m \in ChatMessages, Platform!Detach(m) \/ Platform!DetachedEnds(m)
    PROVE  PlatformInv'
<1>1. PlatformType'
  BY DEF PlatformInv, PlatformType, Platform!Detach, Platform!DetachedEnds
<1>2. /\ UNCHANGED <<platform, pc, sdk, accepting, connected, handlers, tries>>
      /\ delivery'.closed = delivery.closed /\ delivery'.limiter = delivery.limiter
      /\ delivery.closed \/ platform = "none" => delivery'.background \subseteq delivery.background
  BY DEF PlatformInv, PlatformType, Platform!Detach, Platform!DetachedEnds
<1> QED BY <1>1, <1>2 DEF PlatformInv, IngressStops, DeliveryStops, NobodyIsIn, Platform!Active, Shutdown, Drained

LEMMA QuiesceKeeps == ASSUME PlatformInv, Platform!Quiesce \/ Platform!StopIngress \/ Platform!Drain PROVE PlatformInv'
<1>1. PlatformType'
  <2>1. /\ UNCHANGED <<platform, handlers, delivery>>
        /\ accepting' = accepting \/ accepting' = FALSE
        /\ connected' = connected \/ connected' = FALSE
    BY DEF Platform!Quiesce, Platform!StopIngress, Platform!Drain
  <2>11. outages' \in Nat
    BY DEF PlatformInv, PlatformType, Platform!Quiesce, Platform!StopIngress, Platform!Drain, Platform!Raised, Platform!Fails
  <2>10. pc' \in Places
    BY DEF Platform!Quiesce, Platform!StopIngress, Platform!Drain, Places, Shutdown
  <2>2. PICK v \in BOOLEAN : v <=> platform = "discord"
    OBVIOUS
  <2>3. v = (platform = "discord")
    BY <2>2
  <2>4. \/ sdk' = sdk \/ sdk' = [sdk EXCEPT !.running = FALSE]
        \/ sdk' = [sdk EXCEPT !.polling = FALSE, !.closed = v]
    BY <2>3 DEF Platform!Quiesce, Platform!StopIngress, Platform!Drain
  <2>5. tries' = tries \/ (\E b \in BOOLEAN : tries' = [tries EXCEPT !.failed = b])
    BY DEF Platform!Quiesce, Platform!StopIngress, Platform!Drain, Platform!Raised
  <2>6. sdk' \in [polling : BOOLEAN, running : BOOLEAN, closed : BOOLEAN]
    BY <2>4 DEF PlatformInv, PlatformType
  <2>7. tries' \in [steps : Nat, sends : Nat, failed : BOOLEAN]
    BY <2>5 DEF PlatformInv, PlatformType
  <2> QED BY <2>1, <2>6, <2>7, <2>10, <2>11 DEF PlatformInv, PlatformType
<1>2. CASE Platform!Quiesce
  <2>1. /\ pc' = "ingress" /\ ~accepting' /\ pc # "new"
        /\ UNCHANGED <<platform, sdk, connected, handlers, delivery>>
    BY <1>2 DEF Platform!Quiesce
  <2> QED BY <1>1, <2>1 DEF PlatformInv, IngressStops, DeliveryStops, NobodyIsIn, Platform!Active, Shutdown, Drained
<1>3. CASE Platform!StopIngress
  <2>1. /\ pc = "ingress" /\ pc' = "handlers"
        /\ UNCHANGED <<platform, accepting, connected, handlers, delivery>>
        /\ sdk'.running = sdk.running /\ (tries'.failed \/ ~sdk'.polling)
    BY <1>3 DEF Platform!StopIngress, Platform!Raised, Platform!Fails, PlatformInv, PlatformType
  <2> QED BY <1>1, <2>1 DEF PlatformInv, IngressStops, DeliveryStops, NobodyIsIn, Platform!Active, Shutdown, Drained
<1>4. CASE Platform!Drain
  <2>1. /\ pc = "handlers" /\ \A m \in ChatMessages : ~Platform!Active(m)
        /\ ~connected' /\ UNCHANGED <<platform, accepting, handlers, delivery, tries>>
        /\ sdk'.polling = sdk.polling
        /\ \/ ~sdk'.running /\ pc' = IF tries.failed THEN "failed" ELSE "workflow"
           \/ sdk.running /\ pc' = "failed"
    BY <1>4 DEF Platform!Drain, Platform!HandlersDrained, PlatformInv, PlatformType
  <2> QED BY <1>1, <2>1 DEF PlatformInv, IngressStops, DeliveryStops, NobodyIsIn, Platform!Active, Shutdown, Drained
<1> QED BY <1>2, <1>3, <1>4

LEMMA CloseKeeps == ASSUME PlatformInv, Platform!CloseWorkflow \/ Platform!CloseOutbox \/ Platform!OutboxClosed \/ Platform!Close PROVE PlatformInv'
<1>1. PlatformType'
  <2>1. pc' \in Places /\ outages' \in Nat /\ UNCHANGED <<platform, sdk, accepting, connected, handlers, tries>>
    BY DEF PlatformInv, PlatformType, Platform!CloseWorkflow, Platform!CloseOutbox, Platform!OutboxClosed, Platform!Close, Platform!Fails, Places, Shutdown
  <2>2. \/ delivery' = delivery \/ delivery' = [delivery EXCEPT !.closed = TRUE]
        \/ delivery' = [delivery EXCEPT !.limiter = "shut"]
    BY DEF Platform!CloseWorkflow, Platform!CloseOutbox, Platform!OutboxClosed, Platform!Close
  <2> QED BY <2>1, <2>2 DEF PlatformInv, PlatformType
<1>2. /\ pc \in {"workflow", "outbox", "awaiting", "limiter"}
      /\ pc' \in {"outbox", "awaiting", "limiter", "down", "failed"}
      /\ UNCHANGED <<platform, sdk, accepting, connected, handlers, tries>>
      /\ delivery'.background = delivery.background
  BY DEF PlatformInv, PlatformType, Platform!CloseWorkflow, Platform!CloseOutbox, Platform!OutboxClosed, Platform!Close
<1>3. /\ delivery.closed => delivery'.closed
      /\ pc' \in {"awaiting", "limiter", "down"} => delivery'.closed
      /\ pc' \in {"limiter", "down"} => delivery.background = {}
      /\ pc' = "down" => delivery'.limiter = "shut"
      /\ delivery'.closed => delivery.closed \/ pc = "outbox"
  BY DEF PlatformInv, PlatformType, DeliveryStops, Platform!CloseWorkflow, Platform!CloseOutbox, Platform!OutboxClosed, Platform!Close
<1> QED BY <1>1, <1>2, <1>3 DEF PlatformInv, IngressStops, DeliveryStops, NobodyIsIn, Platform!Active, Shutdown, Drained

LEMMA PlatformNext == ASSUME PlatformInv, [Platform!Next]_Platform!vars PROVE PlatformInv'
<1>1. CASE UNCHANGED Platform!vars
  BY <1>1 DEF Platform!vars, PlatformInv, PlatformType, IngressStops, DeliveryStops, NobodyIsIn, Platform!Active
<1> QED BY <1>1, StartKeeps, ConnectionKeeps, MessageKeeps, DetachKeeps, QuiesceKeeps, CloseKeeps DEF Platform!Next

LEMMA PlatformSound == ASSUME PlatformInv PROVE Platform!IngressEndsFirst /\ Platform!NothingIsLeft
BY DEF PlatformInv, IngressStops, DeliveryStops, NobodyIsIn, Platform!IngressEndsFirst, Platform!NothingIsLeft, Drained

-----------------------------------------------------------------------------
(* The delivery queue: MessagingLimiter *)

(***************************************************************************)
(* Nobody is lost in the delivery queue.  Compaction replaces what a key   *)
(* stands for and keeps who waits for it; the worker takes both; and the   *)
(* shutdown answers whoever the queue and the worker know, which is        *)
(* everybody.  That what is taken is the newest rests on the order in      *)
(* which the tasks of the detached calls come to the queue.                *)
(***************************************************************************)

\* The queue holds each key that has an entry, once, and an entry knows who replaced it.
QueueIsEntries ==
    /\ \A k \in DeliveryKeys : entry[k].func = 0 => entry[k].futures = {}
    /\ \A k \in DeliveryKeys : entry[k].func # 0 => entry[k].func \in entry[k].futures
    /\ \A i \in 1..Len(queue) : entry[queue[i]].func # 0
    /\ \A k \in DeliveryKeys : entry[k].func # 0 => \E i \in 1..Len(queue) : queue[i] = k
    /\ \A i, j \in 1..Len(queue) : queue[i] = queue[j] => i = j

\* Futures are those of calls for the key they are kept under.
FuturesAreOwn ==
    /\ \A k \in DeliveryKeys : \A c \in entry[k].futures : call[c].key = k /\ call[c].at # "new"
    /\ \A c \in worker.futures : call[c].key = worker.key /\ call[c].at # "new"

\* The worker has something to run from the moment it takes it until it is done.
WorkerHolds ==
    /\ worker.at \in {"holding", "running"} <=> worker.func # 0
    /\ worker.at \in {"waiting", "stopped"} => worker.futures = {}
    /\ worker.func # 0 => worker.func \in worker.futures
    /\ worker.at = "stopped" => stopping # "no"

\* A shutdown empties the queue and answers whoever waits; once it has returned or
\* raised no task of a detached call is left.
ShutdownAnswers ==
    /\ stopping # "no" => /\ queue = <<>>
                          /\ \A k \in DeliveryKeys : entry[k] = Limiter!NoEntry
                          /\ \A c \in Limiter!Calls : call[c].at # "waiting"
    /\ stopping \in {"failed", "over"} => \A c \in Limiter!Calls : call[c].at \in Limiter!Ended \cup {"new"}
    /\ stopping = "over" => worker.at = "stopped"

\* Calls are made in their order, and the tasks of the detached ones start in it.
TasksAreInOrder ==
    /\ \A c, d \in Limiter!Calls : c < d /\ call[c].at = "new" => call[d].at = "new"
    /\ \A c \in Limiter!Calls : call[c].at \in {"new", "started"} => call[c].attempts = 0
    /\ \A c \in Limiter!Calls : call[c].at = "started" => call[c].kind = "detached"
    /\ \A c \in Limiter!Calls : call[c].at = "backoff" => call[c].attempts >= 1
    /\ stopping = "no" =>
         \A c, d \in Limiter!Calls : c < d /\ call[c].at = "started" /\ call[d].kind = "detached"
                                           /\ call[d].at # "new"
                                     => call[d].at = "started"

\* No version but the newest is queued, where no broken connection has put one off.
OnlyDetached(k) == \A c \in Limiter!Asked(k) : call[c].kind = "detached" /\ call[c].attempts = 0
NewestIsQueued ==
    \A k \in DeliveryKeys : entry[k].func # 0 /\ OnlyDetached(k) =>
        \A c \in Limiter!Asked(k) : call[c].at # "started" => c <= entry[k].func

LimiterInv == /\ Limiter!TypeOK /\ QueueIsEntries /\ FuturesAreOwn /\ WorkerHolds /\ Limiter!WaitersAreKnown
              /\ ShutdownAnswers /\ TasksAreInOrder /\ NewestIsQueued

LEMMA CallIs ==
    ASSUME NEW x \in Limiter!Call
    PROVE  /\ x.at \in Limiter!CallState /\ x.key \in DeliveryKeys /\ x.kind \in {"awaited", "detached"}
           /\ x.attempts \in Int /\ 0 <= x.attempts /\ x.attempts <= Limiter!MaxRetries
           /\ \A a \in Limiter!CallState : [x EXCEPT !.at = a] \in Limiter!Call
BY DEF Limiter!Call, Limiter!MaxRetries

\* The parts of the invariant that are about the calls alone, and their order.
LEMMA TypesOf ==
    ASSUME Limiter!LimiterAssumption, LimiterInv
    PROVE  /\ Limiter!Calls \subseteq Nat /\ 0 \notin Limiter!Calls /\ \A c \in Limiter!Calls : c \in 0..MaxCalls
           /\ queue \in Seq(DeliveryKeys) /\ Len(queue) \in Nat /\ entry \in [DeliveryKeys -> Limiter!Entry]
           /\ call \in [Limiter!Calls -> Limiter!Call] /\ worker \in Limiter!Worker
           /\ \A k \in DeliveryKeys : entry[k].func \in 0..MaxCalls /\ entry[k].futures \subseteq Limiter!Calls
           /\ worker.func \in 0..MaxCalls /\ worker.futures \subseteq Limiter!Calls /\ worker.key \in DeliveryKeys
BY DEF Limiter!LimiterAssumption, LimiterInv, Limiter!TypeOK, Limiter!Calls, Limiter!Entry, Limiter!Worker

\* Init, limiter.py:60-87.
LEMMA LimiterInit == ASSUME Limiter!LimiterAssumption, Limiter!Init PROVE LimiterInv
<1>1. Limiter!AnyKey \in DeliveryKeys
  BY DEF Limiter!LimiterAssumption, Limiter!AnyKey
<1>2. Limiter!TypeOK
  <2>1. queue \in Seq(DeliveryKeys) /\ Limiter!NoEntry \in Limiter!Entry
    BY DEF Limiter!Init, Limiter!LimiterAssumption, Limiter!NoEntry, Limiter!Entry
  <2>2. call \in [Limiter!Calls -> Limiter!Call]
    BY <1>1 DEF Limiter!Init, Limiter!Call, Limiter!CallState, Limiter!MaxRetries
  <2>3. worker \in Limiter!Worker
    BY <1>1 DEF Limiter!Init, Limiter!LimiterAssumption, Limiter!Worker
  <2> QED BY <2>1, <2>2, <2>3 DEF Limiter!Init, Limiter!LimiterAssumption, Limiter!TypeOK
<1>3. QueueIsEntries /\ FuturesAreOwn /\ WorkerHolds
  BY DEF Limiter!Init, Limiter!NoEntry, QueueIsEntries, FuturesAreOwn, WorkerHolds
<1>4. Limiter!WaitersAreKnown /\ ShutdownAnswers /\ TasksAreInOrder
  BY DEF Limiter!Init, Limiter!WaitersAreKnown, ShutdownAnswers, TasksAreInOrder
<1>5. NewestIsQueued
  BY DEF Limiter!Init, Limiter!NoEntry, NewestIsQueued
<1> QED BY <1>2, <1>3, <1>4, <1>5 DEF LimiterInv

\* What becomes of a call whose future the worker holds, and of any other.
SettledFor(c) ==
    \/ call'[c] = call[c] /\ (call[c].at = "waiting" => c \notin worker.futures)
    \/ /\ call[c].at = "waiting" /\ call'[c].key = call[c].key /\ call'[c].kind = call[c].kind
       /\ \/ call'[c].at \in Limiter!Ended /\ call'[c].attempts = call[c].attempts
          \/ stopping = "no" /\ call'[c].at = "backoff" /\ call'[c].attempts >= 1

\* The futures the worker holds get their outcome, and the worker gives them up: those
\* of detached calls may sleep while the limiter runs.
Settles ==
    /\ call' \in [Limiter!Calls -> Limiter!Call] /\ shown' \in [DeliveryKeys -> 0..MaxCalls]
    /\ \A c \in Limiter!Calls : SettledFor(c)
    /\ worker.at # "stopped"
    /\ worker'.at = "waiting" \/ (worker'.at = "stopped" /\ stopping # "no")
    /\ worker' = [worker EXCEPT !.at = worker'.at, !.func = 0, !.futures = {}]
    /\ UNCHANGED <<queue, entry, stopping>>

\* Whatever the outcome is, it reaches each call that waits (limiter.py:120-170).
LEMMA SettleStep == ASSUME Limiter!LimiterAssumption, LimiterInv, Settles PROVE LimiterInv'
<1>1. /\ Limiter!TypeOK /\ QueueIsEntries /\ FuturesAreOwn /\ WorkerHolds /\ Limiter!WaitersAreKnown
      /\ ShutdownAnswers /\ TasksAreInOrder /\ NewestIsQueued
  BY DEF LimiterInv
<1>2. /\ Limiter!Calls \subseteq Nat /\ call \in [Limiter!Calls -> Limiter!Call] /\ call' \in [Limiter!Calls -> Limiter!Call]
      /\ worker \in Limiter!Worker /\ queue' = queue /\ entry' = entry /\ stopping' = stopping
      /\ \A k \in DeliveryKeys : entry[k].futures \subseteq Limiter!Calls
  BY TypesOf DEF Settles
<1>3. /\ worker' \in Limiter!Worker /\ worker'.func = 0 /\ worker'.futures = {}
      /\ worker'.at = "waiting" \/ (worker'.at = "stopped" /\ stopping # "no")
  <2>1. worker'.at \in {"waiting", "stopped"}
        /\ worker' = [worker EXCEPT !.at = worker'.at, !.func = 0, !.futures = {}]
    BY DEF Settles
  <2>2. 0 \in 0..MaxCalls
    BY DEF Limiter!LimiterAssumption
  <2> QED BY <1>2, <2>1, <2>2 DEF Settles, Limiter!Worker
<1>4. ASSUME NEW c \in Limiter!Calls
      PROVE  /\ call'[c].key = call[c].key /\ call'[c].kind = call[c].kind
             /\ call'[c].at = "new" <=> call[c].at = "new"
             /\ call'[c].at = "started" <=> call[c].at = "started"
             /\ call'[c].at = "waiting" => call[c].at = "waiting" /\ c \notin worker.futures
             /\ call'[c].at # "backoff" => call'[c].attempts = call[c].attempts
             /\ \/ call'[c].at = call[c].at /\ call'[c].attempts = call[c].attempts
                \/ call'[c].at \in Limiter!Ended
                \/ stopping = "no" /\ call'[c].at = "backoff" /\ call'[c].attempts >= 1
  <2>1. CASE call'[c] = call[c] /\ (call[c].at = "waiting" => c \notin worker.futures)
    BY <2>1
  <2>2. CASE /\ call[c].at = "waiting" /\ call'[c].key = call[c].key
             /\ call'[c].kind = call[c].kind
             /\ \/ call'[c].at \in Limiter!Ended /\ call'[c].attempts = call[c].attempts
                \/ stopping = "no" /\ call'[c].at = "backoff" /\ call'[c].attempts >= 1
    BY <2>2 DEF Limiter!Ended
  <2> QED BY <2>1, <2>2 DEF Settles, SettledFor
<1>5. Limiter!TypeOK'
  BY <1>1, <1>2, <1>3 DEF Limiter!TypeOK, Settles
<1>6. QueueIsEntries' /\ FuturesAreOwn' /\ WorkerHolds'
  <2>1. QueueIsEntries'
    BY <1>1, <1>2 DEF QueueIsEntries
  <2>2. FuturesAreOwn'
    BY <1>1, <1>2, <1>3, <1>4 DEF FuturesAreOwn
  <2>3. WorkerHolds'
    BY <1>2, <1>3 DEF WorkerHolds
  <2> QED BY <2>1, <2>2, <2>3
<1>7. Limiter!WaitersAreKnown'
  BY <1>1, <1>2, <1>3, <1>4 DEF Limiter!WaitersAreKnown
<1>8. ShutdownAnswers'
  <2>1. stopping # "over"
    BY <1>1 DEF ShutdownAnswers, Settles
  <2>2. \A c \in Limiter!Calls : stopping # "no" => call'[c].at # "waiting"
    BY <1>1, <1>4 DEF ShutdownAnswers
  <2>3. stopping \in {"failed", "over"} => \A c \in Limiter!Calls : call'[c].at \in Limiter!Ended \cup {"new"}
    BY <1>1, <1>4 DEF ShutdownAnswers
  <2> QED BY <1>1, <1>2, <1>3, <2>1, <2>2, <2>3 DEF ShutdownAnswers
<1>9. TasksAreInOrder'
  BY <1>1, <1>2, <1>4 DEF TasksAreInOrder, Limiter!Ended
<1>10. NewestIsQueued'
  <2> SUFFICES ASSUME NEW k \in DeliveryKeys, entry[k].func # 0, OnlyDetached(k)',
                      NEW c \in Limiter!Asked(k)', call'[c].at # "started"
               PROVE  c <= entry[k].func
    BY <1>2 DEF NewestIsQueued
  <2>1. Limiter!Asked(k)' = Limiter!Asked(k)
    BY <1>4 DEF Limiter!Asked
  <2>2. \A d \in Limiter!Asked(k) : call[d].kind = "detached" /\ call[d].attempts = 0
    BY <1>4, <2>1 DEF OnlyDetached, Limiter!Asked, Limiter!Ended
  <2>3. c \in Limiter!Asked(k) /\ call[c].at # "started" /\ c \in Limiter!Calls
    BY <1>4, <2>1 DEF Limiter!Asked
  <2>4. OnlyDetached(k)
    BY <2>2 DEF OnlyDetached
  <2> QED BY <1>1, <2>3, <2>4 DEF NewestIsQueued
<1> QED BY <1>5, <1>6, <1>7, <1>8, <1>9, <1>10 DEF LimiterInv

\* limiter.py:163-196, 200-226: the outcomes of an operation, for good or for the time being.
LEMMA OutcomeStep ==
    ASSUME Limiter!LimiterAssumption, LimiterInv, Limiter!Deliver \/ Limiter!Fail \/ Limiter!Break \/ Limiter!WorkerStops
    PROVE  Settles
<1>1. /\ call \in [Limiter!Calls -> Limiter!Call] /\ worker \in Limiter!Worker /\ worker.futures \subseteq Limiter!Calls
      /\ worker.key \in DeliveryKeys /\ worker.func \in 0..MaxCalls
      /\ shown \in [DeliveryKeys -> 0..MaxCalls] /\ Limiter!TypeOK
  BY TypesOf DEF LimiterInv, Limiter!TypeOK
<1>2. ASSUME Limiter!Shows \/ UNCHANGED shown PROVE shown' \in [DeliveryKeys -> 0..MaxCalls]
  BY <1>1, <1>2 DEF Limiter!Shows
<1>3. ASSUME worker.at = "running", Limiter!Idle
      PROVE  /\ worker.at # "stopped" /\ worker'.at = "waiting"
             /\ worker' = [worker EXCEPT !.at = worker'.at, !.func = 0, !.futures = {}]
  BY <1>1, <1>3 DEF Limiter!Idle, Limiter!Worker
<1>4. ASSUME NEW outcome \in Limiter!Ended, call' = Limiter!Resolved(call, worker.futures, outcome)
      PROVE  /\ call' \in [Limiter!Calls -> Limiter!Call]
             /\ \A c \in Limiter!Calls : SettledFor(c)
  <2>1. \A c \in Limiter!Calls : [call[c] EXCEPT !.at = outcome] \in Limiter!Call
    BY <1>1, CallIs DEF Limiter!CallState
  <2>2. \A c \in Limiter!Calls : call'[c] = IF c \in worker.futures /\ call[c].at = "waiting"
                                            THEN [call[c] EXCEPT !.at = outcome] ELSE call[c]
    BY <1>4 DEF Limiter!Resolved
  <2>3. \A c \in Limiter!Calls : /\ [call[c] EXCEPT !.at = outcome].at = outcome
                                 /\ [call[c] EXCEPT !.at = outcome].key = call[c].key
                                 /\ [call[c] EXCEPT !.at = outcome].kind = call[c].kind
                                 /\ [call[c] EXCEPT !.at = outcome].attempts = call[c].attempts
    BY <1>1 DEF Limiter!Call
  <2>4. call' \in [Limiter!Calls -> Limiter!Call]
    BY <1>1, <1>4, <2>1 DEF Limiter!Resolved
  <2> QED BY <2>2, <2>3, <2>4 DEF SettledFor
<1>5. CASE Limiter!Deliver
  <2>1. "ok" \in Limiter!Ended
    BY DEF Limiter!Ended
  <2>2. worker.at = "running" /\ Limiter!Idle /\ Limiter!Shows /\ UNCHANGED <<queue, entry, stopping>>
        /\ call' = Limiter!Resolved(call, worker.futures, "ok")
    BY <1>5 DEF Limiter!Deliver
  <2> QED BY <1>2, <1>4, <1>3, <2>1, <2>2 DEF Settles
<1>6. CASE Limiter!Fail
  <2>1. "failed" \in Limiter!Ended /\ "cancelled" \in Limiter!Ended
    BY DEF Limiter!Ended
  <2>2. PICK outcome \in Limiter!Ended : call' = Limiter!Resolved(call, worker.futures, outcome)
    BY <1>6, <2>1 DEF Limiter!Fail
  <2>3. worker.at = "running" /\ Limiter!Idle /\ UNCHANGED <<queue, entry, shown, stopping>>
    BY <1>6 DEF Limiter!Fail
  <2> QED BY <1>2, <1>4, <1>3, <2>2, <2>3 DEF Settles
<1>7. CASE Limiter!Break
  <2>1. ASSUME NEW c \in Limiter!Calls
        PROVE  call'[c] \in Limiter!Call /\ SettledFor(c)
    <3>1. call[c] \in Limiter!Call /\ call' = Limiter!Broken(call) /\ stopping = "no"
      BY <1>1, <1>7 DEF Limiter!Break
    <3>2. CASE c \notin worker.futures \/ call[c].at # "waiting"
      BY <3>1, <3>2 DEF Limiter!Broken, SettledFor
    <3>3. CASE /\ c \in worker.futures /\ call[c].at = "waiting"
               /\ call[c].kind = "detached" /\ call[c].attempts < Limiter!MaxRetries
      <4>1. call'[c] = [call[c] EXCEPT !.at = "backoff", !.attempts = @ + 1]
        BY <3>1, <3>3 DEF Limiter!Broken
      <4>2. /\ call[c].attempts \in 0..Limiter!MaxRetries /\ call[c].attempts + 1 \in 0..Limiter!MaxRetries
            /\ call[c].attempts + 1 >= 1
        BY <3>1, <3>3 DEF Limiter!Call, Limiter!MaxRetries
      <4>3. /\ call'[c] \in Limiter!Call /\ call'[c].at = "backoff" /\ call'[c].key = call[c].key
            /\ call'[c].kind = call[c].kind /\ call'[c].attempts = call[c].attempts + 1
        BY <3>1, <4>1, <4>2 DEF Limiter!Call, Limiter!CallState
      <4> QED BY <3>1, <3>3, <4>2, <4>3 DEF SettledFor
    <3>4. CASE /\ c \in worker.futures /\ call[c].at = "waiting"
               /\ ~(call[c].kind = "detached" /\ call[c].attempts < Limiter!MaxRetries)
      <4>1. call'[c] = [call[c] EXCEPT !.at = "failed"]
        BY <3>1, <3>4 DEF Limiter!Broken
      <4> QED BY <3>1, <3>4, <4>1 DEF Limiter!Call, Limiter!CallState, Limiter!Ended, SettledFor
    <3> QED BY <3>2, <3>3, <3>4
  <2>2. call' \in [Limiter!Calls -> Limiter!Call]
    BY <1>7, <2>1 DEF Limiter!Break, Limiter!Broken
  <2>3. /\ worker.at = "running" /\ Limiter!Idle /\ stopping = "no" /\ (Limiter!Shows \/ UNCHANGED shown)
        /\ UNCHANGED <<queue, entry, stopping>>
    BY <1>7 DEF Limiter!Break
  <2> QED BY <1>2, <1>3, <2>1, <2>2, <2>3 DEF Settles
<1>8. CASE Limiter!WorkerStops
  <2>1. stopping # "no" /\ call' = call
    BY <1>8 DEF Limiter!WorkerStops
  <2>2. \A c \in Limiter!Calls : call[c].at # "waiting"
    BY <2>1 DEF LimiterInv, ShutdownAnswers
  <2>3. \A c \in Limiter!Calls : SettledFor(c)
    BY <2>1, <2>2 DEF SettledFor
  <2> QED BY <1>1, <1>2, <1>8, <2>1, <2>3 DEF Limiter!WorkerStops, Settles
<1> QED BY <1>5, <1>6, <1>7, <1>8

-----------------------------------------------------------------------------
\* A call comes to the queue for the message of key k: an awaited one when it is made, a
\* detached one from its task.
Comes(calls, c, k) ==
    /\ calls \in [Limiter!Calls -> Limiter!Call] /\ \A d \in Limiter!Calls \ {c} : calls[d] = call[d]
    /\ calls[c].key = k /\ k \in DeliveryKeys /\ Limiter!Running /\ Limiter!Enqueued(calls, c, k)
    /\ \/ /\ call[c].at = "new" /\ \A d \in 1..(c - 1) : call[d].at # "new"
          /\ calls[c].kind = "awaited"
       \/ Limiter!MayRun(c) /\ calls = call
    /\ UNCHANGED <<worker, shown, stopping>>

\* The queue has a key for each entry, also for one that is new (limiter.py:243-264).
LEMMA QueuedIs ==
    ASSUME Limiter!LimiterAssumption, Limiter!TypeOK, QueueIsEntries, NEW k \in DeliveryKeys, NEW c \in Limiter!Calls,
           entry' = [entry EXCEPT ![k] = Limiter!Compacted(@, c)], queue' = Limiter!Queued(k)
    PROVE  /\ queue' \in Seq(DeliveryKeys) /\ entry' \in [DeliveryKeys -> Limiter!Entry] /\ QueueIsEntries'
           /\ entry'[k].func = c /\ entry'[k].futures = entry[k].futures \cup {c}
           /\ \A j \in DeliveryKeys : j # k => entry'[j] = entry[j]
<1>1. /\ queue \in Seq(DeliveryKeys) /\ Len(queue) \in Nat /\ entry \in [DeliveryKeys -> Limiter!Entry]
      /\ \A i \in 1..Len(queue) : queue[i] \in DeliveryKeys
      /\ c \in Nat /\ c # 0 /\ c \in 0..MaxCalls
  BY DEF Limiter!TypeOK, Limiter!Calls, Limiter!LimiterAssumption
<1>2. Limiter!Compacted(entry[k], c) \in Limiter!Entry
  BY <1>1 DEF Limiter!Compacted, Limiter!Entry
<1>3. /\ entry' \in [DeliveryKeys -> Limiter!Entry] /\ entry'[k] = Limiter!Compacted(entry[k], c)
      /\ \A j \in DeliveryKeys : j # k => entry'[j] = entry[j]
  BY <1>1, <1>2
<1>4. entry'[k].func = c /\ entry'[k].futures = entry[k].futures \cup {c}
  BY <1>3 DEF Limiter!Compacted
<1>5. queue' \in Seq(DeliveryKeys) /\ QueueIsEntries'
  <2>1. CASE entry[k].func # 0
    <3>1. queue' = queue
      BY <2>1 DEF Limiter!Queued
    <3> QED BY <1>1, <1>3, <1>4, <2>1, <3>1 DEF QueueIsEntries
  <2>2. CASE entry[k].func = 0
    <3>1. /\ queue' \in Seq(DeliveryKeys) /\ Len(queue') = Len(queue) + 1
          /\ queue'[Len(queue) + 1] = k
          /\ \A i \in 1..Len(queue) : queue'[i] = queue[i]
      BY <1>1, <2>2 DEF Limiter!Queued
    <3>2. \A i \in 1..Len(queue) : queue[i] # k
      BY <2>2 DEF QueueIsEntries
    <3>3. \A i \in 1..Len(queue') : i \in 1..Len(queue) \/ i = Len(queue) + 1
      BY <1>1, <3>1
    <3>4. \A j \in DeliveryKeys : entry'[j].func # 0 => \E i \in 1..Len(queue') : queue'[i] = j
      <4> SUFFICES ASSUME NEW j \in DeliveryKeys, entry'[j].func # 0, j # k
                   PROVE  \E i \in 1..Len(queue') : queue'[i] = j
        BY <1>1, <3>1
      <4>1. PICK i \in 1..Len(queue) : queue[i] = j
        BY <1>3 DEF QueueIsEntries
      <4> QED BY <1>1, <3>1, <4>1
    <3>5. \A i \in 1..Len(queue') : entry'[queue'[i]].func # 0
      BY <1>1, <1>3, <1>4, <3>1, <3>3 DEF QueueIsEntries
    <3>6. \A i, j \in 1..Len(queue') : queue'[i] = queue'[j] => i = j
      BY <1>1, <3>1, <3>2, <3>3 DEF QueueIsEntries
    <3>7. \A j \in DeliveryKeys : /\ entry'[j].func = 0 => entry'[j].futures = {}
                                  /\ entry'[j].func # 0 => entry'[j].func \in entry'[j].futures
      BY <1>1, <1>3, <1>4 DEF QueueIsEntries
    <3> QED BY <3>1, <3>4, <3>5, <3>6, <3>7 DEF QueueIsEntries
  <2> QED BY <2>1, <2>2
<1> QED BY <1>3, <1>4, <1>5

\* Compaction puts the new function in place of the old one and keeps who waits for it
\* (limiter.py:243-264).
LEMMA ComesStep ==
    ASSUME Limiter!LimiterAssumption, LimiterInv, NEW c \in Limiter!Calls, NEW k, NEW calls, Comes(calls, c, k)
    PROVE  LimiterInv'
<1>1. /\ Limiter!TypeOK /\ QueueIsEntries /\ FuturesAreOwn /\ WorkerHolds /\ Limiter!WaitersAreKnown
      /\ ShutdownAnswers /\ TasksAreInOrder /\ NewestIsQueued
  BY DEF LimiterInv
<1>2. /\ k \in DeliveryKeys /\ Limiter!Running /\ stopping = "no" /\ UNCHANGED <<worker, shown, stopping>>
      /\ entry' = [entry EXCEPT ![k] = Limiter!Compacted(@, c)] /\ queue' = Limiter!Queued(k)
      /\ call' = [calls EXCEPT ![c].at = "waiting"] /\ calls \in [Limiter!Calls -> Limiter!Call]
  BY DEF Comes, Limiter!Running, Limiter!Enqueued
<1>3. /\ queue' \in Seq(DeliveryKeys) /\ entry' \in [DeliveryKeys -> Limiter!Entry] /\ QueueIsEntries'
      /\ entry'[k].func = c /\ entry'[k].futures = entry[k].futures \cup {c}
      /\ \A j \in DeliveryKeys : j # k => entry'[j] = entry[j]
  BY <1>1, <1>2, QueuedIs
<1>4. /\ call' \in [Limiter!Calls -> Limiter!Call] /\ call'[c].at = "waiting" /\ call'[c].key = k
      /\ call'[c].kind = calls[c].kind /\ call'[c].attempts = calls[c].attempts
      /\ \A d \in Limiter!Calls : d # c => call'[d] = call[d]
  <2>1. calls[c] \in Limiter!Call /\ call'[c] = [calls[c] EXCEPT !.at = "waiting"]
    BY <1>2
  <2>2. "waiting" \in Limiter!CallState
    BY DEF Limiter!CallState
  <2>3. call'[c] \in Limiter!Call
    BY <2>1, <2>2, CallIs
  <2> QED BY <1>2, <2>1, <2>3 DEF Comes, Limiter!Call
<1>5. /\ call[c].at \in {"new", "started", "backoff"}
      /\ call[c].at # "new" => calls = call /\ call[c].key = k /\ Limiter!MayRun(c)
      /\ call[c].at = "new" => calls[c].kind = "awaited"
                               /\ \A d \in 1..(c - 1) : call[d].at # "new"
  BY DEF Comes, Limiter!MayRun
<1>6. /\ Limiter!Calls \subseteq Nat /\ call \in [Limiter!Calls -> Limiter!Call] /\ worker \in Limiter!Worker
      /\ \A d \in Limiter!Calls, e \in Limiter!Calls : d < e => d \in 1..(e - 1)
      /\ \A j \in DeliveryKeys : entry[j].futures \subseteq Limiter!Calls
  BY TypesOf DEF Limiter!Calls, Limiter!LimiterAssumption
<1>7. Limiter!TypeOK'
  BY <1>1, <1>2, <1>3, <1>4 DEF Limiter!TypeOK
<1>8. FuturesAreOwn'
  <2>1. \A j \in DeliveryKeys : \A d \in entry[j].futures : d \in Limiter!Calls /\ call'[d].key = j
                                                            /\ call'[d].at # "new"
    BY <1>1, <1>4, <1>5, <1>6 DEF FuturesAreOwn
  <2>2. \A d \in worker.futures : call'[d].key = worker.key /\ call'[d].at # "new"
    <3>1. worker.futures \subseteq Limiter!Calls
      BY TypesOf
    <3> QED BY <1>1, <1>4, <1>5, <3>1 DEF FuturesAreOwn
  <2> QED BY <1>2, <1>3, <1>4, <2>1, <2>2 DEF FuturesAreOwn
<1>9. WorkerHolds' /\ ShutdownAnswers'
  BY <1>1, <1>2 DEF WorkerHolds, ShutdownAnswers
<1>10. Limiter!WaitersAreKnown'
  <2> SUFFICES ASSUME NEW d \in Limiter!Calls, call'[d].at = "waiting"
               PROVE  d \in entry'[call'[d].key].futures \/ d \in worker'.futures
    BY DEF Limiter!WaitersAreKnown
  <2>1. CASE d = c
    BY <1>3, <1>4, <2>1
  <2>2. CASE d # c
    <3>1. call[d].at = "waiting" /\ call'[d] = call[d] /\ call[d].key \in DeliveryKeys
      BY <1>4, <1>6, <2>2 DEF Limiter!Call
    <3>2. entry[call[d].key].futures \subseteq entry'[call[d].key].futures
      BY <1>3, <3>1
    <3> QED BY <1>1, <1>2, <3>1, <3>2 DEF Limiter!WaitersAreKnown
  <2> QED BY <2>1, <2>2
<1>11. TasksAreInOrder'
  <2>1. \A d, e \in Limiter!Calls : d < e /\ call'[d].at = "new" => call'[e].at = "new"
    BY <1>1, <1>4, <1>5, <1>6 DEF TasksAreInOrder
  <2>2. \A d \in Limiter!Calls : /\ call'[d].at = "started" => call'[d].kind = "detached"
                                 /\ call'[d].at \in {"new", "started"} => call'[d].attempts = 0
    BY <1>1, <1>4 DEF TasksAreInOrder
  <2>3. \A d \in Limiter!Calls : call'[d].at = "backoff" => call'[d].attempts >= 1
    BY <1>1, <1>4 DEF TasksAreInOrder
  <2>4. \A d, e \in Limiter!Calls : d < e /\ call'[d].at = "started" /\ call'[e].kind = "detached"
                                    /\ call'[e].at # "new" => call'[e].at = "started"
    <3> SUFFICES ASSUME NEW d \in Limiter!Calls, NEW e \in Limiter!Calls, d < e, call'[d].at = "started",
                        call'[e].kind = "detached", call'[e].at # "new", e = c
                 PROVE  FALSE
      BY <1>1, <1>2, <1>4 DEF TasksAreInOrder
    <3>1. call[d].at = "started" /\ d \in 1..(c - 1) /\ d # c
      BY <1>4, <1>6
    <3>2. call[c].at # "new" /\ call[c].kind = "detached" /\ Limiter!MayRun(c)
      BY <1>4, <1>5
    <3>3. call[c].at = "backoff"
      BY <3>1, <3>2 DEF Limiter!MayRun
    <3> QED BY <1>1, <1>2, <3>1, <3>2, <3>3 DEF TasksAreInOrder
  <2> QED BY <2>1, <2>2, <2>3, <2>4 DEF TasksAreInOrder
<1>12. NewestIsQueued'
  <2> SUFFICES ASSUME NEW j \in DeliveryKeys, entry'[j].func # 0, OnlyDetached(j)',
                      NEW d \in Limiter!Asked(j)', call'[d].at # "started"
               PROVE  d <= entry'[j].func
    BY DEF NewestIsQueued
  <2>1. CASE j # k
    <3>1. Limiter!Asked(j) = Limiter!Asked(j)'
      BY <1>4, <1>5, <2>1 DEF Limiter!Asked
    <3>2. \A e \in Limiter!Asked(j) : call[e] = call'[e] /\ e \in Limiter!Calls
      BY <1>4, <2>1, <3>1 DEF Limiter!Asked
    <3> QED BY <1>1, <1>3, <2>1, <3>1, <3>2 DEF NewestIsQueued, OnlyDetached
  <2>2. CASE j = k
    <3>1. c \in Limiter!Asked(k)' /\ d \in Limiter!Calls /\ d \in Nat /\ c \in Nat
      BY <1>4, <1>6, <2>2 DEF Limiter!Asked
    <3>2. call'[c].kind = "detached" /\ call'[c].attempts = 0 /\ call'[d].kind = "detached"
      BY <2>2, <3>1 DEF OnlyDetached
    <3>3. call[c].at = "started" /\ call[c].kind = "detached"
      <4>1. call[c].at # "new" /\ calls = call
        BY <1>4, <1>5, <3>2
      <4>2. call[c].attempts = 0 /\ call[c].kind = "detached"
        BY <1>4, <3>2, <4>1
      <4>3. call[c].at # "backoff"
        BY <1>1, <4>2 DEF TasksAreInOrder
      <4> QED BY <1>5, <4>1, <4>2, <4>3
    <3>4. ASSUME d > c PROVE FALSE
      <4>1. call'[d] = call[d] /\ call[d].at # "new" /\ call[d].at # "started"
        BY <1>4, <3>1, <3>4 DEF Limiter!Asked
      <4> QED BY <1>1, <1>2, <3>1, <3>2, <3>3, <3>4, <4>1 DEF TasksAreInOrder
    <3> QED BY <1>3, <2>2, <3>1, <3>4
  <2> QED BY <2>1, <2>2
<1> QED BY <1>3, <1>7, <1>8, <1>9, <1>10, <1>11, <1>12 DEF LimiterInv

\* A call that is refused or is a task from now on, or a task that is refused: nothing of
\* the queue changes (limiter.py:266-300, 320-352).
Turns(c, place) ==
    /\ UNCHANGED <<queue, entry, worker, shown, stopping>>
    /\ call' \in [Limiter!Calls -> Limiter!Call] /\ \A d \in Limiter!Calls \ {c} : call'[d] = call[d]
    /\ call'[c].at = place
    /\ \/ /\ call[c].at = "new" /\ \A d \in 1..(c - 1) : call[d].at # "new"
          /\ \/ place = "started" /\ Limiter!Running /\ call'[c].kind = "detached"
                /\ call'[c].attempts = 0
             \/ place = "failed" /\ stopping # "no"
       \/ call[c].at # "new" /\ place = "failed" /\ stopping # "no" /\ call'[c].key = call[c].key
       \/ /\ call[c].at = "waiting" /\ place = "cancelled"
          /\ call[c].kind = "awaited" /\ call' = [call EXCEPT ![c].at = "cancelled"]

LEMMA TurnsStep ==
    ASSUME Limiter!LimiterAssumption, LimiterInv, NEW c \in Limiter!Calls, NEW place, Turns(c, place)
    PROVE  LimiterInv'
<1>1. /\ Limiter!TypeOK /\ QueueIsEntries /\ FuturesAreOwn /\ WorkerHolds /\ Limiter!WaitersAreKnown
      /\ ShutdownAnswers /\ TasksAreInOrder /\ NewestIsQueued
  BY DEF LimiterInv
<1>2. /\ UNCHANGED <<queue, entry, worker, shown, stopping>>
      /\ call' \in [Limiter!Calls -> Limiter!Call] /\ \A d \in Limiter!Calls : d # c => call'[d] = call[d]
      /\ call'[c].at = place /\ call \in [Limiter!Calls -> Limiter!Call] /\ Limiter!Calls \subseteq Nat
      /\ \A d \in Limiter!Calls, e \in Limiter!Calls : d < e => d \in 1..(e - 1)
      /\ place \in {"started", "failed", "cancelled"}
  BY TypesOf DEF Turns, Limiter!Calls, Limiter!LimiterAssumption
<1>3. /\ call[c].at # "new" => call'[c].key = call[c].key
      /\ call[c].at = "new" => \A d \in 1..(c - 1) : call[d].at # "new"
      /\ place = "started" => call[c].at = "new" /\ Limiter!Running /\ call'[c].kind = "detached"
                              /\ call'[c].attempts = 0
      /\ place = "failed" => stopping # "no"
      /\ place = "cancelled" => call[c].at = "waiting" /\ call[c].kind = "awaited"
                                /\ call'[c].kind = "awaited"
  BY <1>2 DEF Turns, Limiter!Call
<1>4. Limiter!TypeOK' /\ QueueIsEntries' /\ WorkerHolds'
  BY <1>1, <1>2 DEF Limiter!TypeOK, QueueIsEntries, WorkerHolds
<1>5. FuturesAreOwn'
  <2>1. /\ \A k \in DeliveryKeys : entry[k].futures \subseteq Limiter!Calls
        /\ worker.futures \subseteq Limiter!Calls
    BY TypesOf
  <2> QED BY <1>1, <1>2, <1>3, <2>1 DEF FuturesAreOwn
<1>6. Limiter!WaitersAreKnown'
  BY <1>1, <1>2 DEF Limiter!WaitersAreKnown
<1>7. ShutdownAnswers'
  BY <1>1, <1>2, <1>3 DEF ShutdownAnswers, Limiter!Ended, Limiter!Running
<1>8. TasksAreInOrder'
  <2>1. \A d, e \in Limiter!Calls : d < e /\ call'[d].at = "new" => call'[e].at = "new"
    BY <1>1, <1>2, <1>3 DEF TasksAreInOrder
  <2>2. \A d \in Limiter!Calls : /\ call'[d].at = "started" => call'[d].kind = "detached"
                                 /\ call'[d].at \in {"new", "started"} => call'[d].attempts = 0
                                 /\ call'[d].at = "backoff" => call'[d].attempts >= 1
    BY <1>1, <1>2, <1>3 DEF TasksAreInOrder
  <2>3. ASSUME stopping = "no", NEW d \in Limiter!Calls, NEW e \in Limiter!Calls, d < e,
               call'[d].at = "started", call'[e].kind = "detached", call'[e].at # "new"
        PROVE  call'[e].at = "started"
    <3>1. CASE d = c
      <4>1. call[d].at = "new" /\ e # c
        BY <1>2, <1>3, <2>3, <3>1
      <4>2. call[e].at = "new" /\ call'[e] = call[e]
        BY <1>1, <1>2, <2>3, <4>1 DEF TasksAreInOrder
      <4> QED BY <2>3, <4>2
    <3>2. CASE d # c /\ e = c
      BY <1>2, <1>3, <2>3, <3>2
    <3>3. CASE d # c /\ e # c
      BY <1>1, <1>2, <2>3, <3>3 DEF TasksAreInOrder
    <3> QED BY <3>1, <3>2, <3>3
  <2> QED BY <1>2, <2>1, <2>2, <2>3 DEF TasksAreInOrder
<1>9. NewestIsQueued'
  <2> SUFFICES ASSUME NEW k \in DeliveryKeys, entry[k].func # 0, OnlyDetached(k)',
                      NEW d \in Limiter!Asked(k)', call'[d].at # "started"
               PROVE  d <= entry[k].func
    BY <1>2 DEF NewestIsQueued
  <2>1. stopping = "no" /\ place # "failed"
    BY <1>1, <1>3 DEF ShutdownAnswers, Limiter!NoEntry
  <2>2. c \in Limiter!Asked(k)' => place = "started"
    BY <1>2, <1>3, <2>1 DEF OnlyDetached, Limiter!Asked
  <2>3. \A e \in Limiter!Asked(k) : e # c => e \in Limiter!Asked(k)' /\ call[e] = call'[e]
    BY <1>2 DEF Limiter!Asked
  <2>4. c \notin Limiter!Asked(k)
    BY <1>2, <1>3, <2>2 DEF Limiter!Asked
  <2>5. OnlyDetached(k)
    BY <2>3, <2>4 DEF OnlyDetached
  <2>6. d # c /\ d \in Limiter!Asked(k) /\ call[d].at # "started"
    BY <1>2, <2>2 DEF Limiter!Asked
  <2> QED BY <1>1, <2>5, <2>6 DEF NewestIsQueued
<1> QED BY <1>4, <1>5, <1>6, <1>7, <1>8, <1>9 DEF LimiterInv

\* enqueue and fire_and_forget, and their tasks: a call comes to the queue, becomes a task
\* or is refused (limiter.py:266-284, 286-340).
LEMMA CallersStep ==
    ASSUME Limiter!LimiterAssumption, LimiterInv, NEW c \in Limiter!Calls,
           \/ \E k \in DeliveryKeys, kind \in CallKinds : Limiter!Ask(c, k, kind)
           \/ Limiter!Enqueue(c) \/ Limiter!Cancel(c)
    PROVE  LimiterInv'
<1>1. /\ call \in [Limiter!Calls -> Limiter!Call] /\ call[c] \in Limiter!Call
      /\ ~Limiter!Running => stopping # "no"
  BY TypesOf DEF LimiterInv, WorkerHolds, Limiter!Running
<1>2. ASSUME NEW k \in DeliveryKeys, NEW kind \in CallKinds, Limiter!Ask(c, k, kind) PROVE LimiterInv'
  <2> DEFINE calls == [call EXCEPT ![c].key = k, ![c].kind = kind]
  <2>1. kind \in {"awaited", "detached"} /\ kind \in CallKinds
    BY DEF Limiter!LimiterAssumption
  <2>2. /\ calls \in [Limiter!Calls -> Limiter!Call] /\ \A d \in Limiter!Calls \ {c} : calls[d] = call[d]
        /\ calls[c] = [call[c] EXCEPT !.key = k, !.kind = kind]
        /\ calls[c].key = k /\ calls[c].kind = kind /\ calls[c].at = call[c].at
        /\ calls[c].attempts = call[c].attempts
    BY <1>1, <2>1 DEF Limiter!Call
  <2>3. /\ call[c].at = "new" /\ \A d \in 1..(c - 1) : call[d].at # "new"
        /\ UNCHANGED <<worker, shown, stopping>>
    BY <1>2 DEF Limiter!Ask
  <2>4. CASE Limiter!Running /\ kind = "awaited" /\ Limiter!Enqueued(calls, c, k)
    BY <2>2, <2>3, <2>4, ComesStep DEF Comes
  <2>5. ASSUME NEW place \in Limiter!CallState, call' = [calls EXCEPT ![c].at = place]
        PROVE  /\ call' \in [Limiter!Calls -> Limiter!Call] /\ call'[c].at = place /\ call'[c].kind = kind
               /\ call'[c].attempts = call[c].attempts
               /\ \A d \in Limiter!Calls \ {c} : call'[d] = call[d]
    <3>1. calls[c] \in Limiter!Call /\ call'[c] = [calls[c] EXCEPT !.at = place]
      BY <2>2, <2>5
    <3>2. call'[c] \in Limiter!Call
      BY <3>1, CallIs
    <3> QED BY <2>2, <2>5, <3>1, <3>2 DEF Limiter!Call
  <2>6. CASE /\ Limiter!Running /\ kind = "detached" /\ call' = [calls EXCEPT ![c].at = "started"]
             /\ UNCHANGED <<queue, entry>>
    <3>1. "started" \in Limiter!CallState
      BY DEF Limiter!CallState
    <3>2. call'[c].attempts = 0
      BY <2>3, <2>5, <2>6, <3>1 DEF LimiterInv, TasksAreInOrder
    <3> QED BY <2>3, <2>5, <2>6, <3>1, <3>2, TurnsStep DEF Turns
  <2>7. CASE /\ ~Limiter!Running /\ call' = [calls EXCEPT ![c].at = "failed"]
             /\ UNCHANGED <<queue, entry>>
    <3>1. "failed" \in Limiter!CallState
      BY DEF Limiter!CallState, Limiter!Ended
    <3> QED BY <1>1, <2>3, <2>5, <2>7, <3>1, TurnsStep DEF Turns
  <2> QED BY <1>2, <2>4, <2>6, <2>7 DEF Limiter!Ask
<1>3. CASE Limiter!Enqueue(c)
  <2>1. CASE Limiter!Running
    BY <1>1, <1>3, <2>1, ComesStep DEF Limiter!Enqueue, Comes, Limiter!Call
  <2>2. CASE ~Limiter!Running
    <3>1. /\ call' = [call EXCEPT ![c].at = "failed"] /\ Limiter!MayRun(c)
          /\ UNCHANGED <<queue, entry, worker, shown, stopping>>
      BY <1>3, <2>2 DEF Limiter!Enqueue
    <3>2. /\ call'[c] = [call[c] EXCEPT !.at = "failed"] /\ "failed" \in Limiter!CallState
          /\ call[c].at # "new"
      BY <1>1, <3>1 DEF Limiter!CallState, Limiter!Ended, Limiter!MayRun
    <3>3. call' \in [Limiter!Calls -> Limiter!Call] /\ call'[c].at = "failed" /\ call'[c].key = call[c].key
      BY <1>1, <3>1, <3>2, CallIs DEF Limiter!Call
    <3> QED BY <1>1, <2>2, <3>1, <3>2, <3>3, TurnsStep DEF Turns
  <2> QED BY <2>1, <2>2
<1>4. CASE Limiter!Cancel(c)
  <2>1. /\ call[c].at = "waiting" /\ call[c].kind = "awaited"
        /\ call' = [call EXCEPT ![c].at = "cancelled"]
        /\ UNCHANGED <<queue, entry, worker, shown, stopping>>
    BY <1>4 DEF Limiter!Cancel
  <2>2. call'[c] = [call[c] EXCEPT !.at = "cancelled"] /\ "cancelled" \in Limiter!CallState
    BY <1>1, <2>1 DEF Limiter!CallState, Limiter!Ended
  <2>3. call' \in [Limiter!Calls -> Limiter!Call] /\ call'[c].at = "cancelled"
    BY <1>1, <2>1, <2>2, CallIs DEF Limiter!Call
  <2> QED BY <2>1, <2>3, <1>1, TurnsStep DEF Turns
<1> QED BY <1>2, <1>3, <1>4

\* The worker takes the oldest key with all who wait for it (limiter.py:66-77).
LEMMA TakeStep == ASSUME Limiter!LimiterAssumption, LimiterInv, Limiter!Take PROVE LimiterInv'
<1> DEFINE k == Head(queue)
<1>1. /\ Limiter!TypeOK /\ QueueIsEntries /\ FuturesAreOwn /\ WorkerHolds /\ Limiter!WaitersAreKnown
      /\ ShutdownAnswers /\ TasksAreInOrder /\ NewestIsQueued
  BY DEF LimiterInv
<1>2. /\ worker.at = "waiting" /\ queue # <<>> /\ stopping = "no" /\ queue' = Tail(queue)
      /\ UNCHANGED <<call, shown, stopping>> /\ entry' = [entry EXCEPT ![k] = Limiter!NoEntry]
      /\ worker' = [at |-> "holding", key |-> k, func |-> entry[k].func,
                    futures |-> entry[k].futures]
  BY DEF Limiter!Take
<1>3. /\ queue \in Seq(DeliveryKeys) /\ Len(queue) \in Nat /\ Len(queue) >= 1 /\ k \in DeliveryKeys
      /\ queue' \in Seq(DeliveryKeys) /\ Len(queue') = Len(queue) - 1 /\ k = queue[1]
      /\ \A i \in 1..Len(queue') : queue'[i] = queue[i + 1]
      /\ \A i \in 1..Len(queue) : queue[i] \in DeliveryKeys
  BY <1>2, TypesOf, EmptySeq, HeadTailProperties
<1>4. /\ Limiter!NoEntry \in Limiter!Entry /\ Limiter!NoEntry.func = 0 /\ Limiter!NoEntry.futures = {}
      /\ entry' \in [DeliveryKeys -> Limiter!Entry] /\ entry'[k] = Limiter!NoEntry
      /\ \A j \in DeliveryKeys : j # k => entry'[j] = entry[j]
      /\ entry[k].func \in 0..MaxCalls /\ entry[k].futures \subseteq Limiter!Calls
  <2>1. Limiter!NoEntry \in Limiter!Entry /\ Limiter!NoEntry.func = 0 /\ Limiter!NoEntry.futures = {}
    BY DEF Limiter!NoEntry, Limiter!Entry, Limiter!LimiterAssumption
  <2> QED BY <1>2, <1>3, <2>1, TypesOf
<1>5. entry[k].func # 0
  BY <1>1, <1>3 DEF QueueIsEntries
<1>6. Limiter!TypeOK'
  BY <1>1, <1>2, <1>3, <1>4 DEF Limiter!TypeOK, Limiter!Worker
<1>7. QueueIsEntries'
  <2>1. \A i \in 1..Len(queue') : i + 1 \in 1..Len(queue) /\ i + 1 # 1 /\ queue'[i] # k
    BY <1>1, <1>3 DEF QueueIsEntries
  <2>2. \A i \in 1..Len(queue') : entry'[queue'[i]].func # 0
    BY <1>1, <1>3, <1>4, <2>1 DEF QueueIsEntries
  <2>3. \A j \in DeliveryKeys : entry'[j].func # 0 => \E i \in 1..Len(queue') : queue'[i] = j
    <3> SUFFICES ASSUME NEW j \in DeliveryKeys, entry'[j].func # 0
                 PROVE  \E i \in 1..Len(queue') : queue'[i] = j
      OBVIOUS
    <3>1. j # k /\ entry[j].func # 0
      BY <1>4
    <3>2. PICK i \in 1..Len(queue) : queue[i] = j
      BY <1>1, <3>1 DEF QueueIsEntries
    <3>3. i # 1 /\ i - 1 \in 1..Len(queue') /\ (i - 1) + 1 = i
      BY <1>3, <3>1, <3>2
    <3> QED BY <1>3, <3>2, <3>3
  <2>4. \A i, j \in 1..Len(queue') : queue'[i] = queue'[j] => i = j
    <3> SUFFICES ASSUME NEW i \in 1..Len(queue'), NEW j \in 1..Len(queue'),
                        queue'[i] = queue'[j]
                 PROVE  i = j
      OBVIOUS
    <3>1. queue[i + 1] = queue[j + 1] /\ i + 1 \in 1..Len(queue) /\ j + 1 \in 1..Len(queue)
      BY <1>3, <2>1
    <3>2. i + 1 = j + 1
      BY <1>1, <3>1 DEF QueueIsEntries
    <3> QED BY <1>3, <3>2
  <2>5. \A j \in DeliveryKeys : /\ entry'[j].func = 0 => entry'[j].futures = {}
                                /\ entry'[j].func # 0 => entry'[j].func \in entry'[j].futures
    BY <1>1, <1>4 DEF QueueIsEntries
  <2> QED BY <2>2, <2>3, <2>4, <2>5 DEF QueueIsEntries
<1>8. FuturesAreOwn' /\ WorkerHolds'
  BY <1>1, <1>2, <1>3, <1>4, <1>5 DEF FuturesAreOwn, WorkerHolds, QueueIsEntries
<1>9. Limiter!WaitersAreKnown'
  <2>1. worker.futures = {}
    BY <1>1, <1>2 DEF WorkerHolds
  <2>2. \A c \in Limiter!Calls : call[c].key \in DeliveryKeys
    BY TypesOf DEF Limiter!Call
  <2> QED BY <1>1, <1>2, <1>4, <2>1, <2>2 DEF Limiter!WaitersAreKnown
<1>10. ShutdownAnswers' /\ TasksAreInOrder'
  BY <1>1, <1>2 DEF ShutdownAnswers, TasksAreInOrder
<1>11. NewestIsQueued'
  <2>1. \A j \in DeliveryKeys : Limiter!Asked(j)' = Limiter!Asked(j) /\ OnlyDetached(j)' = OnlyDetached(j)
    BY <1>2 DEF Limiter!Asked, OnlyDetached
  <2> QED BY <1>1, <1>2, <1>4, <2>1 DEF NewestIsQueued
<1> QED BY <1>6, <1>7, <1>8, <1>9, <1>10, <1>11 DEF LimiterInv

\* The operation begins (limiter.py:90-93).
LEMMA RunStep == ASSUME Limiter!LimiterAssumption, LimiterInv, Limiter!Run PROVE LimiterInv'
<1>1. /\ worker \in Limiter!Worker /\ worker.at = "holding" /\ stopping = "no"
      /\ worker' = [worker EXCEPT !.at = "running"]
      /\ UNCHANGED <<queue, entry, call, shown, stopping>>
  BY TypesOf DEF Limiter!Run
<1>2. /\ worker' \in Limiter!Worker /\ worker'.at = "running" /\ worker'.func = worker.func
      /\ worker'.futures = worker.futures /\ worker'.key = worker.key
  BY <1>1 DEF Limiter!Worker
<1>3. Limiter!TypeOK' /\ QueueIsEntries' /\ FuturesAreOwn' /\ WorkerHolds' /\ Limiter!WaitersAreKnown'
  BY <1>1, <1>2 DEF LimiterInv, Limiter!TypeOK, QueueIsEntries, FuturesAreOwn, WorkerHolds, Limiter!WaitersAreKnown
<1>4. ShutdownAnswers' /\ TasksAreInOrder'
  BY <1>1 DEF LimiterInv, ShutdownAnswers, TasksAreInOrder
<1>5. NewestIsQueued'
  <2>1. \A j \in DeliveryKeys : Limiter!Asked(j)' = Limiter!Asked(j) /\ OnlyDetached(j)' = OnlyDetached(j)
    BY <1>1 DEF Limiter!Asked, OnlyDetached
  <2> QED BY <1>1, <2>1 DEF LimiterInv, NewestIsQueued
<1> QED BY <1>3, <1>4, <1>5 DEF LimiterInv

\* A shutdown empties the queue and answers all futures that it and the worker hold, which
\* are those of all who wait (limiter.py:152-173).
LEMMA ShutdownStep == ASSUME Limiter!LimiterAssumption, LimiterInv, Limiter!Shutdown PROVE LimiterInv'
<1>1. /\ Limiter!TypeOK /\ QueueIsEntries /\ FuturesAreOwn /\ WorkerHolds /\ Limiter!WaitersAreKnown
      /\ ShutdownAnswers /\ TasksAreInOrder /\ NewestIsQueued
  BY DEF LimiterInv
<1>2. /\ stopping \in {"no", "failed"} /\ stopping' = "joining" /\ queue' = <<>>
      /\ entry' = [k \in DeliveryKeys |-> Limiter!NoEntry] /\ UNCHANGED <<worker, shown>>
      /\ call' = Limiter!Resolved(call, Limiter!Queueing \cup worker.futures, "cancelled")
  BY DEF Limiter!Shutdown
<1>3. /\ call \in [Limiter!Calls -> Limiter!Call] /\ entry \in [DeliveryKeys -> Limiter!Entry] /\ worker \in Limiter!Worker
      /\ Limiter!Calls \subseteq Nat
  BY TypesOf
<1>4. ASSUME NEW c \in Limiter!Calls
      PROVE  /\ call'[c] \in Limiter!Call /\ call'[c].key = call[c].key /\ call'[c].kind = call[c].kind
             /\ call'[c].attempts = call[c].attempts /\ call'[c].at # "waiting"
             /\ call'[c].at = call[c].at \/ (call[c].at = "waiting" /\ call'[c].at = "cancelled")
  <2>1. call[c].at = "waiting" => c \in Limiter!Queueing \cup worker.futures
    BY <1>1, <1>3 DEF Limiter!WaitersAreKnown, Limiter!Queueing, Limiter!Call
  <2>2. call'[c] = IF call[c].at = "waiting" THEN [call[c] EXCEPT !.at = "cancelled"]
                   ELSE call[c]
    BY <1>2, <2>1 DEF Limiter!Resolved
  <2> QED BY <1>3, <2>2 DEF Limiter!Call, Limiter!CallState, Limiter!Ended
<1>5. Limiter!TypeOK'
  <2>1. call' \in [Limiter!Calls -> Limiter!Call]
    BY <1>2, <1>4 DEF Limiter!Resolved
  <2>2. queue' \in Seq(DeliveryKeys) /\ Limiter!NoEntry \in Limiter!Entry
    BY <1>2 DEF Limiter!NoEntry, Limiter!Entry, Limiter!LimiterAssumption
  <2> QED BY <1>1, <1>2, <2>1, <2>2 DEF Limiter!TypeOK
<1>6. QueueIsEntries'
  BY <1>2 DEF QueueIsEntries, Limiter!NoEntry
<1>7. FuturesAreOwn'
  <2>1. worker.futures \subseteq Limiter!Calls
    BY TypesOf
  <2> QED BY <1>1, <1>2, <1>4, <2>1 DEF FuturesAreOwn, Limiter!NoEntry
<1>8. WorkerHolds' /\ Limiter!WaitersAreKnown' /\ ShutdownAnswers'
  <2>1. WorkerHolds'
    BY <1>1, <1>2 DEF WorkerHolds
  <2>2. Limiter!WaitersAreKnown'
    BY <1>4 DEF Limiter!WaitersAreKnown
  <2>3. ShutdownAnswers'
    <3>1. stopping' = "joining" /\ queue' = <<>> /\ \A k \in DeliveryKeys : entry'[k] = Limiter!NoEntry
      BY <1>2
    <3> QED BY <1>4, <3>1 DEF ShutdownAnswers
  <2> QED BY <2>1, <2>2, <2>3
<1>9. TasksAreInOrder'
  <2>1. stopping' # "no"
    BY <1>2
  <2>2. \A c \in Limiter!Calls : /\ call'[c].at = "new" <=> call[c].at = "new"
                                 /\ call'[c].at = "started" <=> call[c].at = "started"
                                 /\ call'[c].at = "backoff" => call[c].at = "backoff"
                                 /\ call'[c].kind = call[c].kind
                                 /\ call'[c].attempts = call[c].attempts
    BY <1>4
  <2> QED BY <1>1, <2>1, <2>2 DEF TasksAreInOrder
<1>10. NewestIsQueued'
  BY <1>2 DEF NewestIsQueued, Limiter!NoEntry
<1> QED BY <1>5, <1>6, <1>7, <1>8, <1>9, <1>10 DEF LimiterInv

\* It returns, or gives up on an operation that does not stop; the tasks of the detached
\* calls are cancelled in either case (limiter.py:175-211).
LEMMA ShutdownEndsStep ==
    ASSUME Limiter!LimiterAssumption, LimiterInv, Limiter!ShutdownEnds \/ Limiter!ShutdownTimesOut
    PROVE  LimiterInv'
<1>1. /\ Limiter!TypeOK /\ QueueIsEntries /\ FuturesAreOwn /\ WorkerHolds /\ Limiter!WaitersAreKnown
      /\ ShutdownAnswers /\ TasksAreInOrder /\ NewestIsQueued
  BY DEF LimiterInv
<1>2. /\ stopping = "joining" /\ stopping' \in {"over", "failed"}
      /\ stopping' = "over" => worker.at = "stopped"
      /\ call' = Limiter!DetachedCancelled /\ UNCHANGED <<queue, entry, worker, shown>>
  BY DEF Limiter!ShutdownEnds, Limiter!ShutdownTimesOut
<1>3. call \in [Limiter!Calls -> Limiter!Call] /\ Limiter!Calls \subseteq Nat
  BY TypesOf
<1>4. ASSUME NEW c \in Limiter!Calls
      PROVE  /\ call'[c] \in Limiter!Call /\ call'[c].key = call[c].key /\ call'[c].kind = call[c].kind
             /\ call'[c].attempts = call[c].attempts
             /\ call'[c].at = "new" <=> call[c].at = "new"
             /\ call'[c].at \in Limiter!Ended \cup {"new"}
  <2>1. call[c].at # "waiting"
    BY <1>1, <1>2 DEF ShutdownAnswers
  <2>2. call'[c] = IF call[c].at \in {"started", "backoff"}
                   THEN [call[c] EXCEPT !.at = "cancelled"] ELSE call[c]
    BY <1>2 DEF Limiter!DetachedCancelled
  <2> QED BY <1>3, <2>1, <2>2 DEF Limiter!Call, Limiter!CallState, Limiter!Ended
<1>5. Limiter!TypeOK'
  <2>1. call' \in [Limiter!Calls -> Limiter!Call]
    BY <1>2, <1>4 DEF Limiter!DetachedCancelled
  <2> QED BY <1>1, <1>2, <2>1 DEF Limiter!TypeOK
<1>6. QueueIsEntries' /\ WorkerHolds'
  BY <1>1, <1>2 DEF QueueIsEntries, WorkerHolds
<1>7. FuturesAreOwn'
  <2>1. worker.futures \subseteq Limiter!Calls /\ \A k \in DeliveryKeys : entry[k].futures \subseteq Limiter!Calls
    BY TypesOf
  <2> QED BY <1>1, <1>2, <1>4, <2>1 DEF FuturesAreOwn
<1>8. Limiter!WaitersAreKnown' /\ ShutdownAnswers'
  BY <1>1, <1>2, <1>4 DEF Limiter!WaitersAreKnown, ShutdownAnswers, Limiter!Ended
<1>9. TasksAreInOrder'
  BY <1>1, <1>2, <1>4 DEF TasksAreInOrder, Limiter!Ended
<1>10. NewestIsQueued'
  BY <1>1, <1>2 DEF NewestIsQueued, ShutdownAnswers, Limiter!NoEntry
<1> QED BY <1>5, <1>6, <1>7, <1>8, <1>9, <1>10 DEF LimiterInv

\* Each step of a caller, a task, the worker or the shutdown.
LEMMA LimiterNext == ASSUME Limiter!LimiterAssumption, LimiterInv, [Limiter!Next]_Limiter!vars PROVE LimiterInv'
<1>1. CASE \E c \in Limiter!Calls : \/ \E k \in DeliveryKeys, kind \in CallKinds : Limiter!Ask(c, k, kind)
                                    \/ Limiter!Enqueue(c) \/ Limiter!Cancel(c)
  BY <1>1, CallersStep
<1>2. CASE Limiter!Take \/ Limiter!Run
  BY <1>2, TakeStep, RunStep
<1>3. CASE Limiter!Deliver \/ Limiter!Fail \/ Limiter!Break \/ Limiter!WorkerStops
  BY <1>3, OutcomeStep, SettleStep
<1>4. CASE Limiter!Shutdown \/ Limiter!ShutdownEnds \/ Limiter!ShutdownTimesOut
  BY <1>4, ShutdownStep, ShutdownEndsStep
<1>5. CASE UNCHANGED Limiter!vars
  <2>1. \A j \in DeliveryKeys : Limiter!Asked(j)' = Limiter!Asked(j) /\ OnlyDetached(j)' = OnlyDetached(j)
    BY <1>5 DEF Limiter!vars, Limiter!Asked, OnlyDetached
  <2>2. Limiter!TypeOK' /\ QueueIsEntries' /\ FuturesAreOwn' /\ WorkerHolds' /\ Limiter!WaitersAreKnown'
    BY <1>5 DEF Limiter!vars, LimiterInv, Limiter!TypeOK, QueueIsEntries, FuturesAreOwn, WorkerHolds, Limiter!WaitersAreKnown
  <2>3. ShutdownAnswers' /\ TasksAreInOrder'
    BY <1>5 DEF Limiter!vars, LimiterInv, ShutdownAnswers, TasksAreInOrder
  <2>4. NewestIsQueued'
    BY <1>5, <2>1 DEF Limiter!vars, LimiterInv, NewestIsQueued
  <2> QED BY <2>2, <2>3, <2>4 DEF LimiterInv
<1> QED BY <1>1, <1>2, <1>3, <1>4, <1>5 DEF Limiter!Next

\* The invariant behind the results below, for any number of messages and calls.
THEOREM LimiterSound == ASSUME Limiter!LimiterAssumption PROVE Limiter!Spec => []LimiterInv
BY LimiterInit, LimiterNext, PTL DEF Limiter!Spec

\* What the invariant says of the callers.
LEMMA CallersAreKnown == ASSUME LimiterInv PROVE Limiter!TypeOK /\ Limiter!WaitersAreKnown /\ Limiter!ShutdownIsComplete
BY DEF LimiterInv, ShutdownAnswers, Limiter!ShutdownIsComplete

\* limiter.py _enqueue_internal_multi, _worker, shutdown: whoever waits for a delivery is known
\* to the entry of its key or to the worker, through every compaction, failure and retry.
THEOREM NobodyIsForgotten == ASSUME Limiter!LimiterAssumption PROVE Limiter!Spec => [](Limiter!TypeOK /\ Limiter!WaitersAreKnown)
<1>1. LimiterInv => Limiter!TypeOK /\ Limiter!WaitersAreKnown
  BY CallersAreKnown
<1> QED BY <1>1, LimiterSound, PTL

\* limiter.py shutdown: when it has returned nothing can deliver and nobody waits any more,
\* also when an earlier shutdown timed out.
THEOREM ShutdownIsFinal == ASSUME Limiter!LimiterAssumption PROVE Limiter!Spec => []Limiter!ShutdownIsComplete
<1>1. LimiterInv => Limiter!ShutdownIsComplete
  BY CallersAreKnown
<1> QED BY <1>1, LimiterSound, PTL

\* What the worker takes is the entry of the key at the head of the queue.
LEMMA TakesNewest ==
    ASSUME Limiter!LimiterAssumption, LimiterInv, [Limiter!Next]_Limiter!vars, worker.at = "waiting", worker'.at = "holding",
           \A c \in Limiter!Asked(worker'.key) : call[c].kind = "detached" /\ call[c].attempts = 0,
           NEW c \in Limiter!Asked(worker'.key), call[c].at # "started"
    PROVE  c <= worker'.func
<1>1. Limiter!Take
  BY TypesOf DEF Limiter!Next, Limiter!vars, Limiter!Ask, Limiter!Enqueue, Limiter!Cancel, Limiter!Run, Limiter!Deliver, Limiter!Fail, Limiter!Break, Limiter!Idle, Limiter!Shutdown,
     Limiter!WorkerStops, Limiter!ShutdownEnds, Limiter!ShutdownTimesOut, Limiter!Worker
<1>2. /\ worker'.key = Head(queue) /\ worker'.func = entry[Head(queue)].func
      /\ queue # <<>>
  BY <1>1 DEF Limiter!Take
<1>3. Head(queue) \in DeliveryKeys /\ Head(queue) = queue[1] /\ 1 \in 1..Len(queue)
  BY <1>2, TypesOf, EmptySeq, HeadTailProperties
<1>4. entry[Head(queue)].func # 0
  BY <1>3 DEF LimiterInv, QueueIsEntries
<1> QED BY <1>2, <1>3, <1>4 DEF LimiterInv, NewestIsQueued, OnlyDetached

\* limiter.py "to ensure only the latest version of a message update is processed": of the
\* versions that only detached calls ask for, the worker takes the newest, while no connection
\* has broken.
THEOREM LatestIsTaken == ASSUME Limiter!LimiterAssumption PROVE Limiter!Spec => Limiter!LatestIsProcessed
<1>1. LimiterInv /\ [Limiter!Next]_Limiter!vars =>
        [worker.at = "waiting" /\ worker'.at = "holding" =>
          LET rivals == Limiter!Asked(worker'.key)
          IN  (\A c \in rivals : call[c].kind = "detached" /\ call[c].attempts = 0)
              => \A c \in rivals : call[c].at # "started" => c <= worker'.func]_Limiter!vars
  BY TakesNewest
<1> QED BY <1>1, LimiterSound, PTL DEF Limiter!Spec, Limiter!LatestIsProcessed

-----------------------------------------------------------------------------
(* The parts together. *)

\* What each part's proof says of it while it is the part that runs.
BridgeInv ==
    /\ StoreInv
    /\ part = "limiter" => LimiterInv
    /\ part = "crashing" => Crashing!IInv
    /\ part = "noticing" => Noticing!IInv
    /\ part = "sessions" => Sessions!IInv
    /\ part = "notes" => NotesInv
    /\ part = "progress" => ProgressInv
    /\ part = "platform" => PlatformInv

LEMMA BridgeInit == ASSUME InitBridge PROVE BridgeInv
<1>1. StoreInv
  BY StoreInit DEF InitBridge
<1>2. LimiterInv
  BY LimiterInit, PartsAssumption DEF InitBridge, PartsAssumption
<1>3. part # "noticing" => Crashing!IInv
  BY Crashing!InitKeeps, PartsAssumption DEF InitBridge, PartsAssumption
<1>4. part = "noticing" => Noticing!IInv
  BY Noticing!InitKeeps, PartsAssumption DEF InitBridge, PartsAssumption
<1>5. Sessions!IInv
  BY Sessions!InitOwns, PartsAssumption DEF InitBridge, PartsAssumption
<1>6. NotesInv
  BY NotesInit, PartsAssumption DEF InitBridge, PartsAssumption
<1>7. PlatformInv
  BY PlatformInit DEF InitBridge
<1>8. ProgressInv
  BY TranscriptInit DEF InitBridge
<1> QED BY <1>1, <1>2, <1>3, <1>4, <1>5, <1>6, <1>7, <1>8 DEF BridgeInv

\* A step is one of the part that runs, and leaves the other parts alone.
LEMMA OnePartSteps ==
    ASSUME [NextBridge]_bridgeVars
    PROVE  /\ part' = part
           /\ [Next]_vars
           /\ [Limiter!Next]_Limiter!vars
           /\ part = "crashing" => [Crashing!Next]_Crashing!vars
           /\ part = "noticing" => [Noticing!Next]_Noticing!vars
           /\ part = "sessions" => [Sessions!Next]_Sessions!vars
           /\ part = "notes" => [Notes!Next]_Notes!vars
           /\ part = "progress" => [Progress!Next]_Progress!vars
           /\ part = "platform" => [Platform!Next]_Platform!vars
<1>1. CASE NextBridge
  BY <1>1 DEF NextBridge, limiterVars, Limiter!vars
<1>2. CASE UNCHANGED bridgeVars
  <2>1. part' = part /\ UNCHANGED vars
    BY <1>2 DEF bridgeVars
  <2>2. UNCHANGED Limiter!vars
    BY <1>2 DEF bridgeVars, limiterVars, Limiter!vars
  <2>3. UNCHANGED Crashing!vars /\ UNCHANGED Noticing!vars
    BY <1>2 DEF bridgeVars, workflowVars, Crashing!vars, Noticing!vars
  <2>4. UNCHANGED Sessions!vars
    BY <1>2 DEF bridgeVars, runnerVars, Sessions!vars
  <2>5. UNCHANGED Notes!vars
    BY <1>2 DEF bridgeVars, voiceVars, Notes!vars
  <2>6. UNCHANGED Platform!vars
    BY <1>2 DEF bridgeVars, platformVars, Platform!vars
  <2>7. UNCHANGED Progress!vars
    BY <1>2 DEF bridgeVars, transcriptVars, Progress!vars
  <2> QED BY <2>1, <2>2, <2>3, <2>4, <2>5, <2>6, <2>7
<1> QED BY <1>1, <1>2

LEMMA BridgeNext == ASSUME BridgeInv, [NextBridge]_bridgeVars PROVE BridgeInv'
<1>1. part' = part
  BY OnePartSteps
<1>2. StoreInv'
  BY OnePartSteps, StoreNext DEF BridgeInv
<1>3. part = "limiter" => LimiterInv'
  BY OnePartSteps, LimiterNext, PartsAssumption DEF BridgeInv, PartsAssumption
<1>4. part = "crashing" => Crashing!IInv'
  BY OnePartSteps, Crashing!NextKeeps, PartsAssumption DEF BridgeInv, PartsAssumption
<1>5. part = "noticing" => Noticing!IInv'
  BY OnePartSteps, Noticing!NextKeeps, PartsAssumption DEF BridgeInv, PartsAssumption
<1>6. part = "sessions" => Sessions!IInv'
  BY OnePartSteps, Sessions!NextOwns, PartsAssumption DEF BridgeInv, PartsAssumption
<1>7. part = "notes" => NotesInv'
  BY OnePartSteps, NotesNext, PartsAssumption DEF BridgeInv, PartsAssumption
<1>8. part = "platform" => PlatformInv'
  BY OnePartSteps, PlatformNext DEF BridgeInv
<1>9. part = "progress" => ProgressInv'
  BY OnePartSteps, TranscriptNext, PartsAssumption DEF BridgeInv, PartsAssumption
<1> QED BY <1>1, <1>2, <1>3, <1>4, <1>5, <1>6, <1>7, <1>8, <1>9 DEF BridgeInv

\* The invariant behind the results below.
THEOREM BridgeIsSound == SpecBridge => []BridgeInv
BY BridgeInit, BridgeNext, PTL DEF SpecBridge

\* A prompt that was stopped, or on its way when everything was, never waits or runs again,
\* with crashes or with a start-up notice (workflow.py _stop_all_tasks, _stop_reply,
\* _admit_if_current).
THEOREM BridgeStopIsFinal == SpecBridge => []NothingOutlivesStop
<1>1. BridgeInv => NothingOutlivesStop
  BY Crashing!StoppedIsQuiet, Noticing!StoppedIsQuiet DEF BridgeInv, NothingOutlivesStop
<1> QED BY <1>1, BridgeIsSound, PTL

\* What was cleared comes back in no tree, no snapshot and no file (workflow.py _clear_chat,
\* _clear_reply, store.py clear_scope).
THEOREM BridgeClearIsFinal == SpecBridge => []ClearedStaysCleared
<1>1. BridgeInv => ClearedStaysCleared
  BY Crashing!ClearedIsGone, Noticing!ClearedIsGone, PartsAssumption
     DEF BridgeInv, ClearedStaysCleared, PartsAssumption
<1> QED BY <1>1, BridgeIsSound, PTL

\* A turn that can run has a live task in its tree, after a restart as well, and one that has
\* finished is stored as finished (store.py _load, node_runner.py).
THEOREM BridgeRestartsAreHonest == SpecBridge => []RestartsAreHonest
<1>1. BridgeInv => RestartsAreHonest
  BY Crashing!LockIsHeld, Noticing!LockIsHeld, Crashing!RestartsAreTrue, Noticing!RestartsAreTrue
     DEF BridgeInv, RestartsAreHonest
<1> QED BY <1>1, BridgeIsSound, PTL

\* A message the bot manages can be found by a later /clear (managed_message_log.py).
THEOREM BridgeMessagesAreFound == SpecBridge => []NoOrphans
<1>1. BridgeInv => NoOrphans
  BY Crashing!MessagesAreListed, Noticing!MessagesAreListed DEF BridgeInv, NoOrphans
<1> QED BY <1>1, BridgeIsSound, PTL

\* A process that may be alive can be found, ids agree on whose session is whose, and replies
\* that wait fail only with their turn (cli/managed/manager.py, node_runner.py).
THEOREM BridgeSessionsAreOwned == SpecBridge => []SessionsAreOwned
<1>1. BridgeInv => SessionsAreOwned
  BY Sessions!ProcessesAreKnown, Sessions!IdsAgree, Sessions!FailuresAreFinal, PartsAssumption
     DEF BridgeInv, SessionsAreOwned, PartsAssumption
<1> QED BY <1>1, BridgeIsSound, PTL

\* For any deliveries of voice notes and any commands, spoken or typed: the ids of a note lead
\* to it together, its file, its status message and the pipeline have one owner to the end, a
\* note that was cancelled never reaches the workflow, and no commands wait for each other
\* (voice.py, voice_flow.py, transcription.py).
THEOREM BridgeNotesAreOwned == SpecBridge => []NotesAreOwned
<1>1. BridgeInv => NotesAreOwned
  BY NotesPromises, PartsAssumption DEF BridgeInv, NotesAreOwned, PartsAssumption
<1> QED BY <1>1, BridgeIsSound, PTL

\* For any ids of which no two match the same third: a turn's narration is hidden only while a
\* Task runs, in whatever order and under whatever ids the results come, and its message fits
\* the limit and shows the newest segment there is room for (subagents.py
\* close_for_tool_result, renderer.py render_segments).
THEOREM BridgeProgressIsShown == SpecBridge => []ProgressIsShown
<1>1. BridgeInv => ProgressIsShown
  BY StackMeansTask, MessageFits, PartsAssumption DEF BridgeInv, ProgressIsShown, PartsAssumption
<1> QED BY <1>1, BridgeIsSound, PTL

\* No handler runs once delivery is closed, and a runtime that is closed has left nothing
\* behind, whichever steps of the shutdown failed and were retried (discord.py, telegram.py,
\* outbox.py, runtime/application.py _cleanup_messaging).
THEOREM BridgeShutdownIsOrderly == SpecBridge => []ShutdownIsOrderly
<1>1. BridgeInv => ShutdownIsOrderly
  BY PlatformSound DEF BridgeInv, ShutdownIsOrderly
<1> QED BY <1>1, BridgeIsSound, PTL

\* Whoever waits for a delivery is known to the queue or the worker, nobody is left behind by
\* the shutdown, and the worker takes the newest version of a message (limiter.py).
THEOREM BridgeDeliveriesAreKept == SpecBridge => DeliveriesAreKept
<1>1. BridgeInv => (part = "limiter" => /\ Limiter!TypeOK /\ Limiter!WaitersAreKnown
                                        /\ Limiter!ShutdownIsComplete)
  BY CallersAreKnown DEF BridgeInv
<1>2. BridgeInv /\ [NextBridge]_bridgeVars =>
        [worker.at = "waiting" /\ worker'.at = "holding" =>
          LET rivals == Limiter!Asked(worker'.key)
          IN  (\A c \in rivals : call[c].kind = "detached" /\ call[c].attempts = 0)
              => \A c \in rivals : call[c].at # "started" => c <= worker'.func]_Limiter!vars
  <2> SUFFICES ASSUME BridgeInv, [NextBridge]_bridgeVars, ~UNCHANGED Limiter!vars,
                      worker.at = "waiting", worker'.at = "holding",
                      \A c \in Limiter!Asked(worker'.key) :
                          call[c].kind = "detached" /\ call[c].attempts = 0,
                      NEW c \in Limiter!Asked(worker'.key), call[c].at # "started"
               PROVE  c <= worker'.func
    OBVIOUS
  <2>1. part = "limiter"
    BY DEF NextBridge, bridgeVars, limiterVars, Limiter!vars
  <2> QED BY <2>1, OnePartSteps, TakesNewest, PartsAssumption DEF BridgeInv, PartsAssumption
<1> QED BY <1>1, <1>2, BridgeIsSound, PTL DEF SpecBridge, DeliveriesAreKept, Limiter!LatestIsProcessed

\* The store keeps its promises whatever the other parts do (persistence.py).
THEOREM BridgeStoreKeepsPromises == SpecBridge => StoreKeepsPromises
<1>1. StoreInv => TypeOK /\ PromisesKept
  BY DEF StoreInv
<1>2. StoreInv /\ [Next]_vars => [file' >= file]_vars
  BY StoreNext
<1>3. [NextBridge]_bridgeVars => [Next]_vars
  BY OnePartSteps
<1>4. BridgeInv => StoreInv
  BY DEF BridgeInv
<1> QED BY <1>1, <1>2, <1>3, <1>4, BridgeIsSound, PTL
        DEF SpecBridge, StoreKeepsPromises, NoOlderSnapshotLands
=============================================================================
