------------------------- MODULE SessionPersistence -------------------------
(***************************************************************************)
(* How messaging/session/store.py and persistence.py save the messaging    *)
(* state: the event loop changes it and saves with a delay, flushes it or  *)
(* clears a chat; a timer thread of its own writes each delayed save.      *)
(*                                                                         *)
(* Threads interleave between critical sections.  _timer_lock is never     *)
(* held while another lock is waited for, so a section under it is one     *)
(* action; the store's lock is held across actions only by the event loop, *)
(* _writer_lock by whoever writes.  A state is the number of changes made. *)
(***************************************************************************)
EXTENDS Integers

CONSTANTS
    MaxGeneration,  \* bound on saves and clears
    MaxFailures     \* bound on failed writes

ASSUME PersistenceAssumption == MaxGeneration \in Nat \ {0} /\ MaxFailures \in Nat

Loop == 0
Timers == 1..MaxGeneration     \* the timer thread of each generation
Threads == {Loop} \cup Timers
Nobody == 0 - 1

VARIABLES
    memory,      \* the state in memory
    file,        \* the state in the file; a restart loads it
    dirty,       \* SessionStore._dirty
    generation,  \* _save_generation
    timer,       \* the generation of _save_timer, 0 if there is none
    held,        \* whether the event loop holds the store's lock across steps
    writer,      \* the holder of _writer_lock; Nobody if it is free
    at,          \* where each thread is
    pending,     \* the _PendingWrite of each thread
    promised,    \* history: the state the last flush or clear returned for
    failures

vars == <<memory, file, dirty, generation, timer, held, writer, at, pending, promised,
          failures>>

(* "armed": sleeping, cancel() still helps.  "fired": about to claim the generation.
   "saving", "superseding": the loop has changed the state, has not counted it yet. *)
Place == {"idle", "saving", "superseding", "unborn", "armed", "fired", "claimed",
          "snapped", "locked", "checked", "written", "cleaning", "failed", "ended"}

NoWrite == [generation |-> 0, snapshot |-> 0]

Init ==
    /\ memory = 0 /\ file = 0 /\ dirty = FALSE
    /\ generation = 0 /\ timer = 0 /\ held = FALSE /\ writer = Nobody
    /\ at = [t \in Threads |-> IF t = Loop THEN "idle" ELSE "unborn"]
    /\ pending = [t \in Threads |-> NoWrite]
    /\ promised = 0 /\ failures = 0

StoreFree(t) == t = Loop \/ ~held

Goto(t, place) == at' = [at EXCEPT ![t] = place]

\* The threads when _save_timer is cancelled; one that has fired is not stopped by it.
Cancelled == IF timer # 0 /\ at[timer] = "armed" THEN [at EXCEPT ![timer] = "ended"] ELSE at

\* Where a thread goes that has finished its save.
Home(t) == IF t = Loop THEN "idle" ELSE "ended"

-----------------------------------------------------------------------------
(* The event loop *)

\* A change of the state, and schedule_save up to _timer_lock, under the store's lock.
Save ==
    /\ at[Loop] = "idle" /\ generation < MaxGeneration
    /\ memory' = memory + 1 /\ dirty' = TRUE /\ held' = TRUE
    /\ Goto(Loop, "saving")
    /\ UNCHANGED <<file, generation, timer, writer, pending, promised, failures>>

Schedule ==
    /\ at[Loop] = "saving"
    /\ generation' = generation + 1 /\ timer' = generation + 1
    /\ at' = [Cancelled EXCEPT ![Loop] = "idle", ![generation + 1] = "armed"]
    /\ held' = FALSE
    /\ UNCHANGED <<memory, file, dirty, writer, pending, promised, failures>>

Flush ==
    /\ at[Loop] = "idle" /\ dirty' = TRUE /\ Goto(Loop, "fired")
    /\ UNCHANGED <<memory, file, generation, timer, held, writer, pending, promised,
                   failures>>

\* clear_scope: the write is authoritative, and made under the store's lock.
Clear ==
    /\ at[Loop] = "idle" /\ generation < MaxGeneration
    /\ memory' = memory + 1 /\ dirty' = TRUE /\ held' = TRUE
    /\ pending' = [pending EXCEPT ![Loop].snapshot = memory + 1]
    /\ Goto(Loop, "superseding")
    /\ UNCHANGED <<file, generation, timer, writer, promised, failures>>

\* Deviation, for the mutation runs: older snapshots stay valid.
Supersede_NotCounted ==
    /\ at[Loop] = "superseding"
    /\ timer' = 0
    /\ pending' = [pending EXCEPT ![Loop].generation = generation]
    /\ at' = [Cancelled EXCEPT ![Loop] = "snapped"]
    /\ UNCHANGED <<memory, file, dirty, generation, held, writer, promised, failures>>

\* Deviation, for the mutation runs: the timer of the superseded save stays.
Supersede_TimerStays ==
    /\ at[Loop] = "superseding"
    /\ generation' = generation + 1
    /\ pending' = [pending EXCEPT ![Loop].generation = generation + 1]
    /\ Goto(Loop, "snapped")
    /\ UNCHANGED <<memory, file, dirty, timer, held, writer, promised, failures>>

Supersede ==
    /\ at[Loop] = "superseding"
    /\ generation' = generation + 1 /\ timer' = 0
    /\ pending' = [pending EXCEPT ![Loop].generation = generation + 1]
    /\ at' = [Cancelled EXCEPT ![Loop] = "snapped"]
    /\ UNCHANGED <<memory, file, dirty, held, writer, promised, failures>>

-----------------------------------------------------------------------------
(* The timer threads, and what they share with flush and clear *)

Fire(t) ==
    /\ at[t] = "armed" /\ Goto(t, "fired")
    /\ UNCHANGED <<memory, file, dirty, generation, timer, held, writer, pending, promised,
                   failures>>

\* A timer claims only its own generation, and only while it is armed.
MayClaim(t) == t = Loop \/ (t = generation /\ timer # 0)

\* Deviation, for the mutation runs: an outdated timer disarms the one after it.
Claim_Disarms(t) ==
    /\ at[t] = "fired" /\ timer' = 0
    /\ IF MayClaim(t)
       THEN /\ pending' = [pending EXCEPT ![t].generation = generation]
            /\ at' = [Cancelled EXCEPT ![t] = "claimed"]
       ELSE at' = [Cancelled EXCEPT ![t] = "ended"] /\ UNCHANGED pending
    /\ UNCHANGED <<memory, file, dirty, generation, held, writer, promised, failures>>

Claim(t) ==
    /\ at[t] = "fired"
    /\ IF MayClaim(t)
       THEN /\ timer' = 0
            /\ pending' = [pending EXCEPT ![t].generation = generation]
            /\ at' = [Cancelled EXCEPT ![t] = "claimed"]
       ELSE Goto(t, "ended") /\ UNCHANGED <<timer, pending>>
    /\ UNCHANGED <<memory, file, dirty, generation, held, writer, promised, failures>>

Snapshot(t) ==
    /\ at[t] = "claimed" /\ StoreFree(t)
    /\ pending' = [pending EXCEPT ![t].snapshot = memory]
    /\ Goto(t, "snapped")
    /\ UNCHANGED <<memory, file, dirty, generation, timer, held, writer, promised, failures>>

LockWriter(t) ==
    /\ at[t] = "snapped" /\ writer = Nobody
    /\ writer' = t /\ Goto(t, "locked")
    /\ UNCHANGED <<memory, file, dirty, generation, timer, held, pending, promised, failures>>

\* The loop returns from flush or clear.
Returned(t) ==
    /\ held' = (held /\ t # Loop)
    /\ promised' = IF t = Loop THEN pending[Loop].snapshot ELSE promised

\* Deviation, for the mutation runs: the generation is not looked at.
IsCurrent_Always(t) == t \in Threads
IsCurrent(t) == pending[t].generation = generation

\* The superseded snapshot is dropped, or the writer goes on with its lock.
CheckCurrent(t) ==
    /\ at[t] = "locked"
    /\ IF IsCurrent(t)
       THEN Goto(t, "checked") /\ UNCHANGED <<writer, held, promised>>
       ELSE Goto(t, Home(t)) /\ writer' = Nobody /\ Returned(t)
    /\ UNCHANGED <<memory, file, dirty, generation, timer, pending, failures>>

WriteFile(t) ==
    /\ at[t] = "checked"
    /\ file' = pending[t].snapshot
    /\ writer' = Nobody /\ Goto(t, "written")
    /\ UNCHANGED <<memory, dirty, generation, timer, held, pending, promised, failures>>

\* Deviation, for the mutation runs: the writer's lock is kept until the store is dirty.
WriteFails_Locked(t) ==
    /\ at[t] = "checked" /\ failures < MaxFailures
    /\ failures' = failures + 1
    /\ Goto(t, "failed")
    /\ UNCHANGED <<memory, file, dirty, generation, timer, held, writer, pending, promised>>

WriteFails(t) ==
    /\ at[t] = "checked" /\ failures < MaxFailures
    /\ failures' = failures + 1
    /\ writer' = Nobody /\ Goto(t, "failed")
    /\ UNCHANGED <<memory, file, dirty, generation, timer, held, pending, promised>>

\* The failure leaves the store dirty; flush and clear raise.
LeaveDirty(t) ==
    /\ at[t] = "failed" /\ StoreFree(t)
    /\ dirty' = TRUE /\ Goto(t, Home(t)) /\ held' = (held /\ t # Loop)
    /\ writer' = IF writer = t THEN Nobody ELSE writer
    /\ UNCHANGED <<memory, file, generation, timer, pending, promised, failures>>

\* _mark_clean_if_current decides under _timer_lock ...
DecideClean(t) ==
    /\ at[t] = "written"
    /\ IF timer = 0 /\ IsCurrent(t)
       THEN Goto(t, "cleaning") /\ UNCHANGED <<held, promised>>
       ELSE Goto(t, Home(t)) /\ Returned(t)
    /\ UNCHANGED <<memory, file, dirty, generation, timer, writer, pending, failures>>

\* ... and calls on_dirty(False) after it.
MarkClean(t) ==
    /\ at[t] = "cleaning" /\ StoreFree(t)
    /\ dirty' = FALSE /\ Goto(t, Home(t)) /\ Returned(t)
    /\ UNCHANGED <<memory, file, generation, timer, writer, pending, failures>>

Write(t) == Claim(t) \/ Snapshot(t) \/ LockWriter(t) \/ CheckCurrent(t) \/ WriteFile(t)
            \/ WriteFails(t) \/ LeaveDirty(t) \/ DecideClean(t) \/ MarkClean(t)

Next ==
    \/ Save \/ Schedule \/ Flush \/ Clear \/ Supersede
    \/ \E t \in Timers : Fire(t)
    \/ \E t \in Threads : Write(t)

Spec == Init /\ [][Next]_vars

(* Threads that can run do, and timers fire.  Nobody has to save, flush or clear. *)
FairSpec ==
    /\ Spec
    /\ WF_vars(Schedule) /\ WF_vars(Supersede)
    /\ \A t \in Timers : WF_vars(Fire(t))
    /\ \A t \in Threads : WF_vars(Write(t))

-----------------------------------------------------------------------------
(* Properties *)

\* Types of every variable; only a timer that has not claimed is the armed one.
TypeOK ==
    /\ memory \in 0..MaxGeneration /\ file \in 0..MaxGeneration
    /\ dirty \in BOOLEAN /\ held \in BOOLEAN
    /\ generation \in 0..MaxGeneration /\ timer \in 0..MaxGeneration
    /\ timer # 0 => timer = generation /\ at[timer] \in {"armed", "fired"}
    /\ writer \in Threads \cup {Nobody}
    /\ at \in [Threads -> Place]
    /\ pending \in [Threads -> [generation : 0..MaxGeneration, snapshot : 0..MaxGeneration]]
    /\ promised \in 0..MaxGeneration /\ failures \in 0..MaxFailures

\* "One writer lock serializes physical replaces, and a generation check under that
\* lock prevents an older timer snapshot from landing after a newer flush or clear."
NoOlderSnapshotLands == [][file' >= file]_vars

\* A flush or a clear that returned is on disk: a restart does not bring back what was
\* cleared, nor lose what was flushed.
PromisesKept == file >= promised

\* The two together, and the types of the variables.
StoreKeepsPromises == [](TypeOK /\ PromisesKept) /\ NoOlderSnapshotLands

\* The event loop gets through every save, flush and clear, although it waits for the
\* writer's lock with the store's lock in its hands.
LoopReturns == at[Loop] # "idle" ~> at[Loop] = "idle"

\* Unless writes fail every change reaches the disk, also one that was made while an
\* older snapshot was on its way and dropped it.
ChangesAreSaved == \A n \in 1..MaxGeneration : memory = n ~> file >= n \/ failures > 0
=============================================================================
