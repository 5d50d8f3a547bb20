---------------------- MODULE ProviderAdmission_proofs ----------------------
(***************************************************************************)
(* Who holds what at a provider's gate, as theorems about every behaviour. *)
(* The invariant is a statement about one execution and the episode at a   *)
(* time (Sound, Placed): a step of an execution moves itself and at most   *)
(* wakes the others, so that their part of the invariant only asks what    *)
(* the step did to the episode.  Slots are counted beside it.              *)
(***************************************************************************)
EXTENDS ProviderAdmission, FiniteSetTheorems, TLAPS

\* A closed episode is none, an open one has a number of its own, a probe has a
\* leader, and an exhausted one has nobody left.
SoundEpisode(ep, g) ==
    /\ ~ep.open => ep = NoEpisode
    /\ ep.open => ep.gen >= 1 /\ ep.gen <= g
    /\ ep.probe => ep.leader # None
    /\ ep.terminal # "unset" => ep.leader = None /\ ep.waiters = {}

\* What an execution is on its own: it comes to the gate with attempts left and with a new
\* one to resolve; what was cut short or has been told of the exhaustion only ends.
Sound(x, g) ==
    /\ x.permit <= g
    /\ x.accepted => x.resolved
    /\ x.abandoning => \/ x.phase \in {"releasing", "done"}
                       \/ x.phase = "closing" /\ x.resolved /\ ~x.again
    /\ x.lost => /\ ~x.outer
                 /\ \/ x.phase = "done"
                    \/ x.phase = "closing" /\ x.resolved /\ ~x.again
    /\ x.failed => \/ x.phase \in {"waiting", "woken", "done"}
                   \/ x.phase = "closing" /\ x.resolved
    /\ x.phase \in {"sleeping", "rate", "slot", "open"} => ~x.resolved
    /\ x.phase = "closing" /\ x.again => x.resolved
    /\ \/ x.phase \in {"new", "waiting", "woken", "sleeping", "rate", "slot"}
       \/ x.phase = "closing" /\ x.again
       => x.attempts < MaxAttempts

\* The leader will resolve its probe, or is on its way to it.
Leads(ep, x) ==
    /\ ~x.failed
    /\ ep.probe =>
         /\ x.permit = ep.gen
         /\ \/ x.phase \in {"rate", "slot"}
            \/ HoldsSlot(x) /\ ~x.resolved /\ (x.phase = "releasing" => x.abandoning)
            \/ x.abandoning
            \/ x.lost
    /\ ~ep.probe =>
         \/ x.phase = "sleeping" /\ x.permit = ep.gen
         \/ x.phase = "closing" /\ x.again
         \/ x.lost

\* A registered waiter waits, was woken, is on its way to the gate, or is lost.
Waits(ep, x) ==
    /\ ~x.failed
    /\ \/ x.phase \in {"waiting", "woken"} /\ x.permit = ep.gen
       \/ x.phase = "closing" /\ x.again
       \/ x.lost

\* Where the execution s stands in the episode.
Placed(ep, x, s) ==
    /\ ep.open /\ ep.leader = s => s \notin ep.waiters /\ Leads(ep, x)
    /\ s \in ep.waiters => Waits(ep, x)
    /\ x.phase = "waiting" =>
         /\ ep.open /\ ep.terminal = "unset" /\ ep.gen = x.permit
         /\ ep.leader \notin {None, s} /\ s \in ep.waiters
    /\ x.phase = "woken" /\ ep.open /\ ep.terminal = "unset" /\ ep.gen = x.permit =>
         s \in ep.waiters

Counted ==
    /\ IsFiniteSet(Attempting) /\ IsFiniteSet(Continuing) /\ IsFiniteSet(Lost)
    /\ SlotsAreAccounted

IInv == /\ TypeOK /\ Counted
        /\ SoundEpisode(episode, generation)
        /\ \A s \in Sessions : Sound(exec[s], generation) /\ Placed(episode, exec[s], s)

-----------------------------------------------------------------------------
(* Slots *)

Bit(b) == IF b THEN 1 ELSE 0

\* The slots an execution takes from the bulkhead: of its attempt, of the one it continues,
\* and the one it has lost.
Weight(x) == Bit(HoldsSlot(x)) + Bit(x.outer) + Bit(x.lost)

SameSlots(x, y) == /\ HoldsSlot(x) <=> HoldsSlot(y)
                   /\ x.outer <=> y.outer
                   /\ x.lost <=> y.lost

\* A set of executions that differs in s alone counts s or not.
LEMMA CountMoves ==
    ASSUME NEW P, IsFiniteSet(P), NEW Q, NEW s, P \ {s} = Q \ {s}
    PROVE  /\ IsFiniteSet(Q) /\ Cardinality(P) \in Nat /\ Cardinality(Q) \in Nat
           /\ Cardinality(Q) - Bit(s \in Q) = Cardinality(P) - Bit(s \in P)
<1> DEFINE R == P \ {s}
<1>1. IsFiniteSet(R) /\ Cardinality(R) \in Nat /\ Cardinality(P) \in Nat
  BY FS_RemoveElement, FS_CardinalityType
<1>2. Cardinality(R) = Cardinality(P) - Bit(s \in P)
  BY <1>1, FS_RemoveElement, FS_CardinalityType DEF Bit
<1>3. s \notin R /\ (s \in Q => Q = R \cup {s}) /\ (s \notin Q => Q = R)
  OBVIOUS
<1> HIDE DEF R
<1>4. CASE s \in Q
  <2>1. IsFiniteSet(R \cup {s}) /\ Cardinality(R \cup {s}) = Cardinality(R) + 1
    BY <1>1, <1>3, FS_AddElement
  <2>2. Q = R \cup {s} /\ Bit(s \in Q) = 1
    BY <1>3, <1>4 DEF Bit
  <2>3. IsFiniteSet(Q) /\ Cardinality(Q) = Cardinality(R) + 1
    BY <2>1, <2>2
  <2> QED BY <1>1, <1>2, <2>2, <2>3
<1>5. CASE s \notin Q
  <2>1. Q = R /\ Bit(s \in Q) = 0
    BY <1>3, <1>5 DEF Bit
  <2> QED BY <1>1, <1>2, <2>1
<1> QED BY <1>4, <1>5

\* A step of s that takes from the bulkhead what s then holds more, or returns what it
\* holds less, keeps the account.
LEMMA CountStep ==
    ASSUME TypeOK, Counted, NEW s \in Sessions, exec' \in [Sessions -> Exec],
           \A t \in Sessions : t # s => SameSlots(exec[t], exec'[t]),
           free' \in Int, free' >= 0, free' + Weight(exec'[s]) = free + Weight(exec[s])
    PROVE  Counted' /\ free' \in 0..MaxConcurrency
<1>1. /\ Attempting \ {s} = Attempting' \ {s}
      /\ Continuing \ {s} = Continuing' \ {s}
      /\ Lost \ {s} = Lost' \ {s}
  BY DEF Attempting, Continuing, Lost, SameSlots
<1>2. /\ (s \in Attempting <=> HoldsSlot(exec[s])) /\ (s \in Attempting' <=> HoldsSlot(exec'[s]))
      /\ (s \in Continuing <=> exec[s].outer) /\ (s \in Continuing' <=> exec'[s].outer)
      /\ (s \in Lost <=> exec[s].lost) /\ (s \in Lost' <=> exec'[s].lost)
  BY DEF Attempting, Continuing, Lost
<1> DEFINE A == Attempting  A2 == Attempting'
           C == Continuing  C2 == Continuing'
           L == Lost        L2 == Lost'
<1>3. /\ IsFiniteSet(A) /\ IsFiniteSet(C) /\ IsFiniteSet(L)
      /\ free + Cardinality(A) + Cardinality(C) + Cardinality(L) = MaxConcurrency
      /\ free \in Int /\ MaxConcurrency \in Int
  <2>1. Cardinality(A) \in Nat /\ Cardinality(C) \in Nat /\ Cardinality(L) \in Nat
    BY FS_CardinalityType DEF Counted
  <2> QED BY <2>1, AdmissionAssumption DEF Counted, SlotsAreAccounted, Held, TypeOK
<1>4. /\ Weight(exec[s]) = Bit(s \in A) + Bit(s \in C) + Bit(s \in L)
      /\ Weight(exec'[s]) = Bit(s \in A2) + Bit(s \in C2) + Bit(s \in L2)
  BY <1>2 DEF Weight, Bit
<1>5. A \ {s} = A2 \ {s} /\ C \ {s} = C2 \ {s} /\ L \ {s} = L2 \ {s}
  BY <1>1
<1>6. free' + Cardinality(A2) + Cardinality(C2) + Cardinality(L2) = MaxConcurrency
      /\ IsFiniteSet(A2) /\ IsFiniteSet(C2) /\ IsFiniteSet(L2)
      /\ Cardinality(A2) \in Nat /\ Cardinality(C2) \in Nat /\ Cardinality(L2) \in Nat
  <2> HIDE DEF A, A2, C, C2, L, L2
  <2>1. /\ IsFiniteSet(A2) /\ Cardinality(A) \in Nat /\ Cardinality(A2) \in Nat
        /\ Cardinality(A2) - Bit(s \in A2) = Cardinality(A) - Bit(s \in A)
    BY <1>3, <1>5, CountMoves
  <2>2. /\ IsFiniteSet(C2) /\ Cardinality(C) \in Nat /\ Cardinality(C2) \in Nat
        /\ Cardinality(C2) - Bit(s \in C2) = Cardinality(C) - Bit(s \in C)
    BY <1>3, <1>5, CountMoves
  <2>3. /\ IsFiniteSet(L2) /\ Cardinality(L) \in Nat /\ Cardinality(L2) \in Nat
        /\ Cardinality(L2) - Bit(s \in L2) = Cardinality(L) - Bit(s \in L)
    BY <1>3, <1>5, CountMoves
  <2>4. /\ Bit(s \in A) \in Nat /\ Bit(s \in C) \in Nat /\ Bit(s \in L) \in Nat
        /\ Bit(s \in A2) \in Nat /\ Bit(s \in C2) \in Nat /\ Bit(s \in L2) \in Nat
    BY DEF Bit
  <2> QED BY <1>3, <1>4, <2>1, <2>2, <2>3, <2>4
<1>7. Counted'
  BY <1>6 DEF Counted, SlotsAreAccounted, Held
<1> QED BY <1>3, <1>6, <1>7

-----------------------------------------------------------------------------
(* A step of one execution *)

\* What the step of s may do to the others: at most wake them, where their places are kept.
OthersStay(ep, g, ex, s) ==
    \A t \in Sessions : t # s =>
        /\ Sound(ex[t], g) /\ Placed(ep, ex[t], t)
        /\ SameSlots(exec[t], ex[t])

\* The invariant after a step of s, from what is to be said of s, of the others, of the
\* episode and of the slots.
LEMMA StepKeeps ==
    ASSUME IInv, NEW s \in Sessions,
           episode' \in Episode, generation' \in Nat, exec' \in [Sessions -> Exec],
           SoundEpisode(episode', generation'), OthersStay(episode', generation', exec', s),
           Sound(exec'[s], generation'), Placed(episode', exec'[s], s),
           free' \in Int, free' >= 0, free' + Weight(exec'[s]) = free + Weight(exec[s])
    PROVE  IInv'
<1>1. Counted' /\ free' \in 0..MaxConcurrency
  BY CountStep DEF IInv, OthersStay
<1>2. TypeOK'
  BY <1>1 DEF TypeOK
<1>3. \A t \in Sessions : Sound(exec'[t], generation') /\ Placed(episode', exec'[t], t)
  BY DEF OthersStay
<1> QED BY <1>1, <1>2, <1>3 DEF IInv

\* The weight of an execution is a number.
LEMMA WeightIs == \A x : Weight(x) \in Nat
BY DEF Weight, Bit

\* The step of s leaves the episode and the others alone.
LEMMA SoloStep ==
    ASSUME IInv, NEW s \in Sessions, exec' \in [Sessions -> Exec],
           \A t \in Sessions : t # s => exec'[t] = exec[t],
           UNCHANGED <<episode, generation>>,
           Sound(exec'[s], generation), Placed(episode, exec'[s], s),
           free' \in Int, free' >= 0, free' + Weight(exec'[s]) = free + Weight(exec[s])
    PROVE  IInv'
<1>1. episode \in Episode /\ generation \in Nat /\ SoundEpisode(episode, generation)
  BY DEF IInv, TypeOK
<1>2. OthersStay(episode', generation', exec', s)
  BY DEF IInv, OthersStay, SameSlots
<1> QED BY <1>1, <1>2, StepKeeps

\* What an execution is told of the gate only grows.
LEMMA SoundLater ==
    ASSUME NEW x \in Exec, NEW g \in Nat, NEW h \in Nat, Sound(x, g), g <= h
    PROVE  Sound(x, h)
BY DEF Sound, Exec

\* The number of an episode that is set is counted (admission.py:602-616).
LEMMA SetEpisodeIs ==
    ASSUME IInv, NEW ep \in Episode, SoundEpisode(ep, ep.gen), SetEpisode(ep)
    PROVE  /\ episode' = ep /\ generation' \in Nat
           /\ generation' >= generation /\ generation' >= ep.gen
           /\ SoundEpisode(ep, generation')
BY DEF IInv, TypeOK, SetEpisode, SoundEpisode, Episode

\* The slots of an execution that ends.
LEMMA EndedWeight == ASSUME NEW x \in Exec PROVE Weight(Ended(x)) = Bit(x.outer) + Bit(x.lost)
<1> DEFINE y == Ended(x)
<1>1. /\ y.phase = IF x.outer THEN "closing" ELSE "done"
      /\ y.lost = x.lost /\ ~y.outer
  BY DEF Ended, Exec
<1> HIDE DEF y
<1>2. Bit(HoldsSlot(y)) = Bit(x.outer) /\ Bit(y.outer) = 0 /\ Bit(y.lost) = Bit(x.lost)
  BY <1>1 DEF HoldsSlot, Bit
<1>3. Bit(x.outer) \in Nat /\ Bit(x.lost) \in Nat
  BY DEF Bit
<1> QED BY <1>2, <1>3 DEF Weight, y

\* An execution that ends holds one slot if it still has the stream it was to continue.
LEMMA EndedIs ==
    ASSUME NEW x \in Exec
    PROVE  /\ Ended(x) \in Exec
           /\ Ended(x).phase = IF x.outer THEN "closing" ELSE "done"
           /\ Ended(x).resolved = IF x.outer THEN TRUE ELSE x.resolved
           /\ Ended(x).accepted = IF x.outer THEN TRUE ELSE x.accepted
           /\ x.outer => ~Ended(x).again
           /\ ~Ended(x).outer
           /\ Ended(x).permit = x.permit /\ Ended(x).failed = x.failed
           /\ Ended(x).abandoning = x.abandoning /\ Ended(x).lost = x.lost
           /\ Ended(x).attempts = x.attempts
           /\ Weight(Ended(x)) = Bit(x.outer) + Bit(x.lost)
<1>1. CASE x.outer
  <2>1. Ended(x) = [x EXCEPT !.phase = "closing", !.outer = FALSE, !.resolved = TRUE,
                             !.accepted = TRUE, !.again = FALSE]
    BY <1>1 DEF Ended
  <2> QED BY <1>1, <2>1, EndedWeight DEF Exec, Phase
<1>2. CASE ~x.outer
  <2>1. Ended(x) = [x EXCEPT !.phase = "done"]
    BY <1>2 DEF Ended
  <2> QED BY <1>2, <2>1, EndedWeight DEF Exec, Phase
<1> QED BY <1>1, <1>2

\* It may end where it has nothing to hand over, or is remembered as lost.
LEMMA EndedPlaced ==
    ASSUME NEW x \in Exec, NEW s \in Sessions, NEW ep \in Episode, NEW g \in Nat,
           x.permit <= g, x.accepted => x.resolved,
           ep.open /\ ep.leader = s =>
              /\ s \notin ep.waiters /\ ~x.failed
              /\ ep.probe => x.permit = ep.gen /\ (x.abandoning \/ x.lost)
              /\ ~ep.probe => x.lost,
           s \in ep.waiters => ~x.failed /\ x.lost
    PROVE  Sound(Ended(x), g) /\ Placed(ep, Ended(x), s)
<1> DEFINE y == Ended(x)
<1>1. /\ y \in Exec /\ y.phase = IF x.outer THEN "closing" ELSE "done"
      /\ y.accepted => y.resolved
      /\ y.phase = "closing" => y.resolved /\ ~y.again
      /\ ~y.outer /\ y.permit = x.permit /\ y.failed = x.failed
      /\ y.abandoning = x.abandoning /\ y.lost = x.lost
  BY EndedIs
<1> HIDE DEF y
<1>2. Sound(y, g)
  BY <1>1 DEF Sound
<1>3. Placed(ep, y, s)
  BY <1>1 DEF Placed, Leads, Waits
<1> QED BY <1>2, <1>3 DEF y

-----------------------------------------------------------------------------
(* Waking the others *)

\* notify_all (admission.py:413-450).
LEMMA NotifiedIs ==
    ASSUME NEW ex \in [Sessions -> Exec], NEW b \in BOOLEAN
    PROVE  /\ Notified(ex, b) \in [Sessions -> Exec]
           /\ \A t \in Sessions :
                 Notified(ex, b)[t] = IF b /\ ex[t].phase = "waiting"
                                      THEN [ex[t] EXCEPT !.phase = "woken"] ELSE ex[t]
           /\ ~b => Notified(ex, b) = ex
<1>1. \A t \in Sessions :
         /\ Notified(ex, b)[t] = IF b /\ ex[t].phase = "waiting"
                                 THEN [ex[t] EXCEPT !.phase = "woken"] ELSE ex[t]
         /\ Notified(ex, b)[t] \in Exec
  BY DEF Notified, Exec, Phase
<1> QED BY <1>1 DEF Notified

\* Everybody else is awake, or as before, when s has changed the episode to ep.
LEMMA OthersNotified ==
    ASSUME IInv, NEW s \in Sessions, NEW ep \in Episode, NEW g \in Nat, g >= generation,
           ep.open => ep.leader \in {None, s},
           \A t \in Sessions : t # s =>
              /\ t \in ep.waiters => t \in episode.waiters /\ ep.gen = episode.gen
              /\ ep.open /\ ep.terminal = "unset" /\ ep.gen = exec[t].permit =>
                   /\ episode.open /\ episode.terminal = "unset" /\ episode.gen = ep.gen
                   /\ t \in episode.waiters => t \in ep.waiters
    PROVE  OthersStay(ep, g, Notified(exec, TRUE), s)
<1> SUFFICES ASSUME NEW t \in Sessions, t # s
             PROVE  /\ Sound(Notified(exec, TRUE)[t], g)
                    /\ Placed(ep, Notified(exec, TRUE)[t], t)
                    /\ SameSlots(exec[t], Notified(exec, TRUE)[t])
  BY DEF OthersStay
<1>1. exec \in [Sessions -> Exec] /\ generation \in Nat /\ exec[t] \in Exec
  BY DEF IInv, TypeOK
<1>2. Sound(exec[t], g) /\ Placed(episode, exec[t], t)
  BY <1>1, SoundLater DEF IInv
<1>3. None \notin Sessions
  BY AdmissionAssumption
<1> DEFINE x == exec[t]  y == Notified(exec, TRUE)[t]
<1>4. CASE x.phase = "waiting"
  <2>1. y = [x EXCEPT !.phase = "woken"]
    BY <1>1, <1>4, NotifiedIs
  <2>2. /\ y.phase = "woken" /\ y.permit = x.permit /\ y.failed = x.failed /\ y.lost = x.lost
        /\ y.outer = x.outer /\ y.accepted = x.accepted /\ y.resolved = x.resolved
        /\ y.abandoning = x.abandoning /\ y.attempts = x.attempts
    BY <1>1, <2>1 DEF Exec
  <2> HIDE DEF x, y
  <2>3. Sound(y, g) /\ SameSlots(x, y)
    BY <1>2, <1>4, <2>2 DEF Sound, SameSlots, HoldsSlot, x
  <2>4. t \in episode.waiters
    BY <1>2, <1>4 DEF Placed, x
  <2>5. Placed(ep, y, t)
    BY <1>2, <1>3, <1>4, <2>2, <2>4 DEF Placed, Waits, x
  <2> QED BY <2>3, <2>5 DEF x, y
<1>5. CASE x.phase # "waiting"
  <2>1. y = x
    BY <1>1, <1>5, NotifiedIs
  <2> HIDE DEF x, y
  <2>2. Placed(ep, x, t)
    BY <1>2, <1>3, <1>5 DEF Placed, Waits, x
  <2> QED BY <1>2, <2>1, <2>2 DEF SameSlots, x, y
<1> QED BY <1>4, <1>5

-----------------------------------------------------------------------------
(* The gate *)

\* What s must be to come to the gate of ep: it holds no probe and has not been cut short.
Arrives(ep, x, s) ==
    /\ x.accepted => x.resolved
    /\ ~x.abandoning /\ ~x.lost /\ x.attempts < MaxAttempts
    /\ ep.open /\ ep.leader = s => ~ep.probe /\ ~x.failed /\ s \notin ep.waiters
    /\ s \in ep.waiters => ~x.failed

\* What the gate does with s: the recovery is exhausted; it lets s through an open gate; it
\* makes s the leader of a new recovery, or of one that has none; or it lets s wait.
GateGives(ep, s, gate) ==
    \/ gate.phase = "raised" /\ ep.open /\ ep.terminal = "cooling"
    \/ ~ep.open /\ gate.episode = ep /\ gate.phase = "rate" /\ gate.permit = 0
    \/ /\ ep.open /\ ep.terminal = "over" /\ gate.phase = "rate"
       /\ gate.permit = generation + 1
       /\ gate.episode = [NewEpisode(generation + 1, s, TRUE) EXCEPT !.probe = TRUE]
    \/ /\ ep.open /\ ep.terminal = "unset" /\ ep.leader \in {None, s} /\ ~ep.probe
       /\ gate.permit = ep.gen
       /\ gate.phase = IF ep.ready THEN "rate" ELSE "sleeping"
       /\ gate.episode = [ep EXCEPT !.leader = s, !.probe = ep.ready,
                                    !.waiters = IF ep.leader = None THEN @ \ {s} ELSE @]
    \/ /\ ep.open /\ ep.terminal = "unset" /\ ep.leader \notin {None, s}
       /\ gate.permit = ep.gen /\ gate.phase = "waiting"
       /\ gate.episode = [ep EXCEPT !.waiters = @ \cup {s}]

\* It does nothing else (admission.py:308-358).
LEMMA GateIs ==
    ASSUME NEW s \in Sessions, NEW ep \in Episode, SoundEpisode(ep, ep.gen), generation \in Nat,
           ep.open /\ ep.leader = s => ~ep.probe
    PROVE  GateGives(ep, s, Gate(ep, s))
<1> SUFFICES ASSUME NEW gate, gate = Gate(ep, s) PROVE GateGives(ep, s, gate)
  OBVIOUS
<1> DEFINE e == gate.episode
<1> HIDE DEF e
<1>1. None \notin Sessions
  BY AdmissionAssumption
<1>2. CASE ~ep.open
  BY <1>2 DEF Gate, GateOutcome, e, GateGives
<1>3. CASE ep.open /\ ep.terminal = "cooling"
  BY <1>3 DEF Gate, GateOutcome, e, GateGives
<1>4. CASE ep.open /\ ep.terminal = "over"
  <2>1. gate = LedGate(NewEpisode(generation + 1, s, TRUE), s)
    BY <1>4 DEF Gate
  <2>2. /\ NewEpisode(generation + 1, s, TRUE).leader = s
        /\ NewEpisode(generation + 1, s, TRUE).ready
        /\ NewEpisode(generation + 1, s, TRUE).gen = generation + 1
        /\ ~NewEpisode(generation + 1, s, TRUE).probe
    BY DEF NewEpisode, NoEpisode
  <2>3. gate = GateOutcome([NewEpisode(generation + 1, s, TRUE) EXCEPT !.probe = TRUE],
                           "rate", generation + 1)
    BY <2>1, <2>2 DEF LedGate
  <2> QED BY <1>4, <2>3 DEF GateOutcome, e, GateGives
<1>5. CASE ep.open /\ ep.terminal = "unset"
  <2>1. CASE ep.leader = None
    <3> DEFINE f == [ep EXCEPT !.leader = s, !.waiters = @ \ {s}]
    <3>1. gate = LedGate(f, s) /\ ~ep.probe
      BY <1>5, <2>1 DEF Gate, SoundEpisode
    <3>2. f.leader = s /\ ~f.probe /\ f.ready = ep.ready /\ f.gen = ep.gen
      BY <3>1 DEF Episode
    <3>3. gate = IF ep.ready THEN GateOutcome([f EXCEPT !.probe = TRUE], "rate", ep.gen)
                             ELSE GateOutcome(f, "sleeping", ep.gen)
      <4> HIDE DEF f
      <4> QED BY <3>1, <3>2 DEF LedGate
    <3>4. e = IF ep.ready THEN [f EXCEPT !.probe = TRUE] ELSE f
      <4> HIDE DEF f
      <4> QED BY <3>3 DEF GateOutcome, e
    <3>5. e = [ep EXCEPT !.leader = s, !.probe = ep.ready,
                         !.waiters = IF ep.leader = None THEN @ \ {s} ELSE @]
      BY <2>1, <3>1, <3>4 DEF Episode
    <3> HIDE DEF f
    <3>6. gate.permit = ep.gen /\ gate.phase = IF ep.ready THEN "rate" ELSE "sleeping"
      BY <3>3 DEF GateOutcome
    <3> QED BY <1>5, <2>1, <3>1, <3>5, <3>6 DEF GateGives, e
  <2>2. CASE ep.leader = s
    <3>1. gate = LedGate(ep, s) /\ ~ep.probe
      BY <1>1, <1>5, <2>2 DEF Gate
    <3>2. gate = IF ep.ready THEN GateOutcome([ep EXCEPT !.probe = TRUE], "rate", ep.gen)
                             ELSE GateOutcome(ep, "sleeping", ep.gen)
      BY <2>2, <3>1 DEF LedGate
    <3>3. e = IF ep.ready THEN [ep EXCEPT !.probe = TRUE] ELSE ep
      BY <3>2 DEF GateOutcome, e
    <3>4. e = [ep EXCEPT !.leader = s, !.probe = ep.ready,
                         !.waiters = IF ep.leader = None THEN @ \ {s} ELSE @]
      BY <1>1, <2>2, <3>1, <3>3 DEF Episode
    <3>5. gate.permit = ep.gen /\ gate.phase = IF ep.ready THEN "rate" ELSE "sleeping"
      BY <3>2 DEF GateOutcome
    <3> QED BY <1>5, <2>2, <3>1, <3>4, <3>5 DEF GateGives, e
  <2>3. CASE ep.leader \notin {None, s}
    <3>1. gate = LedGate(ep, s)
      BY <1>5, <2>3 DEF Gate
    <3> QED BY <1>5, <2>3, <3>1 DEF LedGate, GateOutcome, GateGives
  <2> QED BY <2>1, <2>2, <2>3
<1>6. ep.terminal \in {"unset", "cooling", "over"} /\ ep.open \in BOOLEAN
  BY DEF Episode
<1> QED BY <1>2, <1>3, <1>4, <1>5, <1>6

\* After the step of s through the gate everything is in its place.
Passed(ex, s) ==
    /\ episode' \in Episode /\ generation' \in Nat /\ exec' \in [Sessions -> Exec]
    /\ SoundEpisode(episode', generation') /\ OthersStay(episode', generation', exec', s)
    /\ Sound(exec'[s], generation') /\ Placed(episode', exec'[s], s)
    /\ Weight(exec'[s]) = Bit(ex[s].outer)

\* s stands where the gate has put it: its record and that of the episode.
LEMMA AtGate ==
    ASSUME NEW x \in Exec, NEW y \in Exec, NEW e \in Episode, NEW g \in Nat, NEW s \in Sessions,
           e.gen <= g, ~x.failed, ~x.abandoning, ~x.lost, x.attempts < MaxAttempts,
           y.attempts = x.attempts, y.outer = x.outer, y.failed = x.failed, y.abandoning = x.abandoning, y.lost = x.lost,
           ~y.resolved, ~y.accepted,
           \/ ~e.open /\ e = NoEpisode /\ y.phase = "rate" /\ y.permit = 0
           \/ /\ e.open /\ e.leader = s /\ s \notin e.waiters /\ y.permit = e.gen
              /\ y.phase = IF e.probe THEN "rate" ELSE "sleeping"
           \/ /\ e.open /\ e.terminal = "unset" /\ e.leader \notin {None, s} /\ s \in e.waiters
              /\ y.permit = e.gen /\ y.phase = "waiting"
    PROVE  Sound(y, g) /\ Placed(e, y, s) /\ Weight(y) = Bit(x.outer)
<1>1. Sound(y, g)
  BY DEF Sound, Exec, NoEpisode
<1>2. Placed(e, y, s)
  BY DEF Placed, Leads, Waits, NoEpisode
<1>3. Bit(HoldsSlot(y)) = 0 /\ Bit(y.lost) = 0 /\ Bit(y.outer) = Bit(x.outer) /\ Bit(x.outer) \in Nat
  BY DEF HoldsSlot, Bit
<1> QED BY <1>1, <1>2, <1>3 DEF Weight

\* A step to the gate, after which s may have led to something else in the episode ep, with
\* the executions ex (admission.py:250-278, 308-358).
LEMMA GateStep ==
    ASSUME IInv, NEW s \in Sessions, NEW ep \in Episode, SoundEpisode(ep, ep.gen),
           NEW ex \in [Sessions -> Exec], OthersStay(ep, generation, ex, s),
           ex[s].permit <= generation, Arrives(ep, ex[s], s), ToGate(s, ep, ex)
    PROVE  Passed(ex, s)
<1>1. generation \in Nat /\ ex[s] \in Exec /\ None \notin Sessions /\ exec \in [Sessions -> Exec]
  BY AdmissionAssumption DEF IInv, TypeOK
<1> DEFINE gate == Gate(ep, s)
           x == ex[s]
<1>2. CASE Barred(x, gate)
  <2>1. SetEpisode(ep) /\ exec' = [ex EXCEPT ![s] = Ended(x)]
    BY <1>2 DEF ToGate
  <2>2. episode' = ep /\ generation' \in Nat /\ generation' >= generation /\ SoundEpisode(ep, generation')
    BY <2>1, SetEpisodeIs
  <2>3. exec' \in [Sessions -> Exec] /\ exec'[s] = Ended(x) /\ Weight(exec'[s]) = Bit(x.outer)
    <3>1. Ended(x) \in Exec /\ Weight(Ended(x)) = Bit(x.outer) + Bit(x.lost)
      BY <1>1, EndedIs
    <3>2. Bit(x.outer) \in Nat /\ Bit(x.lost) = 0
      BY DEF Bit, Arrives
    <3> QED BY <1>1, <2>1, <3>1, <3>2
  <2>4. x.failed \/ (ep.open /\ ep.leader = None /\ ep.waiters = {})
    <3>1. x.failed \/ gate.phase = "raised"
      BY <1>2 DEF Barred
    <3>2. gate.phase = "raised" => ep.open /\ ep.terminal = "cooling"
      <4>1. ep.open /\ ep.leader = s => ~ep.probe
        BY DEF Arrives
      <4>2. GateGives(ep, s, gate)
        BY <1>1, <4>1, GateIs
      <4> HIDE DEF gate
      <4> QED BY <4>2 DEF GateGives
    <3> QED BY <3>1, <3>2 DEF SoundEpisode
  <2>5. Sound(exec'[s], generation') /\ Placed(episode', exec'[s], s)
    <3>1. x.permit <= generation'
      BY <1>1, <2>2 DEF Exec
    <3> HIDE DEF x, gate
    <3>2. Sound(Ended(x), generation') /\ Placed(ep, Ended(x), s)
      BY <1>1, <2>2, <2>4, <3>1, EndedPlaced DEF Arrives, x
    <3> QED BY <2>2, <2>3, <3>2
  <2>6. OthersStay(episode', generation', exec', s)
    BY <1>1, <2>1, <2>2, SoundLater DEF OthersStay
  <2> QED BY <2>2, <2>3, <2>5, <2>6 DEF Passed
<1>3. CASE ~Barred(x, gate)
  <2> DEFINE e == gate.episode  y == exec'[s]
  <2>1. /\ SetEpisode(e) /\ ~x.failed /\ gate.phase # "raised"
        /\ exec' = [ex EXCEPT ![s].phase = gate.phase, ![s].permit = gate.permit,
                              ![s].resolved = FALSE, ![s].accepted = FALSE]
    BY <1>3 DEF ToGate, Barred
  <2>2. ep.open /\ ep.leader = s => ~ep.probe
    BY DEF Arrives
  <2>3. \/ ~ep.open /\ e = ep /\ gate.phase = "rate" /\ gate.permit = 0
        \/ /\ ep.open /\ ep.terminal = "over" /\ gate.phase = "rate"
           /\ gate.permit = generation + 1
           /\ e = [NewEpisode(generation + 1, s, TRUE) EXCEPT !.probe = TRUE]
        \/ /\ ep.open /\ ep.terminal = "unset" /\ ep.leader \in {None, s} /\ ~ep.probe
           /\ gate.permit = ep.gen
           /\ gate.phase = IF ep.ready THEN "rate" ELSE "sleeping"
           /\ e = [ep EXCEPT !.leader = s, !.probe = ep.ready,
                             !.waiters = IF ep.leader = None THEN @ \ {s} ELSE @]
        \/ /\ ep.open /\ ep.terminal = "unset" /\ ep.leader \notin {None, s}
           /\ gate.permit = ep.gen /\ gate.phase = "waiting"
           /\ e = [ep EXCEPT !.waiters = @ \cup {s}]
    <3>1. GateGives(ep, s, gate)
      BY <1>1, <2>2, GateIs
    <3> HIDE DEF gate
    <3> QED BY <2>1, <3>1 DEF GateGives
  <2>4. e \in Episode /\ SoundEpisode(e, e.gen)
    <3>1. CASE ep.open /\ ep.terminal = "over"
              /\ e = [NewEpisode(generation + 1, s, TRUE) EXCEPT !.probe = TRUE]
      <4> HIDE DEF e, gate
      <4>1. e = [open |-> TRUE, gen |-> generation + 1, leader |-> s, ready |-> TRUE,
                 waiters |-> {}, probe |-> TRUE, terminal |-> "unset"]
        BY <3>1 DEF NewEpisode, NoEpisode
      <4> QED BY <1>1, <4>1 DEF Episode, SoundEpisode
    <3>2. CASE e = ep
      BY <3>2
    <3>3. CASE ep.open /\ ep.terminal = "unset"
      <4> HIDE DEF e, gate
      <4>1. \/ e = [ep EXCEPT !.leader = s, !.probe = ep.ready,
                              !.waiters = IF ep.leader = None THEN @ \ {s} ELSE @]
            \/ e = [ep EXCEPT !.waiters = @ \cup {s}] /\ ep.leader # None
        BY <2>3, <3>3
      <4>2. CASE e = [ep EXCEPT !.leader = s, !.probe = ep.ready,
                                !.waiters = IF ep.leader = None THEN @ \ {s} ELSE @]
        BY <1>1, <3>3, <4>2 DEF Episode, SoundEpisode
      <4>3. CASE e = [ep EXCEPT !.waiters = @ \cup {s}]
        BY <1>1, <3>3, <4>3 DEF Episode, SoundEpisode
      <4> QED BY <4>1, <4>2, <4>3
    <3> HIDE DEF e, gate
    <3> QED BY <2>3, <3>1, <3>2, <3>3
  <2>5. /\ episode' = e /\ generation' \in Nat /\ generation' >= generation
        /\ generation' >= e.gen /\ SoundEpisode(e, generation')
    <3> HIDE DEF e
    <3> QED BY <2>1, <2>4, SetEpisodeIs
  <2>6. /\ exec' \in [Sessions -> Exec] /\ y \in Exec
        /\ y.phase = gate.phase /\ y.permit = gate.permit /\ ~y.resolved /\ ~y.accepted
        /\ y.outer = x.outer /\ y.failed = x.failed /\ y.abandoning = x.abandoning
        /\ y.lost = x.lost /\ y.attempts = x.attempts
        /\ \A t \in Sessions : t # s => exec'[t] = ex[t]
    <3>1. gate.phase \in Phase /\ gate.permit \in Nat
      <4> HIDE DEF gate, e
      <4>1. ep.gen \in Nat
        BY DEF Episode
      <4>2. gate.phase \in {"rate", "sleeping", "waiting"}
        BY <2>3
      <4>3. gate.permit \in {0, generation + 1, ep.gen}
        BY <2>3
      <4> QED BY <1>1, <4>1, <4>2, <4>3 DEF Phase
    <3> HIDE DEF gate
    <3>2. [x EXCEPT !.phase = gate.phase, !.permit = gate.permit,
                    !.resolved = FALSE, !.accepted = FALSE] \in Exec
      BY <1>1, <3>1 DEF Exec
    <3> QED BY <1>1, <2>1, <3>2 DEF Exec
  <2>7. Sound(y, generation') /\ Placed(e, y, s) /\ Weight(y) = Bit(x.outer)
    <3>1. \/ ~e.open /\ e = NoEpisode /\ y.phase = "rate" /\ y.permit = 0
          \/ /\ e.open /\ e.leader = s /\ s \notin e.waiters /\ y.permit = e.gen
             /\ y.phase = IF e.probe THEN "rate" ELSE "sleeping"
          \/ /\ e.open /\ e.terminal = "unset" /\ e.leader \notin {None, s} /\ s \in e.waiters
             /\ y.permit = e.gen /\ y.phase = "waiting"
      <4> HIDE DEF gate, e, y
      <4>1. CASE ~ep.open /\ e = ep /\ gate.phase = "rate" /\ gate.permit = 0
        BY <2>6, <4>1 DEF SoundEpisode
      <4>2. CASE /\ gate.phase = "rate" /\ gate.permit = generation + 1
                 /\ e = [NewEpisode(generation + 1, s, TRUE) EXCEPT !.probe = TRUE]
        BY <2>6, <4>2 DEF NewEpisode, NoEpisode
      <4>3. CASE /\ ep.open /\ ep.leader \in {None, s} /\ ~ep.probe /\ gate.permit = ep.gen
                 /\ gate.phase = IF ep.ready THEN "rate" ELSE "sleeping"
                 /\ e = [ep EXCEPT !.leader = s, !.probe = ep.ready,
                                   !.waiters = IF ep.leader = None THEN @ \ {s} ELSE @]
        <5>1. /\ e.open /\ e.leader = s /\ e.gen = ep.gen /\ e.probe = ep.ready
              /\ e.waiters = IF ep.leader = None THEN ep.waiters \ {s} ELSE ep.waiters
          BY <4>3 DEF Episode
        <5>2. s \notin e.waiters
          BY <1>1, <4>3, <5>1 DEF Arrives
        <5> QED BY <2>6, <4>3, <5>1, <5>2
      <4>4. CASE /\ ep.open /\ ep.terminal = "unset" /\ ep.leader \notin {None, s}
                 /\ gate.permit = ep.gen /\ gate.phase = "waiting"
                 /\ e = [ep EXCEPT !.waiters = @ \cup {s}]
        BY <2>6, <4>4 DEF Episode
      <4> QED BY <2>3, <4>1, <4>2, <4>3, <4>4
    <3>2. ~x.abandoning /\ ~x.lost /\ x.attempts < MaxAttempts
      BY DEF Arrives
    <3> HIDE DEF gate, e, x, y
    <3> QED BY <1>1, <2>1, <2>4, <2>5, <2>6, <3>1, <3>2, AtGate DEF x
  <2>8. OthersStay(e, generation', exec', s)
    <3> SUFFICES ASSUME NEW t \in Sessions, t # s
                 PROVE  /\ Sound(ex[t], generation') /\ Placed(e, ex[t], t)
                        /\ SameSlots(exec[t], ex[t])
      <4> HIDE DEF e, gate
      <4> QED BY <2>6 DEF OthersStay
    <3>1. /\ Sound(ex[t], generation) /\ Placed(ep, ex[t], t) /\ SameSlots(exec[t], ex[t])
          /\ ex[t] \in Exec
      BY DEF OthersStay
    <3>2. Sound(ex[t], generation')
      BY <1>1, <2>5, <3>1, SoundLater
    <3>3. ex[t].permit <= generation /\ ex[t].permit \in Nat
      BY <3>1 DEF Sound, Exec
    <3>4. Placed(e, ex[t], t)
      <4> HIDE DEF gate, e
      <4>1. CASE e = ep
        BY <3>1, <4>1
      <4>2. CASE ep.open /\ ep.terminal = "over"
                 /\ e = [NewEpisode(generation + 1, s, TRUE) EXCEPT !.probe = TRUE]
        <5>1. e.open /\ e.leader = s /\ e.waiters = {} /\ e.gen = generation + 1
          BY <4>2 DEF NewEpisode, NoEpisode
        <5>2. ex[t].phase # "waiting"
          BY <3>1, <4>2 DEF Placed
        <5> QED BY <1>1, <3>3, <5>1, <5>2 DEF Placed
      <4>3. CASE /\ ep.open /\ ep.leader \in {None, s} /\ ~ep.probe
                 /\ e = [ep EXCEPT !.leader = s, !.probe = ep.ready,
                                   !.waiters = IF ep.leader = None THEN @ \ {s} ELSE @]
        <5>1. /\ e.open /\ e.leader = s /\ e.gen = ep.gen /\ e.terminal = ep.terminal
              /\ t \in e.waiters <=> t \in ep.waiters
          BY <4>3 DEF Episode
        <5>2. Waits(ep, ex[t]) => Waits(e, ex[t])
          BY <5>1 DEF Waits
        <5> QED BY <1>1, <3>1, <4>3, <5>1, <5>2 DEF Placed
      <4>4. CASE /\ ep.open /\ ep.leader \notin {None, s}
                 /\ e = [ep EXCEPT !.waiters = @ \cup {s}]
        <5>1. /\ e.open /\ e.leader = ep.leader /\ e.gen = ep.gen /\ e.terminal = ep.terminal
              /\ e.probe = ep.probe /\ (t \in e.waiters <=> t \in ep.waiters)
          BY <4>4 DEF Episode
        <5>2. /\ Waits(ep, ex[t]) => Waits(e, ex[t])
              /\ Leads(ep, ex[t]) => Leads(e, ex[t])
          BY <5>1 DEF Waits, Leads
        <5> QED BY <1>1, <3>1, <4>4, <5>1, <5>2 DEF Placed
      <4> QED BY <2>3, <4>1, <4>2, <4>3, <4>4
    <3> QED BY <3>1, <3>2, <3>4
  <2> HIDE DEF gate, e
  <2> QED BY <2>4, <2>5, <2>6, <2>7, <2>8 DEF Passed
<1> QED BY <1>2, <1>3

\* Nobody else is touched by a step that leaves the episode alone.
LEMMA OthersSame == ASSUME IInv, NEW s \in Sessions PROVE OthersStay(episode, generation, exec, s)
BY DEF IInv, OthersStay, SameSlots

\* The slots are kept by the execution that comes to the gate, whose attempt was released.
LEMMA GateKeeps ==
    ASSUME IInv, NEW s \in Sessions, NEW ep \in Episode, SoundEpisode(ep, ep.gen),
           NEW ex \in [Sessions -> Exec], OthersStay(ep, generation, ex, s),
           ex[s].permit <= generation, Arrives(ep, ex[s], s), ToGate(s, ep, ex),
           free' \in Int, free' >= 0, free' + Bit(ex[s].outer) = free + Weight(exec[s])
    PROVE  IInv'
<1>1. Passed(ex, s)
  BY GateStep
<1> QED BY <1>1, StepKeeps DEF Passed

\* Who waits for the gate, or has closed its stream to come to it, may come to it, and who
\* continues an accepted stream may too.
LEMMA ArrivesFrom ==
    ASSUME IInv, NEW s \in Sessions,
           \/ exec[s].phase \in {"new", "woken"}
           \/ exec[s].phase = "sleeping" /\ ~SleepsAsLeader(s)
           \/ exec[s].phase = "closing" /\ exec[s].resolved /\ exec[s].again
           \/ exec[s].phase = "stream" /\ exec[s].resolved /\ CanAttempt(s)
    PROVE  Arrives(episode, exec[s], s) /\ exec[s].permit <= generation
<1> DEFINE x == exec[s]
<1>1. Sound(x, generation) /\ Placed(episode, x, s) /\ x \in Exec /\ episode \in Episode
  BY DEF IInv, TypeOK
<1>2. /\ x.accepted => x.resolved
      /\ ~x.abandoning /\ ~x.lost /\ x.attempts < MaxAttempts /\ x.permit <= generation
  BY <1>1 DEF Sound, CanAttempt
<1>3. episode.open /\ episode.leader = s => ~episode.probe /\ ~x.failed /\ s \notin episode.waiters
  BY <1>1, <1>2 DEF Placed, Leads, HoldsSlot, SleepsAsLeader
<1>4. s \in episode.waiters => ~x.failed
  BY <1>1 DEF Placed, Waits
<1> QED BY <1>2, <1>3, <1>4 DEF Arrives

\* An execution with a permit or an attempt leads only as the holder of the probe, and is
\* neither a waiter nor told of anything.
LEMMA ProberMatches ==
    ASSUME IInv, NEW s \in Sessions, exec[s].phase \in {"rate", "slot", "open", "stream"}
    PROVE  /\ episode.open /\ episode.leader = s =>
                /\ Matches(episode, s, exec[s].permit)
                /\ exec[s].phase = "stream" => ~exec[s].resolved
           /\ s \notin episode.waiters
           /\ ~exec[s].abandoning /\ ~exec[s].lost /\ ~exec[s].failed
           /\ exec[s].accepted => exec[s].resolved
           /\ exec[s].permit <= generation
<1> DEFINE x == exec[s]
<1>1. Sound(x, generation) /\ Placed(episode, x, s) /\ x \in Exec /\ episode \in Episode
      /\ SoundEpisode(episode, generation)
  BY DEF IInv, TypeOK
<1>2. /\ ~x.abandoning /\ ~x.lost /\ ~x.failed /\ (x.accepted => x.resolved)
      /\ x.permit <= generation
  BY <1>1 DEF Sound
<1>3. s \notin episode.waiters
  BY <1>1, <1>2 DEF Placed, Waits
<1>4. ASSUME episode.open, episode.leader = s
      PROVE  Matches(episode, s, x.permit) /\ (x.phase = "stream" => ~x.resolved)
  <2>1. Leads(episode, x)
    BY <1>1, <1>4 DEF Placed
  <2>2. episode.probe /\ x.permit = episode.gen
    BY <1>2, <2>1 DEF Leads
  <2>3. x.permit > 0
    BY <1>1, <1>4, <2>2 DEF SoundEpisode, Episode
  <2>4. x.phase = "stream" => ~x.resolved
    BY <1>2, <2>1, <2>2 DEF Leads
  <2> QED BY <1>4, <2>2, <2>3, <2>4 DEF Matches
<1> QED BY <1>2, <1>3, <1>4

\* What Matches says (admission.py:628-642).
LEMMA MatchesIs ==
    ASSUME IInv, NEW s \in Sessions, Matches(episode, s, exec[s].permit)
    PROVE  /\ episode.open /\ episode.leader = s /\ episode.probe /\ episode.terminal = "unset"
           /\ episode.gen = exec[s].permit /\ episode.gen >= 1 /\ episode.gen <= generation
           /\ episode \in Episode /\ generation \in Nat /\ s # None /\ s \notin episode.waiters
<1>1. episode \in Episode /\ SoundEpisode(episode, generation) /\ Placed(episode, exec[s], s)
      /\ generation \in Nat
  BY DEF IInv, TypeOK
<1> QED BY <1>1, AdmissionAssumption DEF Matches, SoundEpisode, Placed

-----------------------------------------------------------------------------
(* open_attempt *)

\* Who holds no slot of an attempt comes to the gate, new, notified or after a backoff
\* (admission.py:250-257, 340-375).
LEMMA WaiterStep ==
    ASSUME IInv, NEW s \in Sessions, ToGate(s, episode, exec), UNCHANGED free,
           \/ exec[s].phase \in {"new", "woken"}
           \/ exec[s].phase = "sleeping" /\ ~SleepsAsLeader(s)
    PROVE  IInv'
<1>1. Arrives(episode, exec[s], s) /\ exec[s].permit <= generation
  BY ArrivesFrom
<1>2. Weight(exec[s]) = Bit(exec[s].outer)
  BY <1>1 DEF Weight, HoldsSlot, Bit, Arrives
<1>3. /\ episode \in Episode /\ SoundEpisode(episode, episode.gen)
      /\ exec \in [Sessions -> Exec] /\ free \in Int /\ free >= 0
  BY DEF IInv, TypeOK, SoundEpisode, Episode
<1> QED BY <1>1, <1>2, <1>3, OthersSame, GateKeeps

\* The backoff of the leader is over: its probe begins (admission.py:359-375).
LEMMA WakeStep == ASSUME IInv, NEW s \in Sessions, Wake(s) PROVE IInv'
<1>1. exec[s].phase = "sleeping" /\ free' = free
  BY DEF Wake
<1>2. /\ episode \in Episode /\ generation \in Nat /\ SoundEpisode(episode, generation)
      /\ Placed(episode, exec[s], s) /\ Sound(exec[s], generation)
      /\ exec \in [Sessions -> Exec] /\ exec[s] \in Exec
      /\ free \in Int /\ free >= 0 /\ None # s
  BY AdmissionAssumption DEF IInv, TypeOK
<1>3. CASE SleepsAsLeader(s) /\ episode.terminal = "unset"
  <2> DEFINE e == [episode EXCEPT !.probe = TRUE]
             y == [exec[s] EXCEPT !.phase = "rate"]
  <2>1. SetEpisode(e) /\ exec' = [exec EXCEPT ![s] = y]
    BY <1>3 DEF Wake
  <2>2. /\ episode.open /\ episode.leader = s /\ ~episode.probe
        /\ episode.gen = exec[s].permit
    BY <1>3 DEF SleepsAsLeader
  <2>3. /\ e \in Episode /\ e.open /\ e.leader = s /\ e.probe /\ e.gen = episode.gen
        /\ e.terminal = episode.terminal /\ e.waiters = episode.waiters
    BY <1>2, <2>2 DEF Episode
  <2>4. /\ y \in Exec /\ y.phase = "rate" /\ y.permit = exec[s].permit
        /\ y.attempts = exec[s].attempts /\ y.failed = exec[s].failed
        /\ y.accepted = exec[s].accepted /\ y.resolved = exec[s].resolved
        /\ y.abandoning = exec[s].abandoning /\ y.lost = exec[s].lost
        /\ y.outer = exec[s].outer
    BY <1>2 DEF Exec, Phase
  <2>5. exec' \in [Sessions -> Exec] /\ exec'[s] = y
    BY <1>2, <2>1, <2>4
  <2> HIDE DEF e, y
  <2>6. SoundEpisode(e, e.gen) /\ SoundEpisode(e, generation)
    BY <1>2, <2>2, <2>3 DEF SoundEpisode, Episode
  <2>7. episode' = e /\ generation' = generation
    BY <1>2, <2>1, <2>3, <2>6 DEF SetEpisode, SoundEpisode, Episode
  <2>8. Sound(y, generation) /\ Weight(y) = Weight(exec[s])
    BY <1>1, <1>2, <2>4 DEF Sound, Weight, HoldsSlot
  <2>9. Placed(e, y, s)
    <3>1. s \notin e.waiters /\ ~y.failed
      BY <1>2, <2>2, <2>3, <2>4 DEF Placed, Leads
    <3> QED BY <2>2, <2>3, <2>4, <3>1 DEF Placed, Leads
  <2>10. OthersStay(e, generation, exec', s)
    <3> SUFFICES ASSUME NEW t \in Sessions, t # s
                 PROVE  /\ Sound(exec[t], generation) /\ Placed(e, exec[t], t)
                        /\ SameSlots(exec[t], exec[t])
      BY <1>2, <2>1 DEF OthersStay
    <3>1. Sound(exec[t], generation) /\ Placed(episode, exec[t], t)
      BY DEF IInv
    <3>2. Waits(episode, exec[t]) => Waits(e, exec[t])
      BY <2>3 DEF Waits
    <3>3. Placed(e, exec[t], t)
      BY <2>2, <2>3, <3>1, <3>2 DEF Placed
    <3> QED BY <3>1, <3>3 DEF SameSlots
  <2>11. free' + Weight(exec'[s]) = free + Weight(exec[s])
    BY <1>1, <2>5, <2>8
  <2> QED BY <1>1, <1>2, <2>3, <2>5, <2>6, <2>7, <2>8, <2>9, <2>10, <2>11, StepKeeps
<1>4. CASE ~(SleepsAsLeader(s) /\ episode.terminal = "unset")
  <2>1. ToGate(s, episode, exec)
    BY <1>4 DEF Wake
  <2>2. ~SleepsAsLeader(s)
    BY <1>2, <1>4 DEF SleepsAsLeader, SoundEpisode
  <2> QED BY <1>1, <2>1, <2>2, WaiterStep
<1> QED BY <1>3, <1>4

\* The probe is given up: somebody else will lead (admission.py:644-658).
LEMMA AbandonedIs ==
    ASSUME IInv, NEW s \in Sessions, Matches(episode, s, exec[s].permit),
           NEW ep, ep = Abandoned(episode, s, exec[s].permit)
    PROVE  /\ ep \in Episode /\ ep # episode /\ ep.open /\ ep.leader = None /\ ~ep.probe
           /\ ep.gen = episode.gen /\ ep.waiters = episode.waiters /\ ep.terminal = "unset"
           /\ SoundEpisode(ep, ep.gen) /\ SoundEpisode(ep, generation)
           /\ OthersStay(ep, generation, Notified(exec, TRUE), s)
           /\ s \notin ep.waiters
<1>1. /\ episode.open /\ episode.leader = s /\ episode.probe /\ episode.terminal = "unset"
      /\ episode.gen >= 1 /\ episode.gen <= generation
      /\ episode \in Episode /\ generation \in Nat /\ s # None /\ s \notin episode.waiters
  BY MatchesIs
<1>2. ep = [episode EXCEPT !.leader = None, !.probe = FALSE, !.ready = TRUE]
  BY DEF Abandoned
<1>3. /\ ep \in Episode /\ ep.open /\ ep.leader = None /\ ~ep.probe
      /\ ep.gen = episode.gen /\ ep.waiters = episode.waiters /\ ep.terminal = "unset"
  BY <1>1, <1>2 DEF Episode
<1>4. ep # episode
  BY <1>1, <1>3
<1>5. SoundEpisode(ep, ep.gen) /\ SoundEpisode(ep, generation)
  BY <1>1, <1>3 DEF SoundEpisode, Episode
<1>6. OthersStay(ep, generation, Notified(exec, TRUE), s)
  <2>1. /\ ep.open => ep.leader \in {None, s}
        /\ \A t \in Sessions : t # s =>
              /\ t \in ep.waiters => t \in episode.waiters /\ ep.gen = episode.gen
              /\ ep.open /\ ep.terminal = "unset" /\ ep.gen = exec[t].permit =>
                   /\ episode.open /\ episode.terminal = "unset" /\ episode.gen = ep.gen
                   /\ t \in episode.waiters => t \in ep.waiters
    BY <1>1, <1>3
  <2>2. generation >= generation
    BY <1>1
  <2> QED BY <1>1, <1>3, <2>1, <2>2, OthersNotified
<1> QED BY <1>1, <1>3, <1>4, <1>5, <1>6

\* A permit that went stale brings its execution back to the gate (admission.py:262-273).
LEMMA StaleStep ==
    ASSUME IInv, NEW s \in Sessions, exec[s].phase \in {"rate", "slot"}, StalePermit(s),
           UNCHANGED free
    PROVE  IInv'
<1>1. /\ episode \in Episode /\ generation \in Nat /\ SoundEpisode(episode, episode.gen)
      /\ exec \in [Sessions -> Exec] /\ exec[s] \in Exec /\ free \in Int /\ free >= 0
      /\ Sound(exec[s], generation)
  BY DEF IInv, TypeOK, SoundEpisode, Episode
<1>2. /\ ~exec[s].abandoning /\ ~exec[s].lost /\ ~exec[s].failed
      /\ exec[s].accepted => exec[s].resolved
      /\ exec[s].permit <= generation /\ s \notin episode.waiters
      /\ exec[s].attempts < MaxAttempts
  BY <1>1, ProberMatches DEF Sound
<1>3. Weight(exec[s]) = Bit(exec[s].outer)
  BY <1>2 DEF Weight, HoldsSlot, Bit
<1>4. PICK ep : ep = Abandoned(episode, s, exec[s].permit)
  OBVIOUS
<1>5. ToGate(s, ep, Notified(exec, ep # episode))
  BY <1>4 DEF StalePermit
<1>6. CASE Matches(episode, s, exec[s].permit)
  <2>1. /\ ep \in Episode /\ ep # episode /\ ep.leader = None
        /\ SoundEpisode(ep, ep.gen) /\ s \notin ep.waiters
        /\ OthersStay(ep, generation, Notified(exec, TRUE), s)
    BY <1>4, <1>6, AbandonedIs
  <2>2. PICK ex : ex = Notified(exec, TRUE)
    OBVIOUS
  <2>3. ex \in [Sessions -> Exec] /\ ex[s] = exec[s]
    BY <1>1, <2>2, NotifiedIs
  <2>4. ToGate(s, ep, ex)
    BY <1>5, <2>1, <2>2
  <2>5. Arrives(ep, ex[s], s)
    BY <1>2, <2>1, <2>3, AdmissionAssumption DEF Arrives
  <2> QED BY <1>1, <1>2, <1>3, <2>1, <2>2, <2>3, <2>4, <2>5, GateKeeps
<1>7. CASE ~Matches(episode, s, exec[s].permit)
  <2>1. ep = episode
    BY <1>4, <1>7 DEF Abandoned
  <2>2. ToGate(s, episode, exec)
    BY <1>1, <1>5, <2>1, NotifiedIs
  <2>3. Arrives(episode, exec[s], s)
    BY <1>2, <1>7, ProberMatches DEF Arrives
  <2> QED BY <1>1, <1>2, <1>3, <2>2, <2>3, OthersSame, GateKeeps
<1> QED BY <1>6, <1>7

\* A step of s alone from a phase with a permit or an attempt to another one.
LEMMA OnwardStep ==
    ASSUME IInv, NEW s \in Sessions, NEW p, NEW n \in 0..MaxAttempts,
           \/ exec[s].phase = "rate" /\ p = "slot" /\ n = exec[s].attempts
           \/ exec[s].phase = "slot" /\ p = "open"
           \/ exec[s].phase = "open" /\ p = "stream" /\ n = exec[s].attempts,
           exec' = [exec EXCEPT ![s].phase = p, ![s].attempts = n],
           UNCHANGED <<episode, generation>>, free' \in Int, free' >= 0,
           free' = IF p = "open" THEN free - 1 ELSE free
    PROVE  IInv'
<1> DEFINE x == exec[s]  y == exec'[s]
<1>1. /\ x \in Exec /\ exec \in [Sessions -> Exec] /\ free \in Int
      /\ Sound(x, generation) /\ Placed(episode, x, s)
  BY DEF IInv, TypeOK
<1>2. p \in Phase
  BY DEF Phase
<1>3. /\ y = [x EXCEPT !.phase = p, !.attempts = n]
      /\ exec' \in [Sessions -> Exec] /\ \A t \in Sessions : t # s => exec'[t] = exec[t]
  BY <1>1, <1>2 DEF Exec
<1>4. /\ y.phase = p /\ y.attempts = n /\ y.permit = x.permit /\ y.failed = x.failed
      /\ y.accepted = x.accepted /\ y.resolved = x.resolved /\ y.again = x.again
      /\ y.abandoning = x.abandoning /\ y.lost = x.lost /\ y.outer = x.outer
  BY <1>1, <1>3 DEF Exec
<1>5. /\ episode.open /\ episode.leader = s => Matches(episode, s, x.permit)
      /\ s \notin episode.waiters /\ ~x.abandoning /\ ~x.lost /\ ~x.failed
  BY ProberMatches
<1> HIDE DEF x, y
<1>6. Sound(y, generation)
  BY <1>1, <1>4 DEF Sound, x
<1>7. Placed(episode, y, s)
  <2>1. ~y.resolved
    BY <1>1, <1>4 DEF Sound, x
  <2> QED BY <1>4, <1>5, <2>1 DEF Placed, Leads, HoldsSlot, Matches
<1>8. free' + Weight(y) = free + Weight(x)
  <2>1. Bit(y.outer) = Bit(x.outer) /\ Bit(y.lost) = Bit(x.lost)
        /\ Bit(x.outer) \in Nat /\ Bit(x.lost) \in Nat
    BY <1>4 DEF Bit
  <2>2. Bit(HoldsSlot(y)) = Bit(HoldsSlot(x)) + (IF p = "open" THEN 1 ELSE 0)
    BY <1>4 DEF HoldsSlot, Bit, x
  <2>3. Bit(HoldsSlot(x)) \in Nat
    BY DEF Bit
  <2> QED BY <1>1, <2>1, <2>2, <2>3 DEF Weight
<1> QED BY <1>3, <1>6, <1>7, <1>8, SoloStep DEF x, y

\* acquire_if has capacity (admission.py:260-265).
LEMMA PassRateStep == ASSUME IInv, NEW s \in Sessions, PassRate(s) PROVE IInv'
<1>1. exec[s].phase = "rate" /\ free' = free /\ free \in Int /\ free >= 0
      /\ exec \in [Sessions -> Exec] /\ exec[s].attempts \in 0..MaxAttempts
  BY DEF PassRate, IInv, TypeOK, Exec
<1>2. CASE exec' = [exec EXCEPT ![s].phase = "slot"] /\ UNCHANGED <<episode, generation>>
  <2>1. PICK n : n = exec[s].attempts
    OBVIOUS
  <2>2. n \in 0..MaxAttempts /\ exec' = [exec EXCEPT ![s].phase = "slot", ![s].attempts = n]
    BY <1>1, <1>2, <2>1 DEF Exec
  <2>3. free' \in Int /\ free' >= 0 /\ free' = IF "slot" = "open" THEN free - 1 ELSE free
    BY <1>1
  <2> QED BY <1>1, <1>2, <2>1, <2>2, <2>3, OnwardStep
<1>3. CASE StalePermit(s)
  BY <1>1, <1>3, StaleStep
<1> QED BY <1>2, <1>3 DEF PassRate

\* The semaphore hands a slot over (admission.py:266-275).
LEMMA TakeSlotStep == ASSUME IInv, NEW s \in Sessions, TakeSlot(s) PROVE IInv'
<1>1. exec[s].phase = "slot" /\ free > 0 /\ free \in Int
      /\ exec \in [Sessions -> Exec] /\ exec[s].attempts \in 0..MaxAttempts
      /\ Sound(exec[s], generation) /\ MaxAttempts \in Nat
  BY AdmissionAssumption DEF TakeSlot, IInv, TypeOK, Exec
<1>2. CASE /\ exec' = [exec EXCEPT ![s].phase = "open", ![s].attempts = @ + 1]
           /\ free' = free - 1 /\ UNCHANGED <<episode, generation>>
  <2>1. exec[s].attempts + 1 \in 0..MaxAttempts
    BY <1>1 DEF Sound
  <2>2. exec' = [exec EXCEPT ![s].phase = "open", ![s].attempts = exec[s].attempts + 1]
    BY <1>1, <1>2 DEF Exec
  <2>3. free' \in Int /\ free' >= 0
    BY <1>1, <1>2
  <2> QED BY <1>1, <1>2, <2>1, <2>2, <2>3, OnwardStep
<1>3. CASE StalePermit(s) /\ UNCHANGED free
  BY <1>1, <1>3, StaleStep
<1> QED BY <1>2, <1>3 DEF TakeSlot

-----------------------------------------------------------------------------
(* The attempt *)

\* The upstream answers with a stream (openai_chat/provider.py:189-236).
LEMMA StreamOpensStep == ASSUME IInv, NEW s \in Sessions, StreamOpens(s) PROVE IInv'
<1>1. exec[s].phase = "open" /\ free' = free /\ free \in Int /\ free >= 0
      /\ exec \in [Sessions -> Exec] /\ exec[s].attempts \in 0..MaxAttempts
      /\ UNCHANGED <<episode, generation>>
  BY DEF StreamOpens, IInv, TypeOK, Exec
<1>2. PICK n : n = exec[s].attempts
  OBVIOUS
<1>3. n \in 0..MaxAttempts /\ exec' = [exec EXCEPT ![s].phase = "stream", ![s].attempts = n]
  BY <1>1, <1>2 DEF StreamOpens, Exec
<1>4. /\ \/ exec[s].phase = "rate" /\ "stream" = "slot" /\ n = exec[s].attempts
         \/ exec[s].phase = "slot" /\ "stream" = "open"
         \/ exec[s].phase = "open" /\ "stream" = "stream" /\ n = exec[s].attempts
      /\ free' \in Int /\ free' >= 0 /\ free' = IF "stream" = "open" THEN free - 1 ELSE free
      /\ UNCHANGED <<episode, generation>>
  BY <1>1, <1>2
<1> QED BY <1>3, <1>4, OnwardStep

\* An attempt is resolved, leaving the episode ep and the executions ex, when s hands over
\* what it holds: it goes back to the gate, or ends without leading anybody.
LEMMA ResolveStep ==
    ASSUME IInv, NEW s \in Sessions, exec[s].phase \in {"open", "stream"},
           NEW ep \in Episode, SoundEpisode(ep, ep.gen),
           NEW ex \in [Sessions -> Exec], OthersStay(ep, generation, ex, s),
           NEW again \in BOOLEAN, Resolved(s, ep, ex, again),
           ex[s] = [exec[s] EXCEPT !.failed = ex[s].failed],
           ep.open /\ ep.leader = s => again /\ ~ep.probe /\ ~ex[s].failed,
           s \notin ep.waiters \/ (again /\ ep.leader # s /\ ~ex[s].failed),
           again => CanAttempt(s)
    PROVE  IInv'
<1> DEFINE x == exec[s]  z == ex[s]
<1>1. /\ x \in Exec /\ z \in Exec /\ generation \in Nat /\ free \in Int /\ free >= 0
      /\ exec \in [Sessions -> Exec] /\ MaxAttempts \in Nat
  BY AdmissionAssumption DEF IInv, TypeOK
<1>2. /\ z.phase = x.phase /\ z.permit = x.permit /\ z.accepted = x.accepted
      /\ z.resolved = x.resolved /\ z.outer = x.outer /\ z.abandoning = x.abandoning
      /\ z.lost = x.lost /\ z.attempts = x.attempts
  BY <1>1 DEF Exec
<1>3. /\ ~x.abandoning /\ ~x.lost /\ (x.accepted => x.resolved) /\ x.permit <= generation
  BY ProberMatches
<1>4. Bit(x.lost) = 0 /\ Bit(HoldsSlot(x)) = 1 /\ Bit(x.outer) \in Nat
  BY <1>3 DEF HoldsSlot, Bit
<1>5. Weight(x) = Bit(x.outer) + 1
  BY <1>4 DEF Weight
<1>6. CASE x.phase = "stream"
  <2> DEFINE y == [z EXCEPT !.phase = "closing", !.resolved = TRUE, !.again = again]
  <2>1. SetEpisode(ep) /\ exec' = [ex EXCEPT ![s] = y] /\ free' = free
    BY <1>1, <1>6 DEF Resolved
  <2>2. episode' = ep /\ generation' \in Nat /\ generation' >= generation
        /\ SoundEpisode(ep, generation')
    BY <2>1, SetEpisodeIs
  <2>3. /\ y \in Exec /\ y.phase = "closing" /\ y.resolved /\ y.again = again
        /\ y.permit = x.permit /\ y.outer = x.outer /\ ~y.abandoning /\ ~y.lost
        /\ y.attempts = x.attempts /\ y.failed = z.failed
    BY <1>1, <1>2, <1>3 DEF Exec, Phase
  <2>4. exec' \in [Sessions -> Exec] /\ exec'[s] = y /\ \A t \in Sessions : t # s => exec'[t] = ex[t]
    BY <2>1, <2>3
  <2> HIDE DEF y
  <2>5. OthersStay(ep, generation', exec', s)
    BY <1>1, <2>2, <2>4, SoundLater DEF OthersStay
  <2>6. Sound(y, generation')
    <3>1. y.permit <= generation'
      BY <1>1, <1>3, <2>2, <2>3 DEF Exec
    <3>2. y.again => y.attempts < MaxAttempts
      BY <2>3 DEF CanAttempt
    <3> QED BY <2>3, <3>1, <3>2 DEF Sound
  <2>7. Placed(ep, y, s)
    <3> HIDE DEF x, z
    <3>1. ep.open /\ ep.leader = s => Leads(ep, y) /\ s \notin ep.waiters
      BY <2>3 DEF Leads, z
    <3>2. s \in ep.waiters => Waits(ep, y)
      BY <2>3 DEF Waits, z
    <3> QED BY <2>3, <3>1, <3>2 DEF Placed
  <2>8. free' + Weight(y) = free + Weight(x)
    <3>1. Bit(HoldsSlot(y)) = 1 /\ Bit(y.outer) = Bit(x.outer) /\ Bit(y.lost) = 0
      BY <2>3 DEF HoldsSlot, Bit
    <3> QED BY <1>1, <1>4, <1>5, <2>1, <3>1 DEF Weight
  <2> HIDE DEF x, z
  <2>9. free' \in Int /\ free' >= 0
    BY <1>1, <2>1
  <2>10. episode' \in Episode
    BY <2>2
  <2> QED BY <2>2, <2>4, <2>5, <2>6, <2>7, <2>8, <2>9, <2>10, StepKeeps DEF x
<1>7. CASE x.phase # "stream" /\ again
  <2>1. ToGate(s, ep, ex) /\ free' = free + 1
    BY <1>7 DEF Resolved
  <2>2. Arrives(ep, z, s)
    BY <1>2, <1>3, <1>7 DEF Arrives, CanAttempt
  <2>3. free' \in Int /\ free' >= 0 /\ free' + Bit(z.outer) = free + Weight(x)
    BY <1>1, <1>2, <1>4, <1>5, <2>1
  <2>4. z.permit <= generation
    BY <1>2, <1>3
  <2> QED BY <2>1, <2>2, <2>3, <2>4, GateKeeps
<1>8. CASE x.phase # "stream" /\ ~again
  <2>1. SetEpisode(ep) /\ exec' = [ex EXCEPT ![s] = Ended(z)] /\ free' = free + 1
    BY <1>1, <1>8 DEF Resolved
  <2>2. episode' = ep /\ generation' \in Nat /\ generation' >= generation
        /\ SoundEpisode(ep, generation')
    BY <2>1, SetEpisodeIs
  <2>3. Ended(z) \in Exec /\ Weight(Ended(z)) = Bit(x.outer)
    <3>1. Ended(z) \in Exec /\ Weight(Ended(z)) = Bit(z.outer) + Bit(z.lost)
      BY <1>1, EndedIs
    <3>2. Bit(z.outer) = Bit(x.outer) /\ Bit(z.lost) = Bit(x.lost)
      BY <1>2
    <3> QED BY <1>4, <3>1, <3>2
  <2>4. exec' \in [Sessions -> Exec] /\ exec'[s] = Ended(z)
        /\ \A t \in Sessions : t # s => exec'[t] = ex[t]
    BY <2>1, <2>3
  <2>5. OthersStay(ep, generation', exec', s)
    BY <1>1, <2>2, <2>4, SoundLater DEF OthersStay
  <2>6. z.permit <= generation' /\ (z.accepted => z.resolved)
    BY <1>1, <1>2, <1>3, <2>2 DEF Exec
  <2> HIDE DEF x, z
  <2>7. Sound(Ended(z), generation') /\ Placed(ep, Ended(z), s)
    BY <1>1, <1>8, <2>2, <2>6, EndedPlaced
  <2>8. free' + Weight(exec'[s]) = free + Weight(x) /\ free' \in Int /\ free' >= 0
    BY <1>1, <1>4, <1>5, <2>1, <2>3, <2>4
  <2>9. /\ episode' \in Episode /\ Sound(exec'[s], generation') /\ Placed(episode', exec'[s], s)
        /\ SoundEpisode(episode', generation') /\ OthersStay(episode', generation', exec', s)
    BY <2>2, <2>4, <2>5, <2>7
  <2> QED BY <2>2, <2>4, <2>8, <2>9, StepKeeps DEF x
<1> QED BY <1>6, <1>7, <1>8

\* The outcome of a probe closes the episode and wakes everybody (admission.py:413-425, 452-465).
LEMMA ProbeClosedIs ==
    ASSUME IInv, NEW s \in Sessions, exec[s].phase \in {"open", "stream"},
           NEW ep, ep = ProbeClosed(s), NEW ex, ex = Notified(exec, ep # episode)
    PROVE  /\ ep \in Episode /\ SoundEpisode(ep, ep.gen)
           /\ ex \in [Sessions -> Exec] /\ ex[s] = exec[s]
           /\ OthersStay(ep, generation, ex, s)
           /\ ~(ep.open /\ ep.leader = s) /\ s \notin ep.waiters
<1>1. exec \in [Sessions -> Exec] /\ episode \in Episode /\ generation \in Nat
      /\ SoundEpisode(episode, episode.gen)
  BY DEF IInv, TypeOK, SoundEpisode, Episode
<1>2. ex \in [Sessions -> Exec] /\ ex[s] = exec[s]
  BY <1>1, NotifiedIs
<1>3. CASE Matches(episode, s, exec[s].permit)
  <2>1. ep = NoEpisode /\ episode.open
    BY <1>3, MatchesIs DEF ProbeClosed
  <2>2. /\ ep \in Episode /\ ~ep.open /\ ep.waiters = {} /\ ~ep.probe /\ ep.terminal = "unset"
    BY <2>1 DEF NoEpisode, Episode
  <2>3. ex = Notified(exec, TRUE)
    BY <2>1, <2>2
  <2>4. SoundEpisode(ep, ep.gen)
    BY <2>1, <2>2 DEF SoundEpisode
  <2>5. generation >= generation
    BY <1>1
  <2>6. OthersStay(ep, generation, Notified(exec, TRUE), s)
    BY <1>1, <2>2, <2>5, OthersNotified
  <2> QED BY <1>2, <2>2, <2>3, <2>4, <2>6
<1>4. CASE ~Matches(episode, s, exec[s].permit)
  <2>1. ep = episode
    BY <1>4 DEF ProbeClosed
  <2>2. ex = exec
    BY <1>1, <2>1, NotifiedIs
  <2>3. ~(episode.open /\ episode.leader = s) /\ s \notin episode.waiters
    BY <1>4, ProberMatches
  <2> QED BY <1>1, <2>1, <2>2, <2>3, OthersSame
<1> QED BY <1>3, <1>4

\* Only the record of s changes, or nothing of it.
LEMMA FailedOnly ==
    ASSUME NEW x \in Exec, NEW b \in BOOLEAN, NEW y, y = [x EXCEPT !.failed = b]
    PROVE  /\ y \in Exec /\ y = [x EXCEPT !.failed = y.failed] /\ y.failed = b
           /\ y.phase = x.phase /\ y.lost = x.lost /\ y.outer = x.outer /\ y.permit = x.permit
           /\ x = [x EXCEPT !.failed = x.failed]
BY DEF Exec

\* An error that is not retryable ends the attempt (admission.py:452-475).
LEMMA RejectStep == ASSUME IInv, NEW s \in Sessions, Reject(s) PROVE IInv'
<1>1. PICK ep : ep = ProbeClosed(s)
  OBVIOUS
<1>2. PICK ex : ex = Notified(exec, ep # episode)
  OBVIOUS
<1>3. exec[s].phase \in {"open", "stream"} /\ Resolved(s, ep, ex, FALSE) /\ exec[s] \in Exec
  BY <1>1, <1>2 DEF Reject, InAttempt, IInv, TypeOK
<1>4. /\ ep \in Episode /\ SoundEpisode(ep, ep.gen)
      /\ ex \in [Sessions -> Exec] /\ ex[s] = exec[s]
      /\ OthersStay(ep, generation, ex, s)
      /\ ~(ep.open /\ ep.leader = s) /\ s \notin ep.waiters
  BY <1>1, <1>2, <1>3, ProbeClosedIs
<1>5. ex[s] = [exec[s] EXCEPT !.failed = ex[s].failed]
  <2>1. exec[s].failed \in BOOLEAN
    BY <1>3 DEF Exec
  <2> QED BY <1>3, <1>4, <2>1, FailedOnly
<1>6. FALSE \in BOOLEAN /\ (FALSE => CanAttempt(s))
  OBVIOUS
<1> QED BY <1>3, <1>4, <1>5, <1>6, ResolveStep

\* The first chunk of the stream is the success of the attempt (admission.py:120-126, 413-425).
LEMMA AcceptStep == ASSUME IInv, NEW s \in Sessions, Accept(s) PROVE IInv'
<1>1. PICK ep : ep = ProbeClosed(s)
  OBVIOUS
<1>2. PICK ex : ex = Notified(exec, ep # episode)
  OBVIOUS
<1>3. /\ exec[s].phase = "stream" /\ SetEpisode(ep) /\ free' = free
      /\ exec' = [ex EXCEPT ![s].resolved = TRUE, ![s].accepted = TRUE]
      /\ exec[s] \in Exec /\ free \in Int /\ free >= 0 /\ generation \in Nat
      /\ Sound(exec[s], generation)
  BY <1>1, <1>2 DEF Accept, IInv, TypeOK
<1>4. /\ ep \in Episode /\ SoundEpisode(ep, ep.gen)
      /\ ex \in [Sessions -> Exec] /\ ex[s] = exec[s]
      /\ OthersStay(ep, generation, ex, s)
      /\ ~(ep.open /\ ep.leader = s) /\ s \notin ep.waiters
  BY <1>1, <1>2, <1>3, ProbeClosedIs
<1>5. episode' = ep /\ generation' \in Nat /\ generation' >= generation
      /\ SoundEpisode(ep, generation')
  BY <1>3, <1>4, SetEpisodeIs
<1>6. PICK y : y = [exec[s] EXCEPT !.resolved = TRUE, !.accepted = TRUE]
  OBVIOUS
<1>7. /\ y \in Exec /\ y.phase = "stream" /\ y.resolved /\ y.accepted
      /\ y.permit = exec[s].permit /\ y.outer = exec[s].outer /\ y.lost = exec[s].lost
      /\ y.abandoning = exec[s].abandoning /\ y.failed = exec[s].failed
  BY <1>3, <1>6 DEF Exec
<1>8. exec' \in [Sessions -> Exec] /\ exec'[s] = y
      /\ \A t \in Sessions : t # s => exec'[t] = ex[t]
  BY <1>3, <1>4, <1>6, <1>7
<1>9. Sound(y, generation')
  <2>1. y.permit <= generation'
    BY <1>3, <1>5, <1>7 DEF Sound, Exec
  <2> QED BY <1>3, <1>7, <2>1 DEF Sound
<1>10. Placed(ep, y, s)
  BY <1>4, <1>7 DEF Placed
<1>11. OthersStay(ep, generation', exec', s)
  BY <1>3, <1>4, <1>5, <1>8, SoundLater DEF OthersStay
<1>12. Weight(y) = Weight(exec[s])
  BY <1>3, <1>7 DEF Weight, HoldsSlot
<1>13. free' \in Int /\ free' >= 0 /\ free' + Weight(exec'[s]) = free + Weight(exec[s])
  BY <1>3, <1>8, <1>12
<1>14. /\ episode' \in Episode /\ Sound(exec'[s], generation') /\ Placed(episode', exec'[s], s)
       /\ SoundEpisode(episode', generation') /\ OthersStay(episode', generation', exec', s)
  BY <1>4, <1>5, <1>8, <1>9, <1>10, <1>11
<1> QED BY <1>5, <1>8, <1>13, <1>14, StepKeeps
\* A probe that is to be tried again leaves its execution the leader, and wakes the others.
LEMMA ProbeAgainIs ==
    ASSUME IInv, NEW s \in Sessions, Matches(episode, s, exec[s].permit), NEW b \in BOOLEAN,
           NEW ep, ep = [episode EXCEPT !.probe = FALSE, !.ready = b]
    PROVE  /\ ep \in Episode /\ SoundEpisode(ep, ep.gen)
           /\ OthersStay(ep, generation, Notified(exec, TRUE), s)
           /\ ~ep.probe /\ s \notin ep.waiters
<1>1. /\ episode.open /\ episode.leader = s /\ episode.probe /\ episode.terminal = "unset"
      /\ episode.gen >= 1 /\ episode.gen <= generation
      /\ episode \in Episode /\ generation \in Nat /\ s # None /\ s \notin episode.waiters
  BY MatchesIs
<1>2. /\ ep \in Episode /\ ep.open /\ ep.leader = s /\ ~ep.probe
      /\ ep.gen = episode.gen /\ ep.waiters = episode.waiters /\ ep.terminal = "unset"
  BY <1>1 DEF Episode
<1>3. SoundEpisode(ep, ep.gen)
  BY <1>1, <1>2 DEF SoundEpisode, Episode
<1>4. /\ ep.open => ep.leader \in {None, s}
      /\ \A t \in Sessions : t # s =>
            /\ t \in ep.waiters => t \in episode.waiters /\ ep.gen = episode.gen
            /\ ep.open /\ ep.terminal = "unset" /\ ep.gen = exec[t].permit =>
                 /\ episode.open /\ episode.terminal = "unset" /\ episode.gen = ep.gen
                 /\ t \in episode.waiters => t \in ep.waiters
  BY <1>1, <1>2
<1>5. generation >= generation
  BY <1>1
<1>6. OthersStay(ep, generation, Notified(exec, TRUE), s)
  BY <1>1, <1>2, <1>4, <1>5, OthersNotified
<1> QED BY <1>1, <1>2, <1>3, <1>6

\* The request is corrected and sent again (admission.py:437-450).
LEMMA CorrectStep == ASSUME IInv, NEW s \in Sessions, Correct(s) PROVE IInv'
<1>1. exec[s].phase \in {"open", "stream"} /\ CanAttempt(s) /\ exec[s] \in Exec
      /\ exec \in [Sessions -> Exec] /\ episode \in Episode
      /\ SoundEpisode(episode, episode.gen)
  BY DEF Correct, IInv, TypeOK, SoundEpisode, Episode
<1>2. ~exec[s].failed /\ exec[s].failed \in BOOLEAN
  BY <1>1, ProberMatches DEF Exec
<1>3. exec[s] = [exec[s] EXCEPT !.failed = exec[s].failed]
  BY <1>1, <1>2, FailedOnly
<1>4. TRUE \in BOOLEAN
  OBVIOUS
<1>5. CASE Matches(episode, s, exec[s].permit)
  <2>1. PICK ep : ep = [episode EXCEPT !.probe = FALSE, !.ready = TRUE]
    OBVIOUS
  <2>2. PICK ex : ex = Notified(exec, TRUE)
    OBVIOUS
  <2>3. Resolved(s, ep, ex, TRUE)
    <3>1. Resolved(s, [episode EXCEPT !.probe = FALSE, !.ready = TRUE],
                   Notified(exec, Matches(episode, s, exec[s].permit)), TRUE)
      BY <1>5 DEF Correct
    <3>2. Matches(episode, s, exec[s].permit) = TRUE
      BY <1>5 DEF Matches
    <3> QED BY <2>1, <2>2, <3>1, <3>2
  <2>4. ex \in [Sessions -> Exec] /\ ex[s] = exec[s]
    BY <1>1, <2>2, NotifiedIs
  <2>5. /\ ep \in Episode /\ SoundEpisode(ep, ep.gen) /\ OthersStay(ep, generation, ex, s)
        /\ ~ep.probe /\ s \notin ep.waiters
    BY <1>4, <1>5, <2>1, <2>2, ProbeAgainIs
  <2>6. ex[s] = [exec[s] EXCEPT !.failed = ex[s].failed] /\ ~ex[s].failed
    BY <1>2, <1>3, <2>4
  <2> QED BY <1>1, <1>4, <2>3, <2>4, <2>5, <2>6, ResolveStep
<1>6. CASE ~Matches(episode, s, exec[s].permit)
  <2>1. Resolved(s, episode, exec, TRUE)
    <3>1. Resolved(s, episode, Notified(exec, Matches(episode, s, exec[s].permit)), TRUE)
      BY <1>6 DEF Correct
    <3>2. Notified(exec, Matches(episode, s, exec[s].permit)) = exec
      BY <1>1, <1>6, NotifiedIs DEF Matches
    <3> QED BY <3>1, <3>2
  <2>2. ~(episode.open /\ episode.leader = s) /\ s \notin episode.waiters
    BY <1>1, <1>6, ProberMatches
  <2> QED BY <1>1, <1>3, <1>4, <2>1, <2>2, OthersSame, ResolveStep
<1> QED BY <1>5, <1>6

\* Everybody else is awake, or as before, when s has joined the episode or left it alone.
LEMMA OthersWoken ==
    ASSUME IInv, NEW s \in Sessions, NEW ep \in Episode,
           ep.open = episode.open, ep.leader = episode.leader, ep.gen = episode.gen,
           ep.probe = episode.probe, ep.terminal = episode.terminal,
           \A t \in Sessions : t # s => (t \in ep.waiters <=> t \in episode.waiters)
    PROVE  OthersStay(ep, generation, Notified(exec, TRUE), s)
<1> SUFFICES ASSUME NEW t \in Sessions, t # s
             PROVE  /\ Sound(Notified(exec, TRUE)[t], generation)
                    /\ Placed(ep, Notified(exec, TRUE)[t], t)
                    /\ SameSlots(exec[t], Notified(exec, TRUE)[t])
  BY DEF OthersStay
<1>1. exec \in [Sessions -> Exec] /\ exec[t] \in Exec
      /\ Sound(exec[t], generation) /\ Placed(episode, exec[t], t)
  BY DEF IInv, TypeOK
<1> DEFINE x == exec[t]  y == Notified(exec, TRUE)[t]
<1>2. CASE x.phase = "waiting"
  <2>1. y = [x EXCEPT !.phase = "woken"]
    BY <1>1, <1>2, NotifiedIs
  <2>2. /\ y.phase = "woken" /\ y.permit = x.permit /\ y.failed = x.failed /\ y.lost = x.lost
        /\ y.outer = x.outer /\ y.accepted = x.accepted /\ y.resolved = x.resolved
        /\ y.abandoning = x.abandoning /\ y.attempts = x.attempts
    BY <1>1, <2>1 DEF Exec
  <2> HIDE DEF x, y
  <2>3. Sound(y, generation) /\ SameSlots(x, y)
    BY <1>1, <1>2, <2>2 DEF Sound, SameSlots, HoldsSlot, x
  <2>4. t \in episode.waiters /\ episode.leader # t /\ Waits(episode, x)
        /\ episode.gen = x.permit
    BY <1>1, <1>2 DEF Placed, x
  <2>5. Placed(ep, y, t)
    BY <2>2, <2>4 DEF Placed, Waits
  <2> QED BY <2>3, <2>5 DEF x, y
<1>3. CASE x.phase # "waiting"
  <2>1. y = x
    BY <1>1, <1>3, NotifiedIs
  <2> HIDE DEF x, y
  <2>2. Placed(ep, x, t)
    BY <1>1, <1>3 DEF Placed, Waits, Leads, x
  <2> QED BY <1>1, <2>1, <2>2 DEF SameSlots, x, y
<1> QED BY <1>2, <1>3

\* What was said of the others does not depend on the record of s.
LEMMA OthersOnly ==
    ASSUME IInv, NEW s \in Sessions, NEW ep, NEW ex \in [Sessions -> Exec],
           \A t \in Sessions : t # s => ex[t] = exec[t],
           OthersStay(ep, generation, Notified(exec, TRUE), s)
    PROVE  OthersStay(ep, generation, Notified(ex, TRUE), s)
<1>1. \A t \in Sessions : t # s => Notified(ex, TRUE)[t] = Notified(exec, TRUE)[t]
  BY DEF Notified
<1> QED BY <1>1 DEF OthersStay

\* A failure with attempts left starts a recovery, puts the probe off, or joins the others
\* (admission.py:493-526, 602-626).
LEMMA FailAndRetryStep == ASSUME IInv, NEW s \in Sessions, FailAndRetry(s) PROVE IInv'
<1>1. exec[s].phase \in {"open", "stream"} /\ CanAttempt(s) /\ exec[s] \in Exec
      /\ exec \in [Sessions -> Exec] /\ episode \in Episode /\ generation \in Nat
      /\ SoundEpisode(episode, episode.gen) /\ s # None
  BY AdmissionAssumption DEF FailAndRetry, InAttempt, IInv, TypeOK, SoundEpisode, Episode
<1>2. ~exec[s].failed /\ s \notin episode.waiters
  BY <1>1, ProberMatches
<1>3. PICK b \in BOOLEAN : b <=> /\ episode.open /\ ~Matches(episode, s, exec[s].permit)
                                 /\ episode.terminal # "unset"
  OBVIOUS
<1>4. PICK y : y = [exec[s] EXCEPT !.failed = b]
  OBVIOUS
<1>5. PICK ex0 : ex0 = [exec EXCEPT ![s] = y]
  OBVIOUS
<1>6. PICK ex : ex = Notified(ex0, TRUE)
  OBVIOUS
<1>7. PICK ep : ep = FailedEpisode(s)
  OBVIOUS
<1>8. y \in Exec /\ y = [exec[s] EXCEPT !.failed = y.failed] /\ y.failed = b
      /\ y.phase = exec[s].phase
  BY <1>1, <1>4, FailedOnly
<1>9. ex0 \in [Sessions -> Exec] /\ ex0[s] = y
      /\ \A t \in Sessions : t # s => ex0[t] = exec[t]
  BY <1>1, <1>5, <1>8
<1>10. ex \in [Sessions -> Exec] /\ ex[s] = y
  BY <1>1, <1>6, <1>8, <1>9, NotifiedIs
<1>11. Resolved(s, ep, ex, TRUE)
  <2>1. ex0 = [exec EXCEPT ![s].failed =
                  @ \/ ((episode.open /\ ~Matches(episode, s, exec[s].permit))
                        /\ episode.terminal # "unset")]
    <3>1. (exec[s].failed \/ ((episode.open /\ ~Matches(episode, s, exec[s].permit))
                        /\ episode.terminal # "unset")) = b
      BY <1>2, <1>3
    <3> QED BY <1>1, <1>4, <1>5, <3>1
  <2> QED BY <1>6, <1>7, <2>1 DEF FailAndRetry
<1>12. OthersStay(ep, generation, Notified(exec, TRUE), s) =>
         OthersStay(ep, generation, ex, s)
  BY <1>6, <1>9, OthersOnly
<1>13. TRUE \in BOOLEAN
  OBVIOUS
<1>14. /\ ep \in Episode /\ SoundEpisode(ep, ep.gen)
       /\ OthersStay(ep, generation, Notified(exec, TRUE), s)
       /\ ep.open /\ ep.leader = s => ~ep.probe /\ ~ex[s].failed
       /\ s \notin ep.waiters \/ (ep.leader # s /\ ~ex[s].failed)
  <2>1. CASE ~episode.open
    <3>1. ep = [open |-> TRUE, gen |-> generation + 1, leader |-> s, ready |-> FALSE,
                waiters |-> {}, probe |-> FALSE, terminal |-> "unset"]
      BY <1>7, <2>1 DEF FailedEpisode, NewEpisode, NoEpisode, Matches
    <3>2. ep \in Episode /\ SoundEpisode(ep, ep.gen)
      BY <1>1, <3>1 DEF Episode, SoundEpisode
    <3>3. ep.leader = s /\ ep.waiters = {} /\ ~ep.probe /\ ep.gen = generation + 1
      BY <3>1
    <3> HIDE <3>1
    <3>4. \A t \in Sessions : exec[t].permit # generation + 1
      <4>1. \A t \in Sessions : exec[t].permit <= generation /\ exec[t].permit \in Nat
        BY DEF IInv, Sound, TypeOK, Exec
      <4> QED BY <1>1, <4>1
    <3>5. generation >= generation
      BY <1>1
    <3>6. OthersStay(ep, generation, Notified(exec, TRUE), s)
      BY <1>1, <3>2, <3>3, <3>4, <3>5, OthersNotified
    <3>7. ~ex[s].failed
      BY <1>3, <1>8, <1>10, <2>1
    <3> QED BY <3>2, <3>3, <3>6, <3>7
  <2>2. CASE Matches(episode, s, exec[s].permit)
    <3>1. episode.open
      BY <2>2, MatchesIs
    <3>2. ep = [episode EXCEPT !.probe = FALSE, !.ready = FALSE]
      BY <1>7, <2>2, <3>1 DEF FailedEpisode
    <3>3. FALSE \in BOOLEAN
      OBVIOUS
    <3>4. /\ ep \in Episode /\ SoundEpisode(ep, ep.gen)
          /\ OthersStay(ep, generation, Notified(exec, TRUE), s)
          /\ ~ep.probe /\ s \notin ep.waiters
      BY <2>2, <3>2, <3>3, ProbeAgainIs
    <3>5. ~ex[s].failed
      BY <1>3, <1>8, <1>10, <2>2
    <3> QED BY <3>4, <3>5
  <2>3. CASE episode.open /\ ~Matches(episode, s, exec[s].permit)
    <3>1. episode.leader # s
      BY <1>1, <2>3, ProberMatches
    <3>2. ep = IF episode.terminal = "unset" THEN [episode EXCEPT !.waiters = @ \cup {s}]
                                             ELSE episode
      BY <1>7, <2>3 DEF FailedEpisode
    <3>3. CASE episode.terminal = "unset"
      <4>1. /\ ep \in Episode /\ ep.open = episode.open /\ ep.leader = episode.leader
            /\ ep.gen = episode.gen /\ ep.probe = episode.probe
            /\ ep.terminal = episode.terminal /\ ep.waiters = episode.waiters \cup {s}
        BY <1>1, <3>2, <3>3 DEF Episode
      <4>2. SoundEpisode(ep, ep.gen)
        BY <1>1, <2>3, <3>3, <4>1 DEF SoundEpisode
      <4>3. OthersStay(ep, generation, Notified(exec, TRUE), s)
        BY <4>1, OthersWoken
      <4>4. ~ex[s].failed
        BY <1>3, <1>8, <1>10, <3>3
      <4> QED BY <3>1, <4>1, <4>2, <4>3, <4>4
    <3>4. CASE episode.terminal # "unset"
      <4>1. ep = episode
        BY <3>2, <3>4
      <4>2. OthersStay(episode, generation, Notified(exec, TRUE), s)
        BY <1>1, OthersWoken
      <4> QED BY <1>1, <1>2, <3>1, <4>1, <4>2
    <3> QED BY <3>3, <3>4
  <2> QED BY <2>1, <2>2, <2>3
<1>15. ex[s] = [exec[s] EXCEPT !.failed = ex[s].failed]
  BY <1>8, <1>10
<1> QED BY <1>1, <1>10, <1>11, <1>12, <1>13, <1>14, <1>15, ResolveStep
\* Everybody who waited is told, and nobody waits any more.
LEMMA OthersExhausted ==
    ASSUME IInv, NEW s \in Sessions, NEW ep \in Episode, ep.leader = None, ep.waiters = {},
           ep.terminal # "unset",
           NEW W \in SUBSET Sessions, W = {} \/ W = episode.waiters,
           exec[s].phase # "waiting"
    PROVE  LET ex == Notified(Exhausted(W), TRUE)
           IN  /\ ex \in [Sessions -> Exec] /\ OthersStay(ep, generation, ex, s)
               /\ ex[s] = [exec[s] EXCEPT !.failed = ex[s].failed]
<1> DEFINE ex0 == Exhausted(W)  ex == Notified(ex0, TRUE)
<1>1. \A t \in Sessions :
         /\ exec[t] \in Exec /\ Sound(exec[t], generation) /\ Placed(episode, exec[t], t)
         /\ t # None
  BY AdmissionAssumption DEF IInv, TypeOK
<1>2. ASSUME NEW t \in Sessions
      PROVE  \E c \in BOOLEAN : /\ c <=> exec[t].failed \/ t \in W
                                /\ ex0[t] = [exec[t] EXCEPT !.failed = c]
  <2>1. PICK c \in BOOLEAN : c = (exec[t].failed \/ t \in W)
    BY Zenon
  <2>2. ex0[t] = [exec[t] EXCEPT !.failed = c]
    BY <2>1, Zenon DEF Exhausted
  <2>3. c <=> exec[t].failed \/ t \in W
    BY <2>1, Zenon
  <2> QED BY <2>2, <2>3
<1>3. ASSUME NEW t \in Sessions
      PROVE  LET x == exec[t]  w == ex0[t]
             IN  /\ w \in Exec /\ w = [x EXCEPT !.failed = w.failed]
                 /\ w.failed <=> x.failed \/ t \in W
                 /\ w.phase = x.phase /\ w.permit = x.permit /\ w.lost = x.lost
                 /\ w.outer = x.outer /\ w.accepted = x.accepted /\ w.resolved = x.resolved
                 /\ w.abandoning = x.abandoning /\ w.attempts = x.attempts
                 /\ w.again = x.again
  <2>1. PICK c \in BOOLEAN : /\ c <=> exec[t].failed \/ t \in W
                             /\ ex0[t] = [exec[t] EXCEPT !.failed = c]
    BY <1>2
  <2> QED BY <1>1, <2>1 DEF Exec
<1>4. ex0 \in [Sessions -> Exec]
  BY <1>3 DEF Exhausted
<1> HIDE DEF ex0
<1>5. ex \in [Sessions -> Exec]
  BY <1>4, NotifiedIs
<1>6. \A t \in Sessions : ex[t] = IF ex0[t].phase = "waiting"
                                  THEN [ex0[t] EXCEPT !.phase = "woken"] ELSE ex0[t]
  BY <1>4, NotifiedIs
<1> HIDE DEF ex, ex0
<1>7. ex[s] = [exec[s] EXCEPT !.failed = ex[s].failed]
  <2>1. ex0[s] = [exec[s] EXCEPT !.failed = ex0[s].failed] /\ ex0[s].phase = exec[s].phase
    BY <1>3
  <2>2. ex[s] = ex0[s]
    BY <1>6, <2>1
  <2> QED BY <2>1, <2>2
<1>8. ASSUME NEW t \in Sessions, t # s
      PROVE  Sound(ex[t], generation) /\ Placed(ep, ex[t], t) /\ SameSlots(exec[t], ex[t])
  <2> DEFINE x == exec[t]  w == ex0[t]  y == ex[t]
  <2>1. /\ w.failed <=> x.failed \/ t \in W
        /\ w.phase = x.phase /\ w.permit = x.permit /\ w.lost = x.lost
        /\ w.outer = x.outer /\ w.accepted = x.accepted /\ w.resolved = x.resolved
        /\ w.abandoning = x.abandoning /\ w.attempts = x.attempts /\ w.again = x.again
    BY <1>3
  <2>2. /\ y.phase = IF x.phase = "waiting" THEN "woken" ELSE x.phase
        /\ y.failed = w.failed /\ y.permit = w.permit /\ y.lost = w.lost
        /\ y.outer = w.outer /\ y.accepted = w.accepted /\ y.resolved = w.resolved
        /\ y.abandoning = w.abandoning /\ y.attempts = w.attempts /\ y.again = w.again
    <3>1. w \in Exec /\ y = IF w.phase = "waiting" THEN [w EXCEPT !.phase = "woken"] ELSE w
      BY <1>3, <1>6
    <3> HIDE DEF x, y, w
    <3> QED BY <2>1, <3>1 DEF Exec
  <2>3. t \in W => Waits(episode, x)
    BY <1>1 DEF Placed
  <2>4. Sound(x, generation) /\ t # None
    BY <1>1
  <2> HIDE DEF x, y, w
  <2>5. y.failed => \/ y.phase \in {"waiting", "woken", "done"}
                    \/ y.phase = "closing" /\ y.resolved
    BY <2>1, <2>2, <2>3, <2>4 DEF Sound, Waits
  <2>6. /\ y.permit = x.permit /\ y.lost = x.lost /\ y.outer = x.outer
        /\ y.accepted = x.accepted /\ y.resolved = x.resolved
        /\ y.abandoning = x.abandoning /\ y.attempts = x.attempts /\ y.again = x.again
    BY <2>1, <2>2
  <2>7. Sound(y, generation)
    BY <2>2, <2>4, <2>5, <2>6 DEF Sound
  <2>8. Placed(ep, y, t)
    BY <2>2, <2>4 DEF Placed
  <2>9. SameSlots(x, y)
    BY <2>2, <2>6 DEF SameSlots, HoldsSlot
  <2> QED BY <2>7, <2>8, <2>9 DEF x, y
<1> QED BY <1>5, <1>7, <1>8 DEF OthersStay, ex, ex0

\* The budget is spent: the recovery of a probe, or one of its own, is over for everybody
\* who waited for it (admission.py:527-548).
LEMMA FailFinallyStep == ASSUME IInv, NEW s \in Sessions, FailFinally(s) PROVE IInv'
<1>1. exec[s].phase \in {"open", "stream"} /\ exec[s] \in Exec
      /\ exec \in [Sessions -> Exec] /\ episode \in Episode /\ generation \in Nat
      /\ SoundEpisode(episode, episode.gen) /\ s # None
  BY AdmissionAssumption DEF FailFinally, InAttempt, IInv, TypeOK, SoundEpisode, Episode
<1>2. ~exec[s].failed /\ s \notin episode.waiters /\ exec[s].failed \in BOOLEAN
  BY <1>1, ProberMatches DEF Exec
<1>3. FALSE \in BOOLEAN /\ (FALSE => CanAttempt(s))
  OBVIOUS
<1>4. exec[s] = [exec[s] EXCEPT !.failed = exec[s].failed]
  BY <1>1, <1>2, FailedOnly
<1>5. CASE ~episode.open \/ Matches(episode, s, exec[s].permit)
  <2>1. PICK ep0 : ep0 = IF episode.open THEN episode ELSE NewEpisode(generation + 1, None, TRUE)
    OBVIOUS
  <2>2. PICK ep : ep = [ep0 EXCEPT !.leader = None, !.probe = FALSE, !.waiters = {},
                                   !.terminal = "cooling"]
    OBVIOUS
  <2>3. PICK W : W = ep0.waiters
    OBVIOUS
  <2>5. PICK ex : ex = Notified(Exhausted(W), TRUE)
    OBVIOUS
  <2>6. Resolved(s, ep, ex, FALSE)
    BY <1>5, <2>1, <2>2, <2>3, <2>5 DEF FailFinally
  <2>7. /\ ep0 \in Episode /\ ep0.open /\ ep0.gen >= 1
        /\ ep0.waiters = {} \/ ep0.waiters = episode.waiters
    <3>1. CASE episode.open
      BY <1>1, <2>1, <3>1 DEF SoundEpisode
    <3>2. CASE ~episode.open
      <4>1. ep0 = [open |-> TRUE, gen |-> generation + 1, leader |-> None, ready |-> TRUE,
                   waiters |-> {}, probe |-> FALSE, terminal |-> "unset"]
        BY <2>1, <3>2 DEF NewEpisode, NoEpisode
      <4> QED BY <1>1, <4>1 DEF Episode
    <3> QED BY <3>1, <3>2
  <2>8. /\ ep \in Episode /\ ep.open /\ ep.gen >= 1 /\ ep.leader = None /\ ~ep.probe
        /\ ep.waiters = {} /\ ep.terminal = "cooling"
    BY <2>2, <2>7 DEF Episode
  <2>9. SoundEpisode(ep, ep.gen)
    BY <2>8 DEF SoundEpisode, Episode
  <2>10. /\ ex \in [Sessions -> Exec] /\ OthersStay(ep, generation, ex, s)
         /\ ex[s] = [exec[s] EXCEPT !.failed = ex[s].failed]
    <3>1. W \in SUBSET Sessions /\ (W = {} \/ W = episode.waiters) /\ ep \in Episode
      BY <2>3, <2>7, <2>8 DEF Episode
    <3>2. ep.terminal # "unset" /\ exec[s].phase # "waiting"
      BY <1>1, <2>8
    <3>3. ep.leader = None /\ ep.waiters = {}
      BY <2>8
    <3> QED BY <2>5, <3>1, <3>2, <3>3, OthersExhausted
  <2> QED BY <1>1, <1>3, <2>6, <2>8, <2>9, <2>10, ResolveStep
<1>6. CASE ~(~episode.open \/ Matches(episode, s, exec[s].permit))
  <2>1. Resolved(s, episode, exec, FALSE)
    BY <1>6 DEF FailFinally
  <2>2. ~(episode.open /\ episode.leader = s)
    BY <1>1, <1>6, ProberMatches
  <2> QED BY <1>1, <1>2, <1>3, <1>4, <2>1, <2>2, OthersSame, ResolveStep
<1> QED BY <1>5, <1>6
-----------------------------------------------------------------------------
(* The end of an attempt *)

\* A step of s that changes only its record, and no slot but its own.
LEMMA OwnStep ==
    ASSUME IInv, NEW s \in Sessions, NEW y \in Exec, exec' = [exec EXCEPT ![s] = y],
           UNCHANGED <<episode, generation, free>>, SameSlots(exec[s], y),
           Sound(y, generation), Placed(episode, y, s)
    PROVE  IInv'
<1>1. exec \in [Sessions -> Exec] /\ free \in Int /\ free >= 0
  BY DEF IInv, TypeOK
<1>2. exec' \in [Sessions -> Exec] /\ exec'[s] = y /\ \A t \in Sessions : t # s => exec'[t] = exec[t]
  BY <1>1
<1>3. Weight(y) = Weight(exec[s]) /\ Weight(y) \in Nat
  BY WeightIs DEF Weight, SameSlots, Bit
<1>4. free' \in Int /\ free' >= 0 /\ free' + Weight(exec'[s]) = free + Weight(exec[s])
  BY <1>1, <1>2, <1>3
<1>5. UNCHANGED <<episode, generation>> /\ Sound(exec'[s], generation)
      /\ Placed(episode, exec'[s], s)
  BY <1>2
<1> QED BY <1>2, <1>4, <1>5, SoloStep

\* An accepted stream has ended (openai_chat/provider.py:496-548).
LEMMA StreamEndsStep == ASSUME IInv, NEW s \in Sessions, StreamEnds(s) PROVE IInv'
<1>1. PICK again \in {FALSE, CanAttempt(s)} :
         exec' = [exec EXCEPT ![s].phase = "closing", ![s].again = again]
  BY DEF StreamEnds
<1>2. again \in BOOLEAN /\ (again => CanAttempt(s))
  <2>1. CASE again = FALSE
    BY <2>1
  <2>2. CASE again = CanAttempt(s)
    <3>1. exec[s].attempts \in Int /\ MaxAttempts \in Int
      BY AdmissionAssumption DEF IInv, TypeOK, Exec
    <3>2. CanAttempt(s) \in BOOLEAN
      BY <3>1 DEF CanAttempt
    <3>3. again \in BOOLEAN
      BY <2>2, <3>2, Zenon
    <3>4. again => CanAttempt(s)
      BY <2>2, Zenon
    <3> QED BY <3>3, <3>4
  <2> QED BY <1>1, <2>1, <2>2
<1>3. /\ exec[s].phase = "stream" /\ exec[s].accepted /\ UNCHANGED <<episode, generation, free>>
      /\ exec \in [Sessions -> Exec] /\ exec[s] \in Exec
      /\ Sound(exec[s], generation)
  BY DEF StreamEnds, IInv, TypeOK
<1>4. PICK y : y = [exec[s] EXCEPT !.phase = "closing", !.again = again]
  OBVIOUS
<1>5. exec' = [exec EXCEPT ![s] = y]
  BY <1>1, <1>3, <1>4
<1>6. /\ y \in Exec /\ y.phase = "closing" /\ y.again = again
      /\ y.permit = exec[s].permit /\ y.outer = exec[s].outer /\ y.lost = exec[s].lost
      /\ y.accepted = exec[s].accepted /\ y.resolved = exec[s].resolved
      /\ y.abandoning = exec[s].abandoning /\ y.failed = exec[s].failed
      /\ y.attempts = exec[s].attempts
  BY <1>2, <1>3, <1>4 DEF Exec, Phase
<1>7. /\ exec[s].resolved /\ ~exec[s].abandoning /\ ~exec[s].lost /\ ~exec[s].failed
      /\ ~(episode.open /\ episode.leader = s) /\ s \notin episode.waiters
  BY <1>3, ProberMatches
<1>8. Sound(y, generation)
  BY <1>2, <1>3, <1>6, <1>7 DEF Sound, CanAttempt
<1>9. Placed(episode, y, s) /\ SameSlots(exec[s], y)
  BY <1>3, <1>6, <1>7 DEF Placed, SameSlots, HoldsSlot
<1> QED BY <1>3, <1>5, <1>6, <1>8, <1>9, OwnStep

\* The continuation of a broken stream comes to the gate beside it
\* (openai_chat/provider.py:549-573).
LEMMA ContinueMidstreamStep ==
    ASSUME IInv, NEW s \in Sessions, ContinueMidstream(s) PROVE IInv'
<1>1. /\ exec[s].phase = "stream" /\ exec[s].accepted /\ ~exec[s].outer /\ CanAttempt(s)
      /\ free' = free /\ exec \in [Sessions -> Exec] /\ exec[s] \in Exec
      /\ free \in Int /\ free >= 0
      /\ episode \in Episode /\ SoundEpisode(episode, episode.gen)
  BY DEF ContinueMidstream, IInv, TypeOK, SoundEpisode, Episode
<1>2. PICK ex : ex = [exec EXCEPT ![s].outer = TRUE]
  OBVIOUS
<1>3. ToGate(s, episode, ex)
  BY <1>2 DEF ContinueMidstream
<1>4. /\ ex \in [Sessions -> Exec] /\ \A t \in Sessions : t # s => ex[t] = exec[t]
      /\ ex[s] = [exec[s] EXCEPT !.outer = TRUE]
  BY <1>1, <1>2 DEF Exec
<1>5. /\ ex[s].outer /\ ex[s].permit = exec[s].permit /\ ex[s].lost = exec[s].lost
      /\ ex[s].accepted = exec[s].accepted /\ ex[s].resolved = exec[s].resolved
      /\ ex[s].abandoning = exec[s].abandoning /\ ex[s].failed = exec[s].failed
      /\ ex[s].attempts = exec[s].attempts
  BY <1>1, <1>4 DEF Exec
<1>6. /\ exec[s].resolved
  BY <1>1, ProberMatches
<1>7. Arrives(episode, exec[s], s) /\ exec[s].permit <= generation
  BY <1>1, <1>6, ArrivesFrom
<1>8. Arrives(episode, ex[s], s) /\ ex[s].permit <= generation
  BY <1>5, <1>7 DEF Arrives
<1>9. OthersStay(episode, generation, ex, s)
  BY <1>4, OthersSame DEF OthersStay
<1>10. free' + Bit(ex[s].outer) = free + Weight(exec[s])
  <2>1. Bit(HoldsSlot(exec[s])) = 1 /\ Bit(exec[s].outer) = 0 /\ Bit(exec[s].lost) = 0
        /\ Bit(ex[s].outer) = 1
    BY <1>1, <1>5, <1>7 DEF HoldsSlot, Bit, Arrives
  <2> QED BY <1>1, <2>1 DEF Weight
<1>11. free' \in Int /\ free' >= 0
  BY <1>1
<1> QED BY <1>1, <1>3, <1>4, <1>8, <1>9, <1>10, <1>11, GateKeeps

\* An execution ends by itself, with the slot of its attempt if it has one.
LEMMA EndsAlone ==
    ASSUME IInv, NEW s \in Sessions, exec' = [exec EXCEPT ![s] = Ended(@)],
           UNCHANGED <<episode, generation>>,
           free' = IF HoldsSlot(exec[s]) THEN free + 1 ELSE free,
           episode.open /\ episode.leader = s =>
              (episode.probe /\ exec[s].abandoning) \/ exec[s].lost,
           s \in episode.waiters => exec[s].lost
    PROVE  IInv'
<1> DEFINE x == exec[s]
<1>1. /\ x \in Exec /\ exec \in [Sessions -> Exec] /\ free \in Int /\ free >= 0
      /\ episode \in Episode /\ generation \in Nat
      /\ Sound(x, generation) /\ Placed(episode, x, s)
  BY DEF IInv, TypeOK
<1>2. x.permit <= generation /\ (x.accepted => x.resolved)
  BY <1>1 DEF Sound
<1>3. episode.open /\ episode.leader = s =>
        /\ s \notin episode.waiters /\ ~x.failed
        /\ episode.probe => x.permit = episode.gen /\ (x.abandoning \/ x.lost)
        /\ ~episode.probe => x.lost
  BY <1>1 DEF Placed, Leads
<1>4. s \in episode.waiters => ~x.failed /\ x.lost
  BY <1>1 DEF Placed, Waits
<1>5. Ended(x) \in Exec /\ Weight(Ended(x)) = Bit(x.outer) + Bit(x.lost)
  BY <1>1, EndedIs
<1>6. exec' = [exec EXCEPT ![s] = Ended(x)]
  BY <1>1
<1> HIDE DEF x
<1>7. Sound(Ended(x), generation) /\ Placed(episode, Ended(x), s)
  BY <1>1, <1>2, <1>3, <1>4, EndedPlaced
<1>8. /\ exec' \in [Sessions -> Exec] /\ exec'[s] = Ended(x)
      /\ \A t \in Sessions : t # s => exec'[t] = exec[t]
  BY <1>1, <1>5, <1>6
<1>9. free' \in Int /\ free' >= 0 /\ free' + Weight(exec'[s]) = free + Weight(x)
  <2>1. free' = free + Bit(HoldsSlot(x)) /\ Bit(HoldsSlot(x)) \in Nat
        /\ Bit(x.outer) \in Nat /\ Bit(x.lost) \in Nat
    BY <1>1 DEF Bit, x
  <2> QED BY <1>1, <1>5, <1>8, <2>1 DEF Weight
<1>10. Sound(exec'[s], generation) /\ Placed(episode, exec'[s], s)
  BY <1>7, <1>8
<1> QED BY <1>8, <1>9, <1>10, SoloStep DEF x

\* The stream is closed: back to the gate, the end, or the release of a cut attempt
\* (anthropic/client.py:172-220, admission.py:167-178).
LEMMA CloseStreamStep == ASSUME IInv, NEW s \in Sessions, CloseStream(s) PROVE IInv'
<1> DEFINE x == exec[s]
<1>1. /\ x.phase = "closing" /\ x \in Exec /\ exec \in [Sessions -> Exec]
      /\ episode \in Episode /\ generation \in Nat /\ free \in Int /\ free >= 0
      /\ Sound(x, generation) /\ Placed(episode, x, s) /\ SoundEpisode(episode, episode.gen)
  BY DEF CloseStream, IInv, TypeOK, SoundEpisode, Episode
<1>2. CASE x.resolved /\ x.again
  <2>1. free' = free + 1 /\ ToGate(s, episode, exec)
    BY <1>2 DEF CloseStream
  <2>2. Arrives(episode, x, s) /\ x.permit <= generation
    BY <1>1, <1>2, ArrivesFrom
  <2>3. free' + Bit(x.outer) = free + Weight(x) /\ free' \in Int /\ free' >= 0
    <3>1. Bit(HoldsSlot(x)) = 1 /\ Bit(x.lost) = 0 /\ Bit(x.outer) \in Nat
      BY <1>1, <2>2 DEF HoldsSlot, Bit, Arrives
    <3> QED BY <1>1, <2>1, <3>1 DEF Weight
  <2> QED BY <1>1, <2>1, <2>2, <2>3, OthersSame, GateKeeps
<1>3. CASE x.resolved /\ ~x.again
  <2>1. /\ free' = free + 1 /\ exec' = [exec EXCEPT ![s] = Ended(@)]
        /\ UNCHANGED <<episode, generation>>
    BY <1>3 DEF CloseStream
  <2>2. /\ episode.open /\ episode.leader = s => (episode.probe /\ x.abandoning) \/ x.lost
        /\ s \in episode.waiters => x.lost
    BY <1>1, <1>3 DEF Placed, Leads, Waits
  <2>3. HoldsSlot(x)
    BY <1>1 DEF HoldsSlot
  <2> QED BY <2>1, <2>2, <2>3, EndsAlone
<1>4. CASE ~x.resolved
  <2>1. PICK y : y = [x EXCEPT !.phase = "releasing", !.abandoning = TRUE]
    OBVIOUS
  <2>2. exec' = [exec EXCEPT ![s] = y] /\ UNCHANGED <<episode, generation, free>>
    BY <1>1, <1>4, <2>1 DEF CloseStream
  <2>3. /\ y \in Exec /\ y.phase = "releasing" /\ y.abandoning /\ y.again = x.again
        /\ y.permit = x.permit /\ y.outer = x.outer /\ y.lost = x.lost
        /\ y.accepted = x.accepted /\ y.resolved = x.resolved /\ y.failed = x.failed
        /\ y.attempts = x.attempts
    BY <1>1, <2>1 DEF Exec, Phase
  <2>4. ~x.lost /\ ~x.failed /\ ~x.again /\ ~x.accepted /\ x.permit <= generation
    BY <1>1, <1>4 DEF Sound
  <2> HIDE DEF x
  <2>5. Sound(y, generation)
    BY <2>3, <2>4 DEF Sound
  <2>6. Placed(episode, y, s)
    <3>1. episode.open /\ episode.leader = s => s \notin episode.waiters /\ Leads(episode, y)
      BY <1>1, <2>3, <2>4 DEF Placed, Leads
    <3>2. s \notin episode.waiters
      BY <1>1, <2>4 DEF Placed, Waits
    <3> QED BY <2>3, <3>1, <3>2 DEF Placed
  <2>7. SameSlots(x, y)
    BY <1>1, <2>3 DEF SameSlots, HoldsSlot
  <2> QED BY <2>2, <2>3, <2>5, <2>6, <2>7, OwnStep DEF x
<1> QED BY <1>2, <1>3, <1>4

\* The close of a continuation's stream fails: its slot is lost
\* (openai_chat/provider.py:720-794).
LEMMA CloseRaisesStep == ASSUME IInv, NEW s \in Sessions, CloseRaises(s) PROVE IInv'
<1> DEFINE x == exec[s]
<1>1. /\ x.phase = "closing" /\ x.outer /\ x \in Exec /\ exec \in [Sessions -> Exec]
      /\ episode \in Episode /\ generation \in Nat /\ free \in Int /\ free >= 0
      /\ Sound(x, generation) /\ Placed(episode, x, s)
      /\ UNCHANGED <<episode, generation, free>>
  BY DEF CloseRaises, IInv, TypeOK
<1>2. PICK z : z = [x EXCEPT !.lost = TRUE]
  OBVIOUS
<1>3. /\ z \in Exec /\ z.lost /\ z.outer /\ z.permit = x.permit /\ z.failed = x.failed
      /\ z.accepted = x.accepted /\ z.resolved = x.resolved /\ z.abandoning = x.abandoning
  BY <1>1, <1>2 DEF Exec
<1>4. exec' = [exec EXCEPT ![s] = Ended(z)]
  BY <1>1, <1>2 DEF CloseRaises
<1>5. Ended(z) \in Exec /\ Weight(Ended(z)) = 2
  <2>1. Ended(z) \in Exec /\ Weight(Ended(z)) = Bit(z.outer) + Bit(z.lost)
    BY <1>3, EndedIs
  <2>2. Bit(z.outer) = 1 /\ Bit(z.lost) = 1
    BY <1>3 DEF Bit
  <2> QED BY <2>1, <2>2
<1>6. Weight(x) = 2
  <2>1. Bit(HoldsSlot(x)) = 1 /\ Bit(x.outer) = 1 /\ Bit(x.lost) = 0
    BY <1>1 DEF HoldsSlot, Bit, Sound
  <2> QED BY <2>1 DEF Weight
<1>7. Sound(Ended(z), generation) /\ Placed(episode, Ended(z), s)
  <2>1. z.permit <= generation /\ (z.accepted => z.resolved)
    BY <1>1, <1>3 DEF Sound
  <2>2. episode.open /\ episode.leader = s =>
          /\ s \notin episode.waiters /\ ~z.failed
          /\ episode.probe => z.permit = episode.gen /\ (z.abandoning \/ z.lost)
          /\ ~episode.probe => z.lost
    BY <1>1, <1>3 DEF Placed, Leads
  <2>3. s \in episode.waiters => ~z.failed /\ z.lost
    BY <1>1, <1>3 DEF Placed, Waits
  <2> QED BY <1>1, <1>3, <2>1, <2>2, <2>3, EndedPlaced
<1> HIDE DEF x
<1>8. /\ exec' \in [Sessions -> Exec] /\ exec'[s] = Ended(z)
      /\ \A t \in Sessions : t # s => exec'[t] = exec[t]
  BY <1>1, <1>4, <1>5
<1>9. free' \in Int /\ free' >= 0 /\ free' + Weight(exec'[s]) = free + Weight(x)
  BY <1>1, <1>5, <1>6, <1>8
<1>10. Sound(exec'[s], generation) /\ Placed(episode, exec'[s], s)
  BY <1>7, <1>8
<1> QED BY <1>1, <1>8, <1>9, <1>10, SoloStep DEF x

\* The shielded task of a cut attempt (admission.py:477-491).
LEMMA AbandonStep == ASSUME IInv, NEW s \in Sessions, Abandon(s) PROVE IInv'
<1> DEFINE x == exec[s]
<1>1. /\ x.abandoning /\ x \in Exec /\ exec \in [Sessions -> Exec]
      /\ episode \in Episode /\ generation \in Nat /\ free \in Int /\ free >= 0
      /\ Sound(x, generation) /\ Placed(episode, x, s) /\ free' = free
      /\ SoundEpisode(episode, generation) /\ s # None
  BY AdmissionAssumption DEF Abandon, IInv, TypeOK
<1>2. PICK ep : ep = Abandoned(episode, s, x.permit)
  OBVIOUS
<1>3. PICK ex : ex = Notified(exec, ep # episode)
  OBVIOUS
<1>4. SetEpisode(ep) /\ exec' = [ex EXCEPT ![s].abandoning = FALSE]
  BY <1>2, <1>3 DEF Abandon
<1>5. x.phase \in {"closing", "releasing", "done"}
  BY <1>1 DEF Sound
<1>6. ex \in [Sessions -> Exec] /\ ex[s] = x
  BY <1>1, <1>3, <1>5, NotifiedIs
<1>7. PICK y : y = [x EXCEPT !.abandoning = FALSE]
  OBVIOUS
<1>8. /\ y \in Exec /\ ~y.abandoning /\ y.phase = x.phase /\ y.again = x.again
      /\ y.permit = x.permit /\ y.outer = x.outer /\ y.lost = x.lost
      /\ y.accepted = x.accepted /\ y.resolved = x.resolved /\ y.failed = x.failed
      /\ y.attempts = x.attempts
  BY <1>1, <1>7 DEF Exec
<1>9. exec' = [ex EXCEPT ![s] = y]
  BY <1>4, <1>6, <1>7
<1> HIDE DEF x
<1>10. Sound(y, generation) /\ SameSlots(x, y)
  BY <1>1, <1>8 DEF Sound, SameSlots, HoldsSlot
<1>11. CASE Matches(episode, s, x.permit)
  <2>1. /\ ep \in Episode /\ ep # episode /\ ep.leader = None
        /\ SoundEpisode(ep, ep.gen) /\ s \notin ep.waiters
        /\ OthersStay(ep, generation, Notified(exec, TRUE), s)
    BY <1>2, <1>11, AbandonedIs DEF x
  <2>2. episode' = ep /\ generation' \in Nat /\ generation' >= generation
        /\ SoundEpisode(ep, generation')
    BY <1>4, <2>1, SetEpisodeIs
  <2>3. /\ exec' \in [Sessions -> Exec] /\ exec'[s] = y
        /\ \A t \in Sessions : t # s => exec'[t] = ex[t]
    BY <1>6, <1>8, <1>9
  <2>4. OthersStay(ep, generation, ex, s)
    <3>1. ex = Notified(exec, TRUE)
      BY <1>3, <2>1
    <3> QED BY <2>1, <3>1
  <2>5. OthersStay(ep, generation', exec', s)
    BY <1>1, <1>6, <2>2, <2>3, <2>4, SoundLater DEF OthersStay
  <2>6. Sound(y, generation')
    BY <1>1, <1>8, <1>10, <2>2, SoundLater
  <2>7. Placed(ep, y, s)
    <3>1. y.phase \notin {"waiting", "woken"}
      BY <1>5, <1>8
    <3>2. ep.leader # s /\ s \notin ep.waiters
      BY <1>1, <2>1
    <3> QED BY <3>1, <3>2 DEF Placed
  <2>8. free' \in Int /\ free' >= 0 /\ free' + Weight(exec'[s]) = free + Weight(x)
    <3>1. Weight(y) = Weight(x) /\ Weight(x) \in Nat
      BY <1>10, WeightIs DEF SameSlots, Weight, Bit
    <3> QED BY <1>1, <2>3, <3>1
  <2>9. /\ episode' \in Episode /\ Sound(exec'[s], generation') /\ Placed(episode', exec'[s], s)
        /\ SoundEpisode(episode', generation') /\ OthersStay(episode', generation', exec', s)
    BY <2>1, <2>2, <2>3, <2>5, <2>6, <2>7
  <2> QED BY <2>2, <2>3, <2>8, <2>9, StepKeeps DEF x
<1>12. CASE ~Matches(episode, s, x.permit)
  <2>1. ep = episode /\ ex = exec
    <3>1. ep = episode
      BY <1>2, <1>12 DEF Abandoned
    <3> QED BY <1>1, <1>3, <3>1, NotifiedIs
  <2>2. exec' = [exec EXCEPT ![s] = y] /\ UNCHANGED <<episode, generation, free>>
    <3>1. episode.gen <= generation /\ episode.gen \in Nat
      BY <1>1 DEF SoundEpisode, Episode, NoEpisode
    <3>2. generation' = generation
      BY <1>1, <1>4, <2>1, <3>1 DEF SetEpisode
    <3> QED BY <1>1, <1>4, <1>9, <2>1, <3>2 DEF SetEpisode
  <2>3. Placed(episode, y, s)
    <3>1. episode.open /\ episode.leader = s => s \notin episode.waiters /\ Leads(episode, y)
      <4>1. SUFFICES ASSUME episode.open, episode.leader = s
                     PROVE  s \notin episode.waiters /\ Leads(episode, y)
        OBVIOUS
      <4>2. Leads(episode, x) /\ s \notin episode.waiters
        BY <1>1, <4>1 DEF Placed
      <4>3. episode.probe => episode.gen # x.permit
        BY <1>1, <1>12, <4>1 DEF Matches, SoundEpisode, Episode
      <4> QED BY <1>8, <4>2, <4>3 DEF Leads
    <3>2. s \in episode.waiters => Waits(episode, y)
      BY <1>1, <1>8 DEF Placed, Waits
    <3> QED BY <1>5, <1>8, <3>1, <3>2 DEF Placed
  <2> QED BY <1>8, <1>10, <2>2, <2>3, OwnStep DEF x
<1> QED BY <1>11, <1>12

\* aclose is back from the abandonment (admission.py:167-178, 677-678).
LEMMA ReleaseStep == ASSUME IInv, NEW s \in Sessions, Release(s) PROVE IInv'
<1>1. /\ exec[s].phase = "releasing" /\ ~exec[s].abandoning /\ free' = free + 1
      /\ exec' = [exec EXCEPT ![s] = Ended(@)] /\ UNCHANGED <<episode, generation>>
      /\ Placed(episode, exec[s], s)
  BY DEF Release, IInv
<1>2. HoldsSlot(exec[s])
  BY <1>1 DEF HoldsSlot
<1>3. /\ episode.open /\ episode.leader = s => exec[s].lost
      /\ s \in episode.waiters => exec[s].lost
  BY <1>1 DEF Placed, Leads, Waits
<1> QED BY <1>1, <1>2, <1>3, EndsAlone
-----------------------------------------------------------------------------
(* Cancellation *)

\* An execution without an attempt ends, leaving the episode ep to the others.
LEMMA EndsLeaving ==
    ASSUME IInv, NEW s \in Sessions, ~HoldsSlot(exec[s]), ~exec[s].lost,
           NEW ep \in Episode, SoundEpisode(ep, ep.gen), SetEpisode(ep),
           NEW ex \in [Sessions -> Exec], OthersStay(ep, generation, ex, s), ex[s] = exec[s],
           exec' = [ex EXCEPT ![s] = Ended(@)], UNCHANGED free,
           ~(ep.open /\ ep.leader = s), s \notin ep.waiters
    PROVE  IInv'
<1> DEFINE x == exec[s]
<1>1. /\ x \in Exec /\ free \in Int /\ free >= 0 /\ generation \in Nat /\ Sound(x, generation)
  BY DEF IInv, TypeOK
<1>2. /\ episode' = ep /\ generation' \in Nat /\ generation' >= generation
      /\ SoundEpisode(ep, generation')
  BY SetEpisodeIs
<1>3. Ended(x) \in Exec /\ Weight(Ended(x)) = Bit(x.outer) + Bit(x.lost)
  BY <1>1, EndedIs
<1>4. x.permit <= generation' /\ (x.accepted => x.resolved)
  BY <1>1, <1>2 DEF Sound, Exec
<1>5. exec' = [ex EXCEPT ![s] = Ended(x)]
  OBVIOUS
<1> HIDE DEF x
<1>6. Sound(Ended(x), generation') /\ Placed(ep, Ended(x), s)
  BY <1>1, <1>2, <1>4, EndedPlaced
<1>7. /\ exec' \in [Sessions -> Exec] /\ exec'[s] = Ended(x)
      /\ \A t \in Sessions : t # s => exec'[t] = ex[t]
  BY <1>3, <1>5
<1>8. OthersStay(ep, generation', exec', s)
  BY <1>1, <1>2, <1>7, SoundLater DEF OthersStay
<1>9. free' \in Int /\ free' >= 0 /\ free' + Weight(exec'[s]) = free + Weight(x)
  <2>1. Bit(HoldsSlot(x)) = 0 /\ Bit(x.lost) = 0 /\ Bit(x.outer) \in Nat
    BY DEF Bit, x
  <2>2. Weight(x) = Weight(Ended(x)) /\ Weight(x) \in Nat
    BY <1>3, <2>1 DEF Weight
  <2> QED BY <1>1, <1>7, <2>2
<1>10. /\ episode' \in Episode /\ Sound(exec'[s], generation') /\ Placed(episode', exec'[s], s)
       /\ SoundEpisode(episode', generation') /\ OthersStay(episode', generation', exec', s)
  BY <1>2, <1>6, <1>7, <1>8
<1> QED BY <1>2, <1>7, <1>9, <1>10, StepKeeps DEF x

\* Who waits leaves the episode it waits for (admission.py:341-358).
LEMMA CancelWaitingStep == ASSUME IInv, NEW s \in Sessions, CancelWaiting(s) PROVE IInv'
<1>1. /\ exec[s].phase \in {"waiting", "woken"} /\ UNCHANGED free
      /\ exec' = [exec EXCEPT ![s] = Ended(@)] /\ exec \in [Sessions -> Exec]
      /\ episode \in Episode /\ SoundEpisode(episode, episode.gen)
      /\ Sound(exec[s], generation) /\ Placed(episode, exec[s], s)
  BY DEF CancelWaiting, IInv, TypeOK, SoundEpisode, Episode
<1>2. PICK ep : ep = IF episode.gen = exec[s].permit
                     THEN [episode EXCEPT !.waiters = @ \ {s}] ELSE episode
  OBVIOUS
<1>3. SetEpisode(ep)
  BY <1>2 DEF CancelWaiting
<1>4. ~exec[s].lost /\ ~exec[s].abandoning /\ ~HoldsSlot(exec[s])
  BY <1>1 DEF Sound, HoldsSlot
<1>5. ~(episode.open /\ episode.leader = s)
  BY <1>1, <1>4 DEF Placed, Leads
<1>6. s \in episode.waiters => episode.gen = exec[s].permit
  BY <1>1, <1>4 DEF Placed, Waits
<1>7. /\ ep \in Episode /\ ep.open = episode.open /\ ep.leader = episode.leader
      /\ ep.gen = episode.gen /\ ep.probe = episode.probe /\ ep.terminal = episode.terminal
      /\ s \notin ep.waiters
      /\ \A t \in Sessions : t # s => (t \in ep.waiters <=> t \in episode.waiters)
      /\ ep.waiters \subseteq episode.waiters
      /\ ~ep.open => ep = episode
  <2>1. CASE episode.gen = exec[s].permit
    <3>1. ep = [episode EXCEPT !.waiters = @ \ {s}]
      BY <1>2, <2>1
    <3>2. ~episode.open => ep = episode
      <4>1. ~episode.open => episode.waiters \ {s} = episode.waiters
        BY <1>1 DEF SoundEpisode, NoEpisode
      <4> QED BY <1>1, <3>1, <4>1 DEF Episode
    <3> QED BY <1>1, <3>1, <3>2 DEF Episode
  <2>2. CASE episode.gen # exec[s].permit
    BY <1>1, <1>2, <1>6, <2>2
  <2> QED BY <2>1, <2>2
<1>8. SoundEpisode(ep, ep.gen)
  BY <1>1, <1>7 DEF SoundEpisode
<1>9. OthersStay(ep, generation, exec, s)
  <2> SUFFICES ASSUME NEW t \in Sessions, t # s PROVE Placed(ep, exec[t], t)
    BY OthersSame DEF OthersStay
  <2>1. Placed(episode, exec[t], t)
    BY DEF IInv
  <2>2. /\ Waits(episode, exec[t]) => Waits(ep, exec[t])
        /\ Leads(episode, exec[t]) => Leads(ep, exec[t])
    BY <1>7 DEF Waits, Leads
  <2> QED BY <1>7, <2>1, <2>2 DEF Placed
<1>10. ~(ep.open /\ ep.leader = s) /\ s \notin ep.waiters
  BY <1>5, <1>7
<1> QED BY <1>1, <1>3, <1>4, <1>7, <1>8, <1>9, <1>10, EndsLeaving

\* A leader that gives up in its backoff hands the recovery over (admission.py:660-675).
LEMMA CancelSleepingStep == ASSUME IInv, NEW s \in Sessions, CancelSleeping(s) PROVE IInv'
<1>1. /\ exec[s].phase = "sleeping" /\ UNCHANGED free /\ exec \in [Sessions -> Exec]
      /\ episode \in Episode /\ SoundEpisode(episode, generation) /\ generation \in Nat
      /\ Sound(exec[s], generation) /\ Placed(episode, exec[s], s) /\ s # None
  BY AdmissionAssumption DEF CancelSleeping, IInv, TypeOK
<1>2. ~exec[s].lost /\ ~exec[s].abandoning /\ ~HoldsSlot(exec[s]) /\ s \notin episode.waiters
  BY <1>1 DEF Sound, HoldsSlot, Placed, Waits
<1>3. CASE SleepsAsLeader(s)
  <2>1. PICK ep : ep = LeaderLeft(s)
    OBVIOUS
  <2>2. PICK ex : ex = Notified(exec, TRUE)
    OBVIOUS
  <2>3. SetEpisode(ep) /\ exec' = [ex EXCEPT ![s] = Ended(@)]
    BY <1>3, <2>1, <2>2 DEF CancelSleeping
  <2>4. episode.open /\ episode.leader = s /\ ~episode.probe
    BY <1>3 DEF SleepsAsLeader
  <2>5. /\ ep \in Episode /\ ep.open /\ ep.leader = None /\ ~ep.probe
        /\ ep.gen = episode.gen /\ ep.waiters = episode.waiters /\ ep.terminal = episode.terminal
    BY <1>1, <2>1, <2>4 DEF LeaderLeft, Episode
  <2>6. SoundEpisode(ep, ep.gen)
    BY <1>1, <2>4, <2>5 DEF SoundEpisode, Episode
  <2>7. ex \in [Sessions -> Exec] /\ ex[s] = exec[s]
    BY <1>1, <2>2, NotifiedIs
  <2>8. generation >= generation
    BY <1>1
  <2>9. /\ ep.open => ep.leader \in {None, s}
        /\ \A t \in Sessions : t # s =>
              /\ t \in ep.waiters => t \in episode.waiters /\ ep.gen = episode.gen
              /\ ep.open /\ ep.terminal = "unset" /\ ep.gen = exec[t].permit =>
                   /\ episode.open /\ episode.terminal = "unset" /\ episode.gen = ep.gen
                   /\ t \in episode.waiters => t \in ep.waiters
    BY <2>4, <2>5
  <2>10. OthersStay(ep, generation, ex, s)
    BY <1>1, <2>2, <2>5, <2>8, <2>9, OthersNotified
  <2>11. ~(ep.open /\ ep.leader = s) /\ s \notin ep.waiters
    BY <1>1, <1>2, <2>5
  <2> QED BY <1>1, <1>2, <2>3, <2>5, <2>6, <2>7, <2>10, <2>11, EndsLeaving
<1>4. CASE ~SleepsAsLeader(s)
  <2>1. exec' = [exec EXCEPT ![s] = Ended(@)] /\ UNCHANGED <<episode, generation>>
    BY <1>4 DEF CancelSleeping
  <2>2. episode.open /\ episode.leader = s => exec[s].lost
    BY <1>1, <1>2, <1>4 DEF Placed, Leads, SleepsAsLeader
  <2> QED BY <1>1, <1>2, <2>1, <2>2, EndsAlone
<1> QED BY <1>3, <1>4

\* A permit is given up (admission.py:274-278, 644-658).
LEMMA CancelPermitStep == ASSUME IInv, NEW s \in Sessions, CancelPermit(s) PROVE IInv'
<1>1. /\ exec[s].phase \in {"rate", "slot"} /\ UNCHANGED free /\ exec \in [Sessions -> Exec]
      /\ episode \in Episode /\ SoundEpisode(episode, episode.gen) /\ s # None
      /\ SoundEpisode(episode, generation)
  BY AdmissionAssumption DEF CancelPermit, IInv, TypeOK, SoundEpisode, Episode
<1>2. /\ ~exec[s].lost /\ ~HoldsSlot(exec[s]) /\ s \notin episode.waiters
      /\ episode.open /\ episode.leader = s => Matches(episode, s, exec[s].permit)
  BY <1>1, ProberMatches DEF HoldsSlot
<1>3. PICK ep : ep = Abandoned(episode, s, exec[s].permit)
  OBVIOUS
<1>4. PICK ex : ex = Notified(exec, ep # episode)
  OBVIOUS
<1>5. SetEpisode(ep) /\ exec' = [ex EXCEPT ![s] = Ended(@)]
  BY <1>3, <1>4 DEF CancelPermit
<1>6. ex \in [Sessions -> Exec] /\ ex[s] = exec[s]
  BY <1>1, <1>4, NotifiedIs
<1>7. CASE Matches(episode, s, exec[s].permit)
  <2>1. /\ ep \in Episode /\ ep # episode /\ ep.leader = None
        /\ SoundEpisode(ep, ep.gen) /\ s \notin ep.waiters
        /\ OthersStay(ep, generation, Notified(exec, TRUE), s)
    BY <1>3, <1>7, AbandonedIs
  <2>2. OthersStay(ep, generation, ex, s) /\ ~(ep.open /\ ep.leader = s)
    <3>1. ex = Notified(exec, TRUE)
      BY <1>4, <2>1
    <3> QED BY <1>1, <2>1, <3>1
  <2> QED BY <1>1, <1>2, <1>5, <1>6, <2>1, <2>2, EndsLeaving
<1>8. CASE ~Matches(episode, s, exec[s].permit)
  <2>1. ep = episode
    BY <1>3, <1>8 DEF Abandoned
  <2>2. ex = exec
    BY <1>1, <1>4, <2>1, NotifiedIs
  <2>3. SetEpisode(episode) /\ exec' = [exec EXCEPT ![s] = Ended(@)]
        /\ OthersStay(episode, generation, exec, s)
    BY <1>5, <2>1, <2>2, OthersSame
  <2> QED BY <1>1, <1>2, <1>8, <2>3, EndsLeaving
<1> QED BY <1>7, <1>8

\* An attempt is cut: its stream is closed, or it is released (anthropic/client.py:172-220).
LEMMA CancelAttemptStep == ASSUME IInv, NEW s \in Sessions, CancelAttempt(s) PROVE IInv'
<1> DEFINE x == exec[s]
<1>1. /\ x.phase \in {"open", "stream"} /\ UNCHANGED <<episode, generation, free>>
      /\ exec \in [Sessions -> Exec] /\ x \in Exec
      /\ Sound(x, generation) /\ Placed(episode, x, s)
  BY DEF CancelAttempt, IInv, TypeOK
<1>2. /\ ~x.abandoning /\ ~x.lost /\ ~x.failed /\ s \notin episode.waiters
      /\ episode.open /\ episode.leader = s =>
           Matches(episode, s, x.permit) /\ (x.phase = "stream" => ~x.resolved)
  BY <1>1, ProberMatches
<1>3. PICK y : y = IF x.phase = "stream" THEN [x EXCEPT !.phase = "closing", !.again = FALSE]
                   ELSE [x EXCEPT !.phase = "releasing", !.abandoning = TRUE]
  OBVIOUS
<1>4. exec' = [exec EXCEPT ![s] = y]
  <2>1. CASE x.phase = "stream"
    BY <1>1, <1>3, <2>1 DEF CancelAttempt
  <2>2. CASE x.phase # "stream"
    BY <1>1, <1>3, <2>2 DEF CancelAttempt
  <2> QED BY <2>1, <2>2
<1>5. /\ y \in Exec /\ y.permit = x.permit /\ y.outer = x.outer /\ y.lost = x.lost
      /\ y.accepted = x.accepted /\ y.resolved = x.resolved /\ y.failed = x.failed
      /\ y.attempts = x.attempts
      /\ IF x.phase = "stream" THEN y.phase = "closing" /\ ~y.again /\ y.abandoning = x.abandoning
                               ELSE y.phase = "releasing" /\ y.abandoning
  BY <1>1, <1>3 DEF Exec, Phase
<1> HIDE DEF x
<1>6. Sound(y, generation)
  BY <1>1, <1>2, <1>5 DEF Sound
<1>7. Placed(episode, y, s)
  <2>1. episode.open /\ episode.leader = s => Leads(episode, y)
    <3>1. x.phase = "open" => ~x.resolved
      BY <1>1 DEF Sound
    <3> QED BY <1>1, <1>2, <1>5, <3>1 DEF Matches, Leads, HoldsSlot
  <2> QED BY <1>2, <1>5, <2>1 DEF Placed
<1>8. SameSlots(x, y)
  BY <1>1, <1>5 DEF SameSlots, HoldsSlot
<1> QED BY <1>1, <1>4, <1>5, <1>6, <1>7, <1>8, OwnStep DEF x

\* A second cancellation ends the wait for the abandonment (admission.py:167-178).
LEMMA CancelReleasingStep == ASSUME IInv, NEW s \in Sessions, CancelReleasing(s) PROVE IInv'
<1>1. /\ exec[s].phase = "releasing" /\ exec[s].abandoning /\ free' = free + 1
      /\ exec' = [exec EXCEPT ![s] = Ended(@)] /\ UNCHANGED <<episode, generation>>
      /\ Placed(episode, exec[s], s)
  BY DEF CancelReleasing, IInv
<1>2. HoldsSlot(exec[s])
  BY <1>1 DEF HoldsSlot
<1>3. /\ episode.open /\ episode.leader = s => (episode.probe /\ exec[s].abandoning) \/ exec[s].lost
      /\ s \in episode.waiters => exec[s].lost
  BY <1>1 DEF Placed, Leads, Waits
<1> QED BY <1>1, <1>2, <1>3, EndsAlone
-----------------------------------------------------------------------------
(* The invariant *)

\* A timer that fires moves nobody.
LEMMA TimerStep ==
    ASSUME IInv, UNCHANGED <<generation, exec, free>>, NEW ep \in Episode, episode' = ep,
           ep.open, episode.open, ep.gen = episode.gen, ep.leader = episode.leader,
           ep.waiters = episode.waiters, ep.probe = episode.probe,
           ep.terminal = "unset" <=> episode.terminal = "unset"
    PROVE  IInv'
<1>1. TypeOK'
  BY DEF IInv, TypeOK
<1>2. Counted'
  BY DEF IInv, Counted, SlotsAreAccounted, Held, Attempting, Continuing, Lost
<1>3. SoundEpisode(ep, generation)
  BY DEF IInv, SoundEpisode
<1>4. ASSUME NEW s \in Sessions PROVE Sound(exec[s], generation) /\ Placed(ep, exec[s], s)
  <2>1. Sound(exec[s], generation) /\ Placed(episode, exec[s], s)
    BY DEF IInv
  <2>2. /\ Waits(episode, exec[s]) => Waits(ep, exec[s])
        /\ Leads(episode, exec[s]) => Leads(ep, exec[s])
    BY DEF Waits, Leads
  <2> QED BY <2>1, <2>2 DEF Placed
<1> QED BY <1>1, <1>2, <1>3, <1>4 DEF IInv

\* At first nobody holds anything.
LEMMA InitSound == Init => IInv
<1> SUFFICES ASSUME Init PROVE IInv
  OBVIOUS
<1>1. /\ episode = NoEpisode /\ generation = 0 /\ free = MaxConcurrency
      /\ exec = [s \in Sessions |-> NewExec]
      /\ MaxConcurrency \in Nat /\ MaxAttempts \in Nat \ {0}
  BY AdmissionAssumption DEF Init
<1>2. NewExec \in Exec /\ NoEpisode \in Episode
  BY <1>1 DEF NewExec, Exec, Phase, NoEpisode, Episode
<1>3. TypeOK
  BY <1>1, <1>2 DEF TypeOK
<1>4. Counted
  <2>1. Attempting = {} /\ Continuing = {} /\ Lost = {}
    BY <1>1 DEF Attempting, Continuing, Lost, HoldsSlot, NewExec
  <2>2. IsFiniteSet({}) /\ Cardinality({}) = 0
    BY FS_EmptySet
  <2> QED BY <1>1, <2>1, <2>2 DEF Counted, SlotsAreAccounted, Held
<1>5. SoundEpisode(episode, generation)
  BY <1>1 DEF SoundEpisode, NoEpisode
<1>6. \A s \in Sessions : Sound(exec[s], generation) /\ Placed(episode, exec[s], s)
  BY <1>1 DEF Sound, Placed, NewExec, NoEpisode
<1> QED BY <1>3, <1>4, <1>5, <1>6 DEF IInv

\* A step of an execution keeps the invariant.
LEMMA ExecutionSound ==
    ASSUME IInv, NEW s \in Sessions, Admission(s) \/ Upstream(s) \/ Closing(s) \/ Cancel(s)
    PROVE  IInv'
<1>1. CASE Admission(s)
  <2>1. CASE Start(s)
    BY <2>1, WaiterStep DEF Start
  <2>2. CASE Awake(s)
    BY <2>2, WaiterStep DEF Awake
  <2>3. CASE Wake(s)
    BY <2>3, WakeStep
  <2>4. CASE PassRate(s)
    BY <2>4, PassRateStep
  <2>5. CASE TakeSlot(s)
    BY <2>5, TakeSlotStep
  <2> QED BY <1>1, <2>1, <2>2, <2>3, <2>4, <2>5 DEF Admission
<1>2. CASE Upstream(s)
  BY <1>2, StreamOpensStep, AcceptStep, RejectStep, CorrectStep, FailAndRetryStep,
     FailFinallyStep, StreamEndsStep, ContinueMidstreamStep DEF Upstream
<1>3. CASE Closing(s)
  BY <1>3, CloseStreamStep, CloseRaisesStep, AbandonStep, ReleaseStep DEF Closing
<1>4. CASE Cancel(s)
  BY <1>4, CancelWaitingStep, CancelSleepingStep, CancelPermitStep, CancelAttemptStep,
     CancelReleasingStep DEF Cancel
<1> QED BY <1>1, <1>2, <1>3, <1>4

\* Every step keeps the invariant.
LEMMA NextSound == IInv /\ [Next]_vars => IInv'
<1> SUFFICES ASSUME IInv, [Next]_vars PROVE IInv'
  OBVIOUS
<1>1. CASE \E s \in Sessions : Admission(s) \/ Upstream(s) \/ Closing(s) \/ Cancel(s)
  BY <1>1, ExecutionSound
<1>2. CASE DelayElapses
  <2>1. /\ episode.open /\ UNCHANGED <<generation, exec, free>>
        /\ episode' = [episode EXCEPT !.ready = TRUE] /\ episode \in Episode
    BY <1>2 DEF DelayElapses, IInv, TypeOK
  <2>2. PICK ep : ep = [episode EXCEPT !.ready = TRUE]
    OBVIOUS
  <2>3. /\ ep \in Episode /\ ep.open /\ ep.gen = episode.gen /\ ep.leader = episode.leader
        /\ ep.waiters = episode.waiters /\ ep.probe = episode.probe
        /\ ep.terminal = episode.terminal
    BY <2>1, <2>2 DEF Episode
  <2> QED BY <2>1, <2>2, <2>3, TimerStep
<1>3. CASE CooldownEnds
  <2>1. /\ episode.open /\ episode.terminal = "cooling" /\ UNCHANGED <<generation, exec, free>>
        /\ episode' = [episode EXCEPT !.terminal = "over"] /\ episode \in Episode
    BY <1>3 DEF CooldownEnds, IInv, TypeOK
  <2>2. PICK ep : ep = [episode EXCEPT !.terminal = "over"]
    OBVIOUS
  <2>3. /\ ep \in Episode /\ ep.open /\ ep.gen = episode.gen /\ ep.leader = episode.leader
        /\ ep.waiters = episode.waiters /\ ep.probe = episode.probe
        /\ (ep.terminal = "unset" <=> episode.terminal = "unset")
    BY <2>1, <2>2 DEF Episode
  <2> QED BY <2>1, <2>2, <2>3, TimerStep
<1>4. CASE UNCHANGED vars
  BY <1>4 DEF vars, IInv, TypeOK, Counted, SlotsAreAccounted, Held, Attempting, Continuing, Lost
<1> QED BY <1>1, <1>2, <1>3, <1>4 DEF Next

\* The invariant of the controller and its executions.
THEOREM AdmissionSound == Spec => []IInv
BY InitSound, NextSound, PTL DEF Spec

\* admission.py:308-378, 644-675: a recovery is always with a leader that will resolve it, and
\* who waits will be woken by somebody else - no cancellation leaves a probe to nobody.
THEOREM RecoveriesAreLed == Spec => []EverybodyIsLed
<1>1. IInv => EverybodyIsLed
  <2> SUFFICES ASSUME IInv PROVE RecoveryIsLed /\ WaitersAreLed
    BY DEF EverybodyIsLed
  <2>1. episode \in Episode /\ SoundEpisode(episode, generation)
    BY DEF IInv, TypeOK
  <2>2. WaitersAreLed
    BY DEF IInv, Placed, WaitersAreLed
  <2>3. ASSUME episode.open, episode.leader # None
        PROVE  /\ episode.leader \in Sessions /\ Leads(episode, exec[episode.leader])
    BY <2>1, <2>3 DEF Episode, IInv, Placed
  <2>4. episode.leader \in Lost <=> episode.leader \in Sessions /\ exec[episode.leader].lost
    BY DEF Lost
  <2>5. RecoveryIsLed
    BY <2>1, <2>3, <2>4 DEF RecoveryIsLed, Leads, SoundEpisode
  <2> QED BY <2>2, <2>5
<1> QED BY <1>1, AdmissionSound, PTL

\* admission.py:167-178, 677-678: whatever is cancelled, retried or released twice, each slot of
\* the bulkhead is free, held by one attempt, or lost by one that could not reach aclose.
THEOREM SlotsNeverLeak == Spec => []SlotsAreCounted
<1>1. IInv => SlotsAreCounted
  BY DEF IInv, Counted, SlotsAreCounted
<1> QED BY <1>1, AdmissionSound, PTL
-----------------------------------------------------------------------------
(* Attempts and exhaustion *)

\* The executions ex have made no attempt more, and forget no exhaustion.
Tells(ex) == \A t \in Sessions : /\ ex[t].attempts = exec[t].attempts
                                 /\ exec[t].failed => ex[t].failed

\* A step of s on its own record, beside the executions ex.
LEMMA TellsOwn ==
    ASSUME NEW s \in Sessions, NEW ex \in [Sessions -> Exec], Tells(ex),
           NEW y, y.attempts = ex[s].attempts, y.failed = ex[s].failed,
           exec' = [ex EXCEPT ![s] = y]
    PROVE  Tells(exec')
<1>1. \A t \in Sessions : exec'[t] = IF t = s THEN y ELSE ex[t]
  OBVIOUS
<1> QED BY <1>1 DEF Tells

\* Waking tells nobody anything.
LEMMA TellsNotified ==
    ASSUME NEW ex \in [Sessions -> Exec], Tells(ex), NEW b \in BOOLEAN
    PROVE  Tells(Notified(ex, b)) /\ Notified(ex, b) \in [Sessions -> Exec]
<1> DEFINE nx == Notified(ex, b)
<1>1. nx \in [Sessions -> Exec]
      /\ \A t \in Sessions : nx[t] = IF b /\ ex[t].phase = "waiting"
                                     THEN [ex[t] EXCEPT !.phase = "woken"] ELSE ex[t]
  BY NotifiedIs
<1> HIDE DEF nx
<1>2. \A t \in Sessions : nx[t].attempts = ex[t].attempts /\ nx[t].failed = ex[t].failed
  BY <1>1 DEF Exec
<1>3. Tells(nx)
  BY <1>2 DEF Tells
<1> QED BY <1>1, <1>3 DEF nx

\* Nor does the gate.
LEMMA TellsGate ==
    ASSUME NEW s \in Sessions, NEW ep, NEW ex \in [Sessions -> Exec], Tells(ex), ToGate(s, ep, ex)
    PROVE  Tells(exec')
<1> DEFINE gate == Gate(ep, s)
<1>1. CASE Barred(ex[s], gate)
  <2>1. exec' = [ex EXCEPT ![s] = Ended(ex[s])]
    BY <1>1 DEF ToGate
  <2>2. Ended(ex[s]).attempts = ex[s].attempts /\ Ended(ex[s]).failed = ex[s].failed
    BY EndedIs
  <2> QED BY <2>1, <2>2, TellsOwn
<1>2. CASE ~Barred(ex[s], gate)
  <2>1. exec' = [ex EXCEPT ![s].phase = gate.phase, ![s].permit = gate.permit,
                           ![s].resolved = FALSE, ![s].accepted = FALSE]
    BY <1>2 DEF ToGate
  <2> HIDE DEF gate
  <2>2. PICK y : y = [ex[s] EXCEPT !.phase = gate.phase, !.permit = gate.permit,
                                   !.resolved = FALSE, !.accepted = FALSE]
    OBVIOUS
  <2>3. y.attempts = ex[s].attempts /\ y.failed = ex[s].failed
    BY <2>2 DEF Exec
  <2>4. exec' = [ex EXCEPT ![s] = y]
    BY <2>1, <2>2
  <2> QED BY <2>3, <2>4, TellsOwn
<1> QED BY <1>1, <1>2

\* Nor what an attempt comes to.
LEMMA TellsResolved ==
    ASSUME NEW s \in Sessions, NEW ep, NEW ex \in [Sessions -> Exec], Tells(ex),
           NEW again, Resolved(s, ep, ex, again)
    PROVE  Tells(exec')
<1>1. CASE exec[s].phase = "stream"
  <2>1. exec' = [ex EXCEPT ![s].phase = "closing", ![s].resolved = TRUE, ![s].again = again]
    BY <1>1 DEF Resolved
  <2>2. PICK y : y = [ex[s] EXCEPT !.phase = "closing", !.resolved = TRUE, !.again = again]
    OBVIOUS
  <2>3. y.attempts = ex[s].attempts /\ y.failed = ex[s].failed
    BY <2>2 DEF Exec
  <2>4. exec' = [ex EXCEPT ![s] = y]
    BY <2>1, <2>2
  <2> QED BY <2>3, <2>4, TellsOwn
<1>2. CASE exec[s].phase # "stream" /\ again
  BY <1>2, TellsGate DEF Resolved
<1>3. CASE exec[s].phase # "stream" /\ ~again
  <2>1. exec' = [ex EXCEPT ![s] = Ended(ex[s])]
    BY <1>3 DEF Resolved
  <2>2. Ended(ex[s]).attempts = ex[s].attempts /\ Ended(ex[s]).failed = ex[s].failed
    BY EndedIs
  <2> QED BY <2>1, <2>2, TellsOwn
<1> QED BY <1>1, <1>2, <1>3

\* An exhausted recovery is told to those who wait, and to nobody else.
LEMMA TellsExhausted ==
    ASSUME IInv, NEW W
    PROVE  /\ Tells(Exhausted(W)) /\ Exhausted(W) \in [Sessions -> Exec]
           /\ \A t \in Sessions : t \in W => Exhausted(W)[t].failed
<1> DEFINE ex == Exhausted(W)
<1>1. ASSUME NEW t \in Sessions
      PROVE  /\ ex[t] \in Exec /\ ex[t].attempts = exec[t].attempts
             /\ ex[t].failed <=> exec[t].failed \/ t \in W
  <2>1. PICK c \in BOOLEAN : c = (exec[t].failed \/ t \in W)
    BY Zenon
  <2>2. ex[t] = [exec[t] EXCEPT !.failed = c]
    BY <2>1, Zenon DEF Exhausted
  <2>3. c <=> exec[t].failed \/ t \in W
    BY <2>1, Zenon
  <2>4. exec[t] \in Exec
    BY DEF IInv, TypeOK
  <2> HIDE DEF ex
  <2> QED BY <2>2, <2>3, <2>4 DEF Exec
<1>2. ex \in [Sessions -> Exec]
  BY <1>1 DEF Exhausted
<1> HIDE DEF ex
<1> QED BY <1>1, <1>2 DEF Tells, ex

\* The attempt that TakeSlot opens.
Opens(s) == /\ exec[s].phase = "slot" /\ PermitIsCurrent(s)
            /\ exec' = [exec EXCEPT ![s].phase = "open", ![s].attempts = @ + 1]

\* An attempt is made by the execution that takes a slot with a permit that is current, and
\* no step forgets an exhaustion (admission.py:250-278).
LEMMA OnlySlotsOpen ==
    ASSUME IInv, NEW s \in Sessions, Admission(s) \/ Upstream(s) \/ Closing(s) \/ Cancel(s)
    PROVE  Opens(s) \/ Tells(exec')
<1>1. /\ exec \in [Sessions -> Exec] /\ exec[s] \in Exec /\ Tells(exec)
  BY DEF IInv, TypeOK, Tells
<1>2. ASSUME NEW b \in BOOLEAN
      PROVE  Tells(Notified(exec, b)) /\ Notified(exec, b) \in [Sessions -> Exec]
  BY <1>1, TellsNotified
<1>3. Ended(exec[s]).attempts = exec[s].attempts /\ Ended(exec[s]).failed = exec[s].failed
  BY <1>1, EndedIs
<1>4. ASSUME NEW ep, NEW ex, ex = Notified(exec, ep # episode)
      PROVE  ex \in [Sessions -> Exec] /\ Tells(ex) /\ ex[s].attempts = exec[s].attempts
             /\ (exec[s].phase # "waiting" => ex[s] = exec[s])
  BY <1>1, <1>2, <1>4, NotifiedIs DEF Tells
<1>5. CASE Admission(s)
  <2>1. ASSUME StalePermit(s) PROVE Tells(exec')
    <3>1. PICK ep : ep = Abandoned(episode, s, exec[s].permit)
      OBVIOUS
    <3>2. PICK ex : ex = Notified(exec, ep # episode)
      OBVIOUS
    <3>3. ToGate(s, ep, ex)
      BY <2>1, <3>1, <3>2 DEF StalePermit
    <3> QED BY <1>4, <3>2, <3>3, TellsGate
  <2>2. CASE Start(s) \/ Awake(s)
    BY <1>1, <2>2, TellsGate DEF Start, Awake
  <2>3. CASE Wake(s)
    <3>1. CASE ToGate(s, episode, exec)
      BY <1>1, <3>1, TellsGate
    <3>2. CASE exec' = [exec EXCEPT ![s].phase = "rate"]
      BY <1>1, <3>2 DEF Tells, Exec
    <3> QED BY <2>3, <3>1, <3>2 DEF Wake
  <2>4. CASE PassRate(s)
    <3>1. CASE exec' = [exec EXCEPT ![s].phase = "slot"]
      BY <1>1, <3>1 DEF Tells, Exec
    <3> QED BY <2>1, <2>4, <3>1 DEF PassRate
  <2>5. CASE TakeSlot(s)
    BY <2>1, <2>5 DEF TakeSlot, Opens
  <2> QED BY <1>5, <2>2, <2>3, <2>4, <2>5 DEF Admission
<1>6. CASE Upstream(s)
  <2>1. CASE StreamOpens(s)
    BY <1>1, <2>1 DEF StreamOpens, Tells, Exec
  <2>2. CASE Accept(s)
    <3>1. PICK ex : ex = Notified(exec, ProbeClosed(s) # episode)
      OBVIOUS
    <3>2. exec' = [ex EXCEPT ![s].resolved = TRUE, ![s].accepted = TRUE]
      BY <2>2, <3>1 DEF Accept
    <3>3. ex \in [Sessions -> Exec] /\ Tells(ex)
      BY <1>4, <3>1
    <3>4. PICK y : y = [ex[s] EXCEPT !.resolved = TRUE, !.accepted = TRUE]
      OBVIOUS
    <3>5. y.attempts = ex[s].attempts /\ y.failed = ex[s].failed
      BY <3>3, <3>4 DEF Exec
    <3>6. exec' = [ex EXCEPT ![s] = y]
      BY <3>2, <3>3, <3>4
    <3> QED BY <3>3, <3>5, <3>6, TellsOwn
  <2>3. CASE Reject(s)
    <3>1. PICK ex : ex = Notified(exec, ProbeClosed(s) # episode)
      OBVIOUS
    <3>2. Resolved(s, ProbeClosed(s), ex, FALSE)
      BY <2>3, <3>1 DEF Reject
    <3>3. ex \in [Sessions -> Exec] /\ Tells(ex)
      BY <1>4, <3>1
    <3> QED BY <3>2, <3>3, TellsResolved
  <2>4. CASE Correct(s)
    <3>1. PICK b \in BOOLEAN : b = Matches(episode, s, exec[s].permit)
      BY Zenon DEF Matches
    <3>2. PICK ep : ep = IF Matches(episode, s, exec[s].permit)
                         THEN [episode EXCEPT !.probe = FALSE, !.ready = TRUE] ELSE episode
      OBVIOUS
    <3>3. Resolved(s, ep, Notified(exec, b), TRUE)
      BY <2>4, <3>1, <3>2 DEF Correct
    <3> QED BY <1>2, <3>3, TellsResolved
  <2>5. CASE FailAndRetry(s)
    <3>1. PICK c \in BOOLEAN : c = (exec[s].failed
             \/ ((episode.open /\ ~Matches(episode, s, exec[s].permit))
                 /\ episode.terminal # "unset"))
      BY Zenon
    <3>2. PICK ex : ex = [exec EXCEPT ![s].failed = c]
      OBVIOUS
    <3>3. Resolved(s, FailedEpisode(s), Notified(ex, TRUE), TRUE)
      BY <2>5, <3>1, <3>2 DEF FailAndRetry
    <3>4. ex \in [Sessions -> Exec] /\ (exec[s].failed => c)
      BY <1>1, <3>1, <3>2 DEF Exec
    <3>5. Tells(ex)
      BY <1>1, <3>2, <3>4 DEF Tells, Exec
    <3>6. Tells(Notified(ex, TRUE)) /\ Notified(ex, TRUE) \in [Sessions -> Exec]
      BY <3>4, <3>5, TellsNotified
    <3> QED BY <3>3, <3>6, TellsResolved
  <2>6. CASE FailFinally(s)
    <3>1. CASE Resolved(s, episode, exec, FALSE)
      BY <1>1, <3>1, TellsResolved
    <3>2. CASE \E ep, W : Resolved(s, ep, Notified(Exhausted(W), TRUE), FALSE)
      <4>1. PICK ep, W : Resolved(s, ep, Notified(Exhausted(W), TRUE), FALSE)
        BY <3>2
      <4>2. Tells(Exhausted(W)) /\ Exhausted(W) \in [Sessions -> Exec]
        BY TellsExhausted
      <4>3. Tells(Notified(Exhausted(W), TRUE)) /\ Notified(Exhausted(W), TRUE) \in [Sessions -> Exec]
        BY <4>2, TellsNotified
      <4> QED BY <4>1, <4>3, TellsResolved
    <3> QED BY <2>6, <3>1, <3>2 DEF FailFinally
  <2>7. CASE StreamEnds(s)
    <3>1. PICK again \in {FALSE, CanAttempt(s)} :
             exec' = [exec EXCEPT ![s].phase = "closing", ![s].again = again]
      BY <2>7 DEF StreamEnds
    <3>2. PICK y : y = [exec[s] EXCEPT !.phase = "closing", !.again = again]
      OBVIOUS
    <3>3. y.attempts = exec[s].attempts /\ y.failed = exec[s].failed
      BY <1>1, <3>2 DEF Exec
    <3>4. exec' = [exec EXCEPT ![s] = y]
      BY <1>1, <3>1, <3>2
    <3> QED BY <1>1, <3>3, <3>4, TellsOwn
  <2>8. CASE ContinueMidstream(s)
    <3>1. PICK ex : ex = [exec EXCEPT ![s].outer = TRUE]
      OBVIOUS
    <3>2. ex \in [Sessions -> Exec] /\ Tells(ex)
      BY <1>1, <3>1 DEF Tells, Exec
    <3> QED BY <2>8, <3>1, <3>2, TellsGate DEF ContinueMidstream
  <2> QED BY <1>6, <2>1, <2>2, <2>3, <2>4, <2>5, <2>6, <2>7, <2>8 DEF Upstream
<1>7. ASSUME NEW ep, exec' = [Notified(exec, ep # episode) EXCEPT ![s] = Ended(@)],
             exec[s].phase # "waiting"
      PROVE  Tells(exec')
  <2>1. PICK ex : ex = Notified(exec, ep # episode)
    OBVIOUS
  <2>2. ex \in [Sessions -> Exec] /\ Tells(ex) /\ ex[s] = exec[s]
    BY <1>4, <1>7, <2>1
  <2>3. exec' = [ex EXCEPT ![s] = Ended(exec[s])]
    BY <1>7, <2>1, <2>2
  <2> QED BY <1>3, <2>2, <2>3, TellsOwn
<1>8. ASSUME exec' = [exec EXCEPT ![s] = Ended(@)] PROVE Tells(exec')
  BY <1>1, <1>3, <1>8, TellsOwn
<1>9. CASE Closing(s)
  <2>1. CASE CloseStream(s)
    <3>1. CASE ToGate(s, episode, exec)
      BY <1>1, <3>1, TellsGate
    <3>2. CASE exec' = [exec EXCEPT ![s].phase = "releasing", ![s].abandoning = TRUE]
      BY <1>1, <3>2 DEF Tells, Exec
    <3> QED BY <1>8, <2>1, <3>1, <3>2 DEF CloseStream
  <2>2. CASE CloseRaises(s)
    <3>1. PICK z : z = [exec[s] EXCEPT !.lost = TRUE]
      OBVIOUS
    <3>2. z \in Exec /\ z.attempts = exec[s].attempts /\ z.failed = exec[s].failed
      BY <1>1, <3>1 DEF Exec
    <3>3. exec' = [exec EXCEPT ![s] = Ended(z)]
      BY <1>1, <2>2, <3>1 DEF CloseRaises
    <3>4. Ended(z).attempts = exec[s].attempts /\ Ended(z).failed = exec[s].failed
      BY <3>2, EndedIs
    <3> QED BY <1>1, <3>3, <3>4, TellsOwn
  <2>3. CASE Abandon(s)
    <3>1. PICK ex : ex = Notified(exec, Abandoned(episode, s, exec[s].permit) # episode)
      OBVIOUS
    <3>2. exec' = [ex EXCEPT ![s].abandoning = FALSE]
      BY <2>3, <3>1 DEF Abandon
    <3>3. ex \in [Sessions -> Exec] /\ Tells(ex)
      BY <1>4, <3>1
    <3>4. PICK y : y = [ex[s] EXCEPT !.abandoning = FALSE]
      OBVIOUS
    <3>5. y.attempts = ex[s].attempts /\ y.failed = ex[s].failed
      BY <3>3, <3>4 DEF Exec
    <3>6. exec' = [ex EXCEPT ![s] = y]
      BY <3>2, <3>3, <3>4
    <3> QED BY <3>3, <3>5, <3>6, TellsOwn
  <2>4. CASE Release(s)
    BY <1>8, <2>4 DEF Release
  <2> QED BY <1>9, <2>1, <2>2, <2>3, <2>4 DEF Closing
<1>10. CASE Cancel(s)
  <2>1. CASE CancelWaiting(s)
    BY <1>8, <2>1 DEF CancelWaiting
  <2>2. CASE CancelSleeping(s)
    <3>1. CASE exec' = [Notified(exec, TRUE) EXCEPT ![s] = Ended(@)]
      <4>1. Notified(exec, TRUE)[s] = exec[s]
        BY <1>1, <2>2, NotifiedIs DEF CancelSleeping
      <4>2. exec' = [Notified(exec, TRUE) EXCEPT ![s] = Ended(exec[s])]
        BY <3>1, <4>1
      <4>3. Tells(Notified(exec, TRUE)) /\ Notified(exec, TRUE) \in [Sessions -> Exec]
        BY <1>2
      <4> QED BY <1>3, <4>1, <4>2, <4>3, TellsOwn
    <3> QED BY <1>8, <2>2, <3>1 DEF CancelSleeping
  <2>3. CASE CancelPermit(s)
    <3>1. PICK ep : ep = Abandoned(episode, s, exec[s].permit)
      OBVIOUS
    <3>2. exec' = [Notified(exec, ep # episode) EXCEPT ![s] = Ended(@)]
          /\ exec[s].phase # "waiting"
      BY <2>3, <3>1 DEF CancelPermit
    <3> QED BY <1>7, <3>2
  <2>4. CASE CancelAttempt(s)
    <3>1. CASE exec[s].phase = "stream"
      BY <1>1, <2>4, <3>1 DEF CancelAttempt, Tells, Exec
    <3>2. CASE exec[s].phase # "stream"
      BY <1>1, <2>4, <3>2 DEF CancelAttempt, Tells, Exec
    <3> QED BY <3>1, <3>2
  <2>5. CASE CancelReleasing(s)
    BY <1>8, <2>5 DEF CancelReleasing
  <2> QED BY <1>10, <2>1, <2>2, <2>3, <2>4, <2>5 DEF Cancel
<1> QED BY <1>5, <1>6, <1>9, <1>10
-----------------------------------------------------------------------------
(* What becomes of an episode *)

\* The recovery ep goes on in e, and is not put off.
Follows(ep, e) == ep.open /\ ep.terminal = "unset" =>
                    /\ e.open /\ e.terminal = "unset" /\ e.gen = ep.gen
                    /\ ep.ready => e.ready

\* At the gate a recovery goes on (admission.py:308-358), and an attempt is over.
LEMMA GateFollows ==
    ASSUME IInv, NEW s \in Sessions, NEW ep \in Episode, SoundEpisode(ep, ep.gen),
           ep.open /\ ep.leader = s => ~ep.probe,
           NEW ex \in [Sessions -> Exec], ToGate(s, ep, ex)
    PROVE  Follows(ep, episode') /\ exec'[s].phase # "open"
<1> DEFINE gate == Gate(ep, s)
<1>1. generation \in Nat
  BY DEF IInv, TypeOK
<1>2. CASE Barred(ex[s], gate)
  <2>1. episode' = ep /\ exec' = [ex EXCEPT ![s] = Ended(ex[s])]
    BY <1>2 DEF ToGate, SetEpisode
  <2>2. exec'[s] = Ended(ex[s])
    BY <2>1
  <2>3. Ended(ex[s]).phase # "open"
    BY EndedIs
  <2> QED BY <2>1, <2>2, <2>3 DEF Follows
<1>3. CASE ~Barred(ex[s], gate)
  <2>1. /\ episode' = gate.episode /\ gate.phase # "raised"
        /\ exec' = [ex EXCEPT ![s].phase = gate.phase, ![s].permit = gate.permit,
                              ![s].resolved = FALSE, ![s].accepted = FALSE]
    BY <1>3 DEF ToGate, SetEpisode, Barred
  <2>2. GateGives(ep, s, gate)
    BY <1>1, GateIs
  <2> HIDE DEF gate
  <2>3. gate.phase # "open"
    BY <2>2 DEF GateGives
  <2>4. exec'[s].phase = gate.phase
    BY <2>1 DEF Exec
  <2>5. Follows(ep, gate.episode)
    BY <2>1, <2>2 DEF GateGives, Follows, Episode
  <2> QED BY <2>1, <2>3, <2>4, <2>5
<1> QED BY <1>2, <1>3

\* A recovery that goes on in what goes on.
LEMMA FollowsOn ==
    ASSUME NEW ep, NEW e, NEW f, Follows(ep, e), Follows(e, f) PROVE Follows(ep, f)
BY DEF Follows

\* The recovery whose probe was given up (admission.py:644-658).
LEMMA FollowsAbandoned ==
    ASSUME IInv, NEW s \in Sessions, NEW ep, ep = Abandoned(episode, s, exec[s].permit)
    PROVE  Follows(episode, ep)
<1>1. episode \in Episode
  BY DEF IInv, TypeOK
<1>2. CASE Matches(episode, s, exec[s].permit)
  <2>1. ep = [episode EXCEPT !.leader = None, !.probe = FALSE, !.ready = TRUE]
    BY <1>2 DEF Abandoned
  <2> QED BY <1>1, <2>1 DEF Follows, Episode
<1>3. CASE ~Matches(episode, s, exec[s].permit)
  BY <1>3 DEF Follows, Abandoned
<1> QED BY <1>2, <1>3

\* The attempt that is resolved changes its execution, and after it the recovery goes on as
\* the outcome has left it.
LEMMA ResolvedFollows ==
    ASSUME IInv, NEW s \in Sessions, InAttempt(s), NEW ep \in Episode, SoundEpisode(ep, ep.gen),
           ep.open /\ ep.leader = s => ~ep.probe,
           NEW ex \in [Sessions -> Exec], NEW again \in BOOLEAN, Resolved(s, ep, ex, again)
    PROVE  Follows(ep, episode') /\ exec'[s] # exec[s]
<1>1. exec[s].phase \in {"open", "stream"} /\ ~exec[s].resolved /\ exec[s] \in Exec
  BY DEF InAttempt, IInv, TypeOK
<1>2. CASE exec[s].phase = "stream"
  <2>1. episode' = ep
        /\ exec' = [ex EXCEPT ![s].phase = "closing", ![s].resolved = TRUE, ![s].again = again]
    BY <1>2 DEF Resolved, SetEpisode
  <2>2. exec'[s].phase = "closing"
    BY <2>1 DEF Exec
  <2> QED BY <1>2, <2>1, <2>2 DEF Follows
<1>3. CASE exec[s].phase # "stream" /\ again
  <2>1. ToGate(s, ep, ex)
    BY <1>3 DEF Resolved
  <2>2. exec[s].phase = "open"
    BY <1>1, <1>3
  <2>3. Follows(ep, episode') /\ exec'[s].phase # "open"
    BY <2>1, GateFollows
  <2> QED BY <2>2, <2>3
<1>4. CASE exec[s].phase # "stream" /\ ~again
  <2>1. episode' = ep /\ exec' = [ex EXCEPT ![s] = Ended(ex[s])]
    BY <1>4 DEF Resolved, SetEpisode
  <2>2. exec'[s] = Ended(ex[s]) /\ Ended(ex[s]).phase # "open"
    BY <2>1, EndedIs
  <2> QED BY <1>1, <1>4, <2>1, <2>2 DEF Follows
<1> QED BY <1>2, <1>3, <1>4

\* The step of the probe's own execution, which alone may close, put off or end the recovery.
Decides(s) == /\ Matches(episode, s, exec[s].permit) /\ exec'[s] # exec[s]
              /\ episode'.terminal = "cooling" => FailFinally(s)

\* The outcome of an attempt decides about the recovery as the outcome of its probe, or not at
\* all (admission.py:413-626).
LEMMA OutcomeDecides ==
    ASSUME IInv, NEW s \in Sessions,
           Accept(s) \/ Reject(s) \/ Correct(s) \/ FailAndRetry(s) \/ FailFinally(s)
    PROVE  Follows(episode, episode') \/ Decides(s)
<1>1. /\ exec \in [Sessions -> Exec] /\ exec[s] \in Exec /\ episode \in Episode
      /\ SoundEpisode(episode, episode.gen) /\ generation \in Nat
  BY DEF IInv, TypeOK, SoundEpisode, Episode
<1>2. InAttempt(s) /\ exec[s].phase \in {"open", "stream"} /\ ~exec[s].resolved
  <2>1. Correct(s) => InAttempt(s)
    BY DEF IInv, Sound, Correct, InAttempt
  <2> QED BY <2>1 DEF Accept, Reject, FailAndRetry, FailFinally, InAttempt
<1>3. TRUE \in BOOLEAN /\ FALSE \in BOOLEAN
  OBVIOUS
<1>4. CASE Accept(s) \/ Reject(s)
  <2>1. PICK ep : ep = ProbeClosed(s)
    OBVIOUS
  <2>2. PICK ex : ex = Notified(exec, ep # episode)
    OBVIOUS
  <2>3. /\ ep \in Episode /\ SoundEpisode(ep, ep.gen) /\ ex \in [Sessions -> Exec]
        /\ ~(ep.open /\ ep.leader = s)
    BY <1>2, <2>1, <2>2, ProbeClosedIs
  <2>4. CASE Accept(s)
    <3>1. episode' = ep /\ exec' = [ex EXCEPT ![s].resolved = TRUE, ![s].accepted = TRUE]
      BY <2>1, <2>2, <2>4 DEF Accept, SetEpisode
    <3>2. exec'[s].resolved = TRUE
      BY <2>3, <3>1 DEF Exec
    <3>3. exec'[s] # exec[s]
      BY <1>2, <3>2
    <3>4. CASE Matches(episode, s, exec[s].permit)
      <4>1. episode'.terminal = "unset"
        BY <2>1, <3>1, <3>4 DEF ProbeClosed, NoEpisode
      <4> QED BY <3>3, <3>4, <4>1 DEF Decides
    <3>5. CASE ~Matches(episode, s, exec[s].permit)
      BY <2>1, <3>1, <3>5 DEF ProbeClosed, Follows
    <3> QED BY <3>4, <3>5
  <2>5. CASE Reject(s)
    <3>1. Resolved(s, ep, ex, FALSE)
      BY <2>1, <2>2, <2>5 DEF Reject
    <3>2. Follows(ep, episode') /\ exec'[s] # exec[s]
      BY <1>2, <1>3, <2>3, <3>1, ResolvedFollows
    <3>3. episode' = ep
      BY <3>1 DEF Resolved, SetEpisode
    <3>4. CASE Matches(episode, s, exec[s].permit)
      <4>1. episode'.terminal = "unset"
        BY <2>1, <3>3, <3>4 DEF ProbeClosed, NoEpisode
      <4> QED BY <3>2, <3>4, <4>1 DEF Decides
    <3>5. CASE ~Matches(episode, s, exec[s].permit)
      BY <2>1, <3>3, <3>5 DEF ProbeClosed, Follows
    <3> QED BY <3>4, <3>5
  <2> QED BY <1>4, <2>4, <2>5
<1>5. ~Matches(episode, s, exec[s].permit) => ~(episode.open /\ episode.leader = s)
  BY <1>2, ProberMatches
<1>6. CASE Correct(s)
  <2>1. PICK b \in BOOLEAN : b = Matches(episode, s, exec[s].permit)
    BY Zenon DEF Matches
  <2>2. PICK ep : ep = IF Matches(episode, s, exec[s].permit)
                       THEN [episode EXCEPT !.probe = FALSE, !.ready = TRUE] ELSE episode
    OBVIOUS
  <2>3. PICK ex : ex = Notified(exec, b)
    OBVIOUS
  <2>4. Resolved(s, ep, ex, TRUE)
    BY <1>6, <2>1, <2>2, <2>3 DEF Correct
  <2>5. ex \in [Sessions -> Exec]
    BY <1>1, <2>3, NotifiedIs
  <2>6. /\ ep \in Episode /\ SoundEpisode(ep, ep.gen) /\ (ep.open /\ ep.leader = s => ~ep.probe)
        /\ Follows(episode, ep)
    <3>1. CASE Matches(episode, s, exec[s].permit)
      <4>1. ep = [episode EXCEPT !.probe = FALSE, !.ready = TRUE]
        BY <2>2, <3>1
      <4>2. ep \in Episode /\ SoundEpisode(ep, ep.gen) /\ ~ep.probe
        BY <1>3, <3>1, <4>1, ProbeAgainIs
      <4>3. Follows(episode, ep)
        BY <1>1, <4>1 DEF Follows, Episode
      <4> QED BY <4>2, <4>3
    <3>2. CASE ~Matches(episode, s, exec[s].permit)
      <4>1. ep = episode
        BY <2>2, <3>2
      <4> QED BY <1>1, <1>5, <3>2, <4>1 DEF Follows
    <3> QED BY <3>1, <3>2
  <2>7. Follows(ep, episode')
    BY <1>2, <1>3, <2>4, <2>5, <2>6, ResolvedFollows
  <2> QED BY <2>6, <2>7, FollowsOn
<1>7. CASE FailAndRetry(s)
  <2>1. PICK c \in BOOLEAN : c = (exec[s].failed
           \/ ((episode.open /\ ~Matches(episode, s, exec[s].permit))
               /\ episode.terminal # "unset"))
    BY Zenon
  <2>2. PICK ex0 : ex0 = [exec EXCEPT ![s].failed = c]
    OBVIOUS
  <2>3. PICK ex : ex = Notified(ex0, TRUE)
    OBVIOUS
  <2>4. PICK ep : ep = FailedEpisode(s)
    OBVIOUS
  <2>5. Resolved(s, ep, ex, TRUE)
    BY <1>7, <2>1, <2>2, <2>3, <2>4 DEF FailAndRetry
  <2>6. ex0 \in [Sessions -> Exec]
    BY <1>1, <2>2 DEF Exec
  <2>7. ex \in [Sessions -> Exec]
    BY <2>3, <2>6, NotifiedIs
  <2>8. CASE ~episode.open
    BY <2>8 DEF Follows
  <2>9. CASE Matches(episode, s, exec[s].permit)
    <3>1. episode.open /\ episode.terminal = "unset"
      BY <2>9, MatchesIs
    <3>2. ep = [episode EXCEPT !.probe = FALSE, !.ready = FALSE]
      BY <2>4, <2>9, <3>1 DEF FailedEpisode
    <3>3. ep \in Episode /\ SoundEpisode(ep, ep.gen) /\ ~ep.probe
      BY <1>3, <2>9, <3>2, ProbeAgainIs
    <3>4. ep.open /\ ep.terminal = "unset"
      BY <1>1, <3>1, <3>2 DEF Episode
    <3>5. Follows(ep, episode') /\ exec'[s] # exec[s]
      BY <1>2, <1>3, <2>5, <2>7, <3>3, ResolvedFollows
    <3> QED BY <2>9, <3>4, <3>5 DEF Follows, Decides
  <2>10. CASE episode.open /\ ~Matches(episode, s, exec[s].permit)
    <3>1. ep = IF episode.terminal = "unset" THEN [episode EXCEPT !.waiters = @ \cup {s}]
                                             ELSE episode
      BY <2>4, <2>10 DEF FailedEpisode
    <3>2. /\ ep \in Episode /\ ep.open = episode.open /\ ep.leader = episode.leader
          /\ ep.gen = episode.gen /\ ep.probe = episode.probe /\ ep.ready = episode.ready
          /\ ep.terminal = episode.terminal
          /\ ep.terminal # "unset" => ep.waiters = episode.waiters
      BY <1>1, <3>1 DEF Episode
    <3>3. SoundEpisode(ep, ep.gen) /\ Follows(episode, ep)
      BY <1>1, <2>10, <3>2 DEF SoundEpisode, Follows
    <3>4. Follows(ep, episode')
      BY <1>2, <1>3, <1>5, <2>5, <2>7, <2>10, <3>2, <3>3, ResolvedFollows
    <3> QED BY <3>3, <3>4, FollowsOn
  <2> QED BY <2>8, <2>9, <2>10
<1>8. CASE FailFinally(s)
  <2>1. CASE ~episode.open
    BY <2>1 DEF Follows
  <2>2. CASE Matches(episode, s, exec[s].permit)
    <3>1. episode.open /\ episode.gen >= 1
      BY <2>2, MatchesIs
    <3>2. PICK ep : ep = [episode EXCEPT !.leader = None, !.probe = FALSE, !.waiters = {},
                                         !.terminal = "cooling"]
      OBVIOUS
    <3>3. PICK ex : ex = Notified(Exhausted(episode.waiters), TRUE)
      OBVIOUS
    <3>4. Resolved(s, ep, ex, FALSE)
      BY <1>8, <2>2, <3>1, <3>2, <3>3 DEF FailFinally
    <3>5. /\ ep \in Episode /\ ep.open /\ ep.gen >= 1 /\ ep.leader = None /\ ~ep.probe
          /\ ep.waiters = {} /\ ep.terminal = "cooling"
      BY <1>1, <3>1, <3>2 DEF Episode
    <3>6. SoundEpisode(ep, ep.gen)
      BY <3>5 DEF SoundEpisode, Episode
    <3>7. ex \in [Sessions -> Exec]
      <4>1. Exhausted(episode.waiters) \in [Sessions -> Exec]
        BY TellsExhausted
      <4> QED BY <3>3, <4>1, NotifiedIs
    <3>8. exec'[s] # exec[s]
      BY <1>2, <1>3, <3>4, <3>5, <3>6, <3>7, ResolvedFollows
    <3> QED BY <1>8, <2>2, <3>8 DEF Decides
  <2>3. CASE episode.open /\ ~Matches(episode, s, exec[s].permit)
    <3>1. Resolved(s, episode, exec, FALSE)
      BY <1>8, <2>3 DEF FailFinally
    <3> QED BY <1>1, <1>2, <1>3, <1>5, <2>3, <3>1, ResolvedFollows
  <2> QED BY <2>1, <2>2, <2>3
<1> QED BY <1>4, <1>6, <1>7, <1>8

\* No other step of an execution decides about a recovery (admission.py:250-378, 477-491,
\* 644-675).
LEMMA OnlyProbesDecide ==
    ASSUME IInv, NEW s \in Sessions, Admission(s) \/ Upstream(s) \/ Closing(s) \/ Cancel(s)
    PROVE  Follows(episode, episode') \/ Decides(s)
<1>1. /\ exec \in [Sessions -> Exec] /\ exec[s] \in Exec /\ episode \in Episode
      /\ SoundEpisode(episode, episode.gen) /\ generation \in Nat
  BY DEF IInv, TypeOK, SoundEpisode, Episode
<1>2. ASSUME UNCHANGED episode PROVE Follows(episode, episode')
  BY <1>2 DEF Follows
<1>3. ASSUME ToGate(s, episode, exec), Arrives(episode, exec[s], s)
      PROVE  Follows(episode, episode')
  <2>1. episode.open /\ episode.leader = s => ~episode.probe
    BY <1>3 DEF Arrives
  <2> QED BY <1>1, <1>3, <2>1, GateFollows
<1>4. ASSUME StalePermit(s), exec[s].phase \in {"rate", "slot"}
      PROVE  Follows(episode, episode')
  <2>1. PICK ep : ep = Abandoned(episode, s, exec[s].permit)
    OBVIOUS
  <2>2. PICK ex : ex = Notified(exec, ep # episode)
    OBVIOUS
  <2>3. ToGate(s, ep, ex)
    BY <1>4, <2>1, <2>2 DEF StalePermit
  <2>4. ex \in [Sessions -> Exec]
    BY <1>1, <2>2, NotifiedIs
  <2>5. ep \in Episode /\ SoundEpisode(ep, ep.gen) /\ (ep.open /\ ep.leader = s => ~ep.probe)
    <3>1. CASE Matches(episode, s, exec[s].permit)
      BY <2>1, <3>1, AbandonedIs
    <3>2. CASE ~Matches(episode, s, exec[s].permit)
      <4>1. ep = episode
        BY <2>1, <3>2 DEF Abandoned
      <4>2. ~(episode.open /\ episode.leader = s)
        BY <1>4, <3>2, ProberMatches
      <4> QED BY <1>1, <4>1, <4>2
    <3> QED BY <3>1, <3>2
  <2>6. Follows(ep, episode')
    BY <2>3, <2>4, <2>5, GateFollows
  <2>7. Follows(episode, ep)
    BY <2>1, FollowsAbandoned
  <2> QED BY <2>6, <2>7, FollowsOn
<1>5. ASSUME SetEpisode(Abandoned(episode, s, exec[s].permit))
      PROVE  Follows(episode, episode')
  <2>1. PICK ep : ep = Abandoned(episode, s, exec[s].permit)
    OBVIOUS
  <2>2. episode' = ep
    BY <1>5, <2>1 DEF SetEpisode
  <2> QED BY <2>1, <2>2, FollowsAbandoned
<1>6. CASE Admission(s)
  <2>1. CASE Start(s) \/ Awake(s)
    <3>1. exec[s].phase \in {"new", "woken"} /\ ToGate(s, episode, exec)
      BY <2>1 DEF Start, Awake
    <3>2. Arrives(episode, exec[s], s)
      BY <3>1, ArrivesFrom
    <3> QED BY <1>3, <3>1, <3>2
  <2>2. CASE Wake(s)
    <3>1. CASE SleepsAsLeader(s) /\ episode.terminal = "unset"
      <4>1. episode' = [episode EXCEPT !.probe = TRUE]
        BY <2>2, <3>1 DEF Wake, SetEpisode
      <4> QED BY <1>1, <4>1 DEF Follows, Episode
    <3>2. CASE ~SleepsAsLeader(s)
      <4>1. exec[s].phase = "sleeping" /\ ToGate(s, episode, exec)
        BY <2>2, <3>2 DEF Wake
      <4>2. Arrives(episode, exec[s], s)
        BY <3>2, <4>1, ArrivesFrom
      <4> QED BY <1>3, <4>1, <4>2
    <3>3. CASE SleepsAsLeader(s) /\ episode.terminal # "unset"
      BY <3>3 DEF Follows
    <3> QED BY <3>1, <3>2, <3>3
  <2>3. CASE PassRate(s)
    BY <1>2, <1>4, <2>3 DEF PassRate
  <2>4. CASE TakeSlot(s)
    BY <1>2, <1>4, <2>4 DEF TakeSlot
  <2> QED BY <1>6, <2>1, <2>2, <2>3, <2>4 DEF Admission
<1>7. CASE Upstream(s)
  <2>1. CASE StreamOpens(s) \/ StreamEnds(s)
    BY <1>2, <2>1 DEF StreamOpens, StreamEnds
  <2>2. CASE ContinueMidstream(s)
    <3>1. PICK ex : ex = [exec EXCEPT ![s].outer = TRUE]
      OBVIOUS
    <3>2. ToGate(s, episode, ex) /\ ex \in [Sessions -> Exec]
          /\ exec[s].phase = "stream" /\ exec[s].accepted
      BY <1>1, <2>2, <3>1 DEF ContinueMidstream, Exec
    <3>3. ~(episode.open /\ episode.leader = s)
      BY <3>2, ProberMatches
    <3> QED BY <1>1, <3>2, <3>3, GateFollows
  <2> QED BY <1>7, <2>1, <2>2, OutcomeDecides DEF Upstream
<1>8. CASE Closing(s)
  <2>1. CASE CloseStream(s)
    <3>1. CASE exec[s].resolved /\ exec[s].again
      <4>1. ToGate(s, episode, exec) /\ exec[s].phase = "closing"
        BY <2>1, <3>1 DEF CloseStream
      <4>2. Arrives(episode, exec[s], s)
        BY <3>1, <4>1, ArrivesFrom
      <4> QED BY <1>3, <4>1, <4>2
    <3>2. CASE ~(exec[s].resolved /\ exec[s].again)
      BY <1>2, <2>1, <3>2 DEF CloseStream
    <3> QED BY <3>1, <3>2
  <2>2. CASE CloseRaises(s) \/ Release(s)
    BY <1>2, <2>2 DEF CloseRaises, Release
  <2>3. CASE Abandon(s)
    BY <1>5, <2>3 DEF Abandon
  <2> QED BY <1>8, <2>1, <2>2, <2>3 DEF Closing
<1>9. CASE Cancel(s)
  <2>1. CASE CancelWaiting(s)
    <3>1. episode' = IF episode.gen = exec[s].permit
                     THEN [episode EXCEPT !.waiters = @ \ {s}] ELSE episode
      BY <2>1 DEF CancelWaiting, SetEpisode
    <3> QED BY <1>1, <3>1 DEF Follows, Episode
  <2>2. CASE CancelSleeping(s)
    <3>1. episode' = episode \/ episode' = [episode EXCEPT !.leader = None]
      BY <2>2 DEF CancelSleeping, SetEpisode, LeaderLeft
    <3> QED BY <1>1, <3>1 DEF Follows, Episode
  <2>3. CASE CancelPermit(s)
    BY <1>5, <2>3 DEF CancelPermit
  <2>4. CASE CancelAttempt(s) \/ CancelReleasing(s)
    BY <1>2, <2>4 DEF CancelAttempt, CancelReleasing
  <2> QED BY <1>9, <2>1, <2>2, <2>3, <2>4 DEF Cancel
<1> QED BY <1>6, <1>7, <1>8, <1>9

\* The execution that spends the budget of a recovery's probe tells everybody who waits for
\* it, or is on the way from it (admission.py:527-548).
LEMMA EverybodyIsTold ==
    ASSUME IInv, NEW s \in Sessions, FailFinally(s), Matches(episode, s, exec[s].permit),
           NEW t \in Sessions, exec[t].phase \in {"waiting", "woken"},
           exec[t].permit = episode.gen
    PROVE  exec'[t].failed
<1>1. episode.open /\ episode.terminal = "unset"
  BY MatchesIs
<1>2. t \in episode.waiters
  <2>1. Placed(episode, exec[t], t)
    BY DEF IInv
  <2> QED BY <1>1, <2>1 DEF Placed
<1>3. exec[s].phase \in {"open", "stream"} /\ s # t
  BY DEF FailFinally, InAttempt
<1>4. PICK ep : ep = [episode EXCEPT !.leader = None, !.probe = FALSE, !.waiters = {},
                                     !.terminal = "cooling"]
  OBVIOUS
<1>5. PICK ex0 : ex0 = Exhausted(episode.waiters)
  OBVIOUS
<1>6. PICK ex : ex = Notified(ex0, TRUE)
  OBVIOUS
<1>7. Resolved(s, ep, ex, FALSE)
  BY <1>1, <1>4, <1>5, <1>6 DEF FailFinally
<1>8. ex0 \in [Sessions -> Exec] /\ ex0[t].failed
  BY <1>2, <1>5, TellsExhausted
<1>9. ex \in [Sessions -> Exec] /\ ex[t].failed
  <2>1. ex \in [Sessions -> Exec]
        /\ ex[t] = IF ex0[t].phase = "waiting" THEN [ex0[t] EXCEPT !.phase = "woken"]
                                               ELSE ex0[t]
    BY <1>6, <1>8, NotifiedIs
  <2>2. [ex0[t] EXCEPT !.phase = "woken"].failed = ex0[t].failed
    BY <1>8 DEF Exec
  <2> QED BY <1>8, <2>1, <2>2
<1>10. exec'[t] = ex[t]
  BY <1>3, <1>7, <1>9 DEF Resolved
<1> QED BY <1>9, <1>10

-----------------------------------------------------------------------------
(* The action properties *)

\* An attempt that opens was admitted under the recovery as it is then.
LEMMA OpensStep ==
    IInv /\ [Next]_vars =>
      [\A s \in Sessions : exec'[s].attempts > exec[s].attempts =>
          \/ ~episode.open
          \/ episode.terminal = "unset" /\ episode.leader = s
             /\ episode.probe /\ exec[s].permit = episode.gen]_vars
<1> SUFFICES ASSUME IInv, Next, NEW s \in Sessions, exec'[s].attempts > exec[s].attempts
             PROVE  \/ ~episode.open
                    \/ episode.terminal = "unset" /\ episode.leader = s
                       /\ episode.probe /\ exec[s].permit = episode.gen
  OBVIOUS
<1>1. exec \in [Sessions -> Exec] /\ exec[s].attempts \in Int
  BY DEF IInv, TypeOK, Exec
<1>2. exec'[s].attempts # exec[s].attempts
  BY <1>1
<1>3. PICK r \in Sessions : Admission(r) \/ Upstream(r) \/ Closing(r) \/ Cancel(r)
  BY <1>2 DEF Next, DelayElapses, CooldownEnds
<1>4. Opens(r)
  BY <1>2, <1>3, OnlySlotsOpen DEF Tells
<1>5. r = s
  BY <1>1, <1>2, <1>4 DEF Opens
<1> QED BY <1>4, <1>5 DEF Opens, PermitIsCurrent, Matches

\* An open recovery is closed, put off or ended by the execution that holds its probe.
LEMMA DecidesStep ==
    IInv /\ [Next]_vars =>
      [episode.open /\ episode.terminal = "unset"
       /\ \/ ~episode'.open \/ episode'.terminal # "unset"
          \/ episode.ready /\ ~episode'.ready
          \/ episode'.gen # episode.gen
       => /\ episode.probe /\ episode.leader # None
          /\ exec[episode.leader].permit = episode.gen
          /\ exec'[episode.leader] # exec[episode.leader]]_vars
<1> SUFFICES ASSUME IInv, Next, episode.open, episode.terminal = "unset",
                    \/ ~episode'.open \/ episode'.terminal # "unset"
                    \/ episode.ready /\ ~episode'.ready
                    \/ episode'.gen # episode.gen
             PROVE  /\ episode.probe /\ episode.leader # None
                    /\ exec[episode.leader].permit = episode.gen
                    /\ exec'[episode.leader] # exec[episode.leader]
  OBVIOUS
<1>1. ~Follows(episode, episode')
  BY DEF Follows
<1>2. episode \in Episode
  BY DEF IInv, TypeOK
<1>3. ~DelayElapses /\ ~CooldownEnds
  BY <1>1, <1>2 DEF DelayElapses, CooldownEnds, Follows, Episode
<1>4. PICK s \in Sessions : Admission(s) \/ Upstream(s) \/ Closing(s) \/ Cancel(s)
  BY <1>3 DEF Next
<1>5. Decides(s)
  BY <1>1, <1>4, OnlyProbesDecide
<1> QED BY <1>5, MatchesIs DEF Decides

\* Who was told of the exhaustion attempts nothing and stays told.
LEMMA FailedStep ==
    IInv /\ [Next]_vars =>
      [\A s \in Sessions :
          exec[s].failed => exec'[s].attempts = exec[s].attempts /\ exec'[s].failed]_vars
<1> SUFFICES ASSUME IInv, Next, NEW s \in Sessions, exec[s].failed
             PROVE  exec'[s].attempts = exec[s].attempts /\ exec'[s].failed
  OBVIOUS
<1>1. exec \in [Sessions -> Exec] /\ Sound(exec[s], generation)
  BY DEF IInv, TypeOK
<1>2. CASE \E r \in Sessions : Admission(r) \/ Upstream(r) \/ Closing(r) \/ Cancel(r)
  <2>1. PICK r \in Sessions : Admission(r) \/ Upstream(r) \/ Closing(r) \/ Cancel(r)
    BY <1>2
  <2>2. CASE Tells(exec')
    BY <2>2 DEF Tells
  <2>3. CASE Opens(r)
    <3>1. r # s
      BY <1>1, <2>3 DEF Opens, Sound
    <3>2. exec'[s] = exec[s]
      BY <1>1, <2>3, <3>1 DEF Opens
    <3> QED BY <3>2
  <2> QED BY <2>1, <2>2, <2>3, OnlySlotsOpen
<1>3. CASE DelayElapses \/ CooldownEnds
  BY <1>3 DEF DelayElapses, CooldownEnds
<1> QED BY <1>2, <1>3 DEF Next

\* When a recovery is exhausted, everybody who waits for it is told.
LEMMA ToldStep ==
    IInv /\ [Next]_vars =>
      [episode.open /\ episode.terminal = "unset" /\ episode'.terminal = "cooling" =>
          \A s \in Sessions :
             exec[s].phase \in {"waiting", "woken"} /\ exec[s].permit = episode.gen
             => exec'[s].failed]_vars
<1> SUFFICES ASSUME IInv, Next, episode.open, episode.terminal = "unset",
                    episode'.terminal = "cooling", NEW t \in Sessions,
                    exec[t].phase \in {"waiting", "woken"}, exec[t].permit = episode.gen
             PROVE  exec'[t].failed
  OBVIOUS
<1>1. ~Follows(episode, episode')
  BY DEF Follows
<1>2. episode \in Episode
  BY DEF IInv, TypeOK
<1>3. ~DelayElapses /\ ~CooldownEnds
  BY <1>1, <1>2 DEF DelayElapses, CooldownEnds, Follows, Episode
<1>4. PICK s \in Sessions : Admission(s) \/ Upstream(s) \/ Closing(s) \/ Cancel(s)
  BY <1>3 DEF Next
<1>5. FailFinally(s) /\ Matches(episode, s, exec[s].permit)
  BY <1>1, <1>4, OnlyProbesDecide DEF Decides
<1> QED BY <1>5, EverybodyIsTold

\* admission.py:397-412, 628-642: during a recovery only the leader's probe reaches the
\* upstream, and only its outcome closes, extends or ends the episode, however late a stale
\* success or failure comes.
THEOREM ProbesDecide == Spec => OnlyTheProbeDecides
BY AdmissionSound, OpensStep, DecidesStep, PTL
   DEF Spec, OnlyTheProbeDecides, OnlyProbesOpen, StaleResultsAreVoid

\* admission.py:69-76, 527-548: an exhausted recovery is told to everybody who waits for it,
\* and is the end of every execution that was told, in whatever recovery follows.
THEOREM ExhaustionIsKept == Spec => ExhaustionHolds
BY AdmissionSound, FailedStep, ToldStep, PTL
   DEF Spec, ExhaustionHolds, ExhaustionIsFinal, ExhaustionIsShared
=============================================================================
