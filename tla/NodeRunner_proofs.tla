-------------------------- MODULE NodeRunner_proofs --------------------------
(***************************************************************************)
(* No CLI process is lost.  A runner knows its session by the pending id   *)
(* it started with, or by the id the CLI told it; the manager's maps and   *)
(* what the runners know agree (Maps), so that the runner's last act finds *)
(* its own session and nobody else's; and a session that no map knows any  *)
(* more was stopped for good, so that it launches nothing again.           *)
(***************************************************************************)
EXTENDS NodeRunner, TLAPS

Points == {"new", "launch", "spawning", "reading", "registered", "raised", "leaving",
           "removing", "done"}
Runner  == [pc : Points, key : AllIds \cup {None}, temp : AllIds \cup {None},
            learned : Ids \cup {None}, captured : Ids \cup {None}, cancels : Nat]
Turn    == [state : {"in_progress", "error", "completed"}, revoked : BOOLEAN,
            children : {"waiting", "failed"}]
Session == [process : {"none", "spawning", "live", "dead"}, pid : BOOLEAN, closed : BOOLEAN]
Sweep   == [left : SUBSET Runners, count : Nat]

TypeOK ==
    /\ runner \in [Runners -> Runner] /\ claim \in [Runners -> Turn]
    /\ session \in [Runners -> Session]
    /\ DOMAIN pending \subseteq AllIds /\ \A i \in DOMAIN pending : pending[i] \in Runners
    /\ DOMAIN owned \subseteq Ids /\ \A i \in DOMAIN owned : owned[i] \in Runners
    /\ DOMAIN alias \subseteq AllIds /\ \A t \in DOMAIN alias : alias[t] \in Ids
    /\ closing \subseteq Runners /\ sweep \in Sweep

Live(r) == runner[r].pc \notin {"new", "done"}

\* A process runs only in a session that can be found; what cannot be found was stopped for
\* good, or never started.
Processes(r) ==
    /\ runner[r].pc = "spawning" <=> session[r].process = "spawning"
    /\ session[r].process = "live" => session[r].pid
    /\ runner[r].pc = "new" => session[r].process = "none" /\ ~Known(r)
    /\ runner[r].pc # "new" /\ ~Known(r) =>
         session[r].process = "none" /\ (session[r].closed \/ runner[r].pc = "done")

\* Which ids a runner knows, and as what, at each point of its way.
Knows(r) ==
    /\ runner[r].key \in Ids \cup {Temp[r], None}
    /\ runner[r].pc = "new" => /\ runner[r].key = None /\ runner[r].temp = None
                               /\ runner[r].learned = None /\ runner[r].captured = None
    /\ Live(r) => /\ runner[r].key # None
                  /\ runner[r].captured = None => runner[r].temp = runner[r].key
                  /\ runner[r].captured # None => /\ runner[r].temp = None
                                                  /\ runner[r].captured = runner[r].learned
    /\ runner[r].pc \in {"launch", "spawning"} => runner[r].learned = None
    /\ runner[r].pc = "reading" /\ runner[r].learned # None => runner[r].temp = None
    /\ runner[r].pc = "registered" => runner[r].learned # None

\* A turn is settled before its runner leaves, and its session removed before it is done.
Settled(r) ==
    /\ claim[r].revoked => claim[r].state # "in_progress"
    /\ runner[r].pc \in {"leaving", "removing", "done"} => claim[r].state # "in_progress"
    /\ claim[r].children = "failed" =>
         claim[r].state = "error" /\ runner[r].pc \in {"leaving", "removing", "done"}
    /\ runner[r].pc = "done" => (Known(r) => r \in closing \/ runner[r].cancels > 1)
    /\ runner[r].pc = "removing" <=> holder = r
    /\ runner[r].pc = "removing" => r \in closing

\* The maps lead to the runners that know the ids they are under.
MapsLead ==
    /\ \A i \in DOMAIN pending : LET r == pending[i]
                                 IN  /\ runner[r].key = i /\ runner[r].learned = None
                                     /\ runner[r].pc # "new"
    /\ \A i \in DOMAIN owned :
         LET r == owned[i]
         IN  /\ runner[r].learned = i /\ runner[r].pc # "new"
             /\ Live(r) /\ runner[r].captured = None => runner[r].key \in DOMAIN alias
    /\ \A t \in DOMAIN alias : /\ alias[t] \in DOMAIN owned
                               /\ runner[owned[alias[t]]].key = t

\* The ids of a runner on its way are nobody else's, and the maps know them as its own.
IdsAreOwn ==
    /\ \A r, s \in Runners : r # s /\ runner[r].learned # None =>
                                 runner[r].learned # runner[s].learned
    /\ \A r, s \in Runners : r # s /\ Live(r) /\ Live(s) => runner[r].key # runner[s].key
    /\ \A r, s \in Runners : Live(r) /\ runner[r].learned # None =>
                                 runner[s].key # runner[r].learned
    /\ \A r \in Runners : Live(r) =>
         LET k == runner[r].key
         IN  /\ k \notin DOMAIN owned
             /\ k \in DOMAIN alias => alias[k] = runner[r].learned
             /\ k \in DOMAIN pending => pending[k] = r

Maps == MapsLead /\ IdsAreOwn

IInv == /\ TypeOK /\ Maps
        /\ \A r \in Runners : Processes(r) /\ Knows(r) /\ Settled(r)

-----------------------------------------------------------------------------
\* What makes a session known to the manager.
LEMMA KnownIs ==
    ASSUME NEW r
    PROVE  /\ Known(r) <=> \/ \E i \in DOMAIN pending : pending[i] = r
                           \/ \E i \in DOMAIN owned : owned[i] = r
                           \/ r \in closing
           /\ Known(r)' <=> \/ \E i \in DOMAIN pending' : pending'[i] = r
                            \/ \E i \in DOMAIN owned' : owned'[i] = r
                            \/ r \in closing'
BY DEF Known, Range

\* A temporary id is its runner's own.
LEMMA TempIs ==
    ASSUME RunnerAssumption, NEW r \in Runners
    PROVE  /\ Temp[r] \in AllIds /\ Temp[r] \notin Ids /\ Temp[r] # None
           /\ \A s \in Runners : s # r => Temp[s] # Temp[r]
BY DEF RunnerAssumption, AllIds, Range

LEMMA InitOwns == ASSUME RunnerAssumption, Init PROVE IInv
<1>1. DOMAIN pending = {} /\ DOMAIN owned = {} /\ DOMAIN alias = {}
  BY DEF Init, Empty
<1>2. TypeOK
  BY <1>1 DEF Init, TypeOK, Runner, Turn, Session, Sweep, Points
<1>3. MapsLead
  BY <1>1 DEF MapsLead
<1>4. IdsAreOwn
  BY <1>1 DEF IdsAreOwn, Init, Live
<1>5. ASSUME NEW r \in Runners PROVE Processes(r) /\ Knows(r) /\ Settled(r)
  <2>1. ~Known(r)
    BY <1>1, KnownIs DEF Init
  <2>2. /\ runner[r].pc = "new" /\ runner[r].key = None /\ runner[r].temp = None
        /\ runner[r].learned = None /\ runner[r].captured = None
        /\ claim[r].state = "in_progress" /\ ~claim[r].revoked /\ claim[r].children = "waiting"
        /\ session[r].process = "none" /\ holder # r
    BY DEF Init, RunnerAssumption
  <2> QED BY <2>1, <2>2 DEF Processes, Knows, Settled, Live
<1> QED BY <1>2, <1>3, <1>4, <1>5 DEF IInv, Maps

-----------------------------------------------------------------------------
(* Steps of one runner, or on its session *)

\* The maps stay, or lose entries: an alias goes with the entry it leads to.
Shrinks ==
    /\ DOMAIN pending' \subseteq DOMAIN pending
    /\ \A i \in DOMAIN pending' : pending'[i] = pending[i]
    /\ DOMAIN owned' \subseteq DOMAIN owned /\ \A i \in DOMAIN owned' : owned'[i] = owned[i]
    /\ DOMAIN alias' \subseteq DOMAIN alias /\ \A t \in DOMAIN alias' : alias'[t] = alias[t]
    /\ \A t \in DOMAIN alias : t \in DOMAIN alias' <=> alias[t] \in DOMAIN owned'

\* The step is r's, or one on its session: of the others nothing changes.
Own(r) ==
    /\ runner' \in [Runners -> Runner] /\ claim' \in [Runners -> Turn]
    /\ session' \in [Runners -> Session]
    /\ closing' \subseteq Runners /\ sweep' \in Sweep
    /\ Shrinks
    /\ \A s \in Runners \ {r} :
         /\ runner'[s] = runner[s] /\ claim'[s] = claim[s] /\ session'[s] = session[s]
         /\ s \in closing' <=> s \in closing
         /\ holder' = s <=> holder = s
         /\ Known(s)' <=> Known(s)

\* Its ids stay its ids, and it does not come back.
Goes(r) ==
    /\ (runner[r].pc # "new" => runner'[r].pc # "new") /\ (Live(r)' => Live(r))
    /\ runner'[r].key = runner[r].key /\ runner'[r].learned = runner[r].learned
    /\ runner'[r].captured = None => runner[r].captured = None

LEMMA OwnStep ==
    ASSUME RunnerAssumption, IInv, NEW r \in Runners, Own(r), Goes(r),
           Processes(r)', Knows(r)', Settled(r)'
    PROVE  IInv'
<1>1. TypeOK /\ MapsLead /\ IdsAreOwn /\ Shrinks
  BY DEF IInv, Maps, Own
<1>2. TypeOK'
  BY <1>1 DEF TypeOK, Own, Shrinks
<1>3. ASSUME NEW s \in Runners
      PROVE  /\ runner'[s].key = runner[s].key /\ runner'[s].learned = runner[s].learned
             /\ Live(s)' => Live(s)
             /\ runner[s].pc # "new" => runner'[s].pc # "new"
             /\ runner'[s].captured = None => runner[s].captured = None
  BY DEF Own, Goes, Live
<1>4. MapsLead'
  <2>1. \A i \in DOMAIN pending' :
          LET s == pending'[i]
          IN  runner'[s].key = i /\ runner'[s].learned = None /\ runner'[s].pc # "new"
    BY <1>1, <1>2, <1>3 DEF MapsLead, Shrinks, TypeOK
  <2>2. ASSUME NEW i \in DOMAIN owned'
        PROVE  LET s == owned'[i]
               IN  /\ runner'[s].learned = i /\ runner'[s].pc # "new"
                   /\ runner'[s].pc \notin {"new", "done"} /\ runner'[s].captured = None
                      => runner'[s].key \in DOMAIN alias'
    <3> DEFINE s == owned[i]
    <3>1. i \in DOMAIN owned /\ s \in Runners /\ owned'[i] = s
      BY <1>1, <2>2 DEF Shrinks, TypeOK
    <3>2. runner[s].learned = i /\ runner[s].pc # "new"
          /\ (Live(s) /\ runner[s].captured = None => runner[s].key \in DOMAIN alias)
      BY <1>1, <3>1 DEF MapsLead
    <3>3. ASSUME runner'[s].pc \notin {"new", "done"}, runner'[s].captured = None
          PROVE  runner'[s].key \in DOMAIN alias'
      <4>1. Live(s) /\ runner[s].key \in DOMAIN alias
        BY <1>3, <3>1, <3>2, <3>3 DEF Live
      <4>2. alias[runner[s].key] = i
        BY <1>1, <3>1, <3>2, <4>1 DEF IdsAreOwn
      <4>3. runner[s].key \in DOMAIN alias' <=> alias[runner[s].key] \in DOMAIN owned'
        BY <1>1, <4>1 DEF Shrinks
      <4>4. runner'[s].key = runner[s].key
        BY <1>3, <3>1
      <4> QED BY <2>2, <4>2, <4>3, <4>4
    <3> QED BY <1>3, <3>1, <3>2, <3>3
  <2>3. ASSUME NEW t \in DOMAIN alias'
        PROVE  alias'[t] \in DOMAIN owned' /\ runner'[owned'[alias'[t]]].key = t
    <3>1. t \in DOMAIN alias /\ alias'[t] = alias[t]
      BY <1>1, <2>3 DEF Shrinks
    <3>2. alias[t] \in DOMAIN owned'
      BY <1>1, <2>3, <3>1 DEF Shrinks
    <3>3. /\ owned'[alias[t]] = owned[alias[t]] /\ owned[alias[t]] \in Runners
          /\ runner[owned[alias[t]]].key = t
      BY <1>1, <3>1, <3>2 DEF Shrinks, MapsLead, TypeOK
    <3>4. \A s \in Runners : runner'[s].key = runner[s].key
      BY <1>3
    <3>5. runner'[owned[alias[t]]].key = t
      BY <3>3, <3>4
    <3>6. owned'[alias'[t]] = owned[alias[t]] /\ alias'[t] \in DOMAIN owned'
      BY <3>1, <3>2, <3>3
    <3> QED BY <3>5, <3>6
  <2> QED BY <2>1, <2>2, <2>3 DEF MapsLead, Live
<1>5. IdsAreOwn'
  <2>1. \A q, s \in Runners : q # s /\ runner'[q].learned # None =>
                                  runner'[q].learned # runner'[s].learned
    BY <1>1, <1>3 DEF IdsAreOwn
  <2>2. \A q, s \in Runners : q # s /\ Live(q)' /\ Live(s)' => runner'[q].key # runner'[s].key
    BY <1>1, <1>3 DEF IdsAreOwn
  <2>3. \A q, s \in Runners : Live(q)' /\ runner'[q].learned # None =>
                                  runner'[s].key # runner'[q].learned
    BY <1>1, <1>3 DEF IdsAreOwn
  <2>4. \A q \in Runners : Live(q)' =>
          LET k == runner'[q].key
          IN  /\ k \notin DOMAIN owned'
              /\ k \in DOMAIN alias' => alias'[k] = runner'[q].learned
              /\ k \in DOMAIN pending' => pending'[k] = q
    BY <1>1, <1>3 DEF IdsAreOwn, Shrinks
  <2> QED BY <2>1, <2>2, <2>3, <2>4 DEF IdsAreOwn
<1>6. ASSUME NEW s \in Runners, s # r PROVE Processes(s)' /\ Knows(s)' /\ Settled(s)'
  <2>1. /\ runner'[s] = runner[s] /\ claim'[s] = claim[s] /\ session'[s] = session[s]
        /\ s \in closing' <=> s \in closing
        /\ holder' = s <=> holder = s
        /\ Known(s)' <=> Known(s)
    BY <1>6 DEF Own
  <2>2. Processes(s) /\ Knows(s) /\ Settled(s)
    BY DEF IInv
  <2>3. Processes(s)'
    BY <2>1, <2>2 DEF Processes
  <2>4. Knows(s)'
    BY <2>1, <2>2 DEF Knows, Live
  <2>5. Settled(s)'
    BY <2>1, <2>2 DEF Settled
  <2> QED BY <2>3, <2>4, <2>5
<1> QED BY <1>2, <1>4, <1>5, <1>6 DEF IInv, Maps

LEMMA RunnerIs ==
    ASSUME IInv, NEW r \in Runners
    PROVE  /\ runner \in [Runners -> Runner] /\ runner[r] \in Runner
           /\ claim \in [Runners -> Turn] /\ claim[r] \in Turn
           /\ session \in [Runners -> Session] /\ session[r] \in Session
           /\ closing \subseteq Runners /\ sweep \in Sweep
           /\ Processes(r) /\ Knows(r) /\ Settled(r)
BY DEF IInv, TypeOK

LEMMA MapsStay ==
    ASSUME IInv, UNCHANGED maps
    PROVE  /\ Shrinks
           /\ \A s : (s \in closing' <=> s \in closing) => (Known(s)' <=> Known(s))
<1>1. UNCHANGED <<pending, owned, alias>>
  BY DEF maps
<1>2. Shrinks
  BY <1>1 DEF Shrinks, IInv, Maps, MapsLead
<1>3. \A s : (s \in closing' <=> s \in closing) => (Known(s)' <=> Known(s))
  BY <1>1, KnownIs
<1> QED BY <1>2, <1>3

\* A step of r that leaves the manager alone.
LEMMA SoloStep ==
    ASSUME RunnerAssumption, IInv, NEW r \in Runners, UNCHANGED <<maps, closing, holder, sweep>>,
           runner' \in [Runners -> Runner], claim' \in [Runners -> Turn],
           session' \in [Runners -> Session],
           \A s \in Runners \ {r} : /\ runner'[s] = runner[s] /\ claim'[s] = claim[s]
                                    /\ session'[s] = session[s],
           Goes(r),
           (Known(r)' <=> Known(r)) => Processes(r)' /\ Knows(r)' /\ Settled(r)'
    PROVE  IInv'
<1>1. UNCHANGED maps /\ closing' = closing /\ holder' = holder /\ sweep' = sweep
  OBVIOUS
<1>2. Shrinks /\ \A s : Known(s)' <=> Known(s)
  BY <1>1, MapsStay
<1>3. closing' \subseteq Runners /\ sweep' \in Sweep
  BY <1>1, RunnerIs
<1>4. Own(r)
  BY <1>1, <1>2, <1>3 DEF Own
<1> QED BY <1>2, <1>4, OwnStep

LEMMA GoIs ==
    ASSUME IInv, NEW r \in Runners, NEW pc \in Points, Go(r, pc)
    PROVE  /\ runner' \in [Runners -> Runner] /\ \A s \in Runners \ {r} : runner'[s] = runner[s]
           /\ runner'[r].pc = pc /\ runner'[r].key = runner[r].key
           /\ runner'[r].temp = runner[r].temp /\ runner'[r].learned = runner[r].learned
           /\ runner'[r].captured = runner[r].captured /\ runner'[r].cancels = runner[r].cancels
<1>1. runner \in [Runners -> Runner] /\ runner[r] \in Runner
  BY RunnerIs
<1>2. runner'[r] = [runner[r] EXCEPT !.pc = pc] /\ runner' = [runner EXCEPT ![r].pc = pc]
  BY <1>1 DEF Go
<1>3. [runner[r] EXCEPT !.pc = pc] \in Runner
  BY <1>1 DEF Runner
<1> QED BY <1>1, <1>2, <1>3 DEF Runner

\* A failed turn is settled; it fails the replies that wait for it where that is asked.
LEMMA FailIs ==
    ASSUME IInv, NEW r \in Runners, NEW propagate \in BOOLEAN, Fail(r, propagate)
    PROVE  /\ claim' \in [Runners -> Turn] /\ \A s \in Runners \ {r} : claim'[s] = claim[s]
           /\ claim'[r].revoked = claim[r].revoked /\ claim'[r].state # "in_progress"
           /\ claim'[r].children = "failed" => /\ claim'[r].state = "error"
                                               /\ propagate \/ claim[r].children = "failed"
<1>1. claim \in [Runners -> Turn] /\ claim[r] \in Turn /\ Settled(r)
  BY RunnerIs
<1>2. CASE claim[r].revoked
  <2>1. claim' = claim
    BY <1>2 DEF Fail
  <2> QED BY <1>1, <1>2, <2>1 DEF Settled
<1>3. CASE ~claim[r].revoked
  <2>1. claim' = [claim EXCEPT ![r].state = "error",
                               ![r].children = IF propagate THEN "failed" ELSE @]
    BY <1>3 DEF Fail
  <2>2. claim'[r] = [claim[r] EXCEPT !.state = "error",
                                     !.children = IF propagate THEN "failed" ELSE @]
    BY <1>1, <2>1
  <2>3. claim'[r] \in Turn
    BY <1>1, <2>2 DEF Turn
  <2> QED BY <1>1, <2>1, <2>2, <2>3 DEF Turn
<1> QED BY <1>2, <1>3

LEMMA CompleteIs ==
    ASSUME IInv, NEW r \in Runners, Complete(r)
    PROVE  /\ claim' \in [Runners -> Turn] /\ \A s \in Runners \ {r} : claim'[s] = claim[s]
           /\ claim'[r].revoked = claim[r].revoked /\ claim'[r].state # "in_progress"
           /\ claim'[r].children = claim[r].children
<1>1. claim \in [Runners -> Turn] /\ claim[r] \in Turn /\ Settled(r)
  BY RunnerIs
<1>2. CASE claim[r].revoked
  <2>1. claim' = claim
    BY <1>2 DEF Complete
  <2> QED BY <1>1, <1>2, <2>1 DEF Settled
<1>3. CASE ~claim[r].revoked
  <2>1. claim' = [claim EXCEPT ![r].state = "completed"]
    BY <1>3 DEF Complete
  <2>2. claim'[r] = [claim[r] EXCEPT !.state = "completed"] /\ claim'[r] \in Turn
    BY <1>1, <2>1 DEF Turn
  <2> QED BY <1>1, <2>1, <2>2 DEF Turn
<1> QED BY <1>2, <1>3

\* session.stop: the session is closed for good, its process ends if that is confirmed.
LEMMA StoppedIs ==
    ASSUME IInv, NEW r \in Runners, NEW confirmed \in BOOLEAN, Stopped(r, confirmed)
    PROVE  /\ session' \in [Runners -> Session]
           /\ \A s \in Runners \ {r} : session'[s] = session[s]
           /\ session[r].process # "spawning" /\ session'[r].closed
           /\ session'[r].process = IF confirmed THEN "none" ELSE session[r].process
           /\ session'[r].pid = IF confirmed THEN FALSE ELSE session[r].pid
<1>1. session \in [Runners -> Session] /\ session[r] \in Session
  BY RunnerIs
<1>2. /\ session[r].process # "spawning"
      /\ session' = [session EXCEPT ![r].closed = TRUE,
                                    ![r].process = IF confirmed THEN "none" ELSE @,
                                    ![r].pid = IF confirmed THEN FALSE ELSE @]
  BY DEF Stopped
<1>3. session'[r] = [session[r] EXCEPT !.closed = TRUE,
                                       !.process = IF confirmed THEN "none" ELSE @,
                                       !.pid = IF confirmed THEN FALSE ELSE @]
  BY <1>1, <1>2
<1>4. session'[r] \in Session
  BY <1>1, <1>3 DEF Session
<1> QED BY <1>1, <1>2, <1>3, <1>4 DEF Session

-----------------------------------------------------------------------------
(* Launching and reading *)

\* A step that moves r to pc, and does to its turn and its session what its place allows.
LEMMA GoStep ==
    ASSUME RunnerAssumption, IInv, NEW r \in Runners, UNCHANGED <<maps, closing, holder, sweep>>,
           NEW pc \in Points \ {"new", "done", "removing", "registered", "spawning"}, Go(r, pc),
           Live(r), runner[r].pc # "removing",
           pc = "launch" => runner[r].pc = "launch",
           pc = "reading" => runner[r].pc \in {"launch", "spawning"},
           claim' \in [Runners -> Turn], \A s \in Runners \ {r} : claim'[s] = claim[s],
           session' \in [Runners -> Session], \A s \in Runners \ {r} : session'[s] = session[s],
           claim'[r].revoked => claim'[r].state # "in_progress",
           pc = "leaving" => claim'[r].state # "in_progress",
           claim'[r].children = "failed" => claim'[r].state = "error" /\ pc = "leaving",
           session'[r].process # "spawning",
           session'[r].process = "live" => session'[r].pid,
           ~Known(r) => session'[r].process = "none" /\ session'[r].closed
    PROVE  IInv'
<1>1. /\ runner' \in [Runners -> Runner] /\ \A s \in Runners \ {r} : runner'[s] = runner[s]
      /\ runner'[r].pc = pc /\ runner'[r].key = runner[r].key
      /\ runner'[r].temp = runner[r].temp /\ runner'[r].learned = runner[r].learned
      /\ runner'[r].captured = runner[r].captured
  BY GoIs
<1>2. Knows(r) /\ Settled(r) /\ holder' = holder
  BY RunnerIs
<1>3. Goes(r)
  BY <1>1 DEF Goes, Live
<1>4. ASSUME Known(r)' <=> Known(r) PROVE Processes(r)' /\ Knows(r)' /\ Settled(r)'
  <2>1. Processes(r)'
    BY <1>1, <1>4 DEF Processes
  <2>2. Knows(r)'
    BY <1>1, <1>2 DEF Knows, Live
  <2>3. Settled(r)'
    BY <1>1, <1>2 DEF Settled, Live
  <2> QED BY <2>1, <2>2, <2>3
<1> QED BY <1>1, <1>3, <1>4, SoloStep

LEMMA SpawnOwns == ASSUME RunnerAssumption, IInv, NEW r \in Runners, Spawn(r) PROVE IInv'
<1>1. /\ session \in [Runners -> Session] /\ claim \in [Runners -> Turn] /\ claim' = claim
      /\ session[r] \in Session /\ runner[r].pc = "launch" /\ Live(r)
      /\ Processes(r) /\ Knows(r) /\ Settled(r) /\ UNCHANGED <<maps, closing, holder, sweep>>
  BY RunnerIs DEF Spawn, Live
<1>2. CASE session[r].closed
  <2>1. session' = session /\ Go(r, "raised") /\ "raised" \in Points
    BY <1>2 DEF Spawn, Points
  <2> QED BY <1>1, <1>2, <2>1, GoStep DEF Processes, Settled
<1>3. CASE ~session[r].closed
  <2>1. session' = [session EXCEPT ![r].process = "spawning"] /\ Go(r, "spawning")
    BY <1>3 DEF Spawn
  <2>2. /\ runner' \in [Runners -> Runner] /\ \A s \in Runners \ {r} : runner'[s] = runner[s]
        /\ runner'[r].pc = "spawning" /\ runner'[r].key = runner[r].key
        /\ runner'[r].temp = runner[r].temp /\ runner'[r].learned = runner[r].learned
        /\ runner'[r].captured = runner[r].captured
    BY <2>1, GoIs DEF Points
  <2>3. /\ session'[r] = [session[r] EXCEPT !.process = "spawning"]
        /\ session' \in [Runners -> Session] /\ \A s \in Runners \ {r} : session'[s] = session[s]
    BY <1>1, <2>1 DEF Session
  <2>4. Goes(r)
    BY <1>1, <2>2 DEF Goes, Live
  <2>5. Known(r)
    BY <1>1, <1>3 DEF Processes
  <2>6. ASSUME Known(r)' <=> Known(r) PROVE Processes(r)' /\ Knows(r)' /\ Settled(r)'
    <3>1. Processes(r)'
      BY <1>1, <2>2, <2>3, <2>5, <2>6 DEF Processes, Session
    <3>2. Knows(r)'
      BY <1>1, <2>2 DEF Knows, Live
    <3>3. Settled(r)'
      BY <1>1, <2>2 DEF Settled
    <3> QED BY <3>1, <3>2, <3>3
  <2> QED BY <1>1, <2>2, <2>3, <2>4, <2>6, SoloStep
<1> QED BY <1>2, <1>3

LEMMA SpawnedOwns == ASSUME RunnerAssumption, IInv, NEW r \in Runners, Spawned(r) PROVE IInv'
<1>1. /\ session \in [Runners -> Session] /\ claim \in [Runners -> Turn] /\ claim' = claim
      /\ session[r] \in Session /\ runner[r].pc = "spawning" /\ Live(r)
      /\ Processes(r) /\ Settled(r) /\ UNCHANGED <<maps, closing, holder, sweep>>
  BY RunnerIs DEF Spawned, Live
<1>2. Known(r)
  BY <1>1 DEF Processes
<1>3. ASSUME NEW p \in {"none", "live"}, NEW b \in BOOLEAN, p = "live" => b,
             NEW pc \in {"reading", "raised"}, Go(r, pc),
             \/ session' = [session EXCEPT ![r].process = p, ![r].pid = b]
             \/ session' = [session EXCEPT ![r].process = p] /\ p = "none"
      PROVE  IInv'
  <2>1. /\ session'[r].process = p /\ (p = "live" => session'[r].pid)
        /\ session' \in [Runners -> Session] /\ \A s \in Runners \ {r} : session'[s] = session[s]
    BY <1>1, <1>3 DEF Session
  <2> QED BY <1>1, <1>2, <1>3, <2>1, GoStep DEF Settled, Points
<1>4. \/ Go(r, "reading") /\ session' = [session EXCEPT ![r].process = "live", ![r].pid = TRUE]
      \/ Go(r, "raised") /\ session' = [session EXCEPT ![r].process = "none"]
  BY DEF Spawned
<1> QED BY <1>3, <1>4

\* A step that leaves the sessions as they are.
LEMMA SameSession ==
    ASSUME IInv, NEW r \in Runners, session' = session, runner[r].pc # "spawning", Live(r)
    PROVE  /\ session' \in [Runners -> Session] /\ \A s \in Runners : session'[s] = session[s]
           /\ session'[r].process # "spawning" /\ (session'[r].process = "live" => session'[r].pid)
           /\ ~Known(r) => session'[r].process = "none" /\ session'[r].closed
BY RunnerIs DEF Processes, Live

LEMMA SameTurn ==
    ASSUME IInv, NEW r \in Runners, claim' = claim
    PROVE  /\ claim' \in [Runners -> Turn] /\ \A s \in Runners : claim'[s] = claim[s]
           /\ claim'[r].revoked => claim'[r].state # "in_progress"
           /\ runner[r].pc \notin {"leaving", "removing", "done"} => claim'[r].children # "failed"
BY RunnerIs DEF Settled

LEMMA BreakOwns == ASSUME RunnerAssumption, IInv, NEW r \in Runners, Break(r) PROVE IInv'
<1>1. /\ claim' = claim /\ session' = session /\ runner[r].pc \in {"reading", "registered"}
      /\ Live(r) /\ Go(r, "raised") /\ UNCHANGED <<maps, closing, holder, sweep>>
      /\ "raised" \in Points
  BY DEF Break, Live, Points
<1> QED BY <1>1, SameSession, SameTurn, GoStep

LEMMA RaisedOwns == ASSUME RunnerAssumption, IInv, NEW r \in Runners, Raised(r) PROVE IInv'
<1>1. /\ session' = session /\ runner[r].pc = "raised" /\ Fail(r, TRUE)
      /\ Live(r) /\ Go(r, "leaving") /\ UNCHANGED <<maps, closing, holder, sweep>>
      /\ "leaving" \in Points
  BY DEF Raised, Live, Points
<1>2. /\ claim' \in [Runners -> Turn] /\ \A s \in Runners \ {r} : claim'[s] = claim[s]
      /\ claim'[r].state # "in_progress"
      /\ claim'[r].children = "failed" => claim'[r].state = "error"
  BY <1>1, FailIs
<1> QED BY <1>1, <1>2, SameSession, GoStep

LEMMA ExitOwns == ASSUME RunnerAssumption, IInv, NEW r \in Runners, Exit(r) PROVE IInv'
<1>1. /\ session' = [session EXCEPT ![r].process = "none", ![r].pid = FALSE]
      /\ runner[r].pc = "reading" /\ (Complete(r) \/ Fail(r, TRUE))
      /\ Live(r) /\ Go(r, "leaving") /\ UNCHANGED <<maps, closing, holder, sweep>>
      /\ "leaving" \in Points /\ Settled(r) /\ Processes(r)
      /\ session \in [Runners -> Session] /\ session[r] \in Session
  BY RunnerIs DEF Exit, Live, Points
<1>2. /\ claim' \in [Runners -> Turn] /\ \A s \in Runners \ {r} : claim'[s] = claim[s]
      /\ claim'[r].state # "in_progress"
      /\ claim'[r].children = "failed" => claim'[r].state = "error"
  BY <1>1, FailIs, CompleteIs DEF Settled
<1>3. /\ session'[r].process = "none" /\ session'[r].closed = session[r].closed
      /\ session' \in [Runners -> Session] /\ \A s \in Runners \ {r} : session'[s] = session[s]
  BY <1>1 DEF Session
<1>4. ~Known(r) => session'[r].closed
  BY <1>1, <1>3 DEF Processes
<1>5. "leaving" \in Points \ {"new", "done", "removing", "registered", "spawning"}
  BY DEF Points
<1>6. claim'[r].revoked => claim'[r].state # "in_progress"
  BY <1>2
<1> QED BY <1>1, <1>2, <1>3, <1>4, <1>5, <1>6, GoStep

LEMMA CancelledOwns == ASSUME RunnerAssumption, IInv, NEW r \in Runners, Cancelled(r) PROVE IInv'
<1>1. /\ runner[r].pc \in {"launch", "spawning", "reading", "registered", "raised"}
      /\ Live(r) /\ Go(r, "leaving") /\ Fail(r, FALSE)
      /\ UNCHANGED <<maps, closing, holder, sweep>> /\ Processes(r)
      /\ session \in [Runners -> Session] /\ session[r] \in Session
  BY RunnerIs DEF Cancelled, Live
<1>2. /\ claim' \in [Runners -> Turn] /\ \A s \in Runners \ {r} : claim'[s] = claim[s]
      /\ claim'[r].state # "in_progress"
      /\ claim'[r].children = "failed" => claim'[r].state = "error"
  BY <1>1, FailIs
<1>3. "leaving" \in Points \ {"new", "done", "removing", "registered", "spawning"}
  BY DEF Points
<1>4. claim'[r].revoked => claim'[r].state # "in_progress"
  BY <1>2
<1>5. /\ session' \in [Runners -> Session] /\ \A s \in Runners \ {r} : session'[s] = session[s]
      /\ session'[r].process # "spawning" /\ (session'[r].process = "live" => session'[r].pid)
      /\ ~Known(r) => session'[r].process = "none" /\ session'[r].closed
  <2>1. CASE \E confirmed \in BOOLEAN : Stopped(r, confirmed)
    BY <1>1, <2>1, StoppedIs DEF Processes
  <2>2. CASE runner[r].pc = "spawning" /\ session' = [session EXCEPT ![r].process = "none"]
    <3>1. /\ session'[r].process = "none"
          /\ session' \in [Runners -> Session]
          /\ \A s \in Runners \ {r} : session'[s] = session[s]
      BY <1>1, <2>2 DEF Session
    <3> QED BY <1>1, <2>2, <3>1 DEF Processes
  <2>3. CASE runner[r].pc # "spawning" /\ session' = session
    BY <1>1, <2>3, SameSession
  <2> QED BY <2>1, <2>2, <2>3 DEF Cancelled
<1> QED BY <1>1, <1>2, <1>3, <1>4, <1>5, GoStep

LEMMA ErrorEventOwns == ASSUME RunnerAssumption, IInv, NEW r \in Runners, ErrorEvent(r) PROVE IInv'
<1>1. /\ runner[r].pc = "reading" /\ Live(r) /\ Fail(r, FALSE) /\ runner' = runner
      /\ session' = session /\ UNCHANGED <<maps, closing, holder, sweep>>
      /\ runner \in [Runners -> Runner] /\ session \in [Runners -> Session]
      /\ Processes(r) /\ Knows(r) /\ Settled(r)
  BY RunnerIs DEF ErrorEvent, Live
<1>2. /\ claim' \in [Runners -> Turn] /\ \A s \in Runners \ {r} : claim'[s] = claim[s]
      /\ claim'[r].state # "in_progress" /\ claim'[r].children # "failed"
  BY <1>1, FailIs DEF Settled
<1>3. Goes(r)
  BY <1>1 DEF Goes, Live
<1>4. ASSUME Known(r)' <=> Known(r) PROVE Processes(r)' /\ Knows(r)' /\ Settled(r)'
  <2>1. Processes(r)'
    BY <1>1, <1>4 DEF Processes
  <2>2. Knows(r)'
    BY <1>1 DEF Knows, Live
  <2>3. Settled(r)'
    BY <1>1, <1>2 DEF Settled
  <2> QED BY <2>1, <2>2, <2>3
<1> QED BY <1>1, <1>2, <1>3, <1>4, SoloStep

LEMMA RecordSessionOwns ==
    ASSUME RunnerAssumption, IInv, NEW r \in Runners, RecordSession(r) PROVE IInv'
<1>1. /\ runner[r].pc = "registered" /\ Live(r) /\ claim' = claim /\ session' = session
      /\ runner' = [runner EXCEPT ![r].pc = "reading", ![r].temp = None,
                                  ![r].captured = runner[r].learned]
      /\ UNCHANGED <<maps, closing, holder, sweep>>
      /\ runner \in [Runners -> Runner] /\ runner[r] \in Runner
      /\ session \in [Runners -> Session] /\ claim \in [Runners -> Turn]
      /\ Processes(r) /\ Knows(r) /\ Settled(r)
  BY RunnerIs DEF RecordSession, Live
<1>2. runner'[r] = [runner[r] EXCEPT !.pc = "reading", !.temp = None,
                                     !.captured = runner[r].learned]
  BY <1>1
<1>3. /\ runner'[r] \in Runner /\ runner'[r].pc = "reading" /\ runner'[r].temp = None
      /\ runner'[r].captured = runner[r].learned /\ runner'[r].key = runner[r].key
      /\ runner'[r].learned = runner[r].learned
  BY <1>1, <1>2 DEF Runner, Points
<1>4. runner' \in [Runners -> Runner] /\ \A s \in Runners \ {r} : runner'[s] = runner[s]
  BY <1>1, <1>2, <1>3
<1>5. runner[r].learned # None
  BY <1>1 DEF Knows
<1>6. Goes(r)
  BY <1>1, <1>3, <1>5 DEF Goes, Live
<1>7. ASSUME Known(r)' <=> Known(r) PROVE Processes(r)' /\ Knows(r)' /\ Settled(r)'
  <2>1. Processes(r)'
    BY <1>1, <1>3, <1>7 DEF Processes
  <2>2. Knows(r)'
    BY <1>1, <1>3, <1>5 DEF Knows, Live
  <2>3. Settled(r)'
    BY <1>1, <1>3 DEF Settled
  <2> QED BY <2>1, <2>2, <2>3
<1> QED BY <1>1, <1>4, <1>6, <1>7, SoloStep

LEMMA ProcessDiesOwns ==
    ASSUME RunnerAssumption, IInv, NEW r \in Runners, ProcessDies(r) PROVE IInv'
<1>1. /\ session[r].process = "live" /\ session' = [session EXCEPT ![r].process = "dead"]
      /\ runner' = runner /\ claim' = claim /\ UNCHANGED <<maps, closing, holder, sweep>>
      /\ runner \in [Runners -> Runner] /\ claim \in [Runners -> Turn]
      /\ session \in [Runners -> Session] /\ session[r] \in Session
      /\ Processes(r) /\ Knows(r) /\ Settled(r)
  BY RunnerIs DEF ProcessDies
<1>2. /\ session'[r].process = "dead" /\ session' \in [Runners -> Session]
      /\ \A s \in Runners \ {r} : session'[s] = session[s]
  BY <1>1 DEF Session
<1>3. Goes(r)
  BY <1>1 DEF Goes, Live
<1>4. Known(r) /\ runner[r].pc \notin {"new", "spawning"}
  BY <1>1 DEF Processes
<1>5. ASSUME Known(r)' <=> Known(r) PROVE Processes(r)' /\ Knows(r)' /\ Settled(r)'
  <2>1. Processes(r)'
    BY <1>1, <1>2, <1>4, <1>5 DEF Processes
  <2>2. Knows(r)'
    BY <1>1 DEF Knows, Live
  <2>3. Settled(r)'
    BY <1>1, <1>5 DEF Settled
  <2> QED BY <2>1, <2>2, <2>3
<1> QED BY <1>1, <1>2, <1>3, <1>5, SoloStep

LEMMA CancelOwns == ASSUME RunnerAssumption, IInv, NEW r \in Runners, Cancel(r) PROVE IInv'
<1>1. /\ runner[r].pc \notin {"new", "done"} /\ session' = session
      /\ runner' = [runner EXCEPT ![r].cancels = @ + 1]
      /\ claim' = [claim EXCEPT ![r].revoked = TRUE,
                                ![r].state = IF @ = "in_progress" THEN "error" ELSE @]
      /\ UNCHANGED <<maps, closing, holder, sweep>>
      /\ runner \in [Runners -> Runner] /\ runner[r] \in Runner
      /\ claim \in [Runners -> Turn] /\ claim[r] \in Turn /\ session \in [Runners -> Session]
      /\ Processes(r) /\ Knows(r) /\ Settled(r)
  BY RunnerIs DEF Cancel
<1>2. /\ runner'[r] = [runner[r] EXCEPT !.cancels = @ + 1]
      /\ claim'[r] = [claim[r] EXCEPT !.revoked = TRUE,
                                      !.state = IF @ = "in_progress" THEN "error" ELSE @]
  BY <1>1
<1>3. /\ runner'[r] \in Runner /\ runner'[r].pc = runner[r].pc /\ runner'[r].temp = runner[r].temp
      /\ runner'[r].captured = runner[r].captured /\ runner'[r].key = runner[r].key
      /\ runner'[r].learned = runner[r].learned
  BY <1>1, <1>2 DEF Runner
<1>4. /\ claim'[r] \in Turn /\ claim'[r].state # "in_progress"
      /\ claim'[r].children = claim[r].children
      /\ claim[r].state = "error" => claim'[r].state = "error"
  BY <1>1, <1>2 DEF Turn
<1>5. /\ runner' \in [Runners -> Runner] /\ \A s \in Runners \ {r} : runner'[s] = runner[s]
      /\ claim' \in [Runners -> Turn] /\ \A s \in Runners \ {r} : claim'[s] = claim[s]
  BY <1>1, <1>2, <1>3, <1>4
<1>6. Goes(r)
  BY <1>1, <1>3 DEF Goes, Live
<1>7. ASSUME Known(r)' <=> Known(r) PROVE Processes(r)' /\ Knows(r)' /\ Settled(r)'
  <2>1. Processes(r)'
    BY <1>1, <1>3, <1>7 DEF Processes
  <2>2. Knows(r)'
    BY <1>1, <1>3 DEF Knows, Live
  <2>3. Settled(r)'
    BY <1>1, <1>3, <1>4 DEF Settled
  <2> QED BY <2>1, <2>2, <2>3
<1> QED BY <1>1, <1>5, <1>6, <1>7, SoloStep

-----------------------------------------------------------------------------
(* Leaving *)

\* What a runner on its way finds under its id is its session; where it finds nothing, no map
\* has it.
LEMMA OwnSession ==
    ASSUME RunnerAssumption, IInv, NEW r \in Runners, Live(r)
    PROVE  /\ SessionFor(OwnId(r)) \subseteq {r}
           /\ SessionFor(OwnId(r)) = {} => /\ \A i \in DOMAIN pending : pending[i] # r
                                           /\ \A i \in DOMAIN owned : owned[i] # r
<1>1. TypeOK /\ MapsLead /\ IdsAreOwn /\ Knows(r) /\ runner[r] \in Runner
  BY RunnerIs DEF IInv, Maps
<1>2. \A i \in Ids : i # None
  BY DEF RunnerAssumption, AllIds
<1>3. CASE runner[r].captured # None
  <2> DEFINE l == runner[r].learned
  <2>1. OwnId(r) = l /\ l # None
    BY <1>1, <1>3 DEF OwnId, Knows
  <2>2. \A s \in Runners : runner[s].key # l /\ (runner[s].learned = l => s = r)
    BY <1>1, <2>1 DEF IdsAreOwn
  <2>3. l \notin DOMAIN alias /\ l \notin DOMAIN pending
    BY <1>1, <2>2 DEF MapsLead, TypeOK
  <2>4. l \in DOMAIN owned => owned[l] = r
    BY <1>1, <2>2 DEF MapsLead, TypeOK
  <2>5. SessionFor(OwnId(r)) = IF l \in DOMAIN owned THEN {owned[l]} ELSE {}
    BY <2>1, <2>3 DEF SessionFor, Lookup
  <2>6. \A i \in DOMAIN pending : pending[i] # r
    BY <1>1, <2>1 DEF MapsLead
  <2>7. \A i \in DOMAIN owned : owned[i] = r => i = l
    BY <1>1 DEF MapsLead
  <2> QED BY <2>4, <2>5, <2>6, <2>7
<1>4. CASE runner[r].captured = None
  <2> DEFINE k == runner[r].key
  <2>1. OwnId(r) = k
    BY <1>1, <1>4 DEF OwnId, Knows
  <2>2. k \notin DOMAIN owned /\ (k \in DOMAIN pending => pending[k] = r)
    BY <1>1 DEF IdsAreOwn
  <2>3. CASE k \in DOMAIN alias
    <3>1. alias[k] = runner[r].learned /\ alias[k] \in DOMAIN owned /\ alias[k] # None
      BY <1>1, <1>2, <2>3 DEF IdsAreOwn, MapsLead, TypeOK
    <3>2. runner[owned[alias[k]]].learned = alias[k] /\ owned[alias[k]] \in Runners
      BY <1>1, <3>1 DEF MapsLead, TypeOK
    <3>3. owned[alias[k]] = r
      BY <1>1, <3>1, <3>2 DEF IdsAreOwn
    <3>4. SessionFor(OwnId(r)) = {r}
      BY <2>1, <2>3, <3>1, <3>3 DEF SessionFor, Lookup
    <3> QED BY <3>4
  <2>4. CASE k \notin DOMAIN alias
    <3>1. SessionFor(OwnId(r)) = IF k \in DOMAIN pending THEN {pending[k]} ELSE {}
      BY <2>1, <2>2, <2>4 DEF SessionFor, Lookup
    <3>2. \A i \in DOMAIN pending : pending[i] = r => i = k
      BY <1>1 DEF MapsLead
    <3>3. \A i \in DOMAIN owned : owned[i] # r
      BY <1>1, <1>4, <2>4 DEF MapsLead
    <3> QED BY <2>2, <3>1, <3>2, <3>3
  <2> QED BY <2>3, <2>4
<1> QED BY <1>3, <1>4

\* A forgotten session is in no map; the others stay as they are.
LEMMA ForgetIs ==
    ASSUME IInv, NEW r \in Runners, ForgetSession(r)
    PROVE  /\ Shrinks /\ ~Known(r)' /\ closing' = closing \ {r}
           /\ \A s \in Runners \ {r} : Known(s)' <=> Known(s)
<1> DEFINE P == {i \in DOMAIN pending : pending[i] = r}
           O == {i \in DOMAIN owned : owned[i] = r}
           A == {t \in DOMAIN alias : alias[t] \in O}
<1>1. /\ pending' = Without(pending, P) /\ owned' = Without(owned, O)
      /\ alias' = Without(alias, A) /\ closing' = closing \ {r}
  BY DEF ForgetSession
<1> HIDE DEF P, O, A
<1>2. /\ DOMAIN pending' = DOMAIN pending \ P
      /\ \A i \in DOMAIN pending' : pending'[i] = pending[i]
  BY <1>1 DEF Without
<1>3. /\ DOMAIN owned' = DOMAIN owned \ O /\ \A i \in DOMAIN owned' : owned'[i] = owned[i]
  BY <1>1 DEF Without
<1>4. /\ DOMAIN alias' = DOMAIN alias \ A /\ \A t \in DOMAIN alias' : alias'[t] = alias[t]
  BY <1>1 DEF Without
<1>5. \A t \in DOMAIN alias : alias[t] \in DOMAIN owned
  BY DEF IInv, Maps, MapsLead
<1>6. Shrinks
  BY <1>2, <1>3, <1>4, <1>5 DEF Shrinks, A
<1>7. ~Known(r)'
  BY <1>1, <1>2, <1>3, KnownIs DEF P, O
<1>8. ASSUME NEW s \in Runners \ {r} PROVE Known(s)' <=> Known(s)
  BY <1>1, <1>2, <1>3, KnownIs DEF P, O
<1> QED BY <1>1, <1>6, <1>7, <1>8

LEMMA BeginRemoveOwns ==
    ASSUME RunnerAssumption, IInv, NEW r \in Runners, BeginRemove(r) PROVE IInv'
<1>1. /\ runner[r].pc = "leaving" /\ Live(r) /\ holder = None /\ claim' = claim
      /\ session' = session /\ UNCHANGED maps /\ sweep' = sweep
      /\ claim \in [Runners -> Turn] /\ session \in [Runners -> Session]
      /\ closing \subseteq Runners /\ sweep \in Sweep
      /\ Processes(r) /\ Knows(r) /\ Settled(r)
  BY RunnerIs DEF BeginRemove, Live
<1>2. CASE SessionFor(OwnId(r)) = {}
  <2>1. Go(r, "done") /\ closing' = closing /\ holder' = holder
    BY <1>2 DEF BeginRemove
  <2>2. /\ runner' \in [Runners -> Runner] /\ \A s \in Runners \ {r} : runner'[s] = runner[s]
        /\ runner'[r].pc = "done" /\ runner'[r].key = runner[r].key
        /\ runner'[r].temp = runner[r].temp /\ runner'[r].learned = runner[r].learned
        /\ runner'[r].captured = runner[r].captured
    BY <2>1, GoIs DEF Points
  <2>3. Known(r) => r \in closing
    BY <1>1, <1>2, OwnSession, KnownIs
  <2>4. Goes(r)
    BY <1>1, <2>2 DEF Goes, Live
  <2>5. ASSUME Known(r)' <=> Known(r) PROVE Processes(r)' /\ Knows(r)' /\ Settled(r)'
    <3>1. Processes(r)'
      BY <1>1, <2>2, <2>5 DEF Processes
    <3>2. Knows(r)'
      BY <1>1, <2>2 DEF Knows, Live
    <3>3. Settled(r)'
      BY <1>1, <2>1, <2>2, <2>3, <2>5 DEF Settled
    <3> QED BY <3>1, <3>2, <3>3
  <2> QED BY <1>1, <2>1, <2>2, <2>4, <2>5, SoloStep
<1>3. CASE SessionFor(OwnId(r)) # {}
  <2>1. SessionFor(OwnId(r)) = {r}
    BY <1>1, <1>3, OwnSession
  <2>2. Go(r, "removing") /\ closing' = closing \cup {r} /\ holder' = r
    BY <1>3, <2>1 DEF BeginRemove
  <2>3. /\ runner' \in [Runners -> Runner] /\ \A s \in Runners \ {r} : runner'[s] = runner[s]
        /\ runner'[r].pc = "removing" /\ runner'[r].key = runner[r].key
        /\ runner'[r].temp = runner[r].temp /\ runner'[r].learned = runner[r].learned
        /\ runner'[r].captured = runner[r].captured
    BY <2>2, GoIs DEF Points
  <2>4. Goes(r)
    BY <1>1, <2>3 DEF Goes, Live
  <2>5. Shrinks /\ \A s \in Runners \ {r} : (s \in closing' <=> s \in closing)
                                            /\ (Known(s)' <=> Known(s))
    BY <1>1, <2>2, MapsStay
  <2>6. \A s \in Runners \ {r} : holder' = s <=> holder = s
    BY <1>1, <2>2 DEF RunnerAssumption
  <2>7. closing' \subseteq Runners
    BY <1>1, <2>2
  <2>8. Own(r)
    BY <1>1, <2>3, <2>5, <2>6, <2>7 DEF Own
  <2>9. Known(r)'
    BY <2>2, KnownIs
  <2>10. Processes(r)'
    BY <1>1, <2>3, <2>9 DEF Processes
  <2>11. Knows(r)'
    BY <1>1, <2>3 DEF Knows, Live
  <2>12. Settled(r)'
    BY <1>1, <2>2, <2>3 DEF Settled
  <2> QED BY <2>4, <2>8, <2>10, <2>11, <2>12, OwnStep
<1> QED BY <1>2, <1>3

LEMMA RemoveInterruptedOwns ==
    ASSUME RunnerAssumption, IInv, NEW r \in Runners, RemoveInterrupted(r) PROVE IInv'
<1>1. /\ runner[r].pc \in {"leaving", "removing"} /\ Live(r) /\ runner[r].cancels > 1
      /\ Go(r, "done") /\ claim' = claim /\ session' = session
      /\ UNCHANGED maps /\ closing' = closing /\ sweep' = sweep
      /\ claim \in [Runners -> Turn] /\ session \in [Runners -> Session]
      /\ closing \subseteq Runners /\ sweep \in Sweep
      /\ Processes(r) /\ Knows(r) /\ Settled(r)
  BY RunnerIs DEF RemoveInterrupted, Live
<1>2. /\ runner' \in [Runners -> Runner] /\ \A s \in Runners \ {r} : runner'[s] = runner[s]
      /\ runner'[r].pc = "done" /\ runner'[r].key = runner[r].key
      /\ runner'[r].temp = runner[r].temp /\ runner'[r].learned = runner[r].learned
      /\ runner'[r].captured = runner[r].captured /\ runner'[r].cancels = runner[r].cancels
  BY <1>1, GoIs DEF Points
<1>3. \A s \in Runners : IF s = r THEN holder' # s ELSE holder' = s <=> holder = s
  <2>1. CASE runner[r].pc = "removing"
    BY <1>1, <2>1 DEF RemoveInterrupted, Settled, RunnerAssumption
  <2>2. CASE runner[r].pc = "leaving"
    BY <1>1, <2>2 DEF RemoveInterrupted, Settled
  <2> QED BY <1>1, <2>1, <2>2
<1>4. Shrinks /\ \A s : (Known(s)' <=> Known(s))
  BY <1>1, MapsStay
<1>5. Own(r)
  BY <1>1, <1>2, <1>3, <1>4 DEF Own
<1>6. Goes(r)
  BY <1>1, <1>2 DEF Goes, Live
<1>7. Processes(r)'
  BY <1>1, <1>2, <1>4 DEF Processes
<1>8. Knows(r)'
  BY <1>1, <1>2 DEF Knows, Live
<1>9. Settled(r)'
  BY <1>1, <1>2, <1>3 DEF Settled
<1> QED BY <1>5, <1>6, <1>7, <1>8, <1>9, OwnStep

\* A session that is stopped: forgotten when its exit is confirmed, kept otherwise.
LEMMA StopsOwn ==
    ASSUME RunnerAssumption, IInv, NEW r \in Runners, NEW confirmed \in BOOLEAN,
           Stopped(r, confirmed),
           IF confirmed THEN ForgetSession(r) ELSE UNCHANGED <<maps, closing>>
    PROVE  /\ Shrinks /\ closing' \subseteq Runners
           /\ session' \in [Runners -> Session]
           /\ \A s \in Runners \ {r} : /\ session'[s] = session[s]
                                       /\ s \in closing' <=> s \in closing
                                       /\ Known(s)' <=> Known(s)
           /\ runner[r].pc # "spawning" /\ session'[r].process # "spawning"
           /\ session'[r].process = "live" => session'[r].pid
           /\ runner[r].pc = "new" => session'[r].process = "none"
           /\ Known(r)' => Known(r) /\ (r \in closing' <=> r \in closing)
           /\ ~Known(r)' => \/ runner[r].pc = "new"
                            \/ session'[r].process = "none"
                               /\ (session'[r].closed \/ runner[r].pc = "done")
<1>1. /\ session' \in [Runners -> Session]
      /\ \A s \in Runners \ {r} : session'[s] = session[s]
      /\ session[r].process # "spawning" /\ session'[r].closed
      /\ session'[r].process = IF confirmed THEN "none" ELSE session[r].process
      /\ session'[r].pid = IF confirmed THEN FALSE ELSE session[r].pid
  BY StoppedIs
<1>2. Processes(r) /\ closing \subseteq Runners
  BY RunnerIs
<1>3. CASE confirmed
  <2>1. /\ Shrinks /\ ~Known(r)' /\ closing' = closing \ {r}
        /\ \A s \in Runners \ {r} : Known(s)' <=> Known(s)
    BY <1>3, ForgetIs
  <2> QED BY <1>1, <1>2, <1>3, <2>1 DEF Processes
<1>4. CASE ~confirmed
  <2>1. UNCHANGED maps /\ closing' = closing
    BY <1>4
  <2>2. Shrinks /\ \A s : Known(s)' <=> Known(s)
    BY <2>1, MapsStay
  <2> QED BY <1>1, <1>2, <1>4, <2>1, <2>2 DEF Processes
<1> QED BY <1>3, <1>4

LEMMA EndRemoveOwns == ASSUME RunnerAssumption, IInv, NEW r \in Runners, EndRemove(r) PROVE IInv'
<1>1. /\ runner[r].pc = "removing" /\ Live(r) /\ holder = r /\ r \in closing
      /\ holder' = None /\ Go(r, "done") /\ claim' = claim /\ sweep' = sweep
      /\ claim \in [Runners -> Turn] /\ sweep \in Sweep
      /\ Processes(r) /\ Knows(r) /\ Settled(r)
  BY RunnerIs DEF EndRemove, Live, Settled
<1>2. PICK s \in SessionFor(OwnId(r)), confirmed \in BOOLEAN :
        /\ Stopped(s, confirmed)
        /\ IF confirmed THEN ForgetSession(s) ELSE UNCHANGED <<maps, closing>>
  BY DEF EndRemove
<1>3. s = r
  BY <1>1, OwnSession
<1>4. /\ Stopped(r, confirmed)
      /\ IF confirmed THEN ForgetSession(r) ELSE UNCHANGED <<maps, closing>>
  BY <1>2, <1>3
<1>5. /\ Shrinks /\ closing' \subseteq Runners
      /\ session' \in [Runners -> Session]
      /\ \A q \in Runners \ {r} : /\ session'[q] = session[q]
                                  /\ q \in closing' <=> q \in closing
                                  /\ Known(q)' <=> Known(q)
      /\ session'[r].process # "spawning"
      /\ session'[r].process = "live" => session'[r].pid
      /\ Known(r)' => Known(r) /\ (r \in closing' <=> r \in closing)
      /\ ~Known(r)' => session'[r].process = "none" /\ session'[r].closed
  BY <1>1, <1>4, StopsOwn
<1>6. /\ runner' \in [Runners -> Runner] /\ \A q \in Runners \ {r} : runner'[q] = runner[q]
      /\ runner'[r].pc = "done" /\ runner'[r].key = runner[r].key
      /\ runner'[r].temp = runner[r].temp /\ runner'[r].learned = runner[r].learned
      /\ runner'[r].captured = runner[r].captured /\ runner'[r].cancels = runner[r].cancels
  BY <1>1, GoIs DEF Points
<1>7. \A q \in Runners : holder' # q /\ (q # r => holder # q)
  BY <1>1 DEF RunnerAssumption
<1>8. Own(r)
  BY <1>1, <1>5, <1>6, <1>7 DEF Own
<1>9. Goes(r)
  BY <1>1, <1>6 DEF Goes, Live
<1>10. Processes(r)'
  BY <1>5, <1>6 DEF Processes
<1>11. Knows(r)'
  BY <1>1, <1>6 DEF Knows, Live
<1>12. Settled(r)'
  BY <1>1, <1>5, <1>6, <1>7 DEF Settled
<1> QED BY <1>8, <1>9, <1>10, <1>11, <1>12, OwnStep

LEMMA StopOneOwns == ASSUME RunnerAssumption, IInv, NEW r \in Runners, StopOne(r) PROVE IInv'
<1>1. /\ holder = "stop_all" /\ holder' = holder /\ runner' = runner /\ claim' = claim
      /\ sweep' = [sweep EXCEPT !.left = @ \ {r}]
      /\ runner \in [Runners -> Runner] /\ claim \in [Runners -> Turn] /\ sweep \in Sweep
      /\ Processes(r) /\ Knows(r) /\ Settled(r)
  BY RunnerIs DEF StopOne
<1>2. PICK confirmed \in BOOLEAN :
        /\ Stopped(r, confirmed)
        /\ IF confirmed THEN ForgetSession(r) ELSE UNCHANGED <<maps, closing>>
  BY DEF StopOne
<1>3. /\ Shrinks /\ closing' \subseteq Runners
      /\ session' \in [Runners -> Session]
      /\ \A q \in Runners \ {r} : /\ session'[q] = session[q]
                                  /\ q \in closing' <=> q \in closing
                                  /\ Known(q)' <=> Known(q)
      /\ runner[r].pc # "spawning" /\ session'[r].process # "spawning"
      /\ session'[r].process = "live" => session'[r].pid
      /\ runner[r].pc = "new" => session'[r].process = "none"
      /\ Known(r)' => Known(r) /\ (r \in closing' <=> r \in closing)
      /\ ~Known(r)' => \/ runner[r].pc = "new"
                       \/ session'[r].process = "none"
                          /\ (session'[r].closed \/ runner[r].pc = "done")
  BY <1>2, StopsOwn
<1>4. sweep' \in Sweep
  BY <1>1 DEF Sweep
<1>5. Own(r)
  BY <1>1, <1>3, <1>4 DEF Own
<1>6. Goes(r)
  BY <1>1 DEF Goes, Live
<1>7. Processes(r)'
  BY <1>1, <1>3 DEF Processes
<1>8. Knows(r)'
  BY <1>1 DEF Knows, Live
<1>9. runner[r].pc # "removing"
  BY <1>1 DEF Settled, RunnerAssumption
<1>10. Settled(r)'
  BY <1>1, <1>3, <1>9 DEF Settled
<1> QED BY <1>5, <1>6, <1>7, <1>8, <1>10, OwnStep

\* A step of the manager's lock alone: sessions start to close, or the sweep ends.
LEMMA LockStep ==
    ASSUME IInv, UNCHANGED <<runner, claim, session, maps>>, sweep' \in Sweep,
           closing \subseteq closing', closing' \subseteq Runners,
           \A r \in Runners : /\ r \in closing' => Known(r)
                              /\ holder # r /\ holder' # r
    PROVE  IInv'
<1>1. /\ TypeOK /\ MapsLead /\ IdsAreOwn
      /\ UNCHANGED <<runner, claim, session, pending, owned, alias>>
  BY DEF IInv, Maps, maps
<1>2. TypeOK'
  BY <1>1 DEF TypeOK
<1>3. MapsLead'
  BY <1>1 DEF MapsLead, Live
<1>4. IdsAreOwn'
  BY <1>1 DEF IdsAreOwn, Live
<1>5. ASSUME NEW r \in Runners PROVE Processes(r)' /\ Knows(r)' /\ Settled(r)'
  <2>1. Processes(r) /\ Knows(r) /\ Settled(r)
    BY RunnerIs
  <2>2. Known(r)' <=> Known(r)
    BY <1>1, KnownIs
  <2>3. Processes(r)'
    BY <1>1, <2>1, <2>2 DEF Processes
  <2>4. Knows(r)'
    BY <1>1, <2>1 DEF Knows, Live
  <2>5. Settled(r)'
    BY <1>1, <2>1, <2>2 DEF Settled
  <2> QED BY <2>3, <2>4, <2>5
<1> QED BY <1>2, <1>3, <1>4, <1>5 DEF IInv, Maps

LEMMA StopAllOwns == ASSUME RunnerAssumption, IInv, BeginStopAll \/ EndStopAll PROVE IInv'
<1>1. closing \subseteq Runners /\ sweep \in Sweep /\ UNCHANGED <<runner, claim, session, maps>>
  BY DEF IInv, TypeOK, BeginStopAll, EndStopAll
<1>2. \A r \in Runners : r # None /\ r # "stop_all"
  BY DEF RunnerAssumption
<1>3. \A r \in closing : Known(r)
  BY KnownIs
<1>4. CASE BeginStopAll
  <2>1. /\ holder = None /\ holder' = "stop_all"
        /\ sweep' = [left |-> {r \in Runners : Known(r)}, count |-> sweep.count + 1]
        /\ closing' = closing \cup sweep'.left
    BY <1>4 DEF BeginStopAll
  <2>2. sweep' \in Sweep /\ closing' = closing \cup {r \in Runners : Known(r)}
    BY <1>1, <2>1 DEF Sweep
  <2> QED BY <1>1, <1>2, <1>3, <2>1, <2>2, LockStep
<1>5. CASE EndStopAll
  <2>1. holder = "stop_all" /\ holder' = None /\ closing' = closing /\ sweep' = sweep
    BY <1>5 DEF EndStopAll
  <2> QED BY <1>1, <1>2, <1>3, <2>1, LockStep
<1> QED BY <1>4, <1>5

LEMMA StutterOwns == ASSUME IInv, UNCHANGED vars PROVE IInv'
<1>1. UNCHANGED <<runner, claim, session, pending, owned, alias, closing, holder, sweep>>
  BY DEF vars
<1>2. \A r : Known(r)' <=> Known(r)
  BY <1>1, KnownIs
<1>3. TypeOK'
  BY <1>1 DEF IInv, TypeOK
<1>4. MapsLead' /\ IdsAreOwn'
  BY <1>1 DEF IInv, Maps, MapsLead, IdsAreOwn, Live
<1>5. ASSUME NEW r \in Runners PROVE Processes(r)' /\ Knows(r)' /\ Settled(r)'
  BY <1>1, <1>2, RunnerIs DEF Processes, Knows, Settled, Live
<1> QED BY <1>3, <1>4, <1>5 DEF IInv, Maps

-----------------------------------------------------------------------------
(* Where a turn starts, and where it learns the id of its session *)

\* A new runner is in no map.
LEMMA NewIs ==
    ASSUME IInv, NEW r \in Runners, runner[r].pc = "new"
    PROVE  /\ \A i \in DOMAIN pending : pending[i] # r
           /\ \A i \in DOMAIN owned : owned[i] # r
           /\ r \notin closing /\ ~Known(r) /\ session[r].process = "none"
           /\ runner[r].learned = None /\ runner[r].captured = None /\ ~Live(r)
           /\ claim[r].children # "failed"
BY RunnerIs, KnownIs DEF Processes, Knows, Settled, Live

\* An id that no unfinished turn has and that leads to no session is under no map.
LEMMA FreshIs ==
    ASSUME RunnerAssumption, IInv, NEW r \in Runners, runner[r].pc = "new",
           NEW parent \in Resumable, parent # None => SessionFor(parent) = {},
           NEW key, key = IF parent = None THEN Temp[r] ELSE parent
    PROVE  key \notin DOMAIN pending /\ key \notin DOMAIN owned /\ key \notin DOMAIN alias
<1>1. TypeOK /\ MapsLead
  BY DEF IInv, Maps
<1>2. CASE parent # None
  <2>1. parent \notin DOMAIN alias
    BY <1>1, <1>2 DEF SessionFor, Lookup, MapsLead
  <2>2. parent \notin DOMAIN owned /\ parent \notin DOMAIN pending
    BY <1>2, <2>1 DEF SessionFor, Lookup
  <2> QED BY <1>2, <2>1, <2>2
<1>3. CASE parent = None
  <2>1. key = Temp[r] /\ key \notin Ids /\ key # None
    BY <1>3, TempIs
  <2>2. \A s \in Runners : runner[s].key = key => s = r
    BY <2>1, RunnerIs, TempIs DEF Knows
  <2>3. key \notin DOMAIN pending
    BY <1>1, <2>2, NewIs DEF MapsLead, TypeOK
  <2>4. key \notin DOMAIN owned
    BY <1>1, <2>1 DEF TypeOK
  <2>5. key \notin DOMAIN alias
    BY <1>1, <2>2, NewIs DEF MapsLead, TypeOK
  <2> QED BY <2>3, <2>4, <2>5
<1> QED BY <1>2, <1>3

\* A turn refused by its parent's closing session has failed; no map hears of it.
LEMMA RefusedOwns ==
    ASSUME RunnerAssumption, IInv, NEW r \in Runners, runner[r].pc = "new",
           NEW key \in Ids, \A s \in Runners : key \in Seen(s) => runner[s].pc = "done",
           Fail(r, FALSE), runner' = [runner EXCEPT ![r].pc = "done", ![r].key = key],
           UNCHANGED <<session, pending, owned, alias, closing, holder, sweep>>
    PROVE  IInv'
<1>1. /\ TypeOK /\ MapsLead /\ IdsAreOwn
      /\ runner \in [Runners -> Runner] /\ runner[r] \in Runner
      /\ Processes(r) /\ Knows(r) /\ Settled(r)
  BY RunnerIs DEF IInv, Maps
<1>2. runner'[r] = [runner[r] EXCEPT !.pc = "done", !.key = key]
  BY <1>1
<1>3. /\ runner'[r] \in Runner /\ runner'[r].pc = "done" /\ runner'[r].key = key
      /\ runner'[r].learned = None
  BY <1>1, <1>2, NewIs DEF Runner, Points, AllIds
<1>4. runner' \in [Runners -> Runner] /\ \A s \in Runners \ {r} : runner'[s] = runner[s]
  BY <1>1, <1>2, <1>3
<1>5. /\ claim' \in [Runners -> Turn] /\ \A s \in Runners \ {r} : claim'[s] = claim[s]
      /\ claim'[r].state # "in_progress" /\ claim'[r].children # "failed"
  BY FailIs, NewIs
<1>6. TypeOK'
  BY <1>1, <1>4, <1>5 DEF TypeOK
<1>7. \A s \in Runners : /\ runner'[s].learned = runner[s].learned
                         /\ s # r => runner'[s] = runner[s]
                         /\ runner'[s].pc \notin {"new", "done"} => s # r /\ Live(s)
  BY <1>3, <1>4, NewIs DEF Live
<1>8. MapsLead'
  BY <1>1, <1>7, NewIs DEF MapsLead, TypeOK, Live
<1>9. IdsAreOwn'
  <2>1. \A q, s \in Runners : q # s /\ runner'[q].learned # None =>
                                  runner'[q].learned # runner'[s].learned
    BY <1>1, <1>7 DEF IdsAreOwn
  <2>2. \A q, s \in Runners : q # s /\ Live(q)' /\ Live(s)' => runner'[q].key # runner'[s].key
    BY <1>1, <1>7 DEF IdsAreOwn, Live
  <2>3. \A q \in Runners : Live(q) => key # runner[q].learned
    BY DEF Seen, Live
  <2>4. \A q, s \in Runners : Live(q)' /\ runner'[q].learned # None =>
                                  runner'[s].key # runner'[q].learned
    BY <1>1, <1>3, <1>7, <2>3 DEF IdsAreOwn, Live
  <2>5. \A q \in Runners : Live(q)' =>
          LET k == runner'[q].key
          IN  /\ k \notin DOMAIN owned'
              /\ k \in DOMAIN alias' => alias'[k] = runner'[q].learned
              /\ k \in DOMAIN pending' => pending'[k] = q
    BY <1>1, <1>7 DEF IdsAreOwn, Live
  <2> QED BY <2>1, <2>2, <2>4, <2>5 DEF IdsAreOwn
<1>10. \A s : Known(s)' <=> Known(s)
  BY KnownIs
<1>11. ASSUME NEW s \in Runners PROVE Processes(s)' /\ Knows(s)' /\ Settled(s)'
  <2>1. CASE s = r
    <3>1. Processes(r)'
      BY <1>3, <1>10, NewIs DEF Processes
    <3>2. Knows(r)'
      BY <1>3 DEF Knows, Live
    <3>3. Settled(r)'
      BY <1>1, <1>3, <1>5, <1>10, NewIs DEF Settled
    <3> QED BY <2>1, <3>1, <3>2, <3>3
  <2>2. CASE s # r
    <3>1. /\ runner'[s] = runner[s] /\ claim'[s] = claim[s] /\ session'[s] = session[s]
          /\ Processes(s) /\ Knows(s) /\ Settled(s)
      BY <1>4, <1>5, <2>2, RunnerIs
    <3> QED BY <1>10, <3>1 DEF Processes, Knows, Settled, Live
  <2> QED BY <2>1, <2>2
<1> QED BY <1>6, <1>8, <1>9, <1>11 DEF IInv, Maps

\* A turn that gets a session launches it under an id of its own.
LEMMA LaunchOwns ==
    ASSUME RunnerAssumption, IInv, NEW r \in Runners, runner[r].pc = "new",
           NEW key \in Ids \cup {Temp[r]},
           \A s \in Runners : key \in Seen(s) => runner[s].pc = "done",
           key \notin DOMAIN pending, key \notin DOMAIN owned, key \notin DOMAIN alias,
           pending' = With(pending, key, r),
           runner' = [runner EXCEPT ![r].pc = "launch", ![r].key = key, ![r].temp = key],
           UNCHANGED <<claim, session, owned, alias, closing, holder, sweep>>
    PROVE  IInv'
<1>1. /\ TypeOK /\ MapsLead /\ IdsAreOwn
      /\ runner \in [Runners -> Runner] /\ runner[r] \in Runner
      /\ Processes(r) /\ Knows(r) /\ Settled(r)
  BY RunnerIs DEF IInv, Maps
<1>2. key \in AllIds /\ key # None
  BY TempIs DEF AllIds, RunnerAssumption
<1>3. runner'[r] = [runner[r] EXCEPT !.pc = "launch", !.key = key, !.temp = key]
  BY <1>1
<1>4. /\ runner'[r] \in Runner /\ runner'[r].pc = "launch" /\ runner'[r].key = key
      /\ runner'[r].temp = key /\ runner'[r].learned = None /\ runner'[r].captured = None
  BY <1>1, <1>2, <1>3, NewIs DEF Runner, Points
<1>5. runner' \in [Runners -> Runner] /\ \A s \in Runners \ {r} : runner'[s] = runner[s]
  BY <1>1, <1>3, <1>4
<1>6. /\ DOMAIN pending' = DOMAIN pending \cup {key} /\ pending'[key] = r
      /\ \A i \in DOMAIN pending : pending'[i] = pending[i]
  BY DEF With
<1>7. TypeOK'
  BY <1>1, <1>2, <1>5, <1>6 DEF TypeOK
<1>8. \A s \in Runners : /\ runner'[s].learned = runner[s].learned
                         /\ s # r => runner'[s] = runner[s]
                         /\ s # r /\ Live(s) => key # runner[s].key /\ key # runner[s].learned
  BY <1>4, <1>5, NewIs DEF Live, Seen
<1>9. MapsLead'
  <2>1. \A i \in DOMAIN pending' :
          LET s == pending'[i]
          IN  runner'[s].key = i /\ runner'[s].learned = None /\ runner'[s].pc # "new"
    BY <1>1, <1>4, <1>6, <1>8, NewIs DEF MapsLead, TypeOK
  <2>2. \A i \in DOMAIN owned' :
          LET s == owned'[i]
          IN  /\ runner'[s].learned = i /\ runner'[s].pc # "new"
              /\ runner'[s].pc \notin {"new", "done"} /\ runner'[s].captured = None =>
                   runner'[s].key \in DOMAIN alias'
    BY <1>1, <1>8, NewIs DEF MapsLead, TypeOK, Live
  <2>3. \A t \in DOMAIN alias' : alias'[t] \in DOMAIN owned' /\ runner'[owned'[alias'[t]]].key = t
    BY <1>1, <1>8, NewIs DEF MapsLead, TypeOK
  <2> QED BY <2>1, <2>2, <2>3 DEF MapsLead, Live
<1>10. IdsAreOwn'
  <2>1. \A q, s \in Runners : q # s /\ runner'[q].learned # None =>
                                  runner'[q].learned # runner'[s].learned
    BY <1>1, <1>8 DEF IdsAreOwn
  <2>2. \A q, s \in Runners : q # s /\ Live(q)' /\ Live(s)' => runner'[q].key # runner'[s].key
    BY <1>1, <1>4, <1>8 DEF IdsAreOwn, Live
  <2>3. \A q, s \in Runners : Live(q)' /\ runner'[q].learned # None =>
                                  runner'[s].key # runner'[q].learned
    BY <1>1, <1>4, <1>8 DEF IdsAreOwn, Live
  <2>4. ASSUME NEW q \in Runners, Live(q)'
        PROVE  LET k == runner'[q].key
               IN  /\ k \notin DOMAIN owned'
                   /\ k \in DOMAIN alias' => alias'[k] = runner'[q].learned
                   /\ k \in DOMAIN pending' => pending'[k] = q
    <3>1. CASE q = r
      BY <1>4, <1>6, <3>1
    <3>2. CASE q # r
      <4>1. runner'[q] = runner[q] /\ Live(q) /\ runner[q].key # key
        BY <1>8, <2>4, <3>2 DEF Live
      <4> QED BY <1>1, <1>6, <4>1 DEF IdsAreOwn
    <3> QED BY <3>1, <3>2
  <2> QED BY <2>1, <2>2, <2>3, <2>4 DEF IdsAreOwn
<1>11. Known(r)' /\ \A s \in Runners \ {r} : Known(s)' <=> Known(s)
  BY <1>6, KnownIs
<1>12. ASSUME NEW s \in Runners PROVE Processes(s)' /\ Knows(s)' /\ Settled(s)'
  <2>1. CASE s = r
    <3>1. Processes(r)'
      BY <1>4, <1>11, NewIs DEF Processes
    <3>2. Knows(r)'
      BY <1>2, <1>4 DEF Knows, Live
    <3>3. Settled(r)'
      BY <1>1, <1>4, NewIs DEF Settled
    <3> QED BY <2>1, <3>1, <3>2, <3>3
  <2>2. CASE s # r
    <3>1. runner'[s] = runner[s] /\ Processes(s) /\ Knows(s) /\ Settled(s)
      BY <1>5, <2>2, RunnerIs
    <3> QED BY <1>11, <2>2, <3>1 DEF Processes, Knows, Settled, Live
  <2> QED BY <2>1, <2>2
<1> QED BY <1>7, <1>9, <1>10, <1>12 DEF IInv, Maps

LEMMA GetSessionOwns ==
    ASSUME RunnerAssumption, IInv, NEW r \in Runners, GetSession(r) PROVE IInv'
<1> DEFINE Key(parent) == IF parent = None THEN Temp[r] ELSE parent
<1>1. PICK parent \in Resumable :
        /\ \A s \in Runners : Key(parent) \in Seen(s) => runner[s].pc = "done"
        /\ IF parent # None /\ SessionFor(parent) # {}
           THEN /\ Fail(r, FALSE)
                /\ runner' = [runner EXCEPT ![r].pc = "done", ![r].key = Key(parent)]
                /\ UNCHANGED pending
           ELSE /\ pending' = With(pending, Key(parent), r)
                /\ runner' = [runner EXCEPT ![r].pc = "launch", ![r].key = Key(parent),
                                            ![r].temp = Key(parent)]
                /\ UNCHANGED claim
  BY DEF GetSession
<1>2. runner[r].pc = "new" /\ UNCHANGED <<session, owned, alias, closing, holder, sweep>>
  BY DEF GetSession
<1>3. Key(parent) \in Ids \cup {Temp[r]} /\ (parent # None => Key(parent) \in Ids)
  BY DEF Resumable
<1>4. CASE parent # None /\ SessionFor(parent) # {}
  BY <1>1, <1>2, <1>3, <1>4, RefusedOwns
<1>5. CASE ~(parent # None /\ SessionFor(parent) # {})
  <2>1. /\ Key(parent) \notin DOMAIN pending /\ Key(parent) \notin DOMAIN owned
        /\ Key(parent) \notin DOMAIN alias
    BY <1>2, <1>5, FreshIs
  <2> QED BY <1>1, <1>2, <1>3, <1>5, <2>1, LaunchOwns
<1> QED BY <1>4, <1>5

\* A session that is told its id is moved under it, and found under its old id as well.
LEMMA LearnsOwns ==
    ASSUME RunnerAssumption, IInv, NEW r \in Runners, NEW id \in Announced,
           runner[r].pc = "reading", runner[r].temp # None, runner[r].temp \in DOMAIN pending,
           pending' = Without(pending, {runner[r].temp}), owned' = With(owned, id, r),
           alias' = With(alias, runner[r].temp, id),
           runner' = [runner EXCEPT ![r].pc = "registered", ![r].learned = id],
           UNCHANGED <<claim, session, closing, holder, sweep>>
    PROVE  IInv'
<1> DEFINE k == runner[r].temp
<1>1. /\ TypeOK /\ MapsLead /\ IdsAreOwn
      /\ runner \in [Runners -> Runner] /\ runner[r] \in Runner
      /\ Processes(r) /\ Knows(r) /\ Settled(r)
  BY RunnerIs DEF IInv, Maps
<1>2. /\ id \in Ids /\ id # None
      /\ \A s \in Runners : runner[s].key # id /\ runner[s].learned # id
  BY DEF Announced, Seen, RunnerAssumption, AllIds
<1>3. Live(r) /\ runner[r].captured = None /\ runner[r].key = k /\ k \in DOMAIN pending
  BY <1>1 DEF Knows, Live
<1>4. pending[k] = r /\ runner[r].learned = None
  BY <1>1, <1>3 DEF IdsAreOwn, MapsLead
<1>5. k \notin DOMAIN owned /\ k \notin DOMAIN alias
  <2>1. \A t \in DOMAIN alias : alias[t] # None
    BY <1>1 DEF TypeOK, RunnerAssumption, AllIds
  <2> QED BY <1>1, <1>3, <1>4, <2>1 DEF IdsAreOwn
<1>6. id \notin DOMAIN owned /\ id \notin DOMAIN pending /\ id \notin DOMAIN alias
  BY <1>1, <1>2 DEF MapsLead, TypeOK
<1>7. \A i \in DOMAIN owned : owned[i] # r
  <2>1. \A i \in DOMAIN owned : i # None
    BY <1>1 DEF TypeOK, RunnerAssumption, AllIds
  <2> QED BY <1>1, <1>4, <2>1 DEF MapsLead
<1>8. runner'[r] = [runner[r] EXCEPT !.pc = "registered", !.learned = id]
  BY <1>1
<1>9. /\ runner'[r] \in Runner /\ runner'[r].pc = "registered" /\ runner'[r].learned = id
      /\ runner'[r].key = k /\ runner'[r].temp = k /\ runner'[r].captured = None
  BY <1>1, <1>2, <1>3, <1>8 DEF Runner, Points
<1>10. /\ runner' \in [Runners -> Runner]
       /\ \A s \in Runners \ {r} : runner'[s] = runner[s]
       /\ \A s \in Runners : runner'[s].key = runner[s].key /\ (Live(s)' <=> Live(s))
  BY <1>1, <1>3, <1>8, <1>9 DEF Live
<1>11. /\ DOMAIN pending' = DOMAIN pending \ {k}
       /\ \A i \in DOMAIN pending' : pending'[i] = pending[i]
  BY DEF Without
<1>12. /\ DOMAIN owned' = DOMAIN owned \cup {id} /\ owned'[id] = r
       /\ \A i \in DOMAIN owned : owned'[i] = owned[i]
  BY <1>6 DEF With
<1>13. /\ DOMAIN alias' = DOMAIN alias \cup {k} /\ alias'[k] = id
       /\ \A t \in DOMAIN alias : alias'[t] = alias[t]
  BY <1>5 DEF With
<1> HIDE DEF k
<1>14. TypeOK'
  <2>1. k \in AllIds
    BY <1>1, <1>3 DEF TypeOK
  <2>2. DOMAIN pending' \subseteq AllIds /\ \A i \in DOMAIN pending' : pending'[i] \in Runners
    BY <1>1, <1>11 DEF TypeOK
  <2>3. DOMAIN owned' \subseteq Ids /\ \A i \in DOMAIN owned' : owned'[i] \in Runners
    BY <1>1, <1>2, <1>12 DEF TypeOK
  <2>4. DOMAIN alias' \subseteq AllIds /\ \A t \in DOMAIN alias' : alias'[t] \in Ids
    BY <1>1, <1>2, <1>13, <2>1 DEF TypeOK
  <2> QED BY <1>1, <1>10, <2>2, <2>3, <2>4 DEF TypeOK
<1>15. MapsLead'
  <2>1. ASSUME NEW i \in DOMAIN pending'
        PROVE  LET s == pending'[i]
               IN  runner'[s].key = i /\ runner'[s].learned = None /\ runner'[s].pc # "new"
    <3>1. i \in DOMAIN pending /\ i # k /\ pending'[i] = pending[i]
      BY <1>11, <2>1
    <3>2. /\ pending[i] \in Runners /\ runner[pending[i]].key = i
          /\ runner[pending[i]].learned = None /\ runner[pending[i]].pc # "new"
      BY <1>1, <3>1 DEF MapsLead, TypeOK
    <3>3. runner'[pending[i]] = runner[pending[i]]
      BY <1>3, <1>10, <3>1, <3>2
    <3> QED BY <3>1, <3>2, <3>3
  <2>2. ASSUME NEW i \in DOMAIN owned'
        PROVE  LET s == owned'[i]
               IN  /\ runner'[s].learned = i /\ runner'[s].pc # "new"
                   /\ runner'[s].pc \notin {"new", "done"} /\ runner'[s].captured = None =>
                        runner'[s].key \in DOMAIN alias'
    <3>1. CASE i = id
      BY <1>9, <1>12, <1>13, <3>1
    <3>2. CASE i # id
      <4>1. i \in DOMAIN owned /\ owned'[i] = owned[i] /\ owned[i] # r /\ owned[i] \in Runners
        BY <1>1, <1>7, <1>12, <2>2, <3>2 DEF TypeOK
      <4>2. runner'[owned[i]] = runner[owned[i]]
        BY <1>10, <4>1
      <4> QED BY <1>1, <1>13, <4>1, <4>2 DEF MapsLead, Live
    <3> QED BY <3>1, <3>2
  <2>3. ASSUME NEW t \in DOMAIN alias'
        PROVE  alias'[t] \in DOMAIN owned' /\ runner'[owned'[alias'[t]]].key = t
    <3>1. CASE t = k
      BY <1>9, <1>12, <1>13, <3>1
    <3>2. CASE t # k
      <4>1. t \in DOMAIN alias /\ alias'[t] = alias[t] /\ alias[t] \in DOMAIN owned
            /\ runner[owned[alias[t]]].key = t
        BY <1>1, <1>13, <2>3, <3>2 DEF MapsLead
      <4>2. owned'[alias[t]] = owned[alias[t]] /\ owned[alias[t]] \in Runners
        BY <1>1, <1>12, <4>1 DEF TypeOK
      <4> QED BY <1>10, <1>12, <4>1, <4>2
    <3> QED BY <3>1, <3>2
  <2> QED BY <2>1, <2>2, <2>3 DEF MapsLead, Live
<1>16. IdsAreOwn'
  <2>1. ASSUME NEW q \in Runners, NEW s \in Runners, q # s, runner'[q].learned # None
        PROVE  runner'[q].learned # runner'[s].learned
    <3>1. CASE q = r
      BY <1>2, <1>9, <1>10, <2>1, <3>1
    <3>2. CASE s = r
      BY <1>2, <1>9, <1>10, <2>1, <3>2
    <3>3. CASE q # r /\ s # r
      BY <1>1, <1>10, <2>1, <3>3 DEF IdsAreOwn
    <3> QED BY <3>1, <3>2, <3>3
  <2>2. \A q, s \in Runners : q # s /\ Live(q)' /\ Live(s)' => runner'[q].key # runner'[s].key
    BY <1>1, <1>10 DEF IdsAreOwn
  <2>3. ASSUME NEW q \in Runners, NEW s \in Runners, Live(q)', runner'[q].learned # None
        PROVE  runner'[s].key # runner'[q].learned
    <3>1. CASE q = r
      BY <1>2, <1>9, <1>10, <3>1
    <3>2. CASE q # r
      BY <1>1, <1>10, <2>3, <3>2 DEF IdsAreOwn
    <3> QED BY <3>1, <3>2
  <2>4. ASSUME NEW q \in Runners, Live(q)'
        PROVE  LET j == runner'[q].key
               IN  /\ j \notin DOMAIN owned'
                   /\ j \in DOMAIN alias' => alias'[j] = runner'[q].learned
                   /\ j \in DOMAIN pending' => pending'[j] = q
    <3>1. CASE q = r
      <4>1. runner'[q].key = k /\ runner'[q].learned = id /\ k # id
        BY <1>2, <1>3, <1>9, <3>1
      <4>2. k \notin DOMAIN owned' /\ k \notin DOMAIN pending'
        BY <1>5, <1>11, <1>12, <4>1
      <4> QED BY <1>13, <4>1, <4>2
    <3>2. CASE q # r
      <4>1. runner'[q] = runner[q] /\ Live(q) /\ runner[q].key # id
        BY <1>2, <1>10, <2>4, <3>2
      <4>2. runner[q].key # k
        BY <1>1, <1>3, <3>2, <4>1 DEF IdsAreOwn
      <4> DEFINE j == runner[q].key
      <4>3. /\ j \notin DOMAIN owned /\ (j \in DOMAIN alias => alias[j] = runner[q].learned)
            /\ j \in DOMAIN pending => pending[j] = q
        BY <1>1, <4>1 DEF IdsAreOwn
      <4>4. j \notin DOMAIN owned'
        BY <1>12, <4>1, <4>3
      <4>5. j \in DOMAIN alias' => alias'[j] = runner[q].learned
        BY <1>13, <4>2, <4>3
      <4>6. j \in DOMAIN pending' => pending'[j] = q
        BY <1>11, <4>3
      <4> QED BY <4>1, <4>4, <4>5, <4>6
    <3> QED BY <3>1, <3>2
  <2> QED BY <2>1, <2>2, <2>3, <2>4 DEF IdsAreOwn
<1>17. Known(r)' /\ Known(r)
  BY <1>3, <1>4, <1>12, KnownIs
<1>18. ASSUME NEW s \in Runners \ {r} PROVE Known(s)' <=> Known(s)
  <2>1. (\E i \in DOMAIN pending' : pending'[i] = s) <=> \E i \in DOMAIN pending : pending[i] = s
    BY <1>4, <1>11
  <2>2. (\E i \in DOMAIN owned' : owned'[i] = s) <=> \E i \in DOMAIN owned : owned[i] = s
    BY <1>12
  <2> QED BY <2>1, <2>2, KnownIs
<1>19. ASSUME NEW s \in Runners PROVE Processes(s)' /\ Knows(s)' /\ Settled(s)'
  <2>1. CASE s = r
    <3>1. Processes(r)'
      BY <1>1, <1>9, <1>17 DEF Processes
    <3>2. Knows(r)'
      BY <1>1, <1>2, <1>3, <1>9 DEF Knows, Live
    <3>3. Settled(r)'
      BY <1>1, <1>9 DEF Settled
    <3> QED BY <2>1, <3>1, <3>2, <3>3
  <2>2. CASE s # r
    <3>1. runner'[s] = runner[s] /\ Processes(s) /\ Knows(s) /\ Settled(s)
      BY <1>10, <2>2, RunnerIs
    <3> QED BY <1>18, <2>2, <3>1 DEF Processes, Knows, Settled, Live
  <2> QED BY <2>1, <2>2
<1> QED BY <1>14, <1>15, <1>16, <1>19 DEF IInv, Maps

LEMMA RegisterOwns == ASSUME RunnerAssumption, IInv, NEW r \in Runners, Register(r) PROVE IInv'
<1>1. PICK id \in Announced :
        IF \/ runner[r].temp \notin DOMAIN pending
           \/ r \in closing \/ ~(SessionFor(id) \subseteq {r})
        THEN Go(r, "raised") /\ UNCHANGED maps
        ELSE /\ pending' = Without(pending, {runner[r].temp})
             /\ owned' = With(owned, id, r)
             /\ alias' = With(alias, runner[r].temp, id)
             /\ runner' = [runner EXCEPT ![r].pc = "registered", ![r].learned = id]
  BY DEF Register
<1>2. /\ runner[r].pc = "reading" /\ Live(r) /\ runner[r].temp # None
      /\ UNCHANGED <<claim, session, closing, holder, sweep>>
  BY DEF Register, Live
<1>3. CASE Go(r, "raised") /\ UNCHANGED maps
  <2>1. "raised" \in Points \ {"new", "done", "removing", "registered", "spawning"}
    BY DEF Points
  <2> QED BY <1>2, <1>3, <2>1, SameSession, SameTurn, GoStep
<1>4. CASE ~(Go(r, "raised") /\ UNCHANGED maps)
  BY <1>1, <1>2, <1>4, LearnsOwns
<1> QED BY <1>3, <1>4

LEMMA NextOwns == ASSUME RunnerAssumption, IInv, [Next]_vars PROVE IInv'
<1>1. CASE \E r \in Runners : Run(r)
  <2>1. PICK r \in Runners : Run(r)
    BY <1>1
  <2> QED BY <2>1, GetSessionOwns, SpawnOwns, SpawnedOwns, RegisterOwns, RecordSessionOwns,
             ErrorEventOwns, ExitOwns, BreakOwns, ProcessDiesOwns, RaisedOwns, CancelledOwns,
             BeginRemoveOwns, EndRemoveOwns, RemoveInterruptedOwns, CancelOwns, StopOneOwns
          DEF Run
<1>2. CASE BeginStopAll \/ EndStopAll
  BY <1>2, StopAllOwns
<1>3. CASE UNCHANGED vars
  BY <1>3, StutterOwns
<1> QED BY <1>1, <1>2, <1>3 DEF Next

-----------------------------------------------------------------------------
\* The maps of the manager, the ids of the runners and the processes of the sessions agree in
\* every reachable state (the whole of NodeRunner, manager.py and session.py).
THEOREM RunnersAreSound == ASSUME RunnerAssumption PROVE Spec => []IInv
<1>1. Init => IInv
  BY InitOwns
<1>2. IInv /\ [Next]_vars => IInv'
  BY NextOwns
<1> QED BY <1>1, <1>2, PTL DEF Spec

\* What the invariant says of the processes.
LEMMA ProcessesAreKnown == ASSUME RunnerAssumption, IInv PROVE SessionsAreOwned
BY RunnerIs DEF SessionsAreOwned, Processes

\* A CLI process that may be alive is registered and its session is known to the manager, so
\* that the next cleanup finds it; a session that no map knows runs no process
\* (manager.py:147-199, session.py:258-293).
THEOREM NoProcessIsLost == ASSUME RunnerAssumption PROVE Spec => []SessionsAreOwned
<1>1. IInv => SessionsAreOwned
  BY ProcessesAreKnown
<1> QED BY <1>1, RunnersAreSound, PTL

\* What the invariant says of the ids.
LEMMA IdsAgree == ASSUME RunnerAssumption, IInv PROVE IdentitiesAgree
<1>1. TypeOK /\ MapsLead /\ IdsAreOwn
  BY DEF IInv, Maps
<1>2. \A t \in DOMAIN alias : alias[t] \in DOMAIN owned
  BY <1>1 DEF MapsLead
<1>3. \A t, u \in DOMAIN alias : alias[t] = alias[u] => t = u
  BY <1>1 DEF MapsLead
<1>4. \A i, j \in DOMAIN owned : owned[i] = owned[j] => i = j
  BY <1>1 DEF MapsLead
<1>5. \A i, j \in DOMAIN pending : pending[i] = pending[j] => i = j
  BY <1>1 DEF MapsLead
<1>6. \A i \in DOMAIN owned, j \in DOMAIN pending : owned[i] # pending[j]
  <2>1. \A i \in DOMAIN owned : i # None
    BY <1>1 DEF TypeOK, RunnerAssumption, AllIds
  <2> QED BY <1>1, <2>1 DEF MapsLead
<1>7. IsInjective(alias) /\ IsInjective(owned) /\ IsInjective(pending)
  BY <1>3, <1>4, <1>5 DEF IsInjective
<1>8. Range(owned) \cap Range(pending) = {}
  BY <1>6 DEF Range
<1>9. ASSUME NEW r \in Runners
      PROVE  IF runner[r].pc = "done"
             THEN /\ claim[r].state # "in_progress"
                  /\ Known(r) => r \in closing \/ runner[r].cancels > 1
             ELSE OwnId(r) # None => SessionFor(OwnId(r)) \subseteq {r}
  <2>1. CASE runner[r].pc = "done"
    BY <2>1, RunnerIs DEF Settled
  <2>2. CASE runner[r].pc = "new"
    BY <2>2, RunnerIs DEF OwnId, Knows
  <2>3. CASE Live(r)
    BY <2>3, OwnSession DEF Live
  <2> QED BY <2>1, <2>2, <2>3 DEF Live
<1> QED BY <1>2, <1>7, <1>8, <1>9 DEF IdentitiesAgree

\* The id a runner knows leads to its own session and no other, an alias to a session, and a
\* runner that has returned has settled its turn (manager.py:55-158).
THEOREM IdsLeadHome == ASSUME RunnerAssumption PROVE Spec => []IdentitiesAgree
<1>1. IInv => IdentitiesAgree
  BY IdsAgree
<1> QED BY <1>1, RunnersAreSound, PTL

\* What the invariant says of the replies that wait for a turn.
LEMMA FailuresAreFinal == ASSUME RunnerAssumption, IInv PROVE OnlyFailuresPropagate
BY RunnerIs DEF OnlyFailuresPropagate, Settled

\* The replies that wait for a turn fail only when the turn has ended in failure, not on an error
\* that a clean exit may overrule (node_event_pipeline.py, node_runner.py:339-383).
THEOREM ErrorsWaitForTheExit == ASSUME RunnerAssumption PROVE Spec => []OnlyFailuresPropagate
<1>1. IInv => OnlyFailuresPropagate
  BY FailuresAreFinal
<1> QED BY <1>1, RunnersAreSound, PTL
=============================================================================
