-------------------------- MODULE BackgroundServer --------------------------
(***************************************************************************)
(* The background server that `codefa <client>` starts and shares          *)
(* (src/codefa/cli/background_server.py, entrypoints.py).                  *)
(*                                                                         *)
(* Each terminal probes the proxy, starts a server if none answers, writes *)
(* the pid of what it started to the one pid file and polls until a server *)
(* answers, its own has exited, or its time is up.  A server is named by   *)
(* the terminal that started it; at most one of them gets the port.  A     *)
(* server that is told to end may answer for a while, and lives until it   *)
(* has exited.                                                             *)
(***************************************************************************)
EXTENDS Naturals

CONSTANTS
    Terminals,  \* runs of `codefa <client>`, at once or one after the other
    None

VARIABLES
    terminal,   \* ensure_background_server of each terminal
    server,     \* the process it started
    pidfile,    \* background_server_pid_path
    stop,       \* `codefa stop`: the pid it read, while it waits
    stopped,    \* `codefa stop` has returned, and nothing was started since
    untracked   \* history: a server was started beside another, during a stop, or with
                \* nobody left to write its pid

vars == <<terminal, server, pidfile, stop, stopped, untracked>>

Init ==
    /\ terminal = [t \in Terminals |-> "probe"]
    /\ server = [t \in Terminals |-> "none"]
    /\ pidfile = None
    /\ stop = None
    /\ stopped = FALSE
    /\ untracked = FALSE

\* A server answers from when it has bound its port until it closes it.
Running   == {"booting", "bound", "closing"}
Reachable == \E t \in Terminals : server[t] \in {"bound", "closing"}
Alive(t)  == server[t] \in Running \cup {"terminated"}
Starting  == {t \in Terminals : terminal[t] \in {"start", "write", "poll"}}

Step(t, pc) == terminal' = [terminal EXCEPT ![t] = pc]

\* The first probe: a reachable proxy is reused.  It may also be too slow to answer.
Probe(t) ==
    /\ terminal[t] = "probe"
    /\ \/ Reachable /\ Step(t, "reused") /\ UNCHANGED <<stopped, untracked>>
       \/ /\ Step(t, "start") /\ stopped' = FALSE
          /\ untracked' = \/ untracked \/ Starting # {} \/ stop # None
                          \/ \E u \in Terminals : server[u] \in Running
    /\ UNCHANGED <<server, pidfile, stop>>

Start(t) ==
    /\ terminal[t] = "start"
    /\ server' = [server EXCEPT ![t] = "booting"]
    /\ Step(t, "write")
    /\ UNCHANGED <<pidfile, stop, stopped, untracked>>

WritePid(t) ==
    /\ terminal[t] = "write"
    /\ pidfile' = t
    /\ Step(t, "poll")
    /\ UNCHANGED <<server, stop, stopped, untracked>>

\* _terminate: a process that has not bound its port does not come to answer, one that has
\* answers for a while yet, and one that is dead is left alone.
Terminated(t) ==
    [server EXCEPT ![t] = CASE @ = "booting" -> "terminated"
                            [] @ = "bound"   -> "closing"
                            [] OTHER         -> @]

\* The polling ends: somebody's server answers, this one has exited, time is up.
\* The last two do not probe again, so that a server may just have become ready.
Ready(t) ==
    /\ terminal[t] = "poll" /\ Reachable
    /\ Step(t, "ready")
    /\ UNCHANGED <<server, pidfile, stop, stopped, untracked>>
ExitedEarly(t) ==
    /\ terminal[t] = "poll" /\ server[t] = "dead"
    /\ pidfile' = None
    /\ Step(t, "error")
    /\ UNCHANGED <<server, stop, stopped, untracked>>
\* Deviation, for the mutation runs: a server that is too slow is left to itself.
TimedOut_Leaves(t) ==
    /\ terminal[t] = "poll"
    /\ pidfile' = None
    /\ Step(t, "error")
    /\ UNCHANGED <<server, stop, stopped, untracked>>
TimedOut(t) ==
    /\ terminal[t] = "poll"
    /\ server' = Terminated(t)
    /\ pidfile' = None
    /\ Step(t, "error")
    /\ UNCHANGED <<stop, stopped, untracked>>

\* The user interrupts the start: a server that runs is detached and goes on.
Interrupt(t) ==
    /\ t \in Starting
    /\ Step(t, "gone")
    /\ untracked' = (untracked \/ terminal[t] = "write")
    /\ UNCHANGED <<server, pidfile, stop, stopped>>

\* The server binds its port, or exits because it cannot; one that was told to end
\* closes it; and any may exit.
Bind(t) ==
    /\ server[t] = "booting"
    /\ server' = [server EXCEPT ![t] = IF Reachable THEN "dead" ELSE "bound"]
    /\ UNCHANGED <<terminal, pidfile, stop, stopped, untracked>>
Close(t) ==
    /\ server[t] = "closing"
    /\ server' = [server EXCEPT ![t] = "terminated"]
    /\ UNCHANGED <<terminal, pidfile, stop, stopped, untracked>>
Exit(t) ==
    /\ Alive(t)
    /\ server' = [server EXCEPT ![t] = "dead"]
    /\ UNCHANGED <<terminal, pidfile, stop, stopped, untracked>>

\* stop_background_server: nothing to stop, a stale file, or a process to end, with
\* force when it does not go by itself.
BeginStop ==
    /\ stop = None
    /\ IF pidfile = None \/ ~Alive(pidfile)
       THEN stopped' = TRUE /\ pidfile' = None /\ UNCHANGED <<server, stop>>
       ELSE server' = Terminated(pidfile) /\ stop' = pidfile /\ UNCHANGED <<pidfile, stopped>>
    /\ untracked' = (untracked \/ Starting # {})
    /\ UNCHANGED terminal
EndStop ==
    /\ stop # None
    /\ server' = [server EXCEPT ![stop] = "dead"]
    /\ pidfile' = None
    /\ stop' = None /\ stopped' = TRUE
    /\ UNCHANGED <<terminal, untracked>>

Next == \/ \E t \in Terminals : \/ Probe(t) \/ Start(t) \/ WritePid(t)
                                \/ Ready(t) \/ ExitedEarly(t) \/ TimedOut(t) \/ Interrupt(t)
                                \/ Bind(t) \/ Close(t) \/ Exit(t)
        \/ BeginStop \/ EndStop

Spec == Init /\ [][Next]_vars

-----------------------------------------------------------------------------
\* "Several terminals can use it at once; stop it with `codefa stop`" (README.md): once
\* that command has returned and until the next start, every server that any terminal ever
\* started in the background is dead or has been told to end; provided that the one pid file
\* could keep track of them: none was ever started beside another (by a start that overlapped,
\* or because the other did not answer its probe) or during a stop, and no start was
\* interrupted between the process and its pid.
StopEndsTheServer ==
    stopped /\ ~untracked => \A t \in Terminals : server[t] \notin {"booting", "bound"}
=============================================================================
