----------------------------- MODULE ProxyServer -----------------------------
(***************************************************************************)
(* What runs the server and serves a request, one part at a time: the rate *)
(* window, a response and its lease, the fate of an error, the             *)
(* application's start and shutdown, background servers, Admin's Apply,    *)
(* the provider generations, and the models on offer.  A behaviour belongs *)
(* to one part and leaves the variables of the others alone.               *)
(***************************************************************************)
EXTENDS SlidingWindow

CONSTANTS
    None,
    Requests, MaxChunks, MaxCancels,                     \* ResponseStream
    MaxWork, MaxRestarts,                                \* ApplicationLifecycle
    Terminals,                                           \* BackgroundServer
    Fields, RestartFields, SecretFields, RenamedField,   \* AdminConfig
    FieldValues, TemplateValue, BadValue, MaskValue, MaxApplies, MaxBoots,
    Clients, MaxGeneration, MaxUnpublished, MaxFailures, \* ProviderGenerations
    Providers, Local, Models, AllSettings,               \* ModelCatalog
    MaxReplacements, MaxDiscoveries

VARIABLES
    part,
    request, requestPc, lease, body, source, frame,      \* ResponseStream
    wire, cleanup, cancels,
    provider, errorPc, error, decided, failure, origin,  \* FailurePolicy
    applicationPc, caller, own, work, flags, supervisor, \* ApplicationLifecycle
    terminal, process, pidfile, stop,                    \* BackgroundServer
    stopped, untracked,
    repo, managed, locked, supervised, server, captured, \* AdminConfig
    current, apply, pending, owed, applies, boots,
    runtimes, latest, next, retired, unpublished,        \* ProviderGenerations
    refreshes, refreshTask, leases, operation, arg, closing, closed, failures,
    boot, settings, generation, scope, catalog, refresh, \* ModelCatalog
    test, discoveries, picked, routed

responseVars    == <<request, requestPc, lease, body, source, frame, wire, cleanup, cancels>>
errorVars       == <<provider, errorPc, error, decided, failure, origin>>
applicationVars == <<applicationPc, caller, own, work, flags, supervisor>>
launcherVars    == <<terminal, process, pidfile, stop, stopped, untracked>>
adminVars       == <<repo, managed, locked, supervised, server, captured, current, apply, pending,
                     owed, applies, boots>>
managerVars     == <<runtimes, latest, next, retired, unpublished, refreshes, refreshTask, leases,
                     operation, arg, closing, closed, failures>>
catalogVars     == <<boot, settings, generation, scope, catalog, refresh, test, discoveries, picked,
                     routed>>

serverVars == <<part, vars, responseVars, errorVars, applicationVars, launcherVars, adminVars,
                managerVars, catalogVars>>

-----------------------------------------------------------------------------
Response == INSTANCE ResponseStream WITH pc <- requestPc

Errors == INSTANCE FailurePolicy WITH pc <- errorPc

Application == INSTANCE ApplicationLifecycle WITH pc <- applicationPc

Launcher == INSTANCE BackgroundServer WITH server <- process

Admin == INSTANCE AdminConfig WITH
    Keys <- Fields, Restart <- RestartFields, Secrets <- SecretFields, Renamed <- RenamedField,
    Values <- FieldValues, Default <- TemplateValue, Bad <- BadValue, Mask <- MaskValue

Manager == INSTANCE ProviderGenerations_proofs WITH
    gen <- runtimes, current <- latest, task <- refreshes, lease <- leases, pc <- operation

Catalog == INSTANCE ModelCatalog WITH MaxGeneration <- MaxReplacements

-----------------------------------------------------------------------------
\* What the theorems about the parts take for granted.
ASSUME PartsAssumption ==
    /\ None \notin Terminals
    /\ Response!ResponseAssumption /\ Admin!AdminAssumption /\ Catalog!CatalogAssumption
    /\ MaxGeneration \in Nat \ {0} /\ MaxUnpublished \in Nat /\ MaxFailures \in Nat

-----------------------------------------------------------------------------
ServerParts == {"window", "response", "errors", "application", "launcher", "admin", "manager",
                "catalog"}

InitParts ==
    /\ Init /\ Response!Init /\ Errors!Init /\ Application!Init /\ Launcher!Init
    /\ Admin!Init /\ Manager!Init /\ Catalog!Init

InitServer == part \in ServerParts /\ InitParts

NextServer ==
    /\ UNCHANGED part
    /\ \/ /\ part = "window" /\ Next
          /\ UNCHANGED <<responseVars, errorVars, applicationVars, launcherVars, adminVars,
                         managerVars, catalogVars>>
       \/ /\ part = "response" /\ Response!Next
          /\ UNCHANGED <<vars, errorVars, applicationVars, launcherVars, adminVars, managerVars,
                         catalogVars>>
       \/ /\ part = "errors" /\ Errors!Next
          /\ UNCHANGED <<vars, responseVars, applicationVars, launcherVars, adminVars, managerVars,
                         catalogVars>>
       \/ /\ part = "application" /\ Application!Next
          /\ UNCHANGED <<vars, responseVars, errorVars, launcherVars, adminVars, managerVars,
                         catalogVars>>
       \/ /\ part = "launcher" /\ Launcher!Next
          /\ UNCHANGED <<vars, responseVars, errorVars, applicationVars, adminVars, managerVars,
                         catalogVars>>
       \/ /\ part = "admin" /\ Admin!Next
          /\ UNCHANGED <<vars, responseVars, errorVars, applicationVars, launcherVars, managerVars,
                         catalogVars>>
       \/ /\ part = "manager" /\ Manager!Next
          /\ UNCHANGED <<vars, responseVars, errorVars, applicationVars, launcherVars, adminVars,
                         catalogVars>>
       \/ /\ part = "catalog" /\ Catalog!Next
          /\ UNCHANGED <<vars, responseVars, errorVars, applicationVars, launcherVars, adminVars,
                         managerVars>>

SpecServer == InitServer /\ [][NextServer]_serverVars

-----------------------------------------------------------------------------
(* Properties.  The parts are stated in the modules, with the code they are about. *)

\* asgi.py, commands.py, background_server.py: a new server does not run beside an old one,
\* messaging is up as a whole or not at all; and from `codefa stop` to the next start every
\* background server is dead or told to end, provided that the one pid file could keep track
\* of them.
ServersDoNotOverlap ==
    /\ part = "application" => Application!GraphsDoNotOverlap
    /\ part = "launcher" => Launcher!StopEndsTheServer

\* failure_policy.py, response_streams.py: the client is told of a failure what the retry
\* policy decided, and is told the same behind another instance of the program; and of a
\* stream it is told how it ended, an error being the last thing it is told.
FailuresAreToldAsDecided ==
    /\ part = "errors" => Errors!ToldAsDecided /\ Errors!SurvivesTheHop
    /\ part = "response" => Response!EndIsTold

\* application.py, persistence.py: what is stored is what is served, unless a restart is
\* owed, and a commit changes the fields it was asked to change and no other.
StoredIsServed ==
    /\ [](part = "admin" => Admin!StoredIsServed /\ Admin!CapturedIsStored)
    /\ Admin!CommitIsExact

\* provider_manager.py, response_streams.py, application.py: a generation is used only while
\* its clients are open, is reachable until it is closed, is closed once, and after the
\* shutdown, which from its first step on only drains, there is none; the lease of a request
\* outlives its body, and the application's resources the turns that use them.
ResourcesAreOwned ==
    /\ [](part = "manager" => /\ Manager!TypeOK /\ Manager!InUseIsOpen /\ Manager!RetiredAreOwned
                              /\ Manager!ClosedOnce /\ Manager!ClosedIsEmpty)
    /\ [](part = "response" => Response!LeaseOutlivesBody)
    /\ [](part = "application" => Application!WorkKeepsItsResources)
    /\ Manager!OnlyDrains

\* provider_manager.py, discovery.py, routing.py: whatever discovery answers, however late, the
\* list offers what the current generation can serve, and a client gets the model it picked
\* from a list, with the reasoning its configuration allows.
OfferedIsServed ==
    /\ [](part = "catalog" => /\ Catalog!TypeOK /\ Catalog!DiscoveredIsServable
                              /\ Catalog!PickedIsRouted /\ Catalog!PoliciesAreConsistent)
    /\ Catalog!RefreshesAreCurrent
    /\ Catalog!FailuresRetainEntries
=============================================================================
