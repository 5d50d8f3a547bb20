----------------------------- MODULE ModelCatalog -----------------------------
(***************************************************************************)
(* Which models the server offers, and where a request for one goes        *)
(* (src/codefa/providers/runtime/, api/model_catalog.py,                   *)
(* application/routing.py and reasoning.py, core/gateway_model_ids.py).    *)
(*                                                                         *)
(* The catalog of discovered models outlives the provider generations: a   *)
(* discovery asks the providers of one generation and writes what they     *)
(* answer into the catalog of whichever is current by then.  A client      *)
(* picks a model from a list it fetched, and asks for it at any time       *)
(* later.                                                                  *)
(*                                                                         *)
(* Names are sequences of their parts between slashes; a provider model    *)
(* may have several.  ProviderGenerations has the leases and the locks; as *)
(* far as they matter here they are in the guards.                         *)
(***************************************************************************)
EXTENDS Integers, Sequences, FiniteSets, Functions

CONSTANTS
    Providers,       \* the ids of PROVIDER_CATALOG
    Local,           \* those that run on this machine
    Models,          \* the models of a provider: sequences of parts
    AllSettings,     \* the settings that may be applied
    MaxGeneration,   \* replacements, and one
    MaxDiscoveries   \* how often models are refreshed or a provider is tested

Unset == <<>>

VARIABLES
    boot,        \* "validating", "serving" or "closed"
    settings,    \* of the current generation
    generation,  \* its number
    scope,       \* ProviderModelCache._available_provider_ids
    catalog,     \* _model_infos_by_provider, and who wrote each entry for which generation
    refresh,     \* the discovery in the background or under the replace lock
    test,        \* Admin's test of a provider
    discoveries,
    picked,      \* the entry of the model list the client chose, or NoEntry
    routed       \* how the last request was routed, or NoRoute

vars == <<boot, settings, generation, scope, catalog, refresh, test, discoveries, picked, routed>>

\* configured: providers with all their settings.  A ref is <<provider>> \o model; "fable" is
\* one of the four tiers, which has a model and a reasoning preference of its own.
Ref(provider, model) == <<provider>> \o model
Refs == {Ref(p, m) : p \in Providers, m \in Models}
Settings == [configured : SUBSET Providers, model : Refs, fable : Refs \union {Unset},
             reasoning : {"off", "client", "high"},
             reasoningFable : {"inherit", "off", "client", "high"}]

\* A model has a name; settings that may be applied are settings.
CatalogAssumption ==
    /\ Models \subseteq Seq(STRING) \ {<<>>} /\ AllSettings \subseteq Settings
    /\ MaxGeneration \in Nat \ {0}

\* ProviderModelInfo: `thinks` is FALSE if the provider says that the model does not.
Info == [model : Models, thinks : BOOLEAN]

Idle == [phase |-> "idle", gen |-> 0, all |-> FALSE, explicit |-> FALSE, wanted |-> {}]
NoTest == [provider |-> "none", gen |-> 0, infos |-> {}]
NoEntry == [id |-> <<>>, ref |-> <<>>, silent |-> FALSE]
NoRoute == [entry |-> NoEntry, provider |-> "none", model |-> <<>>, preference |-> "client"]

-----------------------------------------------------------------------------
(* configured_chat_model_refs, discovery.py *)

ConfiguredRefs(s) == {s.model, s.fable} \ {Unset}
ReferencedProviders(s) == {Head(r) : r \in ConfiguredRefs(s)}
ListedProviders(s) == {p \in s.configured : p \notin Local \/ p \in ReferencedProviders(s)}

\* Deviation, for the mutation runs: an answer is cached whatever the provider.
Cached_Always(c, answers, gen, by) ==
    [p \in DOMAIN c \union DOMAIN answers |->
        IF p \in DOMAIN answers THEN [infos |-> answers[p], gen |-> gen, by |-> by] ELSE c[p]]

\* cache_model_infos, for each provider that answered: an answer replaces the last one.
Cached(c, answers, gen, by) ==
    [p \in DOMAIN c \union (DOMAIN answers \intersect scope) |->
        IF p \in DOMAIN answers THEN [infos |-> answers[p], gen |-> gen, by |-> by] ELSE c[p]]

\* What `asked` providers answer: some fail; the others list at least one model.
Answers(asked) == UNION {[answering -> {{i} : i \in Info}] : answering \in SUBSET asked}

-----------------------------------------------------------------------------
(* provider_manager.py *)

Init ==
    /\ boot = "validating"
    /\ settings \in AllSettings /\ generation = 1
    /\ scope = settings.configured /\ catalog = <<>>
    /\ refresh = Idle /\ test = NoTest /\ discoveries = 0
    /\ picked = NoEntry /\ routed = NoRoute

\* validate_configured_models, whose failure is only logged, and start_model_list_refresh
Start ==
    /\ boot = "validating"
    /\ boot' = "serving"
    /\ \E answers \in Answers(ReferencedProviders(settings) \intersect settings.configured) :
          catalog' = Cached(catalog, answers, generation, "validation")
    /\ refresh' = [Idle EXCEPT !.phase = "scheduled", !.gen = generation]
    /\ UNCHANGED <<settings, generation, scope, test, discoveries, picked, routed>>

\* refresh_model_list_cache: the first refresh asks only for what the validation has not found.
Ask ==
    /\ refresh.phase = "scheduled"
    /\ LET asked == ListedProviders(settings) \ (IF refresh.all THEN {} ELSE DOMAIN catalog)
       IN  refresh' = [refresh EXCEPT !.phase = "asking", !.wanted = asked]
    /\ UNCHANGED <<boot, settings, generation, scope, catalog, test, discoveries, picked, routed>>

\* _refresh_model_infos: the answers are waited for together and cached at once; a failure
\* leaves the last answer.
Answered ==
    /\ refresh.phase = "asking"
    /\ \E answers \in Answers(refresh.wanted) :
          catalog' = Cached(catalog, answers, refresh.gen, "refresh")
    /\ refresh' = Idle
    /\ UNCHANGED <<boot, settings, generation, scope, test, discoveries, picked, routed>>

\* refresh_model_list_cache of the manager, under the replace lock
RefreshModels ==
    /\ boot = "serving" /\ ~refresh.explicit /\ discoveries < MaxDiscoveries
    /\ discoveries' = discoveries + 1
    /\ refresh' = [phase |-> "asking", gen |-> generation, all |-> TRUE, explicit |-> TRUE,
                   wanted |-> ListedProviders(settings)]
    /\ UNCHANGED <<boot, settings, generation, scope, catalog, test, picked, routed>>

\* set_available_providers
Available(providers) ==
    /\ scope' = providers
    /\ catalog' = Restrict(catalog, DOMAIN catalog \intersect providers)

\* Deviation, for the mutation runs: the old generation's discovery goes on.
NextRefresh_Old == IF refresh.phase = "asking" THEN refresh
                   ELSE [Idle EXCEPT !.phase = "scheduled", !.gen = generation + 1, !.all = TRUE]
NextRefresh == [Idle EXCEPT !.phase = "scheduled", !.gen = generation + 1, !.all = TRUE]

\* replace: the discovery of the old generation is cancelled first, and stays so if the
\* candidate fails.
Replace ==
    /\ boot = "serving" /\ ~refresh.explicit /\ generation < MaxGeneration
    /\ \E s \in AllSettings :
          settings' = s /\ generation' = generation + 1 /\ Available(s.configured)
    /\ refresh' = NextRefresh
    /\ UNCHANGED <<boot, test, discoveries, picked, routed>>

ReplaceFails ==
    /\ boot = "serving" /\ ~refresh.explicit /\ generation < MaxGeneration
    /\ refresh' = Idle
    /\ UNCHANGED <<boot, settings, generation, scope, catalog, test, discoveries, picked, routed>>

\* close, when the leases are drained
Close ==
    /\ boot = "serving" /\ ~refresh.explicit /\ (test = NoTest \/ test.infos # {})
    /\ boot' = "closed" /\ catalog' = <<>> /\ refresh' = Idle
    /\ UNCHANGED <<settings, generation, scope, test, discoveries, picked, routed>>

\* application.py test_provider, under a lease and no lock
TestProvider ==
    /\ boot = "serving" /\ test = NoTest /\ discoveries < MaxDiscoveries
    /\ discoveries' = discoveries + 1
    /\ \E p \in settings.configured : test' = [provider |-> p, gen |-> generation, infos |-> {}]
    /\ UNCHANGED <<boot, settings, generation, scope, catalog, refresh, picked, routed>>

TestFails ==
    /\ test.infos = {} /\ test # NoTest
    /\ test' = NoTest
    /\ UNCHANGED <<boot, settings, generation, scope, catalog, refresh, discoveries, picked,
                   routed>>

\* The lease goes back first, and a generation that has been replaced is closed before the
\* answer is cached.
Tested ==
    /\ test.infos = {} /\ test # NoTest
    /\ \E i \in Info :
          IF test.gen = generation
          THEN /\ test' = NoTest
               /\ catalog' = Cached(catalog, [p \in {test.provider} |-> {i}], test.gen, "test")
          ELSE test' = [test EXCEPT !.infos = {i}] /\ UNCHANGED catalog
    /\ UNCHANGED <<boot, settings, generation, scope, refresh, discoveries, picked, routed>>

TestCached ==
    /\ test.infos # {}
    /\ catalog' = Cached(catalog, [p \in {test.provider} |-> test.infos], test.gen, "test")
    /\ test' = NoTest
    /\ UNCHANGED <<boot, settings, generation, scope, refresh, discoveries, picked, routed>>

-----------------------------------------------------------------------------
(* The model list: api/model_catalog.py, gateway_model_ids.py *)

Gateway    == "anthropic"
NoThinking == "claude-3-freecc-no-thinking"

Entry(prefix, ref) == [id |-> <<prefix>> \o ref, ref |-> ref, silent |-> prefix = NoThinking]

\* cached_model_supports_thinking, which is None for a model that is not cached
MayThink(ref) ==
    LET info == [model |-> Tail(ref), thinks |-> FALSE]
    IN  Head(ref) \in DOMAIN catalog => info \notin catalog[Head(ref)].infos

DiscoveredRefs == UNION {{Ref(p, i.model) : i \in catalog[p].infos} : p \in DOMAIN catalog}

\* build_models_list_response: a model without thinking has its silent variant only.
ModelsList ==
    LET refs == ConfiguredRefs(settings) \union DiscoveredRefs
    IN  {Entry(NoThinking, r) : r \in refs}
            \union {Entry(Gateway, r) : r \in {x \in refs : MayThink(x)}}

Pick ==
    /\ boot = "serving" /\ picked = NoEntry
    /\ picked' \in ModelsList
    /\ UNCHANGED <<boot, settings, generation, scope, catalog, refresh, test, discoveries, routed>>

-----------------------------------------------------------------------------
(* routing.py *)

\* decode_gateway_model_id, _direct_provider_model
NotDirect == [ref |-> Unset, silent |-> FALSE]
Known(ref) == Len(ref) >= 2 /\ Head(ref) \in Providers

\* Deviation, for the mutation runs: an id of another generation's provider is no direct one.
Direct_Configured(name) ==
    LET gateway == Head(name) \in {Gateway, NoThinking}
        ref == IF gateway THEN Tail(name) ELSE name
    IN  IF Known(ref) /\ Head(ref) \in settings.configured
        THEN [ref |-> ref, silent |-> Head(name) = NoThinking] ELSE NotDirect

Direct(name) ==
    LET gateway == Head(name) \in {Gateway, NoThinking}
        ref == IF gateway THEN Tail(name) ELSE name
    IN  IF Known(ref) THEN [ref |-> ref, silent |-> Head(name) = NoThinking] ELSE NotDirect

\* _matched_route, _resolve_model_ref, _resolve_reasoning_preference
IsFable(name) == \E k \in DOMAIN name : name[k] = "fable"
ModelRef(name) == IF IsFable(name) /\ settings.fable # Unset THEN settings.fable ELSE settings.model
Preference(name) ==
    IF IsFable(name) /\ settings.reasoningFable # "inherit" THEN settings.reasoningFable
    ELSE settings.reasoning

\* resolve
Resolve(name) ==
    LET direct == Direct(name)
        ref == IF direct = NotDirect THEN ModelRef(name) ELSE direct.ref
    IN  [provider   |-> Head(ref),
         model      |-> Tail(ref),
         preference |-> IF direct = NotDirect THEN Preference(name)
                        ELSE IF direct.silent THEN "off" ELSE settings.reasoning]

-----------------------------------------------------------------------------
(* reasoning.py *)

\* What a request says: `thinking` is absent, switched off or on, adaptive, or has only a
\* budget; "none" as an effort switches reasoning off.
Asks == [thinking : {"absent", "off", "on", "budget"}, budget : BOOLEAN,
         effort : {"absent", "none", "low"}]

Policy(control, effort, budget) == [control |-> control, effort |-> effort, budget |-> budget]

\* client_reasoning_policy
ClientPolicy(ask) ==
    LET effort == IF ask.effort = "low" THEN "low" ELSE "none"
        budget == ask.budget /\ ask.thinking # "absent"
    IN  IF ask.effort = "none" THEN Policy("off", "none", FALSE)
        ELSE IF ask.thinking = "off" THEN Policy("off", effort, FALSE)
        ELSE IF ask.thinking = "on" \/ budget THEN Policy("on", effort, budget)
        ELSE Policy("default", effort, FALSE)

\* resolve_reasoning_policy
ResolvePolicy(ask, preference) ==
    CASE preference = "off"    -> Policy("off", "none", FALSE)
      [] preference = "client" -> ClientPolicy(ask)
      [] OTHER                 -> Policy("on", preference, FALSE)

\* resolve_messages_request, for the model picked or one of the built-in names
Route ==
    /\ boot = "serving" /\ routed = NoRoute
    /\ \E entry \in {picked} \union {[NoEntry EXCEPT !.id = <<n>>] : n \in {"fable", "other"}} :
          /\ entry # NoEntry
          /\ LET r == Resolve(entry.id)
             IN  routed' = [entry |-> entry, provider |-> r.provider, model |-> r.model,
                            preference |-> r.preference]
    /\ UNCHANGED <<boot, settings, generation, scope, catalog, refresh, test, discoveries, picked>>

-----------------------------------------------------------------------------
Next ==
    \/ Start \/ Ask \/ Answered \/ RefreshModels \/ Replace \/ ReplaceFails \/ Close
    \/ TestProvider \/ TestFails \/ Tested \/ TestCached \/ Pick \/ Route

Spec == Init /\ [][Next]_vars

-----------------------------------------------------------------------------
(* Properties *)

\* Types of every variable; there is a discovery only while the server runs.
TypeOK ==
    /\ boot \in {"validating", "serving", "closed"}
    /\ settings \in Settings /\ generation \in 1 .. MaxGeneration
    /\ DOMAIN catalog \subseteq scope
    /\ boot # "serving" => refresh = Idle

\* model_cache.py: whatever discovery answers, however late and for whichever generation, the
\* list offers discovered models only of providers that the current generation can build.
DiscoveredIsServable == DOMAIN catalog \subseteq settings.configured

\* "without racing replacement": a refresh, in the background or asked for, never writes what
\* it asked a generation that has been replaced; only Admin's test of a provider does.
RefreshesAreCurrent ==
    [][\A p \in DOMAIN catalog' :
          LET written == catalog'[p] # (IF p \in DOMAIN catalog THEN catalog[p] ELSE <<>>)
          IN  written /\ catalog'[p].by = "refresh" => catalog'[p].gen = generation]_vars

\* "Discovery failures retain prior entries": a model leaves the catalog only with the
\* configuration of its provider, with the provider's next answer or with the server.
FailuresRetainEntries ==
    [][\A p \in DOMAIN catalog :
          \/ p \in DOMAIN catalog'
          \/ p \notin settings'.configured
          \/ boot' = "closed"]_vars

\* A client gets the model it picked, whatever was applied since it fetched the list, or the
\* provider's refusal, but never another one; and a silent variant never thinks.
PickedIsRouted ==
    routed.entry.ref # Unset =>
        /\ <<routed.provider>> \o routed.model = routed.entry.ref
        /\ routed.entry.silent =>
              \A ask \in Asks : ResolvePolicy(ask, routed.preference) = Policy("off", "none", FALSE)

\* ReasoningPolicy.__post_init__, which raises: a budget comes only with reasoning switched on;
\* and a preference other than the client's overrules the client.
PoliciesAreConsistent ==
    \A ask \in Asks :
        LET policy == ResolvePolicy(ask, routed.preference)
        IN  /\ policy.budget => policy.control = "on"
            /\ routed.preference # "client" => ~policy.budget
=============================================================================
