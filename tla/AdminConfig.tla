----------------------------- MODULE AdminConfig -----------------------------
(***************************************************************************)
(* Configuration as the Admin UI sees it: where a value comes from, what   *)
(* an Apply writes into the managed file, what it publishes at once, and   *)
(* what waits for a restart (src/codefa/config/admin/, env_migrations.py,  *)
(* runtime/application.py apply_admin_config, cli/commands.py serve).      *)
(*                                                                         *)
(* The template holds the default of every key; "old" is the retired name  *)
(* of one key.  Somebody may edit the repository's file between two runs   *)
(* of the server, and the explicit file and the process environment (the   *)
(* locked sources) as well (external).                                     *)
(***************************************************************************)
EXTENDS Integers, FiniteSets

CONSTANTS
    Keys,       \* the fields of the manifest
    Restart,    \* those that are restart_required or session_sensitive
    Secrets,    \* those the UI shows masked
    Renamed,    \* the key that has a retired name
    Values,     \* values of a field
    Default,    \* the template's value of every field
    Bad,        \* a value that Settings rejects
    Mask,       \* what the UI shows of a secret
    MaxApplies, \* Apply requests
    MaxBoots    \* runs of the server

VARIABLES
    repo,       \* the repository's .env: the keys it defines
    managed,    \* the managed file, and the temporary one beside it
    locked,     \* the explicit file and the process environment
    supervised, \* the server was given a restart callback
    server,     \* "down", "up", "committing" (an Apply holds the locks), "restarting"
    captured,   \* the values the running server was built from
    current,    \* the settings of the current provider generation
    apply,      \* the Apply in progress: its updates, target and pending fields
    pending,    \* ApplicationRuntime._pending_fields
    owed,       \* what was committed and not served: "captured", "current"
    applies,
    boots

vars == <<repo, managed, locked, supervised, server, captured, current, apply, pending, owed,
          applies, boots>>

\* The renamed key and those that wait for a restart are fields.
AdminAssumption == Renamed \in Keys /\ Restart \subseteq Keys

NoFile  == <<>>                  \* a file that defines nothing, or is not there
NoApply == [updates |-> NoFile, target |-> NoFile, pending |-> {}]

Files(S) == UNION {[K -> Values] : K \in S}

Or(f, g) == [k \in DOMAIN f \union DOMAIN g |-> IF k \in DOMAIN f THEN f[k] ELSE g[k]]
Only(f, S) == [k \in DOMAIN f \intersect S |-> f[k]]

\* template_values, and load_value_state: later files and the process win.
Template  == [k \in Keys |-> Default]
Effective == Or(Only(locked, Keys), Or(Only(managed.file, Keys), Or(Only(repo, Keys), Template)))
IsLocked(k) == k \in DOMAIN locked

Init ==
    /\ repo = NoFile
    /\ managed = [file |-> NoFile, temp |-> NoFile]
    /\ locked = NoFile /\ supervised = FALSE
    /\ server = "down" /\ captured = Template /\ current = Template
    /\ apply = NoApply /\ pending = {} /\ owed = {} /\ applies = 0 /\ boots = 0

-----------------------------------------------------------------------------
(* The server *)

\* migrate_env_key_in_text: renamed unless the new key is defined.
Migrated(f) ==
    IF "old" \in DOMAIN f /\ Renamed \notin DOMAIN f
    THEN [k \in (DOMAIN f \ {"old"}) \union {Renamed} |-> IF k = Renamed THEN f["old"] ELSE f[k]]
    ELSE f

\* serve, or an application run without it: the owned files are migrated, and the server is
\* built from what is effective.
Boot ==
    /\ server \in {"down", "restarting"} /\ boots < MaxBoots /\ boots' = boots + 1
    /\ repo' = Migrated(repo)
    /\ managed' = [managed EXCEPT !.file = Migrated(@)]
    /\ supervised' \in IF boots = 0 THEN BOOLEAN ELSE {supervised}
    /\ UNCHANGED <<locked, applies>>
    /\ captured' = Effective' /\ current' = Effective'
    /\ server' = "up" /\ pending' = {} /\ owed' = {} /\ apply' = NoApply

\* A crash, also between the two steps of a commit.
Crash ==
    /\ server # "down" /\ server' = "down"
    /\ apply' = NoApply /\ pending' = {} /\ owed' = {}
    /\ UNCHANGED <<repo, managed, locked, supervised, captured, current, applies, boots>>

\* The files that are not the server's change while it is down (external).
Edit ==
    /\ server = "down"
    /\ repo' \in Files({{}, {"old"}, {"old", Renamed}, Keys \ Secrets})
    /\ locked' \in Files({{}} \union {{k} : k \in Keys})
    /\ UNCHANGED <<managed, supervised, server, captured, current, apply, pending, owed,
                   applies, boots>>

-----------------------------------------------------------------------------
(* Apply *)

Unmasked(updates) ==
    {k \in DOMAIN updates : ~IsLocked(k) /\ ~(k \in Secrets /\ updates[k] = Mask)}

\* Deviation, for the mutation runs: the first write forgets what was effective.
Seed_Template == IF DOMAIN managed.file # {} THEN Only(managed.file, Keys) ELSE NoFile
\* What the managed file starts from: itself, or what is effective if there is none.
Seed ==
    IF DOMAIN managed.file # {} THEN Only(managed.file, Keys)
    ELSE [k \in {j \in Keys : ~IsLocked(j)} |-> Effective[k]]

\* Deviation, for the mutation runs: a masked secret is taken for its value.
Target_Masked(updates) == Or([k \in {j \in DOMAIN updates : ~IsLocked(j)} |-> updates[k]], Or(Seed, Template))

\* target_values_with_updates
Target(updates) == Or([k \in Unmasked(updates) |-> updates[k]], Or(Seed, Template))

\* effective_values_for_validation and settings_from_values
Prospective(target) == Or(Only(locked, Keys), target)
Valid(target)       == \A k \in Keys : Prospective(target)[k] # Bad

\* Deviation, for the mutation runs: every change is published at once.
PendingOf_None(updates) == {}
\* changed_pending_fields
PendingOf(updates) ==
    {k \in Unmasked(updates) \intersect Restart : updates[k] # Effective[k]}

\* apply_admin_config takes the lock and prepares: an invalid update changes nothing.
BeginApply ==
    /\ server = "up" /\ applies < MaxApplies /\ applies' = applies + 1
    /\ \E K \in SUBSET Keys : \E updates \in [K -> Values \union {Bad, Mask}] :
          /\ \A k \in K : updates[k] = Mask => k \in Secrets
          /\ LET target == Target(updates)
             IN  IF Valid(target)
                 THEN /\ server' = "committing"
                      /\ apply' = [updates |-> updates, target |-> target,
                                   pending |-> PendingOf(updates)]
                 ELSE UNCHANGED <<server, apply>>
    /\ UNCHANGED <<repo, managed, locked, supervised, captured, current, pending, owed, boots>>

\* commit_prepared_admin_update: the temporary file is written beside the managed one.
WriteTemp ==
    /\ server = "committing" /\ managed.temp # apply.target
    /\ managed' = [managed EXCEPT !.temp = apply.target]
    /\ UNCHANGED <<repo, locked, supervised, server, captured, current, apply, pending, owed,
                   applies, boots>>

\* Deviation, for the mutation runs: the file is replaced before the candidate is built.
ApplyFails_Committed ==
    /\ server = "committing"
    /\ managed' = [file |-> apply.target, temp |-> NoFile]
    /\ server' = "up" /\ apply' = NoApply
    /\ UNCHANGED <<repo, locked, supervised, captured, current, pending, owed, applies, boots>>

\* The candidate cannot be built, or the disk refuses: the exception leaves the lock.
ApplyFails ==
    /\ server = "committing"
    /\ managed' = [managed EXCEPT !.temp = NoFile]
    /\ server' = "up" /\ apply' = NoApply
    /\ UNCHANGED <<repo, locked, supervised, captured, current, pending, owed, applies, boots>>

\* os.replace, and the temporary file is gone.
Replaced == managed' = [file |-> apply.target, temp |-> NoFile]

\* A restart-required change is only committed; the restart follows by itself if the
\* server is supervised.
CommitPending ==
    /\ server = "committing" /\ apply.pending # {} /\ managed.temp = apply.target
    /\ Replaced
    /\ pending' = IF supervised THEN {} ELSE apply.pending
    /\ server' = IF supervised THEN "restarting" ELSE "up"
    /\ owed' = {"captured", "current"} /\ apply' = NoApply
    /\ UNCHANGED <<repo, locked, supervised, captured, current, applies, boots>>

\* Any other change is committed and published as a new provider generation.
Publish ==
    /\ server = "committing" /\ apply.pending = {} /\ managed.temp = apply.target
    /\ Replaced
    /\ current' = Prospective(apply.target)
    /\ pending' = {} /\ owed' = owed \ {"current"}
    /\ server' = "up" /\ apply' = NoApply
    /\ UNCHANGED <<repo, locked, supervised, captured, applies, boots>>

Next == Boot \/ Crash \/ Edit \/ BeginApply \/ WriteTemp \/ ApplyFails \/ CommitPending \/ Publish

Spec == Init /\ [][Next]_vars

-----------------------------------------------------------------------------
(* What an Apply promises *)

\* While nothing waits for a restart, the providers run on what is stored: a failed
\* candidate, a failed write and an invalid update leave both as they were
\* (application.py apply_admin_config, persistence.py).
StoredIsServed ==
    server = "up" /\ "current" \notin owed => current = Effective

\* A setting that is captured when the server is built and was changed since waits
\* for a restart that will come: no Apply publishes such a change in place
\* (persistence.py changed_pending_fields).
CapturedIsStored ==
    server \in {"up", "committing"} /\ "captured" \notin owed =>
        \A k \in Restart : captured[k] = Effective[k]

\* A commit changes the fields it was asked to change and no other, a masked secret
\* and a locked field included; and a crash leaves the old file or the new one.  (A
\* managed file that lacks a key the repository's file defines is the exception: the
\* commit fills in the template's value.)
CommitIsExact ==
    [][managed'.file # managed.file /\ server = "committing" =>
          \A k \in Keys :
             \/ k \in Unmasked(apply.updates) /\ Effective'[k] = apply.updates[k]
             \/ k \notin Unmasked(apply.updates) /\ Effective'[k] = Effective[k]
             \/ DOMAIN managed.file # {} /\ k \notin DOMAIN managed.file]_vars
=============================================================================
