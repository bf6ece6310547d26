---------------------------- MODULE TenantAccess ----------------------------
(***************************************************************************)
(* Who may see and rate a workflow.  `orcha tenants add` writes public     *)
(* keys into a JSON file, the API reads the file once, when it starts, and *)
(* decides every later request by what it read then: a token is checked    *)
(* against the key its tenant registered under its kid, and a workflow is  *)
(* shown to the tenant that created it.  The file is not locked: the       *)
(* commands and a starting API read it, truncate it and write it as        *)
(* separate steps.                                                         *)
(***************************************************************************)
EXTENDS Naturals

CONSTANTS
    Admins,         \* the `tenants add` processes that may run at a time
    Tenants,        \* tenant ids
    Kids,           \* key ids
    Keys,           \* key pairs
    DevTenant,      \* DEV_TENANT_ID
    Workflows,
    NoKey,
    Missing, Torn,  \* a file that is not there, and one that does not parse
    AuthModes,      \* the values auth_off may have at a start of the API
    AddCap,         \* bound: runs of `tenants add`
    FeedbackCap     \* bound: rows of feedback of one tenant on one workflow

\* A tenant with no key has no entry.
Registry == [Tenants -> [Kids -> Keys \cup {NoKey}]]

ASSUME TenantAssumption ==
    /\ DevTenant \in Tenants
    /\ NoKey \notin Keys
    /\ Missing # Torn /\ {Missing, Torn} \cap Registry = {}
    /\ AuthModes \subseteq BOOLEAN
    /\ AddCap \in Nat /\ FeedbackCap \in Nat

VARIABLES
    file,           \* tenants.json: its entries, or how it is unreadable
    cli,            \* the run of `tenants add` of each admin
    adds,           \* how many runs there were
    vouched,        \* the keys an admin asked to register, for whom
    api,            \* where the API process stands
    registry,       \* app.state.tenant_registry
    authOff,        \* get_settings().auth_off of the running process
    owner,          \* tenant_id of the workflow rows
    feedback,       \* how many feedback rows: by workflow and tenant
    answer          \* the last answer of the API

registryVars == <<file, cli, adds, vouched>>
apiVars == <<api, registry, authOff>>
rowVars == <<owner, feedback>>
vars == <<registryVars, apiVars, rowVars, answer>>

Empty == [t \in Tenants |-> [k \in Kids |-> NoKey]]
Unreadable == {Missing, Torn}

NoAnswer == [code |-> 0, key |-> NoKey, scope |-> "none", workflow |-> "none"]
Idle == [at |-> "idle", new |-> Empty, force |-> FALSE]

Init ==
    /\ file \in {Missing, Empty}
    /\ cli = [a \in Admins |-> Idle]
    /\ adds = 0
    /\ vouched = {}
    /\ api = "down"
    /\ registry = Empty
    /\ authOff = FALSE
    /\ owner = [w \in Workflows |-> "none"]
    /\ feedback = [w \in Workflows |-> [t \in Tenants |-> 0]]
    /\ answer = NoAnswer

-----------------------------------------------------------------------------
(* orcha tenants add *)

\* Mutant of Added: the registry is begun anew.
AddedAlone(read, t, k, key) == [Empty EXCEPT ![t][k] = key]

\* The entry in its place, every other entry as it was read.
Added(read, t, k, key) == [read EXCEPT ![t][k] = key]

\* Everything up to write_text: the file is read, an existing key refused
\* unless --force, and the new contents are made in memory.  A torn file
\* raises JSONDecodeError.
ReadFile(a, t, k, key, force) ==
    LET read == IF file = Missing THEN Empty ELSE file
    IN  /\ cli[a].at = "idle"
        /\ adds < AddCap
        /\ file # Torn
        /\ read[t][k] = NoKey \/ force
        /\ cli' = [cli EXCEPT ![a] = [at |-> "read", new |-> Added(read, t, k, key),
                                       force |-> force]]
        /\ adds' = adds + 1
        /\ vouched' = vouched \cup {[tenant |-> t, key |-> key]}
        /\ answer' = NoAnswer
        /\ UNCHANGED <<file, apiVars, rowVars>>

\* write_text opens the file for writing, which empties it.
Truncate(a) ==
    /\ cli[a].at = "read"
    /\ cli' = [cli EXCEPT ![a].at = "open"]
    /\ file' = Torn
    /\ answer' = NoAnswer
    /\ UNCHANGED <<adds, vouched, apiVars, rowVars>>

\* The contents go to the start of the file.  What another writer has put
\* there since it was emptied is overwritten, and its end stays if it is longer.
Overwritten(now, new) ==
    IF now = Torn THEN {new}
    ELSE IF now = Empty \/ now = new THEN {new}
    ELSE IF new = Empty THEN {Torn} ELSE {new, Torn}

WriteFile(a) ==
    /\ cli[a].at = "open"
    /\ file' \in Overwritten(file, cli[a].new)
    /\ cli' = [cli EXCEPT ![a] = Idle]
    /\ answer' = NoAnswer
    /\ UNCHANGED <<adds, vouched, apiVars, rowVars>>

-----------------------------------------------------------------------------
(* The life of the API process *)

\* lifespan(): with authentication off the registry stays empty, a file that
\* is there is read, and one that does not parse ends the process.
Start ==
    /\ api = "down"
    /\ answer' = NoAnswer
    /\ \E off \in AuthModes :
        /\ authOff' = off
        /\ \/ off /\ api' = "up" /\ registry' = Empty
           \/ ~off /\ file \notin Unreadable /\ api' = "up" /\ registry' = file
           \/ ~off /\ file = Missing /\ api' = "creating" /\ UNCHANGED registry
           \/ ~off /\ file = Torn /\ UNCHANGED <<api, registry>>
    /\ UNCHANGED <<registryVars, rowVars>>

\* from_file found no file a moment ago and now writes an empty one.
OpenNewFile ==
    /\ api = "creating"
    /\ file' = Torn
    /\ api' = "writing"
    /\ answer' = NoAnswer
    /\ UNCHANGED <<cli, adds, vouched, registry, authOff, rowVars>>

WriteNewFile ==
    /\ api = "writing"
    /\ file' \in Overwritten(file, Empty)
    /\ api' = "up"
    /\ registry' = Empty
    /\ answer' = NoAnswer
    /\ UNCHANGED <<cli, adds, vouched, authOff, rowVars>>

Stop ==
    /\ api # "down"
    /\ api' = "down"
    /\ registry' = Empty
    /\ answer' = NoAnswer
    /\ UNCHANGED <<registryVars, authOff, rowVars>>

-----------------------------------------------------------------------------
(* Requests *)

\* A token as its bearer presents it: the claims, the kid of its header and
\* the key that signed it.  Its scope is absent, the wildcard or a workflow.
Token == [iss : Tenants, kid : Kids, key : Keys,
          scope : Workflows \cup {"none", "*"}, expired : BOOLEAN]

\* Mutant of Verified: the key is looked up by its kid, for any tenant.
VerifiedByKid(tok) ==
    /\ \E t \in Tenants : registry[t][tok.kid] = tok.key
    /\ ~tok.expired

\* What decode_access_token accepts; every other token is answered 401.
Verified(tok) ==
    /\ registry[tok.iss][tok.kid] = tok.key
    /\ ~tok.expired

\* The requests get_current_user lets in: the tenant they act for, the scope
\* of their token, and the key that vouches for them.
Contexts ==
    IF authOff
    THEN {[tenant |-> DevTenant, scope |-> "none", key |-> NoKey]}
    ELSE {[tenant |-> tok.iss, scope |-> tok.scope, key |-> tok.key] :
             tok \in {x \in Token : Verified(x)}}

InScope(auth, w) == auth.scope \in {"none", "*", w}

Owns(auth, w) == owner[w] = auth.tenant

\* get_authorized_workflow checks the scope before it looks for the row;
\* get_tenant_workflow asks for no scope.
AuthorizedCode(auth, w) ==
    IF ~InScope(auth, w) THEN 403
    ELSE IF owner[w] = "none" THEN 404
    ELSE IF ~Owns(auth, w) THEN 403 ELSE 200

TenantCode(auth, w) ==
    IF owner[w] = "none" THEN 404
    ELSE IF ~Owns(auth, w) THEN 403 ELSE 200

Answered(auth, w, code, scope) ==
    answer' = [code |-> code, key |-> auth.key, scope |-> scope, workflow |-> w]

Unauthorized ==
    /\ api = "up"
    /\ ~authOff
    /\ answer' = [NoAnswer EXCEPT !.code = 401]
    /\ UNCHANGED <<registryVars, apiVars, rowVars>>

\* A workflow belongs to the tenant of the request that creates it.
Create(auth, w) ==
    /\ owner[w] = "none"
    /\ owner' = [owner EXCEPT ![w] = auth.tenant]
    /\ Answered(auth, w, 200, "none")
    /\ UNCHANGED <<registryVars, apiVars, feedback>>

\* GET /workflows/{id}, and what opens a stream of its events.
Read(auth, w) ==
    /\ Answered(auth, w, AuthorizedCode(auth, w), auth.scope)
    /\ UNCHANGED <<registryVars, apiVars, rowVars>>

\* WorkflowFeedbackService.create appends a row with the tenant of the request.
AppendFeedback(auth, w) == feedback' = [feedback EXCEPT ![w][auth.tenant] = @ + 1]

\* POST /workflows/{id}/feedback.
Rate(auth, w) ==
    LET code == TenantCode(auth, w)
    IN  /\ feedback[w][auth.tenant] < FeedbackCap
        /\ Answered(auth, w, code, "none")
        /\ IF code = 200 THEN AppendFeedback(auth, w) ELSE UNCHANGED feedback
        /\ UNCHANGED <<registryVars, apiVars, owner>>

Request ==
    /\ api = "up"
    /\ \E auth \in Contexts, w \in Workflows :
        Create(auth, w) \/ Read(auth, w) \/ Rate(auth, w)

AddCommand(a) ==
    \/ \E t \in Tenants, k \in Kids, key \in Keys, force \in BOOLEAN :
        ReadFile(a, t, k, key, force)
    \/ Truncate(a)
    \/ WriteFile(a)

Next ==
    \/ \E a \in Admins : AddCommand(a)
    \/ Start \/ OpenNewFile \/ WriteNewFile \/ Stop
    \/ Unauthorized
    \/ Request

Spec == Init /\ [][Next]_vars

-----------------------------------------------------------------------------
(* Properties *)

\* Every variable holds a value the program can give it.
TypeOK ==
    /\ file \in Registry \cup Unreadable
    /\ cli \in [Admins -> [at : {"idle", "read", "open"}, new : Registry,
                        force : BOOLEAN]]
    /\ adds \in Nat
    /\ vouched \subseteq [tenant : Tenants, key : Keys]
    /\ api \in {"down", "creating", "writing", "up"}
    /\ registry \in Registry
    /\ authOff \in BOOLEAN
    /\ owner \in [Workflows -> Tenants \cup {"none"}]
    /\ feedback \in [Workflows -> [Tenants -> Nat]]
    /\ answer \in [code : {0, 200, 401, 403, 404}, key : Keys \cup {NoKey},
                   scope : Workflows \cup {"none", "*"},
                   workflow : Workflows \cup {"none"}]

\* However commands, restarts and requests interleave, a workflow is shown,
\* created or rated only for its tenant: on a token of a key that some admin
\* registered for that very tenant, or, with no key, for the dev tenant.  A
\* token scoped to a workflow reads and streams no other.
AnsweredToOwner ==
    answer.code = 200 =>
        /\ IF answer.key = NoKey
           THEN owner[answer.workflow] = DevTenant
           ELSE [tenant |-> owner[answer.workflow], key |-> answer.key] \in vouched
        /\ answer.scope \in {"none", "*", answer.workflow}

\* What the file holds once the command that is writing it has finished.
Settled(f, c) ==
    IF \E a \in Admins : c[a].at = "open"
    THEN c[CHOOSE a \in Admins : c[a].at = "open"].new
    ELSE IF f \in Unreadable THEN Empty ELSE f

\* A second `tenants add` leaves earlier registrations in place, and a key is
\* replaced only with --force: while one command runs at a time this holds
\* through truncations and restarts, but for an API that creates the file.
RegistrationsKept ==
    [][api \notin {"creating", "writing"} =>
        \A t \in Tenants, k \in Kids :
            LET before == Settled(file, cli)[t][k]
                after  == Settled(file', cli')[t][k]
            IN  before # NoKey =>
                    \/ after = before
                    \/ after # NoKey /\ \E a \in Admins : cli[a].force]_vars

\* A key that is registered is replaced only with --force, says the command
\* that refuses to (cli/tenants.py:49-53): when a command without it empties the
\* file, what it is about to write has every key the file had.
NoKeyDroppedUnforced ==
    [][\A a \in Admins :
          cli[a].at = "read" /\ cli'[a].at = "open" /\ ~cli[a].force
              /\ file \notin Unreadable =>
              \A t \in Tenants, k \in Kids :
                  file[t][k] # NoKey => cli[a].new[t][k] = file[t][k]]_vars

=============================================================================
