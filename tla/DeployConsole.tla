---------------------------- MODULE DeployConsole ----------------------------
(***************************************************************************)
(* The deployment console (site/bsc/deploy/app.js): a vault deployment and *)
(* an identity registration, each asked of the owner's wallet behind a     *)
(* marker in localStorage; the service behind it (deployment-server.ts)    *)
(* with its readiness check (preflight.ts) and its proofs (deployment.ts,  *)
(* identity.ts).  There is no lock between tabs, and the marker is read    *)
(* when a page loads and never again.                                      *)
(*                                                                         *)
(* At most the primary endpoint lies (Faulty).  The wallet may decide a    *)
(* request after its tab is gone; assertWallet may fail before any.        *)
(***************************************************************************)
EXTENDS Integers, Sequences, FiniteSets

CONSTANTS
    Tabs,         \* tabs of one browser
    Faulty,       \* the endpoint that may answer anything: "primary" or "none"
    MaxRequests   \* bound of the model: requests to the wallet

ASSUME BoundsAssumption == MaxRequests \in Nat
ASSUME FaultAssumption == Faulty \in {"primary", "none"}

VARIABLES
    marker,     \* marker[k]: what localStorage holds for each kind of request
    tab,        \* what each tab does and remembers
    requests,   \* every request the wallet has seen; a hash is its index
    broken      \* the conditions of a deployment that fail on the chain now

vars == <<marker, tab, requests, broken>>

Kinds == {"deploy", "register"}
Hashes == 1 .. MaxRequests
NoHash == 0

\* Markers: none, the text WALLET_REQUESTED, or the hash of a transaction.
NoMarker == -1
WalletRequested == 0
Marker == {NoMarker, WalletRequested} \cup Hashes

\* ready: the conditions held when an endpoint that tells the truth was last asked.
Request == [kind : Kinds, ready : BOOLEAN,
            st : {"asked", "rejected", "live", "mined", "reverted"}]

Tab == [job : Kinds \cup {"idle"}, step : {"checking", "ready", "asked"}, tx : Hashes \cup {NoHash},
        sound : BOOLEAN, preflight : {"none", "READY", "BLOCKED", "EXPIRED"},
        attempted : [Kinds -> BOOLEAN], proof : [Kinds -> Hashes \cup {NoHash}],
        storage : BOOLEAN]

Become(t, state) == tab' = [tab EXCEPT ![t] = state]
Idle(t) == [tab[t] EXCEPT !.job = "idle", !.step = "checking", !.tx = NoHash, !.sound = FALSE]

-----------------------------------------------------------------------------
\* What the service reads through its endpoints.

\* The groups of named checks of inspectDeployment.
Conditions == {"block", "owner", "dependencies", "prices", "routes", "gas"}

\* A route cannot be quoted without the code and the prices it is checked against.
Failing(facts) ==
    facts \cup IF facts \cap {"dependencies", "prices"} # {} THEN {"routes"} ELSE {}

\* inspectDeployment: every check is made and reported, at one block.
InspectDeployment(rpc) ==
    IF rpc = Faulty THEN {{}, {"gas"}} \cup {Failing(broken)} ELSE {Failing(broken)}

\* Faulty variant: one endpoint that reports no failure is enough.
ReadyEither(a, b) == a = {} \/ b = {}

\* deploymentPreflight: both report the same facts of the same block, and no failure.
ReadyBoth(a, b) == a = {} /\ b = {}

DeploymentPreflight ==
    {IF ReadyBoth(a, b) THEN "READY" ELSE "BLOCKED" :
        a \in InspectDeployment("primary"), b \in InspectDeployment("independent")}

\* A receipt two blocks deep, or pending.
Reports(rpc, hash, kind) ==
    IF rpc = Faulty THEN {"PENDING", "VERIFIED", "MISMATCH"}
    ELSE {"PENDING"} \cup
         (CASE requests[hash].st = "mined" /\ requests[hash].kind = kind -> {"VERIFIED"}
            [] requests[hash].st \in {"mined", "reverted"} -> {"MISMATCH"}
            [] OTHER -> {})

\* Faulty variant: the endpoint that prepared the deployment also attests to it.
AttestedByPrimary(hash) == Reports("primary", hash, "deploy")

\* verifyDeployment is given the independent endpoint alone.
VerifyDeployment(hash) == Reports("independent", hash, "deploy")

\* verifyRegistration: the independent endpoint's receipt, and the primary's equal to it.
VerifyRegistration(hash) ==
    {IF verdict = "VERIFIED" /\ other # "VERIFIED" THEN "MISMATCH" ELSE verdict :
        verdict \in Reports("independent", hash, "register"),
        other \in Reports("primary", hash, "register")}

Verdicts(hash, kind) ==
    IF kind = "deploy" THEN VerifyDeployment(hash) ELSE VerifyRegistration(hash)

-----------------------------------------------------------------------------
\* The page.

\* Faulty variant: a page that loads remembers only hashes.
StartedHashes(value) == value \in Hashes

Started(value) == value # NoMarker

\* The page loads: a marker that can be read counts as attempted.  Assumed:
\* storage that cannot be read then cannot be written to later in the page.
Load(t, storage) ==
    /\ Become(t, [job |-> "idle", step |-> "checking", tx |-> NoHash, sound |-> FALSE,
                  preflight |-> "none", storage |-> storage,
                  attempted |-> [k \in Kinds |-> storage /\ Started(marker[k])],
                  proof |-> [k \in Kinds |-> NoHash]])
    /\ UNCHANGED <<marker, requests, broken>>

\* checkReadiness on its own, at load or by its button; its answer holds for a minute.
RefreshPreflight(t) ==
    /\ tab[t].job = "idle"
    /\ \E state \in DeploymentPreflight \cup {"none"} :
          Become(t, [tab[t] EXCEPT !.preflight = state])
    /\ UNCHANGED <<marker, requests, broken>>

Expire(t) ==
    /\ tab[t].preflight = "READY"
    /\ Become(t, [tab[t] EXCEPT !.preflight = "EXPIRED"])
    /\ UNCHANGED <<marker, requests, broken>>

\* The deploy button: enabled by a fresh readiness check, which its handler repeats.
ClickDeploy(t) ==
    /\ tab[t].job = "idle" /\ ~tab[t].attempted["deploy"] /\ tab[t].preflight = "READY"
    /\ Become(t, [tab[t] EXCEPT !.job = "deploy"])
    /\ UNCHANGED <<marker, requests, broken>>

\* Faulty variant: the answer that enabled the button is taken for the new one.
RecheckedBefore(t) == {"READY"}

Rechecked(t) == DeploymentPreflight

CheckReadiness(t) ==
    /\ tab[t].job = "deploy" /\ tab[t].step = "checking"
    /\ \E state \in Rechecked(t) :
          IF state = "READY"
          THEN Become(t, [tab[t] EXCEPT !.preflight = state, !.step = "ready",
                                        !.sound = Failing(broken) = {}])
          ELSE Become(t, [Idle(t) EXCEPT !.preflight = state])
    /\ UNCHANGED <<marker, requests, broken>>

\* The register button: no readiness check.
ClickRegister(t) ==
    /\ tab[t].job = "idle" /\ ~tab[t].attempted["register"]
    /\ Become(t, [tab[t] EXCEPT !.job = "register", !.step = "ready"])
    /\ UNCHANGED <<marker, requests, broken>>

\* assertWallet, the readiness check or saveAttempt throws.
Abandon(t) ==
    /\ tab[t].job # "idle" /\ tab[t].step # "asked"
    /\ Become(t, Idle(t))
    /\ UNCHANGED <<marker, requests, broken>>

\* Faulty variant: a request whose marker could not be saved is sent all the same.
SavedOrNot(t, value) == {marker[tab[t].job], value}

\* saveAttempt: without storage it throws.
SaveAttempt(t, value) == IF tab[t].storage THEN {value} ELSE {}

\* Faulty variant: the page's own flag is left alone.
FlagUnset(t) == tab[t]

Flagged(t) == [tab[t] EXCEPT !.attempted[tab[t].job] = TRUE]

\* The marker, then the request, in one turn of the event loop.
Ask(t) ==
    /\ tab[t].job # "idle" /\ tab[t].step = "ready" /\ Len(requests) < MaxRequests
    /\ \E saved \in SaveAttempt(t, WalletRequested) :
          marker' = [marker EXCEPT ![tab[t].job] = saved]
    /\ requests' = Append(requests, [kind |-> tab[t].job, ready |-> tab[t].sound, st |-> "asked"])
    /\ Become(t, [Flagged(t) EXCEPT !.step = "asked", !.tx = Len(requests) + 1])
    /\ UNCHANGED broken

\* The wallet answers with a hash; saving it may fail, and the marker stays as it is.
AnswerHash(t) ==
    /\ tab[t].step = "asked" /\ requests[tab[t].tx].st \in {"live", "mined", "reverted"}
    /\ \E saved \in {marker[tab[t].job], tab[t].tx} :
          marker' = [marker EXCEPT ![tab[t].job] = saved]
    /\ Become(t, Idle(t))
    /\ UNCHANGED <<requests, broken>>

\* Faulty variant: whatever the wallet's error, the request is taken for rejected.
RefusedAnyhow(request) == TRUE

Refused(request) == request.st = "rejected"

\* Code 4001 takes the marker away; when it cannot be removed the page stays locked.
AnswerRejected(t, removed) ==
    LET k == tab[t].job
    IN  /\ tab[t].step = "asked" /\ Refused(requests[tab[t].tx])
        /\ marker' = [marker EXCEPT ![k] = IF removed THEN NoMarker ELSE @]
        /\ Become(t, [Idle(t) EXCEPT !.attempted[k] = ~removed])
        /\ UNCHANGED <<requests, broken>>

\* Any other error: the submission is uncertain, marker and button stay as they are.
AnswerUncertain(t) ==
    /\ tab[t].step = "asked"
    /\ Become(t, Idle(t))
    /\ UNCHANGED <<marker, requests, broken>>

\* A verdict for the pasted hash.  For a deployment saveAttempt may throw
\* before attempted is set; for a registration the failure is ignored.
Verify(t, k, hash, saves) ==
    /\ tab[t].job = "idle"
    /\ \E verdict \in Verdicts(hash, k) :
          IF verdict = "VERIFIED"
          THEN /\ marker' = [marker EXCEPT ![k] = IF saves THEN hash ELSE @]
               /\ Become(t, [tab[t] EXCEPT !.proof[k] = hash,
                               !.attempted[k] = @ \/ saves \/ k = "register"])
          ELSE /\ Become(t, [tab[t] EXCEPT !.proof[k] = NoHash])
               /\ UNCHANGED marker
    /\ UNCHANGED <<requests, broken>>

-----------------------------------------------------------------------------
\* The wallet and the chain.

Decide(hash, st) ==
    /\ requests[hash].st = "asked"
    /\ requests' = [requests EXCEPT ![hash].st = st]
    /\ UNCHANGED <<marker, tab, broken>>

Mine(hash, st) ==
    /\ requests[hash].st = "live"
    /\ requests' = [requests EXCEPT ![hash].st = st]
    /\ UNCHANGED <<marker, tab, broken>>

\* A price goes stale or is refreshed, the owner's balance changes, ...
ChainChanges ==
    /\ broken' \in {{}} \cup {{c} : c \in {"owner", "prices", "gas"}}
    /\ broken' # broken
    /\ UNCHANGED <<marker, tab, requests>>

Init ==
    /\ marker = [k \in Kinds |-> NoMarker]
    /\ requests = <<>> /\ broken = {}
    /\ tab = [t \in Tabs |->
                [job |-> "idle", step |-> "checking", tx |-> NoHash, sound |-> FALSE,
                 preflight |-> "none", storage |-> TRUE, attempted |-> [k \in Kinds |-> FALSE],
                 proof |-> [k \in Kinds |-> NoHash]]]

Next ==
    \/ \E t \in Tabs :
          \/ \E storage \in BOOLEAN : Load(t, storage)
          \/ RefreshPreflight(t) \/ Expire(t) \/ ClickDeploy(t) \/ CheckReadiness(t)
          \/ ClickRegister(t) \/ Abandon(t) \/ Ask(t) \/ AnswerHash(t) \/ AnswerUncertain(t)
          \/ \E removed \in BOOLEAN : AnswerRejected(t, removed)
          \/ \E k \in Kinds, hash \in DOMAIN requests, saves \in {TRUE, FALSE} :
                /\ saves => tab[t].storage
                /\ Verify(t, k, hash, saves)
    \/ \E hash \in DOMAIN requests :
          \/ \E st \in {"live", "rejected"} : Decide(hash, st)
          \/ \E st \in {"mined", "reverted"} : Mine(hash, st)
    \/ ChainChanges

Spec == Init /\ [][Next]_vars

-----------------------------------------------------------------------------
\* Every variable keeps its type, and a tab that awaits the wallet has attempted.
TypeOK ==
    /\ marker \in [Kinds -> Marker]
    /\ tab \in [Tabs -> Tab]
    /\ requests \in Seq(Request) /\ Len(requests) <= MaxRequests
    /\ broken \subseteq Conditions
    /\ \A t \in Tabs : tab[t].step = "asked" => tab[t].attempted[tab[t].job]

\* "An uncertain response remains locked after reload, while an explicit
\* wallet rejection permits deliberate retry" (README.md): while a request
\* exists that the owner has not rejected, its marker does.
UncertainStaysLocked ==
    \A hash \in DOMAIN requests :
        requests[hash].st # "rejected" => marker[requests[hash].kind] # NoMarker

\* However reloads, lost answers, failing storage and verifications interleave
\* in a tab, at most one request of a kind is not rejected: one deployment and
\* one registration.
OneRequestOut ==
    \A a, b \in DOMAIN requests :
        (requests[a].kind = requests[b].kind /\ "rejected" \notin {requests[a].st, requests[b].st})
            => a = b

\* A deployment is asked for only after an endpoint that tells the truth has
\* reported all conditions fulfilled since the button was pressed.
AskedWhenReady ==
    \A hash \in DOMAIN requests : requests[hash].kind = "deploy" => requests[hash].ready

\* A proof that a page shows is of a transaction that the chain has executed.
ProofIsReal ==
    \A t \in Tabs, k \in Kinds :
        tab[t].proof[k] # NoHash =>
            /\ requests[tab[t].proof[k]].st = "mined"
            /\ requests[tab[t].proof[k]].kind = k
=============================================================================
