---------------------------- MODULE SetupConsole ----------------------------
(***************************************************************************)
(* The controlled setup: the console (site/bsc/setup/app.js) open in       *)
(* several tabs of one browser, the recovery records it keeps in           *)
(* localStorage, the setup service (controlled-server.ts, controlled.ts)   *)
(* that prepares and verifies through two RPCs, and the owner's wallet.    *)
(*                                                                         *)
(* A step of a tab is what it does between two awaits.  A request stays    *)
(* decidable in the wallet after the tab that made it is gone.  At most    *)
(* one RPC (Faulty) may answer anything; the other one may lag behind the  *)
(* chain.  A block with two confirmations is taken to be final.            *)
(***************************************************************************)
EXTENDS Integers, Sequences

CONSTANTS
    Tabs,              \* tabs of the browser that holds the records
    Feeds,             \* synthetic feeds of an environment
    Faulty,            \* the endpoint that may lie: "primary", "independent", "none"
    MaxTx, MaxNonce    \* bounds of the model: requests, owner nonces

ASSUME BoundsAssumption == MaxTx \in Nat \ {0} /\ MaxNonce \in Nat
ASSUME FeedsAssumption == Feeds # {}
ASSUME FaultAssumption == Faulty \in {"primary", "independent", "none"}

VARIABLES
    record,     \* the deployment record in localStorage
    refreshed,  \* refreshed[env][feed]: the refresh record of one feed
    tab,        \* what each tab does and remembers
    txs,        \* every request the wallet has seen; a hash is its index
    latest,     \* the owner's next nonce on the chain
    proof,      \* the service's proof: the hash it verified last
    config      \* the saved vault configuration: its environment

vars == <<record, refreshed, tab, txs, latest, proof, config>>

NoNonce == -1
NoHash == 0
Hashes == 1 .. MaxTx
Nonces == 0 .. MaxNonce

Record == [st : {"NONE", "WALLET_REQUESTED", "SUBMITTED", "VERIFIED", "LEGACY_REQUESTED",
                 "LEGACY_SUBMITTED"},
           nonce : Nonces \cup {NoNonce}, hash : Hashes \cup {NoHash}]
Rec(st, nonce, hash) == [st |-> st, nonce |-> nonce, hash |-> hash]
NoRecord == Rec("NONE", NoNonce, NoHash)

\* fee: what a deployment may cost at most, as the console saw it.
Tx == [kind : {"deploy", "refresh"}, env : Hashes \cup {NoHash}, feed : Feeds,
       nonce : Nonces, fee : Nat, here : BOOLEAN,
       st : {"asked", "rejected", "live", "mined", "reverted"}]

Tab == [job : {"idle", "deploy", "retry", "refresh", "verify"}, asked : BOOLEAN, saved : Record,
        feed : Feeds, nonce : Nonces \cup {NoNonce}, tx : Hashes \cup {NoHash},
        attempted : BOOLEAN, blocked : BOOLEAN, proof : Hashes \cup {NoHash}]

\* The page as it loads: what is saved counts as attempted.
Loaded(saved) ==
    [job |-> "idle", asked |-> FALSE, saved |-> NoRecord, feed |-> CHOOSE f \in Feeds : TRUE,
     nonce |-> NoNonce, tx |-> NoHash, attempted |-> saved # NoRecord,
     blocked |-> FALSE, proof |-> NoHash]

Become(t, state) == tab' = [tab EXCEPT ![t] = state]
Idle(t) == [tab[t] EXCEPT !.job = "idle", !.asked = FALSE, !.saved = NoRecord,
                          !.feed = Loaded(NoRecord).feed, !.nonce = NoNonce, !.tx = NoHash]

\* Faulty variant: no lock between the tabs.
NoLock == TRUE

\* navigator.locks: held from a handler's start to its end, or until the tab is gone.
LockFree == \A t \in Tabs : tab[t].job \in {"idle", "verify"}

-----------------------------------------------------------------------------
\* The chain and the wallet as the two services read them.

Minable(x) == x.st \in {"asked", "live"} /\ x.nonce >= latest

\* The pending count: broadcast requests follow the mined ones without a gap.
PendingNonce ==
    CHOOSE n \in latest .. MaxNonce + 1 :
        /\ \A m \in latest .. n - 1 : \E i \in DOMAIN txs : txs[i].st = "live" /\ txs[i].nonce = m
        /\ ~\E i \in DOMAIN txs : txs[i].st = "live" /\ txs[i].nonce = n

\* What an endpoint's mempool may know of them.
PendingReads == {latest, PendingNonce} \cap Nonces

Rpcs == {"primary", "independent"}

\* Both counts of an endpoint are the saved nonce; an honest one lags by a block at most.
ReadsNonce(rpc, nonce) == rpc = Faulty \/ nonce \in {latest, latest - 1}

AssertControlledRetryNonce(nonce) == \A rpc \in Rpcs : ReadsNonce(rpc, nonce)

\* prepareControlledEnvironment at one endpoint: anchor block, buffered gas
\* limit, the owner's balance and a gas price that the balance covers.
Limit == 2
Balance == 4
PrepareControlledEnvironment(rpc) ==
    IF rpc = Faulty
    THEN {p \in [anchor : {"anchor", "fork"}, limit : {1, Limit}, balance : {Balance, 6},
                 price : 1 .. 3] : p.limit * p.price <= p.balance}
    ELSE [anchor : {"anchor"}, limit : {Limit}, balance : {Balance}, price : {2}]

HigherPrice(p, q) == IF p.price >= q.price THEN p.price ELSE q.price

\* Faulty variant: the balance is each endpoint's own affair.
ReconciledUnfunded(p, q) == p.anchor = q.anchor /\ p.limit = q.limit

\* reconcileControlledPreparations: equal but for the price; the higher one counts.
Reconciled(p, q) ==
    /\ p.anchor = q.anchor /\ p.limit = q.limit /\ p.balance = q.balance
    /\ p.limit * HigherPrice(p, q) <= p.balance

\* What the service answers: the primary's preparation at the higher price.
Preparations ==
    {[both[1] EXCEPT !.price = HigherPrice(both[1], both[2])] : both \in
        {pair \in PrepareControlledEnvironment("primary")
                     \X PrepareControlledEnvironment("independent") :
            Reconciled(pair[1], pair[2])}}

\* deploymentTransaction: the console recomputes limit, price and funding.
DeploymentTransaction(p) == p.limit = Limit /\ p.limit * p.price <= p.balance

\* The maximum fees of the preparations that the console accepts.
PreparedFees == {p.limit * p.price : p \in {q \in Preparations : DeploymentTransaction(q)}}

IsDeployment(hash) == txs[hash].kind = "deploy"
Deployed(hash) == IsDeployment(hash) /\ txs[hash].st = "mined"
Settled(hash) == txs[hash].st \in {"mined", "reverted"}

\* What an endpoint reports of a hash: pending until two blocks confirm it.
Reports(rpc, hash, verdict) ==
    IF rpc = Faulty THEN {"PENDING", "VERIFIED", "REVERTED", "MISMATCH"}
    ELSE {"PENDING"} \cup (IF Settled(hash) THEN {verdict} ELSE {})

\* Faulty variant: the primary endpoint's word is enough.
PrimaryOnly(a, b) == a

\* Pending when either endpoint says so, else what both agree on.
Agreed(a, b) ==
    IF "PENDING" \in {a, b} THEN "PENDING" ELSE IF a = b THEN a ELSE "MISMATCH"

\* inspectControlled: the exact creation by the owner, at the nonce if one is known.
InspectControlled(rpc, hash, nonce) ==
    Reports(rpc, hash, IF /\ Deployed(hash)
                          /\ nonce \in {NoNonce, txs[hash].nonce}
                       THEN "VERIFIED" ELSE "MISMATCH")

VerifyControlledEnvironment(hash, nonce) ==
    {Agreed(a, b) : a \in InspectControlled("primary", hash, nonce),
                    b \in InspectControlled("independent", hash, nonce)}

\* prepareControlledRefresh: both endpoints find the owner's feed of the environment.
PrepareControlledRefresh(env) == \A rpc \in Rpcs : rpc = Faulty \/ Deployed(env)

\* verifyControlledRefresh: the exact call to this feed at this nonce.
InspectRefresh(rpc, hash, env, feed, nonce) ==
    Reports(rpc, hash, IF /\ txs[hash].kind = "refresh" /\ txs[hash].env = env
                          /\ txs[hash].feed = feed /\ txs[hash].nonce = nonce
                       THEN IF txs[hash].st = "mined" THEN "VERIFIED" ELSE "REVERTED"
                       ELSE "MISMATCH")

VerifyControlledRefresh(hash, env, feed, nonce) ==
    {Agreed(a, b) : a \in InspectRefresh("primary", hash, env, feed, nonce),
                    b \in InspectRefresh("independent", hash, env, feed, nonce)}

-----------------------------------------------------------------------------
\* One deployment request per browser.

\* What marker leaves behind: "kept", "unwritten", or written but "unread".
Stored(old, value, outcome) == IF outcome = "unwritten" THEN old ELSE value
Outcomes == {"kept", "unwritten", "unread"}

CanAsk(t) == tab[t].job = "idle" /\ LockFree /\ ~tab[t].blocked

\* Up to the wallet's pending nonce, under the lock.
ReviewDeployment(t) ==
    /\ CanAsk(t) /\ ~tab[t].attempted /\ record = NoRecord /\ PreparedFees # {}
    /\ \E nonce \in PendingReads :
          Become(t, [tab[t] EXCEPT !.job = "deploy", !.nonce = nonce])
    /\ UNCHANGED <<record, refreshed, txs, latest, proof, config>>

Retryable(saved) == saved.st = "WALLET_REQUESTED" /\ saved.hash = NoHash /\ saved.nonce # NoNonce

\* The same nonce, if both endpoints and the wallet still report it.
ReviewRetry(t) ==
    /\ CanAsk(t) /\ Retryable(record) /\ PreparedFees # {}
    /\ AssertControlledRetryNonce(record.nonce) /\ record.nonce \in PendingReads
    /\ Become(t, [tab[t] EXCEPT !.job = "retry", !.nonce = record.nonce, !.saved = record])
    /\ UNCHANGED <<record, refreshed, txs, latest, proof, config>>

\* assertWallet, the acknowledgement or a preparation fails before the wallet is asked.
Abandon(t) ==
    /\ tab[t].job \in {"deploy", "retry", "refresh"} /\ ~tab[t].asked
    /\ Become(t, Idle(t))
    /\ UNCHANGED <<record, refreshed, txs, latest, proof, config>>

\* With the marker kept the request goes to the wallet, else nothing is sent again.
Send(t, request, outcome, state) ==
    IF outcome = "kept"
    THEN /\ Len(txs) < MaxTx
         /\ txs' = Append(txs, request)
         /\ Become(t, [state EXCEPT !.asked = TRUE, !.tx = Len(txs) + 1])
    ELSE /\ Become(t, [Idle(t) EXCEPT !.blocked = TRUE])
         /\ UNCHANGED txs

Deployment(nonce, fee) ==
    [kind |-> "deploy", env |-> NoHash, feed |-> Loaded(NoRecord).feed, nonce |-> nonce,
     fee |-> fee, here |-> TRUE, st |-> "asked"]

AskDeployment(t, outcome) ==
    /\ tab[t].job = "deploy" /\ ~tab[t].asked /\ record = NoRecord
    /\ record' = Stored(record, Rec("WALLET_REQUESTED", tab[t].nonce, NoHash), outcome)
    /\ \E fee \in PreparedFees : Send(t, Deployment(tab[t].nonce, fee), outcome,
                                      [tab[t] EXCEPT !.attempted = TRUE])
    /\ UNCHANGED <<refreshed, latest, proof, config>>

AskRetry(t, outcome) ==
    /\ tab[t].job = "retry" /\ ~tab[t].asked /\ record = tab[t].saved
    /\ record' = Stored(record, tab[t].saved, outcome)
    /\ \E fee \in PreparedFees : Send(t, Deployment(tab[t].nonce, fee), outcome,
                                      [tab[t] EXCEPT !.attempted = TRUE])
    /\ UNCHANGED <<refreshed, latest, proof, config>>

Answered(t, jobs) == tab[t].job \in jobs /\ tab[t].asked
Settle(t, outcome) == [Idle(t) EXCEPT !.blocked = @ \/ outcome # "kept"]

\* The wallet returns the hash of what it has broadcast.
AnswerHash(t, outcome) ==
    /\ Answered(t, {"deploy", "retry"})
    /\ txs[tab[t].tx].st \in {"live", "mined", "reverted"}
    /\ record' = Stored(record, Rec("SUBMITTED", tab[t].nonce, tab[t].tx), outcome)
    /\ Become(t, [Settle(t, outcome) EXCEPT
                     !.proof = IF tab[t].job = "retry" THEN NoHash ELSE @])
    /\ UNCHANGED <<refreshed, txs, latest, proof, config>>

\* Code 4001 of a first request: nothing was signed, the record goes.
AnswerRejected(t) ==
    /\ Answered(t, {"deploy"}) /\ txs[tab[t].tx].st = "rejected"
    /\ record' = NoRecord
    /\ Become(t, [Idle(t) EXCEPT !.attempted = FALSE])
    /\ UNCHANGED <<refreshed, txs, latest, proof, config>>

\* Faulty variant: a rejected retry frees the deployment like a first rejection.
AfterRejectedRetryFree(saved) == NoRecord

AfterRejectedRetry(saved) == saved

\* Code 4001 of a retry says nothing of the first request: its record is restored.
RetryRejected(t, outcome) ==
    /\ Answered(t, {"retry"}) /\ txs[tab[t].tx].st = "rejected"
    /\ record' = Stored(record, AfterRejectedRetry(tab[t].saved), outcome)
    /\ Become(t, Settle(t, outcome))
    /\ UNCHANGED <<refreshed, txs, latest, proof, config>>

\* Any other error: the record stays.
AnswerUncertain(t) ==
    /\ Answered(t, {"deploy", "retry", "refresh"})
    /\ Become(t, Idle(t))
    /\ UNCHANGED <<record, refreshed, txs, latest, proof, config>>

-----------------------------------------------------------------------------
\* Verification of a deployment: not under the lock, and the record is read before the await.

BeginVerify(t, hash) ==
    /\ tab[t].job = "idle" /\ txs[hash].st \notin {"asked", "rejected"}
    /\ record.hash \in {NoHash, hash}
    /\ Become(t, [tab[t] EXCEPT !.job = "verify", !.tx = hash, !.saved = record, !.proof = NoHash])
    /\ UNCHANGED <<record, refreshed, txs, latest, proof, config>>

\* POST /verify; with the verdict VERIFIED the record is replaced after the await.
FinishVerify(t) ==
    LET hash == tab[t].tx
        nonce == tab[t].saved.nonce
        verdicts == VerifyControlledEnvironment(hash, nonce)
    IN  /\ tab[t].job = "verify"
        /\ \/ /\ "VERIFIED" \in verdicts
              /\ proof' = hash
              /\ \E outcome \in Outcomes :
                    /\ record' = Stored(record, Rec("VERIFIED", nonce, hash), outcome)
                    /\ Become(t, [Settle(t, outcome) EXCEPT !.proof = hash, !.attempted = TRUE])
           \/ /\ verdicts # {"VERIFIED"}
              /\ proof' = NoHash
              /\ Become(t, Idle(t))
              /\ UNCHANGED record
        /\ UNCHANGED <<refreshed, txs, latest, config>>

\* The service fails or is busy, or its answer is lost.
VerifyFails(t) ==
    /\ tab[t].job = "verify"
    /\ Become(t, Idle(t))
    /\ UNCHANGED <<record, refreshed, txs, latest, proof, config>>

\* The hash field is edited.
InvalidateProof(t) ==
    /\ tab[t].job = "idle" /\ tab[t].proof # NoHash
    /\ Become(t, [tab[t] EXCEPT !.proof = NoHash])
    /\ UNCHANGED <<record, refreshed, txs, latest, proof, config>>

-----------------------------------------------------------------------------
\* What a verified environment is used for.

\* Faulty variant: any environment the service has verified will do.
AnyEnvironment(t) == tab[t].proof # NoHash /\ proof # NoHash

\* /config, /refresh and /verify-refresh: the tab's environment is the
\* service's, which verifies it again first.
SameEnvironment(t) == tab[t].proof # NoHash /\ proof = tab[t].proof

Usable(t) == SameEnvironment(t) /\ "VERIFIED" \in VerifyControlledEnvironment(proof, NoNonce)

\* POST /config: created exclusively.
Export(t) ==
    /\ tab[t].job = "idle" /\ Usable(t) /\ config = NoHash
    /\ config' = proof
    /\ UNCHANGED <<record, refreshed, tab, txs, latest, proof>>

ReviewRefresh(t, feed) ==
    /\ CanAsk(t) /\ Usable(t) /\ refreshed[tab[t].proof][feed] = NoRecord
    /\ PrepareControlledRefresh(tab[t].proof)
    /\ \E nonce \in PendingReads :
          Become(t, [tab[t] EXCEPT !.job = "refresh", !.nonce = nonce, !.feed = feed])
    /\ UNCHANGED <<record, refreshed, txs, latest, proof, config>>

Refreshing(t, value) == refreshed' = [refreshed EXCEPT ![tab[t].proof][tab[t].feed] = value]

AskRefresh(t, outcome) ==
    LET old == refreshed[tab[t].proof][tab[t].feed]
    IN  /\ tab[t].job = "refresh" /\ ~tab[t].asked /\ old = NoRecord
        /\ Refreshing(t, Stored(old, Rec("WALLET_REQUESTED", tab[t].nonce, NoHash), outcome))
        /\ Send(t, [Deployment(tab[t].nonce, 0) EXCEPT
                       !.kind = "refresh", !.env = tab[t].proof, !.feed = tab[t].feed],
                outcome, tab[t])
        /\ UNCHANGED <<record, latest, proof, config>>

RefreshHash(t, outcome) ==
    /\ Answered(t, {"refresh"})
    /\ txs[tab[t].tx].st \in {"live", "mined", "reverted"}
    /\ Refreshing(t, Stored(refreshed[tab[t].proof][tab[t].feed],
                            Rec("SUBMITTED", tab[t].nonce, tab[t].tx), outcome))
    /\ Become(t, Settle(t, outcome))
    /\ UNCHANGED <<record, txs, latest, proof, config>>

RefreshRejected(t) ==
    /\ Answered(t, {"refresh"}) /\ txs[tab[t].tx].st = "rejected"
    /\ Refreshing(t, NoRecord)
    /\ Become(t, Idle(t))
    /\ UNCHANGED <<record, txs, latest, proof, config>>

\* Faulty variant: the nonce of the saved request is not part of the question.
AnyNonce(hash, saved) == txs[hash].nonce
BoundNonce(hash, saved) == saved.nonce

\* Under the lock from the read of the record to its removal, so one step.
VerifyRefresh(t, feed, hash) ==
    LET env == tab[t].proof
        saved == refreshed[env][feed]
    IN  /\ tab[t].job = "idle" /\ LockFree /\ Usable(t)
        /\ saved # NoRecord /\ saved.hash \in {NoHash, hash}
        /\ VerifyControlledRefresh(hash, env, feed, BoundNonce(hash, saved))
              \cap {"VERIFIED", "REVERTED"} # {}
        /\ refreshed' = [refreshed EXCEPT ![env][feed] = NoRecord]
        /\ UNCHANGED <<record, tab, txs, latest, proof, config>>

-----------------------------------------------------------------------------
\* Tabs, the wallet, the chain and the service's process.

Load(t) ==
    /\ Become(t, Loaded(record))
    /\ UNCHANGED <<record, refreshed, txs, latest, proof, config>>

\* A restart, a failure (503), or an environment that no longer verifies.
ServiceForgets ==
    /\ proof # NoHash /\ proof' = NoHash
    /\ UNCHANGED <<record, refreshed, tab, txs, latest, config>>

Decide(hash, st) ==
    /\ txs[hash].st = "asked"
    /\ txs' = [txs EXCEPT ![hash].st = st]
    /\ UNCHANGED <<record, refreshed, tab, latest, proof, config>>

Mine(hash, st) ==
    /\ txs[hash].st = "live" /\ txs[hash].nonce = latest
    /\ txs' = [txs EXCEPT ![hash].st = st]
    /\ latest' = latest + 1
    /\ UNCHANGED <<record, refreshed, tab, proof, config>>

\* The owner's account is used from somewhere else.
Elsewhere ==
    /\ latest < MaxNonce /\ latest' = latest + 1
    /\ UNCHANGED <<record, refreshed, tab, txs, proof, config>>

\* Nothing yet; an environment deployed from another browser; requests of older builds.
Init ==
    /\ refreshed = [env \in Hashes |-> [feed \in Feeds |-> NoRecord]]
    /\ proof = NoHash /\ config = NoHash
    /\ \/ txs = <<>> /\ latest = 0 /\ record = NoRecord
       \/ /\ txs = <<[Deployment(0, Limit) EXCEPT !.here = FALSE, !.st = "mined"]>>
          /\ latest = 1
          /\ record \in {NoRecord, Rec("LEGACY_SUBMITTED", NoNonce, 1)}
       \/ /\ \E st \in {"asked", "live"} : txs = <<[Deployment(0, Limit) EXCEPT !.st = st]>>
          /\ latest = 0
          /\ record = Rec("LEGACY_REQUESTED", NoNonce, NoHash)
    /\ tab = [t \in Tabs |-> Loaded(record)]

Next ==
    \/ \E t \in Tabs :
          \/ ReviewDeployment(t) \/ ReviewRetry(t) \/ Abandon(t) \/ AnswerRejected(t)
          \/ AnswerUncertain(t) \/ FinishVerify(t) \/ VerifyFails(t) \/ InvalidateProof(t) \/ Export(t)
          \/ RefreshRejected(t) \/ Load(t)
          \/ \E outcome \in Outcomes :
                \/ AskDeployment(t, outcome) \/ AskRetry(t, outcome) \/ AnswerHash(t, outcome)
                \/ RetryRejected(t, outcome)
                \/ AskRefresh(t, outcome) \/ RefreshHash(t, outcome)
          \/ \E feed \in Feeds :
                \/ ReviewRefresh(t, feed)
                \/ \E hash \in DOMAIN txs : VerifyRefresh(t, feed, hash)
          \/ \E hash \in DOMAIN txs : BeginVerify(t, hash)
    \/ \E hash \in DOMAIN txs :
          \/ \E st \in {"live", "rejected"} : Decide(hash, st)
          \/ \E st \in {"mined", "reverted"} : Mine(hash, st)
    \/ ServiceForgets \/ Elsewhere

Spec == Init /\ [][Next]_vars

-----------------------------------------------------------------------------
\* Every variable keeps its type, and at most one tab is asking the wallet.
TypeOK ==
    /\ record \in Record /\ refreshed \in [Hashes -> [Feeds -> Record]]
    /\ tab \in [Tabs -> Tab]
    /\ txs \in Seq(Tx) /\ Len(txs) <= MaxTx
    /\ latest \in 0 .. MaxNonce + 1
    /\ proof \in Hashes \cup {NoHash} /\ config \in Hashes \cup {NoHash}
    /\ \A t, u \in Tabs : {tab[t].job, tab[u].job} \cap {"idle", "verify"} = {} => t = u

HereDeployments == {hash \in DOMAIN txs : IsDeployment(hash) /\ txs[hash].here /\ txs[hash].st # "rejected"}

\* However tabs, reloads, lost answers, retries and rejections interleave, the
\* deployment requests of this browser that the owner has not rejected all
\* carry one nonce: at most one of them can ever create an environment.
OneDeployment ==
    \A a, b \in HereDeployments : txs[a].nonce = txs[b].nonce

\* While such a request exists its record is there, and a nonce the record
\* holds is that request's: reloads and failed writes never free the button.
DeploymentLocked ==
    \A hash \in HereDeployments :
        record # NoRecord /\ record.nonce \in {NoNonce, txs[hash].nonce}

\* A refresh that may still be mined keeps its feed locked at its nonce: no
\* second refresh of the feed is out at another nonce.
RefreshLocked ==
    \A hash \in DOMAIN txs :
        (txs[hash].kind = "refresh" /\ Minable(txs[hash])) =>
            refreshed[txs[hash].env][txs[hash].feed].nonce = txs[hash].nonce

\* With one lying endpoint, no tab, no record, no saved configuration and not
\* the service ever holds an environment the chain does not have.
EvidenceIsReal ==
    \A hash \in {tab[t].proof : t \in Tabs} \cup {proof, config}
               \cup (IF record.st = "VERIFIED" THEN {record.hash} ELSE {}) :
        hash # NoHash => Deployed(hash)

\* No deployment is offered to the wallet whose maximum fee exceeds the
\* balance that an honest endpoint reports, whichever endpoint lies.
Affordable == \A hash \in HereDeployments : txs[hash].fee <= Balance

\* The configuration is written once, for the environment that the exporting
\* tab shows, though another tab may have had the service verify another one.
ConfigIsReviewed ==
    [][config' # config => config = NoHash /\ \E t \in Tabs : tab[t].proof = config']_vars

\* "An uncertain wallet response keeps its exact hash/nonce recovery lock
\* across reloads" (README.md): once the tab that asked is gone, the record
\* still holds the nonce of a request that the wallet may yet sign.
UncertainKeepsNonce ==
    \A hash \in HereDeployments :
        (/\ txs[hash].st = "asked" /\ record.st # "LEGACY_REQUESTED"
         /\ ~\E t \in Tabs : tab[t].asked /\ tab[t].tx = hash)
            => record.nonce = txs[hash].nonce
=============================================================================
