---------------------------- MODULE SetupProofs ----------------------------
(***************************************************************************)
(* The setup console's promises for any number of tabs, feeds and requests *)
(* and whichever single endpoint lies.                                     *)
(*                                                                         *)
(* SetupInv is inductive because of what a tab remembers while it holds    *)
(* the lock (TabOK): a first deployment that was asked for is the only one *)
(* not rejected, so its rejection may remove the record; a retry has the   *)
(* nonce of the record it will restore, as have all other deployments; a   *)
(* refresh is the only one of its feed that may still be mined.  What a    *)
(* verification, which takes no lock, writes into the record is harmless   *)
(* for another reason: a nonce that the honest endpoint confirms is the    *)
(* nonce of a mined deployment, and no deployment of another browser has   *)
(* a nonce that this browser has ever read from its wallet (OldOnes).      *)
(***************************************************************************)
EXTENDS SetupConsole, SequenceTheorems, WellFoundedInduction, TLAPS

\* Evidence: no environment, or one that the chain has.
Real(hash) == hash = NoHash \/ (hash \in DOMAIN txs /\ Deployed(hash))

\* No request from another browser has this nonce.
OldOnes(nonce) == \A i \in DOMAIN txs : txs[i].here \/ txs[i].nonce # nonce

\* The refreshes of a feed that may still be mined.
RefreshesOut(env, feed) ==
    {i \in DOMAIN txs : /\ txs[i].kind = "refresh" /\ txs[i].env = env /\ txs[i].feed = feed
                        /\ Minable(txs[i])}

\* What a tab may remember, whatever the others do.
TabOK(s) ==
    /\ s.job \in {"idle", "verify"} => ~s.asked
    /\ s.job \in {"deploy", "retry", "refresh"} => s.nonce # NoNonce
    /\ s.job = "verify" => s.tx \in DOMAIN txs
    /\ s.asked => s.tx \in DOMAIN txs
    /\ OldOnes(s.nonce) /\ OldOnes(s.saved.nonce)
    /\ Real(s.proof)
    /\ (s.job = "deploy" /\ s.asked) =>
          HereDeployments \subseteq {s.tx} /\ txs[s.tx].nonce = s.nonce
    /\ s.job = "retry" => Retryable(s.saved) /\ s.nonce = s.saved.nonce
    /\ (s.job = "retry" /\ s.asked) => \A a \in HereDeployments : txs[a].nonce = s.nonce
    /\ s.job = "refresh" => s.proof # NoHash
    /\ (s.job = "refresh" /\ s.asked) =>
          RefreshesOut(s.proof, s.feed) \subseteq {s.tx} /\ txs[s.tx].nonce = s.nonce

AllOK == \A t \in Tabs : TabOK(tab[t])

\* What was mined used its nonce up, what came from elsewhere was mined, and
\* a refresh is of an environment.
TxsOK ==
    \A i \in DOMAIN txs :
        /\ Settled(i) => txs[i].nonce < latest
        /\ txs[i].kind = "refresh" => txs[i].env # NoHash
        /\ ~txs[i].here => Settled(i)

RecordOK ==
    /\ OneDeployment /\ DeploymentLocked
    /\ record.st = "VERIFIED" => Real(record.hash)
    /\ OldOnes(record.nonce)

EvidenceOK == Real(proof) /\ Real(config)

SetupInv ==
    /\ TypeOK /\ AllOK /\ TxsOK
    /\ RecordOK /\ RefreshLocked /\ Affordable /\ EvidenceOK

-----------------------------------------------------------------------------
\* Requests and records.

LEMMA TxOf ==
    ASSUME TypeOK, NEW i \in DOMAIN txs
    PROVE  /\ txs[i] \in Tx /\ i \in Hashes
           /\ txs[i].nonce \in Nonces /\ txs[i].nonce # NoNonce
<1>1. txs \in Seq(Tx) /\ Len(txs) <= MaxTx /\ Len(txs) \in Nat /\ DOMAIN txs = 1 .. Len(txs)
  BY DEF TypeOK
<1>2. txs[i] \in Tx
  BY <1>1
<1>3. txs[i].nonce \in Nonces /\ txs[i].nonce # NoNonce
  BY <1>2, BoundsAssumption DEF Tx, Nonces, NoNonce
<1>4. i \in Hashes
  BY <1>1, BoundsAssumption DEF Hashes
<1> QED BY <1>2, <1>3, <1>4

LEMMA RecIs ==
    ASSUME NEW st \in {"NONE", "WALLET_REQUESTED", "SUBMITTED", "VERIFIED", "LEGACY_REQUESTED",
                       "LEGACY_SUBMITTED"},
           NEW nonce \in Nonces \cup {NoNonce}, NEW hash \in Hashes \cup {NoHash}
    PROVE  /\ Rec(st, nonce, hash) \in Record
           /\ Rec(st, nonce, hash).st = st /\ Rec(st, nonce, hash).nonce = nonce
           /\ Rec(st, nonce, hash).hash = hash
BY DEF Rec, Record

LEMMA NoRecordIs ==
    /\ NoRecord \in Record /\ NoRecord.nonce = NoNonce
    /\ NoRecord.st = "NONE" /\ NoRecord.hash = NoHash
BY DEF NoRecord, Rec, Record

\* A record that was written over differs from none.
LEMMA RecNotNone ==
    ASSUME NEW st, st # "NONE", NEW nonce, NEW hash
    PROVE  Rec(st, nonce, hash) # NoRecord
<1>1. Rec(st, nonce, hash).st = st /\ NoRecord.st = "NONE"
  BY DEF Rec, NoRecord
<1> QED BY <1>1

\* Every set of naturals has a least element.
LEMMA Least ==
    ASSUME NEW S, S \subseteq Nat, S # {}
    PROVE  \E least \in S : \A m \in S : least <= m
<1> DEFINE R == OpToRel(<, Nat)
<1>1. IsWellFoundedOn(R, Nat)
  BY NatLessThanWellFounded
<1>2. \A x, y \in Nat : x < y => <<x, y>> \in R
  BY DEF OpToRel
<1> HIDE DEF R
<1>3. PICK least \in S : \A m \in S : ~(<<m, least>> \in R)
  BY <1>1, WFMin
<1>4. ASSUME NEW m \in S PROVE least <= m
  <2>1. m \in Nat /\ least \in Nat
    OBVIOUS
  <2>2. ~(m < least)
    BY <1>2, <1>3, <2>1, Zenon
  <2> QED BY <2>1, <2>2
<1> QED BY <1>4

\* The pending count is not behind the chain.
LEMMA PendingAhead ==
    ASSUME TypeOK, NEW n \in PendingReads
    PROVE  n \in Nonces /\ n >= latest
<1>1. latest \in Nat /\ latest <= MaxNonce + 1 /\ MaxNonce \in Nat
  BY BoundsAssumption DEF TypeOK
<1> DEFINE Taken(m) == \E i \in DOMAIN txs : txs[i].st = "live" /\ txs[i].nonce = m
           Free == {m \in Nat : m >= latest /\ ~Taken(m)}
<1>2. ~Taken(MaxNonce + 1)
  <2>1. \A i \in DOMAIN txs : txs[i].nonce \in Nonces
    BY TxOf
  <2> QED BY <1>1, <2>1 DEF Nonces
<1>3. MaxNonce + 1 \in Free
  BY <1>1, <1>2
<1>4. PICK least \in Free : \A m \in Free : least <= m
  <2>1. Free \subseteq Nat /\ Free # {}
    BY <1>3
  <2> HIDE DEF Free
  <2> QED BY <2>1, Least
<1>5. /\ least \in latest .. MaxNonce + 1
      /\ \A m \in latest .. least - 1 : Taken(m)
      /\ ~Taken(least)
  BY <1>1, <1>3, <1>4
<1>6. PendingNonce \in latest .. MaxNonce + 1
  BY <1>5 DEF PendingNonce
<1> QED BY <1>1, <1>6 DEF PendingReads

\* Nonces that a wallet reads are not those of another browser's requests.
LEMMA PendingIsNew ==
    ASSUME TypeOK, TxsOK, NEW n \in PendingReads
    PROVE  n \in Nonces /\ n # NoNonce /\ OldOnes(n)
<1>1. n \in Nonces /\ n >= latest /\ latest \in Nat
  BY PendingAhead, BoundsAssumption DEF TypeOK
<1>2. n # NoNonce
  BY <1>1, BoundsAssumption DEF Nonces, NoNonce
<1>3. ASSUME NEW i \in DOMAIN txs, ~txs[i].here PROVE txs[i].nonce # n
  <2>1. txs[i].nonce < latest /\ txs[i].nonce \in Nat
    BY <1>3, TxOf, BoundsAssumption DEF TxsOK, Nonces
  <2> QED BY <1>1, <2>1, BoundsAssumption DEF Nonces
<1> QED BY <1>1, <1>2, <1>3 DEF OldOnes

LEMMA NoNonceIsNew ==
    ASSUME TypeOK
    PROVE  OldOnes(NoNonce)
BY TxOf DEF OldOnes

-----------------------------------------------------------------------------
\* Tabs.

LEMMA BecomeIs ==
    ASSUME TypeOK, NEW t \in Tabs, NEW s \in Tab, Become(t, s)
    PROVE  /\ tab' \in [Tabs -> Tab] /\ tab'[t] = s
           /\ \A u \in Tabs : u # t => tab'[u] = tab[u]
BY DEF Become, TypeOK

\* A tab without a handler.
Resting(s) == /\ s.job = "idle" /\ ~s.asked /\ s.nonce = NoNonce /\ s.saved = NoRecord

LEMMA IdleIs ==
    ASSUME TypeOK, NEW t \in Tabs
    PROVE  /\ Idle(t) \in Tab /\ Resting(Idle(t)) /\ Idle(t).proof = tab[t].proof
<1>1. tab[t] \in Tab /\ (CHOOSE f \in Feeds : TRUE) \in Feeds
  BY FeedsAssumption DEF TypeOK
<1>2. Loaded(NoRecord).feed \in Feeds
  BY <1>1 DEF Loaded
<1> QED BY <1>1, <1>2, NoRecordIs DEF Idle, Tab, Resting

LEMMA LoadedIs ==
    ASSUME NEW saved \in Record
    PROVE  /\ Loaded(saved) \in Tab /\ Resting(Loaded(saved)) /\ Loaded(saved).proof = NoHash
<1>1. (CHOOSE f \in Feeds : TRUE) \in Feeds
  BY FeedsAssumption
<1> QED BY <1>1, NoRecordIs DEF Loaded, Tab, Resting

LEMMA SettleIs ==
    ASSUME TypeOK, NEW t \in Tabs, NEW outcome
    PROVE  /\ Settle(t, outcome) \in Tab /\ Resting(Settle(t, outcome))
           /\ Settle(t, outcome).proof = tab[t].proof
<1> DEFINE flag == Idle(t).blocked \/ outcome # "kept"
<1>1. /\ Idle(t) \in Tab /\ Resting(Idle(t)) /\ Idle(t).proof = tab[t].proof
  BY IdleIs
<1>2. flag \in BOOLEAN
  OBVIOUS
<1>3. Settle(t, outcome) = [Idle(t) EXCEPT !.blocked = flag]
  BY <1>1 DEF Settle, Tab
<1> HIDE DEF flag
<1> QED BY <1>1, <1>2, <1>3 DEF Tab, Resting

\* A resting tab asks nothing of the others.
LEMMA RestingOK ==
    ASSUME TypeOK, NEW s \in Tab, Resting(s), Real(s.proof)
    PROVE  TabOK(s)
<1>1. OldOnes(s.nonce) /\ OldOnes(s.saved.nonce)
  BY NoNonceIsNew, NoRecordIs DEF Resting
<1> QED BY <1>1 DEF TabOK, Resting

-----------------------------------------------------------------------------
\* Steps of a tab that send nothing.

\* What stays true of what stays the same.
LEMMA Same ==
    ASSUME SetupInv, UNCHANGED <<txs, latest>>
    PROVE  /\ TxsOK' /\ Affordable'
           /\ UNCHANGED record => RecordOK'
           /\ UNCHANGED refreshed => RefreshLocked'
           /\ UNCHANGED <<proof, config>> => EvidenceOK'
<1>1. TxsOK' /\ Affordable'
  BY DEF SetupInv, TxsOK, Settled, Affordable, HereDeployments, IsDeployment
<1>2. UNCHANGED record => RecordOK'
  BY DEF SetupInv, RecordOK, OneDeployment, DeploymentLocked, HereDeployments, IsDeployment,
         Real, Deployed, OldOnes
<1>3. UNCHANGED refreshed => RefreshLocked'
  BY DEF SetupInv, RefreshLocked, Minable
<1>4. UNCHANGED <<proof, config>> => EvidenceOK'
  BY DEF SetupInv, EvidenceOK, Real, Deployed, IsDeployment
<1> QED BY <1>1, <1>2, <1>3, <1>4

\* A tab that is all right in its new state leaves the others so.
LEMMA TabStep ==
    ASSUME SetupInv, NEW t \in Tabs, NEW s \in Tab, TabOK(s), Become(t, s),
           UNCHANGED <<txs, latest>>,
           s.job \in {"idle", "verify"} \/ s.job = tab[t].job \/ LockFree,
           record' \in Record, RecordOK',
           refreshed' \in [Hashes -> [Feeds -> Record]], RefreshLocked',
           proof' \in Hashes \cup {NoHash}, config' \in Hashes \cup {NoHash}, EvidenceOK'
    PROVE  SetupInv'
<1>1. /\ tab' \in [Tabs -> Tab] /\ tab'[t] = s
      /\ \A u \in Tabs : u # t => tab'[u] = tab[u]
  BY BecomeIs DEF SetupInv
<1>2. \A u \in Tabs : TabOK(tab'[u])
  BY <1>1 DEF SetupInv, AllOK
<1>3. AllOK'
  BY <1>2 DEF AllOK, TabOK, OldOnes, Real, Deployed, IsDeployment, HereDeployments,
              RefreshesOut, Minable
<1>4. ASSUME NEW u \in Tabs, NEW w \in Tabs,
             {tab'[u].job, tab'[w].job} \cap {"idle", "verify"} = {}
      PROVE  u = w
  <2>1. \A a, b \in Tabs :
           (tab[a].job \notin {"idle", "verify"} /\ tab[b].job \notin {"idle", "verify"}) => a = b
    BY DEF SetupInv, TypeOK
  <2>2. tab'[u].job \notin {"idle", "verify"} /\ tab'[w].job \notin {"idle", "verify"}
    BY <1>4
  <2>3. CASE LockFree
    BY <1>1, <2>2, <2>3 DEF LockFree
  <2>4. CASE s.job = tab[t].job
    BY <1>1, <2>1, <2>2, <2>4
  <2>5. CASE s.job \in {"idle", "verify"}
    BY <1>1, <2>1, <2>2, <2>5
  <2> QED BY <2>3, <2>4, <2>5
<1>5. TypeOK'
  BY <1>1, <1>4 DEF SetupInv, TypeOK
<1>6. TxsOK' /\ Affordable'
  BY Same
<1> QED BY <1>3, <1>5, <1>6 DEF SetupInv

\* A step of a tab that concerns it alone.
LEMMA OwnStep ==
    ASSUME SetupInv, NEW t \in Tabs, NEW s \in Tab, TabOK(s), Become(t, s),
           s.job \in {"idle", "verify"} \/ s.job = tab[t].job \/ LockFree,
           UNCHANGED <<record, refreshed, txs, latest, proof, config>>
    PROVE  SetupInv'
<1>1. RecordOK' /\ RefreshLocked' /\ EvidenceOK'
  BY Same
<1>2. /\ record' \in Record /\ refreshed' \in [Hashes -> [Feeds -> Record]]
      /\ proof' \in Hashes \cup {NoHash} /\ config' \in Hashes \cup {NoHash}
  BY DEF SetupInv, TypeOK
<1> QED BY <1>1, <1>2, TabStep

\* A handler ends without a word.
LEMMA EndStep ==
    ASSUME SetupInv, NEW t \in Tabs, Become(t, Idle(t)),
           UNCHANGED <<record, refreshed, txs, latest, proof, config>>
    PROVE  SetupInv'
<1>1. TypeOK /\ Real(tab[t].proof)
  BY DEF SetupInv, AllOK, TabOK
<1>2. /\ Idle(t) \in Tab /\ Resting(Idle(t)) /\ Idle(t).proof = tab[t].proof
  BY <1>1, IdleIs
<1>3. TabOK(Idle(t)) /\ Idle(t).job = "idle"
  BY <1>1, <1>2, RestingOK DEF Resting
<1> QED BY <1>2, <1>3, OwnStep

\* A review reads the wallet's nonce, and starts a handler under the lock.
LEMMA ReviewDeploymentStep ==
    ASSUME SetupInv, NEW t \in Tabs, ReviewDeployment(t)
    PROVE  SetupInv'
<1>1. TypeOK /\ TxsOK /\ TabOK(tab[t]) /\ tab[t] \in Tab
  BY DEF SetupInv, AllOK, TypeOK
<1>2. PICK nonce \in PendingReads : Become(t, [tab[t] EXCEPT !.job = "deploy", !.nonce = nonce])
  BY DEF ReviewDeployment
<1> DEFINE s == [tab[t] EXCEPT !.job = "deploy", !.nonce = nonce]
<1>3. nonce \in Nonces /\ nonce # NoNonce /\ OldOnes(nonce)
  BY <1>1, PendingIsNew
<1>4. /\ s \in Tab /\ s.job = "deploy" /\ s.nonce = nonce /\ s.asked = tab[t].asked
      /\ s.saved = tab[t].saved /\ s.proof = tab[t].proof
  BY <1>1, <1>3 DEF Tab
<1>5. Become(t, s)
  BY <1>2
<1> HIDE DEF s
<1>6. tab[t].job = "idle" /\ LockFree /\ UNCHANGED <<record, refreshed, txs, latest, proof, config>>
  BY DEF ReviewDeployment, CanAsk
<1>7. TabOK(s)
  BY <1>1, <1>3, <1>4, <1>6 DEF TabOK
<1> QED BY <1>4, <1>5, <1>6, <1>7, OwnStep

\* A retry starts with the record's own nonce.
LEMMA ReviewRetryStep ==
    ASSUME SetupInv, NEW t \in Tabs, ReviewRetry(t)
    PROVE  SetupInv'
<1>1. TypeOK /\ TabOK(tab[t]) /\ tab[t] \in Tab /\ record \in Record /\ OldOnes(record.nonce)
  BY DEF SetupInv, AllOK, TypeOK, RecordOK
<1> DEFINE s == [tab[t] EXCEPT !.job = "retry", !.nonce = record.nonce, !.saved = record]
<1>2. record.nonce # NoNonce /\ record.nonce \in Nonces \cup {NoNonce}
  BY <1>1 DEF ReviewRetry, Retryable, Record
<1>3. /\ s \in Tab /\ s.job = "retry" /\ s.nonce = record.nonce /\ s.asked = tab[t].asked
      /\ s.saved = record /\ s.proof = tab[t].proof
  BY <1>1, <1>2 DEF Tab
<1>4. Become(t, s)
  BY DEF ReviewRetry
<1> HIDE DEF s
<1>5. tab[t].job = "idle" /\ LockFree /\ UNCHANGED <<record, refreshed, txs, latest, proof, config>>
      /\ Retryable(record)
  BY DEF ReviewRetry, CanAsk
<1>6. TabOK(s)
  BY <1>1, <1>2, <1>3, <1>5 DEF TabOK
<1> QED BY <1>3, <1>4, <1>5, <1>6, OwnStep

\* A refresh starts with the environment that the tab shows.
LEMMA ReviewRefreshStep ==
    ASSUME SetupInv, NEW t \in Tabs, NEW feed \in Feeds, ReviewRefresh(t, feed)
    PROVE  SetupInv'
<1>1. TypeOK /\ TxsOK /\ TabOK(tab[t]) /\ tab[t] \in Tab
  BY DEF SetupInv, AllOK, TypeOK
<1>2. PICK nonce \in PendingReads :
          Become(t, [tab[t] EXCEPT !.job = "refresh", !.nonce = nonce, !.feed = feed])
  BY DEF ReviewRefresh
<1> DEFINE s == [tab[t] EXCEPT !.job = "refresh", !.nonce = nonce, !.feed = feed]
<1>3. nonce \in Nonces /\ nonce # NoNonce /\ OldOnes(nonce)
  BY <1>1, PendingIsNew
<1>4. /\ s \in Tab /\ s.job = "refresh" /\ s.nonce = nonce /\ s.asked = tab[t].asked
      /\ s.saved = tab[t].saved /\ s.proof = tab[t].proof
  BY <1>1, <1>3 DEF Tab
<1>5. Become(t, s)
  BY <1>2
<1> HIDE DEF s
<1>6. tab[t].job = "idle" /\ LockFree /\ UNCHANGED <<record, refreshed, txs, latest, proof, config>>
      /\ tab[t].proof # NoHash
  BY DEF ReviewRefresh, CanAsk, Usable, SameEnvironment
<1>7. TabOK(s)
  BY <1>1, <1>3, <1>4, <1>6 DEF TabOK
<1> QED BY <1>4, <1>5, <1>6, <1>7, OwnStep

\* A verification starts without the lock, with the record as it is.
LEMMA BeginVerifyStep ==
    ASSUME SetupInv, NEW t \in Tabs, NEW hash \in DOMAIN txs, BeginVerify(t, hash)
    PROVE  SetupInv'
<1>1. TypeOK /\ TabOK(tab[t]) /\ tab[t] \in Tab /\ record \in Record /\ OldOnes(record.nonce)
      /\ hash \in Hashes
  BY TxOf DEF SetupInv, AllOK, TypeOK, RecordOK
<1> DEFINE s == [tab[t] EXCEPT !.job = "verify", !.tx = hash, !.saved = record, !.proof = NoHash]
<1>2. /\ s \in Tab /\ s.job = "verify" /\ s.nonce = tab[t].nonce /\ s.asked = tab[t].asked
      /\ s.saved = record /\ s.proof = NoHash /\ s.tx = hash
  BY <1>1 DEF Tab
<1>3. Become(t, s)
  BY DEF BeginVerify
<1> HIDE DEF s
<1>4. tab[t].job = "idle" /\ UNCHANGED <<record, refreshed, txs, latest, proof, config>>
  BY DEF BeginVerify
<1>5. TabOK(s)
  BY <1>1, <1>2, <1>4 DEF TabOK, Real
<1> QED BY <1>2, <1>3, <1>4, <1>5, OwnStep

\* An edited hash field forgets a proof; a page that loads knows only the record.
LEMMA ForgetStep ==
    ASSUME SetupInv, NEW t \in Tabs, InvalidateProof(t) \/ Load(t)
    PROVE  SetupInv'
<1>1. TypeOK /\ TabOK(tab[t]) /\ tab[t] \in Tab /\ record \in Record
  BY DEF SetupInv, AllOK, TypeOK
<1>2. CASE InvalidateProof(t)
  <2> DEFINE s == [tab[t] EXCEPT !.proof = NoHash]
  <2>1. /\ s \in Tab /\ s.job = tab[t].job /\ s.nonce = tab[t].nonce /\ s.asked = tab[t].asked
        /\ s.saved = tab[t].saved /\ s.proof = NoHash /\ s.tx = tab[t].tx
    BY <1>1 DEF Tab
  <2>2. Become(t, s) /\ tab[t].job = "idle"
        /\ UNCHANGED <<record, refreshed, txs, latest, proof, config>>
    BY <1>2 DEF InvalidateProof
  <2> HIDE DEF s
  <2>3. TabOK(s)
    BY <1>1, <2>1, <2>2 DEF TabOK, Real
  <2> QED BY <2>1, <2>2, <2>3, OwnStep
<1>3. CASE Load(t)
  <2>1. /\ Loaded(record) \in Tab /\ Resting(Loaded(record)) /\ Loaded(record).proof = NoHash
    BY <1>1, LoadedIs
  <2>2. TabOK(Loaded(record)) /\ Loaded(record).job = "idle"
    BY <1>1, <2>1, RestingOK DEF Real, Resting
  <2> QED BY <1>3, <2>1, <2>2, OwnStep DEF Load
<1> QED BY <1>2, <1>3

\* The service's process, and the configuration that it writes.
LEMMA ServiceStep ==
    ASSUME SetupInv, UNCHANGED <<record, refreshed, tab, txs, latest>>,
           proof' \in {NoHash, proof}, config' \in {config, proof}
    PROVE  SetupInv'
<1>1. RecordOK' /\ RefreshLocked' /\ TxsOK' /\ Affordable'
  BY Same
<1>2. TypeOK' /\ AllOK'
  BY DEF SetupInv, TypeOK, AllOK, TabOK, OldOnes, Real, Deployed, IsDeployment, HereDeployments,
         RefreshesOut, Minable
<1>3. EvidenceOK'
  BY DEF SetupInv, EvidenceOK, Real, Deployed, IsDeployment
<1> QED BY <1>1, <1>2, <1>3 DEF SetupInv

-----------------------------------------------------------------------------
\* Answers and verdicts: what they write into the records.

\* What marker leaves is the old value or the new one.
LEMMA StoredIs ==
    ASSUME NEW old, NEW value, NEW outcome
    PROVE  Stored(old, value, outcome) \in {old, value}
BY DEF Stored

\* A handler that ends with a new record in localStorage.
LEMMA RecordStep ==
    ASSUME SetupInv, NEW t \in Tabs, NEW s \in Tab, Resting(s), Real(s.proof), Become(t, s),
           record' \in Record, RecordOK', UNCHANGED <<refreshed, txs, latest, config>>,
           proof' \in Hashes \cup {NoHash}, Real(proof)'
    PROVE  SetupInv'
<1>1. RefreshLocked' /\ TypeOK /\ Real(config)
  BY Same DEF SetupInv, EvidenceOK
<1>2. TabOK(s) /\ s.job = "idle"
  BY <1>1, RestingOK DEF Resting
<1>3. EvidenceOK'
  BY <1>1 DEF EvidenceOK, Real, Deployed, IsDeployment
<1>4. /\ refreshed' \in [Hashes -> [Feeds -> Record]] /\ config' \in Hashes \cup {NoHash}
  BY <1>1 DEF TypeOK
<1> QED BY <1>1, <1>2, <1>3, <1>4, TabStep

\* A record that says no more than the requests allow.
LEMMA RecordIsOK ==
    ASSUME SetupInv, UNCHANGED txs, record' # NoRecord \/ HereDeployments = {},
           \A a \in HereDeployments : record'.nonce \in {NoNonce, txs[a].nonce},
           record'.st = "VERIFIED" => Real(record'.hash),
           OldOnes(record'.nonce)
    PROVE  RecordOK'
<1>1. OneDeployment'
  BY DEF SetupInv, RecordOK, OneDeployment, HereDeployments, IsDeployment
<1>2. DeploymentLocked'
  BY DEF DeploymentLocked, HereDeployments, IsDeployment
<1>3. /\ (record.st = "VERIFIED" => Real(record.hash))'
      /\ OldOnes(record.nonce)'
  BY DEF Real, Deployed, IsDeployment, OldOnes
<1> QED BY <1>1, <1>2, <1>3 DEF RecordOK

LEMMA HereAreTxs == HereDeployments \subseteq DOMAIN txs
BY DEF HereDeployments

\* The hash is of the only deployment, or of one at the record's nonce.
LEMMA AnswerHashStep ==
    ASSUME SetupInv, NEW t \in Tabs, NEW outcome \in Outcomes, AnswerHash(t, outcome)
    PROVE  SetupInv'
<1>1. /\ TypeOK /\ TabOK(tab[t]) /\ tab[t] \in Tab /\ RecordOK /\ record \in Record
      /\ tab[t].job \in {"deploy", "retry"} /\ tab[t].asked
      /\ UNCHANGED <<refreshed, txs, latest, proof, config>>
  BY DEF SetupInv, AllOK, TypeOK, AnswerHash, Answered
<1> DEFINE new == Rec("SUBMITTED", tab[t].nonce, tab[t].tx)
           s == [Settle(t, outcome) EXCEPT !.proof = IF tab[t].job = "retry" THEN NoHash ELSE @]
<1>2. /\ s \in Tab /\ Resting(s) /\ s.proof \in {NoHash, tab[t].proof}
  <2>1. /\ Settle(t, outcome) \in Tab /\ Resting(Settle(t, outcome))
        /\ Settle(t, outcome).proof = tab[t].proof
    BY <1>1, SettleIs
  <2> QED BY <1>1, <2>1 DEF Tab, Resting
<1>3. Become(t, s) /\ record' \in {record, new}
  BY StoredIs DEF AnswerHash
<1> HIDE DEF s
<1>4. tab[t].nonce \in Nonces /\ tab[t].tx \in DOMAIN txs /\ tab[t].tx \in Hashes
  BY <1>1, TxOf DEF TabOK, Tab
<1>5. new \in Record /\ new.st = "SUBMITTED" /\ new.nonce = tab[t].nonce /\ new # NoRecord
  BY <1>4, RecIs, RecNotNone
<1> HIDE DEF new
<1>6. \A a \in HereDeployments : txs[a].nonce = tab[t].nonce
  BY <1>1 DEF TabOK
<1>7. RecordOK'
  <2>1. CASE record' = record
    BY <1>1, <2>1, Same
  <2>2. CASE record' = new
    BY <1>1, <1>5, <1>6, <2>2, RecordIsOK DEF TabOK
  <2> QED BY <1>3, <2>1, <2>2
<1>8. Real(s.proof) /\ record' \in Record
  BY <1>1, <1>2, <1>3, <1>5 DEF TabOK, Real
<1>9. proof' \in Hashes \cup {NoHash} /\ Real(proof)'
  BY <1>1 DEF SetupInv, TypeOK, EvidenceOK, Real, Deployed, IsDeployment
<1> QED BY <1>1, <1>2, <1>3, <1>7, <1>8, <1>9, RecordStep

\* The first request was the only one, and it was rejected.
LEMMA AnswerRejectedStep ==
    ASSUME SetupInv, NEW t \in Tabs, AnswerRejected(t)
    PROVE  SetupInv'
<1>1. /\ TypeOK /\ TabOK(tab[t]) /\ tab[t] \in Tab
      /\ tab[t].job = "deploy" /\ tab[t].asked /\ txs[tab[t].tx].st = "rejected"
      /\ record' = NoRecord /\ UNCHANGED <<refreshed, txs, latest, proof, config>>
  BY DEF SetupInv, AllOK, TypeOK, AnswerRejected, Answered
<1> DEFINE s == [Idle(t) EXCEPT !.attempted = FALSE]
<1>2. s \in Tab /\ Resting(s) /\ s.proof = tab[t].proof
  <2>1. Idle(t) \in Tab /\ Resting(Idle(t)) /\ Idle(t).proof = tab[t].proof
    BY <1>1, IdleIs
  <2> QED BY <2>1 DEF Tab, Resting
<1>3. Become(t, s)
  BY DEF AnswerRejected
<1> HIDE DEF s
<1>4. HereDeployments = {}
  <2>1. HereDeployments \subseteq {tab[t].tx}
    BY <1>1 DEF TabOK
  <2>2. tab[t].tx \notin HereDeployments
    BY <1>1 DEF HereDeployments
  <2> QED BY <2>1, <2>2
<1>5. RecordOK'
  BY <1>1, <1>4, NoRecordIs, NoNonceIsNew, RecordIsOK
<1>6. Real(s.proof) /\ record' \in Record
  BY <1>1, <1>2, NoRecordIs DEF TabOK
<1>7. proof' \in Hashes \cup {NoHash} /\ Real(proof)'
  BY <1>1 DEF SetupInv, TypeOK, EvidenceOK, Real, Deployed, IsDeployment
<1> QED BY <1>1, <1>2, <1>3, <1>5, <1>6, <1>7, RecordStep

\* A rejected retry restores a record whose nonce all deployments have.
LEMMA RetryRejectedStep ==
    ASSUME SetupInv, NEW t \in Tabs, NEW outcome \in Outcomes, RetryRejected(t, outcome)
    PROVE  SetupInv'
<1>1. /\ TypeOK /\ TabOK(tab[t]) /\ tab[t] \in Tab /\ RecordOK /\ record \in Record
      /\ tab[t].job = "retry" /\ tab[t].asked
      /\ record' \in {record, tab[t].saved} /\ Become(t, Settle(t, outcome))
      /\ UNCHANGED <<refreshed, txs, latest, proof, config>>
  BY StoredIs DEF SetupInv, AllOK, TypeOK, RetryRejected, Answered, AfterRejectedRetry
<1>2. /\ Settle(t, outcome) \in Tab /\ Resting(Settle(t, outcome))
      /\ Settle(t, outcome).proof = tab[t].proof
  BY <1>1, SettleIs
<1>3. tab[t].saved \in Record /\ tab[t].saved.nonce = tab[t].nonce /\ Retryable(tab[t].saved)
  BY <1>1 DEF TabOK, Tab
<1>4. tab[t].saved # NoRecord /\ tab[t].saved.st # "VERIFIED"
  BY <1>3, NoRecordIs DEF Retryable
<1>5. \A a \in HereDeployments : txs[a].nonce = tab[t].saved.nonce
  BY <1>1, <1>3 DEF TabOK
<1>6. RecordOK'
  <2>1. CASE record' = record
    BY <1>1, <2>1, Same
  <2>2. CASE record' = tab[t].saved
    BY <1>1, <1>4, <1>5, <2>2, RecordIsOK DEF TabOK
  <2> QED BY <1>1, <2>1, <2>2
<1>7. Real(Settle(t, outcome).proof) /\ record' \in Record
  BY <1>1, <1>2, <1>3 DEF TabOK
<1>8. proof' \in Hashes \cup {NoHash} /\ Real(proof)'
  BY <1>1 DEF SetupInv, TypeOK, EvidenceOK, Real, Deployed, IsDeployment
<1> QED BY <1>1, <1>2, <1>6, <1>7, <1>8, RecordStep

\* What both endpoints agree on, the honest one has seen.
LEMMA VerifiedIsDeployed ==
    ASSUME NEW hash, NEW nonce, "VERIFIED" \in VerifyControlledEnvironment(hash, nonce)
    PROVE  Deployed(hash) /\ nonce \in {NoNonce, txs[hash].nonce}
<1>1. PICK a \in InspectControlled("primary", hash, nonce),
           b \in InspectControlled("independent", hash, nonce) : Agreed(a, b) = "VERIFIED"
  BY DEF VerifyControlledEnvironment
<1>2. a = "VERIFIED" /\ b = "VERIFIED"
  BY <1>1 DEF Agreed
<1>3. PICK rpc \in Rpcs : rpc # Faulty /\ "VERIFIED" \in InspectControlled(rpc, hash, nonce)
  BY <1>1, <1>2, FaultAssumption DEF Rpcs
<1> QED BY <1>3 DEF InspectControlled, Reports

\* A verification's record names a mined deployment; if it also names a nonce,
\* that deployment is of this browser, and so all of them have this nonce.
LEMMA FinishVerifyStep ==
    ASSUME SetupInv, NEW t \in Tabs, FinishVerify(t)
    PROVE  SetupInv'
<1> DEFINE hash == tab[t].tx
           nonce == tab[t].saved.nonce
<1>1. /\ TypeOK /\ TabOK(tab[t]) /\ tab[t] \in Tab /\ RecordOK /\ record \in Record
      /\ tab[t].job = "verify" /\ hash \in DOMAIN txs /\ hash \in Hashes
      /\ UNCHANGED <<refreshed, txs, latest, config>>
  <2>1. TabOK(tab[t]) /\ tab[t].job = "verify"
    BY DEF SetupInv, AllOK, FinishVerify
  <2> QED BY <2>1, TxOf DEF SetupInv, TypeOK, FinishVerify, TabOK
<1>2. nonce \in Nonces \cup {NoNonce} /\ OldOnes(nonce)
  BY <1>1 DEF Tab, Record, TabOK
<1>3. ASSUME "VERIFIED" \in VerifyControlledEnvironment(hash, nonce), proof' = hash,
             NEW outcome \in Outcomes,
             record' = Stored(record, Rec("VERIFIED", nonce, hash), outcome),
             Become(t, [Settle(t, outcome) EXCEPT !.proof = hash, !.attempted = TRUE])
      PROVE  SetupInv'
  <2> DEFINE s == [Settle(t, outcome) EXCEPT !.proof = hash, !.attempted = TRUE]
             new == Rec("VERIFIED", nonce, hash)
  <2>1. Deployed(hash) /\ nonce \in {NoNonce, txs[hash].nonce}
    BY <1>3, VerifiedIsDeployed
  <2>2. s \in Tab /\ Resting(s) /\ s.proof = hash
    <3>1. Settle(t, outcome) \in Tab /\ Resting(Settle(t, outcome))
      BY <1>1, SettleIs
    <3> QED BY <1>1, <3>1 DEF Tab, Resting
  <2>3. Become(t, s) /\ record' \in {record, new}
    BY <1>3, StoredIs
  <2>4. new \in Record /\ new.st = "VERIFIED" /\ new.nonce = nonce /\ new.hash = hash
        /\ new # NoRecord
    BY <1>1, <1>2, RecIs, RecNotNone
  <2> HIDE DEF s, new
  <2>5. Real(hash)
    BY <1>1, <2>1 DEF Real
  <2>6. \A a \in HereDeployments : nonce \in {NoNonce, txs[a].nonce}
    <3>1. CASE nonce = NoNonce
      BY <3>1
    <3>2. CASE nonce # NoNonce
      <4>1. txs[hash].here /\ nonce = txs[hash].nonce
        BY <1>1, <1>2, <2>1, <3>2 DEF OldOnes
      <4>2. hash \in HereDeployments
        BY <1>1, <2>1, <4>1 DEF HereDeployments, Deployed
      <4> QED BY <1>1, <4>1, <4>2 DEF RecordOK, OneDeployment
    <3> QED BY <3>1, <3>2
  <2>7. RecordOK'
    <3>1. CASE record' = record
      BY <1>1, <3>1, Same
    <3>2. CASE record' = new
      BY <1>1, <1>2, <2>4, <2>5, <2>6, <3>2, RecordIsOK
    <3> QED BY <2>3, <3>1, <3>2
  <2>8. Real(proof)' /\ proof' \in Hashes \cup {NoHash} /\ record' \in Record
    <3>1. Real(proof')
      BY <1>3, <2>5
    <3> QED BY <1>1, <1>3, <2>3, <2>4, <3>1 DEF Real, Deployed, IsDeployment
  <2> QED BY <1>1, <2>2, <2>3, <2>5, <2>7, <2>8, RecordStep
<1>4. ASSUME proof' = NoHash, Become(t, Idle(t)), UNCHANGED record PROVE SetupInv'
  <2>1. Idle(t) \in Tab /\ Resting(Idle(t)) /\ Idle(t).proof = tab[t].proof
    BY <1>1, IdleIs
  <2>2. RecordOK' /\ record' \in Record
    BY <1>1, <1>4, Same
  <2>3. Real(Idle(t).proof) /\ Real(proof)' /\ proof' \in Hashes \cup {NoHash}
    BY <1>1, <1>4, <2>1 DEF TabOK, Real
  <2> QED BY <1>1, <1>4, <2>1, <2>2, <2>3, RecordStep
<1> QED BY <1>3, <1>4 DEF FinishVerify

-----------------------------------------------------------------------------
\* Requests to the wallet.

\* The honest endpoint's balance bounds what both endpoints agree to, so also
\* the higher of two prices.
LEMMA FeeIsAffordable ==
    ASSUME NEW fee \in PreparedFees
    PROVE  fee \in Nat /\ fee <= Balance
<1>1. PICK p \in Preparations : DeploymentTransaction(p) /\ fee = p.limit * p.price
  BY DEF PreparedFees
<1>2. PICK a \in PrepareControlledEnvironment("primary"),
           b \in PrepareControlledEnvironment("independent") :
          Reconciled(a, b) /\ p = [a EXCEPT !.price = HigherPrice(a, b)]
  BY <1>1 DEF Preparations
<1> DEFINE Form == [anchor : {"anchor", "fork"}, limit : {1, Limit}, balance : {Balance, 6},
                    price : 1 .. 3]
           True == [anchor : {"anchor"}, limit : {Limit}, balance : {Balance}, price : {2}]
<1>3. a \in Form /\ b \in Form /\ (a \in True \/ b \in True)
  <2>1. True \subseteq Form
    BY DEF Limit, Balance
  <2>2. PrepareControlledEnvironment("primary") \subseteq Form
        /\ PrepareControlledEnvironment("independent") \subseteq Form
    BY <2>1 DEF PrepareControlledEnvironment
  <2>3. CASE Faulty # "primary"
    BY <2>2, <2>3 DEF PrepareControlledEnvironment
  <2>4. CASE Faulty = "primary"
    BY <2>2, <2>4 DEF PrepareControlledEnvironment
  <2> QED BY <2>3, <2>4
<1>4. a.limit = Limit /\ a.balance = Balance /\ b.limit = Limit
  BY <1>2, <1>3 DEF Reconciled
<1>5. a.price \in 1 .. 3 /\ b.price \in 1 .. 3
  BY <1>3
<1>6. HigherPrice(a, b) \in 1 .. 3
  BY <1>5 DEF HigherPrice
<1>7. p.limit = Limit /\ p.price = HigherPrice(a, b)
  BY <1>2, <1>3, <1>4
<1>8. Limit * HigherPrice(a, b) <= Balance
  BY <1>2, <1>4 DEF Reconciled
<1> QED BY <1>1, <1>6, <1>7, <1>8 DEF Limit, Balance

LEMMA DeploymentIs ==
    ASSUME NEW nonce \in Nonces, NEW fee \in Nat
    PROVE  LET x == Deployment(nonce, fee)
           IN  /\ x \in Tx /\ x.kind = "deploy" /\ x.nonce = nonce /\ x.fee = fee
               /\ x.here /\ x.st = "asked" /\ x.env = NoHash
<1>1. (CHOOSE f \in Feeds : TRUE) \in Feeds
  BY FeedsAssumption
<1>2. Loaded(NoRecord).feed \in Feeds
  BY <1>1 DEF Loaded
<1> QED BY <1>2 DEF Deployment, Tx

\* A new request changes nothing about the earlier ones.
LEMMA Added ==
    ASSUME TypeOK, NEW x \in Tx, Len(txs) < MaxTx, txs' = Append(txs, x), UNCHANGED latest
    PROVE  /\ txs' \in Seq(Tx) /\ Len(txs') <= MaxTx /\ Len(txs) + 1 \in Hashes
           /\ Len(txs) + 1 \notin DOMAIN txs
           /\ DOMAIN txs' = DOMAIN txs \cup {Len(txs) + 1}
           /\ txs'[Len(txs) + 1] = x
           /\ \A i \in DOMAIN txs : txs'[i] = txs[i]
<1>1. txs \in Seq(Tx) /\ Len(txs) \in Nat /\ DOMAIN txs = 1 .. Len(txs) /\ MaxTx \in Nat
  BY BoundsAssumption DEF TypeOK
<1>2. /\ txs' \in Seq(Tx) /\ Len(txs') = Len(txs) + 1
      /\ txs'[Len(txs) + 1] = x
      /\ \A i \in 1 .. Len(txs) : txs'[i] = txs[i]
  BY <1>1
<1>3. DOMAIN txs' = 1 .. Len(txs) + 1
  BY <1>1, <1>2
<1> QED BY <1>1, <1>2, <1>3 DEF Hashes

LEMMA AddedKeeps ==
    ASSUME TypeOK, NEW x \in Tx, x.here, Len(txs) < MaxTx, txs' = Append(txs, x), UNCHANGED latest
    PROVE  /\ \A hash : Real(hash) => Real(hash)'
           /\ \A nonce : OldOnes(nonce) => OldOnes(nonce)'
           /\ x.kind = "refresh" => HereDeployments' = HereDeployments
           /\ HereDeployments' \subseteq HereDeployments \cup {Len(txs) + 1}
           /\ \A env, feed : RefreshesOut(env, feed)'
                                 \subseteq RefreshesOut(env, feed) \cup {Len(txs) + 1}
<1>1. /\ DOMAIN txs' = DOMAIN txs \cup {Len(txs) + 1}
      /\ txs'[Len(txs) + 1] = x
      /\ \A i \in DOMAIN txs : txs'[i] = txs[i]
  BY Added
<1>2. \A hash : Real(hash) => Real(hash)'
  BY <1>1 DEF Real, Deployed, IsDeployment
<1>3. \A nonce : OldOnes(nonce) => OldOnes(nonce)'
  BY <1>1 DEF OldOnes
<1>4. x.kind = "refresh" => HereDeployments' = HereDeployments
  BY <1>1 DEF HereDeployments, IsDeployment
<1>5. HereDeployments' \subseteq HereDeployments \cup {Len(txs) + 1}
  BY <1>1 DEF HereDeployments, IsDeployment
<1>6. \A env, feed : RefreshesOut(env, feed)' \subseteq RefreshesOut(env, feed) \cup {Len(txs) + 1}
  BY <1>1 DEF RefreshesOut, Minable
<1> QED BY <1>2, <1>3, <1>4, <1>5, <1>6

\* The tab that holds the lock asks the wallet; the others do not wait for it.
LEMMA SendStep ==
    ASSUME SetupInv, NEW t \in Tabs, NEW x \in Tx, NEW s \in Tab,
           tab[t].job \in {"deploy", "retry", "refresh"}, Become(t, s),
           Len(txs) < MaxTx, txs' = Append(txs, x), UNCHANGED <<latest, proof, config>>,
           x.here, x.st = "asked", x.nonce = s.nonce,
           s.job = tab[t].job, s.asked, s.tx = Len(txs) + 1,
           s.nonce = tab[t].nonce, s.saved = tab[t].saved, s.proof = tab[t].proof,
           s.job = "deploy" => HereDeployments = {},
           s.job = "retry" => \A a \in HereDeployments : txs[a].nonce = s.nonce,
           s.job = "refresh" =>
               RefreshesOut(s.proof, s.feed) = {} /\ x.kind = "refresh" /\ x.env # NoHash,
           s.job # "refresh" => x.kind = "deploy" /\ x.fee <= Balance,
           record' \in Record, refreshed' \in [Hashes -> [Feeds -> Record]],
           RecordOK', RefreshLocked'
    PROVE  SetupInv'
<1> DEFINE n == Len(txs) + 1
<1>1. /\ TypeOK /\ TabOK(tab[t]) /\ AllOK /\ TxsOK /\ Affordable /\ EvidenceOK
  BY DEF SetupInv, AllOK
<1>2. /\ tab' \in [Tabs -> Tab] /\ tab'[t] = s
      /\ \A u \in Tabs : u # t => tab'[u] = tab[u]
  BY <1>1, BecomeIs
<1>3. /\ txs' \in Seq(Tx) /\ Len(txs') <= MaxTx /\ n \in Hashes
      /\ n \notin DOMAIN txs
      /\ DOMAIN txs' = DOMAIN txs \cup {n}
      /\ txs'[n] = x
      /\ \A i \in DOMAIN txs : txs'[i] = txs[i]
  BY <1>1, Added
<1>4. /\ \A hash : Real(hash) => Real(hash)'
      /\ \A nonce : OldOnes(nonce) => OldOnes(nonce)'
      /\ x.kind = "refresh" => HereDeployments' = HereDeployments
      /\ HereDeployments' \subseteq HereDeployments \cup {n}
      /\ \A env, feed : RefreshesOut(env, feed)' \subseteq RefreshesOut(env, feed) \cup {n}
  BY <1>1, AddedKeeps
<1> HIDE DEF n
<1>5. s.tx = n
  BY DEF n
<1>6. \A u \in Tabs : u # t => tab[u].job \in {"idle", "verify"}
  BY <1>1 DEF TypeOK
<1>7. TypeOK'
  <2>1. ASSUME NEW u \in Tabs, NEW w \in Tabs,
               {tab'[u].job, tab'[w].job} \cap {"idle", "verify"} = {}
        PROVE  u = w
    BY <1>2, <1>6, <2>1
  <2> QED BY <1>1, <1>2, <1>3, <2>1 DEF TypeOK
<1>8. AllOK'
  <2>1. ASSUME NEW u \in Tabs, u # t PROVE TabOK(tab[u])'
    <3>1. TabOK(tab[u]) /\ tab'[u] = tab[u] /\ tab[u].job \in {"idle", "verify"}
      BY <1>1, <1>2, <1>6, <2>1 DEF AllOK
    <3> DEFINE w == tab[u]
    <3>2. /\ OldOnes(w.nonce) /\ OldOnes(w.saved.nonce) /\ Real(w.proof)
          /\ ~w.asked /\ w.job = "verify" => w.tx \in DOMAIN txs
      BY <3>1 DEF TabOK
    <3>3. OldOnes(w.nonce)' /\ OldOnes(w.saved.nonce)' /\ Real(w.proof)'
      BY <1>4, <3>1, <3>2 DEF OldOnes, Real, Deployed, IsDeployment
    <3> QED BY <1>3, <3>1, <3>2, <3>3 DEF TabOK
  <2>2. TabOK(tab[t])'
    <3>1. /\ s.nonce # NoNonce /\ OldOnes(s.nonce) /\ OldOnes(s.saved.nonce) /\ Real(s.proof)
          /\ s.job = "retry" => Retryable(s.saved) /\ s.nonce = s.saved.nonce
          /\ s.job = "refresh" => s.proof # NoHash
      BY <1>1 DEF TabOK
    <3>2. OldOnes(s.nonce)' /\ OldOnes(s.saved.nonce)' /\ Real(s.proof)'
      BY <1>2, <1>4, <3>1 DEF OldOnes, Real, Deployed, IsDeployment
    <3>3. s.tx \in DOMAIN txs' /\ txs'[s.tx].nonce = s.nonce
      BY <1>3, <1>5
    <3>4. s.job = "deploy" => HereDeployments' \subseteq {s.tx}
      BY <1>4, <1>5
    <3>5. s.job = "retry" => \A a \in HereDeployments' : txs'[a].nonce = s.nonce
      BY <1>3, <1>4, HereAreTxs
    <3>6. s.job = "refresh" => RefreshesOut(s.proof, s.feed)' \subseteq {s.tx}
      BY <1>4, <1>5
    <3> QED BY <1>2, <3>1, <3>2, <3>3, <3>4, <3>5, <3>6 DEF TabOK
  <2> QED BY <2>1, <2>2 DEF AllOK
<1>9. TxsOK'
  BY <1>1, <1>3 DEF TxsOK, Settled
<1>10. Affordable'
  <2>1. \A a \in HereDeployments : txs[a].fee <= Balance /\ txs'[a] = txs[a]
    BY <1>1, <1>3, HereAreTxs DEF Affordable
  <2>2. CASE s.job = "refresh"
    BY <1>4, <2>1, <2>2 DEF Affordable
  <2>3. CASE s.job # "refresh"
    BY <1>3, <1>4, <2>1, <2>3 DEF Affordable
  <2> QED BY <2>2, <2>3
<1>11. EvidenceOK'
  BY <1>1, <1>4 DEF EvidenceOK, Real, Deployed, IsDeployment
<1> QED BY <1>7, <1>8, <1>9, <1>10, <1>11 DEF SetupInv

\* A deployment at the nonce of the record, and of all the others.
LEMMA AddedDeployment ==
    ASSUME SetupInv, NEW x \in Tx, x.here, x.kind = "deploy", Len(txs) < MaxTx,
           txs' = Append(txs, x), UNCHANGED <<refreshed, latest>>,
           record' # NoRecord, record'.st = "WALLET_REQUESTED", record'.nonce = x.nonce,
           OldOnes(x.nonce), \A a \in HereDeployments : txs[a].nonce = x.nonce
    PROVE  RecordOK' /\ RefreshLocked'
<1> DEFINE n == Len(txs) + 1
<1>1. /\ DOMAIN txs' = DOMAIN txs \cup {n} /\ txs'[n] = x
      /\ \A i \in DOMAIN txs : txs'[i] = txs[i]
  BY Added DEF SetupInv
<1>2. HereDeployments' \subseteq HereDeployments \cup {n} /\ OldOnes(x.nonce)'
  <2>1. TypeOK
    BY DEF SetupInv
  <2>2. OldOnes(x.nonce)'
    BY <1>1 DEF OldOnes
  <2> QED BY <2>1, <2>2, AddedKeeps
<1> HIDE DEF n
<1>3. \A a \in HereDeployments' : txs'[a].nonce = x.nonce
  BY <1>1, <1>2, HereAreTxs
<1>4. OneDeployment' /\ DeploymentLocked'
  BY <1>3 DEF OneDeployment, DeploymentLocked
<1>5. OldOnes(record.nonce)'
  BY <1>2 DEF OldOnes
<1>6. RefreshLocked'
  BY <1>1 DEF SetupInv, RefreshLocked, Minable
<1> QED BY <1>4, <1>5, <1>6 DEF RecordOK

\* Nothing is sent: the marker failed, or is not what was written.
LEMMA UnsentIs ==
    ASSUME TypeOK, NEW t \in Tabs
    PROVE  LET s == [Idle(t) EXCEPT !.blocked = TRUE]
           IN  s \in Tab /\ Resting(s) /\ s.proof = tab[t].proof
<1>1. Idle(t) \in Tab /\ Resting(Idle(t)) /\ Idle(t).proof = tab[t].proof
  BY IdleIs
<1> QED BY <1>1 DEF Tab, Resting

\* A tab that has asked for a deployment.
LEMMA AskingIs ==
    ASSUME TypeOK, NEW t \in Tabs, Len(txs) < MaxTx
    PROVE  LET s == [[tab[t] EXCEPT !.attempted = TRUE] EXCEPT !.asked = TRUE, !.tx = Len(txs) + 1]
           IN  /\ s \in Tab /\ s.asked /\ s.tx = Len(txs) + 1 /\ s.job = tab[t].job
               /\ s.nonce = tab[t].nonce /\ s.saved = tab[t].saved /\ s.proof = tab[t].proof
               /\ s.feed = tab[t].feed
<1>1. tab[t] \in Tab /\ Len(txs) + 1 \in Hashes
  BY BoundsAssumption DEF TypeOK, Hashes
<1> QED BY <1>1 DEF Tab

\* A deployment is asked for when no deployment is out, or all at its nonce.
LEMMA AskStep ==
    ASSUME SetupInv, NEW t \in Tabs, NEW outcome \in Outcomes, NEW new \in Record,
           tab[t].job \in {"deploy", "retry"}, ~tab[t].asked,
           record' = Stored(record, new, outcome), UNCHANGED <<refreshed, latest, proof, config>>,
           NEW fee \in PreparedFees,
           Send(t, Deployment(tab[t].nonce, fee), outcome, [tab[t] EXCEPT !.attempted = TRUE]),
           new # NoRecord, new.st = "WALLET_REQUESTED", new.nonce = tab[t].nonce,
           tab[t].job = "deploy" => HereDeployments = {},
           \A a \in HereDeployments : txs[a].nonce = tab[t].nonce
    PROVE  SetupInv'
<1> DEFINE x == Deployment(tab[t].nonce, fee)
           s == [[tab[t] EXCEPT !.attempted = TRUE] EXCEPT !.asked = TRUE, !.tx = Len(txs) + 1]
           u == [Idle(t) EXCEPT !.blocked = TRUE]
<1>1. /\ TypeOK /\ TabOK(tab[t]) /\ tab[t] \in Tab /\ RecordOK /\ record \in Record
      /\ refreshed \in [Hashes -> [Feeds -> Record]] /\ EvidenceOK
      /\ proof \in Hashes \cup {NoHash}
  BY DEF SetupInv, AllOK, TypeOK
<1>2. tab[t].nonce \in Nonces /\ OldOnes(tab[t].nonce)
  BY <1>1 DEF TabOK, Tab
<1>3. fee \in Nat /\ fee <= Balance
  BY FeeIsAffordable
<1>4. CASE outcome = "kept"
  <2>1. /\ x \in Tx /\ x.kind = "deploy" /\ x.nonce = tab[t].nonce /\ x.fee = fee
        /\ x.here /\ x.st = "asked"
    BY <1>2, <1>3, DeploymentIs
  <2>2. Len(txs) < MaxTx /\ txs' = Append(txs, x) /\ Become(t, s)
    BY <1>4 DEF Send
  <2>3. /\ s \in Tab /\ s.asked /\ s.tx = Len(txs) + 1 /\ s.job = tab[t].job
        /\ s.nonce = tab[t].nonce /\ s.saved = tab[t].saved /\ s.proof = tab[t].proof
    BY <1>1, <2>2, AskingIs
  <2>4. record' = new
    BY <1>4 DEF Stored
  <2> HIDE DEF x, s
  <2>5. RecordOK' /\ RefreshLocked'
    BY <1>2, <2>1, <2>2, <2>4, AddedDeployment
  <2> QED BY <1>1, <1>3, <2>1, <2>2, <2>3, <2>4, <2>5, SendStep
<1>5. CASE outcome # "kept"
  <2>1. Become(t, u) /\ UNCHANGED txs /\ record' \in {record, new}
    BY <1>5, StoredIs DEF Send
  <2>2. u \in Tab /\ Resting(u) /\ u.proof = tab[t].proof
    BY <1>1, UnsentIs
  <2> HIDE DEF u
  <2>3. RecordOK'
    <3>1. CASE record' = record
      BY <2>1, <3>1, Same DEF SetupInv
    <3>2. CASE record' = new
      BY <1>2, <2>1, <3>2, RecordIsOK
    <3> QED BY <2>1, <3>1, <3>2
  <2>4. Real(u.proof) /\ Real(proof)' /\ record' \in Record
    BY <1>1, <2>1, <2>2 DEF TabOK, EvidenceOK, Real, Deployed, IsDeployment
  <2> QED BY <1>1, <2>1, <2>2, <2>3, <2>4, RecordStep
<1> QED BY <1>4, <1>5

\* Without a record no deployment of this browser is out.
LEMMA AskDeploymentStep ==
    ASSUME SetupInv, NEW t \in Tabs, NEW outcome \in Outcomes, AskDeployment(t, outcome)
    PROVE  SetupInv'
<1> DEFINE new == Rec("WALLET_REQUESTED", tab[t].nonce, NoHash)
<1>1. /\ tab[t].nonce \in Nonces \cup {NoNonce} /\ tab[t].job = "deploy" /\ ~tab[t].asked
      /\ record = NoRecord /\ record' = Stored(record, new, outcome)
      /\ UNCHANGED <<refreshed, latest, proof, config>>
  BY DEF SetupInv, TypeOK, Tab, AskDeployment
<1>2. PICK fee \in PreparedFees :
          Send(t, Deployment(tab[t].nonce, fee), outcome, [tab[t] EXCEPT !.attempted = TRUE])
  BY DEF AskDeployment
<1>3. new \in Record /\ new # NoRecord /\ new.st = "WALLET_REQUESTED" /\ new.nonce = tab[t].nonce
  BY <1>1, RecIs, RecNotNone
<1>4. HereDeployments = {}
  BY <1>1 DEF SetupInv, RecordOK, DeploymentLocked
<1> HIDE DEF new
<1> QED BY <1>1, <1>2, <1>3, <1>4, AskStep

\* A retry has the nonce of the record, and so of all deployments that are out.
LEMMA AskRetryStep ==
    ASSUME SetupInv, NEW t \in Tabs, NEW outcome \in Outcomes, AskRetry(t, outcome)
    PROVE  SetupInv'
<1>1. /\ TabOK(tab[t]) /\ record \in Record /\ tab[t].job = "retry" /\ ~tab[t].asked
      /\ record = tab[t].saved /\ record' = Stored(record, tab[t].saved, outcome)
      /\ UNCHANGED <<refreshed, latest, proof, config>>
  BY DEF SetupInv, AllOK, TypeOK, AskRetry
<1>2. PICK fee \in PreparedFees :
          Send(t, Deployment(tab[t].nonce, fee), outcome, [tab[t] EXCEPT !.attempted = TRUE])
  BY DEF AskRetry
<1>3. /\ record.st = "WALLET_REQUESTED" /\ record.nonce = tab[t].nonce /\ record.nonce # NoNonce
      /\ record # NoRecord
  BY <1>1, NoRecordIs DEF TabOK, Retryable
<1>4. \A a \in HereDeployments : txs[a].nonce = tab[t].nonce
  BY <1>3 DEF SetupInv, RecordOK, DeploymentLocked
<1> QED BY <1>1, <1>2, <1>3, <1>4, AskStep

-----------------------------------------------------------------------------
\* The refresh records.

Noted(env, feed, value) == [refreshed EXCEPT ![env][feed] = value]

LEMMA RefreshedIs ==
    ASSUME TypeOK, NEW env \in Hashes, NEW feed \in Feeds, NEW value \in Record,
           refreshed' = Noted(env, feed, value)
    PROVE  /\ refreshed' \in [Hashes -> [Feeds -> Record]] /\ refreshed'[env][feed] = value
           /\ \A e \in Hashes, f \in Feeds :
                 (e # env \/ f # feed) => refreshed'[e][f] = refreshed[e][f]
<1>1. refreshed \in [Hashes -> [Feeds -> Record]] /\ refreshed[env] \in [Feeds -> Record]
  BY DEF TypeOK
<1> DEFINE row == [refreshed[env] EXCEPT ![feed] = value]
<1>2. row \in [Feeds -> Record] /\ row[feed] = value
      /\ \A f \in Feeds : f # feed => row[f] = refreshed[env][f]
  BY <1>1
<1>3. refreshed' = [refreshed EXCEPT ![env] = row]
  BY DEF Noted
<1> HIDE DEF row
<1> QED BY <1>1, <1>2, <1>3

\* Refreshes are of environments and feeds that have a record.
LEMMA RefreshOf ==
    ASSUME TypeOK, TxsOK, NEW i \in DOMAIN txs, txs[i].kind = "refresh"
    PROVE  txs[i].env \in Hashes /\ txs[i].feed \in Feeds
<1>1. txs[i] \in Tx /\ txs[i].env # NoHash
  BY TxOf DEF TxsOK
<1> QED BY <1>1 DEF Tx

\* What may still be mined has the nonce of its feed's record.
LEMMA OutAtItsNonce ==
    ASSUME SetupInv, NEW env, NEW feed, NEW i \in RefreshesOut(env, feed)
    PROVE  txs[i].nonce = refreshed[env][feed].nonce /\ txs[i].nonce # NoNonce
<1>1. i \in DOMAIN txs /\ txs[i].kind = "refresh" /\ Minable(txs[i])
      /\ txs[i].env = env /\ txs[i].feed = feed
  BY DEF RefreshesOut
<1> QED BY <1>1, TxOf DEF SetupInv, RefreshLocked

\* A feed's record is written over; what is out for the feed has its nonce.
LEMMA RefreshedStep ==
    ASSUME SetupInv, NEW t \in Tabs, NEW s \in Tab, TabOK(s), Become(t, s),
           s.job \in {"idle", "verify"} \/ s.job = tab[t].job,
           UNCHANGED <<record, txs, latest, proof, config>>,
           NEW env \in Hashes, NEW feed \in Feeds, NEW value \in Record,
           refreshed' = Noted(env, feed, value),
           \A i \in RefreshesOut(env, feed) : txs[i].nonce = value.nonce
    PROVE  SetupInv'
<1>1. /\ TypeOK /\ TxsOK /\ RefreshLocked /\ record \in Record
      /\ proof \in Hashes \cup {NoHash} /\ config \in Hashes \cup {NoHash}
  BY DEF SetupInv, TypeOK
<1>2. /\ refreshed' \in [Hashes -> [Feeds -> Record]] /\ refreshed'[env][feed] = value
      /\ \A e \in Hashes, f \in Feeds :
            (e # env \/ f # feed) => refreshed'[e][f] = refreshed[e][f]
  BY <1>1, RefreshedIs
<1>3. RefreshLocked'
  <2>1. ASSUME NEW i \in DOMAIN txs, txs[i].kind = "refresh", Minable(txs[i])
        PROVE  refreshed'[txs[i].env][txs[i].feed].nonce = txs[i].nonce
    <3>1. txs[i].env \in Hashes /\ txs[i].feed \in Feeds
      BY <1>1, <2>1, RefreshOf
    <3>2. CASE txs[i].env = env /\ txs[i].feed = feed
      BY <1>2, <2>1, <3>2 DEF RefreshesOut
    <3>3. CASE txs[i].env # env \/ txs[i].feed # feed
      BY <1>1, <1>2, <2>1, <3>1, <3>3 DEF RefreshLocked
    <3> QED BY <3>2, <3>3
  <2> QED BY <2>1 DEF RefreshLocked, Minable
<1>4. RecordOK' /\ EvidenceOK'
  BY Same
<1> QED BY <1>1, <1>2, <1>3, <1>4, TabStep

\* The hash is of the only refresh of the feed that is out.
LEMMA RefreshHashStep ==
    ASSUME SetupInv, NEW t \in Tabs, NEW outcome \in Outcomes, RefreshHash(t, outcome)
    PROVE  SetupInv'
<1> DEFINE new == Rec("SUBMITTED", tab[t].nonce, tab[t].tx)
           old == refreshed[tab[t].proof][tab[t].feed]
           value == Stored(old, new, outcome)
<1>1. /\ TypeOK /\ TabOK(tab[t]) /\ tab[t] \in Tab
      /\ refreshed \in [Hashes -> [Feeds -> Record]]
      /\ tab[t].job = "refresh" /\ tab[t].asked /\ Become(t, Settle(t, outcome))
      /\ UNCHANGED <<record, txs, latest, proof, config>>
      /\ refreshed' = Noted(tab[t].proof, tab[t].feed, value)
  BY DEF SetupInv, AllOK, TypeOK, RefreshHash, Answered, Refreshing, Noted
<1>2. tab[t].proof \in Hashes /\ tab[t].feed \in Feeds /\ old \in Record
  <2>1. tab[t].proof \in Hashes /\ tab[t].feed \in Feeds
    BY <1>1 DEF TabOK, Tab
  <2> QED BY <1>1, <2>1
<1>3. tab[t].nonce \in Nonces /\ tab[t].tx \in Hashes /\ tab[t].tx \in DOMAIN txs
  BY <1>1, TxOf DEF TabOK, Tab
<1>4. new \in Record /\ new.nonce = tab[t].nonce
  BY <1>3, RecIs
<1>5. value \in {old, new}
  BY StoredIs
<1> HIDE DEF new, value
<1>6. \A i \in RefreshesOut(tab[t].proof, tab[t].feed) : txs[i].nonce = value.nonce
  <2>1. CASE value = old
    BY <2>1, OutAtItsNonce
  <2>2. CASE value = new
    BY <1>1, <1>4, <2>2 DEF TabOK
  <2> QED BY <1>5, <2>1, <2>2
<1>7. /\ Settle(t, outcome) \in Tab /\ Settle(t, outcome).job = "idle"
      /\ TabOK(Settle(t, outcome))
  <2>1. /\ Settle(t, outcome) \in Tab /\ Resting(Settle(t, outcome))
        /\ Settle(t, outcome).proof = tab[t].proof
    BY <1>1, SettleIs
  <2> QED BY <1>1, <2>1, RestingOK DEF TabOK, Resting
<1>8. value \in Record
  BY <1>2, <1>4, <1>5
<1> HIDE DEF old
<1> QED BY <1>1, <1>2, <1>6, <1>7, <1>8, RefreshedStep

\* What was rejected was the only refresh of the feed that was out.
LEMMA RefreshRejectedStep ==
    ASSUME SetupInv, NEW t \in Tabs, RefreshRejected(t)
    PROVE  SetupInv'
<1>1. /\ TypeOK /\ TabOK(tab[t]) /\ tab[t] \in Tab
      /\ tab[t].job = "refresh" /\ tab[t].asked /\ txs[tab[t].tx].st = "rejected"
      /\ Become(t, Idle(t)) /\ UNCHANGED <<record, txs, latest, proof, config>>
      /\ refreshed' = Noted(tab[t].proof, tab[t].feed, NoRecord)
  BY DEF SetupInv, AllOK, TypeOK, RefreshRejected, Answered, Refreshing, Noted
<1>2. tab[t].proof \in Hashes /\ tab[t].feed \in Feeds
  BY <1>1 DEF TabOK, Tab
<1>3. RefreshesOut(tab[t].proof, tab[t].feed) = {}
  <2>1. RefreshesOut(tab[t].proof, tab[t].feed) \subseteq {tab[t].tx}
    BY <1>1 DEF TabOK
  <2>2. tab[t].tx \notin RefreshesOut(tab[t].proof, tab[t].feed)
    BY <1>1 DEF RefreshesOut, Minable
  <2> QED BY <2>1, <2>2
<1>4. Idle(t) \in Tab /\ Idle(t).job = "idle" /\ TabOK(Idle(t))
  <2>1. Idle(t) \in Tab /\ Resting(Idle(t)) /\ Idle(t).proof = tab[t].proof
    BY <1>1, IdleIs
  <2> QED BY <1>1, <2>1, RestingOK DEF TabOK, Resting
<1> QED BY <1>1, <1>2, <1>3, <1>4, NoRecordIs, RefreshedStep

\* A settled refresh is the honest endpoint's word for it.
LEMMA SettledIsSettled ==
    ASSUME NEW hash, NEW env, NEW feed, NEW nonce,
           VerifyControlledRefresh(hash, env, feed, nonce) \cap {"VERIFIED", "REVERTED"} # {}
    PROVE  Settled(hash) /\ txs[hash].nonce = nonce
<1>1. PICK a \in InspectRefresh("primary", hash, env, feed, nonce),
           b \in InspectRefresh("independent", hash, env, feed, nonce) :
          Agreed(a, b) \in {"VERIFIED", "REVERTED"}
  BY DEF VerifyControlledRefresh
<1>2. a \in {"VERIFIED", "REVERTED"} /\ b = a
  BY <1>1 DEF Agreed
<1>3. PICK rpc \in Rpcs : rpc # Faulty /\ a \in InspectRefresh(rpc, hash, env, feed, nonce)
  BY <1>1, <1>2, FaultAssumption DEF Rpcs
<1> QED BY <1>2, <1>3 DEF InspectRefresh, Reports

\* With the nonce of the record used up, no refresh of the feed is out.
LEMMA VerifyRefreshStep ==
    ASSUME SetupInv, NEW t \in Tabs, NEW feed \in Feeds, NEW hash \in DOMAIN txs,
           VerifyRefresh(t, feed, hash)
    PROVE  SetupInv'
<1> DEFINE env == tab[t].proof
           saved == refreshed[env][feed]
<1>1. /\ TypeOK /\ TxsOK /\ TabOK(tab[t]) /\ tab[t] \in Tab /\ tab \in [Tabs -> Tab]
      /\ UNCHANGED <<record, tab, txs, latest, proof, config>>
      /\ refreshed' = Noted(env, feed, NoRecord)
  BY DEF SetupInv, AllOK, TypeOK, VerifyRefresh, Noted
<1>2. env \in Hashes
  BY <1>1 DEF VerifyRefresh, Usable, SameEnvironment, Tab
<1>3. Settled(hash) /\ txs[hash].nonce = saved.nonce
  BY SettledIsSettled DEF VerifyRefresh, BoundNonce
<1>4. saved.nonce < latest /\ saved.nonce \in Nat /\ latest \in Nat
  BY <1>1, <1>3, TxOf, BoundsAssumption DEF TxsOK, Nonces, TypeOK
<1>5. RefreshesOut(env, feed) = {}
  <2>1. ASSUME NEW i \in RefreshesOut(env, feed) PROVE FALSE
    <3>1. txs[i].nonce = saved.nonce
      BY OutAtItsNonce
    <3>2. txs[i].nonce >= latest
      BY DEF RefreshesOut, Minable
    <3> QED BY <1>4, <3>1, <3>2
  <2> QED BY <2>1
<1>6. Become(t, tab[t])
  BY <1>1 DEF Become
<1> HIDE DEF env, saved
<1> QED BY <1>1, <1>2, <1>5, <1>6, NoRecordIs, RefreshedStep

\* A refresh at the nonce of its feed's record, of which no other is out.
LEMMA AddedRefresh ==
    ASSUME SetupInv, NEW x \in Tx, x.here, x.kind = "refresh", Len(txs) < MaxTx,
           txs' = Append(txs, x), UNCHANGED <<record, latest>>,
           NEW env \in Hashes, NEW feed \in Feeds, x.env = env, x.feed = feed,
           NEW value \in Record, value.nonce = x.nonce,
           refreshed' = Noted(env, feed, value),
           RefreshesOut(env, feed) = {}
    PROVE  RecordOK' /\ RefreshLocked'
<1> DEFINE n == Len(txs) + 1
<1>1. /\ TypeOK /\ TxsOK /\ RecordOK /\ RefreshLocked
  BY DEF SetupInv
<1>2. /\ DOMAIN txs' = DOMAIN txs \cup {n} /\ txs'[n] = x
      /\ \A i \in DOMAIN txs : txs'[i] = txs[i]
  BY <1>1, Added
<1>3. /\ HereDeployments' = HereDeployments
      /\ \A hash : Real(hash) => Real(hash)'
      /\ \A nonce : OldOnes(nonce) => OldOnes(nonce)'
  BY <1>1, AddedKeeps
<1> HIDE DEF n
<1>4. RecordOK'
  <2>1. OneDeployment' /\ DeploymentLocked'
    BY <1>1, <1>2, <1>3, HereAreTxs DEF RecordOK, OneDeployment, DeploymentLocked
  <2>2. (record.st = "VERIFIED" => Real(record.hash))' /\ OldOnes(record.nonce)'
    BY <1>1, <1>3 DEF RecordOK, Real, Deployed, IsDeployment, OldOnes
  <2> QED BY <2>1, <2>2 DEF RecordOK
<1>5. /\ refreshed'[env][feed] = value
      /\ \A e \in Hashes, f \in Feeds :
            (e # env \/ f # feed) => refreshed'[e][f] = refreshed[e][f]
  BY <1>1, RefreshedIs
<1>6. RefreshLocked'
  <2>1. ASSUME NEW i \in DOMAIN txs, txs[i].kind = "refresh", Minable(txs[i])
        PROVE  refreshed'[txs[i].env][txs[i].feed].nonce = txs[i].nonce
    <3>1. txs[i].env \in Hashes /\ txs[i].feed \in Feeds
      BY <1>1, <2>1, RefreshOf
    <3>2. txs[i].env # env \/ txs[i].feed # feed
      BY <2>1 DEF RefreshesOut
    <3> QED BY <1>1, <1>5, <2>1, <3>1, <3>2 DEF RefreshLocked
  <2>2. ASSUME NEW i \in DOMAIN txs', txs'[i].kind = "refresh", Minable(txs[i])'
        PROVE  refreshed'[txs'[i].env][txs'[i].feed].nonce = txs'[i].nonce
    <3>1. CASE i = n
      BY <1>2, <1>5, <3>1
    <3>2. CASE i \in DOMAIN txs
      BY <1>2, <2>1, <2>2, <3>2 DEF Minable
    <3> QED BY <1>2, <3>1, <3>2
  <2> QED BY <2>2 DEF RefreshLocked
<1> QED BY <1>4, <1>6

RefreshTx(nonce, env, feed) ==
    [Deployment(nonce, 0) EXCEPT !.kind = "refresh", !.env = env, !.feed = feed]

LEMMA RefreshTxIs ==
    ASSUME NEW nonce \in Nonces, NEW env \in Hashes, NEW feed \in Feeds
    PROVE  LET x == RefreshTx(nonce, env, feed)
           IN  /\ x \in Tx /\ x.kind = "refresh" /\ x.nonce = nonce /\ x.env = env
               /\ x.feed = feed /\ x.here /\ x.st = "asked"
<1>1. LET x == Deployment(nonce, 0)
      IN  /\ x \in Tx /\ x.kind = "deploy" /\ x.nonce = nonce /\ x.fee = 0
          /\ x.here /\ x.st = "asked" /\ x.env = NoHash
  BY DeploymentIs
<1> QED BY <1>1 DEF Tx, RefreshTx

\* A tab that has asked for a refresh.
LEMMA AskingRefreshIs ==
    ASSUME TypeOK, NEW t \in Tabs, Len(txs) < MaxTx
    PROVE  LET s == [tab[t] EXCEPT !.asked = TRUE, !.tx = Len(txs) + 1]
           IN  /\ s \in Tab /\ s.asked /\ s.tx = Len(txs) + 1 /\ s.job = tab[t].job
               /\ s.nonce = tab[t].nonce /\ s.saved = tab[t].saved /\ s.proof = tab[t].proof
               /\ s.feed = tab[t].feed
<1>1. tab[t] \in Tab /\ Len(txs) + 1 \in Hashes
  BY BoundsAssumption DEF TypeOK, Hashes
<1> QED BY <1>1 DEF Tab

\* A refresh is asked for when its feed has no record, so none is out.
LEMMA AskRefreshStep ==
    ASSUME SetupInv, NEW t \in Tabs, NEW outcome \in Outcomes, AskRefresh(t, outcome)
    PROVE  SetupInv'
<1> DEFINE env == tab[t].proof
           feed == tab[t].feed
           old == refreshed[env][feed]
           new == Rec("WALLET_REQUESTED", tab[t].nonce, NoHash)
           value == Stored(old, new, outcome)
           x == RefreshTx(tab[t].nonce, env, feed)
           s == [tab[t] EXCEPT !.asked = TRUE, !.tx = Len(txs) + 1]
           u == [Idle(t) EXCEPT !.blocked = TRUE]
<1>1. /\ TypeOK /\ TabOK(tab[t]) /\ tab[t] \in Tab /\ tab[t].job = "refresh" /\ ~tab[t].asked
      /\ old = NoRecord /\ UNCHANGED <<record, latest, proof, config>>
      /\ refreshed' = Noted(env, feed, value)
      /\ Send(t, x, outcome, tab[t]) /\ record \in Record
  BY DEF SetupInv, AllOK, TypeOK, AskRefresh, Refreshing, Noted, RefreshTx
<1>2. env \in Hashes /\ feed \in Feeds /\ tab[t].nonce \in Nonces
  BY <1>1 DEF TabOK, Tab
<1>3. new \in Record /\ new.nonce = tab[t].nonce
  BY <1>2, RecIs
<1>4. value \in {old, new} /\ (outcome = "kept" => value = new)
  BY DEF Stored
<1>5. RefreshesOut(env, feed) = {}
  <2>1. ASSUME NEW i \in RefreshesOut(env, feed) PROVE FALSE
    BY <1>1, OutAtItsNonce, NoRecordIs
  <2> QED BY <2>1
<1>6. x \in Tx /\ x.kind = "refresh" /\ x.nonce = tab[t].nonce /\ x.env = env
      /\ x.feed = feed /\ x.here /\ x.st = "asked"
  <2> HIDE DEF env, feed
  <2> QED BY <1>2, RefreshTxIs
<1>7. CASE outcome = "kept"
  <2>1. Len(txs) < MaxTx /\ txs' = Append(txs, x) /\ Become(t, s) /\ value = new
    BY <1>1, <1>4, <1>7 DEF Send
  <2>2. /\ s \in Tab /\ s.asked /\ s.tx = Len(txs) + 1 /\ s.job = tab[t].job
        /\ s.nonce = tab[t].nonce /\ s.saved = tab[t].saved /\ s.proof = env /\ s.feed = feed
    BY <1>1, <2>1, AskingRefreshIs
  <2> HIDE DEF x, s, new, value, old
  <2>3. RecordOK' /\ RefreshLocked'
    BY <1>1, <1>2, <1>3, <1>5, <1>6, <2>1, AddedRefresh
  <2>4. refreshed' \in [Hashes -> [Feeds -> Record]]
    BY <1>1, <1>2, <1>3, <2>1, RefreshedIs
  <2>5. x.env # NoHash /\ RefreshesOut(s.proof, s.feed) = {}
    BY <1>1, <1>5, <1>6, <2>2 DEF TabOK
  <2> HIDE DEF env, feed
  <2>6. s.proof = tab[t].proof
    BY <2>2 DEF env
  <2> QED BY <1>1, <1>6, <2>1, <2>2, <2>3, <2>4, <2>5, <2>6, SendStep
<1>8. CASE outcome # "kept"
  <2>1. Become(t, u) /\ UNCHANGED txs
    BY <1>1, <1>8 DEF Send
  <2>2. u \in Tab /\ u.job = "idle" /\ TabOK(u)
    <3>1. u \in Tab /\ Resting(u) /\ u.proof = tab[t].proof
      BY <1>1, UnsentIs
    <3> HIDE DEF u
    <3> QED BY <1>1, <3>1, RestingOK DEF TabOK, Resting
  <2>3. value \in Record
    BY <1>1, <1>3, <1>4, NoRecordIs
  <2> HIDE DEF u, value, new, old, env, feed
  <2> QED BY <1>1, <1>2, <1>5, <2>1, <2>2, <2>3, RefreshedStep
<1> QED BY <1>7, <1>8

-----------------------------------------------------------------------------
\* The wallet and the chain.

\* Requests only move on: what is settled stays, what is rejected stays, and
\* the nonce of what is mined is used up.
MovesOn ==
    /\ txs' \in Seq(Tx) /\ Len(txs') = Len(txs) /\ DOMAIN txs' = DOMAIN txs
    /\ latest' \in 0 .. MaxNonce + 1 /\ latest' >= latest
    /\ \A i \in DOMAIN txs :
          /\ txs'[i].kind = txs[i].kind /\ txs'[i].env = txs[i].env /\ txs'[i].feed = txs[i].feed
          /\ txs'[i].nonce = txs[i].nonce /\ txs'[i].fee = txs[i].fee
          /\ txs'[i].here = txs[i].here
          /\ txs[i].st \in {"mined", "reverted", "rejected"} => txs'[i].st = txs[i].st
          /\ txs'[i].st \in {"mined", "reverted"} => txs[i].nonce < latest'

LEMMA MoveStep ==
    ASSUME SetupInv, MovesOn, UNCHANGED <<record, refreshed, tab, proof, config>>
    PROVE  SetupInv'
<1>1. /\ TypeOK /\ AllOK /\ TxsOK /\ RecordOK /\ RefreshLocked /\ Affordable /\ EvidenceOK
  BY DEF SetupInv
<1>2. /\ HereDeployments' \subseteq HereDeployments
      /\ \A a \in HereDeployments : txs'[a].nonce = txs[a].nonce /\ txs'[a].fee = txs[a].fee
  BY DEF MovesOn, HereDeployments, IsDeployment
<1>3. \A hash : Real(hash) => Real(hash)'
  BY DEF MovesOn, Real, Deployed, IsDeployment
<1>4. \A nonce : OldOnes(nonce) => OldOnes(nonce)'
  BY DEF MovesOn, OldOnes
<1>5. ASSUME NEW i \in DOMAIN txs, Minable(txs[i])' PROVE Minable(txs[i])
  <2>1. txs[i] \in Tx /\ txs[i].nonce \in Nat /\ latest \in Nat /\ latest' \in Nat
    BY <1>1, TxOf, BoundsAssumption DEF TypeOK, MovesOn, Nonces
  <2>2. txs'[i].nonce = txs[i].nonce /\ txs'[i].st \in {"asked", "live"} /\ txs'[i].nonce >= latest'
    BY <1>5 DEF Minable, MovesOn
  <2>3. txs[i].st \in {"asked", "live"}
    BY <2>1, <2>2 DEF MovesOn, Tx
  <2> QED BY <2>1, <2>2, <2>3 DEF Minable, MovesOn
<1>6. \A env, feed : RefreshesOut(env, feed)' \subseteq RefreshesOut(env, feed)
  BY <1>5 DEF RefreshesOut, MovesOn
<1>7. TypeOK'
  BY <1>1 DEF TypeOK, MovesOn
<1>8. AllOK'
  <2>1. ASSUME NEW t \in Tabs PROVE TabOK(tab[t])'
    <3>1. TabOK(tab[t]) /\ DOMAIN txs' = DOMAIN txs
      BY <1>1 DEF AllOK, MovesOn
    <3>2. OldOnes(tab[t].nonce)' /\ OldOnes(tab[t].saved.nonce)' /\ Real(tab[t].proof)'
      BY <1>3, <1>4, <3>1 DEF TabOK, OldOnes, Real, Deployed, IsDeployment
    <3>3. (tab[t].job = "deploy" /\ tab[t].asked) =>
             HereDeployments' \subseteq {tab[t].tx} /\ txs'[tab[t].tx].nonce = tab[t].nonce
      BY <1>2, <3>1 DEF TabOK, MovesOn
    <3>4. (tab[t].job = "retry" /\ tab[t].asked) =>
             \A a \in HereDeployments' : txs'[a].nonce = tab[t].nonce
      BY <1>2, <3>1 DEF TabOK
    <3>5. (tab[t].job = "refresh" /\ tab[t].asked) =>
             /\ RefreshesOut(tab[t].proof, tab[t].feed)' \subseteq {tab[t].tx}
             /\ txs'[tab[t].tx].nonce = tab[t].nonce
      <4>1. RefreshesOut(tab[t].proof, tab[t].feed)' \subseteq RefreshesOut(tab[t].proof, tab[t].feed)
        BY <1>6 DEF RefreshesOut
      <4> QED BY <3>1, <4>1 DEF TabOK, MovesOn
    <3> QED BY <3>1, <3>2, <3>3, <3>4, <3>5 DEF TabOK
  <2> QED BY <2>1 DEF AllOK
<1>9. TxsOK'
  <2>1. ASSUME NEW i \in DOMAIN txs
        PROVE  /\ Settled(i)' => txs'[i].nonce < latest'
               /\ txs'[i].kind = "refresh" => txs'[i].env # NoHash
               /\ ~txs'[i].here => Settled(i)'
    BY <1>1 DEF TxsOK, Settled, MovesOn
  <2> QED BY <2>1 DEF TxsOK, MovesOn
<1>10. RecordOK'
  <2>1. OneDeployment' /\ DeploymentLocked'
    BY <1>1, <1>2 DEF RecordOK, OneDeployment, DeploymentLocked
  <2>2. (record.st = "VERIFIED" => Real(record.hash))' /\ OldOnes(record.nonce)'
    BY <1>1, <1>3, <1>4 DEF RecordOK, Real, Deployed, IsDeployment, OldOnes
  <2> QED BY <2>1, <2>2 DEF RecordOK
<1>11. RefreshLocked'
  BY <1>1, <1>5 DEF RefreshLocked, MovesOn
<1>12. Affordable'
  BY <1>1, <1>2 DEF Affordable
<1>13. EvidenceOK'
  BY <1>1, <1>3 DEF EvidenceOK, Real, Deployed, IsDeployment
<1> QED BY <1>7, <1>8, <1>9, <1>10, <1>11, <1>12, <1>13 DEF SetupInv

\* A decided request differs from before in its state.
LEMMA Decided ==
    ASSUME TypeOK, NEW hash \in DOMAIN txs, NEW st \in {"live", "rejected", "mined", "reverted"},
           txs' = [txs EXCEPT ![hash].st = st]
    PROVE  /\ txs' \in Seq(Tx) /\ Len(txs') = Len(txs) /\ DOMAIN txs' = DOMAIN txs
           /\ txs'[hash].st = st
           /\ \A i \in DOMAIN txs :
                 /\ txs'[i].kind = txs[i].kind /\ txs'[i].env = txs[i].env
                 /\ txs'[i].feed = txs[i].feed /\ txs'[i].nonce = txs[i].nonce
                 /\ txs'[i].fee = txs[i].fee /\ txs'[i].here = txs[i].here
                 /\ i # hash => txs'[i].st = txs[i].st
<1> DEFINE moved == [kind |-> txs[hash].kind, env |-> txs[hash].env, feed |-> txs[hash].feed,
                     nonce |-> txs[hash].nonce, fee |-> txs[hash].fee, here |-> txs[hash].here,
                     st |-> st]
<1>1. txs \in Seq(Tx) /\ DOMAIN txs = 1 .. Len(txs) /\ txs[hash] \in Tx
  BY TxOf DEF TypeOK
<1>2. moved \in Tx
  BY <1>1 DEF Tx
<1>3. [txs[hash] EXCEPT !.st = st] = moved
  BY <1>1 DEF Tx
<1>4. txs' = [txs EXCEPT ![hash] = moved]
  BY <1>1, <1>3
<1>5. /\ moved.kind = txs[hash].kind /\ moved.env = txs[hash].env /\ moved.feed = txs[hash].feed
      /\ moved.nonce = txs[hash].nonce /\ moved.fee = txs[hash].fee
      /\ moved.here = txs[hash].here /\ moved.st = st
  OBVIOUS
<1> HIDE DEF moved
<1>6. /\ txs' \in Seq(Tx) /\ Len(txs') = Len(txs) /\ txs'[hash] = moved
      /\ \A i \in 1 .. Len(txs) : i # hash => txs'[i] = txs[i]
  BY <1>1, <1>2, <1>4, ExceptSeq
<1>7. DOMAIN txs' = DOMAIN txs
  BY <1>1, <1>6
<1> QED BY <1>1, <1>5, <1>6, <1>7

LEMMA DecideStep ==
    ASSUME SetupInv, NEW hash \in DOMAIN txs, NEW st \in {"live", "rejected"}, Decide(hash, st)
    PROVE  SetupInv'
<1>1. /\ TypeOK /\ TxsOK /\ txs[hash].st = "asked" /\ txs' = [txs EXCEPT ![hash].st = st]
      /\ UNCHANGED <<record, refreshed, tab, latest, proof, config>>
      /\ latest \in 0 .. MaxNonce + 1 /\ latest \in Nat
  BY BoundsAssumption DEF SetupInv, TypeOK, Decide
<1>2. MovesOn
  <2>1. \A i \in DOMAIN txs : txs[i].st \in {"mined", "reverted"} => txs[i].nonce < latest
    BY <1>1 DEF TxsOK, Settled
  <2>2. /\ txs' \in Seq(Tx) /\ Len(txs') = Len(txs) /\ DOMAIN txs' = DOMAIN txs
        /\ txs'[hash].st = st
        /\ \A i \in DOMAIN txs :
              /\ txs'[i].kind = txs[i].kind /\ txs'[i].env = txs[i].env
              /\ txs'[i].feed = txs[i].feed /\ txs'[i].nonce = txs[i].nonce
              /\ txs'[i].fee = txs[i].fee /\ txs'[i].here = txs[i].here
              /\ i # hash => txs'[i].st = txs[i].st
    BY <1>1, Decided
  <2>3. latest' >= latest
    BY <1>1
  <2> QED BY <1>1, <2>1, <2>2, <2>3 DEF MovesOn
<1> QED BY <1>1, <1>2, MoveStep

LEMMA MineStep ==
    ASSUME SetupInv, NEW hash \in DOMAIN txs, NEW st \in {"mined", "reverted"}, Mine(hash, st)
    PROVE  SetupInv'
<1>1. /\ TypeOK /\ TxsOK /\ txs[hash].st = "live" /\ txs[hash].nonce = latest
      /\ txs' = [txs EXCEPT ![hash].st = st] /\ latest' = latest + 1
      /\ UNCHANGED <<record, refreshed, tab, proof, config>>
  BY DEF SetupInv, Mine
<1>2. latest \in Nat /\ latest' \in 0 .. MaxNonce + 1
  BY <1>1, TxOf, BoundsAssumption DEF Nonces
<1>3. MovesOn
  <2>1. \A i \in DOMAIN txs : txs[i].st \in {"mined", "reverted"} => txs[i].nonce < latest + 1
    BY <1>1, <1>2, TxOf, BoundsAssumption DEF TxsOK, Settled, Nonces
  <2>2. txs[hash].nonce < latest + 1
    BY <1>1, <1>2
  <2>3. /\ txs' \in Seq(Tx) /\ Len(txs') = Len(txs) /\ DOMAIN txs' = DOMAIN txs
        /\ txs'[hash].st = st
        /\ \A i \in DOMAIN txs :
              /\ txs'[i].kind = txs[i].kind /\ txs'[i].env = txs[i].env
              /\ txs'[i].feed = txs[i].feed /\ txs'[i].nonce = txs[i].nonce
              /\ txs'[i].fee = txs[i].fee /\ txs'[i].here = txs[i].here
              /\ i # hash => txs'[i].st = txs[i].st
    BY <1>1, Decided
  <2>4. latest' >= latest
    BY <1>1, <1>2
  <2> QED BY <1>1, <1>2, <2>1, <2>2, <2>3, <2>4 DEF MovesOn
<1> QED BY <1>1, <1>3, MoveStep

LEMMA ElsewhereStep ==
    ASSUME SetupInv, Elsewhere
    PROVE  SetupInv'
<1>1. /\ TypeOK /\ TxsOK /\ latest < MaxNonce /\ latest' = latest + 1
      /\ UNCHANGED <<record, refreshed, tab, txs, proof, config>>
  BY DEF SetupInv, Elsewhere
<1>2. latest \in Nat /\ latest' \in 0 .. MaxNonce + 1
  BY <1>1, BoundsAssumption DEF TypeOK
<1>3. MovesOn
  <2>1. \A i \in DOMAIN txs : txs[i].st \in {"mined", "reverted"} => txs[i].nonce < latest + 1
    BY <1>1, <1>2, TxOf, BoundsAssumption DEF TxsOK, Settled, Nonces
  <2> QED BY <1>1, <1>2, <2>1 DEF MovesOn, TypeOK
<1> QED BY <1>1, <1>3, MoveStep

-----------------------------------------------------------------------------
\* The invariant and what it means.

\* Pages that have loaded, before any request of theirs.
LEMMA StartOK ==
    ASSUME Init, record \in Record, txs \in Seq(Tx), Len(txs) <= MaxTx,
           latest \in 0 .. MaxNonce + 1
    PROVE  TypeOK /\ AllOK /\ EvidenceOK
<1>1. \A t \in Tabs : tab[t] \in Tab /\ Resting(tab[t]) /\ tab[t].proof = NoHash
  BY LoadedIs DEF Init
<1>2. TypeOK
  BY <1>1, NoRecordIs DEF Init, TypeOK, Resting
<1>3. AllOK
  BY <1>1, <1>2, RestingOK DEF AllOK, Real
<1>4. EvidenceOK
  BY DEF Init, EvidenceOK, Real
<1> QED BY <1>2, <1>3, <1>4

LEMMA SetupInit == Init => SetupInv
<1> SUFFICES ASSUME Init PROVE SetupInv
  OBVIOUS
<1> DEFINE first == Deployment(0, Limit)
<1>1. /\ first \in Tx /\ first.kind = "deploy" /\ first.nonce = 0 /\ first.fee = Limit
      /\ first.here /\ first.st = "asked" /\ 0 \in Nonces /\ Limit <= Balance
  <2>1. 0 \in Nonces /\ Limit \in Nat /\ Limit <= Balance
    BY BoundsAssumption DEF Nonces, Limit, Balance
  <2> QED BY <2>1, DeploymentIs
<1>2. /\ 1 \in Hashes /\ NoNonce # 0
      /\ 0 \in 0 .. MaxNonce + 1 /\ 1 \in 0 .. MaxNonce + 1
  BY BoundsAssumption DEF Hashes, NoNonce
<1> HIDE DEF first
<1>3. CASE txs = <<>> /\ latest = 0 /\ record = NoRecord
  <2>1. /\ record \in Record /\ txs \in Seq(Tx) /\ Len(txs) <= MaxTx
        /\ latest \in 0 .. MaxNonce + 1 /\ DOMAIN txs = {}
    BY <1>2, <1>3, NoRecordIs, BoundsAssumption
  <2>2. TypeOK /\ AllOK /\ EvidenceOK
    BY <2>1, StartOK
  <2>3. TxsOK /\ RecordOK /\ RefreshLocked /\ Affordable
    BY <1>3, <2>1, NoRecordIs DEF TxsOK, RecordOK, OneDeployment, DeploymentLocked, OldOnes,
                                  RefreshLocked, Affordable, HereDeployments
  <2> QED BY <2>2, <2>3 DEF SetupInv
<1>4. CASE /\ txs = <<[first EXCEPT !.here = FALSE, !.st = "mined"]>>
           /\ latest = 1 /\ record \in {NoRecord, Rec("LEGACY_SUBMITTED", NoNonce, 1)}
  <2> DEFINE x == [first EXCEPT !.here = FALSE, !.st = "mined"]
  <2>1. x \in Tx /\ x.kind = "deploy" /\ x.nonce = 0 /\ ~x.here /\ x.st = "mined"
    BY <1>1 DEF Tx
  <2>2. txs = <<x>>
    BY <1>4
  <2> HIDE DEF x
  <2>3. /\ txs \in Seq(Tx) /\ Len(txs) <= MaxTx /\ DOMAIN txs = {1} /\ txs[1] = x
        /\ latest \in 0 .. MaxNonce + 1
    BY <1>2, <1>4, <2>1, <2>2, BoundsAssumption
  <2>4. record \in Record /\ record.nonce = NoNonce /\ record.st # "VERIFIED"
    BY <1>2, <1>4, NoRecordIs, RecIs
  <2>5. TypeOK /\ AllOK /\ EvidenceOK
    BY <2>3, <2>4, StartOK
  <2>6. TxsOK /\ RecordOK /\ RefreshLocked /\ Affordable
    <3>1. HereDeployments = {}
      BY <2>1, <2>3 DEF HereDeployments
    <3>2. TxsOK
      <4>1. latest = 1 /\ txs[1].nonce = 0 /\ txs[1].kind = "deploy" /\ Settled(1)
        BY <1>4, <2>1, <2>3 DEF Settled
      <4> QED BY <2>3, <4>1 DEF TxsOK
    <3>3. RecordOK
      BY <1>2, <2>1, <2>3, <2>4, <3>1 DEF RecordOK, OneDeployment, DeploymentLocked, OldOnes
    <3>4. RefreshLocked /\ Affordable
      BY <2>1, <2>3, <3>1 DEF RefreshLocked, Affordable
    <3> QED BY <3>2, <3>3, <3>4
  <2> QED BY <2>5, <2>6 DEF SetupInv
<1>5. ASSUME NEW st \in {"asked", "live"}, txs = <<[first EXCEPT !.st = st]>>,
             latest = 0, record = Rec("LEGACY_REQUESTED", NoNonce, NoHash)
      PROVE  SetupInv
  <2> DEFINE x == [first EXCEPT !.st = st]
  <2>1. x \in Tx /\ x.kind = "deploy" /\ x.nonce = 0 /\ x.here /\ x.st = st /\ x.fee = Limit
    BY <1>1 DEF Tx
  <2>2. txs = <<x>>
    BY <1>5
  <2> HIDE DEF x
  <2>3. /\ txs \in Seq(Tx) /\ Len(txs) <= MaxTx /\ DOMAIN txs = {1} /\ txs[1] = x
        /\ latest \in 0 .. MaxNonce + 1
    BY <1>2, <1>5, <2>1, <2>2, BoundsAssumption
  <2>4. record \in Record /\ record.nonce = NoNonce /\ record.st # "VERIFIED" /\ record # NoRecord
    BY <1>5, RecIs, RecNotNone
  <2>5. TypeOK /\ AllOK /\ EvidenceOK
    BY <2>3, <2>4, StartOK
  <2>6. TxsOK /\ RecordOK /\ RefreshLocked /\ Affordable
    BY <1>1, <1>2, <1>5, <2>1, <2>3, <2>4 DEF TxsOK, Settled, RecordOK, OneDeployment,
        DeploymentLocked, OldOnes, RefreshLocked, Affordable, HereDeployments, IsDeployment
  <2> QED BY <2>5, <2>6 DEF SetupInv
<1> QED BY <1>3, <1>4, <1>5 DEF Init, first

LEMMA SetupStep == SetupInv /\ [Next]_vars => SetupInv'
<1> SUFFICES ASSUME SetupInv, [Next]_vars PROVE SetupInv'
  OBVIOUS
<1>1. ASSUME NEW t \in Tabs, ReviewDeployment(t) PROVE SetupInv'
  BY <1>1, ReviewDeploymentStep
<1>2. ASSUME NEW t \in Tabs, ReviewRetry(t) PROVE SetupInv'
  BY <1>2, ReviewRetryStep
<1>3. ASSUME NEW t \in Tabs, Abandon(t) PROVE SetupInv'
  BY <1>3, EndStep DEF Abandon
<1>4. ASSUME NEW t \in Tabs, AnswerRejected(t) PROVE SetupInv'
  BY <1>4, AnswerRejectedStep
<1>5. ASSUME NEW t \in Tabs, AnswerUncertain(t) PROVE SetupInv'
  BY <1>5, EndStep DEF AnswerUncertain
<1>6. ASSUME NEW t \in Tabs, FinishVerify(t) PROVE SetupInv'
  BY <1>6, FinishVerifyStep
<1>7. ASSUME NEW t \in Tabs, VerifyFails(t) PROVE SetupInv'
  BY <1>7, EndStep DEF VerifyFails
<1>8. ASSUME NEW t \in Tabs, InvalidateProof(t) \/ Load(t) PROVE SetupInv'
  BY <1>8, ForgetStep
<1>9. ASSUME NEW t \in Tabs, Export(t) PROVE SetupInv'
  BY <1>9, ServiceStep DEF Export
<1>10. ASSUME NEW t \in Tabs, RefreshRejected(t) PROVE SetupInv'
  BY <1>10, RefreshRejectedStep
<1>11. ASSUME NEW t \in Tabs, NEW outcome \in Outcomes, AskDeployment(t, outcome) PROVE SetupInv'
  BY <1>11, AskDeploymentStep
<1>12. ASSUME NEW t \in Tabs, NEW outcome \in Outcomes, AskRetry(t, outcome) PROVE SetupInv'
  BY <1>12, AskRetryStep
<1>13. ASSUME NEW t \in Tabs, NEW outcome \in Outcomes, AnswerHash(t, outcome) PROVE SetupInv'
  BY <1>13, AnswerHashStep
<1>14. ASSUME NEW t \in Tabs, NEW outcome \in Outcomes, RetryRejected(t, outcome) PROVE SetupInv'
  BY <1>14, RetryRejectedStep
<1>15. ASSUME NEW t \in Tabs, NEW outcome \in Outcomes, AskRefresh(t, outcome) PROVE SetupInv'
  BY <1>15, AskRefreshStep
<1>16. ASSUME NEW t \in Tabs, NEW outcome \in Outcomes, RefreshHash(t, outcome) PROVE SetupInv'
  BY <1>16, RefreshHashStep
<1>17. ASSUME NEW t \in Tabs, NEW feed \in Feeds, ReviewRefresh(t, feed) PROVE SetupInv'
  BY <1>17, ReviewRefreshStep
<1>18. ASSUME NEW t \in Tabs, NEW feed \in Feeds, NEW hash \in DOMAIN txs,
              VerifyRefresh(t, feed, hash)
       PROVE  SetupInv'
  BY <1>18, VerifyRefreshStep
<1>19. ASSUME NEW t \in Tabs, NEW hash \in DOMAIN txs, BeginVerify(t, hash) PROVE SetupInv'
  BY <1>19, BeginVerifyStep
<1>20. ASSUME NEW hash \in DOMAIN txs, NEW st \in {"live", "rejected"}, Decide(hash, st)
       PROVE  SetupInv'
  BY <1>20, DecideStep
<1>21. ASSUME NEW hash \in DOMAIN txs, NEW st \in {"mined", "reverted"}, Mine(hash, st)
       PROVE  SetupInv'
  BY <1>21, MineStep
<1>22. CASE ServiceForgets
  BY <1>22, ServiceStep DEF ServiceForgets
<1>23. CASE Elsewhere
  BY <1>23, ElsewhereStep
<1>24. CASE UNCHANGED vars
  BY <1>24, ServiceStep DEF vars
<1> QED BY <1>1, <1>2, <1>3, <1>4, <1>5, <1>6, <1>7, <1>8, <1>9, <1>10, <1>11, <1>12, <1>13,
           <1>14, <1>15, <1>16, <1>17, <1>18, <1>19, <1>20, <1>21, <1>22, <1>23, <1>24 DEF Next

\* The inductive invariant holds in every reachable state.
THEOREM SetupInvariant == Spec => []SetupInv
BY SetupInit, SetupStep, PTL DEF Spec

\* Every variable keeps its type, and however many tabs are open at most one of
\* them is asking the wallet.
THEOREM SetupTypeCorrect == Spec => []TypeOK
<1>1. SetupInv => TypeOK
  BY DEF SetupInv
<1> QED BY <1>1, SetupInvariant, PTL

\* However many tabs ask, retry, verify and reload, the deployment requests of
\* this browser that the owner has not rejected all carry one nonce.
THEOREM SetupOneDeployment == Spec => []OneDeployment
<1>1. SetupInv => OneDeployment
  BY DEF SetupInv, RecordOK
<1> QED BY <1>1, SetupInvariant, PTL

\* While such a request exists localStorage holds a record that is not at
\* another nonce, so no reload and no failed write frees the deploy button.
THEOREM SetupDeploymentLocked == Spec => []DeploymentLocked
<1>1. SetupInv => DeploymentLocked
  BY DEF SetupInv, RecordOK
<1> QED BY <1>1, SetupInvariant, PTL

\* A refresh that may still be mined keeps its feed's record at its nonce.
THEOREM SetupRefreshLocked == Spec => []RefreshLocked
<1>1. SetupInv => RefreshLocked
  BY DEF SetupInv
<1> QED BY <1>1, SetupInvariant, PTL

\* Whichever endpoint lies, what a tab, the record, the service and the saved
\* configuration take for an environment is one that the chain has.
THEOREM SetupEvidenceIsReal == Spec => []EvidenceIsReal
<1>1. SetupInv => EvidenceIsReal
  BY DEF SetupInv, AllOK, TabOK, RecordOK, EvidenceOK, Real, EvidenceIsReal
<1> QED BY <1>1, SetupInvariant, PTL

\* No deployment costs more than the balance an honest endpoint reports.
THEOREM SetupAffordable == Spec => []Affordable
<1>1. SetupInv => Affordable
  BY DEF SetupInv
<1> QED BY <1>1, SetupInvariant, PTL

\* The configuration is written once, for an environment that a tab shows.
THEOREM SetupConfigIsReviewed == Spec => ConfigIsReviewed
<1>1. ASSUME [Next]_vars
      PROVE  [config' # config => config = NoHash /\ \E t \in Tabs : tab[t].proof = config']_vars
  <2>1. ASSUME NEW t \in Tabs, Export(t)
        PROVE  config = NoHash /\ tab[t].proof = config'
    BY <2>1 DEF Export, Usable, SameEnvironment
  <2>2. ASSUME NEW t \in Tabs,
               \/ ReviewDeployment(t) \/ ReviewRetry(t) \/ Abandon(t) \/ AnswerRejected(t)
               \/ AnswerUncertain(t) \/ FinishVerify(t) \/ VerifyFails(t) \/ InvalidateProof(t)
               \/ RefreshRejected(t) \/ Load(t)
        PROVE  UNCHANGED config
    BY <2>2 DEF ReviewDeployment, ReviewRetry, Abandon, AnswerRejected, AnswerUncertain,
                FinishVerify, VerifyFails, InvalidateProof, RefreshRejected, Load
  <2>3. ASSUME NEW t \in Tabs, NEW outcome \in Outcomes,
               \/ AskDeployment(t, outcome) \/ AskRetry(t, outcome) \/ AnswerHash(t, outcome)
               \/ RetryRejected(t, outcome) \/ AskRefresh(t, outcome) \/ RefreshHash(t, outcome)
        PROVE  UNCHANGED config
    BY <2>3 DEF AskDeployment, AskRetry, AnswerHash, RetryRejected, AskRefresh, RefreshHash
  <2>4. ASSUME NEW t \in Tabs, NEW feed \in Feeds, ReviewRefresh(t, feed)
        PROVE  UNCHANGED config
    BY <2>4 DEF ReviewRefresh
  <2>5. ASSUME NEW t \in Tabs, NEW feed \in Feeds, NEW hash \in DOMAIN txs,
               VerifyRefresh(t, feed, hash)
        PROVE  UNCHANGED config
    BY <2>5 DEF VerifyRefresh
  <2>6. ASSUME NEW hash \in DOMAIN txs, NEW st, Decide(hash, st) \/ Mine(hash, st)
        PROVE  UNCHANGED config
    BY <2>6 DEF Decide, Mine
  <2>7. ASSUME ServiceForgets \/ Elsewhere \/ UNCHANGED vars PROVE UNCHANGED config
    BY <2>7 DEF ServiceForgets, Elsewhere, vars
  <2>8. ASSUME NEW t \in Tabs, NEW hash \in DOMAIN txs, BeginVerify(t, hash)
        PROVE  UNCHANGED config
    BY <2>8 DEF BeginVerify
  <2> QED BY <1>1, <2>1, <2>2, <2>3, <2>4, <2>5, <2>6, <2>7, <2>8 DEF Next
<1> QED BY <1>1, PTL DEF Spec, ConfigIsReviewed
=============================================================================
