--------------------------- MODULE SubmissionGuard ---------------------------
(***************************************************************************)
(* The console's submission guard (src/site/bsc/submission.js, called from *)
(* site/bsc/app.js): several tabs of one browser share a wallet, a Web     *)
(* Lock per vault and one localStorage record, the marker of the request   *)
(* the wallet was last asked to sign.  The guard must never let the user   *)
(* hold two requests that can both still trade, although tabs close,       *)
(* storage fails, wallets answer late or never and proofs arrive in        *)
(* another tab than the one that asked.                                    *)
(*                                                                         *)
(* What JavaScript runs between two awaits is one step.  A tab's own state *)
(* is its copy of the marker ("memory") and the request it awaits; it      *)
(* holds the lock exactly while it awaits one.                             *)
(***************************************************************************)
EXTENDS Integers, Sequences, FiniteSets

CONSTANTS
    Tab,
    None,             \* no marker: storage.getItem returned null
    NoHash,           \* a marker whose transaction hash is unknown
    PlanLife,         \* seconds from a plan to its deadline
    MaxTime,          \* bounds of the model: seconds, vault nonces and
    MaxNonce,         \* requests to the wallet
    MaxRequests

ASSUME BoundsAssumption ==
    /\ PlanLife \in Nat /\ MaxTime \in Nat /\ MaxNonce \in Nat
    /\ MaxRequests \in Nat \ {0}

Elsewhere == 0        \* the hash of a transaction no tab of this browser sent
Unusable == -1        \* an answer of the wallet that is not a hash

Plan == [nonce: Nat, deadline: Nat]
Hash == 0 .. MaxRequests
Marker == [plan: Plan, hash: Hash \cup {NoHash}]
Request == [plan: Plan, state: {"open", "sent", "rejected", "executed"}]

ASSUME NamesAssumption == None \notin Marker /\ NoHash \notin Int

VARIABLES
    stored,      \* localStorage: the marker of this vault, or None
    memory,      \* memory[t]: the tab's own copy, lost when it closes
    awaits,      \* awaits[t]: the wallet request tab t waits for, 0 if none
    wallet,      \* requests the wallet was asked to sign
    nonce, time, \* the vault's execution nonce and the chain's clock
    issued,      \* plans in the runner's journal
    elsewhere    \* plans executed by a transaction of another device

tabVars == <<stored, memory, awaits>>
chainVars == <<nonce, time, issued, elsewhere>>
vars == <<tabVars, wallet, chainVars>>

-----------------------------------------------------------------------------
\* Faulty variant: the tab trusts its own copy and never looks at storage.
ReadMemoryOnly(t) == memory[t]

\* The stored marker, unless the tab knows the hash of the same plan: its own
\* write of the hash may have failed.
Read(t) ==
    IF stored = None THEN None
    ELSE IF memory[t] # None /\ memory[t].plan = stored.plan /\ memory[t].hash # NoHash
      THEN memory[t] ELSE stored

\* Faulty variant: no Web Lock is taken.
Unlocked == TRUE

\* navigator.locks, ifAvailable: refused at once while any tab awaits a wallet.
LockFree == \A t \in Tab : awaits[t] = 0

\* "write": the tab's copy always changes, the stored one unless storage fails.
Write(t, marker, persists) ==
    /\ memory' = [memory EXCEPT ![t] = marker]
    /\ stored' = IF persists THEN marker ELSE stored

Clear(t) ==
    /\ memory' = [memory EXCEPT ![t] = None]
    /\ stored' = None

\* "submit" up to the await: the marker must be stored before the wallet opens.
\* The session check before the wallet opens may still throw ("opens").
Submit(t, plan, persists, opens) ==
    /\ LockFree
    /\ Read(t) = None
    /\ Write(t, [plan |-> plan, hash |-> NoHash], persists)
    /\ IF persists /\ opens
         THEN /\ Len(wallet) < MaxRequests
              /\ wallet' = Append(wallet, [plan |-> plan, state |-> "open"])
              /\ awaits' = [awaits EXCEPT ![t] = Len(wallet) + 1]
         ELSE UNCHANGED <<wallet, awaits>>
    /\ UNCHANGED chainVars

Returns(t) == awaits[t] # 0 /\ awaits' = [awaits EXCEPT ![t] = 0]

\* Faulty variant: whatever the wallet returns is stored as the hash.
UsableAnything(hash) == TRUE

Usable(hash) == hash \in Hash

\* The wallet returned a value: a usable hash joins the marker of the plan that
\* was submitted, whatever storage holds by now.
AnswerHash(t, hash, persists) ==
    LET request == wallet[awaits[t]] IN
    /\ Returns(t)
    /\ hash = awaits[t] => request.state \in {"sent", "executed"}
    /\ IF Usable(hash)
         THEN Write(t, [plan |-> request.plan, hash |-> hash], persists)
         ELSE UNCHANGED <<stored, memory>>
    /\ UNCHANGED <<wallet, chainVars>>

\* Faulty variant: any wallet error clears the marker.
ClearsOnAny(explicit) == TRUE

\* Only error code 4001 clears the marker.
ClearsOn(explicit) == explicit

\* The wallet failed: an explicit rejection, or an error that says nothing of
\* what the user may still approve.
AnswerError(t, explicit) ==
    /\ Returns(t)
    /\ explicit => wallet[awaits[t]].state = "rejected"
    /\ IF ClearsOn(explicit) THEN Clear(t) ELSE UNCHANGED <<stored, memory>>
    /\ UNCHANGED <<wallet, chainVars>>

\* "rememberHash", which takes no lock: the user pastes a hash for the plan.
RememberHash(t, hash, persists) ==
    /\ awaits[t] = 0
    /\ Read(t) # None
    /\ Read(t).hash \in {NoHash, hash}
    /\ Write(t, [Read(t) EXCEPT !.hash = hash], persists)
    /\ UNCHANGED <<awaits, wallet, chainVars>>

\* The runner stored a VERIFIED receipt of this plan for this transaction.
Proved(plan, hash) ==
    \/ hash \in 1 .. Len(wallet) /\ wallet[hash] = [plan |-> plan, state |-> "executed"]
    \/ hash = Elsewhere /\ plan \in elsewhere

\* "acceptProof", which takes no lock either.
AcceptProof(t) ==
    /\ awaits[t] = 0
    /\ Read(t) # None
    /\ Proved(Read(t).plan, Read(t).hash)
    /\ Clear(t)
    /\ UNCHANGED <<awaits, wallet, chainVars>>

\* Faulty variant: only a consumed nonce ends a plan.
EndedByNonce(plan) == nonce > plan.nonce

Ended(plan) == nonce > plan.nonce \/ time > plan.deadline

\* "releaseExpired", on a snapshot taken before: what it shows only grows.
ReleaseExpired(t) ==
    /\ LockFree
    /\ Read(t) # None
    /\ Ended(Read(t).plan)
    /\ Clear(t)
    /\ UNCHANGED <<awaits, wallet, chainVars>>

\* A closed or reloaded tab loses its copy and the browser frees its lock.
CloseTab(t) ==
    /\ memory[t] # None \/ awaits[t] # 0
    /\ memory' = [memory EXCEPT ![t] = None]
    /\ awaits' = [awaits EXCEPT ![t] = 0]
    /\ UNCHANGED <<stored, wallet, chainVars>>

-----------------------------------------------------------------------------
(* The wallet, the runner and the vault, outside the guard. *)

\* The user may decide long after the tab that asked is gone.
Decide(i, decision) ==
    /\ wallet[i].state = "open"
    /\ wallet' = [wallet EXCEPT ![i].state = decision]
    /\ UNCHANGED <<tabVars, chainVars>>

\* AgentGuardVault.rebalance: the plan's nonce, at or before its deadline.
Executable(plan) == plan.nonce = nonce /\ time <= plan.deadline

Execute(i) ==
    /\ wallet[i].state = "sent" /\ Executable(wallet[i].plan)
    /\ wallet' = [wallet EXCEPT ![i].state = "executed"]
    /\ nonce' = nonce + 1
    /\ UNCHANGED <<tabVars, time, issued, elsewhere>>

ExecuteElsewhere(plan) ==
    /\ Executable(plan)
    /\ elsewhere' = elsewhere \cup {plan}
    /\ nonce' = nonce + 1
    /\ UNCHANGED <<tabVars, wallet, time, issued>>

IssuePlan ==
    /\ time + PlanLife < MaxTime /\ nonce < MaxNonce
    /\ issued' = issued \cup {[nonce |-> nonce, deadline |-> time + PlanLife]}
    /\ UNCHANGED <<tabVars, wallet, nonce, time, elsewhere>>

Tick ==
    /\ time < MaxTime
    /\ time' = time + 1
    /\ UNCHANGED <<tabVars, wallet, nonce, issued, elsewhere>>

-----------------------------------------------------------------------------
Init ==
    /\ stored = None
    /\ memory = [t \in Tab |-> None]
    /\ awaits = [t \in Tab |-> 0]
    /\ wallet = <<>>
    /\ nonce = 0 /\ time = 0
    /\ issued = {} /\ elsewhere = {}

Answer(t) ==
    \/ \E hash \in {awaits[t], Unusable}, persists \in BOOLEAN : AnswerHash(t, hash, persists)
    \/ \E explicit \in BOOLEAN : AnswerError(t, explicit)

TabStep(t) ==
    \/ \E plan \in issued, persists, opens \in BOOLEAN : Submit(t, plan, persists, opens)
    \/ Answer(t)
    \/ \E hash \in 0 .. Len(wallet), persists \in BOOLEAN : RememberHash(t, hash, persists)
    \/ AcceptProof(t)
    \/ ReleaseExpired(t)
    \/ CloseTab(t)

Outside ==
    \/ \E i \in 1 .. Len(wallet) :
          Execute(i) \/ \E decision \in {"sent", "rejected"} : Decide(i, decision)
    \/ \E plan \in issued : ExecuteElsewhere(plan)
    \/ IssuePlan
    \/ Tick

Next == (\E t \in Tab : TabStep(t)) \/ Outside

Spec == Init /\ [][Next]_vars

\* Time passes, a dialog is answered or its tab is closed in the end, and a user
\* with an open tab keeps pressing "release".
Fairness ==
    /\ WF_vars(Tick)
    /\ \A t \in Tab : WF_vars(Answer(t) \/ CloseTab(t))
    /\ WF_vars(\E t \in Tab : ReleaseExpired(t))

FairSpec == Spec /\ Fairness

-----------------------------------------------------------------------------
\* The type invariant of the tabs, the wallet and the chain (submission.js).
TypeOK ==
    /\ stored \in Marker \cup {None}
    /\ memory \in [Tab -> Marker \cup {None}]
    /\ awaits \in [Tab -> 0 .. Len(wallet)]
    /\ wallet \in Seq(Request) /\ Len(wallet) <= MaxRequests
    /\ nonce \in Nat /\ time \in Nat
    /\ issued \subseteq Plan /\ elsewhere \subseteq issued

\* Requests the user can still approve, or the network mine, into a trade.
Live == {i \in 1 .. Len(wallet) :
            wallet[i].state \in {"open", "sent"} /\ Executable(wallet[i].plan)}

\* Whatever tabs do, at most one wallet request can still trade.
NoSecondLiveRequest == \A i, k \in Live : i = k

\* A request that can still trade is never forgotten: storage holds the marker
\* of its plan, whichever tab asked, closed, failed to write or saw the proof.
LiveRequestIsMarked ==
    \A i \in Live : stored # None /\ stored.plan = wallet[i].plan

\* A hash once saved for the submitted plan is replaced by nothing but the
\* wallet's own answer: recovered hashes never silently switch transactions.
SavedHashKept ==
    [][(stored # None /\ stored' # None) =>
          (stored.plan = stored'.plan /\ stored.hash \notin {NoHash, stored'.hash}
              => \E t \in Tab : awaits[t] = stored'.hash /\ awaits'[t] = 0)]_vars

\* No marker locks the vault's users out for ever: it is cleared in the end,
\* even if the dialog was lost, the hash never known or a wrong one was pasted.
MarkersResolve == stored # None ~> stored = None
=============================================================================
