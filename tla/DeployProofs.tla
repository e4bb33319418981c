---------------------------- MODULE DeployProofs ----------------------------
(***************************************************************************)
(* The deployment console's promises for any number of requests.           *)
(*                                                                         *)
(* Any number of tabs: a deployment is asked for only after a readiness    *)
(* check that was true (ReadyInv).  It is inductive because each tab is    *)
(* sound on its own: the request a tab awaits exists and is of the kind    *)
(* its handler runs for, and the proofs it shows are mined requests.       *)
(*                                                                         *)
(* One tab, with reloads: the marker covers every request the owner has    *)
(* not rejected, and there is at most one of a kind (LockInv).  This needs *)
(* what the page remembers beside the marker: a button is offered only     *)
(* without a marker, and while a request is out all others of its kind are *)
(* rejected, so that its rejection may take the marker away.  The theorems *)
(* say "one tab" as a hypothesis: two tabs do not see each other's marker. *)
(***************************************************************************)
EXTENDS DeployConsole, SequenceTheorems, TLAPS

\* What a tab may remember.  Its steps are those of a handler; the request it
\* awaits exists, is of its kind and flagged; a deployment about to be asked
\* for was checked; its proofs name requests that the chain has executed.
TabSound(state) ==
    /\ state.job = "idle" => state.step = "checking"
    /\ state.step = "asked" =>
          /\ state.tx \in DOMAIN requests
          /\ requests[state.tx].kind = state.job
          /\ state.attempted[state.job]
    /\ (state.job = "deploy" /\ state.step = "ready") => state.sound
    /\ \A k \in Kinds : state.proof[k] # NoHash =>
          /\ state.proof[k] \in DOMAIN requests
          /\ requests[state.proof[k]].st = "mined" /\ requests[state.proof[k]].kind = k

AllSound == \A t \in Tabs : TabSound(tab[t])

ReadyInv == TypeOK /\ AllSound /\ AskedWhenReady

\* Request 'hash' is the only one of its kind that the owner has not rejected.
OthersRejected(hash) ==
    \A other \in DOMAIN requests \ {hash} :
        requests[other].kind = requests[hash].kind => requests[other].st = "rejected"

\* A page that can read its storage offers a button only without a marker;
\* while it has a request out, all others of that kind are rejected.
TabKnows(state) ==
    /\ \A k \in Kinds : (state.storage /\ ~state.attempted[k]) => marker[k] = NoMarker
    /\ (state.job # "idle" /\ state.step # "asked") => ~state.attempted[state.job]
    /\ state.step = "asked" => state.storage /\ OthersRejected(state.tx)

AllKnow == \A t \in Tabs : TabKnows(tab[t])

LockInv == ReadyInv /\ AllKnow /\ UncertainStaysLocked /\ OneRequestOut

-----------------------------------------------------------------------------
\* A tab's new state, and nothing else of the tabs, is what Become says.
LEMMA BecomeIs ==
    ASSUME TypeOK, NEW t \in Tabs, NEW state \in Tab, Become(t, state)
    PROVE  /\ tab' \in [Tabs -> Tab] /\ tab'[t] = state
           /\ \A u \in Tabs : u # t => tab'[u] = tab[u]
BY DEF Become, TypeOK

\* The end of a handler leaves what the page shows and knows.
LEMMA IdleIs ==
    ASSUME TypeOK, NEW t \in Tabs
    PROVE  /\ Idle(t) \in Tab
           /\ Idle(t).job = "idle" /\ Idle(t).step = "checking"
           /\ Idle(t).attempted = tab[t].attempted /\ Idle(t).proof = tab[t].proof
           /\ Idle(t).storage = tab[t].storage
<1>1. tab[t] \in Tab
  BY DEF TypeOK
<1> QED BY <1>1 DEF Idle, Tab

LEMMA ShowIs ==
    ASSUME TypeOK, NEW t \in Tabs, NEW state \in {"none", "READY", "BLOCKED", "EXPIRED"}
    PROVE  LET new == [tab[t] EXCEPT !.preflight = state]
           IN  /\ new \in Tab
               /\ new.job = tab[t].job /\ new.step = tab[t].step /\ new.tx = tab[t].tx
               /\ new.sound = tab[t].sound
               /\ new.attempted = tab[t].attempted /\ new.proof = tab[t].proof
               /\ new.storage = tab[t].storage
<1>1. tab[t] \in Tab
  BY DEF TypeOK
<1> QED BY <1>1 DEF Tab

LEMMA FlaggedIs ==
    ASSUME TypeOK, NEW t \in Tabs, NEW hash \in Hashes, tab[t].job # "idle"
    PROVE  LET new == [Flagged(t) EXCEPT !.step = "asked", !.tx = hash]
           IN  /\ new \in Tab
               /\ new.job = tab[t].job /\ new.step = "asked" /\ new.tx = hash
               /\ new.sound = tab[t].sound
               /\ new.attempted = [tab[t].attempted EXCEPT ![tab[t].job] = TRUE]
               /\ new.proof = tab[t].proof
               /\ new.storage = tab[t].storage
<1>1. tab[t] \in Tab
  BY DEF TypeOK
<1> QED BY <1>1 DEF Tab, Flagged, Kinds

\* A tab that shows other proofs and has made other attempts.
Verified(t, proofs, attempts) == [tab[t] EXCEPT !.proof = proofs, !.attempted = attempts]

LEMMA VerifiedIs ==
    ASSUME TypeOK, NEW t \in Tabs, NEW proofs \in [Kinds -> Hashes \cup {NoHash}],
           NEW attempts \in [Kinds -> BOOLEAN]
    PROVE  LET new == Verified(t, proofs, attempts)
           IN  /\ new \in Tab
               /\ new.job = tab[t].job /\ new.step = tab[t].step /\ new.tx = tab[t].tx
               /\ new.sound = tab[t].sound /\ new.storage = tab[t].storage
               /\ new.proof = proofs /\ new.attempted = attempts
<1>1. tab[t] \in Tab
  BY DEF TypeOK
<1> QED BY <1>1 DEF Tab, Verified

\* What a verdict changes: the proof, and with VERIFIED the attempts and
\* perhaps the marker, which the page then knows of.
LEMMA VerifyBecomes ==
    ASSUME TypeOK, NEW t \in Tabs, NEW k \in Kinds, NEW hash \in Hashes, NEW saves \in BOOLEAN,
           Verify(t, k, hash, saves)
    PROVE  \/ /\ Become(t, [tab[t] EXCEPT !.proof[k] = NoHash])
              /\ UNCHANGED marker
           \/ /\ "VERIFIED" \in Verdicts(hash, k)
              /\ \E attempts \in [Kinds -> BOOLEAN], value \in {marker[k], hash} :
                    /\ Become(t, Verified(t, [tab[t].proof EXCEPT ![k] = hash], attempts))
                    /\ marker' = [marker EXCEPT ![k] = value]
                    /\ value = marker[k] \/ attempts[k]
                    /\ \A j \in Kinds : tab[t].attempted[j] => attempts[j]
<1>1. tab[t] \in Tab
  BY DEF TypeOK
<1> DEFINE flag == tab[t].attempted[k] \/ saves \/ k = "register"
           attempts == [tab[t].attempted EXCEPT ![k] = flag]
           value == IF saves THEN hash ELSE marker[k]
<1>2. /\ flag \in BOOLEAN
      /\ saves => flag
      /\ tab[t].attempted[k] => flag
  OBVIOUS
<1>3. \/ /\ "VERIFIED" \in Verdicts(hash, k)
         /\ Become(t, [tab[t] EXCEPT !.proof[k] = hash, !.attempted[k] = flag])
         /\ marker' = [marker EXCEPT ![k] = value]
      \/ /\ Become(t, [tab[t] EXCEPT !.proof[k] = NoHash])
         /\ UNCHANGED marker
  BY DEF Verify
<1> HIDE DEF flag
<1>4. [tab[t] EXCEPT !.proof[k] = hash, !.attempted[k] = flag]
        = Verified(t, [tab[t].proof EXCEPT ![k] = hash], attempts)
  BY <1>1 DEF Verified, Tab
<1>5. attempts \in [Kinds -> BOOLEAN]
  BY <1>1, <1>2 DEF Tab
<1>6. attempts[k] = flag /\ \A j \in Kinds \ {k} : attempts[j] = tab[t].attempted[j]
  BY <1>1 DEF Tab
<1> HIDE DEF attempts
<1>7. \A j \in Kinds : tab[t].attempted[j] => attempts[j]
  BY <1>2, <1>6
<1>8. value \in {marker[k], hash} /\ (value = marker[k] \/ saves)
  OBVIOUS
<1>9. value = marker[k] \/ attempts[k]
  BY <1>2, <1>6, <1>8
<1> HIDE DEF value
<1> QED BY <1>3, <1>4, <1>5, <1>7, <1>8, <1>9

LEMMA UnprovedIs ==
    ASSUME TypeOK, NEW t \in Tabs, NEW k \in Kinds
    PROVE  LET new == [tab[t] EXCEPT !.proof[k] = NoHash]
           IN  /\ new \in Tab
               /\ new.job = tab[t].job /\ new.step = tab[t].step /\ new.tx = tab[t].tx
               /\ new.sound = tab[t].sound /\ new.storage = tab[t].storage
               /\ new.attempted = tab[t].attempted
               /\ new.proof = [tab[t].proof EXCEPT ![k] = NoHash]
<1>1. tab[t] \in Tab
  BY DEF TypeOK
<1> QED BY <1>1 DEF Tab

LEMMA RejectedIs ==
    ASSUME TypeOK, NEW t \in Tabs, NEW k \in Kinds, NEW removed \in BOOLEAN
    PROVE  LET new == [Idle(t) EXCEPT !.attempted[k] = ~removed]
           IN  /\ new \in Tab
               /\ new.job = "idle" /\ new.step = "checking"
               /\ new.storage = tab[t].storage /\ new.proof = tab[t].proof
               /\ new.attempted = [tab[t].attempted EXCEPT ![k] = ~removed]
<1> DEFINE flag == ~removed
<1>1. Idle(t) \in Tab /\ flag \in BOOLEAN
  BY IdleIs
<1> HIDE DEF flag
<1>2. LET new == [Idle(t) EXCEPT !.attempted[k] = flag]
      IN  /\ new \in Tab
          /\ new.job = Idle(t).job /\ new.step = Idle(t).step
          /\ new.storage = Idle(t).storage /\ new.proof = Idle(t).proof
          /\ new.attempted = [Idle(t).attempted EXCEPT ![k] = flag]
  BY <1>1 DEF Tab
<1>3. flag = ~removed
  BY DEF flag
<1> QED BY <1>2, <1>3, IdleIs

-----------------------------------------------------------------------------
\* What the service's answers are worth.

\* READY needs both endpoints, and at most the primary lies.
LEMMA ReadyIsTrue ==
    ASSUME "READY" \in DeploymentPreflight
    PROVE  Failing(broken) = {}
<1>1. PICK a \in InspectDeployment("primary"), b \in InspectDeployment("independent") :
          ReadyBoth(a, b)
  BY DEF DeploymentPreflight
<1>2. InspectDeployment("independent") = {Failing(broken)}
  BY FaultAssumption DEF InspectDeployment
<1> QED BY <1>1, <1>2 DEF ReadyBoth

\* A verified hash is a mined request of its kind.
LEMMA VerifiedIsMined ==
    ASSUME NEW hash, NEW k \in Kinds, "VERIFIED" \in Verdicts(hash, k)
    PROVE  requests[hash].st = "mined" /\ requests[hash].kind = k
<1>1. "VERIFIED" \in Reports("independent", hash, k)
  BY DEF Verdicts, Kinds, VerifyDeployment, VerifyRegistration
<1> DEFINE told ==
         CASE requests[hash].st = "mined" /\ requests[hash].kind = k -> {"VERIFIED"}
           [] requests[hash].st \in {"mined", "reverted"} -> {"MISMATCH"}
           [] OTHER -> {}
<1>2. Reports("independent", hash, k) = {"PENDING"} \cup told
  BY FaultAssumption DEF Reports
<1>3. "VERIFIED" \in told
  BY <1>1, <1>2
<1> QED BY <1>3

-----------------------------------------------------------------------------
\* A step of a tab that leaves it sound keeps the first invariant.
LEMMA TabStep ==
    ASSUME ReadyInv, NEW t \in Tabs, NEW state \in Tab, TabSound(state), Become(t, state),
           marker' \in [Kinds -> Marker], UNCHANGED <<requests, broken>>
    PROVE  ReadyInv'
<1>1. /\ tab' \in [Tabs -> Tab] /\ tab'[t] = state
      /\ \A u \in Tabs : u # t => tab'[u] = tab[u]
  BY BecomeIs DEF ReadyInv
<1>2. \A u \in Tabs : TabSound(tab'[u])
  BY <1>1 DEF ReadyInv, AllSound
<1>3. AllSound'
  BY <1>2 DEF AllSound, TabSound
<1>4. TypeOK'
  BY <1>1, <1>2 DEF ReadyInv, TypeOK, TabSound
<1>5. AskedWhenReady'
  BY DEF ReadyInv, AskedWhenReady
<1> QED BY <1>3, <1>4, <1>5 DEF ReadyInv

LEMMA KindsOf ==
    ASSUME TypeOK, NEW hash \in DOMAIN requests
    PROVE  requests[hash].kind \in Kinds
<1>1. requests[hash] \in Request
  BY DEF TypeOK
<1> QED BY <1>1 DEF Request

\* A wallet's or the chain's decision changes the state of one request.
LEMMA RequestMoves ==
    ASSUME TypeOK, NEW hash \in DOMAIN requests,
           NEW next \in {"rejected", "live", "mined", "reverted"},
           requests' = [requests EXCEPT ![hash].st = next]
    PROVE  /\ requests' \in Seq(Request) /\ Len(requests') = Len(requests)
           /\ DOMAIN requests' = DOMAIN requests
           /\ requests'[hash].st = next
           /\ \A i \in DOMAIN requests :
                 /\ requests'[i].kind = requests[i].kind /\ requests'[i].ready = requests[i].ready
                 /\ i # hash => requests'[i].st = requests[i].st
<1> DEFINE moved == [kind |-> requests[hash].kind, ready |-> requests[hash].ready, st |-> next]
<1>1. requests \in Seq(Request) /\ DOMAIN requests = 1 .. Len(requests)
  BY DEF TypeOK
<1>2. requests[hash] \in Request /\ moved \in Request
  <2>1. requests[hash] \in Request
    BY <1>1
  <2> QED BY <2>1 DEF Request
<1>3. [requests[hash] EXCEPT !.st = next] = moved
  BY <1>2 DEF Request
<1>4. requests' = [requests EXCEPT ![hash] = moved]
  BY <1>1, <1>3
<1>5. moved.kind = requests[hash].kind /\ moved.ready = requests[hash].ready /\ moved.st = next
  OBVIOUS
<1> HIDE DEF moved
<1>6. /\ requests' \in Seq(Request) /\ Len(requests') = Len(requests)
      /\ requests'[hash] = moved
      /\ \A i \in 1 .. Len(requests) : i # hash => requests'[i] = requests[i]
  BY <1>1, <1>2, <1>4, ExceptSeq
<1>7. DOMAIN requests' = DOMAIN requests
  BY <1>1, <1>6
<1> QED BY <1>1, <1>5, <1>6, <1>7

\* A proof's request is final, and a decision keeps what was asked.
LEMMA DecisionKeepsReady ==
    ASSUME ReadyInv, NEW hash \in DOMAIN requests, requests[hash].st \in {"asked", "live"},
           NEW next \in {"rejected", "live", "mined", "reverted"},
           requests' = [requests EXCEPT ![hash].st = next], UNCHANGED <<marker, tab, broken>>
    PROVE  ReadyInv'
<1>1. /\ requests' \in Seq(Request) /\ Len(requests') = Len(requests)
      /\ DOMAIN requests' = DOMAIN requests
      /\ \A i \in DOMAIN requests :
            /\ requests'[i].kind = requests[i].kind /\ requests'[i].ready = requests[i].ready
            /\ i # hash => requests'[i].st = requests[i].st
  BY RequestMoves DEF ReadyInv
<1>2. TypeOK'
  BY <1>1 DEF ReadyInv, TypeOK
<1>3. AskedWhenReady'
  BY <1>1 DEF ReadyInv, AskedWhenReady
<1>4. ASSUME NEW t \in Tabs PROVE TabSound(tab[t])'
  <2>1. TabSound(tab[t])
    BY DEF ReadyInv, AllSound
  <2> QED BY <1>1, <2>1 DEF TabSound
<1>5. AllSound'
  BY <1>4 DEF AllSound
<1> QED BY <1>2, <1>3, <1>5 DEF ReadyInv

\* A new request is of its tab's kind and leaves the others as they are.
LEMMA RequestAdded ==
    ASSUME ReadyInv, NEW t \in Tabs, Ask(t)
    PROVE  /\ tab[t].job \in Kinds /\ Len(requests) + 1 \in Hashes
           /\ requests' \in Seq(Request) /\ Len(requests') = Len(requests) + 1
           /\ DOMAIN requests = 1 .. Len(requests) /\ DOMAIN requests' = 1 .. Len(requests) + 1
           /\ requests'[Len(requests) + 1] =
                 [kind |-> tab[t].job, ready |-> tab[t].sound, st |-> "asked"]
           /\ \A i \in DOMAIN requests : requests'[i] = requests[i]
<1>1. tab[t] \in Tab /\ requests \in Seq(Request) /\ Len(requests) \in Nat
  BY DEF ReadyInv, TypeOK
<1>2. tab[t].job \in Kinds /\ tab[t].sound \in BOOLEAN /\ Len(requests) < MaxRequests
  BY <1>1 DEF Ask, Tab
<1> DEFINE new == [kind |-> tab[t].job, ready |-> tab[t].sound, st |-> "asked"]
<1>3. new \in Request
  BY <1>2 DEF Request
<1>4. requests' = Append(requests, new)
  BY DEF Ask
<1> HIDE DEF new
<1>5. /\ requests' \in Seq(Request) /\ Len(requests') = Len(requests) + 1
      /\ requests'[Len(requests) + 1] = new
      /\ \A i \in 1 .. Len(requests) : requests'[i] = requests[i]
  BY <1>1, <1>3, <1>4
<1>6. DOMAIN requests = 1 .. Len(requests) /\ DOMAIN requests' = 1 .. Len(requests) + 1
  BY <1>1, <1>5
<1>7. Len(requests) + 1 \in Hashes
  BY <1>1, <1>2, BoundsAssumption DEF Hashes
<1> QED BY <1>2, <1>5, <1>6, <1>7 DEF new

\* Asking: the tab was checked, if a deployment is asked for.
LEMMA AskKeepsReady ==
    ASSUME ReadyInv, NEW t \in Tabs, Ask(t)
    PROVE  ReadyInv'
<1> DEFINE hash == Len(requests) + 1
           new == [Flagged(t) EXCEPT !.step = "asked", !.tx = hash]
<1>1. /\ tab[t].job \in Kinds /\ hash \in Hashes
      /\ requests' \in Seq(Request) /\ Len(requests') = Len(requests) + 1
      /\ DOMAIN requests = 1 .. Len(requests) /\ DOMAIN requests' = 1 .. hash
      /\ requests'[hash] = [kind |-> tab[t].job, ready |-> tab[t].sound, st |-> "asked"]
      /\ \A i \in DOMAIN requests : requests'[i] = requests[i]
  BY RequestAdded
<1>2. Len(requests) \in Nat /\ tab[t] \in Tab /\ TypeOK
  BY DEF ReadyInv, TypeOK
<1>3. /\ new \in Tab
      /\ new.job = tab[t].job /\ new.step = "asked" /\ new.tx = hash
      /\ new.attempted = [tab[t].attempted EXCEPT ![tab[t].job] = TRUE]
      /\ new.proof = tab[t].proof
  <2>1. tab[t].job # "idle"
    BY <1>1 DEF Kinds
  <2> HIDE DEF hash
  <2> QED BY <1>1, <1>2, <2>1, FlaggedIs
<1>4. Become(t, new)
  BY DEF Ask
<1> HIDE DEF new
<1>5. /\ tab' \in [Tabs -> Tab] /\ tab'[t] = new
      /\ \A u \in Tabs : u # t => tab'[u] = tab[u]
  BY <1>2, <1>3, <1>4, BecomeIs
<1>6. new.attempted[new.job] = TRUE
  BY <1>1, <1>2, <1>3 DEF Tab
<1>7. ASSUME NEW u \in Tabs PROVE TabSound(tab[u])'
  <2>1. TabSound(tab[u])
    BY DEF ReadyInv, AllSound
  <2>2. CASE u # t
    <3>1. tab'[u] = tab[u]
      BY <1>5, <2>2
    <3> QED BY <1>1, <1>2, <2>1, <3>1 DEF TabSound
  <2>3. CASE u = t
    <3>1. TabSound(tab[t])
      BY <2>1, <2>3
    <3>2. new.job # "idle"
      BY <1>1, <1>3 DEF Kinds
    <3>3. hash \in DOMAIN requests'
      BY <1>1, <1>2
    <3>4. requests'[hash].kind = tab[t].job
      BY <1>1
    <3>5. \A k \in Kinds : new.proof[k] # NoHash =>
              /\ new.proof[k] \in DOMAIN requests'
              /\ requests'[new.proof[k]].st = "mined" /\ requests'[new.proof[k]].kind = k
      BY <1>1, <1>2, <1>3, <3>1 DEF TabSound
    <3>6. tab'[u] = new
      BY <1>5, <2>3
    <3> QED BY <1>3, <1>6, <3>2, <3>3, <3>4, <3>5, <3>6 DEF TabSound
  <2> QED BY <2>2, <2>3
<1>8. AllSound'
  BY <1>7 DEF AllSound
<1>9. marker' \in [Kinds -> Marker]
  BY <1>1, <1>2 DEF Ask, SaveAttempt, TypeOK, Marker, WalletRequested
<1>10. TypeOK'
  <2>1. \A u \in Tabs : tab'[u].step = "asked" => tab'[u].attempted[tab'[u].job]
    BY <1>8 DEF AllSound, TabSound
  <2>2. Len(requests') <= MaxRequests
    BY <1>1, <1>2, BoundsAssumption DEF Hashes
  <2> QED BY <1>1, <1>2, <1>5, <1>9, <2>1, <2>2 DEF TypeOK, Ask
<1>11. AskedWhenReady'
  <2>1. tab[t].job = "deploy" => tab[t].sound
    BY DEF Ask, ReadyInv, AllSound, TabSound
  <2>2. ASSUME NEW i \in DOMAIN requests', requests'[i].kind = "deploy" PROVE requests'[i].ready
    <3>1. CASE i \in DOMAIN requests
      BY <1>1, <2>2, <3>1 DEF ReadyInv, AskedWhenReady
    <3>2. CASE i = hash
      BY <1>1, <2>1, <2>2, <3>2
    <3> QED BY <1>1, <1>2, <3>1, <3>2
  <2> QED BY <2>2 DEF AskedWhenReady
<1> QED BY <1>8, <1>10, <1>11 DEF ReadyInv

\* A verdict: a proof is shown of what the independent endpoint saw mined.
LEMMA VerifyKeepsReady ==
    ASSUME ReadyInv, NEW t \in Tabs, NEW k \in Kinds, NEW hash \in DOMAIN requests,
           NEW saves \in BOOLEAN, Verify(t, k, hash, saves)
    PROVE  ReadyInv'
<1>1. TypeOK /\ TabSound(tab[t]) /\ tab[t] \in Tab /\ tab[t].job = "idle"
  BY DEF ReadyInv, AllSound, TypeOK, Verify
<1>2. hash \in Hashes /\ hash \in Marker
  BY <1>1, BoundsAssumption DEF TypeOK, Hashes, Marker
<1>3. \/ /\ Become(t, [tab[t] EXCEPT !.proof[k] = NoHash])
         /\ UNCHANGED marker
      \/ /\ "VERIFIED" \in Verdicts(hash, k)
         /\ \E attempts \in [Kinds -> BOOLEAN], value \in {marker[k], hash} :
               /\ Become(t, Verified(t, [tab[t].proof EXCEPT ![k] = hash], attempts))
               /\ marker' = [marker EXCEPT ![k] = value]
               /\ value = marker[k] \/ attempts[k]
               /\ \A j \in Kinds : tab[t].attempted[j] => attempts[j]
  BY <1>1, <1>2, VerifyBecomes
<1>4. ASSUME "VERIFIED" \in Verdicts(hash, k), NEW attempts \in [Kinds -> BOOLEAN],
             NEW value \in {marker[k], hash}, marker' = [marker EXCEPT ![k] = value],
             Become(t, Verified(t, [tab[t].proof EXCEPT ![k] = hash], attempts))
      PROVE  ReadyInv'
  <2>1. requests[hash].st = "mined" /\ requests[hash].kind = k
    BY <1>4, VerifiedIsMined
  <2> DEFINE proofs == [tab[t].proof EXCEPT ![k] = hash]
             new == Verified(t, proofs, attempts)
  <2>2. Become(t, new)
    BY <1>4
  <2>3. /\ new \in Tab
        /\ new.job = tab[t].job /\ new.step = tab[t].step
        /\ new.proof = proofs
    <3>1. proofs \in [Kinds -> Hashes \cup {NoHash}]
      BY <1>1, <1>2 DEF Tab
    <3> HIDE DEF proofs
    <3> QED BY <1>1, <3>1, VerifiedIs
  <2> HIDE DEF new
  <2>4. new.step = "checking"
    BY <1>1, <2>3 DEF TabSound
  <2>5. \A j \in Kinds : new.proof[j] # NoHash =>
            /\ new.proof[j] \in DOMAIN requests
            /\ requests[new.proof[j]].st = "mined" /\ requests[new.proof[j]].kind = j
    BY <1>1, <2>1, <2>3 DEF TabSound, Tab
  <2>6. TabSound(new)
    BY <2>4, <2>5 DEF TabSound
  <2>7. marker' \in [Kinds -> Marker]
    BY <1>1, <1>2, <1>4 DEF TypeOK
  <2> QED BY <2>2, <2>3, <2>6, <2>7, TabStep DEF Verify
<1>5. CASE Become(t, [tab[t] EXCEPT !.proof[k] = NoHash]) /\ UNCHANGED marker
  <2> DEFINE new == [tab[t] EXCEPT !.proof[k] = NoHash]
  <2>1. /\ new \in Tab
        /\ new.job = tab[t].job /\ new.step = tab[t].step
        /\ new.proof = [tab[t].proof EXCEPT ![k] = NoHash]
    BY <1>1, UnprovedIs
  <2>2. Become(t, new)
    BY <1>5
  <2> HIDE DEF new
  <2>3. new.step = "checking"
    BY <1>1, <2>1 DEF TabSound
  <2>4. \A j \in Kinds : new.proof[j] # NoHash =>
            /\ new.proof[j] \in DOMAIN requests
            /\ requests[new.proof[j]].st = "mined" /\ requests[new.proof[j]].kind = j
    BY <1>1, <2>1 DEF TabSound, Tab
  <2>5. TabSound(new)
    BY <2>3, <2>4 DEF TabSound
  <2>6. marker' \in [Kinds -> Marker]
    BY <1>1, <1>5 DEF TypeOK
  <2> QED BY <2>1, <2>2, <2>5, <2>6, TabStep DEF Verify
<1> QED BY <1>3, <1>4, <1>5

\* A handler that ends keeps its tab sound, whatever it leaves in storage.
LEMMA EndKeepsReady ==
    ASSUME ReadyInv, NEW t \in Tabs, NEW state \in Tab, state.job = "idle",
           state.step = "checking", state.proof = tab[t].proof, Become(t, state),
           marker' \in [Kinds -> Marker], UNCHANGED <<requests, broken>>
    PROVE  ReadyInv'
<1>1. TabSound(tab[t])
  BY DEF ReadyInv, AllSound
<1>2. TabSound(state)
  BY <1>1 DEF TabSound
<1> QED BY <1>2, TabStep

\* Each action on a tab, but for asking and verifying.
LEMMA PageKeepsReady ==
    ASSUME ReadyInv, NEW t \in Tabs
    PROVE  /\ \A storage \in BOOLEAN : Load(t, storage) => ReadyInv'
           /\ RefreshPreflight(t) => ReadyInv'
           /\ Expire(t) => ReadyInv'
           /\ ClickDeploy(t) => ReadyInv'
           /\ CheckReadiness(t) => ReadyInv'
           /\ ClickRegister(t) => ReadyInv'
           /\ Abandon(t) => ReadyInv'
           /\ AnswerHash(t) => ReadyInv'
           /\ AnswerUncertain(t) => ReadyInv'
           /\ \A removed \in BOOLEAN : AnswerRejected(t, removed) => ReadyInv'
<1>1. TypeOK /\ TabSound(tab[t]) /\ tab[t] \in Tab /\ marker \in [Kinds -> Marker]
  BY DEF ReadyInv, AllSound, TypeOK
<1>2. /\ Idle(t) \in Tab
      /\ Idle(t).job = "idle" /\ Idle(t).step = "checking" /\ Idle(t).proof = tab[t].proof
  BY <1>1, IdleIs
<1>3. ASSUME NEW storage \in BOOLEAN, Load(t, storage) PROVE ReadyInv'
  <2> DEFINE new == [job |-> "idle", step |-> "checking", tx |-> NoHash, sound |-> FALSE,
                     preflight |-> "none", storage |-> storage,
                     attempted |-> [k \in Kinds |-> storage /\ Started(marker[k])],
                     proof |-> [k \in Kinds |-> NoHash]]
  <2>1. [k \in Kinds |-> storage /\ Started(marker[k])] \in [Kinds -> BOOLEAN]
    OBVIOUS
  <2>2. new \in Tab
    BY <2>1 DEF Tab
  <2>3. TabSound(new)
    BY DEF TabSound
  <2> QED BY <1>1, <1>3, <2>2, <2>3, TabStep DEF Load
<1>4. ASSUME NEW state \in {"none", "READY", "BLOCKED", "EXPIRED"},
             Become(t, [tab[t] EXCEPT !.preflight = state]), UNCHANGED <<marker, requests, broken>>
      PROVE  ReadyInv'
  <2> DEFINE new == [tab[t] EXCEPT !.preflight = state]
  <2>1. /\ new \in Tab
        /\ new.job = tab[t].job /\ new.step = tab[t].step /\ new.tx = tab[t].tx
        /\ new.sound = tab[t].sound
        /\ new.attempted = tab[t].attempted /\ new.proof = tab[t].proof
    BY <1>1, ShowIs
  <2>2. Become(t, new)
    BY <1>4
  <2> HIDE DEF new
  <2>3. TabSound(new)
    BY <1>1, <2>1 DEF TabSound
  <2> QED BY <1>1, <1>4, <2>1, <2>2, <2>3, TabStep
<1>5. DeploymentPreflight \subseteq {"none", "READY", "BLOCKED", "EXPIRED"}
  BY DEF DeploymentPreflight
<1>6. RefreshPreflight(t) => ReadyInv'
  BY <1>4, <1>5 DEF RefreshPreflight
<1>7. Expire(t) => ReadyInv'
  BY <1>4 DEF Expire
<1>8. ASSUME ClickDeploy(t) PROVE ReadyInv'
  <2> DEFINE new == [tab[t] EXCEPT !.job = "deploy"]
  <2>1. /\ new \in Tab /\ new.job = "deploy" /\ new.step = tab[t].step
        /\ new.proof = tab[t].proof
    BY <1>1 DEF Tab, Kinds
  <2>2. Become(t, new) /\ tab[t].job = "idle"
    BY <1>8 DEF ClickDeploy
  <2> HIDE DEF new
  <2>3. TabSound(new)
    BY <1>1, <2>1, <2>2 DEF TabSound
  <2> QED BY <1>1, <1>8, <2>1, <2>2, <2>3, TabStep DEF ClickDeploy
<1>9. ASSUME CheckReadiness(t) PROVE ReadyInv'
  <2>1. PICK state \in DeploymentPreflight :
            IF state = "READY"
            THEN Become(t, [tab[t] EXCEPT !.preflight = state, !.step = "ready",
                                          !.sound = Failing(broken) = {}])
            ELSE Become(t, [Idle(t) EXCEPT !.preflight = state])
    BY <1>9 DEF CheckReadiness, Rechecked
  <2>2. CASE state = "READY"
    <3> DEFINE ok == Failing(broken) = {}
               new == [tab[t] EXCEPT !.preflight = state, !.step = "ready", !.sound = ok]
    <3>1. Become(t, new) /\ tab[t].job = "deploy"
      BY <1>9, <2>1, <2>2 DEF CheckReadiness
    <3>2. ok = TRUE
      BY <2>2, ReadyIsTrue
    <3> HIDE DEF ok
    <3>3. /\ new \in Tab /\ new.job = tab[t].job /\ new.step = "ready"
          /\ new.sound = ok /\ new.proof = tab[t].proof
      BY <1>1, <2>2, <3>2 DEF Tab
    <3> HIDE DEF new
    <3>4. TabSound(new)
      BY <1>1, <3>1, <3>2, <3>3 DEF TabSound
    <3> QED BY <1>1, <1>9, <3>1, <3>3, <3>4, TabStep DEF CheckReadiness
  <2>3. CASE state # "READY"
    <3> DEFINE new == [Idle(t) EXCEPT !.preflight = state]
    <3>1. Become(t, new)
      BY <2>1, <2>3
    <3>2. /\ new \in Tab /\ new.job = "idle" /\ new.step = "checking"
          /\ new.proof = tab[t].proof
      BY <1>2, <1>5 DEF Tab
    <3> HIDE DEF new
    <3> QED BY <1>1, <1>9, <3>1, <3>2, EndKeepsReady DEF CheckReadiness
  <2> QED BY <2>2, <2>3
<1>10. ASSUME ClickRegister(t) PROVE ReadyInv'
  <2> DEFINE new == [tab[t] EXCEPT !.job = "register", !.step = "ready"]
  <2>1. /\ new \in Tab /\ new.job = "register" /\ new.step = "ready"
        /\ new.proof = tab[t].proof
    BY <1>1 DEF Tab, Kinds
  <2>2. Become(t, new)
    BY <1>10 DEF ClickRegister
  <2> HIDE DEF new
  <2>3. TabSound(new)
    BY <1>1, <2>1 DEF TabSound
  <2> QED BY <1>1, <1>10, <2>1, <2>2, <2>3, TabStep DEF ClickRegister
<1>11. Abandon(t) => ReadyInv'
  BY <1>1, <1>2, EndKeepsReady DEF Abandon
<1>12. ASSUME AnswerHash(t) PROVE ReadyInv'
  <2>1. tab[t].tx \in Marker
    BY <1>1 DEF Tab, Marker, NoHash, WalletRequested
  <2>2. marker' \in [Kinds -> Marker]
    BY <1>1, <1>12, <2>1 DEF AnswerHash
  <2> QED BY <1>2, <1>12, <2>2, EndKeepsReady DEF AnswerHash
<1>13. AnswerUncertain(t) => ReadyInv'
  BY <1>1, <1>2, EndKeepsReady DEF AnswerUncertain
<1>14. ASSUME NEW removed \in BOOLEAN, AnswerRejected(t, removed) PROVE ReadyInv'
  <2>1. tab[t].job \in Kinds
    BY <1>1, <1>14 DEF AnswerRejected, TabSound, Tab
  <2> DEFINE new == [Idle(t) EXCEPT !.attempted[tab[t].job] = ~removed]
  <2>2. /\ new \in Tab
        /\ new.job = "idle" /\ new.step = "checking" /\ new.proof = tab[t].proof
    BY <1>1, <2>1, RejectedIs
  <2>3. Become(t, new)
    BY <1>14 DEF AnswerRejected
  <2> HIDE DEF new
  <2>4. marker' \in [Kinds -> Marker]
    BY <1>1, <1>14 DEF AnswerRejected, Marker
  <2> QED BY <1>14, <2>2, <2>3, <2>4, EndKeepsReady DEF AnswerRejected
<1> QED BY <1>3, <1>6, <1>7, <1>8, <1>9, <1>10, <1>11, <1>12, <1>13, <1>14

LEMMA ReadyStep ==
    ASSUME ReadyInv, [Next]_vars
    PROVE  ReadyInv'
<1>1. CASE UNCHANGED vars
  BY <1>1 DEF vars, ReadyInv, TypeOK, AllSound, TabSound, AskedWhenReady
<1>2. ASSUME NEW t \in Tabs, NEW k \in Kinds, NEW hash \in DOMAIN requests,
             NEW saves \in BOOLEAN, Verify(t, k, hash, saves)
      PROVE  ReadyInv'
  BY <1>2, VerifyKeepsReady
<1>3. ASSUME NEW hash \in DOMAIN requests, NEW st \in {"live", "rejected"}, Decide(hash, st)
      PROVE  ReadyInv'
  BY <1>3, DecisionKeepsReady DEF Decide
<1>4. ASSUME NEW hash \in DOMAIN requests, NEW st \in {"mined", "reverted"}, Mine(hash, st)
      PROVE  ReadyInv'
  BY <1>4, DecisionKeepsReady DEF Mine
<1>5. ASSUME ChainChanges PROVE ReadyInv'
  BY <1>5 DEF ChainChanges, Conditions, ReadyInv, TypeOK, AllSound, TabSound, AskedWhenReady
<1> QED BY <1>1, <1>2, <1>3, <1>4, <1>5, PageKeepsReady, AskKeepsReady DEF Next

LEMMA ReadyInit == Init => ReadyInv
<1> SUFFICES ASSUME Init PROVE ReadyInv
  OBVIOUS
<1>1. TypeOK
  <2>1. tab \in [Tabs -> Tab]
    BY DEF Init, Tab
  <2>2. requests \in Seq(Request) /\ Len(requests) <= MaxRequests
    BY BoundsAssumption DEF Init
  <2> QED BY <2>1, <2>2 DEF Init, TypeOK, Marker
<1>2. AllSound
  BY DEF Init, AllSound, TabSound
<1>3. AskedWhenReady
  BY DEF Init, AskedWhenReady
<1> QED BY <1>1, <1>2, <1>3 DEF ReadyInv

-----------------------------------------------------------------------------
\* One tab.
OneTab == \A t, u \in Tabs : t = u

\* A step of the tab that leaves it knowing, with a marker for each request
\* that is not rejected, keeps the second invariant.
LEMMA KnowingTabStep ==
    ASSUME LockInv, ReadyInv', OneTab, NEW t \in Tabs, NEW state \in Tab, Become(t, state),
           UNCHANGED requests,
           \A k \in Kinds : (state.storage /\ ~state.attempted[k]) => marker'[k] = NoMarker,
           (state.job # "idle" /\ state.step # "asked") => ~state.attempted[state.job],
           state.step = "asked" => state.storage /\ OthersRejected(state.tx),
           UncertainStaysLocked'
    PROVE  LockInv'
<1>1. tab'[t] = state
  BY BecomeIs DEF LockInv, ReadyInv
<1>2. \A u \in Tabs : u = t
  BY DEF OneTab
<1>3. AllKnow'
  BY <1>1, <1>2 DEF AllKnow, TabKnows, OthersRejected
<1>4. OneRequestOut'
  BY DEF LockInv, OneRequestOut
<1> QED BY <1>3, <1>4 DEF LockInv

\* A step that leaves markers and requests alone.
LEMMA QuietTabStep ==
    ASSUME LockInv, ReadyInv', OneTab, NEW t \in Tabs, NEW state \in Tab, Become(t, state),
           UNCHANGED <<marker, requests>>,
           state.storage = tab[t].storage, state.attempted = tab[t].attempted,
           (state.job # "idle" /\ state.step # "asked") => ~state.attempted[state.job],
           state.step # "asked"
    PROVE  LockInv'
<1>1. \A k \in Kinds : (state.storage /\ ~state.attempted[k]) => marker'[k] = NoMarker
  BY DEF LockInv, AllKnow, TabKnows
<1>2. UncertainStaysLocked'
  BY DEF LockInv, UncertainStaysLocked
<1> QED BY <1>1, <1>2, KnowingTabStep

\* A handler that ends without a word to storage.
LEMMA EndKeepsLock ==
    ASSUME LockInv, ReadyInv', OneTab, NEW t \in Tabs, Become(t, Idle(t)),
           UNCHANGED <<marker, requests>>
    PROVE  LockInv'
<1>1. /\ Idle(t) \in Tab
      /\ Idle(t).job = "idle" /\ Idle(t).step = "checking"
      /\ Idle(t).attempted = tab[t].attempted /\ Idle(t).storage = tab[t].storage
  BY IdleIs DEF LockInv, ReadyInv
<1> QED BY <1>1, QuietTabStep

\* The page's actions that ask for nothing and store nothing.
LEMMA QuietKeepsLock ==
    ASSUME LockInv, ReadyInv', OneTab, NEW t \in Tabs
    PROVE  /\ \A storage \in BOOLEAN : Load(t, storage) => LockInv'
           /\ RefreshPreflight(t) => LockInv'
           /\ Expire(t) => LockInv'
           /\ ClickDeploy(t) => LockInv'
           /\ CheckReadiness(t) => LockInv'
           /\ ClickRegister(t) => LockInv'
           /\ Abandon(t) => LockInv'
           /\ AnswerUncertain(t) => LockInv'
<1>1. TypeOK /\ tab[t] \in Tab /\ TabSound(tab[t]) /\ TabKnows(tab[t])
  BY DEF LockInv, ReadyInv, TypeOK, AllSound, AllKnow
<1>2. ASSUME NEW storage \in BOOLEAN, Load(t, storage) PROVE LockInv'
  <2> DEFINE known == [k \in Kinds |-> storage /\ Started(marker[k])]
             new == [job |-> "idle", step |-> "checking", tx |-> NoHash, sound |-> FALSE,
                     preflight |-> "none", storage |-> storage,
                     attempted |-> known, proof |-> [k \in Kinds |-> NoHash]]
  <2>1. known \in [Kinds -> BOOLEAN]
    OBVIOUS
  <2>2. \A k \in Kinds : (storage /\ ~known[k]) => marker[k] = NoMarker
    BY DEF Started
  <2>3. Become(t, new) /\ UNCHANGED <<marker, requests>>
    BY <1>2 DEF Load
  <2> HIDE DEF known
  <2>4. /\ new \in Tab /\ new.storage = storage /\ new.attempted = known
        /\ new.job = "idle" /\ new.step = "checking"
    BY <2>1 DEF Tab
  <2> HIDE DEF new
  <2>5. \A k \in Kinds : (new.storage /\ ~new.attempted[k]) => marker'[k] = NoMarker
    BY <2>2, <2>3, <2>4
  <2>6. UncertainStaysLocked'
    BY <2>3 DEF LockInv, UncertainStaysLocked
  <2> QED BY <2>3, <2>4, <2>5, <2>6, KnowingTabStep
<1>3. ASSUME NEW state \in {"none", "READY", "BLOCKED", "EXPIRED"},
             Become(t, [tab[t] EXCEPT !.preflight = state]), UNCHANGED <<marker, requests, broken>>
      PROVE  LockInv'
  <2> DEFINE new == [tab[t] EXCEPT !.preflight = state]
  <2>1. /\ new \in Tab
        /\ new.job = tab[t].job /\ new.step = tab[t].step /\ new.tx = tab[t].tx
        /\ new.attempted = tab[t].attempted /\ new.storage = tab[t].storage
    BY <1>1, ShowIs
  <2>2. Become(t, new)
    BY <1>3
  <2> HIDE DEF new
  <2>3. \A k \in Kinds : (new.storage /\ ~new.attempted[k]) => marker'[k] = NoMarker
    BY <1>1, <1>3, <2>1 DEF TabKnows
  <2>4. UncertainStaysLocked'
    BY <1>3 DEF LockInv, UncertainStaysLocked
  <2> QED BY <1>1, <1>3, <2>1, <2>2, <2>3, <2>4, KnowingTabStep DEF TabKnows
<1>4. DeploymentPreflight \subseteq {"none", "READY", "BLOCKED", "EXPIRED"}
  BY DEF DeploymentPreflight
<1>5. RefreshPreflight(t) => LockInv'
  BY <1>3, <1>4 DEF RefreshPreflight
<1>6. Expire(t) => LockInv'
  BY <1>3 DEF Expire
<1>7. ASSUME ClickDeploy(t) PROVE LockInv'
  <2> DEFINE new == [tab[t] EXCEPT !.job = "deploy"]
  <2>1. /\ new \in Tab /\ new.job = "deploy" /\ new.step = tab[t].step
        /\ new.attempted = tab[t].attempted /\ new.storage = tab[t].storage
    BY <1>1 DEF Tab, Kinds
  <2>2. Become(t, new) /\ tab[t].job = "idle" /\ ~tab[t].attempted["deploy"]
        /\ UNCHANGED <<marker, requests>>
    BY <1>7 DEF ClickDeploy
  <2> HIDE DEF new
  <2>3. new.step # "asked"
    BY <1>1, <2>1, <2>2 DEF TabSound
  <2> QED BY <2>1, <2>2, <2>3, QuietTabStep
<1>8. ASSUME CheckReadiness(t) PROVE LockInv'
  <2>1. PICK state \in DeploymentPreflight :
            IF state = "READY"
            THEN Become(t, [tab[t] EXCEPT !.preflight = state, !.step = "ready",
                                          !.sound = Failing(broken) = {}])
            ELSE Become(t, [Idle(t) EXCEPT !.preflight = state])
    BY <1>8 DEF CheckReadiness, Rechecked
  <2>2. /\ tab[t].job = "deploy" /\ tab[t].step = "checking"
        /\ UNCHANGED <<marker, requests>>
    BY <1>8 DEF CheckReadiness
  <2>3. ~tab[t].attempted["deploy"]
    BY <1>1, <2>2 DEF TabKnows
  <2>4. CASE state = "READY"
    <3> DEFINE ok == Failing(broken) = {}
               new == [tab[t] EXCEPT !.preflight = state, !.step = "ready", !.sound = ok]
    <3>1. Become(t, new)
      BY <2>1, <2>4
    <3>2. ok = TRUE
      BY <2>4, ReadyIsTrue
    <3> HIDE DEF ok
    <3>3. /\ new \in Tab /\ new.job = tab[t].job /\ new.step = "ready"
          /\ new.attempted = tab[t].attempted /\ new.storage = tab[t].storage
      BY <1>1, <2>4, <3>2 DEF Tab
    <3> HIDE DEF new
    <3> QED BY <2>2, <2>3, <3>1, <3>3, QuietTabStep
  <2>5. CASE state # "READY"
    <3> DEFINE new == [Idle(t) EXCEPT !.preflight = state]
    <3>1. Become(t, new)
      BY <2>1, <2>5
    <3>2. /\ Idle(t) \in Tab /\ Idle(t).job = "idle" /\ Idle(t).step = "checking"
          /\ Idle(t).attempted = tab[t].attempted /\ Idle(t).storage = tab[t].storage
      BY <1>1, IdleIs
    <3>3. /\ new \in Tab /\ new.job = "idle" /\ new.step = "checking"
          /\ new.attempted = tab[t].attempted /\ new.storage = tab[t].storage
      BY <1>4, <3>2 DEF Tab
    <3> HIDE DEF new
    <3> QED BY <2>2, <3>1, <3>3, QuietTabStep
  <2> QED BY <2>4, <2>5
<1>9. ASSUME ClickRegister(t) PROVE LockInv'
  <2> DEFINE new == [tab[t] EXCEPT !.job = "register", !.step = "ready"]
  <2>1. /\ new \in Tab /\ new.job = "register" /\ new.step = "ready"
        /\ new.attempted = tab[t].attempted /\ new.storage = tab[t].storage
    BY <1>1 DEF Tab, Kinds
  <2>2. Become(t, new) /\ ~tab[t].attempted["register"] /\ UNCHANGED <<marker, requests>>
    BY <1>9 DEF ClickRegister
  <2> HIDE DEF new
  <2> QED BY <2>1, <2>2, QuietTabStep
<1>10. Abandon(t) => LockInv'
  BY EndKeepsLock DEF Abandon
<1>11. AnswerUncertain(t) => LockInv'
  BY EndKeepsLock DEF AnswerUncertain
<1> QED BY <1>2, <1>5, <1>6, <1>7, <1>8, <1>9, <1>10, <1>11

-----------------------------------------------------------------------------
\* The hash replaces the request's own marker, or stays unsaved.
LEMMA AnswerHashKeepsLock ==
    ASSUME LockInv, ReadyInv', OneTab, NEW t \in Tabs, AnswerHash(t)
    PROVE  LockInv'
<1>1. TypeOK /\ tab[t] \in Tab /\ TabSound(tab[t]) /\ TabKnows(tab[t])
  BY DEF LockInv, ReadyInv, TypeOK, AllSound, AllKnow
<1> DEFINE k == tab[t].job
<1>2. /\ tab[t].step = "asked" /\ UNCHANGED requests /\ Become(t, Idle(t))
      /\ \E saved \in {marker[k], tab[t].tx} : marker' = [marker EXCEPT ![k] = saved]
  BY <1>1 DEF AnswerHash
<1>3. tab[t].attempted[k] /\ k \in Kinds
  BY <1>1, <1>2 DEF TabSound, Tab
<1>4. tab[t].tx # NoMarker
  BY <1>1, BoundsAssumption DEF Tab, Hashes, NoHash, NoMarker
<1>5. /\ Idle(t) \in Tab /\ Idle(t).job = "idle" /\ Idle(t).step = "checking"
      /\ Idle(t).attempted = tab[t].attempted /\ Idle(t).storage = tab[t].storage
  BY <1>1, IdleIs
<1>6. /\ \A j \in Kinds \ {k} : marker'[j] = marker[j]
      /\ marker[k] # NoMarker => marker'[k] # NoMarker
  BY <1>1, <1>2, <1>3, <1>4 DEF TypeOK
<1>7. \A j \in Kinds : (Idle(t).storage /\ ~Idle(t).attempted[j]) => marker'[j] = NoMarker
  BY <1>1, <1>3, <1>5, <1>6 DEF TabKnows
<1>8. \A hash \in DOMAIN requests : requests[hash].kind \in Kinds
  BY <1>1, KindsOf
<1>9. UncertainStaysLocked'
  BY <1>2, <1>6, <1>8 DEF LockInv, UncertainStaysLocked
<1> QED BY <1>2, <1>5, <1>7, <1>9, KnowingTabStep

\* A rejection removes the marker of the last request of its kind that could be
\* signed; all others had been rejected before.
LEMMA AnswerRejectedKeepsLock ==
    ASSUME LockInv, ReadyInv', OneTab, NEW t \in Tabs, NEW removed \in BOOLEAN,
           AnswerRejected(t, removed)
    PROVE  LockInv'
<1>1. TypeOK /\ tab[t] \in Tab /\ TabSound(tab[t]) /\ TabKnows(tab[t])
  BY DEF LockInv, ReadyInv, TypeOK, AllSound, AllKnow
<1> DEFINE k == tab[t].job
           new == [Idle(t) EXCEPT !.attempted[k] = ~removed]
<1>2. /\ tab[t].step = "asked" /\ requests[tab[t].tx].st = "rejected" /\ UNCHANGED requests
      /\ marker' = [marker EXCEPT ![k] = IF removed THEN NoMarker ELSE @]
      /\ Become(t, new)
  BY DEF AnswerRejected, Refused
<1>3. /\ k \in Kinds /\ tab[t].attempted[k] /\ OthersRejected(tab[t].tx)
      /\ tab[t].tx \in DOMAIN requests /\ requests[tab[t].tx].kind = k
  BY <1>1, <1>2 DEF TabSound, TabKnows, Tab
<1>4. /\ new \in Tab /\ new.job = "idle" /\ new.step = "checking"
      /\ new.storage = tab[t].storage
      /\ new.attempted = [tab[t].attempted EXCEPT ![k] = ~removed]
  BY <1>1, <1>3, RejectedIs
<1> HIDE DEF new
<1>5. \A j \in Kinds : j # k => marker'[j] = marker[j] /\ new.attempted[j] = tab[t].attempted[j]
  BY <1>1, <1>2, <1>4 DEF TypeOK, Tab
<1>6. /\ removed => marker'[k] = NoMarker
      /\ ~removed => marker'[k] = marker[k] /\ new.attempted[k]
  BY <1>1, <1>2, <1>3, <1>4 DEF TypeOK, Tab
<1>7. \A j \in Kinds : (new.storage /\ ~new.attempted[j]) => marker'[j] = NoMarker
  BY <1>1, <1>4, <1>5, <1>6 DEF TabKnows
<1>8. \A hash \in DOMAIN requests : requests[hash].kind = k => requests[hash].st = "rejected"
  <2>1. ASSUME NEW hash \in DOMAIN requests, requests[hash].kind = k
        PROVE  requests[hash].st = "rejected"
    <3>1. CASE hash = tab[t].tx
      BY <1>2, <3>1
    <3>2. CASE hash # tab[t].tx
      BY <1>3, <2>1, <3>2 DEF OthersRejected
    <3> QED BY <3>1, <3>2
  <2> QED BY <2>1
<1>9. \A hash \in DOMAIN requests : requests[hash].kind \in Kinds
  BY <1>1, KindsOf
<1>10. UncertainStaysLocked'
  BY <1>2, <1>5, <1>8, <1>9 DEF LockInv, UncertainStaysLocked
<1> QED BY <1>2, <1>4, <1>7, <1>10, KnowingTabStep

\* A stored hash is a marker too, and the page knows that it stored one.
LEMMA VerifyKeepsLock ==
    ASSUME LockInv, ReadyInv', OneTab, NEW t \in Tabs, NEW k \in Kinds,
           NEW hash \in DOMAIN requests, NEW saves \in BOOLEAN, Verify(t, k, hash, saves)
    PROVE  LockInv'
<1>1. TypeOK /\ tab[t] \in Tab /\ TabSound(tab[t]) /\ TabKnows(tab[t])
  BY DEF LockInv, ReadyInv, TypeOK, AllSound, AllKnow
<1>2. hash \in Hashes
  BY <1>1, BoundsAssumption DEF TypeOK, Hashes
<1>3. tab[t].job = "idle" /\ tab[t].step = "checking" /\ UNCHANGED requests
  BY <1>1 DEF Verify, TabSound
<1>4. \A other \in DOMAIN requests : requests[other].kind \in Kinds
  BY <1>1, KindsOf
<1>5. ASSUME NEW attempts \in [Kinds -> BOOLEAN], NEW value \in {marker[k], hash},
             Become(t, Verified(t, [tab[t].proof EXCEPT ![k] = hash], attempts)),
             marker' = [marker EXCEPT ![k] = value],
             value = marker[k] \/ attempts[k],
             \A j \in Kinds : tab[t].attempted[j] => attempts[j]
      PROVE  LockInv'
  <2> DEFINE proofs == [tab[t].proof EXCEPT ![k] = hash]
             new == Verified(t, proofs, attempts)
  <2>2. /\ new \in Tab /\ new.job = tab[t].job /\ new.step = tab[t].step
        /\ new.storage = tab[t].storage /\ new.attempted = attempts
    <3>1. proofs \in [Kinds -> Hashes \cup {NoHash}]
      BY <1>1, <1>2 DEF Tab
    <3> HIDE DEF proofs
    <3> QED BY <1>1, <3>1, VerifiedIs
  <2>3. Become(t, new)
    BY <1>5
  <2> HIDE DEF new
  <2>4. /\ \A j \in Kinds : marker[j] # NoMarker => marker'[j] # NoMarker
        /\ \A j \in Kinds : (tab[t].storage /\ ~attempts[j]) => marker'[j] = NoMarker
    <3>1. hash # NoMarker
      BY <1>2, BoundsAssumption DEF Hashes, NoMarker
    <3>2. marker'[k] = value /\ \A j \in Kinds : j # k => marker'[j] = marker[j]
      BY <1>1, <1>5 DEF TypeOK
    <3>3. ASSUME NEW j \in Kinds, tab[t].storage, ~attempts[j] PROVE marker'[j] = NoMarker
      <4>1. marker'[j] = marker[j]
        BY <1>5, <3>2, <3>3
      <4>2. ~tab[t].attempted[j]
        BY <1>5, <3>3
      <4> QED BY <1>1, <3>3, <4>1, <4>2 DEF TabKnows
    <3> QED BY <3>1, <3>2, <3>3
  <2>5. UncertainStaysLocked'
    BY <1>3, <1>4, <2>4 DEF LockInv, UncertainStaysLocked
  <2> QED BY <1>3, <2>2, <2>3, <2>4, <2>5, KnowingTabStep
<1>6. CASE Become(t, [tab[t] EXCEPT !.proof[k] = NoHash]) /\ UNCHANGED marker
  <2> DEFINE new == [tab[t] EXCEPT !.proof[k] = NoHash]
  <2>1. /\ new \in Tab /\ new.job = tab[t].job /\ new.step = tab[t].step
        /\ new.storage = tab[t].storage /\ new.attempted = tab[t].attempted
    BY <1>1, UnprovedIs
  <2>2. Become(t, new)
    BY <1>6
  <2> HIDE DEF new
  <2> QED BY <1>3, <1>6, <2>1, <2>2, QuietTabStep
<1> QED BY <1>1, <1>2, <1>5, <1>6, VerifyBecomes

\* The page asks only without a marker: all earlier requests of the kind have
\* been rejected, and the marker is written first.
LEMMA AskKeepsLock ==
    ASSUME LockInv, ReadyInv', OneTab, NEW t \in Tabs, Ask(t)
    PROVE  LockInv'
<1>1. TypeOK /\ tab[t] \in Tab /\ TabKnows(tab[t]) /\ ReadyInv
  BY DEF LockInv, ReadyInv, TypeOK, AllKnow
<1> DEFINE k == tab[t].job
           hash == Len(requests) + 1
           new == [Flagged(t) EXCEPT !.step = "asked", !.tx = hash]
<1>2. /\ k \in Kinds /\ hash \in Hashes
      /\ DOMAIN requests = 1 .. Len(requests) /\ DOMAIN requests' = 1 .. hash
      /\ requests'[hash] = [kind |-> k, ready |-> tab[t].sound, st |-> "asked"]
      /\ \A i \in DOMAIN requests : requests'[i] = requests[i]
  BY <1>1, RequestAdded
<1>3. /\ k # "idle" /\ tab[t].step = "ready" /\ tab[t].storage
      /\ marker' = [marker EXCEPT ![k] = WalletRequested]
  BY DEF Ask, SaveAttempt
<1>4. ~tab[t].attempted[k] /\ marker[k] = NoMarker
  BY <1>1, <1>2, <1>3 DEF TabKnows
<1>5. \A i \in DOMAIN requests : requests[i].kind = k => requests[i].st = "rejected"
  BY <1>4 DEF LockInv, UncertainStaysLocked
<1>6. /\ new \in Tab /\ new.job = k /\ new.step = "asked" /\ new.tx = hash
      /\ new.attempted = [tab[t].attempted EXCEPT ![k] = TRUE]
      /\ new.storage = tab[t].storage
  <2> HIDE DEF hash
  <2> QED BY <1>1, <1>2, <1>3, FlaggedIs
<1>7. Become(t, new)
  BY DEF Ask
<1> HIDE DEF new
<1>8. tab'[t] = new /\ \A u \in Tabs : u = t
  BY <1>1, <1>6, <1>7, BecomeIs DEF OneTab
<1>9. Len(requests) \in Nat /\ hash \in DOMAIN requests'
      /\ DOMAIN requests' = DOMAIN requests \cup {hash} /\ hash \notin DOMAIN requests
  BY <1>1, <1>2 DEF TypeOK
<1>10. requests'[hash].kind = k /\ requests'[hash].st = "asked"
  BY <1>2
<1> HIDE DEF hash, k
<1>11. marker'[k] # NoMarker /\ \A j \in Kinds : j # k => marker'[j] = marker[j]
  BY <1>1, <1>2, <1>3 DEF TypeOK, WalletRequested, NoMarker
<1>12. \A j \in Kinds : j # k => new.attempted[j] = tab[t].attempted[j]
  BY <1>1, <1>6 DEF Tab
<1>13. new.attempted[k]
  BY <1>1, <1>2, <1>6 DEF Tab
<1>14. \A other \in DOMAIN requests' \ {hash} :
          requests'[other].kind = k => requests'[other].st = "rejected"
  BY <1>2, <1>5, <1>9
<1>15. AllKnow'
  <2>1. \A j \in Kinds : (new.storage /\ ~new.attempted[j]) => marker'[j] = NoMarker
    BY <1>1, <1>6, <1>11, <1>12, <1>13 DEF TabKnows
  <2>2. \A other \in DOMAIN requests' \ {tab'[t].tx} :
            requests'[other].kind = requests'[tab'[t].tx].kind => requests'[other].st = "rejected"
    BY <1>6, <1>8, <1>10, <1>14
  <2>3. TabKnows(tab[t])'
    BY <1>3, <1>6, <1>8, <2>1, <2>2 DEF TabKnows, OthersRejected
  <2> QED BY <1>8, <2>3 DEF AllKnow
<1>16. \A i \in DOMAIN requests : requests[i].kind \in Kinds
  BY <1>1, KindsOf
<1>17. UncertainStaysLocked'
  <2>1. ASSUME NEW i \in DOMAIN requests', requests'[i].st # "rejected"
        PROVE  marker'[requests'[i].kind] # NoMarker
    <3>1. CASE i = hash
      BY <1>10, <1>11, <3>1
    <3>2. CASE i \in DOMAIN requests
      BY <1>2, <1>5, <1>11, <1>16, <2>1, <3>2 DEF LockInv, UncertainStaysLocked
    <3> QED BY <1>9, <3>1, <3>2
  <2> QED BY <2>1 DEF UncertainStaysLocked
<1>18. OneRequestOut'
  <2>1. ASSUME NEW a \in DOMAIN requests', NEW b \in DOMAIN requests',
               requests'[a].kind = requests'[b].kind,
               requests'[a].st # "rejected", requests'[b].st # "rejected"
        PROVE  a = b
    <3>1. CASE a = hash \/ b = hash
      BY <1>10, <1>14, <2>1, <3>1
    <3>2. CASE a \in DOMAIN requests /\ b \in DOMAIN requests
      BY <1>2, <2>1, <3>2 DEF LockInv, OneRequestOut
    <3> QED BY <1>9, <3>1, <3>2
  <2> QED BY <2>1 DEF OneRequestOut
<1> QED BY <1>15, <1>17, <1>18 DEF LockInv

\* A decision only takes requests out of the race, and never brings one back.
LEMMA DecisionKeepsLock ==
    ASSUME LockInv, ReadyInv', NEW hash \in DOMAIN requests,
           requests[hash].st \in {"asked", "live"},
           NEW next \in {"rejected", "live", "mined", "reverted"},
           requests' = [requests EXCEPT ![hash].st = next], UNCHANGED <<marker, tab, broken>>
    PROVE  LockInv'
<1>1. /\ DOMAIN requests' = DOMAIN requests
      /\ \A i \in DOMAIN requests :
            /\ requests'[i].kind = requests[i].kind
            /\ requests'[i].st # "rejected" => requests[i].st # "rejected"
            /\ i # hash => requests'[i].st = requests[i].st
  BY RequestMoves DEF LockInv, ReadyInv
<1>2. UncertainStaysLocked'
  BY <1>1 DEF LockInv, UncertainStaysLocked
<1>3. OneRequestOut'
  BY <1>1 DEF LockInv, OneRequestOut
<1>4. ASSUME NEW t \in Tabs PROVE TabKnows(tab[t])'
  <2>1. TabKnows(tab[t]) /\ TabSound(tab[t])
    BY DEF LockInv, AllKnow, ReadyInv, AllSound
  <2>2. tab[t].step = "asked" => OthersRejected(tab[t].tx)'
    BY <1>1, <2>1 DEF TabKnows, TabSound, OthersRejected
  <2> QED BY <2>1, <2>2 DEF TabKnows
<1>5. AllKnow'
  BY <1>4 DEF AllKnow
<1> QED BY <1>2, <1>3, <1>5 DEF LockInv

LEMMA LockStep ==
    ASSUME LockInv, OneTab, [Next]_vars
    PROVE  LockInv'
<1>0. ReadyInv'
  BY ReadyStep DEF LockInv
<1>1. CASE UNCHANGED <<marker, tab, requests>>
  BY <1>0, <1>1 DEF LockInv, AllKnow, TabKnows, OthersRejected, UncertainStaysLocked, OneRequestOut
<1>2. UNCHANGED vars => UNCHANGED <<marker, tab, requests>>
  BY DEF vars
<1>3. ChainChanges => UNCHANGED <<marker, tab, requests>>
  BY DEF ChainChanges
<1>4. ASSUME NEW hash \in DOMAIN requests, NEW st \in {"live", "rejected"}, Decide(hash, st)
      PROVE  LockInv'
  BY <1>0, <1>4, DecisionKeepsLock DEF Decide
<1>5. ASSUME NEW hash \in DOMAIN requests, NEW st \in {"mined", "reverted"}, Mine(hash, st)
      PROVE  LockInv'
  BY <1>0, <1>5, DecisionKeepsLock DEF Mine
<1>6. ASSUME NEW t \in Tabs, NEW k \in Kinds, NEW hash \in DOMAIN requests,
             NEW saves \in BOOLEAN, Verify(t, k, hash, saves)
      PROVE  LockInv'
  BY <1>0, <1>6, VerifyKeepsLock
<1> QED BY <1>0, <1>1, <1>2, <1>3, <1>4, <1>5, <1>6, QuietKeepsLock, AskKeepsLock,
           AnswerHashKeepsLock, AnswerRejectedKeepsLock DEF Next

LEMMA LockInit == Init => LockInv
BY ReadyInit DEF Init, LockInv, AllKnow, TabKnows, UncertainStaysLocked, OneRequestOut

-----------------------------------------------------------------------------
\* The console's own state is sound for any number of tabs and requests.
THEOREM DeployReadyInvariant == Spec => []ReadyInv
<1>1. ReadyInv /\ [Next]_vars => ReadyInv'
  BY ReadyStep
<1> QED BY ReadyInit, <1>1, PTL DEF Spec

\* Every variable keeps its type.
THEOREM DeployTypeCorrect == Spec => []TypeOK
<1>1. ReadyInv => TypeOK
  BY DEF ReadyInv
<1> QED BY <1>1, DeployReadyInvariant, PTL

\* A deployment is asked for only after a true readiness check of its own click.
THEOREM DeployAskedWhenReady == Spec => []AskedWhenReady
<1>1. ReadyInv => AskedWhenReady
  BY DEF ReadyInv
<1> QED BY <1>1, DeployReadyInvariant, PTL

\* A proof shown in any tab is of a transaction of its kind that was executed.
THEOREM DeployProofIsReal == Spec => []ProofIsReal
<1>1. ReadyInv => ProofIsReal
  BY DEF ReadyInv, AllSound, TabSound, ProofIsReal
<1> QED BY <1>1, DeployReadyInvariant, PTL

\* In one tab, with any number of reloads and requests, markers, memory and
\* requests stay in the relation that protects the owner.
THEOREM DeployLockInvariant ==
    ASSUME OneTab PROVE Spec => []LockInv
<1>1. LockInv /\ [Next]_vars => LockInv'
  BY LockStep
<1> QED BY LockInit, <1>1, PTL DEF Spec

\* In one tab, a request that the owner has not rejected keeps its marker.
THEOREM DeployUncertainStaysLocked ==
    ASSUME OneTab PROVE Spec => []UncertainStaysLocked
<1>1. LockInv => UncertainStaysLocked
  BY DEF LockInv
<1> QED BY <1>1, DeployLockInvariant, PTL

\* In one tab, at most one request of a kind is not rejected.
THEOREM DeployOneRequestOut ==
    ASSUME OneTab PROVE Spec => []OneRequestOut
<1>1. LockInv => OneRequestOut
  BY DEF LockInv
<1> QED BY <1>1, DeployLockInvariant, PTL
=============================================================================
