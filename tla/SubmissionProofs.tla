-------------------------- MODULE SubmissionProofs --------------------------
(***************************************************************************)
(* The submission guard's promise for any number of tabs and requests.     *)
(* The marker in storage covers every request that can still trade.  To be *)
(* inductive this needs three more facts: the plans of requests are not    *)
(* ahead of the vault's nonce, so that a dead request never revives; an    *)
(* executed plan's nonce is consumed, so that a proof is an end; and while *)
(* a tab awaits the wallet, no request but the awaited one can trade, so   *)
(* that its late answer overwrites no other plan's marker.                 *)
(***************************************************************************)
EXTENDS SubmissionGuard, SequenceTheorems, TLAPS

\* Plans are made for the vault's current nonce or an earlier one.
PlansNotAhead ==
    /\ \A plan \in issued : plan.nonce <= nonce
    /\ \A i \in 1 .. Len(wallet) : wallet[i].plan.nonce <= nonce

\* Execution consumes the plan's nonce, here or on another device.
ExecutedIsOver ==
    /\ \A plan \in elsewhere : plan.nonce < nonce
    /\ \A i \in 1 .. Len(wallet) :
          wallet[i].state = "executed" => wallet[i].plan.nonce < nonce

\* The lock's holder awaits the only request that can still trade.
AwaitedAlone == \A t \in Tab : awaits[t] # 0 => Live \subseteq {awaits[t]}

\* One tab at a time holds the Web Lock.
OneHolder == \A t, u \in Tab : awaits[t] # 0 /\ awaits[u] # 0 => t = u

Promise == OneHolder /\ AwaitedAlone /\ NoSecondLiveRequest /\ LiveRequestIsMarked

GuardInv ==
    /\ TypeOK
    /\ PlansNotAhead /\ ExecutedIsOver
    /\ Promise

\* What a tab reads is of the plan in storage ("read").
LEMMA ReadPlan ==
    ASSUME TypeOK, NEW t \in Tab
    PROVE  /\ Read(t) = None <=> stored = None
           /\ stored # None => Read(t) \in Marker /\ Read(t).plan = stored.plan
BY NamesAssumption DEF Read, TypeOK

\* A step that lets requests only die, awaits no new one, and keeps the marker's
\* plan while anything can trade, keeps the guard's promise.
LEMMA PromiseKept ==
    ASSUME GuardInv, Live' \subseteq Live,
           \A i \in Live' : wallet'[i].plan = wallet[i].plan,
           \A t \in Tab : awaits'[t] = 0 \/ awaits'[t] = awaits[t],
           Live' # {} => stored' # None /\ stored'.plan = stored.plan
    PROVE  Promise'
<1>1. OneHolder'
  BY DEF Promise, GuardInv, OneHolder
<1>2. AwaitedAlone'
  BY DEF Promise, GuardInv, AwaitedAlone
<1>3. NoSecondLiveRequest'
  BY DEF Promise, GuardInv, NoSecondLiveRequest
<1>4. LiveRequestIsMarked'
  BY DEF Promise, GuardInv, LiveRequestIsMarked
<1> QED BY <1>1, <1>2, <1>3, <1>4 DEF Promise

\* The vault takes a plan only at its own nonce and no later than its deadline,
\* so a released plan can no longer trade.
LEMMA EndedIsDead ==
    ASSUME NEW plan \in Plan, nonce \in Nat, time \in Nat,
           Ended(plan) \/ plan.nonce < nonce
    PROVE  ~Executable(plan)
BY DEF Ended, Executable, Plan

-----------------------------------------------------------------------------
\* A request of the wallet has a plan and a state.
LEMMA RequestOf ==
    ASSUME TypeOK, NEW i \in 1 .. Len(wallet)
    PROVE  /\ wallet[i] \in Request /\ wallet[i].plan \in Plan
           /\ wallet[i].plan.nonce \in Nat /\ wallet[i].plan.deadline \in Nat
<1>1. wallet[i] \in Request
  BY DEF TypeOK
<1> QED BY <1>1 DEF Request, Plan

\* Deciding or executing a request changes its state and nothing else of the
\* wallet's history.
LEMMA RequestMoves ==
    ASSUME TypeOK, NEW i \in 1 .. Len(wallet), NEW next \in {"sent", "rejected", "executed"},
           wallet' = [wallet EXCEPT ![i].state = next]
    PROVE  /\ wallet' \in Seq(Request) /\ Len(wallet') = Len(wallet)
           /\ wallet'[i] = [plan |-> wallet[i].plan, state |-> next]
           /\ \A k \in 1 .. Len(wallet) : k # i => wallet'[k] = wallet[k]
<1> DEFINE moved == [plan |-> wallet[i].plan, state |-> next]
<1>1. wallet[i] \in Request /\ moved \in Request
  BY RequestOf DEF Request
<1>2. [wallet[i] EXCEPT !.state = next] = moved
  BY <1>1 DEF Request
<1>3. wallet \in Seq(Request)
  BY DEF TypeOK
<1>4. wallet' = [wallet EXCEPT ![i] = moved]
  BY <1>2, <1>3
<1> HIDE DEF moved
<1>5. /\ wallet' \in Seq(Request) /\ Len(wallet') = Len(wallet)
      /\ wallet'[i] = moved
      /\ \A k \in 1 .. Len(wallet) : k # i => wallet'[k] = wallet[k]
  BY <1>1, <1>3, <1>4, ExceptSeq
<1> QED BY <1>5 DEF moved

\* Writing a marker keeps the types of storage and of the tab's copy.
LEMMA WriteType ==
    ASSUME TypeOK, NEW t \in Tab, NEW marker \in Marker, NEW persists \in BOOLEAN,
           Write(t, marker, persists)
    PROVE  stored' \in Marker \cup {None} /\ memory' \in [Tab -> Marker \cup {None}]
BY DEF TypeOK, Write

\* Every step keeps the types of tabs, wallet and chain.
LEMMA GuardTypeStep ==
    ASSUME TypeOK, PlansNotAhead, [Next]_vars
    PROVE  TypeOK'
<1> USE DEF TypeOK, chainVars, tabVars
<1>1. ASSUME NEW t \in Tab, NEW plan \in issued, NEW persists \in BOOLEAN,
             NEW opens \in BOOLEAN, Submit(t, plan, persists, opens)
      PROVE  TypeOK'
  <2>1. [plan |-> plan, hash |-> NoHash] \in Marker
    BY DEF Marker
  <2>2. stored' \in Marker \cup {None} /\ memory' \in [Tab -> Marker \cup {None}]
    BY <1>1, <2>1, WriteType DEF Submit
  <2>3. CASE persists /\ opens
    <3>1. wallet' = Append(wallet, [plan |-> plan, state |-> "open"])
          /\ awaits' = [awaits EXCEPT ![t] = Len(wallet) + 1]
      BY <1>1, <2>3 DEF Submit
    <3>2. [plan |-> plan, state |-> "open"] \in Request
      BY DEF Request
    <3>3. wallet' \in Seq(Request) /\ Len(wallet') = Len(wallet) + 1
      BY <3>1, <3>2 DEF Request
    <3>4. awaits' \in [Tab -> 0 .. Len(wallet')]
      BY <3>1, <3>3
    <3>5. Len(wallet') <= MaxRequests
      BY <1>1, <2>3, <3>3, BoundsAssumption DEF Submit
    <3> QED BY <1>1, <2>2, <3>3, <3>4, <3>5 DEF Submit
  <2>4. CASE ~(persists /\ opens)
    BY <1>1, <2>2, <2>4 DEF Submit
  <2> QED BY <2>3, <2>4
<1>2. ASSUME NEW t \in Tab, Answer(t) PROVE TypeOK'
  <2>0. awaits[t] # 0 /\ awaits' = [awaits EXCEPT ![t] = 0]
    BY <1>2 DEF Answer, AnswerHash, AnswerError, Returns
  <2>1. awaits[t] \in 1 .. Len(wallet) /\ awaits' \in [Tab -> 0 .. Len(wallet)]
    BY <2>0
  <2>2. ASSUME NEW hash \in {awaits[t], Unusable}, NEW persists \in BOOLEAN,
               AnswerHash(t, hash, persists)
        PROVE  TypeOK'
    <3>1. CASE Usable(hash)
      <4>1. [plan |-> wallet[awaits[t]].plan, hash |-> hash] \in Marker
        BY <2>1, <3>1, RequestOf DEF Marker, Usable
      <4>2. Write(t, [plan |-> wallet[awaits[t]].plan, hash |-> hash], persists)
        BY <2>2, <3>1 DEF AnswerHash
      <4>3. stored' \in Marker \cup {None} /\ memory' \in [Tab -> Marker \cup {None}]
        BY <4>1, <4>2, WriteType
      <4> QED BY <2>1, <2>2, <4>3 DEF AnswerHash
    <3>2. CASE ~Usable(hash)
      BY <2>1, <2>2, <3>2 DEF AnswerHash
    <3> QED BY <3>1, <3>2
  <2>3. ASSUME NEW explicit \in BOOLEAN, AnswerError(t, explicit) PROVE TypeOK'
    BY <2>1, <2>3 DEF AnswerError, Clear
  <2> QED BY <1>2, <2>2, <2>3 DEF Answer
<1>3. ASSUME NEW t \in Tab, NEW hash \in 0 .. Len(wallet), NEW persists \in BOOLEAN,
             RememberHash(t, hash, persists)
      PROVE  TypeOK'
  <2>1. Read(t) \in Marker
    BY <1>3, ReadPlan DEF RememberHash
  <2>2. [Read(t) EXCEPT !.hash = hash] \in Marker
    <3>1. hash \in Hash
      BY BoundsAssumption DEF Hash
    <3> QED BY <2>1, <3>1 DEF Marker
  <2>3. stored' \in Marker \cup {None} /\ memory' \in [Tab -> Marker \cup {None}]
    BY <1>3, <2>2, WriteType DEF RememberHash
  <2> QED BY <1>3, <2>3 DEF RememberHash
<1>4. ASSUME NEW t \in Tab, AcceptProof(t) \/ ReleaseExpired(t) PROVE TypeOK'
  BY <1>4 DEF AcceptProof, ReleaseExpired, Clear
<1>5. ASSUME NEW t \in Tab, CloseTab(t) PROVE TypeOK'
  BY <1>5 DEF CloseTab
<1>6. ASSUME NEW i \in 1 .. Len(wallet), Execute(i) PROVE TypeOK'
  <2>1. wallet' \in Seq(Request) /\ Len(wallet') = Len(wallet)
    BY <1>6, RequestMoves DEF Execute
  <2> QED BY <1>6, <2>1 DEF Execute
<1>7. ASSUME NEW i \in 1 .. Len(wallet), NEW decision \in {"sent", "rejected"},
             Decide(i, decision)
      PROVE  TypeOK'
  BY <1>7, RequestMoves DEF Decide
<1>9. ASSUME NEW plan \in issued, ExecuteElsewhere(plan) PROVE TypeOK'
  BY <1>9 DEF ExecuteElsewhere
<1>10. CASE IssuePlan
  <2>1. [nonce |-> nonce, deadline |-> time + PlanLife] \in Plan
    BY BoundsAssumption DEF Plan
  <2> QED BY <1>10, <2>1 DEF IssuePlan
<1>11. CASE Tick
  BY <1>11 DEF Tick
<1>8. CASE UNCHANGED vars
  BY <1>8 DEF vars
<1> QED
  BY <1>1, <1>2, <1>3, <1>4, <1>5, <1>6, <1>7, <1>8, <1>9, <1>10, <1>11
     DEF Next, TabStep, Outside

-----------------------------------------------------------------------------
\* The vault's nonce and clock only grow, so a request that cannot trade any
\* more never can again.
LEMMA LiveShrinks ==
    ASSUME TypeOK, PlansNotAhead, nonce' \in Nat, time' \in Nat,
           nonce' >= nonce, time' >= time, Len(wallet') = Len(wallet),
           \A i \in 1 .. Len(wallet) :
              /\ wallet'[i].plan = wallet[i].plan
              /\ wallet'[i].state \in {"open", "sent"} => wallet[i].state \in {"open", "sent"}
    PROVE  Live' \subseteq Live
<1>1. SUFFICES ASSUME NEW i \in Live' PROVE i \in Live
  OBVIOUS
<1>2. i \in 1 .. Len(wallet)
  BY DEF Live
<1>3. /\ wallet[i].plan.nonce \in Nat /\ wallet[i].plan.deadline \in Nat
      /\ wallet[i].plan.nonce <= nonce
  BY <1>2, RequestOf DEF PlansNotAhead
<1>4. wallet[i].plan.nonce = nonce' /\ time' <= wallet[i].plan.deadline
  BY <1>2 DEF Live, Executable
<1>5. Executable(wallet[i].plan)
  BY <1>3, <1>4 DEF Executable, TypeOK
<1> QED BY <1>2, <1>5 DEF Live

\* A step of a tab that asks the wallet for nothing leaves the chain and the
\* wallet as they are.
LEMMA LiveUnchanged ==
    ASSUME UNCHANGED <<wallet, chainVars>>
    PROVE  Live' = Live
BY DEF chainVars, Live, Executable

\* The marker a tab reads is of a plan that can trade only if no end of it was
\* seen: a proof or a release clears nothing alive.
LEMMA NothingAlive ==
    ASSUME GuardInv, NEW t \in Tab, Read(t) # None,
           Proved(Read(t).plan, Read(t).hash) \/ Ended(Read(t).plan)
    PROVE  Live = {}
<1> USE DEF Promise, GuardInv
<1>1. Read(t) \in Marker /\ stored # None /\ Read(t).plan = stored.plan
  BY ReadPlan
<1>2. stored.plan \in Plan
  BY <1>1 DEF Marker
<1>3. Ended(stored.plan) \/ stored.plan.nonce < nonce
  <2>1. CASE Ended(Read(t).plan)
    BY <2>1, <1>1
  <2>2. CASE Proved(Read(t).plan, Read(t).hash)
    BY <2>2, <1>1 DEF Proved, ExecutedIsOver
  <2> QED BY <2>1, <2>2
<1>4. ~Executable(stored.plan)
  BY <1>2, <1>3, EndedIsDead DEF TypeOK
<1> QED BY <1>4 DEF LiveRequestIsMarked, Live

\* Plans are made for the nonce the vault has, and execution moves it on.
LEMMA PlansStep ==
    ASSUME GuardInv, [Next]_vars
    PROVE  PlansNotAhead' /\ ExecutedIsOver'
<1> TypeOK /\ PlansNotAhead /\ ExecutedIsOver
  BY DEF GuardInv
<1>1. ASSUME NEW t \in Tab, NEW plan \in issued, NEW persists \in BOOLEAN,
             NEW opens \in BOOLEAN, Submit(t, plan, persists, opens)
      PROVE  PlansNotAhead' /\ ExecutedIsOver'
  <2>1. CASE persists /\ opens
    <3>1. /\ Len(wallet') = Len(wallet) + 1
          /\ wallet'[Len(wallet) + 1] = [plan |-> plan, state |-> "open"]
          /\ \A i \in 1 .. Len(wallet) : wallet'[i] = wallet[i]
      BY <1>1, <2>1 DEF Submit, TypeOK
    <3>2. \A i \in 1 .. Len(wallet') : i \in 1 .. Len(wallet) \/ i = Len(wallet) + 1
      BY <3>1 DEF TypeOK
    <3>3. nonce' = nonce /\ issued' = issued /\ elsewhere' = elsewhere
      BY <1>1 DEF Submit, chainVars
    <3>4. PlansNotAhead'
      BY <3>1, <3>2, <3>3 DEF PlansNotAhead
    <3>5. ExecutedIsOver'
      BY <3>1, <3>2, <3>3 DEF ExecutedIsOver
    <3> QED BY <3>4, <3>5
  <2>2. CASE ~(persists /\ opens)
    BY <1>1, <2>2 DEF Submit, chainVars, PlansNotAhead, ExecutedIsOver
  <2> QED BY <2>1, <2>2
<1>2. ASSUME UNCHANGED <<wallet, chainVars>>
      PROVE  PlansNotAhead' /\ ExecutedIsOver'
  BY <1>2 DEF chainVars, PlansNotAhead, ExecutedIsOver
<1>3. ASSUME NEW i \in 1 .. Len(wallet), Execute(i)
      PROVE  PlansNotAhead' /\ ExecutedIsOver'
  <2>1. /\ Len(wallet') = Len(wallet) /\ wallet'[i].plan = wallet[i].plan
        /\ \A k \in 1 .. Len(wallet) : k # i => wallet'[k] = wallet[k]
    BY <1>3, RequestMoves DEF Execute
  <2>2. nonce' = nonce + 1 /\ wallet[i].plan.nonce = nonce /\ nonce \in Nat
    BY <1>3 DEF Execute, Executable, TypeOK
  <2>3. /\ \A k \in 1 .. Len(wallet) : wallet[k].plan.nonce \in Nat
        /\ \A plan \in issued : plan.nonce \in Nat
    BY RequestOf DEF TypeOK, Plan
  <2>4. PlansNotAhead'
    BY <1>3, <2>1, <2>2, <2>3 DEF Execute, PlansNotAhead
  <2>5. \A k \in 1 .. Len(wallet) :
           wallet'[k].state = "executed" => wallet'[k].plan.nonce < nonce'
    BY <2>1, <2>2, <2>3 DEF ExecutedIsOver
  <2>6. \A plan \in elsewhere : plan.nonce < nonce'
    BY <2>2, <2>3 DEF ExecutedIsOver, TypeOK
  <2> QED BY <1>3, <2>1, <2>4, <2>5, <2>6 DEF Execute, ExecutedIsOver
<1>4. ASSUME NEW i \in 1 .. Len(wallet), NEW decision \in {"sent", "rejected"},
             Decide(i, decision)
      PROVE  PlansNotAhead' /\ ExecutedIsOver'
  <2>1. /\ Len(wallet') = Len(wallet)
        /\ wallet'[i] = [plan |-> wallet[i].plan, state |-> decision]
        /\ \A k \in 1 .. Len(wallet) : k # i => wallet'[k] = wallet[k]
    BY <1>4, RequestMoves DEF Decide
  <2>2. nonce' = nonce /\ issued' = issued /\ elsewhere' = elsewhere
    BY <1>4 DEF Decide, chainVars
  <2>3. PlansNotAhead'
    BY <2>1, <2>2 DEF PlansNotAhead
  <2>4. ExecutedIsOver'
    BY <2>1, <2>2 DEF ExecutedIsOver
  <2> QED BY <2>3, <2>4
<1>5. ASSUME NEW plan \in issued, ExecuteElsewhere(plan)
      PROVE  PlansNotAhead' /\ ExecutedIsOver'
  <2>1. /\ \A k \in 1 .. Len(wallet) : wallet[k].plan.nonce \in Nat
        /\ \A other \in issued : other.nonce \in Nat
        /\ nonce \in Nat /\ elsewhere \subseteq issued
    BY RequestOf DEF TypeOK, Plan
  <2> QED
    BY <1>5, <2>1 DEF ExecuteElsewhere, Executable, tabVars, PlansNotAhead, ExecutedIsOver
<1>6. CASE IssuePlan
  BY <1>6 DEF IssuePlan, PlansNotAhead, ExecutedIsOver, TypeOK
<1>7. CASE Tick
  BY <1>7 DEF Tick, PlansNotAhead, ExecutedIsOver
<1>8. CASE UNCHANGED vars
  BY <1>2, <1>8 DEF vars
<1>9. ASSUME NEW t \in Tab,
             \/ Answer(t) \/ AcceptProof(t) \/ ReleaseExpired(t) \/ CloseTab(t)
             \/ \E hash \in 0 .. Len(wallet), persists \in BOOLEAN : RememberHash(t, hash, persists)
      PROVE  UNCHANGED <<wallet, chainVars>>
  BY <1>9 DEF Answer, AnswerHash, AnswerError, AcceptProof, ReleaseExpired, CloseTab, RememberHash
<1> QED
  BY <1>1, <1>2, <1>3, <1>4, <1>5, <1>6, <1>7, <1>8, <1>9 DEF Next, TabStep, Outside

\* The marker and the lock keep their promise in every step: a new request
\* finds no other alive and marks itself first, a clear finds none alive, and
\* everything else keeps the marker's plan.
LEMMA PromiseStep ==
    ASSUME GuardInv, [Next]_vars
    PROVE  Promise'
<1> TypeOK /\ PlansNotAhead
  BY DEF GuardInv
<1>1. ASSUME NEW t \in Tab, NEW plan \in issued, NEW persists \in BOOLEAN,
             NEW opens \in BOOLEAN, Submit(t, plan, persists, opens)
      PROVE  Promise'
  <2>1. stored = None /\ Live = {}
    BY <1>1, ReadPlan DEF Submit, Promise, GuardInv, LiveRequestIsMarked
  <2>2. CASE persists /\ opens
    <3>1. /\ Len(wallet') = Len(wallet) + 1
          /\ wallet'[Len(wallet) + 1] = [plan |-> plan, state |-> "open"]
          /\ \A i \in 1 .. Len(wallet) : wallet'[i] = wallet[i]
      BY <1>1, <2>2 DEF Submit, TypeOK
    <3>2. Live' \subseteq {Len(wallet) + 1}
      <4>1. \A i \in 1 .. Len(wallet') : i \in 1 .. Len(wallet) \/ i = Len(wallet) + 1
        BY <3>1 DEF TypeOK
      <4>2. nonce' = nonce /\ time' = time
        BY <1>1 DEF Submit, chainVars
      <4> QED BY <2>1, <3>1, <4>1, <4>2 DEF Live, Executable
    <3>3. /\ awaits' = [awaits EXCEPT ![t] = Len(wallet) + 1]
          /\ \A u \in Tab : awaits[u] = 0
          /\ stored' = [plan |-> plan, hash |-> NoHash]
      BY <1>1, <2>2 DEF Submit, LockFree, Write
    <3>4. stored' # None
      <4>1. stored' \in Marker
        BY <3>3 DEF Marker, TypeOK
      <4> QED BY <4>1, NamesAssumption
    <3>5. OneHolder' /\ AwaitedAlone'
      BY <3>2, <3>3 DEF OneHolder, AwaitedAlone, TypeOK
    <3>6. NoSecondLiveRequest' /\ LiveRequestIsMarked'
      BY <3>1, <3>2, <3>3, <3>4 DEF NoSecondLiveRequest, LiveRequestIsMarked
    <3> QED BY <3>5, <3>6 DEF Promise
  <2>3. CASE ~(persists /\ opens)
    <3>1. wallet' = wallet /\ awaits' = awaits /\ UNCHANGED chainVars
      BY <1>1, <2>3 DEF Submit
    <3>2. Live' = {}
      BY <2>1, <3>1, LiveUnchanged
    <3> QED BY <3>1, <3>2, PromiseKept
  <2> QED BY <2>2, <2>3
<1>2. ASSUME NEW t \in Tab, NEW hash \in {awaits[t], Unusable}, NEW persists \in BOOLEAN,
             AnswerHash(t, hash, persists)
      PROVE  Promise'
  <2>1. /\ Live' = Live /\ wallet' = wallet
        /\ awaits[t] # 0 /\ awaits' = [awaits EXCEPT ![t] = 0]
    BY <1>2, LiveUnchanged DEF AnswerHash, Returns
  <2>2. ASSUME Live # {} PROVE stored' # None /\ stored'.plan = stored.plan
    <3>1. PICK i \in Live : i = awaits[t]
      BY <2>1, <2>2 DEF Promise, GuardInv, AwaitedAlone
    <3>2. stored # None /\ stored.plan = wallet[awaits[t]].plan
      BY <3>1 DEF Promise, GuardInv, LiveRequestIsMarked
    <3>3. CASE Usable(hash) /\ persists
      <4>1. stored' = [plan |-> wallet[awaits[t]].plan, hash |-> hash]
        BY <1>2, <3>3 DEF AnswerHash, Write
      <4>2. stored' \in Marker
        <5>1. awaits[t] \in 1 .. Len(wallet)
          BY <2>1 DEF TypeOK
        <5> QED BY <3>3, <4>1, <5>1, RequestOf DEF Marker, Usable
      <4> QED BY <3>2, <4>1, <4>2, NamesAssumption
    <3>4. CASE ~(Usable(hash) /\ persists)
      <4>1. stored' = stored
        BY <1>2, <3>4 DEF AnswerHash, Write
      <4> QED BY <3>2, <4>1
    <3> QED BY <3>3, <3>4
  <2>3. \A u \in Tab : awaits'[u] = 0 \/ awaits'[u] = awaits[u]
    BY <2>1 DEF TypeOK
  <2> QED BY <2>1, <2>2, <2>3, PromiseKept
<1>3. ASSUME NEW t \in Tab, NEW explicit \in BOOLEAN, AnswerError(t, explicit)
      PROVE  Promise'
  <2>1. /\ Live' = Live /\ wallet' = wallet
        /\ awaits[t] # 0 /\ awaits' = [awaits EXCEPT ![t] = 0]
    BY <1>3, LiveUnchanged DEF AnswerError, Returns
  <2>2. \A u \in Tab : awaits'[u] = 0 \/ awaits'[u] = awaits[u]
    BY <2>1 DEF TypeOK
  <2>3. CASE explicit
    <3>1. wallet[awaits[t]].state = "rejected"
      BY <1>3, <2>3 DEF AnswerError
    <3>2. Live = {}
      BY <2>1, <3>1 DEF Promise, GuardInv, AwaitedAlone, Live
    <3> QED BY <2>1, <2>2, <3>2, PromiseKept
  <2>4. CASE ~explicit
    <3>1. stored' = stored
      BY <1>3, <2>4 DEF AnswerError, ClearsOn
    <3> QED BY <2>1, <2>2, <3>1, PromiseKept DEF Promise, GuardInv, LiveRequestIsMarked
  <2> QED BY <2>3, <2>4
<1>4. ASSUME NEW t \in Tab, NEW hash \in 0 .. Len(wallet), NEW persists \in BOOLEAN,
             RememberHash(t, hash, persists)
      PROVE  Promise'
  <2>1. Live' = Live /\ wallet' = wallet /\ awaits' = awaits
    BY <1>4, LiveUnchanged DEF RememberHash
  <2>2. Read(t) \in Marker /\ stored # None /\ Read(t).plan = stored.plan
    BY <1>4, ReadPlan DEF RememberHash
  <2>3. stored' # None /\ stored'.plan = stored.plan
    <3>1. CASE persists
      <4>1. stored' = [Read(t) EXCEPT !.hash = hash]
        BY <1>4, <3>1 DEF RememberHash, Write
      <4>2. hash \in Hash
        BY BoundsAssumption DEF Hash, TypeOK
      <4>3. stored' \in Marker /\ stored'.plan = Read(t).plan
        BY <2>2, <4>1, <4>2 DEF Marker
      <4> QED BY <2>2, <4>3, NamesAssumption
    <3>2. CASE ~persists
      BY <1>4, <2>2, <3>2 DEF RememberHash, Write
    <3> QED BY <3>1, <3>2
  <2> QED BY <2>1, <2>3, PromiseKept
<1>5. ASSUME NEW t \in Tab, AcceptProof(t) \/ ReleaseExpired(t) PROVE Promise'
  <2>1. wallet' = wallet /\ awaits' = awaits /\ Live' = Live
    BY <1>5, LiveUnchanged DEF AcceptProof, ReleaseExpired
  <2>2. Live = {}
    BY <1>5, NothingAlive DEF AcceptProof, ReleaseExpired
  <2> QED BY <2>1, <2>2, PromiseKept
<1>6. ASSUME NEW t \in Tab, CloseTab(t) PROVE Promise'
  <2>1. /\ wallet' = wallet /\ stored' = stored /\ Live' = Live
        /\ awaits' = [awaits EXCEPT ![t] = 0]
    BY <1>6, LiveUnchanged DEF CloseTab
  <2>2. \A u \in Tab : awaits'[u] = 0 \/ awaits'[u] = awaits[u]
    BY <2>1 DEF TypeOK
  <2> QED BY <2>1, <2>2, PromiseKept DEF Promise, GuardInv, LiveRequestIsMarked
<1>7. ASSUME Live' \subseteq Live, UNCHANGED tabVars,
             \A i \in 1 .. Len(wallet) : wallet'[i].plan = wallet[i].plan
      PROVE  Promise'
  <2>1. \A i \in Live' : wallet'[i].plan = wallet[i].plan
    BY <1>7 DEF Live
  <2>2. Live # {} => stored # None
    BY DEF Promise, GuardInv, LiveRequestIsMarked
  <2>3. stored' = stored /\ awaits' = awaits
    BY <1>7 DEF tabVars
  <2> QED BY <1>7, <2>1, <2>2, <2>3, PromiseKept
<1>8. ASSUME NEW i \in 1 .. Len(wallet),
             Execute(i) \/ \E decision \in {"sent", "rejected"} : Decide(i, decision)
      PROVE  Promise'
  <2>1. /\ wallet[i].state \in {"open", "sent"}
        /\ \E next \in {"sent", "rejected", "executed"} :
              wallet' = [wallet EXCEPT ![i].state = next]
        /\ UNCHANGED tabVars /\ nonce' \in {nonce, nonce + 1} /\ time' = time
    BY <1>8 DEF Execute, Decide, chainVars
  <2>2. /\ Len(wallet') = Len(wallet) /\ wallet'[i].plan = wallet[i].plan
        /\ \A k \in 1 .. Len(wallet) : k # i => wallet'[k] = wallet[k]
    BY <2>1, RequestMoves
  <2>3. nonce' \in Nat /\ nonce' >= nonce /\ time' \in Nat /\ time' >= time
    BY <2>1 DEF TypeOK
  <2>4. Live' \subseteq Live
    BY <2>1, <2>2, <2>3, LiveShrinks
  <2> QED BY <1>7, <2>1, <2>2, <2>4
<1>9. ASSUME wallet' = wallet, UNCHANGED tabVars, nonce' \in {nonce, nonce + 1},
             time' \in {time, time + 1}
      PROVE  Promise'
  <2>1. nonce' \in Nat /\ nonce' >= nonce /\ time' \in Nat /\ time' >= time
    BY <1>9 DEF TypeOK
  <2>2. Live' \subseteq Live
    BY <1>9, <2>1, LiveShrinks
  <2> QED BY <1>7, <1>9, <2>2
<1>10. ASSUME NEW plan \in issued, ExecuteElsewhere(plan) PROVE Promise'
  BY <1>9, <1>10 DEF ExecuteElsewhere
<1>11. CASE IssuePlan \/ Tick
  BY <1>9, <1>11 DEF IssuePlan, Tick
<1>12. CASE UNCHANGED vars
  BY <1>9, <1>12 DEF vars, chainVars
<1>13. ASSUME NEW t \in Tab, Answer(t) PROVE Promise'
  BY <1>2, <1>3, <1>13 DEF Answer
<1>14. ASSUME NEW t \in Tab, TabStep(t) PROVE Promise'
  BY <1>1, <1>4, <1>5, <1>6, <1>13, <1>14 DEF TabStep
<1>15. CASE Outside
  BY <1>8, <1>10, <1>11, <1>15 DEF Outside
<1>16. Promise'
  BY <1>12, <1>14, <1>15 DEF Next
<1> QED BY <1>16

\* At the start nothing is marked, asked or executed.
LEMMA GuardInit == Init => GuardInv
<1> SUFFICES ASSUME Init PROVE GuardInv
  OBVIOUS
<1>1. wallet = <<>> /\ Len(wallet) = 0
  BY DEF Init
<1>2. Live = {}
  BY <1>1 DEF Live
<1>3. TypeOK
  BY <1>1, BoundsAssumption DEF Init, TypeOK
<1> QED
  BY <1>1, <1>2, <1>3
     DEF Init, Promise, GuardInv, PlansNotAhead, ExecutedIsOver, OneHolder, AwaitedAlone,
         NoSecondLiveRequest, LiveRequestIsMarked

\* The inductive invariant of submit, rememberHash, acceptProof, releaseExpired.
THEOREM GuardInvariant == Spec => []GuardInv
<1>1. GuardInv /\ [Next]_vars => GuardInv'
  BY GuardTypeStep, PlansStep, PromiseStep DEF GuardInv
<1> QED BY GuardInit, <1>1, PTL DEF Spec

\* Storage, tabs, wallet and chain stay well formed (submission.js).
THEOREM GuardTypeCorrect == Spec => []TypeOK
<1>1. GuardInv => TypeOK
  BY DEF GuardInv
<1> QED BY GuardInvariant, <1>1, PTL

\* However many tabs are open, at most one wallet request can still trade
\* (submit under the Web Lock).
THEOREM GuardNoSecondLiveRequest == Spec => []NoSecondLiveRequest
<1>1. GuardInv => NoSecondLiveRequest
  BY DEF Promise, GuardInv
<1> QED BY GuardInvariant, <1>1, PTL

\* A request that can still trade has its marker in storage, whatever tab
\* crashes, failed writes, late answers and proofs in other tabs came between.
THEOREM GuardLiveRequestIsMarked == Spec => []LiveRequestIsMarked
<1>1. GuardInv => LiveRequestIsMarked
  BY DEF Promise, GuardInv
<1> QED BY GuardInvariant, <1>1, PTL
=============================================================================
