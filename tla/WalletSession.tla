---------------------------- MODULE WalletSession ----------------------------
(***************************************************************************)
(* A page's connection to the user's wallet (site/bsc/wallet-session.js)   *)
(* and the sessions of the service (src/bsc/auth.ts): the console logs in  *)
(* with a signed challenge (walletSession), the setup page only binds its  *)
(* requests to the connected account (testnetWalletConnection).  What      *)
(* JavaScript runs between two awaits is one step.                         *)
(*                                                                         *)
(* The wallet's events and answers reach the page in the order they were   *)
(* sent; the service's replies are independent of them and may be lost.    *)
(* Other clients log in meanwhile.  Expiry is a step of its own, at any    *)
(* time.  The page's button handlers run one at a time ("busy").           *)
(***************************************************************************)
EXTENDS Integers, Sequences, FiniteSets

CONSTANTS
    MaxChanges,       \* bounds of the model: what the user does in the wallet,
    MaxNonces,        \* challenges issued
    MaxChallenges,    \* the service's limits: challenges outstanding
    MaxSessions       \* and sessions (100 of each)

ASSUME BoundsAssumption ==
    {MaxChanges, MaxNonces, MaxChallenges, MaxSessions} \subseteq Nat

VARIABLES
    login,        \* whether the page logs in: the console, not the setup page
    wallet,       \* the wallet's account and network
    inbox,        \* messages of the wallet under way to the page
    conn,         \* the page's connection, NoConn when it has none
    job,          \* the button handler that runs
    issued, challenges, exchanges, sessions,  \* WalletSessions; an exchange awaits verifyMessage
    logouts,      \* tokens whose logout request is under way
    lost,         \* history: tokens that a lost request or reply leaves to expiry
    minted,       \* history: the challenge each token was issued for, by token
    told          \* history: what the wallet last told the page

pageVars == <<conn, job, told>>
serviceVars == <<issued, challenges, exchanges, sessions, minted>>
vars == <<login, wallet, inbox, pageVars, serviceVars, logouts, lost>>

Accounts == {"owner", "operator", "stranger"}
Allowed == {"owner", "operator"}
Networks == {"testnet", "mainnet"}
None == "none"
Nothing == 0       \* no nonce, no token, no reply yet
Refused == -1      \* the service refused, or could not be reached
Unauthorized == -2 \* HTTP 401

Event == [type : {"account", "network", "disconnect"}, value : Accounts \cup Networks \cup {None}]
Message == Event \cup [type : {"answer"}, value : Accounts \cup Networks \cup {"ok", "rejected"}]

NoConn == [current |-> FALSE, account |-> None, pending |-> <<>>, switching |-> FALSE,
           token |-> Nothing, expired |-> FALSE]

\* What a handler awaits (at), what it does after a check (then), whether its
\* request is still to be served (open), its challenge or credential (given), and
\* the service's reply.
Idle == [at |-> "idle", then |-> None, open |-> FALSE, given |-> Nothing, reply |-> Nothing]
WalletSteps == {"accounts", "network", "switch", "chain", "owner", "sign", "send"}
ServiceSteps == {"challenge", "session", "prepare"}
Await(step, then) == [job EXCEPT !.at = step, !.then = then, !.open = TRUE, !.reply = Nothing]

-----------------------------------------------------------------------------
\* The page.

\* clear: a token that the connection held is revoked.
Become(c) ==
    /\ conn' = c
    /\ logouts' = logouts \cup ({conn.token} \ {c.token, Nothing})

\* A handler that throws; connect clears its context as well.
Throw(c) == job' = Idle /\ Become(c)

\* The message handled is the oldest one.
Receive ==
    /\ inbox' = Tail(inbox)
    /\ UNCHANGED <<login, wallet, serviceVars, lost>>

Tell(message) ==
    told' = IF ~conn.current THEN told
            ELSE [account |-> IF message.value \in Accounts THEN message.value ELSE told.account,
                  network |-> IF message.value \in Networks THEN message.value ELSE told.network]

\* onEvent: what ends a connection, the latter two once its account is known.
Ends(c, e) ==
    c.current /\ \/ e.type = "disconnect"
                 \/ e.type = "account" /\ c.account \notin {None, e.value}
                 \/ /\ e.type = "network" /\ e.value # "testnet"
                    /\ c.account # None /\ ~c.switching

\* Until the account is known events are deferred, which a repeated state survives.
Heard(c, e) ==
    IF Ends(c, e) THEN NoConn
    ELSE IF c.current /\ c.account = None THEN [c EXCEPT !.pending = Append(@, e)]
    ELSE c

Replayed(c, events) == IF \E i \in DOMAIN events : Ends(c, events[i]) THEN NoConn ELSE c

WalletEvent ==
    /\ inbox # <<>> /\ Head(inbox).type # "answer"
    /\ Become(Heard(conn, Head(inbox)))
    /\ Tell(Head(inbox))
    /\ UNCHANGED job
    /\ Receive

\* The connect button.  A connection that is not logged in is replaced.
Connect ==
    /\ job = Idle /\ (~conn.current \/ conn.expired)
    /\ Become([NoConn EXCEPT !.current = TRUE])
    /\ job' = Await("accounts", None)
    /\ told' = [account |-> None, network |-> None]
    /\ UNCHANGED <<login, wallet, inbox, serviceVars, lost>>

\* The same button once connected, or the clock: the timer, or the first use
\* of an expired session.
Disconnect ==
    /\ conn.current /\ (job = Idle \/ conn.expired)
    /\ Become(NoConn)
    /\ UNCHANGED <<login, wallet, inbox, job, told, serviceVars, lost>>

Expires ==
    /\ conn.token # Nothing /\ ~conn.expired
    /\ conn' = [conn EXCEPT !.expired = TRUE]
    /\ UNCHANGED <<login, wallet, inbox, job, told, serviceVars, logouts, lost>>

Answered(step) == job.at = step /\ inbox # <<>> /\ Head(inbox).type = "answer"
Answer == Head(inbox).value

\* eth_requestAccounts: the events deferred so far are replayed for the account.
AccountsAnswered ==
    /\ Answered("accounts")
    /\ LET c == Replayed([conn EXCEPT !.account = Answer, !.pending = <<>>], conn.pending)
       IN  IF conn.current /\ Answer # "rejected" /\ c.current
           THEN Become(c) /\ job' = Await("network", None)
           ELSE Throw(NoConn)
    /\ Tell(Head(inbox)) /\ Receive

AfterSwitch == Await("chain", IF login THEN "challenge" ELSE "connected")

\* switchToBscTestnet: asks for a switch unless the wallet is there.
NetworkAnswered ==
    /\ Answered("network")
    /\ IF ~conn.current \/ Answer = "rejected" THEN Throw(NoConn)
       ELSE IF Answer = "testnet" THEN job' = AfterSwitch /\ Become(conn)
       ELSE job' = Await("switch", None) /\ Become([conn EXCEPT !.switching = TRUE])
    /\ Tell(Head(inbox)) /\ Receive

\* Faulty variant: without its finally, the flag of a switch stays up.
StillSwitching == conn

Switched == [conn EXCEPT !.switching = FALSE]

SwitchAnswered ==
    /\ Answered("switch")
    /\ IF ~conn.current \/ Answer = "rejected" THEN Throw(NoConn)
       ELSE job' = AfterSwitch /\ Become(Switched)
    /\ Tell(Head(inbox)) /\ Receive

LoggedIn == conn.token # Nothing /\ ~conn.expired

\* assert(context, authenticated), as each point of a handler calls it.
AssertContext == conn.current /\ (login /\ job.then \in {"connected", "submit", "send"} => LoggedIn)

\* check: each of its answers must be the connection's own.  A wallet that
\* fails to answer ends a send, and a connection that is being made.
Checked(step, expected, next) ==
    /\ Answered(step)
    /\ IF AssertContext /\ Answer = expected THEN job' = next /\ Become(conn)
       ELSE IF AssertContext /\ Answer = "rejected" /\ job.then \in {"submit", "send"} THEN Throw(conn)
       ELSE Throw(NoConn)
    /\ Tell(Head(inbox)) /\ Receive

\* What a completed check leads to; execute checks before its guard and in send.
AfterCheck ==
    CASE job.then = "connected" -> Idle
      [] job.then = "submit" -> Await("chain", "send")
      [] OTHER -> Await(job.then, None)

ChainAnswered == Checked("chain", "testnet", Await("owner", job.then))
OwnerAnswered == Checked("owner", conn.account, AfterCheck)

\* personal_sign answered, or refused.
SignAnswered ==
    /\ Answered("sign")
    /\ IF conn.current /\ Answer # "rejected" THEN job' = Await("chain", "session") /\ Become(conn)
       ELSE Throw(NoConn)
    /\ Tell(Head(inbox)) /\ Receive

SendAnswered ==
    /\ Answered("send")
    /\ Throw(conn)
    /\ Tell(Head(inbox)) /\ Receive

Replied(step) == job.at = step /\ job.reply # Nothing

\* Faulty variant: the request to sign does not wait for an account of its own.
StillBound == TRUE

\* assert(context, false) once the challenge is there.
Bound == conn.current

ChallengeReplied ==
    /\ Replied("challenge")
    /\ IF Bound /\ job.reply > 0
       THEN job' = [Await("sign", None) EXCEPT !.given = job.reply] /\ Become(conn)
       ELSE Throw(NoConn)
    /\ UNCHANGED <<login, wallet, inbox, told, serviceVars, lost>>

\* Faulty variant: a token that comes too late is dropped.
Dropped(token) == logouts

Orphaned(token) == logouts \cup {token}

\* The exchange's reply: an orphan is revoked; a token that is already
\* expired (late) is rejected.
SessionReplied(late) ==
    /\ Replied("session")
    /\ IF job.reply > 0 /\ ~conn.current
       THEN logouts' = Orphaned(job.reply) /\ job' = Idle /\ UNCHANGED conn
       ELSE IF job.reply > 0 /\ ~late
       THEN conn' = [conn EXCEPT !.token = job.reply] /\ job' = Await("chain", "connected")
            /\ UNCHANGED logouts
       ELSE /\ job' = Idle /\ conn' = NoConn
            /\ logouts' = logouts \cup ({job.reply} \cap DOMAIN minted)
    /\ UNCHANGED <<login, wallet, inbox, told, serviceVars, lost>>

\* Handlers of a connected page: a rebalance checks at once, an owner action
\* (funding, pause) first asks the service for its transaction; the setup
\* page sends after one check.
Execute ==
    /\ job = Idle /\ conn.current /\ (login => LoggedIn)
    /\ job' = Await("chain", IF login THEN "submit" ELSE "send")
    /\ UNCHANGED <<login, wallet, inbox, conn, told, serviceVars, logouts, lost>>

OwnerAction ==
    /\ job = Idle /\ login /\ conn.current /\ LoggedIn /\ conn.account = "owner"
    /\ job' = [Await("prepare", None) EXCEPT !.given = conn.token]
    /\ UNCHANGED <<login, wallet, inbox, conn, told, serviceVars, logouts, lost>>

\* api: a 401 clears the session that asked; a reply for a session that is no
\* longer the page's is an error.
PrepareReplied ==
    /\ Replied("prepare")
    /\ IF job.reply > 0 /\ conn.current /\ LoggedIn
       THEN job' = Await("chain", "send") /\ Become(conn)
       ELSE Throw(IF job.reply = Unauthorized \/ conn.expired THEN NoConn ELSE conn)
    /\ UNCHANGED <<login, wallet, inbox, told, serviceVars, lost>>

Page ==
    \/ WalletEvent \/ Connect \/ Disconnect \/ Expires
    \/ AccountsAnswered \/ NetworkAnswered \/ SwitchAnswered \/ ChainAnswered
    \/ OwnerAnswered \/ SignAnswered \/ SendAnswered
    \/ ChallengeReplied \/ (\E late \in BOOLEAN : SessionReplied(late))
    \/ Execute \/ OwnerAction \/ PrepareReplied

-----------------------------------------------------------------------------
\* The wallet: the user switches account or network or disconnects, and
\* answers what the page asks.
Emit(messages) ==
    /\ inbox' = inbox \o messages
    /\ UNCHANGED <<login, conn, told, serviceVars, logouts, lost>>

UserChanges ==
    /\ wallet.changes < MaxChanges
    /\ \/ \E a \in Accounts \ {wallet.account} :
             /\ wallet' = [wallet EXCEPT !.account = a, !.changes = @ + 1]
             /\ Emit(<<[type |-> "account", value |-> a]>>)
       \/ \E n \in Networks \ {wallet.network} :
             /\ wallet' = [wallet EXCEPT !.network = n, !.changes = @ + 1]
             /\ Emit(<<[type |-> "network", value |-> n]>>)
       \/ /\ wallet' = [wallet EXCEPT !.changes = @ + 1]
          /\ Emit(<<[type |-> "disconnect", value |-> None]>>)
    /\ UNCHANGED job

Truth ==
    CASE job.at \in {"accounts", "owner"} -> wallet.account
      [] job.at \in {"network", "chain"} -> wallet.network
      [] OTHER -> "ok"

WalletAnswers ==
    /\ job.at \in WalletSteps /\ job.open
    /\ job' = [job EXCEPT !.open = FALSE]
    /\ \/ /\ Emit(<<[type |-> "answer", value |-> "rejected"]>>)
          /\ UNCHANGED wallet
       \/ /\ wallet' = IF job.at = "switch" THEN [wallet EXCEPT !.network = "testnet"] ELSE wallet
          /\ Emit((IF wallet' = wallet THEN <<>> ELSE <<[type |-> "network", value |-> "testnet"]>>)
                     \o <<[type |-> "answer", value |-> Truth]>>)

-----------------------------------------------------------------------------
\* The service.

Open(records) == {r \in records : ~r.expired}

\* Who asks: the page's handler, which awaits the reply, or another client.
Serve(by, step) == by = "page" => job.at = step /\ job.open
Reply(by, value) ==
    job' = IF by = "page" THEN [job EXCEPT !.open = FALSE, !.reply = value] ELSE job

\* challenge: expired ones are dropped before the limit is looked at.
Challenge(by, account) ==
    /\ Serve(by, "challenge") /\ issued < MaxNonces
    /\ IF Cardinality(Open(challenges)) < MaxChallenges /\ account \in Allowed
       THEN /\ issued' = issued + 1
            /\ challenges' = Open(challenges) \cup
                  {[nonce |-> issued', by |-> by, account |-> account, expired |-> FALSE]}
            /\ Reply(by, issued')
       ELSE challenges' = Open(challenges) /\ Reply(by, Refused) /\ UNCHANGED issued
    /\ UNCHANGED <<login, wallet, inbox, conn, told, exchanges, sessions, minted, logouts, lost>>

\* Faulty variant: the challenge is consumed once the signature is verified.
StillThere(nonce) == challenges

Consumed(nonce) == {c \in challenges : c.nonce # nonce}

\* exchange, up to its await of verifyMessage.  Another client may repeat its
\* request (attempt) while the first one is being served.
BeginExchange(by, nonce, valid, attempt) ==
    LET found == {c \in Open(challenges) : c.nonce = nonce /\ c.by = by}
    IN  /\ Serve(by, "session")
        /\ challenges' = Consumed(nonce)
        /\ exchanges' = exchanges \cup
              {[nonce |-> nonce, by |-> by, account |-> c.account, valid |-> valid,
                attempt |-> attempt] : c \in found}
        /\ IF found = {} THEN Reply(by, Refused)
           ELSE job' = IF by = "page" THEN [job EXCEPT !.open = FALSE] ELSE job
        /\ UNCHANGED <<login, wallet, inbox, conn, told, issued, sessions, minted, logouts, lost>>

\* Faulty variant: the limit was looked at before the signature.
RoomBefore == TRUE

\* Expired sessions are dropped before the limit is looked at, after the await.
Room == Cardinality(Open(sessions)) < MaxSessions

EndExchange(x) ==
    /\ exchanges' = exchanges \ {x}
    /\ IF x.valid /\ Room
       THEN /\ minted' = Append(minted, x.nonce)
            /\ sessions' = Open(sessions) \cup {[token |-> Len(minted'), by |-> x.by,
                              account |-> x.account, expired |-> FALSE]}
            /\ Reply(x.by, Len(minted'))
       ELSE /\ sessions' = IF x.valid THEN Open(sessions) ELSE sessions
            /\ Reply(x.by, Refused) /\ UNCHANGED minted
    /\ UNCHANGED <<login, wallet, inbox, conn, told, issued, challenges, logouts, lost>>

\* /api/v1/action: sessions.address finds the caller, who must be the owner.
PrepareServed ==
    /\ Serve("page", "prepare")
    /\ sessions' = sessions \ {s \in sessions : s.token = job.given /\ s.expired}
    /\ Reply("page", IF \E s \in Open(sessions) : s.token = job.given /\ s.account = "owner"
                     THEN job.given
                     ELSE IF \E s \in Open(sessions) : s.token = job.given THEN Refused
                     ELSE Unauthorized)
    /\ UNCHANGED <<login, wallet, inbox, conn, told, issued, challenges, exchanges, minted, logouts, lost>>

\* /api/v1/auth/logout, or its loss: the page does not repeat it.
Logout(token) ==
    /\ logouts' = logouts \ {token}
    /\ \/ sessions' = {s \in sessions : s.token # token} /\ UNCHANGED lost
       \/ lost' = lost \cup {token} /\ UNCHANGED sessions
    /\ UNCHANGED <<login, wallet, inbox, pageVars, issued, challenges, exchanges, minted>>

\* A request or a reply is lost: fetch throws.  The signature that the service
\* is still verifying for the page is from then on verified for nobody.
Lose ==
    /\ job.at \in ServiceSteps /\ job.reply \notin {Refused, Unauthorized}
    /\ lost' = lost \cup IF job.at = "session" /\ job.reply > 0 THEN {job.reply} ELSE {}
    /\ exchanges' = {[x EXCEPT !.by = IF @ = "page" THEN "nobody" ELSE @] : x \in exchanges}
    /\ Reply("page", Refused)
    /\ UNCHANGED <<login, wallet, inbox, conn, told, issued, challenges, sessions, minted, logouts>>

Expire ==
    /\ \/ \E c \in Open(challenges) :
             /\ challenges' = (challenges \ {c}) \cup {[c EXCEPT !.expired = TRUE]}
             /\ UNCHANGED sessions
       \/ \E s \in Open(sessions) :
             /\ sessions' = (sessions \ {s}) \cup {[s EXCEPT !.expired = TRUE]}
             /\ UNCHANGED challenges
    /\ UNCHANGED <<login, wallet, inbox, pageVars, issued, exchanges, minted, logouts, lost>>

Service ==
    \/ Challenge("page", conn.account) \/ (\E a \in Allowed : Challenge("other", a))
    \/ \E valid \in BOOLEAN : BeginExchange("page", job.given, valid, 1)
    \/ \E c \in challenges, attempt \in 1 .. 2 :
          c.by = "other" /\ BeginExchange("other", c.nonce, TRUE, attempt)
    \/ \E x \in exchanges : EndExchange(x)
    \/ PrepareServed \/ (\E token \in logouts : Logout(token)) \/ Lose \/ Expire

-----------------------------------------------------------------------------
Init ==
    /\ login \in BOOLEAN
    /\ wallet \in [account : {"owner"}, network : Networks, changes : {0}]
    /\ inbox = <<>> /\ conn = NoConn /\ job = Idle
    /\ told = [account |-> None, network |-> None]
    /\ issued = 0 /\ challenges = {} /\ exchanges = {} /\ sessions = {} /\ minted = <<>>
    /\ logouts = {} /\ lost = {}

Next == Page \/ UserChanges \/ WalletAnswers \/ Service

Spec == Init /\ [][Next]_vars

-----------------------------------------------------------------------------
\* Every variable keeps its type; the service's limits hold although the
\* number of sessions is looked at after an await.
TypeOK ==
    /\ login \in BOOLEAN
    /\ wallet \in [account : Accounts, network : Networks, changes : 0 .. MaxChanges]
    /\ inbox \in Seq(Message)
    /\ conn \in [current : BOOLEAN, account : Accounts \cup {None}, pending : Seq(Event),
                 switching : BOOLEAN, token : {Nothing} \cup DOMAIN minted, expired : BOOLEAN]
    /\ job \in [at : {"idle"} \cup WalletSteps \cup ServiceSteps, open : BOOLEAN,
                then : {None, "challenge", "session", "connected", "submit", "send"},
                given : {Nothing} \cup 1 .. MaxNonces,
                reply : {Nothing, Refused, Unauthorized} \cup 1 .. MaxNonces]
    /\ issued \in 0 .. MaxNonces /\ minted \in Seq(1 .. issued)
    /\ Cardinality(challenges) <= MaxChallenges
    /\ Cardinality(sessions) <= MaxSessions
    /\ logouts \cup lost \subseteq DOMAIN minted
    /\ told \in [account : Accounts \cup {None}, network : Networks \cup {None}]

\* A challenge is good for one session, although it is looked up before the
\* signature check is awaited and clients may repeat their request.
OneSessionPerChallenge ==
    \A a, b \in DOMAIN minted : minted[a] = minted[b] => a = b

\* No token is forgotten: while a session of the page can be used, the page
\* holds its token, or its logout or its reply is under way, or was lost.
NoForgottenToken ==
    \A s \in Open(sessions) :
        s.by = "page" =>
            \/ s.token \in {conn.token} \cup logouts \cup lost
            \/ job.at = "session" /\ job.reply = s.token

\* The wallet is asked to sign or to send only for a connection that is still
\* current and whose account and network are the last ones the wallet told of;
\* to send, in the console, only while the session is one of that account.
AskedOfConnectedWallet ==
    [][(job'.at \in {"sign", "send"} /\ job'.at # job.at) =>
          /\ conn'.current
          /\ told' = [account |-> conn'.account, network |-> "testnet"]
          /\ (login /\ job'.at = "send") =>
                /\ conn'.token # Nothing /\ ~conn'.expired
                /\ \A s \in sessions : s.token = conn'.token => s.account = conn'.account]_vars
=============================================================================
