---------------------------- MODULE WalletProofs ----------------------------
(***************************************************************************)
(* The page's connection and the service's sessions, for any number of     *)
(* changes in the wallet, challenges and sessions.                         *)
(*                                                                         *)
(* A challenge is in one place at a time: outstanding, being exchanged, or *)
(* redeemed by one token (OnePlace).  An exchange for the page has the     *)
(* page's handler waiting for it (HandlerOK), so its token is received,    *)
(* and by a page that holds no other.  The wallet's answer under way is to *)
(* the question that the handler awaits (AnswersOK), so what the page      *)
(* compares is what the wallet last told (ToldOK), and what the service    *)
(* keeps for the page is of the account that is connected (OwnOK).         *)
(***************************************************************************)
EXTENDS WalletSession, FiniteSetTheorems, SequenceTheorems, TLAPS

Conns == [current : BOOLEAN, account : Accounts \cup {None}, pending : Seq(Event),
          switching : BOOLEAN, token : {Nothing} \cup DOMAIN minted, expired : BOOLEAN]
Thens == {None, "challenge", "session", "connected", "submit", "send"}
Jobs == [at : {"idle"} \cup WalletSteps \cup ServiceSteps, open : BOOLEAN, then : Thens,
         given : {Nothing} \cup 1 .. MaxNonces,
         reply : {Nothing, Refused, Unauthorized} \cup 1 .. MaxNonces]
Tolds == [account : Accounts \cup {None}, network : Networks \cup {None}]

\* An exchange that the page gave up is nobody's.
By == {"page", "other", "nobody"}

ServiceOK ==
    /\ challenges \subseteq [nonce : 1 .. issued, by : By, account : Allowed, expired : BOOLEAN]
    /\ exchanges \subseteq [nonce : 1 .. issued, by : By, account : Allowed, valid : BOOLEAN,
                            attempt : 1 .. 2]
    /\ sessions \subseteq [token : DOMAIN minted, by : By, account : Allowed, expired : BOOLEAN]
    /\ IsFiniteSet(challenges) /\ IsFiniteSet(sessions)

\* A challenge is outstanding, or being exchanged once, or redeemed once.
OnePlace ==
    /\ \A c, d \in challenges : c.nonce = d.nonce => c = d
    /\ \A x, y \in exchanges : x.nonce = y.nonce => x = y
    /\ \A c \in challenges, x \in exchanges : c.nonce # x.nonce
    /\ \A i \in DOMAIN minted :
          /\ \A c \in challenges : c.nonce # minted[i]
          /\ \A x \in exchanges : x.nonce # minted[i]
    /\ OneSessionPerChallenge

EventsOK ==
    \A i \in DOMAIN inbox :
        /\ inbox[i].type = "account" => inbox[i].value \in Accounts
        /\ inbox[i].type = "network" => inbox[i].value \in Networks
        /\ inbox[i].type = "disconnect" => inbox[i].value = None

\* What the wallet may answer at a step, but for its refusal.
Fits(at) ==
    IF at \in {"accounts", "owner"} THEN Accounts
    ELSE IF at \in {"network", "chain"} THEN Networks ELSE {"ok"}

AnswersOK ==
    \A i \in DOMAIN inbox : inbox[i].type = "answer" =>
        /\ job.at \in WalletSteps /\ ~job.open
        /\ inbox[i].value \in Fits(job.at) \cup {"rejected"}
        /\ \A k \in DOMAIN inbox : inbox[k].type = "answer" => k = i

\* The page has no session yet.
Connecting(j) ==
    \/ j.at \in {"accounts", "network", "switch", "challenge", "sign", "session"}
    \/ j.then \in {"challenge", "session"}

HandlerOK ==
    /\ job.open => job.reply = Nothing
    /\ Connecting(job) => conn.token = Nothing
    /\ conn.switching => job.at = "switch"
    /\ job.at \in {"chain", "owner"} => job.then # None
    /\ job.at = "session" => job.reply \in {Nothing, Refused} \cup DOMAIN minted
    /\ \A x \in exchanges : x.by = "page" =>
          /\ job.at = "session" /\ ~job.open /\ job.reply = Nothing
          /\ \A y \in exchanges : y.by = "page" => y = x

ToldOK ==
    /\ ~conn.current => conn = NoConn
    /\ conn.current =>
          /\ job.at # "accounts" => conn.account # None
          /\ conn.account # None => told.account = conn.account
          /\ job.at \in {"owner", "challenge"} => told.network = "testnet"

\* The challenge that the handler has been given, or will be.
Awaited(j, c) ==
    \/ j.at = "challenge" /\ c.nonce = j.reply
    \/ (j.at \in {"sign", "session"} \/ j.then = "session") /\ c.nonce = j.given

Held(token) == token = conn.token \/ (job.at = "session" /\ token = job.reply)

OwnOK ==
    conn.current =>
        /\ \A c \in challenges : (c.by = "page" /\ Awaited(job, c)) => c.account = conn.account
        /\ \A x \in exchanges : x.by = "page" => x.account = conn.account
        /\ \A s \in sessions : Held(s.token) => s.account = conn.account

PageOK == EventsOK /\ AnswersOK /\ HandlerOK /\ ToldOK /\ OwnOK /\ NoForgottenToken

WalletInv == TypeOK /\ ServiceOK /\ OnePlace /\ PageOK

-----------------------------------------------------------------------------
\* Values of the variables.

LEMMA Typed ==
    ASSUME TypeOK
    PROVE  conn \in Conns /\ job \in Jobs /\ told \in Tolds
BY DEF TypeOK, Conns, Jobs, Tolds, Thens

LEMMA NoConnTyped == NoConn \in Conns
<1>1. <<>> \in Seq(Event)
  OBVIOUS
<1> QED BY <1>1 DEF NoConn, Conns, None, Nothing

LEMMA IdleTyped == Idle \in Jobs
BY DEF Idle, Jobs, Thens, None, Nothing

LEMMA AwaitIs ==
    ASSUME TypeOK, NEW step \in WalletSteps \cup ServiceSteps, NEW then \in Thens
    PROVE  /\ Await(step, then) \in Jobs
           /\ Await(step, then).at = step /\ Await(step, then).then = then
           /\ Await(step, then).open = TRUE
           /\ Await(step, then).given = job.given /\ Await(step, then).reply = Nothing
<1>1. job \in Jobs
  BY Typed
<1>2. /\ Await(step, then).at = step /\ Await(step, then).then = then
      /\ Await(step, then).open = TRUE
      /\ Await(step, then).given = job.given /\ Await(step, then).reply = Nothing
  BY <1>1 DEF Await, Jobs
<1>3. Await(step, then) \in Jobs
  BY <1>1 DEF Await, Jobs
<1> QED BY <1>2, <1>3

\* Distinct numbers of an interval are no more than the interval's.
LEMMA DistinctAreFew ==
    ASSUME NEW n \in Nat, NEW l \in Nat, NEW f \in [1 .. l -> 1 .. n],
           \A a, b \in 1 .. l : f[a] = f[b] => a = b
    PROVE  l <= n
<1>1. ASSUME l > n PROVE FALSE
  <2>1. IsFiniteSet(1 .. n) /\ Cardinality(1 .. n) = n
    BY FS_Interval
  <2>2. IsFiniteSet(1 .. l) /\ Cardinality(1 .. l) = l
    BY FS_Interval
  <2>3. \E a, b \in 1 .. l : a # b /\ f[a] = f[b]
    BY <1>1, <2>1, <2>2, FS_PigeonHole
  <2> QED BY <2>3
<1> QED BY <1>1

\* A redeemed challenge was issued, so there are no more tokens than nonces.
LEMMA TokensAreFew ==
    ASSUME TypeOK, OneSessionPerChallenge
    PROVE  DOMAIN minted \subseteq 1 .. MaxNonces
<1>1. minted \in Seq(1 .. issued) /\ issued \in 0 .. MaxNonces /\ MaxNonces \in Nat
  BY BoundsAssumption DEF TypeOK
<1>2. /\ issued \in Nat /\ Len(minted) \in Nat /\ DOMAIN minted = 1 .. Len(minted)
      /\ minted \in [1 .. Len(minted) -> 1 .. issued]
      /\ \A a, b \in 1 .. Len(minted) : minted[a] = minted[b] => a = b
  BY <1>1 DEF OneSessionPerChallenge
<1>3. Len(minted) <= issued
  BY <1>1, <1>2, DistinctAreFew
<1> QED BY <1>1, <1>2, <1>3

\* Another value of the handler's reply.
LEMMA ReplyIs ==
    ASSUME TypeOK, NEW value \in {Nothing, Refused, Unauthorized} \cup 1 .. MaxNonces,
           Reply("page", value)
    PROVE  /\ job' \in Jobs /\ job'.at = job.at /\ job'.then = job.then
           /\ job'.given = job.given /\ job'.open = FALSE /\ job'.reply = value
<1>1. job \in Jobs
  BY Typed
<1>2. job' = [at |-> job.at, open |-> FALSE, then |-> job.then, given |-> job.given, reply |-> value]
  BY <1>1 DEF Reply, Jobs
<1> QED BY <1>1, <1>2 DEF Jobs

-----------------------------------------------------------------------------
\* Messages of the wallet.

\* The oldest message, and what is left once it is handled.
LEMMA ReceivedIs ==
    ASSUME WalletInv, inbox # <<>>, inbox' = Tail(inbox)
    PROVE  /\ Head(inbox) \in Message /\ inbox' \in Seq(Message)
           /\ 1 \in DOMAIN inbox /\ Head(inbox) = inbox[1]
           /\ \A i \in DOMAIN inbox' : i + 1 \in DOMAIN inbox /\ inbox'[i] = inbox[i + 1]
<1>1. inbox \in Seq(Message)
  BY DEF WalletInv, TypeOK
<1>2. /\ Head(inbox) \in Message /\ Tail(inbox) \in Seq(Message)
      /\ Len(Tail(inbox)) = Len(inbox) - 1
      /\ \A i \in 1 .. Len(Tail(inbox)) : Tail(inbox)[i] = inbox[i + 1]
  BY <1>1, HeadTailProperties
<1>3. Len(inbox) \in Nat /\ Len(inbox) > 0 /\ DOMAIN inbox = 1 .. Len(inbox)
  BY <1>1, EmptySeq
<1>4. DOMAIN inbox' = 1 .. Len(Tail(inbox))
  BY <1>2
<1>5. Head(inbox) = inbox[1]
  BY <1>1
<1> QED BY <1>2, <1>3, <1>4, <1>5

\* Events of the wallet that are left stay proper.
LEMMA EventsLeft ==
    ASSUME WalletInv, inbox # <<>>, inbox' = Tail(inbox)
    PROVE  EventsOK'
<1>1. \A i \in DOMAIN inbox' : i + 1 \in DOMAIN inbox /\ inbox'[i] = inbox[i + 1]
  BY ReceivedIs
<1> QED BY <1>1 DEF WalletInv, PageOK, EventsOK

\* An answer is of the step that is awaited, and the only one.
LEMMA TakenIs ==
    ASSUME WalletInv, NEW step \in WalletSteps, Answered(step), inbox' = Tail(inbox)
    PROVE  /\ Answer \in Fits(step) \cup {"rejected"} /\ Head(inbox) \in Message
           /\ job.at = step /\ inbox' \in Seq(Message) /\ EventsOK'
           /\ \A i \in DOMAIN inbox' : inbox'[i].type # "answer"
<1>1. inbox # <<>> /\ job.at = step /\ Head(inbox).type = "answer"
  BY DEF Answered
<1>2. /\ Head(inbox) \in Message /\ inbox' \in Seq(Message)
      /\ 1 \in DOMAIN inbox /\ Head(inbox) = inbox[1]
      /\ \A i \in DOMAIN inbox' : i + 1 \in DOMAIN inbox /\ inbox'[i] = inbox[i + 1]
  BY <1>1, ReceivedIs
<1>3. Answer \in Fits(step) \cup {"rejected"}
  BY <1>1, <1>2 DEF Answer, WalletInv, PageOK, AnswersOK
<1>4. ASSUME NEW i \in DOMAIN inbox', inbox'[i].type = "answer" PROVE FALSE
  <2>1. i \in Nat \ {0}
    BY <1>2
  <2>2. i + 1 = 1
    BY <1>1, <1>2, <1>4 DEF WalletInv, PageOK, AnswersOK
  <2> QED BY <2>1, <2>2
<1> QED BY <1>1, <1>2, <1>3, <1>4, EventsLeft

LEMMA TellIs ==
    ASSUME TypeOK, NEW m \in Message, Tell(m)
    PROVE  /\ told' \in Tolds
           /\ told'.account = IF conn.current /\ m.value \in Accounts THEN m.value ELSE told.account
           /\ told'.network = IF conn.current /\ m.value \in Networks THEN m.value ELSE told.network
<1>1. told \in Tolds
  BY Typed
<1> QED BY <1>1 DEF Tell, Tolds

\* An event ends the connection or leaves all but the deferred events.
LEMMA HeardIs ==
    ASSUME TypeOK, NEW e \in Event, Heard(conn, e) # NoConn
    PROVE  /\ Heard(conn, e) \in Conns /\ ~Ends(conn, e)
           /\ Heard(conn, e).current = conn.current /\ Heard(conn, e).account = conn.account
           /\ Heard(conn, e).switching = conn.switching /\ Heard(conn, e).token = conn.token
           /\ conn.current \/ Heard(conn, e) = conn
<1>1. conn \in Conns
  BY Typed
<1>2. Append(conn.pending, e) \in Seq(Event)
  BY <1>1 DEF Conns
<1>3. CASE conn.current /\ conn.account = None
  <2>1. Heard(conn, e) = [conn EXCEPT !.pending = Append(@, e)] /\ ~Ends(conn, e)
    BY <1>3 DEF Heard
  <2> QED BY <1>1, <1>2, <1>3, <2>1 DEF Conns
<1>4. CASE ~(conn.current /\ conn.account = None)
  BY <1>1, <1>4 DEF Heard
<1> QED BY <1>3, <1>4

-----------------------------------------------------------------------------
\* Steps of the page.

LEMMA ServiceKept ==
    ASSUME ServiceOK, OnePlace, UNCHANGED serviceVars
    PROVE  ServiceOK' /\ OnePlace'
BY DEF serviceVars, ServiceOK, OnePlace, OneSessionPerChallenge

\* A session's token is not "no token".
LEMMA TokenIs ==
    ASSUME WalletInv, NEW s \in sessions
    PROVE  s.token \in DOMAIN minted /\ s.token \in Nat /\ s.token > 0
<1>1. s.token \in DOMAIN minted /\ minted \in Seq(1 .. issued)
  BY DEF WalletInv, ServiceOK, TypeOK
<1> QED BY <1>1

\* While the page has a token exchanged it does not await the wallet.
LEMMA NoPageExchange ==
    ASSUME WalletInv, job.at # "session"
    PROVE  \A x \in exchanges : x.by # "page"
BY DEF WalletInv, PageOK, HandlerOK

\* A connection that ends, or stays, leaves no token behind.
LEMMA TokensKept ==
    ASSUME WalletInv, NEW c \in Conns, Become(c), c.token \in {conn.token, Nothing},
           UNCHANGED <<serviceVars, lost>>, job.at # "session" \/ job' = job
    PROVE  NoForgottenToken' /\ logouts' \subseteq DOMAIN minted
<1>1. conn \in Conns /\ logouts \cup lost \subseteq DOMAIN minted
  BY Typed DEF WalletInv, TypeOK
<1>2. logouts' \subseteq DOMAIN minted
  BY <1>1 DEF Become, Conns
<1>3. ASSUME NEW s \in Open(sessions), s.by = "page"
      PROVE  \/ s.token \in {c.token} \cup logouts' \cup lost
             \/ job'.at = "session" /\ job'.reply = s.token
  <2>1. s.token # Nothing
    BY <1>3, TokenIs DEF Open, Nothing
  <2>2. \/ s.token \in {conn.token} \cup logouts \cup lost
        \/ job.at = "session" /\ job.reply = s.token
    BY <1>3 DEF WalletInv, PageOK, NoForgottenToken
  <2> QED BY <2>1, <2>2 DEF Become
<1>4. sessions' = sessions /\ lost' = lost /\ conn'.token = c.token
  BY DEF Become, serviceVars
<1> QED BY <1>2, <1>3, <1>4 DEF NoForgottenToken, Open

\* What is left to show of a step of the page.
LEMMA PageStepIs ==
    ASSUME WalletInv, NEW c \in Conns, Become(c), c.token \in {conn.token, Nothing},
           UNCHANGED <<login, wallet, serviceVars, lost>>, job.at # "session" \/ job' = job,
           inbox' \in Seq(Message), job' \in Jobs, told' \in Tolds,
           EventsOK', AnswersOK', HandlerOK', ToldOK', OwnOK'
    PROVE  WalletInv'
<1>1. NoForgottenToken' /\ logouts' \subseteq DOMAIN minted
  BY TokensKept
<1>2. ServiceOK' /\ OnePlace'
  BY ServiceKept DEF WalletInv
<1>3. TypeOK'
  BY <1>1 DEF WalletInv, TypeOK, Become, Conns, Jobs, Thens, Tolds, serviceVars
<1> QED BY <1>1, <1>2, <1>3 DEF WalletInv, PageOK

\* The same once an answer was taken.
LEMMA AnswerStepIs ==
    ASSUME WalletInv, NEW step \in WalletSteps, Answered(step), Receive, Tell(Head(inbox)),
           NEW c \in Conns, Become(c), c.token \in {conn.token, Nothing}, job' \in Jobs,
           HandlerOK', ToldOK', OwnOK'
    PROVE  WalletInv'
<1>1. /\ Head(inbox) \in Message /\ job.at = step /\ inbox' \in Seq(Message) /\ EventsOK'
      /\ \A i \in DOMAIN inbox' : inbox'[i].type # "answer"
  BY TakenIs DEF Receive
<1>2. AnswersOK'
  BY <1>1 DEF AnswersOK
<1>3. told' \in Tolds
  BY <1>1, TellIs DEF WalletInv
<1>4. job.at # "session"
  BY <1>1 DEF WalletSteps
<1>5. UNCHANGED <<login, wallet, serviceVars, lost>>
  BY DEF Receive
<1> QED BY <1>1, <1>2, <1>3, <1>4, <1>5, PageStepIs

\* A handler that ends without a connection.
LEMMA ThrownIs ==
    ASSUME WalletInv, job.at # "session", job' = Idle, conn' = NoConn, UNCHANGED serviceVars
    PROVE  HandlerOK' /\ ToldOK' /\ OwnOK'
<1>1. \A x \in exchanges : x.by # "page"
  BY NoPageExchange
<1> QED BY <1>1 DEF serviceVars, HandlerOK, ToldOK, OwnOK, Connecting, Idle, NoConn, None, Nothing

\* A handler that goes on with the same connection.
LEMMA ProceedsIs ==
    ASSUME WalletInv, job.at # "session", UNCHANGED serviceVars,
           conn'.current = conn.current, conn'.account = conn.account,
           conn'.token = conn.token, ~conn'.current => conn' = NoConn,
           conn'.switching => job'.at = "switch",
           job'.at \in {"chain", "owner"} => job'.then # None,
           job'.reply = Nothing, Connecting(job') => Connecting(job),
           \A c \in challenges : Awaited(job', c) => Awaited(job, c),
           job'.at # "accounts", conn.current => conn.account # None,
           told'.account \in {told.account, conn.account},
           (conn.current /\ job'.at \in {"owner", "challenge"}) => told'.network = "testnet"
    PROVE  HandlerOK' /\ ToldOK' /\ OwnOK'
<1>1. \A x \in exchanges : x.by # "page"
  BY NoPageExchange
<1>2. HandlerOK'
  BY <1>1 DEF serviceVars, WalletInv, PageOK, HandlerOK
<1>3. ToldOK'
  BY DEF WalletInv, PageOK, ToldOK
<1>4. ASSUME conn.current, NEW s \in sessions, Held(s.token)' PROVE s.account = conn.account
  <2>1. s.token # Nothing
    BY TokenIs DEF Nothing
  <2> QED BY <1>4, <2>1 DEF Held, WalletInv, PageOK, OwnOK
<1>5. ASSUME conn.current, NEW c \in challenges, c.by = "page", Awaited(job', c)
      PROVE  c.account = conn.account
  BY <1>5 DEF WalletInv, PageOK, OwnOK
<1>6. OwnOK'
  BY <1>1, <1>4, <1>5 DEF serviceVars, OwnOK
<1> QED BY <1>2, <1>3, <1>6

\* An answer that ends the connection.
LEMMA AnswerThrown ==
    ASSUME WalletInv, NEW step \in WalletSteps, Answered(step), Receive, Tell(Head(inbox)),
           Throw(NoConn)
    PROVE  WalletInv'
<1>1. job.at # "session" /\ UNCHANGED serviceVars
  BY DEF Answered, WalletSteps, Receive
<1>2. job' = Idle /\ Become(NoConn) /\ conn' = NoConn
  BY DEF Throw, Become
<1>3. HandlerOK' /\ ToldOK' /\ OwnOK'
  BY <1>1, <1>2, ThrownIs
<1>4. NoConn.token \in {conn.token, Nothing}
  BY DEF NoConn
<1> QED BY <1>2, <1>3, <1>4, NoConnTyped, IdleTyped, AnswerStepIs

\* A current connection while its account is known.
LEMMA ConnIs ==
    ASSUME WalletInv
    PROVE  /\ conn \in Conns /\ job \in Jobs
           /\ (conn.current /\ job.at # "accounts") => conn.account # None
           /\ ~conn.current => conn = NoConn
           /\ job.at # "switch" => conn.switching = FALSE
<1>1. conn \in Conns /\ job \in Jobs
  BY Typed DEF WalletInv
<1> QED BY <1>1 DEF WalletInv, PageOK, ToldOK, HandlerOK, Conns

LEMMA AccountsStep ==
    ASSUME WalletInv, AccountsAnswered PROVE WalletInv'
<1> DEFINE bound == [conn EXCEPT !.account = Answer, !.pending = <<>>]
           c == Replayed(bound, conn.pending)
<1>1. Answered("accounts") /\ Tell(Head(inbox)) /\ Receive /\ "accounts" \in WalletSteps
  BY DEF AccountsAnswered, WalletSteps
<1>2. CASE conn.current /\ Answer # "rejected" /\ c.current
  <2>1. Become(c) /\ job' = Await("network", None)
    BY <1>2 DEF AccountsAnswered
  <2>2. /\ Answer \in Fits("accounts") \cup {"rejected"} /\ Head(inbox) \in Message
        /\ job.at = "accounts"
    BY <1>1, TakenIs DEF Receive
  <2>3. Answer \in Accounts /\ Answer # None
    BY <1>2, <2>2 DEF Fits, Accounts, None
  <2>4. c = bound
    BY <1>2 DEF Replayed, NoConn
  <2>5. conn \in Conns /\ conn.switching = FALSE
    BY <2>2, ConnIs
  <2>6. <<>> \in Seq(Event)
    OBVIOUS
  <2>7. /\ bound \in Conns /\ bound.account = Answer /\ bound.token = conn.token
        /\ bound.current = conn.current /\ bound.switching = FALSE
    BY <2>3, <2>5, <2>6 DEF Conns
  <2>8. /\ job' \in Jobs /\ job'.at = "network" /\ job'.then = None
        /\ job'.open = TRUE /\ job'.reply = Nothing
    <3>1. "network" \in WalletSteps \cup ServiceSteps /\ None \in Thens /\ TypeOK
      BY DEF WalletSteps, Thens, WalletInv
    <3> QED BY <2>1, <3>1, AwaitIs
  <2>9. conn.token = Nothing /\ \A x \in exchanges : x.by # "page"
    BY <2>2, NoPageExchange DEF WalletInv, PageOK, HandlerOK, Connecting
  <2>10. conn' = bound /\ UNCHANGED serviceVars
    BY <1>1, <2>1, <2>4 DEF Become, Receive
  <2>11. told'.account = Answer
    BY <1>1, <1>2, <2>2, <2>3, TellIs DEF WalletInv, Answer
  <2> HIDE DEF bound
  <2>12. HandlerOK'
    BY <2>7, <2>8, <2>9, <2>10 DEF serviceVars, HandlerOK
  <2>13. ToldOK'
    BY <1>2, <2>3, <2>7, <2>8, <2>10, <2>11 DEF ToldOK
  <2>14. OwnOK'
    <3>1. \A s \in sessions : s.token # Nothing
      BY TokenIs DEF Nothing
    <3> QED BY <2>7, <2>8, <2>9, <2>10, <3>1 DEF serviceVars, OwnOK, Awaited, Held, None
  <2> QED BY <1>1, <2>1, <2>4, <2>7, <2>8, <2>12, <2>13, <2>14, AnswerStepIs
<1>3. CASE ~(conn.current /\ Answer # "rejected" /\ c.current)
  <2>1. Throw(NoConn)
    BY <1>3 DEF AccountsAnswered
  <2> QED BY <1>1, <2>1, AnswerThrown
<1> QED BY <1>2, <1>3

\* A handler that awaits something else, with the same account and token.
LEMMA AnswerProceeds ==
    ASSUME WalletInv, NEW step \in WalletSteps, Answered(step), Receive, Tell(Head(inbox)),
           step # "accounts", NEW c \in Conns, Become(c), conn.current,
           c.current = conn.current, c.account = conn.account, c.token = conn.token,
           c.switching => job'.at = "switch", job' \in Jobs, job'.reply = Nothing,
           job'.at \in {"chain", "owner"} => job'.then # None,
           Connecting(job') => Connecting(job), job'.at # "accounts",
           \A ch \in challenges : Awaited(job', ch) => Awaited(job, ch),
           Answer \in Accounts => Answer = conn.account,
           job'.at \in {"owner", "challenge"} =>
               Answer = "testnet" \/ (Answer \notin Networks /\ told.network = "testnet")
    PROVE  WalletInv'
<1>1. job.at = step /\ Head(inbox) \in Message /\ job.at # "session"
  BY TakenIs DEF WalletSteps, Receive
<1>2. /\ told'.account \in {told.account, conn.account}
      /\ told'.network = IF Answer \in Networks THEN Answer ELSE told.network
  BY <1>1, TellIs DEF WalletInv, Answer
<1>3. conn' = c /\ UNCHANGED serviceVars
  BY DEF Become, Receive
<1>4. conn.account # None
  BY <1>1, ConnIs
<1>5. job'.at \in {"owner", "challenge"} => told'.network = "testnet"
  BY <1>2 DEF Networks
<1>6. HandlerOK' /\ ToldOK' /\ OwnOK'
  BY <1>1, <1>2, <1>3, <1>4, <1>5, ProceedsIs
<1>7. c.token \in {conn.token, Nothing}
  OBVIOUS
<1> QED BY <1>6, <1>7, AnswerStepIs

\* A handler that goes on at another step.
LEMMA AnswerAwaits ==
    ASSUME WalletInv, NEW step \in WalletSteps, Answered(step), Receive, Tell(Head(inbox)),
           step # "accounts", NEW c \in Conns, Become(c), conn.current,
           c.current = conn.current, c.account = conn.account, c.token = conn.token,
           NEW next \in WalletSteps \cup ServiceSteps, NEW then \in Thens,
           job' = Await(next, then), next # "accounts", c.switching => next = "switch",
           next \in {"chain", "owner"} => then # None,
           (next \in {"network", "switch", "challenge", "sign", "session"}
              \/ then \in {"challenge", "session"}) => Connecting(job),
           (next \in {"sign", "session"} \/ then = "session") =>
               (job.at \in {"sign", "session"} \/ job.then = "session"),
           Answer \in Accounts => Answer = conn.account,
           next \in {"owner", "challenge"} =>
               Answer = "testnet" \/ (Answer \notin Networks /\ told.network = "testnet")
    PROVE  WalletInv'
<1>1. TypeOK
  BY DEF WalletInv
<1>2. /\ job' \in Jobs /\ job'.at = next /\ job'.then = then
      /\ job'.given = job.given /\ job'.reply = Nothing
  BY <1>1, AwaitIs
<1>3. Connecting(job') => Connecting(job)
  BY <1>2 DEF Connecting
<1>4. ASSUME NEW ch \in challenges, Awaited(job', ch) PROVE Awaited(job, ch)
  <2>1. ch.nonce # Nothing
    BY DEF WalletInv, ServiceOK, TypeOK, Nothing
  <2> QED BY <1>2, <1>4, <2>1 DEF Awaited
<1>5. job'.at # "accounts" /\ (c.switching => job'.at = "switch")
      /\ (job'.at \in {"chain", "owner"} => job'.then # None)
  BY <1>2
<1>6. job'.at \in {"owner", "challenge"} =>
          Answer = "testnet" \/ (Answer \notin Networks /\ told.network = "testnet")
  BY <1>2
<1> QED BY <1>2, <1>3, <1>4, <1>5, <1>6, AnswerProceeds

\* A handler that ends while the connection stays.
LEMMA AnswerEnds ==
    ASSUME WalletInv, NEW step \in WalletSteps, Answered(step), Receive, Tell(Head(inbox)),
           step \notin {"accounts", "switch"}, Throw(conn), conn.current,
           Answer \in Accounts => Answer = conn.account
    PROVE  WalletInv'
<1>1. job.at # "switch" /\ conn \in Conns /\ conn.switching = FALSE
  BY ConnIs DEF Answered
<1>2. job' = Idle /\ job' \in Jobs /\ Become(conn)
  BY IdleTyped DEF Throw
<1>3. job'.reply = Nothing /\ job'.at = "idle" /\ job'.then = None
  BY <1>2 DEF Idle
<1>4. ~Connecting(job') /\ \A ch \in challenges : ~Awaited(job', ch)
  BY <1>3 DEF Connecting, Awaited, None
<1>5. job'.at # "accounts" /\ (conn.switching => job'.at = "switch")
      /\ (job'.at \in {"chain", "owner"} => job'.then # None)
      /\ job'.at \notin {"owner", "challenge"}
  BY <1>1, <1>3
<1> QED BY <1>1, <1>2, <1>3, <1>4, <1>5, AnswerProceeds

LEMMA NetworkStep ==
    ASSUME WalletInv, NetworkAnswered PROVE WalletInv'
<1>1. Answered("network") /\ Tell(Head(inbox)) /\ Receive /\ "network" \in WalletSteps
  BY DEF NetworkAnswered, WalletSteps
<1>2. job.at = "network" /\ Answer \in Fits("network") \cup {"rejected"}
  BY <1>1, TakenIs DEF Receive
<1>3. conn \in Conns /\ conn.switching = FALSE /\ Answer \notin Accounts /\ Connecting(job)
  BY <1>2, ConnIs DEF Fits, Accounts, Networks, Connecting
<1>4. CASE ~conn.current \/ Answer = "rejected"
  <2>1. Throw(NoConn)
    BY <1>4 DEF NetworkAnswered
  <2> QED BY <1>1, <2>1, AnswerThrown
<1>5. CASE conn.current /\ Answer # "rejected" /\ Answer = "testnet"
  <2> DEFINE then == IF login THEN "challenge" ELSE "connected"
  <2>1. job' = Await("chain", then) /\ Become(conn)
    BY <1>5 DEF NetworkAnswered, AfterSwitch
  <2>2. "chain" \in WalletSteps \cup ServiceSteps /\ then \in Thens /\ then \notin {None, "session"}
    BY DEF WalletSteps, Thens, None
  <2> HIDE DEF then
  <2> QED BY <1>1, <1>3, <1>5, <2>1, <2>2, AnswerAwaits
<1>6. CASE conn.current /\ Answer # "rejected" /\ Answer # "testnet"
  <2> DEFINE c == [conn EXCEPT !.switching = TRUE]
  <2>1. job' = Await("switch", None) /\ Become(c)
    BY <1>6 DEF NetworkAnswered
  <2>2. "switch" \in WalletSteps \cup ServiceSteps /\ None \in Thens /\ None \notin {"challenge", "session"}
    BY DEF WalletSteps, Thens, None
  <2>3. /\ c \in Conns /\ c.current = conn.current /\ c.account = conn.account
        /\ c.token = conn.token
    BY <1>3 DEF Conns
  <2> HIDE DEF c
  <2> QED BY <1>1, <1>3, <1>6, <2>1, <2>2, <2>3, AnswerAwaits
<1> QED BY <1>4, <1>5, <1>6

LEMMA SwitchStep ==
    ASSUME WalletInv, SwitchAnswered PROVE WalletInv'
<1>1. Answered("switch") /\ Tell(Head(inbox)) /\ Receive /\ "switch" \in WalletSteps
  BY DEF SwitchAnswered, WalletSteps
<1>2. job.at = "switch" /\ Answer \in Fits("switch") \cup {"rejected"}
  BY <1>1, TakenIs DEF Receive
<1>3. conn \in Conns /\ Answer \notin Accounts /\ Connecting(job)
  BY <1>2, ConnIs DEF Fits, Accounts, Connecting
<1>4. CASE ~conn.current \/ Answer = "rejected"
  <2>1. Throw(NoConn)
    BY <1>4 DEF SwitchAnswered
  <2> QED BY <1>1, <2>1, AnswerThrown
<1>5. CASE conn.current /\ Answer # "rejected"
  <2> DEFINE then == IF login THEN "challenge" ELSE "connected"
  <2>1. job' = Await("chain", then) /\ Become(Switched)
    BY <1>5 DEF SwitchAnswered, AfterSwitch
  <2>2. "chain" \in WalletSteps \cup ServiceSteps /\ then \in Thens /\ then \notin {None, "session"}
    BY DEF WalletSteps, Thens, None
  <2>3. /\ Switched \in Conns /\ Switched.current = conn.current
        /\ Switched.account = conn.account /\ Switched.token = conn.token
        /\ Switched.switching = FALSE
    BY <1>3 DEF Conns, Switched
  <2> HIDE DEF then
  <2> QED BY <1>1, <1>3, <1>5, <2>1, <2>2, <2>3, AnswerAwaits
<1> QED BY <1>4, <1>5

LEMMA ChainStep ==
    ASSUME WalletInv, ChainAnswered PROVE WalletInv'
<1>1. Answered("chain") /\ Tell(Head(inbox)) /\ Receive /\ "chain" \in WalletSteps
  BY DEF ChainAnswered, Checked, WalletSteps
<1>2. job.at = "chain" /\ Answer \in Fits("chain") \cup {"rejected"} /\ job.then # None
  BY <1>1, TakenIs DEF Receive, WalletInv, PageOK, HandlerOK
<1>3. conn \in Conns /\ conn.switching = FALSE /\ Answer \notin Accounts /\ job.then \in Thens
  BY <1>2, ConnIs DEF Fits, Accounts, Networks, Jobs
<1>4. CASE AssertContext /\ Answer = "testnet"
  <2>1. job' = Await("owner", job.then) /\ Become(conn) /\ conn.current
    BY <1>4 DEF ChainAnswered, Checked, AssertContext
  <2>2. "owner" \in WalletSteps \cup ServiceSteps
    BY DEF WalletSteps
  <2>3. job.then \in {"challenge", "session"} => Connecting(job)
    BY DEF Connecting
  <2> QED BY <1>1, <1>2, <1>3, <1>4, <2>1, <2>2, <2>3, AnswerAwaits
<1>5. CASE AssertContext /\ Answer # "testnet" /\ Throw(conn)
  <2>1. conn.current
    BY <1>5 DEF AssertContext
  <2> QED BY <1>1, <1>3, <1>5, <2>1, AnswerEnds
<1>6. CASE Throw(NoConn)
  BY <1>1, <1>6, AnswerThrown
<1> QED BY <1>4, <1>5, <1>6 DEF ChainAnswered, Checked

LEMMA OwnerStep ==
    ASSUME WalletInv, OwnerAnswered PROVE WalletInv'
<1>1. Answered("owner") /\ Tell(Head(inbox)) /\ Receive /\ "owner" \in WalletSteps
  BY DEF OwnerAnswered, Checked, WalletSteps
<1>2. job.at = "owner" /\ Answer \in Fits("owner") \cup {"rejected"} /\ job.then # None
  BY <1>1, TakenIs DEF Receive, WalletInv, PageOK, HandlerOK
<1>3. /\ conn \in Conns /\ conn.switching = FALSE /\ job.then \in Thens
      /\ conn.current => conn.account # None /\ conn.account \in Accounts
  BY <1>2, ConnIs DEF Jobs, Conns
<1>4. CASE AssertContext /\ Answer = conn.account
  <2>1. job' = AfterCheck /\ Become(conn) /\ conn.current
    BY <1>4 DEF OwnerAnswered, Checked, AssertContext
  <2>2. Answer \notin Networks /\ told.network = "testnet"
    BY <1>2, <1>3, <1>4, <2>1 DEF Accounts, Networks, WalletInv, PageOK, ToldOK
  <2>3. CASE job.then = "connected"
    <3>1. Throw(conn)
      BY <2>1, <2>3 DEF AfterCheck, Throw
    <3> QED BY <1>1, <1>4, <2>1, <3>1, AnswerEnds
  <2>4. CASE job.then = "submit"
    <3>1. job' = Await("chain", "send")
      BY <2>1, <2>4 DEF AfterCheck
    <3>2. "chain" \in WalletSteps \cup ServiceSteps /\ "send" \in Thens /\ "send" # None
      BY DEF WalletSteps, Thens, None
    <3> QED BY <1>1, <1>3, <1>4, <2>1, <3>1, <3>2, AnswerAwaits
  <2>5. CASE job.then \in {"challenge", "session", "send"}
    <3>1. job' = Await(job.then, None)
      BY <2>1, <2>5 DEF AfterCheck
    <3>2. job.then \in WalletSteps \cup ServiceSteps /\ None \in Thens
          /\ None \notin {"challenge", "session"}
      BY <2>5 DEF WalletSteps, ServiceSteps, Thens, None
    <3>3. job.then \in {"challenge", "session"} => Connecting(job)
      BY DEF Connecting
    <3> QED BY <1>1, <1>3, <1>4, <2>1, <2>2, <2>5, <3>1, <3>2, <3>3, AnswerAwaits
  <2> QED BY <1>2, <1>3, <2>3, <2>4, <2>5 DEF Thens
<1>5. CASE AssertContext /\ Answer = "rejected" /\ Throw(conn)
  <2>1. conn.current /\ Answer \notin Accounts
    BY <1>5 DEF AssertContext, Accounts
  <2> QED BY <1>1, <1>5, <2>1, AnswerEnds
<1>6. CASE Throw(NoConn)
  BY <1>1, <1>6, AnswerThrown
<1> QED BY <1>4, <1>5, <1>6 DEF OwnerAnswered, Checked

LEMMA SignStep ==
    ASSUME WalletInv, SignAnswered PROVE WalletInv'
<1>1. Answered("sign") /\ Tell(Head(inbox)) /\ Receive /\ "sign" \in WalletSteps
  BY DEF SignAnswered, WalletSteps
<1>2. job.at = "sign" /\ Answer \in Fits("sign") \cup {"rejected"}
  BY <1>1, TakenIs DEF Receive
<1>3. conn \in Conns /\ conn.switching = FALSE /\ Answer \notin Accounts /\ Connecting(job)
  BY <1>2, ConnIs DEF Fits, Accounts, Connecting
<1>4. CASE conn.current /\ Answer # "rejected"
  <2>1. job' = Await("chain", "session") /\ Become(conn)
    BY <1>4 DEF SignAnswered
  <2>2. "chain" \in WalletSteps \cup ServiceSteps /\ "session" \in Thens /\ "session" # None
    BY DEF WalletSteps, Thens, None
  <2> QED BY <1>1, <1>2, <1>3, <1>4, <2>1, <2>2, AnswerAwaits
<1>5. CASE Throw(NoConn)
  BY <1>1, <1>5, AnswerThrown
<1> QED BY <1>4, <1>5 DEF SignAnswered

LEMMA SendStep ==
    ASSUME WalletInv, SendAnswered PROVE WalletInv'
<1>1. Answered("send") /\ Tell(Head(inbox)) /\ Receive /\ "send" \in WalletSteps
      /\ Throw(conn)
  BY DEF SendAnswered, WalletSteps
<1>2. Answer \in Fits("send") \cup {"rejected"} /\ Answer \notin Accounts
  BY <1>1, TakenIs DEF Receive, Fits, Accounts
<1>3. CASE conn.current
  BY <1>1, <1>2, <1>3, AnswerEnds
<1>4. CASE ~conn.current
  BY <1>1, <1>4, AnswerThrown, ConnIs
<1> QED BY <1>3, <1>4

-----------------------------------------------------------------------------
\* The page's other steps.

\* While the handler awaits no answer of the wallet none is under way.
LEMMA NoAnswer ==
    ASSUME WalletInv, job.at \notin WalletSteps
    PROVE  \A i \in DOMAIN inbox : inbox[i].type # "answer"
BY DEF WalletInv, PageOK, AnswersOK

\* A step of the handler at which the wallet has nothing to say.
LEMMA HandlerStepIs ==
    ASSUME WalletInv, job.at \notin WalletSteps, job.at # "session",
           UNCHANGED <<login, wallet, inbox, serviceVars, lost>>,
           NEW c \in Conns, Become(c), c.token \in {conn.token, Nothing}, job' \in Jobs,
           told' \in Tolds, HandlerOK', ToldOK', OwnOK'
    PROVE  WalletInv'
<1>1. AnswersOK' /\ EventsOK'
  BY NoAnswer DEF AnswersOK, EventsOK, WalletInv, PageOK
<1>2. inbox' \in Seq(Message)
  BY DEF WalletInv, TypeOK
<1> QED BY <1>1, <1>2, PageStepIs

\* What the service keeps for the page is of the same account as before.
LEMMA OwnKept ==
    ASSUME WalletInv, UNCHANGED serviceVars, job' = job,
           conn' = NoConn \/ (/\ conn'.current = conn.current /\ conn'.account = conn.account
                              /\ conn'.token = conn.token)
    PROVE  OwnOK'
<1>1. CASE conn' = NoConn
  BY <1>1 DEF OwnOK, NoConn
<1>2. CASE conn'.current = conn.current /\ conn'.account = conn.account /\ conn'.token = conn.token
  BY <1>2 DEF OwnOK, Held, WalletInv, PageOK, serviceVars
<1> QED BY <1>1, <1>2

LEMMA WalletEventStep ==
    ASSUME WalletInv, WalletEvent PROVE WalletInv'
<1> DEFINE e == Head(inbox)
           c == Heard(conn, e)
<1>1. /\ inbox # <<>> /\ e.type # "answer" /\ Become(c) /\ Tell(e) /\ job' = job
      /\ inbox' = Tail(inbox) /\ UNCHANGED <<login, wallet, serviceVars, lost>>
  BY DEF WalletEvent, Receive
<1>2. /\ e \in Message /\ inbox' \in Seq(Message) /\ 1 \in DOMAIN inbox /\ e = inbox[1]
      /\ \A i \in DOMAIN inbox' : i + 1 \in DOMAIN inbox /\ inbox'[i] = inbox[i + 1]
  BY <1>1, ReceivedIs
<1>3. e \in Event
  BY <1>1, <1>2 DEF Message, Event
<1>4. /\ e.type = "account" => e.value \in Accounts
      /\ e.type = "network" => e.value \in Networks
      /\ e.type = "disconnect" => e.value = None
  BY <1>2 DEF WalletInv, PageOK, EventsOK
<1>5. c = NoConn \/ (/\ c \in Conns /\ ~Ends(conn, e) /\ c.current = conn.current
                     /\ c.account = conn.account /\ c.switching = conn.switching
                     /\ c.token = conn.token)
  BY <1>3, HeardIs DEF WalletInv
<1>6. c \in Conns /\ c.token \in {conn.token, Nothing}
  <2>1. NoConn.token = Nothing
    BY DEF NoConn
  <2> HIDE DEF c, e
  <2> QED BY <1>5, <2>1, NoConnTyped
<1>7. /\ told' \in Tolds
      /\ told'.account = IF conn.current /\ e.value \in Accounts THEN e.value ELSE told.account
      /\ told'.network = IF conn.current /\ e.value \in Networks THEN e.value ELSE told.network
  BY <1>1, <1>2, TellIs DEF WalletInv
<1>8. EventsOK'
  BY <1>1, EventsLeft
<1>9. AnswersOK'
  <2>1. DOMAIN inbox' \subseteq Nat
    BY <1>2
  <2>2. ASSUME NEW i \in DOMAIN inbox', NEW k \in DOMAIN inbox', i + 1 = k + 1 PROVE i = k
    BY <2>1, <2>2
  <2> QED BY <1>1, <1>2, <2>2 DEF AnswersOK, WalletInv, PageOK
<1>10. conn' = c /\ job \in Jobs /\ job' \in Jobs
  BY <1>1, ConnIs DEF Become
<1>11. ASSUME c # NoConn, conn.current
       PROVE  /\ e.type = "account" => conn.account \in {None, e.value}
              /\ e.type = "network" => e.value = "testnet" \/ conn.account = None \/ conn.switching
              /\ e.type # "disconnect"
  BY <1>5, <1>11 DEF Ends
<1>12. HandlerOK'
  BY <1>1, <1>5, <1>10 DEF HandlerOK, WalletInv, PageOK, NoConn, serviceVars
<1>13. ToldOK'
  <2>1. CASE c = NoConn
    BY <1>10, <2>1 DEF ToldOK, NoConn
  <2>2. CASE c # NoConn /\ ~conn.current
    BY <1>5, <1>10, <2>2, ConnIs DEF ToldOK, NoConn, Heard, Ends
  <2>3. CASE c # NoConn /\ conn.current
    <3>1. conn.account # None => told.account = conn.account
      BY <2>3 DEF ToldOK, WalletInv, PageOK
    <3>2. conn.account # None => told'.account = conn.account
      BY <1>3, <1>4, <1>7, <1>11, <2>3, <3>1 DEF Event, Accounts, Networks
    <3>3. job.at \in {"owner", "challenge"} =>
              told.network = "testnet" /\ conn.account # None /\ ~conn.switching
      BY <2>3 DEF ToldOK, HandlerOK, WalletInv, PageOK
    <3>4. job.at \in {"owner", "challenge"} => told'.network = "testnet"
      BY <1>3, <1>4, <1>7, <1>11, <2>3, <3>3 DEF Event, Accounts, Networks
    <3>5. job.at # "accounts" => conn.account # None
      BY <2>3, ConnIs
    <3> QED BY <1>1, <1>5, <1>10, <2>3, <3>2, <3>4, <3>5 DEF ToldOK
  <2> QED BY <2>1, <2>2, <2>3
<1>14. OwnOK'
  BY <1>1, <1>5, <1>10, OwnKept
<1> HIDE DEF c, e
<1> QED BY <1>1, <1>2, <1>6, <1>7, <1>8, <1>9, <1>10, <1>12, <1>13, <1>14, PageStepIs

LEMMA ConnectStep ==
    ASSUME WalletInv, Connect PROVE WalletInv'
<1> DEFINE c == [NoConn EXCEPT !.current = TRUE]
<1>1. /\ job = Idle /\ Become(c) /\ job' = Await("accounts", None)
      /\ told' = [account |-> None, network |-> None]
      /\ UNCHANGED <<login, wallet, inbox, serviceVars, lost>>
  BY DEF Connect
<1>2. /\ c \in Conns /\ c.current = TRUE /\ c.account = None /\ c.token = Nothing
      /\ c.switching = FALSE
  BY NoConnTyped DEF Conns, NoConn
<1>3. "accounts" \in WalletSteps \cup ServiceSteps /\ None \in Thens /\ TypeOK
  BY DEF WalletSteps, Thens, WalletInv
<1>4. /\ job' \in Jobs /\ job'.at = "accounts" /\ job'.then = None /\ job'.open = TRUE
      /\ job'.reply = Nothing
  BY <1>1, <1>3, AwaitIs
<1>5. job.at = "idle" /\ job.at \notin WalletSteps /\ job.at # "session"
  BY <1>1 DEF Idle, WalletSteps
<1>6. told' \in Tolds
  BY <1>1 DEF Tolds
<1>7. conn' = c
  BY <1>1 DEF Become
<1>8. \A x \in exchanges : x.by # "page"
  BY <1>5, NoPageExchange
<1> HIDE DEF c
<1>9. HandlerOK'
  BY <1>1, <1>2, <1>4, <1>7, <1>8 DEF HandlerOK, serviceVars
<1>10. ToldOK'
  BY <1>2, <1>4, <1>7 DEF ToldOK
<1>11. OwnOK'
  <2>1. \A s \in sessions : s.token # Nothing
    BY TokenIs DEF Nothing
  <2> QED BY <1>1, <1>2, <1>4, <1>7, <1>8, <2>1 DEF OwnOK, Awaited, Held, None, serviceVars
<1> QED BY <1>1, <1>2, <1>4, <1>5, <1>6, <1>9, <1>10, <1>11, HandlerStepIs

LEMMA DisconnectStep ==
    ASSUME WalletInv, Disconnect PROVE WalletInv'
<1>1. Become(NoConn) /\ UNCHANGED <<login, wallet, inbox, job, told, serviceVars, lost>>
  BY DEF Disconnect
<1>2. conn' = NoConn /\ NoConn.token \in {conn.token, Nothing}
  BY <1>1 DEF Become, NoConn
<1>3. HandlerOK' /\ ToldOK' /\ EventsOK' /\ AnswersOK'
  BY <1>1, <1>2 DEF HandlerOK, ToldOK, EventsOK, AnswersOK, WalletInv, PageOK, NoConn, serviceVars
<1>4. OwnOK'
  BY <1>1, <1>2, OwnKept
<1>5. inbox' \in Seq(Message) /\ job' \in Jobs /\ told' \in Tolds
  BY <1>1, Typed DEF WalletInv, TypeOK
<1> QED BY <1>1, <1>2, <1>3, <1>4, <1>5, NoConnTyped, PageStepIs

LEMMA ExpiresStep ==
    ASSUME WalletInv, Expires PROVE WalletInv'
<1>1. /\ conn.token # Nothing /\ conn' = [conn EXCEPT !.expired = TRUE]
      /\ UNCHANGED <<login, wallet, inbox, job, told, serviceVars, logouts, lost>>
  BY DEF Expires
<1>2. conn \in Conns /\ conn.current
  BY <1>1, ConnIs DEF NoConn
<1>3. /\ conn' \in Conns /\ conn'.current = conn.current /\ conn'.account = conn.account
      /\ conn'.token = conn.token /\ conn'.switching = conn.switching
  BY <1>1, <1>2 DEF Conns
<1>4. Become(conn')
  BY <1>1, <1>3 DEF Become
<1>5. HandlerOK' /\ ToldOK' /\ EventsOK' /\ AnswersOK'
  BY <1>1, <1>2, <1>3 DEF HandlerOK, ToldOK, EventsOK, AnswersOK, WalletInv, PageOK, serviceVars
<1>6. OwnOK'
  BY <1>1, <1>3, OwnKept
<1>7. NoForgottenToken'
  BY <1>1, <1>3 DEF NoForgottenToken, WalletInv, PageOK, serviceVars
<1>8. ServiceOK' /\ OnePlace'
  BY <1>1, ServiceKept DEF WalletInv
<1>9. TypeOK'
  BY <1>1, <1>3 DEF TypeOK, WalletInv, Conns, serviceVars
<1> QED BY <1>5, <1>6, <1>7, <1>8, <1>9 DEF WalletInv, PageOK

LEMMA ChallengeRepliedStep ==
    ASSUME WalletInv, ChallengeReplied PROVE WalletInv'
<1>1. /\ job.at = "challenge" /\ job.at \notin WalletSteps /\ job.at # "session"
      /\ UNCHANGED <<login, wallet, inbox, told, serviceVars, lost>>
  BY DEF ChallengeReplied, Replied, WalletSteps
<1>2. conn \in Conns /\ job \in Jobs /\ told \in Tolds /\ TypeOK
  BY Typed DEF WalletInv
<1>3. told' \in Tolds
  BY <1>1, <1>2
<1>4. CASE Bound /\ job.reply > 0
  <2>1. job' = [Await("sign", None) EXCEPT !.given = job.reply] /\ Become(conn) /\ conn.current
    BY <1>4 DEF ChallengeReplied, Bound
  <2>2. "sign" \in WalletSteps \cup ServiceSteps /\ None \in Thens
    BY DEF WalletSteps, Thens
  <2>3. /\ Await("sign", None) \in Jobs /\ Await("sign", None).at = "sign"
        /\ Await("sign", None).then = None /\ Await("sign", None).reply = Nothing
    BY <1>2, <2>2, AwaitIs
  <2>4. job.reply \in 1 .. MaxNonces
    BY <1>2, <1>4 DEF Jobs, Nothing, Refused, Unauthorized
  <2>5. /\ job' \in Jobs /\ job'.at = "sign" /\ job'.then = None /\ job'.reply = Nothing
        /\ job'.given = job.reply
    BY <2>1, <2>3, <2>4 DEF Jobs
  <2>6. conn.switching = FALSE /\ conn.account # None /\ conn' = conn
    BY <1>1, <2>1, ConnIs DEF Become
  <2>7. Connecting(job)
    BY <1>1 DEF Connecting
  <2>8. \A c \in challenges : Awaited(job', c) => Awaited(job, c)
    BY <1>1, <2>5 DEF Awaited, None
  <2>9. HandlerOK' /\ ToldOK' /\ OwnOK'
    BY <1>1, <2>1, <2>5, <2>6, <2>7, <2>8, ProceedsIs
  <2> QED BY <1>1, <1>2, <1>3, <2>1, <2>5, <2>9, HandlerStepIs
<1>5. CASE Throw(NoConn)
  <2>1. job' = Idle /\ Become(NoConn) /\ conn' = NoConn
    BY <1>5 DEF Throw, Become
  <2>2. NoConn.token = Nothing
    BY DEF NoConn
  <2>3. HandlerOK' /\ ToldOK' /\ OwnOK'
    BY <1>1, <2>1, ThrownIs
  <2> QED BY <1>1, <1>3, <2>1, <2>2, <2>3, NoConnTyped, IdleTyped, HandlerStepIs
<1> QED BY <1>4, <1>5 DEF ChallengeReplied

\* The handler of a connected page goes on, or ends and leaves the connection.
LEMMA HandlerProceeds ==
    ASSUME WalletInv, job.at \in {"idle", "prepare"},
           UNCHANGED <<login, wallet, inbox, told, serviceVars, lost>>,
           Become(conn), job' \in Jobs, job'.reply = Nothing,
           job'.at \in {"idle", "chain", "prepare"}, ~Connecting(job'),
           job'.at = "chain" => job'.then # None
    PROVE  WalletInv'
<1>1. job.at \notin WalletSteps /\ job.at # "session" /\ job.at # "switch" /\ job.at # "accounts"
  BY DEF WalletSteps
<1>2. conn \in Conns /\ told \in Tolds /\ conn' = conn
  BY Typed DEF WalletInv, Become
<1>3. conn.switching = FALSE /\ (conn.current => conn.account # None)
      /\ (~conn.current => conn = NoConn)
  BY <1>1, ConnIs
<1>4. \A c \in challenges : Awaited(job', c) => Awaited(job, c)
  BY DEF Awaited, Connecting
<1>5. told' \in Tolds /\ told'.account \in {told.account, conn.account}
  BY <1>2
<1>6. HandlerOK' /\ ToldOK' /\ OwnOK'
  BY <1>1, <1>2, <1>3, <1>4, <1>5, ProceedsIs
<1> QED BY <1>1, <1>2, <1>5, <1>6, HandlerStepIs

LEMMA ExecuteStep ==
    ASSUME WalletInv, Execute PROVE WalletInv'
<1> DEFINE then == IF login THEN "submit" ELSE "send"
<1>1. /\ job = Idle /\ job' = Await("chain", then)
      /\ UNCHANGED <<login, wallet, inbox, conn, told, serviceVars, logouts, lost>>
  BY DEF Execute
<1>2. "chain" \in WalletSteps \cup ServiceSteps /\ TypeOK
      /\ then \in Thens /\ then \notin {None, "challenge", "session"}
  BY DEF WalletSteps, Thens, None, WalletInv
<1> HIDE DEF then
<1>3. job' \in Jobs /\ job'.at = "chain" /\ job'.then = then /\ job'.reply = Nothing
  BY <1>1, <1>2, AwaitIs
<1>4. job.at = "idle" /\ Become(conn) /\ ~Connecting(job')
  BY <1>1, <1>2, <1>3 DEF Idle, Become, Connecting
<1> QED BY <1>1, <1>2, <1>3, <1>4, HandlerProceeds

LEMMA OwnerActionStep ==
    ASSUME WalletInv, OwnerAction PROVE WalletInv'
<1>1. /\ job = Idle /\ job' = [Await("prepare", None) EXCEPT !.given = conn.token]
      /\ conn.token # Nothing
      /\ UNCHANGED <<login, wallet, inbox, conn, told, serviceVars, logouts, lost>>
  BY DEF OwnerAction, LoggedIn
<1>2. "prepare" \in WalletSteps \cup ServiceSteps /\ TypeOK /\ None \in Thens
  BY DEF ServiceSteps, Thens, WalletInv
<1>3. /\ Await("prepare", None) \in Jobs /\ Await("prepare", None).at = "prepare"
      /\ Await("prepare", None).then = None /\ Await("prepare", None).reply = Nothing
  BY <1>2, AwaitIs
<1>4. conn.token \in 1 .. MaxNonces
  BY <1>1, <1>2, Typed, TokensAreFew DEF Conns, WalletInv, OnePlace
<1>5. job' \in Jobs /\ job'.at = "prepare" /\ job'.then = None /\ job'.reply = Nothing
  BY <1>1, <1>3, <1>4 DEF Jobs
<1>6. job.at = "idle" /\ Become(conn) /\ ~Connecting(job')
  BY <1>1, <1>5 DEF Idle, Become, Connecting, None
<1> QED BY <1>1, <1>5, <1>6, HandlerProceeds

LEMMA PrepareRepliedStep ==
    ASSUME WalletInv, PrepareReplied PROVE WalletInv'
<1>1. /\ job.at = "prepare" /\ job.at \notin WalletSteps /\ job.at # "session"
      /\ UNCHANGED <<login, wallet, inbox, told, serviceVars, lost>>
  BY DEF PrepareReplied, Replied, WalletSteps
<1>2. TypeOK /\ told' \in Tolds
  BY <1>1, Typed DEF WalletInv
<1>3. CASE job' = Await("chain", "send") /\ Become(conn)
  <2>1. "chain" \in WalletSteps \cup ServiceSteps /\ "send" \in Thens
    BY DEF WalletSteps, Thens
  <2>2. job' \in Jobs /\ job'.at = "chain" /\ job'.then = "send" /\ job'.reply = Nothing
    BY <1>2, <1>3, <2>1, AwaitIs
  <2>3. ~Connecting(job') /\ "send" # None
    BY <2>2 DEF Connecting, None
  <2> QED BY <1>1, <1>3, <2>2, <2>3, HandlerProceeds
<1>4. CASE Throw(conn)
  <2>1. job' = Idle /\ Become(conn)
    BY <1>4 DEF Throw
  <2>2. job' \in Jobs /\ job'.at = "idle" /\ job'.then = None /\ job'.reply = Nothing
    BY <2>1, IdleTyped DEF Idle
  <2>3. ~Connecting(job')
    BY <2>2 DEF Connecting, None
  <2> QED BY <1>1, <2>1, <2>2, <2>3, HandlerProceeds
<1>5. CASE Throw(NoConn)
  <2>1. job' = Idle /\ Become(NoConn) /\ conn' = NoConn
    BY <1>5 DEF Throw, Become
  <2>2. NoConn.token = Nothing
    BY DEF NoConn
  <2>3. HandlerOK' /\ ToldOK' /\ OwnOK'
    BY <1>1, <2>1, ThrownIs
  <2> QED BY <1>1, <1>2, <2>1, <2>2, <2>3, NoConnTyped, IdleTyped, HandlerStepIs
<1> QED BY <1>3, <1>4, <1>5 DEF PrepareReplied

\* Wherever the reply finds the page, the token goes to a place of its own.
LEMMA SessionRepliedStep ==
    ASSUME WalletInv, NEW late \in BOOLEAN, SessionReplied(late) PROVE WalletInv'
<1>1. /\ job.at = "session" /\ job.reply # Nothing
      /\ UNCHANGED <<login, wallet, inbox, told, serviceVars, lost>>
  BY DEF SessionReplied, Replied
<1>2. conn \in Conns /\ conn.switching = FALSE /\ job \in Jobs
      /\ (conn.current => conn.account # None) /\ (~conn.current => conn = NoConn)
  BY <1>1, ConnIs
<1>3. conn.token = Nothing /\ \A x \in exchanges : x.by # "page"
  BY <1>1 DEF WalletInv, PageOK, HandlerOK, Connecting
<1>4. job.reply \in {Refused} \cup DOMAIN minted /\ (job.reply > 0 => job.reply \in DOMAIN minted)
  BY <1>1 DEF WalletInv, PageOK, HandlerOK, Refused
<1>5. \A s \in sessions : s.token # Nothing /\ s.token # Refused /\ s.token \in DOMAIN minted
  <2>1. ASSUME NEW s \in sessions PROVE s.token # Nothing /\ s.token # Refused /\ s.token \in DOMAIN minted
    BY TokenIs DEF Nothing, Refused
  <2> QED BY <2>1
<1>6. ServiceOK' /\ OnePlace'
  BY <1>1, ServiceKept DEF WalletInv
<1>7. AnswersOK' /\ EventsOK'
  <2>1. \A i \in DOMAIN inbox : inbox[i].type # "answer"
    BY <1>1, NoAnswer DEF WalletSteps
  <2> QED BY <1>1, <2>1 DEF AnswersOK, EventsOK, WalletInv, PageOK
<1>8. ASSUME conn' \in Conns, job' \in Jobs, logouts' \subseteq DOMAIN minted PROVE TypeOK'
  BY <1>1, <1>8 DEF TypeOK, WalletInv, Conns, Jobs, Thens, serviceVars
<1>9. logouts \subseteq DOMAIN minted
  BY DEF WalletInv, TypeOK
<1>10. \A s \in Open(sessions) : s.by = "page" =>
           s.token \in logouts \cup lost \/ s.token = job.reply
  <2>1. Open(sessions) \subseteq sessions
    BY DEF Open
  <2> QED BY <1>3, <1>5, <2>1 DEF NoForgottenToken, WalletInv, PageOK
<1>11. CASE job.reply > 0 /\ ~conn.current
  <2>1. logouts' = logouts \cup {job.reply} /\ job' = Idle /\ conn' = conn
    BY <1>11 DEF SessionReplied, Orphaned
  <2>2. conn' = NoConn
    BY <1>2, <1>11, <2>1
  <2>3. HandlerOK' /\ ToldOK' /\ OwnOK'
    BY <1>1, <1>3, <2>1, <2>2
    DEF serviceVars, HandlerOK, ToldOK, OwnOK, Connecting, Idle, NoConn, None, Nothing
  <2>4. NoForgottenToken'
    BY <1>1, <1>10, <2>1 DEF NoForgottenToken, serviceVars, Open
  <2>5. logouts' \subseteq DOMAIN minted
    BY <1>4, <1>9, <1>11, <2>1
  <2>6. TypeOK'
    BY <1>2, <1>8, <2>1, <2>5, IdleTyped, Typed DEF WalletInv, Conns
  <2> QED BY <1>6, <1>7, <2>3, <2>4, <2>6 DEF WalletInv, PageOK
<1>12. CASE job.reply > 0 /\ conn.current /\ ~late
  <2>1. /\ conn' = [conn EXCEPT !.token = job.reply] /\ job' = Await("chain", "connected")
        /\ logouts' = logouts
    BY <1>12 DEF SessionReplied
  <2>2. "chain" \in WalletSteps \cup ServiceSteps /\ "connected" \in Thens /\ TypeOK
    BY DEF WalletSteps, Thens, WalletInv
  <2>3. /\ job' \in Jobs /\ job'.at = "chain" /\ job'.then = "connected" /\ job'.reply = Nothing
    BY <2>1, <2>2, AwaitIs
  <2>4. /\ conn' \in [current : BOOLEAN, account : Accounts \cup {None}, pending : Seq(Event),
                      switching : BOOLEAN, token : {Nothing} \cup DOMAIN minted, expired : BOOLEAN]
        /\ conn'.current = TRUE /\ conn'.account = conn.account
        /\ conn'.switching = FALSE /\ conn'.token = job.reply
    BY <1>2, <1>4, <1>12, <2>1 DEF Conns
  <2>5. HandlerOK'
    BY <1>1, <1>3, <2>3, <2>4 DEF serviceVars, HandlerOK, Connecting, None
  <2>6. ToldOK'
    BY <1>1, <1>2, <1>12, <2>3, <2>4 DEF ToldOK, WalletInv, PageOK
  <2>7. OwnOK'
    BY <1>1, <1>3, <1>12, <2>3, <2>4 DEF serviceVars, OwnOK, Awaited, Held, WalletInv, PageOK
  <2>8. NoForgottenToken'
    BY <1>1, <1>10, <2>1, <2>4 DEF NoForgottenToken, serviceVars, Open
  <2>9. TypeOK'
    BY <1>1, <2>1, <2>3, <2>4 DEF TypeOK, WalletInv, Jobs, Thens, serviceVars
  <2> QED BY <1>6, <1>7, <2>5, <2>6, <2>7, <2>8, <2>9 DEF WalletInv, PageOK
<1>13. CASE ~(job.reply > 0 /\ ~conn.current) /\ ~(job.reply > 0 /\ ~late)
  <2>1. /\ job' = Idle /\ conn' = NoConn
        /\ logouts' = logouts \cup ({job.reply} \cap DOMAIN minted)
    BY <1>13 DEF SessionReplied
  <2>2. HandlerOK' /\ ToldOK' /\ OwnOK'
    BY <1>1, <1>3, <2>1
    DEF serviceVars, HandlerOK, ToldOK, OwnOK, Connecting, Idle, NoConn, None, Nothing
  <2>3. NoForgottenToken'
    BY <1>1, <1>5, <1>10, <2>1 DEF NoForgottenToken, serviceVars, Open
  <2>4. logouts' \subseteq DOMAIN minted
    BY <1>9, <2>1
  <2>5. job' \in Jobs
    BY <2>1, IdleTyped
  <2>6. NoConn \in [current : BOOLEAN, account : Accounts \cup {None}, pending : Seq(Event),
                    switching : BOOLEAN, token : {Nothing} \cup DOMAIN minted, expired : BOOLEAN]
    BY NoConnTyped DEF Conns
  <2>7. TypeOK'
    BY <1>1, <2>1, <2>4, <2>5, <2>6 DEF TypeOK, WalletInv, Jobs, Thens, serviceVars
  <2> QED BY <1>6, <1>7, <2>2, <2>3, <2>7 DEF WalletInv, PageOK
<1> QED BY <1>11, <1>12, <1>13

-----------------------------------------------------------------------------
\* Steps of the wallet.

LEMMA EmittedIs ==
    ASSUME WalletInv, NEW messages \in Seq(Message), inbox' = inbox \o messages
    PROVE  /\ inbox' \in Seq(Message)
           /\ \A i \in DOMAIN inbox' :
                 \/ i \in DOMAIN inbox /\ inbox'[i] = inbox[i]
                 \/ /\ i - Len(inbox) \in DOMAIN messages
                    /\ inbox'[i] = messages[i - Len(inbox)]
                    /\ i \in Int /\ Len(inbox) \in Int
<1>1. inbox \in Seq(Message)
  BY DEF WalletInv, TypeOK
<1>2. /\ inbox \o messages \in Seq(Message)
      /\ Len(inbox \o messages) = Len(inbox) + Len(messages)
      /\ \A i \in 1 .. Len(inbox) + Len(messages) : (inbox \o messages)[i] =
             IF i <= Len(inbox) THEN inbox[i] ELSE messages[i - Len(inbox)]
  BY <1>1, ConcatProperties
<1>3. /\ DOMAIN (inbox \o messages) = 1 .. Len(inbox) + Len(messages)
      /\ DOMAIN inbox = 1 .. Len(inbox) /\ DOMAIN messages = 1 .. Len(messages)
      /\ Len(inbox) \in Nat /\ Len(messages) \in Nat
  BY <1>1, <1>2
<1> QED BY <1>2, <1>3

\* A step that leaves the page as it is, but for what it has received.
LEMMA WalletStepIs ==
    ASSUME WalletInv, UNCHANGED <<login, conn, told, serviceVars, logouts, lost>>,
           job' \in Jobs, job'.at = job.at, job'.then = job.then, job'.given = job.given,
           job'.reply = job.reply, job'.open => job.open,
           \A x \in exchanges : x.by = "page" => ~job'.open,
           wallet' \in [account : Accounts, network : Networks, changes : 0 .. MaxChanges],
           inbox' \in Seq(Message), EventsOK', AnswersOK'
    PROVE  WalletInv'
<1>1. ServiceOK' /\ OnePlace'
  BY ServiceKept DEF WalletInv
<1>2. HandlerOK'
  BY DEF HandlerOK, Connecting, WalletInv, PageOK, serviceVars
<1>3. ToldOK'
  BY DEF ToldOK, WalletInv, PageOK
<1>4. OwnOK'
  BY DEF OwnOK, Held, Awaited, WalletInv, PageOK, serviceVars
<1>5. NoForgottenToken'
  BY DEF NoForgottenToken, Open, WalletInv, PageOK, serviceVars
<1>6. TypeOK'
  BY DEF TypeOK, WalletInv, Jobs, Thens, serviceVars
<1> QED BY <1>1, <1>2, <1>3, <1>4, <1>5, <1>6 DEF WalletInv, PageOK

\* An event joins the queue.
LEMMA EventEmitted ==
    ASSUME WalletInv, NEW m \in Message, Emit(<<m>>), job' = job, m.type # "answer",
           m.type = "account" => m.value \in Accounts,
           m.type = "network" => m.value \in Networks,
           m.type = "disconnect" => m.value = None,
           wallet' \in [account : Accounts, network : Networks, changes : 0 .. MaxChanges]
    PROVE  WalletInv'
<1>1. /\ inbox' = inbox \o <<m>> /\ <<m>> \in Seq(Message)
      /\ UNCHANGED <<login, conn, told, serviceVars, logouts, lost>>
  BY DEF Emit
<1>2. /\ inbox' \in Seq(Message)
      /\ \A i \in DOMAIN inbox' :
            \/ i \in DOMAIN inbox /\ inbox'[i] = inbox[i]
            \/ i - Len(inbox) \in DOMAIN <<m>> /\ inbox'[i] = <<m>>[i - Len(inbox)]
  BY <1>1, EmittedIs
<1>3. \A i \in DOMAIN inbox' : (i \in DOMAIN inbox /\ inbox'[i] = inbox[i]) \/ inbox'[i] = m
  BY <1>2
<1>4. EventsOK'
  BY <1>3 DEF EventsOK, WalletInv, PageOK
<1>5. AnswersOK'
  BY <1>3 DEF AnswersOK, WalletInv, PageOK
<1>6. job' \in Jobs /\ \A x \in exchanges : x.by = "page" => ~job'.open
  BY ConnIs DEF WalletInv, PageOK, HandlerOK
<1> QED BY <1>1, <1>2, <1>4, <1>5, <1>6, WalletStepIs

LEMMA UserStep ==
    ASSUME WalletInv, UserChanges PROVE WalletInv'
<1>1. /\ wallet \in [account : Accounts, network : Networks, changes : 0 .. MaxChanges]
      /\ wallet.changes + 1 \in 0 .. MaxChanges /\ job' = job
  <2>1. wallet \in [account : Accounts, network : Networks, changes : 0 .. MaxChanges]
    BY DEF WalletInv, TypeOK
  <2>2. wallet.changes < MaxChanges /\ job' = job
    BY DEF UserChanges
  <2> QED BY <2>1, <2>2, BoundsAssumption
<1>2. CASE \E a \in Accounts \ {wallet.account} :
             /\ wallet' = [wallet EXCEPT !.account = a, !.changes = @ + 1]
             /\ Emit(<<[type |-> "account", value |-> a]>>)
  <2>1. PICK a \in Accounts :
             /\ wallet' = [wallet EXCEPT !.account = a, !.changes = @ + 1]
             /\ Emit(<<[type |-> "account", value |-> a]>>)
    BY <1>2
  <2>2. [type |-> "account", value |-> a] \in Message
    BY DEF Message, Event
  <2>3. wallet' \in [account : Accounts, network : Networks, changes : 0 .. MaxChanges]
    BY <1>1, <2>1
  <2> QED BY <1>1, <2>1, <2>2, <2>3, EventEmitted
<1>3. CASE \E n \in Networks \ {wallet.network} :
             /\ wallet' = [wallet EXCEPT !.network = n, !.changes = @ + 1]
             /\ Emit(<<[type |-> "network", value |-> n]>>)
  <2>1. PICK n \in Networks :
             /\ wallet' = [wallet EXCEPT !.network = n, !.changes = @ + 1]
             /\ Emit(<<[type |-> "network", value |-> n]>>)
    BY <1>3
  <2>2. [type |-> "network", value |-> n] \in Message
    BY DEF Message, Event
  <2>3. wallet' \in [account : Accounts, network : Networks, changes : 0 .. MaxChanges]
    BY <1>1, <2>1
  <2> QED BY <1>1, <2>1, <2>2, <2>3, EventEmitted
<1>4. CASE /\ wallet' = [wallet EXCEPT !.changes = @ + 1]
           /\ Emit(<<[type |-> "disconnect", value |-> None]>>)
  <2>1. [type |-> "disconnect", value |-> None] \in Message
    BY DEF Message, Event
  <2>2. wallet' \in [account : Accounts, network : Networks, changes : 0 .. MaxChanges]
    BY <1>1, <1>4
  <2> QED BY <1>1, <1>4, <2>1, <2>2, EventEmitted
<1> QED BY <1>2, <1>3, <1>4 DEF UserChanges

\* Events and at last the answer join the queue.
LEMMA AnswerEmitted ==
    ASSUME WalletInv, NEW messages \in Seq(Message), Emit(messages),
           job.at \in WalletSteps, job.open, job' = [job EXCEPT !.open = FALSE],
           wallet' \in [account : Accounts, network : Networks, changes : 0 .. MaxChanges],
           \A i \in DOMAIN messages :
              \/ /\ i = Len(messages) /\ messages[i].type = "answer"
                 /\ messages[i].value \in Fits(job.at) \cup {"rejected"}
              \/ messages[i].type = "network" /\ messages[i].value \in Networks
    PROVE  WalletInv'
<1>1. inbox' = inbox \o messages /\ UNCHANGED <<login, conn, told, serviceVars, logouts, lost>>
  BY DEF Emit
<1>2. /\ inbox' \in Seq(Message)
      /\ \A i \in DOMAIN inbox' :
            \/ i \in DOMAIN inbox /\ inbox'[i] = inbox[i]
            \/ /\ i - Len(inbox) \in DOMAIN messages /\ inbox'[i] = messages[i - Len(inbox)]
               /\ i \in Int /\ Len(inbox) \in Int
  BY <1>1, EmittedIs
<1>3. \A i \in DOMAIN inbox : inbox[i].type # "answer"
  BY DEF WalletInv, PageOK, AnswersOK
<1>4. job \in Jobs
  BY Typed DEF WalletInv
<1>5. /\ job' \in Jobs /\ job'.at = job.at /\ job'.then = job.then /\ job'.given = job.given
      /\ job'.reply = job.reply /\ job'.open = FALSE
  BY <1>4 DEF Jobs
<1>6. EventsOK'
  BY <1>2 DEF EventsOK, WalletInv, PageOK
<1>7. ASSUME NEW i \in DOMAIN inbox', inbox'[i].type = "answer"
      PROVE  /\ inbox'[i].value \in Fits(job.at) \cup {"rejected"}
             /\ i = Len(inbox) + Len(messages)
  <2>1. /\ i - Len(inbox) \in DOMAIN messages /\ inbox'[i] = messages[i - Len(inbox)]
        /\ i \in Int /\ Len(inbox) \in Int
    BY <1>2, <1>3, <1>7
  <2>2. /\ i - Len(inbox) = Len(messages)
        /\ messages[i - Len(inbox)].value \in Fits(job.at) \cup {"rejected"}
    BY <1>7, <2>1
  <2>3. i = Len(inbox) + Len(messages)
    <3>1. Len(messages) \in Int
      OBVIOUS
    <3>2. i \in Int /\ Len(inbox) \in Int
      BY <2>1
    <3>3. i - Len(inbox) = Len(messages)
      BY <2>2
    <3>4. \A a, b, c \in Int : a - b = c => a = b + c
      OBVIOUS
    <3> QED BY <3>1, <3>2, <3>3, <3>4
  <2>4. inbox'[i].value = messages[i - Len(inbox)].value
    BY <2>1
  <2> QED BY <2>2, <2>3, <2>4
<1>8. AnswersOK'
  BY <1>5, <1>7 DEF AnswersOK
<1> QED BY <1>1, <1>2, <1>5, <1>6, <1>8, WalletStepIs

LEMMA WalletAnswersStep ==
    ASSUME WalletInv, WalletAnswers PROVE WalletInv'
<1>1. /\ job.at \in WalletSteps /\ job.open /\ job' = [job EXCEPT !.open = FALSE]
      /\ wallet \in [account : Accounts, network : Networks, changes : 0 .. MaxChanges]
  BY DEF WalletAnswers, WalletInv, TypeOK
<1>2. CASE /\ Emit(<<[type |-> "answer", value |-> "rejected"]>>)
           /\ UNCHANGED wallet
  <2> DEFINE m == [type |-> "answer", value |-> "rejected"]
  <2>1. m \in Message /\ m.type = "answer" /\ m.value \in Fits(job.at) \cup {"rejected"}
    BY DEF Message
  <2> HIDE DEF m
  <2>2. <<m>> \in Seq(Message) /\ DOMAIN <<m>> = {1} /\ <<m>>[1] = m /\ Len(<<m>>) = 1
    BY <2>1
  <2>3. Emit(<<m>>)
    BY <1>2 DEF m
  <2> QED BY <1>1, <1>2, <2>1, <2>2, <2>3, AnswerEmitted
<1>3. CASE /\ wallet' = IF job.at = "switch" THEN [wallet EXCEPT !.network = "testnet"] ELSE wallet
           /\ Emit((IF wallet' = wallet THEN <<>> ELSE <<[type |-> "network", value |-> "testnet"]>>)
                     \o <<[type |-> "answer", value |-> Truth]>>)
  <2> DEFINE m == [type |-> "answer", value |-> Truth]
             n == [type |-> "network", value |-> "testnet"]
  <2>1. Truth \in Fits(job.at)
    BY <1>1 DEF Truth, Fits
  <2>2. Fits(job.at) \subseteq Accounts \cup Networks \cup {"ok", "rejected"}
    BY DEF Fits
  <2>3. m \in Message /\ m.type = "answer" /\ m.value \in Fits(job.at) \cup {"rejected"}
    BY <2>1, <2>2 DEF Message
  <2>4. n \in Message /\ n.type = "network" /\ n.value \in Networks
    BY DEF Message, Event, Networks
  <2>5. wallet' \in [account : Accounts, network : Networks, changes : 0 .. MaxChanges]
    BY <1>1, <1>3 DEF Networks
  <2>6. Emit((IF wallet' = wallet THEN <<>> ELSE <<n>>) \o <<m>>)
    BY <1>3
  <2> HIDE DEF m, n
  <2>7. CASE wallet' = wallet
    <3>1. <<m>> \in Seq(Message) /\ DOMAIN <<m>> = {1} /\ <<m>>[1] = m /\ Len(<<m>>) = 1
      BY <2>3
    <3>2. <<>> \o <<m>> = <<m>>
      BY <3>1, ConcatEmptySeq
    <3>3. Emit(<<m>>)
      BY <2>6, <2>7, <3>2
    <3> QED BY <1>1, <2>3, <2>5, <3>1, <3>3, AnswerEmitted
  <2>8. CASE wallet' # wallet
    <3> DEFINE both == <<n>> \o <<m>>
    <3>1. /\ <<n>> \in Seq(Message) /\ Len(<<n>>) = 1 /\ <<n>>[1] = n
          /\ <<m>> \in Seq(Message) /\ Len(<<m>>) = 1 /\ <<m>>[1] = m
      BY <2>3, <2>4
    <3>2. /\ both \in Seq(Message) /\ Len(both) = 2
          /\ \A i \in 1 .. 1 + 1 : both[i] = IF i <= 1 THEN <<n>>[i] ELSE <<m>>[i - 1]
      BY <3>1, ConcatProperties
    <3>3. Emit(both)
      BY <2>6, <2>8
    <3> HIDE DEF both
    <3>4. DOMAIN both = {1, 2} /\ both[1] = n /\ both[2] = m
      BY <3>1, <3>2
    <3> QED BY <1>1, <2>3, <2>4, <2>5, <3>2, <3>3, <3>4, AnswerEmitted
  <2> QED BY <2>7, <2>8
<1> QED BY <1>2, <1>3 DEF WalletAnswers

-----------------------------------------------------------------------------
\* Steps of the service.

\* What is left to show of a step of the service.
LEMMA ServiceStepIs ==
    ASSUME WalletInv, UNCHANGED <<login, wallet, inbox, conn, told>>,
           \/ job' = job
           \/ /\ job.at \in ServiceSteps /\ job' \in Jobs /\ job'.at = job.at
              /\ job'.then = job.then,
           issued' \in 0 .. MaxNonces, minted' \in Seq(1 .. issued'),
           DOMAIN minted \subseteq DOMAIN minted',
           Cardinality(challenges') <= MaxChallenges, Cardinality(sessions') <= MaxSessions,
           logouts' \cup lost' \subseteq DOMAIN minted',
           ServiceOK', OnePlace', HandlerOK', OwnOK', NoForgottenToken'
    PROVE  WalletInv'
<1>1. job' \in Jobs /\ job'.at = job.at
  BY Typed DEF WalletInv
<1>2. AnswersOK' /\ EventsOK'
  <2>1. CASE job' = job
    BY <2>1 DEF AnswersOK, EventsOK, WalletInv, PageOK
  <2>2. CASE job.at \in ServiceSteps
    <3>1. \A i \in DOMAIN inbox : inbox[i].type # "answer"
      BY <2>2, NoAnswer DEF WalletSteps, ServiceSteps
    <3> QED BY <3>1 DEF AnswersOK, EventsOK, WalletInv, PageOK
  <2> QED BY <2>1, <2>2
<1>3. ToldOK'
  BY <1>1 DEF ToldOK, WalletInv, PageOK
<1>4. TypeOK'
  BY <1>1 DEF TypeOK, WalletInv, Jobs, Thens
<1> QED BY <1>2, <1>3, <1>4 DEF WalletInv, PageOK

LEMMA ServiceTyped ==
    ASSUME WalletInv
    PROVE  /\ issued \in 0 .. MaxNonces /\ minted \in Seq(1 .. issued)
           /\ Cardinality(challenges) <= MaxChallenges /\ Cardinality(sessions) <= MaxSessions
           /\ logouts \cup lost \subseteq DOMAIN minted
           /\ MaxNonces \in Nat /\ MaxChallenges \in Nat /\ MaxSessions \in Nat
           /\ issued \in Nat /\ conn \in Conns /\ job \in Jobs /\ told \in Tolds
BY BoundsAssumption, Typed DEF WalletInv, TypeOK

\* Dropping some records of a finite set, and adding one if there is room.
LEMMA LimitKept ==
    ASSUME NEW S, IsFiniteSet(S), NEW limit \in Nat, Cardinality(S) <= limit, NEW T \in SUBSET S
    PROVE  IsFiniteSet(T) /\ Cardinality(T) <= limit
<1>1. IsFiniteSet(T) /\ Cardinality(T) <= Cardinality(S)
  BY FS_Subset
<1>2. Cardinality(T) \in Nat /\ Cardinality(S) \in Nat
  BY <1>1, FS_CardinalityType
<1> QED BY <1>1, <1>2

LEMMA LimitReached ==
    ASSUME NEW T, IsFiniteSet(T), NEW limit \in Nat, Cardinality(T) < limit, NEW r
    PROVE  IsFiniteSet(T \cup {r}) /\ Cardinality(T \cup {r}) <= limit
<1>1. /\ IsFiniteSet(T \cup {r})
      /\ Cardinality(T \cup {r}) = IF r \in T THEN Cardinality(T) ELSE Cardinality(T) + 1
  BY FS_AddElement
<1>2. Cardinality(T) \in Nat
  BY FS_CardinalityType
<1> QED BY <1>1, <1>2

LEMMA LimitReplaced ==
    ASSUME NEW S, IsFiniteSet(S), NEW limit \in Nat, Cardinality(S) <= limit, NEW old \in S, NEW r
    PROVE  IsFiniteSet((S \ {old}) \cup {r}) /\ Cardinality((S \ {old}) \cup {r}) <= limit
<1>1. IsFiniteSet(S \ {old}) /\ Cardinality(S \ {old}) = Cardinality(S) - 1
  BY FS_RemoveElement
<1>2. Cardinality(S) \in Nat /\ Cardinality(S \ {old}) \in Nat
  BY <1>1, FS_CardinalityType
<1>3. Cardinality(S \ {old}) < limit
  BY <1>1, <1>2
<1> QED BY <1>1, <1>3, LimitReached

\* Nobody else's request changes what the page's handler knows.
LEMMA OtherReply ==
    ASSUME NEW by, NEW value, by # "page", Reply(by, value)
    PROVE  job' = job
BY DEF Reply

LEMMA ChallengeStep ==
    ASSUME WalletInv, NEW by \in By, NEW account, by = "page" => account = conn.account,
           Challenge(by, account)
    PROVE  WalletInv'
<1>1. /\ Serve(by, "challenge") /\ issued < MaxNonces
      /\ UNCHANGED <<login, wallet, inbox, conn, told, exchanges, sessions, minted, logouts, lost>>
  BY DEF Challenge
<1>2. /\ issued \in 0 .. MaxNonces /\ minted \in Seq(1 .. issued)
      /\ Cardinality(challenges) <= MaxChallenges /\ Cardinality(sessions) <= MaxSessions
      /\ logouts \cup lost \subseteq DOMAIN minted /\ MaxNonces \in Nat /\ MaxChallenges \in Nat
      /\ job \in Jobs
  BY ServiceTyped
<1>3. /\ challenges \subseteq [nonce : 1 .. issued, by : By, account : Allowed, expired : BOOLEAN]
      /\ exchanges \subseteq [nonce : 1 .. issued, by : By, account : Allowed, valid : BOOLEAN,
                              attempt : 1 .. 2]
      /\ sessions \subseteq [token : DOMAIN minted, by : By, account : Allowed, expired : BOOLEAN]
      /\ IsFiniteSet(challenges) /\ IsFiniteSet(sessions)
  BY DEF WalletInv, ServiceOK
<1>4. Open(challenges) \subseteq challenges /\ IsFiniteSet(Open(challenges))
      /\ Cardinality(Open(challenges)) <= MaxChallenges
  <2>1. Open(challenges) \subseteq challenges
    BY DEF Open
  <2> QED BY <1>2, <1>3, <2>1, LimitKept
<1>5. by = "page" => job.at = "challenge" /\ job.open
  BY <1>1 DEF Serve
<1>6. ASSUME NEW value \in {Nothing, Refused, Unauthorized} \cup 1 .. MaxNonces, Reply(by, value)
      PROVE  \/ by # "page" /\ job' = job
             \/ /\ by = "page" /\ job.at = "challenge" /\ job' \in Jobs /\ job'.at = job.at
                /\ job'.then = job.then /\ job'.given = job.given
                /\ job'.open = FALSE /\ job'.reply = value
  <2>1. CASE by = "page"
    <3>1. Reply("page", value)
      BY <1>6, <2>1
    <3> QED BY <1>5, <2>1, <3>1, ReplyIs DEF WalletInv
  <2>2. CASE by # "page"
    BY <1>6, <2>2, OtherReply
  <2> QED BY <2>1, <2>2
<1>7. ASSUME NEW value \in {Nothing, Refused, Unauthorized} \cup 1 .. MaxNonces, Reply(by, value)
      PROVE  HandlerOK' /\ NoForgottenToken'
  <2>1. \/ by # "page" /\ job' = job
        \/ /\ by = "page" /\ job.at = "challenge" /\ job'.at = job.at
           /\ job'.then = job.then /\ job'.open = FALSE
    BY <1>6, <1>7
  <2>2. HandlerOK'
    BY <1>1, <2>1 DEF HandlerOK, Connecting, WalletInv, PageOK
  <2>3. NoForgottenToken'
    BY <1>1, <2>1 DEF NoForgottenToken, Open, WalletInv, PageOK
  <2> QED BY <2>2, <2>3
<1>8. CASE Cardinality(Open(challenges)) < MaxChallenges /\ account \in Allowed
  <2> DEFINE new == [nonce |-> issued + 1, by |-> by, account |-> account, expired |-> FALSE]
  <2>1. /\ issued' = issued + 1 /\ challenges' = Open(challenges) \cup {new}
        /\ Reply(by, issued + 1)
    BY <1>8 DEF Challenge
  <2>2. /\ issued + 1 \in 1 .. MaxNonces /\ issued' \in 0 .. MaxNonces
        /\ 1 .. issued \subseteq 1 .. issued'
    BY <1>1, <1>2, <2>1
  <2>3. new \in [nonce : 1 .. issued', by : By, account : Allowed, expired : BOOLEAN]
    BY <1>2, <1>8, <2>1
  <2>4. new.nonce = issued + 1 /\ new.by = by /\ new.account = account
    OBVIOUS
  <2> HIDE DEF new
  <2>5. ServiceOK'
    <3>1. IsFiniteSet(challenges')
      BY <1>2, <1>4, <1>8, <2>1, LimitReached
    <3>2. challenges' \subseteq [nonce : 1 .. issued', by : By, account : Allowed, expired : BOOLEAN]
      BY <1>3, <1>4, <2>1, <2>2, <2>3
    <3> QED BY <1>1, <1>3, <2>2, <3>1, <3>2 DEF ServiceOK
  <2>6. OnePlace'
    <3>1. \A c \in challenges : c.nonce \in 1 .. issued /\ c.nonce # issued + 1
      BY <1>2, <1>3
    <3>2. \A x \in exchanges : x.nonce \in 1 .. issued /\ x.nonce # issued + 1
      BY <1>2, <1>3
    <3>3. \A i \in DOMAIN minted : minted[i] # issued + 1
      BY <1>2
    <3> QED BY <1>1, <1>4, <2>1, <2>4, <3>1, <3>2, <3>3
            DEF OnePlace, OneSessionPerChallenge, WalletInv
  <2>7. minted' \in Seq(1 .. issued')
    <3>1. minted \in Seq(1 .. issued')
      BY <1>2, <2>2, SeqMonotonic
    <3> QED BY <1>1, <3>1
  <2>8. Cardinality(challenges') <= MaxChallenges
    BY <1>2, <1>4, <1>8, <2>1, LimitReached
  <2>9. \/ by # "page" /\ job' = job
        \/ /\ by = "page" /\ job.at = "challenge" /\ job' \in Jobs /\ job'.at = job.at
           /\ job'.then = job.then /\ job'.given = job.given
           /\ job'.open = FALSE /\ job'.reply = issued + 1
    BY <1>6, <2>1, <2>2
  <2>10. OwnOK'
    <3>1. ASSUME conn.current, NEW c \in challenges', c.by = "page", Awaited(job', c)
          PROVE  c.account = conn.account
      <4>1. CASE c = new
        BY <2>4, <3>1, <4>1
      <4>2. CASE c \in challenges
        <5>1. c.nonce # issued + 1
          BY <1>2, <1>3, <4>2
        <5>2. Awaited(job, c)
          BY <2>9, <3>1, <5>1 DEF Awaited
        <5> QED BY <3>1, <4>2, <5>2 DEF OwnOK, WalletInv, PageOK
      <4> QED BY <1>4, <2>1, <4>1, <4>2
    <3>2. \A token : Held(token)' => Held(token)
      BY <1>1, <2>9 DEF Held
    <3> QED BY <1>1, <3>1, <3>2 DEF OwnOK, WalletInv, PageOK
  <2>11. HandlerOK' /\ NoForgottenToken'
    BY <1>7, <2>1, <2>2
  <2> QED BY <1>1, <1>2, <2>2, <2>5, <2>6, <2>7, <2>8, <2>9, <2>10, <2>11, ServiceStepIs
          DEF ServiceSteps
<1>9. CASE ~(Cardinality(Open(challenges)) < MaxChallenges /\ account \in Allowed)
  <2>1. challenges' = Open(challenges) /\ Reply(by, Refused) /\ issued' = issued
    BY <1>9 DEF Challenge
  <2>2. \/ by # "page" /\ job' = job
        \/ /\ by = "page" /\ job.at = "challenge" /\ job' \in Jobs /\ job'.at = job.at
           /\ job'.then = job.then /\ job'.given = job.given
           /\ job'.open = FALSE /\ job'.reply = Refused
    BY <1>6, <2>1
  <2>3. ServiceOK' /\ OnePlace'
    BY <1>1, <1>3, <1>4, <2>1 DEF ServiceOK, OnePlace, OneSessionPerChallenge, WalletInv
  <2>4. OwnOK'
    <3>1. \A c \in challenges : Awaited(job', c) => Awaited(job, c)
      BY <1>2, <1>3, <2>2 DEF Awaited, Refused
    <3>2. \A token : Held(token)' => Held(token)
      BY <1>1, <2>2 DEF Held
    <3> QED BY <1>1, <1>4, <2>1, <3>1, <3>2 DEF OwnOK, WalletInv, PageOK
  <2>5. HandlerOK' /\ NoForgottenToken'
    BY <1>7, <2>1
  <2> QED BY <1>1, <1>2, <1>4, <2>1, <2>2, <2>3, <2>4, <2>5, ServiceStepIs DEF ServiceSteps
<1> QED BY <1>8, <1>9

\* Another value of what the page's handler awaits from the session service.
LEMMA SessionAnswered ==
    ASSUME WalletInv, job.at = "session",
           \/ job' = [job EXCEPT !.open = FALSE]
           \/ Reply("page", Refused)
    PROVE  /\ job' \in Jobs /\ job'.at = job.at /\ job'.then = job.then /\ job'.given = job.given
           /\ job'.open = FALSE /\ job'.reply \in {job.reply, Refused}
<1>1. job \in Jobs
  BY ServiceTyped
<1>2. CASE job' = [job EXCEPT !.open = FALSE]
  BY <1>1, <1>2 DEF Jobs
<1>3. CASE Reply("page", Refused)
  BY <1>3, ReplyIs DEF WalletInv
<1> QED BY <1>2, <1>3

LEMMA BeginStep ==
    ASSUME WalletInv, NEW by \in By, NEW nonce, NEW valid \in BOOLEAN, NEW attempt \in 1 .. 2,
           by = "page" => nonce = job.given, BeginExchange(by, nonce, valid, attempt)
    PROVE  WalletInv'
<1> DEFINE found == {c \in Open(challenges) : c.nonce = nonce /\ c.by = by}
           New(c) == [nonce |-> nonce, by |-> by, account |-> c.account, valid |-> valid,
                      attempt |-> attempt]
<1>1. /\ Serve(by, "session") /\ challenges' = {c \in challenges : c.nonce # nonce}
      /\ exchanges' = exchanges \cup {New(c) : c \in found}
      /\ IF found = {} THEN Reply(by, Refused)
         ELSE job' = IF by = "page" THEN [job EXCEPT !.open = FALSE] ELSE job
      /\ UNCHANGED <<login, wallet, inbox, conn, told, issued, sessions, minted, logouts, lost>>
  BY DEF BeginExchange, Consumed
<1>2. /\ issued \in 0 .. MaxNonces /\ minted \in Seq(1 .. issued)
      /\ Cardinality(challenges) <= MaxChallenges /\ Cardinality(sessions) <= MaxSessions
      /\ logouts \cup lost \subseteq DOMAIN minted /\ MaxNonces \in Nat /\ MaxChallenges \in Nat
  BY ServiceTyped
<1>3. /\ challenges \subseteq [nonce : 1 .. issued, by : By, account : Allowed, expired : BOOLEAN]
      /\ exchanges \subseteq [nonce : 1 .. issued, by : By, account : Allowed, valid : BOOLEAN,
                              attempt : 1 .. 2]
      /\ sessions \subseteq [token : DOMAIN minted, by : By, account : Allowed, expired : BOOLEAN]
      /\ IsFiniteSet(challenges) /\ IsFiniteSet(sessions)
  BY DEF WalletInv, ServiceOK
<1>4. \A c \in found : c \in challenges /\ c.nonce = nonce /\ c.by = by
  BY DEF Open
<1>5. challenges' \subseteq challenges /\ IsFiniteSet(challenges')
      /\ Cardinality(challenges') <= MaxChallenges
  <2>1. challenges' \subseteq challenges
    BY <1>1
  <2> QED BY <1>2, <1>3, <2>1, LimitKept
<1>6. \A c \in found :
          /\ New(c) \in [nonce : 1 .. issued, by : By, account : Allowed, valid : BOOLEAN,
                         attempt : 1 .. 2]
          /\ New(c).nonce = nonce /\ New(c).by = by /\ New(c).account = c.account
  BY <1>3, <1>4
<1>7. \A x \in exchanges' : x \in exchanges \/ \E c \in found : x = New(c)
  BY <1>1
<1>8. by = "page" => /\ job.at = "session" /\ job.open /\ job.reply = Nothing
                     /\ \A x \in exchanges : x.by # "page"
  <2>1. by = "page" => job.at = "session" /\ job.open
    BY <1>1 DEF Serve
  <2> QED BY <2>1 DEF WalletInv, PageOK, HandlerOK
<1>9. \/ by # "page" /\ job' = job
      \/ /\ by = "page" /\ job.at = "session" /\ job' \in Jobs /\ job'.at = job.at
         /\ job'.then = job.then /\ job'.given = job.given /\ job'.open = FALSE
         /\ job'.reply \in {Nothing, Refused} /\ (found # {} => job'.reply = Nothing)
  <2>1. CASE by = "page" /\ found = {}
    <3>1. Reply("page", Refused)
      BY <1>1, <2>1
    <3> QED BY <1>8, <2>1, <3>1, SessionAnswered
  <2>2. CASE by = "page" /\ found # {}
    <3>1. job' = [job EXCEPT !.open = FALSE]
      BY <1>1, <2>2
    <3>2. job \in Jobs
      BY ServiceTyped
    <3>3. job'.reply = job.reply
      BY <3>1, <3>2 DEF Jobs
    <3> QED BY <1>8, <2>2, <3>1, <3>3, SessionAnswered
  <2>3. CASE by # "page"
    BY <1>1, <2>3, OtherReply
  <2> QED BY <2>1, <2>2, <2>3
<1>10. \A c, d \in found : c = d
  BY <1>4 DEF WalletInv, OnePlace
<1> HIDE DEF found, New
<1>11. ServiceOK'
  <2>1. exchanges' \subseteq [nonce : 1 .. issued, by : By, account : Allowed, valid : BOOLEAN,
                              attempt : 1 .. 2]
    BY <1>3, <1>6, <1>7
  <2> QED BY <1>1, <1>3, <1>5, <2>1 DEF ServiceOK
<1>12. OnePlace'
  <2>1. ASSUME NEW x \in exchanges', NEW y \in exchanges', x.nonce = y.nonce PROVE x = y
    <3>1. CASE x \in exchanges /\ y \in exchanges
      BY <2>1, <3>1 DEF WalletInv, OnePlace
    <3>2. CASE \E c \in found, d \in found : x = New(c) /\ y = New(d)
      BY <1>10, <3>2
    <3>3. ASSUME NEW z \in exchanges, NEW c \in found, z.nonce = New(c).nonce PROVE FALSE
      BY <1>4, <1>6, <3>3 DEF WalletInv, OnePlace
    <3> QED BY <1>7, <2>1, <3>1, <3>2, <3>3
  <2>2. ASSUME NEW c \in challenges', NEW x \in exchanges' PROVE c.nonce # x.nonce
    <3>1. c \in challenges /\ c.nonce # nonce
      BY <1>1
    <3> QED BY <1>6, <1>7, <3>1 DEF WalletInv, OnePlace
  <2>3. ASSUME NEW i \in DOMAIN minted, NEW x \in exchanges' PROVE x.nonce # minted[i]
    BY <1>4, <1>6, <1>7 DEF WalletInv, OnePlace
  <2> QED BY <1>1, <1>5, <2>1, <2>2, <2>3 DEF WalletInv, OnePlace, OneSessionPerChallenge
<1>13. HandlerOK'
  <2>1. ASSUME NEW x \in exchanges', x.by = "page"
        PROVE  job'.at = "session" /\ ~job'.open /\ job'.reply = Nothing
    <3>1. CASE by = "page"
      <4>1. x \notin exchanges
        BY <1>8, <2>1, <3>1
      <4>2. found # {}
        BY <1>7, <4>1
      <4> QED BY <1>9, <3>1, <4>2
    <3>2. CASE by # "page"
      <4>1. x \in exchanges
        BY <1>6, <1>7, <2>1, <3>2
      <4> QED BY <1>9, <2>1, <3>2, <4>1 DEF WalletInv, PageOK, HandlerOK
    <3> QED BY <3>1, <3>2
  <2>2. ASSUME NEW x \in exchanges', NEW y \in exchanges', x.by = "page", y.by = "page"
        PROVE  y = x
    <3>1. CASE by = "page"
      <4>1. PICK c \in found : x = New(c)
        BY <1>7, <1>8, <2>2, <3>1
      <4>2. PICK d \in found : y = New(d)
        BY <1>7, <1>8, <2>2, <3>1
      <4> QED BY <1>10, <4>1, <4>2
    <3>2. CASE by # "page"
      <4>1. x \in exchanges /\ y \in exchanges
        BY <1>6, <1>7, <2>2, <3>2
      <4> QED BY <2>2, <4>1 DEF WalletInv, PageOK, HandlerOK
    <3> QED BY <3>1, <3>2
  <2> QED BY <1>1, <1>9, <2>1, <2>2 DEF WalletInv, PageOK, HandlerOK, Connecting
<1>14. OwnOK'
  <2>1. ASSUME conn.current, NEW x \in exchanges', x.by = "page" PROVE x.account = conn.account
    <3>1. CASE x \in exchanges
      BY <2>1, <3>1 DEF WalletInv, PageOK, OwnOK
    <3>2. CASE x \notin exchanges
      <4>1. PICK c \in found : x = New(c)
        BY <1>7, <3>2
      <4>2. /\ c \in challenges /\ c.by = "page" /\ c.nonce = job.given /\ job.at = "session"
            /\ x.account = c.account
        BY <1>4, <1>6, <1>8, <2>1, <4>1
      <4>3. Awaited(job, c)
        BY <4>2 DEF Awaited
      <4> QED BY <2>1, <4>2, <4>3 DEF WalletInv, PageOK, OwnOK
    <3> QED BY <3>1, <3>2
  <2>2. ASSUME conn.current, NEW s \in sessions, Held(s.token)' PROVE s.account = conn.account
    <3>1. s.token > 0
      BY TokenIs
    <3>2. Held(s.token)
      BY <1>1, <1>9, <2>2, <3>1 DEF Held, Nothing, Refused
    <3> QED BY <2>2, <3>2 DEF WalletInv, PageOK, OwnOK
  <2>3. \A c \in challenges : Awaited(job', c) => Awaited(job, c)
    BY <1>9 DEF Awaited
  <2> QED BY <1>1, <1>5, <2>1, <2>2, <2>3 DEF WalletInv, PageOK, OwnOK
<1>15. NoForgottenToken'
  <2>1. ASSUME NEW s \in Open(sessions), s.by = "page"
        PROVE  \/ s.token \in {conn.token} \cup logouts \cup lost
               \/ job'.at = "session" /\ job'.reply = s.token
    <3>1. s.token > 0
      BY TokenIs DEF Open
    <3> QED BY <1>8, <1>9, <2>1, <3>1 DEF NoForgottenToken, WalletInv, PageOK, Nothing
  <2> QED BY <1>1, <2>1 DEF NoForgottenToken, Open
<1> QED BY <1>1, <1>2, <1>5, <1>9, <1>11, <1>12, <1>13, <1>14, <1>15, ServiceStepIs
        DEF ServiceSteps

LEMMA EndStep ==
    ASSUME WalletInv, NEW x \in exchanges, EndExchange(x)
    PROVE  WalletInv'
<1>1. /\ exchanges' = exchanges \ {x}
      /\ UNCHANGED <<login, wallet, inbox, conn, told, issued, challenges, logouts, lost>>
  BY DEF EndExchange
<1>2. /\ issued \in 0 .. MaxNonces /\ issued \in Nat /\ minted \in Seq(1 .. issued)
      /\ Cardinality(challenges) <= MaxChallenges /\ Cardinality(sessions) <= MaxSessions
      /\ logouts \cup lost \subseteq DOMAIN minted /\ MaxNonces \in Nat /\ MaxSessions \in Nat
      /\ job \in Jobs /\ conn \in Conns
  BY ServiceTyped
<1>3. /\ challenges \subseteq [nonce : 1 .. issued, by : By, account : Allowed, expired : BOOLEAN]
      /\ exchanges \subseteq [nonce : 1 .. issued, by : By, account : Allowed, valid : BOOLEAN,
                              attempt : 1 .. 2]
      /\ sessions \subseteq [token : DOMAIN minted, by : By, account : Allowed, expired : BOOLEAN]
      /\ IsFiniteSet(challenges) /\ IsFiniteSet(sessions)
  BY DEF WalletInv, ServiceOK
<1>4. /\ Open(sessions) \subseteq sessions /\ IsFiniteSet(Open(sessions))
      /\ Cardinality(Open(sessions)) <= MaxSessions
  <2>1. Open(sessions) \subseteq sessions
    BY DEF Open
  <2> QED BY <1>2, <1>3, <2>1, LimitKept
<1>5. x.by = "page" => job.at = "session" /\ ~job.open /\ job.reply = Nothing
  BY DEF WalletInv, PageOK, HandlerOK
<1>6. \A y \in exchanges' : y \in exchanges /\ y.nonce # x.nonce
  BY <1>1 DEF WalletInv, OnePlace
<1>7. x.by = "page" => \A y \in exchanges' : y.by # "page"
  BY <1>1 DEF WalletInv, PageOK, HandlerOK
<1>8. ASSUME NEW value \in {Nothing, Refused, Unauthorized} \cup 1 .. MaxNonces, Reply(x.by, value)
      PROVE  \/ x.by # "page" /\ job' = job
             \/ /\ x.by = "page" /\ job.at = "session" /\ job' \in Jobs /\ job'.at = job.at
                /\ job'.then = job.then /\ job'.given = job.given
                /\ job'.open = FALSE /\ job'.reply = value
  <2>1. CASE x.by = "page"
    <3>1. Reply("page", value)
      BY <1>8, <2>1
    <3> QED BY <1>5, <2>1, <3>1, ReplyIs DEF WalletInv
  <2>2. CASE x.by # "page"
    BY <1>8, <2>2, OtherReply
  <2> QED BY <2>1, <2>2
<1>9. ASSUME NEW value \in {Nothing, Refused, Unauthorized} \cup 1 .. MaxNonces,
             Reply(x.by, value), value \in {Refused} \cup DOMAIN minted',
             DOMAIN minted \subseteq DOMAIN minted'
      PROVE  HandlerOK'
  <2>1. \/ x.by # "page" /\ job' = job
        \/ /\ x.by = "page" /\ job.at = "session" /\ job'.at = job.at
           /\ job'.then = job.then /\ job'.open = FALSE /\ job'.reply = value
    BY <1>8, <1>9
  <2> QED BY <1>1, <1>7, <1>9, <2>1 DEF WalletInv, PageOK, HandlerOK, Connecting
<1>10. CASE x.valid /\ Room
  <2> DEFINE token == Len(minted) + 1
             new == [token |-> token, by |-> x.by, account |-> x.account, expired |-> FALSE]
  <2>1. minted' = Append(minted, x.nonce)
    BY <1>10 DEF EndExchange
  <2>2. /\ minted' \in Seq(1 .. issued) /\ Len(minted') = Len(minted) + 1
        /\ DOMAIN minted' = DOMAIN minted \cup {token} /\ minted'[token] = x.nonce
        /\ \A i \in DOMAIN minted : minted'[i] = minted[i]
        /\ token \notin DOMAIN minted /\ token \in Nat /\ token > 0
    <3>1. x.nonce \in 1 .. issued
      BY <1>3
    <3> QED BY <1>2, <2>1, <3>1
  <2>3. sessions' = Open(sessions) \cup {new} /\ Reply(x.by, token)
    BY <1>10, <2>1, <2>2 DEF EndExchange
  <2>4. /\ new \in [token : DOMAIN minted', by : By, account : Allowed, expired : BOOLEAN]
        /\ new.token = token /\ new.by = x.by /\ new.account = x.account
    BY <1>3, <2>2
  <2> HIDE DEF token, new
  <2>5. OneSessionPerChallenge'
    <3>1. \A i \in DOMAIN minted : minted[i] # x.nonce
      BY DEF WalletInv, OnePlace
    <3> QED BY <2>2, <3>1 DEF WalletInv, OnePlace, OneSessionPerChallenge
  <2>6. token \in 1 .. MaxNonces
    <3>1. Len(minted') \in Nat /\ DOMAIN minted' = 1 .. Len(minted')
          /\ minted' \in [1 .. Len(minted') -> 1 .. issued]
      <4>1. minted' \in Seq(1 .. issued)
        BY <2>2
      <4> QED BY <4>1, LenProperties
    <3>2. \A a, b \in 1 .. Len(minted') : minted'[a] = minted'[b] => a = b
      BY <2>5, <3>1 DEF OneSessionPerChallenge
    <3>3. Len(minted') <= issued
      BY <1>2, <3>1, <3>2, DistinctAreFew
    <3>4. token = Len(minted')
      BY <2>2 DEF token
    <3> QED BY <1>2, <2>2, <3>3, <3>4
  <2>7. OnePlace'
    <3>1. \A c \in challenges : c.nonce # x.nonce
      BY DEF WalletInv, OnePlace
    <3> QED BY <1>1, <1>6, <2>2, <2>5, <3>1 DEF WalletInv, OnePlace
  <2>8. ServiceOK' /\ Cardinality(sessions') <= MaxSessions
    <3>1. IsFiniteSet(sessions') /\ Cardinality(sessions') <= MaxSessions
      BY <1>2, <1>4, <1>10, <2>3, LimitReached DEF Room
    <3>2. sessions' \subseteq [token : DOMAIN minted', by : By, account : Allowed, expired : BOOLEAN]
      BY <1>3, <1>4, <2>2, <2>3, <2>4
    <3> QED BY <1>1, <1>3, <3>1, <3>2 DEF ServiceOK
  <2>9. \/ x.by # "page" /\ job' = job
        \/ /\ x.by = "page" /\ job.at = "session" /\ job' \in Jobs /\ job'.at = job.at
           /\ job'.then = job.then /\ job'.given = job.given
           /\ job'.open = FALSE /\ job'.reply = token
    BY <1>8, <2>3, <2>6
  <2>10. HandlerOK'
    BY <1>9, <2>2, <2>3, <2>6
  <2>11. OwnOK'
    <3>1. ASSUME conn.current, NEW s \in sessions', Held(s.token)' PROVE s.account = conn.account
      <4>1. CASE s = new
        <5>1. token # conn.token
          BY <1>2, <2>2 DEF Conns, Nothing
        <5>2. x.by = "page"
          <6>1. CASE job' = job
            <7>1. job.at = "session" /\ job.reply = token
              BY <1>1, <2>4, <3>1, <4>1, <5>1, <6>1 DEF Held
            <7> QED BY <2>2, <7>1 DEF WalletInv, PageOK, HandlerOK, Nothing, Refused
          <6> QED BY <2>9, <6>1
        <5> QED BY <2>4, <3>1, <4>1, <5>2 DEF WalletInv, PageOK, OwnOK
      <4>2. CASE s \in sessions
        <5>1. s.token # token
          BY <1>3, <2>2, <4>2
        <5>2. Held(s.token)
          BY <1>1, <2>9, <3>1, <5>1 DEF Held
        <5> QED BY <3>1, <4>2, <5>2 DEF WalletInv, PageOK, OwnOK
      <4> QED BY <1>4, <2>3, <4>1, <4>2
    <3>2. \A c \in challenges : Awaited(job', c) => Awaited(job, c)
      BY <2>9 DEF Awaited
    <3> QED BY <1>1, <1>6, <3>1, <3>2 DEF WalletInv, PageOK, OwnOK
  <2>12. NoForgottenToken'
    <3>1. ASSUME NEW s \in Open(sessions'), s.by = "page"
          PROVE  \/ s.token \in {conn.token} \cup logouts \cup lost
                 \/ job'.at = "session" /\ job'.reply = s.token
      <4>1. CASE s = new
        BY <2>4, <2>9, <3>1, <4>1
      <4>2. CASE s \in Open(sessions)
        <5>1. s.token > 0
          BY <4>2, TokenIs DEF Open
        <5> QED BY <1>5, <2>9, <3>1, <4>2, <5>1 DEF NoForgottenToken, WalletInv, PageOK, Nothing
      <4> QED BY <2>3, <4>1, <4>2 DEF Open
    <3> QED BY <1>1, <3>1 DEF NoForgottenToken, Open
  <2> QED BY <1>1, <1>2, <2>2, <2>7, <2>8, <2>9, <2>10, <2>11, <2>12, ServiceStepIs DEF ServiceSteps
<1>11. CASE ~(x.valid /\ Room)
  <2>1. /\ sessions' \subseteq sessions /\ Open(sessions') \subseteq Open(sessions)
        /\ Reply(x.by, Refused) /\ minted' = minted
    BY <1>4, <1>11 DEF EndExchange, Open
  <2>2. \/ x.by # "page" /\ job' = job
        \/ /\ x.by = "page" /\ job.at = "session" /\ job' \in Jobs /\ job'.at = job.at
           /\ job'.then = job.then /\ job'.given = job.given
           /\ job'.open = FALSE /\ job'.reply = Refused
    BY <1>8, <2>1
  <2>3. HandlerOK'
    BY <1>9, <2>1
  <2>4. IsFiniteSet(sessions') /\ Cardinality(sessions') <= MaxSessions
    BY <1>2, <1>3, <2>1, LimitKept
  <2>5. ServiceOK' /\ OnePlace'
    BY <1>1, <1>3, <1>6, <2>1, <2>4 DEF ServiceOK, OnePlace, OneSessionPerChallenge, WalletInv
  <2>6. OwnOK'
    <3>1. ASSUME conn.current, NEW s \in sessions, Held(s.token)' PROVE s.account = conn.account
      <4>1. s.token > 0
        BY TokenIs
      <4>2. Held(s.token)
        BY <1>1, <2>2, <3>1, <4>1 DEF Held, Refused
      <4> QED BY <3>1, <4>2 DEF WalletInv, PageOK, OwnOK
    <3>2. \A c \in challenges : Awaited(job', c) => Awaited(job, c)
      BY <2>2 DEF Awaited
    <3> QED BY <1>1, <1>6, <2>1, <3>1, <3>2 DEF WalletInv, PageOK, OwnOK
  <2>7. NoForgottenToken'
    <3>1. ASSUME NEW s \in Open(sessions), s.by = "page"
          PROVE  \/ s.token \in {conn.token} \cup logouts \cup lost
                 \/ job'.at = "session" /\ job'.reply = s.token
      <4>1. s.token > 0
        BY TokenIs DEF Open
      <4> QED BY <1>5, <2>2, <3>1, <4>1 DEF NoForgottenToken, WalletInv, PageOK, Nothing
    <3> QED BY <1>1, <2>1, <3>1 DEF NoForgottenToken, Open
  <2> QED BY <1>1, <1>2, <2>1, <2>2, <2>3, <2>4, <2>5, <2>6, <2>7, ServiceStepIs DEF ServiceSteps
<1> QED BY <1>10, <1>11

LEMMA PrepareServedStep ==
    ASSUME WalletInv, PrepareServed PROVE WalletInv'
<1>1. /\ job.at = "prepare" /\ sessions' \subseteq sessions /\ Open(sessions') \subseteq Open(sessions)
      /\ UNCHANGED <<login, wallet, inbox, conn, told, issued, challenges, exchanges, minted,
                     logouts, lost>>
  BY DEF PrepareServed, Serve, Open
<1>2. /\ issued \in 0 .. MaxNonces /\ minted \in Seq(1 .. issued)
      /\ Cardinality(challenges) <= MaxChallenges /\ Cardinality(sessions) <= MaxSessions
      /\ logouts \cup lost \subseteq DOMAIN minted /\ MaxSessions \in Nat /\ job \in Jobs
  BY ServiceTyped
<1>3. PICK value \in {job.given, Refused, Unauthorized} : Reply("page", value)
  BY DEF PrepareServed
<1>4. value \in {Nothing, Refused, Unauthorized} \cup 1 .. MaxNonces
  BY <1>2, <1>3 DEF Jobs
<1>5. /\ job' \in Jobs /\ job'.at = job.at /\ job'.then = job.then /\ job'.given = job.given
      /\ job'.open = FALSE
  BY <1>3, <1>4, ReplyIs DEF WalletInv
<1>6. IsFiniteSet(sessions') /\ Cardinality(sessions') <= MaxSessions
  BY <1>1, <1>2, LimitKept DEF WalletInv, ServiceOK
<1>7. ServiceOK' /\ OnePlace'
  BY <1>1, <1>6 DEF ServiceOK, OnePlace, OneSessionPerChallenge, WalletInv
<1>8. HandlerOK'
  BY <1>1, <1>5 DEF HandlerOK, Connecting, WalletInv, PageOK
<1>9. OwnOK'
  BY <1>1, <1>5 DEF OwnOK, Awaited, Held, WalletInv, PageOK
<1>10. NoForgottenToken'
  BY <1>1, <1>5 DEF NoForgottenToken, WalletInv, PageOK
<1> QED BY <1>1, <1>2, <1>5, <1>6, <1>7, <1>8, <1>9, <1>10, ServiceStepIs DEF ServiceSteps

\* A logout, done or lost.
LEMMA LogoutStep ==
    ASSUME WalletInv, NEW token \in logouts, Logout(token) PROVE WalletInv'
<1>1. /\ logouts' = logouts \ {token} /\ sessions' \subseteq sessions
      /\ \/ sessions' = {s \in sessions : s.token # token} /\ lost' = lost
         \/ lost' = lost \cup {token} /\ sessions' = sessions
      /\ UNCHANGED <<login, wallet, inbox, conn, job, told, issued, challenges, exchanges, minted>>
  BY DEF Logout, pageVars
<1>2. /\ issued \in 0 .. MaxNonces /\ minted \in Seq(1 .. issued)
      /\ Cardinality(challenges) <= MaxChallenges /\ Cardinality(sessions) <= MaxSessions
      /\ logouts \cup lost \subseteq DOMAIN minted /\ MaxSessions \in Nat
  BY ServiceTyped
<1>3. IsFiniteSet(sessions') /\ Cardinality(sessions') <= MaxSessions
  BY <1>1, <1>2, LimitKept DEF WalletInv, ServiceOK
<1>4. ServiceOK' /\ OnePlace'
  BY <1>1, <1>3 DEF ServiceOK, OnePlace, OneSessionPerChallenge, WalletInv
<1>5. HandlerOK'
  BY <1>1 DEF HandlerOK, Connecting, WalletInv, PageOK
<1>6. OwnOK'
  BY <1>1 DEF OwnOK, Awaited, Held, WalletInv, PageOK
<1>7. NoForgottenToken'
  BY <1>1 DEF NoForgottenToken, Open, WalletInv, PageOK
<1>8. logouts' \cup lost' \subseteq DOMAIN minted'
  BY <1>1, <1>2
<1> QED BY <1>1, <1>2, <1>3, <1>4, <1>5, <1>6, <1>7, <1>8, ServiceStepIs

LEMMA LoseStep ==
    ASSUME WalletInv, Lose PROVE WalletInv'
<1> DEFINE Gone(x) == [x EXCEPT !.by = IF @ = "page" THEN "nobody" ELSE @]
<1>1. /\ job.at \in ServiceSteps /\ Reply("page", Refused)
      /\ job.reply \notin {Refused, Unauthorized}
      /\ lost' = lost \cup (IF job.at = "session" /\ job.reply > 0 THEN {job.reply} ELSE {})
      /\ exchanges' = {Gone(x) : x \in exchanges}
      /\ UNCHANGED <<login, wallet, inbox, conn, told, issued, challenges, sessions, minted, logouts>>
  BY DEF Lose
<1>2. /\ issued \in 0 .. MaxNonces /\ minted \in Seq(1 .. issued)
      /\ Cardinality(challenges) <= MaxChallenges /\ Cardinality(sessions) <= MaxSessions
      /\ logouts \cup lost \subseteq DOMAIN minted
  BY ServiceTyped
<1>3. /\ job' \in Jobs /\ job'.at = job.at /\ job'.then = job.then /\ job'.given = job.given
      /\ job'.open = FALSE /\ job'.reply = Refused
  BY <1>1, ReplyIs DEF WalletInv
<1>4. ASSUME NEW x \in exchanges
      PROVE  /\ Gone(x) \in [nonce : 1 .. issued, by : By, account : Allowed, valid : BOOLEAN,
                              attempt : 1 .. 2]
             /\ Gone(x).nonce = x.nonce /\ Gone(x).by # "page"
             /\ \A y \in exchanges : y.nonce = x.nonce => y = x
  <2>1. x \in [nonce : 1 .. issued, by : By, account : Allowed, valid : BOOLEAN, attempt : 1 .. 2]
    BY DEF WalletInv, ServiceOK
  <2> QED BY <2>1 DEF By, WalletInv, OnePlace
<1> HIDE DEF Gone
<1>5. ServiceOK' /\ OnePlace'
  <2>1. ServiceOK'
    BY <1>1, <1>4 DEF WalletInv, ServiceOK
  <2>2. OnePlace'
    BY <1>1, <1>4 DEF WalletInv, OnePlace, OneSessionPerChallenge
  <2> QED BY <2>1, <2>2
<1>6. HandlerOK'
  BY <1>1, <1>3, <1>4 DEF HandlerOK, Connecting, WalletInv, PageOK
<1>7. OwnOK'
  <2>1. ASSUME conn.current, NEW s \in sessions, Held(s.token)' PROVE s.account = conn.account
    <3>1. s.token > 0
      BY TokenIs
    <3>2. Held(s.token)
      BY <1>1, <1>3, <2>1, <3>1 DEF Held, Refused
    <3> QED BY <2>1, <3>2 DEF WalletInv, PageOK, OwnOK
  <2>2. ASSUME NEW c \in challenges, Awaited(job', c) PROVE Awaited(job, c)
    <3>1. c.nonce # Refused
      BY <1>2 DEF WalletInv, ServiceOK, Refused
    <3> QED BY <1>3, <2>2, <3>1 DEF Awaited
  <2> QED BY <1>1, <1>4, <2>1, <2>2 DEF OwnOK, WalletInv, PageOK
<1>8. NoForgottenToken'
  <2>1. ASSUME NEW s \in Open(sessions), s.by = "page"
        PROVE  s.token \in {conn.token} \cup logouts \cup lost'
    <3>1. s.token > 0
      BY TokenIs DEF Open
    <3> QED BY <1>1, <2>1, <3>1 DEF NoForgottenToken, WalletInv, PageOK
  <2> QED BY <1>1, <2>1 DEF NoForgottenToken, Open
<1>9. logouts' \cup lost' \subseteq DOMAIN minted'
  BY <1>1, <1>2 DEF HandlerOK, WalletInv, PageOK, Nothing, Refused
<1> QED BY <1>1, <1>2, <1>3, <1>5, <1>6, <1>7, <1>8, <1>9, ServiceStepIs

LEMMA ExpireStep ==
    ASSUME WalletInv, Expire PROVE WalletInv'
<1>1. UNCHANGED <<login, wallet, inbox, conn, job, told, issued, exchanges, minted, logouts, lost>>
  BY DEF Expire, pageVars
<1>2. /\ issued \in 0 .. MaxNonces /\ minted \in Seq(1 .. issued)
      /\ Cardinality(challenges) <= MaxChallenges /\ Cardinality(sessions) <= MaxSessions
      /\ logouts \cup lost \subseteq DOMAIN minted /\ MaxSessions \in Nat /\ MaxChallenges \in Nat
  BY ServiceTyped
<1>3. HandlerOK'
  BY <1>1 DEF HandlerOK, Connecting, WalletInv, PageOK
<1>4. CASE \E c \in Open(challenges) :
             /\ challenges' = (challenges \ {c}) \cup {[c EXCEPT !.expired = TRUE]}
             /\ UNCHANGED sessions
  <2>1. PICK c \in Open(challenges) :
             /\ challenges' = (challenges \ {c}) \cup {[c EXCEPT !.expired = TRUE]}
             /\ UNCHANGED sessions
    BY <1>4
  <2> DEFINE old == [c EXCEPT !.expired = TRUE]
  <2>2. c \in challenges /\ c \in [nonce : 1 .. issued, by : By, account : Allowed, expired : BOOLEAN]
    BY DEF Open, WalletInv, ServiceOK
  <2>3. /\ old \in [nonce : 1 .. issued, by : By, account : Allowed, expired : BOOLEAN]
        /\ old.nonce = c.nonce /\ old.by = c.by /\ old.account = c.account
    BY <2>2
  <2>4. challenges' = (challenges \ {c}) \cup {old}
    BY <2>1
  <2> HIDE DEF old
  <2>5. IsFiniteSet(challenges') /\ Cardinality(challenges') <= MaxChallenges
    BY <1>2, <2>2, <2>4, LimitReplaced DEF WalletInv, ServiceOK
  <2>6. ServiceOK'
    BY <1>1, <2>1, <2>3, <2>4, <2>5 DEF ServiceOK, WalletInv
  <2>7. OnePlace'
    BY <1>1, <2>2, <2>3, <2>4 DEF OnePlace, OneSessionPerChallenge, WalletInv
  <2>8. OwnOK'
    <3>1. Awaited(job, old) => Awaited(job, c)
      BY <2>3 DEF Awaited
    <3> QED BY <1>1, <2>1, <2>2, <2>3, <2>4, <3>1 DEF OwnOK, Held, WalletInv, PageOK
  <2>9. NoForgottenToken'
    BY <1>1, <2>1 DEF NoForgottenToken, Open, WalletInv, PageOK
  <2> QED BY <1>1, <1>2, <1>3, <2>1, <2>5, <2>6, <2>7, <2>8, <2>9, ServiceStepIs
<1>5. CASE \E s \in Open(sessions) :
             /\ sessions' = (sessions \ {s}) \cup {[s EXCEPT !.expired = TRUE]}
             /\ UNCHANGED challenges
  <2>1. PICK s \in Open(sessions) :
             /\ sessions' = (sessions \ {s}) \cup {[s EXCEPT !.expired = TRUE]}
             /\ UNCHANGED challenges
    BY <1>5
  <2> DEFINE old == [s EXCEPT !.expired = TRUE]
  <2>2. /\ s \in sessions
        /\ s \in [token : DOMAIN minted, by : By, account : Allowed, expired : BOOLEAN]
    BY DEF Open, WalletInv, ServiceOK
  <2>3. /\ old \in [token : DOMAIN minted, by : By, account : Allowed, expired : BOOLEAN]
        /\ old.token = s.token /\ old.account = s.account /\ old.expired
    BY <2>2
  <2>4. sessions' = (sessions \ {s}) \cup {old}
    BY <2>1
  <2> HIDE DEF old
  <2>5. IsFiniteSet(sessions') /\ Cardinality(sessions') <= MaxSessions
    BY <1>2, <2>2, <2>4, LimitReplaced DEF WalletInv, ServiceOK
  <2>6. ServiceOK'
    BY <1>1, <2>1, <2>3, <2>4, <2>5 DEF ServiceOK, WalletInv
  <2>7. OnePlace'
    BY <1>1, <2>1 DEF OnePlace, OneSessionPerChallenge, WalletInv
  <2>8. OwnOK'
    <3>1. \A token : Held(token)' => Held(token)
      BY <1>1 DEF Held
    <3> QED BY <1>1, <2>1, <2>2, <2>3, <2>4, <3>1 DEF OwnOK, WalletInv, PageOK
  <2>9. NoForgottenToken'
    <3>1. Open(sessions') \subseteq Open(sessions)
      BY <2>3, <2>4 DEF Open
    <3> QED BY <1>1, <3>1 DEF NoForgottenToken, WalletInv, PageOK
  <2> QED BY <1>1, <1>2, <1>3, <2>1, <2>5, <2>6, <2>7, <2>8, <2>9, ServiceStepIs
<1> QED BY <1>4, <1>5 DEF Expire

-----------------------------------------------------------------------------
LEMMA WalletInit == Init => WalletInv
<1> SUFFICES ASSUME Init PROVE WalletInv
  OBVIOUS
<1>1. /\ inbox = <<>> /\ conn = NoConn /\ job = Idle
      /\ told = [account |-> None, network |-> None]
      /\ issued = 0 /\ challenges = {} /\ exchanges = {} /\ sessions = {} /\ minted = <<>>
      /\ logouts = {} /\ lost = {} /\ login \in BOOLEAN
  BY DEF Init
<1>2. /\ MaxChanges \in Nat /\ MaxNonces \in Nat /\ MaxChallenges \in Nat /\ MaxSessions \in Nat
  BY BoundsAssumption
<1>3. IsFiniteSet({}) /\ Cardinality({}) = 0
  BY FS_EmptySet
<1>4. <<>> \in Seq(Message) /\ <<>> \in Seq(1 .. 0) /\ DOMAIN <<>> = {}
  BY EmptySeq
<1>5. wallet \in [account : Accounts, network : Networks, changes : 0 .. MaxChanges]
  <2>1. wallet \in [account : {"owner"}, network : Networks, changes : {0}]
    BY DEF Init
  <2> QED BY <1>2, <2>1 DEF Accounts
<1>6. conn \in Conns /\ job \in Jobs /\ told \in Tolds
  BY <1>1, NoConnTyped, IdleTyped DEF Tolds
<1>7. TypeOK
  BY <1>1, <1>2, <1>3, <1>4, <1>5, <1>6 DEF TypeOK, Conns, Jobs, Thens, Tolds
<1>8. ServiceOK /\ OnePlace
  BY <1>1, <1>3, <1>4 DEF ServiceOK, OnePlace, OneSessionPerChallenge
<1>9. EventsOK /\ AnswersOK
  BY <1>1, <1>4 DEF EventsOK, AnswersOK
<1>10. HandlerOK /\ ToldOK /\ OwnOK /\ NoForgottenToken
  BY <1>1 DEF HandlerOK, Connecting, ToldOK, OwnOK, NoForgottenToken, Open, Idle, NoConn, None, Nothing
<1> QED BY <1>7, <1>8, <1>9, <1>10 DEF WalletInv, PageOK

LEMMA WalletStep == WalletInv /\ [Next]_vars => WalletInv'
<1> SUFFICES ASSUME WalletInv, [Next]_vars PROVE WalletInv'
  OBVIOUS
<1>1. CASE Page
  BY <1>1, WalletEventStep, ConnectStep, DisconnectStep, ExpiresStep, AccountsStep, NetworkStep,
     SwitchStep, ChainStep, OwnerStep, SignStep, SendStep, ChallengeRepliedStep,
     SessionRepliedStep, ExecuteStep, OwnerActionStep, PrepareRepliedStep DEF Page
<1>2. CASE UserChanges \/ WalletAnswers
  BY <1>2, UserStep, WalletAnswersStep
<1>3. CASE Service
  <2>1. CASE Challenge("page", conn.account)
    BY <2>1, ChallengeStep DEF By
  <2>2. CASE \E a \in Allowed : Challenge("other", a)
    BY <2>2, ChallengeStep DEF By
  <2>3. CASE \E valid \in BOOLEAN : BeginExchange("page", job.given, valid, 1)
    <3>1. PICK valid \in BOOLEAN : BeginExchange("page", job.given, valid, 1)
      BY <2>3
    <3>2. "page" \in By /\ 1 \in 1 .. 2
      BY DEF By
    <3> QED BY <3>1, <3>2, BeginStep
  <2>4. CASE \E c \in challenges, attempt \in 1 .. 2 :
               c.by = "other" /\ BeginExchange("other", c.nonce, TRUE, attempt)
    <3>1. PICK c \in challenges, attempt \in 1 .. 2 : BeginExchange("other", c.nonce, TRUE, attempt)
      BY <2>4
    <3>2. "other" \in By /\ TRUE \in BOOLEAN
      BY DEF By
    <3> QED BY <3>1, <3>2, BeginStep
  <2>5. CASE \E x \in exchanges : EndExchange(x)
    BY <2>5, EndStep
  <2>6. CASE PrepareServed \/ (\E token \in logouts : Logout(token)) \/ Lose \/ Expire
    BY <2>6, PrepareServedStep, LogoutStep, LoseStep, ExpireStep
  <2> QED BY <1>3, <2>1, <2>2, <2>3, <2>4, <2>5, <2>6 DEF Service
<1>4. CASE UNCHANGED vars
  <2>1. UNCHANGED <<login, wallet, inbox, conn, job, told, serviceVars, logouts, lost>>
    BY <1>4 DEF vars, pageVars
  <2>2. job' \in Jobs /\ wallet' \in [account : Accounts, network : Networks, changes : 0 .. MaxChanges]
        /\ inbox' \in Seq(Message)
    BY <2>1, ConnIs DEF WalletInv, TypeOK
  <2>3. EventsOK' /\ AnswersOK' /\ \A x \in exchanges : x.by = "page" => ~job'.open
    BY <2>1 DEF EventsOK, AnswersOK, HandlerOK, WalletInv, PageOK
  <2> QED BY <2>1, <2>2, <2>3, WalletStepIs
<1> QED BY <1>1, <1>2, <1>3, <1>4 DEF Next

-----------------------------------------------------------------------------
\* The wallet is asked to sign, or to send.

LEMMA AwaitAt ==
    ASSUME TypeOK, NEW step, NEW then
    PROVE  Await(step, then).at = step
<1>1. job \in Jobs
  BY Typed
<1> QED BY <1>1 DEF Await, Jobs

\* Only two steps of the handler ask for it.
LEMMA WhoAsks ==
    ASSUME WalletInv, Next, job'.at \in {"sign", "send"}, job'.at # job.at
    PROVE  ChallengeReplied \/ OwnerAnswered
<1>1. TypeOK /\ job \in Jobs
  BY Typed DEF WalletInv
<1>2. job' # Idle /\ job' # job
  BY DEF Idle
<1>3. \A step, then : (job' = Await(step, then)) => step \in {"sign", "send"}
  BY <1>1, AwaitAt
<1>4. ~(WalletEvent \/ Disconnect \/ Expires)
  BY <1>2 DEF WalletEvent, Disconnect, Expires
<1>5. ~Connect
  BY <1>3 DEF Connect
<1>6. ~AccountsAnswered
  BY <1>2, <1>3 DEF AccountsAnswered, Throw
<1>7. ~NetworkAnswered
  BY <1>2, <1>3 DEF NetworkAnswered, AfterSwitch, Throw
<1>8. ~SwitchAnswered
  BY <1>2, <1>3 DEF SwitchAnswered, AfterSwitch, Throw
<1>9. ~ChainAnswered
  BY <1>2, <1>3 DEF ChainAnswered, Checked, Throw
<1>10. ~(SignAnswered \/ SendAnswered)
  BY <1>2, <1>3 DEF SignAnswered, SendAnswered, Throw
<1>11. ~\E late \in BOOLEAN : SessionReplied(late)
  BY <1>2, <1>3 DEF SessionReplied
<1>12. ~Execute
  BY <1>3 DEF Execute
<1>13. ~OwnerAction
  <2>1. ASSUME job' = [Await("prepare", None) EXCEPT !.given = conn.token] PROVE FALSE
    <3>1. "prepare" \in WalletSteps \cup ServiceSteps /\ None \in Thens
      BY DEF ServiceSteps, Thens
    <3>2. Await("prepare", None) \in Jobs /\ Await("prepare", None).at = "prepare"
      BY <1>1, <3>1, AwaitIs
    <3>3. job'.at = "prepare"
      BY <2>1, <3>2 DEF Jobs
    <3> QED BY <3>3
  <2> QED BY <2>1 DEF OwnerAction
<1>14. ~PrepareReplied
  BY <1>2, <1>3 DEF PrepareReplied, Throw
<1>15. ~UserChanges
  BY <1>2 DEF UserChanges
<1>16. [job EXCEPT !.open = FALSE].at = job.at
       /\ \A value : [job EXCEPT !.open = FALSE, !.reply = value].at = job.at
  BY <1>1 DEF Jobs
<1>17. ~WalletAnswers
  BY <1>16 DEF WalletAnswers
<1>18. \A by, value : ~Reply(by, value)
  BY <1>2, <1>16 DEF Reply
<1>19. ~Service
  <2>1. \A by, account : ~Challenge(by, account)
    BY <1>18 DEF Challenge
  <2>2. \A by, nonce, valid, attempt : ~BeginExchange(by, nonce, valid, attempt)
    BY <1>2, <1>16, <1>18 DEF BeginExchange
  <2>3. \A x \in exchanges : ~EndExchange(x)
    BY <1>18 DEF EndExchange
  <2>4. ~PrepareServed /\ ~Lose
    BY <1>18 DEF PrepareServed, Lose
  <2>5. ~Expire /\ \A token : ~Logout(token)
    BY <1>2 DEF Expire, Logout, pageVars
  <2> QED BY <2>1, <2>2, <2>3, <2>4, <2>5 DEF Service
<1> QED BY <1>4, <1>5, <1>6, <1>7, <1>8, <1>9, <1>10, <1>11, <1>12, <1>13, <1>14, <1>15, <1>17, <1>19
        DEF Next, Page

\* What the wallet has to have told, and the session has to be, when it is asked.
AskedRightly ==
    /\ conn'.current
    /\ told' = [account |-> conn'.account, network |-> "testnet"]
    /\ (login /\ job'.at = "send") =>
          /\ conn'.token # Nothing /\ ~conn'.expired
          /\ \A s \in sessions : s.token = conn'.token => s.account = conn'.account

LEMMA AskedToSign ==
    ASSUME WalletInv, ChallengeReplied, job'.at \in {"sign", "send"}, job'.at # job.at
    PROVE  AskedRightly
<1>1. /\ job.at = "challenge" /\ told' = told /\ TypeOK
  BY DEF ChallengeReplied, Replied, WalletInv
<1>2. job' # Idle
  BY DEF Idle
<1>3. /\ conn.current /\ conn' = conn
      /\ job' = [Await("sign", None) EXCEPT !.given = job.reply]
  BY <1>2 DEF ChallengeReplied, Bound, Throw, Become
<1>4. job'.at = "sign"
  <2>1. "sign" \in WalletSteps \cup ServiceSteps /\ None \in Thens
    BY DEF WalletSteps, Thens
  <2>2. Await("sign", None) \in Jobs /\ Await("sign", None).at = "sign"
    BY <1>1, <2>1, AwaitIs
  <2> QED BY <1>3, <2>2 DEF Jobs
<1>5. told.account = conn.account /\ told.network = "testnet" /\ told \in Tolds
  BY <1>1, <1>3, Typed DEF WalletInv, PageOK, ToldOK
<1>6. told = [account |-> conn.account, network |-> "testnet"]
  BY <1>5 DEF Tolds
<1> QED BY <1>1, <1>3, <1>4, <1>6 DEF AskedRightly

LEMMA AskedToSend ==
    ASSUME WalletInv, OwnerAnswered, job'.at \in {"sign", "send"}, job'.at # job.at
    PROVE  AskedRightly
<1>1. /\ Answered("owner") /\ Tell(Head(inbox)) /\ Receive /\ "owner" \in WalletSteps /\ TypeOK
  BY DEF OwnerAnswered, Checked, WalletSteps, WalletInv
<1>2. job.at = "owner" /\ Head(inbox) \in Message
  BY <1>1, TakenIs DEF Receive
<1>3. job' # Idle
  BY DEF Idle
<1>4. AssertContext /\ Answer = conn.account /\ job' = AfterCheck /\ conn' = conn
  BY <1>3 DEF OwnerAnswered, Checked, Throw, Become
<1>5. \A step, then : (job' = Await(step, then)) => step \in {"sign", "send"}
  BY <1>1, AwaitAt
<1>6. job.then \in Thens /\ conn \in Conns
  BY ConnIs DEF Jobs
<1>7. job.then = "send"
  <2>1. job.then \notin {"connected", "submit"}
    BY <1>3, <1>4, <1>5 DEF AfterCheck
  <2>2. job' = Await(job.then, None)
    BY <1>4, <2>1 DEF AfterCheck
  <2> QED BY <1>5, <1>6, <2>2 DEF Thens, None
<1>8. conn.current /\ (login => LoggedIn)
  BY <1>4, <1>7 DEF AssertContext
<1>9. conn.account \in Accounts
  BY <1>2, <1>6, <1>8, ConnIs DEF Conns
<1>10. told.network = "testnet"
  BY <1>2, <1>8 DEF WalletInv, PageOK, ToldOK
<1>11. told'.account = conn.account /\ told'.network = "testnet" /\ told' \in Tolds
  <2>1. conn.account \notin Networks
    BY <1>9 DEF Accounts, Networks
  <2> QED BY <1>1, <1>2, <1>4, <1>8, <1>9, <1>10, <2>1, TellIs DEF Answer
<1>12. told' = [account |-> conn.account, network |-> "testnet"]
  BY <1>11 DEF Tolds
<1>13. \A s \in sessions : s.token = conn.token => s.account = conn.account
  BY <1>8 DEF WalletInv, PageOK, OwnOK, Held
<1> QED BY <1>4, <1>8, <1>12, <1>13 DEF AskedRightly, LoggedIn

-----------------------------------------------------------------------------
\* The inductive invariant holds in every reachable state.
THEOREM WalletInvariant == Spec => []WalletInv
BY WalletInit, WalletStep, PTL DEF Spec

\* Every variable keeps its type, and the service's limits hold although the
\* number of sessions is looked at after an await.
THEOREM WalletTypeCorrect == Spec => []TypeOK
<1>1. WalletInv => TypeOK
  BY DEF WalletInv
<1> QED BY <1>1, WalletInvariant, PTL

\* However often clients repeat their requests, a challenge is redeemed by one
\* token.
THEOREM WalletOneSessionPerChallenge == Spec => []OneSessionPerChallenge
<1>1. WalletInv => OneSessionPerChallenge
  BY DEF WalletInv, OnePlace
<1> QED BY <1>1, WalletInvariant, PTL

\* Whenever the connection ends, a usable session of the page is one whose
\* token the page holds or is about to receive, revokes or has lost.
THEOREM WalletNoForgottenToken == Spec => []NoForgottenToken
<1>1. WalletInv => NoForgottenToken
  BY DEF WalletInv, PageOK
<1> QED BY <1>1, WalletInvariant, PTL

\* Whatever the user does in the wallet meanwhile, it is asked to sign or to
\* send only what is of the account and the network that it told of last, and
\* the session it is sent in is of that account.
THEOREM WalletAskedOfConnectedWallet == Spec => AskedOfConnectedWallet
<1>1. ASSUME WalletInv, [Next]_vars, job'.at \in {"sign", "send"}, job'.at # job.at
      PROVE  AskedRightly
  <2>1. CASE Next
    BY <1>1, <2>1, WhoAsks, AskedToSign, AskedToSend
  <2>2. CASE UNCHANGED vars
    BY <1>1, <2>2 DEF vars, pageVars
  <2> QED BY <1>1, <2>1, <2>2
<1>2. WalletInv /\ [Next]_vars =>
          [(job'.at \in {"sign", "send"} /\ job'.at # job.at) =>
              /\ conn'.current
              /\ told' = [account |-> conn'.account, network |-> "testnet"]
              /\ (login /\ job'.at = "send") =>
                    /\ conn'.token # Nothing /\ ~conn'.expired
                    /\ \A s \in sessions : s.token = conn'.token => s.account = conn'.account]_vars
  BY <1>1 DEF AskedRightly
<1> QED BY <1>2, WalletInvariant, PTL DEF Spec, AskedOfConnectedWallet
=============================================================================
