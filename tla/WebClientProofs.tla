--------------------------- MODULE WebClientProofs ---------------------------
(***************************************************************************)
(* Sessions: a refresh token is replaced once and a revoked session is     *)
(* over, for any number of sessions, tokens and concurrent requests.       *)
(*                                                                         *)
(* The browser: the sessions it uses are sessions, so whatever its tabs do *)
(* these guarantees hold.  The calls of a tab share one renewal, and none   *)
(* awaits a renewal that is over.                                          *)
(***************************************************************************)
EXTENDS WebClient, TLAPS

USE SessionsAssumption, WebClientAssumption

-----------------------------------------------------------------------------
(* Sessions (module Sessions).                                             *)

\* The row of a session, once inserted, holds a token that was issued.
HashIsIssued == \A s \in Session : hash[s] <= issued

\* What was not issued yet was not spent, and the hash of a row is the token
\* that was not spent yet.
HashIsUnspent ==
  /\ \A t \in Token : t > issued => spent[t] = 0
  /\ \A s \in Session : hash[s] # NoToken => spent[hash[s]] = 0

\* Two rows never hold the same token.
HashesDiffer ==
  \A s, u \in Session : hash[s] = hash[u] /\ hash[s] # NoToken => s = u

\* Requests go on, and revocations are made, only with a row they found.
RowsExist ==
  /\ \A x \in Exchange : exchange[x] # IdleExchange => hash[exchange[x].session] # NoToken
  /\ \A s \in Session : revoked[s] => hash[s] # NoToken

SInv ==
  /\ SessionTypeOK
  /\ HashIsIssued
  /\ HashIsUnspent
  /\ HashesDiffer
  /\ RowsExist
  /\ TokenIsSpentOnce

-----------------------------------------------------------------------------
(* An open exchange has a session and a token.                             *)
LEMMA OpenExchange ==
  ASSUME SessionTypeOK, NEW x \in Exchange, exchange[x] # IdleExchange
  PROVE  /\ exchange[x].session \in Session
         /\ exchange[x].token \in Token
         /\ exchange[x].step \in {"rotate", "revoke"}
BY DEF SessionTypeOK, ExchangeState

LEMMA StepIsOpen ==
  ASSUME SessionTypeOK, NEW x \in Exchange, exchange[x].step \in {"rotate", "revoke"}
  PROVE  exchange[x] # IdleExchange
BY DEF IdleExchange

(* The fresh token of a login or of a rotation can go to any row that has  *)
(* none or whose token is being spent.                                     *)
LEMMA InitSInv == SessionInit => SInv
BY DEF SessionInit, SInv, SessionTypeOK, HashIsIssued, HashIsUnspent, HashesDiffer,
       RowsExist, TokenIsSpentOnce, ExchangeState, IdleExchange, NoToken, Token

LEMMA LoginKeeps ==
  ASSUME SInv, NEW s \in Session, Login(s) PROVE SInv'
BY DEF SInv, Login, SessionTypeOK, HashIsIssued, HashIsUnspent, HashesDiffer,
       RowsExist, TokenIsSpentOnce, ExchangeState, IdleExchange, NoToken, Token

LEMMA PresentKeeps ==
  ASSUME SInv, NEW x \in Exchange, NEW c \in Cookie, Present(x, c) PROVE SInv'
<1>1. c.session \in Session /\ c.token \in Token
  BY DEF Cookie
<1>2. SessionTypeOK'
  BY <1>1 DEF SInv, Present, SessionTypeOK, ExchangeState
<1>3. RowsExist'
  BY <1>1 DEF SInv, Present, Resolved, SessionTypeOK, RowsExist
<1> QED
  BY <1>2, <1>3 DEF SInv, Present, HashIsIssued, HashIsUnspent, HashesDiffer, TokenIsSpentOnce

LEMMA RotateKeeps ==
  ASSUME SInv, NEW x \in Exchange, Rotate(x) PROVE SInv'
<1> DEFINE s == exchange[x].session
           t == exchange[x].token
<1>1. s \in Session /\ t \in Token
  BY OpenExchange, StepIsOpen DEF SInv, Rotate
<1>2. hash[s] = t /\ spent[t] = 0 /\ t # NoToken
  BY <1>1 DEF SInv, Rotate, Rotatable, HashIsUnspent, Token, NoToken
<1>3. /\ issued \in Nat /\ issued + 1 \in Token
      /\ issued' = issued + 1
      /\ hash' = [hash EXCEPT ![s] = issued + 1]
      /\ spent' = [spent EXCEPT ![t] = @ + 1]
      /\ exchange' = [exchange EXCEPT ![x] = IdleExchange]
      /\ expired' = [expired EXCEPT ![s] = FALSE]
      /\ revoked' = revoked
  BY DEF SInv, Rotate, SessionTypeOK, Token
<1> HIDE DEF s, t
<1>4. SessionTypeOK'
  <2>1. issued' \in 0 .. MaxToken
    BY <1>3 DEF Token
  <2> QED
    BY <1>1, <1>3, <2>1 DEF SInv, SessionTypeOK, ExchangeState
<1>5. HashIsIssued'
  <2>1. ASSUME NEW u \in Session PROVE hash'[u] <= issued'
    <3>1. hash[u] \in Nat /\ hash[u] <= issued /\ hash \in [Session -> Token \cup {NoToken}]
      BY DEF SInv, SessionTypeOK, HashIsIssued, Token, NoToken
    <3>2. hash'[u] = issued + 1 \/ hash'[u] = hash[u]
      BY ONLY <1>3, <3>1, u \in Session
    <3> QED
      BY ONLY <1>3, <3>1, <3>2
  <2> QED
    BY <2>1 DEF HashIsIssued
<1>6. t <= issued
  BY <1>1, <1>2 DEF SInv, HashIsIssued
<1>7. HashIsUnspent'
  <2>1. \A u \in Token : u > issued' => spent'[u] = 0
    BY <1>1, <1>3, <1>6 DEF SInv, SessionTypeOK, HashIsUnspent, Token
  <2>2. ASSUME NEW u \in Session, hash'[u] # NoToken PROVE spent'[hash'[u]] = 0
    <3>1. CASE u = s
      BY <1>1, <1>3, <1>6, <3>1 DEF SInv, SessionTypeOK, HashIsUnspent, Token
    <3>2. CASE u # s
      <4>1. hash'[u] = hash[u] /\ hash[u] # t /\ hash[u] \in Token
        BY <1>1, <1>2, <1>3, <2>2, <3>2 DEF SInv, SessionTypeOK, HashesDiffer
      <4> QED
        BY <1>3, <2>2, <4>1 DEF SInv, SessionTypeOK, HashIsUnspent
    <3> QED
      BY <3>1, <3>2
  <2> QED
    BY <2>1, <2>2 DEF HashIsUnspent
<1>8. HashesDiffer'
  <2>1. ASSUME NEW u \in Session, NEW w \in Session, hash'[u] = hash'[w], hash'[u] # NoToken
        PROVE  u = w
    <3>1. /\ hash \in [Session -> Token \cup {NoToken}]
          /\ \A z \in Session : hash[z] \in Nat /\ hash[z] <= issued
          /\ hash[u] = hash[w] /\ hash[u] # NoToken => u = w
      BY DEF SInv, SessionTypeOK, HashIsIssued, HashesDiffer, Token, NoToken
    <3>2. /\ hash'[u] = IF u = s THEN issued + 1 ELSE hash[u]
          /\ hash'[w] = IF w = s THEN issued + 1 ELSE hash[w]
      BY ONLY <1>3, <3>1, u \in Session, w \in Session
    <3> QED
      BY ONLY <1>3, <2>1, <3>1, <3>2
  <2> QED
    BY <2>1 DEF HashesDiffer
<1>9. RowsExist'
  <2>1. \A u \in Session : hash[u] # NoToken => hash'[u] # NoToken
    BY <1>1, <1>3 DEF SInv, SessionTypeOK, Token, NoToken
  <2>2. \A y \in Exchange : exchange'[y] # IdleExchange =>
          exchange'[y] = exchange[y] /\ exchange[y].session \in Session
    BY <1>3, OpenExchange DEF SInv, SessionTypeOK
  <2> QED
    BY <1>3, <2>1, <2>2 DEF SInv, RowsExist
<1>10. TokenIsSpentOnce'
  BY <1>1, <1>2, <1>3 DEF SInv, SessionTypeOK, TokenIsSpentOnce
<1> QED
  BY <1>4, <1>5, <1>7, <1>8, <1>9, <1>10 DEF SInv

(* The other steps touch neither hashes nor tokens.                        *)
LEMMA OthersKeep ==
  ASSUME SInv,
         \/ \E s \in Session : Revoke(s) \/ Expire(s)
         \/ \E x \in Exchange : RotationLost(x) \/ RevokeFamily(x)
         \/ UNCHANGED sessionVars
  PROVE  SInv'
<1>1. UNCHANGED <<hash, issued, spent>>
  BY DEF Revoke, Expire, RotationLost, RevokeFamily, sessionVars
<1>2. SessionTypeOK'
  BY OpenExchange, StepIsOpen DEF SInv, SessionTypeOK, ExchangeState,
     Revoke, Expire, RotationLost, RevokeFamily, sessionVars
<1>3. RowsExist'
  BY OpenExchange, StepIsOpen DEF SInv, SessionTypeOK, RowsExist, Resolved,
     Revoke, Expire, RotationLost, RevokeFamily, sessionVars
<1> QED
  BY <1>1, <1>2, <1>3 DEF SInv, HashIsIssued, HashIsUnspent, HashesDiffer, TokenIsSpentOnce

-----------------------------------------------------------------------------
LEMMA SessionNextKeeps == SInv /\ [SessionNext]_sessionVars => SInv'
BY LoginKeeps, PresentKeeps, RotateKeeps, OthersKeep DEF SessionNext

LEMMA SessionInvariant == SessionSpec => []SInv
BY InitSInv, SessionNextKeeps, PTL DEF SessionSpec

\* However many requests present a refresh token at once, and whatever else
\* happens to the session, it is replaced by a new token at most once
\* (rotateRefreshToken, auth.service.ts).
THEOREM TokensAreSpentOnce == SessionSpec => []TokenIsSpentOnce
<1>1. SInv => TokenIsSpentOnce
  BY DEF SInv
<1> QED
  BY <1>1, SessionInvariant, PTL

(* A revoked row has a token, so no login writes it; no rotation does.     *)
LEMMA RevokedStep ==
  SInv /\ [SessionNext]_sessionVars =>
    \A s \in Session : revoked[s] => revoked'[s] /\ hash'[s] = hash[s]
<1> SUFFICES ASSUME SInv, [SessionNext]_sessionVars, NEW s \in Session, revoked[s]
             PROVE  revoked'[s] /\ hash'[s] = hash[s]
  OBVIOUS
<1> USE DEF SInv, SessionTypeOK
<1>1. CASE \E u \in Session : Login(u)
  BY <1>1 DEF Login, RowsExist
<1>2. CASE \E u \in Session : Revoke(u) \/ Expire(u)
  BY <1>2 DEF Revoke, Expire
<1>3. CASE \E x \in Exchange : \/ \E c \in Cookie : Present(x, c)
                              \/ RotationLost(x) \/ RevokeFamily(x)
  BY <1>3, OpenExchange, StepIsOpen DEF Present, RotationLost, RevokeFamily
<1>4. CASE \E x \in Exchange : Rotate(x)
  BY <1>4 DEF Rotate, Rotatable
<1>5. CASE UNCHANGED sessionVars
  BY <1>5 DEF sessionVars
<1> QED
  BY <1>1, <1>2, <1>3, <1>4, <1>5 DEF SessionNext

\* Once a session is revoked, by logging out or by the reuse of a token, it
\* stays revoked and no rotation in flight gives it a new token.
THEOREM RevocationIsFinal == SessionSpec => RevokedIsOver
<1>1. SInv /\ [SessionNext]_sessionVars =>
        [\A s \in Session : revoked[s] => revoked'[s] /\ hash'[s] = hash[s]]_sessionVars
  BY RevokedStep
<1> QED
  BY <1>1, SessionInvariant, PTL DEF SessionSpec, RevokedIsOver

-----------------------------------------------------------------------------
(* The browser (module WebClient).                                         *)

\* What the browser holds, and what is on its way, are cookies of sessions.
CInv ==
  /\ SInv
  /\ cookie \in Cookie \cup {NoCookie}
  /\ answer \in [Call -> AnswerState]

LEMMA InitCInv == Init => CInv
BY InitSInv DEF Init, CInv, NoAnswer, AnswerState

(* Every step of the composed system is a step of the sessions or leaves   *)
(* them alone.                                                             *)
LEMMA ClientStep ==
  ASSUME CInv, [Next]_vars PROVE [SessionNext]_sessionVars
<1> USE DEF SessionNext
<1>1. CASE \E b \in Tab, s \in Session : LogIn(b, s)
  BY <1>1 DEF LogIn
<1>2. CASE LogOut
  <2>1. cookie \in Cookie
    BY <1>2 DEF CInv, LogOut
  <2> QED
    BY <1>2, <2>1 DEF LogOut, Cookie
<1>3. CASE \E s \in Session : ExpireSession(s)
  BY <1>3 DEF ExpireSession
<1>4. CASE \E o \in Call : ReceiveRenewal(o)
  <2> PICK o \in Call : ReceiveRenewal(o)
    BY <1>4
  <2>1. CASE Live(answer[o].cookie) /\ Present(o, answer[o].cookie)
    <3>1. answer[o].cookie \in Cookie
      BY <2>1 DEF CInv, ReceiveRenewal, AnswerState, Live, NoAnswer
    <3> QED
      BY <2>1, <3>1
  <2>2. CASE UNCHANGED sessionVars
    BY <2>2
  <2> QED
    BY <2>1, <2>2 DEF ReceiveRenewal
<1>5. CASE \E o \in Call : ServeRenewal(o)
  BY <1>5 DEF ServeRenewal
<1>6. CASE \/ \E b \in Tab : ExpireAccess(b)
           \/ \E c \in Call : Send(c) \/ CallStep(c) \/ RenewalRefused(c) \/ LoseRenewal(c)
           \/ UNCHANGED vars
  BY <1>6 DEF ExpireAccess, Send, CallStep, Finish, StartRenewal, ShareRenewal,
              RenewalRefused, LoseRenewal, vars
<1> QED
  BY <1>1, <1>2, <1>3, <1>4, <1>5, <1>6 DEF Next, RenewalStep

(* The token of a login exists.                                            *)
LEMMA CookieStep ==
  ASSUME CInv, [Next]_vars
  PROVE  cookie' \in Cookie \cup {NoCookie} /\ answer' \in [Call -> AnswerState]
<1> USE DEF CInv, AnswerState, NoAnswer
<1>1. CASE \E b \in Tab, s \in Session : LogIn(b, s)
  <2> PICK b \in Tab, s \in Session : LogIn(b, s)
    BY <1>1
  <2>1. issued' \in Token
    BY DEF LogIn, Login, SInv, SessionTypeOK, Token
  <2> QED
    BY <2>1 DEF LogIn, Cookie
<1>2. CASE \E o \in Call : ServeRenewal(o)
  BY <1>2 DEF ServeRenewal, Answer
<1>3. CASE \E o \in Call : ReceiveRenewal(o)
  BY <1>3 DEF ReceiveRenewal, Answer
<1>4. CASE \E o \in Call : RenewalRefused(o) \/ LoseRenewal(o)
  BY <1>4 DEF RenewalRefused, LoseRenewal, SettleRenewal
<1>5. CASE \E c \in Call : CallStep(c)
  BY <1>5 DEF CallStep, Finish, StartRenewal, ShareRenewal
<1>6. CASE \/ LogOut
           \/ \E s \in Session : ExpireSession(s)
           \/ \E b \in Tab : ExpireAccess(b)
           \/ \E c \in Call : Send(c)
           \/ UNCHANGED vars
  BY <1>6 DEF LogOut, ExpireSession, ExpireAccess, Send, vars, clientVars
<1> QED
  BY <1>1, <1>2, <1>3, <1>4, <1>5, <1>6 DEF Next, RenewalStep

LEMMA ClientInvariant == Spec => []CInv
<1>1. CInv /\ [Next]_vars => CInv'
  BY ClientStep, CookieStep, SessionNextKeeps DEF CInv
<1> QED
  BY <1>1, InitCInv, PTL DEF Spec

\* The browser's use of the API is one of the uses SessionSpec allows.
THEOREM ClientUsesSessions == Spec => SessionSpec
<1>1. Init => SessionInit
  BY DEF Init
<1>2. CInv /\ [Next]_vars => [SessionNext]_sessionVars
  BY ClientStep
<1> QED
  BY <1>1, <1>2, ClientInvariant, PTL DEF Spec, SessionSpec

\* Concurrent calls, several tabs, lost answers: a token is replaced once
\* and a revoked session is over (renewAccessToken and rotateRefreshToken).
THEOREM ClientSessionsAreSafe == Spec => []TokenIsSpentOnce /\ RevokedIsOver
BY ClientUsesSessions, TokensAreSpentOnce, RevocationIsFinal, PTL

-----------------------------------------------------------------------------
\* What the tabs hold.
TabInv ==
  /\ access \in [Tab -> Access]
  /\ renewal \in [Tab -> Call \cup {NoCall}]
  /\ call \in [Call -> CallState]
  /\ losses \in 0 .. MaxLosses

LEMMA SettleKeeps ==
  ASSUME TabInv, NEW o \in Call, SettleRenewal(o)
  PROVE  /\ access' \in [Tab -> Access] /\ renewal' \in [Tab -> Call \cup {NoCall}]
         /\ call' \in [Call -> CallState]
BY DEF TabInv, SettleRenewal, CallState, IdleCall, Access

LEMMA TabStep ==
  ASSUME TabInv, [Next]_vars PROVE TabInv'
<1>1. CASE \E b \in Tab, s \in Session : LogIn(b, s)
  BY <1>1 DEF TabInv, LogIn, Access
<1>2. CASE \E b \in Tab : ExpireAccess(b)
  <2> PICK b \in Tab : ExpireAccess(b)
    BY <1>2
  <2>1. access' \in [Tab -> Access]
    BY DEF TabInv, ExpireAccess, Access
  <2>2. \A c \in Call : [call[c] EXCEPT !.bearer = "old"] \in CallState
    BY DEF TabInv, CallState, Access
  <2>3. call' \in [Call -> CallState]
    BY <2>2 DEF TabInv, ExpireAccess
  <2> QED
    BY <2>1, <2>3 DEF TabInv, ExpireAccess
<1>3. CASE \E c \in Call : Send(c)
  BY <1>3 DEF TabInv, Send, CallState
<1>4. CASE \E c \in Call : Finish(c)
  BY <1>4 DEF TabInv, Finish, IdleCall, CallState, Access
<1>5. CASE \E c \in Call : StartRenewal(c) \/ ShareRenewal(c)
  <2> PICK c \in Call : StartRenewal(c) \/ ShareRenewal(c)
    BY <1>5
  <2>1. PICK o \in Call \cup {NoCall} : Await(c, o)
    BY DEF TabInv, StartRenewal, ShareRenewal
  <2>2. call' \in [Call -> CallState]
    BY <2>1 DEF TabInv, Await, CallState, Access
  <2>3. renewal' \in [Tab -> Call \cup {NoCall}] /\ UNCHANGED <<access, losses>>
    BY DEF TabInv, StartRenewal, ShareRenewal
  <2> QED
    BY <2>2, <2>3 DEF TabInv
<1>6. CASE \E o \in Call : RenewalRefused(o) \/ LoseRenewal(o)
  <2> PICK o \in Call : RenewalRefused(o) \/ LoseRenewal(o)
    BY <1>6
  <2>1. losses' \in 0 .. MaxLosses
    BY DEF TabInv, RenewalRefused, LoseRenewal
  <2>2. SettleRenewal(o)
    BY DEF RenewalRefused, LoseRenewal
  <2> QED
    BY <2>1, <2>2, SettleKeeps DEF TabInv
<1>7. CASE \/ LogOut
           \/ \E s \in Session : ExpireSession(s)
           \/ \E o \in Call : ReceiveRenewal(o) \/ ServeRenewal(o)
           \/ UNCHANGED vars
  BY <1>7 DEF TabInv, LogOut, ExpireSession, ReceiveRenewal, ServeRenewal, vars, clientVars
<1> QED
  BY <1>1, <1>2, <1>3, <1>4, <1>5, <1>6, <1>7 DEF Next, CallStep, RenewalStep

\* Every variable keeps its type: in particular every cookie is one the server
\* issued, and every awaited renewal is that of a call.
THEOREM ClientTyped == Spec => []TypeOK
<1>1. Init => TabInv
  BY DEF Init, TabInv, Access, CallState, IdleCall
<1>2. TabInv /\ [Next]_vars => TabInv'
  BY TabStep
<1>3. CInv /\ TabInv => TypeOK
  BY DEF CInv, SInv, TabInv, TypeOK
<1> QED
  BY <1>1, <1>2, <1>3, ClientInvariant, PTL DEF Spec
-----------------------------------------------------------------------------
(* What the calls of a tab await.                                          *)

InFlight(o) == answer[o] # NoAnswer

\* A call that started a renewal is the one its tab's promise names, and
\* awaits it; the promise of a tab is that of a renewal on its way.
RenewalsAreShared ==
  /\ \A o \in Call : InFlight(o) =>
       renewal[TabOf[o]] = o /\ call[o].step = "wait" /\ call[o].on = o
  /\ \A b \in Tab : renewal[b] # NoCall => TabOf[renewal[b]] = b /\ InFlight(renewal[b])

\* A renewal is being served when its call was told so, and a call that asks
\* anew left nothing behind at the server.
ServedAsAnswered ==
  \A c \in Call :
    /\ answer[c].step = "serving" => exchange[c] # IdleExchange
    /\ answer[c].step = "asked" \/ call[c].step = "sent" => exchange[c] = IdleExchange

\* A call that waits awaits the renewal its tab has under way, which is a request
\* to be received, an execution that serves it, or an answer to be read: there is
\* always a step left that ends the wait (renewAccessToken clears refreshPromise
\* and settles it for all that await it at once).
AwaitedIsUnderWay ==
  \A c \in Call : call[c].step = "wait" =>
    LET o == renewal[TabOf[c]] IN
    /\ o # NoCall /\ call[c].on = o
    /\ \/ answer[o].step \in {"asked", "refused"}
       \/ answer[o].step = "serving" /\ exchange[o].step \in {"rotate", "revoke"}

\* The same, as a step preserves it.
AwaitedIsTheTabs ==
  \A c \in Call : call[c].step = "wait" =>
    renewal[TabOf[c]] # NoCall /\ call[c].on = renewal[TabOf[c]]

CallInv ==
  /\ CInv
  /\ TabInv
  /\ RenewalsAreShared
  /\ ServedAsAnswered
  /\ AwaitedIsTheTabs

LEMMA InitCallInv == Init => CallInv
<1>1. Init => TabInv
  BY DEF Init, TabInv, Access, CallState, IdleCall
<1> QED
  BY <1>1, InitCInv DEF Init, CallInv, RenewalsAreShared, ServedAsAnswered, AwaitedIsTheTabs,
     InFlight, SessionInit, IdleCall, NoAnswer

(* A settled promise is cleared, and with it everybody who awaits it.      *)
LEMMA SettleKeepsCalls ==
  ASSUME CallInv, NEW o \in Call, InFlight(o), SettleRenewal(o), UNCHANGED exchange
  PROVE  /\ RenewalsAreShared' /\ ServedAsAnswered' /\ AwaitedIsTheTabs'
<1>1. /\ TabOf[o] \in Tab
      /\ renewal' = [renewal EXCEPT ![TabOf[o]] = NoCall]
      /\ answer' = [answer EXCEPT ![o] = NoAnswer]
      /\ \A c \in Call : \/ call'[c] = call[c] /\ (call[c].step # "wait" \/ call[c].on # o)
                         \/ call'[c].step = "idle" /\ call[c].on = o
      /\ renewal \in [Tab -> Call \cup {NoCall}] /\ answer \in [Call -> AnswerState]
  BY DEF SettleRenewal, CallInv, CInv, TabInv, IdleCall
<1>2. RenewalsAreShared'
  BY <1>1 DEF CallInv, RenewalsAreShared, InFlight
<1>3. ServedAsAnswered'
  BY <1>1 DEF CallInv, ServedAsAnswered, NoAnswer
<1>4. AwaitedIsTheTabs'
  BY <1>1 DEF CallInv, AwaitedIsTheTabs, RenewalsAreShared, InFlight
<1> QED
  BY <1>2, <1>3, <1>4

(* An answer on its way becomes another one.                               *)
LEMMA AnswerKeepsCalls ==
  ASSUME CallInv, NEW o \in Call, InFlight(o), NEW a \in AnswerState \ {NoAnswer},
         Answer(o, a), UNCHANGED <<renewal, call>>,
         \A c \in Call : c # o => exchange'[c] = exchange[c],
         a.step # "asked", a.step = "serving" => exchange'[o] # IdleExchange
  PROVE  /\ RenewalsAreShared' /\ ServedAsAnswered' /\ AwaitedIsTheTabs'
<1>1. answer' = [answer EXCEPT ![o] = a] /\ answer \in [Call -> AnswerState] /\ a # NoAnswer
  BY DEF Answer, CallInv, CInv
<1>2. call[o].step = "wait"
  BY DEF CallInv, RenewalsAreShared
<1>3. ServedAsAnswered'
  BY <1>1, <1>2 DEF CallInv, ServedAsAnswered
<1> QED
  BY <1>1, <1>3 DEF CallInv, RenewalsAreShared, AwaitedIsTheTabs, InFlight

LEMMA CallStepKeeps ==
  ASSUME CallInv, [Next]_vars PROVE CallInv'
<1> DEFINE Kept == RenewalsAreShared' /\ ServedAsAnswered' /\ AwaitedIsTheTabs'
<1> SUFFICES Kept
  BY TabStep, ClientStep, CookieStep, SessionNextKeeps DEF CallInv, CInv
<1> USE DEF CallInv
<1>1. CASE \/ \E b \in Tab, s \in Session : LogIn(b, s)
           \/ LogOut
           \/ \E s \in Session : ExpireSession(s)
           \/ UNCHANGED vars
  <2>1. UNCHANGED <<exchange, renewal, call, answer>>
    BY <1>1 DEF LogIn, Login, LogOut, Revoke, ExpireSession, Expire, vars, sessionVars, clientVars
  <2> QED
    BY <2>1 DEF RenewalsAreShared, ServedAsAnswered, AwaitedIsTheTabs, InFlight
<1>2. CASE \E b \in Tab : ExpireAccess(b)
  <2> PICK b \in Tab : ExpireAccess(b)
    BY <1>2
  <2>1. /\ \A c \in Call : call'[c].step = call[c].step /\ call'[c].on = call[c].on
        /\ UNCHANGED <<exchange, renewal, answer>>
    BY DEF ExpireAccess, TabInv, CallState, sessionVars
  <2> QED
    BY <2>1 DEF RenewalsAreShared, ServedAsAnswered, AwaitedIsTheTabs, InFlight
<1>3. CASE \E c \in Call : Send(c) \/ Finish(c)
  <2> PICK c \in Call : Send(c) \/ Finish(c)
    BY <1>3
  <2>1. /\ call[c].step # "wait" /\ call'[c].step \in {"sent", "idle"}
        /\ call'[c].step = "sent" => exchange[c] = IdleExchange
        /\ \A d \in Call : d # c => call'[d] = call[d]
        /\ UNCHANGED <<exchange, renewal, answer>>
    BY DEF Send, Finish, TabInv, IdleCall, sessionVars
  <2>2. ServedAsAnswered'
    BY <2>1 DEF ServedAsAnswered
  <2> QED
    BY <2>1, <2>2 DEF RenewalsAreShared, AwaitedIsTheTabs, InFlight
<1>4. CASE \E c \in Call : StartRenewal(c)
  <2> PICK c \in Call : StartRenewal(c)
    BY <1>4
  <2>1. /\ call[c].step = "sent" /\ TabOf[c] \in Tab /\ c # NoCall
        /\ renewal[TabOf[c]] = NoCall
        /\ renewal' = [renewal EXCEPT ![TabOf[c]] = c]
        /\ answer' = [answer EXCEPT ![c] = [step |-> "asked", cookie |-> cookie]]
        /\ call' = [call EXCEPT ![c] = [step |-> "wait", bearer |-> "none", on |-> c]]
        /\ renewal \in [Tab -> Call \cup {NoCall}] /\ answer \in [Call -> AnswerState]
        /\ call \in [Call -> CallState]
        /\ UNCHANGED exchange
    BY DEF StartRenewal, Rejected, Await, TabInv, CInv, sessionVars
  <2>2. [step |-> "asked", cookie |-> cookie] # NoAnswer
    BY DEF NoAnswer
  <2>3. RenewalsAreShared'
    BY <2>1, <2>2 DEF RenewalsAreShared, InFlight
  <2>4. ServedAsAnswered'
    BY <2>1 DEF ServedAsAnswered
  <2>5. AwaitedIsTheTabs'
    BY <2>1 DEF AwaitedIsTheTabs
  <2> QED
    BY <2>3, <2>4, <2>5
<1>5. CASE \E c \in Call : ShareRenewal(c)
  <2> PICK c \in Call : ShareRenewal(c)
    BY <1>5
  <2>1. /\ call[c].step = "sent" /\ TabOf[c] \in Tab
        /\ renewal[TabOf[c]] # NoCall
        /\ call' = [call EXCEPT ![c] = [step |-> "wait", bearer |-> "none", on |-> renewal[TabOf[c]]]]
        /\ call \in [Call -> CallState]
        /\ UNCHANGED <<exchange, renewal, answer>>
    BY DEF ShareRenewal, Rejected, Await, TabInv, sessionVars
  <2>2. RenewalsAreShared'
    BY <2>1 DEF RenewalsAreShared, InFlight
  <2>3. ServedAsAnswered' /\ AwaitedIsTheTabs'
    BY <2>1 DEF ServedAsAnswered, AwaitedIsTheTabs
  <2> QED
    BY <2>2, <2>3
<1>6. CASE \E o \in Call : RenewalRefused(o) \/ LoseRenewal(o)
  <2> PICK o \in Call : RenewalRefused(o) \/ LoseRenewal(o)
    BY <1>6
  <2>1. SettleRenewal(o)
    BY DEF RenewalRefused, LoseRenewal
  <2>2. InFlight(o) /\ UNCHANGED exchange
    BY DEF RenewalRefused, LoseRenewal, InFlight, NoAnswer, sessionVars
  <2> QED
    BY <2>1, <2>2, SettleKeepsCalls
<1>7. CASE \E o \in Call : ReceiveRenewal(o)
  <2> PICK o \in Call : ReceiveRenewal(o)
    BY <1>7
  <2>1. InFlight(o) /\ UNCHANGED <<renewal, call>>
    BY DEF ReceiveRenewal, InFlight, NoAnswer
  <2>2. CASE Live(answer[o].cookie) /\ Present(o, answer[o].cookie) /\ Answer(o, [step |-> "serving"])
    <3>1. [step |-> "serving"] \in AnswerState \ {NoAnswer}
      BY DEF AnswerState, NoAnswer
    <3>2. /\ exchange'[o] # IdleExchange
          /\ \A c \in Call : c # o => exchange'[c] = exchange[c]
      BY <2>2 DEF Present, IdleExchange, CInv, SInv, SessionTypeOK
    <3> QED
      BY <2>1, <2>2, <3>1, <3>2, AnswerKeepsCalls
  <2>3. CASE ~Live(answer[o].cookie) /\ Answer(o, [step |-> "refused"]) /\ UNCHANGED sessionVars
    <3>1. [step |-> "refused"] \in AnswerState \ {NoAnswer}
      BY DEF AnswerState, NoAnswer
    <3>2. \A c \in Call : exchange'[c] = exchange[c]
      BY <2>3 DEF sessionVars
    <3> QED
      BY <2>1, <2>3, <3>1, <3>2, AnswerKeepsCalls
  <2> QED
    BY <2>2, <2>3 DEF ReceiveRenewal
<1>8. CASE \E o \in Call : ServeRenewal(o)
  <2> PICK o \in Call : ServeRenewal(o)
    BY <1>8
  <2>1. /\ exchange' = [exchange EXCEPT ![o] = IdleExchange]
        /\ exchange \in [Exchange -> ExchangeState]
        /\ UNCHANGED <<renewal, call>>
    BY DEF ServeRenewal, Rotate, RotationLost, RevokeFamily, CInv, SInv, SessionTypeOK
  <2>2. CASE answer[o].step # "serving"
    <3>1. UNCHANGED answer
      BY <2>2 DEF ServeRenewal
    <3>2. ServedAsAnswered'
      BY <2>1, <2>2, <3>1 DEF ServedAsAnswered
    <3> QED
      BY <2>1, <3>1, <3>2 DEF RenewalsAreShared, AwaitedIsTheTabs, InFlight
  <2>3. CASE answer[o].step = "serving"
    <3>1. InFlight(o)
      BY <2>3 DEF InFlight, NoAnswer
    <3>2. Answer(o, [step |-> "refused"])
      BY <2>3 DEF ServeRenewal
    <3>3. [step |-> "refused"] \in AnswerState \ {NoAnswer}
      BY DEF AnswerState, NoAnswer
    <3> QED
      BY <2>1, <3>1, <3>2, <3>3, AnswerKeepsCalls
  <2> QED
    BY <2>2, <2>3
<1> QED
  BY <1>1, <1>2, <1>3, <1>4, <1>5, <1>6, <1>7, <1>8 DEF Next, CallStep, RenewalStep

LEMMA CallInvariant == Spec => []CallInv
BY InitCallInv, CallStepKeeps, PTL DEF Spec

\* However many tabs and calls there are and whatever the network loses, no call
\* awaits a renewal that is over: what the end of every call (CallEnds) rests on.
THEOREM NoCallIsStranded == Spec => []AwaitedIsUnderWay
<1>1. ASSUME CallInv PROVE AwaitedIsUnderWay
  <2> SUFFICES ASSUME NEW c \in Call, call[c].step = "wait", NEW o, o = renewal[TabOf[c]]
               PROVE  /\ o # NoCall /\ call[c].on = o
                      /\ \/ answer[o].step \in {"asked", "refused"}
                         \/ answer[o].step = "serving" /\ exchange[o].step \in {"rotate", "revoke"}
    BY DEF AwaitedIsUnderWay
  <2>1. o # NoCall /\ call[c].on = o /\ TabOf[c] \in Tab /\ o \in Call
    BY <1>1 DEF CallInv, TabInv, AwaitedIsTheTabs
  <2>2. answer[o] \in AnswerState \ {NoAnswer}
    BY <1>1, <2>1 DEF CallInv, CInv, RenewalsAreShared, InFlight
  <2>3. answer[o].step \in {"asked", "serving", "refused"}
    BY <2>2 DEF AnswerState
  <2>4. answer[o].step = "serving" => exchange[o].step \in {"rotate", "revoke"}
    BY <1>1, <2>1, OpenExchange DEF CallInv, CInv, SInv, ServedAsAnswered
  <2> QED
    BY <2>1, <2>3, <2>4
<1> QED
  BY <1>1, CallInvariant, PTL

\* However many calls of a tab are rejected at once, they share one renewal: no
\* cookie is presented by two requests of a tab (refreshPromise).
THEOREM RenewalsAreNeverTwo == Spec => []RenewalIsShared
<1>1. CallInv => RenewalIsShared
  BY DEF CallInv, RenewalsAreShared, RenewalIsShared, InFlight
<1> QED
  BY <1>1, CallInvariant, PTL
==============================================================================
