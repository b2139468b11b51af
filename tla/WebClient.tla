------------------------------ MODULE WebClient ------------------------------
(***************************************************************************)
(* The web client's calls of the API and the renewal of its access token   *)
(* (api-client.ts), over the server's sessions (module Sessions).          *)
(*                                                                         *)
(* The refresh cookie belongs to the browser and is shared by its tabs; an *)
(* access token and the promise of its renewal are variables of one tab.   *)
(* The call that starts a renewal names it, and names the execution of     *)
(* rotateRefreshToken that serves it.                                      *)
(*                                                                         *)
(* No renewal is granted.  manager.query answers an UPDATE with its rows   *)
(* and their number, a pair whose length rotateRefreshToken compares with  *)
(* 1: the new hash is committed and the request is answered 401, without a *)
(* cookie (auth.service.ts:94-102).  What the client does with a granted   *)
(* one, the second attempt of a call, never happens: left out.             *)
(***************************************************************************)
EXTENDS Sessions, FiniteSets

CONSTANTS
  Tab,      \* tabs of the browser that show the application
  Call,     \* concurrent executions of apiRequest
  NoCall,   \* refreshPromise is null
  TabOf,    \* TabOf[c]: the tab that makes call c
  NoCookie, \* the browser has no refresh cookie
  MaxLosses \* bound on answers to a renewal that the network loses

ASSUME WebClientAssumption ==
  /\ Exchange = Call
  /\ NoCall \notin Call /\ NoCookie \notin Cookie
  /\ TabOf \in [Call -> Tab]
  /\ MaxLosses \in Nat

VARIABLES
  cookie,  \* the refresh cookie
  access,  \* access[b]: accessToken of tab b
  renewal, \* renewal[b]: refreshPromise of tab b, by the call that started it
  call,    \* call[c]: where apiRequest is and the token it sent
  answer,  \* answer[c]: the renewal call c started, on its way
  losses   \* answers lost so far

clientVars == <<cookie, access, renewal, call, answer, losses>>
vars == <<sessionVars, clientVars>>

\* An access token expires ten minutes after it was issued.
Access == {"none", "valid", "old"}

\* "wait": the call awaits the renewal "on".
IdleCall == [step |-> "idle", bearer |-> "none", on |-> NoCall]
CallState == [step : {"idle", "sent", "wait"}, bearer : Access, on : Call \cup {NoCall}]

\* "asked": the request of a renewal carries a cookie to the server, which
\* serves it and refuses.
NoAnswer == [step |-> "none"]
AnswerState ==
  {NoAnswer} \cup [step : {"serving", "refused"}]
    \cup [step : {"asked"}, cookie : Cookie \cup {NoCookie}]

TypeOK ==
  /\ SessionTypeOK
  /\ cookie \in Cookie \cup {NoCookie}
  /\ access \in [Tab -> Access]
  /\ renewal \in [Tab -> Call \cup {NoCall}]
  /\ call \in [Call -> CallState]
  /\ answer \in [Call -> AnswerState]
  /\ losses \in 0 .. MaxLosses

Init ==
  /\ SessionInit
  /\ cookie = NoCookie
  /\ access = [b \in Tab |-> "none"]
  /\ renewal = [b \in Tab |-> NoCall]
  /\ call = [c \in Call |-> IdleCall]
  /\ answer = [c \in Call |-> NoAnswer]
  /\ losses = 0

\* A call in flight, or a renewal nobody awaits any more, may need a token:
\* begin nothing that could run out.
Budget ==
  issued + Cardinality({c \in Call : call[c].step # "idle" \/ exchange[c] # IdleExchange})
    < MaxToken

\* The cookie k names a session resolve_session finds.
Live(k) == k # NoCookie /\ Resolved(k.session)

-----------------------------------------------------------------------------
(* The user and the clock.                                                 *)

\* LoginPage: the answer sets the cookie and the access token.
LogIn(b, s) ==
  /\ Budget
  /\ Login(s)
  /\ cookie' = [session |-> s, token |-> issued']
  /\ access' = [access EXCEPT ![b] = "valid"]
  /\ UNCHANGED <<renewal, call, answer, losses>>

\* POST /auth/logout clears the cookie; the access token stays in memory.
LogOut ==
  /\ cookie # NoCookie
  /\ IF Live(cookie) THEN Revoke(cookie.session) ELSE UNCHANGED sessionVars
  /\ cookie' = NoCookie
  /\ UNCHANGED <<access, renewal, call, answer, losses>>

ExpireSession(s) == Expire(s) /\ UNCHANGED clientVars

\* Ten minutes pass: the tab's token is old, in memory and in flight.
ExpireAccess(b) ==
  /\ access[b] = "valid"
  /\ access' = [access EXCEPT ![b] = "old"]
  /\ call' = [c \in Call |->
       IF TabOf[c] = b /\ call[c].bearer = "valid" THEN [call[c] EXCEPT !.bearer = "old"]
                                                   ELSE call[c]]
  /\ UNCHANGED <<sessionVars, cookie, renewal, answer, losses>>

-----------------------------------------------------------------------------
(* apiRequest                                                              *)

Send(c) ==
  /\ call[c].step = "idle" /\ answer[c] = NoAnswer /\ exchange[c] = IdleExchange
  /\ Budget
  /\ call' = [call EXCEPT ![c] = [step |-> "sent", bearer |-> access[TabOf[c]], on |-> NoCall]]
  /\ UNCHANGED <<sessionVars, cookie, access, renewal, answer, losses>>

\* The API accepts the token.
Finish(c) ==
  /\ call[c].step = "sent" /\ call[c].bearer = "valid"
  /\ call' = [call EXCEPT ![c] = IdleCall]
  /\ UNCHANGED <<sessionVars, cookie, access, renewal, answer, losses>>

Rejected(c) == call[c].step = "sent" /\ call[c].bearer # "valid"

Await(c, o) == call' = [call EXCEPT ![c] = [step |-> "wait", bearer |-> "none", on |-> o]]

\* Mutant: a call starts a renewal of its own whenever one is under way.
StartOwnRenewal(c) ==
  /\ Rejected(c)
  /\ renewal' = [renewal EXCEPT ![TabOf[c]] = c]
  /\ answer' = [answer EXCEPT ![c] = [step |-> "asked", cookie |-> cookie]]
  /\ Await(c, c)
  /\ UNCHANGED <<sessionVars, cookie, access, losses>>

\* 401 and no renewal under way in the tab: start one.
StartRenewal(c) ==
  /\ Rejected(c)
  /\ renewal[TabOf[c]] = NoCall
  /\ renewal' = [renewal EXCEPT ![TabOf[c]] = c]
  /\ answer' = [answer EXCEPT ![c] = [step |-> "asked", cookie |-> cookie]]
  /\ Await(c, c)
  /\ UNCHANGED <<sessionVars, cookie, access, losses>>

\* 401 while one is: await the same promise.
ShareRenewal(c) ==
  /\ Rejected(c)
  /\ renewal[TabOf[c]] # NoCall
  /\ Await(c, renewal[TabOf[c]])
  /\ UNCHANGED <<sessionVars, cookie, access, renewal, answer, losses>>

\* Mutant: a settled promise is kept for later calls.
KeepRenewal(o) ==
  /\ access' = [access EXCEPT ![TabOf[o]] = "none"]
  /\ call' = [c \in Call |-> IF call[c].step = "wait" /\ call[c].on = o THEN IdleCall ELSE call[c]]
  /\ answer' = [answer EXCEPT ![o] = NoAnswer]
  /\ UNCHANGED renewal

\* The promise of renewal o is settled with null: the token, the promise, and
\* those who await it, who fail with ApiError.
SettleRenewal(o) ==
  /\ access' = [access EXCEPT ![TabOf[o]] = "none"]
  /\ renewal' = [renewal EXCEPT ![TabOf[o]] = NoCall]
  /\ call' = [c \in Call |-> IF call[c].step = "wait" /\ call[c].on = o THEN IdleCall ELSE call[c]]
  /\ answer' = [answer EXCEPT ![o] = NoAnswer]

RenewalRefused(o) ==
  /\ answer[o].step = "refused"
  /\ SettleRenewal(o)
  /\ UNCHANGED <<sessionVars, cookie, losses>>

\* The request, the connection or the answer is lost: the fetch fails, which
\* is caught.  The server goes on with what it is serving.
LoseRenewal(o) ==
  /\ answer[o] # NoAnswer
  /\ losses < MaxLosses
  /\ losses' = losses + 1
  /\ SettleRenewal(o)
  /\ UNCHANGED <<sessionVars, cookie>>

-----------------------------------------------------------------------------
(* POST /auth/refresh                                                      *)

Answer(o, a) == answer' = [answer EXCEPT ![o] = a]

ReceiveRenewal(o) ==
  /\ answer[o].step = "asked"
  /\ \/ /\ Live(answer[o].cookie)
        /\ Present(o, answer[o].cookie)
        /\ Answer(o, [step |-> "serving"])
     \/ /\ ~Live(answer[o].cookie)
        /\ Answer(o, [step |-> "refused"])
        /\ UNCHANGED sessionVars
  /\ UNCHANGED <<cookie, access, renewal, call, losses>>

\* Rotated or not, it is refused; an answer nobody awaits is dropped.
ServeRenewal(o) ==
  /\ Rotate(o) \/ RotationLost(o) \/ RevokeFamily(o)
  /\ IF answer[o].step = "serving" THEN Answer(o, [step |-> "refused"]) ELSE UNCHANGED answer
  /\ UNCHANGED <<cookie, access, renewal, call, losses>>

-----------------------------------------------------------------------------
CallStep(c) == Finish(c) \/ StartRenewal(c) \/ ShareRenewal(c)
RenewalStep(o) == ReceiveRenewal(o) \/ ServeRenewal(o) \/ RenewalRefused(o)

Next ==
  \/ \E b \in Tab : ExpireAccess(b) \/ \E s \in Session : LogIn(b, s)
  \/ LogOut
  \/ \E s \in Session : ExpireSession(s)
  \/ \E c \in Call : Send(c) \/ CallStep(c) \/ RenewalStep(c) \/ LoseRenewal(c)

Spec == Init /\ [][Next]_vars

\* The API answers what it receives and the client goes on with what it is
\* answered; users do what they like.
FairSpec == Spec /\ \A c \in Call : WF_vars(CallStep(c)) /\ WF_vars(RenewalStep(c))

-----------------------------------------------------------------------------
\* A refresh token rotates, and its family is revoked on logout, a change of
\* password, the end of a membership or reuse (plan.md:62): a browser that
\* loses no answer holds the token that came last, so that its session is
\* revoked by logging out or by age only.
NoReuseWithoutLoss ==
  \A x \in Exchange :
    exchange[x].step = "revoke" => losses > 0 \/ expired[exchange[x].session]

\* The calls of a tab that are rejected at once share one renewal: a second one
\* would present the same cookie, which the server takes for reuse.
RenewalIsShared ==
  \A c, d \in Call :
    answer[c] # NoAnswer /\ answer[d] # NoAnswer /\ TabOf[c] = TabOf[d] => c = d

\* Every call ends, with an answer or an error: none awaits a renewal that is
\* over.
CallEnds == \A c \in Call : call[c].step # "idle" ~> call[c].step = "idle"
==============================================================================
