------------------------------- MODULE Sessions -------------------------------
(***************************************************************************)
(* The sessions of one user and their refresh tokens (auth.service.ts).    *)
(* A login makes a row with a token family of its own and rotation keeps   *)
(* the row, so a family is one session.  A token is a number; a hash is    *)
(* the token it was made from.  Tokens are random, so a new one is one     *)
(* that was never issued.                                                  *)
(***************************************************************************)
EXTENDS Naturals

CONSTANTS
  Session,  \* rows of sessions, created or not
  Exchange, \* concurrent executions of rotateRefreshToken
  MaxToken  \* bound on the refresh tokens issued

ASSUME SessionsAssumption == MaxToken \in Nat

VARIABLES
  hash,     \* hash[s]: refresh_token_hash, NoToken if there is no row
  revoked,  \* revoked[s]: revoked_at is set
  expired,  \* expired[s]: expires_at is past
  issued,   \* how many tokens were issued; the next one is issued + 1
  exchange, \* exchange[x]: what the execution x has read and will do
  spent     \* history: spent[t], how many times token t was exchanged

sessionVars == <<hash, revoked, expired, issued, exchange, spent>>

NoToken == 0
Token == 1 .. MaxToken
Cookie == [session : Session, token : Token]

IdleExchange == [step |-> "idle"]

\* "rotate": the token was found to match the hash, now held as token;
\* "revoke": it was found not to, or the session to have expired.
ExchangeState ==
  {IdleExchange} \cup [step : {"rotate", "revoke"}, session : Session, token : Token]

SessionTypeOK ==
  /\ hash \in [Session -> Token \cup {NoToken}]
  /\ revoked \in [Session -> BOOLEAN]
  /\ expired \in [Session -> BOOLEAN]
  /\ issued \in 0 .. MaxToken
  /\ exchange \in [Exchange -> ExchangeState]
  /\ spent \in [Token -> Nat]

SessionInit ==
  /\ hash = [s \in Session |-> NoToken]
  /\ revoked = [s \in Session |-> FALSE]
  /\ expired = [s \in Session |-> FALSE]
  /\ issued = 0
  /\ exchange = [x \in Exchange |-> IdleExchange]
  /\ spent = [t \in Token |-> 0]

-----------------------------------------------------------------------------
\* authenticate, once the password was verified.
Login(s) ==
  /\ hash[s] = NoToken
  /\ issued < MaxToken
  /\ issued' = issued + 1
  /\ hash' = [hash EXCEPT ![s] = issued']
  /\ UNCHANGED <<revoked, expired, exchange, spent>>

\* The row resolve_session returns.
Resolved(s) == hash[s] # NoToken /\ ~revoked[s]

\* rotateRefreshToken found the session and goes on: to replace the token, or
\* to revoke.  Without a session it is answered 401 at once.
Present(x, c) ==
  /\ exchange[x] = IdleExchange
  /\ Resolved(c.session)
  /\ exchange' = [exchange EXCEPT ![x] =
       [step    |-> IF ~expired[c.session] /\ hash[c.session] = c.token THEN "rotate" ELSE "revoke",
        session |-> c.session,
        token   |-> c.token]]
  /\ UNCHANGED <<hash, revoked, expired, issued, spent>>

\* Mutant: the hash is not compared again.
RotatableByAnyToken(x) == ~revoked[exchange[x].session] /\ ~expired[exchange[x].session]

\* Mutant: revocation is not looked at again.
RotatableWhenRevoked(x) == hash[exchange[x].session] = exchange[x].token

\* The WHERE clause of the UPDATE.
Rotatable(x) ==
  LET e == exchange[x] IN
  hash[e.session] = e.token /\ ~revoked[e.session] /\ ~expired[e.session]

\* The UPDATE finds the row and commits the hash of a new token.  The caller is
\* answered 401 all the same (auth.service.ts:100-102): see WebClient.
Rotate(x) ==
  LET e == exchange[x] IN
  /\ e.step = "rotate"
  /\ Rotatable(x)
  /\ issued < MaxToken
  /\ issued' = issued + 1
  /\ hash' = [hash EXCEPT ![e.session] = issued']
  /\ expired' = [expired EXCEPT ![e.session] = FALSE]
  /\ spent' = [spent EXCEPT ![e.token] = @ + 1]
  /\ exchange' = [exchange EXCEPT ![x] = IdleExchange]
  /\ UNCHANGED revoked

\* The UPDATE finds no row: 401, and nothing is revoked.
RotationLost(x) ==
  /\ exchange[x].step = "rotate"
  /\ ~Rotatable(x)
  /\ exchange' = [exchange EXCEPT ![x] = IdleExchange]
  /\ UNCHANGED <<hash, revoked, expired, issued, spent>>

\* revokeFamily, then 401.
RevokeFamily(x) ==
  /\ exchange[x].step = "revoke"
  /\ revoked' = [revoked EXCEPT ![exchange[x].session] = TRUE]
  /\ exchange' = [exchange EXCEPT ![x] = IdleExchange]
  /\ UNCHANGED <<hash, expired, issued, spent>>

\* revoke (logout): the cookie's session, whatever its token.
Revoke(s) ==
  /\ Resolved(s)
  /\ revoked' = [revoked EXCEPT ![s] = TRUE]
  /\ UNCHANGED <<hash, expired, issued, exchange, spent>>

\* Thirty days pass since the last login or rotation.
Expire(s) ==
  /\ hash[s] # NoToken /\ ~expired[s]
  /\ expired' = [expired EXCEPT ![s] = TRUE]
  /\ UNCHANGED <<hash, revoked, issued, exchange, spent>>

SessionNext ==
  \/ \E s \in Session : Login(s) \/ Revoke(s) \/ Expire(s)
  \/ \E x \in Exchange : \/ \E c \in Cookie : Present(x, c)
                        \/ Rotate(x) \/ RotationLost(x) \/ RevokeFamily(x)

\* Whatever cookies are presented, in whatever order.
SessionSpec == SessionInit /\ [][SessionNext]_sessionVars

-----------------------------------------------------------------------------
\* A refresh token is replaced by a new one at most once, however many
\* requests present it at the same time (the compare-and-set of
\* rotateRefreshToken).
TokenIsSpentOnce == \A t \in Token : spent[t] <= 1

\* A revoked session is over: a rotation that had found it alive does not
\* give it a new token (revoked_at IS NULL in the UPDATE).
RevokedIsOver ==
  [][\A s \in Session : revoked[s] => revoked'[s] /\ hash'[s] = hash[s]]_sessionVars
==============================================================================
