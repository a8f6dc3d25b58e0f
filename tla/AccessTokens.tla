---------------------------- MODULE AccessTokens ----------------------------
(***************************************************************************)
(* The access tokens that the token endpoint hands out, beside the rows it *)
(* keeps.  An access token is a JWT: no row stands for it, nothing revokes *)
(* it, and GET /oauth/userinfo accepts it until its exp.  What bounds it   *)
(* is its lifetime and the moment it is counted from: the clock that the   *)
(* handler reads once, before it opens its transaction and waits for the   *)
(* connection, the locks and the commit.                                   *)
(*                                                                         *)
(* Every step of TokenEndpoint happens here too, with what it does to the  *)
(* access tokens; time passes in ticks, between any two statements.        *)
(***************************************************************************)
EXTENDS TokenEndpoint

CONSTANT Lifetime  \* ACCESS_TOKEN_TTL in ticks

ASSUME LifetimeIsPositive == Lifetime \in Nat \ {0}

VARIABLES
  carried,  \* [Request -> the access token it will return: its code, and the time left]
  access,   \* [Code -> 0..Lifetime], time left of the youngest one an app received
  ended     \* [Code -> 0..Lifetime], ticks since the grant ended, up to Lifetime

accessVars == <<carried, access, ended>>
allVars    == <<vars, accessVars>>

Nothing == [code |-> None, left |-> 0]

AccessInit ==
  /\ Init
  /\ carried = [p \in Request |-> Nothing]
  /\ access = [c \in Code |-> 0]
  /\ ended = [c \in Code |-> 0]

\* A request that ended carries nothing on.
CarryOn ==
  /\ carried' = [p \in Request |-> IF pc'[p] = "idle" THEN Nothing ELSE carried[p]]
  /\ UNCHANGED <<access, ended>>

\* Both grants take now before they open the transaction; the claims that are
\* signed in the middle of it expire Lifetime after that now.
ReadClock(p) ==
  /\ StartExchange(p) \/ StartRefresh(p)
  /\ carried' = [carried EXCEPT ![p] =
       [code |-> IF req'[p].op = "exchange" THEN req'[p].code ELSE tokens[req'[p].token].code,
        left |-> Lifetime]]
  /\ UNCHANGED <<access, ended>>

\* Variant: the exp of a new token counts from the response.
ReceiveFresh(p) ==
  LET c == carried[p].code IN
  /\ pc[p] = "granted" /\ Respond(p)
  /\ access' = [access EXCEPT ![c] = Lifetime]
  /\ carried' = [carried EXCEPT ![p] = Nothing]
  /\ UNCHANGED ended

\* The response of a grant arrives: the app holds one more access token.
Receive(p) ==
  LET c == carried[p].code IN
  /\ pc[p] = "granted"
  /\ Respond(p)
  /\ access' = [access EXCEPT ![c] = IF @ > carried[p].left THEN @ ELSE carried[p].left]
  /\ carried' = [carried EXCEPT ![p] = Nothing]
  /\ UNCHANGED ended

Later(left) == IF left = 0 THEN 0 ELSE left - 1

\* Time passes.  Bound: ended stops counting at Lifetime.
Tick ==
  /\ carried' = [p \in Request |-> [carried[p] EXCEPT !.left = Later(@)]]
  /\ access' = [c \in Code |-> Later(access[c])]
  /\ ended' = [c \in Code |-> IF PhaseOf(c) = "ended" /\ ended[c] < Lifetime
                              THEN ended[c] + 1 ELSE ended[c]]
  /\ UNCHANGED vars

\* Any other step of the server; a response without tokens is among them.
OtherStep ==
  \/ \E p \in Request :
       \/ StartRevoke(p) \/ StartDelete(p) \/ Abort(p) \/ LoseResponse(p)
       \/ ExchangeStep(p) \/ RefreshStep(p) \/ RevokeStep(p) \/ DeleteStep(p)
       \/ pc[p] # "granted" /\ Respond(p)
  \/ \E c \in Code : IssueCode(c)
  \/ \E r \in Code \cup Token : Expire(r)

AccessNext ==
  \/ \E p \in Request : ReadClock(p) \/ Receive(p)
  \/ OtherStep /\ CarryOn
  \/ Tick

AccessSpec == AccessInit /\ [][AccessNext]_allVars

---------------------------------------------------------------------------
(* Properties *)

\* access::verify at the userinfo endpoint: signature and exp, no row is read
\* but the user's.
Accepted(c) == access[c] > 0

\* A sign-in that has ended, by revocation, replay, deletion of the application
\* or because it had no refresh token to begin with, lets an app in for at most
\* one lifetime longer, whatever was waiting for a lock, committed and not yet
\* answered, or arriving when it ended (access.rs:40, "its lifetime is the window").
EndedGrantsFade == \A c \in Code : ended[c] = Lifetime => ~Accepted(c)

=============================================================================
