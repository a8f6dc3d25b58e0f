---------------------------- MODULE GrantLedger ----------------------------
(***************************************************************************)
(* What the token endpoint promises, without requests, transactions, rows  *)
(* or locks: a ledger with one entry per sign-in.  An entry is opened by   *)
(* an authorization code, is redeemed at most once, holds at most one      *)
(* refresh token, replaces it by one that was never issued before, and     *)
(* when it has ended nothing brings it back.  Every change is one step.    *)
(* TokenEndpoint implements it (TokenEndpoint!ImplementsLedger).           *)
(***************************************************************************)
CONSTANTS
  Grant,  \* sign-ins, one per authorization code
  Token   \* refresh tokens

VARIABLES
  phase,    \* [Grant -> Phase]
  current,  \* [Grant -> SUBSET Token]: the refresh tokens a grant can be continued with
  issued    \* every refresh token that was ever in the ledger

ledger == <<phase, current, issued>>

Phase == {"none", "open", "live", "ended"}

Init ==
  /\ phase = [g \in Grant |-> "none"]
  /\ current = [g \in Grant |-> {}]
  /\ issued = {}

\* A user approved: a code exists, nothing was redeemed for it yet.
Open(g) ==
  /\ phase[g] = "none"
  /\ phase' = [phase EXCEPT ![g] = "open"]
  /\ UNCHANGED <<current, issued>>

\* The code is redeemed and starts a family with a token new to the ledger.
Redeem(g, t) ==
  /\ phase[g] = "open"
  /\ t \notin issued
  /\ phase' = [phase EXCEPT ![g] = "live"]
  /\ current' = [current EXCEPT ![g] = {t}]
  /\ issued' = issued \cup {t}

\* The token of a grant is replaced by one new to the ledger.
Rotate(g, t, u) ==
  /\ phase[g] = "live"
  /\ current[g] = {t}
  /\ u \notin issued
  /\ current' = [current EXCEPT ![g] = {u}]
  /\ issued' = issued \cup {u}
  /\ UNCHANGED phase

\* Grants end: a redemption that is refused or gives no refresh token, a
\* revocation, the deletion of the application.
End(S) ==
  /\ \A g \in S : phase[g] \in {"open", "live"}
  /\ phase' = [g \in Grant |-> IF g \in S THEN "ended" ELSE phase[g]]
  /\ current' = [g \in Grant |-> IF g \in S THEN {} ELSE current[g]]
  /\ UNCHANGED issued

Next ==
  \/ \E S \in SUBSET Grant : End(S)
  \/ \E g \in Grant : Open(g)
  \/ \E g \in Grant, t \in Token : Redeem(g, t)
  \/ \E g \in Grant, t, u \in Token : Rotate(g, t, u)

Spec == Init /\ [][Next]_ledger

===========================================================================
