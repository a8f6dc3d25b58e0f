---------------------------- MODULE GrantProofs -----------------------------
(***************************************************************************)
(* What is left behind by the requests of TokenEndpoint: the rows of a     *)
(* family form one line, none outlives its application, and what a request *)
(* was answered is true of the rows from then on.  And what is left behind *)
(* with the apps: a sign-in that has ended lets one in for at most one     *)
(* lifetime of an access token longer.  For any number of requests,        *)
(* clients, codes and tokens, any lifetime and any time spent waiting for  *)
(* locks and commits.                                                      *)
(*                                                                         *)
(* RowsHold is kept by the commits that write rows.  AnswerHolds(p) is kept*)
(* by the request itself until it is answered and by every other commit    *)
(* after that, since a used code, a revoked token and an issued id are     *)
(* never taken back (SpentStays, TokensStay).                              *)
(*                                                                         *)
(* A token in a granted response must have no more time left than its      *)
(* grant had before it ended (Clocks).  It is kept because a commit grants *)
(* only what is still open or live, which GrantRowsInv says of the locked  *)
(* row, because an ended grant never comes back (LedgerStep), and because  *)
(* a request carries the token of the code it locked (Tracks).             *)
(***************************************************************************)
EXTENDS AccessTokens, TokenEndpointProofs

---------------------------------------------------------------------------
(* Rows and answers *)

\* Nobody redeems this code any more.
Spent(c) ==
  c \in Code /\ codes[c].state # "absent" /\ (codes[c].used \/ codes[c].state = "deleted")

\* What the label of a request says of its operation, and what its answer rests on.
AnswerHolds(p) ==
  /\ pc[p] \in {"claim", "missed", "claimed", "issued"} => req[p].op = "exchange"
  /\ pc[p] \in {"lock", "locked", "rotated"} => req[p].op = "refresh"
  /\ pc[p] \in {"find", "found"} => req[p].op = "revoke"
  /\ pc[p] \in {"refused", "revoking", "revoked"} /\ req[p].op = "exchange" => Spent(req[p].code)
  /\ pc[p] \in {"revoking", "revoked"} => \A t \in seen[p] : tokens[t].state # "absent"
  /\ pc[p] = "revoked" => \A t \in seen[p] : tokens[t].revoked \/ tokens[t].state = "deleted"
  /\ pc[p] = "granted" /\ new[p] # None => tokens[new[p]].state # "absent"

RowsHold == NothingOutlivesItsClient /\ FamilyIsALine /\ DeliveredTokensAreStored

GrantRowsInv == IInv /\ RowsHold /\ \A p \in Request : AnswerHolds(p)

---------------------------------------------------------------------------
(* What is never taken back *)

LEMMA SpentStays ==
  ASSUME IInv, [Next]_vars, NEW c, Spent(c)
  PROVE  Spent(c)'
<1>1. c \in Code /\ codes[c] \in CodeRow
  BY DEF Spent, IInv, TypeOK
<1>2. CASE \E d \in Code : IssueCode(d)
  BY <1>1, <1>2 DEF IssueCode, Spent, IInv, TypeOK
<1>3. CASE \E p \in Request : CommitExchange(p) \/ RejectBindings(p)
  <2>1. PICK d : codes' = [codes EXCEPT ![d] = [codes[d] EXCEPT !.used = TRUE]]
    BY <1>3 DEF CommitExchange, RejectBindings
  <2> QED BY <1>1, <2>1 DEF Spent, IInv, TypeOK, CodeRow
<1>4. CASE \E p \in Request : CommitDelete(p)
  BY <1>1, <1>4 DEF CommitDelete, NoCode, Spent
<1>5. CASE UNCHANGED codes
  BY <1>5 DEF Spent
<1> QED BY <1>2, <1>3, <1>4, <1>5, CodeWriters

LEMMA TokensStay ==
  ASSUME IInv, [Next]_vars, NEW t \in Token, tokens[t].state # "absent"
  PROVE  /\ tokens'[t].state # "absent"
         /\ tokens[t].revoked \/ tokens[t].state = "deleted" =>
              tokens'[t].revoked \/ tokens'[t].state = "deleted"
<1>1. tokens[t] \in TokenRow
  BY DEF IInv, TypeOK
<1>2. \/ tokens'[t] = tokens[t]
      \/ tokens'[t].state = "deleted"
      \/ Live(t) /\ tokens'[t] = [tokens[t] EXCEPT !.next = tokens'[t].next]
      \/ tokens'[t] = [tokens[t] EXCEPT !.revoked = TRUE]
  BY RowSteps DEF RowStep
<1>3. Live(t) => ~tokens[t].revoked /\ tokens[t].state = "stored"
  BY DEF Live, StoredTokens
<1> QED BY <1>1, <1>2, <1>3 DEF TokenRow

---------------------------------------------------------------------------
(* The answers *)

LEMMA AnswerIsStable ==
  ASSUME IInv, [Next]_vars, NEW p \in Request, AnswerHolds(p),
         pc'[p] = pc[p], req'[p] = req[p], new'[p] = new[p], seen'[p] = seen[p]
  PROVE  AnswerHolds(p)'
<1>1. seen[p] \subseteq Token /\ new[p] \in Token \cup {None}
  BY DEF IInv, TypeOK
<1>2. Spent(req[p].code) => Spent(req[p].code)'
  BY SpentStays
<1>3. \A t \in Token : tokens[t].state # "absent" =>
        /\ tokens'[t].state # "absent"
        /\ tokens[t].revoked \/ tokens[t].state = "deleted" =>
             tokens'[t].revoked \/ tokens'[t].state = "deleted"
  BY TokensStay
<1> QED BY <1>1, <1>2, <1>3 DEF AnswerHolds, Spent

\* A step of one request leaves the others as they were.
LEMMA OtherRequestsKeep ==
  ASSUME TypeOK, NEW p \in Request, Arrival(p) \/ Handler(p) \/ Abort(p) \/ LoseResponse(p),
         NEW q \in Request, q # p
  PROVE  pc'[q] = pc[q] /\ req'[q] = req[q] /\ new'[q] = new[q] /\ seen'[q] = seen[q]
<1> DEFINE Same == pc'[q] = pc[q] /\ req'[q] = req[q] /\ new'[q] = new[q] /\ seen'[q] = seen[q]
<1>1. Finish(p) => Same
  BY DEF Finish, Goto, TypeOK
<1>2. \A label : Goto(p, label) => pc'[q] = pc[q]
  BY DEF Goto, TypeOK
<1>3. \A label : Committed(p, label) => Same
  BY <1>2 DEF Committed
<1>4. \A input, label : Start(p, input, label) => Same
  BY <1>2 DEF Start, TypeOK
<1>5. \A label : Insert(p, label) => Same
  BY <1>2 DEF Insert, TypeOK
<1>6. CASE Arrival(p)
  BY <1>4, <1>6 DEF Arrival, StartExchange, StartRefresh, StartRevoke, StartDelete
<1>7. CASE Abort(p) \/ LoseResponse(p) \/ Respond(p)
  BY <1>1, <1>7 DEF Abort, LoseResponse, Respond
<1>8. CASE ExchangeStep(p)
  BY <1>1, <1>2, <1>3, <1>5, <1>8 DEF ExchangeStep, Claim, ClaimMisses, UnknownCode,
     ReplayedCode, RejectBindings, IssueFirst, IssueNoRefreshToken, CommitExchange, TypeOK
<1>9. CASE RefreshStep(p)
  BY <1>1, <1>2, <1>3, <1>5, <1>9 DEF RefreshStep, LockToken, UnknownToken, RefuseRefresh,
     ReplayedToken, StartRevokingFamily, Rotate, CommitRefresh, TypeOK
<1>10. CASE RevokeStep(p)
  BY <1>1, <1>2, <1>3, <1>10 DEF RevokeStep, FindNothingToRevoke, FindToRevoke, RevokeFamily,
     StartRevokingFamily, VisitRow, CommitRevocation, TypeOK
<1>11. CASE DeleteStep(p)
  BY <1>1, <1>2, <1>11 DEF DeleteStep, LockClient, ClientAlreadyDeleted, CascadeRow, CommitDelete,
     TypeOK
<1> QED BY <1>6, <1>7, <1>8, <1>9, <1>10, <1>11 DEF Handler

\* The request that takes the step.
LEMMA OwnAnswerKeeps ==
  ASSUME IInv, [Next]_vars, NEW p \in Request, AnswerHolds(p),
         Arrival(p) \/ Handler(p) \/ Abort(p) \/ LoseResponse(p)
  PROVE  AnswerHolds(p)'
<1>0. TypeOK /\ LabelsMatchRequests /\ LockedRowsHold /\ NewTokensAreFresh
  BY DEF IInv
<1>1. ASSUME Finish(p) PROVE AnswerHolds(p)'
  BY <1>0, <1>1 DEF Finish, Goto, TypeOK, AnswerHolds
<1>2. CASE Arrival(p)
  <2>1. PICK input, label :
          /\ Start(p, input, label)
          /\ \/ label = "claim" /\ input.op = "exchange"
             \/ label = "lock" /\ input.op = "refresh"
             \/ label = "find" /\ input.op = "revoke"
             \/ label = "delete"
    <3>1. CASE StartExchange(p)
      BY <3>1 DEF StartExchange
    <3>2. CASE StartRefresh(p)
      BY <3>2 DEF StartRefresh
    <3>3. CASE StartRevoke(p)
      BY <3>3 DEF StartRevoke
    <3>4. CASE StartDelete(p)
      BY <3>4 DEF StartDelete
    <3> QED BY <1>2, <3>1, <3>2, <3>3, <3>4 DEF Arrival
  <2> QED BY <1>0, <2>1 DEF Start, Goto, TypeOK, AnswerHolds
<1>3. CASE Abort(p) \/ LoseResponse(p) \/ Respond(p)
  BY <1>1, <1>3 DEF Abort, LoseResponse, Respond
\* Inside the transaction, before its end: the operation is still that of the label.
<1>4. ASSUME UNCHANGED req,
             \/ pc[p] \in {"claim", "claimed"} /\ pc'[p] \in {"missed", "claimed", "issued"}
             \/ pc[p] \in {"lock", "locked"} /\ pc'[p] \in {"locked", "rotated"}
             \/ pc[p] = "find" /\ pc'[p] = "found"
             \/ pc'[p] = "deleting"
      PROVE  AnswerHolds(p)'
  BY <1>4 DEF AnswerHolds
<1>5. ASSUME pc'[p] = "revoking", UNCHANGED <<req, codes, tokens>>, seen'[p] \subseteq StoredTokens,
             \/ pc[p] = "missed" /\ codes[req[p].code].state = "stored"
             \/ pc[p] \in {"locked", "found"}
      PROVE  AnswerHolds(p)'
  <2>1. pc[p] = "missed" => Spent(req[p].code)
    BY <1>0, <1>5 DEF LabelsMatchRequests, Spent
  <2> QED BY <1>5, <2>1 DEF AnswerHolds, Spent, StoredTokens
<1>6. CASE ExchangeStep(p)
  <2>1. CASE Claim(p) \/ ClaimMisses(p) \/ IssueFirst(p) \/ IssueNoRefreshToken(p)
    BY <1>0, <1>4, <2>1 DEF Claim, ClaimMisses, IssueFirst, IssueNoRefreshToken, Insert, Goto, TypeOK
  <2>2. CASE UnknownCode(p)
    BY <1>1, <2>2 DEF UnknownCode
  <2>3. CASE ReplayedCode(p)
    <3>1. seen'[p] \subseteq StoredTokens
      BY <1>0, <2>3 DEF ReplayedCode, LiveInFamily, TypeOK
    <3> QED BY <1>0, <1>5, <2>3, <3>1 DEF ReplayedCode, Goto, TypeOK, store
  <2>4. CASE RejectBindings(p)
    <3>1. req[p].code \in StoredCodes /\ req'[p] = req[p] /\ pc'[p] = "refused"
      BY <1>0, <2>4 DEF RejectBindings, Committed, Goto, LockedRowsHold, TypeOK
    <3>2. codes[req[p].code] \in CodeRow /\ req[p].code \in Code
      BY <1>0, <3>1 DEF StoredCodes, TypeOK
    <3>3. /\ codes' = [codes EXCEPT ![req[p].code] = [codes[req[p].code] EXCEPT !.used = TRUE]]
          /\ codes[req[p].code].state = "stored"
      BY <2>4, <3>1 DEF RejectBindings, StoredCodes
    <3>4. Spent(req[p].code)'
      BY <1>0, <3>1, <3>2, <3>3 DEF Spent, CodeRow, TypeOK
    <3> QED BY <3>1, <3>4 DEF AnswerHolds, Spent
  <2>5. CASE CommitExchange(p)
    <3>1. pc'[p] = "granted" /\ new'[p] = new[p]
      BY <1>0, <2>5 DEF CommitExchange, Committed, Goto, TypeOK
    <3>2. new[p] # None => tokens'[new[p]].state = "stored"
      BY <1>0, <2>5 DEF CommitExchange, FirstToken, TypeOK
    <3> QED BY <3>1, <3>2 DEF AnswerHolds
  <2> QED BY <1>6, <2>1, <2>2, <2>3, <2>4, <2>5 DEF ExchangeStep
<1>7. CASE RefreshStep(p)
  <2>1. CASE LockToken(p) \/ Rotate(p)
    BY <1>0, <1>4, <2>1 DEF LockToken, Rotate, Insert, Goto, TypeOK
  <2>2. CASE UnknownToken(p) \/ RefuseRefresh(p)
    BY <1>1, <2>2 DEF UnknownToken, RefuseRefresh
  <2>3. CASE ReplayedToken(p)
    BY <1>0, <1>5, <2>3 DEF ReplayedToken, StartRevokingFamily, LiveInFamily, Goto, TypeOK, store
  <2>4. CASE CommitRefresh(p)
    <3>1. pc'[p] = "granted" /\ new'[p] = new[p]
      BY <1>0, <2>4 DEF CommitRefresh, Committed, Goto, TypeOK
    <3>2. tokens[req[p].token] \in TokenRow /\ tokens[req[p].token].state = "stored"
      BY <1>0, <2>4 DEF CommitRefresh, LockedRowsHold, StoredTokens, TypeOK
    <3>3. Successor(p).state = "stored"
      BY <3>2 DEF Successor, TokenRow
    <3>4. new[p] # None => tokens'[new[p]].state = "stored"
      BY <1>0, <2>4, <3>3 DEF CommitRefresh, TypeOK
    <3> QED BY <3>1, <3>4 DEF AnswerHolds
  <2> QED BY <1>7, <2>1, <2>2, <2>3, <2>4 DEF RefreshStep
<1>8. CASE RevokeStep(p)
  <2>1. CASE FindNothingToRevoke(p)
    BY <1>1, <2>1 DEF FindNothingToRevoke
  <2>2. CASE FindToRevoke(p)
    BY <1>0, <1>4, <2>2 DEF FindToRevoke, Goto, TypeOK
  <2>3. CASE RevokeFamily(p)
    BY <1>0, <1>5, <2>3 DEF RevokeFamily, StartRevokingFamily, LiveInFamily, Goto, TypeOK, store
  <2>4. ASSUME NEW t \in Token, VisitRow(p, t) PROVE AnswerHolds(p)'
    BY <2>4, AnswerIsStable DEF VisitRow
  <2>5. CASE CommitRevocation(p)
    <3>1. /\ pc[p] = "revoking" /\ pc'[p] = "revoked" /\ seen'[p] = seen[p] /\ req'[p] = req[p]
          /\ seen[p] \subseteq Token /\ UNCHANGED codes
      BY <1>0, <2>5 DEF CommitRevocation, Committed, Goto, TypeOK
    <3>2. ASSUME NEW t \in seen[p]
          PROVE  tokens'[t].state # "absent" /\ (tokens'[t].revoked \/ tokens'[t].state = "deleted")
      <4>1. tokens[t] \in TokenRow /\ tokens[t].state # "absent" /\ t \in Token
        BY <1>0, <3>1 DEF TypeOK, AnswerHolds
      <4>2. \/ tokens'[t] = [tokens[t] EXCEPT !.revoked = TRUE]
            \/ tokens'[t] = tokens[t] /\ tokens[t].state = "deleted"
        BY <2>5, <4>1 DEF CommitRevocation
      <4> QED BY <4>1, <4>2 DEF TokenRow
    <3> QED BY <3>1, <3>2 DEF AnswerHolds, Spent
  <2> QED BY <1>8, <2>1, <2>2, <2>3, <2>4, <2>5 DEF RevokeStep
<1>9. CASE DeleteStep(p)
  BY <1>0, <1>1, <1>4, <1>9 DEF DeleteStep, LockClient, ClientAlreadyDeleted, CascadeRow, CommitDelete,
     Goto, TypeOK
<1> QED BY <1>2, <1>3, <1>6, <1>7, <1>8, <1>9 DEF Handler

LEMMA AnswersHold ==
  ASSUME IInv, [Next]_vars, \A p \in Request : AnswerHolds(p)
  PROVE  \A p \in Request : AnswerHolds(p)'
<1> SUFFICES ASSUME NEW p \in Request PROVE AnswerHolds(p)'
  OBVIOUS
<1>1. CASE \E q \in Request : Arrival(q) \/ Handler(q) \/ Abort(q) \/ LoseResponse(q)
  <2>1. PICK q \in Request : Arrival(q) \/ Handler(q) \/ Abort(q) \/ LoseResponse(q)
    BY <1>1
  <2>2. CASE q = p
    BY <2>1, <2>2, OwnAnswerKeeps
  <2>3. CASE q # p
    BY <2>1, <2>3, OtherRequestsKeep, AnswerIsStable DEF IInv
  <2> QED BY <2>2, <2>3
<1>2. CASE UNCHANGED <<pc, req, new, seen>>
  BY <1>2, AnswerIsStable
<1> QED BY <1>1, <1>2 DEF Next, IssueCode, Expire, vars

---------------------------------------------------------------------------
(* The rows *)

\* A client is unregistered by the commit that deletes it.
LEMMA ClientWriters ==
  ASSUME [Next]_vars, clients' # clients
  PROVE  \E p \in Request : CommitDelete(p)
<1>1. ASSUME NEW p \in Request, Arrival(p) \/ Abort(p) \/ LoseResponse(p) \/ Respond(p)
      PROVE  FALSE
  BY <1>1 DEF Arrival, StartExchange, StartRefresh, StartRevoke, StartDelete, Start, store,
     Abort, LoseResponse, Respond
<1>2. ASSUME NEW p \in Request, ExchangeStep(p) \/ RefreshStep(p) \/ RevokeStep(p) PROVE FALSE
  BY <1>2 DEF ExchangeStep, Claim, ClaimMisses, UnknownCode, ReplayedCode, RejectBindings,
     IssueFirst, IssueNoRefreshToken, CommitExchange, RefreshStep, LockToken, UnknownToken,
     RefuseRefresh, ReplayedToken, StartRevokingFamily, Rotate, Insert, CommitRefresh, RevokeStep,
     FindNothingToRevoke, FindToRevoke, RevokeFamily, VisitRow, CommitRevocation, store
<1>3. ASSUME NEW p \in Request, DeleteStep(p) PROVE CommitDelete(p)
  BY <1>3 DEF DeleteStep, LockClient, ClientAlreadyDeleted, CascadeRow, store
<1> QED BY <1>1, <1>2, <1>3 DEF Next, Handler, IssueCode, Expire, vars

\* The rows of a deleted client go with it; every other new row belongs to the
\* client of a row, or to one that is registered.
LEMMA ClientsKeepTheirRows ==
  ASSUME IInv, IInv', [Next]_vars, NothingOutlivesItsClient
  PROVE  NothingOutlivesItsClient'
<1>0. TypeOK /\ LockedRowsHold /\ NewTokensAreFresh
  BY DEF IInv
<1>1. ASSUME NEW p \in Request, CommitDelete(p) PROVE NothingOutlivesItsClient'
  <2> DEFINE cl == req[p].client
  <2>1. ASSUME NEW t \in StoredTokens' PROVE t \in StoredTokens /\ tokens'[t].client \in clients \ {cl}
    <3>1. t \in Token /\ t \notin RowsOfClient(cl) /\ tokens'[t] = tokens[t]
      BY <1>1, <2>1 DEF CommitDelete, StoredTokens, NoToken
    <3>2. t \in StoredTokens
      BY <2>1, <3>1 DEF StoredTokens
    <3> QED BY <3>1, <3>2 DEF RowsOfClient, NothingOutlivesItsClient
  <2>2. ASSUME NEW c \in StoredCodes' PROVE codes'[c].client \in clients \ {cl}
    <3>1. c \in Code /\ c \notin RowsOfClient(cl) /\ codes'[c] = codes[c]
      BY <1>1, <2>2 DEF CommitDelete, StoredCodes, NoCode
    <3>2. c \in StoredCodes
      BY <2>2, <3>1 DEF StoredCodes
    <3> QED BY <3>1, <3>2 DEF RowsOfClient, NothingOutlivesItsClient
  <2> QED BY <1>1, <2>1, <2>2 DEF CommitDelete, NothingOutlivesItsClient
<1>2. ASSUME UNCHANGED clients,
             \A c \in StoredCodes' : codes'[c].client \in clients,
             \A t \in StoredTokens' : tokens'[t].client \in clients
      PROVE  NothingOutlivesItsClient'
  BY <1>2 DEF NothingOutlivesItsClient
<1>3. ASSUME UNCHANGED clients, UNCHANGED <<codes, tokens>> PROVE NothingOutlivesItsClient'
  BY <1>3 DEF NothingOutlivesItsClient, StoredCodes, StoredTokens
<1>4. ASSUME NEW c \in Code, IssueCode(c) PROVE NothingOutlivesItsClient'
  BY <1>0, <1>4 DEF IssueCode, TypeOK, NothingOutlivesItsClient, StoredCodes, StoredTokens
<1>5. ASSUME NEW p \in Request, RejectBindings(p) \/ CommitExchange(p)
      PROVE  \A c \in StoredCodes' : c \in StoredCodes /\ codes'[c].client = codes[c].client
  <2>1. PICK d : codes' = [codes EXCEPT ![d] = [codes[d] EXCEPT !.used = TRUE]]
    BY <1>5 DEF CommitExchange, RejectBindings
  <2> QED BY <1>0, <2>1 DEF StoredCodes, TypeOK, CodeRow
<1>6. ASSUME NEW p \in Request, RejectBindings(p) PROVE NothingOutlivesItsClient'
  BY <1>2, <1>5, <1>6 DEF RejectBindings, NothingOutlivesItsClient, StoredTokens
<1>7. ASSUME NEW p \in Request, CommitExchange(p) PROVE NothingOutlivesItsClient'
  <2>1. req[p].client \in clients
    BY <1>0, <1>7 DEF CommitExchange, LockedRowsHold, NothingOutlivesItsClient, StoredCodes
  <2>2. ASSUME NEW t \in StoredTokens' PROVE tokens'[t].client \in clients
    <3>1. CASE t = new[p]
      BY <1>7, <2>1, <2>2, <3>1 DEF CommitExchange, FirstToken, StoredTokens
    <3>2. CASE t # new[p]
      BY <1>7, <2>2, <3>2 DEF CommitExchange, StoredTokens, NothingOutlivesItsClient
    <3> QED BY <3>1, <3>2
  <2> QED BY <1>2, <1>5, <1>7, <2>2 DEF CommitExchange, NothingOutlivesItsClient
<1>8. ASSUME NEW p \in Request, CommitRefresh(p) \/ CommitRevocation(p) PROVE NothingOutlivesItsClient'
  <2>1. ASSUME NEW t \in StoredTokens' PROVE tokens'[t].client \in clients
    <3>1. t \in Token /\ tokens[t] \in TokenRow /\ tokens'[t].state = "stored"
      BY <1>0, <2>1 DEF StoredTokens, TypeOK
    <3>2. CASE CommitRevocation(p)
      <4>1. tokens'[t] \in {tokens[t], [tokens[t] EXCEPT !.revoked = TRUE]}
        BY <3>1, <3>2 DEF CommitRevocation
      <4>2. tokens'[t].client = tokens[t].client /\ tokens[t].state = "stored"
        BY <3>1, <4>1 DEF TokenRow
      <4> QED BY <3>1, <4>2 DEF StoredTokens, NothingOutlivesItsClient
    <3>3. CASE CommitRefresh(p)
      <4>1. req[p].token \in StoredTokens /\ tokens[req[p].token] \in TokenRow
        BY <1>0, <3>3 DEF CommitRefresh, LockedRowsHold, StoredTokens, TypeOK
      <4>2. Successor(p).client = tokens[req[p].token].client
        BY <4>1 DEF Successor, TokenRow
      <4>3. \/ tokens'[t] = Successor(p)
            \/ tokens'[t] \in {tokens[t], [tokens[t] EXCEPT !.next = new[p]]}
        BY <3>1, <3>3 DEF CommitRefresh
      <4>4. tokens'[t] # Successor(p) =>
              tokens'[t].client = tokens[t].client /\ tokens[t].state = "stored"
        BY <3>1, <4>3 DEF TokenRow
      <4> QED BY <3>1, <4>1, <4>2, <4>3, <4>4 DEF StoredTokens, NothingOutlivesItsClient
    <3> QED BY <1>8, <3>2, <3>3
  <2> QED BY <1>2, <1>8, <2>1 DEF CommitRefresh, CommitRevocation, NothingOutlivesItsClient, StoredCodes
<1>9. UNCHANGED clients \/ \E p \in Request : CommitDelete(p)
  BY ClientWriters
<1>10. CASE \E p \in Request : CommitDelete(p)
  BY <1>1, <1>10
<1>11. CASE UNCHANGED clients
  BY <1>3, <1>4, <1>6, <1>7, <1>8, <1>10, <1>11, RowWriters
<1> QED BY <1>9, <1>10, <1>11

\* A revocation changes no link, and a deletion takes both ends of one.
LEMMA LinesAreKept ==
  ASSUME IInv, FamilyIsALine, NEW p \in Request,
         CommitExchange(p) \/ CommitRevocation(p) \/ CommitDelete(p)
  PROVE  FamilyIsALine'
<1>0. TypeOK /\ NewTokensAreFresh
  BY DEF IInv
<1> DEFINE Same(t) ==
      /\ t \in StoredTokens
      /\ tokens'[t].next = tokens[t].next /\ tokens'[t].family = tokens[t].family
      /\ tokens'[t].code = tokens[t].code /\ tokens'[t].client = tokens[t].client
<1>1. CASE CommitExchange(p)
  <2>1. \A t \in Token : t # new[p] => tokens'[t] = tokens[t]
    BY <1>1 DEF CommitExchange
  <2>2. new[p] \in Token =>
          /\ tokens'[new[p]].next = None /\ tokens[new[p]].state = "absent"
    BY <1>0, <1>1, RowsAreDistinct DEF CommitExchange, FirstToken, NewTokensAreFresh
  <2>3. ASSUME NEW t \in StoredTokens', tokens'[t].next # None
        PROVE  t # new[p] /\ t \in StoredTokens /\ tokens'[t] = tokens[t]
    BY <2>1, <2>2, <2>3 DEF StoredTokens
  <2>4. \A u \in StoredTokens : u \in StoredTokens' /\ tokens'[u] = tokens[u]
    BY <2>1, <2>2 DEF StoredTokens
  <2> QED BY <2>3, <2>4 DEF FamilyIsALine
<1>2. CASE CommitRevocation(p)
  <2>1. \A t \in Token : tokens'[t] \in {tokens[t], [tokens[t] EXCEPT !.revoked = TRUE]}
    BY <1>2 DEF CommitRevocation
  <2>2. \A t \in Token : tokens[t] \in TokenRow
    BY <1>0 DEF TypeOK
  <2>3. \A t \in Token :
          /\ tokens'[t].state = tokens[t].state
          /\ tokens'[t].next = tokens[t].next /\ tokens'[t].family = tokens[t].family
          /\ tokens'[t].code = tokens[t].code /\ tokens'[t].client = tokens[t].client
    BY <2>1, <2>2 DEF TokenRow
  <2>4. StoredTokens' = StoredTokens /\ StoredTokens \subseteq Token
    BY <2>3 DEF StoredTokens
  <2> QED BY <2>3, <2>4 DEF FamilyIsALine
<1>3. CASE CommitDelete(p)
  <2> DEFINE cl == req[p].client
  <2>1. ASSUME NEW t \in StoredTokens'
        PROVE  t \in StoredTokens /\ tokens'[t] = tokens[t] /\ tokens[t].client # cl
    <3>1. t \in Token /\ t \notin RowsOfClient(cl) /\ tokens'[t] = tokens[t]
      BY <1>3, <2>1 DEF CommitDelete, StoredTokens, NoToken
    <3>2. t \in StoredTokens
      BY <2>1, <3>1 DEF StoredTokens
    <3> QED BY <3>1, <3>2 DEF RowsOfClient
  <2>2. ASSUME NEW u \in StoredTokens, tokens[u].client # cl
        PROVE  u \in StoredTokens' /\ tokens'[u] = tokens[u]
    <3>1. u \notin RowsOfClient(cl)
      BY <2>2, RowsAreDistinct DEF RowsOfClient, StoredTokens, StoredCodes
    <3> QED BY <1>3, <2>2, <3>1 DEF CommitDelete, StoredTokens
  <2> QED BY <2>1, <2>2 DEF FamilyIsALine
<1> QED BY <1>1, <1>2, <1>3

\* A rotation appends its token to the end of the line: the token had no
\* successor, and no token names an id that was not in the table.
LEMMA LinesGrow ==
  ASSUME IInv, FamilyIsALine, NEW p \in Request, CommitRefresh(p)
  PROVE  FamilyIsALine'
<1> DEFINE r == req[p].token
           n == new[p]
<1>0. TypeOK /\ LockedRowsHold /\ NewTokensAreFresh /\ StoredTokensAreRooted
  BY DEF IInv
<1>1. /\ r \in StoredTokens /\ tokens[r].next = None /\ r \in Token /\ tokens[r] \in TokenRow
      /\ n \in Token /\ n # None /\ tokens[n].state = "absent" /\ n # r
  BY <1>0 DEF CommitRefresh, LockedRowsHold, NewTokensAreFresh, Live, StoredTokens, TypeOK
<1>2. /\ tokens'[n].state = "stored" /\ tokens'[n].next = None
      /\ tokens'[n].family = tokens[r].family
      /\ tokens'[n].code = tokens[r].code /\ tokens'[n].client = tokens[r].client
  BY <1>1 DEF CommitRefresh, Successor, TokenRow, StoredTokens
<1>3. /\ tokens'[r].state = "stored" /\ tokens'[r].next = n
      /\ tokens'[r].family = tokens[r].family
      /\ tokens'[r].code = tokens[r].code /\ tokens'[r].client = tokens[r].client
  BY <1>1 DEF CommitRefresh, TokenRow, StoredTokens
<1>4. \A t \in Token \ {r, n} : tokens'[t] = tokens[t]
  BY DEF CommitRefresh
<1>5. StoredTokens' = StoredTokens \cup {n} /\ StoredTokens \subseteq Token /\ n \notin StoredTokens
  BY <1>1, <1>2, <1>3, <1>4 DEF StoredTokens
<1>6. tokens[r].family # n
  BY <1>0, <1>1 DEF StoredTokensAreRooted
<1>7. \A t \in StoredTokens : tokens[t].next # None => tokens[t].next \in StoredTokens
  BY DEF FamilyIsALine
<1>8. \A t \in StoredTokens :
        /\ tokens'[t].family = tokens[t].family
        /\ tokens'[t].code = tokens[t].code /\ tokens'[t].client = tokens[t].client
        /\ tokens'[t].next = IF t = r THEN n ELSE tokens[t].next
  BY <1>3, <1>4, <1>5
<1>9. ASSUME NEW t \in StoredTokens', tokens'[t].next # None
      PROVE  LET u == tokens'[t].next IN
             /\ u \in StoredTokens' /\ u # tokens'[u].family
             /\ tokens'[u].family = tokens'[t].family
             /\ tokens'[u].code = tokens'[t].code /\ tokens'[u].client = tokens'[t].client
  <2>1. CASE t = r
    BY <1>2, <1>3, <1>5, <1>6, <2>1
  <2>2. CASE t # r
    <3>1. t \in StoredTokens /\ tokens'[t].next = tokens[t].next
      BY <1>2, <1>5, <1>8, <1>9, <2>2
    <3> QED BY <1>5, <1>8, <1>9, <3>1 DEF FamilyIsALine
  <2> QED BY <2>1, <2>2
<1>10. ASSUME NEW t \in StoredTokens', NEW v \in StoredTokens' \ {t}, tokens'[t].next # None
       PROVE  tokens'[v].next # tokens'[t].next
  <2>1. t \in StoredTokens
    BY <1>2, <1>5, <1>10
  <2>2. CASE v = n
    BY <1>2, <1>10, <2>2
  <2>3. CASE v # n
    BY <1>5, <1>7, <1>8, <1>10, <1>1, <2>1, <2>3 DEF FamilyIsALine
  <2> QED BY <2>2, <2>3
<1> QED BY <1>9, <1>10 DEF FamilyIsALine

LEMMA FamiliesStayLines ==
  ASSUME IInv, [Next]_vars, FamilyIsALine
  PROVE  FamilyIsALine'
<1>1. CASE UNCHANGED tokens
  BY <1>1 DEF FamilyIsALine, StoredTokens
<1> QED BY <1>1, TokenWriters, LinesAreKept, LinesGrow

\* An app is sent only what a granted request of its own has committed.
LEMMA DeliveriesAreStored ==
  ASSUME IInv, [Next]_vars, DeliveredTokensAreStored, \A p \in Request : AnswerHolds(p)
  PROVE  DeliveredTokensAreStored'
<1>1. delivered \subseteq Token /\ \A p \in Request : new[p] \in Token \cup {None}
  BY DEF IInv, TypeOK
<1>2. \A t \in Token : tokens[t].state # "absent" => tokens'[t].state # "absent"
  BY TokensStay
<1>3. ASSUME NEW p \in Request, Respond(p) PROVE DeliveredTokensAreStored'
  <2>1. new[p] # None => tokens[new[p]].state # "absent"
    BY <1>3 DEF Respond, AnswerHolds, IInv, NewTokensAreFresh
  <2> QED BY <1>1, <1>2, <1>3, <2>1 DEF Respond, DeliveredTokensAreStored
<1>4. ASSUME NEW p \in Request, Arrival(p) \/ Abort(p) \/ LoseResponse(p) PROVE UNCHANGED delivered
  BY <1>4 DEF Arrival, StartExchange, StartRefresh, StartRevoke, StartDelete, Start, store,
     Abort, LoseResponse
<1>5. ASSUME NEW p \in Request, ExchangeStep(p) \/ RefreshStep(p) \/ RevokeStep(p) \/ DeleteStep(p)
      PROVE  UNCHANGED delivered
  BY <1>5 DEF ExchangeStep, Claim, ClaimMisses, UnknownCode, ReplayedCode, RejectBindings,
     IssueFirst, IssueNoRefreshToken, CommitExchange, RefreshStep, LockToken, UnknownToken,
     RefuseRefresh, ReplayedToken, StartRevokingFamily, Rotate, Insert, CommitRefresh, RevokeStep,
     FindNothingToRevoke, FindToRevoke, RevokeFamily, VisitRow, CommitRevocation, DeleteStep,
     LockClient, ClientAlreadyDeleted, CascadeRow, CommitDelete, Committed, store
<1>6. UNCHANGED delivered => DeliveredTokensAreStored'
  BY <1>1, <1>2 DEF DeliveredTokensAreStored
<1> QED BY <1>3, <1>4, <1>5, <1>6 DEF Next, Handler, IssueCode, Expire, vars

---------------------------------------------------------------------------
(* The theorems *)

LEMMA InitRows == Init => GrantRowsInv
<1> SUFFICES ASSUME Init PROVE RowsHold /\ \A p \in Request : AnswerHolds(p)
  BY InitInv DEF GrantRowsInv
<1>1. StoredTokens = {} /\ StoredCodes = {}
  BY DEF Init, StoredTokens, StoredCodes, NoToken, NoCode
<1> QED BY <1>1 DEF Init, RowsHold, NothingOutlivesItsClient, FamilyIsALine,
     DeliveredTokensAreStored, AnswerHolds

LEMMA StepRows == GrantRowsInv /\ [Next]_vars => GrantRowsInv'
<1> SUFFICES ASSUME GrantRowsInv, [Next]_vars PROVE GrantRowsInv'
  OBVIOUS
<1>1. IInv'
  BY StepInv DEF GrantRowsInv
<1> QED BY <1>1, AnswersHold, ClientsKeepTheirRows, FamiliesStayLines, DeliveriesAreStored
     DEF GrantRowsInv, RowsHold

\* GrantRowsInv holds in every reachable state.
THEOREM RowsInvariance == Spec => []GrantRowsInv
BY InitRows, StepRows, PTL DEF Spec

\* Deleting an application leaves no code and no refresh token of it, also
\* none that a request was about to insert.
THEOREM DeletionIsComplete == Spec => []NothingOutlivesItsClient
<1>1. GrantRowsInv => NothingOutlivesItsClient
  BY DEF GrantRowsInv, RowsHold
<1> QED BY <1>1, RowsInvariance, PTL

\* Rotation forms one line in every family, whatever overlaps it.
THEOREM FamiliesAreLines == Spec => []FamilyIsALine
<1>1. GrantRowsInv => FamilyIsALine
  BY DEF GrantRowsInv, RowsHold
<1> QED BY <1>1, RowsInvariance, PTL

\* No response carries a token that was not committed.
THEOREM ResponsesFollowCommits == Spec => []DeliveredTokensAreStored
<1>1. GrantRowsInv => DeliveredTokensAreStored
  BY DEF GrantRowsInv, RowsHold
<1> QED BY <1>1, RowsInvariance, PTL

\* A refused or repeated redemption leaves the code spent for everyone.
THEOREM RefusalSpendsTheCode == Spec => []RefusedCodeIsSpent
<1>1. GrantRowsInv => RefusedCodeIsSpent
  BY DEF GrantRowsInv, AnswerHolds, Spent, RefusedCodeIsSpent
<1> QED BY <1>1, RowsInvariance, PTL

\* An answered revocation has reached all that its UPDATE saw.
THEOREM RevocationIsCarriedOut == Spec => []RevocationReachesItsSnapshot
<1>1. GrantRowsInv => RevocationReachesItsSnapshot
  BY DEF GrantRowsInv, AnswerHolds, RevocationReachesItsSnapshot
<1> QED BY <1>1, RowsInvariance, PTL

---------------------------------------------------------------------------
(* Access tokens *)

AccessTypes ==
  /\ carried \in [Request -> [code : Code \cup {None}, left : 0..Lifetime]]
  /\ access \in [Code -> 0..Lifetime]
  /\ ended \in [Code -> 0..Lifetime]

Redeeming == {"claim", "missed", "claimed", "issued"}
Refreshing == {"lock", "locked", "rotated"}

\* The access token a request will return is for the sign-in it works on.
Tracks(p) ==
  /\ pc[p] \in Redeeming => carried[p].code = req[p].code
  /\ pc[p] \in Refreshing =>
       /\ tokens[req[p].token].state # "absent"
       /\ tokens[req[p].token].state = "stored" => carried[p].code = tokens[req[p].token].code
  /\ pc[p] = "granted" =>
       carried[p].code \in Code /\ carried[p].left + ended[carried[p].code] <= Lifetime

Clocks(c) ==
  /\ ended[c] > 0 => PhaseOf(c) = "ended"
  /\ access[c] + ended[c] <= Lifetime

FadeInv ==
  /\ GrantRowsInv
  /\ AccessTypes
  /\ \A p \in Request : Tracks(p)
  /\ \A c \in Code : Clocks(c)

---------------------------------------------------------------------------
(* The token endpoint underneath *)

LEMMA AccessStepIsStep ==
  ASSUME [AccessNext]_allVars
  PROVE  [Next]_vars
<1>1. ASSUME NEW p \in Request, ReadClock(p) \/ Receive(p) PROVE Next
  BY <1>1 DEF ReadClock, Receive, Next, Arrival, Handler
<1>2. OtherStep => Next
  BY DEF OtherStep, Next, Arrival, Handler
<1>3. Tick \/ UNCHANGED allVars => UNCHANGED vars
  BY DEF Tick, allVars
<1> QED BY <1>1, <1>2, <1>3 DEF AccessNext

\* A grant that has ended is ended for good: the abstract ledger has no step
\* that brings it back.
LEMMA EndedIsForGood ==
  ASSUME IInv, IInv', [Next]_vars, NEW c \in Code, PhaseOf(c) = "ended"
  PROVE  PhaseOf(c)' = "ended"
<1> DEFINE phase == [d \in Code |-> PhaseOf(d)]
<1>1. phase[c] = "ended"
  OBVIOUS
<1>2. [Ledger!Next]_(Ledger!ledger)
  BY LedgerStep
<1>3. [d \in Code |-> PhaseOf(d)]'[c] = "ended"
  BY <1>1, <1>2 DEF Ledger!Next, Ledger!Open, Ledger!Redeem, Ledger!Rotate, Ledger!End, Ledger!ledger
<1> QED BY <1>3

\* The code of a stored token is the one it was issued for.
LEMMA CodesOfTokensStay ==
  ASSUME IInv, [Next]_vars, NEW t \in Token, tokens[t].state # "absent"
  PROVE  /\ tokens'[t].state # "absent"
         /\ tokens'[t].state = "stored" =>
              tokens[t].state = "stored" /\ tokens'[t].code = tokens[t].code
<1>1. tokens[t] \in TokenRow
  BY DEF IInv, TypeOK
<1>2. \/ tokens'[t] = tokens[t]
      \/ tokens'[t].state = "deleted"
      \/ tokens'[t] = [tokens[t] EXCEPT !.next = tokens'[t].next]
      \/ tokens'[t] = [tokens[t] EXCEPT !.revoked = TRUE]
  BY RowSteps DEF RowStep
<1> QED BY <1>1, <1>2 DEF TokenRow

\* How a step that reads no clock moves the request that takes it.
LEMMA LabelMoves ==
  ASSUME TypeOK, NEW p \in Request,
         \/ StartRevoke(p) \/ StartDelete(p) \/ Abort(p) \/ LoseResponse(p)
         \/ ExchangeStep(p) \/ RefreshStep(p) \/ RevokeStep(p) \/ DeleteStep(p)
         \/ pc[p] # "granted" /\ Respond(p)
  PROVE  \/ pc'[p] \notin Redeeming \cup Refreshing \cup {"granted"}
         \/ req'[p] = req[p] /\ pc[p] \in Redeeming /\ pc'[p] \in Redeeming
         \/ req'[p] = req[p] /\ pc[p] \in Refreshing /\ pc'[p] \in Refreshing
         \/ CommitExchange(p) /\ pc'[p] = "granted"
         \/ CommitRefresh(p) /\ pc'[p] = "granted"
<1> USE DEF Redeeming, Refreshing
<1>1. Finish(p) => pc'[p] = "idle"
  BY DEF Finish, Goto, TypeOK
<1>2. \A label : Goto(p, label) => pc'[p] = label
  BY DEF Goto, TypeOK
<1>3. \A label : Committed(p, label) => pc'[p] = label
  BY <1>2 DEF Committed
<1>4. CASE StartRevoke(p) \/ StartDelete(p)
  BY <1>2, <1>4 DEF StartRevoke, StartDelete, Start
<1>5. CASE Abort(p) \/ LoseResponse(p) \/ Respond(p)
  BY <1>1, <1>5 DEF Abort, LoseResponse, Respond
<1>6. CASE ExchangeStep(p)
  BY <1>1, <1>2, <1>3, <1>6 DEF ExchangeStep, Claim, ClaimMisses, UnknownCode, ReplayedCode,
     RejectBindings, IssueFirst, IssueNoRefreshToken, Insert, CommitExchange
<1>7. CASE RefreshStep(p)
  BY <1>1, <1>2, <1>3, <1>7 DEF RefreshStep, LockToken, UnknownToken, RefuseRefresh,
     ReplayedToken, StartRevokingFamily, Rotate, Insert, CommitRefresh
<1>8. CASE RevokeStep(p)
  BY <1>1, <1>2, <1>3, <1>8 DEF RevokeStep, FindNothingToRevoke, FindToRevoke, RevokeFamily,
     StartRevokingFamily, VisitRow, CommitRevocation
<1>9. CASE DeleteStep(p)
  BY <1>1, <1>2, <1>9 DEF DeleteStep, LockClient, ClientAlreadyDeleted, CascadeRow, CommitDelete
<1> QED BY <1>4, <1>5, <1>6, <1>7, <1>8, <1>9

\* A commit grants what has not ended: the code it spends is open, the token it
\* replaces is live.
LEMMA GrantsAreOpen ==
  ASSUME IInv, NEW p \in Request, CommitExchange(p) \/ CommitRefresh(p)
  PROVE  \/ /\ pc[p] \in Redeeming /\ req[p].code \in Code
            /\ PhaseOf(req[p].code) # "ended"
         \/ /\ pc[p] \in Refreshing /\ tokens[req[p].token].state = "stored"
            /\ tokens[req[p].token].code \in Code
            /\ PhaseOf(tokens[req[p].token].code) # "ended"
<1>1. CASE CommitExchange(p)
  <2>1. req[p].code \in StoredCodes /\ ~codes[req[p].code].used /\ pc[p] = "issued"
    BY <1>1 DEF CommitExchange, IInv, LockedRowsHold
  <2> QED BY <2>1 DEF PhaseOf, StoredCodes, Redeeming
<1>2. CASE CommitRefresh(p)
  <2>1. Live(req[p].token) /\ req[p].token \in StoredTokens /\ pc[p] = "rotated"
    BY <1>2 DEF CommitRefresh, IInv, LockedRowsHold
  <2> DEFINE c == tokens[req[p].token].code
  <2>2. c \in Code /\ tokens[req[p].token].state = "stored"
    BY <2>1 DEF IInv, StoredTokensAreRooted, StoredCodes, StoredTokens
  <2>3. LiveTokensOf(c) # {}
    BY <2>1 DEF LiveTokensOf, StoredTokens
  <2>4. PhaseOf(c) # "ended"
    BY <2>2, <2>3, Phases DEF PhasesAreKnown
  <2> QED BY <2>1, <2>2, <2>4 DEF Refreshing
<1> QED BY <1>1, <1>2

---------------------------------------------------------------------------
(* The invariant *)

LEMMA LaterIsEarlier ==
  ASSUME NEW n \in 0..Lifetime
  PROVE  Later(n) \in 0..Lifetime /\ (n = 0 => Later(n) = 0) /\ (n > 0 => Later(n) = n - 1)
BY LifetimeIsPositive DEF Later

\* Time takes from a token what it adds to the clock of its grant.
LEMMA TickKeeps ==
  ASSUME FadeInv, Tick
  PROVE  AccessTypes' /\ (\A p \in Request : Tracks(p)') /\ (\A c \in Code : Clocks(c)')
<1>0. AccessTypes /\ (\A p \in Request : Tracks(p)) /\ (\A c \in Code : Clocks(c)) /\ TypeOK
  BY DEF FadeInv, GrantRowsInv, IInv
<1>1. \A p \in Request : carried'[p] = [carried[p] EXCEPT !.left = Later(carried[p].left)]
  BY DEF Tick
<1>2. \A p \in Request : /\ carried[p] \in [code : Code \cup {None}, left : 0..Lifetime]
                         /\ carried'[p].code = carried[p].code
                         /\ carried'[p].left = Later(carried[p].left)
  BY <1>0, <1>1 DEF AccessTypes
<1>3. \A c \in Code : /\ access[c] \in 0..Lifetime /\ access'[c] = Later(access[c])
                      /\ ended[c] \in 0..Lifetime
                      /\ ended'[c] = IF PhaseOf(c) = "ended" /\ ended[c] < Lifetime
                                     THEN ended[c] + 1 ELSE ended[c]
  BY <1>0 DEF Tick, AccessTypes
<1>4. \A c \in Code : ended'[c] \in 0..Lifetime
  BY <1>3, LifetimeIsPositive
<1>5. carried' \in [Request -> [code : Code \cup {None}, left : 0..Lifetime]]
  <2>1. ASSUME NEW p \in Request PROVE carried'[p] \in [code : Code \cup {None}, left : 0..Lifetime]
    BY <1>1, <1>2, LaterIsEarlier
  <2>2. carried' = [p \in Request |-> carried'[p]]
    BY DEF Tick
  <2> QED BY <2>1, <2>2
<1>6. access' \in [Code -> 0..Lifetime] /\ ended' \in [Code -> 0..Lifetime]
  BY <1>3, <1>4, LaterIsEarlier DEF Tick
<1>7. ASSUME NEW p \in Request PROVE Tracks(p)'
  <2>1. UNCHANGED <<pc, req, tokens>>
    BY DEF Tick, vars
  <2>2. ASSUME pc[p] = "granted"
        PROVE  /\ carried'[p].code \in Code
               /\ carried'[p].left + ended'[carried'[p].code] <= Lifetime
    <3> DEFINE c == carried[p].code
    <3>1. c \in Code /\ carried[p].left + ended[c] <= Lifetime /\ carried[p].left \in 0..Lifetime
      BY <1>0, <1>2, <2>2 DEF Tracks
    <3>2. ended'[c] \in {ended[c], ended[c] + 1} /\ ended'[c] \in 0..Lifetime /\ ended[c] \in 0..Lifetime
      BY <1>3, <1>4, <3>1
    <3>3. carried'[p].left + ended'[c] <= Lifetime
      BY <1>2, <3>1, <3>2, LaterIsEarlier, LifetimeIsPositive
    <3> QED BY <1>2, <3>1, <3>3
  <2> QED BY <1>0, <1>2, <2>1, <2>2 DEF Tracks
<1>8. ASSUME NEW c \in Code PROVE Clocks(c)'
  <2>1. PhaseOf(c)' = PhaseOf(c)
    BY DEF Tick, vars, PhaseOf, LiveTokensOf, Live, StoredTokens
  <2>2. ended'[c] > 0 => PhaseOf(c) = "ended"
    BY <1>0, <1>3 DEF Clocks
  <2>3. access'[c] + ended'[c] <= Lifetime
    BY <1>0, <1>3, <1>4, LaterIsEarlier, LifetimeIsPositive DEF Clocks
  <2> QED BY <2>1, <2>2, <2>3 DEF Clocks
<1> QED BY <1>5, <1>6, <1>7, <1>8 DEF AccessTypes

\* A step that leaves the clocks of the grants alone keeps the phases they count.
LEMMA ClocksStand ==
  ASSUME FadeInv, IInv', [Next]_vars, NEW c \in Code, UNCHANGED ended,
         access'[c] + ended[c] <= Lifetime
  PROVE  Clocks(c)'
BY EndedIsForGood DEF FadeInv, GrantRowsInv, Clocks

\* A request that does not move carries what it carried.
LEMMA TracksIsStable ==
  ASSUME FadeInv, [Next]_vars, NEW p \in Request, req'[p] = req[p], UNCHANGED ended,
         \/ pc'[p] = pc[p]
         \/ pc[p] \in Redeeming /\ pc'[p] \in Redeeming
         \/ pc[p] \in Refreshing /\ pc'[p] \in Refreshing,
         carried'[p] = carried[p]
  PROVE  Tracks(p)'
<1>1. pc[p] \in Refreshing => req[p].token \in Token /\ tokens[req[p].token].state # "absent"
  BY DEF FadeInv, GrantRowsInv, IInv, LabelsMatchRequests, Refreshing, Tracks
<1>2. pc[p] \in Refreshing =>
        /\ tokens'[req[p].token].state # "absent"
        /\ tokens'[req[p].token].state = "stored" =>
             /\ tokens[req[p].token].state = "stored"
             /\ tokens'[req[p].token].code = tokens[req[p].token].code
  BY <1>1, CodesOfTokensStay DEF FadeInv, GrantRowsInv
<1> QED BY <1>2 DEF FadeInv, Tracks, Redeeming, Refreshing

LEMMA ReadClockKeeps ==
  ASSUME FadeInv, IInv', [Next]_vars, NEW p \in Request, ReadClock(p)
  PROVE  AccessTypes' /\ (\A q \in Request : Tracks(q)') /\ (\A c \in Code : Clocks(c)')
<1>0. /\ TypeOK /\ AccessTypes /\ DeliveredTokensAreStored /\ IInv
      /\ \A q \in Request : Tracks(q)
  BY DEF FadeInv, GrantRowsInv, IInv, RowsHold
<1> DEFINE fresh == [code |-> IF req'[p].op = "exchange" THEN req'[p].code
                              ELSE tokens[req'[p].token].code,
                     left |-> Lifetime]
<1>1. carried' = [carried EXCEPT ![p] = fresh] /\ UNCHANGED <<access, ended, codes, tokens>>
  BY DEF ReadClock, StartExchange, StartRefresh, Start, store
<1>2. \/ pc'[p] = "claim" /\ req'[p].op = "exchange" /\ req'[p].code \in Code
      \/ /\ pc'[p] = "lock" /\ req'[p].op = "refresh" /\ req'[p].token \in delivered
         /\ tokens[req'[p].token] \in TokenRow
  <2>1. CASE StartExchange(p)
    BY <1>0, <2>1 DEF StartExchange, Start, Goto, TypeOK
  <2>2. CASE StartRefresh(p)
    BY <1>0, <2>2 DEF StartRefresh, Start, Goto, TypeOK
  <2> QED BY <2>1, <2>2 DEF ReadClock
<1>3. fresh \in [code : Code \cup {None}, left : 0..Lifetime]
  BY <1>2, LifetimeIsPositive DEF TokenRow
<1>4. AccessTypes'
  BY <1>0, <1>1, <1>3 DEF AccessTypes
<1>5. Tracks(p)'
  <2>1. carried'[p] = fresh
    BY <1>0, <1>1 DEF AccessTypes
  <2>2. CASE pc'[p] = "claim"
    BY <1>2, <2>1, <2>2 DEF Tracks, Redeeming, Refreshing
  <2>3. CASE pc'[p] = "lock"
    BY <1>0, <1>1, <1>2, <2>1, <2>3 DEF Tracks, Redeeming, Refreshing, DeliveredTokensAreStored
  <2> QED BY <1>2, <2>2, <2>3
<1>6. ASSUME NEW q \in Request, q # p PROVE Tracks(q)'
  <2>1. pc'[q] = pc[q] /\ req'[q] = req[q]
    BY <1>0, <1>6, OtherRequestsKeep DEF ReadClock, Arrival
  <2>2. carried'[q] = carried[q]
    BY <1>0, <1>1, <1>6 DEF AccessTypes
  <2> QED BY <1>1, <2>1, <2>2, TracksIsStable
<1>7. \A c \in Code : Clocks(c)'
  BY <1>1, ClocksStand DEF FadeInv, Clocks
<1> QED BY <1>4, <1>5, <1>6, <1>7

LEMMA ReceiveKeeps ==
  ASSUME FadeInv, IInv', [Next]_vars, NEW p \in Request, Receive(p)
  PROVE  AccessTypes' /\ (\A q \in Request : Tracks(q)') /\ (\A c \in Code : Clocks(c)')
<1>0. TypeOK /\ AccessTypes /\ Tracks(p) /\ \A c \in Code : Clocks(c)
  BY DEF FadeInv, GrantRowsInv, IInv
<1> DEFINE d == carried[p].code
           most == IF access[d] > carried[p].left THEN access[d] ELSE carried[p].left
<1>1. /\ access' = [access EXCEPT ![d] = most]
      /\ carried' = [carried EXCEPT ![p] = Nothing]
      /\ UNCHANGED ended
  BY DEF Receive
<1>2. d \in Code /\ carried[p].left + ended[d] <= Lifetime
  BY <1>0 DEF Receive, Tracks
<1>3. /\ most \in 0..Lifetime /\ access[d] \in 0..Lifetime /\ ended[d] \in 0..Lifetime
      /\ carried[p].left \in 0..Lifetime
  BY <1>0, <1>2 DEF AccessTypes
<1>4. most + ended[d] <= Lifetime
  BY <1>0, <1>2, <1>3 DEF Clocks
<1>5. AccessTypes'
  <2>1. Nothing \in [code : Code \cup {None}, left : 0..Lifetime]
    BY LifetimeIsPositive DEF Nothing
  <2> QED BY <1>0, <1>1, <1>3, <2>1 DEF AccessTypes
<1>6. ASSUME NEW c \in Code PROVE Clocks(c)'
  <2>1. access'[c] + ended[c] <= Lifetime
    BY <1>0, <1>1, <1>2, <1>4 DEF AccessTypes, Clocks
  <2> QED BY <1>1, <2>1, ClocksStand
<1>7. Tracks(p)'
  <2>1. pc'[p] = "idle"
    BY <1>0 DEF Receive, Respond, Finish, Goto, TypeOK
  <2> QED BY <2>1 DEF Tracks, Redeeming, Refreshing
<1>8. ASSUME NEW q \in Request, q # p PROVE Tracks(q)'
  <2>1. pc'[q] = pc[q] /\ req'[q] = req[q]
    BY <1>0, <1>8, OtherRequestsKeep DEF Receive, Handler
  <2>2. carried'[q] = carried[q]
    BY <1>0, <1>1, <1>8 DEF AccessTypes
  <2> QED BY <1>1, <2>1, <2>2, TracksIsStable
<1> QED BY <1>5, <1>6, <1>7, <1>8

LEMMA OtherStepKeeps ==
  ASSUME FadeInv, IInv', [Next]_vars, OtherStep, CarryOn
  PROVE  AccessTypes' /\ (\A q \in Request : Tracks(q)') /\ (\A c \in Code : Clocks(c)')
<1>0. /\ TypeOK /\ IInv /\ AccessTypes /\ (\A q \in Request : Tracks(q))
      /\ \A c \in Code : Clocks(c)
  BY DEF FadeInv, GrantRowsInv, IInv
<1>1. /\ \A q \in Request : carried'[q] = IF pc'[q] = "idle" THEN Nothing ELSE carried[q]
      /\ UNCHANGED <<access, ended>>
  BY DEF CarryOn
<1>2. AccessTypes'
  <2>1. Nothing \in [code : Code \cup {None}, left : 0..Lifetime]
    BY LifetimeIsPositive DEF Nothing
  <2>2. \A q \in Request : carried'[q] \in [code : Code \cup {None}, left : 0..Lifetime]
    BY <1>0, <1>1, <2>1 DEF AccessTypes
  <2>3. carried' = [q \in Request |-> carried'[q]]
    BY DEF CarryOn
  <2> QED BY <1>0, <1>1, <2>2, <2>3 DEF AccessTypes
<1>3. \A c \in Code : Clocks(c)'
  BY <1>0, <1>1, ClocksStand DEF Clocks
<1>4. ASSUME NEW q \in Request, pc'[q] = "idle" PROVE Tracks(q)'
  BY <1>4 DEF Tracks, Redeeming, Refreshing
<1>5. ASSUME NEW q \in Request, pc'[q] = pc[q], req'[q] = req[q] PROVE Tracks(q)'
  BY <1>1, <1>4, <1>5, TracksIsStable
<1>6. ASSUME NEW p \in Request,
             \/ StartRevoke(p) \/ StartDelete(p) \/ Abort(p) \/ LoseResponse(p)
             \/ ExchangeStep(p) \/ RefreshStep(p) \/ RevokeStep(p) \/ DeleteStep(p)
             \/ pc[p] # "granted" /\ Respond(p)
      PROVE  \A q \in Request : Tracks(q)'
  <2>1. Arrival(p) \/ Handler(p) \/ Abort(p) \/ LoseResponse(p)
    BY <1>6 DEF Arrival, Handler
  <2>2. ASSUME NEW q \in Request, q # p PROVE Tracks(q)'
    BY <1>0, <1>5, <2>1, <2>2, OtherRequestsKeep
  <2>3. Tracks(p)'
    <3>1. CASE pc'[p] \notin Redeeming \cup Refreshing \cup {"granted"}
      BY <3>1 DEF Tracks, Redeeming, Refreshing
    <3>2. CASE /\ req'[p] = req[p]
               /\ \/ pc[p] \in Redeeming /\ pc'[p] \in Redeeming
                  \/ pc[p] \in Refreshing /\ pc'[p] \in Refreshing
      <4>1. pc'[p] # "idle"
        BY <3>2 DEF Redeeming, Refreshing
      <4> QED BY <1>1, <3>2, <4>1, TracksIsStable
    <3>3. CASE (CommitExchange(p) \/ CommitRefresh(p)) /\ pc'[p] = "granted"
      <4> DEFINE c == carried[p].code
      <4>1. c \in Code /\ PhaseOf(c) # "ended"
        BY <1>0, <3>3, GrantsAreOpen DEF Tracks
      <4>2. ended[c] = 0 /\ carried[p].left \in 0..Lifetime
        BY <1>0, <4>1 DEF Clocks, AccessTypes
      <4>3. carried'[p] = carried[p] /\ ended' = ended
        BY <1>1, <3>3
      <4>4. carried[p].left + ended[c] <= Lifetime
        BY <4>2, LifetimeIsPositive
      <4>5. carried'[p].code \in Code /\ carried'[p].left + ended'[carried'[p].code] <= Lifetime
        BY <4>1, <4>3, <4>4
      <4>6. pc'[p] = "granted"
        BY <3>3
      <4> QED BY <4>5, <4>6 DEF Tracks, Redeeming, Refreshing
    <3> QED BY <1>0, <1>6, <3>1, <3>2, <3>3, LabelMoves
  <2> QED BY <2>2, <2>3
<1>7. ASSUME UNCHANGED <<pc, req>> PROVE \A q \in Request : Tracks(q)'
  BY <1>5, <1>7
<1>8. \A q \in Request : Tracks(q)'
  BY <1>6, <1>7 DEF OtherStep, IssueCode, Expire
<1> QED BY <1>2, <1>3, <1>8

LEMMA InitFade == AccessInit => FadeInv
<1> SUFFICES ASSUME AccessInit PROVE FadeInv
  OBVIOUS
<1>1. GrantRowsInv
  BY InitRows DEF AccessInit
<1>2. AccessTypes
  BY LifetimeIsPositive DEF AccessInit, AccessTypes, Nothing
<1>3. \A p \in Request : Tracks(p)
  BY DEF AccessInit, Init, Tracks, Redeeming, Refreshing
<1>4. \A c \in Code : Clocks(c)
  BY LifetimeIsPositive DEF AccessInit, Clocks
<1> QED BY <1>1, <1>2, <1>3, <1>4 DEF FadeInv

LEMMA StepFade == FadeInv /\ [AccessNext]_allVars => FadeInv'
<1> SUFFICES ASSUME FadeInv, [AccessNext]_allVars PROVE FadeInv'
  OBVIOUS
<1>1. [Next]_vars
  BY AccessStepIsStep
<1>2. GrantRowsInv' /\ IInv'
  BY <1>1, StepRows DEF FadeInv, GrantRowsInv
<1>3. ASSUME UNCHANGED allVars PROVE FadeInv'
  <2>1. UNCHANGED <<carried, access, ended>> /\ UNCHANGED vars
    BY <1>3 DEF allVars, accessVars
  <2>2. AccessTypes' /\ \A p \in Request : Tracks(p)'
    BY <2>1 DEF FadeInv, AccessTypes, Tracks, vars
  <2>3. \A c \in Code : Clocks(c)'
    BY <1>1, <1>2, <2>1, ClocksStand DEF FadeInv, Clocks
  <2> QED BY <1>2, <2>2, <2>3 DEF FadeInv
<1>4. CASE AccessNext
  BY <1>1, <1>2, <1>4, ReadClockKeeps, ReceiveKeeps, OtherStepKeeps, TickKeeps
     DEF AccessNext, FadeInv
<1> QED BY <1>3, <1>4

\* FadeInv holds in every reachable state.
THEOREM FadeInvariance == AccessSpec => []FadeInv
BY InitFade, StepFade, PTL DEF AccessSpec

\* Lifetime ticks after a sign-in has ended no app holds an access token of it
\* that is still good, not even one whose response was on its way at the time.
THEOREM AccessFades == AccessSpec => []EndedGrantsFade
<1>1. FadeInv => EndedGrantsFade
  BY LifetimeIsPositive DEF FadeInv, AccessTypes, Clocks, EndedGrantsFade, Accepted
<1> QED BY <1>1, FadeInvariance, PTL
=============================================================================
