------------------------ MODULE TokenEndpointProofs ------------------------
(***************************************************************************)
(* Theorems about TokenEndpoint, for every number of requests, clients,    *)
(* codes and tokens.                                                       *)
(*                                                                         *)
(* IInv is inductive: each action keeps its types (HandlerTypeOK,          *)
(* StepTypeOK) and its other conjuncts (the lemmas ...Keeps), which split  *)
(* into what holds of the open requests (RequestInv) and of the committed  *)
(* rows (RowInv).  The properties follow from IInv, the action properties  *)
(* from IInv and the four commits that write a token row.                  *)
(***************************************************************************)
EXTENDS TokenEndpoint, TLAPS

---------------------------------------------------------------------------
(* Types *)

\* The variables of one request are in their types after it ends.
LEMMA FinishTypes ==
  ASSUME TypeOK, NEW p \in Request, Finish(p)
  PROVE  /\ pc' \in [Request -> Label]
         /\ req' \in [Request -> Input]
         /\ held' \in [Request -> SUBSET (Client \cup Code \cup Token)]
         /\ new' \in [Request -> Token \cup {None}]
         /\ seen' \in [Request -> SUBSET Token]
BY DEF TypeOK, Finish, Goto, NoInput, Input, Operation, Label

LEMMA CommittedTypes ==
  ASSUME TypeOK, NEW p \in Request, NEW label \in Label, Committed(p, label)
  PROVE  /\ pc' \in [Request -> Label]
         /\ held' \in [Request -> SUBSET (Client \cup Code \cup Token)]
         /\ UNCHANGED <<req, new, seen, expired, delivered>>
BY DEF TypeOK, Committed, Goto

LEMMA GotoTypes ==
  ASSUME TypeOK, NEW p \in Request, NEW label \in Label, Goto(p, label)
  PROVE  pc' \in [Request -> Label]
BY DEF TypeOK, Goto

LEMMA LockTypes ==
  ASSUME TypeOK, NEW p \in Request, NEW r \in Client \cup Code \cup Token, Lock(p, r)
  PROVE  held' \in [Request -> SUBSET (Client \cup Code \cup Token)]
BY DEF TypeOK, Lock

LEMMA HandlerTypeOK ==
  ASSUME TypeOK, LabelsMatchRequests, NEW p \in Request, Handler(p)
  PROVE TypeOK'
<1> USE DEF Label
<1>1. CASE Claim(p)
  BY <1>1, GotoTypes, LockTypes DEF Claim, TypeOK, store, LabelsMatchRequests
<1>2. CASE ClaimMisses(p)
  BY <1>2, GotoTypes DEF ClaimMisses, TypeOK, store
<1>3. CASE UnknownCode(p)
  BY <1>3, FinishTypes DEF UnknownCode, TypeOK, store
<1>4. CASE ReplayedCode(p)
  BY <1>4, GotoTypes DEF ReplayedCode, TypeOK, store, LiveInFamily, StoredTokens
<1>5. CASE RejectBindings(p)
  BY <1>5, CommittedTypes DEF RejectBindings, TypeOK, CodeRow
<1>6. CASE IssueFirst(p)
  BY <1>6, GotoTypes DEF IssueFirst, Insert, TypeOK, store
<1>7. CASE IssueNoRefreshToken(p)
  BY <1>7, GotoTypes DEF IssueNoRefreshToken, TypeOK, store
<1>8. CASE CommitExchange(p)
  <2>1. req[p].code \in Code /\ req[p].client \in Client
    BY <1>8 DEF CommitExchange, LabelsMatchRequests
  <2>2. FirstToken(p) \in TokenRow
    BY <2>1 DEF FirstToken, TokenRow, States, TypeOK
  <2>3. codes' \in [Code -> CodeRow]
    <3>1. codes' = [codes EXCEPT ![req[p].code].used = TRUE]
      BY <1>8 DEF CommitExchange
    <3> QED BY <3>1, <2>1 DEF TypeOK, CodeRow, States
  <2>4. tokens' \in [Token -> TokenRow]
    BY <1>8, <2>2 DEF CommitExchange, TypeOK
  <2> QED BY <1>8, <2>3, <2>4, CommittedTypes DEF CommitExchange, TypeOK
<1>9. CASE LockToken(p)
  BY <1>9, GotoTypes, LockTypes DEF LockToken, TypeOK, store, LabelsMatchRequests
<1>10. CASE UnknownToken(p)
  BY <1>10, FinishTypes DEF UnknownToken, TypeOK, store
<1>11. CASE RefuseRefresh(p)
  BY <1>11, FinishTypes DEF RefuseRefresh, TypeOK, store
<1>12. CASE ReplayedToken(p) \/ RevokeFamily(p)
  BY <1>12, GotoTypes DEF ReplayedToken, RevokeFamily, StartRevokingFamily, TypeOK, store, LiveInFamily, StoredTokens
<1>13. CASE Rotate(p)
  BY <1>13, GotoTypes DEF Rotate, Insert, TypeOK, store
<1>14. CASE CommitRefresh(p)
  <2>1. req[p].token \in Token
    BY <1>14 DEF CommitRefresh, LabelsMatchRequests
  <2>2. Successor(p) \in TokenRow
    <3>1. tokens[req[p].token] \in TokenRow
      BY <2>1 DEF TypeOK
    <3>2. \A r \in TokenRow : [r EXCEPT !.revoked = FALSE, !.next = None] \in TokenRow
      BY DEF TokenRow
    <3> QED BY <3>1, <3>2 DEF Successor
  <2>3. \A t \in Token : [tokens[t] EXCEPT !.next = new[p]] \in TokenRow
    BY DEF TokenRow, TypeOK
  <2>4. \A t \in Token : tokens[t] \in TokenRow
    BY DEF TypeOK
  <2>5. tokens' \in [Token -> TokenRow]
    <3>1. ASSUME NEW t \in Token PROVE tokens'[t] \in TokenRow
      BY <1>14, <2>2, <2>3, <2>4 DEF CommitRefresh
    <3>2. tokens' = [t \in Token |-> tokens'[t]]
      BY <1>14 DEF CommitRefresh
    <3> QED BY <3>1, <3>2
  <2> QED BY <1>14, <2>5, CommittedTypes DEF CommitRefresh, TypeOK
<1>15. CASE FindNothingToRevoke(p)
  BY <1>15, FinishTypes DEF FindNothingToRevoke, TypeOK, store
<1>16. CASE FindToRevoke(p)
  BY <1>16, GotoTypes DEF FindToRevoke, TypeOK, store
<1>17. ASSUME NEW t \in Token, VisitRow(p, t) PROVE TypeOK'
  BY <1>17, LockTypes DEF VisitRow, TypeOK, store
<1>18. CASE CommitRevocation(p)
  <2>1. \A t \in Token : tokens[t] \in TokenRow /\ [tokens[t] EXCEPT !.revoked = TRUE] \in TokenRow
    BY DEF TypeOK, TokenRow
  <2>2. tokens' \in [Token -> TokenRow]
    <3>1. ASSUME NEW t \in Token PROVE tokens'[t] \in TokenRow
      BY <1>18, <2>1 DEF CommitRevocation
    <3>2. tokens' = [t \in Token |-> tokens'[t]]
      BY <1>18 DEF CommitRevocation
    <3> QED BY <3>1, <3>2
  <2> QED BY <1>18, <2>2, CommittedTypes DEF CommitRevocation, TypeOK
<1>19. CASE LockClient(p)
  BY <1>19, GotoTypes, LockTypes DEF LockClient, TypeOK, store
<1>20. CASE ClientAlreadyDeleted(p)
  BY <1>20, FinishTypes DEF ClientAlreadyDeleted, TypeOK, store
<1>21. ASSUME NEW r \in Code \cup Token, CascadeRow(p, r) PROVE TypeOK'
  BY <1>21, LockTypes DEF CascadeRow, TypeOK, store
<1>22. CASE CommitDelete(p)
  BY <1>22, FinishTypes DEF CommitDelete, TypeOK, CodeRow, TokenRow, States, NoCode, NoToken
<1>23. CASE Respond(p)
  BY <1>23, FinishTypes DEF Respond, TypeOK
<1> QED
  BY <1>1, <1>2, <1>3, <1>4, <1>5, <1>6, <1>7, <1>8, <1>9, <1>10, <1>11, <1>12, <1>13, <1>14, <1>15, <1>16, <1>17, <1>18, <1>19, <1>20, <1>21, <1>22, <1>23
  DEF Handler, ExchangeStep, RefreshStep, RevokeStep, DeleteStep
\* Every step keeps every variable in its type.
LEMMA StepTypeOK ==
  ASSUME TypeOK, LabelsMatchRequests, [Next]_vars
  PROVE  TypeOK'
<1>1. ASSUME NEW p \in Request, NEW input \in Input, NEW label \in Label, Start(p, input, label)
      PROVE  TypeOK'
  BY <1>1, GotoTypes DEF Start, TypeOK, store
<1>2. ASSUME NEW p \in Request, Arrival(p) PROVE TypeOK'
  <2>0. \A late \in BOOLEAN, cl \in Client :
          /\ \A c \in Code : [op |-> "exchange", client |-> cl, code |-> c,
                               token |-> None, late |-> late] \in Input
          /\ \A t \in Token : [op |-> "refresh", client |-> cl, code |-> None,
                                token |-> t, late |-> late] \in Input
    BY DEF Input, Operation
  <2>1. CASE StartExchange(p)
    <3>1. PICK cl \in clients, c \in Code :
            Start(p, [op |-> "exchange", client |-> cl, code |-> c,
                      token |-> None, late |-> c \in expired], "claim")
      BY <2>1 DEF StartExchange
    <3>2. (c \in expired) \in BOOLEAN
      OBVIOUS
    <3>3. cl \in Client
      BY DEF TypeOK
    <3>4. [op |-> "exchange", client |-> cl, code |-> c,
           token |-> None, late |-> c \in expired] \in Input
      BY <2>0, <3>2, <3>3, Zenon
    <3> QED BY <1>1, <3>1, <3>4 DEF Label
  <2>2. CASE StartRefresh(p)
    <3>1. PICK cl \in clients, t \in delivered :
            Start(p, [op |-> "refresh", client |-> cl, code |-> None,
                      token |-> t, late |-> t \in expired], "lock")
      BY <2>2 DEF StartRefresh
    <3>2. (t \in expired) \in BOOLEAN
      OBVIOUS
    <3>3. cl \in Client /\ t \in Token
      BY DEF TypeOK
    <3>4. [op |-> "refresh", client |-> cl, code |-> None,
           token |-> t, late |-> t \in expired] \in Input
      BY <2>0, <3>2, <3>3, Zenon
    <3> QED BY <1>1, <3>1, <3>4 DEF Label
  <2>3. CASE StartRevoke(p)
    BY <2>3, <1>1 DEF StartRevoke, Input, Operation, Label, TypeOK
  <2>4. CASE StartDelete(p)
    BY <2>4, <1>1 DEF StartDelete, Input, Operation, Label, TypeOK
  <2> QED BY <1>2, <2>1, <2>2, <2>3, <2>4 DEF Arrival
<1>3. ASSUME NEW p \in Request, Handler(p) PROVE TypeOK'
  BY <1>3, HandlerTypeOK
<1>6. ASSUME NEW p \in Request, LoseResponse(p) \/ Abort(p) PROVE TypeOK'
  BY <1>6, FinishTypes DEF LoseResponse, Abort, TypeOK, store
<1>7. ASSUME NEW c \in Code, IssueCode(c) PROVE TypeOK'
  BY <1>7 DEF IssueCode, TypeOK, CodeRow, States
<1>8. ASSUME NEW r \in Code \cup Token, Expire(r) PROVE TypeOK'
  BY <1>8 DEF Expire, TypeOK
<1>9. CASE UNCHANGED vars
  BY <1>9 DEF vars, TypeOK
<1> QED
  BY <1>2, <1>3,  <1>6, <1>7, <1>8, <1>9 DEF Next

---------------------------------------------------------------------------
(* Preservation *)

\* IInv in two halves: what it says of the open requests, and of the rows.
RequestInv ==
  LocksAreExclusive /\ LabelsMatchRequests /\ LockedRowsHold /\ NewTokensAreFresh

RowInv ==
  StoredTokensAreRooted /\ OneFamilyPerCode /\ OneLiveTokenPerFamily

LEMMA RowsUnchanged ==
  ASSUME RowInv, UNCHANGED <<codes, tokens>>
  PROVE  RowInv'
BY DEF RowInv, StoredTokensAreRooted, OneFamilyPerCode, OneLiveTokenPerFamily,
       StoredTokens, StoredCodes, Live

\* A request that ends gives up its locks and its uncommitted token.
LEMMA FinishKeeps ==
  ASSUME TypeOK, RequestInv, RowInv, NEW p \in Request, Finish(p), UNCHANGED <<codes, tokens>>
  PROVE  RequestInv' /\ RowInv'
<1>1. RowInv'
  BY RowsUnchanged
<1>2. /\ pc' = [pc EXCEPT ![p] = "idle"]
      /\ held' = [held EXCEPT ![p] = {}]
      /\ new' = [new EXCEPT ![p] = None]
      /\ \A q \in Request : q # p => req'[q] = req[q]
  BY DEF Finish, Goto, TypeOK
<1>3. LocksAreExclusive'
  BY <1>2 DEF RequestInv, LocksAreExclusive, TypeOK
<1>4. LabelsMatchRequests'
  BY <1>2 DEF RequestInv, LabelsMatchRequests, TypeOK
<1>5. LockedRowsHold'
  BY <1>2 DEF RequestInv, LockedRowsHold, TypeOK, StoredTokens, StoredCodes, Live
<1>6. NewTokensAreFresh'
  BY <1>2 DEF RequestInv, NewTokensAreFresh, TypeOK
<1> QED BY <1>1, <1>3, <1>4, <1>5, <1>6 DEF RequestInv

\* A statement that waits for one row and locks it.
LEMMA LockKeepsExclusive ==
  ASSUME TypeOK, LocksAreExclusive, NEW p \in Request, NEW r, Free(p, r), Lock(p, r)
  PROVE  /\ LocksAreExclusive'
         /\ \A q \in Request : held[q] \subseteq held'[q]
BY DEF TypeOK, LocksAreExclusive, Free, Lock

LEMMA StartKeeps ==
  ASSUME TypeOK, RequestInv, RowInv, NEW p \in Request, Arrival(p)
  PROVE  RequestInv' /\ RowInv'
<1>1. PICK input, label :
        /\ Start(p, input, label)
        /\ label \in {"claim", "lock", "find", "delete"}
        /\ input.client \in Client
        /\ label = "claim" => input.code \in Code /\ codes[input.code].state # "absent"
        /\ label \in {"lock", "find"} => input.token \in Token
  <2>1. CASE StartExchange(p)
    BY <2>1 DEF StartExchange, TypeOK
  <2>2. CASE StartRefresh(p)
    BY <2>2 DEF StartRefresh, TypeOK
  <2>3. CASE StartRevoke(p)
    BY <2>3 DEF StartRevoke, TypeOK
  <2>4. CASE StartDelete(p)
    BY <2>4 DEF StartDelete, TypeOK
  <2> QED BY <2>1, <2>2, <2>3, <2>4 DEF Arrival
<1>2. /\ pc' = [pc EXCEPT ![p] = label] /\ req' = [req EXCEPT ![p] = input]
      /\ UNCHANGED <<codes, tokens, held, new>> /\ pc[p] = "idle"
  BY <1>1 DEF Start, Goto, store
<1>3. RowInv' /\ LocksAreExclusive'
  BY <1>2, RowsUnchanged DEF RequestInv, LocksAreExclusive
<1>4. LabelsMatchRequests'
  BY <1>1, <1>2 DEF RequestInv, LabelsMatchRequests, TypeOK
<1>5. LockedRowsHold'
  BY <1>1, <1>2 DEF RequestInv, LockedRowsHold, TypeOK, StoredTokens, StoredCodes, Live
<1>6. NewTokensAreFresh'
  BY <1>1, <1>2 DEF RequestInv, NewTokensAreFresh, TypeOK
<1> QED BY <1>3, <1>4, <1>5, <1>6 DEF RequestInv

LEMMA EnvironmentKeeps ==
  ASSUME TypeOK, RequestInv, RowInv, 
         \/ \E c \in Code : IssueCode(c)
         \/ \E r \in Code \cup Token : Expire(r)
         \/ UNCHANGED vars
  PROVE  RequestInv' /\ RowInv'
<1>1. CASE UNCHANGED <<codes, tokens, pc, req, held, new>>
  BY <1>1, RowsUnchanged DEF RequestInv, LocksAreExclusive, LabelsMatchRequests,
     LockedRowsHold, NewTokensAreFresh, StoredTokens, StoredCodes, Live
<1>2. ASSUME NEW c \in Code, IssueCode(c) PROVE RequestInv' /\ RowInv'
  <2>1. /\ UNCHANGED <<tokens, pc, req, held, new>> /\ codes[c].state = "absent"
        /\ \A d \in Code : d # c => codes'[d] = codes[d]
        /\ StoredCodes \subseteq StoredCodes'
    BY <1>2 DEF IssueCode, TypeOK, StoredCodes
  <2>2. LocksAreExclusive' /\ NewTokensAreFresh'
    BY <2>1 DEF RequestInv, LocksAreExclusive, NewTokensAreFresh
  <2>3. LabelsMatchRequests'
    BY <2>1 DEF RequestInv, LabelsMatchRequests
  <2>4. LockedRowsHold'
    BY <2>1 DEF RequestInv, LockedRowsHold, StoredTokens, StoredCodes, Live
  <2>5. StoredTokensAreRooted'
    BY <2>1 DEF RowInv, StoredTokensAreRooted, StoredTokens, StoredCodes
  <2>6. OneFamilyPerCode' /\ OneLiveTokenPerFamily'
    BY <2>1 DEF RowInv, OneFamilyPerCode, OneLiveTokenPerFamily, StoredTokens, Live
  <2> QED BY <2>2, <2>3, <2>4, <2>5, <2>6 DEF RequestInv, RowInv
<1> QED BY <1>1, <1>2 DEF Expire, vars

\* The INSERT of a refresh token: its id is new to the tables and to every request.
LEMMA InsertKeeps ==
  ASSUME TypeOK, RequestInv, RowInv, NEW p \in Request,
         NEW label \in {"issued", "rotated"}, Insert(p, label), pc[p] \notin {"issued", "rotated", "granted"}
  PROVE  RowInv' /\ LocksAreExclusive' /\ NewTokensAreFresh'
<1>1. RowInv' /\ LocksAreExclusive'
  BY RowsUnchanged DEF Insert, store, RequestInv, LocksAreExclusive
<1>2. PICK t \in Token : Unissued(t) /\ new' = [new EXCEPT ![p] = t]
  BY DEF Insert
<1>3. /\ UNCHANGED tokens /\ pc' = [pc EXCEPT ![p] = label]
      /\ tokens[t].state = "absent" /\ \A q \in Request : new[q] # t
      /\ t # None
  BY <1>2, RowsAreDistinct DEF Insert, Goto, store, Unissued
<1>4. NewTokensAreFresh'
  BY <1>2, <1>3 DEF RequestInv, NewTokensAreFresh, TypeOK
<1> QED BY <1>1, <1>4

\* A commit ends the transaction of p and no other.  Requests other than p keep
\* what they rely on when the commit leaves their locked rows alone.
LEMMA CommittedKeeps ==
  ASSUME TypeOK, RequestInv, NEW p \in Request, NEW label \in {"granted", "refused", "revoked"},
         Committed(p, label),
         label # "granted" => pc[p] \notin {"issued", "rotated"},
         \A c \in Code \ held[p] : codes'[c] = codes[c],
         \A c \in Code : codes'[c].state = codes[c].state /\ (codes[c].used => codes'[c].used),
         \A t \in Token \ held[p] : t # new[p] => tokens'[t] = tokens[t],
         \A t \in Token : t # new[p] => tokens'[t].state = tokens[t].state,
         pc[p] \in {"claimed", "locked", "issued", "rotated", "revoking"}
  PROVE  RequestInv'
<1> USE DEF RequestInv
<1>1. /\ pc' = [pc EXCEPT ![p] = label] /\ held' = [held EXCEPT ![p] = {}]
      /\ UNCHANGED <<req, new>>
  BY DEF Committed, Goto
<1>2. LocksAreExclusive'
  BY <1>1 DEF LocksAreExclusive, TypeOK
<1>3. LabelsMatchRequests'
  BY <1>1 DEF LabelsMatchRequests, TypeOK
<1>4. \A q \in Request \ {p} :
        /\ held[q] \cap held[p] = {} /\ held'[q] = held[q] /\ pc'[q] = pc[q]
        /\ req'[q] = req[q] /\ new'[q] = new[q]
  BY <1>1 DEF LocksAreExclusive, TypeOK
<1>5. NewTokensAreFresh'
  <2>1. ASSUME NEW q \in Request, pc'[q] \in {"issued", "rotated"}, new'[q] # None
        PROVE  tokens'[new'[q]].state = "absent"
    <3>1. q # p /\ new[q] \in Token /\ new[q] # new[p]
      BY <1>1, <1>4, <2>1 DEF NewTokensAreFresh, TypeOK
    <3> QED BY <1>4, <2>1, <3>1 DEF NewTokensAreFresh
  <2>2. ASSUME NEW q \in Request, pc'[q] \notin {"issued", "rotated", "granted"}
        PROVE  new'[q] = None
    BY <1>1, <1>4, <2>2 DEF NewTokensAreFresh, TypeOK
  <2>3. \A q \in Request : pc'[q] = "rotated" => new'[q] # None
    BY <1>1, <1>4 DEF NewTokensAreFresh, TypeOK
  <2>4. \A q, q2 \in Request : new'[q] # None /\ new'[q2] = new'[q] => q = q2
    BY <1>1 DEF NewTokensAreFresh
  <2> QED BY <2>1, <2>2, <2>3, <2>4 DEF NewTokensAreFresh
<1>6. LockedRowsHold'
  <2> SUFFICES ASSUME NEW q \in Request \ {p}
               PROVE  /\ pc[q] \in {"claimed", "issued"} =>
                           /\ req[q].code \in held[q] \cap StoredCodes'
                           /\ ~codes'[req[q].code].used
                      /\ pc[q] = "issued" => codes'[req[q].code].client = req[q].client
                      /\ pc[q] \in {"locked", "rotated"} =>
                           req[q].token \in held[q] \cap StoredTokens'
                      /\ pc[q] = "rotated" =>
                           Live(req[q].token)' /\ tokens'[req[q].token].client = req[q].client
    BY <1>1, <1>4 DEF LockedRowsHold, TypeOK, Live, StoredTokens, StoredCodes
  <2>1. pc[q] \in {"claimed", "issued"} => codes'[req[q].code] = codes[req[q].code]
    BY <1>4 DEF LockedRowsHold, StoredCodes
  <2>2. pc[q] \in {"locked", "rotated"} =>
          tokens'[req[q].token] = tokens[req[q].token]
    <3> SUFFICES ASSUME pc[q] \in {"locked", "rotated"}
                 PROVE  tokens'[req[q].token] = tokens[req[q].token]
      OBVIOUS
    <3>1. req[q].token \in Token \ held[p] /\ tokens[req[q].token].state = "stored"
      BY <1>4 DEF LockedRowsHold, StoredTokens
    <3>2. req[q].token # new[p]
      BY <3>1, RowsAreDistinct DEF NewTokensAreFresh, TypeOK
    <3> QED BY <3>1, <3>2
  <2>3. /\ pc[q] \in {"claimed", "issued"} =>
             /\ req[q].code \in held[q] \cap StoredCodes'
             /\ ~codes'[req[q].code].used
        /\ pc[q] = "issued" => codes'[req[q].code].client = req[q].client
    BY <2>1 DEF LockedRowsHold, StoredCodes
  <2>4. /\ pc[q] \in {"locked", "rotated"} => req[q].token \in held[q] \cap StoredTokens'
        /\ pc[q] = "rotated" =>
             Live(req[q].token)' /\ tokens'[req[q].token].client = req[q].client
    <3>1. pc[q] \in {"locked", "rotated"} => req[q].token \in held[q] \cap StoredTokens
      BY DEF LockedRowsHold
    <3>2. pc[q] = "rotated" =>
            Live(req[q].token) /\ tokens[req[q].token].client = req[q].client
      BY DEF LockedRowsHold
    <3> QED BY <1>4, <2>2, <3>1, <3>2 DEF StoredTokens, Live
  <2> QED BY <2>3, <2>4
<1> QED BY <1>2, <1>3, <1>5, <1>6

\* The UPDATE of a revocation, or the cascade of a DELETE, locks its next row.
LEMMA LockingKeeps ==
  ASSUME TypeOK, RequestInv, RowInv, NEW p \in Request, NEW r, Free(p, r), Lock(p, r),
         UNCHANGED <<codes, tokens, pc, req, new>>
  PROVE  RequestInv' /\ RowInv'
<1>1. RowInv' /\ LocksAreExclusive' /\ \A q \in Request : held[q] \subseteq held'[q]
  BY RowsUnchanged, LockKeepsExclusive DEF RequestInv
<1>2. LabelsMatchRequests' /\ NewTokensAreFresh'
  BY DEF RequestInv, LabelsMatchRequests, NewTokensAreFresh
<1>3. LockedRowsHold'
  BY <1>1 DEF RequestInv, LockedRowsHold, StoredTokens, StoredCodes, Live
<1> QED BY <1>1, <1>2, <1>3 DEF RequestInv

\* The UPDATE of a revocation starts.
LEMMA RevokingKeeps ==
  ASSUME TypeOK, RequestInv, RowInv, NEW p \in Request, pc[p] \in {"locked", "found"},
         StartRevokingFamily(p)
  PROVE  RequestInv' /\ RowInv'
<1>1. /\ pc' = [pc EXCEPT ![p] = "revoking"] /\ UNCHANGED <<codes, tokens, req, held, new>>
  BY DEF StartRevokingFamily, Goto, store
<1>2. RowInv' /\ LocksAreExclusive'
  BY <1>1, RowsUnchanged DEF RequestInv, LocksAreExclusive
<1>3. LabelsMatchRequests' /\ NewTokensAreFresh'
  BY <1>1 DEF RequestInv, LabelsMatchRequests, NewTokensAreFresh, TypeOK
<1>4. LockedRowsHold'
  BY <1>1 DEF RequestInv, LockedRowsHold, TypeOK, StoredTokens, StoredCodes, Live
<1> QED BY <1>2, <1>3, <1>4 DEF RequestInv

LEMMA ExchangeKeeps ==
  ASSUME TypeOK, RequestInv, RowInv, NEW p \in Request, ExchangeStep(p)
  PROVE  RequestInv' /\ RowInv'
<1> USE DEF RequestInv, RowInv
<1>1. CASE Claim(p)
  <2>1. RowInv' /\ LocksAreExclusive'
    BY <1>1, RowsUnchanged, LockKeepsExclusive DEF Claim, store
  <2>2. LabelsMatchRequests' /\ NewTokensAreFresh'
    BY <1>1 DEF Claim, store, Goto, LabelsMatchRequests, NewTokensAreFresh, TypeOK
  <2>3. LockedRowsHold'
    BY <1>1 DEF Claim, store, Goto, Lock, LabelsMatchRequests, LockedRowsHold, TypeOK,
       StoredTokens, StoredCodes, Live
  <2> QED BY <2>1, <2>2, <2>3
<1>2. CASE ClaimMisses(p)
  <2>1. RowInv' /\ LocksAreExclusive'
    BY <1>2, RowsUnchanged DEF ClaimMisses, store, LocksAreExclusive
  <2>2. LabelsMatchRequests' /\ NewTokensAreFresh'
    BY <1>2 DEF ClaimMisses, store, Goto, LabelsMatchRequests, NewTokensAreFresh, TypeOK
  <2>3. LockedRowsHold'
    BY <1>2 DEF ClaimMisses, store, Goto, LockedRowsHold, TypeOK, StoredTokens, StoredCodes, Live
  <2> QED BY <2>1, <2>2, <2>3
<1>3. CASE UnknownCode(p)
  BY <1>3, FinishKeeps DEF UnknownCode, store
<1>4. CASE ReplayedCode(p)
  <2>1. RowInv' /\ LocksAreExclusive'
    BY <1>4, RowsUnchanged DEF ReplayedCode, store, LocksAreExclusive
  <2>2. LabelsMatchRequests' /\ NewTokensAreFresh'
    BY <1>4 DEF ReplayedCode, store, Goto, LabelsMatchRequests, NewTokensAreFresh, TypeOK
  <2>3. LockedRowsHold'
    BY <1>4 DEF ReplayedCode, store, Goto, LockedRowsHold, TypeOK, StoredTokens, StoredCodes, Live
  <2> QED BY <2>1, <2>2, <2>3
<1>5. CASE RejectBindings(p)
  <2>1. /\ req[p].code \in held[p] \cap StoredCodes /\ pc[p] = "claimed"
        /\ UNCHANGED tokens
        /\ codes' = [codes EXCEPT ![req[p].code] = [codes[req[p].code] EXCEPT !.used = TRUE]]
    BY <1>5 DEF RejectBindings, LockedRowsHold
  <2>2. \A c \in Code :
          /\ c # req[p].code => codes'[c] = codes[c]
          /\ codes'[c].state = codes[c].state /\ codes'[c].client = codes[c].client
          /\ codes[c].used => codes'[c].used
    BY <2>1 DEF TypeOK, CodeRow
  <2>3. RequestInv'
    BY <1>5, <2>1, <2>2, CommittedKeeps DEF RejectBindings
  <2>4. RowInv'
    BY <2>1, <2>2 DEF StoredTokensAreRooted, OneFamilyPerCode, OneLiveTokenPerFamily,
       StoredTokens, StoredCodes, Live
  <2> QED BY <2>3, <2>4
<1>6. CASE IssueFirst(p) \/ IssueNoRefreshToken(p)
  <2>1. RowInv' /\ LocksAreExclusive' /\ NewTokensAreFresh'
    <3>1. CASE IssueFirst(p)
      BY <3>1, InsertKeeps DEF IssueFirst
    <3>2. CASE IssueNoRefreshToken(p)
      <4>1. RowInv' /\ LocksAreExclusive'
        BY <3>2, RowsUnchanged DEF IssueNoRefreshToken, store, LocksAreExclusive
      <4>2. NewTokensAreFresh'
        BY <3>2 DEF IssueNoRefreshToken, store, Goto, NewTokensAreFresh, TypeOK
      <4> QED BY <4>1, <4>2
    <3> QED BY <1>6, <3>1, <3>2
  <2>2. /\ pc' = [pc EXCEPT ![p] = "issued"] /\ UNCHANGED <<codes, tokens, req, held>>
        /\ pc[p] = "claimed" /\ codes[req[p].code].client = req[p].client
    BY <1>6 DEF IssueFirst, IssueNoRefreshToken, Insert, Goto, store, BindingsHold
  <2>3. LabelsMatchRequests'
    BY <2>2 DEF LabelsMatchRequests, TypeOK
  <2>4. LockedRowsHold'
    BY <2>2 DEF LockedRowsHold, TypeOK, StoredTokens, StoredCodes, Live
  <2> QED BY <2>1, <2>3, <2>4
<1>7. CASE CommitExchange(p)
  <2> DEFINE c == req[p].code
  <2>1. /\ c \in held[p] \cap StoredCodes /\ ~codes[c].used
        /\ codes[c].client = req[p].client /\ pc[p] = "issued"
    BY <1>7 DEF CommitExchange, LockedRowsHold
  <2>2. codes' = [codes EXCEPT ![c] = [codes[c] EXCEPT !.used = TRUE]]
    BY <1>7 DEF CommitExchange
  <2>3. /\ \A d \in Code :
             /\ d # c => codes'[d] = codes[d]
             /\ codes'[d].state = codes[d].state /\ codes'[d].client = codes[d].client
             /\ codes[d].used => codes'[d].used
        /\ codes'[c].used
    BY <2>1, <2>2 DEF TypeOK, CodeRow, StoredCodes
  <2>4. /\ \A t \in Token : t # new[p] => tokens'[t] = tokens[t]
        /\ new[p] \in Token =>
             tokens[new[p]].state = "absent" /\ tokens'[new[p]] = FirstToken(p)
    <3>1. tokens' = [t \in Token |-> IF t = new[p] THEN FirstToken(p) ELSE tokens[t]]
      BY <1>7 DEF CommitExchange
    <3> QED BY <2>1, <3>1, RowsAreDistinct DEF NewTokensAreFresh
  <2>5. RequestInv'
    BY <1>7, <2>1, <2>3, <2>4, CommittedKeeps DEF CommitExchange
  <2>6. \A t \in StoredTokens' : \/ t \in StoredTokens /\ t # new[p] /\ tokens'[t] = tokens[t]
                                 \/ t = new[p] /\ new[p] \in Token
    BY <2>4 DEF StoredTokens
  <2>7. new[p] \in Token => /\ tokens'[new[p]].family = new[p] /\ tokens'[new[p]].code = c
                            /\ tokens'[new[p]].client = codes[c].client
                            /\ tokens'[new[p]].state = "stored"
    BY <2>1, <2>4 DEF FirstToken
  <2>8. StoredTokensAreRooted'
    <3> SUFFICES ASSUME NEW t \in StoredTokens'
                 PROVE  /\ tokens'[t].family \in Token
                        /\ tokens'[tokens'[t].family].state # "absent"
                        /\ tokens'[t].code \in StoredCodes'
                        /\ codes'[tokens'[t].code].used
                        /\ codes'[tokens'[t].code].client = tokens'[t].client
      BY DEF StoredTokensAreRooted
    <3>1. CASE t \in StoredTokens /\ t # new[p] /\ tokens'[t] = tokens[t]
      BY <2>3, <2>4, <2>7, <3>1 DEF StoredTokensAreRooted, StoredCodes
    <3>2. CASE t = new[p] /\ new[p] \in Token
      BY <2>1, <2>3, <2>7, <3>2 DEF StoredCodes
    <3> QED BY <2>6, <3>1, <3>2
  <2>9. \A t \in StoredTokens : tokens[t].code # c /\ tokens[t].family # new[p]
    BY <2>1, <2>4 DEF StoredTokensAreRooted
  <2>10. OneFamilyPerCode'
    BY <2>6, <2>7, <2>9 DEF OneFamilyPerCode
  <2>11. OneLiveTokenPerFamily'
    BY <2>6, <2>7, <2>9 DEF OneLiveTokenPerFamily, Live
  <2> QED BY <2>5, <2>8, <2>10, <2>11
<1> QED BY <1>1, <1>2, <1>3, <1>4, <1>5, <1>6, <1>7 DEF ExchangeStep

LEMMA RefreshKeeps ==
  ASSUME TypeOK, RequestInv, RowInv, NEW p \in Request, RefreshStep(p)
  PROVE  RequestInv' /\ RowInv'
<1> USE DEF RequestInv, RowInv
<1>1. CASE LockToken(p)
  <2>1. RowInv' /\ LocksAreExclusive'
    BY <1>1, RowsUnchanged, LockKeepsExclusive DEF LockToken, store
  <2>2. LabelsMatchRequests' /\ NewTokensAreFresh'
    BY <1>1 DEF LockToken, store, Goto, LabelsMatchRequests, NewTokensAreFresh, TypeOK
  <2>3. LockedRowsHold'
    BY <1>1 DEF LockToken, store, Goto, Lock, LabelsMatchRequests, LockedRowsHold, TypeOK,
       StoredTokens, StoredCodes, Live
  <2> QED BY <2>1, <2>2, <2>3
<1>2. CASE UnknownToken(p)
  BY <1>2, FinishKeeps DEF UnknownToken, store
<1>3. CASE RefuseRefresh(p)
  BY <1>3, FinishKeeps DEF RefuseRefresh, store
<1>4. CASE ReplayedToken(p)
  BY <1>4, RevokingKeeps DEF ReplayedToken
<1>5. CASE Rotate(p)
  <2>1. RowInv' /\ LocksAreExclusive' /\ NewTokensAreFresh'
    BY <1>5, InsertKeeps DEF Rotate
  <2>2. /\ pc' = [pc EXCEPT ![p] = "rotated"] /\ UNCHANGED <<codes, tokens, req, held>>
        /\ pc[p] = "locked" /\ CheckUsable(req[p].token, req[p].client, req[p].late) = "Usable"
    BY <1>5 DEF Rotate, Insert, Goto, store, Verdict
  <2>3. LabelsMatchRequests'
    BY <2>2 DEF LabelsMatchRequests, TypeOK
  <2>4. /\ tokens[req[p].token].client = req[p].client
        /\ ~tokens[req[p].token].revoked /\ tokens[req[p].token].next = None
    BY <2>2 DEF CheckUsable
  <2>5. LockedRowsHold'
    BY <2>2, <2>4 DEF LockedRowsHold, TypeOK, StoredTokens, StoredCodes, Live
  <2> QED BY <2>1, <2>3, <2>5
<1>6. CASE CommitRefresh(p)
  <2> DEFINE t == req[p].token
             n == new[p]
  <2>1. /\ t \in held[p] \cap StoredTokens /\ Live(t) /\ pc[p] = "rotated"
        /\ n \in Token /\ tokens[n].state = "absent" /\ n # t /\ t \in Token
    BY <1>6 DEF CommitRefresh, LockedRowsHold, NewTokensAreFresh, TypeOK, StoredTokens
  <2>2. /\ UNCHANGED codes
        /\ tokens'[n] = [tokens[t] EXCEPT !.revoked = FALSE, !.next = None]
        /\ tokens'[t] = [tokens[t] EXCEPT !.next = n]
        /\ \A u \in Token \ {t, n} : tokens'[u] = tokens[u]
    BY <1>6, <2>1 DEF CommitRefresh, Successor
  <2>3. /\ tokens'[n].state = "stored" /\ tokens'[n].family = tokens[t].family
        /\ tokens'[n].code = tokens[t].code /\ tokens'[n].client = tokens[t].client
    <3>1. tokens[t] \in TokenRow /\ tokens[t].state = "stored"
      BY <2>1 DEF TypeOK, StoredTokens
    <3> QED BY <2>2, <3>1 DEF TokenRow
  <2>4. /\ tokens'[t].state = "stored" /\ tokens'[t].family = tokens[t].family
        /\ tokens'[t].code = tokens[t].code /\ tokens'[t].client = tokens[t].client
        /\ tokens'[t].next # None
    <3>1. tokens[t] \in TokenRow /\ tokens[t].state = "stored"
      BY <2>1 DEF TypeOK, StoredTokens
    <3> QED BY <2>1, <2>2, <3>1, RowsAreDistinct DEF TokenRow
  <2>5. RequestInv'
    <3>1. \A u \in Token : u # n => tokens'[u].state = tokens[u].state
      BY <2>1, <2>2, <2>4 DEF StoredTokens
    <3>2. \A u \in Token \ held[p] : u # n => tokens'[u] = tokens[u]
      BY <2>1, <2>2
    <3> QED BY <1>6, <2>1, <2>2, <3>1, <3>2, CommittedKeeps DEF CommitRefresh
  <2>6. \A u \in StoredTokens' :
          \E v \in StoredTokens :
            /\ (u = n /\ v = t) \/ u = v
            /\ tokens'[u].family = tokens[v].family /\ tokens'[u].code = tokens[v].code
            /\ tokens'[u].client = tokens[v].client
            /\ Live(u)' => Live(v) /\ u # t
    <3> SUFFICES ASSUME NEW u \in StoredTokens'
                 PROVE  \E v \in StoredTokens :
                          /\ (u = n /\ v = t) \/ u = v
                          /\ tokens'[u].family = tokens[v].family /\ tokens'[u].code = tokens[v].code
                          /\ tokens'[u].client = tokens[v].client
                          /\ Live(u)' => Live(v) /\ u # t
      OBVIOUS
    <3>1. CASE u = n
      <4>1. t \in StoredTokens /\ Live(t)
        BY <2>1
      <4> QED BY <3>1, <4>1, <2>1, <2>3
    <3>2. CASE u = t
      <4>1. t \in StoredTokens /\ ~Live(u)'
        BY <2>1, <2>4, <3>2 DEF Live
      <4> QED BY <3>2, <4>1, <2>4
    <3>3. CASE u \notin {t, n}
      <4>1. u \in Token /\ tokens'[u] = tokens[u] /\ u \in StoredTokens
        BY <2>2, <3>3 DEF StoredTokens
      <4>2. Live(u)' => Live(u)
        BY <4>1 DEF Live
      <4> QED BY <3>3, <4>1, <4>2
    <3> QED BY <3>1, <3>2, <3>3
  <2>7. StoredTokensAreRooted'
    <3>1. \A u \in Token : tokens[u].state # "absent" => tokens'[u].state # "absent"
      BY <2>1, <2>2, <2>4
    <3> QED BY <2>2, <2>6, <3>1 DEF StoredTokensAreRooted, StoredCodes
  <2>8. OneFamilyPerCode'
    BY <2>6 DEF OneFamilyPerCode
  <2>9. OneLiveTokenPerFamily'
    BY <2>6 DEF OneLiveTokenPerFamily
  <2> QED BY <2>5, <2>7, <2>8, <2>9
<1> QED BY <1>1, <1>2, <1>3, <1>4, <1>5, <1>6 DEF RefreshStep

LEMMA RevokeKeeps ==
  ASSUME TypeOK, RequestInv, RowInv, NEW p \in Request, RevokeStep(p)
  PROVE  RequestInv' /\ RowInv'
<1> USE DEF RequestInv, RowInv
<1>1. CASE FindNothingToRevoke(p)
  BY <1>1, FinishKeeps DEF FindNothingToRevoke, store
<1>2. CASE FindToRevoke(p)
  <2>1. RowInv' /\ LocksAreExclusive'
    BY <1>2, RowsUnchanged DEF FindToRevoke, store, LocksAreExclusive
  <2>2. LabelsMatchRequests' /\ NewTokensAreFresh'
    BY <1>2 DEF FindToRevoke, store, Goto, LabelsMatchRequests, NewTokensAreFresh, TypeOK
  <2>3. LockedRowsHold'
    BY <1>2 DEF FindToRevoke, store, Goto, LockedRowsHold, TypeOK, StoredTokens, StoredCodes, Live
  <2> QED BY <2>1, <2>2, <2>3
<1>3. CASE RevokeFamily(p)
  BY <1>3, RevokingKeeps DEF RevokeFamily
<1>4. ASSUME NEW t \in Token, VisitRow(p, t) PROVE RequestInv' /\ RowInv'
  BY <1>4, LockingKeeps DEF VisitRow, store
<1>5. CASE CommitRevocation(p)
  <2>1. /\ pc[p] = "revoking" /\ UNCHANGED codes
        /\ \A t \in Token \ held[p] : tokens'[t] = tokens[t]
        /\ \A t \in Token :
             \/ tokens'[t] = tokens[t]
             \/ tokens'[t] = [tokens[t] EXCEPT !.revoked = TRUE]
    BY <1>5 DEF CommitRevocation
  <2>2. \A t \in Token :
          /\ tokens'[t].state = tokens[t].state /\ tokens'[t].family = tokens[t].family
          /\ tokens'[t].code = tokens[t].code /\ tokens'[t].client = tokens[t].client
          /\ tokens'[t].next = tokens[t].next /\ (tokens[t].revoked => tokens'[t].revoked)
    <3>1. \A t \in Token : tokens[t] \in TokenRow
      BY DEF TypeOK
    <3> QED BY <2>1, <3>1 DEF TokenRow
  <2>3. RequestInv'
    BY <1>5, <2>1, <2>2, CommittedKeeps DEF CommitRevocation
  <2>4. StoredTokensAreRooted'
    BY <2>1, <2>2 DEF StoredTokensAreRooted, StoredTokens, StoredCodes
  <2>5. OneFamilyPerCode' /\ OneLiveTokenPerFamily'
    BY <2>2 DEF OneFamilyPerCode, OneLiveTokenPerFamily, StoredTokens, Live
  <2> QED BY <2>3, <2>4, <2>5
<1> QED BY <1>1, <1>2, <1>3, <1>4, <1>5 DEF RevokeStep

LEMMA DeleteKeeps ==
  ASSUME TypeOK, RequestInv, RowInv, NEW p \in Request, DeleteStep(p)
  PROVE  RequestInv' /\ RowInv'
<1> USE DEF RequestInv, RowInv
<1>1. CASE LockClient(p)
  <2>1. RowInv' /\ LocksAreExclusive' /\ \A q \in Request : held[q] \subseteq held'[q]
    BY <1>1, RowsUnchanged, LockKeepsExclusive DEF LockClient, store
  <2>2. LabelsMatchRequests' /\ NewTokensAreFresh'
    BY <1>1 DEF LockClient, store, Goto, LabelsMatchRequests, NewTokensAreFresh, TypeOK
  <2>3. LockedRowsHold'
    BY <1>1, <2>1 DEF LockClient, store, Goto, LockedRowsHold, TypeOK,
       StoredTokens, StoredCodes, Live
  <2> QED BY <2>1, <2>2, <2>3
<1>2. CASE ClientAlreadyDeleted(p)
  BY <1>2, FinishKeeps DEF ClientAlreadyDeleted, store
<1>3. ASSUME NEW r \in Code \cup Token, CascadeRow(p, r) PROVE RequestInv' /\ RowInv'
  BY <1>3, LockingKeeps DEF CascadeRow, store
<1>4. CASE CommitDelete(p)
  <2> DEFINE rows == RowsOfClient(req[p].client)
  <2>1. /\ pc[p] = "deleting" /\ rows \subseteq held[p]
        /\ codes' = [c \in Code |-> IF c \in rows
                              THEN [NoCode EXCEPT !.state = "deleted"] ELSE codes[c]]
        /\ tokens' = [t \in Token |-> IF t \in rows
                                THEN [NoToken EXCEPT !.state = "deleted"] ELSE tokens[t]]
        /\ Finish(p)
    BY <1>4 DEF CommitDelete
  <2>2. /\ \A c \in Code : IF c \in StoredCodes /\ codes[c].client = req[p].client
                            THEN codes'[c].state = "deleted" /\ c \in held[p]
                            ELSE codes'[c] = codes[c]
        /\ \A t \in Token : IF t \in StoredTokens /\ tokens[t].client = req[p].client
                             THEN tokens'[t].state = "deleted" /\ t \in held[p]
                             ELSE tokens'[t] = tokens[t]
    BY <2>1, RowsAreDistinct DEF RowsOfClient, NoCode, NoToken, StoredCodes, StoredTokens
  <2>3. /\ pc' = [pc EXCEPT ![p] = "idle"] /\ held' = [held EXCEPT ![p] = {}]
        /\ new' = [new EXCEPT ![p] = None] /\ \A q \in Request : q # p => req'[q] = req[q]
    BY <2>1 DEF Finish, Goto, TypeOK
  <2>4. LocksAreExclusive'
    BY <2>3 DEF LocksAreExclusive, TypeOK
  <2>5. LabelsMatchRequests'
    BY <2>2, <2>3 DEF LabelsMatchRequests, TypeOK
  <2>6. NewTokensAreFresh'
    BY <2>2, <2>3 DEF NewTokensAreFresh, TypeOK, StoredTokens
  <2>7. LockedRowsHold'
    <3>1. \A q \in Request \ {p} : held[q] \cap held[p] = {}
      BY DEF LocksAreExclusive
    <3> QED BY <2>2, <2>3, <3>1 DEF LockedRowsHold, TypeOK, StoredTokens, StoredCodes, Live
  <2>8. \A t \in StoredTokens' :
          t \in StoredTokens /\ tokens'[t] = tokens[t] /\ tokens[t].client # req[p].client
    BY <2>2 DEF StoredTokens
  <2>9. StoredTokensAreRooted'
    BY <2>2, <2>8 DEF StoredTokensAreRooted, StoredCodes, StoredTokens
  <2>10. OneFamilyPerCode' /\ OneLiveTokenPerFamily'
    BY <2>8 DEF OneFamilyPerCode, OneLiveTokenPerFamily, Live
  <2> QED BY <2>4, <2>5, <2>6, <2>7, <2>9, <2>10
<1> QED BY <1>1, <1>2, <1>3, <1>4 DEF DeleteStep

---------------------------------------------------------------------------
(* Theorems *)

LEMMA InitInv == Init => IInv
<1> SUFFICES ASSUME Init PROVE IInv
  OBVIOUS
<1> USE DEF Init
<1>1. TypeOK
  BY DEF TypeOK, NoCode, NoToken, NoInput, CodeRow, TokenRow, Input, States, Operation, Label
<1>2. RequestInv
  BY DEF RequestInv, LocksAreExclusive, LabelsMatchRequests, LockedRowsHold, NewTokensAreFresh
<1>3. StoredTokens = {}
  BY DEF StoredTokens, NoToken
<1>4. RowInv
  BY <1>3 DEF RowInv, StoredTokensAreRooted, OneFamilyPerCode, OneLiveTokenPerFamily
<1> QED BY <1>1, <1>2, <1>4 DEF IInv, RequestInv, RowInv

LEMMA StepInv == IInv /\ [Next]_vars => IInv'
<1> SUFFICES ASSUME IInv, [Next]_vars PROVE IInv'
  OBVIOUS
<1>1. TypeOK /\ RequestInv /\ RowInv
  BY DEF IInv, RequestInv, RowInv
<1>2. TypeOK'
  BY <1>1, StepTypeOK DEF RequestInv
<1>3. RequestInv' /\ RowInv'
  <2>1. ASSUME NEW p \in Request, Handler(p) PROVE RequestInv' /\ RowInv'
    <3>1. CASE Respond(p)
      BY <1>1, <3>1, FinishKeeps DEF Respond
    <3> QED BY <1>1, <2>1, <3>1, ExchangeKeeps, RefreshKeeps, RevokeKeeps, DeleteKeeps
            DEF Handler
  <2>2. ASSUME NEW p \in Request, Abort(p) \/ LoseResponse(p)
        PROVE  RequestInv' /\ RowInv'
    BY <1>1, <2>2, FinishKeeps DEF Abort, LoseResponse, store
  <2> QED BY <1>1, <2>1, <2>2, StartKeeps, EnvironmentKeeps DEF Next
<1> QED BY <1>2, <1>3 DEF IInv, RequestInv, RowInv

\* The inductive invariant holds in every reachable state of every instance:
\* row locks exclude, locked rows stay what the handler read, rows are rooted in
\* a used code, and a code has one family with one live token.
THEOREM Invariance == Spec => []IInv
<1>1. Init => IInv
  BY InitInv
<1>2. IInv /\ [Next]_vars => IInv'
  BY StepInv
<1> QED BY <1>1, <1>2, PTL DEF Spec

\* Every variable keeps its type.
THEOREM TypeCorrect == Spec => []TypeOK
<1>1. IInv => TypeOK
  BY DEF IInv
<1> QED BY <1>1, Invariance, PTL

\* A sign-in never has two live refresh tokens, whatever its redemptions,
\* refreshes, revocations and failures do.
THEOREM OneLiveToken == Spec => []OneLiveTokenPerCode
<1>1. IInv => OneLiveTokenPerCode
  <2> SUFFICES ASSUME IInv, NEW t \in Token, NEW u \in Token, Live(t), Live(u),
                      tokens[t].code = tokens[u].code
               PROVE  t = u
    BY DEF OneLiveTokenPerCode
  <2>1. t \in StoredTokens /\ u \in StoredTokens
    BY DEF Live
  <2>2. tokens[t].family = tokens[u].family
    BY <2>1 DEF IInv, OneFamilyPerCode
  <2> QED BY <2>1, <2>2 DEF IInv, OneLiveTokenPerFamily
<1> QED BY <1>1, Invariance, PTL

\* The steps that write a token row are the four commits.
LEMMA TokenWriters ==
  ASSUME [Next]_vars, tokens' # tokens
  PROVE  \E p \in Request :
           CommitExchange(p) \/ CommitRefresh(p) \/ CommitRevocation(p) \/ CommitDelete(p)
<1>1. ASSUME NEW p \in Request, Arrival(p) \/ Abort(p) \/ LoseResponse(p) \/ Respond(p)
      PROVE  FALSE
  BY <1>1 DEF Arrival, StartExchange, StartRefresh, StartRevoke, StartDelete, Start, store,
     Abort, LoseResponse, Respond
<1>2. ASSUME NEW p \in Request, ExchangeStep(p) PROVE CommitExchange(p)
  BY <1>2 DEF ExchangeStep, Claim, ClaimMisses, UnknownCode, ReplayedCode, RejectBindings,
     IssueFirst, IssueNoRefreshToken, Insert, store
<1>3. ASSUME NEW p \in Request, RefreshStep(p) PROVE CommitRefresh(p)
  BY <1>3 DEF RefreshStep, LockToken, UnknownToken, RefuseRefresh, ReplayedToken,
     StartRevokingFamily, Rotate, Insert, store
<1>4. ASSUME NEW p \in Request, RevokeStep(p) PROVE CommitRevocation(p)
  BY <1>4 DEF RevokeStep, FindNothingToRevoke, FindToRevoke, RevokeFamily,
     StartRevokingFamily, VisitRow, store
<1>5. ASSUME NEW p \in Request, DeleteStep(p) PROVE CommitDelete(p)
  BY <1>5 DEF DeleteStep, LockClient, ClientAlreadyDeleted, CascadeRow, store
<1> QED BY <1>1, <1>2, <1>3, <1>4, <1>5 DEF Next, Handler, IssueCode, Expire, vars

\* What one step can do to one token row: nothing, delete it, create it, give
\* it a successor or revoke it.
RowStep(t) ==
  \/ tokens'[t] = tokens[t]
  \/ tokens'[t].state = "deleted"
  \/ /\ tokens[t].state = "absent" /\ ~tokens'[t].revoked /\ tokens'[t].next = None
     /\ \/ tokens'[t].family = t
        \/ \E u \in StoredTokens : Live(u) /\ tokens'[t].family = tokens[u].family
  \/ Live(t) /\ tokens'[t] = [tokens[t] EXCEPT !.next = tokens'[t].next]
  \/ tokens'[t] = [tokens[t] EXCEPT !.revoked = TRUE]

LEMMA RowSteps ==
  ASSUME IInv, [Next]_vars, NEW t \in Token
  PROVE  RowStep(t)
<1> SUFFICES ASSUME tokens' # tokens PROVE RowStep(t)
  BY DEF RowStep
<1> USE DEF RowStep
<1>1. PICK p \in Request :
        CommitExchange(p) \/ CommitRefresh(p) \/ CommitRevocation(p) \/ CommitDelete(p)
  BY TokenWriters
<1>2. tokens[t] \in TokenRow
  BY DEF IInv, TypeOK
<1>3. CASE CommitExchange(p)
  <2>1. t # new[p] => tokens'[t] = tokens[t]
    BY <1>3 DEF CommitExchange
  <2>2. t = new[p] => tokens[t].state = "absent" /\ tokens'[t] = FirstToken(p)
    BY <1>3, RowsAreDistinct DEF CommitExchange, IInv, NewTokensAreFresh
  <2> QED BY <2>1, <2>2 DEF FirstToken
<1>4. CASE CommitRefresh(p)
  <2>1. /\ req[p].token \in StoredTokens /\ Live(req[p].token) /\ new[p] # None
        /\ tokens[new[p]].state = "absent"
    BY <1>4 DEF CommitRefresh, IInv, LockedRowsHold, NewTokensAreFresh
  <2>2. t \notin {new[p], req[p].token} => tokens'[t] = tokens[t]
    BY <1>4 DEF CommitRefresh
  <2>3. t = new[p] => tokens'[t] = Successor(p)
    BY <1>4 DEF CommitRefresh
  <2>4. tokens[req[p].token] \in TokenRow
    BY <2>1 DEF IInv, TypeOK, StoredTokens
  <2>5. /\ Successor(p).family = tokens[req[p].token].family
        /\ ~Successor(p).revoked /\ Successor(p).next = None
    BY <2>4 DEF Successor, TokenRow
  <2>6. t = req[p].token =>
          /\ Live(t) /\ tokens'[t] = [tokens[t] EXCEPT !.next = new[p]]
    BY <1>4, <2>1 DEF CommitRefresh, StoredTokens
  <2>7. t = req[p].token => tokens'[t].next = new[p]
    BY <1>2, <2>6 DEF TokenRow
  <2> QED BY <1>4, <2>1, <2>2, <2>3, <2>5, <2>6, <2>7
<1>5. CASE CommitRevocation(p)
  BY <1>5 DEF CommitRevocation
<1>6. CASE CommitDelete(p)
  BY <1>6 DEF CommitDelete, NoToken
<1> QED BY <1>1, <1>3, <1>4, <1>5, <1>6

\* A token is exchanged for a successor only while it is live; revocation and
\* succession are final.
THEOREM RotationIsOfLiveTokens == Spec => OnlyLiveTokensRotate
<1> DEFINE Final(t) == tokens'[t].state # "deleted" =>
                         /\ tokens'[t].next # tokens[t].next => Live(t)
                         /\ tokens[t].revoked => tokens'[t].revoked
<1>1. ASSUME IInv, [Next]_vars, NEW t \in StoredTokens PROVE Final(t)
  <2>1. t \in Token /\ tokens[t] \in TokenRow /\ tokens[t].state = "stored"
    BY <1>1 DEF IInv, TypeOK, StoredTokens
  <2>2. RowStep(t)
    BY <1>1, <2>1, RowSteps
  <2>3. \/ tokens'[t] = tokens[t]
        \/ tokens'[t].state = "deleted"
        \/ Live(t)
        \/ tokens'[t] = [tokens[t] EXCEPT !.revoked = TRUE]
    BY <2>1, <2>2 DEF RowStep
  <2> QED BY <2>1, <2>3 DEF Live, TokenRow
<1>2. IInv /\ [Next]_vars => [\A t \in StoredTokens : Final(t)]_vars
  BY <1>1
<1> QED BY <1>2, Invariance, PTL DEF Spec, OnlyLiveTokensRotate

\* When the last token of a family is revoked the family stays so: a refresh
\* that overlaps the revocation can add nothing live to it.
THEOREM RevocationIsFinal == Spec => RevokedFamilyStaysRevoked
<1> DEFINE Ended(f) == (\E t \in StoredTokens : tokens[t].family = f) /\ LiveInFamily(f) = {}
<1>1. ASSUME IInv, [Next]_vars, NEW f \in Token, Ended(f) PROVE LiveInFamily(f)' = {}
  <2> SUFFICES ASSUME NEW t \in StoredTokens', tokens'[t].family = f, ~tokens'[t].revoked
               PROVE  FALSE
    BY DEF LiveInFamily
  <2>1. t \in Token /\ tokens'[t].state = "stored" /\ tokens[t] \in TokenRow
    BY <1>1 DEF IInv, TypeOK, StoredTokens
  <2>2. tokens[f].state # "absent"
    BY <1>1 DEF IInv, StoredTokensAreRooted
  <2>3. \A u \in StoredTokens : tokens[u].family = f => tokens[u].revoked
    BY <1>1 DEF LiveInFamily
  <2>4. \/ tokens'[t] = tokens[t]
        \/ /\ tokens[t].state = "absent"
           /\ \/ tokens'[t].family = t
              \/ \E u \in StoredTokens : Live(u) /\ tokens'[t].family = tokens[u].family
        \/ Live(t) /\ tokens'[t] = [tokens[t] EXCEPT !.next = tokens'[t].next]
        \/ tokens'[t] = [tokens[t] EXCEPT !.revoked = TRUE]
    BY <1>1, <2>1, RowSteps DEF RowStep
  <2>5. CASE tokens'[t] = tokens[t]
    BY <2>1, <2>3, <2>5 DEF StoredTokens
  <2>6. CASE \/ tokens[t].state = "absent" /\ tokens'[t].family = t
             \/ \E u \in StoredTokens : Live(u) /\ tokens'[t].family = tokens[u].family
    BY <2>2, <2>3, <2>6 DEF Live
  <2>7. CASE Live(t) /\ tokens'[t] = [tokens[t] EXCEPT !.next = tokens'[t].next]
    <3>1. tokens[t].family = f
      BY <2>1, <2>7 DEF TokenRow
    <3> QED BY <2>3, <2>7, <3>1 DEF Live
  <2>8. CASE tokens'[t] = [tokens[t] EXCEPT !.revoked = TRUE]
    BY <2>1, <2>8 DEF TokenRow
  <2> QED BY <2>4, <2>5, <2>6, <2>7, <2>8
<1>2. IInv /\ [Next]_vars =>
        [\A f \in Token :
           /\ \E t \in StoredTokens : tokens[t].family = f
           /\ LiveInFamily(f) = {}
           => LiveInFamily(f)' = {}]_vars
  BY <1>1
<1> QED BY <1>2, Invariance, PTL DEF Spec, RevokedFamilyStaysRevoked

\* The steps that write a code row.
LEMMA CodeWriters ==
  ASSUME [Next]_vars, codes' # codes
  PROVE  \/ \E d \in Code : IssueCode(d)
         \/ \E p \in Request : CommitExchange(p) \/ RejectBindings(p) \/ CommitDelete(p)
<1>1. ASSUME NEW p \in Request, Arrival(p) \/ Abort(p) \/ LoseResponse(p) \/ Respond(p)
      PROVE  FALSE
  BY <1>1 DEF Arrival, StartExchange, StartRefresh, StartRevoke, StartDelete, Start, store,
     Abort, LoseResponse, Respond
<1>2. ASSUME NEW p \in Request, ExchangeStep(p)
      PROVE  CommitExchange(p) \/ RejectBindings(p)
  BY <1>2 DEF ExchangeStep, Claim, ClaimMisses, UnknownCode, ReplayedCode, IssueFirst,
     IssueNoRefreshToken, Insert, store
<1>3. ASSUME NEW p \in Request, RefreshStep(p) \/ RevokeStep(p) PROVE FALSE
  BY <1>3 DEF RefreshStep, LockToken, UnknownToken, RefuseRefresh, ReplayedToken,
     StartRevokingFamily, Rotate, Insert, CommitRefresh, RevokeStep, FindNothingToRevoke,
     FindToRevoke, RevokeFamily, VisitRow, CommitRevocation, store
<1>4. ASSUME NEW p \in Request, DeleteStep(p) PROVE CommitDelete(p)
  BY <1>4 DEF DeleteStep, LockClient, ClientAlreadyDeleted, CascadeRow, store
<1> QED BY <1>1, <1>2, <1>3, <1>4 DEF Next, Handler, Expire, vars

\* What one step can do to one stored code: only its redemption and its refusal
\* spend it, and nothing makes a spent code good again.
LEMMA CodeSteps ==
  ASSUME IInv, [Next]_vars, NEW c \in StoredCodes
  PROVE  codes'[c].state = "deleted" \/ (codes[c].used => codes'[c].used)
<1>1. c \in Code /\ codes[c] \in CodeRow /\ codes[c].state = "stored"
  BY DEF IInv, TypeOK, StoredCodes
<1>2. CASE UNCHANGED codes
  BY <1>2
<1>3. CASE \E d \in Code : IssueCode(d)
  BY <1>1, <1>3 DEF IssueCode
<1>4. CASE \E p \in Request : CommitExchange(p) \/ RejectBindings(p)
  <2>1. PICK d : codes' = [codes EXCEPT ![d] = [codes[d] EXCEPT !.used = TRUE]]
    BY <1>4 DEF CommitExchange, RejectBindings
  <2> QED BY <1>1, <2>1 DEF IInv, TypeOK, CodeRow
<1>5. CASE \E p \in Request : CommitDelete(p)
  BY <1>1, <1>5 DEF CommitDelete, NoCode, IInv, TypeOK
<1>6. codes' # codes => \/ \E d \in Code : IssueCode(d)
                       \/ \E p \in Request : \/ CommitExchange(p) \/ RejectBindings(p)
                                             \/ CommitDelete(p)
  BY CodeWriters
<1> QED BY <1>2, <1>3, <1>4, <1>5, <1>6

\* The only step from "issued" to "granted" is the commit of a redemption.
LEMMA GrantIsCommit ==
  ASSUME IInv, [Next]_vars, NEW p \in Request, pc[p] = "issued", pc'[p] = "granted"
  PROVE  CommitExchange(p)
<1>1. \A q \in Request : \A label : pc' = [pc EXCEPT ![q] = label] => q = p /\ label = "granted"
  BY DEF IInv, TypeOK
<1>2. pc' # pc
  OBVIOUS
<1>3. \A q \in Request : \A label : Goto(q, label) => q = p /\ label = "granted"
  BY <1>1 DEF Goto
<1>4. PICK q \in Request : Arrival(q) \/ Handler(q) \/ Abort(q) \/ LoseResponse(q)
  BY <1>2 DEF Next, vars, IssueCode, Expire
<1>5. ~Arrival(q)
  BY <1>3 DEF Arrival, StartExchange, StartRefresh, StartRevoke, StartDelete, Start
<1>6. ~Abort(q) /\ ~LoseResponse(q) /\ ~Respond(q)
  BY <1>3 DEF Abort, LoseResponse, Respond, Finish
<1>7. ExchangeStep(q) => CommitExchange(p)
  <2>1. CommitExchange(q) => q = p
    BY <1>3 DEF CommitExchange, Committed
  <2>2. ExchangeStep(q) => CommitExchange(q)
    BY <1>2, <1>3 DEF ExchangeStep, Claim, ClaimMisses, UnknownCode, Finish, ReplayedCode,
       RejectBindings, Committed, IssueFirst, IssueNoRefreshToken, Insert
  <2> QED BY <2>1, <2>2
<1>8. ~RefreshStep(q)
  BY <1>2, <1>3 DEF RefreshStep, LockToken, UnknownToken, Finish, RefuseRefresh, ReplayedToken,
     StartRevokingFamily, Rotate, Insert, CommitRefresh, Committed
<1>9. ~RevokeStep(q)
  BY <1>2, <1>3 DEF RevokeStep, FindNothingToRevoke, Finish, FindToRevoke, RevokeFamily,
     StartRevokingFamily, VisitRow, CommitRevocation, Committed
<1>10. ~DeleteStep(q)
  BY <1>2, <1>3 DEF DeleteStep, LockClient, ClientAlreadyDeleted, Finish, CascadeRow, CommitDelete
<1> QED BY <1>4, <1>5, <1>6, <1>7, <1>8, <1>9, <1>10 DEF Handler

\* Tokens come out of a code only in the transaction that spends it, and a
\* spent code stays spent: two redemptions of one code cannot both succeed.
THEOREM CodesAreSingleUse == Spec => CodeIsRedeemedOnce
<1>1. ASSUME IInv, [Next]_vars, NEW p \in Request, pc[p] = "issued", pc'[p] = "granted"
      PROVE  ~codes[req[p].code].used /\ codes'[req[p].code].used
  <2>1. CommitExchange(p)
    BY <1>1, GrantIsCommit
  <2>2. req[p].code \in StoredCodes /\ ~codes[req[p].code].used
    BY <1>1 DEF IInv, LockedRowsHold
  <2>3. req[p].code \in Code /\ codes[req[p].code] \in CodeRow /\ codes \in [Code -> CodeRow]
    BY <1>1, <2>2 DEF IInv, TypeOK, StoredCodes
  <2>4. codes' = [codes EXCEPT ![req[p].code] = [codes[req[p].code] EXCEPT !.used = TRUE]]
    BY <2>1 DEF CommitExchange
  <2> QED BY <2>2, <2>3, <2>4 DEF CodeRow
<1>2. IInv /\ [Next]_vars =>
        [\A p \in Request :
           /\ pc[p] = "issued" /\ pc'[p] = "granted" =>
                ~codes[req[p].code].used /\ codes'[req[p].code].used
           /\ \A c \in StoredCodes : codes[c].used =>
                codes'[c].used \/ codes'[c].state = "deleted"]_vars
  BY <1>1, CodeSteps
<1> QED BY <1>2, Invariance, PTL DEF Spec, CodeIsRedeemedOnce

---------------------------------------------------------------------------
(* TokenEndpoint implements GrantLedger *)

\* The phase of a code in terms of its row and its live tokens.
PhasesAreKnown ==
  \A c \in Code :
    /\ PhaseOf(c) = "none" <=> codes[c].state = "absent"
    /\ PhaseOf(c) = "open" <=> codes[c].state = "stored" /\ ~codes[c].used
    /\ PhaseOf(c) = "live" <=> LiveTokensOf(c) # {}
    /\ PhaseOf(c) \in {"none", "open", "live", "ended"}
    /\ LiveTokensOf(c) # {} => c \in StoredCodes /\ codes[c].used
    /\ \A t, u \in LiveTokensOf(c) : t = u

LEMMA Phases == IInv => PhasesAreKnown
<1> SUFFICES ASSUME IInv, NEW c \in Code
             PROVE  /\ PhaseOf(c) = "none" <=> codes[c].state = "absent"
                    /\ PhaseOf(c) = "open" <=> codes[c].state = "stored" /\ ~codes[c].used
                    /\ PhaseOf(c) = "live" <=> LiveTokensOf(c) # {}
                    /\ PhaseOf(c) \in {"none", "open", "live", "ended"}
                    /\ LiveTokensOf(c) # {} => c \in StoredCodes /\ codes[c].used
                    /\ \A t, u \in LiveTokensOf(c) : t = u
  BY DEF PhasesAreKnown
<1>1. codes[c].state \in {"absent", "stored", "deleted"}
  BY DEF IInv, TypeOK, CodeRow, States
<1>2. LiveTokensOf(c) # {} => c \in StoredCodes /\ codes[c].used
  BY DEF IInv, StoredTokensAreRooted, LiveTokensOf, Live
<1>3. \A t, u \in LiveTokensOf(c) : t = u
  BY DEF IInv, OneFamilyPerCode, OneLiveTokenPerFamily, LiveTokensOf, Live
<1> QED BY <1>1, <1>2, <1>3 DEF PhaseOf, StoredCodes

LEMMA PhasesNext == IInv' => PhasesAreKnown'
BY Phases, PTL

\* Grants end in one step when each loses its live token, or its unused code.
LEMMA EndingIsEnd ==
  ASSUME IInv, IInv', NEW S \in SUBSET Code,
         \A c \in S : PhaseOf(c) \in {"open", "live"} /\ PhaseOf(c)' = "ended",
         \A c \in Code \ S : PhaseOf(c)' = PhaseOf(c) /\ LiveTokensOf(c)' = LiveTokensOf(c),
         {t \in Token : tokens[t].state # "absent"}' = {t \in Token : tokens[t].state # "absent"}
  PROVE  Ledger!End(S)
<1>1. \A c \in S : LiveTokensOf(c)' = {}
  BY PhasesNext DEF PhasesAreKnown
<1> QED BY <1>1 DEF Ledger!End

LEMMA LedgerUnchanged ==
  ASSUME UNCHANGED <<codes, tokens>>
  PROVE  UNCHANGED Ledger!ledger
BY DEF Ledger!ledger, PhaseOf, LiveTokensOf, Live, StoredTokens

\* A redemption that gives no refresh token, and one that is refused.
LEMMA SpendingIsEnd ==
  ASSUME IInv, IInv', NEW c \in StoredCodes, ~codes[c].used,
         codes' = [codes EXCEPT ![c].used = TRUE], UNCHANGED tokens
  PROVE  Ledger!End({c})
<1>1. \A d \in Code : LiveTokensOf(d)' = LiveTokensOf(d)
  BY DEF LiveTokensOf, Live, StoredTokens
<1>2. c \in Code /\ codes[c] \in CodeRow /\ codes[c].state = "stored" /\ codes \in [Code -> CodeRow]
  BY DEF IInv, TypeOK, StoredCodes
<1>3. /\ codes'[c].state = "stored" /\ codes'[c].used
      /\ \A d \in Code \ {c} : codes'[d] = codes[d]
  BY <1>2 DEF CodeRow
<1>4. LiveTokensOf(c) = {} /\ PhaseOf(c) = "open"
  BY <1>2, Phases DEF PhasesAreKnown
<1>5. PhaseOf(c)' = "ended"
  BY <1>1, <1>2, <1>3, <1>4 DEF PhaseOf
<1>6. \A d \in Code \ {c} : PhaseOf(d)' = PhaseOf(d)
  BY <1>1, <1>3 DEF PhaseOf
<1> QED BY <1>1, <1>2, <1>4, <1>5, <1>6, EndingIsEnd

LEMMA IssuingIsOpen ==
  ASSUME IInv, IInv', NEW c \in Code, IssueCode(c)
  PROVE  Ledger!Open(c)
<1>1. \A d \in Code : LiveTokensOf(d)' = LiveTokensOf(d)
  BY DEF IssueCode, LiveTokensOf, Live, StoredTokens
<1>2. codes[c].state = "absent" /\ \A d \in Code \ {c} : codes'[d] = codes[d]
  BY DEF IssueCode
<1>3. codes'[c].state = "stored" /\ ~codes'[c].used
  BY DEF IssueCode, IInv, TypeOK
<1>4. PhaseOf(c) = "none" /\ PhaseOf(c)' = "open"
  BY <1>2, <1>3, Phases, PhasesNext DEF PhasesAreKnown
<1>5. \A d \in Code \ {c} : PhaseOf(d)' = PhaseOf(d)
  BY <1>1, <1>2 DEF PhaseOf
<1>6. UNCHANGED {t \in Token : tokens[t].state # "absent"}
  BY DEF IssueCode
<1> QED BY <1>1, <1>4, <1>5, <1>6 DEF Ledger!Open

LEMMA RedeemingIsRedeem ==
  ASSUME IInv, IInv', NEW p \in Request, CommitExchange(p),
         NEW c, c = req[p].code, NEW n, n = new[p], n # None
  PROVE  Ledger!Redeem(c, n) /\ c \in Code /\ n \in Token
<1>1. /\ c \in StoredCodes /\ ~codes[c].used /\ n \in Token
      /\ c \in Code /\ codes[c] \in CodeRow /\ codes[c].state = "stored"
      /\ tokens[n].state = "absent" /\ codes \in [Code -> CodeRow]
  BY DEF CommitExchange, IInv, LockedRowsHold, NewTokensAreFresh, TypeOK, StoredCodes
<1>2. /\ tokens'[n] = FirstToken(p)
      /\ \A t \in Token \ {n} : tokens'[t] = tokens[t]
      /\ codes' = [codes EXCEPT ![c].used = TRUE]
  BY <1>1 DEF CommitExchange
<1>3. /\ codes'[c].state = "stored" /\ codes'[c].used
      /\ \A d \in Code \ {c} : codes'[d] = codes[d]
  BY <1>1, <1>2 DEF CodeRow
<1>4. /\ tokens'[n].state = "stored" /\ tokens'[n].code = c
      /\ ~tokens'[n].revoked /\ tokens'[n].next = None
  BY <1>2 DEF FirstToken
<1>5. LiveTokensOf(c) = {} /\ PhaseOf(c) = "open"
  BY <1>1, Phases DEF PhasesAreKnown
<1>6. \A t \in Token \ {n} : Live(t)' <=> Live(t)
  BY <1>2 DEF Live, StoredTokens
<1>7. ~Live(n) /\ Live(n)'
  BY <1>1, <1>4 DEF Live, StoredTokens
<1>8. LiveTokensOf(c)' = {n}
  BY <1>1, <1>2, <1>4, <1>5, <1>6, <1>7 DEF LiveTokensOf
<1>9. \A d \in Code \ {c} : LiveTokensOf(d)' = LiveTokensOf(d)
  BY <1>2, <1>4, <1>6, <1>7 DEF LiveTokensOf
<1>10. PhaseOf(c)' = "live"
  BY <1>1, <1>8, PhasesNext DEF PhasesAreKnown
<1>11. \A d \in Code \ {c} : PhaseOf(d)' = PhaseOf(d)
  BY <1>3, <1>9 DEF PhaseOf
<1>12. {t \in Token : tokens[t].state # "absent"}'
         = {t \in Token : tokens[t].state # "absent"} \cup {n}
  BY <1>1, <1>2, <1>4
<1> QED BY <1>1, <1>5, <1>8, <1>9, <1>10, <1>11, <1>12 DEF Ledger!Redeem

LEMMA RefreshingIsRotate ==
  ASSUME IInv, IInv', NEW p \in Request, CommitRefresh(p),
         NEW t, t = req[p].token, NEW n, n = new[p], NEW c, c = tokens[t].code
  PROVE  Ledger!Rotate(c, t, n) /\ c \in Code /\ t \in Token /\ n \in Token
<1>1. /\ t \in StoredTokens /\ Live(t) /\ t \in Token /\ tokens[t] \in TokenRow
      /\ n \in Token /\ tokens[n].state = "absent" /\ n # t /\ tokens[t].state = "stored"
      /\ UNCHANGED codes
  BY DEF CommitRefresh, IInv, LockedRowsHold, NewTokensAreFresh, TypeOK, StoredTokens
<1>2. c \in Code
  BY <1>1 DEF IInv, StoredTokensAreRooted, StoredCodes
<1>3. /\ tokens'[n] = [tokens[t] EXCEPT !.revoked = FALSE, !.next = None]
      /\ tokens'[t] = [tokens[t] EXCEPT !.next = n]
      /\ \A u \in Token \ {t, n} : tokens'[u] = tokens[u]
  BY <1>1 DEF CommitRefresh, Successor
<1>4. /\ tokens'[n].state = "stored" /\ tokens'[n].code = c
      /\ ~tokens'[n].revoked /\ tokens'[n].next = None
      /\ tokens'[t].state = "stored" /\ tokens'[t].code = c /\ tokens'[t].next = n
  BY <1>1, <1>3 DEF TokenRow
<1>5. /\ ~Live(n) /\ Live(n)' /\ ~Live(t)'
      /\ \A u \in Token \ {t, n} : Live(u)' <=> Live(u)
  BY <1>1, <1>3, <1>4, RowsAreDistinct DEF Live, StoredTokens
<1>6. LiveTokensOf(c) = {t} /\ PhaseOf(c) = "live"
  BY <1>1, <1>2, Phases DEF PhasesAreKnown, LiveTokensOf
<1>7. LiveTokensOf(c)' = {n}
  <2>1. ASSUME NEW u \in Token, u \notin {t, n} PROVE ~(Live(u)' /\ tokens'[u].code = c)
    BY <1>3, <1>5, <1>6, <2>1 DEF LiveTokensOf
  <2> QED BY <1>1, <1>4, <1>5, <2>1 DEF LiveTokensOf
<1>8. \A d \in Code \ {c} : LiveTokensOf(d)' = LiveTokensOf(d)
  <2> SUFFICES ASSUME NEW d \in Code \ {c}, NEW u \in Token
               PROVE  Live(u)' /\ tokens'[u].code = d <=> Live(u) /\ tokens[u].code = d
    BY DEF LiveTokensOf
  <2>1. CASE u \in {t, n}
    BY <1>4, <1>5, <2>1
  <2>2. CASE u \notin {t, n}
    BY <1>3, <1>5, <2>2
  <2> QED BY <2>1, <2>2
<1>9. \A d \in Code : PhaseOf(d)' = PhaseOf(d)
  <2>1. \A d \in Code : LiveTokensOf(d)' = {} <=> LiveTokensOf(d) = {}
    BY <1>6, <1>7, <1>8
  <2> QED BY <1>1, <2>1 DEF PhaseOf
<1>10. {u \in Token : tokens[u].state # "absent"}'
         = {u \in Token : tokens[u].state # "absent"} \cup {n}
  <2>1. ASSUME NEW u \in Token
        PROVE  tokens'[u].state # "absent" <=> tokens[u].state # "absent" \/ u = n
    <3>1. CASE u \in {t, n}
      BY <1>1, <1>4, <3>1
    <3>2. CASE u \notin {t, n}
      BY <1>3, <3>2
    <3> QED BY <3>1, <3>2
  <2> QED BY <1>1, <2>1
<1> QED BY <1>1, <1>2, <1>6, <1>7, <1>8, <1>9, <1>10 DEF Ledger!Rotate

LEMMA RevokingIsEnd ==
  ASSUME IInv, IInv', NEW p \in Request, CommitRevocation(p)
  PROVE  \E S \in SUBSET Code : Ledger!End(S)
<1> PICK S \in SUBSET Code : S = {c \in Code : LiveTokensOf(c)' # LiveTokensOf(c)}
  OBVIOUS
<1>1. /\ UNCHANGED codes
      /\ \A t \in Token : /\ tokens[t] \in TokenRow
                          /\ \/ tokens'[t] = tokens[t]
                             \/ tokens'[t] = [tokens[t] EXCEPT !.revoked = TRUE]
  BY DEF CommitRevocation, IInv, TypeOK
<1>2. \A t \in Token :
        /\ tokens'[t].state = tokens[t].state /\ tokens'[t].code = tokens[t].code
        /\ Live(t)' => Live(t)
  BY <1>1 DEF TokenRow, Live, StoredTokens
<1>3. \A c \in Code : LiveTokensOf(c)' \subseteq LiveTokensOf(c)
  BY <1>2 DEF LiveTokensOf
<1>4. ASSUME NEW c \in S PROVE PhaseOf(c) = "live" /\ PhaseOf(c)' = "ended"
  <2>1. LiveTokensOf(c) # {} /\ LiveTokensOf(c)' = {}
    BY <1>3, Phases DEF PhasesAreKnown
  <2>2. codes[c].state = "stored" /\ codes[c].used
    BY <2>1, Phases DEF PhasesAreKnown, StoredCodes
  <2> QED BY <1>1, <2>1, <2>2 DEF PhaseOf
<1>5. \A c \in Code \ S : PhaseOf(c)' = PhaseOf(c) /\ LiveTokensOf(c)' = LiveTokensOf(c)
  BY <1>1 DEF PhaseOf
<1>6. UNCHANGED {t \in Token : tokens[t].state # "absent"}
  BY <1>2
<1> QED BY <1>4, <1>5, <1>6, EndingIsEnd

LEMMA DeletingIsEnd ==
  ASSUME IInv, IInv', NEW p \in Request, CommitDelete(p)
  PROVE  \E S \in SUBSET Code : Ledger!End(S)
<1> PICK cl : cl = req[p].client
  OBVIOUS
<1> PICK S \in SUBSET Code :
      S = {c \in StoredCodes : codes[c].client = cl /\ PhaseOf(c) \in {"open", "live"}}
  BY DEF StoredCodes
<1>1. /\ \A c \in Code : IF c \in StoredCodes /\ codes[c].client = cl
                          THEN codes'[c].state = "deleted"
                          ELSE codes'[c] = codes[c]
      /\ \A t \in Token : IF t \in StoredTokens /\ tokens[t].client = cl
                           THEN tokens'[t].state = "deleted"
                           ELSE tokens'[t] = tokens[t]
  BY RowsAreDistinct DEF CommitDelete, RowsOfClient, NoCode, NoToken, StoredCodes, StoredTokens
<1>2. \A t \in StoredTokens : tokens[t].code \in StoredCodes /\ codes[tokens[t].code].client = tokens[t].client
  BY DEF IInv, StoredTokensAreRooted
<1>3. \A c \in StoredCodes : codes[c].client = cl => LiveTokensOf(c)' = {} /\ PhaseOf(c)' = "ended"
  <2> SUFFICES ASSUME NEW c \in StoredCodes, codes[c].client = cl
               PROVE  LiveTokensOf(c)' = {} /\ PhaseOf(c)' = "ended"
    OBVIOUS
  <2>1. codes'[c].state = "deleted" /\ c \in Code
    BY <1>1 DEF StoredCodes
  <2>2. LiveTokensOf(c)' = {}
    BY <2>1, PhasesNext DEF PhasesAreKnown, StoredCodes
  <2> QED BY <2>1, <2>2 DEF PhaseOf
<1>4. ASSUME NEW c \in Code, ~(c \in StoredCodes /\ codes[c].client = cl)
      PROVE  LiveTokensOf(c)' = LiveTokensOf(c) /\ PhaseOf(c)' = PhaseOf(c)
  <2>1. ASSUME NEW t \in Token
        PROVE  Live(t)' /\ tokens'[t].code = c <=> Live(t) /\ tokens[t].code = c
    <3>1. CASE t \in StoredTokens /\ tokens[t].client = cl
      BY <1>1, <1>2, <1>4, <3>1 DEF Live, StoredTokens
    <3>2. CASE ~(t \in StoredTokens /\ tokens[t].client = cl)
      BY <1>1, <3>2 DEF Live, StoredTokens
    <3> QED BY <3>1, <3>2
  <2>2. LiveTokensOf(c)' = LiveTokensOf(c)
    BY <2>1 DEF LiveTokensOf
  <2> QED BY <1>1, <1>4, <2>2 DEF PhaseOf
<1>6. \A c \in S : PhaseOf(c) \in {"open", "live"} /\ PhaseOf(c)' = "ended"
  BY <1>3
<1>7. \A c \in Code \ S : PhaseOf(c)' = PhaseOf(c) /\ LiveTokensOf(c)' = LiveTokensOf(c)
  <2> SUFFICES ASSUME NEW c \in Code \ S, c \in StoredCodes, codes[c].client = cl
               PROVE  PhaseOf(c)' = PhaseOf(c) /\ LiveTokensOf(c)' = LiveTokensOf(c)
    BY <1>4
  <2>1. PhaseOf(c) = "ended" /\ LiveTokensOf(c) = {}
    BY Phases DEF PhasesAreKnown, StoredCodes
  <2> QED BY <1>3, <2>1
<1>8. UNCHANGED {t \in Token : tokens[t].state # "absent"}
  BY <1>1 DEF StoredTokens
<1> QED BY <1>6, <1>7, <1>8, EndingIsEnd

\* The steps that change a code or a token.
LEMMA RowWriters ==
  ASSUME [Next]_vars
  PROVE  \/ UNCHANGED <<codes, tokens>>
         \/ \E c \in Code : IssueCode(c)
         \/ \E p \in Request : \/ RejectBindings(p) \/ CommitExchange(p) \/ CommitRefresh(p)
                               \/ CommitRevocation(p) \/ CommitDelete(p)
BY TokenWriters, CodeWriters

LEMMA LedgerStep ==
  ASSUME IInv, IInv', [Next]_vars
  PROVE  [Ledger!Next]_(Ledger!ledger)
<1>1. CASE UNCHANGED <<codes, tokens>>
  BY <1>1, LedgerUnchanged
<1>2. ASSUME NEW c \in Code, IssueCode(c) PROVE Ledger!Next
  BY <1>2, IssuingIsOpen DEF Ledger!Next
<1>3. ASSUME NEW p \in Request, RejectBindings(p) \/ (CommitExchange(p) /\ new[p] = None)
      PROVE  Ledger!Next
  <2>1. /\ req[p].code \in StoredCodes /\ ~codes[req[p].code].used
        /\ codes' = [codes EXCEPT ![req[p].code].used = TRUE]
    BY <1>3 DEF RejectBindings, CommitExchange, IInv, LockedRowsHold
  <2>2. UNCHANGED tokens
    <3>1. CASE RejectBindings(p)
      BY <3>1 DEF RejectBindings
    <3>2. CASE CommitExchange(p) /\ new[p] = None
      <4>1. tokens' = [t \in Token |-> tokens[t]]
        BY <3>2, RowsAreDistinct DEF CommitExchange
      <4> QED BY <4>1 DEF IInv, TypeOK
    <3> QED BY <1>3, <3>1, <3>2
  <2>3. {req[p].code} \in SUBSET Code
    BY <2>1 DEF StoredCodes
  <2> QED BY <2>1, <2>2, <2>3, SpendingIsEnd DEF Ledger!Next
<1>4. ASSUME NEW p \in Request, CommitExchange(p), new[p] # None PROVE Ledger!Next
  BY <1>4, RedeemingIsRedeem DEF Ledger!Next
<1>5. ASSUME NEW p \in Request, CommitRefresh(p) PROVE Ledger!Next
  BY <1>5, RefreshingIsRotate DEF Ledger!Next
<1>6. ASSUME NEW p \in Request, CommitRevocation(p) \/ CommitDelete(p) PROVE Ledger!Next
  BY <1>6, RevokingIsEnd, DeletingIsEnd DEF Ledger!Next
<1> QED BY <1>1, <1>2, <1>3, <1>4, <1>5, <1>6, RowWriters

\* For every number of requests, clients, codes and tokens, the handlers with
\* their statements, locks and failures are the atomic ledger: each commit is one
\* of its steps, everything else changes nothing it shows.
THEOREM Refinement == Spec => ImplementsLedger
<1>1. Init => Ledger!Init
  <2> SUFFICES ASSUME Init PROVE Ledger!Init
    OBVIOUS
  <2>1. /\ \A c \in Code : codes[c].state = "absent"
        /\ \A t \in Token : tokens[t].state = "absent"
    BY DEF Init, NoCode, NoToken
  <2>2. \A c \in Code : LiveTokensOf(c) = {}
    BY <2>1 DEF LiveTokensOf, Live, StoredTokens
  <2> QED BY <2>1, <2>2 DEF Ledger!Init, PhaseOf
<1>2. IInv /\ IInv' /\ [Next]_vars => [Ledger!Next]_(Ledger!ledger)
  BY LedgerStep
<1> QED BY <1>1, <1>2, Invariance, PTL DEF Spec, Ledger!Spec, ImplementsLedger
===========================================================================
