--------------------------- MODULE TokenEndpoint ---------------------------
(***************************************************************************)
(* POST /oauth/token (both grants), POST /oauth/revoke and the deletion of *)
(* an application, as concurrent requests over one PostgreSQL database.    *)
(*                                                                         *)
(* A request authenticates its client outside any transaction, then runs   *)
(* the statements of its handler in order.  The database runs at READ      *)
(* COMMITTED, sqlx's and PostgreSQL's default, which the code never        *)
(* changes:                                                                *)
(*   - a write is private to its transaction until the commit, and the row *)
(*     it writes stays locked until then;                                  *)
(*   - SELECT ... FOR UPDATE, and an UPDATE that meets a locked row, wait  *)
(*     for the lock and then act on the newest committed version;          *)
(*   - an UPDATE over many rows picks them from a snapshot taken when the  *)
(*     statement starts, so a row committed later is not among them;       *)
(*   - INSERT of a row with a foreign key pins the row it points at        *)
(*     (FOR KEY SHARE), and DELETE of that row waits for the pin.          *)
(* codes, tokens and clients are the committed tables.  held, new and seen *)
(* are the open transaction of each request; nothing of them is visible to *)
(* another request but the locks.  Ids are UUIDs and never come back: a    *)
(* deleted row keeps its id.                                               *)
(***************************************************************************)
EXTENDS Naturals, FiniteSets

CONSTANTS
  Request,  \* handlers that run at the same time, each serving one request after another
  Client,   \* rows of oauth_clients
  Code,     \* rows of oauth_authorization_codes
  Token,    \* rows of oauth_refresh_tokens
  None

ASSUME RowsAreDistinct ==
  /\ Client \cap (Code \cup Token) = {}
  /\ Code \cap Token = {}
  /\ None \notin Client \cup Code \cup Token

VARIABLES
  clients,    \* the clients that are registered
  codes,      \* [Code -> CodeRow]
  tokens,     \* [Token -> TokenRow]
  expired,    \* codes and tokens whose expires_at has passed
  delivered,  \* refresh tokens that reached a client app in a response
  pc,         \* where each request stands
  req,        \* what each request was sent
  held,       \* rows the open transaction has locked
  new,        \* the refresh token the request has inserted, to be returned
  seen        \* the rows the UPDATE of a revocation found in its snapshot

store == <<clients, codes, tokens, expired, delivered>>
vars  == <<clients, codes, tokens, expired, delivered, pc, req, held, new, seen>>

States == {"absent", "stored", "deleted"}

CodeRow ==
  [state : States, client : Client \cup {None}, offline : BOOLEAN, used : BOOLEAN]

TokenRow ==
  [state : States, client : Client \cup {None}, code : Code \cup {None},
   family : Token \cup {None}, revoked : BOOLEAN, next : Token \cup {None}]

NoCode  == [state |-> "absent", client |-> None, offline |-> FALSE, used |-> FALSE]
NoToken == [state |-> "absent", client |-> None, code |-> None,
            family |-> None, revoked |-> FALSE, next |-> None]

Operation == {"none", "exchange", "refresh", "revoke", "delete"}

\* The parameters of a request.  Those that are compared once and read nowhere
\* else (redirect_uri, code_verifier, scope) are chosen where they are compared.
\* late: expires_at had passed when the handler read the clock, once, before it
\* opened its transaction and waited for any lock.
Input == [op : Operation, client : Client \cup {None}, code : Code \cup {None},
          token : Token \cup {None}, late : BOOLEAN]

NoInput == [op |-> "none", client |-> None, code |-> None, token |-> None, late |-> FALSE]

Label ==
  {"idle",
   "claim", "missed", "claimed", "issued",   \* authorization_code grant
   "lock", "locked", "rotated",              \* refresh_token grant
   "find", "found",                          \* POST /oauth/revoke
   "delete", "deleting",                     \* deletion of an application
   "revoking",                               \* inside the UPDATE that revokes
   "granted", "refused", "revoked"}          \* committed, response not yet sent

InTransaction ==
  {"claim", "missed", "claimed", "issued", "lock", "locked", "rotated",
   "find", "found", "delete", "deleting", "revoking"}

TypeOK ==
  /\ clients \subseteq Client
  /\ codes \in [Code -> CodeRow]
  /\ tokens \in [Token -> TokenRow]
  /\ expired \subseteq Code \cup Token
  /\ delivered \subseteq Token
  /\ pc \in [Request -> Label]
  /\ req \in [Request -> Input]
  /\ held \in [Request -> SUBSET (Client \cup Code \cup Token)]
  /\ new \in [Request -> Token \cup {None}]
  /\ seen \in [Request -> SUBSET Token]

Init ==
  /\ clients = Client
  /\ codes = [c \in Code |-> NoCode]
  /\ tokens = [t \in Token |-> NoToken]
  /\ expired = {}
  /\ delivered = {}
  /\ pc = [p \in Request |-> "idle"]
  /\ req = [p \in Request |-> NoInput]
  /\ held = [p \in Request |-> {}]
  /\ new = [p \in Request |-> None]
  /\ seen = [p \in Request |-> {}]

---------------------------------------------------------------------------
(* Rows and locks *)

StoredTokens == {t \in Token : tokens[t].state = "stored"}
StoredCodes  == {c \in Code : codes[c].state = "stored"}

\* No other open transaction has the row locked.
Free(p, r) == \A q \in Request \ {p} : r \notin held[q]

\* Request q has an uncommitted refresh token that points at client cl.
Pins(q, cl) ==
  pc[q] \in {"issued", "rotated"} /\ new[q] # None /\ req[q].client = cl

\* An id that no stored, deleted or uncommitted token has.
Unissued(t) == tokens[t].state = "absent" /\ \A q \in Request : new[q] # t

\* Variant: the foreign key of the refresh tokens does not cascade.
RowsOfClientNoTokenCascade(cl) == {c \in StoredCodes : codes[c].client = cl}

RowsOfClient(cl) ==
  {c \in StoredCodes : codes[c].client = cl} \cup
  {t \in StoredTokens : tokens[t].client = cl}

LiveInFamily(f) == {t \in StoredTokens : tokens[t].family = f /\ ~tokens[t].revoked}

Goto(p, label) == pc' = [pc EXCEPT ![p] = label]

\* The request ends: a rollback when its transaction is still open.
Finish(p) ==
  /\ Goto(p, "idle")
  /\ req' = [req EXCEPT ![p] = NoInput]
  /\ held' = [held EXCEPT ![p] = {}]
  /\ new' = [new EXCEPT ![p] = None]
  /\ seen' = [seen EXCEPT ![p] = {}]

\* The transaction commits: its locks go, its response is still to be sent.
Committed(p, label) ==
  /\ Goto(p, label)
  /\ held' = [held EXCEPT ![p] = {}]
  /\ UNCHANGED <<req, new, seen, expired, delivered>>

Lock(p, r) == held' = [held EXCEPT ![p] = @ \cup {r}]

---------------------------------------------------------------------------
(* The requests and the environment *)

\* client::authenticate has found the client; requests that fail before any
\* statement that writes change nothing and are not steps.
Start(p, input, label) ==
  /\ pc[p] = "idle"
  /\ input.client \in clients
  /\ req' = [req EXCEPT ![p] = input]
  /\ Goto(p, label)
  /\ UNCHANGED <<store, held, new, seen>>

StartExchange(p) ==
  \E cl \in clients, c \in Code :
    /\ codes[c].state # "absent"
    /\ Start(p, [op |-> "exchange", client |-> cl, code |-> c,
                 token |-> None, late |-> c \in expired], "claim")

StartRefresh(p) ==
  \E cl \in clients, t \in delivered :
    Start(p, [op |-> "refresh", client |-> cl, code |-> None,
              token |-> t, late |-> t \in expired], "lock")

StartRevoke(p) ==
  \E cl \in clients, t \in delivered :
    Start(p, [op |-> "revoke", client |-> cl, code |-> None,
              token |-> t, late |-> FALSE], "find")

StartDelete(p) ==
  \E cl \in clients :
    Start(p, [op |-> "delete", client |-> cl, code |-> None,
              token |-> None, late |-> FALSE], "delete")

\* authorization::issue_code: one INSERT, committed on its own.
IssueCode(c) ==
  /\ codes[c].state = "absent"
  /\ \E cl \in clients, offline \in BOOLEAN :
       /\ \A q \in Request : cl \notin held[q]
       /\ codes' = [codes EXCEPT ![c] = [state |-> "stored", client |-> cl,
                                         offline |-> offline, used |-> FALSE]]
  /\ UNCHANGED <<clients, tokens, expired, delivered, pc, req, held, new, seen>>

\* Time passes expires_at of a row.
Expire(r) ==
  /\ r \in (StoredCodes \cup StoredTokens) \ expired
  /\ expired' = expired \cup {r}
  /\ UNCHANGED <<clients, codes, tokens, delivered, pc, req, held, new, seen>>

\* The connection drops, the process stops, signing or a statement fails, or
\* PostgreSQL picks the transaction as the victim of a deadlock: a rollback.
Abort(p) ==
  /\ pc[p] \in InTransaction
  /\ Finish(p)
  /\ UNCHANGED store

---------------------------------------------------------------------------
(* grant_type=authorization_code *)

\* Variant: the claim without its condition used_at IS NULL.
ClaimAnyCode(p) ==
  LET c == req[p].code IN
  /\ pc[p] = "claim" /\ codes[c].state = "stored"
  /\ Free(p, c) /\ Lock(p, c) /\ Goto(p, "claimed")
  /\ UNCHANGED <<store, req, new, seen>>

\* UPDATE ... SET used_at WHERE code_hash = $1 AND used_at IS NULL RETURNING *:
\* waits for the row unless its committed version is already used.
Claim(p) ==
  LET c == req[p].code IN
  /\ pc[p] = "claim"
  /\ codes[c].state = "stored" /\ ~codes[c].used
  /\ Free(p, c)
  /\ Lock(p, c)
  /\ Goto(p, "claimed")
  /\ UNCHANGED <<store, req, new, seen>>

\* No row came back: the code is used, or its client is gone.
ClaimMisses(p) ==
  LET c == req[p].code IN
  /\ pc[p] = "claim"
  /\ codes[c].state = "deleted" \/ codes[c].used
  /\ Goto(p, "missed")
  /\ UNCHANGED <<store, req, held, new, seen>>

\* find_by_hash returns nothing either: the transaction is dropped.
UnknownCode(p) ==
  /\ pc[p] = "missed"
  /\ codes[req[p].code].state = "deleted"
  /\ Finish(p)
  /\ UNCHANGED store

\* The used code is found: start the UPDATE over the families it produced.
ReplayedCode(p) ==
  LET families == {tokens[t].family : t \in
                     {u \in StoredTokens : tokens[u].code = req[p].code}} IN
  /\ pc[p] = "missed"
  /\ codes[req[p].code].state = "stored"
  /\ seen' = [seen EXCEPT ![p] = UNION {LiveInFamily(f) : f \in families}]
  /\ Goto(p, "revoking")
  /\ UNCHANGED <<store, req, held, new>>

\* check_code_bindings; match: redirect_uri and code_verifier are the code's.
BindingsHold(p, match) ==
  codes[req[p].code].client = req[p].client /\ ~req[p].late /\ match

\* Variant: a failed check drops the transaction instead of committing it.
RejectBindingsRollback(p) ==
  /\ pc[p] = "claimed"
  /\ Committed(p, "refused")
  /\ UNCHANGED <<clients, codes, tokens>>

\* The bindings fail: the transaction commits and the code stays used.
RejectBindings(p) ==
  LET c == req[p].code IN
  /\ pc[p] = "claimed"
  /\ \E match \in BOOLEAN : ~BindingsHold(p, match)
  /\ codes' = [codes EXCEPT ![c].used = TRUE]
  /\ Committed(p, "refused")
  /\ UNCHANGED <<clients, tokens>>

\* refresh::issue: the INSERT pins the client, or waits while it is being
\* deleted.  Bound: the ids of Token; with none left only Abort ends the request.
Insert(p, label) ==
  /\ \A q \in Request \ {p} : req[p].client \notin held[q]
  /\ \E t \in Token : Unissued(t) /\ new' = [new EXCEPT ![p] = t]
  /\ Goto(p, label)
  /\ UNCHANGED <<store, req, held, seen>>

IssueFirst(p) ==
  /\ pc[p] = "claimed"
  /\ BindingsHold(p, TRUE)
  /\ codes[req[p].code].offline
  /\ Insert(p, "issued")

\* Without offline_access the JWTs are the whole response.
IssueNoRefreshToken(p) ==
  /\ pc[p] = "claimed"
  /\ BindingsHold(p, TRUE)
  /\ ~codes[req[p].code].offline
  /\ Goto(p, "issued")
  /\ UNCHANGED <<store, req, held, new, seen>>

\* The row of the first refresh token of a sign-in: it names a new family.
FirstToken(p) ==
  [state |-> "stored", client |-> req[p].client, code |-> req[p].code,
   family |-> new[p], revoked |-> FALSE, next |-> None]

\* Variant: the response is built without the commit.
CommitExchangeForgotten(p) ==
  /\ pc[p] = "issued"
  /\ Committed(p, "granted")
  /\ UNCHANGED <<clients, codes, tokens>>

CommitExchange(p) ==
  /\ pc[p] = "issued"
  /\ codes' = [codes EXCEPT ![req[p].code].used = TRUE]
  /\ tokens' = [t \in Token |-> IF t = new[p] THEN FirstToken(p) ELSE tokens[t]]
  /\ Committed(p, "granted")
  /\ UNCHANGED clients

---------------------------------------------------------------------------
(* grant_type=refresh_token *)

\* Variant: find_by_hash instead of find_by_hash_for_update.
LockTokenPlainSelect(p) ==
  /\ pc[p] = "lock" /\ tokens[req[p].token].state = "stored"
  /\ Goto(p, "locked")
  /\ UNCHANGED <<store, req, held, new, seen>>

\* SELECT ... WHERE token_hash = $1 FOR UPDATE.
LockToken(p) ==
  LET t == req[p].token IN
  /\ pc[p] = "lock"
  /\ tokens[t].state = "stored"
  /\ Free(p, t)
  /\ Lock(p, t)
  /\ Goto(p, "locked")
  /\ UNCHANGED <<store, req, new, seen>>

UnknownToken(p) ==
  /\ pc[p] = "lock"
  /\ tokens[req[p].token].state = "deleted"
  /\ Finish(p)
  /\ UNCHANGED store

\* Variant: a revoked token is not told from a usable one.
CheckUsableIgnoresRevoked(t, cl, late) ==
  IF tokens[t].client # cl THEN "WrongClient"
  ELSE IF tokens[t].next # None THEN "AlreadyRotated"
  ELSE IF late THEN "Expired"
  ELSE "Usable"

\* RefreshToken::check_usable, in its order, as the lock let the row be read.
CheckUsable(t, cl, late) ==
  IF tokens[t].client # cl THEN "WrongClient"
  ELSE IF tokens[t].revoked THEN "Revoked"
  ELSE IF tokens[t].next # None THEN "AlreadyRotated"
  ELSE IF late THEN "Expired"
  ELSE "Usable"

Verdict(p) == CheckUsable(req[p].token, req[p].client, req[p].late)

\* Variant: the early return leaves the transaction open on its connection.
RefuseRefreshLeaksLock(p) ==
  /\ pc[p] = "locked" /\ Verdict(p) # "AlreadyRotated"
  /\ Goto(p, "idle")
  /\ UNCHANGED <<store, req, held, new, seen>>

\* Unusable for another reason than rotation, or a wider scope: a rollback.
RefuseRefresh(p) ==
  /\ pc[p] = "locked"
  /\ \/ Verdict(p) \in {"WrongClient", "Revoked", "Expired"}
     \/ Verdict(p) = "Usable"  \* the scope is malformed or exceeds the grant
  /\ Finish(p)
  /\ UNCHANGED store

\* UPDATE ... SET revoked_at WHERE family_id = $1 AND revoked_at IS NULL
\* starts: its snapshot fixes the rows it will visit.
StartRevokingFamily(p) ==
  /\ seen' = [seen EXCEPT ![p] = LiveInFamily(tokens[req[p].token].family)]
  /\ Goto(p, "revoking")
  /\ UNCHANGED <<store, req, held, new>>

ReplayedToken(p) ==
  /\ pc[p] = "locked"
  /\ Verdict(p) = "AlreadyRotated"
  /\ StartRevokingFamily(p)

Rotate(p) ==
  /\ pc[p] = "locked"
  /\ Verdict(p) = "Usable"
  /\ Insert(p, "rotated")

\* Variant: the successor begins a family of its own.
SuccessorInNewFamily(p) ==
  [tokens[req[p].token] EXCEPT !.revoked = FALSE, !.next = None, !.family = new[p]]

\* The successor keeps family, code and client.
Successor(p) ==
  [tokens[req[p].token] EXCEPT !.revoked = FALSE, !.next = None]

\* Variant: the commit without mark_rotated.
CommitRefreshUnmarked(p) ==
  /\ pc[p] = "rotated"
  /\ tokens' = [tokens EXCEPT ![new[p]] = Successor(p)]
  /\ Committed(p, "granted")
  /\ UNCHANGED <<clients, codes>>

\* mark_rotated, then the commit.
CommitRefresh(p) ==
  /\ pc[p] = "rotated"
  /\ tokens' = [t \in Token |->
                  IF t = new[p] THEN Successor(p)
                  ELSE IF t = req[p].token THEN [tokens[t] EXCEPT !.next = new[p]]
                  ELSE tokens[t]]
  /\ Committed(p, "granted")
  /\ UNCHANGED <<clients, codes>>

---------------------------------------------------------------------------
(* POST /oauth/revoke, and the UPDATE the three revocations share *)

\* find_by_hash, outside any transaction: unknown tokens are answered 200,
\* tokens of another client with an error.
FindNothingToRevoke(p) ==
  /\ pc[p] = "find"
  /\ \/ tokens[req[p].token].state = "deleted"
     \/ tokens[req[p].token].client # req[p].client
  /\ Finish(p)
  /\ UNCHANGED store

FindToRevoke(p) ==
  /\ pc[p] = "find"
  /\ tokens[req[p].token].state = "stored"
  /\ tokens[req[p].token].client = req[p].client
  /\ Goto(p, "found")
  /\ UNCHANGED <<store, req, held, new, seen>>

RevokeFamily(p) ==
  /\ pc[p] = "found"
  /\ StartRevokingFamily(p)

\* Variant: the UPDATE does not wait for a row that is locked.
VisitRowWithoutWaiting(p, t) ==
  /\ pc[p] = "revoking" /\ t \in seen[p] \ held[p] /\ tokens[t].state = "stored"
  /\ Lock(p, t)
  /\ UNCHANGED <<store, pc, req, new, seen>>

\* The UPDATE reaches one of its rows, waiting for the row's lock.
VisitRow(p, t) ==
  /\ pc[p] = "revoking"
  /\ t \in seen[p] \ held[p]
  /\ tokens[t].state = "stored"
  /\ Free(p, t)
  /\ Lock(p, t)
  /\ UNCHANGED <<store, pc, req, new, seen>>

\* Variant: rows that are locked by a refresh are skipped.
CommitRevocationSkipLocked(p) ==
  /\ pc[p] = "revoking"
  /\ \A t \in seen[p] : t \in held[p] \/ tokens[t].state = "deleted" \/ ~Free(p, t)
  /\ tokens' = [t \in Token |-> IF t \in seen[p] \cap held[p]
                                THEN [tokens[t] EXCEPT !.revoked = TRUE]
                                ELSE tokens[t]]
  /\ Committed(p, "revoked")
  /\ UNCHANGED <<clients, codes>>

\* Every row is updated; a row deleted meanwhile is skipped.  The commit of
\* the transaction, or of the single statement of /oauth/revoke.
CommitRevocation(p) ==
  /\ pc[p] = "revoking"
  /\ \A t \in seen[p] : t \in held[p] \/ tokens[t].state = "deleted"
  /\ tokens' = [t \in Token |-> IF t \in seen[p] \cap held[p]
                                THEN [tokens[t] EXCEPT !.revoked = TRUE]
                                ELSE tokens[t]]
  /\ Committed(p, "revoked")
  /\ UNCHANGED <<clients, codes>>

---------------------------------------------------------------------------
(* Deletion of an application: one DELETE whose cascades run inside it *)

\* The row of the client is locked once no open INSERT pins it.
LockClient(p) ==
  LET cl == req[p].client IN
  /\ pc[p] = "delete"
  /\ cl \in clients
  /\ Free(p, cl)
  /\ \A q \in Request : ~Pins(q, cl)
  /\ Lock(p, cl)
  /\ Goto(p, "deleting")
  /\ UNCHANGED <<store, req, new, seen>>

ClientAlreadyDeleted(p) ==
  /\ pc[p] = "delete"
  /\ req[p].client \notin clients
  /\ Finish(p)
  /\ UNCHANGED store

CascadeRow(p, r) ==
  /\ pc[p] = "deleting"
  /\ r \in RowsOfClient(req[p].client) \ held[p]
  /\ Free(p, r)
  /\ Lock(p, r)
  /\ UNCHANGED <<store, pc, req, new, seen>>

CommitDelete(p) ==
  LET rows == RowsOfClient(req[p].client) IN
  /\ pc[p] = "deleting"
  /\ rows \subseteq held[p]
  /\ clients' = clients \ {req[p].client}
  /\ codes' = [c \in Code |-> IF c \in rows
                              THEN [NoCode EXCEPT !.state = "deleted"] ELSE codes[c]]
  /\ tokens' = [t \in Token |-> IF t \in rows
                                THEN [NoToken EXCEPT !.state = "deleted"] ELSE tokens[t]]
  /\ expired' = expired \ rows
  /\ Finish(p)
  /\ UNCHANGED delivered

---------------------------------------------------------------------------
(* Responses *)

Respond(p) ==
  /\ pc[p] \in {"granted", "refused", "revoked"}
  /\ delivered' = delivered \cup ({new[p]} \ {None})
  /\ Finish(p)
  /\ UNCHANGED <<clients, codes, tokens, expired>>

\* The commit stands, the response never arrives.
LoseResponse(p) ==
  /\ pc[p] \in {"granted", "refused", "revoked"}
  /\ Finish(p)
  /\ UNCHANGED store

ExchangeStep(p) ==
  \/ Claim(p) \/ ClaimMisses(p) \/ UnknownCode(p) \/ ReplayedCode(p)
  \/ RejectBindings(p) \/ IssueFirst(p) \/ IssueNoRefreshToken(p) \/ CommitExchange(p)

RefreshStep(p) ==
  \/ LockToken(p) \/ UnknownToken(p) \/ RefuseRefresh(p) \/ ReplayedToken(p)
  \/ Rotate(p) \/ CommitRefresh(p)

RevokeStep(p) ==
  \/ FindNothingToRevoke(p) \/ FindToRevoke(p) \/ RevokeFamily(p)
  \/ (\E t \in Token : VisitRow(p, t)) \/ CommitRevocation(p)

DeleteStep(p) ==
  \/ LockClient(p) \/ ClientAlreadyDeleted(p)
  \/ (\E r \in Code \cup Token : CascadeRow(p, r)) \/ CommitDelete(p)

\* What the server does for an open request, the response included.
Handler(p) ==
  ExchangeStep(p) \/ RefreshStep(p) \/ RevokeStep(p) \/ DeleteStep(p) \/ Respond(p)

Arrival(p) ==
  StartExchange(p) \/ StartRefresh(p) \/ StartRevoke(p) \/ StartDelete(p)

Next ==
  \/ \E p \in Request : Arrival(p) \/ Handler(p) \/ Abort(p) \/ LoseResponse(p)
  \/ \E c \in Code : IssueCode(c)
  \/ \E r \in Code \cup Token : Expire(r)

Spec == Init /\ [][Next]_vars

---------------------------------------------------------------------------
(* The inductive invariant *)

\* A token an app can still use: neither revoked nor already exchanged.
Live(t) == t \in StoredTokens /\ ~tokens[t].revoked /\ tokens[t].next = None

\* A row has one writer at a time.
LocksAreExclusive ==
  \A p, q \in Request : p # q => held[p] \cap held[q] = {}

\* What a request was sent, for as long as its label says it matters.
LabelsMatchRequests ==
  \A p \in Request :
    /\ pc[p] \in {"claim", "missed", "claimed", "issued"} =>
         /\ req[p].code \in Code /\ req[p].client \in Client
         /\ codes[req[p].code].state # "absent"
    /\ pc[p] \in {"lock", "locked", "rotated", "find", "found"} =>
         req[p].token \in Token /\ req[p].client \in Client
    /\ pc[p] = "missed" => codes[req[p].code].used \/ codes[req[p].code].state = "deleted"
    /\ pc[p] \in {"delete", "deleting"} => req[p].client \in Client

\* What a lock promises until the commit: the row still is what the request read.
LockedRowsHold ==
  \A p \in Request :
    /\ pc[p] \in {"claimed", "issued"} =>
         /\ req[p].code \in held[p] \cap StoredCodes
         /\ ~codes[req[p].code].used
    /\ pc[p] = "issued" => codes[req[p].code].client = req[p].client
    /\ pc[p] \in {"locked", "rotated"} => req[p].token \in held[p] \cap StoredTokens
    /\ pc[p] = "rotated" =>
         Live(req[p].token) /\ tokens[req[p].token].client = req[p].client

\* An inserted token has an id of its own, absent from the table until the commit.
NewTokensAreFresh ==
  \A p \in Request :
    /\ pc[p] \in {"issued", "rotated"} /\ new[p] # None =>
         tokens[new[p]].state = "absent"
    /\ pc[p] = "rotated" => new[p] # None
    /\ pc[p] \notin {"issued", "rotated", "granted"} => new[p] = None
    /\ \A q \in Request : new[p] # None /\ new[q] = new[p] => p = q

\* A stored token names a code that is used, of the same client, and a family
\* whose head was issued.
StoredTokensAreRooted ==
  \A t \in StoredTokens :
    /\ tokens[t].family \in Token
    /\ tokens[tokens[t].family].state # "absent"
    /\ tokens[t].code \in StoredCodes
    /\ codes[tokens[t].code].used
    /\ codes[tokens[t].code].client = tokens[t].client

OneFamilyPerCode ==
  \A t, u \in StoredTokens :
    tokens[t].code = tokens[u].code => tokens[t].family = tokens[u].family

OneLiveTokenPerFamily ==
  \A t, u \in StoredTokens :
    Live(t) /\ Live(u) /\ tokens[t].family = tokens[u].family => t = u

IInv ==
  /\ TypeOK
  /\ LocksAreExclusive
  /\ LabelsMatchRequests
  /\ LockedRowsHold
  /\ NewTokensAreFresh
  /\ StoredTokensAreRooted
  /\ OneFamilyPerCode
  /\ OneLiveTokenPerFamily

---------------------------------------------------------------------------
(* Liveness of the waits *)

AboutToInsert(p) ==
  \/ pc[p] = "claimed" /\ BindingsHold(p, TRUE) /\ codes[req[p].code].offline
  \/ pc[p] = "locked" /\ Verdict(p) = "Usable"

\* Rows a request still has to lock before its statement can end.
Wanted(p) ==
  CASE pc[p] = "claim" -> {c \in StoredCodes : c = req[p].code /\ ~codes[c].used}
    [] pc[p] = "lock" -> StoredTokens \cap {req[p].token}
    [] pc[p] = "revoking" -> (seen[p] \cap StoredTokens) \ held[p]
    [] pc[p] = "delete" -> clients \cap {req[p].client}
    [] pc[p] = "deleting" -> RowsOfClient(req[p].client) \ held[p]
    [] AboutToInsert(p) -> {req[p].client}
    [] OTHER -> {}

\* Requests that p cannot go on without: every row it wants is taken.
WaitsFor(p) ==
  LET holders(r) == {q \in Request \ {p} :
                       r \in held[q] \/ (pc[p] = "delete" /\ Pins(q, req[p].client))}
  IN  IF \A r \in Wanted(p) : holders(r) # {}
      THEN UNION {holders(r) : r \in Wanted(p)} ELSE {}

\* p is on a cycle of waits: a set where each waits for a member, none smaller.
Deadlocked(p) ==
  LET closed(S) == S # {} /\ \A q \in S : WaitsFor(q) \cap S # {}
  IN  \E S \in SUBSET Request :
        p \in S /\ closed(S) /\ \A T \in SUBSET S : closed(T) => T = S

\* PostgreSQL's deadlock detector.
BreakDeadlock(p) == Deadlocked(p) /\ Abort(p)

\* The one effect of the bound on ids: the INSERT the model cannot do fails.
OutOfIds(p) == AboutToInsert(p) /\ (\A t \in Token : ~Unissued(t)) /\ Abort(p)

\* Strong fairness: PostgreSQL queues the waiters of a row, so a request whose
\* lock becomes free again and again gets it.  Requests need not arrive, and
\* nothing need fail.
FairSpec ==
  /\ Spec
  /\ \A p \in Request : SF_vars(Handler(p)) /\ WF_vars(BreakDeadlock(p) \/ OutOfIds(p))

---------------------------------------------------------------------------
(* The abstract specification this one implements *)

LiveTokensOf(c) == {t \in Token : Live(t) /\ tokens[t].code = c}

PhaseOf(c) ==
  CASE codes[c].state = "absent" -> "none"
    [] codes[c].state = "stored" /\ ~codes[c].used -> "open"
    [] LiveTokensOf(c) # {} -> "live"
    [] OTHER -> "ended"

Ledger == INSTANCE GrantLedger WITH
  Grant   <- Code,
  phase   <- [c \in Code |-> PhaseOf(c)],
  current <- [c \in Code |-> LiveTokensOf(c)],
  issued  <- {t \in Token : tokens[t].state # "absent"}

---------------------------------------------------------------------------
(* Properties *)

\* Seen from outside, the concurrent requests with their transactions, locks,
\* failures and lost responses are one ledger changed in single steps: a sign-in
\* is redeemed once, has one current refresh token, each replaced by a new one,
\* and once refused, revoked or deleted it never gets another.
ImplementsLedger == Ledger!Spec

\* Whatever the interleaving of redemptions, refreshes, revocations and
\* failures, the sign-in behind one authorization code has at most one live
\* refresh token: a code makes one family and a family rotates in one line.
\* Rests on the claim (authorization_codes.rs) and on FOR UPDATE.
OneLiveTokenPerCode ==
  \A t, u \in Token :
    Live(t) /\ Live(u) /\ tokens[t].code = tokens[u].code => t = u

\* Tokens of a family form one line: a successor keeps family, code and client,
\* and no token is the successor of two others or of a head.
FamilyIsALine ==
  \A t \in StoredTokens :
    /\ tokens[t].next # None =>
         LET u == tokens[t].next IN
         /\ u \in StoredTokens /\ u # tokens[u].family
         /\ tokens[u].family = tokens[t].family
         /\ tokens[u].code = tokens[t].code /\ tokens[u].client = tokens[t].client
    /\ \A v \in StoredTokens \ {t} :
         tokens[t].next # None => tokens[v].next # tokens[t].next

\* Deleting an application ends every grant it held, also those being issued
\* while it is deleted (client.rs, "every grant it held ends here").
NothingOutlivesItsClient ==
  /\ \A t \in StoredTokens : tokens[t].client \in clients
  /\ \A c \in StoredCodes : codes[c].client \in clients

\* When a revocation has committed, every token that its UPDATE could see is
\* revoked or gone, also those that were locked by a refresh at the time.
RevocationReachesItsSnapshot ==
  \A p \in Request : pc[p] = "revoked" =>
    \A t \in seen[p] : tokens[t].revoked \/ tokens[t].state = "deleted"

\* A code whose redemption was refused for its bindings, or that was presented
\* twice, cannot be redeemed by anyone any more.
RefusedCodeIsSpent ==
  \A p \in Request :
    pc[p] \in {"refused", "revoked"} /\ req[p].op = "exchange" =>
      codes[req[p].code].used \/ codes[req[p].code].state = "deleted"

\* What a client app holds was committed: no response runs ahead of its commit.
DeliveredTokensAreStored == \A t \in delivered : tokens[t].state # "absent"

\* Tokens are granted for a code only by the step that turns it from unused to
\* used, and no step ever makes a used code unused.
CodeIsRedeemedOnce ==
  [][\A p \in Request :
       /\ pc[p] = "issued" /\ pc'[p] = "granted" =>
            ~codes[req[p].code].used /\ codes'[req[p].code].used
       /\ \A c \in StoredCodes : codes[c].used =>
            codes'[c].used \/ codes'[c].state = "deleted"]_vars

\* A token gets a successor only while it is itself live, and neither a
\* revocation nor a successor is ever undone or replaced.
OnlyLiveTokensRotate ==
  [][\A t \in StoredTokens :
       tokens'[t].state # "deleted" =>
         /\ tokens'[t].next # tokens[t].next => Live(t)
         /\ tokens[t].revoked => tokens'[t].revoked]_vars

\* Once every token of a family is revoked, none of that family is ever live
\* again: no refresh that overtook the revocation can bring it back.
RevokedFamilyStaysRevoked ==
  [][\A f \in Token :
       /\ \E t \in StoredTokens : tokens[t].family = f
       /\ LiveInFamily(f) = {}
       => LiveInFamily(f)' = {}]_vars

\* Every request that starts is answered, fails or is broken out of a deadlock.
EveryRequestEnds == \A p \in Request : pc[p] # "idle" ~> pc[p] = "idle"

\* What revocation.rs says of POST /oauth/revoke: "Revoking a refresh token
\* revokes its whole family (every token rotated from the same sign-in)".
RevokeReachesTheFamily ==
  \A p \in Request :
    pc[p] = "revoked" /\ req[p].op = "revoke" =>
      LiveInFamily(tokens[req[p].token].family) = {}

===========================================================================
