--------------------------- MODULE Authorization ---------------------------
(***************************************************************************)
(* The browser's side of the server: /oauth/authorize, /oauth/consent,     *)
(* sign-in and sign-out, and the edits and the deletion of the application *)
(* that ask for access.                                                    *)
(*                                                                         *)
(* A tab shows a page and has at most one request in flight.  All tabs of  *)
(* a browser share its session cookie; a request carries the cookie of the *)
(* moment it was sent.  No handler here opens a transaction: every         *)
(* statement is a step of its own and is committed when it ends.  The      *)
(* server keeps nothing of an authorization request between two requests:  *)
(* it travels in the return address of the sign-in page and in the hidden  *)
(* fields of the consent page.                                             *)
(***************************************************************************)
EXTENDS Naturals, FiniteSets

CONSTANTS
  Tab,
  Browser,
  User,     \* accounts
  Client,   \* rows of oauth_clients
  Scope,    \* rows of oauth_scopes
  Session,  \* ids for rows of user_sessions
  Asks,     \* the authorization requests that apps send
  BrowserOf(_),
  None

Prompts == {P \in SUBSET {"none", "login", "consent"} : "none" \in P => P = {"none"}}

\* An authorization request that parses.  max_age is a yes or no: whether a
\* session is too old for it is in aged.  via: how the request came to be sent.
AuthorizationRequest ==
  [client : Client, scope : SUBSET Scope \ {{}}, prompt : Prompts,
   max_age : BOOLEAN, via : {"app", "decide", "consent"}]

ASSUME AsksAreRequests ==
  /\ Asks \subseteq {r \in AuthorizationRequest : r.via = "app"}
  /\ \A t \in Tab : BrowserOf(t) \in Browser
  /\ None \notin User \cup Session \cup AuthorizationRequest

VARIABLES
  sessions,  \* the user of each active session; None: no row, revoked or expired
  aged,      \* sessions older than the max_age of the requests that have one
  cookie,    \* the session each browser's cookie names
  clients,   \* the clients that are registered
  allowed,   \* allowed_scopes of each client; {}: it lost the requests' redirect URI
  consents,  \* the scopes of oauth_consents for each user and client, {}: no row
  approved,  \* history: the scopes each user has said yes to
  page,      \* what each tab shows
  pc,        \* the next statement of the tab's request
  op,        \* the endpoint and button of the tab's request
  req,       \* the authorization request it carries
  sent,      \* the session its cookie named when it was sent
  who,       \* the user it was resolved to
  read,      \* the consent it has read
  made,      \* the session it has created
  answer     \* the page its response will show

server  == <<sessions, aged, cookie, clients, allowed, consents, approved>>
request == <<op, req, sent>>
vars    == <<server, page, pc, request, who, read, made, answer>>

Page == [at : {"home", "signin", "follow", "consent", "code"},
         req : AuthorizationRequest \cup {None}]

Show(at, r) == [at |-> at, req |-> r]
Home == Show("home", None)

Label == {"user", "resolve", "validate", "read_consent", "read_granted", "upsert",
          "issue", "retire", "create", "end", "respond"}

TypeOK ==
  /\ sessions \in [Session -> User \cup {None}]
  /\ aged \subseteq Session
  /\ cookie \in [Browser -> Session \cup {None}]
  /\ clients \subseteq Client
  /\ allowed \in [Client -> SUBSET Scope]
  /\ consents \in [User \X Client -> SUBSET Scope]
  /\ approved \in [User \X Client -> SUBSET Scope]
  /\ page \in [Tab -> Page]
  /\ pc \in [Tab -> Label]
  /\ op \in [Tab -> {"none", "authorize", "approve", "deny", "signin", "logout"}]
  /\ req \in [Tab -> AuthorizationRequest \cup {None}]
  /\ sent \in [Tab -> Session \cup {None}]
  /\ who \in [Tab -> User \cup {None}]
  /\ read \in [Tab -> SUBSET Scope]
  /\ made \in [Tab -> Session \cup {None}]
  /\ answer \in [Tab -> Page]

Init ==
  /\ sessions = [s \in Session |-> None]
  /\ aged = {}
  /\ cookie = [b \in Browser |-> None]
  /\ clients = Client
  /\ allowed = [cl \in Client |-> Scope]
  /\ consents = [k \in User \X Client |-> {}]
  /\ approved = [k \in User \X Client |-> {}]
  /\ page = [t \in Tab |-> Home]
  /\ pc = [t \in Tab |-> "user"]
  /\ op = [t \in Tab |-> "none"]
  /\ req = [t \in Tab |-> None]
  /\ sent = [t \in Tab |-> None]
  /\ who = [t \in Tab |-> None]
  /\ read = [t \in Tab |-> {}]
  /\ made = [t \in Tab |-> None]
  /\ answer = [t \in Tab |-> Home]

Goto(t, label) == pc' = [pc EXCEPT ![t] = label]

\* The handler returns: the response will show this page.
Answer(t, at, r) ==
  /\ answer' = [answer EXCEPT ![t] = Show(at, r)]
  /\ Goto(t, "respond")

\* The request is over and the tab can send another.
Done(t) ==
  /\ Goto(t, "user")
  /\ op' = [op EXCEPT ![t] = "none"]
  /\ req' = [req EXCEPT ![t] = None]
  /\ sent' = [sent EXCEPT ![t] = None]
  /\ who' = [who EXCEPT ![t] = None]
  /\ read' = [read EXCEPT ![t] = {}]
  /\ made' = [made EXCEPT ![t] = None]
  /\ answer' = [answer EXCEPT ![t] = Home]

\* The request ends with an error page or with an error at the redirect URI, and
\* with it the flow; or that response is lost and the tab keeps its page.
Refuse(t) ==
  /\ Done(t)
  /\ \E p \in {Home, page[t]} : page' = [page EXCEPT ![t] = p]
  /\ UNCHANGED server

---------------------------------------------------------------------------
(* The user and the application *)

Send(t, what, r, label) ==
  /\ pc[t] = "user"
  /\ op' = [op EXCEPT ![t] = what]
  /\ req' = [req EXCEPT ![t] = r]
  /\ sent' = [sent EXCEPT ![t] = cookie[BrowserOf(t)]]
  /\ Goto(t, label)
  /\ UNCHANGED <<server, page, who, read, made, answer>>

\* An app sends the user to /oauth/authorize.
Open(t) ==
  /\ page[t].at = "home"
  /\ \E r \in Asks : Send(t, "authorize", r, "resolve")

\* The redirect to return_to after the sign-in.
Follow(t) == page[t].at = "follow" /\ Send(t, "authorize", page[t].req, "resolve")

\* Allow or Deny on the consent page.
AnswerConsent(t) ==
  /\ page[t].at = "consent"
  /\ \E button \in {"approve", "deny"} : Send(t, button, page[t].req, "resolve")

\* The sign-in or sign-up form, with credentials that are accepted.
SignIn(t) ==
  /\ page[t].at \in {"home", "signin"}
  /\ Send(t, "signin", page[t].req, "retire")

SignOut(t) == page[t].at = "home" /\ Send(t, "logout", None, "end")

\* The user gives up and goes back to the start page.
Leave(t) ==
  /\ pc[t] = "user"
  /\ page[t].at \in {"signin", "consent"}
  /\ page' = [page EXCEPT ![t] = Home]
  /\ UNCHANGED <<server, pc, request, who, read, made, answer>>

---------------------------------------------------------------------------
(* GET|POST /oauth/authorize *)

\* CurrentSession: find_active turns the cookie into a user before any handler
\* runs, or into nobody.
Resolve(t) ==
  /\ pc[t] = "resolve"
  /\ who' = [who EXCEPT ![t] = IF sent[t] = None THEN None ELSE sessions[sent[t]]]
  /\ Goto(t, "validate")
  /\ UNCHANGED <<server, page, request, read, made, answer>>

\* What validate finds: the application may be gone, or its details changed,
\* since the request was made.
IsRegistered(t) == req[t].client \in clients

Validates(t) ==
  /\ pc[t] = "validate"
  /\ IsRegistered(t) /\ req[t].scope \subseteq allowed[req[t].client]

\* validate fails.  Its other checks give one request the same verdict every
\* time, so Asks holds requests that pass them.
RejectRequest(t) ==
  /\ pc[t] = "validate" /\ ~Validates(t)
  /\ op[t] # "authorize" => who[t] # None
  /\ Refuse(t)

NeedsReauthentication(r, s) == "login" \in r.prompt \/ (r.max_age /\ s \in aged)

\* Variant: only a session that is too old is taken for no session.
NotSignedInTooLongAgo(t) == who[t] # None => ~NeedsReauthentication(req[t], sent[t])

SignedInRecently(t) == who[t] # None /\ ~NeedsReauthentication(req[t], sent[t])

\* Variant: the return address keeps the parameters that force a sign-in.
WithReauthentication(r) == [r EXCEPT !.via = "decide"]

WithoutReauthentication(r) ==
  [r EXCEPT !.prompt = @ \ {"login"}, !.max_age = FALSE, !.via = "decide"]

\* Variant: the sign-in page is shown before prompt=none is looked at.
AskToSignInAlways(t) ==
  /\ Validates(t) /\ op[t] = "authorize"
  /\ ~SignedInRecently(t)
  /\ Answer(t, "signin", WithoutReauthentication(req[t]))
  /\ UNCHANGED <<server, page, request, who, read, made>>

\* Nobody is signed in, or not recently enough: sign in, then come back.
AskToSignIn(t) ==
  /\ Validates(t) /\ op[t] = "authorize"
  /\ ~SignedInRecently(t) /\ "none" \notin req[t].prompt
  /\ Answer(t, "signin", WithoutReauthentication(req[t]))
  /\ UNCHANGED <<server, page, request, who, read, made>>

\* prompt=none: login_required.
LoginRequired(t) ==
  /\ Validates(t) /\ op[t] = "authorize"
  /\ ~SignedInRecently(t) /\ "none" \in req[t].prompt
  /\ Refuse(t)

Authenticated(t) ==
  /\ Validates(t) /\ op[t] = "authorize"
  /\ SignedInRecently(t)
  /\ Goto(t, "read_consent")
  /\ UNCHANGED <<server, page, request, who, read, made, answer>>

\* The row of oauth_consents for the user who is signed in.
Key(t) == <<who[t], req[t].client>>

\* Variant: any consent for the application counts as consent to the request.
AlreadyApprovedSomething(t) == consents[Key(t)] # {}

AlreadyApproved(t) == consents[Key(t)] # {} /\ req[t].scope \subseteq consents[Key(t)]

NeedsNoConsentPage(t) == AlreadyApproved(t) /\ "consent" \notin req[t].prompt

\* granted_scopes, then: a code at once, ...
SkipConsent(t) ==
  /\ pc[t] = "read_consent" /\ NeedsNoConsentPage(t)
  /\ Goto(t, "issue")
  /\ UNCHANGED <<server, page, request, who, read, made, answer>>

\* ... or prompt=none: consent_required, ...
ConsentRequired(t) ==
  /\ pc[t] = "read_consent" /\ ~NeedsNoConsentPage(t) /\ "none" \in req[t].prompt
  /\ Refuse(t)

\* ... or the consent page.
AskConsent(t) ==
  /\ pc[t] = "read_consent" /\ ~NeedsNoConsentPage(t) /\ "none" \notin req[t].prompt
  /\ Answer(t, "consent", req[t])
  /\ UNCHANGED <<server, page, request, who, read, made>>

\* issue_code: one INSERT.  What becomes of the row is TokenEndpoint's; here the
\* answer says that it exists.
IssueCode(t) ==
  /\ pc[t] = "issue" /\ IsRegistered(t)
  /\ Answer(t, "code", None)
  /\ UNCHANGED <<server, page, request, who, read, made>>

---------------------------------------------------------------------------
(* POST /oauth/consent *)

\* The session ended while the page was open: sign in, then authorize again
\* with the request as it is.
SessionEndedMeanwhile(t) ==
  /\ pc[t] = "validate" /\ op[t] \in {"approve", "deny"} /\ who[t] = None
  /\ Answer(t, "signin", [req[t] EXCEPT !.via = "consent"])
  /\ UNCHANGED <<server, page, request, who, read, made>>

Deny(t) ==
  /\ Validates(t) /\ op[t] = "deny" /\ who[t] # None
  /\ Refuse(t)

Approve(t) ==
  /\ Validates(t) /\ op[t] = "approve" /\ who[t] # None
  /\ approved' = [approved EXCEPT ![Key(t)] = @ \cup req[t].scope]
  /\ Goto(t, "read_granted")
  /\ UNCHANGED <<sessions, aged, cookie, clients, allowed, consents,
                 page, request, who, read, made, answer>>

\* consent::grant reads the row ...
ReadGranted(t) ==
  /\ pc[t] = "read_granted"
  /\ read' = [read EXCEPT ![t] = consents[Key(t)]]
  /\ Goto(t, "upsert")
  /\ UNCHANGED <<server, page, request, who, made, answer>>

\* ... and writes the union back with INSERT ... ON CONFLICT DO UPDATE.
Upsert(t) ==
  /\ pc[t] = "upsert" /\ IsRegistered(t)
  /\ consents' = [consents EXCEPT ![Key(t)] = read[t] \cup req[t].scope]
  /\ read' = [read EXCEPT ![t] = {}]
  /\ Goto(t, "issue")
  /\ UNCHANGED <<sessions, aged, cookie, clients, allowed, approved,
                 page, request, who, made, answer>>

\* An INSERT whose client was deleted meanwhile fails on its foreign key.
ClientIsGone(t) ==
  /\ pc[t] \in {"upsert", "issue"} /\ ~IsRegistered(t)
  /\ Refuse(t)

---------------------------------------------------------------------------
(* Sign-in and sign-out *)

\* A row that admits nobody and that no cookie or request names any more is not
\* told from one that never was.
Unused(s) ==
  /\ sessions[s] = None
  /\ \A b \in Browser : cookie[b] # s
  /\ \A t \in Tab : sent[t] # s /\ made[t] # s

\* session::revoke of the cookie the request brought.
RevokeSent(t) ==
  sessions' = [s \in Session |-> IF s = sent[t] THEN None ELSE sessions[s]]

\* start_session first ends the session of the cookie, ...
Retire(t) ==
  /\ pc[t] = "retire"
  /\ RevokeSent(t)
  /\ Goto(t, "create")
  /\ UNCHANGED <<aged, cookie, clients, allowed, consents, approved,
                 page, request, who, read, made, answer>>

\* ... then inserts a new one.
Create(t) ==
  /\ pc[t] = "create"
  /\ \E s \in Session, u \in User :
       /\ Unused(s)
       /\ sessions' = [sessions EXCEPT ![s] = u]
       /\ aged' = aged \ {s}
       /\ made' = [made EXCEPT ![t] = s]
  /\ Answer(t, IF req[t] = None THEN "home" ELSE "follow", req[t])
  /\ UNCHANGED <<cookie, clients, allowed, consents, approved,
                 page, request, who, read>>

\* Bound: the ids of Session.  With all of them in use the INSERT fails.
OutOfSessions(t) ==
  /\ pc[t] = "create" /\ \A s \in Session : ~Unused(s)
  /\ Refuse(t)

Logout(t) ==
  /\ pc[t] = "end"
  /\ RevokeSent(t)
  /\ Answer(t, "home", None)
  /\ UNCHANGED <<aged, cookie, clients, allowed, consents, approved,
                 page, request, who, read, made>>

---------------------------------------------------------------------------
(* Responses, failures and the environment *)

\* The cookie once the response has arrived: signing in sets it, out clears it.
CookieAfter(t) ==
  CASE op[t] = "signin" -> made[t]
    [] op[t] = "logout" -> None
    [] OTHER -> cookie[BrowserOf(t)]

\* With a code the browser is back at the application and the flow is over.
Respond(t) ==
  /\ pc[t] = "respond"
  /\ page' = [page EXCEPT ![t] = IF answer[t].at = "code" THEN Home ELSE answer[t]]
  /\ cookie' = [cookie EXCEPT ![BrowserOf(t)] = CookieAfter(t)]
  /\ Done(t)
  /\ UNCHANGED <<sessions, aged, clients, allowed, consents, approved>>

\* The tab still shows its page and may send the same again.
LoseResponse(t) ==
  /\ pc[t] = "respond"
  /\ Done(t)
  /\ UNCHANGED <<server, page>>

\* A statement fails: what earlier statements did stands.
Fail(t) == pc[t] \notin {"user", "respond"} /\ Refuse(t)

\* expires_at of a session passes.
Expire(s) ==
  /\ sessions[s] # None
  /\ sessions' = [sessions EXCEPT ![s] = None]
  /\ UNCHANGED <<aged, cookie, clients, allowed, consents, approved,
                 page, pc, request, who, read, made, answer>>

Age(s) ==
  /\ sessions[s] # None
  /\ aged' = aged \cup {s}
  /\ UNCHANGED <<sessions, cookie, clients, allowed, consents, approved,
                 page, pc, request, who, read, made, answer>>

\* client::update_details: other scopes, or other redirect URIs; consents stay.
UpdateDetails(cl) ==
  /\ cl \in clients
  /\ \E S \in SUBSET Scope : allowed' = [allowed EXCEPT ![cl] = S]
  /\ UNCHANGED <<sessions, aged, cookie, clients, consents, approved,
                 page, pc, request, who, read, made, answer>>

\* client::delete cascades to the consents (and to the codes: TokenEndpoint).
DeleteClient(cl) ==
  /\ cl \in clients
  /\ clients' = clients \ {cl}
  /\ consents' = [k \in User \X Client |-> IF k[2] = cl THEN {} ELSE consents[k]]
  /\ UNCHANGED <<sessions, aged, cookie, allowed, approved,
                 page, pc, request, who, read, made, answer>>

Acts(t) ==
  Open(t) \/ Follow(t) \/ AnswerConsent(t) \/ SignIn(t) \/ SignOut(t) \/ Leave(t)

Handler(t) ==
  \/ Resolve(t) \/ RejectRequest(t) \/ LoginRequired(t) \/ AskToSignIn(t)
  \/ Authenticated(t) \/ SkipConsent(t) \/ ConsentRequired(t) \/ AskConsent(t)
  \/ SessionEndedMeanwhile(t) \/ Deny(t) \/ Approve(t) \/ ReadGranted(t) \/ Upsert(t)
  \/ IssueCode(t) \/ ClientIsGone(t)
  \/ Retire(t) \/ Create(t) \/ OutOfSessions(t) \/ Logout(t)

\* What may come between the user and the application.
Disturbance ==
  \/ \E t \in Tab : LoseResponse(t) \/ Fail(t)
  \/ \E s \in Session : Expire(s) \/ Age(s)
  \/ \E cl \in Client : UpdateDetails(cl) \/ DeleteClient(cl)

Next == (\E t \in Tab : Acts(t) \/ Handler(t) \/ Respond(t)) \/ Disturbance

Spec == Init /\ [][Next]_vars

\* The server answers what it has started, and a user who is shown a page of
\* the flow answers it or leaves.
FairSpec ==
  /\ Spec
  /\ \A t \in Tab :
       /\ WF_vars(Handler(t) \/ Respond(t))
       /\ WF_vars(page[t].at # "home" /\ (Follow(t) \/ AnswerConsent(t) \/ SignIn(t)))

---------------------------------------------------------------------------
(* Properties *)

\* No consent on record and no code goes beyond what its user has approved for
\* its client, whichever tabs, accounts, edits and failures come between.
NothingBeyondApproval ==
  /\ \A k \in User \X Client : consents[k] \subseteq approved[k]
  /\ \A t \in Tab : answer[t].at = "code" => req[t].scope \subseteq approved[Key(t)]

\* A handler past its check works for a user it has resolved, and past the
\* decision on a request that this user has approved.
WithinApproval(t) ==
  /\ pc[t] \in {"resolve", "validate", "read_consent", "read_granted", "upsert", "issue"}
       => req[t] # None
  /\ pc[t] \in {"read_consent", "read_granted", "upsert", "issue"} => who[t] # None
  /\ pc[t] \in {"read_granted", "upsert", "issue"} =>
       req[t].scope \subseteq approved[Key(t)]
  /\ pc[t] = "upsert" => read[t] \subseteq approved[Key(t)]
  /\ answer[t].at = "code" =>
       /\ pc[t] = "respond" /\ who[t] # None /\ req[t] # None
       /\ req[t].scope \subseteq approved[Key(t)]
  /\ answer[t].at \in {"follow", "consent"} => answer[t].req # None
  /\ page[t].at \in {"follow", "consent"} => page[t].req # None

\* The inductive invariant behind NothingBeyondApproval.
ApprovalInv == TypeOK /\ NothingBeyondApproval /\ \A t \in Tab : WithinApproval(t)

\* prompt=none never leads to a page of the server, on any path through sign-in
\* and consent ("Never show UI", authorization.rs).
SilentRequestsShowNothing ==
  \A t \in Tab : page[t].at \in {"signin", "consent"} /\ page[t].req # None =>
    "none" \notin page[t].req.prompt

\* A request that comes back from a sign-in is sent to the sign-in page again
\* only when the session it came back with has ended, or, from a consent page
\* that outlived its session, when it is too old again.
ReturnFromSignInIsFinal ==
  \A t \in Tab :
    op[t] = "authorize" /\ req[t].via # "app" /\ answer[t].at = "signin" =>
      \/ sent[t] = None
      \/ sessions[sent[t]] = None
      \/ req[t].via = "consent" /\ sent[t] \in aged

\* consent.rs says that grant records approval "adding to anything approved
\* earlier": while the application exists its consents only grow.
ApprovalsAreKept ==
  [][\A k \in User \X Client :
       k[2] \in clients' => consents[k] \subseteq consents'[k]]_vars

\* start_session: "Retire any previous session in this browser": a session whose
\* cookie is replaced by that of a fresh sign-in is over.
ReplacedSessionIsOver ==
  [][\A b \in Browser :
       cookie[b] # None /\ cookie'[b] \notin {cookie[b], None} => sessions[cookie[b]] = None]_vars

InFlow(t) == page[t].at \in {"signin", "follow", "consent"} \/ pc[t] # "user"

\* Once sessions stop ending under it and nothing fails, an authorization
\* request reaches the application or an error: no round of sign-in, authorize
\* and consent goes on forever.
EveryFlowEnds ==
  <>[][~Disturbance]_vars => \A t \in Tab : InFlow(t) ~> ~InFlow(t)

===========================================================================
