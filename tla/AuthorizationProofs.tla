------------------------ MODULE AuthorizationProofs -------------------------
(***************************************************************************)
(* What a user has not approved is neither stored as a consent nor granted *)
(* by a code; a request that asks for silence is never shown; and one that *)
(* comes back from a sign-in is not sent there again while its session     *)
(* lives: for any number of tabs, browsers, users, applications, scopes and*)
(* sessions.                                                               *)
(*                                                                         *)
(* NothingBeyondApproval is not inductive: a handler that is past its      *)
(* check, or that holds what it has read, must stay within the approval    *)
(* until it writes.  ApprovalInv adds that, and it is kept because         *)
(* approvals only grow while consents may shrink.                          *)
(*                                                                         *)
(* The other two speak of one state of one tab, but rest on the whole way  *)
(* of the request through pages, hidden fields and return addresses.  Flow *)
(* follows it: what each of them may still ask for, and what the session   *)
(* that a request was sent with has become since.                          *)
(***************************************************************************)
EXTENDS Authorization, TLAPS

---------------------------------------------------------------------------
(* Approval *)

\* Dropping "login" leaves a prompt that parses.
LEMMA WithoutReauthenticationIsRequest ==
  ASSUME NEW r \in AuthorizationRequest
  PROVE  WithoutReauthentication(r) \in AuthorizationRequest
<1>1. r.prompt \ {"login"} \in Prompts
  BY DEF AuthorizationRequest, Prompts
<1> QED BY <1>1 DEF WithoutReauthentication, AuthorizationRequest

\* The end of a request types its variables and its page.
LEMMA DoneTypes ==
  ASSUME TypeOK, NEW t \in Tab, Done(t)
  PROVE  /\ pc' \in [Tab -> Label] /\ req' \in [Tab -> AuthorizationRequest \cup {None}]
         /\ op' \in [Tab -> {"none", "authorize", "approve", "deny", "signin", "logout"}]
         /\ sent' \in [Tab -> Session \cup {None}] /\ who' \in [Tab -> User \cup {None}]
         /\ read' \in [Tab -> SUBSET Scope] /\ made' \in [Tab -> Session \cup {None}]
         /\ answer' \in [Tab -> Page]
BY DEF TypeOK, Done, Goto, Label, Home, Show, Page

\* Answers and the end of a request keep the types.
LEMMA RefuseTypes ==
  ASSUME TypeOK, NEW t \in Tab, Refuse(t)
  PROVE  TypeOK'
<1>1. page' \in [Tab -> Page]
  BY DEF Refuse, TypeOK, Home, Show, Page
<1> QED BY <1>1, DoneTypes DEF Refuse, TypeOK, server

LEMMA AnswerTypes ==
  ASSUME TypeOK, NEW t \in Tab, NEW at \in {"home", "signin", "follow", "consent", "code"},
         NEW r \in AuthorizationRequest \cup {None}, Answer(t, at, r)
  PROVE  answer' \in [Tab -> Page] /\ pc' \in [Tab -> Label]
BY DEF TypeOK, Answer, Goto, Label, Show, Page

\* What the user does: the request is sent with the cookie of the moment.
LEMMA ActsTypes ==
  ASSUME TypeOK, NEW t \in Tab, Acts(t), WithinApproval(t)
  PROVE  TypeOK'
<1>1. ASSUME NEW what \in {"authorize", "approve", "deny", "signin", "logout"},
             NEW r \in AuthorizationRequest \cup {None},
             NEW label \in {"resolve", "retire", "end"}, Send(t, what, r, label)
      PROVE  TypeOK'
  BY <1>1, AsksAreRequests DEF Send, TypeOK, server, Goto, Label
<1>2. page[t].req \in AuthorizationRequest \cup {None}
  BY DEF TypeOK, Page
<1>3. CASE Open(t)
  BY <1>1, <1>3, AsksAreRequests DEF Open
<1>4. CASE Follow(t)
  BY <1>1, <1>2, <1>4 DEF Follow
<1>5. CASE AnswerConsent(t)
  BY <1>1, <1>2, <1>5 DEF AnswerConsent
<1>6. CASE SignIn(t)
  BY <1>1, <1>2, <1>6 DEF SignIn
<1>7. CASE SignOut(t)
  BY <1>1, <1>7 DEF SignOut
<1>8. CASE Leave(t)
  BY <1>8 DEF Leave, TypeOK, server, request, Home, Show, Page
<1> QED BY <1>3, <1>4, <1>5, <1>6, <1>7, <1>8 DEF Acts

LEMMA HandlerTypes ==
  ASSUME TypeOK, NEW t \in Tab, Handler(t), WithinApproval(t)
  PROVE  TypeOK'
<1>r. req[t] \in AuthorizationRequest \cup {None}
  BY DEF TypeOK
<1>1. CASE Resolve(t)
  <2>1. sent[t] # None => sessions[sent[t]] \in User \cup {None}
    BY DEF TypeOK
  <2> QED BY <1>1, <2>1 DEF Resolve, Goto, Label, TypeOK, server, request
<1>2. CASE \/ RejectRequest(t) \/ LoginRequired(t) \/ ConsentRequired(t) \/ Deny(t)
           \/ ClientIsGone(t) \/ OutOfSessions(t)
  BY <1>2, RefuseTypes
     DEF RejectRequest, LoginRequired, ConsentRequired, Deny, ClientIsGone, OutOfSessions
<1>3. CASE AskToSignIn(t)
  <2>1. req[t] \in AuthorizationRequest
    BY <1>3, <1>r DEF AskToSignIn, Validates, WithinApproval
  <2>2. Answer(t, "signin", WithoutReauthentication(req[t])) => 
          answer' \in [Tab -> Page] /\ pc' \in [Tab -> Label]
    BY <2>1, AnswerTypes, WithoutReauthenticationIsRequest
  <2> QED BY <1>3, <2>2 DEF AskToSignIn, TypeOK, server, request
<1>4. CASE Authenticated(t)
  BY <1>4 DEF Authenticated, Goto, Label, TypeOK, server, request
<1>5. CASE SkipConsent(t)
  BY <1>5 DEF SkipConsent, Goto, Label, TypeOK, server, request
<1>6. CASE AskConsent(t)
  <2>1. Answer(t, "consent", req[t]) => answer' \in [Tab -> Page] /\ pc' \in [Tab -> Label]
    BY <1>r, AnswerTypes
  <2> QED BY <1>6, <2>1 DEF AskConsent, TypeOK, server, request
<1>7. CASE IssueCode(t)
  <2>1. Answer(t, "code", None) => answer' \in [Tab -> Page] /\ pc' \in [Tab -> Label]
    BY AnswerTypes
  <2> QED BY <1>7, <2>1 DEF IssueCode, TypeOK, server, request
<1>8. CASE SessionEndedMeanwhile(t)
  <2>1. [req[t] EXCEPT !.via = "consent"] \in AuthorizationRequest
    BY <1>8, <1>r DEF SessionEndedMeanwhile, WithinApproval, AuthorizationRequest
  <2>2. Answer(t, "signin", [req[t] EXCEPT !.via = "consent"]) =>
          answer' \in [Tab -> Page] /\ pc' \in [Tab -> Label]
    BY <2>1, AnswerTypes
  <2> QED BY <1>8, <2>2 DEF SessionEndedMeanwhile, TypeOK, server, request
<1>9. CASE Approve(t) \/ ReadGranted(t) \/ Upsert(t)
  <2>1. req[t] \in AuthorizationRequest /\ who[t] \in User
    BY <1>9, <1>r DEF Approve, ReadGranted, Upsert, Validates, WithinApproval, TypeOK
  <2>2. Key(t) \in User \X Client /\ req[t].scope \subseteq Scope
    BY <2>1 DEF Key, AuthorizationRequest
  <2>3. consents[Key(t)] \subseteq Scope /\ approved[Key(t)] \subseteq Scope /\ read[t] \subseteq Scope
    BY <2>2 DEF TypeOK
  <2>4. CASE Approve(t)
    BY <2>2, <2>3, <2>4 DEF Approve, Goto, Label, TypeOK, request
  <2>5. CASE ReadGranted(t)
    BY <2>2, <2>3, <2>5 DEF ReadGranted, Goto, Label, TypeOK, server, request
  <2>6. CASE Upsert(t)
    BY <2>2, <2>3, <2>6 DEF Upsert, Goto, Label, TypeOK, request
  <2> QED BY <1>9, <2>4, <2>5, <2>6
<1>10. CASE Retire(t)
  BY <1>10 DEF Retire, RevokeSent, Goto, Label, TypeOK, request
<1>11. CASE Create(t)
  <2>1. answer' \in [Tab -> Page] /\ pc' \in [Tab -> Label]
    BY <1>11, <1>r, AnswerTypes DEF Create
  <2>2. PICK s \in Session, u \in User : /\ sessions' = [sessions EXCEPT ![s] = u]
                                         /\ aged' = aged \ {s}
                                         /\ made' = [made EXCEPT ![t] = s]
    BY <1>11 DEF Create
  <2>3. UNCHANGED <<cookie, clients, allowed, consents, approved, page, op, req, sent, who, read>>
    BY <1>11 DEF Create, request
  <2> QED BY <2>1, <2>2, <2>3 DEF TypeOK
<1>12. CASE Logout(t)
  <2>1. Answer(t, "home", None) => answer' \in [Tab -> Page] /\ pc' \in [Tab -> Label]
    BY AnswerTypes
  <2> QED BY <1>12, <2>1 DEF Logout, RevokeSent, TypeOK, request
<1> QED BY <1>1, <1>2, <1>3, <1>4, <1>5, <1>6, <1>7, <1>8, <1>9, <1>10, <1>11, <1>12 DEF Handler

LEMMA ResponseTypes ==
  ASSUME TypeOK, NEW t \in Tab, Respond(t) \/ LoseResponse(t) \/ Fail(t)
  PROVE  TypeOK'
<1>1. CASE Respond(t)
  <2>1. page' \in [Tab -> Page]
    BY <1>1 DEF Respond, TypeOK, Home, Show, Page
  <2>2. cookie' \in [Browser -> Session \cup {None}]
    BY <1>1, AsksAreRequests DEF Respond, CookieAfter, TypeOK
  <2> QED BY <1>1, <2>1, <2>2, DoneTypes DEF Respond, TypeOK
<1>2. CASE LoseResponse(t)
  BY <1>2, DoneTypes DEF LoseResponse, TypeOK, server
<1>3. CASE Fail(t)
  BY <1>3, RefuseTypes DEF Fail
<1> QED BY <1>1, <1>2, <1>3

LEMMA EnvironmentTypes ==
  ASSUME TypeOK,
         \/ \E s \in Session : Expire(s) \/ Age(s)
         \/ \E cl \in Client : UpdateDetails(cl) \/ DeleteClient(cl)
  PROVE  TypeOK'
<1>1. ASSUME NEW s \in Session, Expire(s) \/ Age(s) PROVE TypeOK'
  BY <1>1 DEF Expire, Age, TypeOK, request
<1>2. ASSUME NEW cl \in Client, UpdateDetails(cl) \/ DeleteClient(cl) PROVE TypeOK'
  BY <1>2 DEF UpdateDetails, DeleteClient, TypeOK, request
<1> QED BY <1>1, <1>2

LEMMA StepTypes ==
  ASSUME ApprovalInv, [Next]_vars
  PROVE  TypeOK'
<1>1. CASE \E t \in Tab : Acts(t) \/ Handler(t) \/ Respond(t)
  BY <1>1, ActsTypes, HandlerTypes, ResponseTypes DEF ApprovalInv
<1>2. CASE Disturbance
  BY <1>2, ResponseTypes, EnvironmentTypes DEF Disturbance, ApprovalInv
<1>3. CASE UNCHANGED vars
  BY <1>3 DEF vars, server, request, ApprovalInv, TypeOK
<1> QED BY <1>1, <1>2, <1>3 DEF Next

---------------------------------------------------------------------------
(* The invariant *)

\* The part of the state that WithinApproval(t) reads, but for the approvals.
State(t) == <<page[t], pc[t], req[t], who[t], read[t], answer[t]>>

\* Approvals are kept: what was within them stays within them.
ApprovalsGrow == \A k \in User \X Client : approved[k] \subseteq approved'[k]

LEMMA WithinApprovalIsStable ==
  ASSUME TypeOK, NEW t \in Tab, WithinApproval(t), ApprovalsGrow, State(t)' = State(t)
  PROVE  WithinApproval(t)'
<1>1. pc[t] \in {"read_granted", "upsert", "issue"} \/ answer[t].at = "code" =>
        Key(t) \in User \X Client
  BY DEF WithinApproval, Key, TypeOK, AuthorizationRequest
<1>2. /\ page'[t] = page[t] /\ pc'[t] = pc[t] /\ req'[t] = req[t]
      /\ who'[t] = who[t] /\ read'[t] = read[t] /\ answer'[t] = answer[t]
  BY DEF State
<1>3. Key(t)' = Key(t)
  BY <1>2 DEF Key
<1> QED BY <1>1, <1>2, <1>3 DEF WithinApproval, ApprovalsGrow

\* A step of one tab leaves what the others have.
LEMMA OthersKeep ==
  ASSUME TypeOK, NEW t \in Tab, Acts(t) \/ Handler(t) \/ Respond(t) \/ LoseResponse(t) \/ Fail(t),
         NEW u \in Tab, u # t
  PROVE  State(u)' = State(u)
<1>1. Done(t) => /\ pc'[u] = pc[u] /\ req'[u] = req[u] /\ who'[u] = who[u]
                 /\ read'[u] = read[u] /\ answer'[u] = answer[u]
  BY DEF Done, Goto, TypeOK
<1>2. \A label : Goto(t, label) => pc'[u] = pc[u]
  BY DEF Goto, TypeOK
<1>3. \A at, r : Answer(t, at, r) => pc'[u] = pc[u] /\ answer'[u] = answer[u]
  BY DEF Answer, Goto, TypeOK
<1>4. Refuse(t) => State(u)' = State(u)
  BY <1>1 DEF Refuse, State, TypeOK
<1>5. ASSUME NEW what, NEW r, NEW label, Send(t, what, r, label)
      PROVE  State(u)' = State(u)
  BY <1>2, <1>5 DEF Send, State, TypeOK
<1>6. CASE Acts(t)
  BY <1>5, <1>6 DEF Acts, Open, Follow, AnswerConsent, SignIn, SignOut, Leave, request, State, TypeOK
<1>7. CASE Respond(t) \/ LoseResponse(t) \/ Fail(t)
  BY <1>1, <1>4, <1>7 DEF Respond, LoseResponse, Fail, State, TypeOK
<1>8. CASE Handler(t)
  <2>1. CASE \/ RejectRequest(t) \/ LoginRequired(t) \/ ConsentRequired(t) \/ Deny(t)
             \/ ClientIsGone(t) \/ OutOfSessions(t)
    BY <1>4, <2>1
       DEF RejectRequest, LoginRequired, ConsentRequired, Deny, ClientIsGone, OutOfSessions
  <2>2. CASE \/ Resolve(t) \/ Authenticated(t) \/ SkipConsent(t) \/ Approve(t)
             \/ ReadGranted(t) \/ Upsert(t) \/ Retire(t)
    BY <1>2, <2>2 DEF Resolve, Authenticated, SkipConsent, Approve, ReadGranted, Upsert, Retire,
       request, State, TypeOK
  <2>3. CASE \/ AskToSignIn(t) \/ AskConsent(t) \/ IssueCode(t) \/ SessionEndedMeanwhile(t)
             \/ Create(t) \/ Logout(t)
    BY <1>3, <2>3 DEF AskToSignIn, AskConsent, IssueCode, SessionEndedMeanwhile, Create, Logout,
       request, State
  <2> QED BY <1>8, <2>1, <2>2, <2>3 DEF Handler
<1> QED BY <1>6, <1>7, <1>8

\* Only Approve writes approvals, and it adds to them.
LEMMA ApprovalsOnlyGrow ==
  ASSUME TypeOK, [Next]_vars
  PROVE  ApprovalsGrow
<1>1. ASSUME NEW t \in Tab, Approve(t) PROVE ApprovalsGrow
  BY <1>1 DEF Approve, ApprovalsGrow, TypeOK
<1>2. ASSUME NEW t \in Tab, Handler(t), ~Approve(t) PROVE approved' = approved
  BY <1>2 DEF Handler, Resolve, RejectRequest, LoginRequired, ConsentRequired, Deny, ClientIsGone,
     OutOfSessions, Refuse, AskToSignIn, Authenticated, SkipConsent, AskConsent, IssueCode,
     SessionEndedMeanwhile, ReadGranted, Upsert, Retire, Create, Logout, server
<1>3. ASSUME NEW t \in Tab, Acts(t) PROVE approved' = approved
  BY <1>3 DEF Acts, Open, Follow, AnswerConsent, SignIn, SignOut, Leave, Send, server
<1>4. ASSUME NEW t \in Tab, Respond(t) PROVE approved' = approved
  BY <1>4 DEF Respond
<1>5. Disturbance => approved' = approved
  BY DEF Disturbance, LoseResponse, Fail, Refuse, Expire, Age, UpdateDetails, DeleteClient, server
<1>6. UNCHANGED vars => approved' = approved
  BY DEF vars, server
<1> QED BY <1>1, <1>2, <1>3, <1>4, <1>5, <1>6 DEF Next, ApprovalsGrow

\* A consent is written by Upsert, within the approval; a deletion empties it.
LEMMA ConsentsStayApproved ==
  ASSUME ApprovalInv, [Next]_vars
  PROVE  \A k \in User \X Client : consents'[k] \subseteq approved'[k]
<1>0. TypeOK /\ \A k \in User \X Client : consents[k] \subseteq approved[k]
  BY DEF ApprovalInv, NothingBeyondApproval
<1>1. ApprovalsGrow
  BY <1>0, ApprovalsOnlyGrow
<1>2. ASSUME NEW t \in Tab, Upsert(t)
      PROVE  \A k \in User \X Client : consents'[k] \subseteq approved'[k]
  <2>1. read[t] \cup req[t].scope \subseteq approved[Key(t)]
    BY <1>2 DEF Upsert, ApprovalInv, WithinApproval
  <2> QED BY <1>0, <1>2, <2>1 DEF Upsert, TypeOK
<1>3. ASSUME NEW t \in Tab, Handler(t), ~Upsert(t) PROVE consents' = consents
  BY <1>3 DEF Handler, Resolve, RejectRequest, LoginRequired, ConsentRequired, Deny, ClientIsGone,
     OutOfSessions, Refuse, AskToSignIn, Authenticated, SkipConsent, AskConsent, IssueCode,
     SessionEndedMeanwhile, ReadGranted, Approve, Retire, Create, Logout, server
<1>4. ASSUME NEW t \in Tab, Acts(t) \/ Respond(t) PROVE consents' = consents
  BY <1>4 DEF Acts, Open, Follow, AnswerConsent, SignIn, SignOut, Leave, Send, Respond, server
<1>5. ASSUME NEW cl \in Client, DeleteClient(cl)
      PROVE  \A k \in User \X Client : consents'[k] \subseteq approved'[k]
  BY <1>0, <1>5 DEF DeleteClient
<1>6. Disturbance => consents' = consents \/ \E cl \in Client : DeleteClient(cl)
  BY DEF Disturbance, LoseResponse, Fail, Refuse, Expire, Age, UpdateDetails, server
<1>7. UNCHANGED vars => consents' = consents
  BY DEF vars, server
<1>8. consents' = consents => \A k \in User \X Client : consents'[k] \subseteq approved'[k]
  BY <1>0, <1>1 DEF ApprovalsGrow
<1> QED BY <1>2, <1>3, <1>4, <1>5, <1>6, <1>7, <1>8 DEF Next

\* The tab that takes the step: one case for each action that moves it on.
LEMMA ActorKeeps ==
  ASSUME ApprovalInv, [Next]_vars, NEW t \in Tab,
         Acts(t) \/ Handler(t) \/ Respond(t) \/ LoseResponse(t) \/ Fail(t)
  PROVE  WithinApproval(t)'
<1>0. TypeOK /\ WithinApproval(t) /\ ApprovalsGrow
  BY ApprovalsOnlyGrow DEF ApprovalInv
<1>k. req[t] # None /\ who[t] # None => Key(t) \in User \X Client
  BY <1>0 DEF Key, TypeOK, AuthorizationRequest
<1>1. ASSUME Done(t), page'[t].at \in {"follow", "consent"} => page'[t].req # None
      PROVE  WithinApproval(t)'
  BY <1>0, <1>1 DEF Done, Goto, WithinApproval, TypeOK, Home, Show
<1>2. Refuse(t) => WithinApproval(t)'
  BY <1>0, <1>1 DEF Refuse, WithinApproval, TypeOK, Home, Show
<1>3. ASSUME NEW what, NEW r, NEW label, Send(t, what, r, label), label = "resolve" => r # None,
             label \in {"resolve", "retire", "end"}
      PROVE  WithinApproval(t)'
  BY <1>0, <1>3 DEF Send, Goto, WithinApproval, TypeOK
<1>4. CASE Acts(t)
  <2>1. CASE Open(t)
    BY <1>3, <2>1, AsksAreRequests DEF Open
  <2>2. CASE Follow(t) \/ AnswerConsent(t)
    BY <1>0, <1>3, <2>2 DEF Follow, AnswerConsent, WithinApproval
  <2>3. CASE SignIn(t) \/ SignOut(t)
    BY <1>3, <2>3 DEF SignIn, SignOut
  <2>4. CASE Leave(t)
    BY <1>0, <2>4 DEF Leave, WithinApproval, TypeOK, Home, Show, Key, request, server
  <2> QED BY <1>4, <2>1, <2>2, <2>3, <2>4 DEF Acts
<1>5. CASE Respond(t) \/ LoseResponse(t) \/ Fail(t)
  BY <1>0, <1>1, <1>2, <1>5 DEF Respond, LoseResponse, Fail, WithinApproval, TypeOK, Home, Show
<1>6. CASE Handler(t)
  <2>1. CASE \/ RejectRequest(t) \/ LoginRequired(t) \/ ConsentRequired(t) \/ Deny(t)
             \/ ClientIsGone(t) \/ OutOfSessions(t)
    BY <1>2, <2>1
       DEF RejectRequest, LoginRequired, ConsentRequired, Deny, ClientIsGone, OutOfSessions
  <2>2. CASE Resolve(t) \/ Authenticated(t) \/ Retire(t)
    BY <1>0, <2>2 DEF Resolve, Authenticated, Retire, Validates, SignedInRecently, Goto,
       WithinApproval, TypeOK, request, server
  <2>3. ASSUME NEW at, NEW r, Answer(t, at, r), at \notin {"code"},
               at \in {"follow", "consent"} => r # None, UNCHANGED page
        PROVE  WithinApproval(t)'
    BY <1>0, <2>3 DEF Answer, Goto, Show, WithinApproval, TypeOK
  <2>4. CASE AskToSignIn(t) \/ SessionEndedMeanwhile(t) \/ Logout(t)
    BY <2>3, <2>4 DEF AskToSignIn, SessionEndedMeanwhile, Logout
  <2>5. CASE AskConsent(t)
    BY <1>0, <2>3, <2>5 DEF AskConsent, WithinApproval
  <2>6. CASE Create(t)
    BY <2>3, <2>6 DEF Create
  <2>7. CASE SkipConsent(t)
    <3>1. Key(t) \in User \X Client /\ req[t].scope \subseteq consents[Key(t)]
      BY <1>0, <1>k, <2>7 DEF SkipConsent, NeedsNoConsentPage, AlreadyApproved, WithinApproval
    <3>2. req[t].scope \subseteq approved'[Key(t)]
      BY <3>1, <1>0 DEF ApprovalInv, NothingBeyondApproval, ApprovalsGrow
    <3>3. Key(t)' = Key(t)
      BY <2>7 DEF SkipConsent, Key, request
    <3> QED BY <1>0, <2>7, <3>2, <3>3 DEF SkipConsent, Goto, WithinApproval, TypeOK, request
  <2>8. CASE IssueCode(t)
    <3>1. Key(t)' = Key(t)
      BY <2>8 DEF IssueCode, Key, request
    <3>2. Key(t) \in User \X Client /\ req[t].scope \subseteq approved'[Key(t)]
      BY <1>0, <1>k, <2>8 DEF IssueCode, WithinApproval, ApprovalsGrow
    <3>3. pc'[t] = "respond" /\ answer'[t] = Show("code", None)
      BY <1>0, <2>8 DEF IssueCode, Answer, Goto, TypeOK
    <3>4. req[t] # None /\ who[t] # None /\ req'[t] = req[t] /\ who'[t] = who[t] /\ page'[t] = page[t]
      BY <1>0, <2>8 DEF IssueCode, WithinApproval, request
    <3> QED BY <1>0, <3>1, <3>2, <3>3, <3>4 DEF WithinApproval, Show
  <2>9. CASE Approve(t)
    <3>1. Key(t) \in User \X Client
      BY <1>0, <1>k, <2>9 DEF Approve, Validates, WithinApproval
    <3>2. req[t].scope \subseteq approved'[Key(t)]
      BY <1>0, <2>9, <3>1 DEF Approve, TypeOK
    <3>3. Key(t)' = Key(t)
      BY <2>9 DEF Approve, Key, request
    <3> QED BY <1>0, <2>9, <3>2, <3>3 DEF Approve, Validates, Goto, WithinApproval, TypeOK, request
  <2>10. CASE ReadGranted(t)
    <3>1. Key(t) \in User \X Client
      BY <1>0, <1>k, <2>10 DEF ReadGranted, WithinApproval
    <3>2. consents[Key(t)] \subseteq approved'[Key(t)] /\ req[t].scope \subseteq approved'[Key(t)]
      BY <1>0, <2>10, <3>1 DEF ReadGranted, ApprovalInv, NothingBeyondApproval, ApprovalsGrow,
         WithinApproval
    <3>3. Key(t)' = Key(t)
      BY <2>10 DEF ReadGranted, Key, request
    <3> QED BY <1>0, <2>10, <3>2, <3>3 DEF ReadGranted, Goto, WithinApproval, TypeOK, request
  <2>11. CASE Upsert(t)
    <3>1. Key(t)' = Key(t)
      BY <2>11 DEF Upsert, Key, request
    <3> QED BY <1>0, <2>11, <3>1 DEF Upsert, Goto, WithinApproval, TypeOK, request
  <2> QED BY <1>6, <2>1, <2>2, <2>4, <2>5, <2>6, <2>7, <2>8, <2>9, <2>10, <2>11 DEF Handler
<1> QED BY <1>4, <1>5, <1>6

\* What no tab does changes nothing that WithinApproval reads.
LEMMA EnvironmentKeeps ==
  ASSUME \/ \E s \in Session : Expire(s) \/ Age(s)
         \/ \E cl \in Client : UpdateDetails(cl) \/ DeleteClient(cl)
         \/ UNCHANGED vars,
         NEW t \in Tab
  PROVE  State(t)' = State(t)
BY DEF Expire, Age, UpdateDetails, DeleteClient, State, request, vars

LEMMA InitInv == Init => ApprovalInv
BY DEF Init, ApprovalInv, TypeOK, NothingBeyondApproval, WithinApproval, Page, Home, Show, Label

LEMMA StepInv == ApprovalInv /\ [Next]_vars => ApprovalInv'
<1> SUFFICES ASSUME ApprovalInv, [Next]_vars PROVE ApprovalInv'
  OBVIOUS
<1>0. TypeOK /\ ApprovalsGrow /\ \A t \in Tab : WithinApproval(t)
  BY ApprovalsOnlyGrow DEF ApprovalInv
<1>1. \A t \in Tab : State(t)' = State(t) => WithinApproval(t)'
  BY <1>0, WithinApprovalIsStable
<1>2. \A t \in Tab : WithinApproval(t)'
  <2>1. ASSUME NEW u \in Tab,
               Acts(u) \/ Handler(u) \/ Respond(u) \/ LoseResponse(u) \/ Fail(u),
               NEW t \in Tab
        PROVE  WithinApproval(t)'
    <3>1. CASE t = u
      BY <2>1, <3>1, ActorKeeps
    <3>2. CASE t # u
      BY <1>0, <1>1, <2>1, <3>2, OthersKeep
    <3> QED BY <3>1, <3>2
  <2>2. CASE \/ \E s \in Session : Expire(s) \/ Age(s)
             \/ \E cl \in Client : UpdateDetails(cl) \/ DeleteClient(cl)
             \/ UNCHANGED vars
    BY <1>1, <2>2, EnvironmentKeeps
  <2> QED BY <2>1, <2>2 DEF Next, Disturbance
<1>3. NothingBeyondApproval'
  BY <1>2, ConsentsStayApproved DEF NothingBeyondApproval, WithinApproval
<1> QED BY <1>2, <1>3, StepTypes DEF ApprovalInv

\* ApprovalInv holds in every reachable state.
THEOREM Invariance == Spec => []ApprovalInv
BY InitInv, StepInv, PTL DEF Spec

\* Whatever tabs, accounts, edits, deletions and failures come between, every
\* stored consent and every code stays within what its user has approved for
\* its application: also the consent that two approvals wrote over each other.
THEOREM WithinWhatWasApproved == Spec => []NothingBeyondApproval
<1>1. ApprovalInv => NothingBeyondApproval
  BY DEF ApprovalInv
<1> QED BY <1>1, Invariance, PTL

\* Every variable keeps its type.
THEOREM TypeCorrect == Spec => []TypeOK
<1>1. ApprovalInv => TypeOK
  BY DEF ApprovalInv
<1> QED BY <1>1, Invariance, PTL

---------------------------------------------------------------------------
(* The way of a request *)

\* A request that has been through a sign-in or a consent page asks for neither
\* again, nor for silence; the age of a session counts only until a sign-in.
Settled(r) ==
  /\ r.via # "app" => "none" \notin r.prompt /\ "login" \notin r.prompt
  /\ r.via = "decide" => ~r.max_age

\* What a page carries.
Carries(p) ==
  p.req # None =>
    /\ p.at \in {"signin", "follow", "consent"}
    /\ "none" \notin p.req.prompt
    /\ Settled(p.req)
    /\ p.at \in {"signin", "follow"} => p.req.via # "app"
    /\ p.at = "consent" => "login" \notin p.req.prompt

\* What a request in flight carries.
Asked(t) ==
  req[t] # None =>
    /\ Settled(req[t])
    /\ op[t] # "authorize" => "none" \notin req[t].prompt
    /\ op[t] \in {"approve", "deny"} \/ pc[t] = "read_consent" => "login" \notin req[t].prompt
    /\ op[t] = "signin" => req[t].via # "app"

\* The session a request was sent with has ended.
SentIsOver(t) == sent[t] = None \/ sessions[sent[t]] = None

\* The conjunct of ReturnFromSignInIsFinal for one tab.
AskedAgainForAReason(t) ==
  op[t] = "authorize" /\ req[t].via # "app" /\ answer[t].at = "signin" =>
    SentIsOver(t) \/ (req[t].via = "consent" /\ sent[t] \in aged)

Flow(t) ==
  /\ Carries(page[t]) /\ Carries(answer[t])
  /\ Asked(t)
  /\ pc[t] \in {"retire", "create"} => op[t] = "signin"
  /\ pc[t] # "respond" => answer[t] = Home
  /\ pc[t] = "validate" /\ who[t] = None => SentIsOver(t)
  /\ AskedAgainForAReason(t)

FlowInv == ApprovalInv /\ \A t \in Tab : Flow(t)

---------------------------------------------------------------------------
(* What a step leaves as it was *)

\* Nobody signs in again to a session that a request still names, and its age
\* does not go: only Create writes either, to a session that nothing names.
LEMMA EndedStaysEnded ==
  ASSUME TypeOK, [Next]_vars, NEW t \in Tab, sent[t] # None
  PROVE  /\ sessions[sent[t]] = None => sessions'[sent[t]] = None
         /\ sent[t] \in aged => sent[t] \in aged'
<1>0. sent[t] \in Session
  BY DEF TypeOK
<1> DEFINE Kept == sessions' = sessions /\ aged' = aged
<1>1. ASSUME NEW u \in Tab, Create(u)
      PROVE  /\ sessions'[sent[t]] = sessions[sent[t]]
             /\ sent[t] \in aged => sent[t] \in aged'
  <2>1. PICK s \in Session, v \in User : /\ Unused(s)
                                         /\ sessions' = [sessions EXCEPT ![s] = v]
                                         /\ aged' = aged \ {s}
    BY <1>1 DEF Create
  <2>2. s # sent[t]
    BY <2>1 DEF Unused
  <2> QED BY <1>0, <2>1, <2>2 DEF TypeOK
<1>2. ASSUME NEW u \in Tab, Retire(u) \/ Logout(u)
      PROVE  /\ sessions[sent[t]] = None => sessions'[sent[t]] = None
             /\ aged' = aged
  BY <1>0, <1>2 DEF Retire, Logout, RevokeSent, TypeOK
<1>3. ASSUME NEW u \in Tab, Handler(u), ~Create(u), ~Retire(u), ~Logout(u) PROVE Kept
  BY <1>3 DEF Handler, Resolve, RejectRequest, LoginRequired, ConsentRequired, Deny, ClientIsGone,
     OutOfSessions, Refuse, AskToSignIn, Authenticated, SkipConsent, AskConsent, IssueCode,
     SessionEndedMeanwhile, ReadGranted, Upsert, Approve, server
<1>4. ASSUME NEW u \in Tab, Acts(u) PROVE Kept
  BY <1>4 DEF Acts, Open, Follow, AnswerConsent, SignIn, SignOut, Leave, Send, server
<1>5. ASSUME NEW u \in Tab, Respond(u) \/ LoseResponse(u) \/ Fail(u) PROVE Kept
  BY <1>5 DEF Respond, LoseResponse, Fail, Refuse, server
<1>6. ASSUME NEW s \in Session, Expire(s) \/ Age(s)
      PROVE  /\ sessions[sent[t]] = None => sessions'[sent[t]] = None
             /\ sent[t] \in aged => sent[t] \in aged'
  BY <1>0, <1>6 DEF Expire, Age, TypeOK
<1>7. ASSUME NEW cl \in Client, UpdateDetails(cl) \/ DeleteClient(cl) PROVE Kept
  BY <1>7 DEF UpdateDetails, DeleteClient
<1>8. UNCHANGED vars => Kept
  BY DEF vars, server
<1> QED BY <1>1, <1>2, <1>3, <1>4, <1>5, <1>6, <1>7, <1>8 DEF Next, Disturbance

\* The part of the state that Flow(t) reads, but for the sessions.
FlowState(t) == <<page[t], pc[t], req[t], who[t], answer[t], op[t], sent[t]>>

LEMMA FlowIsStable ==
  ASSUME TypeOK, [Next]_vars, NEW t \in Tab, Flow(t), FlowState(t)' = FlowState(t)
  PROVE  Flow(t)'
<1>1. /\ page'[t] = page[t] /\ pc'[t] = pc[t] /\ req'[t] = req[t] /\ who'[t] = who[t]
      /\ answer'[t] = answer[t] /\ op'[t] = op[t] /\ sent'[t] = sent[t]
  BY DEF FlowState
<1>2. Carries(page[t])' /\ Carries(answer[t])' /\ Asked(t)'
  BY <1>1 DEF Flow, Carries, Asked, Settled
<1>3. /\ SentIsOver(t) => SentIsOver(t)'
      /\ sent[t] # None /\ sent[t] \in aged => sent[t] \in aged'
  BY <1>1, EndedStaysEnded DEF SentIsOver
<1>4. AskedAgainForAReason(t)'
  BY <1>1, <1>3 DEF Flow, AskedAgainForAReason, SentIsOver
<1> QED BY <1>1, <1>2, <1>3, <1>4 DEF Flow

LEMMA OthersKeepFlow ==
  ASSUME TypeOK, NEW t \in Tab, Acts(t) \/ Handler(t) \/ Respond(t) \/ LoseResponse(t) \/ Fail(t),
         NEW u \in Tab, u # t
  PROVE  FlowState(u)' = FlowState(u)
<1>1. State(u)' = State(u)
  BY OthersKeep
<1>2. Done(t) => op'[u] = op[u] /\ sent'[u] = sent[u]
  BY DEF Done, TypeOK
<1>3. \A what, r, label : Send(t, what, r, label) => op'[u] = op[u] /\ sent'[u] = sent[u]
  BY DEF Send, TypeOK
<1>4. Acts(t) => op'[u] = op[u] /\ sent'[u] = sent[u]
  BY <1>3 DEF Acts, Open, Follow, AnswerConsent, SignIn, SignOut, Leave, request
<1>5. Respond(t) \/ LoseResponse(t) \/ Fail(t) => op'[u] = op[u] /\ sent'[u] = sent[u]
  BY <1>2 DEF Respond, LoseResponse, Fail, Refuse
<1>6. Handler(t) => op'[u] = op[u] /\ sent'[u] = sent[u]
  BY <1>2 DEF Handler, Resolve, RejectRequest, LoginRequired, ConsentRequired, Deny, ClientIsGone,
     OutOfSessions, Refuse, AskToSignIn, Authenticated, SkipConsent, AskConsent, IssueCode,
     SessionEndedMeanwhile, ReadGranted, Upsert, Approve, Retire, Create, Logout, request
<1> QED BY <1>1, <1>4, <1>5, <1>6 DEF State, FlowState

LEMMA EnvironmentKeepsFlow ==
  ASSUME \/ \E s \in Session : Expire(s) \/ Age(s)
         \/ \E cl \in Client : UpdateDetails(cl) \/ DeleteClient(cl)
         \/ UNCHANGED vars,
         NEW t \in Tab
  PROVE  FlowState(t)' = FlowState(t)
BY DEF Expire, Age, UpdateDetails, DeleteClient, FlowState, request, vars

---------------------------------------------------------------------------
(* The tab that takes the step *)

\* A request that ends leaves nothing of itself but the page.
LEMMA DoneKeepsFlow ==
  ASSUME TypeOK, NEW t \in Tab, Done(t), Carries(page'[t])
  PROVE  Flow(t)'
<1>1. /\ pc'[t] = "user" /\ op'[t] = "none" /\ req'[t] = None /\ answer'[t] = Home
  BY DEF TypeOK, Done, Goto
<1> QED BY <1>1 DEF Flow, Carries, Asked, AskedAgainForAReason, Home, Show

LEMMA RefuseKeepsFlow ==
  ASSUME TypeOK, NEW t \in Tab, Flow(t), Refuse(t)
  PROVE  Flow(t)'
<1>1. page'[t] \in {Home, page[t]}
  BY DEF Refuse, TypeOK
<1>2. Carries(Home)
  BY DEF Carries, Home, Show
<1>3. Carries(page'[t])
  BY <1>1, <1>2 DEF Flow
<1> QED BY <1>3, DoneKeepsFlow DEF Refuse

\* What the user sends is what the page carries, or what an app asks for.
LEMMA ActsKeepFlow ==
  ASSUME ApprovalInv, NEW t \in Tab, Acts(t), Flow(t)
  PROVE  Flow(t)'
<1>0. TypeOK /\ WithinApproval(t) /\ Carries(page[t])
  BY DEF ApprovalInv, Flow
<1>1. ASSUME NEW what, NEW r, NEW label, Send(t, what, r, label),
             label \in {"resolve", "retire", "end"}, label = "retire" => what = "signin",
             r # None => /\ Settled(r)
                         /\ what # "authorize" => "none" \notin r.prompt
                         /\ what \in {"approve", "deny"} => "login" \notin r.prompt
                         /\ what = "signin" => r.via # "app"
      PROVE  Flow(t)'
  <2>1. /\ pc[t] = "user" /\ pc'[t] = label /\ op'[t] = what /\ req'[t] = r
        /\ page'[t] = page[t] /\ answer'[t] = answer[t] /\ answer[t] = Home
    BY <1>0, <1>1 DEF Send, Goto, TypeOK, Flow
  <2>2. answer[t].at = "home" /\ Carries(answer[t])
    BY <2>1 DEF Home, Show, Carries
  <2> QED BY <1>0, <1>1, <2>1, <2>2 DEF Flow, Asked, AskedAgainForAReason
<1>2. CASE Open(t)
  <2>1. PICK r \in Asks : Send(t, "authorize", r, "resolve")
    BY <1>2 DEF Open
  <2>2. r.via = "app"
    BY AsksAreRequests
  <2> QED BY <1>1, <2>1, <2>2 DEF Settled
<1>3. CASE Follow(t)
  BY <1>0, <1>1, <1>3 DEF Follow, Carries
<1>4. CASE AnswerConsent(t)
  BY <1>0, <1>1, <1>4 DEF AnswerConsent, Carries
<1>5. CASE SignIn(t)
  BY <1>0, <1>1, <1>5 DEF SignIn, Carries
<1>6. CASE SignOut(t)
  BY <1>1, <1>6 DEF SignOut
<1>7. CASE Leave(t)
  <2>1. /\ page'[t] = Home /\ pc'[t] = pc[t] /\ pc[t] = "user" /\ answer' = answer
        /\ op' = op /\ req' = req
    BY <1>0, <1>7 DEF Leave, TypeOK, request
  <2>2. answer[t] = Home
    BY <2>1 DEF Flow
  <2> QED BY <2>1, <2>2 DEF Flow, Carries, Asked, AskedAgainForAReason, Home, Show
<1> QED BY <1>2, <1>3, <1>4, <1>5, <1>6, <1>7 DEF Acts

\* A handler that answers with a page: only its answer and its label change.
LEMMA AnswerKeepsFlow ==
  ASSUME TypeOK, NEW t \in Tab, NEW at, NEW r, Flow(t), Answer(t, at, r),
         UNCHANGED <<page, op, req, sent>>,
         Carries(Show(at, r)), AskedAgainForAReason(t)'
  PROVE  Flow(t)'
<1>1. /\ pc'[t] = "respond" /\ answer'[t] = Show(at, r) /\ page'[t] = page[t]
      /\ op'[t] = op[t] /\ req'[t] = req[t]
  BY DEF Answer, Goto, TypeOK
<1> QED BY <1>1 DEF Flow, Asked

\* Dropping what forces a sign-in settles a request, whoever sent it.
LEMMA WithoutReauthenticationIsSettled ==
  ASSUME NEW r \in AuthorizationRequest, "none" \notin r.prompt
  PROVE  Carries(Show("signin", WithoutReauthentication(r)))
<1>1. /\ WithoutReauthentication(r).via = "decide"
      /\ WithoutReauthentication(r).max_age = FALSE
      /\ WithoutReauthentication(r).prompt = r.prompt \ {"login"}
  BY DEF WithoutReauthentication, AuthorizationRequest
<1> QED BY <1>1 DEF Carries, Settled, Show

LEMMA HandlerKeepsFlow ==
  ASSUME ApprovalInv, [Next]_vars, NEW t \in Tab, Handler(t), Flow(t)
  PROVE  Flow(t)'
<1>0. TypeOK /\ WithinApproval(t)
  BY DEF ApprovalInv
<1>r. req[t] # None => req[t] \in AuthorizationRequest
  BY <1>0 DEF TypeOK
<1>1. CASE \/ RejectRequest(t) \/ LoginRequired(t) \/ ConsentRequired(t) \/ Deny(t)
           \/ ClientIsGone(t) \/ OutOfSessions(t)
  BY <1>0, <1>1, RefuseKeepsFlow
     DEF RejectRequest, LoginRequired, ConsentRequired, Deny, ClientIsGone, OutOfSessions
<1>2. CASE Resolve(t)
  <2>1. /\ pc'[t] = "validate" /\ pc[t] = "resolve" /\ UNCHANGED <<sessions, page, op, req, sent, answer>>
        /\ who'[t] = IF sent[t] = None THEN None ELSE sessions[sent[t]]
    BY <1>0, <1>2 DEF Resolve, Goto, TypeOK, server, request
  <2>2. answer[t] = Home
    BY <2>1 DEF Flow
  <2> QED BY <2>1, <2>2 DEF Flow, Asked, SentIsOver, AskedAgainForAReason, Home, Show
<1>3. CASE Authenticated(t)
  <2>1. /\ pc'[t] = "read_consent" /\ pc[t] = "validate" /\ UNCHANGED <<page, op, req, sent, answer>>
        /\ "login" \notin req[t].prompt
    BY <1>0, <1>3 DEF Authenticated, Validates, SignedInRecently, NeedsReauthentication, Goto, TypeOK,
       request
  <2>2. answer[t] = Home
    BY <2>1 DEF Flow
  <2> QED BY <2>1, <2>2 DEF Flow, Asked, AskedAgainForAReason, Home, Show
<1>4. CASE SkipConsent(t) \/ Approve(t) \/ ReadGranted(t) \/ Upsert(t) \/ Retire(t)
  <2>1. /\ pc[t] \in {"read_consent", "validate", "read_granted", "upsert", "retire"}
        /\ pc'[t] \in {"issue", "read_granted", "upsert", "create"}
        /\ pc'[t] = "create" => pc[t] = "retire"
        /\ UNCHANGED <<page, op, req, sent, answer>>
    BY <1>0, <1>4 DEF SkipConsent, Approve, Validates, ReadGranted, Upsert, Retire, Goto, TypeOK, request
  <2>2. answer[t] = Home
    BY <2>1 DEF Flow
  <2> QED BY <2>1, <2>2 DEF Flow, Asked, AskedAgainForAReason, Home, Show
<1>5. ASSUME NEW at \in {"home", "follow", "consent", "code"}, NEW r, Answer(t, at, r)
      PROVE  AskedAgainForAReason(t)'
  BY <1>0, <1>5 DEF Answer, Show, AskedAgainForAReason, TypeOK
<1>6. CASE AskToSignIn(t)
  <2>1. /\ pc[t] = "validate" /\ req[t] # None /\ req[t] \in AuthorizationRequest
        /\ "none" \notin req[t].prompt
        /\ UNCHANGED <<sessions, aged, page, op, req, sent>>
        /\ Answer(t, "signin", WithoutReauthentication(req[t]))
    BY <1>0, <1>r, <1>6 DEF AskToSignIn, Validates, WithinApproval, server, request
  <2>2. CASE who[t] = None
    <3>1. SentIsOver(t)'
      BY <2>1, <2>2 DEF Flow, SentIsOver
    <3>2. AskedAgainForAReason(t)'
      BY <3>1 DEF AskedAgainForAReason
    <3> QED BY <1>0, <2>1, <3>2, AnswerKeepsFlow, WithoutReauthenticationIsSettled
  <2>3. CASE who[t] # None
    <3>1. "login" \in req[t].prompt \/ (req[t].max_age /\ sent[t] \in aged)
      BY <1>6, <2>3 DEF AskToSignIn, SignedInRecently, NeedsReauthentication
    <3>2. req[t].via # "app" => req[t].via = "consent" /\ sent[t] \in aged
      BY <2>1, <3>1 DEF Flow, Asked, Settled, AuthorizationRequest
    <3>3. AskedAgainForAReason(t)'
      BY <2>1, <3>2 DEF AskedAgainForAReason
    <3> QED BY <1>0, <2>1, <3>3, AnswerKeepsFlow, WithoutReauthenticationIsSettled
  <2> QED BY <2>2, <2>3
<1>7. CASE AskConsent(t)
  <2>1. Carries(Show("consent", req[t]))
    BY <1>7 DEF AskConsent, Flow, Asked, Carries, Show
  <2> QED BY <1>0, <1>5, <1>7, <2>1, AnswerKeepsFlow DEF AskConsent, request
<1>8. CASE IssueCode(t) \/ Logout(t)
  <2>1. Carries(Show("code", None)) /\ Carries(Show("home", None))
    BY DEF Carries, Show
  <2> QED BY <1>0, <1>5, <1>8, <2>1, AnswerKeepsFlow DEF IssueCode, Logout, request
<1>9. CASE SessionEndedMeanwhile(t)
  <2> DEFINE r == [req[t] EXCEPT !.via = "consent"]
  <2>1. req[t] # None /\ req[t] \in AuthorizationRequest
    BY <1>0, <1>r, <1>9 DEF SessionEndedMeanwhile, WithinApproval
  <2>2. r.via = "consent" /\ r.prompt = req[t].prompt
    BY <2>1 DEF AuthorizationRequest
  <2>3. Carries(Show("signin", r))
    BY <1>9, <2>1, <2>2 DEF SessionEndedMeanwhile, Flow, Asked, Carries, Settled, Show
  <2>4. AskedAgainForAReason(t)'
    BY <1>9 DEF SessionEndedMeanwhile, AskedAgainForAReason, request
  <2> QED BY <1>0, <1>9, <2>3, <2>4, AnswerKeepsFlow DEF SessionEndedMeanwhile, request
<1>10. CASE Create(t)
  <2>1. op[t] = "signin" /\ UNCHANGED <<page, op, req, sent>>
        /\ Answer(t, IF req[t] = None THEN "home" ELSE "follow", req[t])
    BY <1>10 DEF Create, Flow, request
  <2>2. Carries(Show("follow", req[t])) /\ (req[t] = None => Carries(Show("home", req[t])))
    BY <2>1 DEF Flow, Asked, Carries, Show
  <2>3. CASE req[t] = None
    BY <1>0, <1>5, <2>1, <2>2, <2>3, AnswerKeepsFlow
  <2>4. CASE req[t] # None
    BY <1>0, <1>5, <2>1, <2>2, <2>4, AnswerKeepsFlow
  <2> QED BY <2>3, <2>4
<1> QED BY <1>1, <1>2, <1>3, <1>4, <1>6, <1>7, <1>8, <1>9, <1>10 DEF Handler

LEMMA ResponseKeepsFlow ==
  ASSUME TypeOK, NEW t \in Tab, Flow(t), Respond(t) \/ LoseResponse(t) \/ Fail(t)
  PROVE  Flow(t)'
<1>1. CASE Respond(t)
  <2>1. page'[t] \in {Home, answer[t]}
    BY <1>1 DEF Respond, TypeOK
  <2>2. Carries(page'[t])
    BY <2>1 DEF Flow, Carries, Home, Show
  <2> QED BY <1>1, <2>2, DoneKeepsFlow DEF Respond
<1>2. CASE LoseResponse(t)
  BY <1>2, DoneKeepsFlow DEF LoseResponse, Flow
<1>3. CASE Fail(t)
  BY <1>3, RefuseKeepsFlow DEF Fail
<1> QED BY <1>1, <1>2, <1>3

---------------------------------------------------------------------------
(* The invariant *)

LEMMA InitFlow == Init => FlowInv
<1> SUFFICES ASSUME Init PROVE \A t \in Tab : Flow(t)
  BY InitInv DEF FlowInv
<1> QED BY DEF Init, Flow, Carries, Asked, AskedAgainForAReason, Home, Show

LEMMA StepFlow == FlowInv /\ [Next]_vars => FlowInv'
<1> SUFFICES ASSUME FlowInv, [Next]_vars PROVE FlowInv'
  OBVIOUS
<1>0. ApprovalInv /\ TypeOK /\ \A t \in Tab : Flow(t)
  BY DEF FlowInv, ApprovalInv
<1>1. \A t \in Tab : FlowState(t)' = FlowState(t) => Flow(t)'
  BY <1>0, FlowIsStable
<1>2. ASSUME NEW u \in Tab, Acts(u) \/ Handler(u) \/ Respond(u) \/ LoseResponse(u) \/ Fail(u),
             NEW t \in Tab
      PROVE  Flow(t)'
  <2>1. CASE t = u
    BY <1>0, <1>2, <2>1, ActsKeepFlow, HandlerKeepsFlow, ResponseKeepsFlow
  <2>2. CASE t # u
    BY <1>0, <1>1, <1>2, <2>2, OthersKeepFlow
  <2> QED BY <2>1, <2>2
<1>3. ASSUME \/ \E s \in Session : Expire(s) \/ Age(s)
             \/ \E cl \in Client : UpdateDetails(cl) \/ DeleteClient(cl)
             \/ UNCHANGED vars
      PROVE  \A t \in Tab : Flow(t)'
  BY <1>1, <1>3, EnvironmentKeepsFlow
<1>4. \A t \in Tab : Flow(t)'
  BY <1>2, <1>3 DEF Next, Disturbance
<1> QED BY <1>0, <1>4, StepInv DEF FlowInv

\* FlowInv holds in every reachable state.
THEOREM FlowInvariance == Spec => []FlowInv
BY InitFlow, StepFlow, PTL DEF Spec

\* prompt=none never leads to a sign-in or consent page, on whatever path the
\* request takes and whatever happens to the session on the way.
THEOREM SilenceIsKept == Spec => []SilentRequestsShowNothing
<1>1. FlowInv => SilentRequestsShowNothing
  BY DEF FlowInv, Flow, Carries, SilentRequestsShowNothing
<1> QED BY <1>1, FlowInvariance, PTL

\* A request that has been to the sign-in page is sent there again only if its
\* session has ended since, or it left a consent page and its session is too old.
THEOREM NoSecondSignInWithoutReason == Spec => []ReturnFromSignInIsFinal
<1>1. FlowInv => ReturnFromSignInIsFinal
  BY DEF FlowInv, Flow, AskedAgainForAReason, SentIsOver, ReturnFromSignInIsFinal
<1> QED BY <1>1, FlowInvariance, PTL
=============================================================================
