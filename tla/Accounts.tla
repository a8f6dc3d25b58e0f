------------------------------ MODULE Accounts ------------------------------
(***************************************************************************)
(* Accounts and the forms that lead to them: GET and POST /signin and      *)
(* /signup, with the double-submit token that guards every form of the     *)
(* server.                                                                 *)
(*                                                                         *)
(* The tabs of a browser share its sharp_csrf cookie; a request carries    *)
(* the cookie of the moment it was sent, a response that creates one       *)
(* replaces whatever the browser has when it arrives.  One page stands for *)
(* the sign-in form and the sign-up form, which are issued alike.          *)
(***************************************************************************)
EXTENDS Naturals, FiniteSets

CONSTANTS
  Tab,
  Browser,
  BrowserOf(_),
  Address,      \* mailboxes
  Password,
  Forms,        \* what users fill in
  MaxCookies,   \* enough tokens for the cookies, pages and requests of all tabs
  MaxRestarts,  \* bound: how often browsers are closed and reopened
  None

Token == 1..MaxCookies

\* An email as it is written: lower case and trimmed, in another spelling of the
\* same mailbox, or in no form an address can have.
Email == [address : Address, spelling : {"plain", "other", "broken"}]

Form == [to : {"signup", "signin"}, email : Email, password : Password, fits : BOOLEAN]

ASSUME Parameters ==
  /\ \A t \in Tab : BrowserOf(t) \in Browser
  /\ Forms \subseteq Form
  /\ None \notin Email \cup Address \cup Password \cup Form \cup Token
  /\ MaxCookies \in Nat /\ MaxRestarts \in Nat

VARIABLES
  users,     \* rows of the table users
  cookie,    \* the sharp_csrf cookie of each browser
  restarts,
  page,      \* what each tab shows
  pc,        \* the next step of the tab's request
  form,      \* the fields it posted
  sent,      \* the sharp_csrf cookie it carried
  found,     \* the password of the account it has read
  answer,    \* the page of its response
  setCookie  \* the Set-Cookie header of its response

request == <<form, sent, found, answer, setCookie>>
vars == <<users, cookie, restarts, page, pc, request>>

\* password: what the stored Argon2 hash verifies.
Row == [email : Email, password : Password]

\* token: the hidden csrf_token field.  as: the account the browser is signed in
\* to when the page appears.
Page == [at : {"blank", "form", "again", "error", "home"},
         token : Token \cup {None}, as : Address \cup {None}]

Plain(at) == [at |-> at, token |-> None, as |-> None]

TypeOK ==
  /\ users \subseteq Row
  /\ cookie \in [Browser -> Token \cup {None}]
  /\ restarts \in 0..MaxRestarts
  /\ page \in [Tab -> Page]
  /\ pc \in [Tab -> {"user", "issue", "verify", "check", "insert", "find",
                     "password", "session", "respond"}]
  /\ form \in [Tab -> Form \cup {None}]
  /\ sent \in [Tab -> Token \cup {None}]
  /\ found \in [Tab -> Password \cup {None}]
  /\ answer \in [Tab -> Page]
  /\ setCookie \in [Tab -> Token \cup {None}]

Init ==
  /\ users = {}
  /\ cookie = [b \in Browser |-> None]
  /\ restarts = 0
  /\ page = [t \in Tab |-> Plain("blank")]
  /\ pc = [t \in Tab |-> "user"]
  /\ form = [t \in Tab |-> None]
  /\ sent = [t \in Tab |-> None]
  /\ found = [t \in Tab |-> None]
  /\ answer = [t \in Tab |-> Plain("blank")]
  /\ setCookie = [t \in Tab |-> None]

Goto(t, from, to) == pc[t] = from /\ pc' = [pc EXCEPT ![t] = to]

\* The handler returns this page, without a cookie.
Answer(t, from, shown) ==
  /\ Goto(t, from, "respond")
  /\ answer' = [answer EXCEPT ![t] = shown]
  /\ UNCHANGED <<users, cookie, restarts, page, form, sent, found, setCookie>>

\* The next statement of the handler.
Continue(t, from, to) ==
  /\ Goto(t, from, to)
  /\ UNCHANGED <<users, cookie, restarts, page, request>>

---------------------------------------------------------------------------
(* The browser *)

Send(t, fields, to) ==
  /\ Goto(t, "user", to)
  /\ form' = [form EXCEPT ![t] = fields]
  /\ sent' = [sent EXCEPT ![t] = cookie[BrowserOf(t)]]
  /\ UNCHANGED <<users, cookie, restarts, page, found, answer, setCookie>>

\* Open or reload the form.
Visit(t) == page[t].at # "home" /\ Send(t, None, "issue")

Submit(t) == page[t].at = "form" /\ \E f \in Forms : Send(t, f, "verify")

EndRequest(t) ==
  /\ Goto(t, "respond", "user")
  /\ form' = [form EXCEPT ![t] = None]
  /\ sent' = [sent EXCEPT ![t] = None]
  /\ found' = [found EXCEPT ![t] = None]
  /\ answer' = [answer EXCEPT ![t] = Plain("blank")]
  /\ setCookie' = [setCookie EXCEPT ![t] = None]
  /\ UNCHANGED <<users, restarts>>

\* The response arrives, ...
Receive(t) ==
  /\ EndRequest(t)
  /\ page' = [page EXCEPT ![t] = answer[t]]
  /\ cookie' = IF setCookie[t] = None THEN cookie
               ELSE [cookie EXCEPT ![BrowserOf(t)] = setCookie[t]]

\* ... or is lost, and the tab keeps what it shows.
Lose(t) == EndRequest(t) /\ UNCHANGED <<page, cookie>>

\* The browser is closed: a cookie without Max-Age is gone, the tabs that wait for
\* nothing are restored as they were.
Reopen(b) ==
  /\ restarts < MaxRestarts
  /\ \A t \in Tab : BrowserOf(t) = b => pc[t] = "user"
  /\ restarts' = restarts + 1
  /\ cookie' = [cookie EXCEPT ![b] = None]
  /\ UNCHANGED <<users, page, pc, request>>

---------------------------------------------------------------------------
(* The double-submit token *)

\* 32 random bytes: a value nothing else holds.
InUse == {cookie[b] : b \in Browser}
           \cup UNION {{page[t].token, sent[t], setCookie[t], answer[t].token} : t \in Tab}

Fresh == CHOOSE n \in Token : n \notin InUse

\* Variant: every page gets a new value.
IssueAlwaysFresh(t) ==
  /\ Goto(t, "issue", "respond")
  /\ answer' = [answer EXCEPT ![t] = [Plain("form") EXCEPT !.token = Fresh]]
  /\ setCookie' = [setCookie EXCEPT ![t] = Fresh]
  /\ UNCHANGED <<users, cookie, restarts, page, form, sent, found>>

\* Variant: the new value is not sent as a cookie.
IssueWithoutCookie(t) ==
  /\ Goto(t, "issue", "respond")
  /\ answer' = [answer EXCEPT ![t] = [Plain("form") EXCEPT !.token =
                                        IF sent[t] = None THEN Fresh ELSE sent[t]]]
  /\ UNCHANGED <<users, cookie, restarts, page, form, sent, found, setCookie>>

\* csrf::issue: a request that carried the cookie gets its value in the form,
\* another gets a new value in the form and as a cookie.
Issue(t) ==
  /\ Goto(t, "issue", "respond")
  /\ LET value == IF sent[t] = None THEN Fresh ELSE sent[t]
     IN  /\ answer' = [answer EXCEPT ![t] = [Plain("form") EXCEPT !.token = value]]
         /\ setCookie' = [setCookie EXCEPT ![t] = IF sent[t] = None THEN value ELSE None]
  /\ UNCHANGED <<users, cookie, restarts, page, form, sent, found>>

Verifies(t) == sent[t] # None /\ page[t].token = sent[t]

VerifyCsrf(t) ==
  \/ Verifies(t) /\ Continue(t, "verify", "check")
  \/ ~Verifies(t) /\ Answer(t, "verify", Plain("again"))

---------------------------------------------------------------------------
(* Sign-up and sign-in *)

\* Variant: the address is checked but stored and looked up as it was typed.
NormalizeEmailChecksOnly(email) == IF email.spelling = "broken" THEN None ELSE email

NormalizeEmail(email) ==
  IF email.spelling = "broken" THEN None ELSE [email EXCEPT !.spelling = "plain"]

Key(t) == NormalizeEmail(form[t].email)

\* The form again with its message.  The request that passed the token check
\* carried the cookie, so its value is reused.
ShowAgain(t, from) == Answer(t, from, [Plain("form") EXCEPT !.token = sent[t]])

\* A failed statement or a hash that cannot be computed: a 500.
Fail(t) ==
  \E from \in {"check", "insert", "find", "password", "session"} :
    Answer(t, from, Plain("error"))

\* sign_up: the email, then the length of the password and of the display name;
\* then the password is hashed.
CheckAccount(t) ==
  /\ pc[t] = "check" /\ form[t].to = "signup"
  /\ IF Key(t) = None \/ ~form[t].fits
     THEN ShowAgain(t, "check")
     ELSE Continue(t, "check", "insert")

Taken(t) == \E r \in users : r.email = Key(t)

\* Variant: the email is stored as it was typed.
NewRowAsTyped(t) == [email |-> form[t].email, password |-> form[t].password]

NewRow(t) == [email |-> Key(t), password |-> form[t].password]

\* Variant: an account that exists is signed in to.
InsertOrOpen(t) ==
  /\ Goto(t, "insert", "session")
  /\ users' = users \cup (IF Taken(t) THEN {} ELSE {NewRow(t)})
  /\ UNCHANGED <<cookie, restarts, page, request>>

\* users::insert: UNIQUE (email) decides.
Insert(t) ==
  /\ pc[t] = "insert"
  /\ \/ /\ ~Taken(t)
        /\ Goto(t, "insert", "session")
        /\ users' = users \cup {NewRow(t)}
        /\ UNCHANGED <<cookie, restarts, page, request>>
     \/ Taken(t) /\ ShowAgain(t, "insert")

\* authenticate: an address in no valid form is not looked up.
StartSignIn(t) ==
  /\ pc[t] = "check" /\ form[t].to = "signin"
  /\ Continue(t, "check", "find")

\* find_by_email.  Without a row the dummy hash is verified, which fails.
Find(t) ==
  /\ Goto(t, "find", "password")
  /\ found' = [found EXCEPT ![t] = IF Taken(t)
                                   THEN (CHOOSE r \in users : r.email = Key(t)).password
                                   ELSE None]
  /\ UNCHANGED <<users, cookie, restarts, page, form, sent, answer, setCookie>>

VerifyPassword(t) ==
  /\ pc[t] = "password"
  /\ IF found[t] = form[t].password
     THEN Continue(t, "password", "session")
     ELSE ShowAgain(t, "password")

\* start_session and the redirect to return_to, as one step: module Authorization
\* has the sessions.
StartSession(t) ==
  Answer(t, "session", [Plain("home") EXCEPT !.as = Key(t).address])

SignOut(t) ==
  /\ pc[t] = "user" /\ page[t].at = "home"
  /\ page' = [page EXCEPT ![t] = Plain("blank")]
  /\ UNCHANGED <<users, cookie, restarts, pc, request>>

---------------------------------------------------------------------------

Server(t) ==
  \/ Issue(t) \/ VerifyCsrf(t)
  \/ CheckAccount(t) \/ Insert(t)
  \/ StartSignIn(t) \/ Find(t) \/ VerifyPassword(t)
  \/ StartSession(t) \/ Fail(t)

Next ==
  \/ \E t \in Tab : \/ Visit(t) \/ Submit(t) \/ SignOut(t)
                    \/ Server(t)
                    \/ Receive(t) \/ Lose(t)
  \/ \E b \in Browser : Reopen(b)

Spec == Init /\ [][Next]_vars

\* Handlers run, responses do not get lost for ever, and the user does what the
\* page asks: reloads it and submits the form again.
FairSpec ==
  /\ Spec
  /\ \A t \in Tab : /\ WF_vars(Server(t))
                    /\ SF_vars(Receive(t))
                    /\ WF_vars(page[t].at # "form" /\ Visit(t))
                    /\ SF_vars(Submit(t))

---------------------------------------------------------------------------
(* Properties *)

\* However two sign-ups with spellings of one mailbox interleave, the mailbox gets
\* one account: every row is stored under the normalised email (user.rs:49) and
\* UNIQUE (email) is the only arbiter (user.rs:85-91).
OneAccountPerMailbox ==
  \A r, s \in users : r.email.address = s.email.address => r = s

\* A request ends signed in only to an account whose password it posted: a sign-up
\* that loses the race for its email is not let into the winner's account.
SignedInWithItsPassword ==
  \A t \in Tab :
    answer[t].at = "home" =>
      \E r \in users : /\ r.email.address = answer[t].as
                       /\ form[t].email.address = answer[t].as
                       /\ form[t].password = r.password

\* The browser has a cookie, and so had every request of it that is under way.
Settled(b) ==
  /\ cookie[b] # None
  /\ \A t \in Tab : BrowserOf(t) = b /\ pc[t] # "user" => sent[t] = cookie[b]

\* "Several open tabs keep working" (csrf.rs:41): once a browser is settled it stays so,
\* with the same cookie, until it is closed, and every form it gets, a fresh one or one
\* that is shown again, carries the value of that cookie: no tab spoils another's form.
OpenTabsKeepWorking ==
  [][\A b \in Browser : Settled(b) /\ restarts' = restarts =>
       /\ Settled(b)' /\ cookie'[b] = cookie[b]
       /\ \A t \in Tab :
            /\ BrowserOf(t) = b
            /\ page'[t] # page[t] /\ page'[t].at = "form"
            => page'[t].token = cookie[b]]_vars

\* A sign-in finds the account of its mailbox whichever spelling it and the
\* sign-up used.
SpellingsMeet ==
  [][\A t \in Tab, r \in users :
       /\ pc[t] = "find" /\ pc'[t] = "password"
       /\ form[t].email.spelling # "broken" /\ r.email.address = form[t].email.address
       => found'[t] = r.password]_vars

\* "Go back, reload the page and try again" (csrf_failure) works: a tab that keeps
\* reloading and submitting gets a form past the token check.
TryingAgainHelps ==
  \A t \in Tab : page[t].at = "again" ~> pc[t] = "check"
=============================================================================
