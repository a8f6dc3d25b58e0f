--------------------------- MODULE AccountsProofs ---------------------------
(***************************************************************************)
(* One mailbox, one account, and no way into it but its password: for any  *)
(* number of tabs, browsers, addresses, passwords and forms.               *)
(*                                                                         *)
(* AccountsInv follows a request from the row it read or wrote to the page *)
(* that signs it in: rows are stored under the normalised email only and   *)
(* are never changed, so what a request has found stays true until it      *)
(* answers, whatever the other requests insert meanwhile.  CookiesHold is  *)
(* about the cookie that the tabs of a browser share: no response to a     *)
(* request that carried one replaces it.                                   *)
(***************************************************************************)
EXTENDS Accounts, TLAPS

\* The rows: normalised emails, each once.
RowsAreKeyed ==
  /\ users \subseteq Row
  /\ \A r \in users : r.email.spelling = "plain"
  /\ \A r, s \in users : r.email = s.email => r = s

Tables == /\ DOMAIN pc = Tab /\ DOMAIN form = Tab
          /\ DOMAIN found = Tab /\ DOMAIN answer = Tab

\* The account of this email with this password exists.
Exists(email, password) == \E r \in users : r.email = email /\ r.password = password

\* What the next step of a request rests on.
Holds(t) ==
  /\ pc[t] \in {"verify", "check", "insert", "find", "password", "session"} => form[t] \in Form
  /\ pc[t] \in {"insert", "session"} => Key(t) # None
  /\ pc[t] = "password" /\ found[t] # None => Key(t) # None /\ Exists(Key(t), found[t])
  /\ pc[t] = "session" => Exists(Key(t), form[t].password)
  /\ answer[t].at = "home" =>
       /\ pc[t] = "respond" /\ form[t] \in Form /\ Key(t) # None
       /\ answer[t].as = form[t].email.address
       /\ Exists(Key(t), form[t].password)

AccountsInv == RowsAreKeyed /\ Tables /\ \A t \in Tab : Holds(t)

---------------------------------------------------------------------------
(* Emails *)

\* A normalised email is plain and of the same mailbox.
LEMMA Normalized ==
  ASSUME NEW e \in Email
  PROVE  /\ NormalizeEmail(e) # None =>
              /\ e.spelling # "broken" /\ NormalizeEmail(e) \in Email
              /\ NormalizeEmail(e).spelling = "plain"
              /\ NormalizeEmail(e).address = e.address
         /\ e.spelling # "broken" => NormalizeEmail(e) # None
BY Parameters DEF NormalizeEmail, Email

\* Two plain emails of one mailbox are one.
LEMMA PlainEmailsAgree ==
  ASSUME NEW e \in Email, NEW f \in Email, e.spelling = "plain", f.spelling = "plain",
         e.address = f.address
  PROVE  e = f
BY DEF Email

---------------------------------------------------------------------------
(* The rows *)

\* Rows are added by Insert, under an email that no row has, and by nothing else.
LEMMA RowsAreAdded ==
  ASSUME [Next]_vars
  PROVE  \/ UNCHANGED users
         \/ \E t \in Tab : Insert(t) /\ ~Taken(t) /\ users' = users \cup {NewRow(t)}
<1>1. ASSUME NEW t \in Tab, Insert(t), users' # users
      PROVE  ~Taken(t) /\ users' = users \cup {NewRow(t)}
  BY <1>1 DEF Insert, ShowAgain, Answer
<1>2. ASSUME NEW t \in Tab, Server(t), ~Insert(t) PROVE UNCHANGED users
  BY <1>2 DEF Server, Issue, VerifyCsrf, CheckAccount, StartSignIn, Find, VerifyPassword,
     StartSession, Fail, ShowAgain, Answer, Continue
<1>3. ASSUME NEW t \in Tab, \/ Visit(t) \/ Submit(t) \/ SignOut(t) \/ Receive(t) \/ Lose(t)
      PROVE  UNCHANGED users
  BY <1>3 DEF Visit, Submit, Send, SignOut, Receive, Lose, EndRequest
<1>4. ASSUME NEW b \in Browser, Reopen(b) PROVE UNCHANGED users
  BY <1>4 DEF Reopen
<1> QED BY <1>1, <1>2, <1>3, <1>4 DEF Next, vars

LEMMA RowsStay ==
  ASSUME [Next]_vars
  PROVE  users \subseteq users'
BY RowsAreAdded

LEMMA RowsStayKeyed ==
  ASSUME AccountsInv, [Next]_vars
  PROVE  RowsAreKeyed'
<1>1. CASE UNCHANGED users
  BY <1>1 DEF AccountsInv, RowsAreKeyed
<1>2. ASSUME NEW t \in Tab, Insert(t), ~Taken(t), users' = users \cup {NewRow(t)}
      PROVE  RowsAreKeyed'
  <2>1. form[t] \in Form /\ Key(t) # None
    BY <1>2 DEF Insert, Goto, ShowAgain, Answer, AccountsInv, Holds
  <2>2. Key(t) \in Email /\ Key(t).spelling = "plain"
    BY <2>1, Normalized DEF Key, Form
  <2>3. NewRow(t) \in Row /\ NewRow(t).email = Key(t)
    BY <2>1, <2>2 DEF NewRow, Row, Form
  <2> QED BY <1>2, <2>2, <2>3 DEF Taken, AccountsInv, RowsAreKeyed
<1> QED BY <1>1, <1>2, RowsAreAdded

---------------------------------------------------------------------------
(* The requests *)

LEMMA HoldsIsStable ==
  ASSUME [Next]_vars, NEW t \in Tab, Holds(t),
         pc'[t] = pc[t], form'[t] = form[t], found'[t] = found[t], answer'[t] = answer[t]
  PROVE  Holds(t)'
<1>1. Key(t)' = Key(t)
  BY DEF Key
<1>2. \A e, w : Exists(e, w) => Exists(e, w)'
  BY RowsStay DEF Exists
<1> QED BY <1>1, <1>2 DEF Holds, Exists

\* A step of one tab leaves the requests of the others.
LEMMA OtherTabsKeep ==
  ASSUME Tables, NEW t \in Tab,
         Visit(t) \/ Submit(t) \/ SignOut(t) \/ Server(t) \/ Receive(t) \/ Lose(t)
  PROVE  /\ Tables'
         /\ \A u \in Tab \ {t} : /\ pc'[u] = pc[u] /\ form'[u] = form[u]
                                 /\ found'[u] = found[u] /\ answer'[u] = answer[u]
<1> USE DEF Tables
<1>1. \A from, to : Goto(t, from, to) => DOMAIN pc' = Tab /\ \A u \in Tab \ {t} : pc'[u] = pc[u]
  BY DEF Goto
<1>2. CASE Visit(t) \/ Submit(t)
  BY <1>1, <1>2 DEF Visit, Submit, Send
<1>3. CASE SignOut(t)
  BY <1>3 DEF SignOut, request
<1>4. CASE Receive(t) \/ Lose(t)
  BY <1>1, <1>4 DEF Receive, Lose, EndRequest
<1>5. CASE Server(t)
  BY <1>1, <1>5 DEF Server, Issue, VerifyCsrf, CheckAccount, Insert, StartSignIn, Find,
     VerifyPassword, StartSession, Fail, ShowAgain, Answer, Continue, request
<1> QED BY <1>2, <1>3, <1>4, <1>5

\* A handler that answers with a page that signs nobody in.
LEMMA AnswerHolds ==
  ASSUME Tables, NEW t \in Tab, NEW from, NEW shown, Answer(t, from, shown), shown.at # "home"
  PROVE  Holds(t)'
BY DEF Tables, Answer, Goto, Holds

LEMMA PagesSignNobodyIn ==
  ASSUME NEW x
  PROVE  /\ Plain("again").at # "home" /\ Plain("error").at # "home" /\ Plain("blank").at # "home"
         /\ [Plain("form") EXCEPT !.token = x].at # "home"
BY DEF Plain

\* The tab that takes the step.
LEMMA OwnRequestHolds ==
  ASSUME AccountsInv, [Next]_vars, NEW t \in Tab,
         Visit(t) \/ Submit(t) \/ SignOut(t) \/ Server(t) \/ Receive(t) \/ Lose(t)
  PROVE  Holds(t)'
<1>0. RowsAreKeyed /\ Tables /\ Holds(t)
  BY DEF AccountsInv
<1>1. \A e, w : Exists(e, w) => Exists(e, w)'
  BY RowsStay DEF Exists
<1>2. \A from, to : Goto(t, from, to) => pc[t] = from /\ pc'[t] = to
  BY <1>0 DEF Goto, Tables
<1>3. pc[t] # "respond" => answer[t].at # "home"
  BY <1>0 DEF Holds
<1>4. CASE Visit(t)
  BY <1>0, <1>2, <1>3, <1>4 DEF Visit, Send, Holds
<1>5. CASE Submit(t)
  <2>1. PICK f \in Forms : Send(t, f, "verify")
    BY <1>5 DEF Submit
  <2>2. form'[t] \in Form
    BY <1>0, <2>1, Parameters DEF Send, Tables
  <2> QED BY <1>2, <1>3, <2>1, <2>2 DEF Send, Holds
<1>6. CASE SignOut(t)
  BY <1>0, <1>6, HoldsIsStable DEF SignOut, request
<1>7. CASE Receive(t) \/ Lose(t)
  <2>1. pc'[t] = "user" /\ answer'[t] = Plain("blank")
    BY <1>0, <1>2, <1>7 DEF Receive, Lose, EndRequest, Tables
  <2> QED BY <2>1 DEF Holds, Plain
<1>8. ASSUME NEW from, NEW to, Continue(t, from, to), from # "respond"
      PROVE  /\ pc[t] = from /\ pc'[t] = to /\ form' = form /\ found' = found /\ answer' = answer
             /\ answer'[t].at # "home" /\ users' = users /\ Key(t)' = Key(t)
  BY <1>2, <1>3, <1>8 DEF Continue, request, Key
<1>9. CASE Server(t)
  <2>1. CASE Issue(t)
    <3>1. pc'[t] = "respond" /\ answer'[t].at # "home"
      BY <1>0, <1>2, <2>1 DEF Issue, Tables, Plain
    <3> QED BY <3>1 DEF Holds
  <2>2. CASE VerifyCsrf(t)
    <3>1. CASE Continue(t, "verify", "check")
      BY <1>0, <1>8, <3>1 DEF Holds
    <3> QED BY <1>0, <2>2, <3>1, AnswerHolds, PagesSignNobodyIn DEF VerifyCsrf
  <2>3. CASE CheckAccount(t)
    <3>1. CASE Key(t) # None /\ Continue(t, "check", "insert")
      BY <1>0, <1>8, <3>1 DEF Holds
    <3> QED BY <1>0, <2>3, <3>1, AnswerHolds, PagesSignNobodyIn DEF CheckAccount, ShowAgain
  <2>4. CASE Insert(t)
    <3>1. ASSUME Goto(t, "insert", "session"), users' = users \cup {NewRow(t)},
                 UNCHANGED <<cookie, restarts, page, request>>
          PROVE  Holds(t)'
      <4>1. /\ pc[t] = "insert" /\ pc'[t] = "session" /\ form' = form /\ answer' = answer
            /\ Key(t)' = Key(t) /\ answer'[t].at # "home"
        BY <1>2, <1>3, <3>1 DEF request, Key
      <4>2. Exists(Key(t), form[t].password)'
        <5>1. /\ NewRow(t) \in users' /\ NewRow(t).email = Key(t)
              /\ NewRow(t).password = form[t].password
          BY <3>1 DEF NewRow
        <5> QED BY <4>1, <5>1 DEF Exists
      <4>3. form'[t] \in Form /\ Key(t)' # None
        BY <1>0, <4>1 DEF Holds
      <4> QED BY <4>1, <4>2, <4>3 DEF Holds
    <3> QED BY <1>0, <2>4, <3>1, AnswerHolds, PagesSignNobodyIn DEF Insert, ShowAgain
  <2>5. CASE StartSignIn(t)
    BY <1>0, <1>8, <2>5 DEF StartSignIn, Holds
  <2>6. CASE Find(t)
    <3>1. /\ pc[t] = "find" /\ pc'[t] = "password" /\ form' = form /\ answer' = answer
          /\ users' = users /\ Key(t)' = Key(t) /\ answer'[t].at # "home"
          /\ found'[t] = IF Taken(t) THEN (CHOOSE r \in users : r.email = Key(t)).password ELSE None
      BY <1>0, <1>2, <1>3, <2>6 DEF Find, Key, Tables
    <3>2. ASSUME Taken(t) PROVE Key(t) # None /\ Exists(Key(t), found'[t])
      <4>1. PICK r \in users : r.email = Key(t)
        BY <3>2 DEF Taken
      <4>2. Key(t) # None
        BY <1>0, <4>1, Parameters DEF RowsAreKeyed, Row
      <4> QED BY <3>1, <3>2, <4>1, <4>2 DEF Exists
    <3> QED BY <1>0, <3>1, <3>2 DEF Holds, Exists
  <2>7. CASE VerifyPassword(t)
    <3>1. CASE found[t] = form[t].password /\ Continue(t, "password", "session")
      <4>1. form[t].password # None
        BY <1>0, <1>8, <3>1, Parameters DEF Holds, Form
      <4> QED BY <1>0, <1>8, <3>1, <4>1 DEF Holds, Exists
    <3> QED BY <1>0, <2>7, <3>1, AnswerHolds, PagesSignNobodyIn DEF VerifyPassword, ShowAgain
  <2>8. CASE StartSession(t)
    <3>1. /\ pc[t] = "session" /\ pc'[t] = "respond" /\ form' = form /\ users' = users
          /\ Key(t)' = Key(t) /\ answer'[t].as = Key(t).address
      BY <1>0, <1>2, <2>8 DEF StartSession, Answer, Key, Tables, Plain
    <3>2. Key(t).address = form[t].email.address
      BY <1>0, <3>1, Normalized DEF Holds, Key, Form
    <3> QED BY <1>0, <3>1, <3>2 DEF Holds, Exists
  <2>9. CASE Fail(t)
    BY <1>0, <2>9, AnswerHolds, PagesSignNobodyIn DEF Fail
  <2> QED BY <1>9, <2>1, <2>2, <2>3, <2>4, <2>5, <2>6, <2>7, <2>8, <2>9 DEF Server
<1> QED BY <1>4, <1>5, <1>6, <1>7, <1>9

---------------------------------------------------------------------------
(* The theorems *)

LEMMA InitAccounts == Init => AccountsInv
BY DEF Init, AccountsInv, RowsAreKeyed, Tables, Holds, Plain

LEMMA StepAccounts == AccountsInv /\ [Next]_vars => AccountsInv'
<1> SUFFICES ASSUME AccountsInv, [Next]_vars PROVE AccountsInv'
  OBVIOUS
<1>1. RowsAreKeyed'
  BY RowsStayKeyed
<1>2. ASSUME NEW t \in Tab,
             Visit(t) \/ Submit(t) \/ SignOut(t) \/ Server(t) \/ Receive(t) \/ Lose(t)
      PROVE  Tables' /\ \A u \in Tab : Holds(u)'
  <2>1. Holds(t)'
    BY <1>2, OwnRequestHolds
  <2>2. ASSUME NEW u \in Tab, u # t PROVE Holds(u)'
    BY <1>2, <2>2, OtherTabsKeep, HoldsIsStable DEF AccountsInv
  <2> QED BY <1>2, <2>1, <2>2, OtherTabsKeep DEF AccountsInv
<1>3. ASSUME UNCHANGED <<pc, form, found, answer>> PROVE Tables' /\ \A u \in Tab : Holds(u)'
  BY <1>3, HoldsIsStable DEF AccountsInv, Tables
<1>4. CASE UNCHANGED vars \/ \E b \in Browser : Reopen(b)
  BY <1>1, <1>3, <1>4 DEF vars, Reopen, request, AccountsInv
<1>5. Tables' /\ \A u \in Tab : Holds(u)'
  BY <1>2, <1>4 DEF Next, AccountsInv
<1> QED BY <1>1, <1>5 DEF AccountsInv

\* AccountsInv holds in every reachable state.
THEOREM AccountsInvariance == Spec => []AccountsInv
BY InitAccounts, StepAccounts, PTL DEF Spec

\* Sign-ups with any spellings of one mailbox, however they interleave, leave
\* one account for it.
THEOREM MailboxHasOneAccount == Spec => []OneAccountPerMailbox
<1>1. ASSUME AccountsInv, NEW r \in users, NEW s \in users, r.email.address = s.email.address
      PROVE  r = s
  BY <1>1, PlainEmailsAgree DEF AccountsInv, RowsAreKeyed, Row
<1>2. AccountsInv => OneAccountPerMailbox
  BY <1>1 DEF OneAccountPerMailbox
<1> QED BY <1>2, AccountsInvariance, PTL

\* Whoever ends up signed in has posted the password of that account: neither
\* losing a race for an email nor a stale read lets a request into another's.
THEOREM OnlyItsPasswordOpensIt == Spec => []SignedInWithItsPassword
<1>1. ASSUME AccountsInv, NEW t \in Tab, answer[t].at = "home"
      PROVE  \E r \in users : /\ r.email.address = answer[t].as
                              /\ form[t].email.address = answer[t].as
                              /\ form[t].password = r.password
  <2>1. PICK r \in users : r.email = Key(t) /\ r.password = form[t].password
    BY <1>1 DEF AccountsInv, Holds, Exists
  <2>2. Key(t).address = form[t].email.address /\ answer[t].as = form[t].email.address
    BY <1>1, Normalized DEF AccountsInv, Holds, Key, Form
  <2> QED BY <2>1, <2>2
<1>2. AccountsInv => SignedInWithItsPassword
  BY <1>1 DEF SignedInWithItsPassword
<1> QED BY <1>2, AccountsInvariance, PTL

\* A step from "find" to "password" is the lookup.
LEMMA LookupIsFind ==
  ASSUME AccountsInv, [Next]_vars, NEW t \in Tab, pc[t] = "find", pc'[t] = "password"
  PROVE  Find(t)
<1>1. pc' # pc /\ Tables
  BY DEF AccountsInv
<1>2. PICK u \in Tab : Visit(u) \/ Submit(u) \/ SignOut(u) \/ Server(u) \/ Receive(u) \/ Lose(u)
  BY <1>1 DEF Next, vars, Reopen
<1>3. u = t
  BY <1>1, <1>2, OtherTabsKeep
<1>4. \A from, to : Goto(t, from, to) => from = "find" /\ to = "password"
  BY <1>1 DEF Goto, Tables
<1>5. ~Visit(t) /\ ~Submit(t) /\ ~SignOut(t) /\ ~Receive(t) /\ ~Lose(t)
  BY <1>1, <1>4 DEF Visit, Submit, Send, SignOut, Receive, Lose, EndRequest
<1> QED BY <1>2, <1>3, <1>4, <1>5 DEF Server, Issue, VerifyCsrf, CheckAccount, Insert, StartSignIn,
     VerifyPassword, StartSession, Fail, ShowAgain, Answer, Continue

\* A sign-in reads the password of the account of its mailbox, in whichever
\* spelling the sign-up and the sign-in wrote the address.
THEOREM SpellingsFindTheAccount == Spec => SpellingsMeet
<1>1. ASSUME AccountsInv, [Next]_vars, NEW t \in Tab, NEW r \in users,
             pc[t] = "find", pc'[t] = "password", form[t].email.spelling # "broken",
             r.email.address = form[t].email.address
      PROVE  found'[t] = r.password
  <2>1. Find(t)
    BY <1>1, LookupIsFind
  <2>2. form[t] \in Form /\ r \in Row /\ r.email.spelling = "plain"
    BY <1>1 DEF AccountsInv, Holds, RowsAreKeyed
  <2>3. Key(t) \in Email /\ Key(t).spelling = "plain" /\ Key(t).address = form[t].email.address
    BY <1>1, <2>2, Normalized DEF Key, Form
  <2>4. r.email = Key(t)
    BY <1>1, <2>2, <2>3, PlainEmailsAgree DEF Row
  <2>5. (CHOOSE s \in users : s.email = Key(t)) = r
    BY <1>1, <2>4 DEF AccountsInv, RowsAreKeyed
  <2> QED BY <1>1, <2>1, <2>4, <2>5 DEF Find, Taken, AccountsInv, Tables
<1>2. AccountsInv /\ [Next]_vars =>
        [\A t \in Tab, r \in users :
           /\ pc[t] = "find" /\ pc'[t] = "password"
           /\ form[t].email.spelling # "broken" /\ r.email.address = form[t].email.address
           => found'[t] = r.password]_vars
  BY <1>1
<1> QED BY <1>2, AccountsInvariance, PTL DEF Spec, SpellingsMeet

---------------------------------------------------------------------------
(* The cookie that the tabs share *)

\* A response sets a cookie only when its request carried none, and the form in it
\* carries the value that the request did.
CookiesHold ==
  /\ restarts \in Nat
  /\ DOMAIN cookie = Browser /\ DOMAIN page = Tab /\ DOMAIN pc = Tab
  /\ DOMAIN sent = Tab /\ DOMAIN answer = Tab /\ DOMAIN setCookie = Tab
  /\ \A t \in Tab :
       /\ setCookie[t] # None => pc[t] = "respond" /\ sent[t] = None
       /\ answer[t].at = "form" =>
            pc[t] = "respond" /\ (sent[t] # None => answer[t].token = sent[t])

\* What a handler does to the cookies and pages: nothing.
LEMMA HandlersTouchNoBrowser ==
  ASSUME NEW t \in Tab, Server(t)
  PROVE  /\ UNCHANGED <<cookie, restarts, page, sent>>
         /\ \E from, to : Goto(t, from, to) /\ from \notin {"user", "respond"}
<1>1. ASSUME NEW from, from \notin {"user", "respond"},
             \/ \E to : Continue(t, from, to)
             \/ \E shown : Answer(t, from, shown)
      PROVE  /\ UNCHANGED <<cookie, restarts, page, sent>>
             /\ \E to : Goto(t, from, to)
  BY <1>1 DEF Continue, Answer, request
<1>2. CASE Issue(t) \/ Find(t)
  BY <1>2 DEF Issue, Find
<1>3. CASE Insert(t)
  BY <1>1, <1>3 DEF Insert, ShowAgain, request
<1>4. CASE VerifyCsrf(t) \/ CheckAccount(t) \/ StartSignIn(t) \/ VerifyPassword(t)
  <2>1. CASE VerifyCsrf(t)
    BY <1>1, <2>1 DEF VerifyCsrf
  <2>2. CASE CheckAccount(t)
    BY <1>1, <2>2 DEF CheckAccount, ShowAgain
  <2>3. CASE StartSignIn(t)
    BY <1>1, <2>3 DEF StartSignIn
  <2>4. CASE VerifyPassword(t)
    BY <1>1, <2>4 DEF VerifyPassword, ShowAgain
  <2> QED BY <1>4, <2>1, <2>2, <2>3, <2>4
<1>5. CASE StartSession(t) \/ Fail(t)
  BY <1>1, <1>5 DEF StartSession, Fail
<1> QED BY <1>2, <1>3, <1>4, <1>5 DEF Server

\* What a handler leaves for its response.
LEMMA HandlersAnswer ==
  ASSUME CookiesHold, NEW t \in Tab, Server(t)
  PROVE  CookiesHold'
<1> USE DEF CookiesHold
<1>1. /\ UNCHANGED <<cookie, restarts, page, sent>>
      /\ setCookie[t] = None /\ answer[t].at # "form"
      /\ DOMAIN pc' = Tab /\ \A u \in Tab \ {t} : pc'[u] = pc[u]
  BY HandlersTouchNoBrowser DEF Goto
<1>2. ASSUME NEW from, NEW to, Continue(t, from, to) PROVE CookiesHold'
  BY <1>1, <1>2 DEF Continue, Goto, request
<1>3. ASSUME NEW from, NEW shown, Answer(t, from, shown),
             shown.at = "form" => shown.token = sent[t]
      PROVE  CookiesHold'
  BY <1>1, <1>3 DEF Answer, Goto
<1>4. ASSUME NEW from, ShowAgain(t, from) PROVE CookiesHold'
  <2>1. [Plain("form") EXCEPT !.token = sent[t]].token = sent[t]
    BY DEF Plain
  <2> QED BY <1>3, <1>4, <2>1 DEF ShowAgain
<1>5. \A from, at : Answer(t, from, Plain(at)) /\ at # "form" => CookiesHold'
  BY <1>3 DEF Plain
<1>6. CASE Issue(t)
  <2>1. /\ pc'[t] = "respond"
        /\ answer' = [answer EXCEPT ![t] = [Plain("form") EXCEPT !.token =
                                              IF sent[t] = None THEN Fresh ELSE sent[t]]]
        /\ setCookie' = [setCookie EXCEPT ![t] = IF sent[t] = None THEN Fresh ELSE None]
    BY <1>6 DEF Issue, Goto
  <2>2. sent[t] # None => answer'[t].token = sent[t]
    BY <2>1 DEF Plain
  <2> QED BY <1>1, <2>1, <2>2
<1>7. CASE Insert(t)
  BY <1>1, <1>4, <1>7 DEF Insert, Goto, request
<1>8. CASE Find(t)
  BY <1>1, <1>8 DEF Find, Goto
<1>9. CASE VerifyCsrf(t) \/ CheckAccount(t) \/ StartSignIn(t) \/ VerifyPassword(t) \/ Fail(t)
  <2>1. CASE VerifyCsrf(t)
    BY <1>2, <1>5, <2>1 DEF VerifyCsrf
  <2>2. CASE CheckAccount(t) \/ StartSignIn(t) \/ VerifyPassword(t)
    BY <1>2, <1>4, <2>2 DEF CheckAccount, StartSignIn, VerifyPassword
  <2>3. CASE Fail(t)
    BY <1>5, <2>3 DEF Fail
  <2> QED BY <1>9, <2>1, <2>2, <2>3
<1>10. CASE StartSession(t)
  BY <1>3, <1>10 DEF StartSession, Plain
<1> QED BY <1>6, <1>7, <1>8, <1>9, <1>10 DEF Server

LEMMA StepCookies ==
  ASSUME CookiesHold, [Next]_vars
  PROVE  CookiesHold'
<1> USE DEF CookiesHold
<1>1. ASSUME NEW t \in Tab, Visit(t) \/ Submit(t) PROVE CookiesHold'
  BY <1>1 DEF Visit, Submit, Send, Goto
<1>2. ASSUME NEW t \in Tab, SignOut(t) PROVE CookiesHold'
  BY <1>2 DEF SignOut, request
<1>3. ASSUME NEW t \in Tab, Receive(t) \/ Lose(t) PROVE CookiesHold'
  <2>1. EndRequest(t) /\ DOMAIN page' = Tab /\ DOMAIN cookie' = Browser
    BY <1>3 DEF Receive, Lose
  <2> QED BY <2>1 DEF EndRequest, Goto, Plain
<1>4. ASSUME NEW b \in Browser, Reopen(b) PROVE CookiesHold'
  BY <1>4 DEF Reopen, request
<1>5. UNCHANGED vars => CookiesHold'
  BY DEF vars, request
<1> QED BY <1>1, <1>2, <1>3, <1>4, <1>5, HandlersAnswer DEF Next

\* What a response changes in a browser whose requests all carried its cookie.
LEMMA SettledStays ==
  ASSUME CookiesHold, [Next]_vars, NEW b \in Browser, Settled(b), restarts' = restarts
  PROVE  /\ Settled(b)' /\ cookie'[b] = cookie[b]
         /\ \A t \in Tab : /\ BrowserOf(t) = b
                           /\ page'[t] # page[t] /\ page'[t].at = "form"
                           => page'[t].token = cookie[b]
<1> USE DEF CookiesHold, Settled
<1>1. CASE UNCHANGED vars
  BY <1>1 DEF vars, request
<1>2. \A c \in Browser : ~Reopen(c)
  BY DEF Reopen
<1>3. ASSUME NEW t \in Tab, Visit(t) \/ Submit(t)
      PROVE  /\ Settled(b)' /\ UNCHANGED <<cookie, page>>
  BY <1>3 DEF Visit, Submit, Send, Goto
<1>4. ASSUME NEW t \in Tab, SignOut(t)
      PROVE  /\ Settled(b)' /\ UNCHANGED cookie
             /\ \A u \in Tab : page'[u] = page[u] \/ page'[u].at = "blank"
  BY <1>4 DEF SignOut, request, Plain
<1>5. ASSUME NEW t \in Tab, Server(t)
      PROVE  /\ Settled(b)' /\ UNCHANGED <<cookie, page>>
  BY <1>5, HandlersTouchNoBrowser DEF Goto
<1>6. ASSUME NEW t \in Tab, Lose(t)
      PROVE  /\ Settled(b)' /\ UNCHANGED <<cookie, page>>
  BY <1>6 DEF Lose, EndRequest, Goto
<1>7. ASSUME NEW t \in Tab, Receive(t)
      PROVE  /\ Settled(b)' /\ cookie'[b] = cookie[b]
             /\ \A u \in Tab : u # t => page'[u] = page[u]
             /\ BrowserOf(t) = b /\ page'[t].at = "form" => page'[t].token = cookie[b]
  <2>1. /\ pc[t] = "respond" /\ page'[t] = answer[t]
        /\ \A u \in Tab : u # t => page'[u] = page[u] /\ pc'[u] = pc[u] /\ sent'[u] = sent[u]
        /\ pc'[t] = "user"
    BY <1>7 DEF Receive, EndRequest, Goto
  <2>2. BrowserOf(t) = b => sent[t] = cookie[b] /\ setCookie[t] = None
    BY <2>1
  <2>3. cookie'[b] = cookie[b]
    BY <1>7, <2>2 DEF Receive
  <2> QED BY <2>1, <2>2, <2>3
<1> QED BY <1>1, <1>2, <1>3, <1>4, <1>5, <1>6, <1>7 DEF Next

\* A browser whose requests carry its cookie keeps it, whatever its tabs open, post,
\* lose or get back, and all its forms carry its value: several open tabs keep working.
THEOREM TabsKeepWorking == Spec => OpenTabsKeepWorking
<1>1. Init => CookiesHold
  BY DEF Init, CookiesHold, Plain
<1>2. CookiesHold /\ [Next]_vars => CookiesHold'
  BY StepCookies
<1>3. CookiesHold /\ [Next]_vars =>
        [\A b \in Browser : Settled(b) /\ restarts' = restarts =>
           /\ Settled(b)' /\ cookie'[b] = cookie[b]
           /\ \A t \in Tab :
                /\ BrowserOf(t) = b
                /\ page'[t] # page[t] /\ page'[t].at = "form"
                => page'[t].token = cookie[b]]_vars
  BY SettledStays
<1> QED BY <1>1, <1>2, <1>3, PTL DEF Spec, OpenTabsKeepWorking

---------------------------------------------------------------------------
(* Types *)

\* MaxCookies is a bound of the model: it is wide enough while a value is left.
EnoughTokens == Token \ InUse # {}

LEMMA StepTypes ==
  ASSUME TypeOK, AccountsInv, EnoughTokens, [Next]_vars
  PROVE  TypeOK'
<1> USE DEF TypeOK
<1>0. \A at \in {"blank", "again", "error"} : Plain(at) \in Page
  BY DEF Plain, Page
<1>1. CASE UNCHANGED vars
  BY <1>1 DEF vars, request
<1>2. \A b \in Browser : Reopen(b) => TypeOK'
  BY Parameters DEF Reopen, request
<1>3. \A t \in Tab : Visit(t) \/ Submit(t) => TypeOK'
  BY Parameters DEF Visit, Submit, Send, Goto
<1>4. \A t \in Tab : SignOut(t) => TypeOK'
  BY <1>0 DEF SignOut, request
<1>5. \A t \in Tab : Receive(t) \/ Lose(t) => TypeOK'
  BY <1>0, Parameters DEF Receive, Lose, EndRequest, Goto
<1>6. ASSUME NEW t \in Tab, NEW from, NEW shown \in Page, Answer(t, from, shown)
      PROVE  TypeOK'
  <2>1. answer' \in [Tab -> Page]
    BY <1>6 DEF Answer
  <2>2. pc' \in [Tab -> {"user", "issue", "verify", "check", "insert", "find",
                         "password", "session", "respond"}]
    BY <1>6 DEF Answer, Goto
  <2> QED BY <1>6, <2>1, <2>2 DEF Answer
<1>7. ASSUME NEW t \in Tab, NEW from,
             NEW to \in {"check", "insert", "find", "password", "session"},
             Continue(t, from, to)
      PROVE  TypeOK'
  BY <1>7 DEF Continue, Goto, request
<1>8. ASSUME NEW t \in Tab, Server(t)
      PROVE  TypeOK'
  <2>1. CASE Issue(t)
    <3>1. Fresh \in Token
      BY DEF EnoughTokens, Fresh
    <3> QED BY <2>1, <3>1 DEF Issue, Goto, Plain, Page
  <2>2. \A from : ShowAgain(t, from) => TypeOK'
    BY <1>6 DEF ShowAgain, Plain, Page
  <2>3. CASE VerifyCsrf(t) \/ Fail(t) \/ StartSignIn(t)
    BY <1>0, <1>6, <1>7, <2>3 DEF VerifyCsrf, Fail, StartSignIn
  <2>4. CASE CheckAccount(t) \/ VerifyPassword(t)
    BY <1>7, <2>2, <2>4 DEF CheckAccount, VerifyPassword
  <2>5. CASE Insert(t)
    <3>1. users' \subseteq Row
      BY <2>5, RowsStayKeyed DEF RowsAreKeyed
    <3> QED BY <2>2, <2>5, <3>1 DEF Insert, Goto, request
  <2>6. CASE Find(t)
    <3>1. (CHOOSE r \in users : r.email = Key(t)) \in Row \/ ~Taken(t)
      BY DEF Taken
    <3> QED BY <2>6, <3>1 DEF Find, Goto, Row
  <2>7. CASE StartSession(t)
    <3>1. form[t] \in Form /\ Key(t) # None
      BY <2>7 DEF StartSession, Answer, Goto, AccountsInv, Holds
    <3>2. Key(t).address \in Address
      BY <3>1, Normalized DEF Key, Form, Email
    <3> QED BY <1>6, <2>7, <3>2 DEF StartSession, Plain, Page
  <2> QED BY <1>8, <2>1, <2>3, <2>4, <2>5, <2>6, <2>7 DEF Server
<1> QED BY <1>1, <1>2, <1>3, <1>4, <1>5, <1>8 DEF Next

\* Every value stays in its type for as long as tokens are left to draw.
THEOREM AccountsTypeCorrect == Spec /\ []EnoughTokens => []TypeOK
<1>1. Init => TypeOK
  BY Parameters DEF Init, TypeOK, Page, Plain
<1> QED BY <1>1, StepTypes, AccountsInvariance, PTL DEF Spec

=============================================================================
