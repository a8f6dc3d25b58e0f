------------------------------- MODULE Portal -------------------------------
(***************************************************************************)
(* The developer portal and the create-client command, as concurrent       *)
(* requests over the rows of oauth_clients.  No handler opens a            *)
(* transaction: every statement commits on its own, and what a handler has *)
(* read may be stale when it writes.  A handler reads the application with *)
(* find_owned and writes it later by id alone, so another tab may have     *)
(* edited it, replaced its secret or deleted it in between.                *)
(*                                                                         *)
(* details stands for name, redirect URIs and allowed scopes.  The secret  *)
(* is known to the developer only from the one page that shows it.         *)
(***************************************************************************)
EXTENDS Naturals, FiniteSets

CONSTANTS
  Tab,      \* requests that may run at the same time: browser tabs, shells
  User,     \* accounts
  App,      \* rows of oauth_clients; ids and client_ids never come back
  Secret,   \* client secrets
  Details,  \* what a developer may enter and validate_details accepts
  Limit,    \* MAX_APPS_PER_USER
  None

ASSUME PortalConstants ==
  /\ Limit \in Nat \ {0}
  /\ None \notin User \cup App \cup Secret
  /\ IsFiniteSet(Tab) /\ IsFiniteSet(App)
  /\ Details # {}

VARIABLES
  rows,       \* [App -> Row]
  generated,  \* secrets that new_client_secret has returned so far
  shown,      \* secrets that reached a developer on a page or a terminal
  lost,       \* secrets whose page failed or never arrived
  pc,         \* where each request stands
  req,        \* what each request was sent, and by whom
  read,       \* the row find_owned returned to it
  made        \* the secret it has stored and is about to show

vars == <<rows, generated, shown, lost, pc, req, read, made>>

\* No secret: a public application.  No owner: registered by the command.
Row == [state : {"absent", "stored", "deleted"}, owner : User \cup {None},
        secret : Secret \cup {None}, details : Details]

NoRow == [state |-> "absent", owner |-> None, secret |-> None,
          details |-> CHOOSE d \in Details : TRUE]

Operation == {"none", "create", "command", "update", "rotate", "delete"}

Input == [op : Operation, user : User \cup {None}, app : App \cup {None}]

NoInput == [op |-> "none", user |-> None, app |-> None]

Label == {"idle", "count", "find", "validate", "write", "rotate", "delete", "page"}

TypeOK ==
  /\ rows \in [App -> Row]
  /\ generated \subseteq Secret
  /\ shown \subseteq Secret
  /\ lost \subseteq Secret
  /\ pc \in [Tab -> Label]
  /\ req \in [Tab -> Input]
  /\ read \in [Tab -> Row]
  /\ made \in [Tab -> Secret \cup {None}]

Init ==
  /\ rows = [a \in App |-> NoRow]
  /\ generated = {} /\ shown = {} /\ lost = {}
  /\ pc = [t \in Tab |-> "idle"]
  /\ req = [t \in Tab |-> NoInput]
  /\ read = [t \in Tab |-> NoRow]
  /\ made = [t \in Tab |-> None]

Stored == {a \in App : rows[a].state = "stored"}

\* count_by_owner, list_by_owner.
AppsOf(u) == {a \in Stored : rows[a].owner = u}

Goto(t, label) == pc' = [pc EXCEPT ![t] = label]

Finish(t) ==
  /\ Goto(t, "idle")
  /\ req' = [req EXCEPT ![t] = NoInput]
  /\ read' = [read EXCEPT ![t] = NoRow]
  /\ made' = [made EXCEPT ![t] = None]

---------------------------------------------------------------------------
(* Requests *)

Start(t, input, label) ==
  /\ pc[t] = "idle"
  /\ req' = [req EXCEPT ![t] = input]
  /\ Goto(t, label)
  /\ UNCHANGED <<rows, generated, shown, lost, read, made>>

\* POST /developer/apps by a signed-in user.
StartCreate(t) ==
  \E u \in User : Start(t, [op |-> "create", user |-> u, app |-> None], "count")

\* sharp-oauth create-client: no owner and no limit.
StartCommand(t) ==
  Start(t, [op |-> "command", user |-> None, app |-> None], "validate")

\* POST /developer/apps/{client_id}, .../secret and .../delete.  Any client_id
\* that ever existed may be in the URL, whoever owns it.
StartOnApp(t) ==
  \E u \in User, a \in App, op \in {"update", "rotate", "delete"} :
    /\ rows[a].state # "absent"
    /\ Start(t, [op |-> op, user |-> u, app |-> a], "find")

\* Variant: the limit is compared with > instead of >=.
CountAppsOffByOne(t) ==
  /\ pc[t] = "count" /\ Cardinality(AppsOf(req[t].user)) <= Limit
  /\ Goto(t, "validate")
  /\ UNCHANGED <<rows, generated, shown, lost, req, read, made>>

CountApps(t) ==
  /\ pc[t] = "count"
  /\ Cardinality(AppsOf(req[t].user)) < Limit
  /\ Goto(t, "validate")
  /\ UNCHANGED <<rows, generated, shown, lost, req, read, made>>

LimitReached(t) ==
  /\ pc[t] = "count"
  /\ Cardinality(AppsOf(req[t].user)) >= Limit
  /\ Finish(t)
  /\ UNCHANGED <<rows, generated, shown, lost>>

\* Variant: the lookup ignores the owner.
FindOwnedByAnyone(t) ==
  /\ pc[t] = "find" /\ req[t].app \in Stored
  /\ read' = [read EXCEPT ![t] = rows[req[t].app]]
  /\ Goto(t, IF req[t].op = "update" THEN "validate" ELSE req[t].op)
  /\ UNCHANGED <<rows, generated, shown, lost, req, made>>

\* owned_app: the client_id and the owner are one condition of the SELECT.
FindOwned(t) ==
  /\ pc[t] = "find"
  /\ req[t].app \in AppsOf(req[t].user)
  /\ read' = [read EXCEPT ![t] = rows[req[t].app]]
  /\ Goto(t, IF req[t].op = "update" THEN "validate" ELSE req[t].op)
  /\ UNCHANGED <<rows, generated, shown, lost, req, made>>

NotFound(t) ==
  /\ pc[t] = "find"
  /\ req[t].app \notin AppsOf(req[t].user)
  /\ Finish(t)
  /\ UNCHANGED <<rows, generated, shown, lost>>

\* validate_details, with its read of oauth_scopes.
ValidateDetails(t) ==
  /\ pc[t] = "validate"
  /\ Goto(t, "write")
  /\ UNCHANGED <<rows, generated, shown, lost, req, read, made>>

\* The anti-forgery token, a form field or the confirmation is not in order:
\* an error page, nothing is written.
RefuseForm(t) ==
  /\ pc[t] \in {"count", "validate", "rotate", "delete"}
  /\ Finish(t)
  /\ UNCHANGED <<rows, generated, shown, lost>>

---------------------------------------------------------------------------
(* Writes *)

\* Variant: the hash that is stored is of another secret than the one shown.
InsertSecretTwice(t) ==
  /\ pc[t] = "write" /\ req[t].op \in {"create", "command"}
  /\ \E a \in App, s1, s2 \in Secret \ generated, d \in Details :
       /\ s1 # s2 /\ rows[a].state = "absent"
       /\ rows' = [rows EXCEPT ![a] = [state |-> "stored", owner |-> req[t].user,
                                       secret |-> s1, details |-> d]]
       /\ made' = [made EXCEPT ![t] = s2] /\ generated' = generated \cup {s1, s2}
  /\ Goto(t, "page")
  /\ UNCHANGED <<shown, lost, req, read>>

\* client::register: a public application gets no secret.
\* Bounds: the ids of App and of Secret; with none left only Fail goes on.
Insert(t) ==
  /\ pc[t] = "write"
  /\ req[t].op \in {"create", "command"}
  /\ \E a \in App, s \in (Secret \ generated) \cup {None}, d \in Details :
       /\ rows[a].state = "absent"
       /\ rows' = [rows EXCEPT ![a] = [state |-> "stored", owner |-> req[t].user,
                                       secret |-> s, details |-> d]]
       /\ made' = [made EXCEPT ![t] = s]
       /\ generated' = generated \cup ({s} \ {None})
  /\ Goto(t, "page")
  /\ UNCHANGED <<shown, lost, req, read>>

\* Variant: the whole row is written back as it was read.
WriteDetailsWholeRow(t) ==
  LET a == req[t].app IN
  /\ pc[t] = "write" /\ req[t].op = "update"
  /\ rows' = [rows EXCEPT ![a] = IF a \in Stored THEN read[t] ELSE @]
  /\ Finish(t)
  /\ UNCHANGED <<generated, shown, lost>>

\* clients::update_details: name, URIs and scopes by id, no other column.  An
\* application deleted meanwhile is no row of the UPDATE.
WriteDetails(t) ==
  LET a == req[t].app IN
  /\ pc[t] = "write"
  /\ req[t].op = "update"
  /\ \E d \in Details :
       rows' = [rows EXCEPT ![a] = IF a \in Stored THEN [@ EXCEPT !.details = d] ELSE @]
  /\ Finish(t)
  /\ UNCHANGED <<generated, shown, lost>>

\* A public application has no secret to rotate.
NothingToRotate(t) ==
  /\ pc[t] = "rotate"
  /\ read[t].secret = None
  /\ Finish(t)
  /\ UNCHANGED <<rows, generated, shown, lost>>

\* Variant: is_confidential is not asked.
WriteSecretForPublic(t) ==
  LET a == req[t].app IN
  /\ pc[t] = "rotate"
  /\ \E s \in Secret \ generated :
       /\ rows' = [rows EXCEPT ![a] = IF a \in Stored THEN [@ EXCEPT !.secret = s] ELSE @]
       /\ made' = [made EXCEPT ![t] = s] /\ generated' = generated \cup {s}
  /\ Goto(t, "page")
  /\ UNCHANGED <<shown, lost, req, read>>

\* client::rotate_secret: the page shows the secret even when the application
\* was deleted meanwhile and the UPDATE found no row.
WriteSecret(t) ==
  LET a == req[t].app IN
  /\ pc[t] = "rotate"
  /\ read[t].secret # None
  /\ \E s \in Secret \ generated :
       /\ rows' = [rows EXCEPT ![a] = IF a \in Stored THEN [@ EXCEPT !.secret = s] ELSE @]
       /\ made' = [made EXCEPT ![t] = s]
       /\ generated' = generated \cup {s}
  /\ Goto(t, "page")
  /\ UNCHANGED <<shown, lost, req, read>>

\* The row goes, and with it the codes, consents and tokens (TokenEndpoint).
Delete(t) ==
  LET a == req[t].app IN
  /\ pc[t] = "delete"
  /\ rows' = [rows EXCEPT ![a] = IF a \in Stored THEN [NoRow EXCEPT !.state = "deleted"]
                                 ELSE @]
  /\ Finish(t)
  /\ UNCHANGED <<generated, shown, lost>>

---------------------------------------------------------------------------
(* Responses *)

\* app_page reads oauth_scopes, renders the secret and reaches the developer.
ShowPage(t) ==
  /\ pc[t] = "page"
  /\ shown' = shown \cup ({made[t]} \ {None})
  /\ Finish(t)
  /\ UNCHANGED <<rows, generated, lost>>

\* A statement fails, the process stops or the response is lost.  What is
\* written stays written; a secret stored and not shown is gone.
Fail(t) ==
  /\ pc[t] # "idle"
  /\ lost' = lost \cup ({made[t]} \ {None})
  /\ Finish(t)
  /\ UNCHANGED <<rows, generated, shown>>

Next ==
  \E t \in Tab :
    \/ StartCreate(t) \/ StartCommand(t) \/ StartOnApp(t)
    \/ CountApps(t) \/ LimitReached(t) \/ FindOwned(t) \/ NotFound(t)
    \/ ValidateDetails(t) \/ RefuseForm(t)
    \/ Insert(t) \/ WriteDetails(t) \/ NothingToRotate(t) \/ WriteSecret(t) \/ Delete(t)
    \/ ShowPage(t) \/ Fail(t)

Spec == Init /\ [][Next]_vars

---------------------------------------------------------------------------
(* The inductive invariant *)

\* Requests past the count that have not inserted yet.
Creating(u) ==
  {t \in Tab : req[t].user = u /\ req[t].op = "create" /\ pc[t] \in {"validate", "write"}}

\* Requests past find_owned.
Holding(t) ==
  req[t].op \in {"update", "rotate", "delete"} /\
  pc[t] \in {"validate", "write", "rotate", "delete"}

\* What a label says of the request that stands at it.
LabelsMatchRequests ==
  \A t \in Tab :
    /\ pc[t] = "count" => req[t].op = "create"
    /\ pc[t] \in {"validate", "write"} => req[t].op \in {"create", "command", "update"}
    /\ pc[t] = "rotate" => req[t].op = "rotate"
    /\ pc[t] = "delete" => req[t].op = "delete"
    /\ pc[t] = "find" => req[t].op \in {"update", "rotate", "delete"}
    /\ req[t].op = "create" => req[t].user \in User
    /\ req[t].op = "command" => req[t].user = None
    /\ req[t].op \in {"update", "rotate", "delete"} =>
         req[t].app \in App /\ req[t].user \in User /\ rows[req[t].app].state # "absent"
    /\ pc[t] # "page" => made[t] = None
    /\ made[t] # None => made[t] \in generated

\* What was read stays true of the row for as long as there is one: its owner
\* and whether it has a secret.  Its secret and its details may have changed.
ReadsStayTrue ==
  \A t \in Tab :
    Holding(t) /\ req[t].app \in Stored =>
      /\ rows[req[t].app].owner = req[t].user
      /\ rows[req[t].app].secret = None <=> read[t].secret = None

SecretsWereGenerated ==
  /\ \A a \in Stored : rows[a].secret \in generated \cup {None}
  /\ \A a, b \in Stored : rows[a].secret = rows[b].secret /\ rows[a].secret # None => a = b

---------------------------------------------------------------------------
(* Properties *)

\* The comment at apps.rs:82: simultaneous creations may pass the count
\* together and end over the limit, but by no more than one for each further
\* request in flight, also with deletions in between.
LimitOvershootIsBounded ==
  \A u \in User :
    Cardinality(AppsOf(u)) + Cardinality(Creating(u)) <= Limit + Cardinality(Tab) - 1

\* The secret an application is stored with was shown to its developer, is about
\* to be, or its page failed: overlapping rotations leave the winner's secret in
\* somebody's hands, never one that no page ever had.
CurrentSecretIsKnown ==
  \A a \in Stored :
    rows[a].secret # None =>
      \/ rows[a].secret \in shown \cup lost
      \/ \E t \in Tab : pc[t] = "page" /\ made[t] = rows[a].secret

PortalInv ==
  /\ TypeOK
  /\ LabelsMatchRequests
  /\ ReadsStayTrue
  /\ SecretsWereGenerated
  /\ LimitOvershootIsBounded
  /\ CurrentSecretIsKnown

\* A secret that was replaced is never accepted again, whatever edits and
\* rotations overlap (client.rs:193, "The old secret stops working
\* immediately"), and an application neither gains nor loses having a secret
\* (client.rs:88, the client type is fixed at registration).
SecretsMoveForward ==
  [][\A a \in Stored :
       LET before == rows[a].secret  after == rows'[a].secret IN
       rows'[a].state = "stored" /\ after # before =>
         after \notin generated /\ before # None /\ after # None]_vars

\* An application changes only by a request of its owner, although the writes
\* name it by id alone; one registered by the command is nobody's to change.
OnlyTheOwnerChanges ==
  [][\A a \in Stored : rows'[a] # rows[a] =>
       \E t \in Tab : pc'[t] # pc[t] /\ req[t].app = a /\ req[t].user = rows[a].owner]_vars

===========================================================================
