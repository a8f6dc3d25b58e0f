---------------------------- MODULE PortalProofs ----------------------------
(***************************************************************************)
(* Theorems about Portal, for every number of tabs, developers,            *)
(* applications, secrets and every limit.                                  *)
(*                                                                         *)
(* PortalInv is inductive.  Its numeric part, the bound on how far         *)
(* concurrent creations overshoot the limit, needs the requests that have  *)
(* counted and not inserted yet; the rest says what a handler may still    *)
(* rely on when it writes by id a row that it read earlier.                *)
(***************************************************************************)
EXTENDS Portal, FiniteSetTheorems, TLAPS

---------------------------------------------------------------------------
(* Types *)

LEMMA NoRowType == NoRow \in Row
BY PortalConstants DEF NoRow, Row

LEMMA FinishTypes ==
  ASSUME TypeOK, NEW t \in Tab, Finish(t)
  PROVE  /\ pc' \in [Tab -> Label] /\ req' \in [Tab -> Input]
         /\ read' \in [Tab -> Row] /\ made' \in [Tab -> Secret \cup {None}]
BY NoRowType DEF TypeOK, Finish, Goto, NoInput, Input, Operation, Label

LEMMA StepTypeOK ==
  ASSUME TypeOK, LabelsMatchRequests, [Next]_vars
  PROVE  TypeOK'
<1>1. ASSUME NEW t \in Tab, StartCreate(t) \/ StartCommand(t) \/ StartOnApp(t) PROVE TypeOK'
  <2>1. PICK input \in Input, label \in {"count", "validate", "find"} : Start(t, input, label)
    BY <1>1 DEF StartCreate, StartCommand, StartOnApp, Input, Operation
  <2> QED BY <2>1 DEF Start, Goto, TypeOK, Label
<1>2. ASSUME NEW t \in Tab, CountApps(t) \/ ValidateDetails(t) PROVE TypeOK'
  BY <1>2 DEF CountApps, ValidateDetails, Goto, TypeOK, Label
<1>3. ASSUME NEW t \in Tab,
             LimitReached(t) \/ NotFound(t) \/ RefuseForm(t) \/ NothingToRotate(t)
      PROVE  TypeOK'
  BY <1>3, FinishTypes DEF LimitReached, NotFound, RefuseForm, NothingToRotate, TypeOK
<1>4. ASSUME NEW t \in Tab, FindOwned(t) PROVE TypeOK'
  <2>1. req[t].app \in App
    BY <1>4 DEF FindOwned, AppsOf, Stored
  <2>2. (IF req[t].op = "update" THEN "validate" ELSE req[t].op) \in Label
    BY <1>4 DEF FindOwned, LabelsMatchRequests, Label
  <2> QED BY <1>4, <2>1, <2>2 DEF FindOwned, Goto, TypeOK
<1>5. ASSUME NEW t \in Tab, Insert(t) PROVE TypeOK'
  <2>1. PICK a \in App, s \in (Secret \ generated) \cup {None}, d \in Details :
          /\ rows' = [rows EXCEPT ![a] = [state |-> "stored", owner |-> req[t].user,
                                          secret |-> s, details |-> d]]
          /\ made' = [made EXCEPT ![t] = s] /\ generated' = generated \cup ({s} \ {None})
    BY <1>5 DEF Insert
  <2>2. [state |-> "stored", owner |-> req[t].user, secret |-> s, details |-> d] \in Row
    BY DEF TypeOK, Row, Input
  <2> QED BY <1>5, <2>1, <2>2 DEF Insert, Goto, TypeOK, Label
<1>6. ASSUME NEW t \in Tab, WriteDetails(t) PROVE TypeOK'
  <2>1. PICK d \in Details :
          rows' = [rows EXCEPT ![req[t].app] =
                     IF req[t].app \in Stored THEN [@ EXCEPT !.details = d] ELSE @]
    BY <1>6 DEF WriteDetails
  <2>2. \A r \in Row : [r EXCEPT !.details = d] \in Row
    BY DEF Row
  <2> QED BY <1>6, <2>1, <2>2, FinishTypes DEF WriteDetails, TypeOK
<1>7. ASSUME NEW t \in Tab, WriteSecret(t) PROVE TypeOK'
  <2>1. PICK s \in Secret \ generated :
          /\ rows' = [rows EXCEPT ![req[t].app] =
                        IF req[t].app \in Stored THEN [@ EXCEPT !.secret = s] ELSE @]
          /\ made' = [made EXCEPT ![t] = s] /\ generated' = generated \cup {s}
    BY <1>7 DEF WriteSecret
  <2>2. \A r \in Row : [r EXCEPT !.secret = s] \in Row
    BY DEF Row
  <2> QED BY <1>7, <2>1, <2>2 DEF WriteSecret, Goto, TypeOK, Label
<1>8. ASSUME NEW t \in Tab, Delete(t) PROVE TypeOK'
  <2>1. [NoRow EXCEPT !.state = "deleted"] \in Row
    BY NoRowType DEF Row
  <2> QED BY <1>8, <2>1, FinishTypes DEF Delete, TypeOK
<1>9. ASSUME NEW t \in Tab, ShowPage(t) \/ Fail(t) PROVE TypeOK'
  <2>1. {made[t]} \ {None} \subseteq Secret
    BY DEF TypeOK
  <2> QED BY <1>9, <2>1, FinishTypes DEF ShowPage, Fail, TypeOK
<1>10. CASE UNCHANGED vars
  BY <1>10 DEF vars, TypeOK
<1> QED BY <1>1, <1>2, <1>3, <1>4, <1>5, <1>6, <1>7, <1>8, <1>9, <1>10 DEF Next

---------------------------------------------------------------------------
(* What one step does to the rows *)

\* Six kinds of step: the rows stay, or one row is inserted, edited, given a
\* new secret, or deleted, or there is no row left to write.
Inserts(t, a, s) ==
  /\ Insert(t) /\ rows[a].state = "absent" /\ rows'[a].state = "stored"
  /\ rows'[a].owner = req[t].user /\ rows'[a].secret = s
  /\ s \in (Secret \ generated) \cup {None} /\ made'[t] = s
  /\ generated' = generated \cup ({s} \ {None})

Edits(t, a) ==
  /\ WriteDetails(t) /\ a = req[t].app
  /\ rows'[a].state = rows[a].state /\ rows'[a].owner = rows[a].owner
  /\ rows'[a].secret = rows[a].secret

Rotates(t, a) ==
  /\ WriteSecret(t) /\ a = req[t].app
  /\ rows'[a].state = "stored" /\ rows'[a].owner = rows[a].owner
  /\ made'[t] \in Secret \ generated /\ rows'[a].secret = made'[t]

Deletes(t, a) == Delete(t) /\ a = req[t].app /\ rows'[a].state = "deleted"

LEMMA RowWrites ==
  ASSUME TypeOK, [Next]_vars
  PROVE  \/ rows' = rows
         \/ \E t \in Tab, a \in App :
              /\ \A b \in App \ {a} : rows'[b] = rows[b]
              /\ \/ \E s : Inserts(t, a, s)
                 \/ a \in Stored /\ (Edits(t, a) \/ Rotates(t, a) \/ Deletes(t, a))
<1> SUFFICES ASSUME rows' # rows
             PROVE  \E t \in Tab, a \in App :
                      /\ \A b \in App \ {a} : rows'[b] = rows[b]
                      /\ \/ \E s : Inserts(t, a, s)
                         \/ a \in Stored /\ (Edits(t, a) \/ Rotates(t, a) \/ Deletes(t, a))
  OBVIOUS
<1>1. PICK t \in Tab : Insert(t) \/ WriteDetails(t) \/ WriteSecret(t) \/ Delete(t)
  BY DEF Next, vars, StartCreate, StartCommand, StartOnApp, Start, CountApps, LimitReached,
     FindOwned, NotFound, ValidateDetails, RefuseForm, NothingToRotate, ShowPage, Fail
<1>2. CASE Insert(t)
  <2>1. PICK a \in App, s \in (Secret \ generated) \cup {None}, d \in Details :
          /\ rows[a].state = "absent"
          /\ rows' = [rows EXCEPT ![a] = [state |-> "stored", owner |-> req[t].user,
                                          secret |-> s, details |-> d]]
          /\ made' = [made EXCEPT ![t] = s] /\ generated' = generated \cup ({s} \ {None})
    BY <1>2 DEF Insert
  <2>2. Inserts(t, a, s)
    BY <1>2, <2>1 DEF Inserts, TypeOK
  <2> QED BY <2>1, <2>2 DEF TypeOK
<1>3. ASSUME NEW row, rows' = [rows EXCEPT ![req[t].app] =
                                 IF req[t].app \in Stored THEN row ELSE @]
      PROVE  /\ req[t].app \in Stored /\ req[t].app \in App /\ rows'[req[t].app] = row
             /\ \A b \in App \ {req[t].app} : rows'[b] = rows[b]
  BY <1>3 DEF TypeOK, Stored
<1>4. CASE WriteDetails(t)
  <2>1. PICK d \in Details :
          rows' = [rows EXCEPT ![req[t].app] =
                     IF req[t].app \in Stored THEN [rows[req[t].app] EXCEPT !.details = d] ELSE @]
    BY <1>4 DEF WriteDetails
  <2>2. /\ req[t].app \in Stored /\ req[t].app \in App
        /\ rows'[req[t].app] = [rows[req[t].app] EXCEPT !.details = d]
        /\ \A b \in App \ {req[t].app} : rows'[b] = rows[b]
    BY <1>3, <2>1
  <2>3. rows[req[t].app] \in Row
    BY <2>2 DEF TypeOK
  <2>4. Edits(t, req[t].app)
    BY <1>4, <2>2, <2>3 DEF Edits, Row
  <2> QED BY <2>2, <2>4
<1>5. CASE WriteSecret(t)
  <2>1. PICK s \in Secret \ generated :
          /\ rows' = [rows EXCEPT ![req[t].app] =
                        IF req[t].app \in Stored THEN [rows[req[t].app] EXCEPT !.secret = s] ELSE @]
          /\ made' = [made EXCEPT ![t] = s]
    BY <1>5 DEF WriteSecret
  <2>2. /\ req[t].app \in Stored /\ req[t].app \in App
        /\ rows'[req[t].app] = [rows[req[t].app] EXCEPT !.secret = s]
        /\ \A b \in App \ {req[t].app} : rows'[b] = rows[b]
    BY <1>3, <2>1
  <2>3. rows[req[t].app] \in Row /\ rows[req[t].app].state = "stored" /\ made'[t] = s
    BY <2>1, <2>2 DEF TypeOK, Stored
  <2>4. Rotates(t, req[t].app)
    BY <1>5, <2>2, <2>3 DEF Rotates, Row
  <2> QED BY <2>2, <2>4
<1>6. CASE Delete(t)
  <2>1. rows' = [rows EXCEPT ![req[t].app] =
                   IF req[t].app \in Stored THEN [NoRow EXCEPT !.state = "deleted"] ELSE @]
    BY <1>6 DEF Delete
  <2>2. /\ req[t].app \in Stored /\ req[t].app \in App
        /\ rows'[req[t].app] = [NoRow EXCEPT !.state = "deleted"]
        /\ \A b \in App \ {req[t].app} : rows'[b] = rows[b]
    BY <1>3, <2>1
  <2>3. Deletes(t, req[t].app)
    BY <1>6, <2>2 DEF Deletes, NoRow
  <2> QED BY <2>2, <2>3
<1> QED BY <1>1, <1>2, <1>4, <1>5, <1>6

---------------------------------------------------------------------------
(* Preservation *)

LEMMA LabelsStep ==
  ASSUME TypeOK, LabelsMatchRequests, [Next]_vars
  PROVE  LabelsMatchRequests'
<1>1. \A a \in App : rows[a].state # "absent" => rows'[a].state # "absent"
  BY RowWrites DEF Inserts, Edits, Rotates, Deletes, Stored
<1>2. generated \subseteq generated'
  BY DEF Next, vars, StartCreate, StartCommand, StartOnApp, Start, CountApps, LimitReached,
     FindOwned, NotFound, ValidateDetails, RefuseForm, NothingToRotate, ShowPage, Fail,
     Insert, WriteDetails, WriteSecret, Delete
<1> DEFINE Good(t, label, input, secret) ==
      /\ label = "count" => input.op = "create"
      /\ label \in {"validate", "write"} => input.op \in {"create", "command", "update"}
      /\ label = "rotate" => input.op = "rotate"
      /\ label = "delete" => input.op = "delete"
      /\ label = "find" => input.op \in {"update", "rotate", "delete"}
      /\ input.op = "create" => input.user \in User
      /\ input.op = "command" => input.user = None
      /\ input.op \in {"update", "rotate", "delete"} =>
           input.app \in App /\ input.user \in User /\ rows'[input.app].state # "absent"
      /\ label # "page" => secret = None
      /\ secret # None => secret \in generated'
<1>3. ASSUME NEW q \in Tab PROVE Good(q, pc[q], req[q], made[q])
  BY <1>1, <1>2 DEF LabelsMatchRequests
<1>4. SUFFICES ASSUME NEW q \in Tab PROVE Good(q, pc'[q], req'[q], made'[q])
  BY DEF LabelsMatchRequests
<1>5. CASE UNCHANGED <<pc, req, made>>
  BY <1>3, <1>5
<1>6. ASSUME NEW t \in Tab, Finish(t) PROVE Good(q, pc'[q], req'[q], made'[q])
  BY <1>3, <1>6 DEF Finish, Goto, NoInput, TypeOK
<1>7. ASSUME NEW t \in Tab, StartCreate(t) \/ StartCommand(t) \/ StartOnApp(t)
      PROVE  Good(q, pc'[q], req'[q], made'[q])
  <2>1. q # t => pc'[q] = pc[q] /\ req'[q] = req[q] /\ made'[q] = made[q]
    BY <1>7 DEF StartCreate, StartCommand, StartOnApp, Start, Goto, TypeOK
  <2>2. CASE q = t /\ StartCreate(t)
    BY <2>2, <1>3 DEF StartCreate, Start, Goto, TypeOK, Input
  <2>3. CASE q = t /\ StartCommand(t)
    BY <2>3, <1>3 DEF StartCommand, Start, Goto, TypeOK
  <2>4. CASE q = t /\ StartOnApp(t)
    BY <2>4, <1>1, <1>3 DEF StartOnApp, Start, Goto, TypeOK
  <2> QED BY <1>3, <1>7, <2>1, <2>2, <2>3, <2>4
<1>8. ASSUME NEW t \in Tab, CountApps(t) \/ ValidateDetails(t) \/ FindOwned(t)
      PROVE  Good(q, pc'[q], req'[q], made'[q])
  BY <1>3, <1>8 DEF CountApps, ValidateDetails, FindOwned, Goto, TypeOK, LabelsMatchRequests
<1>9. ASSUME NEW t \in Tab, Insert(t) \/ WriteSecret(t)
      PROVE  Good(q, pc'[q], req'[q], made'[q])
  <2>1. PICK s : /\ made' = [made EXCEPT ![t] = s] /\ (s = None \/ s \in generated')
                 /\ pc' = [pc EXCEPT ![t] = "page"] /\ UNCHANGED req
    BY <1>9 DEF Insert, WriteSecret, Goto
  <2> QED BY <1>3, <2>1 DEF TypeOK
<1> QED
  BY <1>5, <1>6, <1>7, <1>8, <1>9 DEF Next, vars, LimitReached, NotFound, RefuseForm,
     NothingToRotate, WriteDetails, Delete, ShowPage, Fail

\* A request that holds what it read did so before the step, or reads it now.
LEMMA HoldingStep ==
  ASSUME TypeOK, LabelsMatchRequests, [Next]_vars, NEW q \in Tab, Holding(q)'
  PROVE  \/ Holding(q) /\ req'[q] = req[q] /\ read'[q] = read[q]
         \/ FindOwned(q)
<1> USE DEF Holding
<1>1. CASE UNCHANGED <<pc, req, read>>
  BY <1>1
<1>2. ASSUME NEW t \in Tab, Finish(t) PROVE Holding(q) /\ req'[q] = req[q] /\ read'[q] = read[q]
  BY <1>2 DEF Finish, Goto, TypeOK
<1>3. ASSUME NEW t \in Tab, StartCreate(t) \/ StartCommand(t) \/ StartOnApp(t)
      PROVE  Holding(q) /\ req'[q] = req[q] /\ read'[q] = read[q]
  <2>1. UNCHANGED read /\ (q # t => pc'[q] = pc[q] /\ req'[q] = req[q])
    BY <1>3 DEF StartCreate, StartCommand, StartOnApp, Start, Goto, TypeOK
  <2>2. q # t
    BY <1>3 DEF StartCreate, StartCommand, StartOnApp, Start, Goto, TypeOK
  <2> QED BY <2>1, <2>2
<1>4. ASSUME NEW t \in Tab, CountApps(t) \/ ValidateDetails(t) \/ Insert(t) \/ WriteSecret(t)
      PROVE  Holding(q) /\ req'[q] = req[q] /\ read'[q] = read[q]
  BY <1>4 DEF CountApps, ValidateDetails, Insert, WriteSecret, Goto, TypeOK, LabelsMatchRequests
<1>5. ASSUME NEW t \in Tab, FindOwned(t), t # q
      PROVE  Holding(q) /\ req'[q] = req[q] /\ read'[q] = read[q]
  BY <1>5 DEF FindOwned, Goto, TypeOK
<1> QED
  BY <1>1, <1>2, <1>3, <1>4, <1>5 DEF Next, vars, LimitReached, NotFound, RefuseForm,
     NothingToRotate, WriteDetails, Delete, ShowPage, Fail

\* A stored row keeps its owner and whether it has a secret.
LEMMA RowsKeep ==
  ASSUME TypeOK, LabelsMatchRequests, ReadsStayTrue, [Next]_vars, NEW a \in App
  PROVE  /\ rows[a].state = "deleted" => rows'[a].state # "stored"
         /\ a \in Stored /\ rows'[a].state = "stored" =>
              /\ rows'[a].owner = rows[a].owner
              /\ rows'[a].secret = None <=> rows[a].secret = None
<1>1. ASSUME NEW t \in Tab, Rotates(t, a), a \in Stored
      PROVE  rows[a].secret # None /\ rows'[a].secret # None
  <2>1. pc[t] = "rotate" /\ read[t].secret # None /\ req[t].app = a
    BY <1>1 DEF Rotates, WriteSecret
  <2>2. Holding(t)
    BY <2>1 DEF Holding, LabelsMatchRequests
  <2> QED BY <1>1, <2>1, <2>2, PortalConstants DEF ReadsStayTrue, Rotates
<1> QED BY <1>1, RowWrites DEF Inserts, Edits, Rotates, Deletes, Stored

LEMMA ReadsStep ==
  ASSUME TypeOK, LabelsMatchRequests, ReadsStayTrue, [Next]_vars
  PROVE  ReadsStayTrue'
<1> SUFFICES ASSUME NEW q \in Tab, Holding(q)', req'[q].app \in Stored'
             PROVE  /\ rows'[req'[q].app].owner = req'[q].user
                    /\ rows'[req'[q].app].secret = None <=> read'[q].secret = None
  BY DEF ReadsStayTrue
<1>1. CASE Holding(q) /\ req'[q] = req[q] /\ read'[q] = read[q]
  <2>1. /\ req[q].app \in App /\ rows[req[q].app].state # "absent"
        /\ rows'[req[q].app].state = "stored"
    BY <1>1 DEF LabelsMatchRequests, Holding, Stored
  <2>2. req[q].app \in Stored
    BY <2>1, RowsKeep DEF Stored, TypeOK, Row
  <2> QED BY <1>1, <2>1, <2>2, RowsKeep DEF ReadsStayTrue
<1>2. CASE FindOwned(q)
  BY <1>2 DEF FindOwned, AppsOf, Stored, TypeOK
<1> QED BY <1>1, <1>2, HoldingStep

LEMMA SecretsStep ==
  ASSUME TypeOK, SecretsWereGenerated, [Next]_vars
  PROVE  SecretsWereGenerated'
<1>1. generated \subseteq generated'
  BY DEF Next, vars, StartCreate, StartCommand, StartOnApp, Start, CountApps, LimitReached,
     FindOwned, NotFound, ValidateDetails, RefuseForm, NothingToRotate, ShowPage, Fail,
     Insert, WriteDetails, WriteSecret, Delete
<1>2. CASE rows' = rows
  BY <1>1, <1>2 DEF SecretsWereGenerated, Stored
<1>3. ASSUME NEW t \in Tab, NEW a \in App, \A b \in App \ {a} : rows'[b] = rows[b],
             \/ \E s : Inserts(t, a, s)
             \/ a \in Stored /\ (Edits(t, a) \/ Rotates(t, a) \/ Deletes(t, a))
      PROVE  SecretsWereGenerated'
  <2>1. \/ a \notin Stored'
        \/ a \in Stored /\ rows'[a].secret = rows[a].secret
        \/ rows'[a].secret \in (generated' \ generated) \cup {None}
    <3>1. Rotates(t, a) => rows'[a].secret \in generated' \ generated
      BY DEF Rotates, WriteSecret, TypeOK
    <3> QED BY <1>3, <3>1 DEF Inserts, Edits, Deletes, Stored
  <2>2. \A b \in App \ {a} : b \in Stored' <=> b \in Stored
    BY <1>3 DEF Stored
  <2> QED BY <1>1, <1>3, <2>1, <2>2, PortalConstants DEF SecretsWereGenerated, Stored
<1> QED BY <1>2, <1>3, RowWrites

LEMMA KnownStep ==
  ASSUME TypeOK, LabelsMatchRequests, SecretsWereGenerated, CurrentSecretIsKnown, [Next]_vars
  PROVE  CurrentSecretIsKnown'
<1> SUFFICES ASSUME NEW a \in Stored', rows'[a].secret # None
             PROVE  \/ rows'[a].secret \in shown' \cup lost'
                    \/ \E t \in Tab : pc'[t] = "page" /\ made'[t] = rows'[a].secret
  BY DEF CurrentSecretIsKnown
<1>1. CASE a \in Stored /\ rows'[a].secret = rows[a].secret
  <2>1. CASE rows[a].secret \in shown \cup lost
    <3>1. shown \subseteq shown' /\ lost \subseteq lost'
      BY DEF Next, vars, StartCreate, StartCommand, StartOnApp, Start, CountApps, LimitReached,
         FindOwned, NotFound, ValidateDetails, RefuseForm, NothingToRotate, ShowPage, Fail,
         Insert, WriteDetails, WriteSecret, Delete
    <3> QED BY <1>1, <2>1, <3>1
  <2>2. ASSUME NEW t \in Tab, pc[t] = "page", made[t] = rows[a].secret
        PROVE  \/ rows[a].secret \in shown' \cup lost'
               \/ pc'[t] = "page" /\ made'[t] = rows[a].secret
    <3>1. made[t] # None
      BY <1>1, <2>2
    <3>2. CASE ShowPage(t) \/ Fail(t)
      BY <2>2, <3>1, <3>2 DEF ShowPage, Fail
    <3>3. CASE UNCHANGED <<pc, made>>
      BY <2>2, <3>3
    <3>4. ASSUME NEW u \in Tab, u # t, Finish(u) PROVE pc'[t] = pc[t] /\ made'[t] = made[t]
      BY <3>4 DEF Finish, Goto, TypeOK
    <3>5. ASSUME NEW u \in Tab,
                 \/ StartCreate(u) \/ StartCommand(u) \/ StartOnApp(u)
                 \/ CountApps(u) \/ ValidateDetails(u) \/ FindOwned(u)
                 \/ Insert(u) \/ WriteSecret(u)
          PROVE  pc'[t] = pc[t] /\ made'[t] = made[t]
      BY <2>2, <3>5 DEF StartCreate, StartCommand, StartOnApp, Start, CountApps,
         ValidateDetails, FindOwned, Insert, WriteSecret, Goto, TypeOK
    <3>6. ASSUME NEW u \in Tab,
                 \/ LimitReached(u) \/ NotFound(u) \/ RefuseForm(u) \/ NothingToRotate(u)
                 \/ WriteDetails(u) \/ Delete(u)
          PROVE  u # t /\ Finish(u)
      BY <2>2, <3>6 DEF LimitReached, NotFound, RefuseForm, NothingToRotate, WriteDetails, Delete
    <3>7. ASSUME NEW u \in Tab, u # t, ShowPage(u) \/ Fail(u) PROVE Finish(u)
      BY <3>7 DEF ShowPage, Fail
    <3> QED BY <2>2, <3>2, <3>3, <3>4, <3>5, <3>6, <3>7 DEF Next, vars
  <2> QED BY <1>1, <2>1, <2>2 DEF CurrentSecretIsKnown
<1>2. ASSUME NEW t \in Tab, NEW s, Inserts(t, a, s) \/ Rotates(t, a)
      PROVE  pc'[t] = "page" /\ made'[t] = rows'[a].secret
  BY <1>2 DEF Inserts, Rotates, Insert, WriteSecret, Goto, TypeOK
<1> QED BY <1>1, <1>2, RowWrites DEF Inserts, Edits, Deletes, Stored

---------------------------------------------------------------------------
(* The limit *)

LEMMA FiniteParts ==
  ASSUME NEW u
  PROVE  /\ IsFiniteSet(AppsOf(u)) /\ Cardinality(AppsOf(u)) \in Nat
         /\ IsFiniteSet(Creating(u)) /\ Cardinality(Creating(u)) \in Nat
         /\ IsFiniteSet(Tab) /\ Cardinality(Tab) \in Nat
         /\ Cardinality(Creating(u)) <= Cardinality(Tab)
<1>1. AppsOf(u) \subseteq App /\ Creating(u) \subseteq Tab
  BY DEF AppsOf, Stored, Creating
<1> QED BY <1>1, PortalConstants, FS_Subset, FS_CardinalityType

\* Requests enter Creating by counting, and leave it by inserting or giving up.
LEMMA CreatingStep ==
  ASSUME TypeOK, LabelsMatchRequests, [Next]_vars, NEW u \in User, NEW q \in Creating(u)'
  PROVE  q \in Creating(u) \/ (CountApps(q) /\ req[q].user = u)
<1> USE DEF Creating
<1>1. CASE UNCHANGED <<pc, req>>
  BY <1>1
<1>2. ASSUME NEW t \in Tab, Finish(t) PROVE q \in Creating(u)
  BY <1>2 DEF Finish, Goto, NoInput, TypeOK
<1>3. ASSUME NEW t \in Tab, StartCreate(t) \/ StartCommand(t) \/ StartOnApp(t)
      PROVE  q \in Creating(u)
  BY <1>3 DEF StartCreate, StartCommand, StartOnApp, Start, Goto, TypeOK
<1>4. ASSUME NEW t \in Tab, ValidateDetails(t) \/ FindOwned(t) \/ Insert(t) \/ WriteSecret(t)
      PROVE  q \in Creating(u)
  BY <1>4 DEF ValidateDetails, FindOwned, Insert, WriteSecret, Goto, TypeOK, LabelsMatchRequests
<1>5. ASSUME NEW t \in Tab, CountApps(t)
      PROVE  q \in Creating(u) \/ (CountApps(q) /\ req[q].user = u)
  BY <1>5 DEF CountApps, Goto, TypeOK
<1> QED
  BY <1>1, <1>2, <1>3, <1>4, <1>5 DEF Next, vars, LimitReached, NotFound, RefuseForm,
     NothingToRotate, WriteDetails, Delete, ShowPage, Fail

\* A row joins a developer's applications only by an insert of a request that
\* counted, and that request is then done counting.
LEMMA AppsStep ==
  ASSUME TypeOK, LabelsMatchRequests, ReadsStayTrue, [Next]_vars, NEW u \in User
  PROVE  \/ AppsOf(u)' \subseteq AppsOf(u)
         \/ \E a \in App, t \in Creating(u) :
              /\ AppsOf(u)' \subseteq AppsOf(u) \cup {a}
              /\ t \notin Creating(u)'
              /\ Insert(t)
<1> SUFFICES ASSUME NEW a \in AppsOf(u)', a \notin AppsOf(u)
             PROVE  \E t \in Creating(u) :
                      /\ AppsOf(u)' \subseteq AppsOf(u) \cup {a}
                      /\ t \notin Creating(u)'
                      /\ Insert(t)
  BY DEF AppsOf, Stored
<1>1. a \in App /\ rows'[a].state = "stored" /\ rows'[a].owner = u
  BY DEF AppsOf, Stored
<1>2. a \notin Stored
  BY <1>1, RowsKeep DEF AppsOf
<1>3. PICK t \in Tab : \E s : Inserts(t, a, s) /\ \A b \in App \ {a} : rows'[b] = rows[b]
  BY <1>1, <1>2, RowWrites DEF Stored
<1>4. PICK s : Inserts(t, a, s) /\ \A b \in App \ {a} : rows'[b] = rows[b]
  BY <1>3
<1>5. AppsOf(u)' \subseteq AppsOf(u) \cup {a}
  BY <1>4 DEF AppsOf, Stored
<1>6. req[t].user = u /\ req[t].op = "create" /\ pc[t] = "write" /\ pc'[t] = "page" /\ Insert(t)
  <2>1. req[t].user = u /\ Insert(t)
    BY <1>1, <1>4 DEF Inserts
  <2>2. req[t].op # "command"
    BY <2>1, PortalConstants DEF Insert, LabelsMatchRequests
  <2> QED BY <2>1, <2>2 DEF Insert, Goto, TypeOK
<1> QED BY <1>5, <1>6 DEF Creating

LEMMA LimitStep ==
  ASSUME TypeOK, LabelsMatchRequests, ReadsStayTrue, LimitOvershootIsBounded, [Next]_vars
  PROVE  LimitOvershootIsBounded'
<1> SUFFICES ASSUME NEW u \in User,
                    NEW apps, apps = AppsOf(u)', NEW creating, creating = Creating(u)'
             PROVE  Cardinality(apps) + Cardinality(creating) <= Limit + Cardinality(Tab) - 1
  BY DEF LimitOvershootIsBounded
<1>1. apps \subseteq App /\ creating \subseteq Tab
  BY DEF AppsOf, Stored, Creating
<1>2. /\ IsFiniteSet(apps) /\ Cardinality(apps) \in Nat
      /\ IsFiniteSet(creating) /\ Cardinality(creating) \in Nat
      /\ Cardinality(creating) <= Cardinality(Tab)
  BY <1>1, PortalConstants, FS_Subset, FS_CardinalityType
<1>3. /\ IsFiniteSet(AppsOf(u)) /\ Cardinality(AppsOf(u)) \in Nat
      /\ IsFiniteSet(Creating(u)) /\ Cardinality(Creating(u)) \in Nat
      /\ Cardinality(Tab) \in Nat /\ Limit \in Nat
      /\ Cardinality(AppsOf(u)) + Cardinality(Creating(u)) <= Limit + Cardinality(Tab) - 1
  BY FiniteParts, PortalConstants DEF LimitOvershootIsBounded
<1>4. CASE \E t \in Tab : CountApps(t) /\ req[t].user = u
  <2>1. Cardinality(AppsOf(u)) < Limit /\ apps = AppsOf(u)
    BY <1>4 DEF CountApps, AppsOf, Stored
  <2> QED BY <1>2, <1>3, <2>1
<1>5. CASE ~ \E t \in Tab : CountApps(t) /\ req[t].user = u
  <2>1. creating \subseteq Creating(u)
    BY <1>5, CreatingStep DEF Creating
  <2>2. Cardinality(creating) <= Cardinality(Creating(u))
    BY <1>3, <2>1, FS_Subset
  <2>3. CASE apps \subseteq AppsOf(u)
    <3>1. Cardinality(apps) <= Cardinality(AppsOf(u))
      BY <1>3, <2>3, FS_Subset
    <3> QED BY <1>2, <1>3, <2>2, <3>1
  <2>4. ASSUME NEW a \in App, NEW t \in Creating(u), apps \subseteq AppsOf(u) \cup {a},
               t \notin creating
        PROVE  Cardinality(apps) + Cardinality(creating) <= Limit + Cardinality(Tab) - 1
    <3>1. /\ IsFiniteSet(AppsOf(u) \cup {a}) /\ Cardinality(AppsOf(u) \cup {a}) \in Nat
          /\ Cardinality(AppsOf(u) \cup {a}) <= Cardinality(AppsOf(u)) + 1
      <4>1. /\ IsFiniteSet(AppsOf(u) \cup {a})
            /\ Cardinality(AppsOf(u) \cup {a}) =
                 IF a \in AppsOf(u) THEN Cardinality(AppsOf(u)) ELSE Cardinality(AppsOf(u)) + 1
        BY <1>3, FS_AddElement
      <4> QED BY <1>3, <4>1
    <3>2. Cardinality(apps) <= Cardinality(AppsOf(u) \cup {a})
      BY <2>4, <3>1, FS_Subset
    <3>3. /\ IsFiniteSet(Creating(u) \ {t})
          /\ Cardinality(Creating(u) \ {t}) = Cardinality(Creating(u)) - 1
      BY <1>3, FS_RemoveElement
    <3>4. Cardinality(creating) <= Cardinality(Creating(u) \ {t})
      <4>1. creating \subseteq Creating(u) \ {t}
        BY <2>1, <2>4
      <4> QED BY <3>3, <4>1, FS_Subset
    <3> QED BY <1>2, <1>3, <3>1, <3>2, <3>3, <3>4
  <2> QED BY <2>3, <2>4, AppsStep
<1> QED BY <1>4, <1>5

---------------------------------------------------------------------------
(* The theorems *)

LEMMA InitInv == Init => PortalInv
<1> SUFFICES ASSUME Init PROVE PortalInv
  OBVIOUS
<1>1. TypeOK
  BY NoRowType DEF Init, TypeOK, Label, Input, NoInput, Operation
<1>2. Stored = {}
  BY DEF Init, Stored, NoRow
<1>3. LabelsMatchRequests
  BY DEF Init, LabelsMatchRequests, NoInput
<1>4. ReadsStayTrue /\ SecretsWereGenerated /\ CurrentSecretIsKnown
  BY <1>2 DEF ReadsStayTrue, SecretsWereGenerated, CurrentSecretIsKnown
<1>5. LimitOvershootIsBounded
  <2> SUFFICES ASSUME NEW u \in User
               PROVE  Cardinality(AppsOf(u)) + Cardinality(Creating(u))
                        <= Limit + Cardinality(Tab) - 1
    BY DEF LimitOvershootIsBounded
  <2>1. AppsOf(u) = {} /\ Creating(u) = {}
    BY <1>2 DEF AppsOf, Creating, Init, NoInput
  <2>2. Cardinality({}) = 0
    BY FS_EmptySet
  <2> QED BY <2>1, <2>2, FiniteParts, PortalConstants
<1> QED BY <1>1, <1>3, <1>4, <1>5 DEF PortalInv

LEMMA StepInv == PortalInv /\ [Next]_vars => PortalInv'
BY StepTypeOK, LabelsStep, ReadsStep, SecretsStep, LimitStep, KnownStep DEF PortalInv

\* Every reachable state of the portal satisfies the inductive invariant.
THEOREM PortalInvariance == Spec => []PortalInv
BY InitInv, StepInv, PTL DEF Spec

\* Concurrent creations and deletions overshoot the limit on applications by
\* fewer than the number of requests (apps.rs:82-86).
THEOREM LimitOvershoot == Spec => []LimitOvershootIsBounded
BY PortalInvariance, PTL DEF PortalInv

\* However rotations, edits and deletions overlap, the stored secret is one that
\* a page showed, is about to show or failed to show (apps.rs:122-129).
THEOREM CurrentSecretKnown == Spec => []CurrentSecretIsKnown
BY PortalInvariance, PTL DEF PortalInv

\* A secret that was replaced never comes back and the client type is fixed
\* (client.rs:191-212 and the column lists of repo/clients.rs).
THEOREM SecretsForward == Spec => SecretsMoveForward
<1>1. PortalInv /\ [Next]_vars =>
        [\A a \in Stored :
           LET before == rows[a].secret  after == rows'[a].secret IN
           rows'[a].state = "stored" /\ after # before =>
             after \notin generated /\ before # None /\ after # None]_vars
  <2> SUFFICES ASSUME PortalInv, [Next]_vars, NEW a \in Stored,
                      rows'[a].state = "stored", rows'[a].secret # rows[a].secret
               PROVE  /\ rows'[a].secret \notin generated
                      /\ rows[a].secret # None /\ rows'[a].secret # None
    OBVIOUS
  <2>1. PICK t \in Tab : Rotates(t, a)
    BY RowWrites DEF PortalInv, Inserts, Edits, Deletes, Stored
  <2>2. rows'[a].secret \notin generated /\ rows'[a].secret # None
    BY <2>1, PortalConstants DEF Rotates
  <2>3. rows[a].secret # None
    BY <2>2, RowsKeep DEF PortalInv, Stored
  <2> QED BY <2>2, <2>3
<1> QED BY <1>1, PortalInvariance, PTL DEF Spec, SecretsMoveForward

\* The writes name an application by id alone, and still only requests of its
\* owner change it (apps.rs:66-74 read before 104-131 write).
THEOREM OwnersOnly == Spec => OnlyTheOwnerChanges
<1>1. PortalInv /\ [Next]_vars =>
        [\A a \in Stored : rows'[a] # rows[a] =>
           \E t \in Tab : pc'[t] # pc[t] /\ req[t].app = a /\ req[t].user = rows[a].owner]_vars
  <2> SUFFICES ASSUME PortalInv, [Next]_vars, NEW a \in Stored, rows'[a] # rows[a]
               PROVE  \E t \in Tab :
                        pc'[t] # pc[t] /\ req[t].app = a /\ req[t].user = rows[a].owner
    OBVIOUS
  <2>1. PICK t \in Tab : Edits(t, a) \/ Rotates(t, a) \/ Deletes(t, a)
    BY RowWrites DEF PortalInv, Inserts, Stored
  <2>2. req[t].app = a /\ Holding(t) /\ pc'[t] # pc[t]
    BY <2>1 DEF PortalInv, TypeOK, LabelsMatchRequests, Holding, Edits, Rotates, Deletes,
       WriteDetails, WriteSecret, Delete, Finish, Goto
  <2>3. req[t].user = rows[a].owner
    BY <2>2 DEF PortalInv, ReadsStayTrue
  <2> QED BY <2>2, <2>3
<1> QED BY <1>1, PortalInvariance, PTL DEF Spec, OnlyTheOwnerChanges

===========================================================================
