--------------------- MODULE ClientAuthenticationProofs ---------------------
(***************************************************************************)
(* A request to the token or revocation endpoint is taken for the client   *)
(* that sent it, and a failure does not tell whether the client exists:    *)
(* for any number of clients of each kind, and any ids.                    *)
(*                                                                         *)
(* A request is judged in one step, so the invariant (JudgedInv) only says *)
(* that the answer is the judgement.  The rest is about Judge: the lemmas  *)
(* follow the credentials out of the header and of the body and compare    *)
(* them with what the request says of its sender (IsFrom), and with what   *)
(* is left of it when it names another client (Renamed).                   *)
(***************************************************************************)
EXTENDS ClientAuthentication, FiniteSetTheorems, TLAPS

JudgedInv == request \in Request /\ answer \in {Pending, Judge(request)}

\* There is no answer but the judgement.
LEMMA JudgedInvariance == AuthSpec => []JudgedInv
<1>1. AuthInit => JudgedInv
  BY DEF AuthInit, JudgedInv
<1>2. JudgedInv /\ [Handle]_authVars => JudgedInv'
  BY DEF JudgedInv, Handle, authVars
<1> QED
  BY <1>1, <1>2, PTL DEF AuthSpec

---------------------------------------------------------------------------
(* Parameters and headers *)

Blank(values) == values \in {<<>>, <<Empty>>}

\* A parameter is missing, or has the value it was given.
LEMMA Parameter ==
  ASSUME NEW r \in Request
  PROVE  /\ ~Blank(r.body.client_id) =>
              /\ r.body.client_id[1] \in Id /\ r.body.client_id = <<r.body.client_id[1]>>
              /\ Get(r.body.client_id) = r.body.client_id[1]
         /\ ~Blank(r.body.client_secret) =>
              /\ r.body.client_secret[1] \in Confidential \cup Unknown
              /\ r.body.client_secret = <<r.body.client_secret[1]>>
              /\ Get(r.body.client_secret) = r.body.client_secret[1]
         /\ Blank(r.body.client_id) <=> Get(r.body.client_id) = None
         /\ Blank(r.body.client_secret) <=> Get(r.body.client_secret) = None
<1>1. /\ r.body.client_id \in {<<>>} \cup {<<i>> : i \in Id \cup {Empty}}
      /\ r.body.client_secret \in {<<>>} \cup {<<s>> : s \in Secret}
  BY DEF Request, Body
<1>2. ~Blank(r.body.client_id) => \E i \in Id : r.body.client_id = <<i>>
  BY <1>1 DEF Blank
<1>3. ~Blank(r.body.client_secret) => \E s \in Secret \ {Empty} : r.body.client_secret = <<s>>
  BY <1>1 DEF Blank
<1>4. None \notin Id /\ Secret \ {Empty} = (Confidential \cup Unknown) \ {Empty} /\ Secret \ {Empty} \subseteq Id
  BY Identifiers DEF Id, Secret
<1> QED
  BY <1>2, <1>3, <1>4 DEF Blank, Get

\* A header that parses has the id and the secret of someone.
LEMMA ParsedHeader ==
  ASSUME NEW r \in Request, HasScheme(r.header)
  PROVE  /\ r.header \in HeaderField /\ Basic(r)
         /\ r.header.payload # Garbled => r.header.payload \in Payload
         /\ Parses(r.header) =>
              /\ r.header.payload.id \in Id
              /\ r.header.payload.secret \in Secret /\ r.header.payload.secret # None
<1>1. r.header \in HeaderField
  BY DEF Request, Header, HasScheme
<1>2. r.header.payload \in {Garbled} \cup Payload
  BY <1>1 DEF HeaderField
<1>3. None \notin Secret
  BY Identifiers DEF Id, Secret
<1> QED
  BY <1>1, <1>2, <1>3 DEF Basic, HasScheme, Parses, Payload

\* The errors of the extraction are errors.
LEMMA ErrorsAreErrors == "invalid_client" # None /\ "invalid_request" # None
BY Identifiers

\* What passes the checks before the client is looked up.
Admitted(r) ==
  ~r.repeats /\ (r.endpoint = "token" => GrantTypeError(r.body) = None)

\* A client is looked up only for a request without errors.
LEMMA Judgement ==
  ASSUME NEW r
  PROVE  /\ Admitted(r) /\ ExtractionError(r) = None =>
              Judge(r) = Authenticate(Credentials(r))
         /\ ~(Admitted(r) /\ ExtractionError(r) = None) =>
              Judge(r).client = None
BY DEF Judge, Admitted, Error

\* A request is taken for an active client that it proves to be.
LEMMA Authentication ==
  ASSUME NEW c, NEW id \in Id
  PROVE  Authenticate(c).client = id <=> c.id = id /\ IsActiveClient(id) /\ Proves(c)
<1>1. None # id
  BY Identifiers
<1> QED
  BY <1>1 DEF Authenticate, Client, Error

---------------------------------------------------------------------------
(* Whose request it is *)

\* By the header.
LEMMA SenderInHeader ==
  ASSUME NEW r \in Request, HasScheme(r.header), NEW id \in Id
  PROVE  (ExtractionError(r) = None /\ Authenticate(Credentials(r)).client = id) <=> IsFrom(r, id)
<1> DEFINE payload == r.header.payload
<1>1. ExtractionError(r) = None <=>
        /\ Parses(r.header)
        /\ Blank(r.body.client_secret)
        /\ Blank(r.body.client_id) \/ r.body.client_id[1] = payload.id
  <2>1. IdsDisagree(r) <=> ~(Blank(r.body.client_id) \/ r.body.client_id[1] = payload.id)
    BY Parameter DEF IdsDisagree
  <2> QED
    BY <2>1, Parameter, ErrorsAreErrors DEF ExtractionError
<1>2. Credentials(r) = payload
  BY DEF Credentials
<1>3. Parses(r.header) => (Proves(payload) <=> payload.id \in Confidential /\ payload.secret = payload.id)
  BY ParsedHeader DEF Proves
<1>4. IsFrom(r, id) <=>
        /\ payload # Garbled
        /\ {payload.id} \cup (IF Blank(r.body.client_id) THEN {} ELSE {r.body.client_id[1]}) = {id}
        /\ id \in Confidential /\ Blank(r.body.client_secret) /\ payload.secret = id
  BY ParsedHeader DEF IsFrom, Names, Posts, Blank
<1>5. id # Empty
  BY Identifiers
<1>6. Authenticate(payload).client = id <=> payload.id = id /\ IsActiveClient(id) /\ Proves(payload)
  BY Authentication
<1> HIDE DEF payload
<1>7. ASSUME ExtractionError(r) = None, Authenticate(payload).client = id PROVE IsFrom(r, id)
  BY <1>1, <1>3, <1>4, <1>6, <1>7 DEF Parses, payload
<1>8. ASSUME IsFrom(r, id) PROVE ExtractionError(r) = None /\ Authenticate(payload).client = id
  <2>1. payload.id = id /\ (Blank(r.body.client_id) \/ r.body.client_id[1] = id)
    BY <1>4, <1>8
  <2>2. Parses(r.header)
    BY <1>4, <1>5, <1>8, <2>1 DEF Parses, payload
  <2> QED
    BY <1>1, <1>3, <1>4, <1>6, <1>8, <2>1, <2>2 DEF IsActiveClient
<1> QED
  BY <1>2, <1>7, <1>8

\* By the body.
LEMMA SenderInBody ==
  ASSUME NEW r \in Request, ~HasScheme(r.header), NEW id \in Id
  PROVE  (ExtractionError(r) = None /\ Authenticate(Credentials(r)).client = id) <=> IsFrom(r, id)
<1> DEFINE c == [id |-> Get(r.body.client_id), secret |-> Get(r.body.client_secret)]
<1>1. ExtractionError(r) = None <=> ~Blank(r.body.client_id)
  BY Parameter, ErrorsAreErrors DEF ExtractionError
<1>2. Credentials(r) = c /\ c.id = Get(r.body.client_id) /\ c.secret = Get(r.body.client_secret)
  BY DEF Credentials
<1>3. ~Basic(r)
  BY DEF Basic, HasScheme
<1>4. IsFrom(r, id) <=>
        /\ ~Blank(r.body.client_id) /\ r.body.client_id[1] = id
        /\ \/ id \in Public /\ Blank(r.body.client_secret)
           \/ id \in Confidential /\ ~Blank(r.body.client_secret) /\ r.body.client_secret = <<id>>
  <2>1. Names(r) = {id} <=> ~Blank(r.body.client_id) /\ r.body.client_id[1] = id
    BY <1>3 DEF Names, Blank
  <2>2. Posts(r) <=> ~Blank(r.body.client_secret)
    BY DEF Posts, Blank
  <2>3. (Basic(r) # Posts(r)) <=> Posts(r)
    BY <1>3 DEF Basic, Posts
  <2> QED
    BY <1>3, <2>1, <2>2, <2>3, Zenon DEF IsFrom
<1>5. Authenticate(c).client = id <=> c.id = id /\ IsActiveClient(id) /\ Proves(c)
  BY Authentication
<1> HIDE DEF c
<1>6. IsActiveClient(id) <=> id \in Confidential \cup Public
  BY DEF IsActiveClient
<1>7. Public \cap Confidential = {}
  BY Identifiers
<1>8. CASE Blank(r.body.client_secret)
  <2>1. c.secret = None
    BY <1>2, <1>8, Parameter
  <2>2. Proves(c) <=> c.id \notin Confidential
    BY <2>1 DEF Proves
  <2> QED
    BY <1>1, <1>2, <1>4, <1>5, <1>6, <1>7, <1>8, <2>2, Parameter
<1>9. CASE ~Blank(r.body.client_secret)
  <2>1. c.secret # None /\ c.secret = r.body.client_secret[1]
    BY <1>2, <1>9, Parameter
  <2>2. Proves(c) <=> c.id \in Confidential /\ r.body.client_secret[1] = c.id
    BY <2>1 DEF Proves
  <2>3. r.body.client_secret = <<id>> <=> r.body.client_secret[1] = id
    BY <1>9, Parameter
  <2> QED
    BY <1>1, <1>2, <1>4, <1>5, <1>6, <1>9, <2>2, <2>3, Parameter
<1> QED
  BY <1>8, <1>9

\* TakenForItsSender: a request is taken for the client it is from, by one method of
\* authentication and every id it gives, and for no other (extract_credentials,
\* authenticate).
THEOREM SendersAreTold == AuthSpec => []TakenForItsSender
<1>1. JudgedInv => TakenForItsSender
  <2> SUFFICES ASSUME JudgedInv, answer # Pending, NEW id \in Id
               PROVE  answer.client = id <=> Admitted(request) /\ IsFrom(request, id)
    BY DEF TakenForItsSender, Admitted
  <2>1. request \in Request /\ answer = Judge(request)
    BY DEF JudgedInv
  <2>2. (ExtractionError(request) = None /\ Authenticate(Credentials(request)).client = id)
          <=> IsFrom(request, id)
    BY <2>1, SenderInHeader, SenderInBody
  <2>3. None # id
    BY Identifiers
  <2> QED
    BY <2>1, <2>2, <2>3, Judgement
<1> QED
  BY <1>1, JudgedInvariance, PTL

---------------------------------------------------------------------------
(* What a failure tells *)

\* A set of one has one name for it.
LEMMA TwoNames ==
  ASSUME NEW a, NEW b, Cardinality({a} \cup {b}) = 1
  PROVE  a = b
<1>1. IsFiniteSet({a} \cup {b})
  BY FS_Singleton, FS_AddElement
<1>2. PICK x : {a} \cup {b} = {x}
  BY <1>1, FS_Singleton
<1> QED
  BY <1>2

\* What a request is when it names an unknown client.
LEMMA RenamedRequest ==
  ASSUME NEW r \in Request, NEW id \in Unknown
  PROVE  LET s == Renamed(r, id) IN
         /\ s.repeats = r.repeats /\ s.endpoint = r.endpoint
         /\ s.body.grant_type = r.body.grant_type
         /\ s.body.client_secret = r.body.client_secret
         /\ s.body.client_id = IF Blank(r.body.client_id) THEN r.body.client_id ELSE <<id>>
         /\ HasScheme(s.header) <=> HasScheme(r.header)
         /\ HasScheme(r.header) /\ ~Parses(r.header) => s.header = r.header
         /\ HasScheme(r.header) /\ Parses(r.header) =>
              /\ s.header.payload.id = id /\ s.header.payload.secret = r.header.payload.secret
              /\ Parses(s.header)
<1> DEFINE s == Renamed(r, id)
           header == IF r.header # None /\ r.header.payload # Garbled /\ r.header.payload.id # Empty
                     THEN [r.header EXCEPT !.payload.id = id] ELSE r.header
<1>1. /\ s.repeats = r.repeats /\ s.endpoint = r.endpoint
      /\ s.body.grant_type = r.body.grant_type
      /\ s.body.client_secret = r.body.client_secret
      /\ s.body.client_id = IF Blank(r.body.client_id) THEN r.body.client_id ELSE <<id>>
      /\ s.header = header
  BY DEF Renamed, Request, Body, Blank
<1>2. CASE r.header # None /\ r.header.payload # Garbled /\ r.header.payload.id # Empty
  <2>1. r.header \in HeaderField /\ r.header.payload \in Payload
    BY <1>2 DEF Request, Header, HeaderField
  <2>2. id \in Id /\ id # Empty
    BY Identifiers DEF Id
  <2>3. /\ header \in HeaderField /\ header.scheme = r.header.scheme
        /\ header.payload \in Payload /\ header.payload.id = id
        /\ header.payload.secret = r.header.payload.secret
    BY <1>2, <2>1, <2>2 DEF HeaderField, Payload
  <2>4. header # None /\ header.payload # Garbled
    BY <2>3, Identifiers
  <2> HIDE DEF header
  <2> QED
    BY <1>1, <1>2, <2>2, <2>3, <2>4 DEF HasScheme, Parses
<1>3. CASE ~(r.header # None /\ r.header.payload # Garbled /\ r.header.payload.id # Empty)
  <2>1. header = r.header
    BY <1>3
  <2>2. ~(HasScheme(r.header) /\ Parses(r.header))
    BY <1>3 DEF HasScheme, Parses
  <2> HIDE DEF header
  <2> QED
    BY <1>1, <2>1, <2>2
<1> QED
  BY <1>2, <1>3

\* FailuresAreAlike: "The response does not reveal whether a client_id exists"
\* (authenticate): a failure would be the same for a client that does not exist.
THEOREM FailuresTellNothing == AuthSpec => []FailuresAreAlike
<1>1. JudgedInv => FailuresAreAlike
  <2> SUFFICES ASSUME JudgedInv, answer.error # None, Cardinality(Names(request)) = 1,
                      NEW id \in Unknown
               PROVE  Judge(Renamed(request, id)) = answer
    BY DEF FailuresAreAlike
  <2> DEFINE r == request
             s == Renamed(r, id)
  <2>1. r \in Request /\ answer = Judge(r)
    BY DEF JudgedInv, Pending
  <2> HIDE DEF r, s
  <2>2. /\ s.repeats = r.repeats /\ s.endpoint = r.endpoint
        /\ s.body.grant_type = r.body.grant_type
        /\ s.body.client_secret = r.body.client_secret
        /\ s.body.client_id = IF Blank(r.body.client_id) THEN r.body.client_id ELSE <<id>>
        /\ HasScheme(s.header) <=> HasScheme(r.header)
        /\ HasScheme(r.header) /\ ~Parses(r.header) => s.header = r.header
        /\ HasScheme(r.header) /\ Parses(r.header) => s.header.payload.id = id /\ Parses(s.header)
    BY <2>1, RenamedRequest DEF s
  <2>3. id \in Id /\ id # Empty /\ id # None /\ ~IsActiveClient(id)
    BY Identifiers DEF Id, IsActiveClient
  <2>4. GrantTypeError(s.body) = GrantTypeError(r.body)
    BY <2>2 DEF GrantTypeError
  <2>5. /\ Blank(s.body.client_id) <=> Blank(r.body.client_id)
        /\ ~Blank(r.body.client_id) => Get(s.body.client_id) = id
        /\ Blank(r.body.client_id) => Get(s.body.client_id) = None /\ Get(r.body.client_id) = None
        /\ ~Blank(r.body.client_id) => Get(r.body.client_id) # None
    BY <2>1, <2>2, <2>3, Parameter DEF Blank, Get
  <2>6. ASSUME HasScheme(r.header), Parses(r.header)
        PROVE  ~IdsDisagree(s) /\ ~IdsDisagree(r)
    <3>1. ~IdsDisagree(s)
      BY <2>2, <2>5, <2>6 DEF IdsDisagree
    <3>2. ASSUME ~Blank(r.body.client_id) PROVE r.body.client_id[1] = r.header.payload.id
      <4>1. Names(r) = {r.header.payload.id} \cup {r.body.client_id[1]}
        BY <2>1, <2>6, <3>2, ParsedHeader DEF Names, Parses, Blank
      <4> QED
        BY <4>1, TwoNames DEF r
    <3> QED
      BY <2>1, <2>5, <3>1, <3>2, Parameter DEF IdsDisagree
  <2>7. ExtractionError(s) = ExtractionError(r)
    <3>1. CASE HasScheme(r.header)
      BY <2>2, <2>6, <3>1 DEF ExtractionError
    <3>2. CASE ~HasScheme(r.header)
      BY <2>2, <2>3, <2>5, <3>2 DEF ExtractionError
    <3> QED
      BY <3>1, <3>2
  <2>8. CASE Admitted(r) /\ ExtractionError(r) = None
    <3>1. Authenticate(Credentials(r)) = Error("invalid_client")
      BY <2>1, <2>8, Judgement DEF Authenticate, Client
    <3>2. Credentials(s).id = id
      <4>1. CASE HasScheme(r.header)
        BY <2>2, <2>8, <4>1, ErrorsAreErrors DEF Credentials, ExtractionError
      <4>2. CASE ~HasScheme(r.header)
        BY <2>2, <2>5, <2>8, <4>2, ErrorsAreErrors DEF Credentials, ExtractionError
      <4> QED
        BY <4>1, <4>2
    <3>3. Authenticate(Credentials(s)) = Error("invalid_client")
      BY <2>3, <3>2 DEF Authenticate
    <3>4. Admitted(s)
      BY <2>2, <2>4, <2>8 DEF Admitted
    <3>5. Judge(s) = Error("invalid_client") /\ Judge(r) = Error("invalid_client")
      BY <2>7, <2>8, <3>1, <3>3, <3>4, Judgement
    <3> QED
      BY <2>1, <3>5 DEF r, s
  <2>9. CASE ~(Admitted(r) /\ ExtractionError(r) = None)
    <3>1. Judge(s) = Judge(r)
      BY <2>2, <2>4, <2>7, <2>9 DEF Judge, Admitted
    <3> QED
      BY <2>1, <3>1 DEF r, s
  <2> QED
    BY <2>8, <2>9
<1> QED
  BY <1>1, JudgedInvariance, PTL
=============================================================================
