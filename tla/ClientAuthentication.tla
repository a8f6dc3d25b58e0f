------------------------ MODULE ClientAuthentication ------------------------
(***************************************************************************)
(* Who a request to /oauth/token or /oauth/revoke comes from.  The client  *)
(* may name itself in an Authorization header and in the body, and prove   *)
(* who it is in either, or in neither when it is public: parameters are    *)
(* collected, credentials extracted, the row looked up, the secret         *)
(* compared.  Nothing is written: a request is judged in one step.         *)
(***************************************************************************)
EXTENDS Params, FiniteSets

CONSTANTS
  Confidential,  \* client_ids of active clients with a secret
  Public,        \* client_ids of active clients without
  Inactive,      \* client_ids of rows whose is_active is false
  Unknown,       \* client_ids without a row
  Garbled        \* a text that cannot be decoded or has no colon

Id == Confidential \cup Public \cup Inactive \cup Unknown

\* A secret is known by whose it is; that of an unknown client is nobody's.
Secret == Confidential \cup Unknown \cup {Empty}

\* The header: none, one without a space or of another scheme ("none", "Bearer"), or
\* Basic, whose payload is an id and a secret or garbled.
Payload == [id : Id \cup {Empty}, secret : Secret]
HeaderField ==
  [scheme : {"Basic", "bAsIc", "Bearer", "none"}, payload : {Garbled} \cup Payload]
Header == {None} \cup HeaderField

\* The body: each parameter missing or with the values it was given.
Body == [client_id : {<<>>} \cup {<<i>> : i \in Id \cup {Empty}},
         client_secret : {<<>>} \cup {<<s>> : s \in Secret},
         grant_type : {<<>>, <<Empty>>, <<T("authorization_code")>>, <<T("refresh_token")>>,
                       <<T("password")>>}]

Request == [endpoint : {"token", "revoke"}, header : Header, body : Body,
            repeats : BOOLEAN]

\* What is assumed of the constants: rows are of one kind, and a text, a payload, a
\* header, an error and none are different things.
ASSUME Identifiers ==
  /\ Confidential \cap (Public \cup Inactive \cup Unknown) = {}
  /\ Public \cap (Inactive \cup Unknown) = {}
  /\ Inactive \cap Unknown = {}
  /\ {None, Empty, Garbled} \cap Id = {} /\ None # Empty
  /\ Garbled \notin Payload
  /\ None \notin HeaderField \cup {"invalid_client", "invalid_request"}

VARIABLES
  request,
  answer    \* the client it was taken for, or the error

authVars == <<request, answer>>

Client(id) == [client |-> id, error |-> None]
Error(code) == [client |-> None, error |-> code]
Pending == [client |-> None, error |-> None]

---------------------------------------------------------------------------
(* Parsing *)

HasScheme(header) == header # None /\ header.scheme \in {"Basic", "bAsIc"}

Parses(header) == header.payload # Garbled /\ header.payload.id # Empty

\* GrantType::parse.
GrantTypeError(body) ==
  IF Get(body.grant_type) = None THEN "invalid_request"
  ELSE IF Get(body.grant_type) = T("password") THEN "unsupported_grant_type"
  ELSE None

\* Variant: a client_id in the body is not compared with the header's.
IdsDisagreeNever(r) == FALSE

IdsDisagree(r) == Get(r.body.client_id) \notin {None, r.header.payload.id}

\* extract_credentials: a header that does not parse, two methods at once, ids that
\* disagree; without a Basic header, no id.
ExtractionError(r) ==
  IF HasScheme(r.header)
  THEN IF ~Parses(r.header) THEN "invalid_client"
       ELSE IF Get(r.body.client_secret) # None THEN "invalid_request"
       ELSE IF IdsDisagree(r) THEN "invalid_client"
       ELSE None
  ELSE IF Get(r.body.client_id) = None THEN "invalid_client" ELSE None

Credentials(r) ==
  IF HasScheme(r.header) THEN r.header.payload
  ELSE [id |-> Get(r.body.client_id), secret |-> Get(r.body.client_secret)]

---------------------------------------------------------------------------
(* Authentication *)

IsActiveClient(id) == id \in Confidential \cup Public

\* A secret is compared with the stored hash, which a public client does not have;
\* no secret will do only for a public client.
Proves(c) ==
  IF c.secret # None
  THEN c.id \in Confidential /\ c.secret = c.id
  ELSE c.id \notin Confidential

\* Variant: a client that does not exist is told so.
AuthenticateTelling(c) ==
  IF ~IsActiveClient(c.id) THEN Error("unauthorized_client")
  ELSE IF Proves(c) THEN Client(c.id) ELSE Error("invalid_client")

Authenticate(c) ==
  IF IsActiveClient(c.id) /\ Proves(c) THEN Client(c.id) ELSE Error("invalid_client")

\* token::handle and revocation::handle, up to the call of the grant's handler.
Judge(r) ==
  IF r.repeats THEN Error("invalid_request")
  ELSE IF r.endpoint = "token" /\ GrantTypeError(r.body) # None
       THEN Error(GrantTypeError(r.body))
  ELSE IF ExtractionError(r) # None THEN Error(ExtractionError(r))
  ELSE Authenticate(Credentials(r))

AuthInit == request \in Request /\ answer = Pending

Handle ==
  /\ answer = Pending
  /\ answer' = Judge(request)
  /\ UNCHANGED request

AuthSpec == AuthInit /\ [][Handle]_authVars

---------------------------------------------------------------------------
(* Properties *)

Basic(r) == r.header # None /\ r.header.scheme \in {"Basic", "bAsIc"}
Posts(r) == r.body.client_secret \notin {<<>>, <<Empty>>}
Names(r) == (IF Basic(r) /\ r.header.payload # Garbled THEN {r.header.payload.id} ELSE {})
              \cup (IF r.body.client_id \in {<<>>, <<Empty>>} THEN {} ELSE {r.body.client_id[1]})

\* RFC 6749 2.3 as the module comment of extract_credentials has it: a request is a
\* client's exactly when every id it gives is that client's, and it either uses one
\* method, with that client's secret, or none, and the client is public.
IsFrom(r, id) ==
  /\ Basic(r) => r.header.payload # Garbled
  /\ Names(r) = {id}
  /\ \/ /\ id \in Public
        /\ ~Basic(r) /\ ~Posts(r)
     \/ /\ id \in Confidential
        /\ Basic(r) # Posts(r)
        /\ IF Basic(r) THEN r.header.payload.secret = id
                       ELSE r.body.client_secret = <<id>>

\* The request is taken for the client it is from, and for no other.
TakenForItsSender ==
  answer # Pending =>
    \A id \in Id :
      answer.client = id <=>
        /\ ~request.repeats
        /\ request.endpoint = "token" => GrantTypeError(request.body) = None
        /\ IsFrom(request, id)

\* The request with another client in the place of the one it names.
Renamed(r, id) ==
  [r EXCEPT !.header = IF @ # None /\ @.payload # Garbled /\ @.payload.id # Empty
                       THEN [@ EXCEPT !.payload.id = id] ELSE @,
            !.body.client_id = IF @ \in {<<>>, <<Empty>>} THEN @ ELSE <<id>>]

\* "The response does not reveal whether a client_id exists" (authenticate): a
\* request that fails for the client it names fails alike for an unknown one.
FailuresAreAlike ==
  (answer.error # None /\ Cardinality(Names(request)) = 1) =>
    \A id \in Unknown : Judge(Renamed(request, id)) = answer
=============================================================================
