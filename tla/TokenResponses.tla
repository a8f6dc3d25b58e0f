---------------------------- MODULE TokenResponses ----------------------------
(***************************************************************************)
(* What an app gets for its request after the code: tokens for the code,   *)
(* tokens for a refresh token with the scopes it names, and claims about   *)
(* the user for an access token.  The flow of RequestValidation goes on    *)
(* here, so that what comes out of the last endpoint can be compared with  *)
(* what went into the first one.                                           *)
(*                                                                         *)
(* One request at a time, in time and by the client of the code:           *)
(* TokenEndpoint has concurrency, expiry, rotation and other clients,      *)
(* AccessTokens has the lifetime of an access token.                       *)
(***************************************************************************)
EXTENDS RequestValidation

CONSTANT RefreshScope  \* texts that an app may send as the scope of a refresh

\* None is not a token either.
ASSUME ResponseParameters ==
  /\ RefreshScope \subseteq Text
  /\ None \notin [typ : {"JWT"}, aud : Text, nonce : Text \cup {None}]

VARIABLES
  codeRow,  \* "live" or "spent": the code of outcome
  kept,     \* the scopes of the row of the live refresh token, None if there is none
  proof,    \* redirect_uri and code_verifier that the code was redeemed with
  hand,     \* the last token response the app received, and what it was asked with
  reply     \* the answer to the last request

responseVars == <<codeRow, kept, proof, hand, reply>>

NoReply == [kind |-> "none", error |-> None, scope |-> None, claims |-> {}]

ResponsesInit ==
  /\ codeRow = "live" /\ kept = None /\ proof = None /\ hand = None
  /\ reply = NoReply

Refuse(error, scope) == reply' = [NoReply EXCEPT !.kind = "error", !.error = error, !.scope = scope]

---------------------------------------------------------------------------
(* Tokens for a code *)

Verifier == {T("verifier"), T("another-verifier"), T("short")}

S256Challenge(verifier) ==
  CASE verifier = T("verifier") -> T("S256-hash")
    [] verifier = T("another-verifier") -> T("S256-of-another")
    [] verifier = T("short") -> T("S256-of-short")

IsValidVerifier(verifier) == verifier # T("short")

\* check_code_bindings.
BindingsHold(redirect_uri, verifier) ==
  /\ outcome.grant.redirect_uri = redirect_uri
  /\ IsValidVerifier(verifier) /\ S256Challenge(verifier) = outcome.grant.code_challenge

Issuer == T("https://issuer")

SignedTokens(client_id, scope, nonce) ==
  [access_token |-> [typ |-> "at+jwt", aud |-> Issuer, client_id |-> client_id, scope |-> scope],
   id_token |-> IF "openid" \in scope
                THEN [typ |-> "JWT", aud |-> client_id, nonce |-> nonce] ELSE None]

\* The response and, for the properties, the grant_type and the scope of its request.
Deliver(grant_type, named, signed, refresh_token) ==
  /\ hand' = [grant_type |-> grant_type, named |-> named,
              access_token |-> signed.access_token, id_token |-> signed.id_token,
              refresh_token |-> refresh_token]
  /\ reply' = [NoReply EXCEPT !.kind = "tokens"]

\* exchange_authorization_code.  A code that fails its checks is spent, and a code
\* that was spent takes the refresh token with it.
Redeem(redirect_uri, verifier) ==
  LET grant == outcome.grant
      offline == "offline_access" \in grant.scope
  IN
  \/ /\ redirect_uri = None \/ verifier = None
     /\ Refuse("invalid_request", None)
     /\ UNCHANGED <<codeRow, kept, proof, hand>>
  \/ /\ redirect_uri # None /\ verifier # None
     /\ codeRow = "spent"
     /\ kept' = None
     /\ Refuse("invalid_grant", None)
     /\ UNCHANGED <<codeRow, proof, hand>>
  \/ /\ redirect_uri # None /\ verifier # None
     /\ codeRow = "live"
     /\ codeRow' = "spent"
     /\ \/ /\ ~BindingsHold(redirect_uri, verifier)
           /\ Refuse("invalid_grant", None)
           /\ UNCHANGED <<kept, proof, hand>>
        \/ /\ BindingsHold(redirect_uri, verifier)
           /\ proof' = [redirect_uri |-> redirect_uri, verifier |-> verifier]
           /\ kept' = IF offline THEN grant.scope ELSE None
           /\ Deliver("authorization_code", None,
                      SignedTokens(grant.client_id, grant.scope, grant.nonce), offline)

---------------------------------------------------------------------------
(* Tokens for a refresh token *)

\* Variant: the successor has the scopes of this response.
KeepTheRequested(granted, scope) == scope

\* The scopes of the row of the successor: "the *original* scope".
KeepTheOriginal(granted, scope) == granted

\* exchange_refresh_token, with the live refresh token, another text or none.  A
\* refusal rolls back, and the token stays what it was.
Refresh(presented, named) ==
  LET scope == IF named = None THEN kept ELSE Words(named) IN
  \/ /\ presented = "none"
     /\ Refuse("invalid_request", None)
     /\ UNCHANGED <<codeRow, kept, proof, hand>>
  \/ /\ presented # "none"
     /\ named # None /\ ~ScopeParses(named)
     /\ Refuse("invalid_scope", named)
     /\ UNCHANGED <<codeRow, kept, proof, hand>>
  \/ /\ presented # "none"
     /\ named = None \/ ScopeParses(named)
     /\ presented = "unknown" \/ kept = None
     /\ Refuse("invalid_grant", None)
     /\ UNCHANGED <<codeRow, kept, proof, hand>>
  \/ /\ presented = "live" /\ kept # None
     /\ named = None \/ ScopeParses(named)
     /\ \/ /\ ~(scope \subseteq kept)
           /\ Refuse("invalid_scope", named)
           /\ UNCHANGED <<codeRow, kept, proof, hand>>
        \/ /\ scope \subseteq kept
           /\ kept' = KeepTheOriginal(kept, scope)
           /\ Deliver("refresh_token", named,
                      SignedTokens(outcome.grant.client_id, scope, None), TRUE)
           /\ UNCHANGED <<codeRow, proof>>

---------------------------------------------------------------------------
(* Claims for an access token *)

\* SigningKeys::verify and access::verify, of a token that this server signed.
Verified(jwt) == jwt # None /\ jwt.typ = "at+jwt" /\ jwt.aud = Issuer

\* claims_for, of a user with or without a display name.
ClaimsFor(hasName, scopes) ==
  {"sub"}
    \cup (IF "profile" \in scopes
          THEN {"updated_at"} \cup (IF hasName THEN {"name"} ELSE {}) ELSE {})
    \cup (IF "email" \in scopes THEN {"email", "email_verified"} ELSE {})

\* GET or POST /oauth/userinfo with a bearer token, or with None.
UserInfo(bearer) ==
  /\ UNCHANGED <<codeRow, kept, proof, hand>>
  /\ \/ bearer = None /\ Refuse("unauthorized", None)
     \/ bearer # None /\ ~Verified(bearer) /\ Refuse("invalid_token", None)
     \/ /\ bearer # None /\ Verified(bearer)
        /\ IF "openid" \notin bearer.scope THEN Refuse("insufficient_scope", None)
           ELSE \E hasName \in BOOLEAN :
                  reply' = [NoReply EXCEPT !.kind = "claims",
                                           !.claims = ClaimsFor(hasName, bearer.scope)]

---------------------------------------------------------------------------

\* The requests an app may make once it has a code.
AppCalls ==
  /\ outcome.kind = "code"
  /\ UNCHANGED vars
  /\ \/ \E redirect_uri \in RedirectUris \cup {None}, verifier \in Verifier \cup {None} :
          Redeem(redirect_uri, verifier)
     \/ \E presented \in {"live", "unknown", "none"}, named \in RefreshScope \cup {None} :
          Refresh(presented, named)
     \/ /\ hand # None
        /\ \E bearer \in {None, hand.access_token, hand.id_token} : UserInfo(bearer)

ResponsesNext ==
  \/ AppCalls
  \/ Next /\ UNCHANGED responseVars

ResponsesSpec == Init /\ ResponsesInit /\ [][ResponsesNext]_<<vars, responseVars>>

---------------------------------------------------------------------------
(* Discovery *)

\* /.well-known/openid-configuration: what may be said for a parameter, word by word.
Metadata ==
  [response_type |-> {"code"}, response_mode |-> {"query"},
   code_challenge_method |-> {"S256"},
   scope |-> {"openid", "profile", "email", "offline_access"},
   prompt |-> {"none", "login", "consent", "select_account"},
   request |-> {}, request_uri |-> {}]

ClaimsSupported ==
  {"iss", "sub", "aud", "exp", "iat", "auth_time", "nonce",
   "name", "updated_at", "email", "email_verified"}

---------------------------------------------------------------------------
(* Properties *)

WroteScopes == Range(Wrote("scope")) \ {NoWord}

\* However often the request was written out and parsed again, tokens are for what the
\* app asked: they go to its client, to who knows the redirect URI and the (proper)
\* verifier it had in mind, and the ID token has its nonce, the first time only.
TokensAreForTheRequest ==
  hand # None =>
    /\ \A n \in Name : Len(asked[n]) <= 1
    /\ hand.access_token.client_id = Wrote("client_id")
    /\ proof.redirect_uri = Wrote("redirect_uri")
    /\ S256Challenge(proof.verifier) = Wrote("code_challenge")
    /\ proof.verifier # T("short")
    /\ hand.id_token # None =>
         /\ hand.id_token.aud = Wrote("client_id")
         /\ hand.id_token.nonce =
              IF hand.grant_type = "authorization_code" THEN Wrote("nonce") ELSE None

\* The scopes of a response are those the app named in its last request, all it ever
\* asked for if it named none, and never more: what an earlier refresh left out comes
\* back ("a narrowed request does not permanently shrink the grant", token.rs:330), and
\* only a scope that was malformed or not asked for is refused.  They decide what else
\* the app gets, as the table of scope.rs has it.
ScopesAreAsNamed ==
  /\ hand # None =>
       LET scopes == hand.access_token.scope IN
       /\ scopes = IF hand.named = None THEN WroteScopes ELSE Range(hand.named) \ {NoWord}
       /\ scopes \subseteq WroteScopes
       /\ hand.id_token # None <=> "openid" \in scopes
       /\ hand.refresh_token <=> "offline_access" \in WroteScopes
       /\ reply.kind = "claims" =>
            /\ "openid" \in scopes
            /\ reply.claims \cap {"email", "email_verified"} # {} <=> "email" \in scopes
            /\ reply.claims \cap {"name", "updated_at"} # {} <=> "profile" \in scopes
  /\ reply.error = "invalid_scope" =>
       LET scopes == Range(reply.scope) \ {NoWord} IN
       scopes = {} \/ ~(scopes \subseteq WroteScopes)

\* A request that says no more than the discovery document announces, and is otherwise
\* the usual one, is refused only for want of a sign-in or an approval; and what is
\* granted or told was announced ("Every value here is a promise", discovery.rs:6).
\* Only scope and prompt are lists of values; a space makes another value of the rest.
\* Here the app is registered for every scope; OpenID has prompt=none stand alone.
PromisesAreKept ==
  LET Says(n) == IF asked[n] = <<>> THEN {} ELSE Range(Head(asked[n])) \ {NoWord}
      AsAnnounced ==
        \A n \in Name :
          IF n \in DOMAIN Metadata
          THEN /\ Len(asked[n]) <= 1
               /\ n \notin {"scope", "prompt"} /\ asked[n] # <<>> => Len(Head(asked[n])) = 1
               /\ Says(n) \subseteq Metadata[n]
               /\ Says(n) = {} => Usual[n] = <<>>
          ELSE asked[n] = Usual[n]
      NoneStandsAlone == "none" \in Says("prompt") => Says("prompt") = {"none"}
  IN
  /\ AsAnnounced /\ NoneStandsAlone =>
       /\ outcome.kind # "page"
       /\ outcome.error \in {None, "login_required", "consent_required", "access_denied"}
  /\ outcome.kind = "code" => \A n \in DOMAIN Metadata : Says(n) \subseteq Metadata[n]
  /\ reply.claims \subseteq ClaimsSupported
=============================================================================
