------------------------- MODULE RequestValidation -------------------------
(***************************************************************************)
(* How an authorization request is read, judged and written again: it is   *)
(* parsed from the query, written into the return address of the sign-in   *)
(* page, parsed from there, written into the hidden fields of the consent  *)
(* page and parsed a third time.  The registry does not change here        *)
(* (module Authorization has that): the question is whether the text that  *)
(* travels keeps its meaning.                                              *)
(***************************************************************************)
EXTENDS Params, Naturals, FiniteSets, Functions

CONSTANTS
  Usual,      \* a request that every check accepts
  Deviation,  \* <<name, texts>>: what else a request may have for a name
  MaxLost     \* bound: how often a session ends while its consent page is open

Name == {"client_id", "redirect_uri", "request", "request_uri", "response_type",
         "response_mode", "state", "scope", "code_challenge",
         "code_challenge_method", "nonce", "prompt", "max_age"}

\* A query or form: the texts given for each name.
IsQuery(q) == q \in [Name -> Seq(Text)]

ASSUME Parameters ==
  /\ IsQuery(Usual)
  /\ \A d \in Deviation : d[1] \in Name /\ d[2] \in Seq(Text)
  /\ MaxLost \in Nat
  /\ None \notin Seq(STRING)
  \* Nor are its words, which the provers do not know to be in STRING.
  /\ None \notin {T("app"), T("S256"), "invalid_scope"}

VARIABLES
  asked,     \* the query the app sent
  at,        \* the endpoint the browser is about to call, or the page it shows
  query,     \* the query or hidden fields it has for that
  session,   \* no session, one that is too old for any max_age, or a fresh one
  approved,  \* whether oauth_consents covers the scopes
  lost,
  signIns,   \* how often the user has signed in
  outcome    \* how the flow ended

vars == <<asked, at, query, session, approved, lost, signIns, outcome>>

---------------------------------------------------------------------------
(* Parsing *)

Repeats(q) == \E n \in Name : Len(q[n]) > 1

\* Params::from_pairs, then take.
FromParams(q) == [n \in Name |-> Get(q[n])]

\* Variant: the nonce is forgotten.
ToPairsWithoutNonce(r) ==
  [n \in Name |-> IF n \in {"request", "request_uri", "nonce"} \/ r[n] = None
                  THEN <<>> ELSE <<r[n]>>]

\* Variant: the method is taken to go without saying.
ToPairsWithoutMethod(r) ==
  [n \in Name |-> IF n \in {"request", "request_uri", "code_challenge_method"} \/ r[n] = None
                  THEN <<>> ELSE <<r[n]>>]

\* to_pairs, for to_path and for the hidden fields.
ToPairs(r) ==
  [n \in Name |-> IF n \in {"request", "request_uri"} \/ r[n] = None
                  THEN <<>> ELSE <<r[n]>>]

\* Variant: login is dropped only where it is the whole text.
WithoutReauthenticationExact(r) ==
  [r EXCEPT !["prompt"] = IF @ = T("login") THEN None ELSE @, !["max_age"] = None]

\* filter, collect and join.
WithoutLogin(text) ==
  LET rest[i \in 0..Len(text)] ==
        IF i = 0 THEN <<>>
        ELSE IF text[i] = "login" THEN rest[i - 1] ELSE Append(rest[i - 1], text[i])
  IN  rest[Len(text)]

WithoutReauthentication(r) ==
  [r EXCEPT !["prompt"] = IF @ = None \/ WithoutLogin(@) \in {<<>>, Empty} THEN None
                          ELSE WithoutLogin(@),
            !["max_age"] = None]

Words(text) == IF text = None THEN {} ELSE Range(text) \ {NoWord}

\* Variant: there is never an account to select, so nobody may ask for it.
PromptParsesWithoutSelect(text) ==
  /\ Words(text) \subseteq {"none", "login", "consent"}
  /\ "none" \in Words(text) => Words(text) \cap {"login", "consent"} = {}

PromptParses(text) ==
  /\ Words(text) \subseteq {"none", "login", "consent", "select_account"}
  /\ "none" \in Words(text) => Words(text) \cap {"login", "consent"} = {}

ScopeParses(text) == Words(text) # {} /\ "not\"allowed" \notin Words(text)

---------------------------------------------------------------------------
(* Validation.  The registry: two clients, one of them no longer active; the    *)
(* second redirect URI of the active one is as good as the first.               *)

Registered(id) == id \in {T("app"), T("retired")}
IsActive(id) == id = T("app")
RedirectUris == {T("https://app/cb"), T("https://app/cb2")}
AllowedScopes == {"openid", "profile", "email", "offline_access"}

\* Variant: the client must be active only when the request is otherwise fine.
EstablishesIgnoringActive(r) ==
  Registered(r["client_id"]) /\ r["redirect_uri"] \in RedirectUris

\* Phase 1: errors may be sent to the redirect URI.
Establishes(r) ==
  /\ Registered(r["client_id"]) /\ IsActive(r["client_id"])
  /\ r["redirect_uri"] \in RedirectUris

\* Phase 2: the errors in the order of the checks.
CheckErrors ==
  <<"request_not_supported", "request_uri_not_supported",
    "invalid_request", "unsupported_response_type", "invalid_request", "invalid_request",
    "invalid_scope", "invalid_scope",
    "invalid_request", "invalid_request", "invalid_request",
    "invalid_request", "invalid_request", "invalid_request">>

\* Lengths are classes: "long" is over the limit of its parameter, a challenge of 43
\* base64url characters is the hash of something, of a verifier that is long enough
\* or of one that is not.
Passes(r, check) ==
  /\ check = 1 => r["request"] = None
  /\ check = 2 => r["request_uri"] = None
  /\ check = 3 => r["response_type"] # None
  /\ check = 4 => r["response_type"] = T("code")
  /\ check = 5 => r["response_mode"] \in {None, T("query")}
  /\ check = 6 => r["state"] \notin {None, T("long")}
  /\ check = 7 => ScopeParses(r["scope"])
  /\ check = 8 => Words(r["scope"]) \subseteq AllowedScopes
  /\ check = 9 => r["code_challenge"] # None
  /\ check = 10 => r["code_challenge_method"] = T("S256")
  /\ check = 11 => r["code_challenge"] \in {T("S256-hash"), T("S256-of-short")}
  /\ check = 12 => r["nonce"] # T("long")
  /\ check = 13 => PromptParses(r["prompt"])
  /\ check = 14 => r["max_age"] \in {None, T("0"), T("300")}

Failed(r) == {check \in 1..14 : ~Passes(r, check)}

\* The first check that fails decides.
CheckError(r) ==
  CheckErrors[CHOOSE check \in Failed(r) : \A other \in Failed(r) : check <= other]

\* What issue_code stores of a validated request.
Grant(r) ==
  [client_id |-> r["client_id"], redirect_uri |-> r["redirect_uri"],
   scope |-> Words(r["scope"]), code_challenge |-> r["code_challenge"],
   nonce |-> r["nonce"]]

---------------------------------------------------------------------------
(* The flow *)

Open == [kind |-> "open", error |-> None, to |-> None, state |-> None, grant |-> None]

ErrorPage == [Open EXCEPT !.kind = "page"]
ErrorRedirect(r, code) ==
  [Open EXCEPT !.kind = "error", !.error = code,
               !.to = r["redirect_uri"], !.state = r["state"]]
CodeRedirect(r) ==
  [Open EXCEPT !.kind = "code", !.to = r["redirect_uri"], !.state = r["state"],
               !.grant = Grant(r)]

Init ==
  /\ \E d, e \in Deviation : asked = [Usual EXCEPT ![d[1]] = d[2], ![e[1]] = e[2]]
  /\ query = asked
  /\ at = "authorize"
  /\ session \in {"none", "old", "fresh"}
  /\ approved \in BOOLEAN
  /\ lost = 0
  /\ signIns = 0
  /\ outcome = Open

End(result) ==
  /\ at' = "done" /\ outcome' = result
  /\ UNCHANGED <<asked, query, session, lost, signIns>>

Show(where, r) ==
  /\ at' = where /\ query' = ToPairs(r)
  /\ UNCHANGED <<asked, session, approved, lost, signIns, outcome>>

\* Both endpoints: repeated parameters, then validate.
Reject(r) ==
  \/ (Repeats(query) \/ ~Establishes(r)) /\ End(ErrorPage)
  \/ /\ ~Repeats(query) /\ Establishes(r) /\ Failed(r) # {}
     /\ End(ErrorRedirect(r, CheckError(r)))

Accepts(r) == ~Repeats(query) /\ Establishes(r) /\ Failed(r) = {}

SignedIn(r) ==
  /\ session # "none"
  /\ "login" \notin Words(r["prompt"])
  /\ ~(r["max_age"] # None /\ session = "old")

\* decide.
Decide(r) ==
  \/ Reject(r) /\ UNCHANGED approved
  \/ /\ Accepts(r) /\ ~SignedIn(r)
     /\ \/ /\ "none" \in Words(r["prompt"])
           /\ End(ErrorRedirect(r, "login_required")) /\ UNCHANGED approved
        \/ /\ "none" \notin Words(r["prompt"])
           /\ Show("signin", WithoutReauthentication(r))
  \/ /\ Accepts(r) /\ SignedIn(r)
     /\ \/ /\ approved /\ "consent" \notin Words(r["prompt"])
           /\ End(CodeRedirect(r)) /\ UNCHANGED approved
        \/ /\ ~(approved /\ "consent" \notin Words(r["prompt"]))
           /\ "none" \in Words(r["prompt"])
           /\ End(ErrorRedirect(r, "consent_required")) /\ UNCHANGED approved
        \/ /\ ~(approved /\ "consent" \notin Words(r["prompt"]))
           /\ "none" \notin Words(r["prompt"])
           /\ Show("consent", r)

Authorize == at = "authorize" /\ Decide(FromParams(query))

\* The sign-in form, and the redirect to its return address.
SignIn ==
  /\ at = "signin"
  /\ at' = "authorize" /\ session' = "fresh" /\ signIns' = signIns + 1
  /\ UNCHANGED <<asked, query, approved, lost, outcome>>

\* complete_consent: the request is validated again from its hidden fields.
CompleteConsent(r) ==
  \/ Reject(r) /\ UNCHANGED approved
  \/ Accepts(r) /\ End(ErrorRedirect(r, "access_denied")) /\ UNCHANGED approved
  \/ Accepts(r) /\ End(CodeRedirect(r)) /\ approved' = TRUE

\* POST /oauth/consent.  Without a session: sign in and come back.
Consent ==
  /\ at = "consent"
  /\ LET r == FromParams(query)
     IN  IF session = "none" THEN Show("signin", r) ELSE CompleteConsent(r)

\* While the consent page is open the session ages, or ends.
LoseSession ==
  /\ at = "consent" /\ lost < MaxLost
  /\ session' \in {"none", "old"}
  /\ lost' = lost + 1
  /\ UNCHANGED <<asked, at, query, approved, signIns, outcome>>

Next == Authorize \/ SignIn \/ Consent \/ LoseSession

Spec == Init /\ [][Next]_vars

\* What the comment on Usual says.
ASSUME UsualIsAccepted ==
  LET r == FromParams(Usual)
  IN  ~Repeats(Usual) /\ Establishes(r) /\ Failed(r) = {}

---------------------------------------------------------------------------
(* Properties *)

\* What the app wrote for a parameter, read without the parser.
Wrote(n) == IF asked[n] \in {<<>>, <<Empty>>} THEN None ELSE Head(asked[n])

\* The browser is sent only to a redirect URI that the app named and an active
\* client has registered, and with the state of the request: phase 1 of validate.
AnswersAreAddressed ==
  outcome.to # None =>
    /\ asked["client_id"] = <<T("app")>>
    /\ outcome.to \in RedirectUris /\ asked["redirect_uri"] = <<outcome.to>>
    /\ outcome.state = Wrote("state")

\* Once the user has been shown a page, nothing is left for the server to refuse:
\* the written request validates whenever the one it was written from did, and
\* prompt=none never gets to a page.
OnlyTheUserCanStillRefuse ==
  [][(at = "consent" \/ signIns > 0) /\ outcome' # outcome =>
       outcome'.kind = "code" \/ outcome'.error = "access_denied"]_vars

\* "Keeping them would send the user straight back to the sign-in page forever"
\* (without_reauthentication): one sign-in is enough, and one more for each session
\* that was lost while the consent page was open.
SignInIsAskedOnce == signIns <= 1 + lost
=============================================================================
