------------------------ MODULE MCRequestValidation ------------------------
(* An authorization request of one application, with the token and userinfo     *)
(* requests after it, and one request to the token or the revocation endpoint,  *)
(* of any other: the authorization request or that one is unusual.              *)
EXTENDS TokenResponses, ClientAuthentication, TLC

\* The usual request and what each parameter may be instead.
Absent == <<>>
Given(word) == <<T(word)>>

UsualRequest ==
  [n \in Name |->
     CASE n = "client_id" -> Given("app")
       [] n = "redirect_uri" -> Given("https://app/cb")
       [] n = "response_type" -> Given("code")
       [] n = "state" -> Given("xyz")
       [] n = "scope" -> << <<"openid", "profile", "email", "offline_access">> >>
       [] n = "code_challenge" -> Given("S256-hash")
       [] n = "code_challenge_method" -> Given("S256")
       [] n = "nonce" -> Given("n1")
       [] OTHER -> Absent]

\* Other values, the empty one and a repeated one.
Other ==
  [n \in Name |->
     (CASE n = "client_id" -> {Given("retired"), Given("nobody")}
        [] n = "redirect_uri" -> {Given("https://app/cb2"), Given("https://elsewhere/")}
        [] n = "request" -> {Given("jwt")}
        [] n = "request_uri" -> {Given("url")}
        [] n = "response_type" -> {Given("token")}
        [] n = "response_mode" -> {Given("query"), Given("fragment")}
        [] n = "state" -> {Given("long")}
        [] n = "scope" -> {<<w>> : w \in {<<"email", "", "openid", "email">>, <<"", "">>,
                                         <<"profile", "offline_access">>, <<"openid", "admin">>,
                                         <<"not\"allowed">>}}
        [] n = "code_challenge" -> {Given("short"), Given("S256-of-short")}
        [] n = "code_challenge_method" -> {Given("plain")}
        [] n = "nonce" -> {Given("long")}
        [] n = "prompt" -> {<<w>> : w \in {<<"none">>, <<"login">>, <<"consent">>, <<"", "">>,
                                          <<"login", "">>, <<"consent", "login">>,
                                          <<"login", "", "login">>, <<"none", "login">>,
                                          <<"select_account">>, <<"create">>}}
        [] n = "max_age" -> {Given("0"), Given("300"), Given("-1")})
     \cup {Absent, <<Empty>>, <<T("a"), T("b")>>}
     \cup {UsualRequest[n] \o UsualRequest[n], UsualRequest[n] \o <<Empty>>}]

\* None of them, parts, too much, too little and badly spelt.
RefreshScopes ==
  {<<"openid">>, <<"", "email", "openid", "email">>, <<"profile">>, <<"openid", "admin">>,
   <<"", "">>, <<"not\"allowed">>}

Deviations == UNION {{<<n, texts>> : texts \in Other[n]} : n \in Name}

---------------------------------------------------------------------------

UsualTokenRequest ==
  [endpoint |-> "token", header |-> None, repeats |-> FALSE,
   body |-> [client_id |-> <<CHOOSE id \in Public : TRUE>>, client_secret |-> <<>>,
             grant_type |-> Given("authorization_code")]]

\* The usual authorization request, of a user who is signed in and has approved.
UsualInit ==
  /\ asked = Usual /\ query = asked /\ at = "authorize"
  /\ session = "fresh" /\ approved = TRUE
  /\ lost = 0 /\ signIns = 0 /\ outcome = Open

BothInit ==
  /\ ResponsesInit
  /\ \/ Init /\ request = UsualTokenRequest /\ answer = Pending
     \/ UsualInit /\ AuthInit

\* The two share no state, so each runs while the other is the usual one and waits.
BothNext ==
  \/ /\ request = UsualTokenRequest /\ answer = Pending
     /\ ResponsesNext
     /\ UNCHANGED <<request, answer>>
  \/ /\ UsualInit
     /\ Handle
     /\ UNCHANGED <<vars, responseVars>>

BothSpec == BothInit /\ [][BothNext]_<<vars, responseVars, request, answer>>
=============================================================================
