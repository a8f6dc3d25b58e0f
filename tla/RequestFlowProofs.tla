------------------------- MODULE RequestFlowProofs --------------------------
(***************************************************************************)
(* From the authorization request to the last token response: the server   *)
(* refuses nothing once it has shown a page, signs a user in once, answers *)
(* to the address it was given, and hands out tokens and claims for what   *)
(* the app asked.  For any usual request, any deviations, any texts and any*)
(* number of lost sessions.                                                *)
(*                                                                         *)
(* What the app sent and what a handler parses are apart by a chain of     *)
(* parsing, dropping login and writing out again.  RoundTrip and           *)
(* Reauthentication say what one link of it keeps; dropping login is a     *)
(* recursion over the words of a prompt, so they rest on an induction over *)
(* its length, which LeastNumber gets from the well-foundedness of <.      *)
(*                                                                         *)
(* FlowInv carries that along the chain: every copy of the request says    *)
(* what the app said (NothingIsAltered), and one that was shown can only   *)
(* lead to a sign-in, a consent page or a code (Settled).  ResponsesInv    *)
(* carries it on from the code to what the app has in hand.                *)
(***************************************************************************)
EXTENDS TokenResponses, SequenceTheorems, WellFoundedInduction, TLAPS

---------------------------------------------------------------------------
(* Induction, from the well-foundedness of < *)

\* A set of numbers has a least one.
LEMMA LeastNumber ==
  ASSUME NEW Numbers \in SUBSET Nat, Numbers # {}
  PROVE  \E n \in Numbers : \A m \in Numbers : n <= m
<1> DEFINE Less == {pair \in Nat \X Nat : pair[1] < pair[2]}
<1>1. IsWellFoundedOn(Less, Nat)
  BY NatLessThanWellFounded DEF OpToRel
<1> HIDE DEF Less
<1>2. PICK n \in Numbers : \A m \in Numbers : <<m, n>> \notin Less
  BY <1>1, WFMin
<1>3. \A m \in Numbers : m < n => <<m, n>> \in Less
  BY DEF Less
<1>4. \A m \in Numbers : ~(m < n) /\ m \in Nat /\ n \in Nat
  BY <1>2, <1>3
<1> QED
  BY <1>4

\* What holds of 0 and is handed on from each number to the next holds of every number.
LEMMA Induction ==
  ASSUME NEW Good \in SUBSET Nat, 0 \in Good, \A n \in Good : n + 1 \in Good
  PROVE  Good = Nat
<1> DEFINE Bad == Nat \ Good
<1> SUFFICES ASSUME Bad # {} PROVE FALSE
  OBVIOUS
<1>1. PICK n \in Bad : \A m \in Bad : n <= m
  BY LeastNumber
<1>2. n # 0 /\ n \in Nat /\ n - 1 \in Nat /\ n - 1 \notin Bad
  BY <1>1
<1>3. n - 1 + 1 \in Good
  BY <1>2
<1> QED
  BY <1>2, <1>3

---------------------------------------------------------------------------
(* Words *)

\* A text gets the word that is appended to it.
LEMMA AppendedRange ==
  ASSUME NEW text \in Seq(STRING), NEW word \in STRING
  PROVE  Append(text, word) \in Seq(STRING) /\ Range(Append(text, word)) = Range(text) \cup {word}
<1> DEFINE more == Append(text, word)
<1>1. more \in Seq(STRING) /\ Len(more) = Len(text) + 1
  BY AppendProperties
<1>2. DOMAIN text = 1..Len(text) /\ DOMAIN more = 1..(Len(text) + 1)
  BY <1>1
<1>3. \A i \in 1..Len(text) : more[i] = text[i]
  OBVIOUS
<1>4. more[Len(text) + 1] = word
  BY AppendProperties
<1>5. Len(text) \in Nat
  OBVIOUS
<1> HIDE DEF more
<1>6. ASSUME NEW w \in Range(more) PROVE w \in Range(text) \cup {word}
  <2>1. PICK i \in 1..(Len(text) + 1) : w = more[i]
    BY <1>2, <1>6 DEF Range
  <2>2. CASE i = Len(text) + 1
    BY <2>1, <2>2, <1>4
  <2>3. CASE i # Len(text) + 1
    <3>1. i \in 1..Len(text)
      BY <2>3, <1>5
    <3> QED
      BY <3>1, <2>1, <1>2, <1>3 DEF Range
  <2> QED
    BY <2>2, <2>3
<1>7. ASSUME NEW w \in Range(text) \cup {word} PROVE w \in Range(more)
  <2>1. CASE w = word
    <3>1. Len(text) + 1 \in DOMAIN more
      BY <1>2, <1>5
    <3> QED
      BY <3>1, <1>4, <2>1 DEF Range
  <2>2. CASE w # word
    <3>1. PICK i \in 1..Len(text) : w = text[i]
      BY <1>2, <1>7, <2>2 DEF Range
    <3>2. i \in DOMAIN more
      BY <1>2, <1>5
    <3> QED
      BY <3>1, <3>2, <1>3 DEF Range
  <2> QED
    BY <2>1, <2>2
<1> QED
  BY <1>1, <1>6, <1>7 DEF more

\* The recursion of WithoutLogin has a solution: it can be unfolded.
LEMMA WithoutLoginRecursion ==
  ASSUME NEW text \in Seq(STRING)
  PROVE  \E rest :
           /\ WithoutLogin(text) = rest[Len(text)]
           /\ rest[0] = <<>>
           /\ \A i \in 1..Len(text) :
                rest[i] = IF text[i] = "login" THEN rest[i - 1] ELSE Append(rest[i - 1], text[i])
<1> DEFINE Body(f, i) == IF i = 0 THEN <<>>
                         ELSE IF text[i] = "login" THEN f[i - 1] ELSE Append(f[i - 1], text[i])
           Solves(f, n) == f = [i \in 0..n |-> Body(f, i)]
           Solvable(n) == \E f : Solves(f, n)
           Good == {n \in Nat : Solvable(n)}
<1>1. 0 \in Good
  <2>1. Solves([i \in 0..0 |-> <<>>], 0)
    OBVIOUS
  <2> QED
    BY <2>1
<1>2. ASSUME NEW n \in Good PROVE n + 1 \in Good
  <2>1. PICK f : Solves(f, n)
    BY <1>2
  <2> DEFINE g == [i \in 0..(n + 1) |-> IF i = n + 1 THEN Body(f, n + 1) ELSE f[i]]
  <2>2. n \in Nat /\ DOMAIN f = 0..n
    BY <2>1
  <2>3. ASSUME NEW i \in 0..(n + 1) PROVE g[i] = Body(g, i)
    <3>1. CASE i = 0
      BY <2>1, <2>2, <3>1
    <3>2. CASE i # 0
      <4>1. i - 1 \in 0..n /\ g[i - 1] = f[i - 1]
        BY <2>2, <3>2
      <4>2. Body(g, i) = Body(f, i)
        BY <4>1
      <4>3. CASE i = n + 1
        BY <4>2, <4>3
      <4>4. CASE i # n + 1
        <5>1. i \in 0..n
          BY <4>4, <2>2
        <5>2. f[i] = Body(f, i)
          BY <5>1, <2>1
        <5> QED
          BY <5>2, <4>2, <4>4
      <4> QED
        BY <4>3, <4>4
    <3> QED
      BY <3>1, <3>2
  <2>4. Solves(g, n + 1)
    BY <2>3
  <2> HIDE DEF g
  <2>5. Solvable(n + 1)
    BY <2>4
  <2> HIDE DEF Solvable
  <2> QED
    BY <2>2, <2>5
<1>3. Len(text) \in Good
  <2> HIDE DEF Good
  <2>1. Good \in SUBSET Nat
    BY DEF Good
  <2>2. Good = Nat
    BY <1>1, <1>2, <2>1, Induction
  <2> QED
    BY <2>2
<1> DEFINE rest == CHOOSE f : Solves(f, Len(text))
<1>4. Solves(rest, Len(text))
  BY <1>3
<1>5. WithoutLogin(text) = rest[Len(text)]
  BY DEF WithoutLogin
<1> HIDE DEF rest
<1>6. Len(text) \in Nat
  OBVIOUS
<1>7. \A i \in 0..Len(text) : rest[i] = Body(rest, i)
  BY <1>4
<1>8. rest[0] = <<>> /\ \A i \in 1..Len(text) :
        rest[i] = IF text[i] = "login" THEN rest[i - 1] ELSE Append(rest[i - 1], text[i])
  BY <1>6, <1>7
<1> QED
  BY <1>5, <1>8

\* For a text of any length, filter, collect and join leave every word but login
\* (without_reauthentication).
THEOREM WithoutLoginKeepsTheRest ==
  ASSUME NEW text \in Seq(STRING)
  PROVE  /\ WithoutLogin(text) \in Seq(STRING)
         /\ Range(WithoutLogin(text)) = Range(text) \ {"login"}
<1>1. PICK rest :
        /\ WithoutLogin(text) = rest[Len(text)]
        /\ rest[0] = <<>>
        /\ \A i \in 1..Len(text) :
             rest[i] = IF text[i] = "login" THEN rest[i - 1] ELSE Append(rest[i - 1], text[i])
  BY WithoutLoginRecursion
<1> DEFINE Before(i) == {text[j] : j \in 1..i} \ {"login"}
           Right(i) == rest[i] \in Seq(STRING) /\ Range(rest[i]) = Before(i)
           Good == {i \in Nat : i <= Len(text) => Right(i)}
<1>2. Len(text) \in Nat /\ DOMAIN text = 1..Len(text) /\ \A i \in 1..Len(text) : text[i] \in STRING
  OBVIOUS
<1>3. 0 \in Good
  <2>1. rest[0] \in Seq(STRING) /\ Range(rest[0]) = {}
    BY <1>1 DEF Range
  <2>2. Before(0) = {}
    OBVIOUS
  <2> QED
    BY <2>1, <2>2
<1>4. ASSUME NEW n \in Good PROVE n + 1 \in Good
  <2>1. n \in Nat /\ n + 1 \in Nat
    OBVIOUS
  <2> SUFFICES ASSUME n + 1 <= Len(text) PROVE Right(n + 1)
    BY <2>1
  <2>2. n + 1 \in 1..Len(text) /\ n + 1 - 1 = n
    BY <2>1, <1>2
  <2>3. Right(n)
    BY <2>1, <1>2
  <2>4. Before(n + 1) = Before(n) \cup ({text[n + 1]} \ {"login"})
    <3>1. 1..(n + 1) = 1..n \cup {n + 1}
      BY <2>1
    <3> QED
      BY <3>1
  <2>5. rest[n + 1] = IF text[n + 1] = "login" THEN rest[n] ELSE Append(rest[n], text[n + 1])
    BY <1>1, <2>2
  <2> HIDE DEF Before
  <2>6. CASE text[n + 1] = "login"
    BY <2>3, <2>4, <2>5, <2>6
  <2>7. CASE text[n + 1] # "login"
    <3>1. rest[n] \in Seq(STRING) /\ text[n + 1] \in STRING
      BY <2>2, <2>3, <1>2
    <3>2. /\ Append(rest[n], text[n + 1]) \in Seq(STRING)
          /\ Range(Append(rest[n], text[n + 1])) = Range(rest[n]) \cup {text[n + 1]}
      BY <3>1, AppendedRange
    <3>3. rest[n + 1] = Append(rest[n], text[n + 1])
      BY <2>5, <2>7
    <3>4. Before(n + 1) = Before(n) \cup {text[n + 1]}
      BY <2>4, <2>7
    <3> QED
      BY <3>2, <3>3, <3>4, <2>3
  <2> QED
    BY <2>6, <2>7
<1>5. Len(text) \in Good
  <2> HIDE DEF Good
  <2>1. Good \in SUBSET Nat
    BY DEF Good
  <2>2. Good = Nat
    BY <1>3, <1>4, <2>1, Induction
  <2> QED
    BY <2>2, <1>2
<1>6. Right(Len(text))
  BY <1>5, <1>2
<1>7. Before(Len(text)) = Range(text) \ {"login"}
  BY <1>2 DEF Range
<1> QED
  BY <1>1, <1>6, <1>7

\* None is none of the texts and words that are compared with it.
LEMMA NoneIsNoText ==
  /\ \A text \in Text : text # None
  /\ None # T("app") /\ None # T("S256") /\ None # "invalid_scope"
<1>1. None \notin Seq(STRING)
  BY Parameters
<1>2. None \notin {T("app"), T("S256"), "invalid_scope"}
  BY Parameters
<1> QED
  BY <1>1, <1>2 DEF Text

\* The words of a prompt without login.
LEMMA DroppedLogin ==
  ASSUME NEW text \in Text
  PROVE  /\ WithoutLogin(text) \in Seq(STRING)
         /\ Range(WithoutLogin(text)) \ {NoWord} = Words(text) \ {"login"}
<1>1. text \in Seq(STRING) /\ text # None
  BY Parameters DEF Text
<1>2. Words(text) = Range(text) \ {NoWord}
  BY <1>1 DEF Words
<1> QED
  BY <1>1, <1>2, WithoutLoginKeepsTheRest

---------------------------------------------------------------------------
(* Parsing and writing *)

Query == [Name -> Seq(Text)]

\* What a query without repetitions parses to.
Parsed == [Name -> (Text \ {Empty}) \cup {None}]

\* A sequence of one.
LEMMA OneElement ==
  ASSUME NEW S, NEW e \in S
  PROVE  <<e>> \in Seq(S) /\ <<e>> # <<>> /\ Len(<<e>>) = 1 /\ <<e>>[1] = e
<1>1. <<e>> \in Seq(S)
  OBVIOUS
<1>2. Len(<<e>>) = 1 /\ <<e>>[1] = e
  OBVIOUS
<1>3. <<e>> # <<>>
  BY <1>2, EmptySeq
<1> QED
  BY <1>1, <1>2, <1>3

\* A query without repetitions parses to texts that are not empty.
LEMMA ParsedQuery ==
  ASSUME NEW q \in Query, ~Repeats(q)
  PROVE  FromParams(q) \in Parsed
<1> SUFFICES ASSUME NEW n \in Name PROVE FromParams(q)[n] \in (Text \ {Empty}) \cup {None}
  BY DEF FromParams, Get, Parsed
<1>1. q[n] \in Seq(Text) /\ Len(q[n]) \in Nat /\ Len(q[n]) <= 1
  BY DEF Query, Repeats
<1>2. CASE q[n] \in {<<>>, <<Empty>>}
  BY <1>2 DEF FromParams, Get
<1>3. CASE q[n] \notin {<<>>, <<Empty>>}
  <2>1. Len(q[n]) = 1
    <3>1. q[n] # <<>>
      BY <1>3
    <3>2. Len(q[n]) \in Nat \ {0}
      BY <3>1, <1>1, EmptySeq
    <3> DEFINE length == Len(q[n])
    <3> HIDE DEF length
    <3>3. length \in Nat \ {0} /\ length <= 1
      BY <3>2, <1>1 DEF length
    <3>4. length = 1
      BY <3>3
    <3> QED
      BY <3>4 DEF length
  <2>2. q[n][1] \in Text /\ q[n] = <<q[n][1]>>
    BY <1>1, <2>1
  <2> QED
    BY <2>2, <1>3 DEF FromParams, Get
<1> QED
  BY <1>2, <1>3

\* A written request has no repetitions and parses to what was written.
LEMMA RoundTrip ==
  ASSUME NEW r \in Parsed, r["request"] = None, r["request_uri"] = None
  PROVE  /\ ToPairs(r) \in Query
         /\ ~Repeats(ToPairs(r))
         /\ FromParams(ToPairs(r)) = r
<1>1. \A n \in Name : r[n] = None \/ (r[n] \in Text /\ r[n] # Empty /\ r[n] # None)
  BY DEF Parsed
<1>2. \A n \in Name : ToPairs(r)[n] = IF r[n] = None THEN <<>> ELSE <<r[n]>>
  BY DEF ToPairs
<1>3. ASSUME NEW n \in Name PROVE ToPairs(r)[n] \in Seq(Text) /\ Len(ToPairs(r)[n]) <= 1
  <2>1. CASE r[n] = None
    <3>1. ToPairs(r)[n] = <<>>
      BY <1>2, <2>1
    <3>2. Len(<<>>) <= 1
      BY EmptySeq
    <3> QED
      BY <3>1, <3>2, EmptySeq
  <2>2. CASE r[n] # None
    <3>1. <<r[n]>> \in Seq(Text) /\ Len(<<r[n]>>) <= 1
      <4>1. r[n] \in Text
        BY <1>1, <2>2
      <4> QED
        BY <4>1, OneElement
    <3> QED
      BY <3>1, <1>2, <2>2
  <2> QED
    BY <2>1, <2>2
<1>4. ToPairs(r) \in Query
  BY <1>3 DEF ToPairs, Query
<1>5. ~Repeats(ToPairs(r))
  BY <1>3 DEF Repeats
<1>6. ASSUME NEW n \in Name PROVE FromParams(ToPairs(r))[n] = r[n]
  <2>1. CASE r[n] = None
    BY <1>2, <2>1 DEF FromParams, Get
  <2>2. CASE r[n] # None
    <3>1. ToPairs(r)[n] = <<r[n]>> /\ <<r[n]>> \notin {<<>>, <<Empty>>} /\ <<r[n]>>[1] = r[n]
      BY <1>1, <1>2, <2>2
    <3> QED
      BY <3>1 DEF FromParams, Get
  <2> QED
    BY <2>1, <2>2
<1>7. FromParams(ToPairs(r)) = r
  BY <1>6 DEF FromParams, Get, Parsed
<1> QED
  BY <1>4, <1>5, <1>7

\* What the return address of the sign-in page leaves out, and what it keeps.
LEMMA Reauthentication ==
  ASSUME NEW r \in Parsed
  PROVE  LET s == WithoutReauthentication(r) IN
         /\ s \in Parsed
         /\ \A n \in Name \ {"prompt", "max_age"} : s[n] = r[n]
         /\ s["max_age"] = None
         /\ Words(s["prompt"]) = Words(r["prompt"]) \ {"login"}
<1> DEFINE s == WithoutReauthentication(r)
           p == r["prompt"]
<1>1. /\ \A n \in Name \ {"prompt", "max_age"} : s[n] = r[n]
      /\ s["max_age"] = None
      /\ s["prompt"] = IF p = None \/ WithoutLogin(p) \in {<<>>, Empty} THEN None
                       ELSE WithoutLogin(p)
      /\ s = [n \in Name |-> s[n]]
  BY DEF WithoutReauthentication, Parsed, Name
<1>2. p = None \/ (p \in Text /\ p # Empty)
  BY DEF Parsed, Name
<1>3. /\ s["prompt"] \in (Text \ {Empty}) \cup {None}
      /\ Words(s["prompt"]) = Words(p) \ {"login"}
  <2>1. CASE p = None
    BY <1>1, <2>1 DEF Words
  <2>2. CASE p # None /\ WithoutLogin(p) \in {<<>>, Empty}
    <3>1. Range(WithoutLogin(p)) \ {NoWord} = {}
      <4>1. Range(<<>>) = {} /\ Range(<<NoWord>>) = {NoWord}
        BY DEF Range
      <4> QED
        BY <4>1, <2>2 DEF Empty, T
    <3>2. Words(s["prompt"]) = {}
      BY <1>1, <2>2 DEF Words
    <3> QED
      BY <3>1, <3>2, <1>1, <1>2, <2>2, DroppedLogin
  <2>3. CASE p # None /\ WithoutLogin(p) \notin {<<>>, Empty}
    <3>1. s["prompt"] = WithoutLogin(p)
      BY <1>1, <2>3
    <3>2. WithoutLogin(p) \in Text /\ WithoutLogin(p) # None
      BY <1>2, <2>3, DroppedLogin, Parameters DEF Text
    <3>3. Words(WithoutLogin(p)) = Range(WithoutLogin(p)) \ {NoWord}
      BY <3>2 DEF Words
    <3> QED
      BY <3>1, <3>2, <3>3, <1>2, <2>3, DroppedLogin
  <2> QED
    BY <2>1, <2>2, <2>3
<1> HIDE DEF s
<1>4. s \in Parsed
  <2>1. \A n \in Name : s[n] \in (Text \ {Empty}) \cup {None}
    BY <1>1, <1>3 DEF Parsed
  <2> QED
    BY <1>1, <2>1 DEF Parsed
<1> QED
  BY <1>1, <1>3, <1>4 DEF s

---------------------------------------------------------------------------
(* Validation *)

\* A query that the two endpoints accept.
Valid(q) ==
  ~Repeats(q) /\ Establishes(FromParams(q)) /\ Failed(FromParams(q)) = {}

\* The parameters that every copy of a request has in common.
Kept == Name \ {"request", "request_uri", "prompt", "max_age"}

\* What the checks that the properties speak of have found when none fails.
LEMMA PassesAll ==
  ASSUME NEW r, Failed(r) = {}
  PROVE  /\ r["request"] = None /\ r["request_uri"] = None
         /\ r["response_type"] = T("code")
         /\ r["response_mode"] \in {None, T("query")}
         /\ ScopeParses(r["scope"]) /\ Words(r["scope"]) \subseteq AllowedScopes
         /\ r["code_challenge_method"] = T("S256")
         /\ PromptParses(r["prompt"])
<1> \A check \in 1..14 : Passes(r, check)
  BY DEF Failed
<1>1. Passes(r, 1) /\ Passes(r, 2) /\ Passes(r, 4) /\ Passes(r, 5) /\ Passes(r, 7)
        /\ Passes(r, 8) /\ Passes(r, 10) /\ Passes(r, 13)
  OBVIOUS
<1> QED
  BY <1>1 DEF Passes

\* No check minds that a prompt loses words or that max_age is dropped.
LEMMA StillPasses ==
  ASSUME NEW r, NEW s, Establishes(r), Failed(r) = {},
         \A n \in Name \ {"prompt", "max_age"} : s[n] = r[n],
         s["max_age"] \in {None, r["max_age"]},
         Words(s["prompt"]) \subseteq Words(r["prompt"])
  PROVE  Establishes(s) /\ Failed(s) = {}
<1>1. Establishes(s)
  BY DEF Establishes, Name
<1>2. ASSUME NEW check \in 1..14 PROVE Passes(s, check)
  <2>1. Passes(r, check)
    BY DEF Failed
  <2>2. PromptParses(r["prompt"]) => PromptParses(s["prompt"])
    BY DEF PromptParses
  <2> QED
    BY <2>1, <2>2 DEF Passes, Name
<1> QED
  BY <1>1, <1>2 DEF Failed

\* The two ways in which a request is written out.
LEMMA WrittenForConsent ==
  ASSUME NEW q \in Query, Valid(q)
  PROVE  LET r == FromParams(q) IN
         /\ ToPairs(r) \in Query /\ Valid(ToPairs(r)) /\ FromParams(ToPairs(r)) = r
<1> DEFINE r == FromParams(q)
<1>1. r \in Parsed /\ r["request"] = None /\ r["request_uri"] = None
  BY ParsedQuery, PassesAll DEF Valid
<1>2. ToPairs(r) \in Query /\ ~Repeats(ToPairs(r)) /\ FromParams(ToPairs(r)) = r
  BY <1>1, RoundTrip
<1> QED
  BY <1>2 DEF Valid

\* The return address of the sign-in page: less of the prompt, and the rest as it was.
LEMMA WrittenForSignIn ==
  ASSUME NEW q \in Query, Valid(q)
  PROVE  LET r == FromParams(q)
             written == ToPairs(WithoutReauthentication(r)) IN
         /\ written \in Query /\ Valid(written)
         /\ \A n \in Kept : FromParams(written)[n] = r[n]
         /\ FromParams(written)["max_age"] = None
         /\ Words(FromParams(written)["prompt"]) = Words(r["prompt"]) \ {"login"}
<1> DEFINE r == FromParams(q)
           s == WithoutReauthentication(r)
<1>1. r \in Parsed /\ r["request"] = None /\ r["request_uri"] = None
  BY ParsedQuery, PassesAll DEF Valid
<1>2. /\ s \in Parsed
      /\ \A n \in Name \ {"prompt", "max_age"} : s[n] = r[n]
      /\ s["max_age"] = None
      /\ Words(s["prompt"]) = Words(r["prompt"]) \ {"login"}
  BY <1>1, Reauthentication
<1> HIDE DEF r, s
<1>3. s["request"] = None /\ s["request_uri"] = None
  BY <1>1, <1>2 DEF Name
<1>4. ToPairs(s) \in Query /\ ~Repeats(ToPairs(s)) /\ FromParams(ToPairs(s)) = s
  BY <1>2, <1>3, RoundTrip
<1>5. Establishes(r) /\ Failed(r) = {}
  BY DEF Valid, r
<1>6. Establishes(s) /\ Failed(s) = {}
  BY <1>2, <1>5, StillPasses
<1>7. Valid(ToPairs(s))
  BY <1>4, <1>6 DEF Valid
<1> QED
  BY <1>2, <1>4, <1>7 DEF r, s, Kept

---------------------------------------------------------------------------
(* The flow: an inductive invariant *)

\* A query that can only lead to a sign-in, a consent page or a code.
Settled(q) ==
  Valid(q) /\ "none" \notin Words(FromParams(q)["prompt"])
           /\ "login" \notin Words(FromParams(q)["prompt"])

FlowType ==
  /\ asked \in Query /\ query \in Query
  /\ at \in {"authorize", "signin", "consent", "done"}
  /\ lost \in Nat /\ signIns \in Nat

\* Every copy of the request says what the app said.
NothingIsAltered ==
  \A n \in Kept : FromParams(query)[n] = FromParams(asked)[n]

\* A page is shown only for a request that was validated, and so is its copy.
PagesAreForValidRequests ==
  at \in {"signin", "consent"} \/ signIns > 0 => Valid(asked) /\ Settled(query)

\* A sign-in page is open only for a session that was missing or was lost, and the
\* flow comes back from it with a new one.
SignInsHaveReasons ==
  /\ signIns <= 1 + lost
  /\ at = "signin" \/ (at = "consent" /\ session = "none") => signIns <= lost
  /\ at = "authorize" =>
       (signIns = 0 /\ query = asked) \/ (signIns > 0 /\ session = "fresh")

\* What the app is told: to whom, about what, and why not.
Fits(result) ==
  LET sent == FromParams(asked) IN
  /\ result.to # None =>
       /\ ~Repeats(asked) /\ Establishes(sent)
       /\ result.to = sent["redirect_uri"] /\ result.state = sent["state"]
  /\ result.kind = "code" => Valid(asked) /\ result.grant = Grant(sent)
  /\ Valid(asked) =>
       /\ result.kind # "page"
       /\ result.error \in {None, "login_required", "consent_required", "access_denied"}

FlowInv ==
  /\ FlowType
  /\ NothingIsAltered
  /\ PagesAreForValidRequests
  /\ SignInsHaveReasons
  /\ at # "done" => outcome = Open
  /\ Fits(outcome)

\* At first there is one copy, the query itself.
LEMMA InitialFlow == Init => FlowInv
<1> SUFFICES ASSUME Init PROVE FlowInv
  OBVIOUS
<1>1. asked \in Query
  <2>1. PICK d \in Deviation, e \in Deviation :
          asked = [Usual EXCEPT ![d[1]] = d[2], ![e[1]] = e[2]]
    BY DEF Init
  <2>2. /\ Usual \in Query /\ d[1] \in Name /\ d[2] \in Seq(Text)
        /\ e[1] \in Name /\ e[2] \in Seq(Text)
    BY Parameters DEF IsQuery, Query
  <2> QED
    BY <2>1, <2>2 DEF Query
<1>2. query = asked /\ at = "authorize" /\ lost = 0 /\ signIns = 0 /\ outcome = Open
  BY DEF Init
<1>3. Fits(Open)
  BY DEF Fits, Open
<1> QED
  BY <1>1, <1>2, <1>3 DEF FlowInv, FlowType, NothingIsAltered, PagesAreForValidRequests,
                          SignInsHaveReasons

\* The fields of the answers.
LEMMA AnswerFields ==
  ASSUME NEW r, NEW code
  PROVE  /\ Open.kind = "open" /\ Open.to = None /\ Open.error = None
         /\ ErrorPage.kind = "page" /\ ErrorPage.to = None /\ ErrorPage.error = None
         /\ ErrorRedirect(r, code).kind = "error" /\ ErrorRedirect(r, code).error = code
         /\ ErrorRedirect(r, code).to = r["redirect_uri"]
         /\ ErrorRedirect(r, code).state = r["state"]
         /\ CodeRedirect(r).kind = "code" /\ CodeRedirect(r).error = None
         /\ CodeRedirect(r).to = r["redirect_uri"] /\ CodeRedirect(r).state = r["state"]
         /\ CodeRedirect(r).grant = Grant(r)
BY DEF Open, ErrorPage, ErrorRedirect, CodeRedirect

\* A flow that ends with a fitting answer.
LEMMA Ending ==
  ASSUME FlowInv, NEW result, End(result), Fits(result)
  PROVE  FlowInv'
<1>1. /\ at' = "done" /\ outcome' = result /\ asked' = asked /\ query' = query
      /\ lost' = lost /\ signIns' = signIns /\ session' = session
  BY DEF End
<1>2. Fits(outcome)'
  BY <1>1 DEF Fits
<1> QED
  BY <1>1, <1>2 DEF FlowInv, FlowType, NothingIsAltered, PagesAreForValidRequests,
                    SignInsHaveReasons

\* Answers about a copy are answers about what the app sent.
LEMMA CarriedAnswers ==
  ASSUME FlowInv
  PROVE  LET r == FromParams(query)
             sent == FromParams(asked) IN
         /\ r["redirect_uri"] = sent["redirect_uri"] /\ r["state"] = sent["state"]
         /\ r["client_id"] = sent["client_id"]
         /\ Grant(r) = Grant(sent)
BY DEF FlowInv, NothingIsAltered, Kept, Name, Grant

\* A request that is refused is the one the app sent, before any page was shown.
LEMMA Rejection ==
  ASSUME FlowInv, at \in {"authorize", "consent"}, Reject(FromParams(query))
  PROVE  FlowInv' /\ at = "authorize" /\ signIns = 0
<1> DEFINE r == FromParams(query)
<1>1. ~Valid(query)
  BY DEF Reject, Valid
<1>2. at = "authorize" /\ signIns = 0 /\ query = asked /\ ~Valid(asked)
  BY <1>1 DEF FlowInv, FlowType, PagesAreForValidRequests, SignInsHaveReasons, Settled
<1>3. CASE End(ErrorPage)
  <2>1. Fits(ErrorPage)
    BY <1>2, AnswerFields DEF Fits
  <2> QED
    BY <1>2, <1>3, <2>1, Ending
<1>4. CASE ~Repeats(query) /\ Establishes(r) /\ End(ErrorRedirect(r, CheckError(r)))
  <2>1. Fits(ErrorRedirect(r, CheckError(r)))
    BY <1>2, <1>4, AnswerFields DEF Fits
  <2> QED
    BY <1>2, <1>4, <2>1, Ending
<1> QED
  BY <1>3, <1>4 DEF Reject

\* The answer to a request that was accepted.
LEMMA AcceptedAnswers ==
  ASSUME FlowInv, at \in {"authorize", "consent"}, Accepts(FromParams(query)),
         NEW code \in {"login_required", "consent_required", "access_denied"}
  PROVE  /\ Valid(asked) /\ Valid(query)
         /\ Fits(ErrorRedirect(FromParams(query), code))
         /\ Fits(CodeRedirect(FromParams(query)))
<1> DEFINE r == FromParams(query)
<1>1. Valid(query)
  BY DEF Accepts, Valid
<1>2. Valid(asked)
  BY <1>1 DEF FlowInv, FlowType, PagesAreForValidRequests, SignInsHaveReasons
<1>3. ~Repeats(asked) /\ Establishes(FromParams(asked))
  BY <1>2 DEF Valid
<1>4. Fits(ErrorRedirect(r, code))
  BY <1>2, <1>3, CarriedAnswers, AnswerFields DEF Fits
<1>5. Fits(CodeRedirect(r))
  BY <1>2, <1>3, CarriedAnswers, AnswerFields DEF Fits
<1> QED
  BY <1>1, <1>2, <1>4, <1>5

\* The three ways to a page.
LEMMA ToTheSignInPage ==
  ASSUME FlowInv, at = "authorize", Accepts(FromParams(query)), ~SignedIn(FromParams(query)),
         "none" \notin Words(FromParams(query)["prompt"]),
         Show("signin", WithoutReauthentication(FromParams(query)))
  PROVE  FlowInv'
<1> DEFINE r == FromParams(query)
           written == ToPairs(WithoutReauthentication(r))
<1>1. Valid(asked) /\ Valid(query) /\ query \in Query
  BY AcceptedAnswers DEF FlowInv, FlowType
<1>2. /\ at' = "signin" /\ query' = written /\ asked' = asked /\ outcome' = outcome
      /\ lost' = lost /\ signIns' = signIns /\ session' = session
  BY DEF Show
<1>3. signIns = 0
  BY DEF FlowInv, PagesAreForValidRequests, SignInsHaveReasons, Settled, SignedIn
<1>4. /\ written \in Query /\ Valid(written)
      /\ \A n \in Kept : FromParams(written)[n] = r[n]
      /\ Words(FromParams(written)["prompt"]) = Words(r["prompt"]) \ {"login"}
  BY <1>1, WrittenForSignIn
<1> HIDE DEF written
<1>5. FlowType'
  BY <1>2, <1>4 DEF FlowInv, FlowType
<1>6. NothingIsAltered'
  BY <1>2, <1>4 DEF FlowInv, NothingIsAltered
<1>7. Settled(written)
  BY <1>4 DEF Settled
<1>8. PagesAreForValidRequests'
  BY <1>1, <1>2, <1>7 DEF PagesAreForValidRequests
<1>9. SignInsHaveReasons'
  BY <1>2, <1>3 DEF FlowInv, FlowType, SignInsHaveReasons
<1>10. outcome' = Open /\ Fits(outcome)'
  BY <1>2 DEF FlowInv, Fits
<1> QED
  BY <1>2, <1>5, <1>6, <1>8, <1>9, <1>10 DEF FlowInv

\* The hidden fields of the consent page, and the sign-in page that a lost session leads to.
LEMMA WrittenUnchanged ==
  ASSUME FlowInv, NEW page \in {"signin", "consent"}, at # "done",
         Valid(asked), Settled(query), Show(page, FromParams(query)),
         page = "signin" => signIns <= lost, page = "consent" => session # "none"
  PROVE  FlowInv'
<1> DEFINE r == FromParams(query)
<1>1. query \in Query /\ Valid(query)
  BY DEF FlowInv, FlowType, Settled
<1>2. /\ at' = page /\ query' = ToPairs(r) /\ asked' = asked /\ outcome' = outcome
      /\ lost' = lost /\ signIns' = signIns /\ session' = session
  BY DEF Show
<1>3. ToPairs(r) \in Query /\ Valid(ToPairs(r)) /\ FromParams(ToPairs(r)) = r
  BY <1>1, WrittenForConsent
<1>4. FlowType'
  BY <1>2, <1>3 DEF FlowInv, FlowType
<1>5. NothingIsAltered'
  BY <1>2, <1>3 DEF FlowInv, NothingIsAltered
<1>6. Settled(ToPairs(r))
  BY <1>3 DEF Settled
<1>7. PagesAreForValidRequests'
  BY <1>2, <1>6 DEF PagesAreForValidRequests
<1>8. SignInsHaveReasons'
  BY <1>2 DEF FlowInv, FlowType, SignInsHaveReasons
<1>9. outcome' = Open /\ Fits(outcome)'
  BY <1>2 DEF FlowInv, Fits
<1> QED
  BY <1>2, <1>4, <1>5, <1>7, <1>8, <1>9 DEF FlowInv

\* What the user may still hear of once a page was shown.
OnlyTheUserRefuses ==
  (at = "consent" \/ signIns > 0) /\ outcome' # outcome =>
    outcome'.kind = "code" \/ outcome'.error = "access_denied"

\* authorize: only here may the server refuse, and only before the first page.
LEMMA AuthorizeStep ==
  ASSUME FlowInv, Authorize
  PROVE  FlowInv' /\ OnlyTheUserRefuses
<1> DEFINE r == FromParams(query)
<1>1. at = "authorize" /\ Decide(r)
  BY DEF Authorize
<1>2. signIns > 0 => SignedIn(r) /\ "none" \notin Words(r["prompt"])
  BY <1>1 DEF FlowInv, FlowType, PagesAreForValidRequests, SignInsHaveReasons, Settled, SignedIn
<1>3. CASE Reject(r)
  BY <1>1, <1>3, Rejection DEF FlowInv, FlowType, OnlyTheUserRefuses
<1>4. CASE /\ Accepts(r) /\ "none" \in Words(r["prompt"])
           /\ \/ End(ErrorRedirect(r, "login_required")) /\ ~SignedIn(r)
              \/ End(ErrorRedirect(r, "consent_required"))
  <2>1. FlowInv'
    BY <1>1, <1>4, AcceptedAnswers, Ending
  <2>2. ~(signIns > 0)
    BY <1>2, <1>4
  <2> QED
    BY <1>1, <2>1, <2>2 DEF OnlyTheUserRefuses
<1>5. CASE /\ Accepts(r) /\ ~SignedIn(r) /\ "none" \notin Words(r["prompt"])
           /\ Show("signin", WithoutReauthentication(r))
  <2>1. outcome' = outcome
    BY <1>5 DEF Show
  <2> QED
    BY <1>1, <1>5, <2>1, ToTheSignInPage DEF OnlyTheUserRefuses
<1>6. CASE Accepts(r) /\ End(CodeRedirect(r))
  <2>1. FlowInv'
    BY <1>1, <1>6, AcceptedAnswers, Ending
  <2>2. outcome' = CodeRedirect(r)
    BY <1>6 DEF End
  <2> QED
    BY <2>1, <2>2, AnswerFields DEF OnlyTheUserRefuses
<1>7. CASE Accepts(r) /\ SignedIn(r) /\ "none" \notin Words(r["prompt"]) /\ Show("consent", r)
  <2>1. Valid(asked) /\ Settled(query) /\ session # "none"
    BY <1>1, <1>7, AcceptedAnswers DEF Settled, SignedIn
  <2>2. outcome' = outcome
    BY <1>7 DEF Show
  <2> QED
    BY <1>1, <1>7, <2>1, <2>2, WrittenUnchanged DEF OnlyTheUserRefuses
<1> QED
  BY <1>1, <1>3, <1>4, <1>5, <1>6, <1>7 DEF Decide

\* consent: what the hidden fields carry is accepted again.
LEMMA ConsentStep ==
  ASSUME FlowInv, Consent
  PROVE  FlowInv' /\ OnlyTheUserRefuses
<1> DEFINE r == FromParams(query)
<1>1. at = "consent" /\ Valid(asked) /\ Settled(query)
  BY DEF Consent, FlowInv, PagesAreForValidRequests
<1>2. CASE session = "none"
  <2>1. Show("signin", r) /\ signIns <= lost
    BY <1>1, <1>2 DEF Consent, FlowInv, SignInsHaveReasons
  <2>2. outcome' = outcome
    BY <2>1 DEF Show
  <2> QED
    BY <1>1, <2>1, <2>2, WrittenUnchanged DEF OnlyTheUserRefuses
<1>3. CASE session # "none" /\ Accepts(r) /\ End(ErrorRedirect(r, "access_denied"))
  <2>1. FlowInv'
    BY <1>1, <1>3, AcceptedAnswers, Ending
  <2>2. outcome' = ErrorRedirect(r, "access_denied")
    BY <1>3 DEF End
  <2> QED
    BY <2>1, <2>2, AnswerFields DEF OnlyTheUserRefuses
<1>4. CASE session # "none" /\ Accepts(r) /\ End(CodeRedirect(r))
  <2>1. FlowInv'
    BY <1>1, <1>4, AcceptedAnswers, Ending
  <2>2. outcome' = CodeRedirect(r)
    BY <1>4 DEF End
  <2> QED
    BY <2>1, <2>2, AnswerFields DEF OnlyTheUserRefuses
<1>5. CASE session # "none" /\ Reject(r)
  BY <1>1, <1>5, Rejection
<1> QED
  BY <1>2, <1>3, <1>4, <1>5 DEF Consent, CompleteConsent

\* A sign-in changes nothing but the session.
LEMMA SignInStep ==
  ASSUME FlowInv, SignIn
  PROVE  FlowInv' /\ OnlyTheUserRefuses
<1>1. /\ at = "signin" /\ at' = "authorize" /\ session' = "fresh" /\ signIns' = signIns + 1
      /\ asked' = asked /\ query' = query /\ lost' = lost /\ outcome' = outcome
  BY DEF SignIn
<1>2. FlowType' /\ SignInsHaveReasons'
  BY <1>1 DEF FlowInv, FlowType, SignInsHaveReasons
<1>3. NothingIsAltered' /\ PagesAreForValidRequests' /\ Fits(outcome)' /\ outcome' = Open
  BY <1>1 DEF FlowInv, NothingIsAltered, PagesAreForValidRequests, Fits
<1> QED
  BY <1>1, <1>2, <1>3 DEF FlowInv, OnlyTheUserRefuses

\* Each lost session pays for one more sign-in.
LEMMA LoseSessionStep ==
  ASSUME FlowInv, LoseSession
  PROVE  FlowInv' /\ OnlyTheUserRefuses
<1>1. /\ at = "consent" /\ at' = at /\ lost' = lost + 1 /\ signIns' = signIns
      /\ asked' = asked /\ query' = query /\ outcome' = outcome
  BY DEF LoseSession
<1>2. FlowType' /\ SignInsHaveReasons'
  BY <1>1 DEF FlowInv, FlowType, SignInsHaveReasons
<1>3. NothingIsAltered' /\ PagesAreForValidRequests' /\ Fits(outcome)' /\ outcome' = Open
  BY <1>1 DEF FlowInv, NothingIsAltered, PagesAreForValidRequests, Fits
<1> QED
  BY <1>1, <1>2, <1>3 DEF FlowInv, OnlyTheUserRefuses

\* Every step keeps the invariant, and refuses only for the user once a page was shown.
LEMMA FlowStep ==
  FlowInv /\ [Next]_vars => FlowInv' /\ (OnlyTheUserRefuses \/ UNCHANGED vars)
<1> SUFFICES ASSUME FlowInv, [Next]_vars PROVE FlowInv' /\ (OnlyTheUserRefuses \/ UNCHANGED vars)
  OBVIOUS
<1>1. CASE UNCHANGED vars
  BY <1>1 DEF vars, FlowInv, FlowType, NothingIsAltered, PagesAreForValidRequests,
              SignInsHaveReasons, Fits
<1> QED
  BY <1>1, AuthorizeStep, ConsentStep, SignInStep, LoseSessionStep DEF Next

\* Every copy of the request says what the app said, and one that was shown validates
\* again (to_pairs, without_reauthentication, validate).
THEOREM FlowInvariance == Spec => []FlowInv
<1>1. FlowInv /\ [Next]_vars => FlowInv'
  BY FlowStep
<1> QED
  BY InitialFlow, <1>1, PTL DEF Spec

\* OnlyTheUserCanStillRefuse: once a page was shown, nothing is left for the server
\* to refuse (authorize, complete_consent).
THEOREM ServerHasDecided == Spec => OnlyTheUserCanStillRefuse
<1>1. FlowInv /\ [Next]_vars =>
        [(at = "consent" \/ signIns > 0) /\ outcome' # outcome =>
           outcome'.kind = "code" \/ outcome'.error = "access_denied"]_vars
  BY FlowStep DEF OnlyTheUserRefuses
<1> QED
  BY <1>1, FlowInvariance, PTL DEF Spec, OnlyTheUserCanStillRefuse

\* SignInIsAskedOnce: one sign-in, and one more for each session that was lost while
\* the consent page was open (without_reauthentication, needs_reauthentication).
THEOREM OneSignIn == Spec => []SignInIsAskedOnce
<1>1. FlowInv => SignInIsAskedOnce
  BY DEF FlowInv, SignInsHaveReasons, SignInIsAskedOnce
<1> QED
  BY <1>1, FlowInvariance, PTL

\* The reference reading of the first query is what the parser makes of it.
LEMMA WroteIsParsed ==
  ASSUME asked \in Query, NEW n \in Name
  PROVE  Wrote(n) = FromParams(asked)[n]
<1>1. asked[n] \in Seq(Text)
  BY DEF Query
<1>2. asked[n] # <<>> => Head(asked[n]) = asked[n][1]
  BY <1>1
<1> QED
  BY <1>2 DEF Wrote, FromParams, Get

\* What a query without repetitions gives for a parameter is all it gives.
LEMMA OnlyValue ==
  ASSUME asked \in Query, ~Repeats(asked), NEW n \in Name, FromParams(asked)[n] # None
  PROVE  asked[n] = <<FromParams(asked)[n]>>
<1>1. asked[n] \in Seq(Text) /\ Len(asked[n]) \in Nat /\ Len(asked[n]) <= 1
  BY DEF Query, Repeats
<1>2. asked[n] # <<>> /\ FromParams(asked)[n] = asked[n][1]
  BY DEF FromParams, Get
<1>3. Len(asked[n]) \in Nat \ {0}
  BY <1>1, <1>2, EmptySeq
<1> DEFINE length == Len(asked[n])
<1> HIDE DEF length
<1>4. length \in Nat \ {0} /\ length <= 1
  BY <1>1, <1>3 DEF length
<1>5. length = 1
  BY <1>4
<1>6. Len(asked[n]) = 1
  BY <1>5 DEF length
<1>7. asked[n] = <<asked[n][1]>>
  BY <1>1, <1>6
<1> QED
  BY <1>2, <1>7

\* AnswersAreAddressed: the browser is sent only where the app named and an active
\* client has registered, with the state of the request (phase 1 of validate).
THEOREM AnswersGoToTheApp == Spec => []AnswersAreAddressed
<1>1. FlowInv => AnswersAreAddressed
  <2> SUFFICES ASSUME FlowInv, outcome.to # None
               PROVE  /\ asked["client_id"] = <<T("app")>>
                      /\ outcome.to \in RedirectUris /\ asked["redirect_uri"] = <<outcome.to>>
                      /\ outcome.state = Wrote("state")
    BY DEF AnswersAreAddressed
  <2> DEFINE sent == FromParams(asked)
  <2>1. /\ asked \in Query /\ ~Repeats(asked) /\ Establishes(sent)
        /\ outcome.to = sent["redirect_uri"] /\ outcome.state = sent["state"]
    BY DEF FlowInv, FlowType, Fits
  <2>2. sent["client_id"] = T("app") /\ sent["redirect_uri"] \in RedirectUris
    BY <2>1 DEF Establishes, IsActive
  <2>3. T("app") # None
    BY NoneIsNoText
  <2>4. {"client_id", "redirect_uri", "state"} \subseteq Name
    BY DEF Name
  <2>5. asked["client_id"] = <<T("app")>>
    BY <2>1, <2>2, <2>3, <2>4, OnlyValue
  <2>6. asked["redirect_uri"] = <<outcome.to>>
    BY <2>1, <2>4, OnlyValue
  <2>7. outcome.state = Wrote("state")
    BY <2>1, <2>4, WroteIsParsed
  <2> QED
    BY <2>1, <2>2, <2>5, <2>6, <2>7
<1> QED
  BY <1>1, FlowInvariance, PTL

---------------------------------------------------------------------------
(* The token and userinfo responses: an inductive invariant *)

\* Nothing was asked for before there was a code.
NoCodeNoRequest ==
  outcome.kind # "code" =>
    kept = None /\ proof = None /\ hand = None /\ reply = NoReply

\* A refresh token has every scope that was granted, and exists only for offline_access.
KeptScopes ==
  kept # None => kept = WroteScopes /\ "offline_access" \in WroteScopes

ProofFits ==
  /\ proof.redirect_uri = outcome.grant.redirect_uri
  /\ proof.verifier # T("short")
  /\ S256Challenge(proof.verifier) = outcome.grant.code_challenge

\* A response is about the grant, with the scopes its request named.
HandFits ==
  LET scopes == hand.access_token.scope IN
  /\ hand.access_token.client_id = outcome.grant.client_id
  /\ scopes = IF hand.named = None THEN WroteScopes ELSE Range(hand.named) \ {NoWord}
  /\ scopes \subseteq WroteScopes
  /\ hand.id_token # None <=> "openid" \in scopes
  /\ hand.refresh_token <=> "offline_access" \in WroteScopes
  /\ hand.id_token # None =>
       /\ hand.id_token.typ = "JWT" /\ hand.id_token.aud = outcome.grant.client_id
       /\ hand.id_token.nonce =
            IF hand.grant_type = "authorization_code" THEN outcome.grant.nonce ELSE None

ReplyFits ==
  /\ reply.kind = "claims" =>
       /\ hand # None /\ "openid" \in hand.access_token.scope
       /\ \E hasName \in BOOLEAN : reply.claims = ClaimsFor(hasName, hand.access_token.scope)
  /\ reply.kind # "claims" => reply.claims = {}
  /\ reply.error = "invalid_scope" =>
       LET scopes == Range(reply.scope) \ {NoWord} IN
       scopes = {} \/ ~(scopes \subseteq WroteScopes)

ResponsesInv ==
  /\ NoCodeNoRequest
  /\ KeptScopes
  /\ hand # None \/ kept # None => ProofFits
  /\ hand # None => HandFits
  /\ ReplyFits

\* What a code is for.
LEMMA CodeFacts ==
  ASSUME FlowInv, outcome.kind = "code"
  PROVE  /\ at = "done" /\ Valid(asked)
         /\ outcome.grant.client_id = Wrote("client_id") /\ Wrote("client_id") = T("app")
         /\ outcome.grant.redirect_uri = Wrote("redirect_uri")
         /\ outcome.grant.code_challenge = Wrote("code_challenge")
         /\ outcome.grant.nonce = Wrote("nonce") /\ Wrote("nonce") \in Text \cup {None}
         /\ outcome.grant.scope = WroteScopes
         /\ WroteScopes = Words(Wrote("scope")) /\ ScopeParses(Wrote("scope"))
<1> DEFINE sent == FromParams(asked)
<1>1. at = "done"
  BY AnswerFields DEF FlowInv, FlowType
<1>2. Valid(asked) /\ outcome.grant = Grant(sent) /\ asked \in Query
  BY DEF FlowInv, FlowType, Fits
<1>3. \A n \in Name : Wrote(n) = sent[n]
  BY <1>2, WroteIsParsed
<1>4. {"client_id", "redirect_uri", "code_challenge", "nonce", "scope"} \subseteq Name
  BY DEF Name
<1>5. /\ Grant(sent).client_id = Wrote("client_id")
      /\ Grant(sent).redirect_uri = Wrote("redirect_uri")
      /\ Grant(sent).code_challenge = Wrote("code_challenge")
      /\ Grant(sent).nonce = Wrote("nonce")
      /\ Grant(sent).scope = Words(Wrote("scope"))
  BY <1>3, <1>4 DEF Grant
<1>6. Wrote("client_id") = T("app")
  BY <1>2, <1>3, <1>4 DEF Valid, Establishes, IsActive
<1>7. ScopeParses(Wrote("scope"))
  BY <1>2, <1>3, <1>4, PassesAll DEF Valid
<1>8. Words(Wrote("scope")) # {}
  BY <1>7 DEF ScopeParses
<1>9. Words(Wrote("scope")) = WroteScopes
  BY <1>8 DEF Words, WroteScopes
<1>10. Wrote("nonce") \in Text \cup {None}
  <2>1. sent \in Parsed
    BY <1>2, ParsedQuery DEF Valid
  <2>2. sent["nonce"] \in (Text \ {Empty}) \cup {None}
    BY <2>1, <1>4 DEF Parsed
  <2> QED
    BY <2>2, <1>3, <1>4
<1> QED
  BY <1>1, <1>2, <1>5, <1>6, <1>7, <1>9, <1>10

\* The flow is over when there is a code.
LEMMA CodeEndsTheFlow ==
  ASSUME FlowInv, Next
  PROVE  outcome.kind # "code" /\ asked' = asked
<1>1. at # "done" /\ asked' = asked
  BY DEF Next, Authorize, Decide, Reject, End, Show, SignIn, Consent, CompleteConsent, LoseSession
<1> QED
  BY <1>1, AnswerFields DEF FlowInv

\* The app begins with nothing.
LEMMA InitialResponses == Init /\ ResponsesInit => ResponsesInv
<1> SUFFICES ASSUME Init, ResponsesInit PROVE ResponsesInv
  OBVIOUS
<1>1. kept = None /\ proof = None /\ hand = None /\ reply = NoReply
  BY DEF ResponsesInit
<1>2. reply.kind = "none" /\ reply.error = None /\ reply.claims = {}
  BY <1>1 DEF NoReply
<1>3. None # "invalid_scope"
  BY NoneIsNoText
<1> QED
  BY <1>1, <1>2, <1>3 DEF ResponsesInv, NoCodeNoRequest, KeptScopes, ReplyFits

\* A refused request changes nothing but the reply, and may end the refresh token.
LEMMA RefusalKeeps ==
  ASSUME ResponsesInv, outcome.kind = "code", UNCHANGED vars, UNCHANGED <<proof, hand>>,
         kept' \in {kept, None}, NEW error, NEW scope,
         Refuse(error, scope),
         error = "invalid_scope" =>
           LET scopes == Range(scope) \ {NoWord} IN
           scopes = {} \/ ~(scopes \subseteq WroteScopes)
  PROVE  ResponsesInv'
<1>1. outcome' = outcome /\ asked' = asked /\ proof' = proof /\ hand' = hand
  BY DEF vars
<1>2. reply'.kind = "error" /\ reply'.error = error /\ reply'.scope = scope /\ reply'.claims = {}
  BY DEF Refuse, NoReply
<1>3. WroteScopes' = WroteScopes
  BY <1>1 DEF WroteScopes, Wrote
<1>4. ReplyFits'
  BY <1>1, <1>2, <1>3 DEF ReplyFits
<1>5. NoCodeNoRequest'
  BY <1>1 DEF NoCodeNoRequest
<1>6. KeptScopes'
  BY <1>3 DEF ResponsesInv, KeptScopes
<1>7. (hand # None \/ kept # None => ProofFits)'
  BY <1>1 DEF ResponsesInv, ProofFits
<1>8. (hand # None => HandFits)'
  BY <1>1, <1>3 DEF ResponsesInv, HandFits
<1> QED
  BY <1>4, <1>5, <1>6, <1>7, <1>8 DEF ResponsesInv

\* Tokens that are signed and delivered for the grant.
LEMMA DeliveryFits ==
  ASSUME FlowInv, outcome.kind = "code", UNCHANGED vars,
         NEW grant_type, NEW named, NEW scopes, NEW nonce,
         hand'.grant_type = grant_type, hand'.named = named,
         hand'.access_token =
           SignedTokens(outcome.grant.client_id, scopes, nonce).access_token,
         hand'.id_token = SignedTokens(outcome.grant.client_id, scopes, nonce).id_token,
         hand'.refresh_token <=> "offline_access" \in WroteScopes,
         reply' = [NoReply EXCEPT !.kind = "tokens"],
         named = None => scopes = WroteScopes,
         named # None => scopes = Range(named) \ {NoWord},
         scopes \subseteq WroteScopes,
         grant_type = "authorization_code" => nonce = outcome.grant.nonce,
         grant_type # "authorization_code" => nonce = None
  PROVE  HandFits' /\ ReplyFits' /\ NoCodeNoRequest'
<1> DEFINE client_id == outcome.grant.client_id
           token == [typ |-> "JWT", aud |-> client_id, nonce |-> nonce]
<1>1. outcome' = outcome /\ asked' = asked
  BY DEF vars
<1>2. WroteScopes' = WroteScopes
  BY <1>1 DEF WroteScopes, Wrote
<1>3. client_id \in Text /\ nonce \in Text \cup {None}
  <2>1. asked \in Query /\ ~Repeats(asked) /\ Valid(asked)
    BY CodeFacts DEF FlowInv, FlowType, Valid
  <2>2. client_id = FromParams(asked)["client_id"] /\ client_id # None
    <3>1. client_id = Wrote("client_id") /\ client_id = T("app")
      BY CodeFacts
    <3> QED
      BY <2>1, <3>1, NoneIsNoText, WroteIsParsed DEF Name
  <2>3. FromParams(asked) \in Parsed
    BY <2>1, ParsedQuery
  <2>4. FromParams(asked)["client_id"] \in (Text \ {Empty}) \cup {None}
    BY <2>3 DEF Parsed, Name
  <2>5. client_id \in Text
    BY <2>2, <2>4
  <2> QED
    BY <2>5, CodeFacts
<1>4. token # None
  BY <1>3, ResponseParameters
<1>5. /\ hand'.grant_type = grant_type /\ hand'.named = named
      /\ hand'.access_token.client_id = client_id /\ hand'.access_token.scope = scopes
      /\ hand'.id_token = IF "openid" \in scopes THEN token ELSE None
  BY DEF SignedTokens
<1>6. hand'.refresh_token <=> "offline_access" \in WroteScopes
  OBVIOUS
<1>7. reply'.kind = "tokens" /\ reply'.error = None /\ reply'.claims = {}
  BY DEF NoReply
<1>8. token.typ = "JWT" /\ token.aud = client_id /\ token.nonce = nonce
  OBVIOUS
<1> HIDE DEF token
<1>9. HandFits'
  <2>1. hand'.id_token # None <=> "openid" \in scopes
    BY <1>4, <1>5
  <2>2. hand'.id_token # None =>
          /\ hand'.id_token.typ = "JWT" /\ hand'.id_token.aud = client_id
          /\ hand'.id_token.nonce = nonce
    BY <1>5, <1>8
  <2>3. hand'.refresh_token <=> "offline_access" \in WroteScopes
    BY <1>6
  <2> QED
    BY <1>1, <1>2, <1>5, <2>1, <2>2, <2>3 DEF HandFits
<1>10. ReplyFits'
  BY <1>7, NoneIsNoText DEF ReplyFits
<1>11. NoCodeNoRequest'
  BY <1>1 DEF NoCodeNoRequest
<1> QED
  BY <1>9, <1>10, <1>11

\* Tokens for a code are for its grant; a refusal takes a refresh token at most.
LEMMA RedeemStep ==
  ASSUME FlowInv, ResponsesInv, outcome.kind = "code", UNCHANGED vars,
         NEW redirect_uri, NEW verifier, Redeem(redirect_uri, verifier)
  PROVE  ResponsesInv'
<1> DEFINE grant == outcome.grant
           offline == "offline_access" \in grant.scope
<1>1. CASE \/ Refuse("invalid_request", None) /\ UNCHANGED <<codeRow, kept, proof, hand>>
           \/ Refuse("invalid_grant", None) /\ kept' = None /\ UNCHANGED <<proof, hand>>
           \/ Refuse("invalid_grant", None) /\ UNCHANGED <<kept, proof, hand>>
  BY <1>1, RefusalKeeps
<1>2. CASE /\ BindingsHold(redirect_uri, verifier)
           /\ proof' = [redirect_uri |-> redirect_uri, verifier |-> verifier]
           /\ kept' = IF offline THEN grant.scope ELSE None
           /\ Deliver("authorization_code", None,
                      SignedTokens(grant.client_id, grant.scope, grant.nonce), offline)
  <2>1. grant.scope = WroteScopes /\ outcome' = outcome /\ asked' = asked
    BY CodeFacts DEF vars
  <2>2. HandFits' /\ ReplyFits' /\ NoCodeNoRequest'
    <3> DEFINE signed == SignedTokens(grant.client_id, grant.scope, grant.nonce)
    <3>1. /\ hand'.grant_type = "authorization_code" /\ hand'.named = None
          /\ hand'.access_token = signed.access_token /\ hand'.id_token = signed.id_token
      BY <1>2 DEF Deliver
    <3>2. hand'.refresh_token <=> "offline_access" \in WroteScopes
      BY <1>2, <2>1 DEF Deliver
    <3>3. reply' = [NoReply EXCEPT !.kind = "tokens"]
      BY <1>2 DEF Deliver
    <3> HIDE DEF grant
    <3> QED
      BY <2>1, <3>1, <3>2, <3>3, DeliveryFits DEF grant
  <2>3. ProofFits'
    BY <1>2, <2>1 DEF ProofFits, BindingsHold, IsValidVerifier
  <2>4. WroteScopes' = WroteScopes
    BY <2>1 DEF WroteScopes, Wrote
  <2>5. KeptScopes'
    BY <1>2, <2>1, <2>4 DEF KeptScopes
  <2> QED
    BY <2>2, <2>3, <2>5 DEF ResponsesInv
<1> QED
  BY <1>1, <1>2 DEF Redeem

\* Tokens for a refresh token have the scopes the request names, and it keeps its own.
LEMMA RefreshStep ==
  ASSUME FlowInv, ResponsesInv, outcome.kind = "code", UNCHANGED vars,
         NEW presented, NEW named, Refresh(presented, named)
  PROVE  ResponsesInv'
<1> DEFINE scopes == IF named = None THEN kept ELSE Words(named)
<1>1. CASE Refuse("invalid_request", None) /\ UNCHANGED <<codeRow, kept, proof, hand>>
  BY <1>1, RefusalKeeps
<1>2. CASE Refuse("invalid_grant", None) /\ UNCHANGED <<codeRow, kept, proof, hand>>
  BY <1>2, RefusalKeeps
<1>3. CASE /\ named # None /\ ~ScopeParses(named)
           /\ Refuse("invalid_scope", named) /\ UNCHANGED <<codeRow, kept, proof, hand>>
  <2>1. WroteScopes = Words(Wrote("scope")) /\ ScopeParses(Wrote("scope"))
    BY CodeFacts
  <2>2. Words(named) = {} \/ ~(Words(named) \subseteq WroteScopes)
    BY <1>3, <2>1, Zenon DEF ScopeParses
  <2>3. Words(named) = Range(named) \ {NoWord}
    BY <1>3 DEF Words
  <2>4. LET words == Range(named) \ {NoWord} IN words = {} \/ ~(words \subseteq WroteScopes)
    BY <2>2, <2>3
  <2> QED
    BY <1>3, <2>4, RefusalKeeps
<1>4. CASE /\ kept # None /\ ~(scopes \subseteq kept)
           /\ Refuse("invalid_scope", named) /\ UNCHANGED <<codeRow, kept, proof, hand>>
  <2>1. named # None /\ kept = WroteScopes
    BY <1>4 DEF ResponsesInv, KeptScopes
  <2>2. scopes = Range(named) \ {NoWord}
    BY <2>1 DEF Words
  <2>3. LET words == Range(named) \ {NoWord} IN words = {} \/ ~(words \subseteq WroteScopes)
    BY <1>4, <2>1, <2>2
  <2> QED
    BY <1>4, <2>3, RefusalKeeps
<1>5. CASE /\ kept # None /\ scopes \subseteq kept
           /\ kept' = KeepTheOriginal(kept, scopes)
           /\ Deliver("refresh_token", named,
                      SignedTokens(outcome.grant.client_id, scopes, None), TRUE)
           /\ UNCHANGED <<codeRow, proof>>
  <2>1. kept = WroteScopes /\ "offline_access" \in WroteScopes /\ ProofFits
    BY <1>5 DEF ResponsesInv, KeptScopes
  <2>2. /\ named = None => scopes = WroteScopes
        /\ named # None => scopes = Range(named) \ {NoWord}
    BY <2>1 DEF Words
  <2>3. HandFits' /\ ReplyFits' /\ NoCodeNoRequest'
    <3>1. scopes \subseteq WroteScopes
      BY <1>5, <2>1
    <3> DEFINE signed == SignedTokens(outcome.grant.client_id, scopes, None)
    <3>2. /\ hand'.grant_type = "refresh_token" /\ hand'.named = named
          /\ hand'.access_token = signed.access_token /\ hand'.id_token = signed.id_token
      BY <1>5 DEF Deliver
    <3>3. hand'.refresh_token <=> "offline_access" \in WroteScopes
      BY <1>5, <2>1 DEF Deliver
    <3>4. reply' = [NoReply EXCEPT !.kind = "tokens"]
      BY <1>5 DEF Deliver
    <3> QED
      BY <2>2, <3>1, <3>2, <3>3, <3>4, DeliveryFits
  <2>4. WroteScopes' = WroteScopes /\ outcome' = outcome /\ proof' = proof /\ kept' = kept
    BY <1>5 DEF WroteScopes, Wrote, vars, KeepTheOriginal
  <2>5. ProofFits' /\ KeptScopes'
    BY <2>1, <2>4 DEF ProofFits, KeptScopes
  <2> QED
    BY <2>3, <2>5 DEF ResponsesInv
<1> QED
  BY <1>1, <1>2, <1>3, <1>4, <1>5 DEF Refresh

\* Claims follow the scopes of the access token, which no ID token passes for.
LEMMA UserInfoStep ==
  ASSUME FlowInv, ResponsesInv, outcome.kind = "code", UNCHANGED vars, hand # None,
         NEW bearer \in {None, hand.access_token, hand.id_token}, UserInfo(bearer)
  PROVE  ResponsesInv'
<1>1. proof' = proof /\ hand' = hand /\ kept' = kept
  BY DEF UserInfo
<1>2. CASE Refuse("unauthorized", None)
  BY <1>1, <1>2, RefusalKeeps
<1>3. CASE Refuse("invalid_token", None)
  BY <1>1, <1>3, RefusalKeeps
<1>4. CASE Refuse("insufficient_scope", None)
  BY <1>1, <1>4, RefusalKeeps
<1>5. CASE /\ bearer # None /\ Verified(bearer) /\ "openid" \in bearer.scope
           /\ \E hasName \in BOOLEAN :
                reply' = [NoReply EXCEPT !.kind = "claims",
                                         !.claims = ClaimsFor(hasName, bearer.scope)]
  <2>1. bearer = hand.access_token
    BY <1>5 DEF ResponsesInv, HandFits, Verified
  <2>2. reply'.kind = "claims" /\ reply'.error = None
    BY <1>5 DEF NoReply
  <2>3. \E hasName \in BOOLEAN : reply'.claims = ClaimsFor(hasName, bearer.scope)
    BY <1>5 DEF NoReply
  <2>4. None # "invalid_scope"
    BY NoneIsNoText
  <2>5. ReplyFits'
    BY <1>1, <1>5, <2>1, <2>2, <2>3, <2>4 DEF ReplyFits
  <2>6. outcome' = outcome /\ asked' = asked
    BY DEF vars
  <2>7. WroteScopes' = WroteScopes
    BY <2>6 DEF WroteScopes, Wrote
  <2>8. NoCodeNoRequest' /\ KeptScopes'
    BY <1>1, <2>6, <2>7 DEF ResponsesInv, NoCodeNoRequest, KeptScopes
  <2>9. (hand # None \/ kept # None => ProofFits)'
    BY <1>1, <2>6 DEF ResponsesInv, ProofFits
  <2>10. (hand # None => HandFits)'
    BY <1>1, <2>6, <2>7 DEF ResponsesInv, HandFits
  <2> QED
    BY <2>5, <2>8, <2>9, <2>10 DEF ResponsesInv
<1> QED
  BY <1>2, <1>3, <1>4, <1>5 DEF UserInfo

\* Every step of the flow or of the app keeps both invariants.
LEMMA ResponsesStep ==
  FlowInv /\ ResponsesInv /\ [ResponsesNext]_<<vars, responseVars>> => FlowInv' /\ ResponsesInv'
<1> SUFFICES ASSUME FlowInv, ResponsesInv, [ResponsesNext]_<<vars, responseVars>>
             PROVE  FlowInv' /\ ResponsesInv'
  OBVIOUS
<1>1. [Next]_vars
  BY DEF ResponsesNext, AppCalls
<1>2. FlowInv'
  BY <1>1, FlowStep
<1>3. CASE AppCalls
  <2>1. outcome.kind = "code" /\ UNCHANGED vars
    BY <1>3 DEF AppCalls
  <2> QED
    BY <1>2, <1>3, <2>1, RedeemStep, RefreshStep, UserInfoStep DEF AppCalls
<1>4. CASE Next /\ UNCHANGED responseVars
  <2>1. outcome.kind # "code" /\ asked' = asked
    BY <1>4, CodeEndsTheFlow
  <2>2. kept = None /\ proof = None /\ hand = None /\ reply = NoReply
    BY <2>1 DEF ResponsesInv, NoCodeNoRequest
  <2>3. kept' = None /\ proof' = None /\ hand' = None /\ reply' = NoReply
    BY <1>4, <2>2 DEF responseVars
  <2>4. ReplyFits'
    <3>1. reply'.kind = "none" /\ reply'.error = None /\ reply'.claims = {}
      BY <2>3 DEF NoReply
    <3>2. None # "invalid_scope"
      BY NoneIsNoText
    <3> QED
      BY <3>1, <3>2 DEF ReplyFits
  <2>5. NoCodeNoRequest' /\ KeptScopes'
    BY <2>3 DEF NoCodeNoRequest, KeptScopes
  <2> QED
    BY <1>2, <2>3, <2>4, <2>5 DEF ResponsesInv
<1>5. CASE UNCHANGED <<vars, responseVars>>
  <2>1. /\ outcome' = outcome /\ asked' = asked
        /\ kept' = kept /\ proof' = proof /\ hand' = hand /\ reply' = reply
    BY <1>5 DEF vars, responseVars
  <2>2. WroteScopes' = WroteScopes
    BY <2>1 DEF WroteScopes, Wrote
  <2> QED
    BY <1>2, <2>1, <2>2 DEF ResponsesInv, NoCodeNoRequest, KeptScopes, ProofFits, HandFits,
                            ReplyFits
<1> QED
  BY <1>3, <1>4, <1>5 DEF ResponsesNext

\* What the app holds fits the grant of its code, which fits the request it sent
\* (issue_code, signed_tokens, exchange_refresh_token).
THEOREM ResponsesInvariance == ResponsesSpec => [](FlowInv /\ ResponsesInv)
BY InitialFlow, InitialResponses, ResponsesStep, PTL DEF ResponsesSpec

\* TokensAreForTheRequest: tokens go to the client, the redirect URI and the verifier
\* that the app had in mind, with its nonce (exchange_authorization_code).
THEOREM TokensForTheRequest == ResponsesSpec => []TokensAreForTheRequest
<1>1. FlowInv /\ ResponsesInv => TokensAreForTheRequest
  <2> SUFFICES ASSUME FlowInv, ResponsesInv, hand # None
               PROVE  /\ \A n \in Name : Len(asked[n]) <= 1
                      /\ hand.access_token.client_id = Wrote("client_id")
                      /\ proof.redirect_uri = Wrote("redirect_uri")
                      /\ S256Challenge(proof.verifier) = Wrote("code_challenge")
                      /\ proof.verifier # T("short")
                      /\ hand.id_token # None =>
                           /\ hand.id_token.aud = Wrote("client_id")
                           /\ hand.id_token.nonce =
                                IF hand.grant_type = "authorization_code"
                                THEN Wrote("nonce") ELSE None
    BY DEF TokensAreForTheRequest
  <2>1. outcome.kind = "code" /\ ProofFits /\ HandFits
    BY DEF ResponsesInv, NoCodeNoRequest
  <2>2. asked \in Query /\ ~Repeats(asked)
    BY <2>1, CodeFacts DEF FlowInv, FlowType, Valid
  <2>3. \A n \in Name : Len(asked[n]) <= 1
    BY <2>2 DEF Query, Repeats
  <2> QED
    BY <2>1, <2>3, CodeFacts DEF ProofFits, HandFits
<1> QED
  BY <1>1, ResponsesInvariance, PTL

\* The claims follow the scopes.
LEMMA ClaimsFollowScopes ==
  ASSUME NEW scopes, NEW hasName \in BOOLEAN
  PROVE  LET claims == ClaimsFor(hasName, scopes) IN
         /\ claims \cap {"email", "email_verified"} # {} <=> "email" \in scopes
         /\ claims \cap {"name", "updated_at"} # {} <=> "profile" \in scopes
         /\ claims \subseteq ClaimsSupported
BY DEF ClaimsFor, ClaimsSupported

\* ScopesAreAsNamed: the scopes of a response are those its request named, or all that
\* were granted, and decide what comes with it (exchange_refresh_token, scope.rs).
THEOREM NamedScopes == ResponsesSpec => []ScopesAreAsNamed
<1>1. FlowInv /\ ResponsesInv => ScopesAreAsNamed
  <2> SUFFICES ASSUME FlowInv, ResponsesInv PROVE ScopesAreAsNamed
    OBVIOUS
  <2>1. reply.error = "invalid_scope" =>
          LET scopes == Range(reply.scope) \ {NoWord} IN
          scopes = {} \/ ~(scopes \subseteq WroteScopes)
    BY DEF ResponsesInv, ReplyFits
  <2>2. ASSUME hand # None, reply.kind = "claims"
        PROVE  LET scopes == hand.access_token.scope IN
               /\ "openid" \in scopes
               /\ reply.claims \cap {"email", "email_verified"} # {} <=> "email" \in scopes
               /\ reply.claims \cap {"name", "updated_at"} # {} <=> "profile" \in scopes
    <3>1. PICK hasName \in BOOLEAN : reply.claims = ClaimsFor(hasName, hand.access_token.scope)
      BY <2>2 DEF ResponsesInv, ReplyFits
    <3>2. "openid" \in hand.access_token.scope
      BY <2>2 DEF ResponsesInv, ReplyFits
    <3> QED
      BY <3>1, <3>2, ClaimsFollowScopes
  <2>3. hand # None => HandFits
    BY DEF ResponsesInv
  <2> QED
    BY <2>1, <2>2, <2>3 DEF ScopesAreAsNamed, HandFits
<1> QED
  BY <1>1, ResponsesInvariance, PTL

---------------------------------------------------------------------------
(* Discovery *)

Says(n) == IF asked[n] = <<>> THEN {} ELSE Range(Head(asked[n])) \ {NoWord}

AsAnnounced ==
  \A n \in Name :
    IF n \in DOMAIN Metadata
    THEN /\ Len(asked[n]) <= 1
         /\ n \notin {"scope", "prompt"} /\ asked[n] # <<>> => Len(Head(asked[n])) = 1
         /\ Says(n) \subseteq Metadata[n]
         /\ Says(n) = {} => Usual[n] = <<>>
    ELSE asked[n] = Usual[n]

\* What the app says word by word is what the parser reads.
LEMMA SaidIsParsed ==
  ASSUME asked \in Query, NEW n \in Name
  PROVE  Says(n) = Words(FromParams(asked)[n])
<1>1. asked[n] \in Seq(Text)
  BY DEF Query
<1>2. CASE asked[n] = <<>>
  BY <1>2 DEF Says, Words, FromParams, Get
<1>3. CASE asked[n] = <<Empty>> /\ asked[n] # <<>>
  <2>1. Head(asked[n]) = Empty /\ FromParams(asked)[n] = None
    <3>1. \A text : Head(<<text>>) = text
      OBVIOUS
    <3>2. asked[n] \in {<<>>, <<Empty>>}
      BY <1>3
    <3> QED
      BY <1>3, <3>1, <3>2 DEF FromParams, Get
  <2>2. Range(<<NoWord>>) = {NoWord}
    BY DEF Range
  <2> QED
    BY <2>1, <2>2, <1>3 DEF Says, Words, Empty, T
<1>4. CASE asked[n] \notin {<<>>, <<Empty>>}
  <2>1. Head(asked[n]) = asked[n][1] /\ FromParams(asked)[n] = asked[n][1]
    BY <1>1, <1>4 DEF FromParams, Get
  <2>2. asked[n][1] \in Text
    BY <1>1, <1>4
  <2>3. asked[n][1] # None
    BY <2>2, NoneIsNoText
  <2> QED
    BY <2>1, <2>3, <1>4 DEF Says, Words
<1> QED
  BY <1>2, <1>3, <1>4

\* A parameter with one word is that word, or missing.
LEMMA OneWord ==
  ASSUME asked \in Query, NEW n \in Name, NEW word, Says(n) \subseteq {word},
         Len(asked[n]) <= 1, asked[n] # <<>> => Len(Head(asked[n])) = 1
  PROVE  FromParams(asked)[n] = IF Says(n) = {} THEN None ELSE T(word)
<1>1. asked[n] \in Seq(Text)
  BY DEF Query
<1>2. CASE asked[n] = <<>>
  BY <1>2 DEF Says, FromParams, Get
<1>3. CASE asked[n] # <<>>
  <2> DEFINE text == asked[n][1]
  <2>1. Head(asked[n]) = text /\ text \in Seq(STRING) /\ Len(text) = 1
    BY <1>1, <1>3 DEF Text
  <2>2. text = <<text[1]>> /\ Range(text) = {text[1]}
    BY <2>1 DEF Range
  <2>3. Says(n) = {text[1]} \ {NoWord}
    BY <1>3, <2>1, <2>2 DEF Says
  <2>4. CASE text[1] = NoWord
    <3>1. text = Empty /\ Says(n) = {}
      BY <2>2, <2>3, <2>4 DEF Empty, T
    <3>2. asked[n] = <<Empty>>
      <4> DEFINE length == Len(asked[n])
      <4>1. length \in Nat \ {0} /\ length <= 1
        BY <1>1, <1>3, EmptySeq
      <4> HIDE DEF length
      <4>2. length = 1
        BY <4>1
      <4>3. asked[n] = <<asked[n][1]>>
        BY <4>2, <1>1 DEF length
      <4> QED
        BY <4>3, <3>1
    <3> QED
      BY <3>1, <3>2 DEF FromParams, Get
  <2>5. CASE text[1] # NoWord
    <3>1. Says(n) # {} /\ text[1] = word
      BY <2>3, <2>5
    <3>2. text = T(word) /\ text # Empty
      BY <2>2, <2>5, <3>1 DEF T, Empty
    <3>3. FromParams(asked)[n] = text
      BY <1>3, <3>2 DEF FromParams, Get
    <3> QED
      BY <3>1, <3>2, <3>3
  <2> QED
    BY <2>4, <2>5
<1> QED
  BY <1>2, <1>3

\* A request as announced is one that both endpoints accept.
LEMMA AnnouncedIsValid ==
  ASSUME asked \in Query, AsAnnounced, "none" \in Says("prompt") => Says("prompt") = {"none"}
  PROVE  Valid(asked)
<1> DEFINE r == FromParams(asked)
           u == FromParams(Usual)
<1>1. Usual \in Query /\ ~Repeats(Usual) /\ Establishes(u) /\ Failed(u) = {}
  BY Parameters, UsualIsAccepted DEF IsQuery, Query
<1>2. \A n \in Name \ DOMAIN Metadata : asked[n] = Usual[n] /\ r[n] = u[n]
  BY DEF AsAnnounced, FromParams, Get
<1>3. DOMAIN Metadata = {"response_type", "response_mode", "code_challenge_method", "scope",
                         "prompt", "request", "request_uri"}
  BY DEF Metadata
<1>4. ~Repeats(asked)
  BY <1>1, <1>2 DEF AsAnnounced, Repeats
<1>5. Establishes(r)
  BY <1>1, <1>2, <1>3 DEF Establishes, Name
<1>6. \A n \in Name \cap DOMAIN Metadata :
        /\ Says(n) = Words(r[n]) /\ Says(n) \subseteq Metadata[n]
        /\ Says(n) = {} => Usual[n] = <<>> /\ u[n] = None
  BY SaidIsParsed DEF AsAnnounced, FromParams, Get
<1>7. \A n \in {"request", "request_uri", "response_type", "response_mode",
                 "code_challenge_method"} :
        n \in Name /\ Len(asked[n]) <= 1 /\ (asked[n] # <<>> => Len(Head(asked[n])) = 1)
  BY <1>3 DEF AsAnnounced, Name
<1>8. r["request"] = None /\ r["request_uri"] = None
  <2>1. Says("request") = {} /\ Says("request_uri") = {}
    BY <1>3, <1>6 DEF Metadata, Name
  <2> QED
    BY <1>7, <2>1, OneWord
<1>9. r["response_type"] = T("code") /\ r["response_type"] # None
  <2>1. Passes(u, 3)
    BY <1>1 DEF Failed
  <2>2. Passes(u, 4)
    BY <1>1 DEF Failed
  <2>3. u["response_type"] = T("code") /\ u["response_type"] # None
    BY <2>1, <2>2 DEF Passes
  <2>4. Says("response_type") \subseteq {"code"} /\ Says("response_type") # {}
    BY <1>3, <1>6, <2>3 DEF Metadata, Name
  <2> QED
    BY <1>7, <2>3, <2>4, OneWord
<1>10. r["response_mode"] \in {None, T("query")}
  <2>1. Says("response_mode") \subseteq {"query"}
    BY <1>3, <1>6 DEF Metadata, Name
  <2> QED
    BY <1>7, <2>1, OneWord
<1>11. r["code_challenge_method"] = T("S256")
  <2>1. u["code_challenge_method"] # None
    BY <1>1, NoneIsNoText, PassesAll
  <2>2. Says("code_challenge_method") \subseteq {"S256"} /\ Says("code_challenge_method") # {}
    BY <1>3, <1>6, <2>1 DEF Metadata, Name
  <2> QED
    BY <1>7, <2>2, OneWord
<1>12. ScopeParses(r["scope"]) /\ Words(r["scope"]) \subseteq AllowedScopes
  <2>1. Words(u["scope"]) # {}
    BY <1>1, PassesAll, Zenon DEF ScopeParses
  <2>2. u["scope"] # None
    BY <2>1 DEF Words
  <2>3. Words(r["scope"]) \subseteq {"openid", "profile", "email", "offline_access"}
    BY <1>3, <1>6 DEF Metadata, Name
  <2>4. Words(r["scope"]) # {}
    BY <1>3, <1>6, <2>2 DEF Name
  <2>5. "not\"allowed" \notin {"openid", "profile", "email", "offline_access"}
    BY Zenon
  <2> QED
    BY <2>3, <2>4, <2>5, Zenon DEF ScopeParses, AllowedScopes
<1>13. PromptParses(r["prompt"])
  <2>1. "prompt" \in Name \cap DOMAIN Metadata
    BY <1>3 DEF Name
  <2>2. Words(r["prompt"]) \subseteq {"none", "login", "consent", "select_account"}
    BY <1>6, <2>1 DEF Metadata
  <2>3. "none" \in Words(r["prompt"]) => Words(r["prompt"]) = {"none"}
    BY <1>6, <2>1
  <2> QED
    BY <2>2, <2>3 DEF PromptParses
<1>14. ASSUME NEW check \in 1..14 PROVE Passes(r, check)
  <2>1. Passes(u, check)
    BY <1>1 DEF Failed
  <2>2. /\ r["state"] = u["state"] /\ r["code_challenge"] = u["code_challenge"]
        /\ r["nonce"] = u["nonce"] /\ r["max_age"] = u["max_age"]
    BY <1>2, <1>3 DEF Name
  <2> HIDE DEF r, u
  <2> QED
    BY <1>8, <1>9, <1>10, <1>11, <1>12, <1>13, <2>1, <2>2 DEF Passes
<1> QED
  BY <1>4, <1>5, <1>14 DEF Valid, Failed

\* PromisesAreKept: a request as the discovery document has it is refused only for want
\* of a sign-in or an approval, and nothing else is granted or told (discovery.rs).
THEOREM PromisesKept == ResponsesSpec => []PromisesAreKept
<1>1. FlowInv /\ ResponsesInv => PromisesAreKept
  <2> SUFFICES ASSUME FlowInv, ResponsesInv PROVE PromisesAreKept
    OBVIOUS
  <2>1. asked \in Query
    BY DEF FlowInv, FlowType
  <2>2. ASSUME AsAnnounced, "none" \in Says("prompt") => Says("prompt") = {"none"}
        PROVE  /\ outcome.kind # "page"
               /\ outcome.error \in {None, "login_required", "consent_required", "access_denied"}
    BY <2>1, <2>2, AnnouncedIsValid DEF FlowInv, Fits
  <2>3. ASSUME outcome.kind = "code", NEW n \in DOMAIN Metadata
        PROVE  Says(n) \subseteq Metadata[n]
    <3> DEFINE r == FromParams(asked)
    <3>1. Failed(r) = {}
      BY <2>3, CodeFacts DEF Valid
    <3>2. n \in Name /\ Says(n) = Words(r[n])
      BY <2>1, SaidIsParsed DEF Metadata, Name
    <3>3. Words(None) = {} /\ \A word : T(word) # None => Words(T(word)) \subseteq {word}
      BY DEF Words, T, Range
    <3>4. Words(r["prompt"]) \subseteq {"none", "login", "consent", "select_account"}
      BY <3>1, PassesAll DEF PromptParses
    <3>5. /\ r["request"] = None /\ r["request_uri"] = None /\ r["response_type"] = T("code")
          /\ r["response_mode"] \in {None, T("query")}
          /\ Words(r["scope"]) \subseteq AllowedScopes /\ r["code_challenge_method"] = T("S256")
      BY <3>1, PassesAll
    <3> HIDE DEF r
    <3>6. \A word : Words(T(word)) \subseteq {word}
      BY <3>3 DEF Words
    <3> QED
      BY <3>2, <3>3, <3>4, <3>5, <3>6 DEF Metadata, AllowedScopes
  <2>4. reply.claims \subseteq ClaimsSupported
    <3>1. CASE reply.kind = "claims"
      BY <3>1, ClaimsFollowScopes DEF ResponsesInv, ReplyFits
    <3>2. CASE reply.kind # "claims"
      BY <3>2 DEF ResponsesInv, ReplyFits
    <3> QED
      BY <3>1, <3>2
  <2> QED
    BY <2>2, <2>3, <2>4 DEF PromisesAreKept, AsAnnounced, Says
<1> QED
  BY <1>1, ResponsesInvariance, PTL
=============================================================================
