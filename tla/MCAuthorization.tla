-------------------------- MODULE MCAuthorization --------------------------
(* Small instances of Authorization for TLC. *)
EXTENDS Authorization, TLC

CONSTANTS app, a, b, browser

OneBrowser(t) == browser

Ask(S, P, m) == [client |-> app, scope |-> S, prompt |-> P, max_age |-> m, via |-> "app"]

\* One request of each kind that takes a path of its own.
MixedAsks ==
  {Ask({a}, {"login"}, TRUE), Ask({a}, {}, TRUE), Ask({a, b}, {"consent"}, FALSE),
   Ask({b}, {"none"}, FALSE)}

\* Requests for different scopes, as of two features of one application.
TwoAsks == {Ask({a}, {}, FALSE), Ask({b}, {}, FALSE)}

Symmetry == Permutations(User) \cup Permutations(Session) \cup Permutations(Tab)

===========================================================================
