--------------------------- MODULE MCAccessTokens ---------------------------
(* Small instances of AccessTokens, and so of TokenEndpoint, for TLC. *)
EXTENDS AccessTokens, TLC

\* Handlers, clients and ids are interchangeable: none is ever named.
Symmetry == Permutations(Request) \cup Permutations(Client) \cup Permutations(Token)

=============================================================================
