-------------------------- MODULE MCTokenEndpoint --------------------------
(* Small instances of TokenEndpoint for TLC. *)
EXTENDS TokenEndpoint, TLC

\* Requests, clients, codes and ids are interchangeable: none is ever named.
HandlerSymmetry ==
  Permutations(Request) \cup Permutations(Client) \cup Permutations(Code)

Symmetry == HandlerSymmetry \cup Permutations(Token)

---------------------------------------------------------------------------
(* Three handlers and a family of three, with ids that are numbers.  Drawing   *)
(* them in ascending order is their symmetry, at less cost than permuting them. *)

Drawn == {t \in Token : ~Unissued(t)}

LowestIdsFirst ==
  \A t \in Drawn' \ Drawn : \A u \in Token : u < t => u \in Drawn

\* Bound: while three handlers are at work, one id of the family is still free.
ThreeHandlersOrThreeTokens ==
  (\E p \in Request : pc[p] = "idle") \/ Drawn # Token

\* Bound: one row expires.  The expiry of a claimed code refuses nothing more.
OneRowExpires == Cardinality(expired) <= 1

FamilyNext ==
  Next /\ LowestIdsFirst /\ (ThreeHandlersOrThreeTokens /\ OneRowExpires)'

FamilySpec == Init /\ [][FamilyNext]_vars

===========================================================================
