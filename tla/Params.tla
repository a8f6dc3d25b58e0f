------------------------------- MODULE Params -------------------------------
(***************************************************************************)
(* Query and form parameters, as both the authorization endpoint and the   *)
(* endpoints for clients read them: a list of texts for each name.         *)
(* Percent-encoding is undone on the way in and is no part of it.          *)
(***************************************************************************)
EXTENDS Sequences

CONSTANT None  \* no value

\* A text is the sequence of its words, what split(' ') gives: the empty text is one
\* empty word, a space is two.
Text == Seq(STRING) \ {<<>>}
T(word) == <<word>>
NoWord == ""
Empty == T(NoWord)

\* get, take: a parameter without a value is a missing one.
Get(values) == IF values \in {<<>>, <<Empty>>} THEN None ELSE values[1]
=============================================================================
