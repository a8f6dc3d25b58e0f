----------------------------- MODULE MCAccounts -----------------------------
(* Two tabs of one browser, one mailbox. *)
EXTENDS Accounts

CONSTANTS b1, a1, p1, p2

OneBrowser(t) == b1

Fields(to, spelling, password, fits) ==
  [to |-> to, email |-> [address |-> a1, spelling |-> spelling],
   password |-> password, fits |-> fits]

\* Two sign-ups for the mailbox and one that is refused; a sign-in that is right
\* for one of the accounts and wrong for the other, and one for no address.
MixedForms ==
  {Fields("signup", "plain", p1, TRUE), Fields("signup", "other", p2, TRUE),
   Fields("signup", "plain", p2, FALSE), Fields("signin", "other", p1, TRUE),
   Fields("signin", "broken", p2, TRUE)}
=============================================================================
