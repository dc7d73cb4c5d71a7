------------------------------ MODULE MCMailer ------------------------------
(* Model-checking instance of Mailer.                                      *)
EXTENDS Mailer, TLC

CONSTANTS h1, h2, e1, e2

(* Two requests that overlap, for the same or for different addresses.     *)
MCHandlers == {h1, h2}
MCEmails == {e1, e2}

(* Few enough for a token to be drawn again.                               *)
MCTokens == {<<0, 0, 0, 0, 0>>, <<8, 1, 5, 3, 0>>}

MCSymmetry == Permutations(Handlers) \cup Permutations(Emails)

=============================================================================
