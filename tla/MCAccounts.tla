----------------------------- MODULE MCAccounts -----------------------------
(* Model-checking instance of Accounts.                                    *)
EXTENDS Accounts, TLC

CONSTANTS h1, h2, u1, a1, a2, d1, d2, d3

(* Two logins at once, of the same user from the same or another device.   *)
MCHandlers == {h1, h2}
MCOneUser == {u1}
MCApps == {a1, a2}

(* One document more than the overlapping first logins of a user make.     *)
MCDocs == {d1, d2, d3}

MCSymmetry == Permutations(Handlers) \cup Permutations(Users)
              \cup Permutations(Apps) \cup Permutations(Docs)

=============================================================================
