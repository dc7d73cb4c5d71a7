--------------------------- MODULE MCUserStorage ---------------------------
(* Model-checking instances of UserStorage.                                *)
EXTENDS UserStorage, TLC

CONSTANTS h1, h2, u1, u2, a1, a2, c1, c2, c3

(* Two RPC threads race each other and the completion-queue thread.        *)
MCHandlers == {h1, h2}
MCOneHandler == {h1}

(* Two users, so that a post walks over several and an app id can be known *)
(* for both.                                                               *)
MCUsers == {u1, u2}
MCOneUser == {u1}

MCApps == {a1, a2}
MCOneApp == {a1}

(* A stream, its reconnection and, with three, one more of either app.     *)
MCTwoCalls == {c1, c2}
MCThreeCalls == {c1, c2, c3}

(* Handlers, users, apps and calls are interchangeable.                    *)
MCSymmetry == Permutations(Handlers) \cup Permutations(Users)
              \cup Permutations(Apps) \cup Permutations(Calls)

=============================================================================
