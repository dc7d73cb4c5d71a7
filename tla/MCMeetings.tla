----------------------------- MODULE MCMeetings -----------------------------
(* Model-checking instance of Meetings.                                    *)
EXTENDS Meetings, TLC

CONSTANTS h1, h2, u1, u2, m1, m2, t1, t2

(* Two handlers: a sender against a joining user, a scan against AddMarker.*)
MCHandlers == {h1, h2}

MCUsers == {u1, u2}
MCOneUser == {u1}

(* One marker complete while the other is half added.                      *)
MCMarkers == {m1, m2}
MCOneMarker == {m1}

MCMessages == {t1, t2}
MCNoMessages == {}

MCSymmetry == Permutations(Handlers) \cup Permutations(Users)
              \cup Permutations(Markers) \cup Permutations(Messages)

=============================================================================
