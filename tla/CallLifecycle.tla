---------------------------- MODULE CallLifecycle ----------------------------
(***************************************************************************)
(* What the registry promises about the SubscribeToEvents calls: each one  *)
(* waits in gRPC, is taken by the server, is parked under its app id, is   *)
(* attached to one user, and ends.  It never goes back, never changes      *)
(* hands, and once parked it stays until it is attached.                   *)
(***************************************************************************)
CONSTANTS Calls, Users, NoUser

VARIABLES
    place,  \* "new", "waiting", "taken", "parked", "attached" or "ended"
    user    \* whom each call is attached to

Init ==
    /\ place = [c \in Calls |-> "new"]
    /\ user = [c \in Calls |-> NoUser]

Move(c, from, to) ==
    /\ place[c] = from
    /\ place' = [place EXCEPT ![c] = to]
    /\ UNCHANGED user

Attach(c, u) ==
    /\ place[c] = "parked"
    /\ user' = [user EXCEPT ![c] = u]
    /\ place' = [place EXCEPT ![c] = "attached"]

(* Its client left, or has subscribed again.                               *)
Leave(c) ==
    /\ user[c] # NoUser
    /\ user' = [user EXCEPT ![c] = NoUser]
    /\ place' = [place EXCEPT ![c] = "ended"]

(* The log-off of a user ends all calls attached to it.                    *)
End(u) ==
    /\ \E c \in Calls : user[c] = u
    /\ user' = [c \in Calls |-> IF user[c] = u THEN NoUser ELSE user[c]]
    /\ place' = [c \in Calls |-> IF user[c] = u THEN "ended" ELSE place[c]]

Next ==
    \/ \E c \in Calls :
          \/ Move(c, "new", "waiting")
          \/ Move(c, "waiting", "taken")
          \/ Move(c, "taken", "parked")
          \/ Move(c, "taken", "ended")
          \/ \E u \in Users : Attach(c, u)
          \/ Leave(c)
    \/ \E u \in Users : End(u)

Spec == Init /\ [][Next]_<<place, user>>

=============================================================================
