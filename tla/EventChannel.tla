---------------------------- MODULE EventChannel ----------------------------
(***************************************************************************)
(* What the event stream of a device promises its callers: an unordered    *)
(* channel.  An accepted event waits in pending; while the stream is open, *)
(* one waiting event at a time is given to the transport, each at most     *)
(* once.  When the transport reports a failure the channel is closed for   *)
(* good and whatever still waits may be dropped.                           *)
(***************************************************************************)
EXTENDS Naturals, Sequences

CONSTANT Events

VARIABLES
    pending,    \* accepted, not yet given to the transport
    sent,       \* given to the transport, in that order
    busy,       \* the transport has not answered for the last one
    open        \* the transport has not failed

vars == <<pending, sent, busy, open>>

Init ==
    /\ pending = {}
    /\ sent = <<>>
    /\ busy = FALSE
    /\ open = TRUE

Post(e) ==
    /\ \A i \in 1..Len(sent) : sent[i] # e
    /\ pending' = pending \cup {e}
    /\ UNCHANGED <<sent, busy, open>>

Hand(e) ==
    /\ open
    /\ ~busy
    /\ e \in pending
    /\ pending' = pending \ {e}
    /\ sent' = Append(sent, e)
    /\ busy' = TRUE
    /\ UNCHANGED open

Acknowledge ==
    /\ busy
    /\ busy' = FALSE
    /\ UNCHANGED <<pending, sent, open>>

Close ==
    /\ busy
    /\ busy' = FALSE
    /\ open' = FALSE
    /\ UNCHANGED <<pending, sent>>

Drop ==
    /\ ~open
    /\ pending' \in SUBSET pending
    /\ UNCHANGED <<sent, busy, open>>

Next ==
    \/ \E e \in Events : Post(e) \/ Hand(e)
    \/ Acknowledge \/ Close \/ Drop

Spec == Init /\ [][Next]_vars

=============================================================================
