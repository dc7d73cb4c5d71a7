--------------------------- MODULE MCUserInstance ---------------------------
(* Model-checking instance of UserInstance.                                *)
EXTENDS UserInstance

CONSTANTS s1, s2, e1, e2, e3, e4

(* Two RPC threads, so that one can wait for m_instances_mutex while the   *)
(* other is inside SendEvent.                                              *)
MCSenders == {s1, s2}

(* Four events: one being written, one queued, and two that come later,    *)
(* enough for an event to be overtaken twice.                              *)
MCEvents == {e1, e2, e3, e4}

=============================================================================
