---------------------------- MODULE UserInstance ----------------------------
(***************************************************************************)
(* The event stream of one subscribed device (core/UserInstance.cpp).      *)
(*                                                                         *)
(* RPC handler threads push events with SendEvent, always from             *)
(* User::PostEvent or User::PostEventToInstance and so with the user's     *)
(* m_instances_mutex held.  The single completion-queue thread of          *)
(* MainEndpointImpl runs OnAsyncEventFinished or OnFinished when the       *)
(* gRPC writer reports the end of a Write.  The two sides share an atomic  *)
(* m_state and a queue m_events; only the queue is protected by m_mtx.     *)
(* Every access to an atomic, and every critical section that can be       *)
(* waited for, is a step of its own.                                       *)
(***************************************************************************)
EXTENDS Naturals, Sequences, FiniteSets

CONSTANTS
    Senders,    \* RPC handler threads that post events to this instance
    Events,     \* the events; each is posted at most once
    CqThread,   \* the thread of MainEndpointImpl::m_event_senders
    NoThread,   \* "nobody holds the mutex"
    NoEvent     \* "no event in hand"

ASSUME ThreadsAssumption ==
    /\ CqThread \notin Senders
    /\ NoThread \notin Senders \cup {CqThread}

ASSUME EventsAssumption == NoEvent \notin Events

VARIABLES
    m_state,            \* UserInstance::m_state, std::atomic<state>
    m_events,           \* UserInstance::m_events, std::queue<event_ptr>
    m_mtx,              \* holder of UserInstance::m_mtx
    m_instances_mutex,  \* holder of the owning User::m_instances_mutex
    erased,             \* the instance was destroyed by the log-off callback
    pc,                 \* where each thread is
    evt,                \* the event a sender is posting
    outstanding,        \* gRPC: number of Write operations not yet completed
    connected,          \* gRPC: the client still reads its stream
    failed,             \* gRPC: a Write completed with ok = false
    posted,             \* history: the events in the order they were posted
    handed              \* history: the events in the order given to Write

vars == <<m_state, m_events, m_mtx, m_instances_mutex, erased, pc, evt,
          outstanding, connected, failed, posted, handed>>

grpc == <<outstanding, connected, failed>>

Threads == Senders \cup {CqThread}

State == {"WRITING", "IDLE", "SHUTDOWN"}

SenderLabels == {"idle", "load", "exchange", "write", "push"}

CqLabels == {"idle", "finished_load", "finished_lock", "finished_store",
             "finished_pop", "shutdown", "logoff"}

EventsIn(s) == {s[i] : i \in 1..Len(s)}

Goto(t, label) == pc' = [pc EXCEPT ![t] = label]

-----------------------------------------------------------------------------
(* UserInstance(CommonCallData&&, access_token): a fresh, idle instance.   *)
Init ==
    /\ m_state = "IDLE"
    /\ m_events = <<>>
    /\ m_mtx = NoThread
    /\ m_instances_mutex = NoThread
    /\ erased = FALSE
    /\ pc = [t \in Threads |-> "idle"]
    /\ evt = [t \in Senders |-> NoEvent]
    /\ outstanding = 0
    /\ connected = TRUE
    /\ failed = FALSE
    /\ posted = <<>>
    /\ handed = <<>>

-----------------------------------------------------------------------------
(* The gRPC writer.  Write starts an asynchronous operation; its tag comes *)
(* back from the completion queue once.                                    *)

Write(e) ==
    /\ handed' = Append(handed, e)
    /\ outstanding' = outstanding + 1
    /\ UNCHANGED <<connected, failed>>

(* The client closes its stream or its connection breaks.                  *)
Disconnect ==
    /\ connected
    /\ connected' = FALSE
    /\ UNCHANGED <<m_state, m_events, m_mtx, m_instances_mutex, erased, pc,
                   evt, outstanding, failed, posted, handed>>

-----------------------------------------------------------------------------
(* The sending side: User::PostEvent calling SendEvent.                    *)

(* User::PostEvent takes m_instances_mutex and iterates the instances that *)
(* are still there.                                                        *)
PostEvent(t, e) ==
    /\ pc[t] = "idle"
    /\ m_instances_mutex = NoThread
    /\ ~erased
    /\ e \notin EventsIn(posted)
    /\ m_instances_mutex' = t
    /\ evt' = [evt EXCEPT ![t] = e]
    /\ posted' = Append(posted, e)
    /\ Goto(t, "load")
    /\ UNCHANGED <<m_state, m_events, m_mtx, erased, grpc, handed>>

(* Back in PostEvent, whose lock_guard releases m_instances_mutex.         *)
ReturnFromSendEvent(t) ==
    /\ Goto(t, "idle")
    /\ evt' = [evt EXCEPT ![t] = NoEvent]
    /\ m_instances_mutex' = NoThread

(* if (m_state.load() == SHUTDOWN) return;                                 *)
SendEventLoad(t) ==
    /\ pc[t] = "load"
    /\ IF m_state = "SHUTDOWN"
       THEN ReturnFromSendEvent(t)
       ELSE Goto(t, "exchange") /\ UNCHANGED <<evt, m_instances_mutex>>
    /\ UNCHANGED <<m_state, m_events, m_mtx, erased, grpc, posted, handed>>

(* m_state.exchange(WRITING): whoever finds IDLE owns the writer.          *)
SendEventExchange(t) ==
    /\ pc[t] = "exchange"
    /\ m_state' = "WRITING"
    /\ Goto(t, IF m_state = "IDLE" THEN "write" ELSE "push")
    /\ UNCHANGED <<m_events, m_mtx, m_instances_mutex, erased, evt, grpc,
                   posted, handed>>

(* m_data.m_writer->Write( *event, this)                                   *)
SendEventWrite(t) ==
    /\ pc[t] = "write"
    /\ Write(evt[t])
    /\ ReturnFromSendEvent(t)
    /\ UNCHANGED <<m_state, m_events, m_mtx, erased, posted>>

(* Mutant: events queue up like on a stack.                                *)
SendEventPushFront(t) ==
    /\ pc[t] = "push"
    /\ m_mtx = NoThread
    /\ m_events' = <<evt[t]>> \o m_events
    /\ ReturnFromSendEvent(t)
    /\ UNCHANGED <<m_state, m_mtx, erased, grpc, posted, handed>>

(* Mutant: the event was moved from before it is queued.                   *)
SendEventPushMoved(t) ==
    /\ pc[t] = "push"
    /\ m_mtx = NoThread
    /\ m_events' = Append(m_events, NoEvent)
    /\ ReturnFromSendEvent(t)
    /\ UNCHANGED <<m_state, m_mtx, erased, grpc, posted, handed>>

(* lock m_mtx; m_events.push(event); unlock.                               *)
SendEventPush(t) ==
    /\ pc[t] = "push"
    /\ m_mtx = NoThread
    /\ m_events' = Append(m_events, evt[t])
    /\ ReturnFromSendEvent(t)
    /\ UNCHANGED <<m_state, m_mtx, erased, grpc, posted, handed>>

SendEvent(t) ==
    \/ SendEventLoad(t)
    \/ SendEventExchange(t)
    \/ SendEventWrite(t)
    \/ SendEventPush(t)

-----------------------------------------------------------------------------
(* The completion-queue thread.  m_cq->Next returns the tag of a finished  *)
(* Write; cq_routine dispatches on ok.                                     *)

NextOk ==
    /\ pc[CqThread] = "idle"
    /\ outstanding > 0
    /\ ~failed
    /\ outstanding' = outstanding - 1
    /\ Goto(CqThread, "finished_load")
    /\ UNCHANGED <<m_state, m_events, m_mtx, m_instances_mutex, erased, evt,
                   connected, failed, posted, handed>>

(* A Write to a stream whose client is gone completes with ok = false.     *)
NextNotOk ==
    /\ pc[CqThread] = "idle"
    /\ outstanding > 0
    /\ ~connected
    /\ outstanding' = outstanding - 1
    /\ failed' = TRUE
    /\ Goto(CqThread, "shutdown")
    /\ UNCHANGED <<m_state, m_events, m_mtx, m_instances_mutex, erased, evt,
                   connected, posted, handed>>

(* OnAsyncEventFinished: if (m_state.load() == SHUTDOWN) return;           *)
FinishedLoad ==
    /\ pc[CqThread] = "finished_load"
    /\ Goto(CqThread,
            IF m_state = "SHUTDOWN" THEN "idle" ELSE "finished_lock")
    /\ UNCHANGED <<m_state, m_events, m_mtx, m_instances_mutex, erased, evt,
                   grpc, posted, handed>>

(* Mutant: the queue is not looked at before going idle.                   *)
FinishedLockIgnoringQueue ==
    /\ pc[CqThread] = "finished_lock"
    /\ m_mtx = NoThread
    /\ m_mtx' = CqThread
    /\ Goto(CqThread, "finished_store")
    /\ UNCHANGED <<m_state, m_events, m_instances_mutex, erased, evt, grpc,
                   posted, handed>>

(* Lock m_mtx and look whether an event is queued.                         *)
FinishedLock ==
    /\ pc[CqThread] = "finished_lock"
    /\ m_mtx = NoThread
    /\ m_mtx' = CqThread
    /\ Goto(CqThread,
            IF m_events = <<>> THEN "finished_store" ELSE "finished_pop")
    /\ UNCHANGED <<m_state, m_events, m_instances_mutex, erased, evt, grpc,
                   posted, handed>>

(* Queue empty: m_state.store(IDLE), m_mtx released on return.             *)
FinishedStoreIdle ==
    /\ pc[CqThread] = "finished_store"
    /\ m_state' = "IDLE"
    /\ m_mtx' = NoThread
    /\ Goto(CqThread, "idle")
    /\ UNCHANGED <<m_events, m_instances_mutex, erased, evt, grpc, posted,
                   handed>>

(* Mutant: the state is not kept at WRITING for the event just popped.     *)
FinishedPopIdle ==
    /\ pc[CqThread] = "finished_pop"
    /\ m_events' = Tail(m_events)
    /\ m_state' = "IDLE"
    /\ Write(Head(m_events))
    /\ m_mtx' = NoThread
    /\ Goto(CqThread, "idle")
    /\ UNCHANGED <<m_instances_mutex, erased, evt, posted>>

(* Mutant: front() without pop().                                          *)
FinishedFrontOnly ==
    /\ pc[CqThread] = "finished_pop"
    /\ m_state' = "WRITING"
    /\ Write(Head(m_events))
    /\ m_mtx' = NoThread
    /\ Goto(CqThread, "idle")
    /\ UNCHANGED <<m_events, m_instances_mutex, erased, evt, posted>>

(* Pop the front, m_state.store(WRITING), Write it, release m_mtx.         *)
FinishedPop ==
    /\ pc[CqThread] = "finished_pop"
    /\ m_events' = Tail(m_events)
    /\ m_state' = "WRITING"
    /\ Write(Head(m_events))
    /\ m_mtx' = NoThread
    /\ Goto(CqThread, "idle")
    /\ UNCHANGED <<m_instances_mutex, erased, evt, posted>>

OnAsyncEventFinished ==
    \/ FinishedLoad
    \/ FinishedLock
    \/ FinishedStoreIdle
    \/ FinishedPop

(* Mutant: the failed stream is put back to IDLE.                          *)
OnFinishedIdle ==
    /\ pc[CqThread] = "shutdown"
    /\ m_mtx = NoThread
    /\ m_state' = "IDLE"
    /\ Goto(CqThread, "logoff")
    /\ UNCHANGED <<m_events, m_mtx, m_instances_mutex, erased, evt, grpc,
                   posted, handed>>

(* OnFinished: lock m_mtx, store SHUTDOWN, unlock, call m_on_logoff.       *)
OnFinished ==
    /\ pc[CqThread] = "shutdown"
    /\ m_mtx = NoThread
    /\ m_state' = "SHUTDOWN"
    /\ Goto(CqThread, "logoff")
    /\ UNCHANGED <<m_events, m_mtx, m_instances_mutex, erased, evt, grpc,
                   posted, handed>>

(* The m_on_logoff callback of User::LoginNewInstance: under               *)
(* m_instances_mutex the instance is erased, its queue with it.            *)
Logoff ==
    /\ pc[CqThread] = "logoff"
    /\ m_instances_mutex = NoThread
    /\ erased' = TRUE
    /\ m_events' = <<>>
    /\ Goto(CqThread, "idle")
    /\ UNCHANGED <<m_state, m_mtx, m_instances_mutex, evt, grpc, posted,
                   handed>>

CqStep ==
    \/ NextOk \/ NextNotOk
    \/ OnAsyncEventFinished
    \/ OnFinished \/ Logoff

Next ==
    \/ \E t \in Senders, e \in Events : PostEvent(t, e)
    \/ \E t \in Senders : SendEvent(t)
    \/ CqStep
    \/ Disconnect

(* A thread that can run keeps running, and gRPC completes what it was     *)
(* given.  Nothing obliges a client to post or to disconnect.              *)
Fairness ==
    /\ \A t \in Senders : WF_vars(SendEvent(t))
    /\ WF_vars(CqStep)

Spec == Init /\ [][Next]_vars /\ Fairness

-----------------------------------------------------------------------------
(* Properties.                                                             *)

(* Every variable stays in the type the class declares for it.             *)
TypeOK ==
    /\ m_state \in State
    /\ m_events \in Seq(Events)
    /\ m_mtx \in Threads \cup {NoThread}
    /\ m_instances_mutex \in Threads \cup {NoThread}
    /\ erased \in BOOLEAN
    /\ pc \in [Threads -> SenderLabels \cup CqLabels]
    /\ evt \in [Senders -> Events \cup {NoEvent}]
    /\ outstanding \in Nat
    /\ connected \in BOOLEAN
    /\ failed \in BOOLEAN
    /\ posted \in Seq(Events)
    /\ handed \in Seq(Events)

InHand == {evt[t] : t \in Senders} \ {NoEvent}

(* gRPC allows one Write at a time on a stream.  m_state must serialise    *)
(* the direct Write of SendEvent and the Write of OnAsyncEventFinished,    *)
(* although SendEvent does not hold m_mtx when it decides to write.        *)
OneOutstandingWrite == outstanding <= 1

CqFinishing == pc[CqThread] \in {"finished_load", "finished_lock",
                                 "finished_store", "finished_pop"}

(* At most one party may use the writer: gRPC (a Write is outstanding), a  *)
(* sender that found IDLE, the completion-queue thread in                  *)
(* OnAsyncEventFinished, or nobody for ever after a failure; and m_state   *)
(* is IDLE only while there is none, so that the next exchange is right to *)
(* write.                                                                  *)
WriterExclusive ==
    /\ outstanding \in {0, 1}
    /\ outstanding = 1 => ~CqFinishing /\ ~failed
    /\ CqFinishing => ~failed
    /\ \A t \in Senders : pc[t] = "write" =>
           /\ outstanding = 0
           /\ ~CqFinishing
           /\ ~failed
           /\ m_state # "IDLE"
    /\ outstanding = 1 \/ CqFinishing \/ failed => m_state # "IDLE"

(* Who holds which mutex, and what is in the hands of whom.                *)
LocksHeld ==
    /\ \A t \in Senders :
           /\ pc[t] \in SenderLabels
           /\ pc[t] # "idle" => m_instances_mutex = t /\ evt[t] \in Events
    /\ pc[CqThread] \in CqLabels
    /\ m_mtx = IF pc[CqThread] \in {"finished_store", "finished_pop"}
               THEN CqThread ELSE NoThread
    /\ pc[CqThread] = "finished_pop" => m_events # <<>>
    /\ pc[CqThread] \in {"shutdown", "logoff"} => failed

(* The inductive invariant behind OneOutstandingWrite.                     *)
IInv == TypeOK /\ LocksHeld /\ WriterExclusive

NoRepeat(s) == \A i, j \in 1..Len(s) : s[i] = s[j] => i = j

(* An event given to SendEvent is in exactly one place: with its sender,   *)
(* in m_events, or handed to the writer once.  Nothing is lost before the  *)
(* stream has failed.                                                      *)
EachEventOnce ==
    /\ NoRepeat(handed)
    /\ NoRepeat(m_events)
    /\ EventsIn(handed) \cap EventsIn(m_events) = {}
    /\ (EventsIn(handed) \cup EventsIn(m_events)) \cap InHand = {}
    /\ ~failed => EventsIn(posted) =
                    EventsIn(handed) \cup EventsIn(m_events) \cup InHand

(* What EachEventOnce rests on: only posted events are anywhere, idle      *)
(* senders have none, and SHUTDOWN is stored only after a failure.         *)
EventsTracked ==
    /\ \A t \in Senders : pc[t] = "idle" => evt[t] = NoEvent
    /\ m_state = "SHUTDOWN" => failed
    /\ EventsIn(handed) \cup EventsIn(m_events) \cup InHand
           \subseteq EventsIn(posted)

(* Once a Write has failed, no event is written to the dead stream again,  *)
(* even by a sender that read m_state before OnFinished stored SHUTDOWN    *)
(* and whose exchange then overwrites SHUTDOWN with WRITING.               *)
NoWriteAfterFailure == [][failed => UNCHANGED handed]_vars

HandedBefore(a, b) ==
    \E k \in 1..Len(handed) :
        handed[k] = a /\ b \notin EventsIn(SubSeq(handed, 1, k))

Overtakers(i) ==
    {j \in (i + 1)..Len(posted) : HandedBefore(posted[j], posted[i])}

(* The stream is not FIFO: an event pushed just after the queue was seen   *)
(* empty is overtaken by the next one, which finds IDLE and is written     *)
(* directly.  But an event is never overtaken by more than one later one.  *)
AtMostOneOvertake ==
    \A i \in 1..Len(posted) : Cardinality(Overtakers(i)) <= 1

PostedBefore(e, f) ==
    \E i, j \in 1..Len(posted) : i < j /\ posted[i] = e /\ posted[j] = f

(* Posting a later event gets every earlier one out: only the newest event *)
(* can stay behind in m_events of an idle stream.                          *)
OlderEventsHanded ==
    \A e, f \in Events :
        PostedBefore(e, f) ~> (e \in EventsIn(handed) \/ failed)

(* README.md: SubscribeToEvents "returns a stream of events, such as ...   *)
(* new messages".  Every event posted to a subscribed device is written to *)
(* its stream unless the stream fails.                                     *)
EveryEventHanded ==
    \A e \in Events :
        e \in EventsIn(posted) ~> (e \in EventsIn(handed) \/ failed)

(* The stream implements the unordered channel of EventChannel.            *)
Channel == INSTANCE EventChannel
    WITH pending <- EventsIn(m_events) \cup InHand,
         sent    <- handed,
         busy    <- outstanding > 0,
         open    <- ~failed

(* Every step of SendEvent, OnAsyncEventFinished, OnFinished and the       *)
(* log-off is a step of the channel or invisible to its users.             *)
ImplementsChannel == Channel!Spec

=============================================================================
