------------------------ MODULE UserInstanceProofs ------------------------
(***************************************************************************)
(* Proofs about UserInstance for any set of sender threads and events.     *)
(***************************************************************************)
EXTENDS UserInstance, FiniteSetTheorems, TLAPS

(* A fresh instance satisfies the inductive invariant.                     *)
LEMMA InitInv == Init => IInv
  <1> SUFFICES ASSUME Init PROVE IInv
    OBVIOUS
  <1> USE DEF Init, Threads
  <1>1. TypeOK
    <2>1. pc \in [Threads -> SenderLabels \cup CqLabels]
      BY DEF SenderLabels, CqLabels
    <2>2. evt \in [Senders -> Events \cup {NoEvent}]
      OBVIOUS
    <2>3. m_events \in Seq(Events) /\ posted \in Seq(Events)
          /\ handed \in Seq(Events)
      OBVIOUS
    <2>4. erased \in BOOLEAN /\ connected \in BOOLEAN /\ failed \in BOOLEAN
      OBVIOUS
    <2>5. m_state \in State /\ outstanding \in Nat
      BY DEF State
    <2> QED BY <2>1, <2>2, <2>3, <2>4, <2>5 DEF TypeOK
  <1>2. LocksHeld
    BY DEF LocksHeld, SenderLabels, CqLabels
  <1>3. WriterExclusive
    BY DEF WriterExclusive, CqFinishing
  <1> QED BY <1>1, <1>2, <1>3 DEF IInv

(* The types are preserved: in particular only events reach the writer,    *)
(* because a sender in SendEvent has one and OnAsyncEventFinished pops a   *)
(* queue it found not empty.                                               *)
LEMMA TypeStep == IInv /\ [Next]_vars => TypeOK'
  <1> SUFFICES ASSUME IInv, [Next]_vars PROVE TypeOK'
    OBVIOUS
  <1> USE ThreadsAssumption, EventsAssumption
          DEF IInv, TypeOK, LocksHeld, Threads, State, SenderLabels, CqLabels,
              Goto, ReturnFromSendEvent, grpc
  <1>1. ASSUME NEW t \in Senders, NEW e \in Events, PostEvent(t, e)
        PROVE  TypeOK'
    BY <1>1 DEF PostEvent
  <1>2. ASSUME NEW t \in Senders, SendEvent(t)
        PROVE  TypeOK'
    <2>1. CASE SendEventLoad(t)
      <3>1. CASE m_state = "SHUTDOWN"
        <4>1. ReturnFromSendEvent(t)
          BY <2>1, <3>1 DEF SendEventLoad
        <4>2. pc' \in [Threads -> SenderLabels \cup CqLabels]
          BY <4>1
        <4>3. evt' \in [Senders -> Events \cup {NoEvent}]
          BY <4>1
        <4> QED BY <2>1, <4>1, <4>2, <4>3 DEF SendEventLoad
      <3>2. CASE m_state # "SHUTDOWN"
        BY <2>1, <3>2 DEF SendEventLoad
      <3> QED BY <3>1, <3>2
    <2>2. CASE SendEventExchange(t)
      BY <2>2 DEF SendEventExchange
    <2>3. CASE SendEventWrite(t)
      BY <2>3 DEF SendEventWrite, Write
    <2>4. CASE SendEventPush(t)
      BY <2>4 DEF SendEventPush
    <2> QED BY <1>2, <2>1, <2>2, <2>3, <2>4 DEF SendEvent
  <1>3. CASE CqStep
    <2>1. CASE NextOk
      BY <2>1 DEF NextOk
    <2>2. CASE NextNotOk
      BY <2>2 DEF NextNotOk
    <2>3. CASE FinishedLoad
      BY <2>3 DEF FinishedLoad
    <2>4. CASE FinishedLock
      BY <2>4 DEF FinishedLock
    <2>5. CASE FinishedStoreIdle
      BY <2>5 DEF FinishedStoreIdle
    <2>6. CASE FinishedPop
      BY <2>6 DEF FinishedPop, Write
    <2>7. CASE OnFinished
      BY <2>7 DEF OnFinished
    <2>8. CASE Logoff
      BY <2>8 DEF Logoff
    <2> QED BY <1>3, <2>1, <2>2, <2>3, <2>4, <2>5, <2>6, <2>7, <2>8
            DEF CqStep, OnAsyncEventFinished
  <1>4. CASE Disconnect
    BY <1>4 DEF Disconnect
  <1>5. CASE UNCHANGED vars
    BY <1>5 DEF vars
  <1> QED BY <1>1, <1>2, <1>3, <1>4, <1>5 DEF Next

(* A sender inside SendEvent keeps m_instances_mutex until it returns; the *)
(* completion-queue thread has m_mtx exactly while it looks at the queue.  *)
LEMMA LocksStep == IInv /\ [Next]_vars => LocksHeld'
  <1> SUFFICES ASSUME IInv, [Next]_vars PROVE LocksHeld'
    OBVIOUS
  <1> USE ThreadsAssumption
          DEF IInv, TypeOK, LocksHeld, SenderLabels,
              CqLabels, Threads, Goto,
              ReturnFromSendEvent, grpc
  <1>1. ASSUME NEW t \in Senders, NEW e \in Events, PostEvent(t, e)
        PROVE  LocksHeld'
    BY <1>1 DEF PostEvent
  <1>2. ASSUME NEW t \in Senders, SendEvent(t)
        PROVE  LocksHeld'
    <2>1. CASE SendEventLoad(t)
      BY <2>1 DEF SendEventLoad
    <2>2. CASE SendEventExchange(t)
      BY <2>2 DEF SendEventExchange
    <2>3. CASE SendEventWrite(t)
      BY <2>3 DEF SendEventWrite, Write
    <2>4. CASE SendEventPush(t)
      BY <2>4 DEF SendEventPush
    <2> QED BY <1>2, <2>1, <2>2, <2>3, <2>4 DEF SendEvent
  <1>3. CASE CqStep
    <2>1. CASE NextOk
      BY <2>1 DEF NextOk
    <2>2. CASE NextNotOk
      BY <2>2 DEF NextNotOk
    <2>3. CASE FinishedLoad
      BY <2>3 DEF FinishedLoad
    <2>4. CASE FinishedLock
      BY <2>4 DEF FinishedLock
    <2>5. CASE FinishedStoreIdle
      BY <2>5 DEF FinishedStoreIdle
    <2>6. CASE FinishedPop
      BY <2>6 DEF FinishedPop, Write
    <2>7. CASE OnFinished
      BY <2>7 DEF OnFinished
    <2>8. CASE Logoff
      BY <2>8 DEF Logoff
    <2> QED BY <1>3, <2>1, <2>2, <2>3, <2>4, <2>5, <2>6, <2>7, <2>8
            DEF CqStep, OnAsyncEventFinished
  <1>4. CASE Disconnect
    BY <1>4 DEF Disconnect
  <1>5. CASE UNCHANGED vars
    BY <1>5 DEF vars
  <1> QED BY <1>1, <1>2, <1>3, <1>4, <1>5 DEF Next

(* The right to use the writer is passed on, never duplicated: exchange    *)
(* takes it from IDLE, Write gives it to gRPC, a completion gives it to    *)
(* the completion-queue thread, which writes again or stores IDLE.         *)
LEMMA WriterStep == IInv /\ [Next]_vars => WriterExclusive'
  <1> SUFFICES ASSUME IInv, [Next]_vars PROVE WriterExclusive'
    OBVIOUS
  <1> USE ThreadsAssumption
          DEF IInv, TypeOK, LocksHeld, WriterExclusive,
              CqFinishing, Threads, Goto,
              ReturnFromSendEvent, grpc
  <1>1. ASSUME NEW t \in Senders, NEW e \in Events, PostEvent(t, e)
        PROVE  WriterExclusive'
    BY <1>1 DEF PostEvent
  <1>2. ASSUME NEW t \in Senders, SendEvent(t)
        PROVE  WriterExclusive'
    <2>1. CASE SendEventLoad(t)
      BY <2>1 DEF SendEventLoad
    <2>2. CASE SendEventExchange(t)
      BY <2>2 DEF SendEventExchange
    <2>3. CASE SendEventWrite(t)
      BY <2>3 DEF SendEventWrite, Write
    <2>4. CASE SendEventPush(t)
      BY <2>4 DEF SendEventPush
    <2> QED BY <1>2, <2>1, <2>2, <2>3, <2>4 DEF SendEvent
  <1>3. CASE CqStep
    <2>1. CASE NextOk
      BY <2>1 DEF NextOk
    <2>2. CASE NextNotOk
      BY <2>2 DEF NextNotOk
    <2>3. CASE FinishedLoad
      BY <2>3 DEF FinishedLoad
    <2>4. CASE FinishedLock
      BY <2>4 DEF FinishedLock
    <2>5. CASE FinishedStoreIdle
      BY <2>5 DEF FinishedStoreIdle
    <2>6. CASE FinishedPop
      BY <2>6 DEF FinishedPop, Write
    <2>7. CASE OnFinished
      BY <2>7 DEF OnFinished
    <2>8. CASE Logoff
      BY <2>8 DEF Logoff
    <2> QED BY <1>3, <2>1, <2>2, <2>3, <2>4, <2>5, <2>6, <2>7, <2>8
            DEF CqStep, OnAsyncEventFinished
  <1>4. CASE Disconnect
    BY <1>4 DEF Disconnect
  <1>5. CASE UNCHANGED vars
    BY <1>5 DEF vars
  <1> QED BY <1>1, <1>2, <1>3, <1>4, <1>5 DEF Next

(* The inductive invariant holds in every state.                           *)
THEOREM Invariance == Spec => []IInv
  <1>1. IInv /\ [Next]_vars => IInv'
    BY TypeStep, LocksStep, WriterStep DEF IInv
  <1> QED BY InitInv, <1>1, PTL DEF Spec

(* Every variable of the instance keeps its type.                          *)
THEOREM TypeCorrect == Spec => []TypeOK
  BY Invariance, PTL DEF IInv

(* At most one Write is outstanding on the stream, for any number of       *)
(* senders and events: m_state alone serialises the writes of SendEvent    *)
(* and OnAsyncEventFinished.                                               *)
THEOREM WriteSerialised == Spec => []OneOutstandingWrite
  <1>1. IInv => OneOutstandingWrite
    BY DEF IInv, WriterExclusive, OneOutstandingWrite
  <1> QED BY Invariance, <1>1, PTL

(* Once a Write has failed, nothing more is written to the stream: the     *)
(* failure has taken the right to write away for good.                     *)
THEOREM FailureIsFinal == Spec => NoWriteAfterFailure
  <1>1. IInv /\ [Next]_vars => [failed => UNCHANGED handed]_vars
    <2> SUFFICES ASSUME IInv, Next, failed PROVE UNCHANGED handed
      OBVIOUS
    <2>1. ASSUME NEW t \in Senders, SendEventWrite(t) PROVE FALSE
      BY <2>1 DEF IInv, WriterExclusive, SendEventWrite
    <2>2. ASSUME FinishedPop PROVE FALSE
      BY <2>2 DEF IInv, WriterExclusive, CqFinishing, FinishedPop
    <2> QED
      BY <2>1, <2>2 DEF Next, PostEvent, SendEvent, SendEventLoad,
         SendEventExchange, SendEventPush, CqStep, NextOk, NextNotOk,
         OnAsyncEventFinished, FinishedLoad, FinishedLock, FinishedStoreIdle,
         OnFinished, Logoff, Disconnect
  <1> QED BY Invariance, <1>1, PTL DEF Spec, NoWriteAfterFailure

-----------------------------------------------------------------------------
(* What m_events.push and Write add to a sequence of events.               *)
LEMMA AppendEvents ==
  ASSUME NEW s \in Seq(Events), NEW e \in Events
  PROVE  EventsIn(Append(s, e)) = EventsIn(s) \cup {e}
  <1> DEFINE t == Append(s, e)
  <1>1. Len(t) = Len(s) + 1 /\ Len(s) \in Nat
    OBVIOUS
  <1>2. \A i \in 1..Len(s) : t[i] = s[i]
    OBVIOUS
  <1>3. t[Len(s) + 1] = e
    OBVIOUS
  <1> HIDE DEF t
  <1>4. ASSUME NEW x \in EventsIn(t) PROVE x \in EventsIn(s) \cup {e}
    <2>1. PICK i \in 1..Len(t) : x = t[i]
      BY DEF EventsIn
    <2>2. CASE i = Len(s) + 1
      BY <1>3, <2>1, <2>2
    <2>3. CASE i # Len(s) + 1
      <3>1. i \in 1..Len(s)
        BY <1>1, <2>1, <2>3
      <3> QED BY <1>2, <2>1, <3>1 DEF EventsIn
    <2> QED BY <2>2, <2>3
  <1>5. ASSUME NEW x \in EventsIn(s) PROVE x \in EventsIn(t)
    <2>1. PICK i \in 1..Len(s) : x = s[i]
      BY DEF EventsIn
    <2>2. i \in 1..Len(t)
      BY <1>1, <2>1
    <2> QED BY <1>2, <2>1, <2>2 DEF EventsIn
  <1>6. e \in EventsIn(t)
    <2>1. Len(s) + 1 \in 1..Len(t)
      BY <1>1
    <2> QED BY <1>3, <2>1 DEF EventsIn
  <1>7. EventsIn(t) = EventsIn(s) \cup {e}
    BY <1>4, <1>5, <1>6
  <1> QED BY <1>7 DEF t

(* A queue that is not empty has a front, and popping it removes just that *)
(* from the events.                                                        *)
LEMMA HeadEvents ==
  ASSUME NEW s \in Seq(Events), s # <<>>
  PROVE  /\ Head(s) \in Events
         /\ EventsIn(s) = EventsIn(Tail(s)) \cup {Head(s)}
  <1>1. \A i \in 1..Len(Tail(s)) : Tail(s)[i] = s[i + 1] /\ i + 1 \in 1..Len(s)
    OBVIOUS
  <1>2. \A i \in 1..Len(s) : i = 1 \/ (i - 1 \in 1..Len(Tail(s))
                                       /\ Tail(s)[i - 1] = s[i])
    OBVIOUS
  <1>3. Head(s) = s[1] /\ 1 \in 1..Len(s)
    OBVIOUS
  <1> QED BY <1>1, <1>2, <1>3 DEF EventsIn

(* Adding an event that is not there yet repeats none.                     *)
LEMMA NoRepeatAppend ==
  ASSUME NEW s \in Seq(Events), NEW e \in Events,
         NoRepeat(s), e \notin EventsIn(s)
  PROVE  NoRepeat(Append(s, e))
  <1> DEFINE t == Append(s, e)
  <1>1. Len(t) = Len(s) + 1 /\ Len(s) \in Nat
    OBVIOUS
  <1>2. \A i \in 1..Len(s) : t[i] = s[i] /\ s[i] # e
    BY DEF EventsIn
  <1>3. t[Len(s) + 1] = e
    OBVIOUS
  <1> HIDE DEF t
  <1>4. NoRepeat(t)
    BY <1>1, <1>2, <1>3 DEF NoRepeat
  <1> QED BY <1>4 DEF t

(* The event popped from a queue without repetitions is no longer in it.   *)
LEMMA NoRepeatTail ==
  ASSUME NEW s \in Seq(Events), s # <<>>, NoRepeat(s)
  PROVE  NoRepeat(Tail(s)) /\ Head(s) \notin EventsIn(Tail(s))
  <1>1. \A i \in 1..Len(Tail(s)) : Tail(s)[i] = s[i + 1] /\ i + 1 \in 1..Len(s)
    OBVIOUS
  <1>2. Head(s) = s[1] /\ 1 \in 1..Len(s) /\ Len(Tail(s)) \in Nat
    OBVIOUS
  <1> QED BY <1>1, <1>2 DEF NoRepeat, EventsIn

(* An empty queue holds no event.                                          *)
LEMMA EmptyEvents == EventsIn(<<>>) = {} /\ NoRepeat(<<>>)
  BY DEF EventsIn, NoRepeat

(* Whoever is inside SendEvent has the only event in hand.                 *)
LEMMA InHandOf ==
  ASSUME IInv, EventsTracked, NEW t \in Senders, pc[t] # "idle"
  PROVE  InHand = {evt[t]} /\ evt[t] \in Events
  BY EventsAssumption DEF IInv, LocksHeld, EventsTracked, InHand

(* Nobody is inside SendEvent while m_instances_mutex is free.             *)
LEMMA InHandNone ==
  ASSUME IInv, EventsTracked, m_instances_mutex = NoThread
  PROVE  InHand = {}
  BY ThreadsAssumption DEF IInv, LocksHeld, EventsTracked, InHand

(* A sender that returns from SendEvent leaves no event in hand.           *)
LEMMA InHandReturn ==
  ASSUME IInv, EventsTracked, NEW t \in Senders, pc[t] # "idle",
         ReturnFromSendEvent(t)
  PROVE  /\ InHand' = {}
         /\ \A u \in Senders : pc'[u] = "idle" => evt'[u] = NoEvent
  BY DEF IInv, TypeOK, LocksHeld, EventsTracked, InHand, ReturnFromSendEvent,
         Goto, Threads

-----------------------------------------------------------------------------
(* The inductive invariant that accounts for every posted event.           *)
EventsInv == EventsTracked /\ EachEventOnce

(* A fresh instance has no events.                                         *)
LEMMA EventsInit == Init => EventsInv
  <1> SUFFICES ASSUME Init PROVE EventsInv
    OBVIOUS
  <1>1. InHand = {} /\ m_state # "SHUTDOWN"
        /\ \A t \in Senders : evt[t] = NoEvent
    BY DEF Init, InHand
  <1>2. handed = <<>> /\ m_events = <<>> /\ posted = <<>>
    BY DEF Init
  <1> QED BY <1>1, <1>2, EmptyEvents
          DEF EventsInv, EventsTracked, EachEventOnce

(* The steps that touch neither an event nor a sender's hands.             *)
LEMMA EventsSame ==
  ASSUME IInv, EventsInv, UNCHANGED <<m_events, evt, posted, handed>>,
         failed => failed', m_state' = "SHUTDOWN" => failed',
         \A t \in Senders : pc'[t] = "idle" => pc[t] = "idle"
  PROVE  EventsInv'
  <1>1. InHand' = InHand /\ evt' = evt
    BY DEF InHand
  <1>2. EventsIn(m_events') = EventsIn(m_events) /\ NoRepeat(m_events')
        /\ EventsIn(handed') = EventsIn(handed) /\ NoRepeat(handed')
        /\ EventsIn(posted') = EventsIn(posted)
    BY DEF EventsInv, EachEventOnce
  <1>3. EventsTracked'
    BY <1>1, <1>2 DEF EventsInv, EventsTracked
  <1>4. EachEventOnce'
    BY <1>1, <1>2 DEF EventsInv, EachEventOnce
  <1> QED BY <1>3, <1>4 DEF EventsInv

(* Each step moves an event on, from its sender to the queue or the        *)
(* writer, or from the queue to the writer; after a failure it may vanish. *)
LEMMA EventsStep == IInv /\ EventsInv /\ [Next]_vars => EventsInv'
  <1> SUFFICES ASSUME IInv, EventsInv, [Next]_vars PROVE EventsInv'
    OBVIOUS
  <1>0. EventsTracked /\ EachEventOnce
    BY DEF EventsInv
  <1>a. /\ m_events \in Seq(Events) /\ posted \in Seq(Events)
        /\ handed \in Seq(Events)
        /\ pc \in [Threads -> SenderLabels \cup CqLabels]
        /\ evt \in [Senders -> Events \cup {NoEvent}]
    BY DEF IInv, TypeOK
  <1>1. ASSUME NEW t \in Senders, NEW e \in Events, PostEvent(t, e)
        PROVE  EventsInv'
    <2>1. InHand = {} /\ \A u \in Senders : pc[u] = "idle"
      BY <1>0, <1>1, InHandNone, ThreadsAssumption
      DEF PostEvent, IInv, LocksHeld
    <2>2. InHand' = {e}
          /\ \A u \in Senders : pc'[u] = "idle" => evt'[u] = NoEvent
      BY <1>0, <1>a, <1>1, <2>1, EventsAssumption
      DEF PostEvent, EventsTracked, InHand, Goto, Threads
    <2>3. EventsIn(posted') = EventsIn(posted) \cup {e}
          /\ e \notin EventsIn(posted)
      BY <1>a, <1>1, AppendEvents DEF PostEvent
    <2>4. UNCHANGED <<m_state, m_events, handed, failed>>
      BY <1>1 DEF PostEvent, grpc
    <2>5. EventsIn(m_events') = EventsIn(m_events) /\ NoRepeat(m_events')
          /\ EventsIn(handed') = EventsIn(handed) /\ NoRepeat(handed')
      BY <1>0, <2>4 DEF EachEventOnce
    <2> QED BY <1>0, <2>1, <2>2, <2>3, <2>4, <2>5
            DEF EventsInv, EventsTracked, EachEventOnce
  <1>2. ASSUME NEW t \in Senders, SendEvent(t)
        PROVE  EventsInv'
    <2>1. CASE SendEventLoad(t) /\ m_state # "SHUTDOWN"
      BY <1>a, <2>1, EventsSame, ThreadsAssumption
      DEF SendEventLoad, Goto, grpc, Threads, EventsInv, EventsTracked
    <2>2. CASE SendEventLoad(t) /\ m_state = "SHUTDOWN"
      <3>1. ReturnFromSendEvent(t) /\ pc[t] # "idle"
            /\ UNCHANGED <<m_state, m_events, handed, posted, failed>>
        BY <2>2 DEF SendEventLoad, grpc
      <3>2. failed
        BY <1>0, <2>2 DEF EventsTracked
      <3>3. InHand' = {}
            /\ \A u \in Senders : pc'[u] = "idle" => evt'[u] = NoEvent
        BY <1>0, <3>1, InHandReturn
      <3>4. EventsIn(m_events') = EventsIn(m_events) /\ NoRepeat(m_events')
            /\ EventsIn(handed') = EventsIn(handed) /\ NoRepeat(handed')
            /\ EventsIn(posted') = EventsIn(posted)
        BY <1>0, <3>1 DEF EachEventOnce
      <3> QED BY <1>0, <3>1, <3>2, <3>3, <3>4
              DEF EventsInv, EventsTracked, EachEventOnce
    <2>3. CASE SendEventExchange(t)
      BY <1>a, <2>3, EventsSame, ThreadsAssumption
      DEF SendEventExchange, Goto, grpc, Threads
    <2>4. CASE SendEventWrite(t)
      <3>1. ReturnFromSendEvent(t) /\ pc[t] # "idle"
            /\ handed' = Append(handed, evt[t])
            /\ UNCHANGED <<m_state, m_events, posted, failed>>
        BY <2>4 DEF SendEventWrite, Write
      <3>2. InHand = {evt[t]} /\ evt[t] \in Events
        BY <1>0, <3>1, InHandOf
      <3>3. InHand' = {}
            /\ \A u \in Senders : pc'[u] = "idle" => evt'[u] = NoEvent
        BY <1>0, <3>1, InHandReturn
      <3>4. evt[t] \notin EventsIn(handed)
        BY <1>0, <3>2 DEF EachEventOnce
      <3>5. EventsIn(handed') = EventsIn(handed) \cup {evt[t]}
            /\ NoRepeat(handed')
        BY <1>0, <1>a, <3>1, <3>2, <3>4, AppendEvents, NoRepeatAppend
        DEF EachEventOnce
      <3>6. EventsIn(m_events') = EventsIn(m_events) /\ NoRepeat(m_events')
            /\ EventsIn(posted') = EventsIn(posted)
        BY <1>0, <3>1 DEF EachEventOnce
      <3> QED BY <1>0, <3>1, <3>2, <3>3, <3>5, <3>6
              DEF EventsInv, EventsTracked, EachEventOnce
    <2>5. CASE SendEventPush(t)
      <3>1. ReturnFromSendEvent(t) /\ pc[t] # "idle"
            /\ m_events' = Append(m_events, evt[t])
            /\ UNCHANGED <<m_state, handed, posted, failed>>
        BY <2>5 DEF SendEventPush, grpc
      <3>2. InHand = {evt[t]} /\ evt[t] \in Events
        BY <1>0, <3>1, InHandOf
      <3>3. InHand' = {}
            /\ \A u \in Senders : pc'[u] = "idle" => evt'[u] = NoEvent
        BY <1>0, <3>1, InHandReturn
      <3>4. evt[t] \notin EventsIn(m_events) /\ evt[t] \notin EventsIn(handed)
        BY <1>0, <3>2 DEF EachEventOnce
      <3>5. EventsIn(m_events') = EventsIn(m_events) \cup {evt[t]}
            /\ NoRepeat(m_events')
        BY <1>0, <1>a, <3>1, <3>2, <3>4, AppendEvents, NoRepeatAppend
        DEF EachEventOnce
      <3>6. EventsIn(handed') = EventsIn(handed) /\ NoRepeat(handed')
            /\ EventsIn(posted') = EventsIn(posted)
        BY <1>0, <3>1 DEF EachEventOnce
      <3> QED BY <1>0, <3>1, <3>2, <3>3, <3>4, <3>5, <3>6
              DEF EventsInv, EventsTracked, EachEventOnce
    <2> QED BY <1>2, <2>1, <2>2, <2>3, <2>4, <2>5 DEF SendEvent
  <1>3. CASE CqStep
    <2>1. CASE FinishedPop
      <3>1. m_events # <<>> /\ m_events' = Tail(m_events)
            /\ handed' = Append(handed, Head(m_events)) /\ m_state' = "WRITING"
            /\ UNCHANGED <<evt, posted, failed>>
            /\ \A t \in Senders : pc'[t] = pc[t]
        BY <1>a, <2>1, ThreadsAssumption
        DEF FinishedPop, Write, IInv, LocksHeld, Goto, Threads
      <3>2. Head(m_events) \in Events
            /\ EventsIn(m_events) = EventsIn(m_events') \cup {Head(m_events)}
        BY <1>a, <3>1, HeadEvents
      <3>3. NoRepeat(m_events') /\ Head(m_events) \notin EventsIn(m_events')
        BY <1>0, <1>a, <3>1, NoRepeatTail DEF EachEventOnce
      <3>4. Head(m_events) \notin EventsIn(handed)
        BY <1>0, <3>2 DEF EachEventOnce
      <3>5. EventsIn(handed') = EventsIn(handed) \cup {Head(m_events)}
            /\ NoRepeat(handed')
        BY <1>0, <1>a, <3>1, <3>2, <3>4, AppendEvents, NoRepeatAppend
        DEF EachEventOnce
      <3>6. InHand' = InHand /\ EventsIn(posted') = EventsIn(posted)
        BY <3>1 DEF InHand
      <3> QED BY <1>0, <3>1, <3>2, <3>3, <3>5, <3>6
              DEF EventsInv, EventsTracked, EachEventOnce
    <2>2. CASE Logoff
      <3>1. failed /\ m_events' = <<>>
            /\ UNCHANGED <<m_state, evt, posted, handed, failed>>
            /\ \A t \in Senders : pc'[t] = pc[t]
        BY <1>a, <2>2, ThreadsAssumption
        DEF Logoff, IInv, LocksHeld, Goto, grpc, Threads
      <3>2. InHand' = InHand /\ EventsIn(posted') = EventsIn(posted)
            /\ EventsIn(handed') = EventsIn(handed) /\ NoRepeat(handed')
        BY <1>0, <3>1 DEF InHand, EachEventOnce
      <3>3. EventsIn(m_events') = {} /\ NoRepeat(m_events')
        BY <3>1, EmptyEvents
      <3> QED BY <1>0, <3>1, <3>2, <3>3
              DEF EventsInv, EventsTracked, EachEventOnce
    <2>3. CASE NextOk \/ NextNotOk \/ FinishedLoad \/ FinishedLock
               \/ FinishedStoreIdle \/ OnFinished
      <3>1. UNCHANGED <<m_events, evt, posted, handed>>
            /\ (failed => failed') /\ (m_state' = "SHUTDOWN" => failed')
        BY <1>0, <2>3
        DEF NextOk, NextNotOk, FinishedLoad, FinishedLock, FinishedStoreIdle,
            OnFinished, grpc, EventsTracked, IInv, LocksHeld
      <3>2. \A t \in Senders : pc'[t] = pc[t]
        BY <1>a, <2>3, ThreadsAssumption
        DEF NextOk, NextNotOk, FinishedLoad, FinishedLock, FinishedStoreIdle,
            OnFinished, Goto, Threads
      <3> QED BY <3>1, <3>2, EventsSame
    <2> QED BY <1>3, <2>1, <2>2, <2>3 DEF CqStep, OnAsyncEventFinished
  <1>4. CASE Disconnect
    BY <1>0, <1>4, EventsSame DEF Disconnect, EventsTracked
  <1>5. CASE UNCHANGED vars
    BY <1>0, <1>5, EventsSame DEF vars, EventsTracked
  <1> QED BY <1>1, <1>2, <1>3, <1>4, <1>5 DEF Next

(* Every posted event is accounted for in every state.                     *)
LEMMA EventsInvariance == Spec => []EventsInv
  BY EventsInit, EventsStep, Invariance, PTL DEF Spec

(* No event is duplicated, none is lost before the stream fails.           *)
THEOREM EventsOnce == Spec => []EachEventOnce
  BY EventsInvariance, PTL DEF EventsInv

-----------------------------------------------------------------------------
(* A fresh instance is an empty, open channel.                             *)
LEMMA ChannelInit == Init => Channel!Init
  <1> SUFFICES ASSUME Init PROVE Channel!Init
    OBVIOUS
  <1>1. EventsIn(m_events) \cup InHand = {}
    BY EmptyEvents DEF Init, InHand
  <1>2. handed = <<>> /\ ~(outstanding > 0) /\ ~failed
    BY DEF Init
  <1> QED BY <1>1, <1>2 DEF Channel!Init

(* Each step of the stream is a step of the channel or leaves its          *)
(* variables alone.                                                        *)
LEMMA ChannelStep ==
  IInv /\ EventsInv /\ [Next]_vars => [Channel!Next]_(Channel!vars)
  <1> SUFFICES ASSUME IInv, EventsInv, [Next]_vars
               PROVE  [Channel!Next]_(Channel!vars)
    OBVIOUS
  <1> DEFINE P == EventsIn(m_events) \cup InHand
  <1>0. EventsTracked /\ EachEventOnce
    BY DEF EventsInv
  <1>a. /\ m_events \in Seq(Events) /\ posted \in Seq(Events)
        /\ handed \in Seq(Events) /\ outstanding \in Nat
        /\ pc \in [Threads -> SenderLabels \cup CqLabels]
        /\ evt \in [Senders -> Events \cup {NoEvent}]
    BY DEF IInv, TypeOK
  <1>s. ASSUME P' = P, UNCHANGED <<handed, outstanding, failed>>
        PROVE  [Channel!Next]_(Channel!vars)
    BY <1>s DEF Channel!vars
  <1>d. ASSUME failed, P' \subseteq P, UNCHANGED <<handed, outstanding, failed>>
        PROVE  [Channel!Next]_(Channel!vars)
    <2>1. Channel!Drop
      BY <1>d DEF Channel!Drop
    <2> QED BY <2>1 DEF Channel!Next
  <1>h. ASSUME NEW e \in Events, e \in P, P' = P \ {e}, ~failed,
               outstanding = 0, outstanding' = outstanding + 1,
               handed' = Append(handed, e), UNCHANGED failed
        PROVE  [Channel!Next]_(Channel!vars)
    <2>1. Channel!Hand(e)
      BY <1>h DEF Channel!Hand
    <2> QED BY <2>1 DEF Channel!Next
  <1>1. ASSUME NEW t \in Senders, NEW e \in Events, PostEvent(t, e)
        PROVE  [Channel!Next]_(Channel!vars)
    <2>1. InHand = {} /\ \A u \in Senders : pc[u] = "idle"
      BY <1>0, <1>1, InHandNone, ThreadsAssumption
      DEF PostEvent, IInv, LocksHeld
    <2>2. InHand' = {e}
      BY <1>0, <1>a, <1>1, <2>1, EventsAssumption
      DEF PostEvent, EventsTracked, InHand, Goto, Threads
    <2>3. UNCHANGED <<m_events, handed, outstanding, failed>>
          /\ e \notin EventsIn(handed)
      BY <1>0, <1>1 DEF PostEvent, grpc, EventsTracked
    <2>4. P' = P \cup {e}
      BY <2>1, <2>2, <2>3
    <2>5. \A i \in 1..Len(handed) : handed[i] # e
      BY <2>3 DEF EventsIn
    <2>6. Channel!Post(e)
      BY <2>3, <2>4, <2>5 DEF Channel!Post
    <2> QED BY <2>6 DEF Channel!Next
  <1>2. ASSUME NEW t \in Senders, SendEvent(t)
        PROVE  [Channel!Next]_(Channel!vars)
    <2>1. CASE SendEventLoad(t) /\ m_state # "SHUTDOWN"
      <3>1. UNCHANGED <<m_events, evt, handed, outstanding, failed>>
        BY <2>1 DEF SendEventLoad, grpc
      <3>2. P' = P
        BY <3>1 DEF InHand
      <3> QED BY <3>1, <3>2, <1>s
    <2>2. CASE SendEventLoad(t) /\ m_state = "SHUTDOWN"
      <3>1. ReturnFromSendEvent(t) /\ pc[t] # "idle"
            /\ UNCHANGED <<m_events, handed, outstanding, failed>>
        BY <2>2 DEF SendEventLoad, grpc
      <3>2. failed
        BY <1>0, <2>2 DEF EventsTracked
      <3>3. InHand' = {}
        BY <1>0, <3>1, InHandReturn
      <3>4. P' \subseteq P
        BY <3>1, <3>3
      <3> QED BY <3>1, <3>2, <3>4, <1>d
    <2>3. CASE SendEventExchange(t)
      <3>1. UNCHANGED <<m_events, evt, handed, outstanding, failed>>
        BY <2>3 DEF SendEventExchange, grpc
      <3>2. P' = P
        BY <3>1 DEF InHand
      <3> QED BY <3>1, <3>2, <1>s
    <2>4. CASE SendEventWrite(t)
      <3>1. ReturnFromSendEvent(t) /\ pc[t] = "write"
            /\ handed' = Append(handed, evt[t])
            /\ outstanding' = outstanding + 1
            /\ UNCHANGED <<m_events, failed>>
        BY <2>4 DEF SendEventWrite, Write
      <3>2. InHand = {evt[t]} /\ evt[t] \in Events
        BY <1>0, <3>1, InHandOf
      <3>3. InHand' = {}
        BY <1>0, <3>1, InHandReturn
      <3>4. outstanding = 0 /\ ~failed
        BY <3>1 DEF IInv, WriterExclusive
      <3>5. evt[t] \in P /\ P' = P \ {evt[t]}
        BY <1>0, <3>1, <3>2, <3>3 DEF EachEventOnce
      <3> QED BY <3>1, <3>2, <3>4, <3>5, <1>h
    <2>5. CASE SendEventPush(t)
      <3>1. ReturnFromSendEvent(t) /\ pc[t] # "idle"
            /\ m_events' = Append(m_events, evt[t])
            /\ UNCHANGED <<handed, outstanding, failed>>
        BY <2>5 DEF SendEventPush, grpc
      <3>2. InHand = {evt[t]} /\ evt[t] \in Events
        BY <1>0, <3>1, InHandOf
      <3>3. InHand' = {}
        BY <1>0, <3>1, InHandReturn
      <3>4. EventsIn(m_events') = EventsIn(m_events) \cup {evt[t]}
        BY <1>a, <3>1, <3>2, AppendEvents
      <3>5. P' = P
        BY <3>2, <3>3, <3>4
      <3> QED BY <3>1, <3>5, <1>s
    <2> QED BY <1>2, <2>1, <2>2, <2>3, <2>4, <2>5 DEF SendEvent
  <1>3. CASE CqStep
    <2>1. CASE NextOk
      <3>1. UNCHANGED <<m_events, evt, handed, failed>>
            /\ outstanding > 0 /\ outstanding' = outstanding - 1
        BY <2>1 DEF NextOk
      <3>2. P' = P
        BY <3>1 DEF InHand
      <3>3. ~(outstanding' > 0)
        BY <3>1 DEF IInv, WriterExclusive
      <3>4. Channel!Acknowledge
        BY <3>1, <3>2, <3>3 DEF Channel!Acknowledge
      <3> QED BY <3>4 DEF Channel!Next
    <2>2. CASE NextNotOk
      <3>1. UNCHANGED <<m_events, evt, handed>> /\ failed'
            /\ outstanding > 0 /\ outstanding' = outstanding - 1
        BY <2>2 DEF NextNotOk
      <3>2. P' = P
        BY <3>1 DEF InHand
      <3>3. ~(outstanding' > 0)
        BY <3>1 DEF IInv, WriterExclusive
      <3>4. Channel!Close
        BY <3>1, <3>2, <3>3 DEF Channel!Close
      <3> QED BY <3>4 DEF Channel!Next
    <2>3. CASE FinishedPop
      <3>1. m_events # <<>> /\ m_events' = Tail(m_events)
            /\ handed' = Append(handed, Head(m_events))
            /\ outstanding' = outstanding + 1
            /\ UNCHANGED <<evt, failed>>
        BY <2>3 DEF FinishedPop, Write, IInv, LocksHeld
      <3>2. Head(m_events) \in Events
            /\ EventsIn(m_events) = EventsIn(m_events') \cup {Head(m_events)}
        BY <1>a, <3>1, HeadEvents
      <3>3. Head(m_events) \notin EventsIn(m_events')
        BY <1>0, <1>a, <3>1, NoRepeatTail DEF EachEventOnce
      <3>4. Head(m_events) \notin InHand /\ InHand' = InHand
        BY <1>0, <3>1, <3>2 DEF EachEventOnce, InHand
      <3>5. Head(m_events) \in P /\ P' = P \ {Head(m_events)}
        BY <3>2, <3>3, <3>4
      <3>6. outstanding = 0 /\ ~failed
        BY <2>3 DEF FinishedPop, IInv, WriterExclusive, CqFinishing
      <3> QED BY <3>1, <3>2, <3>5, <3>6, <1>h
    <2>4. CASE Logoff
      <3>1. failed /\ m_events' = <<>>
            /\ UNCHANGED <<evt, handed, outstanding, failed>>
        BY <2>4 DEF Logoff, IInv, LocksHeld, grpc
      <3>2. P' \subseteq P
        BY <3>1, EmptyEvents DEF InHand
      <3> QED BY <3>1, <3>2, <1>d
    <2>5. CASE FinishedLoad \/ FinishedLock \/ FinishedStoreIdle \/ OnFinished
      <3>1. UNCHANGED <<m_events, evt, handed, outstanding, failed>>
        BY <2>5 DEF FinishedLoad, FinishedLock, FinishedStoreIdle, OnFinished,
                    grpc
      <3>2. P' = P
        BY <3>1 DEF InHand
      <3> QED BY <3>1, <3>2, <1>s
    <2> QED BY <1>3, <2>1, <2>2, <2>3, <2>4, <2>5
            DEF CqStep, OnAsyncEventFinished
  <1>4. CASE Disconnect \/ UNCHANGED vars
    <2>1. UNCHANGED <<m_events, evt, handed, outstanding, failed>>
      BY <1>4 DEF Disconnect, vars
    <2>2. P' = P
      BY <2>1 DEF InHand
    <2> QED BY <2>1, <2>2, <1>s
  <1> QED BY <1>1, <1>2, <1>3, <1>4 DEF Next

(* The instance implements EventChannel: whoever posts to a stream or      *)
(* reads it sees an unordered channel that gives each accepted event to    *)
(* the transport at most once, one at a time, and closes on a failure.     *)
THEOREM Refinement == Spec => ImplementsChannel
  BY ChannelInit, ChannelStep, Invariance, EventsInvariance, PTL
  DEF Spec, ImplementsChannel, Channel!Spec

-----------------------------------------------------------------------------
(* How far the stream is from FIFO.                                        *)

(* The queue holds events in the order of their posting, and who is inside *)
(* SendEvent has the last one.                                             *)
OrderKept ==
    /\ NoRepeat(posted)
    /\ \A t \in Senders : pc[t] # "idle" =>
           posted # <<>> /\ evt[t] = posted[Len(posted)]
    /\ \A p, q \in 1..Len(m_events), i, j \in 1..Len(posted) :
           p < q /\ posted[i] = m_events[p] /\ posted[j] = m_events[q] => i < j

(* An idle stream has at most one event queued or about to be, and so has  *)
(* one whose next Write is that of a sender.                               *)
IdleQueue ==
    /\ m_state = "IDLE" => Len(m_events) <= 1
    /\ \A t \in Senders : pc[t] = "write" => Len(m_events) <= 1
    /\ \A t \in Senders : m_state = "IDLE" /\ pc[t] = "push" => m_events = <<>>
    /\ pc[CqThread] = "finished_store" => m_events = <<>>

(* Only the front of the queue has been overtaken, and it goes next.       *)
OvertakenIsNext ==
    \A i \in 1..Len(posted) :
        posted[i] \notin EventsIn(handed) /\ Overtakers(i) # {} =>
            \/ failed
            \/ /\ m_events # <<>> /\ posted[i] = Head(m_events)
               /\ m_state # "IDLE"
               /\ \A t \in Senders : pc[t] # "write"

(* AtMostOneOvertake without counting.                                     *)
OneOvertaker ==
    \A i \in 1..Len(posted) : \A j, k \in Overtakers(i) : j = k

OrderInv == OrderKept /\ IdleQueue /\ OvertakenIsNext /\ OneOvertaker

(* Giving e to the writer puts e before whatever has not been given yet.   *)
LEMMA HandedBeforeWrite ==
  ASSUME handed \in Seq(Events), NEW e \in Events, handed' = Append(handed, e),
         NEW a, NEW b
  PROVE  HandedBefore(a, b)' <=> \/ HandedBefore(a, b)
                                 \/ a = e /\ b \notin EventsIn(handed) /\ b # e
  <1> DEFINE n == Len(handed)
             Out(k) == \A l \in 1..k : handed[l] # b
  <1>1. n \in Nat /\ Len(handed') = n + 1 /\ handed' \in Seq(Events)
    OBVIOUS
  <1>2. handed'[n + 1] = e /\ \A l \in 1..n : handed'[l] = handed[l]
    OBVIOUS
  <1>3. \A k \in 1..n : b \notin EventsIn(SubSeq(handed, 1, k)) <=> Out(k)
    BY DEF EventsIn
  <1>4. \A k \in 1..(n + 1) : b \notin EventsIn(SubSeq(handed', 1, k))
                              <=> \A l \in 1..k : handed'[l] # b
    BY <1>1 DEF EventsIn
  <1>5. HandedBefore(a, b) <=> \E k \in 1..n : handed[k] = a /\ Out(k)
    BY <1>3 DEF HandedBefore
  <1>6. HandedBefore(a, b)' <=>
            \E k \in 1..(n + 1) : handed'[k] = a /\ \A l \in 1..k : handed'[l] # b
    BY <1>1, <1>4 DEF HandedBefore
  <1>7. b \notin EventsIn(handed) <=> Out(n)
    BY DEF EventsIn
  <1>8. \A k \in 1..n : (\A l \in 1..k : handed'[l] # b) <=> Out(k)
    BY <1>1, <1>2
  <1>9. (\A l \in 1..(n + 1) : handed'[l] # b) <=> Out(n) /\ b # e
    BY <1>1, <1>2
  <1> HIDE DEF Out, n
  <1>10. (\E k \in 1..(n + 1) : handed'[k] = a /\ \A l \in 1..k : handed'[l] # b)
         <=> \/ \E k \in 1..n : handed'[k] = a /\ \A l \in 1..k : handed'[l] # b
             \/ handed'[n + 1] = a /\ \A l \in 1..(n + 1) : handed'[l] # b
    BY <1>1
  <1> QED BY <1>2, <1>5, <1>6, <1>7, <1>8, <1>9, <1>10

LEMMA OvertakersWrite ==
  ASSUME IInv, NEW e \in Events, handed' = Append(handed, e), UNCHANGED posted,
         NEW i \in 1..Len(posted), NEW j
  PROVE  j \in Overtakers(i)' <=>
            \/ j \in Overtakers(i)
            \/ /\ j \in (i + 1)..Len(posted) /\ posted[j] = e
               /\ posted[i] \notin EventsIn(handed) /\ posted[i] # e
  <1>1. handed \in Seq(Events)
    BY DEF IInv, TypeOK
  <1>2. HandedBefore(posted[j], posted[i])' <=>
            \/ HandedBefore(posted[j], posted[i])
            \/ posted[j] = e /\ posted[i] \notin EventsIn(handed) /\ posted[i] # e
    <2>1. \A a, b : HandedBefore(a, b)' <=>
            \/ HandedBefore(a, b)
            \/ a = e /\ b \notin EventsIn(handed) /\ b # e
      BY <1>1, HandedBeforeWrite
    <2> QED BY <2>1 DEF HandedBefore
  <1> QED BY <1>2 DEF Overtakers

(* Nothing that has not been given to the writer has overtaken anything.   *)
LEMMA OvertakersPost ==
  ASSUME IInv, NEW e \in Events, posted' = Append(posted, e), UNCHANGED handed,
         e \notin EventsIn(handed)
  PROVE  /\ \A i \in 1..Len(posted) : Overtakers(i)' = Overtakers(i)
         /\ Overtakers(Len(posted))' = {}
  <1> DEFINE n == Len(posted)
  <1>1. n \in Nat /\ Len(posted') = n + 1 /\ posted'[n + 1] = e
        /\ \A i \in 1..n : posted'[i] = posted[i]
    BY DEF IInv, TypeOK
  <1>2. \A b : ~HandedBefore(e, b)
    BY DEF HandedBefore, EventsIn
  <1>3. \A a, b : HandedBefore(a, b)' <=> HandedBefore(a, b)
    BY DEF HandedBefore
  <1>4. ASSUME NEW i \in 1..n
        PROVE  Overtakers(i)' = Overtakers(i)
    <2>1. \A j \in (i + 1)..(n + 1) : j = n + 1 \/ j \in (i + 1)..n
      BY <1>1
    <2>2. \A j \in (i + 1)..n : posted'[j] = posted[j] /\ j \in (i + 1)..(n + 1)
      BY <1>1
    <2> QED BY <1>1, <1>2, <1>3, <2>1, <2>2 DEF Overtakers, HandedBefore
  <1>5. Overtakers(Len(posted))' = {}
    BY <1>1 DEF Overtakers
  <1> QED BY <1>4, <1>5

LEMMA OrderInit == Init => OrderInv
  <1> SUFFICES ASSUME Init PROVE OrderInv
    OBVIOUS
  <1>1. posted = <<>> /\ m_events = <<>> /\ \A t \in Threads : pc[t] = "idle"
    BY DEF Init
  <1>2. Len(posted) = 0 /\ Len(m_events) = 0
    BY <1>1
  <1> QED BY <1>1, <1>2 DEF OrderInv, OrderKept, IdleQueue, OvertakenIsNext,
                            OneOvertaker, NoRepeat, Threads

(* One sender at a time is inside SendEvent.                               *)
LEMMA OneSender ==
  ASSUME IInv, NEW t \in Senders, pc[t] # "idle", NEW u \in Senders, u # t
  PROVE  pc[u] = "idle"
  BY DEF IInv, LocksHeld

(* It posts the last event of the history.                                 *)
LEMMA LastPosted ==
  ASSUME IInv, OrderKept, NEW t \in Senders, pc[t] # "idle"
  PROVE  /\ Len(posted) \in Nat /\ Len(posted) > 0
         /\ posted[Len(posted)] = evt[t]
         /\ \A i \in 1..Len(posted) : posted[i] = evt[t] => i = Len(posted)
  <1>1. posted \in Seq(Events) /\ posted # <<>> /\ posted[Len(posted)] = evt[t]
    BY DEF IInv, TypeOK, OrderKept
  <1>2. Len(posted) \in Nat /\ Len(posted) > 0 /\ Len(posted) \in 1..Len(posted)
    BY <1>1
  <1> QED BY <1>1, <1>2 DEF OrderKept, NoRepeat

(* Steps that change neither the queue nor the history.                    *)
LEMMA OrderSame ==
  ASSUME IInv, OrderInv, UNCHANGED <<m_events, posted, handed>>,
         \A t \in Senders : pc'[t] # "idle" => pc[t] # "idle" /\ evt'[t] = evt[t],
         IdleQueue', failed => failed',
         ~failed' /\ m_events # <<>> /\ m_state # "IDLE"
                  /\ (\A t \in Senders : pc[t] # "write")
             => m_state' # "IDLE" /\ \A t \in Senders : pc'[t] # "write"
  PROVE  OrderInv'
  <1> USE DEF OrderInv
  <1>1. OrderKept'
    BY DEF OrderKept
  <1>2. \A i : Overtakers(i)' = Overtakers(i)
    BY DEF Overtakers, HandedBefore
  <1>3. OvertakenIsNext'
    BY <1>2 DEF OvertakenIsNext
  <1>4. OneOvertaker'
    BY <1>2 DEF OneOvertaker
  <1> QED BY <1>1, <1>3, <1>4

LEMMA OrderPost ==
  ASSUME IInv, EventsInv, OrderInv, NEW t \in Senders, NEW e \in Events,
         PostEvent(t, e)
  PROVE  OrderInv'
  <1> USE DEF OrderInv, PostEvent
  <1> DEFINE n == Len(posted)
  <1>1. /\ m_events \in Seq(Events) /\ posted \in Seq(Events)
        /\ pc \in [Threads -> SenderLabels \cup CqLabels]
        /\ evt \in [Senders -> Events \cup {NoEvent}]
    BY DEF IInv, TypeOK
  <1>2. n \in Nat /\ Len(posted') = n + 1 /\ posted'[n + 1] = e
        /\ \A i \in 1..n : posted'[i] = posted[i]
    BY <1>1
  <1>3. e \notin EventsIn(handed) /\ e \notin EventsIn(m_events)
    BY DEF EventsInv, EventsTracked
  <1>4. /\ pc'[t] = "load" /\ evt'[t] = e
        /\ \A u \in Senders : u # t => pc'[u] = "idle"
        /\ pc'[CqThread] = pc[CqThread]
    <2>1. \A u \in Senders : pc[u] = "idle"
      BY ThreadsAssumption DEF IInv, LocksHeld
    <2> QED BY <1>1, <2>1, ThreadsAssumption DEF Goto, Threads
  <1>5. OrderKept'
    <2>1. NoRepeat(posted')
      BY <1>1, NoRepeatAppend DEF OrderKept
    <2>2. posted' # <<>> /\ evt'[t] = posted'[Len(posted')]
      BY <1>1, <1>2, <1>4
    <2>3. \A p \in 1..Len(m_events) : m_events[p] # e
      BY <1>3 DEF EventsIn
    <2>4. \A i \in 1..Len(posted') : i \in 1..n \/ posted'[i] = e
      BY <1>2
    <2>5. \A p, q \in 1..Len(m_events), i, j \in 1..Len(posted') :
             p < q /\ posted'[i] = m_events[p] /\ posted'[j] = m_events[q] => i < j
      BY <1>2, <2>3, <2>4 DEF OrderKept
    <2> QED BY <1>4, <2>1, <2>2, <2>5 DEF OrderKept
  <1>6. IdleQueue'
    BY <1>4 DEF IdleQueue
  <1>7. /\ \A i \in 1..n : Overtakers(i)' = Overtakers(i)
        /\ Overtakers(Len(posted))' = {}
    BY <1>3, OvertakersPost
  <1>8. \A i \in 1..Len(posted') : i \in 1..n \/ i = Len(posted')
    BY <1>2
  <1>9. Overtakers(Len(posted))' = {} => \A i : i = Len(posted') => Overtakers(i)' = {}
    BY DEF Overtakers
  <1>10. OvertakenIsNext'
    BY <1>2, <1>4, <1>7, <1>8, <1>9 DEF OvertakenIsNext, grpc
  <1>11. OneOvertaker'
    BY <1>7, <1>8, <1>9 DEF OneOvertaker
  <1> QED BY <1>5, <1>6, <1>10, <1>11

(* A direct Write overtakes what is queued on the idle stream: one event   *)
(* that nothing has overtaken yet.                                         *)
LEMMA OrderWrite ==
  ASSUME IInv, EventsInv, OrderInv, NEW t \in Senders, SendEventWrite(t)
  PROVE  OrderInv'
  <1> USE DEF OrderInv, SendEventWrite, Write
  <1> DEFINE n == Len(posted)
  <1>0. PICK e \in Events : e = evt[t]
    BY DEF IInv, LocksHeld
  <1>1. /\ m_events \in Seq(Events) /\ posted \in Seq(Events) /\ handed \in Seq(Events)
        /\ pc \in [Threads -> SenderLabels \cup CqLabels]
        /\ evt \in [Senders -> Events \cup {NoEvent}]
    BY DEF IInv, TypeOK
  <1>2. /\ n \in Nat /\ n > 0 /\ posted[n] = e
        /\ \A i \in 1..n : posted[i] = e => i = n
    BY <1>0, LastPosted
  <1>3. /\ \A u \in Senders : pc'[u] = "idle"
        /\ pc'[CqThread] = pc[CqThread]
    <2>1. \A u \in Senders : u # t => pc[u] = "idle"
      BY OneSender
    <2> QED BY <1>1, <2>1, ThreadsAssumption DEF ReturnFromSendEvent, Goto, Threads
  <1>4. ~failed /\ m_state # "IDLE"
    BY DEF IInv, WriterExclusive
  <1>5. Len(m_events) <= 1
    BY DEF IdleQueue
  <1>6. OrderKept'
    BY <1>3 DEF OrderKept
  <1>7. IdleQueue'
    BY <1>3, <1>4 DEF IdleQueue
  <1>8. EventsIn(handed') = EventsIn(handed) \cup {e}
    BY <1>0, <1>1, AppendEvents
  <1>9. \A i \in 1..n : posted[i] \notin EventsIn(handed') =>
           m_events # <<>> /\ posted[i] = Head(m_events)
    <2>1. InHand = {e}
      BY <1>0, InHandOf DEF EventsInv
    <2>2. \A i \in 1..n : posted[i] \in EventsIn(posted)
      BY DEF EventsIn
    <2>3. \A x \in EventsIn(m_events) : m_events # <<>> /\ x = Head(m_events)
      BY <1>1, <1>5 DEF EventsIn
    <2> QED BY <1>4, <1>8, <2>1, <2>2, <2>3 DEF EventsInv, EachEventOnce
  <1>10. ASSUME NEW i \in 1..n
         PROVE  /\ \A j, k \in Overtakers(i)' : j = k
                /\ posted[i] \notin EventsIn(handed') => i # n
    <2>1. \A j : j \in Overtakers(i)' <=>
            \/ j \in Overtakers(i)
            \/ /\ j \in (i + 1)..n /\ posted[j] = e
               /\ posted[i] \notin EventsIn(handed) /\ posted[i] # e
      BY <1>0, OvertakersWrite
    <2>2. CASE posted[i] \in EventsIn(handed) \/ posted[i] = e
      BY <1>8, <2>1, <2>2 DEF OneOvertaker
    <2>3. CASE posted[i] \notin EventsIn(handed) /\ posted[i] # e
      <3>1. Overtakers(i) = {}
        BY <1>4, <2>3 DEF OvertakenIsNext
      <3>2. \A j \in Overtakers(i)' : j = n
        BY <1>2, <2>1, <3>1
      <3> QED BY <1>2, <2>3, <3>2
    <2> QED BY <2>2, <2>3
  <1>11. OneOvertaker'
    BY <1>10 DEF OneOvertaker
  <1>12. OvertakenIsNext'
    BY <1>3, <1>4, <1>9 DEF OvertakenIsNext
  <1> QED BY <1>6, <1>7, <1>11, <1>12

(* What is pushed is the last event posted; it is at most the second one   *)
(* of a busy stream's front.                                               *)
LEMMA OrderPush ==
  ASSUME IInv, EventsInv, OrderInv, NEW t \in Senders, SendEventPush(t)
  PROVE  OrderInv'
  <1> USE DEF OrderInv, SendEventPush
  <1> DEFINE n == Len(posted)
             m == Len(m_events)
  <1>0. PICK e \in Events : e = evt[t]
    BY DEF IInv, LocksHeld
  <1>1. /\ m_events \in Seq(Events) /\ posted \in Seq(Events)
        /\ pc \in [Threads -> SenderLabels \cup CqLabels]
    BY DEF IInv, TypeOK
  <1>2. /\ n \in Nat /\ n > 0 /\ posted[n] = e
        /\ \A i \in 1..n : posted[i] = e => i = n
    BY <1>0, LastPosted
  <1>3. /\ \A u \in Senders : pc'[u] = "idle"
        /\ pc'[CqThread] = pc[CqThread]
    <2>1. \A u \in Senders : u # t => pc[u] = "idle"
      BY OneSender
    <2> QED BY <1>1, <2>1, ThreadsAssumption DEF ReturnFromSendEvent, Goto, Threads
  <1>4. /\ m \in Nat /\ Len(m_events') = m + 1 /\ m_events'[m + 1] = e
        /\ \A p \in 1..m : m_events'[p] = m_events[p]
    BY <1>0, <1>1
  <1>5. \A p \in 1..m : m_events[p] # e
    <2>1. e \in InHand
      BY <1>0, InHandOf DEF EventsInv
    <2> QED BY <2>1 DEF EventsInv, EachEventOnce, EventsIn
  <1>6. OrderKept'
    <2>1. \A p, q \in 1..Len(m_events'), i, j \in 1..n :
             p < q /\ posted[i] = m_events'[p] /\ posted[j] = m_events'[q] => i < j
      <3> SUFFICES ASSUME NEW p \in 1..(m + 1), NEW q \in 1..(m + 1),
                          NEW i \in 1..n, NEW j \in 1..n, p < q,
                          posted[i] = m_events'[p], posted[j] = m_events'[q]
                   PROVE  i < j
        BY <1>4
      <3>1. p \in 1..m /\ m_events'[p] = m_events[p] /\ posted[i] # e
        BY <1>4, <1>5
      <3>2. CASE q = m + 1
        <4>1. j = n /\ i # n
          BY <1>2, <1>4, <3>1, <3>2
        <4> QED BY <1>2, <4>1
      <3>3. CASE q # m + 1
        BY <1>4, <3>1, <3>3 DEF OrderKept
      <3> QED BY <3>2, <3>3
    <2>2. /\ UNCHANGED posted /\ NoRepeat(posted)
          /\ \A u \in Senders : pc'[u] # "idle" =>
                 posted # <<>> /\ evt'[u] = posted[Len(posted)]
      BY <1>3 DEF OrderKept
    <2> HIDE DEF SendEventPush
    <2> QED BY <2>1, <2>2 DEF OrderKept
  <1>7. IdleQueue'
    <2>1. pc[CqThread] # "finished_store"
      BY ThreadsAssumption DEF IInv, LocksHeld
    <2>2. m_state = "IDLE" => Len(m_events') <= 1
      BY <1>4 DEF IdleQueue
    <2> QED BY <1>3, <2>1, <2>2 DEF IdleQueue
  <1>8. \A i : Overtakers(i)' = Overtakers(i)
    BY DEF Overtakers, HandedBefore
  <1>9. m_events # <<>> => m_events' # <<>> /\ Head(m_events') = Head(m_events)
    BY <1>0, <1>1
  <1>10. OvertakenIsNext'
    BY <1>3, <1>8, <1>9 DEF OvertakenIsNext, grpc
  <1>11. OneOvertaker'
    BY <1>8 DEF OneOvertaker
  <1> QED BY <1>6, <1>7, <1>10, <1>11

(* The front of the queue was posted before all that is not given to the   *)
(* writer yet, so it overtakes nothing.                                    *)
LEMMA OrderPop ==
  ASSUME IInv, EventsInv, OrderInv, FinishedPop
  PROVE  OrderInv'
  <1> USE DEF OrderInv, FinishedPop, Write
  <1> DEFINE n == Len(posted)
             m == Len(m_events)
  <1>1. /\ m_events \in Seq(Events) /\ posted \in Seq(Events) /\ handed \in Seq(Events)
        /\ pc \in [Threads -> SenderLabels \cup CqLabels] /\ m_events # <<>>
    BY DEF IInv, TypeOK, LocksHeld
  <1>2. PICK h \in Events : h = Head(m_events) /\ h = m_events[1]
    BY <1>1
  <1>3. /\ pc'[CqThread] = "idle"
        /\ \A u \in Senders : pc'[u] = pc[u] /\ pc[u] # "write"
        /\ ~failed
    BY <1>1, ThreadsAssumption DEF Goto, Threads, IInv, WriterExclusive, CqFinishing
  <1>4. /\ m \in Nat /\ m > 0 /\ Len(m_events') = m - 1
        /\ \A p \in 1..(m - 1) : m_events'[p] = m_events[p + 1]
    BY <1>1
  <1>5. OrderKept'
    <2>1. \A p, q \in 1..Len(m_events'), i, j \in 1..n :
             p < q /\ posted[i] = m_events'[p] /\ posted[j] = m_events'[q] => i < j
      <3> SUFFICES ASSUME NEW p \in 1..(m - 1), NEW q \in 1..(m - 1),
                          NEW i \in 1..n, NEW j \in 1..n, p < q,
                          posted[i] = m_events'[p], posted[j] = m_events'[q]
                   PROVE  i < j
        BY <1>4
      <3>1. p + 1 \in 1..m /\ q + 1 \in 1..m /\ p + 1 < q + 1
        BY <1>4
      <3>2. posted[i] = m_events[p + 1] /\ posted[j] = m_events[q + 1]
        BY <1>4
      <3> QED BY <3>1, <3>2 DEF OrderKept
    <2>2. /\ UNCHANGED posted /\ NoRepeat(posted)
          /\ \A u \in Senders : pc'[u] # "idle" =>
                 posted # <<>> /\ evt'[u] = posted[Len(posted)]
      BY <1>3 DEF OrderKept
    <2> HIDE DEF FinishedPop, Write
    <2> QED BY <2>1, <2>2 DEF OrderKept
  <1>6. IdleQueue'
    BY <1>3 DEF IdleQueue
  <1>7. EventsIn(handed') = EventsIn(handed) \cup {h}
    BY <1>1, <1>2, AppendEvents
  <1>8. ASSUME NEW i \in 1..n, NEW j \in (i + 1)..n, posted[j] = h,
               posted[i] \notin EventsIn(handed), posted[i] # h
        PROVE  FALSE
    <2>1. posted[i] \in EventsIn(m_events) \cup InHand
      <3>1. posted[i] \in EventsIn(posted)
        BY DEF EventsIn
      <3> QED BY <1>3, <1>8, <3>1 DEF EventsInv, EachEventOnce
    <2>2. i \in Nat /\ n \in Nat /\ j \in 1..n /\ i < j
      BY <1>1
    <2>3. CASE posted[i] \in EventsIn(m_events)
      <3>1. PICK q \in 1..m : posted[i] = m_events[q]
        BY <2>3 DEF EventsIn
      <3>2. q # 1 /\ 1 \in 1..m /\ 1 < q
        BY <1>2, <1>4, <1>8, <3>1
      <3>3. j < i
        BY <1>2, <1>8, <2>2, <3>1, <3>2 DEF OrderKept
      <3> QED BY <2>2, <3>3
    <2>4. CASE posted[i] \in InHand
      <3>1. PICK t \in Senders : posted[i] = evt[t] /\ evt[t] # NoEvent
        BY <2>4 DEF InHand
      <3>2. pc[t] # "idle"
        BY <3>1 DEF EventsInv, EventsTracked
      <3>3. i = n
        BY <3>1, <3>2, LastPosted
      <3> QED BY <2>2, <3>3
    <2> QED BY <2>1, <2>3, <2>4
  <1>9. \A i \in 1..n : \A j : j \in Overtakers(i)' <=> j \in Overtakers(i)
    BY <1>2, <1>8, OvertakersWrite
  <1>10. OneOvertaker'
    BY <1>9 DEF OneOvertaker
  <1>11. OvertakenIsNext'
    <2> SUFFICES ASSUME NEW i \in 1..n, posted[i] \notin EventsIn(handed'),
                        Overtakers(i)' # {}
                 PROVE  FALSE
      BY DEF OvertakenIsNext
    <2>1. posted[i] \notin EventsIn(handed) /\ posted[i] # h
      BY <1>7
    <2>2. Overtakers(i) # {}
      BY <1>9
    <2> QED BY <1>2, <1>3, <2>1, <2>2 DEF OvertakenIsNext
  <1> QED BY <1>5, <1>6, <1>10, <1>11

(* What a log-off drops was never given to the writer.                     *)
LEMMA OrderLogoff ==
  ASSUME IInv, OrderInv, Logoff
  PROVE  OrderInv'
  <1> USE DEF OrderInv, Logoff
  <1>1. failed /\ failed' = failed
    BY DEF IInv, LocksHeld, grpc
  <1>2. /\ pc'[CqThread] = "idle" /\ \A u \in Senders : pc'[u] = pc[u]
        /\ Len(m_events') = 0
    BY ThreadsAssumption DEF Goto, Threads, IInv, TypeOK
  <1>3. OrderKept' /\ IdleQueue'
    BY <1>2 DEF OrderKept, IdleQueue
  <1>4. \A i : Overtakers(i)' = Overtakers(i)
    BY DEF Overtakers, HandedBefore
  <1> QED BY <1>1, <1>3, <1>4 DEF OvertakenIsNext, OneOvertaker

LEMMA OrderStep == IInv /\ EventsInv /\ OrderInv /\ [Next]_vars => OrderInv'
  <1> SUFFICES ASSUME IInv, EventsInv, OrderInv, [Next]_vars PROVE OrderInv'
    OBVIOUS
  <1>0. pc \in [Threads -> SenderLabels \cup CqLabels]
        /\ evt \in [Senders -> Events \cup {NoEvent}]
    BY DEF IInv, TypeOK
  <1>1. ASSUME NEW t \in Senders, SendEventLoad(t)
        PROVE  OrderInv'
    <2>1. /\ pc'[CqThread] = pc[CqThread] /\ pc'[t] \in {"idle", "exchange"}
          /\ \A u \in Senders : u # t => pc'[u] = pc[u] /\ evt'[u] = evt[u]
          /\ pc'[t] # "idle" => evt'[t] = evt[t]
      BY <1>0, <1>1, ThreadsAssumption
         DEF SendEventLoad, ReturnFromSendEvent, Goto, Threads
    <2>2. IdleQueue'
      BY <1>1, <2>1 DEF SendEventLoad, OrderInv, IdleQueue
    <2> QED BY <1>1, <2>1, <2>2, OrderSame DEF SendEventLoad, grpc
  <1>2. ASSUME NEW t \in Senders, SendEventExchange(t)
        PROVE  OrderInv'
    <2>1. /\ pc'[CqThread] = pc[CqThread]
          /\ pc'[t] = IF m_state = "IDLE" THEN "write" ELSE "push"
          /\ \A u \in Senders : u # t => pc'[u] = pc[u]
      BY <1>0, <1>2, ThreadsAssumption DEF SendEventExchange, Goto, Threads
    <2>2. IdleQueue'
      BY <1>2, <2>1 DEF SendEventExchange, OrderInv, IdleQueue
    <2> QED BY <1>2, <2>1, <2>2, OrderSame DEF SendEventExchange, grpc
  <1>3. CASE \/ NextOk \/ NextNotOk \/ FinishedLoad \/ FinishedLock
             \/ FinishedStoreIdle \/ OnFinished
    <2>1. /\ \A u \in Senders : pc'[u] = pc[u]
          /\ UNCHANGED <<m_events, evt, posted, handed>>
          /\ failed => failed'
      BY <1>0, <1>3, ThreadsAssumption
         DEF NextOk, NextNotOk, FinishedLoad, FinishedLock, FinishedStoreIdle,
             OnFinished, Goto, Threads, grpc
    <2>2. pc'[CqThread] = "finished_store" => m_events = <<>>
      BY <1>0, <1>3 DEF NextOk, NextNotOk, FinishedLoad, FinishedLock,
             FinishedStoreIdle, OnFinished, Goto, Threads
    <2>3. m_state' = "IDLE" => m_state = "IDLE" \/ m_events = <<>>
      BY <1>3 DEF NextOk, NextNotOk, FinishedLoad, FinishedLock,
             FinishedStoreIdle, OnFinished, OrderInv, IdleQueue
    <2>4. IdleQueue'
      <3>1. Len(<<>>) = 0
        OBVIOUS
      <3> QED BY <2>1, <2>2, <2>3, <3>1 DEF OrderInv, IdleQueue
    <2> QED BY <2>1, <2>3, <2>4, OrderSame
  <1>4. CASE Disconnect \/ UNCHANGED vars
    <2>1. UNCHANGED <<m_state, m_events, pc, evt, failed, posted, handed>>
      BY <1>4 DEF Disconnect, vars
    <2>2. IdleQueue'
      BY <2>1 DEF OrderInv, IdleQueue
    <2> QED BY <2>1, <2>2, OrderSame
  <1> QED BY <1>1, <1>2, <1>3, <1>4, OrderPost, OrderWrite, OrderPush, OrderPop,
             OrderLogoff DEF Next, SendEvent, CqStep, OnAsyncEventFinished

(* An event is overtaken by at most one later one: the sender that finds   *)
(* IDLE passes the one event that was queued too late, and after it the    *)
(* completion-queue thread empties the queue in order.                     *)
THEOREM OvertakeBounded == Spec => []AtMostOneOvertake
  <1>1. IInv /\ OrderInv => AtMostOneOvertake
    <2> SUFFICES ASSUME IInv, OrderInv, NEW i \in 1..Len(posted)
                 PROVE  Cardinality(Overtakers(i)) <= 1
      BY DEF AtMostOneOvertake
    <2>1. \A j, k \in Overtakers(i) : j = k
      BY DEF OrderInv, OneOvertaker
    <2>2. CASE Overtakers(i) = {}
      BY <2>2, FS_EmptySet
    <2>3. CASE Overtakers(i) # {}
      <3>1. PICK j : Overtakers(i) = {j}
        BY <2>1, <2>3
      <3>2. Cardinality({j}) = 1
        BY FS_Singleton
      <3> QED BY <3>1, <3>2
    <2> QED BY <2>2, <2>3
  <1> QED BY <1>1, OrderInit, OrderStep, Invariance, EventsInvariance, PTL DEF Spec

=============================================================================
