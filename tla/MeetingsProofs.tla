--------------------------- MODULE MeetingsProofs ---------------------------
(***************************************************************************)
(* Proofs about Meetings for any handlers, users, markers and messages:    *)
(* whatever operations of MongoDB fail and however the handlers overlap, a *)
(* known chat can be joined and a reader of the history misses nothing.    *)
(***************************************************************************)
EXTENDS Meetings, TLAPS

Sends == {"save", "get_parts", "post"}

(* What a handler of AddMarker, JoinChat or SendChatMessage works on, and  *)
(* what AddMarker has already written.                                     *)
JobsTracked ==
    \A h \in Handlers :
        /\ pc[h] \in Sends \cup {"insert_chat", "set_chat_id", "post_marker",
                                 "add_part"} => job[h].marker \in Markers
        /\ pc[h] = "insert_chat" => job[h].marker \in markers
        /\ pc[h] = "set_chat_id" => job[h].marker \in markers \cap chats
        /\ pc[h] = "post_marker" => job[h].chat \in chat_id \cup {NoMarker}
        /\ pc[h] \in Sends <=> job[h].message # NoMessage

(* A marker points to its chat only when both exist, only the uuids of     *)
(* such chats are posted or listed, and a chat is created with its first   *)
(* participant.                                                            *)
ChatsTracked ==
    /\ chat_id \subseteq markers \cap chats
    /\ \A e \in announced : e.chat \in chat_id \cup {NoMarker}
    /\ \A h \in Handlers : found[h] \subseteq chat_id
    /\ \A m \in Markers : m \in chats <=> parts[m] # {}

(* A message is sent by one handler, to one chat, whose history has it     *)
(* before the participants are read, unless the save failed; it is posted  *)
(* to participants only.                                                   *)
SendsTracked ==
    /\ \A g, h \in Handlers :
           job[g].message = job[h].message /\ g # h
           => job[g].message = NoMessage
    /\ \A h \in Handlers :
           /\ pc[h] = "save" =>
                  \A m \in Markers : job[h].message \notin messages[m]
           /\ pc[h] \in {"get_parts", "post"} =>
                  /\ job[h].message \in messages[job[h].marker] \cup unsaved
                  /\ \A m \in Markers :
                         job[h].message \in messages[m] => m = job[h].marker
           /\ pc[h] = "post" => todo[h] \subseteq parts[job[h].marker]

(* Only participants that have stayed attached count as having read.       *)
ReadersTracked ==
    \A u \in Users, m \in Markers :
        fetched[u][m].known => u \in online /\ u \in parts[m]

(* The inductive invariant.                                                *)
MeetingsInv ==
    /\ TypeOK /\ JobsTracked /\ ChatsTracked /\ SendsTracked
    /\ ReadersTracked /\ DeliveredIsKept /\ NoMessageMissed

-----------------------------------------------------------------------------
LEMMA MeetingsInvInit == Init => MeetingsInv
  <1> SUFFICES ASSUME Init PROVE MeetingsInv
    OBVIOUS
  <1> USE DEF Init
  <1>1. TypeOK
    BY DEF TypeOK, AnyUser, Labels, Nothing, NotFetched
  <1>2. JobsTracked /\ ChatsTracked
    BY DEF JobsTracked, ChatsTracked, Sends, Nothing
  <1>3. SendsTracked /\ ReadersTracked
    BY DEF SendsTracked, ReadersTracked, Nothing, NotFetched
  <1>4. DeliveredIsKept /\ NoMessageMissed
    BY DEF DeliveredIsKept, NoMessageMissed
  <1> QED BY <1>1, <1>2, <1>3, <1>4 DEF MeetingsInv

(* A message on its way to a user stays on its way when its handler does   *)
(* not move.                                                               *)
LEMMA DeliveringStays ==
  ASSUME NEW g \in Handlers, NEW t \in Messages, NEW u \in Users,
         Delivering(t, u), ~Sending(g, t),
         \A h \in Handlers \ {g} :
             pc'[h] = pc[h] /\ job'[h] = job[h] /\ todo'[h] = todo[h]
  PROVE  Delivering(t, u)'
  BY DEF Delivering, Sending

(* Steps of a handler that is not sending a message and touches neither    *)
(* messages nor their readers.                                             *)
LEMMA NoSendInv ==
  ASSUME MeetingsInv, TypeOK', NEW h \in Handlers, pc[h] \notin Sends,
         UNCHANGED <<messages, online, inbox, fetched, abandoned, unsaved>>,
         chats \subseteq chats',
         \A m \in Markers : parts[m] \subseteq parts'[m],
         \A g \in Handlers \ {h} :
             pc'[g] = pc[g] /\ job'[g] = job[g] /\ todo'[g] = todo[g],
         pc'[h] \notin Sends, job'[h].message = NoMessage
  PROVE  SendsTracked' /\ ReadersTracked' /\ DeliveredIsKept'
         /\ NoMessageMissed'
  <1> USE DEF MeetingsInv
  <1>1. SendsTracked'
    <2>1. \A g, k \in Handlers : job'[g].message = job'[k].message /\ g # k
              => job'[g].message = NoMessage
      BY DEF SendsTracked
    <2>2. ASSUME NEW g \in Handlers
          PROVE  /\ pc'[g] = "save" =>
                        \A m \in Markers : job'[g].message \notin messages'[m]
                 /\ pc'[g] \in {"get_parts", "post"} =>
                        /\ job'[g].message
                               \in messages'[job'[g].marker] \cup unsaved'
                        /\ \A m \in Markers : job'[g].message \in messages'[m]
                               => m = job'[g].marker
                 /\ pc'[g] = "post" => todo'[g] \subseteq parts'[job'[g].marker]
      BY DEF SendsTracked, JobsTracked, Sends
    <2> QED BY <2>1, <2>2 DEF SendsTracked
  <1>2. ReadersTracked'
    BY DEF ReadersTracked
  <1>3. DeliveredIsKept'
    BY DEF DeliveredIsKept, GetUserChats, TypeOK
  <1>4. NoMessageMissed'
    <2> SUFFICES ASSUME NEW m \in Markers, NEW u \in Users, fetched[u][m].known,
                        NEW t \in messages[m],
                        t \notin fetched[u][m].seen \cup inbox[u] \cup abandoned
                 PROVE  Delivering(t, u)'
      BY DEF NoMessageMissed
    <2>1. Delivering(t, u) /\ t \in Messages
      BY DEF NoMessageMissed, TypeOK
    <2>2. ~Sending(h, t)
      BY <2>1, MeetingsAssumption DEF Sending, JobsTracked
    <2> QED BY <2>1, <2>2, DeliveringStays
  <1> QED BY <1>1, <1>2, <1>3, <1>4

LEMMA AddMarkerInv ==
  ASSUME MeetingsInv, NEW h \in Handlers, AddMarkerStep(h)
  PROVE  MeetingsInv'
  <1> USE DEF MeetingsInv, Goto, Start, Return, Nothing, clients, scan, db
  <1>1. ASSUME NEW m \in Markers, NEW u \in Users, InsertMarker(h, m, u)
        PROVE  MeetingsInv'
    <2> USE <1>1 DEF InsertMarker
    <2>1. TypeOK'
      BY DEF TypeOK, AnyUser, Labels
    <2>2. JobsTracked' /\ ChatsTracked'
      BY DEF TypeOK, JobsTracked, ChatsTracked, Sends
    <2> QED BY <2>1, <2>2, NoSendInv DEF TypeOK, Sends
  <1>2. ASSUME NEW m \in Markers, InsertMarkerFails(h, m)
        PROVE  MeetingsInv'
    <2> USE <1>2 DEF InsertMarkerFails
    <2>1. TypeOK'
      BY DEF TypeOK, AnyUser, Labels
    <2>2. JobsTracked' /\ ChatsTracked'
      BY DEF TypeOK, JobsTracked, ChatsTracked, Sends
    <2> QED BY <2>1, <2>2, NoSendInv DEF TypeOK, Sends
  <1>3. CASE InsertChat(h)
    <2> USE <1>3 DEF InsertChat
    <2>1. job[h].marker \in Markers
      BY DEF JobsTracked
    <2>2. TypeOK'
      BY <2>1 DEF TypeOK, Labels
    <2>3. JobsTracked' /\ ChatsTracked'
      BY <2>1 DEF TypeOK, JobsTracked, ChatsTracked, Sends
    <2> QED BY <2>1, <2>2, <2>3, NoSendInv DEF TypeOK, JobsTracked, Sends
  <1>4. CASE SetChatId(h)
    <2> USE <1>4 DEF SetChatId
    <2>1. TypeOK'
      BY DEF TypeOK, AnyUser, JobsTracked, Labels
    <2>2. JobsTracked' /\ ChatsTracked'
      BY DEF TypeOK, JobsTracked, ChatsTracked, Sends
    <2> QED BY <2>1, <2>2, NoSendInv DEF TypeOK, JobsTracked, Sends
  <1>5. CASE AddMarkerFails(h)
    <2> USE <1>5 DEF AddMarkerFails
    <2>1. TypeOK'
      BY DEF TypeOK, AnyUser, Labels
    <2>2. JobsTracked' /\ ChatsTracked'
      BY DEF TypeOK, JobsTracked, ChatsTracked, Sends
    <2> QED BY <2>1, <2>2, NoSendInv DEF TypeOK, Sends
  <1>6. CASE PostMarker(h)
    <2> USE <1>6 DEF PostMarker
    <2>1. TypeOK'
      BY DEF TypeOK, JobsTracked, AnyUser, Labels
    <2>2. JobsTracked' /\ ChatsTracked'
      BY DEF TypeOK, JobsTracked, ChatsTracked, Sends
    <2> QED BY <2>1, <2>2, NoSendInv DEF TypeOK, Sends
  <1> QED BY <1>1, <1>2, <1>3, <1>4, <1>5, <1>6 DEF AddMarkerStep

LEMMA GetAllMarkersInv ==
  ASSUME MeetingsInv, NEW h \in Handlers, GetAllMarkersStep(h)
  PROVE  MeetingsInv'
  <1> USE DEF MeetingsInv, Goto, Start, Return, Nothing, clients, scan, db
  <1>1. CASE OpenCursor(h)
    <2> USE <1>1 DEF OpenCursor
    <2>1. TypeOK'
      BY DEF TypeOK, AnyUser, Labels, Announced
    <2>2. JobsTracked' /\ ChatsTracked'
      BY DEF TypeOK, JobsTracked, ChatsTracked, Sends
    <2> QED BY <2>1, <2>2, NoSendInv DEF TypeOK, Sends
  <1>2. ASSUME NEW m \in Markers, ReadMarker(h, m)
        PROVE  MeetingsInv'
    <2>1. CASE m \in chat_id
      <3>1. /\ pc[h] = "scan" /\ found' = [found EXCEPT ![h] = @ \cup {m}]
            /\ todo' = [todo EXCEPT ![h] = @ \ {m}]
            /\ UNCHANGED <<pc, job, db, clients, owed>>
        BY <1>2, <2>1 DEF ReadMarker
      <3>2. TypeOK'
        BY <3>1 DEF TypeOK
      <3>3. JobsTracked' /\ ChatsTracked'
        BY <3>1, <2>1 DEF TypeOK, JobsTracked, ChatsTracked
      <3> QED BY <3>1, <3>2, <3>3, NoSendInv DEF TypeOK, JobsTracked, Sends
    <2>2. CASE m \notin chat_id
      <3>1. /\ pc[h] = "scan" /\ found' = [found EXCEPT ![h] = {}]
            /\ Start(h, "listed", Nothing)
            /\ UNCHANGED <<todo, db, clients, owed>>
        BY <1>2, <2>2 DEF ReadMarker
      <3>2. TypeOK'
        BY <3>1 DEF TypeOK, AnyUser, Labels
      <3>3. JobsTracked' /\ ChatsTracked'
        BY <3>1 DEF TypeOK, JobsTracked, ChatsTracked, Sends
      <3> QED BY <3>1, <3>2, <3>3, NoSendInv DEF TypeOK, Sends
    <2> QED BY <2>1, <2>2
  <1>3. CASE ScanFails(h)
    <2> USE <1>3 DEF ScanFails
    <2>1. TypeOK'
      BY DEF TypeOK, AnyUser, Labels
    <2>2. JobsTracked' /\ ChatsTracked'
      BY DEF TypeOK, JobsTracked, ChatsTracked, Sends
    <2> QED BY <2>1, <2>2, NoSendInv DEF TypeOK, Sends
  <1>4. CASE CloseCursor(h)
    <2> USE <1>4 DEF CloseCursor
    <2>1. TypeOK'
      BY DEF TypeOK, AnyUser, Labels
    <2>2. JobsTracked' /\ ChatsTracked'
      BY DEF TypeOK, JobsTracked, ChatsTracked, Sends
    <2> QED BY <2>1, <2>2, NoSendInv DEF TypeOK, Sends
  <1>5. CASE SendMarkers(h)
    <2> USE <1>5 DEF SendMarkers
    <2>1. TypeOK'
      BY DEF TypeOK, AnyUser, Labels
    <2>2. JobsTracked' /\ ChatsTracked'
      BY DEF TypeOK, JobsTracked, ChatsTracked, Sends
    <2> QED BY <2>1, <2>2, NoSendInv DEF TypeOK, Sends
  <1> QED BY <1>1, <1>2, <1>3, <1>4, <1>5 DEF GetAllMarkersStep

LEMMA JoinChatInv ==
  ASSUME MeetingsInv, NEW h \in Handlers, JoinChatStep(h)
  PROVE  MeetingsInv'
  <1> USE DEF MeetingsInv, Goto, Start, Return, Nothing, clients, scan, db
  <1>1. ASSUME NEW m \in Markers, NEW u \in Users, JoinChat(h, m, u)
        PROVE  MeetingsInv'
    <2> USE <1>1 DEF JoinChat
    <2>1. TypeOK'
      BY DEF TypeOK, AnyUser, Labels
    <2>2. JobsTracked' /\ ChatsTracked'
      BY DEF TypeOK, JobsTracked, ChatsTracked, Sends
    <2> QED BY <2>1, <2>2, NoSendInv DEF TypeOK, Sends
  <1>2. CASE AddUserToChat(h)
    <2>1. job[h].marker \in Markers /\ pc[h] = "add_part"
      BY <1>2 DEF AddUserToChat, JobsTracked
    <2>2. /\ Return(h)
          /\ UNCHANGED <<markers, chat_id, chats, messages, clients, scan>>
      BY <1>2 DEF AddUserToChat
    <2>3. /\ parts' \in [Markers -> SUBSET AnyUser]
          /\ \A m \in Markers : /\ parts[m] \subseteq parts'[m]
                                /\ m \notin chats => parts'[m] = parts[m]
      <3>1. job[h].user \in AnyUser
        BY DEF TypeOK
      <3>2. CASE job[h].marker \in chats
        <4>1. parts' = [parts EXCEPT ![job[h].marker] = @ \cup {job[h].user}]
          BY <1>2, <3>2 DEF AddUserToChat
        <4>2. parts \in [Markers -> SUBSET AnyUser]
          BY DEF TypeOK
        <4> QED BY <4>1, <4>2, <3>1, <3>2, <2>1
      <3>3. CASE job[h].marker \notin chats
        BY <1>2, <3>3 DEF AddUserToChat, TypeOK
      <3> QED BY <3>2, <3>3
    <2>4. TypeOK'
      BY <2>2, <2>3 DEF TypeOK, AnyUser, Labels
    <2>5. JobsTracked'
      BY <2>2 DEF TypeOK, JobsTracked, Sends
    <2>6. ChatsTracked'
      BY <2>2, <2>3 DEF ChatsTracked
    <2> QED BY <2>1, <2>2, <2>3, <2>4, <2>5, <2>6, NoSendInv
            DEF TypeOK, Sends
  <1>3. CASE AddUserToChatFails(h)
    <2> USE <1>3 DEF AddUserToChatFails
    <2>1. TypeOK'
      BY DEF TypeOK, AnyUser, Labels
    <2>2. JobsTracked' /\ ChatsTracked'
      BY DEF TypeOK, JobsTracked, ChatsTracked, Sends
    <2> QED BY <2>1, <2>2, NoSendInv DEF TypeOK, Sends
  <1> QED BY <1>1, <1>2, <1>3 DEF JoinChatStep

-----------------------------------------------------------------------------
(* SendChatMessage begins with a message that nobody sends and no history  *)
(* has.                                                                    *)
LEMMA BeginSendInv ==
  ASSUME MeetingsInv, NEW h \in Handlers, NEW m \in Markers,
         NEW t \in Messages, SendChatMessage(h, m, t)
  PROVE  MeetingsInv'
  <1> USE DEF MeetingsInv, SendChatMessage, SendOrder, Start, Goto, Nothing,
              clients, scan, db
  <1>1. TypeOK'
    BY DEF TypeOK, AnyUser, Labels
  <1>2. job'[h].message = t /\ job'[h].marker = m /\ pc'[h] = "save"
    BY DEF TypeOK
  <1>3. \A g \in Handlers \ {h} : pc'[g] = pc[g] /\ job'[g] = job[g]
    BY DEF TypeOK
  <1>4. \A n \in Markers : t \notin messages[n]
    OBVIOUS
  <1>5. JobsTracked' /\ ChatsTracked'
    BY <1>2, <1>3, MeetingsAssumption DEF JobsTracked, ChatsTracked, Sends
  <1>6. SendsTracked'
    BY <1>2, <1>3, <1>4 DEF SendsTracked, Sending
  <1>7. ReadersTracked' /\ DeliveredIsKept'
    BY DEF ReadersTracked, DeliveredIsKept, GetUserChats
  <1>8. NoMessageMissed'
    <2> SUFFICES ASSUME NEW n \in Markers, NEW u \in Users, fetched[u][n].known,
                        NEW s \in messages[n],
                        s \notin fetched[u][n].seen \cup inbox[u] \cup abandoned
                 PROVE  Delivering(s, u)'
      BY DEF NoMessageMissed
    <2>1. Delivering(s, u) /\ s \in Messages
      BY DEF NoMessageMissed, TypeOK
    <2>2. ~Sending(h, s)
      BY <2>1, MeetingsAssumption DEF Sending, JobsTracked, Sends
    <2> QED BY <2>1, <2>2, <1>3, DeliveringStays
  <1> QED BY <1>1, <1>5, <1>6, <1>7, <1>8

(* Saving the message, or failing to: the participants are read after it,  *)
(* so whoever has read the history without it will be among them.          *)
LEMMA SaveInv ==
  ASSUME MeetingsInv, NEW h \in Handlers,
         SaveChatMessage(h) \/ SaveChatMessageFails(h)
  PROVE  MeetingsInv'
  <1> USE DEF MeetingsInv
  <1> DEFINE n == job[h].marker
             s == job[h].message
  <1>1. n \in Markers /\ s \in Messages /\ pc[h] = "save"
    BY DEF SaveChatMessage, SaveChatMessageFails, Push, JobsTracked, Sends,
           TypeOK
  <1>2. /\ pc' = [pc EXCEPT ![h] = "get_parts"]
        /\ \/ messages' = [messages EXCEPT ![n] = @ \cup {s}]
              /\ unsaved' = unsaved
           \/ messages' = messages /\ unsaved' = unsaved \cup {s}
        /\ UNCHANGED <<markers, chat_id, chats, parts, online, inbox,
                       announced, fetched, abandoned, job, scan>>
    BY DEF SaveChatMessage, SaveChatMessageFails, Push, Goto, SendOrder, db
  <1> HIDE DEF n, s
  <1>3. \A m \in Markers : messages[m] \subseteq messages'[m]
        /\ \A t \in messages'[m] : t \in messages[m] \/ (t = s /\ m = n)
    BY <1>1, <1>2 DEF TypeOK
  <1>4. unsaved \subseteq unsaved' /\ s \in messages'[n] \cup unsaved'
    BY <1>1, <1>2 DEF TypeOK
  <1>5. \A g \in Handlers : pc'[g] = IF g = h THEN "get_parts" ELSE pc[g]
    BY <1>2 DEF TypeOK
  <1>6. TypeOK'
    <2>1. messages' \in [Markers -> SUBSET Messages]
      <3>1. messages \in [Markers -> SUBSET Messages]
        BY DEF TypeOK
      <3> HIDE DEF MeetingsInv
      <3>2. CASE messages' = [messages EXCEPT ![n] = @ \cup {s}]
        BY <3>1, <3>2, <1>1
      <3> QED BY <3>1, <3>2, <1>2
    <2>2. unsaved' \subseteq Messages
      BY <1>1, <1>2 DEF TypeOK
    <2>3. pc' \in [Handlers -> Labels]
      BY <1>1, <1>2 DEF TypeOK, Labels
    <2> QED BY <2>1, <2>2, <2>3, <1>2 DEF TypeOK, scan
  <1>7. JobsTracked' /\ ChatsTracked'
    BY <1>1, <1>2, <1>5 DEF JobsTracked, ChatsTracked, Sends, scan
  <1>8. SendsTracked'
    <2>1. \A g \in Handlers \ {h} : pc[g] \in Sends => job[g].message # s
      BY <1>1, MeetingsAssumption DEF JobsTracked, SendsTracked, s
    <2>2. ASSUME NEW g \in Handlers
          PROVE  /\ pc'[g] = "save" =>
                        \A m \in Markers : job[g].message \notin messages'[m]
                 /\ pc'[g] \in {"get_parts", "post"} =>
                        /\ job[g].message
                               \in messages'[job[g].marker] \cup unsaved'
                        /\ \A m \in Markers : job[g].message \in messages'[m]
                               => m = job[g].marker
                 /\ pc'[g] = "post" => todo[g] \subseteq parts[job[g].marker]
      <3>1. CASE g = h
        BY <3>1, <1>1, <1>3, <1>4, <1>5 DEF SendsTracked, n, s
      <3>2. CASE g # h
        BY <3>2, <2>1, <1>3, <1>4, <1>5 DEF SendsTracked, JobsTracked, Sends
      <3> QED BY <3>1, <3>2
    <2> QED BY <2>2, <1>2 DEF SendsTracked, scan
  <1>9. ReadersTracked'
    BY <1>2 DEF ReadersTracked
  <1>10. DeliveredIsKept'
    BY <1>2, <1>3, <1>4 DEF DeliveredIsKept, GetUserChats, TypeOK
  <1>11. NoMessageMissed'
    <2> SUFFICES ASSUME NEW m \in Markers, NEW u \in Users, fetched[u][m].known,
                        NEW t \in messages'[m],
                        t \notin fetched[u][m].seen \cup inbox[u] \cup abandoned
                 PROVE  Delivering(t, u)'
      BY <1>2 DEF NoMessageMissed
    <2>1. CASE t = s
      BY <2>1, <1>2, <1>5 DEF Delivering, Sending, s
    <2>2. CASE t # s
      <3>1. Delivering(t, u) /\ t \in Messages /\ ~Sending(h, t)
        BY <2>2, <1>3 DEF NoMessageMissed, TypeOK, Sending, s
      <3> QED BY <3>1, <1>2, <1>5, DeliveringStays DEF scan
    <2> QED BY <2>1, <2>2
  <1> QED BY <1>6, <1>7, <1>8, <1>9, <1>10, <1>11

(* Reading the participants: a reader of the history that still needs the  *)
(* message is one of them.  A failure abandons the message.                *)
LEMMA GetPartsInv ==
  ASSUME MeetingsInv, NEW h \in Handlers,
         GetChatParts(h) \/ GetChatPartsFails(h)
  PROVE  MeetingsInv'
  <1> USE DEF MeetingsInv, db
  <1>1. /\ job[h].marker \in Markers /\ job[h].message \in Messages
        /\ pc[h] = "get_parts"
    BY DEF GetChatParts, GetChatPartsFails, JobsTracked, Sends, TypeOK
  <1>2. CASE GetChatParts(h)
    <2> USE <1>1, <1>2 DEF GetChatParts, Goto, SendOrder, clients
    <2>1. TypeOK'
      BY DEF TypeOK, Labels
    <2>2. \A g \in Handlers \ {h} : pc'[g] = pc[g] /\ todo'[g] = todo[g]
      BY DEF TypeOK
    <2>3. pc'[h] = "post" /\ todo'[h] = parts[job[h].marker]
      BY DEF TypeOK
    <2>4. JobsTracked' /\ ChatsTracked'
      BY <2>2, <2>3 DEF JobsTracked, ChatsTracked, Sends
    <2>5. SendsTracked'
      BY <2>2, <2>3 DEF SendsTracked
    <2>6. ReadersTracked' /\ DeliveredIsKept'
      BY DEF ReadersTracked, DeliveredIsKept, GetUserChats
    <2>7. NoMessageMissed'
      <3> SUFFICES ASSUME NEW m \in Markers, NEW u \in Users,
                          fetched[u][m].known, NEW t \in messages[m],
                          t \notin fetched[u][m].seen \cup inbox[u]
                                        \cup abandoned
                   PROVE  Delivering(t, u)'
        BY DEF NoMessageMissed
      <3>1. CASE Sending(h, t)
        <4>1. m = job[h].marker /\ u \in parts[m]
          BY <3>1 DEF Sending, SendsTracked, ReadersTracked
        <4> QED BY <4>1, <3>1, <2>3 DEF Delivering, Sending
      <3>2. CASE ~Sending(h, t)
        <4>1. Delivering(t, u) /\ t \in Messages
          BY DEF NoMessageMissed, TypeOK
        <4> QED BY <4>1, <3>2, <2>2, DeliveringStays
      <3> QED BY <3>1, <3>2
    <2> QED BY <2>1, <2>4, <2>5, <2>6, <2>7
  <1>3. CASE GetChatPartsFails(h)
    <2> USE <1>1, <1>3 DEF GetChatPartsFails, Return, Start, Goto, Nothing
    <2>1. TypeOK'
      BY DEF TypeOK, AnyUser, Labels
    <2>2. \A g \in Handlers \ {h} :
              pc'[g] = pc[g] /\ job'[g] = job[g] /\ todo'[g] = todo[g]
      BY DEF TypeOK
    <2>3. pc'[h] = "idle" /\ job'[h].message = NoMessage
      BY DEF TypeOK
    <2>4. JobsTracked' /\ ChatsTracked'
      BY <2>2, <2>3 DEF JobsTracked, ChatsTracked, Sends
    <2>5. SendsTracked'
      BY <2>2, <2>3 DEF SendsTracked
    <2>6. ReadersTracked' /\ DeliveredIsKept'
      BY DEF ReadersTracked, DeliveredIsKept, GetUserChats
    <2>7. NoMessageMissed'
      <3> SUFFICES ASSUME NEW m \in Markers, NEW u \in Users,
                          fetched[u][m].known, NEW t \in messages[m],
                          t \notin fetched[u][m].seen \cup inbox[u]
                                        \cup abandoned'
                   PROVE  Delivering(t, u)'
        BY DEF NoMessageMissed
      <3>1. Delivering(t, u) /\ t \in Messages /\ ~Sending(h, t)
        BY DEF NoMessageMissed, TypeOK, Sending
      <3> QED BY <3>1, <2>2, DeliveringStays
    <2> QED BY <2>1, <2>4, <2>5, <2>6, <2>7
  <1> QED BY <1>2, <1>3

(* Posting to one participant: who counts as a reader is attached.         *)
LEMMA PostInv ==
  ASSUME MeetingsInv, NEW h \in Handlers, NEW v \in AnyUser, PostMessage(h, v)
  PROVE  MeetingsInv'
  <1> USE DEF MeetingsInv, PostMessage, db
  <1>1. /\ job[h].marker \in Markers /\ job[h].message \in Messages
        /\ pc[h] = "post" /\ v \in parts[job[h].marker]
    BY DEF JobsTracked, SendsTracked, Sends, TypeOK
  <1>2. \A u \in Users : /\ inbox[u] \subseteq inbox'[u]
                         /\ \A t \in inbox'[u] : t \in inbox[u] \/
                                (t = job[h].message /\ u = v)
                         /\ u = v /\ u \in online => job[h].message \in inbox'[u]
    BY DEF TypeOK
  <1>3. TypeOK'
    BY <1>1 DEF TypeOK
  <1>4. JobsTracked' /\ ChatsTracked'
    BY DEF JobsTracked, ChatsTracked
  <1>5. \A g \in Handlers : todo'[g] = IF g = h THEN todo[h] \ {v} ELSE todo[g]
    BY DEF TypeOK
  <1>6. SendsTracked'
    BY <1>5 DEF SendsTracked
  <1>7. ReadersTracked'
    BY DEF ReadersTracked
  <1>8. DeliveredIsKept'
    <2> SUFFICES ASSUME NEW u \in Users, NEW t \in inbox'[u]
                 PROVE  \E m \in GetUserChats(u) : t \in messages[m] \cup unsaved
      BY DEF DeliveredIsKept, GetUserChats
    <2>1. CASE t \in inbox[u]
      BY <2>1 DEF DeliveredIsKept
    <2>2. CASE t = job[h].message /\ u = v
      BY <2>2, <1>1 DEF GetUserChats, SendsTracked, ChatsTracked
    <2> QED BY <2>1, <2>2, <1>2
  <1>9. NoMessageMissed'
    <2> SUFFICES ASSUME NEW m \in Markers, NEW u \in Users, fetched[u][m].known,
                        NEW t \in messages[m],
                        t \notin fetched[u][m].seen \cup inbox'[u] \cup abandoned
                 PROVE  Delivering(t, u)'
      BY DEF NoMessageMissed
    <2>1. Delivering(t, u) /\ u \in online
      BY <1>2 DEF NoMessageMissed, ReadersTracked
    <2>2. PICK g \in Handlers :
              /\ Sending(g, t)
              /\ pc[g] = "get_parts" \/ (pc[g] = "post" /\ u \in todo[g])
      BY <2>1 DEF Delivering
    <2>3. g = h => u # v
      BY <2>1, <2>2, <1>2 DEF Sending
    <2>4. Sending(g, t)' /\ pc'[g] = pc[g] /\ (u \in todo[g] => u \in todo'[g])
      BY <2>2, <2>3, <1>5 DEF Sending
    <2> QED BY <2>2, <2>4 DEF Delivering
  <1> QED BY <1>3, <1>4, <1>6, <1>7, <1>8, <1>9

LEMMA EndSendInv ==
  ASSUME MeetingsInv, NEW h \in Handlers, EndSend(h)
  PROVE  MeetingsInv'
  <1> USE DEF MeetingsInv, EndSend, Return, Start, Goto, Nothing, clients,
              scan, db
  <1>1. TypeOK'
    BY DEF TypeOK, AnyUser, Labels
  <1>2. \A g \in Handlers \ {h} : pc'[g] = pc[g] /\ job'[g] = job[g]
    BY DEF TypeOK
  <1>3. pc'[h] = "idle" /\ job'[h].message = NoMessage
    BY DEF TypeOK
  <1>4. JobsTracked' /\ ChatsTracked'
    BY <1>2, <1>3 DEF JobsTracked, ChatsTracked, Sends
  <1>5. SendsTracked'
    BY <1>2, <1>3 DEF SendsTracked
  <1>6. ReadersTracked' /\ DeliveredIsKept'
    BY DEF ReadersTracked, DeliveredIsKept, GetUserChats
  <1>7. NoMessageMissed'
    BY <1>2 DEF NoMessageMissed, Delivering, Sending
  <1> QED BY <1>1, <1>4, <1>5, <1>6, <1>7

-----------------------------------------------------------------------------
(* What clients do: streams begin and end, histories are read.             *)
LEMMA ClientInv ==
  ASSUME MeetingsInv,
         \/ \E u \in Users : Attach(u) \/ Detach(u)
         \/ \E m \in Markers, u \in Users :
                GetChatMessages(m, u) \/ GetChatMessagesFails(m, u)
  PROVE  MeetingsInv'
  <1> USE DEF MeetingsInv, db, scan
  <1>1. ASSUME NEW u \in Users, Attach(u)
        PROVE  MeetingsInv'
    <2> USE <1>1 DEF Attach
    <2>1. TypeOK' /\ JobsTracked' /\ ChatsTracked' /\ SendsTracked'
      BY DEF TypeOK, JobsTracked, ChatsTracked, SendsTracked
    <2>2. ReadersTracked' /\ DeliveredIsKept' /\ NoMessageMissed'
      BY DEF ReadersTracked, DeliveredIsKept, NoMessageMissed, GetUserChats,
             Delivering, Sending
    <2> QED BY <2>1, <2>2
  <1>2. ASSUME NEW u \in Users, Detach(u)
        PROVE  MeetingsInv'
    <2> USE <1>2 DEF Detach
    <2>1. TypeOK' /\ JobsTracked' /\ ChatsTracked' /\ SendsTracked'
      BY DEF TypeOK, JobsTracked, ChatsTracked, SendsTracked, NotFetched
    <2>2. \A v \in Users, m \in Markers :
              fetched'[v][m].known => v # u /\ fetched'[v] = fetched[v]
      BY DEF TypeOK, NotFetched
    <2>3. ReadersTracked' /\ DeliveredIsKept' /\ NoMessageMissed'
      BY <2>2 DEF ReadersTracked, DeliveredIsKept, NoMessageMissed,
                  GetUserChats, Delivering, Sending
    <2> QED BY <2>1, <2>3
  <1>3. ASSUME NEW m \in Markers, NEW u \in Users, GetChatMessages(m, u)
        PROVE  MeetingsInv'
    <2> USE <1>3 DEF GetChatMessages
    <2>1. TypeOK' /\ JobsTracked' /\ ChatsTracked' /\ SendsTracked'
      BY DEF TypeOK, JobsTracked, ChatsTracked, SendsTracked
    <2>2. \A v \in Users, n \in Markers :
              fetched'[v][n] = IF v = u /\ n = m
                               THEN [known |-> TRUE, seen |-> messages[m]]
                               ELSE fetched[v][n]
      BY DEF TypeOK
    <2>3. ReadersTracked' /\ DeliveredIsKept'
      BY <2>2 DEF ReadersTracked, DeliveredIsKept, GetUserChats
    <2>4. NoMessageMissed'
      BY <2>2 DEF NoMessageMissed, Delivering, Sending
    <2> QED BY <2>1, <2>3, <2>4
  <1>4. ASSUME NEW m \in Markers, NEW u \in Users, GetChatMessagesFails(m, u)
        PROVE  MeetingsInv'
    <2> USE <1>4 DEF GetChatMessagesFails
    <2>1. TypeOK' /\ JobsTracked' /\ ChatsTracked' /\ SendsTracked'
      BY DEF TypeOK, JobsTracked, ChatsTracked, SendsTracked, NotFetched
    <2>2. \A v \in Users, n \in Markers :
              fetched'[v][n].known => fetched'[v][n] = fetched[v][n]
      BY DEF TypeOK, NotFetched
    <2>3. ReadersTracked' /\ DeliveredIsKept' /\ NoMessageMissed'
      BY <2>2 DEF ReadersTracked, DeliveredIsKept, NoMessageMissed,
                  GetUserChats, Delivering, Sending
    <2> QED BY <2>1, <2>3
  <1> QED BY <1>1, <1>2, <1>3, <1>4

(* Markers, chats, histories and messages fit together in every state.     *)
THEOREM MeetingsInvariance == Spec => []MeetingsInv
  <1>1. MeetingsInv /\ [Next]_vars => MeetingsInv'
    <2> SUFFICES ASSUME MeetingsInv, [Next]_vars PROVE MeetingsInv'
      OBVIOUS
    <2>1. CASE UNCHANGED vars
      BY <2>1 DEF vars, db, clients, scan, MeetingsInv, TypeOK, JobsTracked,
                  ChatsTracked, SendsTracked, ReadersTracked, DeliveredIsKept,
                  NoMessageMissed, GetUserChats, Delivering, Sending
    <2>2. ASSUME NEW h \in Handlers, SendChatMessageStep(h)
          PROVE  MeetingsInv'
      BY <2>2, BeginSendInv, SaveInv, GetPartsInv, PostInv, EndSendInv
         DEF SendChatMessageStep
    <2> QED BY <2>1, <2>2, AddMarkerInv, GetAllMarkersInv, JoinChatInv,
               ClientInv DEF Next
  <1> QED BY <1>1, MeetingsInvInit, PTL DEF Spec

(* Every variable keeps its type.                                          *)
THEOREM MeetingsTypes == Spec => []TypeOK
  <1>1. MeetingsInv => TypeOK
    BY DEF MeetingsInv
  <1> QED BY <1>1, MeetingsInvariance, PTL

(* The uuid of a chat that was posted or listed can be joined, whichever   *)
(* writes of AddMarker failed.                                             *)
THEOREM ChatsJoinable == Spec => []KnownChatJoinable
  <1>1. MeetingsInv => KnownChatJoinable
    BY DEF MeetingsInv, TypeOK, ChatsTracked, KnownChatJoinable, Announced
  <1> QED BY <1>1, MeetingsInvariance, PTL

(* A participant that has read the history misses no message.              *)
THEOREM NothingMissed == Spec => []NoMessageMissed
  <1>1. MeetingsInv => NoMessageMissed
    BY DEF MeetingsInv
  <1> QED BY <1>1, MeetingsInvariance, PTL

(* A message is delivered to participants only, and kept unless the save   *)
(* failed.                                                                 *)
THEOREM DeliveredKept == Spec => []DeliveredIsKept
  <1>1. MeetingsInv => DeliveredIsKept
    BY DEF MeetingsInv
  <1> QED BY <1>1, MeetingsInvariance, PTL

=============================================================================
