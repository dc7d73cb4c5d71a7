------------------------------ MODULE Meetings ------------------------------
(***************************************************************************)
(* Markers (meetings on the map) and their chats: the RPC handlers         *)
(* AddMarker, GetAllMarkers, JoinChat, SendChatMessage and GetChatMessages *)
(* of MainEndpointImpl over the collections of DBMongo.                    *)
(*                                                                         *)
(* Every MongoDB operation is atomic on one document and is a step of its  *)
(* own; a handler makes several.  An operation may fail: the driver        *)
(* throws, and DBMongo or gRPC turns that into an empty result or an error.*)
(* A chat is created with its marker, so chats are named by markers.       *)
(* Events reach the users attached in UserStorage (here: online).          *)
(***************************************************************************)
EXTENDS Naturals, FiniteSets

CONSTANTS
    Handlers,   \* RPC handler threads
    Users,      \* user uuids
    Markers,    \* markers; each is requested at most once
    Messages,   \* chat messages; each is sent at most once
    NoUser,     \* the empty uuid GetUuidByAccessToken returns
    NoMarker, NoMessage

ASSUME MeetingsAssumption ==
    /\ NoUser \notin Users
    /\ NoMarker \notin Markers
    /\ NoMessage \notin Messages

VARIABLES
    markers,    \* collection "markers": the inserted documents
    chat_id,    \* the markers whose field chat_id is set
    chats,      \* collection "chats": the inserted documents
    parts,      \* field "parts" of each chat
    messages,   \* field "messages" of each chat
    online,     \* users with an instance in UserStorage
    inbox,      \* messages posted to each user as MESSAGE_ADDED events
    announced,  \* MARKER_ADDED events posted: the marker and its chat's uuid
    fetched,    \* the whole history, as a participant online has read it
    abandoned,  \* messages whose handler failed in GetChatParts
    unsaved,    \* messages that SaveChatMessage did not store
    pc, job, todo,   \* where each handler is and what it works on
    found,      \* GetAllMarkers: what the cursor has returned so far
    owed        \* GetAllMarkers: markers announced with uuids before it began

db == <<markers, chat_id, chats, parts, messages>>
clients == <<online, inbox, announced, fetched, abandoned, unsaved>>
scan == <<todo, found, owed>>

vars == <<db, clients, pc, job, scan>>

AnyUser == Users \cup {NoUser}

Nothing == [marker |-> NoMarker, chat |-> NoMarker, user |-> NoUser,
            message |-> NoMessage]

NotFetched == [known |-> FALSE, seen |-> {}]

Goto(h, label) == pc' = [pc EXCEPT ![h] = label]

Start(h, label, what) == Goto(h, label) /\ job' = [job EXCEPT ![h] = what]

Return(h) == Start(h, "idle", Nothing)

Init ==
    /\ markers = {}
    /\ chat_id = {}
    /\ chats = {}
    /\ parts = [m \in Markers |-> {}]
    /\ messages = [m \in Markers |-> {}]
    /\ online = {}
    /\ inbox = [u \in Users |-> {}]
    /\ announced = {}
    /\ fetched = [u \in Users |-> [m \in Markers |-> NotFetched]]
    /\ abandoned = {}
    /\ unsaved = {}
    /\ pc = [h \in Handlers |-> "idle"]
    /\ job = [h \in Handlers |-> Nothing]
    /\ todo = [h \in Handlers |-> {}]
    /\ found = [h \in Handlers |-> {}]
    /\ owed = [h \in Handlers |-> {}]

-----------------------------------------------------------------------------
(* The clients' event streams, as far as the handlers see them.            *)

Attach(u) ==
    /\ u \notin online
    /\ online' = online \cup {u}
    /\ UNCHANGED <<db, inbox, announced, fetched, abandoned, unsaved, pc, job,
                   scan>>

(* A client that lost its stream has to read the history again.            *)
Detach(u) ==
    /\ u \in online
    /\ online' = online \ {u}
    /\ fetched' = [fetched EXCEPT ![u] = [m \in Markers |-> NotFetched]]
    /\ UNCHANGED <<db, inbox, announced, abandoned, unsaved, pc, job, scan>>

-----------------------------------------------------------------------------
(* AddMarker: insert the marker, insert its chat, set chat_id; whatever    *)
(* came of it, announce the marker to everybody.  job[h].chat is what      *)
(* DBMongo::AddMarker returns: the uuids, or two empty ones (NoMarker).    *)

(* Every request is about a marker of its own.                             *)
NewMarker(m) ==
    /\ m \notin markers
    /\ \A e \in announced : e.marker # m
    /\ \A g \in Handlers : pc[g] = "post_marker" => job[g].marker # m

InsertMarker(h, m, u) ==
    /\ pc[h] = "idle"
    /\ NewMarker(m)
    /\ markers' = markers \cup {m}
    /\ Start(h, "insert_chat", [Nothing EXCEPT !.marker = m, !.user = u])
    /\ UNCHANGED <<chat_id, chats, parts, messages, clients, scan>>

(* An empty creator, or the first operation fails: nothing is written.     *)
InsertMarkerFails(h, m) ==
    /\ pc[h] = "idle"
    /\ NewMarker(m)
    /\ Start(h, "post_marker", [Nothing EXCEPT !.marker = m])
    /\ UNCHANGED <<db, clients, scan>>

InsertChat(h) ==
    LET m == job[h].marker
    IN  /\ pc[h] = "insert_chat"
        /\ chats' = chats \cup {m}
        /\ parts' = [parts EXCEPT ![m] = @ \cup {job[h].user}]
        /\ Goto(h, "set_chat_id")
        /\ UNCHANGED <<markers, chat_id, messages, clients, job, scan>>

SetChatId(h) ==
    LET m == job[h].marker
    IN  /\ pc[h] = "set_chat_id"
        /\ chat_id' = chat_id \cup {m}
        /\ Start(h, "post_marker", [Nothing EXCEPT !.marker = m, !.chat = m])
        /\ UNCHANGED <<markers, chats, parts, messages, clients, scan>>

(* Mutant: AddMarker returns the uuids it has when an operation fails.     *)
AddMarkerFailsWithUuids(h) ==
    LET m == job[h].marker
    IN  /\ pc[h] \in {"insert_chat", "set_chat_id", "post_marker"}
        /\ Start(h, "post_marker", [Nothing EXCEPT !.marker = m, !.chat = m])
        /\ UNCHANGED <<db, clients, scan>>

(* An operation throws, before or after the server has written: what was   *)
(* written stays, and CATCH_ALL returns two empty uuids.                   *)
AddMarkerFails(h) ==
    /\ pc[h] \in {"insert_chat", "set_chat_id", "post_marker"}
    /\ Start(h, "post_marker", [Nothing EXCEPT !.marker = job[h].marker])
    /\ UNCHANGED <<db, clients, scan>>

(* PostToAllUsers, with the info of the request and the uuids, which the   *)
(* handler does not test.                                                  *)
PostMarker(h) ==
    /\ pc[h] = "post_marker"
    /\ announced' = announced \cup
           {[marker |-> job[h].marker, chat |-> job[h].chat]}
    /\ Return(h)
    /\ UNCHANGED <<db, online, inbox, fetched, abandoned, unsaved, scan>>

(* The chats that clients have been told of by an event.                   *)
Announced == {e.chat : e \in announced} \ {NoMarker}

-----------------------------------------------------------------------------
(* GetAllMarkers: a cursor over the markers.  A marker inserted meanwhile  *)
(* may or may not be returned.  todo holds what must still be returned.    *)

OpenCursor(h) ==
    /\ pc[h] = "idle"
    /\ todo' = [todo EXCEPT ![h] = markers]
    /\ found' = [found EXCEPT ![h] = {}]
    /\ owed' = [owed EXCEPT ![h] = Announced]
    /\ Start(h, "scan", Nothing)
    /\ UNCHANGED <<db, clients>>

(* The next marker of the cursor.  bsoncxx::oid of a missing chat_id       *)
(* throws, and the whole result is dropped.                                *)
ReadMarker(h, m) ==
    /\ pc[h] = "scan"
    /\ m \in markers \ found[h]
    /\ IF m \in chat_id
       THEN /\ found' = [found EXCEPT ![h] = @ \cup {m}]
            /\ todo' = [todo EXCEPT ![h] = @ \ {m}]
            /\ UNCHANGED <<pc, job>>
       ELSE /\ found' = [found EXCEPT ![h] = {}]
            /\ Start(h, "listed", Nothing)
            /\ UNCHANGED todo
    /\ UNCHANGED <<db, clients, owed>>

(* A driver error also yields an empty list.  Like the error of an RPC, it *)
(* ends the request without a claim about its result.                      *)
ScanFails(h) ==
    /\ pc[h] = "scan"
    /\ todo' = [todo EXCEPT ![h] = {}]
    /\ found' = [found EXCEPT ![h] = {}]
    /\ owed' = [owed EXCEPT ![h] = {}]
    /\ Return(h)
    /\ UNCHANGED <<db, clients>>

CloseCursor(h) ==
    /\ pc[h] = "scan"
    /\ todo[h] = {}
    /\ Start(h, "listed", Nothing)
    /\ UNCHANGED <<db, clients, scan>>

(* The markers found are written to the client.                            *)
SendMarkers(h) ==
    /\ pc[h] = "listed"
    /\ todo' = [todo EXCEPT ![h] = {}]
    /\ found' = [found EXCEPT ![h] = {}]
    /\ owed' = [owed EXCEPT ![h] = {}]
    /\ Return(h)
    /\ UNCHANGED <<db, clients>>

-----------------------------------------------------------------------------
(* JoinChat: resolve the access token of user u, then add to the chat.     *)

(* GetUuidByAccessToken: empty for a user without an instance.             *)
JoinChat(h, m, u) ==
    /\ pc[h] = "idle"
    /\ Start(h, "add_part", [Nothing EXCEPT
           !.marker = m, !.user = IF u \in online THEN u ELSE NoUser])
    /\ UNCHANGED <<db, clients, scan>>

(* AddUserToChat: $addToSet parts; update_one ignores an unknown chat.     *)
AddUserToChat(h) ==
    /\ pc[h] = "add_part"
    /\ IF job[h].marker \in chats
       THEN parts' = [parts EXCEPT ![job[h].marker] = @ \cup {job[h].user}]
       ELSE UNCHANGED parts
    /\ Return(h)
    /\ UNCHANGED <<markers, chat_id, chats, messages, clients, scan>>

(* AddUserToChat has no handler for exceptions: the RPC fails.             *)
AddUserToChatFails(h) ==
    /\ pc[h] = "add_part"
    /\ Return(h)
    /\ UNCHANGED <<db, clients, scan>>

-----------------------------------------------------------------------------
(* SendChatMessage: save, read the participants, post to each.             *)

(* Mutant: the participants are read before the message is saved.          *)
PartsBeforeSave ==
    [start |-> "get_parts", get_parts |-> "save", save |-> "post"]

(* The statement that follows each one of the handler.                     *)
SendOrder == [start |-> "save", save |-> "get_parts", get_parts |-> "post"]

Sending(h, t) == job[h].message = t

(* The request; a message with an empty chat uuid is refused at once.      *)
SendChatMessage(h, m, t) ==
    /\ pc[h] = "idle"
    /\ t \notin abandoned \cup UNION {messages[n] : n \in Markers}
                          \cup UNION {inbox[u] : u \in Users}
    /\ \A g \in Handlers : ~Sending(g, t)
    /\ Start(h, SendOrder.start,
             [Nothing EXCEPT !.marker = m, !.message = t])
    /\ UNCHANGED <<db, clients, scan>>

(* update_one with $push messages; an unknown chat is ignored.             *)
Push(h, t) ==
    LET m == job[h].marker
    IN  /\ pc[h] = "save"
        /\ IF m \in chats
           THEN /\ messages' = [messages EXCEPT ![m] = @ \cup {t}]
                /\ UNCHANGED unsaved
           ELSE /\ unsaved' = unsaved \cup {job[h].message}
                /\ UNCHANGED messages
        /\ Goto(h, SendOrder.save)
        /\ UNCHANGED <<markers, chat_id, chats, parts, online, inbox, announced,
                       fetched, abandoned, job, scan>>

(* Mutant: the text was moved out of the message before it is saved.       *)
SaveMovedMessage(h) == Push(h, NoMessage)

SaveChatMessage(h) == Push(h, job[h].message)

(* A failed save returns false, which the handler ignores.                 *)
SaveChatMessageFails(h) ==
    /\ pc[h] = "save"
    /\ unsaved' = unsaved \cup {job[h].message}
    /\ Goto(h, SendOrder.save)
    /\ UNCHANGED <<db, online, inbox, announced, fetched, abandoned, job, scan>>

(* Mutant: the message goes to every user, as a new marker does.           *)
GetEveryone(h) ==
    /\ pc[h] = "get_parts"
    /\ todo' = [todo EXCEPT ![h] = Users]
    /\ Goto(h, SendOrder.get_parts)
    /\ UNCHANGED <<db, clients, job, found, owed>>

(* GetChatParts: nobody when the chat is unknown.                          *)
GetChatParts(h) ==
    /\ pc[h] = "get_parts"
    /\ todo' = [todo EXCEPT ![h] = parts[job[h].marker]]
    /\ Goto(h, SendOrder.get_parts)
    /\ UNCHANGED <<db, clients, job, found, owed>>

(* GetChatParts has no handler for exceptions: the RPC fails, saved as the *)
(* message is.                                                             *)
GetChatPartsFails(h) ==
    /\ pc[h] = "get_parts"
    /\ abandoned' = abandoned \cup {job[h].message}
    /\ todo' = [todo EXCEPT ![h] = {}]
    /\ Return(h)
    /\ UNCHANGED <<db, online, inbox, announced, fetched, unsaved, found, owed>>

(* PostEventToUser for one participant; lost when the user is not there,   *)
(* and "" is never there.                                                  *)
PostMessage(h, u) ==
    /\ pc[h] = "post"
    /\ u \in todo[h]
    /\ inbox' = IF u \in online
                THEN [inbox EXCEPT ![u] = @ \cup {job[h].message}]
                ELSE inbox
    /\ todo' = [todo EXCEPT ![h] = @ \ {u}]
    /\ UNCHANGED <<db, online, announced, fetched, abandoned, unsaved, pc, job,
                   found, owed>>

EndSend(h) ==
    /\ pc[h] = "post"
    /\ todo[h] = {}
    /\ Return(h)
    /\ UNCHANGED <<db, clients, scan>>

(* GetChatMessages, called by an attached participant.  Any client may     *)
(* call it at any time; only these calls promise something.                *)
GetChatMessages(m, u) ==
    /\ u \in online \cap parts[m]
    /\ fetched' = [fetched EXCEPT ![u][m] =
                       [known |-> TRUE, seen |-> messages[m]]]
    /\ UNCHANGED <<db, online, inbox, announced, abandoned, unsaved, pc, job,
                   scan>>

(* A driver error is caught, and the RPC answers OK with no message, as    *)
(* for a chat without any: what the client has now is no whole history.    *)
GetChatMessagesFails(m, u) ==
    /\ u \in online \cap parts[m]
    /\ fetched' = [fetched EXCEPT ![u][m] = NotFetched]
    /\ UNCHANGED <<db, online, inbox, announced, abandoned, unsaved, pc, job,
                   scan>>

(* GetUserChats: the chats that have the user among their parts.           *)
GetUserChats(u) == {m \in chats : u \in parts[m]}

-----------------------------------------------------------------------------
AddMarkerStep(h) ==
    \/ \E m \in Markers, u \in Users : InsertMarker(h, m, u)
    \/ \E m \in Markers : InsertMarkerFails(h, m)
    \/ InsertChat(h) \/ SetChatId(h) \/ AddMarkerFails(h) \/ PostMarker(h)

GetAllMarkersStep(h) ==
    \/ OpenCursor(h) \/ ScanFails(h) \/ CloseCursor(h) \/ SendMarkers(h)
    \/ \E m \in Markers : ReadMarker(h, m)

JoinChatStep(h) ==
    \/ \E m \in Markers, u \in Users : JoinChat(h, m, u)
    \/ AddUserToChat(h) \/ AddUserToChatFails(h)

SendChatMessageStep(h) ==
    \/ \E m \in Markers, t \in Messages : SendChatMessage(h, m, t)
    \/ SaveChatMessage(h) \/ SaveChatMessageFails(h)
    \/ GetChatParts(h) \/ GetChatPartsFails(h)
    \/ \E u \in AnyUser : PostMessage(h, u)
    \/ EndSend(h)

Next ==
    \/ \E h \in Handlers : \/ AddMarkerStep(h) \/ GetAllMarkersStep(h)
                           \/ JoinChatStep(h) \/ SendChatMessageStep(h)
    \/ \E u \in Users : Attach(u) \/ Detach(u)
    \/ \E m \in Markers, u \in Users :
           GetChatMessages(m, u) \/ GetChatMessagesFails(m, u)

Spec == Init /\ [][Next]_vars

-----------------------------------------------------------------------------
(* Properties.                                                             *)

Labels == {"idle", "insert_chat", "set_chat_id", "post_marker", "scan",
           "listed", "add_part", "save", "get_parts", "post"}

(* Every variable stays in its type.                                       *)
TypeOK ==
    /\ markers \subseteq Markers
    /\ chat_id \subseteq Markers
    /\ chats \subseteq Markers
    /\ parts \in [Markers -> SUBSET AnyUser]
    /\ messages \in [Markers -> SUBSET Messages]
    /\ online \subseteq Users
    /\ inbox \in [Users -> SUBSET Messages]
    /\ announced \subseteq [marker : Markers, chat : Markers \cup {NoMarker}]
    /\ fetched \in [Users -> [Markers -> [known : BOOLEAN,
                                         seen : SUBSET Messages]]]
    /\ abandoned \subseteq Messages
    /\ unsaved \subseteq Messages
    /\ pc \in [Handlers -> Labels]
    /\ job \in [Handlers -> [marker : Markers \cup {NoMarker},
                             chat : Markers \cup {NoMarker},
                             user : AnyUser,
                             message : Messages \cup {NoMessage}]]
    /\ todo \in [Handlers -> SUBSET (Markers \cup AnyUser)]
    /\ found \in [Handlers -> SUBSET Markers]
    /\ owed \in [Handlers -> SUBSET Markers]

(* The uuid of a chat that a client learns of, from a MARKER_ADDED event   *)
(* or from the list of GetAllMarkers, can be joined: the chat has been     *)
(* created with a participant, and its marker is stored and points to it.  *)
(* Any of the three writes of AddMarker may fail, with or without effect,  *)
(* and lists are read in between.  The event of an AddMarker that failed   *)
(* shows the marker to everybody all the same, but with empty uuids.       *)
KnownChatJoinable ==
    \A m \in Announced \cup UNION {found[h] : h \in Handlers} :
        m \in markers /\ m \in chat_id /\ m \in chats /\ parts[m] # {}

Delivering(t, u) ==
    \E h \in Handlers :
        /\ Sending(h, t)
        /\ pc[h] = "get_parts" \/ (pc[h] = "post" /\ u \in todo[h])

(* A participant that is attached, has joined and then has read the        *)
(* history misses no message: every saved one was in the history, was      *)
(* posted to it or is about to be.  Joining, reading and sending race      *)
(* freely.  Two failures break the promise: a sender whose GetChatParts    *)
(* threw, and a GetChatMessages that answered OK with nothing, after which *)
(* the history counts as not read, although the client cannot tell.        *)
NoMessageMissed ==
    \A m \in Markers, u \in Users :
        fetched[u][m].known =>
            \A t \in messages[m] :
                \/ t \in fetched[u][m].seen \cup inbox[u] \cup abandoned
                \/ Delivering(t, u)

(* A message reaches only users who find its chat with GetUserChats, and   *)
(* it is in the history of that chat, unless the save failed, which the    *)
(* handler ignores.  Clients that are not attached may meanwhile have      *)
(* joined as "".                                                           *)
DeliveredIsKept ==
    \A u \in Users : \A t \in inbox[u] :
        \E m \in GetUserChats(u) : t \in messages[m] \cup unsaved

(* README.md: people "see meetings nearby": GetAllMarkers lists every      *)
(* marker that was announced with its uuids before it began.               *)
AnnouncedMarkerListed ==
    \A h \in Handlers : pc[h] = "listed" => owed[h] \subseteq found[h]

=============================================================================
