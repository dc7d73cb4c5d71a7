------------------------------- MODULE Mailer -------------------------------
(***************************************************************************)
(* E-mail verification (utils/Mailer.cpp): SendToken draws a token, mails  *)
(* it without any lock, and stores it under m_mtx once curl reports        *)
(* success; VerifyToken compares.  Handler threads run both at the same    *)
(* time.  Drawn tokens need not differ: they are five random digits from   *)
(* a generator that the threads share without a lock.                      *)
(***************************************************************************)
EXTENDS Naturals, FiniteSets

CONSTANTS
    Handlers,   \* RPC handler threads
    Emails,
    Tokens,     \* bound: the tokens drawn
    NoEmail, NoToken

(* charset[dist(rng) % 9], with dist over the 62 characters: never a 9.    *)
rand_number == {n % 9 : n \in 0 .. 61}

get_random_string(size) == [1 .. size -> rand_number]

ASSUME MailerAssumption ==
    /\ NoEmail \notin Emails
    /\ NoToken \notin Tokens
    /\ Tokens \subseteq get_random_string(5)

VARIABLES
    m_tokens,       \* Mailer::m_tokens
    pc, to, token,  \* where each handler is, its e-mail and its token
    mailed,         \* (e-mail, token) pairs delivered by SMTP
    stored,         \* history: tokens ever stored for an e-mail
    before,         \* history: those stored before a SendToken began
    stale           \* history: tokens a later SendToken has superseded

vars == <<m_tokens, pc, to, token, mailed, stored, before, stale>>

history == <<stored, before, stale>>

Goto(h, label) == pc' = [pc EXCEPT ![h] = label]

Clear(h) ==
    /\ to' = [to EXCEPT ![h] = NoEmail]
    /\ token' = [token EXCEPT ![h] = NoToken]
    /\ before' = [before EXCEPT ![h] = {}]

Init ==
    /\ m_tokens = [e \in Emails |-> NoToken]
    /\ pc = [h \in Handlers |-> "idle"]
    /\ to = [h \in Handlers |-> NoEmail]
    /\ token = [h \in Handlers |-> NoToken]
    /\ mailed = {}
    /\ stored = [e \in Emails |-> {}]
    /\ before = [h \in Handlers |-> {}]
    /\ stale = [e \in Emails |-> {}]

(* Mutant: the token is stored before it is mailed.                        *)
StoreFirst == [start |-> "store", store |-> "send", send |-> "idle"]

(* The statement that follows each one of SendToken.                       *)
SendOrder == [start |-> "send", send |-> "store", store |-> "idle"]

(* SendToken draws a token.                                                *)
SendToken(h, e, t) ==
    /\ pc[h] = "idle"
    /\ to' = [to EXCEPT ![h] = e]
    /\ token' = [token EXCEPT ![h] = t]
    /\ before' = [before EXCEPT ![h] = stored[e]]
    /\ Goto(h, SendOrder.start)
    /\ UNCHANGED <<m_tokens, mailed, stored, stale>>

(* The handler AskToken.                                                   *)
AskToken(h, e) == \E t \in Tokens : SendToken(h, e, t)

(* What the lines of payload_source say: whom the mail is to, the token.   *)
payload_source(h) == <<to[h], token[h]>>

(* SendTokenImpl: curl_easy_perform has sent the mail.                     *)
SendTokenImpl(h) ==
    /\ pc[h] = "send"
    /\ mailed' = mailed \cup {payload_source(h)}
    /\ Goto(h, SendOrder.send)
    /\ UNCHANGED <<m_tokens, to, token, history>>

(* An error of curl: MAIL_WAS_NOT_SENT, and nothing is stored.  The server *)
(* may have accepted the mail before the error.                            *)
SendTokenFails(h) ==
    /\ pc[h] = "send"
    /\ mailed' \in {mailed, mailed \cup {payload_source(h)}}
    /\ Goto(h, "idle")
    /\ Clear(h)
    /\ UNCHANGED <<m_tokens, stored, stale>>

(* Mutant: emplace keeps the token that is there.                          *)
Emplace(old, new) == IF old = NoToken THEN new ELSE old

(* insert_or_assign.                                                       *)
InsertOrAssign(old, new) == new

(* Stores t for the request of h, under m_mtx.                             *)
Store(h, t) ==
    LET e == to[h]
    IN  /\ pc[h] = "store"
        /\ m_tokens' = [m_tokens EXCEPT ![e] = InsertOrAssign(@, t)]
        /\ stored' = [stored EXCEPT ![e] = @ \cup {t}]
        /\ stale' = [stale EXCEPT ![e] = (@ \cup before[h]) \ {t}]
        /\ Goto(h, SendOrder.store)
        /\ Clear(h)
        /\ UNCHANGED mailed

(* Mutant: m_tokens gets the e-mail as token.                              *)
StoreUnmailed(h) == Store(h, to[h])

(* m_tokens.insert_or_assign(to_email, token); answers OK.                 *)
StoreToken(h) == Store(h, token[h])

(* VerifyToken changes nothing; a token that matches may be used again.    *)
VerifyToken(e, t) ==
    IF m_tokens[e] = NoToken THEN "EMAIL_NOT_FOUND"
    ELSE IF m_tokens[e] = t THEN "OK" ELSE "WRONG_TOKEN"

Next ==
    \E h \in Handlers :
        \/ \E e \in Emails : AskToken(h, e)
        \/ SendTokenImpl(h) \/ SendTokenFails(h) \/ StoreToken(h)

Spec == Init /\ [][Next]_vars

-----------------------------------------------------------------------------
(* Properties.                                                             *)

(* Every variable stays in its type.                                       *)
TypeOK ==
    /\ m_tokens \in [Emails -> Tokens \cup {NoToken}]
    /\ pc \in [Handlers -> {"idle", "send", "store"}]
    /\ to \in [Handlers -> Emails \cup {NoEmail}]
    /\ token \in [Handlers -> Tokens \cup {NoToken}]
    /\ mailed \subseteq Emails \X Tokens
    /\ stored \in [Emails -> SUBSET Tokens]
    /\ before \in [Handlers -> SUBSET Tokens]
    /\ stale \in [Emails -> SUBSET Tokens]

(* VerifyToken answers OK only to a token that was mailed to that address, *)
(* although mails fail and several requests for one address overlap.       *)
StoredTokenMailed ==
    \A e \in Emails, t \in Tokens :
        VerifyToken(e, t) = "OK" => <<e, t>> \in mailed

(* Once a SendToken that began after token t was stored has answered OK, t *)
(* is refused, even when older requests that overlap store their tokens    *)
(* late; unless the same token was drawn again.                            *)
SupersededTokenRefused ==
    \A e \in Emails : \A t \in stale[e] : VerifyToken(e, t) = "WRONG_TOKEN"

=============================================================================
