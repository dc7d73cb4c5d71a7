---------------------------- MODULE MailerProofs ----------------------------
(***************************************************************************)
(* Proofs about Mailer for any handlers, addresses and tokens: overlapping *)
(* requests for one address leave only a mailed token behind, and none     *)
(* that a later request has superseded.                                    *)
(***************************************************************************)
EXTENDS Mailer, TLAPS

(* A request under way has an address and a token, and what it will        *)
(* supersede was stored for that address.  It reaches the store only       *)
(* after the mail went out.                                                *)
RequestsTracked ==
    \A h \in Handlers : pc[h] # "idle" =>
        /\ to[h] \in Emails
        /\ token[h] \in Tokens
        /\ before[h] \subseteq stored[to[h]]
        /\ pc[h] = "store" => <<to[h], token[h]>> \in mailed

(* The token that VerifyToken compares with was mailed, is not stale, and  *)
(* is there as soon as one was stored.                                     *)
CurrentToken ==
    \A e \in Emails :
        /\ m_tokens[e] # NoToken => <<e, m_tokens[e]>> \in mailed
        /\ stored[e] # {} => m_tokens[e] # NoToken
        /\ stale[e] \subseteq stored[e]
        /\ m_tokens[e] \notin stale[e]

(* The inductive invariant.                                                *)
MailerInv == TypeOK /\ RequestsTracked /\ CurrentToken

-----------------------------------------------------------------------------
(* The invariant is about the future of requests under way, so each step   *)
(* of SendToken has to keep all three parts.                               *)
LEMMA MailerInvInit == Init => MailerInv
  BY DEF Init, MailerInv, TypeOK, RequestsTracked, CurrentToken

LEMMA SendTokenInv ==
  ASSUME MailerInv, NEW h \in Handlers, NEW e \in Emails, NEW t \in Tokens,
         SendToken(h, e, t)
  PROVE  MailerInv'
  <1> USE DEF SendToken, Goto, SendOrder, MailerInv
  <1>1. TypeOK'
    BY DEF TypeOK
  <1>2. RequestsTracked'
    BY DEF TypeOK, RequestsTracked
  <1>3. CurrentToken'
    BY DEF CurrentToken
  <1> QED BY <1>1, <1>2, <1>3

LEMMA MailSentInv ==
  ASSUME MailerInv, NEW h \in Handlers, SendTokenImpl(h)
  PROVE  MailerInv'
  <1> USE DEF SendTokenImpl, Goto, SendOrder, payload_source, history,
              MailerInv
  <1>1. TypeOK'
    BY DEF TypeOK, RequestsTracked
  <1>2. RequestsTracked'
    BY DEF TypeOK, RequestsTracked
  <1>3. CurrentToken'
    BY DEF CurrentToken
  <1> QED BY <1>1, <1>2, <1>3

LEMMA MailFailsInv ==
  ASSUME MailerInv, NEW h \in Handlers, SendTokenFails(h)
  PROVE  MailerInv'
  <1> USE DEF SendTokenFails, Clear, Goto, payload_source, MailerInv
  <1>1. mailed \subseteq mailed'
    OBVIOUS
  <1>2. TypeOK'
    BY DEF TypeOK, RequestsTracked
  <1>3. RequestsTracked'
    BY <1>1 DEF TypeOK, RequestsTracked
  <1>4. CurrentToken'
    BY <1>1 DEF CurrentToken
  <1> QED BY <1>2, <1>3, <1>4

(* Storing a token supersedes only tokens that were stored before the      *)
(* request began, and never the one it stores.                             *)
LEMMA StoreTokenInv ==
  ASSUME MailerInv, NEW h \in Handlers, StoreToken(h)
  PROVE  MailerInv'
  <1> USE DEF StoreToken, Store, InsertOrAssign, Clear, Goto, SendOrder,
              MailerInv
  <1>1. /\ to[h] \in Emails
        /\ token[h] \in Tokens
        /\ before[h] \subseteq stored[to[h]]
        /\ <<to[h], token[h]>> \in mailed
    BY DEF RequestsTracked
  <1>2. TypeOK'
    BY <1>1 DEF TypeOK
  <1>3. RequestsTracked'
    BY <1>1 DEF TypeOK, RequestsTracked
  <1>4. CurrentToken'
    BY <1>1, MailerAssumption DEF TypeOK, CurrentToken
  <1> QED BY <1>2, <1>3, <1>4

(* The token under an address is always one that was mailed and is current.*)
THEOREM MailerInvariance == Spec => []MailerInv
  <1>1. MailerInv /\ [Next]_vars => MailerInv'
    <2> SUFFICES ASSUME MailerInv, [Next]_vars PROVE MailerInv'
      OBVIOUS
    <2>1. ASSUME NEW h \in Handlers, NEW e \in Emails, AskToken(h, e)
          PROVE  MailerInv'
      BY <2>1, SendTokenInv DEF AskToken
    <2>2. CASE UNCHANGED vars
      BY <2>2 DEF vars, MailerInv, TypeOK, RequestsTracked, CurrentToken
    <2> QED BY <2>1, <2>2, MailSentInv, MailFailsInv, StoreTokenInv DEF Next
  <1> QED BY <1>1, MailerInvInit, PTL DEF Spec

(* Every variable keeps its type.                                          *)
THEOREM MailerTypes == Spec => []TypeOK
  <1>1. MailerInv => TypeOK
    BY DEF MailerInv
  <1> QED BY <1>1, MailerInvariance, PTL

(* VerifyToken says OK only to a token that was mailed to the address.     *)
THEOREM VerifiedWasMailed == Spec => []StoredTokenMailed
  <1>1. MailerInv => StoredTokenMailed
    BY MailerAssumption
       DEF MailerInv, CurrentToken, StoredTokenMailed, VerifyToken
  <1> QED BY <1>1, MailerInvariance, PTL

(* VerifyToken refuses every token that a later request has superseded.    *)
THEOREM SupersededRefused == Spec => []SupersededTokenRefused
  <1>1. MailerInv => SupersededTokenRefused
    BY DEF MailerInv, CurrentToken, SupersededTokenRefused, VerifyToken
  <1> QED BY <1>1, MailerInvariance, PTL

=============================================================================
