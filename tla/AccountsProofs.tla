--------------------------- MODULE AccountsProofs ---------------------------
(***************************************************************************)
(* Proofs about Accounts for any users, app ids and documents and any      *)
(* finite number of handlers: what overlapping logins, some of which fail, *)
(* leave in the user documents.                                            *)
(***************************************************************************)
EXTENDS Accounts, FiniteSetTheorems, TLAPS

(* A device of a user is known: GetUuidByAppId finds it.                   *)
Known(u, a) == \E d \in DocsOf(u) : a \in app_ids[d]

(* A login under way has a user and an app id, and one that has written    *)
(* has left the app id in a document of the user.                          *)
LoginsTracked ==
    \A h \in Handlers :
        /\ pc[h] \in {"insert", "update", "answer"} =>
               job[h].user \in Users /\ job[h].app \in Apps
        /\ pc[h] = "answer" => Known(job[h].user, job[h].app)

(* The threads that have found no document of u and will insert one.       *)
Inserting(u) == {h \in Handlers : pc[h] = "insert" /\ job[h].user = u}

(* Documents there are and documents to come: a thread starts to insert    *)
(* only while there are none, so the sum never exceeds the threads.        *)
InsertsBounded ==
    \A u \in Users :
        /\ IsFiniteSet(DocsOf(u))
        /\ Cardinality(DocsOf(u)) + Cardinality(Inserting(u))
               <= Cardinality(Handlers)

(* The inductive invariant.                                                *)
AccountsInv ==
    TypeOK /\ LoginsTracked /\ DeviceRemembered /\ InsertsBounded

-----------------------------------------------------------------------------
(* The threads that insert are threads, and finitely many.                 *)
LEMMA InsertingFinite ==
  ASSUME NEW u
  PROVE  /\ IsFiniteSet(Inserting(u))
         /\ Cardinality(Inserting(u)) \in Nat
         /\ Cardinality(Handlers) \in Nat
         /\ Cardinality(Inserting(u)) <= Cardinality(Handlers)
  <1>1. Inserting(u) \subseteq Handlers
    BY DEF Inserting
  <1> QED BY <1>1, AccountsAssumption, FS_Subset, FS_CardinalityType

LEMMA InsertingFinitePrimed ==
  ASSUME NEW u
  PROVE  /\ IsFiniteSet(Inserting(u)')
         /\ Cardinality(Inserting(u)') \in Nat
         /\ Cardinality(Inserting(u)') <= Cardinality(Handlers)
  <1>1. Inserting(u)' \subseteq Handlers
    BY DEF Inserting
  <1> QED BY <1>1, AccountsAssumption, FS_Subset, FS_CardinalityType

(* A step that inserts no document and sends no thread to insert one keeps *)
(* the sum, or makes it smaller.                                           *)
LEMMA NoMoreInserts ==
  ASSUME InsertsBounded, UNCHANGED email,
         \A u \in Users : Inserting(u)' \subseteq Inserting(u)
  PROVE  InsertsBounded'
  <1> SUFFICES ASSUME NEW u \in Users
               PROVE  /\ IsFiniteSet(DocsOf(u)')
                      /\ Cardinality(DocsOf(u)') + Cardinality(Inserting(u)')
                             <= Cardinality(Handlers)
    BY DEF InsertsBounded
  <1>1. DocsOf(u)' = DocsOf(u)
    BY DEF DocsOf
  <1>2. Cardinality(Inserting(u)') <= Cardinality(Inserting(u))
    BY InsertingFinite, FS_Subset
  <1>3. IsFiniteSet(DocsOf(u)) /\ Cardinality(DocsOf(u)) \in Nat
    BY FS_CardinalityType DEF InsertsBounded
  <1> QED BY <1>1, <1>2, <1>3, InsertingFinite, InsertingFinitePrimed
          DEF InsertsBounded

(* A device stays known when documents only gain app ids.                  *)
LEMMA KnownStays ==
  ASSUME TypeOK, NEW u \in Users, NEW a \in Apps, Known(u, a),
         \A d \in Docs : email[d] # NoUser =>
             email'[d] = email[d] /\ app_ids[d] \subseteq app_ids'[d]
  PROVE  Known(u, a)'
  BY AccountsAssumption DEF TypeOK, Known, DocsOf

LEMMA AccountsInvInit == Init => AccountsInv
  <1> SUFFICES ASSUME Init PROVE AccountsInv
    OBVIOUS
  <1>1. TypeOK /\ LoginsTracked /\ DeviceRemembered
    BY DEF Init, TypeOK, LoginsTracked, DeviceRemembered, Nothing
  <1>2. \A u \in Users : DocsOf(u) = {}
    BY AccountsAssumption DEF Init, DocsOf
  <1>3. InsertsBounded
    BY <1>2, FS_EmptySet, InsertingFinite DEF InsertsBounded
  <1> QED BY <1>1, <1>3 DEF AccountsInv

LEMMA FindUserInv ==
  ASSUME AccountsInv, NEW h \in Handlers, NEW u \in Users, NEW a \in Apps,
         FindUser(h, u, a)
  PROVE  AccountsInv'
  <1> USE DEF FindUser, Goto, docs, AccountsInv
  <1>1. TypeOK'
    BY DEF TypeOK
  <1>2. LoginsTracked'
    BY DEF TypeOK, LoginsTracked, Known, DocsOf
  <1>3. DeviceRemembered'
    BY DEF DeviceRemembered, DocsOf
  <1>4. InsertsBounded'
    <2> SUFFICES ASSUME NEW v \in Users
                 PROVE  /\ IsFiniteSet(DocsOf(v)')
                        /\ Cardinality(DocsOf(v)') + Cardinality(Inserting(v)')
                               <= Cardinality(Handlers)
      BY DEF InsertsBounded
    <2>1. DocsOf(v)' = DocsOf(v)
      BY DEF DocsOf
    <2>2. IsFiniteSet(DocsOf(v)) /\ Cardinality(DocsOf(v)) \in Nat
      BY FS_CardinalityType DEF InsertsBounded
    <2>3. CASE DocsOf(v) = {}
      BY <2>1, <2>2, <2>3, FS_EmptySet, InsertingFinite,
         InsertingFinitePrimed
    <2>4. CASE DocsOf(v) # {}
      <3>1. Inserting(v)' \subseteq Inserting(v)
        BY <2>4 DEF Inserting, TypeOK
      <3>2. Cardinality(Inserting(v)') <= Cardinality(Inserting(v))
        BY <3>1, InsertingFinite, FS_Subset
      <3> QED BY <3>2, <2>1, <2>2, InsertingFinite, InsertingFinitePrimed
              DEF InsertsBounded
    <2> QED BY <2>3, <2>4
  <1> QED BY <1>1, <1>2, <1>3, <1>4

LEMMA UpdateUserInv ==
  ASSUME AccountsInv, NEW h \in Handlers, UpdateUser(h)
  PROVE  AccountsInv'
  <1> USE DEF UpdateUser, Goto, AccountsInv
  <1>1. PICK d \in DocsOf(job[h].user) :
            app_ids' = [app_ids EXCEPT ![d] = @ \cup {job[h].app}]
    OBVIOUS
  <1>2. job[h].user \in Users /\ job[h].app \in Apps /\ d \in Docs
    BY <1>1 DEF LoginsTracked, DocsOf
  <1>3. \A e \in Docs : email'[e] = email[e] /\ app_ids[e] \subseteq app_ids'[e]
    BY <1>1 DEF TypeOK
  <1>4. TypeOK'
    BY <1>1, <1>2 DEF TypeOK
  <1>5. Known(job[h].user, job[h].app)'
    BY <1>1, <1>2 DEF Known, DocsOf, TypeOK
  <1>6. LoginsTracked'
    BY <1>3, <1>5, KnownStays DEF TypeOK, LoginsTracked
  <1>7. DeviceRemembered'
    BY <1>3 DEF DeviceRemembered, DocsOf, TypeOK
  <1>8. InsertsBounded'
    BY NoMoreInserts DEF Inserting, TypeOK
  <1> QED BY <1>4, <1>6, <1>7, <1>8

(* A document that was not there is inserted by one thread less to come.   *)
LEMMA InsertUserInv ==
  ASSUME AccountsInv, NEW h \in Handlers, InsertUser(h)
  PROVE  AccountsInv'
  <1> USE DEF InsertUser, Goto, AccountsInv
  <1>1. PICK d \in DocsOf(NoUser) :
            /\ email' = [email EXCEPT ![d] = job[h].user]
            /\ app_ids' = [app_ids EXCEPT ![d] = {job[h].app}]
    OBVIOUS
  <1> DEFINE u == job[h].user
  <1>2. u \in Users /\ job[h].app \in Apps /\ d \in Docs /\ email[d] = NoUser
    BY <1>1 DEF LoginsTracked, DocsOf
  <1>3. \A e \in Docs : email[e] # NoUser =>
            email'[e] = email[e] /\ app_ids[e] \subseteq app_ids'[e]
    BY <1>1, <1>2 DEF TypeOK
  <1>4. TypeOK'
    BY <1>1, <1>2 DEF TypeOK
  <1>5. Known(u, job[h].app)'
    BY <1>1, <1>2 DEF Known, DocsOf, TypeOK
  <1>6. LoginsTracked'
    BY <1>3, <1>5, KnownStays DEF TypeOK, LoginsTracked
  <1>7. DeviceRemembered'
    BY <1>3, KnownStays DEF DeviceRemembered, Known, TypeOK
  <1>8. InsertsBounded'
    <2> SUFFICES ASSUME NEW v \in Users
                 PROVE  /\ IsFiniteSet(DocsOf(v)')
                        /\ Cardinality(DocsOf(v)') + Cardinality(Inserting(v)')
                               <= Cardinality(Handlers)
      BY DEF InsertsBounded
    <2>1. IsFiniteSet(DocsOf(v)) /\ Cardinality(DocsOf(v)) \in Nat
      BY FS_CardinalityType DEF InsertsBounded
    <2>2. CASE v = u
      <3>1. DocsOf(v)' = DocsOf(v) \cup {d} /\ d \notin DocsOf(v)
        BY <1>1, <1>2, <2>2, AccountsAssumption DEF DocsOf, TypeOK
      <3>2. Inserting(v)' = Inserting(v) \ {h} /\ h \in Inserting(v)
        BY <2>2 DEF Inserting, TypeOK
      <3>3. IsFiniteSet(DocsOf(v)')
            /\ Cardinality(DocsOf(v)') = Cardinality(DocsOf(v)) + 1
        BY <3>1, <2>1, FS_AddElement
      <3>4. Cardinality(Inserting(v)') = Cardinality(Inserting(v)) - 1
        BY <3>2, InsertingFinite, FS_RemoveElement
      <3> QED BY <3>3, <3>4, <2>1, InsertingFinite DEF InsertsBounded
    <2>3. CASE v # u
      <3>1. DocsOf(v)' = DocsOf(v)
        BY <1>1, <1>2, <2>3, AccountsAssumption DEF DocsOf, TypeOK
      <3>2. Inserting(v)' = Inserting(v)
        BY <2>3 DEF Inserting, TypeOK
      <3> QED BY <3>1, <3>2 DEF InsertsBounded
    <2> QED BY <2>2, <2>3
  <1> QED BY <1>4, <1>6, <1>7, <1>8

(* A login that fails ends; what it had written stays.                     *)
LEMMA LoginEndInv ==
  ASSUME AccountsInv, NEW h \in Handlers, LoginFails(h) \/ LoginAnswersOk(h)
  PROVE  AccountsInv'
  <1> USE DEF LoginFails, LoginAnswersOk, Return, Goto, docs, Nothing,
              AccountsInv
  <1>1. TypeOK'
    <2>1. CASE LoginFails(h)
      BY <2>1 DEF TypeOK, LoginsTracked
    <2>2. CASE LoginAnswersOk(h)
      BY <2>2 DEF TypeOK, LoginsTracked
    <2> QED BY <2>1, <2>2
  <1>2. LoginsTracked'
    BY DEF TypeOK, LoginsTracked, Known, DocsOf
  <1>3. DeviceRemembered'
    BY DEF DeviceRemembered, LoginsTracked, Known, DocsOf
  <1>4. InsertsBounded'
    BY NoMoreInserts DEF Inserting, TypeOK
  <1> QED BY <1>1, <1>2, <1>3, <1>4

(* Requests that neither log in nor write app ids.                         *)
LEMMA OtherRequestsInv ==
  ASSUME AccountsInv,
         \/ \E h \in Handlers : \/ \E a \in Apps : ValidatePhoto(h, a)
                                \/ UpdateVerifStatus(h)
         \/ \E a \in Apps : UpdateInfo(a)
         \/ \E u \in Users : GetInfo(u) \/ GetInfoFails(u)
  PROVE  AccountsInv'
  <1>1. CASE \E h \in Handlers, a \in Apps : ValidatePhoto(h, a)
    <2> PICK h \in Handlers, a \in Apps : ValidatePhoto(h, a)
      BY <1>1
    <2> USE DEF ValidatePhoto, Goto, docs, AccountsInv
    <2>1. TypeOK'
      BY DEF TypeOK
    <2>2. LoginsTracked' /\ DeviceRemembered'
      BY DEF TypeOK, LoginsTracked, DeviceRemembered, Known, DocsOf
    <2>3. InsertsBounded'
      BY NoMoreInserts DEF Inserting, TypeOK
    <2> QED BY <2>1, <2>2, <2>3
  <1>2. CASE \E h \in Handlers : UpdateVerifStatus(h)
    <2> PICK h \in Handlers : UpdateVerifStatus(h)
      BY <1>2
    <2> USE DEF UpdateVerifStatus, Return, Goto, Nothing, AccountsInv
    <2>1. verification' \in [Docs -> BOOLEAN]
      OBVIOUS
    <2>2. TypeOK'
      BY <2>1 DEF TypeOK
    <2>3. LoginsTracked' /\ DeviceRemembered'
      BY DEF TypeOK, LoginsTracked, DeviceRemembered, Known, DocsOf
    <2>4. InsertsBounded'
      BY NoMoreInserts DEF Inserting, TypeOK
    <2> QED BY <2>2, <2>3, <2>4
  <1>3. CASE \E a \in Apps : UpdateInfo(a)
    <2> USE <1>3 DEF UpdateInfo, AccountsInv
    <2>1. TypeOK'
      BY DEF TypeOK
    <2>2. LoginsTracked' /\ DeviceRemembered'
      BY DEF LoginsTracked, DeviceRemembered, Known, DocsOf
    <2>3. InsertsBounded'
      BY NoMoreInserts DEF Inserting
    <2> QED BY <2>1, <2>2, <2>3
  <1>4. CASE \E u \in Users : GetInfo(u) \/ GetInfoFails(u)
    <2> USE <1>4 DEF GetInfo, GetInfoFails, docs, AccountsInv
    <2>1. TypeOK'
      BY DEF TypeOK
    <2>2. LoginsTracked' /\ DeviceRemembered'
      BY DEF LoginsTracked, DeviceRemembered, Known, DocsOf
    <2>3. InsertsBounded'
      BY NoMoreInserts DEF Inserting
    <2> QED BY <2>1, <2>2, <2>3
  <1> QED BY <1>1, <1>2, <1>3, <1>4

(* The documents keep the devices of all logins, and stay within bounds.   *)
THEOREM AccountsInvariance == Spec => []AccountsInv
  <1>1. AccountsInv /\ [Next]_vars => AccountsInv'
    <2> SUFFICES ASSUME AccountsInv, [Next]_vars PROVE AccountsInv'
      OBVIOUS
    <2>1. CASE UNCHANGED vars
      <3>1. TypeOK' /\ LoginsTracked' /\ DeviceRemembered'
        BY <2>1 DEF vars, docs, AccountsInv, TypeOK, LoginsTracked,
                    DeviceRemembered, Known, DocsOf
      <3>2. InsertsBounded'
        BY <2>1, NoMoreInserts DEF vars, docs, AccountsInv, Inserting
      <3> QED BY <3>1, <3>2 DEF AccountsInv
    <2> QED BY <2>1, FindUserInv, UpdateUserInv, InsertUserInv, LoginEndInv,
               OtherRequestsInv DEF Next
  <1> QED BY <1>1, AccountsInvInit, PTL DEF Spec

(* Every variable keeps its type.                                          *)
THEOREM AccountsTypes == Spec => []TypeOK
  <1>1. AccountsInv => TypeOK
    BY DEF AccountsInv
  <1> QED BY <1>1, AccountsInvariance, PTL

(* A device whose login was answered OK stays known.                       *)
THEOREM DevicesRemembered == Spec => []DeviceRemembered
  <1>1. AccountsInv => DeviceRemembered
    BY DEF AccountsInv
  <1> QED BY <1>1, AccountsInvariance, PTL

(* A user never has more documents than there are threads.                 *)
THEOREM FewDuplicates == Spec => []DuplicatesBounded
  <1>1. AccountsInv => DuplicatesBounded
    BY InsertingFinite, FS_CardinalityType
       DEF AccountsInv, InsertsBounded, DuplicatesBounded
  <1> QED BY <1>1, AccountsInvariance, PTL

(* A user who has logged in is never answered with an empty profile: the   *)
(* documents of a finished login are found by every later find_one.        *)
THEOREM ProfileNotEmpty == Spec => NoEmptyProfile
  <1> DEFINE Answered ==
          \A u \in Users :
              (reply'[u] # reply[u] /\ \E a \in Apps : <<u, a>> \in loggedIn)
              => reply'[u] \in {"info", "error"}
  <1>1. AccountsInv /\ [Next]_vars => Answered
    <2> SUFFICES ASSUME AccountsInv, [Next]_vars, NEW u \in Users,
                        reply'[u] # reply[u],
                        NEW a \in Apps, <<u, a>> \in loggedIn
                 PROVE  reply'[u] \in {"info", "error"}
      OBVIOUS
    <2>1. DocsOf(u) # {}
      BY DEF AccountsInv, DeviceRemembered
    <2>2. PICK v \in Users : GetInfo(v) \/ GetInfoFails(v)
      BY DEF Next, vars, docs, FindUser, UpdateUser, InsertUser, LoginFails,
             LoginAnswersOk, ValidatePhoto, UpdateVerifStatus, UpdateInfo
    <2>3. v = u
      BY <2>2 DEF GetInfo, GetInfoFails, AccountsInv, TypeOK
    <2>4. CASE GetInfo(v)
      BY <2>1, <2>3, <2>4 DEF GetInfo, AccountsInv, TypeOK
    <2>5. CASE GetInfoFails(v)
      BY <2>3, <2>5 DEF GetInfoFails, AccountsInv, TypeOK
    <2> QED BY <2>2, <2>4, <2>5
  <1>2. AccountsInv /\ [Next]_vars => [Answered]_vars
    BY <1>1
  <1> QED BY <1>2, AccountsInvariance, PTL DEF Spec, NoEmptyProfile

=============================================================================
