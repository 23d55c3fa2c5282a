-------------------------- MODULE OnboardingProofs --------------------------
(***************************************************************************)
(* The safety properties of Onboarding for any number of users,            *)
(* identities, browsers and requests.                                      *)
(*                                                                         *)
(* OneAccount needs to know that what a request did not find is still not  *)
(* there unless its transaction is outdated; SessionsNotAhead, that the    *)
(* same holds of the copies that requests carry; InactiveAreListed, that   *)
(* there is no review of a user who is yet to be created. With these each  *)
(* step is one that Accounts allows a person.                              *)
(***************************************************************************)
EXTENDS Onboarding, TLAPS

NotFoundHolds ==
  \A r \in Requests : pc[r] = "insert" /\ r \notin outdated =>
    \A u \in UserIds : Exists(u) => user[u].externalId # req[r].externalId

CopiesNotAhead ==
  \A r \in Requests : pc[r] \in {"recheck", "renew"} => NotAhead(req[r].user)

ReviewedExist == \A u \in UserIds : review[u] # NoReview => Exists(u)

IInv ==
  /\ TypeOK
  /\ OneAccount
  /\ NotFoundHolds
  /\ InactiveAreListed
  /\ ReviewedExist
  /\ SessionsNotAhead
  /\ CopiesNotAhead

LEMMA InitIInv == Init => IInv
<1> SUFFICES ASSUME Init PROVE IInv
  OBVIOUS
<1> DEFINE Legacy == [externalId : ExternalIds, status : {"active"}]
<1>1. Legacy \subseteq UserRow /\ \A row \in Legacy : row.status = "active"
  BY DEF UserRow, Status
<1>2. user \in [UserIds -> Legacy \cup {NoUser}]
  BY DEF Init
<1> HIDE DEF Legacy
<1>3. TypeOK
  BY <1>1, <1>2 DEF Init, TypeOK
<1>4. InactiveAreListed
  BY <1>1, <1>2 DEF InactiveAreListed, Exists
<1> QED
  BY <1>3, <1>4
  DEF Init, IInv, OneAccount, NotFoundHolds, ReviewedExist, SessionsNotAhead,
      CopiesNotAhead, ReviewIds

-----------------------------------------------------------------------------
(***************************************************************************)
(* Types.                                                                  *)
(***************************************************************************)

\* A user who is in the table has a row of the right type.
LEMMA RowType ==
  ASSUME TypeOK, NEW u \in UserIds, Exists(u)
  PROVE  /\ user[u] \in UserRow
         /\ user[u].externalId \in ExternalIds
         /\ user[u].status \in Status
BY DEF TypeOK, Exists, UserRow

\* A request that looks an identity up, or creates its user, carries a login.
LEMMA LoginType ==
  ASSUME TypeOK, NEW r \in Requests, pc[r] \in {"lookup", "insert"}
  PROVE  req[r].browser \in Browsers /\ req[r].externalId \in ExternalIds
<1>1. req[r] \in Login
  BY DEF TypeOK
<1> QED
  BY <1>1 DEF Login

\* A request that will write the session carries a session user.
LEMMA LoggedInType ==
  ASSUME TypeOK, NEW r \in Requests, pc[r] \in {"recheck", "renew"}
  PROVE  /\ req[r].browser \in Browsers
         /\ req[r].user \in SessionUser
         /\ req[r].user.id \in UserIds
<1>1. req[r] \in LoggedIn
  BY DEF TypeOK
<1> QED
  BY <1>1 DEF LoggedIn, SessionUser

\* What the types of the requests ask of a step, apart from the tables.
RequestsOK ==
  /\ pc \in [Requests -> {"idle", "lookup", "insert", "recheck", "renew"}]
  /\ req \in [Requests -> Login \cup LoggedIn \cup {NoRequest}]
  /\ \A r \in Requests :
       \/ pc[r] = "idle" /\ req[r] = NoRequest
       \/ pc[r] \in {"lookup", "insert"} /\ req[r] \in Login
       \/ pc[r] \in {"recheck", "renew"} /\ req[r] \in LoggedIn
  /\ outdated \subseteq {r \in Requests : pc[r] = "insert"}

LEMMA IdentifiedOK ==
  ASSUME TypeOK, NEW r \in Requests, NEW su \in SessionUser,
         req[r].browser \in Browsers, Identified(r, su),
         outdated' \subseteq {q \in Requests \ {r} : pc[q] = "insert"}
  PROVE  RequestsOK'
<1> DEFINE row == [browser |-> req[r].browser, user |-> su]
<1>1. row \in LoggedIn
  BY DEF LoggedIn
<1>2. pc' = [pc EXCEPT ![r] = "renew"] /\ req' = [req EXCEPT ![r] = row]
  BY DEF Identified
<1> HIDE DEF row
<1> QED
  BY <1>1, <1>2 DEF TypeOK, RequestsOK

LEMMA FinishOK ==
  ASSUME TypeOK, NEW r \in Requests, Finish(r)
  PROVE  RequestsOK'
BY DEF TypeOK, Finish, RequestsOK

\* A review that was updated is a review.
LEMMA UpdatedReviewType ==
  ASSUME TypeOK, NEW i \in ReviewIds, NEW comment \in Comments \ TooLong
  PROVE  UpdatedReview(i, comment) \in [ReviewIds -> ReviewRow \cup {NoReview}]
<1> DEFINE row == [comment    |-> comment,
                   isApproved |-> review[i] # NoReview /\ review[i].isApproved]
<1>1. (review[i] # NoReview /\ review[i].isApproved) \in BOOLEAN
  OBVIOUS
<1>2. row \in ReviewRow
  BY <1>1 DEF ReviewRow
<1>3. UpdatedReview(i, comment) = [review EXCEPT ![i] = row]
  BY DEF UpdatedReview
<1> HIDE DEF row
<1> QED
  BY <1>2, <1>3 DEF TypeOK

LEMMA ToSessionUserType ==
  ASSUME NEW u \in UserIds, NEW row \in UserRow
  PROVE  ToSessionUser(u, row) \in SessionUser
BY DEF ToSessionUser, SessionUser, UserRow

LEMMA NewUserType ==
  ASSUME NEW x \in ExternalIds
  PROVE  /\ NewUser(x) \in UserRow
         /\ NewUser(x) # NoUser
         /\ NewUser(x).externalId = x
         /\ NewUser(x).status = "inactive"
<1>1. NewUser(x) \in UserRow
  BY DEF NewUser, UserRow, Status
<1>2. NewUser(x) # NoUser
  BY <1>1, NoRowAssumption
<1> QED
  BY <1>1, <1>2 DEF NewUser

\* The rows that ApproveReview writes.
LEMMA ApprovedTypes ==
  ASSUME TypeOK, NEW i \in UserIds, ApproveReview(i)
  PROVE  /\ user' \in [UserIds -> UserRow \cup {NoUser}]
         /\ review' \in [ReviewIds -> ReviewRow \cup {NoReview}]
         /\ user[i] # NoUser => /\ user'[i] # NoUser
                                /\ user'[i].externalId = user[i].externalId
                                /\ user'[i].status = "active"
         /\ user[i] = NoUser => user'[i] = NoUser
         /\ \A u \in UserIds \ {i} : user'[u] = user[u] /\ review'[u] = review[u]
         /\ review[i] # NoReview => review'[i] # NoReview /\ review'[i].isApproved = TRUE
         /\ review[i] = NoReview => review'[i] = NoReview
<1> DEFINE newUser   == IF user[i] = NoUser THEN NoUser
                        ELSE [user[i] EXCEPT !.status = "active"]
           newReview == IF review[i] = NoReview THEN NoReview
                        ELSE [review[i] EXCEPT !.isApproved = TRUE]
<1>1. i \in ReviewIds
  BY DEF ReviewIds
<1>2. user' = [user EXCEPT ![i] = newUser] /\ review' = [review EXCEPT ![i] = newReview]
  BY DEF ApproveReview
<1>3. /\ user[i] = NoUser => newUser = NoUser
      /\ user[i] # NoUser => /\ newUser \in UserRow
                             /\ newUser.externalId = user[i].externalId
                             /\ newUser.status = "active"
  BY DEF TypeOK, UserRow, Status
<1>4. /\ review[i] = NoReview => newReview = NoReview
      /\ review[i] # NoReview => newReview \in ReviewRow /\ newReview.isApproved = TRUE
  <2>1. CASE review[i] = NoReview
    BY <2>1
  <2>2. CASE review[i] # NoReview
    <3>1. newReview = [review[i] EXCEPT !.isApproved = TRUE]
      BY <2>2
    <3>2. review[i] \in ReviewRow
      BY <1>1, <2>2 DEF TypeOK
    <3>3. newReview \in ReviewRow
      BY <3>1, <3>2 DEF ReviewRow
    <3>4. newReview.isApproved = TRUE
      BY <3>1, <3>2 DEF ReviewRow
    <3> QED
      BY <2>2, <3>3, <3>4
  <2> QED
    BY <2>1, <2>2
<1>5. NoUser \notin UserRow /\ NoReview \notin ReviewRow
  BY NoRowAssumption
<1> HIDE DEF newUser, newReview
<1>6. user'[i] = newUser /\ \A u \in UserIds \ {i} : user'[u] = user[u]
  BY <1>2 DEF TypeOK
<1>7. review'[i] = newReview /\ \A u \in ReviewIds \ {i} : review'[u] = review[u]
  BY <1>1, <1>2 DEF TypeOK
<1>8. newUser \in UserRow \cup {NoUser} /\ newReview \in ReviewRow \cup {NoReview}
  BY <1>3, <1>4
<1>9. /\ user' \in [UserIds -> UserRow \cup {NoUser}]
      /\ review' \in [ReviewIds -> ReviewRow \cup {NoReview}]
  BY <1>1, <1>2, <1>8 DEF TypeOK
<1> QED
  BY <1>3, <1>4, <1>5, <1>6, <1>7, <1>9 DEF ReviewIds

\* What Insert writes.
LEMMA InsertedTypes ==
  ASSUME TypeOK, NEW r \in Requests, NEW u \in UserIds, Insert(r, u)
  PROVE  /\ user' \in [UserIds -> UserRow \cup {NoUser}]
         /\ user'[u] \in UserRow
         /\ user'[u] # NoUser
         /\ user'[u].externalId = req[r].externalId
         /\ user'[u].status = "inactive"
         /\ \A v \in UserIds \ {u} : user'[v] = user[v]
<1> DEFINE row == NewUser(req[r].externalId)
<1>1. req[r].externalId \in ExternalIds
  BY LoginType DEF Insert
<1>2. /\ row \in UserRow /\ row # NoUser /\ row.status = "inactive"
      /\ row.externalId = req[r].externalId
  BY <1>1, NewUserType
<1>3. user' = [user EXCEPT ![u] = row]
  BY DEF Insert
<1> HIDE DEF row
<1> QED
  BY <1>2, <1>3 DEF TypeOK

LEMMA NextTypeOK == TypeOK /\ [Next]_vars => TypeOK'
<1> SUFFICES ASSUME TypeOK, [Next]_vars PROVE TypeOK'
  OBVIOUS
<1>0. ASSUME RequestsOK',
             user' \in [UserIds -> UserRow \cup {NoUser}],
             review' \in [ReviewIds -> ReviewRow \cup {NoReview}],
             session' \in [Browsers -> SessionUser \cup {NoSession}],
             reported' \in [ReviewIds -> Comments \cup {NoReview}]
      PROVE  TypeOK'
  BY <1>0 DEF TypeOK, RequestsOK
<1>1. ASSUME NEW r \in Requests, NEW b \in Browsers, NEW x \in ExternalIds, Callback(r, b, x)
      PROVE  TypeOK'
  <2> DEFINE row == [browser |-> b, externalId |-> x]
  <2>1. row \in Login
    BY DEF Login
  <2>2. pc' = [pc EXCEPT ![r] = "lookup"] /\ req' = [req EXCEPT ![r] = row]
    BY <1>1 DEF Callback
  <2> HIDE DEF row
  <2>3. RequestsOK'
    BY <1>1, <2>1, <2>2 DEF Callback, TypeOK, RequestsOK
  <2> QED
    BY <1>0, <1>1, <2>3 DEF Callback, TypeOK
<1>2. ASSUME NEW r \in Requests, NEW b \in Browsers, Visit(r, b)
      PROVE  TypeOK'
  <2> DEFINE row == [browser |-> b, user |-> session[b]]
  <2>1. row \in LoggedIn
    BY <1>2 DEF LoggedIn, Visit, TypeOK
  <2>2. pc' = [pc EXCEPT ![r] = "recheck"] /\ req' = [req EXCEPT ![r] = row]
    BY <1>2 DEF Visit
  <2> HIDE DEF row
  <2>3. RequestsOK'
    BY <1>2, <2>1, <2>2 DEF Visit, TypeOK, RequestsOK
  <2> QED
    BY <1>0, <1>2, <2>3 DEF Visit, TypeOK
<1>3. ASSUME NEW r \in Requests, NEW u \in UserIds, Insert(r, u)
      PROVE  TypeOK'
  <2>1. req[r].browser \in Browsers /\ user'[u] \in UserRow
    BY <1>3, LoginType, InsertedTypes DEF Insert
  <2>2. ToSessionUser(u, user'[u]) \in SessionUser
    BY <2>1, ToSessionUserType
  <2>3. RequestsOK'
    BY <1>3, <2>1, <2>2, IdentifiedOK DEF Insert, Outdate
  <2>4. review' \in [ReviewIds -> ReviewRow \cup {NoReview}]
    BY <1>3, CommentsAssumption, UpdatedReviewType DEF Insert, ReviewIds
  <2> QED
    BY <1>0, <1>3, <2>3, <2>4, InsertedTypes DEF Insert, TypeOK
<1>4. ASSUME NEW r \in Requests, Lookup(r)
      PROVE  TypeOK'
  <2>1. req[r].browser \in Browsers
    BY <1>4, LoginType DEF Lookup
  <2>2. ASSUME NEW u \in UserIds, Exists(u), Identified(r, ToSessionUser(u, user[u]))
        PROVE  RequestsOK'
    BY <1>4, <2>1, <2>2, RowType, ToSessionUserType, IdentifiedOK DEF Lookup, TypeOK
  <2>3. ASSUME pc' = [pc EXCEPT ![r] = "insert"], UNCHANGED req
        PROVE  RequestsOK'
    BY <1>4, <2>3 DEF Lookup, TypeOK, RequestsOK
  <2> QED
    BY <1>0, <1>4, <2>2, <2>3 DEF Lookup, ByExternal, TypeOK
<1>5. ASSUME NEW r \in Requests, Recheck(r)
      PROVE  TypeOK'
  <2>1. /\ req[r].browser \in Browsers
        /\ ToSessionUser(req[r].user.id, user[req[r].user.id]) \in SessionUser
    BY <1>5, LoggedInType, RowType, ToSessionUserType DEF Recheck
  <2>2. RequestsOK'
    BY <1>5, <2>1, IdentifiedOK DEF Recheck, TypeOK
  <2> QED
    BY <1>0, <1>5, <2>2 DEF Recheck, TypeOK
<1>6. ASSUME NEW r \in Requests, Renew(r)
      PROVE  TypeOK'
  BY <1>0, <1>6, FinishOK, LoggedInType DEF Renew, TypeOK
<1>7. ASSUME NEW r \in Requests, Fail(r)
      PROVE  TypeOK'
  BY <1>0, <1>7, FinishOK DEF Fail, TypeOK
<1>8. ASSUME NEW b \in Browsers, EndSession(b)
      PROVE  TypeOK'
  BY <1>8 DEF EndSession, TypeOK
<1>9. ASSUME NEW b \in Browsers, NEW comment \in Comments, UpdateReview(b, comment)
      PROVE  TypeOK'
  <2> DEFINE i == IF session[b] = NoSession THEN NoId ELSE session[b].id
  <2>1. i \in ReviewIds
    BY DEF TypeOK, ReviewIds, SessionUser
  <2>2. /\ \/ comment \notin TooLong /\ review' = UpdatedReview(i, comment)
           \/ UNCHANGED review
        /\ reported' = [reported EXCEPT ![i] = comment]
        /\ UNCHANGED <<user, session, pc, req, outdated>>
    BY <1>9 DEF UpdateReview
  <2> HIDE DEF i
  <2>3. review' \in [ReviewIds -> ReviewRow \cup {NoReview}]
    BY <2>1, <2>2, UpdatedReviewType DEF TypeOK
  <2> QED
    BY <2>1, <2>2, <2>3 DEF TypeOK
<1>10. ASSUME NEW i \in ReviewIds, ApproveReview(i)
       PROVE  TypeOK'
  <2>1. i \in UserIds
    BY <1>10 DEF ApproveReview, ReviewIds
  <2> QED
    BY <1>10, <2>1, ApprovedTypes DEF ApproveReview, TypeOK
<1>11. CASE UNCHANGED vars
  BY <1>11 DEF vars, TypeOK
<1> QED
  BY <1>1, <1>2, <1>3, <1>4, <1>5, <1>6, <1>7, <1>8, <1>9, <1>10, <1>11 DEF Next

-----------------------------------------------------------------------------
(***************************************************************************)
(* Accounts.                                                               *)
(***************************************************************************)

\* Users stay, keep their identity, and stay active.
UserKept(u) ==
  Exists(u) => /\ Exists(u)'
               /\ user'[u].externalId = user[u].externalId
               /\ user[u].status = "active" => user'[u].status = "active"

LEMMA UsersKept ==
  ASSUME TypeOK, [Next]_vars, NEW u \in UserIds
  PROVE  UserKept(u)
<1>1. CASE UNCHANGED user
  BY <1>1 DEF UserKept, Exists
<1>2. ASSUME NEW r \in Requests, NEW v \in UserIds, Insert(r, v)
      PROVE  UserKept(u)
  <2>1. Exists(u) => u # v
    BY <1>2 DEF Insert
  <2> QED
    BY <1>2, <2>1, InsertedTypes DEF UserKept, Exists
<1>3. ASSUME NEW i \in ReviewIds, ApproveReview(i)
      PROVE  UserKept(u)
  <2>1. i \in UserIds
    BY <1>3 DEF ApproveReview, ReviewIds
  <2> QED
    BY <1>3, <2>1, ApprovedTypes DEF UserKept, Exists
<1> QED
  BY <1>1, <1>2, <1>3
  DEF Next, Callback, Visit, Lookup, Recheck, Renew, Fail, EndSession, UpdateReview, vars

LEMMA NextOneAccount == IInv /\ [Next]_vars => OneAccount'
<1> SUFFICES ASSUME IInv, [Next]_vars, NEW x \in ExternalIds,
                    NEW u \in UserIds, Exists(u)', user'[u].externalId = x,
                    NEW v \in UserIds, Exists(v)', user'[v].externalId = x
             PROVE  u = v
  BY DEF OneAccount, AccountsDiffer, ByExternal, Exists
<1> USE DEF IInv
<1>1. ASSUME Exists(u), Exists(v), user[u].externalId = x, user[v].externalId = x
      PROVE  u = v
  BY <1>1 DEF OneAccount, AccountsDiffer, ByExternal
<1>2. CASE UNCHANGED user
  BY <1>1, <1>2 DEF Exists
<1>3. ASSUME NEW r \in Requests, NEW w \in UserIds, Insert(r, w)
      PROVE  u = v
  <2>1. /\ pc[r] = "insert" /\ r \notin outdated
        /\ user'[w].externalId = req[r].externalId
        /\ \A t \in UserIds \ {w} : user'[t] = user[t]
    BY <1>3, InsertedTypes DEF Insert
  <2>2. \A t \in UserIds : Exists(t) => user[t].externalId # req[r].externalId
    BY <2>1 DEF NotFoundHolds
  <2> QED
    BY <1>1, <2>1, <2>2 DEF Exists
<1>4. ASSUME NEW i \in ReviewIds, ApproveReview(i)
      PROVE  u = v
  <2>1. i \in UserIds
    BY <1>4 DEF ApproveReview, ReviewIds
  <2>2. \A t \in UserIds : Exists(t)' => Exists(t) /\ user'[t].externalId = user[t].externalId
    BY <1>4, <2>1, ApprovedTypes DEF Exists
  <2> QED
    BY <1>1, <2>2
<1> QED
  BY <1>2, <1>3, <1>4
  DEF Next, Callback, Visit, Lookup, Recheck, Renew, Fail, EndSession, UpdateReview, vars

LEMMA NextNotFoundHolds == IInv /\ [Next]_vars => NotFoundHolds'
<1> SUFFICES ASSUME IInv, [Next]_vars,
                    NEW q \in Requests, pc'[q] = "insert", q \notin outdated',
                    NEW v \in UserIds, Exists(v)'
             PROVE  user'[v].externalId # req'[q].externalId
  BY DEF NotFoundHolds, Exists
<1> DEFINE Goal == user'[v].externalId # req'[q].externalId
<1> USE DEF IInv, TypeOK
<1>1. ASSUME pc[q] = "insert", q \notin outdated, req'[q] = req[q], UNCHANGED user
      PROVE  Goal
  BY <1>1 DEF NotFoundHolds, Exists
<1>2. ASSUME NEW r \in Requests, NEW b \in Browsers, NEW x \in ExternalIds, Callback(r, b, x)
      PROVE  Goal
  BY <1>1, <1>2 DEF Callback
<1>3. ASSUME NEW r \in Requests, NEW b \in Browsers, Visit(r, b)
      PROVE  Goal
  BY <1>1, <1>3 DEF Visit
<1>4. ASSUME NEW r \in Requests, NEW u \in UserIds, Insert(r, u)
      PROVE  Goal
  BY <1>4 DEF Insert, Identified, Outdate
<1>5. ASSUME NEW r \in Requests, Lookup(r)
      PROVE  Goal
  <2>1. CASE q = r
    BY <1>5, <2>1 DEF Lookup, Identified, ByExternal, Exists
  <2>2. CASE q # r
    BY <1>1, <1>5, <2>2 DEF Lookup, Identified
  <2> QED
    BY <2>1, <2>2
<1>6. ASSUME NEW r \in Requests, Recheck(r)
      PROVE  Goal
  BY <1>1, <1>6 DEF Recheck, Identified
<1>7. ASSUME NEW r \in Requests, Renew(r) \/ Fail(r)
      PROVE  Goal
  BY <1>1, <1>7 DEF Renew, Fail, Finish
<1>8. ASSUME NEW i \in ReviewIds, ApproveReview(i)
      PROVE  Goal
  BY <1>8 DEF ApproveReview
<1>9. CASE UNCHANGED <<user, pc, req, outdated>>
  BY <1>1, <1>9
<1> QED
  BY <1>2, <1>3, <1>4, <1>5, <1>6, <1>7, <1>8, <1>9 DEF Next, EndSession, UpdateReview, vars

-----------------------------------------------------------------------------
(***************************************************************************)
(* Reviews.                                                                *)
(***************************************************************************)

ReviewInv == InactiveAreListed /\ ReviewedExist

LEMMA NextReviewInv == IInv /\ [Next]_vars => ReviewInv'
<1> SUFFICES ASSUME IInv, [Next]_vars, NEW u \in UserIds
             PROVE  /\ Exists(u)' /\ user'[u].status = "inactive"
                         => review'[u] # NoReview /\ ~ review'[u].isApproved
                    /\ review'[u] # NoReview => Exists(u)'
  BY DEF ReviewInv, InactiveAreListed, ReviewedExist, Exists
<1> DEFINE Goal == /\ Exists(u)' /\ user'[u].status = "inactive"
                         => review'[u] # NoReview /\ ~ review'[u].isApproved
                   /\ review'[u] # NoReview => Exists(u)'
<1>0. /\ TypeOK /\ InactiveAreListed /\ ReviewedExist
      /\ u \in ReviewIds /\ review \in [ReviewIds -> ReviewRow \cup {NoReview}]
      /\ NoReview \notin ReviewRow
  BY NoRowAssumption DEF IInv, TypeOK, ReviewIds
<1>1. ASSUME user'[u] = user[u], review'[u] = review[u]
      PROVE  Goal
  BY <1>0, <1>1 DEF InactiveAreListed, ReviewedExist, Exists
<1>2. ASSUME NEW r \in Requests, NEW v \in UserIds, Insert(r, v)
      PROVE  Goal
  <2>1. review' = UpdatedReview(v, NoComment) /\ review[v] = NoReview
    BY <1>0, <1>2 DEF Insert, ReviewedExist
  <2>2. CASE u = v
    <3>1. review'[u] = [comment |-> NoComment, isApproved |-> FALSE]
      BY <1>0, <2>1, <2>2 DEF UpdatedReview
    <3>2. [comment |-> NoComment, isApproved |-> FALSE] \in ReviewRow
      BY CommentsAssumption DEF ReviewRow
    <3>3. review'[u] # NoReview /\ ~ review'[u].isApproved
      <4>1. review'[u] # NoReview
        BY <1>0, <3>1, <3>2
      <4>2. review'[u].isApproved = FALSE
        BY <3>1
      <4> QED
        BY <4>1, <4>2
    <3>4. Exists(u)'
      BY <1>0, <1>2, <2>2, InsertedTypes DEF Exists
    <3> QED
      BY <3>3, <3>4
  <2>3. CASE u # v
    BY <1>0, <1>1, <1>2, <2>1, <2>3, InsertedTypes DEF UpdatedReview
  <2> QED
    BY <2>2, <2>3
<1>3. ASSUME NEW b \in Browsers, NEW comment \in Comments, UpdateReview(b, comment)
      PROVE  Goal
  <2> DEFINE i == IF session[b] = NoSession THEN NoId ELSE session[b].id
  <2>1. i \in ReviewIds /\ (i # NoId => Exists(i))
    BY DEF IInv, TypeOK, ReviewIds, SessionUser, SessionsNotAhead, NotAhead
  <2>2. /\ \/ comment \notin TooLong /\ review' = UpdatedReview(i, comment)
           \/ UNCHANGED review
        /\ UNCHANGED user
    BY <1>3 DEF UpdateReview
  <2> HIDE DEF i
  <2>3. CASE u = i /\ comment \notin TooLong /\ review' = UpdatedReview(i, comment)
    <3> DEFINE row == [comment    |-> comment,
                       isApproved |-> review[i] # NoReview /\ review[i].isApproved]
    <3>1. Exists(u) /\ Exists(u)'
      BY <2>1, <2>2, <2>3, NoIdAssumption DEF Exists
    <3>2. review'[u] = row
      BY <1>0, <2>3 DEF UpdatedReview
    <3>3. row \in ReviewRow
      <4>1. (review[i] # NoReview /\ review[i].isApproved) \in BOOLEAN
        OBVIOUS
      <4> QED
        BY <2>3, <4>1 DEF ReviewRow
    <3>4. row.isApproved <=> review[i] # NoReview /\ review[i].isApproved
      OBVIOUS
    <3> HIDE DEF row
    <3>5. user[u].status = "inactive" => ~ review[u].isApproved
      BY <1>0, <3>1 DEF InactiveAreListed
    <3>6. user[u].status = "inactive" => ~ row.isApproved
      BY <2>3, <3>4, <3>5
    <3>7. review'[u] # NoReview
      BY <1>0, <3>2, <3>3
    <3> QED
      BY <2>2, <3>1, <3>2, <3>6, <3>7
  <2>4. CASE ~ (u = i /\ comment \notin TooLong /\ review' = UpdatedReview(i, comment))
    BY <1>0, <1>1, <2>1, <2>2, <2>4 DEF UpdatedReview
  <2> QED
    BY <2>3, <2>4
<1>4. ASSUME NEW i \in ReviewIds, ApproveReview(i)
      PROVE  Goal
  <2>1. i \in UserIds
    BY <1>4 DEF ApproveReview, ReviewIds
  <2>2. CASE u = i
    <3>1. /\ Exists(u) => Exists(u)' /\ user'[u].status = "active"
          /\ ~ Exists(u) => ~ Exists(u)'
          /\ review[u] = NoReview => review'[u] = NoReview
      BY <1>0, <1>4, <2>1, <2>2, ApprovedTypes DEF Exists
    <3>2. review[u] # NoReview => Exists(u)
      BY <1>0 DEF ReviewedExist
    <3> QED
      BY <3>1, <3>2
  <2>3. CASE u # i
    BY <1>0, <1>1, <1>4, <2>1, <2>3, ApprovedTypes
  <2> QED
    BY <2>2, <2>3
<1>5. CASE UNCHANGED <<user, review>>
  BY <1>1, <1>5
<1> QED
  BY <1>2, <1>3, <1>4, <1>5
  DEF Next, Callback, Visit, Lookup, Recheck, Renew, Fail, EndSession, vars

\* An approved review stays approved.
LEMMA ReviewKept ==
  ASSUME IInv, [Next]_vars, NEW u \in UserIds, review[u] # NoReview, review[u].isApproved
  PROVE  review'[u].isApproved
<1>0. /\ TypeOK /\ ReviewedExist
      /\ u \in ReviewIds /\ review \in [ReviewIds -> ReviewRow \cup {NoReview}]
  BY DEF IInv, TypeOK, ReviewIds
<1>1. ASSUME review'[u] = review[u]
      PROVE  review'[u].isApproved
  BY <1>1
<1>2. ASSUME NEW i \in ReviewIds, NEW comment \in Comments, review' = UpdatedReview(i, comment)
      PROVE  review'[u].isApproved
  <2>1. CASE u = i
    <3> DEFINE approved == review[i] # NoReview /\ review[i].isApproved
    <3>1. approved
      BY <2>1
    <3>2. review' = [review EXCEPT ![i] = [comment |-> comment, isApproved |-> approved]]
      BY <1>2 DEF UpdatedReview
    <3> HIDE DEF approved
    <3>3. review'[u].isApproved = approved
      BY <1>0, <2>1, <3>2
    <3> QED
      BY <3>1, <3>3
  <2>2. CASE u # i
    BY <1>0, <1>1, <1>2, <2>2 DEF UpdatedReview
  <2> QED
    BY <2>1, <2>2
<1>3. ASSUME NEW r \in Requests, NEW v \in UserIds, Insert(r, v)
      PROVE  review'[u].isApproved
  BY <1>2, <1>3, CommentsAssumption DEF Insert, ReviewIds
<1>4. ASSUME NEW b \in Browsers, NEW comment \in Comments, UpdateReview(b, comment)
      PROVE  review'[u].isApproved
  <2> DEFINE i == IF session[b] = NoSession THEN NoId ELSE session[b].id
  <2>1. i \in ReviewIds
    BY <1>0 DEF TypeOK, ReviewIds, SessionUser
  <2>2. review' = UpdatedReview(i, comment) \/ UNCHANGED review
    BY <1>4 DEF UpdateReview
  <2> HIDE DEF i
  <2> QED
    BY <1>1, <1>2, <2>1, <2>2
<1>5. ASSUME NEW i \in ReviewIds, ApproveReview(i)
      PROVE  review'[u].isApproved
  <2>1. i \in UserIds
    BY <1>5 DEF ApproveReview, ReviewIds
  <2>2. CASE u = i
    <3>1. review'[u].isApproved = TRUE
      BY <1>0, <1>5, <2>1, <2>2, ApprovedTypes
    <3> QED
      BY <3>1
  <2>3. CASE u # i
    BY <1>0, <1>1, <1>5, <2>1, <2>3, ApprovedTypes
  <2> QED
    BY <2>2, <2>3
<1>6. CASE UNCHANGED review
  BY <1>1, <1>6
<1> QED
  BY <1>3, <1>4, <1>5, <1>6
  DEF Next, Callback, Visit, Lookup, Recheck, Renew, Fail, EndSession, vars

-----------------------------------------------------------------------------
(***************************************************************************)
(* Sessions.                                                               *)
(***************************************************************************)

\* What is not ahead of the table stays so.
LEMMA NotAheadKept ==
  ASSUME TypeOK, [Next]_vars, NEW su, su.id \in UserIds, NotAhead(su)
  PROVE  /\ user'[su.id] # NoUser
         /\ su.status = "active" => user'[su.id].status = "active"
BY UsersKept DEF NotAhead, UserKept, Exists

LEMMA NextSessionsNotAhead == IInv /\ [Next]_vars => SessionsNotAhead'
<1> SUFFICES ASSUME IInv, [Next]_vars, NEW b \in Browsers, session'[b] # NoSession
             PROVE  /\ user'[session'[b].id] # NoUser
                    /\ session'[b].status = "active"
                         => user'[session'[b].id].status = "active"
  BY DEF SessionsNotAhead, NotAhead, Exists
<1> DEFINE Goal == /\ user'[session'[b].id] # NoUser
                   /\ session'[b].status = "active"
                        => user'[session'[b].id].status = "active"
<1>1. TypeOK /\ SessionsNotAhead /\ CopiesNotAhead
  BY DEF IInv
<1>2. ASSUME session'[b] = session[b]
      PROVE  Goal
  <2>1. NotAhead(session[b])
    BY <1>1, <1>2 DEF SessionsNotAhead
  <2>2. session[b].id \in UserIds
    BY <1>1, <1>2 DEF TypeOK, SessionUser
  <2> QED
    BY <1>1, <1>2, <2>1, <2>2, NotAheadKept
<1>3. ASSUME NEW r \in Requests, Renew(r)
      PROVE  Goal
  <2>1. NotAhead(req[r].user) /\ req[r].user.id \in UserIds
    BY <1>1, <1>3, LoggedInType DEF CopiesNotAhead, Renew
  <2>2. session'[b] = session[b] \/ session'[b] = req[r].user
    BY <1>1, <1>3 DEF Renew, TypeOK
  <2> QED
    BY <1>1, <1>2, <2>1, <2>2, NotAheadKept
<1>4. ASSUME NEW c \in Browsers, EndSession(c)
      PROVE  Goal
  BY <1>1, <1>2, <1>4 DEF EndSession, TypeOK
<1> QED
  BY <1>2, <1>3, <1>4
  DEF Next, Callback, Visit, Insert, Lookup, Recheck, Fail, UpdateReview, ApproveReview, vars

LEMMA NextCopiesNotAhead == IInv /\ [Next]_vars => CopiesNotAhead'
<1> SUFFICES ASSUME IInv, [Next]_vars, NEW q \in Requests, pc'[q] \in {"recheck", "renew"}
             PROVE  /\ user'[req'[q].user.id] # NoUser
                    /\ req'[q].user.status = "active"
                         => user'[req'[q].user.id].status = "active"
  BY DEF CopiesNotAhead, NotAhead, Exists
<1> DEFINE Goal == /\ user'[req'[q].user.id] # NoUser
                   /\ req'[q].user.status = "active"
                        => user'[req'[q].user.id].status = "active"
<1>1. TypeOK /\ SessionsNotAhead /\ CopiesNotAhead
  BY DEF IInv
<1>2. ASSUME pc[q] \in {"recheck", "renew"}, req'[q] = req[q]
      PROVE  Goal
  BY <1>1, <1>2, LoggedInType, NotAheadKept DEF CopiesNotAhead
<1>3. ASSUME NEW r \in Requests, NEW su, Identified(r, su), q # r
      PROVE  Goal
  BY <1>1, <1>2, <1>3 DEF Identified, TypeOK
<1>4. ASSUME NEW r \in Requests, pc'[r] # "insert", UNCHANGED user, q = r,
             NEW su, su.id \in UserIds, NotAhead(su), req'[r].user = su
      PROVE  Goal
  BY <1>4 DEF NotAhead, Exists
<1>5. ASSUME NEW r \in Requests, NEW su, Identified(r, su)
      PROVE  pc'[r] = "renew" /\ req'[r].user = su
  BY <1>1, <1>5 DEF Identified, TypeOK
<1>6. ASSUME NEW r \in Requests, NEW b \in Browsers, NEW x \in ExternalIds, Callback(r, b, x)
      PROVE  Goal
  BY <1>1, <1>2, <1>6 DEF Callback, TypeOK
<1>7. ASSUME NEW r \in Requests, NEW b \in Browsers, Visit(r, b)
      PROVE  Goal
  <2>1. CASE q = r
    <3>1. NotAhead(session[b]) /\ session[b].id \in UserIds
      BY <1>1, <1>7 DEF Visit, SessionsNotAhead, TypeOK, SessionUser
    <3>2. pc'[r] = "recheck" /\ req'[r].user = session[b] /\ UNCHANGED user
      BY <1>1, <1>7 DEF Visit, TypeOK
    <3> QED
      BY <1>4, <2>1, <3>1, <3>2
  <2>2. CASE q # r
    BY <1>1, <1>2, <1>7, <2>2 DEF Visit, TypeOK
  <2> QED
    BY <2>1, <2>2
<1>8. ASSUME NEW r \in Requests, NEW u \in UserIds, Insert(r, u)
      PROVE  Goal
  <2>1. Identified(r, ToSessionUser(u, user'[u]))
    BY <1>8 DEF Insert
  <2>2. CASE q = r
    <3>1. req'[q].user.id = u /\ req'[q].user.status = user'[u].status
      BY <1>5, <2>1, <2>2 DEF ToSessionUser
    <3>2. user'[u] # NoUser
      BY <1>1, <1>8, InsertedTypes DEF Insert
    <3> QED
      BY <3>1, <3>2
  <2>3. CASE q # r
    BY <1>3, <2>1, <2>3
  <2> QED
    BY <2>2, <2>3
<1>9. ASSUME NEW r \in Requests, NEW u \in UserIds, Exists(u), UNCHANGED user,
             Identified(r, ToSessionUser(u, user[u]))
      PROVE  Goal
  <2>1. CASE q = r
    <3>1. req'[q].user.id = u /\ req'[q].user.status = user[u].status
      BY <1>5, <1>9, <2>1 DEF ToSessionUser
    <3> QED
      BY <1>9, <3>1 DEF Exists
  <2>2. CASE q # r
    BY <1>3, <1>9, <2>2
  <2> QED
    BY <2>1, <2>2
<1>10. ASSUME NEW r \in Requests, Lookup(r)
       PROVE  Goal
  <2>1. CASE pc' = [pc EXCEPT ![r] = "insert"] /\ UNCHANGED req
    BY <1>1, <1>2, <2>1 DEF TypeOK
  <2>2. CASE \E u \in ByExternal(req[r].externalId) : Identified(r, ToSessionUser(u, user[u]))
    BY <1>9, <1>10, <2>2 DEF Lookup, ByExternal
  <2> QED
    BY <1>10, <2>1, <2>2 DEF Lookup
<1>11. ASSUME NEW r \in Requests, Recheck(r)
       PROVE  Goal
  <2>1. req[r].user.id \in UserIds
    BY <1>1, <1>11, LoggedInType DEF Recheck
  <2> QED
    BY <1>9, <1>11, <2>1 DEF Recheck
<1>12. ASSUME NEW r \in Requests, Renew(r) \/ Fail(r)
       PROVE  Goal
  BY <1>1, <1>2, <1>12 DEF Renew, Fail, Finish, TypeOK
<1>13. CASE UNCHANGED <<pc, req>>
  BY <1>2, <1>13
<1> QED
  BY <1>6, <1>7, <1>8, <1>10, <1>11, <1>12, <1>13
  DEF Next, EndSession, UpdateReview, ApproveReview, vars

-----------------------------------------------------------------------------
(***************************************************************************)
(* Onboarding implements Accounts: what the steps do to the rows of one    *)
(* user, put together by OneAccount to what they do to a person.           *)
(***************************************************************************)

Name(u)       == user[u].externalId
IsActive(u)   == Exists(u) /\ user[u].status = "active"
IsOpen(u)     == Reviewed(u) /\ ~ review[u].isApproved
IsApproved(u) == Reviewed(u) /\ review[u].isApproved

\* What Accounts sees of the tables, person by person.
LEMMA PersonViews ==
  ASSUME NEW x
  PROVE  /\ x \in Known    <=> \E u \in UserIds : Exists(u) /\ x = Name(u)
         /\ x \in Active   <=> \E u \in UserIds : IsActive(u) /\ x = Name(u)
         /\ x \in Open     <=> \E u \in UserIds : IsOpen(u) /\ x = Name(u)
         /\ x \in Approved <=> \E u \in UserIds : IsApproved(u) /\ x = Name(u)
         /\ x \in Known'    <=> \E u \in UserIds : Exists(u)' /\ x = Name(u)'
         /\ x \in Active'   <=> \E u \in UserIds : IsActive(u)' /\ x = Name(u)'
         /\ x \in Open'     <=> \E u \in UserIds : IsOpen(u)' /\ x = Name(u)'
         /\ x \in Approved' <=> \E u \in UserIds : IsApproved(u)' /\ x = Name(u)'
<1>1. /\ x \in Known    <=> \E u \in UserIds : Exists(u) /\ x = Name(u)
      /\ x \in Known'   <=> \E u \in UserIds : Exists(u)' /\ x = Name(u)'
  BY DEF Known, Name
<1>2. /\ x \in Active   <=> \E u \in UserIds : IsActive(u) /\ x = Name(u)
      /\ x \in Active'  <=> \E u \in UserIds : IsActive(u)' /\ x = Name(u)'
  BY DEF Active, IsActive, Name
<1>3. /\ x \in Open     <=> \E u \in UserIds : IsOpen(u) /\ x = Name(u)
      /\ x \in Open'    <=> \E u \in UserIds : IsOpen(u)' /\ x = Name(u)'
  BY DEF Open, IsOpen, Name
<1>4. /\ x \in Approved  <=> \E u \in UserIds : IsApproved(u) /\ x = Name(u)
      /\ x \in Approved' <=> \E u \in UserIds : IsApproved(u)' /\ x = Name(u)'
  BY DEF Approved, IsApproved, Name
<1> QED
  BY <1>1, <1>2, <1>3, <1>4

LEMMA OneName ==
  ASSUME IInv, NEW u \in UserIds, NEW v \in UserIds, Exists(u), Exists(v), Name(u) = Name(v)
  PROVE  u = v
BY RowType DEF IInv, OneAccount, AccountsDiffer, ByExternal, Name

\* Who has an open or an approved review, or is active, exists.
LEMMA ViewsExist ==
  ASSUME NEW u \in UserIds
  PROVE  /\ IsActive(u) \/ IsOpen(u) \/ IsApproved(u) => Exists(u)
         /\ IsActive(u)' \/ IsOpen(u)' \/ IsApproved(u)' => Exists(u)'
BY DEF IsActive, IsOpen, IsApproved, Reviewed

\* Nothing changes about the users whose rows a step leaves alone.
SameRow(u) ==
  /\ Exists(u)' <=> Exists(u)
  /\ Name(u)' = Name(u)
  /\ IsActive(u)' <=> IsActive(u)
  /\ IsOpen(u)' <=> IsOpen(u)
  /\ IsApproved(u)' <=> IsApproved(u)

LEMMA RowLeftAlone ==
  ASSUME NEW u \in UserIds, user'[u] = user[u], review'[u] = review[u]
  PROVE  SameRow(u)
<1>1. /\ Exists(u)' <=> Exists(u)
      /\ Reviewed(u)' <=> Reviewed(u)
  BY DEF Exists, Reviewed
<1> QED
  BY <1>1 DEF SameRow, Name, IsActive, IsOpen, IsApproved

LEMMA TablesLeftAlone ==
  ASSUME \A u \in UserIds : SameRow(u)
  PROVE  UNCHANGED <<Known, Active, Open, Approved>>
<1>1. \A x : /\ x \in Known' <=> x \in Known
             /\ x \in Active' <=> x \in Active
             /\ x \in Open' <=> x \in Open
             /\ x \in Approved' <=> x \in Approved
  BY PersonViews DEF SameRow
<1>2. Known' = Known
  BY <1>1 DEF Known
<1>3. Active' = Active
  BY <1>1 DEF Active
<1>4. Open' = Open
  BY <1>1 DEF Open
<1>5. Approved' = Approved
  BY <1>1 DEF Approved
<1> QED
  BY <1>2, <1>3, <1>4, <1>5

\* The person of a logged-in session is fixed: users keep their identity.
LEMMA SessionsLeftAlone ==
  ASSUME IInv, [Next]_vars, UNCHANGED session
  PROVE  UNCHANGED <<SignedIn, LetIn>>
<1>1. ASSUME NEW b \in Browsers, session[b] # NoSession
      PROVE  user'[session[b].id].externalId = user[session[b].id].externalId
  <2>1. session[b].id \in UserIds /\ Exists(session[b].id)
    BY <1>1 DEF IInv, TypeOK, SessionUser, SessionsNotAhead, NotAhead
  <2> QED
    BY <2>1, UsersKept DEF IInv, UserKept
<1>2. SignedIn' = SignedIn
  BY <1>1 DEF SignedIn
<1>3. LetIn' = LetIn
  BY <1>1 DEF LetIn
<1> QED
  BY <1>2, <1>3

LEMMA InsertJoins ==
  ASSUME IInv, NEW r \in Requests, NEW u \in UserIds, Insert(r, u)
  PROVE  Promise!Join(req[r].externalId)
<1> DEFINE p == req[r].externalId
<1>1. /\ [Next]_vars /\ TypeOK /\ UNCHANGED session
      /\ pc[r] = "insert" /\ r \notin outdated
      /\ u \in ReviewIds
  BY DEF Next, IInv, Insert, ReviewIds
<1>2. p \notin Known
  BY <1>1, PersonViews DEF IInv, NotFoundHolds, Name
<1>3. \A v \in UserIds \ {u} : SameRow(v)
  BY <1>1, InsertedTypes, RowLeftAlone DEF Insert, UpdatedReview, TypeOK, ReviewIds
<1>4. ~ Exists(u)
  BY DEF Insert
<1>5. /\ Exists(u)' /\ Name(u)' = p /\ ~ IsActive(u)'
      /\ IsOpen(u)' /\ ~ IsApproved(u)'
  <2>1. user'[u] # NoUser /\ user'[u].externalId = p /\ user'[u].status = "inactive"
    BY <1>1, InsertedTypes
  <2>2. review[u] = NoReview
    BY <1>1, <1>4 DEF IInv, ReviewedExist
  <2>3. review'[u] = [comment |-> NoComment, isApproved |-> FALSE]
    BY <1>1, <2>2 DEF Insert, UpdatedReview, TypeOK
  <2>4. review'[u] # NoReview
    <3>1. review'[u] \in ReviewRow
      BY <2>3, CommentsAssumption DEF ReviewRow
    <3> QED
      BY <3>1, NoRowAssumption
  <2>5. review'[u].isApproved = FALSE
    BY <2>3
  <2> QED
    BY <2>1, <2>4, <2>5 DEF Exists, Name, IsActive, IsOpen, IsApproved, Reviewed
<1>6. \A x : /\ x \in Known' <=> x \in Known \/ x = p
             /\ x \in Active' <=> x \in Active
             /\ x \in Open' <=> x \in Open \/ x = p
             /\ x \in Approved' <=> x \in Approved
  BY <1>3, <1>4, <1>5, PersonViews, ViewsExist DEF SameRow
<1>7. Known' = Known \cup {p} /\ Open' = Open \cup {p}
  <2>1. Known' = Known \cup {p}
    BY <1>6 DEF Known
  <2>2. Open' = Open \cup {p}
    BY <1>6 DEF Open
  <2> QED
    BY <2>1, <2>2
<1>8. Active' = Active /\ Approved' = Approved
  <2>1. Active' = Active
    BY <1>6 DEF Active
  <2>2. Approved' = Approved
    BY <1>6 DEF Approved
  <2> QED
    BY <2>1, <2>2
<1> QED
  BY <1>1, <1>2, <1>7, <1>8, SessionsLeftAlone DEF Promise!Join

LEMMA ApproveReviewApproves ==
  ASSUME IInv, NEW i \in UserIds, Exists(i), ApproveReview(i)
  PROVE  Promise!Approve(Name(i))
<1> DEFINE p == Name(i)
<1>1. [Next]_vars /\ TypeOK /\ UNCHANGED session /\ i \in ReviewIds
  BY DEF Next, IInv, ApproveReview, ReviewIds
<1>2. p \in Known
  BY PersonViews
<1>3. \A v \in UserIds \ {i} : SameRow(v)
  BY <1>1, ApprovedTypes, RowLeftAlone
<1>4. /\ Exists(i)' /\ Name(i)' = p /\ IsActive(i)' /\ ~ IsOpen(i)'
      /\ IsApproved(i)' <=> IsOpen(i) \/ IsApproved(i)
  BY <1>1, ApprovedTypes DEF Exists, Name, IsActive, IsOpen, IsApproved, Reviewed
<1>5. \A v \in UserIds : Exists(v) /\ Name(v) = p => v = i
  BY OneName
<1>6. \A x : /\ x \in Known' <=> x \in Known
             /\ x \in Active' <=> x \in Active \/ x = p
  BY <1>2, <1>3, <1>4, PersonViews, ViewsExist DEF SameRow
<1>7. \A x : /\ x \in Open' <=> x \in Open /\ x # p
             /\ x \in Approved' <=> x \in Approved \/ (x \in Open /\ x = p)
  BY <1>3, <1>4, <1>5, PersonViews, ViewsExist DEF SameRow
<1>8. Known' = Known /\ Active' = Active \cup {p}
  <2>1. Known' = Known
    BY <1>6 DEF Known
  <2>2. Active' = Active \cup {p}
    BY <1>6 DEF Active
  <2> QED
    BY <2>1, <2>2
<1>9. Open' = Open \ {p} /\ Approved' = Approved \cup (Open \cap {p})
  <2>1. Open' = Open \ {p}
    BY <1>7 DEF Open
  <2>2. Approved' = Approved \cup (Open \cap {p})
    BY <1>7 DEF Approved
  <2> QED
    BY <2>1, <2>2
<1> QED
  BY <1>1, <1>2, <1>8, <1>9, SessionsLeftAlone DEF Promise!Approve


\* A comment is one of a session's user, who exists; whoever is not logged in
\* writes to a review of nobody.
LEMMA UpdateReviewComments ==
  ASSUME IInv, NEW b \in Browsers, NEW comment \in Comments, UpdateReview(b, comment)
  PROVE  \/ \E p \in ExternalIds : Promise!Comment(p)
         \/ UNCHANGED Promise!accountVars
<1>1. [Next]_vars /\ TypeOK /\ UNCHANGED <<user, session>>
  BY DEF Next, IInv, UpdateReview
<1>2. PICK i \in ReviewIds :
        /\ i # NoId => i \in UserIds /\ Exists(i)
        /\ UNCHANGED review \/ (comment \notin TooLong /\ review' = UpdatedReview(i, comment))
  <2> DEFINE j == IF session[b] = NoSession THEN NoId ELSE session[b].id
  <2>1. j \in ReviewIds /\ (j # NoId => j \in UserIds /\ Exists(j))
    BY <1>1 DEF IInv, TypeOK, ReviewIds, SessionUser, SessionsNotAhead, NotAhead
  <2>2. UNCHANGED review \/ (comment \notin TooLong /\ review' = UpdatedReview(j, comment))
    BY DEF UpdateReview
  <2> HIDE DEF j
  <2> QED
    BY <2>1, <2>2
<1>3. UNCHANGED review \/ (comment \notin TooLong /\ review' = UpdatedReview(i, comment))
  BY <1>2
<1>4. \A v \in UserIds \ {i} : SameRow(v)
  BY <1>1, <1>2, <1>3, RowLeftAlone DEF UpdatedReview, TypeOK, ReviewIds
<1>5. UNCHANGED <<SignedIn, LetIn>>
  BY <1>1, SessionsLeftAlone
<1>6. CASE \A v \in UserIds : SameRow(v)
  BY <1>5, <1>6, TablesLeftAlone DEF Promise!accountVars
<1>7. CASE i # NoId /\ comment \notin TooLong /\ review' = UpdatedReview(i, comment)
  <2> DEFINE p == Name(i)
             approved == review[i] # NoReview /\ review[i].isApproved
             row == [comment |-> comment, isApproved |-> approved]
  <2>1. review'[i] = row
    BY <1>1, <1>2, <1>7 DEF UpdatedReview, TypeOK
  <2>2. row \in ReviewRow
    <3>1. approved \in BOOLEAN
      OBVIOUS
    <3> HIDE DEF approved
    <3> QED
      BY <1>7, <3>1 DEF ReviewRow
  <2>3. row.isApproved = approved
    OBVIOUS
  <2>4. approved <=> IsApproved(i)
    BY <1>2, <1>7 DEF IsApproved, Reviewed
  <2> HIDE DEF row, approved
  <2>5. review'[i] # NoReview /\ (review'[i].isApproved <=> IsApproved(i))
    BY <2>1, <2>2, <2>3, <2>4, NoRowAssumption
  <2>6. /\ Exists(i)' /\ Name(i)' = p /\ (IsActive(i)' <=> IsActive(i))
        /\ IsApproved(i)' <=> IsApproved(i)
        /\ IsOpen(i)' <=> ~ IsApproved(i)
    BY <1>1, <1>2, <1>7, <2>5 DEF Exists, Name, IsActive, IsOpen, IsApproved, Reviewed
  <2>7. CASE IsApproved(i)
    <3>1. SameRow(i)
      BY <1>2, <1>7, <2>6, <2>7 DEF SameRow, IsOpen, IsApproved
    <3> QED
      BY <1>4, <1>6, <3>1
  <2>8. CASE ~ IsApproved(i)
    <3>1. p \in Known /\ p \in ExternalIds
      BY <1>1, <1>2, <1>7, PersonViews, RowType DEF Name
    <3>2. p \notin Approved
      BY <1>2, <1>7, <2>8, PersonViews, ViewsExist, OneName
    <3>3. \A x : /\ x \in Known' <=> x \in Known
                 /\ x \in Active' <=> x \in Active
                 /\ x \in Open' <=> x \in Open \/ x = p
                 /\ x \in Approved' <=> x \in Approved
      BY <1>2, <1>4, <1>7, <2>6, <2>8, PersonViews DEF SameRow
    <3>4. Known' = Known /\ Active' = Active
      <4>1. Known' = Known
        BY <3>3 DEF Known
      <4>2. Active' = Active
        BY <3>3 DEF Active
      <4> QED
        BY <4>1, <4>2
    <3>5. Open' = Open \cup {p} /\ Approved' = Approved
      <4>1. Open' = Open \cup {p}
        BY <3>3 DEF Open
      <4>2. Approved' = Approved
        BY <3>3 DEF Approved
      <4> QED
        BY <4>1, <4>2
    <3>6. Promise!Comment(p)
      BY <1>5, <3>1, <3>2, <3>4, <3>5 DEF Promise!Comment
    <3> QED
      BY <3>1, <3>6
  <2> QED
    BY <2>7, <2>8
<1>8. CASE i = NoId \/ UNCHANGED review
  <2>1. \A v \in UserIds : SameRow(v)
    BY <1>1, <1>4, <1>8, NoIdAssumption, RowLeftAlone
  <2> QED
    BY <1>6, <2>1
<1> QED
  BY <1>3, <1>7, <1>8

\* A session is written with a copy that may be behind its user but is not ahead.
LEMMA RenewSignsIn ==
  ASSUME IInv, NEW r \in Requests, Renew(r)
  PROVE  \E p \in ExternalIds : Promise!SignIn(req[r].browser, p)
<1> DEFINE b == req[r].browser
           su == req[r].user
           p  == user[su.id].externalId
<1>1. /\ TypeOK /\ UNCHANGED <<user, review>>
      /\ b \in Browsers /\ su \in SessionUser /\ su.id \in UserIds
      /\ NotAhead(su)
  BY LoggedInType DEF IInv, Renew, CopiesNotAhead
<1>2. session' = [session EXCEPT ![b] = su] /\ su # NoSession
  BY <1>1, NoRowAssumption DEF Renew
<1>3. p \in ExternalIds /\ p \in Known
  BY <1>1, RowType, PersonViews DEF NotAhead, Name
<1>4. su.status = "active" => p \in Active
  BY <1>1, PersonViews DEF NotAhead, IsActive, Name
<1> HIDE DEF b, su
<1>5. /\ session'[b] = su
      /\ \A c \in Browsers \ {b} : session'[c] = session[c]
  BY <1>1, <1>2 DEF TypeOK
<1>6. SignedIn' = Promise!Elsewhere(b, SignedIn) \cup {<<b, p>>}
  BY <1>1, <1>2, <1>5 DEF SignedIn, Promise!Elsewhere
<1>7. LetIn' = IF su.status = "active"
                 THEN Promise!Elsewhere(b, LetIn) \cup {<<b, p>>}
                 ELSE Promise!Elsewhere(b, LetIn)
  BY <1>1, <1>2, <1>5 DEF LetIn, Promise!Elsewhere
<1>8. UNCHANGED <<Known, Active, Open, Approved>>
  BY <1>1, RowLeftAlone, TablesLeftAlone
<1>9. Promise!SignIn(b, p)
  BY <1>3, <1>4, <1>6, <1>7, <1>8 DEF Promise!SignIn
<1> QED
  BY <1>3, <1>9 DEF b

LEMMA EndSessionSignsOut ==
  ASSUME IInv, NEW b \in Browsers, EndSession(b)
  PROVE  Promise!SignOut(b)
<1>1. TypeOK /\ UNCHANGED <<user, review>>
  BY DEF IInv, EndSession
<1>2. /\ session'[b] = NoSession
      /\ \A c \in Browsers \ {b} : session'[c] = session[c]
  BY <1>1 DEF TypeOK, EndSession
<1>3. SignedIn' = Promise!Elsewhere(b, SignedIn)
  BY <1>1, <1>2 DEF SignedIn, Promise!Elsewhere
<1>4. LetIn' = Promise!Elsewhere(b, LetIn)
  BY <1>1, <1>2 DEF LetIn, Promise!Elsewhere
<1>5. UNCHANGED <<Known, Active, Open, Approved>>
  BY <1>1, RowLeftAlone, TablesLeftAlone
<1> QED
  BY <1>3, <1>4, <1>5 DEF Promise!SignOut

LEMMA InitAccounts == Init => Promise!Init
<1> SUFFICES ASSUME Init PROVE Promise!Init
  OBVIOUS
<1>1. IInv
  BY InitIInv
<1>2. /\ \A u \in UserIds : Exists(u) => user[u].status = "active"
      /\ \A u \in UserIds : ~ Reviewed(u)
      /\ \A b \in Browsers : session[b] = NoSession
  BY <1>1 DEF Init, Exists, Reviewed, ReviewIds
<1>3. Known = Active
  BY <1>2 DEF Known, Active
<1>4. Known \in SUBSET ExternalIds
  BY <1>1, RowType DEF IInv, Known
<1>5. Open = {} /\ Approved = {}
  BY <1>2 DEF Open, Approved
<1>6. SignedIn = {} /\ LetIn = {}
  BY <1>2 DEF SignedIn, LetIn
<1> QED
  BY <1>3, <1>4, <1>5, <1>6 DEF Promise!Init

LEMMA AccountsStep == IInv /\ [Next]_vars => [Promise!Next]_(Promise!accountVars)
<1> SUFFICES ASSUME IInv, [Next]_vars PROVE [Promise!Next]_(Promise!accountVars)
  OBVIOUS
<1>1. ASSUME NEW r \in Requests, NEW u \in UserIds, Insert(r, u)
      PROVE  Promise!Next
  <2>1. req[r].externalId \in ExternalIds
    BY <1>1, LoginType DEF IInv, Insert
  <2> QED
    BY <1>1, <2>1, InsertJoins DEF Promise!Next
<1>2. ASSUME NEW r \in Requests, Renew(r)
      PROVE  Promise!Next
  <2>1. req[r].browser \in Browsers
    BY <1>2, LoggedInType DEF IInv, Renew
  <2> QED
    BY <1>2, <2>1, RenewSignsIn DEF Promise!Next
<1>3. ASSUME NEW b \in Browsers, EndSession(b)
      PROVE  Promise!Next
  BY <1>3, EndSessionSignsOut DEF Promise!Next
<1>4. ASSUME NEW b \in Browsers, NEW comment \in Comments, UpdateReview(b, comment)
      PROVE  [Promise!Next]_(Promise!accountVars)
  BY <1>4, UpdateReviewComments DEF Promise!Next
<1>5. CASE UNCHANGED <<user, review, session>>
  BY <1>5, RowLeftAlone, TablesLeftAlone, SessionsLeftAlone DEF Promise!accountVars
<1>6. ASSUME NEW i \in ReviewIds, ApproveReview(i)
      PROVE  [Promise!Next]_(Promise!accountVars)
  <2>1. i \in UserIds /\ TypeOK
    BY <1>6 DEF ApproveReview, ReviewIds, IInv
  <2>2. CASE Exists(i)
    <3>1. Name(i) \in ExternalIds
      BY <2>1, <2>2, RowType DEF Name
    <3> QED
      BY <1>6, <2>1, <2>2, <3>1, ApproveReviewApproves DEF Promise!Next
  <2>3. CASE ~ Exists(i)
    <3>1. user[i] = NoUser /\ review[i] = NoReview
      BY <2>1, <2>3 DEF Exists, IInv, ReviewedExist
    <3>2. user'[i] = user[i] /\ review'[i] = review[i]
      BY <1>6, <2>1, <3>1, ApprovedTypes
    <3>3. \A u \in UserIds : SameRow(u)
      BY <1>6, <2>1, <3>2, ApprovedTypes, RowLeftAlone
    <3>4. UNCHANGED session
      BY <1>6 DEF ApproveReview
    <3> QED
      BY <3>3, <3>4, TablesLeftAlone, SessionsLeftAlone DEF Promise!accountVars
  <2> QED
    BY <2>2, <2>3
<1> QED
  BY <1>1, <1>2, <1>3, <1>4, <1>5, <1>6
  DEF Next, Callback, Visit, Lookup, Recheck, Fail, vars

-----------------------------------------------------------------------------
(***************************************************************************)
(* The theorems.                                                           *)
(***************************************************************************)

LEMMA NextIInv == IInv /\ [Next]_vars => IInv'
<1> SUFFICES ASSUME IInv, [Next]_vars
             PROVE  IInv'
  OBVIOUS
<1>1. TypeOK'
  BY NextTypeOK DEF IInv
<1>2. OneAccount' /\ NotFoundHolds'
  BY NextOneAccount, NextNotFoundHolds
<1>3. InactiveAreListed' /\ ReviewedExist'
  BY NextReviewInv DEF ReviewInv
<1>4. SessionsNotAhead' /\ CopiesNotAhead'
  BY NextSessionsNotAhead, NextCopiesNotAhead
<1> QED
  BY <1>1, <1>2, <1>3, <1>4 DEF IInv

LEMMA SpecIInv == Spec => []IInv
BY InitIInv, NextIInv, PTL DEF Spec

\* The tables, sessions and requests hold what the code can put in them.
THEOREM TypeCorrect == Spec => []TypeOK
<1>1. IInv => TypeOK
  BY DEF IInv
<1> QED
  BY <1>1, SpecIInv, PTL

\* However many first logins of an identity run at once, HandleFromExternal
\* (user/service.go) creates one user for it.
THEOREM OneAccountPerIdentity == Spec => []OneAccount
<1>1. IInv => OneAccount
  BY DEF IInv
<1> QED
  BY <1>1, SpecIInv, PTL

\* Whoever is not active has an open review, so ListReviews (user/service.go)
\* shows them to the reviewers.
THEOREM NobodyIsStuck == Spec => []InactiveAreListed
<1>1. IInv => InactiveAreListed
  BY DEF IInv
<1> QED
  BY <1>1, SpecIInv, PTL

\* However logins, review pages and approvals overlap, renewSessionUser
\* (app/auth.go) never makes a session active before its user is.
THEOREM SessionsNeverAhead == Spec => []SessionsNotAhead
<1>1. IInv => SessionsNotAhead
  BY DEF IInv
<1> QED
  BY <1>1, SpecIInv, PTL

\* No login, comment or approval takes back what ApproveReview (user/service.go)
\* gave.
THEOREM ApprovedForever == Spec => ApprovalIsFinal
<1>1. IInv /\ [Next]_vars => [ApprovalsLast]_vars
  <2> SUFFICES ASSUME IInv, [Next]_vars, NEW u \in UserIds
               PROVE  /\ Exists(u) /\ user[u].status = "active" => user'[u].status = "active"
                      /\ review[u] # NoReview /\ review[u].isApproved => review'[u].isApproved
    BY DEF ApprovalsLast
  <2>1. UserKept(u)
    BY UsersKept DEF IInv
  <2>2. review[u] # NoReview /\ review[u].isApproved => review'[u].isApproved
    BY ReviewKept
  <2> QED
    BY <2>1, <2>2 DEF UserKept
<1> QED
  BY <1>1, SpecIInv, PTL DEF Spec, ApprovalIsFinal

\* The user service and the login and review handlers keep what Accounts promises
\* a person: one account, a review that stays open until it is approved, approvals
\* that last, and sessions that let in nobody who is not active.
THEOREM KeepsAccounts == Spec => AccountsSpec
BY InitAccounts, AccountsStep, SpecIInv, PTL DEF Spec, AccountsSpec, Promise!Spec

=============================================================================
