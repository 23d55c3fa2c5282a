----------------------------- MODULE Onboarding -----------------------------
(***************************************************************************)
(* From the first login to an active account: the user service             *)
(* (user/service.go), the handlers that put a user in the session          *)
(* (app/auth.go, app/user.go) and the reviewers beside them.               *)
(*                                                                         *)
(* The handlers that write the session are split at their transactions,    *)
(* and HandleFromExternal, which decides on what it read, at its           *)
(* statements. A session is loaded when a request starts and written back  *)
(* when it ends, so a request of the same browser may write in between.    *)
(***************************************************************************)
CONSTANTS
  UserIds,      \* ids that create can draw: nanoids, never drawn twice
  ExternalIds,  \* the identity provider's subjects
  Browsers,     \* cookie jars
  Requests,     \* the session-writing requests that can be in progress at once
  Comments,     \* comments of a review
  TooLong,      \* those of more than 100 bytes
  NoComment,    \* the empty comment, stored as NULL
  NoId,         \* the user id of a request without a session user: ""
  NoUser, NoReview, NoSession, NoRequest  \* no such row, session or request

ASSUME CommentsAssumption ==
  TooLong \subseteq Comments /\ NoComment \in Comments \ TooLong
ASSUME NoIdAssumption == NoId \notin UserIds

Status    == {"active", "inactive"}
UserRow   == [externalId : ExternalIds, status : Status]
ReviewRow == [comment : Comments \ TooLong, isApproved : BOOLEAN]
\* What a session knows of its user.
SessionUser == [id : UserIds, status : Status]
\* The part of a request that is set so far: a login callback starts with the
\* identity it got from the provider, a review page with its session's user.
Login       == [browser : Browsers, externalId : ExternalIds]
LoggedIn    == [browser : Browsers, user : SessionUser]
ReviewIds   == UserIds \cup {NoId}

ASSUME NoRowAssumption ==
  /\ NoUser \notin UserRow
  /\ NoReview \notin ReviewRow \cup Comments
  /\ NoSession \notin SessionUser
  /\ NoRequest \notin Login \cup LoggedIn

VARIABLES
  user,      \* table user
  review,    \* table user_review
  session,   \* the session user of the cookie in each browser
  pc,        \* what each request does next
  req,       \* the data each request carries
  outdated,  \* the requests whose transaction read user before another commit
  reported   \* history: the comment each user was last told is stored

vars == <<user, review, session, pc, req, outdated, reported>>

TypeOK ==
  /\ user \in [UserIds -> UserRow \cup {NoUser}]
  /\ review \in [ReviewIds -> ReviewRow \cup {NoReview}]
  /\ session \in [Browsers -> SessionUser \cup {NoSession}]
  /\ pc \in [Requests -> {"idle", "lookup", "insert", "recheck", "renew"}]
  /\ req \in [Requests -> Login \cup LoggedIn \cup {NoRequest}]
  /\ \A r \in Requests :
       \/ pc[r] = "idle" /\ req[r] = NoRequest
       \/ pc[r] \in {"lookup", "insert"} /\ req[r] \in Login
       \/ pc[r] \in {"recheck", "renew"} /\ req[r] \in LoggedIn
  /\ outdated \subseteq {r \in Requests : pc[r] = "insert"}
  /\ reported \in [ReviewIds -> Comments \cup {NoReview}]

Exists(u) == user[u] # NoUser

\* The users of an identity; getByExternal finds one of them.
ByExternal(x) == {u \in UserIds : Exists(u) /\ user[u].externalId = x}

AccountsDiffer == \A x \in ExternalIds : \A u, v \in ByExternal(x) : u = v

\* The users from before the onboarding migration are active (the column's
\* default) and have no review.
Init ==
  /\ user \in [UserIds -> [externalId : ExternalIds, status : {"active"}] \cup {NoUser}]
  /\ AccountsDiffer
  /\ review = [i \in ReviewIds |-> NoReview]
  /\ session = [b \in Browsers |-> NoSession]
  /\ pc = [r \in Requests |-> "idle"]
  /\ req = [r \in Requests |-> NoRequest]
  /\ outdated = {}
  /\ reported = [i \in ReviewIds |-> NoReview]

-----------------------------------------------------------------------------
(***************************************************************************)
(* Login.                                                                  *)
(***************************************************************************)

\* handleLoginCallback got the external user from the provider.
Callback(r, b, x) ==
  /\ pc[r] = "idle"
  /\ pc' = [pc EXCEPT ![r] = "lookup"]
  /\ req' = [req EXCEPT ![r] = [browser |-> b, externalId |-> x]]
  /\ UNCHANGED <<user, review, session, outdated, reported>>

\* Mutant: Status is left out, and its zero value is UserStatusActive.
ToSessionUserActive(u, row) == [id |-> u, status |-> "active"]

\* ToSessionUser
ToSessionUser(u, row) == [id |-> u, status |-> row.status]

\* The request knows its user and will put it in the session.
Identified(r, su) ==
  /\ pc' = [pc EXCEPT ![r] = "renew"]
  /\ req' = [req EXCEPT ![r] = [browser |-> req[r].browser, user |-> su]]

\* HandleFromExternal: getByExternal, and the commit if it found a user.
Lookup(r) ==
  /\ pc[r] = "lookup"
  /\ LET found == ByExternal(req[r].externalId)
     IN \/ \E u \in found : Identified(r, ToSessionUser(u, user[u]))
        \/ /\ found = {}
           /\ pc' = [pc EXCEPT ![r] = "insert"]
           /\ UNCHANGED req
  /\ UNCHANGED <<user, review, session, outdated, reported>>

\* A transaction that wrote table user commits: SQLite fails the first write
\* (SQLITE_BUSY) of every other transaction that had read before.
Outdate(r) == outdated' = {q \in Requests \ {r} : pc[q] = "insert"}

\* create: the row that is inserted.
NewUser(x) == [externalId |-> x, status |-> "inactive"]

\* updateReview: an upsert that keeps is_approved and refuses long comments.
\* Mutant: the row is replaced, and is_approved is back at its default.
UpdatedReviewReset(i, comment) ==
  [review EXCEPT ![i] = [comment |-> comment, isApproved |-> FALSE]]

\* updateReview
UpdatedReview(i, comment) ==
  [review EXCEPT ![i] =
     [comment    |-> comment,
      isApproved |-> review[i] # NoReview /\ review[i].isApproved]]

\* Mutant: the user is created in a transaction that did not look them up.
InsertUnserialized(r, u) ==
  /\ pc[r] = "insert"
  /\ ~ Exists(u)
  /\ user' = [user EXCEPT ![u] = NewUser(req[r].externalId)]
  /\ review' = UpdatedReview(u, NoComment)
  /\ Identified(r, ToSessionUser(u, user'[u]))
  /\ UNCHANGED <<session, outdated, reported>>

\* Mutant: no review is opened for the new user.
InsertWithoutReview(r, u) ==
  /\ pc[r] = "insert"
  /\ r \notin outdated
  /\ ~ Exists(u)
  /\ user' = [user EXCEPT ![u] = NewUser(req[r].externalId)]
  /\ Identified(r, ToSessionUser(u, user'[u]))
  /\ Outdate(r)
  /\ UNCHANGED <<review, session, reported>>

\* HandleFromExternal, when getByExternal found nobody: create with the fresh id
\* u, updateReview and the commit.
Insert(r, u) ==
  /\ pc[r] = "insert"
  /\ r \notin outdated
  /\ ~ Exists(u)
  /\ user' = [user EXCEPT ![u] = NewUser(req[r].externalId)]
  /\ review' = UpdatedReview(u, NoComment)
  /\ Identified(r, ToSessionUser(u, user'[u]))
  /\ Outdate(r)
  /\ UNCHANGED <<session, reported>>

Finish(r) ==
  /\ pc' = [pc EXCEPT ![r] = "idle"]
  /\ req' = [req EXCEPT ![r] = NoRequest]
  /\ outdated' = outdated \ {r}

\* renewSessionUser, and the end of the request, where the session is written
\* and its cookie sent.
Renew(r) ==
  /\ pc[r] = "renew"
  /\ session' = [session EXCEPT ![req[r].browser] = req[r].user]
  /\ Finish(r)
  /\ UNCHANGED <<user, review, reported>>

\* A transaction or the session store fails, or the process stops: the request
\* ends with an error and its transaction rolls back.
Fail(r) ==
  /\ pc[r] # "idle"
  /\ Finish(r)
  /\ UNCHANGED <<user, review, session, reported>>

\* Logout, or the session expires.
EndSession(b) ==
  /\ session[b] # NoSession
  /\ session' = [session EXCEPT ![b] = NoSession]
  /\ UNCHANGED <<user, review, pc, req, outdated, reported>>

-----------------------------------------------------------------------------
(***************************************************************************)
(* Review.                                                                 *)
(***************************************************************************)

\* Mutant: the page does not look for a session user.
VisitWithoutSession(r, b) ==
  /\ pc[r] = "idle"
  /\ pc' = [pc EXCEPT ![r] = "recheck"]
  /\ req' = [req EXCEPT ![r] = [browser |-> b, user |-> session[b]]]
  /\ UNCHANGED <<user, review, session, outdated, reported>>

\* GET /review/request, where requireAuth sends every session that is not
\* active; without a session user the page is an error.
Visit(r, b) ==
  /\ pc[r] = "idle"
  /\ session[b] # NoSession
  /\ pc' = [pc EXCEPT ![r] = "recheck"]
  /\ req' = [req EXCEPT ![r] = [browser |-> b, user |-> session[b]]]
  /\ UNCHANGED <<user, review, session, outdated, reported>>

\* Mutant: the page trusts the status of the session.
RecheckSession(r) ==
  /\ pc[r] = "recheck"
  /\ Identified(r, req[r].user)
  /\ UNCHANGED <<user, review, session, outdated, reported>>

\* renderReviewRequest reads the user again.
Recheck(r) ==
  /\ pc[r] = "recheck"
  /\ Exists(req[r].user.id)
  /\ Identified(r, ToSessionUser(req[r].user.id, user[req[r].user.id]))
  /\ UNCHANGED <<user, review, session, outdated, reported>>

\* POST /review/request. UpdateReview drops the error of updateReview, so the
\* handler reports success when the comment was refused or the upsert failed.
UpdateReview(b, comment) ==
  LET i == IF session[b] = NoSession THEN NoId ELSE session[b].id
  IN /\ \/ comment \notin TooLong /\ review' = UpdatedReview(i, comment)
        \/ UNCHANGED review
     /\ reported' = [reported EXCEPT ![i] = comment]
     /\ UNCHANGED <<user, session, pc, req, outdated>>

\* ApproveReview: two updates in one transaction; i comes from a form, and the
\* rows need not exist.
ApproveReview(i) ==
  /\ i # NoId
  /\ review' = [review EXCEPT ![i] =
                  IF @ = NoReview THEN NoReview ELSE [@ EXCEPT !.isApproved = TRUE]]
  /\ user' = [user EXCEPT ![i] =
                IF @ = NoUser THEN NoUser ELSE [@ EXCEPT !.status = "active"]]
  /\ outdated' = {q \in Requests : pc[q] = "insert"}
  /\ UNCHANGED <<session, pc, req, reported>>

Next ==
  \/ \E r \in Requests, b \in Browsers, x \in ExternalIds : Callback(r, b, x)
  \/ \E r \in Requests, b \in Browsers : Visit(r, b)
  \/ \E r \in Requests, u \in UserIds : Insert(r, u)
  \/ \E r \in Requests : Lookup(r) \/ Recheck(r) \/ Renew(r) \/ Fail(r)
  \/ \E b \in Browsers : EndSession(b)
  \/ \E b \in Browsers, comment \in Comments : UpdateReview(b, comment)
  \/ \E i \in ReviewIds : ApproveReview(i)

Spec == Init /\ [][Next]_vars

\* Serving a request ends: a transaction commits, or fails, or times out.
Serve(r) ==
  Lookup(r) \/ Recheck(r) \/ Renew(r) \/ Fail(r) \/ \E u \in UserIds : Insert(r, u)

\* A user who is not let in keeps coming back: requireAuth sends every page they
\* ask for to /review/request. The page, asked for again and again, does not
\* fail each time.
FairSpec ==
  /\ Spec
  /\ \A r \in Requests : WF_vars(Serve(r))
  /\ \A b \in Browsers :
       /\ SF_vars(\E r \in Requests : Visit(r, b))
       /\ SF_vars(\E r \in Requests : pc[r] = "recheck" /\ req[r].browser = b /\ Recheck(r))
       /\ SF_vars(\E r \in Requests : pc[r] = "renew" /\ req[r].browser = b /\ Renew(r))

-----------------------------------------------------------------------------
(***************************************************************************)
(* Properties.                                                             *)
(***************************************************************************)

\* An identity has one account, however many of its first logins run at once:
\* external_id has no UNIQUE constraint, so it is up to HandleFromExternal to
\* look up and create in one transaction.
OneAccount == AccountsDiffer

\* Nobody is stuck: a user who is not active has a review that is not approved,
\* so ListReviews shows them to the reviewers. (It takes create and updateReview
\* to commit together, and ApproveReview to change both tables.)
InactiveAreListed ==
  \A u \in UserIds : Exists(u) /\ user[u].status = "inactive" =>
    review[u] # NoReview /\ ~ review[u].isApproved

\* The user is in the table, and active there if su says so.
NotAhead(su) ==
  Exists(su.id) /\ (su.status = "active" => user[su.id].status = "active")

\* A session calls its user active only when the user is: what a login or the
\* review page read may be old when it is written to the session, but it is
\* never ahead of the table, whichever of them ends last.
SessionsNotAhead ==
  \A b \in Browsers : session[b] # NoSession => NotAhead(session[b])

\* An approval lasts: later logins, comments and approvals neither deactivate
\* the user nor reopen the review.
ApprovalsLast ==
  \A u \in UserIds :
    /\ Exists(u) /\ user[u].status = "active" => user'[u].status = "active"
    /\ review[u] # NoReview /\ review[u].isApproved => review'[u].isApproved

ApprovalIsFinal == [][ApprovalsLast]_vars

\* The identities with an account, and which of them are active, have an open or an
\* approved review, and are logged in where.
Reviewed(u) == Exists(u) /\ review[u] # NoReview
Known    == {user[u].externalId : u \in {v \in UserIds : Exists(v)}}
Active   == {user[u].externalId : u \in {v \in UserIds : Exists(v) /\ user[v].status = "active"}}
Open     == {user[u].externalId : u \in {v \in UserIds : Reviewed(v) /\ ~ review[v].isApproved}}
Approved == {user[u].externalId : u \in {v \in UserIds : Reviewed(v) /\ review[v].isApproved}}
SignedIn == {<<b, user[session[b].id].externalId>> : b \in {c \in Browsers : session[c] # NoSession}}
LetIn    == {<<b, user[session[b].id].externalId>> :
              b \in {c \in Browsers : session[c] # NoSession /\ session[c].status = "active"}}

Promise == INSTANCE Accounts WITH
  Persons  <- ExternalIds,
  known    <- Known,
  active   <- Active,
  open     <- Open,
  approved <- Approved,
  signedIn <- SignedIn,
  letIn    <- LetIn

\* However logins, review pages, comments and approvals interleave, what a person
\* sees is: an account is opened once, with a review that the reviewers see until
\* they approve it; approvals are not taken back; and only who is active is let in.
AccountsSpec == Promise!Spec

\* The user whom browser b is logged in as is active.
ActiveUser(b, u) ==
  session[b] # NoSession /\ session[b].id = u /\ user[u].status = "active"

\* "recheck if the user is active so that user is redirected to application once
\* they are": the session of an approved user becomes active without another
\* login, unless it ends or the browser logs in as somebody else.
ApprovedGetIn ==
  \A b \in Browsers, u \in UserIds :
    ActiveUser(b, u) ~> ~ (ActiveUser(b, u) /\ session[b].status = "inactive")

\* "Successfully updated your review!": the comment a user was last told is
\* stored is the one reviewers see.
ReportedCommentStored ==
  \A u \in UserIds : reported[u] # NoReview =>
    review[u] # NoReview /\ review[u].comment = reported[u]

=============================================================================
