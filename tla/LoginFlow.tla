------------------------------ MODULE LoginFlow ------------------------------
(***************************************************************************)
(* The way into the application from one browser (app/auth.go, inviteGroup *)
(* in app/group.go, renderReviewRequest): the login through the identity   *)
(* provider, and an invite link that is opened without a session and       *)
(* followed after the login.                                               *)
(*                                                                         *)
(* All that lasts between two requests is in the session: a row of table   *)
(* sessions under the token in the browser's cookie. A request loads the   *)
(* row when it starts and writes its copy back when it has changed it, so  *)
(* requests of two tabs overwrite each other's changes.                    *)
(***************************************************************************)
EXTENDS FiniteSets

CONSTANTS
  Users,       \* who signs in at the provider; their accounts exist
  Grants,      \* sets of permissions the provider can have granted a user
  Tabs,        \* the tabs of the browser, each with at most one request
  Tokens,      \* session tokens
  States,      \* oauth states, drawn by nanoid
  Groups, InviteIds, NoGroup,  \* of GroupService
  None         \* "": no token, state, redirect or user

\* What a session holds under its keys user, state and redirect.
Data == [user        : Users \cup {None},
         permissions : Grants \cup {None},
         state       : States \cup {None},
         redirect    : InviteIds \cup {None}]

NoData == [user |-> None, permissions |-> None, state |-> None, redirect |-> None]

ASSUME NoneAssumption ==
  None \notin Data \cup Users \cup Grants \cup Tokens \cup States \cup InviteIds

\* A tab. Its page is the one it asks for or, in a response, the one it is sent
\* to, "" if it stays; its query names the link or the state. user is who signed
\* in at the provider; token and data are the request's copy of the session, with
\* scs's status.
Tab ==
  [pc     : {"idle", "provider", "sent", "loaded", "respond", "receive"},
   page   : {"", "provider", "invite", "login", "callback", "review", "logout"},
   query  : InviteIds \cup States \cup {None},
   user   : Users \cup {None},
   token  : Tokens \cup {None},
   data   : Data,
   status : {"unmodified", "modified", "destroyed"}]

Idle == [pc |-> "idle", page |-> "", query |-> None, user |-> None,
         token |-> None, data |-> NoData, status |-> "unmodified"]

VARIABLES
  userGroup, member, issued,  \* of GroupService
  grant,     \* the permissions of each user at the provider
  sessions,  \* table sessions, by token; None for no row
  cookie,    \* the browser's session token
  tab,       \* the tabs
  logins,    \* history: pairs <<u, p>> of a user who logged in, and with which grant
  wanted     \* history: the link last opened without a session, and not yet seen
             \* through with one

GS == INSTANCE GroupService

\* What stands for no group is neither an id nor a row.
ASSUME NoGroupAssumption == NoGroup \notin GS!GroupRow /\ NoGroup \notin Groups

groupVars == <<userGroup, member, issued>>
vars == <<groupVars, grant, sessions, cookie, tab, logins, wanted>>

TypeOK ==
  /\ GS!TypeOK
  /\ grant \in [Users -> Grants]
  /\ sessions \in [Tokens -> Data \cup {None}]
  /\ cookie \in Tokens \cup {None}
  /\ tab \in [Tabs -> Tab]
  /\ logins \subseteq Users \X Grants
  /\ wanted \in InviteIds \cup {None}

Init ==
  /\ GS!Init
  /\ grant \in [Users -> Grants]
  /\ sessions = [k \in Tokens |-> None]
  /\ cookie = None
  /\ tab = [t \in Tabs |-> Idle]
  /\ logins = {}
  /\ wanted = None

-----------------------------------------------------------------------------
(***************************************************************************)
(* The browser.                                                            *)
(***************************************************************************)

\* Tab t asks for a page, with the cookie the browser has now.
Request(t, page, query, u, token) ==
  tab' = [tab EXCEPT ![t] =
            [Idle EXCEPT !.pc = "sent", !.page = page, !.query = query,
                         !.user = u, !.token = token]]

\* The user opens an invite link that exists, or did once, or another page.
Browse(t) ==
  /\ tab[t].pc \in {"idle", "provider"}
  /\ \/ \E i \in issued : Request(t, "invite", i, None, cookie)
     \/ \E page \in {"login", "review", "logout"} : Request(t, page, None, None, cookie)
  /\ UNCHANGED <<groupVars, grant, sessions, cookie, logins, wanted>>

\* The user signs in at the provider, which sends the browser back with the state
\* it came with.
SignIn(t, u) ==
  /\ tab[t].pc = "provider"
  /\ Request(t, "callback", tab[t].query, u, cookie)
  /\ UNCHANGED <<groupVars, grant, sessions, cookie, logins, wanted>>

\* The response arrives, with the session cookie if the session was changed; a
\* redirect is followed at once.
Receive(t) ==
  /\ tab[t].pc = "receive"
  /\ cookie' = IF tab[t].status = "unmodified" THEN cookie ELSE tab[t].token
  /\ CASE tab[t].page = ""         -> tab' = [tab EXCEPT ![t] = Idle]
       [] tab[t].page = "provider" ->
            tab' = [tab EXCEPT ![t] =
                      [Idle EXCEPT !.pc = "provider", !.query = tab[t].query]]
       [] OTHER -> Request(t, tab[t].page, tab[t].query, None, cookie')
  /\ UNCHANGED <<groupVars, grant, sessions, logins, wanted>>

-----------------------------------------------------------------------------
(***************************************************************************)
(* scs.                                                                    *)
(***************************************************************************)

\* A token without a row is forgotten.
Load(t) ==
  /\ tab[t].pc = "sent"
  /\ LET k == tab[t].token
         found == k # None /\ sessions[k] # None
     IN tab' = [tab EXCEPT ![t].pc    = "loaded",
                           ![t].token = IF found THEN k ELSE None,
                           ![t].data  = IF found THEN sessions[k] ELSE NoData]
  /\ UNCHANGED <<groupVars, grant, sessions, cookie, logins, wanted>>

\* A new token is one that nobody holds. A row whose token nobody holds is never
\* read, and is as good as none: Save drops it.
Fresh(k) == k # cookie /\ \A t \in Tabs : tab[t].token # k

\* The handler is done: the tab goes to page with query, and the session, as the
\* handler left it, is written if it was modified.
Respond(t, page, query, data, status) ==
  tab' = [tab EXCEPT ![t] =
            [@ EXCEPT !.pc = "respond", !.page = page, !.query = query,
                      !.user = None, !.data = data, !.status = status]]

\* RenewToken, and what it returns to the handler: the old row is deleted at once,
\* the new one is written with the response.
Renew(t, page, query, data) ==
  /\ sessions' = [k \in Tokens |-> IF k = tab[t].token THEN None ELSE sessions[k]]
  /\ tab' = [tab EXCEPT ![t] =
               [@ EXCEPT !.pc = "respond", !.page = page, !.query = query, !.user = None,
                         !.token = None, !.data = data, !.status = "modified"]]

\* The first byte of the response: commitAndWriteSessionCookie.
Save(t) ==
  /\ tab[t].pc = "respond"
  /\ IF tab[t].status = "modified"
     THEN \E k \in Tokens :
            /\ IF tab[t].token = None THEN Fresh(k) ELSE k = tab[t].token
            /\ sessions' = [j \in Tokens |-> IF j = k THEN tab[t].data
                                             ELSE IF Fresh(j) THEN None ELSE sessions[j]]
            /\ tab' = [tab EXCEPT ![t].pc = "receive", ![t].token = k, ![t].data = NoData]
     ELSE /\ tab' = [tab EXCEPT ![t].pc = "receive", ![t].data = NoData]
          /\ UNCHANGED sessions
  /\ UNCHANGED <<groupVars, grant, cookie, logins, wanted>>

\* The deadline passes: 30 days after the session was begun or renewed.
Expire ==
  /\ cookie # None /\ sessions[cookie] # None
  /\ sessions' = [sessions EXCEPT ![cookie] = None]
  /\ wanted' = None
  /\ UNCHANGED <<groupVars, grant, cookie, tab, logins>>

-----------------------------------------------------------------------------
(***************************************************************************)
(* The handlers.                                                           *)
(***************************************************************************)

\* Mutant: what is kept is the page, without the link's id.
KeepPage(t) ==
  /\ tab[t].pc = "loaded" /\ tab[t].page = "invite"
  /\ tab[t].data.user = None
  /\ Respond(t, "login", None, [tab[t].data EXCEPT !.redirect = tab[t].page], "modified")
  /\ wanted' = tab[t].query
  /\ UNCHANGED <<groupVars, grant, sessions, cookie, logins>>

\* inviteGroup, without a session user: the link is kept for after the login.
KeepInvite(t) ==
  /\ tab[t].pc = "loaded" /\ tab[t].page = "invite"
  /\ tab[t].data.user = None
  /\ Respond(t, "login", None, [tab[t].data EXCEPT !.redirect = tab[t].query], "modified")
  /\ wanted' = tab[t].query
  /\ UNCHANGED <<groupVars, grant, sessions, cookie, logins>>

\* inviteGroup, with one: AddMemberFromInvite, or the error page of a link that
\* does not work any more.
Join(t) ==
  /\ tab[t].pc = "loaded" /\ tab[t].page = "invite"
  /\ tab[t].data.user # None
  /\ LET i == tab[t].query
     IN /\ \/ \E g \in Groups : GS!AddMemberFromInvite(g, i, tab[t].data.user)
           \/ /\ \A g \in Groups : ~ GS!HasInvite(g, i)
              /\ UNCHANGED groupVars
        /\ wanted' = IF wanted = i THEN None ELSE wanted
  /\ Respond(t, "", None, tab[t].data, "unmodified")
  /\ UNCHANGED <<grant, sessions, cookie, logins>>

\* renderLogin: nanoid never draws a state twice; here, not while one is in use.
Login(t) ==
  /\ tab[t].pc = "loaded" /\ tab[t].page = "login"
  /\ \E s \in States :
       /\ \A o \in Tabs : tab[o].query # s /\ tab[o].data.state # s
       /\ \A k \in Tokens : sessions[k] # None /\ ~ Fresh(k) => sessions[k].state # s
       /\ Respond(t, "provider", s, [tab[t].data EXCEPT !.state = s], "modified")
  /\ UNCHANGED <<groupVars, grant, sessions, cookie, logins, wanted>>

\* PopString does not touch a session that has no such key.
StatusAfterPop(data) == IF data.state = None THEN "unmodified" ELSE "modified"

\* Mutant: the redirect is popped before it is known whether the login succeeds.
FailLoginPopped(t) ==
  /\ tab[t].pc = "loaded" /\ tab[t].page = "callback"
  /\ Respond(t, "", None, [tab[t].data EXCEPT !.state = None, !.redirect = None],
             StatusAfterPop(tab[t].data))
  /\ UNCHANGED <<groupVars, grant, sessions, cookie, logins, wanted>>

\* handleLoginCallback pops a state that is not the one of the query, or
\* GetExternalUser, HandleFromExternal or RenewToken fails.
FailLogin(t) ==
  /\ tab[t].pc = "loaded" /\ tab[t].page = "callback"
  /\ Respond(t, "", None, [tab[t].data EXCEPT !.state = None],
             StatusAfterPop(tab[t].data))
  /\ UNCHANGED <<groupVars, grant, sessions, cookie, logins, wanted>>

\* GetExternalUser: the identity is that of the id token, the permissions are those
\* in the access token; as handleLoginCallback puts them in the session.
GetExternalUser(u) == [NoData EXCEPT !.user = u, !.permissions = grant[u]]

\* Mutant: the redirect is popped after the session was emptied.
FinishLoginHome(t) ==
  /\ tab[t].pc = "loaded" /\ tab[t].page = "callback"
  /\ tab[t].query = tab[t].data.state
  /\ LET u == tab[t].user
     IN /\ Renew(t, "", None, GetExternalUser(u))
        /\ logins' = logins \cup {<<u, grant[u]>>}
  /\ UNCHANGED <<groupVars, grant, cookie, wanted>>

\* handleLoginCallback with the expected state: renewSessionUser puts the user in a
\* new session, and the redirect that was kept is followed.
FinishLogin(t) ==
  /\ tab[t].pc = "loaded" /\ tab[t].page = "callback"
  /\ tab[t].query = tab[t].data.state
  /\ LET u == tab[t].user
         redirect == tab[t].data.redirect
     IN /\ Renew(t, IF redirect # None THEN "invite" ELSE "", redirect,
                 GetExternalUser(u))
        /\ logins' = logins \cup {<<u, grant[u]>>}
  /\ UNCHANGED <<groupVars, grant, cookie, wanted>>

\* Mutant: the permissions are not copied to the user that was read again.
RecheckPlain(t) ==
  /\ tab[t].pc = "loaded" /\ tab[t].page = "review"
  /\ IF tab[t].data.user = None
     THEN Respond(t, "", None, tab[t].data, "unmodified") /\ UNCHANGED sessions
     ELSE Renew(t, "", None, [tab[t].data EXCEPT !.permissions = None])
  /\ UNCHANGED <<groupVars, grant, cookie, logins, wanted>>

\* renderReviewRequest renews the session with the user read again and the
\* permissions it had; without a session user it is an error.
Recheck(t) ==
  /\ tab[t].pc = "loaded" /\ tab[t].page = "review"
  /\ IF tab[t].data.user = None
     THEN Respond(t, "", None, tab[t].data, "unmodified") /\ UNCHANGED sessions
     ELSE Renew(t, "", None, tab[t].data)
  /\ UNCHANGED <<groupVars, grant, cookie, logins, wanted>>

\* handleLogout, behind requireAuth.
Logout(t) ==
  /\ tab[t].pc = "loaded" /\ tab[t].page = "logout"
  /\ IF tab[t].data.user = None
     THEN Respond(t, "", None, tab[t].data, "unmodified") /\ UNCHANGED sessions
     ELSE /\ sessions' = [k \in Tokens |-> IF k = tab[t].token THEN None ELSE sessions[k]]
          /\ tab' = [tab EXCEPT ![t] = [Idle EXCEPT !.pc = "respond", !.status = "destroyed"]]
  /\ UNCHANGED <<groupVars, grant, cookie, logins, wanted>>

\* The connection breaks, the session store fails, or the process restarts: the
\* tab shows an error, and what the response would have carried is lost, and so is
\* the redirect that it had followed.
Lose(t) ==
  /\ tab[t].pc \notin {"idle", "provider"}
  /\ tab' = [tab EXCEPT ![t] = Idle]
  /\ wanted' = IF tab[t].status = "unmodified" /\ tab[t].query # wanted THEN wanted ELSE None
  /\ UNCHANGED <<groupVars, grant, sessions, cookie, logins>>

-----------------------------------------------------------------------------
\* The provider's administrator changes what a user may do.
Regrant(u) ==
  /\ \E p \in Grants : grant' = [grant EXCEPT ![u] = p]
  /\ UNCHANGED <<groupVars, sessions, cookie, tab, logins, wanted>>

\* Groups are created, deleted and left, and links refreshed, elsewhere.
Elsewhere == GS!Next /\ UNCHANGED <<grant, sessions, cookie, tab, logins, wanted>>

Next ==
  \/ \E t \in Tabs :
       \/ Browse(t) \/ Receive(t) \/ Load(t) \/ Save(t) \/ Lose(t)
       \/ KeepInvite(t) \/ Join(t) \/ Login(t) \/ FailLogin(t) \/ FinishLogin(t)
       \/ Recheck(t) \/ Logout(t)
       \/ \E u \in Users : SignIn(t, u)
  \/ Expire
  \/ \E u \in Users : Regrant(u)
  \/ Elsewhere

Spec == Init /\ [][Next]_vars

\* A request that was sent is served and answered, or lost.
Serve(t) ==
  \/ Receive(t) \/ Load(t) \/ Save(t) \/ Lose(t) \/ KeepInvite(t) \/ Join(t)
  \/ Login(t) \/ FailLogin(t) \/ FinishLogin(t) \/ Recheck(t) \/ Logout(t)

\* The user goes to the login page.
GoToLogin(t) == Browse(t) /\ tab'[t].page = "login"

\* A request that is on the way to page, or an answer that sends the tab there.
For(t, page, A) == tab[t].page = page /\ A

\* Whoever opened a link goes on trying: from any page they go to the login again,
\* and sign in. The provider and the database do not fail each time, and not every
\* request on the way is lost.
FairSpec ==
  /\ Spec
  /\ \A t \in Tabs :
       /\ WF_vars(Serve(t))
       /\ SF_vars(GoToLogin(t))
       /\ SF_vars(\E u \in Users : SignIn(t, u))
       /\ \A page \in {"login", "callback", "invite"} : SF_vars(For(t, page, Load(t)))
       /\ SF_vars(Login(t)) /\ SF_vars(FinishLogin(t)) /\ SF_vars(Join(t))
       /\ \A page \in {"provider", "invite"} :
            SF_vars(For(t, page, Save(t))) /\ SF_vars(For(t, page, Receive(t)))

-----------------------------------------------------------------------------
(***************************************************************************)
(* Properties.                                                             *)
(***************************************************************************)

\* Whatever the tabs of a browser do to its session, a session's user has the
\* permissions that were granted to that user, and no other, when they logged in:
\* no copy written late puts one user together with another's permissions, and
\* the renewal on the review page loses none.
Sessions == {sessions[k] : k \in Tokens} \ {None}
PermissionsAsGranted ==
  \A d \in Sessions \cup {tab[t].data : t \in Tabs} :
    d.user # None => <<d.user, d.permissions>> \in logins

\* In a browser with one tab, an invite link that was opened without a session is
\* kept through any number of failed and abandoned logins.
LinkKept ==
  \A t \in Tabs :
    tab[t].pc \in {"idle", "provider"} /\ wanted # None =>
      cookie # None /\ sessions[cookie] # None /\ sessions[cookie].redirect = wanted

\* Whoever opens an invite link without a session is taken back to it after they
\* log in, and becomes a member or is told that it does not work any more, unless
\* the session is lost on the way.
InviteSeenThrough == \A i \in InviteIds : wanted = i ~> wanted # i

=============================================================================
