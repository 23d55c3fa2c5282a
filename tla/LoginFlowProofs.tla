-------------------------- MODULE LoginFlowProofs --------------------------
(***************************************************************************)
(* Theorems about the login and the session, for any number of tabs, users *)
(* and tokens. A session's row and the copies that requests hold of it     *)
(* are written by whoever comes last; what makes that harmless is that a   *)
(* user and their permissions are always copied together. With one tab an  *)
(* invite link is not lost either, wherever in its requests the tab is.    *)
(***************************************************************************)
EXTENDS LoginFlow, TLAPS

\* A session, or a copy of one, whose user was granted its permissions.
Granted(d, L) == d.user # None => <<d.user, d.permissions>> \in L

\* A tab: what its page needs of the query and the provider is there, and no
\* handler redirects to the callback.
Asks(r) ==
  /\ r.page = "invite" => r.query \in InviteIds
  /\ r.page = "callback" => r.query \in States /\ r.user \in Users
  /\ r.page = "provider" \/ r.pc = "provider" => r.query \in States
  /\ r.pc \in {"respond", "receive"} => r.page # "callback"

TabsInv ==
  /\ tab \in [Tabs -> Tab]
  /\ \A t \in Tabs : Asks(tab[t]) /\ Granted(tab[t].data, logins)

RowsInv ==
  /\ sessions \in [Tokens -> Data \cup {None}]
  /\ \A k \in Tokens : sessions[k] # None => Granted(sessions[k], logins)

IssuedInv == issued \subseteq InviteIds

IInv ==
  /\ TabsInv
  /\ RowsInv
  /\ IssuedInv
  /\ grant \in [Users -> Grants]
  /\ cookie \in Tokens \cup {None}

LEMMA NoDataType == NoData \in Data /\ NoData.user = None
BY DEF NoData, Data

LEMMA IdleType == Idle \in Tab /\ Asks(Idle) /\ Idle.data = NoData
BY NoDataType DEF Idle, Tab, Asks

\* One tab takes a sound value.
LEMMA OneTab ==
  ASSUME TabsInv, logins \subseteq logins',
         NEW t \in Tabs, NEW r \in Tab, Asks(r), Granted(r.data, logins'),
         tab' = [tab EXCEPT ![t] = r]
  PROVE  TabsInv'
BY DEF TabsInv, Granted, Asks

\* A request is sent.
LEMMA RequestTab ==
  ASSUME TabsInv, UNCHANGED logins, NEW t \in Tabs,
         NEW page \in {"invite", "login", "callback", "review", "logout"},
         NEW query \in InviteIds \cup States \cup {None},
         NEW u \in Users \cup {None}, NEW token \in Tokens \cup {None},
         page = "invite" => query \in InviteIds,
         page = "callback" => query \in States /\ u \in Users,
         Request(t, page, query, u, token)
  PROVE  TabsInv'
<1> DEFINE r == [Idle EXCEPT !.pc = "sent", !.page = page, !.query = query,
                             !.user = u, !.token = token]
<1>1. /\ r \in Tab /\ r.page = page /\ r.query = query /\ r.user = u /\ r.pc = "sent"
      /\ r.data = NoData
  BY NoDataType DEF Idle, Tab
<1>2. tab' = [tab EXCEPT ![t] = r]
  BY DEF Request
<1> HIDE DEF r
<1>3. Asks(r) /\ Granted(r.data, logins')
  BY <1>1, NoDataType DEF Asks, Granted
<1> QED
  BY <1>1, <1>2, <1>3, OneTab

\* A handler is done with a session that it did not renew.
LEMMA RespondTab ==
  ASSUME TabsInv, UNCHANGED logins, NEW t \in Tabs,
         NEW page \in {"", "provider", "login", "invite"},
         NEW query \in InviteIds \cup States \cup {None},
         page = "invite" => query \in InviteIds,
         page = "provider" => query \in States,
         NEW data \in Data, Granted(data, logins),
         NEW status \in {"unmodified", "modified"},
         Respond(t, page, query, data, status)
  PROVE  TabsInv'
<1> DEFINE r == [tab[t] EXCEPT !.pc = "respond", !.page = page, !.query = query,
                               !.user = None, !.data = data, !.status = status]
<1>1. /\ r \in Tab /\ r.page = page /\ r.query = query /\ r.pc = "respond"
      /\ r.data = data
  BY DEF TabsInv, Tab
<1>2. tab' = [tab EXCEPT ![t] = r]
  BY DEF Respond, TabsInv
<1> HIDE DEF r
<1>3. Asks(r) /\ Granted(r.data, logins')
  BY <1>1 DEF Asks
<1> QED
  BY <1>1, <1>2, <1>3, OneTab

\* A handler is done with a session that it renewed.
LEMMA RenewTab ==
  ASSUME TabsInv, RowsInv, logins \subseteq logins', NEW t \in Tabs,
         NEW page \in {"", "invite"},
         NEW query \in InviteIds \cup {None},
         page = "invite" => query \in InviteIds,
         NEW data \in Data, Granted(data, logins'),
         Renew(t, page, query, data)
  PROVE  TabsInv' /\ RowsInv'
<1> DEFINE r == [tab[t] EXCEPT !.pc = "respond", !.page = page, !.query = query,
                               !.user = None, !.token = None, !.data = data,
                               !.status = "modified"]
<1>1. /\ r \in Tab /\ r.page = page /\ r.query = query /\ r.pc = "respond"
      /\ r.data = data
  BY DEF TabsInv, Tab
<1>2. tab' = [tab EXCEPT ![t] = r]
  BY DEF Renew, TabsInv
<1>3. RowsInv'
  BY DEF Renew, RowsInv, Granted
<1> HIDE DEF r
<1>4. Asks(r) /\ Granted(r.data, logins')
  BY <1>1 DEF Asks
<1> QED
  BY <1>1, <1>2, <1>3, <1>4, OneTab

-----------------------------------------------------------------------------
\* The steps of the browser.
LEMMA BrowserSteps ==
  ASSUME IInv, NEW t \in Tabs,
         Browse(t) \/ Receive(t) \/ \E u \in Users : SignIn(t, u)
  PROVE  TabsInv' /\ cookie' \in Tokens \cup {None}
<1> USE DEF IInv
<1>1. CASE Browse(t)
  <2>1. ASSUME NEW i \in issued, Request(t, "invite", i, None, cookie)
        PROVE  TabsInv'
    BY <1>1, <2>1, RequestTab DEF Browse, IssuedInv
  <2>2. ASSUME NEW page \in {"login", "review", "logout"}, Request(t, page, None, None, cookie)
        PROVE  TabsInv'
    BY <1>1, <2>2, RequestTab DEF Browse
  <2> QED
    BY <1>1, <2>1, <2>2 DEF Browse
<1>2. CASE Receive(t)
  <2>1. cookie' \in Tokens \cup {None}
    BY <1>2 DEF Receive, TabsInv, Tab
  <2>2. CASE tab[t].page = ""
    <3>1. tab' = [tab EXCEPT ![t] = Idle] /\ UNCHANGED logins
      BY <1>2, <2>2 DEF Receive
    <3> QED
      BY <2>1, <3>1, IdleType, NoDataType, OneTab DEF Granted
  <2>3. CASE tab[t].page = "provider"
    <3> DEFINE r == [Idle EXCEPT !.pc = "provider", !.query = tab[t].query]
    <3>1. tab' = [tab EXCEPT ![t] = r] /\ UNCHANGED logins
      BY <1>2, <2>3 DEF Receive
    <3>2. tab[t].query \in States
      BY <2>3 DEF TabsInv, Asks
    <3>3. r \in Tab /\ r.page = "" /\ r.query = tab[t].query /\ r.data = NoData
      BY <3>2, NoDataType DEF Idle, Tab
    <3> HIDE DEF r
    <3>4. Asks(r) /\ Granted(r.data, logins')
      BY <3>2, <3>3, NoDataType DEF Asks, Granted
    <3> QED
      BY <2>1, <3>1, <3>3, <3>4, OneTab
  <2>4. CASE tab[t].page \notin {"", "provider"}
    <3>1. Request(t, tab[t].page, tab[t].query, None, cookie') /\ UNCHANGED logins
      BY <1>2, <2>4 DEF Receive
    <3>2. /\ tab[t].page \in {"invite", "login", "review", "logout"}
          /\ tab[t].query \in InviteIds \cup States \cup {None}
          /\ tab[t].page = "invite" => tab[t].query \in InviteIds
      BY <1>2, <2>4 DEF Receive, TabsInv, Tab, Asks
    <3> QED
      BY <2>1, <3>1, <3>2, RequestTab
  <2> QED
    BY <2>1, <2>2, <2>3, <2>4
<1>3. ASSUME NEW u \in Users, SignIn(t, u)
      PROVE  TabsInv'
  <2>1. tab[t].query \in States
    BY <1>3 DEF SignIn, TabsInv, Asks
  <2> QED
    BY <1>3, <2>1, RequestTab DEF SignIn
<1> QED
  BY <1>1, <1>2, <1>3 DEF Browse, SignIn

-----------------------------------------------------------------------------
\* The steps of scs, and what is lost.
LEMMA SessionSteps ==
  ASSUME IInv, NEW t \in Tabs, Load(t) \/ Save(t) \/ Lose(t)
  PROVE  TabsInv' /\ RowsInv'
<1> USE DEF IInv
<1>1. CASE Load(t)
  <2> DEFINE k == tab[t].token
             found == k # None /\ sessions[k] # None
             data == IF found THEN sessions[k] ELSE NoData
             r == [tab[t] EXCEPT !.pc = "loaded", !.token = IF found THEN k ELSE None,
                                 !.data = data]
  <2>1. tab' = [tab EXCEPT ![t] = r] /\ UNCHANGED <<logins, sessions>> /\ tab[t].pc = "sent"
    BY <1>1 DEF Load, TabsInv
  <2>2. tab[t] \in Tab /\ Asks(tab[t]) /\ k \in Tokens \cup {None}
    BY DEF TabsInv, Tab
  <2>3. data \in Data /\ Granted(data, logins)
    BY <2>2, NoDataType DEF RowsInv, Granted
  <2> HIDE DEF data, found
  <2>4. /\ r \in Tab /\ r.pc = "loaded" /\ r.page = tab[t].page /\ r.query = tab[t].query
        /\ r.user = tab[t].user /\ r.data = data
    BY <2>2, <2>3 DEF Tab
  <2> HIDE DEF r, k
  <2>5. Asks(r) /\ Granted(r.data, logins')
    BY <2>1, <2>2, <2>3, <2>4 DEF Asks
  <2>6. RowsInv'
    BY <2>1 DEF RowsInv
  <2> QED
    BY <2>1, <2>4, <2>5, <2>6, OneTab
<1>2. CASE Save(t)
  <2>1. tab[t] \in Tab /\ Asks(tab[t]) /\ Granted(tab[t].data, logins) /\ tab[t].pc = "respond"
    BY <1>2 DEF TabsInv, Save
  <2>2. ASSUME NEW k \in Tokens \cup {None},
               tab' = [tab EXCEPT ![t] = [tab[t] EXCEPT !.pc = "receive", !.token = k,
                                                        !.data = NoData]]
        PROVE  TabsInv'
    <3> DEFINE r == [tab[t] EXCEPT !.pc = "receive", !.token = k, !.data = NoData]
    <3>1. /\ r \in Tab /\ r.pc = "receive" /\ r.page = tab[t].page /\ r.query = tab[t].query
          /\ r.user = tab[t].user /\ r.data = NoData
      BY <2>1, NoDataType DEF Tab
    <3> HIDE DEF r
    <3>2. Asks(r) /\ Granted(r.data, logins')
      BY <2>1, <3>1, NoDataType DEF Asks, Granted
    <3>3. tab' = [tab EXCEPT ![t] = r] /\ UNCHANGED logins
      BY <1>2, <2>2 DEF r, Save
    <3> QED
      BY <3>1, <3>2, <3>3, OneTab
  <2>3. CASE tab[t].status = "modified"
    <3>1. PICK k \in Tokens :
            /\ sessions' = [j \in Tokens |-> IF j = k THEN tab[t].data
                                             ELSE IF Fresh(j) THEN None ELSE sessions[j]]
            /\ tab' = [tab EXCEPT ![t].pc = "receive", ![t].token = k, ![t].data = NoData]
      BY <1>2, <2>3 DEF Save
    <3>2. tab' = [tab EXCEPT ![t] = [tab[t] EXCEPT !.pc = "receive", !.token = k,
                                                   !.data = NoData]]
      BY <3>1 DEF TabsInv
    <3>3. \A j \in Tokens : sessions'[j] \in {tab[t].data, None, sessions[j]}
      BY <3>1
    <3>4. tab[t].data \in Data
      BY <2>1 DEF Tab
    <3>5. RowsInv'
      BY <1>2, <2>1, <3>1, <3>3, <3>4 DEF RowsInv, Save
    <3> QED
      BY <2>2, <3>2, <3>5
  <2>4. CASE tab[t].status # "modified"
    <3>1. tab' = [tab EXCEPT ![t].pc = "receive", ![t].data = NoData]
      BY <1>2, <2>4 DEF Save
    <3>2. tab[t].token \in Tokens \cup {None}
      BY <2>1 DEF Tab
    <3>3. [tab[t] EXCEPT !.pc = "receive", !.data = NoData]
            = [tab[t] EXCEPT !.pc = "receive", !.token = tab[t].token, !.data = NoData]
      BY <2>1 DEF Tab
    <3>4. tab' = [tab EXCEPT ![t] = [tab[t] EXCEPT !.pc = "receive", !.data = NoData]]
      BY <3>1 DEF TabsInv
    <3>5. RowsInv'
      BY <1>2, <2>4 DEF RowsInv, Save
    <3> QED
      BY <2>2, <3>2, <3>3, <3>4, <3>5
  <2> QED
    BY <2>3, <2>4
<1>3. CASE Lose(t)
  <2>1. tab' = [tab EXCEPT ![t] = Idle] /\ UNCHANGED <<logins, sessions>>
    BY <1>3 DEF Lose
  <2> QED
    BY <2>1, IdleType, NoDataType, OneTab DEF Granted, RowsInv
<1> QED
  BY <1>1, <1>2, <1>3

\* The steps of the handlers.
LEMMA HandlerSteps ==
  ASSUME IInv, NEW t \in Tabs,
         \/ KeepInvite(t) \/ Join(t) \/ Login(t) \/ FailLogin(t) \/ FinishLogin(t)
         \/ Recheck(t) \/ Logout(t)
  PROVE  TabsInv' /\ RowsInv'
<1> DEFINE d == tab[t].data
<1>1. /\ d \in Data /\ Granted(d, logins) /\ Asks(tab[t])
      /\ d.user \in Users \cup {None} /\ d.permissions \in Grants \cup {None}
      /\ d.redirect \in InviteIds \cup {None} /\ d.state \in States \cup {None}
  BY DEF IInv, TabsInv, Tab, Data
<1>2. UNCHANGED <<sessions, logins>> => RowsInv'
  BY DEF IInv, RowsInv
<1> USE DEF IInv
<1>3. CASE KeepInvite(t)
  <2> DEFINE e == [d EXCEPT !.redirect = tab[t].query]
  <2>1. tab[t].query \in InviteIds
    BY <1>1, <1>3 DEF KeepInvite, Asks
  <2>2. e \in Data /\ e.user = d.user /\ e.permissions = d.permissions
    BY <1>1, <2>1 DEF Data
  <2>3. Respond(t, "login", None, e, "modified") /\ UNCHANGED <<sessions, logins>>
    BY <1>3 DEF KeepInvite
  <2> HIDE DEF e
  <2>4. Granted(e, logins)
    BY <1>1, <2>2 DEF Granted
  <2> QED
    BY <1>2, <2>2, <2>3, <2>4, RespondTab
<1>4. CASE Join(t)
  <2>1. Respond(t, "", None, d, "unmodified") /\ UNCHANGED <<sessions, logins>>
    BY <1>4 DEF Join
  <2> QED
    BY <1>1, <1>2, <2>1, RespondTab
<1>5. CASE Login(t)
  <2>1. PICK s \in States : Respond(t, "provider", s, [d EXCEPT !.state = s], "modified")
    BY <1>5 DEF Login
  <2> DEFINE e == [d EXCEPT !.state = s]
  <2>2. e \in Data /\ e.user = d.user /\ e.permissions = d.permissions
    BY <1>1 DEF Data
  <2>3. Respond(t, "provider", s, e, "modified") /\ UNCHANGED <<sessions, logins>>
    BY <1>5, <2>1 DEF Login
  <2> HIDE DEF e
  <2>4. Granted(e, logins)
    BY <1>1, <2>2 DEF Granted
  <2> QED
    BY <1>2, <2>2, <2>3, <2>4, RespondTab
<1>6. CASE FailLogin(t)
  <2> DEFINE e == [d EXCEPT !.state = None]
  <2>1. e \in Data /\ e.user = d.user /\ e.permissions = d.permissions
    BY <1>1 DEF Data
  <2>2. Respond(t, "", None, e, StatusAfterPop(d)) /\ UNCHANGED <<sessions, logins>>
    BY <1>6 DEF FailLogin
  <2>3. StatusAfterPop(d) \in {"unmodified", "modified"}
    BY DEF StatusAfterPop
  <2> HIDE DEF e
  <2>4. Granted(e, logins)
    BY <1>1, <2>1 DEF Granted
  <2> QED
    BY <1>2, <2>1, <2>2, <2>3, <2>4, RespondTab
<1>7. CASE FinishLogin(t)
  <2> DEFINE u == tab[t].user
             e == [NoData EXCEPT !.user = u, !.permissions = grant[u]]
             page == IF d.redirect # None THEN "invite" ELSE ""
  <2>1. u \in Users /\ grant[u] \in Grants
    BY <1>1, <1>7 DEF FinishLogin, GetExternalUser, Asks
  <2>2. e \in Data /\ e.user = u /\ e.permissions = grant[u]
    BY <2>1 DEF NoData, Data
  <2>3. Renew(t, page, d.redirect, e) /\ logins' = logins \cup {<<u, grant[u]>>}
    BY <1>7 DEF FinishLogin, GetExternalUser
  <2>4. page \in {"", "invite"} /\ (page = "invite" => d.redirect \in InviteIds)
    BY <1>1
  <2> HIDE DEF e, page
  <2>5. Granted(e, logins')
    BY <2>2, <2>3 DEF Granted
  <2> QED
    BY <1>1, <2>2, <2>3, <2>4, <2>5, RenewTab
<1>8. CASE Recheck(t)
  <2>1. CASE d.user = None
    <3>1. Respond(t, "", None, d, "unmodified") /\ UNCHANGED <<sessions, logins>>
      BY <1>8, <2>1 DEF Recheck
    <3> QED
      BY <1>1, <1>2, <3>1, RespondTab
  <2>2. CASE d.user # None
    <3>1. Renew(t, "", None, d) /\ UNCHANGED logins
      BY <1>8, <2>2 DEF Recheck
    <3> QED
      BY <1>1, <3>1, RenewTab
  <2> QED
    BY <2>1, <2>2
<1>9. CASE Logout(t)
  <2>1. CASE d.user = None
    <3>1. Respond(t, "", None, d, "unmodified") /\ UNCHANGED <<sessions, logins>>
      BY <1>9, <2>1 DEF Logout
    <3> QED
      BY <1>1, <1>2, <3>1, RespondTab
  <2>2. CASE d.user # None
    <3> DEFINE r == [Idle EXCEPT !.pc = "respond", !.status = "destroyed"]
    <3>1. /\ sessions' = [k \in Tokens |-> IF k = tab[t].token THEN None ELSE sessions[k]]
          /\ tab' = [tab EXCEPT ![t] = r] /\ UNCHANGED logins
      BY <1>9, <2>2 DEF Logout
    <3>2. r \in Tab /\ Asks(r) /\ r.data = NoData
      BY NoDataType DEF Idle, Tab, Asks
    <3>3. RowsInv'
      BY <3>1 DEF RowsInv, Granted
    <3> HIDE DEF r
    <3> QED
      BY <3>1, <3>2, <3>3, NoDataType, OneTab DEF Granted
  <2> QED
    BY <2>1, <2>2
<1> QED
  BY <1>3, <1>4, <1>5, <1>6, <1>7, <1>8, <1>9

-----------------------------------------------------------------------------
\* What a handler leaves alone.
LEMMA HandlerFrame ==
  ASSUME NEW t \in Tabs,
         \/ KeepInvite(t) \/ Join(t) \/ Login(t) \/ FailLogin(t) \/ FinishLogin(t)
         \/ Recheck(t) \/ Logout(t)
  PROVE  UNCHANGED <<issued, grant, cookie>>
BY DEF KeepInvite, Join, Login, FailLogin, FinishLogin, Recheck, Logout, groupVars,
       GS!AddMemberFromInvite

\* The links stay links, whatever the group service does.
LEMMA GroupSteps ==
  ASSUME IssuedInv, GS!Next
  PROVE  IssuedInv'
BY DEF IssuedInv, GS!Next, GS!CreateAndAddMember, GS!AddMemberFromInvite, GS!RemoveMember,
       GS!RefreshInviteId, GS!Delete

\* IInv is an invariant of the login.
THEOREM SpecIInv == Spec => []IInv
<1>1. Init => IInv
  <2> SUFFICES ASSUME Init PROVE IInv
    OBVIOUS
  <2>1. TabsInv
    BY IdleType, NoDataType DEF Init, TabsInv, Granted
  <2>2. RowsInv
    BY DEF Init, RowsInv
  <2> QED
    BY <2>1, <2>2 DEF Init, IInv, IssuedInv, GS!Init
<1>2. IInv /\ [Next]_vars => IInv'
  <2> SUFFICES ASSUME IInv, [Next]_vars PROVE IInv'
    OBVIOUS
  <2>1. ASSUME NEW t \in Tabs, Browse(t) \/ Receive(t) \/ \E u \in Users : SignIn(t, u)
        PROVE  IInv'
    <3>1. TabsInv' /\ cookie' \in Tokens \cup {None}
      BY <2>1, BrowserSteps
    <3>2. UNCHANGED <<issued, grant, sessions, logins>>
      BY <2>1 DEF Browse, Receive, SignIn, groupVars
    <3> QED
      BY <3>1, <3>2 DEF IInv, RowsInv, IssuedInv
  <2>2. ASSUME NEW t \in Tabs, Load(t) \/ Save(t) \/ Lose(t)
        PROVE  IInv'
    <3>1. TabsInv' /\ RowsInv'
      BY <2>2, SessionSteps
    <3>2. UNCHANGED <<issued, grant, cookie>>
      BY <2>2 DEF Load, Save, Lose, groupVars
    <3> QED
      BY <3>1, <3>2 DEF IInv, IssuedInv
  <2>3. ASSUME NEW t \in Tabs,
               \/ KeepInvite(t) \/ Join(t) \/ Login(t) \/ FailLogin(t) \/ FinishLogin(t)
               \/ Recheck(t) \/ Logout(t)
        PROVE  IInv'
    <3>1. TabsInv' /\ RowsInv'
      BY <2>3, HandlerSteps
    <3>2. UNCHANGED <<issued, grant, cookie>>
      BY <2>3, HandlerFrame
    <3> QED
      BY <3>1, <3>2 DEF IInv, IssuedInv
  <2>4. CASE Expire
    BY <2>4 DEF Expire, groupVars, IInv, TabsInv, RowsInv, IssuedInv, Granted
  <2>5. ASSUME NEW u \in Users, Regrant(u)
        PROVE  IInv'
    BY <2>5 DEF Regrant, groupVars, IInv, TabsInv, RowsInv, IssuedInv
  <2>6. CASE Elsewhere
    BY <2>6, GroupSteps DEF Elsewhere, IInv, TabsInv, RowsInv
  <2>7. CASE UNCHANGED vars
    BY <2>7 DEF vars, groupVars, IInv, TabsInv, RowsInv, IssuedInv
  <2> QED
    BY <2>1, <2>2, <2>3, <2>4, <2>5, <2>6, <2>7 DEF Next
<1> QED
  BY <1>1, <1>2, PTL DEF Spec

\* Whatever the tabs of a browser do to its session, its user has the permissions
\* that were granted to that user when they logged in (renewSessionUser,
\* renderReviewRequest).
THEOREM PermissionsGranted == Spec => []PermissionsAsGranted
<1>1. IInv => PermissionsAsGranted
  BY DEF IInv, TabsInv, RowsInv, Granted, PermissionsAsGranted, Sessions
<1> QED
  BY <1>1, SpecIInv, PTL

\* A step of the login is an AddMemberFromInvite of the group service, or a step of it
\* made elsewhere, or none.
LEMMA GroupServiceStep ==
  ASSUME IInv, [Next]_vars
  PROVE  [GS!Next]_groupVars
<1>1. ASSUME NEW t \in Tabs, Join(t)
      PROVE  GS!Next \/ UNCHANGED groupVars
  <2>1. tab[t].query \in InviteIds /\ tab[t].data.user \in Users
    BY <1>1 DEF Join, IInv, TabsInv, Asks, Tab, Data
  <2>2. CASE UNCHANGED groupVars
    BY <2>2
  <2>3. ASSUME NEW g \in Groups,
               GS!AddMemberFromInvite(g, tab[t].query, tab[t].data.user)
        PROVE  GS!Next
    BY <2>1, <2>3 DEF GS!Next
  <2> QED
    BY <1>1, <2>2, <2>3 DEF Join
<1>2. CASE Elsewhere
  BY <1>2 DEF Elsewhere
<1> QED
  BY <1>1, <1>2
  DEF Next, vars, groupVars, Browse, Receive, Load, Save, Lose, KeepInvite, Login,
      FailLogin, FinishLogin, Recheck, Logout, SignIn, Expire, Regrant

\* By their definitions, the login and the invite links write the group tables by
\* actions of the group service, so what is proved of that carries over.
LEMMA WritesAsGroupService == Spec => GS!Spec
<1>1. Init => GS!Init
  BY DEF Init
<1>2. IInv /\ [Next]_vars => [GS!Next]_(GS!vars)
  BY GroupServiceStep DEF groupVars, GS!vars
<1> QED
  BY <1>1, <1>2, SpecIInv, PTL DEF Spec, GS!Spec

-----------------------------------------------------------------------------
GSP == INSTANCE GroupServiceProofs

\* The group service of these tables, under the name of its proofs.
LEMMA SameGroupService ==
  /\ GS!Init <=> GSP!Init
  /\ [GS!Next]_groupVars <=> [GSP!Next]_(GSP!vars)
  /\ (GS!TypeOK <=> GSP!TypeOK) /\ (GS!TypeOK' <=> GSP!TypeOK')
  /\ NoGroup \notin GSP!GroupRow
<1>1. GS!Init <=> GSP!Init
  BY DEF GS!Init, GSP!Init
<1>2. [GS!Next]_groupVars <=> [GSP!Next]_(GSP!vars)
  BY DEF GS!Next, GSP!Next, groupVars, GSP!vars,
     GS!CreateAndAddMember, GS!AddMemberFromInvite, GS!RemoveMember, GS!RefreshInviteId,
     GS!Delete, GS!Exists, GS!Live, GS!HasInvite, GS!NewGroup, GS!AddMember, GS!MayRemove,
     GSP!CreateAndAddMember, GSP!AddMemberFromInvite, GSP!RemoveMember,
     GSP!RefreshInviteId, GSP!Delete, GSP!Exists, GSP!Live, GSP!HasInvite, GSP!NewGroup,
     GSP!AddMember, GSP!MayRemove
<1>3. (GS!TypeOK <=> GSP!TypeOK) /\ (GS!TypeOK' <=> GSP!TypeOK')
  BY DEF GS!TypeOK, GSP!TypeOK, GS!GroupRow, GSP!GroupRow
<1>4. NoGroup \notin GSP!GroupRow
  BY NoGroupAssumption DEF GS!GroupRow, GSP!GroupRow
<1> QED
  BY <1>1, <1>2, <1>3, <1>4

\* The group service's lemma, about its tables here.
LEMMA NextGroupTypeOK == GS!TypeOK /\ [GS!Next]_groupVars => GS!TypeOK'
BY SameGroupService, NoGroupAssumption, GSP!NextTypeOK

\* What the group service promises holds of its tables here, too.
LEMMA GroupPromises ==
  GS!Spec => [](GS!CreatorIsMember) /\ GS!RevocationIsFinal /\ GS!DeletionIsFinal
<1>1. GS!Spec => GSP!Spec
  <2>1. [GS!Next]_(GS!vars) <=> [GSP!Next]_(GSP!vars)
    BY SameGroupService DEF groupVars, GS!vars
  <2> QED
    BY <2>1, SameGroupService, PTL DEF GS!Spec, GSP!Spec
<1>2. GSP!Spec => []GSP!CreatorIsMember /\ GSP!RevocationIsFinal /\ GSP!DeletionIsFinal
  BY SameGroupService, NoGroupAssumption, GSP!CreatorAlwaysMember, GSP!RevokedForever,
     GSP!DeletedForever
<1>3. GSP!CreatorIsMember <=> GS!CreatorIsMember
  BY DEF GS!CreatorIsMember, GSP!CreatorIsMember, GS!Live, GSP!Live, GS!Exists, GSP!Exists,
         GS!HasMember, GSP!HasMember
<1>4. [GSP!DeadLinksStayDead]_(GSP!vars) <=> [GS!DeadLinksStayDead]_(GS!vars)
  BY DEF GS!DeadLinksStayDead, GSP!DeadLinksStayDead, GS!WorkingInvites,
         GSP!WorkingInvites, GS!Live, GSP!Live, GS!Exists, GSP!Exists, GS!vars, GSP!vars
<1>5. [GSP!DeletedGroupsShrink]_(GSP!vars) <=> [GS!DeletedGroupsShrink]_(GS!vars)
  BY DEF GS!DeletedGroupsShrink, GSP!DeletedGroupsShrink, GS!Exists, GSP!Exists,
         GS!HasMember, GSP!HasMember, GS!vars, GSP!vars
<1> QED
  BY <1>1, <1>2, <1>3, <1>4, <1>5, PTL
  DEF GS!RevocationIsFinal, GSP!RevocationIsFinal, GS!DeletionIsFinal, GSP!DeletionIsFinal

\* However late an invite link is followed, after failed logins and in whichever tab:
\* one that was refreshed or whose group was deleted lets nobody in, a deleted group
\* gains no member, and creators stay members.
THEOREM FollowedLinksKeepGroups ==
  Spec => [](GS!CreatorIsMember) /\ GS!RevocationIsFinal /\ GS!DeletionIsFinal
BY WritesAsGroupService, GroupPromises

\* The history names users with grants, and links.
HistoryTypes ==
  /\ GS!TypeOK
  /\ logins \subseteq Users \X Grants
  /\ wanted \in InviteIds \cup {None}

LEMMA HandlerHistory ==
  ASSUME IInv, HistoryTypes, NEW t \in Tabs,
         \/ KeepInvite(t) \/ Join(t) \/ Login(t) \/ FailLogin(t) \/ FinishLogin(t)
         \/ Recheck(t) \/ Logout(t)
  PROVE  /\ logins' \subseteq Users \X Grants
         /\ wanted' \in InviteIds \cup {None}
<1>1. CASE KeepInvite(t)
  <2>1. tab[t].query \in InviteIds
    BY <1>1 DEF KeepInvite, IInv, TabsInv, Asks
  <2> QED
    BY <1>1, <2>1 DEF KeepInvite, HistoryTypes
<1>2. CASE FinishLogin(t)
  <2>1. tab[t].user \in Users /\ grant[tab[t].user] \in Grants
    BY <1>2 DEF FinishLogin, IInv, TabsInv, Asks
  <2>2. logins' = logins \cup {<<tab[t].user, grant[tab[t].user]>>} /\ UNCHANGED wanted
    BY <1>2 DEF FinishLogin
  <2> QED
    BY <2>1, <2>2 DEF HistoryTypes
<1>3. CASE Join(t) \/ Login(t) \/ FailLogin(t) \/ Recheck(t) \/ Logout(t)
  BY <1>3 DEF Join, Login, FailLogin, Recheck, Logout, HistoryTypes
<1> QED
  BY <1>1, <1>2, <1>3

\* The tables, the cookie, the tabs and the history keep their types.
THEOREM LoginTypeCorrect == Spec => []TypeOK
<1>1. Init => HistoryTypes
  BY DEF Init, HistoryTypes, GS!Init, GS!TypeOK
<1>2. IInv /\ HistoryTypes /\ [Next]_vars => HistoryTypes'
  <2> SUFFICES ASSUME IInv, HistoryTypes, [Next]_vars PROVE HistoryTypes'
    OBVIOUS
  <2>1. GS!TypeOK'
    BY GroupServiceStep, NextGroupTypeOK DEF HistoryTypes
  <2>2. ASSUME NEW t \in Tabs,
               \/ KeepInvite(t) \/ Join(t) \/ Login(t) \/ FailLogin(t) \/ FinishLogin(t)
               \/ Recheck(t) \/ Logout(t)
        PROVE  HistoryTypes'
    BY <2>1, <2>2, HandlerHistory DEF HistoryTypes
  <2>3. ASSUME NEW t \in Tabs,
               \/ Browse(t) \/ Receive(t) \/ Load(t) \/ Save(t) \/ Lose(t)
               \/ \E u \in Users : SignIn(t, u)
        PROVE  HistoryTypes'
    BY <2>1, <2>3 DEF Browse, Receive, Load, Save, Lose, SignIn, HistoryTypes
  <2>4. CASE Expire \/ (\E u \in Users : Regrant(u)) \/ Elsewhere \/ UNCHANGED vars
    BY <2>1, <2>4 DEF Expire, Regrant, Elsewhere, vars, HistoryTypes
  <2> QED
    BY <2>2, <2>3, <2>4 DEF Next
<1>3. IInv /\ HistoryTypes => TypeOK
  BY DEF IInv, TabsInv, RowsInv, HistoryTypes, TypeOK
<1> QED
  BY <1>1, <1>2, <1>3, SpecIInv, PTL DEF Spec

-----------------------------------------------------------------------------
(***************************************************************************)
(* An invite link in a browser with one tab. The link is in the row of the *)
(* browser's session whenever the tab waits for the user; in between it is *)
(* in the request's copy, in the row the response will name, or it is what *)
(* the tab is about to ask for.                                            *)
(***************************************************************************)

\* The row under token c holds link w.
Stored(c, rows, w) == c # None /\ rows[c] # None /\ rows[c].redirect = w

\* The tab is on its way to link w.
Pending(r, w) == r.page = "invite" /\ r.query = w

\* Where link w is, by the tab's place in its request.
Kept(r, c, rows, w) ==
  w # None =>
    /\ r.pc \in {"idle", "provider"} => Stored(c, rows, w)
    /\ r.pc = "sent" => Pending(r, w) \/ (Stored(c, rows, w) /\ r.token = c)
    /\ r.pc = "loaded" =>
         \/ Pending(r, w)
         \/ Stored(c, rows, w) /\ r.token = c /\ r.data.redirect = w
    /\ r.pc = "respond" =>
         \/ Pending(r, w)
         \/ r.status = "modified" /\ r.data.redirect = w
         \/ r.status = "unmodified" /\ Stored(c, rows, w)
    /\ r.pc = "receive" =>
         \/ Pending(r, w)
         \/ r.status = "modified" /\ Stored(r.token, rows, w)
         \/ r.status = "unmodified" /\ Stored(c, rows, w)

\* A session with a user holds no link: the login follows it at once.
NoBoth(d) == d.user # None => d.redirect = None

\* A tab whose request has not reached its handler has changed nothing.
LinkTab(r) ==
  /\ NoBoth(r.data)
  /\ r.pc \in {"sent", "loaded"} => r.status = "unmodified"

LinkInv ==
  /\ \A k \in Tokens : sessions[k] # None => NoBoth(sessions[k])
  /\ \A t \in Tabs : LinkTab(tab[t]) /\ Kept(tab[t], cookie, sessions, wanted)

OneTabOnly == \A t, o \in Tabs : t = o

\* The only tab takes a value in which the link is kept.
LEMMA LinkStep ==
  ASSUME OneTabOnly, tab \in [Tabs -> Tab], NEW t \in Tabs, NEW r,
         tab' = [tab EXCEPT ![t] = r],
         LinkTab(r), Kept(r, cookie', sessions', wanted'),
         \A k \in Tokens : sessions'[k] # None => NoBoth(sessions'[k])
  PROVE  LinkInv'
<1>1. \A o \in Tabs : o = t /\ tab'[o] = r
  BY DEF OneTabOnly
<1> QED
  BY <1>1 DEF LinkInv

\* A request is sent while the row holds the link, or for the link.
LEMMA LinkRequest ==
  ASSUME OneTabOnly, IInv, LinkInv, NEW t \in Tabs, NEW page, NEW query, NEW u, NEW token,
         Request(t, page, query, u, token), UNCHANGED <<sessions, wanted>>,
         token = cookie',
         wanted # None => \/ page = "invite" /\ query = wanted
                          \/ Stored(cookie', sessions, wanted)
  PROVE  LinkInv'
<1> DEFINE r == [Idle EXCEPT !.pc = "sent", !.page = page, !.query = query,
                             !.user = u, !.token = token]
<1>1. /\ r.pc = "sent" /\ r.page = page /\ r.query = query /\ r.token = token
      /\ r.data = NoData /\ r.status = "unmodified"
  BY DEF Idle
<1>2. tab' = [tab EXCEPT ![t] = r]
  BY DEF Request
<1> HIDE DEF r
<1>3. LinkTab(r) /\ Kept(r, cookie', sessions', wanted')
  BY <1>1, NoDataType DEF LinkTab, NoBoth, Kept, Pending
<1> QED
  BY <1>2, <1>3, LinkStep DEF IInv, TabsInv, LinkInv

LEMMA LinkBrowserSteps ==
  ASSUME OneTabOnly, IInv, LinkInv, NEW t \in Tabs,
         Browse(t) \/ Receive(t) \/ \E u \in Users : SignIn(t, u)
  PROVE  LinkInv'
<1>1. LinkTab(tab[t]) /\ Kept(tab[t], cookie, sessions, wanted)
  BY DEF LinkInv
<1>2. CASE Browse(t)
  <2>1. wanted # None => Stored(cookie', sessions, wanted)
    BY <1>1, <1>2 DEF Browse, Kept
  <2>2. UNCHANGED <<sessions, wanted, cookie>>
    BY <1>2 DEF Browse
  <2>3. PICK page, query : Request(t, page, query, None, cookie)
    BY <1>2 DEF Browse
  <2> QED
    BY <2>1, <2>2, <2>3, LinkRequest
<1>3. ASSUME NEW u \in Users, SignIn(t, u)
      PROVE  LinkInv'
  <2>1. wanted # None => Stored(cookie', sessions, wanted)
    BY <1>1, <1>3 DEF SignIn, Kept
  <2>2. UNCHANGED <<sessions, wanted, cookie>> /\ Request(t, "callback", tab[t].query, u, cookie)
    BY <1>3 DEF SignIn
  <2> QED
    BY <2>1, <2>2, LinkRequest
<1>4. CASE Receive(t)
  <2>1. /\ tab[t].pc = "receive" /\ UNCHANGED <<sessions, wanted>>
        /\ cookie' = IF tab[t].status = "unmodified" THEN cookie ELSE tab[t].token
    BY <1>4 DEF Receive
  <2>2. wanted # None => Pending(tab[t], wanted) \/ Stored(cookie', sessions, wanted)
    BY <1>1, <2>1 DEF Kept
  <2>3. CASE tab[t].page = ""
    <3>1. tab' = [tab EXCEPT ![t] = Idle]
      BY <1>4, <2>3 DEF Receive
    <3>2. LinkTab(Idle) /\ Kept(Idle, cookie', sessions', wanted')
      BY <2>1, <2>2, <2>3, NoDataType DEF LinkTab, NoBoth, Kept, Pending, Idle
    <3> QED
      BY <2>1, <3>1, <3>2, LinkStep DEF IInv, TabsInv, LinkInv
  <2>4. CASE tab[t].page = "provider"
    <3> DEFINE r == [Idle EXCEPT !.pc = "provider", !.query = tab[t].query]
    <3>1. tab' = [tab EXCEPT ![t] = r]
      BY <1>4, <2>4 DEF Receive
    <3>2. r.pc = "provider" /\ r.data = NoData
      BY DEF Idle
    <3> HIDE DEF r
    <3>3. LinkTab(r) /\ Kept(r, cookie', sessions', wanted')
      BY <2>1, <2>2, <2>4, <3>2, NoDataType DEF LinkTab, NoBoth, Kept, Pending
    <3> QED
      BY <2>1, <3>1, <3>3, LinkStep DEF IInv, TabsInv, LinkInv
  <2>5. CASE tab[t].page \notin {"", "provider"}
    <3>1. Request(t, tab[t].page, tab[t].query, None, cookie')
      BY <1>4, <2>5 DEF Receive
    <3>2. wanted # None => \/ tab[t].page = "invite" /\ tab[t].query = wanted
                           \/ Stored(cookie', sessions, wanted)
      BY <2>2 DEF Pending
    <3> QED
      BY <2>1, <3>1, <3>2, LinkRequest
  <2> QED
    BY <2>3, <2>4, <2>5
<1> QED
  BY <1>2, <1>3, <1>4

LEMMA LinkSessionSteps ==
  ASSUME OneTabOnly, IInv, LinkInv, NEW t \in Tabs, Load(t) \/ Save(t) \/ Lose(t)
  PROVE  LinkInv'
<1>1. /\ LinkTab(tab[t]) /\ Kept(tab[t], cookie, sessions, wanted)
      /\ tab[t] \in Tab /\ tab \in [Tabs -> Tab]
      /\ \A k \in Tokens : sessions[k] # None => NoBoth(sessions[k])
  BY DEF LinkInv, IInv, TabsInv
<1>2. CASE Load(t)
  <2> DEFINE k == tab[t].token
             found == k # None /\ sessions[k] # None
             token == IF found THEN k ELSE None
             data == IF found THEN sessions[k] ELSE NoData
             r == [tab[t] EXCEPT !.pc = "loaded", !.token = token, !.data = data]
  <2>1. /\ tab' = [tab EXCEPT ![t] = r] /\ tab[t].pc = "sent"
        /\ UNCHANGED <<sessions, cookie, wanted>>
    BY <1>1, <1>2 DEF Load
  <2>2. k \in Tokens \cup {None} /\ NoBoth(data)
    BY <1>1, NoDataType DEF Tab, NoBoth
  <2>3. Stored(cookie, sessions, wanted) /\ k = cookie =>
          token = cookie /\ data.redirect = wanted
    BY DEF Stored
  <2> HIDE DEF data, token, found
  <2>4. /\ r.pc = "loaded" /\ r.page = tab[t].page /\ r.query = tab[t].query
        /\ r.token = token /\ r.data = data /\ r.status = tab[t].status
    BY <1>1 DEF Tab
  <2> HIDE DEF r
  <2>5. LinkTab(r) /\ Kept(r, cookie', sessions', wanted')
    BY <1>1, <2>1, <2>2, <2>3, <2>4 DEF LinkTab, Kept, Pending
  <2> QED
    BY <1>1, <2>1, <2>5, LinkStep
<1>3. CASE Save(t)
  <2>1. tab[t].pc = "respond" /\ UNCHANGED <<cookie, wanted>>
    BY <1>3 DEF Save
  <2>2. CASE tab[t].status = "modified"
    <3>1. PICK k \in Tokens :
            /\ sessions' = [j \in Tokens |-> IF j = k THEN tab[t].data
                                             ELSE IF Fresh(j) THEN None ELSE sessions[j]]
            /\ tab' = [tab EXCEPT ![t].pc = "receive", ![t].token = k, ![t].data = NoData]
      BY <1>3, <2>2 DEF Save
    <3> DEFINE r == [tab[t] EXCEPT !.pc = "receive", !.token = k, !.data = NoData]
    <3>2. tab' = [tab EXCEPT ![t] = r]
      BY <1>1, <3>1
    <3>3. /\ r.pc = "receive" /\ r.page = tab[t].page /\ r.query = tab[t].query
          /\ r.token = k /\ r.data = NoData /\ r.status = "modified"
      BY <1>1, <2>2 DEF Tab
    <3> HIDE DEF r
    <3>4. sessions'[k] = tab[t].data /\ tab[t].data # None /\ k # None
      BY <1>1, <3>1, NoneAssumption DEF Tab
    <3>5. LinkTab(r) /\ Kept(r, cookie', sessions', wanted')
      BY <1>1, <2>1, <2>2, <3>3, <3>4, NoDataType DEF LinkTab, NoBoth, Kept, Pending, Stored
    <3>6. \A j \in Tokens : sessions'[j] \in {tab[t].data, None, sessions[j]}
      BY <3>1
    <3>7. \A j \in Tokens : sessions'[j] # None => NoBoth(sessions'[j])
      BY <1>1, <3>6 DEF LinkTab
    <3> QED
      BY <1>1, <3>2, <3>5, <3>7, LinkStep
  <2>3. CASE tab[t].status # "modified"
    <3> DEFINE r == [tab[t] EXCEPT !.pc = "receive", !.data = NoData]
    <3>1. tab' = [tab EXCEPT ![t] = r] /\ UNCHANGED sessions
      BY <1>1, <1>3, <2>3 DEF Save
    <3>2. /\ r.pc = "receive" /\ r.page = tab[t].page /\ r.query = tab[t].query
          /\ r.data = NoData /\ r.status = tab[t].status
      BY <1>1 DEF Tab
    <3> HIDE DEF r
    <3>3. LinkTab(r) /\ Kept(r, cookie', sessions', wanted')
      BY <1>1, <2>1, <2>3, <3>1, <3>2, NoDataType DEF LinkTab, NoBoth, Kept, Pending
    <3> QED
      BY <1>1, <3>1, <3>3, LinkStep
  <2> QED
    BY <2>2, <2>3
<1>4. CASE Lose(t)
  <2>1. /\ tab' = [tab EXCEPT ![t] = Idle] /\ UNCHANGED <<sessions, cookie>>
        /\ wanted' = IF tab[t].status = "unmodified" /\ tab[t].query # wanted
                     THEN wanted ELSE None
        /\ tab[t].pc \in {"sent", "loaded", "respond", "receive"}
    BY <1>1, <1>4 DEF Lose, Tab
  <2>2. wanted' # None => Stored(cookie', sessions', wanted')
    BY <1>1, <2>1 DEF Kept, Pending
  <2>3. LinkTab(Idle) /\ Kept(Idle, cookie', sessions', wanted')
    BY <2>2, NoDataType DEF LinkTab, NoBoth, Kept, Idle
  <2> QED
    BY <1>1, <2>1, <2>3, LinkStep
<1> QED
  BY <1>2, <1>3, <1>4

\* A handler is done, and the link is in its copy of the session, still in the row,
\* or what it redirects to.
LEMMA LinkRespond ==
  ASSUME OneTabOnly, IInv, LinkInv, NEW t \in Tabs,
         NEW page, NEW query, NEW data, NEW status,
         Respond(t, page, query, data, status), UNCHANGED <<sessions, cookie>>,
         NoBoth(data),
         wanted' # None => \/ status = "modified" /\ data.redirect = wanted'
                           \/ status = "unmodified" /\ Stored(cookie, sessions, wanted')
  PROVE  LinkInv'
<1> DEFINE r == [tab[t] EXCEPT !.pc = "respond", !.page = page, !.query = query,
                               !.user = None, !.data = data, !.status = status]
<1>1. tab' = [tab EXCEPT ![t] = r] /\ tab[t] \in Tab
  BY DEF Respond, IInv, TabsInv
<1>2. r.pc = "respond" /\ r.data = data /\ r.status = status
  BY <1>1 DEF Tab
<1> HIDE DEF r
<1>3. LinkTab(r) /\ Kept(r, cookie', sessions', wanted')
  BY <1>2 DEF LinkTab, Kept
<1> QED
  BY <1>1, <1>3, LinkStep DEF IInv, TabsInv, LinkInv

LEMMA LinkRenew ==
  ASSUME OneTabOnly, IInv, LinkInv, NEW t \in Tabs, NEW page, NEW query, NEW data,
         Renew(t, page, query, data), UNCHANGED wanted, NoBoth(data),
         wanted # None => data.redirect = wanted \/ (page = "invite" /\ query = wanted)
  PROVE  LinkInv'
<1> DEFINE r == [tab[t] EXCEPT !.pc = "respond", !.page = page, !.query = query,
                               !.user = None, !.token = None, !.data = data,
                               !.status = "modified"]
<1>1. tab' = [tab EXCEPT ![t] = r] /\ tab[t] \in Tab
  BY DEF Renew, IInv, TabsInv
<1>2. /\ r.pc = "respond" /\ r.page = page /\ r.query = query /\ r.data = data
      /\ r.status = "modified"
  BY <1>1 DEF Tab
<1>3. \A k \in Tokens : sessions'[k] # None => NoBoth(sessions'[k])
  BY DEF Renew, LinkInv
<1> HIDE DEF r
<1>4. LinkTab(r) /\ Kept(r, cookie', sessions', wanted')
  BY <1>2 DEF LinkTab, Kept, Pending
<1> QED
  BY <1>1, <1>3, <1>4, LinkStep DEF IInv, TabsInv

LEMMA LinkHandlerSteps ==
  ASSUME OneTabOnly, IInv, LinkInv, NEW t \in Tabs,
         \/ KeepInvite(t) \/ Join(t) \/ Login(t) \/ FailLogin(t) \/ FinishLogin(t)
         \/ Recheck(t) \/ Logout(t)
  PROVE  LinkInv'
<1> DEFINE d == tab[t].data
<1>1. tab[t].pc = "loaded"
  BY DEF KeepInvite, Join, Login, FailLogin, FinishLogin, Recheck, Logout
<1>2. /\ d \in Data /\ NoBoth(d)
      /\ wanted # None => \/ Pending(tab[t], wanted)
                          \/ Stored(cookie, sessions, wanted) /\ d.redirect = wanted
  BY <1>1 DEF LinkInv, LinkTab, Kept, IInv, TabsInv, Tab
<1>3. UNCHANGED cookie
  BY HandlerFrame
<1>4. CASE KeepInvite(t)
  <2> DEFINE e == [d EXCEPT !.redirect = tab[t].query]
  <2>1. e.user = None /\ e.redirect = tab[t].query
    BY <1>2, <1>4 DEF KeepInvite, Data
  <2>2. /\ Respond(t, "login", None, e, "modified")
        /\ UNCHANGED sessions /\ wanted' = tab[t].query
    BY <1>4 DEF KeepInvite
  <2> HIDE DEF e
  <2> QED
    BY <1>3, <2>1, <2>2, LinkRespond DEF NoBoth
<1>5. CASE Join(t)
  <2>1. /\ Respond(t, "", None, d, "unmodified") /\ UNCHANGED sessions
        /\ wanted' = IF wanted = tab[t].query THEN None ELSE wanted
    BY <1>5 DEF Join
  <2>2. wanted' # None => Stored(cookie, sessions, wanted')
    BY <1>2, <2>1 DEF Pending
  <2> QED
    BY <1>2, <1>3, <2>1, <2>2, LinkRespond
<1>6. CASE Login(t)
  <2>1. PICK s \in States : Respond(t, "provider", s, [d EXCEPT !.state = s], "modified")
    BY <1>6 DEF Login
  <2> DEFINE e == [d EXCEPT !.state = s]
  <2>2. e.user = d.user /\ e.redirect = d.redirect
    BY <1>2 DEF Data
  <2>3. /\ Respond(t, "provider", s, e, "modified") /\ UNCHANGED <<sessions, wanted>>
        /\ tab[t].page = "login"
    BY <1>6, <2>1 DEF Login
  <2> HIDE DEF e
  <2>4. NoBoth(e) /\ (wanted # None => e.redirect = wanted)
    BY <1>2, <2>2, <2>3 DEF NoBoth, Pending
  <2> QED
    BY <1>3, <2>3, <2>4, LinkRespond
<1>7. CASE FailLogin(t)
  <2> DEFINE e == [d EXCEPT !.state = None]
  <2>1. e.user = d.user /\ e.redirect = d.redirect
    BY <1>2 DEF Data
  <2>2. /\ Respond(t, "", None, e, StatusAfterPop(d)) /\ UNCHANGED <<sessions, wanted>>
        /\ tab[t].page = "callback"
    BY <1>7 DEF FailLogin
  <2>3. StatusAfterPop(d) \in {"unmodified", "modified"}
    BY DEF StatusAfterPop
  <2> HIDE DEF e
  <2>4. /\ NoBoth(e)
        /\ wanted # None => e.redirect = wanted /\ Stored(cookie, sessions, wanted)
    BY <1>2, <2>1, <2>2 DEF NoBoth, Pending
  <2> QED
    BY <1>3, <2>2, <2>3, <2>4, LinkRespond
<1>8. CASE FinishLogin(t)
  <2> DEFINE e == GetExternalUser(tab[t].user)
             page == IF d.redirect # None THEN "invite" ELSE ""
  <2>1. e.redirect = None
    BY DEF GetExternalUser, NoData
  <2>2. /\ Renew(t, page, d.redirect, e) /\ UNCHANGED wanted
        /\ tab[t].page = "callback"
    BY <1>8 DEF FinishLogin
  <2>3. wanted # None => page = "invite" /\ d.redirect = wanted
    BY <1>2, <2>2 DEF Pending
  <2> HIDE DEF e, page
  <2> QED
    BY <2>1, <2>2, <2>3, LinkRenew DEF NoBoth
<1>9. CASE Recheck(t)
  <2>1. UNCHANGED wanted /\ tab[t].page = "review"
    BY <1>9 DEF Recheck
  <2>2. CASE d.user = None
    <3>1. Respond(t, "", None, d, "unmodified") /\ UNCHANGED sessions
      BY <1>9, <2>2 DEF Recheck
    <3>2. wanted # None => Stored(cookie, sessions, wanted)
      BY <1>2, <2>1 DEF Pending
    <3> QED
      BY <1>2, <1>3, <2>1, <3>1, <3>2, LinkRespond
  <2>3. CASE d.user # None
    <3>1. Renew(t, "", None, d)
      BY <1>9, <2>3 DEF Recheck
    <3>2. wanted # None => d.redirect = wanted
      BY <1>2, <2>1 DEF Pending
    <3> QED
      BY <1>2, <2>1, <3>1, <3>2, LinkRenew
  <2> QED
    BY <2>2, <2>3
<1>10. CASE Logout(t)
  <2>1. UNCHANGED wanted /\ tab[t].page = "logout"
    BY <1>10 DEF Logout
  <2>2. wanted # None => Stored(cookie, sessions, wanted) /\ d.redirect = wanted
    BY <1>2, <2>1 DEF Pending
  <2>3. CASE d.user = None
    <3>1. Respond(t, "", None, d, "unmodified") /\ UNCHANGED sessions
      BY <1>10, <2>3 DEF Logout
    <3> QED
      BY <1>2, <1>3, <2>1, <2>2, <3>1, LinkRespond
  <2>4. CASE d.user # None
    <3> DEFINE r == [Idle EXCEPT !.pc = "respond", !.status = "destroyed"]
    <3>1. /\ sessions' = [k \in Tokens |-> IF k = tab[t].token THEN None ELSE sessions[k]]
          /\ tab' = [tab EXCEPT ![t] = r]
      BY <1>10, <2>4 DEF Logout
    <3>2. r.pc = "respond" /\ r.data = NoData
      BY DEF Idle
    <3>3. wanted = None
      BY <1>2, <2>2, <2>4 DEF NoBoth
    <3> HIDE DEF r
    <3>4. LinkTab(r) /\ Kept(r, cookie', sessions', wanted')
      BY <2>1, <3>2, <3>3, NoDataType DEF LinkTab, NoBoth, Kept
    <3>5. \A k \in Tokens : sessions'[k] # None => NoBoth(sessions'[k])
      BY <3>1 DEF LinkInv
    <3> QED
      BY <3>1, <3>4, <3>5, LinkStep DEF IInv, TabsInv
  <2> QED
    BY <2>3, <2>4
<1> QED
  BY <1>4, <1>5, <1>6, <1>7, <1>8, <1>9, <1>10

\* In a browser with one tab, an invite link that was opened without a session is
\* kept through any number of failed and abandoned logins (inviteGroup,
\* renderLogin, handleLoginCallback).
THEOREM OneTabKeepsLink ==
  ASSUME OneTabOnly
  PROVE  Spec => []LinkKept
<1>1. Init => LinkInv
  <2> SUFFICES ASSUME Init PROVE LinkInv
    OBVIOUS
  <2>1. LinkTab(Idle)
    BY NoDataType DEF LinkTab, NoBoth, Idle
  <2>2. Kept(Idle, cookie, sessions, wanted)
    BY DEF Init, Kept
  <2> QED
    BY <2>1, <2>2 DEF Init, LinkInv
<1>2. IInv /\ LinkInv /\ [Next]_vars => LinkInv'
  <2> SUFFICES ASSUME IInv, LinkInv, [Next]_vars PROVE LinkInv'
    OBVIOUS
  <2>1. ASSUME NEW t \in Tabs, Browse(t) \/ Receive(t) \/ \E u \in Users : SignIn(t, u)
        PROVE  LinkInv'
    BY <2>1, LinkBrowserSteps
  <2>2. ASSUME NEW t \in Tabs, Load(t) \/ Save(t) \/ Lose(t)
        PROVE  LinkInv'
    BY <2>2, LinkSessionSteps
  <2>3. ASSUME NEW t \in Tabs,
               \/ KeepInvite(t) \/ Join(t) \/ Login(t) \/ FailLogin(t) \/ FinishLogin(t)
               \/ Recheck(t) \/ Logout(t)
        PROVE  LinkInv'
    BY <2>3, LinkHandlerSteps
  <2>4. CASE Expire
    <3>1. /\ sessions' = [sessions EXCEPT ![cookie] = None] /\ wanted' = None
          /\ UNCHANGED <<tab, cookie>>
      BY <2>4 DEF Expire
    <3>2. \A k \in Tokens : sessions'[k] # None => sessions'[k] = sessions[k]
      BY <3>1 DEF IInv, RowsInv
    <3>3. \A t \in Tabs : Kept(tab[t], cookie', sessions', wanted')
      BY <3>1 DEF Kept
    <3> QED
      BY <3>1, <3>2, <3>3 DEF LinkInv
  <2>5. CASE (\E u \in Users : Regrant(u)) \/ Elsewhere \/ UNCHANGED vars
    <3>1. UNCHANGED <<sessions, cookie, tab, wanted>>
      BY <2>5 DEF Regrant, Elsewhere, vars
    <3> QED
      BY <3>1 DEF LinkInv
  <2> QED
    BY <2>1, <2>2, <2>3, <2>4, <2>5 DEF Next
<1>3. LinkInv => LinkKept
  BY DEF LinkInv, Kept, Stored, LinkKept
<1> QED
  BY <1>1, <1>2, <1>3, SpecIInv, PTL DEF Spec

=============================================================================
