# Formal models of jvbe

jvbe is a web application for organising events: members answer an event with up
to one plus one, a waitlist takes what exceeds the capacity, events may belong to
a group that is joined by invite link, and new accounts wait for a reviewer. It is
one Go process over one SQLite database. This directory holds TLA+ models of its
logic, the TLC configurations that check them, and proofs checked by TLAPS.

Run them here, with the TLA+ tools installed:

    tlc -config MCEventService.cfg MCEventService.tla     # any run of PROJECT.json
    tlapm EventServiceProofs.tla                          # any *Proofs module

`PROJECT.json` lists the components, runs, mutants, findings, hazards and theorems,
and for each definition the source lines it models.

## The system

| Component | State | Operations that write | Correct when |
|---|---|---|---|
| Event service, `event/service.go` | tables `event`, `event_response` | Create, Update, Delete, HandleResponse | the stored waitlist is the one that capacity and order of answers dictate; capacity is kept; nobody overtakes; no spot idles; after the start only an answer already under way changes who comes, and a deleted event is final; all of this is a queue of parties whose longest fitting front is confirmed |
| Group service, `group/service.go` | `user_group`, `user_group_member` | CreateAndAddMember, Update, Delete, AddMemberFromInvite, RemoveMember, RefreshInviteId | the creator stays a member; a dead link stays dead; deleted groups gain nobody |
| User service, `user/service.go` | `user`, `user_review` | HandleFromExternal, UpdateReview, ApproveReview | one account per identity; nobody is stuck between inactive and reviewed; approvals last |
| Audit log, `auditlog/service.go` | `audit_log` | Create | it agrees with the stored answers; walking its pages shows every entry |
| Event and group handlers, `app/event.go`, `app/group.go` | the mutex of `respondEvent`; requests in progress | one function per route | interleaved requests look like transactions of the services; every request returns; access is checked; pages miss nothing |
| Login, session and review handlers, `app/auth.go`, `app/user.go`, `app/middleware.go` | table `sessions` (library scs), the cookie | login, callback, review, logout, the redirect of an invite link | the session is never ahead of the user table, and catches up; its permissions are its user's; an invite survives the login |
| Auth service | none | GetExternalUser | external: the identity provider |
| Database, templates, config, logger, commands | start-up state, a template cache | - | no logic of their own but SQLite's locks |

How they interact. A handler calls service methods in sequence. Each method is one
SQLite transaction that rolls back on every early return, so the interleavings a
handler sees are between transactions; that this is so is not assumed for the event
service but checked and proved (EventTransactions). `respondEvent` calls four methods
(event, group, event, audit log) under a mutex that only it takes: editing, deleting,
group changes and membership changes run between them. The session is loaded when a
request starts and written when it ends, so two requests of one browser overwrite each
other's copy.

What is hard here: the waitlist is a stored column that depends on every earlier
answer; the queue is ordered by wall-clock readings, which tie and go back; checks
and actions are in separate transactions, and so are the two halves of a page; deferred
transactions read first and lock later; an audit entry can be lost after its
answer is committed; errors are dropped; copies of a status, of permissions and of
whole sessions lag behind. `PROJECT.json` lists these under `hazards` with the
properties that cover each.

## The modules

    Waitlist                      the rows of one event and manageWaitlist (operators)
      EventService                tables event, event_response
        EventTransactions         the same methods statement by statement, over SQLite's locks
        AppTables                 + INSTANCE GroupService: the handlers that write both
          RespondHandler          concurrent requests to respondEvent
          Pages                   the pages that read in two transactions
    RsvpQueue                     what the event service promises, without tables and clock
    Accounts                      what onboarding promises a person, without ids, rows and requests
    GroupService                  groups, members, invite links
    Onboarding                    user service, sessions, review
    LoginFlow                     + INSTANCE GroupService: login, session, invite link
    AuditPages                    the audit log page by page
    MC*                           small instances for TLC
    EventServiceProofs            EXTENDS EventService; also the lemmas on Waitlist
      EventTransactionsProofs     EXTENDS EventTransactions, EventServiceProofs
      RespondHandlerProofs        EXTENDS RespondHandler, EventServiceProofs; INSTANCE GroupServiceProofs
      PagesProofs                 EXTENDS Pages, EventServiceProofs; INSTANCE GroupServiceProofs
    GroupServiceProofs            EXTENDS GroupService
    OnboardingProofs              EXTENDS Onboarding
    LoginFlowProofs               EXTENDS LoginFlow; INSTANCE GroupServiceProofs
    AuditPagesProofs              EXTENDS AuditPages

Refinements, proved:

    EventService, RespondHandler, EventTransactions  =>  RsvpQueue     (QueueSpec)
    EventTransactions                                =>  EventService  (MethodsAtomic)
    Onboarding                                       =>  Accounts      (AccountsSpec)

TLC checks `QueueSpec` of EventService, `MethodsAtomic` and `AccountsSpec`; the other two of the
first line follow from these. RespondHandler, Pages and LoginFlow write the tables by the actions
of EventService and GroupService themselves, so that they implement these services says
nothing of the code and is no result here; it is used (`WritesAsEventService`,
`WritesAsGroupService`) to carry the services' promises over.

**Waitlist.** The rows of an event are a function from users to a row or
`NoResponse`. `ManageWaitlist` is the UPDATE of `manageWaitlist`: its
`SUM(attendee_count) OVER (ORDER BY created_at)` has SQL's default RANGE frame, so
`RunningTotal` sums every row created no later, peers included. Sums are
cardinalities of sets of heads, which avoids recursion and lets the prover work with
the finite set theorems.

**EventService.** One action per writing method; the guard is the conjunction of the
method's early returns. There is no clock among the tables: `HandleResponse` has the two
readings it makes as parameters, `checked` with which `get` computes `is_past` and `written` that
becomes `created_at`. They may be any, so an answer may be stored after the start, and the
clock may go back. Capacities are any integers, as the form's `int` is. Deleted events keep their rows.
Names, locations and `updated_at` are left out, and so is the group, which
AppTables adds. A transaction that fails changes nothing and is not an action.

**RsvpQueue.** The abstract specification. An event has a capacity and a queue of
parties, each with a place; places may be shared, and a place is not tied to any clock.
The confirmed are not stored: after each step that changes the queue or the capacity
they are `Promised`, the longest front of the queue that fits. `EventService` maps
`attendee_count` to heads, `created_at` to the place and `NOT on_waitlist` to confirmed
(`Parties`, `Queue`).

**EventTransactions.** Each connection runs one method: `get` (and in `GetDetailed` the
list), its write, `manageWaitlist`, the commit. `lock` is SQLite's lock of that connection
in a database file with a rollback journal: SHARED with the first read, RESERVED with the
first write, PENDING while a commit waits for readers. The holder of RESERVED keeps its
writes in `draft`; the tables change with `Commit` alone. A transaction that has read and
finds RESERVED taken fails at once (`Busy`): SQLite does not call the busy handler there,
since it would deadlock. `Fail` ends a transaction in any statement, `Crash` all of them.
`now` is the server's clock, which `Tick` sets to any reading between two statements: `Get` reads
it, and so does the write of an answer. `clock` is history: what it has shown since each
`HandleResponse` was called. `MethodsAtomic` says what EventService assumes: the tables change
only when a method returns, by that method's whole action, an answer's two readings being
from `clock`. `ClosedStaysClosed` says what is left of closing an event when an answer can begin
before the start and commit after it: such answers, and no others, change who comes to a past
event, and nothing changes a deleted one. These locks are an external definition, written from how the code uses `db.Beginx` and
`defer tx.Rollback()`; so is `Outdate` in Onboarding, a coarser form of the same rule.

**GroupService.** One action per writing method. `removeMember`'s ignored error is
modelled (`MayRemove`), as is a refresh of a deleted group's link. Ids are nanoids:
a fresh one is taken to differ from every id drawn before (`issued`).

**AppTables.** The tables of both services with the column `group_id`, which never changes
after `createEvent`, and the handlers that write in one transaction.

**RespondHandler.** A request passes `lock`, `decode`, `get`, `access`, `answer`,
`audit`. `Answer` is `HandleResponse` of EventService with any two readings; all actions of AppTables are
allowed between the steps. `Fail` ends a request in any step, `Audit` may lose its
entry, and `Restart` drops all requests and the mutex while the tables stay. Three
history variables: `auditlog` (the entry inserted last per event and user), `unlogged`
(lost entries), `outsiders` (requests whose user never had access since they were sent).

**Pages.** The clock is `now`. `renderHome` lists upcoming events, then past ones with a limit;
`renderEventDetails` reads and then checks the access, `renderGroupDetails` checks, unless
the user may modify groups, and then reads. Between the two transactions every handler of AppTables
may commit. `Newest` is `ORDER BY start DESC LIMIT`, with ties in any order. Two history
variables say what the viewer could access at some time (`allowed`), and which events
at all times (`steady`).

**Onboarding.** `HandleFromExternal` is split at its read and its writes, with the rule
by which SQLite makes deferred transactions serializable as an external definition
(`Outdate`: after another commit, a transaction that has read can no longer write). A
login callback and the review page carry what they read to the end of the request
(`Renew`). Users from before the onboarding migration are active without a review
(`Init`). The review form works without a session and then writes the row of user id
`""`; that row has no user, is not listed and cannot be approved.

**Accounts.** The abstract specification of Onboarding: the persons with an account, who of
them is active, has an open or an approved review, and is signed in or let in where. A
`Join` opens the review with the account, an `Approve` closes it and makes the person
active in one step, and no action takes either back. Onboarding maps rows to the identity in them
(`Known` to `LetIn`); what requests carry between their steps does not show.

**LoginFlow.** A browser with tabs, its cookie, and the session rows. A tab's request is sent
with the cookie of that moment, loads its row (`Load`), runs its handler on its own copy, and
writes the copy back if it changed (`Save`, scs's `commitAndWriteSessionCookie`); the
response then sets the cookie and is followed if it is a redirect (`Receive`).
`RenewToken` deletes the old row at once and leaves the new one to `Save`; logout deletes the
row. So a request that loaded a session before a logout in another tab writes it back, as scs
does. `Lose` drops a request or response at any point. Accounts and reviews are Onboarding's; here accounts
exist. Redirects are invite links only, as in the code.

**AuditPages.** Ints lie between `-MaxInt - 1` and `MaxInt` and overflow (`Wrap`). The page of `page` is `Rows`
at `PageSize * (page - 1)`; the count comes from the rows, so a page past the end has none;
`Skipped` is `FormatLimitOffset`, which ignores an offset of 0 or less. `Create` inserts an entry
anywhere, since `recorded_at` is read before the insert and the clock may go back.

## The runs

| Run | Instance | States | Shows |
|---|---|---|---|
| `event_service` | 1 event, 3 users, readings 0..2, capacities -1..5, 1 plus one | 3 500 | the invariants and action properties of the event service; it implements `RsvpQueue` |
| `event_transactions` | 1 event, 2 users, 3 connections, readings 0..1, capacities 0..1 | 525 000 | interleaved statements, failures and crashes leave whole methods of `EventService`; reads hold; after the start only answers under way are stored; no circular wait |
| `group_service` | 2 groups, 3 users, 4 invite ids | 424 | creator, deletion and link properties |
| `creator_removed` | the same | violation | the creator of a deleted group can be removed (finding) |
| `respond_handler` | 2 requests, 2 users, 1 event, 1 group, capacity 1, counts 0..2 (2 is invalid) | 270 000 | under interleaved requests the audit log agrees with the answers, and outsiders never answer |
| `respond_liveness` | 2 requests, 1 user, readings 0..1 | 41 000 | every request returns |
| `pages` | 2 events, 2 users, 1 group, readings 0..2, 1 past event per page | 417 000 | the home page misses nothing; outsiders see no event or group on the modelled pages |
| `onboarding` | 2 identities, 2 user ids, 1 browser, 2 requests | 103 000 | accounts, review list, sessions; it implements `Accounts`; an approved user gets in |
| `review_reported` | 1 user, 3 comments, 1 too long | violation | success is reported for a comment that was not stored (finding) |
| `login_flow` | 1 tab, 1 user, 2 tokens, 2 states, 1 group, 1 link | 5 300 | the invite link is kept through logins and seen through |
| `two_tabs` | 2 tabs, 2 users, 2 grants, 3 tokens, 1 state, no link | 566 000 | a session's permissions were granted to its user |
| `audit_pages` | pages of 2, up to 5 entries, `MaxInt` 15 | 20 900 | the walk misses nothing; the right arrow shows entries |

Why the bounds are enough to be interesting. Three parties of one or two people in
front of capacities -1..5 give every order, ties in the clock, parties that fit
exactly, by one too few and not at all, and a small party behind a large one. Events
share no rows, so one is enough. Two requests are enough for the mutex, whose waiters are alike,
and for two writers of one session or two first logins. Two groups and four invite ids
let a link be refreshed, a group be deleted, and another group be created
afterwards. Capacities and readings vary in `event_service`; `respond_handler` fixes the capacity
since it is about the interleaving, and lets membership, deletion and editing vary.
The two requests of `onboarding` are two tabs of one browser, which is the worst case:
they share the session, and two identities may log in with it. `login_flow` is small
because it checks liveness with strong fairness for a dozen actions; the rest of what it
checks, and all safety properties of `onboarding`, are proved for any sizes.
Three connections are a writer that waits to commit, a reader in its way and one that
wants to write; the only capacities that `event_transactions` needs are one that fits
a party and one that does not. On the home page two past events compete for one
row, and three readings let an event begin between the lists. A tab needs a token to
hold and one to renew to, and two states so that a callback can bring an old one; a
third token lets two tabs and the cookie hold different ones. Pages of two with five entries have full pages and a last
one that is not; ints of 5 bits make `PageSize * (page - 1)` overflow to both signs, which
needs numbers near 2^59 at 64 bits.

Symmetry is used in the runs without liveness properties, over users, requests,
tabs, tokens, transactions and ids, none of which an action singles out.
`Pages` uses it over events as well. No cfg turns deadlock checking off.

Each property has a mutant beside the definition it mutates: the definition as a
plausible bug would have it (a dropped guard, `manageWaitlist` before the update,
`created_at` taken from the new answer, no mutex, a read outside of the transaction, a
redirect popped too early). TLC finds the property violated with the mutant in place.

## Fairness

`FairSpec` of RespondHandler: a request that holds the mutex eventually takes its next
step, with success or an error (weak fairness: the goroutine is runnable and
a transaction ends, at the latest after SQLite's busy timeout), and a request that
waits gets the mutex (strong fairness: Go's `sync.Mutex` switches to starvation mode and
hands itself to a waiter of more than 1 ms). Nothing else is assumed; requests may
fail at every step and the process may restart. One part is an assumption on the
client: the handler takes the mutex before it reads the form and the server sets no
timeouts, so it must send the form it began or drop the connection.

`FairSpec` of Onboarding: requests in progress end, a user who is logged in keeps
coming back (`requireAuth` redirects every page to the review page), and the page does
not fail every time it is asked for.

`FairSpec` of LoginFlow: a request that was sent ends, answered or lost (weak
fairness), and of what the user and the outside world try again and again, not every
attempt fails (strong fairness): going to the login, signing in at the provider, each
of the requests on the way, and the handlers' successful outcomes. It does not say that the
provider ever works at the first attempt, that the link works, or that the session
survives: when the session expires or a response that carried the redirect is lost,
`wanted` is given up, and the property asks for nothing.

`NoCircularWait` is liveness that needs no fairness: in every state with a transaction in
progress some transaction has a next statement that need not wait (`Ready`, whose disjuncts are
the guards of the statements that do not fail). That only who is `Ready` goes on, and then
has fewer statements left, and nobody else more, is proved (`StatementsRunOut`).

## What is proved

For any finite set of users, any events, any capacities and any clock readings:

* **EventServiceProofs**: the type invariant and all invariants and action properties of
  the `event_service` run. `IInv` is `TypeOK /\ WaitlistManaged`. `WaitlistManaged` is
  inductive together with the types because every action that changes a capacity or a
  row recomputes the column from scratch. The promises follow from it state by
  state (`ManagedPromises`): the running total is monotone in the order
  (`RunningTotalOrder`), which gives `NoOvertaking`; the latest confirmed response's
  running total is the total of all confirmed (`LatestResponse`), which gives
  `CapacityRespected`; and the running total of a waiting response splits into confirmed
  and waiting heads (`SumOfUnion`), which gives `NoIdleSpots`. `SpotsMoveForCause` compares two
  managed tables. `ImplementsQueue`: the confirmed of a managed table are `Promised`, so each
  method is a step of `RsvpQueue`.
* **EventTransactionsProofs**: for any number of connections `TxTypeOK`, `ReadsHold`,
  `MethodsAtomic`, `ClosedStaysClosed`, `NoCircularWait`, and that the transactions implement
  EventService (`TxImplementsEventService`), hence the queue (`TxKeepsQueue`) and the promises
  (`TxKeepsPromises`, `TxSpotsMoveForCause`, `TxPlacesKept`), which hold of the tables as any
  reader finds them. `TxInv` is two-phase locking: at most one
  transaction writes; one that has read holds SHARED or more and what it read still
  holds, since a commit needs everybody else's locks released; the draft is the committed rows with the
  method's own write, and after `Manage` with the waitlist managed; an answer's row is dated
  by a reading from `clock`, and another one had not passed the start. `Commit` is then
  one whole method of EventService (`Committed`, `CommittedNext`), and every other step
  a stutter (`OnlyCommits`). `ClosedStaysClosed` follows from the reading in `clock` by which the
  committed answer was not late, and from what edits leave alone (`EditsKeepHeads`, `DeletedIsFinal`).
  `NeverInACircle` follows from the same invariant: only a transaction that has not read
  waits to read or write, and only for the writer; the writer waits only to commit, for
  readers that are at their last statement or are refused when they want to write.
  `StatementsRunOut` adds the measure (`Left`, at most 5) by which methods in progress end,
  and that only who is `Ready` proceeds. `ReadsAlwaysHold` is
  also why Onboarding may say with `Outdate` that a transaction that has read does not write
  after another one's commit.
* **GroupServiceProofs**: the type invariant, `CreatorIsMember`, `RevocationIsFinal` and
  `DeletionIsFinal`. The invariant adds that the links of all groups were issued, so a
  fresh one is no dead one.
* **RespondHandlerProofs**: `AppTypeOK`; the promises of the event service
  (`AppKeepsPromises`, `AppKeepsResponses`, `AppKeepsQueue`) and of the group service
  (`AppKeepsGroups`) under interleaved handlers; `AuditAlwaysTellsTruth`, by an invariant that adds what the
  mutex gives (`Control`: only the holder is past `Lock`) and what a request that has
  answered knows (`AnsweredStored`); `OutsidersNeverAnswered`. Of the liveness
  property `EveryRequestReturns` it has the part that is safety: the mutex is held by exactly
  the request that is past `Lock` (`MutexNeverLost`), and each of a request's steps brings it
  nearer to its return, while no step but a restart moves another (`RequestsRunOut`).
* **PagesProofs**: `HomeMissesNothing` and `OutsidersSeeNothing` for any number of events and
  groups and any limit. `PageInv` adds `Decided`: once the upcoming events are listed, a
  steady event that is not among them is past, and stays so while the clock does not go back; and
  `Permitted`: what was listed or found accessible is in `allowed`.
* **OnboardingProofs**: all properties of the `onboarding` run but its liveness. `OneAccount` is not
  inductive: `IInv` adds `NotFoundHolds`, that a request about to create a user may still
  rely on having found none, which `Outdate` keeps true. `SessionsNotAhead` needs the same
  of the copies that requests carry (`CopiesNotAhead`), and both rest on `UsersKept`: a user
  stays, keeps the identity and never turns inactive. `InactiveAreListed` needs that
  nobody who is yet to be created has a review (`ReviewedExist`), since an upsert would
  keep its approval; that in turn needs `SessionsNotAhead`, since the comment form writes
  the review of the session's user. `KeepsAccounts` maps each step to one of `Accounts` or
  to none (`AccountsStep`): `Insert` joins (`NotFoundHolds`: the person had no account), an
  approval or a comment concerns the person's only row (`OneAccount`), and `Renew`, which
  writes a copy read earlier, lets nobody in who is not active (`CopiesNotAhead`). That
  approvals last user by user (`ApprovalIsFinal`) is proved, too, and needs no run beside it.
* **LoginFlowProofs**: `PermissionsAsGranted` for any number of tabs, tokens and users, and the
  group service's promises however late a link is followed (`FollowedLinksKeepGroups`). Its `IInv` says of every copy of a session, stored or carried by a
  request, that user and permissions were granted together, and of every tab that
  its query fits its page, so that a callback has a user and an invite a link. `LinkKept`
  is proved for every browser with one tab (`OneTabOnly`): `LinkInv` follows the link from
  the row of the session into the request's copy, into the row that the response names,
  and into the redirect; it needs that a session with a user holds no link (`NoBoth`).
* **AuditPagesProofs**: `TypeOK`, `WalkMissesNothing` and `RightShowsEntries` for any even
  page size, any `MaxInt` that holds two pages, and any log whose length is an int. `PagesInv`
  adds to the types that the right arrow was drawn for some earlier length of the log
  (`ArrowOK`: the page may be old), and `Ahead`: an entry that the walk has still to show is
  behind the page, and the arrow leads on. An insertion only moves entries towards the end
  (`Inserted`), and a step to the right shows exactly the entries up to its page's end
  (`AheadStep`). The arithmetic is in `WrapValue`, `LastPage` and `PageOffset`: the offset of a
  page between the first and the last does not overflow, and that of page 0 is not positive.

The proofs use only the assumptions on the constants named in the modules: users
are finite, readings are naturals, capacities and counts are integers, the limit of a list
is positive, a page of the log is even and an int holds two, a null value is no row.

Every invariant, action property and refinement that a passing run checks is proved. What is
proved of the group service is used where its tables occur by instantiating its proofs
(`SameGroupService`, `GroupPromises`).

Only model-checked: the liveness properties `EveryRequestReturns`, `ApprovedGetIn` and
`InviteSeenThrough` (they need fairness, for which the prover has no rules), and the two
violations. What needs `ENABLED`, that who is `Ready` can proceed, is outside of both: it is seen
by reading `Ready` beside the guards.

## Findings

* `removeMember` drops the error of `get` (`group/service.go:377`): the creator of a
  deleted group can be removed, against its own error message. Run `creator_removed`.
* `UpdateReview` drops the error of `updateReview` (`user/service.go:146`): the page says
  "Successfully updated your review!" for a comment that was refused. Run
  `review_reported`.

## Not modelled

* Names, locations, wording, HTML and logging, the forms and lists that show one read, rate
  limits and the panic handler: no state and no order of steps to get wrong.
* The template cache, migrations, configuration and commands: they run once, or store
  what never changes.
* The exchange with the identity provider and its tokens. GetExternalUser's result is
  modelled, an identity with its permissions or an error.
* A statement that fails inside a transaction without rolling it back:
  `CreateAndAddMember` drops the error of `addMember`, so `CreatorIsMember` holds only as
  long as that INSERT, made with the write lock held and no row to conflict with, does
  not fail.
* What last-writer-wins loses: two editors of one event, and what a late copy of a session
  brings back after a logout. The models have these behaviours; the code promises nothing
  about them.

## Plan

Done: the services and `respondEvent` with their proofs; onboarding; the statement-level
transactions, their atomicity and the abstract queue with its refinements; the promise of onboarding with its refinement; the invite link
and the session through the login; the read side with the home page and the audit log. What
can be proved of these is proved.

Left, in this order:

1. The locks of `EventTransactions` under `HandleFromExternal`, so that `Outdate` of
   Onboarding becomes a consequence, too.
2. One composition of LoginFlow and Onboarding: a session with status, permissions and
   redirect at once.
