# A TLA+ model of the relationship-app backend

The backend (`src/app/api/`) is a FastAPI application over PostgreSQL. It pairs
two users into a relationship: one sends an invite to an address, the other
accepts it, either of them may end it, and either may delete the account. Around
that core there are push notifications, preferences and a background job that
announces the moments when both partners are awake.

One Python process serves all requests on one event loop. A handler runs
undisturbed until its next `await`, and there any other handler may go on. Each
request has a database session of its own (`core/database_connection.py`), the
database runs at READ COMMITTED, and the schema has few constraints. So what a
handler has read may be out of date when it writes. This is what the model is
about: which promises of the code survive that, which do not, and why.

## Inventory

Paths are below `src/app/api/`.

| Component | State | Operations | Must be right |
|---|---|---|---|
| Schema and sessions (`models.py`, `core/database_connection.py`, `db.py`) | rows of `users`, `relationships`, `relationship_members`, `invites`, `device_tokens`, `notification_opt_outs`; one session per request | SELECT, flush, commit, rollback; foreign keys, cascades, unique constraints, row locks | no row names a row that is gone |
| Invites (`routes/invites.py`, `services/relationship_invites_service.py`, `repositories/relationship_invite_repository.py`) | `invites` | POST, GET pending, PUT decline; `mark_expired`, `mark_accepted`, `mark_relationship_ended` for the others | one pending invite per sender and address, the rate limit, expiry when due and final, linked to the right couple |
| Relationships (`routes/relationships.py`, `services/relationships_service.py`, `repositories/relationship_repository.py`) | `relationships`, `relationship_members` | POST (accept), GET, PATCH, DELETE (leave) | two members who agreed, one relationship per couple, no invite ended without it, the partner hears of a new date |
| Accounts (`routes/users.py`, `routes/me.py`, `services/users_service.py`, `repositories/user_repository.py`, `auth/supabase_admin.py`) | `users`, the Supabase account | POST `/users`, PATCH and DELETE `/users/me` | Supabase first, the partner is freed, nothing but an orphaned row after a failure |
| Token authentication (`auth/utils.py`, `core/security.py`) | the JWKS cache and its age | `get_current_claims`, `get_current_user`, `fetch_jwks_with_retry` | only a valid token whose subject has a row; rotated keys known, retired ones forgotten within five minutes unless Supabase does not answer |
| Overlap calculation (`jobs/overlap_calc.py`) | none | `calculate_overlap` | minutes until an opening or a close, around midnight too |
| Overlap notifier (`main.py`, `jobs/overlap_notifier.py`) | `relationships.last_overlap_notified_at`, the task | a tick every 60 s | one push per window, across crashes |
| Push notifications (`routes/push_tokens.py`, `services/push_notifications_service.py`, `repositories/device_token_repository.py`, `utils/push_client.py`) | `device_tokens` | register, unregister, test, `send_to_user` with its deletion of dead tokens | a registration is not undone by the user's own other calls; nothing is left of who is gone |
| Notification preferences (`routes/notification_preferences.py`, `repositories/notification_preferences_repository.py`) | `notification_opt_outs` | GET, PATCH, one commit per key | who opted out before is not disturbed |
| Mailer (`utils/mailer.py`), configuration, CORS, Sentry, health check, migrations | none at run time | | |

How they interact: the routes build the services over one session
(`dependencies.py`); accepting and leaving call the invite repository within the
transaction of the relationship; deleting an account calls Supabase over HTTP,
then the relationship repository, then the user repository, each with a commit
of its own; PATCH `/relationships` and the notifier call the push client, and
it the token repository. All of them share the tables.

What is hard: a check and the write it guards are awaits apart (accept, invite,
register); a flushed UPDATE holds row locks across more awaits (leave); a
deletion in three steps, two of them transactions, that may stop after each
(erase); access tokens outlive their accounts; addresses are reused by new
accounts; loaded objects are stale when they are written, and the ORM then
writes only the columns it believes changed; clocks pass `expires_at` between a
check and its use; a push goes out several awaits after what it rests on was
read, and tokens are deleted by value after the answer; caches are served
stale when the service behind them is silent. `PROJECT.json` lists each as a hazard at its line.

## Modules

```
Database ---- Invites -----------------\
         \                              Backend ---- MCBackend             (TLC)
          Relationships --- Accounts --/   |   \---- BackendProofs         (TLAPS)
                                           |            |     \
                              Couples <----+            |      ConcurrencyProofs (TLAPS)
                                    \------------- CouplesProofs           (TLAPS)
                                                        \---- SerialProofs (TLAPS)

PushTokens ---- NotificationPrefs ---- Countdown ---- MCCountdown          (TLC)
                                            \-------- CountdownProofs      (TLAPS)

OverlapCalc ---- OverlapNotifier                                           (TLC)
     \                  \
      OverlapCalcProofs -- OverlapNotifierProofs                           (TLAPS)

JwksCache                                                                  (TLC)
     \-- JwksCacheProofs                                                   (TLAPS)
```

**Database**: the four tables of the pairing as variables, and `session`: for
every request in flight where its handler is and what it holds in local
variables. The rules common to all handlers are here: `Move`, `Reply` (response
or uncaught exception; nothing uncommitted survives), `Fail` (any statement or
the process may fail while a handler waits), `Locked` (rows updated and not
committed make other writers wait), `HoldsRelationship` and `HoldsUser` (so do the rows a
DELETE has taken while it waits to cascade), `StatusWrite` (the ORM leaves out a column
whose value it believes unchanged) and `UnlessExpired` (the expiry check of two
handlers).

**Invites**, **Relationships**, **Accounts**: one action for every stretch of a
handler that no other handler can observe in parts: a SELECT with the
comparisons after it, or the writes of one transaction and its commit. So
accepting an invite is `LoadInvite`, `LoadInviter`, `FindMyMember`,
`FindTheirMember`, `FindCommon`, `Pair`; leaving is `FindToLeave`, `EndInvites`,
`FindAgain`, `LockToLeave`, `Leave`; erasing is `LoadUser`, `DeleteAuthUser`, `FindErased`,
`LockToErase`, `EraseRelationship`, `LoadUser`, `LockUser`, `EraseUser`. `Pair` is one action although it is
four statements: they run in a savepoint of one transaction. `EndInvites` and
`Leave` are two although they are one transaction, because the UPDATE of the
first locks rows while the handler goes on reading. A DELETE is two steps, the
second with the commit: PostgreSQL takes the row and the members that go with it, and then its
cascade comes to the invites (ON DELETE SET NULL), which a leave may have updated and not committed.
Waiting for those it holds what it has taken. Accounts adds Supabase: an
account that was removed leaves a token that is good until it expires.

**Backend** is the composition: any request begins when its caller is signed in,
and the steps of all requests interleave. The properties are stated here. The
constant `Ops` says which operations clients call in an instance, `Registered`
who has a row at the start; both are the workload, no part of the code.

**Couples** is the abstract specification of the pairing: who was invited from where, which
relationships there are and who is in them, who has left for good. It has four steps (`Ask`, `Pair`,
`Part`, `Erase`) and no requests, tokens, statements or clocks. Backend instantiates it as
`Promise`: `invited` is the set of address pairs of all existing invites, whatever became of
them; `couple` holds the members of each relationship; `left` the users whose row is gone. That
Backend implements it says that the four awaits of an accept, the two transactions of an erasure
and the cascades add up to steps a client may rely on: two become a couple in one step, only upon
an invitation between their addresses and while both are there; nobody joins later; they part in
one step, except that one of them may erase the account. `Couples!Spec` does *not* promise one
relationship per couple or per user: the code does not keep that. `Couples!StrictSpec` promises more:
nobody becomes a couple with the present partner once more, and an account is only erased when it is
in no relationship. Handlers that run one at a time keep that (`CouplesStrictly`).

**PushTokens**, **NotificationPrefs**, **Countdown** model the notification routes over one
relationship, statement by statement as in Database. `owner` is `device_tokens` (a token has at
most one row), `optOuts` is `notification_opt_outs`, `date` and `live` are the relationship; `call`
is what each request in flight holds. Registering is `Lookup`, then `InsertToken` or `UpdateToken`:
the row found may be gone or somebody else's by then, and `Written` is the ORM that leaves out an
unchanged `user_id`. `send_to_user` is `ListTokens`, `Expo` (any answer, or none), `Prune` (by
value). A preference update goes through its keys, each with a commit of its own (`Enable`;
`FindOptOut`, `AddOptOut`). PATCH `/relationships` is `Find`, `Write`, `Refresh`, `FindPartner`,
`LoadOptOuts`, then the sending; the comparison in `Refresh` is between the copy loaded in `Find`
and the row as it is after the write, whoever wrote it. `EndRelationship` and `EraseMember` are the
two transactions of an erasure (the first also of a leave), with the cascades on tokens and
opt-outs; seen from here they are one step each, at any time. Three history variables serve the
properties: `unaware` (whom nobody has told of the last change of the date), `loud` (calls whose
partner had the notification on at some time since they began) and `rivalled` (registrations whose
token went to another user, or lost its row, between their SELECT and their write). A registration
in `rivalled` may end with the token at another user: the last one to write usually gets it, but not
where the ORM leaves `user_id` out. And a registration that is answered may be deleted by value soon
after, by the answer of Expo about the same token. Both are in the model, neither is excluded by a
property: the code promises nothing there.

**JwksCache** is `core/security.py`: `cache` and `age` are `_JWKS_CACHE` and the time since
`_JWKS_CACHE_TIME`; `Verify` is one token looked at with a cached, a fetched or a stale document;
the fetch is synchronous, so it is one step. Supabase publishes and retires keys (`Rotate`),
minutes pass, the process restarts.

**OverlapCalc** is the calculation of `jobs/overlap_calc.py`, and a clock: every
minute both local times advance and the calculation is asked again. So the
answers, which are about the future, are compared with the future.

**OverlapNotifier** adds the task of `main.py` to that clock: the loop that sleeps for a
minute (`asleep`, `due`), and the steps of one tick for one relationship, cut at its awaits:
`Select`, `LoadMembers`, `LoadOptOuts`, `Deliver` or `Lose` for each recipient, `Stamp`. The
relationship changes, minutes pass, ticks fail and the process restarts between any two of
them. `soon` is computed in `Select`, because `calculate_overlap` is called with the `now`
taken there, however late; the status is read there and not again, members and time zones
in `LoadMembers`. `Lose` is every way a push does not arrive, since the code swallows them all;
`Stamp` on a row that is gone is the ORM's StaleDataError, which ends the tick. Two history
variables, `told` and `looked`, remember for the properties what the code does not.
What a tick does for other relationships is time or a failure between its steps.

**BackendProofs**, **ConcurrencyProofs**, **SerialProofs**, **CouplesProofs**, **CountdownProofs**, **OverlapCalcProofs**,
**OverlapNotifierProofs**, **JwksCacheProofs**: the theorems.

### Data, abstracted

- A users row has an id whose subject and address are fixed beforehand (`SubOf`,
  `EmailOf`); the program never changes either. Several rows may share an
  address, one after the other: `RenewedSubOf` has a person who comes back, with
  a new subject or the old one.
- Row ids are never reused (`"absent"`, `"live"`, `"gone"`): sequences.
- The age of an invite is `recent` (within the hour of the rate limit), `older`
  or `lapsed` (past `expires_at`), in that order. Different invites age in any
  order: the model allows more than the clock does.
- `email` is lower-cased and stripped by `UsersService.add`, `invitee_email` is
  not: `Email` is a subset of `Address`.
- Names, types, times and mail texts are left out, as no modelled handler
  branches on them.
- Outcomes that end in the same state are one: 404, 409 and 500 are `Reply`.
- `_get_by_user_id` is two SELECTs, `FindMine` is one step. Between the two the
  relationship may vanish; then the handler ends with an error, which `Fail` does
  at that point as well.
- A transaction that PostgreSQL aborts to break a deadlock is a `Fail`. Waiting is not an action:
  a statement whose rows are taken is not enabled, and `WaitsFor` says who is in its way.
- A statement takes the invites it is about together, and a DELETE its row together with the
  members; what it had taken singly would be held a little earlier, against the same others.
- An accept waits before its first INSERT. It may really have inserted its rows when it comes to a
  locked invite, but those nobody else sees, and the only one to wait for the users rows they
  refer to is an erasure at its first statement, which holds nothing: no circle is lost.
- A push is addressed to the devices of a user; its wording is left out.
- A signing key is a key id; what else can be wrong with a token is one Boolean.

## Runs

Ids of requests, invites and relationships are interchangeable: the code compares
them for equality only, and the properties name none. With three people, each
with one account, the people are interchangeable as well (`PeopleToo`), and in
Countdown the members, tokens and dates. The liveness run uses no symmetry.

| Run | Instance | Shows |
|---|---|---|
| Pairing | 2 people, 2 requests, 3 invites (the third only before there is a relationship, `ThirdWhileSending`), 2 relationships, limit 1; invite, pending, accept, leave | In every interleaving: linked invites name the couple, members were invited, expiry is due, pending invites are unlinked, invites end with their relationship; two racing requests pass the rate limit by one at most and leave two pending twins at most. |
| Erasure | 2 people, one account erased (`OneErasure`) and perhaps registered anew, with a new Supabase account or the token of the old one, 2 requests, 1 invite, 1 relationship; invite, accept, erase, register | No dangling reference through the cascades and foreign keys; Supabase first; one row per address, also when two registrations found it free; the interleaved statements implement `Couples` (`CouplesAsPromised`). |
| Serial | 3 people, one of whom may erase the account (`OneErasure`), 1 request at a time, 2 invites, 2 relationships, limit 1; all but register | What the checks achieve undisturbed, whatever fails on the way: one relationship per couple, two members in each, one pending invite, the rate limit, expired is final, each relationship has its invite; the statements implement the strict `Couples`; `TypeOK`. |
| Answered | 2 people, one of whom may erase the account (`FirstErasure`), 2 requests, 1 invite, 1 relationship, `FairSpec`; invite, accept, leave, erase | Every request is answered: row locks, cascades and retries block nobody for ever, given that PostgreSQL breaks deadlocks; a deadlock is between a leave and a deletion. |
| OverlapNotifier | all schedules and local times of a 5-minute day, dedup window 4, notice 2, ticks of up to 2 minutes | Answers lie ahead, remaining minutes are exact but for windows of a whole day, nothing opens before it is said to, and it opens just then if neither falls asleep first; pushes of two ticks are a dedup window apart unless one failed, and no window opens that a tick should have announced. |
| Countdown | 2 members, 2 tokens, 3 dates, 2 requests; all notification routes, the end of the relationship, erasures | The partner is told of the last change of the date, unless the notification is off, there is no device or the push fails; who opted out before is left alone; nothing remains of an erased user; a registration leaves the token with its user, unless another user got it or its row was deleted between the SELECT and the write. |
| Jwks | 3 keys, a TTL of 3 minutes | A published key is unknown, or a retired one good, only within the TTL after its rotation or while Supabase does not answer. |

Runs that are expected to find a violation. Each one is a finding of
`PROJECT.json`, quoted there with the line that says otherwise.

| Run | Violated | In short |
|---|---|---|
| SecondRelationship | `OneRelationshipPerUser` | Accepting never asks whether either user has another relationship; afterwards `scalar_one_or_none` raises for that user everywhere. No concurrency needed. |
| DoubleAccept | `OneRelationshipPerCouple` | Two accepts of one invite at the same time. |
| EraseHalfway | `OnlyAnOrphanedRow` | A failure after the Supabase call leaves the relationship too, not only a row. |
| EraseDuringAccept | `NoHalfRelationship` | An accept between the two transactions of an erasure leaves the partner alone in a relationship. |
| OverlapMissed | `OpensWhenSaid` | "Upcoming in n minutes" is the later wake time, even if the other sleeps again by then. |

The properties of Serial are claimed for one request at a time and fail with two. For
`OneRelationshipPerCouple` and `NoHalfRelationship` that is a finding. `OnePendingInvite` fails
when two identical invites are checked before either is inserted, as the unique index does not
compare rows whose `relationship_id` is NULL. Two invites counted together pass the limit together
(how far either can go is `FewPendingTwins` and `RateLimitNearlyHolds`),
an accept that loaded an invite before it lapsed overwrites its expiry, and a second accept of an
invite takes the link of the first relationship.

### Bounds, and why they are enough

- *Two requests.* The hazards are races of one handler's check with another
  handler's write: two actors. The properties that must hold under concurrency are
  proved for any number, and those of one request at a time for any numbers of users and rows.
- *Two invites, two relationships.* Enough for a second of each to be confused with
  the first. Pairing has a third invite for what two requests can add to one that is there, and only
  for that (`ThirdWhileSending`): it is sent while there is no relationship and no request does anything
  but send; what follows is cut off. Where one suffices (Erasure, Answered) it keeps the space small. With every id used up,
  `AddInvite` and `Pair` fail as an insert may.
- *Three people* where a third matters (SecondRelationship, Serial); two and a
  returning one where the reuse of an address matters.
- *`OneErasure`*: at most one account is erased. A second erasure meets what an aborted or a
  finished first one left only through the tables, and the theorems have no such bound.
- *`FirstErasure`* (Answered): only the first of the two, who are alike, erases, and the token left
  over does not expire. An expired token ends no request; a handler never looks at it again. Declines and
  lookups, which wait for one row and hold none, are left to the other runs.
- *`RateLimitMax`* is 1 in Pairing and Serial so that the limit is reached, otherwise 5 and out of reach.
- *Five minutes a day* give every order of the two starts, the two ends and the two clocks; a
  dedup window of four leaves a day one minute longer, as 23 of 24 hours do; a notice of two
  is more than the next minute and less than the longest answer; ticks of two minutes
  (`MaxTick`) outlast the notice, so that windows open while they run. The theorems hold for 1440,
  1380, 10 and ticks of any length.
- *Two tokens* tell a device that is taken over from one that stays; *three dates* let a date be
  changed and changed back, or changed twice, between a load and a comparison; *two requests* are
  both members updating, or an update against a registration, a preference or another send.
- *Three keys* are one kept, one published and one retired; a *TTL of three* has ages before, at
  and after it. Ages are capped at the TTL, beyond which code and properties tell none apart.
- *`CHECK_DEADLOCK FALSE`* stands in the runs with erase: when every account is gone, nothing
  is left to do.

### Fairness

`FairSpec` asks strong fairness of `Handle(p)` for each request: a handler whose step is
possible again and again takes it. The event loop resumes every ready coroutine, so weak fairness
covers reads. A statement that waits for a row lock is enabled only while nobody
holds the lock, and may be disabled again by the next holder; PostgreSQL queues
the waiters for a row, so they are served in turn: strong fairness. Two requests that wait for
each other are not helped by that: a leave that has updated its invites (`EndInvites`) wants the
relationship, which an erasure by one of its members has taken and keeps until it gets the invites. PostgreSQL's detector aborts one of the two after `deadlock_timeout`, which is the weak
fairness of `BreakDeadlock`; without it the run finds both waiting for ever. The one aborted may
be the erasure, whose Supabase account is gone by then: a deletion stopped half-way without any
failure outside. That looking at pairs is enough for the detector is `DeadlocksArePairs`. No fairness is
assumed of clients, of time, of Supabase or of failures.

## Theorems

`BackendProofs` proves for every choice of the constants that satisfies
`DatabaseAssumption` (any numbers of users, rows and requests in flight):
`TypeOK`, `NoDanglingReference`, `LinkedInviteNamesTheCouple`, `MembersWereInvited`,
`AuthGoesFirst`, `OneRowPerAddress`, `ExpiredOnlyWhenDue`, `PendingIsUnlinked`, and the action property
`EndsWithItsRelationship`. The assumption asks that every id has a subject and
every subject an address, that the rows present at the start have different
addresses, and that NULL is no value.

None of these is inductive alone: a handler writes what it read several awaits ago, so
the invariant has to say what is still true of it. `IInv` is

- `TypeOK`;
- `TableInv`: the properties above, and that every row had an account and that the
  invite which brought a couple together exists;
- `SessionInv`: for every request, by where its handler is, `Sound`:
  - `SoundCaller`: the caller had a row, a registration a known subject, and an erasure
    past `DeleteAuthUser` a removed account;
  - `SoundInvite`: the invite it holds still exists, has lapsed if it is about to
    be marked so, and is no longer pending if it was not when it was loaded (this is what makes
    the ORM's omitted column harmless);
  - `SoundPair`: whoever it compared has the addresses the invite names;
  - `SoundRelationship`: the caller is still in the relationship it found, or one of the two is gone;
  - `SoundEnded`: the invites it has updated and not committed are still accepted,
    and still linked to the relationship it found;
- `OneWriterPerInvite`: row locks are exclusive.

The argument has two halves. A step of request `p` changes the tables only in
ways that keep everybody else sound (`Grows`: rows do not come back to life, invites keep
their addresses, no invite becomes pending or unexpired again, a locked row keeps its
values), which `WaitingStaysSound` turns into `Sound(session[q])'`; and `p` itself arrives
in a state that is sound (`Moves`). Steps that only read are then all alike
(`ReadsKeepInv`, `MoveReads`), so the lemmas for them only show `Sound` of the new
state. Each writing step has a lemma of its own. In `PairKeepsInv` the two addresses
differ because the two rows are different and live; in `FindMineReads` the second
lookup of a leave finds the first one's relationship, because the
uncommitted invites hold on to it.

`SerialProofs` proves the properties of the run Serial for any numbers of users and rows and any
limit, if `Request` has one element (`OneAtATime`). `SInv` is added to `IInv`:

- `InviteInv`: no two pending invites agree in sender and address, the recent pending ones of a user
  are finitely many and within the limit;
- `CoupleInv`: two members, one relationship per couple, and an existing invite linked to it;
- `Checked`: what a handler has checked is still so at every step up to its write: below the limit
  and no pending invite to that address before an insert, an invite to be answered not marked
  expired, no relationship in common before `Pair`, none left before `EraseUser`.

`FewerPending` and `CouplesStay` say which changes of the invites keep the first two parts; only
`AddInvite` and `Pair` need more. That `Pair` does not take the link of another relationship
(`PairIsSerial`) is the most involved: that one would have two live members with the two addresses
of the invite, and so be one the two have in common. With concurrency it is `Checked` that breaks,
which is what the violations show.

`OneAtATimeStrict` proves the strict `Couples` from the same invariant: `Checked` gives `Pair` that the two
share nothing and `EraseUser` that there is no relationship left.

`ConcurrencyProofs` is about what any number of requests can do to each other. Its first part is
about locks. `LockInv` adds to `IInv`

- `LinkInv`: `from` is the address of the inviter while there is one, the inviter of a linked invite is
  in the relationship, and no two invites are linked to one relationship;
- `OneHolder`, `OneHolderOfMembers`: a relationship, its members and a users row are taken by one request.

`DeadlocksArePairwise` follows from it. In a set of requests that all wait for one another somebody is
past the first step of a DELETE, as a chain through invites or users rows ends there
(`StuckCascade`: whoever holds an updated invite is a leave, which can only wait at `delete`, for somebody
who has taken the relationship or a member). That one waits for an invite, by `LinkInv` one of this
relationship, so that its holder is a leave from that very relationship and waits for it in turn
(`CascadeIsInAPair`).

The second part counts. `OnePendingInvite` and `RateLimitHolds` fail with concurrency; `RaceInv` says by how
much. An invite not yet inserted is already owed by a request that has passed a check: the
recent pending invites of a user and the requests counted and not yet answered together stay below the limit and
the number of requests, as the one that counted last saw fewer than the limit and itself is one of them;
likewise with the pending invites to one address and the requests about to insert one. From that,
`RateLimitIsNearlyKept` and `TwinsAreFew` for any finite number of requests, at least one, and any limit.

`CouplesAreFew` does the same for `OneRelationshipPerCouple`, which `DoubleAccept` shows violated: two users
share at most as many relationships as there are requests. A relationship made by one accept bars those that
look up memberships afterwards, but deleting it lets in all it barred; so `BarInv` speaks of every part
of what the two share, and counts with it the accepts on their way that this part does not bar. No run has this
invariant (three requests and three relationships take too long beside the rest of `Pairing`).

`CouplesProofs` proves `BackendImplementsCouples`, for any number of requests: `IInv` and a step of
Backend give a step of Couples or a stutter under the mapping of `Promise`. Steps that write map
to `Ask`, `Pair`, `Part` and `Erase`; marking an invite keeps its addresses (`SameInvitations`), and
deleting a relationship that is gone already changes nothing (`DeleteParts`).

`CountdownProofs` proves all properties of Countdown for any numbers of tokens, dates and requests
(two members, as `PushAssumption` says). `CountdownInv` adds to `CountdownTypeOK`

- `CallsKnow`: an update in progress has its partner and its date;
- `SomeoneOwes`: whoever is unaware of the present date is about to be told by a call that is past
  `Write` and has found, or will find, the date other than the one it loaded. This is why comparing
  with a stale copy never silences the last change: the call that made it loaded another value than
  it wrote, or the date has been changed since, by somebody who then owes the push;
- `FoundLoud`: a call that asks for the partner's devices has found the notification on since it
  began;
- `NothingLeft` and `NothingOfTheErased`: after the end nobody is owed a push; inserts of a token or
  an opt-out meet the foreign key, updates a row that was deleted.

`RegistrationsStick` has an invariant of its own beside that, `RegistrationInv`: a registration that
waits to write and is not `rivalled` finds the row as it saw it (`Stands`), or with its own user in it
by another of his calls, whatever the others have done since its SELECT.

`JwksCacheProofs` proves the three properties for any keys and any TTL, from two facts: where the
cached document differs from the published one, the key was rotated after the fetch
(`DiffersByRotation`), and an answer without a failure comes from a document younger than the TTL
(`VerdictIsFresh`).

`OverlapCalcProofs` proves the four properties of `OverlapCalc` that hold for a day of any length of at
least two minutes, from lemmas about one user: the range of the answer, what
becomes of it within a minute, and how the bedtime nears (`BedtimeNears`). Its `TypeOK` is the first
conjunct of `NotifierTypeOK`, and checked there. `OverlapsLastAsSaid` has the minutes remaining go down
one by one and the overlap close when the last is over, with one exception (`DayTurns`): a user whose
`wake_start` equals `wake_end`, which `schemas/user_schema.py` allows, is always awake, and the calculation
counts to the turn of that day, when the overlap goes on and the count begins anew. `OverlapsOpenAsSaid` is the
complement of the finding OverlapMissed: `minutes_until_open` is exact, minute by minute and around midnight, as
long as both bedtimes (`UntilAsleep`) lie beyond the opening.

`OverlapNotifierProofs` proves `NotifierTypeOK`, `PushesAreApart` and `NoWindowOverlooked` for
every day, dedup window, notice and `MaxTick`, if only the notice is shorter than the dedup
window (`NotifierAssumption`). The invariant `NotifierInv` adds to the types

- `ToldWithinStamp`: between ticks the last push is at least as old as the stamp, and
  a tick that has come to push has found the relationship unstamped, so that any earlier
  push lies a dedup window back;
- `SoonOrOut`: a tick past its `continue`s has found the window about to open;
- `LookStands`: once a tick has found the couple whole, unstamped and closed, and until a failure
  or a change spoils that, there is a stamp not older than the look, or that tick is still
  under way, or the window was further off than the notice and is still further off than what
  is left of it. The third case rests on `OpeningNearsByTheMinute`, which is
  `OpensNoSooner`: were the answer ever too large, a window would be passed over.

That an answer can be too small (OverlapMissed) costs a false announcement, and the stamp
then silences the couple's real window of that day: `NoWindowOverlooked` counts a
stamp as an announcement.

Only model-checked: liveness (`EveryRequestIsAnswered`), which is out of the prover's reach. What it
rests on is proved: a circle of waiters contains two that PostgreSQL finds (`DeadlocksArePairs`).

## Not modelled

Mails are sent once after the response and change nothing. The columns PATCH `/users/me` changes
(of them the notifier reads the time zone and the schedule) and the name and type columns are read
by no modelled handler; PATCH `/relationships` with a status or type notifies nobody and appears as
a change of the relationship in OverlapNotifier. GETs only read. In Countdown a relationship that
has ended does not begin anew: a PATCH spanning both would find the new row, and be an update of
that. A change of address at Supabase does not reach `users.email`, which the program writes once.
Changes of the UTC offset (DST) shift the local clocks of `OverlapCalc`, and PATCH `/users/me` the
schedules; both make a new calculation of what was one, and the properties of `OverlapCalc` and
`OverlapNotifier` are about what stays. Two instances of the process, as in a deployment that
overlaps with its predecessor, would each run a notifier; the model has one. The connection pool,
whose connections are held across HTTP calls, and the blocking fetch of the keys cost time and
produce no wrong state; the model does not measure time there. Migrations run before the program.
CORS, Sentry, the health check and configuration have no state the rest depends on.

## Order of work

Done: 1. Database, Invites, Relationships, Accounts, Backend with their runs; 2. the proof of the
concurrent safety properties; 3. OverlapCalc and its proofs; 4. OverlapNotifier and its proofs;
5. Couples, the refinement and its proof; 6. PushTokens, NotificationPrefs, Countdown and their
proofs; 7. JwksCache and its proofs; 8. the properties of one request at a time as theorems; 9. the rows a
DELETE takes, deadlocks and how far races go, with their proofs; the strict refinement; the exact opening.

Left, the most useful first: the recreation of a relationship within one PATCH; two processes with
a notifier each; a change of the schedules or of the UTC offset between two ticks.
