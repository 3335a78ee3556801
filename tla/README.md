# A verification of the gym membership API

The repository is a NestJS service with which gyms (tenants) sell plans to
their members, open the door to them, collect money and manage branches and
staff. PostgreSQL (through Prisma) holds all of its business state, Redis the
login sessions and the rate-limit counters. This directory models the parts of
it that decide something: what a sold plan is worth at a given moment, who gets
through the door, what may be collected, and how a gym may be set up.

`PROJECT.json` maps every definition to the lines it models, and lists the
runs, the mutants that show each property can fail, the findings, the hazards
and the theorems.

```
tlc -config MCLifecycle.cfg MCSoldPlans     # any run: its cfg, its MC module
tlapm SoldPlansProofs.tla                   # any proof module
```

## 1. The system

### How the parts work together

Every request passes the rate-limit guard (a counter in Redis), the JWT guard
(which reads the staff row and compares its `sessionVersion` with the token's)
and the roles guard. Its handler calls a service, which validates, and a
repository, which opens one Prisma interactive transaction
(`database/prisma.service.ts`): READ COMMITTED, five seconds at most, the
tenant id set with `SET LOCAL` for the row-level-security policies. No read
takes a lock. A refusal throws, so the whole transaction rolls back; the one
exception is a visit refused at a wrong branch, which commits its inbox and
audit rows first and throws then. The audit interceptor adds its row after the
handler has returned. A timer in the same process settles all gyms once a
minute.

Three things make this hard:

- The clock is a writer. A sold plan changes state at dates, and it is the
  *settle pass* that notices: it runs first in every transaction that reads
  sold plans (lists, the door, the inbox settle the gym, a get one row) and in
  the sweep. Every operation therefore composes with settling.
- Handlers compute new values from rows read one or two statements earlier and
  write them back by id, with no lock and no second look.
- Rules that tie two tables or two fields together (role and branch, plan and
  branch list, switch and amount) are edited by partial bodies, and checked in
  earlier transactions than the write.

### The components

| Component | State | Operations | Hard behaviours | Correct when | Modelled in |
|---|---|---|---|---|---|
| Sold plans | `subscriptions`, `subscription_freezes` | create, renew, freeze, unfreeze, cancel, settle | settle inside each operation, two tables written one after the other, dates pushed and pulled back | the member gets exactly the paid time; one grace; cancel is final; the two tables agree | SoldPlanTerms, SoldPlans, SoldPlansTx, PaidTime, DeskViews |
| Expiry sweep | none of its own | settle every gym, each minute | overlaps itself and every request; errors are logged and dropped | nothing stays overdue; overlapping sweeps do no harm | SoldPlans, SoldPlansTx |
| Door | `check_ins`, `members.lastCheckedInAt`, packs, grace | check in on a chosen plan, or let the door pick | the order of refusals, the pick among plans, one refusal that commits | visits are paid for; grace is spent last; refusals are on record | SoldPlans, SoldPlansTx, FrontDesk |
| Notifications | `notifications` (unique by type and plan) | written by settle and the door; read marks | uniqueness instead of ordering | tells the same story as the tables | SoldPlans, SoldPlansTx, FrontDesk |
| Day passes | sale, payment and visit in one | POST /dayPasses | a second way to be sold, to pay and to enter | same rules as the desk and the door | SoldPlans, FrontDesk |
| Payments | `payments` | collect, void, receipt | what is due is recomputed from what is still collected; two desks at once | never more than the price, nothing on a cancelled plan | FrontDesk, Till, DeskViews |
| Members | `members` | create, patch (block, archive), lists | status gates sale and door; the last visit is a copy | blocked members neither buy nor enter; who stays away is who did not come | SoldPlans, FrontDesk, DeskViews |
| Plans | `plans`, `plan_branches` | create, patch, archive | scope is one flag and one list, edited apart; sold rows copy one and not the other | a plan is for some branch; a day pass is one visit | GymSetup, FrontDesk, SoldPlans |
| Tenants and settings | `tenants`, `tenant_settings` | create gym, patch settings, suspend | a switch and its amount are edited apart; policy changes under sold plans | what is on has its amount | GymSetup, SoldPlans, FrontDesk |
| Branches | `branches` | create, patch, archive, reopen | counts of other tables decide, in earlier transactions | one branch stays open; nobody is on the desk of a closed one | GymSetup, FrontDesk |
| Branch hours, gym days | `branches.hours`, `hoursExceptions` | is it open now; which gym day is it | overnight slots, exceptions, nights on which the clocks change | open in the published windows; a range of dates holds the moments of these dates | BranchHours |
| Staff | `staff` | hire, patch, archive | any subset of role, branch, status | desk staff have a branch, admins none | GymSetup |
| Sessions and tokens | Redis session keys and lists, `sessionVersion` | login, refresh, logout, log out everywhere, change password | Redis and PostgreSQL are written one after the other; refresh checks, revokes, signs in; Redis goes away | who was signed out everywhere needs the password again | Sessions |
| Role, platform, rate-limit guards | Redis counters | per request | fixed windows; open when Redis is down | a window ends when it should | Sessions (the counter) |
| Tenant isolation | PostgreSQL policies | `SET LOCAL` per transaction | pooled connections | no gym sees another | not modelled: SQL policies, models are of one gym |
| Dashboard, reports, receipts | none | aggregates, CSV, PDF | each figure is a query with conditions of its own | the figures add up and agree with the lists | DeskViews (figures and rows; not CSV and PDF) |
| Audit trail | `audit_events` | append | written after the commit | - | not modelled, except the blocked visits the door records (FrontDesk) |
| HTTP surface | none | parsing, errors, paging | - | - | not modelled: no protocol state |

## 2. The modules

```
SoldPlanTerms      pure: dates, freezes, grace, the settle pass on one row
  SoldPlans        the serial life of sold plans      --implements--> PaidTime
    FrontDesk      SoldPlans with branches, door pick, money
      Till         FrontDesk with payments statement by statement
      DeskViews    what the desk reads off it: lists, morning screen, exports
  SoldPlansTx      SoldPlans with its transactions statement by statement
                                           --sweeps and reads implement--> SoldPlans
GymSetup           branches, staff, plans, settings and the requests on them
Sessions           tokens, sessions in Redis, the guard, the attempt counter
BranchHours        gym days, ranges of dates, timetables
SoldPlansProofs, SoldPlansRecordsProofs, SoldPlansTxProofs, FrontDeskProofs,
GymSetupProofs, SessionsProofs, BranchHoursProofs                the theorems
Totals             lemmas: what a sum over a finite set is
MC*                small instances for TLC
```

**SoldPlanTerms** holds what is a function of its arguments: `SoldPlanEndsAt`,
`SellRow`, `AccessUntil`, the freeze arithmetic of `freeze.util.ts`
(`FreezeDaysUsedThisYear`, rounding up), `MayFreeze`, `MayRenew`, `IsDue`,
`SettleThaw` and `SettleRow` (what `settleSubscriptionState` does to one row),
and the clauses of `doorDenial` that look at one sold plan. Time is counted in
ticks with `Day` ticks to a day, so that part of a day exists. `AddDays` is
the millisecond arithmetic the code uses; daylight saving is not modelled.

**SoldPlans** has one action per committed request: `Create`, `Renew`,
`Freeze`, `Unfreeze`, `Cancel`, `Visit`, `WalkIn`, `Settle({s})` (a get),
`Sweep` (lists, the inbox, the timer), the patches of member, plan shelf and
settings, and `Tick`. Each includes the settle pass it starts with. A refused
request rolls back and is no step.

**PaidTime** is the promise with no table behind it: an amount of paid time
that runs down while a plan is running and stands still while it is paused.
SoldPlans implements it under the mapping `ModeOf` / `RemainingOf`, in which a
freeze that is past its end but not settled counts as running again.

**SoldPlansTx** takes the transactions apart: `Begin`, the statements of the
settle pass (`SelectOverdue`, `Thaw`, `SelectDue`, `Expire`), the handler's
`Read`, and its writes up to COMMIT, with the row locks of UPDATE and the
visibility of READ COMMITTED. `Rollback` covers refusals, the five-second
limit and deadlock victims. The clock may tick in the middle. `Renew`,
`WalkIn` and the patches are left to SoldPlans (a sale only inserts). A handler
reads the clock once, at its start (`at`), as the code does, and `TxTime` says
how far the clock may run on until a transaction that is still open is rolled
back. The module extends SoldPlans: the tables are the same variables, the checks
and the rows written are the same operators, and `tx` is what it adds, so that
`ImplementsSerial` is `Spec` of SoldPlans itself. Which requests may
overlap is a constant (`Overlapping`).

**FrontDesk** extends SoldPlans: each of its actions (`DeskNext`) is an action of
SoldPlans, or leaves the sold plans alone, and it adds
branches, plan scope and its copy on the sold row, payments and the payment
gate, the refusals that are on record, and `lastCheckedInAt`. `CheckInOn` is a
visit on a chosen plan, `CheckIn` lets the door pick (`Picks`, ties in any
order, because the query's order does not break them). Opening hours are a set
of ticks of the day; the timetable itself is BranchHours.

**DeskViews** adds no state and no step. Its definitions are the queries the
desk runs, as functions of the state of FrontDesk: `DeskListIds` and the five
lists, `CompletedUnrenewed` with its newest row of a member and a plan (the
order of sale is `soldOrder`), `InactiveFor`, the rows of the exports and the
figures of the morning screen (`Summary`). A view of sold plans settles first,
so `Row` is the settled row. What is shown of one row (`accessUntil`,
`inGrace`) is in SoldPlanTerms, beside what the door does with it.

**Till** replaces `Pay` and `Void` by their statements (`Ring`, `CountPaid`,
`Collect`; `LoadPayment`, `WriteVoid`) on several desks at once.

**GymSetup** makes each request a process (`Clients`): it begins by checking
what the service reads, may check again in the repository, and writes. Partial
bodies are functions with fewer fields (`Has`, `Patched`). Opening or reopening
a branch and creating a plan are single transactions and single steps.

**Sessions** makes each call a list of statements (`Flow`), one step for each
awaited Redis command or database statement, in the order of
`auth.service.ts` and `auth-session.service.ts`: a rotation is look, delete,
unlist, store, list; a logout of all devices reads the list, deletes, and
raises the version last; a change of password raises it first. `Opens` is the
JWT guard and `Refreshes` what `refreshTokens` asks besides. Around the calls,
staff rows are edited, the gym is suspended, sessions expire, the connection
to Redis is lost for good (`retryStrategy` gives up) and the process restarts.
Two history variables carry the claims: `epoch` counts how often a member of
staff was signed out everywhere, and each token remembers in which epoch its
password was checked (`proof`); `forgotten` holds the sessions that a finished
logout of all devices took off the list without having read them. The
fixed-window counter (`Hit`, `Tick`) is that of `INCR_WINDOW_LUA`.

**BranchHours** models `tenant-day.util.ts` and `branch-hours.util.ts` over a
line of instants and a zone whose offset changes once (`Zone`), an hour
forward at a midnight or back. `ZonedStartOfDay` is the code's guess and four
corrections, `IsBranchOpen` its minute-and-weekday test, `ParsesBranchHours`
and `ParsesExceptions` what an edit is refused for.

## 3. The runs

| Run | Instance | States | What it shows |
|---|---|---|---|
| `lifecycle` | 1 sold plan, a time plan and a pack of 1, `Day`=2, 8 ticks, 2 freezes, 2 visits, a 3-day freeze year | 402,051 | every order of the desk, the door and the settle pass on one plan: tables agree, dates in order, visits paid and accounted for, yearly cap, idempotent settle, cancel and grace final, paid time kept |
| `shop` | 2 sold plans, a pack and a walk-in, 2 policies, blocking, archiving, 3 ticks, fair sweep | 405,584 | staff change settings, members and the shelf: the inbox tells the truth, what is shown of a row is what the door does, nothing stays overdue |
| `tx_sweeps` | 2 sold plans, 2 connections, 2 days, sweeps and gets overlap, sales and the rest alone | 1,929,354 | overlapping sweeps and reads still implement SoldPlans |
| `tx_races` | 1 pack of two days, 2 connections, sweep, freeze (two days), unfreeze and visit overlap, one tick inside a transaction | 4,275,404 | what survives every interleaving: no pack below zero, no expiry without its notice, never stretched beyond the freezes granted, never cut short but for the time of a transaction, once for each freeze |
| `tx_cancel_undone` | a sweep beside a cancel | violation | finding 1 |
| `front_desk` | 1 member, 2 sold plans, 2 branches, a month and a walk-in, gate at 50 % of 3, 2 payments, 2 gym days | 634,298 | the door's pick, the gate, payments and voids, records of refusals |
| `morning` | 1 member who is archived and let in again, 2 sold plans, a pack of 1 and a walk-in, 2 payments, 3 gym days | 260,480 | collected and due add up to what was sold, on every day; who stays away did not come; follow-ups are kept |
| `till_race` | 2 desks, 1 sold plan | violation | finding 2 |
| `plan_widened` | as `front_desk`, 1 payment | violation | finding 3 |
| `gym_setup` | 1 client, 2 branches, 1 staff row, 1 plan, 1 switch, every kind of partial body | 45,453 | the rules of the setup under any sequence of partial edits |
| `sessions` | 1 member of staff, 2 session ids, 2 calls at once, version up to 1, 1 attempt in a window of 2 | 1,867,796 | old passwords are dead and fresh ones open, rotated sessions are gone, forgotten ones useless, windows end |
| `hours` | 3 zones (constant, an hour forward at midnight, an hour back), 3-day weeks of 8-unit days, every timetable and up to 2 exceptions, 4 days | 101,376 | open as posted, ranges are dates, nothing unreadable is stored |

**Why the bounds are enough.** `lifecycle`: two ticks a day give every
operation a middle of the day, so that rounding up matters; two freezes in a
three-day year reach the cap and its rolling end; eight ticks are longer than
the longest plan with both freezes and its grace. `shop`: two policies suffice
for "the policy changed in between", two sold plans for renewals and for
settling more than the row at hand. `tx_*`: the hazards are between a pair of
transactions, hence two connections; they are interchangeable (symmetry). Plans
and freezes of one day (of two in `tx_races`, so that a freeze granted in the
last tick of a plan outlasts it) let every date be reached within the ticks
explored. `front_desk`: two sold plans are what a pick needs, two
branches what a scope needs; a price of three and a gate of a half exercise
the rounding; freezes are left out (`MaxFreezes = 0`) since `lifecycle` has
them and the door only sees the status. `morning`: a renewal and a walk-in
need two sold plans, a split of the books at a day needs payments on two days;
one branch suffices, since no figure that is modelled is by branch, and so do
active and archived: blocking matters at the sale and at the door, in `shop`.
`gym_setup`: each rule ties two fields of one row, or a row to the branches,
and the bodies name every field alone and in the pairs that matter.
`sessions`: every hazard is between two calls of one member of staff, of which
one makes a session and the other revokes, hence two calls and two ids; one
rise of the version makes a token old. `hours`: a day of eight units has a
night that spans midnight, an opening before and a closing after the change of
the clocks; three days of the week give each day another yesterday and
tomorrow.

`CHECK_DEADLOCK FALSE` is set where the bounds stop the system (FrontDesk, Till,
DeskViews); elsewhere a settle pass that has nothing to do, or a request that is
refused after it began, keeps it alive.

**Fairness.** Only `WF_vars(Sweep)`, in `FairSpec`. `setInterval`
(`subscription-expiry.scheduler.ts:36`) starts a sweep every minute whatever
became of the last one, and a failed sweep is logged and tried again. No
request is fair: nobody has to use the app. That a sweep does end is assumed
(see the hazard on the five-second limit at `subscriptions.repository.ts:510`).

## 4. What is proved

All proofs are checked by TLAPS for every value of the constants that meets
the named assumptions (`TermsAssumption`, `DayPassAssumption`,
`SoldPlansAssumption`, `SoldPlansTxAssumption`, `FrontDeskAssumption`,
`GymSetupAssumption`, `SessionsAssumption`, `NoTokenIsNone`,
`ZonesAssumption`): any number of
members, plans, sold plans, branches, staff and overlapping calls, any policies
and terms, any length of day, no bound on time.

**Sold plans** (`SoldPlansProofs`). The inductive invariant is
`IInv == TypeOK /\ FrozenMatchesOpenFreeze /\ DatesInOrder`. None of the
three is inductive alone: that settling a freeze leaves paid time needs the
freeze to end before the plan (`DatesInOrder`), and the row to show the same
dates as the open freeze (`FrozenMatchesOpenFreeze`), and closing "the newest
open freeze" closes all of them only because the newest is the only one. Each
operation is a function of one row and its freezes, so the proof has a lemma per
function about one row (`SettleKeeps`, `FreezeKeeps`, `UnfreezeKeeps`,
`VisitKeeps`, ...) and a lemma per action that lifts it to the table.
`TypeCorrect`, `FreezesAgree` and `DatesStayInOrder` follow; `CancelIsFinal`
and `GraceIsOnce` are action properties proved from `IInv` and `StepShape`,
which says what a step can do to a plan it does not name.

**Paid time** (`SoldPlansProofs`). `PaidTimeKept == Spec => PaidTimeIsKept`:
under `IInv`, settling is a stutter of PaidTime, and each of the other actions is one
of its steps; the longest case is the tick, at which a frozen plan may resume
and a running one may end.

**Records** (`SoldPlansRecordsProofs`). What the tables tell of the past needs
`RInv`: `IInv`, the inbox, and for each row that no freeze is recorded as ended
in the future (`ClosedBy`), that the two grace dates are written at once and
only on a membership, that every visit fell in paid time and outside the
freezes, and that visits and sessions add up. The crux of `VisitsArePaidFor` is
that dates move after the visit: an early unfreeze pulls `endsAt` back, but not
before this instant (`UnfreezeRecord`), and closing a freeze shortens it
without uncovering a visit (`ClosingKeeps`). `YearlyCapKept` needs more: the
check of `freeze` compares a sum of days rounded up with the cap, while the
property counts the ticks a plan stood still in a year that ends elsewhere.
`YearInv` keeps, for each freeze, the sum it was granted on: all but the newest
freeze are closed and never change (`ClosingStays`), so that the sum stays what
it was; `CountsCover` says that the days counted cover the time a freeze ran, and
`SmallTogether` that ticks in the union of some freezes are no more than their
sum. The theorem assumes that the policies of a gym agree on the yearly cap, since
the property speaks of one.

**Sums** (`Totals`). `MapThenSumSet` is a recursive function, and the induction
theorems of the library cannot be used; instead, a claim about the sum over a
finite set is proved from a smallest subset that refutes it, which exists because
strict inclusion of finite sets is well-founded. So the sum splits over unions and
groups (`TotalOfUnion`, `TotalOfGroups`) whatever order it was taken in.

**Transactions** (`SoldPlansTxProofs`). `XInv` looks at every *version* of a
sold plan: the committed row, the row a transaction holds and has not committed, and the row
its handler read a while ago. Each of them is in its type, ends within the bounds of
the freezes committed by now, and is EXPIRED only if its notice is committed or will
be by the same COMMIT. It is this that lets `freeze` and `unfreeze` write back an end
computed from a row that is no longer there. Row locks are modelled, but
the proof does not use them: these three properties hold even if every
UPDATE went ahead without waiting.

**Sweeps in series** (`SoldPlansTxProofs`).
`SweepsAreSerial == ASSUME SweepsOverlap PROVE TxSpec => ImplementsSerial`: sweeps
and gets that overlap in any number, each within a tick, change the tables as
they would one after the other. `SweepsOverlap` is what `tx_sweeps` runs with:
only sweeps and gets overlap (finding 1 shows a cancel that must not), and no
transaction takes a tick (`TxTime = 0`). Two facts make it true. Settling is
idempotent, also on part of the gym (`SettledTwice`); and a sweep that overlaps
others commits what settling would have made of each row whatever the others have
committed since it read that row. The second is the invariant,
`SerInv == XInv /\ ShopKept /\ IInv /\ OthersAlone /\ AllOnTheirWay`. Its heart is
`RowOnItsWay`: for each row and each step of a transaction, what the statements
still to come will make of the row as the transaction sees it is `SettleRow` of
the row as it is committed (`ThawsNext`, `HasThawed`, `HasSelected`,
`HasSettled`). `OthersAlone` is there because only a settle pass may change a row under
another transaction's eyes, and `IInv` because a thaw by id is a settle pass only
if a plan has at most one open freeze. A begin, a select and a write that is not
yet visible stutter; a COMMIT is `Sweep`, `Settle`, `Freeze`, `Unfreeze`,
`Cancel` or `Visit`, whose guards the handler checked earlier (`HandlerKnows`)
and nobody has changed since. `SweepsKeepPromises` takes the theorems on SoldPlans over:
under the same hypotheses the paid time is kept, a cancel is final, visits are
paid for and accounted for, and the inbox tells the truth.

The hypotheses are needed. A sale may not overlap: a plan sold between the notices
of a sweep and its COMMIT is announced by the next sweep instead (TLC shows it
with a third sold plan). With a tick within a sweep, a row comes due after the
sweep has looked, and the COMMIT leaves it as it was.

**Front desk** (`FrontDeskProofs`). `DeskKeepsTheBooks == DeskSpec => Spec`
carries every theorem about SoldPlans over to the desk. `DInv` adds `RInv`, the
types, and what the tables of FrontDesk say of each other: payments are of sold
plans and never more than is due, inbox and audit trail name the same refusals, the
stamp on a member is the last of the visits on their plans. `NobodyEntersUnpaid`,
`GraceIsSpentLast` and `FollowUpIsKept` are action properties proved from it; that
`GraceIsSpentLast` holds rests on the order of `Picks`, which puts every plan that
is running before one in grace. `MorningBalances` splits all payments by the sold
plan they are for, by `TotalOfGroups`, and then by voided and by day.

**Setup** (`GymSetupProofs`). With one request at a time (`Serial`, an
assumption of these theorems) `SetupInv` is inductive: each rule together with
what the request under way has already checked about the row it will write
(`LeavesABranch`, `KeepsRoles`, `KeepsPlans`, `KeepsSettings`). The rules do not stand
without that second half, since a write does not look again. `TypesAreKept` needs no
`Serial`. The rules do need it: with two clients (`Clients` of two
elements in `MCSetup.cfg`) `OneBranchServes` fails in a few steps, because
`branches.service.ts:47` counts the active branches in a transaction that is
over when the archiving one begins.

**Sessions** (`SessionsProofs`). All six properties of the run `sessions`. The
properties speak of tokens, but a token is made at the end of a call from what
the call read at its start, so the inductive invariant `SessionsInv` is mostly
about calls under way (`Fine`): the version a call will sign is not ahead of
the row; it fits the proof, unless the next statement is the write of a new
password; the session being made is nobody else's and has no token yet; a
rotation that is past its delete has no old session left; what a logout of all
devices missed has tokens already. Every step `Grows` the tables (tokens do
not change, sessions do not come back, versions rise), which carries all of
this past the steps of other calls, the loss of Redis and a restart. `Shape`
says which statement follows which; it is proved once for each handler from
`Flow`, and holds of every tail. `VersionIsEpoch` ties the history variable to
the column. `raced` is what the invariant cannot exclude: see the fourth of
the further findings below.

**Hours** (`BranchHoursProofs`). `RangesAreDates` is about `ZonedStartOfDay`: a
guess and four corrections, each from the offset at the instant before. A
case split on where the change of the clocks falls shows that the corrections
end at the first instant of the day (`DayBegins`), also of a day without a midnight.
`ZonesAssumption` is what the proof needs of a zone: it is east of Greenwich by less
than a day, and its clocks change, forward or back, only at a midnight.
`OpenAsPosted` then is arithmetic on minutes of the day, for any length of the day
and the week.

**Only model-checked:** `OverdueIsSettled`; liveness under fairness and ENABLED
are beyond TLAPS. Of the transactions, the handlers that overlap each other
implement no serial history (section 5), so that for them the three
properties of `tx_races` are what is claimed and proved.

## 5. Findings

1. **A cancel can be undone** (`subscriptions.repository.ts:567`, `:650`): a
   sweep that selected its rows before a cancel committed writes ACTIVE or
   EXPIRED over CANCELLED. README.md:207 says it is not reversed by the sweep.
2. **Two desks overpay** (`payments.repository.ts:141`): what is due is read
   before the payment is inserted. README.md:195.
3. **Widening a plan locks its members out**
   (`plans.repository.ts:170`, `check-ins.repository.ts:552`): the list is
   emptied while what was sold before still looks in it. README.md:171.

The models show five more, which have no run of their own. Each is met by
giving a passing run's configuration the second actor it leaves out, or by the
invariant named:

- Two visits at once on one pack cost one session
  (`check-ins.repository.ts:252`): visits plus `sessionsRemaining` exceeds the
  pack as soon as the visits of `tx_races` overlap.
- Active desk staff at an archived branch (`staff.repository.ts:146`): making
  an archived row active names no branch, so none is looked up; in `gym_setup`
  a branch that is ARCHIVED may have a non-empty `DeskOf`. README.md:149.
- The last branch can go (`branches.service.ts:47`), see section 4.
- A change of password that checked the old one before the member of staff was
  signed out everywhere hands out tokens of the new version
  (`auth.service.ts:230`): the tokens that `OldProofsAreDead` excepts with
  `raced`.

- `unfreeze` reads the clock before it reads the plan
  (`subscriptions.repository.ts:220`): if a freeze is granted in between, what is
  taken off the end is measured from an instant before the freeze began, and the member
  loses up to the time of a transaction. `EndStaysInBounds` allows for it (`TxTime`);
  with `Term(s) <= sub[s].endsAt` in its place `tx_races` fails.

## 6. Not modelled

- **Finding or creating a member by phone, member codes, home branches**
  (`members.repository.ts`, `day-passes.repository.ts:177`): a request names
  its member. The retry on a taken code runs in a transaction PostgreSQL has
  aborted (hazard at `members.repository.ts:69`).
- **Tenant isolation**: row-level security lives in SQL migrations; every model
  is of one gym. So the sweep's one transaction for all gyms, and what five
  seconds allow, is not modelled either.
- **`readAt` of notifications, the audit trail**: written and shown, never read
  to decide. The audit rows of visits refused at a wrong branch are modelled,
  because they commit with a refusal.
- **Role checks and the platform key**: a table lookup per route.
- **CSV, PDF, paging, search, error bodies, cookies**: output and parsing.
- **Prices changing**: a sold plan keeps its price as a snapshot; `Price` is a
  constant of each plan. Plan renaming changes nothing that is modelled.

## 7. The plan

Done: the sold plans, their transactions, the front desk, the till, what the
desk reads, the setup, sessions and hours, with the theorems above. What would
add most next:

1. A reception: members found and created by phone from two desks at once.
2. `SweepsAreSerial` for transactions that take a tick or overlap sales, against
   a SoldPlans in which a sweep may leave out the rows that came due meanwhile.
