----------------------------- MODULE SoldPlans -----------------------------
(***************************************************************************)
(* The life of the sold plans of one gym: selling, freezing, unfreezing,   *)
(* renewing and cancelling at the desk, the settle pass that every read    *)
(* and the one-minute sweep run, and the visit that may open grace at the  *)
(* door.  One action is one committed database transaction, as if they ran *)
(* one after the other; SoldPlansTx takes the transactions apart.          *)
(*                                                                         *)
(* A request that is refused throws, and its transaction rolls back with   *)
(* the settle pass it began with, so refusals change nothing and are not   *)
(* steps; the one refusal that commits, a visit no plan of the member      *)
(* admits, leaves what a Sweep leaves and a row of the blocked inbox.      *)
(* Branch scope, opening hours and the payment gate, which can only refuse *)
(* further visits, belong to module FrontDesk.                             *)
(***************************************************************************)
EXTENDS SoldPlanTerms

CONSTANTS
  Subs,            \* ids of the subscriptions table
  Policies,        \* the settings the gym may choose between
  FreezeRequests,  \* the days a desk asks to freeze for
  MemberStates,    \* the member statuses the desk uses (bound)
  Shelvable,       \* the plans the desk may archive (bound)
  MaxTime,         \* last tick explored (bound)
  MaxFreezes,      \* freezes per sold plan (bound)
  MaxVisits        \* visits per sold plan (bound)

ASSUME SoldPlansAssumption ==
  /\ Policies \subseteq Settings
  /\ Policies # {}
  /\ FreezeRequests \subseteq Nat \ {0}
  /\ MemberStates \subseteq MemberStatus
  /\ Shelvable \subseteq Plans
  /\ MaxTime \in Nat /\ MaxFreezes \in Nat /\ MaxVisits \in Nat

VARIABLES
  now,             \* the clock
  settings,        \* tenant_settings
  memberStatus,    \* members.status
  onSale,          \* the plans that are not archived
  sub,             \* subscriptions
  freezes,         \* subscription_freezes, in order of creation
  visits,          \* check_ins.checkedInAt per sold plan, in order
  inbox            \* notifications, unique by type and subscription

shop  == <<settings, memberStatus, onSale>>
vars  == <<now, settings, memberStatus, onSale, sub, freezes, visits, inbox>>

NoticeType ==
  {"SUBSCRIPTION_ENDING_SOON", "SUBSCRIPTION_EXPIRED", "SUBSCRIPTION_IN_GRACE"}

TypeOK ==
  /\ now \in Time
  /\ settings \in Policies
  /\ memberStatus \in [Members -> MemberStatus]
  /\ onSale \in SUBSET Plans
  /\ sub \in [Subs -> SoldPlan]
  /\ freezes \in [Subs -> Seq(Episode)]
  /\ visits \in [Subs -> Seq(Time)]
  /\ inbox \in SUBSET (NoticeType \X Subs)

Init ==
  /\ now = 0
  /\ settings \in Policies
  /\ memberStatus = [m \in Members |-> "ACTIVE"]
  /\ onSale = Plans
  /\ sub = [s \in Subs |-> Unsold]
  /\ freezes = [s \in Subs |-> <<>>]
  /\ visits = [s \in Subs |-> <<>>]
  /\ inbox = {}

-----------------------------------------------------------------------------
(* settleSubscriptionState over the rows of one transaction *)

Settled(s) == SettleRow(sub[s], freezes[s], settings, now)

SettledFreezes(s) == SettleFreezes(sub[s], freezes[s], now)

(* Mutation: the due rows are selected before the freezes are settled. *)
ExpiresBeforeThaw(scope) == {s \in scope : IsDue(sub[s], settings, now)}

ExpiresIn(scope) ==
  {s \in scope : IsDue(SettleThaw(sub[s], freezes[s], now), settings, now)}

SettleNotices(scope) ==
  {<<"SUBSCRIPTION_EXPIRED", s>> : s \in ExpiresIn(scope)}
    \cup {<<"SUBSCRIPTION_ENDING_SOON", s>> :
            s \in {r \in scope : IsEndingSoon(Settled(r), now)}}

SettledSubs(scope) ==
  [s \in Subs |-> IF s \in scope THEN Settled(s) ELSE sub[s]]

SettledEpisodes(scope) ==
  [s \in Subs |-> IF s \in scope THEN SettledFreezes(s) ELSE freezes[s]]

(* A list, the inbox, the door and the sweep settle the gym; a get, one row. *)
Settle(scope) ==
  /\ sub' = SettledSubs(scope)
  /\ freezes' = SettledEpisodes(scope)
  /\ inbox' = inbox \cup SettleNotices(scope)
  /\ UNCHANGED <<now, shop, visits>>

(* Mutation: the sweep looks at ACTIVE rows only. *)
SweepOfActive == Settle({s \in Subs : sub[s].status = "ACTIVE"})

Sweep == Settle(Subs)

-----------------------------------------------------------------------------
(* The desk *)

IsFresh(s) == sub[s].status = "UNSOLD"

MaySell(m, p) == memberStatus[m] = "ACTIVE" /\ p \in onSale

Create(s, m, p) ==
  /\ IsFresh(s)
  /\ MaySell(m, p)
  /\ sub' = [sub EXCEPT ![s] = SellRow(m, p, now)]
  /\ UNCHANGED <<now, shop, freezes, visits, inbox>>

(* Sells the same plan again, on a row of its own. *)
Renew(s, next) ==
  /\ IsFresh(next)
  /\ MayRenew(Settled(s), now)
  /\ MaySell(sub[s].member, sub[s].plan)
  /\ sub' = [SettledSubs({s}) EXCEPT
               ![next] = SellRow(sub[s].member, sub[s].plan, now)]
  /\ freezes' = SettledEpisodes({s})
  /\ inbox' = inbox \cup SettleNotices({s})
  /\ UNCHANGED <<now, shop, visits>>

Freeze(s, days) ==
  /\ Len(freezes[s]) < MaxFreezes
  /\ MayFreeze(Settled(s), SettledFreezes(s), settings, now, days)
  /\ sub' = [sub EXCEPT ![s] = FreezeRow(Settled(s), now, days)]
  /\ freezes' =
       [freezes EXCEPT ![s] = Append(SettledFreezes(s), NewFreeze(now, days))]
  /\ inbox' = inbox \cup SettleNotices({s})
  /\ UNCHANGED <<now, shop, visits>>

Unfreeze(s) ==
  /\ Settled(s).status = "FROZEN"
  /\ sub' = [sub EXCEPT ![s] = UnfreezeRow(Settled(s), now)]
  /\ freezes' = [freezes EXCEPT ![s] = CloseNewest(SettledFreezes(s), now)]
  /\ inbox' = inbox \cup SettleNotices({s})
  /\ UNCHANGED <<now, shop, visits>>

Cancel(s) ==
  /\ MayCancel(Settled(s))
  /\ sub' = [sub EXCEPT ![s] = CancelRow(Settled(s))]
  /\ freezes' = [freezes EXCEPT ![s] = CloseAll(SettledFreezes(s), now)]
  /\ inbox' = inbox \cup SettleNotices({s})
  /\ UNCHANGED <<now, shop, visits>>

(* The door settles the whole gym before it looks at the member's plans. *)
Visit(s) ==
  /\ Len(visits[s]) < MaxVisits
  /\ ~IsFresh(s)
  /\ memberStatus[sub[s].member] = "ACTIVE"
  /\ DoorOpensFor(Settled(s), settings, now)
  /\ UnderDailyLimit(Settled(s), visits[s], now)
  /\ sub' = [SettledSubs(Subs) EXCEPT ![s] = VisitRow(@, settings, now)]
  /\ freezes' = SettledEpisodes(Subs)
  /\ visits' = [visits EXCEPT ![s] = Append(@, now)]
  /\ inbox' = inbox \cup SettleNotices(Subs)
                    \cup {n \in {<<"SUBSCRIPTION_IN_GRACE", s>>} :
                            OpensGrace(Settled(s))}
  /\ UNCHANGED <<now, shop>>

(* POST /dayPasses: settle the gym, sell a walk-in, and let the member in. *)
WalkIn(s, m, p, enters) ==
  /\ IsFresh(s)
  /\ MaySell(m, p)
  /\ Terms[p].kind = "DAY_PASS"
  /\ sub' = [SettledSubs(Subs) EXCEPT ![s] = WalkInRow(m, p, now, enters)]
  /\ freezes' = SettledEpisodes(Subs)
  /\ visits' = [visits EXCEPT ![s] = IF enters THEN Append(@, now) ELSE @]
  /\ inbox' = inbox \cup SettleNotices(Subs)
  /\ UNCHANGED <<now, shop>>

(* PATCH on a member, a plan and the gym's settings. *)
PatchMember(m, status) ==
  /\ memberStatus' = [memberStatus EXCEPT ![m] = status]
  /\ UNCHANGED <<now, settings, onSale, sub, freezes, visits, inbox>>

PatchPlan(p) ==
  /\ onSale' = IF p \in onSale THEN onSale \ {p} ELSE onSale \cup {p}
  /\ UNCHANGED <<now, settings, memberStatus, sub, freezes, visits, inbox>>

PatchSettings(policy) ==
  /\ settings' = policy
  /\ UNCHANGED <<now, memberStatus, onSale, sub, freezes, visits, inbox>>

Tick ==
  /\ now < MaxTime
  /\ now' = now + 1
  /\ UNCHANGED <<shop, sub, freezes, visits, inbox>>

-----------------------------------------------------------------------------

Next ==
  \/ Tick
  \/ Sweep
  \/ \E s \in Subs :
       \/ Settle({s})
       \/ \E m \in Members, p \in Plans : Create(s, m, p)
       \/ \E m \in Members, p \in Plans, enters \in BOOLEAN :
            WalkIn(s, m, p, enters)
       \/ \E next \in Subs : Renew(s, next)
       \/ \E days \in FreezeRequests : Freeze(s, days)
       \/ Unfreeze(s)
       \/ Cancel(s)
       \/ Visit(s)
  \/ \E m \in Members, status \in MemberStates : PatchMember(m, status)
  \/ \E p \in Shelvable : PatchPlan(p)
  \/ \E policy \in Policies : PatchSettings(policy)

Spec == Init /\ [][Next]_vars

(* setInterval keeps starting sweeps whatever becomes of the last one. *)
FairSpec == Spec /\ WF_vars(Sweep)

-----------------------------------------------------------------------------
(* What must never go wrong *)

OpenIn(fs) == {i \in DOMAIN fs : IsOpen(fs[i])}

FreezeOnRecord(row, fs) ==
  IF row.status = "FROZEN"
  THEN /\ OpenIn(fs) = {Len(fs)}
       /\ row.frozenAt = fs[Len(fs)].startedAt
       /\ row.freezeEndsAt = fs[Len(fs)].endedAt
  ELSE /\ OpenIn(fs) = {}
       /\ row.frozenAt = Null /\ row.freezeEndsAt = Null

(* A sold plan is FROZEN exactly while one freeze of it is open: the newest, *)
(* which started and will end when the row says (freeze, unfreeze, cancel    *)
(* and the settle pass write the two tables one after the other).            *)
FrozenMatchesOpenFreeze ==
  \A s \in Subs : FreezeOnRecord(sub[s], freezes[s])

InOrder(row, t) ==
  /\ row.status # "UNSOLD" => row.member \in Members /\ row.plan \in Plans
  /\ row.status = "FROZEN" =>
       /\ row.frozenAt \in 0 .. t
       /\ row.freezeEndsAt \in Nat
       /\ row.freezeEndsAt < row.endsAt
  /\ row.status \in {"EXPIRED", "IN_GRACE"} => row.endsAt <= t
  /\ row.status = "IN_GRACE" => row.graceUsedAt # Null /\ row.graceEndsAt # Null
  /\ row.graceUsedAt # Null => row.status \in {"IN_GRACE", "EXPIRED", "CANCELLED"}

(* A freeze always ends before the plan it pauses, so unfreezing leaves paid *)
(* time; only a plan whose dates have ended is EXPIRED or IN_GRACE; and a    *)
(* plan that has opened its grace never runs or freezes again.               *)
DatesInOrder == \A s \in Subs : InOrder(sub[s], now)

(* Every visit falls inside the time the plan was paid for or its one grace  *)
(* window, and never inside a freeze (the door settles before it looks).     *)
VisitsArePaidFor ==
  \A s \in Subs : \A i \in DOMAIN visits[s] :
    LET v == visits[s][i]
    IN  /\ sub[s].startsAt <= v
        /\ v <= IF sub[s].graceUsedAt # Null /\ sub[s].graceUsedAt <= v
                THEN sub[s].graceEndsAt ELSE sub[s].endsAt
        /\ \A j \in DOMAIN freezes[s] :
             ~ (freezes[s][j].startedAt < v /\ v < EpisodeEnd(freezes[s][j]))

(* The sessions a pack has lost are the visits written against it, and no    *)
(* gym day has more visits of a plan than its cap.                           *)
VisitsAreAccounted ==
  \A s \in Subs : sub[s].status # "UNSOLD" =>
    /\ sub[s].sessionsRemaining # Null =>
         /\ sub[s].sessionsRemaining >= 0
         /\ sub[s].sessionsRemaining + Len(visits[s])
              = Terms[sub[s].plan].sessions
    /\ \A day \in 0 .. GymDay(now) :
         Cardinality(VisitsOn(visits[s], day))
           <= Terms[sub[s].plan].maxVisitsPerDay

(* In no rolling year has a plan stood frozen for longer than the yearly cap *)
(* (checked at the end of each freeze, under settings that do not change).   *)
PausedTicks(fs, from, to) ==
  {t \in from .. (to - 1) :
     \E i \in DOMAIN fs : fs[i].startedAt <= t /\ t < EpisodeEnd(fs[i])}

YearlyCapHolds ==
  settings.freezeEnabled /\ settings.maxFreezeDaysPerYear > 0 =>
    \A s \in Subs : \A i \in DOMAIN freezes[s] :
      LET end == EpisodeEnd(freezes[s][i])
      IN  Cardinality(PausedTicks(freezes[s], end - YearDays * Day, end))
            <= settings.maxFreezeDaysPerYear * Day

(* The inbox and the table tell one story: a plan that is EXPIRED was        *)
(* announced, one announced as expired never runs again, and grace is        *)
(* announced exactly when it was opened.                                     *)
InboxTellsTheTruth ==
  \A s \in Subs :
    /\ sub[s].status = "EXPIRED" => <<"SUBSCRIPTION_EXPIRED", s>> \in inbox
    /\ <<"SUBSCRIPTION_EXPIRED", s>> \in inbox =>
         sub[s].status \in {"EXPIRED", "IN_GRACE", "CANCELLED"}
    /\ <<"SUBSCRIPTION_IN_GRACE", s>> \in inbox <=> sub[s].graceUsedAt # Null

(* One settle pass leaves nothing for a second: what a read returns is what  *)
(* the next read at the same instant would return.                           *)
SettleIsIdempotent ==
  \A s \in Subs :
    /\ SettleRow(Settled(s), SettledFreezes(s), settings, now) = Settled(s)
    /\ SettleFreezes(Settled(s), SettledFreezes(s), now) = SettledFreezes(s)

(* What the lists show is what the door does: a plan it would open is in     *)
(* progress or shows its grace (but for the instant in which it ends), and   *)
(* one that shows grace would be let in as far as its dates go.  The lists   *)
(* compute this from the settings as they are, the door from the window it   *)
(* wrote down at the first visit.                                            *)
ShownAsAdmitted ==
  \A s \in Subs : sub[s].status # "UNSOLD" =>
    LET row   == Settled(s)
        shown == InGrace(row, settings, now)
    IN  /\ DoorOpensFor(row, settings, now) =>
             IsInProgress(row) \/ shown \/ now = row.endsAt
        /\ shown => DoorOpensFor([row EXCEPT !.sessionsRemaining = Null], settings, now)

(* There is no un-cancel: once CANCELLED, neither the row nor its freezes    *)
(* nor its visits change again, whatever the sweep, the desk or the door do. *)
CancelledIsFinal ==
  [][\A s \in Subs : sub[s].status = "CANCELLED" =>
       UNCHANGED <<sub[s], freezes[s], visits[s]>>]_vars

(* Grace opens once per sold plan: its window is fixed by the first visit    *)
(* and neither a later visit nor a change of settings moves it, and a plan   *)
(* whose grace has ended is not admitted again.                              *)
GraceOpensOnce ==
  [][\A s \in Subs : sub[s].graceUsedAt # Null =>
       /\ UNCHANGED <<sub[s].graceUsedAt, sub[s].graceEndsAt>>
       /\ sub[s].status = "EXPIRED" =>
            UNCHANGED <<sub[s].status, visits[s]>>]_vars

(* A plan past its end, or frozen past the end of its freeze, does not stay  *)
(* that way: the sweep comes round even if no staff member opens the app.    *)
NeedsSettling(s) ==
  \/ sub[s].status = "ACTIVE" /\ sub[s].endsAt <= now
  \/ sub[s].status = "FROZEN" /\ sub[s].freezeEndsAt <= now
  \/ sub[s].status = "IN_GRACE" /\ sub[s].graceEndsAt <= now

OverdueIsSettled ==
  \A s \in Subs : NeedsSettling(s) ~> ~NeedsSettling(s)

-----------------------------------------------------------------------------
(* The paid time that a table full of dates stands for *)

IsPaused(row, t) == row.status = "FROZEN" /\ t < row.freezeEndsAt

IsOver(row, t) == row.status \in {"EXPIRED", "IN_GRACE"} \/ row.endsAt <= t

ModeOf(row, t) ==
  IF row.status = "UNSOLD" THEN "unsold"
  ELSE IF row.status = "CANCELLED" THEN "cancelled"
  ELSE IF IsPaused(row, t) THEN "paused"
  ELSE IF IsOver(row, t) THEN "over"
  ELSE "running"

RemainingOf(row, t) ==
  CASE ModeOf(row, t) = "paused"  -> row.endsAt - row.freezeEndsAt
    [] ModeOf(row, t) = "running" -> row.endsAt - t
    [] OTHER                      -> 0

Promise == INSTANCE PaidTime WITH
  mode      <- [s \in Subs |-> ModeOf(sub[s], now)],
  remaining <- [s \in Subs |-> RemainingOf(sub[s], now)]

(* Freezing, unfreezing and settling move dates about, yet the member gets   *)
(* the paid time that was sold, tick for tick: it stands still during a      *)
(* freeze and nothing else stretches or cuts it.                             *)
PaidTimeIsKept == Promise!Spec
=============================================================================
