--------------------------- MODULE SoldPlanTerms ---------------------------
(***************************************************************************)
(* The terms a plan is sold under and the calendar arithmetic on one sold  *)
(* plan: when it ends, how long its grace lasts, how many freeze days a    *)
(* year has used, and what the settle pass does to one row.  Every         *)
(* operator here is a function of its arguments; the modules that keep     *)
(* state (SoldPlans, SoldPlansTx) share them.                              *)
(*                                                                         *)
(* Time is counted in ticks; Day is the number of ticks in a day, so a     *)
(* fraction of a day exists as soon as Day > 1.                            *)
(***************************************************************************)
EXTENDS Integers, Sequences, FiniteSetsExt

CONSTANTS
  Members,         \* the members of the gym
  Plans,           \* the plans of the gym
  Terms,           \* Terms[p]: what a sale of p copies onto the sold row
  Day,             \* ticks per day
  YearDays,        \* length of the rolling freeze year (365 in the code)
  EndingSoonDays,  \* SUBSCRIPTION_ENDING_SOON_DAYS (7 in the code)
  Null             \* the SQL null of a nullable column

(***************************************************************************)
(* sessions is the pack size, Null for a time plan.  The plan service      *)
(* refuses a term or a visit cap below one.                                *)
(***************************************************************************)
PlanTerms == [kind : {"MEMBERSHIP", "DAY_PASS"}, durationDays : Nat \ {0},
              sessions : (Nat \ {0}) \cup {Null}, maxVisitsPerDay : Nat \ {0}]

ASSUME TermsAssumption ==
  /\ Terms \in [Plans -> PlanTerms]
  /\ Day \in Nat \ {0}
  /\ YearDays \in Nat \ {0}
  /\ EndingSoonDays \in Nat
  /\ Null \notin Int /\ Null \notin Members

(* resolvePlanTerms gives every day pass its one visit. *)
ASSUME DayPassAssumption ==
  \A p \in Plans : Terms[p].kind = "DAY_PASS" => Terms[p].sessions = 1

Time     == Nat
Status   == {"UNSOLD", "ACTIVE", "FROZEN", "IN_GRACE", "EXPIRED", "CANCELLED"}
Episode  == [days : Nat \ {0}, startedAt : Time, endedAt : Time,
             unfrozenAt : Time \cup {Null}]
SoldPlan == [status : Status,
             member : Members \cup {Null}, plan : Plans \cup {Null},
             startsAt : Time, endsAt : Time,
             frozenAt : Time \cup {Null}, freezeEndsAt : Time \cup {Null},
             graceUsedAt : Time \cup {Null}, graceEndsAt : Time \cup {Null},
             sessionsRemaining : Nat \cup {Null}]
MemberStatus == {"ACTIVE", "BLOCKED", "ARCHIVED"}
Settings == [freezeEnabled : BOOLEAN, maxFreezeDays : Nat,
             maxFreezeDaysPerYear : Nat,
             graceEnabled : BOOLEAN, graceDays : Nat]

(* A slot of the subscriptions table that no sale has filled yet. *)
Unsold == [status |-> "UNSOLD", member |-> Null, plan |-> Null,
           startsAt |-> 0, endsAt |-> 0,
           frozenAt |-> Null, freezeEndsAt |-> Null, graceUsedAt |-> Null,
           graceEndsAt |-> Null, sessionsRemaining |-> Null]

-----------------------------------------------------------------------------
(* Calendar arithmetic *)

AddDays(t, days) == t + days * Day

GymDay(t) == t \div Day

GymMidnightAfter(t) == (GymDay(t) + 1) * Day

SoldPlanEndsAt(p, t) ==
  IF Terms[p].kind = "DAY_PASS" THEN GymMidnightAfter(t)
                                ELSE AddDays(t, Terms[p].durationDays)

SellRow(m, p, t) ==
  [Unsold EXCEPT !.status = "ACTIVE", !.member = m, !.plan = p,
                 !.startsAt = t, !.endsAt = SoldPlanEndsAt(p, t),
                 !.sessionsRemaining = Terms[p].sessions]

(* A walk-in that enters at once has its one visit written off at the sale. *)
WalkInRow(m, p, t, enters) ==
  [SellRow(m, p, t) EXCEPT !.sessionsRemaining = IF enters THEN 0 ELSE @]

IsDayPass(row) == Terms[row.plan].kind = "DAY_PASS"

GraceDays(cfg) == IF cfg.graceEnabled THEN cfg.graceDays ELSE 0

(* Mutation: the window is measured afresh and one day too long. *)
AccessUntilLate(row, cfg) == AddDays(row.endsAt, GraceDays(cfg) + 1)

(* The instant the door stops admitting an expired membership. *)
AccessUntil(row, cfg) ==
  IF row.graceEndsAt # Null THEN row.graceEndsAt
                            ELSE AddDays(row.endsAt, GraceDays(cfg))

IsEndingSoon(row, t) ==
  /\ row.status = "ACTIVE"
  /\ ~IsDayPass(row)
  /\ t <= row.endsAt
  /\ row.endsAt <= AddDays(t, EndingSoonDays)

-----------------------------------------------------------------------------
(* Freezes *)

IsOpen(f) == f.unfrozenAt = Null

EpisodeEnd(f) == IF IsOpen(f) THEN f.endedAt ELSE f.unfrozenAt

Least(a, b) == IF a <= b THEN a ELSE b

(* Mutation: part of a day is not counted. *)
ElapsedWholeDays(f) == (f.unfrozenAt - f.startedAt) \div Day

(* Whole days, rounded up, that a closed freeze lasted; never negative. *)
ElapsedDays(f) ==
  IF f.unfrozenAt <= f.startedAt
  THEN 0
  ELSE (f.unfrozenAt - f.startedAt + Day - 1) \div Day

(* The days the freeze uses of the yearly cap; an open one reserves all. *)
CountedDays(f) ==
  IF IsOpen(f) THEN f.days ELSE Least(f.days, ElapsedDays(f))

FreezeDaysUsedThisYear(fs, t) ==
  LET recent == {i \in DOMAIN fs : EpisodeEnd(fs[i]) > t - YearDays * Day}
  IN  MapThenSumSet(LAMBDA i : CountedDays(fs[i]), recent)

NewFreeze(t, days) ==
  [days |-> days, startedAt |-> t, endedAt |-> AddDays(t, days),
   unfrozenAt |-> Null]

(* Mutation: the end of the plan is not pushed. *)
FreezeRowKeepingEnd(row, t, days) ==
  [row EXCEPT !.status = "FROZEN", !.frozenAt = t,
              !.freezeEndsAt = AddDays(t, days)]

FreezeRow(row, t, days) ==
  [row EXCEPT !.status = "FROZEN", !.frozenAt = t,
              !.freezeEndsAt = AddDays(t, days),
              !.endsAt = AddDays(@, days)]

(* What is left of a running freeze goes back off endsAt. *)
UnusedFreeze(row, t) ==
  IF row.freezeEndsAt # Null /\ row.freezeEndsAt > t
  THEN row.freezeEndsAt - t ELSE 0

ThawRow(row) ==
  [row EXCEPT !.status = "ACTIVE", !.frozenAt = Null, !.freezeEndsAt = Null]

(* Mutation: the unused days are kept as well as given back. *)
UnfreezeRowKeepingEnd(row, t) == ThawRow(row)

UnfreezeRow(row, t) ==
  [ThawRow(row) EXCEPT !.endsAt = @ - UnusedFreeze(row, t)]

(* The newest open freeze is the one unfreeze closes. *)
IsNewestOpen(fs, i) ==
  /\ IsOpen(fs[i])
  /\ \A j \in DOMAIN fs : IsOpen(fs[j]) => j <= i

CloseNewest(fs, t) ==
  [i \in DOMAIN fs |->
     IF IsNewestOpen(fs, i) THEN [fs[i] EXCEPT !.unfrozenAt = t] ELSE fs[i]]

(* Mutation: cancel forgets the freeze table. *)
CloseNone(fs, t) == fs

CloseAll(fs, t) ==
  [i \in DOMAIN fs |->
     IF IsOpen(fs[i]) THEN [fs[i] EXCEPT !.unfrozenAt = t] ELSE fs[i]]

CancelRow(row) ==
  [row EXCEPT !.status = "CANCELLED", !.frozenAt = Null, !.freezeEndsAt = Null]

-----------------------------------------------------------------------------
(* The settle pass on one sold plan: overdue freezes first, then expiry.   *)

IsOverdue(f, t) == IsOpen(f) /\ f.endedAt <= t

SettleFreezes(row, fs, t) ==
  IF row.status = "CANCELLED"
  THEN fs
  ELSE [i \in DOMAIN fs |->
          IF IsOverdue(fs[i], t)
          THEN [fs[i] EXCEPT !.unfrozenAt = fs[i].endedAt] ELSE fs[i]]

SettleThaw(row, fs, t) ==
  IF row.status # "CANCELLED" /\ \E i \in DOMAIN fs : IsOverdue(fs[i], t)
  THEN ThawRow(row) ELSE row

IsDue(row, cfg, t) ==
  \/ row.status = "ACTIVE" /\ row.endsAt <= t
  \/ /\ row.status = "IN_GRACE"
     /\ row.graceEndsAt # Null
     /\ row.graceEndsAt <= t
  \/ /\ row.status = "IN_GRACE"
     /\ row.graceEndsAt = Null
     /\ row.endsAt <= t - GraceDays(cfg) * Day

(* Mutation: expiry runs before the overdue freezes are settled. *)
SettleRowExpiryFirst(row, fs, cfg, t) ==
  SettleThaw(IF IsDue(row, cfg, t) THEN [row EXCEPT !.status = "EXPIRED"]
                                   ELSE row, fs, t)

SettleRow(row, fs, cfg, t) ==
  LET thawed == SettleThaw(row, fs, t)
  IN  IF IsDue(thawed, cfg, t) THEN [thawed EXCEPT !.status = "EXPIRED"]
                               ELSE thawed

-----------------------------------------------------------------------------
(* What the desk and the door may do with a settled row *)

(* Mutation: only the already-frozen check is left. *)
MayFreezeUnlessFrozen(row, fs, cfg, t, days) ==
  /\ row.status \notin {"UNSOLD", "FROZEN"}
  /\ t < row.endsAt

(* row.status is what freeze() finds after its settle pass. *)
MayFreeze(row, fs, cfg, t, days) ==
  /\ row.status = "ACTIVE"
  /\ ~IsDayPass(row)
  /\ t < row.endsAt
  /\ cfg.freezeEnabled
  /\ cfg.maxFreezeDays > 0 => days <= cfg.maxFreezeDays
  /\ cfg.maxFreezeDaysPerYear > 0 =>
       FreezeDaysUsedThisYear(fs, t) + days <= cfg.maxFreezeDaysPerYear

MayRenew(row, t) ==
  /\ row.status \notin {"UNSOLD", "CANCELLED", "FROZEN"}
  /\ row.endsAt <= t

MayCancel(row) == row.status \in {"ACTIVE", "FROZEN", "IN_GRACE"}

(* Mutations: the door forgets the pack, or that grace was used. *)
DoorOpensForEmptyPack(row, cfg, t) ==
  /\ row.status \in {"ACTIVE", "IN_GRACE", "EXPIRED"}
  /\ row.status = "EXPIRED" => row.graceUsedAt = Null
  /\ row.status \in {"IN_GRACE", "EXPIRED"} =>
       ~IsDayPass(row) /\ t <= AccessUntil(row, cfg)

DoorOpensForUsedGrace(row, cfg, t) ==
  /\ row.status \in {"ACTIVE", "IN_GRACE", "EXPIRED"}
  /\ row.sessionsRemaining # Null => row.sessionsRemaining > 0
  /\ row.status \in {"IN_GRACE", "EXPIRED"} =>
       ~IsDayPass(row) /\ t <= AccessUntil(row, cfg)

(* The clauses of doorDenial that read the sold plan alone. *)
DoorOpensFor(row, cfg, t) ==
  /\ row.status \in {"ACTIVE", "IN_GRACE", "EXPIRED"}
  /\ row.sessionsRemaining # Null => row.sessionsRemaining > 0
  /\ row.status = "ACTIVE" => t <= row.endsAt
  /\ row.status = "EXPIRED" => row.graceUsedAt = Null
  /\ row.status \in {"IN_GRACE", "EXPIRED"} =>
       ~IsDayPass(row) /\ t <= AccessUntil(row, cfg)

OpensGrace(row) == row.status = "EXPIRED"

(* The writes of an admitted visit: open the grace window, use a session. *)
VisitRow(row, cfg, t) ==
  LET entered ==
        IF OpensGrace(row)
        THEN [row EXCEPT !.status = "IN_GRACE", !.graceUsedAt = t,
                         !.graceEndsAt = AddDays(row.endsAt, GraceDays(cfg))]
        ELSE row
  IN  IF row.sessionsRemaining = Null
      THEN entered
      ELSE [entered EXCEPT !.sessionsRemaining = @ - 1]

VisitsOn(vs, day) == {i \in DOMAIN vs : GymDay(vs[i]) = day}

(* Mutation: an off-by-one in the daily cap. *)
AtDailyLimit(row, vs, t) ==
  Cardinality(VisitsOn(vs, GymDay(t))) <= Terms[row.plan].maxVisitsPerDay

(* countVisitsToday against the sold plan's daily cap. *)
UnderDailyLimit(row, vs, t) ==
  Cardinality(VisitsOn(vs, GymDay(t))) < Terms[row.plan].maxVisitsPerDay

-----------------------------------------------------------------------------
(* What the desk is told of a settled row *)

IsUsedUp(row) == row.sessionsRemaining # Null /\ row.sessionsRemaining <= 0

IsFinished(row) == row.status = "EXPIRED" \/ IsUsedUp(row)

IsInProgress(row) ==
  row.status \in {"ACTIVE", "FROZEN", "IN_GRACE"} /\ ~IsUsedUp(row)

(* The accessUntil of a list comes from the settings as they are. *)
AccessUntilShown(row, cfg) ==
  IF IsDayPass(row) THEN row.endsAt ELSE AddDays(row.endsAt, GraceDays(cfg))

(* Mutation: grace that was used shows again. *)
InGraceAgain(row, cfg, t) ==
  \/ row.status = "IN_GRACE"
  \/ /\ row.status = "EXPIRED"
     /\ row.endsAt < t /\ t <= AccessUntilShown(row, cfg)

InGrace(row, cfg, t) ==
  \/ row.status = "IN_GRACE"
  \/ /\ row.status = "EXPIRED" /\ row.graceUsedAt = Null
     /\ row.endsAt < t /\ t <= AccessUntilShown(row, cfg)
=============================================================================
