----------------------- MODULE SoldPlansRecordsProofs -----------------------
(* What the records of a gym say, for every gym, plan, policy and bound: the *)
(* visits against the dates that were paid for, the sessions and the daily   *)
(* cap; the inbox against the table; what is shown against what the door     *)
(* does; and the freezes of a year against the cap.                          *)
EXTENDS SoldPlansProofs, FiniteSetTheorems, Totals

-----------------------------------------------------------------------------
(* One row, its freezes and its visits: the parts of the inductive invariant *)

(* No freeze is recorded as ended in the future. *)
ClosedBy(fs, t) ==
  \A j \in DOMAIN fs : ~IsOpen(fs[j]) => fs[j].unfrozenAt <= t

NoneOverdue(fs, t) == \A j \in DOMAIN fs : ~IsOverdue(fs[j], t)

(* Grace is opened by a membership alone, and its two dates are written at   *)
(* once.                                                                     *)
GraceOnRecord(row, t) ==
  IF row.graceUsedAt = Null
  THEN row.graceEndsAt = Null
  ELSE row.graceEndsAt # Null /\ row.graceUsedAt <= t /\ ~IsDayPass(row)

LastInstant(row, v) ==
  IF row.graceUsedAt # Null /\ row.graceUsedAt <= v THEN row.graceEndsAt ELSE row.endsAt

OutsideFreezes(fs, v) ==
  \A j \in DOMAIN fs : ~ (fs[j].startedAt < v /\ v < EpisodeEnd(fs[j]))

PaidFor(row, fs, v) ==
  row.startsAt <= v /\ v <= LastInstant(row, v) /\ OutsideFreezes(fs, v)

VisitsPaid(row, fs, vs, t) ==
  \A i \in DOMAIN vs : vs[i] <= t /\ PaidFor(row, fs, vs[i])

UnderCap(row, vs) ==
  \A day \in Nat : Cardinality(VisitsOn(vs, day)) <= Terms[row.plan].maxVisitsPerDay

PackAdds(row, vs) ==
  row.sessionsRemaining # Null =>
    row.sessionsRemaining + Len(vs) = Terms[row.plan].sessions

Accounted(row, vs) ==
  IF row.status = "UNSOLD" THEN vs = <<>> ELSE UnderCap(row, vs) /\ PackAdds(row, vs)

RecordOK(row, fs, vs, t) ==
  /\ row.status = "UNSOLD" => fs = <<>>
  /\ row.startsAt <= t
  /\ ClosedBy(fs, t)
  /\ GraceOnRecord(row, t)
  /\ VisitsPaid(row, fs, vs, t)
  /\ Accounted(row, vs)

RecordsOK == \A s \in Subs : RecordOK(sub[s], freezes[s], visits[s], now)

-----------------------------------------------------------------------------
(* Settling one row *)

(* A settle pass leaves no freeze overdue, and a freeze ends when it ended   *)
(* before.                                                                   *)
LEMMA SettledEpisodesEnd ==
  ASSUME NEW row, NEW fs, NEW t \in Time, RowOK(row, fs, t)
  PROVE  /\ DOMAIN SettleFreezes(row, fs, t) = DOMAIN fs
         /\ NoneOverdue(SettleFreezes(row, fs, t), t)
         /\ \A j \in DOMAIN fs :
              /\ SettleFreezes(row, fs, t)[j].startedAt = fs[j].startedAt
              /\ EpisodeEnd(SettleFreezes(row, fs, t)[j]) = EpisodeEnd(fs[j])
              /\ SettleFreezes(row, fs, t)[j].unfrozenAt
                   \in {fs[j].unfrozenAt} \cup (0 .. t)
<1> DEFINE gs == SettleFreezes(row, fs, t)
<1> USE DEF RowOK
<1>0. Null \notin Int
  BY TermsAssumption
<1>1. /\ DOMAIN fs = 1 .. Len(fs)
      /\ \A j \in DOMAIN fs : fs[j] \in Episode /\ fs[j].endedAt \in Time
  BY FreezesAreEpisodes
<1>2. CASE row.status = "CANCELLED"
  <2>1. gs = fs
    BY <1>2 DEF SettleFreezes
  <2>2. \A j \in DOMAIN fs : ~IsOpen(fs[j])
    BY <1>2 DEF FreezeOnRecord, OpenIn
  <2> QED
    BY <2>1, <2>2 DEF NoneOverdue, IsOverdue
<1>3. CASE row.status # "CANCELLED"
  <2>1. gs = [j \in DOMAIN fs |->
                IF IsOverdue(fs[j], t)
                THEN [fs[j] EXCEPT !.unfrozenAt = fs[j].endedAt] ELSE fs[j]]
    BY <1>3 DEF SettleFreezes
  <2> HIDE DEF gs
  <2>2. ASSUME NEW j \in DOMAIN fs, IsOverdue(fs[j], t)
        PROVE  /\ gs[j].startedAt = fs[j].startedAt
               /\ gs[j].unfrozenAt = fs[j].endedAt
               /\ EpisodeEnd(gs[j]) = EpisodeEnd(fs[j])
               /\ ~IsOverdue(gs[j], t)
               /\ gs[j].unfrozenAt \in 0 .. t
    <3>1. gs[j] = [fs[j] EXCEPT !.unfrozenAt = fs[j].endedAt]
      BY <2>1, <2>2
    <3>2. /\ gs[j].startedAt = fs[j].startedAt
          /\ gs[j].unfrozenAt = fs[j].endedAt
          /\ fs[j].endedAt \in Nat /\ fs[j].endedAt <= t /\ fs[j].unfrozenAt = Null
      BY <1>1, <2>2, <3>1 DEF Episode, Time, IsOverdue, IsOpen
    <3> QED
      BY <1>0, <3>2 DEF EpisodeEnd, IsOpen, IsOverdue, Time
  <2>3. ASSUME NEW j \in DOMAIN fs, ~IsOverdue(fs[j], t)
        PROVE  gs[j] = fs[j]
    BY <2>1, <2>3
  <2>4. DOMAIN gs = DOMAIN fs
    BY <2>1
  <2>5. NoneOverdue(gs, t)
    BY <2>2, <2>3, <2>4 DEF NoneOverdue
  <2>6. \A j \in DOMAIN fs :
          /\ gs[j].startedAt = fs[j].startedAt
          /\ EpisodeEnd(gs[j]) = EpisodeEnd(fs[j])
          /\ gs[j].unfrozenAt \in {fs[j].unfrozenAt} \cup (0 .. t)
    BY <2>2, <2>3
  <2> QED
    BY <2>4, <2>5, <2>6 DEF gs
<1> QED
  BY <1>2, <1>3

LEMMA SettledThaws ==
  ASSUME NEW row, NEW fs, NEW t \in Time
  PROVE  SettleThaw(row, fs, t) \in {row, ThawRow(row)}
  BY DEF SettleThaw

(* What a settle pass leaves of a row. *)
LEMMA SettledFields ==
  ASSUME NEW row, NEW fs, NEW t \in Time, NEW cfg \in Settings, RowOK(row, fs, t)
  PROVE  /\ SettleRow(row, fs, cfg, t).plan = row.plan
         /\ SettleRow(row, fs, cfg, t).startsAt = row.startsAt
         /\ SettleRow(row, fs, cfg, t).endsAt = row.endsAt
         /\ SettleRow(row, fs, cfg, t).graceUsedAt = row.graceUsedAt
         /\ SettleRow(row, fs, cfg, t).graceEndsAt = row.graceEndsAt
         /\ SettleRow(row, fs, cfg, t).sessionsRemaining = row.sessionsRemaining
         /\ SettleRow(row, fs, cfg, t).status = "UNSOLD" <=> row.status = "UNSOLD"
<1>1. row \in SoldPlan
  BY DEF RowOK
<1>2. row.status \notin {"FROZEN"} => SettleThaw(row, fs, t) = row
  BY OnlyFrozenThaws
<1>3. SettleThaw(row, fs, t) \in {row, ThawRow(row)}
  BY SettledThaws
<1> DEFINE thawed == SettleThaw(row, fs, t)
<1>4. /\ thawed \in SoldPlan
      /\ thawed.plan = row.plan /\ thawed.startsAt = row.startsAt
      /\ thawed.endsAt = row.endsAt /\ thawed.graceUsedAt = row.graceUsedAt
      /\ thawed.graceEndsAt = row.graceEndsAt
      /\ thawed.sessionsRemaining = row.sessionsRemaining
      /\ thawed.status = "UNSOLD" <=> row.status = "UNSOLD"
  BY <1>1, <1>2, <1>3 DEF ThawRow, SoldPlan, Status
<1>5. SettleRow(row, fs, cfg, t)
        = IF IsDue(thawed, cfg, t) THEN [thawed EXCEPT !.status = "EXPIRED"] ELSE thawed
  BY DEF SettleRow
<1> HIDE DEF thawed
<1>6. IsDue(thawed, cfg, t) => thawed.status # "UNSOLD"
  BY DEF IsDue
<1> QED
  BY <1>4, <1>5, <1>6 DEF SoldPlan

(* One settle pass leaves nothing for a second. *)
LEMMA SettledTwice ==
  ASSUME NEW row, NEW fs, NEW t \in Time, NEW cfg \in Settings, RowOK(row, fs, t)
  PROVE  /\ SettleRow(SettleRow(row, fs, cfg, t), SettleFreezes(row, fs, t), cfg, t)
              = SettleRow(row, fs, cfg, t)
         /\ SettleFreezes(SettleRow(row, fs, cfg, t), SettleFreezes(row, fs, t), t)
              = SettleFreezes(row, fs, t)
         /\ ~IsDue(SettleRow(row, fs, cfg, t), cfg, t)
<1> DEFINE new == SettleRow(row, fs, cfg, t)
           gs  == SettleFreezes(row, fs, t)
<1>1. RowOK(new, gs, t) /\ NoneOverdue(gs, t)
  BY SettleKeeps, SettledEpisodesEnd
<1>2. ~IsDue(new, cfg, t)
  <2> DEFINE thawed == SettleThaw(row, fs, t)
  <2>1. new = IF IsDue(thawed, cfg, t) THEN [thawed EXCEPT !.status = "EXPIRED"]
                                       ELSE thawed
    BY DEF SettleRow
  <2>2. thawed \in SoldPlan
    <3>1. row \in SoldPlan /\ thawed \in {row, ThawRow(row)}
      BY SettledThaws DEF RowOK
    <3> QED
      BY <3>1 DEF ThawRow, SoldPlan, Status
  <2> HIDE DEF thawed, new
  <2>3. CASE IsDue(thawed, cfg, t)
    <3>1. new.status = "EXPIRED"
      BY <2>1, <2>2, <2>3 DEF SoldPlan
    <3> QED
      BY <3>1 DEF IsDue
  <2> QED
    BY <2>1, <2>3
<1> HIDE DEF new, gs
<1>3. SettleThaw(new, gs, t) = new
  BY <1>1 DEF NoneOverdue, SettleThaw
<1>4. SettleRow(new, gs, cfg, t) = new
  BY <1>2, <1>3 DEF SettleRow
<1>5. SettleFreezes(new, gs, t) = gs
  <2>1. gs \in Seq(Episode)
    BY <1>1 DEF RowOK
  <2>2. DOMAIN gs = 1 .. Len(gs) /\ gs = [j \in DOMAIN gs |-> gs[j]]
    BY <2>1, FreezesAreEpisodes, SeqDef
  <2> QED
    BY <1>1, <2>2 DEF NoneOverdue, SettleFreezes
<1> QED
  BY <1>2, <1>4, <1>5 DEF new, gs

-----------------------------------------------------------------------------
(* Sets of visits *)

LEMMA VisitsOnIsFinite ==
  ASSUME NEW vs \in Seq(Time), NEW day
  PROVE  /\ IsFiniteSet(VisitsOn(vs, day))
         /\ Cardinality(VisitsOn(vs, day)) \in Nat
<1>1. Len(vs) \in Nat /\ DOMAIN vs = 1 .. Len(vs)
  BY LenProperties
<1>2. IsFiniteSet(DOMAIN vs)
  BY <1>1, FS_Interval
<1>3. IsFiniteSet(VisitsOn(vs, day))
  BY <1>2, FS_Subset DEF VisitsOn
<1> QED
  BY <1>3, FS_CardinalityType

LEMMA AnotherVisit ==
  ASSUME NEW vs \in Seq(Time), NEW t \in Time
  PROVE  /\ Append(vs, t) \in Seq(Time)
         /\ Len(Append(vs, t)) = Len(vs) + 1
         /\ DOMAIN Append(vs, t) = (DOMAIN vs) \cup {Len(vs) + 1}
         /\ Append(vs, t)[Len(vs) + 1] = t
         /\ \A i \in DOMAIN vs : Append(vs, t)[i] = vs[i]
         /\ Len(vs) + 1 \notin DOMAIN vs
<1> DEFINE us == Append(vs, t)
<1>1. /\ us \in Seq(Time) /\ Len(us) = Len(vs) + 1
      /\ \A i \in 1 .. Len(vs) : us[i] = vs[i]
      /\ us[Len(vs) + 1] = t
  BY AppendProperties
<1>2. /\ Len(vs) \in Nat /\ DOMAIN vs = 1 .. Len(vs) /\ DOMAIN us = 1 .. Len(us)
  BY <1>1, LenProperties
<1> HIDE DEF us
<1> QED
  BY <1>1, <1>2 DEF us

(* A visit below the daily cap leaves no day above it. *)
LEMMA CapHolds ==
  ASSUME NEW row, NEW vs \in Seq(Time), NEW t \in Time, UnderCap(row, vs),
         Terms[row.plan].maxVisitsPerDay \in Nat, UnderDailyLimit(row, vs, t)
  PROVE  UnderCap(row, Append(vs, t))
<1> DEFINE us  == Append(vs, t)
           cap == Terms[row.plan].maxVisitsPerDay
<1>1. /\ DOMAIN us = (DOMAIN vs) \cup {Len(vs) + 1}
      /\ us[Len(vs) + 1] = t /\ \A i \in DOMAIN vs : us[i] = vs[i]
      /\ Len(vs) + 1 \notin DOMAIN vs
  BY AnotherVisit
<1> HIDE DEF us
<1> SUFFICES ASSUME NEW day \in Nat PROVE Cardinality(VisitsOn(us, day)) <= cap
  BY DEF UnderCap, us
<1>2. CASE day = GymDay(t)
  <2>1. VisitsOn(us, day) = VisitsOn(vs, day) \cup {Len(vs) + 1}
    BY <1>1, <1>2 DEF VisitsOn
  <2>2. Len(vs) + 1 \notin VisitsOn(vs, day)
    BY <1>1 DEF VisitsOn
  <2>3. Cardinality(VisitsOn(us, day)) = Cardinality(VisitsOn(vs, day)) + 1
    BY <2>1, <2>2, VisitsOnIsFinite, FS_AddElement
  <2>4. Cardinality(VisitsOn(vs, day)) < cap
    BY <1>2 DEF UnderDailyLimit
  <2> QED
    BY <2>3, <2>4, VisitsOnIsFinite
<1>3. CASE day # GymDay(t)
  <2>1. VisitsOn(us, day) = VisitsOn(vs, day)
    BY <1>1, <1>3 DEF VisitsOn
  <2> QED
    BY <2>1 DEF UnderCap
<1> QED
  BY <1>2, <1>3

LEMMA FirstVisits ==
  ASSUME NEW row, NEW t \in Time, row.plan \in Plans
  PROVE  UnderCap(row, <<>>) /\ UnderDailyLimit(row, <<>>, t)
<1>1. Terms[row.plan].maxVisitsPerDay \in Nat \ {0}
  BY TermsAssumption DEF PlanTerms
<1>2. \A day : VisitsOn(<<>>, day) = {}
  BY DEF VisitsOn
<1>3. \A day : Cardinality(VisitsOn(<<>>, day)) = 0
  BY <1>2, FS_EmptySet
<1> QED
  BY <1>1, <1>3 DEF UnderCap, UnderDailyLimit

-----------------------------------------------------------------------------
(* What each operation does to the records of its row *)

(* The records read six columns of a row and, of a freeze, when it ran. *)
SameTerms(row, new) ==
  /\ new.plan = row.plan /\ new.startsAt = row.startsAt
  /\ new.graceUsedAt = row.graceUsedAt /\ new.graceEndsAt = row.graceEndsAt
  /\ new.sessionsRemaining = row.sessionsRemaining
  /\ row.status # "UNSOLD" /\ new.status # "UNSOLD"

LEMMA SameGrace ==
  ASSUME NEW row, NEW new, NEW vs, NEW t, SameTerms(row, new)
  PROVE  /\ GraceOnRecord(row, t) => GraceOnRecord(new, t)
         /\ Accounted(row, vs) => Accounted(new, vs)
  BY DEF SameTerms, GraceOnRecord, IsDayPass, Accounted, UnderCap, PackAdds

LEMMA SettleRecord ==
  ASSUME NEW row, NEW fs, NEW vs, NEW t \in Time, NEW cfg \in Settings,
         RowOK(row, fs, t), RecordOK(row, fs, vs, t)
  PROVE  RecordOK(SettleRow(row, fs, cfg, t), SettleFreezes(row, fs, t), vs, t)
<1> DEFINE new == SettleRow(row, fs, cfg, t)
           gs  == SettleFreezes(row, fs, t)
<1>1. /\ new.plan = row.plan /\ new.startsAt = row.startsAt
      /\ new.endsAt = row.endsAt
      /\ new.graceUsedAt = row.graceUsedAt /\ new.graceEndsAt = row.graceEndsAt
      /\ new.sessionsRemaining = row.sessionsRemaining
      /\ new.status = "UNSOLD" <=> row.status = "UNSOLD"
  BY SettledFields
<1>2. /\ DOMAIN gs = DOMAIN fs
      /\ \A j \in DOMAIN fs :
           /\ gs[j].startedAt = fs[j].startedAt
           /\ EpisodeEnd(gs[j]) = EpisodeEnd(fs[j])
           /\ gs[j].unfrozenAt \in {fs[j].unfrozenAt} \cup (0 .. t)
  BY SettledEpisodesEnd
<1>3. row.status = "UNSOLD" => gs = fs
  BY OnlyFrozenThaws
<1> HIDE DEF new, gs
<1>4. ClosedBy(gs, t)
  BY <1>2 DEF RecordOK, ClosedBy, IsOpen
<1>5. VisitsPaid(new, gs, vs, t)
  BY <1>1, <1>2 DEF RecordOK, VisitsPaid, PaidFor, LastInstant, OutsideFreezes
<1>6. GraceOnRecord(new, t) /\ Accounted(new, vs)
  BY <1>1 DEF RecordOK, GraceOnRecord, IsDayPass, Accounted, UnderCap, PackAdds
<1> QED
  BY <1>1, <1>3, <1>4, <1>5, <1>6 DEF RecordOK, new, gs

(* A sale starts with no visit, no freeze and a full pack. *)
LEMMA SellRecord ==
  ASSUME NEW row, NEW fs, NEW vs, NEW t \in Time, NEW m \in Members, NEW p \in Plans,
         RecordOK(row, fs, vs, t), row.status = "UNSOLD"
  PROVE  RecordOK(SellRow(m, p, t), fs, vs, t) /\ fs = <<>> /\ vs = <<>>
<1> DEFINE new == SellRow(m, p, t)
<1>1. /\ new.plan = p /\ new.status = "ACTIVE" /\ new.graceUsedAt = Null
      /\ new.graceEndsAt = Null /\ new.sessionsRemaining = Terms[p].sessions
      /\ new.startsAt = t
  BY DEF SellRow, Unsold
<1>2. fs = <<>> /\ vs = <<>>
  BY DEF RecordOK, Accounted
<1> HIDE DEF new
<1>3. Terms[p].sessions \in Nat \cup {Null}
  BY TermsAssumption DEF PlanTerms
<1>4. Accounted(new, <<>>)
  <2>1. UnderCap(new, <<>>)
    BY <1>1, FirstVisits
  <2>2. PackAdds(new, <<>>)
    BY <1>1, <1>3 DEF PackAdds
  <2> QED
    BY <1>1, <2>1, <2>2 DEF Accounted
<1>5. VisitsPaid(new, <<>>, <<>>, t) /\ ClosedBy(<<>>, t)
  BY DEF VisitsPaid, ClosedBy
<1>6. GraceOnRecord(new, t)
  BY <1>1 DEF GraceOnRecord
<1> QED
  BY <1>1, <1>2, <1>4, <1>5, <1>6 DEF RecordOK, Time, new

(* A walk-in that enters has used its one session on its one visit. *)
LEMMA WalkInRecord ==
  ASSUME NEW row, NEW fs, NEW vs, NEW t \in Time, NEW m \in Members, NEW p \in Plans,
         NEW enters \in BOOLEAN,
         RecordOK(row, fs, vs, t), row.status = "UNSOLD", Terms[p].kind = "DAY_PASS"
  PROVE  RecordOK(WalkInRow(m, p, t, enters), fs,
                  IF enters THEN Append(vs, t) ELSE vs, t)
<1>1. fs = <<>> /\ vs = <<>> /\ RecordOK(SellRow(m, p, t), fs, vs, t)
  BY SellRecord
<1> DEFINE sold == SellRow(m, p, t)
           new  == WalkInRow(m, p, t, enters)
<1>2. /\ sold \in SoldPlan /\ sold.plan = p /\ sold.status = "ACTIVE"
      /\ sold.graceUsedAt = Null /\ sold.graceEndsAt = Null /\ sold.startsAt = t
      /\ sold.endsAt = SoldPlanEndsAt(p, t)
  BY SellRowType DEF SellRow, Unsold
<1>3. new = [sold EXCEPT !.sessionsRemaining = IF enters THEN 0 ELSE @]
  BY DEF WalkInRow
<1> HIDE DEF sold, new
<1>4. CASE ~enters
  <2>1. new = sold
    BY <1>2, <1>3, <1>4 DEF SoldPlan
  <2> QED
    BY <1>1, <1>4, <2>1 DEF new, sold
<1>5. CASE enters
  <2> DEFINE us == Append(<<>>, t)
  <2>1. /\ new.plan = p /\ new.status = "ACTIVE" /\ new.graceUsedAt = Null
        /\ new.graceEndsAt = Null /\ new.startsAt = t
        /\ new.endsAt = SoldPlanEndsAt(p, t) /\ new.sessionsRemaining = 0
    BY <1>2, <1>3, <1>5 DEF SoldPlan
  <2>2. us \in Seq(Time) /\ Len(us) = 1 /\ DOMAIN us = {1} /\ us[1] = t
    OBVIOUS
  <2>3. Terms[p].sessions = 1 /\ Terms[p].maxVisitsPerDay \in Nat
    BY DayPassAssumption, TermsAssumption DEF PlanTerms
  <2>4. UnderCap(new, us)
    <3>1. UnderCap(new, <<>>) /\ UnderDailyLimit(new, <<>>, t)
      BY <2>1, FirstVisits
    <3>2. <<>> \in Seq(Time)
      OBVIOUS
    <3> QED
      BY <2>1, <2>3, <3>1, <3>2, CapHolds
  <2> HIDE DEF us
  <2>5. Accounted(new, us)
    BY <2>1, <2>2, <2>3, <2>4 DEF Accounted, PackAdds
  <2>6. t < SoldPlanEndsAt(p, t) /\ SoldPlanEndsAt(p, t) \in Time
    BY SaleEndsLater
  <2>7. VisitsPaid(new, <<>>, us, t)
    BY <2>1, <2>2, <2>6 DEF VisitsPaid, PaidFor, LastInstant, OutsideFreezes, Time
  <2>8. GraceOnRecord(new, t) /\ ClosedBy(<<>>, t)
    BY <2>1 DEF GraceOnRecord, ClosedBy
  <2>9. RecordOK(new, <<>>, us, t)
    BY <2>1, <2>5, <2>7, <2>8 DEF RecordOK, Time
  <2> QED
    BY <1>1, <1>5, <2>9 DEF new, us
<1> QED
  BY <1>4, <1>5

(* A freeze starts after every visit and moves the end away from them. *)
LEMMA FreezeRecord ==
  ASSUME NEW row, NEW fs, NEW vs, NEW t \in Time, NEW days \in Nat \ {0},
         RowOK(row, fs, t), RecordOK(row, fs, vs, t), vs \in Seq(Time),
         row.status = "ACTIVE"
  PROVE  RecordOK(FreezeRow(row, t, days), Append(fs, NewFreeze(t, days)), vs, t)
<1> DEFINE new == FreezeRow(row, t, days)
           f   == NewFreeze(t, days)
           gs  == Append(fs, f)
<1>1. row \in SoldPlan /\ fs \in Seq(Episode)
  BY DEF RowOK
<1>2. SameTerms(row, new) /\ new.endsAt = AddDays(row.endsAt, days)
  BY <1>1 DEF FreezeRow, SameTerms, SoldPlan
<1>3. AddDays(row.endsAt, days) \in Time /\ row.endsAt <= AddDays(row.endsAt, days)
      /\ AddDays(t, days) \in Time
  BY <1>1, DaysAreTicks DEF SoldPlan
<1>4. f \in Episode /\ f.startedAt = t /\ IsOpen(f)
  BY <1>3 DEF NewFreeze, Episode, IsOpen
<1>5. /\ DOMAIN gs = (DOMAIN fs) \cup {Len(fs) + 1}
      /\ gs[Len(fs) + 1] = f /\ \A j \in DOMAIN fs : gs[j] = fs[j]
  <2>1. /\ gs \in Seq(Episode) /\ Len(gs) = Len(fs) + 1
        /\ \A j \in 1 .. Len(fs) : gs[j] = fs[j]
        /\ gs[Len(fs) + 1] = f
    BY <1>1, <1>4, AppendProperties
  <2>2. /\ Len(fs) \in Nat /\ DOMAIN fs = 1 .. Len(fs) /\ DOMAIN gs = 1 .. Len(gs)
    BY <1>1, <2>1, LenProperties
  <2> HIDE DEF gs
  <2> QED
    BY <2>1, <2>2
<1> HIDE DEF new, f, gs
<1>6. ClosedBy(gs, t)
  BY <1>4, <1>5 DEF RecordOK, ClosedBy
<1>7. \A i \in DOMAIN vs : vs[i] \in Time
  BY ElementOfSeq, LenProperties
<1>8. VisitsPaid(new, gs, vs, t)
  <2> SUFFICES ASSUME NEW i \in DOMAIN vs
               PROVE  vs[i] <= t /\ PaidFor(new, gs, vs[i])
    BY DEF VisitsPaid
  <2>1. vs[i] <= t /\ PaidFor(row, fs, vs[i]) /\ vs[i] \in Time
    BY <1>7 DEF RecordOK, VisitsPaid
  <2>2. OutsideFreezes(gs, vs[i])
    BY <1>4, <1>5, <2>1 DEF PaidFor, OutsideFreezes, Time
  <2>3. vs[i] <= LastInstant(new, vs[i])
    BY <1>1, <1>2, <1>3, <2>1 DEF PaidFor, LastInstant, SameTerms, SoldPlan, Time
  <2> QED
    BY <1>2, <2>1, <2>2, <2>3 DEF PaidFor, SameTerms
<1>9. GraceOnRecord(new, t) /\ Accounted(new, vs)
  BY <1>2, SameGrace DEF RecordOK
<1> QED
  BY <1>2, <1>6, <1>8, <1>9 DEF RecordOK, SameTerms, new, gs, f

(* Closing a freeze that is still running ends it at this instant, later     *)
(* than every visit.                                                         *)
ClosedNow(fs, gs, t) ==
  /\ DOMAIN gs = DOMAIN fs
  /\ \A j \in DOMAIN fs :
       \/ gs[j] = fs[j]
       \/ IsOpen(fs[j]) /\ gs[j] = [fs[j] EXCEPT !.unfrozenAt = t]

LEMMA ClosingKeeps ==
  ASSUME NEW fs \in Seq(Episode), NEW gs, NEW t \in Time,
         NoneOverdue(fs, t), ClosedBy(fs, t), ClosedNow(fs, gs, t)
  PROVE  /\ ClosedBy(gs, t)
         /\ \A v \in Time : v <= t /\ OutsideFreezes(fs, v) => OutsideFreezes(gs, v)
<1>0. Null \notin Int
  BY TermsAssumption
<1>1. \A j \in DOMAIN fs : fs[j] \in Episode /\ fs[j].endedAt \in Time
  BY FreezesAreEpisodes
<1>2. ASSUME NEW j \in DOMAIN fs, gs[j] # fs[j]
      PROVE  /\ gs[j].startedAt = fs[j].startedAt /\ gs[j].unfrozenAt = t
             /\ EpisodeEnd(gs[j]) = t /\ t < EpisodeEnd(fs[j])
             /\ EpisodeEnd(fs[j]) \in Time
  <2>1. IsOpen(fs[j]) /\ gs[j] = [fs[j] EXCEPT !.unfrozenAt = t]
    BY <1>2 DEF ClosedNow
  <2>2. gs[j].startedAt = fs[j].startedAt /\ gs[j].unfrozenAt = t
    BY <1>1, <2>1 DEF Episode
  <2>3. t < fs[j].endedAt
    BY <1>1, <2>1 DEF NoneOverdue, IsOverdue, Time
  <2> QED
    BY <1>0, <1>1, <2>1, <2>2, <2>3 DEF EpisodeEnd, IsOpen, Time
<1>3. ClosedBy(gs, t)
  BY <1>2 DEF ClosedBy, ClosedNow, Time
<1>4. ASSUME NEW v \in Time, v <= t, OutsideFreezes(fs, v)
      PROVE  OutsideFreezes(gs, v)
  <2> SUFFICES ASSUME NEW j \in DOMAIN fs
               PROVE  ~ (gs[j].startedAt < v /\ v < EpisodeEnd(gs[j]))
    BY DEF OutsideFreezes, ClosedNow
  <2>1. ~ (fs[j].startedAt < v /\ v < EpisodeEnd(fs[j]))
    BY <1>4 DEF OutsideFreezes
  <2> QED
    BY <1>2, <1>4, <2>1 DEF Time
<1> QED
  BY <1>3, <1>4

(* An early unfreeze gives back what was left of the freeze, which leaves    *)
(* the end after this instant and so after every visit.                      *)
LEMMA UnfreezeRecord ==
  ASSUME NEW row, NEW fs, NEW vs, NEW t \in Time, RowOK(row, fs, t),
         RecordOK(row, fs, vs, t), NoneOverdue(fs, t), vs \in Seq(Time),
         row.status = "FROZEN"
  PROVE  RecordOK(UnfreezeRow(row, t), CloseNewest(fs, t), vs, t)
<1> DEFINE new == UnfreezeRow(row, t)
           gs  == CloseNewest(fs, t)
<1>1. /\ row \in SoldPlan /\ fs \in Seq(Episode) /\ row.graceUsedAt = Null
      /\ row.freezeEndsAt \in Nat /\ row.freezeEndsAt < row.endsAt
  BY DEF RowOK, InOrder
<1>2. SameTerms(row, new) /\ new.endsAt = row.endsAt - UnusedFreeze(row, t)
  BY <1>1 DEF UnfreezeRow, ThawRow, SameTerms, SoldPlan
<1>3. row.endsAt \in Nat /\ new.endsAt \in Int
      /\ (new.endsAt = row.endsAt \/ t < new.endsAt)
  BY <1>1, <1>2 DEF UnusedFreeze, SoldPlan, Time
<1>4. ClosedNow(fs, gs, t)
  BY DEF ClosedNow, CloseNewest, IsNewestOpen
<1> HIDE DEF new, gs
<1>5. /\ ClosedBy(gs, t)
      /\ \A v \in Time : v <= t /\ OutsideFreezes(fs, v) => OutsideFreezes(gs, v)
  BY <1>1, <1>4, ClosingKeeps DEF RecordOK
<1>6. \A i \in DOMAIN vs : vs[i] \in Time
  BY ElementOfSeq, LenProperties
<1>7. VisitsPaid(new, gs, vs, t)
  <2> SUFFICES ASSUME NEW i \in DOMAIN vs
               PROVE  vs[i] <= t /\ PaidFor(new, gs, vs[i])
    BY DEF VisitsPaid
  <2>1. vs[i] <= t /\ PaidFor(row, fs, vs[i]) /\ vs[i] \in Time
    BY <1>6 DEF RecordOK, VisitsPaid
  <2>2. vs[i] <= LastInstant(new, vs[i])
    BY <1>1, <1>2, <1>3, <2>1 DEF PaidFor, LastInstant, SameTerms, Time
  <2> QED
    BY <1>2, <1>5, <2>1, <2>2 DEF PaidFor, SameTerms
<1>8. GraceOnRecord(new, t) /\ Accounted(new, vs)
  BY <1>2, SameGrace DEF RecordOK
<1> QED
  BY <1>2, <1>5, <1>7, <1>8 DEF RecordOK, SameTerms, new, gs

LEMMA CancelRecord ==
  ASSUME NEW row, NEW fs, NEW vs, NEW t \in Time, RowOK(row, fs, t),
         RecordOK(row, fs, vs, t), NoneOverdue(fs, t), vs \in Seq(Time),
         row.status # "UNSOLD"
  PROVE  RecordOK(CancelRow(row), CloseAll(fs, t), vs, t)
<1> DEFINE new == CancelRow(row)
           gs  == CloseAll(fs, t)
<1>1. row \in SoldPlan /\ fs \in Seq(Episode)
  BY DEF RowOK
<1>2. SameTerms(row, new) /\ new.endsAt = row.endsAt
  BY <1>1 DEF CancelRow, SameTerms, SoldPlan
<1>3. ClosedNow(fs, gs, t)
  BY DEF ClosedNow, CloseAll
<1> HIDE DEF new, gs
<1>4. /\ ClosedBy(gs, t)
      /\ \A v \in Time : v <= t /\ OutsideFreezes(fs, v) => OutsideFreezes(gs, v)
  BY <1>1, <1>3, ClosingKeeps DEF RecordOK
<1>5. \A i \in DOMAIN vs : vs[i] \in Time
  BY ElementOfSeq, LenProperties
<1>6. VisitsPaid(new, gs, vs, t)
  BY <1>2, <1>4, <1>5 DEF RecordOK, VisitsPaid, PaidFor, LastInstant, SameTerms
<1>7. GraceOnRecord(new, t) /\ Accounted(new, vs)
  BY <1>2, SameGrace DEF RecordOK
<1> QED
  BY <1>2, <1>4, <1>6, <1>7 DEF RecordOK, SameTerms, new, gs

(* What a visit writes on its row. *)
LEMMA VisitFields ==
  ASSUME NEW row, NEW cfg \in Settings, NEW t \in Time, row \in SoldPlan
  PROVE  /\ VisitRow(row, cfg, t).plan = row.plan
         /\ VisitRow(row, cfg, t).startsAt = row.startsAt
         /\ VisitRow(row, cfg, t).endsAt = row.endsAt
         /\ VisitRow(row, cfg, t).status
              = IF OpensGrace(row) THEN "IN_GRACE" ELSE row.status
         /\ VisitRow(row, cfg, t).graceUsedAt
              = IF OpensGrace(row) THEN t ELSE row.graceUsedAt
         /\ VisitRow(row, cfg, t).graceEndsAt
              = IF OpensGrace(row) THEN AddDays(row.endsAt, GraceDays(cfg))
                                   ELSE row.graceEndsAt
         /\ VisitRow(row, cfg, t).sessionsRemaining
              = IF row.sessionsRemaining = Null THEN Null
                                                ELSE row.sessionsRemaining - 1
<1> DEFINE entered ==
      IF OpensGrace(row)
      THEN [row EXCEPT !.status = "IN_GRACE", !.graceUsedAt = t,
                       !.graceEndsAt = AddDays(row.endsAt, GraceDays(cfg))]
      ELSE row
           new == VisitRow(row, cfg, t)
<1>1. new = IF row.sessionsRemaining = Null THEN entered
            ELSE [entered EXCEPT !.sessionsRemaining = @ - 1]
  BY DEF VisitRow
<1>2. /\ DOMAIN entered = DOMAIN row
      /\ entered.plan = row.plan /\ entered.startsAt = row.startsAt
      /\ entered.endsAt = row.endsAt
      /\ entered.status = IF OpensGrace(row) THEN "IN_GRACE" ELSE row.status
      /\ entered.graceUsedAt = IF OpensGrace(row) THEN t ELSE row.graceUsedAt
      /\ entered.graceEndsAt = IF OpensGrace(row)
                               THEN AddDays(row.endsAt, GraceDays(cfg))
                               ELSE row.graceEndsAt
      /\ entered.sessionsRemaining = row.sessionsRemaining
  BY DEF SoldPlan
<1>3. "sessionsRemaining" \in DOMAIN row
  BY DEF SoldPlan
<1> HIDE DEF entered, new
<1>4. /\ new.plan = row.plan /\ new.startsAt = row.startsAt
      /\ new.endsAt = row.endsAt /\ new.status = entered.status
      /\ new.graceUsedAt = entered.graceUsedAt
      /\ new.graceEndsAt = entered.graceEndsAt
  BY <1>1, <1>2
<1>5. new.sessionsRemaining = IF row.sessionsRemaining = Null THEN Null
                              ELSE row.sessionsRemaining - 1
  BY <1>1, <1>2, <1>3
<1> QED
  BY <1>2, <1>4, <1>5 DEF new

(* The door lets a plan in up to its end, or up to the end of its grace. *)
LEMMA VisitIsInTime ==
  ASSUME NEW row, NEW fs, NEW t \in Time, NEW cfg \in Settings, RowOK(row, fs, t),
         GraceOnRecord(row, t), DoorOpensFor(row, cfg, t)
  PROVE  /\ t <= LastInstant(VisitRow(row, cfg, t), t)
         /\ \A v \in Time : v <= t /\ v <= LastInstant(row, v) =>
              v <= LastInstant(VisitRow(row, cfg, t), v)
         /\ GraceOnRecord(VisitRow(row, cfg, t), t)
<1> DEFINE new == VisitRow(row, cfg, t)
           end == AddDays(row.endsAt, GraceDays(cfg))
<1>0. Null \notin Int /\ t \in Nat
  BY TermsAssumption DEF Time
<1>1. row \in SoldPlan /\ row.endsAt \in Time
  BY DEF RowOK, SoldPlan
<1>2. /\ new.plan = row.plan /\ new.endsAt = row.endsAt
      /\ new.graceUsedAt = IF OpensGrace(row) THEN t ELSE row.graceUsedAt
      /\ new.graceEndsAt = IF OpensGrace(row) THEN end ELSE row.graceEndsAt
  BY <1>1, VisitFields
<1>3. GraceDays(cfg) \in Nat
  BY DEF GraceDays, Settings
<1>4. end \in Time /\ row.endsAt <= end
  BY <1>1, <1>3, DaysAreTicks
<1> HIDE DEF new, end
<1>5. CASE row.status = "EXPIRED"
  <2>1. OpensGrace(row) /\ row.graceUsedAt = Null /\ row.graceEndsAt = Null
    BY <1>5 DEF OpensGrace, DoorOpensFor, GraceOnRecord
  <2>2. ~IsDayPass(row) /\ t <= end
    BY <1>5, <2>1 DEF DoorOpensFor, AccessUntil, end
  <2>3. new.graceUsedAt = t /\ new.graceEndsAt = end /\ ~IsDayPass(new)
    BY <1>2, <2>1, <2>2 DEF IsDayPass
  <2>4. end # Null /\ t # Null
    BY <1>0, <1>4 DEF Time
  <2>5. GraceOnRecord(new, t)
    BY <1>0, <2>3, <2>4 DEF GraceOnRecord
  <2>6. ASSUME NEW v \in Time, v <= t, v <= LastInstant(row, v)
        PROVE  v <= LastInstant(new, v)
    <3>1. v <= row.endsAt
      BY <2>1, <2>6 DEF LastInstant
    <3>2. LastInstant(new, v) \in {end, row.endsAt}
      BY <1>2, <2>3 DEF LastInstant
    <3> QED
      BY <1>1, <1>4, <3>1, <3>2 DEF Time
  <2> QED
    BY <1>0, <2>2, <2>3, <2>4, <2>5, <2>6 DEF LastInstant, new
<1>6. CASE row.status \in {"ACTIVE", "IN_GRACE"}
  <2>1. /\ new.graceUsedAt = row.graceUsedAt /\ new.graceEndsAt = row.graceEndsAt
        /\ new.endsAt = row.endsAt
        /\ IsDayPass(new) <=> IsDayPass(row)
    BY <1>2, <1>6 DEF OpensGrace, IsDayPass
  <2>2. \A v : LastInstant(new, v) = LastInstant(row, v)
    BY <2>1 DEF LastInstant
  <2>3. GraceOnRecord(new, t)
    BY <2>1 DEF GraceOnRecord
  <2>4. t <= LastInstant(row, t)
    <3>1. CASE row.status = "ACTIVE"
      <4>1. row.graceUsedAt = Null
        BY <3>1 DEF RowOK, InOrder
      <4> QED
        BY <3>1, <4>1 DEF DoorOpensFor, LastInstant
    <3>2. CASE row.status = "IN_GRACE"
      <4>1. row.graceUsedAt # Null /\ row.graceEndsAt # Null /\ row.graceUsedAt <= t
        BY <3>2 DEF RowOK, InOrder, GraceOnRecord
      <4>2. t <= row.graceEndsAt
        BY <3>2, <4>1 DEF DoorOpensFor, AccessUntil
      <4> QED
        BY <4>1, <4>2 DEF LastInstant
    <3> QED
      BY <1>6, <3>1, <3>2
  <2> QED
    BY <2>2, <2>3, <2>4 DEF new
<1> QED
  BY <1>5, <1>6 DEF DoorOpensFor

LEMMA VisitRecord ==
  ASSUME NEW row, NEW fs, NEW vs, NEW t \in Time, NEW cfg \in Settings,
         RowOK(row, fs, t), RecordOK(row, fs, vs, t), vs \in Seq(Time),
         DoorOpensFor(row, cfg, t), UnderDailyLimit(row, vs, t)
  PROVE  RecordOK(VisitRow(row, cfg, t), fs, Append(vs, t), t)
<1> DEFINE new == VisitRow(row, cfg, t)
           us  == Append(vs, t)
<1>1. /\ row \in SoldPlan /\ row.plan \in Plans
      /\ row.status \in {"ACTIVE", "IN_GRACE", "EXPIRED"} /\ row.startsAt <= t
  BY DEF RowOK, InOrder, DoorOpensFor, RecordOK
<1>2. /\ new.plan = row.plan /\ new.startsAt = row.startsAt
      /\ new.status \in {"ACTIVE", "IN_GRACE", "EXPIRED"}
      /\ new.sessionsRemaining = IF row.sessionsRemaining = Null THEN Null
                                 ELSE row.sessionsRemaining - 1
  BY <1>1, VisitFields
<1>3. /\ Len(us) = Len(vs) + 1 /\ DOMAIN us = (DOMAIN vs) \cup {Len(vs) + 1}
      /\ us[Len(vs) + 1] = t /\ \A i \in DOMAIN vs : us[i] = vs[i]
  BY AnotherVisit
<1>4. /\ t <= LastInstant(new, t)
      /\ \A v \in Time : v <= t /\ v <= LastInstant(row, v) => v <= LastInstant(new, v)
      /\ GraceOnRecord(new, t)
  BY VisitIsInTime DEF RecordOK
<1>5. UnderCap(row, us)
  <2>1. Terms[row.plan].maxVisitsPerDay \in Nat /\ UnderCap(row, vs)
    BY <1>1, TermsAssumption DEF PlanTerms, RecordOK, Accounted
  <2> QED
    BY <2>1, CapHolds
<1> HIDE DEF new, us
<1>6. Accounted(new, us)
  <2>1. UnderCap(new, us)
    BY <1>2, <1>5 DEF UnderCap
  <2>2. PackAdds(row, vs) /\ Len(vs) \in Nat
    BY <1>1, LenProperties DEF RecordOK, Accounted
  <2>3. row.sessionsRemaining # Null => row.sessionsRemaining \in Nat
    BY <1>1 DEF SoldPlan
  <2>4. PackAdds(new, us)
    <3>1. CASE row.sessionsRemaining = Null
      BY <1>2, <3>1 DEF PackAdds
    <3>2. CASE row.sessionsRemaining # Null
      <4>1. /\ new.sessionsRemaining = row.sessionsRemaining - 1
            /\ row.sessionsRemaining + Len(vs) = Terms[row.plan].sessions
            /\ row.sessionsRemaining \in Nat
        BY <1>2, <2>2, <2>3, <3>2 DEF PackAdds
      <4>2. new.sessionsRemaining + Len(us) = Terms[new.plan].sessions
        <5>1. new.plan = row.plan /\ Len(us) = Len(vs) + 1 /\ Len(vs) \in Nat
          BY <1>2, <1>3, <2>2
        <5>2. (row.sessionsRemaining - 1) + (Len(vs) + 1) =
                row.sessionsRemaining + Len(vs)
          BY <4>1, <5>1
        <5> QED
          BY <4>1, <5>1, <5>2
      <4> QED
        BY <4>2 DEF PackAdds
    <3> QED
      BY <3>1, <3>2
  <2> QED
    BY <1>2, <2>1, <2>4 DEF Accounted
<1>7. OutsideFreezes(fs, t)
  <2>1. \A j \in DOMAIN fs : ~IsOpen(fs[j]) /\ fs[j].unfrozenAt <= t
    BY <1>1 DEF RowOK, FreezeOnRecord, OpenIn, RecordOK, ClosedBy
  <2>2. \A j \in DOMAIN fs : fs[j] \in Episode
    BY FreezesAreEpisodes DEF RowOK
  <2> QED
    BY <2>1, <2>2 DEF OutsideFreezes, EpisodeEnd, IsOpen, Episode, Time
<1>8. \A i \in DOMAIN vs : vs[i] \in Time
  BY ElementOfSeq, LenProperties
<1>9. VisitsPaid(new, fs, us, t)
  <2> SUFFICES ASSUME NEW i \in DOMAIN us
               PROVE  us[i] <= t /\ PaidFor(new, fs, us[i])
    BY DEF VisitsPaid
  <2>1. CASE i \in DOMAIN vs
    <3>1. vs[i] <= t /\ PaidFor(row, fs, vs[i]) /\ vs[i] \in Time /\ us[i] = vs[i]
      BY <1>3, <1>8, <2>1 DEF RecordOK, VisitsPaid
    <3> QED
      BY <1>2, <1>4, <3>1 DEF PaidFor
  <2>2. CASE i = Len(vs) + 1
    <3>1. us[i] = t /\ t <= t
      BY <1>3, <2>2 DEF Time
    <3> QED
      BY <1>1, <1>2, <1>4, <1>7, <3>1 DEF PaidFor
  <2> QED
    BY <1>3, <2>1, <2>2
<1> QED
  BY <1>1, <1>2, <1>4, <1>6, <1>9 DEF RecordOK, new, us

-----------------------------------------------------------------------------
(* The inbox against one row *)

InboxFits(row, s, box) ==
  /\ row.status = "EXPIRED" => <<"SUBSCRIPTION_EXPIRED", s>> \in box
  /\ <<"SUBSCRIPTION_EXPIRED", s>> \in box =>
       row.status \in {"EXPIRED", "IN_GRACE", "CANCELLED"}
  /\ <<"SUBSCRIPTION_IN_GRACE", s>> \in box <=> row.graceUsedAt # Null

LEMMA InboxByRow ==
  InboxTellsTheTruth <=> \A s \in Subs : InboxFits(sub[s], s, inbox)
  BY DEF InboxTellsTheTruth, InboxFits

(* A pass announces the rows it expires and opens no grace. *)
LEMMA NoticesOfScope ==
  ASSUME NEW scope \in SUBSET Subs, NEW s \in Subs
  PROVE  /\ <<"SUBSCRIPTION_EXPIRED", s>> \in SettleNotices(scope)
              <=> s \in scope /\ IsDue(SettleThaw(sub[s], freezes[s], now), settings, now)
         /\ <<"SUBSCRIPTION_IN_GRACE", s>> \notin SettleNotices(scope)
  BY DEF SettleNotices, ExpiresIn

LEMMA SettledInbox ==
  ASSUME IInv, InboxTellsTheTruth, NEW scope \in SUBSET Subs, NEW s \in Subs
  PROVE  InboxFits(SettledSubs(scope)[s], s, inbox \cup SettleNotices(scope))
<1> DEFINE box == inbox \cup SettleNotices(scope)
           thawed == SettleThaw(sub[s], freezes[s], now)
<1>1. InboxFits(sub[s], s, inbox)
  BY InboxByRow
<1>2. /\ <<"SUBSCRIPTION_EXPIRED", s>> \in box <=>
           \/ <<"SUBSCRIPTION_EXPIRED", s>> \in inbox
           \/ s \in scope /\ IsDue(thawed, settings, now)
      /\ <<"SUBSCRIPTION_IN_GRACE", s>> \in box
           <=> <<"SUBSCRIPTION_IN_GRACE", s>> \in inbox
  BY NoticesOfScope
<1>3. RowOK(sub[s], freezes[s], now) /\ now \in Time /\ settings \in Settings
  BY RowsAreOK
<1> HIDE DEF box
<1>4. CASE s \notin scope
  <2>1. SettledSubs(scope)[s] = sub[s]
    BY <1>4 DEF SettledSubs
  <2> QED
    BY <1>1, <1>2, <1>4, <2>1 DEF InboxFits, box
<1>5. CASE s \in scope
  <2>1. SettledSubs(scope)[s] = SettleRow(sub[s], freezes[s], settings, now)
    BY <1>5 DEF SettledSubs, Settled
  <2> DEFINE new == SettleRow(sub[s], freezes[s], settings, now)
  <2>2. new.graceUsedAt = sub[s].graceUsedAt
    BY <1>3, SettledFields
  <2>3. new = IF IsDue(thawed, settings, now)
              THEN [thawed EXCEPT !.status = "EXPIRED"] ELSE thawed
    BY DEF SettleRow
  <2>4. thawed \in {sub[s], ThawRow(sub[s])} /\ sub[s] \in SoldPlan
    BY <1>3, SettledThaws DEF RowOK
  <2>5. sub[s].status # "FROZEN" => thawed = sub[s]
    BY <1>3, OnlyFrozenThaws
  <2> HIDE DEF new, thawed
  <2>6. /\ thawed \in SoldPlan
        /\ \/ thawed.status = sub[s].status
           \/ sub[s].status = "FROZEN" /\ thawed.status = "ACTIVE"
    <3>1. CASE thawed = sub[s]
      BY <2>4, <3>1
    <3>2. CASE sub[s].status = "FROZEN" /\ thawed = ThawRow(sub[s])
      BY <2>4, <3>2 DEF ThawRow, SoldPlan, Status
    <3> QED
      BY <2>4, <2>5, <3>1, <3>2
  <2>7. CASE IsDue(thawed, settings, now)
    <3>1. new.status = "EXPIRED"
      BY <2>3, <2>6, <2>7 DEF SoldPlan
    <3> QED
      BY <1>1, <1>2, <1>5, <2>1, <2>2, <2>7, <3>1 DEF InboxFits, box, new
  <2>8. CASE ~IsDue(thawed, settings, now)
    <3>1. new = thawed
      BY <2>3, <2>8
    <3> QED
      BY <1>1, <1>2, <2>1, <2>2, <2>6, <2>8, <3>1 DEF InboxFits, box, new
  <2> QED
    BY <2>7, <2>8
<1> QED
  BY <1>4, <1>5

(* The desk changes the status of a plan that runs, or cancels it. *)
LEMMA InboxMoves ==
  ASSUME NEW row, NEW new, NEW s, NEW box, InboxFits(row, s, box),
         new.graceUsedAt = row.graceUsedAt, new.status # "EXPIRED",
         \/ row.status \notin {"EXPIRED", "IN_GRACE", "CANCELLED"}
         \/ new.status = "CANCELLED"
  PROVE  InboxFits(new, s, box)
  BY DEF InboxFits

-----------------------------------------------------------------------------
(* Steps *)

RInv == IInv /\ RecordsOK /\ InboxTellsTheTruth

LEMMA RowsAreRecorded ==
  ASSUME RInv, NEW s \in Subs
  PROVE  /\ RowOK(sub[s], freezes[s], now)
         /\ RecordOK(sub[s], freezes[s], visits[s], now)
         /\ visits[s] \in Seq(Time)
         /\ now \in Time /\ settings \in Settings
  BY RowsAreOK DEF RInv, IInv, RecordsOK, TypeOK

LEMMA SettledIsRecorded ==
  ASSUME RInv, NEW s \in Subs
  PROVE  /\ RowOK(Settled(s), SettledFreezes(s), now)
         /\ RecordOK(Settled(s), SettledFreezes(s), visits[s], now)
         /\ NoneOverdue(SettledFreezes(s), now)
<1>1. /\ RowOK(sub[s], freezes[s], now)
      /\ RecordOK(sub[s], freezes[s], visits[s], now)
      /\ now \in Time /\ settings \in Settings
  BY RowsAreRecorded
<1> QED
  BY <1>1, SettleKeeps, SettleRecord, SettledEpisodesEnd DEF Settled, SettledFreezes

LEMMA SettledScope ==
  ASSUME RInv, NEW scope \in SUBSET Subs, NEW s \in Subs
  PROVE  /\ RecordOK(SettledSubs(scope)[s], SettledEpisodes(scope)[s], visits[s], now)
         /\ InboxFits(SettledSubs(scope)[s], s, inbox \cup SettleNotices(scope))
<1>1. RecordOK(SettledSubs(scope)[s], SettledEpisodes(scope)[s], visits[s], now)
  BY RowsAreRecorded, SettledIsRecorded DEF SettledSubs, SettledEpisodes
<1> QED
  BY <1>1, SettledInbox DEF RInv

(* A step that leaves every row recorded keeps the books and the inbox. *)
LEMMA RecordsSuffice ==
  ASSUME \A s \in Subs : RecordOK(sub'[s], freezes'[s], visits'[s], now'),
         \A s \in Subs : InboxFits(sub'[s], s, inbox')
  PROVE  RecordsOK' /\ InboxTellsTheTruth'
  BY DEF RecordsOK, InboxTellsTheTruth, InboxFits

LEMMA RecSettle ==
  ASSUME RInv, NEW scope \in SUBSET Subs, Settle(scope)
  PROVE  RecordsOK' /\ InboxTellsTheTruth'
<1>1. /\ sub' = SettledSubs(scope) /\ freezes' = SettledEpisodes(scope)
      /\ inbox' = inbox \cup SettleNotices(scope)
      /\ now' = now /\ visits' = visits
  BY DEF Settle
<1> QED
  BY <1>1, SettledScope, RecordsSuffice

LEMMA NewRowIsRecorded ==
  ASSUME RInv, NEW s \in Subs, IsFresh(s), NEW m \in Members, NEW p \in Plans
  PROVE  /\ RecordOK(SellRow(m, p, now), freezes[s], visits[s], now)
         /\ \A box : InboxFits(sub[s], s, box) => InboxFits(SellRow(m, p, now), s, box)
<1>1. /\ RowOK(sub[s], freezes[s], now)
      /\ RecordOK(sub[s], freezes[s], visits[s], now) /\ now \in Time
  BY RowsAreRecorded
<1>2. RecordOK(SellRow(m, p, now), freezes[s], visits[s], now)
  BY <1>1, SellRecord DEF IsFresh
<1>3. sub[s].graceUsedAt = Null
  BY <1>1 DEF IsFresh, RowOK, InOrder
<1>4. SellRow(m, p, now).graceUsedAt = Null /\ SellRow(m, p, now).status = "ACTIVE"
  BY DEF SellRow, Unsold
<1> QED
  BY <1>2, <1>3, <1>4, InboxMoves DEF IsFresh

LEMMA RecCreate ==
  ASSUME RInv, NEW s \in Subs, NEW m \in Members, NEW p \in Plans, Create(s, m, p)
  PROVE  RecordsOK' /\ InboxTellsTheTruth'
<1>0. DOMAIN sub = Subs
  BY DEF RInv, IInv, TypeOK
<1>1. /\ IsFresh(s) /\ sub' = [sub EXCEPT ![s] = SellRow(m, p, now)]
      /\ UNCHANGED <<now, freezes, visits, inbox>>
  BY DEF Create
<1>2. \A r \in Subs : RecordOK(sub'[r], freezes'[r], visits'[r], now')
  BY <1>0, <1>1, NewRowIsRecorded, RowsAreRecorded
<1>3. \A r \in Subs : InboxFits(sub'[r], r, inbox')
  BY <1>0, <1>1, NewRowIsRecorded, InboxByRow DEF RInv
<1> QED
  BY <1>2, <1>3, RecordsSuffice

LEMMA RecRenew ==
  ASSUME RInv, NEW s \in Subs, NEW next \in Subs, Renew(s, next)
  PROVE  RecordsOK' /\ InboxTellsTheTruth'
<1> DEFINE row == SellRow(sub[s].member, sub[s].plan, now)
<1>1. /\ IsFresh(next) /\ MayRenew(Settled(s), now)
      /\ sub' = [SettledSubs({s}) EXCEPT ![next] = row]
      /\ freezes' = SettledEpisodes({s})
      /\ inbox' = inbox \cup SettleNotices({s})
      /\ now' = now /\ visits' = visits
  BY DEF Renew
<1>2. /\ RowOK(Settled(s), SettledFreezes(s), now)
      /\ Settled(s).member = sub[s].member /\ Settled(s).plan = sub[s].plan
      /\ Settled(s).status = "UNSOLD" <=> sub[s].status = "UNSOLD"
  BY RowsAreRecorded, SettleKeeps, SettledFields DEF Settled, SettledFreezes
<1>3. sub[s].member \in Members /\ sub[s].plan \in Plans /\ next # s
  BY <1>1, <1>2 DEF RowOK, InOrder, MayRenew, IsFresh
<1>4. SettledSubs({s})[next] = sub[next] /\ SettledEpisodes({s})[next] = freezes[next]
  BY <1>3 DEF SettledSubs, SettledEpisodes
<1>5. /\ sub'[next] = row /\ freezes'[next] = freezes[next]
      /\ \A r \in Subs \ {next} :
           sub'[r] = SettledSubs({s})[r] /\ freezes'[r] = SettledEpisodes({s})[r]
  BY <1>1, <1>4 DEF SettledSubs
<1> HIDE DEF row
<1>6. RecordOK(row, freezes[next], visits[next], now) /\ InboxFits(row, next, inbox')
  BY <1>1, <1>3, <1>4, NewRowIsRecorded, SettledScope DEF row
<1>7. \A r \in Subs : RecordOK(sub'[r], freezes'[r], visits'[r], now')
  BY <1>1, <1>5, <1>6, SettledScope
<1>8. \A r \in Subs : InboxFits(sub'[r], r, inbox')
  BY <1>1, <1>5, <1>6, SettledScope
<1> QED
  BY <1>7, <1>8, RecordsSuffice

(* Freeze, Unfreeze and Cancel settle their row and then write it. *)
LEMMA RecDesk ==
  ASSUME RInv, NEW s \in Subs, NEW row, NEW fs,
         RecordOK(row, fs, visits[s], now),
         InboxFits(Settled(s), s, inbox \cup SettleNotices({s})) =>
           InboxFits(row, s, inbox \cup SettleNotices({s})),
         sub' = [sub EXCEPT ![s] = row], freezes' = [freezes EXCEPT ![s] = fs],
         inbox' = inbox \cup SettleNotices({s}),
         now' = now, visits' = visits
  PROVE  RecordsOK' /\ InboxTellsTheTruth'
<1>0. DOMAIN sub = Subs /\ DOMAIN freezes = Subs
  BY DEF RInv, IInv, TypeOK
<1>1. \A r \in Subs : RecordOK(sub'[r], freezes'[r], visits'[r], now')
  BY <1>0, RowsAreRecorded
<1>2. SettledSubs({s})[s] = Settled(s) /\ \A r \in Subs \ {s} : SettledSubs({s})[r] = sub[r]
  BY DEF SettledSubs
<1>3. InboxFits(row, s, inbox')
  BY <1>2, SettledScope
<1>4. \A r \in Subs \ {s} : InboxFits(sub[r], r, inbox')
  BY <1>2, SettledScope
<1>5. \A r \in Subs : InboxFits(sub'[r], r, inbox')
  BY <1>0, <1>3, <1>4
<1> QED
  BY <1>1, <1>5, RecordsSuffice

LEMMA RecFreeze ==
  ASSUME RInv, NEW s \in Subs, NEW days \in FreezeRequests, Freeze(s, days)
  PROVE  RecordsOK' /\ InboxTellsTheTruth'
<1> DEFINE row == FreezeRow(Settled(s), now, days)
           fs  == Append(SettledFreezes(s), NewFreeze(now, days))
<1>1. /\ Settled(s).status = "ACTIVE" /\ days \in Nat \ {0}
      /\ sub' = [sub EXCEPT ![s] = row] /\ freezes' = [freezes EXCEPT ![s] = fs]
      /\ inbox' = inbox \cup SettleNotices({s}) /\ now' = now /\ visits' = visits
  BY SoldPlansAssumption DEF Freeze, MayFreeze
<1>2. /\ RowOK(Settled(s), SettledFreezes(s), now)
      /\ RecordOK(Settled(s), SettledFreezes(s), visits[s], now)
      /\ visits[s] \in Seq(Time) /\ now \in Time
  BY SettledIsRecorded, RowsAreRecorded
<1>3. RecordOK(row, fs, visits[s], now)
  BY <1>1, <1>2, FreezeRecord
<1>4. row.graceUsedAt = Settled(s).graceUsedAt /\ row.status = "FROZEN"
  BY <1>2 DEF FreezeRow, RowOK, SoldPlan
<1> HIDE DEF row, fs
<1>5. \A box : InboxFits(Settled(s), s, box) => InboxFits(row, s, box)
  BY <1>1, <1>4, InboxMoves
<1> QED
  BY <1>1, <1>3, <1>5, RecDesk

LEMMA RecUnfreeze ==
  ASSUME RInv, NEW s \in Subs, Unfreeze(s)
  PROVE  RecordsOK' /\ InboxTellsTheTruth'
<1> DEFINE row == UnfreezeRow(Settled(s), now)
           fs  == CloseNewest(SettledFreezes(s), now)
<1>1. /\ Settled(s).status = "FROZEN"
      /\ sub' = [sub EXCEPT ![s] = row] /\ freezes' = [freezes EXCEPT ![s] = fs]
      /\ inbox' = inbox \cup SettleNotices({s}) /\ now' = now /\ visits' = visits
  BY DEF Unfreeze
<1>2. /\ RowOK(Settled(s), SettledFreezes(s), now)
      /\ RecordOK(Settled(s), SettledFreezes(s), visits[s], now)
      /\ NoneOverdue(SettledFreezes(s), now)
      /\ visits[s] \in Seq(Time) /\ now \in Time
  BY SettledIsRecorded, RowsAreRecorded
<1>3. RecordOK(row, fs, visits[s], now)
  BY <1>1, <1>2, UnfreezeRecord
<1>4. row.graceUsedAt = Settled(s).graceUsedAt /\ row.status = "ACTIVE"
  BY <1>2 DEF UnfreezeRow, ThawRow, RowOK, SoldPlan
<1> HIDE DEF row, fs
<1>5. \A box : InboxFits(Settled(s), s, box) => InboxFits(row, s, box)
  BY <1>1, <1>4, InboxMoves
<1> QED
  BY <1>1, <1>3, <1>5, RecDesk

LEMMA RecCancel ==
  ASSUME RInv, NEW s \in Subs, Cancel(s)
  PROVE  RecordsOK' /\ InboxTellsTheTruth'
<1> DEFINE row == CancelRow(Settled(s))
           fs  == CloseAll(SettledFreezes(s), now)
<1>1. /\ Settled(s).status \in {"ACTIVE", "FROZEN", "IN_GRACE"}
      /\ sub' = [sub EXCEPT ![s] = row] /\ freezes' = [freezes EXCEPT ![s] = fs]
      /\ inbox' = inbox \cup SettleNotices({s}) /\ now' = now /\ visits' = visits
  BY DEF Cancel, MayCancel
<1>2. /\ RowOK(Settled(s), SettledFreezes(s), now)
      /\ RecordOK(Settled(s), SettledFreezes(s), visits[s], now)
      /\ NoneOverdue(SettledFreezes(s), now)
      /\ visits[s] \in Seq(Time) /\ now \in Time
  BY SettledIsRecorded, RowsAreRecorded
<1>3. RecordOK(row, fs, visits[s], now)
  BY <1>1, <1>2, CancelRecord
<1>4. row.graceUsedAt = Settled(s).graceUsedAt /\ row.status = "CANCELLED"
  BY <1>2 DEF CancelRow, RowOK, SoldPlan
<1> HIDE DEF row, fs
<1>5. \A box : InboxFits(Settled(s), s, box) => InboxFits(row, s, box)
  BY <1>4, InboxMoves
<1> QED
  BY <1>1, <1>3, <1>5, RecDesk

(* The door and the walk-in desk settle the gym and write on one row. *)
LEMMA RecVisit ==
  ASSUME RInv, NEW s \in Subs, Visit(s)
  PROVE  RecordsOK' /\ InboxTellsTheTruth'
<1> DEFINE row  == VisitRow(Settled(s), settings, now)
           told == inbox \cup SettleNotices(Subs)
<1>0. DOMAIN visits = Subs
  BY DEF RInv, IInv, TypeOK
<1>1. /\ DoorOpensFor(Settled(s), settings, now)
      /\ UnderDailyLimit(Settled(s), visits[s], now)
      /\ sub' = [SettledSubs(Subs) EXCEPT ![s] = VisitRow(@, settings, now)]
      /\ freezes' = SettledEpisodes(Subs)
      /\ visits' = [visits EXCEPT ![s] = Append(@, now)]
      /\ inbox' = told \cup {n \in {<<"SUBSCRIPTION_IN_GRACE", s>>} :
                               OpensGrace(Settled(s))}
      /\ now' = now
  BY DEF Visit
<1>2. /\ RowOK(Settled(s), SettledFreezes(s), now)
      /\ RecordOK(Settled(s), SettledFreezes(s), visits[s], now)
      /\ visits[s] \in Seq(Time) /\ now \in Time /\ settings \in Settings
  BY SettledIsRecorded, RowsAreRecorded
<1>3. SettledSubs(Subs)[s] = Settled(s) /\ SettledEpisodes(Subs)[s] = SettledFreezes(s)
  BY DEF SettledSubs, SettledEpisodes
<1>4. /\ sub'[s] = row /\ \A r \in Subs \ {s} : sub'[r] = SettledSubs(Subs)[r]
      /\ visits'[s] = Append(visits[s], now)
      /\ \A r \in Subs \ {s} : visits'[r] = visits[r]
  BY <1>0, <1>1, <1>3 DEF SettledSubs
<1>5. RecordOK(row, SettledFreezes(s), Append(visits[s], now), now)
  BY <1>1, <1>2, VisitRecord
<1>6. /\ row.status = IF OpensGrace(Settled(s)) THEN "IN_GRACE" ELSE Settled(s).status
      /\ row.graceUsedAt = IF OpensGrace(Settled(s)) THEN now ELSE Settled(s).graceUsedAt
  BY <1>2, VisitFields DEF RowOK
<1>7. now # Null
  BY <1>2, TermsAssumption DEF Time
<1> HIDE DEF row, told
<1>8. InboxFits(row, s, inbox')
  <2>1. InboxFits(Settled(s), s, told)
    BY <1>3, SettledScope DEF told
  <2>2. CASE OpensGrace(Settled(s))
    <3>1. inbox' = told \cup {<<"SUBSCRIPTION_IN_GRACE", s>>}
      BY <1>1, <2>2
    <3>2. row.status = "IN_GRACE" /\ row.graceUsedAt # Null
      BY <1>6, <1>7, <2>2
    <3>3. <<"SUBSCRIPTION_EXPIRED", s>> \in inbox' <=> <<"SUBSCRIPTION_EXPIRED", s>> \in told
      BY <3>1
    <3> QED
      BY <3>1, <3>2, <3>3 DEF InboxFits
  <2>3. CASE ~OpensGrace(Settled(s))
    <3>1. inbox' = told
      BY <1>1, <2>3
    <3>2. row.status = Settled(s).status /\ row.graceUsedAt = Settled(s).graceUsedAt
      BY <1>6, <2>3
    <3> QED
      BY <2>1, <3>1, <3>2 DEF InboxFits
  <2> QED
    BY <2>2, <2>3
<1>9. ASSUME NEW r \in Subs \ {s}
      PROVE  InboxFits(sub'[r], r, inbox')
  <2>1. InboxFits(sub'[r], r, told)
    BY <1>4, SettledScope DEF told
  <2>2. \A kind : <<kind, r>> \in inbox' <=> <<kind, r>> \in told
    BY <1>1, <1>9
  <2> QED
    BY <2>1, <2>2 DEF InboxFits
<1>10. \A r \in Subs : RecordOK(sub'[r], freezes'[r], visits'[r], now')
  BY <1>1, <1>3, <1>4, <1>5, SettledScope
<1>11. \A r \in Subs : InboxFits(sub'[r], r, inbox')
  BY <1>4, <1>8, <1>9
<1> QED
  BY <1>10, <1>11, RecordsSuffice

LEMMA RecWalkIn ==
  ASSUME RInv, NEW s \in Subs, NEW m \in Members, NEW p \in Plans,
         NEW enters \in BOOLEAN, WalkIn(s, m, p, enters)
  PROVE  RecordsOK' /\ InboxTellsTheTruth'
<1> DEFINE row == WalkInRow(m, p, now, enters)
           vs  == IF enters THEN Append(visits[s], now) ELSE visits[s]
<1>0. DOMAIN visits = Subs
  BY DEF RInv, IInv, TypeOK
<1>1. /\ sub[s].status = "UNSOLD" /\ Terms[p].kind = "DAY_PASS"
      /\ sub' = [SettledSubs(Subs) EXCEPT ![s] = row]
      /\ freezes' = SettledEpisodes(Subs)
      /\ visits' = [visits EXCEPT ![s] = IF enters THEN Append(@, now) ELSE @]
      /\ inbox' = inbox \cup SettleNotices(Subs)
      /\ now' = now
  BY DEF WalkIn, IsFresh
<1>2. /\ RowOK(sub[s], freezes[s], now)
      /\ RecordOK(sub[s], freezes[s], visits[s], now)
      /\ now \in Time /\ settings \in Settings
  BY RowsAreRecorded
<1>3. Settled(s) = sub[s] /\ SettledFreezes(s) = freezes[s]
  BY <1>1, SettledStays DEF RInv
<1>4. SettledSubs(Subs)[s] = sub[s] /\ SettledEpisodes(Subs)[s] = freezes[s]
  BY <1>3 DEF SettledSubs, SettledEpisodes
<1>5. /\ sub'[s] = row /\ \A r \in Subs \ {s} : sub'[r] = SettledSubs(Subs)[r]
      /\ visits'[s] = vs /\ \A r \in Subs \ {s} : visits'[r] = visits[r]
  BY <1>0, <1>1 DEF SettledSubs
<1>6. RecordOK(row, freezes[s], vs, now)
  BY <1>1, <1>2, WalkInRecord
<1>7. row.status = "ACTIVE" /\ row.graceUsedAt = Null
  BY SellRowType, <1>2 DEF WalkInRow, SellRow, Unsold, SoldPlan
<1>8. sub[s].graceUsedAt = Null
  BY <1>1, <1>2 DEF RowOK, InOrder
<1> HIDE DEF row, vs
<1>9. InboxFits(row, s, inbox')
  BY <1>1, <1>4, <1>7, <1>8, SettledScope, InboxMoves
<1>10. \A r \in Subs : InboxFits(sub'[r], r, inbox')
  BY <1>1, <1>5, <1>9, SettledScope
<1>11. \A r \in Subs : RecordOK(sub'[r], freezes'[r], visits'[r], now')
  BY <1>1, <1>4, <1>5, <1>6, SettledScope
<1> QED
  BY <1>10, <1>11, RecordsSuffice

LEMMA RecTick == ASSUME RInv, Tick PROVE RecordsOK' /\ InboxTellsTheTruth'
<1>1. /\ now \in Nat /\ now' \in Nat /\ now <= now'
      /\ UNCHANGED <<sub, freezes, visits, inbox>>
  BY DEF Tick, RInv, IInv, TypeOK, Time
<1>2. ASSUME NEW s \in Subs
      PROVE  RecordOK(sub[s], freezes[s], visits[s], now')
  <2> DEFINE row == sub[s]
             fs  == freezes[s]
             vs  == visits[s]
  <2>0. Null \notin Int
    BY TermsAssumption
  <2>1. RowOK(row, fs, now) /\ RecordOK(row, fs, vs, now) /\ vs \in Seq(Time)
    BY RowsAreRecorded
  <2>2. row \in SoldPlan /\ fs \in Seq(Episode)
    BY <2>1 DEF RowOK
  <2> HIDE DEF row, fs, vs
  <2>3. \A j \in DOMAIN fs : fs[j] \in Episode
    BY <2>2, FreezesAreEpisodes
  <2>4. \A i \in DOMAIN vs : vs[i] \in Nat
    BY <2>1, ElementOfSeq, LenProperties DEF Time
  <2>5. ClosedBy(fs, now')
    BY <1>1, <2>1, <2>3 DEF RecordOK, ClosedBy, IsOpen, Episode, Time
  <2>6. GraceOnRecord(row, now')
    BY <1>1, <2>1, <2>2 DEF RecordOK, GraceOnRecord, SoldPlan, Time
  <2>7. VisitsPaid(row, fs, vs, now')
    BY <1>1, <2>1, <2>4 DEF RecordOK, VisitsPaid
  <2>8. row.startsAt <= now'
    BY <1>1, <2>1, <2>2 DEF RecordOK, SoldPlan, Time
  <2>9. RecordOK(row, fs, vs, now')
    BY <2>1, <2>5, <2>6, <2>7, <2>8 DEF RecordOK
  <2> QED
    BY <2>9 DEF row, fs, vs
<1>3. \A s \in Subs : InboxFits(sub[s], s, inbox)
  BY InboxByRow DEF RInv
<1> QED
  BY <1>1, <1>2, <1>3, RecordsSuffice

LEMMA RecInit == Init => RInv
<1> SUFFICES ASSUME Init PROVE RInv
  OBVIOUS
<1>1. IInv
  BY InvInit
<1>2. ASSUME NEW s \in Subs
      PROVE  RecordOK(Unsold, <<>>, <<>>, 0)
  BY DEF RecordOK, ClosedBy, GraceOnRecord, VisitsPaid, Accounted, Unsold
<1>3. RecordsOK
  BY <1>2 DEF RecordsOK, Init
<1>4. InboxTellsTheTruth
  BY DEF InboxTellsTheTruth, Init, Unsold
<1> QED
  BY <1>1, <1>3, <1>4 DEF RInv

LEMMA RecNext == RInv /\ [Next]_vars => RInv'
<1> SUFFICES ASSUME RInv, [Next]_vars PROVE RecordsOK' /\ InboxTellsTheTruth'
  BY InvNext DEF RInv
<1>1. CASE Tick
  BY <1>1, RecTick
<1>2. CASE Sweep
  BY <1>2, RecSettle DEF Sweep
<1>3. CASE \E s \in Subs : Settle({s})
  BY <1>3, RecSettle
<1>4. CASE \E s \in Subs, m \in Members, p \in Plans : Create(s, m, p)
  BY <1>4, RecCreate
<1>5. CASE \E s \in Subs, next \in Subs : Renew(s, next)
  BY <1>5, RecRenew
<1>6. CASE \E s \in Subs, days \in FreezeRequests : Freeze(s, days)
  BY <1>6, RecFreeze
<1>7. CASE \E s \in Subs : Unfreeze(s)
  BY <1>7, RecUnfreeze
<1>8. CASE \E s \in Subs : Cancel(s)
  BY <1>8, RecCancel
<1>9. CASE \E s \in Subs : Visit(s)
  BY <1>9, RecVisit
<1>10. CASE \E s \in Subs, m \in Members, p \in Plans, enters \in BOOLEAN :
              WalkIn(s, m, p, enters)
  BY <1>10, RecWalkIn
<1>11. CASE UNCHANGED <<now, sub, freezes, visits, inbox>>
  <2>1. \A s \in Subs : InboxFits(sub[s], s, inbox)
    BY InboxByRow DEF RInv
  <2> QED
    BY <1>11, <2>1, RowsAreRecorded, RecordsSuffice
<1>12. CASE \/ \E m \in Members, status \in MemberStates : PatchMember(m, status)
            \/ \E p \in Shelvable : PatchPlan(p)
            \/ \E policy \in Policies : PatchSettings(policy)
  BY <1>11, <1>12 DEF PatchMember, PatchPlan, PatchSettings
<1>13. CASE UNCHANGED vars
  BY <1>11, <1>13 DEF vars
<1> QED
  BY <1>1, <1>2, <1>3, <1>4, <1>5, <1>6, <1>7, <1>8, <1>9, <1>10, <1>12, <1>13 DEF Next

-----------------------------------------------------------------------------
(* The theorems *)

(* In every reachable state of every gym the tables are in order, the        *)
(* records agree with them, and the inbox agrees with the table.             *)
THEOREM RecordsInvariant == Spec => []RInv
<1>1. Init => RInv
  BY RecInit
<1>2. RInv /\ [Next]_vars => RInv'
  BY RecNext
<1> QED
  BY <1>1, <1>2, PTL DEF Spec

(* No visit falls outside the time its plan was paid for or its one grace    *)
(* window, nor inside a freeze, whatever is frozen, unfrozen, cancelled or   *)
(* expired afterwards.                                                       *)
THEOREM EveryVisitWasPaidFor == Spec => []VisitsArePaidFor
<1>1. RInv => VisitsArePaidFor
  <2> SUFFICES ASSUME RInv, NEW s \in Subs, NEW i \in DOMAIN visits[s]
               PROVE  PaidFor(sub[s], freezes[s], visits[s][i])
    BY DEF VisitsArePaidFor, PaidFor, LastInstant, OutsideFreezes
  <2>1. VisitsPaid(sub[s], freezes[s], visits[s], now)
    BY RowsAreRecorded DEF RecordOK
  <2> QED
    BY <2>1 DEF VisitsPaid
<1> QED
  BY <1>1, RecordsInvariant, PTL

(* A pack has lost exactly the sessions of its visits, and no day of the gym *)
(* holds more visits of a plan than its cap, on any day at all.              *)
THEOREM EveryVisitIsAccounted == Spec => []VisitsAreAccounted
<1>1. RInv => VisitsAreAccounted
  <2> SUFFICES ASSUME RInv, NEW s \in Subs, sub[s].status # "UNSOLD"
               PROVE  /\ sub[s].sessionsRemaining # Null =>
                           /\ sub[s].sessionsRemaining >= 0
                           /\ sub[s].sessionsRemaining + Len(visits[s])
                                = Terms[sub[s].plan].sessions
                      /\ \A day \in 0 .. GymDay(now) :
                           Cardinality(VisitsOn(visits[s], day))
                             <= Terms[sub[s].plan].maxVisitsPerDay
    BY DEF VisitsAreAccounted
  <2>1. UnderCap(sub[s], visits[s]) /\ PackAdds(sub[s], visits[s])
    BY RowsAreRecorded DEF RecordOK, Accounted
  <2>2. sub[s].sessionsRemaining # Null => sub[s].sessionsRemaining \in Nat
    BY RowsAreRecorded DEF RowOK, SoldPlan
  <2>3. \A day \in 0 .. GymDay(now) : day \in Nat
    OBVIOUS
  <2> QED
    BY <2>1, <2>2, <2>3 DEF UnderCap, PackAdds
<1> QED
  BY <1>1, RecordsInvariant, PTL

(* A plan that is EXPIRED was announced, one announced as expired never runs *)
(* again, and grace is announced exactly when it was opened.                 *)
THEOREM InboxIsTrue == Spec => []InboxTellsTheTruth
<1>1. RInv => InboxTellsTheTruth
  BY DEF RInv
<1> QED
  BY <1>1, RecordsInvariant, PTL

(* What a read returns after its settle pass is what the next read at the    *)
(* same instant would return.                                                *)
THEOREM SettlingIsIdempotent == Spec => []SettleIsIdempotent
<1>1. IInv => SettleIsIdempotent
  BY RowsAreOK, SettledTwice DEF SettleIsIdempotent, Settled, SettledFreezes
<1> QED
  BY <1>1, Invariant, PTL

(* A plan the door would open is shown in progress or in its grace, and one  *)
(* shown in grace would be let in as far as its dates go: the settings, from *)
(* which the lists compute the window, and the window that was written down  *)
(* never disagree about a settled row.                                       *)
LEMMA ShownIsAdmitted ==
  ASSUME NEW row, NEW fs, NEW t \in Time, NEW cfg \in Settings, RowOK(row, fs, t),
         GraceOnRecord(row, t), ~IsDue(row, cfg, t)
  PROVE  /\ DoorOpensFor(row, cfg, t) =>
              IsInProgress(row) \/ InGrace(row, cfg, t) \/ t = row.endsAt
         /\ InGrace(row, cfg, t) =>
              DoorOpensFor([row EXCEPT !.sessionsRemaining = Null], cfg, t)
<1>0. Null \notin Int /\ t \in Nat
  BY TermsAssumption DEF Time
<1>1. /\ row \in SoldPlan /\ row.endsAt \in Nat
      /\ row.status \in {"EXPIRED", "IN_GRACE"} => row.endsAt <= t
      /\ row.status = "IN_GRACE" => row.graceUsedAt # Null /\ row.graceEndsAt # Null
  BY DEF RowOK, InOrder, SoldPlan, Time
<1>2. GraceDays(cfg) \in Nat
  BY DEF GraceDays, Settings
<1>3. ASSUME DoorOpensFor(row, cfg, t)
      PROVE  IsInProgress(row) \/ InGrace(row, cfg, t) \/ t = row.endsAt
  <2>1. ~IsUsedUp(row)
    BY <1>1, <1>3 DEF IsUsedUp, DoorOpensFor, SoldPlan
  <2>2. CASE row.status = "EXPIRED"
    <3>1. row.graceUsedAt = Null /\ row.graceEndsAt = Null /\ ~IsDayPass(row)
      BY <1>3, <2>2 DEF DoorOpensFor, GraceOnRecord
    <3>2. t <= AddDays(row.endsAt, GraceDays(cfg))
      BY <1>3, <2>2, <3>1 DEF DoorOpensFor, AccessUntil
    <3>3. t = row.endsAt \/ row.endsAt < t
      BY <1>0, <1>1, <2>2
    <3> QED
      BY <2>2, <3>1, <3>2, <3>3 DEF InGrace, AccessUntilShown
  <2>3. CASE row.status # "EXPIRED"
    BY <1>3, <2>1, <2>3 DEF DoorOpensFor, IsInProgress
  <2> QED
    BY <2>2, <2>3
<1>4. ASSUME InGrace(row, cfg, t)
      PROVE  DoorOpensFor([row EXCEPT !.sessionsRemaining = Null], cfg, t)
  <2> DEFINE open == [row EXCEPT !.sessionsRemaining = Null]
  <2>1. /\ open.status = row.status /\ open.sessionsRemaining = Null
        /\ open.graceUsedAt = row.graceUsedAt /\ open.graceEndsAt = row.graceEndsAt
        /\ open.endsAt = row.endsAt /\ open.plan = row.plan
    BY <1>1 DEF SoldPlan
  <2>2. row.status \in {"IN_GRACE", "EXPIRED"}
    BY <1>4 DEF InGrace
  <2>3. row.status = "EXPIRED" => row.graceUsedAt = Null
    BY <1>4 DEF InGrace
  <2>4. ~IsDayPass(row) /\ t <= AccessUntil(row, cfg)
    <3>1. CASE row.status = "IN_GRACE"
      <4>1. ~IsDayPass(row) /\ row.graceEndsAt # Null /\ row.graceEndsAt \in Nat
        BY <1>1, <3>1 DEF GraceOnRecord, SoldPlan, Time
      <4>2. ~ (row.graceEndsAt <= t)
        BY <3>1, <4>1 DEF IsDue
      <4> QED
        BY <1>0, <4>1, <4>2 DEF AccessUntil
    <3>2. CASE row.status = "EXPIRED"
      <4>1. /\ row.graceUsedAt = Null /\ row.graceEndsAt = Null
            /\ row.endsAt < t /\ t <= AccessUntilShown(row, cfg)
        BY <1>4, <3>2 DEF InGrace, GraceOnRecord
      <4>2. ~IsDayPass(row)
        BY <1>0, <1>1, <4>1 DEF AccessUntilShown
      <4> QED
        BY <4>1, <4>2 DEF AccessUntil, AccessUntilShown
    <3> QED
      BY <2>2, <3>1, <3>2
  <2> HIDE DEF open
  <2>5. ~IsDayPass(open) /\ t <= AccessUntil(open, cfg)
    BY <2>1, <2>4 DEF IsDayPass, AccessUntil
  <2>6. DoorOpensFor(open, cfg, t)
    BY <2>1, <2>2, <2>3, <2>5 DEF DoorOpensFor
  <2> QED
    BY <2>6 DEF open
<1> QED
  BY <1>3, <1>4

(* What the lists show is what the door does, in every state and whatever    *)
(* the settings have become since grace was opened.                          *)
THEOREM WhatIsShownIsAdmitted == Spec => []ShownAsAdmitted
<1>1. RInv => ShownAsAdmitted
  <2> SUFFICES ASSUME RInv, NEW s \in Subs
               PROVE  /\ DoorOpensFor(Settled(s), settings, now) =>
                           \/ IsInProgress(Settled(s))
                           \/ InGrace(Settled(s), settings, now)
                           \/ now = Settled(s).endsAt
                      /\ InGrace(Settled(s), settings, now) =>
                           DoorOpensFor([Settled(s) EXCEPT !.sessionsRemaining = Null],
                                        settings, now)
    BY DEF ShownAsAdmitted
  <2>1. /\ RowOK(Settled(s), SettledFreezes(s), now)
        /\ GraceOnRecord(Settled(s), now) /\ now \in Time /\ settings \in Settings
    BY SettledIsRecorded, RowsAreRecorded DEF RecordOK
  <2>2. ~IsDue(Settled(s), settings, now)
    BY RowsAreRecorded, SettledTwice DEF Settled
  <2> QED
    BY <2>1, <2>2, ShownIsAdmitted
<1> QED
  BY <1>1, RecordsInvariant, PTL

-----------------------------------------------------------------------------
(* The yearly cap.  What is on record of each freeze is the sum it was       *)
(* granted on: the days counted of the earlier freezes that still ran less   *)
(* than a year before it began, and its own.  No operation changes a freeze  *)
(* that is closed, and all but the newest are.                               *)

CountsOf(fs) == [j \in DOMAIN fs |-> CountedDays(fs[j])]

(* Those before freeze i that counted when i was granted. *)
Earlier(fs, i) ==
  {j \in DOMAIN fs : j < i /\ EpisodeEnd(fs[j]) > fs[i].startedAt - YearDays * Day}

InSequence(fs) ==
  \A j \in DOMAIN fs :
    /\ fs[j].endedAt = AddDays(fs[j].startedAt, fs[j].days)
    /\ ~IsOpen(fs[j]) =>
         fs[j].startedAt <= fs[j].unfrozenAt /\ fs[j].unfrozenAt <= fs[j].endedAt
    /\ \A i \in DOMAIN fs :
         j < i => ~IsOpen(fs[j]) /\ fs[j].unfrozenAt <= fs[i].startedAt

WithinCap(fs, cap) ==
  cap > 0 =>
    \A i \in DOMAIN fs : Total(CountsOf(fs), Earlier(fs, i)) + fs[i].days <= cap

YearOK(fs, cap) == InSequence(fs) /\ WithinCap(fs, cap)

LEMMA FreezeFields ==
  ASSUME NEW fs \in Seq(Episode)
  PROVE  /\ IsFiniteSet(DOMAIN fs) /\ Len(fs) \in Nat /\ DOMAIN fs = 1 .. Len(fs)
         /\ \A j \in DOMAIN fs :
              /\ fs[j] \in Episode
              /\ fs[j].days \in Nat \ {0} /\ fs[j].startedAt \in Nat
              /\ fs[j].endedAt \in Nat /\ fs[j].unfrozenAt \in Nat \cup {Null}
              /\ EpisodeEnd(fs[j]) \in Nat
<1>1. Len(fs) \in Nat /\ DOMAIN fs = 1 .. Len(fs)
      /\ \A j \in 1 .. Len(fs) : fs[j] \in Episode
  BY FreezesAreEpisodes
<1>2. IsFiniteSet(DOMAIN fs)
  BY <1>1, FS_Interval
<1>3. \A j \in DOMAIN fs :
        /\ fs[j].days \in Nat \ {0} /\ fs[j].startedAt \in Nat
        /\ fs[j].endedAt \in Nat /\ fs[j].unfrozenAt \in Nat \cup {Null}
  BY <1>1 DEF Episode, Time
<1> QED
  BY <1>1, <1>2, <1>3 DEF EpisodeEnd, IsOpen

(* The days counted of a freeze are a number, and cover the time it ran.     *)
LEMMA RoundedUp ==
  ASSUME NEW n \in Nat, n > 0
  PROVE  /\ (n + Day - 1) \div Day \in Nat
         /\ n <= ((n + Day - 1) \div Day) * Day
<1>1. Day \in Nat /\ Day > 0
  BY TermsAssumption
<1> DEFINE m == n + Day - 1
           q == m \div Day
<1>2. m \in Nat
  BY <1>1
<1> HIDE DEF m
<1>3. q \in Int /\ m = q * Day + (m % Day) /\ m % Day \in Int
      /\ 0 <= m % Day /\ m % Day < Day
  BY <1>1, <1>2
<1>4. q >= 0
  BY <1>1, <1>2
<1> DEFINE d == q * Day
           r == m % Day
<1>5. d \in Int
  BY <1>1, <1>3
<1> HIDE DEF d, q, r
<1>6. m = d + r /\ r \in Int /\ r < Day
  BY <1>3 DEF d, r
<1>7. n <= d
  BY <1>1, <1>5, <1>6 DEF m
<1> QED
  BY <1>3, <1>4, <1>7 DEF q, d, m

LEMMA CountsCover ==
  ASSUME NEW fs \in Seq(Episode), InSequence(fs), NEW j \in DOMAIN fs
  PROVE  /\ CountedDays(fs[j]) \in Nat
         /\ CountedDays(fs[j]) <= fs[j].days
         /\ fs[j].startedAt <= EpisodeEnd(fs[j])
         /\ EpisodeEnd(fs[j]) - fs[j].startedAt <= CountedDays(fs[j]) * Day
<1> DEFINE f == fs[j]
           n == EpisodeEnd(f) - f.startedAt
<1>0. Day \in Nat /\ Day > 0 /\ Null \notin Int
  BY TermsAssumption
<1>1. /\ f.days \in Nat /\ f.startedAt \in Nat
      /\ f.endedAt \in Nat /\ f.unfrozenAt \in Nat \cup {Null}
      /\ EpisodeEnd(f) \in Nat
  BY FreezeFields
<1>2. /\ f.endedAt = f.startedAt + f.days * Day
      /\ ~IsOpen(f) => f.startedAt <= f.unfrozenAt /\ f.unfrozenAt <= f.endedAt
  BY DEF InSequence, AddDays
<1> DEFINE w == f.days * Day
<1>3. w \in Nat
  BY <1>0, <1>1
<1> HIDE DEF f, w
<1>4. f.startedAt <= EpisodeEnd(f) /\ n <= w /\ n \in Nat
  BY <1>1, <1>2, <1>3 DEF EpisodeEnd, IsOpen, w
<1>5. CASE IsOpen(f)
  BY <1>1, <1>4, <1>5 DEF CountedDays, w, f
<1>6. CASE ~IsOpen(f)
  <2>1. EpisodeEnd(f) = f.unfrozenAt /\ f.unfrozenAt \in Nat
    BY <1>1, <1>6 DEF EpisodeEnd, IsOpen
  <2> DEFINE e == ElapsedDays(f)
  <2>2. e \in Nat /\ n <= e * Day
    <3>1. CASE n = 0
      <4>1. e = 0
        BY <1>1, <2>1, <3>1 DEF ElapsedDays
      <4> QED
        BY <1>0, <3>1, <4>1
    <3>2. CASE n > 0
      <4>1. e = (n + Day - 1) \div Day
        BY <1>1, <2>1, <3>2 DEF ElapsedDays
      <4> HIDE DEF n
      <4> QED
        BY <1>4, <3>2, <4>1, RoundedUp
    <3> QED
      BY <1>4, <3>1, <3>2
  <2> HIDE DEF e, n
  <2>3. CountedDays(f) = IF f.days <= e THEN f.days ELSE e
    BY <1>6 DEF CountedDays, Least, e
  <2>4. CASE f.days <= e
    BY <1>1, <1>4, <2>3, <2>4 DEF w, f, n
  <2>5. CASE ~(f.days <= e)
    BY <1>1, <1>4, <2>2, <2>3, <2>5 DEF f, n
  <2> QED
    BY <2>4, <2>5
<1> QED
  BY <1>5, <1>6

(* What the desk adds up before it grants a freeze. *)
LEMMA UsedDaysAdd ==
  ASSUME NEW fs \in Seq(Episode), NEW t \in Time
  PROVE  FreezeDaysUsedThisYear(fs, t)
           = Total(CountsOf(fs), {j \in DOMAIN fs : EpisodeEnd(fs[j]) > t - YearDays * Day})
<1> DEFINE T == {j \in DOMAIN fs : EpisodeEnd(fs[j]) > t - YearDays * Day}
           g == CountsOf(fs)
<1>1. IsFiniteSet(T) /\ T \subseteq DOMAIN fs
  BY FreezeFields, FS_Subset
<1>2. \A s \in SUBSET T : s # {} => g[Pick(s)] = CountedDays(fs[Pick(s)])
  BY <1>1, PickIsOne DEF CountsOf
<1>7. FreezeDaysUsedThisYear(fs, t) = MapThenSumSet(LAMBDA i : CountedDays(fs[i]), T)
  BY DEF FreezeDaysUsedThisYear
<1> HIDE DEF g, T
<1>3. PICK h : Adds(g, T, h)
  BY <1>1, AddsSomehow
<1>4. \A k : k = [s \in SUBSET T |-> IF s = {} THEN 0
                                     ELSE CountedDays(fs[Pick(s)]) + k[Rest(s)]]
               => Adds(g, T, k)
  <2> SUFFICES ASSUME NEW k,
                      k = [s \in SUBSET T |-> IF s = {} THEN 0
                                  ELSE CountedDays(fs[Pick(s)]) + k[Rest(s)]]
               PROVE  Adds(g, T, k)
    OBVIOUS
  <2>1. \A s \in SUBSET T : k[s] = IF s = {} THEN 0 ELSE g[Pick(s)] + k[Rest(s)]
    BY <1>2
  <2>2. k = [s \in SUBSET T |-> k[s]]
    OBVIOUS
  <2>3. k = [s \in SUBSET T |-> IF s = {} THEN 0 ELSE g[Pick(s)] + k[Rest(s)]]
    BY <2>1, <2>2
  <2> QED
    BY <2>3 DEF Adds
<1>5. h = [s \in SUBSET T |-> IF s = {} THEN 0
                              ELSE CountedDays(fs[Pick(s)]) + h[Rest(s)]]
  <2>1. \A s \in SUBSET T :
          h[s] = IF s = {} THEN 0 ELSE CountedDays(fs[Pick(s)]) + h[Rest(s)]
    BY <1>2, <1>3 DEF Adds
  <2>2. h = [s \in SUBSET T |-> h[s]]
    BY <1>3 DEF Adds
  <2> QED
    BY <2>1, <2>2
<1>6. \E k : /\ k = [s \in SUBSET T |-> IF s = {} THEN 0
                                ELSE CountedDays(fs[Pick(s)]) + k[Rest(s)]]
             /\ FreezeDaysUsedThisYear(fs, t) = k[T]
  BY <1>5, <1>7 DEF MapThenSumSet, MapThenFoldSet, Pick, Rest
<1> QED
  BY <1>1, <1>4, <1>6, TotalAdds DEF T, g

(* Closing the open freezes: settling, unfreezing and cancelling. *)
Closes(fs, gs) ==
  /\ DOMAIN gs = DOMAIN fs
  /\ \A j \in DOMAIN fs :
       \/ gs[j] = fs[j]
       \/ /\ IsOpen(fs[j])
          /\ \E u \in fs[j].startedAt .. fs[j].endedAt :
               gs[j] = [fs[j] EXCEPT !.unfrozenAt = u]

LEMMA ClosingStays ==
  ASSUME NEW fs \in Seq(Episode), NEW gs, NEW cap, YearOK(fs, cap), Closes(fs, gs)
  PROVE  YearOK(gs, cap)
<1>0. Null \notin Int
  BY TermsAssumption
<1>1. /\ IsFiniteSet(DOMAIN fs)
      /\ \A j \in DOMAIN fs :
           /\ fs[j] \in Episode
           /\ fs[j].startedAt \in Nat /\ fs[j].endedAt \in Nat
  BY FreezeFields
<1>2. DOMAIN gs = DOMAIN fs
  BY DEF Closes
<1>3. \A j \in DOMAIN fs :
        /\ gs[j].days = fs[j].days /\ gs[j].startedAt = fs[j].startedAt
        /\ gs[j].endedAt = fs[j].endedAt
        /\ ~IsOpen(fs[j]) => gs[j] = fs[j]
        /\ gs[j] # fs[j] => gs[j].unfrozenAt \in fs[j].startedAt .. fs[j].endedAt
  <2> SUFFICES ASSUME NEW j \in DOMAIN fs, gs[j] # fs[j]
               PROVE  /\ gs[j].days = fs[j].days /\ gs[j].startedAt = fs[j].startedAt
                      /\ gs[j].endedAt = fs[j].endedAt /\ IsOpen(fs[j])
                      /\ gs[j].unfrozenAt \in fs[j].startedAt .. fs[j].endedAt
    OBVIOUS
  <2>1. IsOpen(fs[j])
    BY DEF Closes
  <2>2. PICK u \in fs[j].startedAt .. fs[j].endedAt :
          gs[j] = [fs[j] EXCEPT !.unfrozenAt = u]
    BY DEF Closes
  <2> QED
    BY <1>1, <2>1, <2>2 DEF Episode
<1>4. InSequence(gs)
  <2> SUFFICES ASSUME NEW j \in DOMAIN fs
               PROVE  /\ gs[j].endedAt = AddDays(gs[j].startedAt, gs[j].days)
                      /\ ~IsOpen(gs[j]) => /\ gs[j].startedAt <= gs[j].unfrozenAt
                                           /\ gs[j].unfrozenAt <= gs[j].endedAt
                      /\ \A i \in DOMAIN fs : j < i =>
                           ~IsOpen(gs[j]) /\ gs[j].unfrozenAt <= gs[i].startedAt
    BY <1>2 DEF InSequence
  <2>1. /\ fs[j].endedAt = AddDays(fs[j].startedAt, fs[j].days)
        /\ ~IsOpen(fs[j]) => /\ fs[j].startedAt <= fs[j].unfrozenAt
                             /\ fs[j].unfrozenAt <= fs[j].endedAt
        /\ \A i \in DOMAIN fs : j < i =>
             ~IsOpen(fs[j]) /\ fs[j].unfrozenAt <= fs[i].startedAt
    BY DEF YearOK, InSequence
  <2>2. gs[j].endedAt = AddDays(gs[j].startedAt, gs[j].days)
    BY <1>3, <2>1
  <2>3. ~IsOpen(gs[j]) => /\ gs[j].startedAt <= gs[j].unfrozenAt
                          /\ gs[j].unfrozenAt <= gs[j].endedAt
    <3>1. CASE gs[j] = fs[j]
      BY <2>1, <3>1
    <3>2. CASE gs[j] # fs[j]
      <4>1. gs[j].unfrozenAt \in fs[j].startedAt .. fs[j].endedAt
        BY <1>3, <3>2
      <4> QED
        BY <1>1, <1>3, <4>1
    <3> QED
      BY <3>1, <3>2
  <2>4. \A i \in DOMAIN fs : j < i =>
          ~IsOpen(gs[j]) /\ gs[j].unfrozenAt <= gs[i].startedAt
    BY <1>3, <2>1
  <2> QED
    BY <2>2, <2>3, <2>4
<1>5. WithinCap(gs, cap)
  <2> SUFFICES ASSUME cap > 0, NEW i \in DOMAIN fs
               PROVE  Total(CountsOf(gs), Earlier(gs, i)) + gs[i].days <= cap
    BY <1>2 DEF WithinCap
  <2>1. \A j \in DOMAIN fs : j < i => gs[j] = fs[j]
    BY <1>3 DEF YearOK, InSequence
  <2>2. Earlier(gs, i) = Earlier(fs, i)
    BY <1>2, <1>3, <2>1 DEF Earlier
  <2>3. IsFiniteSet(Earlier(fs, i)) /\ Earlier(fs, i) \subseteq DOMAIN fs
    BY <1>1, FS_Subset DEF Earlier
  <2>4. \A j \in Earlier(fs, i) : CountsOf(gs)[j] = CountsOf(fs)[j]
    BY <1>2, <2>1 DEF Earlier, CountsOf
  <2>5. Total(CountsOf(gs), Earlier(fs, i)) = Total(CountsOf(fs), Earlier(fs, i))
    BY <2>3, <2>4, TotalSame
  <2>6. Total(CountsOf(fs), Earlier(fs, i)) + fs[i].days <= cap
    BY DEF YearOK, WithinCap
  <2>7. gs[i].days = fs[i].days
    BY <1>3
  <2> QED
    BY <2>2, <2>5, <2>6, <2>7
<1> QED
  BY <1>4, <1>5 DEF YearOK

(* A freeze that the cap allows is granted after all others have ended. *)
LEMMA AnotherFreeze ==
  ASSUME NEW fs \in Seq(Episode), NEW t \in Time, NEW days \in Nat \ {0}, NEW cap \in Nat,
         YearOK(fs, cap), OpenIn(fs) = {}, ClosedBy(fs, t),
         cap > 0 => FreezeDaysUsedThisYear(fs, t) + days <= cap
  PROVE  YearOK(Append(fs, NewFreeze(t, days)), cap)
<1> DEFINE f  == NewFreeze(t, days)
           n  == Len(fs)
           gs == Append(fs, f)
<1>1. /\ f.days = days /\ f.startedAt = t /\ f.endedAt = AddDays(t, days)
      /\ IsOpen(f)
  BY DEF NewFreeze, IsOpen
<1>2. f \in Episode
  BY DaysAreTicks DEF NewFreeze, Episode
<1> HIDE DEF f
<1>3. /\ n \in Nat /\ DOMAIN fs = 1 .. n /\ IsFiniteSet(DOMAIN fs)
      /\ DOMAIN gs = (DOMAIN fs) \cup {n + 1} /\ n + 1 \notin DOMAIN fs
      /\ gs[n + 1] = f /\ \A j \in DOMAIN fs : gs[j] = fs[j]
  <2>1. /\ gs \in Seq(Episode) /\ Len(gs) = n + 1
        /\ \A j \in 1 .. n : gs[j] = fs[j]
        /\ gs[n + 1] = f
    BY <1>2, AppendProperties
  <2>2. n \in Nat /\ DOMAIN fs = 1 .. n /\ DOMAIN gs = 1 .. n + 1
    BY <2>1, LenProperties
  <2>3. 1 .. n + 1 = (1 .. n) \cup {n + 1} /\ n + 1 \notin 1 .. n
    BY <2>2
  <2> HIDE DEF gs
  <2> QED
    BY <2>1, <2>2, <2>3, FreezeFields
<1> HIDE DEF gs, n
<1>4. /\ \A j \in DOMAIN fs : ~IsOpen(fs[j]) /\ fs[j].unfrozenAt <= t
      /\ \A j \in DOMAIN fs : j < n + 1
  BY <1>3 DEF OpenIn, ClosedBy
<1>5. InSequence(gs)
  <2>1. ASSUME NEW j \in DOMAIN fs
        PROVE  /\ gs[j].endedAt = AddDays(gs[j].startedAt, gs[j].days)
               /\ ~IsOpen(gs[j]) => /\ gs[j].startedAt <= gs[j].unfrozenAt
                                    /\ gs[j].unfrozenAt <= gs[j].endedAt
               /\ \A i \in DOMAIN gs : j < i =>
                    ~IsOpen(gs[j]) /\ gs[j].unfrozenAt <= gs[i].startedAt
    BY <1>1, <1>3, <1>4 DEF YearOK, InSequence
  <2>2. \A i \in DOMAIN gs : ~(n + 1 < i)
    BY <1>3, <1>4
  <2> QED
    BY <1>1, <1>3, <2>1, <2>2 DEF InSequence
<1>6. WithinCap(gs, cap)
  <2> SUFFICES ASSUME cap > 0, NEW i \in DOMAIN gs
               PROVE  Total(CountsOf(gs), Earlier(gs, i)) + gs[i].days <= cap
    BY DEF WithinCap
  <2> DEFINE E == {j \in DOMAIN fs : EpisodeEnd(fs[j]) > gs[i].startedAt - YearDays * Day
                                     /\ j < i}
  <2>1. E \subseteq DOMAIN fs /\ IsFiniteSet(E)
    BY <1>3, FS_Subset
  <2>2. Earlier(gs, i) = E
    BY <1>3, <1>4 DEF Earlier
  <2>3. \A j \in E : CountsOf(gs)[j] = CountsOf(fs)[j]
    BY <1>3 DEF CountsOf
  <2>4. Total(CountsOf(gs), E) = Total(CountsOf(fs), E)
    <3> HIDE DEF E
    <3> QED
      BY <2>1, <2>3, TotalSame
  <2>5. CASE i = n + 1
    <3>1. E = {j \in DOMAIN fs : EpisodeEnd(fs[j]) > t - YearDays * Day}
      BY <1>1, <1>3, <1>4, <2>5
    <3> HIDE DEF E
    <3>2. Total(CountsOf(fs), E) = FreezeDaysUsedThisYear(fs, t)
      BY <3>1, UsedDaysAdd
    <3> QED
      BY <1>1, <1>3, <2>2, <2>4, <2>5, <3>2
  <2>6. CASE i \in DOMAIN fs
    <3>1. E = Earlier(fs, i)
      BY <1>3, <2>6 DEF Earlier
    <3> HIDE DEF E
    <3>2. Total(CountsOf(fs), Earlier(fs, i)) + fs[i].days <= cap
      BY <2>6 DEF YearOK, WithinCap
    <3> QED
      BY <1>3, <2>2, <2>4, <2>6, <3>1, <3>2
  <2> QED
    BY <1>3, <2>5, <2>6
<1> QED
  BY <1>5, <1>6 DEF YearOK, gs, f

LEMMA SettlingCloses ==
  ASSUME NEW row, NEW fs, NEW t \in Time, NEW cap, RowOK(row, fs, t), YearOK(fs, cap)
  PROVE  YearOK(SettleFreezes(row, fs, t), cap)
<1> DEFINE gs == SettleFreezes(row, fs, t)
<1>1. fs \in Seq(Episode)
  BY DEF RowOK
<1>2. CASE row.status = "CANCELLED"
  BY <1>2 DEF SettleFreezes
<1>3. CASE row.status # "CANCELLED"
  <2>1. gs = [j \in DOMAIN fs |->
                IF IsOverdue(fs[j], t)
                THEN [fs[j] EXCEPT !.unfrozenAt = fs[j].endedAt] ELSE fs[j]]
    BY <1>3 DEF SettleFreezes
  <2>2. \A j \in DOMAIN fs : fs[j].endedAt \in fs[j].startedAt .. fs[j].endedAt
    <3> SUFFICES ASSUME NEW j \in DOMAIN fs
                 PROVE  fs[j].endedAt \in fs[j].startedAt .. fs[j].endedAt
      OBVIOUS
    <3>1. fs[j].startedAt \in Time /\ fs[j].days \in Nat /\ fs[j].endedAt \in Nat
      BY <1>1, FreezeFields DEF Time
    <3>2. fs[j].endedAt = AddDays(fs[j].startedAt, fs[j].days)
      BY DEF YearOK, InSequence
    <3>3. fs[j].startedAt <= fs[j].endedAt
      BY <3>1, <3>2, DaysAreTicks
    <3> QED
      BY <3>1, <3>3 DEF Time
  <2> HIDE DEF gs
  <2>3. Closes(fs, gs)
    BY <2>1, <2>2 DEF Closes, IsOverdue
  <2> QED
    BY <1>1, <2>3, ClosingStays DEF gs
<1> QED
  BY <1>2, <1>3

(* An open freeze began before this instant and, once the overdue ones are   *)
(* settled, ends after it.                                                   *)
LEMMA ClosingNowStays ==
  ASSUME NEW row, NEW fs, NEW gs, NEW t \in Time, NEW cap, RowOK(row, fs, t),
         NoneOverdue(fs, t), YearOK(fs, cap), ClosedNow(fs, gs, t)
  PROVE  YearOK(gs, cap)
<1>1. fs \in Seq(Episode)
  BY DEF RowOK
<1>2. \A j \in DOMAIN fs : IsOpen(fs[j]) => t \in fs[j].startedAt .. fs[j].endedAt
  <2> SUFFICES ASSUME NEW j \in DOMAIN fs, IsOpen(fs[j])
               PROVE  t \in fs[j].startedAt .. fs[j].endedAt
    OBVIOUS
  <2>1. row.status = "FROZEN" /\ j = Len(fs) /\ row.frozenAt = fs[j].startedAt
    BY DEF RowOK, FreezeOnRecord, OpenIn
  <2>2. fs[j].startedAt <= t
    BY <2>1 DEF RowOK, InOrder, Time
  <2>3. fs[j].startedAt \in Nat /\ fs[j].endedAt \in Nat /\ ~(fs[j].endedAt <= t)
    BY <1>1, FreezeFields DEF NoneOverdue, IsOverdue
  <2> QED
    BY <2>2, <2>3 DEF Time
<1>3. Closes(fs, gs)
  BY <1>2 DEF ClosedNow, Closes
<1> QED
  BY <1>1, <1>3, ClosingStays

YearInv ==
  RInv /\ \A s \in Subs : YearOK(freezes[s], settings.maxFreezeDaysPerYear)

LEMMA SettledInYear ==
  ASSUME YearInv, NEW s \in Subs
  PROVE  YearOK(SettledFreezes(s), settings.maxFreezeDaysPerYear)
  BY RowsAreRecorded, SettlingCloses DEF YearInv, SettledFreezes

LEMMA SettledScopeInYear ==
  ASSUME YearInv, NEW scope \in SUBSET Subs, NEW s \in Subs
  PROVE  YearOK(SettledEpisodes(scope)[s], settings.maxFreezeDaysPerYear)
  BY SettledInYear DEF SettledEpisodes, YearInv

LEMMA YearOfFreeze ==
  ASSUME YearInv, NEW s \in Subs, NEW days \in FreezeRequests, Freeze(s, days),
         NEW r \in Subs
  PROVE  YearOK(freezes'[r], settings.maxFreezeDaysPerYear)
<1>0. DOMAIN freezes = Subs
  BY DEF YearInv, RInv, IInv, TypeOK
<1> DEFINE fs  == SettledFreezes(s)
           cap == settings.maxFreezeDaysPerYear
<1>1. /\ RowOK(Settled(s), fs, now) /\ RecordOK(Settled(s), fs, visits[s], now)
      /\ now \in Time /\ settings \in Settings
  BY SettledIsRecorded, RowsAreRecorded DEF YearInv
<1>2. /\ MayFreeze(Settled(s), fs, settings, now, days) /\ days \in Nat \ {0}
      /\ freezes' = [freezes EXCEPT ![s] = Append(fs, NewFreeze(now, days))]
  BY SoldPlansAssumption DEF Freeze
<1>3. YearOK(fs, cap) /\ fs \in Seq(Episode) /\ ClosedBy(fs, now) /\ cap \in Nat
  BY <1>1, SettledInYear DEF RowOK, RecordOK, Settings
<1>4. OpenIn(fs) = {} /\ (cap > 0 => FreezeDaysUsedThisYear(fs, now) + days <= cap)
  BY <1>1, <1>2 DEF MayFreeze, RowOK, FreezeOnRecord
<1> HIDE DEF fs, cap
<1>5. YearOK(Append(fs, NewFreeze(now, days)), cap)
  BY <1>1, <1>2, <1>3, <1>4, AnotherFreeze
<1> QED
  BY <1>0, <1>2, <1>5 DEF YearInv, cap

LEMMA YearOfClosing ==
  ASSUME YearInv, NEW s \in Subs, Unfreeze(s) \/ Cancel(s), NEW r \in Subs
  PROVE  YearOK(freezes'[r], settings.maxFreezeDaysPerYear)
<1>0. DOMAIN freezes = Subs
  BY DEF YearInv, RInv, IInv, TypeOK
<1> DEFINE fs == SettledFreezes(s)
<1>1. PICK gs : freezes' = [freezes EXCEPT ![s] = gs] /\ ClosedNow(fs, gs, now)
  <2>1. ClosedNow(fs, CloseNewest(fs, now), now) /\ ClosedNow(fs, CloseAll(fs, now), now)
    BY DEF ClosedNow, CloseNewest, CloseAll, IsNewestOpen
  <2> QED
    BY <2>1 DEF Unfreeze, Cancel
<1>2. RowOK(Settled(s), fs, now) /\ NoneOverdue(fs, now) /\ now \in Time
  BY SettledIsRecorded, RowsAreRecorded DEF YearInv
<1>3. YearOK(gs, settings.maxFreezeDaysPerYear)
  BY <1>1, <1>2, SettledInYear, ClosingNowStays
<1> QED
  BY <1>0, <1>1, <1>3 DEF YearInv

LEMMA YearNext ==
  ASSUME YearInv, [Next]_vars, NEW r \in Subs
  PROVE  YearOK(freezes'[r], settings.maxFreezeDaysPerYear)
<1>1. CASE freezes' = freezes
  BY <1>1 DEF YearInv
<1>2. CASE \E scope \in SUBSET Subs : freezes' = SettledEpisodes(scope)
  BY <1>2, SettledScopeInYear
<1>3. CASE \E s \in Subs, days \in FreezeRequests : Freeze(s, days)
  BY <1>3, YearOfFreeze
<1>4. CASE \E s \in Subs : Unfreeze(s) \/ Cancel(s)
  BY <1>4, YearOfClosing
<1>5. Sweep => freezes' = SettledEpisodes(Subs)
  BY DEF Sweep, Settle
<1>6. \A s \in Subs :
        /\ Settle({s}) => freezes' = SettledEpisodes({s})
        /\ Visit(s) => freezes' = SettledEpisodes(Subs)
        /\ \A next \in Subs : Renew(s, next) => freezes' = SettledEpisodes({s})
        /\ \A m \in Members, p \in Plans, enters \in BOOLEAN :
             WalkIn(s, m, p, enters) => freezes' = SettledEpisodes(Subs)
        /\ \A m \in Members, p \in Plans : Create(s, m, p) => freezes' = freezes
  BY DEF Settle, Visit, Renew, WalkIn, Create
<1>7. \/ Tick
      \/ \E m \in Members, status \in MemberStates : PatchMember(m, status)
      \/ \E p \in Shelvable : PatchPlan(p)
      \/ \E policy \in Policies : PatchSettings(policy)
      \/ UNCHANGED vars
      => freezes' = freezes
  BY DEF Tick, PatchMember, PatchPlan, PatchSettings, vars
<1>8. Subs \in SUBSET Subs /\ \A s \in Subs : {s} \in SUBSET Subs
  OBVIOUS
<1>9. CASE Sweep
  BY <1>2, <1>5, <1>8, <1>9
<1>10. CASE \E s \in Subs :
              \/ Settle({s}) \/ Visit(s)
              \/ \E m \in Members, p \in Plans : Create(s, m, p)
              \/ \E m \in Members, p \in Plans, enters \in BOOLEAN :
                   WalkIn(s, m, p, enters)
              \/ \E next \in Subs : Renew(s, next)
  <2>1. PICK s \in Subs :
              \/ Settle({s}) \/ Visit(s)
              \/ \E m \in Members, p \in Plans : Create(s, m, p)
              \/ \E m \in Members, p \in Plans, enters \in BOOLEAN :
                   WalkIn(s, m, p, enters)
              \/ \E next \in Subs : Renew(s, next)
    BY <1>10
  <2>2. \/ freezes' = freezes
        \/ freezes' = SettledEpisodes({s})
        \/ freezes' = SettledEpisodes(Subs)
    BY <1>6, <2>1
  <2> QED
    BY <1>1, <1>2, <1>8, <2>2
<1> QED
  BY <1>1, <1>3, <1>4, <1>7, <1>9, <1>10 DEF Next

-----------------------------------------------------------------------------
(* From days to ticks: sets that are small one by one are small together. *)

LEMMA SmallTogether ==
  ASSUME NEW c, NEW S, NEW group, NEW d \in Nat, IsFiniteSet(S),
         \A j \in S : /\ IsFiniteSet(group[j]) /\ c[j] \in Nat
                      /\ Cardinality(group[j]) <= c[j] * d
  PROVE  /\ IsFiniteSet(All(group, S))
         /\ Cardinality(All(group, S)) <= Total(c, S) * d
<1> DEFINE Claim(U) == /\ IsFiniteSet(All(group, U))
                       /\ Cardinality(All(group, U)) <= Total(c, U) * d
           T == {U \in SUBSET S : ~Claim(U)}
<1>1. T \subseteq SUBSET S /\ {} \notin T
  <2>1. All(group, {}) = {}
    BY DEF All
  <2>2. Total(c, {}) * d = 0
    BY TotalOfNone
  <2>3. IsFiniteSet(All(group, {})) /\ Cardinality(All(group, {})) = 0
    BY <2>1, FS_EmptySet
  <2>4. Claim({})
    BY <2>2, <2>3
  <2> HIDE DEF Claim
  <2> QED
    BY <2>4
<1>2. ASSUME T # {} PROVE FALSE
  <2> HIDE DEF T
  <2>1. PICK U \in T : /\ U # {} /\ U \subseteq S /\ IsFiniteSet(U)
                      /\ Pick(U) \in U /\ Rest(U) \notin T
                      /\ Rest(U) \subseteq U /\ IsFiniteSet(Rest(U))
    BY <1>1, <1>2, Smallest
  <2> DEFINE p == Pick(U)
             V == Rest(U)
  <2>2. ~Claim(U) /\ Claim(V)
    BY <2>1 DEF T
  <2>3. p \in S /\ V \subseteq S /\ U = V \cup {p}
    BY <2>1 DEF Rest
  <2>4. Total(c, U) = c[p] + Total(c, V)
    BY <2>1, TotalStep
  <2>5. IsFiniteSet(V)
    BY <2>1
  <2> HIDE DEF p, V
  <2>6. All(group, U) = All(group, V) \cup group[p]
    BY <2>3 DEF All
  <2> DEFINE A == All(group, V)
             B == group[p]
  <2>7. /\ IsFiniteSet(A) /\ Cardinality(A) <= Total(c, V) * d
        /\ IsFiniteSet(B) /\ Cardinality(B) <= c[p] * d /\ c[p] \in Nat
    BY <2>2, <2>3
  <2>8. Total(c, V) \in Int
    BY <2>3, <2>5, TotalIsNumber
  <2> HIDE DEF A, B
  <2>9. /\ IsFiniteSet(A \cup B)
        /\ Cardinality(A \cup B) <= Cardinality(A) + Cardinality(B)
    <3>1. /\ IsFiniteSet(A \cup B)
          /\ Cardinality(A \cup B)
               = Cardinality(A) + Cardinality(B) - Cardinality(A \cap B)
      BY <2>7, FS_Union
    <3>2. IsFiniteSet(A \cap B)
      BY <2>7, FS_Subset
    <3>3. Cardinality(A) \in Nat /\ Cardinality(B) \in Nat /\ Cardinality(A \cap B) \in Nat
      BY <2>7, <3>2, FS_CardinalityType
    <3> QED
      BY <3>1, <3>3
  <2>10. Total(c, U) * d = c[p] * d + Total(c, V) * d
    BY <2>4, <2>7, <2>8
  <2>11. IsFiniteSet(All(group, U)) /\ All(group, U) = A \cup B
    BY <2>6, <2>9 DEF A, B
  <2>12. /\ Cardinality(A) \in Nat /\ Cardinality(B) \in Nat
         /\ Cardinality(A \cup B) \in Nat
    BY <2>7, <2>9, FS_CardinalityType
  <2> DEFINE x == c[p] * d
             y == Total(c, V) * d
  <2>13. x \in Int /\ y \in Int
    BY <2>7, <2>8
  <2>14. Cardinality(A \cup B) <= x + y
    <3> HIDE DEF x, y
    <3>1. Cardinality(A) <= y /\ Cardinality(B) <= x
      BY <2>7 DEF x, y
    <3> QED
      BY <2>9, <2>12, <2>13, <3>1
  <2> QED
    BY <2>2, <2>10, <2>11, <2>14
<1> QED
  BY <1>2

Ran(fs) == [j \in DOMAIN fs |-> fs[j].startedAt .. (EpisodeEnd(fs[j]) - 1)]

LEMMA FrozenTicks ==
  ASSUME NEW fs \in Seq(Episode), NEW cap \in Nat, cap > 0, YearOK(fs, cap),
         NEW i \in DOMAIN fs
  PROVE  LET end == EpisodeEnd(fs[i])
         IN  Cardinality(PausedTicks(fs, end - YearDays * Day, end)) <= cap * Day
<1>0. Day \in Nat /\ Day > 0 /\ YearDays \in Nat
  BY TermsAssumption
<1> DEFINE end  == EpisodeEnd(fs[i])
           from == end - YearDays * Day
           S    == Earlier(fs, i) \cup {i}
           c    == [j \in DOMAIN fs |->
                      IF j = i THEN fs[i].days ELSE CountedDays(fs[j])]
           P    == PausedTicks(fs, from, end)
<1>1. /\ IsFiniteSet(DOMAIN fs) /\ DOMAIN fs = 1 .. Len(fs)
      /\ \A j \in DOMAIN fs :
           /\ fs[j].days \in Nat /\ fs[j].startedAt \in Nat
           /\ EpisodeEnd(fs[j]) \in Nat
  BY FreezeFields
<1>2. \A j \in DOMAIN fs :
        /\ CountedDays(fs[j]) \in Nat /\ CountedDays(fs[j]) <= fs[j].days
        /\ fs[j].startedAt <= EpisodeEnd(fs[j])
        /\ EpisodeEnd(fs[j]) - fs[j].startedAt <= CountedDays(fs[j]) * Day
  BY CountsCover DEF YearOK
<1> DEFINE year == YearDays * Day
<1>3. year \in Nat /\ from = end - year
  BY <1>0
<1> HIDE DEF year
<1>4. /\ Earlier(fs, i) \subseteq DOMAIN fs /\ i \notin Earlier(fs, i)
      /\ IsFiniteSet(Earlier(fs, i)) /\ IsFiniteSet(S) /\ S \subseteq DOMAIN fs
  <2>1. Earlier(fs, i) \subseteq DOMAIN fs /\ i \notin Earlier(fs, i)
    BY <1>1 DEF Earlier
  <2> QED
    BY <1>1, <2>1, FS_Subset
<1>5. /\ \A j \in S : c[j] \in Nat
      /\ Total(c, S) <= cap
  <2>1. \A j \in DOMAIN fs : c[j] \in Nat
    BY <1>1, <1>2
  <2>2. c[i] = fs[i].days
    OBVIOUS
  <2>3. \A j \in Earlier(fs, i) : c[j] = CountsOf(fs)[j]
    BY <1>4 DEF CountsOf
  <2> HIDE DEF c
  <2>4. Total(c, S) = c[i] + Total(c, Earlier(fs, i))
    BY <1>4, <2>1, TotalWith
  <2>5. Total(c, Earlier(fs, i)) = Total(CountsOf(fs), Earlier(fs, i))
    BY <1>4, <2>3, TotalSame
  <2>6. Total(CountsOf(fs), Earlier(fs, i)) + fs[i].days <= cap
    BY DEF YearOK, WithinCap
  <2>7. \A j \in Earlier(fs, i) : c[j] \in Int
    BY <1>4, <2>1
  <2>8. Total(c, Earlier(fs, i)) \in Int
    BY <1>4, <2>7, TotalIsNumber
  <2> QED
    BY <1>1, <1>4, <2>1, <2>2, <2>4, <2>5, <2>6, <2>8
<1>6. \A j \in S : /\ IsFiniteSet(Ran(fs)[j])
                   /\ Cardinality(Ran(fs)[j]) <= c[j] * Day
  <2> SUFFICES ASSUME NEW j \in S
               PROVE  /\ IsFiniteSet(Ran(fs)[j])
                      /\ Cardinality(Ran(fs)[j]) <= c[j] * Day
    OBVIOUS
  <2> DEFINE a == fs[j].startedAt
             b == EpisodeEnd(fs[j])
  <2>1. j \in DOMAIN fs /\ Ran(fs)[j] = a .. (b - 1)
    BY <1>4 DEF Ran
  <2>2. a \in Nat /\ b \in Nat /\ a <= b /\ b - a <= CountedDays(fs[j]) * Day
    BY <1>1, <1>2, <2>1
  <2>3. CountedDays(fs[j]) \in Nat /\ c[j] \in Nat /\ CountedDays(fs[j]) <= c[j]
    BY <1>1, <1>2, <2>1
  <2> HIDE DEF a, b, c
  <2>4. /\ CountedDays(fs[j]) * Day \in Nat /\ c[j] * Day \in Nat
        /\ CountedDays(fs[j]) * Day <= c[j] * Day
    BY <1>0, <2>3
  <2>5. IsFiniteSet(a .. (b - 1)) /\ Cardinality(a .. (b - 1)) = b - a
    <3>1. a \in Int /\ b - 1 \in Int
      BY <2>2
    <3>2. /\ IsFiniteSet(a .. (b - 1))
          /\ Cardinality(a .. (b - 1)) = IF a > b - 1 THEN 0 ELSE (b - 1) - a + 1
      BY <3>1, FS_Interval
    <3> QED
      BY <2>2, <3>2
  <2> DEFINE x == CountedDays(fs[j]) * Day
             y == c[j] * Day
  <2>6. b - a <= x /\ x <= y /\ x \in Nat /\ y \in Nat
    BY <2>2, <2>4
  <2> HIDE DEF x, y
  <2>7. b - a <= y
    BY <2>2, <2>6
  <2> QED
    BY <2>1, <2>5, <2>7 DEF y
<1>7. P \subseteq All(Ran(fs), S)
  <2> SUFFICES ASSUME NEW t \in P PROVE \E j \in S : t \in Ran(fs)[j]
    BY DEF All
  <2>1. t \in Int /\ from <= t /\ t < end
    BY <1>1, <1>3 DEF PausedTicks
  <2>2. PICK j \in DOMAIN fs : fs[j].startedAt <= t /\ t < EpisodeEnd(fs[j])
    BY DEF PausedTicks
  <2>3. t \in Ran(fs)[j]
    BY <1>1, <2>1, <2>2 DEF Ran
  <2>4. ~(i < j)
    <3> SUFFICES ASSUME i < j PROVE FALSE
      OBVIOUS
    <3>1. ~IsOpen(fs[i]) /\ fs[i].unfrozenAt <= fs[j].startedAt
      BY DEF YearOK, InSequence
    <3>2. end <= fs[j].startedAt
      BY <3>1 DEF EpisodeEnd
    <3> QED
      BY <1>1, <2>1, <2>2, <3>2
  <2>5. j = i \/ j < i
    BY <1>1, <2>4
  <2>6. EpisodeEnd(fs[j]) > fs[i].startedAt - YearDays * Day
    BY <1>1, <1>2, <1>3, <2>1, <2>2 DEF year
  <2>7. j \in S
    BY <2>5, <2>6 DEF Earlier
  <2> QED
    BY <2>3, <2>7
<1> HIDE DEF S, c, P
<1>8. /\ IsFiniteSet(All(Ran(fs), S))
      /\ Cardinality(All(Ran(fs), S)) <= Total(c, S) * Day
  BY <1>0, <1>4, <1>5, <1>6, SmallTogether
<1>9. Total(c, S) * Day <= cap * Day /\ Total(c, S) * Day \in Int /\ cap * Day \in Int
  <2>1. Total(c, S) \in Int
    BY <1>4, <1>5, TotalIsNumber
  <2> QED
    BY <1>0, <1>5, <2>1
<1>10. Cardinality(P) <= Cardinality(All(Ran(fs), S)) /\ IsFiniteSet(P)
  BY <1>7, <1>8, FS_Subset
<1>11. Cardinality(P) \in Int /\ Cardinality(All(Ran(fs), S)) \in Int
  BY <1>8, <1>10, FS_CardinalityType
<1>12. Cardinality(P) <= cap * Day
  BY <1>8, <1>9, <1>10, <1>11
<1> QED
  BY <1>12 DEF P

(* The gym may switch freezing off and on and change everything else, but    *)
(* not the yearly cap: the property speaks of one cap.                       *)
OneCap == \A p, q \in Policies : p.maxFreezeDaysPerYear = q.maxFreezeDaysPerYear

LEMMA YearKept == ASSUME OneCap PROVE YearInv /\ [Next]_vars => YearInv'
<1> SUFFICES ASSUME YearInv, [Next]_vars PROVE YearInv'
  OBVIOUS
<1>1. RInv'
  BY RecNext DEF YearInv
<1>2. settings \in Policies /\ settings' \in Policies
  BY <1>1 DEF YearInv, RInv, IInv, TypeOK
<1>3. settings'.maxFreezeDaysPerYear = settings.maxFreezeDaysPerYear
  BY <1>2 DEF OneCap
<1> QED
  BY <1>1, <1>3, YearNext DEF YearInv

(* In no rolling year has a plan stood frozen for longer than the yearly     *)
(* cap, although the desk counts rounded days, looks at a year that begins   *)
(* elsewhere, and reserves for an open freeze days it may not use.           *)
THEOREM YearlyCapKept == ASSUME OneCap PROVE Spec => []YearlyCapHolds
<1>1. Init => YearInv
  <2> SUFFICES ASSUME Init PROVE YearInv
    OBVIOUS
  <2>1. \A cap : YearOK(<<>>, cap)
    BY DEF YearOK, InSequence, WithinCap
  <2>2. \A s \in Subs : freezes[s] = <<>>
    BY DEF Init
  <2> QED
    BY <2>1, <2>2, RecInit DEF YearInv
<1>2. YearInv /\ [Next]_vars => YearInv'
  BY YearKept
<1>3. YearInv => YearlyCapHolds
  <2> SUFFICES ASSUME YearInv, settings.maxFreezeDaysPerYear > 0,
                      NEW s \in Subs, NEW i \in DOMAIN freezes[s]
               PROVE  LET end == EpisodeEnd(freezes[s][i])
                      IN  Cardinality(PausedTicks(freezes[s], end - YearDays * Day, end))
                            <= settings.maxFreezeDaysPerYear * Day
    BY DEF YearlyCapHolds
  <2>1. /\ freezes[s] \in Seq(Episode)
        /\ settings.maxFreezeDaysPerYear \in Nat
        /\ YearOK(freezes[s], settings.maxFreezeDaysPerYear)
    BY RowsAreRecorded DEF YearInv, RowOK, Settings
  <2> QED
    BY <2>1, FrozenTicks
<1> QED
  BY <1>1, <1>2, <1>3, PTL DEF Spec
=============================================================================
