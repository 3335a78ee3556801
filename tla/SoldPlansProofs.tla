-------------------------- MODULE SoldPlansProofs --------------------------
(* Theorems about SoldPlans, for every gym, plan, policy and bound. *)
EXTENDS SoldPlans, SequenceTheorems, TLAPS

-----------------------------------------------------------------------------
(* Calendar arithmetic *)

LEMMA DaysAreTicks ==
  ASSUME NEW t \in Time, NEW d \in Nat
  PROVE  AddDays(t, d) \in Time /\ t <= AddDays(t, d)
         /\ (d > 0 => t < AddDays(t, d))
<1>1. Day \in Nat \ {0}
  BY TermsAssumption
<1>2. d * Day \in Nat
  BY <1>1
<1>3. d > 0 => d * Day > 0
  BY <1>1
<1> QED
  BY <1>2, <1>3 DEF AddDays, Time

LEMMA MidnightIsAhead ==
  ASSUME NEW t \in Time
  PROVE  GymMidnightAfter(t) \in Time /\ t < GymMidnightAfter(t)
<1>1. Day \in Nat \ {0}
  BY TermsAssumption
<1> DEFINE q == t \div Day
<1>2. q \in Int /\ t = q * Day + (t % Day) /\ 0 <= t % Day /\ t % Day < Day
  BY <1>1 DEF Time
<1>3. (q + 1) * Day = q * Day + Day
  BY <1>1, <1>2
<1> QED
  BY <1>1, <1>2, <1>3 DEF GymMidnightAfter, GymDay, Time

LEMMA SaleEndsLater ==
  ASSUME NEW p \in Plans, NEW t \in Time
  PROVE  SoldPlanEndsAt(p, t) \in Time /\ t < SoldPlanEndsAt(p, t)
<1>1. Terms[p].durationDays \in Nat \ {0}
  BY TermsAssumption DEF PlanTerms
<1> QED
  BY <1>1, DaysAreTicks, MidnightIsAhead DEF SoldPlanEndsAt

LEMMA SellRowType ==
  ASSUME NEW m \in Members, NEW p \in Plans, NEW t \in Time
  PROVE  SellRow(m, p, t) \in SoldPlan
<1>1. Terms[p].sessions \in Nat \cup {Null}
  BY TermsAssumption DEF PlanTerms
<1> QED
  BY <1>1, SaleEndsLater DEF SellRow, Unsold, SoldPlan, Status, Time

-----------------------------------------------------------------------------
(* One row and its freezes: what each operation does to them keeps them of   *)
(* their type, in agreement with each other and in order.                    *)

RowOK(row, fs, t) ==
  /\ row \in SoldPlan
  /\ fs \in Seq(Episode)
  /\ FreezeOnRecord(row, fs)
  /\ InOrder(row, t)

(* An episode-by-episode rewriting of a list of freezes is such a list. *)
LEMMA RewrittenFreezes ==
  ASSUME NEW fs \in Seq(Episode), NEW gs,
         gs = [i \in 1 .. Len(fs) |-> gs[i]],
         \A i \in 1 .. Len(fs) : gs[i] \in Episode
  PROVE  /\ gs \in Seq(Episode)
         /\ Len(gs) = Len(fs)
         /\ DOMAIN gs = 1 .. Len(fs)
<1>1. Len(fs) \in Nat
  BY LenProperties
<1>2. gs \in [1 .. Len(fs) -> Episode]
  OBVIOUS
<1>3. gs \in Seq(Episode)
  BY <1>1, <1>2, SeqDef
<1>4. Len(gs) \in Nat /\ DOMAIN gs = 1 .. Len(gs)
  BY <1>3, LenProperties
<1>5. DOMAIN gs = 1 .. Len(fs)
  BY <1>2
<1>6. Len(gs) = Len(fs)
  BY <1>1, <1>4, <1>5
<1> QED
  BY <1>3, <1>5, <1>6

LEMMA FreezesAreEpisodes ==
  ASSUME NEW fs \in Seq(Episode)
  PROVE  /\ Len(fs) \in Nat
         /\ DOMAIN fs = 1 .. Len(fs)
         /\ \A i \in 1 .. Len(fs) :
              /\ fs[i] \in Episode
              /\ fs[i].endedAt \in Time /\ fs[i].startedAt \in Time
<1>1. Len(fs) \in Nat /\ DOMAIN fs = 1 .. Len(fs)
  BY LenProperties
<1>2. \A i \in 1 .. Len(fs) : fs[i] \in Episode
  BY ElementOfSeq
<1> QED
  BY <1>1, <1>2 DEF Episode

LEMMA SettledFreezesType ==
  ASSUME NEW row \in SoldPlan, NEW fs \in Seq(Episode), NEW t \in Time
  PROVE  /\ SettleFreezes(row, fs, t) \in Seq(Episode)
         /\ Len(SettleFreezes(row, fs, t)) = Len(fs)
         /\ DOMAIN SettleFreezes(row, fs, t) = 1 .. Len(fs)
<1> DEFINE gs == SettleFreezes(row, fs, t)
<1>1. DOMAIN fs = 1 .. Len(fs) /\ \A i \in 1 .. Len(fs) : fs[i] \in Episode
  BY FreezesAreEpisodes
<1>2. CASE row.status = "CANCELLED"
  <2>1. gs = fs
    BY <1>2 DEF SettleFreezes
  <2> QED
    BY <1>1, <2>1
<1>3. CASE row.status # "CANCELLED"
  <2>1. gs = [i \in 1 .. Len(fs) |->
                IF IsOverdue(fs[i], t)
                THEN [fs[i] EXCEPT !.unfrozenAt = fs[i].endedAt] ELSE fs[i]]
    BY <1>1, <1>3 DEF SettleFreezes
  <2> HIDE DEF gs
  <2>2. \A i \in 1 .. Len(fs) : gs[i] \in Episode
    BY <1>1, <2>1 DEF Episode, Time
  <2>3. gs = [i \in 1 .. Len(fs) |-> gs[i]]
    BY <2>1
  <2>4. gs \in Seq(Episode) /\ Len(gs) = Len(fs) /\ DOMAIN gs = 1 .. Len(fs)
    BY <2>2, <2>3, RewrittenFreezes
  <2> QED
    BY <2>4 DEF gs
<1> QED
  BY <1>2, <1>3

(* A plan that is not frozen has no freeze for the settle pass to close. *)
LEMMA OnlyFrozenThaws ==
  ASSUME NEW row, NEW fs, NEW t \in Time, RowOK(row, fs, t), row.status # "FROZEN"
  PROVE  SettleThaw(row, fs, t) = row /\ SettleFreezes(row, fs, t) = fs
<1> USE DEF RowOK
<1>1. \A i \in DOMAIN fs : ~IsOverdue(fs[i], t)
  BY DEF FreezeOnRecord, OpenIn, IsOverdue
<1>2. SettleThaw(row, fs, t) = row
  BY <1>1 DEF SettleThaw
<1>3. /\ SettleFreezes(row, fs, t) \in Seq(Episode)
      /\ Len(SettleFreezes(row, fs, t)) = Len(fs)
  BY SettledFreezesType
<1>4. Len(fs) \in Nat /\ DOMAIN fs = 1 .. Len(fs)
  BY LenProperties
<1>5. \A i \in 1 .. Len(fs) : SettleFreezes(row, fs, t)[i] = fs[i]
  BY <1>1, <1>4 DEF SettleFreezes
<1>6. SettleFreezes(row, fs, t) = fs
  BY <1>3, <1>5, SeqEqual
<1> QED
  BY <1>2, <1>6

(* The settle pass closes the one open freeze exactly when it is overdue, in *)
(* both tables, and expires the plan only when its dates have ended.         *)
LEMMA SettleKeeps ==
  ASSUME NEW row, NEW fs, NEW t \in Time, NEW cfg \in Settings, RowOK(row, fs, t)
  PROVE  /\ RowOK(SettleRow(row, fs, cfg, t), SettleFreezes(row, fs, t), t)
         /\ SettleRow(row, fs, cfg, t).member = row.member
         /\ SettleRow(row, fs, cfg, t).plan = row.plan
<1> DEFINE gs == SettleFreezes(row, fs, t)
           thawed == SettleThaw(row, fs, t)
           last == Len(fs)
<1> USE DEF RowOK
<1>1. /\ last \in Nat /\ DOMAIN fs = 1 .. last
      /\ \A i \in 1 .. last : fs[i] \in Episode /\ fs[i].endedAt \in Time
  BY FreezesAreEpisodes
<1>2. gs \in Seq(Episode) /\ Len(gs) = last /\ DOMAIN gs = 1 .. last
  BY SettledFreezesType
<1>3. Null \notin Int
  BY TermsAssumption
<1>4. /\ thawed \in SoldPlan /\ FreezeOnRecord(thawed, gs) /\ InOrder(thawed, t)
      /\ thawed.member = row.member /\ thawed.plan = row.plan
  <2>1. CASE row.status # "FROZEN"
    BY <2>1, OnlyFrozenThaws
  <2>2. CASE row.status = "FROZEN"
    <3>1. /\ \A i \in 1 .. last : IsOpen(fs[i]) <=> i = last
          /\ last \in 1 .. last
          /\ row.freezeEndsAt = fs[last].endedAt
          /\ row.frozenAt = fs[last].startedAt
      BY <1>1, <2>2 DEF FreezeOnRecord, OpenIn
    <3>2. CASE IsOverdue(fs[last], t)
      <4>1. thawed = ThawRow(row)
        BY <1>1, <2>2, <3>1, <3>2 DEF SettleThaw
      <4>2. \A i \in 1 .. last : ~IsOpen(gs[i])
        BY <1>1, <1>3, <2>2, <3>1, <3>2 DEF SettleFreezes, IsOpen, IsOverdue, Episode, Time
      <4>3. OpenIn(gs) = {}
        BY <1>2, <4>2 DEF OpenIn
      <4>4. thawed \in SoldPlan
        BY <4>1 DEF ThawRow, SoldPlan, Status
      <4>5. FreezeOnRecord(thawed, gs)
        BY <4>1, <4>3 DEF ThawRow, FreezeOnRecord, SoldPlan
      <4>6. InOrder(thawed, t)
        BY <2>2, <4>1 DEF ThawRow, InOrder, SoldPlan
      <4> QED
        BY <4>1, <4>4, <4>5, <4>6 DEF ThawRow, SoldPlan
    <3>3. CASE ~IsOverdue(fs[last], t)
      <4>1. \A i \in 1 .. last : ~IsOverdue(fs[i], t)
        BY <3>1, <3>3 DEF IsOverdue
      <4>2. thawed = row
        BY <1>1, <4>1 DEF SettleThaw
      <4>3. \A i \in 1 .. last : gs[i] = fs[i]
        BY <1>1, <4>1 DEF SettleFreezes
      <4>4. gs = fs
        BY <1>2, <4>3, SeqEqual
      <4> QED
        BY <4>2, <4>4
    <3> QED
      BY <3>2, <3>3
  <2> QED
    BY <2>1, <2>2
<1> HIDE DEF thawed, gs
<1>5. CASE IsDue(thawed, cfg, t)
  <2>1. SettleRow(row, fs, cfg, t) = [thawed EXCEPT !.status = "EXPIRED"]
    BY <1>5 DEF SettleRow, thawed
  <2>2. thawed.endsAt <= t /\ thawed.status \in {"ACTIVE", "IN_GRACE"}
    BY <1>4, <1>5 DEF IsDue, InOrder
  <2> DEFINE new == [thawed EXCEPT !.status = "EXPIRED"]
  <2>3. new \in SoldPlan /\ new.member = thawed.member /\ new.plan = thawed.plan
    BY <1>4 DEF SoldPlan, Status
  <2>4. FreezeOnRecord(new, gs)
    BY <1>4, <2>2 DEF FreezeOnRecord, SoldPlan
  <2>5. InOrder(new, t)
    BY <1>4, <2>2 DEF InOrder, SoldPlan
  <2> QED
    BY <1>2, <1>4, <2>1, <2>3, <2>4, <2>5 DEF gs
<1>6. CASE ~IsDue(thawed, cfg, t)
  <2>1. SettleRow(row, fs, cfg, t) = thawed
    BY <1>6 DEF SettleRow, thawed
  <2> QED
    BY <1>2, <1>4, <2>1 DEF gs
<1> QED
  BY <1>5, <1>6

LEMMA SellStarts ==
  ASSUME NEW row, NEW fs, NEW t \in Time, RowOK(row, fs, t), row.status = "UNSOLD",
         NEW m \in Members, NEW p \in Plans
  PROVE  RowOK(SellRow(m, p, t), fs, t)
<1>1. SellRow(m, p, t) \in SoldPlan
  BY SellRowType
<1>2. OpenIn(fs) = {}
  BY DEF RowOK, FreezeOnRecord
<1>3. FreezeOnRecord(SellRow(m, p, t), fs)
  BY <1>2 DEF FreezeOnRecord, SellRow, Unsold
<1>4. InOrder(SellRow(m, p, t), t)
  BY DEF InOrder, SellRow, Unsold
<1> QED
  BY <1>1, <1>3, <1>4 DEF RowOK

LEMMA WalkInStarts ==
  ASSUME NEW row, NEW fs, NEW t \in Time, RowOK(row, fs, t), row.status = "UNSOLD",
         NEW m \in Members, NEW p \in Plans, NEW enters \in BOOLEAN
  PROVE  RowOK(WalkInRow(m, p, t, enters), fs, t)
<1> DEFINE sold == SellRow(m, p, t)
           new  == WalkInRow(m, p, t, enters)
<1>1. RowOK(sold, fs, t)
  BY SellStarts
<1> HIDE DEF sold
<1>2. new = [sold EXCEPT !.sessionsRemaining = IF enters THEN 0 ELSE @]
  BY DEF WalkInRow, sold
<1> HIDE DEF new
<1>3. new \in SoldPlan
  BY <1>1, <1>2 DEF RowOK, SoldPlan
<1>4. FreezeOnRecord(new, fs)
  BY <1>1, <1>2 DEF RowOK, FreezeOnRecord, SoldPlan
<1>5. InOrder(new, t)
  BY <1>1, <1>2 DEF RowOK, InOrder, SoldPlan
<1> QED
  BY <1>1, <1>3, <1>4, <1>5 DEF RowOK, new

LEMMA FreezeKeeps ==
  ASSUME NEW row, NEW fs, NEW t \in Time, RowOK(row, fs, t),
         NEW days \in Nat \ {0}, row.status = "ACTIVE", t < row.endsAt
  PROVE  RowOK(FreezeRow(row, t, days), Append(fs, NewFreeze(t, days)), t)
<1> DEFINE new == FreezeRow(row, t, days)
           f   == NewFreeze(t, days)
           gs  == Append(fs, f)
<1> USE DEF RowOK
<1>1. AddDays(t, days) \in Time /\ AddDays(row.endsAt, days) \in Time
  BY DaysAreTicks DEF SoldPlan
<1>2. AddDays(t, days) < AddDays(row.endsAt, days)
  <2>1. Day \in Nat /\ days * Day \in Nat
    BY TermsAssumption
  <2> QED
    BY <2>1 DEF AddDays, SoldPlan, Time
<1>3. f \in Episode
  BY <1>1 DEF NewFreeze, Episode
<1>4. /\ gs \in Seq(Episode) /\ Len(gs) = Len(fs) + 1
      /\ \A i \in 1 .. Len(fs) : gs[i] = fs[i]
      /\ gs[Len(fs) + 1] = f
  BY <1>3, AppendProperties
<1>5. Len(fs) \in Nat /\ DOMAIN fs = 1 .. Len(fs) /\ DOMAIN gs = 1 .. Len(gs)
  BY <1>4, LenProperties
<1>6. new \in SoldPlan
  BY <1>1 DEF FreezeRow, SoldPlan, Status
<1>7. \A i \in 1 .. Len(fs) : ~IsOpen(fs[i])
  BY <1>5 DEF FreezeOnRecord, OpenIn
<1>8. OpenIn(gs) = {Len(gs)}
  <2>1. IsOpen(f)
    BY DEF IsOpen, NewFreeze
  <2> QED
    BY <1>4, <1>5, <1>7, <2>1 DEF OpenIn
<1>9. FreezeOnRecord(new, gs)
  BY <1>4, <1>8 DEF FreezeOnRecord, FreezeRow, NewFreeze, SoldPlan
<1>10. InOrder(new, t)
  BY <1>1, <1>2 DEF InOrder, FreezeRow, SoldPlan, Time
<1> QED
  BY <1>4, <1>6, <1>9, <1>10

LEMMA UnfreezeKeeps ==
  ASSUME NEW row, NEW fs, NEW t \in Time, RowOK(row, fs, t), row.status = "FROZEN"
  PROVE  RowOK(UnfreezeRow(row, t), CloseNewest(fs, t), t)
<1> DEFINE new == UnfreezeRow(row, t)
           gs  == CloseNewest(fs, t)
           last == Len(fs)
<1> USE DEF RowOK
<1>1. /\ last \in Nat /\ DOMAIN fs = 1 .. last
      /\ \A i \in 1 .. last : fs[i] \in Episode
  BY FreezesAreEpisodes
<1>2. last \in 1 .. last /\ \A i \in 1 .. last : IsOpen(fs[i]) <=> i = last
  BY <1>1 DEF FreezeOnRecord, OpenIn
<1>3. gs = [i \in 1 .. last |->
              IF i = last THEN [fs[i] EXCEPT !.unfrozenAt = t] ELSE fs[i]]
  BY <1>1, <1>2 DEF CloseNewest, IsNewestOpen
<1> HIDE DEF gs
<1>4. \A i \in 1 .. last : gs[i] \in Episode
  BY <1>1, <1>3 DEF Episode
<1>5. gs = [i \in 1 .. last |-> gs[i]]
  BY <1>3
<1>6. gs \in Seq(Episode) /\ Len(gs) = last /\ DOMAIN gs = 1 .. last
  BY <1>4, <1>5, RewrittenFreezes
<1>7. \A i \in 1 .. last : ~IsOpen(gs[i])
  BY <1>1, <1>2, <1>3, TermsAssumption DEF IsOpen, Episode, Time
<1>8. OpenIn(gs) = {}
  BY <1>6, <1>7 DEF OpenIn
<1>9. UnusedFreeze(row, t) \in Nat /\ UnusedFreeze(row, t) <= row.endsAt
  BY DEF UnusedFreeze, InOrder, SoldPlan, Time
<1>10. new \in SoldPlan
  <2>1. ThawRow(row) \in SoldPlan /\ ThawRow(row).endsAt = row.endsAt
    BY DEF ThawRow, SoldPlan, Status
  <2>2. row.endsAt - UnusedFreeze(row, t) \in Time
    BY <1>9 DEF SoldPlan, Time
  <2> QED
    BY <2>1, <2>2 DEF UnfreezeRow, SoldPlan
<1>11. FreezeOnRecord(new, gs)
  BY <1>8 DEF FreezeOnRecord, UnfreezeRow, ThawRow, SoldPlan
<1>12. InOrder(new, t)
  BY DEF InOrder, UnfreezeRow, ThawRow, SoldPlan
<1> QED
  BY <1>6, <1>10, <1>11, <1>12 DEF gs

LEMMA CancelKeeps ==
  ASSUME NEW row, NEW fs, NEW t \in Time, RowOK(row, fs, t),
         row.status # "UNSOLD"
  PROVE  RowOK(CancelRow(row), CloseAll(fs, t), t)
<1> DEFINE new == CancelRow(row)
           gs  == CloseAll(fs, t)
           last == Len(fs)
<1> USE DEF RowOK
<1>1. /\ last \in Nat /\ DOMAIN fs = 1 .. last
      /\ \A i \in 1 .. last : fs[i] \in Episode
  BY FreezesAreEpisodes
<1>2. gs = [i \in 1 .. last |->
              IF IsOpen(fs[i]) THEN [fs[i] EXCEPT !.unfrozenAt = t] ELSE fs[i]]
  BY <1>1 DEF CloseAll
<1> HIDE DEF gs
<1>3. \A i \in 1 .. last : gs[i] \in Episode
  BY <1>1, <1>2 DEF Episode
<1>4. gs = [i \in 1 .. last |-> gs[i]]
  BY <1>2
<1>5. gs \in Seq(Episode) /\ Len(gs) = last /\ DOMAIN gs = 1 .. last
  BY <1>3, <1>4, RewrittenFreezes
<1>6. \A i \in 1 .. last : ~IsOpen(gs[i])
  BY <1>1, <1>2, TermsAssumption DEF IsOpen, Episode, Time
<1>7. OpenIn(gs) = {}
  BY <1>5, <1>6 DEF OpenIn
<1>8. new \in SoldPlan
  BY DEF CancelRow, SoldPlan, Status
<1>9. FreezeOnRecord(new, gs)
  BY <1>7 DEF FreezeOnRecord, CancelRow, SoldPlan
<1>10. InOrder(new, t)
  BY DEF InOrder, CancelRow, SoldPlan
<1> QED
  BY <1>5, <1>8, <1>9, <1>10 DEF gs

LEMMA VisitKeeps ==
  ASSUME NEW row, NEW fs, NEW t \in Time, NEW cfg \in Settings,
         RowOK(row, fs, t), DoorOpensFor(row, cfg, t)
  PROVE  /\ RowOK(VisitRow(row, cfg, t), fs, t)
         /\ VisitRow(row, cfg, t).member = row.member
         /\ VisitRow(row, cfg, t).plan = row.plan
<1> USE DEF RowOK
<1>1. GraceDays(cfg) \in Nat
  BY DEF GraceDays, Settings
<1>2. AddDays(row.endsAt, GraceDays(cfg)) \in Time
  BY <1>1, DaysAreTicks DEF SoldPlan
<1>3. Null \notin Int
  BY TermsAssumption
<1> DEFINE entered ==
      IF OpensGrace(row)
      THEN [row EXCEPT !.status = "IN_GRACE", !.graceUsedAt = t,
                       !.graceEndsAt = AddDays(row.endsAt, GraceDays(cfg))]
      ELSE row
<1>4. /\ entered \in SoldPlan /\ FreezeOnRecord(entered, fs) /\ InOrder(entered, t)
      /\ entered.member = row.member /\ entered.plan = row.plan
      /\ entered.sessionsRemaining = row.sessionsRemaining
  <2>1. CASE OpensGrace(row)
    <3> DEFINE new == [row EXCEPT !.status = "IN_GRACE", !.graceUsedAt = t,
                         !.graceEndsAt = AddDays(row.endsAt, GraceDays(cfg))]
    <3>1. row.status = "EXPIRED"
      BY <2>1 DEF OpensGrace
    <3>2. new \in SoldPlan
      BY <1>2 DEF SoldPlan, Status
    <3>3. FreezeOnRecord(new, fs)
      BY <3>1 DEF FreezeOnRecord, SoldPlan
    <3>4. InOrder(new, t)
      BY <1>2, <1>3, <3>1 DEF InOrder, SoldPlan, Time
    <3> QED
      BY <2>1, <3>2, <3>3, <3>4 DEF SoldPlan
  <2> QED
    BY <2>1
<1> HIDE DEF entered
<1>5. CASE row.sessionsRemaining = Null
  BY <1>4, <1>5 DEF VisitRow, entered
<1>6. CASE row.sessionsRemaining # Null
  <2> DEFINE new == [entered EXCEPT !.sessionsRemaining = @ - 1]
  <2>1. VisitRow(row, cfg, t) = new
    BY <1>6 DEF VisitRow, entered
  <2>2. row.sessionsRemaining \in Nat /\ row.sessionsRemaining > 0
    BY <1>6 DEF DoorOpensFor, SoldPlan
  <2>3. new \in SoldPlan
    BY <1>4, <2>2 DEF SoldPlan
  <2>4. FreezeOnRecord(new, fs)
    BY <1>4 DEF FreezeOnRecord, SoldPlan
  <2>5. InOrder(new, t)
    BY <1>4 DEF InOrder, SoldPlan
  <2> QED
    BY <1>4, <2>1, <2>3, <2>4, <2>5 DEF SoldPlan
<1> QED
  BY <1>5, <1>6

-----------------------------------------------------------------------------
(* The inductive invariant.  Type correctness alone is not inductive: an     *)
(* early unfreeze takes days off endsAt, which stays a date only because a   *)
(* frozen plan ends after its freeze; and a settle pass that thaws a row     *)
(* knows the freeze it closes only because the two tables agree.             *)

IInv == TypeOK /\ FrozenMatchesOpenFreeze /\ DatesInOrder

LEMMA RowsAreOK ==
  ASSUME IInv
  PROVE  /\ now \in Time /\ settings \in Settings
         /\ \A s \in Subs : RowOK(sub[s], freezes[s], now)
  BY SoldPlansAssumption
  DEF IInv, TypeOK, FrozenMatchesOpenFreeze, DatesInOrder, RowOK

LEMMA SettledRowsAreOK ==
  ASSUME IInv, NEW scope \in SUBSET Subs
  PROVE  /\ SettledSubs(scope) = [s \in Subs |-> SettledSubs(scope)[s]]
         /\ SettledEpisodes(scope) = [s \in Subs |-> SettledEpisodes(scope)[s]]
         /\ \A s \in Subs :
              /\ RowOK(SettledSubs(scope)[s], SettledEpisodes(scope)[s], now)
              /\ SettledSubs(scope)[s].member = sub[s].member
              /\ SettledSubs(scope)[s].plan = sub[s].plan
         /\ SettleNotices(scope) \subseteq NoticeType \X Subs
<1>1. \A s \in Subs :
        /\ RowOK(Settled(s), SettledFreezes(s), now)
        /\ Settled(s).member = sub[s].member
        /\ Settled(s).plan = sub[s].plan
  BY RowsAreOK, SettleKeeps DEF Settled, SettledFreezes
<1>2. \A s \in Subs : RowOK(sub[s], freezes[s], now)
  BY RowsAreOK
<1>3. SettleNotices(scope) \subseteq NoticeType \X Subs
  BY DEF SettleNotices, ExpiresIn, NoticeType
<1> QED
  BY <1>1, <1>2, <1>3 DEF SettledSubs, SettledEpisodes

(* A step that leaves every row in order leaves the invariant true. *)
LEMMA RowsSuffice ==
  ASSUME now' \in Time, settings' \in Policies,
         memberStatus' \in [Members -> MemberStatus], onSale' \in SUBSET Plans,
         visits' \in [Subs -> Seq(Time)], inbox' \in SUBSET (NoticeType \X Subs),
         sub' = [s \in Subs |-> sub'[s]], freezes' = [s \in Subs |-> freezes'[s]],
         \A s \in Subs : RowOK(sub'[s], freezes'[s], now')
  PROVE  IInv'
<1>1. sub' \in [Subs -> SoldPlan] /\ freezes' \in [Subs -> Seq(Episode)]
  BY DEF RowOK
<1>2. TypeOK'
  BY <1>1 DEF TypeOK
<1>3. FrozenMatchesOpenFreeze' /\ DatesInOrder'
  BY DEF RowOK, FrozenMatchesOpenFreeze, DatesInOrder
<1> QED
  BY <1>2, <1>3 DEF IInv

LEMMA InvInit == Init => IInv
<1> SUFFICES ASSUME Init PROVE IInv
  OBVIOUS
<1>1. Unsold \in SoldPlan
  BY DEF Unsold, SoldPlan, Status, Time
<1>2. TypeOK
  BY <1>1 DEF Init, TypeOK, Time, MemberStatus
<1>3. FrozenMatchesOpenFreeze
  BY DEF Init, FrozenMatchesOpenFreeze, FreezeOnRecord, OpenIn, Unsold
<1>4. DatesInOrder
  BY DEF Init, DatesInOrder, InOrder, Unsold
<1> QED
  BY <1>2, <1>3, <1>4 DEF IInv

LEMMA InvSettle ==
  ASSUME IInv, NEW scope \in SUBSET Subs, Settle(scope)
  PROVE  IInv'
<1>1. /\ sub' = SettledSubs(scope) /\ freezes' = SettledEpisodes(scope)
      /\ inbox' = inbox \cup SettleNotices(scope)
      /\ UNCHANGED <<now, settings, memberStatus, onSale, visits>>
  BY DEF Settle, shop
<1>2. inbox' \in SUBSET (NoticeType \X Subs)
  BY <1>1, SettledRowsAreOK DEF IInv, TypeOK
<1> QED
  BY <1>1, <1>2, SettledRowsAreOK, RowsSuffice DEF IInv, TypeOK

LEMMA InvCreate ==
  ASSUME IInv, NEW s \in Subs, NEW m \in Members, NEW p \in Plans, Create(s, m, p)
  PROVE  IInv'
<1>1. /\ sub' = [sub EXCEPT ![s] = SellRow(m, p, now)] /\ sub[s].status = "UNSOLD"
      /\ UNCHANGED <<now, settings, memberStatus, onSale, freezes, visits, inbox>>
  BY DEF Create, IsFresh, shop
<1>2. RowOK(SellRow(m, p, now), freezes[s], now)
  BY <1>1, RowsAreOK, SellStarts
<1>3. \A r \in Subs : RowOK(sub'[r], freezes'[r], now')
  BY <1>1, <1>2, RowsAreOK DEF IInv, TypeOK
<1> QED
  BY <1>1, <1>3, RowsSuffice DEF IInv, TypeOK

LEMMA InvWalkIn ==
  ASSUME IInv, NEW s \in Subs, NEW m \in Members, NEW p \in Plans,
         NEW enters \in BOOLEAN, WalkIn(s, m, p, enters)
  PROVE  IInv'
<1> DEFINE row == WalkInRow(m, p, now, enters)
<1>1. /\ sub[s].status = "UNSOLD"
      /\ sub' = [SettledSubs(Subs) EXCEPT ![s] = row]
      /\ freezes' = SettledEpisodes(Subs)
      /\ visits' = [visits EXCEPT ![s] = IF enters THEN Append(@, now) ELSE @]
      /\ inbox' = inbox \cup SettleNotices(Subs)
      /\ UNCHANGED <<now, settings, memberStatus, onSale>>
  BY DEF WalkIn, IsFresh, shop
<1>2. SettledEpisodes(Subs)[s] = freezes[s]
  BY <1>1, RowsAreOK, OnlyFrozenThaws DEF SettledEpisodes, SettledFreezes
<1>3. RowOK(row, SettledEpisodes(Subs)[s], now)
  BY <1>1, <1>2, RowsAreOK, WalkInStarts
<1>4. \A r \in Subs : RowOK(sub'[r], freezes'[r], now')
  BY <1>1, <1>3, SettledRowsAreOK
<1>5. inbox' \in SUBSET (NoticeType \X Subs)
  BY <1>1, SettledRowsAreOK DEF IInv, TypeOK
<1>6. visits' \in [Subs -> Seq(Time)]
  BY <1>1, AppendProperties DEF IInv, TypeOK
<1>7. sub' = [r \in Subs |-> sub'[r]] /\ freezes' = [r \in Subs |-> freezes'[r]]
  BY <1>1, SettledRowsAreOK
<1> QED
  BY <1>1, <1>4, <1>5, <1>6, <1>7, RowsSuffice DEF IInv, TypeOK

LEMMA InvRenew ==
  ASSUME IInv, NEW s \in Subs, NEW next \in Subs, Renew(s, next)
  PROVE  IInv'
<1> DEFINE row == SellRow(sub[s].member, sub[s].plan, now)
<1>1. /\ sub[next].status = "UNSOLD" /\ MayRenew(Settled(s), now)
      /\ sub' = [SettledSubs({s}) EXCEPT ![next] = row]
      /\ freezes' = SettledEpisodes({s})
      /\ inbox' = inbox \cup SettleNotices({s})
      /\ UNCHANGED <<now, settings, memberStatus, onSale, visits>>
  BY DEF Renew, IsFresh, shop
<1>2. RowOK(sub[s], freezes[s], now) /\ RowOK(sub[next], freezes[next], now)
  BY RowsAreOK
<1>3. /\ RowOK(Settled(s), SettledFreezes(s), now)
      /\ Settled(s).member = sub[s].member /\ Settled(s).plan = sub[s].plan
  BY <1>2, RowsAreOK, SettleKeeps DEF Settled, SettledFreezes
<1>4. sub[s].member \in Members /\ sub[s].plan \in Plans
  BY <1>1, <1>3 DEF RowOK, InOrder, MayRenew
<1>5. next # s
  <2>1. sub[s].status = "UNSOLD" => Settled(s) = sub[s]
    BY <1>2, RowsAreOK, OnlyFrozenThaws DEF Settled, SettleRow, IsDue
  <2> QED
    BY <1>1, <2>1 DEF MayRenew
<1>6. RowOK(row, freezes[next], now)
  BY <1>1, <1>2, <1>4, RowsAreOK, SellStarts
<1>7. freezes'[next] = freezes[next]
  BY <1>1, <1>5 DEF SettledEpisodes
<1>8. \A r \in Subs : RowOK(sub'[r], freezes'[r], now')
  BY <1>1, <1>6, <1>7, SettledRowsAreOK
<1>9. inbox' \in SUBSET (NoticeType \X Subs)
  BY <1>1, SettledRowsAreOK DEF IInv, TypeOK
<1>10. sub' = [r \in Subs |-> sub'[r]] /\ freezes' = [r \in Subs |-> freezes'[r]]
  BY <1>1 DEF SettledSubs, SettledEpisodes
<1> QED
  BY <1>1, <1>8, <1>9, <1>10, RowsSuffice DEF IInv, TypeOK

(* Freeze, Unfreeze and Cancel settle their row and then write it. *)
LEMMA InvDesk ==
  ASSUME IInv, NEW s \in Subs, NEW row, NEW fs, RowOK(row, fs, now),
         sub' = [sub EXCEPT ![s] = row], freezes' = [freezes EXCEPT ![s] = fs],
         inbox' = inbox \cup SettleNotices({s}),
         UNCHANGED <<now, shop, visits>>
  PROVE  IInv'
<1>1. inbox' \in SUBSET (NoticeType \X Subs)
  BY SettledRowsAreOK DEF IInv, TypeOK
<1>2. \A r \in Subs : RowOK(sub'[r], freezes'[r], now')
  BY RowsAreOK DEF IInv, TypeOK
<1>3. sub' = [r \in Subs |-> sub'[r]] /\ freezes' = [r \in Subs |-> freezes'[r]]
  BY DEF IInv, TypeOK
<1> QED
  BY <1>1, <1>2, <1>3, RowsSuffice DEF IInv, TypeOK, shop

LEMMA SettledRow ==
  ASSUME IInv, NEW s \in Subs
  PROVE  RowOK(Settled(s), SettledFreezes(s), now)
  BY RowsAreOK, SettleKeeps DEF Settled, SettledFreezes

LEMMA InvFreeze ==
  ASSUME IInv, NEW s \in Subs, NEW days \in FreezeRequests, Freeze(s, days)
  PROVE  IInv'
<1>1. Settled(s).status = "ACTIVE" /\ now < Settled(s).endsAt
  BY DEF Freeze, MayFreeze
<1>2. RowOK(FreezeRow(Settled(s), now, days),
            Append(SettledFreezes(s), NewFreeze(now, days)), now)
  BY <1>1, RowsAreOK, SettledRow, FreezeKeeps, SoldPlansAssumption
<1> QED
  BY <1>2, InvDesk DEF Freeze

LEMMA InvUnfreeze ==
  ASSUME IInv, NEW s \in Subs, Unfreeze(s)
  PROVE  IInv'
<1>1. RowOK(UnfreezeRow(Settled(s), now), CloseNewest(SettledFreezes(s), now), now)
  BY RowsAreOK, SettledRow, UnfreezeKeeps DEF Unfreeze
<1> QED
  BY <1>1, InvDesk DEF Unfreeze

LEMMA InvCancel ==
  ASSUME IInv, NEW s \in Subs, Cancel(s)
  PROVE  IInv'
<1>1. RowOK(CancelRow(Settled(s)), CloseAll(SettledFreezes(s), now), now)
  BY RowsAreOK, SettledRow, CancelKeeps DEF Cancel, MayCancel
<1> QED
  BY <1>1, InvDesk DEF Cancel

LEMMA InvVisit ==
  ASSUME IInv, NEW s \in Subs, Visit(s)
  PROVE  IInv'
<1>1. /\ DoorOpensFor(Settled(s), settings, now)
      /\ sub' = [SettledSubs(Subs) EXCEPT ![s] = VisitRow(@, settings, now)]
      /\ freezes' = SettledEpisodes(Subs)
      /\ visits' = [visits EXCEPT ![s] = Append(@, now)]
      /\ inbox' = inbox \cup SettleNotices(Subs)
                      \cup {n \in {<<"SUBSCRIPTION_IN_GRACE", s>>} :
                              OpensGrace(Settled(s))}
      /\ UNCHANGED <<now, settings, memberStatus, onSale>>
  BY DEF Visit, shop
<1>2. SettledSubs(Subs)[s] = Settled(s)
  BY DEF SettledSubs
<1>3. RowOK(VisitRow(SettledSubs(Subs)[s], settings, now), SettledEpisodes(Subs)[s], now)
  BY <1>1, <1>2, RowsAreOK, SettledRowsAreOK, VisitKeeps
<1>4. \A r \in Subs : RowOK(sub'[r], freezes'[r], now')
  BY <1>1, <1>3, SettledRowsAreOK
<1>5. inbox' \in SUBSET (NoticeType \X Subs)
  BY <1>1, SettledRowsAreOK DEF IInv, TypeOK, NoticeType
<1>6. visits' \in [Subs -> Seq(Time)]
  BY <1>1, AppendProperties DEF IInv, TypeOK
<1>7. sub' = [r \in Subs |-> sub'[r]] /\ freezes' = [r \in Subs |-> freezes'[r]]
  BY <1>1, SettledRowsAreOK
<1> QED
  BY <1>1, <1>4, <1>5, <1>6, <1>7, RowsSuffice DEF IInv, TypeOK

LEMMA InvTick == ASSUME IInv, Tick PROVE IInv'
<1>1. now' \in Time /\ now <= now'
  BY DEF Tick, IInv, TypeOK, Time
<1>2. \A s \in Subs : RowOK(sub[s], freezes[s], now')
  BY <1>1, RowsAreOK DEF RowOK, InOrder, SoldPlan, Time
<1> QED
  BY <1>1, <1>2, RowsSuffice DEF Tick, shop, IInv, TypeOK

LEMMA InvPatch ==
  ASSUME IInv,
         \/ \E m \in Members, status \in MemberStates : PatchMember(m, status)
         \/ \E p \in Shelvable : PatchPlan(p)
         \/ \E policy \in Policies : PatchSettings(policy)
  PROVE  IInv'
<1>1. /\ UNCHANGED <<now, sub, freezes, visits, inbox>>
      /\ settings' \in Policies /\ onSale' \in SUBSET Plans
      /\ memberStatus' \in [Members -> MemberStatus]
  BY SoldPlansAssumption
  DEF PatchMember, PatchPlan, PatchSettings, IInv, TypeOK
<1> QED
  BY <1>1, RowsAreOK, RowsSuffice DEF IInv, TypeOK

LEMMA InvNext == IInv /\ [Next]_vars => IInv'
<1> SUFFICES ASSUME IInv, [Next]_vars PROVE IInv'
  OBVIOUS
<1>1. CASE Tick
  BY <1>1, InvTick
<1>2. CASE Sweep
  BY <1>2, InvSettle DEF Sweep
<1>3. CASE \E s \in Subs : Settle({s})
  BY <1>3, InvSettle
<1>4. CASE \E s \in Subs, m \in Members, p \in Plans : Create(s, m, p)
  BY <1>4, InvCreate
<1>5. CASE \E s \in Subs, next \in Subs : Renew(s, next)
  BY <1>5, InvRenew
<1>6. CASE \E s \in Subs, days \in FreezeRequests : Freeze(s, days)
  BY <1>6, InvFreeze
<1>7. CASE \E s \in Subs : Unfreeze(s)
  BY <1>7, InvUnfreeze
<1>8. CASE \E s \in Subs : Cancel(s)
  BY <1>8, InvCancel
<1>9. CASE \E s \in Subs : Visit(s)
  BY <1>9, InvVisit
<1>10. CASE \/ \E m \in Members, status \in MemberStates : PatchMember(m, status)
            \/ \E p \in Shelvable : PatchPlan(p)
            \/ \E policy \in Policies : PatchSettings(policy)
  BY <1>10, InvPatch
<1>11. CASE \E s \in Subs, m \in Members, p \in Plans, enters \in BOOLEAN :
              WalkIn(s, m, p, enters)
  BY <1>11, InvWalkIn
<1>12. CASE UNCHANGED vars
  BY <1>12, RowsAreOK, RowsSuffice DEF vars, IInv, TypeOK
<1> QED
  BY <1>1, <1>2, <1>3, <1>4, <1>5, <1>6, <1>7, <1>8, <1>9, <1>10, <1>11, <1>12 DEF Next

(* In every reachable state of every gym the invariant holds: the tables are *)
(* of their type, a plan is FROZEN exactly while its newest freeze is open,  *)
(* and the dates of every plan are in order (the settle pass and the five    *)
(* handlers of the subscriptions repository, and the door).                  *)
THEOREM Invariant == Spec => []IInv
<1>1. Init => IInv
  BY InvInit
<1>2. IInv /\ [Next]_vars => IInv'
  BY InvNext
<1> QED
  BY <1>1, <1>2, PTL DEF Spec

(* Type correctness: no operation leaves a row, an episode, a visit or a     *)
(* notice outside its domain; in particular no date and no pack goes below   *)
(* zero.                                                                     *)
THEOREM TypeCorrect == Spec => []TypeOK
<1>1. IInv => TypeOK
  BY DEF IInv
<1> QED
  BY <1>1, Invariant, PTL

(* The subscriptions table and the freezes table agree in every state.       *)
THEOREM FreezesAgree == Spec => []FrozenMatchesOpenFreeze
<1>1. IInv => FrozenMatchesOpenFreeze
  BY DEF IInv
<1> QED
  BY <1>1, Invariant, PTL

(* A freeze ends before its plan, and only an ended plan is EXPIRED or in    *)
(* grace.                                                                    *)
THEOREM DatesStayInOrder == Spec => []DatesInOrder
<1>1. IInv => DatesInOrder
  BY DEF IInv
<1> QED
  BY <1>1, Invariant, PTL

-----------------------------------------------------------------------------
(* The shape of a step: apart from the clock, a transaction changes at most  *)
(* one row of its own and settles any number of others.                      *)

Kept(r) == UNCHANGED <<sub[r], freezes[r], visits[r]>>

SettledOnly(r) ==
  sub'[r] = Settled(r) /\ freezes'[r] = SettledFreezes(r) /\ visits'[r] = visits[r]

SoldNow(r) ==
  /\ IsFresh(r)
  /\ \E m \in Members, p \in Plans :
       \/ sub'[r] = SellRow(m, p, now)
       \/ \E enters \in BOOLEAN : sub'[r] = WalkInRow(m, p, now, enters)

FrozenNow(r) ==
  /\ Settled(r).status = "ACTIVE" /\ now < Settled(r).endsAt
  /\ \E days \in Nat \ {0} : sub'[r] = FreezeRow(Settled(r), now, days)

UnfrozenNow(r) ==
  Settled(r).status = "FROZEN" /\ sub'[r] = UnfreezeRow(Settled(r), now)

CancelledNow(r) ==
  MayCancel(Settled(r)) /\ sub'[r] = CancelRow(Settled(r)) /\ visits'[r] = visits[r]

VisitedNow(r) ==
  /\ DoorOpensFor(Settled(r), settings, now)
  /\ sub'[r] = VisitRow(Settled(r), settings, now)

ChangedNow(r) ==
  \/ SoldNow(r)
  \/ FrozenNow(r)
  \/ UnfrozenNow(r)
  \/ CancelledNow(r)
  \/ VisitedNow(r)

Bystander(r) == Kept(r) \/ SettledOnly(r)

LEMMA SettledIsBystander ==
  ASSUME IInv, NEW scope \in SUBSET Subs, NEW r \in Subs, UNCHANGED visits,
         sub'[r] = SettledSubs(scope)[r], freezes'[r] = SettledEpisodes(scope)[r]
  PROVE  Bystander(r)
  BY DEF Bystander, Kept, SettledOnly, SettledSubs, SettledEpisodes

LEMMA StepShape ==
  ASSUME IInv, [Next]_vars
  PROVE  \/ Tick
         \/ now' = now /\ \A r \in Subs : Bystander(r)
         \/ now' = now /\ \E s \in Subs :
              ChangedNow(s) /\ \A r \in Subs \ {s} : Bystander(r)
<1> USE DEF shop
<1>0. /\ DOMAIN sub = Subs /\ DOMAIN freezes = Subs /\ DOMAIN visits = Subs
  BY DEF IInv, TypeOK
<1>1. CASE UNCHANGED vars
  BY <1>1 DEF vars, Bystander, Kept
<1>2. ASSUME NEW scope \in SUBSET Subs, Settle(scope)
      PROVE  now' = now /\ \A r \in Subs : Bystander(r)
  BY <1>2, SettledIsBystander DEF Settle
<1>3. ASSUME NEW s \in Subs, NEW m \in Members, NEW p \in Plans, Create(s, m, p)
      PROVE  now' = now /\ ChangedNow(s) /\ \A r \in Subs \ {s} : Bystander(r)
  BY <1>0, <1>3 DEF Create, ChangedNow, SoldNow, Bystander, Kept
<1>4. ASSUME NEW s \in Subs, NEW next \in Subs, Renew(s, next)
      PROVE  now' = now /\ ChangedNow(next) /\ \A r \in Subs \ {next} : Bystander(r)
  <2>1. /\ IsFresh(next) /\ MayRenew(Settled(s), now)
        /\ sub' = [SettledSubs({s}) EXCEPT
                     ![next] = SellRow(sub[s].member, sub[s].plan, now)]
        /\ freezes' = SettledEpisodes({s}) /\ UNCHANGED <<now, visits>>
    BY <1>4 DEF Renew
  <2>2. /\ RowOK(sub[next], freezes[next], now) /\ RowOK(Settled(s), SettledFreezes(s), now)
        /\ Settled(s).member = sub[s].member /\ Settled(s).plan = sub[s].plan
    BY RowsAreOK, SettleKeeps DEF Settled, SettledFreezes
  <2>3. sub[s].member \in Members /\ sub[s].plan \in Plans
    BY <2>1, <2>2 DEF RowOK, InOrder, MayRenew
  <2>4. SettledFreezes(next) = freezes[next]
    BY <2>1, <2>2, RowsAreOK, OnlyFrozenThaws DEF IsFresh, SettledFreezes
  <2>5. freezes'[next] = freezes[next]
    BY <2>1, <2>4 DEF SettledEpisodes
  <2>6. SoldNow(next)
    <3>1. sub'[next] = SellRow(sub[s].member, sub[s].plan, now)
      BY <2>1 DEF SettledSubs
    <3> QED
      BY <2>1, <2>3, <2>5, <3>1 DEF SoldNow
  <2>7. \A r \in Subs \ {next} : Bystander(r)
    BY <2>1, SettledIsBystander DEF SettledSubs
  <2> QED
    BY <2>1, <2>6, <2>7 DEF ChangedNow
<1>5. ASSUME NEW s \in Subs, NEW days \in FreezeRequests, Freeze(s, days)
      PROVE  now' = now /\ ChangedNow(s) /\ \A r \in Subs \ {s} : Bystander(r)
  <2>1. FrozenNow(s)
    BY <1>0, <1>5, SoldPlansAssumption DEF Freeze, MayFreeze, FrozenNow
  <2> QED
    BY <1>0, <1>5, <2>1 DEF Freeze, ChangedNow, Bystander, Kept
<1>6. ASSUME NEW s \in Subs, Unfreeze(s)
      PROVE  now' = now /\ ChangedNow(s) /\ \A r \in Subs \ {s} : Bystander(r)
  BY <1>0, <1>6 DEF Unfreeze, ChangedNow, UnfrozenNow, Bystander, Kept
<1>7. ASSUME NEW s \in Subs, Cancel(s)
      PROVE  now' = now /\ ChangedNow(s) /\ \A r \in Subs \ {s} : Bystander(r)
  BY <1>0, <1>7 DEF Cancel, ChangedNow, CancelledNow, Bystander, Kept
<1>8. ASSUME NEW s \in Subs, Visit(s)
      PROVE  now' = now /\ ChangedNow(s) /\ \A r \in Subs \ {s} : Bystander(r)
  <2>1. sub'[s] = VisitRow(Settled(s), settings, now)
    BY <1>8 DEF Visit, SettledSubs
  <2>2. VisitedNow(s)
    BY <1>8, <2>1 DEF Visit, VisitedNow
  <2>3. \A r \in Subs \ {s} : SettledOnly(r)
    BY <1>0, <1>8 DEF Visit, SettledOnly, SettledSubs, SettledEpisodes
  <2> QED
    BY <1>8, <2>2, <2>3 DEF Visit, ChangedNow, Bystander
<1>9. CASE \/ \E m \in Members, status \in MemberStates : PatchMember(m, status)
           \/ \E p \in Shelvable : PatchPlan(p)
           \/ \E policy \in Policies : PatchSettings(policy)
  BY <1>9 DEF PatchMember, PatchPlan, PatchSettings, Bystander, Kept
<1>10. ASSUME NEW s \in Subs, NEW m \in Members, NEW p \in Plans,
              NEW enters \in BOOLEAN, WalkIn(s, m, p, enters)
       PROVE  now' = now /\ ChangedNow(s) /\ \A r \in Subs \ {s} : Bystander(r)
  <2>1. SoldNow(s)
    BY <1>0, <1>10 DEF WalkIn, SoldNow, SettledSubs
  <2>2. \A r \in Subs \ {s} : SettledOnly(r)
    BY <1>0, <1>10 DEF WalkIn, SettledOnly, SettledSubs, SettledEpisodes
  <2> QED
    BY <1>10, <2>1, <2>2 DEF WalkIn, ChangedNow, Bystander
<1> QED
  BY <1>1, <1>2, <1>3, <1>4, <1>5, <1>6, <1>7, <1>8, <1>9, <1>10 DEF Next, Sweep

(* What settling leaves alone. *)
LEMMA SettledStays ==
  ASSUME IInv, NEW r \in Subs
  PROVE  /\ Settled(r).graceUsedAt = sub[r].graceUsedAt
         /\ Settled(r).graceEndsAt = sub[r].graceEndsAt
         /\ Settled(r).endsAt = sub[r].endsAt
         /\ sub[r].status \in {"UNSOLD", "CANCELLED", "EXPIRED"} =>
              Settled(r) = sub[r] /\ SettledFreezes(r) = freezes[r]
<1>1. RowOK(sub[r], freezes[r], now)
  BY RowsAreOK
<1>2. sub[r] \in SoldPlan
  BY <1>1 DEF RowOK
<1>3. SettleThaw(sub[r], freezes[r], now) \in {sub[r], ThawRow(sub[r])}
  BY DEF SettleThaw
<1>4. /\ Settled(r).graceUsedAt = sub[r].graceUsedAt
      /\ Settled(r).graceEndsAt = sub[r].graceEndsAt
      /\ Settled(r).endsAt = sub[r].endsAt
  BY <1>2, <1>3 DEF Settled, SettleRow, ThawRow, SoldPlan
<1>5. sub[r].status \in {"UNSOLD", "CANCELLED", "EXPIRED"} =>
        Settled(r) = sub[r] /\ SettledFreezes(r) = freezes[r]
  BY <1>1, RowsAreOK, OnlyFrozenThaws DEF Settled, SettledFreezes, SettleRow, IsDue
<1> QED
  BY <1>4, <1>5

LEMMA CancelledStep ==
  ASSUME IInv, [Next]_vars, NEW r \in Subs, sub[r].status = "CANCELLED"
  PROVE  Kept(r)
<1>1. Settled(r) = sub[r] /\ SettledFreezes(r) = freezes[r]
  BY SettledStays
<1>2. ~ChangedNow(r)
  BY <1>1 DEF ChangedNow, SoldNow, IsFresh, FrozenNow, UnfrozenNow, CancelledNow,
              MayCancel, VisitedNow, DoorOpensFor
<1>3. Tick \/ Bystander(r)
  BY <1>2, StepShape
<1> QED
  BY <1>1, <1>3 DEF Tick, Bystander, SettledOnly, Kept

(* There is no un-cancel, in any gym and any order of events. *)
THEOREM CancelIsFinal == Spec => CancelledIsFinal
<1>1. IInv /\ [Next]_vars =>
        [\A s \in Subs : sub[s].status = "CANCELLED" =>
           UNCHANGED <<sub[s], freezes[s], visits[s]>>]_vars
  BY CancelledStep DEF Kept
<1> QED
  BY <1>1, Invariant, PTL DEF Spec, CancelledIsFinal

LEMMA GraceStep ==
  ASSUME IInv, [Next]_vars, NEW r \in Subs, sub[r].graceUsedAt # Null
  PROVE  /\ UNCHANGED <<sub[r].graceUsedAt, sub[r].graceEndsAt>>
         /\ sub[r].status = "EXPIRED" => UNCHANGED <<sub[r].status, visits[r]>>
<1>1. RowOK(sub[r], freezes[r], now) /\ RowOK(Settled(r), SettledFreezes(r), now)
  BY RowsAreOK, SettledRow
<1>2. /\ sub[r] \in SoldPlan /\ Settled(r) \in SoldPlan
      /\ sub[r].status \in {"IN_GRACE", "EXPIRED", "CANCELLED"}
      /\ Settled(r).status \in {"IN_GRACE", "EXPIRED", "CANCELLED"}
      /\ Settled(r).graceUsedAt # Null
  BY <1>1, SettledStays DEF RowOK, InOrder
<1>3. CASE Tick \/ Bystander(r)
  BY <1>3, SettledStays DEF Tick, Bystander, Kept, SettledOnly
<1>4. CASE CancelledNow(r)
  BY <1>2, <1>4, SettledStays DEF CancelledNow, MayCancel, CancelRow, SoldPlan
<1>5. CASE VisitedNow(r)
  <2>1. Settled(r).status = "IN_GRACE" /\ sub[r].status # "EXPIRED"
    BY <1>2, <1>5, SettledStays DEF VisitedNow, DoorOpensFor
  <2> QED
    BY <1>2, <1>5, <2>1, SettledStays DEF VisitedNow, VisitRow, OpensGrace, SoldPlan
<1>6. ~SoldNow(r) /\ ~FrozenNow(r) /\ ~UnfrozenNow(r)
  BY <1>2 DEF SoldNow, IsFresh, FrozenNow, UnfrozenNow
<1> QED
  BY <1>3, <1>4, <1>5, <1>6, StepShape DEF ChangedNow

(* Grace opens once, and its window does not move. *)
THEOREM GraceIsOnce == Spec => GraceOpensOnce
<1>1. IInv /\ [Next]_vars =>
        [\A s \in Subs : sub[s].graceUsedAt # Null =>
           /\ UNCHANGED <<sub[s].graceUsedAt, sub[s].graceEndsAt>>
           /\ sub[s].status = "EXPIRED" => UNCHANGED <<sub[s].status, visits[s]>>]_vars
  BY GraceStep
<1> QED
  BY <1>1, Invariant, PTL DEF Spec, GraceOpensOnce

-----------------------------------------------------------------------------
(* The refinement: SoldPlans implements PaidTime *)

(* A row under a clock: what it promises, and that settling it, writing it   *)
(* at the desk and using it at the door keep the promise.                    *)

LEMMA SettledPromise ==
  ASSUME NEW row, NEW fs, NEW t \in Time, NEW cfg \in Settings, RowOK(row, fs, t)
  PROVE  /\ ModeOf(SettleRow(row, fs, cfg, t), t) = ModeOf(row, t)
         /\ RemainingOf(SettleRow(row, fs, cfg, t), t) = RemainingOf(row, t)
         /\ SettleRow(row, fs, cfg, t).status = "FROZEN" =>
              t < SettleRow(row, fs, cfg, t).freezeEndsAt
<1> DEFINE thawed == SettleThaw(row, fs, t)
           new    == SettleRow(row, fs, cfg, t)
<1>1. row \in SoldPlan
  BY DEF RowOK
<1>2. /\ thawed \in SoldPlan /\ thawed.endsAt = row.endsAt
      /\ ModeOf(thawed, t) = ModeOf(row, t)
      /\ RemainingOf(thawed, t) = RemainingOf(row, t)
      /\ thawed.status = "FROZEN" => t < thawed.freezeEndsAt
  <2>1. CASE row.status # "FROZEN"
    BY <1>1, <2>1, OnlyFrozenThaws
  <2>2. CASE row.status = "FROZEN"
    <3>1. /\ Len(fs) \in DOMAIN fs /\ IsOpen(fs[Len(fs)])
          /\ row.freezeEndsAt = fs[Len(fs)].endedAt
          /\ \A i \in DOMAIN fs : IsOpen(fs[i]) => i = Len(fs)
      BY <2>2 DEF RowOK, FreezeOnRecord, OpenIn
    <3>2. row.freezeEndsAt \in Nat /\ row.freezeEndsAt < row.endsAt
      BY <2>2 DEF RowOK, InOrder
    <3>3. CASE row.freezeEndsAt <= t
      <4>1. thawed = ThawRow(row)
        BY <2>2, <3>1, <3>3 DEF SettleThaw, IsOverdue
      <4>2. thawed \in SoldPlan /\ thawed.endsAt = row.endsAt /\ thawed.status = "ACTIVE"
        BY <1>1, <4>1 DEF ThawRow, SoldPlan, Status
      <4> HIDE DEF thawed
      <4>3. ModeOf(thawed, t) = ModeOf(row, t)
        BY <2>2, <3>2, <3>3, <4>2 DEF ModeOf, IsPaused, IsOver, Time
      <4>4. ModeOf(row, t) # "paused"
        BY <2>2, <3>2, <3>3 DEF ModeOf, IsPaused, Time
      <4> QED
        BY <4>2, <4>3, <4>4 DEF RemainingOf
    <3>4. CASE ~(row.freezeEndsAt <= t)
      <4>1. thawed = row
        BY <3>1, <3>4 DEF SettleThaw, IsOverdue
      <4> QED
        BY <1>1, <3>2, <3>4, <4>1 DEF Time
    <3> QED
      BY <3>3, <3>4
  <2> QED
    BY <2>1, <2>2
<1> HIDE DEF thawed
<1>3. CASE IsDue(thawed, cfg, t)
  <2>1. new = [thawed EXCEPT !.status = "EXPIRED"]
    BY <1>3 DEF SettleRow, thawed
  <2>2. new.status = "EXPIRED" /\ new.endsAt = thawed.endsAt
    BY <1>2, <2>1 DEF SoldPlan
  <2>3. ModeOf(thawed, t) = "over"
    BY <1>3 DEF ModeOf, IsDue, IsPaused, IsOver
  <2>4. ModeOf(new, t) = "over"
    BY <2>2 DEF ModeOf, IsPaused, IsOver
  <2> QED
    BY <1>2, <2>2, <2>3, <2>4 DEF RemainingOf
<1>4. CASE ~IsDue(thawed, cfg, t)
  <2>1. new = thawed
    BY <1>4 DEF SettleRow, thawed
  <2> QED
    BY <1>2, <2>1
<1> QED
  BY <1>3, <1>4

LEMMA SoldPromise ==
  ASSUME NEW row, NEW t \in Time, row.status = "UNSOLD",
         NEW m \in Members, NEW p \in Plans
  PROVE  /\ ModeOf(row, t) = "unsold"
         /\ ModeOf(SellRow(m, p, t), t) = "running"
         /\ RemainingOf(SellRow(m, p, t), t) \in Nat \ {0}
<1> DEFINE new == SellRow(m, p, t)
<1>1. new.status = "ACTIVE" /\ new.endsAt \in Time /\ t < new.endsAt
  BY SaleEndsLater DEF SellRow, Unsold
<1>2. ModeOf(new, t) = "running"
  BY <1>1 DEF ModeOf, IsPaused, IsOver, Time
<1>3. RemainingOf(new, t) \in Nat \ {0}
  BY <1>1, <1>2 DEF RemainingOf, Time
<1> QED
  BY <1>2, <1>3 DEF ModeOf

LEMMA WalkInPromise ==
  ASSUME NEW t \in Time, NEW m \in Members, NEW p \in Plans, NEW enters \in BOOLEAN
  PROVE  /\ ModeOf(WalkInRow(m, p, t, enters), t) = "running"
         /\ RemainingOf(WalkInRow(m, p, t, enters), t) \in Nat \ {0}
<1> DEFINE new == WalkInRow(m, p, t, enters)
<1>1. new.status = "ACTIVE" /\ new.endsAt \in Time /\ t < new.endsAt
  BY SaleEndsLater DEF WalkInRow, SellRow, Unsold
<1> HIDE DEF new
<1>2. ModeOf(new, t) = "running"
  BY <1>1 DEF ModeOf, IsPaused, IsOver, Time
<1>3. RemainingOf(new, t) \in Nat \ {0}
  BY <1>1, <1>2 DEF RemainingOf, Time
<1> QED
  BY <1>2, <1>3 DEF new

LEMMA FrozenPromise ==
  ASSUME NEW row \in SoldPlan, NEW t \in Time, NEW days \in Nat \ {0},
         row.status = "ACTIVE", t < row.endsAt
  PROVE  /\ ModeOf(row, t) = "running"
         /\ ModeOf(FreezeRow(row, t, days), t) = "paused"
         /\ RemainingOf(FreezeRow(row, t, days), t) = RemainingOf(row, t)
<1> DEFINE new == FreezeRow(row, t, days)
<1>1. days * Day \in Nat /\ t < AddDays(t, days)
  BY DaysAreTicks, TermsAssumption
<1>2. /\ new.status = "FROZEN" /\ new.freezeEndsAt = t + days * Day
      /\ new.endsAt = row.endsAt + days * Day
  BY DEF FreezeRow, AddDays, SoldPlan
<1>3. ModeOf(row, t) = "running"
  BY DEF ModeOf, IsPaused, IsOver, SoldPlan, Time
<1>4. ModeOf(new, t) = "paused"
  BY <1>1, <1>2 DEF ModeOf, IsPaused, AddDays
<1>5. RemainingOf(row, t) = row.endsAt - t
  BY <1>3 DEF RemainingOf
<1>6. RemainingOf(new, t) = new.endsAt - new.freezeEndsAt
  BY <1>4 DEF RemainingOf
<1>7. RemainingOf(new, t) = RemainingOf(row, t)
  BY <1>1, <1>2, <1>5, <1>6 DEF SoldPlan, Time
<1> QED
  BY <1>3, <1>4, <1>7

LEMMA UnfrozenPromise ==
  ASSUME NEW row \in SoldPlan, NEW t \in Time, row.status = "FROZEN",
         row.freezeEndsAt \in Nat, t < row.freezeEndsAt, row.freezeEndsAt < row.endsAt
  PROVE  /\ ModeOf(row, t) = "paused"
         /\ ModeOf(UnfreezeRow(row, t), t) = "running"
         /\ RemainingOf(UnfreezeRow(row, t), t) = RemainingOf(row, t)
<1> DEFINE new == UnfreezeRow(row, t)
<1>1. UnusedFreeze(row, t) = row.freezeEndsAt - t
  BY TermsAssumption DEF UnusedFreeze
<1>2. /\ new.status = "ACTIVE"
      /\ new.endsAt = row.endsAt - UnusedFreeze(row, t)
  BY DEF UnfreezeRow, ThawRow, SoldPlan
<1>3. row.endsAt \in Nat /\ t \in Nat
  BY DEF SoldPlan, Time
<1>4. ModeOf(row, t) = "paused"
  BY DEF ModeOf, IsPaused
<1>5. t < new.endsAt /\ new.endsAt - t = row.endsAt - row.freezeEndsAt
  BY <1>1, <1>2, <1>3
<1> HIDE DEF new
<1>6. ModeOf(new, t) = "running"
  BY <1>1, <1>2, <1>3, <1>5 DEF ModeOf, IsPaused, IsOver
<1>7. RemainingOf(new, t) = RemainingOf(row, t)
  BY <1>4, <1>5, <1>6 DEF RemainingOf
<1> QED
  BY <1>4, <1>6, <1>7 DEF new

LEMMA VisitedPromise ==
  ASSUME NEW row \in SoldPlan, NEW t \in Time, NEW cfg \in Settings,
         DoorOpensFor(row, cfg, t)
  PROVE  /\ ModeOf(VisitRow(row, cfg, t), t) = ModeOf(row, t)
         /\ RemainingOf(VisitRow(row, cfg, t), t) = RemainingOf(row, t)
<1> DEFINE new == VisitRow(row, cfg, t)
<1>1. /\ new.endsAt = row.endsAt
      /\ row.status = "ACTIVE" => new.status = "ACTIVE"
      /\ row.status \in {"EXPIRED", "IN_GRACE"} => new.status = "IN_GRACE"
  BY DEF VisitRow, OpensGrace, SoldPlan
<1> HIDE DEF new
<1>2. row.status \in {"ACTIVE", "EXPIRED", "IN_GRACE"}
  BY DEF DoorOpensFor
<1>3. ModeOf(new, t) = ModeOf(row, t) /\ ModeOf(row, t) # "paused"
  BY <1>1, <1>2 DEF ModeOf, IsPaused, IsOver
<1>4. RemainingOf(new, t) = RemainingOf(row, t)
  BY <1>1, <1>3 DEF RemainingOf
<1> QED
  BY <1>3, <1>4 DEF new

(* One tick: a running plan loses exactly that tick, every other stands.     *)
LEMMA TickPromise ==
  ASSUME NEW row, NEW fs, NEW t \in Time, RowOK(row, fs, t)
  PROVE  \/ /\ ModeOf(row, t) = "running"
            /\ RemainingOf(row, t + 1) = RemainingOf(row, t) - 1
            /\ ModeOf(row, t + 1) = IF RemainingOf(row, t) = 1 THEN "over" ELSE "running"
         \/ /\ ModeOf(row, t) # "running"
            /\ RemainingOf(row, t + 1) = RemainingOf(row, t)
            /\ \/ ModeOf(row, t + 1) = ModeOf(row, t)
               \/ ModeOf(row, t) = "paused" /\ ModeOf(row, t + 1) = "running"
<1>1. row.endsAt \in Nat /\ t \in Nat
  BY DEF RowOK, SoldPlan, Time
<1>2. row.status = "FROZEN" => row.freezeEndsAt \in Nat /\ row.freezeEndsAt < row.endsAt
  BY DEF RowOK, InOrder
<1>3. CASE ModeOf(row, t) = "running"
  <2>1. /\ row.status \notin {"UNSOLD", "CANCELLED", "EXPIRED", "IN_GRACE"}
        /\ t < row.endsAt /\ ~IsPaused(row, t)
    BY <1>1, <1>3 DEF ModeOf, IsOver
  <2>2. ~IsPaused(row, t + 1)
    BY <1>1, <1>2, <2>1 DEF IsPaused
  <2>3. RemainingOf(row, t) = row.endsAt - t
    BY <1>3 DEF RemainingOf
  <2>4. CASE row.endsAt = t + 1
    <3>1. ModeOf(row, t + 1) = "over"
      BY <1>1, <2>1, <2>2, <2>4 DEF ModeOf, IsOver
    <3> QED
      BY <1>1, <1>3, <2>3, <2>4, <3>1 DEF RemainingOf
  <2>5. CASE row.endsAt # t + 1
    <3>1. ModeOf(row, t + 1) = "running"
      BY <1>1, <2>1, <2>2, <2>5 DEF ModeOf, IsOver
    <3> QED
      BY <1>1, <1>3, <2>1, <2>3, <2>5, <3>1 DEF RemainingOf
  <2> QED
    BY <2>4, <2>5
<1>4. CASE ModeOf(row, t) = "paused"
  <2>1. row.status = "FROZEN" /\ t < row.freezeEndsAt
    BY <1>4 DEF ModeOf, IsPaused
  <2>2. CASE t + 1 < row.freezeEndsAt
    <3>1. ModeOf(row, t + 1) = "paused"
      BY <2>1, <2>2 DEF ModeOf, IsPaused
    <3> QED
      BY <1>4, <3>1 DEF RemainingOf
  <2>3. CASE row.freezeEndsAt = t + 1
    <3>1. ModeOf(row, t + 1) = "running"
      BY <1>1, <1>2, <2>1, <2>3 DEF ModeOf, IsPaused, IsOver
    <3> QED
      BY <1>1, <1>2, <1>4, <2>3, <3>1 DEF RemainingOf
  <2> QED
    BY <1>1, <1>2, <2>1, <2>2, <2>3
<1>5. CASE ModeOf(row, t) \notin {"running", "paused"}
  <2>1. ~IsPaused(row, t + 1) \/ row.status \in {"UNSOLD", "CANCELLED"}
    BY <1>1, <1>2, <1>5 DEF ModeOf, IsPaused
  <2>2. ModeOf(row, t + 1) = ModeOf(row, t)
    BY <1>1, <1>5, <2>1 DEF ModeOf, IsOver
  <2> QED
    BY <1>5, <2>2 DEF RemainingOf
<1> QED
  BY <1>3, <1>4, <1>5

-----------------------------------------------------------------------------
(* The refinement *)

Modes == [s \in Subs |-> ModeOf(sub[s], now)]
Remainders == [s \in Subs |-> RemainingOf(sub[s], now)]

Same(r) == Modes'[r] = Modes[r] /\ Remainders'[r] = Remainders[r]

LEMMA SettledIsSame ==
  ASSUME IInv, NEW r \in Subs
  PROVE  /\ ModeOf(Settled(r), now) = Modes[r]
         /\ RemainingOf(Settled(r), now) = Remainders[r]
         /\ Settled(r) \in SoldPlan
         /\ Settled(r).status = "FROZEN" =>
              /\ Settled(r).freezeEndsAt \in Nat
              /\ now < Settled(r).freezeEndsAt
              /\ Settled(r).freezeEndsAt < Settled(r).endsAt
<1>1. RowOK(sub[r], freezes[r], now) /\ RowOK(Settled(r), SettledFreezes(r), now)
  BY RowsAreOK, SettledRow
<1>2. /\ ModeOf(Settled(r), now) = ModeOf(sub[r], now)
      /\ RemainingOf(Settled(r), now) = RemainingOf(sub[r], now)
      /\ Settled(r).status = "FROZEN" => now < Settled(r).freezeEndsAt
  BY <1>1, RowsAreOK, SettledPromise DEF Settled
<1> QED
  BY <1>1, <1>2 DEF Modes, Remainders, RowOK, InOrder

LEMMA BystanderIsSame ==
  ASSUME IInv, NEW r \in Subs, now' = now, Bystander(r)
  PROVE  Same(r)
<1>1. /\ Modes'[r] = ModeOf(sub'[r], now) /\ Remainders'[r] = RemainingOf(sub'[r], now)
  BY DEF Modes, Remainders
<1>2. sub'[r] \in {sub[r], Settled(r)}
  BY DEF Bystander, Kept, SettledOnly
<1> QED
  BY <1>1, <1>2, SettledIsSame DEF Same, Modes, Remainders

LEMMA OthersAreSame ==
  ASSUME NEW s \in Subs, \A r \in Subs \ {s} : Same(r)
  PROVE  /\ Modes' = [Modes EXCEPT ![s] = Modes'[s]]
         /\ Remainders' = [Remainders EXCEPT ![s] = Remainders'[s]]
  BY DEF Modes, Remainders, Same

(* What the acting row does is a step of the promise, or nothing. *)
LEMMA ChangedPromise ==
  ASSUME IInv, NEW s \in Subs, now' = now, ChangedNow(s)
  PROVE  \/ /\ Modes[s] = "unsold" /\ Modes'[s] = "running"
            /\ Remainders'[s] \in Nat \ {0}
         \/ /\ Modes[s] = "running" /\ Modes'[s] = "paused"
            /\ Remainders'[s] = Remainders[s]
         \/ /\ Modes[s] = "paused" /\ Modes'[s] = "running"
            /\ Remainders'[s] = Remainders[s]
         \/ /\ Modes[s] \in {"running", "paused", "over"}
            /\ Modes'[s] = "cancelled" /\ Remainders'[s] = 0
         \/ Same(s)
<1>1. /\ Modes'[s] = ModeOf(sub'[s], now) /\ Remainders'[s] = RemainingOf(sub'[s], now)
  BY DEF Modes, Remainders
<1>2. now \in Time /\ settings \in Settings
  BY RowsAreOK
<1>3. CASE SoldNow(s)
  <2>1. PICK m \in Members, p \in Plans, enters \in BOOLEAN :
          sub'[s] \in {SellRow(m, p, now), WalkInRow(m, p, now, enters)}
    BY <1>3 DEF SoldNow
  <2>2. sub[s].status = "UNSOLD"
    BY <1>3 DEF SoldNow, IsFresh
  <2>3. Modes[s] = "unsold"
    BY <2>2 DEF Modes, ModeOf
  <2>4. ModeOf(sub'[s], now) = "running" /\ RemainingOf(sub'[s], now) \in Nat \ {0}
    BY <1>2, <2>1, <2>2, SoldPromise, WalkInPromise
  <2> QED
    BY <1>1, <2>3, <2>4
<1>4. CASE FrozenNow(s)
  BY <1>1, <1>2, <1>4, FrozenPromise, SettledIsSame DEF FrozenNow
<1>5. CASE UnfrozenNow(s)
  BY <1>1, <1>2, <1>5, UnfrozenPromise, SettledIsSame DEF UnfrozenNow
<1>6. CASE CancelledNow(s)
  <2>1. sub'[s].status = "CANCELLED"
    BY <1>6, SettledIsSame DEF CancelledNow, CancelRow, SoldPlan
  <2>2. Modes'[s] = "cancelled"
    BY <1>1, <2>1 DEF ModeOf
  <2>3. Remainders'[s] = 0
    BY <1>1, <1>2, <2>2 DEF RemainingOf
  <2>4. Modes[s] \in {"running", "paused", "over"}
    BY <1>6, SettledIsSame DEF CancelledNow, MayCancel, ModeOf
  <2> QED
    BY <2>2, <2>3, <2>4
<1>7. CASE VisitedNow(s)
  BY <1>1, <1>2, <1>7, VisitedPromise, SettledIsSame DEF VisitedNow, Same
<1> QED
  BY <1>3, <1>4, <1>5, <1>6, <1>7 DEF ChangedNow

LEMMA RefinesInit == Init => Promise!Init
<1> SUFFICES ASSUME Init PROVE Promise!Init
  OBVIOUS
<1>1. \A s \in Subs : ModeOf(sub[s], now) = "unsold" /\ RemainingOf(sub[s], now) = 0
  BY DEF Init, Unsold, ModeOf, RemainingOf
<1> QED
  BY <1>1 DEF Promise!Init

LEMMA RefinesTick == ASSUME IInv, Tick PROVE Promise!Pass
<1>1. now' = now + 1 /\ sub' = sub /\ now \in Time
  BY RowsAreOK DEF Tick
<1>2. \A s \in Subs : Promise!Runs(s) \/ Promise!Stands(s)
  <2> TAKE s \in Subs
  <2>1. RowOK(sub[s], freezes[s], now)
    BY RowsAreOK
  <2>2. /\ Modes'[s] = ModeOf(sub[s], now + 1)
        /\ Remainders'[s] = RemainingOf(sub[s], now + 1)
        /\ Modes[s] = ModeOf(sub[s], now) /\ Remainders[s] = RemainingOf(sub[s], now)
    BY <1>1 DEF Modes, Remainders
  <2> QED
    BY <1>1, <2>1, <2>2, TickPromise
    DEF Promise!Runs, Promise!Stands, Modes, Remainders
<1> QED
  BY <1>2 DEF Promise!Pass

LEMMA RefinesStep ==
  ASSUME IInv, [Next]_vars PROVE [Promise!Next]_<<Modes, Remainders>>
<1>1. CASE Tick
  BY <1>1, RefinesTick DEF Promise!Next
<1>2. CASE now' = now /\ \A r \in Subs : Bystander(r)
  <2>1. \A r \in Subs : Same(r)
    BY <1>2, BystanderIsSame
  <2> QED
    BY <2>1 DEF Same, Modes, Remainders
<1>3. ASSUME now' = now, NEW s \in Subs, ChangedNow(s),
             \A r \in Subs \ {s} : Bystander(r)
      PROVE  [Promise!Next]_<<Modes, Remainders>>
  <2>1. /\ Modes' = [Modes EXCEPT ![s] = Modes'[s]]
        /\ Remainders' = [Remainders EXCEPT ![s] = Remainders'[s]]
    BY <1>3, BystanderIsSame, OthersAreSame
  <2>2. /\ Modes = [r \in Subs |-> Modes[r]]
        /\ Remainders = [r \in Subs |-> Remainders[r]]
    BY DEF Modes, Remainders
  <2> DEFINE P == Promise!Sell(s) \/ Promise!Pause(s) \/ Promise!Resume(s) \/ Promise!Cancel(s)
  <2>3. P \/ Same(s)
    BY <1>3, <2>1, <2>2, ChangedPromise
    DEF Promise!Sell, Promise!Pause, Promise!Resume, Promise!Cancel, Promise!Become,
        Modes, Remainders
  <2>4. CASE Same(s)
    BY <2>1, <2>2, <2>4 DEF Same
  <2>5. CASE P
    BY <2>5 DEF Promise!Next
  <2> QED
    BY <2>3, <2>4, <2>5
<1> QED
  BY <1>1, <1>2, <1>3, StepShape

(* Whatever desk, door, sweep and settings do, each sold plan gives its      *)
(* member exactly the paid time that was sold.                               *)
THEOREM PaidTimeKept == Spec => PaidTimeIsKept
<1>1. Init => Promise!Init
  BY RefinesInit
<1>2. IInv /\ [Next]_vars => [Promise!Next]_(Promise!promise)
  BY RefinesStep DEF Promise!promise, Modes, Remainders
<1> QED
  BY <1>1, <1>2, Invariant, PTL DEF Spec, PaidTimeIsKept, Promise!Spec
=============================================================================
