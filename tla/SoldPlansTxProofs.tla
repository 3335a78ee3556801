-------------------------- MODULE SoldPlansTxProofs --------------------------
(* Theorems about SoldPlansTx: what survives every interleaving, for any     *)
(* number of connections, any operations that overlap, every policy and      *)
(* every time that a transaction may take.                                   *)
EXTENDS SoldPlansTx, SoldPlansRecordsProofs

-----------------------------------------------------------------------------
(* The parts of the inductive invariant.  S, F and I are the committed       *)
(* tables: the sold plans, their freezes and the inbox.                      *)

TermOf(row) == SoldPlanEndsAt(row.plan, row.startsAt)

(* What unfreezes may have taken off a plan with these freezes.              *)
Slack(fs) == Len(fs) * TxTime

EndsWithin(row, fs) ==
  /\ TermOf(row) <= row.endsAt + Slack(fs)
  /\ row.endsAt <= AddDays(TermOf(row), FrozenDays(fs))

(* The newest freeze of a frozen plan lies wholly inside what the plan has   *)
(* beyond its term, so that giving it back leaves the term.                  *)
FrozenWithin(row, fs, n) ==
  row.status = "FROZEN" =>
    /\ row.frozenAt # Null /\ row.freezeEndsAt # Null
    /\ row.frozenAt <= n
    /\ row.freezeEndsAt < row.endsAt
    /\ TermOf(row) + (row.freezeEndsAt - row.frozenAt) + TxTime <= row.endsAt + Slack(fs)

(* A version of a sold plan: as committed, as drafted by a transaction that  *)
(* holds it, or as read a while ago.                                         *)
IsVersion(row, fs, n) ==
  /\ row \in SoldPlan
  /\ row.status # "UNSOLD"
  /\ row.plan \in Plans
  /\ EndsWithin(row, fs)
  /\ FrozenWithin(row, fs, n)

SameSale(row, old) == row.plan = old.plan /\ row.startsAt = old.startsAt

Announced(row, s, I) ==
  row.status = "EXPIRED" => <<"SUBSCRIPTION_EXPIRED", s>> \in I

RowInv(s, S, F, I, n) ==
  /\ S[s].status = "UNSOLD" => F[s] = <<>>
  /\ S[s].status # "UNSOLD" => IsVersion(S[s], F[s], n)
  /\ Announced(S[s], s, I)

(* What the handler has checked of the row that it has read.                 *)
IsAdmitted(x) ==
  /\ x.op = "freeze" => x.row.status = "ACTIVE" /\ x.at < x.row.endsAt
  /\ x.op = "unfreeze" => x.row.status = "FROZEN"
  /\ x.op = "visit" => x.row.sessionsRemaining = Null \/ x.row.sessionsRemaining > 0

HeldInv(x, S, F, I, n) ==
  \A s \in x.held :
    /\ S[s].status # "UNSOLD"
    /\ IsVersion(x.draft[s], F[s], n)
    /\ SameSale(x.draft[s], S[s])
    /\ Announced(x.draft[s], s, I \cup x.notices)

SelectedInv(x, S, F) ==
  /\ \A y \in x.overdue : y[2] \in DOMAIN F[y[1]]
  /\ \A s \in x.due : S[s].status # "UNSOLD"

ReadInv(x, S, F, n) ==
  x.step \in {"count", "close", "write"} =>
    /\ IsVersion(x.row, F[x.on], n)
    /\ SameSale(x.row, S[x.on])
    /\ IsAdmitted(x)

OpenInv(x, S, n) ==
  x.step # "idle" =>
    /\ S[x.on].status # "UNSOLD"
    /\ x.at <= n /\ n <= x.at + TxTime
    /\ x.op = "freeze" => x.days # 0

TxInv(x, S, F, I, n) ==
  /\ x \in Transaction
  /\ OpenInv(x, S, n)
  /\ SelectedInv(x, S, F)
  /\ x.step \in {"overdue", "thaw", "expire"} => x.notices = {}
  /\ HeldInv(x, S, F, I, n)
  /\ ReadInv(x, S, F, n)

TablesTyped(S, F, V, I, n) ==
  /\ n \in Time
  /\ S \in [Subs -> SoldPlan]
  /\ F \in [Subs -> Seq(Episode)]
  /\ V \in [Subs -> Seq(Time)]
  /\ I \in SUBSET (NoticeType \X Subs)

XInv ==
  /\ TablesTyped(sub, freezes, visits, inbox, now)
  /\ \A s \in Subs : RowInv(s, sub, freezes, inbox, now)
  /\ tx \in [Sessions -> Transaction]
  /\ \A t \in Sessions : TxInv(tx[t], sub, freezes, inbox, now)

(* What TxInit sets and no transaction touches.                              *)
ShopKept ==
  /\ settings \in Policies
  /\ memberStatus = [m \in Members |-> "ACTIVE"]
  /\ onSale = Plans

-----------------------------------------------------------------------------
(* Calendar arithmetic *)

LEMMA TermIsTime ==
  ASSUME NEW row \in SoldPlan, row.plan \in Plans
  PROVE  TermOf(row) \in Time /\ row.startsAt < TermOf(row)
<1>1. row.startsAt \in Time
  BY DEF SoldPlan
<1> QED
  BY <1>1, SaleEndsLater DEF TermOf

-----------------------------------------------------------------------------
(* Freezes, and the days they were granted *)

DaysOf(fs) == [i \in DOMAIN fs |-> fs[i].days]

LEMMA GrantedDays ==
  ASSUME NEW fs \in Seq(Episode)
  PROVE  \A i \in DOMAIN fs : /\ DaysOf(fs)[i] = fs[i].days
                              /\ fs[i].days \in Nat
<1>1. \A i \in DOMAIN fs : fs[i] \in Episode
  BY FreezesAreEpisodes
<1> QED
  BY <1>1 DEF DaysOf, Episode

LEMMA FrozenDaysAdd ==
  ASSUME NEW fs \in Seq(Episode)
  PROVE  /\ IsFiniteSet(DOMAIN fs)
         /\ FrozenDays(fs) = Total(DaysOf(fs), DOMAIN fs)
<1> DEFINE g == DaysOf(fs)
           T == DOMAIN fs
<1>1. IsFiniteSet(T)
  <2>1. Len(fs) \in Nat /\ T = 1 .. Len(fs)
    BY LenProperties
  <2> QED
    BY <2>1, FS_Interval
<1>2. \A s \in SUBSET T : s # {} => g[Pick(s)] = fs[Pick(s)].days
  BY PickIsOne DEF DaysOf
<1> HIDE DEF g
<1>3. PICK h : Adds(g, T, h)
  BY <1>1, AddsSomehow
<1>4. \A k : k = [s \in SUBSET T |-> IF s = {} THEN 0
                                     ELSE fs[Pick(s)].days + k[Rest(s)]]
               => Adds(g, T, k)
  <2> SUFFICES ASSUME NEW k,
                      k = [s \in SUBSET T |-> IF s = {} THEN 0
                                              ELSE fs[Pick(s)].days + k[Rest(s)]]
               PROVE  Adds(g, T, k)
    OBVIOUS
  <2>1. \A s \in SUBSET T : k[s] = IF s = {} THEN 0 ELSE g[Pick(s)] + k[Rest(s)]
    BY <1>2
  <2>2. k = [s \in SUBSET T |-> k[s]]
    OBVIOUS
  <2>3. k = [s \in SUBSET T |-> IF s = {} THEN 0 ELSE g[Pick(s)] + k[Rest(s)]]
    BY <2>1, <2>2
  <2> QED
    BY <2>3 DEF Adds
<1>5. h = [s \in SUBSET T |-> IF s = {} THEN 0 ELSE fs[Pick(s)].days + h[Rest(s)]]
  <2>1. \A s \in SUBSET T :
          h[s] = IF s = {} THEN 0 ELSE fs[Pick(s)].days + h[Rest(s)]
    BY <1>2, <1>3 DEF Adds
  <2>2. h = [s \in SUBSET T |-> h[s]]
    BY <1>3 DEF Adds
  <2> QED
    BY <2>1, <2>2
<1>6. \E k : /\ k = [s \in SUBSET T |-> IF s = {} THEN 0
                                       ELSE fs[Pick(s)].days + k[Rest(s)]]
             /\ FrozenDays(fs) = k[T]
  BY <1>5 DEF FrozenDays, MapThenSumSet, MapThenFoldSet, Pick, Rest
<1>7. FrozenDays(fs) = Total(g, T)
  BY <1>1, <1>4, <1>6, TotalAdds
<1> QED
  BY <1>1, <1>7 DEF g

LEMMA FrozenDaysAreDays ==
  ASSUME NEW fs \in Seq(Episode)
  PROVE  FrozenDays(fs) \in Nat
<1> DEFINE g == DaysOf(fs)
<1>1. \A i \in DOMAIN fs : g[i] \in Int /\ g[i] >= 0
  BY GrantedDays
<1> HIDE DEF g
<1>2. Total(g, DOMAIN fs) \in Int /\ Total(g, DOMAIN fs) >= 0
  BY <1>1, FrozenDaysAdd, TotalIsNumber
<1> QED
  BY <1>2, FrozenDaysAdd DEF g

(* What closing a freeze writes leaves its days.                             *)
LEMMA SameDays ==
  ASSUME NEW fs \in Seq(Episode), NEW gs \in Seq(Episode), Len(gs) = Len(fs),
         \A i \in 1 .. Len(fs) : gs[i].days = fs[i].days
  PROVE  FrozenDays(gs) = FrozenDays(fs)
<1> DEFINE f == DaysOf(fs)
           g == DaysOf(gs)
<1>1. DOMAIN fs = 1 .. Len(fs) /\ DOMAIN gs = 1 .. Len(fs)
  BY LenProperties
<1>2. \A i \in DOMAIN fs : g[i] = f[i]
  BY <1>1 DEF DaysOf
<1> HIDE DEF f, g
<1>3. Total(g, DOMAIN fs) = Total(f, DOMAIN fs)
  BY <1>2, FrozenDaysAdd, TotalSame
<1> QED
  BY <1>1, <1>3, FrozenDaysAdd DEF f, g

LEMMA OneFreezeMore ==
  ASSUME NEW fs \in Seq(Episode), NEW f \in Episode
  PROVE  /\ fs \o <<f>> \in Seq(Episode)
         /\ Len(fs \o <<f>>) = Len(fs) + 1
         /\ FrozenDays(fs \o <<f>>) = FrozenDays(fs) + f.days
<1> DEFINE gs == fs \o <<f>>
           n  == Len(fs)
           g  == DaysOf(fs)
           h  == DaysOf(gs)
           D  == DOMAIN fs
<1>1. <<f>> \in Seq(Episode) /\ Len(<<f>>) = 1 /\ <<f>>[1] = f
  OBVIOUS
<1>2. /\ gs \in Seq(Episode) /\ Len(gs) = n + 1
      /\ \A i \in 1 .. n + 1 : gs[i] = IF i <= n THEN fs[i] ELSE <<f>>[i - n]
  BY <1>1, ConcatProperties
<1>3. n \in Nat /\ D = 1 .. n /\ DOMAIN gs = 1 .. n + 1
  BY <1>2, LenProperties
<1>4. /\ \A i \in 1 .. n : gs[i] = fs[i]
      /\ gs[n + 1] = f
  BY <1>1, <1>2, <1>3
<1>5. /\ \A i \in D : h[i] = g[i]
      /\ h[n + 1] = f.days
  BY <1>3, <1>4 DEF DaysOf
<1>6. \A i \in D : g[i] \in Int
  BY GrantedDays
<1>7. /\ f.days \in Int /\ n + 1 \notin D
      /\ DOMAIN gs = D \cup {n + 1} /\ IsFiniteSet(D)
  <2>1. f.days \in Int
    BY DEF Episode
  <2>2. IsFiniteSet(D)
    BY FrozenDaysAdd
  <2>3. 1 .. n + 1 = (1 .. n) \cup {n + 1} /\ n + 1 \notin 1 .. n
    BY <1>3
  <2> QED
    BY <1>3, <2>1, <2>2, <2>3
<1>8. FrozenDays(fs) = Total(g, D) /\ FrozenDays(gs) = Total(h, D \cup {n + 1})
  BY <1>2, <1>7, FrozenDaysAdd
<1> HIDE DEF g, h, D, n, gs
<1>9. Total(h, D \cup {n + 1}) = h[n + 1] + Total(h, D)
  BY <1>5, <1>6, <1>7, TotalWith
<1>10. Total(h, D) = Total(g, D) /\ Total(g, D) \in Int
  BY <1>5, <1>6, <1>7, TotalSame, TotalIsNumber
<1>11. FrozenDays(gs) = FrozenDays(fs) + f.days
  BY <1>5, <1>7, <1>8, <1>9, <1>10
<1> QED
  BY <1>2, <1>11 DEF gs, n

-----------------------------------------------------------------------------
(* Versions of a sold plan, and what each handler makes of one *)

Grows(fs, gs) ==
  /\ gs \in Seq(Episode)
  /\ Len(fs) <= Len(gs)
  /\ FrozenDays(fs) <= FrozenDays(gs)

LEMMA TimesAdd ==
  ASSUME NEW d \in Nat, NEW e \in Nat, d <= e
  PROVE  d * Day \in Nat /\ e * Day \in Nat /\ d * Day <= e * Day
         /\ (d + e) * Day = d * Day + e * Day
<1>1. Day \in Nat /\ e - d \in Nat
  BY TermsAssumption
<1>2. d * Day \in Nat /\ e * Day \in Nat /\ (e - d) * Day \in Nat
  BY <1>1
<1>3. e * Day = d * Day + (e - d) * Day
  BY <1>1
<1>4. (d + e) * Day = d * Day + e * Day
  BY <1>1
<1> QED
  BY <1>2, <1>3, <1>4

LEMMA SlackGrows ==
  ASSUME NEW fs \in Seq(Episode), NEW gs \in Seq(Episode)
  PROVE  /\ Slack(fs) \in Nat
         /\ Len(fs) <= Len(gs) => Slack(fs) <= Slack(gs)
         /\ Len(gs) = Len(fs) + 1 => Slack(gs) = Slack(fs) + TxTime
<1>1. Len(fs) \in Nat /\ Len(gs) \in Nat /\ TxTime \in Nat
  BY LenProperties, SoldPlansTxAssumption
<1>2. Len(fs) * TxTime \in Nat
  BY <1>1
<1>3. ASSUME Len(fs) <= Len(gs) PROVE Slack(fs) <= Slack(gs)
  <2>1. (Len(gs) - Len(fs)) * TxTime \in Nat
    BY <1>1, <1>3
  <2>2. Len(gs) * TxTime = Len(fs) * TxTime + (Len(gs) - Len(fs)) * TxTime
    BY <1>1
  <2> QED
    BY <1>2, <2>1, <2>2 DEF Slack
<1>4. ASSUME Len(gs) = Len(fs) + 1 PROVE Slack(gs) = Slack(fs) + TxTime
  <2>1. (Len(fs) + 1) * TxTime = Len(fs) * TxTime + TxTime
    BY <1>1
  <2> QED
    BY <1>4, <2>1 DEF Slack
<1> QED
  BY <1>2, <1>3, <1>4 DEF Slack

(* A version stays one while freezes are added and time passes.              *)
LEMMA VersionStays ==
  ASSUME NEW row, NEW fs \in Seq(Episode), NEW gs, NEW n \in Time, NEW m \in Time,
         IsVersion(row, fs, n), Grows(fs, gs), n <= m
  PROVE  IsVersion(row, gs, m)
<1> DEFINE T == TermOf(row)
           f == FrozenDays(fs)
           g == FrozenDays(gs)
<1>1. row \in SoldPlan /\ row.plan \in Plans /\ row.endsAt \in Nat
  BY DEF IsVersion, SoldPlan, Time
<1>2. T \in Nat
  BY <1>1, TermIsTime DEF Time
<1>3. f \in Nat /\ g \in Nat /\ f <= g
  BY FrozenDaysAreDays DEF Grows
<1>4. f * Day \in Nat /\ g * Day \in Nat /\ f * Day <= g * Day
  BY <1>3, TimesAdd
<1>5. Slack(fs) \in Nat /\ Slack(gs) \in Nat /\ Slack(fs) <= Slack(gs)
  BY SlackGrows DEF Grows
<1>6. EndsWithin(row, gs)
  <2>1. T <= row.endsAt + Slack(fs) /\ row.endsAt <= T + f * Day
    BY DEF IsVersion, EndsWithin, AddDays
  <2> HIDE DEF T, f, g
  <2>2. T <= row.endsAt + Slack(gs) /\ row.endsAt <= T + g * Day
    BY <1>1, <1>2, <1>4, <1>5, <2>1
  <2> QED
    BY <2>2 DEF EndsWithin, AddDays, T, g
<1>7. FrozenWithin(row, gs, m)
  <2> SUFFICES ASSUME row.status = "FROZEN" PROVE FrozenWithin(row, gs, m)
    BY DEF FrozenWithin
  <2>1. /\ row.frozenAt # Null /\ row.freezeEndsAt # Null
        /\ row.frozenAt <= n /\ row.freezeEndsAt < row.endsAt
        /\ T + (row.freezeEndsAt - row.frozenAt) + TxTime <= row.endsAt + Slack(fs)
    BY DEF IsVersion, FrozenWithin
  <2>2. row.frozenAt \in Nat /\ row.freezeEndsAt \in Nat /\ TxTime \in Nat
    BY <1>1, <2>1, SoldPlansTxAssumption DEF SoldPlan, Time
  <2> HIDE DEF T
  <2>3. T + (row.freezeEndsAt - row.frozenAt) + TxTime <= row.endsAt + Slack(gs)
    BY <1>1, <1>2, <1>5, <2>1, <2>2
  <2>4. row.frozenAt <= m
    BY <2>1, <2>2 DEF Time
  <2> QED
    BY <2>1, <2>3, <2>4 DEF FrozenWithin, T
<1> QED
  BY <1>6, <1>7 DEF IsVersion

(* What is no longer frozen keeps only its end.                              *)
LEMMA NotFrozenVersion ==
  ASSUME NEW row, NEW new, NEW fs, NEW n,
         IsVersion(row, fs, n), new \in SoldPlan, SameSale(new, row),
         new.endsAt = row.endsAt, new.status \notin {"UNSOLD", "FROZEN"}
  PROVE  IsVersion(new, fs, n)
<1>1. TermOf(new) = TermOf(row)
  BY DEF SameSale, TermOf
<1>2. EndsWithin(new, fs)
  BY <1>1 DEF IsVersion, EndsWithin
<1>3. FrozenWithin(new, fs, n)
  BY DEF FrozenWithin
<1> QED
  BY <1>2, <1>3 DEF IsVersion, SameSale

LEMMA ThawedVersion ==
  ASSUME NEW row, NEW fs, NEW n, IsVersion(row, fs, n)
  PROVE  /\ IsVersion(ThawRow(row), fs, n) /\ SameSale(ThawRow(row), row)
         /\ ThawRow(row).status = "ACTIVE"
<1>1. row \in SoldPlan
  BY DEF IsVersion
<1>2. /\ ThawRow(row) \in SoldPlan /\ SameSale(ThawRow(row), row)
      /\ ThawRow(row).endsAt = row.endsAt /\ ThawRow(row).status = "ACTIVE"
  BY <1>1 DEF ThawRow, SoldPlan, Status, SameSale
<1> QED
  BY <1>2, NotFrozenVersion

LEMMA ExpiredVersion ==
  ASSUME NEW row, NEW new, NEW fs, NEW n, IsVersion(row, fs, n),
         new = [row EXCEPT !.status = "EXPIRED"]
  PROVE  IsVersion(new, fs, n) /\ SameSale(new, row)
<1>1. row \in SoldPlan
  BY DEF IsVersion
<1>2. /\ new \in SoldPlan /\ SameSale(new, row)
      /\ new.endsAt = row.endsAt /\ new.status = "EXPIRED"
  BY <1>1 DEF SoldPlan, Status, SameSale
<1> QED
  BY <1>2, NotFrozenVersion

LEMMA CancelledVersion ==
  ASSUME NEW row, NEW fs, NEW n, IsVersion(row, fs, n)
  PROVE  /\ IsVersion(CancelRow(row), fs, n) /\ SameSale(CancelRow(row), row)
         /\ CancelRow(row).status = "CANCELLED"
<1>1. row \in SoldPlan
  BY DEF IsVersion
<1>2. /\ CancelRow(row) \in SoldPlan /\ SameSale(CancelRow(row), row)
      /\ CancelRow(row).endsAt = row.endsAt /\ CancelRow(row).status = "CANCELLED"
  BY <1>1 DEF CancelRow, SoldPlan, Status, SameSale
<1> QED
  BY <1>2, NotFrozenVersion

LEMMA SoldVersion ==
  ASSUME NEW m \in Members, NEW p \in Plans, NEW n \in Time, NEW fs \in Seq(Episode)
  PROVE  /\ IsVersion(SellRow(m, p, n), fs, n)
         /\ SellRow(m, p, n).status = "ACTIVE"
<1> DEFINE new == SellRow(m, p, n)
<1>1. new \in SoldPlan
  BY SellRowType
<1>2. /\ new.status = "ACTIVE" /\ new.plan = p /\ new.startsAt = n
      /\ new.endsAt = SoldPlanEndsAt(p, n)
  BY DEF SellRow, Unsold
<1> HIDE DEF new
<1>3. new.endsAt = TermOf(new) /\ TermOf(new) \in Nat
  BY <1>1, <1>2, TermIsTime DEF TermOf, Time
<1>4. FrozenDays(fs) * Day \in Nat /\ Slack(fs) \in Nat
  BY FrozenDaysAreDays, TimesAdd, SlackGrows
<1>5. EndsWithin(new, fs)
  BY <1>3, <1>4 DEF EndsWithin, AddDays
<1>6. FrozenWithin(new, fs, n)
  BY <1>2 DEF FrozenWithin
<1>7. IsVersion(new, fs, n)
  BY <1>1, <1>2, <1>5, <1>6 DEF IsVersion
<1> QED
  BY <1>2, <1>7 DEF new

(* What freeze and unfreeze write on the row as it stands, given the row     *)
(* they had read.                                                            *)
FreezeWrites(row, read, at, days) ==
  [row EXCEPT !.status = "FROZEN", !.frozenAt = at,
              !.freezeEndsAt = AddDays(at, days),
              !.endsAt = AddDays(read.endsAt, days)]

UnfreezeWrites(row, read, at) ==
  [ThawRow(row) EXCEPT !.endsAt = UnfreezeRow(read, at).endsAt]

(* A freeze pushes the end it has read, whatever the row has become since.   *)
LEMMA FrozenVersion ==
  ASSUME NEW row, NEW read, NEW fs \in Seq(Episode), NEW gs \in Seq(Episode),
         NEW at \in Time, NEW n \in Time, NEW days \in Nat,
         IsVersion(row, fs, n), IsVersion(read, fs, n), SameSale(read, row),
         at <= n, at < read.endsAt,
         Len(gs) = Len(fs) + 1, FrozenDays(gs) = FrozenDays(fs) + days
  PROVE  /\ IsVersion(FreezeWrites(row, read, at, days), gs, n)
         /\ SameSale(FreezeWrites(row, read, at, days), row)
         /\ FreezeWrites(row, read, at, days).status = "FROZEN"
<1> DEFINE new == FreezeWrites(row, read, at, days)
           T == TermOf(row)
           E == read.endsAt
           d == days * Day
           f == FrozenDays(fs) * Day
<1>1. /\ row \in SoldPlan /\ read \in SoldPlan /\ row.plan \in Plans
      /\ TermOf(read) = T
  BY DEF IsVersion, SameSale, TermOf
<1>2. E \in Nat /\ d \in Nat /\ f \in Nat /\ T \in Nat
  <2>1. FrozenDays(fs) \in Nat
    BY FrozenDaysAreDays
  <2>2. d \in Nat /\ f \in Nat
    BY <2>1, TimesAdd
  <2>3. E \in Nat /\ T \in Nat
    BY <1>1, TermIsTime DEF SoldPlan, Time
  <2> QED
    BY <2>2, <2>3
<1>3. T <= E + Slack(fs) /\ E <= T + f
  BY <1>1 DEF IsVersion, EndsWithin, AddDays
<1>4. Slack(fs) \in Nat /\ Slack(gs) = Slack(fs) + TxTime /\ TxTime \in Nat
  BY SlackGrows, SoldPlansTxAssumption
<1>5. FrozenDays(gs) * Day = f + d
  BY FrozenDaysAreDays, TermsAssumption
<1>6. /\ new.status = "FROZEN" /\ new.frozenAt = at /\ new.freezeEndsAt = at + d
      /\ new.endsAt = E + d /\ SameSale(new, row) /\ TermOf(new) = T
  BY <1>1 DEF FreezeWrites, SoldPlan, AddDays, SameSale, TermOf
<1>7. new \in SoldPlan
  <2>1. AddDays(at, days) \in Time /\ AddDays(read.endsAt, days) \in Time
    BY <1>2 DEF AddDays, Time
  <2> QED
    BY <1>1, <2>1 DEF FreezeWrites, SoldPlan, Status
<1>8. at \in Nat /\ at <= n /\ at < E /\ n \in Nat
  BY DEF Time
<1> HIDE DEF new, T, E, d, f
<1>9. EndsWithin(new, gs)
  <2>1. T <= E + d + Slack(gs) /\ E + d <= T + (f + d)
    BY <1>2, <1>3, <1>4
  <2> QED
    BY <1>5, <1>6, <2>1 DEF EndsWithin, AddDays
<1>10. FrozenWithin(new, gs, n)
  <2>1. Null # at /\ Null # at + d
    BY <1>2, <1>8, TermsAssumption
  <2>2. at + d < E + d
    BY <1>2, <1>8
  <2>3. T + ((at + d) - at) + TxTime <= E + d + Slack(gs)
    BY <1>2, <1>3, <1>4, <1>8
  <2> QED
    BY <1>6, <1>8, <2>1, <2>2, <2>3 DEF FrozenWithin
<1>11. new.plan \in Plans
  BY <1>1, <1>6 DEF SameSale
<1> QED
  BY <1>6, <1>7, <1>9, <1>10, <1>11 DEF IsVersion, new

(* An unfreeze gives back no more than the freeze it has read, but for the   *)
(* time that passed since it read the clock.                                 *)
LEMMA UnfrozenVersion ==
  ASSUME NEW row, NEW read, NEW fs \in Seq(Episode),
         NEW at \in Time, NEW n \in Time,
         IsVersion(row, fs, n), IsVersion(read, fs, n), SameSale(read, row),
         read.status = "FROZEN", n <= at + TxTime
  PROVE  /\ IsVersion(UnfreezeWrites(row, read, at), fs, n)
         /\ SameSale(UnfreezeWrites(row, read, at), row)
         /\ UnfreezeWrites(row, read, at).status = "ACTIVE"
<1> DEFINE new == UnfreezeWrites(row, read, at)
           T  == TermOf(row)
           E  == read.endsAt
           u  == UnusedFreeze(read, at)
           f  == FrozenDays(fs) * Day
           fa == read.frozenAt
           fe == read.freezeEndsAt
           sl == Slack(fs)
<1>1. /\ row \in SoldPlan /\ read \in SoldPlan /\ row.plan \in Plans
      /\ TermOf(read) = T
  BY DEF IsVersion, SameSale, TermOf
<1>2. /\ fa # Null /\ fe # Null
      /\ fa <= n /\ fe < E /\ T + (fe - fa) + TxTime <= E + sl
  BY <1>1 DEF IsVersion, FrozenWithin
<1>3. /\ fa \in Nat /\ fe \in Nat /\ E \in Nat /\ at \in Nat /\ n \in Nat
      /\ TxTime \in Nat
  BY <1>1, <1>2, SoldPlansTxAssumption DEF SoldPlan, Time
<1>4. f \in Nat /\ T \in Nat /\ sl \in Nat
  <2>1. FrozenDays(fs) \in Nat
    BY FrozenDaysAreDays
  <2>2. f \in Nat
    BY <2>1, TimesAdd
  <2>3. T \in Nat
    BY <1>1, TermIsTime DEF Time
  <2> QED
    BY <2>2, <2>3, SlackGrows
<1>5. u = IF fe > at THEN fe - at ELSE 0
  BY <1>2 DEF UnusedFreeze
<1>6. T <= E + sl /\ E <= T + f
  BY <1>1 DEF IsVersion, EndsWithin, AddDays
<1>7. /\ new.status = "ACTIVE" /\ new.endsAt = E - u
      /\ SameSale(new, row) /\ TermOf(new) = T
  BY <1>1 DEF UnfreezeWrites, SoldPlan, ThawRow, UnfreezeRow, SameSale, TermOf
<1> HIDE DEF new, T, E, u, f, fa, fe, sl
<1>8. E - u \in Nat /\ T <= (E - u) + sl /\ E - u <= T + f
  <2>1. CASE fe > at
    BY <1>2, <1>3, <1>4, <1>5, <1>6, <2>1
  <2>2. CASE ~(fe > at)
    BY <1>3, <1>4, <1>5, <1>6, <2>2
  <2> QED
    BY <2>1, <2>2
<1>9. new \in SoldPlan
  <2>1. UnfreezeRow(read, at).endsAt = E - u
    BY <1>1 DEF UnfreezeRow, ThawRow, SoldPlan, E, u
  <2> QED
    BY <1>1, <1>8, <2>1 DEF UnfreezeWrites, SoldPlan, Status, ThawRow, Time, new
<1>10. EndsWithin(new, fs)
  BY <1>7, <1>8 DEF EndsWithin, AddDays, f, sl
<1>11. FrozenWithin(new, fs, n)
  BY <1>7 DEF FrozenWithin
<1>12. new.plan \in Plans
  BY <1>1, <1>7 DEF SameSale
<1> QED
  BY <1>7, <1>9, <1>10, <1>11, <1>12 DEF IsVersion, new

(* A visit writes no dates but those of the grace, and no expiry.            *)
LEMMA VisitedVersion ==
  ASSUME NEW row, NEW read, NEW fs, NEW n, NEW at \in Time,
         settings \in Settings, IsVersion(row, fs, n), IsVersion(read, fs, n),
         read.sessionsRemaining = Null \/ read.sessionsRemaining > 0
  PROVE  LET new == VisitWrites(row, read, at) IN
         /\ IsVersion(new, fs, n) /\ SameSale(new, row)
         /\ new.status = "EXPIRED" => row.status = "EXPIRED"
<1> DEFINE new     == VisitWrites(row, read, at)
           entered == VisitRow(read, settings, at)
           graced  == IF OpensGrace(read)
                      THEN [row EXCEPT !.status = "IN_GRACE",
                                       !.graceUsedAt = entered.graceUsedAt,
                                       !.graceEndsAt = entered.graceEndsAt]
                      ELSE row
<1>1. row \in SoldPlan /\ read \in SoldPlan
  BY DEF IsVersion
<1>2. ASSUME OpensGrace(read)
      PROVE  entered.graceUsedAt \in Time /\ entered.graceEndsAt \in Time
  <2>1. GraceDays(settings) \in Nat
    BY DEF GraceDays, Settings
  <2>2. AddDays(read.endsAt, GraceDays(settings)) \in Time
    BY <1>1, <2>1, DaysAreTicks DEF SoldPlan
  <2> QED
    BY <1>1, <1>2, <2>2 DEF VisitRow, SoldPlan
<1>3. ASSUME read.sessionsRemaining # Null
      PROVE  entered.sessionsRemaining \in Nat
  <2>1. read.sessionsRemaining \in Nat /\ read.sessionsRemaining - 1 \in Nat
    BY <1>1, <1>3 DEF SoldPlan
  <2>2. entered.sessionsRemaining = read.sessionsRemaining - 1
    BY <1>1, <1>3 DEF VisitRow, SoldPlan
  <2> QED
    BY <2>1, <2>2
<1>4. new = IF read.sessionsRemaining = Null THEN graced
            ELSE [graced EXCEPT !.sessionsRemaining = entered.sessionsRemaining]
  BY DEF VisitWrites
<1> HIDE DEF entered, new
<1>5. /\ graced \in SoldPlan /\ SameSale(graced, row) /\ graced.endsAt = row.endsAt
      /\ graced.status = IF OpensGrace(read) THEN "IN_GRACE" ELSE row.status
      /\ ~OpensGrace(read) => graced = row
  <2>1. CASE OpensGrace(read)
    BY <1>1, <1>2, <2>1 DEF SoldPlan, Status, SameSale
  <2>2. CASE ~OpensGrace(read)
    BY <1>1, <2>2 DEF SameSale
  <2> QED
    BY <2>1, <2>2
<1> HIDE DEF graced
<1>6. IsVersion(graced, fs, n)
  <2>1. CASE OpensGrace(read)
    BY <1>5, <2>1, NotFrozenVersion
  <2>2. CASE ~OpensGrace(read)
    BY <1>5, <2>2
  <2> QED
    BY <2>1, <2>2
<1>7. CASE read.sessionsRemaining = Null
  BY <1>4, <1>5, <1>6, <1>7 DEF new
<1>8. CASE read.sessionsRemaining # Null
  <2>1. new = [graced EXCEPT !.sessionsRemaining = entered.sessionsRemaining]
    BY <1>4, <1>8
  <2>2. /\ new \in SoldPlan /\ new.status = graced.status
        /\ new.plan = graced.plan /\ new.startsAt = graced.startsAt
        /\ new.endsAt = graced.endsAt /\ new.frozenAt = graced.frozenAt
        /\ new.freezeEndsAt = graced.freezeEndsAt
    BY <1>3, <1>5, <1>8, <2>1 DEF SoldPlan
  <2>3. IsVersion(new, fs, n)
    BY <1>6, <2>2 DEF IsVersion, EndsWithin, FrozenWithin, TermOf
  <2> QED
    BY <1>5, <2>2, <2>3 DEF SameSale, new
<1> QED
  BY <1>7, <1>8

-----------------------------------------------------------------------------
(* Transactions beside each other *)

LEMMA UnsoldIsRow == Unsold \in SoldPlan
  BY TermsAssumption DEF Unsold, SoldPlan, Status, Time

LEMMA NobodysTx ==
  ASSUME NEW S, NEW F, NEW I, NEW n
  PROVE  /\ TxInv(NoTransaction, S, F, I, n)
         /\ NoTransaction.held = {}
<1> DEFINE x == NoTransaction
<1>1. (CHOOSE s \in Subs : TRUE) \in Subs
  BY SoldPlansTxAssumption
<1>2. [r \in Subs |-> Unsold] \in [Subs -> SoldPlan]
  BY UnsoldIsRow
<1>3. /\ x \in Transaction
      /\ x.step = "idle" /\ x.held = {} /\ x.overdue = {} /\ x.due = {}
  BY <1>1, <1>2, UnsoldIsRow
  DEF NoTransaction, Begun, Transaction, Operation, Step, Time
<1> HIDE DEF x
<1>4. TxInv(x, S, F, I, n)
  BY <1>3 DEF TxInv, OpenInv, SelectedInv, HeldInv, ReadInv
<1> QED
  BY <1>3, <1>4 DEF x

(* The tables move on: nothing sold is unsold or sold anew.                  *)
MovesOn(S, F, I, n, S2, F2, I2, n2) ==
  /\ n \in Time /\ n2 \in Time /\ n <= n2
  /\ \A s \in Subs : F[s] \in Seq(Episode) /\ Grows(F[s], F2[s])
  /\ \A s \in Subs : S[s].status # "UNSOLD" =>
       S2[s].status # "UNSOLD" /\ SameSale(S2[s], S[s])
  /\ \A y \in I : y \in I2

LEMMA TxStays ==
  ASSUME NEW x, NEW S, NEW F, NEW I, NEW n, NEW S2, NEW F2, NEW I2, NEW n2,
         TxInv(x, S, F, I, n), MovesOn(S, F, I, n, S2, F2, I2, n2),
         x.step # "idle" => n2 <= x.at + TxTime
  PROVE  TxInv(x, S2, F2, I2, n2)
<1>1. x \in Transaction /\ x.on \in Subs /\ x.held \subseteq Subs /\ x.due \subseteq Subs
  BY DEF TxInv, Transaction
<1>2. ASSUME NEW s \in Subs, NEW row, IsVersion(row, F[s], n)
      PROVE  IsVersion(row, F2[s], n2)
  BY <1>2, VersionStays DEF MovesOn
<1>3. ASSUME NEW s \in Subs, NEW row, SameSale(row, S[s]), S[s].status # "UNSOLD"
      PROVE  SameSale(row, S2[s]) /\ S2[s].status # "UNSOLD"
  BY <1>3 DEF MovesOn, SameSale
<1>4. OpenInv(x, S2, n2)
  <2> SUFFICES ASSUME x.step # "idle" PROVE OpenInv(x, S2, n2)
    BY DEF OpenInv
  <2>1. x.at <= n2
    <3>1. x.at \in Nat /\ n \in Nat /\ n2 \in Nat /\ n <= n2 /\ x.at <= n
      BY <1>1 DEF TxInv, OpenInv, Transaction, MovesOn, Time
    <3> QED
      BY <3>1
  <2>2. S2[x.on].status # "UNSOLD"
    BY <1>1 DEF TxInv, OpenInv, MovesOn
  <2> QED
    BY <2>1, <2>2 DEF TxInv, OpenInv
<1>5. SelectedInv(x, S2, F2)
  <2>1. \A s \in x.due : S2[s].status # "UNSOLD"
    BY <1>1 DEF TxInv, SelectedInv, MovesOn
  <2>2. ASSUME NEW y \in x.overdue PROVE y[2] \in DOMAIN F2[y[1]]
    <3>1. y \in Subs \X Nat
      BY <1>1 DEF Transaction
    <3>2. y[1] \in Subs /\ y[2] \in DOMAIN F[y[1]]
      BY <3>1 DEF TxInv, SelectedInv
    <3>3. /\ F[y[1]] \in Seq(Episode) /\ F2[y[1]] \in Seq(Episode)
          /\ Len(F[y[1]]) <= Len(F2[y[1]])
      BY <3>2 DEF MovesOn, Grows
    <3>4. /\ Len(F[y[1]]) \in Nat /\ Len(F2[y[1]]) \in Nat
          /\ DOMAIN F[y[1]] = 1 .. Len(F[y[1]])
          /\ DOMAIN F2[y[1]] = 1 .. Len(F2[y[1]])
      BY <3>3, LenProperties
    <3> QED
      BY <3>2, <3>3, <3>4
  <2> QED
    BY <2>1, <2>2 DEF SelectedInv
<1>6. HeldInv(x, S2, F2, I2, n2)
  <2> SUFFICES ASSUME NEW s \in x.held
               PROVE  /\ S2[s].status # "UNSOLD"
                      /\ IsVersion(x.draft[s], F2[s], n2)
                      /\ SameSale(x.draft[s], S2[s])
                      /\ Announced(x.draft[s], s, I2 \cup x.notices)
    BY DEF HeldInv
  <2>1. /\ s \in Subs /\ S[s].status # "UNSOLD"
        /\ IsVersion(x.draft[s], F[s], n) /\ SameSale(x.draft[s], S[s])
        /\ Announced(x.draft[s], s, I \cup x.notices)
    BY <1>1 DEF TxInv, HeldInv
  <2>2. Announced(x.draft[s], s, I2 \cup x.notices)
    BY <2>1 DEF Announced, MovesOn
  <2> QED
    BY <1>2, <1>3, <2>1, <2>2
<1>7. ReadInv(x, S2, F2, n2)
  <2> SUFFICES ASSUME x.step \in {"count", "close", "write"}
               PROVE  /\ IsVersion(x.row, F2[x.on], n2)
                      /\ SameSale(x.row, S2[x.on])
                      /\ IsAdmitted(x)
    BY DEF ReadInv
  <2>1. /\ IsVersion(x.row, F[x.on], n) /\ SameSale(x.row, S[x.on])
        /\ IsAdmitted(x) /\ S[x.on].status # "UNSOLD"
    BY DEF TxInv, ReadInv, OpenInv
  <2> QED
    BY <1>1, <1>2, <1>3, <2>1
<1> QED
  BY <1>4, <1>5, <1>6, <1>7 DEF TxInv

(* A session that only moves its own transaction on.                         *)
LEMMA OwnStep ==
  ASSUME XInv, NEW t \in Sessions, UNCHANGED <<now, tables>>,
         tx' \in [Sessions -> Transaction],
         \A o \in Sessions \ {t} : tx'[o] = tx[o],
         TxInv(tx'[t], sub, freezes, inbox, now)
  PROVE  XInv'
<1>1. /\ sub' = sub /\ freezes' = freezes /\ visits' = visits
      /\ inbox' = inbox /\ now' = now
  BY DEF tables
<1>2. TablesTyped(sub', freezes', visits', inbox', now')
  BY <1>1 DEF XInv
<1>3. \A s \in Subs : RowInv(s, sub', freezes', inbox', now')
  BY <1>1 DEF XInv
<1>4. \A o \in Sessions : TxInv(tx'[o], sub', freezes', inbox', now')
  BY <1>1 DEF XInv
<1> QED
  BY <1>2, <1>3, <1>4 DEF XInv

-----------------------------------------------------------------------------
(* COMMIT *)

LEMMA EpisodesType ==
  ASSUME XInv, NEW shut \in SUBSET Closing, NEW s \in Subs
  PROVE  /\ EpisodesWith(shut, s) \in Seq(Episode)
         /\ Len(EpisodesWith(shut, s)) = Len(freezes[s])
         /\ FrozenDays(EpisodesWith(shut, s)) = FrozenDays(freezes[s])
<1> DEFINE fs == freezes[s]
           gs == EpisodesWith(shut, s)
<1>1. fs \in Seq(Episode)
  BY DEF XInv, TablesTyped
<1>2. /\ Len(fs) \in Nat /\ DOMAIN fs = 1 .. Len(fs)
      /\ \A i \in 1 .. Len(fs) : fs[i] \in Episode
  BY <1>1, FreezesAreEpisodes
<1>3. /\ gs = [i \in 1 .. Len(fs) |-> gs[i]]
      /\ \A i \in 1 .. Len(fs) :
           gs[i] = IF ClosingsOf(shut, s, i) = {} THEN fs[i]
                   ELSE [fs[i] EXCEPT !.unfrozenAt =
                           (CHOOSE c \in ClosingsOf(shut, s, i) : TRUE).at]
  BY <1>2 DEF EpisodesWith
<1>4. \A i \in 1 .. Len(fs) : gs[i] \in Episode /\ gs[i].days = fs[i].days
  <2> SUFFICES ASSUME NEW i \in 1 .. Len(fs)
               PROVE  gs[i] \in Episode /\ gs[i].days = fs[i].days
    OBVIOUS
  <2> DEFINE c == CHOOSE c \in ClosingsOf(shut, s, i) : TRUE
  <2>1. CASE ClosingsOf(shut, s, i) = {}
    BY <1>2, <1>3, <2>1
  <2>2. CASE ClosingsOf(shut, s, i) # {}
    <3>1. c \in ClosingsOf(shut, s, i)
      BY <2>2
    <3>2. c.at \in Time
      BY <3>1 DEF ClosingsOf, Closing
    <3>3. gs[i] = [fs[i] EXCEPT !.unfrozenAt = c.at]
      BY <1>3, <2>2
    <3> HIDE DEF c, gs
    <3> QED
      BY <1>2, <3>2, <3>3 DEF Episode
  <2> QED
    BY <2>1, <2>2
<1> HIDE DEF gs
<1>5. gs \in Seq(Episode) /\ Len(gs) = Len(fs)
  BY <1>1, <1>3, <1>4, RewrittenFreezes
<1>6. FrozenDays(gs) = FrozenDays(fs)
  BY <1>1, <1>4, <1>5, SameDays
<1> QED
  BY <1>5, <1>6 DEF gs

LEMMA GrowsItself ==
  ASSUME NEW fs \in Seq(Episode)
  PROVE  Grows(fs, fs)
  BY LenProperties, FrozenDaysAreDays DEF Grows

LEMMA CommitGrows ==
  ASSUME XInv, NEW t \in Sessions, NEW done, NEW newFreezes, NEW newVisits,
         Commit(t, done, newFreezes, newVisits),
         done.on \in Subs, done.shut \in SUBSET Closing,
         newFreezes = <<>> \/ \E f \in Episode : newFreezes = <<f>>
  PROVE  /\ freezes' \in [Subs -> Seq(Episode)]
         /\ \A s \in Subs : Grows(freezes[s], freezes'[s])
         /\ \A s \in Subs : s # done.on => Len(freezes'[s]) = Len(freezes[s])
         /\ \A f \in Episode : newFreezes = <<f>> =>
              /\ Len(freezes'[done.on]) = Len(freezes[done.on]) + 1
              /\ FrozenDays(freezes'[done.on]) = FrozenDays(freezes[done.on]) + f.days
<1>1. freezes \in [Subs -> Seq(Episode)]
  BY DEF XInv, TablesTyped
<1>2. freezes' = [s \in Subs |-> IF s = done.on
                                 THEN EpisodesWith(done.shut, s) \o newFreezes
                                 ELSE EpisodesWith(done.shut, s)]
  BY DEF Commit
<1> DEFINE e(s) == EpisodesWith(done.shut, s)
<1>3. \A s \in Subs : /\ e(s) \in Seq(Episode) /\ Len(e(s)) = Len(freezes[s])
                      /\ FrozenDays(e(s)) = FrozenDays(freezes[s])
  BY EpisodesType
<1> HIDE DEF e
<1>4. \A s \in Subs : freezes'[s] = IF s = done.on THEN e(s) \o newFreezes ELSE e(s)
  BY <1>2 DEF e
<1>5. \A s \in Subs : Len(freezes[s]) \in Nat /\ FrozenDays(freezes[s]) \in Nat
  BY <1>1, LenProperties, FrozenDaysAreDays
<1>6. ASSUME NEW s \in Subs, s # done.on
      PROVE  /\ freezes'[s] \in Seq(Episode) /\ Grows(freezes[s], freezes'[s])
             /\ Len(freezes'[s]) = Len(freezes[s])
  BY <1>3, <1>4, <1>5, <1>6 DEF Grows
<1>7. CASE newFreezes = <<>>
  <2>1. freezes'[done.on] = e(done.on)
    <3>1. e(done.on) \o newFreezes = e(done.on)
      BY <1>3, <1>7, ConcatEmptySeq
    <3> QED
      BY <1>4, <3>1
  <2>2. /\ e(done.on) \in Seq(Episode) /\ Len(freezes[done.on]) \in Nat
        /\ Len(e(done.on)) = Len(freezes[done.on])
        /\ FrozenDays(freezes[done.on]) \in Nat
        /\ FrozenDays(e(done.on)) = FrozenDays(freezes[done.on])
    BY <1>3, <1>5
  <2>3. /\ freezes'[done.on] \in Seq(Episode)
        /\ Grows(freezes[done.on], freezes'[done.on])
    BY <2>1, <2>2 DEF Grows
  <2>4. \A f : newFreezes # <<f>>
    BY <1>7
  <2> QED
    BY <1>2, <1>6, <2>3, <2>4
<1>8. ASSUME NEW f \in Episode, newFreezes = <<f>>
      PROVE  /\ freezes'[done.on] \in Seq(Episode)
             /\ Len(freezes'[done.on]) = Len(freezes[done.on]) + 1
             /\ FrozenDays(freezes'[done.on]) = FrozenDays(freezes[done.on]) + f.days
             /\ Grows(freezes[done.on], freezes'[done.on])
  <2>1. freezes'[done.on] = e(done.on) \o <<f>>
    BY <1>4, <1>8
  <2>2. /\ e(done.on) \o <<f>> \in Seq(Episode)
        /\ Len(e(done.on) \o <<f>>) = Len(e(done.on)) + 1
        /\ FrozenDays(e(done.on) \o <<f>>) = FrozenDays(e(done.on)) + f.days
    BY <1>3, OneFreezeMore
  <2>3. f.days \in Nat
    BY DEF Episode
  <2> QED
    BY <1>3, <1>5, <2>1, <2>2, <2>3 DEF Grows
<1>9. CASE \E f \in Episode : newFreezes = <<f>>
  BY <1>2, <1>6, <1>8, <1>9
<1> QED
  BY <1>7, <1>9


(* What a COMMIT publishes is good for the tables it is published in.        *)
LEMMA CommitKeeps ==
  ASSUME XInv, NEW t \in Sessions, NEW done, NEW newFreezes, NEW newVisits,
         Commit(t, done, newFreezes, newVisits),
         done.on \in Subs, sub[done.on].status # "UNSOLD",
         done.held \subseteq Subs, done.shut \in SUBSET Closing,
         done.notices \in SUBSET (NoticeType \X Subs),
         newFreezes = <<>> \/ \E f \in Episode : newFreezes = <<f>>,
         newVisits \in Seq(Time),
         \A s \in done.held :
           /\ sub[s].status # "UNSOLD"
           /\ IsVersion(done.draft[s], freezes'[s], now)
           /\ SameSale(done.draft[s], sub[s])
           /\ Announced(done.draft[s], s, inbox \cup done.notices)
  PROVE  XInv'
<1>1. /\ now \in Time /\ sub \in [Subs -> SoldPlan]
      /\ freezes \in [Subs -> Seq(Episode)] /\ visits \in [Subs -> Seq(Time)]
      /\ inbox \in SUBSET (NoticeType \X Subs) /\ tx \in [Sessions -> Transaction]
  BY DEF XInv, TablesTyped
<1>2. /\ \A s \in Subs : sub'[s] = IF s \in done.held THEN done.draft[s] ELSE sub[s]
      /\ DOMAIN sub' = Subs
      /\ inbox' = inbox \cup done.notices /\ now' = now
      /\ visits' = [visits EXCEPT ![done.on] = @ \o newVisits]
      /\ tx' = [tx EXCEPT ![t] = NoTransaction]
  BY DEF Commit
<1>3. /\ freezes' \in [Subs -> Seq(Episode)]
      /\ \A s \in Subs : Grows(freezes[s], freezes'[s])
      /\ \A s \in Subs : s # done.on => Len(freezes'[s]) = Len(freezes[s])
  BY CommitGrows
<1>4. sub' = [s \in Subs |-> IF s \in done.held THEN done.draft[s] ELSE sub[s]]
  BY DEF Commit
<1>5. sub' \in [Subs -> SoldPlan]
  BY <1>1, <1>4 DEF IsVersion
<1>6. visits' \in [Subs -> Seq(Time)]
  <2>1. visits[done.on] \o newVisits \in Seq(Time)
    BY <1>1, ConcatProperties
  <2> QED
    BY <1>1, <1>2, <2>1
<1>7. TablesTyped(sub', freezes', visits', inbox', now')
  BY <1>1, <1>2, <1>3, <1>5, <1>6 DEF TablesTyped
<1>8. MovesOn(sub, freezes, inbox, now, sub', freezes', inbox', now')
  <2>1. now <= now'
    BY <1>1, <1>2 DEF Time
  <2>2. ASSUME NEW s \in Subs, sub[s].status # "UNSOLD"
        PROVE  sub'[s].status # "UNSOLD" /\ SameSale(sub'[s], sub[s])
    BY <1>2, <2>2 DEF IsVersion, SameSale
  <2>3. \A s \in Subs : freezes[s] \in Seq(Episode)
    BY <1>1
  <2> QED
    BY <1>1, <1>2, <1>3, <2>1, <2>2, <2>3 DEF MovesOn
<1>9. ASSUME NEW s \in Subs PROVE RowInv(s, sub', freezes', inbox', now')
  <2>1. RowInv(s, sub, freezes, inbox, now)
    BY DEF XInv
  <2>2. CASE s \in done.held
    <3>1. /\ IsVersion(sub'[s], freezes'[s], now')
          /\ Announced(sub'[s], s, inbox')
      BY <1>2, <2>2
    <3> QED
      BY <3>1 DEF RowInv, IsVersion
  <2>3. CASE s \notin done.held
    <3>1. sub'[s] = sub[s]
      BY <1>2, <2>3
    <3>2. Announced(sub'[s], s, inbox')
      BY <1>2, <2>1, <3>1 DEF RowInv, Announced
    <3>3. ASSUME sub[s].status = "UNSOLD" PROVE freezes'[s] = <<>>
      <4>1. freezes[s] = <<>> /\ s # done.on
        BY <2>1, <3>3 DEF RowInv
      <4>2. Len(freezes'[s]) = 0 /\ freezes'[s] \in Seq(Episode)
        BY <1>3, <4>1
      <4> QED
        BY <4>2, EmptySeq
    <3>4. ASSUME sub[s].status # "UNSOLD"
          PROVE  IsVersion(sub'[s], freezes'[s], now')
      <4>1. IsVersion(sub[s], freezes[s], now) /\ freezes[s] \in Seq(Episode)
        BY <1>1, <2>1, <3>4 DEF RowInv
      <4>2. Grows(freezes[s], freezes'[s])
        BY <1>3
      <4>3. now' \in Time /\ now <= now'
        BY <1>1, <1>2 DEF Time
      <4>4. IsVersion(sub[s], freezes'[s], now')
        BY <1>1, <4>1, <4>2, <4>3, VersionStays
      <4> QED
        BY <3>1, <4>4
    <3> QED
      BY <3>1, <3>2, <3>3, <3>4 DEF RowInv
  <2> QED
    BY <2>2, <2>3
<1>10. tx' \in [Sessions -> Transaction]
  BY <1>1, <1>2, NobodysTx DEF TxInv
<1>11. ASSUME NEW o \in Sessions
       PROVE  TxInv(tx'[o], sub', freezes', inbox', now')
  <2>1. CASE o = t
    <3>1. tx'[o] = NoTransaction
      BY <1>1, <1>2, <2>1
    <3>2. TxInv(NoTransaction, sub', freezes', inbox', now')
      BY NobodysTx
    <3> QED
      BY <3>1, <3>2
  <2>2. CASE o # t
    <3>1. tx'[o] = tx[o]
      BY <1>1, <1>2, <2>2
    <3>2. TxInv(tx[o], sub, freezes, inbox, now)
      BY DEF XInv
    <3>3. tx[o].step # "idle" => now' <= tx[o].at + TxTime
      BY <1>2, <3>2 DEF TxInv, OpenInv
    <3>4. TxInv(tx[o], sub', freezes', inbox', now')
      BY <1>8, <3>2, <3>3, TxStays
    <3> QED
      BY <3>1, <3>4
  <2> QED
    BY <2>1, <2>2
<1> QED
  BY <1>7, <1>9, <1>10, <1>11 DEF XInv

-----------------------------------------------------------------------------
(* The steps inside a transaction *)

LEMMA ViewIs ==
  ASSUME XInv, NEW t \in Sessions, NEW s \in Subs
  PROVE  /\ View(t, s) \in SoldPlan
         /\ View(t, s).status # "UNSOLD" => sub[s].status # "UNSOLD"
         /\ sub[s].status # "UNSOLD" =>
              /\ IsVersion(View(t, s), freezes[s], now)
              /\ SameSale(View(t, s), sub[s])
              /\ Announced(View(t, s), s, inbox \cup tx[t].notices)
<1>1. /\ TxInv(tx[t], sub, freezes, inbox, now)
      /\ RowInv(s, sub, freezes, inbox, now)
      /\ sub \in [Subs -> SoldPlan]
  BY DEF XInv, TablesTyped
<1>2. CASE s \in tx[t].held
  <2>1. View(t, s) = tx[t].draft[s]
    BY <1>2 DEF View
  <2>2. /\ sub[s].status # "UNSOLD"
        /\ IsVersion(tx[t].draft[s], freezes[s], now)
        /\ SameSale(tx[t].draft[s], sub[s])
        /\ Announced(tx[t].draft[s], s, inbox \cup tx[t].notices)
    BY <1>1, <1>2 DEF TxInv, HeldInv
  <2> QED
    BY <2>1, <2>2 DEF IsVersion
<1>3. CASE s \notin tx[t].held
  <2>1. View(t, s) = sub[s]
    BY <1>3 DEF View
  <2>2. SameSale(sub[s], sub[s])
    BY DEF SameSale
  <2>3. Announced(sub[s], s, inbox \cup tx[t].notices)
    BY <1>1 DEF RowInv, Announced
  <2> QED
    BY <1>1, <2>1, <2>2, <2>3 DEF RowInv
<1> QED
  BY <1>2, <1>3

LEMMA BeginKeeps ==
  ASSUME XInv, NEW t \in Sessions, NEW op \in Ops, NEW s \in Subs,
         NEW days \in DaysFor(op), Begin(t, op, s, days)
  PROVE  XInv'
<1> DEFINE x2 == Begun(op, s, days, "overdue")
<1>1. tx' = [tx EXCEPT ![t] = x2] /\ sub[s].status # "UNSOLD"
  BY DEF Begin
<1>2. days \in Nat /\ (op = "freeze" => days # 0) /\ op \in Operation
  BY SoldPlansAssumption, SoldPlansTxAssumption DEF DaysFor
<1>3. now \in Time /\ tx \in [Sessions -> Transaction]
  BY DEF XInv, TablesTyped
<1>4. [r \in Subs |-> Unsold] \in [Subs -> SoldPlan]
  BY UnsoldIsRow
<1>5. /\ x2.step = "overdue" /\ x2.on = s /\ x2.op = op /\ x2.days = days
      /\ x2.at = now /\ x2.held = {} /\ x2.overdue = {} /\ x2.due = {}
      /\ x2.notices = {}
  BY DEF Begun
<1>6. x2 \in Transaction
  BY <1>2, <1>3, <1>4, UnsoldIsRow DEF Begun, Transaction, Step
<1> HIDE DEF x2
<1>7. now <= now /\ now <= now + TxTime
  BY <1>3, SoldPlansTxAssumption DEF Time
<1>8. TxInv(x2, sub, freezes, inbox, now)
  BY <1>1, <1>2, <1>5, <1>6, <1>7
  DEF TxInv, OpenInv, SelectedInv, HeldInv, ReadInv
<1>9. /\ tx'[t] = x2 /\ tx' \in [Sessions -> Transaction]
      /\ \A o \in Sessions \ {t} : tx'[o] = tx[o]
  BY <1>1, <1>3, <1>6
<1> QED
  BY <1>8, <1>9, OwnStep DEF Begin

LEMMA SelectOverdueKeeps ==
  ASSUME XInv, NEW t \in Sessions, SelectOverdue(t)
  PROVE  XInv'
<1> DEFINE x  == tx[t]
           od == OverdueIn(Scope(t))
<1>1. /\ x.step = "overdue"
      /\ tx' = [tx EXCEPT ![t].overdue = od, ![t].step = "thaw"]
  BY DEF SelectOverdue
<1>2. /\ tx \in [Sessions -> Transaction] /\ x \in Transaction
      /\ freezes \in [Subs -> Seq(Episode)]
      /\ TxInv(x, sub, freezes, inbox, now)
  BY DEF XInv, TablesTyped
<1>3. \A y \in od : y \in Subs \X Nat /\ y[2] \in DOMAIN freezes[y[1]]
  <2> SUFFICES ASSUME NEW y \in od
               PROVE  y \in Subs \X Nat /\ y[2] \in DOMAIN freezes[y[1]]
    OBVIOUS
  <2>1. Scope(t) \subseteq Subs
    BY <1>2 DEF Scope, Transaction
  <2>2. PICK s \in Subs : \E i \in DOMAIN freezes[s] : y = <<s, i>>
    BY <2>1 DEF OverdueIn
  <2>3. PICK i \in DOMAIN freezes[s] : y = <<s, i>>
    BY <2>2
  <2>4. i \in Nat
    <3>1. freezes[s] \in Seq(Episode)
      BY <1>2
    <3> QED
      BY <3>1, FreezesAreEpisodes
  <2> QED
    BY <2>3, <2>4
<1> HIDE DEF od
<1>4. /\ tx'[t] = [x EXCEPT !.overdue = od, !.step = "thaw"]
      /\ \A o \in Sessions \ {t} : tx'[o] = tx[o]
      /\ tx' \in [Sessions -> Transaction]
  <2>1. od \in SUBSET (Subs \X Nat) /\ "thaw" \in Step
    BY <1>3 DEF Step
  <2>2. [x EXCEPT !.overdue = od, !.step = "thaw"] \in Transaction
    BY <1>2, <2>1 DEF Transaction
  <2> QED
    BY <1>1, <1>2, <2>2
<1>5. /\ tx'[t].step = "thaw" /\ tx'[t].overdue = od /\ tx'[t].due = x.due
      /\ tx'[t].op = x.op /\ tx'[t].on = x.on /\ tx'[t].at = x.at
      /\ tx'[t].days = x.days /\ tx'[t].held = x.held
      /\ tx'[t].draft = x.draft /\ tx'[t].notices = x.notices
  BY <1>2, <1>4 DEF Transaction
<1>6. TxInv(tx'[t], sub, freezes, inbox, now)
  <2>1. OpenInv(tx'[t], sub, now)
    BY <1>1, <1>2, <1>5 DEF TxInv, OpenInv
  <2>2. SelectedInv(tx'[t], sub, freezes)
    BY <1>2, <1>3, <1>5 DEF TxInv, SelectedInv
  <2>3. HeldInv(tx'[t], sub, freezes, inbox, now)
    BY <1>2, <1>5 DEF TxInv, HeldInv
  <2>4. tx'[t].notices = {}
    BY <1>1, <1>2, <1>5 DEF TxInv
  <2>5. ReadInv(tx'[t], sub, freezes, now)
    BY <1>5 DEF ReadInv
  <2> QED
    BY <1>4, <2>1, <2>2, <2>3, <2>4, <2>5 DEF TxInv
<1> QED
  BY <1>4, <1>6, OwnStep DEF SelectOverdue

LEMMA ThawKeeps ==
  ASSUME XInv, NEW t \in Sessions, Thaw(t)
  PROVE  XInv'
<1> DEFINE x == tx[t]
<1>1. /\ tx \in [Sessions -> Transaction] /\ x \in Transaction
      /\ freezes \in [Subs -> Seq(Episode)]
      /\ TxInv(x, sub, freezes, inbox, now)
  BY DEF XInv, TablesTyped
<1>2. PICK y \in x.overdue :
        tx' = [tx EXCEPT
                 ![t].overdue = @ \ {y},
                 ![t].held = @ \cup {y[1]},
                 ![t].draft[y[1]] = ThawRow(View(t, y[1])),
                 ![t].shut = @ \cup {[sub |-> y[1], id |-> y[2],
                                      at |-> freezes[y[1]][y[2]].endedAt]}]
  BY DEF Thaw
<1> DEFINE s   == y[1]
           i   == y[2]
           new == ThawRow(View(t, s))
           c   == [sub |-> s, id |-> i, at |-> freezes[s][i].endedAt]
<1>3. s \in Subs /\ i \in Nat /\ i \in DOMAIN freezes[s]
  BY <1>1, <1>2 DEF TxInv, SelectedInv, Transaction
<1>4. freezes[s] \in Seq(Episode) /\ freezes[s] # <<>>
  BY <1>1, <1>3
<1>5. sub[s].status # "UNSOLD"
  BY <1>3, <1>4 DEF XInv, RowInv
<1>6. freezes[s][i].endedAt \in Time
  BY <1>3, <1>4, FreezesAreEpisodes
<1>7. c \in Closing
  BY <1>3, <1>6 DEF Closing
<1>8. /\ IsVersion(View(t, s), freezes[s], now)
      /\ SameSale(View(t, s), sub[s])
  BY <1>3, <1>5, ViewIs
<1>9. IsVersion(new, freezes[s], now) /\ new.status = "ACTIVE"
      /\ SameSale(new, View(t, s))
  BY <1>8, ThawedVersion
<1>10. SameSale(new, sub[s])
  BY <1>8, <1>9 DEF SameSale
<1>11. new \in SoldPlan
  BY <1>9 DEF IsVersion
<1>12. tx' = [tx EXCEPT ![t].overdue = @ \ {y}, ![t].held = @ \cup {s},
                        ![t].draft[s] = new, ![t].shut = @ \cup {c}]
  BY <1>2
<1> HIDE DEF s, i, new, c
<1>13. /\ tx'[t] = [x EXCEPT !.overdue = @ \ {y}, !.held = @ \cup {s},
                             !.draft[s] = new, !.shut = @ \cup {c}]
       /\ \A o \in Sessions \ {t} : tx'[o] = tx[o]
       /\ DOMAIN tx' = Sessions
       /\ tx' = [o \in Sessions |-> tx'[o]]
  BY <1>1, <1>12
<1>14. /\ tx'[t].overdue = x.overdue \ {y} /\ tx'[t].held = x.held \cup {s}
       /\ tx'[t].draft = [x.draft EXCEPT ![s] = new]
       /\ tx'[t].due = x.due /\ tx'[t].notices = x.notices
       /\ tx'[t].step = x.step /\ tx'[t].op = x.op /\ tx'[t].on = x.on
       /\ tx'[t].at = x.at /\ tx'[t].days = x.days
  BY <1>1, <1>13 DEF Transaction
<1>15. tx'[t] \in Transaction
  <2>1. /\ x.overdue \ {y} \in SUBSET (Subs \X Nat)
        /\ x.held \cup {s} \in SUBSET Subs
        /\ x.shut \cup {c} \in SUBSET Closing
    BY <1>1, <1>3, <1>7 DEF Transaction
  <2>2. [x.draft EXCEPT ![s] = new] \in [Subs -> SoldPlan]
    BY <1>1, <1>11 DEF Transaction
  <2>3. tx'[t] = [x EXCEPT !.overdue = x.overdue \ {y}, !.held = x.held \cup {s},
                           !.draft = [x.draft EXCEPT ![s] = new],
                           !.shut = x.shut \cup {c}]
    BY <1>1, <1>13 DEF Transaction
  <2> QED
    BY <1>1, <2>1, <2>2, <2>3 DEF Transaction
<1>16. tx' \in [Sessions -> Transaction]
  BY <1>1, <1>13, <1>15
<1>17. x.step = "thaw"
  BY DEF Thaw
<1>18. TxInv(tx'[t], sub, freezes, inbox, now)
  <2>1. OpenInv(tx'[t], sub, now)
    BY <1>1, <1>14 DEF TxInv, OpenInv
  <2>2. SelectedInv(tx'[t], sub, freezes)
    BY <1>1, <1>14 DEF TxInv, SelectedInv
  <2>3. HeldInv(tx'[t], sub, freezes, inbox, now)
    <3> SUFFICES ASSUME NEW r \in tx'[t].held
                 PROVE  /\ sub[r].status # "UNSOLD"
                        /\ IsVersion(tx'[t].draft[r], freezes[r], now)
                        /\ SameSale(tx'[t].draft[r], sub[r])
                        /\ Announced(tx'[t].draft[r], r, inbox \cup tx'[t].notices)
      BY DEF HeldInv
    <3>1. CASE r = s
      <4>1. tx'[t].draft[r] = new
        BY <1>1, <1>3, <1>14, <3>1 DEF Transaction
      <4>2. Announced(new, r, inbox \cup tx'[t].notices)
        BY <1>9 DEF Announced, new
      <4> QED
        BY <1>5, <1>9, <1>10, <3>1, <4>1, <4>2 DEF new
    <3>2. CASE r # s
      <4>1. r \in x.held /\ r \in Subs
        BY <1>1, <1>14, <3>2 DEF Transaction
      <4>2. tx'[t].draft[r] = x.draft[r]
        BY <1>1, <1>14, <3>2, <4>1 DEF Transaction
      <4> QED
        BY <1>1, <1>14, <4>1, <4>2 DEF TxInv, HeldInv
    <3> QED
      BY <3>1, <3>2
  <2>4. tx'[t].notices = {}
    BY <1>1, <1>14, <1>17 DEF TxInv
  <2>5. ReadInv(tx'[t], sub, freezes, now)
    BY <1>14, <1>17 DEF ReadInv
  <2> QED
    BY <1>15, <2>1, <2>2, <2>3, <2>4, <2>5 DEF TxInv
<1> QED
  BY <1>13, <1>16, <1>18, OwnStep DEF Thaw

LEMMA SelectDueKeeps ==
  ASSUME XInv, NEW t \in Sessions, SelectDue(t)
  PROVE  XInv'
<1> DEFINE x   == tx[t]
           due == {s \in Scope(t) : IsDue(View(t, s), settings, now)}
<1>1. /\ tx \in [Sessions -> Transaction] /\ x \in Transaction
      /\ TxInv(x, sub, freezes, inbox, now)
  BY DEF XInv
<1>2. /\ x.step = "thaw"
      /\ tx' = [tx EXCEPT ![t].due = due, ![t].step = "expire"]
  BY DEF SelectDue
<1>3. \A s \in due : s \in Subs /\ sub[s].status # "UNSOLD"
  <2>1. Scope(t) \subseteq Subs
    BY <1>1 DEF Scope, Transaction
  <2> QED
    BY <2>1, ViewIs DEF IsDue
<1> HIDE DEF due
<1>4. /\ tx'[t] = [x EXCEPT !.due = due, !.step = "expire"]
      /\ \A o \in Sessions \ {t} : tx'[o] = tx[o]
      /\ tx' \in [Sessions -> Transaction]
  BY <1>1, <1>2, <1>3 DEF Transaction, Step
<1>5. /\ tx'[t].step = "expire" /\ tx'[t].overdue = x.overdue /\ tx'[t].due = due
      /\ tx'[t].op = x.op /\ tx'[t].on = x.on /\ tx'[t].at = x.at
      /\ tx'[t].days = x.days /\ tx'[t].held = x.held
      /\ tx'[t].draft = x.draft /\ tx'[t].notices = x.notices
  BY <1>1, <1>4 DEF Transaction
<1>6. TxInv(tx'[t], sub, freezes, inbox, now)
  <2>1. OpenInv(tx'[t], sub, now)
    BY <1>1, <1>2, <1>5 DEF TxInv, OpenInv
  <2>2. SelectedInv(tx'[t], sub, freezes)
    BY <1>1, <1>3, <1>5 DEF TxInv, SelectedInv
  <2>3. HeldInv(tx'[t], sub, freezes, inbox, now)
    BY <1>1, <1>5 DEF TxInv, HeldInv
  <2>4. tx'[t].notices = {}
    BY <1>1, <1>2, <1>5 DEF TxInv
  <2>5. ReadInv(tx'[t], sub, freezes, now)
    BY <1>5 DEF ReadInv
  <2> QED
    BY <1>4, <2>1, <2>2, <2>3, <2>4, <2>5 DEF TxInv
<1> QED
  BY <1>4, <1>6, OwnStep DEF SelectDue

LEMMA ExpireKeeps ==
  ASSUME XInv, NEW t \in Sessions, Expire(t)
  PROVE  XInv'
<1> DEFINE x     == tx[t]
           draft == [s \in Subs |-> IF s \in x.due THEN Expired(t, s) ELSE x.draft[s]]
           told  == {<<"SUBSCRIPTION_EXPIRED", s>> : s \in x.due}
                      \cup {<<"SUBSCRIPTION_ENDING_SOON", s>> :
                              s \in {r \in Scope(t) : IsEndingSoon(Expired(t, r), now)}}
<1>1. /\ tx \in [Sessions -> Transaction] /\ x \in Transaction
      /\ TxInv(x, sub, freezes, inbox, now)
  BY DEF XInv
<1>2. x.step = "expire" /\ x.notices = {}
  BY <1>1 DEF Expire, TxInv
<1>3. x.due \subseteq Subs /\ x.held \subseteq Subs /\ Scope(t) \subseteq Subs
  BY <1>1 DEF Transaction, Scope
<1>4. \A s \in x.due : sub[s].status # "UNSOLD"
  BY <1>1 DEF TxInv, SelectedInv
<1>5. ASSUME NEW s \in x.due
      PROVE  IsVersion(Expired(t, s), freezes[s], now) /\ SameSale(Expired(t, s), sub[s])
  <2>1. IsVersion(View(t, s), freezes[s], now) /\ SameSale(View(t, s), sub[s])
    BY <1>3, <1>4, ViewIs
  <2>2. Expired(t, s) = [View(t, s) EXCEPT !.status = "EXPIRED"]
    BY DEF Expired
  <2>3. /\ IsVersion(Expired(t, s), freezes[s], now)
        /\ SameSale(Expired(t, s), View(t, s))
    BY <2>1, <2>2, ExpiredVersion
  <2> QED
    BY <2>1, <2>3 DEF SameSale
<1>6. told \in SUBSET (NoticeType \X Subs)
  BY <1>3 DEF NoticeType
<1>7. draft \in [Subs -> SoldPlan]
  BY <1>1, <1>5 DEF Transaction, IsVersion
<1>8. tx' = [tx EXCEPT ![t].held = @ \cup x.due, ![t].draft = draft,
                       ![t].notices = told, ![t].step = "read"]
  <2>1. /\ [tx EXCEPT ![t].held = @ \cup x.due][t].draft = x.draft
    BY <1>1 DEF Transaction
  <2> QED
    BY <1>1 DEF Expire, Transaction
<1>9. \A s \in x.due : <<"SUBSCRIPTION_EXPIRED", s>> \in told
  OBVIOUS
<1>10. \A s \in Subs : draft[s] = IF s \in x.due THEN Expired(t, s) ELSE x.draft[s]
  OBVIOUS
<1> HIDE DEF told, draft
<1>11. /\ tx'[t] = [x EXCEPT !.held = x.held \cup x.due, !.draft = draft,
                             !.notices = told, !.step = "read"]
       /\ \A o \in Sessions \ {t} : tx'[o] = tx[o]
       /\ DOMAIN tx' = Sessions
       /\ tx' = [o \in Sessions |-> tx'[o]]
  BY <1>1, <1>8 DEF Transaction
<1>12. tx'[t] \in Transaction
  <2>1. x.held \cup x.due \in SUBSET Subs
    BY <1>3
  <2> QED
    BY <1>1, <1>6, <1>7, <1>11, <2>1 DEF Transaction, Step
<1>13. tx' \in [Sessions -> Transaction]
  BY <1>1, <1>11, <1>12
<1>14. /\ tx'[t].overdue = x.overdue /\ tx'[t].held = x.held \cup x.due
       /\ tx'[t].draft = draft /\ tx'[t].due = x.due /\ tx'[t].notices = told
       /\ tx'[t].step = "read" /\ tx'[t].op = x.op /\ tx'[t].on = x.on
       /\ tx'[t].at = x.at /\ tx'[t].days = x.days
  BY <1>1, <1>11 DEF Transaction
<1>15. TxInv(tx'[t], sub, freezes, inbox, now)
  <2>1. OpenInv(tx'[t], sub, now)
    BY <1>1, <1>2, <1>14 DEF TxInv, OpenInv
  <2>2. SelectedInv(tx'[t], sub, freezes)
    BY <1>1, <1>14 DEF TxInv, SelectedInv
  <2>3. HeldInv(tx'[t], sub, freezes, inbox, now)
    <3> SUFFICES ASSUME NEW s \in tx'[t].held
                 PROVE  /\ sub[s].status # "UNSOLD"
                        /\ IsVersion(tx'[t].draft[s], freezes[s], now)
                        /\ SameSale(tx'[t].draft[s], sub[s])
                        /\ Announced(tx'[t].draft[s], s, inbox \cup tx'[t].notices)
      BY DEF HeldInv
    <3>1. s \in Subs
      BY <1>3, <1>14
    <3>2. CASE s \in x.due
      <4>1. tx'[t].draft[s] = Expired(t, s)
        BY <1>10, <1>14, <3>1, <3>2
      <4>2. Announced(tx'[t].draft[s], s, inbox \cup tx'[t].notices)
        BY <1>9, <1>14, <3>2 DEF Announced
      <4> QED
        BY <1>4, <1>5, <3>2, <4>1, <4>2
    <3>3. CASE s \notin x.due
      <4>1. tx'[t].draft[s] = x.draft[s] /\ s \in x.held
        BY <1>10, <1>14, <3>1, <3>3
      <4>2. /\ sub[s].status # "UNSOLD"
            /\ IsVersion(x.draft[s], freezes[s], now)
            /\ SameSale(x.draft[s], sub[s])
            /\ Announced(x.draft[s], s, inbox \cup x.notices)
        BY <1>1, <4>1 DEF TxInv, HeldInv
      <4>3. Announced(x.draft[s], s, inbox \cup tx'[t].notices)
        BY <1>2, <4>2 DEF Announced
      <4> QED
        BY <4>1, <4>2, <4>3
    <3> QED
      BY <3>2, <3>3
  <2>4. ReadInv(tx'[t], sub, freezes, now)
    BY <1>14 DEF ReadInv
  <2> QED
    BY <1>12, <1>14, <2>1, <2>2, <2>3, <2>4 DEF TxInv
<1> QED
  BY <1>11, <1>13, <1>15, OwnStep DEF Expire

LEMMA OneIsNewest ==
  ASSUME NEW fs \in Seq(Episode)
  PROVE  Max({0} \cup {i \in DOMAIN fs : IsNewestOpen(fs, i)}) \in Nat
<1> DEFINE A == {i \in DOMAIN fs : IsNewestOpen(fs, i)}
           S == {0} \cup A
<1>1. \A i \in A : i \in Nat /\ i >= 0
  BY FreezesAreEpisodes
<1>2. \A i, j \in A : i = j
  <2>1. \A i, j \in A : i <= j /\ j <= i
    BY DEF IsNewestOpen
  <2> QED
    BY <1>1, <2>1
<1> HIDE DEF A
<1>3. \E m \in S : \A y \in S : m >= y
  <2>1. CASE A = {}
    BY <2>1
  <2>2. CASE A # {}
    <3>1. PICK m : m \in A
      BY <2>2
    <3>2. \A y \in S : m >= y
      BY <1>1, <1>2, <3>1
    <3> QED
      BY <3>1, <3>2
  <2> QED
    BY <2>1, <2>2
<1>4. S \subseteq Nat
  BY <1>1
<1>5. Max(S) \in S
  BY <1>3 DEF Max
<1> QED
  BY <1>4, <1>5 DEF A

LEMMA ReadKeeps ==
  ASSUME XInv, NEW t \in Sessions, Read(t)
  PROVE  XInv'
<1> DEFINE x      == tx[t]
           s      == x.on
           fs     == EpisodesWith(x.shut, s)
           newest == Max({0} \cup {i \in DOMAIN fs : IsNewestOpen(fs, i)})
           row    == View(t, s)
           step   == NextStep(x.op)
<1>1. /\ tx \in [Sessions -> Transaction] /\ x \in Transaction
      /\ TxInv(x, sub, freezes, inbox, now)
  BY DEF XInv
<1>2. /\ x.step = "read" /\ Admits(t, row, fs)
      /\ tx' = [tx EXCEPT ![t].row = row, ![t].newest = newest, ![t].step = step]
  BY DEF Read
<1>3. s \in Subs /\ sub[s].status # "UNSOLD"
  BY <1>1, <1>2 DEF Transaction, TxInv, OpenInv
<1>4. newest \in Nat
  <2>1. fs \in Seq(Episode)
    BY <1>1, <1>3, EpisodesType DEF Transaction
  <2> QED
    BY <2>1, OneIsNewest
<1>5. row \in SoldPlan /\ IsVersion(row, freezes[s], now) /\ SameSale(row, sub[s])
  BY <1>3, ViewIs
<1>6. /\ x.op = "freeze" => row.status = "ACTIVE" /\ x.at < row.endsAt
      /\ x.op = "unfreeze" => row.status = "FROZEN"
      /\ x.op = "visit" => row.sessionsRemaining = Null \/ row.sessionsRemaining > 0
  BY <1>2 DEF Admits, MayFreeze, DoorOpensFor
<1>7. step \in {"count", "close", "write"}
  BY DEF NextStep
<1> HIDE DEF fs, newest, row, step
<1>8. /\ tx'[t] = [x EXCEPT !.row = row, !.newest = newest, !.step = step]
      /\ \A o \in Sessions \ {t} : tx'[o] = tx[o]
      /\ DOMAIN tx' = Sessions
      /\ tx' = [o \in Sessions |-> tx'[o]]
  BY <1>1, <1>2 DEF Transaction
<1>9. tx'[t] \in Transaction
  BY <1>1, <1>4, <1>5, <1>7, <1>8 DEF Transaction, Step
<1>10. tx' \in [Sessions -> Transaction]
  BY <1>1, <1>8, <1>9
<1>11. /\ tx'[t].overdue = x.overdue /\ tx'[t].held = x.held
       /\ tx'[t].draft = x.draft /\ tx'[t].due = x.due
       /\ tx'[t].notices = x.notices /\ tx'[t].row = row
       /\ tx'[t].step = step /\ tx'[t].op = x.op /\ tx'[t].on = s
       /\ tx'[t].at = x.at /\ tx'[t].days = x.days
  BY <1>1, <1>8 DEF Transaction
<1>12. TxInv(tx'[t], sub, freezes, inbox, now)
  <2>1. OpenInv(tx'[t], sub, now)
    BY <1>1, <1>2, <1>11 DEF TxInv, OpenInv
  <2>2. SelectedInv(tx'[t], sub, freezes)
    BY <1>1, <1>11 DEF TxInv, SelectedInv
  <2>3. HeldInv(tx'[t], sub, freezes, inbox, now)
    BY <1>1, <1>11 DEF TxInv, HeldInv
  <2>4. IsAdmitted(tx'[t])
    BY <1>6, <1>11 DEF IsAdmitted
  <2>5. ReadInv(tx'[t], sub, freezes, now)
    BY <1>5, <1>11, <2>4 DEF ReadInv
  <2> QED
    BY <1>7, <1>9, <1>11, <2>1, <2>2, <2>3, <2>5 DEF TxInv
<1> QED
  BY <1>8, <1>10, <1>12, OwnStep DEF Read

LEMMA CloseOpenKeeps ==
  ASSUME XInv, NEW t \in Sessions, CloseOpen(t)
  PROVE  XInv'
<1> DEFINE x    == tx[t]
           s    == x.on
           fs   == EpisodesWith(x.shut, s)
           open == {i \in DOMAIN fs : IsOpen(fs[i])}
           own  == {[sub |-> s, id |-> i, at |-> x.at] : i \in open}
<1>1. /\ tx \in [Sessions -> Transaction] /\ x \in Transaction
      /\ TxInv(x, sub, freezes, inbox, now)
  BY DEF XInv
<1>2. /\ x.step = "close"
      /\ tx' = [tx EXCEPT ![t].shut = @ \cup own, ![t].step = "write"]
  BY DEF CloseOpen
<1>3. own \in SUBSET Closing
  <2>1. fs \in Seq(Episode)
    BY <1>1, EpisodesType DEF Transaction
  <2> HIDE DEF fs
  <2>2. \A i \in open : i \in Nat
    BY <2>1, FreezesAreEpisodes
  <2> HIDE DEF open
  <2>3. s \in Subs /\ x.at \in Time
    BY <1>1 DEF Transaction
  <2> QED
    BY <2>2, <2>3 DEF Closing
<1> HIDE DEF own
<1>4. /\ tx'[t] = [x EXCEPT !.shut = x.shut \cup own, !.step = "write"]
      /\ \A o \in Sessions \ {t} : tx'[o] = tx[o]
      /\ DOMAIN tx' = Sessions
      /\ tx' = [o \in Sessions |-> tx'[o]]
  BY <1>1, <1>2 DEF Transaction
<1>5. tx'[t] \in Transaction
  <2>1. x.shut \cup own \in SUBSET Closing
    BY <1>1, <1>3 DEF Transaction
  <2> QED
    BY <1>1, <1>4, <2>1 DEF Transaction, Step
<1>6. tx' \in [Sessions -> Transaction]
  BY <1>1, <1>4, <1>5
<1>7. /\ tx'[t].overdue = x.overdue /\ tx'[t].held = x.held
      /\ tx'[t].draft = x.draft /\ tx'[t].due = x.due
      /\ tx'[t].notices = x.notices /\ tx'[t].row = x.row
      /\ tx'[t].step = "write" /\ tx'[t].op = x.op /\ tx'[t].on = x.on
      /\ tx'[t].at = x.at /\ tx'[t].days = x.days
  BY <1>1, <1>4 DEF Transaction
<1>8. TxInv(tx'[t], sub, freezes, inbox, now)
  <2>1. OpenInv(tx'[t], sub, now)
    BY <1>1, <1>2, <1>7 DEF TxInv, OpenInv
  <2>2. SelectedInv(tx'[t], sub, freezes)
    BY <1>1, <1>7 DEF TxInv, SelectedInv
  <2>3. HeldInv(tx'[t], sub, freezes, inbox, now)
    BY <1>1, <1>7 DEF TxInv, HeldInv
  <2>4. ReadInv(tx'[t], sub, freezes, now)
    BY <1>1, <1>2, <1>7 DEF TxInv, ReadInv, IsAdmitted
  <2> QED
    BY <1>5, <1>7, <2>1, <2>2, <2>3, <2>4 DEF TxInv
<1> QED
  BY <1>4, <1>6, <1>8, OwnStep DEF CloseOpen

LEMMA CountVisitsKeeps ==
  ASSUME XInv, NEW t \in Sessions, CountVisits(t)
  PROVE  XInv'
<1> DEFINE x == tx[t]
<1>1. /\ tx \in [Sessions -> Transaction] /\ x \in Transaction
      /\ TxInv(x, sub, freezes, inbox, now)
  BY DEF XInv
<1>2. x.step = "count" /\ tx' = [tx EXCEPT ![t].step = "write"]
  BY DEF CountVisits
<1>3. /\ tx'[t] = [x EXCEPT !.step = "write"]
      /\ \A o \in Sessions \ {t} : tx'[o] = tx[o]
      /\ tx' \in [Sessions -> Transaction] /\ tx'[t] \in Transaction
  BY <1>1, <1>2 DEF Transaction, Step
<1>4. /\ tx'[t].overdue = x.overdue /\ tx'[t].held = x.held
      /\ tx'[t].draft = x.draft /\ tx'[t].due = x.due
      /\ tx'[t].notices = x.notices /\ tx'[t].row = x.row
      /\ tx'[t].step = "write" /\ tx'[t].op = x.op /\ tx'[t].on = x.on
      /\ tx'[t].at = x.at /\ tx'[t].days = x.days
  BY <1>1, <1>3 DEF Transaction
<1>5. TxInv(tx'[t], sub, freezes, inbox, now)
  <2>1. OpenInv(tx'[t], sub, now)
    BY <1>1, <1>2, <1>4 DEF TxInv, OpenInv
  <2>2. SelectedInv(tx'[t], sub, freezes)
    BY <1>1, <1>4 DEF TxInv, SelectedInv
  <2>3. HeldInv(tx'[t], sub, freezes, inbox, now)
    BY <1>1, <1>4 DEF TxInv, HeldInv
  <2>4. ReadInv(tx'[t], sub, freezes, now)
    BY <1>1, <1>2, <1>4 DEF TxInv, ReadInv, IsAdmitted
  <2> QED
    BY <1>3, <1>4, <2>1, <2>2, <2>3, <2>4 DEF TxInv
<1> QED
  BY <1>3, <1>5, OwnStep DEF CountVisits

LEMMA RollbackKeeps ==
  ASSUME XInv, NEW t \in Sessions, Rollback(t)
  PROVE  XInv'
<1>1. tx \in [Sessions -> Transaction] /\ tx' = [tx EXCEPT ![t] = NoTransaction]
  BY DEF XInv, Rollback
<1>2. TxInv(NoTransaction, sub, freezes, inbox, now) /\ NoTransaction \in Transaction
  BY NobodysTx DEF TxInv
<1>3. /\ tx'[t] = NoTransaction /\ tx' \in [Sessions -> Transaction]
      /\ \A o \in Sessions \ {t} : tx'[o] = tx[o]
  BY <1>1, <1>2
<1> QED
  BY <1>2, <1>3, OwnStep DEF Rollback

-----------------------------------------------------------------------------
(* The steps that end a transaction *)

(* A session publishes what it has held and, at most, a version of its own  *)
(* plan that it writes last.                                                 *)
LEMMA OwnRowGoesOut ==
  ASSUME XInv, NEW t \in Sessions, NEW done, NEW newFreezes, NEW newVisits,
         Commit(t, done, newFreezes, newVisits),
         tx[t].step # "idle", done.on = tx[t].on,
         done.held \subseteq tx[t].held \cup {tx[t].on},
         done.shut \in SUBSET Closing,
         done.notices \in SUBSET (NoticeType \X Subs),
         tx[t].notices \subseteq done.notices,
         \A s \in tx[t].held : s # tx[t].on => done.draft[s] = tx[t].draft[s],
         newFreezes = <<>> \/ \E f \in Episode : newFreezes = <<f>>,
         newVisits \in Seq(Time),
         tx[t].on \in done.held =>
           /\ IsVersion(done.draft[tx[t].on], freezes'[tx[t].on], now)
           /\ SameSale(done.draft[tx[t].on], sub[tx[t].on])
           /\ Announced(done.draft[tx[t].on], tx[t].on, inbox \cup done.notices)
  PROVE  XInv'
<1> DEFINE x == tx[t]
<1>1. /\ x \in Transaction /\ TxInv(x, sub, freezes, inbox, now)
      /\ now \in Time /\ freezes \in [Subs -> Seq(Episode)]
  BY DEF XInv, TablesTyped
<1>2. x.on \in Subs /\ x.held \subseteq Subs
  BY <1>1 DEF Transaction
<1>3. sub[x.on].status # "UNSOLD"
  BY <1>1 DEF TxInv, OpenInv
<1>4. \A s \in Subs : Grows(freezes[s], freezes'[s])
  BY <1>2, CommitGrows
<1>5. ASSUME NEW s \in done.held
      PROVE  /\ sub[s].status # "UNSOLD"
             /\ IsVersion(done.draft[s], freezes'[s], now)
             /\ SameSale(done.draft[s], sub[s])
             /\ Announced(done.draft[s], s, inbox \cup done.notices)
  <2>1. CASE s = x.on
    BY <1>3, <2>1
  <2>2. CASE s # x.on
    <3>1. s \in x.held /\ s \in Subs /\ done.draft[s] = x.draft[s]
      BY <1>2, <2>2
    <3>2. /\ sub[s].status # "UNSOLD"
          /\ IsVersion(x.draft[s], freezes[s], now)
          /\ SameSale(x.draft[s], sub[s])
          /\ Announced(x.draft[s], s, inbox \cup x.notices)
      BY <1>1, <3>1 DEF TxInv, HeldInv
    <3>3. IsVersion(x.draft[s], freezes'[s], now)
      <4>1. freezes[s] \in Seq(Episode) /\ now <= now
        BY <1>1, <3>1 DEF Time
      <4> QED
        BY <1>1, <1>4, <3>1, <3>2, <4>1, VersionStays
    <3>4. Announced(x.draft[s], s, inbox \cup done.notices)
      BY <3>2 DEF Announced
    <3> QED
      BY <3>1, <3>2, <3>3, <3>4
  <2> QED
    BY <2>1, <2>2
<1>6. done.held \subseteq Subs /\ done.on \in Subs /\ sub[done.on].status # "UNSOLD"
  BY <1>2, <1>3
<1> QED
  BY <1>5, <1>6, CommitKeeps

(* The row that a session sees when it writes, and that it has read before. *)
LEMMA ReadRowIs ==
  ASSUME XInv, NEW t \in Sessions, tx[t].step = "write",
         NEW fs \in Seq(Episode), Grows(freezes[tx[t].on], fs)
  PROVE  LET x == tx[t] IN
         /\ x \in Transaction /\ x.on \in Subs
         /\ IsVersion(x.row, fs, now) /\ IsAdmitted(x)
         /\ IsVersion(View(t, x.on), fs, now)
         /\ SameSale(x.row, View(t, x.on))
         /\ SameSale(View(t, x.on), sub[x.on])
         /\ Announced(View(t, x.on), x.on, inbox \cup x.notices)
         /\ x.at \in Time /\ now \in Time /\ x.at <= now /\ now <= x.at + TxTime
<1> DEFINE x == tx[t]
           s == tx[t].on
<1>1. /\ x \in Transaction /\ TxInv(x, sub, freezes, inbox, now)
      /\ now \in Time /\ freezes \in [Subs -> Seq(Episode)]
  BY DEF XInv, TablesTyped
<1>2. s \in Subs /\ x.at \in Time
  BY <1>1 DEF Transaction
<1>3. /\ sub[s].status # "UNSOLD" /\ x.at <= now /\ now <= x.at + TxTime
  BY <1>1 DEF TxInv, OpenInv
<1>4. /\ IsVersion(x.row, freezes[s], now) /\ SameSale(x.row, sub[s]) /\ IsAdmitted(x)
  BY <1>1 DEF TxInv, ReadInv
<1>5. /\ IsVersion(View(t, s), freezes[s], now)
      /\ SameSale(View(t, s), sub[s])
      /\ Announced(View(t, s), s, inbox \cup x.notices)
  BY <1>2, <1>3, ViewIs
<1>6. freezes[s] \in Seq(Episode) /\ now <= now
  BY <1>1, <1>2 DEF Time
<1>7. IsVersion(x.row, fs, now) /\ IsVersion(View(t, s), fs, now)
  BY <1>1, <1>4, <1>5, <1>6, VersionStays
<1>8. SameSale(x.row, View(t, s))
  BY <1>4, <1>5 DEF SameSale
<1> QED
  BY <1>1, <1>2, <1>3, <1>4, <1>5, <1>7, <1>8

LEMMA EndSettleKeeps ==
  ASSUME XInv, NEW t \in Sessions, EndSettle(t)
  PROVE  XInv'
<1> DEFINE x == tx[t]
<1>1. /\ x \in Transaction /\ TxInv(x, sub, freezes, inbox, now)
      /\ now \in Time /\ freezes \in [Subs -> Seq(Episode)]
  BY DEF XInv, TablesTyped
<1>2. Commit(t, x, <<>>, <<>>) /\ x.step = "read"
  BY DEF EndSettle
<1>3. x.on \in Subs /\ x.shut \in SUBSET Closing /\ x.notices \in SUBSET (NoticeType \X Subs)
  BY <1>1 DEF Transaction
<1>4. Grows(freezes[x.on], freezes'[x.on])
  BY <1>2, <1>3, CommitGrows
<1>5. ASSUME x.on \in x.held
      PROVE  /\ IsVersion(x.draft[x.on], freezes'[x.on], now)
             /\ SameSale(x.draft[x.on], sub[x.on])
             /\ Announced(x.draft[x.on], x.on, inbox \cup x.notices)
  <2>1. /\ IsVersion(x.draft[x.on], freezes[x.on], now)
        /\ SameSale(x.draft[x.on], sub[x.on])
        /\ Announced(x.draft[x.on], x.on, inbox \cup x.notices)
    BY <1>1, <1>5 DEF TxInv, HeldInv
  <2>2. freezes[x.on] \in Seq(Episode) /\ now <= now
    BY <1>1, <1>3 DEF Time
  <2>3. IsVersion(x.draft[x.on], freezes'[x.on], now)
    BY <1>1, <1>4, <2>1, <2>2, VersionStays
  <2> QED
    BY <2>1, <2>3
<1>6. <<>> \in Seq(Time)
  BY EmptySeq
<1> QED
  BY <1>2, <1>3, <1>5, <1>6, OwnRowGoesOut

LEMMA WriteFreezeKeeps ==
  ASSUME XInv, NEW t \in Sessions, WriteFreeze(t)
  PROVE  XInv'
<1> DEFINE x    == tx[t]
           s    == x.on
           row  == View(t, s)
           new  == FreezeWrites(row, x.row, x.at, x.days)
           f    == NewFreeze(x.at, x.days)
           done == [x EXCEPT !.held = @ \cup {s}, !.draft[s] = new]
<1>1. /\ x \in Transaction /\ TxInv(x, sub, freezes, inbox, now)
      /\ now \in Time /\ freezes \in [Subs -> Seq(Episode)]
  BY DEF XInv, TablesTyped
<1>2. /\ x.step = "write" /\ x.op = "freeze"
      /\ Commit(t, done, <<f>>, <<>>)
  BY DEF WriteFreeze, CommitRow, FreezeWrites
<1>3. /\ s \in Subs /\ x.shut \in SUBSET Closing /\ x.at \in Time /\ x.days \in Nat
      /\ x.notices \in SUBSET (NoticeType \X Subs)
  BY <1>1 DEF Transaction
<1>4. f \in Episode /\ f.days = x.days
  <2>1. x.days # 0
    BY <1>1, <1>2 DEF TxInv, OpenInv
  <2>2. AddDays(x.at, x.days) \in Time
    BY <1>3, DaysAreTicks
  <2> QED
    BY <1>3, <2>1, <2>2 DEF NewFreeze, Episode
<1>5. /\ done.on = s /\ done.held = x.held \cup {s} /\ done.shut = x.shut
      /\ done.notices = x.notices /\ done.draft = [x.draft EXCEPT ![s] = new]
  BY <1>1 DEF Transaction
<1>6. done.draft[s] = new /\ \A r \in x.held : r # s => done.draft[r] = x.draft[r]
  BY <1>1, <1>3, <1>5 DEF Transaction
<1> HIDE DEF done
<1>7. /\ freezes'[s] \in Seq(Episode)
      /\ Len(freezes'[s]) = Len(freezes[s]) + 1
      /\ FrozenDays(freezes'[s]) = FrozenDays(freezes[s]) + x.days
  <2>1. \E e \in Episode : <<f>> = <<e>>
    BY <1>4
  <2>2. done.on \in Subs /\ done.shut \in SUBSET Closing
    BY <1>3, <1>5
  <2> HIDE DEF f
  <2>3. /\ freezes' \in [Subs -> Seq(Episode)]
        /\ \A e \in Episode : <<f>> = <<e>> =>
             /\ Len(freezes'[done.on]) = Len(freezes[done.on]) + 1
             /\ FrozenDays(freezes'[done.on]) = FrozenDays(freezes[done.on]) + e.days
    BY <1>2, <2>1, <2>2, CommitGrows
  <2> QED
    BY <1>3, <1>4, <1>5, <2>3
<1>8. freezes[s] \in Seq(Episode) /\ Grows(freezes[s], freezes[s])
  BY <1>1, <1>3, GrowsItself
<1>9. /\ IsVersion(x.row, freezes[s], now) /\ IsAdmitted(x)
      /\ IsVersion(row, freezes[s], now) /\ SameSale(x.row, row)
      /\ SameSale(row, sub[s]) /\ x.at <= now
  BY <1>2, <1>8, ReadRowIs
<1>10. x.at < x.row.endsAt
  BY <1>2, <1>9 DEF IsAdmitted
<1>11. /\ IsVersion(new, freezes'[s], now) /\ SameSale(new, row)
       /\ new.status = "FROZEN"
  <2>1. now \in Time /\ x.at \in Time /\ x.days \in Nat
    BY <1>1, <1>3
  <2> QED
    BY <1>7, <1>8, <1>9, <1>10, <2>1, FrozenVersion
<1>12. SameSale(new, sub[s])
  BY <1>9, <1>11 DEF SameSale
<1>13. Announced(new, s, inbox \cup done.notices)
  BY <1>11 DEF Announced
<1>14. <<>> \in Seq(Time) /\ \E e \in Episode : <<f>> = <<e>>
  BY <1>4, EmptySeq
<1> HIDE DEF f, new
<1>15. x.step # "idle"
  BY <1>2
<1>16. /\ done.held \subseteq x.held \cup {s} /\ done.shut \in SUBSET Closing
       /\ done.notices \in SUBSET (NoticeType \X Subs) /\ x.notices \subseteq done.notices
  BY <1>3, <1>5
<1> QED
  BY <1>2, <1>5, <1>6, <1>11, <1>12, <1>13, <1>14, <1>15, <1>16, OwnRowGoesOut

LEMMA WriteUnfreezeKeeps ==
  ASSUME XInv, NEW t \in Sessions, WriteUnfreeze(t)
  PROVE  XInv'
<1> DEFINE x    == tx[t]
           s    == x.on
           row  == View(t, s)
           new  == UnfreezeWrites(row, x.row, x.at)
           own  == IF x.newest = 0 THEN {}
                   ELSE {[sub |-> s, id |-> x.newest, at |-> x.at]}
           done == [x EXCEPT !.held = @ \cup {s}, !.draft[s] = new,
                             !.shut = @ \cup own]
<1>1. /\ x \in Transaction /\ TxInv(x, sub, freezes, inbox, now)
      /\ now \in Time /\ freezes \in [Subs -> Seq(Episode)]
  BY DEF XInv, TablesTyped
<1>2. /\ x.step = "write" /\ x.op = "unfreeze"
      /\ Commit(t, done, <<>>, <<>>)
  BY DEF WriteUnfreeze, UnfreezeWrites
<1>3. /\ s \in Subs /\ x.shut \in SUBSET Closing /\ x.at \in Time
      /\ x.newest \in Nat /\ x.notices \in SUBSET (NoticeType \X Subs)
  BY <1>1 DEF Transaction
<1>4. own \in SUBSET Closing
  BY <1>3 DEF Closing
<1>5. /\ done.on = s /\ done.held = x.held \cup {s} /\ done.shut = x.shut \cup own
      /\ done.notices = x.notices /\ done.draft = [x.draft EXCEPT ![s] = new]
  BY <1>1 DEF Transaction
<1>6. done.draft[s] = new /\ \A r \in x.held : r # s => done.draft[r] = x.draft[r]
  BY <1>1, <1>3, <1>5 DEF Transaction
<1> HIDE DEF done, own
<1>7. /\ x.step # "idle" /\ done.held \subseteq x.held \cup {s}
      /\ done.shut \in SUBSET Closing
      /\ done.notices \in SUBSET (NoticeType \X Subs) /\ x.notices \subseteq done.notices
  BY <1>2, <1>3, <1>4, <1>5
<1>8. Grows(freezes[s], freezes'[s]) /\ freezes'[s] \in Seq(Episode)
  <2>1. done.on \in Subs
    BY <1>3, <1>5
  <2> QED
    BY <1>2, <1>3, <1>7, <2>1, CommitGrows
<1>9. /\ IsVersion(x.row, freezes'[s], now) /\ IsAdmitted(x)
      /\ IsVersion(row, freezes'[s], now) /\ SameSale(x.row, row)
      /\ SameSale(row, sub[s]) /\ now <= x.at + TxTime
  BY <1>2, <1>8, ReadRowIs
<1>10. x.row.status = "FROZEN"
  BY <1>2, <1>9 DEF IsAdmitted
<1>11. /\ IsVersion(new, freezes'[s], now) /\ SameSale(new, row)
       /\ new.status = "ACTIVE"
  BY <1>1, <1>3, <1>8, <1>9, <1>10, UnfrozenVersion
<1>12. SameSale(new, sub[s])
  BY <1>9, <1>11 DEF SameSale
<1>13. Announced(new, s, inbox \cup done.notices)
  BY <1>11 DEF Announced
<1>14. <<>> \in Seq(Time)
  BY EmptySeq
<1> HIDE DEF new
<1> QED
  BY <1>2, <1>5, <1>6, <1>7, <1>11, <1>12, <1>13, <1>14, OwnRowGoesOut

LEMMA WriteCancelKeeps ==
  ASSUME XInv, NEW t \in Sessions, WriteCancel(t)
  PROVE  XInv'
<1> DEFINE x    == tx[t]
           s    == x.on
           row  == View(t, s)
           new  == CancelRow(row)
           done == [x EXCEPT !.held = @ \cup {s}, !.draft[s] = new]
<1>1. /\ x \in Transaction /\ TxInv(x, sub, freezes, inbox, now)
      /\ now \in Time /\ freezes \in [Subs -> Seq(Episode)]
  BY DEF XInv, TablesTyped
<1>2. x.step = "write" /\ Commit(t, done, <<>>, <<>>)
  BY DEF WriteCancel, CommitRow
<1>3. /\ s \in Subs /\ x.shut \in SUBSET Closing
      /\ x.notices \in SUBSET (NoticeType \X Subs)
  BY <1>1 DEF Transaction
<1>4. /\ done.on = s /\ done.held = x.held \cup {s} /\ done.shut = x.shut
      /\ done.notices = x.notices /\ done.draft = [x.draft EXCEPT ![s] = new]
  BY <1>1 DEF Transaction
<1>5. done.draft[s] = new /\ \A r \in x.held : r # s => done.draft[r] = x.draft[r]
  BY <1>1, <1>3, <1>4 DEF Transaction
<1> HIDE DEF done
<1>6. /\ x.step # "idle" /\ done.held \subseteq x.held \cup {s}
      /\ done.shut \in SUBSET Closing
      /\ done.notices \in SUBSET (NoticeType \X Subs) /\ x.notices \subseteq done.notices
  BY <1>2, <1>3, <1>4
<1>7. Grows(freezes[s], freezes'[s]) /\ freezes'[s] \in Seq(Episode)
  <2>1. done.on \in Subs
    BY <1>3, <1>4
  <2> QED
    BY <1>2, <1>3, <1>6, <2>1, CommitGrows
<1>8. IsVersion(row, freezes'[s], now) /\ SameSale(row, sub[s])
  BY <1>2, <1>7, ReadRowIs
<1>9. /\ IsVersion(new, freezes'[s], now) /\ SameSale(new, row)
      /\ new.status = "CANCELLED"
  BY <1>8, CancelledVersion
<1>10. SameSale(new, sub[s])
  BY <1>8, <1>9 DEF SameSale
<1>11. Announced(new, s, inbox \cup done.notices)
  BY <1>9 DEF Announced
<1>12. <<>> \in Seq(Time)
  BY EmptySeq
<1> HIDE DEF new
<1> QED
  BY <1>2, <1>4, <1>5, <1>6, <1>9, <1>10, <1>11, <1>12, OwnRowGoesOut

LEMMA WriteVisitKeeps ==
  ASSUME XInv, ShopKept, NEW t \in Sessions, WriteVisit(t)
  PROVE  XInv'
<1> DEFINE x      == tx[t]
           s      == x.on
           row    == View(t, s)
           new    == VisitWrites(row, x.row, x.at)
           writes == OpensGrace(x.row) \/ x.row.sessionsRemaining # Null
           notice == {n \in {<<"SUBSCRIPTION_IN_GRACE", s>>} : OpensGrace(x.row)}
           done   == [x EXCEPT !.held = IF writes THEN @ \cup {s} ELSE @,
                               !.draft[s] = new, !.notices = @ \cup notice]
<1>1. /\ x \in Transaction /\ TxInv(x, sub, freezes, inbox, now)
      /\ now \in Time /\ freezes \in [Subs -> Seq(Episode)]
  BY DEF XInv, TablesTyped
<1>2. x.step = "write" /\ x.op = "visit" /\ Commit(t, done, <<>>, <<x.at>>)
  BY DEF WriteVisit
<1>3. /\ s \in Subs /\ x.shut \in SUBSET Closing /\ x.at \in Time
      /\ x.notices \in SUBSET (NoticeType \X Subs)
  BY <1>1 DEF Transaction
<1>4. notice \in SUBSET (NoticeType \X Subs)
  BY <1>3 DEF NoticeType
<1> HIDE DEF notice, writes
<1>5. /\ done.on = s /\ done.held \subseteq x.held \cup {s} /\ done.shut = x.shut
      /\ done.notices = x.notices \cup notice
      /\ done.draft = [x.draft EXCEPT ![s] = new]
  BY <1>1 DEF Transaction
<1>6. done.draft[s] = new /\ \A r \in x.held : r # s => done.draft[r] = x.draft[r]
  BY <1>1, <1>3, <1>5 DEF Transaction
<1> HIDE DEF done
<1>7. /\ x.step # "idle" /\ done.shut \in SUBSET Closing
      /\ done.notices \in SUBSET (NoticeType \X Subs) /\ x.notices \subseteq done.notices
  BY <1>2, <1>3, <1>4, <1>5
<1>8. Grows(freezes[s], freezes'[s]) /\ freezes'[s] \in Seq(Episode)
  <2>1. done.on \in Subs
    BY <1>3, <1>5
  <2> QED
    BY <1>2, <1>3, <1>7, <2>1, CommitGrows
<1>9. /\ IsVersion(x.row, freezes'[s], now) /\ IsAdmitted(x)
      /\ IsVersion(row, freezes'[s], now)
      /\ SameSale(row, sub[s]) /\ Announced(row, s, inbox \cup x.notices)
  BY <1>2, <1>8, ReadRowIs
<1>10. x.row.sessionsRemaining = Null \/ x.row.sessionsRemaining > 0
  BY <1>2, <1>9 DEF IsAdmitted
<1>11. /\ IsVersion(new, freezes'[s], now) /\ SameSale(new, row)
       /\ new.status = "EXPIRED" => row.status = "EXPIRED"
  <2>1. settings \in Settings
    BY SoldPlansAssumption DEF ShopKept
  <2> QED
    BY <1>3, <1>9, <1>10, <2>1, VisitedVersion
<1> HIDE DEF new
<1>12. SameSale(new, sub[s])
  BY <1>9, <1>11 DEF SameSale
<1>13. Announced(new, s, inbox \cup done.notices)
  BY <1>5, <1>9, <1>11 DEF Announced
<1>14. <<x.at>> \in Seq(Time)
  BY <1>3
<1> QED
  BY <1>2, <1>5, <1>6, <1>7, <1>11, <1>12, <1>13, <1>14, OwnRowGoesOut

-----------------------------------------------------------------------------
(* A sale, the clock, and the theorems *)

LEMMA CreateKeeps ==
  ASSUME XInv, NEW s \in Subs, NEW m \in Members, NEW p \in Plans, CreateTx(s, m, p)
  PROVE  XInv'
<1> DEFINE new == SellRow(m, p, now)
<1>1. /\ now \in Time /\ sub \in [Subs -> SoldPlan]
      /\ freezes \in [Subs -> Seq(Episode)] /\ visits \in [Subs -> Seq(Time)]
      /\ inbox \in SUBSET (NoticeType \X Subs) /\ tx \in [Sessions -> Transaction]
  BY DEF XInv, TablesTyped
<1>2. /\ sub[s].status = "UNSOLD" /\ sub' = [sub EXCEPT ![s] = new]
      /\ now' = now /\ freezes' = freezes /\ visits' = visits
      /\ inbox' = inbox /\ tx' = tx
  BY DEF CreateTx, Create, IsFresh
<1>3. freezes[s] \in Seq(Episode)
  BY <1>1
<1>4. IsVersion(new, freezes[s], now) /\ new.status = "ACTIVE"
  BY <1>1, <1>3, SoldVersion
<1> HIDE DEF new
<1>5. sub'[s] = new /\ \A r \in Subs : r # s => sub'[r] = sub[r]
  BY <1>1, <1>2
<1>6. sub' \in [Subs -> SoldPlan]
  BY <1>1, <1>2, <1>4 DEF IsVersion
<1>7. TablesTyped(sub', freezes', visits', inbox', now')
  BY <1>1, <1>2, <1>6 DEF TablesTyped
<1>8. ASSUME NEW r \in Subs PROVE RowInv(r, sub', freezes', inbox', now')
  <2>1. RowInv(r, sub, freezes, inbox, now)
    BY DEF XInv
  <2>2. CASE r = s
    BY <1>2, <1>4, <1>5, <2>2 DEF RowInv, Announced
  <2>3. CASE r # s
    BY <1>2, <1>5, <2>1, <2>3 DEF RowInv
  <2> QED
    BY <2>2, <2>3
<1>9. MovesOn(sub, freezes, inbox, now, sub', freezes', inbox', now')
  <2>1. now' \in Time /\ now <= now'
    BY <1>1, <1>2 DEF Time
  <2>2. ASSUME NEW r \in Subs
        PROVE  freezes[r] \in Seq(Episode) /\ Grows(freezes[r], freezes'[r])
    BY <1>1, <1>2, GrowsItself
  <2>3. ASSUME NEW r \in Subs, sub[r].status # "UNSOLD"
        PROVE  sub'[r].status # "UNSOLD" /\ SameSale(sub'[r], sub[r])
    BY <1>2, <1>5, <2>3 DEF SameSale
  <2> QED
    BY <1>1, <1>2, <2>1, <2>2, <2>3 DEF MovesOn
<1>10. ASSUME NEW t \in Sessions PROVE TxInv(tx'[t], sub', freezes', inbox', now')
  <2>1. TxInv(tx[t], sub, freezes, inbox, now)
    BY DEF XInv
  <2>2. tx[t].step # "idle" => now' <= tx[t].at + TxTime
    BY <1>2, <2>1 DEF TxInv, OpenInv
  <2>3. TxInv(tx[t], sub', freezes', inbox', now')
    BY <1>9, <2>1, <2>2, TxStays
  <2> QED
    BY <1>2, <2>3
<1> QED
  BY <1>1, <1>2, <1>7, <1>8, <1>10 DEF XInv

LEMMA TickKeeps ==
  ASSUME XInv, TickTx
  PROVE  XInv'
<1>1. /\ now \in Time /\ sub \in [Subs -> SoldPlan]
      /\ freezes \in [Subs -> Seq(Episode)] /\ tx \in [Sessions -> Transaction]
  BY DEF XInv, TablesTyped
<1>2. /\ now' = now + 1 /\ sub' = sub /\ freezes' = freezes /\ visits' = visits
      /\ inbox' = inbox /\ tx' = tx
  BY DEF TickTx, Tick
<1>3. now' \in Time /\ now <= now'
  BY <1>1, <1>2 DEF Time
<1>4. TablesTyped(sub', freezes', visits', inbox', now')
  BY <1>2, <1>3 DEF XInv, TablesTyped
<1>5. ASSUME NEW r \in Subs
      PROVE  freezes[r] \in Seq(Episode) /\ Grows(freezes[r], freezes'[r])
  BY <1>1, <1>2, GrowsItself
<1>6. MovesOn(sub, freezes, inbox, now, sub', freezes', inbox', now')
  BY <1>1, <1>2, <1>3, <1>5 DEF MovesOn, SameSale
<1>7. ASSUME NEW r \in Subs PROVE RowInv(r, sub', freezes', inbox', now')
  <2>1. RowInv(r, sub, freezes, inbox, now)
    BY DEF XInv
  <2>2. ASSUME sub[r].status # "UNSOLD" PROVE IsVersion(sub[r], freezes'[r], now')
    BY <1>1, <1>3, <1>5, <2>1, <2>2, VersionStays DEF RowInv
  <2> QED
    BY <1>2, <2>1, <2>2 DEF RowInv
<1>8. ASSUME NEW t \in Sessions PROVE TxInv(tx'[t], sub', freezes', inbox', now')
  <2>1. TxInv(tx[t], sub, freezes, inbox, now)
    BY DEF XInv
  <2>2. tx[t].step # "idle" => now' <= tx[t].at + TxTime
    <3> SUFFICES ASSUME tx[t].step # "idle" PROVE now' <= tx[t].at + TxTime
      OBVIOUS
    <3>1. now < tx[t].at + TxTime
      BY DEF TickTx
    <3>2. tx[t].at \in Nat /\ TxTime \in Nat /\ now \in Nat
      BY <1>1, SoldPlansTxAssumption DEF Transaction, Time
    <3> QED
      BY <1>2, <3>1, <3>2
  <2>3. TxInv(tx[t], sub', freezes', inbox', now')
    BY <1>6, <2>1, <2>2, TxStays
  <2> QED
    BY <1>2, <2>3
<1> QED
  BY <1>1, <1>2, <1>4, <1>7, <1>8 DEF XInv

LEMMA InitIsSound ==
  ASSUME TxInit
  PROVE  XInv
<1>1. TablesTyped(sub, freezes, visits, inbox, now)
  <2>1. <<>> \in Seq(Episode) /\ <<>> \in Seq(Time)
    BY EmptySeq
  <2> QED
    BY <2>1, UnsoldIsRow DEF TxInit, Init, TablesTyped, Time
<1>2. \A s \in Subs : RowInv(s, sub, freezes, inbox, now)
  BY DEF TxInit, Init, RowInv, Announced, Unsold
<1>3. \A t \in Sessions : tx[t] = NoTransaction
  BY DEF TxInit, Init
<1>4. /\ TxInv(NoTransaction, sub, freezes, inbox, now)
      /\ NoTransaction \in Transaction
  BY NobodysTx DEF TxInv
<1>5. tx \in [Sessions -> Transaction]
  BY <1>4 DEF TxInit, Init
<1> QED
  BY <1>1, <1>2, <1>3, <1>4, <1>5 DEF XInv

LEMMA NextKeeps ==
  ASSUME XInv, ShopKept, [TxNext]_txVars
  PROVE  XInv'
<1>1. CASE TxNext
  <2>1. CASE TickTx
    BY <2>1, TickKeeps
  <2>2. CASE \E s \in Subs, m \in Members, p \in Plans : CreateTx(s, m, p)
    BY <2>2, CreateKeeps
  <2>3. ASSUME NEW t \in Sessions,
               \E op \in Ops, s \in Subs : \E days \in DaysFor(op) :
                 Begin(t, op, s, days)
        PROVE  XInv'
    BY <2>3, BeginKeeps
  <2>4. ASSUME NEW t \in Sessions,
               \/ SelectOverdue(t) \/ Thaw(t) \/ SelectDue(t) \/ Expire(t)
               \/ EndSettle(t) \/ Read(t)
        PROVE  XInv'
    BY <2>4, SelectOverdueKeeps, ThawKeeps, SelectDueKeeps, ExpireKeeps,
       EndSettleKeeps, ReadKeeps
  <2>5. ASSUME NEW t \in Sessions,
               \/ WriteFreeze(t) \/ WriteUnfreeze(t)
               \/ CloseOpen(t) \/ WriteCancel(t)
               \/ CountVisits(t) \/ WriteVisit(t) \/ Rollback(t)
        PROVE  XInv'
    BY <2>5, WriteFreezeKeeps, WriteUnfreezeKeeps, CloseOpenKeeps,
       WriteCancelKeeps, CountVisitsKeeps, WriteVisitKeeps, RollbackKeeps
  <2> QED
    BY <1>1, <2>1, <2>2, <2>3, <2>4, <2>5 DEF TxNext
<1>2. CASE UNCHANGED txVars
  BY <1>2 DEF txVars, tables, XInv
<1> QED
  BY <1>1, <1>2

(* No transaction touches the settings, the members or the plans on sale.    *)
LEMMA ShopStays ==
  ASSUME [TxNext]_txVars
  PROVE  UNCHANGED <<settings, memberStatus, onSale>>
<1>1. \A t \in Sessions :
        /\ \A op, s, days : Begin(t, op, s, days) => UNCHANGED shop
        /\ SelectOverdue(t) \/ Thaw(t) \/ SelectDue(t) \/ Expire(t) => UNCHANGED shop
        /\ Read(t) \/ CloseOpen(t) \/ CountVisits(t) \/ Rollback(t) => UNCHANGED shop
  BY DEF Begin, SelectOverdue, Thaw, SelectDue, Expire, Read, CloseOpen,
         CountVisits, Rollback, tables
<1>2. \A t \in Sessions : EndSettle(t) => UNCHANGED shop
  BY DEF EndSettle, Commit
<1>3. \A t \in Sessions :
        WriteFreeze(t) \/ WriteUnfreeze(t) \/ WriteCancel(t) => UNCHANGED shop
  <2>1. \A t \in Sessions : WriteFreeze(t) => UNCHANGED shop
    BY DEF WriteFreeze, CommitRow, Commit
  <2>2. \A t \in Sessions : WriteUnfreeze(t) => UNCHANGED shop
    BY DEF WriteUnfreeze, Commit
  <2>3. \A t \in Sessions : WriteCancel(t) => UNCHANGED shop
    BY DEF WriteCancel, CommitRow, Commit
  <2> QED
    BY <2>1, <2>2, <2>3
<1>4. \A t \in Sessions : WriteVisit(t) => UNCHANGED shop
  BY DEF WriteVisit, Commit
<1>5. TickTx => UNCHANGED shop
  BY DEF TickTx, Tick
<1>6. \A s, m, p : CreateTx(s, m, p) => UNCHANGED shop
  BY DEF CreateTx, Create
<1>7. UNCHANGED txVars => UNCHANGED shop
  BY DEF txVars, tables
<1>8. TxNext => UNCHANGED shop
  BY <1>1, <1>2, <1>3, <1>4, <1>5, <1>6 DEF TxNext
<1> QED
  BY <1>7, <1>8 DEF shop

(* What every interleaving keeps: each committed row, each row a transaction *)
(* holds and each row it read a while ago is a version of its sold plan that *)
(* ends within the bounds, and an expired one is announced.                  *)
THEOREM EveryVersionIsGood == TxSpec => [](XInv /\ ShopKept)
<1>1. TxInit => XInv /\ ShopKept
  BY InitIsSound DEF TxInit, Init, ShopKept
<1>2. XInv /\ ShopKept /\ [TxNext]_txVars => (XInv /\ ShopKept)'
  BY NextKeeps, ShopStays DEF ShopKept
<1> QED
  BY <1>1, <1>2, PTL DEF TxSpec

(* The tables and the transactions keep their types.                         *)
THEOREM TxTypesHold == TxSpec => []TxTypeOK
<1>1. XInv /\ ShopKept => TxTypeOK
  BY DEF XInv, ShopKept, TablesTyped, TxTypeOK, TypeOK, MemberStatus
<1> QED
  BY <1>1, EveryVersionIsGood, PTL

(* Whatever the desk, the door and the sweep do to each other at READ        *)
(* COMMITTED, a sold plan ends no later than its term with every freeze it   *)
(* was granted, and no earlier than its term but for the time a transaction  *)
(* takes, once for each freeze.                                              *)
THEOREM EndsAreKept == TxSpec => []EndStaysInBounds
<1>1. XInv => EndStaysInBounds
  BY DEF XInv, RowInv, IsVersion, EndsWithin, Slack, TermOf,
         EndStaysInBounds, Sold, Term
<1> QED
  BY <1>1, EveryVersionIsGood, PTL

(* No interleaving leaves a plan EXPIRED without its inbox row.              *)
THEOREM ExpiriesAreAnnounced == TxSpec => []ExpiryIsAnnounced
<1>1. XInv => ExpiryIsAnnounced
  BY DEF XInv, RowInv, Announced, ExpiryIsAnnounced
<1> QED
  BY <1>1, EveryVersionIsGood, PTL

-----------------------------------------------------------------------------
(* Overlapping sweeps and reads are as good as serial ones.  While a         *)
(* transaction is open the clock stands still and only settle passes commit, *)
(* so that what settling will make of a row stays the same: SettleRow and    *)
(* SettleFreezes of what is committed.  Each transaction is on its way there *)
(* from whatever it has read; row and fs are the committed row s and its     *)
(* freezes.                                                                  *)

(* Sweeps and reads alone overlap, and none of them takes a tick.            *)
SweepsOverlap == Overlapping \subseteq {"sweep", "get"} /\ TxTime = 0

ScopeOf(x) == IF x.op \in {"sweep", "visit"} THEN Subs ELSE {x.on}

Seen(x, s, row) == IF s \in x.held THEN x.draft[s] ELSE row

Shut(shut, s, fs) ==
  [i \in DOMAIN fs |->
     IF ClosingsOf(shut, s, i) = {}
     THEN fs[i]
     ELSE [fs[i] EXCEPT !.unfrozenAt =
             (CHOOSE c \in ClosingsOf(shut, s, i) : TRUE).at]]

Lapse(row) == [row EXCEPT !.status = "EXPIRED"]

Finish(row, cfg, n) == IF IsDue(row, cfg, n) THEN Lapse(row) ELSE row

Untouched(x, s) == s \notin x.held /\ \A c \in x.shut : c.sub # s

Owed(x, s) == {y \in x.overdue : y[1] = s}

(* Before its overdue freeze is settled, and after.                          *)
ThawsNext(x, s, row, fs, cfg, n) ==
  /\ Untouched(x, s)
  /\ \A y \in Owed(x, s) :
       /\ Owed(x, s) = {y}
       /\ [fs EXCEPT ![y[2]].unfrozenAt = fs[y[2]].endedAt] = SettleFreezes(row, fs, n)
  /\ Finish(ThawRow(row), cfg, n) = SettleRow(row, fs, cfg, n)

HasThawed(x, s, row, fs, cfg, n) ==
  /\ Finish(Seen(x, s, row), cfg, n) = SettleRow(row, fs, cfg, n)
  /\ s \in x.held => x.draft[s].status = "ACTIVE"
  /\ Shut(x.shut, s, fs) = SettleFreezes(row, fs, n)

(* due holds the rows that will lapse, and none that settling keeps running. *)
DuesKnown(x, s, row, fs, cfg, n) ==
  /\ IsDue(SettleThaw(row, fs, n), cfg, n) => s \in x.due
  /\ s \in x.due => SettleRow(row, fs, cfg, n).status = "EXPIRED"

HasSelected(x, s, row, fs, cfg, n) ==
  /\ SettleRow(row, fs, cfg, n)
       = IF s \in x.due THEN Lapse(Seen(x, s, row)) ELSE Seen(x, s, row)
  /\ Shut(x.shut, s, fs) = SettleFreezes(row, fs, n)
  /\ DuesKnown(x, s, row, fs, cfg, n)

(* A cancel has closed the open freezes of its plan when it writes the row.  *)
HasSettled(x, s, row, fs, cfg, n) ==
  /\ Seen(x, s, row) = SettleRow(row, fs, cfg, n)
  /\ Shut(x.shut, s, fs) = IF x.op = "cancel" /\ x.step = "write"
                           THEN CloseAll(SettleFreezes(row, fs, n), n)
                           ELSE SettleFreezes(row, fs, n)
  /\ DuesKnown(x, s, row, fs, cfg, n)

SettleStep == {"overdue", "thaw", "expire"}

RowOnItsWay(x, s, row, fs, cfg, n) ==
  /\ s \notin ScopeOf(x) => Untouched(x, s) /\ s \notin x.due /\ Owed(x, s) = {}
  /\ x.step = "overdue" => Untouched(x, s)
  /\ s \in ScopeOf(x) =>
       /\ x.step = "thaw" /\ Owed(x, s) # {} => ThawsNext(x, s, row, fs, cfg, n)
       /\ x.step = "thaw" /\ Owed(x, s) = {} => HasThawed(x, s, row, fs, cfg, n)
       /\ x.step = "expire" => HasSelected(x, s, row, fs, cfg, n)
       /\ x.step \notin SettleStep => HasSettled(x, s, row, fs, cfg, n)

(* What the handler has checked, of the row as it is settled.                *)
HandlerKnows(x, row, fs, vs, cfg, n) ==
  x.step \in {"count", "close", "write"} =>
    /\ x.row = SettleRow(row, fs, cfg, n)
    /\ \/ /\ x.op = "freeze" /\ x.step = "write"
          /\ Len(fs) < MaxFreezes
          /\ MayFreeze(x.row, SettleFreezes(row, fs, n), cfg, n, x.days)
       \/ /\ x.op = "unfreeze" /\ x.step = "write"
          /\ x.row.status = "FROZEN" /\ x.newest = Len(fs)
       \/ /\ x.op = "cancel" /\ x.step \in {"close", "write"}
          /\ MayCancel(x.row)
       \/ /\ x.op = "visit" /\ x.step \in {"count", "write"}
          /\ DoorOpensFor(x.row, cfg, n)
          /\ x.step = "write" => UnderDailyLimit(x.row, vs, n) /\ Len(vs) < MaxVisits

NoticesKnown(x, S, F, cfg, n) ==
  x.step \notin SettleStep =>
    x.notices =
      {<<"SUBSCRIPTION_EXPIRED", s>> : s \in x.due} \cup
      {<<"SUBSCRIPTION_ENDING_SOON", s>> :
         s \in {r \in ScopeOf(x) : IsEndingSoon(SettleRow(S[r], F[r], cfg, n), n)}}

TxOnItsWay(x, S, F, V, cfg, n) ==
  x.step # "idle" =>
    /\ x.at = n
    /\ x.op = "freeze" => x.days \in FreezeRequests
    /\ \A s \in Subs : RowOnItsWay(x, s, S[s], F[s], cfg, n)
    /\ NoticesKnown(x, S, F, cfg, n)
    /\ HandlerKnows(x, S[x.on], F[x.on], V[x.on], cfg, n)

(* What is not a settle pass runs alone.                                     *)
OthersAlone ==
  \A t, o \in Sessions :
    t # o /\ tx[t].step # "idle" /\ tx[o].step # "idle" =>
      tx[t].op \in {"sweep", "get"} /\ tx[o].op \in {"sweep", "get"}

AllOnTheirWay ==
  \A t \in Sessions : TxOnItsWay(tx[t], sub, freezes, visits, settings, now)

SerInv == XInv /\ ShopKept /\ IInv /\ OthersAlone /\ AllOnTheirWay

-----------------------------------------------------------------------------
(* Settling one row in steps *)

LEMMA RowsLapseOnce ==
  ASSUME NEW row \in SoldPlan, NEW cfg, NEW n
  PROVE  /\ Lapse(row) \in SoldPlan /\ Lapse(row).status = "EXPIRED"
         /\ Lapse(Lapse(row)) = Lapse(row)
         /\ ~IsDue(Lapse(row), cfg, n)
         /\ Finish(Finish(row, cfg, n), cfg, n) = Finish(row, cfg, n)
         /\ IsDue(row, cfg, n) => row.status \in {"ACTIVE", "IN_GRACE"}
<1>1. Lapse(row) \in SoldPlan /\ Lapse(row).status = "EXPIRED"
  BY DEF Lapse, SoldPlan, Status
<1>2. Lapse(Lapse(row)) = Lapse(row)
  BY DEF Lapse, SoldPlan
<1>3. ~IsDue(Lapse(row), cfg, n)
  BY <1>1 DEF IsDue
<1>4. IsDue(row, cfg, n) => row.status \in {"ACTIVE", "IN_GRACE"}
  BY DEF IsDue
<1> QED
  BY <1>1, <1>2, <1>3, <1>4 DEF Finish

LEMMA ThawsOnce ==
  ASSUME NEW row \in SoldPlan, NEW cfg, NEW n
  PROVE  /\ ThawRow(row) \in SoldPlan /\ ThawRow(row).status = "ACTIVE"
         /\ ThawRow(Finish(ThawRow(row), cfg, n)) = ThawRow(row)
<1>1. ThawRow(row) \in SoldPlan /\ ThawRow(row).status = "ACTIVE"
  BY DEF ThawRow, SoldPlan, Status
<1>2. ThawRow(ThawRow(row)) = ThawRow(row)
  BY DEF ThawRow, SoldPlan
<1>3. ThawRow(Lapse(ThawRow(row))) = ThawRow(row)
  BY DEF ThawRow, Lapse, SoldPlan
<1> QED
  BY <1>1, <1>2, <1>3 DEF Finish

LEMMA SettleIsFinish ==
  ASSUME NEW row, NEW fs, NEW cfg, NEW n
  PROVE  SettleRow(row, fs, cfg, n) = Finish(SettleThaw(row, fs, n), cfg, n)
  BY DEF SettleRow, Finish, Lapse

(* The freeze that is overdue is the newest, and the plan is FROZEN.         *)
LEMMA OneIsOverdue ==
  ASSUME NEW row, NEW fs, NEW n \in Time, RowOK(row, fs, n),
         NEW i \in DOMAIN fs, IsOverdue(fs[i], n)
  PROVE  /\ i = Len(fs) /\ row.status = "FROZEN"
         /\ SettleThaw(row, fs, n) = ThawRow(row)
         /\ SettleFreezes(row, fs, n) = [fs EXCEPT ![i].unfrozenAt = fs[i].endedAt]
<1>1. OpenIn(fs) # {} /\ i \in OpenIn(fs)
  BY DEF OpenIn, IsOverdue
<1>2. row.status = "FROZEN" /\ OpenIn(fs) = {Len(fs)}
  BY <1>1 DEF RowOK, FreezeOnRecord
<1>3. i = Len(fs)
  BY <1>1, <1>2
<1>4. SettleThaw(row, fs, n) = ThawRow(row)
  BY <1>2 DEF SettleThaw
<1>5. \A j \in DOMAIN fs : IsOverdue(fs[j], n) <=> j = i
  BY <1>2, <1>3 DEF OpenIn, IsOverdue
<1>6. SettleFreezes(row, fs, n)
        = [j \in DOMAIN fs |-> IF j = i THEN [fs[j] EXCEPT !.unfrozenAt = fs[j].endedAt]
                                        ELSE fs[j]]
  BY <1>2, <1>5 DEF SettleFreezes
<1>7. fs = [j \in DOMAIN fs |-> fs[j]]
  <2>1. Len(fs) \in Nat /\ DOMAIN fs = 1 .. Len(fs)
    BY FreezesAreEpisodes DEF RowOK
  <2>2. fs \in [1 .. Len(fs) -> Episode]
    BY SeqDef, LenProperties DEF RowOK
  <2> QED
    BY <2>1, <2>2
<1>8. SettleFreezes(row, fs, n) = [fs EXCEPT ![i].unfrozenAt = fs[i].endedAt]
  BY <1>6, <1>7
<1> QED
  BY <1>2, <1>3, <1>4, <1>8

LEMMA NoneIsOverdue ==
  ASSUME NEW row, NEW fs, NEW n \in Time, RowOK(row, fs, n),
         \/ row.status = "CANCELLED"
         \/ \A i \in DOMAIN fs : ~IsOverdue(fs[i], n)
  PROVE  SettleThaw(row, fs, n) = row /\ SettleFreezes(row, fs, n) = fs
<1>1. CASE row.status = "CANCELLED"
  BY <1>1 DEF SettleThaw, SettleFreezes
<1>2. CASE \A i \in DOMAIN fs : ~IsOverdue(fs[i], n)
  <2>1. SettleThaw(row, fs, n) = row
    BY <1>2 DEF SettleThaw
  <2>2. fs \in Seq(Episode) /\ row \in SoldPlan
    BY DEF RowOK
  <2>3. /\ SettleFreezes(row, fs, n) \in Seq(Episode)
        /\ Len(SettleFreezes(row, fs, n)) = Len(fs)
    BY <2>2, SettledFreezesType
  <2>4. DOMAIN fs = 1 .. Len(fs)
    BY <2>2, LenProperties
  <2>5. \A i \in 1 .. Len(fs) : SettleFreezes(row, fs, n)[i] = fs[i]
    BY <1>2, <2>4 DEF SettleFreezes
  <2> QED
    BY <2>1, <2>2, <2>3, <2>5, SeqEqual
<1> QED
  BY <1>1, <1>2

LEMMA ShutTwice ==
  ASSUME NEW fs \in Seq(Episode), NEW shut, NEW s
  PROVE  Shut(shut, s, Shut(shut, s, fs)) = Shut(shut, s, fs)
<1> DEFINE gs == Shut(shut, s, fs)
<1>1. DOMAIN gs = DOMAIN fs
  BY DEF Shut
<1>2. \A i \in DOMAIN fs : fs[i] \in Episode
  BY FreezesAreEpisodes
<1>3. \A i \in DOMAIN fs :
        gs[i] = IF ClosingsOf(shut, s, i) = {} THEN fs[i]
                ELSE [fs[i] EXCEPT !.unfrozenAt =
                        (CHOOSE c \in ClosingsOf(shut, s, i) : TRUE).at]
  BY DEF Shut
<1>4. Shut(shut, s, gs)
        = [i \in DOMAIN gs |->
             IF ClosingsOf(shut, s, i) = {} THEN gs[i]
             ELSE [gs[i] EXCEPT !.unfrozenAt =
                     (CHOOSE c \in ClosingsOf(shut, s, i) : TRUE).at]]
  BY DEF Shut
<1>5. gs = [i \in DOMAIN gs |-> gs[i]]
  BY DEF Shut
<1> HIDE DEF gs
<1>6. \A i \in DOMAIN fs :
        gs[i] = IF ClosingsOf(shut, s, i) = {} THEN gs[i]
                ELSE [gs[i] EXCEPT !.unfrozenAt =
                        (CHOOSE c \in ClosingsOf(shut, s, i) : TRUE).at]
  BY <1>2, <1>3 DEF Episode
<1>7. Shut(shut, s, gs) = gs
  BY <1>1, <1>4, <1>5, <1>6
<1> QED
  BY <1>7 DEF gs

LEMMA NothingShut ==
  ASSUME NEW fs \in Seq(Episode), NEW shut, NEW s, \A c \in shut : c.sub # s
  PROVE  Shut(shut, s, fs) = fs
<1>1. \A i : ClosingsOf(shut, s, i) = {}
  BY DEF ClosingsOf
<1>2. Shut(shut, s, fs) = [i \in DOMAIN fs |-> fs[i]]
  BY <1>1 DEF Shut
<1>3. fs \in [1 .. Len(fs) -> Episode] /\ DOMAIN fs = 1 .. Len(fs)
  BY SeqDef, LenProperties
<1> QED
  BY <1>2, <1>3

LEMMA ShutAside ==
  ASSUME NEW fs, NEW shut, NEW more, NEW s,
         \A c : c.sub = s => (c \in more <=> c \in shut)
  PROVE  Shut(more, s, fs) = Shut(shut, s, fs)
<1>1. ASSUME NEW i \in DOMAIN fs PROVE Shut(more, s, fs)[i] = Shut(shut, s, fs)[i]
  <2> DEFINE C == ClosingsOf(shut, s, i)
  <2>1. ClosingsOf(more, s, i) = C
    BY DEF ClosingsOf
  <2>2. Shut(more, s, fs)[i]
          = IF ClosingsOf(more, s, i) = {} THEN fs[i]
            ELSE [fs[i] EXCEPT !.unfrozenAt =
                    (CHOOSE c \in ClosingsOf(more, s, i) : TRUE).at]
    BY DEF Shut
  <2>3. Shut(shut, s, fs)[i]
          = IF C = {} THEN fs[i]
            ELSE [fs[i] EXCEPT !.unfrozenAt = (CHOOSE c \in C : TRUE).at]
    BY DEF Shut
  <2> HIDE DEF C
  <2> QED
    BY <2>1, <2>2, <2>3
<1>2. /\ Shut(more, s, fs) = [i \in DOMAIN fs |-> Shut(more, s, fs)[i]]
      /\ Shut(shut, s, fs) = [i \in DOMAIN fs |-> Shut(shut, s, fs)[i]]
  BY DEF Shut
<1> QED
  BY <1>1, <1>2

(* Closing what is still open closes it all.                                 *)
LEMMA ShutTheRest ==
  ASSUME NEW fs \in Seq(Episode), NEW shut \in SUBSET Closing, NEW s, NEW a \in Time
  PROVE  LET own == {[sub |-> s, id |-> i, at |-> a] : i \in OpenIn(Shut(shut, s, fs))}
         IN  Shut(shut \cup own, s, fs) = CloseAll(Shut(shut, s, fs), a)
<1> DEFINE gs  == Shut(shut, s, fs)
           own == {[sub |-> s, id |-> i, at |-> a] : i \in OpenIn(gs)}
           all == shut \cup own
<1>1. /\ DOMAIN gs = DOMAIN fs
      /\ \A i \in DOMAIN fs :
        gs[i] = IF ClosingsOf(shut, s, i) = {} THEN fs[i]
                ELSE [fs[i] EXCEPT !.unfrozenAt =
                        (CHOOSE c \in ClosingsOf(shut, s, i) : TRUE).at]
  BY DEF Shut
<1>2. \A i \in DOMAIN fs : fs[i] \in Episode
  BY FreezesAreEpisodes
<1> HIDE DEF gs
<1>3. ASSUME NEW i \in DOMAIN fs, IsOpen(gs[i])
      PROVE  ClosingsOf(shut, s, i) = {} /\ gs[i] = fs[i]
  <2> SUFFICES ASSUME ClosingsOf(shut, s, i) # {} PROVE FALSE
    BY <1>1
  <2> DEFINE c == CHOOSE c \in ClosingsOf(shut, s, i) : TRUE
  <2>1. c \in ClosingsOf(shut, s, i)
    OBVIOUS
  <2>2. c.at \in Time
    BY <2>1 DEF ClosingsOf, Closing
  <2>3. gs[i] = [fs[i] EXCEPT !.unfrozenAt = c.at]
    BY <1>1
  <2> HIDE DEF c
  <2>4. gs[i].unfrozenAt \in Nat
    BY <1>2, <2>2, <2>3 DEF Episode, Time
  <2> QED
    BY <1>3, <2>4, TermsAssumption DEF IsOpen
<1>4. ASSUME NEW i \in DOMAIN fs
      PROVE  ClosingsOf(own, s, i)
               = IF IsOpen(gs[i]) THEN {[sub |-> s, id |-> i, at |-> a]} ELSE {}
  BY <1>1 DEF ClosingsOf, OpenIn
<1>5. ASSUME NEW i \in DOMAIN fs
      PROVE  ClosingsOf(all, s, i) = ClosingsOf(shut, s, i) \cup ClosingsOf(own, s, i)
  BY DEF ClosingsOf
<1> HIDE DEF own, all
<1>6. ASSUME NEW i \in DOMAIN fs
      PROVE  Shut(all, s, fs)[i] = CloseAll(gs, a)[i]
  <2>1. Shut(all, s, fs)[i]
          = IF ClosingsOf(all, s, i) = {} THEN fs[i]
            ELSE [fs[i] EXCEPT !.unfrozenAt =
                    (CHOOSE c \in ClosingsOf(all, s, i) : TRUE).at]
    BY DEF Shut
  <2>2. CloseAll(gs, a)[i] = IF IsOpen(gs[i]) THEN [gs[i] EXCEPT !.unfrozenAt = a] ELSE gs[i]
    BY <1>1 DEF CloseAll
  <2>3. CASE IsOpen(gs[i])
    <3> DEFINE c == [sub |-> s, id |-> i, at |-> a]
    <3>1. ClosingsOf(all, s, i) = {c} /\ gs[i] = fs[i]
      BY <1>3, <1>4, <1>5, <2>3
    <3>2. (CHOOSE d \in {c} : TRUE) = c
      OBVIOUS
    <3>3. c.at = a
      OBVIOUS
    <3> HIDE DEF c
    <3> QED
      BY <2>1, <2>2, <2>3, <3>1, <3>2, <3>3
  <2>4. CASE ~IsOpen(gs[i])
    <3>1. ClosingsOf(all, s, i) = ClosingsOf(shut, s, i)
      BY <1>4, <1>5, <2>4
    <3> QED
      BY <1>1, <2>1, <2>2, <2>4, <3>1
  <2> QED
    BY <2>3, <2>4
<1>7. /\ Shut(all, s, fs) = [i \in DOMAIN fs |-> Shut(all, s, fs)[i]]
      /\ CloseAll(gs, a) = [i \in DOMAIN fs |-> CloseAll(gs, a)[i]]
  BY <1>1 DEF Shut, CloseAll
<1>8. Shut(all, s, fs) = CloseAll(gs, a)
  BY <1>6, <1>7
<1> QED
  BY <1>8 DEF all, own, gs

(* A settle pass that commits leaves another on its way to the same end.     *)
LEMMA RowSettles ==
  ASSUME NEW x, NEW s \in Subs, NEW row, NEW fs, NEW cfg \in Settings, NEW n \in Time,
         x.op \in {"sweep", "get"}, x.held \subseteq Subs,
         \A y \in x.overdue : y[1] = s => y[2] \in DOMAIN fs,
         RowOK(row, fs, n), RowOnItsWay(x, s, row, fs, cfg, n)
  PROVE  RowOnItsWay(x, s, SettleRow(row, fs, cfg, n), SettleFreezes(row, fs, n), cfg, n)
<1> DEFINE R  == SettleRow(row, fs, cfg, n)
           gs == SettleFreezes(row, fs, n)
<1>1. /\ SettleRow(R, gs, cfg, n) = R /\ SettleFreezes(R, gs, n) = gs
      /\ ~IsDue(R, cfg, n)
  BY SettledTwice
<1>2. RowOK(R, gs, n)
  BY SettleKeeps
<1>3. R \in SoldPlan /\ gs \in Seq(Episode) /\ row \in SoldPlan /\ fs \in Seq(Episode)
  BY <1>2 DEF RowOK
<1>4. ~IsDue(SettleThaw(R, gs, n), cfg, n)
  <2>1. \A i \in DOMAIN gs : ~IsOverdue(gs[i], n)
    BY SettledEpisodesEnd DEF NoneOverdue
  <2> QED
    BY <1>1, <1>2, <2>1, NoneIsOverdue
<1>5. Finish(R, cfg, n) = R
  BY <1>1 DEF Finish
<1>6. DOMAIN gs = DOMAIN fs /\ \A i \in DOMAIN fs : gs[i] \in Episode
  <2>1. DOMAIN gs = 1 .. Len(fs) /\ Len(gs) = Len(fs) /\ DOMAIN fs = 1 .. Len(fs)
    BY <1>3, SettledFreezesType, FreezesAreEpisodes
  <2> QED
    BY <1>3, <2>1, FreezesAreEpisodes
<1> HIDE DEF R, gs
<1>7. ASSUME ThawsNext(x, s, row, fs, cfg, n)
      PROVE  ThawsNext(x, s, R, gs, cfg, n)
  <2>1. R = Finish(ThawRow(row), cfg, n)
    BY <1>7 DEF ThawsNext, R
  <2>2. ThawRow(R) = ThawRow(row)
    BY <1>3, <2>1, ThawsOnce
  <2>3. Finish(ThawRow(R), cfg, n) = SettleRow(R, gs, cfg, n)
    BY <1>1, <2>1, <2>2
  <2>4. ASSUME NEW y \in Owed(x, s)
        PROVE  /\ Owed(x, s) = {y}
               /\ [gs EXCEPT ![y[2]].unfrozenAt = gs[y[2]].endedAt]
                    = SettleFreezes(R, gs, n)
    <3>1. /\ Owed(x, s) = {y}
          /\ gs = [fs EXCEPT ![y[2]].unfrozenAt = fs[y[2]].endedAt]
      BY <1>7, <2>4 DEF ThawsNext, gs
    <3>2. y[2] \in DOMAIN fs
      BY <2>4 DEF Owed
    <3>3. fs[y[2]] \in Episode
      BY <1>3, <3>2, FreezesAreEpisodes
    <3>4. gs[y[2]].unfrozenAt = gs[y[2]].endedAt
      BY <3>1, <3>2, <3>3 DEF Episode
    <3>5. [gs[y[2]] EXCEPT !.unfrozenAt = gs[y[2]].endedAt] = gs[y[2]]
      BY <1>6, <3>2, <3>4 DEF Episode
    <3>6. gs = [i \in DOMAIN gs |-> gs[i]]
      BY <1>3, SeqDef, LenProperties
    <3>7. [gs EXCEPT ![y[2]].unfrozenAt = gs[y[2]].endedAt] = gs
      BY <3>5, <3>6
    <3> QED
      BY <1>1, <3>1, <3>7
  <2> QED
    BY <1>7, <2>3, <2>4 DEF ThawsNext
<1>8. ASSUME Shut(x.shut, s, fs) = gs
      PROVE  Shut(x.shut, s, gs) = SettleFreezes(R, gs, n)
  BY <1>1, <1>3, <1>8, ShutTwice
<1>9. ASSUME HasThawed(x, s, row, fs, cfg, n)
      PROVE  HasThawed(x, s, R, gs, cfg, n)
  <2>1. Finish(Seen(x, s, R), cfg, n) = SettleRow(R, gs, cfg, n)
    BY <1>1, <1>5, <1>9 DEF HasThawed, Seen, R
  <2> QED
    BY <1>8, <1>9, <2>1 DEF HasThawed, gs
<1>10. ASSUME DuesKnown(x, s, row, fs, cfg, n)
       PROVE  DuesKnown(x, s, R, gs, cfg, n)
  BY <1>1, <1>4, <1>10 DEF DuesKnown, R
<1>11. ASSUME HasSelected(x, s, row, fs, cfg, n)
       PROVE  HasSelected(x, s, R, gs, cfg, n)
  <2>1. R = IF s \in x.due THEN Lapse(Seen(x, s, R)) ELSE Seen(x, s, R)
    <3>1. CASE s \in x.held
      BY <1>11, <3>1 DEF HasSelected, Seen, R
    <3>2. CASE s \notin x.held
      <4>1. R = IF s \in x.due THEN Lapse(row) ELSE row
        BY <1>11, <3>2 DEF HasSelected, Seen, R
      <4>2. s \in x.due => Lapse(R) = R
        BY <1>3, <4>1, RowsLapseOnce
      <4> QED
        BY <3>2, <4>2 DEF Seen
    <3> QED
      BY <3>1, <3>2
  <2> QED
    BY <1>1, <1>8, <1>10, <1>11, <2>1 DEF HasSelected, gs
<1>12. ASSUME HasSettled(x, s, row, fs, cfg, n)
       PROVE  HasSettled(x, s, R, gs, cfg, n)
  <2>1. Seen(x, s, R) = SettleRow(R, gs, cfg, n)
    BY <1>1, <1>12 DEF HasSettled, Seen, R
  <2>2. Shut(x.shut, s, gs) = SettleFreezes(R, gs, n)
    BY <1>8, <1>12 DEF HasSettled, gs
  <2> QED
    BY <1>10, <1>12, <2>1, <2>2 DEF HasSettled
<1>13. RowOnItsWay(x, s, R, gs, cfg, n)
  BY <1>7, <1>9, <1>11, <1>12 DEF RowOnItsWay
<1> QED
  BY <1>13 DEF R, gs

(* What the first query of a settle pass finds of a row.                     *)
LEMMA RowSelected ==
  ASSUME NEW x, NEW s \in Subs, NEW row, NEW fs, NEW cfg \in Settings, NEW n \in Time,
         RowOK(row, fs, n), x.step = "thaw", Untouched(x, s),
         s \notin ScopeOf(x) => s \notin x.due,
         Owed(x, s) = IF s \in ScopeOf(x) /\ row.status # "CANCELLED"
                      THEN {<<s, i>> : i \in {j \in DOMAIN fs : IsOverdue(fs[j], n)}}
                      ELSE {}
  PROVE  RowOnItsWay(x, s, row, fs, cfg, n)
<1>1. row \in SoldPlan /\ fs \in Seq(Episode)
  BY DEF RowOK
<1>2. ASSUME Owed(x, s) # {} PROVE ThawsNext(x, s, row, fs, cfg, n)
  <2>1. PICK i \in DOMAIN fs : IsOverdue(fs[i], n) /\ <<s, i>> \in Owed(x, s)
    BY <1>2
  <2>2. /\ SettleThaw(row, fs, n) = ThawRow(row)
        /\ SettleFreezes(row, fs, n) = [fs EXCEPT ![i].unfrozenAt = fs[i].endedAt]
    BY <2>1, OneIsOverdue
  <2>3. \A j \in DOMAIN fs : IsOverdue(fs[j], n) => j = i
    BY <2>1, OneIsOverdue
  <2>4. Owed(x, s) = {<<s, i>>}
    BY <1>2, <2>1, <2>3
  <2>5. Finish(ThawRow(row), cfg, n) = SettleRow(row, fs, cfg, n)
    BY <2>2, SettleIsFinish
  <2>6. \A y \in Owed(x, s) : y[2] = i /\ Owed(x, s) = {y}
    BY <2>4
  <2> QED
    BY <2>2, <2>5, <2>6 DEF ThawsNext
<1>3. ASSUME Owed(x, s) = {}, s \in ScopeOf(x) PROVE HasThawed(x, s, row, fs, cfg, n)
  <2>1. row.status = "CANCELLED" \/ \A i \in DOMAIN fs : ~IsOverdue(fs[i], n)
    BY <1>3
  <2>2. SettleThaw(row, fs, n) = row /\ SettleFreezes(row, fs, n) = fs
    BY <2>1, NoneIsOverdue
  <2>3. Seen(x, s, row) = row /\ s \notin x.held
    BY DEF Untouched, Seen
  <2>4. Shut(x.shut, s, fs) = fs
    BY <1>1, NothingShut DEF Untouched
  <2> QED
    BY <2>2, <2>3, <2>4, SettleIsFinish DEF HasThawed
<1> QED
  BY <1>2, <1>3 DEF RowOnItsWay, SettleStep

(* Both updates of the overdue freeze of a row.                              *)
LEMMA RowThawed ==
  ASSUME NEW x, NEW z, NEW s \in Subs, NEW i, NEW row, NEW fs, NEW cfg, NEW n,
         row \in SoldPlan, fs \in Seq(Episode), i \in DOMAIN fs,
         x.step = "thaw", <<s, i>> \in x.overdue, RowOnItsWay(x, s, row, fs, cfg, n),
         z.step = "thaw", z.overdue = x.overdue \ {<<s, i>>}, ScopeOf(z) = ScopeOf(x),
         s \in z.held, z.draft[s] = ThawRow(Seen(x, s, row)),
         z.shut = x.shut \cup {[sub |-> s, id |-> i, at |-> fs[i].endedAt]}
  PROVE  RowOnItsWay(z, s, row, fs, cfg, n)
<1>1. <<s, i>> \in Owed(x, s)
  BY DEF Owed
<1>2. s \in ScopeOf(x) /\ ThawsNext(x, s, row, fs, cfg, n)
  BY <1>1 DEF RowOnItsWay
<1>3. /\ Untouched(x, s) /\ Owed(x, s) = {<<s, i>>}
      /\ [fs EXCEPT ![i].unfrozenAt = fs[i].endedAt] = SettleFreezes(row, fs, n)
      /\ Finish(ThawRow(row), cfg, n) = SettleRow(row, fs, cfg, n)
  BY <1>1, <1>2 DEF ThawsNext
<1>4. Owed(z, s) = {}
  BY <1>3 DEF Owed
<1>5. Seen(z, s, row) = ThawRow(row)
  BY <1>3 DEF Seen, Untouched
<1>6. z.draft[s].status = "ACTIVE"
  BY <1>5, ThawsOnce DEF Seen
<1>7. Shut(z.shut, s, fs) = [fs EXCEPT ![i].unfrozenAt = fs[i].endedAt]
  <2> DEFINE c == [sub |-> s, id |-> i, at |-> fs[i].endedAt]
  <2>1. c.sub = s /\ c.id = i /\ c.at = fs[i].endedAt
    OBVIOUS
  <2> HIDE DEF c
  <2>2. z.shut = x.shut \cup {c}
    BY DEF c
  <2>3. \A j : ClosingsOf(z.shut, s, j) = IF j = i THEN {c} ELSE {}
    BY <1>3, <2>1, <2>2 DEF ClosingsOf, Untouched
  <2> DEFINE gs == Shut(z.shut, s, fs)
  <2>4. gs = [j \in DOMAIN fs |-> gs[j]]
    BY DEF Shut
  <2>5. \A j \in DOMAIN fs :
          gs[j] = IF ClosingsOf(z.shut, s, j) = {} THEN fs[j]
                  ELSE [fs[j] EXCEPT !.unfrozenAt =
                          (CHOOSE d \in ClosingsOf(z.shut, s, j) : TRUE).at]
    BY DEF Shut
  <2>6. \A j \in DOMAIN fs : j # i => gs[j] = fs[j]
    BY <2>3, <2>5
  <2>7. ClosingsOf(z.shut, s, i) = {c}
    BY <2>3
  <2>8. gs[i] = [fs[i] EXCEPT !.unfrozenAt = fs[i].endedAt]
    <3> DEFINE d == CHOOSE d \in ClosingsOf(z.shut, s, i) : TRUE
    <3>1. gs[i] = [fs[i] EXCEPT !.unfrozenAt = d.at]
      BY <2>5, <2>7
    <3>2. d = c
      BY <2>7
    <3> HIDE DEF d
    <3> QED
      BY <2>1, <3>1, <3>2
  <2>9. fs = [j \in DOMAIN fs |-> fs[j]]
    BY SeqDef, LenProperties
  <2> HIDE DEF gs
  <2>10. gs = [fs EXCEPT ![i].unfrozenAt = fs[i].endedAt]
    BY <2>4, <2>6, <2>8, <2>9
  <2> QED
    BY <2>10 DEF gs
<1>8. HasThawed(z, s, row, fs, cfg, n)
  BY <1>3, <1>5, <1>6, <1>7 DEF HasThawed
<1> QED
  BY <1>2, <1>4, <1>8 DEF RowOnItsWay, SettleStep

(* The query for the rows that are due.                                      *)
LEMMA RowSought ==
  ASSUME NEW x, NEW z, NEW s \in Subs, NEW row, NEW fs, NEW cfg, NEW n \in Time,
         RowOK(row, fs, n), s \in x.held => x.draft[s] \in SoldPlan,
         x.step = "thaw", x.overdue = {}, RowOnItsWay(x, s, row, fs, cfg, n),
         z.step = "expire", z.overdue = x.overdue, ScopeOf(z) = ScopeOf(x),
         z.held = x.held, z.draft = x.draft, z.shut = x.shut,
         s \in z.due <=> s \in ScopeOf(x) /\ IsDue(Seen(x, s, row), cfg, n)
  PROVE  RowOnItsWay(z, s, row, fs, cfg, n)
<1> DEFINE R == SettleRow(row, fs, cfg, n)
           T == SettleThaw(row, fs, n)
<1>1. Owed(x, s) = {} /\ Owed(z, s) = {}
  BY DEF Owed
<1>2. Seen(z, s, row) = Seen(x, s, row) /\ Seen(x, s, row) \in SoldPlan
  BY DEF Seen, RowOK
<1>3. ASSUME s \in ScopeOf(x) PROVE HasSelected(z, s, row, fs, cfg, n)
  <2>1. HasThawed(x, s, row, fs, cfg, n)
    BY <1>1, <1>3 DEF RowOnItsWay
  <2>2. R = Finish(Seen(x, s, row), cfg, n)
    BY <2>1 DEF HasThawed
  <2>3. R = IF s \in z.due THEN Lapse(Seen(z, s, row)) ELSE Seen(z, s, row)
    BY <1>2, <1>3, <2>2 DEF Finish
  <2>4. s \in z.due => R.status = "EXPIRED"
    BY <1>2, <2>3, RowsLapseOnce
  <2>5. ASSUME IsDue(T, cfg, n), s \notin z.due PROVE FALSE
    <3>1. R = Lapse(T)
      BY <2>5, SettleIsFinish DEF Finish
    <3>2. row \in SoldPlan /\ T \in SoldPlan
      BY SettledThaws, ThawsOnce DEF RowOK
    <3>3. R.status = "EXPIRED" /\ R = Seen(x, s, row)
      BY <1>2, <2>3, <2>5, <3>1, <3>2, RowsLapseOnce
    <3>4. CASE s \in x.held
      BY <2>1, <3>3, <3>4 DEF HasThawed, Seen
    <3>5. CASE s \notin x.held
      <4>1. row.status = "EXPIRED"
        BY <3>3, <3>5 DEF Seen
      <4>2. T = row
        BY <4>1, OnlyFrozenThaws
      <4> QED
        BY <2>5, <4>1, <4>2 DEF IsDue
    <3> QED
      BY <3>4, <3>5
  <2>6. DuesKnown(z, s, row, fs, cfg, n)
    BY <2>4, <2>5 DEF DuesKnown
  <2>7. Shut(z.shut, s, fs) = SettleFreezes(row, fs, n)
    BY <2>1 DEF HasThawed
  <2> QED
    BY <2>3, <2>6, <2>7 DEF HasSelected
<1>4. s \notin ScopeOf(x) => Untouched(z, s) /\ s \notin z.due
  BY DEF RowOnItsWay, Untouched
<1> QED
  BY <1>1, <1>3, <1>4 DEF RowOnItsWay, SettleStep

(* The update that expires them.                                             *)
LEMMA RowLapsed ==
  ASSUME NEW x, NEW z, NEW s \in Subs, NEW row, NEW fs, NEW cfg, NEW n,
         x.step = "expire", RowOnItsWay(x, s, row, fs, cfg, n),
         z.step = "read", z.overdue = x.overdue, ScopeOf(z) = ScopeOf(x),
         z.due = x.due, z.shut = x.shut, z.held = x.held \cup x.due,
         s \in z.held => z.draft[s] = IF s \in x.due THEN Lapse(Seen(x, s, row))
                                                     ELSE x.draft[s]
  PROVE  RowOnItsWay(z, s, row, fs, cfg, n)
<1>1. Seen(z, s, row) = IF s \in x.due THEN Lapse(Seen(x, s, row)) ELSE Seen(x, s, row)
  BY DEF Seen
<1>2. ASSUME s \in ScopeOf(x) PROVE HasSettled(z, s, row, fs, cfg, n)
  <2>1. HasSelected(x, s, row, fs, cfg, n)
    BY <1>2 DEF RowOnItsWay
  <2> QED
    BY <1>1, <2>1 DEF HasSelected, HasSettled, DuesKnown
<1>3. s \notin ScopeOf(x) => Untouched(z, s) /\ s \notin z.due /\ Owed(z, s) = {}
  BY DEF RowOnItsWay, Untouched, Owed
<1> QED
  BY <1>2, <1>3 DEF RowOnItsWay, SettleStep

(* A handler that only reads.                                                *)
LEMMA RowRead ==
  ASSUME NEW x, NEW z, NEW s \in Subs, NEW row, NEW fs, NEW cfg, NEW n,
         x.step \notin SettleStep, RowOnItsWay(x, s, row, fs, cfg, n),
         z.step \notin SettleStep, z.op = x.op, z.on = x.on, z.overdue = x.overdue,
         z.due = x.due, z.shut = x.shut, z.held = x.held, z.draft = x.draft,
         x.op = "cancel" => x.step # "write" /\ z.step # "write"
  PROVE  RowOnItsWay(z, s, row, fs, cfg, n)
<1>1. ScopeOf(z) = ScopeOf(x) /\ Seen(z, s, row) = Seen(x, s, row)
      /\ Untouched(z, s) = Untouched(x, s) /\ Owed(z, s) = Owed(x, s)
  BY DEF ScopeOf, Seen, Untouched, Owed
<1>2. HasSettled(x, s, row, fs, cfg, n) => HasSettled(z, s, row, fs, cfg, n)
  BY <1>1 DEF HasSettled, DuesKnown
<1> QED
  BY <1>1, <1>2 DEF RowOnItsWay, SettleStep

-----------------------------------------------------------------------------
(* The steps inside a transaction change no table *)

(* A step of the serial specification, after which all is as it should be.   *)
InSeries == [Next]_vars /\ OthersAlone' /\ AllOnTheirWay'

LEMMA OpenTxIs ==
  ASSUME SerInv, SweepsOverlap, NEW t \in Sessions, tx[t].step # "idle"
  PROVE  LET x == tx[t] IN
         /\ x \in Transaction /\ x.at = now /\ x.on \in Subs /\ x.held \subseteq Subs
         /\ x.on \in ScopeOf(x) /\ ScopeOf(x) \subseteq Subs /\ Scope(t) = ScopeOf(x)
         /\ \A s \in Subs : /\ RowOnItsWay(x, s, sub[s], freezes[s], settings, now)
                            /\ View(t, s) = Seen(x, s, sub[s])
                            /\ s \in x.held => x.draft[s] \in SoldPlan
         /\ \A y \in x.overdue : y[1] \in Subs /\ y[2] \in DOMAIN freezes[y[1]]
         /\ NoticesKnown(x, sub, freezes, settings, now)
         /\ HandlerKnows(x, sub[x.on], freezes[x.on], visits[x.on], settings, now)
<1> DEFINE x == tx[t]
<1>1. x \in Transaction /\ TxInv(x, sub, freezes, inbox, now)
  BY DEF SerInv, XInv
<1>2. TxOnItsWay(x, sub, freezes, visits, settings, now)
  BY DEF SerInv, AllOnTheirWay
<1>3. x.on \in Subs /\ x.held \subseteq Subs /\ x.draft \in [Subs -> SoldPlan]
      /\ x.overdue \subseteq Subs \X Nat
  BY <1>1 DEF Transaction
<1>4. x.on \in ScopeOf(x) /\ ScopeOf(x) \subseteq Subs /\ Scope(t) = ScopeOf(x)
  BY <1>3 DEF ScopeOf, Scope
<1>5. \A s \in Subs : View(t, s) = Seen(x, s, sub[s]) /\ x.draft[s] \in SoldPlan
  BY <1>3 DEF View, Seen
<1>6. \A y \in x.overdue : y[1] \in Subs /\ y[2] \in DOMAIN freezes[y[1]]
  BY <1>1, <1>3 DEF TxInv, SelectedInv
<1>7. /\ x.at = now
      /\ \A s \in Subs : RowOnItsWay(x, s, sub[s], freezes[s], settings, now)
      /\ NoticesKnown(x, sub, freezes, settings, now)
      /\ HandlerKnows(x, sub[x.on], freezes[x.on], visits[x.on], settings, now)
  BY <1>2 DEF TxOnItsWay
<1> QED
  BY <1>1, <1>3, <1>4, <1>5, <1>6, <1>7

LEMMA RowsAreRows ==
  ASSUME SerInv
  PROVE  /\ now \in Time /\ settings \in Settings
         /\ tx \in [Sessions -> Transaction]
         /\ \A s \in Subs : /\ RowOK(sub[s], freezes[s], now)
                            /\ sub[s] \in SoldPlan /\ freezes[s] \in Seq(Episode)
<1>1. tx \in [Sessions -> Transaction]
  BY DEF SerInv, XInv
<1>2. now \in Time /\ settings \in Settings
      /\ \A s \in Subs : RowOK(sub[s], freezes[s], now)
  BY RowsAreOK DEF SerInv
<1> QED
  BY <1>1, <1>2 DEF RowOK

LEMMA OwnStepInSeries ==
  ASSUME SerInv, NEW t \in Sessions, UNCHANGED <<now, tables>>,
         \A o \in Sessions \ {t} : tx'[o] = tx[o],
         tx'[t].step # "idle" => tx[t].step # "idle" /\ tx'[t].op = tx[t].op,
         TxOnItsWay(tx'[t], sub, freezes, visits, settings, now)
  PROVE  InSeries
<1>1. /\ sub' = sub /\ freezes' = freezes /\ visits' = visits /\ settings' = settings
      /\ now' = now /\ UNCHANGED vars
  BY DEF tables, shop, vars
<1>2. OthersAlone'
  BY DEF OthersAlone, SerInv
<1>3. \A o \in Sessions : TxOnItsWay(tx'[o], sub, freezes, visits, settings, now)
  BY DEF AllOnTheirWay, SerInv
<1>4. AllOnTheirWay'
  BY <1>1, <1>3 DEF AllOnTheirWay
<1> QED
  BY <1>1, <1>2, <1>4 DEF InSeries

LEMMA BeginInSeries ==
  ASSUME SerInv, SweepsOverlap, NEW t \in Sessions, NEW op \in Ops, NEW s \in Subs,
         NEW days \in DaysFor(op), Begin(t, op, s, days)
  PROVE  InSeries
<1> DEFINE z == Begun(op, s, days, "overdue")
<1>1. /\ tx \in [Sessions -> Transaction] /\ tx' = [tx EXCEPT ![t] = z]
      /\ UNCHANGED <<now, tables>>
  BY RowsAreRows DEF Begin
<1>2. /\ z.step = "overdue" /\ z.op = op /\ z.on = s /\ z.days = days /\ z.at = now
      /\ z.held = {} /\ z.overdue = {} /\ z.due = {} /\ z.shut = {}
  BY DEF Begun
<1> HIDE DEF z
<1>3. tx'[t] = z /\ \A o \in Sessions \ {t} : tx'[o] = tx[o]
  BY <1>1
<1>4. TxOnItsWay(z, sub, freezes, visits, settings, now)
  <2>1. z.op = "freeze" => z.days \in FreezeRequests
    BY <1>2 DEF DaysFor
  <2>2. ASSUME NEW r \in Subs PROVE RowOnItsWay(z, r, sub[r], freezes[r], settings, now)
    BY <1>2 DEF RowOnItsWay, Untouched, Owed, SettleStep
  <2>3. /\ NoticesKnown(z, sub, freezes, settings, now)
        /\ HandlerKnows(z, sub[z.on], freezes[z.on], visits[z.on], settings, now)
    BY <1>2 DEF NoticesKnown, HandlerKnows, SettleStep
  <2> QED
    BY <1>2, <2>1, <2>2, <2>3 DEF TxOnItsWay
<1>5. /\ sub' = sub /\ freezes' = freezes /\ visits' = visits /\ settings' = settings
      /\ now' = now /\ UNCHANGED vars
  BY <1>1 DEF tables, shop, vars
<1>6. \A o \in Sessions : tx[o].step # "idle" =>
        op \in {"sweep", "get"} /\ tx[o].op \in {"sweep", "get"}
  BY DEF Begin, MayOverlap, SweepsOverlap
<1>7. OthersAlone'
  <2> SUFFICES ASSUME NEW o \in Sessions, NEW p \in Sessions, o # p,
                      tx'[o].step # "idle", tx'[p].step # "idle"
               PROVE  tx'[o].op \in {"sweep", "get"} /\ tx'[p].op \in {"sweep", "get"}
    BY DEF OthersAlone
  <2>1. CASE o = t
    BY <1>2, <1>3, <1>6, <2>1
  <2>2. CASE p = t
    BY <1>2, <1>3, <1>6, <2>2
  <2>3. CASE o # t /\ p # t
    BY <1>3, <1>6, <2>3
  <2> QED
    BY <2>1, <2>2, <2>3
<1>8. \A o \in Sessions : TxOnItsWay(tx'[o], sub, freezes, visits, settings, now)
  BY <1>3, <1>4 DEF AllOnTheirWay, SerInv
<1>9. AllOnTheirWay'
  BY <1>5, <1>8 DEF AllOnTheirWay
<1> QED
  BY <1>5, <1>7, <1>9 DEF InSeries

LEMMA SelectOverdueInSeries ==
  ASSUME SerInv, SweepsOverlap, NEW t \in Sessions, SelectOverdue(t)
  PROVE  InSeries
<1> DEFINE x  == tx[t]
           z  == tx'[t]
           od == OverdueIn(Scope(t))
<1>1. /\ x.step = "overdue" /\ UNCHANGED <<now, tables>>
      /\ tx' = [tx EXCEPT ![t].overdue = od, ![t].step = "thaw"]
  BY DEF SelectOverdue
<1>2. /\ x \in Transaction /\ x.at = now /\ ScopeOf(x) \subseteq Subs
      /\ Scope(t) = ScopeOf(x)
      /\ \A s \in Subs : RowOnItsWay(x, s, sub[s], freezes[s], settings, now)
      /\ x.op = "freeze" => x.days \in FreezeRequests
  <2>1. x.op = "freeze" => x.days \in FreezeRequests
    BY <1>1 DEF SerInv, AllOnTheirWay, TxOnItsWay
  <2> QED
    BY <1>1, <2>1, OpenTxIs
<1>3. \A s \in Subs : {y \in od : y[1] = s} =
        IF s \in ScopeOf(x) /\ sub[s].status # "CANCELLED"
        THEN {<<s, i>> : i \in {j \in DOMAIN freezes[s] : IsOverdue(freezes[s][j], now)}}
        ELSE {}
  BY <1>2 DEF OverdueIn
<1> HIDE DEF od
<1>4. /\ z = [x EXCEPT !.overdue = od, !.step = "thaw"]
      /\ \A o \in Sessions \ {t} : tx'[o] = tx[o]
  BY <1>1, RowsAreRows
<1>5. /\ z.step = "thaw" /\ z.overdue = od /\ z.due = x.due /\ z.held = x.held
      /\ z.shut = x.shut /\ z.op = x.op /\ z.on = x.on /\ z.at = x.at /\ z.days = x.days
  BY <1>2, <1>4 DEF Transaction
<1> HIDE DEF z
<1>6. ASSUME NEW s \in Subs PROVE RowOnItsWay(z, s, sub[s], freezes[s], settings, now)
  <2>1. Untouched(x, s)
    BY <1>1, <1>2 DEF RowOnItsWay
  <2>2. Untouched(z, s) /\ ScopeOf(z) = ScopeOf(x)
    BY <1>5, <2>1 DEF Untouched, ScopeOf
  <2>3. Owed(z, s) = IF s \in ScopeOf(z) /\ sub[s].status # "CANCELLED"
                     THEN {<<s, i>> : i \in {j \in DOMAIN freezes[s] :
                                               IsOverdue(freezes[s][j], now)}}
                     ELSE {}
    BY <1>3, <1>5, <2>2 DEF Owed
  <2>4. s \notin ScopeOf(z) => s \notin z.due
    BY <1>2, <1>5, <2>2 DEF RowOnItsWay
  <2>5. /\ now \in Time /\ settings \in Settings
        /\ RowOK(sub[s], freezes[s], now)
    BY RowsAreRows
  <2> QED
    BY <1>5, <2>2, <2>3, <2>4, <2>5, RowSelected
<1>7. TxOnItsWay(z, sub, freezes, visits, settings, now)
  <2>1. /\ NoticesKnown(z, sub, freezes, settings, now)
        /\ HandlerKnows(z, sub[z.on], freezes[z.on], visits[z.on], settings, now)
    BY <1>5 DEF NoticesKnown, HandlerKnows, SettleStep
  <2> QED
    BY <1>2, <1>5, <1>6, <2>1 DEF TxOnItsWay
<1> QED
  BY <1>1, <1>4, <1>5, <1>7, OwnStepInSeries DEF z

(* What is done to one row leaves another on its way.                        *)
LEMMA RowAside ==
  ASSUME NEW x, NEW z, NEW s \in Subs, NEW row, NEW fs, NEW cfg, NEW n,
         RowOnItsWay(x, s, row, fs, cfg, n),
         z.step = x.step, z.op = x.op, z.on = x.on, z.due = x.due,
         Owed(z, s) = Owed(x, s),
         s \in z.held <=> s \in x.held, z.draft[s] = x.draft[s],
         \A c : c.sub = s => (c \in z.shut <=> c \in x.shut)
  PROVE  RowOnItsWay(z, s, row, fs, cfg, n)
<1>1. ScopeOf(z) = ScopeOf(x) /\ Seen(z, s, row) = Seen(x, s, row)
  BY DEF ScopeOf, Seen
<1>2. Shut(z.shut, s, fs) = Shut(x.shut, s, fs)
  BY ShutAside
<1>3. Untouched(z, s) <=> Untouched(x, s)
  BY DEF Untouched
<1>4. ThawsNext(x, s, row, fs, cfg, n) => ThawsNext(z, s, row, fs, cfg, n)
  BY <1>3 DEF ThawsNext
<1>5. HasThawed(x, s, row, fs, cfg, n) => HasThawed(z, s, row, fs, cfg, n)
  BY <1>1, <1>2 DEF HasThawed
<1>6. HasSelected(x, s, row, fs, cfg, n) => HasSelected(z, s, row, fs, cfg, n)
  BY <1>1, <1>2 DEF HasSelected, DuesKnown
<1>7. HasSettled(x, s, row, fs, cfg, n) => HasSettled(z, s, row, fs, cfg, n)
  BY <1>1, <1>2 DEF HasSettled, DuesKnown
<1> QED
  BY <1>1, <1>3, <1>4, <1>5, <1>6, <1>7 DEF RowOnItsWay

LEMMA ThawInSeries ==
  ASSUME SerInv, SweepsOverlap, NEW t \in Sessions, Thaw(t)
  PROVE  InSeries
<1> DEFINE x == tx[t]
           z == tx'[t]
<1>1. x.step = "thaw" /\ UNCHANGED <<now, tables>>
  BY DEF Thaw
<1>2. /\ x \in Transaction /\ x.at = now /\ ScopeOf(x) \subseteq Subs
      /\ Scope(t) = ScopeOf(x)
      /\ \A s \in Subs : RowOnItsWay(x, s, sub[s], freezes[s], settings, now)
      /\ \A y \in x.overdue : y[1] \in Subs /\ y[2] \in DOMAIN freezes[y[1]]
      /\ \A s \in Subs : View(t, s) = Seen(x, s, sub[s])
      /\ x.op = "freeze" => x.days \in FreezeRequests
  <2>1. x.op = "freeze" => x.days \in FreezeRequests
    BY <1>1 DEF SerInv, AllOnTheirWay, TxOnItsWay
  <2> QED
    BY <1>1, <2>1, OpenTxIs
<1>3. PICK y \in x.overdue :
        tx' = [tx EXCEPT
                ![t].overdue = x.overdue \ {y},
                ![t].held = x.held \cup {y[1]},
                ![t].draft[y[1]] = ThawRow(View(t, y[1])),
                ![t].shut = x.shut \cup {[sub |-> y[1], id |-> y[2],
                                          at |-> freezes[y[1]][y[2]].endedAt]}]
  BY RowsAreRows DEF Thaw
<1> DEFINE s   == y[1]
           i   == y[2]
           c   == [sub |-> s, id |-> i, at |-> freezes[s][i].endedAt]
           new == ThawRow(View(t, s))
<1>4. s \in Subs /\ i \in DOMAIN freezes[s] /\ y = <<s, i>>
  <2>1. y \in Subs \X Nat
    BY <1>2 DEF Transaction
  <2> QED
    BY <1>2, <2>1
<1>5. c.sub = s /\ new = ThawRow(Seen(x, s, sub[s]))
  BY <1>2, <1>4
<1>6. /\ z = [x EXCEPT !.overdue = x.overdue \ {y}, !.held = x.held \cup {s},
                       !.draft[s] = new, !.shut = x.shut \cup {c}]
      /\ \A o \in Sessions \ {t} : tx'[o] = tx[o]
  BY <1>3, RowsAreRows
<1> HIDE DEF c, new, z
<1>7. /\ z.step = "thaw" /\ z.overdue = x.overdue \ {y} /\ z.due = x.due
      /\ z.held = x.held \cup {s} /\ z.draft = [x.draft EXCEPT ![s] = new]
      /\ z.shut = x.shut \cup {c} /\ z.op = x.op /\ z.on = x.on /\ z.at = x.at
      /\ z.days = x.days
  BY <1>1, <1>2, <1>6 DEF Transaction
<1>8. ScopeOf(z) = ScopeOf(x)
  BY <1>7 DEF ScopeOf
<1>9. z.draft[s] = new /\ \A r \in Subs : r # s => z.draft[r] = x.draft[r]
  BY <1>2, <1>4, <1>7 DEF Transaction
<1> HIDE DEF s, i
<1>10. RowOnItsWay(z, s, sub[s], freezes[s], settings, now)
  <2>1. sub[s] \in SoldPlan /\ freezes[s] \in Seq(Episode)
    BY <1>4, RowsAreRows
  <2>2. z.shut = x.shut \cup {[sub |-> s, id |-> i, at |-> freezes[s][i].endedAt]}
    BY <1>7 DEF c
  <2>3. s \in z.held /\ z.overdue = x.overdue \ {<<s, i>>} /\ <<s, i>> \in x.overdue
    BY <1>4, <1>7
  <2>4. z.draft[s] = ThawRow(Seen(x, s, sub[s]))
    BY <1>5, <1>9
  <2>5. RowOnItsWay(x, s, sub[s], freezes[s], settings, now)
    BY <1>2, <1>4
  <2> QED
    BY <1>1, <1>4, <1>7, <1>8, <2>1, <2>2, <2>3, <2>4, <2>5, RowThawed
<1>11. ASSUME NEW r \in Subs, r # s
       PROVE  RowOnItsWay(z, r, sub[r], freezes[r], settings, now)
  <2>1. Owed(z, r) = Owed(x, r)
    BY <1>4, <1>7, <1>11 DEF Owed
  <2>2. r \in z.held <=> r \in x.held
    BY <1>7, <1>11
  <2>3. \A d : d.sub = r => (d \in z.shut <=> d \in x.shut)
    BY <1>5, <1>7, <1>11
  <2>4. RowOnItsWay(x, r, sub[r], freezes[r], settings, now) /\ z.draft[r] = x.draft[r]
    BY <1>2, <1>9, <1>11
  <2> QED
    BY <1>1, <1>7, <2>1, <2>2, <2>3, <2>4, RowAside
<1>12. TxOnItsWay(z, sub, freezes, visits, settings, now)
  <2>1. /\ NoticesKnown(z, sub, freezes, settings, now)
        /\ HandlerKnows(z, sub[z.on], freezes[z.on], visits[z.on], settings, now)
    BY <1>7 DEF NoticesKnown, HandlerKnows, SettleStep
  <2>2. \A r \in Subs : RowOnItsWay(z, r, sub[r], freezes[r], settings, now)
    BY <1>10, <1>11
  <2> QED
    BY <1>2, <1>7, <2>1, <2>2 DEF TxOnItsWay
<1> QED
  BY <1>1, <1>6, <1>7, <1>12, OwnStepInSeries DEF z

LEMMA SelectDueInSeries ==
  ASSUME SerInv, SweepsOverlap, NEW t \in Sessions, SelectDue(t)
  PROVE  InSeries
<1> DEFINE x   == tx[t]
           z   == tx'[t]
           due == {s \in Scope(t) : IsDue(View(t, s), settings, now)}
<1>1. /\ x.step = "thaw" /\ x.overdue = {} /\ UNCHANGED <<now, tables>>
      /\ tx' = [tx EXCEPT ![t].due = due, ![t].step = "expire"]
  BY DEF SelectDue
<1>2. /\ x \in Transaction /\ x.at = now /\ ScopeOf(x) \subseteq Subs
      /\ Scope(t) = ScopeOf(x)
      /\ \A s \in Subs : RowOnItsWay(x, s, sub[s], freezes[s], settings, now)
      /\ \A s \in Subs : View(t, s) = Seen(x, s, sub[s])
      /\ \A s \in Subs : s \in x.held => x.draft[s] \in SoldPlan
      /\ x.op = "freeze" => x.days \in FreezeRequests
  <2>1. x.op = "freeze" => x.days \in FreezeRequests
    BY <1>1 DEF SerInv, AllOnTheirWay, TxOnItsWay
  <2> QED
    BY <1>1, <2>1, OpenTxIs
<1>3. \A s \in Subs : s \in due <=>
        s \in ScopeOf(x) /\ IsDue(Seen(x, s, sub[s]), settings, now)
  BY <1>2
<1> HIDE DEF due
<1>4. /\ z = [x EXCEPT !.due = due, !.step = "expire"]
      /\ \A o \in Sessions \ {t} : tx'[o] = tx[o]
  BY <1>1, RowsAreRows
<1>5. /\ z.step = "expire" /\ z.overdue = x.overdue /\ z.due = due /\ z.held = x.held
      /\ z.draft = x.draft /\ z.shut = x.shut /\ z.op = x.op /\ z.on = x.on
      /\ z.at = x.at /\ z.days = x.days
  BY <1>2, <1>4 DEF Transaction
<1> HIDE DEF z
<1>6. ScopeOf(z) = ScopeOf(x)
  BY <1>5 DEF ScopeOf
<1>7. ASSUME NEW s \in Subs PROVE RowOnItsWay(z, s, sub[s], freezes[s], settings, now)
  <2>1. now \in Time /\ RowOK(sub[s], freezes[s], now)
    BY RowsAreRows
  <2>2. RowOnItsWay(x, s, sub[s], freezes[s], settings, now)
    BY <1>2
  <2>3. s \in x.held => x.draft[s] \in SoldPlan
    BY <1>2
  <2>4. s \in z.due <=> s \in ScopeOf(x) /\ IsDue(Seen(x, s, sub[s]), settings, now)
    BY <1>3, <1>5
  <2> QED
    BY <1>1, <1>5, <1>6, <2>1, <2>2, <2>3, <2>4, RowSought
<1>8. TxOnItsWay(z, sub, freezes, visits, settings, now)
  <2>1. /\ NoticesKnown(z, sub, freezes, settings, now)
        /\ HandlerKnows(z, sub[z.on], freezes[z.on], visits[z.on], settings, now)
    BY <1>5 DEF NoticesKnown, HandlerKnows, SettleStep
  <2> QED
    BY <1>2, <1>5, <1>7, <2>1 DEF TxOnItsWay
<1> QED
  BY <1>1, <1>4, <1>5, <1>8, OwnStepInSeries DEF z

LEMMA ExpireInSeries ==
  ASSUME SerInv, SweepsOverlap, NEW t \in Sessions, Expire(t)
  PROVE  InSeries
<1> DEFINE x     == tx[t]
           z     == tx'[t]
           draft == [s \in Subs |-> IF s \in x.due THEN Expired(t, s) ELSE x.draft[s]]
           told  == {<<"SUBSCRIPTION_EXPIRED", s>> : s \in x.due}
                      \cup {<<"SUBSCRIPTION_ENDING_SOON", s>> :
                              s \in {r \in Scope(t) : IsEndingSoon(Expired(t, r), now)}}
<1>1. /\ x.step = "expire" /\ UNCHANGED <<now, tables>>
      /\ tx' = [tx EXCEPT ![t].held = x.held \cup x.due, ![t].draft = draft,
                          ![t].notices = told, ![t].step = "read"]
  BY RowsAreRows DEF Expire
<1>2. /\ x \in Transaction /\ x.at = now /\ ScopeOf(x) \subseteq Subs
      /\ Scope(t) = ScopeOf(x)
      /\ \A s \in Subs : RowOnItsWay(x, s, sub[s], freezes[s], settings, now)
      /\ \A s \in Subs : View(t, s) = Seen(x, s, sub[s])
      /\ x.op = "freeze" => x.days \in FreezeRequests
  <2>1. x.op = "freeze" => x.days \in FreezeRequests
    BY <1>1 DEF SerInv, AllOnTheirWay, TxOnItsWay
  <2> QED
    BY <1>1, <2>1, OpenTxIs
<1>3. \A s \in Subs :
        Expired(t, s) = IF s \in x.due THEN Lapse(Seen(x, s, sub[s])) ELSE Seen(x, s, sub[s])
  BY <1>2 DEF Expired, Lapse
<1>4. \A s \in ScopeOf(x) : Expired(t, s) = SettleRow(sub[s], freezes[s], settings, now)
  <2> SUFFICES ASSUME NEW s \in ScopeOf(x)
               PROVE  Expired(t, s) = SettleRow(sub[s], freezes[s], settings, now)
    OBVIOUS
  <2>1. HasSelected(x, s, sub[s], freezes[s], settings, now)
    BY <1>1, <1>2 DEF RowOnItsWay
  <2> QED
    BY <1>2, <1>3, <2>1 DEF HasSelected
<1>5. told = {<<"SUBSCRIPTION_EXPIRED", s>> : s \in x.due} \cup
             {<<"SUBSCRIPTION_ENDING_SOON", s>> :
                s \in {r \in ScopeOf(x) :
                         IsEndingSoon(SettleRow(sub[r], freezes[r], settings, now), now)}}
  BY <1>2, <1>4
<1>6. \A s \in Subs : draft[s] = IF s \in x.due THEN Lapse(Seen(x, s, sub[s]))
                                                ELSE x.draft[s]
  BY <1>3
<1> HIDE DEF draft, told
<1>7. /\ z = [x EXCEPT !.held = x.held \cup x.due, !.draft = draft,
                       !.notices = told, !.step = "read"]
      /\ \A o \in Sessions \ {t} : tx'[o] = tx[o]
  BY <1>1, RowsAreRows
<1>8. /\ z.step = "read" /\ z.overdue = x.overdue /\ z.due = x.due
      /\ z.held = x.held \cup x.due /\ z.draft = draft /\ z.shut = x.shut
      /\ z.op = x.op /\ z.on = x.on /\ z.at = x.at /\ z.days = x.days
      /\ z.notices = told
  BY <1>2, <1>7 DEF Transaction
<1> HIDE DEF z
<1>9. ScopeOf(z) = ScopeOf(x)
  BY <1>8 DEF ScopeOf
<1>10. ASSUME NEW s \in Subs PROVE RowOnItsWay(z, s, sub[s], freezes[s], settings, now)
  <2>1. RowOnItsWay(x, s, sub[s], freezes[s], settings, now)
    BY <1>2
  <2>2. z.draft[s] = IF s \in x.due THEN Lapse(Seen(x, s, sub[s])) ELSE x.draft[s]
    BY <1>6, <1>8
  <2> QED
    BY <1>1, <1>8, <1>9, <2>1, <2>2, RowLapsed
<1>11. TxOnItsWay(z, sub, freezes, visits, settings, now)
  <2>1. NoticesKnown(z, sub, freezes, settings, now)
    BY <1>5, <1>8, <1>9 DEF NoticesKnown
  <2>2. HandlerKnows(z, sub[z.on], freezes[z.on], visits[z.on], settings, now)
    BY <1>8 DEF HandlerKnows
  <2> QED
    BY <1>2, <1>8, <1>10, <2>1, <2>2 DEF TxOnItsWay
<1> QED
  BY <1>1, <1>7, <1>8, <1>11, OwnStepInSeries DEF z

(* The open freeze of a frozen plan is its newest.                           *)
LEMMA FrozenIsNewest ==
  ASSUME NEW row, NEW fs, NEW n \in Time, RowOK(row, fs, n), row.status = "FROZEN",
         NEW a
  PROVE  /\ Max({0} \cup {i \in DOMAIN fs : IsNewestOpen(fs, i)}) = Len(fs)
         /\ OpenIn(fs) = {Len(fs)} /\ Len(fs) \in Nat /\ Len(fs) # 0
         /\ CloseNewest(fs, a) = CloseAll(fs, a)
<1> DEFINE m == Len(fs)
           A == {i \in DOMAIN fs : IsNewestOpen(fs, i)}
           S == {0} \cup A
<1>1. OpenIn(fs) = {m}
  BY DEF RowOK, FreezeOnRecord
<1>2. m \in Nat /\ DOMAIN fs = 1 .. m
  BY FreezesAreEpisodes DEF RowOK
<1>3. m \in DOMAIN fs /\ \A i \in DOMAIN fs : IsOpen(fs[i]) <=> i = m
  BY <1>1 DEF OpenIn
<1>4. \A i \in DOMAIN fs : IsNewestOpen(fs, i) <=> i = m
  BY <1>2, <1>3 DEF IsNewestOpen
<1>5. S = {0, m}
  BY <1>3, <1>4
<1> HIDE DEF S
<1>6. Max(S) = m
  <2>1. m \in S /\ \A y \in S : m >= y
    BY <1>2, <1>5
  <2>2. Max(S) \in S /\ \A y \in S : Max(S) >= y
    BY <2>1 DEF Max
  <2> QED
    BY <1>2, <1>5, <2>1, <2>2
<1>7. CloseNewest(fs, a) = CloseAll(fs, a)
  BY <1>3, <1>4 DEF CloseNewest, CloseAll
<1>8. m # 0
  BY <1>2, <1>3
<1> QED
  BY <1>1, <1>2, <1>6, <1>7, <1>8 DEF S

(* What a transaction sees once its settle pass is over.                     *)
LEMMA SettledTxIs ==
  ASSUME SerInv, SweepsOverlap, NEW t \in Sessions,
         tx[t].step \notin {"idle", "overdue", "thaw", "expire"}
  PROVE  LET x == tx[t] IN
         /\ \A s \in Subs : View(t, s) = SettledSubs(Scope(t))[s]
         /\ ~(x.op = "cancel" /\ x.step = "write") =>
              \A s \in Subs : EpisodesWith(x.shut, s) = SettledEpisodes(Scope(t))[s]
         /\ x.op = "cancel" /\ x.step = "write" =>
              /\ EpisodesWith(x.shut, x.on) = CloseAll(SettledFreezes(x.on), now)
              /\ \A s \in Subs \ {x.on} : EpisodesWith(x.shut, s) = freezes[s]
         /\ inbox \cup x.notices = inbox \cup SettleNotices(Scope(t))
         /\ View(t, x.on) = Settled(x.on)
         /\ RowOK(Settled(x.on), SettledFreezes(x.on), now)
<1> DEFINE x == tx[t]
<1>1. /\ x.on \in Subs /\ x.on \in ScopeOf(x)
      /\ ScopeOf(x) \subseteq Subs /\ Scope(t) = ScopeOf(x)
      /\ \A s \in Subs : /\ RowOnItsWay(x, s, sub[s], freezes[s], settings, now)
                         /\ View(t, s) = Seen(x, s, sub[s])
      /\ NoticesKnown(x, sub, freezes, settings, now)
  BY OpenTxIs
<1>2. x.step # "idle" /\ x.step \notin SettleStep
  BY DEF SettleStep
<1>3. \A s \in ScopeOf(x) : HasSettled(x, s, sub[s], freezes[s], settings, now)
  BY <1>1, <1>2 DEF RowOnItsWay
<1>4. \A s \in Subs : s \notin ScopeOf(x) => Untouched(x, s) /\ s \notin x.due
  BY <1>1 DEF RowOnItsWay
<1>5. \A s \in Subs : EpisodesWith(x.shut, s) = Shut(x.shut, s, freezes[s])
  BY DEF EpisodesWith, Shut
<1>6. \A s \in Subs : s \notin ScopeOf(x) => EpisodesWith(x.shut, s) = freezes[s]
  BY <1>4, <1>5, RowsAreRows, NothingShut DEF Untouched
<1>7. ASSUME NEW s \in Subs PROVE View(t, s) = SettledSubs(Scope(t))[s]
  <2>1. CASE s \in ScopeOf(x)
    BY <1>1, <1>3, <2>1 DEF HasSettled, SettledSubs, Settled
  <2>2. CASE s \notin ScopeOf(x)
    BY <1>1, <1>4, <2>2 DEF Untouched, Seen, SettledSubs
  <2> QED
    BY <2>1, <2>2
<1>8. ASSUME ~(x.op = "cancel" /\ x.step = "write"), NEW s \in Subs
      PROVE  EpisodesWith(x.shut, s) = SettledEpisodes(Scope(t))[s]
  <2>1. CASE s \in ScopeOf(x)
    <3>1. Shut(x.shut, s, freezes[s]) = SettleFreezes(sub[s], freezes[s], now)
      BY <1>3, <1>8, <2>1 DEF HasSettled
    <3> QED
      BY <1>1, <1>5, <2>1, <3>1 DEF SettledEpisodes, SettledFreezes
  <2>2. CASE s \notin ScopeOf(x)
    BY <1>1, <1>6, <2>2 DEF SettledEpisodes
  <2> QED
    BY <2>1, <2>2
<1>9. ASSUME x.op = "cancel", x.step = "write"
      PROVE  /\ EpisodesWith(x.shut, x.on) = CloseAll(SettledFreezes(x.on), now)
             /\ \A s \in Subs \ {x.on} : EpisodesWith(x.shut, s) = freezes[s]
  <2>1. HasSettled(x, x.on, sub[x.on], freezes[x.on], settings, now)
    BY <1>1, <1>3
  <2>2. Shut(x.shut, x.on, freezes[x.on])
          = CloseAll(SettleFreezes(sub[x.on], freezes[x.on], now), now)
    BY <1>9, <2>1 DEF HasSettled
  <2>3. ScopeOf(x) = {x.on}
    BY <1>9 DEF ScopeOf
  <2> QED
    BY <1>1, <1>5, <1>6, <2>2, <2>3 DEF SettledFreezes
<1>10. inbox \cup x.notices = inbox \cup SettleNotices(Scope(t))
  <2> DEFINE soon == {<<"SUBSCRIPTION_ENDING_SOON", s>> :
                        s \in {r \in ScopeOf(x) : IsEndingSoon(Settled(r), now)}}
             told == {<<"SUBSCRIPTION_EXPIRED", s>> : s \in x.due}
             due  == {<<"SUBSCRIPTION_EXPIRED", s>> : s \in ExpiresIn(ScopeOf(x))}
  <2>1. x.notices = told \cup soon
    BY <1>1, <1>2 DEF NoticesKnown, Settled
  <2>2. SettleNotices(Scope(t)) = due \cup soon
    BY <1>1 DEF SettleNotices
  <2>3. ExpiresIn(ScopeOf(x)) \subseteq x.due
    BY <1>3 DEF ExpiresIn, HasSettled, DuesKnown
  <2>4. ASSUME NEW s \in x.due, s \notin ExpiresIn(ScopeOf(x))
        PROVE  <<"SUBSCRIPTION_EXPIRED", s>> \in inbox
    <3>1. s \in Subs /\ s \in ScopeOf(x)
      <4>1. x \in Transaction
        BY RowsAreRows
      <4>2. s \in Subs
        BY <4>1 DEF Transaction
      <4> QED
        BY <1>4, <4>2
    <3>2. SettleRow(sub[s], freezes[s], settings, now).status = "EXPIRED"
      BY <1>3, <3>1 DEF HasSettled, DuesKnown
    <3>3. ~IsDue(SettleThaw(sub[s], freezes[s], now), settings, now)
      BY <2>4, <3>1 DEF ExpiresIn
    <3>4. SettleThaw(sub[s], freezes[s], now).status = "EXPIRED"
      BY <3>2, <3>3, SettleIsFinish DEF Finish
    <3>5. sub[s].status = "EXPIRED"
      <4>1. sub[s] \in SoldPlan
        BY <3>1, RowsAreRows
      <4> QED
        BY <3>4, <4>1, ThawsOnce DEF SettleThaw
    <3>6. Announced(sub[s], s, inbox)
      BY <3>1 DEF SerInv, XInv, RowInv
    <3> QED
      BY <3>5, <3>6 DEF Announced
  <2> HIDE DEF soon
  <2> QED
    BY <2>1, <2>2, <2>3, <2>4
<1>11. View(t, x.on) = Settled(x.on)
  BY <1>1, <1>7 DEF SettledSubs
<1>12. RowOK(Settled(x.on), SettledFreezes(x.on), now)
  BY <1>1, SettledRow DEF SerInv
<1> QED
  BY <1>7, <1>8, <1>9, <1>10, <1>11, <1>12

LEMMA ReadInSeries ==
  ASSUME SerInv, SweepsOverlap, NEW t \in Sessions, Read(t)
  PROVE  InSeries
<1> DEFINE x      == tx[t]
           z      == tx'[t]
           s      == x.on
           fs     == EpisodesWith(x.shut, s)
           newest == Max({0} \cup {i \in DOMAIN fs : IsNewestOpen(fs, i)})
           row    == View(t, s)
           step   == NextStep(x.op)
<1>1. /\ x.step = "read" /\ Admits(t, row, fs) /\ UNCHANGED <<now, tables>>
      /\ tx' = [tx EXCEPT ![t].row = row, ![t].newest = newest, ![t].step = step]
  BY DEF Read
<1>2. /\ x \in Transaction /\ x.at = now /\ s \in Subs /\ s \in ScopeOf(x)
      /\ Scope(t) = ScopeOf(x)
      /\ \A r \in Subs : RowOnItsWay(x, r, sub[r], freezes[r], settings, now)
      /\ NoticesKnown(x, sub, freezes, settings, now)
      /\ x.op = "freeze" => x.days \in FreezeRequests
  <2>1. x.op = "freeze" => x.days \in FreezeRequests
    BY <1>1 DEF SerInv, AllOnTheirWay, TxOnItsWay
  <2> QED
    BY <1>1, <2>1, OpenTxIs
<1>3. /\ row = Settled(s) /\ fs = SettledFreezes(s)
      /\ RowOK(Settled(s), SettledFreezes(s), now)
  <2>1. fs = SettledEpisodes(Scope(t))[s]
    BY <1>1, <1>2, SettledTxIs
  <2> QED
    BY <1>1, <1>2, <2>1, SettledTxIs DEF SettledEpisodes
<1>4. Len(fs) = Len(freezes[s])
  <2>1. sub[s] \in SoldPlan /\ freezes[s] \in Seq(Episode) /\ now \in Time
    BY <1>2, RowsAreRows
  <2> QED
    BY <1>3, <2>1, SettledFreezesType DEF SettledFreezes
<1>5. x.op = "unfreeze" => row.status = "FROZEN" /\ newest = Len(freezes[s])
  <2> SUFFICES ASSUME x.op = "unfreeze"
               PROVE  row.status = "FROZEN" /\ newest = Len(freezes[s])
    OBVIOUS
  <2>1. row.status = "FROZEN"
    BY <1>1 DEF Admits
  <2>2. now \in Time
    BY RowsAreRows
  <2>3. newest = Len(SettledFreezes(s))
    BY <1>3, <2>1, <2>2, FrozenIsNewest
  <2> QED
    BY <1>3, <1>4, <2>1, <2>3
<1> HIDE DEF fs, newest, row
<1>6. /\ z = [x EXCEPT !.row = row, !.newest = newest, !.step = step]
      /\ \A o \in Sessions \ {t} : tx'[o] = tx[o]
  BY <1>1, RowsAreRows
<1> HIDE DEF step
<1>7. /\ z.step = step /\ z.overdue = x.overdue /\ z.due = x.due
      /\ z.held = x.held /\ z.draft = x.draft /\ z.shut = x.shut
      /\ z.op = x.op /\ z.on = x.on /\ z.at = x.at /\ z.days = x.days
      /\ z.notices = x.notices /\ z.row = row /\ z.newest = newest
  BY <1>2, <1>6 DEF Transaction
<1> HIDE DEF z
<1>8. step = CASE x.op = "visit" -> "count" [] x.op = "cancel" -> "close"
                                            [] OTHER -> "write"
  BY DEF step, NextStep
<1>9. step \notin SettleStep /\ step # "idle" /\ (x.op = "cancel" => step # "write")
  BY <1>8 DEF SettleStep
<1>10. x.step \notin SettleStep /\ (x.op = "cancel" => x.step # "write")
  BY <1>1 DEF SettleStep
<1>11. ASSUME NEW r \in Subs PROVE RowOnItsWay(z, r, sub[r], freezes[r], settings, now)
  <2>1. RowOnItsWay(x, r, sub[r], freezes[r], settings, now)
    BY <1>2
  <2> QED
    BY <1>7, <1>9, <1>10, <2>1, RowRead
<1>12. NoticesKnown(z, sub, freezes, settings, now)
  <2>1. ScopeOf(z) = ScopeOf(x)
    BY <1>7 DEF ScopeOf
  <2> QED
    BY <1>2, <1>7, <1>10, <2>1 DEF NoticesKnown
<1>13. HandlerKnows(z, sub[s], freezes[s], visits[s], settings, now)
  <2>1. z.row = SettleRow(sub[s], freezes[s], settings, now)
    BY <1>3, <1>7 DEF Settled
  <2>2. CASE x.op = "freeze"
    BY <1>1, <1>2, <1>3, <1>4, <1>7, <1>8, <2>1, <2>2
    DEF Admits, HandlerKnows, SettledFreezes
  <2>3. CASE x.op = "unfreeze"
    BY <1>5, <1>7, <1>8, <2>1, <2>3 DEF HandlerKnows
  <2>4. CASE x.op = "cancel"
    BY <1>1, <1>7, <1>8, <2>1, <2>4 DEF Admits, HandlerKnows
  <2>5. CASE x.op = "visit"
    BY <1>1, <1>2, <1>7, <1>8, <2>1, <2>5 DEF Admits, HandlerKnows
  <2> QED
    BY <1>1, <2>2, <2>3, <2>4, <2>5 DEF Admits
<1>14. TxOnItsWay(z, sub, freezes, visits, settings, now)
  BY <1>2, <1>7, <1>11, <1>12, <1>13 DEF TxOnItsWay
<1> QED
  BY <1>1, <1>6, <1>7, <1>14, OwnStepInSeries DEF z

LEMMA CountVisitsInSeries ==
  ASSUME SerInv, SweepsOverlap, NEW t \in Sessions, CountVisits(t)
  PROVE  InSeries
<1> DEFINE x == tx[t]
           z == tx'[t]
<1>1. /\ x.step = "count" /\ UNCHANGED <<now, tables>>
      /\ UnderDailyLimit(x.row, visits[x.on], x.at) /\ Len(visits[x.on]) < MaxVisits
      /\ tx' = [tx EXCEPT ![t].step = "write"]
  BY DEF CountVisits
<1>2. /\ x \in Transaction /\ x.at = now
      /\ \A r \in Subs : RowOnItsWay(x, r, sub[r], freezes[r], settings, now)
      /\ NoticesKnown(x, sub, freezes, settings, now)
      /\ HandlerKnows(x, sub[x.on], freezes[x.on], visits[x.on], settings, now)
  BY <1>1, OpenTxIs
<1>3. x.op = "visit" /\ DoorOpensFor(x.row, settings, now)
      /\ x.row = SettleRow(sub[x.on], freezes[x.on], settings, now)
  BY <1>1, <1>2 DEF HandlerKnows
<1>4. /\ z = [x EXCEPT !.step = "write"]
      /\ \A o \in Sessions \ {t} : tx'[o] = tx[o]
  BY <1>1, RowsAreRows
<1>5. /\ z.step = "write" /\ z.overdue = x.overdue /\ z.due = x.due
      /\ z.held = x.held /\ z.draft = x.draft /\ z.shut = x.shut
      /\ z.op = x.op /\ z.on = x.on /\ z.at = x.at /\ z.days = x.days
      /\ z.notices = x.notices /\ z.row = x.row /\ z.newest = x.newest
  BY <1>2, <1>4 DEF Transaction
<1> HIDE DEF z
<1>6. x.step \notin SettleStep /\ z.step \notin SettleStep
  BY <1>1, <1>5 DEF SettleStep
<1>7. ASSUME NEW r \in Subs PROVE RowOnItsWay(z, r, sub[r], freezes[r], settings, now)
  <2>1. RowOnItsWay(x, r, sub[r], freezes[r], settings, now) /\ x.op # "cancel"
    BY <1>2, <1>3
  <2> QED
    BY <1>5, <1>6, <2>1, RowRead
<1>8. NoticesKnown(z, sub, freezes, settings, now)
  <2>1. ScopeOf(z) = ScopeOf(x)
    BY <1>5 DEF ScopeOf
  <2> QED
    BY <1>2, <1>5, <1>6, <2>1 DEF NoticesKnown
<1>9. HandlerKnows(z, sub[z.on], freezes[z.on], visits[z.on], settings, now)
  BY <1>1, <1>2, <1>3, <1>5 DEF HandlerKnows
<1>10. TxOnItsWay(z, sub, freezes, visits, settings, now)
  BY <1>2, <1>3, <1>5, <1>7, <1>8, <1>9 DEF TxOnItsWay
<1> QED
  BY <1>1, <1>4, <1>5, <1>10, OwnStepInSeries DEF z

LEMMA CloseOpenInSeries ==
  ASSUME SerInv, SweepsOverlap, NEW t \in Sessions, CloseOpen(t)
  PROVE  InSeries
<1> DEFINE x   == tx[t]
           z   == tx'[t]
           s   == x.on
           gs  == Shut(x.shut, s, freezes[s])
           own == {[sub |-> s, id |-> i, at |-> now] : i \in OpenIn(gs)}
<1>1. x.step = "close" /\ UNCHANGED <<now, tables>>
  BY DEF CloseOpen
<1>2. /\ x \in Transaction /\ x.at = now /\ s \in Subs
      /\ \A r \in Subs : RowOnItsWay(x, r, sub[r], freezes[r], settings, now)
      /\ NoticesKnown(x, sub, freezes, settings, now)
      /\ HandlerKnows(x, sub[s], freezes[s], visits[s], settings, now)
  BY <1>1, OpenTxIs
<1>3. EpisodesWith(x.shut, s) = gs
  BY DEF EpisodesWith, Shut
<1> HIDE DEF gs
<1>4. tx' = [tx EXCEPT ![t].shut = x.shut \cup own, ![t].step = "write"]
  BY <1>2, <1>3, RowsAreRows DEF CloseOpen, OpenIn
<1>5. /\ x.op = "cancel" /\ MayCancel(x.row)
      /\ x.row = SettleRow(sub[s], freezes[s], settings, now)
  BY <1>1, <1>2 DEF HandlerKnows
<1>6. \A c \in own : c.sub = s
  OBVIOUS
<1>7. Shut(x.shut \cup own, s, freezes[s]) = CloseAll(gs, now)
  <2>1. freezes[s] \in Seq(Episode) /\ now \in Time /\ x.shut \in SUBSET Closing
    BY <1>2, RowsAreRows DEF Transaction
  <2> QED
    BY <2>1, ShutTheRest DEF gs
<1> HIDE DEF own
<1>8. /\ z = [x EXCEPT !.shut = x.shut \cup own, !.step = "write"]
      /\ \A o \in Sessions \ {t} : tx'[o] = tx[o]
  BY <1>4, RowsAreRows
<1>9. /\ z.step = "write" /\ z.overdue = x.overdue /\ z.due = x.due
      /\ z.held = x.held /\ z.draft = x.draft /\ z.shut = x.shut \cup own
      /\ z.op = x.op /\ z.on = x.on /\ z.at = x.at /\ z.days = x.days
      /\ z.notices = x.notices /\ z.row = x.row
  BY <1>2, <1>8 DEF Transaction
<1> HIDE DEF z
<1>10. x.step \notin SettleStep /\ z.step \notin SettleStep
  BY <1>1, <1>9 DEF SettleStep
<1>11. ScopeOf(z) = {s} /\ ScopeOf(x) = {s}
  BY <1>5, <1>9 DEF ScopeOf
<1>12. ASSUME NEW r \in Subs PROVE RowOnItsWay(z, r, sub[r], freezes[r], settings, now)
  <2>1. CASE r # s
    <3>1. Untouched(x, r) /\ r \notin x.due /\ Owed(x, r) = {}
      BY <1>2, <1>11, <2>1 DEF RowOnItsWay
    <3>2. Untouched(z, r) /\ r \notin z.due /\ Owed(z, r) = {}
      BY <1>6, <1>9, <2>1, <3>1 DEF Untouched, Owed
    <3> QED
      BY <1>11, <2>1, <3>2 DEF RowOnItsWay
  <2>2. CASE r = s
    <3>1. HasSettled(x, s, sub[s], freezes[s], settings, now)
      BY <1>2, <1>10, <1>11 DEF RowOnItsWay
    <3>2. Seen(z, s, sub[s]) = Seen(x, s, sub[s])
      BY <1>9 DEF Seen
    <3>3. gs = SettleFreezes(sub[s], freezes[s], now)
      BY <1>1, <3>1 DEF HasSettled, gs
    <3>4. Shut(z.shut, s, freezes[s])
            = CloseAll(SettleFreezes(sub[s], freezes[s], now), now)
      BY <1>7, <1>9, <3>3
    <3>5. HasSettled(z, s, sub[s], freezes[s], settings, now)
      BY <1>5, <1>9, <3>1, <3>2, <3>4 DEF HasSettled, DuesKnown
    <3> QED
      BY <1>9, <1>11, <2>2, <3>5 DEF RowOnItsWay, SettleStep
  <2> QED
    BY <2>1, <2>2
<1>13. NoticesKnown(z, sub, freezes, settings, now)
  BY <1>2, <1>9, <1>10, <1>11 DEF NoticesKnown
<1>14. HandlerKnows(z, sub[z.on], freezes[z.on], visits[z.on], settings, now)
  BY <1>5, <1>9 DEF HandlerKnows
<1>15. TxOnItsWay(z, sub, freezes, visits, settings, now)
  BY <1>2, <1>5, <1>9, <1>12, <1>13, <1>14 DEF TxOnItsWay
<1> QED
  BY <1>1, <1>8, <1>9, <1>15, OwnStepInSeries DEF z

LEMMA RollbackInSeries ==
  ASSUME SerInv, SweepsOverlap, NEW t \in Sessions, Rollback(t)
  PROVE  InSeries
<1>1. tx' = [tx EXCEPT ![t] = NoTransaction] /\ UNCHANGED <<now, tables>>
  BY DEF Rollback
<1>2. tx'[t] = NoTransaction /\ \A o \in Sessions \ {t} : tx'[o] = tx[o]
  BY <1>1, RowsAreRows
<1>3. NoTransaction.step = "idle"
  BY DEF NoTransaction, Begun
<1>4. TxOnItsWay(tx'[t], sub, freezes, visits, settings, now)
  BY <1>2, <1>3 DEF TxOnItsWay
<1> QED
  BY <1>1, <1>2, <1>3, <1>4, OwnStepInSeries

-----------------------------------------------------------------------------
(* The steps that end a transaction are those of the serial specification    *)

(* Whatever a COMMIT writes of its own plan, it settles the rest.            *)
LEMMA CommitSettles ==
  ASSUME SerInv, SweepsOverlap, NEW t \in Sessions,
         tx[t].step \notin {"idle", "overdue", "thaw", "expire"},
         NEW done, NEW newFreezes, NEW newVisits,
         Commit(t, done, newFreezes, newVisits),
         done.on = tx[t].on,
         \A r \in Subs \ {tx[t].on} : /\ r \in done.held <=> r \in tx[t].held
                                      /\ done.draft[r] = tx[t].draft[r],
         \A c : c.sub # tx[t].on => (c \in done.shut <=> c \in tx[t].shut)
  PROVE  LET s == tx[t].on IN
         /\ sub' = [SettledSubs(Scope(t)) EXCEPT
                      ![s] = IF s \in done.held THEN done.draft[s] ELSE sub[s]]
         /\ freezes' = [SettledEpisodes(Scope(t)) EXCEPT
                          ![s] = EpisodesWith(done.shut, s) \o newFreezes]
         /\ visits' = [visits EXCEPT ![s] = @ \o newVisits]
         /\ inbox' = inbox \cup done.notices
         /\ UNCHANGED <<now, shop>>
<1> DEFINE x == tx[t]
           s == x.on
<1>1. /\ \A r \in Subs : View(t, r) = SettledSubs(Scope(t))[r]
      /\ \A r \in Subs \ {s} : EpisodesWith(x.shut, r) = SettledEpisodes(Scope(t))[r]
  <2>1. CASE ~(x.op = "cancel" /\ x.step = "write")
    BY <2>1, SettledTxIs
  <2>2. CASE x.op = "cancel" /\ x.step = "write"
    <3>1. Scope(t) = {s}
      BY <2>2 DEF Scope
    <3>2. \A r \in Subs \ {s} : EpisodesWith(x.shut, r) = freezes[r]
      BY <2>2, SettledTxIs
    <3>3. \A r \in Subs \ {s} : SettledEpisodes(Scope(t))[r] = freezes[r]
      BY <3>1 DEF SettledEpisodes
    <3> QED
      BY <3>2, <3>3, SettledTxIs
  <2> QED
    BY <2>1, <2>2
<1>2. /\ sub' = [r \in Subs |-> IF r \in done.held THEN done.draft[r] ELSE sub[r]]
      /\ freezes' = [r \in Subs |-> IF r = s THEN EpisodesWith(done.shut, r) \o newFreezes
                                             ELSE EpisodesWith(done.shut, r)]
      /\ visits' = [visits EXCEPT ![s] = @ \o newVisits]
      /\ inbox' = inbox \cup done.notices
      /\ UNCHANGED <<now, shop>>
  BY DEF Commit
<1>3. ASSUME NEW r \in Subs, r # s PROVE sub'[r] = SettledSubs(Scope(t))[r]
  <2>1. sub'[r] = View(t, r)
    BY <1>2, <1>3 DEF View
  <2> QED
    BY <1>1, <2>1
<1>4. ASSUME NEW r \in Subs, r # s PROVE freezes'[r] = SettledEpisodes(Scope(t))[r]
  <2>1. Shut(done.shut, r, freezes[r]) = Shut(x.shut, r, freezes[r])
    BY <1>4, ShutAside
  <2>2. freezes'[r] = EpisodesWith(x.shut, r)
    BY <1>2, <1>4, <2>1 DEF EpisodesWith, Shut
  <2> QED
    BY <1>1, <1>4, <2>2
<1>5. s \in Subs
  BY RowsAreRows DEF Transaction
<1>6. sub' = [SettledSubs(Scope(t)) EXCEPT
                ![s] = IF s \in done.held THEN done.draft[s] ELSE sub[s]]
  BY <1>2, <1>3, <1>5 DEF SettledSubs
<1>7. freezes' = [SettledEpisodes(Scope(t)) EXCEPT
                    ![s] = EpisodesWith(done.shut, s) \o newFreezes]
  BY <1>2, <1>4, <1>5 DEF SettledEpisodes
<1> QED
  BY <1>2, <1>6, <1>7

(* Of a handler's own plan alone.                                            *)
LEMMA OnlyOwn ==
  ASSUME NEW s \in Subs, NEW row, NEW fs, SerInv
  PROVE  /\ [SettledSubs({s}) EXCEPT ![s] = row] = [sub EXCEPT ![s] = row]
         /\ [SettledEpisodes({s}) EXCEPT ![s] = fs] = [freezes EXCEPT ![s] = fs]
<1>1. sub \in [Subs -> SoldPlan] /\ freezes \in [Subs -> Seq(Episode)]
  BY DEF SerInv, XInv, TablesTyped
<1> QED
  BY <1>1 DEF SettledSubs, SettledEpisodes

LEMMA NobodyElse ==
  ASSUME SerInv, NEW t \in Sessions, tx[t].step # "idle", tx[t].op \notin {"sweep", "get"},
         tx' = [tx EXCEPT ![t] = NoTransaction]
  PROVE  OthersAlone' /\ AllOnTheirWay'
<1>1. \A o \in Sessions \ {t} : tx[o].step = "idle"
  BY DEF SerInv, OthersAlone
<1>2. NoTransaction.step = "idle"
  BY DEF NoTransaction, Begun
<1>3. \A o \in Sessions : tx'[o].step = "idle"
  BY <1>1, <1>2, RowsAreRows
<1> QED
  BY <1>3 DEF OthersAlone, AllOnTheirWay, TxOnItsWay

LEMMA EndSettleInSeries ==
  ASSUME SerInv, SweepsOverlap, NEW t \in Sessions, EndSettle(t)
  PROVE  InSeries
<1> DEFINE x     == tx[t]
           s     == x.on
           scope == Scope(t)
<1>1. /\ x.step = "read" /\ x.op \in {"sweep", "get"}
      /\ Commit(t, x, <<>>, <<>>) /\ tx' = [tx EXCEPT ![t] = NoTransaction]
  BY DEF EndSettle, Commit
<1>2. s \in Subs /\ s \in scope /\ scope \subseteq Subs
  BY <1>1, OpenTxIs
<1>3. /\ sub' = [SettledSubs(scope) EXCEPT ![s] = IF s \in x.held THEN x.draft[s] ELSE sub[s]]
      /\ freezes' = [SettledEpisodes(scope) EXCEPT ![s] = EpisodesWith(x.shut, s) \o <<>>]
      /\ visits' = [visits EXCEPT ![s] = @ \o <<>>]
      /\ inbox' = inbox \cup x.notices
      /\ UNCHANGED <<now, shop>>
  BY <1>1, CommitSettles
<1>4. /\ View(t, s) = SettledSubs(scope)[s]
      /\ EpisodesWith(x.shut, s) = SettledEpisodes(scope)[s]
      /\ inbox \cup x.notices = inbox \cup SettleNotices(scope)
  BY <1>1, <1>2, SettledTxIs
<1>5. sub' = SettledSubs(scope)
  <2>1. sub'[s] = SettledSubs(scope)[s]
    BY <1>2, <1>3, <1>4 DEF View, SettledSubs
  <2> QED
    BY <1>3, <2>1 DEF SettledSubs
<1>6. freezes' = SettledEpisodes(scope)
  <2>1. EpisodesWith(x.shut, s) \in Seq(Episode)
    <3>1. x.shut \in SUBSET Closing /\ XInv
      BY RowsAreRows DEF Transaction, SerInv
    <3> QED
      BY <1>2, <3>1, EpisodesType
  <2>2. EpisodesWith(x.shut, s) \o <<>> = SettledEpisodes(scope)[s]
    BY <1>4, <2>1, ConcatEmptySeq
  <2> QED
    BY <1>3, <2>2 DEF SettledEpisodes
<1>7. visits' = visits
  <2>1. visits \in [Subs -> Seq(Time)]
    BY DEF SerInv, XInv, TablesTyped
  <2>2. visits[s] \o <<>> = visits[s]
    BY <1>2, <2>1, ConcatEmptySeq
  <2> QED
    BY <1>3, <2>1, <2>2
<1>8. Settle(scope)
  BY <1>3, <1>4, <1>5, <1>6, <1>7 DEF Settle, shop
<1>9. Next
  <2>1. CASE x.op = "sweep"
    BY <1>8, <2>1 DEF Scope, Sweep, Next
  <2>2. CASE x.op = "get"
    BY <1>2, <1>8, <2>2 DEF Scope, Next
  <2> QED
    BY <1>1, <2>1, <2>2
<1>10. tx'[t] = NoTransaction /\ \A o \in Sessions \ {t} : tx'[o] = tx[o]
  BY <1>1, RowsAreRows
<1>11. NoTransaction.step = "idle"
  BY DEF NoTransaction, Begun
<1>12. OthersAlone'
  BY <1>10, <1>11 DEF SerInv, OthersAlone
<1>13. ASSUME NEW o \in Sessions, tx[o].step # "idle", o # t
       PROVE  TxOnItsWay(tx[o], sub', freezes', visits', settings', now')
  <2> DEFINE y == tx[o]
  <2>1. y.op \in {"sweep", "get"}
    BY <1>1, <1>13 DEF SerInv, OthersAlone
  <2>2. /\ y \in Transaction /\ y.at = now /\ y.on \in Subs /\ y.held \subseteq Subs
        /\ ScopeOf(y) \subseteq Subs
        /\ \A r \in Subs : RowOnItsWay(y, r, sub[r], freezes[r], settings, now)
        /\ \A z \in y.overdue : z[1] \in Subs /\ z[2] \in DOMAIN freezes[z[1]]
        /\ NoticesKnown(y, sub, freezes, settings, now)
        /\ HandlerKnows(y, sub[y.on], freezes[y.on], visits[y.on], settings, now)
    BY <1>13, OpenTxIs
  <2>3. /\ now \in Time /\ settings \in Settings /\ now' = now /\ settings' = settings
        /\ \A r \in Subs : RowOK(sub[r], freezes[r], now)
    BY <1>3, RowsAreRows DEF shop
  <2> HIDE DEF y
  <2>4. \A r \in Subs : \/ sub'[r] = sub[r] /\ freezes'[r] = freezes[r]
                        \/ /\ sub'[r] = SettleRow(sub[r], freezes[r], settings, now)
                           /\ freezes'[r] = SettleFreezes(sub[r], freezes[r], now)
    BY <1>5, <1>6 DEF SettledSubs, SettledEpisodes, Settled, SettledFreezes
  <2>5. ASSUME NEW r \in Subs
        PROVE  RowOnItsWay(y, r, sub'[r], freezes'[r], settings, now)
    <3>1. RowOnItsWay(y, r, sub[r], freezes[r], settings, now)
      BY <2>2
    <3>2. RowOnItsWay(y, r, SettleRow(sub[r], freezes[r], settings, now),
                      SettleFreezes(sub[r], freezes[r], now), settings, now)
      <4>1. \A z \in y.overdue : z[1] = r => z[2] \in DOMAIN freezes[r]
        BY <2>2
      <4>2. RowOK(sub[r], freezes[r], now)
        BY <2>3
      <4> QED
        BY <2>1, <2>2, <2>3, <3>1, <4>1, <4>2, RowSettles
    <3> QED
      BY <2>4, <3>1, <3>2
  <2>6. \A r \in Subs : SettleRow(sub'[r], freezes'[r], settings, now)
                          = SettleRow(sub[r], freezes[r], settings, now)
    BY <2>3, <2>4, SettledTwice
  <2>7. NoticesKnown(y, sub', freezes', settings, now)
    BY <2>2, <2>6 DEF NoticesKnown
  <2>8. HandlerKnows(y, sub'[y.on], freezes'[y.on], visits'[y.on], settings, now)
    BY <2>1, <2>2 DEF HandlerKnows
  <2>9. TxOnItsWay(y, sub', freezes', visits', settings, now)
    BY <2>1, <2>2, <2>5, <2>7, <2>8 DEF TxOnItsWay
  <2> QED
    BY <2>3, <2>9 DEF y
<1>14. AllOnTheirWay'
  <2>1. ASSUME NEW o \in Sessions
        PROVE  TxOnItsWay(tx'[o], sub', freezes', visits', settings', now')
    <3>1. CASE o = t
      BY <1>10, <1>11, <3>1 DEF TxOnItsWay
    <3>2. CASE o # t /\ tx[o].step = "idle"
      BY <1>10, <3>2 DEF TxOnItsWay
    <3>3. CASE o # t /\ tx[o].step # "idle"
      BY <1>10, <1>13, <3>3
    <3> QED
      BY <3>1, <3>2, <3>3
  <2> QED
    BY <2>1 DEF AllOnTheirWay
<1> QED
  BY <1>9, <1>12, <1>14 DEF InSeries

LEMMA WriteFreezeInSeries ==
  ASSUME SerInv, SweepsOverlap, NEW t \in Sessions, WriteFreeze(t)
  PROVE  InSeries
<1> DEFINE x    == tx[t]
           s    == x.on
           row  == [View(t, s) EXCEPT
                      !.status = "FROZEN", !.frozenAt = x.at,
                      !.freezeEndsAt = AddDays(x.at, x.days),
                      !.endsAt = AddDays(x.row.endsAt, x.days)]
           done == [x EXCEPT !.held = @ \cup {s}, !.draft[s] = row]
           f    == NewFreeze(x.at, x.days)
<1>1. /\ x.step = "write" /\ x.op = "freeze" /\ Commit(t, done, <<f>>, <<>>)
      /\ tx' = [tx EXCEPT ![t] = NoTransaction]
  BY DEF WriteFreeze, CommitRow, Commit
<1>2. /\ x \in Transaction /\ x.at = now /\ s \in Subs
      /\ HandlerKnows(x, sub[s], freezes[s], visits[s], settings, now)
  BY <1>1, OpenTxIs
<1>3. x.days \in FreezeRequests
  BY <1>1 DEF SerInv, AllOnTheirWay, TxOnItsWay
<1>4. /\ x.row = Settled(s) /\ Len(freezes[s]) < MaxFreezes
      /\ MayFreeze(Settled(s), SettledFreezes(s), settings, now, x.days)
  BY <1>1, <1>2 DEF HandlerKnows, Settled, SettledFreezes
<1>5. /\ done.on = s /\ done.held = x.held \cup {s} /\ done.shut = x.shut
      /\ done.notices = x.notices /\ done.draft = [x.draft EXCEPT ![s] = row]
  BY <1>2 DEF Transaction
<1>6. done.draft[s] = row /\ \A r \in Subs : r # s => done.draft[r] = x.draft[r]
  BY <1>2, <1>5 DEF Transaction
<1>7. /\ View(t, s) = Settled(s) /\ RowOK(Settled(s), SettledFreezes(s), now)
      /\ inbox \cup x.notices = inbox \cup SettleNotices({s})
      /\ EpisodesWith(x.shut, s) = SettledFreezes(s) /\ Scope(t) = {s}
  <2>1. Scope(t) = {s}
    BY <1>1 DEF Scope
  <2> QED
    BY <1>1, <1>2, <2>1, SettledTxIs DEF SettledEpisodes
<1>8. row = FreezeRow(Settled(s), now, x.days)
  BY <1>2, <1>4, <1>7 DEF FreezeRow, RowOK, SoldPlan
<1> HIDE DEF done, row, f
<1>9. /\ sub' = [SettledSubs({s}) EXCEPT ![s] = row]
      /\ freezes' = [SettledEpisodes({s}) EXCEPT ![s] = SettledFreezes(s) \o <<f>>]
      /\ visits' = [visits EXCEPT ![s] = @ \o <<>>]
      /\ inbox' = inbox \cup SettleNotices({s})
      /\ UNCHANGED <<now, shop>>
  <2>1. \A r \in Subs \ {s} : /\ r \in done.held <=> r \in x.held
                              /\ done.draft[r] = x.draft[r]
    BY <1>5, <1>6
  <2>2. \A c : c.sub # s => (c \in done.shut <=> c \in x.shut)
    BY <1>5
  <2>3. s \in done.held /\ done.draft[s] = row
    BY <1>5, <1>6
  <2>4. LET r == tx[t].on IN
        /\ sub' = [SettledSubs(Scope(t)) EXCEPT
                     ![r] = IF r \in done.held THEN done.draft[r] ELSE sub[r]]
        /\ freezes' = [SettledEpisodes(Scope(t)) EXCEPT
                         ![r] = EpisodesWith(done.shut, r) \o <<f>>]
        /\ visits' = [visits EXCEPT ![r] = @ \o <<>>]
        /\ inbox' = inbox \cup done.notices
        /\ UNCHANGED <<now, shop>>
    BY <1>1, <1>5, <2>1, <2>2, CommitSettles
  <2> QED
    BY <1>5, <1>7, <2>3, <2>4
<1>10. visits' = visits
  <2>1. visits \in [Subs -> Seq(Time)]
    BY DEF SerInv, XInv, TablesTyped
  <2>2. visits[s] \o <<>> = visits[s]
    BY <1>2, <2>1, ConcatEmptySeq
  <2> QED
    BY <1>9, <2>1, <2>2
<1>11. SettledFreezes(s) \o <<f>> = Append(SettledFreezes(s), NewFreeze(now, x.days))
  <2>1. SettledFreezes(s) \in Seq(Episode) /\ f = NewFreeze(now, x.days)
    BY <1>2, <1>7 DEF RowOK, f
  <2>2. f \in Episode
    <3>1. x.days \in Nat \ {0} /\ now \in Time
      BY <1>3, SoldPlansAssumption, RowsAreRows
    <3> QED
      BY <2>1, <3>1, DaysAreTicks DEF NewFreeze, Episode
  <2> QED
    BY <2>1, <2>2, AppendIsConcat
<1>12. Freeze(s, x.days)
  <2> HIDE DEF x, s
  <2>1. sub' = [sub EXCEPT ![s] = FreezeRow(Settled(s), now, x.days)]
    <3>1. sub' = [sub EXCEPT ![s] = row]
      BY <1>2, <1>9, OnlyOwn
    <3> QED
      BY <1>8, <3>1
  <2>2. freezes' = [freezes EXCEPT ![s] = Append(SettledFreezes(s), NewFreeze(now, x.days))]
    <3>1. freezes' = [freezes EXCEPT ![s] = SettledFreezes(s) \o <<f>>]
      BY <1>2, <1>9, OnlyOwn
    <3> QED
      BY <1>11, <3>1
  <2> QED
    BY <1>4, <1>9, <1>10, <2>1, <2>2 DEF Freeze
<1>13. OthersAlone' /\ AllOnTheirWay'
  BY <1>1, NobodyElse
<1> QED
  BY <1>2, <1>3, <1>12, <1>13 DEF InSeries, Next

LEMMA WriteUnfreezeInSeries ==
  ASSUME SerInv, SweepsOverlap, NEW t \in Sessions, WriteUnfreeze(t)
  PROVE  InSeries
<1> DEFINE x    == tx[t]
           s    == x.on
           own  == IF x.newest = 0 THEN {}
                   ELSE {[sub |-> s, id |-> x.newest, at |-> x.at]}
           row  == [ThawRow(View(t, s)) EXCEPT !.endsAt = UnfreezeRow(x.row, x.at).endsAt]
           done == [x EXCEPT !.held = @ \cup {s}, !.draft[s] = row, !.shut = @ \cup own]
<1>1. /\ x.step = "write" /\ x.op = "unfreeze" /\ Commit(t, done, <<>>, <<>>)
      /\ tx' = [tx EXCEPT ![t] = NoTransaction]
  BY DEF WriteUnfreeze, Commit
<1>2. /\ x \in Transaction /\ x.at = now /\ s \in Subs
      /\ HandlerKnows(x, sub[s], freezes[s], visits[s], settings, now)
  BY <1>1, OpenTxIs
<1>3. /\ x.row = Settled(s) /\ x.row.status = "FROZEN" /\ x.newest = Len(freezes[s])
  BY <1>1, <1>2 DEF HandlerKnows, Settled
<1>4. /\ View(t, s) = Settled(s) /\ RowOK(Settled(s), SettledFreezes(s), now)
      /\ inbox \cup x.notices = inbox \cup SettleNotices({s})
      /\ EpisodesWith(x.shut, s) = SettledFreezes(s) /\ Scope(t) = {s}
  <2>1. Scope(t) = {s}
    BY <1>1 DEF Scope
  <2> QED
    BY <1>1, <1>2, <2>1, SettledTxIs DEF SettledEpisodes
<1>5. row = UnfreezeRow(Settled(s), now)
  <2>1. Settled(s) \in SoldPlan
    BY <1>4 DEF RowOK
  <2> DEFINE thawed == ThawRow(Settled(s))
             u      == UnusedFreeze(Settled(s), now)
  <2>2. thawed \in SoldPlan
    BY <2>1, ThawsOnce
  <2> HIDE DEF thawed, u
  <2>3. UnfreezeRow(Settled(s), now) = [thawed EXCEPT !.endsAt = @ - u]
    BY DEF UnfreezeRow, thawed, u
  <2>4. [thawed EXCEPT !.endsAt = @ - u].endsAt = thawed.endsAt - u
    BY <2>2 DEF SoldPlan
  <2>5. row = [thawed EXCEPT !.endsAt = thawed.endsAt - u]
    BY <1>2, <1>3, <1>4, <2>3, <2>4 DEF thawed
  <2> QED
    BY <2>3, <2>5
<1>6. /\ done.on = s /\ done.held = x.held \cup {s} /\ done.shut = x.shut \cup own
      /\ done.notices = x.notices /\ done.draft = [x.draft EXCEPT ![s] = row]
  BY <1>2 DEF Transaction
<1>7. done.draft[s] = row /\ \A r \in Subs : r # s => done.draft[r] = x.draft[r]
  BY <1>2, <1>6 DEF Transaction
<1>8. EpisodesWith(done.shut, s) = CloseNewest(SettledFreezes(s), now)
  <2> DEFINE gs == SettledFreezes(s)
  <2>1. /\ gs = Shut(x.shut, s, freezes[s]) /\ freezes[s] \in Seq(Episode)
        /\ sub[s] \in SoldPlan /\ now \in Time /\ x.shut \in SUBSET Closing
    BY <1>2, <1>4, RowsAreRows DEF EpisodesWith, Shut, Transaction
  <2>2. Len(gs) = Len(freezes[s])
    BY <2>1, SettledFreezesType DEF SettledFreezes
  <2>3. /\ OpenIn(gs) = {Len(gs)} /\ Len(gs) # 0
        /\ CloseNewest(gs, now) = CloseAll(gs, now)
    <3>1. RowOK(Settled(s), gs, now) /\ Settled(s).status = "FROZEN"
      BY <1>3, <1>4
    <3> HIDE DEF gs, x, s
    <3> QED
      BY <2>1, <3>1, FrozenIsNewest
  <2> HIDE DEF gs
  <2>4. own = {[sub |-> s, id |-> i, at |-> now] : i \in OpenIn(gs)}
    BY <1>2, <1>3, <2>2, <2>3
  <2>5. Shut(x.shut \cup {[sub |-> s, id |-> i, at |-> now] :
                             i \in OpenIn(Shut(x.shut, s, freezes[s]))}, s, freezes[s])
          = CloseAll(Shut(x.shut, s, freezes[s]), now)
    BY <2>1, ShutTheRest
  <2>6. Shut(done.shut, s, freezes[s]) = CloseAll(gs, now)
    BY <1>6, <2>1, <2>4, <2>5
  <2>7. EpisodesWith(done.shut, s) = Shut(done.shut, s, freezes[s])
    BY DEF EpisodesWith, Shut
  <2> QED
    BY <2>3, <2>6, <2>7 DEF gs
<1>9. \A c \in own : c.sub = s
  OBVIOUS
<1> HIDE DEF done, row, own
<1>10. /\ sub' = [SettledSubs({s}) EXCEPT ![s] = row]
       /\ freezes' = [SettledEpisodes({s}) EXCEPT ![s] = EpisodesWith(done.shut, s) \o <<>>]
       /\ visits' = [visits EXCEPT ![s] = @ \o <<>>]
       /\ inbox' = inbox \cup SettleNotices({s})
       /\ UNCHANGED <<now, shop>>
  <2>1. \A r \in Subs \ {s} : /\ r \in done.held <=> r \in x.held
                              /\ done.draft[r] = x.draft[r]
    BY <1>6, <1>7
  <2>2. \A c : c.sub # s => (c \in done.shut <=> c \in x.shut)
    BY <1>6, <1>9
  <2>3. s \in done.held /\ done.draft[s] = row
    BY <1>6, <1>7
  <2>4. LET r == tx[t].on IN
        /\ sub' = [SettledSubs(Scope(t)) EXCEPT
                     ![r] = IF r \in done.held THEN done.draft[r] ELSE sub[r]]
        /\ freezes' = [SettledEpisodes(Scope(t)) EXCEPT
                         ![r] = EpisodesWith(done.shut, r) \o <<>>]
        /\ visits' = [visits EXCEPT ![r] = @ \o <<>>]
        /\ inbox' = inbox \cup done.notices
        /\ UNCHANGED <<now, shop>>
    BY <1>1, <1>6, <2>1, <2>2, CommitSettles
  <2> QED
    BY <1>4, <1>6, <2>3, <2>4
<1>11. visits' = visits
  <2>1. visits \in [Subs -> Seq(Time)]
    BY DEF SerInv, XInv, TablesTyped
  <2>2. visits[s] \o <<>> = visits[s]
    BY <1>2, <2>1, ConcatEmptySeq
  <2> QED
    BY <1>10, <2>1, <2>2
<1>12. freezes' = [freezes EXCEPT ![s] = CloseNewest(SettledFreezes(s), now)]
  <2>1. XInv /\ done.shut \in SUBSET Closing
    <3>1. x.shut \in SUBSET Closing /\ x.newest \in Nat /\ now \in Time
      BY <1>2, RowsAreRows DEF Transaction
    <3> QED
      BY <1>2, <1>6, <3>1 DEF own, Closing, SerInv
  <2>2. EpisodesWith(done.shut, s) \in Seq(Episode)
    BY <1>2, <2>1, EpisodesType
  <2>3. EpisodesWith(done.shut, s) \o <<>> = EpisodesWith(done.shut, s)
    BY <2>2, ConcatEmptySeq
  <2> DEFINE closed == CloseNewest(SettledFreezes(s), now)
  <2>4. freezes' = [SettledEpisodes({s}) EXCEPT ![s] = closed]
    BY <1>8, <1>10, <2>3
  <2> HIDE DEF x, s, closed
  <2>5. freezes' = [freezes EXCEPT ![s] = closed]
    BY <1>2, <2>4, OnlyOwn
  <2> QED
    BY <2>5 DEF closed
<1>13. sub' = [sub EXCEPT ![s] = UnfreezeRow(Settled(s), now)]
  BY <1>2, <1>5, <1>10, OnlyOwn
<1>14. Unfreeze(s)
  BY <1>3, <1>10, <1>11, <1>12, <1>13 DEF Unfreeze
<1>15. OthersAlone' /\ AllOnTheirWay'
  BY <1>1, NobodyElse
<1> QED
  BY <1>2, <1>14, <1>15 DEF InSeries, Next

LEMMA WriteCancelInSeries ==
  ASSUME SerInv, SweepsOverlap, NEW t \in Sessions, WriteCancel(t)
  PROVE  InSeries
<1> DEFINE x    == tx[t]
           s    == x.on
           row  == CancelRow(View(t, s))
           done == [x EXCEPT !.held = @ \cup {s}, !.draft[s] = row]
<1>1. /\ x.step = "write" /\ x.op = "cancel" /\ Commit(t, done, <<>>, <<>>)
      /\ tx' = [tx EXCEPT ![t] = NoTransaction]
  BY DEF WriteCancel, CommitRow, Commit
<1>2. /\ x \in Transaction /\ s \in Subs
      /\ HandlerKnows(x, sub[s], freezes[s], visits[s], settings, now)
  BY <1>1, OpenTxIs
<1>3. MayCancel(Settled(s))
  BY <1>1, <1>2 DEF HandlerKnows, Settled
<1>4. /\ View(t, s) = Settled(s)
      /\ inbox \cup x.notices = inbox \cup SettleNotices({s})
      /\ EpisodesWith(x.shut, s) = CloseAll(SettledFreezes(s), now) /\ Scope(t) = {s}
  <2>1. Scope(t) = {s}
    BY <1>1 DEF Scope
  <2> QED
    BY <1>1, <2>1, SettledTxIs
<1>5. /\ done.on = s /\ done.held = x.held \cup {s} /\ done.shut = x.shut
      /\ done.notices = x.notices /\ done.draft = [x.draft EXCEPT ![s] = row]
  BY <1>2 DEF Transaction
<1>6. done.draft[s] = row /\ \A r \in Subs : r # s => done.draft[r] = x.draft[r]
  BY <1>2, <1>5 DEF Transaction
<1> HIDE DEF done, row
<1>7. /\ sub' = [SettledSubs({s}) EXCEPT ![s] = row]
      /\ freezes' = [SettledEpisodes({s}) EXCEPT ![s] = EpisodesWith(x.shut, s) \o <<>>]
      /\ visits' = [visits EXCEPT ![s] = @ \o <<>>]
      /\ inbox' = inbox \cup SettleNotices({s})
      /\ UNCHANGED <<now, shop>>
  <2>1. \A r \in Subs \ {s} : /\ r \in done.held <=> r \in x.held
                              /\ done.draft[r] = x.draft[r]
    BY <1>5, <1>6
  <2>2. \A c : c.sub # s => (c \in done.shut <=> c \in x.shut)
    BY <1>5
  <2>3. s \in done.held /\ done.draft[s] = row
    BY <1>5, <1>6
  <2>4. LET r == tx[t].on IN
        /\ sub' = [SettledSubs(Scope(t)) EXCEPT
                     ![r] = IF r \in done.held THEN done.draft[r] ELSE sub[r]]
        /\ freezes' = [SettledEpisodes(Scope(t)) EXCEPT
                         ![r] = EpisodesWith(done.shut, r) \o <<>>]
        /\ visits' = [visits EXCEPT ![r] = @ \o <<>>]
        /\ inbox' = inbox \cup done.notices
        /\ UNCHANGED <<now, shop>>
    BY <1>1, <1>5, <2>1, <2>2, CommitSettles
  <2> QED
    BY <1>4, <1>5, <2>3, <2>4
<1>8. visits' = visits
  <2>1. visits \in [Subs -> Seq(Time)]
    BY DEF SerInv, XInv, TablesTyped
  <2>2. visits[s] \o <<>> = visits[s]
    BY <1>2, <2>1, ConcatEmptySeq
  <2> QED
    BY <1>7, <2>1, <2>2
<1>9. freezes' = [freezes EXCEPT ![s] = CloseAll(SettledFreezes(s), now)]
  <2>1. XInv /\ x.shut \in SUBSET Closing
    BY <1>2 DEF Transaction, SerInv
  <2>2. EpisodesWith(x.shut, s) \in Seq(Episode)
    BY <1>2, <2>1, EpisodesType
  <2>3. EpisodesWith(x.shut, s) \o <<>> = EpisodesWith(x.shut, s)
    BY <2>2, ConcatEmptySeq
  <2> QED
    BY <1>2, <1>4, <1>7, <2>3, OnlyOwn
<1>10. sub' = [sub EXCEPT ![s] = CancelRow(Settled(s))]
  BY <1>2, <1>4, <1>7, OnlyOwn DEF row
<1>11. Cancel(s)
  BY <1>3, <1>7, <1>8, <1>9, <1>10 DEF Cancel
<1>12. OthersAlone' /\ AllOnTheirWay'
  BY <1>1, NobodyElse
<1> QED
  BY <1>2, <1>11, <1>12 DEF InSeries, Next

(* An admitted visit computes what it writes from the row as it stands.      *)
LEMMA VisitWritesRow ==
  ASSUME NEW row \in SoldPlan, NEW n
  PROVE  VisitWrites(row, row, n) = VisitRow(row, settings, n)
<1> DEFINE graced == [row EXCEPT !.status = "IN_GRACE", !.graceUsedAt = n,
                        !.graceEndsAt = AddDays(row.endsAt, GraceDays(settings))]
           entered == VisitRow(row, settings, n)
           g0 == IF OpensGrace(row) THEN graced ELSE row
<1>1. /\ graced.status = "IN_GRACE" /\ graced.graceUsedAt = n
      /\ graced.graceEndsAt = AddDays(row.endsAt, GraceDays(settings))
      /\ graced.sessionsRemaining = row.sessionsRemaining
  BY DEF SoldPlan
<1>2. entered = IF row.sessionsRemaining = Null THEN g0
                ELSE [g0 EXCEPT !.sessionsRemaining = @ - 1]
  BY DEF VisitRow
<1>3. OpensGrace(row) => /\ entered.graceUsedAt = graced.graceUsedAt
                         /\ entered.graceEndsAt = graced.graceEndsAt
  BY <1>2 DEF SoldPlan
<1>4. row.sessionsRemaining # Null =>
        /\ entered = [g0 EXCEPT !.sessionsRemaining = row.sessionsRemaining - 1]
        /\ entered.sessionsRemaining = row.sessionsRemaining - 1
  BY <1>1, <1>2 DEF SoldPlan
<1>5. VisitWrites(row, row, n)
        = IF row.sessionsRemaining = Null THEN g0
          ELSE [g0 EXCEPT !.sessionsRemaining = entered.sessionsRemaining]
  BY <1>1, <1>3 DEF VisitWrites
<1> QED
  BY <1>2, <1>4, <1>5

LEMMA WriteVisitInSeries ==
  ASSUME SerInv, SweepsOverlap, NEW t \in Sessions, WriteVisit(t)
  PROVE  InSeries
<1> DEFINE x      == tx[t]
           s      == x.on
           row    == VisitWrites(View(t, s), x.row, x.at)
           writes == OpensGrace(x.row) \/ x.row.sessionsRemaining # Null
           notice == {n \in {<<"SUBSCRIPTION_IN_GRACE", s>>} : OpensGrace(x.row)}
           done   == [x EXCEPT !.held = IF writes THEN @ \cup {s} ELSE @,
                               !.draft[s] = row, !.notices = @ \cup notice]
<1>1. /\ x.step = "write" /\ x.op = "visit" /\ Commit(t, done, <<>>, <<x.at>>)
      /\ tx' = [tx EXCEPT ![t] = NoTransaction]
  BY DEF WriteVisit, Commit
<1>2. /\ x \in Transaction /\ x.at = now /\ s \in Subs
      /\ HandlerKnows(x, sub[s], freezes[s], visits[s], settings, now)
  BY <1>1, OpenTxIs
<1>3. /\ x.row = Settled(s) /\ DoorOpensFor(Settled(s), settings, now)
      /\ UnderDailyLimit(Settled(s), visits[s], now) /\ Len(visits[s]) < MaxVisits
  BY <1>1, <1>2 DEF HandlerKnows, Settled
<1>4. /\ View(t, s) = Settled(s) /\ RowOK(Settled(s), SettledFreezes(s), now)
      /\ inbox \cup x.notices = inbox \cup SettleNotices(Subs)
      /\ EpisodesWith(x.shut, s) = SettledEpisodes(Subs)[s] /\ Scope(t) = Subs
  <2>1. Scope(t) = Subs
    BY <1>1 DEF Scope
  <2> QED
    BY <1>1, <1>2, <2>1, SettledTxIs
<1>5. row = VisitRow(Settled(s), settings, now)
  <2>1. Settled(s) \in SoldPlan
    BY <1>4 DEF RowOK
  <2> QED
    BY <1>2, <1>3, <1>4, <2>1, VisitWritesRow
<1>6. ~writes => row = Settled(s)
  BY <1>3, <1>5 DEF VisitRow
<1> HIDE DEF writes, notice
<1>7. /\ done.on = s /\ done.held = (IF writes THEN x.held \cup {s} ELSE x.held)
      /\ done.shut = x.shut /\ done.notices = x.notices \cup notice
      /\ done.draft = [x.draft EXCEPT ![s] = row]
  BY <1>2 DEF Transaction
<1>8. done.draft[s] = row /\ \A r \in Subs : r # s => done.draft[r] = x.draft[r]
  BY <1>2, <1>7 DEF Transaction
<1>9. row = IF s \in done.held THEN done.draft[s] ELSE sub[s]
  <2>1. CASE s \in done.held
    BY <1>8, <2>1
  <2>2. CASE s \notin done.held
    <3>1. ~writes /\ s \notin x.held
      BY <1>7, <2>2
    <3>2. View(t, s) = sub[s]
      BY <3>1 DEF View
    <3> QED
      BY <1>4, <1>6, <2>2, <3>1, <3>2
  <2> QED
    BY <2>1, <2>2
<1> HIDE DEF done, row
<1>10. /\ sub' = [SettledSubs(Subs) EXCEPT ![s] = row]
       /\ freezes' = [SettledEpisodes(Subs) EXCEPT ![s] = SettledEpisodes(Subs)[s] \o <<>>]
       /\ visits' = [visits EXCEPT ![s] = @ \o <<now>>]
       /\ inbox' = inbox \cup (x.notices \cup notice)
       /\ UNCHANGED <<now, shop>>
  <2>1. \A r \in Subs \ {s} : /\ r \in done.held <=> r \in x.held
                              /\ done.draft[r] = x.draft[r]
    BY <1>7, <1>8
  <2>2. \A c : c.sub # s => (c \in done.shut <=> c \in x.shut)
    BY <1>7
  <2>3. LET r == tx[t].on IN
        /\ sub' = [SettledSubs(Scope(t)) EXCEPT
                     ![r] = IF r \in done.held THEN done.draft[r] ELSE sub[r]]
        /\ freezes' = [SettledEpisodes(Scope(t)) EXCEPT
                         ![r] = EpisodesWith(done.shut, r) \o <<>>]
        /\ visits' = [visits EXCEPT ![r] = @ \o <<x.at>>]
        /\ inbox' = inbox \cup done.notices
        /\ UNCHANGED <<now, shop>>
    <3> DEFINE at == <<x.at>>
    <3>1. Commit(t, done, <<>>, at) /\ done.on = tx[t].on
      BY <1>1, <1>7
    <3>2. tx[t].step \notin {"idle", "overdue", "thaw", "expire"}
      BY <1>1
    <3> HIDE DEF at
    <3>3. LET r == tx[t].on IN
          /\ sub' = [SettledSubs(Scope(t)) EXCEPT
                       ![r] = IF r \in done.held THEN done.draft[r] ELSE sub[r]]
          /\ freezes' = [SettledEpisodes(Scope(t)) EXCEPT
                           ![r] = EpisodesWith(done.shut, r) \o <<>>]
          /\ visits' = [visits EXCEPT ![r] = @ \o at]
          /\ inbox' = inbox \cup done.notices
          /\ UNCHANGED <<now, shop>>
      BY <2>1, <2>2, <3>1, <3>2, CommitSettles
    <3> QED
      BY <3>3 DEF at
  <2> QED
    BY <1>2, <1>4, <1>7, <1>9, <2>3
<1>11. freezes' = SettledEpisodes(Subs)
  <2>1. SettledEpisodes(Subs)[s] = SettledFreezes(s) /\ SettledFreezes(s) \in Seq(Episode)
    BY <1>2, <1>4 DEF SettledEpisodes, RowOK
  <2>2. SettledEpisodes(Subs)[s] \o <<>> = SettledEpisodes(Subs)[s]
    BY <2>1, ConcatEmptySeq
  <2> QED
    BY <1>10, <2>2 DEF SettledEpisodes
<1>12. visits' = [visits EXCEPT ![s] = Append(@, now)]
  <2>1. visits \in [Subs -> Seq(Time)] /\ now \in Time
    BY RowsAreRows DEF SerInv, XInv, TablesTyped
  <2>2. visits[s] \o <<now>> = Append(visits[s], now)
    BY <1>2, <2>1, AppendIsConcat
  <2> QED
    BY <1>10, <2>2
<1>13. sub' = [SettledSubs(Subs) EXCEPT ![s] = VisitRow(@, settings, now)]
  BY <1>2, <1>5, <1>10 DEF SettledSubs
<1>14. inbox' = inbox \cup SettleNotices(Subs) \cup
                  {n \in {<<"SUBSCRIPTION_IN_GRACE", s>>} : OpensGrace(Settled(s))}
  BY <1>3, <1>4, <1>10 DEF notice
<1>15. ~IsFresh(s) /\ memberStatus[sub[s].member] = "ACTIVE"
  <2>1. sub[s].status # "UNSOLD"
    BY <1>1 DEF SerInv, XInv, TxInv, OpenInv
  <2>2. sub[s].member \in Members
    BY <1>2, <2>1, RowsAreRows DEF RowOK, InOrder
  <2> QED
    BY <2>1, <2>2 DEF IsFresh, SerInv, ShopKept
<1>16. Visit(s)
  BY <1>3, <1>10, <1>11, <1>12, <1>13, <1>14, <1>15 DEF Visit
<1>17. OthersAlone' /\ AllOnTheirWay'
  BY <1>1, NobodyElse
<1> QED
  BY <1>2, <1>16, <1>17 DEF InSeries, Next

(* Sales and ticks find no transaction open.                                 *)
LEMMA NobodyInSeries ==
  ASSUME SerInv, SweepsOverlap,
         \/ TickTx
         \/ \E s \in Subs, m \in Members, p \in Plans : CreateTx(s, m, p)
  PROVE  InSeries
<1>1. tx' = tx
  BY DEF TickTx, CreateTx
<1>2. \A o \in Sessions : tx[o].step = "idle"
  <2>1. CASE TickTx
    <3> SUFFICES ASSUME NEW o \in Sessions, tx[o].step # "idle" PROVE FALSE
      OBVIOUS
    <3>1. now < tx[o].at + TxTime /\ TxTime = 0
      BY <2>1 DEF TickTx, SweepsOverlap
    <3>2. tx[o].at = now /\ now \in Nat
      BY OpenTxIs, RowsAreRows DEF Time
    <3> QED
      BY <3>1, <3>2
  <2>2. CASE \E s \in Subs, m \in Members, p \in Plans : CreateTx(s, m, p)
    <3>1. MayOverlap("create")
      BY <2>2 DEF CreateTx
    <3> QED
      BY <3>1 DEF MayOverlap, SweepsOverlap
  <2> QED
    BY <2>1, <2>2
<1>3. Next
  BY DEF TickTx, CreateTx, Next
<1>4. OthersAlone' /\ AllOnTheirWay'
  BY <1>1, <1>2 DEF OthersAlone, AllOnTheirWay, TxOnItsWay
<1> QED
  BY <1>3, <1>4 DEF InSeries

LEMMA StepInSeries ==
  ASSUME SerInv, SweepsOverlap, [TxNext]_txVars
  PROVE  InSeries
<1>1. CASE TxNext
  <2>1. CASE TickTx \/ \E s \in Subs, m \in Members, p \in Plans : CreateTx(s, m, p)
    BY <2>1, NobodyInSeries
  <2>2. ASSUME NEW t \in Sessions,
               \E op \in Ops, s \in Subs : \E days \in DaysFor(op) :
                 Begin(t, op, s, days)
        PROVE  InSeries
    BY <2>2, BeginInSeries
  <2>3. ASSUME NEW t \in Sessions,
               \/ SelectOverdue(t) \/ Thaw(t) \/ SelectDue(t) \/ Expire(t)
               \/ EndSettle(t) \/ Read(t)
        PROVE  InSeries
    BY <2>3, SelectOverdueInSeries, ThawInSeries, SelectDueInSeries, ExpireInSeries,
       EndSettleInSeries, ReadInSeries
  <2>4. ASSUME NEW t \in Sessions,
               \/ WriteFreeze(t) \/ WriteUnfreeze(t)
               \/ CloseOpen(t) \/ WriteCancel(t)
               \/ CountVisits(t) \/ WriteVisit(t) \/ Rollback(t)
        PROVE  InSeries
    BY <2>4, WriteFreezeInSeries, WriteUnfreezeInSeries, CloseOpenInSeries,
       WriteCancelInSeries, CountVisitsInSeries, WriteVisitInSeries, RollbackInSeries
  <2> QED
    BY <1>1, <2>1, <2>2, <2>3, <2>4 DEF TxNext
<1>2. CASE UNCHANGED txVars
  <2>1. UNCHANGED vars /\ tx' = tx
    BY <1>2 DEF txVars, tables, shop, vars
  <2>2. OthersAlone' /\ AllOnTheirWay'
    BY <2>1 DEF SerInv, OthersAlone, AllOnTheirWay, vars
  <2> QED
    BY <2>1, <2>2 DEF InSeries
<1> QED
  BY <1>1, <1>2

(* Sweeps and reads that overlap without a tick, and one handler at a time,  *)
(* change the tables as the same transactions do one after the other: every  *)
(* step of SoldPlansTx is a step of SoldPlans or leaves the tables alone.    *)
THEOREM SweepsAreSerial == ASSUME SweepsOverlap PROVE TxSpec => ImplementsSerial
<1>1. TxInit => Init /\ SerInv
  <2> SUFFICES ASSUME TxInit PROVE Init /\ SerInv
    OBVIOUS
  <2>1. Init /\ XInv /\ ShopKept
    BY InitIsSound DEF TxInit, Init, ShopKept
  <2>2. IInv
    BY <2>1, InvInit
  <2>3. \A t \in Sessions : tx[t].step = "idle"
    BY DEF TxInit, NoTransaction, Begun
  <2>4. OthersAlone /\ AllOnTheirWay
    BY <2>3 DEF OthersAlone, AllOnTheirWay, TxOnItsWay
  <2> QED
    BY <2>1, <2>2, <2>4 DEF SerInv
<1>2. SerInv /\ [TxNext]_txVars => SerInv' /\ [Next]_vars
  <2> SUFFICES ASSUME SerInv, [TxNext]_txVars PROVE SerInv' /\ [Next]_vars
    OBVIOUS
  <2>1. InSeries
    BY StepInSeries
  <2>2. [Next]_vars /\ OthersAlone' /\ AllOnTheirWay'
    BY <2>1 DEF InSeries
  <2>3. IInv'
    BY <2>2, InvNext DEF SerInv
  <2>4. XInv' /\ ShopKept'
    BY NextKeeps, ShopStays DEF SerInv, ShopKept
  <2> QED
    BY <2>2, <2>3, <2>4 DEF SerInv
<1> QED
  BY <1>1, <1>2, PTL DEF TxSpec, ImplementsSerial, Spec

(* So what holds of SoldPlans holds of them: the paid time is kept, every    *)
(* visit was paid for and is accounted for, the inbox tells the truth, and   *)
(* no sweep reverses a cancel.                                               *)
THEOREM SweepsKeepPromises ==
  ASSUME SweepsOverlap
  PROVE  TxSpec => /\ PaidTimeIsKept /\ CancelledIsFinal
                   /\ [](VisitsArePaidFor /\ VisitsAreAccounted /\ InboxTellsTheTruth)
<1>1. TxSpec => Spec
  BY SweepsAreSerial DEF ImplementsSerial
<1> QED
  BY <1>1, PaidTimeKept, CancelIsFinal, EveryVisitWasPaidFor, EveryVisitIsAccounted,
     InboxIsTrue, PTL
=============================================================================
