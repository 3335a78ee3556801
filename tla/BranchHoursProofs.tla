-------------------------- MODULE BranchHoursProofs --------------------------
(* Theorems about BranchHours, for every day and week length, timetable and  *)
(* list of exceptions, and for every zone east of Greenwich whose clocks     *)
(* change at midnight.                                                       *)
EXTENDS BranchHours, SequenceTheorems, TLAPS

-----------------------------------------------------------------------------
(* Days and the units in them *)

LEMMA DivMod ==
  ASSUME NEW x \in Int, NEW n \in Int, n > 0
  PROVE  /\ x \div n \in Int /\ x % n \in 0 .. n - 1
         /\ x = (x \div n) * n + (x % n)
  OBVIOUS

LEMMA ProductsGrow ==
  ASSUME NEW n \in Int, n > 0, NEW c \in Int, NEW d \in Int, c < d
  PROVE  c * n + n <= d * n
<1>1. (d - c - 1) \in Nat
  OBVIOUS
<1>2. (d - c - 1) * n \in Nat
  BY <1>1
<1>3. d * n = c * n + n + (d - c - 1) * n
  OBVIOUS
<1> QED
  BY <1>2, <1>3

(* A date has come when the clock shows its midnight or later.               *)
LEMMA DateHasCome ==
  ASSUME NEW n \in Int, n > 0, NEW d \in Int, NEW l \in Int
  PROVE  d * n <= l <=> d <= l \div n
<1> DEFINE q  == l \div n
           r  == l % n
           qn == q * n
           dn == d * n
<1>1. q \in Int /\ r \in Int /\ 0 <= r /\ r < n /\ l = qn + r
  BY DivMod
<1>2. dn \in Int /\ qn \in Int
  BY <1>1
<1>3. /\ d = q => dn = qn
      /\ d < q => dn + n <= qn
      /\ q < d => qn + n <= dn
  BY <1>1, ProductsGrow
<1> HIDE DEF q, r, qn, dn
<1>4. dn <= l <=> d <= q
  BY <1>1, <1>2, <1>3
<1> QED
  BY <1>4 DEF dn, q

LEMMA RemainderIsUnique ==
  ASSUME NEW n \in Int, n > 0, NEW x \in Int, NEW q \in Int, NEW r \in Int,
         0 <= r, r < n, x = q * n + r
  PROVE  x % n = r
<1> DEFINE p  == x \div n
           m  == x % n
           pn == p * n
           qn == q * n
<1>1. p \in Int /\ m \in Int /\ 0 <= m /\ m < n /\ x = pn + m
  BY DivMod
<1>2. pn \in Int /\ qn \in Int
  BY <1>1
<1>3. /\ p < q => pn + n <= qn
      /\ q < p => qn + n <= pn
      /\ p = q => pn = qn
  BY <1>1, ProductsGrow
<1>4. x = qn + r
  OBVIOUS
<1> HIDE DEF p, m, pn, qn
<1>5. m = r
  BY <1>1, <1>2, <1>3, <1>4
<1> QED
  BY <1>5 DEF m

(* The weekday of yesterday, as isBranchOpen counts it.                      *)
LEMMA WeekdayBefore ==
  ASSUME NEW d \in Int
  PROVE  /\ Weekday(d) \in 0 .. WeekLen - 1
         /\ Weekday(d - 1) \in 0 .. WeekLen - 1
         /\ (Weekday(d) + WeekLen - 1) % WeekLen = Weekday(d - 1)
<1> DEFINE q   == d \div WeekLen
           w   == d % WeekLen
           qW  == q * WeekLen
<1>1. WeekLen \in Int /\ WeekLen > 1
  BY BranchHoursAssumption
<1>2. q \in Int /\ w \in Int /\ 0 <= w /\ w < WeekLen /\ d = qW + w
  BY <1>1, DivMod
<1>3. (d - 1) % WeekLen \in 0 .. WeekLen - 1
  BY <1>1, DivMod
<1>4. /\ qW \in Int /\ (q - 1) * WeekLen = qW - WeekLen /\ q - 1 \in Int
      /\ q * WeekLen = qW /\ d - 1 \in Int
  BY <1>1, <1>2
<1> HIDE DEF w, q, qW
<1>5. CASE w = 0
  <2> DEFINE r == WeekLen - 1
  <2>1. /\ r \in Int /\ 0 <= r /\ r < WeekLen
        /\ d - 1 = (q - 1) * WeekLen + r
        /\ w + WeekLen - 1 = 0 * WeekLen + r
    BY <1>1, <1>2, <1>4, <1>5
  <2> HIDE DEF r
  <2>2. (d - 1) % WeekLen = r
    BY <1>1, <1>2, <1>4, <2>1, RemainderIsUnique
  <2>3. w + WeekLen - 1 \in Int
    BY <1>1, <1>2
  <2>4. (w + WeekLen - 1) % WeekLen = r
    BY <1>1, <2>1, <2>3, RemainderIsUnique
  <2> QED
    BY <1>1, <1>2, <1>3, <2>2, <2>4 DEF Weekday, w, r
<1>6. CASE w > 0
  <2> DEFINE r == w - 1
  <2>1. /\ r \in Int /\ 0 <= r /\ r < WeekLen
        /\ d - 1 = q * WeekLen + r
        /\ w + WeekLen - 1 = 1 * WeekLen + r
    BY <1>1, <1>2, <1>4, <1>6
  <2> HIDE DEF r
  <2>2. (d - 1) % WeekLen = r
    BY <1>1, <1>2, <1>4, <2>1, RemainderIsUnique
  <2>3. w + WeekLen - 1 \in Int
    BY <1>1, <1>2
  <2>4. (w + WeekLen - 1) % WeekLen = r
    BY <1>1, <2>1, <2>3, RemainderIsUnique
  <2> QED
    BY <1>1, <1>2, <1>3, <2>2, <2>4 DEF Weekday, w, r
<1> QED
  BY <1>1, <1>2, <1>5, <1>6

-----------------------------------------------------------------------------
(* Type correctness *)

LEMMA ParsedIsSlot ==
  ASSUME NEW slot \in RawSlot, ParsesDayHours(slot)
  PROVE  slot \in Slot
  BY DEF RawSlot, ParsesDayHours, Slot

LEMMA ParsedWeek ==
  ASSUME NEW week \in Weeks, week # Null => ParsesBranchHours(week)
  PROVE  week \in [0 .. WeekLen - 1 -> Slot] \cup {Null}
<1>1. CASE week = Null
  BY <1>1
<1>2. CASE week # Null
  <2>1. week \in [0 .. WeekLen - 1 -> RawSlot]
    BY <1>2, BranchHoursAssumption
  <2>2. \A w \in 0 .. WeekLen - 1 : week[w] \in Slot
    BY <1>2, <2>1, ParsedIsSlot DEF ParsesBranchHours
  <2> QED
    BY <2>1, <2>2
<1> QED
  BY <1>1, <1>2

(* The rows of a list that parses have one row to a date. *)
LEMMA ParsedList ==
  ASSUME NEW list \in Lists, ParsesExceptions(list),
         NEW rows, rows = {list[i] : i \in DOMAIN list}
  PROVE  /\ \A x \in rows : x.date \in Int /\ x.hours \in Slot
         /\ \A x, y \in rows : x.date = y.date => x = y
<1>1. list \in Seq([date : Int, hours : RawSlot])
  BY BranchHoursAssumption
<1>2. \A i \in DOMAIN list :
        list[i].date \in Int /\ list[i].hours \in RawSlot
  <2>1. \A i \in DOMAIN list : i \in 1 .. Len(list)
    BY <1>1
  <2>2. \A i \in DOMAIN list : list[i] \in [date : Int, hours : RawSlot]
    BY <1>1, <2>1, ElementOfSeq
  <2> QED
    BY <2>2
<1>3. \A i \in DOMAIN list : list[i].hours \in Slot
  BY <1>2, ParsedIsSlot DEF ParsesExceptions
<1>4. \A i, j \in DOMAIN list : list[i].date = list[j].date => i = j
  BY DEF ParsesExceptions
<1> QED
  BY <1>2, <1>3, <1>4

(* Whatever bodies arrive and in whatever order, every slot that is stored   *)
(* opens for some time and no date has two exceptions: branches.service,     *)
(* update, with the parsers of branch-hours.util.                            *)
THEOREM HoursAreTyped == Spec => []TypeOK
<1>1. Init => TypeOK
  BY BranchHoursAssumption DEF Init, TypeOK
<1>2. TypeOK /\ [Next]_vars => TypeOK'
  <2> SUFFICES ASSUME TypeOK, [Next]_vars PROVE TypeOK'
    OBVIOUS
  <2>1. CASE Tick
    BY <2>1, BranchHoursAssumption DEF Tick, TypeOK
  <2>2. ASSUME NEW week \in Weeks, PatchHours(week) PROVE TypeOK'
    <3>1. week \in [0 .. WeekLen - 1 -> Slot] \cup {Null}
      BY <2>2, ParsedWeek DEF PatchHours
    <3> QED
      BY <2>2, <3>1 DEF PatchHours, TypeOK
  <2>3. ASSUME NEW list \in Lists, PatchExceptions(list) PROVE TypeOK'
    <3>1. /\ \A x \in exceptions' : x.date \in Int /\ x.hours \in Slot
          /\ \A x, y \in exceptions' : x.date = y.date => x = y
      BY <2>3, ParsedList DEF PatchExceptions
    <3> QED
      BY <2>3, <3>1 DEF PatchExceptions, TypeOK
  <2>4. CASE UNCHANGED vars
    BY <2>4 DEF vars, TypeOK
  <2> QED
    BY <2>1, <2>2, <2>3, <2>4 DEF Next
<1> QED
  BY <1>1, <1>2, PTL DEF Spec

-----------------------------------------------------------------------------
(* The timetable as posted *)

(* A slot of today, in today's minutes: what isBranchOpen asks of it against *)
(* what the time line shows.                                                 *)
LEMMA TodaysSlot ==
  ASSUME NEW slot \in Slot, slot # Null, NEW m \in 0 .. DayLen - 1,
         NEW start \in Int, NEW l, l = start + m
  PROVE  LET lasts == /\ start + slot.open <= l
                      /\ l < start + slot.close + (IF IsOvernight(slot) THEN DayLen ELSE 0)
         IN  /\ lasts => SlotContains(slot, m)
             /\ SlotContains(slot, m) /\ ~lasts => IsOvernight(slot) /\ m < slot.close
<1>1. DayLen \in Int /\ DayLen > 0
  BY BranchHoursAssumption
<1>2. /\ slot.open \in 0 .. DayLen - 1 /\ slot.close \in 0 .. DayLen
      /\ slot.open # slot.close
  BY DEF Slot
<1>3. CASE slot.close < slot.open
  BY <1>1, <1>2, <1>3 DEF SlotContains, IsOvernight
<1>4. CASE slot.open < slot.close
  BY <1>1, <1>2, <1>4 DEF SlotContains, IsOvernight
<1> QED
  BY <1>2, <1>3, <1>4

(* Yesterday's slot reaches into this minute exactly when it is a night that *)
(* covers it.                                                                *)
LEMMA YesterdaysSlot ==
  ASSUME NEW slot \in Slot, slot # Null, NEW m \in 0 .. DayLen - 1,
         NEW start \in Int, NEW l, l = start + m
  PROVE  OvernightCoversMorning(slot, m) <=>
           /\ start - DayLen + slot.open <= l
           /\ l < start - DayLen + slot.close + (IF IsOvernight(slot) THEN DayLen ELSE 0)
<1>1. DayLen \in Int /\ DayLen > 0
  BY BranchHoursAssumption
<1>2. slot.open \in 0 .. DayLen - 1 /\ slot.close \in 0 .. DayLen
  BY DEF Slot
<1>3. CASE slot.close < slot.open
  BY <1>1, <1>2, <1>3 DEF OvernightCoversMorning, IsOvernight
<1>4. CASE slot.open <= slot.close
  BY <1>1, <1>2, <1>4 DEF OvernightCoversMorning, IsOvernight
<1> QED
  BY <1>2, <1>3, <1>4

LEMMA PostedSlot ==
  ASSUME TypeOK, NEW d \in Int, Excepted(d) \/ hours # Null
  PROVE  Posted(d) \in Slot
<1>1. CASE Excepted(d)
  <2>1. (CHOOSE x \in exceptions : x.date = d) \in exceptions
    BY <1>1 DEF Excepted
  <2> QED
    BY <1>1, <2>1 DEF Posted, Exception, TypeOK
<1>2. CASE ~Excepted(d)
  <2>1. hours \in [0 .. WeekLen - 1 -> Slot]
    BY <1>2 DEF TypeOK
  <2> QED
    BY <1>2, <2>1, WeekdayBefore DEF Posted
<1> QED
  BY <1>1, <1>2

LEMMA OpenThen ==
  ASSUME TypeOK, NEW t \in Int, NEW b \in Int, b = Offset(t)
  PROVE  LET slot == Posted(ZonedYmd(t)) IN
         /\ IsPosted(t) => IsBranchOpen(t)
         /\ IsBranchOpen(t) /\ ~IsPosted(t) =>
              /\ slot # Null
              /\ IsOvernight(slot)
              /\ Minute(t) < slot.close
<1> DEFINE l     == Local(t)
           d     == ZonedYmd(t)
           m     == Minute(t)
           start == d * DayLen
<1>1. DayLen \in Int /\ DayLen > 0
  BY BranchHoursAssumption
<1>2. l \in Int
  BY DEF Local
<1>3. d \in Int /\ m \in 0 .. DayLen - 1 /\ l = start + m
  BY <1>1, <1>2, DivMod DEF ZonedYmd, Minute
<1>4. start \in Int /\ (d - 1) * DayLen = start - DayLen
  BY <1>1, <1>3
<1>5. ASSUME Excepted(d) \/ hours # Null
      PROVE  /\ Lasts(d, l) => SlotContains(Posted(d), m)
             /\ SlotContains(Posted(d), m) /\ ~Lasts(d, l) =>
                  Posted(d) # Null /\ IsOvernight(Posted(d)) /\ m < Posted(d).close
  <2> HIDE DEF l, d, m, start
  <2>1. Posted(d) \in Slot
    BY <1>3, <1>5, PostedSlot
  <2>2. CASE Posted(d) = Null
    BY <2>2 DEF Lasts, SlotContains
  <2>3. CASE Posted(d) # Null
    BY <1>3, <1>4, <2>1, <2>3, TodaysSlot DEF Lasts, start
  <2> QED
    BY <2>2, <2>3
<1>6. ASSUME hours # Null
      PROVE  Lasts(d - 1, l) <=> OvernightCoversMorning(LastNight(d), m)
  <2> HIDE DEF l, d, m, start
  <2>1. d - 1 \in Int /\ AddYmdDays(d, -1) = d - 1
    BY <1>3 DEF AddYmdDays
  <2>2. LastNight(d) = Posted(d - 1)
    BY <1>3, <2>1, WeekdayBefore DEF LastNight, Posted
  <2>3. Posted(d - 1) \in Slot
    BY <1>6, <2>1, PostedSlot
  <2>4. CASE Posted(d - 1) = Null
    BY <2>2, <2>4 DEF Lasts, OvernightCoversMorning
  <2>5. CASE Posted(d - 1) # Null
    BY <1>3, <1>4, <2>2, <2>3, <2>5, YesterdaysSlot DEF Lasts
  <2> QED
    BY <2>4, <2>5
<1>7. IsBranchOpen(t) <=>
        IF Excepted(d) THEN SlotContains(Exception(d), m)
        ELSE \/ hours = Null
             \/ SlotContains(hours[Weekday(d)], m)
             \/ OvernightCoversMorning(LastNight(d), m)
  BY DEF IsBranchOpen
<1>8. IsPosted(t) <=>
        IF Excepted(d) THEN Lasts(d, l)
        ELSE hours = Null \/ Lasts(d - 1, l) \/ Lasts(d, l)
  BY DEF IsPosted
<1>9. Posted(d) = IF Excepted(d) THEN Exception(d) ELSE hours[Weekday(d)]
  BY DEF Posted
<1> HIDE DEF l, d, m, start
<1>10. /\ IsPosted(t) => IsBranchOpen(t)
       /\ IsBranchOpen(t) /\ ~IsPosted(t) =>
            Posted(d) # Null /\ IsOvernight(Posted(d)) /\ m < Posted(d).close
  <2>1. CASE Excepted(d)
    BY <1>5, <1>7, <1>8, <1>9, <2>1
  <2>2. CASE ~Excepted(d) /\ hours = Null
    BY <1>7, <1>8, <2>2
  <2>3. CASE ~Excepted(d) /\ hours # Null
    BY <1>5, <1>6, <1>7, <1>8, <1>9, <2>3
  <2> QED
    BY <2>1, <2>2, <2>3
<1> QED
  BY <1>10 DEF d, m

(* isBranchOpen, which knows the minute of the day and the weekday only,     *)
(* agrees with the timetable as posted, for every timetable, every list of   *)
(* exceptions and every change of the clocks, but for the morning of a day   *)
(* whose own slot closes after midnight.                                     *)
THEOREM DoorsAreOpenAsPosted == Spec => []OpenAsPosted
<1>1. TypeOK => OpenAsPosted
  <2> SUFFICES ASSUME TypeOK PROVE OpenAsPosted
    OBVIOUS
  <2>1. now \in Int
    BY BranchHoursAssumption DEF TypeOK
  <2>2. Offset(now) \in Int
    BY BranchHoursAssumption DEF TypeOK, Offset, Zone
  <2> QED
    BY <2>1, <2>2, OpenThen DEF OpenAsPosted
<1> QED
  BY <1>1, HoursAreTyped, PTL

-----------------------------------------------------------------------------
(* The days of the gym on the time line *)

(* One correction of a guess. *)
Corrected(d, g) == d * DayLen - Offset(g)

LEMMA OffsetIsInt ==
  ASSUME TypeOK
  PROVE  \A t : Offset(t) \in Int
  BY BranchHoursAssumption DEF TypeOK, Offset, Zone

LEMMA FourCorrections ==
  ASSUME TypeOK, NEW d \in Int
  PROVE  ZonedStartOfDay(d) =
           Corrected(d, Corrected(d, Corrected(d, Corrected(d, d * DayLen))))
<1> DEFINE C(g)  == g + (d * DayLen - Local(g))
           g0    == d * DayLen
           guess == [i \in 0 .. 4 |-> IF i = 0 THEN g0
                      ELSE IF i = 1 THEN C(g0)
                      ELSE IF i = 2 THEN C(C(g0))
                      ELSE IF i = 3 THEN C(C(C(g0)))
                      ELSE C(C(C(C(g0))))]
           Is(f) == f = [i \in 0 .. 4 |-> IF i = 0 THEN g0 ELSE C(f[i-1])]
<1> HIDE DEF C, g0
<1>1. Is(guess)
  <2>1. /\ guess[0] = g0 /\ guess[1] = C(g0) /\ guess[2] = C(C(g0))
        /\ guess[3] = C(C(C(g0))) /\ guess[4] = C(C(C(C(g0))))
    OBVIOUS
  <2> DEFINE again == [i \in 0 .. 4 |-> IF i = 0 THEN g0 ELSE C(guess[i-1])]
  <2>2. /\ again[0] = g0 /\ again[1] = C(g0) /\ again[2] = C(C(g0))
        /\ again[3] = C(C(C(g0))) /\ again[4] = C(C(C(C(g0))))
    BY <2>1
  <2>3. \A i \in 0 .. 4 : i = 0 \/ i = 1 \/ i = 2 \/ i = 3 \/ i = 4
    OBVIOUS
  <2>4. /\ DOMAIN guess = 0 .. 4 /\ DOMAIN again = 0 .. 4
        /\ guess = [i \in 0 .. 4 |-> guess[i]] /\ again = [i \in 0 .. 4 |-> again[i]]
    OBVIOUS
  <2> HIDE DEF guess, again
  <2>5. guess = again
    BY <2>1, <2>2, <2>3, <2>4
  <2> QED
    BY <2>5 DEF again
<1>2. ASSUME NEW f, Is(f) PROVE f[4] = C(C(C(C(g0))))
  <2>1. f[0] = g0 /\ f[1] = C(f[0]) /\ f[2] = C(f[1]) /\ f[3] = C(f[2]) /\ f[4] = C(f[3])
    BY <1>2
  <2> QED
    BY <2>1
<1>3. Is(CHOOSE f : Is(f))
  BY <1>1
<1>4. (CHOOSE f : Is(f))[4] = C(C(C(C(g0))))
  BY <1>2, <1>3
<1>5. ZonedStartOfDay(d) = (CHOOSE f : Is(f))[4]
  BY DEF ZonedStartOfDay, C, g0
<1>6. g0 \in Int /\ \A g \in Int : Corrected(d, g) \in Int /\ C(g) = Corrected(d, g)
  <2> SUFFICES ASSUME NEW D \in Int, D = d * DayLen, NEW g \in Int, NEW b \in Int, b = Offset(g)
               PROVE  D - b \in Int /\ g + (D - (g + b)) = D - b
    <3>1. d * DayLen \in Int
      BY BranchHoursAssumption
    <3> QED
      BY <3>1, OffsetIsInt DEF C, g0, Corrected, Local
  <2> QED
    OBVIOUS
<1>7. C(C(C(C(g0)))) = Corrected(d, Corrected(d, Corrected(d, Corrected(d, g0))))
  BY <1>6
<1> QED
  BY <1>4, <1>5, <1>7 DEF g0

(* A day has begun exactly when its date has come.                           *)
LEMMA DayBegins ==
  ASSUME TypeOK, NEW d \in Int, NEW t \in Int
  PROVE  ZonedStartOfDay(d) <= t <=> d <= ZonedYmd(t)
<1> DEFINE b == zone.before
           a == zone.after
           u == zone.at
           D == d * DayLen
           s == ZonedStartOfDay(d)
           n == DayLen
<1>1. n \in Int /\ n > 0
  BY BranchHoursAssumption
<1>2. b \in 0 .. n - 1 /\ a \in 0 .. n - 1 /\ u \in Int
  BY ZonesAssumption, BranchHoursAssumption DEF TypeOK, Zone
<1>3. D \in Int
  BY <1>1
<1>4. \A g \in Int : Offset(g) = IF g < u THEN b ELSE a
  BY DEF Offset
<1>5. \A g \in Int : Corrected(d, g) = IF g < u THEN D - b ELSE D - a
  BY <1>1, <1>2, <1>3, <1>4 DEF Corrected
<1>6. s = Corrected(d, Corrected(d, Corrected(d, Corrected(d, D))))
  BY FourCorrections
<1>7. d <= ZonedYmd(t) <=> D <= (IF t < u THEN t + b ELSE t + a)
  <2>1. Local(t) \in Int /\ Local(t) = IF t < u THEN t + b ELSE t + a
    BY <1>2, <1>4 DEF Local
  <2> QED
    BY <1>1, <2>1, DateHasCome DEF ZonedYmd
<1>8. CASE a = b
  <2> HIDE DEF b, a, u, D, s, n
  <2>1. \A g \in Int : Corrected(d, g) = D - b /\ Corrected(d, g) \in Int
    BY <1>2, <1>3, <1>5, <1>8, <1>1
  <2>2. s = D - b
    BY <1>3, <1>6, <2>1
  <2> QED
    BY <1>1, <1>2, <1>3, <1>7, <1>8, <2>2 DEF s
<1>9. CASE a # b
  <2> DEFINE k == (u + b) \div n
             K == k * n
  <2>1. k \in Int /\ u + b = K
    <3> DEFINE x == u + b
               r == x % n
    <3>1. x \in Int
      BY <1>2
    <3>2. r = 0
      BY <1>9, ZonesAssumption DEF TypeOK
    <3>3. k \in Int /\ x = K + r
      BY <1>1, <3>1, DivMod
    <3>4. K \in Int
      BY <1>1, <3>3
    <3> QED
      BY <3>2, <3>3, <3>4
  <2>2. K \in Int
    BY <1>1, <2>1
  <2>3. /\ d < k => D + n <= K
        /\ k < d => K + n <= D
        /\ d = k => D = K
    BY <1>1, <2>1, ProductsGrow
  <2> HIDE DEF b, a, u, D, s, n, k, K
  <2>4. D - a \in Int /\ D - b \in Int
    BY <1>1, <1>2, <1>3
  <2>5. CASE d < k
    <3>1. D - a < u /\ D - b < u
      BY <1>1, <1>2, <1>3, <2>1, <2>2, <2>3, <2>5
    <3>2. Corrected(d, D - a) = D - b /\ Corrected(d, D - b) = D - b
      BY <1>5, <2>4, <3>1
    <3>3. Corrected(d, D) = D - a \/ Corrected(d, D) = D - b
      BY <1>3, <1>5
    <3>4. s = D - b
      BY <1>6, <3>2, <3>3
    <3> QED
      BY <1>1, <1>2, <1>3, <1>7, <2>1, <2>2, <2>3, <2>5, <3>4 DEF s
  <2>6. CASE d = k
    <3>1. u = D - b /\ ~(D < u) /\ ~(D - b < u)
      BY <1>1, <1>2, <1>3, <2>1, <2>2, <2>3, <2>6
    <3>2. Corrected(d, D) = D - a /\ Corrected(d, D - b) = D - a
      BY <1>3, <1>5, <2>4, <3>1
    <3>3. CASE b < a
      <4>1. D - a < u
        BY <1>1, <1>2, <1>3, <3>1, <3>3
      <4>2. Corrected(d, D - a) = D - b
        BY <1>5, <2>4, <4>1
      <4>3. s = D - b
        BY <1>6, <3>2, <4>2
      <4> QED
        BY <1>1, <1>2, <1>3, <1>7, <3>1, <3>3, <4>3 DEF s
    <3>4. CASE a < b
      <4>1. ~(D - a < u)
        BY <1>1, <1>2, <1>3, <3>1, <3>4
      <4>2. Corrected(d, D - a) = D - a
        BY <1>5, <2>4, <4>1
      <4>3. s = D - a
        BY <1>6, <3>2, <4>2
      <4> QED
        BY <1>1, <1>2, <1>3, <1>7, <3>1, <3>4, <4>3 DEF s
    <3> QED
      BY <1>1, <1>2, <1>9, <3>3, <3>4
  <2>7. CASE k < d
    <3>1. ~(D - a < u) /\ ~(D - b < u)
      BY <1>1, <1>2, <1>3, <2>1, <2>2, <2>3, <2>7
    <3>2. Corrected(d, D - a) = D - a /\ Corrected(d, D - b) = D - a
      BY <1>5, <2>4, <3>1
    <3>3. Corrected(d, D) = D - a \/ Corrected(d, D) = D - b
      BY <1>3, <1>5
    <3>4. s = D - a
      BY <1>6, <3>2, <3>3
    <3> QED
      BY <1>1, <1>2, <1>3, <1>7, <2>1, <2>2, <2>3, <2>7, <3>4 DEF s
  <2> QED
    BY <2>1, <2>5, <2>6, <2>7
<1> QED
  BY <1>8, <1>9

LEMMA DayBeginsSomewhen ==
  ASSUME TypeOK, NEW d \in Int
  PROVE  ZonedStartOfDay(d) \in Int
<1> DEFINE D == d * DayLen
<1>1. D \in Int
  BY BranchHoursAssumption
<1>2. \A g \in Int : Corrected(d, g) \in Int
  BY <1>1, OffsetIsInt DEF Corrected
<1> HIDE DEF D
<1>3. Corrected(d, Corrected(d, Corrected(d, Corrected(d, D)))) \in Int
  BY <1>1, <1>2
<1> QED
  BY <1>3, FourCorrections DEF D

(* A visit is in the report of a range of days exactly when its date is one  *)
(* of them: zonedStartOfDay finds the first instant of every date, with or   *)
(* without a midnight, so that the days of tenant-day.util meet without a    *)
(* gap and without an overlap.                                               *)
THEOREM ReportsHaveTheirDays == Spec => []RangesAreDates
<1>1. TypeOK => RangesAreDates
  <2> SUFFICES ASSUME TypeOK PROVE RangesAreDates
    OBVIOUS
  <2> DEFINE today == ZonedYmd(now)
  <2>1. now \in Int
    BY BranchHoursAssumption DEF TypeOK
  <2>2. today \in Int
    BY <2>1, OffsetIsInt, BranchHoursAssumption, DivMod DEF ZonedYmd, Local
  <2>3. ZonedDayBounds(now) = ZonedYmdRangeBounds(today, today)
    BY DEF ZonedDayBounds, ZonedYmdRangeBounds
  <2>4. ASSUME NEW from \in today - 2 .. today + 2, NEW to \in today - 2 .. today + 2
        PROVE  LET bounds == ZonedYmdRangeBounds(from, to) IN
               (bounds.gte <= now /\ now < bounds.lt) <=> (from <= today /\ today <= to)
    <3> HIDE DEF today
    <3>1. from \in Int /\ to \in Int /\ to + 1 \in Int
      BY <2>2
    <3>2. ZonedStartOfDay(from) <= now <=> from <= today
      BY <2>1, <3>1, DayBegins DEF today
    <3>3. ZonedStartOfDay(to + 1) <= now <=> to + 1 <= today
      BY <2>1, <3>1, DayBegins DEF today
    <3>4. ZonedStartOfDay(to + 1) \in Int
      BY <3>1, DayBeginsSomewhen
    <3>5. now < ZonedStartOfDay(to + 1) <=> today <= to
      BY <2>1, <2>2, <3>1, <3>3, <3>4
    <3> QED
      BY <3>2, <3>5 DEF ZonedYmdRangeBounds, AddYmdDays
  <2> QED
    BY <2>3, <2>4 DEF RangesAreDates
<1> QED
  BY <1>1, HoursAreTyped, PTL
=============================================================================
