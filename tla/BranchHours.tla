----------------------------- MODULE BranchHours -----------------------------
(***************************************************************************)
(* When a branch is open, and which day it is.  A gym keeps the civil      *)
(* calendar of its time zone, whose offset changes twice a year; days are  *)
(* numbered here, and instants are whole units of DayLen to a day, so that *)
(* a change of the clocks is a change of the offset at one instant.  A     *)
(* branch has weekly hours, or none when it never closes, and exceptions   *)
(* by date; both come from request bodies that are checked before they are *)
(* stored.  Time passes, and owners change the hours at any moment.        *)
(***************************************************************************)
EXTENDS Integers, Sequences

CONSTANTS
  DayLen,    \* units of time in a day (bound: the code counts minutes)
  WeekLen,   \* days in a week (bound: seven)
  Zones,     \* the courses the offset of the time zone may take
  Weeks,     \* bodies of PATCH hours: [0 .. WeekLen-1 -> slot], or Null
  Lists,     \* bodies of PATCH hoursExceptions: sequences of dated slots
  MaxExceptions,  \* rows a list may have
  MaxRange,  \* days a report may cover
  FirstInstant, LastInstant,  \* the time that passes (bound)
  Null

VARIABLES
  now,         \* the instant
  zone,        \* the time zone of the gym
  hours,       \* branches.hours
  exceptions   \* branches.hours_exceptions: a set of dated slots

vars == <<now, zone, hours, exceptions>>

(* The offset is before, and after from the instant at on. *)
Zone == [before : Int, after : Int, at : Int]

(* A slot opens and closes at a time of day, and may close after midnight;  *)
(* Null stands for a day on which the branch stays closed.                  *)
RawSlot == [open : Nat, close : Nat] \cup {Null}

ASSUME BranchHoursAssumption ==
  /\ DayLen \in Nat \ {0} /\ WeekLen \in Nat \ {0, 1}
  /\ Zones \subseteq Zone
  /\ Weeks \subseteq [0 .. WeekLen - 1 -> RawSlot] \cup {Null}
  /\ Lists \subseteq Seq([date : Int, hours : RawSlot])
  /\ MaxExceptions \in Nat /\ MaxRange \in Nat
  /\ FirstInstant \in Int /\ LastInstant \in Int /\ FirstInstant <= LastInstant
  /\ Null \notin [open : Nat, close : Nat] /\ Null \notin Int

(* The zone of a gym follows from its country, which is Egypt or Saudi       *)
(* Arabia (country.defaults.ts): both lie east of Greenwich, by less than a  *)
(* day, and where the clocks change, they change at a midnight.              *)
ASSUME ZonesAssumption ==
  \A z \in Zones :
    /\ z.before \in 0 .. DayLen - 1 /\ z.after \in 0 .. DayLen - 1
    /\ z.before # z.after => (z.at + z.before) % DayLen = 0

-----------------------------------------------------------------------------
(* The gym's calendar.                                                      *)

Offset(t)   == IF t < zone.at THEN zone.before ELSE zone.after
Local(t)    == t + Offset(t)
ZonedYmd(t) == Local(t) \div DayLen
Minute(t)   == Local(t) % DayLen
Weekday(d)  == d % WeekLen

AddYmdDays(d, n) == d + n

(* Mutation: the correction is made once less. *)
ZonedStartOfDayEarly(d) ==
  LET guess[i \in 0 .. 3] ==
        IF i = 0 THEN d * DayLen
                 ELSE guess[i-1] + (d * DayLen - Local(guess[i-1]))
  IN guess[3]

(* The instant at which a day begins: the date is taken for UTC and         *)
(* corrected by what the clock of the gym shows then, four times over.      *)
ZonedStartOfDay(d) ==
  LET guess[i \in 0 .. 4] ==
        IF i = 0 THEN d * DayLen
                 ELSE guess[i-1] + (d * DayLen - Local(guess[i-1]))
  IN guess[4]

ZonedDayBounds(t) ==
  [gte |-> ZonedStartOfDay(ZonedYmd(t)),
   lt  |-> ZonedStartOfDay(AddYmdDays(ZonedYmd(t), 1))]

(* The days from and to, both included; the bounds leave lt out. *)
ZonedYmdRangeBounds(from, to) ==
  [gte |-> ZonedStartOfDay(from), lt |-> ZonedStartOfDay(AddYmdDays(to, 1))]

YmdInclusiveDayCount(from, to) == to - from + 1

(* A query may name one end of a range, which then stands for both. *)
Or(d, e) == IF d = Null THEN e ELSE d

IsRange(from, to) ==
  LET f == Or(from, to)
      u == Or(to, from) IN
  f <= u /\ YmdInclusiveDayCount(f, u) <= MaxRange

-----------------------------------------------------------------------------
(* What may be stored.                                                      *)

(* Mutation: a slot may open and close at the same time. *)
ParsesAnySlot(slot) ==
  slot # Null => slot.open \in 0 .. DayLen - 1 /\ slot.close \in 0 .. DayLen

(* A day may close at 24:00 but not open then; it is open for some time.    *)
ParsesDayHours(slot) ==
  slot # Null => /\ slot.open \in 0 .. DayLen - 1
                 /\ slot.close \in 0 .. DayLen
                 /\ slot.open # slot.close

ParsesBranchHours(week) == \A w \in DOMAIN week : ParsesDayHours(week[w])

ParsesExceptions(list) ==
  /\ Len(list) <= MaxExceptions
  /\ \A i, j \in DOMAIN list : list[i].date = list[j].date => i = j
  /\ \A i \in DOMAIN list : ParsesDayHours(list[i].hours)

-----------------------------------------------------------------------------
(* isBranchOpen. *)

(* Open around the clock, between two times, or from one time over midnight *)
(* to another - of the same day, in both its evening and its morning.       *)
SlotContains(slot, m) ==
  /\ slot # Null
  /\ IF slot.open = 0 /\ slot.close = DayLen THEN TRUE
     ELSE IF slot.close > slot.open THEN m >= slot.open /\ m < slot.close
     ELSE m >= slot.open \/ m < slot.close

IsOvernight(slot) == slot.close < slot.open

(* Mutation: the morning must also lie after the opening. *)
OvernightCoversEvening(slot, m) ==
  slot # Null /\ IsOvernight(slot) /\ m >= slot.open /\ m < slot.close

OvernightCoversMorning(slot, m) ==
  slot # Null /\ IsOvernight(slot) /\ m < slot.close

Excepted(d)  == \E x \in exceptions : x.date = d
Exception(d) == (CHOOSE x \in exceptions : x.date = d).hours

(* The slot whose night may reach into the morning of d. *)
LastNight(d) ==
  IF Excepted(AddYmdDays(d, -1))
    THEN Exception(AddYmdDays(d, -1))
    ELSE hours[(Weekday(d) + WeekLen - 1) % WeekLen]

IsBranchOpen(t) ==
  LET today == ZonedYmd(t)
      m     == Minute(t) IN
  IF Excepted(today) THEN SlotContains(Exception(today), m)
  ELSE \/ hours = Null
       \/ SlotContains(hours[Weekday(today)], m)
       \/ OvernightCoversMorning(LastNight(today), m)

-----------------------------------------------------------------------------
Init ==
  /\ now = FirstInstant
  /\ zone \in Zones
  /\ hours = Null
  /\ exceptions = {}

Tick ==
  /\ now < LastInstant
  /\ now' = now + 1
  /\ UNCHANGED <<zone, hours, exceptions>>

(* PATCH /branches/:id with hours; a body that does not parse is refused.   *)
PatchHours(week) ==
  /\ week # Null => ParsesBranchHours(week)
  /\ hours' = week
  /\ UNCHANGED <<now, zone, exceptions>>

(* PATCH /branches/:id with hoursExceptions; an empty list stores none.     *)
PatchExceptions(list) ==
  /\ ParsesExceptions(list)
  /\ exceptions' = {list[i] : i \in DOMAIN list}
  /\ UNCHANGED <<now, zone, hours>>

Next ==
  \/ Tick
  \/ \E week \in Weeks : PatchHours(week)
  \/ \E list \in Lists : PatchExceptions(list)

Spec == Init /\ [][Next]_vars

-----------------------------------------------------------------------------
Slot == {s \in [open : 0 .. DayLen - 1, close : 0 .. DayLen] :
           s.open # s.close} \cup {Null}

(* What is stored can be read: every slot opens for some time, and no date  *)
(* has two exceptions, so that it does not matter which one is found.       *)
TypeOK ==
  /\ now \in FirstInstant .. LastInstant
  /\ zone \in Zones
  /\ hours \in [0 .. WeekLen - 1 -> Slot] \cup {Null}
  /\ \A x \in exceptions : x.date \in Int /\ x.hours \in Slot
  /\ \A x, y \in exceptions : x.date = y.date => x = y

(* The timetable as it is posted, on the time line: a slot of day d lasts   *)
(* from its opening to its closing on d, or on the next day when it closes  *)
(* before it opens; an exception takes the place of the day in the week,    *)
(* and a night does not reach into a day that has an exception.             *)
Posted(d) == IF Excepted(d) THEN Exception(d) ELSE hours[Weekday(d)]

Lasts(d, l) ==
  LET slot == Posted(d) IN
  /\ slot # Null
  /\ d * DayLen + slot.open <= l
  /\ l < d * DayLen + slot.close + (IF IsOvernight(slot) THEN DayLen ELSE 0)

IsPosted(t) ==
  LET today == ZonedYmd(t) IN
  IF Excepted(today) THEN Lasts(today, Local(t))
  ELSE hours = Null \/ \E d \in {today - 1, today} : Lasts(d, Local(t))

(* isBranchOpen, which knows the minute of the day and the weekday only:    *)
(* nobody is refused while the timetable says open, across midnights,       *)
(* exceptions and changes of the clocks, and nobody is let in at another    *)
(* time, with one exception: the morning of the very day whose slot closes  *)
(* after midnight.                                                          *)
OpenAsPosted ==
  LET slot == Posted(ZonedYmd(now)) IN
  /\ IsPosted(now) => IsBranchOpen(now)
  /\ IsBranchOpen(now) /\ ~IsPosted(now) =>
       /\ slot # Null
       /\ IsOvernight(slot)
       /\ Minute(now) < slot.close

(* A visit is in the report of a range of days exactly when its date is one *)
(* of them, also on a day that is an hour longer or shorter or has no       *)
(* midnight: the days meet without a gap and without an overlap.            *)
RangesAreDates ==
  LET today == ZonedYmd(now)
      days  == today - 2 .. today + 2 IN
  /\ \A from, to \in days : IsRange(from, to) =>
       LET bounds == ZonedYmdRangeBounds(from, to) IN
       (bounds.gte <= now /\ now < bounds.lt) <=> (from <= today /\ today <= to)
  /\ ZonedDayBounds(now) = ZonedYmdRangeBounds(today, today)
=============================================================================
