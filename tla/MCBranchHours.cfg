\* Three courses of the offset, four days, every timetable of three days.
SPECIFICATION Spec
CONSTANTS
  Null = Null
  DayLen = 8
  WeekLen = 3
  Zones <- MCZones
  Weeks <- MCWeeks
  Lists <- MCLists
  MaxExceptions = 2
  MaxRange = 3
  FirstInstant = 6
  LastInstant = 37
INVARIANTS
  TypeOK
  OpenAsPosted
  RangesAreDates
