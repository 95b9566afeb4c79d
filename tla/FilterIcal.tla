------------------------------ MODULE FilterIcal ------------------------------
(***************************************************************************)
(* filter-ical.py: copies the entries of a calendar whose date lies in a   *)
(* range of days.                                                          *)
(*                                                                         *)
(* Days are local, entries are compared in UTC, and the local clock is put *)
(* forward once and back once.  Time counts in units of which Day make a   *)
(* day.  The wall clock may show a time never or twice; what dateutil      *)
(* makes of such a time is modelled as it is.                              *)
(***************************************************************************)
EXTENDS Integers, Sequences, Ranking

CONSTANTS Day,       \* length of a day
          Days,      \* days of the calendar of datetime: MINYEAR to MAXYEAR
          Offset,    \* local time in winter, ahead of UTC
          Saved,     \* how far the clock is put forward in summer
          Summer,    \* the moments of UTC with summer time
          Epoch      \* the day 01.01.1970

ASSUME IcalAssumption ==
  /\ Day \in Nat \ {0} /\ Days \in Nat \ {0} /\ Epoch \in 0 .. Days - 1
  /\ Offset \in 1 - Day .. Day - 1 /\ Saved \in 0 .. Day - 1 /\ Offset + Saved < Day

Moments == 0 .. Days * Day - 1

--------------------------------------------------------------------------------
(* Local time *)

\* tzlocal._isdst without a fold: a time that comes twice is the first of the two.
IsSummer(wall) == wall - Offset \in Summer \/ wall - Offset - Saved \in Summer

Utc(wall) == wall - Offset - (IF IsSummer(wall) THEN Saved ELSE 0)

Today(now) == (now + Offset + (IF now \in Summer THEN Saved ELSE 0)) \div Day

\* A value of an entry: a date, a time of the wall clock, a moment, something else
\* with a dt, or a property that is there twice and has none.
Normalized(v) ==
  CASE v.kind = "date"  -> {Utc(v.at * Day)}
    [] v.kind = "naive" -> {Utc(v.at)}
    [] v.kind = "aware" -> {v.at}
    [] OTHER            -> {}

\* AttributeError, and OverflowError of astimezone.
ValueRaises(v) == v.kind = "twice" \/ ~(Normalized(v) \subseteq Moments)

\* get_event_relevant_date_utc: the fields that are there, in the order DTSTART,
\* DTEND, CREATED, LAST-MODIFIED, up to the first that yields a date.
Checked(c) ==
  LET usable == {i \in DOMAIN c.fields : c.fields[i].kind = "twice" \/ Normalized(c.fields[i]) # {}}
      Upto(n) == SubSeq(c.fields, 1, n)
  IN  IF usable = {} THEN c.fields
      ELSE Upto(CHOOSE i \in usable : \A j \in usable : i <= j)

EventRaises(c) == \E i \in DOMAIN Checked(c) : ValueRaises(Checked(c)[i])
EventDate(c)   == UNION {Normalized(Checked(c)[i]) : i \in DOMAIN Checked(c)}

\* parse_user_date_to_datetime: an option is a day, "now" at a moment, or not given.
FirstDay(o) == CASE o.kind = "day" -> o.at [] o.kind = "now" -> Today(o.at) [] OTHER -> Epoch
LastDay(o)  == CASE o.kind = "day" -> o.at [] o.kind = "now" -> Today(o.at) [] OTHER -> Days - 1

\* Mutant: the range ends when its last day begins.
ToBoundaryStart(o) == Utc(LastDay(o) * Day)

\* get_boundary_datetime_utc: from the first unit of a day to the last one of a day.
FromBoundary(o) == Utc(FirstDay(o) * Day)
ToBoundary(o)   == Utc((LastDay(o) + 1) * Day - 1)

--------------------------------------------------------------------------------
(* main *)

Filterable == {"VEVENT", "VTODO", "VJOURNAL", "VFREEBUSY"}

FilterRaises(from, to, cal) ==
  \/ FromBoundary(from) \notin Moments \/ ToBoundary(to) \notin Moments
  \/ \E i \in DOMAIN cal : cal[i].name \in Filterable /\ EventRaises(cal[i])

Included(from, to, c) ==
  /\ c.name \in Filterable
  /\ \E t \in EventDate(c) : FromBoundary(from) <= t /\ t <= ToBoundary(to)

\* The components that are written: time zones come first.
Filter(from, to, cal) ==
  Chosen(cal, {i \in DOMAIN cal : cal[i].name = "VTIMEZONE"})
    \o Chosen(cal, {i \in DOMAIN cal : Included(from, to, cal[i])})
================================================================================
