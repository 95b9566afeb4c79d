------------------------------ MODULE ToolsProofs ------------------------------
(***************************************************************************)
(* The calendar filter and the network module, for every length of a day,  *)
(* every clock that is not changed at midnight, every calendar, address    *)
(* and mask, and octets of every width.                                    *)
(***************************************************************************)
EXTENDS Tools, RankingProofs

--------------------------------------------------------------------------------
(* Days and moments. *)

\* What the wall clock shows at a moment.
Wall(t) == t + Offset + (IF t \in Summer THEN Saved ELSE 0)

\* A day begins at one moment, the one the program takes, and the last unit of
\* the day before is the one before.
LEMMA DayBegins ==
  ASSUME NoChangeAtMidnight, NEW d \in -1 .. Days + 1
  PROVE  /\ d * Day \in Int /\ Utc(d * Day) \in Int
         /\ Utc(d * Day - 1) = Utc(d * Day) - 1
         /\ Wall(Utc(d * Day)) = d * Day
         /\ \A t \in Int : Utc(d * Day) <= t <=> d * Day <= Wall(t)
         /\ \A t \in Int : Wall(t) = d * Day => t = Utc(d * Day)
<1>1. PICK midnight \in Int : midnight = d * Day
  BY IcalAssumption
<1>2. /\ Offset \in Int /\ Saved \in Nat
  BY IcalAssumption
<1>3. \/ midnight - Offset - Saved - 1 .. midnight - Offset \subseteq Summer
      \/ (midnight - Offset - Saved - 1 .. midnight - Offset) \cap Summer = {}
  BY <1>1 DEF NoChangeAtMidnight
<1>4. \A t \in Int : midnight - Offset - Saved - 1 <= t /\ t <= midnight - Offset
                       => t \in midnight - Offset - Saved - 1 .. midnight - Offset
  BY <1>2
<1>a. CASE \A t \in Int : midnight - Offset - Saved - 1 <= t /\ t <= midnight - Offset => t \in Summer
  <2>1. Utc(midnight) = midnight - Offset - Saved /\ Utc(midnight - 1) = midnight - Offset - Saved - 1
    BY <1>2, <1>a DEF Utc, IsSummer
  <2> QED
    BY <1>1, <1>2, <1>a, <2>1 DEF Wall
<1>b. CASE \A t \in Int : midnight - Offset - Saved - 1 <= t /\ t <= midnight - Offset => t \notin Summer
  <2>1. Utc(midnight) = midnight - Offset /\ Utc(midnight - 1) = midnight - Offset - 1
    BY <1>2, <1>b DEF Utc, IsSummer
  <2> QED
    BY <1>1, <1>2, <1>b, <2>1 DEF Wall
<1> QED
  BY <1>3, <1>4, <1>a, <1>b

\* Days follow each other, ...
LEMMA DayOfMoment ==
  ASSUME NEW t \in Moments
  PROVE  /\ Today(t) \in -1 .. Days
         /\ Wall(t) \in Int /\ Today(t) * Day <= Wall(t) /\ Wall(t) < (Today(t) + 1) * Day
<1>1. /\ Day \in Nat \ {0} /\ Days \in Nat \ {0}
      /\ Offset \in 1 - Day .. Day - 1 /\ Saved \in 0 .. Day - 1 /\ Offset + Saved < Day
  BY IcalAssumption
<1>2. PICK w \in Int : w = Wall(t) /\ t + Offset <= w /\ w <= t + Offset + Saved /\ w < t + Day /\ t < w + Day
  BY <1>1 DEF Wall, Moments
<1>3. PICK q \in Int : q = w \div Day
  BY <1>1
<1>4. q = Today(t)
  BY <1>2, <1>3 DEF Today, Wall
<1>5. q * Day <= w /\ w < (q + 1) * Day /\ (q + 1) * Day = q * Day + Day
  BY <1>1, <1>2, <1>3
<1>6. 0 <= t /\ t < Days * Day /\ Days * Day \in Int /\ t \in Int
  BY <1>1 DEF Moments
<1>7. -1 <= q
  <2>1. -1 * Day < (q + 1) * Day
    BY <1>1, <1>2, <1>5, <1>6
  <2> QED
    BY <1>1, <2>1
<1>8. q < Days + 1
  <2>1. q * Day < (Days + 1) * Day
    BY <1>1, <1>2, <1>5, <1>6
  <2> QED
    BY <1>1, <2>1
<1> QED
  BY <1>1, <1>2, <1>4, <1>5, <1>7, <1>8

\* ... the latest midnight before a moment begins the day the program finds.
LEMMA LatestMidnight ==
  ASSUME NoChangeAtMidnight, NEW t \in Moments
  PROVE  LocalDay(t) = Today(t)
<1>1. PICK d \in -1 .. Days : d = Today(t)
  BY DayOfMoment
<1>2. PICK midnight \in Int : midnight = d * Day
  BY <1>1, IcalAssumption
<1>3. Day \in Nat \ {0} /\ Offset \in Int /\ Saved \in Nat /\ Offset < Day /\ Offset + Saved < Day /\ Saved < Day
  BY IcalAssumption
<1>4. t \in Int /\ 0 <= t
  BY IcalAssumption DEF Moments
<1>5. PICK begin \in Int : begin = Utc(midnight)
  <2>1. d \in -1 .. Days + 1
    BY <1>1, IcalAssumption
  <2>2. Utc(d * Day) \in Int
    BY <2>1, DayBegins
  <2> QED
    BY <1>2, <2>2
<1>6. /\ Wall(begin) = midnight
      /\ \A u \in Int : begin <= u <=> midnight <= Wall(u)
      /\ \A u \in Int : Wall(u) = midnight => u = begin
  <2>1. d \in -1 .. Days + 1
    BY <1>1, IcalAssumption
  <2>2. /\ Wall(Utc(d * Day)) = d * Day
        /\ \A u \in Int : Utc(d * Day) <= u <=> d * Day <= Wall(u)
        /\ \A u \in Int : Wall(u) = d * Day => u = Utc(d * Day)
    BY <2>1, DayBegins
  <2> QED
    BY <1>2, <1>5, <2>2
<1>7. Wall(t) \in Int /\ midnight <= Wall(t) /\ Wall(t) < midnight + Day
  <2>1. Wall(t) \in Int /\ d * Day <= Wall(t) /\ Wall(t) < (d + 1) * Day
    BY <1>1, DayOfMoment
  <2>2. (d + 1) * Day = midnight + Day
    BY <1>1, <1>2, <1>3
  <2> QED
    BY <1>2, <2>1, <2>2
<1>8. \A u \in Int : Wall(u) \in Int /\ u + Offset <= Wall(u) /\ Wall(u) <= u + Offset + Saved
  BY <1>3 DEF Wall
<1>9. begin \in Midnights(t)
  <2>1. begin <= t
    BY <1>4, <1>6, <1>7
  <2>2. -(2 * Day) <= begin
    BY <1>3, <1>4, <1>6, <1>7, <1>8
  <2>3. (d * Day) % Day = 0
    BY <1>1, <1>3
  <2> QED
    BY <1>2, <1>3, <1>4, <1>5, <1>6, <2>1, <2>2, <2>3 DEF Midnights, Wall
<1>10. ASSUME NEW m \in Midnights(t)
       PROVE  m \in Int /\ m <= begin
  <2>1. m \in Int /\ m <= t /\ Wall(m) % Day = 0
    BY <1>3, <1>4 DEF Midnights, Wall
  <2>2. SUFFICES ASSUME begin < m PROVE FALSE
    BY <1>5, <2>1
  <2>3. midnight <= Wall(m)
    BY <1>6, <2>1, <2>2
  <2>4. Wall(m) < midnight + Day
    <3>1. d + 1 \in -1 .. Days + 1 /\ (d + 1) * Day = midnight + Day
      BY <1>1, <1>2, <1>3, IcalAssumption
    <3>2. /\ Utc(midnight + Day) \in Int
          /\ \A u \in Int : Utc(midnight + Day) <= u <=> midnight + Day <= Wall(u)
      BY <3>1, DayBegins
    <3> QED
      BY <1>2, <1>3, <1>4, <1>7, <1>8, <2>1, <3>2
  <2>5. PICK w \in Int : w = Wall(m)
    BY <1>8, <2>1
  <2>6. PICK q \in Int : q = w \div Day /\ w = q * Day
    BY <1>3, <2>1, <2>5
  <2>7. d * Day <= q * Day /\ q * Day < (d + 1) * Day
    BY <1>1, <1>2, <1>3, <2>3, <2>4, <2>5, <2>6
  <2>8. q = d
    BY <1>1, <1>3, <2>7
  <2>9. q * Day = d * Day
    BY <2>8
  <2>10. Wall(m) = midnight
    BY <1>2, <2>5, <2>6, <2>9
  <2>11. m = begin
    BY <1>6, <2>1, <2>10
  <2> QED
    BY <1>5, <2>2, <2>11
<1>11. Today(begin) = d
  <2>1. \A x \in Int : x = d * Day => x \div Day = d
    BY <1>1, <1>3
  <2>2. Today(begin) = Wall(begin) \div Day
    BY DEF Today, Wall
  <2> QED
    BY <1>2, <1>6, <2>1, <2>2
<1>12. (CHOOSE m \in Midnights(t) : \A n \in Midnights(t) : n <= m) = begin
  <2>1. \A n \in Midnights(t) : n <= begin
    BY <1>10
  <2>2. PICK c : c = CHOOSE m \in Midnights(t) : \A n \in Midnights(t) : n <= m
    OBVIOUS
  <2>3. c \in Midnights(t) /\ \A n \in Midnights(t) : n <= c
    BY <1>9, <2>1, <2>2
  <2>4. c \in Int /\ c <= begin /\ begin <= c
    BY <1>9, <1>10, <2>3
  <2> QED
    BY <1>5, <2>2, <2>4
<1> QED
  BY <1>1, <1>11, <1>12 DEF LocalDay

\* The boundaries of the program hold the moments of the days in between.
LEMMA BoundariesHoldDays ==
  ASSUME NoChangeAtMidnight, NEW t \in Moments, NEW first \in -1 .. Days, NEW last \in -1 .. Days
  PROVE  Utc(first * Day) <= t /\ t <= Utc((last + 1) * Day - 1) <=> Today(t) \in first .. last
<1>1. PICK d \in -1 .. Days : d = Today(t)
  BY DayOfMoment
<1>2. Day \in Nat \ {0} /\ Days \in Nat \ {0} /\ t \in Int
  BY IcalAssumption DEF Moments
<1>3. d * Day <= Wall(t) /\ Wall(t) < (d + 1) * Day /\ Wall(t) \in Int
  BY <1>1, DayOfMoment
<1>4. Utc(first * Day) <= t <=> first * Day <= Wall(t)
  BY <1>2, DayBegins
<1>5. t <= Utc((last + 1) * Day - 1) <=> Wall(t) < (last + 1) * Day
  <2>1. last + 1 \in -1 .. Days + 1
    BY <1>2
  <2>2. PICK x : x = last + 1
    OBVIOUS
  <2>3. /\ x * Day \in Int /\ Utc(x * Day) \in Int /\ Utc(x * Day - 1) = Utc(x * Day) - 1
        /\ Utc(x * Day) <= t <=> x * Day <= Wall(t)
    BY <1>2, <2>1, <2>2, DayBegins
  <2> QED
    BY <1>2, <1>3, <2>2, <2>3
<1>6. first * Day <= Wall(t) <=> first <= d
  <2>1. CASE first <= d
    <3>1. first * Day <= d * Day
      BY <1>2, <2>1
    <3> QED
      BY <1>2, <1>3, <2>1, <3>1
  <2>2. CASE d + 1 <= first
    <3>1. (d + 1) * Day <= first * Day
      BY <1>2, <2>2
    <3> QED
      BY <1>2, <1>3, <2>2, <3>1
  <2> QED
    BY <2>1, <2>2
<1>7. Wall(t) < (last + 1) * Day <=> d <= last
  <2>1. CASE d <= last
    <3>1. (d + 1) * Day <= (last + 1) * Day
      BY <1>2, <2>1
    <3> QED
      BY <1>2, <1>3, <2>1, <3>1
  <2>2. CASE last + 1 <= d
    <3>1. (last + 1) * Day <= d * Day
      BY <1>2, <2>2
    <3> QED
      BY <1>2, <1>3, <2>2, <3>1
  <2> QED
    BY <2>1, <2>2
<1> QED
  BY <1>1, <1>4, <1>5, <1>6, <1>7

--------------------------------------------------------------------------------
(* Entries of a calendar. *)

LEMMA OptionDays ==
  ASSUME NoChangeAtMidnight, NEW o \in Option
  PROVE  /\ FirstDay(o) = DayOf(o, Epoch) /\ FirstDay(o) \in -1 .. Days
         /\ LastDay(o) = DayOf(o, Days - 1) /\ LastDay(o) \in -1 .. Days
<1>1. \/ o.kind = "day" /\ o.at \in 0 .. Days - 1
      \/ o.kind = "now" /\ o.at \in Nows
      \/ o.kind = "none"
  BY DEF Option
<1>2. o.at \in Nows => Today(o.at) = LocalDay(o.at) /\ Today(o.at) \in -1 .. Days
  BY ToolsAssumption, LatestMidnight, DayOfMoment
<1> QED
  BY <1>1, <1>2, IcalAssumption DEF FirstDay, LastDay, DayOf

\* The fields that are looked at are the first ones of an entry.
LEMMA CheckedFields ==
  ASSUME NEW c \in Component
  PROVE  /\ DOMAIN Checked(c) \subseteq DOMAIN c.fields
         /\ \A k \in DOMAIN Checked(c) : Checked(c)[k] = c.fields[k]
         /\ ~EventRaises(c) => EventDate(c) = FirstDate(c.fields)
                                 /\ \A t \in EventDate(c) : t \in Moments
<1> DEFINE usable == {i \in DOMAIN c.fields : c.fields[i].kind = "twice" \/ Normalized(c.fields[i]) # {}}
<1>1. /\ c.fields \in Seq(Value) /\ Len(c.fields) \in Nat /\ DOMAIN c.fields = 1 .. Len(c.fields)
  BY LenProperties DEF Component
<1>2. Checked(c) = IF usable = {} THEN c.fields
                   ELSE SubSeq(c.fields, 1, CHOOSE i \in usable : \A j \in usable : i <= j)
  BY DEF Checked
<1>3. CASE usable = {}
  <2>1. Checked(c) = c.fields
    BY <1>2, <1>3
  <2>2. \A i \in DOMAIN c.fields : Normalized(c.fields[i]) = {}
    BY <1>3
  <2>3. EventDate(c) = {}
    BY <2>1, <2>2 DEF EventDate
  <2>4. FirstDate(c.fields) = {}
    BY <2>2 DEF FirstDate
  <2> QED
    BY <2>1, <2>3, <2>4
<1>4. CASE usable # {}
  <2>1. usable \in SUBSET Nat /\ IsFiniteSet(usable)
    <3>1. IsFiniteSet(1 .. Len(c.fields))
      BY <1>1, FS_Interval
    <3> QED
      BY <1>1, <3>1, FS_Subset
  <2>2. PICK n \in usable : \A j \in usable : n <= j
    <3> HIDE DEF usable
    <3> QED
      BY <1>4, <2>1, LeastAndGreatest
  <2>3. (CHOOSE i \in usable : \A j \in usable : i <= j) = n
    <3> HIDE DEF usable
    <3>1. PICK m : m = CHOOSE i \in usable : \A j \in usable : i <= j
      OBVIOUS
    <3>2. m \in usable /\ \A j \in usable : m <= j
      BY <2>2, <3>1
    <3>3. m \in Nat /\ n \in Nat /\ m <= n /\ n <= m
      BY <2>1, <2>2, <3>2
    <3> QED
      BY <3>1, <3>3
  <2>4. n \in 1 .. Len(c.fields) /\ n \in Nat
    BY <1>1, <2>2
  <2>5. Checked(c) = SubSeq(c.fields, 1, n)
    BY <1>2, <1>4, <2>3
  <2>6. DOMAIN Checked(c) = 1 .. n /\ \A k \in 1 .. n : Checked(c)[k] = c.fields[k]
    BY <1>1, <2>4, <2>5
  <2>7. \A k \in 1 .. Len(c.fields) : k < n => Normalized(c.fields[k]) = {}
    <3>1. \A k \in 1 .. Len(c.fields) : k \notin usable => Normalized(c.fields[k]) = {}
      BY <1>1
    <3>2. \A k \in 1 .. Len(c.fields) : k < n => k \notin usable
      <4> HIDE DEF usable
      <4> QED
        BY <2>2, <2>4
    <3> QED
      BY <3>1, <3>2
  <2>8. ASSUME ~EventRaises(c)
        PROVE  /\ EventDate(c) = FirstDate(c.fields)
               /\ \A t \in EventDate(c) : t \in Moments
    <3>1. \A k \in 1 .. n : c.fields[k].kind # "twice" /\ Normalized(c.fields[k]) \subseteq Moments
      BY <2>6, <2>8 DEF EventRaises, ValueRaises
    <3>2. Normalized(c.fields[n]) # {}
      BY <2>2, <2>4, <3>1
    <3>3. EventDate(c) = Normalized(c.fields[n])
      <4>1. \A k \in 1 .. n : k = n \/ (k \in 1 .. Len(c.fields) /\ k < n)
        BY <2>4
      <4>2. EventDate(c) = UNION {Normalized(c.fields[k]) : k \in 1 .. n}
        BY <2>6 DEF EventDate
      <4>3. \A k \in 1 .. n : Normalized(c.fields[k]) \subseteq Normalized(c.fields[n])
        BY <2>7, <4>1
      <4> QED
        BY <2>4, <4>2, <4>3
    <3>4. FirstDate(c.fields) = Normalized(c.fields[n])
      <4> DEFINE first == {j \in DOMAIN c.fields : \A k \in 1 .. j - 1 : Normalized(c.fields[k]) = {}}
      <4>1. n \in first
        <5>1. \A k \in 1 .. n - 1 : k \in 1 .. Len(c.fields) /\ k < n
          BY <1>1, <2>4
        <5>2. \A k \in 1 .. n - 1 : Normalized(c.fields[k]) = {}
          BY <2>7, <5>1
        <5>3. n \in DOMAIN c.fields
          BY <1>1, <2>4
        <5> QED
          BY <5>2, <5>3
      <4>2. ASSUME NEW j \in first
            PROVE  j \in 1 .. Len(c.fields) /\ j <= n
        <5>1. j \in 1 .. Len(c.fields)
          BY <1>1
        <5>2. \A k \in 1 .. j - 1 : Normalized(c.fields[k]) = {}
          OBVIOUS
        <5>3. n \notin 1 .. j - 1
          BY <3>2, <5>2
        <5> QED
          BY <2>4, <5>1, <5>3
      <4>3. ASSUME NEW j \in first
            PROVE  Normalized(c.fields[j]) \subseteq Normalized(c.fields[n])
        <5>1. j \in 1 .. Len(c.fields) /\ (j < n \/ j = n)
          <6> HIDE DEF first
          <6> QED
            BY <1>1, <2>4, <4>2
        <5> QED
          BY <2>7, <5>1
      <4>4. FirstDate(c.fields) = UNION {Normalized(c.fields[j]) : j \in first}
        BY DEF FirstDate
      <4> HIDE DEF first
      <4> QED
        BY <4>1, <4>3, <4>4
    <3> QED
      BY <2>4, <3>1, <3>3, <3>4
  <2> QED
    BY <1>1, <2>4, <2>6, <2>8
<1> QED
  BY <1>3, <1>4

\* What is written are the time zones and the entries in range, at whatever place.
LEMMA FilterKeeps ==
  ASSUME NEW from, NEW to, NEW cal \in Seq(Component), NEW i \in DOMAIN cal
  PROVE  Contains(Filter(from, to, cal), cal[i])
           <=> cal[i].name = "VTIMEZONE" \/ Included(from, to, cal[i])
<1> DEFINE zones   == {k \in DOMAIN cal : cal[k].name = "VTIMEZONE"}
           entries == {k \in DOMAIN cal : Included(from, to, cal[k])}
           z == Chosen(cal, zones)
           e == Chosen(cal, entries)
<1>1. /\ zones \in SUBSET DOMAIN cal /\ entries \in SUBSET DOMAIN cal
  OBVIOUS
<1>2. /\ z \in Seq(Component) /\ e \in Seq(Component)
      /\ (\E k \in 1 .. Len(z) : z[k] = cal[i]) <=> (\E k \in zones : cal[k] = cal[i])
      /\ (\E k \in 1 .. Len(e) : e[k] = cal[i]) <=> (\E k \in entries : cal[k] = cal[i])
  <2> HIDE DEF zones, entries
  <2>1. z \in Seq(Component) /\ e \in Seq(Component)
    BY <1>1, ChosenLists
  <2>2. /\ {z[k] : k \in 1 .. Len(z)} = {cal[k] : k \in zones}
        /\ {e[k] : k \in 1 .. Len(e)} = {cal[k] : k \in entries}
    BY <1>1, ChosenMembers
  <2> HIDE DEF z, e
  <2>3. (\E k \in 1 .. Len(z) : z[k] = cal[i]) <=> (\E k \in zones : cal[k] = cal[i])
    BY <2>2
  <2>4. (\E k \in 1 .. Len(e) : e[k] = cal[i]) <=> (\E k \in entries : cal[k] = cal[i])
    BY <2>2
  <2> QED
    BY <2>1, <2>3, <2>4
<1>3. (\E k \in zones : cal[k] = cal[i]) <=> cal[i].name = "VTIMEZONE"
  OBVIOUS
<1>4. (\E k \in entries : cal[k] = cal[i]) <=> Included(from, to, cal[i])
  OBVIOUS
<1>5. Filter(from, to, cal) = z \o e
  BY DEF Filter
<1> HIDE DEF z, e, zones, entries
<1>6. PICK m, n \in Nat : m = Len(z) /\ n = Len(e)
  BY <1>2, LenProperties
<1>7. /\ Len(z \o e) = m + n
      /\ \A k \in 1 .. m : k \in 1 .. m + n /\ (z \o e)[k] = z[k]
      /\ \A k \in 1 .. n : m + k \in 1 .. m + n /\ (z \o e)[m + k] = e[k]
      /\ \A k \in 1 .. m + n : IF k <= m THEN k \in 1 .. m /\ (z \o e)[k] = z[k]
                               ELSE k - m \in 1 .. n /\ (z \o e)[k] = e[k - m]
  <2>1. /\ Len(z \o e) = m + n
        /\ \A k \in 1 .. m + n : (z \o e)[k] = IF k <= m THEN z[k] ELSE e[k - m]
    BY <1>2, <1>6
  <2>2. \A k \in 1 .. n : m + k \in 1 .. m + n /\ ~(m + k <= m) /\ (m + k) - m = k
    OBVIOUS
  <2>3. \A k \in 1 .. n : (z \o e)[m + k] = e[k]
    BY <2>1, <2>2
  <2>4. \A k \in 1 .. m + n : IF k <= m THEN k \in 1 .. m ELSE k - m \in 1 .. n
    OBVIOUS
  <2>5. \A k \in 1 .. m : k \in 1 .. m + n /\ k <= m
    OBVIOUS
  <2>6. /\ \A k \in 1 .. m : k \in 1 .. m + n /\ (z \o e)[k] = z[k]
        /\ \A k \in 1 .. n : m + k \in 1 .. m + n /\ (z \o e)[m + k] = e[k]
    BY <2>1, <2>2, <2>3, <2>5
  <2>7. \A k \in 1 .. m + n : IF k <= m THEN k \in 1 .. m /\ (z \o e)[k] = z[k]
                             ELSE k - m \in 1 .. n /\ (z \o e)[k] = e[k - m]
    BY <2>1, <2>4
  <2> QED
    BY <2>1, <2>6, <2>7
<1>8. (\E k \in 1 .. m + n : (z \o e)[k] = cal[i])
        <=> (\E k \in 1 .. m : z[k] = cal[i]) \/ (\E k \in 1 .. n : e[k] = cal[i])
  <2>1. (\E k \in 1 .. m : z[k] = cal[i]) => \E k \in 1 .. m + n : (z \o e)[k] = cal[i]
    BY <1>7
  <2>2. (\E k \in 1 .. n : e[k] = cal[i]) => \E k \in 1 .. m + n : (z \o e)[k] = cal[i]
    BY <1>7
  <2>3. (\E k \in 1 .. m + n : (z \o e)[k] = cal[i])
          => (\E k \in 1 .. m : z[k] = cal[i]) \/ (\E k \in 1 .. n : e[k] = cal[i])
    BY <1>7
  <2> QED
    BY <2>1, <2>2, <2>3
<1>9. Contains(z \o e, cal[i]) <=> (\E k \in 1 .. m + n : (z \o e)[k] = cal[i])
  BY <1>7 DEF Contains
<1> QED
  BY <1>2, <1>3, <1>4, <1>5, <1>6, <1>8, <1>9

--------------------------------------------------------------------------------
(* Calls of the programs. *)

IcalResult(c) ==
  IF c.input = "broken" \/ FilterRaises(c.from, c.to, c.cal) THEN <<"raised">>
  ELSE <<"written", Filter(c.from, c.to, c.cal)>>

NetResult(c, offset) ==
  IF MaskRaises(c.mask) THEN <<"raised">>
  ELSE IF c.format # "interface_ip" /\ HasHole(Mask(c.mask)) THEN <<"raised">>
  ELSE <<"result", offset, NetList(c.format, c.addr, Mask(c.mask), offset)>>

\* An output is the one of the call.
CallInv ==
  \/ output = "none"
  \/ call \in IcalCall /\ output = IcalResult(call)
  \/ call \in NetCall /\ \E offset \in Offsets \cup {0} : output = NetResult(call, offset)

LEMMA CallsAnswer == ToolsSpec => [](call \in IcalCall \cup NetCall /\ CallInv)
<1> DEFINE Inv == call \in IcalCall \cup NetCall /\ CallInv
<1>1. ToolsInit => Inv
  BY DEF ToolsInit, CallInv
<1>2. Inv /\ [ToolsNext]_toolVars => Inv'
  <2> SUFFICES ASSUME Inv, [ToolsNext]_toolVars
               PROVE  Inv'
    OBVIOUS
  <2>1. CASE FilterCalendar
    <3>1. call \in IcalCall
      BY <2>1 DEF FilterCalendar, NetCall
    <3> QED
      BY <2>1, <3>1 DEF FilterCalendar, CallInv, IcalResult
  <2>2. CASE ListNet
    <3>1. call \in NetCall
      BY <2>2 DEF ListNet, IcalCall
    <3> QED
      BY <2>2, <3>1 DEF ListNet, CallInv, NetResult
  <2>3. CASE UNCHANGED toolVars
    BY <2>3 DEF toolVars, CallInv
  <2> QED
    BY <2>1, <2>2, <2>3 DEF ToolsNext
<1> QED
  BY <1>1, <1>2, PTL DEF ToolsSpec

LEMMA CalendarsAnswer ==
  ASSUME NoChangeAtMidnight, NEW c \in IcalCall
  PROVE  IF IcalResult(c)[1] = "raised"
         THEN \/ c.input = "broken"
              \/ {FromBoundary(c.from), ToBoundary(c.to)} \ Moments # {}
              \/ \E i \in DOMAIN c.cal : \E k \in DOMAIN c.cal[i].fields :
                   ValueRaises(c.cal[i].fields[k])
         ELSE \A i \in DOMAIN c.cal :
                Contains(IcalResult(c)[2], c.cal[i]) <=>
                  \/ c.cal[i].name = "VTIMEZONE"
                  \/ /\ c.cal[i].name \in Filterable
                     /\ \E t \in FirstDate(c.cal[i].fields) :
                          LocalDay(t) \in DayOf(c.from, Epoch) .. DayOf(c.to, Days - 1)
<1>1. c.from \in Option /\ c.to \in Option /\ c.cal \in Seq(Component)
  BY ToolsAssumption DEF IcalCall
<1>2. CASE c.input = "broken" \/ FilterRaises(c.from, c.to, c.cal)
  <2>1. IcalResult(c)[1] = "raised"
    BY <1>2 DEF IcalResult
  <2>2. CASE \E i \in DOMAIN c.cal : c.cal[i].name \in Filterable /\ EventRaises(c.cal[i])
    <3>1. PICK i \in DOMAIN c.cal : EventRaises(c.cal[i])
      BY <2>2
    <3>2. PICK e \in Component : e = c.cal[i]
      BY <1>1, <3>1, ElementOfSeq
    <3>3. PICK k \in DOMAIN Checked(e) : ValueRaises(Checked(e)[k])
      BY <3>1, <3>2 DEF EventRaises
    <3>4. k \in DOMAIN e.fields /\ ValueRaises(e.fields[k])
      BY <3>3, CheckedFields
    <3> QED
      BY <2>1, <3>2, <3>4
  <2> QED
    BY <1>2, <2>1, <2>2 DEF FilterRaises
<1>3. CASE ~(c.input = "broken" \/ FilterRaises(c.from, c.to, c.cal))
  <2>1. IcalResult(c)[1] # "raised" /\ IcalResult(c)[2] = Filter(c.from, c.to, c.cal)
    BY <1>3 DEF IcalResult
  <2>2. ASSUME NEW i \in DOMAIN c.cal
        PROVE  Included(c.from, c.to, c.cal[i]) <=>
                 /\ c.cal[i].name \in Filterable
                 /\ \E t \in FirstDate(c.cal[i].fields) :
                      LocalDay(t) \in DayOf(c.from, Epoch) .. DayOf(c.to, Days - 1)
    <3>1. PICK e \in Component : e = c.cal[i]
      BY <1>1, ElementOfSeq
    <3>2. CASE e.name \in Filterable
      <4>1. ~EventRaises(e)
        BY <1>3, <3>1, <3>2 DEF FilterRaises
      <4>2. EventDate(e) = FirstDate(e.fields) /\ \A t \in EventDate(e) : t \in Moments
        BY <4>1, CheckedFields
      <4>3. PICK first, last \in -1 .. Days :
              first = FirstDay(c.from) /\ first = DayOf(c.from, Epoch)
                /\ last = LastDay(c.to) /\ last = DayOf(c.to, Days - 1)
        BY <1>1, OptionDays
      <4>4. ASSUME NEW t \in EventDate(e)
            PROVE  FromBoundary(c.from) <= t /\ t <= ToBoundary(c.to) <=> LocalDay(t) \in first .. last
        <5>1. t \in Moments
          BY <4>2
        <5>2. FromBoundary(c.from) = Utc(first * Day) /\ ToBoundary(c.to) = Utc((last + 1) * Day - 1)
          BY <4>3 DEF FromBoundary, ToBoundary
        <5>3. Utc(first * Day) <= t /\ t <= Utc((last + 1) * Day - 1) <=> Today(t) \in first .. last
          BY <5>1, BoundariesHoldDays
        <5>4. LocalDay(t) = Today(t)
          BY <5>1, LatestMidnight
        <5> QED
          BY <5>2, <5>3, <5>4
      <4>5. Included(c.from, c.to, e) <=>
              \E t \in EventDate(e) : FromBoundary(c.from) <= t /\ t <= ToBoundary(c.to)
        BY <3>2 DEF Included
      <4> QED
        BY <3>1, <3>2, <4>2, <4>3, <4>4, <4>5
    <3>3. CASE e.name \notin Filterable
      BY <3>1, <3>3 DEF Included
    <3> QED
      BY <3>2, <3>3
  <2>3. \A i \in DOMAIN c.cal :
          Contains(Filter(c.from, c.to, c.cal), c.cal[i])
            <=> c.cal[i].name = "VTIMEZONE" \/ Included(c.from, c.to, c.cal[i])
    BY <1>1, FilterKeeps
  <2> QED
    BY <2>1, <2>2, <2>3
<1> QED
  BY <1>2, <1>3

\* filter-ical.py writes exactly the time zones and the entries of the local days
\* it was asked for, for every calendar and every clock that is not changed at
\* midnight.
THEOREM DaysAreExact ==
  ASSUME NoChangeAtMidnight
  PROVE  ToolsSpec => []DaysExact
<1>1. call \in IcalCall \cup NetCall /\ CallInv => DaysExact
  <2> SUFFICES ASSUME call \in IcalCall \cup NetCall, CallInv, output # "none", call.tool = "ical"
               PROVE  DaysExact
    BY DEF DaysExact
  <2>1. call \in IcalCall /\ output = IcalResult(call)
    BY DEF CallInv, NetCall
  <2> QED
    BY <2>1, CalendarsAnswer DEF DaysExact
<1> QED
  BY <1>1, CallsAnswer, PTL

--------------------------------------------------------------------------------
(* Powers of two: the subsets of a set of n members are counted by 2 ^ n,  *)
(* which gives the laws without an induction.                              *)

LEMMA PowersAreCounts ==
  ASSUME NEW S, IsFiniteSet(S)
  PROVE  /\ IsFiniteSet(SUBSET S) /\ Cardinality(SUBSET S) = 2 ^ Cardinality(S)
         /\ 2 ^ Cardinality(S) \in Nat \ {0}
<1>1. IsFiniteSet(SUBSET S) /\ Cardinality(SUBSET S) = 2 ^ Cardinality(S)
  BY FS_SUBSET
<1>2. Cardinality(SUBSET S) \in Nat /\ Cardinality(SUBSET S) # 0
  BY <1>1, FS_CardinalityType, FS_EmptySet
<1> QED
  BY <1>1, <1>2

\* A subset of A and one of B are a subset of both.
LEMMA SubsetsApart ==
  ASSUME NEW A, NEW B, A \cap B = {}
  PROVE  ExistsBijection((SUBSET A) \X (SUBSET B), SUBSET (A \cup B))
<1> DEFINE P == (SUBSET A) \X (SUBSET B)
           f == [p \in P |-> p[1] \cup p[2]]
<1>0. \A p \in P : p = <<p[1], p[2]>> /\ p[1] \subseteq A /\ p[2] \subseteq B
  OBVIOUS
<1>1. f \in [P -> SUBSET (A \cup B)]
  <2> HIDE DEF P
  <2>1. \A p \in P : p[1] \cup p[2] \in SUBSET (A \cup B)
    BY <1>0
  <2> QED
    BY <2>1
<1>2. \A p, q \in P : f[p] = f[q] => p = q
  <2> SUFFICES ASSUME NEW p \in P, NEW q \in P, f[p] = f[q] PROVE p = q
    OBVIOUS
  <2> HIDE DEF P
  <2>1. f[p] = p[1] \cup p[2] /\ f[q] = q[1] \cup q[2]
    OBVIOUS
  <2>2. p[1] = q[1] /\ p[2] = q[2]
    <3> HIDE DEF f
    <3>1. /\ p[1] = f[p] \cap A /\ p[2] = f[p] \cap B
          /\ q[1] = f[q] \cap A /\ q[2] = f[q] \cap B
      BY <1>0, <2>1
    <3>2. f[p] = f[q]
      OBVIOUS
    <3> QED
      BY <3>1, <3>2
  <2> QED
    BY <1>0, <2>2
<1>3. \A c \in SUBSET (A \cup B) : \E p \in P : f[p] = c
  <2> SUFFICES ASSUME NEW c \in SUBSET (A \cup B) PROVE \E p \in P : f[p] = c
    OBVIOUS
  <2>1. c \cap A \in SUBSET A /\ c \cap B \in SUBSET B /\ c = (c \cap A) \cup (c \cap B)
    OBVIOUS
  <2>2. <<c \cap A, c \cap B>> \in P
    BY <2>1
  <2>3. f[<<c \cap A, c \cap B>>] = (c \cap A) \cup (c \cap B)
    BY <2>2
  <2> QED
    BY <2>1, <2>2, <2>3
<1> HIDE DEF P, f
<1>4. f \in Bijection(P, SUBSET (A \cup B))
  BY <1>1, <1>2, <1>3 DEF Bijection, Injection, Surjection, IsInjective
<1> QED
  BY <1>4 DEF ExistsBijection, P

LEMMA PowerSum ==
  ASSUME NEW m \in Nat, NEW n \in Nat
  PROVE  2 ^ (m + n) = 2 ^ m * 2 ^ n
<1>1. PICK A, B : /\ A = 1 .. m /\ B = m + 1 .. m + n
  OBVIOUS
<1>2. A \cap B = {} /\ A \cup B = 1 .. m + n
  BY <1>1
<1>3. /\ IsFiniteSet(A) /\ Cardinality(A) = m
      /\ IsFiniteSet(B) /\ Cardinality(B) = n
      /\ IsFiniteSet(A \cup B) /\ Cardinality(A \cup B) = m + n
  <2>1. IsFiniteSet(1 .. m) /\ Cardinality(1 .. m) = m
    BY FS_Interval
  <2>2. IsFiniteSet(1 .. m + n) /\ Cardinality(1 .. m + n) = m + n
    <3>1. PICK b \in Nat : b = m + n
      OBVIOUS
    <3>2. IsFiniteSet(1 .. b) /\ Cardinality(1 .. b) = IF 1 > b THEN 0 ELSE b - 1 + 1
      BY FS_Interval
    <3> QED
      BY <3>1, <3>2
  <2>3. IsFiniteSet(m + 1 .. m + n) /\ Cardinality(m + 1 .. m + n) = n
    <3>1. PICK a, b \in Int : a = m + 1 /\ b = m + n
      OBVIOUS
    <3>2. IsFiniteSet(a .. b) /\ Cardinality(a .. b) = IF a > b THEN 0 ELSE b - a + 1
      BY FS_Interval
    <3> QED
      BY <3>1, <3>2
  <2> QED
    BY <1>1, <1>2, <2>1, <2>2, <2>3
<1>4. /\ IsFiniteSet(SUBSET A) /\ IsFiniteSet(SUBSET B)
  BY <1>3, FS_SUBSET
<1>5. PICK P : P = (SUBSET A) \X (SUBSET B)
  OBVIOUS
<1>6. IsFiniteSet(P) /\ Cardinality(P) = Cardinality(SUBSET A) * Cardinality(SUBSET B)
  BY <1>4, <1>5, FS_Product
<1>7. Cardinality(SUBSET (A \cup B)) = Cardinality(P)
  BY <1>2, <1>5, <1>6, SubsetsApart, FS_Bijection
<1>8. /\ Cardinality(SUBSET A) = 2 ^ m /\ Cardinality(SUBSET B) = 2 ^ n
      /\ Cardinality(SUBSET (A \cup B)) = 2 ^ (m + n)
  BY <1>3, FS_SUBSET
<1> QED
  BY <1>6, <1>7, <1>8

LEMMA PowerFacts ==
  /\ 2 ^ 0 = 1 /\ 2 ^ 1 = 2
  /\ \A n \in Nat : 2 ^ n \in Nat \ {0}
  /\ \A m, n \in Nat : m <= n => 2 ^ n = 2 ^ m * 2 ^ (n - m) /\ 2 ^ m <= 2 ^ n
  /\ \A m, n \in Nat : m < n => 2 * 2 ^ m <= 2 ^ n
<1>1. 2 ^ 0 = 1 /\ 2 ^ 1 = 2
  OBVIOUS
<1>2. ASSUME NEW n \in Nat
      PROVE  2 ^ n \in Nat \ {0}
  <2>1. IsFiniteSet(1 .. n) /\ Cardinality(1 .. n) = n
    BY FS_Interval
  <2> QED
    BY <2>1, PowersAreCounts
<1>3. ASSUME NEW m \in Nat, NEW n \in Nat, m <= n
      PROVE  2 ^ n = 2 ^ m * 2 ^ (n - m) /\ 2 ^ m <= 2 ^ n
  <2>1. PICK d \in Nat : d = n - m /\ n = m + d
    BY <1>3
  <2>2. 2 ^ (m + d) = 2 ^ m * 2 ^ d
    BY PowerSum
  <2>3. 2 ^ m \in Nat \ {0} /\ 2 ^ d \in Nat \ {0}
    BY <1>2
  <2>4. \A x, y \in Nat \ {0} : x <= x * y
    OBVIOUS
  <2> QED
    BY <2>1, <2>2, <2>3, <2>4
<1>4. ASSUME NEW m \in Nat, NEW n \in Nat, m < n
      PROVE  2 * 2 ^ m <= 2 ^ n
  <2>1. PICK k \in Nat : k = m + 1 /\ k <= n
    BY <1>4
  <2>2. 2 ^ (m + 1) = 2 ^ m * 2 ^ 1
    BY PowerSum
  <2>3. 2 ^ k <= 2 ^ n
    BY <1>3, <2>1
  <2>4. 2 ^ m \in Nat /\ 2 ^ n \in Nat
    BY <1>2
  <2> QED
    BY <1>1, <2>1, <2>2, <2>3, <2>4
<1> QED
  BY <1>1, <1>2, <1>3, <1>4

--------------------------------------------------------------------------------
(* Division. *)

LEMMA Division ==
  ASSUME NEW n \in Int, NEW b \in Nat \ {0}
  PROVE  /\ n \div b \in Int /\ n % b \in 0 .. b - 1 /\ n = b * (n \div b) + (n % b)
         /\ \A q \in Int : n \div b = q <=> q * b <= n /\ n < q * b + b
         /\ \A q \in Int, r \in 0 .. b - 1 : n = b * q + r => n \div b = q /\ n % b = r
OBVIOUS

LEMMA DivisionTwice ==
  ASSUME NEW n \in Int, NEW a \in Nat \ {0}, NEW b \in Nat \ {0}
  PROVE  n \div (a * b) = (n \div a) \div b
OBVIOUS

\* A digit of a number, from what is below the next one.
LEMMA DigitOfRest ==
  ASSUME NEW n \in Int, NEW a \in Nat \ {0}, NEW b \in Nat \ {0}
  PROVE  (n \div a) % b = (n % (a * b)) \div a
<1>1. PICK q \in Int, r \in 0 .. a * b - 1 : n = (a * b) * q + r /\ n % (a * b) = r
  OBVIOUS
<1>2. PICK d \in Int, e \in 0 .. a - 1 : r = a * d + e /\ r \div a = d
  BY <1>1
<1>3. d \in 0 .. b - 1
  <2>1. 0 <= d
    BY <1>1, <1>2
  <2>2. a * d < a * b
    BY <1>1, <1>2
  <2> QED
    BY <2>1, <2>2
<1>4. n = a * (b * q + d) + e
  BY <1>1, <1>2
<1>5. n \div a = b * q + d
  BY <1>2, <1>4
<1>6. (b * q + d) % b = d
  BY <1>3
<1> QED
  BY <1>1, <1>2, <1>5, <1>6

--------------------------------------------------------------------------------
(* Addresses and their numbers. *)

LEMMA Weights ==
  /\ Base \in Nat /\ Base >= 2 /\ Bits \in Nat /\ 2 ^ Bits \in Nat \ {0}
  /\ Weight(4) = 1 /\ Weight(3) = Base /\ Weight(2) = Base * Base
  /\ Weight(1) = Base * (Base * Base) /\ 2 ^ Bits = Base * (Base * (Base * Base))
<1>1. Width \in Nat \ {0}
  BY WidthAssumption
<1>2. Base \in Nat \ {0} /\ 2 <= Base
  <2>1. 2 ^ Width \in Nat \ {0} /\ 2 * 2 ^ 0 <= 2 ^ Width
    BY <1>1, PowerFacts
  <2> QED
    BY <2>1, PowerFacts DEF Base
<1>3. /\ 2 ^ (Width + Width) = Base * Base
      /\ 2 ^ (Width + (Width + Width)) = Base * 2 ^ (Width + Width)
      /\ 2 ^ (Width + (Width + (Width + Width))) = Base * 2 ^ (Width + (Width + Width))
  <2>1. Width \in Nat /\ Width + Width \in Nat /\ Width + (Width + Width) \in Nat
    BY <1>1
  <2> QED
    BY <2>1, PowerSum DEF Base
<1>4. /\ (4 - 4) * Width = 0 /\ (4 - 3) * Width = Width /\ (4 - 2) * Width = Width + Width
      /\ (4 - 1) * Width = Width + (Width + Width)
      /\ 4 * Width = Width + (Width + (Width + Width)) /\ 4 * Width \in Nat
  BY <1>1
<1>5. /\ Weight(4) = 2 ^ 0 /\ Weight(3) = 2 ^ Width /\ Weight(2) = 2 ^ (Width + Width)
      /\ Weight(1) = 2 ^ (Width + (Width + Width))
      /\ 2 ^ Bits = 2 ^ (Width + (Width + (Width + Width))) /\ Bits \in Nat
  BY <1>4 DEF Weight, Bits
<1>6. 2 ^ Bits \in Nat \ {0}
  BY <1>5, PowerFacts
<1> QED
  BY <1>2, <1>3, <1>5, <1>6, PowerFacts DEF Base

LEMMA NumberTypes ==
  ASSUME NEW a \in Address
  PROVE  Number(a) \in 0 .. 2 ^ Bits - 1
<1>1. PICK b \in Nat : b = Base /\ b >= 2
  BY Weights
<1>2. PICK d1, d2, d3, d4 \in 0 .. b - 1 : d1 = a[1] /\ d2 = a[2] /\ d3 = a[3] /\ d4 = a[4]
  BY <1>1 DEF Address, Octets
<1>3. Number(a) = d1 * (b * (b * b)) + d2 * (b * b) + d3 * b + d4 * 1
  BY <1>1, <1>2, Weights DEF Number
<1>4. \A p \in Nat \ {0} : \A x \in 0 .. p - 1 : \A y \in 0 .. b - 1 : x * b + y \in 0 .. p * b - 1
  <2> SUFFICES ASSUME NEW p \in Nat \ {0}, NEW x \in 0 .. p - 1, NEW y \in 0 .. b - 1
               PROVE  x * b + y \in 0 .. p * b - 1
    OBVIOUS
  <2>1. x * b <= (p - 1) * b /\ (p - 1) * b = p * b - b
    BY <1>1
  <2> QED
    BY <1>1, <2>1
<1>5. PICK x2 \in 0 .. b * b - 1 : x2 = d1 * b + d2
  BY <1>1, <1>4
<1>6. PICK x3 \in 0 .. b * b * b - 1 : x3 = x2 * b + d3
  BY <1>1, <1>4
<1>7. PICK x4 \in 0 .. b * b * b * b - 1 : x4 = x3 * b + d4
  <2>1. b * b * b \in Nat \ {0}
    BY <1>1
  <2> QED
    BY <1>4, <2>1
<1>8. x4 = d1 * (b * (b * b)) + d2 * (b * b) + d3 * b + d4 * 1
  BY <1>1, <1>5, <1>6, <1>7
<1>9. 2 ^ Bits = b * b * b * b
  BY <1>1, Weights
<1> QED
  BY <1>3, <1>7, <1>8, <1>9

LEMMA AddressTypes ==
  ASSUME NEW n \in Int
  PROVE  ToAddress(n) \in Address
<1>1. ASSUME NEW i \in 1 .. 4
      PROVE  (n \div Weight(i)) % Base \in Octets
  <2>1. Weight(i) \in Nat \ {0} /\ Base \in Nat \ {0}
    BY Weights
  <2>2. n \div Weight(i) \in Int
    BY <2>1, Division
  <2> QED
    BY <2>1, <2>2, Division DEF Octets
<1> QED
  BY <1>1 DEF ToAddress, Address

LEMMA NumbersReturn ==
  ASSUME NEW n \in 0 .. 2 ^ Bits - 1
  PROVE  Number(ToAddress(n)) = n
<1>1. PICK b \in Nat : b = Base /\ b >= 2
  BY Weights
<1>2. /\ 2 ^ Bits = b * (b * (b * b)) /\ 2 ^ Bits \in Nat /\ n \in Nat
      /\ b * b \in Nat \ {0} /\ b * (b * b) \in Nat \ {0}
  BY <1>1, Weights
<1>3. PICK q1, r1 \in Nat : q1 = n \div b /\ r1 = n % b /\ n = b * q1 + r1
  BY <1>1, <1>2
<1>4. PICK q2, r2 \in Nat : q2 = q1 \div b /\ r2 = q1 % b /\ q1 = b * q2 + r2
  BY <1>1
<1>5. PICK q3, r3 \in Nat : q3 = q2 \div b /\ r3 = q2 % b /\ q2 = b * q3 + r3
  BY <1>1
<1>6. q2 = n \div (b * b) /\ q3 = n \div ((b * b) * b)
  <2>1. \A x \in Nat : \A c, d \in Nat \ {0} : x \div (c * d) = (x \div c) \div d
    OBVIOUS
  <2>2. b \in Nat \ {0} /\ b * b \in Nat \ {0} /\ n \in Nat
    BY <1>1, <1>2
  <2>3. n \div (b * b) = (n \div b) \div b
    BY <2>1, <2>2
  <2>4. n \div ((b * b) * b) = (n \div (b * b)) \div b
    BY <2>1, <2>2
  <2> QED
    BY <1>3, <1>4, <1>5, <2>3, <2>4
<1>7. q3 % b = q3
  <2>1. PICK p \in Nat \ {0} : p = (b * b) * b /\ p * b = b * (b * (b * b))
    BY <1>1
  <2>2. n = p * q3 + (n % p) /\ n % p \in 0 .. p - 1
    <3>1. n = p * (n \div p) + (n % p) /\ n % p \in 0 .. p - 1
      <4>1. n \in Int /\ p \in Nat \ {0}
        BY <1>2
      <4> QED
        BY ONLY <4>1, Division
    <3>2. q3 = n \div p
      BY <1>6, <2>1
    <3> QED
      BY <3>1, <3>2
  <2>3. p * q3 < p * b
    BY <1>1, <1>2, <2>1, <2>2
  <2>4. q3 < b
    BY <1>1, <2>1, <2>3
  <2> QED
    BY <1>1, <2>4
<1>8. n \div 1 = n
  BY <1>2
<1>9. PICK a : a = ToAddress(n)
  OBVIOUS
<1>10. a[1] = q3 /\ a[2] = r3 /\ a[3] = r2 /\ a[4] = r1
  <2>1. b * (b * b) = (b * b) * b
    BY <1>1
  <2> QED
    BY <1>1, <1>3, <1>4, <1>5, <1>6, <1>7, <1>8, <1>9, <2>1, Weights DEF ToAddress
<1>11. Number(a) = q3 * (b * (b * b)) + r3 * (b * b) + r2 * b + r1 * 1
  BY <1>1, <1>10, Weights DEF Number
<1>12. n = q3 * (b * (b * b)) + r3 * (b * b) + r2 * b + r1 * 1
  <2>1. q1 = b * (b * q3) + b * r3 + r2
    <3>1. b * q2 = b * (b * q3) + b * r3
      BY <1>1, <1>5
    <3> QED
      BY <1>1, <1>4, <3>1
  <2>2. b * q1 = b * (b * (b * q3)) + b * (b * r3) + b * r2
    BY <1>1, <2>1
  <2> QED
    BY <1>1, <1>3, <2>2
<1> QED
  BY <1>9, <1>11, <1>12

--------------------------------------------------------------------------------
(* Networks: a block of numbers, from the first address on. *)

\* The number of the first address of a network, and how many it has.
Block(mask)       == 2 ^ (Bits - NetSize(mask))
First(addr, mask) == (Number(addr) \div Block(mask)) * Block(mask)

LEMMA SizesExist ==
  ASSUME NEW mask \in Address
  PROVE  /\ NetSize(mask) \in 0 .. Bits
         /\ Number(mask) % 2 ^ (Bits - NetSize(mask)) = 0
<1> DEFINE ends == {n \in 0 .. Bits : Number(mask) % 2 ^ (Bits - n) = 0}
<1>1. Bits \in Nat /\ Number(mask) \in Nat
  BY Weights, NumberTypes
<1>2. Bits \in ends
  <2>1. Bits - Bits = 0 /\ Number(mask) % 1 = 0
    BY <1>1
  <2> QED
    BY <1>1, <2>1, PowerFacts
<1>3. ends \in SUBSET Nat /\ IsFiniteSet(ends)
  <2>1. IsFiniteSet(0 .. Bits)
    BY <1>1, FS_Interval
  <2> QED
    BY <1>1, <2>1, FS_Subset
<1>4. PICK least \in ends : \A n \in ends : least <= n
  <2> HIDE DEF ends
  <2> QED
    BY <1>2, <1>3, LeastAndGreatest
<1>5. least = 0 \/ Number(mask) % 2 ^ (Bits - least + 1) # 0
  <2> SUFFICES ASSUME least # 0
               PROVE  Number(mask) % 2 ^ (Bits - least + 1) # 0
    OBVIOUS
  <2>1. least - 1 \in 0 .. Bits /\ least - 1 \notin ends
    <3>1. least \in 0 .. Bits
      OBVIOUS
    <3>2. least - 1 \in 0 .. Bits /\ ~ least <= least - 1
      BY ONLY <3>1, <1>1, least # 0
    <3> HIDE DEF ends
    <3> QED
      BY ONLY <3>2, <1>4
  <2>2. Bits - (least - 1) = Bits - least + 1
    BY <1>1
  <2> QED
    BY <2>1, <2>2
<1>6. \E n \in 0 .. Bits : /\ Number(mask) % 2 ^ (Bits - n) = 0
                           /\ n = 0 \/ Number(mask) % 2 ^ (Bits - n + 1) # 0
  BY <1>4, <1>5
<1> QED
  BY <1>6 DEF NetSize

LEMMA Blocks ==
  ASSUME NEW mask \in Address
  PROVE  /\ Block(mask) \in Nat \ {0} /\ Block(mask) <= 2 ^ Bits
         /\ 2 ^ NetSize(mask) \in Nat \ {0}
         /\ 2 ^ Bits = 2 ^ NetSize(mask) * Block(mask)
<1>1. PICK size \in Nat : size = NetSize(mask) /\ size <= Bits /\ Bits - size \in Nat /\ Bits \in Nat
  BY SizesExist, Weights
<1>2. /\ 2 ^ Bits = 2 ^ size * 2 ^ (Bits - size)
      /\ 2 ^ size \in Nat \ {0} /\ 2 ^ (Bits - size) \in Nat \ {0}
      /\ 2 ^ (Bits - size) <= 2 ^ Bits
  <2>1. Bits - size <= Bits
    BY <1>1
  <2> QED
    BY <1>1, <2>1, PowerFacts
<1> QED
  BY <1>1, <1>2 DEF Block

\* The numbers of a network are those of one block, and all of them are packed.
LEMMA FirstNumbers ==
  ASSUME NEW addr \in Address, NEW mask \in Address
  PROVE  /\ First(addr, mask) \in Nat
         /\ First(addr, mask) + Block(mask) <= 2 ^ Bits
         /\ First(addr, mask) \div Block(mask) = Number(addr) \div Block(mask)
         /\ \A n \in Int : n \div Block(mask) = Number(addr) \div Block(mask)
                             <=> First(addr, mask) <= n /\ n < First(addr, mask) + Block(mask)
<1>1. PICK h \in Nat \ {0} : h = Block(mask)
  BY Blocks
<1>2. PICK k \in Nat \ {0} : k = 2 ^ NetSize(mask)
  BY Blocks
<1>3. PICK n \in Nat : n = Number(addr) /\ n < k * h /\ 2 ^ Bits = k * h
  <2>1. 2 ^ Bits = k * h
    BY <1>1, <1>2, Blocks
  <2> QED
    BY <2>1, NumberTypes, <1>1, <1>2
<1>4. PICK q \in Int : q = n \div h
  BY <1>1, Division
<1>5. q * h <= n /\ n < q * h + h
  BY <1>1, <1>4, Division
<1>6. q \in Nat /\ q < k
  <2>1. 0 <= q
    BY <1>1, <1>4
  <2>2. q * h < k * h
    BY <1>1, <1>2, <1>3, <1>5
  <2>3. q < k
    BY <1>1, <1>2, <2>2
  <2> QED
    BY <2>1, <2>3
<1>7. q * h \in Nat /\ q * h + h <= k * h
  <2>1. (q + 1) * h <= k * h
    BY <1>1, <1>2, <1>6
  <2> QED
    BY <1>1, <1>6, <2>1
<1>8. \A m \in Int : m \div h = q <=> q * h <= m /\ m < q * h + h
  BY <1>1, <1>4, Division
<1>9. (q * h) \div h = q
  BY <1>1, <1>7, <1>8
<1>10. First(addr, mask) = q * h
  BY <1>1, <1>3, <1>4 DEF First
<1> QED
  BY <1>1, <1>3, <1>4, <1>7, <1>8, <1>9, <1>10

LEMMA Networks ==
  ASSUME NEW addr \in Address, NEW mask \in Address
  PROVE  /\ Start(addr, mask) = ToAddress(First(addr, mask))
         /\ Start(addr, mask) \in Address
         /\ Number(Start(addr, mask)) = First(addr, mask)
         /\ End(addr, mask) = <<ToAddress(First(addr, mask) + Block(mask) - 1)>>
         /\ \A a \in Address : a \in Network(addr, mask)
                                 <=> /\ First(addr, mask) <= Number(a)
                                     /\ Number(a) < First(addr, mask) + Block(mask)
         /\ \A n \in 0 .. 2 ^ Bits - 1 :
              ToAddress(n) \in Network(addr, mask)
                <=> First(addr, mask) <= n /\ n < First(addr, mask) + Block(mask)
<1>1. PICK h \in Nat \ {0} : h = Block(mask)
  BY Blocks
<1>2. PICK f \in Nat : f = First(addr, mask) /\ f + h <= 2 ^ Bits /\ 2 ^ Bits \in Nat
  BY <1>1, FirstNumbers, Weights
<1>3. Start(addr, mask) = ToAddress(f)
  BY <1>2 DEF Start, NetStart, First, Block
<1>4. Number(Start(addr, mask)) = f /\ Start(addr, mask) \in Address
  <2>1. f \in 0 .. 2 ^ Bits - 1 /\ f \in Int
    BY <1>1, <1>2
  <2> QED
    BY <1>3, <2>1, NumbersReturn, AddressTypes
<1>5. End(addr, mask) = <<ToAddress(f + h - 1)>>
  <2>1. Number(Start(addr, mask)) + Size(addr, mask) - 1 = f + h - 1
    BY <1>1, <1>4 DEF Size, Cidr, Block
  <2>2. Packs(f + h - 1)
    BY <1>1, <1>2 DEF Packs
  <2> QED
    BY <2>1, <2>2 DEF End
<1>6. ASSUME NEW a \in Address
      PROVE  a \in Network(addr, mask) <=> f <= Number(a) /\ Number(a) < f + h
  <2>1. a \in Network(addr, mask) <=> Number(a) \div h = Number(addr) \div h
    BY <1>1 DEF Network, Block
  <2>2. Number(a) \in Int
    BY NumberTypes, <1>2
  <2> QED
    BY <1>1, <1>2, <2>1, <2>2, FirstNumbers
<1>7. ASSUME NEW n \in 0 .. 2 ^ Bits - 1
      PROVE  ToAddress(n) \in Network(addr, mask) <=> f <= n /\ n < f + h
  <2>1. ToAddress(n) \in Address
    BY AddressTypes, <1>2
  <2> QED
    BY <1>6, <2>1, NumbersReturn
<1> QED
  BY <1>1, <1>2, <1>3, <1>4, <1>5, <1>6, <1>7

\* The names are made from the first address, whose network is the same one.
LEMMA StartsAgain ==
  ASSUME NEW addr \in Address, NEW mask \in Address
  PROVE  /\ First(Start(addr, mask), mask) = First(addr, mask)
         /\ Start(Start(addr, mask), mask) = Start(addr, mask)
         /\ End(Start(addr, mask), mask) = End(addr, mask)
<1>1. Start(addr, mask) \in Address /\ Number(Start(addr, mask)) = First(addr, mask)
  BY Networks
<1>2. First(Start(addr, mask), mask) = First(addr, mask)
  BY <1>1, FirstNumbers DEF First
<1> QED
  BY <1>1, <1>2, Networks

--------------------------------------------------------------------------------
(* The formats of net_list. *)

LEMMA OffsetTypes == Offsets \subseteq Int
<1>1. ASSUME NEW k \in 0 .. Bits
      PROVE  {2 ^ k - 1, 2 ^ k, -(2 ^ k)} \subseteq Int
  <2>1. 2 ^ k \in Nat
    BY Weights, PowerFacts
  <2> QED
    BY <2>1
<1> QED
  BY <1>1 DEF Offsets

\* net_calc: an offset leads into the network exactly while it is smaller.
LEMMA OffsetsLead ==
  ASSUME NEW addr \in Address, NEW mask \in Address, NEW offset \in Int
  PROVE  LET result == CalcIp(Start(addr, mask), mask, offset) IN
         (result # <<>> /\ result[1] \in Network(addr, mask))
           <=> (offset < Block(mask) /\ -offset < Block(mask))
<1>1. PICK h \in Nat \ {0} : h = Block(mask)
  BY Blocks
<1>2. PICK f \in Nat : f = First(addr, mask) /\ f + h <= 2 ^ Bits /\ 2 ^ Bits \in Nat
  BY <1>1, FirstNumbers, Weights
<1> DEFINE result == CalcIp(Start(addr, mask), mask, offset)
<1>3. ASSUME NEW n \in Int,
             result = IF Packs(n) THEN <<ToAddress(n)>> ELSE <<>>
      PROVE  (result # <<>> /\ result[1] \in Network(addr, mask)) <=> f <= n /\ n < f + h
  <2>1. CASE n \in 0 .. 2 ^ Bits - 1
    <3>1. result # <<>> /\ result[1] = ToAddress(n)
      BY <1>3, <2>1 DEF Packs
    <3> HIDE DEF result
    <3> QED
      BY <1>1, <1>2, <2>1, <3>1, Networks
  <2>2. CASE n \notin 0 .. 2 ^ Bits - 1
    <3>1. result = <<>>
      BY <1>3, <2>2 DEF Packs
    <3>2. ~(f <= n /\ n < f + h)
      BY <1>1, <1>2, <2>2
    <3> QED
      BY <3>1, <3>2
  <2> QED
    BY <2>1, <2>2
<1>4. CASE offset < 0
  <2>1. Number(ToAddress(f + h - 1)) = f + h - 1
    <3>1. f + h - 1 \in 0 .. 2 ^ Bits - 1
      BY <1>1, <1>2
    <3> QED
      BY <3>1, NumbersReturn
  <2>2. End(Start(addr, mask), mask) = <<ToAddress(f + h - 1)>>
    BY <1>1, <1>2, Networks, StartsAgain
  <2>3. result = IF Packs(f + h - 1 + offset) THEN <<ToAddress(f + h - 1 + offset)>> ELSE <<>>
    BY <1>4, <2>1, <2>2 DEF CalcIp
  <2>4. f + h - 1 + offset \in Int
    BY <1>1, <1>2
  <2> HIDE DEF result
  <2>5. (result # <<>> /\ result[1] \in Network(addr, mask))
          <=> f <= f + h - 1 + offset /\ f + h - 1 + offset < f + h
    BY <1>3, <2>3, <2>4
  <2>6. f <= f + h - 1 + offset /\ f + h - 1 + offset < f + h <=> offset < h /\ -offset < h
    BY <1>1, <1>2, <1>4
  <2> QED
    BY <1>1, <2>5, <2>6 DEF result
<1>5. CASE offset >= 0
  <2>1. Number(Start(Start(addr, mask), mask)) = f
    BY <1>2, Networks, StartsAgain
  <2>2. result = IF Packs(f + offset) THEN <<ToAddress(f + offset)>> ELSE <<>>
    <3>1. ~ offset < 0
      BY <1>5
    <3> QED
      BY <2>1, <3>1 DEF CalcIp
  <2>3. f + offset \in Int
    BY <1>2
  <2> HIDE DEF result
  <2>4. (result # <<>> /\ result[1] \in Network(addr, mask)) <=> f <= f + offset /\ f + offset < f + h
    BY <1>3, <2>2, <2>3
  <2>5. f <= f + offset /\ f + offset < f + h <=> offset < h /\ -offset < h
    BY <1>1, <1>2, <1>5
  <2> QED
    BY <1>1, <2>4, <2>5 DEF result
<1> QED
  BY <1>4, <1>5

\* An octet that the mask does not cover lies within the block.
LEMMA BlocksCover ==
  ASSUME NEW mask \in Address, ~HasHole(mask), NEW i \in 1 .. 4, mask[i] = 0
  PROVE  \E r \in Nat \ {0} : Block(mask) = (Weight(i) * Base) * r
<1>1. PICK size \in Nat : size = NetSize(mask) /\ size <= Bits /\ Bits - size \in Nat /\ Bits \in Nat
  BY SizesExist, Weights
<1>2. PICK p, b \in Nat \ {0} : p = Weight(i) /\ b = Base /\ b >= 2
  BY Weights
<1>3. PICK e \in Nat : e = (4 - i) * Width + Width /\ e <= Bits /\ p * b = 2 ^ e
  <2>1. /\ Width \in Nat /\ (4 - i) * Width \in Nat /\ (4 - i) * Width + Width \in Nat
        /\ (4 - i) * Width + Width <= 4 * Width
    BY WidthAssumption
  <2>2. 2 ^ ((4 - i) * Width + Width) = 2 ^ ((4 - i) * Width) * 2 ^ Width
    BY <2>1, PowerSum
  <2> QED
    BY <1>2, <2>1, <2>2 DEF Bits, Weight, Base
<1>4. PICK h, w, k, u \in Nat \ {0} :
        h = Block(mask) /\ w = 2 ^ Bits /\ k = 2 ^ (Bits - e) /\ u = 2 ^ e /\ w = u * k
  <2>1. 2 ^ Bits = 2 ^ e * 2 ^ (Bits - e) /\ 2 ^ (Bits - e) \in Nat \ {0} /\ 2 ^ e \in Nat \ {0}
    <3>1. Bits - e \in Nat
      BY <1>1, <1>3
    <3> QED
      BY <1>1, <1>3, <3>1, PowerFacts
  <2>2. 2 ^ Bits \in Nat \ {0} /\ Block(mask) \in Nat \ {0}
    BY Blocks, Weights
  <2> QED
    BY <2>1, <2>2
<1>5. CASE Bits - size < e
  <2>1. 2 * h <= p * b
    BY <1>1, <1>3, <1>4, <1>5, PowerFacts DEF Block
  <2>2. 2 * p <= p * b
    BY <1>2
  <2>3. p * b - h \in 0 .. p * b - 1 /\ p <= p * b - h
    BY <1>2, <1>4, <2>1, <2>2
  <2>4. (w - h) % (p * b) = p * b - h
    <3>1. PICK c \in Nat \ {0} : c = p * b
      BY <1>2
    <3>2. PICK rest \in 0 .. c - 1 : rest = c - h
      BY <2>3, <3>1
    <3>3. PICK t \in Int : t = k - 1
      BY <1>4
    <3>4. PICK n \in Int : n = w - h
      BY <1>4
    <3>5. n = c * t + rest
      <4>1. w = c * k
        BY <1>3, <1>4, <3>1
      <4> QED
        BY <1>4, <3>1, <3>2, <3>3, <3>4, <4>1
    <3>6. n % c = rest
      BY <3>5, Division
    <3> QED
      BY <3>1, <3>2, <3>4, <3>6
  <2>5. (p * b - h) \div p # 0
    <3>1. PICK n \in Int : n = p * b - h
      BY <1>2, <1>4
    <3>2. n \div p = 0 <=> 0 * p <= n /\ n < 0 * p + p
      BY Division
    <3>3. ~ n < 0 * p + p
      BY <2>3, <3>1
    <3> QED
      BY <3>1, <3>2, <3>3
  <2>6. mask[i] = ((w - h) \div p) % b
    BY <1>1, <1>2, <1>4 DEF HasHole, MaskOf, ToAddress, Block
  <2>7. ((w - h) \div p) % b = (p * b - h) \div p
    <3>1. w - h \in Int
      BY <1>4
    <3> QED
      BY <1>2, <2>4, <3>1, DigitOfRest
  <2> QED
    BY <2>5, <2>6, <2>7
<1>6. CASE e <= Bits - size
  <2>1. Bits - size - e \in Nat
    BY <1>1, <1>3, <1>6
  <2>2. 2 ^ (Bits - size) = 2 ^ e * 2 ^ (Bits - size - e) /\ 2 ^ (Bits - size - e) \in Nat \ {0}
    BY <1>1, <1>3, <1>6, <2>1, PowerFacts
  <2> QED
    BY <1>1, <1>2, <1>3, <2>2 DEF Block
<1> QED
  BY <1>1, <1>3, <1>5, <1>6

LEMMA UncoveredOctets ==
  ASSUME NEW addr \in Address, NEW mask \in Address, ~HasHole(mask), NEW i \in 1 .. 4, mask[i] = 0
  PROVE  Start(addr, mask)[i] = 0
<1>1. PICK p, b \in Nat \ {0} : p = Weight(i) /\ b = Base
  BY Weights
<1>2. PICK r \in Nat \ {0} : Block(mask) = (p * b) * r
  BY <1>1, BlocksCover
<1>3. PICK q \in Int : q = Number(addr) \div Block(mask)
  <2>1. Number(addr) \in Int
    BY NumberTypes, Weights
  <2> QED
    BY <2>1, Blocks, Division
<1>4. First(addr, mask) = (p * b) * (r * q) + 0 /\ First(addr, mask) \in Int
  <2>1. First(addr, mask) = q * ((p * b) * r)
    BY <1>2, <1>3 DEF First
  <2> QED
    BY <1>1, <1>2, <1>3, <2>1
<1>5. First(addr, mask) % (p * b) = 0
  <2>1. PICK c \in Nat \ {0} : c = p * b
    BY <1>1
  <2>2. PICK t \in Int : t = r * q
    BY <1>2, <1>3
  <2>3. PICK f \in Int : f = First(addr, mask)
    BY <1>4
  <2>4. f = c * t + 0 /\ 0 \in 0 .. c - 1
    BY <1>4, <2>1, <2>2, <2>3
  <2>5. f % c = 0
    BY <2>4, Division
  <2> QED
    BY <2>1, <2>3, <2>5
<1>6. (First(addr, mask) \div p) % b = 0 \div p
  BY <1>1, <1>4, <1>5, DigitOfRest
<1>7. 0 \div p = 0
  BY <1>1
<1> QED
  BY <1>1, <1>6, <1>7, Networks DEF ToAddress

\* Two addresses have one network if that begins at the same address.
LEMMA StartsTell ==
  ASSUME NEW a \in Address, NEW addr \in Address, NEW mask \in Address
  PROVE  Start(a, mask) = Start(addr, mask) <=> a \in Network(addr, mask)
<1>1. ASSUME a \in Network(addr, mask)
      PROVE  Start(a, mask) = Start(addr, mask)
  <2>1. First(a, mask) = First(addr, mask)
    BY <1>1 DEF Network, First, Block
  <2> QED
    BY <2>1, Networks
<1>2. ASSUME Start(a, mask) = Start(addr, mask)
      PROVE  a \in Network(addr, mask)
  <2>1. First(a, mask) = First(addr, mask)
    BY <1>2, Networks
  <2>2. Number(a) \in Int
    BY NumberTypes, Weights
  <2> QED
    BY <2>1, <2>2, FirstNumbers, Networks
<1> QED
  BY <1>1, <1>2

\* Two networks of one mask have one first address if the octets that it covers
\* are the same.
LEMMA NamesTell ==
  ASSUME NEW a \in Address, NEW addr \in Address, NEW mask \in Address, ~HasHole(mask)
  PROVE  (Short(Start(a, mask), mask) = Short(Start(addr, mask), mask))
           <=> a \in Network(addr, mask)
<1>1. PICK x, y \in Address : x = Start(a, mask) /\ y = Start(addr, mask)
  BY Networks
<1>4. ASSUME Short(x, mask) = Short(y, mask)
      PROVE  x = y
  <2> DEFINE places == Covered(mask)
  <2>1. places \in SUBSET Nat /\ IsFiniteSet(places)
    <3>1. IsFiniteSet(1 .. 4) /\ places \subseteq 1 .. 4
      <4>1. PICK n \in Nat : n = 4
        OBVIOUS
      <4>2. IsFiniteSet(1 .. n)
        BY FS_Interval
      <4>3. places \subseteq 1 .. 4
        BY DEF Covered
      <4> QED
        BY <4>1, <4>2, <4>3
    <3> QED
      BY <3>1, FS_Subset
  <2>2. ASSUME NEW i \in places
        PROVE  x[i] = y[i]
    <3> HIDE DEF places
    <3>1. PICK k \in 1 .. Cardinality(places) : Ascending(places)[k] = i
      BY <2>1, <2>2, AscendingLists
    <3>2. k \in DOMAIN Ascending(places)
      BY <2>1, AscendingLists
    <3>3. Chosen(x, places) = Chosen(y, places)
      BY <1>4 DEF Short, places
    <3>4. Chosen(x, places)[k] = x[i] /\ Chosen(y, places)[k] = y[i]
      BY <3>1, <3>2 DEF Chosen
    <3> QED
      BY <3>3, <3>4
  <2>3. ASSUME NEW i \in 1 .. 4, i \notin places
        PROVE  x[i] = y[i]
    <3>1. mask[i] = 0
      BY <2>3 DEF Covered
    <3> QED
      BY <1>1, <3>1, UncoveredOctets
  <2>4. \A i \in 1 .. 4 : x[i] = y[i]
    BY <2>2, <2>3
  <2> QED
    BY <2>4 DEF Address
<1>5. Short(x, mask) = Short(y, mask) <=> x = y
  BY <1>4
<1> QED
  BY <1>1, <1>5, StartsTell

LEMMA ReversesTell ==
  ASSUME NEW S, NEW s \in Seq(S), NEW t \in Seq(S), Reverse(s) = Reverse(t)
  PROVE  s = t
<1>1. PICK m, n \in Nat : m = Len(s) /\ n = Len(t) /\ DOMAIN s = 1 .. m /\ DOMAIN t = 1 .. n
  BY LenProperties
<1>2. DOMAIN Reverse(s) = 1 .. m /\ DOMAIN Reverse(t) = 1 .. n
  BY <1>1 DEF Reverse
<1>3. m = n
  BY <1>1, <1>2
<1>4. ASSUME NEW i \in 1 .. m
      PROVE  s[i] = t[i]
  <2>1. m - i + 1 \in 1 .. m /\ (m - (m - i + 1)) + 1 = i
    BY <1>1
  <2>2. Reverse(s)[m - i + 1] = s[i] /\ Reverse(t)[m - i + 1] = t[i]
    BY <1>1, <1>3, <2>1 DEF Reverse
  <2> QED
    BY <2>2
<1> QED
  BY <1>1, <1>3, <1>4, SeqEqual

LEMMA AddressesAreLists == ASSUME NEW addr \in Address PROVE addr \in Seq(Octets)
<1>1. addr \in [1 .. 4 -> Octets] /\ 4 \in Nat
  BY DEF Address
<1> QED
  BY <1>1, SeqDef

LEMMA ShortTypes ==
  ASSUME NEW addr \in Address, NEW mask \in Address
  PROVE  Short(addr, mask) \in Seq(Octets)
<1>1. addr \in Seq(Octets)
  BY AddressesAreLists
<1>2. Covered(mask) \in SUBSET DOMAIN addr
  BY DEF Address, Covered
<1> QED
  BY <1>1, <1>2, ChosenLists DEF Short

LEMMA MaskTypes ==
  ASSUME NEW m \in Masks, ~MaskRaises(m)
  PROVE  Mask(m) \in Address
<1>1. CASE m.cidr
  <2>1. 2 ^ Bits - 2 ^ (Bits - m.bits) \in Int
    <3>1. Bits - m.bits \in Nat
      BY <1>1, Weights DEF MaskRaises
    <3> QED
      BY <3>1, Weights, PowerFacts
  <2> QED
    BY <1>1, <2>1, AddressTypes DEF Mask, MaskOf
<1>2. CASE ~m.cidr
  BY <1>2, ToolsAssumption DEF Mask
<1> QED
  BY <1>1, <1>2

LEMMA NetsAnswer ==
  ASSUME NEW c \in NetCall, NEW offset \in Int, ~MaskRaises(c.mask), ~HasHole(Mask(c.mask))
  PROVE  LET mask   == Mask(c.mask)
             net    == Network(c.addr, mask)
             size   == 2 ^ (Bits - NetSize(mask))
             result == NetList(c.format, c.addr, mask, offset)
         IN CASE c.format \in {"net_addr", "net_addr_mask", "net_addr_cidr"} ->
                   /\ result[1] \in net /\ \A a \in net : Number(a) >= Number(result[1])
                   /\ c.format = "net_addr_mask" => Network(result[1], result[2]) = net
                   /\ c.format = "net_addr_cidr" => Network(result[1], MaskOf(result[2])) = net
              [] c.format = "net_broadcast" ->
                   /\ result # <<>> /\ result[1] \in net
                   /\ \A a \in net : Number(a) <= Number(result[1])
              [] c.format = "net_calc" ->
                   (result # <<>> /\ result[1] \in net) <=> (offset < size /\ -offset < size)
              [] c.format \in {"net_short", "net_reverse", "net_reverse_short"} ->
                   \A a \in Addresses :
                     (NetList(c.format, a, mask, offset) = result) <=> (a \in net)
              [] c.format = "interface_ip" -> result[1] \in net
<1>1. PICK mask \in Address : mask = Mask(c.mask) /\ ~HasHole(mask)
  BY MaskTypes DEF NetCall
<1>2. PICK addr \in Address : addr = c.addr
  BY ToolsAssumption DEF NetCall
<1>3. PICK h \in Nat \ {0} : h = Block(mask) /\ h = 2 ^ (Bits - NetSize(mask))
  BY Blocks DEF Block
<1>4. PICK f \in Nat : f = First(addr, mask) /\ f + h <= 2 ^ Bits /\ 2 ^ Bits \in Nat
  BY <1>3, FirstNumbers, Weights
<1>5. PICK net \in SUBSET Address :
        /\ net = Network(addr, mask)
        /\ \A a \in Address : a \in net <=> f <= Number(a) /\ Number(a) < f + h
  <2>1. Network(addr, mask) \in SUBSET Address
    BY DEF Network
  <2> QED
    BY <1>3, <1>4, <2>1, Networks
<1>6. \A a \in Address : Number(a) \in Int
  BY NumberTypes, Weights
<1> DEFINE result(format, a) == NetList(format, a, mask, offset)
<1>7. /\ Start(addr, mask) \in net /\ \A a \in net : Number(a) >= Number(Start(addr, mask))
      /\ Network(Start(addr, mask), mask) = net
  <2>1. Start(addr, mask) \in Address /\ Number(Start(addr, mask)) = f
    BY <1>4, Networks
  <2>2. Start(addr, mask) \in net
    BY <1>3, <1>4, <1>5, <2>1
  <2>3. \A a \in net : Number(a) >= f
    BY <1>4, <1>5, <1>6
  <2>4. Network(Start(addr, mask), mask) = net
    BY <1>5, <2>2 DEF Network
  <2> QED
    BY <2>1, <2>2, <2>3, <2>4
<1>8. /\ result("net_broadcast", addr) # <<>> /\ result("net_broadcast", addr)[1] \in net
      /\ \A a \in net : Number(a) <= Number(result("net_broadcast", addr)[1])
  <2>1. result("net_broadcast", addr) = <<ToAddress(f + h - 1)>>
    <3>1. result("net_broadcast", addr) = End(addr, mask)
      BY DEF NetList
    <3> QED
      BY <1>3, <1>4, <3>1, Networks
  <2>2. PICK last \in 0 .. 2 ^ Bits - 1 : last = f + h - 1
    BY <1>3, <1>4
  <2>3. Number(ToAddress(last)) = last /\ ToAddress(last) \in Address
    <3>1. last \in Int
      BY <2>2, <1>4
    <3> QED
      BY <3>1, NumbersReturn, AddressTypes
  <2>4. ToAddress(last) \in net
    BY <1>3, <1>4, <1>5, <2>2, <2>3
  <2>5. \A a \in net : Number(a) <= last
    BY <1>3, <1>4, <1>5, <1>6, <2>2
  <2>6. result("net_broadcast", addr) # <<>> /\ result("net_broadcast", addr)[1] = ToAddress(last)
    BY <2>1, <2>2
  <2> QED
    BY <2>3, <2>4, <2>5, <2>6
<1>9. (result("net_calc", addr) # <<>> /\ result("net_calc", addr)[1] \in net)
        <=> (offset < h /\ -offset < h)
  <2>1. result("net_calc", addr) = CalcIp(Start(addr, mask), mask, offset)
    BY DEF NetList
  <2> QED
    BY <1>3, <1>5, <2>1, OffsetsLead
<1>10. ASSUME NEW a \in Address
       PROVE  /\ result("net_short", a) = result("net_short", addr) <=> a \in net
              /\ result("net_reverse_short", a) = result("net_reverse_short", addr) <=> a \in net
              /\ result("net_reverse", a) = result("net_reverse", addr) <=> a \in net
  <2>1. PICK x, y \in Seq(Octets) :
          /\ x = Short(Start(a, mask), mask) /\ y = Short(Start(addr, mask), mask)
          /\ x = y <=> a \in net
    <3>1. Start(a, mask) \in Address /\ Start(addr, mask) \in Address
      BY Networks
    <3>2. /\ Short(Start(a, mask), mask) \in Seq(Octets)
          /\ Short(Start(addr, mask), mask) \in Seq(Octets)
      BY <3>1, ShortTypes
    <3>3. Short(Start(a, mask), mask) = Short(Start(addr, mask), mask) <=> a \in net
      BY <1>1, <1>5, <1>10, NamesTell
    <3> QED
      BY <3>2, <3>3
  <2>2. result("net_short", a) = <<x>> /\ result("net_short", addr) = <<y>>
    BY <2>1 DEF NetList
  <2>3. /\ result("net_reverse_short", a) = <<Reverse(x)>>
        /\ result("net_reverse_short", addr) = <<Reverse(y)>>
    BY <2>1 DEF NetList, ShortReverse
  <2>4. Reverse(x) = Reverse(y) <=> x = y
    BY ReversesTell
  <2>5. PICK v, w \in Seq(Octets) :
          v = Start(a, mask) /\ w = Start(addr, mask) /\ (v = w <=> a \in net)
    <3>1. Start(a, mask) \in Seq(Octets) /\ Start(addr, mask) \in Seq(Octets)
      BY Networks, AddressesAreLists
    <3>2. Start(a, mask) = Start(addr, mask) <=> a \in net
      BY <1>5, StartsTell
    <3> QED
      BY <3>1, <3>2
  <2>6. Reverse(v) = Reverse(w) <=> v = w
    BY ReversesTell
  <2>7. result("net_reverse", a) = <<Reverse(v)>> /\ result("net_reverse", addr) = <<Reverse(w)>>
    BY <2>5 DEF NetList, ReverseName
  <2> QED
    BY <2>1, <2>2, <2>3, <2>4, <2>5, <2>6, <2>7
<1>11. \A a \in Addresses : a \in Address
  BY ToolsAssumption
<1>12. CASE c.format \in {"net_addr", "net_addr_mask", "net_addr_cidr"}
  <2>1. NetList(c.format, c.addr, mask, offset)[1] = Start(addr, mask)
    BY <1>2, <1>12 DEF NetList
  <2>2. c.format = "net_addr_mask" => NetList(c.format, c.addr, mask, offset)[2] = mask
    BY DEF NetList
  <2>3. c.format = "net_addr_cidr" => MaskOf(NetList(c.format, c.addr, mask, offset)[2]) = mask
    BY <1>1 DEF NetList, HasHole
  <2> QED
    BY <1>1, <1>2, <1>5, <1>7, <1>12, <2>1, <2>2, <2>3
<1>13. CASE c.format = "net_broadcast"
  BY <1>1, <1>2, <1>5, <1>8, <1>13
<1>14. CASE c.format = "net_calc"
  BY <1>1, <1>2, <1>3, <1>5, <1>9, <1>14
<1>15. CASE c.format = "net_short"
  BY <1>1, <1>2, <1>5, <1>10, <1>11, <1>15
<1>16. CASE c.format = "net_reverse_short"
  BY <1>1, <1>2, <1>5, <1>10, <1>11, <1>16
<1>17. CASE c.format = "net_reverse"
  BY <1>1, <1>2, <1>5, <1>10, <1>11, <1>17
<1>18. CASE c.format = "interface_ip"
  <2>1. NetList(c.format, c.addr, mask, offset)[1] = addr
    BY <1>2, <1>18 DEF NetList
  <2> QED
    BY <1>1, <1>2, <1>5, <1>18, <2>1 DEF Network
<1>19. c.format \in Formats
  BY DEF NetCall
<1> QED
  BY <1>12, <1>13, <1>14, <1>15, <1>16, <1>17, <1>18, <1>19 DEF Formats

\* net_list names one and the same network in every format, for octets of every
\* width.
THEOREM NetsAreExact == ToolsSpec => []NetsExact
<1>1. call \in IcalCall \cup NetCall /\ CallInv => NetsExact
  <2> SUFFICES ASSUME call \in IcalCall \cup NetCall, CallInv, output # "none", call.tool = "net"
               PROVE  NetsExact
    BY DEF NetsExact
  <2>1. PICK offset \in Offsets \cup {0} : call \in NetCall /\ output = NetResult(call, offset)
    BY DEF CallInv, IcalCall
  <2>2. offset \in Int
    BY OffsetTypes
  <2>3. CASE MaskRaises(call.mask) \/ HasHole(Mask(call.mask))
    <3>1. CASE output[1] = "raised"
      BY <2>3, <3>1 DEF NetsExact
    <3>2. CASE output[1] # "raised"
      <4>1. call.format = "interface_ip" /\ output[3][1] = call.addr
        BY <2>1, <2>3, <3>2 DEF NetResult, NetList
      <4>2. call.addr \in Network(call.addr, Mask(call.mask))
        BY <2>1, ToolsAssumption DEF NetCall, Network
      <4> QED
        BY <3>2, <4>1, <4>2 DEF NetsExact
    <3> QED
      BY <3>1, <3>2
  <2>4. CASE ~MaskRaises(call.mask) /\ ~HasHole(Mask(call.mask))
    <3>1. output = <<"result", offset, NetList(call.format, call.addr, Mask(call.mask), offset)>>
      BY <2>1, <2>4 DEF NetResult
    <3>2. /\ output[1] # "raised" /\ output[2] = offset
          /\ output[3] = NetList(call.format, call.addr, Mask(call.mask), offset)
      BY <3>1
    <3> QED
      BY <2>1, <2>2, <2>4, <3>2, NetsAnswer DEF NetsExact
  <2> QED
    BY <2>3, <2>4
<1> QED
  BY <1>1, CallsAnswer, PTL
================================================================================
