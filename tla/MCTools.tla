-------------------------------- MODULE MCTools --------------------------------
(* Five days of four units; the clock is put forward on the second day and back
   on the fourth.  Octets of two bits. *)
EXTENDS Tools

MCSummer == 5 .. 11

Entry(kind, at) == [kind |-> kind, at |-> at]
Event(name, fields) == [name |-> name, fields |-> fields]
Odd   == Entry("odd", 0)
Twice == Entry("twice", 0)

MCValues ==
  {Entry("date", d) : d \in 0 .. 4} \cup {Entry(k, t) : k \in {"naive", "aware"}, t \in 0 .. 19}

MCCalendars ==
  {<<>>} \cup {<<Event("VEVENT", <<v>>), Event("VTIMEZONE", <<>>)>> : v \in MCValues}
    \cup {<<Event(n, <<Odd, Entry("date", 2)>>), Event("VTODO", <<Entry("naive", 14), Twice>>)>> :
            n \in {"VJOURNAL", "VFREEBUSY", "VALARM"}}
    \cup {<<Event("VEVENT", <<Entry("aware", t), Entry("date", d)>>)>> : t \in {3, 17}, d \in {0, 4}}
    \cup {<<Event("VEVENT", <<Twice, Entry("date", 2)>>)>>, <<Event("VEVENT", <<Odd>>)>>}

MCMasks ==
  {[cidr |-> TRUE, bits |-> n, octets |-> <<>>] : n \in 0 .. 9}
    \cup {[cidr |-> FALSE, bits |-> 0, octets |-> m] :
            m \in {<<0, 0, 0, 0>>, <<3, 3, 2, 0>>, <<3, 2, 2, 0>>, <<3, 1, 0, 0>>, <<0, 3, 0, 0>>}}

MCAddresses == {<<a, b, c, d>> : a \in {1}, b \in {0, 2}, c \in {0, 1, 3}, d \in {0, 3}}
                 \cup {<<3, 3, 3, 3>>}

\* The clock of this run is not changed at midnight.
ASSUME MCClock == NoChangeAtMidnight
================================================================================
