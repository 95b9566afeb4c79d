--------------------------------- MODULE Tools ---------------------------------
(***************************************************************************)
(* The programs and functions that compute an output from an input and     *)
(* keep no state: filter-ical.py and the salt module extipv4.  A behaviour *)
(* is one call.                                                            *)
(***************************************************************************)
EXTENDS FilterIcal, ExtIPv4

CONSTANTS Nows,        \* moments at which the program is called with now
          Calendars,   \* the calendars considered, as sequences of components
          Masks,       \* what follows the slash of a net
          Addresses    \* the addresses considered

\* The options of an entry of a calendar, and what follows the slash of a net.
Value     == [kind : {"date", "naive", "aware", "odd", "twice"}, at : Int]
Component == [name : STRING, fields : Seq(Value)]

ASSUME ToolsAssumption ==
  /\ Nows \subseteq Moments /\ Calendars \subseteq Seq(Component)
  /\ Addresses \subseteq Address
  /\ \A m \in Masks : m.cidr \in BOOLEAN /\ m.bits \in Int /\ (m.cidr \/ m.octets \in Address)

VARIABLES call, output

toolVars == <<call, output>>

Formats == {"net_addr", "net_addr_mask", "net_addr_cidr", "net_short", "net_broadcast",
            "net_reverse", "net_reverse_short", "net_calc", "interface_ip"}

Option   == [kind : {"day"}, at : 0 .. Days - 1] \cup [kind : {"now"}, at : Nows]
              \cup [kind : {"none"}, at : {0}]
IcalCall == [tool : {"ical"}, from : Option, to : Option,
             input : {"empty", "broken", "calendar"}, cal : Calendars]
NetCall  == [tool : {"net"}, format : Formats, addr : Addresses, mask : Masks]

\* The offsets a caller gives to net_calc, up to the number of addresses.
Offsets == UNION {{2 ^ k - 1, 2 ^ k, -(2 ^ k)} : k \in 0 .. Bits}

ToolsInit ==
  /\ \/ call \in IcalCall /\ (call.input = "calendar" <=> call.cal # <<>>)
     \/ call \in NetCall
  /\ output = "none"

FilterCalendar ==
  /\ output = "none" /\ call.tool = "ical"
  /\ output' = IF call.input = "broken" \/ FilterRaises(call.from, call.to, call.cal) THEN <<"raised">>
               ELSE <<"written", Filter(call.from, call.to, call.cal)>>
  /\ UNCHANGED call

\* net_list raises for a bad mask, and for one with a hole wherever it needs the
\* start of the network.
ListNet ==
  /\ output = "none" /\ call.tool = "net"
  /\ \E offset \in IF call.format = "net_calc" THEN Offsets ELSE {0} :
       output' = IF MaskRaises(call.mask) THEN <<"raised">>
                 ELSE IF call.format # "interface_ip" /\ HasHole(Mask(call.mask)) THEN <<"raised">>
                 ELSE <<"result", offset, NetList(call.format, call.addr, Mask(call.mask), offset)>>
  /\ UNCHANGED call

ToolsNext == FilterCalendar \/ ListNet

ToolsSpec == ToolsInit /\ [][ToolsNext]_toolVars

--------------------------------------------------------------------------------
\* The midnights of the wall clock, and the day that a moment is in.
Midnights(t) ==
  {m \in -(2 * Day) .. t : (m + Offset + (IF m \in Summer THEN Saved ELSE 0)) % Day = 0}
LocalDay(t)  == Today(CHOOSE m \in Midnights(t) : \A n \in Midnights(t) : n <= m)

\* Around the midnights of the calendar it is summer or winter throughout.
NoChangeAtMidnight ==
  \A d \in -1 .. Days + 1 :
    LET around == d * Day - Offset - Saved - 1 .. d * Day - Offset
    IN  around \subseteq Summer \/ around \cap Summer = {}

\* The day an option names: 01.01.1970 and the last day where it is not given.
DayOf(o, default) ==
  CASE o.kind = "day" -> o.at [] o.kind = "now" -> LocalDay(o.at) [] OTHER -> default

\* The date of the first field that has one.
FirstDate(fields) ==
  UNION {Normalized(fields[i]) :
           i \in {j \in DOMAIN fields : \A k \in 1 .. j - 1 : Normalized(fields[k]) = {}}}

\* filter-ical.py:166 "Inclusive": what is written are the time zones and the entries
\* whose first usable field is on a local day from the first to the last one,
\* also when the clock is changed in between (but not at midnight).  Without a
\* moment out of datetime's range and a field given twice, nothing raises.
DaysExact ==
  output # "none" /\ call.tool = "ical" =>
    IF output[1] = "raised"
    THEN \/ call.input = "broken"
         \/ {FromBoundary(call.from), ToBoundary(call.to)} \ Moments # {}
         \/ \E i \in DOMAIN call.cal : \E k \in DOMAIN call.cal[i].fields :
              ValueRaises(call.cal[i].fields[k])
    ELSE \A i \in DOMAIN call.cal :
           LET c == call.cal[i] IN
           Contains(output[2], c) <=>
             \/ c.name = "VTIMEZONE"
             \/ /\ c.name \in Filterable
                /\ \E t \in FirstDate(c.fields) :
                     LocalDay(t) \in DayOf(call.from, Epoch) .. DayOf(call.to, Days - 1)

\* The addresses of the network, from what a mask means: those that share the bits.
Network(addr, mask) ==
  LET size  == 2 ^ (Bits - NetSize(mask))
      block == Number(addr) \div size
  IN  {a \in Address : Number(a) \div size = block}

\* The formats of net_list name one and the same network: its addresses lie from
\* net_addr to net_broadcast, the mask and the number of bits printed beside its
\* first address describe it again, an offset of net_calc leads to an address of
\* it exactly while it is smaller than the network, two networks of one mask
\* never share a name, and interface_ip is one of its addresses.
NetsExact ==
  output # "none" /\ call.tool = "net" =>
    IF output[1] = "raised" THEN MaskRaises(call.mask) \/ HasHole(Mask(call.mask))
    ELSE LET mask   == Mask(call.mask)
             offset == output[2]
             net    == Network(call.addr, mask)
             size   == 2 ^ (Bits - NetSize(mask))
             result == output[3]
         IN CASE call.format \in {"net_addr", "net_addr_mask", "net_addr_cidr"} ->
                   /\ result[1] \in net /\ \A a \in net : Number(a) >= Number(result[1])
                   /\ call.format = "net_addr_mask" => Network(result[1], result[2]) = net
                   /\ call.format = "net_addr_cidr" => Network(result[1], MaskOf(result[2])) = net
              [] call.format = "net_broadcast" ->
                   /\ result # <<>> /\ result[1] \in net
                   /\ \A a \in net : Number(a) <= Number(result[1])
              [] call.format = "net_calc" ->
                   (result # <<>> /\ result[1] \in net) <=> (offset < size /\ -offset < size)
              [] call.format \in {"net_short", "net_reverse", "net_reverse_short"} ->
                   \A a \in Addresses :
                     (NetList(call.format, a, mask, offset) = result) <=> (a \in net)
              [] call.format = "interface_ip" -> result[1] \in net
================================================================================
