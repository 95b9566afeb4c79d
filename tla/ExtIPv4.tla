-------------------------------- MODULE ExtIPv4 --------------------------------
(***************************************************************************)
(* extipv4.py: the salt module that computes with IPv4 networks.           *)
(*                                                                         *)
(* An address is a sequence of four octets, an octet has Width bits here   *)
(* and 8 bits in the code.  The functions of salt.utils are modelled from  *)
(* how the module uses them.                                               *)
(***************************************************************************)
EXTENDS Integers, Sequences, SequencesExt, Ranking

CONSTANT Width   \* bits of an octet

ASSUME WidthAssumption == Width \in Nat \ {0}

Base    == 2 ^ Width
Bits    == 4 * Width
Octets  == 0 .. Base - 1
Address == [1 .. 4 -> Octets]

\* The weight of an octet in a number.
Weight(i) == 2 ^ ((4 - i) * Width)

\* _ip_to_32bit, _32bit_to_ip: struct packs numbers of four octets only.
Number(addr) ==
  addr[1] * Weight(1) + addr[2] * Weight(2) + addr[3] * Weight(3) + addr[4] * Weight(4)
Packs(n) == n \in 0 .. 2 ^ Bits - 1
ToAddress(n) == [i \in 1 .. 4 |-> (n \div Weight(i)) % Base]

--------------------------------------------------------------------------------
(* salt.utils.network and salt.utils.validate.net *)

\* Ones from the left, of the number of bits cidr.
MaskOf(cidr) == ToAddress(2 ^ Bits - 2 ^ (Bits - cidr))

\* netmask: four octets that do not increase.
IsNetmask(mask) == \A i \in 1 .. 3 : mask[i] >= mask[i + 1]

\* get_net_size: the bits up to the last one.
NetSize(mask) ==
  CHOOSE n \in 0 .. Bits : /\ Number(mask) % 2 ^ (Bits - n) = 0
                           /\ n = 0 \/ Number(mask) % 2 ^ (Bits - n + 1) # 0

\* get_net_start refuses a mask with a hole.
HasHole(mask) == mask # MaskOf(NetSize(mask))
NetStart(addr, mask) ==
  LET block == 2 ^ (Bits - NetSize(mask)) IN ToAddress((Number(addr) \div block) * block)

--------------------------------------------------------------------------------
(* The module; a net is an address and what follows the slash *)

\* _net_mask: a mask, or the number of its bits from 1 on.
MaskRaises(m) == IF m.cidr THEN m.bits \notin 1 .. Bits ELSE ~IsNetmask(m.octets)
Mask(m)       == IF m.cidr THEN MaskOf(m.bits) ELSE m.octets

\* cidr_from_net, start_from_net, size_from_net, end_from_net
Cidr(addr, mask)  == NetSize(mask)
Start(addr, mask) == NetStart(addr, mask)
Size(addr, mask)  == 2 ^ (Bits - Cidr(addr, mask))
\* Mutant: the end is the start of the next network.
EndBeyond(addr, mask) ==
  LET n == Number(Start(addr, mask)) + Size(addr, mask)
  IN  IF Packs(n) THEN <<ToAddress(n)>> ELSE <<>>
End(addr, mask) ==
  LET n == Number(Start(addr, mask)) + Size(addr, mask) - 1
  IN  IF Packs(n) THEN <<ToAddress(n)>> ELSE <<>>

\* calc_ip_from_net: no address when the number cannot be packed.
CalcIp(addr, mask, offset) ==
  LET from == IF offset < 0 THEN End(addr, mask) ELSE <<Start(addr, mask)>>
      n    == Number(from[1]) + offset
  IN  IF from # <<>> /\ Packs(n) THEN <<ToAddress(n)>> ELSE <<>>

\* short_from_net, reverse_from_net, short_reverse_from_net: the octets of a name
\* of the reverse zone, without those the mask does not cover.
Covered(mask)            == {i \in 1 .. 4 : mask[i] # 0}
Short(addr, mask)        == Chosen(addr, Covered(mask))
ReverseName(addr, mask)  == Reverse(addr)
ShortReverse(addr, mask) == Reverse(Short(addr, mask))

\* net_list of one interface: the names are those of the network's first address,
\* the offset of net_calc counts from it.
NetList(format, addr, mask, offset) ==
  CASE format = "net_addr"          -> <<Start(addr, mask)>>
    [] format = "net_addr_mask"     -> <<Start(addr, mask), mask>>
    [] format = "net_addr_cidr"     -> <<Start(addr, mask), NetSize(mask)>>
    [] format = "net_short"         -> <<Short(Start(addr, mask), mask)>>
    [] format = "net_broadcast"     -> End(addr, mask)
    [] format = "net_reverse"       -> <<ReverseName(Start(addr, mask), mask)>>
    [] format = "net_reverse_short" -> <<ShortReverse(Start(addr, mask), mask)>>
    [] format = "net_calc"          -> CalcIp(Start(addr, mask), mask, offset)
    [] format = "interface_ip"      -> <<addr>>
================================================================================
