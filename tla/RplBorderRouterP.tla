---------------------------- MODULE RplBorderRouterP ----------------------------
(***************************************************************************)
(* What the border router does to a hop-by-hop header on its way out.  The *)
(* length of the header is computed in eight bits.  DumpHopHopP removes it *)
(* with the same statements.  ArithmeticProofs proves about the functions  *)
(* as they stand, for every packet.                                        *)
(***************************************************************************)
EXTENDS Integers

Protocols == 0..255
UDP == 17               \* IANA_UDP
HopByHop == 0           \* IPV6_HOP

\* A packet: where its data begins in memory and how long it is (at, len), the payload
\* length and the next-header byte of its IPv6 header, the next-header and the length
\* byte of the extension header that the data begins with, and where a checksum was
\* written (-1: nowhere).
Packets == [at : Nat, len : Int, plen : {n \in Nat : n < 65536}, nxt : Protocols,
            first : Protocols, extra : 0..255, checksum : Int]

\* What length_in_bytes holds, a uint8_t, and the length the header has.
length_in_bytes(p) == ((p.extra + 1) * 8) % 256
HeaderLength(p) == (p.extra + 1) * 8

Skipped(p) ==
  [p EXCEPT !.nxt = p.first,
            !.at = p.at + length_in_bytes(p),
            !.len = p.len - length_in_bytes(p),
            !.plen = (p.plen - length_in_bytes(p)) % 65536]
Summed(p) == IF p.nxt = UDP THEN [p EXCEPT !.checksum = p.at + 6] ELSE p

\* IPPacket.findHeader finds it as the first header, or not at all.  (A later one
\* loses its RPL option in place.)
RemoveHeader(p) == IF p.nxt = HopByHop THEN Summed(Skipped(p)) ELSE p

-----------------------------------------------------------------------------
\* A packet that begins with a whole hop-by-hop header.
HasHeader(p) ==
  /\ p.nxt = HopByHop
  /\ HeaderLength(p) <= p.len
  /\ HeaderLength(p) <= p.plen
=================================================================================
