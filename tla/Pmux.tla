-------------------------------- MODULE Pmux --------------------------------
(***************************************************************************)
(* pmux.Proxy: an address, a port and a protocol in one unsigned number.    *)
(* The widths of its parts are constants, so that every number of a small   *)
(* width can be looked at; the code has Octets = 2^8, Ports = 2^16 and      *)
(* Protos = 2^16.                                                           *)
(***************************************************************************)
EXTENDS Integers, SequencesExt

CONSTANTS Octets, Ports, Protos

Schemes == <<"http", "https", "socks4", "socks5">>

ASSUME PmuxAssumption ==
  /\ {Octets, Ports, Protos} \subseteq Nat \ {0}
  /\ Protos >= Len(Schemes)
  /\ Octets % 2 = 0

HTTP == 0
HTTPS == 1

\* One more than the largest number.
Numbers64 == Octets * Octets * Octets * Octets * Ports * Protos

ip(p) == p \div (Ports * Protos)
IP(p) ==
  <<ip(p) \div (Octets * Octets * Octets) % Octets, ip(p) \div (Octets * Octets) % Octets,
    ip(p) \div Octets % Octets, ip(p) % Octets>>
Port(p) == p \div Protos % Ports
Proto(p) == p % Protos

pack(ip4, port, proto) == ip4 * Ports * Protos + port * Protos + proto

\* Mutant of AsHttp: the port is not shifted back.
AsHttpUnshifted(p) == ip(p) * Ports * Protos + Port(p) + HTTP

AsHttp(p) == pack(ip(p), Port(p), HTTP)
AsHttps(p) == pack(ip(p), Port(p), HTTPS)

Valid(p) == Port(p) # 0
IsTunnel(p) == Proto(p) \in {2, 3}

\* An address as text: of IPv4, of IPv6, or neither.
Address(p) == [v |-> 4, ip |-> IP(p), port |-> Port(p)]
IPv6 == [v |-> 6]
Malformed == [v |-> 0]

\* A URL as its parts around "://".  The map of names has no other protocols.
URL(p) == <<IF Proto(p) < Len(Schemes) THEN Schemes[Proto(p) + 1] ELSE "", Address(p)>>

\* int(p) is negative in the upper half of the numbers, % of Go has the sign
\* of its left side.
Bucket(p, buckets) ==
  LET n == IF p >= Numbers64 \div 2 THEN p - Numbers64 ELSE p
  IN  (IF n < 0 THEN -n ELSE n) % buckets

\* netip.Addr.As4 panics for what is no IPv4 address.
Panicked == -1

protoMap(t) ==
  IF t \in Range(Schemes) THEN (CHOOSE i \in DOMAIN Schemes : Schemes[i] = t) - 1 ELSE HTTP

NewProxy(addr, t) ==
  CASE addr.v = 0 -> 0
    [] addr.v = 6 -> Panicked
    [] addr.v = 4 ->
         pack(((addr.ip[1] * Octets + addr.ip[2]) * Octets + addr.ip[3]) * Octets + addr.ip[4],
              addr.port, protoMap(t))

NewProxyFromURL(url) == IF Len(url) # 2 THEN 0 ELSE NewProxy(url[2], url[1])
=============================================================================
