---------------------------- MODULE WebhookEgress ----------------------------
(***************************************************************************)
(* The destinations webhook.security.ts lets a delivery contact.           *)
(*                                                                         *)
(* A URL is [proto, creds, host]; a host is a name, which the code may     *)
(* refuse by itself (localhost, .local, .internal ...), or an address.     *)
(* Of an IPv4 address the code looks at the first two octets only.  It     *)
(* tests an IPv6 address by its text: of most addresses the first group    *)
(* decides.  An IPv6 address that carries an IPv4 one is written in one of *)
(* these forms:                                                            *)
(*   dotted      ::ffff:d.d.d.d, as a resolver answers;                    *)
(*   hex         the same address as new URL() writes it;                  *)
(*   translated  under ::ffff:0:0:0/96;                                    *)
(*   nat64       under 64:ff9b::/96.                                       *)
(***************************************************************************)
EXTENDS Naturals, Sequences

Ipv4(a, b) == [ver |-> 4, a |-> a, b |-> b]
Embedded(form, a, b) == [ver |-> 46, form |-> form, a |-> a, b |-> b]
Ipv6(head, rest) == [ver |-> 6, head |-> head, rest |-> rest]
Name(reserved) == [ver |-> 0, reserved |-> reserved]

EmbeddedForms == {"dotted", "hex", "translated", "nat64"}
Octets == 0..255
Groups == {n \in Nat : n < 65536}
Ipv4Addresses == [ver: {4}, a: Octets, b: Octets]
EmbeddedAddresses == [ver: {46}, form: EmbeddedForms, a: Octets, b: Octets]
Ipv6Addresses == [ver: {6}, head: Groups, rest: {"zero", "one", "other"}]
Addresses == Ipv4Addresses \cup EmbeddedAddresses \cup Ipv6Addresses

\* A seeded fault: the last block of 172.16/12 is forgotten.
Ipv4MutShared(a, b) ==
    \/ a \in {0, 10, 127}
    \/ a = 100 /\ b >= 64 /\ b <= 127
    \/ a = 169 /\ b = 254
    \/ a = 172 /\ b >= 16 /\ b < 31
    \/ a = 192 /\ b = 168
    \/ a = 198 /\ b \in {18, 19}
    \/ a >= 224

isBlockedIpv4Address(a, b) ==
    \/ a \in {0, 10, 127}
    \/ a = 100 /\ b >= 64 /\ b <= 127
    \/ a = 169 /\ b = 254
    \/ a = 172 /\ b >= 16 /\ b <= 31
    \/ a = 192 /\ b = 168
    \/ a = 198 /\ b \in {18, 19}
    \/ a >= 224

\* The text of a group, written without leading zeros, starts with this byte.
StartsWith(group, byte) == \E n \in {1, 16, 256} : group \div n = byte

\* The prefixes fc, fd, ff and fe80, and ::ffff:0: for a carried address.
isBlockedIpv6Address(addr) ==
    \/ /\ addr.ver = 46
       /\ addr.form = "translated" \/ (addr.form = "hex" /\ addr.a = 0 /\ addr.b = 0)
    \/ /\ addr.ver = 6
       /\ \/ addr.head = 0 /\ addr.rest \in {"zero", "one"}
          \/ \E byte \in {252, 253, 255} : StartsWith(addr.head, byte)
          \/ addr.head = 65152

isBlockedIpAddress(addr) ==
    IF addr.ver = 4 \/ (addr.ver = 46 /\ addr.form = "dotted")
    THEN isBlockedIpv4Address(addr.a, addr.b)
    ELSE isBlockedIpv6Address(addr)

isBlockedHostname(host) ==
    IF host.ver = 0 THEN host.reserved ELSE isBlockedIpAddress(host)

assertWebhookUrlShapeAllowed(url, environment) ==
    /\ url.proto \in {"http", "https"}
    /\ environment = "production" => url.proto = "https"
    /\ ~url.creds
    /\ ~isBlockedHostname(url.host)

\* An address stands for itself; a name is what DNS answers now.
resolveHostname(host, answer) == IF host.ver = 0 THEN answer ELSE <<host>>

resolveAllowedTarget(url, environment, answer) ==
    LET addresses == resolveHostname(url.host, answer)
    IN  /\ assertWebhookUrlShapeAllowed(url, environment)
        /\ addresses # <<>>
        /\ \A i \in DOMAIN addresses : ~isBlockedIpAddress(addresses[i])

-----------------------------------------------------------------------------
(* The reference the tests of the ranges are measured against: the blocks  *)
(* of the address registries as CIDR prefixes <<hi, lo, length>> of the    *)
(* upper sixteen bits, whatever the form an address is written in.         *)

Ipv4Blocks ==
    {<<0, 0, 8>>, <<10, 0, 8>>, <<127, 0, 8>>, <<100, 64, 10>>, <<169, 254, 16>>,
     <<172, 16, 12>>, <<192, 168, 16>>, <<198, 18, 15>>, <<224, 0, 4>>, <<240, 0, 4>>}
Ipv6Blocks == {<<252, 0, 7>>, <<254, 128, 10>>, <<255, 0, 8>>}

InBlock(bits, block) ==
    LET size == 2 ^ (16 - block[3])
    IN  bits \div size = (256 * block[1] + block[2]) \div size

IsSpecial(addr) ==
    IF addr.ver = 6
    THEN \/ addr.head = 0 /\ addr.rest \in {"zero", "one"}
         \/ \E block \in Ipv6Blocks : InBlock(addr.head, block)
    ELSE \E block \in Ipv4Blocks : InBlock(256 * addr.a + addr.b, block)

\* The addresses whose class the code's tests tell: IPv4, also where it is carried
\* dotted or translated, and IPv6, of fe80::/10 only the group fe80 itself.
Recognised(addr) ==
    /\ addr.ver = 46 => addr.form \in {"dotted", "translated"}
    /\ addr.ver = 6 => (addr.head \div 64 = 1018 => addr.head = 65152)
=============================================================================
