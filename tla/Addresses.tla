----------------------------- MODULE Addresses ------------------------------
(***************************************************************************)
(* Addresses: the text host:port (src/common/host_port.cc), the binary     *)
(* addresses (src/common/socket_util.cc) and the way from one to the other *)
(* (src/common/resolve_address.cc).                                        *)
(*                                                                         *)
(* A text is a sequence of tokens: "[", "]", ":" and words.  A binary      *)
(* address is a record: the 16 bytes of an IPv6 address are a prefix of    *)
(* 12 ("zero", "mapped" for ::ffff, or "other") and the 4 bytes ip, an     *)
(* IPv4 address has only ip, and the null address "0" is the wildcard.     *)
(***************************************************************************)
EXTENDS Integers, Sequences, SequencesExt

-----------------------------------------------------------------------------
(* host_port.cc                                                             *)

\* "%d" of the port: one token.
PortText(port) == ToString(port)

JoinHostPort(host, port) ==
    IF host # <<>> /\ host[1] # "[" /\ Contains(host, ":")
    THEN <<"[">> \o host \o <<"]", ":", PortText(port)>>
    ELSE host \o <<":", PortText(port)>>

\* name.find(token, from): 0 for npos
Find(name, token, from) == SelectInSubSeq(name, from, Len(name), LAMBDA t : t = token)

NoPort == <<"nullptr">>
Unparseable == [ok |-> FALSE, host |-> <<>>, port |-> NoPort]
Parsed(host, port) == [ok |-> TRUE, host |-> host, port |-> port]

\* What follows the colon at position i.
PortAfter(name, i) == SubSeq(name, i + 1, Len(name))

\* Without a port, has_port is FALSE.  A bracketed host must contain a colon.
SplitBracketed(name) ==
    LET rbracket == Find(name, "]", 2)
        host == SubSeq(name, 2, rbracket - 1)
    IN IF rbracket = 0 \/ ~Contains(host, ":") THEN Unparseable
       ELSE CASE rbracket = Len(name) -> Parsed(host, NoPort)
              [] rbracket < Len(name) /\ name[rbracket + 1] = ":" ->
                     Parsed(host, PortAfter(name, rbracket + 1))
              [] OTHER -> Unparseable

\* Exactly one colon splits the name; without one, or with more, it is a bare
\* host name or IPv6 literal.
SplitAtColon(name) ==
    LET colon == Find(name, ":", 1)
    IN IF colon # 0 /\ Find(name, ":", colon + 1) = 0
       THEN Parsed(SubSeq(name, 1, colon - 1), PortAfter(name, colon))
       ELSE Parsed(name, NoPort)

SplitHostPort(name) ==
    IF name # <<>> /\ name[1] = "[" THEN SplitBracketed(name) ELSE SplitAtColon(name)

-----------------------------------------------------------------------------
(* socket_util.cc                                                           *)

V4(ip, port) == [family |-> "v4", prefix |-> "none", ip |-> ip, port |-> port, scope |-> 0]
V6(prefix, ip, port, scope) ==
    [family |-> "v6", prefix |-> prefix, ip |-> ip, port |-> port, scope |-> scope]

raptor_sockaddr_get_family(a) == a.family

raptor_sockaddr_is_v4mapped(a) == a.family = "v6" /\ a.prefix = "mapped"

\* resolved_addr4_out of raptor_sockaddr_is_v4mapped
Normalized(a) == IF raptor_sockaddr_is_v4mapped(a) THEN V4(a.ip, a.port) ELSE a

\* resolved_addr6_out of raptor_sockaddr_to_v4mapped; other addresses are left.
raptor_sockaddr_to_v4mapped(a) == IF a.family = "v4" THEN V6("mapped", a.ip, a.port, 0) ELSE a

raptor_sockaddr_is_wildcard_raw(a) == a.ip = "0" /\ a.prefix \in {"none", "zero"}
raptor_sockaddr_is_wildcard(a) ==
    LET n == Normalized(a)
    IN n.family # "unix" /\ n.ip = "0" /\ n.prefix \in {"none", "zero"}

raptor_sockaddr_make_wildcard4(port) == V4("0", port)
raptor_sockaddr_make_wildcard6(port) == V6("zero", "0", port, 0)

raptor_sockaddr_get_port(a) == IF a.family = "unix" THEN 1 ELSE a.port

PortRange == 0 .. 65535
raptor_sockaddr_set_port(a, port) ==
    IF port \in PortRange /\ a.family # "unix" THEN [a EXCEPT !.port = port] ELSE a

\* inet_ntop; the text of ::ffff ends in the dotted form of ip.
PrefixText == [none |-> <<>>, zero |-> <<":", ":">>, mapped |-> <<":", ":", "ffff", ":">>,
               other |-> <<"fe80", ":", ":">>]
raptor_inet_ntop(a) == Append(PrefixText[a.prefix], a.ip)

\* inet_pton, the reverse, for a text that is an address; one with a scope id is
\* not, and raptor_string_to_sockaddr asserts that it gets none.
InetPton(text) ==
    LET prefix == CHOOSE p \in DOMAIN PrefixText : PrefixText[p] = Front(text)
    IN IF prefix = "none" THEN V4(Last(text), 0) ELSE V6(prefix, Last(text), 0, 0)

\* "%%25%u" of the scope id, in two tokens.
ScopeText(scope) == ToString(scope)
ScopeZone(scope) == <<"%25", ScopeText(scope)>>
HostWithScope(a) ==
    IF a.scope # 0 THEN raptor_inet_ntop(a) \o ScopeZone(a.scope) ELSE raptor_inet_ntop(a)

raptor_sockaddr_to_string(a, normalize) ==
    LET n == IF normalize THEN Normalized(a) ELSE a
    IN IF n.family = "unix" THEN <<"family">> ELSE JoinHostPort(HostWithScope(n), n.port)

raptor_sockaddr_get_ip(a) ==
    IF a.family = "unix" THEN <<>> ELSE HostWithScope(Normalized(a))

raptor_string_to_sockaddr(text, port) == raptor_sockaddr_set_port(InetPton(text), port)

-----------------------------------------------------------------------------
(* resolve_address.cc; getaddrinfo is a function from the pairs of host and *)
(* port that it can resolve to their addresses.                             *)

Service == [http |-> "80", https |-> "443"]

\* The pairs tried, in order of preference.
WithRetry(host, port) ==
    {<<host, port>>} \cup {<<host, <<Service[s]>>>> : s \in {s \in DOMAIN Service : <<s>> = port}}

raptor_blocking_resolve_address(name, default_port, getaddrinfo) ==
    LET split == SplitHostPort(name)
        port == IF split.port = NoPort THEN default_port ELSE split.port
        pair == <<split.host, port>>
        tried == WithRetry(split.host, port) \cap DOMAIN getaddrinfo
    IN IF ~split.ok \/ port = NoPort \/ tried = {}
       THEN [err |-> TRUE, addrs |-> <<>>]
       ELSE [err |-> FALSE,
             addrs |-> getaddrinfo[IF pair \in tried THEN pair ELSE CHOOSE p \in tried : TRUE]]
=============================================================================
