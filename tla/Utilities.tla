----------------------------- MODULE Utilities ------------------------------
(***************************************************************************)
(* Model of the parts the rest is built from: a behaviour uses one of them *)
(* (part) and leaves the state of the others alone.  The parts without a   *)
(* state of their own are called once, with any input, and end in one of   *)
(* their outcomes.                                                         *)
(***************************************************************************)
EXTENDS SliceBufferUse, RefCounts, IntrusiveList, WindowsSetting

CONSTANTS
    MaxHost,   \* bound: tokens of a host
    Ports,     \* the ports that occur
    Scopes     \* the scope ids of IPv6 addresses that occur

\* A port is an unsigned short, and its text contains no colon.
ASSUME CallsAssumption == MaxHost \in Nat /\ Ports \subseteq PortRange
ASSUME PortTextAssumption == \A p \in Ports : PortText(p) # ":"
\* A scope id is a uint32_t, and its text contains no bracket.
ASSUME ScopeAssumption == Scopes \subseteq Nat /\ \A s \in Scopes : ScopeText(s) \notin {"[", "]"}

VARIABLES
    part,    \* "slices", "refs", "list" or "calls"
    input,   \* the call: its operator and arguments
    result   \* its outcome

callVars == <<input, result>>
vars == <<part, bufVars, refVars, listVars, callVars>>

-----------------------------------------------------------------------------
(* The inputs.                                                              *)

\* Names and literals, IPv6 ones among them; JoinHostPort expects no brackets.
Hosts == BoundedSeq({"a", "0", ":"}, MaxHost)

Ips == {"0", "1"}
Addrs == {V4(ip, p) : ip \in Ips, p \in Ports} \cup
         {V6(prefix, ip, p, s) : prefix \in {"zero", "mapped", "other"}, ip \in Ips, p \in Ports,
                                 s \in Scopes}

\* What getaddrinfo knows here: numeric ports of the one host.
Hosted == [pair \in {<< <<"a">>, <<"80">> >>, << <<"a">>, <<"443">> >>} |-> <<V4("1", 80)>>]
Names == {<<"a">>, <<"a", ":", "80">>, <<"a", ":", "http">>, <<"a", ":", "https">>,
          <<"a", ":", "ftp">>, <<"a", ":", "b", ":", "80">>, <<"[", "a", "]", ":", "80">>}

\* The settings of a handler, one of them perhaps twice.
Entry(k, values) == {[key |-> k, value |-> v] : v \in values}
SettingLists ==
    SeqOf(Entry("SocketNonBlocking", {0, 1}) \cup Entry("SocketSendTimeoutMs", {-1, 0, 3}), 3)

\* Of each factory its handler, one of its options, the place it ends up in and
\* its default.
Kinds ==
    [acceptor  |-> [handler |-> "AcceptorHandler", key |-> "ListenThreadNum", at |-> 1, default |-> 1],
     connector |-> [handler |-> "ConnectorHandler", key |-> "TcpUserTimeoutMs", at |-> 2, default |-> 0],
     container |-> [handler |-> "MessageHandler", key |-> "ConnectionTimeoutMs", at |-> 4,
                    default |-> 60000]]

AddressInputs ==
    {[op |-> "join", host |-> h, port |-> p] : h \in Hosts, p \in Ports} \cup
    {[op |-> "address", addr |-> a] : a \in Addrs} \cup
    {[op |-> "resolve", name |-> n, port |-> p] : n \in Names, p \in {NoPort, <<"443">>}}

SocketInputs ==
    {[op |-> "server", addr |-> a, file |-> f] : a \in Addrs, f \in {-1, 0, 5, IntMax + 1}} \cup
    {[op |-> "client", addr |-> a] : a \in Addrs} \cup
    {[op |-> "windows", call |-> c, addr |-> a] : c \in {"connect", "listen", "accept"}, a \in Addrs} \cup
    {[op |-> "settings", list |-> l] : l \in SettingLists} \cup
    {[op |-> "listen", addrs |-> <<V4("0", 80), V6("zero", "0", 80, 0)>>]}

FactoryInputs ==
    UNION {{[op |-> "create", kind |-> k, list |-> l] :
            l \in [1 .. 2 -> Entry(Kinds[k].handler, {0, 5}) \cup Entry(Kinds[k].key, {-1, 3})]} :
           k \in DOMAIN Kinds}

Inputs == AddressInputs \cup SocketInputs \cup FactoryInputs

\* The socket that a handler's settings are applied to.
Prepared == [NoSocket EXCEPT !.open = TRUE, !.opts = {"nonblock", "cloexec", "nodelay"}]

WindowsSocket(call, addr) ==
    CASE call = "connect" -> ConnectSocket(addr)
      [] call = "listen" -> WinListeningSocket(addr)
      [] call = "accept" -> AcceptSocket(MappedForm(addr))

Outcomes(in) ==
    CASE in.op = "join" -> {SplitHostPort(JoinHostPort(in.host, in.port))}
      [] in.op = "address" -> {SplitHostPort(raptor_sockaddr_to_string(in.addr, TRUE))}
      [] in.op = "resolve" -> {raptor_blocking_resolve_address(in.name, in.port, Hosted)}
      [] in.op = "server" -> ListeningSocket(in.addr, in.file)
      [] in.op = "listen" -> AddListening(in.addrs, 5)
      [] in.op = "client" -> raptor_tcp_client_prepare_socket(in.addr)
      [] in.op = "settings" -> 
            ProcessProperty(Prepared, MakeProperty(in.list)) \cup
            ProcessAccepted(Prepared, MakeProperty(in.list)) \cup
            WinProcessProperty(Prepared, MakeProperty(in.list)) \cup
            WinProcessAccepted(Prepared, MakeProperty(in.list))
      [] in.op = "windows" -> WindowsSocket(in.call, in.addr)
      [] in.op = "create" -> 
            {CASE in.kind = "acceptor" -> CreateAcceptor(MakeProperty(in.list), init)
               [] in.kind = "connector" -> CreateConnector(MakeProperty(in.list), init)
               [] in.kind = "container" -> CreateContainer(MakeProperty(in.list), init) :
             init \in BOOLEAN}

NotCalled == [op |-> "none"]

-----------------------------------------------------------------------------
Init ==
    /\ part \in {"slices", "refs", "list", "calls"}
    /\ BufInit /\ RefInit /\ ListInit
    /\ input \in (IF part = "calls" THEN Inputs ELSE {NotCalled})
    /\ result = NotCalled

UseSlices == part = "slices" /\ BufNext /\ UNCHANGED <<part, refVars, listVars, callVars>>
UseRefs   == part = "refs" /\ RefNext /\ UNCHANGED <<part, bufVars, listVars, callVars>>
UseList   == part = "list" /\ ListNext /\ UNCHANGED <<part, bufVars, refVars, callVars>>

CallOnce ==
    /\ part = "calls" /\ result = NotCalled
    /\ result' \in Outcomes(input)
    /\ UNCHANGED <<part, bufVars, refVars, listVars, input>>

Next == UseSlices \/ UseRefs \/ UseList \/ CallOnce

Spec == Init /\ [][Next]_vars

-----------------------------------------------------------------------------
(* Properties of the calls.                                                 *)

Called(op) == input.op = op /\ result # NotCalled

\* SplitHostPort takes apart what JoinHostPort puts together, also for hosts with
\* colons in them, which get brackets, and for the empty host.
SplitInvertsJoin ==
    Called("join") => result = Parsed(input.host, <<PortText(input.port)>>)

\* The text that raptor_sockaddr_to_string makes of an address, parsed again, is
\* the address, or the IPv4 address that it maps; with a scope id it is so once the
\* id is cut off, which the text ends in.  Whether an address is the wildcard does
\* not depend on the form it is in, nor on the scope id.
AddressTextFaithful ==
    Called("address") =>
        LET a == input.addr
            n == Normalized(a)
            bare == IF n.scope = 0 THEN result.host ELSE SubSeq(result.host, 1, Len(result.host) - 2)
            unscoped == [n EXCEPT !.scope = 0]
        IN /\ result.ok
           /\ result.port = <<PortText(raptor_sockaddr_get_port(a))>>
           /\ raptor_string_to_sockaddr(bare, a.port) = unscoped
           /\ n.scope # 0 => result.host = bare \o ScopeZone(n.scope)
           /\ result.host = raptor_sockaddr_get_ip(a)
           /\ raptor_sockaddr_is_wildcard(a) <=>
                unscoped \in {raptor_sockaddr_make_wildcard4(a.port),
                              raptor_sockaddr_make_wildcard6(a.port)}

\* A name with a known host resolves when its port, or else the default one, is a
\* number or a service that is known by name only; every other name is an error.
KnownNamesResolve ==
    Called("resolve") =>
        LET ports == {<<"80">>, <<"443">>, <<"http">>, <<"https">>}
            known == \/ input.name = <<"a">> /\ input.port \in ports
                     \/ \E p \in ports : input.name = <<"a", ":">> \o p
        IN ~result.err <=> known

\* A socket that could not be prepared is closed, and no way through the fall-backs
\* of raptor_create_dualstack_socket leaves a second descriptor open.  When one of
\* several addresses fails, those before it stay open and are all recorded.
NoSocketLeaked ==
    /\ (Called("server") \/ Called("client")) =>
            ~result.sock.leaked /\ (result.err => ~result.sock.open)
    /\ Called("listen") =>
            \A i \in DOMAIN result.socks :
                /\ ~result.socks[i].leaked
                /\ result.socks[i].open <=> ~(result.err /\ i = Len(result.socks))

\* A listening socket is non-blocking, not inherited, listens with at least one
\* place in its queue, and takes IPv6 connections only if the address is one.
ServerReady ==
    Called("server") /\ ~result.err =>
        /\ result.sock.open
        /\ {"nonblock", "cloexec", "nodelay", "reuseaddr", "bound", "listening"} \subseteq result.sock.opts
        /\ result.sock.backlog \in 1 .. IntMax
        /\ result.sock.family = "v4" => Normalized(input.addr).family = "v4"

\* A client connects to the address it was given, in the form that fits the
\* socket: mapped for an IPv6 socket, which must take both, plain for an IPv4 one.
ConnectAddressFits ==
    Called("client") /\ ~result.err =>
        /\ result.sock.family = result.addr.family
        /\ Normalized(result.addr) = Normalized(input.addr)
        /\ "v6only" \in result.sock.opts => ~raptor_sockaddr_is_v4mapped(result.addr)

\* On Windows a socket that can be prepared is non-blocking and for both families,
\* so it fits the mapped address, which is the caller's or the wildcard of IPv6;
\* the fall-back to IPv4 never gets that far.  One that cannot be is closed, and
\* none is left behind.
WindowsSocketFits ==
    Called("windows") =>
        LET mapped == MappedForm(input.addr)
        IN /\ ~result.sock.leaked
           /\ result.err => ~result.sock.open
           /\ ~result.err => /\ result.sock.open
                             /\ {"nonblock", "nodelay"} \subseteq result.sock.opts
                             /\ result.sock.family = mapped.family
                             /\ "v6only" \notin result.sock.opts
           /\ raptor_sockaddr_is_wildcard(input.addr) <=>
                mapped = raptor_sockaddr_make_wildcard6(input.addr.port)

LastValue(list, key, default) ==
    LET at == {i \in DOMAIN list : list[i].key = key}
    IN IF at = {} THEN default ELSE list[Max(at)].value

\* Of a handler's settings the last one counts, and a setting that is absent, or a
\* timeout that is not positive, leaves the socket as it was.
LastSettingCounts ==
    Called("settings") =>
        /\ "nonblock" \notin result.opts => LastValue(input.list, "SocketNonBlocking", 1) = 0
        /\ "sndtimeo" \in result.opts => LastValue(input.list, "SocketSendTimeoutMs", 0) > 0

\* An object is created only when its last handler is set and Init succeeds, and
\* its option is the integer that was given last, or the default, though settings
\* are kept as unsigned words; the container's options are unsigned as well, and a
\* negative number is a very large one there.
OptionsAsGiven ==
    Called("create") /\ ~result.err =>
        LET kind == Kinds[input.kind]
            given == LastValue(input.list, kind.key, kind.default)
        IN /\ LastValue(input.list, kind.handler, 0) # 0
           /\ result.options[kind.at] =
                IF input.kind = "container" /\ given < 0 THEN 2^WordBits + given ELSE given

-----------------------------------------------------------------------------
(* The properties of the parts.                                             *)

\* A SliceBuffer is one byte sequence, whatever its slices are: content, length and
\* header agree with it after every sequence of operations.
BufferIsBytes == HoldsContent /\ LengthExact /\ HeaderExact

\* A counted object lives exactly as long as a pointer or a slice refers to it.
ReferencesExact == RefTypeOK /\ CountsLiveBlocks /\ RefsExact

\* Addresses survive being joined, split, printed, parsed and resolved.
AddressesFaithful == SplitInvertsJoin /\ AddressTextFaithful /\ KnownNamesResolve

\* A socket comes out ready, of the family of its address and with the options that
\* were given, or it is closed.
SocketsAsConfigured ==
    /\ NoSocketLeaked /\ ServerReady /\ ConnectAddressFits /\ WindowsSocketFits
    /\ LastSettingCounts /\ OptionsAsGiven
=============================================================================
