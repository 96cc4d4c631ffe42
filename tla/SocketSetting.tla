--------------------------- MODULE SocketSetting ----------------------------
(***************************************************************************)
(* How sockets are made and prepared on Linux (src/linux/socket_setting.cc)*)
(* Any system call may fail.  A socket is a record of its address family,  *)
(* the options that are on, whether its descriptor is open, and, as        *)
(* history, whether an earlier descriptor was left open; an operation      *)
(* yields the set of its possible outcomes.                                *)
(***************************************************************************)
EXTENDS Addresses

NoSocket == [family |-> "none", mode |-> "none", opts |-> {}, open |-> FALSE, leaked |-> FALSE,
             backlog |-> 0]

Ok(s)   == [err |-> FALSE, sock |-> s]
Fail(s) == [err |-> TRUE, sock |-> s]

\* The outcomes of an operation followed, if it succeeds, by Then.
AndThen(outcomes, Then(_)) == UNION {IF o.err THEN {o} ELSE Then(o.sock) : o \in outcomes}

With(s, opt, on) == [s EXCEPT !.opts = IF on THEN @ \cup {opt} ELSE @ \ {opt}]
Close(s) == [s EXCEPT !.open = FALSE]

\* A system call that may fail and otherwise sets an option.
Call(s, opt, on) == {Fail(s), Ok(With(s, opt, on))}

\* setsockopt, and getsockopt to see whether it worked: an error also if the
\* option was set but cannot be read, or if it was not set without an error.
SetVerified(s, opt, on) == {Fail(s), Fail(With(s, opt, on)), Ok(With(s, opt, on))}

raptor_set_socket_nonblocking(s, on) == Call(s, "nonblock", on)
raptor_set_socket_cloexec(s, on) == Call(s, "cloexec", on)
raptor_set_socket_reuse_addr(s, on) == SetVerified(s, "reuseaddr", on)
raptor_set_socket_low_latency(s, on) == SetVerified(s, "nodelay", on)
raptor_set_socket_reuse_port(s, on) == SetVerified(s, "reuseport", on)
raptor_set_socket_snd_timeout(s) == Call(s, "sndtimeo", TRUE)
raptor_set_socket_rcv_timeout(s) == Call(s, "rcvtimeo", TRUE)
raptor_set_socket_ipv6_only(s, only) == Call(s, "v6only", only)

\* Never an error.
raptor_set_socket_tcp_user_timeout(s) == {Ok(s), Ok(With(s, "usertimeout", TRUE))}

\* There is no SO_NOSIGPIPE on Linux.
raptor_set_socket_no_sigpipe_if_possible(s) == {Ok(s)}

raptor_is_unix_socket(addr) == raptor_sockaddr_get_family(addr) = "unix"

\* socket(); s is the socket whose descriptor the new one replaces.  IPV6_V6ONLY
\* is on or off by the system's default.
NewSocket(s, family) ==
    LET leaked == s.leaked \/ s.open
        new(opts) == [NoSocket EXCEPT !.family = family, !.opts = opts, !.open = TRUE,
                                      !.leaked = leaked]
    IN {Fail([NoSocket EXCEPT !.leaked = leaked]), Ok(new({}))} \cup
       (IF family = "v6" THEN {Ok(new({"v6only"}))} ELSE {})

WithMode(o, mode) == [o EXCEPT !.sock.mode = mode]

\* The socket of family f, after the one of s.
PlainSocket(s, f) ==
    {WithMode(o, IF f = "v4" THEN "IPV4" ELSE "NONE") : o \in NewSocket(s, f)}

\* An IPv6 socket for both families if possible; if not, whatever there is for an
\* IPv6 address, and an IPv4 socket for a mapped one.
FallBackOpen(s) == PlainSocket(s, "v4")
FallBack(s) == PlainSocket(Close(s), "v4")
raptor_create_dualstack_socket(addr) ==
    LET dual == AndThen(NewSocket(NoSocket, "v6"),
                        LAMBDA s : raptor_set_socket_ipv6_only(s, FALSE))
    IN IF raptor_sockaddr_get_family(addr) # "v6"
       THEN PlainSocket(NoSocket, raptor_sockaddr_get_family(addr))
       ELSE {WithMode(o, "DUALSTACK") : o \in {o \in dual : ~o.err}} \cup
            UNION {IF raptor_sockaddr_is_v4mapped(addr)
                   THEN FallBack(o.sock)
                   ELSE {WithMode([o EXCEPT !.err = ~o.sock.open], "IPV6")} :
                   o \in {o \in dual : o.err}}

\* What /proc/sys/net/core/somaxconn says, -1 without the file, if in range.
SOMAXCONN == 128
IntMax == 1000   \* bound: stands for INT_MAX
get_max_accept_queue_size(file) ==
    IF file \in 1 .. IntMax THEN file ELSE SOMAXCONN

\* error: the descriptor is closed.
KeepOnError(outcomes) == outcomes
CloseOnError(outcomes) == {IF o.err THEN Fail(Close(o.sock)) ELSE o : o \in outcomes}

\* The options every TCP socket gets.
StreamOptions(s, addr) ==
    IF raptor_is_unix_socket(addr) THEN {Ok(s)}
    ELSE AndThen(AndThen(raptor_set_socket_low_latency(s, TRUE),
                         LAMBDA x : raptor_set_socket_reuse_addr(x, TRUE)),
                 raptor_set_socket_tcp_user_timeout)

CommonOptions(s, addr) ==
    AndThen(AndThen(AndThen(raptor_set_socket_nonblocking(s, TRUE),
                            LAMBDA x : raptor_set_socket_cloexec(x, TRUE)),
                    LAMBDA x : StreamOptions(x, addr)),
            raptor_set_socket_no_sigpipe_if_possible)

BindAndListen(s, file) ==
    AndThen(AndThen(Call(s, "bound", TRUE), LAMBDA x : Call(x, "listening", TRUE)),
            LAMBDA x : LET y == [x EXCEPT !.backlog = get_max_accept_queue_size(file)]
                       IN {Fail(y), Ok(y)})

raptor_tcp_server_prepare_socket(s, addr, so_reuseport, file) ==
    CloseOnError(
        AndThen(AndThen(IF so_reuseport /\ ~raptor_is_unix_socket(addr)
                        THEN raptor_set_socket_reuse_port(s, TRUE)
                        ELSE {Ok(s)},
                        LAMBDA x : CommonOptions(x, addr)),
                LAMBDA x : BindAndListen(x, file)))

\* The socket that TcpListener::AddListeningPort records, and AcceptorAdaptor::
\* AddListening, which does that for one address after the other up to an error.
ListeningSocket(addr, file) ==
    AndThen(raptor_create_dualstack_socket(addr),
            LAMBDA s : raptor_tcp_server_prepare_socket(s, addr, TRUE, file))
AddListening(addrs, file) ==
    LET add(outs, a) ==
            UNION {IF o.err THEN {o}
                   ELSE {[err |-> p.err, socks |-> Append(o.socks, p.sock)] :
                         p \in ListeningSocket(a, file)} : o \in outs}
    IN FoldLeft(add, {[err |-> FALSE, socks |-> <<>>]}, addrs)

tcp_client_prepare_socket(addr, s) == CloseOnError(CommonOptions(s, addr))

\* The outcomes with the address to connect to: of a socket for both families
\* the mapped one, of an IPv4 socket the IPv4 address.
MappedAddr(addr, mode) == IF mode = "IPV4" THEN Normalized(addr)
                          ELSE raptor_sockaddr_to_v4mapped(addr)

raptor_tcp_client_prepare_socket(addr) ==
    LET mapped == raptor_sockaddr_to_v4mapped(addr)
        made == raptor_create_dualstack_socket(mapped)
    IN {[err |-> o.err, sock |-> o.sock, addr |-> MappedAddr(addr, o.sock.mode)] :
        o \in AndThen(made, LAMBDA s : tcp_client_prepare_socket(MappedAddr(addr, s.mode), s))}
=============================================================================
