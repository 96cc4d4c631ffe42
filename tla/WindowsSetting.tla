--------------------------- MODULE WindowsSetting ---------------------------
(***************************************************************************)
(* How sockets are made and prepared on Windows                            *)
(* (src/windows/socket_setting.cc), in the style of SocketSetting.  What   *)
(* has the same name in the code as on Linux has the prefix win_ here.     *)
(***************************************************************************)
EXTENDS Settings

\* One call each; nothing is read back.
win_set_socket_nonblocking(s, on) == Call(s, "nonblock", on)
win_set_socket_reuse_addr(s, on) == Call(s, "reuseaddr", on)
win_set_socket_low_latency(s, on) == Call(s, "nodelay", on)
win_set_socket_snd_timeout(s) == Call(s, "sndtimeo", TRUE)
win_set_socket_rcv_timeout(s) == Call(s, "rcvtimeo", TRUE)

\* An IPv4 socket has no such option: the call fails.
win_set_socket_ipv6_only(s, only) == IF s.family = "v4" THEN {Fail(s)} ELSE Call(s, "v6only", only)

\* These do nothing on Windows.
win_set_socket_tcp_user_timeout(s) == {Ok(s)}
win_set_socket_no_sigpipe_if_possible(s) == {Ok(s)}

\* The same fall-backs as on Linux.
win_create_dualstack_socket(addr) ==
    LET dual == AndThen(NewSocket(NoSocket, "v6"),
                        LAMBDA s : win_set_socket_ipv6_only(s, FALSE))
    IN IF raptor_sockaddr_get_family(addr) # "v6"
       THEN PlainSocket(NoSocket, raptor_sockaddr_get_family(addr))
       ELSE UNION {CASE ~o.err -> {WithMode(o, "DUALSTACK")}
                     [] o.err /\ raptor_sockaddr_is_v4mapped(addr) ->
                            PlainSocket(Close(o.sock), "v4")
                     [] OTHER -> {WithMode([o EXCEPT !.err = ~o.sock.open], "IPV6")} : o \in dual}

\* An IPv4 address is mapped, and either wildcard becomes the one of IPv6.
MappedForm(addr) ==
    LET mapped == raptor_sockaddr_to_v4mapped(addr)
    IN IF raptor_sockaddr_is_wildcard(mapped)
       THEN raptor_sockaddr_make_wildcard6(raptor_sockaddr_get_port(mapped))
       ELSE mapped

raptor_create_socket(addr) == win_create_dualstack_socket(MappedForm(addr))

\* The mapped address stays what it is after a fall-back to IPv4, but such a
\* socket cannot be prepared.
raptor_tcp_prepare_socket(s) ==
    AndThen(AndThen(AndThen(win_set_socket_nonblocking(s, TRUE),
                            LAMBDA x : win_set_socket_ipv6_only(x, FALSE)),
                    LAMBDA x : win_set_socket_low_latency(x, TRUE)),
            win_set_socket_tcp_user_timeout)

\* bind, listen with SOMAXCONN, getsockname; the socket is closed on an error.
win_tcp_server_prepare_socket(s) ==
    CloseOnError(AndThen(AndThen(AndThen(raptor_tcp_prepare_socket(s),
                                         LAMBDA x : Call(x, "bound", TRUE)),
                                 LAMBDA x : Call(x, "listening", TRUE)),
                         LAMBDA x : {Fail(x), Ok([x EXCEPT !.backlog = SOMAXCONN])}))

\* The address of a pointer to ConnectEx or AcceptEx, asked for with the socket.
GetExtensionFunction(s) == {Fail(s), Ok(s)}

\* TcpListener::AddListeningPort up to the listening socket
WinListeningSocket(addr) ==
    AndThen(AndThen(raptor_create_socket(addr),
                    LAMBDA s : CloseOnError(GetExtensionFunction(s))),
            win_tcp_server_prepare_socket)

\* TcpConnector::InternalConnect up to the call of ConnectEx
ConnectSocket(addr) ==
    CloseOnError(AndThen(AndThen(AndThen(raptor_create_socket(addr), raptor_tcp_prepare_socket),
                                 GetExtensionFunction),
                         LAMBDA s : Call(s, "bound", TRUE)))

\* TcpListener::StartAcceptEx: the socket that will be the accepted one
AcceptSocket(addr) ==
    CloseOnError(AndThen(PlainSocket(NoSocket, raptor_sockaddr_get_family(addr)),
                         raptor_tcp_prepare_socket))

\* ProcessProperty of the connector and of the listener
WinProcessProperty(s, p) ==
    LET a == Try({s}, CheckBool(p, "SocketNoSIGPIPE", TRUE), win_set_socket_no_sigpipe_if_possible)
        b == Try(a, CheckBool(p, "SocketReuseAddress", FALSE),
                 LAMBDA x : win_set_socket_reuse_addr(x, FALSE))
        c == Try(b, CheckBool(p, "SocketLowLatency", FALSE),
                 LAMBDA x : win_set_socket_low_latency(x, FALSE))
        d == Try(c, CheckInt(p, "SocketSendTimeoutMs"), win_set_socket_snd_timeout)
        e == Try(d, CheckInt(p, "SocketRecvTimeoutMs"), win_set_socket_rcv_timeout)
    IN Try(e, CheckBool(p, "SocketNonBlocking", FALSE),
           LAMBDA x : win_set_socket_nonblocking(x, FALSE))
WinProcessAccepted(s, p) == WinProcessProperty(s, p)
=============================================================================
