------------------------------ MODULE Settings ------------------------------
(***************************************************************************)
(* Property (property.h), the table of settings that the factories and the *)
(* handlers take, and ProcessProperty, which applies the settings that a   *)
(* handler leaves in it to the new socket.  All values are kept as words.  *)
(***************************************************************************)
EXTENDS SocketSetting

WordBits == 24  \* bound: stands for the 64 bits of uintptr_t and size_t
IntBits  == 4   \* bound: stands for the 32 bits of int

\* PropertyEntry(k, v): uintptr_t(v), for an int or bool (0 or 1) v.
ToWord(v) == v % 2^WordBits

\* static_cast<T> of a word
CastInt(w) ==
    LET low == w % 2^IntBits IN IF low >= 2^(IntBits - 1) THEN low - 2^IntBits ELSE low
CastBool(w) == w # 0

EmptyProperty == [k \in {} |-> 0]

\* A setting replaces an earlier one with the same key.
PutSetting(p, k, v) ==
    [x \in DOMAIN p \cup {k} |-> IF x = k THEN ToWord(v) ELSE p[x]]

\* Property(init_list) and operator()
MakeProperty(list) ==
    FoldLeft(LAMBDA p, e : PutSetting(p, e.key, e.value), EmptyProperty, list)

GetValue(p, key, default) == IF key \in DOMAIN p THEN CastInt(p[key]) ELSE default

\* CheckValue<bool>(key, v) && v = wanted, and the same for int with v > 0
CheckBool(p, key, wanted) == key \in DOMAIN p /\ CastBool(p[key]) = wanted
CheckInt(p, key) == key \in DOMAIN p /\ CastInt(p[key]) > 0

\* The errors of the setters are ignored: the sockets that a step may leave.
Try(socks, cond, Setter(_)) ==
    IF cond THEN UNION {{o.sock : o \in Setter(s)} : s \in socks} ELSE socks

\* TcpConnector::ProcessProperty
ProcessProperty(s, p) ==
    LET a == Try({s}, CheckBool(p, "SocketNoSIGPIPE", TRUE),
                 raptor_set_socket_no_sigpipe_if_possible)
        b == Try(a, CheckBool(p, "SocketReuseAddress", FALSE),
                 LAMBDA x : raptor_set_socket_reuse_addr(x, FALSE))
        c == Try(b, CheckBool(p, "SocketLowLatency", FALSE),
                 LAMBDA x : raptor_set_socket_low_latency(x, FALSE))
        d == Try(c, CheckInt(p, "SocketSendTimeoutMs"), raptor_set_socket_snd_timeout)
        e == Try(d, CheckInt(p, "SocketRecvTimeoutMs"), raptor_set_socket_rcv_timeout)
    IN Try(e, CheckBool(p, "SocketNonBlocking", FALSE),
           LAMBDA x : raptor_set_socket_nonblocking(x, FALSE))

\* TcpListener::ProcessProperty, the same on the accepted socket
ProcessAccepted(s, p) == ProcessProperty(s, p)

\* The factories: an object if the handler is set and Init succeeds, with its
\* options from the settings or the defaults.
Create(p, handler, init, options) ==
    IF handler \in DOMAIN p /\ p[handler] # 0 /\ init
    THEN [err |-> FALSE, options |-> options]
    ELSE [err |-> TRUE, options |-> <<>>]
CreateAcceptor(p, init) ==
    Create(p, "AcceptorHandler", init, <<GetValue(p, "ListenThreadNum", 1)>>)
CreateConnector(p, init) ==
    Create(p, "ConnectorHandler", init,
           <<GetValue(p, "ConnecThreadNum", 1), GetValue(p, "TcpUserTimeoutMs", 0)>>)
\* The int is assigned to a size_t of ContainerImpl::Option.
GetSize(p, key, default) == ToWord(GetValue(p, key, default))
CreateContainer(p, init) ==
    Create(p, "MessageHandler", init,
           <<GetSize(p, "RecvSendThreads", 1), GetSize(p, "DefaultContainerSize", 256),
             GetSize(p, "MaxContainerSize", 1048576), GetSize(p, "ConnectionTimeoutMs", 60000),
             GetSize(p, "MQConsumerThreads", 1)>>)
=============================================================================
