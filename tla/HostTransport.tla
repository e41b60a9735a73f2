--------------------------- MODULE HostTransport ---------------------------
(***************************************************************************)
(* BehaviorClient of host/transport.py: one persistent connection to the   *)
(* device, used by sender threads (send, send_keepalive, close) and by the *)
(* uplink reader thread, any of which may replace or drop it.              *)
(*                                                                         *)
(* A step is what a thread does while it holds a lock, or one blocking     *)
(* call.  Sockets and the device's end of the connection are external: the *)
(* device serves one connection at a time, and drops it when it likes.     *)
(* Behavior lines are not told apart; an input line of the device comes in *)
(* two pieces, so that a recv can split it.                                *)
(***************************************************************************)
EXTENDS Integers, Sequences

CONSTANTS
    Senders,        \* threads that send; Closer is the one that closes
    Closer,
    Reader,         \* the uplink reader thread
    HasReader,      \* whether the client was given an on_touch sink
    Sockets,        \* socket objects; one is reused when nobody refers to it
    None,           \* Python's None
    Touches,        \* input lines the device may send
    MaxInflight     \* bound on the unread pieces of a connection

ASSUME HostTransportAssumption ==
    /\ Closer \in Senders /\ Reader \notin Senders
    /\ None \notin Sockets \cup Senders \cup {Reader}
    /\ HasReader \in BOOLEAN /\ MaxInflight \in Nat \ {0}

Threads == Senders \cup {Reader}
SendAttempts == 2

VARIABLES
    _sock, _closed, _ever_connected,    \* fields of the client
    _send_lock,                         \* the thread that holds it, or None
    pc, sock,       \* where each thread is, and its local socket reference
    op, attempt,    \* what a sender is doing, and which try of send it is in
    attached, buffer,                   \* locals of _read_loop
    open,           \* sockets this process has not closed
    device,         \* the socket the device is serving, or None
    sent,           \* the downlink of a socket: ends in a whole line or not
    arriving,       \* unread uplink pieces of a socket
    mid_line        \* the input lines the device has half written (none or one)

\* History: the last input line the reader handled; whether a behavior line
\* was written after an unfinished one of the same connection.
VARIABLES last_line, garbled

client_vars == <<_sock, _closed, _ever_connected>>
local_vars == <<sock, op, attempt>>
read_vars == <<attached, buffer, last_line>>
net_vars == <<open, device, sent, arriving, mid_line>>
vars == <<client_vars, _send_lock, pc, local_vars, read_vars, net_vars, garbled>>

Goto(t, label) == pc' = [pc EXCEPT ![t] = label]
Hold(t, s) == sock' = [sock EXCEPT ![t] = s]

\* The thread has nothing more to do with its socket or its operation.
Return(t) ==
    /\ Goto(t, "idle")
    /\ Hold(t, None)
    /\ op' = [op EXCEPT ![t] = "none"]
    /\ attempt' = [attempt EXCEPT ![t] = 0]

Unreferenced(s) ==
    /\ s \notin open \cup {_sock, device, attached}
    /\ \A t \in Threads : sock[t] # s

-----------------------------------------------------------------------------
(***************************************************************************)
(* The network and the device.                                             *)
(***************************************************************************)
\* create_connection succeeds: the device was accepting.
Connected(t, s) ==
    /\ device = None /\ Unreferenced(s)
    /\ device' = s
    /\ open' = open \cup {s}
    /\ sent' = [sent EXCEPT ![s] = "whole"]
    /\ arriving' = [arriving EXCEPT ![s] = <<>>]
    /\ mid_line' = {}
    /\ Hold(t, s)

\* The device times out, resets, or notices that the host has closed.
DeviceDrops ==
    /\ device # None
    /\ device' = None
    /\ UNCHANGED <<client_vars, _send_lock, pc, local_vars, read_vars, open,
                   sent, arriving, mid_line, garbled>>

\* The device writes the first or the second half of an input line.
DeviceSends(g) ==
    /\ device # None /\ Len(arriving[device]) < MaxInflight
    /\ \/ /\ mid_line = {}
          /\ mid_line' = {g}
          /\ arriving' = [arriving EXCEPT ![device] = Append(@, [piece |-> "head", of |-> g])]
       \/ /\ mid_line = {g}
          /\ mid_line' = {}
          /\ arriving' = [arriving EXCEPT ![device] = Append(@, [piece |-> "tail", of |-> g])]
    /\ UNCHANGED <<client_vars, _send_lock, pc, local_vars, read_vars, open,
                   device, sent, garbled>>

-----------------------------------------------------------------------------
(***************************************************************************)
(* Calls of the sender threads.                                            *)
(***************************************************************************)
StartSend(t) ==
    /\ pc[t] = "idle"
    /\ Goto(t, "ensure")
    /\ op' = [op EXCEPT ![t] = "send"]
    /\ attempt' = [attempt EXCEPT ![t] = 1]
    /\ UNCHANGED <<client_vars, _send_lock, sock, read_vars, net_vars, garbled>>

\* _ensure_connected, first look under the lock.
Ensure(t) ==
    /\ pc[t] = "ensure"
    /\ Hold(t, _sock)
    /\ Goto(t, IF _sock # None THEN "lock" ELSE "connect")
    /\ UNCHANGED <<client_vars, _send_lock, op, attempt, read_vars, net_vars, garbled>>

SenderConnects(t) ==
    /\ pc[t] = "connect"
    /\ \E s \in Sockets : Connected(t, s)
    /\ Goto(t, "install")
    /\ UNCHANGED <<client_vars, _send_lock, op, attempt, read_vars, garbled>>

\* connect_retries attempts have failed: TransportError.
SenderGivesUp(t) ==
    /\ pc[t] = "connect"
    /\ Return(t)
    /\ UNCHANGED <<client_vars, _send_lock, read_vars, net_vars, garbled>>

\* Mutant of Install: only the reader's probe records the first connection.
Install_unrecorded(t) ==
    \/ /\ _closed
       /\ open' = open \ {sock[t]}
       /\ Return(t)
       /\ UNCHANGED <<_sock, _ever_connected>>
    \/ /\ ~_closed /\ _sock # None
       /\ open' = open \ {sock[t]}
       /\ Hold(t, _sock)
       /\ Goto(t, "lock")
       /\ UNCHANGED <<_sock, _ever_connected, op, attempt>>
    \/ /\ ~_closed /\ _sock = None
       /\ _sock' = sock[t]
       /\ Goto(t, "lock")
       /\ UNCHANGED <<_ever_connected, sock, op, attempt, open>>

\* _ensure_connected, second look: the client may have been closed, or the
\* other thread may have connected, while this one was connecting.
Install(t) ==
    \/ /\ _closed
       /\ open' = open \ {sock[t]}
       /\ Return(t)
       /\ UNCHANGED <<_sock, _ever_connected>>
    \/ /\ ~_closed /\ _sock # None
       /\ open' = open \ {sock[t]}
       /\ Hold(t, _sock)
       /\ Goto(t, "lock")
       /\ UNCHANGED <<_sock, _ever_connected, op, attempt>>
    \/ /\ ~_closed /\ _sock = None
       /\ _sock' = sock[t] /\ _ever_connected' = TRUE
       /\ Goto(t, "lock")
       /\ UNCHANGED <<sock, op, attempt, open>>

SenderInstalls(t) ==
    /\ pc[t] = "install"
    /\ Install(t)
    /\ UNCHANGED <<_closed, _send_lock, read_vars, device, sent, arriving, mid_line,
                   garbled>>

StartKeepalive(t) ==
    /\ pc[t] = "idle" /\ _sock # None
    /\ Hold(t, _sock)
    /\ op' = [op EXCEPT ![t] = "keepalive"]
    /\ Goto(t, "lock")
    /\ UNCHANGED <<client_vars, _send_lock, attempt, read_vars, net_vars, garbled>>

TakeSendLock(t) ==
    /\ pc[t] = "lock" /\ _send_lock = None
    /\ _send_lock' = t
    /\ Goto(t, "sendall")
    /\ UNCHANGED <<client_vars, local_vars, read_vars, net_vars, garbled>>

\* sendall returns.  The peer need not have received anything: a dead
\* connection may still take the bytes.  A keepalive's newline ends whatever
\* line was unfinished.
SendallReturns(t) ==
    LET s == sock[t] IN
    /\ pc[t] = "sendall" /\ s \in open
    /\ _send_lock' = None
    /\ garbled' = (garbled \/ (op[t] = "send" /\ sent[s] = "cut"))
    /\ sent' = [sent EXCEPT ![s] = "whole"]
    /\ Return(t)
    /\ UNCHANGED <<client_vars, read_vars, open, device, arriving, mid_line>>

\* sendall raises (timeout, reset, or a socket another thread has closed),
\* having written nothing, part of the line or all of it.
SendallRaises(t) ==
    LET s == sock[t] IN
    /\ pc[t] = "sendall"
    /\ _send_lock' = None
    /\ \/ UNCHANGED <<sent, garbled>>
       \/ /\ s \in open /\ op[t] = "send"
          /\ \E how \in {"cut", "whole"} : sent' = [sent EXCEPT ![s] = how]
          /\ garbled' = (garbled \/ sent[s] = "cut")
       \/ /\ s \in open /\ op[t] = "keepalive"
          /\ sent' = [sent EXCEPT ![s] = "whole"]
          /\ UNCHANGED garbled
    /\ Goto(t, "drop")
    /\ UNCHANGED <<client_vars, local_vars, read_vars, open, device, arriving, mid_line>>

\* Mutant of Forget: whatever socket is installed is forgotten.
Forget_any(s) == _sock' = None

\* _drop under the lock: only the socket that failed is forgotten.
Forget(s) == _sock' = IF _sock = s THEN None ELSE _sock

SenderDrops(t) ==
    /\ pc[t] = "drop"
    /\ Forget(sock[t])
    /\ Goto(t, "close_sock")
    /\ UNCHANGED <<_closed, _ever_connected, _send_lock, local_vars, read_vars,
                   net_vars, garbled>>

\* Mutant of SenderClosesSock: the failed socket is tried again.
SenderClosesSock_keeps(t) ==
    /\ pc[t] = "close_sock"
    /\ UNCHANGED open
    /\ IF op[t] = "send" /\ attempt[t] < SendAttempts
       THEN /\ Goto(t, "lock")
            /\ attempt' = [attempt EXCEPT ![t] = @ + 1]
            /\ UNCHANGED <<sock, op>>
       ELSE Return(t)
    /\ UNCHANGED <<client_vars, _send_lock, read_vars, device, sent, arriving, mid_line,
                   garbled>>

\* _drop outside the lock, then the next try of send or the error.
SenderClosesSock(t) ==
    /\ pc[t] = "close_sock"
    /\ open' = open \ {sock[t]}
    /\ IF op[t] = "send" /\ attempt[t] < SendAttempts
       THEN /\ Goto(t, "ensure")
            /\ Hold(t, None)
            /\ attempt' = [attempt EXCEPT ![t] = @ + 1]
            /\ UNCHANGED op
       ELSE Return(t)
    /\ UNCHANGED <<client_vars, _send_lock, read_vars, device, sent, arriving, mid_line,
                   garbled>>

-----------------------------------------------------------------------------
(***************************************************************************)
(* close().                                                                *)
(***************************************************************************)
StartClose(t) ==
    /\ t = Closer /\ pc[t] = "idle" /\ ~_closed
    /\ _closed' = TRUE
    /\ op' = [op EXCEPT ![t] = "close"]
    /\ Goto(t, "close_get")
    /\ UNCHANGED <<_sock, _ever_connected, _send_lock, sock, attempt, read_vars,
                   net_vars, garbled>>

CloseGets(t) ==
    /\ pc[t] = "close_get"
    /\ Hold(t, _sock)
    /\ Goto(t, "close_clear")
    /\ UNCHANGED <<client_vars, _send_lock, op, attempt, read_vars, net_vars, garbled>>

CloseClears(t) ==
    /\ pc[t] = "close_clear"
    /\ _sock' = None
    /\ Goto(t, "close_close")
    /\ UNCHANGED <<_closed, _ever_connected, _send_lock, local_vars, read_vars,
                   net_vars, garbled>>

\* Close the socket it found; joining the reader gives up after two seconds.
CloseCloses(t) ==
    /\ pc[t] = "close_close"
    /\ open' = open \ {sock[t]}
    /\ Goto(t, "done")
    /\ Hold(t, None)
    /\ UNCHANGED <<client_vars, _send_lock, op, attempt, read_vars, device, sent,
                   arriving, mid_line, garbled>>

-----------------------------------------------------------------------------
(***************************************************************************)
(* _read_loop.                                                             *)
(***************************************************************************)
ReaderGoto(label) == Goto(Reader, label)

Detach == attached' = None /\ buffer' = <<>>

\* Mutant of Attach: the unfinished line of the old connection is kept.
Attach_keeps_buffer(s) == attached' = s /\ UNCHANGED buffer

Attach(s) == attached' = s /\ buffer' = <<>>

ReaderChecksClosed ==
    /\ pc[Reader] = "top"
    /\ ReaderGoto(IF _closed THEN "done" ELSE "get")
    /\ UNCHANGED <<client_vars, _send_lock, local_vars, read_vars, net_vars, garbled>>

\* No socket: probe once the link has been up, sleep until then.
ReaderFindsNone ==
    /\ pc[Reader] = "get" /\ _sock = None
    /\ ReaderGoto(IF _ever_connected THEN "probe" ELSE "top")
    /\ Detach
    /\ UNCHANGED <<client_vars, _send_lock, local_vars, last_line, net_vars, garbled>>

ReaderFindsSocket ==
    /\ pc[Reader] = "get" /\ _sock # None
    /\ Hold(Reader, _sock)
    /\ IF _sock # attached THEN Attach(_sock) ELSE UNCHANGED <<attached, buffer>>
    /\ ReaderGoto("recv")
    /\ UNCHANGED <<client_vars, _send_lock, op, attempt, last_line, net_vars, garbled>>

ProbeConnects ==
    /\ pc[Reader] = "probe"
    /\ \E s \in Sockets : Connected(Reader, s)
    /\ ReaderGoto("probe_install")
    /\ UNCHANGED <<client_vars, _send_lock, op, attempt, read_vars, garbled>>

ProbeFails ==
    /\ pc[Reader] = "probe"
    /\ ReaderGoto("top")
    /\ UNCHANGED <<client_vars, _send_lock, local_vars, read_vars, net_vars, garbled>>

\* Mutant of ProbeInstalls: the probe does not look whether close() ran.
ProbeInstalls_after_close ==
    /\ pc[Reader] = "probe_install"
    /\ IF _sock # None
       THEN open' = open \ {sock[Reader]} /\ UNCHANGED <<_sock, _ever_connected>>
       ELSE _sock' = sock[Reader] /\ _ever_connected' = TRUE /\ UNCHANGED open
    /\ Hold(Reader, None)
    /\ ReaderGoto("top")
    /\ UNCHANGED <<_closed, _send_lock, op, attempt, read_vars, device, sent,
                   arriving, mid_line, garbled>>

ProbeInstalls ==
    /\ pc[Reader] = "probe_install"
    /\ IF _closed \/ _sock # None
       THEN open' = open \ {sock[Reader]} /\ UNCHANGED <<_sock, _ever_connected>>
       ELSE _sock' = sock[Reader] /\ _ever_connected' = TRUE /\ UNCHANGED open
    /\ Hold(Reader, None)
    /\ ReaderGoto("top")
    /\ UNCHANGED <<_closed, _send_lock, op, attempt, read_vars, device, sent,
                   arriving, mid_line, garbled>>

\* recv returns data: complete lines are handled, the rest is kept.
RecvData ==
    LET s == sock[Reader]
        data == Head(arriving[s])
    IN  /\ pc[Reader] = "recv" /\ s \in open /\ arriving[s] # <<>>
        /\ arriving' = [arriving EXCEPT ![s] = Tail(@)]
        /\ IF data.piece = "tail"
           THEN buffer' = <<>> /\ last_line' = Append(buffer, data)
           ELSE buffer' = Append(buffer, data) /\ UNCHANGED last_line
        /\ Hold(Reader, None)
        /\ ReaderGoto("top")
        /\ UNCHANGED <<client_vars, _send_lock, op, attempt, attached, open,
                       device, sent, mid_line, garbled>>

RecvTimesOut ==
    /\ pc[Reader] = "recv"
    /\ Hold(Reader, None)
    /\ ReaderGoto("top")
    /\ UNCHANGED <<client_vars, _send_lock, op, attempt, read_vars, net_vars, garbled>>

\* recv returns b"" or raises: the device is gone, or another thread closed
\* the socket.  Data still unread is lost when the connection was reset.
RecvEnds ==
    LET s == sock[Reader] IN
    /\ pc[Reader] = "recv" /\ (s \notin open \/ device # s)
    /\ ReaderGoto("read_drop")
    /\ UNCHANGED <<client_vars, _send_lock, local_vars, read_vars, net_vars, garbled>>

ReaderDrops ==
    /\ pc[Reader] = "read_drop"
    /\ Forget(sock[Reader])
    /\ ReaderGoto("read_close")
    /\ UNCHANGED <<_closed, _ever_connected, _send_lock, local_vars, read_vars,
                   net_vars, garbled>>

ReaderCloses ==
    /\ pc[Reader] = "read_close"
    /\ open' = open \ {sock[Reader]}
    /\ Detach
    /\ Hold(Reader, None)
    /\ ReaderGoto("top")
    /\ UNCHANGED <<client_vars, _send_lock, op, attempt, last_line, device, sent,
                   arriving, mid_line, garbled>>

-----------------------------------------------------------------------------
Init ==
    /\ _sock = None /\ _closed = FALSE /\ _ever_connected = FALSE
    /\ _send_lock = None
    /\ pc = [t \in Threads |-> IF t # Reader THEN "idle"
                               ELSE IF HasReader THEN "top" ELSE "done"]
    /\ sock = [t \in Threads |-> None]
    /\ op = [t \in Threads |-> "none"]
    /\ attempt = [t \in Threads |-> 0]
    /\ attached = None /\ buffer = <<>> /\ last_line = <<>>
    /\ open = {} /\ device = None
    /\ sent = [s \in Sockets |-> "whole"]
    /\ arriving = [s \in Sockets |-> <<>>] /\ mid_line = {}
    /\ garbled = FALSE

\* What a thread does of its own accord, whatever the outcome of its calls.
SenderStep(t) ==
    \/ Ensure(t) \/ SenderConnects(t) \/ SenderGivesUp(t) \/ SenderInstalls(t)
    \/ TakeSendLock(t) \/ SendallReturns(t) \/ SendallRaises(t)
    \/ SenderDrops(t) \/ SenderClosesSock(t)
    \/ CloseGets(t) \/ CloseClears(t) \/ CloseCloses(t)

ReaderStep ==
    \/ ReaderChecksClosed \/ ReaderFindsNone \/ ReaderFindsSocket
    \/ ProbeConnects \/ ProbeFails \/ ProbeInstalls
    \/ RecvData \/ RecvTimesOut \/ RecvEnds \/ ReaderDrops \/ ReaderCloses

Next ==
    \/ \E t \in Senders : StartSend(t) \/ StartKeepalive(t) \/ StartClose(t)
    \/ \E t \in Senders : SenderStep(t)
    \/ ReaderStep
    \/ DeviceDrops
    \/ \E g \in Touches : DeviceSends(g)

Spec == Init /\ [][Next]_vars

\* Every thread runs on: its blocking calls time out.  A device notices in the
\* end that the host has closed its socket, and a probe that keeps finding it
\* accepting connects in the end.  Nothing is assumed of a device the host is
\* connected to, nor that anybody sends or closes.
Fairness ==
    /\ \A t \in Senders : WF_vars(SenderStep(t))
    /\ WF_vars(ReaderStep) /\ SF_vars(ProbeConnects)
    /\ WF_vars(device \notin open /\ DeviceDrops)

FairSpec == Spec /\ Fairness

-----------------------------------------------------------------------------
SenderLabels == {"idle", "ensure", "connect", "install", "lock", "sendall", "drop",
                 "close_sock", "close_get", "close_clear", "close_close", "done"}
ReaderLabels == {"top", "get", "probe", "probe_install", "recv", "read_drop",
                 "read_close", "done"}
Pieces == [piece : {"head", "tail"}, of : Touches]

ThreadsTypeOK ==
    /\ _sock \in Sockets \cup {None}
    /\ _closed \in BOOLEAN /\ _ever_connected \in BOOLEAN
    /\ pc \in [Threads -> SenderLabels \cup ReaderLabels]
    /\ \A t \in Senders : pc[t] \in SenderLabels
    /\ pc[Reader] \in ReaderLabels
    /\ sock \in [Threads -> Sockets \cup {None}]
    /\ op \in [Threads -> {"none", "send", "keepalive", "close"}]
    /\ attempt \in [Threads -> 0..SendAttempts]
    /\ _send_lock \in Senders \cup {None}
    /\ \A t \in Senders : pc[t] = "sendall" <=> _send_lock = t

StreamsTypeOK ==
    /\ attached \in Sockets \cup {None} /\ buffer \in Seq(Pieces)
    /\ open \subseteq Sockets /\ device \in Sockets \cup {None}
    /\ sent \in [Sockets -> {"whole", "cut"}]
    /\ arriving \in [Sockets -> Seq(Pieces)]
    /\ mid_line \subseteq Touches
    /\ last_line \in Seq(Pieces) /\ garbled \in BOOLEAN

\* Every variable keeps its type, the tries of a send are bounded, and the
\* thread inside sendall is the one that holds the send lock.
TypeOK == ThreadsTypeOK /\ StreamsTypeOK

\* Labels at which a thread is the one that will install or close its socket.
Owning == {"install", "probe_install", "close_sock", "read_close", "close_close"}

\* No connection is leaked: an open socket is the client's, or some thread is
\* about to install or close it, whichever of send, keepalive, close and the
\* reader's probe meet.  (A leaked one would keep the device, which serves a
\* single connection, from accepting the host again.)
NoLeakedSocket ==
    \A s \in open : s = _sock \/ \E t \in Threads : sock[t] = s /\ pc[t] \in Owning

\* A socket is closed by this process only after the client has forgotten it
\* (_drop, close), so no thread is handed a socket that another has closed.
SharedSocketIsOpen == _sock # None => _sock \in open

\* The reader hands on whole lines of one connection: an unfinished line is
\* never completed with bytes of the connection that replaced it.
UplinkLinesWhole ==
    last_line = <<>> \/
        \E g \in Touches : last_line = <<[piece |-> "head", of |-> g],
                                         [piece |-> "tail", of |-> g]>>

\* With one sending thread, a behavior line is never written behind an
\* unfinished one: a send that failed half way is tried again on a new
\* connection only.
DownlinkLinesIntact == Senders = {Closer} => ~garbled

Link == INSTANCE SingleLink WITH link <- _sock, shut <- _closed

\* "the lock and the double-check keep the host to a single live socket": the
\* client implements SingleLink.
ImplementsSingleLink == Link!Spec

\* "re-establish it in the background so touch uplink resumes promptly after
\* a transient disconnect": a link that was up once comes back although
\* nobody sends.
LinkRestored ==
    [](HasReader /\ _sock # None => []<>(_sock # None \/ _closed))

\* After close() no connection stays open, not even one that a sender or the
\* probe was establishing meanwhile.
SocketsClosedAfterClose ==
    \A s \in Sockets : (_closed /\ s \in open) ~> (s \notin open)

=============================================================================
