------------------------ MODULE HostTransportProofs ------------------------
(***************************************************************************)
(* BehaviorClient implements SingleLink, leaks no socket, glues no         *)
(* behavior line to an unfinished one and hands on whole touch lines, for  *)
(* any number of threads, sockets and touches.                             *)
(***************************************************************************)
EXTENDS HostTransport, SequenceTheorems, TLAPS

\* A thread past the point where it got a socket has one.
HasSocket ==
    /\ \A t \in Senders :
          pc[t] \in {"install", "lock", "sendall", "drop", "close_sock"} => sock[t] \in Sockets
    /\ pc[Reader] \in {"probe_install", "recv", "read_drop", "read_close"} => sock[Reader] \in Sockets

\* A socket that is being established is open and known to its thread only.
FreshIsPrivate ==
    \A t \in Threads :
        pc[t] \in {"install", "probe_install"} =>
            /\ sock[t] \in open /\ sock[t] # _sock
            /\ \A u \in Threads \ {t} : sock[u] # sock[t]

\* A socket about to be closed has been forgotten by the client.
ForgottenBeforeClosed ==
    \A t \in Threads :
        pc[t] \in {"close_sock", "read_close", "close_close"} =>
            sock[t] # _sock \/ sock[t] = None

\* close() is under way: the client is closed, so the socket close() found
\* can only have been forgotten since.
CloseFoundTheSocket ==
    \A t \in Threads :
        /\ pc[t] \in {"close_get", "close_clear", "close_close"} => _closed
        /\ pc[t] = "close_clear" => _sock \in {None, sock[t]}

\* With one sender an unfinished line is on a socket that this sender is about
\* to close, or that is closed.
CutIsAbandoned ==
    \A t \in Senders : Senders = {t} =>
        /\ ~garbled
        /\ \A s \in open : sent[s] = "cut" =>
              sock[t] = s /\ pc[t] \in {"drop", "close_sock"}

SocketInv ==
    /\ HasSocket /\ FreshIsPrivate /\ ForgottenBeforeClosed /\ CloseFoundTheSocket
    /\ SharedSocketIsOpen /\ NoLeakedSocket

IInv == TypeOK /\ SocketInv /\ CutIsAbandoned

-----------------------------------------------------------------------------
\* Every action keeps the types of the client's fields and of the threads, and
\* the send lock with the thread that is inside sendall.
LEMMA ThreadsTypeStep ==
    ASSUME TypeOK, [Next]_vars
    PROVE  ThreadsTypeOK'
<1> USE HostTransportAssumption DEF TypeOK, ThreadsTypeOK, StreamsTypeOK,
   Threads, client_vars, local_vars, read_vars, net_vars, SenderLabels,
   ReaderLabels, SendAttempts
<1>1. ASSUME NEW t \in Senders, StartSend(t) PROVE ThreadsTypeOK'
    BY <1>1 DEF StartSend, Goto
<1>2. ASSUME NEW t \in Senders, StartKeepalive(t) PROVE ThreadsTypeOK'
    BY <1>2 DEF StartKeepalive, Goto, Hold
<1>3. ASSUME NEW t \in Senders, StartClose(t) PROVE ThreadsTypeOK'
    BY <1>3 DEF StartClose, Goto
<1>4. ASSUME NEW t \in Senders, Ensure(t) PROVE ThreadsTypeOK'
    BY <1>4 DEF Ensure, Goto, Hold
<1>5. ASSUME NEW t \in Senders, SenderConnects(t) PROVE ThreadsTypeOK'
    BY <1>5 DEF SenderConnects, Goto, Hold, Connected
<1>6. ASSUME NEW t \in Senders, SenderGivesUp(t) PROVE ThreadsTypeOK'
    BY <1>6 DEF SenderGivesUp, Return, Goto, Hold
<1>7. ASSUME NEW t \in Senders, SenderInstalls(t) PROVE ThreadsTypeOK'
  <2>1. /\ \/ _sock' = _sock /\ _ever_connected' = _ever_connected
           \/ _sock' = sock[t] /\ _ever_connected' = TRUE
        /\ \/ Goto(t, "lock") /\ (UNCHANGED sock \/ Hold(t, _sock)) /\ UNCHANGED <<op, attempt>>
           \/ Return(t)
        /\ pc[t] = "install" /\ UNCHANGED <<_closed, _send_lock>>
      BY <1>7 DEF SenderInstalls, Install
  <2>2. /\ _sock' \in Sockets \cup {None} /\ _ever_connected' \in BOOLEAN
        /\ _closed' \in BOOLEAN
      BY <2>1
  <2>3. CASE Return(t)
      BY <2>1, <2>2, <2>3 DEF Return, Goto, Hold
  <2>4. CASE Goto(t, "lock") /\ (UNCHANGED sock \/ Hold(t, _sock)) /\ UNCHANGED <<op, attempt>>
      BY <2>1, <2>2, <2>4 DEF Goto, Hold
  <2> QED  BY <2>1, <2>3, <2>4
<1>8. ASSUME NEW t \in Senders, TakeSendLock(t) PROVE ThreadsTypeOK'
    BY <1>8 DEF TakeSendLock, Goto
<1>9. ASSUME NEW t \in Senders, SendallReturns(t) PROVE ThreadsTypeOK'
    BY <1>9 DEF SendallReturns, Return, Goto, Hold
<1>10. ASSUME NEW t \in Senders, SendallRaises(t) PROVE ThreadsTypeOK'
    BY <1>10 DEF SendallRaises, Goto
<1>11. ASSUME NEW t \in Senders, SenderDrops(t) PROVE ThreadsTypeOK'
    BY <1>11 DEF SenderDrops, Goto, Forget
<1>12. ASSUME NEW t \in Senders, SenderClosesSock(t) PROVE ThreadsTypeOK'
  <2>1. /\ pc[t] = "close_sock" /\ UNCHANGED <<client_vars, _send_lock>>
        /\ \/ /\ Goto(t, "ensure") /\ Hold(t, None) /\ UNCHANGED op
              /\ attempt[t] < SendAttempts /\ attempt' = [attempt EXCEPT ![t] = @ + 1]
           \/ Return(t)
      BY <1>12 DEF SenderClosesSock
  <2>2. CASE Return(t)
      BY <2>1, <2>2 DEF Return, Goto, Hold
  <2>3. CASE /\ Goto(t, "ensure") /\ Hold(t, None) /\ UNCHANGED op
             /\ attempt[t] < SendAttempts /\ attempt' = [attempt EXCEPT ![t] = @ + 1]
    <3> DEFINE n == attempt[t]
    <3>a. n \in 0..SendAttempts
        OBVIOUS
    <3>b. n < SendAttempts
        BY <2>3
    <3> HIDE DEF n
    <3>1. n + 1 \in 0..SendAttempts
        BY <3>a, <3>b
    <3>2. attempt' \in [Threads -> 0..SendAttempts]
        BY <2>3, <3>1 DEF n
    <3> QED  BY <2>1, <2>3, <3>2 DEF Goto, Hold
  <2> QED  BY <2>1, <2>2, <2>3
<1>13. ASSUME NEW t \in Senders, CloseGets(t) PROVE ThreadsTypeOK'
    BY <1>13 DEF CloseGets, Goto, Hold
<1>14. ASSUME NEW t \in Senders, CloseClears(t) PROVE ThreadsTypeOK'
    BY <1>14 DEF CloseClears, Goto
<1>15. ASSUME NEW t \in Senders, CloseCloses(t) PROVE ThreadsTypeOK'
    BY <1>15 DEF CloseCloses, Goto, Hold
<1>16. CASE ReaderChecksClosed
    BY <1>16 DEF ReaderChecksClosed, Goto, ReaderGoto
<1>17. CASE ReaderFindsNone
    BY <1>17 DEF ReaderFindsNone, Goto, ReaderGoto, Detach
<1>18. CASE ReaderFindsSocket
    BY <1>18 DEF ReaderFindsSocket, Goto, ReaderGoto, Hold, Attach
<1>19. CASE ProbeConnects
    BY <1>19 DEF ProbeConnects, Goto, ReaderGoto, Hold, Connected
<1>20. CASE ProbeFails
    BY <1>20 DEF ProbeFails, Goto, ReaderGoto
<1>21. CASE ProbeInstalls
    BY <1>21 DEF ProbeInstalls, Goto, ReaderGoto, Hold
<1>22. CASE RecvData
    BY <1>22 DEF RecvData, Goto, ReaderGoto, Hold
<1>23. CASE RecvTimesOut
    BY <1>23 DEF RecvTimesOut, Goto, ReaderGoto, Hold
<1>24. CASE RecvEnds
    BY <1>24 DEF RecvEnds, Goto, ReaderGoto
<1>25. CASE ReaderDrops
    BY <1>25 DEF ReaderDrops, Goto, ReaderGoto, Forget
<1>26. CASE ReaderCloses
    BY <1>26 DEF ReaderCloses, Goto, ReaderGoto, Hold, Detach
<1>27. CASE DeviceDrops
    BY <1>27 DEF DeviceDrops
<1>28. ASSUME NEW g \in Touches, DeviceSends(g) PROVE ThreadsTypeOK'
    BY <1>28 DEF DeviceSends
<1>29. CASE UNCHANGED vars
    BY <1>29 DEF vars
<1> QED
    BY <1>1, <1>2, <1>3, <1>4, <1>5, <1>6, <1>7, <1>8, <1>9, <1>10, <1>11,
       <1>12, <1>13, <1>14, <1>15, <1>16, <1>17, <1>18, <1>19, <1>20, <1>21,
       <1>22, <1>23, <1>24, <1>25, <1>26, <1>27, <1>28, <1>29
    DEF Next, SenderStep, ReaderStep

\* What the device writes are pieces.
LEMMA PieceTyping ==
    ASSUME NEW g \in Touches
    PROVE  [piece |-> "head", of |-> g] \in Pieces /\ [piece |-> "tail", of |-> g] \in Pieces
BY DEF Pieces

\* Every action keeps the types of sockets, streams and the reader's buffer.
LEMMA StreamsTypeStep ==
    ASSUME TypeOK, [Next]_vars
    PROVE  StreamsTypeOK'
<1> USE HostTransportAssumption DEF TypeOK, ThreadsTypeOK, StreamsTypeOK,
   Threads, client_vars, local_vars, read_vars, net_vars
<1>1. ASSUME NEW t \in Senders, StartSend(t) PROVE StreamsTypeOK'
    BY <1>1 DEF StartSend, Goto
<1>2. ASSUME NEW t \in Senders, StartKeepalive(t) PROVE StreamsTypeOK'
    BY <1>2 DEF StartKeepalive, Goto, Hold
<1>3. ASSUME NEW t \in Senders, StartClose(t) PROVE StreamsTypeOK'
    BY <1>3 DEF StartClose, Goto
<1>4. ASSUME NEW t \in Senders, Ensure(t) PROVE StreamsTypeOK'
    BY <1>4 DEF Ensure, Goto, Hold
<1>5. ASSUME NEW t \in Senders, SenderConnects(t) PROVE StreamsTypeOK'
    BY <1>5 DEF SenderConnects, Goto, Hold, Connected
<1>6. ASSUME NEW t \in Senders, SenderGivesUp(t) PROVE StreamsTypeOK'
    BY <1>6 DEF SenderGivesUp, Return, Goto, Hold
<1>7. ASSUME NEW t \in Senders, SenderInstalls(t) PROVE StreamsTypeOK'
    BY <1>7 DEF SenderInstalls, Install, Return, Goto, Hold
<1>8. ASSUME NEW t \in Senders, TakeSendLock(t) PROVE StreamsTypeOK'
    BY <1>8 DEF TakeSendLock, Goto
<1>9. ASSUME NEW t \in Senders, SendallReturns(t) PROVE StreamsTypeOK'
    BY <1>9 DEF SendallReturns, Return, Goto, Hold
<1>10. ASSUME NEW t \in Senders, SendallRaises(t) PROVE StreamsTypeOK'
  <2>1. sent' \in [Sockets -> {"whole", "cut"}]
      BY <1>10 DEF SendallRaises
  <2>2. garbled' \in BOOLEAN
      BY <1>10 DEF SendallRaises
  <2> QED  BY <1>10, <2>1, <2>2 DEF SendallRaises
<1>11. ASSUME NEW t \in Senders, SenderDrops(t) PROVE StreamsTypeOK'
    BY <1>11 DEF SenderDrops, Goto, Forget
<1>12. ASSUME NEW t \in Senders, SenderClosesSock(t) PROVE StreamsTypeOK'
    BY <1>12 DEF SenderClosesSock, Return, Goto, Hold
<1>13. ASSUME NEW t \in Senders, CloseGets(t) PROVE StreamsTypeOK'
    BY <1>13 DEF CloseGets, Goto, Hold
<1>14. ASSUME NEW t \in Senders, CloseClears(t) PROVE StreamsTypeOK'
    BY <1>14 DEF CloseClears, Goto
<1>15. ASSUME NEW t \in Senders, CloseCloses(t) PROVE StreamsTypeOK'
    BY <1>15 DEF CloseCloses, Goto, Hold
<1>16. CASE ReaderChecksClosed
    BY <1>16 DEF ReaderChecksClosed, Goto, ReaderGoto
<1>17. CASE ReaderFindsNone
    BY <1>17 DEF ReaderFindsNone, Goto, ReaderGoto, Detach
<1>18. CASE ReaderFindsSocket
  <2>1. <<>> \in Seq(Pieces)
      OBVIOUS
  <2> QED  BY <1>18, <2>1 DEF ReaderFindsSocket, Attach
<1>19. CASE ProbeConnects
    BY <1>19 DEF ProbeConnects, Goto, ReaderGoto, Hold, Connected
<1>20. CASE ProbeFails
    BY <1>20 DEF ProbeFails, Goto, ReaderGoto
<1>21. CASE ProbeInstalls
    BY <1>21 DEF ProbeInstalls, Goto, ReaderGoto, Hold
<1>22. CASE RecvData
  <2> DEFINE s == sock[Reader]
             data == Head(arriving[s])
  <2>1. s \in Sockets /\ arriving[s] \in Seq(Pieces) /\ arriving[s] # <<>>
      BY <1>22 DEF RecvData
  <2>2. data \in Pieces /\ Tail(arriving[s]) \in Seq(Pieces)
      BY <2>1
  <2>3. Append(buffer, data) \in Seq(Pieces) /\ <<>> \in Seq(Pieces)
      BY <2>2
  <2>4. arriving' \in [Sockets -> Seq(Pieces)]
      BY <1>22, <2>1, <2>2 DEF RecvData
  <2>5. buffer' \in Seq(Pieces) /\ last_line' \in Seq(Pieces)
      BY <1>22, <2>3 DEF RecvData
  <2> QED  BY <1>22, <2>4, <2>5 DEF RecvData
<1>23. CASE RecvTimesOut
    BY <1>23 DEF RecvTimesOut, Goto, ReaderGoto, Hold
<1>24. CASE RecvEnds
    BY <1>24 DEF RecvEnds, Goto, ReaderGoto
<1>25. CASE ReaderDrops
    BY <1>25 DEF ReaderDrops, Goto, ReaderGoto, Forget
<1>26. CASE ReaderCloses
    BY <1>26 DEF ReaderCloses, Goto, ReaderGoto, Hold, Detach
<1>27. CASE DeviceDrops
    BY <1>27 DEF DeviceDrops
<1>28. ASSUME NEW g \in Touches, DeviceSends(g) PROVE StreamsTypeOK'
  <2>1. \A x \in Pieces : \A s \in Sockets :
            [arriving EXCEPT ![s] = Append(@, x)] \in [Sockets -> Seq(Pieces)]
      OBVIOUS
  <2>2. device \in Sockets
      BY <1>28 DEF DeviceSends
  <2>3. mid_line' \subseteq Touches
      BY <1>28 DEF DeviceSends
  <2>4. \E x \in Pieces : arriving' = [arriving EXCEPT ![device] = Append(@, x)]
      BY <1>28, PieceTyping DEF DeviceSends
  <2>5. arriving' \in [Sockets -> Seq(Pieces)]
      BY <2>1, <2>2, <2>4
  <2> QED  BY <1>28, <2>3, <2>5 DEF DeviceSends
<1>29. CASE UNCHANGED vars
    BY <1>29 DEF vars
<1> QED
    BY <1>1, <1>2, <1>3, <1>4, <1>5, <1>6, <1>7, <1>8, <1>9, <1>10, <1>11,
       <1>12, <1>13, <1>14, <1>15, <1>16, <1>17, <1>18, <1>19, <1>20, <1>21,
       <1>22, <1>23, <1>24, <1>25, <1>26, <1>27, <1>28, <1>29
    DEF Next, SenderStep, ReaderStep

\* What a thread does with a socket it need not close leaks nothing.
LEMMA NonOwnerLeaksNothing ==
    ASSUME NoLeakedSocket, NEW t \in Threads, pc[t] \notin Owning,
           \A u \in Threads \ {t} : pc'[u] = pc[u] /\ sock'[u] = sock[u],
           open' \subseteq open, _sock' = _sock
    PROVE  NoLeakedSocket'
BY DEF NoLeakedSocket

\* A thread that is not establishing a connection does not come by the socket
\* of one that is.
LEMMA OthersStayPrivate ==
    ASSUME TypeOK, FreshIsPrivate, NEW t \in Threads,
           \A u \in Threads \ {t} : pc'[u] = pc[u] /\ sock'[u] = sock[u],
           pc'[t] \notin {"install", "probe_install"},
           sock'[t] \in {None, sock[t], _sock}, _sock' \in {None, sock[t], _sock},
           open \ {sock[t]} \subseteq open'
    PROVE  FreshIsPrivate'
<1> SUFFICES ASSUME NEW x \in Threads, pc'[x] \in {"install", "probe_install"}
             PROVE  /\ sock'[x] \in open' /\ sock'[x] # _sock'
                    /\ \A u \in Threads \ {x} : sock'[u] # sock'[x]
    BY DEF FreshIsPrivate
<1>1. x # t /\ pc[x] \in {"install", "probe_install"} /\ sock'[x] = sock[x]
    OBVIOUS
<1>2. /\ sock[x] \in open /\ sock[x] # _sock
      /\ \A u \in Threads \ {x} : sock[u] # sock[x]
    BY <1>1 DEF FreshIsPrivate
<1>3. sock[x] # None
    BY <1>2, HostTransportAssumption DEF TypeOK, StreamsTypeOK
<1> QED  BY <1>1, <1>2, <1>3

\* Every action keeps each socket in known hands.
LEMMA SocketStep ==
    ASSUME TypeOK, TypeOK', SocketInv, [Next]_vars
    PROVE  SocketInv'
<1> USE HostTransportAssumption DEF TypeOK, ThreadsTypeOK, StreamsTypeOK,
   Threads, SocketInv, client_vars, local_vars, read_vars, net_vars
<1>1. ASSUME NEW t \in Senders, StartSend(t) PROVE SocketInv'
  <2>1. HasSocket'
      BY <1>1 DEF StartSend, Goto, HasSocket
  <2>2. FreshIsPrivate'
      BY <1>1 DEF StartSend, Goto, FreshIsPrivate
  <2>3. ForgottenBeforeClosed'
      BY <1>1 DEF StartSend, Goto, ForgottenBeforeClosed, FreshIsPrivate
  <2>4. CloseFoundTheSocket'
      BY <1>1 DEF StartSend, Goto, CloseFoundTheSocket, ForgottenBeforeClosed
  <2>5. SharedSocketIsOpen'
      BY <1>1 DEF StartSend, Goto, SharedSocketIsOpen, FreshIsPrivate,
         ForgottenBeforeClosed, HasSocket
  <2>6. NoLeakedSocket'
      BY <1>1 DEF StartSend, Goto, NoLeakedSocket, Owning, CloseFoundTheSocket
  <2> QED  BY <2>1, <2>2, <2>3, <2>4, <2>5, <2>6
<1>2. ASSUME NEW t \in Senders, StartKeepalive(t) PROVE SocketInv'
  <2>1. HasSocket'
      BY <1>2 DEF StartKeepalive, Goto, Hold, HasSocket
  <2>2. FreshIsPrivate'
      BY <1>2 DEF StartKeepalive, Goto, Hold, FreshIsPrivate
  <2>3. ForgottenBeforeClosed'
      BY <1>2 DEF StartKeepalive, Goto, Hold, ForgottenBeforeClosed,
         FreshIsPrivate
  <2>4. CloseFoundTheSocket'
      BY <1>2 DEF StartKeepalive, Goto, Hold, CloseFoundTheSocket,
         ForgottenBeforeClosed
  <2>5. SharedSocketIsOpen'
      BY <1>2 DEF StartKeepalive, Goto, Hold, SharedSocketIsOpen,
         FreshIsPrivate, ForgottenBeforeClosed, HasSocket
  <2>6. NoLeakedSocket'
      BY <1>2 DEF StartKeepalive, Goto, Hold, NoLeakedSocket, Owning,
         CloseFoundTheSocket
  <2> QED  BY <2>1, <2>2, <2>3, <2>4, <2>5, <2>6
<1>3. ASSUME NEW t \in Senders, StartClose(t) PROVE SocketInv'
  <2>1. HasSocket'
      BY <1>3 DEF StartClose, Goto, HasSocket
  <2>2. FreshIsPrivate'
      BY <1>3 DEF StartClose, Goto, FreshIsPrivate
  <2>3. ForgottenBeforeClosed'
      BY <1>3 DEF StartClose, Goto, ForgottenBeforeClosed, FreshIsPrivate
  <2>4. CloseFoundTheSocket'
      BY <1>3 DEF StartClose, Goto, CloseFoundTheSocket, ForgottenBeforeClosed
  <2>5. SharedSocketIsOpen'
      BY <1>3 DEF StartClose, Goto, SharedSocketIsOpen, FreshIsPrivate,
         ForgottenBeforeClosed, HasSocket
  <2>6. NoLeakedSocket'
      BY <1>3 DEF StartClose, Goto, NoLeakedSocket, Owning,
         CloseFoundTheSocket
  <2> QED  BY <2>1, <2>2, <2>3, <2>4, <2>5, <2>6
<1>4. ASSUME NEW t \in Senders, Ensure(t) PROVE SocketInv'
  <2>1. HasSocket'
      BY <1>4 DEF Ensure, Goto, Hold, HasSocket
  <2>2. FreshIsPrivate'
      BY <1>4 DEF Ensure, Goto, Hold, FreshIsPrivate
  <2>3. ForgottenBeforeClosed'
      BY <1>4 DEF Ensure, Goto, Hold, ForgottenBeforeClosed, FreshIsPrivate
  <2>4. CloseFoundTheSocket'
      BY <1>4 DEF Ensure, Goto, Hold, CloseFoundTheSocket,
         ForgottenBeforeClosed
  <2>5. SharedSocketIsOpen'
      BY <1>4 DEF Ensure, Goto, Hold, SharedSocketIsOpen, FreshIsPrivate,
         ForgottenBeforeClosed, HasSocket
  <2>6. NoLeakedSocket'
      BY <1>4 DEF Ensure, Goto, Hold, NoLeakedSocket, Owning,
         CloseFoundTheSocket
  <2> QED  BY <2>1, <2>2, <2>3, <2>4, <2>5, <2>6
<1>5. ASSUME NEW t \in Senders, SenderConnects(t) PROVE SocketInv'
  <2> PICK s \in Sockets : Connected(t, s)
      BY <1>5 DEF SenderConnects
  <2>0. /\ pc' = [pc EXCEPT ![t] = "install"] /\ sock' = [sock EXCEPT ![t] = s]
        /\ open' = open \cup {s} /\ UNCHANGED client_vars
        /\ s \notin open \cup {_sock} /\ \A u \in Threads : sock[u] # s
      BY <1>5 DEF SenderConnects, Connected, Unreferenced, Goto, ReaderGoto, Hold
  <2>1. HasSocket'
      BY <2>0 DEF HasSocket
  <2>2. FreshIsPrivate'
      BY <2>0 DEF FreshIsPrivate
  <2>3. ForgottenBeforeClosed'
      BY <2>0 DEF ForgottenBeforeClosed
  <2>4. CloseFoundTheSocket'
      BY <2>0 DEF CloseFoundTheSocket
  <2>5. SharedSocketIsOpen'
      BY <2>0 DEF SharedSocketIsOpen
  <2>6. NoLeakedSocket'
    <3>1. ASSUME NEW x \in open
          PROVE  x = _sock' \/ \E u \in Threads : sock'[u] = x /\ pc'[u] \in Owning
      <4>1. CASE x = _sock
          BY <2>0, <4>1
      <4>2. CASE \E u \in Threads : sock[u] = x /\ pc[u] \in Owning
        <5>1. PICK u \in Threads : sock[u] = x /\ pc[u] \in Owning
            BY <4>2
        <5>2. u # t
            BY <1>5, <5>1 DEF SenderConnects, Owning
        <5> QED  BY <2>0, <5>1, <5>2
      <4> QED  BY <4>1, <4>2 DEF NoLeakedSocket
    <3>2. sock'[t] = s /\ pc'[t] \in Owning
        BY <2>0 DEF Owning
    <3> QED  BY <2>0, <3>1, <3>2 DEF NoLeakedSocket
  <2> QED  BY <2>1, <2>2, <2>3, <2>4, <2>5, <2>6
<1>6. ASSUME NEW t \in Senders, SenderGivesUp(t) PROVE SocketInv'
  <2>1. HasSocket'
      BY <1>6 DEF SenderGivesUp, Return, Goto, Hold, HasSocket
  <2>2. FreshIsPrivate'
      BY <1>6 DEF SenderGivesUp, Return, Goto, Hold, FreshIsPrivate
  <2>3. ForgottenBeforeClosed'
      BY <1>6 DEF SenderGivesUp, Return, Goto, Hold, ForgottenBeforeClosed,
         FreshIsPrivate
  <2>4. CloseFoundTheSocket'
      BY <1>6 DEF SenderGivesUp, Return, Goto, Hold, CloseFoundTheSocket,
         ForgottenBeforeClosed
  <2>5. SharedSocketIsOpen'
      BY <1>6 DEF SenderGivesUp, Return, Goto, Hold, SharedSocketIsOpen,
         FreshIsPrivate, ForgottenBeforeClosed, HasSocket
  <2>6. NoLeakedSocket'
      BY <1>6 DEF SenderGivesUp, Return, Goto, Hold, NoLeakedSocket, Owning,
         CloseFoundTheSocket
  <2> QED  BY <2>1, <2>2, <2>3, <2>4, <2>5, <2>6
<1>7. ASSUME NEW t \in Senders, SenderInstalls(t) PROVE SocketInv'
  <2>0. /\ pc[t] = "install" /\ UNCHANGED _closed
        /\ \A u \in Threads \ {t} : pc'[u] = pc[u] /\ sock'[u] = sock[u]
        /\ \/ /\ pc'[t] = "idle" /\ sock'[t] = None
              /\ open' = open \ {sock[t]} /\ UNCHANGED _sock
           \/ /\ pc'[t] = "lock" /\ sock'[t] = _sock /\ _sock # None
              /\ open' = open \ {sock[t]} /\ UNCHANGED _sock
           \/ /\ pc'[t] = "lock" /\ sock'[t] = sock[t] /\ ~_closed /\ _sock = None
              /\ UNCHANGED open /\ _sock' = sock[t]
      BY <1>7 DEF SenderInstalls, Install, Return, Goto, Hold
  <2>a. sock[t] \in open /\ sock[t] # _sock /\ \A u \in Threads \ {t} : sock[u] # sock[t]
      BY <2>0 DEF FreshIsPrivate
  <2>b. pc'[t] \notin Owning \cup {"close_get", "close_clear"} /\ t # Reader
      BY <2>0 DEF Owning
  <2>1. HasSocket'
    <3>1. pc'[t] = "lock" => sock'[t] \in Sockets
        BY <2>0, <2>a
    <3>2. \A u \in Threads \ {t} : pc'[u] = pc[u] /\ sock'[u] = sock[u]
        BY <2>0
    <3> QED  BY <2>0, <2>b, <3>1, <3>2 DEF HasSocket
  <2>2. FreshIsPrivate'
      BY <2>0, <2>a, OthersStayPrivate
  <2>3. ForgottenBeforeClosed'
    <3> SUFFICES ASSUME NEW x \in Threads,
                        pc'[x] \in {"close_sock", "read_close", "close_close"}
                 PROVE  sock'[x] # _sock' \/ sock'[x] = None
        BY DEF ForgottenBeforeClosed
    <3>1. x # t
        BY <2>0
    <3>2. pc[x] = pc'[x] /\ sock'[x] = sock[x] /\ sock[x] # sock[t]
        BY <2>0, <2>a, <3>1
    <3> QED  BY <2>0, <3>2 DEF ForgottenBeforeClosed
  <2>4. CloseFoundTheSocket'
      BY <1>7 DEF SenderInstalls, Install, Return, Goto, Hold, CloseFoundTheSocket
  <2>5. SharedSocketIsOpen'
      BY <2>0, <2>a DEF SharedSocketIsOpen
  <2>6. NoLeakedSocket'
    <3> SUFFICES ASSUME NEW x \in open', x # _sock'
                 PROVE  \E u \in Threads : sock'[u] = x /\ pc'[u] \in Owning
        BY DEF NoLeakedSocket
    <3>1. x \in open /\ x # _sock /\ x # sock[t]
        BY <2>0
    <3>2. PICK u \in Threads : sock[u] = x /\ pc[u] \in Owning
        BY <3>1 DEF NoLeakedSocket
    <3> QED  BY <2>0, <3>1, <3>2
  <2> QED  BY <2>1, <2>2, <2>3, <2>4, <2>5, <2>6
<1>8. ASSUME NEW t \in Senders, TakeSendLock(t) PROVE SocketInv'
  <2>1. HasSocket'
      BY <1>8 DEF TakeSendLock, Goto, HasSocket
  <2>2. FreshIsPrivate'
      BY <1>8 DEF TakeSendLock, Goto, FreshIsPrivate
  <2>3. ForgottenBeforeClosed'
      BY <1>8 DEF TakeSendLock, Goto, ForgottenBeforeClosed, FreshIsPrivate
  <2>4. CloseFoundTheSocket'
      BY <1>8 DEF TakeSendLock, Goto, CloseFoundTheSocket,
         ForgottenBeforeClosed
  <2>5. SharedSocketIsOpen'
      BY <1>8 DEF TakeSendLock, Goto, SharedSocketIsOpen, FreshIsPrivate,
         ForgottenBeforeClosed, HasSocket
  <2>6. NoLeakedSocket'
      BY <1>8 DEF TakeSendLock, Goto, NoLeakedSocket, Owning,
         CloseFoundTheSocket
  <2> QED  BY <2>1, <2>2, <2>3, <2>4, <2>5, <2>6
<1>9. ASSUME NEW t \in Senders, SendallReturns(t) PROVE SocketInv'
  <2>1. HasSocket'
      BY <1>9 DEF SendallReturns, Return, Goto, Hold, HasSocket
  <2>2. FreshIsPrivate'
      BY <1>9 DEF SendallReturns, Return, Goto, Hold, FreshIsPrivate
  <2>3. ForgottenBeforeClosed'
      BY <1>9 DEF SendallReturns, Return, Goto, Hold, ForgottenBeforeClosed,
         FreshIsPrivate
  <2>4. CloseFoundTheSocket'
      BY <1>9 DEF SendallReturns, Return, Goto, Hold, CloseFoundTheSocket,
         ForgottenBeforeClosed
  <2>5. SharedSocketIsOpen'
      BY <1>9 DEF SendallReturns, Return, Goto, Hold, SharedSocketIsOpen,
         FreshIsPrivate, ForgottenBeforeClosed, HasSocket
  <2>6. NoLeakedSocket'
      BY <1>9 DEF SendallReturns, Return, Goto, Hold, NoLeakedSocket, Owning,
         CloseFoundTheSocket
  <2> QED  BY <2>1, <2>2, <2>3, <2>4, <2>5, <2>6
<1>10. ASSUME NEW t \in Senders, SendallRaises(t) PROVE SocketInv'
  <2>1. HasSocket'
      BY <1>10 DEF SendallRaises, Goto, HasSocket
  <2>2. FreshIsPrivate'
      BY <1>10 DEF SendallRaises, Goto, FreshIsPrivate
  <2>3. ForgottenBeforeClosed'
      BY <1>10 DEF SendallRaises, Goto, ForgottenBeforeClosed, FreshIsPrivate
  <2>4. CloseFoundTheSocket'
      BY <1>10 DEF SendallRaises, Goto, CloseFoundTheSocket,
         ForgottenBeforeClosed
  <2>5. SharedSocketIsOpen'
      BY <1>10 DEF SendallRaises, Goto, SharedSocketIsOpen, FreshIsPrivate,
         ForgottenBeforeClosed, HasSocket
  <2>6. NoLeakedSocket'
      BY <1>10 DEF SendallRaises, Goto, NoLeakedSocket, Owning,
         CloseFoundTheSocket
  <2> QED  BY <2>1, <2>2, <2>3, <2>4, <2>5, <2>6
<1>11. ASSUME NEW t \in Senders, SenderDrops(t) PROVE SocketInv'
  <2>1. HasSocket'
      BY <1>11 DEF SenderDrops, Goto, Forget, HasSocket
  <2>2. FreshIsPrivate'
      BY <1>11 DEF SenderDrops, Goto, Forget, FreshIsPrivate
  <2>3. ForgottenBeforeClosed'
      BY <1>11 DEF SenderDrops, Goto, Forget, ForgottenBeforeClosed,
         FreshIsPrivate
  <2>4. CloseFoundTheSocket'
      BY <1>11 DEF SenderDrops, Goto, Forget, CloseFoundTheSocket,
         ForgottenBeforeClosed
  <2>5. SharedSocketIsOpen'
      BY <1>11 DEF SenderDrops, Goto, Forget, SharedSocketIsOpen,
         FreshIsPrivate, ForgottenBeforeClosed, HasSocket
  <2>6. NoLeakedSocket'
      BY <1>11 DEF SenderDrops, Goto, Forget, NoLeakedSocket, Owning,
         CloseFoundTheSocket
  <2> QED  BY <2>1, <2>2, <2>3, <2>4, <2>5, <2>6
<1>12. ASSUME NEW t \in Senders, SenderClosesSock(t) PROVE SocketInv'
  <2>0. /\ pc[t] = "close_sock" /\ UNCHANGED client_vars
        /\ \A u \in Threads \ {t} : pc'[u] = pc[u] /\ sock'[u] = sock[u]
        /\ pc'[t] \in {"idle", "ensure"} /\ sock'[t] = None
        /\ open' = open \ {sock[t]}
      BY <1>12 DEF SenderClosesSock, Return, Goto, Hold
  <2>a. sock[t] # _sock /\ sock[t] # None
      BY <2>0 DEF ForgottenBeforeClosed, HasSocket
  <2>1. HasSocket'
      BY <2>0 DEF HasSocket
  <2>2. FreshIsPrivate'
      BY <2>0, OthersStayPrivate
  <2>3. ForgottenBeforeClosed'
    <3> SUFFICES ASSUME NEW x \in Threads,
                        pc'[x] \in {"close_sock", "read_close", "close_close"}
                 PROVE  sock'[x] # _sock' \/ sock'[x] = None
        BY DEF ForgottenBeforeClosed
    <3>1. x # t
        BY <2>0
    <3>2. pc[x] = pc'[x] /\ sock'[x] = sock[x] /\ _sock' = _sock
        BY <2>0, <3>1
    <3> QED  BY <3>2 DEF ForgottenBeforeClosed
  <2>4. CloseFoundTheSocket'
      BY <1>12 DEF SenderClosesSock, Return, Goto, Hold, CloseFoundTheSocket
  <2>5. SharedSocketIsOpen'
      BY <2>0, <2>a DEF SharedSocketIsOpen
  <2>6. NoLeakedSocket'
    <3> SUFFICES ASSUME NEW x \in open', x # _sock'
                 PROVE  \E u \in Threads : sock'[u] = x /\ pc'[u] \in Owning
        BY DEF NoLeakedSocket
    <3>1. x \in open /\ x # _sock /\ x # sock[t]
        BY <2>0
    <3>2. PICK u \in Threads : sock[u] = x /\ pc[u] \in Owning
        BY <3>1 DEF NoLeakedSocket
    <3> QED  BY <2>0, <3>1, <3>2
  <2> QED  BY <2>1, <2>2, <2>3, <2>4, <2>5, <2>6
<1>13. ASSUME NEW t \in Senders, CloseGets(t) PROVE SocketInv'
  <2>1. HasSocket'
      BY <1>13 DEF CloseGets, Goto, Hold, HasSocket
  <2>2. FreshIsPrivate'
      BY <1>13 DEF CloseGets, Goto, Hold, FreshIsPrivate
  <2>3. ForgottenBeforeClosed'
      BY <1>13 DEF CloseGets, Goto, Hold, ForgottenBeforeClosed,
         FreshIsPrivate
  <2>4. CloseFoundTheSocket'
      BY <1>13 DEF CloseGets, Goto, Hold, CloseFoundTheSocket,
         ForgottenBeforeClosed
  <2>5. SharedSocketIsOpen'
      BY <1>13 DEF CloseGets, Goto, Hold, SharedSocketIsOpen, FreshIsPrivate,
         ForgottenBeforeClosed, HasSocket
  <2>6. NoLeakedSocket'
      BY <1>13 DEF CloseGets, Goto, Hold, NoLeakedSocket, Owning,
         CloseFoundTheSocket
  <2> QED  BY <2>1, <2>2, <2>3, <2>4, <2>5, <2>6
<1>14. ASSUME NEW t \in Senders, CloseClears(t) PROVE SocketInv'
  <2>1. HasSocket'
      BY <1>14 DEF CloseClears, Goto, HasSocket
  <2>2. FreshIsPrivate'
      BY <1>14 DEF CloseClears, Goto, FreshIsPrivate
  <2>3. ForgottenBeforeClosed'
      BY <1>14 DEF CloseClears, Goto, ForgottenBeforeClosed, FreshIsPrivate
  <2>4. CloseFoundTheSocket'
      BY <1>14 DEF CloseClears, Goto, CloseFoundTheSocket,
         ForgottenBeforeClosed
  <2>5. SharedSocketIsOpen'
      BY <1>14 DEF CloseClears, Goto, SharedSocketIsOpen, FreshIsPrivate,
         ForgottenBeforeClosed, HasSocket
  <2>6. NoLeakedSocket'
      BY <1>14 DEF CloseClears, Goto, NoLeakedSocket, Owning,
         CloseFoundTheSocket
  <2> QED  BY <2>1, <2>2, <2>3, <2>4, <2>5, <2>6
<1>15. ASSUME NEW t \in Senders, CloseCloses(t) PROVE SocketInv'
  <2>1. HasSocket'
      BY <1>15 DEF CloseCloses, Goto, Hold, HasSocket
  <2>2. FreshIsPrivate'
      BY <1>15 DEF CloseCloses, Goto, Hold, FreshIsPrivate
  <2>3. ForgottenBeforeClosed'
      BY <1>15 DEF CloseCloses, Goto, Hold, ForgottenBeforeClosed,
         FreshIsPrivate
  <2>4. CloseFoundTheSocket'
      BY <1>15 DEF CloseCloses, Goto, Hold, CloseFoundTheSocket,
         ForgottenBeforeClosed
  <2>5. SharedSocketIsOpen'
      BY <1>15 DEF CloseCloses, Goto, Hold, SharedSocketIsOpen,
         FreshIsPrivate, ForgottenBeforeClosed, HasSocket
  <2>6. NoLeakedSocket'
      BY <1>15 DEF CloseCloses, Goto, Hold, NoLeakedSocket, Owning,
         CloseFoundTheSocket
  <2> QED  BY <2>1, <2>2, <2>3, <2>4, <2>5, <2>6
<1>16. CASE ReaderChecksClosed
  <2>1. HasSocket'
      BY <1>16 DEF ReaderChecksClosed, Goto, ReaderGoto, HasSocket
  <2>2. FreshIsPrivate'
      BY <1>16 DEF ReaderChecksClosed, Goto, ReaderGoto, FreshIsPrivate
  <2>3. ForgottenBeforeClosed'
      BY <1>16 DEF ReaderChecksClosed, Goto, ReaderGoto, ForgottenBeforeClosed,
         FreshIsPrivate
  <2>4. CloseFoundTheSocket'
      BY <1>16 DEF ReaderChecksClosed, Goto, ReaderGoto, CloseFoundTheSocket,
         ForgottenBeforeClosed
  <2>5. SharedSocketIsOpen'
      BY <1>16 DEF ReaderChecksClosed, Goto, ReaderGoto, SharedSocketIsOpen,
         FreshIsPrivate, ForgottenBeforeClosed, HasSocket
  <2>6. /\ Reader \in Threads /\ pc[Reader] \notin Owning
        /\ \A u \in Threads \ {Reader} : pc'[u] = pc[u] /\ sock'[u] = sock[u]
        /\ UNCHANGED <<open, _sock>>
      BY <1>16 DEF ReaderChecksClosed, Goto, ReaderGoto, Owning
  <2>7. NoLeakedSocket'
      BY <2>6, NonOwnerLeaksNothing
  <2> QED  BY <2>1, <2>2, <2>3, <2>4, <2>5, <2>7
<1>17. CASE ReaderFindsNone
  <2>1. HasSocket'
      BY <1>17 DEF ReaderFindsNone, Goto, ReaderGoto, Detach, HasSocket
  <2>2. FreshIsPrivate'
      BY <1>17 DEF ReaderFindsNone, Goto, ReaderGoto, Detach, FreshIsPrivate
  <2>3. ForgottenBeforeClosed'
      BY <1>17 DEF ReaderFindsNone, Goto, ReaderGoto, Detach,
         ForgottenBeforeClosed, FreshIsPrivate
  <2>4. CloseFoundTheSocket'
      BY <1>17 DEF ReaderFindsNone, Goto, ReaderGoto, Detach,
         CloseFoundTheSocket, ForgottenBeforeClosed
  <2>5. SharedSocketIsOpen'
      BY <1>17 DEF ReaderFindsNone, Goto, ReaderGoto, Detach,
         SharedSocketIsOpen, FreshIsPrivate, ForgottenBeforeClosed, HasSocket
  <2>6. /\ Reader \in Threads /\ pc[Reader] \notin Owning
        /\ \A u \in Threads \ {Reader} : pc'[u] = pc[u] /\ sock'[u] = sock[u]
        /\ UNCHANGED <<open, _sock>>
      BY <1>17 DEF ReaderFindsNone, Goto, ReaderGoto, Detach, Owning
  <2>7. NoLeakedSocket'
      BY <2>6, NonOwnerLeaksNothing
  <2> QED  BY <2>1, <2>2, <2>3, <2>4, <2>5, <2>7
<1>18. CASE ReaderFindsSocket
  <2>1. HasSocket'
      BY <1>18 DEF ReaderFindsSocket, Goto, ReaderGoto, Hold, Attach, HasSocket
  <2>2. FreshIsPrivate'
      BY <1>18 DEF ReaderFindsSocket, Goto, ReaderGoto, Hold, Attach,
         FreshIsPrivate
  <2>3. ForgottenBeforeClosed'
      BY <1>18 DEF ReaderFindsSocket, Goto, ReaderGoto, Hold, Attach,
         ForgottenBeforeClosed, FreshIsPrivate
  <2>4. CloseFoundTheSocket'
      BY <1>18 DEF ReaderFindsSocket, Goto, ReaderGoto, Hold, Attach,
         CloseFoundTheSocket, ForgottenBeforeClosed
  <2>5. SharedSocketIsOpen'
      BY <1>18 DEF ReaderFindsSocket, Goto, ReaderGoto, Hold, Attach,
         SharedSocketIsOpen, FreshIsPrivate, ForgottenBeforeClosed, HasSocket
  <2>6. /\ Reader \in Threads /\ pc[Reader] \notin Owning
        /\ \A u \in Threads \ {Reader} : pc'[u] = pc[u] /\ sock'[u] = sock[u]
        /\ UNCHANGED <<open, _sock>>
      BY <1>18 DEF ReaderFindsSocket, Goto, ReaderGoto, Hold, Attach, Owning
  <2>7. NoLeakedSocket'
      BY <2>6, NonOwnerLeaksNothing
  <2> QED  BY <2>1, <2>2, <2>3, <2>4, <2>5, <2>7
<1>19. CASE ProbeConnects
  <2> PICK s \in Sockets : Connected(Reader, s)
      BY <1>19 DEF ProbeConnects
  <2>0. /\ pc' = [pc EXCEPT ![Reader] = "probe_install"] /\ sock' = [sock EXCEPT ![Reader] = s]
        /\ open' = open \cup {s} /\ UNCHANGED client_vars
        /\ s \notin open \cup {_sock} /\ \A u \in Threads : sock[u] # s
      BY <1>19 DEF ProbeConnects, Connected, Unreferenced, Goto, ReaderGoto, Hold
  <2>1. HasSocket'
      BY <2>0 DEF HasSocket
  <2>2. FreshIsPrivate'
      BY <2>0 DEF FreshIsPrivate
  <2>3. ForgottenBeforeClosed'
      BY <2>0 DEF ForgottenBeforeClosed
  <2>4. CloseFoundTheSocket'
      BY <2>0 DEF CloseFoundTheSocket
  <2>5. SharedSocketIsOpen'
      BY <2>0 DEF SharedSocketIsOpen
  <2>6. NoLeakedSocket'
    <3>1. ASSUME NEW x \in open
          PROVE  x = _sock' \/ \E u \in Threads : sock'[u] = x /\ pc'[u] \in Owning
      <4>1. CASE x = _sock
          BY <2>0, <4>1
      <4>2. CASE \E u \in Threads : sock[u] = x /\ pc[u] \in Owning
        <5>1. PICK u \in Threads : sock[u] = x /\ pc[u] \in Owning
            BY <4>2
        <5>2. u # Reader
            BY <1>19, <5>1 DEF ProbeConnects, Owning
        <5> QED  BY <2>0, <5>1, <5>2
      <4> QED  BY <4>1, <4>2 DEF NoLeakedSocket
    <3>2. sock'[Reader] = s /\ pc'[Reader] \in Owning
        BY <2>0 DEF Owning
    <3> QED  BY <2>0, <3>1, <3>2 DEF NoLeakedSocket
  <2> QED  BY <2>1, <2>2, <2>3, <2>4, <2>5, <2>6
<1>20. CASE ProbeFails
  <2>1. HasSocket'
      BY <1>20 DEF ProbeFails, Goto, ReaderGoto, HasSocket
  <2>2. FreshIsPrivate'
      BY <1>20 DEF ProbeFails, Goto, ReaderGoto, FreshIsPrivate
  <2>3. ForgottenBeforeClosed'
      BY <1>20 DEF ProbeFails, Goto, ReaderGoto, ForgottenBeforeClosed,
         FreshIsPrivate
  <2>4. CloseFoundTheSocket'
      BY <1>20 DEF ProbeFails, Goto, ReaderGoto, CloseFoundTheSocket,
         ForgottenBeforeClosed
  <2>5. SharedSocketIsOpen'
      BY <1>20 DEF ProbeFails, Goto, ReaderGoto, SharedSocketIsOpen,
         FreshIsPrivate, ForgottenBeforeClosed, HasSocket
  <2>6. /\ Reader \in Threads /\ pc[Reader] \notin Owning
        /\ \A u \in Threads \ {Reader} : pc'[u] = pc[u] /\ sock'[u] = sock[u]
        /\ UNCHANGED <<open, _sock>>
      BY <1>20 DEF ProbeFails, Goto, ReaderGoto, Owning
  <2>7. NoLeakedSocket'
      BY <2>6, NonOwnerLeaksNothing
  <2> QED  BY <2>1, <2>2, <2>3, <2>4, <2>5, <2>7
<1>21. CASE ProbeInstalls
  <2>0. /\ pc[Reader] = "probe_install" /\ UNCHANGED _closed
        /\ \A u \in Threads \ {Reader} : pc'[u] = pc[u] /\ sock'[u] = sock[u]
        /\ pc'[Reader] = "top" /\ sock'[Reader] = None
        /\ \/ open' = open \ {sock[Reader]} /\ UNCHANGED _sock
           \/ UNCHANGED open /\ _sock' = sock[Reader] /\ ~_closed
      BY <1>21 DEF ProbeInstalls, Goto, ReaderGoto, Hold
  <2>a. /\ Reader \in Threads /\ sock[Reader] \in open /\ sock[Reader] # _sock
        /\ \A u \in Threads \ {Reader} : sock[u] # sock[Reader]
      BY <2>0 DEF FreshIsPrivate
  <2>1. HasSocket'
      BY <2>0 DEF HasSocket
  <2>2. FreshIsPrivate'
      BY <2>0, <2>a, OthersStayPrivate
  <2>3. ForgottenBeforeClosed'
      BY <2>0, <2>a DEF ForgottenBeforeClosed
  <2>4. CloseFoundTheSocket'
      BY <2>0 DEF CloseFoundTheSocket
  <2>5. SharedSocketIsOpen'
      BY <2>0, <2>a DEF SharedSocketIsOpen
  <2>6. NoLeakedSocket'
    <3> SUFFICES ASSUME NEW x \in open', x # _sock'
                 PROVE  \E u \in Threads : sock'[u] = x /\ pc'[u] \in Owning
        BY DEF NoLeakedSocket
    <3>1. x \in open /\ x # sock[Reader]
        BY <2>0
    <3>2. x # _sock
        BY <1>21 DEF ProbeInstalls, SharedSocketIsOpen
    <3>3. PICK u \in Threads : sock[u] = x /\ pc[u] \in Owning
        BY <3>1, <3>2 DEF NoLeakedSocket
    <3> QED  BY <2>0, <3>1, <3>3
  <2> QED  BY <2>1, <2>2, <2>3, <2>4, <2>5, <2>6
<1>22. CASE RecvData
  <2>1. HasSocket'
      BY <1>22 DEF RecvData, Goto, ReaderGoto, Hold, HasSocket
  <2>2. FreshIsPrivate'
    <3>1. /\ Reader \in Threads /\ pc'[Reader] = "top" /\ sock'[Reader] = None
          /\ \A u \in Threads \ {Reader} : pc'[u] = pc[u] /\ sock'[u] = sock[u]
          /\ UNCHANGED <<open, _sock>>
        BY <1>22 DEF RecvData, Goto, ReaderGoto, Hold
    <3> QED  BY <3>1, OthersStayPrivate
  <2>3. ForgottenBeforeClosed'
      BY <1>22 DEF RecvData, Goto, ReaderGoto, Hold, ForgottenBeforeClosed,
         FreshIsPrivate
  <2>4. CloseFoundTheSocket'
      BY <1>22 DEF RecvData, Goto, ReaderGoto, Hold, CloseFoundTheSocket,
         ForgottenBeforeClosed
  <2>5. SharedSocketIsOpen'
      BY <1>22 DEF RecvData, Goto, ReaderGoto, Hold, SharedSocketIsOpen,
         FreshIsPrivate, ForgottenBeforeClosed, HasSocket
  <2>6. /\ Reader \in Threads /\ pc[Reader] \notin Owning
        /\ \A u \in Threads \ {Reader} : pc'[u] = pc[u] /\ sock'[u] = sock[u]
        /\ UNCHANGED <<open, _sock>>
      BY <1>22 DEF RecvData, Goto, ReaderGoto, Hold, Owning
  <2>7. NoLeakedSocket'
      BY <2>6, NonOwnerLeaksNothing
  <2> QED  BY <2>1, <2>2, <2>3, <2>4, <2>5, <2>7
<1>23. CASE RecvTimesOut
  <2>1. HasSocket'
      BY <1>23 DEF RecvTimesOut, Goto, ReaderGoto, Hold, HasSocket
  <2>2. FreshIsPrivate'
      BY <1>23 DEF RecvTimesOut, Goto, ReaderGoto, Hold, FreshIsPrivate
  <2>3. ForgottenBeforeClosed'
      BY <1>23 DEF RecvTimesOut, Goto, ReaderGoto, Hold, ForgottenBeforeClosed,
         FreshIsPrivate
  <2>4. CloseFoundTheSocket'
      BY <1>23 DEF RecvTimesOut, Goto, ReaderGoto, Hold, CloseFoundTheSocket,
         ForgottenBeforeClosed
  <2>5. SharedSocketIsOpen'
      BY <1>23 DEF RecvTimesOut, Goto, ReaderGoto, Hold, SharedSocketIsOpen,
         FreshIsPrivate, ForgottenBeforeClosed, HasSocket
  <2>6. /\ Reader \in Threads /\ pc[Reader] \notin Owning
        /\ \A u \in Threads \ {Reader} : pc'[u] = pc[u] /\ sock'[u] = sock[u]
        /\ UNCHANGED <<open, _sock>>
      BY <1>23 DEF RecvTimesOut, Goto, ReaderGoto, Hold, Owning
  <2>7. NoLeakedSocket'
      BY <2>6, NonOwnerLeaksNothing
  <2> QED  BY <2>1, <2>2, <2>3, <2>4, <2>5, <2>7
<1>24. CASE RecvEnds
  <2>1. HasSocket'
      BY <1>24 DEF RecvEnds, Goto, ReaderGoto, HasSocket
  <2>2. FreshIsPrivate'
      BY <1>24 DEF RecvEnds, Goto, ReaderGoto, FreshIsPrivate
  <2>3. ForgottenBeforeClosed'
      BY <1>24 DEF RecvEnds, Goto, ReaderGoto, ForgottenBeforeClosed,
         FreshIsPrivate
  <2>4. CloseFoundTheSocket'
      BY <1>24 DEF RecvEnds, Goto, ReaderGoto, CloseFoundTheSocket,
         ForgottenBeforeClosed
  <2>5. SharedSocketIsOpen'
      BY <1>24 DEF RecvEnds, Goto, ReaderGoto, SharedSocketIsOpen,
         FreshIsPrivate, ForgottenBeforeClosed, HasSocket
  <2>6. /\ Reader \in Threads /\ pc[Reader] \notin Owning
        /\ \A u \in Threads \ {Reader} : pc'[u] = pc[u] /\ sock'[u] = sock[u]
        /\ UNCHANGED <<open, _sock>>
      BY <1>24 DEF RecvEnds, Goto, ReaderGoto, Owning
  <2>7. NoLeakedSocket'
      BY <2>6, NonOwnerLeaksNothing
  <2> QED  BY <2>1, <2>2, <2>3, <2>4, <2>5, <2>7
<1>25. CASE ReaderDrops
  <2>1. HasSocket'
      BY <1>25 DEF ReaderDrops, Goto, ReaderGoto, Forget, HasSocket
  <2>2. FreshIsPrivate'
      BY <1>25 DEF ReaderDrops, Goto, ReaderGoto, Forget, FreshIsPrivate
  <2>3. ForgottenBeforeClosed'
      BY <1>25 DEF ReaderDrops, Goto, ReaderGoto, Forget,
         ForgottenBeforeClosed, FreshIsPrivate
  <2>4. CloseFoundTheSocket'
      BY <1>25 DEF ReaderDrops, Goto, ReaderGoto, Forget, CloseFoundTheSocket,
         ForgottenBeforeClosed
  <2>5. SharedSocketIsOpen'
      BY <1>25 DEF ReaderDrops, Goto, ReaderGoto, Forget, SharedSocketIsOpen,
         FreshIsPrivate, ForgottenBeforeClosed, HasSocket
  <2>6. NoLeakedSocket'
      BY <1>25 DEF ReaderDrops, Goto, ReaderGoto, Forget, NoLeakedSocket,
         Owning, CloseFoundTheSocket
  <2> QED  BY <2>1, <2>2, <2>3, <2>4, <2>5, <2>6
<1>26. CASE ReaderCloses
  <2>1. HasSocket'
      BY <1>26 DEF ReaderCloses, Goto, ReaderGoto, Hold, Detach, HasSocket
  <2>2. FreshIsPrivate'
      BY <1>26 DEF ReaderCloses, Goto, ReaderGoto, Hold, Detach,
         FreshIsPrivate
  <2>3. ForgottenBeforeClosed'
      BY <1>26 DEF ReaderCloses, Goto, ReaderGoto, Hold, Detach,
         ForgottenBeforeClosed, FreshIsPrivate
  <2>4. CloseFoundTheSocket'
      BY <1>26 DEF ReaderCloses, Goto, ReaderGoto, Hold, Detach,
         CloseFoundTheSocket, ForgottenBeforeClosed
  <2>5. SharedSocketIsOpen'
      BY <1>26 DEF ReaderCloses, Goto, ReaderGoto, Hold, Detach,
         SharedSocketIsOpen, FreshIsPrivate, ForgottenBeforeClosed, HasSocket
  <2>6. NoLeakedSocket'
      BY <1>26 DEF ReaderCloses, Goto, ReaderGoto, Hold, Detach,
         NoLeakedSocket, Owning, CloseFoundTheSocket
  <2> QED  BY <2>1, <2>2, <2>3, <2>4, <2>5, <2>6
<1>27. CASE DeviceDrops
  <2>1. HasSocket'
      BY <1>27 DEF DeviceDrops, HasSocket
  <2>2. FreshIsPrivate'
      BY <1>27 DEF DeviceDrops, FreshIsPrivate
  <2>3. ForgottenBeforeClosed'
      BY <1>27 DEF DeviceDrops, ForgottenBeforeClosed, FreshIsPrivate
  <2>4. CloseFoundTheSocket'
      BY <1>27 DEF DeviceDrops, CloseFoundTheSocket, ForgottenBeforeClosed
  <2>5. SharedSocketIsOpen'
      BY <1>27 DEF DeviceDrops, SharedSocketIsOpen, FreshIsPrivate,
         ForgottenBeforeClosed, HasSocket
  <2>6. NoLeakedSocket'
      BY <1>27 DEF DeviceDrops, NoLeakedSocket, Owning, CloseFoundTheSocket
  <2> QED  BY <2>1, <2>2, <2>3, <2>4, <2>5, <2>6
<1>28. ASSUME NEW g \in Touches, DeviceSends(g) PROVE SocketInv'
  <2>1. HasSocket'
      BY <1>28 DEF DeviceSends, HasSocket
  <2>2. FreshIsPrivate'
      BY <1>28 DEF DeviceSends, FreshIsPrivate
  <2>3. ForgottenBeforeClosed'
      BY <1>28 DEF DeviceSends, ForgottenBeforeClosed, FreshIsPrivate
  <2>4. CloseFoundTheSocket'
      BY <1>28 DEF DeviceSends, CloseFoundTheSocket, ForgottenBeforeClosed
  <2>5. SharedSocketIsOpen'
      BY <1>28 DEF DeviceSends, SharedSocketIsOpen, FreshIsPrivate,
         ForgottenBeforeClosed, HasSocket
  <2>6. NoLeakedSocket'
      BY <1>28 DEF DeviceSends, NoLeakedSocket, Owning, CloseFoundTheSocket
  <2> QED  BY <2>1, <2>2, <2>3, <2>4, <2>5, <2>6
<1>29. CASE UNCHANGED vars
  <2>1. HasSocket'
      BY <1>29 DEF vars, HasSocket
  <2>2. FreshIsPrivate'
      BY <1>29 DEF vars, FreshIsPrivate
  <2>3. ForgottenBeforeClosed'
      BY <1>29 DEF vars, ForgottenBeforeClosed, FreshIsPrivate
  <2>4. CloseFoundTheSocket'
      BY <1>29 DEF vars, CloseFoundTheSocket, ForgottenBeforeClosed
  <2>5. SharedSocketIsOpen'
      BY <1>29 DEF vars, SharedSocketIsOpen, FreshIsPrivate,
         ForgottenBeforeClosed, HasSocket
  <2>6. NoLeakedSocket'
      BY <1>29 DEF vars, NoLeakedSocket, Owning, CloseFoundTheSocket
  <2> QED  BY <2>1, <2>2, <2>3, <2>4, <2>5, <2>6
<1> QED
    BY <1>1, <1>2, <1>3, <1>4, <1>5, <1>6, <1>7, <1>8, <1>9, <1>10, <1>11,
       <1>12, <1>13, <1>14, <1>15, <1>16, <1>17, <1>18, <1>19, <1>20, <1>21,
       <1>22, <1>23, <1>24, <1>25, <1>26, <1>27, <1>28, <1>29
    DEF Next, SenderStep, ReaderStep

\* With a single sender an unfinished line is never written behind.
LEMMA CutStep ==
    ASSUME TypeOK, TypeOK', SocketInv, CutIsAbandoned, [Next]_vars
    PROVE  CutIsAbandoned'
<1> USE HostTransportAssumption DEF TypeOK, ThreadsTypeOK, StreamsTypeOK,
   Threads, client_vars, local_vars, read_vars, net_vars, SocketInv,
   HasSocket, FreshIsPrivate, CutIsAbandoned
<1>1. ASSUME NEW t \in Senders, StartSend(t) PROVE CutIsAbandoned'
    BY <1>1 DEF StartSend, Goto
<1>2. ASSUME NEW t \in Senders, StartKeepalive(t) PROVE CutIsAbandoned'
    BY <1>2 DEF StartKeepalive, Goto, Hold
<1>3. ASSUME NEW t \in Senders, StartClose(t) PROVE CutIsAbandoned'
    BY <1>3 DEF StartClose, Goto
<1>4. ASSUME NEW t \in Senders, Ensure(t) PROVE CutIsAbandoned'
    BY <1>4 DEF Ensure, Goto, Hold
<1>5. ASSUME NEW t \in Senders, SenderConnects(t) PROVE CutIsAbandoned'
    BY <1>5 DEF SenderConnects, Goto, Hold, Connected
<1>6. ASSUME NEW t \in Senders, SenderGivesUp(t) PROVE CutIsAbandoned'
    BY <1>6 DEF SenderGivesUp, Return, Goto, Hold
<1>7. ASSUME NEW t \in Senders, SenderInstalls(t) PROVE CutIsAbandoned'
    BY <1>7 DEF SenderInstalls, Install, Return, Goto, Hold
<1>8. ASSUME NEW t \in Senders, TakeSendLock(t) PROVE CutIsAbandoned'
    BY <1>8 DEF TakeSendLock, Goto
<1>9. ASSUME NEW t \in Senders, SendallReturns(t) PROVE CutIsAbandoned'
    BY <1>9 DEF SendallReturns, Return, Goto, Hold
<1>10. ASSUME NEW t \in Senders, SendallRaises(t) PROVE CutIsAbandoned'
    BY <1>10 DEF SendallRaises, Goto
<1>11. ASSUME NEW t \in Senders, SenderDrops(t) PROVE CutIsAbandoned'
    BY <1>11 DEF SenderDrops, Goto, Forget
<1>12. ASSUME NEW t \in Senders, SenderClosesSock(t) PROVE CutIsAbandoned'
    BY <1>12 DEF SenderClosesSock, Return, Goto, Hold
<1>13. ASSUME NEW t \in Senders, CloseGets(t) PROVE CutIsAbandoned'
    BY <1>13 DEF CloseGets, Goto, Hold
<1>14. ASSUME NEW t \in Senders, CloseClears(t) PROVE CutIsAbandoned'
    BY <1>14 DEF CloseClears, Goto
<1>15. ASSUME NEW t \in Senders, CloseCloses(t) PROVE CutIsAbandoned'
    BY <1>15 DEF CloseCloses, Goto, Hold
<1>16. CASE ReaderChecksClosed
    BY <1>16 DEF ReaderChecksClosed, Goto, ReaderGoto
<1>17. CASE ReaderFindsNone
    BY <1>17 DEF ReaderFindsNone, Goto, ReaderGoto, Detach
<1>18. CASE ReaderFindsSocket
    BY <1>18 DEF ReaderFindsSocket, Goto, ReaderGoto, Hold, Attach
<1>19. CASE ProbeConnects
    BY <1>19 DEF ProbeConnects, Goto, ReaderGoto, Hold, Connected
<1>20. CASE ProbeFails
    BY <1>20 DEF ProbeFails, Goto, ReaderGoto
<1>21. CASE ProbeInstalls
    BY <1>21 DEF ProbeInstalls, Goto, ReaderGoto, Hold
<1>22. CASE RecvData
    BY <1>22 DEF RecvData, Goto, ReaderGoto, Hold
<1>23. CASE RecvTimesOut
    BY <1>23 DEF RecvTimesOut, Goto, ReaderGoto, Hold
<1>24. CASE RecvEnds
    BY <1>24 DEF RecvEnds, Goto, ReaderGoto
<1>25. CASE ReaderDrops
    BY <1>25 DEF ReaderDrops, Goto, ReaderGoto, Forget
<1>26. CASE ReaderCloses
    BY <1>26 DEF ReaderCloses, Goto, ReaderGoto, Hold, Detach
<1>27. CASE DeviceDrops
    BY <1>27 DEF DeviceDrops
<1>28. ASSUME NEW g \in Touches, DeviceSends(g) PROVE CutIsAbandoned'
    BY <1>28 DEF DeviceSends
<1>29. CASE UNCHANGED vars
    BY <1>29 DEF vars
<1> QED
    BY <1>1, <1>2, <1>3, <1>4, <1>5, <1>6, <1>7, <1>8, <1>9, <1>10, <1>11,
       <1>12, <1>13, <1>14, <1>15, <1>16, <1>17, <1>18, <1>19, <1>20, <1>21,
       <1>22, <1>23, <1>24, <1>25, <1>26, <1>27, <1>28, <1>29
    DEF Next, SenderStep, ReaderStep

-----------------------------------------------------------------------------
\* Before the first connection nothing is shared, open or written.
LEMMA InitIInv == Init => IInv
<1> SUFFICES ASSUME Init PROVE IInv
    OBVIOUS
<1> USE HostTransportAssumption DEF Init, Threads
<1>1. ThreadsTypeOK
  <2> USE DEF SenderLabels, ReaderLabels, SendAttempts
  <2>1. _closed \in BOOLEAN /\ _ever_connected \in BOOLEAN
      OBVIOUS
  <2>2. pc \in [Threads -> SenderLabels \cup ReaderLabels]
      OBVIOUS
  <2>3. (\A t \in Senders : pc[t] \in SenderLabels) /\ pc[Reader] \in ReaderLabels
      OBVIOUS
  <2>4. sock \in [Threads -> Sockets \cup {None}]
      OBVIOUS
  <2>5. /\ op \in [Threads -> {"none", "send", "keepalive", "close"}]
        /\ attempt \in [Threads -> 0..SendAttempts]
      OBVIOUS
  <2>6. \A t \in Senders : pc[t] = "sendall" <=> _send_lock = t
      OBVIOUS
  <2> QED  BY <2>1, <2>2, <2>3, <2>4, <2>5, <2>6 DEF ThreadsTypeOK
<1>2. StreamsTypeOK
  <2>1. garbled \in BOOLEAN
      OBVIOUS
  <2>2. <<>> \in Seq(Pieces)
      OBVIOUS
  <2>3. arriving \in [Sockets -> Seq(Pieces)] /\ sent \in [Sockets -> {"whole", "cut"}]
      BY <2>2
  <2> QED  BY <2>1, <2>2, <2>3 DEF StreamsTypeOK
<1>3. SocketInv
    BY DEF SocketInv, HasSocket, FreshIsPrivate, ForgottenBeforeClosed,
           CloseFoundTheSocket, SharedSocketIsOpen, NoLeakedSocket
<1>4. CutIsAbandoned
    BY DEF CutIsAbandoned
<1> QED  BY <1>1, <1>2, <1>3, <1>4 DEF IInv, TypeOK

\* Every step of Next preserves the inductive invariant.
LEMMA StepIInv == IInv /\ [Next]_vars => IInv'
<1> SUFFICES ASSUME IInv, [Next]_vars PROVE IInv'
    OBVIOUS
<1> USE DEF IInv
<1>1. TypeOK'
    BY ThreadsTypeStep, StreamsTypeStep DEF TypeOK
<1>2. SocketInv'
    BY <1>1, SocketStep
<1>3. CutIsAbandoned'
    BY <1>1, CutStep
<1> QED  BY <1>1, <1>2, <1>3

\* The inductive invariant holds in every reachable state of the client.
THEOREM Correctness == Spec => []IInv
BY InitIInv, StepIInv, PTL DEF Spec

\* Every variable keeps its type, and the send lock is held by exactly the
\* thread that is inside sendall.
THEOREM TypeCorrect == Spec => []TypeOK
<1>1. IInv => TypeOK
    BY DEF IInv
<1> QED  BY <1>1, Correctness, PTL

\* However sends, keepalives, close() and the reader's probe interleave, an
\* open socket is the client's or some thread is about to install or close it.
THEOREM NothingLeaks == Spec => []NoLeakedSocket
<1>1. IInv => NoLeakedSocket
    BY DEF IInv, SocketInv
<1> QED  BY <1>1, Correctness, PTL

\* The socket that threads are handed has not been closed by this process.
THEOREM SharedStaysOpen == Spec => []SharedSocketIsOpen
<1>1. IInv => SharedSocketIsOpen
    BY DEF IInv, SocketInv
<1> QED  BY <1>1, Correctness, PTL

\* A client that one thread sends on never writes a behavior line behind an
\* unfinished one.
THEOREM LinesStayIntact == Spec => []DownlinkLinesIntact
<1>1. IInv => DownlinkLinesIntact
    BY HostTransportAssumption DEF IInv, CutIsAbandoned, DownlinkLinesIntact
<1> QED  BY <1>1, Correctness, PTL

\* The client starts without a link.
LEMMA LinkInit == Init => Link!Init
BY DEF Init, Link!Init

\* What every step does to the link, seen from outside: it brings up a
\* connected socket, takes the link down, shuts the client or does nothing.
LEMMA LinkStep ==
    ASSUME TypeOK, SocketInv, [Next]_vars
    PROVE  [Link!Next]_Link!vars
<1> USE HostTransportAssumption DEF TypeOK, ThreadsTypeOK, StreamsTypeOK, Threads,
        client_vars, local_vars, read_vars, net_vars,
        Link!Next, Link!vars, Link!Up, Link!Down, Link!Shut
<1>1. ASSUME NEW t \in Senders, StartSend(t) PROVE [Link!Next]_Link!vars
    BY <1>1 DEF StartSend
<1>2. ASSUME NEW t \in Senders, StartKeepalive(t) PROVE [Link!Next]_Link!vars
    BY <1>2 DEF StartKeepalive
<1>3. ASSUME NEW t \in Senders, StartClose(t) PROVE [Link!Next]_Link!vars
    BY <1>3 DEF StartClose
<1>4. ASSUME NEW t \in Senders, Ensure(t) PROVE [Link!Next]_Link!vars
    BY <1>4 DEF Ensure
<1>5. ASSUME NEW t \in Senders, SenderConnects(t) PROVE [Link!Next]_Link!vars
    BY <1>5 DEF SenderConnects, Connected
<1>6. ASSUME NEW t \in Senders, SenderGivesUp(t) PROVE [Link!Next]_Link!vars
    BY <1>6 DEF SenderGivesUp, Return
<1>7. ASSUME NEW t \in Senders, SenderInstalls(t) PROVE [Link!Next]_Link!vars
    BY <1>7 DEF SenderInstalls, Install, SocketInv, HasSocket
<1>8. ASSUME NEW t \in Senders, TakeSendLock(t) PROVE [Link!Next]_Link!vars
    BY <1>8 DEF TakeSendLock
<1>9. ASSUME NEW t \in Senders, SendallReturns(t) PROVE [Link!Next]_Link!vars
    BY <1>9 DEF SendallReturns
<1>10. ASSUME NEW t \in Senders, SendallRaises(t) PROVE [Link!Next]_Link!vars
    BY <1>10 DEF SendallRaises
<1>11. ASSUME NEW t \in Senders, SenderDrops(t) PROVE [Link!Next]_Link!vars
    BY <1>11 DEF SenderDrops, Forget
<1>12. ASSUME NEW t \in Senders, SenderClosesSock(t) PROVE [Link!Next]_Link!vars
    BY <1>12 DEF SenderClosesSock
<1>13. ASSUME NEW t \in Senders, CloseGets(t) PROVE [Link!Next]_Link!vars
    BY <1>13 DEF CloseGets
<1>14. ASSUME NEW t \in Senders, CloseClears(t) PROVE [Link!Next]_Link!vars
    BY <1>14 DEF CloseClears
<1>15. ASSUME NEW t \in Senders, CloseCloses(t) PROVE [Link!Next]_Link!vars
    BY <1>15 DEF CloseCloses
<1>16. CASE ReaderChecksClosed
    BY <1>16 DEF ReaderChecksClosed
<1>17. CASE ReaderFindsNone
    BY <1>17 DEF ReaderFindsNone
<1>18. CASE ReaderFindsSocket
    BY <1>18 DEF ReaderFindsSocket
<1>19. CASE ProbeConnects
    BY <1>19 DEF ProbeConnects, Connected
<1>20. CASE ProbeFails
    BY <1>20 DEF ProbeFails
<1>21. CASE ProbeInstalls
    BY <1>21 DEF ProbeInstalls, SocketInv, HasSocket
<1>22. CASE RecvData
    BY <1>22 DEF RecvData
<1>23. CASE RecvTimesOut
    BY <1>23 DEF RecvTimesOut
<1>24. CASE RecvEnds
    BY <1>24 DEF RecvEnds
<1>25. CASE ReaderDrops
    BY <1>25 DEF ReaderDrops, Forget
<1>26. CASE ReaderCloses
    BY <1>26 DEF ReaderCloses
<1>27. CASE DeviceDrops
    BY <1>27 DEF DeviceDrops
<1>28. ASSUME NEW g \in Touches, DeviceSends(g) PROVE [Link!Next]_Link!vars
    BY <1>28 DEF DeviceSends
<1>29. CASE UNCHANGED vars
    BY <1>29 DEF vars
<1> QED
    BY <1>1, <1>2, <1>3, <1>4, <1>5, <1>6, <1>7, <1>8, <1>9, <1>10, <1>11,
       <1>12, <1>13, <1>14, <1>15, <1>16, <1>17, <1>18, <1>19, <1>20, <1>21,
       <1>22, <1>23, <1>24, <1>25, <1>26, <1>27, <1>28, <1>29
    DEF Next, SenderStep, ReaderStep

\* The client, its sockets and threads aside, is a single link that comes up,
\* goes down and is shut for good: SingleLink is implemented.
THEOREM ImplementsLink == Spec => ImplementsSingleLink
<1>1. IInv /\ [Next]_vars => [Link!Next]_Link!vars
    BY LinkStep DEF IInv
<1> QED  BY LinkInit, <1>1, Correctness, PTL DEF Spec, Link!Spec, ImplementsSingleLink

-----------------------------------------------------------------------------
(***************************************************************************)
(* The uplink: the reader thread hands on whole lines of one connection,   *)
(* whoever replaces or drops the connection while half a line is in the    *)
(* reader's buffer.                                                        *)
(***************************************************************************)
\* The touch a piece leaves half said ...
After(p) == IF p.piece = "head" THEN {p.of} ELSE {}

\* ... and the touches that may be half said before it.
Fits(half, p) == half = IF p.piece = "head" THEN {} ELSE {p.of}

\* The unread pieces of a connection whose reader has read half of a touch, or
\* nothing, are in turn: head, tail, head, tail.
InTurn(q, half) ==
    \A i \in DOMAIN q : Fits(IF i = 1 THEN half ELSE After(q[i - 1]), q[i])

\* The touch that is half said at their end.
Unfinished(q, half) == IF q = <<>> THEN half ELSE After(q[Len(q)])

\* What has been read of an unfinished line of a connection.
HalfRead(s) == IF s = attached THEN {buffer[i].of : i \in DOMAIN buffer} ELSE {}

\* What the device has written of a connection goes on where the reader is,
\* and what the device is about to write goes on from there.
Flows(s) ==
    /\ InTurn(arriving[s], HalfRead(s))
    /\ device = s => mid_line = Unfinished(arriving[s], HalfRead(s))

Fresh(s) == \E t \in Threads : pc[t] \in {"install", "probe_install"} /\ sock[t] = s

\* The connections the reader reads, or may yet come to read.
Known(s) == s \in {attached, _sock} \/ Fresh(s)

\* The reader reads, drops and closes the connection it is attached to.
ReaderHolds ==
    pc[Reader] \in {"recv", "read_drop", "read_close"} => sock[Reader] = attached

\* The buffer holds the first half of a line of that connection, or nothing.
BufferInv ==
    /\ attached = None => buffer = <<>>
    /\ buffer # <<>> => \E g \in Touches : buffer = <<[piece |-> "head", of |-> g]>>

UplinkInv ==
    /\ ReaderHolds /\ BufferInv
    /\ ~Fresh(attached)
    /\ \A s \in Sockets : Known(s) => Flows(s)
    /\ UplinkLinesWhole

-----------------------------------------------------------------------------
(***************************************************************************)
(* Pieces in turn.                                                         *)
(***************************************************************************)
\* The device goes on where it left off.
LEMMA WrittenInTurn ==
    ASSUME NEW q \in Seq(Pieces), NEW half, NEW p \in Pieces,
           InTurn(q, half), Fits(Unfinished(q, half), p)
    PROVE  InTurn(Append(q, p), half) /\ Unfinished(Append(q, p), half) = After(p)
<1> DEFINE r == Append(q, p)
<1>1. /\ Len(q) \in Nat /\ Len(r) = Len(q) + 1 /\ DOMAIN q = 1..Len(q) /\ DOMAIN r = 1..Len(r)
      /\ r[Len(r)] = p /\ r # <<>> /\ (q = <<>> <=> Len(q) = 0)
      /\ \A i \in 1..Len(q) : r[i] = q[i]
    OBVIOUS
<1> HIDE DEF r
<1>2. ASSUME NEW i \in DOMAIN r
      PROVE  Fits(IF i = 1 THEN half ELSE After(r[i - 1]), r[i])
  <2>1. CASE i \in 1..Len(q)
    <3>1. Fits(IF i = 1 THEN half ELSE After(q[i - 1]), q[i])
        BY <1>1, <2>1 DEF InTurn
    <3>2. r[i] = q[i] /\ (i # 1 => r[i - 1] = q[i - 1])
        BY <1>1, <2>1
    <3> QED  BY <3>1, <3>2
  <2>2. CASE i = Len(q) + 1
    <3>1. (IF i = 1 THEN half ELSE After(r[i - 1])) = Unfinished(q, half)
      <4>1. CASE Len(q) = 0
          BY <1>1, <2>2, <4>1 DEF Unfinished
      <4>2. CASE Len(q) # 0
        <5>1. i # 1 /\ i - 1 = Len(q) /\ Len(q) \in 1..Len(q) /\ q # <<>>
            BY <1>1, <2>2, <4>2
        <5> QED  BY <1>1, <5>1 DEF Unfinished
      <4> QED  BY <4>1, <4>2
    <3>2. r[i] = p
        BY <1>1, <2>2
    <3> QED  BY <3>1, <3>2
  <2> QED  BY <1>1, <1>2, <2>1, <2>2
<1>3. InTurn(r, half)
    BY <1>2 DEF InTurn
<1>4. Unfinished(r, half) = After(p)
    BY <1>1 DEF Unfinished
<1> QED  BY <1>3, <1>4 DEF r

\* The reader takes the first piece.
LEMMA ReadInTurn ==
    ASSUME NEW q \in Seq(Pieces), NEW half, q # <<>>, InTurn(q, half)
    PROVE  /\ Head(q) \in Pieces /\ Fits(half, Head(q))
           /\ InTurn(Tail(q), After(Head(q)))
           /\ Unfinished(Tail(q), After(Head(q))) = Unfinished(q, half)
<1> DEFINE r == Tail(q)
           p == Head(q)
<1>a. Len(q) \in Nat \ {0} /\ DOMAIN q = 1..Len(q) /\ p = q[1] /\ p \in Pieces
    OBVIOUS
<1>b. r \in Seq(Pieces) /\ Len(r) = Len(q) - 1 /\ \A i \in 1..Len(r) : r[i] = q[i + 1]
    OBVIOUS
<1> HIDE DEF r, p
<1>c. DOMAIN r = 1..Len(r) /\ (r = <<>> <=> Len(r) = 0)
    BY <1>b
<1>1. /\ Len(q) \in Nat \ {0} /\ Len(r) = Len(q) - 1 /\ DOMAIN q = 1..Len(q) /\ DOMAIN r = 1..Len(r)
      /\ p = q[1] /\ p \in Pieces /\ (r = <<>> <=> Len(r) = 0)
      /\ \A i \in 1..Len(r) : r[i] = q[i + 1]
    BY <1>a, <1>b, <1>c
<1>2. Fits(half, p)
  <2>1. 1 \in DOMAIN q
      BY <1>1
  <2> QED  BY <1>1, <2>1 DEF InTurn
<1>3. ASSUME NEW i \in DOMAIN r
      PROVE  Fits(IF i = 1 THEN After(p) ELSE After(r[i - 1]), r[i])
  <2>1. i + 1 \in DOMAIN q /\ i + 1 # 1 /\ (i + 1) - 1 = i /\ r[i] = q[i + 1]
      BY <1>1
  <2>2. Fits(After(q[i]), q[i + 1])
      BY <2>1 DEF InTurn
  <2>3. (IF i = 1 THEN After(p) ELSE After(r[i - 1])) = After(q[i])
    <3>1. CASE i = 1
        BY <1>1, <3>1
    <3>2. CASE i # 1
      <4>1. i - 1 \in 1..Len(r) /\ (i - 1) + 1 = i
          BY <1>1, <3>2
      <4>2. r[i - 1] = q[i]
          BY <1>1, <4>1
      <4> QED  BY <3>2, <4>2
    <3> QED  BY <3>1, <3>2
  <2> QED  BY <2>1, <2>2, <2>3
<1>4. InTurn(r, After(p))
    BY <1>3 DEF InTurn
<1>5. Unfinished(r, After(p)) = Unfinished(q, half)
  <2>1. CASE Len(q) = 1
    <3>1. Len(r) = 0 /\ q # <<>>
        BY <1>1, <2>1
    <3> QED  BY <1>1, <2>1, <3>1 DEF Unfinished
  <2>2. CASE Len(q) # 1
    <3>1. Len(r) # 0 /\ Len(r) \in 1..Len(r) /\ Len(r) + 1 = Len(q)
        BY <1>1, <2>2
    <3>2. r[Len(r)] = q[Len(q)] /\ r # <<>> /\ q # <<>>
        BY <1>1, <3>1
    <3> QED  BY <3>2 DEF Unfinished
  <2> QED  BY <2>1, <2>2
<1> QED  BY <1>1, <1>2, <1>4, <1>5 DEF r, p

\* A half line and its end.
LEMMA TwoPieces ==
    ASSUME NEW S, NEW a \in S, NEW b \in S PROVE Append(<<a>>, b) = <<a, b>>
<1> DEFINE q == Append(<<a>>, b)
           r == <<a, b>>
<1>1. q \in Seq(S) /\ Len(q) = 2 /\ q[1] = a /\ q[2] = b
    OBVIOUS
<1>2. r \in Seq(S) /\ Len(r) = 2 /\ r[1] = a /\ r[2] = b
    OBVIOUS
<1> HIDE DEF q, r
<1>3. Len(q) = Len(r) /\ \A i \in 1..Len(q) : q[i] = r[i]
    BY <1>1, <1>2
<1>4. q = r
    BY <1>1, <1>2, <1>3, SeqEqual, Zenon
<1> QED  BY <1>4 DEF q, r

\* Nothing has been written of a new connection, and nothing read.
LEMMA NothingInTurn == InTurn(<<>>, {}) /\ Unfinished(<<>>, {}) = {}
BY DEF InTurn, Unfinished

-----------------------------------------------------------------------------
(***************************************************************************)
(* The steps.                                                              *)
(***************************************************************************)
\* No step that leaves the streams alone makes a connection known that was not.
LEMMA StreamsAlone ==
    ASSUME UplinkInv, UNCHANGED <<read_vars, arriving, mid_line>>, device' \in {device, None},
           None \notin Sockets, ReaderHolds', ~Fresh(attached)',
           \A s \in Sockets : Known(s)' => Known(s)
    PROVE  UplinkInv'
<1>1. BufferInv' /\ UplinkLinesWhole'
    BY DEF UplinkInv, BufferInv, UplinkLinesWhole, read_vars
<1>2. ASSUME NEW s \in Sockets, Known(s)' PROVE Flows(s)'
  <2>1. Flows(s) /\ s # None
      BY <1>2 DEF UplinkInv
  <2>2. HalfRead(s)' = HalfRead(s) /\ arriving'[s] = arriving[s] /\ mid_line' = mid_line
      BY DEF HalfRead, read_vars
  <2>3. device' = s => device = s
      BY <2>1
  <2> QED  BY <2>1, <2>2, <2>3 DEF Flows
<1> QED  BY <1>1, <1>2 DEF UplinkInv

\* Neither does a step of one thread that does not come out of connecting.
LEMMA NoNewConnection ==
    ASSUME IInv, UplinkInv, NEW t \in Senders,
           UNCHANGED <<read_vars, arriving, mid_line, device>>,
           \A u \in Threads \ {t} : pc'[u] = pc[u] /\ sock'[u] = sock[u],
           \/ pc'[t] # "install" /\ pc'[t] # "probe_install"
           \/ pc'[t] = pc[t] /\ sock'[t] = sock[t],
           \/ _sock' \in {None, _sock}
           \/ _sock' = sock[t] /\ pc[t] = "install"
    PROVE  UplinkInv'
<1>1. t # Reader /\ Reader \in Threads \ {t} /\ t \in Threads /\ None \notin Sockets
    BY HostTransportAssumption DEF Threads
<1>2. ReaderHolds'
    BY <1>1 DEF UplinkInv, ReaderHolds, read_vars
<1>3. \A s : Fresh(s)' => Fresh(s)
    BY DEF Fresh
<1>4. ~Fresh(attached)'
    BY <1>3 DEF UplinkInv, Fresh, read_vars
<1>5. ASSUME NEW s \in Sockets, Known(s)' PROVE Known(s)
    BY <1>1, <1>3, <1>5 DEF Known, Fresh, read_vars
<1> QED  BY <1>1, <1>2, <1>4, <1>5, StreamsAlone

\* A new connection: nobody knows its socket, nothing was written on it.
LEMMA ConnectedKeeps ==
    ASSUME IInv, UplinkInv, NEW t \in Threads, NEW c \in Sockets, Connected(t, c),
           pc'[t] \in {"install", "probe_install"},
           \A u \in Threads \ {t} : pc'[u] = pc[u],
           t = Reader \/ pc'[Reader] = pc[Reader], t = Reader => pc'[t] = "probe_install",
           _sock' = _sock, UNCHANGED read_vars
    PROVE  UplinkInv'
<1>1. /\ c \notin {attached, _sock, device} /\ device' = c /\ mid_line' = {}
      /\ arriving' = [arriving EXCEPT ![c] = <<>>] /\ sock' = [sock EXCEPT ![t] = c]
      /\ attached' = attached /\ buffer' = buffer /\ last_line' = last_line
    BY DEF Connected, Unreferenced, Hold, read_vars
<1>2. /\ arriving \in [Sockets -> Seq(Pieces)] /\ sock \in [Threads -> Sockets \cup {None}]
      /\ Reader \in Threads
    BY DEF IInv, TypeOK, ThreadsTypeOK, StreamsTypeOK, Threads
<1>3. ReaderHolds'
    BY <1>1, <1>2 DEF UplinkInv, ReaderHolds
<1>4. \A s : Fresh(s)' => s = c \/ Fresh(s)
    BY <1>1, <1>2 DEF Fresh
<1>5. ~Fresh(attached)'
    BY <1>1, <1>4 DEF UplinkInv, Fresh
<1>6. ASSUME NEW s \in Sockets, Known(s)' PROVE Flows(s)'
  <2>1. HalfRead(s)' = HalfRead(s)
      BY <1>1 DEF HalfRead
  <2>2. CASE s = c
    <3>1. HalfRead(s) = {} /\ arriving'[s] = <<>>
        BY <1>1, <1>2, <2>2 DEF HalfRead
    <3> QED  BY <1>1, <2>1, <3>1, NothingInTurn DEF Flows
  <2>3. CASE s # c
    <3>1. Known(s)
        BY <1>1, <1>4, <1>6, <2>3 DEF Known, Fresh
    <3>2. arriving'[s] = arriving[s] /\ device' # s
        BY <1>1, <1>2, <2>3
    <3> QED  BY <2>1, <3>1, <3>2 DEF UplinkInv, Flows
  <2> QED  BY <2>2, <2>3
<1> QED  BY <1>1, <1>3, <1>5, <1>6 DEF UplinkInv, BufferInv, UplinkLinesWhole

\* The reader lets go of a connection the client has forgotten, and of the half
\* line it had of it.
LEMMA DetachKeeps ==
    ASSUME IInv, UplinkInv, Detach, UNCHANGED <<_sock, arriving, mid_line, device, last_line>>,
           attached # _sock \/ attached = None, ReaderHolds', ~Fresh(None)',
           \A s : Fresh(s)' => Fresh(s)
    PROVE  UplinkInv'
<1>1. attached' = None /\ buffer' = <<>> /\ None \notin Sockets
    BY HostTransportAssumption DEF Detach
<1>2. ASSUME NEW s \in Sockets, Known(s)' PROVE Flows(s)'
  <2>1. Known(s) /\ s # attached
      BY <1>1, <1>2 DEF Known, Fresh, UplinkInv
  <2>2. HalfRead(s) = {} /\ HalfRead(s)' = {}
      BY <1>1, <2>1 DEF HalfRead
  <2> QED  BY <2>1, <2>2 DEF UplinkInv, Flows
<1>3. BufferInv' /\ UplinkLinesWhole'
    BY <1>1 DEF UplinkInv, BufferInv, UplinkLinesWhole
<1>4. ~Fresh(attached)'
    BY <1>1 DEF Fresh
<1> QED  BY <1>2, <1>3, <1>4 DEF UplinkInv

\* The reader takes up the client's connection.
LEMMA FindsSocketKeeps ==
    ASSUME IInv, UplinkInv, ReaderFindsSocket PROVE UplinkInv'
<1>1. /\ _sock # None /\ _sock \in Sockets /\ sock' = [sock EXCEPT ![Reader] = _sock]
      /\ pc' = [pc EXCEPT ![Reader] = "recv"]
      /\ attached' = _sock /\ (_sock = attached => buffer' = buffer)
      /\ (_sock # attached => buffer' = <<>>)
      /\ UNCHANGED <<_sock, last_line, arriving, device, mid_line>>
    BY DEF ReaderFindsSocket, Attach, Hold, ReaderGoto, Goto, IInv, TypeOK, ThreadsTypeOK,
           client_vars, net_vars
<1>2. /\ pc \in [Threads -> SenderLabels \cup ReaderLabels] /\ Reader \in Threads
      /\ sock \in [Threads -> Sockets \cup {None}] /\ None \notin Sockets
    BY HostTransportAssumption DEF IInv, TypeOK, ThreadsTypeOK, Threads
<1>3. ReaderHolds'
    BY <1>1, <1>2 DEF ReaderHolds
<1>4. \A s : Fresh(s)' => Fresh(s)
    BY <1>1, <1>2 DEF Fresh
<1>5. ~Fresh(_sock)
    BY DEF IInv, SocketInv, FreshIsPrivate, Fresh
<1>6. ~Fresh(attached)'
    BY <1>1, <1>4, <1>5 DEF Fresh
<1>7. BufferInv' /\ UplinkLinesWhole'
    BY <1>1 DEF UplinkInv, BufferInv, UplinkLinesWhole
<1>8. ASSUME NEW s \in Sockets, Known(s)' PROVE Flows(s)'
  <2>1. Known(s)
      BY <1>1, <1>4, <1>8 DEF Known, Fresh
  <2>2. HalfRead(s)' = HalfRead(s)
    <3>1. CASE _sock = attached
        BY <1>1, <3>1 DEF HalfRead
    <3>2. CASE _sock # attached
      <4>1. s # attached
          BY <1>1, <1>4, <1>8, <3>2 DEF Known, Fresh, UplinkInv
      <4> QED  BY <1>1, <3>2, <4>1 DEF HalfRead
    <3> QED  BY <3>1, <3>2
  <2> QED  BY <1>1, <2>1, <2>2 DEF UplinkInv, Flows
<1> QED  BY <1>3, <1>6, <1>7, <1>8 DEF UplinkInv

\* A piece read ends the half line, or is one.
LEMMA RecvKeeps == ASSUME IInv, UplinkInv, RecvData PROVE UplinkInv'
<1> DEFINE data == Head(arriving[attached])
<1>1. /\ pc[Reader] = "recv" /\ sock[Reader] = attached /\ attached \in Sockets
    BY DEF RecvData, UplinkInv, ReaderHolds, IInv, SocketInv, HasSocket
<1>2. /\ arriving[attached] # <<>> /\ arriving[attached] \in Seq(Pieces)
      /\ arriving' = [arriving EXCEPT ![attached] = Tail(@)]
      /\ sock' = [sock EXCEPT ![Reader] = None] /\ pc' = [pc EXCEPT ![Reader] = "top"]
      /\ UNCHANGED <<_sock, attached, device, mid_line>>
      /\ IF data.piece = "tail"
         THEN buffer' = <<>> /\ last_line' = Append(buffer, data)
         ELSE buffer' = Append(buffer, data) /\ UNCHANGED last_line
    BY <1>1 DEF RecvData, Hold, ReaderGoto, Goto, IInv, TypeOK, StreamsTypeOK, client_vars
<1>3. /\ arriving \in [Sockets -> Seq(Pieces)]
      /\ pc \in [Threads -> SenderLabels \cup ReaderLabels] /\ Reader \in Threads
      /\ sock \in [Threads -> Sockets \cup {None}] /\ None \notin Sockets
    BY HostTransportAssumption DEF IInv, TypeOK, ThreadsTypeOK, StreamsTypeOK, Threads
<1>4. Flows(attached)
    BY <1>1 DEF UplinkInv, Known
<1>5. /\ data \in Pieces /\ Fits(HalfRead(attached), data)
      /\ InTurn(Tail(arriving[attached]), After(data))
      /\ Unfinished(Tail(arriving[attached]), After(data))
            = Unfinished(arriving[attached], HalfRead(attached))
    BY <1>2, <1>4, ReadInTurn DEF Flows
<1> HIDE DEF data
<1>6. /\ BufferInv' /\ UplinkLinesWhole' /\ HalfRead(attached)' = After(data)
  <2>1. data.piece \in {"head", "tail"} /\ data.of \in Touches
        /\ data = [piece |-> data.piece, of |-> data.of]
      BY <1>5 DEF Pieces
  <2>2. CASE data.piece = "tail"
    <3>1. buffer' = <<>> /\ last_line' = Append(buffer, data)
        BY <1>2, <2>2
    <3>2. HalfRead(attached) = {data.of}
        BY <1>5, <2>2 DEF Fits
    <3>3. buffer # <<>>
        BY <3>2 DEF HalfRead
    <3>4. PICK g \in Touches : buffer = <<[piece |-> "head", of |-> g]>>
        BY <3>3 DEF UplinkInv, BufferInv
    <3>5. HalfRead(attached) = {g}
        BY <3>4 DEF HalfRead
    <3>6. data.of = g
        BY <3>2, <3>5
    <3>7. data = [piece |-> "tail", of |-> g]
        BY <2>1, <2>2, <3>6
    <3>8. [piece |-> "head", of |-> g] \in Pieces /\ [piece |-> "tail", of |-> g] \in Pieces
        BY PieceTyping
    <3>9. last_line' = <<[piece |-> "head", of |-> g], [piece |-> "tail", of |-> g]>>
        BY <3>1, <3>4, <3>7, <3>8, TwoPieces, Zenon
    <3>10. UplinkLinesWhole'
        BY <3>9 DEF UplinkLinesWhole
    <3>11. HalfRead(attached)' = {}
        BY <1>2, <3>1 DEF HalfRead
    <3>12. After(data) = {}
        BY <2>2 DEF After
    <3> QED  BY <3>1, <3>10, <3>11, <3>12 DEF BufferInv
  <2>3. CASE data.piece = "head"
    <3>1. buffer' = Append(buffer, data) /\ last_line' = last_line
        BY <1>2, <2>3
    <3>2. HalfRead(attached) = {}
        BY <1>5, <2>3 DEF Fits
    <3>3. buffer = <<>>
      <4>1. SUFFICES ASSUME buffer # <<>> PROVE FALSE
          OBVIOUS
      <4>2. PICK g \in Touches : buffer = <<[piece |-> "head", of |-> g]>>
          BY <4>1 DEF UplinkInv, BufferInv
      <4>3. HalfRead(attached) = {g}
          BY <4>2 DEF HalfRead
      <4> QED  BY <3>2, <4>3
    <3>4. buffer' = <<data>>
        BY <3>1, <3>3
    <3>5. HalfRead(attached)' = {data.of}
        BY <1>2, <3>4 DEF HalfRead
    <3>6. After(data) = {data.of}
        BY <2>3 DEF After
    <3>7. attached' # None /\ UplinkLinesWhole'
        BY <1>1, <1>2, <1>3, <3>1 DEF UplinkInv, UplinkLinesWhole
    <3>8. buffer' = <<[piece |-> "head", of |-> data.of]>>
        BY <2>1, <2>3, <3>4
    <3> QED  BY <2>1, <3>5, <3>6, <3>7, <3>8 DEF BufferInv
  <2> QED  BY <2>1, <2>2, <2>3
<1>7. ReaderHolds'
    BY <1>2, <1>3 DEF ReaderHolds
<1>8. \A s : Fresh(s)' => Fresh(s)
    BY <1>2, <1>3 DEF Fresh
<1>9. ~Fresh(attached)'
    BY <1>2, <1>8 DEF UplinkInv, Fresh
<1>10. ASSUME NEW s \in Sockets, Known(s)' PROVE Flows(s)'
  <2>1. CASE s = attached
    <3>1. HalfRead(s)' = After(data) /\ arriving'[s] = Tail(arriving[s])
        BY <1>1, <1>2, <1>3, <1>6, <2>1 DEF HalfRead
    <3> QED  BY <1>2, <1>4, <1>5, <2>1, <3>1 DEF Flows
  <2>2. CASE s # attached
    <3>1. HalfRead(s)' = HalfRead(s) /\ arriving'[s] = arriving[s]
        BY <1>2, <1>3, <2>2 DEF HalfRead
    <3>2. Known(s)
        BY <1>2, <1>8, <1>10 DEF Known, Fresh
    <3> QED  BY <1>2, <3>1, <3>2 DEF UplinkInv, Flows
  <2> QED  BY <2>1, <2>2
<1> QED  BY <1>6, <1>7, <1>9, <1>10 DEF UplinkInv

\* The device writes half a line behind what it has written.
LEMMA DeviceSendsKeeps ==
    ASSUME IInv, UplinkInv, NEW g \in Touches, DeviceSends(g) PROVE UplinkInv'
<1>1. device \in Sockets /\ None \notin Sockets
    BY HostTransportAssumption DEF DeviceSends, IInv, TypeOK, StreamsTypeOK
<1>2. /\ UNCHANGED <<_sock, pc, sock, attached, buffer, last_line, device>>
      /\ \E p \in Pieces : /\ arriving' = [arriving EXCEPT ![device] = Append(@, p)]
                           /\ Fits(mid_line, p) /\ mid_line' = After(p)
  <2>1. UNCHANGED <<_sock, pc, sock, attached, buffer, last_line, device>>
      BY DEF DeviceSends, client_vars, local_vars, read_vars
  <2> DEFINE h == [piece |-> "head", of |-> g]
             l == [piece |-> "tail", of |-> g]
  <2>2. /\ h \in Pieces /\ After(h) = {g} /\ Fits({}, h)
        /\ l \in Pieces /\ After(l) = {} /\ Fits({g}, l)
      BY PieceTyping DEF After, Fits
  <2>3. \/ /\ mid_line = {} /\ mid_line' = {g}
           /\ arriving' = [arriving EXCEPT ![device] = Append(@, h)]
        \/ /\ mid_line = {g} /\ mid_line' = {}
           /\ arriving' = [arriving EXCEPT ![device] = Append(@, l)]
      BY DEF DeviceSends
  <2> HIDE DEF h, l
  <2> QED  BY <2>1, <2>2, <2>3
<1>3. PICK p \in Pieces : /\ arriving' = [arriving EXCEPT ![device] = Append(@, p)]
                          /\ Fits(mid_line, p) /\ mid_line' = After(p)
    BY <1>2
<1>4. arriving \in [Sockets -> Seq(Pieces)]
    BY DEF IInv, TypeOK, StreamsTypeOK
<1>5. ASSUME NEW s \in Sockets, Known(s)' PROVE Flows(s)'
  <2>1. Flows(s) /\ HalfRead(s)' = HalfRead(s)
      BY <1>2, <1>5 DEF Known, Fresh, UplinkInv, HalfRead
  <2>2. CASE s = device
    <3>1. InTurn(arriving[s], HalfRead(s)) /\ Fits(Unfinished(arriving[s], HalfRead(s)), p)
        BY <1>3, <2>1, <2>2 DEF Flows
    <3>2. arriving'[s] = Append(arriving[s], p) /\ arriving[s] \in Seq(Pieces)
        BY <1>3, <1>4, <2>2
    <3>3. InTurn(arriving'[s], HalfRead(s)) /\ Unfinished(arriving'[s], HalfRead(s)) = After(p)
        BY <3>1, <3>2, WrittenInTurn
    <3> QED  BY <1>3, <2>1, <3>3 DEF Flows
  <2>3. CASE s # device
    <3>1. arriving'[s] = arriving[s] /\ device' # s
        BY <1>2, <1>3, <1>4, <2>3
    <3> QED  BY <2>1, <3>1 DEF Flows
  <2> QED  BY <2>2, <2>3
<1>6. ReaderHolds' /\ BufferInv' /\ ~Fresh(attached)' /\ UplinkLinesWhole'
    BY <1>2 DEF UplinkInv, ReaderHolds, BufferInv, Fresh, UplinkLinesWhole
<1> QED  BY <1>5, <1>6 DEF UplinkInv

\* Every step of the client and of the device.
LEMMA UplinkStep == ASSUME IInv, UplinkInv, [Next]_vars PROVE UplinkInv'
<1> USE DEF client_vars, local_vars, read_vars, net_vars, ReaderGoto, Goto, Hold
<1>a. /\ pc \in [Threads -> SenderLabels \cup ReaderLabels] /\ Reader \in Threads
      /\ sock \in [Threads -> Sockets \cup {None}] /\ None \notin Sockets /\ Reader \notin Senders
      /\ Senders \subseteq Threads /\ pc[Reader] \in ReaderLabels
      /\ \A t \in Senders : pc[t] \in SenderLabels
    BY HostTransportAssumption DEF IInv, TypeOK, ThreadsTypeOK, Threads
<1>1. ASSUME NEW t \in Senders,
             StartSend(t) \/ StartKeepalive(t) \/ StartClose(t) \/ Ensure(t)
               \/ SenderGivesUp(t) \/ TakeSendLock(t) \/ SendallReturns(t)
      PROVE  UplinkInv'
  <2>1. /\ UNCHANGED <<read_vars, arriving, mid_line, device>> /\ _sock' = _sock
        /\ \A u \in Threads \ {t} : pc'[u] = pc[u] /\ sock'[u] = sock[u]
        /\ pc'[t] # "install" /\ pc'[t] # "probe_install"
      BY <1>1, <1>a DEF StartSend, StartKeepalive, StartClose, Ensure, SenderGivesUp,
         TakeSendLock, SendallReturns, Return
  <2> QED  BY <2>1, NoNewConnection
<1>2. ASSUME NEW t \in Senders,
             SendallRaises(t) \/ SenderDrops(t) \/ SenderClosesSock(t) \/ CloseGets(t)
               \/ CloseClears(t) \/ CloseCloses(t)
      PROVE  UplinkInv'
  <2>1. /\ UNCHANGED <<read_vars, arriving, mid_line, device>> /\ _sock' \in {None, _sock}
        /\ \A u \in Threads \ {t} : pc'[u] = pc[u] /\ sock'[u] = sock[u]
        /\ pc'[t] # "install" /\ pc'[t] # "probe_install"
      BY <1>2, <1>a DEF SendallRaises, SenderDrops, SenderClosesSock, CloseGets, CloseClears,
         CloseCloses, Return, Forget
  <2> QED  BY <2>1, NoNewConnection
<1>3. ASSUME NEW t \in Senders, SenderInstalls(t) PROVE UplinkInv'
  <2>1. /\ UNCHANGED <<read_vars, arriving, mid_line, device>>
        /\ pc[t] = "install" /\ _sock' \in {_sock, sock[t]}
        /\ \A u \in Threads \ {t} : pc'[u] = pc[u] /\ sock'[u] = sock[u]
        /\ pc'[t] # "install" /\ pc'[t] # "probe_install"
      BY <1>3, <1>a DEF SenderInstalls, Install, Return
  <2> QED  BY <2>1, NoNewConnection
<1>4. ASSUME NEW t \in Senders, SenderConnects(t) PROVE UplinkInv'
  <2>1. PICK c \in Sockets : Connected(t, c)
      BY <1>4 DEF SenderConnects
  <2>2. /\ pc'[t] = "install" /\ t \in Threads /\ t # Reader
        /\ \A u \in Threads \ {t} : pc'[u] = pc[u]
        /\ _sock' = _sock /\ UNCHANGED read_vars
      BY <1>4, <1>a DEF SenderConnects
  <2> QED  BY <1>a, <2>1, <2>2, ConnectedKeeps
<1>5. CASE ProbeConnects
  <2>1. PICK c \in Sockets : Connected(Reader, c)
      BY <1>5 DEF ProbeConnects
  <2>2. /\ pc'[Reader] = "probe_install" /\ \A u \in Threads \ {Reader} : pc'[u] = pc[u]
        /\ _sock' = _sock /\ UNCHANGED read_vars
      BY <1>5, <1>a DEF ProbeConnects
  <2> QED  BY <1>a, <2>1, <2>2, ConnectedKeeps
<1>6. CASE ReaderChecksClosed \/ ProbeFails \/ RecvTimesOut \/ RecvEnds \/ ReaderDrops
  <2>1. /\ UNCHANGED <<read_vars, arriving, mid_line, device>> /\ _sock' \in {None, _sock}
        /\ \A u \in Threads \ {Reader} : pc'[u] = pc[u] /\ sock'[u] = sock[u]
        /\ pc'[Reader] \in {"top", "done", "get", "read_drop", "read_close"}
        /\ pc'[Reader] \in {"read_drop", "read_close"} =>
              sock' = sock /\ pc[Reader] \in {"recv", "read_drop"}
      BY <1>6, <1>a DEF ReaderChecksClosed, ProbeFails, RecvTimesOut, RecvEnds, ReaderDrops, Forget
  <2>2. ReaderHolds'
      BY <2>1 DEF UplinkInv, ReaderHolds
  <2>3. \A s : Fresh(s)' => Fresh(s)
      BY <2>1 DEF Fresh
  <2>4. ~Fresh(attached)'
      BY <2>1, <2>3 DEF UplinkInv, Fresh
  <2>5. \A s \in Sockets : Known(s)' => Known(s)
      BY <1>a, <2>1, <2>3 DEF Known, Fresh
  <2> QED  BY <1>a, <2>1, <2>2, <2>4, <2>5, StreamsAlone
<1>7. CASE ProbeInstalls
  <2>1. /\ UNCHANGED <<read_vars, arriving, mid_line, device>> /\ pc[Reader] = "probe_install"
        /\ _sock' \in {_sock, sock[Reader]} /\ pc'[Reader] = "top"
        /\ \A u \in Threads \ {Reader} : pc'[u] = pc[u] /\ sock'[u] = sock[u]
      BY <1>7, <1>a DEF ProbeInstalls
  <2>2. ReaderHolds'
      BY <2>1 DEF ReaderHolds
  <2>3. \A s : Fresh(s)' => Fresh(s)
      BY <2>1 DEF Fresh
  <2>4. ~Fresh(attached)'
      BY <2>1, <2>3 DEF UplinkInv, Fresh
  <2>5. \A s \in Sockets : Known(s)' => Known(s)
      BY <1>a, <2>1, <2>3 DEF Known, Fresh
  <2> QED  BY <1>a, <2>1, <2>2, <2>4, <2>5, StreamsAlone
<1>8. CASE ReaderFindsNone
  <2>1. /\ Detach /\ UNCHANGED <<_sock, arriving, mid_line, device, last_line, sock>>
        /\ _sock = None /\ pc'[Reader] \in {"top", "probe"}
        /\ \A u \in Threads \ {Reader} : pc'[u] = pc[u]
      BY <1>8, <1>a DEF ReaderFindsNone
  <2>2. ReaderHolds'
      BY <2>1 DEF ReaderHolds
  <2>3. \A s : Fresh(s)' => Fresh(s)
      BY <2>1 DEF Fresh
  <2>4. ~Fresh(None)
      BY <1>a DEF Fresh, IInv, TypeOK, StreamsTypeOK, SocketInv, FreshIsPrivate
  <2>5. ~Fresh(None)'
      BY <2>3, <2>4 DEF Fresh
  <2> QED  BY <2>1, <2>2, <2>3, <2>5, DetachKeeps
<1>9. CASE ReaderCloses
  <2>1. /\ Detach /\ UNCHANGED <<_sock, arriving, mid_line, device, last_line>>
        /\ pc[Reader] = "read_close" /\ pc'[Reader] = "top"
        /\ \A u \in Threads \ {Reader} : pc'[u] = pc[u] /\ sock'[u] = sock[u]
      BY <1>9, <1>a DEF ReaderCloses
  <2>2. ReaderHolds'
      BY <2>1 DEF ReaderHolds
  <2>3. \A s : Fresh(s)' => Fresh(s)
      BY <2>1 DEF Fresh
  <2>4. ~Fresh(None)
      BY <1>a DEF Fresh, IInv, TypeOK, StreamsTypeOK, SocketInv, FreshIsPrivate
  <2>5. ~Fresh(None)'
      BY <2>3, <2>4 DEF Fresh
  <2>6. attached # _sock \/ attached = None
      BY <1>a, <2>1 DEF UplinkInv, ReaderHolds, IInv, SocketInv, ForgottenBeforeClosed
  <2> QED  BY <2>1, <2>2, <2>3, <2>5, <2>6, DetachKeeps
<1>10. CASE DeviceDrops
  <2>1. UNCHANGED <<read_vars, arriving, mid_line, _sock, pc, sock>> /\ device' = None
      BY <1>10 DEF DeviceDrops
  <2>2. ReaderHolds' /\ ~Fresh(attached)'
      BY <2>1 DEF UplinkInv, ReaderHolds, Fresh
  <2>3. \A s \in Sockets : Known(s)' => Known(s)
      BY <2>1 DEF Known, Fresh
  <2> QED  BY <1>a, <2>1, <2>2, <2>3, StreamsAlone
<1>11. CASE UNCHANGED vars
  <2>1. UNCHANGED <<read_vars, arriving, mid_line, _sock, pc, sock, device>>
      BY <1>11 DEF vars
  <2>2. ReaderHolds' /\ ~Fresh(attached)'
      BY <2>1 DEF UplinkInv, ReaderHolds, Fresh
  <2>3. \A s \in Sockets : Known(s)' => Known(s)
      BY <2>1 DEF Known, Fresh
  <2> QED  BY <1>a, <2>1, <2>2, <2>3, StreamsAlone
<1> QED
    BY <1>1, <1>2, <1>3, <1>4, <1>5, <1>6, <1>7, <1>8, <1>9, <1>10, <1>11,
       FindsSocketKeeps, RecvKeeps, DeviceSendsKeeps
    DEF Next, SenderStep, ReaderStep

\* At the start nothing is known, read or written.
LEMMA InitUplink == Init => UplinkInv
<1> SUFFICES ASSUME Init PROVE UplinkInv
    OBVIOUS
<1>1. /\ _sock = None /\ attached = None /\ buffer = <<>> /\ last_line = <<>>
      /\ None \notin Sockets /\ Reader \in Threads
      /\ \A t \in Threads : pc[t] \in {"idle", "top", "done"}
    BY HostTransportAssumption DEF Init, Threads
<1>2. \A s : ~Fresh(s)
    BY <1>1 DEF Fresh
<1> QED  BY <1>1, <1>2 DEF UplinkInv, ReaderHolds, BufferInv, Known, UplinkLinesWhole

-----------------------------------------------------------------------------
\* The reader hands on whole lines of one connection: an unfinished line is
\* never completed with bytes of the connection that replaced it.
THEOREM LinesAreWhole == Spec => []UplinkLinesWhole
<1>1. Init => IInv /\ UplinkInv
    BY InitIInv, InitUplink
<1>2. IInv /\ UplinkInv /\ [Next]_vars => (IInv /\ UplinkInv)'
    BY StepIInv, UplinkStep
<1>3. UplinkInv => UplinkLinesWhole
    BY DEF UplinkInv
<1> QED  BY <1>1, <1>2, <1>3, PTL DEF Spec
=============================================================================
