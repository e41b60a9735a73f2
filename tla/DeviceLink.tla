----------------------------- MODULE DeviceLink -----------------------------
(***************************************************************************)
(* The firmware tasks of device/src/bin/main.rs around the host link: the  *)
(* touch task, the behavior server with its reader and writer halves, and  *)
(* the render task with its Scene (device/src/render.rs).                  *)
(*                                                                         *)
(* The tasks run on one cooperative embassy executor, so an action is what *)
(* one task does between two awaits.  The TCP connection and the Wi-Fi     *)
(* controller are external; they are modelled by what the tasks can see of *)
(* them.  Gestures are numbered in the order the classifier returns them,  *)
(* behavior updates in the order they are queued for the renderer.         *)
(***************************************************************************)
EXTENDS Integers, Sequences, FiniteSets

CONSTANTS
    INPUT_QUEUE_LEN,    \* capacity of INPUT_CHANNEL (8 in the code)
    TxFrames,           \* input frames that fit in SOCKET_TX_BUF
    RxFrames,           \* behavior frames that fit in SOCKET_RX_BUF
    FRAME_MS,           \* render period
    HostDurations,      \* durations (ms) a host behavior may have
    LOCAL_ACK_DURATION_MS,
    MaxGestures, MaxBehaviors, MaxConnections    \* bounds of the exploration

ASSUME DeviceLinkAssumption ==
    /\ INPUT_QUEUE_LEN \in Nat \ {0} /\ TxFrames \in Nat \ {0}
    /\ RxFrames \in Nat \ {0} /\ FRAME_MS \in Nat \ {0}
    /\ LOCAL_ACK_DURATION_MS \in Nat \ {0}
    /\ HostDurations \subseteq Nat \ {0}
    /\ MaxGestures \in Nat /\ MaxBehaviors \in Nat /\ MaxConnections \in Nat

VARIABLES
    wifi_up,            \* the stack has an address
    server,             \* what behavior_server_task is doing
    link,               \* its TCP connection
    rx,                 \* received, unread behavior frames (their durations)
    tx,                 \* number of input frames waiting to be transmitted
    HOST_CONNECTED,
    INPUT_CHANNEL,
    in_hand,            \* set of gestures dequeued by the blocked writer
    PENDING_BEHAVIOR,   \* the single-slot mailbox of the renderer
    active              \* Scene.active

\* History, read by the guards of the bounds and by the properties only.
VARIABLES
    epoch,              \* number of accepted connections
    gestures,           \* number of classified gestures
    behaviors,          \* number of behavior frames the host has sent
    stamp,              \* number of updates queued for the renderer
    shown,              \* stamp of the last update drawn
    uplinked,           \* gestures written to the socket, in order
    acked,              \* ids of the gestures acknowledged locally
    taken               \* ids of the gestures the writer dequeued

net_vars == <<wifi_up, server, link, rx, tx, epoch>>
input_vars == <<HOST_CONNECTED, INPUT_CHANNEL, in_hand>>
screen_vars == <<PENDING_BEHAVIOR, active, stamp, shown>>
fate_vars == <<uplinked, acked, taken>>
vars == <<net_vars, input_vars, screen_vars, fate_vars, gestures, behaviors>>

Servers == {"wait_config", "accepting", "backoff", "serving"}
\* "silent": the peer vanished and nothing tells the device so; "write_failed":
\* writes fail while a read still waits; "closed": both halves fail.
Links == {"none", "up", "silent", "write_failed", "closed"}
Malformed == 0
NoUpdate == [stamp |-> 0, duration_ms |-> 0]
NoActive == [stamp |-> 0, frames_left |-> 0]
Ids(seq) == {seq[i].id : i \in DOMAIN seq}

-----------------------------------------------------------------------------
(***************************************************************************)
(* The mailbox between the tasks and the renderer: the latest update wins. *)
(***************************************************************************)
\* Mutant of queue_behavior_update: a waiting update is kept.
queue_behavior_update_keeps_old(n, ms) ==
    /\ stamp' = stamp + n
    /\ PENDING_BEHAVIOR' = IF PENDING_BEHAVIOR = NoUpdate
                           THEN [stamp |-> stamp + n, duration_ms |-> ms]
                           ELSE PENDING_BEHAVIOR

\* n updates queued in one step of a task, the last of them lasting ms.
queue_behavior_update(n, ms) ==
    /\ stamp' = stamp + n
    /\ PENDING_BEHAVIOR' = [stamp |-> stamp + n, duration_ms |-> ms]

local_ack(id) ==
    /\ queue_behavior_update(1, LOCAL_ACK_DURATION_MS)
    /\ acked' = acked \cup {id}

\* A duration is rounded up to whole frames, at least one and at most u16::MAX.
frames_for(ms) ==
    LET rounded == (ms + FRAME_MS - 1) \div FRAME_MS
    IN  IF rounded < 1 THEN 1 ELSE IF rounded > 65535 THEN 65535 ELSE rounded

apply_behavior(update) ==
    [stamp |-> update.stamp, frames_left |-> frames_for(update.duration_ms)]

tick(a) ==
    IF a.frames_left > 1 THEN [stamp |-> a.stamp, frames_left |-> a.frames_left - 1] ELSE NoActive

\* One iteration of render_task: take the update, draw and flush, tick.  The
\* iterations that only draw the local idle loop change nothing here.
RenderTick ==
    LET drawn == IF PENDING_BEHAVIOR # NoUpdate
                 THEN apply_behavior(PENDING_BEHAVIOR) ELSE active
    IN  /\ drawn # NoActive
        /\ PENDING_BEHAVIOR' = NoUpdate
        /\ shown' = drawn.stamp
        /\ active' = tick(drawn)
        /\ UNCHANGED <<net_vars, input_vars, fate_vars, stamp, gestures, behaviors>>

-----------------------------------------------------------------------------
(***************************************************************************)
(* The touch task: a gesture is queued for the host or acknowledged here.  *)
(***************************************************************************)
\* The gesture remembers the connection it was captured on and whether the
\* server was serving one at all.
Captured(id) == [id |-> id, epoch |-> epoch, served |-> server = "serving"]

enqueue_input(g) ==
    INPUT_CHANNEL' = IF Len(INPUT_CHANNEL) < INPUT_QUEUE_LEN
                     THEN Append(INPUT_CHANNEL, g)
                     ELSE Append(Tail(INPUT_CHANNEL), g)

\* Mutant of touch_task: the touch is acknowledged at once, host or not.
touch_task_acks_always ==
    /\ gestures < MaxGestures
    /\ gestures' = gestures + 1
    /\ IF HOST_CONNECTED THEN enqueue_input(Captured(gestures + 1))
                         ELSE UNCHANGED INPUT_CHANNEL
    /\ local_ack(gestures + 1)
    /\ UNCHANGED <<net_vars, HOST_CONNECTED, in_hand, active, shown,
                   uplinked, taken, behaviors>>

touch_task ==
    /\ gestures < MaxGestures
    /\ gestures' = gestures + 1
    /\ \/ /\ HOST_CONNECTED
          /\ enqueue_input(Captured(gestures + 1))
          /\ UNCHANGED <<PENDING_BEHAVIOR, stamp, acked>>
       \/ /\ ~HOST_CONNECTED
          /\ local_ack(gestures + 1)
          /\ UNCHANGED INPUT_CHANNEL
    /\ UNCHANGED <<net_vars, HOST_CONNECTED, in_hand, active, shown,
                   uplinked, taken, behaviors>>

-----------------------------------------------------------------------------
(***************************************************************************)
(* The outside world: Wi-Fi and the host.                                  *)
(***************************************************************************)
WifiConnects ==
    /\ ~wifi_up
    /\ wifi_up' = TRUE
    /\ UNCHANGED <<server, link, rx, tx, epoch, input_vars, screen_vars,
                   fate_vars, gestures, behaviors>>

\* A connection in progress is not told; its peer just falls silent.
WifiDisconnects ==
    /\ wifi_up
    /\ wifi_up' = FALSE
    /\ link' = IF link = "up" THEN "silent" ELSE link
    /\ UNCHANGED <<server, rx, tx, epoch, input_vars, screen_vars,
                   fate_vars, gestures, behaviors>>

HostSends(ms) ==
    /\ link = "up" /\ Len(rx) < RxFrames /\ behaviors < MaxBehaviors
    /\ rx' = Append(rx, ms)
    /\ behaviors' = behaviors + 1
    /\ UNCHANGED <<wifi_up, server, link, tx, epoch, input_vars, screen_vars,
                   fate_vars, gestures>>

\* The network carries a buffered input frame to the host.
HostReceives ==
    /\ link = "up" /\ tx > 0
    /\ tx' = tx - 1
    /\ UNCHANGED <<wifi_up, server, link, rx, epoch, input_vars, screen_vars,
                   fate_vars, gestures, behaviors>>

\* The host closes or resets the connection, vanishes, or stops receiving.
LinkBreaks(how) ==
    /\ link = "up"
    /\ link' = how
    /\ UNCHANGED <<wifi_up, server, rx, tx, epoch, input_vars, screen_vars,
                   fate_vars, gestures, behaviors>>

\* Mutant of SocketTimeout: set_timeout is not called.
SocketTimeout_unset == FALSE /\ UNCHANGED vars

\* SOCKET_TIMEOUT_SECS without a word from the peer abort the connection.
SocketTimeout ==
    /\ link \in {"silent", "write_failed"}
    /\ link' = "closed"
    /\ UNCHANGED <<wifi_up, server, rx, tx, epoch, input_vars, screen_vars,
                   fate_vars, gestures, behaviors>>

-----------------------------------------------------------------------------
(***************************************************************************)
(* behavior_server_task outside a connection.                              *)
(***************************************************************************)
ConfigUp ==
    /\ server = "wait_config" /\ wifi_up
    /\ server' = "accepting"
    /\ UNCHANGED <<wifi_up, link, rx, tx, epoch, input_vars, screen_vars,
                   fate_vars, gestures, behaviors>>

AcceptFails ==
    /\ server = "accepting"
    /\ server' = "backoff"
    /\ UNCHANGED <<wifi_up, link, rx, tx, epoch, input_vars, screen_vars,
                   fate_vars, gestures, behaviors>>

BackoffOver ==
    /\ server = "backoff"
    /\ server' = "wait_config"
    /\ UNCHANGED <<wifi_up, link, rx, tx, epoch, input_vars, screen_vars,
                   fate_vars, gestures, behaviors>>

\* Mutant of Accepted: what the previous connection left queued is kept.
Accepted_keeps_queue ==
    /\ HOST_CONNECTED' = TRUE
    /\ UNCHANGED INPUT_CHANNEL

\* The queue is emptied before touch is told that a host is there.
Accepted ==
    /\ INPUT_CHANNEL' = <<>>
    /\ HOST_CONNECTED' = TRUE

Accept ==
    /\ server = "accepting" /\ wifi_up /\ epoch < MaxConnections
    /\ server' = "serving" /\ link' = "up" /\ epoch' = epoch + 1
    /\ Accepted
    /\ UNCHANGED <<wifi_up, rx, tx, in_hand, screen_vars, fate_vars,
                   gestures, behaviors>>

\* Mutant of HostGone: touch is not told that the host has gone.
HostGone_untold == UNCHANGED HOST_CONNECTED

HostGone == HOST_CONNECTED' = FALSE

\* select returned: the other half's future, with the gesture it holds, and
\* the socket with its buffers are dropped, and the server starts over.
EndConnection ==
    /\ HostGone
    /\ server' = "wait_config" /\ link' = "none" /\ rx' = <<>> /\ tx' = 0
    /\ in_hand' = {}
    /\ UNCHANGED <<wifi_up, epoch>>

-----------------------------------------------------------------------------
(***************************************************************************)
(* The two halves of a connection.  select polls the reader first, so the  *)
(* writer runs only while the reader has nothing to do.                    *)
(***************************************************************************)
\* read_control_stream consumes everything that has arrived in one poll.
ReadFrames ==
    LET valid == {i \in DOMAIN rx : rx[i] # Malformed}
    IN  /\ server = "serving" /\ rx # <<>>
        /\ rx' = <<>>
        /\ \/ /\ valid = {}
              /\ UNCHANGED <<PENDING_BEHAVIOR, stamp>>
           \/ \E last \in valid :
                 /\ \A i \in valid : i <= last
                 /\ queue_behavior_update(Cardinality(valid), rx[last])
        /\ UNCHANGED <<wifi_up, server, link, tx, epoch, input_vars, active,
                       shown, fate_vars, gestures, behaviors>>

ReadEnds ==
    /\ server = "serving" /\ rx = <<>> /\ link = "closed"
    /\ EndConnection
    /\ UNCHANGED <<INPUT_CHANNEL, screen_vars, fate_vars, gestures, behaviors>>

WriterPolled == server = "serving" /\ rx = <<>> /\ link # "closed"
Writable == tx < TxFrames /\ link # "write_failed"

Uplink(g) ==
    /\ uplinked' = Append(uplinked, [id |-> g.id, epoch |-> g.epoch, on |-> epoch])
    /\ tx' = tx + 1

\* The writer takes a gesture off the queue and the socket has room for it.
WriteQueued ==
    /\ WriterPolled /\ in_hand = {} /\ INPUT_CHANNEL # <<>> /\ Writable
    /\ INPUT_CHANNEL' = Tail(INPUT_CHANNEL)
    /\ taken' = taken \cup {Head(INPUT_CHANNEL).id}
    /\ Uplink(Head(INPUT_CHANNEL))
    /\ UNCHANGED <<wifi_up, server, link, rx, epoch, HOST_CONNECTED, in_hand,
                   screen_vars, acked, gestures, behaviors>>

\* Mutant of WriteBlocks: the gesture is only peeked at.
WriteBlocks_peeks ==
    /\ WriterPolled /\ in_hand = {} /\ INPUT_CHANNEL # <<>>
    /\ tx = TxFrames /\ link # "write_failed"
    /\ in_hand' = {Head(INPUT_CHANNEL)}
    /\ taken' = taken \cup {Head(INPUT_CHANNEL).id}
    /\ UNCHANGED <<net_vars, HOST_CONNECTED, INPUT_CHANNEL, screen_vars,
                   uplinked, acked, gestures, behaviors>>

\* The writer takes a gesture off the queue and write_all has to wait.
WriteBlocks ==
    /\ WriterPolled /\ in_hand = {} /\ INPUT_CHANNEL # <<>>
    /\ tx = TxFrames /\ link # "write_failed"
    /\ INPUT_CHANNEL' = Tail(INPUT_CHANNEL)
    /\ in_hand' = {Head(INPUT_CHANNEL)}
    /\ taken' = taken \cup {Head(INPUT_CHANNEL).id}
    /\ UNCHANGED <<net_vars, HOST_CONNECTED, screen_vars, uplinked, acked,
                   gestures, behaviors>>

\* Mutant of WriteResumes: a blocked write is never woken.
WriteResumes_never(g) == FALSE /\ UNCHANGED vars

WriteResumes(g) ==
    /\ WriterPolled /\ Writable
    /\ in_hand' = in_hand \ {g}
    /\ Uplink(g)
    /\ UNCHANGED <<wifi_up, server, link, rx, epoch, HOST_CONNECTED,
                   INPUT_CHANNEL, screen_vars, acked, taken, gestures, behaviors>>

\* write_all fails: the gesture is acknowledged locally and the connection
\* ends.  It is the one in hand, or the one just taken off the queue.
WriteFails ==
    /\ WriterPolled /\ link = "write_failed"
    /\ \/ /\ in_hand # {}
          /\ \E g \in in_hand : local_ack(g.id)
          /\ UNCHANGED <<INPUT_CHANNEL, taken>>
       \/ /\ in_hand = {} /\ INPUT_CHANNEL # <<>>
          /\ local_ack(Head(INPUT_CHANNEL).id)
          /\ taken' = taken \cup {Head(INPUT_CHANNEL).id}
          /\ INPUT_CHANNEL' = Tail(INPUT_CHANNEL)
    /\ EndConnection
    /\ UNCHANGED <<active, shown, uplinked, gestures, behaviors>>

-----------------------------------------------------------------------------
Init ==
    /\ wifi_up = FALSE /\ server = "wait_config" /\ link = "none"
    /\ rx = <<>> /\ tx = 0
    /\ HOST_CONNECTED = FALSE /\ INPUT_CHANNEL = <<>> /\ in_hand = {}
    /\ PENDING_BEHAVIOR = NoUpdate /\ active = NoActive
    /\ epoch = 0 /\ gestures = 0 /\ behaviors = 0 /\ stamp = 0 /\ shown = 0
    /\ uplinked = <<>> /\ acked = {} /\ taken = {}

Environment ==
    \/ WifiConnects
    \/ WifiDisconnects
    \/ \E ms \in HostDurations \cup {Malformed} : HostSends(ms)
    \/ HostReceives
    \/ \E how \in {"silent", "write_failed", "closed"} : LinkBreaks(how)
    \/ SocketTimeout

ServerTask ==
    \/ ConfigUp \/ AcceptFails \/ BackoffOver \/ Accept
    \/ ReadFrames \/ ReadEnds
    \/ WriteQueued \/ WriteBlocks \/ (\E g \in in_hand : WriteResumes(g))
    \/ WriteFails

Next == Environment \/ ServerTask \/ touch_task \/ RenderTick

Spec == Init /\ [][Next]_vars

\* The ticker fires, the executor polls every woken task, the network carries
\* what it can and the socket timeout runs out.  Nothing is assumed of Wi-Fi,
\* of the host or of the pad.
Fairness ==
    /\ WF_vars(RenderTick)
    /\ WF_vars(SocketTimeout)
    /\ WF_vars(HostReceives)
    /\ WF_vars(ConfigUp) /\ WF_vars(BackoffOver)
    /\ WF_vars(ReadFrames) /\ WF_vars(ReadEnds)
    /\ WF_vars(WriteQueued \/ WriteBlocks \/ (\E g \in in_hand : WriteResumes(g)))
    /\ WF_vars(WriteFails)

FairSpec == Spec /\ Fairness

-----------------------------------------------------------------------------
GestureRecords == [id : 1..MaxGestures, epoch : 0..MaxConnections, served : BOOLEAN]
UplinkRecords == [id : 1..MaxGestures, epoch : 0..MaxConnections, on : 0..MaxConnections]

\* Every variable keeps its type and every buffer its capacity.
TypeOK ==
    /\ wifi_up \in BOOLEAN /\ server \in Servers /\ link \in Links
    /\ rx \in Seq(HostDurations \cup {Malformed}) /\ Len(rx) <= RxFrames
    /\ tx \in 0..TxFrames
    /\ HOST_CONNECTED \in BOOLEAN
    /\ INPUT_CHANNEL \in Seq(GestureRecords)
    /\ Len(INPUT_CHANNEL) <= INPUT_QUEUE_LEN
    /\ in_hand \subseteq GestureRecords /\ Cardinality(in_hand) <= 1
    /\ PENDING_BEHAVIOR \in [stamp : Nat, duration_ms : Nat]
    /\ active \in [stamp : Nat, frames_left : 0..65535]
    /\ epoch \in 0..MaxConnections /\ gestures \in 0..MaxGestures
    /\ behaviors \in 0..MaxBehaviors /\ stamp \in Nat /\ shown \in 0..stamp
    /\ uplinked \in Seq(UplinkRecords)
    /\ acked \subseteq 1..gestures /\ taken \subseteq 1..gestures

\* "Drop any gestures captured while disconnected: ... they are not replayed
\* when the host returns": a gesture only ever goes out on the connection it
\* was captured on, although the queue outlives the connection.
NotReplayed == \A i \in DOMAIN uplinked : uplinked[i].epoch = uplinked[i].on

\* "a disconnected touch must not be queued": whatever the order in which the
\* server and the touch task run, the queue holds only gestures captured
\* while the server was serving a connection.
DisconnectedTouchNotQueued ==
    \A i \in DOMAIN INPUT_CHANNEL : INPUT_CHANNEL[i].served

\* "Either uplink the gesture or play a local-only acknowledgement, never
\* both", also when the link fails with the gesture dequeued.
NeverBoth == Ids(uplinked) \cap acked = {}

\* Gestures reach the socket in the order they were made and at most once,
\* across queue overflows, blocked writes and reconnections.
UplinkInOrder ==
    \A i, j \in DOMAIN uplinked : i < j => uplinked[i].id < uplinked[j].id

\* The last update queued is drawn unless a later one displaces it.
LatestUpdateIsDrawn ==
    \A s \in 1..(MaxGestures + MaxBehaviors) : (stamp = s) ~> (shown >= s)

\* A connection whose host is gone, without a FIN or with one half dead, does
\* not keep the server: it gets back to accepting the next host.
DeadLinkReleased ==
    (link \in {"silent", "write_failed", "closed"}) ~> (link \in {"none", "up"})

\* A queued touch does not wait for ever on a live connection.
QueuedTouchLeaves ==
    \A id \in 1..MaxGestures :
        (id \in Ids(INPUT_CHANNEL) /\ link = "up") ~>
            (id \notin Ids(INPUT_CHANNEL) \/ link # "up")

\* main.rs:393-395 says of a gesture dequeued when the link dies: "acknowledge
\* it locally so the touch is not silently lost".
DequeuedTouchNotLost ==
    taken \subseteq Ids(uplinked) \cup acked \cup {g.id : g \in in_hand}

=============================================================================
