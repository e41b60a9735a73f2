---------------------------- MODULE PresenceWake ----------------------------
(***************************************************************************)
(* How the pet loop learns that the owner came or left: the source-keyed   *)
(* mailbox of host/presence.py, the coalesced wake-ups of HostInputQueue   *)
(* (host/inputs.py), the /presence handler threads of host/control.py, and *)
(* the part of run_pet_loop that reads the mailbox, waits, and keeps the   *)
(* device's connection alive meanwhile.                                    *)
(*                                                                         *)
(* Time is a clock in units of the loop's shortest wait (one second).  A   *)
(* step is what a thread does under one lock.  Signals are told apart by   *)
(* the label they get; every other input of the queue is one item.         *)
(***************************************************************************)
EXTENDS Integers, Sequences

CONSTANTS
    Handlers,       \* threads of the control server
    Sources,        \* keys of explicit presence sources
    Ttls,           \* lifetimes an explicit source may ask for
    ActivityTtls,   \* lifetimes of a host-activity record
    Intervals,      \* waits _adaptive_interval may choose
    MaxTick,        \* longest turn of the loop, generation included
    KEEPALIVE_INTERVAL,     \* longest part of a wait
    MaxQueue,       \* bound on the queue
    MaxNow,         \* bound on the clock
    None            \* Python's None

ASSUME PresenceWakeAssumption ==
    /\ Ttls \subseteq Nat \ {0} /\ ActivityTtls \subseteq Nat \ {0}
    /\ Intervals \subseteq Nat \ {0} /\ Intervals # {}
    /\ MaxTick \in Nat /\ KEEPALIVE_INTERVAL \in Nat \ {0} /\ MaxQueue \in Nat /\ MaxNow \in Nat
    /\ None \notin Nat

\* What a host-activity record says of the owner: locked or idle for long;
\* unlocked, recently active or with an app in front; nothing at all.
ActivitySays == {"away", "present", "nothing"}

VARIABLES
    now,
    _activity,          \* the host-activity record, or None
    _presence,          \* the record of each explicit source, or None
    _queue, _presence_pending,          \* HostInputQueue
    pc,                 \* where each handler is
    loop,               \* where the loop is
    now_ts,             \* when the loop's turn began
    wait_until,         \* when the wait that is under way ends, or 0
    chunk_until         \* when its present part ends, or 0

\* History: the label the loop read last and for how long it has been wrong;
\* whether anything was posted since; and for how long the loop has not read a
\* posted change (None if there is none); for how long the device has been sent
\* nothing.
VARIABLES seen, lag, posted, unread_for, silent

mailbox == <<_activity, _presence>>
inputs == <<_queue, _presence_pending>>
loop_vars == <<loop, now_ts, wait_until, chunk_until, silent>>
history == <<seen, lag, posted, unread_for>>
vars == <<now, mailbox, inputs, pc, loop_vars, history>>

Minimum(S) == CHOOSE x \in S : \A y \in S : x <= y
Larger(a, b) == IF a >= b THEN a ELSE b

-----------------------------------------------------------------------------
(***************************************************************************)
(* SignalMailbox.                                                          *)
(***************************************************************************)
expired(record, t) == t - record.received_at > record.ttl

Fresh(record, t) == record # None /\ ~expired(record, t)

\* _coarse_presence: absence is authoritative among explicit sources, and host
\* activity counts only without them.
_coarse_presence(activity, presence, t) ==
    LET explicit == {presence[s].says : s \in {x \in Sources : Fresh(presence[x], t)}}
    IN  CASE "away" \in explicit -> "away"
          [] explicit = {"present"} -> "present"
          [] explicit = {} /\ Fresh(activity, t) /\ activity.says # "nothing" -> activity.says
          [] OTHER -> None

Owner == _coarse_presence(_activity, _presence, now)

\* Mutant of next_expiry_at: the host-activity record is left out.
next_expiry_at_explicit(t) ==
    {_presence[s].received_at + _presence[s].ttl : s \in {x \in Sources : Fresh(_presence[x], t)}}

\* next_expiry_at: empty, or the soonest moment a fresh record expires.
next_expiry_at(t) ==
    LET records == {_presence[s] : s \in Sources} \cup {_activity}
        ends == {r.received_at + r.ttl : r \in {x \in records : Fresh(x, t)}}
    IN  IF ends = {} THEN {} ELSE {Minimum(ends)}

\* get: records that have expired are pruned.
Prune(t) ==
    /\ _activity' = IF Fresh(_activity, t) THEN _activity ELSE None
    /\ _presence' = [s \in Sources |-> IF Fresh(_presence[s], t) THEN _presence[s] ELSE None]

-----------------------------------------------------------------------------
(***************************************************************************)
(* Handlers of the control server.                                         *)
(***************************************************************************)
\* The handler goes on to wake the loop only if the label has changed.
AfterSet(h) ==
    LET changed == _coarse_presence(_activity', _presence', now) # Owner IN
    /\ pc' = [pc EXCEPT ![h] = IF changed THEN "submit" ELSE "idle"]
    /\ unread_for' = IF changed /\ unread_for = None THEN 0 ELSE unread_for
    /\ posted' = TRUE
    /\ UNCHANGED <<seen, lag>>

PostPresence(h, s, says, ttl) ==
    /\ pc[h] = "idle"
    /\ _presence' = [_presence EXCEPT ![s] = [says |-> says, received_at |-> now, ttl |-> ttl]]
    /\ UNCHANGED _activity
    /\ AfterSet(h)
    /\ UNCHANGED <<now, inputs, loop_vars>>

PostActivity(h, says, ttl) ==
    /\ pc[h] = "idle"
    /\ _activity' = [says |-> says, received_at |-> now, ttl |-> ttl]
    /\ UNCHANGED _presence
    /\ AfterSet(h)
    /\ UNCHANGED <<now, inputs, loop_vars>>

\* Mutant of SubmitPresence: every change puts an item.
SubmitPresence_uncoalesced(h) ==
    /\ pc[h] = "submit"
    /\ _presence_pending' = TRUE
    /\ pc' = [pc EXCEPT ![h] = "put"]
    /\ UNCHANGED <<now, mailbox, _queue, loop_vars, history>>

\* submit_presence_signal under the lock: one wake-up at most is pending.
SubmitPresence(h) ==
    /\ pc[h] = "submit"
    /\ _presence_pending' = TRUE
    /\ pc' = [pc EXCEPT ![h] = IF _presence_pending THEN "idle" ELSE "put"]
    /\ UNCHANGED <<now, mailbox, _queue, loop_vars, history>>

\* ... and outside it.
PutPresence(h) ==
    /\ pc[h] = "put"
    /\ _queue' = Append(_queue, "presence")
    /\ pc' = [pc EXCEPT ![h] = "idle"]
    /\ UNCHANGED <<now, mailbox, _presence_pending, loop_vars, history>>

\* submit_direct_message, submit_build_test_result, submit_important_alert,
\* submit_touch.
SubmitOther ==
    /\ Len(_queue) < MaxQueue
    /\ _queue' = Append(_queue, "other")
    /\ UNCHANGED <<now, mailbox, _presence_pending, pc, loop_vars, history>>

-----------------------------------------------------------------------------
(***************************************************************************)
(* The pet loop.                                                           *)
(***************************************************************************)
BeginTick ==
    /\ loop = "top"
    /\ now_ts' = now
    /\ loop' = "get"
    /\ UNCHANGED <<now, mailbox, inputs, pc, wait_until, chunk_until, silent, history>>

\* signal_mailbox.get(now_ts), and the turn up to the keepalive before the
\* generation, which takes no time.
ReadMailbox ==
    /\ loop = "get"
    /\ Prune(now_ts)
    /\ seen' = _coarse_presence(_activity, _presence, now_ts)
    /\ lag' = 0 /\ posted' = FALSE /\ unread_for' = None
    /\ loop' = "busy" /\ silent' = 0
    /\ UNCHANGED <<now, inputs, pc, now_ts, wait_until, chunk_until>>

\* The behavior is generated and sent: how long to wait is computed from the
\* time the tick began.
EndTick ==
    /\ loop = "busy"
    /\ \E interval \in Intervals :
          wait_until' = now + Minimum({interval} \cup
              {Larger(1, expiry - now_ts) : expiry \in next_expiry_at(now_ts)})
    /\ loop' = "poll" /\ silent' = 0
    /\ UNCHANGED <<now, mailbox, inputs, pc, now_ts, chunk_until, history>>

\* An item is taken from the queue, at once or during the wait.
TakeItem ==
    /\ loop \in {"poll", "wait"} /\ _queue # <<>>
    /\ _queue' = Tail(_queue)
    /\ loop' = IF Head(_queue) = "presence" THEN "consume" ELSE "top"
    /\ wait_until' = 0 /\ chunk_until' = 0
    /\ UNCHANGED <<now, mailbox, _presence_pending, pc, now_ts, silent, history>>

\* The first or the next part of the wait.
StartChunk(t) == chunk_until' = Minimum({t + KEEPALIVE_INTERVAL, wait_until})

PollFindsNone ==
    /\ loop = "poll" /\ _queue = <<>>
    /\ loop' = "wait"
    /\ StartChunk(now)
    /\ UNCHANGED <<now, mailbox, inputs, pc, now_ts, wait_until, silent, history>>

\* Mutant of ChunkEnds: the wait goes on without a keepalive.
ChunkEnds_silently ==
    /\ loop = "wait" /\ now >= chunk_until /\ chunk_until < wait_until
    /\ StartChunk(chunk_until)
    /\ UNCHANGED <<now, mailbox, inputs, pc, loop, now_ts, wait_until, silent, history>>

\* Still waiting: a keepalive, and the next part.
ChunkEnds ==
    /\ loop = "wait" /\ now >= chunk_until /\ chunk_until < wait_until
    /\ silent' = 0
    /\ StartChunk(chunk_until)
    /\ UNCHANGED <<now, mailbox, inputs, pc, loop, now_ts, wait_until, history>>

WaitEnds ==
    /\ loop = "wait" /\ now >= chunk_until /\ chunk_until >= wait_until
    /\ loop' = "top"
    /\ wait_until' = 0 /\ chunk_until' = 0
    /\ UNCHANGED <<now, mailbox, inputs, pc, now_ts, silent, history>>

\* Mutant of Consume: the flag is never cleared.
Consume_keeps_flag ==
    /\ loop = "consume"
    /\ loop' = "top"
    /\ UNCHANGED <<now, mailbox, inputs, pc, now_ts, wait_until, chunk_until, silent, history>>

\* _consume under the lock.
Consume ==
    /\ loop = "consume"
    /\ _presence_pending' = FALSE
    /\ loop' = "top"
    /\ UNCHANGED <<now, mailbox, _queue, pc, now_ts, wait_until, chunk_until, silent, history>>

-----------------------------------------------------------------------------
\* Only the loop's turn and its wait take time: a thread that can run does.
Tick ==
    /\ now < MaxNow
    /\ \A h \in Handlers : pc[h] = "idle"
    /\ \/ loop = "busy" /\ now < now_ts + MaxTick
       \/ loop = "wait" /\ now < chunk_until /\ _queue = <<>>
    /\ now' = now + 1 /\ silent' = silent + 1
    /\ lag' = IF _coarse_presence(_activity, _presence, now + 1) # seen THEN lag + 1 ELSE 0
    /\ unread_for' = IF unread_for = None THEN None ELSE unread_for + 1
    /\ UNCHANGED <<mailbox, inputs, pc, loop, now_ts, wait_until, chunk_until, seen, posted>>

Init ==
    /\ now = 1
    /\ _activity = None /\ _presence = [s \in Sources |-> None]
    /\ _queue = <<>> /\ _presence_pending = FALSE
    /\ pc = [h \in Handlers |-> "idle"]
    /\ loop = "top" /\ now_ts = 1 /\ wait_until = 0 /\ chunk_until = 0 /\ silent = 0
    /\ seen = None /\ lag = 0 /\ posted = FALSE /\ unread_for = None

Next ==
    \/ \E h \in Handlers :
          \/ \E s \in Sources, says \in {"away", "present"}, ttl \in Ttls :
                PostPresence(h, s, says, ttl)
          \/ \E says \in ActivitySays, ttl \in ActivityTtls : PostActivity(h, says, ttl)
          \/ SubmitPresence(h)
          \/ PutPresence(h)
    \/ SubmitOther
    \/ BeginTick \/ ReadMailbox \/ EndTick
    \/ TakeItem \/ PollFindsNone \/ ChunkEnds \/ WaitEnds \/ Consume
    \/ Tick

Spec == Init /\ [][Next]_vars

-----------------------------------------------------------------------------
Records(says) == [says : says, received_at : Nat, ttl : Nat]

InputsTypeOK ==
    /\ _queue \in Seq({"presence", "other"}) /\ _presence_pending \in BOOLEAN
    /\ pc \in [Handlers -> {"idle", "submit", "put"}]
    /\ loop \in {"top", "get", "busy", "poll", "wait", "consume"}

\* Every variable keeps its type; the label the loop reads is away, present or
\* none at all.
TypeOK ==
    /\ InputsTypeOK
    /\ now \in Nat /\ now_ts \in Nat /\ wait_until \in Nat /\ chunk_until \in Nat
    /\ _activity \in Records(ActivitySays) \cup {None}
    /\ _presence \in [Sources -> Records({"away", "present"}) \cup {None}]
    /\ seen \in {"away", "present", None} /\ lag \in Nat
    /\ posted \in BOOLEAN /\ unread_for \in Nat \cup {None}
    /\ silent \in Nat

\* Where a presence wake-up can be: on its way into the queue, in the queue,
\* or taken out of it with the flag not yet cleared.
WakeUps ==
    {<<"put", h>> : h \in {x \in Handlers : pc[x] = "put"}}
    \cup {<<"item", i>> : i \in {x \in 1..Len(_queue) : _queue[x] = "presence"}}
    \cup (IF loop = "consume" THEN {<<"taken", 0>>} ELSE {})

\* "only one presence signal is ever pending at a time", and the flag that
\* coalesces the others is up exactly while there is one: were it to stay up,
\* no post would wake the loop again.
OneWakePending ==
    /\ _presence_pending <=> WakeUps # {}
    /\ \A a, b \in WakeUps : a = b

\* A posted change of the owner's label is read by the loop before the turn it
\* is in could have lasted, whatever it is waiting for and however many other
\* posts were coalesced: no wake-up is lost.
PostNoticedInTime == unread_for = None \/ unread_for <= MaxTick

\* If nobody posts, a label that changes because a record has gone stale is read
\* within one turn and the shortest wait, whatever wait the loop had chosen.
ExpiryNoticedInTime == posted \/ lag <= MaxTick + 1

\* The connection is kept alive through waits of any length and whatever cuts
\* them short: the device, which gives up a silent one, is never sent nothing
\* for longer than a part of a wait, or than the model takes to answer.
LinkKeptAlive == silent <= Larger(KEEPALIVE_INTERVAL, MaxTick)

\* "so an expiring presence source (e.g. AirPods going stale) is noticed
\* promptly instead of up to a minute later", whatever is posted meanwhile.
LabelNoticedInTime == lag <= MaxTick + 1

=============================================================================
