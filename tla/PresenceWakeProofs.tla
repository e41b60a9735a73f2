------------------------- MODULE PresenceWakeProofs -------------------------
(***************************************************************************)
(* Presence wake-ups are coalesced to one, and the flag that coalesces     *)
(* them never stays up; a posted change, an expiry and the device's own    *)
(* timeout are all answered in time: for any number of handlers, sources   *)
(* and items and for every lifetime, wait and turn.                        *)
(***************************************************************************)
EXTENDS PresenceWake, WellFoundedInduction, TLAPS

IInv == InputsTypeOK /\ OneWakePending

\* A queue grows at its end ...
LEMMA AppendItem ==
    ASSUME _queue \in Seq({"presence", "other"}), NEW x \in {"presence", "other"},
           _queue' = Append(_queue, x)
    PROVE  /\ _queue' \in Seq({"presence", "other"})
           /\ Len(_queue') = Len(_queue) + 1
           /\ \A i \in 1..Len(_queue) : _queue'[i] = _queue[i]
           /\ _queue'[Len(_queue')] = x
OBVIOUS

\* ... and shrinks at its head.
LEMMA TakeHead ==
    ASSUME _queue \in Seq({"presence", "other"}), _queue # <<>>, _queue' = Tail(_queue)
    PROVE  /\ _queue' \in Seq({"presence", "other"})
           /\ Len(_queue') = Len(_queue) - 1 /\ Len(_queue) \in Nat \ {0}
           /\ \A i \in 1..Len(_queue') : _queue'[i] = _queue[i + 1]
           /\ Head(_queue) = _queue[1] /\ _queue[1] \in {"presence", "other"}
OBVIOUS

\* There is no wake-up when no handler, item or hand-over is one.
NobodyWakes ==
    /\ \A h \in Handlers : pc[h] # "put"
    /\ \A i \in 1..Len(_queue) : _queue[i] # "presence"
    /\ loop # "consume"

\* The set of wake-ups is empty exactly when nobody wakes, now ...
LEMMA NoWakeUps == WakeUps = {} <=> NobodyWakes
<1>1. ASSUME WakeUps = {} PROVE NobodyWakes
  <2>1. ASSUME NEW h \in Handlers, pc[h] = "put" PROVE FALSE
    <3>1. <<"put", h>> \in WakeUps
        BY <2>1 DEF WakeUps
    <3> QED  BY <1>1, <3>1
  <2>2. ASSUME NEW i \in 1..Len(_queue), _queue[i] = "presence" PROVE FALSE
    <3>1. <<"item", i>> \in WakeUps
        BY <2>2 DEF WakeUps
    <3> QED  BY <1>1, <3>1
  <2>3. loop = "consume" => <<"taken", 0>> \in WakeUps
      BY DEF WakeUps
  <2> QED  BY <1>1, <2>1, <2>2, <2>3 DEF NobodyWakes
<1>2. ASSUME NobodyWakes, NEW a \in WakeUps PROVE FALSE
  <2>1. \/ \E h \in Handlers : pc[h] = "put"
        \/ \E i \in 1..Len(_queue) : _queue[i] = "presence"
        \/ loop = "consume"
      BY <1>2 DEF WakeUps
  <2> QED  BY <1>2, <2>1 DEF NobodyWakes
<1> QED  BY <1>1, <1>2

\* ... and in the next state.
LEMMA NoWakeUpsNext == WakeUps' = {} <=> NobodyWakes'
<1>1. (WakeUps = {} <=> NobodyWakes)'
    BY NoWakeUps, PTL
<1> QED  BY <1>1

\* At the start there is no wake-up and the flag is down.
LEMMA InitIInv == Init => IInv
<1> SUFFICES ASSUME Init PROVE IInv
    OBVIOUS
<1>1. InputsTypeOK
  <2>1. _presence_pending = FALSE /\ _queue = <<>>
      BY DEF Init
  <2>2. pc \in [Handlers -> {"idle", "submit", "put"}]
      BY DEF Init
  <2>3. loop = "top"
      BY DEF Init
  <2>4. _presence_pending \in BOOLEAN
      BY <2>1
  <2> QED  BY <2>1, <2>2, <2>3, <2>4 DEF InputsTypeOK
<1>2. WakeUps = {}
    BY NoWakeUps DEF Init, NobodyWakes
<1> QED  BY <1>1, <1>2 DEF IInv, OneWakePending, Init

\* The steps that leave queue, flag, handlers and the loop's hand-over alone.
LEMMA WakeUpsStay ==
    ASSUME IInv, UNCHANGED inputs,
           {h \in Handlers : pc'[h] = "put"} = {h \in Handlers : pc[h] = "put"},
           loop' = "consume" <=> loop = "consume"
    PROVE  OneWakePending'
<1>1. WakeUps' = WakeUps
    BY DEF WakeUps, inputs
<1> QED  BY <1>1 DEF IInv, OneWakePending, inputs

\* Every step of handlers and loop preserves the inductive invariant.
LEMMA StepIInv == IInv /\ [Next]_vars => IInv'
<1> SUFFICES ASSUME IInv, [Next]_vars PROVE IInv'
    OBVIOUS
<1> USE DEF IInv, InputsTypeOK
<1>1. ASSUME NEW h \in Handlers, pc[h] = "idle", UNCHANGED <<inputs, loop_vars>>,
             \E label \in {"submit", "idle"} : pc' = [pc EXCEPT ![h] = label]
      PROVE  IInv'
  <2>1. InputsTypeOK'
      BY <1>1 DEF inputs, loop_vars
  <2>2. {x \in Handlers : pc'[x] = "put"} = {x \in Handlers : pc[x] = "put"}
      BY <1>1
  <2>3. OneWakePending'
      BY <1>1, <2>2, WakeUpsStay DEF loop_vars
  <2> QED  BY <2>1, <2>3
<1>2. ASSUME NEW h \in Handlers,
             \/ \E s \in Sources, says \in {"away", "present"}, ttl \in Ttls :
                   PostPresence(h, s, says, ttl)
             \/ \E says \in ActivitySays, ttl \in ActivityTtls : PostActivity(h, says, ttl)
      PROVE  IInv'
  <2>1. /\ pc[h] = "idle" /\ UNCHANGED <<inputs, loop_vars>>
        /\ \E label \in {"submit", "idle"} : pc' = [pc EXCEPT ![h] = label]
      BY <1>2 DEF PostPresence, PostActivity, AfterSet
  <2> QED  BY <1>1, <2>1
<1>3. ASSUME NEW h \in Handlers, SubmitPresence(h) PROVE IInv'
  <2>0. /\ pc[h] = "submit" /\ _presence_pending' = TRUE /\ UNCHANGED <<_queue, loop>>
        /\ pc' = [pc EXCEPT ![h] = IF _presence_pending THEN "idle" ELSE "put"]
      BY <1>3 DEF SubmitPresence, loop_vars
  <2>1. InputsTypeOK'
      BY <2>0
  <2>2. CASE _presence_pending
    <3>1. {x \in Handlers : pc'[x] = "put"} = {x \in Handlers : pc[x] = "put"}
        BY <2>0, <2>2
    <3>2. WakeUps' = WakeUps
        BY <2>0, <3>1 DEF WakeUps
    <3> QED  BY <2>0, <2>1, <2>2, <3>2 DEF OneWakePending
  <2>3. CASE ~_presence_pending
    <3>1. WakeUps = {}
        BY <2>3 DEF OneWakePending
    <3>2. NobodyWakes
        BY <3>1, NoWakeUps
    <3>3. {x \in Handlers : pc'[x] = "put"} = {h}
        BY <2>0, <2>3, <3>2 DEF NobodyWakes
    <3>4. {i \in 1..Len(_queue') : _queue'[i] = "presence"} = {} /\ loop' # "consume"
        BY <2>0, <3>2 DEF NobodyWakes
    <3>5. <<"put", h>> \in WakeUps'
        BY <3>3 DEF WakeUps
    <3>6. ASSUME NEW a \in WakeUps' PROVE a = <<"put", h>>
      <4>1. \/ \E x \in Handlers : pc'[x] = "put" /\ a = <<"put", x>>
            \/ \E i \in 1..Len(_queue') : _queue'[i] = "presence"
            \/ loop' = "consume"
          BY <3>6 DEF WakeUps
      <4> QED  BY <3>3, <3>4, <4>1
    <3> QED  BY <2>0, <2>1, <3>5, <3>6 DEF OneWakePending
  <2> QED  BY <2>2, <2>3
<1>4. ASSUME NEW h \in Handlers, PutPresence(h) PROVE IInv'
  <2>0. /\ pc[h] = "put" /\ UNCHANGED <<_presence_pending, loop>>
        /\ _queue' = Append(_queue, "presence")
        /\ pc' = [pc EXCEPT ![h] = "idle"]
      BY <1>4 DEF PutPresence, loop_vars
  <2>1. InputsTypeOK'
      BY <2>0
  <2>2. <<"put", h>> \in WakeUps
      BY <2>0 DEF WakeUps
  <2>3. _presence_pending /\ \A a \in WakeUps : a = <<"put", h>>
      BY <2>2 DEF OneWakePending
  <2>4. \A x \in Handlers : pc[x] = "put" => x = h
    <3> SUFFICES ASSUME NEW x \in Handlers, pc[x] = "put" PROVE x = h
        OBVIOUS
    <3>1. <<"put", x>> \in WakeUps
        BY DEF WakeUps
    <3> QED  BY <2>3, <3>1
  <2>5. \A i \in 1..Len(_queue) : _queue[i] # "presence"
    <3> SUFFICES ASSUME NEW i \in 1..Len(_queue), _queue[i] = "presence" PROVE FALSE
        OBVIOUS
    <3>1. <<"item", i>> \in WakeUps
        BY DEF WakeUps
    <3> QED  BY <2>3, <3>1
  <2>6. loop # "consume"
    <3>1. loop = "consume" => <<"taken", 0>> \in WakeUps
        BY DEF WakeUps
    <3> QED  BY <2>3, <3>1
  <2>7. {i \in 1..Len(_queue') : _queue'[i] = "presence"} = {Len(_queue) + 1}
      BY <2>0, <2>5, AppendItem
  <2>8. {x \in Handlers : pc'[x] = "put"} = {}
      BY <2>0, <2>4
  <2>9. WakeUps' = {<<"item", Len(_queue) + 1>>}
      BY <2>0, <2>6, <2>7, <2>8 DEF WakeUps
  <2> QED  BY <2>0, <2>1, <2>3, <2>9 DEF OneWakePending
<1>5. CASE SubmitOther
  <2>0. _queue' = Append(_queue, "other") /\ UNCHANGED <<_presence_pending, pc, loop>>
      BY <1>5 DEF SubmitOther, loop_vars
  <2>1. InputsTypeOK'
      BY <2>0
  <2>2. {i \in 1..Len(_queue') : _queue'[i] = "presence"}
          = {i \in 1..Len(_queue) : _queue[i] = "presence"}
      BY <2>0, AppendItem
  <2>3. WakeUps' = WakeUps
      BY <2>0, <2>2 DEF WakeUps
  <2> QED  BY <2>0, <2>1, <2>3 DEF OneWakePending
<1>6. CASE TakeItem
  <2>0. /\ loop \in {"poll", "wait"} /\ _queue # <<>> /\ _queue' = Tail(_queue)
        /\ loop' = IF Head(_queue) = "presence" THEN "consume" ELSE "top"
        /\ UNCHANGED <<_presence_pending, pc>>
      BY <1>6 DEF TakeItem
  <2>1. InputsTypeOK'
      BY <2>0
  <2>2. CASE Head(_queue) = "presence"
    <3>1. <<"item", 1>> \in WakeUps
        BY <2>0, <2>2, TakeHead DEF WakeUps
    <3>2. _presence_pending /\ \A a \in WakeUps : a = <<"item", 1>>
        BY <3>1 DEF OneWakePending
    <3>3. {x \in Handlers : pc[x] = "put"} = {}
      <4> SUFFICES ASSUME NEW x \in Handlers, pc[x] = "put" PROVE FALSE
          OBVIOUS
      <4>1. <<"put", x>> \in WakeUps
          BY DEF WakeUps
      <4> QED  BY <3>2, <4>1
    <3>4. \A i \in 1..Len(_queue) : _queue[i] = "presence" => i = 1
      <4> SUFFICES ASSUME NEW i \in 1..Len(_queue), _queue[i] = "presence" PROVE i = 1
          OBVIOUS
      <4>1. <<"item", i>> \in WakeUps
          BY DEF WakeUps
      <4> QED  BY <3>2, <4>1
    <3>5. {i \in 1..Len(_queue') : _queue'[i] = "presence"} = {}
        BY <2>0, <3>4, TakeHead
    <3>6. WakeUps' = {<<"taken", 0>>}
        BY <2>0, <2>2, <3>3, <3>5 DEF WakeUps
    <3> QED  BY <2>0, <2>1, <3>2, <3>6 DEF OneWakePending
  <2>3. CASE Head(_queue) # "presence"
    <3>1. loop' = "top"
        BY <2>0, <2>3
    <3>2. \A i \in 1..Len(_queue') : i + 1 \in 1..Len(_queue) /\ _queue'[i] = _queue[i + 1]
        BY <2>0, TakeHead
    <3>3. ASSUME NEW i \in 1..Len(_queue), _queue[i] = "presence"
          PROVE  i - 1 \in 1..Len(_queue') /\ _queue'[i - 1] = "presence"
        BY <2>0, <2>3, <3>3, TakeHead
    <3>4. NobodyWakes' <=> NobodyWakes
        BY <2>0, <3>1, <3>2, <3>3 DEF NobodyWakes
    <3>5. WakeUps' = {} <=> WakeUps = {}
        BY <3>4, NoWakeUps, NoWakeUpsNext
    <3>6. ASSUME NEW a \in WakeUps', NEW b \in WakeUps' PROVE a = b
      <4>1. ASSUME NEW c \in WakeUps'
            PROVE  \/ \E x \in Handlers : c = <<"put", x>> /\ c \in WakeUps
                   \/ \E i \in 1..Len(_queue') : c = <<"item", i>> /\ <<"item", i + 1>> \in WakeUps
        <5>1. /\ \A x \in Handlers : pc'[x] = "put" => <<"put", x>> \in WakeUps
              /\ \A i \in 1..Len(_queue') :
                    _queue'[i] = "presence" => <<"item", i + 1>> \in WakeUps
            BY <2>0, <3>2 DEF WakeUps
        <5>2. \/ \E x \in Handlers : c = <<"put", x>> /\ pc'[x] = "put"
              \/ \E i \in 1..Len(_queue') : c = <<"item", i>> /\ _queue'[i] = "presence"
            BY <3>1, <4>1 DEF WakeUps
        <5> QED  BY <5>1, <5>2
      <4>2. CASE \E x \in Handlers : a = <<"put", x>> /\ a \in WakeUps
        <5>1. PICK x \in Handlers : a = <<"put", x>> /\ a \in WakeUps
            BY <4>2
        <5>2. ASSUME NEW i \in 1..Len(_queue'), <<"item", i + 1>> \in WakeUps PROVE FALSE
          <6>1. <<"put", x>> = <<"item", i + 1>>
              BY <5>1, <5>2 DEF OneWakePending
          <6>2. "put" = "item"
              BY <6>1
          <6> QED  BY <6>2
        <5>3. b \in WakeUps
            BY <4>1, <5>2
        <5> QED  BY <5>1, <5>3 DEF OneWakePending
      <4>3. CASE \E i \in 1..Len(_queue') : a = <<"item", i>> /\ <<"item", i + 1>> \in WakeUps
        <5>1. PICK i \in 1..Len(_queue') : a = <<"item", i>> /\ <<"item", i + 1>> \in WakeUps
            BY <4>3
        <5>2. ASSUME NEW x \in Handlers, <<"put", x>> \in WakeUps PROVE FALSE
          <6>1. <<"put", x>> = <<"item", i + 1>>
              BY <5>1, <5>2 DEF OneWakePending
          <6>2. "put" = "item"
              BY <6>1
          <6> QED  BY <6>2
        <5>3. ASSUME NEW j \in 1..Len(_queue'), <<"item", j + 1>> \in WakeUps PROVE j = i
          <6>1. <<"item", j + 1>> = <<"item", i + 1>>
              BY <5>1, <5>3 DEF OneWakePending
          <6>2. i \in Int /\ j \in Int
              BY <2>0, TakeHead
          <6> QED  BY <6>1, <6>2
        <5> QED  BY <4>1, <5>1, <5>2, <5>3
      <4> QED  BY <4>1, <4>2, <4>3
    <3> QED  BY <2>0, <2>1, <3>5, <3>6 DEF OneWakePending
  <2> QED  BY <2>2, <2>3
<1>7. CASE Consume
  <2>0. /\ loop = "consume" /\ loop' = "top" /\ _presence_pending' = FALSE
        /\ UNCHANGED <<_queue, pc>>
      BY <1>7 DEF Consume
  <2>1. InputsTypeOK'
      BY <2>0
  <2>2. <<"taken", 0>> \in WakeUps
      BY <2>0 DEF WakeUps
  <2>3. \A a \in WakeUps : a = <<"taken", 0>>
      BY <2>2 DEF OneWakePending
  <2>4. {x \in Handlers : pc[x] = "put"} = {}
    <3> SUFFICES ASSUME NEW x \in Handlers, pc[x] = "put" PROVE FALSE
        OBVIOUS
    <3>1. <<"put", x>> \in WakeUps
        BY DEF WakeUps
    <3> QED  BY <2>3, <3>1
  <2>5. {i \in 1..Len(_queue) : _queue[i] = "presence"} = {}
    <3> SUFFICES ASSUME NEW i \in 1..Len(_queue), _queue[i] = "presence" PROVE FALSE
        OBVIOUS
    <3>1. <<"item", i>> \in WakeUps
        BY DEF WakeUps
    <3> QED  BY <2>3, <3>1
  <2>6. WakeUps' = {}
      BY <2>0, <2>4, <2>5, NoWakeUpsNext DEF NobodyWakes
  <2> QED  BY <2>0, <2>1, <2>6 DEF OneWakePending
<1>8. ASSUME UNCHANGED <<inputs, pc>>, loop \notin {"consume"}, loop' \in {"top", "get", "busy", "poll", "wait"}
      PROVE  IInv'
  <2>1. InputsTypeOK'
      BY <1>8 DEF inputs
  <2>2. OneWakePending'
      BY <1>8, WakeUpsStay
  <2> QED  BY <2>1, <2>2
<1>9. CASE BeginTick \/ ReadMailbox \/ EndTick \/ PollFindsNone \/ ChunkEnds \/ WaitEnds
    BY <1>8, <1>9 DEF BeginTick, ReadMailbox, EndTick, PollFindsNone, ChunkEnds, WaitEnds
<1>10. CASE Tick
    BY <1>8, <1>10 DEF Tick, loop_vars
<1>11. CASE UNCHANGED vars
  <2>1. InputsTypeOK'
      BY <1>11 DEF vars, inputs, loop_vars
  <2>2. OneWakePending'
      BY <1>11, WakeUpsStay DEF vars, loop_vars
  <2> QED  BY <2>1, <2>2
<1> QED
    BY <1>2, <1>3, <1>4, <1>5, <1>6, <1>7, <1>9, <1>10, <1>11 DEF Next

-----------------------------------------------------------------------------
\* Time passes only in the loop's turn and in its wait.
ClockInv ==
    /\ now \in Nat /\ now_ts \in Nat /\ unread_for \in Nat \cup {None}
    /\ loop = "get" => now = now_ts
    /\ loop = "busy" => now_ts <= now /\ now <= now_ts + MaxTick

\* A change the loop has not read will be read: the loop is about to, or a
\* wake-up is pending, or its handler has yet to see to it.
UnreadIsOnItsWay ==
    unread_for # None =>
        \/ loop \in {"top", "get"}
        \/ _presence_pending
        \/ \E h \in Handlers : pc[h] = "submit"

\* ... and it was posted during the loop's present turn.
UnreadIsRecent ==
    unread_for # None =>
        unread_for <= MaxTick /\ (loop = "busy" => unread_for <= now - now_ts)

UnreadInv == ClockInv /\ UnreadIsOnItsWay /\ UnreadIsRecent

\* At the start nothing is unread.
LEMMA InitUnreadInv == Init => UnreadInv
<1> SUFFICES ASSUME Init PROVE UnreadInv
    OBVIOUS
<1>1. now = 1 /\ now_ts = 1 /\ unread_for = None /\ loop = "top"
    BY DEF Init
<1> QED  BY <1>1 DEF UnreadInv, ClockInv, UnreadIsOnItsWay, UnreadIsRecent

\* Every step keeps an unread change on its way and recent.
LEMMA StepUnreadInv == IInv /\ UnreadInv /\ [Next]_vars => UnreadInv'
<1> SUFFICES ASSUME IInv, UnreadInv, [Next]_vars PROVE UnreadInv'
    OBVIOUS
<1> USE PresenceWakeAssumption
        DEF UnreadInv, ClockInv, UnreadIsOnItsWay, UnreadIsRecent, IInv, InputsTypeOK
<1>1. ASSUME NEW h \in Handlers,
             \/ \E s \in Sources, says \in {"away", "present"}, ttl \in Ttls :
                   PostPresence(h, s, says, ttl)
             \/ \E says \in ActivitySays, ttl \in ActivityTtls : PostActivity(h, says, ttl)
      PROVE  UnreadInv'
  <2>1. /\ pc[h] = "idle" /\ UNCHANGED <<now, _presence_pending, loop, now_ts>>
        /\ \/ unread_for' = unread_for /\ pc' = [pc EXCEPT ![h] = "idle"]
           \/ unread_for' \in {0, unread_for} /\ pc' = [pc EXCEPT ![h] = "submit"]
      BY <1>1 DEF PostPresence, PostActivity, AfterSet, inputs, loop_vars
  <2>2. UnreadIsOnItsWay'
      BY <2>1
  <2>3. ClockInv'
      BY <2>1
  <2>4. UnreadIsRecent'
      BY <2>1
  <2> QED  BY <2>2, <2>3, <2>4
<1>2. ASSUME NEW h \in Handlers, SubmitPresence(h) PROVE UnreadInv'
    BY <1>2 DEF SubmitPresence, loop_vars, history
<1>3. ASSUME NEW h \in Handlers, PutPresence(h) PROVE UnreadInv'
    BY <1>3 DEF PutPresence, loop_vars, history
<1>4. CASE SubmitOther
    BY <1>4 DEF SubmitOther, loop_vars, history
<1>5. CASE BeginTick
    BY <1>5 DEF BeginTick, inputs, history
<1>6. CASE ReadMailbox
    BY <1>6 DEF ReadMailbox, inputs
<1>7. CASE EndTick
    BY <1>7 DEF EndTick, inputs, history
<1>8. CASE TakeItem
    BY <1>8 DEF TakeItem, history
<1>9. CASE PollFindsNone
    BY <1>9 DEF PollFindsNone, inputs, history
<1>10. CASE WaitEnds
    BY <1>10 DEF WaitEnds, inputs, history
<1>11. CASE Consume
    BY <1>11 DEF Consume, history
<1>12. CASE Tick
  <2>1. /\ \A h \in Handlers : pc[h] = "idle"
        /\ now' = now + 1 /\ UNCHANGED <<pc, _presence_pending, loop, now_ts>>
        /\ unread_for' = IF unread_for = None THEN None ELSE unread_for + 1
      BY <1>12 DEF Tick, inputs, loop_vars
  <2>2. CASE loop = "busy" /\ now < now_ts + MaxTick
      BY <2>1, <2>2
  <2>3. CASE loop = "wait" /\ _queue = <<>>
    <3>1. NobodyWakes
        BY <2>1, <2>3 DEF NobodyWakes
    <3>2. ~_presence_pending
        BY <3>1, NoWakeUps DEF OneWakePending
    <3>3. unread_for = None
        BY <2>1, <2>3, <3>2
    <3> QED  BY <2>1, <2>3, <3>3
  <2> QED  BY <1>12, <2>2, <2>3 DEF Tick
<1>13. CASE ChunkEnds
    BY <1>13 DEF ChunkEnds, inputs, history
<1>14. CASE UNCHANGED vars
    BY <1>14 DEF vars, inputs, loop_vars, history
<1> QED
    BY <1>1, <1>2, <1>3, <1>4, <1>5, <1>6, <1>7, <1>8, <1>9, <1>10, <1>11, <1>12,
       <1>13, <1>14 DEF Next

-----------------------------------------------------------------------------
\* At most one presence wake-up is pending, and the flag is up exactly while
\* there is one.
THEOREM WakeUpsAreCoalesced == Spec => []OneWakePending
<1>1. IInv => OneWakePending
    BY DEF IInv
<1> QED  BY <1>1, InitIInv, StepIInv, PTL DEF Spec

\* No wake-up is lost: a posted change is read within the turn it was posted in.
THEOREM PostedChangesAreRead == Spec => []PostNoticedInTime
<1>1. UnreadInv => PostNoticedInTime
    BY DEF UnreadInv, UnreadIsRecent, PostNoticedInTime
<1> QED  BY <1>1, InitIInv, StepIInv, InitUnreadInv, StepUnreadInv, PTL DEF Spec

-----------------------------------------------------------------------------

\* A non-empty set of naturals has a least element, and Minimum is it.
LEMMA MinimumOfNaturals ==
    ASSUME NEW S, S \subseteq Nat, S # {}
    PROVE  Minimum(S) \in S /\ \A y \in S : Minimum(S) <= y
<1>1. PICK x \in S : \A y \in S : <<y, x>> \notin OpToRel(<, Nat)
    BY NatLessThanWellFounded, WFMin, Zenon
<1>2. ASSUME NEW y \in S PROVE x <= y
  <2>1. <<y, x>> \in Nat \X Nat /\ <<y, x>>[1] = y /\ <<y, x>>[2] = x
      OBVIOUS
  <2>2. ~(y < x)
      BY <1>1, <2>1 DEF OpToRel
  <2> QED  BY <2>2
<1>3. \E m \in S : \A y \in S : m <= y
    BY <1>2
<1> QED  BY <1>3 DEF Minimum

-----------------------------------------------------------------------------
\* What the mailbox and the clocks of the loop hold.
MailboxTypeOK ==
    /\ _activity \in Records(ActivitySays) \cup {None}
    /\ _presence \in [Sources -> Records({"away", "present"}) \cup {None}]

ClockTypeOK ==
    /\ now \in Nat /\ now_ts \in Nat /\ wait_until \in Nat /\ chunk_until \in Nat
    /\ silent \in Nat /\ lag \in Nat
    /\ seen \in {"away", "present", None} /\ posted \in BOOLEAN

\* The loop sees two labels or none.
LEMMA LabelType ==
    ASSUME MailboxTypeOK, NEW t \in Nat
    PROVE  _coarse_presence(_activity, _presence, t) \in {"away", "present", None}
<1> DEFINE explicit == {_presence[s].says : s \in {x \in Sources : Fresh(_presence[x], t)}}
<1>1. Fresh(_activity, t) => _activity.says \in ActivitySays
    BY DEF MailboxTypeOK, Records, Fresh
<1>2. CASE "away" \in explicit
    BY <1>2 DEF _coarse_presence
<1>3. CASE "away" \notin explicit /\ explicit = {"present"}
    BY <1>3 DEF _coarse_presence
<1>4. CASE "away" \notin explicit /\ explicit # {"present"}
    BY <1>1, <1>4 DEF _coarse_presence, ActivitySays
<1> QED  BY <1>2, <1>3, <1>4

\* The next expiry is the first moment after which a fresh record is not.
LEMMA NextExpiry ==
    ASSUME MailboxTypeOK, NEW t \in Nat
    PROVE  /\ next_expiry_at(t) \subseteq Nat
           /\ \A e, f \in next_expiry_at(t) : e = f
           /\ \A e \in next_expiry_at(t) : e >= t
           /\ \A e \in next_expiry_at(t) :
                 /\ Fresh(_activity, t) => e <= _activity.received_at + _activity.ttl
                 /\ \A s \in Sources : Fresh(_presence[s], t) =>
                       e <= _presence[s].received_at + _presence[s].ttl
           /\ next_expiry_at(t) = {} =>
                 ~Fresh(_activity, t) /\ \A s \in Sources : ~Fresh(_presence[s], t)
<1> DEFINE records == {_presence[s] : s \in Sources} \cup {_activity}
           ends == {r.received_at + r.ttl : r \in {x \in records : Fresh(x, t)}}
<1>1. \A r \in records : Fresh(r, t) => r.received_at \in Nat /\ r.ttl \in Nat
    BY DEF MailboxTypeOK, Records, Fresh
<1>2. ends \subseteq Nat
    BY <1>1
<1>3. \A e \in ends : e >= t
    BY <1>1 DEF Fresh, expired
<1>4. next_expiry_at(t) = IF ends = {} THEN {} ELSE {Minimum(ends)}
    BY DEF next_expiry_at
<1>5. ends # {} => Minimum(ends) \in ends /\ \A y \in ends : Minimum(ends) <= y
    BY <1>2, MinimumOfNaturals
<1>6. Fresh(_activity, t) => _activity.received_at + _activity.ttl \in ends
    OBVIOUS
<1>7. \A s \in Sources : Fresh(_presence[s], t) =>
            _presence[s].received_at + _presence[s].ttl \in ends
    OBVIOUS
<1> HIDE DEF records, ends
<1>8. CASE ends = {}
  <2>1. next_expiry_at(t) = {}
      BY <1>4, <1>8
  <2> QED  BY <1>6, <1>7, <1>8, <2>1
<1>9. CASE ends # {}
  <2>1. next_expiry_at(t) = {Minimum(ends)}
      BY <1>4, <1>9
  <2>2. Minimum(ends) \in ends /\ Minimum(ends) \in Nat
      BY <1>2, <1>5, <1>9
  <2> QED  BY <1>3, <1>5, <1>6, <1>7, <1>9, <2>1, <2>2
<1> QED  BY <1>8, <1>9

\* Until the next expiry the label stays.
LEMMA LabelStays ==
    ASSUME MailboxTypeOK, NEW t \in Nat, NEW u \in Nat, t <= u,
           \A e \in next_expiry_at(t) : u <= e
    PROVE  _coarse_presence(_activity, _presence, u) = _coarse_presence(_activity, _presence, t)
<1>1. ASSUME NEW r, r = None \/ (r.received_at \in Nat /\ r.ttl \in Nat), Fresh(r, u)
      PROVE  Fresh(r, t)
    BY <1>1 DEF Fresh, expired
<1>2. \A s \in Sources : Fresh(_presence[s], u) <=> Fresh(_presence[s], t)
  <2> SUFFICES ASSUME NEW s \in Sources
               PROVE  Fresh(_presence[s], u) <=> Fresh(_presence[s], t)
      OBVIOUS
  <2>1. _presence[s] = None \/ (_presence[s].received_at \in Nat /\ _presence[s].ttl \in Nat)
      BY DEF MailboxTypeOK, Records
  <2>2. Fresh(_presence[s], t) => Fresh(_presence[s], u)
    <3>1. Fresh(_presence[s], t) =>
            \E e \in next_expiry_at(t) : e <= _presence[s].received_at + _presence[s].ttl
        BY NextExpiry
    <3>2. next_expiry_at(t) \subseteq Nat
        BY NextExpiry
    <3> QED  BY <2>1, <3>1, <3>2 DEF Fresh, expired
  <2> QED  BY <1>1, <2>1, <2>2
<1>3. Fresh(_activity, u) <=> Fresh(_activity, t)
  <2>1. _activity = None \/ (_activity.received_at \in Nat /\ _activity.ttl \in Nat)
      BY DEF MailboxTypeOK, Records
  <2>2. Fresh(_activity, t) => Fresh(_activity, u)
    <3>1. Fresh(_activity, t) =>
            \E e \in next_expiry_at(t) : e <= _activity.received_at + _activity.ttl
        BY NextExpiry
    <3>2. next_expiry_at(t) \subseteq Nat
        BY NextExpiry
    <3> QED  BY <2>1, <3>1, <3>2 DEF Fresh, expired
  <2> QED  BY <1>1, <2>1, <2>2
<1>4. {x \in Sources : Fresh(_presence[x], u)} = {x \in Sources : Fresh(_presence[x], t)}
    BY <1>2
<1> QED  BY <1>3, <1>4 DEF _coarse_presence

\* Pruning what has expired does not change the label.
LEMMA PruneKeepsLabel ==
    ASSUME NEW t, Prune(t)
    PROVE  _coarse_presence(_activity', _presence', t) = _coarse_presence(_activity, _presence, t)
<1>1. Fresh(_activity', t) <=> Fresh(_activity, t)
    BY DEF Prune, Fresh
<1>2. \A s \in Sources : Fresh(_presence'[s], t) <=> Fresh(_presence[s], t)
    BY DEF Prune, Fresh
<1>3. \A s \in Sources : Fresh(_presence[s], t) => _presence'[s] = _presence[s]
    BY DEF Prune
<1>4. {_presence'[s].says : s \in {x \in Sources : Fresh(_presence'[x], t)}}
      = {_presence[s].says : s \in {x \in Sources : Fresh(_presence[x], t)}}
    BY <1>2, <1>3
<1>5. Fresh(_activity, t) => _activity' = _activity
    BY DEF Prune
<1> QED  BY <1>1, <1>4, <1>5 DEF _coarse_presence

\* While nobody posts: the loop's label is right until the next expiry, and the
\* wait that is under way ends in time for the next turn to see it.
Settled ==
    /\ ExpiryNoticedInTime
    /\ loop = "wait" => chunk_until <= wait_until
    /\ ~posted /\ loop \in {"busy", "poll", "wait"} =>
          /\ seen = _coarse_presence(_activity, _presence, now_ts)
          /\ now_ts <= now /\ lag <= now - now_ts
          /\ next_expiry_at(now_ts) = {} => lag = 0
          /\ \A e \in next_expiry_at(now_ts) :
                /\ lag = 0 \/ lag <= now - e
                /\ loop # "busy" => wait_until <= now_ts + Larger(1, e - now_ts) + MaxTick

\* What the device has not heard, the turn or the part of a wait accounts for.
Heard ==
    /\ LinkKeptAlive
    /\ loop = "busy" => silent <= now - now_ts
    /\ loop = "poll" => silent = 0
    /\ loop = "wait" => chunk_until - now <= KEEPALIVE_INTERVAL - silent

TimingInv == MailboxTypeOK /\ ClockTypeOK /\ Settled /\ Heard

\* What is computed from the mailbox changes with the mailbox only.
LEMMA MailboxUnchanged ==
    ASSUME UNCHANGED <<mailbox, now_ts>>
    PROVE  /\ next_expiry_at(now_ts)' = next_expiry_at(now_ts)
           /\ _coarse_presence(_activity, _presence, now_ts)'
                = _coarse_presence(_activity, _presence, now_ts)
           /\ MailboxTypeOK => MailboxTypeOK'
BY DEF mailbox, next_expiry_at, _coarse_presence, MailboxTypeOK

\* A part of a wait is no longer than it may be and ends with the wait at most.
LEMMA ChunkIsShort ==
    ASSUME NEW t \in Nat, wait_until \in Nat, StartChunk(t)
    PROVE  /\ chunk_until' \in Nat /\ chunk_until' <= wait_until
           /\ chunk_until' <= t + KEEPALIVE_INTERVAL
<1>1. {t + KEEPALIVE_INTERVAL, wait_until} \subseteq Nat
    BY PresenceWakeAssumption
<1> QED  BY <1>1, MinimumOfNaturals DEF StartChunk

\* At the start there is nothing to notice.
LEMMA InitTimingInv == Init => TimingInv
<1> SUFFICES ASSUME Init PROVE TimingInv
    OBVIOUS
<1>1. MailboxTypeOK /\ ClockTypeOK
    BY DEF Init, MailboxTypeOK, ClockTypeOK
<1>2. loop = "top" /\ lag = 0 /\ silent = 0
    BY DEF Init
<1>3. Settled /\ Heard
    BY <1>2, PresenceWakeAssumption
    DEF Settled, Heard, ExpiryNoticedInTime, LinkKeptAlive, Larger
<1> QED  BY <1>1, <1>3 DEF TimingInv

\* A step of a handler or of the queue leaves the loop's clocks alone.
LEMMA OthersKeepTiming ==
    ASSUME TimingInv, UNCHANGED <<now, loop_vars, lag, seen>>, MailboxTypeOK',
           posted' = TRUE \/ UNCHANGED <<mailbox, posted>>
    PROVE  TimingInv'
<1> USE DEF TimingInv, loop_vars
<1>1. ClockTypeOK'
    BY DEF ClockTypeOK
<1>2. Heard'
    BY DEF Heard, LinkKeptAlive
<1>3. Settled'
  <2>1. CASE posted'
      BY <2>1 DEF Settled, ExpiryNoticedInTime
  <2>2. CASE UNCHANGED <<mailbox, posted>>
      BY <2>2, MailboxUnchanged DEF Settled, ExpiryNoticedInTime
  <2> QED  BY <2>1, <2>2, <1>1 DEF ClockTypeOK
<1> QED  BY <1>1, <1>2, <1>3

\* A post is a record like any other.
LEMMA PostsAreRecords ==
    ASSUME TimingInv, NEW h \in Handlers,
           \/ \E s \in Sources, says \in {"away", "present"}, ttl \in Ttls :
                 PostPresence(h, s, says, ttl)
           \/ \E says \in ActivitySays, ttl \in ActivityTtls : PostActivity(h, says, ttl)
    PROVE  MailboxTypeOK'
<1>1. now \in Nat /\ MailboxTypeOK
    BY DEF TimingInv, ClockTypeOK
<1>2. ASSUME NEW s \in Sources, NEW says \in {"away", "present"}, NEW ttl \in Ttls,
             PostPresence(h, s, says, ttl)
      PROVE  MailboxTypeOK'
  <2>1. [says |-> says, received_at |-> now, ttl |-> ttl] \in Records({"away", "present"})
      BY <1>1, PresenceWakeAssumption DEF Records
  <2> QED  BY <1>1, <1>2, <2>1 DEF PostPresence, MailboxTypeOK
<1>3. ASSUME NEW says \in ActivitySays, NEW ttl \in ActivityTtls, PostActivity(h, says, ttl)
      PROVE  MailboxTypeOK'
  <2>1. [says |-> says, received_at |-> now, ttl |-> ttl] \in Records(ActivitySays)
      BY <1>1, PresenceWakeAssumption DEF Records
  <2> QED  BY <1>1, <1>3, <2>1 DEF PostActivity, MailboxTypeOK
<1> QED  BY <1>2, <1>3

\* Every step keeps the timing.
LEMMA StepTimingInv == IInv /\ UnreadInv /\ TimingInv /\ [Next]_vars => TimingInv'
<1> SUFFICES ASSUME IInv, UnreadInv, TimingInv, [Next]_vars PROVE TimingInv'
    OBVIOUS
<1>0. /\ MailboxTypeOK /\ ClockTypeOK /\ Settled /\ Heard /\ ClockInv
      /\ MaxTick \in Nat /\ KEEPALIVE_INTERVAL \in Nat \ {0}
    BY PresenceWakeAssumption DEF TimingInv, UnreadInv
<1>1. ASSUME NEW h \in Handlers,
             \/ \E s \in Sources, says \in {"away", "present"}, ttl \in Ttls :
                   PostPresence(h, s, says, ttl)
             \/ \E says \in ActivitySays, ttl \in ActivityTtls : PostActivity(h, says, ttl)
      PROVE  TimingInv'
  <2>1. UNCHANGED <<now, loop_vars, lag, seen>> /\ posted' = TRUE
      BY <1>1 DEF PostPresence, PostActivity, AfterSet
  <2>2. MailboxTypeOK'
      BY <1>1, PostsAreRecords
  <2> QED  BY <2>1, <2>2, OthersKeepTiming
<1>2. ASSUME UNCHANGED <<now, mailbox, loop_vars, history>> PROVE TimingInv'
  <2>1. MailboxTypeOK'
      BY <1>0, <1>2, MailboxUnchanged DEF loop_vars
  <2> QED  BY <1>2, <2>1, OthersKeepTiming DEF history
<1>3. ASSUME UNCHANGED <<now, mailbox, silent, history>>, now_ts' \in Nat, wait_until' \in Nat,
             chunk_until' \in Nat, loop' \in {"top", "get", "consume"}
      PROVE  TimingInv'
  <2>1. MailboxTypeOK' /\ ClockTypeOK'
      BY <1>0, <1>3 DEF mailbox, history, MailboxTypeOK, ClockTypeOK
  <2>2. Settled' /\ Heard'
      BY <1>0, <1>3 DEF history, Settled, Heard, ExpiryNoticedInTime, LinkKeptAlive
  <2> QED  BY <2>1, <2>2 DEF TimingInv
<1>4. CASE BeginTick \/ TakeItem \/ WaitEnds \/ Consume
    BY <1>0, <1>3, <1>4 DEF BeginTick, TakeItem, WaitEnds, Consume, ClockTypeOK
<1>5. CASE ReadMailbox
  <2>1. /\ Prune(now_ts) /\ loop = "get" /\ loop' = "busy" /\ silent' = 0 /\ lag' = 0
        /\ posted' = FALSE /\ UNCHANGED <<now, now_ts, wait_until, chunk_until>>
        /\ seen' = _coarse_presence(_activity, _presence, now_ts)
      BY <1>5 DEF ReadMailbox
  <2>2. MailboxTypeOK'
      BY <1>0, <2>1 DEF Prune, MailboxTypeOK
  <2>3. ClockTypeOK'
      BY <1>0, <2>1, LabelType DEF ClockTypeOK
  <2>4. seen' = _coarse_presence(_activity, _presence, now_ts)'
      BY <2>1, PruneKeepsLabel DEF _coarse_presence, Fresh
  <2>5. now' = now_ts'
      BY <1>0, <2>1 DEF ClockInv
  <2>6. Settled'
      BY <1>0, <2>1, <2>3, <2>4, <2>5 DEF Settled, ExpiryNoticedInTime, ClockTypeOK
  <2>7. Heard'
      BY <1>0, <2>1, <2>3, <2>5 DEF Heard, LinkKeptAlive, Larger, ClockTypeOK
  <2> QED  BY <2>2, <2>3, <2>6, <2>7 DEF TimingInv
<1>6. CASE EndTick
  <2>1. /\ loop = "busy" /\ loop' = "poll" /\ silent' = 0
        /\ UNCHANGED <<now, mailbox, now_ts, chunk_until, history>>
      BY <1>6 DEF EndTick
  <2>2. PICK interval \in Intervals :
            wait_until' = now + Minimum({interval} \cup
                {Larger(1, expiry - now_ts) : expiry \in next_expiry_at(now_ts)})
      BY <1>6 DEF EndTick
  <2> DEFINE waits == {interval} \cup
                {Larger(1, expiry - now_ts) : expiry \in next_expiry_at(now_ts)}
  <2>3. next_expiry_at(now_ts) \subseteq Nat /\ now \in Nat /\ now_ts \in Nat
      BY <1>0, NextExpiry DEF ClockTypeOK
  <2>4. waits \subseteq Nat /\ waits # {}
      BY <2>3, PresenceWakeAssumption DEF Larger
  <2>5. Minimum(waits) \in Nat /\ \A w \in waits : Minimum(waits) <= w
      BY <2>4, MinimumOfNaturals
  <2>6. wait_until' \in Nat
      BY <2>2, <2>3, <2>5
  <2>7. \A e \in next_expiry_at(now_ts) : wait_until' <= now + Larger(1, e - now_ts)
    <3> SUFFICES ASSUME NEW e \in next_expiry_at(now_ts)
                 PROVE  wait_until' <= now + Larger(1, e - now_ts)
        OBVIOUS
    <3>1. Larger(1, e - now_ts) \in waits
        OBVIOUS
    <3>2. Larger(1, e - now_ts) \in Nat
        BY <2>4, <3>1
    <3> QED  BY <2>2, <2>3, <2>5, <3>1, <3>2
  <2>8. MailboxTypeOK' /\ ClockTypeOK'
      BY <1>0, <2>1, <2>6 DEF mailbox, history, MailboxTypeOK, ClockTypeOK
  <2>9. now <= now_ts + MaxTick
      BY <1>0, <2>1 DEF ClockInv
  <2>10. Settled'
    <3>1. /\ next_expiry_at(now_ts)' = next_expiry_at(now_ts)
          /\ _coarse_presence(_activity, _presence, now_ts)'
               = _coarse_presence(_activity, _presence, now_ts)
        BY <2>1, MailboxUnchanged
    <3>2. \A e \in next_expiry_at(now_ts) : wait_until' <= now_ts + Larger(1, e - now_ts) + MaxTick
        BY <1>0, <2>3, <2>6, <2>7, <2>9 DEF Larger
    <3> QED  BY <1>0, <2>1, <3>1, <3>2 DEF Settled, ExpiryNoticedInTime, history
  <2>11. Heard'
      BY <1>0, <2>1 DEF Heard, LinkKeptAlive, Larger
  <2> QED  BY <2>8, <2>10, <2>11 DEF TimingInv
<1>7. ASSUME NEW t \in Nat, t <= now, StartChunk(t), loop \in {"poll", "wait"}, loop' = "wait",
             silent' = 0, UNCHANGED <<now, mailbox, now_ts, wait_until, history>>
      PROVE  TimingInv'
  <2>1. /\ chunk_until' \in Nat /\ chunk_until' <= wait_until
        /\ chunk_until' <= t + KEEPALIVE_INTERVAL
      BY <1>0, <1>7, ChunkIsShort DEF ClockTypeOK
  <2>2. MailboxTypeOK' /\ ClockTypeOK'
      BY <1>0, <1>7, <2>1 DEF mailbox, history, MailboxTypeOK, ClockTypeOK
  <2>3. Settled'
    <3>1. /\ next_expiry_at(now_ts)' = next_expiry_at(now_ts)
          /\ _coarse_presence(_activity, _presence, now_ts)'
               = _coarse_presence(_activity, _presence, now_ts)
        BY <1>7, MailboxUnchanged
    <3> QED  BY <1>0, <1>7, <2>1, <3>1 DEF Settled, ExpiryNoticedInTime, history
  <2>4. Heard'
    <3>1. now \in Nat /\ KEEPALIVE_INTERVAL \in Nat /\ chunk_until' \in Nat
        BY <1>0, <2>1 DEF ClockTypeOK
    <3>5. chunk_until' <= now + KEEPALIVE_INTERVAL
        BY <1>0, <1>7, <2>1, <3>1
    <3>2. silent' = 0 /\ now' = now /\ loop' = "wait"
        BY <1>7
    <3>3. chunk_until' - now' <= KEEPALIVE_INTERVAL - silent'
      <4>1. ASSUME NEW a \in Nat, NEW b \in Nat, NEW c \in Nat, a <= b + c PROVE a - b <= c - 0
          BY <4>1
      <4>2. chunk_until' - now <= KEEPALIVE_INTERVAL - 0
          BY <3>1, <3>5, <4>1
      <4> QED  BY <3>2, <4>2, Zenon
    <3>4. LinkKeptAlive'
        BY <1>0, <3>2 DEF LinkKeptAlive, Larger
    <3> QED  BY <3>2, <3>3, <3>4 DEF Heard
  <2> QED  BY <2>2, <2>3, <2>4 DEF TimingInv
<1>8. CASE PollFindsNone
    BY <1>0, <1>7, <1>8 DEF PollFindsNone, ClockTypeOK, Heard
<1>9. CASE ChunkEnds
  <2>1. /\ StartChunk(chunk_until) /\ chunk_until <= now /\ loop = "wait" /\ loop' = "wait"
        /\ silent' = 0 /\ UNCHANGED <<now, mailbox, now_ts, wait_until, history>>
      BY <1>0, <1>9 DEF ChunkEnds, ClockTypeOK
  <2>2. chunk_until \in Nat
      BY <1>0 DEF ClockTypeOK
  <2> QED  BY <1>7, <2>1, <2>2
<1>10. CASE Tick
  <2>1. /\ now' = now + 1 /\ silent' = silent + 1
        /\ UNCHANGED <<mailbox, loop, now_ts, wait_until, chunk_until, seen, posted>>
        /\ lag' = IF _coarse_presence(_activity, _presence, now + 1) # seen THEN lag + 1 ELSE 0
        /\ \/ loop = "busy" /\ now < now_ts + MaxTick
           \/ loop = "wait" /\ now < chunk_until
      BY <1>10 DEF Tick
  <2>2. MailboxTypeOK' /\ ClockTypeOK'
      BY <1>0, <2>1 DEF mailbox, MailboxTypeOK, ClockTypeOK
  <2>3. Heard'
      BY <1>0, <2>1 DEF Heard, LinkKeptAlive, Larger, ClockTypeOK
  <2>4. /\ next_expiry_at(now_ts)' = next_expiry_at(now_ts)
        /\ _coarse_presence(_activity, _presence, now_ts)'
             = _coarse_presence(_activity, _presence, now_ts)
      BY <2>1, MailboxUnchanged
  <2>5. CASE posted
    <3>1. posted' /\ (loop' = "wait" => chunk_until' <= wait_until')
      <4>1. loop = "wait" => chunk_until <= wait_until
          BY <1>0 DEF Settled
      <4> QED  BY <2>1, <2>5, <4>1
    <3>2. Settled'
        BY <3>1 DEF Settled, ExpiryNoticedInTime
    <3> QED  BY <2>2, <2>3, <3>2 DEF TimingInv
  <2>6. CASE ~posted /\ _coarse_presence(_activity, _presence, now + 1) = seen
    <3>1. lag' = 0
        BY <2>1, <2>6
    <3>2. ExpiryNoticedInTime'
        BY <1>0, <3>1 DEF ExpiryNoticedInTime
    <3>3. now \in Nat /\ now_ts \in Nat /\ now' = now + 1 /\ now_ts' = now_ts
        BY <1>0, <2>1 DEF ClockTypeOK
    <3>4. /\ loop' = loop /\ (loop' = "wait" => chunk_until' <= wait_until')
          /\ wait_until' = wait_until /\ posted' = posted /\ seen' = seen
        BY <1>0, <2>1 DEF Settled
    <3>5. /\ loop \in {"busy", "poll", "wait"}
          /\ seen = _coarse_presence(_activity, _presence, now_ts) /\ now_ts <= now
          /\ \A e \in next_expiry_at(now_ts) :
                loop # "busy" => wait_until <= now_ts + Larger(1, e - now_ts) + MaxTick
        BY <1>0, <2>1, <2>6 DEF Settled
    <3>6. now_ts' <= now' /\ lag' <= now' - now_ts'
        BY <3>1, <3>3, <3>5
    <3>7. \A e \in next_expiry_at(now_ts) :
              loop' # "busy" => wait_until' <= now_ts' + Larger(1, e - now_ts') + MaxTick
      <4> SUFFICES ASSUME NEW e \in next_expiry_at(now_ts), loop' # "busy"
                   PROVE  wait_until' <= now_ts' + Larger(1, e - now_ts') + MaxTick
          OBVIOUS
      <4>1. wait_until <= now_ts + Larger(1, e - now_ts) + MaxTick
          BY <3>4, <3>5
      <4>2. wait_until' = wait_until /\ now_ts' = now_ts
          BY <3>3, <3>4
      <4> QED  BY <4>1, <4>2, Zenon
    <3>8. Settled'
      <4>1. seen' = _coarse_presence(_activity, _presence, now_ts)'
          BY <2>4, <3>4, <3>5
      <4>2. \A e \in next_expiry_at(now_ts)' :
                loop' # "busy" => wait_until' <= now_ts' + Larger(1, e - now_ts') + MaxTick
          BY <2>4, <3>7
      <4> QED  BY <3>1, <3>2, <3>4, <3>6, <4>1, <4>2, Zenon DEF Settled
    <3> QED  BY <2>2, <2>3, <3>8 DEF TimingInv
  <2>7. CASE ~posted /\ _coarse_presence(_activity, _presence, now + 1) # seen
    <3>1. /\ seen = _coarse_presence(_activity, _presence, now_ts)
          /\ now_ts <= now /\ lag <= now - now_ts /\ lag' = lag + 1
        BY <1>0, <2>1, <2>7 DEF Settled
    <3>2. now \in Nat /\ now_ts \in Nat /\ lag \in Nat /\ wait_until \in Nat
        BY <1>0 DEF ClockTypeOK
    <3>3. PICK e \in next_expiry_at(now_ts) : ~(now + 1 <= e)
      <4>1. now + 1 \in Nat /\ now_ts <= now + 1
          BY <3>1, <3>2
      <4> QED  BY <1>0, <2>7, <3>1, <3>2, <4>1, LabelStays
    <3>4. e \in Nat /\ e >= now_ts /\ \A f \in next_expiry_at(now_ts) : f = e
        BY <1>0, <3>2, <3>3, NextExpiry
    <3>5. lag' <= now' - e
        BY <1>0, <2>1, <2>7, <3>1, <3>2, <3>3, <3>4 DEF Settled
    <3>6. ExpiryNoticedInTime'
      <4>1. CASE loop = "busy"
          BY <1>0, <2>1, <3>1, <3>2, <4>1 DEF ExpiryNoticedInTime
      <4>2. CASE loop = "wait"
        <5>1. now + 1 <= wait_until
            BY <1>0, <2>1, <3>2, <4>2 DEF Settled, ClockTypeOK
        <5>2. wait_until <= now_ts + Larger(1, e - now_ts) + MaxTick
            BY <1>0, <2>7, <3>3, <4>2 DEF Settled
        <5> QED  BY <1>0, <2>1, <3>2, <3>4, <3>5, <5>1, <5>2 DEF ExpiryNoticedInTime, Larger
      <4> QED  BY <2>1, <4>1, <4>2
    <3>7. lag' <= now' - now_ts'
        BY <2>1, <3>1, <3>2
    <3>8. now_ts' <= now'
        BY <2>1, <3>1, <3>2
    <3>9. \A f \in next_expiry_at(now_ts) : lag' <= now' - f
        BY <3>4, <3>5
    <3>10. Settled'
        BY <1>0, <2>1, <2>4, <2>7, <3>1, <3>3, <3>6, <3>7, <3>8, <3>9 DEF Settled
    <3> QED  BY <2>2, <2>3, <3>10 DEF TimingInv
  <2>8. Settled' => TimingInv'
      BY <2>2, <2>3 DEF TimingInv
  <2> QED  BY <2>5, <2>6, <2>7, <2>8
<1>11. CASE UNCHANGED vars
    BY <1>2, <1>11 DEF vars
<1>12. ASSUME NEW h \in Handlers, SubmitPresence(h) \/ PutPresence(h) PROVE TimingInv'
    BY <1>2, <1>12 DEF SubmitPresence, PutPresence
<1>13. CASE SubmitOther
    BY <1>2, <1>13 DEF SubmitOther
<1> QED
    BY <1>1, <1>4, <1>5, <1>6, <1>8, <1>9, <1>10, <1>11, <1>12, <1>13 DEF Next

\* Every variable keeps its type.
THEOREM TypeCorrect == Spec => []TypeOK
<1>1. IInv /\ UnreadInv /\ TimingInv => TypeOK
    BY DEF IInv, UnreadInv, ClockInv, TimingInv, MailboxTypeOK, ClockTypeOK, TypeOK
<1> QED
    BY <1>1, InitIInv, StepIInv, InitUnreadInv, StepUnreadInv, InitTimingInv, StepTimingInv, PTL
    DEF Spec

\* While nobody posts, a label that changes because a record has gone stale is
\* read within one turn and the shortest wait.
THEOREM ExpiriesAreNoticed == Spec => []ExpiryNoticedInTime
<1>1. TimingInv => ExpiryNoticedInTime
    BY DEF TimingInv, Settled
<1> QED
    BY <1>1, InitIInv, StepIInv, InitUnreadInv, StepUnreadInv, InitTimingInv, StepTimingInv, PTL
    DEF Spec

\* The device is never sent nothing for longer than a part of a wait, or than the
\* longest turn.
THEOREM LinkStaysAlive == Spec => []LinkKeptAlive
<1>1. TimingInv => LinkKeptAlive
    BY DEF TimingInv, Heard
<1> QED
    BY <1>1, InitIInv, StepIInv, InitUnreadInv, StepUnreadInv, InitTimingInv, StepTimingInv, PTL
    DEF Spec

=============================================================================
