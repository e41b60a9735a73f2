-------------------------- MODULE TouchClassifier --------------------------
(***************************************************************************)
(* The tap / hold / doubletap state machine of device/touch/src/lib.rs.    *)
(* touch_task polls the TTP223 pad and calls update(pressed, now_ms) on    *)
(* every sample.  One step of this module is one such call, made of the    *)
(* debouncer and exactly one of on_press, on_release and on_tick.          *)
(*                                                                         *)
(* Times are milliseconds since boot (u64 in the code, which cannot wrap   *)
(* in the life of a device).  The pad level and the time between two       *)
(* samples are inputs.                                                     *)
(***************************************************************************)
EXTENDS Integers

CONSTANTS
    DEBOUNCE_MS,            \* stable time before an edge is accepted
    HOLD_MS,                \* shortest press reported as a hold
    DOUBLETAP_WINDOW_MS,    \* how long a tap waits for a second press
    MIN_EVENT_GAP_MS,       \* rate limit of tap and doubletap
    HOLD_DURATION_MAX_MS,   \* cap of a reported hold duration
    SampleGaps,             \* possible times between two samples
    MaxNow                  \* bound of the explored time

\* The code has 40, 700, 400, 250 and 60000; what the properties need of
\* these numbers is that the doubletap window covers the rate limit.
ASSUME ConstantsAssumption ==
    /\ DEBOUNCE_MS \in Nat /\ HOLD_MS \in Nat /\ MaxNow \in Nat
    /\ DOUBLETAP_WINDOW_MS \in Nat \ {0} /\ MIN_EVENT_GAP_MS \in Nat
    /\ HOLD_DURATION_MAX_MS \in Nat
    /\ MIN_EVENT_GAP_MS <= DOUBLETAP_WINDOW_MS
    /\ SampleGaps \subseteq Nat

VARIABLES
    initialized, raw_level, raw_since_ms, stable_level,   \* debouncer
    phase,          \* which Phase the gesture machine is in
    phase_ms,       \* start_ms of FirstDown, released_ms of WaitSecond
    last_emit_ms, last_emit_valid,                        \* rate limiter
    now_ms,         \* the time of the last sample
    emitted         \* what the last update returned

\* History, read by the properties only: the time of the last accepted edge,
\* of the last tap or doubletap (-1 when there was none), and the contacts
\* accepted so far that no gesture has accounted for.
VARIABLES last_edge_ms, last_burst_ms, unclaimed

debounce_vars == <<initialized, raw_level, raw_since_ms, stable_level>>
rate_vars == <<last_emit_ms, last_emit_valid>>
touch_vars == <<debounce_vars, phase, phase_ms, rate_vars, now_ms, emitted,
                last_edge_ms, last_burst_ms, unclaimed>>

Phases == {"Idle", "FirstDown", "WaitSecond", "DrainRelease"}

NoGesture == [kind |-> "none", duration_ms |-> 0]
Tap       == [kind |-> "tap", duration_ms |-> 0]
DoubleTap == [kind |-> "doubletap", duration_ms |-> 0]
Hold(d)   == [kind |-> "hold", duration_ms |-> d]

Gestures == [kind : {"none", "tap", "doubletap", "hold"},
             duration_ms : 0..HOLD_DURATION_MAX_MS]

saturating_sub(a, b) == IF a > b THEN a - b ELSE 0

clamp_duration(d) == IF d > HOLD_DURATION_MAX_MS THEN HOLD_DURATION_MAX_MS ELSE d

-----------------------------------------------------------------------------
(***************************************************************************)
(* The debouncer.  A sample is the seed, an accepted edge, or neither.     *)
(***************************************************************************)
RawSince(pressed, t) == IF pressed # raw_level THEN t ELSE raw_since_ms

IsEdge(pressed, t) ==
    /\ initialized
    /\ pressed # stable_level
    /\ saturating_sub(t, RawSince(pressed, t)) >= DEBOUNCE_MS

debounce(pressed, t) ==
    /\ initialized' = TRUE
    /\ raw_level' = pressed
    /\ raw_since_ms' = IF initialized THEN RawSince(pressed, t) ELSE t
    /\ stable_level' = IF ~initialized \/ IsEdge(pressed, t)
                       THEN pressed ELSE stable_level

-----------------------------------------------------------------------------
(***************************************************************************)
(* Emission.  A hold bypasses the rate limiter and resets its baseline; a  *)
(* rate-limited gesture leaves the baseline alone.                         *)
(***************************************************************************)
emit(gesture, t) ==
    /\ emitted' = gesture
    /\ last_emit_ms' = t
    /\ last_emit_valid' = TRUE

emit_nothing ==
    /\ emitted' = NoGesture
    /\ UNCHANGED rate_vars

RateLimited(t) ==
    last_emit_valid /\ saturating_sub(t, last_emit_ms) < MIN_EVENT_GAP_MS

emit_limited(gesture, t) ==
    IF RateLimited(t) THEN emit_nothing ELSE emit(gesture, t)

EnterPhase(p, t) == phase' = p /\ phase_ms' = t

InWindow(t) == saturating_sub(t, phase_ms) < DOUBLETAP_WINDOW_MS

\* Mutants of on_press: the pending tap of an expired window is forgotten; the
\* fresh press that follows it is timed from the old release.
on_press_forgets_tap(t) ==
    CASE phase = "WaitSecond" /\ InWindow(t) ->
            EnterPhase("DrainRelease", 0) /\ emit_limited(DoubleTap, t)
      [] phase \in {"Idle", "WaitSecond"} /\ ~(phase = "WaitSecond" /\ InWindow(t)) ->
            EnterPhase("FirstDown", t) /\ emit_nothing
      [] OTHER ->
            UNCHANGED <<phase, phase_ms>> /\ emit_nothing

\* An accepted Down edge.
on_press(t) ==
    CASE phase = "Idle" ->
            EnterPhase("FirstDown", t) /\ emit_nothing
      [] phase = "WaitSecond" /\ InWindow(t) ->
            EnterPhase("DrainRelease", 0) /\ emit_limited(DoubleTap, t)
      [] phase = "WaitSecond" /\ ~InWindow(t) ->
            EnterPhase("FirstDown", t) /\ emit_limited(Tap, t)
      [] OTHER ->
            UNCHANGED <<phase, phase_ms>> /\ emit_nothing

\* An accepted Up edge.
on_release(t) ==
    LET duration == saturating_sub(t, phase_ms)
    IN  CASE phase = "FirstDown" /\ duration >= HOLD_MS ->
                EnterPhase("Idle", 0) /\ emit(Hold(clamp_duration(duration)), t)
          [] phase = "FirstDown" /\ duration < HOLD_MS ->
                EnterPhase("WaitSecond", t) /\ emit_nothing
          [] phase = "DrainRelease" ->
                EnterPhase("Idle", 0) /\ emit_nothing
          [] OTHER ->
                UNCHANGED <<phase, phase_ms>> /\ emit_nothing

\* Mutant of on_tick: the tap is emitted without waiting for its window.
on_tick_no_window(t) ==
    IF phase = "WaitSecond"
    THEN EnterPhase("Idle", 0) /\ emit_limited(Tap, t)
    ELSE UNCHANGED <<phase, phase_ms>> /\ emit_nothing

\* A sample without an edge.
on_tick(t) ==
    IF phase = "WaitSecond" /\ ~InWindow(t)
    THEN EnterPhase("Idle", 0) /\ emit_limited(Tap, t)
    ELSE UNCHANGED <<phase, phase_ms>> /\ emit_nothing

-----------------------------------------------------------------------------
\* Contacts accounted for by the gesture this step returned.  A rate-limited
\* doubletap accounts for its two contacts although nothing is returned.
Claimed ==
    CASE emitted'.kind \in {"tap", "hold"} -> 1
      [] phase # "DrainRelease" /\ phase' = "DrainRelease" -> 2
      [] OTHER -> 0

Remember(edge, down, t) ==
    /\ last_edge_ms' = IF edge THEN t ELSE last_edge_ms
    /\ last_burst_ms' = IF emitted'.kind \in {"tap", "doubletap"}
                        THEN t ELSE last_burst_ms
    /\ unclaimed' = unclaimed + (IF edge /\ down THEN 1 ELSE 0) - Claimed

UpdatePress(t) ==
    /\ IsEdge(TRUE, t)
    /\ debounce(TRUE, t)
    /\ on_press(t)
    /\ Remember(TRUE, TRUE, t)

UpdateRelease(t) ==
    /\ IsEdge(FALSE, t)
    /\ debounce(FALSE, t)
    /\ on_release(t)
    /\ Remember(TRUE, FALSE, t)

UpdateTick(pressed, t) ==
    /\ ~IsEdge(pressed, t)
    /\ debounce(pressed, t)
    /\ on_tick(t)
    /\ Remember(FALSE, FALSE, t)

\* One call of update, gap milliseconds after the previous one.
Update(gap) ==
    /\ now_ms + gap <= MaxNow
    /\ now_ms' = now_ms + gap
    /\ \/ UpdatePress(now_ms + gap)
       \/ UpdateRelease(now_ms + gap)
       \/ \E pressed \in BOOLEAN : UpdateTick(pressed, now_ms + gap)

TouchInit ==
    /\ initialized = FALSE /\ raw_level = FALSE /\ raw_since_ms = 0
    /\ stable_level = FALSE
    /\ phase = "Idle" /\ phase_ms = 0
    /\ last_emit_ms = 0 /\ last_emit_valid = FALSE
    /\ now_ms = 0 /\ emitted = NoGesture
    /\ last_edge_ms = 0 /\ last_burst_ms = -1 /\ unclaimed = 0

TouchNext == \E gap \in SampleGaps : Update(gap)

TouchSpec == TouchInit /\ [][TouchNext]_touch_vars

-----------------------------------------------------------------------------
\* Every field keeps its type; times are never in the future.
TouchTypeOK ==
    /\ initialized \in BOOLEAN /\ raw_level \in BOOLEAN
    /\ stable_level \in BOOLEAN /\ last_emit_valid \in BOOLEAN
    /\ now_ms \in Nat
    /\ raw_since_ms \in 0..now_ms /\ phase_ms \in 0..now_ms
    /\ last_emit_ms \in 0..now_ms /\ last_edge_ms \in 0..now_ms
    /\ last_burst_ms \in -1..now_ms
    /\ phase \in Phases
    /\ emitted \in Gestures
    /\ unclaimed \in Int

\* The gesture machine and the debouncer agree: it believes a contact is in
\* progress only while the debounced level is high, and waits for a second
\* press only while it is low.  So "a down edge while already pressed should
\* not happen with debounce" is true of on_press, and the "spurious release"
\* of on_release can only be that of a contact the device booted with.
PhaseMatchesContact ==
    /\ phase \in {"FirstDown", "DrainRelease"} => stable_level
    /\ phase = "WaitSecond" => ~stable_level

\* Every accepted contact is accounted for by exactly one gesture (or by one
\* rate-limited doubletap): what is still unaccounted for is the contact in
\* progress or the tap waiting for its window, never more and never less.
EveryContactClaimedOnce ==
    unclaimed = IF phase \in {"FirstDown", "WaitSecond"} THEN 1 ELSE 0

\* A tap is decided on the first sample at or after the end of its window:
\* after no call of update is an expired tap still pending.
TapDecidedInTime ==
    phase = "WaitSecond" => now_ms - phase_ms < DOUBLETAP_WINDOW_MS

\* The rate limiter never swallows a pending tap: a WaitSecond phase is left
\* with a tap, unless by a second press inside the window (whose doubletap
\* may be rate-limited).  "so it is never silently lost".
KeepsPendingTap ==
    (phase = "WaitSecond" /\ phase' # "WaitSecond" /\ emitted'.kind # "tap")
        => phase' = "DrainRelease" /\ now_ms' - phase_ms < DOUBLETAP_WINDOW_MS
PendingTapNeverLost == [][KeepsPendingTap]_touch_vars

\* "contact bounce never produces a gesture": two changes of the debounced
\* level are at least DEBOUNCE_MS apart, whatever the pad does in between.
\* The seed, which is not an edge, is exempt.
DebouncesEdge ==
    (initialized /\ stable_level' # stable_level)
        => now_ms' - last_edge_ms >= DEBOUNCE_MS
EdgesAreDebounced == [][DebouncesEdge]_touch_vars

\* A hold is reported on the release of its own contact and carries that
\* contact's whole (capped) duration, which reached HOLD_MS.
SpansContact ==
    emitted'.kind = "hold"
        => /\ stable_level /\ ~stable_level'
           /\ now_ms' - last_edge_ms >= HOLD_MS
           /\ emitted'.duration_ms = clamp_duration(now_ms' - last_edge_ms)
HoldSpansItsContact == [][SpansContact]_touch_vars

\* Two tap or doubletap events are at least MIN_EVENT_GAP_MS apart, holds in
\* between notwithstanding.
SpacesBurst ==
    (emitted'.kind \in {"tap", "doubletap"} /\ last_burst_ms # -1)
        => now_ms' - last_burst_ms >= MIN_EVENT_GAP_MS
BurstsAreSpaced == [][SpacesBurst]_touch_vars

=============================================================================
