---------------------------- MODULE DeviceProofs ----------------------------
(***************************************************************************)
(* A gesture from the pad to the wire.                                     *)
(*                                                                         *)
(* TouchClassifier: for every value of the constants allowed by            *)
(* ConstantsAssumption, and for unbounded time (MaxNow is any natural      *)
(* number), its properties hold.  They rest on one inductive invariant,    *)
(* TouchInv.                                                               *)
(*                                                                         *)
(* DeviceLink: a gesture has one fate.  It is uplinked once, in order, on  *)
(* the connection it was made on, or it is acknowledged on the device,     *)
(* never both.  For queues and socket buffers of any size, any number of   *)
(* gestures and connections.                                               *)
(***************************************************************************)
EXTENDS TouchClassifier, DeviceLink, FiniteSetTheorems, TLAPS

-----------------------------------------------------------------------------
(***************************************************************************)
(* The classifier.                                                         *)
(***************************************************************************)
\* How the recorded times relate.  A level that differs from the debounced
\* one appeared after the last edge; a pending tap was released after the
\* last emission, so the rate limit is over when its window is; a press in
\* progress is timed from the last edge; the rate limiter's baseline is at
\* least as late as the last tap or doubletap.
Timing ==
    /\ raw_level # stable_level => raw_since_ms >= last_edge_ms
    /\ phase = "WaitSecond" => last_emit_ms <= phase_ms
    /\ phase = "FirstDown" => phase_ms = last_edge_ms
    /\ last_burst_ms # -1 => last_emit_valid /\ last_burst_ms <= last_emit_ms

\* Before the seed the gesture machine is idle, so the seed may set the
\* debounced level to anything.
SeedInv == ~initialized => phase = "Idle" /\ raw_level = stable_level

TouchInv ==
    /\ TouchTypeOK
    /\ SeedInv
    /\ Timing
    /\ PhaseMatchesContact
    /\ EveryContactClaimedOnce
    /\ TapDecidedInTime

-----------------------------------------------------------------------------
\* The initial state satisfies the inductive invariant: new() of lib.rs.
LEMMA TouchInvInit == TouchInit => TouchInv
<1> SUFFICES ASSUME TouchInit PROVE TouchInv
    OBVIOUS
<1>1. NoGesture \in Gestures
    BY ConstantsAssumption DEF ConstantsAssumption, NoGesture, Gestures
<1>2. TouchTypeOK
  <2>1. /\ initialized \in BOOLEAN /\ raw_level \in BOOLEAN
        /\ stable_level \in BOOLEAN /\ last_emit_valid \in BOOLEAN
    BY DEF TouchInit
  <2>2. /\ now_ms \in Nat
        /\ raw_since_ms \in 0..now_ms /\ phase_ms \in 0..now_ms
        /\ last_emit_ms \in 0..now_ms /\ last_edge_ms \in 0..now_ms
        /\ last_burst_ms \in -1..now_ms /\ unclaimed \in Int
    BY DEF TouchInit
  <2> QED
    BY <1>1, <2>1, <2>2 DEF TouchInit, TouchTypeOK, Phases
<1>3. SeedInv /\ Timing /\ PhaseMatchesContact
    BY DEF TouchInit, SeedInv, Timing, PhaseMatchesContact
<1>4. EveryContactClaimedOnce /\ TapDecidedInTime
    BY DEF TouchInit, EveryContactClaimedOnce, TapDecidedInTime
<1> QED
    BY <1>2, <1>3, <1>4 DEF TouchInv

\* What debounce establishes whatever the sample: the fields keep their types,
\* the seed is done, and a level that differs from the debounced one is
\* younger than the last edge.
LEMMA DebounceStep ==
    ASSUME TouchInv, NEW t \in Nat, t >= now_ms, NEW pressed \in BOOLEAN,
           debounce(pressed, t)
    PROVE  /\ initialized' = TRUE
           /\ raw_level' = pressed
           /\ raw_since_ms' \in 0..t
           /\ stable_level' \in BOOLEAN
           /\ raw_level' # stable_level' => raw_since_ms' >= last_edge_ms
           /\ IsEdge(pressed, t) => /\ initialized
                                    /\ stable_level' = pressed
                                    /\ stable_level = ~pressed
                                    /\ t - last_edge_ms >= DEBOUNCE_MS
           /\ initialized /\ ~IsEdge(pressed, t) => stable_level' = stable_level
BY ConstantsAssumption
   DEF debounce, IsEdge, RawSince, saturating_sub, TouchInv, TouchTypeOK, SeedInv, Timing

\* A rate-limited emission either returns the gesture and moves the baseline
\* to t, or returns nothing and leaves the baseline alone.
LEMMA EmitLimited ==
    ASSUME TouchTypeOK, NEW t \in Nat, t >= now_ms, NEW g, emit_limited(g, t)
    PROVE  \/ /\ emitted' = g /\ last_emit_ms' = t /\ last_emit_valid' = TRUE
              /\ last_emit_valid => t - last_emit_ms >= MIN_EVENT_GAP_MS
           \/ /\ emitted' = NoGesture
              /\ last_emit_ms' = last_emit_ms /\ last_emit_valid' = last_emit_valid
              /\ last_emit_valid /\ t - last_emit_ms < MIN_EVENT_GAP_MS
BY ConstantsAssumption
   DEF emit_limited, emit, emit_nothing, RateLimited, saturating_sub, rate_vars, TouchTypeOK

-----------------------------------------------------------------------------
\* The four properties of a single step.
StepInv == KeepsPendingTap /\ DebouncesEdge /\ SpansContact /\ SpacesBurst

\* A step that leaves the types of debouncer and emission intact keeps TouchTypeOK.
LEMMA TypeStep ==
    ASSUME TouchTypeOK, NEW t \in Nat, t >= now_ms, now_ms' = t,
           initialized' \in BOOLEAN, raw_level' \in BOOLEAN,
           stable_level' \in BOOLEAN, last_emit_valid' \in BOOLEAN,
           raw_since_ms' \in 0..t, phase_ms' \in 0..t, last_emit_ms' \in 0..t,
           last_edge_ms' \in 0..t, last_burst_ms' \in -1..t,
           phase' \in Phases, emitted' \in Gestures, unclaimed' \in Int
    PROVE  TouchTypeOK'
BY DEF TouchTypeOK

\* The gestures the machine returns are well formed.
LEMMA GesturesTyped ==
    /\ NoGesture \in Gestures /\ Tap \in Gestures /\ DoubleTap \in Gestures
    /\ \A d \in Nat : Hold(clamp_duration(d)) \in Gestures
    /\ NoGesture.kind = "none" /\ Tap.kind = "tap" /\ DoubleTap.kind = "doubletap"
    /\ \A d : Hold(d).kind = "hold" /\ Hold(d).duration_ms = d
BY ConstantsAssumption
   DEF ConstantsAssumption, NoGesture, Tap, DoubleTap, Hold, Gestures, clamp_duration

\* An accepted Down edge finds the machine idle or with a tap pending, and
\* leaves it in FirstDown or DrainRelease.
LEMMA PressStep ==
    ASSUME TouchInv, NEW t \in Nat, t >= now_ms, now_ms' = t, UpdatePress(t)
    PROVE  TouchInv' /\ StepInv
<1> USE ConstantsAssumption, GesturesTyped DEF ConstantsAssumption
<1>1. /\ initialized' = TRUE /\ raw_level' = TRUE /\ raw_since_ms' \in 0..t
      /\ stable_level' = TRUE /\ stable_level = FALSE /\ initialized
      /\ t - last_edge_ms >= DEBOUNCE_MS
    BY DebounceStep DEF UpdatePress
<1>2. phase \in {"Idle", "WaitSecond"}
    BY <1>1 DEF TouchInv, TouchTypeOK, Phases, PhaseMatchesContact
<1>3. CASE phase = "Idle"
  <2>1. /\ phase' = "FirstDown" /\ phase_ms' = t /\ emitted' = NoGesture
        /\ last_emit_ms' = last_emit_ms /\ last_emit_valid' = last_emit_valid
        /\ last_edge_ms' = t /\ last_burst_ms' = last_burst_ms
        /\ unclaimed' = unclaimed + 1
    BY <1>3 DEF UpdatePress, on_press, EnterPhase, emit_nothing, rate_vars,
                Remember, Claimed, TouchInv, TouchTypeOK
  <2>2. TouchTypeOK'
    BY <1>1, <2>1, TypeStep DEF TouchInv, TouchTypeOK, Phases
  <2>3. SeedInv' /\ PhaseMatchesContact' /\ EveryContactClaimedOnce' /\ TapDecidedInTime'
    BY <1>1, <1>3, <2>1 DEF TouchInv, SeedInv, PhaseMatchesContact,
                            EveryContactClaimedOnce, TapDecidedInTime
  <2>4. Timing'
    BY <1>1, <2>1 DEF TouchInv, Timing, TouchTypeOK
  <2>5. StepInv
    BY <1>1, <1>3, <2>1 DEF StepInv, KeepsPendingTap, DebouncesEdge, SpansContact, SpacesBurst
  <2> QED
    BY <2>2, <2>3, <2>4, <2>5 DEF TouchInv
<1>4. CASE phase = "WaitSecond" /\ InWindow(t)
  <2>1. /\ phase' = "DrainRelease" /\ phase_ms' = 0 /\ emit_limited(DoubleTap, t)
        /\ last_edge_ms' = t
        /\ last_burst_ms' = IF emitted'.kind \in {"tap", "doubletap"}
                            THEN t ELSE last_burst_ms
    BY <1>4 DEF UpdatePress, on_press, EnterPhase, Remember
  <2>2. TouchTypeOK
    BY DEF TouchInv
  <2>3. \/ /\ emitted' = DoubleTap /\ last_emit_ms' = t /\ last_emit_valid' = TRUE
           /\ last_burst_ms' = t
           /\ last_emit_valid => t - last_emit_ms >= MIN_EVENT_GAP_MS
        \/ /\ emitted' = NoGesture /\ last_emit_ms' = last_emit_ms
           /\ last_emit_valid' = last_emit_valid /\ last_burst_ms' = last_burst_ms
    BY <2>1, <2>2, EmitLimited
  <2>4. unclaimed' = unclaimed - 1
    <3>1. Claimed = 2
      BY <1>4, <2>1, <2>3 DEF Claimed
    <3> QED
      BY <3>1, <2>2 DEF UpdatePress, Remember, TouchTypeOK
  <2>5. TouchTypeOK'
    <3>1. last_emit_valid' \in BOOLEAN /\ emitted' \in Gestures
      BY <2>2, <2>3 DEF TouchTypeOK
    <3>2. last_emit_ms' \in 0..t /\ last_burst_ms' \in -1..t /\ unclaimed' \in Int
      BY <2>2, <2>3, <2>4 DEF TouchTypeOK
    <3> QED
      BY <1>1, <2>1, <2>2, <3>1, <3>2, TypeStep DEF Phases
  <2>6. SeedInv' /\ PhaseMatchesContact' /\ EveryContactClaimedOnce' /\ TapDecidedInTime'
    BY <1>1, <1>4, <2>1, <2>4 DEF TouchInv, SeedInv, PhaseMatchesContact,
                                  EveryContactClaimedOnce, TapDecidedInTime
  <2>7. Timing'
    BY <1>1, <2>1, <2>3 DEF TouchInv, Timing, TouchTypeOK
  <2>8. KeepsPendingTap /\ DebouncesEdge /\ SpansContact
    <3>1. t - phase_ms < DOUBLETAP_WINDOW_MS
      BY <1>4, <2>2 DEF InWindow, saturating_sub, TouchTypeOK
    <3>2. emitted'.kind # "hold"
      BY <2>3
    <3> QED
      BY <1>1, <2>1, <3>1, <3>2 DEF KeepsPendingTap, DebouncesEdge, SpansContact
  <2>9. SpacesBurst
    <3>1. CASE emitted' = NoGesture
      BY <3>1 DEF SpacesBurst
    <3>2. CASE last_emit_valid => t - last_emit_ms >= MIN_EVENT_GAP_MS
      BY <3>2, <2>2 DEF SpacesBurst, TouchInv, Timing, TouchTypeOK
    <3> QED
      BY <2>3, <3>1, <3>2
  <2> QED
    BY <2>5, <2>6, <2>7, <2>8, <2>9 DEF TouchInv, StepInv
<1>5. CASE phase = "WaitSecond" /\ ~InWindow(t)
  <2>1. /\ phase' = "FirstDown" /\ phase_ms' = t /\ emit_limited(Tap, t)
        /\ last_edge_ms' = t
        /\ last_burst_ms' = IF emitted'.kind \in {"tap", "doubletap"}
                            THEN t ELSE last_burst_ms
    BY <1>5 DEF UpdatePress, on_press, EnterPhase, Remember
  <2>2. TouchTypeOK
    BY DEF TouchInv
  <2>3. t - phase_ms >= DOUBLETAP_WINDOW_MS /\ last_emit_ms <= phase_ms
    BY <1>5, <2>2 DEF InWindow, saturating_sub, TouchTypeOK, TouchInv, Timing
  <2>4. /\ emitted' = Tap /\ last_emit_ms' = t /\ last_emit_valid' = TRUE
        /\ last_burst_ms' = t
        /\ last_emit_valid => t - last_emit_ms >= MIN_EVENT_GAP_MS
    <3>1. last_emit_valid => t - last_emit_ms >= MIN_EVENT_GAP_MS
      BY <2>2, <2>3 DEF TouchTypeOK
    <3>2. emitted' = Tap /\ last_emit_ms' = t /\ last_emit_valid' = TRUE
      <4>1. ~RateLimited(t)
        BY <3>1, <2>2 DEF RateLimited, saturating_sub, TouchTypeOK
      <4> QED
        BY <4>1, <2>1 DEF emit_limited, emit
    <3> QED
      BY <2>1, <3>1, <3>2
  <2>5. unclaimed' = unclaimed
    <3>1. Claimed = 1
      BY <2>1, <2>4 DEF Claimed
    <3> QED
      BY <3>1, <2>2 DEF UpdatePress, Remember, TouchTypeOK
  <2>6. TouchTypeOK'
    BY <1>1, <2>1, <2>4, <2>5, TypeStep DEF TouchInv, TouchTypeOK, Phases
  <2>7. SeedInv' /\ PhaseMatchesContact' /\ EveryContactClaimedOnce' /\ TapDecidedInTime'
    BY <1>1, <1>5, <2>1, <2>5 DEF TouchInv, SeedInv, PhaseMatchesContact,
                                  EveryContactClaimedOnce, TapDecidedInTime
  <2>8. Timing'
    BY <1>1, <2>1, <2>4 DEF TouchInv, Timing, TouchTypeOK
  <2>9. KeepsPendingTap /\ DebouncesEdge /\ SpansContact
    BY <1>1, <2>1, <2>4 DEF KeepsPendingTap, DebouncesEdge, SpansContact
  <2>10. SpacesBurst
    BY <2>2, <2>4 DEF SpacesBurst, TouchInv, Timing, TouchTypeOK
  <2> QED
    BY <2>6, <2>7, <2>8, <2>9, <2>10 DEF TouchInv, StepInv
<1> QED
    BY <1>2, <1>3, <1>4, <1>5

\* An accepted Up edge ends a contact in progress (a hold, a tap candidate or
\* the second press of a doubletap) or the contact the device booted with.
LEMMA ReleaseStep ==
    ASSUME TouchInv, NEW t \in Nat, t >= now_ms, now_ms' = t, UpdateRelease(t)
    PROVE  TouchInv' /\ StepInv
<1> USE ConstantsAssumption, GesturesTyped DEF ConstantsAssumption
<1>1. /\ initialized' = TRUE /\ raw_level' = FALSE /\ raw_since_ms' \in 0..t
      /\ stable_level' = FALSE /\ stable_level = TRUE /\ initialized
      /\ t - last_edge_ms >= DEBOUNCE_MS
    BY DebounceStep DEF UpdateRelease
<1>2. phase \in {"Idle", "FirstDown", "DrainRelease"}
    BY <1>1 DEF TouchInv, TouchTypeOK, Phases, PhaseMatchesContact
<1>3. TouchTypeOK /\ last_edge_ms' = t
    BY DEF TouchInv, UpdateRelease, Remember
<1>6. /\ initialized' \in BOOLEAN /\ raw_level' \in BOOLEAN
      /\ stable_level' \in BOOLEAN /\ raw_level' = stable_level'
    BY <1>1
<1>7. saturating_sub(t, phase_ms) \in Nat
    BY <1>3 DEF saturating_sub, TouchTypeOK
<1>4. CASE phase = "FirstDown" /\ saturating_sub(t, phase_ms) >= HOLD_MS
  <2>1. /\ phase' = "Idle" /\ phase_ms' = 0
        /\ emitted' = Hold(clamp_duration(saturating_sub(t, phase_ms)))
        /\ last_emit_ms' = t /\ last_emit_valid' = TRUE
    <3>1. ~(saturating_sub(t, phase_ms) < HOLD_MS)
      BY <1>4, <1>7
    <3> QED
      BY <1>4, <3>1 DEF UpdateRelease, on_release, EnterPhase, emit
  <2>2. saturating_sub(t, phase_ms) = t - phase_ms /\ phase_ms = last_edge_ms
    BY <1>3, <1>4 DEF saturating_sub, TouchTypeOK, TouchInv, Timing
  <2>3. last_burst_ms' = last_burst_ms /\ unclaimed' = unclaimed - 1
    <3>1. Claimed = 1
      BY <2>1 DEF Claimed
    <3> QED
      BY <1>3, <2>1, <3>1 DEF UpdateRelease, Remember, TouchTypeOK
  <2>4. TouchTypeOK'
    <3>1. emitted' \in Gestures
      BY <1>3, <2>1, <2>2 DEF TouchTypeOK
    <3> QED
      BY <1>1, <1>3, <1>6, <2>1, <2>3, <3>1, TypeStep DEF TouchTypeOK, Phases
  <2>5. SeedInv' /\ PhaseMatchesContact' /\ EveryContactClaimedOnce' /\ TapDecidedInTime'
    BY <1>1, <1>4, <2>1, <2>3 DEF TouchInv, SeedInv, PhaseMatchesContact,
                                  EveryContactClaimedOnce, TapDecidedInTime
  <2>6. Timing'
    BY <1>3, <1>6, <2>1, <2>3 DEF Timing, TouchInv, TouchTypeOK
  <2>7. StepInv
    BY <1>1, <1>4, <2>1, <2>2 DEF StepInv, KeepsPendingTap, DebouncesEdge,
                                  SpansContact, SpacesBurst
  <2> QED
    BY <2>4, <2>5, <2>6, <2>7 DEF TouchInv
<1>5. CASE ~(phase = "FirstDown" /\ saturating_sub(t, phase_ms) >= HOLD_MS)
  <2>1. /\ emitted' = NoGesture /\ last_emit_ms' = last_emit_ms
        /\ last_emit_valid' = last_emit_valid
        /\ \/ phase = "FirstDown" /\ phase' = "WaitSecond" /\ phase_ms' = t
           \/ phase = "DrainRelease" /\ phase' = "Idle" /\ phase_ms' = 0
           \/ phase = "Idle" /\ phase' = "Idle" /\ phase_ms' = phase_ms
    <3>2. CASE phase = "FirstDown" /\ saturating_sub(t, phase_ms) < HOLD_MS
      BY <3>2, <1>7 DEF UpdateRelease, on_release, EnterPhase, emit_nothing, rate_vars
    <3>3. CASE phase = "DrainRelease"
      BY <3>3 DEF UpdateRelease, on_release, EnterPhase, emit_nothing, rate_vars
    <3>4. CASE phase = "Idle"
      BY <3>4 DEF UpdateRelease, on_release, emit_nothing, rate_vars
    <3> QED
      BY <1>2, <1>5, <1>7, <3>2, <3>3, <3>4
  <2>2. last_burst_ms' = last_burst_ms /\ unclaimed' = unclaimed
    <3>1. Claimed = 0
      BY <2>1 DEF Claimed
    <3> QED
      BY <1>3, <2>1, <3>1 DEF UpdateRelease, Remember, TouchTypeOK
  <2>3. TouchTypeOK'
    <3>1. phase' \in Phases /\ phase_ms' \in 0..t
      BY <1>3, <2>1 DEF TouchTypeOK, Phases
    <3> QED
      BY <1>1, <1>3, <1>6, <2>1, <2>2, <3>1, TypeStep DEF TouchTypeOK
  <2>4. SeedInv' /\ PhaseMatchesContact'
    BY <1>1, <2>1 DEF SeedInv, PhaseMatchesContact
  <2>5. EveryContactClaimedOnce' /\ TapDecidedInTime'
    BY <2>1, <2>2 DEF TouchInv, EveryContactClaimedOnce, TapDecidedInTime
  <2>6. Timing'
    BY <1>3, <1>6, <2>1, <2>2 DEF Timing, TouchInv, TouchTypeOK
  <2>7. StepInv
    BY <1>1, <2>1 DEF StepInv, KeepsPendingTap, DebouncesEdge, SpansContact, SpacesBurst
  <2> QED
    BY <2>3, <2>4, <2>5, <2>6, <2>7 DEF TouchInv
<1> QED
    BY <1>4, <1>5

\* A sample without an edge: nothing happens, or the window of a pending tap
\* has expired and the tap is emitted.
LEMMA TickStep ==
    ASSUME TouchInv, NEW t \in Nat, t >= now_ms, now_ms' = t,
           NEW pressed \in BOOLEAN, UpdateTick(pressed, t)
    PROVE  TouchInv' /\ StepInv
<1> USE ConstantsAssumption, GesturesTyped DEF ConstantsAssumption
<1>1. /\ initialized' = TRUE /\ raw_level' = pressed /\ raw_since_ms' \in 0..t
      /\ stable_level' \in BOOLEAN
      /\ raw_level' # stable_level' => raw_since_ms' >= last_edge_ms
      /\ initialized => stable_level' = stable_level
    BY DebounceStep DEF UpdateTick
<1>2. TouchTypeOK /\ last_edge_ms' = last_edge_ms
    BY DEF TouchInv, UpdateTick, Remember
<1>3. CASE phase = "WaitSecond" /\ ~InWindow(t)
  <2>1. phase' = "Idle" /\ phase_ms' = 0 /\ emit_limited(Tap, t) /\ initialized
    BY <1>3 DEF UpdateTick, on_tick, EnterPhase, TouchInv, SeedInv
  <2>2. t - phase_ms >= DOUBLETAP_WINDOW_MS /\ last_emit_ms <= phase_ms
    BY <1>2, <1>3 DEF InWindow, saturating_sub, TouchTypeOK, TouchInv, Timing
  <2>3. last_emit_valid => t - last_emit_ms >= MIN_EVENT_GAP_MS
    BY <1>2, <2>2 DEF TouchTypeOK
  <2>4. emitted' = Tap /\ last_emit_ms' = t /\ last_emit_valid' = TRUE
    <3>1. ~RateLimited(t)
      BY <1>2, <2>3 DEF RateLimited, saturating_sub, TouchTypeOK
    <3> QED
      BY <2>1, <3>1 DEF emit_limited, emit
  <2>5. last_burst_ms' = t /\ unclaimed' = unclaimed - 1
    <3>1. Claimed = 1
      BY <2>1, <2>4 DEF Claimed
    <3> QED
      BY <1>2, <2>4, <3>1 DEF UpdateTick, Remember, TouchTypeOK
  <2>6. TouchTypeOK'
    BY <1>1, <1>2, <2>1, <2>4, <2>5, TypeStep DEF TouchTypeOK, Phases
  <2>7. SeedInv' /\ PhaseMatchesContact' /\ EveryContactClaimedOnce' /\ TapDecidedInTime'
    BY <1>1, <1>3, <2>1, <2>5 DEF TouchInv, SeedInv, PhaseMatchesContact,
                                  EveryContactClaimedOnce, TapDecidedInTime
  <2>8. Timing'
    BY <1>1, <1>2, <2>1, <2>4, <2>5 DEF Timing, TouchInv, TouchTypeOK
  <2>9. KeepsPendingTap /\ DebouncesEdge /\ SpansContact
    BY <1>1, <2>1, <2>4 DEF KeepsPendingTap, DebouncesEdge, SpansContact
  <2>10. SpacesBurst
    BY <1>2, <2>3 DEF SpacesBurst, TouchInv, Timing, TouchTypeOK
  <2> QED
    BY <2>6, <2>7, <2>8, <2>9, <2>10 DEF TouchInv, StepInv
<1>4. CASE ~(phase = "WaitSecond" /\ ~InWindow(t))
  <2>1. /\ phase' = phase /\ phase_ms' = phase_ms /\ emitted' = NoGesture
        /\ last_emit_ms' = last_emit_ms /\ last_emit_valid' = last_emit_valid
    BY <1>4 DEF UpdateTick, on_tick, emit_nothing, rate_vars
  <2>2. last_burst_ms' = last_burst_ms /\ unclaimed' = unclaimed
    <3>1. Claimed = 0
      BY <2>1 DEF Claimed
    <3> QED
      BY <1>2, <2>1, <3>1 DEF UpdateTick, Remember, TouchTypeOK
  <2>3. TouchTypeOK'
    BY <1>1, <1>2, <2>1, <2>2, TypeStep DEF TouchTypeOK
  <2>4. SeedInv' /\ PhaseMatchesContact' /\ EveryContactClaimedOnce'
    BY <1>1, <2>1, <2>2 DEF TouchInv, SeedInv, PhaseMatchesContact, EveryContactClaimedOnce
  <2>5. TapDecidedInTime'
    BY <1>2, <1>4, <2>1 DEF InWindow, saturating_sub, TouchTypeOK, TapDecidedInTime
  <2>6. Timing'
    BY <1>1, <1>2, <2>1, <2>2 DEF Timing, TouchInv, TouchTypeOK
  <2>7. StepInv
    BY <1>1, <2>1 DEF StepInv, KeepsPendingTap, DebouncesEdge, SpansContact, SpacesBurst
  <2> QED
    BY <2>3, <2>4, <2>5, <2>6, <2>7 DEF TouchInv
<1> QED
    BY <1>3, <1>4

-----------------------------------------------------------------------------
\* Every call of update preserves the inductive invariant and satisfies the
\* four step properties.
LEMMA NextStep == TouchInv /\ [TouchNext]_touch_vars => TouchInv' /\ [StepInv]_touch_vars
<1> SUFFICES ASSUME TouchInv, [TouchNext]_touch_vars PROVE TouchInv' /\ [StepInv]_touch_vars
    OBVIOUS
<1>1. CASE TouchNext
  <2>1. PICK gap \in SampleGaps : Update(gap)
    BY <1>1 DEF TouchNext
  <2>2. now_ms + gap \in Nat /\ now_ms + gap >= now_ms
    BY ConstantsAssumption DEF ConstantsAssumption, TouchInv, TouchTypeOK
  <2> QED
    BY <2>1, <2>2, PressStep, ReleaseStep, TickStep DEF Update
<1>2. CASE UNCHANGED touch_vars
    BY <1>2 DEF touch_vars, debounce_vars, rate_vars, TouchInv, TouchTypeOK, SeedInv, Timing,
                PhaseMatchesContact, EveryContactClaimedOnce, TapDecidedInTime
<1> QED
    BY <1>1, <1>2

\* The inductive invariant holds in every reachable state.
THEOREM Correctness == TouchSpec => []TouchInv
<1>1. TouchInit => TouchInv
    BY TouchInvInit
<1>2. TouchInv /\ [TouchNext]_touch_vars => TouchInv'
    BY NextStep
<1> QED
    BY <1>1, <1>2, PTL DEF TouchSpec

\* The fields of the classifier keep their types and no recorded time is in
\* the future.
THEOREM TypeCorrect == TouchSpec => []TouchTypeOK
<1>1. TouchInv => TouchTypeOK
    BY DEF TouchInv
<1> QED
    BY <1>1, Correctness, PTL

\* The gesture machine and the debouncer agree: the "should not happen" arms
\* of on_press and on_release are dead after boot.
THEOREM PhaseMatchesContactHolds == TouchSpec => []PhaseMatchesContact
<1>1. TouchInv => PhaseMatchesContact
    BY DEF TouchInv
<1> QED
    BY <1>1, Correctness, PTL

\* Every accepted contact is accounted for by exactly one gesture.
THEOREM EveryContactClaimedOnceHolds == TouchSpec => []EveryContactClaimedOnce
<1>1. TouchInv => EveryContactClaimedOnce
    BY DEF TouchInv
<1> QED
    BY <1>1, Correctness, PTL

\* No call of update leaves an expired tap pending.
THEOREM TapDecidedInTimeHolds == TouchSpec => []TapDecidedInTime
<1>1. TouchInv => TapDecidedInTime
    BY DEF TouchInv
<1> QED
    BY <1>1, Correctness, PTL

\* The rate limiter never swallows a pending tap.
THEOREM PendingTapNeverLostHolds == TouchSpec => PendingTapNeverLost
<1>1. TouchInv /\ [TouchNext]_touch_vars => [KeepsPendingTap]_touch_vars
    BY NextStep DEF StepInv
<1> QED
    BY <1>1, Correctness, PTL DEF TouchSpec, PendingTapNeverLost

\* Accepted edges are at least DEBOUNCE_MS apart.
THEOREM EdgesAreDebouncedHolds == TouchSpec => EdgesAreDebounced
<1>1. TouchInv /\ [TouchNext]_touch_vars => [DebouncesEdge]_touch_vars
    BY NextStep DEF StepInv
<1> QED
    BY <1>1, Correctness, PTL DEF TouchSpec, EdgesAreDebounced

\* A hold is reported on release with its own contact's duration.
THEOREM HoldSpansItsContactHolds == TouchSpec => HoldSpansItsContact
<1>1. TouchInv /\ [TouchNext]_touch_vars => [SpansContact]_touch_vars
    BY NextStep DEF StepInv
<1> QED
    BY <1>1, Correctness, PTL DEF TouchSpec, HoldSpansItsContact

\* Taps and doubletaps are at least MIN_EVENT_GAP_MS apart.
THEOREM BurstsAreSpacedHolds == TouchSpec => BurstsAreSpaced
<1>1. TouchInv /\ [TouchNext]_touch_vars => [SpacesBurst]_touch_vars
    BY NextStep DEF StepInv
<1> QED
    BY <1>1, Correctness, PTL DEF TouchSpec, BurstsAreSpaced

-----------------------------------------------------------------------------
(***************************************************************************)
(* Sequences.                                                              *)
(***************************************************************************)
\* What is queued at the end of a queue with room ...
LEMMA QueuedLast ==
    ASSUME NEW S, NEW q \in Seq(S), NEW g \in S, NEW r, r = Append(q, g)
    PROVE  /\ r \in Seq(S) /\ Len(r) = Len(q) + 1 /\ DOMAIN r = 1..Len(r)
           /\ \A i \in DOMAIN q : r[i] = q[i]
           /\ r[Len(r)] = g
OBVIOUS

\* ... what is left of a queue without its head ...
LEMMA WithoutHead ==
    ASSUME NEW S, NEW q \in Seq(S), q # <<>>, NEW r, r = Tail(q)
    PROVE  /\ r \in Seq(S) /\ Len(r) = Len(q) - 1 /\ DOMAIN r = 1..Len(r)
           /\ Len(q) \in Nat \ {0} /\ DOMAIN q = 1..Len(q)
           /\ \A i \in DOMAIN r : i + 1 \in DOMAIN q /\ r[i] = q[i + 1]
           /\ 1 \in DOMAIN q /\ Head(q) = q[1] /\ Head(q) \in S
OBVIOUS

\* ... and a full queue that gives up its head.
LEMMA HeadDropped ==
    ASSUME NEW S, NEW q \in Seq(S), q # <<>>, NEW g \in S, NEW r, r = Append(Tail(q), g)
    PROVE  /\ r \in Seq(S) /\ Len(r) = Len(q) /\ DOMAIN r = 1..Len(r)
           /\ \A i \in DOMAIN r : i < Len(r) => i + 1 \in DOMAIN q /\ r[i] = q[i + 1]
           /\ r[Len(r)] = g
OBVIOUS


-----------------------------------------------------------------------------
(***************************************************************************)
(* The inductive invariant.                                                *)
(***************************************************************************)
\* The types of what a gesture passes through, and the bounds of its queue.
GestureTypes ==
    /\ server \in Servers /\ HOST_CONNECTED \in BOOLEAN
    /\ INPUT_CHANNEL \in Seq(GestureRecords) /\ Len(INPUT_CHANNEL) <= INPUT_QUEUE_LEN
    /\ in_hand \subseteq GestureRecords
    /\ epoch \in 0..MaxConnections /\ gestures \in 0..MaxGestures
    /\ uplinked \in Seq(UplinkRecords)
    /\ acked \subseteq 1..gestures /\ taken \subseteq 1..gestures

\* A gesture is uplinked before the one in hand, and that one before those
\* in the queue, in the order they were made.
InOrder ==
    /\ \A i, j \in DOMAIN uplinked : i < j => uplinked[i].id < uplinked[j].id
    /\ \A i, j \in DOMAIN INPUT_CHANNEL : i < j => INPUT_CHANNEL[i].id < INPUT_CHANNEL[j].id
    /\ \A g, h \in in_hand : g = h
    /\ \A i \in DOMAIN uplinked : \A g \in in_hand : uplinked[i].id < g.id
    /\ \A i \in DOMAIN uplinked : \A k \in DOMAIN INPUT_CHANNEL :
          uplinked[i].id < INPUT_CHANNEL[k].id
    /\ \A g \in in_hand : \A k \in DOMAIN INPUT_CHANNEL : g.id < INPUT_CHANNEL[k].id

\* No gesture is of the future, and none that has been acknowledged on the
\* device is, or can still be, uplinked.
Fates ==
    /\ \A i \in DOMAIN uplinked : uplinked[i].id <= gestures /\ uplinked[i].id \notin acked
    /\ \A g \in in_hand : g.id <= gestures /\ g.id \notin acked
    /\ \A k \in DOMAIN INPUT_CHANNEL :
          INPUT_CHANNEL[k].id <= gestures /\ INPUT_CHANNEL[k].id \notin acked

\* Touch is told of a host exactly while one is served, and then what is in
\* hand or queued was made on this very connection.
Connections ==
    /\ HOST_CONNECTED <=> server = "serving"
    /\ in_hand # {} => HOST_CONNECTED
    /\ \A g \in in_hand : g.epoch = epoch
    /\ HOST_CONNECTED => \A k \in DOMAIN INPUT_CHANNEL : INPUT_CHANNEL[k].epoch = epoch
    /\ DisconnectedTouchNotQueued
    /\ NotReplayed

IInv == GestureTypes /\ InOrder /\ Fates /\ Connections

\* What a gesture passes through.
fate == <<HOST_CONNECTED, INPUT_CHANNEL, in_hand, epoch, gestures, uplinked, acked, taken>>

-----------------------------------------------------------------------------
(***************************************************************************)
(* The initial state and the steps.                                        *)
(***************************************************************************)
\* At the start nothing was touched.
LEMMA InitIInv == Init => IInv
<1> SUFFICES ASSUME Init PROVE IInv
    OBVIOUS
<1> USE DeviceLinkAssumption DEF Init
<1>1. GestureTypes
  <2>1. server \in Servers /\ HOST_CONNECTED \in BOOLEAN
      BY DEF Servers
  <2>2. /\ INPUT_CHANNEL \in Seq(GestureRecords) /\ Len(INPUT_CHANNEL) <= INPUT_QUEUE_LEN
        /\ uplinked \in Seq(UplinkRecords)
      OBVIOUS
  <2>3. epoch \in 0..MaxConnections /\ gestures \in 0..MaxGestures
      OBVIOUS
  <2>4. in_hand \subseteq GestureRecords /\ acked \subseteq 1..gestures /\ taken \subseteq 1..gestures
      OBVIOUS
  <2> QED  BY <2>1, <2>2, <2>3, <2>4 DEF GestureTypes
<1>2. InOrder /\ Fates
    BY DEF InOrder, Fates
<1>3. Connections
    BY DEF Connections, DisconnectedTouchNotQueued, NotReplayed
<1> QED  BY <1>1, <1>2, <1>3 DEF IInv

\* The gestures are numbers, wherever they are.
LEMMA IdsAreNumbers ==
    ASSUME GestureTypes
    PROVE  /\ \A i \in DOMAIN uplinked : uplinked[i] \in UplinkRecords /\ uplinked[i].id \in Int
           /\ \A g \in in_hand : g.id \in Int
           /\ \A k \in DOMAIN INPUT_CHANNEL :
                 INPUT_CHANNEL[k] \in GestureRecords /\ INPUT_CHANNEL[k].id \in Int
<1>1. \A i \in DOMAIN uplinked : uplinked[i] \in UplinkRecords
    BY DEF GestureTypes
<1>2. \A k \in DOMAIN INPUT_CHANNEL : INPUT_CHANNEL[k] \in GestureRecords
    BY DEF GestureTypes
<1>3. \A r \in UplinkRecords : r.id \in Int
    BY DEF UplinkRecords
<1>4. \A g \in GestureRecords : g.id \in Int
    BY DEF GestureRecords
<1> QED  BY <1>1, <1>2, <1>3, <1>4 DEF GestureTypes

\* A gesture made is one of those counted.
LEMMA Counted ==
    ASSUME IInv, NEW g \in GestureRecords, g.id <= gestures,
           NEW S \in SUBSET (1..gestures)
    PROVE  S \cup {g.id} \subseteq 1..gestures
<1>1. g.id \in 1..MaxGestures
    BY DEF GestureRecords
<1>2. MaxGestures \in Nat /\ gestures \in Nat
    BY DeviceLinkAssumption DEF IInv, GestureTypes
<1>3. g.id \in 1..gestures
    BY <1>1, <1>2
<1> QED  BY <1>3

\* Steps that move no gesture and neither begin nor end a connection.
LEMMA NothingMoves ==
    ASSUME IInv, UNCHANGED fate, server' \in Servers,
           (server' = "serving") <=> (server = "serving")
    PROVE  IInv'
<1> USE DEF fate
<1>1. GestureTypes'
    BY DEF IInv, GestureTypes
<1>2. InOrder' /\ Fates'
    BY DEF IInv, InOrder, Fates
<1>3. Connections'
    BY DEF IInv, Connections, DisconnectedTouchNotQueued, NotReplayed
<1> QED  BY <1>1, <1>2, <1>3 DEF IInv

\* A touch is queued, or acknowledged, as the newest of all.
LEMMA TouchKeeps == ASSUME IInv, touch_task PROVE IInv'
<1> DEFINE g == Captured(gestures + 1)
<1> USE DeviceLinkAssumption
<1>0. /\ gestures \in 0..MaxGestures /\ gestures < MaxGestures /\ gestures' = gestures + 1
      /\ gestures + 1 \in 1..MaxGestures /\ epoch \in 0..MaxConnections
      /\ UNCHANGED <<server, HOST_CONNECTED, in_hand, epoch, uplinked, taken>>
      /\ INPUT_CHANNEL \in Seq(GestureRecords) /\ Len(INPUT_CHANNEL) <= INPUT_QUEUE_LEN
    BY DEF IInv, GestureTypes, touch_task, net_vars
<1>1. g \in GestureRecords /\ g.id = gestures + 1 /\ g.epoch = epoch
      /\ (server = "serving" => g.served)
    BY <1>0 DEF Captured, GestureRecords
<1> HIDE DEF g
<1>2. CASE HOST_CONNECTED
  <2>1. enqueue_input(g) /\ UNCHANGED acked
      BY <1>2 DEF touch_task, g
  <2>2. /\ INPUT_CHANNEL' \in Seq(GestureRecords) /\ Len(INPUT_CHANNEL') <= INPUT_QUEUE_LEN
        /\ \A k \in DOMAIN INPUT_CHANNEL' :
              INPUT_CHANNEL'[k] = g
              \/ \E m \in DOMAIN INPUT_CHANNEL : INPUT_CHANNEL'[k] = INPUT_CHANNEL[m]
        /\ \A i, j \in DOMAIN INPUT_CHANNEL' : i < j =>
              \E k, m \in DOMAIN INPUT_CHANNEL :
                 /\ INPUT_CHANNEL'[i] = INPUT_CHANNEL[k]
                 /\ INPUT_CHANNEL'[j] = g \/ (k < m /\ INPUT_CHANNEL'[j] = INPUT_CHANNEL[m])
    <3>1. CASE Len(INPUT_CHANNEL) < INPUT_QUEUE_LEN
      <4>1. INPUT_CHANNEL' = Append(INPUT_CHANNEL, g)
          BY <2>1, <3>1 DEF enqueue_input
      <4>2. /\ INPUT_CHANNEL' \in Seq(GestureRecords)
            /\ Len(INPUT_CHANNEL') = Len(INPUT_CHANNEL) + 1
            /\ DOMAIN INPUT_CHANNEL' = 1..Len(INPUT_CHANNEL')
            /\ \A i \in DOMAIN INPUT_CHANNEL : INPUT_CHANNEL'[i] = INPUT_CHANNEL[i]
            /\ INPUT_CHANNEL'[Len(INPUT_CHANNEL')] = g
          BY <4>1, <1>0, <1>1, QueuedLast
      <4>3. DOMAIN INPUT_CHANNEL = 1..Len(INPUT_CHANNEL) /\ Len(INPUT_CHANNEL) \in Nat
          BY <1>0
      <4> QED  BY <4>2, <4>3, <3>1
    <3>2. CASE ~(Len(INPUT_CHANNEL) < INPUT_QUEUE_LEN)
      <4>1. INPUT_CHANNEL' = Append(Tail(INPUT_CHANNEL), g)
          BY <2>1, <3>2 DEF enqueue_input
      <4>2. /\ DOMAIN INPUT_CHANNEL = 1..Len(INPUT_CHANNEL) /\ Len(INPUT_CHANNEL) \in Nat
            /\ INPUT_CHANNEL # <<>>
          BY <1>0, <3>2
      <4>3. /\ INPUT_CHANNEL' \in Seq(GestureRecords)
            /\ Len(INPUT_CHANNEL') = Len(INPUT_CHANNEL)
            /\ DOMAIN INPUT_CHANNEL' = 1..Len(INPUT_CHANNEL')
            /\ \A i \in DOMAIN INPUT_CHANNEL' : i < Len(INPUT_CHANNEL') =>
                  i + 1 \in DOMAIN INPUT_CHANNEL /\ INPUT_CHANNEL'[i] = INPUT_CHANNEL[i + 1]
            /\ INPUT_CHANNEL'[Len(INPUT_CHANNEL')] = g
          BY <4>1, <4>2, <1>0, <1>1, HeadDropped
      <4> QED  BY <4>2, <4>3, <1>0
    <3> QED  BY <3>1, <3>2
  <2>3. GestureTypes'
      BY <1>0, <2>1, <2>2 DEF IInv, GestureTypes
  <2>4. \A k \in DOMAIN INPUT_CHANNEL : INPUT_CHANNEL[k].id < g.id
      BY <1>0, <1>1, IdsAreNumbers DEF IInv, Fates
  <2>5. /\ \A i \in DOMAIN uplinked : uplinked[i].id < g.id
        /\ \A h \in in_hand : h.id < g.id
      BY <1>0, <1>1, IdsAreNumbers DEF IInv, Fates
  <2>6. InOrder'
      BY <1>0, <2>2, <2>4, <2>5 DEF IInv, InOrder
  <2>7. g.id \notin acked
      BY <1>0, <1>1 DEF IInv, GestureTypes
  <2>8. Fates'
    <3>1. /\ \A k \in DOMAIN INPUT_CHANNEL : INPUT_CHANNEL[k].id \in Int
          /\ \A i \in DOMAIN uplinked : uplinked[i].id \in Int
          /\ \A h \in in_hand : h.id \in Int
        BY IdsAreNumbers DEF IInv
    <3> QED  BY <1>0, <1>1, <2>1, <2>2, <2>7, <3>1 DEF IInv, Fates
  <2>9. Connections'
      BY <1>0, <1>1, <1>2, <2>2
      DEF IInv, Connections, DisconnectedTouchNotQueued, NotReplayed
  <2> QED  BY <2>3, <2>6, <2>8, <2>9 DEF IInv
<1>3. CASE ~HOST_CONNECTED
  <2>1. UNCHANGED INPUT_CHANNEL /\ acked' = acked \cup {gestures + 1}
      BY <1>3 DEF touch_task, local_ack
  <2>2. GestureTypes'
      BY <1>0, <2>1 DEF IInv, GestureTypes
  <2>3. /\ \A k \in DOMAIN INPUT_CHANNEL : INPUT_CHANNEL[k].id \in Int
        /\ \A i \in DOMAIN uplinked : uplinked[i].id \in Int
        /\ \A h \in in_hand : h.id \in Int
      BY IdsAreNumbers DEF IInv
  <2>4. Fates'
      BY <1>0, <2>1, <2>3 DEF IInv, Fates
  <2>5. InOrder'
      BY <1>0, <2>1 DEF IInv, InOrder
  <2>6. Connections'
      BY <1>0, <2>1 DEF IInv, Connections, DisconnectedTouchNotQueued, NotReplayed
  <2> QED  BY <2>2, <2>4, <2>5, <2>6 DEF IInv
<1> QED  BY <1>2, <1>3

\* A new connection begins with nothing in hand or queued.
LEMMA AcceptKeeps == ASSUME IInv, Accept PROVE IInv'
<1> USE DeviceLinkAssumption
<1>1. /\ server = "accepting" /\ server' = "serving" /\ HOST_CONNECTED' = TRUE
      /\ epoch < MaxConnections /\ epoch' = epoch + 1 /\ INPUT_CHANNEL' = <<>>
      /\ UNCHANGED <<in_hand, uplinked, acked, taken, gestures>>
    BY DEF Accept, Accepted, fate_vars
<1>2. in_hand = {}
    BY <1>1 DEF IInv, Connections
<1>3. GestureTypes'
  <2>1. /\ INPUT_CHANNEL' \in Seq(GestureRecords) /\ Len(INPUT_CHANNEL') <= INPUT_QUEUE_LEN
        /\ epoch' \in 0..MaxConnections
      BY <1>1 DEF IInv, GestureTypes
  <2> QED  BY <1>1, <2>1 DEF IInv, GestureTypes, Servers
<1>4. InOrder' /\ Fates'
    BY <1>1 DEF IInv, InOrder, Fates
<1>5. Connections'
    BY <1>1, <1>2 DEF IInv, Connections, DisconnectedTouchNotQueued, NotReplayed
<1> QED  BY <1>3, <1>4, <1>5 DEF IInv

\* A connection ends with nothing in hand.
LEMMA ReadEndsKeeps == ASSUME IInv, ReadEnds PROVE IInv'
<1>1. /\ server' = "wait_config" /\ HOST_CONNECTED' = FALSE /\ in_hand' = {}
      /\ UNCHANGED <<INPUT_CHANNEL, epoch, gestures, uplinked, acked, taken>>
    BY DEF ReadEnds, EndConnection, HostGone, fate_vars
<1>2. GestureTypes'
    BY <1>1 DEF IInv, GestureTypes, Servers
<1>3. InOrder' /\ Fates'
    BY <1>1 DEF IInv, InOrder, Fates
<1>4. Connections'
    BY <1>1 DEF IInv, Connections, DisconnectedTouchNotQueued, NotReplayed
<1> QED  BY <1>2, <1>3, <1>4 DEF IInv

\* The head of the queue is older than the rest.
LEMMA HeadFirst ==
    ASSUME IInv, INPUT_CHANNEL # <<>>, INPUT_CHANNEL' = Tail(INPUT_CHANNEL)
    PROVE  /\ 1 \in DOMAIN INPUT_CHANNEL /\ Head(INPUT_CHANNEL) = INPUT_CHANNEL[1]
           /\ Head(INPUT_CHANNEL) \in GestureRecords
           /\ INPUT_CHANNEL' \in Seq(GestureRecords) /\ Len(INPUT_CHANNEL') <= INPUT_QUEUE_LEN
           /\ \A k \in DOMAIN INPUT_CHANNEL' :
                 k + 1 \in DOMAIN INPUT_CHANNEL /\ INPUT_CHANNEL'[k] = INPUT_CHANNEL[k + 1]
           /\ \A k \in DOMAIN INPUT_CHANNEL' : Head(INPUT_CHANNEL).id < INPUT_CHANNEL'[k].id
           /\ \A i, j \in DOMAIN INPUT_CHANNEL' :
                 i < j => INPUT_CHANNEL'[i].id < INPUT_CHANNEL'[j].id
<1>1. INPUT_CHANNEL \in Seq(GestureRecords) /\ Len(INPUT_CHANNEL) <= INPUT_QUEUE_LEN
    BY DEF IInv, GestureTypes
<1>2. /\ INPUT_CHANNEL' \in Seq(GestureRecords) /\ Len(INPUT_CHANNEL') = Len(INPUT_CHANNEL) - 1
      /\ DOMAIN INPUT_CHANNEL' = 1..Len(INPUT_CHANNEL')
      /\ Len(INPUT_CHANNEL) \in Nat \ {0} /\ DOMAIN INPUT_CHANNEL = 1..Len(INPUT_CHANNEL)
      /\ \A i \in DOMAIN INPUT_CHANNEL' :
            i + 1 \in DOMAIN INPUT_CHANNEL /\ INPUT_CHANNEL'[i] = INPUT_CHANNEL[i + 1]
      /\ 1 \in DOMAIN INPUT_CHANNEL /\ Head(INPUT_CHANNEL) = INPUT_CHANNEL[1]
      /\ Head(INPUT_CHANNEL) \in GestureRecords
    BY <1>1, WithoutHead
<1>3. Len(INPUT_CHANNEL') <= INPUT_QUEUE_LEN
    BY <1>1, <1>2, DeviceLinkAssumption
<1>4. \A i, j \in DOMAIN INPUT_CHANNEL : i < j => INPUT_CHANNEL[i].id < INPUT_CHANNEL[j].id
    BY DEF IInv, InOrder
<1>5. \A k \in DOMAIN INPUT_CHANNEL' : Head(INPUT_CHANNEL).id < INPUT_CHANNEL'[k].id
    BY <1>2, <1>4
<1>6. \A i, j \in DOMAIN INPUT_CHANNEL' : i < j => INPUT_CHANNEL'[i].id < INPUT_CHANNEL'[j].id
    BY <1>2, <1>4
<1> QED  BY <1>2, <1>3, <1>5, <1>6

\* The gesture uplinked is the last of those that were.
LEMMA UplinkedLast ==
    ASSUME IInv, NEW g \in GestureRecords, Uplink(g)
    PROVE  /\ uplinked' \in Seq(UplinkRecords)
           /\ Len(uplinked') \in DOMAIN uplinked'
           /\ uplinked'[Len(uplinked')] = [id |-> g.id, epoch |-> g.epoch, on |-> epoch]
           /\ \A i \in DOMAIN uplinked' :
                 i # Len(uplinked') => i < Len(uplinked') /\ i \in DOMAIN uplinked
                                       /\ uplinked'[i] = uplinked[i]
           /\ \A i \in DOMAIN uplinked' : i <= Len(uplinked')
<1>1. uplinked \in Seq(UplinkRecords)
    BY DEF IInv, GestureTypes
<1>2. [id |-> g.id, epoch |-> g.epoch, on |-> epoch] \in UplinkRecords
    BY DEF IInv, GestureTypes, GestureRecords, UplinkRecords
<1>3. uplinked' = Append(uplinked, [id |-> g.id, epoch |-> g.epoch, on |-> epoch])
    BY DEF Uplink
<1>4. /\ uplinked' \in Seq(UplinkRecords) /\ Len(uplinked') = Len(uplinked) + 1
      /\ DOMAIN uplinked' = 1..Len(uplinked')
      /\ \A i \in DOMAIN uplinked : uplinked'[i] = uplinked[i]
      /\ uplinked'[Len(uplinked')] = [id |-> g.id, epoch |-> g.epoch, on |-> epoch]
    BY <1>1, <1>2, <1>3, QueuedLast
<1>5. DOMAIN uplinked = 1..Len(uplinked) /\ Len(uplinked) \in Nat
    BY <1>1
<1> QED  BY <1>4, <1>5

\* A gesture of this connection that is older than those in the queue, newer
\* than those uplinked and not acknowledged goes out.
LEMMA UplinkKeeps ==
    ASSUME IInv, NEW g \in GestureRecords, Uplink(g), HOST_CONNECTED,
           UNCHANGED <<server, HOST_CONNECTED, epoch, gestures, acked>>,
           in_hand' = {},
           g.epoch = epoch, g.id <= gestures, g.id \notin acked,
           \A i \in DOMAIN uplinked : uplinked[i].id < g.id,
           INPUT_CHANNEL' \in Seq(GestureRecords), Len(INPUT_CHANNEL') <= INPUT_QUEUE_LEN,
           \A k \in DOMAIN INPUT_CHANNEL' : g.id < INPUT_CHANNEL'[k].id,
           \A i, j \in DOMAIN INPUT_CHANNEL' : i < j => INPUT_CHANNEL'[i].id < INPUT_CHANNEL'[j].id,
           \A k \in DOMAIN INPUT_CHANNEL' :
              \E m \in DOMAIN INPUT_CHANNEL : INPUT_CHANNEL'[k] = INPUT_CHANNEL[m],
           taken' \subseteq 1..gestures
    PROVE  IInv'
<1> DEFINE last == [id |-> g.id, epoch |-> g.epoch, on |-> epoch]
<1>1. last.id = g.id /\ last.epoch = g.epoch /\ last.on = epoch
    OBVIOUS
<1>2. /\ uplinked' \in Seq(UplinkRecords)
      /\ Len(uplinked') \in DOMAIN uplinked' /\ uplinked'[Len(uplinked')] = last
      /\ \A i \in DOMAIN uplinked' :
            i # Len(uplinked') => i < Len(uplinked') /\ i \in DOMAIN uplinked
                                  /\ uplinked'[i] = uplinked[i]
      /\ \A i \in DOMAIN uplinked' : i <= Len(uplinked')
    BY UplinkedLast
<1> HIDE DEF last
<1>3. \A i \in DOMAIN uplinked' :
         uplinked'[i] = last \/ (i \in DOMAIN uplinked /\ uplinked'[i] = uplinked[i])
    BY <1>2
<1>4. GestureTypes'
    BY <1>2 DEF IInv, GestureTypes
<1>5. InOrder'
  <2>1. /\ DOMAIN uplinked' \subseteq Int /\ Len(uplinked') \in Int
        /\ \A i \in DOMAIN uplinked : uplinked[i].id \in Int
        /\ \A k \in DOMAIN INPUT_CHANNEL : INPUT_CHANNEL[k].id \in Int
        /\ g.id \in Int
      BY <1>2, IdsAreNumbers DEF IInv, GestureRecords
  <2>2. \A i, j \in DOMAIN uplinked' : i < j => uplinked'[i].id < uplinked'[j].id
    <3> SUFFICES ASSUME NEW i \in DOMAIN uplinked', NEW j \in DOMAIN uplinked', i < j
                 PROVE  uplinked'[i].id < uplinked'[j].id
        OBVIOUS
    <3>1. i # Len(uplinked') /\ i \in DOMAIN uplinked /\ uplinked'[i] = uplinked[i]
        BY <1>2, <2>1
    <3>2. CASE j = Len(uplinked')
        BY <1>1, <1>2, <3>1, <3>2
    <3>3. CASE j # Len(uplinked')
        BY <1>2, <3>1, <3>3 DEF IInv, InOrder
    <3> QED  BY <3>2, <3>3
  <2>3. \A i \in DOMAIN uplinked', k \in DOMAIN INPUT_CHANNEL' :
           uplinked'[i].id < INPUT_CHANNEL'[k].id
      BY <1>1, <1>3, <2>1 DEF IInv, InOrder
  <2> QED  BY <2>2, <2>3 DEF InOrder
<1>6. Fates'
    BY <1>1, <1>3 DEF IInv, Fates
<1>7. Connections'
    BY <1>1, <1>3 DEF IInv, Connections, DisconnectedTouchNotQueued, NotReplayed
<1> QED  BY <1>4, <1>5, <1>6, <1>7 DEF IInv

\* The writer sends the head of the queue ...
LEMMA WriteQueuedKeeps == ASSUME IInv, WriteQueued PROVE IInv'
<1> DEFINE g == Head(INPUT_CHANNEL)
<1>1. /\ in_hand = {} /\ in_hand' = {} /\ INPUT_CHANNEL # <<>> /\ server = "serving"
      /\ INPUT_CHANNEL' = Tail(INPUT_CHANNEL) /\ taken' = taken \cup {g.id} /\ Uplink(g)
      /\ UNCHANGED <<server, HOST_CONNECTED, epoch, gestures, acked>>
    BY DEF WriteQueued, WriterPolled
<1>2. /\ 1 \in DOMAIN INPUT_CHANNEL /\ g = INPUT_CHANNEL[1] /\ g \in GestureRecords
      /\ INPUT_CHANNEL' \in Seq(GestureRecords) /\ Len(INPUT_CHANNEL') <= INPUT_QUEUE_LEN
      /\ \A k \in DOMAIN INPUT_CHANNEL' :
            k + 1 \in DOMAIN INPUT_CHANNEL /\ INPUT_CHANNEL'[k] = INPUT_CHANNEL[k + 1]
      /\ \A k \in DOMAIN INPUT_CHANNEL' : g.id < INPUT_CHANNEL'[k].id
      /\ \A i, j \in DOMAIN INPUT_CHANNEL' : i < j => INPUT_CHANNEL'[i].id < INPUT_CHANNEL'[j].id
    BY <1>1, HeadFirst
<1> HIDE DEF g
<1>3. HOST_CONNECTED /\ g.epoch = epoch
    BY <1>1, <1>2 DEF IInv, Connections
<1>4. g.id <= gestures /\ g.id \notin acked /\ \A i \in DOMAIN uplinked : uplinked[i].id < g.id
    BY <1>2 DEF IInv, Fates, InOrder
<1>5. taken' \subseteq 1..gestures
    BY <1>1, <1>2, <1>4, Counted DEF IInv, GestureTypes
<1>6. \A k \in DOMAIN INPUT_CHANNEL' :
         \E m \in DOMAIN INPUT_CHANNEL : INPUT_CHANNEL'[k] = INPUT_CHANNEL[m]
    BY <1>2
<1> QED  BY <1>1, <1>2, <1>3, <1>4, <1>5, <1>6, UplinkKeeps

\* ... or takes it in hand ...
LEMMA WriteBlocksKeeps == ASSUME IInv, WriteBlocks PROVE IInv'
<1> DEFINE g == Head(INPUT_CHANNEL)
<1>1. /\ in_hand = {} /\ in_hand' = {g} /\ INPUT_CHANNEL # <<>> /\ server = "serving"
      /\ INPUT_CHANNEL' = Tail(INPUT_CHANNEL) /\ taken' = taken \cup {g.id}
      /\ UNCHANGED <<server, HOST_CONNECTED, epoch, gestures, acked, uplinked>>
    BY DEF WriteBlocks, WriterPolled, net_vars
<1>2. /\ 1 \in DOMAIN INPUT_CHANNEL /\ g = INPUT_CHANNEL[1] /\ g \in GestureRecords
      /\ INPUT_CHANNEL' \in Seq(GestureRecords) /\ Len(INPUT_CHANNEL') <= INPUT_QUEUE_LEN
      /\ \A k \in DOMAIN INPUT_CHANNEL' :
            k + 1 \in DOMAIN INPUT_CHANNEL /\ INPUT_CHANNEL'[k] = INPUT_CHANNEL[k + 1]
      /\ \A k \in DOMAIN INPUT_CHANNEL' : g.id < INPUT_CHANNEL'[k].id
      /\ \A i, j \in DOMAIN INPUT_CHANNEL' : i < j => INPUT_CHANNEL'[i].id < INPUT_CHANNEL'[j].id
    BY <1>1, HeadFirst
<1> HIDE DEF g
<1>3. HOST_CONNECTED /\ g.epoch = epoch
    BY <1>1, <1>2 DEF IInv, Connections
<1>4. g.id <= gestures /\ g.id \notin acked /\ \A i \in DOMAIN uplinked : uplinked[i].id < g.id
    BY <1>2 DEF IInv, Fates, InOrder
<1>5. taken' \subseteq 1..gestures
    BY <1>1, <1>2, <1>4, Counted DEF IInv, GestureTypes
<1>6. GestureTypes'
    BY <1>1, <1>2, <1>5 DEF IInv, GestureTypes
<1>7. InOrder'
    BY <1>1, <1>2, <1>4 DEF IInv, InOrder
<1>8. Fates'
    BY <1>1, <1>2, <1>4 DEF IInv, Fates
<1>9. Connections'
    BY <1>1, <1>2, <1>3 DEF IInv, Connections, DisconnectedTouchNotQueued, NotReplayed
<1> QED  BY <1>6, <1>7, <1>8, <1>9 DEF IInv

\* ... and sends what it has in hand when there is room.
LEMMA WriteResumesKeeps == ASSUME IInv, NEW g \in in_hand, WriteResumes(g) PROVE IInv'
<1>1. /\ in_hand' = in_hand \ {g} /\ Uplink(g)
      /\ UNCHANGED <<server, HOST_CONNECTED, INPUT_CHANNEL, epoch, gestures, acked, taken>>
    BY DEF WriteResumes
<1>2. in_hand' = {} /\ g \in GestureRecords
    BY <1>1 DEF IInv, InOrder, GestureTypes
<1>3. HOST_CONNECTED /\ g.epoch = epoch
    BY DEF IInv, Connections
<1>4. g.id <= gestures /\ g.id \notin acked /\ \A i \in DOMAIN uplinked : uplinked[i].id < g.id
    BY DEF IInv, Fates, InOrder
<1>5. /\ INPUT_CHANNEL' \in Seq(GestureRecords) /\ Len(INPUT_CHANNEL') <= INPUT_QUEUE_LEN
      /\ taken' \subseteq 1..gestures
    BY <1>1 DEF IInv, GestureTypes
<1>6. /\ \A k \in DOMAIN INPUT_CHANNEL' : g.id < INPUT_CHANNEL'[k].id
      /\ \A i, j \in DOMAIN INPUT_CHANNEL' : i < j => INPUT_CHANNEL'[i].id < INPUT_CHANNEL'[j].id
    BY <1>1 DEF IInv, InOrder
<1> QED  BY <1>1, <1>2, <1>3, <1>4, <1>5, <1>6, UplinkKeeps

\* A failed write acknowledges a gesture that was neither uplinked nor is left.
LEMMA WriteFailsKeeps == ASSUME IInv, WriteFails PROVE IInv'
<1>1. /\ server' = "wait_config" /\ HOST_CONNECTED' = FALSE /\ in_hand' = {}
      /\ UNCHANGED <<epoch, uplinked, gestures>>
    BY DEF WriteFails, EndConnection, HostGone
<1>2. CASE in_hand # {}
  <2>1. PICK g \in in_hand : acked' = acked \cup {g.id}
      BY <1>2 DEF WriteFails, local_ack
  <2>2. UNCHANGED <<INPUT_CHANNEL, taken>>
      BY <1>2 DEF WriteFails
  <2>3. /\ g \in GestureRecords /\ g.id <= gestures
        /\ \A i \in DOMAIN uplinked : uplinked[i].id < g.id
        /\ \A k \in DOMAIN INPUT_CHANNEL : g.id < INPUT_CHANNEL[k].id
      BY DEF IInv, GestureTypes, Fates, InOrder
  <2>4. GestureTypes'
      BY <1>1, <2>1, <2>2, <2>3, Counted DEF IInv, GestureTypes, Servers
  <2>5. InOrder'
      BY <1>1, <2>2 DEF IInv, InOrder
  <2>6. Fates'
      BY <1>1, <2>1, <2>2, <2>3, IdsAreNumbers DEF IInv, Fates, GestureRecords
  <2>7. Connections'
      BY <1>1, <2>2 DEF IInv, Connections, DisconnectedTouchNotQueued, NotReplayed
  <2> QED  BY <2>4, <2>5, <2>6, <2>7 DEF IInv
<1>3. CASE in_hand = {}
  <2> DEFINE g == Head(INPUT_CHANNEL)
  <2>1. /\ INPUT_CHANNEL # <<>> /\ INPUT_CHANNEL' = Tail(INPUT_CHANNEL)
        /\ acked' = acked \cup {g.id} /\ taken' = taken \cup {g.id}
      BY <1>3 DEF WriteFails, local_ack
  <2>2. /\ 1 \in DOMAIN INPUT_CHANNEL /\ g = INPUT_CHANNEL[1] /\ g \in GestureRecords
        /\ INPUT_CHANNEL' \in Seq(GestureRecords) /\ Len(INPUT_CHANNEL') <= INPUT_QUEUE_LEN
        /\ \A k \in DOMAIN INPUT_CHANNEL' :
              k + 1 \in DOMAIN INPUT_CHANNEL /\ INPUT_CHANNEL'[k] = INPUT_CHANNEL[k + 1]
        /\ \A k \in DOMAIN INPUT_CHANNEL' : g.id < INPUT_CHANNEL'[k].id
        /\ \A i, j \in DOMAIN INPUT_CHANNEL' :
              i < j => INPUT_CHANNEL'[i].id < INPUT_CHANNEL'[j].id
      BY <2>1, HeadFirst
  <2> HIDE DEF g
  <2>3. g.id <= gestures /\ \A i \in DOMAIN uplinked : uplinked[i].id < g.id
      BY <2>2 DEF IInv, Fates, InOrder
  <2>4. GestureTypes'
    <3>1. acked \in SUBSET (1..gestures) /\ taken \in SUBSET (1..gestures)
        BY DEF IInv, GestureTypes
    <3>2. acked' \subseteq 1..gestures
        BY <2>1, <2>2, <2>3, <3>1, Counted, Zenon
    <3>3. taken' \subseteq 1..gestures
        BY <2>1, <2>2, <2>3, <3>1, Counted, Zenon
    <3> QED  BY <1>1, <2>2, <3>2, <3>3 DEF IInv, GestureTypes, Servers
  <2>5. InOrder'
      BY <1>1, <2>2 DEF IInv, InOrder
  <2>6. Fates'
      BY <1>1, <2>1, <2>2, <2>3, IdsAreNumbers DEF IInv, Fates, GestureRecords
  <2>7. Connections'
      BY <1>1, <2>2 DEF IInv, Connections, DisconnectedTouchNotQueued, NotReplayed
  <2> QED  BY <2>4, <2>5, <2>6, <2>7 DEF IInv
<1> QED  BY <1>2, <1>3

\* Every step of the tasks and of the world around them keeps the invariant.
LEMMA StepIInv == IInv /\ [Next]_vars => IInv'
<1> SUFFICES ASSUME IInv, [Next]_vars PROVE IInv'
    OBVIOUS
<1>1. CASE Environment
    BY <1>1, NothingMoves
    DEF Environment, WifiConnects, WifiDisconnects, HostSends, HostReceives, LinkBreaks,
        SocketTimeout, fate, fate_vars, input_vars, IInv, GestureTypes
<1>2. CASE touch_task
    BY <1>2, TouchKeeps
<1>3. CASE RenderTick
    BY <1>3, NothingMoves
    DEF RenderTick, fate, net_vars, input_vars, fate_vars, IInv, GestureTypes
<1>4. CASE ServerTask
  <2>1. CASE ConfigUp \/ AcceptFails \/ BackoffOver
      BY <2>1, NothingMoves
      DEF ConfigUp, AcceptFails, BackoffOver, fate, fate_vars, input_vars, Servers
  <2>2. CASE ReadFrames
      BY <2>2, NothingMoves
      DEF ReadFrames, fate, fate_vars, input_vars, IInv, GestureTypes
  <2>3. CASE \E g \in in_hand : WriteResumes(g)
      BY <2>3, WriteResumesKeeps
  <2> QED  BY <1>4, <2>1, <2>2, <2>3, AcceptKeeps, ReadEndsKeeps, WriteQueuedKeeps,
              WriteBlocksKeeps, WriteFailsKeeps DEF ServerTask
<1>5. CASE UNCHANGED vars
    BY <1>5, NothingMoves
    DEF vars, fate, net_vars, input_vars, fate_vars, IInv, GestureTypes
<1> QED  BY <1>1, <1>2, <1>3, <1>4, <1>5 DEF Next

\* The invariant holds throughout.
LEMMA IInvHolds == Spec => []IInv
BY InitIInv, StepIInv, PTL DEF Spec

-----------------------------------------------------------------------------
(***************************************************************************)
(* What the invariant gives.                                               *)
(***************************************************************************)
\* "Drop any gestures captured while disconnected: ... they are not replayed
\* when the host returns": a gesture only ever goes out on the connection it
\* was captured on.
THEOREM NothingReplayed == Spec => []NotReplayed
<1>1. IInv => NotReplayed
    BY DEF IInv, Connections
<1> QED  BY IInvHolds, <1>1, PTL

\* The queue only ever holds gestures made while the server was serving.
THEOREM DisconnectedStaysLocal == Spec => []DisconnectedTouchNotQueued
<1>1. IInv => DisconnectedTouchNotQueued
    BY DEF IInv, Connections
<1> QED  BY IInvHolds, <1>1, PTL

\* "Either uplink the gesture or play a local-only acknowledgement, never both".
THEOREM NeverBothHolds == Spec => []NeverBoth
<1>1. IInv => NeverBoth
    BY DEF IInv, Fates, NeverBoth, Ids
<1> QED  BY IInvHolds, <1>1, PTL

\* Gestures reach the socket in the order they were made, and at most once.
THEOREM UplinkKeepsOrder == Spec => []UplinkInOrder
<1>1. IInv => UplinkInOrder
    BY DEF IInv, InOrder, UplinkInOrder
<1> QED  BY IInvHolds, <1>1, PTL
=============================================================================
