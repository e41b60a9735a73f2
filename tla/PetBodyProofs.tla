---------------------------- MODULE PetBodyProofs ---------------------------
(***************************************************************************)
(* Proofs about PetBody.  The inductive invariant adds to the properties   *)
(* what ties the saved row to the sleep under way, the absence to the last *)
(* time the owner was seen, the burn-in timer to the pose, and what a      *)
(* touched sleeper is offered.                                             *)
(***************************************************************************)
EXTENDS PetBody, TLAPS

\* The clock has started, and the owner was not seen in the future.
ClockOK == now > 0 /\ last_seen <= now /\ pose_since > 0

\* The row has the sleep that was under way when the turn began.
SleepIsSaved ==
    state = "sleeping" /\ (phase \in {"wait", "generate"} \/ sleep_started_at < now) =>
        /\ body_json # None
        /\ body_json.state = "sleeping" /\ body_json.sleep_started_at = sleep_started_at

\* The owner has not been seen since the absence began.
AwaySinceSeen == presence = "away" => last_seen <= _away_since

\* The burn-in timer runs from the frame that brought the pose.
TimerRuns == last_animation \in STATIC_ANIMATIONS => last_micromotion_at = pose_since

\* A touched sleeper is offered neither to be awake nor to become it.
ContactOffers ==
    phase = "generate" /\ state = "sleeping" /\ situation.flags.event \in ENGAGEMENT_SOURCES =>
        "awake" \notin situation.options.allowed /\ situation.options.default # "awake"

IInv ==
    /\ TypeOK /\ ClockOK
    /\ SleepClock /\ SleepIsSaved
    /\ AwaySinceSeen
    /\ TimerRuns /\ PoseShifts
    /\ ContactOffers /\ FrameMatchesBody

-----------------------------------------------------------------------------
(***************************************************************************)
(* Drives and options.                                                     *)
(***************************************************************************)
LEMMA ClampLevel == ASSUME NEW l \in Int PROVE Clamp(l) \in Levels
BY PetBodyAssumption DEF Clamp, Larger, Least, Levels

\* What the owner does leaves a drive within its levels.
LEMMA EffectLevel == ASSUME NEW l \in Levels, NEW e PROVE OwnerEffect(l, e) \in Levels
<1>1. l + 1 \in Int /\ l - 1 \in Int /\ l \in Levels
    BY PetBodyAssumption DEF Levels
<1>2. Clamp(l + 1) \in Levels /\ Clamp(l - 1) \in Levels
    BY <1>1, ClampLevel
<1> QED  BY <1>1, <1>2 DEF OwnerEffect

\* Drift is a number of levels.
LEMMA DriftInt == ASSUME NEW t \in Nat, last_update \in Nat PROVE Drift(t) \in Int
<1>1. t \div DriftPeriod \in Int /\ last_update \div DriftPeriod \in Int
    BY PetBodyAssumption
<1> QED  BY <1>1 DEF Drift

\* What a body in a known state is offered contains what it does by itself.
LEMMA EvaluateOptions ==
    ASSUME NEW st \in BodyStates, NEW s
    PROVE  /\ _evaluate(st, s) \in [allowed : SUBSET BodyStates, default : BodyStates]
           /\ _evaluate(st, s).default \in _evaluate(st, s).allowed
<1>1. CASE st = "sleeping"
    BY <1>1 DEF _evaluate, EvaluateSleeping, Options, BodyStates
<1>2. CASE st = "drowsy"
    BY <1>2 DEF _evaluate, EvaluateDrowsy, Options, BodyStates
<1>3. CASE st = "waking"
    BY <1>3 DEF _evaluate, EvaluateWaking, Options, BodyStates
<1>4. CASE st = "awake"
    BY <1>4 DEF _evaluate, EvaluateAwake, Options, BodyStates
<1> QED  BY <1>1, <1>2, <1>3, <1>4 DEF BodyStates

\* A sleeper in contact with its owner does not perk up.
LEMMA EvaluateContact ==
    ASSUME NEW s, s.wake_trigger = TRUE, s.reunion_perk = FALSE
    PROVE  /\ "awake" \notin _evaluate("sleeping", s).allowed
           /\ _evaluate("sleeping", s).default # "awake"
BY DEF _evaluate, EvaluateSleeping, Options

-----------------------------------------------------------------------------
(***************************************************************************)
(* What precedes the answer.                                               *)
(***************************************************************************)
BodyRow == [state |-> state, state_since |-> state_since, sleep_started_at |-> sleep_started_at]

\* The row save_body writes is typed exactly when the body is.
LEMMA BodyRowType ==
    BodyRow \in BodyRows <=> state \in BodyStates /\ state_since \in Nat /\ sleep_started_at \in Nat
BY DEF BodyRow, BodyRows

\* What the first step of a turn does to the body, and what it offers it.
LEMMA BeginBody ==
    ASSUME IInv, NEW t \in Nat, t >= now, NEW event \in Events, NEW nearby \in BOOLEAN,
           BeginTurn(t, event, nearby)
    PROVE  /\ state' \in BodyStates /\ state_since' \in Nat /\ sleep_started_at' \in Nat
           /\ state' = "sleeping" => /\ state = "sleeping" /\ sleep_started_at' = sleep_started_at
                                     /\ state_since' = state_since
           /\ ClockOf(state', state_since', sleep_started_at')
           /\ situation'.options = _evaluate(state', situation'.flags)
           /\ situation'.flags = Flags(t, event)
<1>1. /\ state \in BodyStates /\ state_since \in Nat /\ sleep_started_at \in Nat
      /\ ClockOf(state, state_since, sleep_started_at)
    BY BodyRowType DEF IInv, TypeOK, SleepClock, BodyRow
<1>2. advance_body(t, event) /\ t > 0
    BY DEF BeginTurn, IInv, ClockOK, TypeOK
<1>3. state' \in BodyStates /\ state_since' \in Nat /\ sleep_started_at' \in Nat
    BY <1>1, <1>2 DEF advance_body, BodyStates
<1>4. state' = "sleeping" => /\ state = "sleeping" /\ sleep_started_at' = sleep_started_at
                             /\ state_since' = state_since
    BY <1>1, <1>2 DEF advance_body, ClockOf
<1>5. ClockOf(state', state_since', sleep_started_at')
    BY <1>1, <1>2 DEF advance_body, ClockOf
<1>6. situation' = [flags |-> Flags(t, event), options |-> _evaluate(state', Flags(t, event))]
    BY <1>2 DEF advance_body
<1> QED  BY <1>3, <1>4, <1>5, <1>6

\* What it does to the drives.
LEMMA BeginAffect ==
    ASSUME IInv, NEW t \in Nat, NEW event \in Events, advance_affect(t, event)
    PROVE  energy' \in Levels /\ sleepiness' \in Levels /\ last_update' \in Nat
<1>1. energy \in Int /\ sleepiness \in Int /\ Drift(t) \in Int
    BY DriftInt, PetBodyAssumption DEF IInv, TypeOK, Levels
<1> DEFINE drifted == Clamp(energy - Drift(t))
           back == IF Returned(t) THEN Clamp(drifted + 1) ELSE drifted
<1>2. energy - Drift(t) \in Int /\ sleepiness + Drift(t) \in Int
    BY <1>1
<1>3. drifted \in Levels /\ Clamp(sleepiness + Drift(t)) \in Levels
    BY <1>2, ClampLevel
<1>4. drifted + 1 \in Int
    BY <1>3, PetBodyAssumption DEF Levels
<1>5. Clamp(drifted + 1) \in Levels
    BY <1>4, ClampLevel
<1>6. back \in Levels
    BY <1>3, <1>5
<1>7. OwnerEffect(back, event) \in Levels
    BY <1>6, EffectLevel
<1>8. energy' = OwnerEffect(back, event) /\ sleepiness' = Clamp(sleepiness + Drift(t)) /\ last_update' = t
    BY DEF advance_affect
<1> QED  BY <1>3, <1>7, <1>8

\* What it does to the tracker.
LEMMA BeginTracker ==
    ASSUME IInv, NEW t \in Nat, t >= now, NEW event \in Events, NEW nearby \in BOOLEAN,
           BeginTurn(t, event, nearby)
    PROVE  /\ presence' \in PresenceStates /\ last_interaction' \in Nat /\ _away_since' \in Nat
           /\ last_seen' \in Nat /\ last_seen' <= t
           /\ presence' = "away" => last_seen' <= _away_since'
<1>1. note_interaction(t, event) /\ update(t, nearby)
    BY DEF BeginTurn
<1>2. presence' \in PresenceStates
    BY <1>1 DEF update, _classify, PresenceStates
<1>3. last_interaction' \in Nat
    BY <1>1 DEF note_interaction, IInv, TypeOK
<1>4. _away_since' \in Nat /\ last_seen' \in Nat
    BY <1>1 DEF update, IInv, TypeOK
<1>5. last_seen' <= t
    BY <1>1 DEF update, IInv, TypeOK, ClockOK
<1>6. presence' = "away" => last_seen' <= _away_since'
    BY <1>1 DEF update, IInv, TypeOK, ClockOK, AwaySinceSeen
<1> QED  BY <1>2, <1>3, <1>4, <1>5, <1>6

\* A touch is a wake trigger, and no reunion perk.
LEMMA ContactFlags ==
    ASSUME NEW t, NEW event, Flags(t, event).event \in ENGAGEMENT_SOURCES
    PROVE  Flags(t, event).wake_trigger = TRUE /\ Flags(t, event).reunion_perk = FALSE
<1>1. event \in WAKE_TRIGGER_SOURCES
    BY DEF Flags, WAKE_TRIGGER_SOURCES
<1> QED  BY <1>1 DEF Flags, reunion_perk

\* The first step of a turn preserves the inductive invariant.
LEMMA BeginIInv ==
    ASSUME IInv, NEW t \in Nat, t >= now, NEW event \in Events, NEW nearby \in BOOLEAN,
           BeginTurn(t, event, nearby)
    PROVE  IInv'
<1>1. /\ phase = "wait" /\ phase' = "generate" /\ now' = t
      /\ UNCHANGED <<last_animation, last_micromotion_at, affect_json, body_json, pose_since>>
    BY DEF BeginTurn, pet_state, saved
<1>2. TypeOK'
  <2>1. now' \in Nat /\ phase' \in {"wait", "generate", "save_affect", "save_body"}
      BY <1>1
  <2>2. energy' \in Levels /\ sleepiness' \in Levels /\ last_update' \in Nat
      BY BeginAffect DEF BeginTurn
  <2>3. (BodyRow \in BodyRows)'
      BY BeginBody, BodyRowType DEF BodyRow, BodyRows
  <2>4. /\ situation'.options \in [allowed : SUBSET BodyStates, default : BodyStates]
        /\ situation'.options.default \in situation'.options.allowed
      BY BeginBody, EvaluateOptions
  <2>5. /\ last_animation' \in Animations \cup {None} /\ last_micromotion_at' \in Nat
        /\ affect_json' \in AffectRows \cup {None} /\ body_json' \in BodyRows \cup {None}
        /\ pose_since' \in Nat
      BY <1>1 DEF IInv, TypeOK
  <2> QED  BY <2>1, <2>2, <2>3, <2>4, <2>5, BeginTracker DEF TypeOK, BodyRow
<1>3. ClockOK'
    BY <1>1, BeginTracker DEF IInv, ClockOK, TypeOK
<1>4. SleepClock'
    BY <1>1, BeginBody DEF IInv, SleepClock
<1>5. SleepIsSaved'
    BY <1>1, BeginBody DEF IInv, SleepIsSaved
<1>6. AwaySinceSeen'
    BY BeginTracker DEF AwaySinceSeen
<1>7. TimerRuns' /\ PoseShifts' /\ FrameMatchesBody'
    BY <1>1 DEF IInv, TimerRuns, PoseShifts, FrameMatchesBody
<1>8. ContactOffers'
    BY BeginBody, ContactFlags, EvaluateContact DEF ContactOffers
<1> QED  BY <1>2, <1>3, <1>4, <1>5, <1>6, <1>7, <1>8 DEF IInv

-----------------------------------------------------------------------------
(***************************************************************************)
(* What follows the answer.                                                *)
(***************************************************************************)
\* Any frame the guard and the clamp may make of an answer is one the target
\* state can show.
LEMMA ClampedFrame ==
    ASSUME NEW animation \in Animations, NEW target \in BodyStates, NEW entered \in BOOLEAN,
           NEW frame \in {_clamp_behavior(animation, target, entered), "blink"}
    PROVE  /\ frame \in Animations
           /\ target = "sleeping" => frame \in SLEEP_ANIMATIONS
           /\ target = "drowsy" => frame \in DROWSY_ANIMATIONS
           /\ target = "waking" => frame \in WAKING_ANIMATIONS
BY DEF _clamp_behavior, Animations, BodyStates, SLEEP_ANIMATIONS, DROWSY_ANIMATIONS,
       WAKING_ANIMATIONS

\* The target is the state the answer may ask for, or the default.
LEMMA TargetState ==
    ASSUME IInv, phase = "generate", NEW answer
    PROVE  /\ Target(answer) \in BodyStates
           /\ answer.animation # "alert" => Target(answer) \in situation.options.allowed
BY DEF IInv, TypeOK, Target, BodyStates

\* An answer shows one of the animations.
LEMMA AnswerType ==
    ASSUME NEW answer \in Answers PROVE answer.animation \in Animations
BY AnimationAssumption DEF Answers, Animations

\* Settling on the answer preserves the inductive invariant.
LEMMA ResolveIInv ==
    ASSUME IInv, NEW answer \in Answers, Resolve(answer) PROVE IInv'
<1> DEFINE target == Target(answer)
           entered == target = "sleeping" /\ state # "sleeping"
           clamped == _clamp_behavior(answer.animation, target, entered)
           frame == IF Flickers(clamped, target) THEN "blink" ELSE clamped
<1>1. /\ phase = "generate" /\ phase' = "save_affect"
      /\ UNCHANGED <<now, presence, last_interaction, _away_since, situation, affect_json,
                     body_json, last_seen>>
    BY DEF Resolve, tracker, saved
<1>2. /\ _set_state(target) /\ register_behavior(frame)
      /\ last_micromotion_at' = IF StaysStill(clamped, target) THEN last_micromotion_at ELSE now
      /\ last_animation' = frame
      /\ pose_since' = IF frame = last_animation THEN pose_since ELSE now
    BY DEF Resolve
<1>3. target \in BodyStates
    BY <1>1, TargetState
<1>4. /\ frame \in Animations
      /\ target = "sleeping" => frame \in SLEEP_ANIMATIONS
      /\ target = "drowsy" => frame \in DROWSY_ANIMATIONS
      /\ target = "waking" => frame \in WAKING_ANIMATIONS
  <2>1. entered \in BOOLEAN
      OBVIOUS
  <2>2. frame \in {clamped, "blink"}
      OBVIOUS
  <2> HIDE DEF target, entered, frame
  <2> QED  BY <1>3, <2>1, <2>2, AnswerType, ClampedFrame
<1>5. /\ now \in Nat /\ now > 0 /\ pose_since \in Nat /\ pose_since > 0 /\ last_micromotion_at \in Nat
      /\ state \in BodyStates /\ state_since \in Nat /\ sleep_started_at \in Nat
    BY BodyRowType DEF IInv, TypeOK, ClockOK, BodyRow
<1>6. state' = target /\ state' \in BodyStates /\ state_since' \in Nat /\ sleep_started_at' \in Nat
    BY <1>2, <1>3, <1>5 DEF _set_state
<1>7. TypeOK'
  <2>1. energy' \in Levels /\ sleepiness' \in Levels /\ last_update' \in Nat
    <3>1. Recovery[frame].energy \in Int /\ Recovery[frame].sleepiness \in Int
        BY <1>4, AnimationAssumption
    <3>2. energy + Recovery[frame].energy \in Int /\ sleepiness + Recovery[frame].sleepiness \in Int
        BY <3>1, PetBodyAssumption DEF IInv, TypeOK, Levels
    <3>3. last_update \in Nat
        BY DEF IInv, TypeOK
    <3> HIDE DEF frame
    <3> QED  BY <1>2, <3>2, <3>3, ClampLevel DEF register_behavior
  <2>2. (BodyRow \in BodyRows)'
      BY <1>6, BodyRowType DEF BodyRow, BodyRows
  <2>3. /\ last_animation' \in Animations \cup {None} /\ last_micromotion_at' \in Nat
        /\ pose_since' \in Nat
    <3> HIDE DEF target, clamped, frame
    <3> QED  BY <1>2, <1>4, <1>5
  <2> HIDE DEF target, clamped, frame
  <2> QED  BY <1>1, <2>1, <2>2, <2>3 DEF IInv, TypeOK, BodyRow
<1>8. ClockOK'
    BY <1>1, <1>2, <1>5 DEF IInv, ClockOK
<1>9. SleepClock'
  <2>1. ClockOf(state, state_since, sleep_started_at)
      BY DEF IInv, SleepClock
  <2>2. ClockOf(state', state_since', sleep_started_at')
      BY <1>2, <1>5, <2>1 DEF _set_state, ClockOf
  <2> QED  BY <1>1, <2>2 DEF IInv, SleepClock
<1>10. SleepIsSaved'
    BY <1>1, <1>2, <1>5 DEF IInv, SleepIsSaved, _set_state
<1>11. AwaySinceSeen'
    BY <1>1 DEF IInv, AwaySinceSeen
<1>12. "blink" \notin STATIC_ANIMATIONS
    BY DEF STATIC_ANIMATIONS
<1>13. ASSUME frame \in STATIC_ANIMATIONS, frame = last_animation
       PROVE  /\ last_micromotion_at' = pose_since' /\ now - pose_since' < BurnInInterval
    <2>1. frame = clamped /\ ~Flickers(clamped, target)
        BY <1>12, <1>13
    <2>2. clamped \in STATIC_ANIMATIONS /\ clamped = last_animation
        BY <1>13, <2>1
    <2>3. last_micromotion_at = pose_since
        BY <2>2 DEF IInv, TimerRuns
    <2>4. now - last_micromotion_at < BurnInInterval
        BY <1>5, <2>1, <2>2, <2>3, PetBodyAssumption DEF Flickers
    <2>5. StaysStill(clamped, target)
        BY <1>5, <2>2, <2>3, <2>4 DEF StaysStill
    <2> HIDE DEF target, clamped, frame
    <2> QED  BY <1>2, <1>13, <2>3, <2>4, <2>5
<1>14. ASSUME frame \in STATIC_ANIMATIONS, frame # last_animation
       PROVE  /\ last_micromotion_at' = pose_since' /\ now - pose_since' < BurnInInterval
    <2>1. frame = clamped
        BY <1>12, <1>14
    <2>2. ~StaysStill(clamped, target)
        BY <1>14, <2>1 DEF StaysStill
    <2>3. last_micromotion_at' = now /\ pose_since' = now
        BY <1>2, <1>14, <2>2
    <2> HIDE DEF target, clamped, frame
    <2> QED  BY <1>5, <2>3, PetBodyAssumption
<1>15. TimerRuns' /\ PoseShifts'
  <2> HIDE DEF target, clamped, frame
  <2> QED  BY <1>1, <1>2, <1>13, <1>14 DEF TimerRuns, PoseShifts
<1>16. ContactOffers'
    BY <1>1 DEF ContactOffers
<1>17. FrameMatchesBody'
  <2> HIDE DEF target, clamped, frame
  <2> QED  BY <1>2, <1>4, <1>6 DEF FrameMatchesBody
<1> QED  BY <1>7, <1>8, <1>9, <1>10, <1>11, <1>15, <1>16, <1>17 DEF IInv

-----------------------------------------------------------------------------
(***************************************************************************)
(* Saves and restarts.                                                     *)
(***************************************************************************)
LEMMA SaveAffectIInv == ASSUME IInv, save_affect PROVE IInv'
<1>1. /\ phase = "save_affect" /\ phase' = "save_body"
      /\ UNCHANGED <<now, presence, last_interaction, _away_since, energy, sleepiness, last_update,
                     state, state_since, sleep_started_at, last_animation, last_micromotion_at,
                     body_json, last_seen, pose_since>>
    BY DEF save_affect, tracker, affect, body, pet_state
<1>2. affect_json' \in AffectRows
    BY DEF save_affect, IInv, TypeOK, AffectRows
<1>3. TypeOK'
    BY <1>1, <1>2 DEF IInv, TypeOK
<1>4. ClockOK' /\ SleepClock' /\ AwaySinceSeen' /\ TimerRuns'
    BY <1>1 DEF IInv, ClockOK, SleepClock, AwaySinceSeen, TimerRuns
<1>5. SleepIsSaved'
    BY <1>1 DEF IInv, SleepIsSaved
<1>6. PoseShifts' /\ ContactOffers' /\ FrameMatchesBody'
    BY <1>1 DEF IInv, PoseShifts, ContactOffers, FrameMatchesBody
<1> QED  BY <1>3, <1>4, <1>5, <1>6 DEF IInv

\* Saving the body preserves the inductive invariant.
LEMMA SaveBodyIInv == ASSUME IInv, save_body PROVE IInv'
<1>1. /\ phase = "save_body" /\ phase' = "wait" /\ body_json' = BodyRow
      /\ UNCHANGED <<now, presence, last_interaction, _away_since, energy, sleepiness, last_update,
                     state, state_since, sleep_started_at, last_animation, last_micromotion_at,
                     affect_json, last_seen, pose_since>>
    BY DEF save_body, tracker, affect, body, pet_state, BodyRow
<1>2. BodyRow \in BodyRows
    BY DEF IInv, TypeOK, BodyRow
<1>3. /\ BodyRow.state = state /\ BodyRow.state_since = state_since
      /\ BodyRow.sleep_started_at = sleep_started_at
    BY DEF BodyRow
<1>4. BodyRow # None
    BY <1>2, RowAssumption
<1>5. TypeOK'
    BY <1>1, <1>2 DEF IInv, TypeOK
<1>6. ClockOK' /\ AwaySinceSeen' /\ TimerRuns'
    BY <1>1 DEF IInv, ClockOK, AwaySinceSeen, TimerRuns
<1>7. SleepClock' /\ SleepIsSaved'
    BY <1>1, <1>3, <1>4 DEF IInv, SleepClock, SleepIsSaved
<1>8. PoseShifts' /\ ContactOffers' /\ FrameMatchesBody'
    BY <1>1 DEF IInv, PoseShifts, ContactOffers, FrameMatchesBody
<1> QED  BY <1>5, <1>6, <1>7, <1>8 DEF IInv

\* A restart preserves the inductive invariant: the saved row is as good as the body.
LEMMA RestartIInv == ASSUME IInv, Restart PROVE IInv'
<1>1. /\ presence' = None /\ _away_since' = 0 /\ phase' = "wait"
      /\ last_animation' = None /\ last_micromotion_at' = 0
      /\ UNCHANGED <<now, affect_json, body_json, last_seen, pose_since>>
    BY DEF Restart, saved
<1>2. /\ body_json = None => state' = "awake" /\ state_since' = 0 /\ sleep_started_at' = 0
      /\ body_json # None => /\ state' = body_json.state /\ state_since' = body_json.state_since
                             /\ sleep_started_at' = body_json.sleep_started_at
    BY DEF Restart
<1>3. state' \in BodyStates /\ state_since' \in Nat /\ sleep_started_at' \in Nat
    BY <1>2 DEF IInv, TypeOK, BodyRows, BodyStates
<1>4. energy' \in Levels /\ sleepiness' \in Levels /\ last_update' \in Nat /\ last_interaction' \in Nat
  <2>1. CASE affect_json = None
      BY <2>1, PetBodyAssumption DEF Restart, Levels
  <2>2. CASE affect_json # None
      BY <2>2 DEF Restart, IInv, TypeOK, AffectRows
  <2> QED  BY <2>1, <2>2
<1>5. (BodyRow \in BodyRows)'
    BY <1>3 DEF BodyRow, BodyRows
<1>6. None \notin Animations /\ None # "away"
    BY AnimationAssumption DEF PresenceStates
<1>7. TypeOK'
    BY <1>1, <1>4, <1>5 DEF IInv, TypeOK, BodyRow
<1>8. ClockOK' /\ AwaySinceSeen'
    BY <1>1, <1>6 DEF IInv, ClockOK, AwaySinceSeen
<1>9. SleepClock' /\ SleepIsSaved'
    BY <1>1, <1>2 DEF IInv, SleepClock, ClockOf, SleepIsSaved
<1>10. TimerRuns' /\ PoseShifts' /\ ContactOffers' /\ FrameMatchesBody'
    BY <1>1, <1>6 DEF TimerRuns, PoseShifts, ContactOffers, FrameMatchesBody, STATIC_ANIMATIONS,
       Animations
<1> QED  BY <1>7, <1>8, <1>9, <1>10 DEF IInv

-----------------------------------------------------------------------------
\* A first start establishes the inductive invariant.
LEMMA InitIInv == ASSUME Init PROVE IInv
<1>1. TypeOK
    BY PetBodyAssumption DEF Init, TypeOK, BodyRows, BodyStates, Levels
<1>2. None \notin Animations /\ None # "away"
    BY AnimationAssumption DEF PresenceStates
<1> QED  BY <1>1, <1>2 DEF Init, IInv, ClockOK, SleepClock, ClockOf, SleepIsSaved, AwaySinceSeen,
            TimerRuns, PoseShifts, ContactOffers, FrameMatchesBody, STATIC_ANIMATIONS, Animations

\* A turn begins no earlier than the one before it.
LEMMA BeginTime ==
    ASSUME IInv, NEW gap \in Gaps PROVE now + gap \in Nat /\ now + gap >= now
BY PetBodyAssumption DEF IInv, TypeOK

\* Every step preserves the inductive invariant.
LEMMA StepIInv == ASSUME IInv, [Next]_vars PROVE IInv'
<1>1. ASSUME NEW gap \in Gaps, NEW event \in Events, NEW nearby \in BOOLEAN,
             BeginTurn(now + gap, event, nearby)
      PROVE  IInv'
    BY <1>1, BeginTime, BeginIInv
<1>2. ASSUME NEW answer \in Answers, Resolve(answer) PROVE IInv'
    BY <1>2, ResolveIInv
<1>3. CASE UNCHANGED vars
    BY <1>3 DEF vars, tracker, affect, body, pet_state, saved, IInv, TypeOK, ClockOK, SleepClock,
       SleepIsSaved, AwaySinceSeen, TimerRuns, PoseShifts, ContactOffers, FrameMatchesBody
<1> QED  BY <1>1, <1>2, <1>3, SaveAffectIInv, SaveBodyIInv, RestartIInv DEF Next

\* The inductive invariant holds in every reachable state.
LEMMA Inductive == Spec => []IInv
<1> QED  BY InitIInv, StepIInv, PTL DEF Spec

\* The drives stay within bounds and the body in its states, whatever the model
\* answers and wherever the process stops.
THEOREM TypeCorrect == Spec => []TypeOK
<1>1. IInv => TypeOK
    BY DEF IInv
<1> QED  BY <1>1, Inductive, PTL

\* The start of a sleep is known exactly while Shiro sleeps, here and in the row.
THEOREM SleepClockHolds == Spec => []SleepClock
<1>1. IInv => SleepClock
    BY DEF IInv
<1> QED  BY <1>1, Inductive, PTL

\* The frame that is shown is one the body state can show.
THEOREM FrameMatches == Spec => []FrameMatchesBody
<1>1. IInv => FrameMatchesBody
    BY DEF IInv
<1> QED  BY <1>1, Inductive, PTL

\* No static pose outlives the burn-in interval.
THEOREM NoBurnIn == Spec => []PoseShifts
<1>1. IInv => PoseShifts
    BY DEF IInv
<1> QED  BY <1>1, Inductive, PTL

\* Touched or spoken to, a sleeper does not jump up.
THEOREM WakesGently == Spec => GentleWake
<1>1. ASSUME IInv, NEW answer \in Answers, Resolve(answer), state = "sleeping",
             situation.flags.event \in ENGAGEMENT_SOURCES
      PROVE  state' # "awake" \/ last_animation' = "alert"
  <2>1. phase = "generate" /\ state' = Target(answer)
      BY <1>1 DEF Resolve, _set_state
  <2>2. CASE answer.animation # "alert"
      BY <1>1, <2>1, <2>2, TargetState DEF IInv, ContactOffers
  <2>3. CASE answer.animation = "alert"
    <3>1. Target(answer) = "awake"
        BY <2>3 DEF Target
    <3>2. \A entered : _clamp_behavior(answer.animation, Target(answer), entered) = "alert"
        BY <2>3, <3>1 DEF _clamp_behavior
    <3>3. ~Flickers("alert", "awake")
        BY DEF Flickers, STATIC_ANIMATIONS
    <3> QED  BY <1>1, <3>1, <3>2, <3>3 DEF Resolve
  <2> QED  BY <2>2, <2>3
<1>2. ASSUME IInv, [Next]_vars, phase = "generate", phase' = "save_affect", state = "sleeping",
             situation.flags.event \in ENGAGEMENT_SOURCES
      PROVE  state' # "awake" \/ last_animation' = "alert"
  <2>1. PICK answer \in Answers : Resolve(answer)
      BY <1>2 DEF Next, BeginTurn, save_affect, save_body, Restart, vars
  <2> QED  BY <1>1, <1>2, <2>1
<1>3. IInv /\ [Next]_vars =>
        [phase = "generate" /\ phase' = "save_affect" /\ state = "sleeping"
           /\ situation.flags.event \in ENGAGEMENT_SOURCES
           => state' # "awake" \/ last_animation' = "alert"]_vars
    BY <1>2
<1> QED  BY <1>3, Inductive, PTL DEF Spec, GentleWake

\* A reunion takes an absence of ReturnMin, and ends it.
THEOREM ReunionEarned == Spec => ReunionIsEarned
<1>1. ASSUME IInv, NEW t \in Nat, t >= now, NEW event \in Events, NEW nearby \in BOOLEAN,
             BeginTurn(t, event, nearby), situation'.flags.returned
      PROVE  now' - last_seen >= ReturnMin /\ last_seen' = now'
  <2>1. Flags(t, event).returned <=> Returned(t)
      BY DEF Flags
  <2>2. Returned(t)
      BY <1>1, <2>1, BeginBody
  <2>3. update(t, nearby) /\ now' = t
      BY <1>1 DEF BeginTurn
  <2>4. last_seen' = t
      BY <2>2, <2>3 DEF update, Returned
  <2>5. presence = "away" /\ t - _away_since >= ReturnMin
      BY <1>1, <2>2, PetBodyAssumption DEF Returned, Larger, IInv, TypeOK
  <2> QED  BY <1>1, <2>3, <2>4, <2>5, PetBodyAssumption DEF IInv, TypeOK, AwaySinceSeen
<1>2. ASSUME IInv, [Next]_vars, phase = "wait", phase' = "generate", situation'.flags.returned
      PROVE  now' - last_seen >= ReturnMin /\ last_seen' = now'
  <2>1. PICK gap \in Gaps, event \in Events, nearby \in BOOLEAN : BeginTurn(now + gap, event, nearby)
      BY <1>2 DEF Next, Resolve, save_affect, save_body, Restart, vars
  <2> QED  BY <1>1, <1>2, <2>1, BeginTime
<1>3. IInv /\ [Next]_vars =>
        [phase = "wait" /\ phase' = "generate" /\ situation'.flags.returned
           => now' - last_seen >= ReturnMin /\ last_seen' = now']_vars
    BY <1>2
<1> QED  BY <1>3, Inductive, PTL DEF Spec, ReunionIsEarned

\* A sleep older than the turn under way survives the end of the process.
THEOREM NapSurvives == Spec => NapSurvivesRestart
<1>1. ASSUME IInv, [Next]_vars, presence # None, presence' = None, state = "sleeping",
             phase = "wait" \/ sleep_started_at < now
      PROVE  state' = "sleeping" /\ sleep_started_at' = sleep_started_at
  <2>1. Restart
    <3>1. ASSUME NEW gap \in Gaps, NEW event \in Events, NEW nearby \in BOOLEAN,
                 BeginTurn(now + gap, event, nearby)
          PROVE  FALSE
      <4>1. presence' \in PresenceStates
          BY <1>1, <3>1, BeginTime, BeginTracker
      <4> QED  BY <1>1, <4>1, AnimationAssumption
    <3> QED  BY <1>1, <3>1 DEF Next, Resolve, save_affect, save_body, vars, tracker
  <2>2. body_json # None /\ body_json.state = "sleeping" /\ body_json.sleep_started_at = sleep_started_at
      BY <1>1 DEF IInv, SleepIsSaved
  <2> QED  BY <2>1, <2>2 DEF Restart
<1>2. IInv /\ [Next]_vars =>
        [presence # None /\ presence' = None /\ state = "sleeping"
           /\ (phase = "wait" \/ sleep_started_at < now)
           => state' = "sleeping" /\ sleep_started_at' = sleep_started_at]_vars
    BY <1>1
<1> QED  BY <1>2, Inductive, PTL DEF Spec, NapSurvivesRestart

=============================================================================
