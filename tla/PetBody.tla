------------------------------ MODULE PetBody -------------------------------
(***************************************************************************)
(* Is Shiro awake, drowsy, asleep or waking?  The turns of run_pet_loop    *)
(* (host/pet_loop.py) with the body model (host/body.py), the presence     *)
(* tracker (host/presence.py), the two drives of Affect the body reads     *)
(* (host/affect.py) and the rows they leave in the memory store, against   *)
(* owners who come, go and touch, a model that answers anything, and a     *)
(* process that may stop between any two steps.                            *)
(*                                                                         *)
(* A turn is four steps: what precedes the model's answer, what follows    *)
(* it, and the two saves.  All of a turn happens at the time it began.     *)
(* Energy and sleepiness are levels 0..MaxStat.                            *)
(***************************************************************************)
EXTENDS Integers

CONSTANTS
    None,
    SettleSeconds, DrowsyAfterSeconds, MinNapSeconds, WakingSeconds,
    EngagedWindow, ReturnMin, BurnInInterval,       \* times, in units of Gaps
    MaxStat,                                        \* the drives' upper end
    WellRestedEnergy, WellRestedSleepiness,         \* fully rested
    SleepyLevel, WithdrawnEnergy,                   \* sleepy
    PlayInviteMinEnergy,                            \* accepts a doubletap
    Recovery,           \* [animation |-> [energy, sleepiness]] it gives back
    InitialEnergy, InitialSleepiness,
    DriftPeriod,        \* a drive falls by one level in this time
    Gaps,               \* times between two turns
    NightStart, NightEnd,           \* the one late night of the horizon
    ModelAnimations,    \* what the model may answer
    MaxNow              \* bound on the clock

ASSUME PetBodyAssumption ==
    /\ \A c \in {SettleSeconds, DrowsyAfterSeconds, MinNapSeconds, WakingSeconds,
                 EngagedWindow, ReturnMin, BurnInInterval, DriftPeriod} : c \in Nat \ {0}
    /\ \A c \in {MaxStat, InitialEnergy, InitialSleepiness, WellRestedEnergy,
                 WellRestedSleepiness, SleepyLevel, WithdrawnEnergy, PlayInviteMinEnergy,
                 NightStart, NightEnd, MaxNow} : c \in Nat
    /\ InitialEnergy <= MaxStat /\ InitialSleepiness <= MaxStat
    /\ Gaps \subseteq Nat

BodyStates == {"awake", "drowsy", "sleeping", "waking"}
PresenceStates == {"engaged", "present_but_ignoring", "away"}
Animations == {"idle", "blink", "look_around", "confused", "walk", "happy", "play",
               "excited", "sleepy", "nap", "worried", "alert"}
SLEEP_ANIMATIONS == {"nap", "sleepy", "blink"}
DROWSY_ANIMATIONS == {"sleepy", "nap", "blink", "look_around", "confused", "idle"}
WAKING_ANIMATIONS == {"sleepy", "blink", "look_around", "confused", "idle"}
STATIC_ANIMATIONS == {"idle", "nap", "sleepy"}

ASSUME AnimationAssumption ==
    /\ ModelAnimations \subseteq Animations
    /\ Recovery \in [Animations -> [energy : Int, sleepiness : Int]]
    /\ None \notin Animations \cup PresenceStates \cup BodyStates

\* What a turn reacts to.  "idle" stands for every event that touches neither
\* the drives nor the body: nothing, the first turn, a presence signal, a
\* build or test that passed.
Touches == {"tap", "hold", "doubletap"}
Events == Touches \cup {"idle", "direct_message", "important_alert", "failed_result"}
ENGAGEMENT_SOURCES == Touches \cup {"direct_message"}
WAKE_TRIGGER_SOURCES == ENGAGEMENT_SOURCES \cup {"important_alert"}

VARIABLES
    now,                                            \* when the turn began
    phase,                                          \* how far the turn is
    presence, last_interaction, _away_since,        \* PresenceTracker
    energy, sleepiness, last_update,                \* Affect
    state, state_since, sleep_started_at,           \* BodyModel
    situation,                                      \* BodySituation of the turn
    last_animation, last_micromotion_at,            \* PetState
    affect_json, body_json                          \* the pet_state row

\* History: when the owner was last reported to be there, and since when the
\* frames of this process have shown one and the same pose.
VARIABLES last_seen, pose_since

tracker == <<presence, last_interaction, _away_since>>
affect == <<energy, sleepiness, last_update>>
body == <<state, state_since, sleep_started_at>>
pet_state == <<last_animation, last_micromotion_at>>
saved == <<affect_json, body_json>>
vars == <<now, phase, tracker, affect, body, situation, pet_state, saved, last_seen, pose_since>>

Least(a, b) == IF a <= b THEN a ELSE b
Larger(a, b) == IF a >= b THEN a ELSE b
Clamp(level) == Larger(0, Least(MaxStat, level))

IsLateNight(t) == NightStart <= t /\ t < NightEnd

-----------------------------------------------------------------------------
(***************************************************************************)
(* PresenceTracker: nearby is what the fused signals say of the owner.     *)
(***************************************************************************)
\* A recent interaction wins over the signals.
_classify(t, nearby) ==
    IF last_interaction' > 0 /\ t - last_interaction' <= EngagedWindow THEN "engaged"
    ELSE IF nearby THEN "present_but_ignoring"
    ELSE "away"

note_interaction(t, event) ==
    last_interaction' = IF event \in ENGAGEMENT_SOURCES THEN t ELSE last_interaction

\* Mutant of update: the start of an absence is kept from the one before.
update_keeps_since(t, nearby) ==
    /\ presence' = _classify(t, nearby)
    /\ _away_since' = IF presence' = "away" /\ _away_since = 0 THEN t ELSE _away_since
    /\ last_seen' = IF presence' = "away" THEN last_seen ELSE t

update(t, nearby) ==
    /\ presence' = _classify(t, nearby)
    /\ _away_since' = IF presence' = "away" /\ presence # "away" THEN t ELSE _away_since
    /\ last_seen' = IF presence' = "away" THEN last_seen ELSE t

\* report.returned_from_away
Returned(t) ==
    presence = "away" /\ presence' # "away" /\ Larger(0, t - _away_since) >= ReturnMin

-----------------------------------------------------------------------------
(***************************************************************************)
(* Affect, as far as the body reads it.                                    *)
(***************************************************************************)
\* Levels a drive falls between two calls of advance.
Drift(t) == IF last_update = 0 THEN 0 ELSE t \div DriftPeriod - last_update \div DriftPeriod

\* _apply_owner_effects on energy, a level at a time: a boop, an alert, a play
\* invite that is accepted or not, a failure.
OwnerEffect(level, event) ==
    IF event \in {"tap", "important_alert"} THEN Clamp(level + 1)
    ELSE IF event = "doubletap"
    THEN IF level >= PlayInviteMinEnergy THEN Clamp(level - 1) ELSE Clamp(level + 1)
    ELSE IF event = "failed_result" THEN Clamp(level - 1)
    ELSE level

\* affect.advance and the effects of the turn's event.
advance_affect(t, event) ==
    LET drifted == Clamp(energy - Drift(t))
        back == IF Returned(t) THEN Clamp(drifted + 1) ELSE drifted
    IN  /\ energy' = OwnerEffect(back, event)
        /\ sleepiness' = Clamp(sleepiness + Drift(t))
        /\ last_update' = t

WellRested(e, s) == e >= WellRestedEnergy /\ s <= WellRestedSleepiness
is_sleepy(e, s) == s >= SleepyLevel \/ e < WithdrawnEnergy

-----------------------------------------------------------------------------
(***************************************************************************)
(* BodyModel.                                                              *)
(***************************************************************************)
\* The states the model may ask for, and the one the body takes by itself.
Options(allowed, default) == [allowed |-> allowed, default |-> default]

\* _evaluate, by the state the body is in.
EvaluateSleeping(s) ==
    IF s.wake_trigger
    THEN Options({"sleeping", "drowsy", "waking"} \cup (IF s.reunion_perk THEN {"awake"} ELSE {}),
                 "waking")
    ELSE IF ~s.sleep_pressure /\ s.well_rested THEN Options({"drowsy", "waking", "awake"}, "waking")
    ELSE IF ~s.sleep_pressure /\ s.min_nap_elapsed THEN Options(BodyStates, "waking")
    ELSE Options({"sleeping", "drowsy"}, "sleeping")

EvaluateDrowsy(s) ==
    IF s.wake_trigger \/ s.engaged \/ ~s.sleep_pressure THEN Options({"drowsy", "awake"}, "awake")
    ELSE IF s.seconds_in_state >= DrowsyAfterSeconds
    THEN Options({"drowsy", "awake", "sleeping"}, "sleeping")
    ELSE Options({"drowsy", "awake"}, "drowsy")

EvaluateWaking(s) ==
    Options({"waking", "awake", "drowsy"},
            IF s.sleep_pressure /\ ~s.wake_trigger THEN "drowsy" ELSE "awake")

EvaluateAwake(s) ==
    IF s.sleep_pressure /\ ~s.engaged /\ ~s.wake_trigger
    THEN Options({"awake", "drowsy"},
                 IF s.seconds_in_state >= SettleSeconds THEN "drowsy" ELSE "awake")
    ELSE Options({"awake"}, "awake")

_evaluate(st, s) ==
    IF st = "sleeping" THEN EvaluateSleeping(s)
    ELSE IF st = "drowsy" THEN EvaluateDrowsy(s)
    ELSE IF st = "waking" THEN EvaluateWaking(s)
    ELSE EvaluateAwake(s)

\* Mutant of reunion_perk: touched by a returning owner it perks up, too.
reunion_perk_always(t, event) == Returned(t)

\* Only a return without active contact may perk straight up from sleep.
reunion_perk(t, event) == Returned(t) /\ event \notin WAKE_TRIGGER_SOURCES

\* What the body model knows of the turn, with the new report and drives.
Flags(t, event) ==
    LET rested == WellRested(energy', sleepiness') IN
    [event |-> event,
     returned |-> Returned(t),
     engaged |-> presence' = "engaged",
     well_rested |-> rested,
     late_night |-> IsLateNight(t),
     sleep_pressure |-> \/ is_sleepy(energy', sleepiness')
                        \/ IsLateNight(t)
                        \/ presence' = "away" /\ ~rested,
     wake_trigger |-> event \in WAKE_TRIGGER_SOURCES \/ Returned(t),
     reunion_perk |-> reunion_perk(t, event),
     seconds_in_state |-> Larger(0, t - state_since'),
     min_nap_elapsed |-> state' = "sleeping" /\ Larger(0, t - sleep_started_at') >= MinNapSeconds]

\* Waking is transient; times that were never set start now.
advance_body(t, event) ==
    LET since == IF state_since = 0 THEN t ELSE state_since
        awoken == state = "waking" /\ t - since >= WakingSeconds
    IN  /\ state' = IF awoken THEN "awake" ELSE state
        /\ state_since' = IF awoken THEN t ELSE since
        /\ sleep_started_at' =
              IF state = "sleeping" /\ sleep_started_at = 0 THEN t ELSE sleep_started_at
        /\ situation' = [flags |-> Flags(t, event), options |-> _evaluate(state', Flags(t, event))]

\* Mutant of _set_state: the start of a sleep survives it.
_set_state_keeps_start(target) ==
    /\ state' = target
    /\ state_since' = IF target = state THEN state_since ELSE now
    /\ sleep_started_at' =
          IF target = "sleeping" /\ sleep_started_at = 0 THEN now ELSE sleep_started_at

_set_state(target) ==
    /\ state' = target
    /\ state_since' = IF target = state THEN state_since ELSE now
    /\ sleep_started_at' = IF target = state THEN sleep_started_at
                           ELSE IF target = "sleeping" THEN now
                           ELSE 0

\* The frame is kept coherent with the state; only the one that falls asleep is
\* a real nap.
_clamp_behavior(animation, target, entered_sleep) ==
    IF target = "awake" THEN animation
    ELSE IF target = "sleeping" /\ entered_sleep THEN "nap"
    ELSE IF \/ target = "sleeping" /\ animation \in {"sleepy", "blink"}
            \/ target = "drowsy" /\ animation \in DROWSY_ANIMATIONS
            \/ target = "waking" /\ animation \in WAKING_ANIMATIONS
    THEN animation
    ELSE "sleepy"

-----------------------------------------------------------------------------
(***************************************************************************)
(* The turn.                                                               *)
(***************************************************************************)
\* From the wait to the prompt: tracker, drives, body.
BeginTurn(t, event, nearby) ==
    /\ phase = "wait"
    /\ now' = t
    /\ note_interaction(t, event)
    /\ update(t, nearby)
    /\ advance_affect(t, event)
    /\ advance_body(t, event)
    /\ phase' = "generate"
    /\ UNCHANGED <<pet_state, saved, pose_since>>

\* What comes out of the model and _apply_novelty: a fallback without a
\* proposal if the model is unavailable, any frame and any proposal if not.
Answers ==
    LET event == situation.flags.event
        fallback == IF event = "important_alert" THEN {"alert"}
                    ELSE {IF event \in Touches THEN "confused" ELSE "idle"}
                         \cup (ModelAnimations \ {"alert"})
    IN  [animation : fallback, proposed : {None}]
        \cup [animation : ModelAnimations, proposed : BodyStates \cup {None}]

\* The body state that results: a proposal that is not allowed is softened to
\* the default, and an alert always wins.
Target(answer) ==
    IF answer.animation = "alert" THEN "awake"
    ELSE IF answer.proposed \in situation.options.allowed THEN answer.proposed
    ELSE situation.options.default

\* Mutant of Flickers: the flicker comes late.
Flickers_late(animation, target) ==
    /\ target \in {"sleeping", "drowsy"} \/ animation \in STATIC_ANIMATIONS
    /\ animation = last_animation
    /\ last_micromotion_at > 0
    /\ now - last_micromotion_at > BurnInInterval

\* _burn_in_guardrail: the same static pose has been held for too long.
Flickers(animation, target) ==
    /\ target \in {"sleeping", "drowsy"} \/ animation \in STATIC_ANIMATIONS
    /\ animation = last_animation
    /\ last_micromotion_at > 0
    /\ now - last_micromotion_at >= BurnInInterval

StaysStill(animation, target) ==
    /\ target \in {"sleeping", "drowsy"} \/ animation \in STATIC_ANIMATIONS
    /\ animation = last_animation
    /\ last_micromotion_at > 0
    /\ now - last_micromotion_at < BurnInInterval

\* observe -> register_behavior
register_behavior(animation) ==
    /\ energy' = Clamp(energy + Recovery[animation].energy)
    /\ sleepiness' = Clamp(sleepiness + Recovery[animation].sleepiness)
    /\ UNCHANGED last_update

\* From the answer to the frame that is sent and observed.
Resolve(answer) ==
    LET target == Target(answer)
        clamped == _clamp_behavior(answer.animation, target, target = "sleeping" /\ state # "sleeping")
        frame == IF Flickers(clamped, target) THEN "blink" ELSE clamped
    IN  /\ phase = "generate"
        /\ _set_state(target)
        /\ last_micromotion_at' = IF StaysStill(clamped, target) THEN last_micromotion_at ELSE now
        /\ last_animation' = frame
        /\ register_behavior(frame)
        /\ pose_since' = IF frame = last_animation THEN pose_since ELSE now
        /\ phase' = "save_affect"
        /\ UNCHANGED <<now, tracker, situation, saved, last_seen>>

\* Mutant of save_body: the start of the sleep is not in the row.
save_body_no_start ==
    /\ phase = "save_body"
    /\ body_json' = [state |-> state, state_since |-> state_since, sleep_started_at |-> 0]
    /\ phase' = "wait"
    /\ UNCHANGED <<now, tracker, affect, body, situation, pet_state, affect_json, last_seen, pose_since>>

save_affect ==
    /\ phase = "save_affect"
    /\ affect_json' = [energy |-> energy, sleepiness |-> sleepiness, last_update |-> last_update,
                       last_interaction |-> last_interaction]
    /\ situation' = None
    /\ phase' = "save_body"
    /\ UNCHANGED <<now, tracker, affect, body, pet_state, body_json, last_seen, pose_since>>

save_body ==
    /\ phase = "save_body"
    /\ body_json' = [state |-> state, state_since |-> state_since, sleep_started_at |-> sleep_started_at]
    /\ phase' = "wait"
    /\ UNCHANGED <<now, tracker, affect, body, situation, pet_state, affect_json, last_seen, pose_since>>

\* The process stops, wherever it is, and another one restores what was saved.
Restart ==
    /\ LET a == IF affect_json = None
                THEN [energy |-> InitialEnergy, sleepiness |-> InitialSleepiness,
                      last_update |-> 0, last_interaction |-> 0]
                ELSE affect_json
           b == IF body_json = None
                THEN [state |-> "awake", state_since |-> 0, sleep_started_at |-> 0]
                ELSE body_json
       IN  /\ energy' = a.energy /\ sleepiness' = a.sleepiness /\ last_update' = a.last_update
           /\ last_interaction' = a.last_interaction
           /\ state' = b.state /\ state_since' = b.state_since
           /\ sleep_started_at' = b.sleep_started_at
    /\ presence' = None /\ _away_since' = 0
    /\ last_animation' = None /\ last_micromotion_at' = 0
    /\ situation' = None
    /\ phase' = "wait"
    /\ UNCHANGED <<now, saved, last_seen, pose_since>>

Init ==
    /\ now = 1 /\ phase = "wait"
    /\ presence = None /\ last_interaction = 0 /\ _away_since = 0
    /\ energy = InitialEnergy /\ sleepiness = InitialSleepiness /\ last_update = 0
    /\ state = "awake" /\ state_since = 0 /\ sleep_started_at = 0
    /\ situation = None
    /\ last_animation = None /\ last_micromotion_at = 0
    /\ affect_json = None /\ body_json = None
    /\ last_seen = 0 /\ pose_since = 1

Next ==
    \/ \E gap \in Gaps, event \in Events, nearby \in BOOLEAN :
          now + gap <= MaxNow /\ BeginTurn(now + gap, event, nearby)
    \/ phase = "generate" /\ \E answer \in Answers : Resolve(answer)
    \/ save_affect
    \/ save_body
    \/ Restart

Spec == Init /\ [][Next]_vars

-----------------------------------------------------------------------------
Levels == 0..MaxStat

BodyRows == [state : BodyStates, state_since : Nat, sleep_started_at : Nat]
AffectRows == [energy : Levels, sleepiness : Levels, last_update : Nat, last_interaction : Nat]

ASSUME RowAssumption == None \notin BodyRows

\* Every variable keeps its type; above all, the drives stay within bounds and
\* a body state that is not offered is never entered.
TypeOK ==
    /\ now \in Nat /\ phase \in {"wait", "generate", "save_affect", "save_body"}
    /\ presence \in PresenceStates \cup {None} /\ last_interaction \in Nat /\ _away_since \in Nat
    /\ energy \in Levels /\ sleepiness \in Levels /\ last_update \in Nat
    /\ [state |-> state, state_since |-> state_since, sleep_started_at |-> sleep_started_at] \in BodyRows
    /\ phase = "generate" =>
          /\ situation.options \in [allowed : SUBSET BodyStates, default : BodyStates]
          /\ situation.options.default \in situation.options.allowed
    /\ last_animation \in Animations \cup {None} /\ last_micromotion_at \in Nat
    /\ affect_json \in AffectRows \cup {None} /\ body_json \in BodyRows \cup {None}
    /\ last_seen \in Nat /\ pose_since \in Nat

ClockOf(st, since, started) ==
    IF st = "sleeping" THEN started > 0 /\ started = since ELSE started = 0

\* How long Shiro has slept is known exactly while it sleeps, in the process and
\* in the row a restart will read: every way into sleep sets the start, every
\* way out, alerts included, clears it.
SleepClock ==
    /\ ClockOf(state, state_since, sleep_started_at)
    /\ body_json # None => ClockOf(body_json.state, body_json.state_since, body_json.sleep_started_at)

\* Whatever the model answers, and whatever novelty, the body and the burn-in
\* guard make of it, the frame on the device is one the body state can show, and
\* an alert is shown by an awake Shiro only.
FrameMatchesBody ==
    last_animation # None /\ phase # "generate" =>
        /\ state = "sleeping" => last_animation \in SLEEP_ANIMATIONS
        /\ state = "drowsy" => last_animation \in DROWSY_ANIMATIONS
        /\ state = "waking" => last_animation \in WAKING_ANIMATIONS

\* No static pose is sent for longer than the burn-in interval, whatever the
\* body does in between.
PoseShifts ==
    phase # "generate" /\ last_animation \in STATIC_ANIMATIONS => now - pose_since < BurnInInterval

\* A sleeper who is touched or spoken to is not awake at once, not even if the
\* touch ends a long absence: only an alert gets it up.
GentleWake ==
    [][phase = "generate" /\ phase' = "save_affect" /\ state = "sleeping"
         /\ situation.flags.event \in ENGAGEMENT_SOURCES
         => state' # "awake" \/ last_animation' = "alert"]_vars

\* A reunion is reported only to an owner who has not been there for the whole of
\* ReturnMin, and then once: neither a restart nor a second absence lets the time
\* of an earlier one count.
ReunionIsEarned ==
    [][phase = "wait" /\ phase' = "generate" /\ situation'.flags.returned
         => now' - last_seen >= ReturnMin /\ last_seen' = now']_vars

\* "survive a host restart so a long nap is not reset to awake": a sleep that is
\* older than the turn under way goes on after a restart, with its start.
NapSurvivesRestart ==
    [][presence # None /\ presence' = None /\ state = "sleeping"
         /\ (phase = "wait" \/ sleep_started_at < now)
         => state' = "sleeping" /\ sleep_started_at' = sleep_started_at]_vars

=============================================================================
