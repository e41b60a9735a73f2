-------------------------------- MODULE Scene -------------------------------
(***************************************************************************)
(* The renderer, device/src/render.rs: the local idle loop, the behaviors  *)
(* that take over from it, and the picture each frame of render_task       *)
(* (main.rs) draws: which sprite, where, with which bubble and border.     *)
(*                                                                         *)
(* The frame counter runs for ever and every use of it is a remainder, so  *)
(* it is kept modulo FRAME_CYCLE, a multiple of all those divisors.        *)
(***************************************************************************)
EXTENDS ShiroSprites, AsciiText, SequencesExt

CONSTANTS
    FRAME_MS,           \* render period
    Updates,            \* updates the mailbox may hold: [animation, text, duration_ms]
    Arrivals,           \* bound: the frames at which it may hold one
    None                \* Rust's None

VARIABLES
    frame, active,      \* Scene
    drawn               \* the picture on the panel, if any (a set)

\* History: for how many frames the picture has been the same with no update
\* taken, and for how many frames of the local loop Shiro's eyes have not been
\* closed.
VARIABLES still, unblinked

vars == <<frame, active, drawn, still, unblinked>>

BLINK_PERIOD == 96
LOOK_PERIOD == 280
LOOK_START == 150
LOOK_LEN == 62
WALK_HALF_PERIOD == 110
FRAME_CYCLE == 20160
U16_MAX == 65535

\* Mutant of BLINK_LEN: the blink ends before the eyes are closed.
BLINK_LEN_short == 2

BLINK_LEN == 6

Animations == {"idle", "blink", "look_around", "confused", "walk", "happy", "play",
               "excited", "sleepy", "nap", "worried", "alert"}

TEXT_CAPACITY == 24
MAX_LINE_CHARS == 17

IsText(text) == Len(text) \in Nat /\ text = [i \in 1..Len(text) |-> text[i]]

ASSUME SceneAssumption ==
    /\ FRAME_MS \in Nat \ {0} /\ Arrivals \subseteq 0..FRAME_CYCLE - 1
    /\ \A u \in Updates :
          /\ u.animation \in Animations /\ u.duration_ms \in Nat
          /\ u.text = None \/ (IsText(u.text) /\ Len(u.text) <= TEXT_CAPACITY)
    /\ \A divisor \in {BLINK_PERIOD, LOOK_PERIOD, 64, 90} : FRAME_CYCLE % divisor = 0

-----------------------------------------------------------------------------
(***************************************************************************)
(* Motion.                                                                 *)
(***************************************************************************)
SIN ==
    LET quarter == <<0, 100, 200, 297, 392, 483, 569, 650, 724, 792, 851, 903, 946, 980, 1004,
                     1019, 1024>>
        rising(i) == quarter[IF i <= 16 THEN i + 1 ELSE 33 - i]
    IN  [i \in 0..63 |-> IF i < 32 THEN rising(i) ELSE -rising(i - 32)]

\* Division of integers in Rust: towards zero.
Quotient(a, b) == IF a >= 0 THEN a \div b ELSE -((-a) \div b)
Magnitude(n) == IF n >= 0 THEN n ELSE -n

wave(f, speed, phase, amplitude) == Quotient(SIN[(f * speed + phase) % 64] * amplitude, 1024)
wave_abs(f, speed, phase, amplitude) == Magnitude(wave(f, speed, phase, amplitude))

TimedPose(pose, frames, x, y) == [pose |-> pose, frames |-> frames, x |-> x, y |-> y]

\* Mutant of IDLE_LOOP: one pose, held.
IDLE_LOOP_held == <<TimedPose("Idle00", 90, 0, 0)>>

IDLE_LOOP == <<TimedPose("Idle00", 34, 0, 0), TimedPose("Idle01", 26, 0, 0),
               TimedPose("Idle02", 30, 0, 0)>>
BLINK_LOOP == <<TimedPose("Blink00", 2, 0, 0), TimedPose("Blink01", 3, 0, 0),
                TimedPose("Blink02", 2, 0, 0)>>
LOOK_LOOP == <<TimedPose("LookCenter", 10, 0, 0), TimedPose("LookLeft", 14, -1, 0),
               TimedPose("Listen00", 8, 0, 0), TimedPose("LookRight", 14, 1, 0),
               TimedPose("Listen00", 8, 0, 0), TimedPose("LookCenter", 8, 0, 0)>>
HAPPY_LOOP == <<TimedPose("HappyWag00", 6, -1, 0), TimedPose("HappyWag02", 5, 0, -2),
                TimedPose("HappyWag01", 6, 1, 0), TimedPose("HappyWag02", 5, 0, -2)>>
EXCITED_LOOP == <<TimedPose("Excited00", 5, 0, 0), TimedPose("Excited01", 4, 0, -2),
                  TimedPose("Excited02", 6, 0, 1)>>
PLAY_LOOP == <<TimedPose("Play00", 10, 0, 0), TimedPose("Play01", 10, 1, -1)>>
SLEEPY_LOOP == <<TimedPose("Sleepy00", 42, 0, 0), TimedPose("Sleepy01", 42, 0, 0)>>
NAP_LOOP == <<TimedPose("Nap00", 58, 0, 0), TimedPose("Nap01", 58, 0, 0)>>
WORRIED_LOOP == <<TimedPose("Worried00", 28, 0, 0), TimedPose("Worried01", 28, -1, 0)>>
CONFUSED_LOOP == <<TimedPose("Confused00", 18, -1, 0), TimedPose("Confused01", 18, 1, 0)>>
ALERT_LOOP == <<TimedPose("Alert00", 7, 0, -1), TimedPose("Alert01", 7, 0, 0)>>
WALK_RIGHT_LOOP == <<TimedPose("WalkRight00", 8, 0, 0), TimedPose("WalkRight01", 8, 0, -1)>>
WALK_LEFT_LOOP == <<TimedPose("WalkLeft00", 8, 0, 0), TimedPose("WalkLeft01", 8, 0, -1)>>

\* The frame at which pose i of a loop begins.
Begins(poses) ==
    LET begin[i \in 1..Len(poses) + 1] ==
            IF i = 1 THEN 0 ELSE begin[i - 1] + poses[i - 1].frames
    IN  begin

timed_pose(f, poses) ==
    LET begins == Begins(poses)
        phase == f % begins[Len(poses) + 1]
    IN  poses[CHOOSE i \in DOMAIN poses : phase \in begins[i]..begins[i + 1] - 1]

\* Mutant of Moved: the vertical offset is added twice.
Moved_twice(timed, dx, dy) == [pose |-> timed.pose, x |-> timed.x + dx, y |-> timed.y + 2 * dy]

Moved(timed, dx, dy) == [pose |-> timed.pose, x |-> timed.x + dx, y |-> timed.y + dy]

\* Mutant of Walking: the way back starts where the way out did.
Walking_jumps(f) ==
    LET step == f % WALK_HALF_PERIOD
        along == -18 + Quotient(step * 36, WALK_HALF_PERIOD - 1)
        bounce == wave_abs(f, 4, 0, 1)
        timed == timed_pose(f, IF f % (2 * WALK_HALF_PERIOD) < WALK_HALF_PERIOD
                               THEN WALK_RIGHT_LOOP ELSE WALK_LEFT_LOOP)
    IN  [pose |-> timed.pose, x |-> along, y |-> timed.y + bounce]

\* To the right in one half of the patrol, back in the other.
Walking(f) ==
    LET along == Quotient((f % WALK_HALF_PERIOD) * 36, WALK_HALF_PERIOD - 1)
        bounce == wave_abs(f, 4, 0, 1)
        right == f % (2 * WALK_HALF_PERIOD) < WALK_HALF_PERIOD
        timed == timed_pose(f, IF right THEN WALK_RIGHT_LOOP ELSE WALK_LEFT_LOOP)
    IN  [pose |-> timed.pose, x |-> IF right THEN -18 + along ELSE 18 - along,
         y |-> timed.y + bounce]

\* frame_for but for the border: g is the frame of the scene, f of the animation.
PoseAt(animation, g, f) ==
    CASE animation = "idle" -> Moved(timed_pose(f, IDLE_LOOP), 0, 0)
      [] animation = "blink" -> Moved(timed_pose(f, BLINK_LOOP), 0, wave(g, 1, 8, 1))
      [] animation = "look_around" -> Moved(timed_pose(f, LOOK_LOOP), 0, wave(g, 1, 16, 1))
      [] animation = "confused" ->
            Moved(timed_pose(f, CONFUSED_LOOP), wave(f, 5, 0, 1), wave(f, 2, 16, 1))
      [] animation = "walk" -> Walking(f)
      [] animation = "happy" ->
            Moved(timed_pose(f, HAPPY_LOOP), wave(f, 2, 0, 1), -wave_abs(f, 4, 16, 1))
      [] animation = "play" ->
            Moved(timed_pose(f, PLAY_LOOP), wave(f, 3, 0, 1), wave(f, 4, 16, 1))
      [] animation = "excited" -> Moved(timed_pose(f, EXCITED_LOOP), wave(f, 4, 0, 1), 0)
      [] animation = "sleepy" -> Moved(timed_pose(f, SLEEPY_LOOP), 0, 1 + wave(f, 1, 16, 1))
      [] animation = "nap" ->
            Moved(timed_pose(f, NAP_LOOP), wave(f, 1, 0, 1), wave(f, 1, 16, 1))
      [] animation = "worried" ->
            Moved(timed_pose(f, WORRIED_LOOP), wave(f, 3, 0, 1), 1 + wave(f, 1, 16, 1))
      [] animation = "alert" ->
            Moved(timed_pose(f, ALERT_LOOP), wave(f, 7, 0, 1), -wave_abs(f, 7, 16, 1))

-----------------------------------------------------------------------------
(***************************************************************************)
(* The text bubble.                                                        *)
(***************************************************************************)
\* Mutant of split_bubble_text: the first blank is taken, not the last.
split_bubble_text_first(text, max_line_chars) ==
    LET blanks == {i \in 1..max_line_chars : IsBlank(text[i])}
        split_at == IF blanks = {} THEN max_line_chars ELSE Min(blanks) - 1
        second == trim_start(SubSeq(text, split_at + 1, Len(text)))
    IN  IF Len(text) <= max_line_chars THEN <<text>>
        ELSE <<trim_end(SubSeq(text, 1, split_at))>> \o IF second = <<>> THEN <<>> ELSE <<second>>

\* The lines of the bubble: one, or two split at the last blank the first has
\* room for, or where its room ends.
split_bubble_text(text, max_line_chars) ==
    LET blanks == {i \in 1..max_line_chars : IsBlank(text[i])}
        split_at == IF blanks = {} THEN max_line_chars ELSE Max(blanks) - 1
        second == trim_start(SubSeq(text, split_at + 1, Len(text)))
    IN  IF Len(text) <= max_line_chars THEN <<text>>
        ELSE <<trim_end(SubSeq(text, 1, split_at))>> \o IF second = <<>> THEN <<>> ELSE <<second>>

\* Mutant of BubbleAt: the bubble is at the top.
BubbleAt_top(lines) ==
    LET longest == Max({Len(lines[i]) : i \in DOMAIN lines})
        width == Min({Max({longest * 6 + 14, 36}), 122})
    IN  [x |-> (CELL_WIDTH - width) \div 2, y |-> 30, width |-> width,
         height |-> Len(lines) * 10 + 8]

\* The rectangle draw_bubble fills.
BubbleAt(lines) ==
    LET longest == Max({Len(lines[i]) : i \in DOMAIN lines})
        width == Min({Max({longest * 6 + 14, 36}), 122})
        height == Len(lines) * 10 + 8
    IN  [x |-> (CELL_WIDTH - width) \div 2, y |-> CELL_HEIGHT - height - 2,
         width |-> width, height |-> height]

-----------------------------------------------------------------------------
(***************************************************************************)
(* Scene.                                                                  *)
(***************************************************************************)
frames_for(ms) == Min({Max({(ms + FRAME_MS - 1) \div FRAME_MS, 1}), U16_MAX})

apply_behavior(update) ==
    [behavior |-> update, frames_left |-> frames_for(update.duration_ms), elapsed |-> 0]

\* What the renderer does on its own at a frame of the scene.
local_animation(g) ==
    CASE g % BLINK_PERIOD < BLINK_LEN -> "blink"
      [] g % BLINK_PERIOD >= BLINK_LEN /\ g % LOOK_PERIOD \in LOOK_START..LOOK_START + LOOK_LEN - 1
            -> "look_around"
      [] OTHER -> "idle"

LocalFrame(animation, g) ==
    CASE animation = "blink" -> g % BLINK_PERIOD
      [] animation = "look_around" -> Max({(g % LOOK_PERIOD) - LOOK_START, 0})
      [] animation = "idle" -> g

\* What is on at a frame: the host's behavior, or else the local loop.
Playing(g, a) ==
    IF a # None
    THEN [animation |-> a.behavior.animation, anim_frame |-> a.elapsed, text |-> a.behavior.text]
    ELSE LET local == local_animation(g)
         IN  [animation |-> local, anim_frame |-> LocalFrame(local, g), text |-> None]

\* draw
Picture(g, a) ==
    LET on == Playing(g, a)
        at == PoseAt(on.animation, g, on.anim_frame)
        s == sprite(at.pose)
    IN  [pose |-> at.pose, x |-> at.x + s.x, y |-> at.y + s.y,
         lines |-> IF on.text = None THEN <<>> ELSE split_bubble_text(on.text, MAX_LINE_CHARS),
         border |-> IF on.animation = "alert" THEN 1 + wave_abs(on.anim_frame, 7, 0, 2) ELSE 0]

\* Two poses may have one stream.
SamePicture(p, q) ==
    /\ sprite(p.pose).data = sprite(q.pose).data
    /\ p.x = q.x /\ p.y = q.y /\ p.lines = q.lines /\ p.border = q.border

tick(a) ==
    CASE a = None -> None
      [] a # None /\ a.frames_left > 1 ->
            [a EXCEPT !.elapsed = Min({@ + 1, U16_MAX}), !.frames_left = @ - 1]
      [] OTHER -> None

\* wrapping_add: what u32::MAX leaves modulo FRAME_CYCLE is followed by 0, or by
\* the next remainder when the counter is not there yet.
LastFrame == LET half == 65536 % FRAME_CYCLE IN (half * half - 1) % FRAME_CYCLE
NextFrames(g) == {(g + 1) % FRAME_CYCLE} \cup (IF g = LastFrame THEN {0} ELSE {})

\* One iteration of render_task with what it found in the mailbox.
RenderFrame(update) ==
    LET on == IF update = None THEN active ELSE apply_behavior(update)
        picture == Picture(frame, on)
        same == update = None /\ \E p \in drawn : SamePicture(p, picture)
        eyes_closed == on = None /\ picture.pose = "Blink01"
    IN  /\ drawn' = {picture}
        /\ active' = tick(on)
        /\ frame' \in NextFrames(frame)
        /\ still' = IF same THEN still + 1 ELSE 0
        /\ unblinked' = IF on # None \/ eyes_closed THEN 0 ELSE unblinked + 1

Init ==
    /\ frame = 0 /\ active = None
    /\ drawn = {} /\ still = 0 /\ unblinked = 0

Next ==
    \/ RenderFrame(None)
    \/ /\ frame \in Arrivals
       /\ \E update \in Updates : RenderFrame(update)

Spec == Init /\ [][Next]_vars

-----------------------------------------------------------------------------
\* How many pixels the first n rows of each pose's stream paint.
PaintedAbove ==
    [pose \in PoseId |->
        LET rows == sprite(pose).data.rows
            painted[n \in 0..Len(rows)] == IF n = 0 THEN 0 ELSE painted[n - 1] + rows[n]
        IN  painted]

\* Less than a third of every sprite is below row 96 of its cell.
ASSUME RowsAssumption ==
    \A pose \in PoseId :
        LET s == sprite(pose)
            above == Min({Max({96 - s.y, 0}), s.height})
        IN  3 * (PaintedAbove[pose][s.height] - PaintedAbove[pose][above])
              < PaintedAbove[pose][s.height]

Painted(p) == PaintedAbove[p.pose][sprite(p.pose).height]

\* How many pixels of a picture's sprite are in the rows of the panel from top
\* to bottom.
PaintedIn(p, top, bottom) ==
    LET Row(y) == Min({Max({y - p.y, 0}), sprite(p.pose).height})
    IN  PaintedAbove[p.pose][Row(bottom + 1)] - PaintedAbove[p.pose][Row(top)]

\* How many pixels are beyond the panel's edges, given that no more than one
\* column can be.
Lost(p) ==
    LET s == sprite(p.pose)
        aside == (IF p.x < 0 THEN s.data.left ELSE 0)
                 + (IF p.x + s.width > CELL_WIDTH THEN s.data.right ELSE 0)
    IN  aside + Painted(p) - PaintedIn(p, 0, CELL_HEIGHT - 1)

\* The scene keeps its type, and a behavior's clock runs with what is left of it.
TypeOK ==
    /\ frame \in 0..FRAME_CYCLE - 1
    /\ active # None =>
          /\ active.behavior \in Updates
          /\ active.frames_left \in 1..U16_MAX /\ active.elapsed \in 1..U16_MAX
          /\ active.elapsed + active.frames_left = frames_for(active.behavior.duration_ms)
    /\ Cardinality(drawn) <= 1 /\ still \in Nat /\ unblinked \in Nat

\* "long-sleep burn-in micro-motion keeps the panel from holding a static frame":
\* left alone, no picture stays on the panel for four seconds (eighty frames),
\* in any behavior, when one ends, and when the frame counter wraps.
NeverStill == still < 80

\* The offsets of the motion never carry Shiro further than one row or column
\* over the panel's edge, nor with it more than a dozen pixels.
StaysOnPanel ==
    \A p \in drawn :
        /\ p.x >= -1 /\ p.x + sprite(p.pose).width <= CELL_WIDTH + 1
        /\ p.y >= -1 /\ p.y + sprite(p.pose).height <= CELL_HEIGHT + 1
        /\ Lost(p) <= 12

\* The bubble never covers as much as a third of Shiro ("optional text bubble
\* does not obscure the face"), whatever pose the behavior has moved it to.
BubbleLeavesShiro ==
    \A p \in drawn :
        p.lines # <<>> =>
            LET bubble == BubbleAt(p.lines)
            IN  3 * PaintedIn(p, bubble.y, bubble.y + bubble.height - 1) < Painted(p)

\* The lines are the text but for blanks where it is cut, and only a full line
\* ends inside a word.
LinesOf(text, lines) ==
    LET first == Len(lines[1])
        skipped == IF Len(lines) = 2 THEN Len(text) - Len(lines[2]) ELSE Len(text)
    IN  /\ Len(lines) \in 1..2 /\ first <= skipped
        /\ lines[1] = SubSeq(text, 1, first)
        /\ Len(lines) = 2 => lines[2] = SubSeq(text, skipped + 1, Len(text))
        /\ \A i \in first + 1..skipped : IsBlank(text[i])
        /\ Len(lines) = 2 /\ skipped = first => first = MAX_LINE_CHARS

\* No word of a text has more than eleven letters.
ShortWords(text) == \A i \in 1..Len(text) - 11 : \E j \in i..i + 11 : IsBlank(text[j])

\* Splitting a text loses no letter and cuts no word that a line has room for, and
\* unless a word has more than eleven letters every line is inside the bubble: six
\* columns a letter, and seven on either side.
TextFits ==
    \A p \in drawn :
        LET text == active.behavior.text
        IN  active # None /\ text # None =>
                /\ LinesOf(text, p.lines)
                /\ ShortWords(text) =>
                       \A i \in DOMAIN p.lines :
                           6 * Len(p.lines[i]) + 14 <= BubbleAt(p.lines).width

\* "Keep local idle rendering alive": left to itself Shiro closes its eyes at
\* least once in a blink period, wherever in the loop a behavior has ended.
BlinksWhenLeftAlone == unblinked <= BLINK_PERIOD

Offset == PoseAt(active.behavior.animation, frame, active.elapsed)

SameBehaviorGoesOn ==
    /\ active # None /\ active' # None
    /\ active'.behavior = active.behavior /\ active'.elapsed = active.elapsed + 1

\* Shiro moves, it does not jump: from one frame of a behavior to the next its
\* offset changes by three pixels at the most, where loops and waves start over
\* and where the patrol turns round included.
MovesSmoothly ==
    [][SameBehaviorGoesOn =>
         /\ Magnitude(Offset'.x - Offset.x) <= 3
         /\ Magnitude(Offset'.y - Offset.y) <= 3]_vars

=============================================================================
