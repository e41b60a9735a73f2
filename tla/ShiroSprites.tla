---------------------------- MODULE ShiroSprites ----------------------------
(***************************************************************************)
(* The generated sprite tables of device/src/shiro_sprites.rs: for every   *)
(* pose the box its stream is drawn in, and of the stream of               *)
(* transparent and solid runs what tells pictures apart and says what an   *)
(* edge of the panel or the text bubble takes from them: how many pixels   *)
(* it paints in each row of the box, how many in the box's first and last  *)
(* column, and the highest palette entry it names.  Where a row's pixels   *)
(* are and which colours they have is left out.  Streams that are the same *)
(* byte for byte are the same definition.                                  *)
(***************************************************************************)
EXTENDS Integers, Sequences, FiniteSetsExt

CELL_WIDTH == 128
CELL_HEIGHT == 128
POSE_COUNT == 32
PALETTE_LEN == 24

Stream(left, right, palette, rows) ==
    [left |-> left, right |-> right, palette |-> palette, rows |-> rows]

POSE_IDLE_00 ==
    Stream(7, 2, 23, <<
        10, 14, 16, 18, 20, 21, 22, 22, 23, 22, 21, 11, 9, 15, 25, 26, 33, 36, 41, 45, 48, 51, 53,
        55, 57, 60, 61, 63, 64, 65, 66, 66, 68, 69, 70, 70, 71, 72, 72, 71, 74, 79, 83, 84, 85, 86,
        86, 85, 84, 82, 79, 78, 77, 71, 69, 68, 64, 61, 59, 57, 53, 48, 49, 47, 46, 39, 26, 27, 27,
        27, 28, 29, 29, 29, 31, 31, 33, 42, 49, 56, 60, 63, 62, 64, 63, 64, 66, 66, 67, 67, 67, 67,
        66, 65, 63, 61, 53, 40, 12, 7>>)
POSE_BLINK_01 ==
    Stream(7, 4, 23, <<
        4, 11, 15, 18, 20, 21, 23, 39, 51, 57, 60, 52, 47, 47, 50, 53, 55, 57, 58, 59, 61, 75, 79,
        81, 82, 84, 85, 86, 84, 84, 83, 82, 81, 80, 78, 76, 73, 68, 66, 65, 64, 63, 61, 60, 57, 54,
        51, 48, 42, 42, 40, 38, 24, 24, 25, 26, 26, 26, 27, 28, 28, 28, 35, 41, 48, 53, 55, 57, 57,
        59, 59, 61, 61, 62, 63, 62, 62, 60, 59, 57, 54, 43, 37, 9, 5>>)
POSE_EXCITED_01 ==
    Stream(6, 3, 23, <<
        5, 10, 12, 15, 16, 18, 19, 19, 26, 29, 33, 32, 29, 27, 31, 45, 50, 54, 54, 60, 60, 59, 60,
        62, 61, 62, 62, 62, 62, 62, 63, 64, 65, 66, 66, 67, 68, 68, 68, 67, 68, 67, 67, 66, 65, 64,
        63, 62, 61, 58, 56, 53, 51, 48, 44, 42, 42, 41, 40, 39, 31, 30, 36, 42, 46, 55, 58, 60, 61,
        61, 62, 63, 62, 62, 62, 61, 60, 59, 57, 54, 52, 48, 44, 37, 31, 29, 26, 25, 25, 26, 25, 22,
        21, 17, 12, 9, 6, 5, 3, 3, 4, 2>>)
POSE_HAPPY_WAG_00 ==
    Stream(2, 3, 23, <<
        10, 14, 16, 17, 19, 20, 21, 21, 22, 21, 16, 8, 14, 20, 24, 28, 32, 37, 41, 43, 46, 48, 50,
        52, 53, 54, 56, 58, 59, 59, 60, 61, 61, 62, 62, 63, 62, 72, 75, 75, 76, 76, 76, 75, 74, 71,
        70, 68, 65, 63, 61, 57, 53, 48, 45, 45, 45, 44, 43, 43, 41, 35, 27, 30, 29, 30, 34, 37, 40,
        42, 43, 45, 45, 48, 51, 54, 57, 59, 61, 65, 67, 66, 66, 66, 66, 64, 63, 59, 57, 49, 47, 44,
        40, 21, 7>>)
POSE_HAPPY_WAG_01 ==
    Stream(6, 3, 23, <<
        7, 11, 14, 17, 18, 19, 19, 18, 18, 17, 22, 31, 32, 33, 35, 39, 41, 44, 46, 48, 50, 50, 52,
        53, 54, 55, 55, 60, 65, 67, 69, 70, 71, 72, 72, 71, 69, 69, 67, 66, 62, 61, 57, 51, 49, 47,
        44, 41, 39, 34, 30, 26, 26, 25, 34, 40, 43, 45, 46, 47, 50, 52, 53, 54, 53, 53, 52, 53, 53,
        52, 50, 51, 50, 50, 50, 50, 50, 50, 49, 49, 47, 45, 42, 34>>)
POSE_NAP_00 ==
    Stream(6, 6, 17, <<
        12, 40, 49, 53, 55, 57, 59, 59, 60, 60, 60, 60, 56, 52, 58, 65, 66, 71, 72, 75, 76, 78, 79,
        80, 82, 83, 83, 85, 85, 86, 86, 87, 87, 88, 88, 88, 89, 88, 88, 88, 90, 91, 91, 91, 92, 92,
        91, 91, 90, 89, 85, 79, 66, 52, 26, 24, 22, 17, 3, 0, 0, 0, 0, 0, 0, 0, 0, 0, 0, 0, 0, 0, 0,
        0, 0, 0, 0, 0, 0, 0, 0, 0, 4, 9>>)
POSE_ALERT_00 ==
    Stream(4, 5, 23, <<
        10, 16, 21, 23, 25, 27, 27, 27, 27, 26, 26, 24, 22, 21, 21, 20, 20, 19, 22, 35, 42, 48, 51,
        54, 52, 52, 50, 50, 53, 55, 55, 57, 59, 60, 61, 62, 63, 63, 64, 65, 65, 65, 65, 65, 65, 65,
        65, 65, 63, 63, 62, 61, 60, 58, 56, 54, 51, 48, 44, 38, 27, 22, 23, 24, 25, 25, 25, 25, 27,
        27, 27, 28, 31, 37, 39, 43, 48, 50, 52, 53, 53, 55, 56, 56, 58, 58, 56, 56, 55, 53, 51, 46,
        38, 35, 11, 9>>)
POSE_CONFUSED_00 ==
    Stream(2, 4, 23, <<
        3, 9, 12, 15, 18, 19, 20, 21, 21, 21, 20, 12, 10, 16, 18, 23, 28, 30, 35, 37, 39, 41, 44,
        46, 47, 49, 51, 52, 53, 54, 54, 55, 56, 57, 58, 57, 58, 58, 57, 58, 57, 57, 57, 56, 58, 58,
        59, 58, 58, 59, 59, 58, 56, 57, 57, 57, 59, 58, 57, 57, 58, 58, 56, 55, 50, 45, 37, 33, 31,
        28, 28, 29, 30, 31, 37, 46, 53, 56, 58, 58, 61, 61, 61, 62, 63, 63, 62, 62, 61, 59, 57, 54,
        48, 37, 11, 7>>)
POSE_WORRIED_00 ==
    Stream(3, 7, 23, <<
        2, 15, 25, 30, 33, 38, 40, 44, 46, 50, 54, 58, 60, 62, 64, 66, 69, 72, 74, 75, 77, 78, 79,
        80, 81, 82, 82, 81, 79, 76, 73, 71, 71, 70, 69, 67, 65, 62, 59, 54, 46, 42, 38, 37, 36, 33,
        24, 26, 26, 26, 27, 28, 28, 34, 38, 41, 44, 48, 50, 52, 54, 54, 56, 56, 58, 59, 58, 58, 57,
        55, 54, 52, 47, 39, 35, 10, 6>>)
POSE_EXCITED_02 ==
    Stream(1, 2, 23, <<
        12, 14, 15, 17, 18, 18, 18, 18, 23, 28, 28, 33, 37, 41, 45, 47, 48, 50, 52, 53, 55, 56, 57,
        58, 69, 74, 76, 77, 78, 77, 77, 74, 72, 71, 67, 66, 63, 62, 57, 55, 53, 52, 54, 57, 54, 54,
        51, 50, 45, 46, 47, 46, 44, 43, 46, 46, 46, 46, 43, 41, 40, 43, 44, 45, 46, 48, 50, 50, 50,
        49, 50, 52, 52, 51, 48, 45, 42, 39, 33, 28, 17, 13, 13, 12, 11, 11, 12, 7, 9, 8, 8, 7, 7, 6,
        6, 1>>)
POSE_LISTEN_00 ==
    Stream(3, 4, 23, <<
        4, 11, 15, 16, 18, 19, 20, 21, 21, 24, 28, 28, 29, 33, 36, 39, 44, 46, 47, 52, 55, 55, 56,
        61, 69, 71, 72, 73, 74, 72, 73, 72, 71, 70, 69, 70, 68, 68, 66, 64, 63, 60, 55, 51, 47, 46,
        45, 42, 41, 41, 41, 41, 40, 38, 32, 23, 24, 24, 25, 25, 25, 26, 27, 27, 34, 38, 39, 45, 48,
        49, 52, 52, 53, 55, 56, 56, 56, 56, 55, 55, 53, 51, 48, 39, 36, 31, 8, 5>>)
POSE_LOOK_LEFT ==
    Stream(2, 7, 23, <<
        2, 15, 20, 24, 28, 31, 34, 38, 39, 41, 49, 54, 58, 59, 62, 63, 64, 65, 64, 65, 66, 65, 65,
        63, 63, 61, 60, 55, 54, 53, 53, 52, 51, 50, 48, 47, 43, 42, 39, 35, 28, 23, 23, 24, 25, 26,
        27, 29, 36, 39, 42, 42, 44, 45, 46, 47, 48, 50, 53, 55, 56, 57, 57, 58, 58, 57, 56, 55, 54,
        52, 48, 44, 42, 39, 9, 5>>)
POSE_LOOK_RIGHT ==
    Stream(6, 12, 23, <<
        2, 15, 21, 28, 41, 50, 54, 56, 58, 60, 61, 62, 63, 61, 62, 59, 57, 54, 56, 56, 56, 57, 58,
        58, 58, 58, 58, 58, 58, 58, 57, 57, 57, 57, 54, 54, 52, 51, 50, 47, 45, 42, 39, 35, 27, 20,
        22, 23, 23, 24, 25, 25, 27, 27, 27, 29, 29, 29, 30, 33, 39, 41, 43, 47, 51, 53, 54, 54, 57,
        58, 58, 59, 59, 58, 59, 57, 56, 53, 50, 41, 39, 33, 9, 1>>)
POSE_PLAY_00 ==
    Stream(4, 3, 23, <<
        10, 19, 47, 62, 71, 80, 83, 86, 88, 90, 88, 82, 73, 66, 67, 64, 61, 62, 62, 64, 64, 64, 64,
        65, 67, 69, 69, 69, 68, 68, 65, 63, 65, 65, 65, 64, 63, 61, 59, 58, 53, 50, 46, 45, 45, 45,
        44, 43, 43, 42, 41, 40, 39, 39, 38, 38, 45, 47, 53, 54, 57, 59, 60, 61, 62, 63, 64, 65, 66,
        65, 65, 63, 62, 61, 57, 52, 44, 38, 9>>)
POSE_ALERT_01 ==
    Stream(5, 6, 23, <<
        11, 23, 28, 33, 36, 49, 60, 64, 77, 84, 87, 89, 89, 87, 85, 83, 81, 77, 74, 71, 69, 67, 62,
        62, 63, 62, 62, 62, 62, 61, 61, 60, 59, 57, 55, 55, 53, 50, 46, 43, 38, 30, 22, 22, 23, 24,
        24, 25, 25, 26, 26, 26, 27, 27, 28, 28, 29, 29, 34, 41, 44, 48, 49, 52, 52, 54, 55, 55, 56,
        57, 56, 55, 54, 53, 51, 48, 37, 33, 11, 7>>)
POSE_SLEEPY_00 ==
    Stream(2, 11, 17, <<
        6, 24, 41, 51, 55, 58, 60, 62, 70, 75, 77, 77, 77, 77, 73, 72, 72, 72, 73, 76, 76, 77, 79,
        81, 83, 84, 85, 86, 87, 87, 88, 87, 88, 87, 86, 86, 85, 83, 83, 84, 85, 86, 86, 86, 86, 86,
        85, 84, 82, 79, 58, 32, 30, 26, 22, 8>>)
POSE_IDLE_01 == POSE_IDLE_00
POSE_IDLE_02 == POSE_IDLE_00
POSE_BLINK_00 == POSE_IDLE_00
POSE_BLINK_02 == POSE_IDLE_00
POSE_LOOK_CENTER == POSE_LISTEN_00
POSE_HAPPY_WAG_02 == POSE_EXCITED_01
POSE_EXCITED_00 == POSE_EXCITED_01
POSE_PLAY_01 == POSE_PLAY_00
POSE_SLEEPY_01 == POSE_SLEEPY_00
POSE_NAP_01 ==
    Stream(6, 6, 17, <<
        12, 40, 49, 53, 55, 57, 59, 59, 60, 60, 60, 60, 56, 52, 58, 65, 66, 71, 72, 75, 76, 78, 79,
        80, 82, 83, 83, 85, 85, 86, 86, 87, 87, 88, 88, 88, 89, 88, 88, 88, 90, 91, 91, 91, 92, 92,
        91, 91, 90, 89, 85, 79, 66, 52, 26, 24, 22, 17, 3, 0, 0, 0, 0, 0, 0, 0, 0, 0, 0, 0, 0, 0, 0,
        0, 0, 0, 0, 0, 0, 0, 0, 0, 4>>)
POSE_WORRIED_01 == POSE_WORRIED_00
POSE_CONFUSED_01 ==
    Stream(4, 2, 23, <<
        3, 9, 12, 15, 18, 19, 20, 21, 21, 21, 20, 12, 10, 16, 18, 23, 28, 30, 35, 37, 39, 41, 44,
        46, 47, 49, 51, 52, 53, 54, 54, 55, 56, 57, 58, 57, 58, 58, 57, 58, 57, 57, 57, 56, 58, 58,
        59, 58, 58, 59, 59, 58, 56, 57, 57, 57, 59, 58, 57, 57, 58, 58, 56, 55, 50, 45, 37, 33, 31,
        28, 28, 29, 30, 31, 37, 46, 53, 56, 58, 58, 61, 61, 61, 62, 63, 63, 62, 62, 61, 59, 57, 54,
        48, 37, 11, 7>>)
POSE_WALK_LEFT_00 ==
    Stream(2, 7, 23, <<
        2, 15, 20, 24, 28, 31, 34, 38, 39, 41, 49, 54, 58, 59, 62, 63, 64, 65, 64, 65, 66, 65, 65,
        63, 63, 61, 60, 55, 54, 53, 53, 52, 51, 50, 48, 47, 43, 42, 39, 35, 28, 23, 23, 24, 25, 26,
        27, 29, 36, 39, 42, 42, 44, 45, 46, 47, 48, 50, 51, 52, 53, 53, 53, 53, 53, 52, 51, 50, 49,
        48, 44, 43, 42, 22, 8, 3>>)
POSE_WALK_LEFT_01 ==
    Stream(2, 7, 23, <<
        2, 15, 20, 24, 28, 31, 34, 38, 39, 41, 49, 54, 58, 59, 62, 63, 64, 65, 64, 65, 66, 65, 65,
        63, 63, 61, 60, 55, 54, 53, 53, 52, 51, 50, 48, 47, 43, 42, 39, 35, 28, 23, 23, 24, 25, 26,
        27, 29, 36, 39, 42, 42, 44, 45, 46, 47, 48, 50, 47, 49, 50, 51, 51, 52, 52, 51, 50, 49, 48,
        46, 42, 38, 36, 24, 6, 2>>)
POSE_WALK_RIGHT_00 ==
    Stream(6, 12, 23, <<
        2, 15, 21, 28, 41, 50, 54, 56, 58, 60, 61, 62, 63, 61, 62, 59, 57, 54, 56, 56, 56, 57, 58,
        58, 58, 58, 58, 58, 58, 58, 57, 57, 57, 57, 54, 54, 52, 51, 50, 47, 45, 42, 39, 35, 27, 20,
        22, 23, 23, 24, 25, 25, 27, 27, 27, 29, 29, 29, 30, 33, 39, 41, 43, 47, 51, 53, 54, 54, 57,
        55, 55, 56, 56, 55, 56, 54, 53, 50, 47, 38, 36, 30, 9, 1>>)
POSE_WALK_RIGHT_01 ==
    Stream(6, 12, 23, <<
        2, 15, 21, 28, 41, 50, 54, 56, 58, 60, 61, 62, 63, 61, 62, 59, 57, 54, 56, 56, 56, 57, 58,
        58, 58, 58, 58, 58, 58, 58, 57, 57, 57, 57, 54, 54, 52, 51, 50, 47, 45, 42, 39, 35, 27, 20,
        22, 23, 23, 24, 25, 25, 27, 27, 27, 29, 29, 29, 30, 33, 39, 41, 43, 47, 51, 53, 54, 54, 57,
        52, 52, 53, 53, 52, 53, 51, 50, 47, 44, 35, 33, 27, 9, 1>>)

-----------------------------------------------------------------------------
Sprite(x, y, width, height, data) ==
    [x |-> x, y |-> y, width |-> width, height |-> height, data |-> data]

SPRITES == [
    Idle00      |-> Sprite(12, 19, 101, 100, POSE_IDLE_00),
    Blink01     |-> Sprite(15, 33, 97, 85, POSE_BLINK_01),
    Excited01   |-> Sprite(17, 16, 84, 102, POSE_EXCITED_01),
    HappyWag00  |-> Sprite(1, 23, 92, 95, POSE_HAPPY_WAG_00),
    HappyWag01  |-> Sprite(21, 22, 86, 84, POSE_HAPPY_WAG_01),
    Nap00       |-> Sprite(20, 44, 93, 84, POSE_NAP_00),
    Alert00     |-> Sprite(17, 11, 73, 96, POSE_ALERT_00),
    Confused00  |-> Sprite(5, 12, 80, 96, POSE_CONFUSED_00),
    Worried00   |-> Sprite(23, 22, 85, 77, POSE_WORRIED_00),
    Excited02   |-> Sprite(13, 0, 86, 96, POSE_EXCITED_02),
    Listen00    |-> Sprite(8, 10, 91, 88, POSE_LISTEN_00),
    LookLeft    |-> Sprite(18, 22, 70, 76, POSE_LOOK_LEFT),
    LookRight   |-> Sprite(27, 11, 67, 84, POSE_LOOK_RIGHT),
    Play00      |-> Sprite(13, 15, 91, 79, POSE_PLAY_00),
    Alert01     |-> Sprite(13, 14, 91, 80, POSE_ALERT_01),
    Sleepy00    |-> Sprite(0, 42, 100, 56, POSE_SLEEPY_00),
    Idle01      |-> Sprite(12, 18, 101, 100, POSE_IDLE_01),
    Idle02      |-> Sprite(12, 20, 101, 100, POSE_IDLE_02),
    Blink00     |-> Sprite(12, 19, 101, 100, POSE_BLINK_00),
    Blink02     |-> Sprite(12, 18, 101, 100, POSE_BLINK_02),
    LookCenter  |-> Sprite(8, 10, 91, 88, POSE_LOOK_CENTER),
    HappyWag02  |-> Sprite(17, 15, 84, 102, POSE_HAPPY_WAG_02),
    Excited00   |-> Sprite(17, 17, 84, 102, POSE_EXCITED_00),
    Play01      |-> Sprite(14, 14, 91, 79, POSE_PLAY_01),
    Sleepy01    |-> Sprite(0, 43, 100, 56, POSE_SLEEPY_01),
    Nap01       |-> Sprite(20, 45, 93, 83, POSE_NAP_01),
    Worried01   |-> Sprite(22, 23, 85, 77, POSE_WORRIED_01),
    Confused01  |-> Sprite(43, 12, 80, 96, POSE_CONFUSED_01),
    WalkLeft00  |-> Sprite(18, 22, 70, 76, POSE_WALK_LEFT_00),
    WalkLeft01  |-> Sprite(18, 21, 70, 76, POSE_WALK_LEFT_01),
    WalkRight00 |-> Sprite(27, 11, 67, 84, POSE_WALK_RIGHT_00),
    WalkRight01 |-> Sprite(27, 10, 67, 84, POSE_WALK_RIGHT_01)]

PoseId == DOMAIN SPRITES

sprite(pose) == SPRITES[pose]

\* The tables fit together: a pose for every identifier, every box inside the
\* cell and as high as its stream, no row wider than the box, no colour that
\* the palette lacks.
ASSUME SpritesAssumption ==
    /\ Cardinality(PoseId) = POSE_COUNT
    /\ \A pose \in PoseId :
          LET s == sprite(pose) IN
          /\ s.x + s.width <= CELL_WIDTH /\ s.y + s.height <= CELL_HEIGHT
          /\ Len(s.data.rows) = s.height
          /\ \A i \in 1..s.height : s.data.rows[i] \in 0..s.width
          /\ s.data.left <= s.height /\ s.data.right <= s.height
          /\ s.data.palette < PALETTE_LEN

=============================================================================
