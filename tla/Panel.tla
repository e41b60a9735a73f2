-------------------------------- MODULE Panel -------------------------------
(***************************************************************************)
(* The display: the SSD1351 driver (device/src/display.rs) under the       *)
(* render task, and at the other end of the SPI bus the simulated panel    *)
(* (device/wokwi/src/ssd1351.c), byte by byte.                             *)
(*                                                                         *)
(* What is drawn is a cell of the sprite sheet, moved: it reaches the      *)
(* driver as the runs of SpriteRuns.                                       *)
(*                                                                         *)
(* The driver is the sequence of bus operations it has still to do; an     *)
(* operation and what the chip makes of it are one step.  The chip asks    *)
(* for its next bytes ahead of time, by the pins as they are then, and     *)
(* looks at DC again when it gets them.  A byte that cannot be written     *)
(* ends the driver's call at once, whatever the pins are.                  *)
(***************************************************************************)
EXTENDS SpriteRuns

CONSTANTS
    WIDTH, HEIGHT,
    SPI_CHUNK,          \* the most bytes the chip asks for at once
    Orientations,       \* those the driver may be initialised with
    PALETTE_RGB565,     \* the words of the palette
    Scenes,             \* what may be drawn: a cell and where it is moved to
    MaxInterrupted      \* bound: failed writes and restarts

VARIABLES
    todo, doing,        \* bus operations left of the driver's call, and which call
    fb,                 \* the driver's framebuffer, by byte
    cs, dc,             \* pins
    chip, reading,      \* chip_state_t; the bytes it has asked for and got
    orientation,
    scene, shown,       \* what was drawn last, what the last whole flush sent
    intact,             \* no write has failed since the panel was reset
    interrupted         \* counter for the bound

vars == <<todo, doing, fb, cs, dc, chip, reading, orientation, scene, shown, intact, interrupted>>

Positions == (0..WIDTH - 1) \X (0..HEIGHT - 1)
FB_LEN == WIDTH * HEIGHT * 2
Bytes == 0..255
Words == {w \in Nat : w < 65536}

\* The orientations the firmware knows.
PANEL == [vertical_increment |-> FALSE, mirror_h |-> FALSE, flip_v |-> TRUE, bgr |-> TRUE]
CUBE == [PANEL EXCEPT !.mirror_h = TRUE]
CUBE_ROTATED_CW == [PANEL EXCEPT !.vertical_increment = TRUE]

\* A cell is a rectangle of the sheet.
ASSUME PanelAssumption ==
    /\ WIDTH \in Nat \ {0} /\ WIDTH <= 128 /\ HEIGHT = WIDTH
    /\ Orientations \subseteq {PANEL, CUBE, CUBE_ROTATED_CW}
    /\ SPI_CHUNK \in Nat \ {0} /\ MaxInterrupted \in Nat
    /\ PALETTE_RGB565 \in Seq(Words) /\ PALETTE_RGB565 # <<>>
    /\ \A s \in Scenes :
          /\ s.x \in Int /\ s.y \in Int
          /\ DOMAIN s.cell \subseteq Nat \X Nat
          /\ DOMAIN s.cell = {} \/
             \E last \in DOMAIN s.cell : DOMAIN s.cell = (0..last[1]) \X (0..last[2])

BLACK == [r |-> 0, g |-> 0, b |-> 0]
NoScene == [cell |-> [p \in {} |-> None], x |-> 0, y |-> 0]
Bit(byte, weight) == (byte \div weight) % 2 = 1

-----------------------------------------------------------------------------
(***************************************************************************)
(* The driver.                                                             *)
(***************************************************************************)
remap_byte(o) ==
    64 + 32 + (IF o.vertical_increment THEN 1 ELSE 0) + (IF o.mirror_h THEN 2 ELSE 0)
            + (IF o.flip_v THEN 16 ELSE 0) + (IF o.bgr THEN 4 ELSE 0)

\* A palette entry as a colour; one the palette lacks is black.
rgb565_color(entry) ==
    LET word == IF entry \in 0..Len(PALETTE_RGB565) - 1 THEN PALETTE_RGB565[entry + 1] ELSE 0
    IN  [r |-> word \div 2048, g |-> (word \div 32) % 64, b |-> word % 32]

rgb565_bytes(c) == LET word == 2048 * c.r + 32 * c.g + c.b IN <<word \div 256, word % 256>>

Written(bytes) == [i \in DOMAIN bytes |-> <<"spi", bytes[i]>>]

cmd(command, args) ==
    <<<<"cs", 0>>, <<"dc", 0>>, <<"spi", command>>>>
    \o (IF args = <<>> THEN <<>> ELSE <<<<"dc", 1>>>> \o Written(args))
    \o <<<<"cs", 1>>>>

\* The bus operations of a list of commands.
send(commands) ==
    LET from[k \in 1..Len(commands) + 1] ==
            IF k > Len(commands) THEN <<>>
            ELSE cmd(commands[k].command, commands[k].args) \o from[k + 1]
    IN  from[1]

Command(command, args) == [command |-> command, args |-> args]

set_full_window == <<Command(\h15, <<0, WIDTH - 1>>), Command(\h75, <<0, HEIGHT - 1>>)>>

\* The framebuffer follows its command like any other arguments.
FlushCommands(buffer) ==
    Append(set_full_window, Command(\h5C, [i \in 1..FB_LEN |-> buffer[i - 1]]))

flush(buffer) == send(FlushCommands(buffer))

reset == <<<<"rst", 1>>, <<"rst", 0>>, <<"rst", 1>>>>

Setup(o) ==
    <<Command(\hFD, <<\h12>>), Command(\hFD, <<\hB1>>), Command(\hAE, <<>>),
      Command(\hB3, <<\hF1>>), Command(\hCA, <<\h7F>>), Command(\hA2, <<0>>),
      Command(\hA1, <<0>>), Command(\hB5, <<0>>), Command(\hAB, <<1>>),
      Command(\hB4, <<\hA0, \hB5, \h55>>), Command(\hC1, <<\hC8, \h80, \hC8>>),
      Command(\hC7, <<\h0F>>), Command(\hB1, <<\h32>>), Command(\hB6, <<1>>),
      Command(\hBE, <<5>>), Command(\hA6, <<>>), Command(\hA0, <<remap_byte(o)>>)>>

InitCommands(o) ==
    Setup(o) \o FlushCommands([i \in 0..FB_LEN - 1 |-> 0]) \o <<Command(\hAF, <<>>)>>

init(o) == reset \o send(InitCommands(o))

\* Mutant of OnScreen: the right edge is not looked at.
OnScreen_unclipped(x, y) == x >= 0 /\ y >= 0 /\ y * WIDTH + x < WIDTH * HEIGHT

OnScreen(x, y) == x >= 0 /\ y >= 0 /\ x < WIDTH /\ y < HEIGHT

\* draw_iter on a black framebuffer.
draw_iter(pixels) ==
    LET idx(p) == (p[2] * WIDTH + p[1]) * 2 IN
    [i \in 0..FB_LEN - 1 |->
        LET written == {p \in DOMAIN pixels : OnScreen(p[1], p[2]) /\ i - idx(p) \in {0, 1}}
        IN  IF written = {} THEN 0
            ELSE LET p == CHOOSE p \in written : TRUE
                 IN  rgb565_bytes(rgb565_color(pixels[p]))[i - idx(p) + 1]]

\* blit_sprite: what the converter has made of the cell, at the scene's offset.
blit_sprite(s) ==
    LET sprite == encode_sprite(s.cell)
    IN  draw_iter(SpritePixels(sprite, <<s.x + sprite.x, s.y + sprite.y>>))

-----------------------------------------------------------------------------
(***************************************************************************)
(* The chip: each function of the C file takes the state and gives the     *)
(* state it leaves.                                                        *)
(***************************************************************************)
Blank == [p \in Positions |-> <<0, 0, 0, 0>>]
NoRead == [want |-> 0, got |-> <<>>]

reset_panel ==
    [rgba |-> Blank, visible |-> Blank, display_on |-> FALSE,
     vertical_increment |-> FALSE, mirror_h |-> FALSE, flip_v |-> FALSE, bgr |-> FALSE,
     current_cmd |-> 0, args |-> <<>>, args_expected |-> 0,
     cols |-> <<0, WIDTH - 1>>, rows |-> <<0, HEIGHT - 1>>, next_col |-> 0, next_row |-> 0,
     pending_write_bytes |-> 0, pixel_bytes |-> <<>>]

arg_count_for_cmd(c) ==
    CASE c \in {\h15, \h75} -> 2
      [] c \in {\hA0, \hFD, \hB3, \hCA, \hA1, \hA2, \hB5, \hAB, \hC7, \hB1, \hB6, \hBE} -> 1
      [] c \in {\hB4, \hC1} -> 3
      [] OTHER -> 0

present_display(c) == IF c.display_on THEN [c EXCEPT !.visible = c.rgba] ELSE c

\* clamp_u8 and normalize_window
Window(args, max_value) ==
    LET clamped(v) == IF v > max_value THEN max_value ELSE v
        a == clamped(args[1])
        b == clamped(args[2])
    IN  IF b < a THEN <<b, a>> ELSE <<a, b>>

begin_write_ram(c) ==
    [c EXCEPT !.next_col = c.cols[1], !.next_row = c.rows[1], !.pixel_bytes = <<>>,
              !.pending_write_bytes = (c.cols[2] - c.cols[1] + 1) * (c.rows[2] - c.rows[1] + 1) * 2]

Applied(c) ==
    CASE c.current_cmd = \hAE -> [c EXCEPT !.display_on = FALSE, !.visible = Blank]
      [] c.current_cmd = \hAF -> present_display([c EXCEPT !.display_on = TRUE])
      [] c.current_cmd = \hA0 ->
            [c EXCEPT !.vertical_increment = Bit(c.args[1], 1), !.mirror_h = Bit(c.args[1], 2),
                      !.flip_v = Bit(c.args[1], 16), !.bgr = Bit(c.args[1], 4)]
      [] c.current_cmd = \h15 -> [c EXCEPT !.cols = Window(c.args, WIDTH - 1)]
      [] c.current_cmd = \h75 -> [c EXCEPT !.rows = Window(c.args, HEIGHT - 1)]
      [] c.current_cmd = \h5C -> begin_write_ram(c)
      [] OTHER -> c

apply_current_command(c) == [Applied(c) EXCEPT !.args_expected = 0, !.args = <<>>]

handle_command_byte(c, value) ==
    LET d == [c EXCEPT !.current_cmd = value, !.args_expected = arg_count_for_cmd(value),
                       !.args = <<>>]
    IN  IF d.args_expected = 0 THEN apply_current_command(d) ELSE d

handle_data_byte(c, value) ==
    IF c.args_expected = 0 THEN c
    ELSE LET d == [c EXCEPT !.args = Append(@, value)]
         IN  IF Len(d.args) = d.args_expected THEN apply_current_command(d) ELSE d

\* Mutant of advance_cursor: the last row is left, too.
advance_cursor_unbounded(c) ==
    IF c.vertical_increment
    THEN IF c.next_row < c.rows[2] THEN [c EXCEPT !.next_row = @ + 1]
         ELSE [c EXCEPT !.next_row = c.rows[1], !.next_col = @ + 1]
    ELSE IF c.next_col < c.cols[2] THEN [c EXCEPT !.next_col = @ + 1]
         ELSE [c EXCEPT !.next_col = c.cols[1], !.next_row = @ + 1]

advance_cursor(c) ==
    LET bounded(n, last) == IF n < last THEN n + 1 ELSE n IN
    IF c.vertical_increment
    THEN IF c.next_row < c.rows[2] THEN [c EXCEPT !.next_row = @ + 1]
         ELSE [c EXCEPT !.next_row = c.rows[1], !.next_col = bounded(@, c.cols[2])]
    ELSE IF c.next_col < c.cols[2] THEN [c EXCEPT !.next_col = @ + 1]
         ELSE [c EXCEPT !.next_col = c.cols[1], !.next_row = bounded(@, c.rows[2])]

\* A word as red, green, blue and alpha of eight bits each.
Expanded(red, green, blue) ==
    <<8 * red + red \div 4, 4 * green + green \div 16, 8 * blue + blue \div 4, 255>>

write_pixel(c, word) ==
    LET first == word \div 2048
        last == word % 32
        green == (word \div 32) % 64
        x == IF c.mirror_h THEN WIDTH - 1 - c.next_col ELSE c.next_col
        y == IF c.flip_v THEN HEIGHT - 1 - c.next_row ELSE c.next_row
    IN  advance_cursor([c EXCEPT !.rgba[<<x, y>>] =
            IF c.bgr THEN Expanded(last, green, first) ELSE Expanded(first, green, last)])

\* A byte of handle_ram_bytes.
RamByte(c, byte) ==
    LET d == [c EXCEPT !.pixel_bytes = Append(@, byte), !.pending_write_bytes = @ - 1]
    IN  IF Len(d.pixel_bytes) < 2 THEN d
        ELSE write_pixel([d EXCEPT !.pixel_bytes = <<>>], 256 * d.pixel_bytes[1] + d.pixel_bytes[2])

\* start_next_spi_read
NextRead(c, CS, DC) ==
    IF CS = 1 THEN NoRead
    ELSE [want |-> IF c.pending_write_bytes = 0 \/ DC = 0 THEN 1
                   ELSE IF c.pending_write_bytes > SPI_CHUNK THEN SPI_CHUNK
                   ELSE c.pending_write_bytes,
          got |-> <<>>]

\* By DC and by whether pixels were owed when the bytes came.
Handled(c, DC, owed, byte) ==
    IF DC = 0 THEN handle_command_byte(c, byte)
    ELSE IF owed THEN RamByte(c, byte)
    ELSE handle_data_byte(c, byte)

\* chip_spi_done, but for the next read.
Received(c, DC, bytes) ==
    LET owed == c.pending_write_bytes > 0
        after[n \in 0..Len(bytes)] ==
            IF n = 0 THEN c ELSE Handled(after[n - 1], DC, owed, bytes[n])
        d == after[Len(bytes)]
    IN  IF DC = 1 /\ owed /\ d.pending_write_bytes = 0 /\ d.pixel_bytes = <<>>
        THEN present_display(d) ELSE d

\* chip_pin_change on CS: a falling edge starts a read, a rising one ends it with
\* what has come.
CsChanges(level) ==
    /\ cs' = level
    /\ IF level = cs THEN UNCHANGED <<chip, reading>>
       ELSE /\ chip' = Received(chip, dc, reading.got)
            /\ reading' = IF level = 0 THEN NextRead(chip, 0, dc) ELSE NoRead

\* A byte on the bus.
ByteArrives(byte) ==
    LET got == Append(reading.got, byte) IN
    IF reading.want = 0 THEN UNCHANGED <<chip, reading>>
    ELSE IF Len(got) < reading.want
         THEN reading' = [reading EXCEPT !.got = got] /\ UNCHANGED chip
         ELSE /\ chip' = Received(chip, dc, got)
              /\ reading' = NextRead(chip', cs, dc)

-----------------------------------------------------------------------------
(***************************************************************************)
(* main and render_task.                                                   *)
(***************************************************************************)
\* An operation that goes through.
BusStep ==
    /\ todo # <<>>
    /\ LET pin == Head(todo)[1]
           value == Head(todo)[2]
       IN  /\ IF pin = "dc" THEN dc' = value ELSE UNCHANGED dc
           /\ IF pin = "cs" THEN CsChanges(value)
              ELSE /\ UNCHANGED cs
                   /\ IF pin = "spi" THEN ByteArrives(value)
                      ELSE /\ chip' = IF pin = "rst" /\ value = 0 THEN reset_panel ELSE chip
                           /\ UNCHANGED reading
           /\ intact' = (intact \/ (pin = "rst" /\ value = 0))
    /\ todo' = Tail(todo)
    /\ IF Len(todo) > 1 THEN UNCHANGED <<doing, shown>>
       ELSE doing' = "idle" /\ shown' = scene
    /\ UNCHANGED <<fb, orientation, scene, interrupted>>

Interrupts == interrupted < MaxInterrupted /\ interrupted' = interrupted + 1

\* The write fails: init panics, the render task goes on with its next frame.
WriteFails ==
    /\ Interrupts
    /\ todo # <<>> /\ Head(todo)[1] = "spi"
    /\ todo' = <<>>
    /\ doing' = IF doing = "init" THEN "halted" ELSE "idle"
    /\ intact' = FALSE
    /\ UNCHANGED <<fb, cs, dc, chip, reading, orientation, scene, shown>>

\* Scene::draw and the start of the flush.
RenderFrame(s) ==
    /\ doing = "idle"
    /\ scene' = s
    /\ fb' = blit_sprite(s)
    /\ todo' = flush(fb')
    /\ doing' = "flush"
    /\ UNCHANGED <<cs, dc, chip, reading, orientation, shown, intact, interrupted>>

\* The controller restarts under the panel: main drives DC low and CS high and
\* initialises the display.
Restart(o) ==
    /\ Interrupts
    /\ dc' = 0 /\ cs' = 1
    /\ chip' = IF cs = 0 THEN Received(chip, 0, reading.got) ELSE chip
    /\ reading' = NoRead
    /\ fb' = [i \in 0..FB_LEN - 1 |-> 0] /\ scene' = NoScene /\ shown' = NoScene
    /\ orientation' = o
    /\ todo' = init(o) /\ doing' = "init"
    /\ intact' = FALSE

Init ==
    /\ orientation \in Orientations
    /\ todo = init(orientation) /\ doing = "init"
    /\ fb = [i \in 0..FB_LEN - 1 |-> 0] /\ scene = NoScene /\ shown = NoScene
    /\ cs = 1 /\ dc = 0
    /\ chip = reset_panel /\ reading = NoRead
    /\ intact = TRUE /\ interrupted = 0

Next ==
    \/ BusStep
    \/ WriteFails
    \/ \E s \in Scenes : RenderFrame(s)
    \/ \E o \in Orientations : Restart(o)

Spec == Init /\ [][Next]_vars

-----------------------------------------------------------------------------
(***************************************************************************)
(* What the owner should see.                                              *)
(***************************************************************************)
MirroredLeftRight(picture) == [p \in Positions |-> picture[<<WIDTH - 1 - p[1], p[2]>>]]
FlippedUpDown(picture) == [p \in Positions |-> picture[<<p[1], HEIGHT - 1 - p[2]>>]]
RotatedClockwise(picture) == [p \in Positions |-> picture[<<p[2], HEIGHT - 1 - p[1]>>]]

\* A scene as the simulated panel has it: the cell as it was drawn, nothing
\* lost or shifted by the runs; the panel takes blue for red under bgr.
Straight(s) ==
    [p \in Positions |->
        LET at == <<p[1] - s.x, p[2] - s.y>>
            c == IF at \in DOMAIN s.cell /\ s.cell[at] # None THEN rgb565_color(s.cell[at]) ELSE BLACK
        IN  Expanded(c.b, c.g, c.r)]

Seen(o, s) ==
    LET direct == FlippedUpDown(Straight(s))
        cube == MirroredLeftRight(direct)
    IN  CASE o = PANEL -> direct
          [] o = CUBE -> cube
          [] o = CUBE_ROTATED_CW -> RotatedClockwise(cube)

\* Every part of the driver and the chip keeps its type: the window and the cursor
\* stay on the panel, no more bytes are owed than the window has, and no read asks
\* for more than is owed.
TypeOK ==
    /\ doing \in {"init", "idle", "flush", "halted"} /\ (todo = <<>>) = (doing \in {"idle", "halted"})
    /\ fb \in [0..FB_LEN - 1 -> Bytes]
    /\ cs \in {0, 1} /\ dc \in {0, 1} /\ orientation \in Orientations
    /\ chip.cols[1] \in 0..chip.cols[2] /\ chip.cols[2] < WIDTH /\ chip.next_col \in 0..WIDTH - 1
    /\ chip.rows[1] \in 0..chip.rows[2] /\ chip.rows[2] < HEIGHT /\ chip.next_row \in 0..HEIGHT - 1
    /\ chip.pending_write_bytes \in 0..FB_LEN
    /\ Len(chip.args) <= 3 /\ Len(chip.args) <= chip.args_expected
    /\ reading.want \in {0, 1} \/ reading.want <= chip.pending_write_bytes
    /\ intact \in BOOLEAN /\ interrupted \in 0..MaxInterrupted

\* Unless a write has failed since the panel was reset, the owner sees whole
\* pictures only: nothing until the panel has been cleared, then the last one
\* sent or already the one being sent, and after a flush that one; mirrored for
\* the cube and "rotated 90 degrees clockwise" for the sideways mount.
OnlyWholePictures ==
    intact =>
        \/ doing = "init" /\ chip.visible = Blank
        \/ chip.visible = Seen(orientation, scene)
        \/ doing = "flush" /\ chip.visible = Seen(orientation, shown)

=============================================================================
