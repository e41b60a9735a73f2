---------------------------- MODULE PanelProofs ----------------------------
(***************************************************************************)
(* The display, for a panel of any size up to 128 by 128, reads of any     *)
(* size, any scenes and any number of failed writes and restarts.          *)
(*                                                                         *)
(* The types come first: what the chip makes of any byte, what is left of  *)
(* the driver's script.  Then the runs of SpriteRuns are shown to give the *)
(* cell back, hence the framebuffer the scene; a cursor that walks the     *)
(* window puts every word of it where the mount wants it; and script and   *)
(* chip go in step, so that the display is only taken from a memory that   *)
(* is filled.                                                              *)
(***************************************************************************)
EXTENDS Panel, SequenceTheorems, WellFoundedInduction, TLAPS

\* Some natural numbers have a least.
LEMMA LeastOfSome ==
    ASSUME NEW S \in SUBSET Nat, S # {} PROVE \E m \in S : \A x \in S : m <= x
<1> DEFINE less == OpToRel(<, Nat)
<1>1. IsWellFoundedOn(less, Nat)
    BY NatLessThanWellFounded, Zenon
<1>2. \A x, y \in Nat : x < y => <<x, y>> \in less
    BY DEF OpToRel
<1> HIDE DEF less
<1>3. PICK m \in S : \A x \in S : <<x, m>> \notin less
    BY <1>1, WFMin
<1>4. \A x \in S : ~(x < m)
    BY <1>2, <1>3
<1> QED  BY <1>4

\* A set that has zero, and with a number the next, has the numbers up to n.
LEMMA UpTo ==
    ASSUME NEW n \in Nat, NEW S, 0 \in S, \A k \in 0..n - 1 : k \in S => k + 1 \in S
    PROVE  \A k \in 0..n : k \in S
<1> DEFINE rest == {k \in 0..n : k \notin S}
<1> SUFFICES ASSUME rest # {} PROVE FALSE
    OBVIOUS
<1>1. PICK m \in rest : \A k \in rest : m <= k
  <2>1. rest \in SUBSET Nat
      OBVIOUS
  <2> HIDE DEF rest
  <2> QED  BY <2>1, LeastOfSome
<1>2. m - 1 \in 0..n - 1 /\ m - 1 \notin rest
    BY <1>1
<1>3. m - 1 \in S
    BY <1>2
<1>4. m - 1 + 1 \in S
    BY <1>2, <1>3
<1> QED  BY <1>1, <1>4

Colours == Bytes \X Bytes \X Bytes \X Bytes
Pictures == [Positions -> Colours]
Columns == 0..WIDTH - 1
Rows == 0..HEIGHT - 1
Owed == 0..FB_LEN

Chips ==
    [rgba : Pictures, visible : Pictures, display_on : BOOLEAN,
     vertical_increment : BOOLEAN, mirror_h : BOOLEAN, flip_v : BOOLEAN, bgr : BOOLEAN,
     current_cmd : Bytes, args : Seq(Bytes), args_expected : 0..3,
     cols : Columns \X Columns, rows : Rows \X Rows,
     next_col : Columns, next_row : Rows,
     pending_write_bytes : Owed, pixel_bytes : Seq(Bytes)]

\* The arguments of a command that expects some.
ArgsInv(c) ==
    IF c.args_expected = 0 THEN c.args = <<>>
    ELSE c.args_expected = arg_count_for_cmd(c.current_cmd) /\ Len(c.args) < c.args_expected

WindowInv(c) == c.cols[1] <= c.cols[2] /\ c.rows[1] <= c.rows[2]

ChipInv(c) == c \in Chips /\ WindowInv(c) /\ ArgsInv(c) /\ Len(c.pixel_bytes) < 2

\* The panel is a square of at most 128 by 128 pixels of two bytes.
LEMMA Dimensions ==
    /\ WIDTH \in Nat \ {0} /\ WIDTH <= 128 /\ HEIGHT = WIDTH
    /\ WIDTH \in Nat /\ HEIGHT \in Nat /\ FB_LEN \in Nat /\ WIDTH * HEIGHT \in Nat
    /\ FB_LEN = WIDTH * HEIGHT * 2 /\ FB_LEN > 0
<1>1. WIDTH \in Nat \ {0} /\ WIDTH <= 128 /\ HEIGHT = WIDTH
    BY PanelAssumption DEF PanelAssumption
<1>2. \A n \in Nat : n * n \in Nat /\ (n > 0 => n * n > 0)
    BY Z3
<1>3. WIDTH * HEIGHT \in Nat /\ WIDTH * HEIGHT > 0
    BY <1>1, <1>2
<1> QED  BY <1>1, <1>3 DEF FB_LEN

\* A window has no more bytes than the framebuffer.
LEMMA AreaOfWindow ==
    ASSUME NEW a \in Nat, NEW b \in Nat, a <= WIDTH, b <= HEIGHT
    PROVE  a * b * 2 \in Owed
<1>1. \A m, n, k \in Nat : m <= n => m * k <= n * k
    BY Z3
<1>2. \A m, n \in Nat : m * n \in Nat /\ m * n = n * m
    OBVIOUS
<1>3. a * b <= WIDTH * b
    BY <1>1, Dimensions
<1>4. WIDTH * b <= WIDTH * HEIGHT
    BY <1>1, <1>2, Dimensions
<1> DEFINE area == WIDTH * HEIGHT
           part == a * b
           strip == WIDTH * b
<1>5. area \in Nat /\ part \in Nat /\ strip \in Nat
    BY <1>2, Dimensions
<1>6. FB_LEN = area * 2
    BY Dimensions
<1>7. part <= strip /\ strip <= area
    BY <1>3, <1>4
<1> HIDE DEF area, part, strip
<1>8. part * 2 \in Owed
    BY <1>5, <1>6, <1>7 DEF Owed
<1> QED  BY <1>8 DEF part

\* A colour of five, six and five bits makes bytes.
LEMMA ExpandedType ==
    ASSUME NEW red \in 0..31, NEW green \in 0..63, NEW blue \in 0..31
    PROVE  Expanded(red, green, blue) \in Colours
<1>1. \A r \in 0..31 : 8 * r + r \div 4 \in Bytes
    BY DEF Bytes
<1>2. \A g \in 0..63 : 4 * g + g \div 16 \in Bytes
    BY DEF Bytes
<1>3. 255 \in Bytes
    BY DEF Bytes
<1> QED  BY <1>1, <1>2, <1>3 DEF Expanded, Colours

\* The cursor moves and nothing else.
CursorMoved(c, d) ==
    /\ d \in Chips /\ d.rgba = c.rgba /\ d.visible = c.visible /\ d.display_on = c.display_on
    /\ d.vertical_increment = c.vertical_increment /\ d.mirror_h = c.mirror_h
    /\ d.flip_v = c.flip_v /\ d.bgr = c.bgr
    /\ d.current_cmd = c.current_cmd /\ d.args = c.args /\ d.args_expected = c.args_expected
    /\ d.cols = c.cols /\ d.rows = c.rows
    /\ d.pending_write_bytes = c.pending_write_bytes /\ d.pixel_bytes = c.pixel_bytes

\* advance_cursor moves the cursor, on the panel, and nothing else.
LEMMA AdvanceMoves ==
    ASSUME NEW c \in Chips, WindowInv(c)
    PROVE  CursorMoved(c, advance_cursor(c))
<1>1. /\ c.cols[1] \in Columns /\ c.cols[2] \in Columns /\ c.rows[1] \in Rows /\ c.rows[2] \in Rows
      /\ c.next_col \in Columns /\ c.next_row \in Rows
    BY DEF Chips
<1>2. \A col, last \in Columns : col < last => col + 1 \in Columns
    BY Dimensions DEF Columns
<1>3. \A row, last \in Rows : row < last => row + 1 \in Rows
    BY Dimensions DEF Rows
<1>4. ASSUME NEW col \in Columns, NEW row \in Rows
      PROVE  /\ CursorMoved(c, [c EXCEPT !.next_col = col])
             /\ CursorMoved(c, [c EXCEPT !.next_row = row])
             /\ CursorMoved(c, [c EXCEPT !.next_col = col, !.next_row = row])
             /\ CursorMoved(c, [c EXCEPT !.next_row = row, !.next_col = col])
  <2>1. CursorMoved(c, [c EXCEPT !.next_col = col])
      BY DEF CursorMoved, Chips
  <2>2. CursorMoved(c, [c EXCEPT !.next_row = row])
      BY DEF CursorMoved, Chips
  <2>3. CursorMoved(c, [c EXCEPT !.next_col = col, !.next_row = row])
      BY DEF CursorMoved, Chips
  <2>4. CursorMoved(c, [c EXCEPT !.next_row = row, !.next_col = col])
      BY DEF CursorMoved, Chips
  <2> QED  BY <2>1, <2>2, <2>3, <2>4
<1> QED  BY <1>1, <1>2, <1>3, <1>4 DEF advance_cursor

\* A window is ordered and ends on the panel, whatever its arguments.
LEMMA WindowType ==
    ASSUME NEW args \in Seq(Bytes), Len(args) >= 2, NEW max \in Nat
    PROVE  /\ Window(args, max) \in (0..max) \X (0..max)
           /\ Window(args, max)[1] <= Window(args, max)[2]
<1>1. args[1] \in Bytes /\ args[2] \in Bytes
    OBVIOUS
<1>2. \A b \in Bytes : b \in Nat
    BY DEF Bytes
<1> QED  BY <1>1, <1>2 DEF Window

\* What a command needs of its arguments.
Complete(c) ==
    /\ c.current_cmd = \hA0 => Len(c.args) >= 1
    /\ c.current_cmd \in {\h15, \h75} => Len(c.args) >= 2

\* A complete command leaves a chip in order.
LEMMA ApplyType ==
    ASSUME NEW c \in Chips, WindowInv(c), Len(c.pixel_bytes) < 2, Complete(c)
    PROVE  ChipInv(apply_current_command(c))
<1> DEFINE Good(d) == d \in Chips /\ WindowInv(d) /\ Len(d.pixel_bytes) < 2
<1>1. Good(Applied(c))
  <2>1. Blank \in Pictures
    <3>1. <<0, 0, 0, 0>> \in Colours
        BY DEF Colours, Bytes
    <3> QED  BY <3>1 DEF Blank, Pictures
  <2>2. CASE c.current_cmd = \hAE
    <3>1. Applied(c) = [c EXCEPT !.display_on = FALSE, !.visible = Blank]
        BY <2>2 DEF Applied
    <3> QED  BY <2>1, <3>1 DEF Chips, WindowInv
  <2>3. CASE c.current_cmd = \hAF
    <3> DEFINE on == [c EXCEPT !.display_on = TRUE]
    <3>1. Applied(c) = present_display(on)
        BY <2>3 DEF Applied
    <3>2. on \in Chips /\ Good(on)
        BY DEF Chips, WindowInv
    <3> HIDE DEF on
    <3>3. Good([on EXCEPT !.visible = on.rgba])
        BY <3>2 DEF Chips, WindowInv
    <3>4. Applied(c) \in {on, [on EXCEPT !.visible = on.rgba]}
        BY <3>1 DEF present_display
    <3> HIDE DEF Good
    <3> QED  BY <3>2, <3>3, <3>4
  <2>4. CASE c.current_cmd = \hA0
    <3>1. \A b, w : Bit(b, w) \in BOOLEAN
        BY DEF Bit
    <3>2. Applied(c) =
            [c EXCEPT !.vertical_increment = Bit(c.args[1], 1), !.mirror_h = Bit(c.args[1], 2),
                      !.flip_v = Bit(c.args[1], 16), !.bgr = Bit(c.args[1], 4)]
        BY <2>4 DEF Applied
    <3>3. ASSUME NEW v \in BOOLEAN, NEW m \in BOOLEAN, NEW f \in BOOLEAN, NEW b \in BOOLEAN
          PROVE  Good([c EXCEPT !.vertical_increment = v, !.mirror_h = m, !.flip_v = f, !.bgr = b])
      <4> DEFINE e == [c EXCEPT !.vertical_increment = v, !.mirror_h = m, !.flip_v = f, !.bgr = b]
      <4>1. e \in Chips
          BY ZenonT(60) DEF Chips
      <4>2. e.cols = c.cols /\ e.rows = c.rows /\ e.pixel_bytes = c.pixel_bytes
          BY Zenon DEF Chips
      <4> HIDE DEF e
      <4> QED  BY <4>1, <4>2 DEF WindowInv, e
    <3> HIDE DEF Good
    <3>4. Good([c EXCEPT !.vertical_increment = Bit(c.args[1], 1), !.mirror_h = Bit(c.args[1], 2),
                         !.flip_v = Bit(c.args[1], 16), !.bgr = Bit(c.args[1], 4)])
        BY <3>1, <3>3
    <3> QED  BY <3>2, <3>4
  <2>5. CASE c.current_cmd = \h15
    <3> DEFINE window == Window(c.args, WIDTH - 1)
    <3>1. Applied(c) = [c EXCEPT !.cols = window]
        BY <2>5 DEF Applied
    <3>2. c.args \in Seq(Bytes) /\ Len(c.args) >= 2 /\ WIDTH - 1 \in Nat
        BY <2>5, Dimensions DEF Complete, Chips
    <3>3. window \in Columns \X Columns /\ window[1] <= window[2]
        BY <3>2, WindowType DEF Columns
    <3> HIDE DEF window
    <3> QED  BY <3>1, <3>3 DEF Chips, WindowInv
  <2>6. CASE c.current_cmd = \h75
    <3> DEFINE window == Window(c.args, HEIGHT - 1)
    <3>1. Applied(c) = [c EXCEPT !.rows = window]
        BY <2>6 DEF Applied
    <3>2. c.args \in Seq(Bytes) /\ Len(c.args) >= 2 /\ HEIGHT - 1 \in Nat
        BY <2>6, Dimensions DEF Complete, Chips
    <3>3. window \in Rows \X Rows /\ window[1] <= window[2]
        BY <3>2, WindowType DEF Rows
    <3> HIDE DEF window
    <3> QED  BY <3>1, <3>3 DEF Chips, WindowInv
  <2>7. CASE c.current_cmd = \h5C
    <3> DEFINE owed == (c.cols[2] - c.cols[1] + 1) * (c.rows[2] - c.rows[1] + 1) * 2
    <3>1. Applied(c) = [c EXCEPT !.next_col = c.cols[1], !.next_row = c.rows[1],
                                 !.pixel_bytes = <<>>, !.pending_write_bytes = owed]
        BY <2>7 DEF Applied, begin_write_ram
    <3>2. /\ c.cols[1] \in Columns /\ c.cols[2] \in Columns
          /\ c.rows[1] \in Rows /\ c.rows[2] \in Rows
        BY DEF Chips
    <3>3. /\ c.cols[2] - c.cols[1] + 1 \in Nat /\ c.cols[2] - c.cols[1] + 1 <= WIDTH
          /\ c.rows[2] - c.rows[1] + 1 \in Nat /\ c.rows[2] - c.rows[1] + 1 <= HEIGHT
      <4>1. \A n \in Nat : \A a, b \in 0..n - 1 : a <= b => b - a + 1 \in Nat /\ b - a + 1 <= n
          OBVIOUS
      <4> QED  BY <3>2, <4>1, Dimensions DEF WindowInv, Columns, Rows
    <3>4. owed \in Owed
        BY <3>3, AreaOfWindow
    <3>5. <<>> \in Seq(Bytes) /\ Len(<<>>) < 2
        OBVIOUS
    <3> HIDE DEF owed
    <3> QED  BY <3>1, <3>2, <3>4, <3>5 DEF Chips, WindowInv
  <2>8. CASE c.current_cmd \notin {\hAE, \hAF, \hA0, \h15, \h75, \h5C}
      BY <2>8 DEF Applied
  <2> QED  BY <2>2, <2>3, <2>4, <2>5, <2>6, <2>7, <2>8
<1> DEFINE d == Applied(c)
<1> HIDE DEF d
<1>2. Good([d EXCEPT !.args_expected = 0, !.args = <<>>])
  <2>1. <<>> \in Seq(Bytes) /\ 0 \in 0..3
      OBVIOUS
  <2> QED  BY <1>1, <2>1 DEF d, Chips, WindowInv
<1>3. d \in Chips
    BY <1>1 DEF d
<1>4. ArgsInv([d EXCEPT !.args_expected = 0, !.args = <<>>])
    BY <1>3 DEF ArgsInv, Chips
<1> QED  BY <1>2, <1>4 DEF apply_current_command, ChipInv, d

\* So does a command byte, whatever it is ...
LEMMA CommandByteType ==
    ASSUME NEW c, ChipInv(c), NEW value \in Bytes
    PROVE  ChipInv(handle_command_byte(c, value))
<1> DEFINE d == [c EXCEPT !.current_cmd = value, !.args_expected = arg_count_for_cmd(value),
                          !.args = <<>>]
<1>1. arg_count_for_cmd(value) \in 0..3
    BY DEF arg_count_for_cmd
<1>2. /\ d \in Chips /\ WindowInv(d) /\ Len(d.pixel_bytes) < 2
      /\ d.args_expected = arg_count_for_cmd(value) /\ d.current_cmd = value /\ d.args = <<>>
  <2>1. <<>> \in Seq(Bytes)
      OBVIOUS
  <2> QED  BY <1>1, <2>1 DEF ChipInv, Chips, WindowInv
<1> HIDE DEF d
<1>3. CASE d.args_expected = 0
  <2>1. Complete(d)
      BY <1>2, <1>3 DEF Complete, arg_count_for_cmd
  <2> QED  BY <1>2, <1>3, <2>1, ApplyType DEF handle_command_byte, d
<1>4. CASE d.args_expected # 0
  <2>1. ArgsInv(d)
      BY <1>1, <1>2, <1>4 DEF ArgsInv
  <2> QED  BY <1>2, <1>4, <2>1 DEF handle_command_byte, ChipInv, d
<1> QED  BY <1>3, <1>4

\* ... and an argument, whether the command takes one or not.
LEMMA DataByteType ==
    ASSUME NEW c, ChipInv(c), NEW value \in Bytes
    PROVE  ChipInv(handle_data_byte(c, value))
<1>1. CASE c.args_expected = 0
    BY <1>1 DEF handle_data_byte
<1>2. CASE c.args_expected # 0
  <2> DEFINE d == [c EXCEPT !.args = Append(@, value)]
  <2>1. c.args \in Seq(Bytes) /\ Len(c.args) < c.args_expected
      BY <1>2 DEF ChipInv, ArgsInv, Chips
  <2>2. Append(c.args, value) \in Seq(Bytes) /\ Len(Append(c.args, value)) = Len(c.args) + 1
      BY <2>1
  <2>3. /\ d \in Chips /\ WindowInv(d) /\ Len(d.pixel_bytes) < 2
        /\ d.args_expected = c.args_expected /\ d.current_cmd = c.current_cmd
        /\ d.args = Append(c.args, value)
      BY <2>2 DEF ChipInv, Chips, WindowInv
  <2>4. d.args_expected = arg_count_for_cmd(d.current_cmd) /\ d.args_expected \in Nat
      BY <1>2, <2>3 DEF ChipInv, ArgsInv, Chips
  <2> HIDE DEF d
  <2>5. CASE Len(d.args) = d.args_expected
    <3>1. Complete(d)
        BY <2>4, <2>5 DEF Complete, arg_count_for_cmd
    <3> QED  BY <1>2, <2>3, <2>5, <3>1, ApplyType DEF handle_data_byte, d
  <2>6. CASE Len(d.args) # d.args_expected
    <3>1. ArgsInv(d)
        BY <1>2, <2>1, <2>2, <2>3, <2>4, <2>6 DEF ArgsInv
    <3> QED  BY <1>2, <2>3, <2>6, <3>1 DEF handle_data_byte, ChipInv, d
  <2> QED  BY <2>5, <2>6
<1> QED  BY <1>1, <1>2

\* The place of the next pixel in the chip's memory, and its colour there.
Spot(c) ==
    <<IF c.mirror_h THEN WIDTH - 1 - c.next_col ELSE c.next_col,
      IF c.flip_v THEN HEIGHT - 1 - c.next_row ELSE c.next_row>>

Colour(bgr, word) ==
    IF bgr THEN Expanded(word % 32, (word \div 32) % 64, word \div 2048)
    ELSE Expanded(word \div 2048, (word \div 32) % 64, word % 32)

Painted(c, word) == [c EXCEPT !.rgba = [c.rgba EXCEPT ![Spot(c)] = Colour(c.bgr, word)]]

\* Two bytes are a word.
LEMMA WordOfBytes ==
    ASSUME NEW a \in Bytes, NEW b \in Bytes
    PROVE  256 * a + b \in Words
<1>1. \A x \in Bytes : x \in Nat /\ x <= 255
    BY DEF Bytes
<1> QED  BY <1>1 DEF Words

\* A word is a colour of the chip.
LEMMA ColourType ==
    ASSUME NEW word \in Words, NEW bgr \in BOOLEAN
    PROVE  Colour(bgr, word) \in Colours
<1> DEFINE first == word \div 2048
           green == (word \div 32) % 64
           last == word % 32
<1>1. first \in 0..31 /\ green \in 0..63 /\ last \in 0..31
    BY DEF Words
<1>2. Colour(bgr, word) = IF bgr THEN Expanded(last, green, first) ELSE Expanded(first, green, last)
    BY DEF Colour
<1> HIDE DEF first, green, last
<1>3. Expanded(last, green, first) \in Colours /\ Expanded(first, green, last) \in Colours
    BY <1>1, ExpandedType
<1> QED  BY <1>2, <1>3

\* The next pixel is on the panel, mirrored, flipped or not.
LEMMA SpotType ==
    ASSUME NEW c \in Chips
    PROVE  Spot(c) \in Positions
<1>1. c.next_col \in Columns /\ c.next_row \in Rows
    BY DEF Chips
<1>2. \A x \in Columns : WIDTH - 1 - x \in Columns
    BY Dimensions DEF Columns
<1>3. \A y \in Rows : HEIGHT - 1 - y \in Rows
    BY Dimensions DEF Rows
<1>4. Positions = Columns \X Rows
    BY DEF Positions, Columns, Rows
<1> QED  BY <1>1, <1>2, <1>3, <1>4 DEF Spot

\* Painting a pixel changes the picture only.
LEMMA PaintedType ==
    ASSUME NEW c \in Chips, NEW word \in Words
    PROVE  /\ Painted(c, word) \in Chips
           /\ Painted(c, word).pending_write_bytes = c.pending_write_bytes
           /\ Painted(c, word).pixel_bytes = c.pixel_bytes
           /\ Painted(c, word).args = c.args /\ Painted(c, word).args_expected = c.args_expected
           /\ Painted(c, word).current_cmd = c.current_cmd
           /\ Painted(c, word).cols = c.cols /\ Painted(c, word).rows = c.rows
<1> DEFINE picture == [c.rgba EXCEPT ![Spot(c)] = Colour(c.bgr, word)]
<1>1. picture \in Pictures
    BY SpotType, ColourType DEF Pictures, Chips
<1> HIDE DEF picture
<1>2. Painted(c, word) = [c EXCEPT !.rgba = picture]
    BY DEF Painted, picture
<1> QED  BY <1>1, <1>2 DEF Chips

\* write_pixel paints the pixel at the cursor and moves on.
LEMMA WritePixel ==
    ASSUME NEW c \in Chips, NEW word
    PROVE  write_pixel(c, word) = advance_cursor(Painted(c, word))
BY DEF write_pixel, Painted, Spot, Colour, Chips

\* A pixel byte leaves the chip in order and one byte less to come.
LEMMA RamByteType ==
    ASSUME NEW c, ChipInv(c), c.pending_write_bytes > 0, NEW byte \in Bytes
    PROVE  /\ ChipInv(RamByte(c, byte))
           /\ RamByte(c, byte).pending_write_bytes = c.pending_write_bytes - 1
<1> DEFINE bytes == Append(c.pixel_bytes, byte)
           d == [c EXCEPT !.pixel_bytes = Append(@, byte), !.pending_write_bytes = @ - 1]
<1>1. c.pixel_bytes \in Seq(Bytes) /\ Len(c.pixel_bytes) < 2 /\ c.pending_write_bytes \in Owed
    BY DEF ChipInv, Chips
<1>2. /\ bytes \in Seq(Bytes) /\ Len(bytes) = Len(c.pixel_bytes) + 1
      /\ bytes[Len(bytes)] = byte
    BY <1>1
<1>3. c.pending_write_bytes - 1 \in Owed
    BY <1>1, Dimensions DEF Owed
<1>4. /\ d \in Chips /\ WindowInv(d) /\ ArgsInv(d)
      /\ d.pixel_bytes = bytes /\ d.pending_write_bytes = c.pending_write_bytes - 1
  <2> HIDE DEF bytes
  <2>1. d = [c EXCEPT !.pixel_bytes = bytes, !.pending_write_bytes = c.pending_write_bytes - 1]
      BY DEF ChipInv, Chips, bytes
  <2> QED  BY <1>2, <1>3, <2>1 DEF ChipInv, Chips, WindowInv, ArgsInv
<1>5. RamByte(c, byte) =
        IF Len(d.pixel_bytes) < 2 THEN d
        ELSE write_pixel([d EXCEPT !.pixel_bytes = <<>>],
                         256 * d.pixel_bytes[1] + d.pixel_bytes[2])
    BY DEF RamByte
<1> HIDE DEF d, bytes
<1>6. CASE Len(bytes) < 2
    BY <1>4, <1>5, <1>6 DEF ChipInv
<1>7. CASE Len(bytes) = 2
  <2> DEFINE e == [d EXCEPT !.pixel_bytes = <<>>]
             word == 256 * bytes[1] + bytes[2]
  <2>1. word \in Words
    <3>1. 1 \in 1..Len(bytes) /\ 2 \in 1..Len(bytes)
        BY <1>7
    <3>2. \A i \in 1..Len(bytes) : bytes[i] \in Bytes
        BY <1>2
    <3>3. bytes[1] \in Bytes /\ bytes[2] \in Bytes
        BY <3>1, <3>2
    <3> QED  BY <3>3, WordOfBytes
  <2>2. /\ e \in Chips /\ WindowInv(e) /\ ArgsInv(e) /\ e.pixel_bytes = <<>>
        /\ e.pending_write_bytes = c.pending_write_bytes - 1
    <3>1. <<>> \in Seq(Bytes)
        OBVIOUS
    <3> QED  BY <1>4, <3>1 DEF Chips, WindowInv, ArgsInv
  <2>3. RamByte(c, byte) = write_pixel(e, word)
      BY <1>4, <1>5, <1>7
  <2> HIDE DEF e, word
  <2> DEFINE p == Painted(e, word)
  <2>4. /\ p \in Chips /\ WindowInv(p) /\ ArgsInv(p) /\ p.pixel_bytes = <<>>
        /\ p.pending_write_bytes = c.pending_write_bytes - 1
      BY <2>1, <2>2, PaintedType DEF WindowInv, ArgsInv
  <2>5. RamByte(c, byte) = advance_cursor(p)
      BY <2>2, <2>3, WritePixel
  <2> HIDE DEF p
  <2>6. CursorMoved(p, advance_cursor(p))
      BY <2>4, AdvanceMoves
  <2> QED  BY <2>4, <2>5, <2>6 DEF CursorMoved, ChipInv, WindowInv, ArgsInv
<1>8. Len(bytes) < 2 \/ Len(bytes) = 2
    BY <1>1, <1>2
<1> QED  BY <1>6, <1>7, <1>8

-----------------------------------------------------------------------------
\* The chip's states as it handles its bytes one by one.
Bytewise(g, c, DC, owed, bytes) ==
    g[0] = c /\ \A n \in 1..Len(bytes) : g[n] = Handled(g[n - 1], DC, owed, bytes[n])

Completed(c, DC, owed) ==
    IF DC = 1 /\ owed /\ c.pending_write_bytes = 0 /\ c.pixel_bytes = <<>>
    THEN present_display(c) ELSE c

\* What chip_spi_done makes of its bytes is what they make one by one.
LEMMA ReceivedBytewise ==
    ASSUME NEW c, NEW DC, NEW bytes, Len(bytes) \in Nat
    PROVE  \E g : /\ Bytewise(g, c, DC, c.pending_write_bytes > 0, bytes)
                  /\ Received(c, DC, bytes) =
                        Completed(g[Len(bytes)], DC, c.pending_write_bytes > 0)
<1> DEFINE owed == c.pending_write_bytes > 0
           L == Len(bytes)
           Rule(f, n) == IF n = 0 THEN c ELSE Handled(f[n - 1], DC, owed, bytes[n])
           S == {k \in 0..L : \E f : f = [n \in 0..k |-> Rule(f, n)]}
           after == CHOOSE f : f = [n \in 0..L |-> Rule(f, n)]
<1>1. 0 \in S
  <2> DEFINE f == [n \in 0..0 |-> c]
  <2>1. f = [n \in 0..0 |-> Rule(f, n)]
      OBVIOUS
  <2> HIDE DEF f
  <2>2. \E e : e = [n \in 0..0 |-> Rule(e, n)]
      BY <2>1
  <2>3. 0 \in 0..L
      OBVIOUS
  <2> QED  BY <2>2, <2>3
<1>2. ASSUME NEW k \in 0..L - 1, k \in S PROVE k + 1 \in S
  <2>1. PICK f : f = [n \in 0..k |-> Rule(f, n)]
      BY <1>2
  <2> DEFINE h == [n \in 0..k + 1 |-> IF n = k + 1 THEN Handled(f[k], DC, owed, bytes[k + 1])
                                      ELSE f[n]]
  <2>2. \A n \in 0..k + 1 : h[n] = Rule(h, n)
    <3> SUFFICES ASSUME NEW n \in 0..k + 1 PROVE h[n] = Rule(h, n)
        OBVIOUS
    <3> HIDE DEF owed
    <3>1. CASE n = k + 1
        BY <3>1
    <3>2. CASE n \in 0..k
      <4>1. h[n] = f[n] /\ f[n] = Rule(f, n)
          BY <2>1, <3>2
      <4>2. n # 0 => n - 1 \in 0..k + 1 /\ n - 1 # k + 1 /\ h[n - 1] = f[n - 1]
          BY <3>2
      <4> QED  BY <4>1, <4>2
    <3>3. n = k + 1 \/ n \in 0..k
        OBVIOUS
    <3> QED  BY <3>1, <3>2, <3>3
  <2>3. h = [n \in 0..k + 1 |-> h[n]]
      OBVIOUS
  <2> HIDE DEF h
  <2>4. h = [n \in 0..k + 1 |-> Rule(h, n)]
      BY <2>2, <2>3
  <2>5. k + 1 \in 0..L
      OBVIOUS
  <2> QED  BY <2>4, <2>5
<1>3. L \in S
  <2> HIDE DEF S
  <2>1. \A k \in 0..L : k \in S
      BY <1>1, <1>2, UpTo
  <2> QED  BY <2>1
<1>4. \E f : f = [n \in 0..L |-> Rule(f, n)]
    BY <1>3
<1>5. after = [n \in 0..L |-> Rule(after, n)]
  <2> HIDE DEF Rule
  <2> QED  BY <1>4
<1>6. Received(c, DC, bytes) = Completed(after[L], DC, owed)
    BY DEF Received, Completed
<1> HIDE DEF after
<1>7. Bytewise(after, c, DC, owed, bytes)
  <2>1. after[0] = c
      BY <1>5
  <2>2. ASSUME NEW n \in 1..L PROVE after[n] = Handled(after[n - 1], DC, owed, bytes[n])
    <3>1. n \in 0..L /\ n # 0
        OBVIOUS
    <3>2. after[n] = Rule(after, n)
      <4> HIDE DEF Rule
      <4> QED  BY <1>5, <3>1
    <3> QED  BY <3>1, <3>2
  <2> QED  BY <2>1, <2>2 DEF Bytewise
<1> QED  BY <1>6, <1>7

\* Presenting leaves the chip in order.
LEMMA PresentType ==
    ASSUME NEW c, ChipInv(c)
    PROVE  ChipInv(present_display(c))
<1>1. CASE c.display_on
  <2>1. present_display(c) = [c EXCEPT !.visible = c.rgba]
      BY <1>1 DEF present_display, ChipInv, Chips
  <2> QED  BY <2>1 DEF ChipInv, Chips, WindowInv, ArgsInv
<1>2. CASE ~c.display_on
    BY <1>2 DEF present_display
<1> QED  BY <1>1, <1>2

\* Whatever arrives, if the chip is owed as many pixel bytes as it gets.
LEMMA ReceivedType ==
    ASSUME NEW c, ChipInv(c), NEW DC, NEW bytes \in Seq(Bytes),
           DC # 0 /\ c.pending_write_bytes > 0 => Len(bytes) <= c.pending_write_bytes
    PROVE  ChipInv(Received(c, DC, bytes))
<1> DEFINE owed == c.pending_write_bytes > 0
           L == Len(bytes)
<1>1. PICK g : /\ Bytewise(g, c, DC, owed, bytes)
               /\ Received(c, DC, bytes) = Completed(g[L], DC, owed)
    BY ReceivedBytewise
<1> DEFINE Good(k) ==
              /\ ChipInv(g[k])
              /\ DC # 0 /\ owed => g[k].pending_write_bytes = c.pending_write_bytes - k
           S == {k \in 0..L : Good(k)}
<1>2. c.pending_write_bytes \in Nat
    BY DEF ChipInv, Chips, Owed
<1>3. 0 \in S
  <2>1. g[0] = c
      BY <1>1 DEF Bytewise
  <2>2. c.pending_write_bytes = c.pending_write_bytes - 0
      BY <1>2
  <2>3. Good(0)
      BY <2>1, <2>2
  <2> QED  BY <2>3
<1>4. ASSUME NEW k \in 0..L - 1, k \in S PROVE k + 1 \in S
  <2>1. k + 1 \in 1..L /\ k + 1 - 1 = k /\ bytes[k + 1] \in Bytes
      OBVIOUS
  <2>2. g[k + 1] = Handled(g[k], DC, owed, bytes[k + 1])
      BY <1>1, <2>1 DEF Bytewise
  <2>3. Good(k)
      BY <1>4
  <2>4. Good(k + 1)
    <3>1. CASE DC = 0
      <4>1. g[k + 1] = handle_command_byte(g[k], bytes[k + 1])
          BY <2>2, <3>1 DEF Handled
      <4> QED  BY <2>1, <2>3, <3>1, <4>1, CommandByteType
    <3>2. CASE DC # 0 /\ owed
      <4>1. g[k + 1] = RamByte(g[k], bytes[k + 1])
          BY <2>2, <3>2 DEF Handled
      <4>2. g[k].pending_write_bytes = c.pending_write_bytes - k
          BY <2>3, <3>2
      <4>3. g[k].pending_write_bytes > 0
          BY <1>2, <2>1, <3>2, <4>2
      <4>4. /\ ChipInv(g[k + 1])
            /\ g[k + 1].pending_write_bytes = g[k].pending_write_bytes - 1
        <5> DEFINE d == g[k]
                   b == bytes[k + 1]
        <5>1. ChipInv(d) /\ d.pending_write_bytes > 0 /\ b \in Bytes
            BY <2>1, <2>3, <4>3
        <5> HIDE DEF d, b
        <5>2. ChipInv(RamByte(d, b)) /\ RamByte(d, b).pending_write_bytes = d.pending_write_bytes - 1
            BY <5>1, RamByteType, Zenon
        <5> QED  BY <4>1, <5>2, Zenon DEF d, b
      <4>5. g[k + 1].pending_write_bytes = c.pending_write_bytes - (k + 1)
          BY <1>2, <4>2, <4>4, SMTT(30)
      <4> QED  BY <4>4, <4>5
    <3>3. CASE DC # 0 /\ ~owed
      <4>1. g[k + 1] = handle_data_byte(g[k], bytes[k + 1])
          BY <2>2, <3>3 DEF Handled
      <4> QED  BY <2>1, <2>3, <3>3, <4>1, DataByteType
    <3> QED  BY <3>1, <3>2, <3>3
  <2> QED  BY <2>1, <2>4
<1>5. L \in S
  <2> HIDE DEF S
  <2>1. L \in Nat
      OBVIOUS
  <2>2. \A k \in 0..L : k \in S
      BY <1>3, <1>4, <2>1, UpTo
  <2> QED  BY <2>1, <2>2
<1>6. ChipInv(g[L])
    BY <1>5
<1> QED  BY <1>1, <1>6, PresentType DEF Completed

-----------------------------------------------------------------------------
\* What is left of a sequence from one place on, and another after it.
LEMMA RestOf ==
    ASSUME NEW S, NEW s \in Seq(S), NEW t \in Seq(S), NEW j \in 1..Len(s)
    PROVE  LET u == SubSeq(s, j, Len(s)) \o t IN
           /\ u \in Seq(S) /\ u # <<>> /\ Len(u) = Len(s) - j + 1 + Len(t)
           /\ Head(u) = s[j] /\ Tail(u) = SubSeq(s, j + 1, Len(s)) \o t
<1> DEFINE r == SubSeq(s, j, Len(s))
<1>1. r \in Seq(S) /\ Len(r) = Len(s) - j + 1 /\ r[1] = s[j]
    OBVIOUS
<1>2. Tail(r) = SubSeq(s, j + 1, Len(s))
    OBVIOUS
<1> HIDE DEF r
<1>3. r # <<>>
    BY <1>1
<1>4. r \o t # <<>> /\ r \o t \in Seq(S) /\ Len(r \o t) = Len(r) + Len(t)
    BY <1>1, <1>3
<1>5. Head(r \o t) = r[1]
    BY <1>1, <1>3
<1>6. Tail(r \o t) = Tail(r) \o t
    BY <1>1, <1>3
<1> QED  BY <1>1, <1>2, <1>4, <1>5, <1>6 DEF r

\* Nothing is left of a sequence after its end, all of it from its beginning.
LEMMA NoRest ==
    ASSUME NEW S, NEW s \in Seq(S), NEW t \in Seq(S)
    PROVE  SubSeq(s, Len(s) + 1, Len(s)) \o t = t /\ SubSeq(s, 1, Len(s)) \o t = s \o t
<1>1. SubSeq(s, Len(s) + 1, Len(s)) = <<>> /\ SubSeq(s, 1, Len(s)) = s
    OBVIOUS
<1>2. <<>> \o t = t
    OBVIOUS
<1> QED  BY <1>1, <1>2

\* A sequence made of two.
Joins(u, s, t) ==
    /\ Len(u) = Len(s) + Len(t)
    /\ \A i \in 1..Len(s) : u[i] = s[i]
    /\ \A i \in 1..Len(t) : u[Len(s) + i] = t[i]

\* The concatenation of two sequences is made of them.
LEMMA Joined ==
    ASSUME NEW S, NEW s \in Seq(S), NEW t \in Seq(S)
    PROVE  s \o t \in Seq(S) /\ Joins(s \o t, s, t)
BY DEF Joins

\* The bus operations of a command, one by one.
LEMMA CmdOps ==
    ASSUME NEW command \in Bytes, NEW args \in Seq(Bytes)
    PROVE  LET c == cmd(command, args) IN
           /\ c \in Seq(({"cs", "dc", "rst"} \X {0, 1}) \cup ({"spi"} \X Bytes))
           /\ c[1] = <<"cs", 0>> /\ c[2] = <<"dc", 0>> /\ c[3] = <<"spi", command>>
           /\ args = <<>> => Len(c) = 4 /\ c[4] = <<"cs", 1>>
           /\ args # <<>> => /\ Len(c) = Len(args) + 5
                             /\ c[4] = <<"dc", 1>> /\ c[Len(args) + 5] = <<"cs", 1>>
                             /\ \A i \in 1..Len(args) : c[i + 4] = <<"spi", args[i]>>
<1> DEFINE Ops == ({"cs", "dc", "rst"} \X {0, 1}) \cup ({"spi"} \X Bytes)
           first == <<<<"cs", 0>>, <<"dc", 0>>, <<"spi", command>>>>
           last == <<<<"cs", 1>>>>
<1>1. /\ first \in Seq(Ops) /\ Len(first) = 3
      /\ first[1] = <<"cs", 0>> /\ first[2] = <<"dc", 0>> /\ first[3] = <<"spi", command>>
    OBVIOUS
<1>2. last \in Seq(Ops) /\ Len(last) = 1 /\ last[1] = <<"cs", 1>>
    OBVIOUS
<1> HIDE DEF first, last
<1>3. CASE args = <<>>
  <2>1. cmd(command, args) = first \o <<>> \o last
      BY <1>3 DEF cmd, first, last
  <2>2. first \o <<>> = first
      BY <1>1
  <2> HIDE DEF Ops
  <2>3. /\ first \o last \in Seq(Ops) /\ Len(first \o last) = 4
        /\ (first \o last)[1] = first[1] /\ (first \o last)[2] = first[2]
        /\ (first \o last)[3] = first[3] /\ (first \o last)[4] = last[1]
    <3>1. /\ first \o last \in Seq(Ops) /\ Joins(first \o last, first, last)
        BY <1>1, <1>2, Joined
    <3> QED  BY <1>1, <1>2, <3>1 DEF Joins
  <2> QED  BY <1>1, <1>2, <1>3, <2>1, <2>2, <2>3 DEF Ops
<1>4. CASE args # <<>>
  <2> DEFINE n == Len(args)
             written == Written(args)
             data == <<<<"dc", 1>>>> \o written
  <2>1. written \in Seq(Ops) /\ Len(written) = n /\ \A i \in 1..n : written[i] = <<"spi", args[i]>>
      BY DEF Written
  <2>2. <<<<"dc", 1>>>> \in Seq(Ops) /\ Len(<<<<"dc", 1>>>>) = 1
      OBVIOUS
  <2> HIDE DEF written
  <2>3. /\ data \in Seq(Ops) /\ Len(data) = n + 1 /\ data[1] = <<"dc", 1>>
        /\ \A i \in 1..n : data[i + 1] = written[i]
      BY <2>1, <2>2
  <2>4. cmd(command, args) = (first \o data) \o last
      BY <1>4 DEF cmd, first, last, written
  <2>5. n \in Nat
      OBVIOUS
  <2> HIDE DEF data, n, Ops
  <2> DEFINE most == first \o data
  <2>6. /\ most \in Seq(Ops) /\ Len(most) = n + 4
        /\ most[1] = first[1] /\ most[2] = first[2] /\ most[3] = first[3]
        /\ most[4] = data[1] /\ \A i \in 1..n : most[i + 4] = data[i + 1]
    <3>1. /\ most \in Seq(Ops) /\ Len(most) = n + 4
          /\ \A i \in 1..3 : most[i] = first[i]
          /\ \A i \in 1..n + 1 : most[3 + i] = data[i]
      <4>1. 3 + (n + 1) = n + 4
          BY <2>5
      <4>2. /\ most \in Seq(Ops) /\ Joins(most, first, data)
          BY <1>1, <2>3, Joined
      <4> HIDE DEF most
      <4> QED  BY <1>1, <2>3, <4>1, <4>2 DEF Joins
    <3> HIDE DEF most
    <3>2. ASSUME NEW i \in 1..n PROVE most[i + 4] = data[i + 1]
      <4>1. i + 1 \in 1..n + 1 /\ 3 + (i + 1) = i + 4
          BY <2>5
      <4> QED  BY <3>1, <4>1
    <3>3. 1 \in 1..n + 1 /\ 3 + 1 = 4
        BY <2>5
    <3>4. most[1] = first[1] /\ most[2] = first[2] /\ most[3] = first[3] /\ most[4] = data[1]
        BY <3>1, <3>3
    <3> QED  BY <3>1, <3>2, <3>4
  <2> HIDE DEF most
  <2>7. /\ most \o last \in Seq(Ops) /\ Len(most \o last) = n + 5
        /\ \A i \in 1..n + 4 : (most \o last)[i] = most[i]
        /\ (most \o last)[n + 5] = last[1]
    <3>1. /\ most \o last \in Seq(Ops) /\ Joins(most \o last, most, last)
        BY <1>2, <2>6, Joined
    <3>2. n + 4 + 1 = n + 5
        BY <2>5
    <3> QED  BY <1>2, <2>6, <3>1, <3>2 DEF Joins
  <2>8. cmd(command, args) = most \o last
      BY <2>4 DEF most
  <2>9. \A i \in 1..n : i + 4 \in 1..n + 4 /\ i + 1 \in 1..n + 1
      BY <2>5
  <2>10. 1 \in 1..n + 4 /\ 2 \in 1..n + 4 /\ 3 \in 1..n + 4 /\ 4 \in 1..n + 4
      BY <2>5
  <2> QED  BY <1>1, <1>2, <1>4, <2>1, <2>3, <2>6, <2>7, <2>8, <2>9, <2>10 DEF n, Ops
<1> QED  BY <1>3, <1>4

Ops == ({"cs", "dc", "rst"} \X {0, 1}) \cup ({"spi"} \X Bytes)
Commands == [command : Bytes, args : Seq(Bytes)]

\* The operations of one command, and those of a command and all after it.
OpsOf(commands, k) == cmd(commands[k].command, commands[k].args)

Left(commands, k) ==
    LET from[i \in 1..Len(commands) + 1] ==
            IF i > Len(commands) THEN <<>>
            ELSE cmd(commands[i].command, commands[i].args) \o from[i + 1]
    IN  from[k]

\* What a list still has to send from a command on is that command and the rest.
LEMMA LeftUnfolds ==
    ASSUME NEW commands \in Seq(Commands)
    PROVE  /\ Left(commands, Len(commands) + 1) = <<>>
           /\ \A k \in 1..Len(commands) :
                 Left(commands, k) = OpsOf(commands, k) \o Left(commands, k + 1)
<1> DEFINE L == Len(commands)
           Rule(f, i) == IF i > L THEN <<>> ELSE OpsOf(commands, i) \o f[i + 1]
           S == {n \in 0..L : \E f : f = [i \in L + 1 - n..L + 1 |-> Rule(f, i)]}
           from == CHOOSE f : f = [i \in 1..L + 1 |-> Rule(f, i)]
<1>1. L \in Nat
    OBVIOUS
<1>2. 0 \in S
  <2> DEFINE f == [i \in L + 1 - 0..L + 1 |-> <<>>]
  <2>1. f = [i \in L + 1 - 0..L + 1 |-> Rule(f, i)]
    <3>1. \A i \in L + 1 - 0..L + 1 : Rule(f, i) = <<>>
        BY <1>1
    <3> QED  BY <3>1
  <2> HIDE DEF f
  <2>2. \E e : e = [i \in L + 1 - 0..L + 1 |-> Rule(e, i)]
      BY <2>1
  <2>3. 0 \in 0..L
      BY <1>1
  <2> QED  BY <2>2, <2>3
<1>3. ASSUME NEW n \in 0..L - 1, n \in S PROVE n + 1 \in S
  <2>1. PICK f : f = [i \in L + 1 - n..L + 1 |-> Rule(f, i)]
      BY <1>3
  <2> DEFINE first == L - n
             h == [i \in first..L + 1 |-> IF i = first THEN OpsOf(commands, first) \o f[first + 1]
                                          ELSE f[i]]
  <2>2. first \in 1..L /\ first + 1 = L + 1 - n /\ first = L + 1 - (n + 1)
      BY <1>1
  <2>3. \A i \in first..L + 1 : h[i] = Rule(h, i)
    <3> SUFFICES ASSUME NEW i \in first..L + 1 PROVE h[i] = Rule(h, i)
        OBVIOUS
    <3>1. CASE i = first
      <4>1. first \in first..L + 1 /\ first + 1 \in first..L + 1 /\ first + 1 # first /\ ~(first > L)
          BY <1>1, <2>2
      <4>2. h[first + 1] = f[first + 1]
          BY <4>1
      <4> QED  BY <3>1, <4>1, <4>2
    <3>2. CASE i # first
      <4>1. i \in L + 1 - n..L + 1 /\ (i <= L => i + 1 \in first..L + 1 /\ i + 1 # first)
          BY <1>1, <2>2, <3>2
      <4>2. h[i] = f[i] /\ f[i] = Rule(f, i)
          BY <2>1, <3>2, <4>1
      <4>3. i <= L => h[i + 1] = f[i + 1]
          BY <4>1
      <4>4. i > L \/ i <= L
          BY <1>1
      <4> QED  BY <4>2, <4>3, <4>4
    <3> QED  BY <3>1, <3>2
  <2>4. h = [i \in first..L + 1 |-> h[i]]
      OBVIOUS
  <2> HIDE DEF h
  <2>5. h = [i \in first..L + 1 |-> Rule(h, i)]
      BY <2>3, <2>4
  <2>6. h = [i \in L + 1 - (n + 1)..L + 1 |-> Rule(h, i)]
      BY <2>2, <2>5
  <2>7. n + 1 \in 0..L
      BY <1>1
  <2> HIDE DEF first
  <2> QED  BY <2>6, <2>7
<1>4. \E f : f = [i \in 1..L + 1 |-> Rule(f, i)]
  <2> HIDE DEF S
  <2>1. \A n \in 0..L : n \in S
      BY <1>1, <1>2, <1>3, UpTo
  <2>2. L \in S
      BY <1>1, <2>1
  <2>3. L + 1 - L = 1
      BY <1>1
  <2> USE DEF S
  <2> QED  BY <2>2, <2>3
<1>5. from = [i \in 1..L + 1 |-> Rule(from, i)]
  <2> HIDE DEF Rule
  <2> QED  BY <1>4
<1>6. \A k : Left(commands, k) = from[k]
    BY DEF Left, OpsOf
<1> HIDE DEF from
<1>7. from[L + 1] = <<>>
  <2>1. L + 1 \in 1..L + 1 /\ L + 1 > L
      BY <1>1
  <2> QED  BY <1>5, <2>1
<1>8. ASSUME NEW k \in 1..L PROVE from[k] = OpsOf(commands, k) \o from[k + 1]
  <2>1. k \in 1..L + 1 /\ ~(k > L)
      BY <1>1
  <2> QED  BY <1>5, <2>1
<1> QED  BY <1>6, <1>7, <1>8

\* From one operation of a command on.
At(commands, k, j) ==
    SubSeq(OpsOf(commands, k), j, Len(OpsOf(commands, k))) \o Left(commands, k + 1)

\* The operations of a command are operations, at least four ...
LEMMA OpsOfType ==
    ASSUME NEW commands \in Seq(Commands), NEW k \in 1..Len(commands)
    PROVE  OpsOf(commands, k) \in Seq(Ops) /\ Len(OpsOf(commands, k)) >= 4
<1>1. commands[k].command \in Bytes /\ commands[k].args \in Seq(Bytes)
  <2>1. commands[k] \in Commands
      OBVIOUS
  <2> QED  BY <2>1 DEF Commands
<1> HIDE DEF Commands
<1>2. Len(commands[k].args) \in Nat
    BY <1>1
<1> QED  BY <1>1, <1>2, CmdOps DEF OpsOf, Ops

\* ... and so are those of the rest of a list.
LEMMA LeftType ==
    ASSUME NEW commands \in Seq(Commands)
    PROVE  \A k \in 1..Len(commands) + 1 : Left(commands, k) \in Seq(Ops)
<1> DEFINE L == Len(commands)
           S == {n \in 0..L : Left(commands, L + 1 - n) \in Seq(Ops)}
<1>1. L \in Nat
    OBVIOUS
<1>2. 0 \in S
  <2>1. L + 1 - 0 = L + 1 /\ 0 \in 0..L
      BY <1>1
  <2>2. <<>> \in Seq(Ops)
      OBVIOUS
  <2> QED  BY <2>1, <2>2, LeftUnfolds
<1>3. ASSUME NEW n \in 0..L - 1, n \in S PROVE n + 1 \in S
  <2>1. L - n \in 1..L /\ L - n + 1 = L + 1 - n /\ L + 1 - (n + 1) = L - n /\ n + 1 \in 0..L
      BY <1>1
  <2>2. Left(commands, L - n) = OpsOf(commands, L - n) \o Left(commands, L + 1 - n)
      BY <2>1, LeftUnfolds
  <2>3. Left(commands, L + 1 - n) \in Seq(Ops) /\ OpsOf(commands, L - n) \in Seq(Ops)
      BY <1>3, <2>1, OpsOfType
  <2>4. OpsOf(commands, L - n) \o Left(commands, L + 1 - n) \in Seq(Ops)
      BY <2>3
  <2> QED  BY <2>1, <2>2, <2>4
<1>4. \A n \in 0..L : n \in S
  <2> HIDE DEF S
  <2> QED  BY <1>1, <1>2, <1>3, UpTo
<1>5. ASSUME NEW k \in 1..L + 1 PROVE Left(commands, k) \in Seq(Ops)
  <2>1. L + 1 - k \in 0..L /\ L + 1 - (L + 1 - k) = k
      BY <1>1
  <2> QED  BY <1>4, <2>1
<1> QED  BY <1>5

\* The operation there, and what is left after it.
StepsOn(commands, k, j) ==
    /\ At(commands, k, j) \in Seq(Ops) /\ At(commands, k, j) # <<>>
    /\ Head(At(commands, k, j)) = OpsOf(commands, k)[j]
    /\ Tail(At(commands, k, j)) =
          IF j < Len(OpsOf(commands, k)) THEN At(commands, k, j + 1)
          ELSE IF k < Len(commands) THEN At(commands, k + 1, 1)
          ELSE <<>>
    /\ Len(At(commands, k, j)) > 1 <=> j < Len(OpsOf(commands, k)) \/ k < Len(commands)

\* A step of the driver goes to the next operation of its command, to the next command or ends.
LEMMA AtStep ==
    ASSUME NEW commands \in Seq(Commands), NEW k \in 1..Len(commands),
           NEW j \in 1..Len(OpsOf(commands, k))
    PROVE  StepsOn(commands, k, j)
<1> USE DEF StepsOn
<1> DEFINE s == OpsOf(commands, k)
           t == Left(commands, k + 1)
<1>1. s \in Seq(Ops) /\ Len(s) >= 4 /\ t \in Seq(Ops) /\ Len(s) \in Nat /\ Len(t) \in Nat
  <2>1. k + 1 \in 1..Len(commands) + 1
      OBVIOUS
  <2> QED  BY <2>1, OpsOfType, LeftType
<1>2. /\ At(commands, k, j) \in Seq(Ops) /\ At(commands, k, j) # <<>>
      /\ Len(At(commands, k, j)) = Len(s) - j + 1 + Len(t)
      /\ Head(At(commands, k, j)) = s[j]
      /\ Tail(At(commands, k, j)) = SubSeq(s, j + 1, Len(s)) \o t
    BY <1>1, RestOf, ZenonT(60) DEF At
<1>3. SubSeq(s, Len(s) + 1, Len(s)) \o t = t
    BY <1>1, NoRest
<1>4. CASE j < Len(s)
  <2>1. At(commands, k, j + 1) = SubSeq(s, j + 1, Len(s)) \o t
      BY DEF At
  <2>2. Len(s) - j + 1 + Len(t) > 1
      BY <1>1, <1>4
  <2> HIDE DEF s, t
  <2> QED  BY <1>2, <1>4, <2>1, <2>2 DEF s
<1>5. CASE ~(j < Len(s)) /\ k < Len(commands)
  <2>1. k + 1 \in 1..Len(commands)
      BY <1>5
  <2>2. t = OpsOf(commands, k + 1) \o Left(commands, k + 2)
      BY <2>1, LeftUnfolds
  <2>3. OpsOf(commands, k + 1) \in Seq(Ops) /\ Len(OpsOf(commands, k + 1)) >= 4
      BY <2>1, OpsOfType
  <2>4. Left(commands, k + 2) \in Seq(Ops)
    <3>1. k + 2 \in 1..Len(commands) + 1
        BY <1>5
    <3> QED  BY <3>1, LeftType
  <2>5. At(commands, k + 1, 1) = t
    <3>1. k + 1 + 1 = k + 2
        OBVIOUS
    <3>2. SubSeq(OpsOf(commands, k + 1), 1, Len(OpsOf(commands, k + 1))) = OpsOf(commands, k + 1)
        BY <2>3
    <3> QED  BY <2>2, <3>1, <3>2 DEF At
  <2>6. Len(t) > 1
      BY <2>2, <2>3, <2>4
  <2>7. j = Len(s) /\ Len(s) - j + 1 + Len(t) > 1
      BY <1>1, <1>5, <2>6
  <2> HIDE DEF s, t
  <2> QED  BY <1>2, <1>3, <1>5, <2>5, <2>7 DEF s
<1>6. CASE ~(j < Len(s)) /\ ~(k < Len(commands))
  <2>1. k + 1 = Len(commands) + 1
      BY <1>6
  <2>2. t = <<>>
      BY <2>1, LeftUnfolds
  <2>3. j = Len(s) /\ ~(Len(s) - j + 1 + Len(t) > 1)
      BY <1>1, <1>6, <2>2
  <2> HIDE DEF s, t
  <2> QED  BY <1>2, <1>3, <1>6, <2>2, <2>3 DEF s
<1> QED  BY <1>4, <1>5, <1>6

\* A list is sent from the first operation of its first command.
LEMMA SendIsAt ==
    ASSUME NEW commands \in Seq(Commands), Len(commands) > 0
    PROVE  send(commands) = At(commands, 1, 1) /\ send(commands) \in Seq(Ops)
<1>1. send(commands) = Left(commands, 1)
    BY DEF send, Left
<1>2. 1 \in 1..Len(commands) /\ 1 \in 1..Len(commands) + 1
    OBVIOUS
<1>3. Left(commands, 1) = OpsOf(commands, 1) \o Left(commands, 1 + 1)
    BY <1>2, LeftUnfolds
<1>4. OpsOf(commands, 1) \in Seq(Ops)
    BY <1>2, OpsOfType
<1>5. SubSeq(OpsOf(commands, 1), 1, Len(OpsOf(commands, 1))) = OpsOf(commands, 1)
    BY <1>4
<1> QED  BY <1>1, <1>2, <1>3, <1>5, LeftType DEF At

\* A sequence and one more.
Extends(u, s, e) ==
    Len(u) = Len(s) + 1 /\ u[Len(s) + 1] = e /\ \A i \in 1..Len(s) : u[i] = s[i]

\* Append makes a sequence one longer.
LEMMA Appended ==
    ASSUME NEW S, NEW s \in Seq(S), NEW e \in S
    PROVE  Append(s, e) \in Seq(S) /\ Extends(Append(s, e), s, e)
BY DEF Extends

Buffers == [0..FB_LEN - 1 -> Bytes]
Zeros == [i \in 0..FB_LEN - 1 |-> 0]

\* Bytes the driver sends.
LEMMA SomeBytes ==
    /\ 0 \in Bytes /\ WIDTH - 1 \in Bytes /\ HEIGHT - 1 \in Bytes
    /\ \h15 \in Bytes /\ \h75 \in Bytes /\ \h5C \in Bytes /\ \hAF \in Bytes
BY Dimensions DEF Bytes

\* A flush is three commands: columns, rows and the framebuffer.
LEMMA FlushCommandsType ==
    ASSUME NEW buffer \in Buffers
    PROVE  /\ FlushCommands(buffer) \in Seq(Commands) /\ Len(FlushCommands(buffer)) = 3
           /\ FlushCommands(buffer)[1] = Command(\h15, <<0, WIDTH - 1>>)
           /\ FlushCommands(buffer)[2] = Command(\h75, <<0, HEIGHT - 1>>)
           /\ FlushCommands(buffer)[3] = Command(\h5C, [i \in 1..FB_LEN |-> buffer[i - 1]])
<1> DEFINE data == [i \in 1..FB_LEN |-> buffer[i - 1]]
<1>1. data \in Seq(Bytes)
  <2>1. \A i \in 1..FB_LEN : buffer[i - 1] \in Bytes
      BY Dimensions DEF Buffers
  <2> QED  BY <2>1, Dimensions
<1> HIDE DEF data
<1>2. <<0, WIDTH - 1>> \in Seq(Bytes) /\ <<0, HEIGHT - 1>> \in Seq(Bytes)
    BY SomeBytes
<1> DEFINE c1 == Command(\h15, <<0, WIDTH - 1>>)
           c2 == Command(\h75, <<0, HEIGHT - 1>>)
           c3 == Command(\h5C, data)
<1>3. c1 \in Commands /\ c2 \in Commands /\ c3 \in Commands
    BY <1>1, <1>2, SomeBytes DEF Command, Commands
<1>4. FlushCommands(buffer) = Append(<<c1, c2>>, c3)
    BY DEF FlushCommands, set_full_window, data
<1> HIDE DEF c1, c2, c3
<1>5. <<c1, c2>> \in Seq(Commands) /\ Len(<<c1, c2>>) = 2 /\ <<c1, c2>>[1] = c1 /\ <<c1, c2>>[2] = c2
    BY <1>3
<1> DEFINE both == <<c1, c2>>
<1> HIDE DEF both
<1>6. both \in Seq(Commands) /\ Len(both) = 2 /\ both[1] = c1 /\ both[2] = c2
    BY <1>5 DEF both
<1>7. /\ Append(both, c3) \in Seq(Commands) /\ Len(Append(both, c3)) = 3
      /\ Append(both, c3)[1] = c1 /\ Append(both, c3)[2] = c2 /\ Append(both, c3)[3] = c3
  <2>1. Append(both, c3) \in Seq(Commands) /\ Extends(Append(both, c3), both, c3)
      BY <1>3, <1>6, Appended
  <2> QED  BY <1>6, <2>1 DEF Extends
<1> QED  BY <1>4, <1>7 DEF both, c1, c2, c3, data

\* The remap setting is a byte.
LEMMA RemapType == ASSUME NEW o PROVE remap_byte(o) \in Bytes
BY DEF remap_byte, Bytes

\* The settings are commands, seventeen of them.
LEMMA SetupType == ASSUME NEW o PROVE Setup(o) \in Seq(Commands) /\ Len(Setup(o)) = 17
<1>1. /\ \hFD \in Bytes /\ \h12 \in Bytes /\ \hB1 \in Bytes /\ \hAE \in Bytes /\ \hB3 \in Bytes
      /\ \hF1 \in Bytes /\ \hCA \in Bytes /\ \h7F \in Bytes /\ \hA2 \in Bytes /\ \hA1 \in Bytes
      /\ \hB5 \in Bytes /\ \hAB \in Bytes /\ \hB4 \in Bytes /\ \hA0 \in Bytes /\ \h55 \in Bytes
      /\ \hC1 \in Bytes /\ \hC8 \in Bytes /\ \h80 \in Bytes /\ \hC7 \in Bytes /\ \h0F \in Bytes
      /\ \h32 \in Bytes /\ \hB6 \in Bytes /\ \hBE \in Bytes /\ \hA6 \in Bytes
      /\ 0 \in Bytes /\ 1 \in Bytes /\ 5 \in Bytes
    BY DEF Bytes
<1>2. ASSUME NEW b \in Bytes PROVE Command(b, <<>>) \in Commands
    BY DEF Command, Commands
<1>3. ASSUME NEW b \in Bytes, NEW x \in Bytes PROVE Command(b, <<x>>) \in Commands
    BY DEF Command, Commands
<1>4. ASSUME NEW b \in Bytes, NEW x \in Bytes, NEW y \in Bytes, NEW z \in Bytes
      PROVE  Command(b, <<x, y, z>>) \in Commands
  <2>1. <<x, y, z>> \in Seq(Bytes)
      OBVIOUS
  <2> QED  BY <2>1 DEF Command, Commands
<1>5. /\ Command(\hFD, <<\h12>>) \in Commands /\ Command(\hFD, <<\hB1>>) \in Commands
      /\ Command(\hB3, <<\hF1>>) \in Commands /\ Command(\hCA, <<\h7F>>) \in Commands
      /\ Command(\hA2, <<0>>) \in Commands /\ Command(\hA1, <<0>>) \in Commands
      /\ Command(\hB5, <<0>>) \in Commands /\ Command(\hAB, <<1>>) \in Commands
    BY <1>1, <1>3
<1>6. /\ Command(\hC7, <<\h0F>>) \in Commands /\ Command(\hB1, <<\h32>>) \in Commands
      /\ Command(\hB6, <<1>>) \in Commands /\ Command(\hBE, <<5>>) \in Commands
      /\ Command(\hA0, <<remap_byte(o)>>) \in Commands
    BY <1>1, <1>3, RemapType
<1>7. Command(\hAE, <<>>) \in Commands /\ Command(\hA6, <<>>) \in Commands
    BY <1>1, <1>2
<1>8. Command(\hB4, <<\hA0, \hB5, \h55>>) \in Commands
    BY <1>1, <1>4
<1>9. Command(\hC1, <<\hC8, \h80, \hC8>>) \in Commands
    BY <1>1, <1>4
<1> HIDE DEF Commands
<1> QED  BY <1>5, <1>6, <1>7, <1>8, <1>9 DEF Setup

\* What init sends: the settings, a black framebuffer, and the display on.
InitIs(o) ==
    /\ \A k \in 1..17 : InitCommands(o)[k] = Setup(o)[k]
    /\ \A k \in 1..3 : InitCommands(o)[17 + k] = FlushCommands(Zeros)[k]
    /\ InitCommands(o)[21] = Command(\hAF, <<>>)

\* What init sends are commands, twenty-one of them.
LEMMA InitCommandsType ==
    ASSUME NEW o
    PROVE  InitCommands(o) \in Seq(Commands) /\ Len(InitCommands(o)) = 21 /\ InitIs(o)
<1>1. Setup(o) \in Seq(Commands) /\ Len(Setup(o)) = 17
    BY SetupType
<1>2. FlushCommands(Zeros) \in Seq(Commands) /\ Len(FlushCommands(Zeros)) = 3
  <2>1. Zeros \in Buffers
      BY SomeBytes DEF Zeros, Buffers
  <2> QED  BY <2>1, FlushCommandsType
<1>3. <<Command(\hAF, <<>>)>> \in Seq(Commands) /\ Len(<<Command(\hAF, <<>>)>>) = 1
    BY SomeBytes DEF Command, Commands
<1>4. InitCommands(o) = (Setup(o) \o FlushCommands(Zeros)) \o <<Command(\hAF, <<>>)>>
    BY DEF InitCommands, Zeros
<1> DEFINE most == Setup(o) \o FlushCommands(Zeros)
<1>5. /\ most \in Seq(Commands) /\ Len(most) = 20
      /\ \A k \in 1..17 : most[k] = Setup(o)[k]
      /\ \A k \in 1..3 : most[17 + k] = FlushCommands(Zeros)[k]
  <2>1. most \in Seq(Commands) /\ Joins(most, Setup(o), FlushCommands(Zeros))
      BY <1>1, <1>2, Joined
  <2> HIDE DEF most
  <2> QED  BY <1>1, <1>2, <2>1 DEF Joins
<1> DEFINE on == <<Command(\hAF, <<>>)>>
<1> HIDE DEF most, on
<1>6. on \in Seq(Commands) /\ Len(on) = 1 /\ on[1] = Command(\hAF, <<>>)
    BY <1>3 DEF on
<1>7. most \o on \in Seq(Commands) /\ Joins(most \o on, most, on)
    BY <1>5, <1>6, Joined
<1>8. Len(most \o on) = 21
    BY <1>5, <1>6, <1>7 DEF Joins
<1>9. InitIs(o)
  <2>1. InitCommands(o) = most \o on
      BY <1>4 DEF most, on
  <2>2. /\ \A i \in 1..20 : (most \o on)[i] = most[i]
        /\ (most \o on)[20 + 1] = on[1]
    <3>1. 1 \in 1..Len(on)
        BY <1>6
    <3> QED  BY <1>5, <1>6, <1>7, <3>1 DEF Joins
  <2>3. (\A k \in 1..17 : k \in 1..20) /\ (\A k \in 1..3 : 17 + k \in 1..20) /\ 20 + 1 = 21
      OBVIOUS
  <2> QED  BY <1>5, <1>6, <2>1, <2>2, <2>3, ZenonT(60) DEF InitIs
<1> QED  BY <1>4, <1>7, <1>8, <1>9 DEF most, on

Resetting(o, j) == SubSeq(reset, j, Len(reset)) \o send(InitCommands(o))

\* init begins with the reset pulse, step by step.
LEMMA ResetSteps ==
    ASSUME NEW o
    PROVE  /\ init(o) = Resetting(o, 1)
           /\ \A j \in 1..3 :
                 /\ Resetting(o, j) \in Seq(Ops) /\ Len(Resetting(o, j)) > 1
                 /\ Head(Resetting(o, j)) = <<"rst", IF j = 2 THEN 0 ELSE 1>>
                 /\ Tail(Resetting(o, j)) =
                       IF j < 3 THEN Resetting(o, j + 1) ELSE At(InitCommands(o), 1, 1)
<1> DEFINE t == send(InitCommands(o))
<1>1. /\ reset \in Seq(Ops) /\ Len(reset) = 3
      /\ reset[1] = <<"rst", 1>> /\ reset[2] = <<"rst", 0>> /\ reset[3] = <<"rst", 1>>
    BY DEF reset, Ops
<1>2. t \in Seq(Ops) /\ t = At(InitCommands(o), 1, 1)
  <2>1. InitCommands(o) \in Seq(Commands) /\ Len(InitCommands(o)) = 21
      BY InitCommandsType, Zenon
  <2>2. Len(InitCommands(o)) > 0
      BY <2>1
  <2> QED  BY <2>1, <2>2, SendIsAt
<1>3. t # <<>>
  <2>1. 1 \in 1..Len(InitCommands(o)) /\ Len(OpsOf(InitCommands(o), 1)) >= 4
      BY InitCommandsType, OpsOfType
  <2>2. Len(OpsOf(InitCommands(o), 1)) \in Nat
      BY <2>1, InitCommandsType, OpsOfType
  <2>3. 1 \in 1..Len(OpsOf(InitCommands(o), 1))
      BY <2>1, <2>2
  <2> QED  BY <1>2, <2>1, <2>3, InitCommandsType, AtStep DEF StepsOn
<1> HIDE DEF t
<1>4. init(o) = Resetting(o, 1)
  <2>1. SubSeq(reset, 1, Len(reset)) \o t = reset \o t
      BY <1>1, <1>2, NoRest
  <2> QED  BY <2>1 DEF init, Resetting, t
<1>5. ASSUME NEW j \in 1..3
      PROVE  /\ Resetting(o, j) \in Seq(Ops) /\ Len(Resetting(o, j)) > 1
             /\ Head(Resetting(o, j)) = <<"rst", IF j = 2 THEN 0 ELSE 1>>
             /\ Tail(Resetting(o, j)) =
                   IF j < 3 THEN Resetting(o, j + 1) ELSE At(InitCommands(o), 1, 1)
  <2>1. j \in 1..Len(reset)
      BY <1>1
  <2>2. Resetting(o, j) = SubSeq(reset, j, Len(reset)) \o t
      BY DEF Resetting, t
  <2>3. /\ Resetting(o, j) \in Seq(Ops) /\ Len(Resetting(o, j)) = Len(reset) - j + 1 + Len(t)
        /\ Head(Resetting(o, j)) = reset[j]
        /\ Tail(Resetting(o, j)) = SubSeq(reset, j + 1, Len(reset)) \o t
    <3> DEFINE r == SubSeq(reset, j, Len(reset)) \o t
    <3>1. /\ r \in Seq(Ops) /\ r # <<>> /\ Len(r) = Len(reset) - j + 1 + Len(t)
          /\ Head(r) = reset[j] /\ Tail(r) = SubSeq(reset, j + 1, Len(reset)) \o t
      <4>1. reset \in Seq(Ops) /\ t \in Seq(Ops)
          BY <1>1, <1>2
      <4> QED  BY <2>1, <4>1, RestOf, Zenon
    <3> QED  BY <2>2, <3>1, Zenon
  <2>4. Len(t) \in Nat /\ Len(t) > 0
      BY <1>2, <1>3
  <2>5. Len(Resetting(o, j)) > 1
      BY <1>1, <2>3, <2>4
  <2>6. reset[j] = <<"rst", IF j = 2 THEN 0 ELSE 1>>
      BY <1>1
  <2>7. CASE j < 3
    <3>1. Resetting(o, j + 1) = SubSeq(reset, j + 1, Len(reset)) \o t
        BY DEF Resetting, t
    <3> QED  BY <2>3, <2>5, <2>6, <2>7, <3>1
  <2>8. CASE ~(j < 3)
    <3>1. j + 1 = Len(reset) + 1
        BY <1>1, <2>8
    <3>2. SubSeq(reset, Len(reset) + 1, Len(reset)) \o t = t
        BY <1>1, <1>2, NoRest
    <3> QED  BY <1>2, <2>3, <2>5, <2>6, <2>8, <3>1, <3>2
  <2> QED  BY <2>7, <2>8
<1> QED  BY <1>4, <1>5

-----------------------------------------------------------------------------
\* A read has not got all it wants, and wants one byte or no more than the chip
\* is owed; without a chip select there is none.
ReadInv(r, c, CS) ==
    /\ r \in [want : Nat, got : Seq(Bytes)]
    /\ IF r.want = 0 THEN r = NoRead ELSE Len(r.got) < r.want
    /\ r.want \in {0, 1} \/ r.want <= c.pending_write_bytes
    /\ CS = 1 => r = NoRead

\* What is left to do is the end of a reset or of a list of commands.
Sending(commands) ==
    \E k \in 1..Len(commands) : \E j \in 1..Len(OpsOf(commands, k)) : todo = At(commands, k, j)

ScriptInv ==
    CASE doing = "init" -> \/ cs = 1 /\ \E j \in 1..3 : todo = Resetting(orientation, j)
                           \/ Sending(InitCommands(orientation))
      [] doing = "flush" -> Sending(FlushCommands(fb))
      [] OTHER -> todo = <<>>

TypeInv ==
    /\ doing \in {"init", "idle", "flush", "halted"}
    /\ fb \in Buffers
    /\ cs \in {0, 1} /\ dc \in {0, 1} /\ orientation \in Orientations
    /\ intact \in BOOLEAN /\ interrupted \in 0..MaxInterrupted
    /\ ChipInv(chip)
    /\ ReadInv(reading, chip, cs)
    /\ ScriptInv

\* Reading nothing has a type.
LEMMA NoReadType == NoRead \in [want : Nat, got : Seq(Bytes)] /\ NoRead.want = 0 /\ NoRead.got = <<>>
BY DEF NoRead

\* A new read wants one byte, or no more than are owed.
LEMMA NextReadType ==
    ASSUME NEW c, ChipInv(c), NEW DC, NEW CS \in {0, 1}
    PROVE  ReadInv(NextRead(c, CS, DC), c, CS)
<1>1. c.pending_write_bytes \in Nat
    BY DEF ChipInv, Chips, Owed
<1>2. SPI_CHUNK \in Nat \ {0}
    BY PanelAssumption DEF PanelAssumption
<1>3. CASE CS = 1
    BY <1>3, NoReadType DEF NextRead, ReadInv
<1>4. CASE CS = 0
  <2>1. PICK n \in Nat \ {0} : /\ NextRead(c, CS, DC) = [want |-> n, got |-> <<>>]
                               /\ n = 1 \/ n <= c.pending_write_bytes
      BY <1>1, <1>2, <1>4 DEF NextRead
  <2>2. <<>> \in Seq(Bytes) /\ Len(<<>>) = 0
      OBVIOUS
  <2>3. [want |-> n, got |-> <<>>] \in [want : Nat, got : Seq(Bytes)]
      BY <2>2
  <2>4. ReadInv([want |-> n, got |-> <<>>], c, CS)
    <3> DEFINE r == [want |-> n, got |-> <<>>]
    <3>1. r.want = n /\ r.got = <<>> /\ n # 0
        OBVIOUS
    <3> HIDE DEF r
    <3>2. r \in [want : Nat, got : Seq(Bytes)]
        BY <2>3 DEF r
    <3>3. Len(r.got) < r.want /\ r.want # 0 /\ (r.want = 1 \/ r.want <= c.pending_write_bytes)
        BY <2>1, <2>2, <3>1
    <3>4. ReadInv(r, c, CS)
        BY <1>4, <3>2, <3>3 DEF ReadInv
    <3> QED  BY <3>4 DEF r
  <2> QED  BY <2>1, <2>4
<1> QED  BY <1>3, <1>4

\* Nothing received, nothing changed.
LEMMA ReceivedNothing ==
    ASSUME NEW c, ChipInv(c), NEW DC
    PROVE  Received(c, DC, <<>>) = c
<1>1. Len(<<>>) = 0
    OBVIOUS
<1>2. PICK g : /\ Bytewise(g, c, DC, c.pending_write_bytes > 0, <<>>)
               /\ Received(c, DC, <<>>) = Completed(g[Len(<<>>)], DC, c.pending_write_bytes > 0)
    BY <1>1, ReceivedBytewise
<1>3. g[0] = c
    BY <1>2 DEF Bytewise
<1>4. Received(c, DC, <<>>) = Completed(c, DC, c.pending_write_bytes > 0)
    BY <1>1, <1>2, <1>3
<1>5. c.pending_write_bytes \in Nat
    BY DEF ChipInv, Chips, Owed
<1> QED  BY <1>4, <1>5 DEF Completed

\* A change of CS keeps chip and read in order.
LEMMA CsChangesType ==
    ASSUME ChipInv(chip), ReadInv(reading, chip, cs), cs \in {0, 1},
           NEW level \in {0, 1}, CsChanges(level)
    PROVE  cs' = level /\ ChipInv(chip') /\ ReadInv(reading', chip', level)
<1>1. cs' = level
    BY DEF CsChanges
<1>2. CASE level = cs
    BY <1>1, <1>2 DEF CsChanges
<1>3. CASE level # cs /\ level = 0
  <2>1. cs = 1 /\ reading.got = <<>>
      BY <1>3, NoReadType DEF ReadInv
  <2>2. chip' = chip /\ reading' = NextRead(chip, 0, dc)
      BY <1>3, <2>1, ReceivedNothing DEF CsChanges
  <2> QED  BY <1>1, <1>3, <2>2, NextReadType
<1>4. CASE level # cs /\ level = 1
  <2>1. chip' = Received(chip, dc, reading.got) /\ reading' = NoRead
      BY <1>4 DEF CsChanges
  <2>2. /\ reading.got \in Seq(Bytes)
        /\ chip.pending_write_bytes > 0 => Len(reading.got) <= chip.pending_write_bytes
    <3>1. chip.pending_write_bytes \in Nat /\ reading.want \in Nat /\ reading.got \in Seq(Bytes)
        BY DEF ChipInv, Chips, Owed, ReadInv
    <3>2. Len(reading.got) = 0 \/ Len(reading.got) < reading.want
        BY NoReadType DEF ReadInv
    <3> QED  BY <3>1, <3>2 DEF ReadInv
  <2>3. ChipInv(chip')
      BY <2>1, <2>2, ReceivedType
  <2>4. ReadInv(NoRead, chip', 1)
      BY NoReadType DEF ReadInv
  <2> QED  BY <1>1, <1>4, <2>1, <2>3, <2>4
<1> QED  BY <1>2, <1>3, <1>4

\* So does a byte on the bus.
LEMMA ByteArrivesType ==
    ASSUME ChipInv(chip), ReadInv(reading, chip, cs), cs \in {0, 1},
           NEW byte \in Bytes, ByteArrives(byte)
    PROVE  ChipInv(chip') /\ ReadInv(reading', chip', cs)
<1> DEFINE got == Append(reading.got, byte)
<1>1. CASE reading.want = 0
    BY <1>1 DEF ByteArrives
<1>2. CASE reading.want # 0
  <2>1. /\ reading.got \in Seq(Bytes) /\ reading.want \in Nat /\ Len(reading.got) < reading.want
        /\ cs = 0
      BY <1>2, NoReadType DEF ReadInv
  <2>2. got \in Seq(Bytes) /\ Len(got) = Len(reading.got) + 1
      BY <2>1
  <2>3. CASE Len(got) < reading.want
    <3>1. reading' = [reading EXCEPT !.got = got] /\ chip' = chip
        BY <1>2, <2>3 DEF ByteArrives
    <3> HIDE DEF got
    <3>2. /\ reading' \in [want : Nat, got : Seq(Bytes)]
          /\ reading'.want = reading.want /\ reading'.got = got
        BY <2>2, <3>1 DEF ReadInv
    <3> QED  BY <1>2, <2>1, <2>3, <3>1, <3>2 DEF ReadInv
  <2>4. CASE ~(Len(got) < reading.want)
    <3>1. chip' = Received(chip, dc, got) /\ reading' = NextRead(chip', cs, dc)
        BY <1>2, <2>4 DEF ByteArrives
    <3>2. chip.pending_write_bytes \in Nat
        BY DEF ChipInv, Chips, Owed
    <3>3. Len(got) = reading.want
        BY <2>1, <2>2, <2>4
    <3>4. chip.pending_write_bytes > 0 => Len(got) <= chip.pending_write_bytes
        BY <1>2, <2>1, <3>2, <3>3 DEF ReadInv
    <3> HIDE DEF got
    <3>5. ChipInv(chip')
        BY <2>2, <3>1, <3>4, ReceivedType
    <3> QED  BY <2>1, <3>1, <3>5, NextReadType
  <2> QED  BY <2>3, <2>4
<1> QED  BY <1>1, <1>2

\* The kinds of an operation of a command.
LEMMA OpKinds ==
    ASSUME NEW commands \in Seq(Commands), NEW k \in 1..Len(commands),
           NEW j \in 1..Len(OpsOf(commands, k))
    PROVE  OpsOf(commands, k)[j] \in ({"cs", "dc"} \X {0, 1}) \cup ({"spi"} \X Bytes)
<1> DEFINE command == commands[k].command
           args == commands[k].args
           c == cmd(command, args)
<1>1. command \in Bytes /\ args \in Seq(Bytes)
  <2>1. commands[k] \in Commands
      OBVIOUS
  <2> QED  BY <2>1 DEF Commands
<1>2. /\ c[1] = <<"cs", 0>> /\ c[2] = <<"dc", 0>> /\ c[3] = <<"spi", command>>
      /\ args = <<>> => Len(c) = 4 /\ c[4] = <<"cs", 1>>
      /\ args # <<>> => /\ Len(c) = Len(args) + 5
                        /\ c[4] = <<"dc", 1>> /\ c[Len(args) + 5] = <<"cs", 1>>
                        /\ \A i \in 1..Len(args) : c[i + 4] = <<"spi", args[i]>>
    BY <1>1, CmdOps, Zenon
<1>3. OpsOf(commands, k) = c
    BY DEF OpsOf
<1>4. j \in 1..Len(c)
    BY <1>3
<1> HIDE DEF c, command, args
<1> DEFINE kinds == ({"cs", "dc"} \X {0, 1}) \cup ({"spi"} \X Bytes)
<1>5. /\ <<"cs", 0>> \in kinds /\ <<"cs", 1>> \in kinds /\ <<"dc", 0>> \in kinds
      /\ <<"dc", 1>> \in kinds /\ \A b \in Bytes : <<"spi", b>> \in kinds
    OBVIOUS
<1> SUFFICES c[j] \in kinds
    BY <1>3
<1> HIDE DEF kinds
<1>6. CASE args = <<>>
  <2>1. Len(c) = 4
      BY <1>2, <1>6, Zenon
  <2>2. j \in {1, 2, 3, 4}
      BY <1>4, <2>1
  <2> QED  BY <1>1, <1>2, <1>5, <1>6, <2>2
<1>7. CASE args # <<>>
  <2>1. Len(args) \in Nat
      BY <1>1
  <2>2. c[1] \in kinds /\ c[2] \in kinds /\ c[3] \in kinds /\ c[4] \in kinds /\ c[Len(args) + 5] \in kinds
      BY <1>1, <1>2, <1>5, <1>7
  <2>3. \A i \in 1..Len(args) : c[i + 4] \in kinds
    <3>1. \A i \in 1..Len(args) : args[i] \in Bytes
        BY <1>1
    <3>2. \A i \in 1..Len(args) : c[i + 4] = <<"spi", args[i]>>
        BY <1>2, <1>7
    <3> QED  BY <1>5, <3>1, <3>2
  <2>4. j \in {1, 2, 3, 4} \/ j = Len(args) + 5 \/ (j - 4 \in 1..Len(args) /\ j - 4 + 4 = j)
      BY <1>2, <1>4, <1>7, <2>1
  <2> QED  BY <2>2, <2>3, <2>4
<1> QED  BY <1>6, <1>7

\* A step of a list of commands keeps chip and read in order and goes on or ends.
LEMMA SendingStep ==
    ASSUME TypeInv, BusStep, NEW commands \in Seq(Commands), Sending(commands)
    PROVE  /\ cs' \in {0, 1} /\ dc' \in {0, 1} /\ intact' = intact
           /\ ChipInv(chip') /\ ReadInv(reading', chip', cs')
           /\ \/ doing' = doing
                 /\ \E k \in 1..Len(commands) : \E j \in 1..Len(OpsOf(commands, k)) :
                       todo' = At(commands, k, j)
              \/ doing' = "idle" /\ todo' = <<>>
<1>0. PICK k \in 1..Len(commands) : \E j \in 1..Len(OpsOf(commands, k)) : todo = At(commands, k, j)
    BY DEF Sending
<1>1. PICK j \in 1..Len(OpsOf(commands, k)) : todo = At(commands, k, j)
    BY <1>0
<1> DEFINE op == OpsOf(commands, k)[j]
           more == j < Len(OpsOf(commands, k)) \/ k < Len(commands)
<1>2. /\ Head(todo) = op /\ (Len(todo) > 1 <=> more)
      /\ Tail(todo) = IF j < Len(OpsOf(commands, k)) THEN At(commands, k, j + 1)
                      ELSE IF k < Len(commands) THEN At(commands, k + 1, 1)
                      ELSE <<>>
  <2>1. StepsOn(commands, k, j)
      BY AtStep
  <2> QED  BY <1>1, <2>1 DEF StepsOn
<1>3. op \in ({"cs", "dc"} \X {0, 1}) \cup ({"spi"} \X Bytes)
    BY OpKinds
<1>4. todo' = Tail(todo) /\ doing' = IF Len(todo) > 1 THEN doing ELSE "idle"
    BY DEF BusStep
<1>5. \/ doing' = doing
         /\ \E m \in 1..Len(commands) : \E i \in 1..Len(OpsOf(commands, m)) :
               todo' = At(commands, m, i)
      \/ doing' = "idle" /\ todo' = <<>>
  <2>1. CASE j < Len(OpsOf(commands, k))
    <3>1. j + 1 \in 1..Len(OpsOf(commands, k))
      <4>1. Len(OpsOf(commands, k)) \in Nat
          BY OpsOfType
      <4> QED  BY <2>1, <4>1
    <3> QED  BY <1>2, <1>4, <2>1, <3>1
  <2>2. CASE ~(j < Len(OpsOf(commands, k))) /\ k < Len(commands)
    <3>1. k + 1 \in 1..Len(commands)
        BY <2>2
    <3>2. 1 \in 1..Len(OpsOf(commands, k + 1))
      <4>1. OpsOf(commands, k + 1) \in Seq(Ops) /\ Len(OpsOf(commands, k + 1)) >= 4
          BY <3>1, OpsOfType
      <4> QED  BY <4>1
    <3> QED  BY <1>2, <1>4, <2>2, <3>1, <3>2
  <2>3. CASE ~(j < Len(OpsOf(commands, k))) /\ ~(k < Len(commands))
      BY <1>2, <1>4, <2>3
  <2> QED  BY <2>1, <2>2, <2>3
<1> HIDE DEF op, more
<1>6. op[1] \in {"cs", "dc", "spi"} /\ (op[1] # "spi" => op[2] \in {0, 1}) /\ (op[1] = "spi" => op[2] \in Bytes)
    BY <1>3
<1>7. /\ cs \in {0, 1} /\ dc \in {0, 1} /\ intact \in BOOLEAN
      /\ ChipInv(chip) /\ ReadInv(reading, chip, cs)
    BY DEF TypeInv
<1>8. /\ IF op[1] = "dc" THEN dc' = op[2] ELSE UNCHANGED dc
      /\ IF op[1] = "cs" THEN CsChanges(op[2])
         ELSE /\ UNCHANGED cs
              /\ IF op[1] = "spi" THEN ByteArrives(op[2])
                 ELSE /\ chip' = IF op[1] = "rst" /\ op[2] = 0 THEN reset_panel ELSE chip
                      /\ UNCHANGED reading
      /\ intact' = (intact \/ (op[1] = "rst" /\ op[2] = 0))
    BY <1>2 DEF BusStep
<1>9. intact' = intact
    BY <1>6, <1>7, <1>8
<1>10. CASE op[1] = "cs"
    BY <1>5, <1>6, <1>7, <1>8, <1>9, <1>10, CsChangesType
<1>11. CASE op[1] = "spi"
    BY <1>5, <1>6, <1>7, <1>8, <1>9, <1>11, ByteArrivesType
<1>12. CASE op[1] = "dc"
    BY <1>5, <1>6, <1>7, <1>8, <1>9, <1>12
<1> QED  BY <1>6, <1>10, <1>11, <1>12

\* A panel that was reset is in order.
LEMMA ResetPanelType == ChipInv(reset_panel)
<1>1. Blank \in Pictures
  <2>1. <<0, 0, 0, 0>> \in Colours
      BY DEF Colours, Bytes
  <2> QED  BY <2>1 DEF Blank, Pictures
<1>2. 0 \in Columns /\ WIDTH - 1 \in Columns /\ 0 \in Rows /\ HEIGHT - 1 \in Rows /\ 0 \in Owed
    BY Dimensions DEF Columns, Rows, Owed
<1>3. <<>> \in Seq(Bytes) /\ Len(<<>>) = 0 /\ 0 \in Bytes /\ 0 \in 0..3
    BY SomeBytes
<1>4. reset_panel \in Chips
  <2>1. <<0, WIDTH - 1>> \in Columns \X Columns /\ <<0, HEIGHT - 1>> \in Rows \X Rows
      BY <1>2
  <2> QED  BY <1>1, <1>2, <1>3, <2>1 DEF reset_panel, Chips
<1>5. WindowInv(reset_panel) /\ ArgsInv(reset_panel) /\ Len(reset_panel.pixel_bytes) < 2
    BY <1>3, Dimensions DEF reset_panel, WindowInv, ArgsInv
<1> QED  BY <1>4, <1>5 DEF ChipInv

\* A cleared framebuffer is one.
LEMMA ZerosType == Zeros \in Buffers
BY SomeBytes DEF Zeros, Buffers

\* The word of a palette entry; that of one the palette lacks is black.
PaletteWord(entry) ==
    IF entry \in 0..Len(PALETTE_RGB565) - 1 THEN PALETTE_RGB565[entry + 1] ELSE 0

\* A word is made of its colours ...
LEMMA WordOfParts ==
    ASSUME NEW w \in Words
    PROVE  2048 * (w \div 2048) + 32 * ((w \div 32) % 64) + (w % 32) = w
<1>1. w \in Nat
    BY DEF Words
<1>2. 64 * ((w \div 32) \div 64) + ((w \div 32) % 64) = w \div 32
    BY <1>1
<1>3. (w \div 32) \div 64 = w \div 2048
    BY <1>1
<1>4. 32 * (w \div 32) + (w % 32) = w
    BY <1>1
<1> QED  BY <1>1, <1>2, <1>3, <1>4

\* ... and sent as its two bytes.
LEMMA PaletteBytes ==
    ASSUME NEW entry
    PROVE  /\ PaletteWord(entry) \in Words
           /\ rgb565_color(entry) =
                 [r |-> PaletteWord(entry) \div 2048, g |-> (PaletteWord(entry) \div 32) % 64,
                  b |-> PaletteWord(entry) % 32]
           /\ rgb565_bytes(rgb565_color(entry)) =
                 <<PaletteWord(entry) \div 256, PaletteWord(entry) % 256>>
<1> DEFINE w == PaletteWord(entry)
<1>1. w \in Words
  <2>1. PALETTE_RGB565 \in Seq(Words)
      BY PanelAssumption DEF PanelAssumption
  <2>2. 0 \in Words
      BY DEF Words
  <2>3. entry \in 0..Len(PALETTE_RGB565) - 1 => entry + 1 \in 1..Len(PALETTE_RGB565)
      BY <2>1
  <2> QED  BY <2>1, <2>2, <2>3 DEF PaletteWord
<1> DEFINE c == [r |-> w \div 2048, g |-> (w \div 32) % 64, b |-> w % 32]
<1>2. rgb565_color(entry) = c
    BY DEF rgb565_color, PaletteWord
<1> HIDE DEF w
<1>3. 2048 * c.r + 32 * c.g + c.b = w
    BY <1>1, WordOfParts
<1>4. rgb565_bytes(c) = <<w \div 256, w % 256>>
    BY <1>3 DEF rgb565_bytes
<1> QED  BY <1>1, <1>2, <1>4 DEF w

\* What is drawn is bytes, whatever the sprite.
LEMMA DrawType ==
    ASSUME NEW pixels
    PROVE  draw_iter(pixels) \in Buffers
<1>1. ASSUME NEW entry PROVE rgb565_bytes(rgb565_color(entry)) \in Bytes \X Bytes
  <2>1. PaletteWord(entry) \in Words /\ rgb565_bytes(rgb565_color(entry)) =
            <<PaletteWord(entry) \div 256, PaletteWord(entry) % 256>>
      BY PaletteBytes
  <2> DEFINE w == PaletteWord(entry)
  <2>2. w \in Nat /\ w < 65536
      BY <2>1 DEF Words
  <2> HIDE DEF w
  <2>3. w \div 256 \in Bytes /\ w % 256 \in Bytes
      BY <2>2 DEF Bytes
  <2> QED  BY <2>1, <2>3 DEF w
<1> DEFINE idx(p) == (p[2] * WIDTH + p[1]) * 2
           written(i) == {p \in DOMAIN pixels : OnScreen(p[1], p[2]) /\ i - idx(p) \in {0, 1}}
           byte(i) == IF written(i) = {} THEN 0
                      ELSE LET p == CHOOSE p \in written(i) : TRUE
                           IN  rgb565_bytes(rgb565_color(pixels[p]))[i - idx(p) + 1]
<1>2. draw_iter(pixels) = [i \in 0..FB_LEN - 1 |-> byte(i)]
    BY DEF draw_iter
<1>3. ASSUME NEW i PROVE byte(i) \in Bytes
  <2>1. CASE written(i) = {}
      BY <2>1, SomeBytes
  <2>2. CASE written(i) # {}
    <3> DEFINE p == CHOOSE p \in written(i) : TRUE
    <3>1. p \in written(i)
        BY <2>2
    <3>2. i - idx(p) \in {0, 1}
        BY <3>1
    <3>3. byte(i) = rgb565_bytes(rgb565_color(pixels[p]))[i - idx(p) + 1]
        BY <2>2
    <3> DEFINE d == i - idx(p)
    <3> HIDE DEF p
    <3>4. d \in {0, 1} /\ byte(i) = rgb565_bytes(rgb565_color(pixels[p]))[d + 1]
        BY <3>2, <3>3
    <3> HIDE DEF d, byte
    <3>5. rgb565_bytes(rgb565_color(pixels[p])) \in Bytes \X Bytes
        BY <1>1
    <3>6. d = 0 \/ d = 1
        BY <3>4
    <3>7. d + 1 = 1 \/ d + 1 = 2
        BY <3>6
    <3> QED  BY <3>4, <3>5, <3>7
  <2> QED  BY <2>1, <2>2
<1> HIDE DEF byte
<1> QED  BY <1>2, <1>3 DEF Buffers

\* init begins with the reset pulse.
LEMMA StartsReset ==
    ASSUME NEW o
    PROVE  \E j \in 1..3 : init(o) = Resetting(o, j)
<1>1. 1 \in 1..3
    OBVIOUS
<1>2. init(o) = Resetting(o, 1)
    BY ResetSteps
<1> QED  BY <1>1, <1>2

\* The types hold in the beginning ...
LEMMA TypeInit == Init => TypeInv
<1> SUFFICES ASSUME Init PROVE TypeInv
    OBVIOUS
<1>1. MaxInterrupted \in Nat
    BY PanelAssumption DEF PanelAssumption
<1>2. ScriptInv
    BY StartsReset DEF Init, ScriptInv
<1>3. ReadInv(NoRead, reset_panel, 1)
    BY NoReadType DEF ReadInv
<1> QED  BY <1>1, <1>2, <1>3, ResetPanelType, ZerosType DEF Init, TypeInv, Zeros

\* A list of commands is sent from its first operation.
LEMMA StartsSending ==
    ASSUME NEW commands \in Seq(Commands), NEW n \in Nat \ {0}, Len(commands) = n
    PROVE  \E k \in 1..Len(commands) : \E j \in 1..Len(OpsOf(commands, k)) :
              send(commands) = At(commands, k, j)
<1>1. 1 \in 1..Len(commands)
    OBVIOUS
<1>2. 1 \in 1..Len(OpsOf(commands, 1))
  <2>1. OpsOf(commands, 1) \in Seq(Ops) /\ Len(OpsOf(commands, 1)) >= 4
      BY <1>1, OpsOfType
  <2> QED  BY <2>1
<1>3. send(commands) = At(commands, 1, 1)
    BY SendIsAt
<1> QED  BY <1>1, <1>2, <1>3

\* ... and every step keeps them.
LEMMA TypeStep == TypeInv /\ [Next]_vars => TypeInv'
<1> SUFFICES ASSUME TypeInv, [Next]_vars PROVE TypeInv'
    OBVIOUS
<1> USE DEF TypeInv
<1>1. CASE BusStep
  <2>1. /\ orientation' = orientation /\ fb' = fb /\ interrupted' = interrupted
        /\ todo # <<>> /\ todo' = Tail(todo)
        /\ doing' = IF Len(todo) > 1 THEN doing ELSE "idle"
      BY <1>1 DEF BusStep
  <2>2. CASE doing = "init" /\ cs = 1 /\ \E j \in 1..3 : todo = Resetting(orientation, j)
    <3>1. PICK j \in 1..3 : todo = Resetting(orientation, j)
        BY <2>2
    <3>2. /\ Len(todo) > 1 /\ Head(todo) = <<"rst", IF j = 2 THEN 0 ELSE 1>>
          /\ Tail(todo) = IF j < 3 THEN Resetting(orientation, j + 1)
                          ELSE At(InitCommands(orientation), 1, 1)
        BY <3>1, ResetSteps
    <3>3. /\ UNCHANGED <<cs, dc, reading>> /\ chip' \in {reset_panel, chip}
          /\ intact' \in BOOLEAN
        BY <1>1, <3>2 DEF BusStep
    <3>4. doing' = "init" /\ cs' = 1
        BY <2>1, <2>2, <3>2, <3>3
    <3>5. CASE j < 3
      <4>1. j + 1 \in 1..3
          BY <3>5
      <4>2. ScriptInv'
          BY <2>1, <3>2, <3>4, <3>5, <4>1 DEF ScriptInv
      <4>3. reading = NoRead
          BY <2>2 DEF ReadInv
      <4>4. ReadInv(NoRead, chip', 1)
          BY NoReadType DEF ReadInv
      <4>5. ChipInv(chip')
          BY <3>3, ResetPanelType
      <4> QED  BY <2>1, <2>2, <3>3, <3>4, <4>2, <4>3, <4>4, <4>5
    <3>6. CASE ~(j < 3)
      <4>1. \E k \in 1..Len(InitCommands(orientation)) :
               \E i \in 1..Len(OpsOf(InitCommands(orientation), k)) :
                  todo' = At(InitCommands(orientation), k, i)
        <5> DEFINE commands == InitCommands(orientation)
        <5>1. commands \in Seq(Commands) /\ Len(commands) = 21
            BY InitCommandsType, Zenon
        <5> HIDE DEF commands
        <5>2. 1 \in 1..Len(commands)
            BY <5>1
        <5>3. OpsOf(commands, 1) \in Seq(Ops) /\ Len(OpsOf(commands, 1)) >= 4
            BY <5>1, <5>2, OpsOfType
        <5>4. 1 \in 1..Len(OpsOf(commands, 1))
            BY <5>3
        <5>5. todo' = At(commands, 1, 1)
            BY <2>1, <3>2, <3>6 DEF commands
        <5>6. \E k \in 1..Len(commands) : \E i \in 1..Len(OpsOf(commands, k)) :
                 todo' = At(commands, k, i)
            BY <5>2, <5>4, <5>5
        <5> QED  BY <5>6 DEF commands
      <4>2. ScriptInv'
          BY <2>1, <3>4, <4>1 DEF ScriptInv, Sending
      <4>3. reading = NoRead
          BY <2>2 DEF ReadInv
      <4>4. ReadInv(NoRead, chip', 1)
          BY NoReadType DEF ReadInv
      <4>5. ChipInv(chip')
          BY <3>3, ResetPanelType
      <4> QED  BY <2>1, <2>2, <3>3, <3>4, <4>2, <4>3, <4>4, <4>5
    <3> QED  BY <3>5, <3>6
  <2>3. CASE doing = "init" /\ Sending(InitCommands(orientation))
    <3> DEFINE commands == InitCommands(orientation)
    <3>1. commands \in Seq(Commands)
        BY InitCommandsType, Zenon
    <3>2. /\ cs' \in {0, 1} /\ dc' \in {0, 1} /\ intact' = intact
          /\ ChipInv(chip') /\ ReadInv(reading', chip', cs')
          /\ \/ doing' = doing
                /\ \E k \in 1..Len(commands) : \E j \in 1..Len(OpsOf(commands, k)) :
                      todo' = At(commands, k, j)
             \/ doing' = "idle" /\ todo' = <<>>
      <4> HIDE DEF TypeInv
      <4> QED  BY <1>1, <2>3, <3>1, SendingStep, Zenon
    <3>3. ScriptInv'
        BY <2>1, <2>3, <3>2 DEF ScriptInv, Sending
    <3> QED  BY <2>1, <2>3, <3>2, <3>3
  <2>4. CASE doing = "flush" /\ Sending(FlushCommands(fb))
    <3> DEFINE commands == FlushCommands(fb)
    <3>1. commands \in Seq(Commands)
        BY FlushCommandsType
    <3>2. /\ cs' \in {0, 1} /\ dc' \in {0, 1} /\ intact' = intact
          /\ ChipInv(chip') /\ ReadInv(reading', chip', cs')
          /\ \/ doing' = doing
                /\ \E k \in 1..Len(commands) : \E j \in 1..Len(OpsOf(commands, k)) :
                      todo' = At(commands, k, j)
             \/ doing' = "idle" /\ todo' = <<>>
      <4> HIDE DEF TypeInv
      <4> QED  BY <1>1, <2>4, <3>1, SendingStep, Zenon
    <3>3. ScriptInv'
        BY <2>1, <2>4, <3>2 DEF ScriptInv, Sending
    <3> QED  BY <2>1, <2>4, <3>2, <3>3
  <2> QED  BY <2>1, <2>2, <2>3, <2>4 DEF ScriptInv
<1>2. CASE WriteFails
  <2>1. todo' = <<>> /\ doing' \in {"halted", "idle"} /\ intact' = FALSE
        /\ UNCHANGED <<fb, cs, dc, chip, reading, orientation>>
      BY <1>2 DEF WriteFails
  <2>2. interrupted' \in 0..MaxInterrupted
      BY <1>2, PanelAssumption DEF WriteFails, Interrupts, PanelAssumption
  <2>3. ScriptInv'
      BY <2>1 DEF ScriptInv
  <2> QED  BY <2>1, <2>2, <2>3
<1>3. CASE \E s \in Scenes : RenderFrame(s)
  <2>1. PICK s \in Scenes : RenderFrame(s)
      BY <1>3
  <2>2. /\ fb' = blit_sprite(s) /\ todo' = flush(fb') /\ doing' = "flush"
        /\ UNCHANGED <<cs, dc, chip, reading, orientation, intact, interrupted>>
      BY <2>1 DEF RenderFrame
  <2>3. fb' \in Buffers
      BY <2>2, DrawType DEF blit_sprite
  <2>4. ScriptInv'
    <3>1. FlushCommands(fb') \in Seq(Commands) /\ Len(FlushCommands(fb')) = 3
        BY <2>3, FlushCommandsType
    <3>2. \E k \in 1..Len(FlushCommands(fb')) : \E j \in 1..Len(OpsOf(FlushCommands(fb'), k)) :
             send(FlushCommands(fb')) = At(FlushCommands(fb'), k, j)
      <4> DEFINE commands == FlushCommands(fb')
      <4>1. commands \in Seq(Commands) /\ Len(commands) = 3 /\ 3 \in Nat \ {0}
          BY <3>1
      <4> HIDE DEF commands
      <4>2. \E k \in 1..Len(commands) : \E j \in 1..Len(OpsOf(commands, k)) :
               send(commands) = At(commands, k, j)
          BY <4>1, StartsSending
      <4> QED  BY <4>2 DEF commands
    <3> QED  BY <2>2, <3>2 DEF ScriptInv, Sending, flush
  <2> QED  BY <2>2, <2>3, <2>4
<1>4. CASE \E o \in Orientations : Restart(o)
  <2>1. PICK o \in Orientations : Restart(o)
      BY <1>4
  <2>2. /\ dc' = 0 /\ cs' = 1 /\ reading' = NoRead /\ fb' = Zeros /\ orientation' = o
        /\ chip' = (IF cs = 0 THEN Received(chip, 0, reading.got) ELSE chip)
        /\ todo' = init(o) /\ doing' = "init" /\ intact' = FALSE
      BY <2>1 DEF Restart, Zeros
  <2>3. interrupted' \in 0..MaxInterrupted
      BY <2>1, PanelAssumption DEF Restart, Interrupts, PanelAssumption
  <2>4. ScriptInv'
      BY <2>2, StartsReset DEF ScriptInv
  <2>5. ChipInv(chip')
    <3>1. reading.got \in Seq(Bytes)
        BY DEF ReadInv
    <3>2. ChipInv(Received(chip, 0, reading.got))
        BY <3>1, ReceivedType
    <3> QED  BY <2>2, <3>2
  <2>6. ReadInv(NoRead, chip', 1)
      BY NoReadType DEF ReadInv
  <2> QED  BY <2>2, <2>3, <2>4, <2>5, <2>6, ZerosType
<1>5. CASE UNCHANGED vars
  <2>1. UNCHANGED <<todo, doing, fb, cs, dc, chip, reading, orientation, intact, interrupted>>
      BY <1>5 DEF vars
  <2>2. ScriptInv'
      BY <2>1 DEF ScriptInv, Sending
  <2> QED  BY <2>1, <2>2
<1> QED  BY <1>1, <1>2, <1>3, <1>4, <1>5 DEF Next

\* The types always hold.
LEMMA TypeAlways == Spec => []TypeInv
BY TypeInit, TypeStep, PTL DEF Spec

\* They imply what the module states.
LEMMA TypeImplied == ASSUME TypeInv PROVE TypeOK
<1>1. (todo = <<>>) = (doing \in {"idle", "halted"})
  <2>1. ASSUME NEW commands \in Seq(Commands), Sending(commands) PROVE todo # <<>>
    <3>1. PICK k \in 1..Len(commands) : \E j \in 1..Len(OpsOf(commands, k)) :
             todo = At(commands, k, j)
        BY <2>1 DEF Sending
    <3>2. PICK j \in 1..Len(OpsOf(commands, k)) : todo = At(commands, k, j)
        BY <3>1
    <3> QED  BY <3>2, AtStep DEF StepsOn
  <2>2. CASE doing = "init" /\ \E j \in 1..3 : todo = Resetting(orientation, j)
    <3>1. PICK j \in 1..3 : todo = Resetting(orientation, j)
        BY <2>2
    <3>2. Len(todo) > 1
        BY <3>1, ResetSteps
    <3>3. todo # <<>>
        BY <3>2
    <3> QED  BY <2>2, <3>3
  <2>3. CASE doing = "init" /\ Sending(InitCommands(orientation))
    <3>1. InitCommands(orientation) \in Seq(Commands)
        BY InitCommandsType, Zenon
    <3>2. todo # <<>>
        BY <2>1, <2>3, <3>1
    <3> QED  BY <2>3, <3>2
  <2>4. CASE doing = "flush" /\ Sending(FlushCommands(fb))
    <3>1. FlushCommands(fb) \in Seq(Commands)
        BY FlushCommandsType DEF TypeInv
    <3>2. todo # <<>>
        BY <2>1, <2>4, <3>1
    <3> QED  BY <2>4, <3>2
  <2>5. CASE doing \in {"idle", "halted"}
      BY <2>5 DEF TypeInv, ScriptInv
  <2> QED  BY <2>2, <2>3, <2>4, <2>5 DEF TypeInv, ScriptInv
<1>2. /\ chip.cols[1] \in Columns /\ chip.cols[2] \in Columns
      /\ chip.rows[1] \in Rows /\ chip.rows[2] \in Rows
      /\ chip.next_col \in Columns /\ chip.next_row \in Rows
      /\ chip.pending_write_bytes \in Owed
    BY DEF TypeInv, ChipInv, Chips
<1>3. chip.cols[1] <= chip.cols[2] /\ chip.rows[1] <= chip.rows[2]
    BY DEF TypeInv, ChipInv, WindowInv
<1>4. Len(chip.args) <= 3 /\ Len(chip.args) <= chip.args_expected
  <2>1. chip.args \in Seq(Bytes) /\ chip.args_expected \in 0..3
      BY DEF TypeInv, ChipInv, Chips
  <2> QED  BY <2>1 DEF TypeInv, ChipInv, ArgsInv
<1>5. reading.want \in {0, 1} \/ reading.want <= chip.pending_write_bytes
    BY DEF TypeInv, ReadInv
<1>6. /\ chip.cols[1] \in 0..chip.cols[2] /\ chip.cols[2] < WIDTH
      /\ chip.rows[1] \in 0..chip.rows[2] /\ chip.rows[2] < HEIGHT
    BY <1>2, <1>3, Dimensions DEF Columns, Rows
<1>7. /\ chip.next_col \in 0..WIDTH - 1 /\ chip.next_row \in 0..HEIGHT - 1
      /\ chip.pending_write_bytes \in 0..FB_LEN
    BY <1>2 DEF Columns, Rows, Owed
<1> QED  BY <1>1, <1>4, <1>5, <1>6, <1>7 DEF TypeInv, TypeOK, Buffers

\* The window and the cursor stay on the panel, no more bytes are owed than the
\* window has and no read asks for more than is owed: on a panel of any size, with
\* reads of any size, whatever writes fail and wherever the controller restarts.
THEOREM TypeCorrect == Spec => []TypeOK
BY TypeAlways, TypeImplied, PTL

-----------------------------------------------------------------------------
\* Some numbers up to n have a least and a largest.
LEMMA Extremes ==
    ASSUME NEW n \in Nat, NEW S \in SUBSET (0..n), S # {}
    PROVE  /\ Min(S) \in S /\ Max(S) \in S
           /\ \A x \in S : Min(S) <= x /\ x <= Max(S)
<1>1. Min(S) \in S /\ \A x \in S : Min(S) <= x
  <2>1. S \in SUBSET Nat
      OBVIOUS
  <2>2. PICK m \in S : \A x \in S : m <= x
      BY <2>1, LeastOfSome
  <2> QED  BY <2>2 DEF Min
<1>2. Max(S) \in S /\ \A x \in S : x <= Max(S)
  <2> DEFINE T == {n - x : x \in S}
  <2>1. T # {}
      OBVIOUS
  <2>2. \A x \in S : n - x \in Nat
      OBVIOUS
  <2>3. T \in SUBSET Nat
      BY <2>2
  <2>4. PICK k \in T : \A y \in T : k <= y
    <3> HIDE DEF T
    <3> QED  BY <2>1, <2>3, LeastOfSome
  <2>5. PICK m \in S : k = n - m
      BY <2>4
  <2>6. \A x \in S : m >= x
    <3> SUFFICES ASSUME NEW x \in S PROVE m >= x
        OBVIOUS
    <3>1. n - x \in T
        OBVIOUS
    <3>2. n - m <= n - x
      <4> HIDE DEF T
      <4> QED  BY <2>4, <2>5, <3>1
    <3>3. m \in 0..n /\ x \in 0..n
        OBVIOUS
    <3> QED  BY <3>2, <3>3
  <2> QED  BY <2>6 DEF Max
<1> QED  BY <1>1, <1>2

\* The least of two numbers.
LEMMA MinOfTwo ==
    ASSUME NEW a \in Int, NEW b \in Int
    PROVE  Min({a, b}) = IF a <= b THEN a ELSE b
<1> DEFINE m == IF a <= b THEN a ELSE b
<1>1. m \in {a, b} /\ \A y \in {a, b} : m <= y
    OBVIOUS
<1>2. \A x \in {a, b} : (\A y \in {a, b} : x <= y) => x = m
    OBVIOUS
<1> QED  BY <1>1, <1>2 DEF Min

\* A run is as long as the converter may make it, and of one entry.
LEMMA RunLengthType ==
    ASSUME NEW indices, NEW n \in Nat, Len(indices) = n, NEW pos \in 1..n
    PROVE  /\ RunLength(indices, pos) \in 1..MAX_RUN_LEN
           /\ RunLength(indices, pos) <= n - pos + 1
           /\ \A k \in pos..pos + RunLength(indices, pos) - 1 : indices[k] = indices[pos]
<1> DEFINE longest == Min({MAX_RUN_LEN, Len(indices) - pos + 1})
           S == {m \in 1..longest : \A k \in pos..pos + m - 1 : indices[k] = indices[pos]}
<1>1. MAX_RUN_LEN \in Nat \ {0}
    BY SpriteRunsAssumption DEF SpriteRunsAssumption
<1>2. Len(indices) - pos + 1 \in Nat \ {0}
    OBVIOUS
<1>3. longest = IF MAX_RUN_LEN <= Len(indices) - pos + 1 THEN MAX_RUN_LEN ELSE Len(indices) - pos + 1
    BY <1>1, <1>2, MinOfTwo
<1> HIDE DEF longest
<1>4. longest \in Nat \ {0} /\ longest <= MAX_RUN_LEN /\ longest <= n - pos + 1
    BY <1>1, <1>2, <1>3
<1>5. 1 \in S
  <2>1. \A k \in pos..pos + 1 - 1 : k = pos
      OBVIOUS
  <2> QED  BY <1>4, <2>1
<1>6. S \in SUBSET (0..longest) /\ S # {}
  <2>1. \A m \in S : m \in 0..longest
      BY <1>4
  <2> QED  BY <1>5, <2>1
<1>7. Max(S) \in S
  <2> HIDE DEF S
  <2> QED  BY <1>4, <1>6, Extremes
<1>8. RunLength(indices, pos) = Max(S)
    BY DEF RunLength, longest
<1> DEFINE m == Max(S)
<1>9. m \in 1..longest /\ \A k \in pos..pos + m - 1 : indices[k] = indices[pos]
    BY <1>7
<1> HIDE DEF m
<1>10. m \in 1..MAX_RUN_LEN /\ m <= n - pos + 1
    BY <1>1, <1>4, <1>9
<1> QED  BY <1>8, <1>9, <1>10 DEF m

\* The bytes of a run, and of all from one on.
RunBytes(indices, pos) ==
    IF indices[pos] = None THEN <<RunLength(indices, pos) - 1>>
    ELSE <<SOLID_RUN_FLAG + RunLength(indices, pos) - 1, indices[pos]>>

Encoded(from, indices, n) ==
    from = [pos \in 1..n + 1 |->
               IF pos > n THEN <<>>
               ELSE RunBytes(indices, pos) \o from[pos + RunLength(indices, pos)]]

\* What encode_rle makes of a cell is made run by run.
LEMMA EncodedExists ==
    ASSUME NEW indices, NEW n \in Nat, Len(indices) = n
    PROVE  \E from : Encoded(from, indices, n) /\ encode_rle(indices) = from[1]
<1> DEFINE Rule(f, i) == IF i > n THEN <<>>
                         ELSE RunBytes(indices, i) \o f[i + RunLength(indices, i)]
           S == {m \in 0..n : \E f : f = [i \in n + 1 - m..n + 1 |-> Rule(f, i)]}
           from == CHOOSE f : f = [i \in 1..n + 1 |-> Rule(f, i)]
<1>1. 0 \in S
  <2> DEFINE f == [i \in n + 1 - 0..n + 1 |-> <<>>]
  <2>1. f = [i \in n + 1 - 0..n + 1 |-> Rule(f, i)]
    <3>1. \A i \in n + 1 - 0..n + 1 : Rule(f, i) = <<>>
        OBVIOUS
    <3> QED  BY <3>1
  <2> HIDE DEF f
  <2>2. \E e : e = [i \in n + 1 - 0..n + 1 |-> Rule(e, i)]
      BY <2>1
  <2>3. 0 \in 0..n
      OBVIOUS
  <2> QED  BY <2>2, <2>3
<1>2. ASSUME NEW m \in 0..n - 1, m \in S PROVE m + 1 \in S
  <2>1. PICK f : f = [i \in n + 1 - m..n + 1 |-> Rule(f, i)]
      BY <1>2
  <2> DEFINE first == n - m
             next == first + RunLength(indices, first)
             h == [i \in first..n + 1 |-> IF i = first THEN RunBytes(indices, first) \o f[next]
                                          ELSE f[i]]
  <2>2. first \in 1..n /\ first + 1 = n + 1 - m /\ first = n + 1 - (m + 1)
      OBVIOUS
  <2>3. \A i \in first..n + 1 : i <= n =>
           /\ i + RunLength(indices, i) \in first..n + 1
           /\ i + RunLength(indices, i) > i
    <3> SUFFICES ASSUME NEW i \in first..n + 1, i <= n
                 PROVE  /\ i + RunLength(indices, i) \in first..n + 1
                        /\ i + RunLength(indices, i) > i
        OBVIOUS
    <3>1. i \in 1..n
        BY <2>2
    <3>2. RunLength(indices, i) \in 1..MAX_RUN_LEN /\ RunLength(indices, i) <= n - i + 1
        BY <3>1, RunLengthType
    <3> QED  BY <2>2, <3>1, <3>2
  <2>4. \A i \in first..n + 1 : h[i] = Rule(h, i)
    <3> SUFFICES ASSUME NEW i \in first..n + 1 PROVE h[i] = Rule(h, i)
        OBVIOUS
    <3>1. CASE i = first
      <4>1. first \in first..n + 1 /\ ~(first > n) /\ next \in first..n + 1 /\ next # first
          BY <2>2, <2>3
      <4>2. h[next] = f[next]
          BY <4>1
      <4> QED  BY <3>1, <4>1, <4>2
    <3>2. CASE i # first
      <4>1. i \in n + 1 - m..n + 1
          BY <2>2, <3>2
      <4>2. h[i] = f[i] /\ f[i] = Rule(f, i)
          BY <2>1, <3>2, <4>1
      <4>3. i <= n => h[i + RunLength(indices, i)] = f[i + RunLength(indices, i)]
          BY <2>2, <2>3, <4>1
      <4>4. i > n \/ i <= n
          BY <2>2
      <4> QED  BY <4>2, <4>3, <4>4
    <3> QED  BY <3>1, <3>2
  <2>5. h = [i \in first..n + 1 |-> h[i]]
      OBVIOUS
  <2> HIDE DEF h
  <2>6. h = [i \in first..n + 1 |-> Rule(h, i)]
      BY <2>4, <2>5
  <2>7. h = [i \in n + 1 - (m + 1)..n + 1 |-> Rule(h, i)]
      BY <2>2, <2>6
  <2>8. m + 1 \in 0..n
      OBVIOUS
  <2> HIDE DEF first
  <2> QED  BY <2>7, <2>8
<1>3. \E f : f = [i \in 1..n + 1 |-> Rule(f, i)]
  <2>1. \A m \in 0..n : m \in S
    <3> HIDE DEF S
    <3> QED  BY <1>1, <1>2, UpTo
  <2>2. n \in S /\ n + 1 - n = 1
      BY <2>1
  <2> QED  BY <2>2
<1>4. from = [i \in 1..n + 1 |-> Rule(from, i)]
  <2> HIDE DEF Rule
  <2> QED  BY <1>3
<1>5. encode_rle(indices) = from[1]
    BY DEF encode_rle, RunBytes
<1> HIDE DEF from
<1>6. Encoded(from, indices, n)
    BY <1>4 DEF Encoded
<1> QED  BY <1>5, <1>6

-----------------------------------------------------------------------------
Numbers(indices, n) == Nat \cup {indices[k] : k \in 1..n}

\* The bytes of runs are numbers and entries.
LEMMA RunBytesType ==
    ASSUME NEW indices, NEW n \in Nat, Len(indices) = n, NEW pos \in 1..n
    PROVE  /\ RunBytes(indices, pos) \in Seq(Numbers(indices, n))
           /\ indices[pos] = None => RunBytes(indices, pos) = <<RunLength(indices, pos) - 1>>
           /\ indices[pos] # None =>
                 RunBytes(indices, pos) = <<SOLID_RUN_FLAG + RunLength(indices, pos) - 1, indices[pos]>>
<1>1. RunLength(indices, pos) \in 1..MAX_RUN_LEN
    BY RunLengthType
<1>2. MAX_RUN_LEN \in Nat \ {0}
    BY SpriteRunsAssumption DEF SpriteRunsAssumption
<1>3. RunLength(indices, pos) - 1 \in Nat /\ SOLID_RUN_FLAG + RunLength(indices, pos) - 1 \in Nat
    BY <1>1, <1>2 DEF SOLID_RUN_FLAG
<1> DEFINE N == Numbers(indices, n)
<1>4. /\ RunLength(indices, pos) - 1 \in N /\ SOLID_RUN_FLAG + RunLength(indices, pos) - 1 \in N
      /\ indices[pos] \in N
    BY <1>3 DEF Numbers
<1> HIDE DEF N
<1>5. <<RunLength(indices, pos) - 1>> \in Seq(N)
    BY <1>4
<1>6. <<SOLID_RUN_FLAG + RunLength(indices, pos) - 1, indices[pos]>> \in Seq(N)
    BY <1>4
<1> QED  BY <1>5, <1>6 DEF RunBytes, N

\* So are those of all runs from one on.
LEMMA EncodedType ==
    ASSUME NEW indices, NEW n \in Nat, Len(indices) = n, NEW from, Encoded(from, indices, n)
    PROVE  \A pos \in 1..n + 1 : from[pos] \in Seq(Numbers(indices, n))
<1> DEFINE N == Numbers(indices, n)
           S == {k \in 0..n : \A pos \in n + 1 - k..n + 1 : from[pos] \in Seq(N)}
<1> HIDE DEF N
<1>1. 0 \in S
  <2>1. from[n + 1] = <<>>
    <3>1. n + 1 \in 1..n + 1 /\ n + 1 > n
        OBVIOUS
    <3> QED  BY <3>1 DEF Encoded
  <2>2. <<>> \in Seq(N)
      OBVIOUS
  <2>3. \A pos \in n + 1 - 0..n + 1 : pos = n + 1
      OBVIOUS
  <2>4. \A pos \in n + 1 - 0..n + 1 : from[pos] \in Seq(N)
      BY <2>1, <2>2, <2>3
  <2>5. 0 \in 0..n
      OBVIOUS
  <2> QED  BY <2>4, <2>5
<1>2. ASSUME NEW k \in 0..n - 1, k \in S PROVE k + 1 \in S
  <2> DEFINE first == n - k
  <2>1. first \in 1..n /\ ~(first > n) /\ first \in 1..n + 1
      OBVIOUS
  <2>2. from[first] = RunBytes(indices, first) \o from[first + RunLength(indices, first)]
    <3> HIDE DEF first
    <3> QED  BY <2>1 DEF Encoded
  <2>3. RunLength(indices, first) \in 1..MAX_RUN_LEN /\ RunLength(indices, first) <= n - first + 1
    <3> HIDE DEF first
    <3> QED  BY <2>1, RunLengthType
  <2>4. MAX_RUN_LEN \in Nat
      BY SpriteRunsAssumption DEF SpriteRunsAssumption
  <2>5. first + RunLength(indices, first) \in n + 1 - k..n + 1
      BY <2>3, <2>4
  <2>6. from[first + RunLength(indices, first)] \in Seq(N)
      BY <1>2, <2>5
  <2>7. RunBytes(indices, first) \in Seq(N)
    <3> HIDE DEF first
    <3> QED  BY <2>1, RunBytesType DEF N
  <2>8. from[first] \in Seq(N)
      BY <2>2, <2>6, <2>7
  <2>9. \A pos \in n + 1 - (k + 1)..n + 1 : pos = first \/ pos \in n + 1 - k..n + 1
      OBVIOUS
  <2>10. k + 1 \in 0..n
      OBVIOUS
  <2> HIDE DEF first
  <2> QED  BY <1>2, <2>8, <2>9, <2>10
<1>3. \A k \in 0..n : k \in S
  <2> HIDE DEF S
  <2> QED  BY <1>1, <1>2, UpTo
<1>4. n \in S /\ n + 1 - n = 1
    BY <1>3
<1> QED  BY <1>4 DEF N

-----------------------------------------------------------------------------
\* The iterator's states as it takes the bytes one by one.
Start == [index |-> 0, solid |-> 0, entries |-> [k \in {} |-> 0]]

Decoding(g, total, data) ==
    g[0] = Start /\ \A n \in 1..Len(data) : g[n] = DecodeByte(total, g[n - 1], data[n])

\* What SpritePixels gives is what the iterator has after the last byte.
Decodes(g, sprite, origin) ==
    LET entries == g[Len(sprite.data)].entries IN
    /\ Decoding(g, sprite.width * sprite.height, sprite.data)
    /\ SpritePixels(sprite, origin) =
          [p \in {<<origin[1] + (k % sprite.width), origin[2] + (k \div sprite.width)>> :
                     k \in DOMAIN entries} |->
             entries[(p[2] - origin[2]) * sprite.width + p[1] - origin[1]]]

\* The decoder takes the bytes one by one, and its pixels are those of its last state.
LEMMA DecodedBytewise ==
    ASSUME NEW sprite, NEW origin, Len(sprite.data) \in Nat
    PROVE  \E g : Decodes(g, sprite, origin)
<1> DEFINE total == sprite.width * sprite.height
           L == Len(sprite.data)
           Rule(f, n) == IF n = 0 THEN Start ELSE DecodeByte(total, f[n - 1], sprite.data[n])
           S == {k \in 0..L : \E f : f = [n \in 0..k |-> Rule(f, n)]}
           after == CHOOSE f : f = [n \in 0..L |-> Rule(f, n)]
<1>1. 0 \in S
  <2> DEFINE f == [n \in 0..0 |-> Start]
  <2>1. f = [n \in 0..0 |-> Rule(f, n)]
      OBVIOUS
  <2> HIDE DEF f
  <2>2. \E e : e = [n \in 0..0 |-> Rule(e, n)]
      BY <2>1
  <2>3. 0 \in 0..L
      OBVIOUS
  <2> QED  BY <2>2, <2>3
<1>2. ASSUME NEW k \in 0..L - 1, k \in S PROVE k + 1 \in S
  <2>1. PICK f : f = [n \in 0..k |-> Rule(f, n)]
      BY <1>2
  <2> DEFINE h == [n \in 0..k + 1 |-> IF n = k + 1 THEN DecodeByte(total, f[k], sprite.data[k + 1])
                                      ELSE f[n]]
  <2>2. \A n \in 0..k + 1 : h[n] = Rule(h, n)
    <3> SUFFICES ASSUME NEW n \in 0..k + 1 PROVE h[n] = Rule(h, n)
        OBVIOUS
    <3> HIDE DEF total
    <3>1. CASE n = k + 1
        BY <3>1
    <3>2. CASE n \in 0..k
      <4>1. h[n] = f[n] /\ f[n] = Rule(f, n)
          BY <2>1, <3>2
      <4>2. n # 0 => n - 1 \in 0..k + 1 /\ n - 1 # k + 1 /\ h[n - 1] = f[n - 1]
          BY <3>2
      <4> QED  BY <4>1, <4>2
    <3>3. n = k + 1 \/ n \in 0..k
        OBVIOUS
    <3> QED  BY <3>1, <3>2, <3>3
  <2>3. h = [n \in 0..k + 1 |-> h[n]]
      OBVIOUS
  <2> HIDE DEF h
  <2>4. h = [n \in 0..k + 1 |-> Rule(h, n)]
      BY <2>2, <2>3
  <2>5. k + 1 \in 0..L
      OBVIOUS
  <2> QED  BY <2>4, <2>5
<1>3. L \in S
  <2> HIDE DEF S
  <2>1. \A k \in 0..L : k \in S
      BY <1>1, <1>2, UpTo
  <2> QED  BY <2>1
<1>4. \E f : f = [n \in 0..L |-> Rule(f, n)]
    BY <1>3
<1>5. after = [n \in 0..L |-> Rule(after, n)]
  <2> HIDE DEF Rule
  <2> QED  BY <1>4
<1>6. SpritePixels(sprite, origin) =
         [p \in {<<origin[1] + (k % sprite.width), origin[2] + (k \div sprite.width)>> :
                    k \in DOMAIN after[L].entries} |->
            after[L].entries[(p[2] - origin[2]) * sprite.width + p[1] - origin[1]]]
    BY DEF SpritePixels, Start
<1> HIDE DEF after
<1>7. Decoding(after, total, sprite.data)
  <2>1. after[0] = Start
      BY <1>5
  <2>2. ASSUME NEW n \in 1..L PROVE after[n] = DecodeByte(total, after[n - 1], sprite.data[n])
    <3>1. n \in 0..L /\ n # 0
        OBVIOUS
    <3>2. after[n] = Rule(after, n)
      <4> HIDE DEF Rule
      <4> QED  BY <1>5, <3>1
    <3> QED  BY <3>1, <3>2
  <2> QED  BY <2>1, <2>2 DEF Decoding
<1>8. Decodes(after, sprite, origin)
    BY <1>6, <1>7 DEF Decodes
<1> QED  BY <1>8

-----------------------------------------------------------------------------
\* The iterator's state when it has taken the first m pixels.
Entries(indices, m) == [j \in {j \in 0..m - 1 : indices[j + 1] # None} |-> indices[j + 1]]
Taken(indices, m) == [index |-> m, solid |-> 0, entries |-> Entries(indices, m)]

\* A command says how long its run is, and whether it is solid.
LEMMA CommandOfRun ==
    ASSUME NEW length \in 1..MAX_RUN_LEN
    PROVE  /\ ~IsSolid(length - 1) /\ RunLen(length - 1) = length
           /\ IsSolid(SOLID_RUN_FLAG + length - 1) /\ RunLen(SOLID_RUN_FLAG + length - 1) = length
<1>1. MAX_RUN_LEN \in Nat \ {0}
    BY SpriteRunsAssumption DEF SpriteRunsAssumption
<1>2. \A n \in Nat \ {0} : \A a \in 0..n - 1 : a % n = a /\ (n + a) % n = a
    BY Z3
<1>3. (length - 1) % MAX_RUN_LEN = length - 1 /\ (MAX_RUN_LEN + (length - 1)) % MAX_RUN_LEN = length - 1
    BY <1>1, <1>2
<1>4. MAX_RUN_LEN + length - 1 = MAX_RUN_LEN + (length - 1)
    BY <1>1
<1> QED  BY <1>1, <1>3, <1>4 DEF IsSolid, RunLen, SOLID_RUN_FLAG

\* A transparent run is passed over ...
LEMMA TransparentRun ==
    ASSUME NEW indices, NEW n \in Nat, Len(indices) = n, NEW pos \in 1..n, indices[pos] = None
    PROVE  DecodeByte(n, Taken(indices, pos - 1), RunLength(indices, pos) - 1)
              = Taken(indices, pos - 1 + RunLength(indices, pos))
<1> DEFINE length == RunLength(indices, pos)
           d == Taken(indices, pos - 1)
<1>1. /\ length \in 1..MAX_RUN_LEN /\ length <= n - pos + 1
      /\ \A k \in pos..pos + length - 1 : indices[k] = None
    BY RunLengthType
<1>2. length \in Nat \ {0}
    BY <1>1, SpriteRunsAssumption DEF SpriteRunsAssumption
<1>3. ~IsSolid(length - 1) /\ RunLen(length - 1) = length
    BY <1>1, CommandOfRun
<1> HIDE DEF length
<1>4. d.index = pos - 1 /\ d.solid = 0 /\ d.entries = Entries(indices, pos - 1)
    BY DEF Taken
<1>5. DecodeByte(n, d, length - 1) = [d EXCEPT !.index = @ + length]
    BY <1>3, <1>4 DEF DecodeByte
<1>6. Entries(indices, pos - 1 + length) = Entries(indices, pos - 1)
  <2>1. \A j \in 0..(pos - 1 + length) - 1 : j \in 0..pos - 1 - 1 \/ indices[j + 1] = None
    <3> SUFFICES ASSUME NEW j \in 0..(pos - 1 + length) - 1, j \notin 0..pos - 1 - 1
                 PROVE  indices[j + 1] = None
        OBVIOUS
    <3>1. j + 1 \in pos..pos + length - 1
        BY <1>2
    <3> QED  BY <1>1, <3>1
  <2>2. \A j \in 0..pos - 1 - 1 : j \in 0..(pos - 1 + length) - 1
      BY <1>2
  <2> DEFINE before == {j \in 0..pos - 1 - 1 : indices[j + 1] # None}
             now == {j \in 0..(pos - 1 + length) - 1 : indices[j + 1] # None}
  <2>3. now = before
      BY <2>1, <2>2
  <2>4. /\ Entries(indices, pos - 1) = [j \in before |-> indices[j + 1]]
        /\ Entries(indices, pos - 1 + length) = [j \in now |-> indices[j + 1]]
      BY DEF Entries
  <2> HIDE DEF before, now
  <2> QED  BY <2>3, <2>4
<1> QED  BY <1>2, <1>4, <1>5, <1>6 DEF Taken, length

\* ... and a solid one gives its entry to all its pixels.
LEMMA SolidRun ==
    ASSUME NEW indices, NEW n \in Nat, Len(indices) = n, NEW pos \in 1..n, indices[pos] # None
    PROVE  DecodeByte(n, DecodeByte(n, Taken(indices, pos - 1),
                                       SOLID_RUN_FLAG + RunLength(indices, pos) - 1),
                      indices[pos])
              = Taken(indices, pos - 1 + RunLength(indices, pos))
<1> DEFINE length == RunLength(indices, pos)
           d == Taken(indices, pos - 1)
           e == DecodeByte(n, d, SOLID_RUN_FLAG + length - 1)
           run == pos - 1..(pos - 1 + length) - 1
           color == indices[pos]
<1>1. /\ length \in 1..MAX_RUN_LEN /\ length <= n - pos + 1
      /\ \A k \in pos..pos + length - 1 : indices[k] = color
    BY RunLengthType
<1>2. length \in Nat \ {0}
    BY <1>1, SpriteRunsAssumption DEF SpriteRunsAssumption
<1>3. IsSolid(SOLID_RUN_FLAG + length - 1) /\ RunLen(SOLID_RUN_FLAG + length - 1) = length
    BY <1>1, CommandOfRun
<1> HIDE DEF length
<1>4. d.index = pos - 1 /\ d.solid = 0 /\ d.entries = Entries(indices, pos - 1)
    BY DEF Taken
<1>5. e = [d EXCEPT !.solid = length]
    BY <1>3, <1>4 DEF DecodeByte
<1>6. e.index = pos - 1 /\ e.solid = length /\ e.entries = Entries(indices, pos - 1)
    BY <1>5 DEF Taken
<1> HIDE DEF e
<1>7. Min({pos - 1 + length, n}) = pos - 1 + length
  <2>1. pos - 1 + length \in Int /\ n \in Int /\ pos - 1 + length <= n
      BY <1>1, <1>2
  <2> QED  BY <2>1, MinOfTwo
<1> DEFINE more == [k \in DOMAIN e.entries \cup run |-> IF k \in run THEN color ELSE e.entries[k]]
<1>8. DecodeByte(n, e, color) = [index |-> pos - 1 + length, solid |-> 0, entries |-> more]
  <2>1. e.index < n /\ e.solid > 0 /\ ~(e.index >= n) /\ e.solid # 0
      BY <1>2, <1>6
  <2>2. DecodeByte(n, e, color) =
           [index |-> e.index + e.solid, solid |-> 0,
            entries |-> [k \in DOMAIN e.entries \cup (e.index..Min({e.index + e.solid, n}) - 1) |->
                            IF k \in e.index..Min({e.index + e.solid, n}) - 1 THEN color
                            ELSE e.entries[k]]]
      BY <2>1, Zenon DEF DecodeByte
  <2>3. e.index..Min({e.index + e.solid, n}) - 1 = run /\ e.index + e.solid = pos - 1 + length
    <3>1. e.index + e.solid = pos - 1 + length
        BY <1>6
    <3> DEFINE m == Min({e.index + e.solid, n})
    <3>2. m = pos - 1 + length
        BY <1>7, <3>1, Zenon
    <3> HIDE DEF m
    <3>3. e.index..m - 1 = run
        BY <1>6, <3>2
    <3> QED  BY <3>1, <3>3 DEF m
  <2> DEFINE r == e.index..Min({e.index + e.solid, n}) - 1
  <2>4. DecodeByte(n, e, color) =
           [index |-> e.index + e.solid, solid |-> 0,
            entries |-> [k \in DOMAIN e.entries \cup r |-> IF k \in r THEN color ELSE e.entries[k]]]
      BY <2>2
  <2> HIDE DEF r, run
  <2>5. r = run
      BY <2>3 DEF r
  <2> QED  BY <2>3, <2>4, <2>5
<1>9. more = Entries(indices, pos - 1 + length)
  <2> DEFINE before == {j \in 0..pos - 1 - 1 : indices[j + 1] # None}
             now == {j \in 0..(pos - 1 + length) - 1 : indices[j + 1] # None}
  <2>1. DOMAIN e.entries = before /\ \A j \in before : e.entries[j] = indices[j + 1]
      BY <1>6 DEF Entries
  <2>2. \A j \in run : j + 1 \in pos..pos + length - 1
      BY <1>2
  <2>3. \A j \in run : indices[j + 1] = color
      BY <1>1, <2>2
  <2>4. \A j : j \in 0..(pos - 1 + length) - 1 <=> j \in 0..pos - 1 - 1 \/ j \in run
      BY <1>2
  <2>5. before \cup run = now
      BY <2>3, <2>4
  <2>6. \A j \in now : (IF j \in run THEN color ELSE e.entries[j]) = indices[j + 1]
      BY <2>1, <2>3, <2>4
  <2>7. Entries(indices, pos - 1 + length) = [j \in now |-> indices[j + 1]]
      BY DEF Entries
  <2>8. more = [j \in before \cup run |-> IF j \in run THEN color ELSE e.entries[j]]
      BY <2>1
  <2> HIDE DEF before, now, run, more
  <2> QED  BY <2>5, <2>6, <2>7, <2>8
<1> QED  BY <1>8, <1>9 DEF e, length, Taken

\* The iterator is at a position of the cell: it has taken m bytes, those left
\* are the runs from there on, and it has the pixels before it.
Reached(indices, n, from, data, g, pos, m) ==
    /\ m \in Nat /\ Len(data) = m + Len(from[pos])
    /\ \A i \in 1..Len(from[pos]) : data[m + i] = from[pos][i]
    /\ g[m] = Taken(indices, pos - 1)

\* It goes from run to run.
LEMMA NextRun ==
    ASSUME NEW indices, NEW n \in Nat, Len(indices) = n, NEW from, Encoded(from, indices, n),
           NEW data, NEW g, Decoding(g, n, data),
           NEW pos \in 1..n, NEW m, Reached(indices, n, from, data, g, pos, m)
    PROVE  \E k : Reached(indices, n, from, data, g, pos + RunLength(indices, pos), k)
<1> DEFINE length == RunLength(indices, pos)
           next == pos + length
           run == RunBytes(indices, pos)
           rest == from[next]
           N == Numbers(indices, n)
<1>1. length \in Nat \ {0} /\ next \in 1..n + 1 /\ next - 1 = pos - 1 + length
  <2>1. length \in 1..MAX_RUN_LEN /\ length <= n - pos + 1
      BY RunLengthType
  <2>2. MAX_RUN_LEN \in Nat
      BY SpriteRunsAssumption DEF SpriteRunsAssumption
  <2> QED  BY <2>1, <2>2
<1>2. from[pos] = run \o rest
  <2>1. pos \in 1..n + 1 /\ ~(pos > n)
      OBVIOUS
  <2> QED  BY <2>1 DEF Encoded
<1> HIDE DEF length, next, N
<1>3. run \in Seq(N)
    BY RunBytesType DEF N
<1>4. rest \in Seq(N)
  <2>1. \A p \in 1..n + 1 : from[p] \in Seq(N)
      BY EncodedType DEF N
  <2> QED  BY <1>1, <2>1
<1>5. m \in Nat /\ Len(data) = m + Len(from[pos]) /\ g[m] = Taken(indices, pos - 1)
      /\ \A i \in 1..Len(from[pos]) : data[m + i] = from[pos][i]
    BY DEF Reached
<1>6. /\ indices[pos] = None => run = <<length - 1>>
      /\ indices[pos] # None => run = <<SOLID_RUN_FLAG + length - 1, indices[pos]>>
    BY RunBytesType DEF length
<1> DEFINE all == from[pos]
<1> HIDE DEF run, rest, all
<1>7. /\ Len(all) = Len(run) + Len(rest)
      /\ \A i \in 1..Len(run) : all[i] = run[i]
      /\ \A i \in 1..Len(rest) : all[Len(run) + i] = rest[i]
      /\ Len(run) \in Nat /\ Len(rest) \in Nat
  <2>1. Joins(run \o rest, run, rest)
      BY <1>3, <1>4, Joined
  <2>2. Len(run) \in Nat /\ Len(rest) \in Nat
      BY <1>3, <1>4
  <2> QED  BY <1>2, <2>1, <2>2 DEF Joins, all
<1>8. /\ Len(data) = m + Len(run) + Len(rest)
      /\ \A i \in 1..Len(run) : data[m + i] = run[i]
      /\ \A i \in 1..Len(rest) : data[m + Len(run) + i] = rest[i]
  <2>1. /\ Len(data) = m + Len(all) /\ \A i \in 1..Len(all) : data[m + i] = all[i]
      BY <1>5 DEF all
  <2>2. \A i \in 1..Len(run) : i \in 1..Len(all)
      BY <1>7
  <2>3. \A i \in 1..Len(rest) : Len(run) + i \in 1..Len(all) /\ m + (Len(run) + i) = m + Len(run) + i
      BY <1>5, <1>7
  <2>4. Len(data) = m + Len(run) + Len(rest)
      BY <1>5, <1>7, <2>1
  <2>5. \A i \in 1..Len(run) : data[m + i] = run[i]
      BY <1>7, <2>1, <2>2
  <2>6. ASSUME NEW i \in 1..Len(rest) PROVE data[m + Len(run) + i] = rest[i]
    <3>1. data[m + (Len(run) + i)] = all[Len(run) + i]
        BY <2>1, <2>3
    <3> QED  BY <1>7, <2>3, <3>1
  <2> QED  BY <2>4, <2>5, <2>6
<1>9. ASSUME NEW b \in Nat, b + 1 \in 1..Len(data)
      PROVE  g[b + 1] = DecodeByte(n, g[b], data[b + 1])
  <2> DEFINE i == b + 1
  <2>1. i - 1 = b
      OBVIOUS
  <2>2. g[i] = DecodeByte(n, g[i - 1], data[i])
    <3> HIDE DEF i
    <3>1. i \in 1..Len(data)
        BY <1>9 DEF i
    <3> QED  BY <3>1 DEF Decoding
  <2> QED  BY <2>1, <2>2
<1>10. g[m + Len(run)] = Taken(indices, pos - 1 + length)
  <2>1. CASE indices[pos] = None
    <3>1. Len(run) = 1 /\ run[1] = length - 1
        BY <1>6, <2>1
    <3>2. data[m + 1] = length - 1 /\ m + 1 \in 1..Len(data) /\ m + 1 - 1 = m
        BY <1>5, <1>7, <1>8, <3>1
    <3>3. g[m + 1] = DecodeByte(n, g[m], data[m + 1])
        BY <1>5, <1>9, <3>2
    <3>4. DecodeByte(n, Taken(indices, pos - 1), length - 1) = Taken(indices, pos - 1 + length)
        BY <2>1, TransparentRun DEF length
    <3> QED  BY <1>5, <3>1, <3>2, <3>3, <3>4
  <2>2. CASE indices[pos] # None
    <3>1. Len(run) = 2 /\ run[1] = SOLID_RUN_FLAG + length - 1 /\ run[2] = indices[pos]
        BY <1>6, <2>2
    <3>2. /\ m + 1 \in 1..Len(data) /\ m + 1 - 1 = m
          /\ m + 2 \in 1..Len(data) /\ m + 2 - 1 = m + 1
      <4>1. m \in Nat /\ Len(rest) \in Nat /\ Len(data) = m + 2 + Len(rest)
          BY <1>5, <1>7, <1>8, <3>1
      <4> QED  BY <4>1
    <3>3. data[m + 1] = SOLID_RUN_FLAG + length - 1 /\ data[m + 2] = indices[pos]
      <4>1. 1 \in 1..Len(run) /\ 2 \in 1..Len(run)
          BY <3>1
      <4> QED  BY <1>8, <3>1, <4>1
    <3>4. g[m + 1] = DecodeByte(n, g[m], data[m + 1]) /\ g[m + 2] = DecodeByte(n, g[m + 1], data[m + 2])
      <4>1. m + 1 \in Nat /\ m \in Nat /\ m + 1 + 1 = m + 2
          BY <1>5
      <4>2. g[m + 1] = DecodeByte(n, g[m], data[m + 1])
          BY <1>9, <3>2, <4>1
      <4>3. g[m + 1 + 1] = DecodeByte(n, g[m + 1], data[m + 1 + 1])
          BY <1>9, <3>2, <4>1
      <4> QED  BY <4>1, <4>2, <4>3
    <3>5. DecodeByte(n, DecodeByte(n, Taken(indices, pos - 1), SOLID_RUN_FLAG + length - 1), indices[pos])
             = Taken(indices, pos - 1 + length)
        BY <2>2, SolidRun DEF length
    <3> QED  BY <1>5, <3>1, <3>3, <3>4, <3>5
  <2> QED  BY <2>1, <2>2
<1>11. Reached(indices, n, from, data, g, next, m + Len(run))
  <2>1. m + Len(run) \in Nat
      BY <1>5, <1>7
  <2>2. next - 1 = pos - 1 + length
      BY <1>1
  <2> QED  BY <1>8, <1>10, <2>1, <2>2 DEF Reached, rest
<1> QED  BY <1>11 DEF next, length

\* The iterator takes from the runs of a cell what the cell was.
LEMMA RunsRoundTrip ==
    ASSUME NEW indices, NEW n \in Nat, Len(indices) = n,
           NEW data, data = encode_rle(indices), NEW g, Decoding(g, n, data)
    PROVE  Len(data) \in Nat /\ g[Len(data)] = Taken(indices, n)
<1>1. PICK from : Encoded(from, indices, n) /\ data = from[1]
    BY EncodedExists
<1> DEFINE There(pos) == \E k : Reached(indices, n, from, data, g, pos, k)
           R == {pos \in 0..n + 1 : pos >= 1 /\ There(pos)}
           last == Max(R)
<1>2. There(1)
  <2>1. from[1] \in Seq(Numbers(indices, n))
    <3>1. 1 \in 1..n + 1
        OBVIOUS
    <3> QED  BY <1>1, <3>1, EncodedType
  <2>2. Len(data) \in Nat
      BY <1>1, <2>1
  <2>3. g[0] = Taken(indices, 0)
    <3>1. g[0] = Start
        BY DEF Decoding
    <3>2. {j \in 0..0 - 1 : indices[j + 1] # None} = {}
        OBVIOUS
    <3>3. Entries(indices, 0) = [k \in {} |-> 0]
      <4> DEFINE none == {j \in 0..0 - 1 : indices[j + 1] # None}
      <4>1. Entries(indices, 0) = [j \in none |-> indices[j + 1]]
          BY DEF Entries
      <4>2. none = {}
          BY <3>2
      <4> HIDE DEF none
      <4> QED  BY <4>1, <4>2
    <3> QED  BY <3>1, <3>3 DEF Start, Taken
  <2>4. Len(data) = 0 + Len(from[1]) /\ \A i \in 1..Len(from[1]) : data[0 + i] = from[1][i]
      BY <1>1, <2>2
  <2>5. Reached(indices, n, from, data, g, 1, 0)
      BY <2>3, <2>4 DEF Reached
  <2> QED  BY <2>5
<1>3. last \in R /\ \A pos \in R : pos <= last
  <2>1. R \in SUBSET (0..n + 1) /\ n + 1 \in Nat
      OBVIOUS
  <2>2. R # {}
    <3>1. 1 \in 0..n + 1 /\ 1 >= 1
        OBVIOUS
    <3> QED  BY <1>2, <3>1
  <2> HIDE DEF R
  <2> QED  BY <2>1, <2>2, Extremes
<1> HIDE DEF last
<1>4. last = n + 1
  <2> SUFFICES ASSUME last # n + 1 PROVE FALSE
      OBVIOUS
  <2>1. last \in 1..n /\ There(last)
      BY <1>3
  <2>2. There(last + RunLength(indices, last))
    <3>1. PICK k : Reached(indices, n, from, data, g, last, k)
        BY <2>1
    <3> QED  BY <1>1, <2>1, <3>1, NextRun, Zenon
  <2>3. /\ RunLength(indices, last) \in 1..MAX_RUN_LEN
        /\ RunLength(indices, last) <= n - last + 1
      BY <2>1, RunLengthType
  <2>4. MAX_RUN_LEN \in Nat
      BY SpriteRunsAssumption DEF SpriteRunsAssumption
  <2>5. last + RunLength(indices, last) \in 0..n + 1 /\ last + RunLength(indices, last) > last
        /\ last + RunLength(indices, last) >= 1
      BY <2>1, <2>3, <2>4
  <2> DEFINE next == last + RunLength(indices, last)
  <2>6. next \in R
    <3> HIDE DEF There
    <3> QED  BY <2>2, <2>5
  <2> HIDE DEF R, next
  <2>7. next > last /\ next \in Int /\ last \in Int
      BY <2>1, <2>5 DEF next
  <2> QED  BY <1>3, <2>6, <2>7
<1>5. PICK k : Reached(indices, n, from, data, g, n + 1, k)
    BY <1>3, <1>4
<1>6. from[n + 1] = <<>>
  <2>1. n + 1 \in 1..n + 1 /\ n + 1 > n
      OBVIOUS
  <2> QED  BY <1>1, <2>1 DEF Encoded
<1>7. k \in Nat /\ Len(data) = k + 0 /\ g[k] = Taken(indices, n + 1 - 1)
    BY <1>5, <1>6 DEF Reached
<1>8. Len(data) = k /\ n + 1 - 1 = n
    BY <1>7
<1> QED  BY <1>7, <1>8

-----------------------------------------------------------------------------
\* The pixels of a rectangle, counted row by row.
IsGrid(w, h) ==
    /\ w * h \in Nat \ {0}
    /\ \A x \in 0..w - 1 : \A y \in 0..h - 1 :
          /\ y * w + x \in 0..w * h - 1
          /\ (y * w + x) % w = x /\ (y * w + x) \div w = y
    /\ \A k \in 0..w * h - 1 :
          /\ k % w \in 0..w - 1 /\ k \div w \in 0..h - 1
          /\ (k \div w) * w + (k % w) = k

\* The pixels of every rectangle are counted so.
LEMMA Grid ==
    ASSUME NEW w \in Nat \ {0}, NEW h \in Nat \ {0}
    PROVE  IsGrid(w, h)
<1>1. w * h \in Nat \ {0}
    BY Z3
<1>2. ASSUME NEW x \in 0..w - 1, NEW y \in 0..h - 1
      PROVE  /\ y * w + x \in 0..w * h - 1
             /\ (y * w + x) % w = x /\ (y * w + x) \div w = y
  <2>1. (y * w + x) % w = x /\ (y * w + x) \div w = y
      BY Z3
  <2>2. y * w \in Nat /\ y * w <= (h - 1) * w
      BY Z3
  <2>3. (h - 1) * w = w * h - w
      BY Z3
  <2> DEFINE a == y * w
             n == w * h
  <2>4. a \in Nat /\ n \in Nat /\ a <= n - w
      BY <1>1, <2>2, <2>3
  <2> HIDE DEF a, n
  <2>5. a + x \in 0..n - 1
      BY <2>4
  <2> QED  BY <2>1, <2>5 DEF a, n
<1>3. ASSUME NEW k \in 0..w * h - 1
      PROVE  /\ k % w \in 0..w - 1 /\ k \div w \in 0..h - 1
             /\ (k \div w) * w + (k % w) = k
  <2>1. k \in Nat /\ k < w * h
      BY <1>1
  <2>2. k % w \in 0..w - 1 /\ k \div w \in Nat /\ (k \div w) * w + (k % w) = k
      BY <2>1, Z3
  <2>3. k \div w < h
      BY <2>1, <2>2, Z3
  <2> QED  BY <2>2, <2>3
<1> QED  BY <1>1, <1>2, <1>3 DEF IsGrid

Visible(cell) == {p \in DOMAIN cell : cell[p] # None}

\* What the firmware takes from an encoded cell is what is visible in it, where
\* it was, from wherever it is drawn.
IsDrawn(pixels, cell, x, y) ==
    /\ DOMAIN pixels = {<<x + p[1], y + p[2]>> : p \in Visible(cell)}
    /\ \A p \in Visible(cell) : pixels[<<x + p[1], y + p[2]>>] = cell[p]

\* What the converter has made of a cell is drawn as the cell, its visible pixels and no
\* others, each where the cell has it.
LEMMA SpriteRoundTrip ==
    ASSUME NEW cell, NEW x \in Int, NEW y \in Int, NEW sprite, sprite = encode_sprite(cell),
           NEW a \in Nat, NEW b \in Nat, DOMAIN cell = (0..a) \X (0..b) \/ DOMAIN cell = {}
    PROVE  IsDrawn(SpritePixels(sprite, <<x + sprite.x, y + sprite.y>>), cell, x, y)
<1> DEFINE visible == Visible(cell)
           pixels == SpritePixels(sprite, <<x + sprite.x, y + sprite.y>>)
<1>1. CASE visible = {}
  <2>1. sprite = [x |-> 0, y |-> 0, width |-> 0, height |-> 0, data |-> <<>>]
      BY <1>1 DEF encode_sprite, Visible
  <2>2. sprite.data = <<>> /\ Len(sprite.data) = 0 /\ Len(sprite.data) \in Nat
      BY <2>1
  <2> DEFINE origin == <<x + sprite.x, y + sprite.y>>
  <2> HIDE DEF origin
  <2>3. PICK g : Decodes(g, sprite, origin)
      BY <2>2, DecodedBytewise
  <2>4. g[Len(sprite.data)] = Start
      BY <2>2, <2>3 DEF Decodes, Decoding
  <2>5. DOMAIN g[Len(sprite.data)].entries = {}
      BY <2>4 DEF Start
  <2>6. DOMAIN SpritePixels(sprite, origin) = {}
      BY <2>3, <2>5 DEF Decodes
  <2> QED  BY <1>1, <2>6 DEF IsDrawn, origin
<1>2. CASE visible # {}
  <2> DEFINE xs == {p[1] : p \in visible}
             ys == {p[2] : p \in visible}
             x0 == Min(xs)
             y0 == Min(ys)
             w == Max(xs) - x0 + 1
             h == Max(ys) - y0 + 1
             indices == [k \in 1..w * h |-> cell[<<x0 + ((k - 1) % w), y0 + ((k - 1) \div w)>>]]
             n == w * h
  <2>1. DOMAIN cell = (0..a) \X (0..b) /\ \A p \in visible : p \in (0..a) \X (0..b) /\ p = <<p[1], p[2]>>
      BY <1>2 DEF Visible
  <2>2. /\ x0 \in xs /\ Max(xs) \in xs /\ \A m \in xs : x0 <= m /\ m <= Max(xs)
        /\ xs \in SUBSET (0..a)
    <3>1. xs \in SUBSET (0..a) /\ xs # {}
        BY <1>2, <2>1
    <3> HIDE DEF xs
    <3> QED  BY <3>1, Extremes
  <2>3. /\ y0 \in ys /\ Max(ys) \in ys /\ \A m \in ys : y0 <= m /\ m <= Max(ys)
        /\ ys \in SUBSET (0..b)
    <3>1. ys \in SUBSET (0..b) /\ ys # {}
        BY <1>2, <2>1
    <3> HIDE DEF ys
    <3> QED  BY <3>1, Extremes
  <2>4. /\ x0 \in Nat /\ w \in Nat \ {0} /\ x0 + w - 1 <= a
        /\ y0 \in Nat /\ h \in Nat \ {0} /\ y0 + h - 1 <= b
    <3> DEFINE x1 == Max(xs)
               y1 == Max(ys)
    <3>1. x0 \in 0..a /\ x1 \in 0..a /\ x0 <= x1 /\ y0 \in 0..b /\ y1 \in 0..b /\ y0 <= y1
      <4> HIDE DEF xs, ys
      <4> QED  BY <2>2, <2>3
    <3>2. w = x1 - x0 + 1 /\ h = y1 - y0 + 1
        OBVIOUS
    <3> HIDE DEF x0, x1, y0, y1, w, h
    <3> QED  BY <3>1, <3>2
  <2>5. sprite = [x |-> x0, y |-> y0, width |-> w, height |-> h, data |-> encode_rle(indices)]
      BY <1>2 DEF encode_sprite, Visible
  <2>6. \A p \in visible : p[1] - x0 \in 0..w - 1 /\ p[2] - y0 \in 0..h - 1
    <3> SUFFICES ASSUME NEW p \in visible PROVE p[1] - x0 \in 0..w - 1 /\ p[2] - y0 \in 0..h - 1
        OBVIOUS
    <3>1. p[1] \in xs /\ p[2] \in ys
        OBVIOUS
    <3> DEFINE x1 == Max(xs)
               y1 == Max(ys)
    <3>2. /\ x0 <= p[1] /\ p[1] <= x1 /\ p[1] \in 0..a /\ x1 \in 0..a
          /\ y0 <= p[2] /\ p[2] <= y1 /\ p[2] \in 0..b /\ y1 \in 0..b
      <4> HIDE DEF xs, ys
      <4> QED  BY <2>2, <2>3, <3>1
    <3>3. w = x1 - x0 + 1 /\ h = y1 - y0 + 1
        OBVIOUS
    <3> DEFINE px == p[1]
               py == p[2]
    <3> HIDE DEF x0, x1, y0, y1, w, h, px, py
    <3>4. /\ x0 \in Int /\ x1 \in Int /\ px \in Int /\ x0 <= px /\ px <= x1
          /\ y0 \in Int /\ y1 \in Int /\ py \in Int /\ y0 <= py /\ py <= y1
        BY <2>4, <3>2 DEF px, py
    <3>5. px - x0 \in 0..w - 1 /\ py - y0 \in 0..h - 1
        BY <3>3, <3>4
    <3> QED  BY <3>5 DEF px, py
  <2> HIDE DEF x0, y0, w, h
  <2>7. /\ n \in Nat \ {0}
        /\ \A c \in 0..w - 1 : \A r \in 0..h - 1 :
              /\ r * w + c \in 0..n - 1
              /\ (r * w + c) % w = c /\ (r * w + c) \div w = r
        /\ \A k \in 0..n - 1 :
              /\ k % w \in 0..w - 1 /\ k \div w \in 0..h - 1
              /\ (k \div w) * w + (k % w) = k
    <3> HIDE DEF n
    <3>1. w \in Nat \ {0} /\ h \in Nat \ {0}
        BY <2>4
    <3>2. IsGrid(w, h)
        BY <3>1, Grid
    <3> QED  BY <3>2, Zenon DEF n, IsGrid
  <2>8. Len(indices) = n
    <3> DEFINE S == {indices[k] : k \in 1..n}
    <3>1. indices \in [1..n -> S]
        OBVIOUS
    <3> HIDE DEF n, indices
    <3> QED  BY <2>7, <3>1
  <2>9. \A k \in 0..n - 1 : indices[k + 1] = cell[<<x0 + (k % w), y0 + (k \div w)>>]
    <3> SUFFICES ASSUME NEW k \in 0..n - 1
                 PROVE  indices[k + 1] = cell[<<x0 + (k % w), y0 + (k \div w)>>]
        OBVIOUS
    <3>1. k + 1 \in 1..n /\ k + 1 - 1 = k
      <4> HIDE DEF n
      <4> QED  BY <2>7
    <3> QED  BY <3>1
  <2> DEFINE origin == <<x + sprite.x, y + sprite.y>>
             data == encode_rle(indices)
  <2> HIDE DEF indices, n, origin
  <2>10. sprite.x = x0 /\ sprite.y = y0 /\ sprite.width = w /\ sprite.height = h /\ sprite.data = data
      BY <2>5
  <2>11. origin[1] = x + x0 /\ origin[2] = y + y0
      BY <2>10 DEF origin
  <2> HIDE DEF data
  <2>12. Len(data) \in Nat
    <3>1. PICK from : Encoded(from, indices, n) /\ data = from[1]
        BY <2>7, <2>8, EncodedExists DEF data
    <3>2. from[1] \in Seq(Numbers(indices, n))
      <4>1. 1 \in 1..n + 1
          BY <2>7
      <4> QED  BY <2>7, <2>8, <3>1, <4>1, EncodedType
    <3> QED  BY <3>1, <3>2
  <2>13. PICK g : /\ Decoding(g, w * h, data)
                  /\ SpritePixels(sprite, origin) =
                       [p \in {<<origin[1] + (k % w), origin[2] + (k \div w)>> :
                                  k \in DOMAIN g[Len(data)].entries} |->
                          g[Len(data)].entries[(p[2] - origin[2]) * w + p[1] - origin[1]]]
    <3>1. Len(sprite.data) \in Nat
        BY <2>10, <2>12
    <3>2. PICK g : Decodes(g, sprite, origin)
        BY <3>1, DecodedBytewise
    <3>3. /\ Decoding(g, sprite.width * sprite.height, sprite.data)
          /\ SpritePixels(sprite, origin) =
                [p \in {<<origin[1] + (k % sprite.width), origin[2] + (k \div sprite.width)>> :
                           k \in DOMAIN g[Len(sprite.data)].entries} |->
                   g[Len(sprite.data)].entries[
                      (p[2] - origin[2]) * sprite.width + p[1] - origin[1]]]
        BY <3>2, Zenon DEF Decodes
    <3> QED  BY <2>10, <3>3
  <2>14. g[Len(data)] = Taken(indices, n)
      BY <2>7, <2>8, <2>13, RunsRoundTrip DEF data, n
  <2> DEFINE D == {j \in 0..n - 1 : indices[j + 1] # None}
             e == g[Len(data)].entries
  <2>15. DOMAIN e = D /\ \A j \in D : e[j] = indices[j + 1]
      BY <2>14 DEF Taken, Entries
  <2> HIDE DEF D, e
  <2>16. SpritePixels(sprite, origin) =
            [p \in {<<x + x0 + (k % w), y + y0 + (k \div w)>> : k \in D} |->
               e[(p[2] - (y + y0)) * w + p[1] - (x + x0)]]
      BY <2>11, <2>13, <2>15 DEF e
  <2> DEFINE Nth(p) == (p[2] - y0) * w + (p[1] - x0)
             Shifted(p) == <<x + p[1], y + p[2]>>
             Place(k) == <<x + x0 + (k % w), y + y0 + (k \div w)>>
  <2>17. ASSUME NEW p \in visible
         PROVE  Nth(p) \in D /\ Place(Nth(p)) = Shifted(p) /\ e[Nth(p)] = cell[p]
    <3>1. p[1] - x0 \in 0..w - 1 /\ p[2] - y0 \in 0..h - 1
        BY <2>6
    <3>2. Nth(p) \in 0..n - 1 /\ Nth(p) % w = p[1] - x0 /\ Nth(p) \div w = p[2] - y0
        BY <2>7, <3>1
    <3>3. p[1] \in Nat /\ p[2] \in Nat /\ p = <<p[1], p[2]>>
        BY <2>1
    <3>4. x0 + (p[1] - x0) = p[1] /\ y0 + (p[2] - y0) = p[2]
        BY <2>4, <3>3
    <3>5. indices[Nth(p) + 1] = cell[p]
      <4> HIDE DEF Nth
      <4> QED  BY <2>9, <3>2, <3>3, <3>4
    <3>6. cell[p] # None
        BY DEF Visible
    <3> HIDE DEF Nth
    <3>7. Nth(p) \in D
        BY <3>2, <3>5, <3>6 DEF D
    <3>8. Place(Nth(p)) = Shifted(p)
      <4>1. x + x0 + (p[1] - x0) = x + p[1] /\ y + y0 + (p[2] - y0) = y + p[2]
          BY <2>4, <3>3
      <4> QED  BY <3>2, <4>1
    <3> QED  BY <2>15, <3>5, <3>7, <3>8
  <2>18. ASSUME NEW k \in D
         PROVE  \E p \in visible : Place(k) = Shifted(p)
    <3> DEFINE c == k % w
               r == k \div w
               p == <<x0 + c, y0 + r>>
    <3>1. k \in 0..n - 1 /\ indices[k + 1] # None
        BY DEF D
    <3>2. c \in 0..w - 1 /\ r \in 0..h - 1
        BY <2>7, <3>1
    <3>3. cell[p] # None
        BY <2>9, <3>1
    <3> HIDE DEF c, r
    <3>4. x0 + c \in 0..a /\ y0 + r \in 0..b
        BY <2>4, <3>2
    <3>5. p \in visible
        BY <2>1, <3>3, <3>4 DEF Visible
    <3>6. Shifted(p) = <<x + (x0 + c), y + (y0 + r)>>
        OBVIOUS
    <3>7. x + (x0 + c) = x + x0 + c /\ y + (y0 + r) = y + y0 + r
        BY <2>4, <3>2
    <3>8. Place(k) = Shifted(p)
        BY <3>6, <3>7 DEF c, r
    <3> QED  BY <3>5, <3>8
  <2>19. {Place(k) : k \in D} = {Shifted(p) : p \in visible}
    <3> HIDE DEF Place, Shifted, Nth, visible
    <3> QED  BY <2>17, <2>18
  <2>20. DOMAIN pixels = {Shifted(p) : p \in visible}
      BY <2>16, <2>19 DEF origin
  <2>21. ASSUME NEW p \in visible PROVE pixels[Shifted(p)] = cell[p]
    <3>1. Shifted(p) \in {Place(k) : k \in D}
        BY <2>19
    <3>2. pixels[Shifted(p)] = e[(Shifted(p)[2] - (y + y0)) * w + Shifted(p)[1] - (x + x0)]
        BY <2>16, <3>1 DEF origin
    <3>3. p[1] \in Nat /\ p[2] \in Nat
        BY <2>1
    <3>4. (y + p[2]) - (y + y0) = p[2] - y0
        BY <2>4, <3>3
    <3>5. \A m \in Int : m + (x + p[1]) - (x + x0) = m + (p[1] - x0)
        BY <2>4, <3>3
    <3>6. (p[2] - y0) * w \in Int
        BY <2>4, <3>3
    <3>7. (Shifted(p)[2] - (y + y0)) * w + Shifted(p)[1] - (x + x0) = Nth(p)
        BY <3>4, <3>5, <3>6
    <3> QED  BY <2>17, <3>2, <3>7
  <2> QED  BY <2>20, <2>21 DEF IsDrawn
<1> QED  BY <1>1, <1>2

-----------------------------------------------------------------------------
\* The framebuffer holds a scene: its words are the colours the scene should have.
WordAt(buffer, q) == 256 * buffer[2 * q] + buffer[2 * q + 1]

PictureIn(buffer, s) ==
    \A x \in Columns, y \in Rows :
        Straight(s)[<<x, y>>] = Colour(TRUE, WordAt(buffer, y * WIDTH + x))

\* The words of the framebuffer are in rows of the panel's width.
LEMMA PanelGrid == IsGrid(WIDTH, HEIGHT)
BY Dimensions, Grid

\* The bytes 2q and 2q + 1 are those of one pixel and of no other.
HasBytes(q, x, y) ==
    /\ q \in Nat /\ 2 * q \in 0..FB_LEN - 1 /\ 2 * q + 1 \in 0..FB_LEN - 1
    /\ \A c \in Columns, r \in Rows : \A d \in {0, 1} :
          ((2 * q + d) - (r * WIDTH + c) * 2 \in {0, 1}) <=> (c = x /\ r = y)
    /\ \A d \in {0, 1} : (2 * q + d) - q * 2 = d

\* A pixel of the panel has two bytes of its own.
LEMMA PixelBytes ==
    ASSUME NEW x \in Columns, NEW y \in Rows, NEW q, q = y * WIDTH + x
    PROVE  HasBytes(q, x, y)
<1> DEFINE n == WIDTH * HEIGHT
<1>1. n \in Nat /\ FB_LEN = n * 2
    BY Dimensions
<1>2. /\ \A c \in Columns : \A r \in Rows :
            /\ r * WIDTH + c \in 0..n - 1
            /\ (r * WIDTH + c) % WIDTH = c /\ (r * WIDTH + c) \div WIDTH = r
    BY PanelGrid, Zenon DEF IsGrid, Columns, Rows
<1> HIDE DEF n
<1>3. q \in 0..n - 1 /\ q % WIDTH = x /\ q \div WIDTH = y
    BY <1>2
<1>4. q \in Nat /\ 2 * q \in 0..FB_LEN - 1 /\ 2 * q + 1 \in 0..FB_LEN - 1
    BY <1>1, <1>3
<1>5. ASSUME NEW c \in Columns, NEW r \in Rows, NEW d \in {0, 1}
      PROVE  ((2 * q + d) - (r * WIDTH + c) * 2 \in {0, 1}) <=> (c = x /\ r = y)
  <2> DEFINE k == r * WIDTH + c
  <2>1. k \in 0..n - 1 /\ k % WIDTH = c /\ k \div WIDTH = r
      BY <1>2
  <2>2. k = q <=> c = x /\ r = y
    <3>1. k = q => c = x /\ r = y
      <4> HIDE DEF k
      <4> QED  BY <1>3, <2>1
    <3>2. c = x /\ r = y => k = q
        OBVIOUS
    <3> QED  BY <3>1, <3>2
  <2> HIDE DEF k
  <2>3. k \in Nat /\ q \in Nat
      BY <1>1, <1>3, <2>1
  <2>4. ((2 * q + d) - k * 2 \in {0, 1}) <=> k = q
      BY <2>3
  <2> QED  BY <2>2, <2>4 DEF k
<1>6. \A d \in {0, 1} : (2 * q + d) - q * 2 = d
    BY <1>4
<1> QED  BY <1>4, <1>5, <1>6 DEF HasBytes

\* Drawing puts the word of every pixel into its two bytes; the others are black.
LEMMA DrawnWords ==
    ASSUME NEW pixels, DOMAIN pixels \subseteq Int \X Int,
           NEW x \in Columns, NEW y \in Rows, NEW q, q = y * WIDTH + x
    PROVE  /\ q \in Nat
           /\ WordAt(draw_iter(pixels), q) =
                 IF <<x, y>> \in DOMAIN pixels THEN PaletteWord(pixels[<<x, y>>]) ELSE 0
<1> DEFINE idx(p) == (p[2] * WIDTH + p[1]) * 2
           near(i, p) == i - idx(p) \in {0, 1}
           writes(i, p) == OnScreen(p[1], p[2]) /\ near(i, p)
           written(i) == {p \in DOMAIN pixels : writes(i, p)}
           last(i) == CHOOSE p \in written(i) : TRUE
           byte(i) == IF written(i) = {} THEN 0
                      ELSE rgb565_bytes(rgb565_color(pixels[last(i)]))[i - idx(last(i)) + 1]
           here == <<x, y>>
<1>1. draw_iter(pixels) = [i \in 0..FB_LEN - 1 |-> byte(i)]
    BY DEF draw_iter
<1>0. HasBytes(q, x, y)
    BY PixelBytes
<1>2. /\ q \in Nat /\ 2 * q \in 0..FB_LEN - 1 /\ 2 * q + 1 \in 0..FB_LEN - 1
      /\ \A c \in Columns, r \in Rows : \A d \in {0, 1} :
            ((2 * q + d) - (r * WIDTH + c) * 2 \in {0, 1}) <=> (c = x /\ r = y)
      /\ \A d \in {0, 1} : (2 * q + d) - q * 2 = d
    BY <1>0, Zenon DEF HasBytes
<1>3. ASSUME NEW d \in {0, 1} PROVE written(2 * q + d) = DOMAIN pixels \cap {here}
  <2>1. ASSUME NEW p \in DOMAIN pixels
        PROVE  writes(2 * q + d, p) <=> p = here
    <3>1. p = <<p[1], p[2]>> /\ p[1] \in Int /\ p[2] \in Int
        OBVIOUS
    <3>2. OnScreen(p[1], p[2]) <=> p[1] \in Columns /\ p[2] \in Rows
        BY <3>1, Dimensions DEF OnScreen, Columns, Rows
    <3>3. CASE p[1] \in Columns /\ p[2] \in Rows
      <4>1. (2 * q + d) - idx(p) \in {0, 1} <=> p[1] = x /\ p[2] = y
        <5> DEFINE a == p[1]
                   b == p[2]
        <5>1. a \in Columns /\ b \in Rows
            BY <3>3
        <5> HIDE DEF a, b
        <5>2. (2 * q + d) - (b * WIDTH + a) * 2 \in {0, 1} <=> a = x /\ b = y
            BY <1>2, <5>1, Zenon
        <5> QED  BY <5>2 DEF a, b
      <4>2. p = here <=> p[1] = x /\ p[2] = y
          BY <3>1
      <4>3. OnScreen(p[1], p[2])
          BY <3>2, <3>3
      <4>4. near(2 * q + d, p) <=> p[1] = x /\ p[2] = y
          BY <4>1
      <4> HIDE DEF here, near
      <4> QED  BY <4>2, <4>3, <4>4
    <3>4. CASE ~(p[1] \in Columns /\ p[2] \in Rows)
      <4>1. p # here
          BY <3>4
      <4> QED  BY <3>2, <3>4, <4>1
    <3> QED  BY <3>3, <3>4
  <2> DEFINE mine == DOMAIN pixels \cap {here}
  <2>2. \A p : p \in written(2 * q + d) <=> p \in mine
    <3> SUFFICES ASSUME NEW p PROVE p \in written(2 * q + d) <=> p \in mine
        OBVIOUS
    <3>1. p \in written(2 * q + d) <=> p \in DOMAIN pixels /\ writes(2 * q + d, p)
      <4> HIDE DEF writes
      <4> QED  OBVIOUS
    <3>2. p \in mine <=> p \in DOMAIN pixels /\ p = here
      <4> HIDE DEF here
      <4> QED  OBVIOUS
    <3> HIDE DEF writes, here, written, mine
    <3> QED  BY <2>1, <3>1, <3>2
  <2> HIDE DEF written, mine
  <2>3. written(2 * q + d) = mine
      BY <2>2
  <2> QED  BY <2>3 DEF mine
<1>4. 2 * q + 0 = 2 * q
    BY <1>2
<1>5. CASE here \in DOMAIN pixels
  <2> DEFINE w == PaletteWord(pixels[here])
  <2>1. w \in Words /\ rgb565_bytes(rgb565_color(pixels[here])) = <<w \div 256, w % 256>>
      BY PaletteBytes
  <2>2. ASSUME NEW d \in {0, 1}
        PROVE  byte(2 * q + d) = <<w \div 256, w % 256>>[d + 1]
    <3>1. written(2 * q + d) = {here}
        BY <1>3, <1>5
    <3> DEFINE i == 2 * q + d
    <3>2. last(i) = here /\ written(i) # {}
      <4> HIDE DEF written, here
      <4> QED  BY <3>1
    <3>3. byte(i) = rgb565_bytes(rgb565_color(pixels[last(i)]))[i - idx(last(i)) + 1]
      <4> HIDE DEF last, written, idx, i
      <4> QED  BY <3>2
    <3>4. (2 * q + d) - idx(here) = d
        BY <1>2
    <3>5. byte(i) = rgb565_bytes(rgb565_color(pixels[here]))[i - idx(here) + 1]
      <4> HIDE DEF last, byte, idx, here, i
      <4> QED  BY <3>2, <3>3
    <3> DEFINE bytes == rgb565_bytes(rgb565_color(pixels[here]))
    <3>6. bytes = <<w \div 256, w % 256>>
        BY <2>1
    <3>7. byte(i) = bytes[d + 1]
      <4> DEFINE off == i - idx(here)
      <4>1. off = d /\ byte(i) = bytes[off + 1]
          BY <3>4, <3>5
      <4> HIDE DEF byte, i, bytes, off
      <4> QED  BY <4>1
    <3> HIDE DEF byte, w, bytes
    <3> QED  BY <3>6, <3>7
  <2> HIDE DEF byte, w
  <2>3. byte(2 * q) = w \div 256 /\ byte(2 * q + 1) = w % 256
    <3>1. byte(2 * q + 0) = <<w \div 256, w % 256>>[0 + 1]
        BY <2>2
    <3>2. byte(2 * q + 1) = <<w \div 256, w % 256>>[1 + 1]
        BY <2>2
    <3> QED  BY <1>4, <3>1, <3>2
  <2>4. WordAt(draw_iter(pixels), q) = 256 * (w \div 256) + (w % 256)
      BY <1>1, <1>2, <2>3 DEF WordAt
  <2>5. w \in Nat
      BY <2>1 DEF Words
  <2>6. 256 * (w \div 256) + (w % 256) = w
      BY <2>5
  <2> QED  BY <1>2, <1>5, <2>4, <2>6 DEF w
<1>6. CASE here \notin DOMAIN pixels
  <2>1. written(2 * q + 0) = {} /\ written(2 * q + 1) = {}
      BY <1>3, <1>6
  <2>2. byte(2 * q) = 0 /\ byte(2 * q + 1) = 0
      BY <1>4, <2>1
  <2> HIDE DEF byte
  <2>3. WordAt(draw_iter(pixels), q) = 256 * 0 + 0
      BY <1>1, <1>2, <2>2 DEF WordAt
  <2> QED  BY <1>2, <1>6, <2>3
<1> QED  BY <1>5, <1>6

\* The cell of a scene is a rectangle or empty, and its offset a whole number.
LEMMA CellOfScene ==
    ASSUME NEW s \in Scenes
    PROVE  /\ s.x \in Int /\ s.y \in Int
           /\ \E a, b \in Nat : DOMAIN s.cell = (0..a) \X (0..b) \/ DOMAIN s.cell = {}
<1>1. /\ s.x \in Int /\ s.y \in Int
      /\ DOMAIN s.cell \subseteq Nat \X Nat
      /\ DOMAIN s.cell = {} \/
         \E last \in DOMAIN s.cell : DOMAIN s.cell = (0..last[1]) \X (0..last[2])
    BY PanelAssumption DEF PanelAssumption
<1>2. \A last \in DOMAIN s.cell : last[1] \in Nat /\ last[2] \in Nat
    BY <1>1
<1> QED  BY <1>1, <1>2

\* What RenderFrame leaves in the framebuffer is the scene as it should be seen,
\* neither lost nor shifted by the runs it travelled in.
LEMMA BlitPicture ==
    ASSUME NEW s \in Scenes
    PROVE  PictureIn(blit_sprite(s), s)
<1> DEFINE sprite == encode_sprite(s.cell)
           pixels == SpritePixels(sprite, <<s.x + sprite.x, s.y + sprite.y>>)
<1>1. s.x \in Int /\ s.y \in Int
    BY CellOfScene
<1>2. PICK a \in Nat, b \in Nat : DOMAIN s.cell = (0..a) \X (0..b) \/ DOMAIN s.cell = {}
    BY CellOfScene
<1>3. IsDrawn(pixels, s.cell, s.x, s.y)
    BY <1>1, <1>2, SpriteRoundTrip, Zenon
<1>4. blit_sprite(s) = draw_iter(pixels)
    BY DEF blit_sprite
<1> HIDE DEF sprite, pixels
<1> DEFINE visible == Visible(s.cell)
<1>5. \A p \in visible : p \in DOMAIN s.cell /\ p = <<p[1], p[2]>> /\ p[1] \in Int /\ p[2] \in Int
    BY <1>2 DEF Visible
<1>6. DOMAIN pixels \subseteq Int \X Int
  <2>1. DOMAIN pixels = {<<s.x + p[1], s.y + p[2]>> : p \in visible}
      BY <1>3 DEF IsDrawn
  <2> QED  BY <1>1, <1>5, <2>1
<1> SUFFICES ASSUME NEW x \in Columns, NEW y \in Rows
             PROVE  Straight(s)[<<x, y>>] = Colour(TRUE, WordAt(draw_iter(pixels), y * WIDTH + x))
    BY <1>4 DEF PictureIn
<1> DEFINE here == <<x, y>>
           at == <<x - s.x, y - s.y>>
           color == IF at \in visible THEN rgb565_color(s.cell[at]) ELSE BLACK
           word == IF at \in visible THEN PaletteWord(s.cell[at]) ELSE 0
<1>7. x \in Int /\ y \in Int /\ <<x, y>> \in Positions
    BY DEF Columns, Rows, Positions
<1>8. Straight(s)[here] = Expanded(color.b, color.g, color.r)
    BY <1>7 DEF Straight, Visible
<1>9. WordAt(draw_iter(pixels), y * WIDTH + x) = word
  <2>1. here \in DOMAIN pixels <=> at \in visible
    <3>1. ASSUME NEW p \in visible, here = <<s.x + p[1], s.y + p[2]>> PROVE p = at
      <4>1. x = s.x + p[1] /\ y = s.y + p[2]
          BY <3>1
      <4>2. p[1] = x - s.x /\ p[2] = y - s.y
          BY <1>1, <1>5, <4>1
      <4> QED  BY <1>5, <4>2
    <3>2. here = <<s.x + at[1], s.y + at[2]>>
        BY <1>1, <1>7
    <3>3. DOMAIN pixels = {<<s.x + p[1], s.y + p[2]>> : p \in visible}
        BY <1>3 DEF IsDrawn
    <3> HIDE DEF at, visible, here
    <3> QED  BY <3>1, <3>2, <3>3
  <2>2. at \in visible => pixels[here] = s.cell[at]
    <3>1. here = <<s.x + at[1], s.y + at[2]>>
        BY <1>1, <1>7
    <3> HIDE DEF at, here
    <3> QED  BY <1>3, <3>1 DEF IsDrawn
  <2>3. WordAt(draw_iter(pixels), y * WIDTH + x) =
           IF here \in DOMAIN pixels THEN PaletteWord(pixels[here]) ELSE 0
      BY <1>6, DrawnWords
  <2> QED  BY <2>1, <2>2, <2>3
<1>10. color = [r |-> word \div 2048, g |-> (word \div 32) % 64, b |-> word % 32]
  <2>1. CASE at \in visible
      BY <2>1, PaletteBytes
  <2>2. CASE at \notin visible
      BY <2>2 DEF BLACK
  <2> QED  BY <2>1, <2>2
<1> HIDE DEF color, word, here
<1> QED  BY <1>8, <1>9, <1>10 DEF Colour, here

\* Before anything is drawn the framebuffer and the scene are black.
LEMMA BlackPicture == PictureIn(Zeros, NoScene)
<1> SUFFICES ASSUME NEW x \in Columns, NEW y \in Rows
             PROVE  Straight(NoScene)[<<x, y>>] = Colour(TRUE, WordAt(Zeros, y * WIDTH + x))
    BY DEF PictureIn
<1> DEFINE q == y * WIDTH + x
<1>1. WordAt(Zeros, q) = 0
  <2>0. HasBytes(q, x, y)
      BY PixelBytes
  <2>1. 2 * q \in 0..FB_LEN - 1 /\ 2 * q + 1 \in 0..FB_LEN - 1
      BY <2>0 DEF HasBytes
  <2> HIDE DEF q
  <2> QED  BY <2>1 DEF WordAt, Zeros
<1>2. <<x, y>> \in Positions
    BY DEF Columns, Rows, Positions
<1>3. Straight(NoScene)[<<x, y>>] = Expanded(0, 0, 0)
    BY <1>2 DEF Straight, NoScene, BLACK
<1> QED  BY <1>1, <1>3 DEF Colour

-----------------------------------------------------------------------------
\* The chip's memory fills in the order of the framebuffer, by rows or, under
\* vertical_increment, by columns.
Pixels == 0..WIDTH * HEIGHT - 1
Col(o, q) == IF o.vertical_increment THEN q \div WIDTH ELSE q % WIDTH
Row(o, q) == IF o.vertical_increment THEN q % WIDTH ELSE q \div WIDTH

\* Where an orientation puts a word of the framebuffer.
Place(o, q) ==
    <<IF o.mirror_h THEN WIDTH - 1 - Col(o, q) ELSE Col(o, q),
      IF o.flip_v THEN HEIGHT - 1 - Row(o, q) ELSE Row(o, q)>>

Flags(o, c) ==
    /\ c.vertical_increment = o.vertical_increment /\ c.mirror_h = o.mirror_h
    /\ c.flip_v = o.flip_v /\ c.bgr = o.bgr

\* The orientations all take blue for red; on a square rows and columns are as long.
LEMMA OrientationFacts ==
    ASSUME NEW o \in Orientations
    PROVE  /\ o \in {PANEL, CUBE, CUBE_ROTATED_CW}
           /\ o.vertical_increment \in BOOLEAN /\ o.mirror_h \in BOOLEAN
           /\ o.flip_v = TRUE /\ o.bgr = TRUE
<1>1. o \in {PANEL, CUBE, CUBE_ROTATED_CW}
    BY PanelAssumption DEF PanelAssumption
<1>2. /\ PANEL.vertical_increment = FALSE /\ PANEL.mirror_h = FALSE
      /\ PANEL.flip_v = TRUE /\ PANEL.bgr = TRUE
    BY DEF PANEL
<1>3. /\ CUBE.vertical_increment = FALSE /\ CUBE.mirror_h = TRUE
      /\ CUBE.flip_v = TRUE /\ CUBE.bgr = TRUE
    BY DEF PANEL, CUBE
<1>4. /\ CUBE_ROTATED_CW.vertical_increment = TRUE /\ CUBE_ROTATED_CW.mirror_h = FALSE
      /\ CUBE_ROTATED_CW.flip_v = TRUE /\ CUBE_ROTATED_CW.bgr = TRUE
    BY DEF PANEL, CUBE_ROTATED_CW
<1>5. CASE o = PANEL
    BY <1>1, <1>2, <1>5
<1>6. CASE o = CUBE
    BY <1>1, <1>3, <1>6
<1>7. CASE o = CUBE_ROTATED_CW
    BY <1>1, <1>4, <1>7
<1> QED  BY <1>1, <1>5, <1>6, <1>7

\* Column and row of a word on the panel, and the word they are of.
LEMMA ColRow ==
    ASSUME NEW o \in Orientations, NEW q \in Pixels
    PROVE  /\ Col(o, q) \in Columns /\ Row(o, q) \in Rows
           /\ (IF o.vertical_increment THEN Col(o, q) * WIDTH + Row(o, q)
               ELSE Row(o, q) * WIDTH + Col(o, q)) = q
<1>1. /\ q % WIDTH \in 0..WIDTH - 1 /\ q \div WIDTH \in 0..HEIGHT - 1
      /\ (q \div WIDTH) * WIDTH + (q % WIDTH) = q
    BY PanelGrid DEF IsGrid, Pixels
<1>2. Columns = 0..WIDTH - 1 /\ Rows = 0..WIDTH - 1 /\ HEIGHT = WIDTH
    BY Dimensions DEF Columns, Rows
<1> QED  BY <1>1, <1>2 DEF Col, Row

\* Every word has a place of its own.
LEMMA PlacesDiffer ==
    ASSUME NEW o \in Orientations, NEW q \in Pixels, NEW r \in Pixels, Place(o, q) = Place(o, r)
    PROVE  q = r
<1>1. /\ Col(o, q) \in Int /\ Row(o, q) \in Int /\ Col(o, r) \in Int /\ Row(o, r) \in Int
    BY ColRow DEF Columns, Rows
<1>2. WIDTH \in Int /\ HEIGHT \in Int
    BY Dimensions
<1>3. \A a, b, n \in Int : n - 1 - a = n - 1 - b => a = b
    OBVIOUS
<1>4. Col(o, q) = Col(o, r)
  <2>1. CASE o.mirror_h
    <3>1. WIDTH - 1 - Col(o, q) = WIDTH - 1 - Col(o, r)
        BY <2>1 DEF Place
    <3> QED  BY <1>1, <1>2, <1>3, <3>1
  <2>2. CASE ~o.mirror_h
      BY <2>2 DEF Place
  <2> QED  BY <2>1, <2>2
<1>5. Row(o, q) = Row(o, r)
  <2>1. HEIGHT - 1 - Row(o, q) = HEIGHT - 1 - Row(o, r)
      BY OrientationFacts DEF Place
  <2> QED  BY <1>1, <1>2, <1>3, <2>1
<1>6. /\ (IF o.vertical_increment THEN Col(o, q) * WIDTH + Row(o, q)
          ELSE Row(o, q) * WIDTH + Col(o, q)) = q
      /\ (IF o.vertical_increment THEN Col(o, r) * WIDTH + Row(o, r)
          ELSE Row(o, r) * WIDTH + Col(o, r)) = r
    BY ColRow, Zenon
<1> DEFINE word(x, y) == IF o.vertical_increment THEN x * WIDTH + y ELSE y * WIDTH + x
<1>7. word(Col(o, q), Row(o, q)) = q /\ word(Col(o, r), Row(o, r)) = r
    BY <1>6
<1> HIDE DEF word
<1> QED  BY <1>4, <1>5, <1>7

\* The window is the whole panel; the cursor is at a word.
FullWindow(c) == c.cols = <<0, WIDTH - 1>> /\ c.rows = <<0, HEIGHT - 1>>
CursorAt(o, c, q) == c.next_col = Col(o, q) /\ c.next_row = Row(o, q)

\* The cursor goes to the next word.
LEMMA CursorAdvances ==
    ASSUME NEW o \in Orientations, NEW c \in Chips, FullWindow(c), Flags(o, c),
           NEW q \in Pixels, q + 1 \in Pixels, CursorAt(o, c, q)
    PROVE  CursorAt(o, advance_cursor(c), q + 1)
<1> DEFINE a == q % WIDTH
           b == q \div WIDTH
<1>1. /\ q \in Nat /\ WIDTH \in Nat \ {0} /\ HEIGHT = WIDTH
    BY Dimensions DEF Pixels
<1>2. /\ a \in 0..WIDTH - 1 /\ b \in 0..WIDTH - 1
      /\ (q + 1) \div WIDTH \in 0..WIDTH - 1
    BY <1>1, PanelGrid DEF IsGrid, Pixels
<1>3. IF a < WIDTH - 1 THEN (q + 1) % WIDTH = a + 1 /\ (q + 1) \div WIDTH = b
      ELSE (q + 1) % WIDTH = 0 /\ (q + 1) \div WIDTH = b + 1
    BY <1>1, Z3
<1>4. a \in Int /\ b \in Int
    BY <1>2
<1> HIDE DEF a, b
<1>5. ~(a < WIDTH - 1) => b < WIDTH - 1
    BY <1>1, <1>2, <1>3, <1>4
<1>6. c.cols[2] = WIDTH - 1 /\ c.cols[1] = 0 /\ c.rows[2] = WIDTH - 1 /\ c.rows[1] = 0
    BY <1>1 DEF FullWindow
<1>7. CASE o.vertical_increment
  <2>1. c.vertical_increment /\ c.next_row = a /\ c.next_col = b
      BY <1>7 DEF Flags, CursorAt, Col, Row, a, b
  <2>2. Col(o, q + 1) = (q + 1) \div WIDTH /\ Row(o, q + 1) = (q + 1) % WIDTH
      BY <1>7 DEF Col, Row
  <2>3. CASE a < WIDTH - 1
    <3>1. advance_cursor(c) = [c EXCEPT !.next_row = @ + 1]
        BY <1>6, <2>1, <2>3 DEF advance_cursor
    <3> QED  BY <1>3, <2>1, <2>2, <2>3, <3>1 DEF CursorAt, Chips
  <2>4. CASE ~(a < WIDTH - 1)
    <3>1. advance_cursor(c) = [c EXCEPT !.next_row = 0, !.next_col = b + 1]
        BY <1>5, <1>6, <2>1, <2>4 DEF advance_cursor, Chips
    <3> QED  BY <1>3, <2>2, <2>4, <3>1 DEF CursorAt, Chips
  <2> QED  BY <2>3, <2>4
<1>8. CASE ~o.vertical_increment
  <2>1. ~c.vertical_increment /\ c.next_row = b /\ c.next_col = a
      BY <1>8 DEF Flags, CursorAt, Col, Row, a, b
  <2>2. Col(o, q + 1) = (q + 1) % WIDTH /\ Row(o, q + 1) = (q + 1) \div WIDTH
      BY <1>8 DEF Col, Row
  <2>3. CASE a < WIDTH - 1
    <3>1. advance_cursor(c) = [c EXCEPT !.next_col = @ + 1]
        BY <1>6, <2>1, <2>3 DEF advance_cursor
    <3> QED  BY <1>3, <2>1, <2>2, <2>3, <3>1 DEF CursorAt, Chips
  <2>4. CASE ~(a < WIDTH - 1)
    <3>1. advance_cursor(c) = [c EXCEPT !.next_col = 0, !.next_row = b + 1]
        BY <1>5, <1>6, <2>1, <2>4 DEF advance_cursor, Chips
    <3> QED  BY <1>3, <2>2, <2>4, <3>1 DEF CursorAt, Chips
  <2> QED  BY <2>3, <2>4
<1> QED  BY <1>7, <1>8

-----------------------------------------------------------------------------
\* The words before one have reached their places in the chip's memory.
Filled(o, buffer, picture, q) ==
    \A r \in Pixels : r < q => picture[Place(o, r)] = Colour(TRUE, WordAt(buffer, r))

\* The chip in the middle of the framebuffer: q words and d bytes of the next are in.
RamState(o, buffer, c, q, d) ==
    /\ ChipInv(c) /\ FullWindow(c) /\ Flags(o, c)
    /\ c.pending_write_bytes = FB_LEN - (2 * q + d)
    /\ c.pixel_bytes = IF d = 0 THEN <<>> ELSE <<buffer[2 * q]>>
    /\ q \in Pixels => CursorAt(o, c, q)
    /\ Filled(o, buffer, c.rgba, q)

\* What the owner sees and the command are left alone.
Keeps(c, e) ==
    e.visible = c.visible /\ e.display_on = c.display_on /\ e.args_expected = c.args_expected

\* A word has two bytes in the framebuffer.
LEMMA BytesOfWord ==
    ASSUME NEW q \in Pixels
    PROVE  /\ q \in Nat /\ 2 * q \in 0..FB_LEN - 1 /\ 2 * q + 1 \in 0..FB_LEN - 1
           /\ FB_LEN - (2 * q + 0) > 0 /\ FB_LEN - (2 * q + 1) > 0
           /\ FB_LEN - (2 * q + 0) - 1 = FB_LEN - (2 * q + 1)
           /\ FB_LEN - (2 * q + 1) - 1 = FB_LEN - (2 * (q + 1) + 0)
<1> DEFINE n == WIDTH * HEIGHT
<1>1. n \in Nat /\ FB_LEN = n * 2
    BY Dimensions
<1>2. q \in Nat /\ q < n
    BY <1>1 DEF Pixels
<1> HIDE DEF n
<1> QED  BY <1>1, <1>2

\* The first byte of a word waits for the second.
LEMMA FirstByte ==
    ASSUME NEW o \in Orientations, NEW buffer \in Buffers, NEW c, NEW q \in Pixels,
           RamState(o, buffer, c, q, 0)
    PROVE  /\ RamState(o, buffer, RamByte(c, buffer[2 * q]), q, 1)
           /\ Keeps(c, RamByte(c, buffer[2 * q]))
<1> DEFINE byte == buffer[2 * q]
           d == [c EXCEPT !.pixel_bytes = <<byte>>, !.pending_write_bytes = @ - 1]
<1>1. byte \in Bytes
    BY BytesOfWord DEF Buffers
<1>2. /\ ChipInv(c) /\ FullWindow(c) /\ Flags(o, c) /\ CursorAt(o, c, q)
      /\ c.pending_write_bytes = FB_LEN - (2 * q + 0) /\ c.pixel_bytes = <<>>
      /\ Filled(o, buffer, c.rgba, q)
    BY DEF RamState
<1>3. RamByte(c, byte) = d
  <2>1. Append(<<>>, byte) = <<byte>> /\ Len(<<byte>>) < 2
      OBVIOUS
  <2> HIDE DEF byte
  <2> QED  BY <1>2, <2>1 DEF RamByte, ChipInv, Chips
<1>4. ChipInv(d) /\ d.pending_write_bytes = c.pending_write_bytes - 1
  <2>1. c.pending_write_bytes > 0
      BY <1>2, BytesOfWord
  <2> QED  BY <1>1, <1>2, <1>3, <2>1, RamByteType
<1>5. d.pending_write_bytes = FB_LEN - (2 * q + 1)
    BY <1>2, <1>4, BytesOfWord
<1> HIDE DEF byte
<1>6. /\ d.pixel_bytes = <<byte>> /\ d.rgba = c.rgba /\ d.visible = c.visible
      /\ d.display_on = c.display_on /\ d.args_expected = c.args_expected
      /\ d.cols = c.cols /\ d.rows = c.rows /\ d.next_col = c.next_col /\ d.next_row = c.next_row
      /\ d.vertical_increment = c.vertical_increment /\ d.mirror_h = c.mirror_h
      /\ d.flip_v = c.flip_v /\ d.bgr = c.bgr
    BY <1>2 DEF ChipInv, Chips
<1> HIDE DEF d
<1>7. FullWindow(d) /\ Flags(o, d) /\ CursorAt(o, d, q) /\ Filled(o, buffer, d.rgba, q)
  <2>1. FullWindow(d)
      BY <1>2, <1>6 DEF FullWindow
  <2>2. Flags(o, d)
      BY <1>2, <1>6 DEF Flags
  <2>3. CursorAt(o, d, q)
      BY <1>2, <1>6 DEF CursorAt
  <2> QED  BY <1>2, <1>6, <2>1, <2>2, <2>3
<1>8. RamState(o, buffer, d, q, 1)
    BY <1>4, <1>5, <1>6, <1>7 DEF RamState, byte
<1> QED  BY <1>3, <1>6, <1>8 DEF Keeps, byte

\* The second paints the word at its place and moves on.
LEMMA SecondByte ==
    ASSUME NEW o \in Orientations, NEW buffer \in Buffers, NEW c, NEW q \in Pixels,
           RamState(o, buffer, c, q, 1)
    PROVE  /\ RamState(o, buffer, RamByte(c, buffer[2 * q + 1]), q + 1, 0)
           /\ Keeps(c, RamByte(c, buffer[2 * q + 1]))
<1> DEFINE first == buffer[2 * q]
           byte == buffer[2 * q + 1]
           e == [c EXCEPT !.pixel_bytes = <<>>, !.pending_write_bytes = @ - 1]
           word == WordAt(buffer, q)
           p == Painted(e, word)
           f == advance_cursor(p)
<1>1. first \in Bytes /\ byte \in Bytes /\ word \in Words /\ word = 256 * first + byte
  <2>1. first \in Bytes /\ byte \in Bytes
      BY BytesOfWord DEF Buffers
  <2>2. word = 256 * first + byte
      BY DEF WordAt
  <2> HIDE DEF first, byte, word
  <2> QED  BY <2>1, <2>2, WordOfBytes
<1>2. /\ ChipInv(c) /\ FullWindow(c) /\ Flags(o, c) /\ CursorAt(o, c, q)
      /\ c.pending_write_bytes = FB_LEN - (2 * q + 1) /\ c.pixel_bytes = <<first>>
      /\ Filled(o, buffer, c.rgba, q)
    BY DEF RamState
<1>3. c.pending_write_bytes > 0 /\ c.pending_write_bytes - 1 = FB_LEN - (2 * (q + 1) + 0)
    BY <1>2, BytesOfWord
<1>4. ChipInv(RamByte(c, byte)) /\ RamByte(c, byte).pending_write_bytes = c.pending_write_bytes - 1
    BY <1>1, <1>2, <1>3, RamByteType
<1> HIDE DEF first, byte, word
<1>5. /\ e \in Chips /\ e.pixel_bytes = <<>> /\ e.rgba = c.rgba /\ e.visible = c.visible
      /\ e.display_on = c.display_on /\ e.args_expected = c.args_expected
      /\ e.cols = c.cols /\ e.rows = c.rows /\ e.next_col = c.next_col /\ e.next_row = c.next_row
      /\ e.vertical_increment = c.vertical_increment /\ e.mirror_h = c.mirror_h
      /\ e.flip_v = c.flip_v /\ e.bgr = c.bgr
  <2>1. <<>> \in Seq(Bytes)
      OBVIOUS
  <2>2. c.pending_write_bytes - 1 \in Owed
    <3>1. c.pending_write_bytes \in Owed
        BY <1>2 DEF ChipInv, Chips
    <3> QED  BY <1>3, <3>1, Dimensions DEF Owed
  <2> QED  BY <1>2, <2>1, <2>2 DEF ChipInv, Chips
<1>6. RamByte(c, byte) = write_pixel(e, word)
  <2> DEFINE bytes == Append(c.pixel_bytes, byte)
             d == [c EXCEPT !.pixel_bytes = bytes, !.pending_write_bytes = @ - 1]
  <2>1. <<first>> \in Seq(Bytes) /\ Len(<<first>>) = 1 /\ <<first>>[1] = first
      BY <1>1
  <2>2. Extends(bytes, <<first>>, byte)
      BY <1>1, <1>2, <2>1, Appended
  <2>3. Len(bytes) = 2 /\ bytes[1] = first /\ bytes[2] = byte
      BY <2>1, <2>2 DEF Extends
  <2>4. RamByte(c, byte) = IF Len(d.pixel_bytes) < 2 THEN d
                           ELSE write_pixel([d EXCEPT !.pixel_bytes = <<>>],
                                            256 * d.pixel_bytes[1] + d.pixel_bytes[2])
      BY DEF RamByte
  <2> HIDE DEF bytes
  <2>5. d.pixel_bytes = bytes /\ [d EXCEPT !.pixel_bytes = <<>>] = e
      BY <1>2 DEF ChipInv, Chips, e
  <2> HIDE DEF d
  <2>6. ~(Len(d.pixel_bytes) < 2)
      BY <2>3, <2>5, SMTT(30)
  <2>7. 256 * d.pixel_bytes[1] + d.pixel_bytes[2] = word
      BY <1>1, <2>3, <2>5
  <2> QED  BY <2>4, <2>5, <2>6, <2>7, Zenon
<1> HIDE DEF e
<1>7. RamByte(c, byte) = f
    BY <1>5, <1>6, WritePixel
<1>8. /\ p \in Chips /\ p.pixel_bytes = <<>> /\ p.cols = c.cols /\ p.rows = c.rows
      /\ p.args_expected = c.args_expected
    BY <1>1, <1>5, PaintedType
<1>9. /\ p.rgba = [c.rgba EXCEPT ![Spot(e)] = Colour(e.bgr, word)]
      /\ p.visible = c.visible /\ p.display_on = c.display_on
      /\ p.next_col = c.next_col /\ p.next_row = c.next_row
      /\ p.vertical_increment = c.vertical_increment /\ p.mirror_h = c.mirror_h
      /\ p.flip_v = c.flip_v /\ p.bgr = c.bgr
  <2> DEFINE picture == [e.rgba EXCEPT ![Spot(e)] = Colour(e.bgr, word)]
  <2> HIDE DEF picture
  <2>1. p = [e EXCEPT !.rgba = picture]
      BY DEF Painted, picture
  <2> HIDE DEF p
  <2>2. /\ p.rgba = picture
        /\ p.visible = e.visible /\ p.display_on = e.display_on
        /\ p.next_col = e.next_col /\ p.next_row = e.next_row
        /\ p.vertical_increment = e.vertical_increment /\ p.mirror_h = e.mirror_h
        /\ p.flip_v = e.flip_v /\ p.bgr = e.bgr
      BY <1>5, <2>1 DEF Chips
  <2> QED  BY <1>5, <2>2 DEF picture
<1>10. Spot(e) = Place(o, q) /\ e.bgr = TRUE
    BY <1>2, <1>5, OrientationFacts DEF Spot, Place, CursorAt, Flags
<1> HIDE DEF p
<1>11. WindowInv(p)
    BY <1>2, <1>8 DEF WindowInv, ChipInv
<1>12. CursorMoved(p, f)
    BY <1>8, <1>11, AdvanceMoves
<1>13. q + 1 \in Pixels => CursorAt(o, f, q + 1)
  <2>1. FullWindow(p)
      BY <1>2, <1>8 DEF FullWindow
  <2>2. Flags(o, p)
      BY <1>2, <1>9 DEF Flags
  <2>3. CursorAt(o, p, q)
      BY <1>2, <1>9 DEF CursorAt
  <2> QED  BY <1>8, <2>1, <2>2, <2>3, CursorAdvances
<1> HIDE DEF f
<1>14. Filled(o, buffer, p.rgba, q + 1)
  <2> SUFFICES ASSUME NEW r \in Pixels, r < q + 1
               PROVE  p.rgba[Place(o, r)] = Colour(TRUE, WordAt(buffer, r))
      BY DEF Filled
  <2>1. c.rgba \in [Positions -> Colours] /\ Spot(e) \in Positions
      BY <1>2, <1>5, SpotType DEF ChipInv, Chips, Pictures
  <2>2. Place(o, r) \in Positions
    <3>1. Col(o, r) \in Columns /\ Row(o, r) \in Rows
        BY ColRow
    <3>2. \A x \in Columns : WIDTH - 1 - x \in Columns
        BY Dimensions DEF Columns
    <3>3. \A y \in Rows : HEIGHT - 1 - y \in Rows
        BY Dimensions DEF Rows
    <3>4. Positions = Columns \X Rows
        BY DEF Positions, Columns, Rows
    <3> QED  BY <3>1, <3>2, <3>3, <3>4 DEF Place
  <2>3. CASE r = q
      BY <1>9, <1>10, <2>1, <2>3 DEF word
  <2>4. CASE r # q
    <3>1. r < q
        BY <2>4 DEF Pixels
    <3>2. Place(o, r) # Place(o, q)
        BY <2>4, PlacesDiffer
    <3>3. c.rgba[Place(o, r)] = Colour(TRUE, WordAt(buffer, r))
        BY <1>2, <3>1 DEF Filled
    <3> QED  BY <1>9, <1>10, <2>1, <2>2, <3>2, <3>3
  <2> QED  BY <2>3, <2>4
<1>15. /\ FullWindow(f) /\ Flags(o, f) /\ f.pixel_bytes = <<>> /\ Keeps(c, f)
       /\ Filled(o, buffer, f.rgba, q + 1)
  <2>1. FullWindow(f)
      BY <1>2, <1>8, <1>12 DEF FullWindow, CursorMoved
  <2>2. Flags(o, f)
      BY <1>2, <1>9, <1>12 DEF Flags, CursorMoved
  <2>3. f.pixel_bytes = <<>> /\ Keeps(c, f)
      BY <1>8, <1>9, <1>12 DEF Keeps, CursorMoved
  <2> QED  BY <1>12, <1>14, <2>1, <2>2, <2>3 DEF CursorMoved
<1>16. ChipInv(f) /\ f.pending_write_bytes = FB_LEN - (2 * (q + 1) + 0)
    BY <1>3, <1>4, <1>7
<1>17. RamState(o, buffer, f, q + 1, 0)
    BY <1>13, <1>15, <1>16 DEF RamState
<1> QED  BY <1>7, <1>15, <1>17 DEF byte

-----------------------------------------------------------------------------
\* A picture that all the words of the framebuffer have reached is the scene, as
\* the orientation shows it.
LEMMA WholePicture ==
    ASSUME NEW o \in Orientations, NEW buffer, NEW s, PictureIn(buffer, s),
           NEW picture \in Pictures, Filled(o, buffer, picture, WIDTH * HEIGHT)
    PROVE  picture = Seen(o, s)
<1>1. \A x \in Columns : WIDTH - 1 - x \in Columns /\ WIDTH - 1 - (WIDTH - 1 - x) = x
    BY Dimensions DEF Columns
<1>2. Columns = Rows /\ HEIGHT = WIDTH /\ WIDTH \in Nat
    BY Dimensions DEF Columns, Rows
<1>3. Positions = Columns \X Rows
    BY DEF Positions, Columns, Rows
<1>4. ASSUME NEW a \in Columns, NEW b \in Rows
      PROVE  LET r == b * WIDTH + a IN
             /\ r \in Pixels /\ r % WIDTH = a /\ r \div WIDTH = b
             /\ picture[Place(o, r)] = Straight(s)[<<a, b>>]
  <2> DEFINE r == b * WIDTH + a
  <2>1. r \in 0..WIDTH * HEIGHT - 1 /\ r % WIDTH = a /\ r \div WIDTH = b
      BY PanelGrid DEF IsGrid, Columns, Rows
  <2>2. r \in Pixels
      BY <2>1 DEF Pixels
  <2>3. r < WIDTH * HEIGHT
    <3> HIDE DEF r
    <3> QED  BY <2>1, Dimensions
  <2>4. Straight(s)[<<a, b>>] = Colour(TRUE, WordAt(buffer, r))
      BY DEF PictureIn
  <2> HIDE DEF r
  <2>5. picture[Place(o, r)] = Colour(TRUE, WordAt(buffer, r))
      BY <2>2, <2>3 DEF Filled
  <2> QED  BY <2>1, <2>2, <2>4, <2>5 DEF r
<1> DEFINE P == Seen(o, s)
<1>5. /\ o \in {PANEL, CUBE, CUBE_ROTATED_CW}
      /\ PANEL # CUBE /\ PANEL # CUBE_ROTATED_CW /\ CUBE # CUBE_ROTATED_CW
      /\ PANEL.vertical_increment = FALSE /\ PANEL.mirror_h = FALSE /\ PANEL.flip_v = TRUE
      /\ CUBE.vertical_increment = FALSE /\ CUBE.mirror_h = TRUE /\ CUBE.flip_v = TRUE
      /\ CUBE_ROTATED_CW.vertical_increment = TRUE /\ CUBE_ROTATED_CW.mirror_h = FALSE
      /\ CUBE_ROTATED_CW.flip_v = TRUE
  <2>1. PANEL.vertical_increment = FALSE /\ PANEL.mirror_h = FALSE /\ PANEL.flip_v = TRUE
      BY DEF PANEL
  <2>2. CUBE.vertical_increment = FALSE /\ CUBE.mirror_h = TRUE /\ CUBE.flip_v = TRUE
      BY DEF PANEL, CUBE
  <2>3. /\ CUBE_ROTATED_CW.vertical_increment = TRUE /\ CUBE_ROTATED_CW.mirror_h = FALSE
        /\ CUBE_ROTATED_CW.flip_v = TRUE
      BY DEF PANEL, CUBE_ROTATED_CW
  <2> QED  BY <2>1, <2>2, <2>3, OrientationFacts
<1> DEFINE direct == FlippedUpDown(Straight(s))
           cube == MirroredLeftRight(direct)
<1>6. /\ o = PANEL => P = direct
      /\ o = CUBE => P = cube
      /\ o = CUBE_ROTATED_CW => P = RotatedClockwise(cube)
    BY <1>5 DEF Seen
<1>7. ASSUME NEW x \in Columns, NEW y \in Rows
      PROVE  /\ direct[<<x, y>>] = Straight(s)[<<x, HEIGHT - 1 - y>>]
             /\ cube[<<x, y>>] = direct[<<WIDTH - 1 - x, y>>]
             /\ RotatedClockwise(cube)[<<x, y>>] = cube[<<y, HEIGHT - 1 - x>>]
    BY <1>3 DEF FlippedUpDown, MirroredLeftRight, RotatedClockwise
<1>8. DOMAIN P = Positions /\ P = [p \in Positions |-> P[p]]
  <2>1. /\ DOMAIN direct = Positions /\ direct = [p \in Positions |-> direct[p]]
      BY DEF FlippedUpDown
  <2>2. /\ DOMAIN cube = Positions /\ cube = [p \in Positions |-> cube[p]]
      BY DEF MirroredLeftRight
  <2>3. /\ DOMAIN RotatedClockwise(cube) = Positions
        /\ RotatedClockwise(cube) = [p \in Positions |-> RotatedClockwise(cube)[p]]
      BY DEF RotatedClockwise
  <2> HIDE DEF direct, cube, P
  <2> QED  BY <1>5, <1>6, <2>1, <2>2, <2>3
<1> HIDE DEF direct, cube, P
<1>9. ASSUME NEW x \in Columns, NEW y \in Rows
      PROVE  picture[<<x, y>>] = P[<<x, y>>]
  <2> DEFINE mx == WIDTH - 1 - x
             my == HEIGHT - 1 - y
  <2>1. /\ mx \in Columns /\ my \in Rows /\ WIDTH - 1 - mx = x /\ HEIGHT - 1 - my = y
        /\ x \in Rows /\ mx \in Rows /\ my \in Columns /\ y \in Columns
        /\ mx = HEIGHT - 1 - x /\ my = WIDTH - 1 - y
      BY <1>1, <1>2
  <2> HIDE DEF mx, my
  <2>2. CASE o = PANEL
    <3> DEFINE r == my * WIDTH + x
    <3>1. r % WIDTH = x /\ r \div WIDTH = my /\ picture[Place(o, r)] = Straight(s)[<<x, my>>]
        BY <1>4, <2>1
    <3> HIDE DEF r
    <3>2. Place(o, r) = <<x, HEIGHT - 1 - my>>
        BY <1>5, <2>2, <3>1 DEF Place, Col, Row
    <3>3. P[<<x, y>>] = Straight(s)[<<x, my>>]
        BY <1>6, <1>7, <2>2, ZenonT(60) DEF my
    <3> QED  BY <2>1, <3>1, <3>2, <3>3
  <2>3. CASE o = CUBE
    <3> DEFINE r == my * WIDTH + mx
    <3>1. r % WIDTH = mx /\ r \div WIDTH = my /\ picture[Place(o, r)] = Straight(s)[<<mx, my>>]
        BY <1>4, <2>1
    <3> HIDE DEF r
    <3>2. Place(o, r) = <<WIDTH - 1 - mx, HEIGHT - 1 - my>>
        BY <1>5, <2>3, <3>1 DEF Place, Col, Row
    <3>3. P[<<x, y>>] = Straight(s)[<<mx, my>>]
      <4>1. P[<<x, y>>] = direct[<<mx, y>>]
          BY <1>6, <1>7, <2>3 DEF mx
      <4>2. direct[<<mx, y>>] = Straight(s)[<<mx, my>>]
          BY <1>7, <2>1 DEF my
      <4> QED  BY <4>1, <4>2
    <3> QED  BY <2>1, <3>1, <3>2, <3>3
  <2>4. CASE o = CUBE_ROTATED_CW
    <3> DEFINE r == x * WIDTH + my
    <3>1. r % WIDTH = my /\ r \div WIDTH = x /\ picture[Place(o, r)] = Straight(s)[<<my, x>>]
        BY <1>4, <2>1
    <3> HIDE DEF r
    <3>2. Place(o, r) = <<x, HEIGHT - 1 - my>>
        BY <1>5, <2>4, <3>1 DEF Place, Col, Row
    <3>3. P[<<x, y>>] = Straight(s)[<<my, x>>]
      <4>1. P[<<x, y>>] = cube[<<y, mx>>]
        <5>1. RotatedClockwise(cube)[<<x, y>>] = cube[<<y, HEIGHT - 1 - x>>]
            BY <1>7
        <5> QED  BY <1>6, <2>1, <2>4, <5>1
      <4>2. cube[<<y, mx>>] = direct[<<my, mx>>]
        <5>1. y \in Columns /\ mx \in Rows
            BY <2>1
        <5>2. cube[<<y, mx>>] = direct[<<WIDTH - 1 - y, mx>>]
            BY <1>7, <5>1
        <5> QED  BY <2>1, <5>2
      <4>3. direct[<<my, mx>>] = Straight(s)[<<my, x>>]
          BY <1>1, <1>2, <1>7, <2>1, ZenonT(60)
      <4> QED  BY <4>1, <4>2, <4>3
    <3> QED  BY <2>1, <3>1, <3>2, <3>3
  <2> QED  BY <1>5, <2>2, <2>3, <2>4
<1>10. picture = [p \in Positions |-> picture[p]]
    BY DEF Pictures
<1>11. \A p \in Positions : picture[p] = P[p]
    BY <1>3, <1>9
<1> QED  BY <1>8, <1>10, <1>11 DEF P

\* A byte of the framebuffer takes the chip to the next.
RamAt(o, buffer, c, m) == RamState(o, buffer, c, m \div 2, m % 2)

\* It is handled as one of a pixel and keeps the flags and the window.
LEMMA NextByte ==
    ASSUME NEW o \in Orientations, NEW buffer \in Buffers, NEW c, NEW m \in 0..FB_LEN - 1,
           RamAt(o, buffer, c, m)
    PROVE  /\ RamAt(o, buffer, RamByte(c, buffer[m]), m + 1)
           /\ Keeps(c, RamByte(c, buffer[m]))
<1> DEFINE q == m \div 2
           n == WIDTH * HEIGHT
<1>1. n \in Nat /\ FB_LEN = n * 2
    BY Dimensions
<1>2. m \in Nat /\ m < n * 2
    BY <1>1
<1> HIDE DEF n
<1>3. q \in 0..n - 1 /\ m % 2 \in {0, 1} /\ m = 2 * q + (m % 2)
    BY <1>1, <1>2
<1>4. q \in Pixels
    BY <1>3 DEF Pixels, n
<1>5. RamState(o, buffer, c, q, m % 2)
    BY DEF RamAt
<1> HIDE DEF q
<1>6. CASE m % 2 = 0
  <2>1. m = 2 * q /\ (m + 1) \div 2 = q /\ (m + 1) % 2 = 1
      BY <1>3, <1>6
  <2> QED  BY <1>4, <1>5, <1>6, <2>1, FirstByte DEF RamAt
<1>7. CASE m % 2 = 1
  <2>1. m = 2 * q + 1 /\ (m + 1) \div 2 = q + 1 /\ (m + 1) % 2 = 0
      BY <1>3, <1>7
  <2> QED  BY <1>4, <1>5, <1>7, <2>1, SecondByte DEF RamAt
<1> QED  BY <1>3, <1>6, <1>7

\* Bytes are the framebuffer's from one on.
IsChunk(buffer, m, bytes) ==
    /\ bytes \in Seq(Bytes) /\ Len(bytes) > 0 /\ m + Len(bytes) <= FB_LEN
    /\ \A i \in 1..Len(bytes) : bytes[i] = buffer[m + i - 1]

TakesChunk(o, buffer, c, m, bytes) ==
    \E d : /\ RamAt(o, buffer, d, m + Len(bytes)) /\ Keeps(c, d)
           /\ Received(c, 1, bytes) =
                 IF m + Len(bytes) = FB_LEN THEN present_display(d) ELSE d

\* What a chunk of the framebuffer makes of the chip; at the end all of it is in
\* and is presented.
LEMMA ReceivedChunk ==
    ASSUME NEW o \in Orientations, NEW buffer \in Buffers, NEW c, NEW m \in 0..FB_LEN - 1,
           RamAt(o, buffer, c, m), NEW bytes, IsChunk(buffer, m, bytes)
    PROVE  TakesChunk(o, buffer, c, m, bytes)
<1> USE DEF IsChunk
<1> DEFINE L == Len(bytes)
<1>0. L \in Nat /\ m \in Nat /\ FB_LEN \in Nat
    BY Dimensions
<1>1. m % 2 \in {0, 1} /\ 2 * (m \div 2) + (m % 2) = m
    BY <1>0
<1>2. c.pending_write_bytes > 0
  <2>1. c.pending_write_bytes = FB_LEN - (2 * (m \div 2) + (m % 2))
      BY DEF RamAt, RamState
  <2> QED  BY <1>0, <1>1, <2>1
<1>3. PICK g : /\ Bytewise(g, c, 1, c.pending_write_bytes > 0, bytes)
               /\ Received(c, 1, bytes) = Completed(g[L], 1, c.pending_write_bytes > 0)
    BY <1>0, ReceivedBytewise
<1> DEFINE S == {k \in 0..L : RamAt(o, buffer, g[k], m + k) /\ Keeps(c, g[k])}
<1>4. 0 \in S
  <2>1. g[0] = c
      BY <1>3 DEF Bytewise
  <2>2. m + 0 = m /\ 0 \in 0..L
      BY <1>0
  <2> QED  BY <2>1, <2>2 DEF Keeps
<1>5. ASSUME NEW k \in 0..L - 1, k \in S PROVE k + 1 \in S
  <2>1. k + 1 \in 1..L /\ k + 1 - 1 = k /\ m + (k + 1) - 1 = m + k /\ m + (k + 1) = m + k + 1
        /\ m + k \in 0..FB_LEN - 1 /\ k + 1 \in 0..L
      BY <1>0
  <2>2. g[k + 1] = Handled(g[k + 1 - 1], 1, c.pending_write_bytes > 0, bytes[k + 1])
      BY <1>3, <2>1 DEF Bytewise
  <2>3. bytes[k + 1] = buffer[m + k]
      BY <2>1
  <2>4. g[k + 1] = RamByte(g[k], buffer[m + k])
      BY <1>2, <2>1, <2>2, <2>3 DEF Handled
  <2>5. RamAt(o, buffer, g[k], m + k) /\ Keeps(c, g[k])
      BY <1>5
  <2>6. RamAt(o, buffer, g[k + 1], m + k + 1) /\ Keeps(g[k], g[k + 1])
      BY <2>1, <2>4, <2>5, NextByte
  <2> QED  BY <2>1, <2>5, <2>6 DEF Keeps
<1> HIDE DEF S
<1>6. \A k \in 0..L : k \in S
    BY <1>0, <1>4, <1>5, UpTo
<1>7. RamAt(o, buffer, g[L], m + L) /\ Keeps(c, g[L])
    BY <1>0, <1>6 DEF S
<1>8. Completed(g[L], 1, c.pending_write_bytes > 0) =
         IF m + L = FB_LEN THEN present_display(g[L]) ELSE g[L]
  <2> DEFINE t == m + L
  <2>1. t \in Nat /\ t <= FB_LEN
      BY <1>0
  <2>2. /\ g[L].pending_write_bytes = FB_LEN - (2 * (t \div 2) + (t % 2))
        /\ g[L].pixel_bytes = IF t % 2 = 0 THEN <<>> ELSE <<buffer[2 * (t \div 2)]>>
      BY <1>7 DEF RamAt, RamState
  <2>3. 2 * (t \div 2) + (t % 2) = t
      BY <2>1
  <2>4. FB_LEN % 2 = 0
    <3> DEFINE n == WIDTH * HEIGHT
    <3>1. n \in Nat /\ FB_LEN = n * 2
        BY Dimensions
    <3> HIDE DEF n
    <3> QED  BY <3>1
  <2> HIDE DEF t
  <2>5. g[L].pending_write_bytes = 0 <=> t = FB_LEN
      BY <1>0, <2>1, <2>2, <2>3
  <2> HIDE DEF L
  <2> QED  BY <1>2, <2>2, <2>4, <2>5 DEF Completed, t
<1> QED  BY <1>3, <1>7, <1>8 DEF TakesChunk

-----------------------------------------------------------------------------
\* A call of the driver: init or a flush, with what it works on.
CallInv(call) ==
    /\ call.doing \in {"init", "flush"} /\ call.orientation \in Orientations
    /\ call.fb \in Buffers /\ PictureIn(call.fb, call.scene)
    /\ call.doing = "init" => call.fb = Zeros

CommandsOf(call) ==
    IF call.doing = "init" THEN InitCommands(call.orientation) ELSE FlushCommands(call.fb)

\* How far a call is: at 0 the orientation is about to be set, at 1 to 3 the
\* columns, the rows and the framebuffer are sent, at 4 init turns the display on.
Stage(call, k) == IF call.doing = "init" THEN k - 17 ELSE k

Data(buffer) == [i \in 1..FB_LEN |-> buffer[i - 1]]

PlainSetup == {\hFD, \hAE, \hB3, \hCA, \hA2, \hA1, \hB5, \hAB, \hB4, \hC1, \hC7, \hB1, \hB6,
               \hBE, \hA6}

\* What is sent at a stage.
IsSent(call, n, e) ==
    /\ n <= 4 /\ (call.doing = "flush" => n \in 1..3)
    /\ n < 0 => e.command \in PlainSetup /\ Len(e.args) = arg_count_for_cmd(e.command)
    /\ n = 0 => e = Command(\hA0, <<remap_byte(call.orientation)>>)
    /\ n = 1 => e = Command(\h15, <<0, WIDTH - 1>>)
    /\ n = 2 => e = Command(\h75, <<0, HEIGHT - 1>>)
    /\ n = 3 => e = Command(\h5C, Data(call.fb))
    /\ n = 4 => e = Command(\hAF, <<>>)

\* The settings before the orientation change nothing that is looked at here.
LEMMA SetupElements ==
    ASSUME NEW o, NEW k \in 1..17
    PROVE  /\ k < 17 => /\ Setup(o)[k].command \in PlainSetup
                        /\ Len(Setup(o)[k].args) = arg_count_for_cmd(Setup(o)[k].command)
           /\ k = 17 => Setup(o)[k] = Command(\hA0, <<remap_byte(o)>>)
<1> DEFINE plain(e) == e.command \in PlainSetup /\ Len(e.args) = arg_count_for_cmd(e.command)
<1>1. ASSUME NEW b \in {\hAE, \hA6} PROVE plain(Command(b, <<>>))
    BY DEF Command, PlainSetup, arg_count_for_cmd
<1>2. ASSUME NEW b \in {\hFD, \hB3, \hCA, \hA1, \hA2, \hB5, \hAB, \hC7, \hB1, \hB6, \hBE}, NEW x
      PROVE  plain(Command(b, <<x>>))
    BY DEF Command, PlainSetup, arg_count_for_cmd
<1>3. ASSUME NEW b \in {\hB4, \hC1}, NEW x, NEW y, NEW z PROVE plain(Command(b, <<x, y, z>>))
    BY DEF Command, PlainSetup, arg_count_for_cmd
<1> HIDE DEF plain
<1>4. /\ plain(Command(\hFD, <<\h12>>)) /\ plain(Command(\hFD, <<\hB1>>)) /\ plain(Command(\hAE, <<>>))
      /\ plain(Command(\hB3, <<\hF1>>)) /\ plain(Command(\hCA, <<\h7F>>)) /\ plain(Command(\hA2, <<0>>))
      /\ plain(Command(\hA1, <<0>>)) /\ plain(Command(\hB5, <<0>>)) /\ plain(Command(\hAB, <<1>>))
      /\ plain(Command(\hB4, <<\hA0, \hB5, \h55>>)) /\ plain(Command(\hC1, <<\hC8, \h80, \hC8>>))
      /\ plain(Command(\hC7, <<\h0F>>)) /\ plain(Command(\hB1, <<\h32>>)) /\ plain(Command(\hB6, <<1>>))
      /\ plain(Command(\hBE, <<5>>)) /\ plain(Command(\hA6, <<>>))
    BY <1>1, <1>2, <1>3
<1>5. k < 17 => plain(Setup(o)[k])
  <2>1. /\ plain(Setup(o)[1]) /\ plain(Setup(o)[2]) /\ plain(Setup(o)[3]) /\ plain(Setup(o)[4])
        /\ plain(Setup(o)[5]) /\ plain(Setup(o)[6]) /\ plain(Setup(o)[7]) /\ plain(Setup(o)[8])
      BY <1>4 DEF Setup
  <2>2. /\ plain(Setup(o)[9]) /\ plain(Setup(o)[10]) /\ plain(Setup(o)[11]) /\ plain(Setup(o)[12])
        /\ plain(Setup(o)[13]) /\ plain(Setup(o)[14]) /\ plain(Setup(o)[15]) /\ plain(Setup(o)[16])
      BY <1>4 DEF Setup
  <2>3. k < 17 => k \in {1, 2, 3, 4, 5, 6, 7, 8} \/ k \in {9, 10, 11, 12, 13, 14, 15, 16}
      OBVIOUS
  <2> QED  BY <2>1, <2>2, <2>3
<1>6. Setup(o)[17] = Command(\hA0, <<remap_byte(o)>>)
    BY DEF Setup
<1> QED  BY <1>5, <1>6 DEF plain

\* The commands of a call are those of its stages.
LEMMA CommandsOfCall ==
    ASSUME NEW call, CallInv(call)
    PROVE  /\ CommandsOf(call) \in Seq(Commands)
           /\ Len(CommandsOf(call)) = IF call.doing = "init" THEN 21 ELSE 3
           /\ \A k \in 1..Len(CommandsOf(call)) : IsSent(call, Stage(call, k), CommandsOf(call)[k])
<1>1. /\ call.doing \in {"init", "flush"} /\ call.orientation \in Orientations
      /\ call.fb \in Buffers
    BY DEF CallInv
<1>2. CASE call.doing = "flush"
  <2> DEFINE f == FlushCommands(call.fb)
  <2>1. /\ f \in Seq(Commands) /\ Len(f) = 3
        /\ f[1] = Command(\h15, <<0, WIDTH - 1>>) /\ f[2] = Command(\h75, <<0, HEIGHT - 1>>)
        /\ f[3] = Command(\h5C, Data(call.fb))
      BY <1>1, FlushCommandsType DEF Data
  <2>2. CommandsOf(call) = f
      BY <1>2 DEF CommandsOf
  <2> HIDE DEF f
  <2>3. ASSUME NEW k \in 1..3 PROVE IsSent(call, Stage(call, k), f[k])
    <3>1. Stage(call, k) = k
        BY <1>2 DEF Stage
    <3> QED  BY <1>2, <2>1, <3>1 DEF IsSent
  <2> QED  BY <1>2, <2>1, <2>2, <2>3
<1>3. CASE call.doing = "init"
  <2> DEFINE o == call.orientation
             g == InitCommands(o)
             f == FlushCommands(Zeros)
  <2>1. g \in Seq(Commands) /\ Len(g) = 21 /\ InitIs(o)
      BY InitCommandsType, Zenon
  <2>2. call.fb = Zeros
      BY <1>3 DEF CallInv
  <2>3. /\ f[1] = Command(\h15, <<0, WIDTH - 1>>) /\ f[2] = Command(\h75, <<0, HEIGHT - 1>>)
        /\ f[3] = Command(\h5C, Data(Zeros))
      BY ZerosType, FlushCommandsType DEF Data
  <2>4. CommandsOf(call) = g
      BY <1>3 DEF CommandsOf
  <2>5. ASSUME NEW k \in 1..21 PROVE IsSent(call, Stage(call, k), g[k])
    <3>1. Stage(call, k) = k - 17
        BY <1>3 DEF Stage
    <3>2. call.doing # "flush"
        BY <1>3
    <3>3. CASE k \in 1..17
      <4>1. g[k] = Setup(o)[k]
          BY <2>1, <3>3 DEF InitIs
      <4> HIDE DEF o, g
      <4>2. /\ k < 17 => /\ g[k].command \in PlainSetup
                         /\ Len(g[k].args) = arg_count_for_cmd(g[k].command)
            /\ k = 17 => g[k] = Command(\hA0, <<remap_byte(o)>>)
          BY <3>3, <4>1, SetupElements
      <4> QED  BY <3>1, <3>2, <3>3, <4>2 DEF IsSent, o
    <3>4. CASE k \in 18..20
      <4>1. k - 17 \in 1..3 /\ 17 + (k - 17) = k
          BY <3>4
      <4>2. g[k] = f[k - 17]
        <5>1. \A i \in 1..3 : g[17 + i] = f[i]
            BY <2>1 DEF InitIs
        <5> QED  BY <4>1, <5>1
      <4> HIDE DEF f, g
      <4> QED  BY <2>2, <2>3, <3>1, <3>2, <4>1, <4>2 DEF IsSent
    <3>5. CASE k = 21
      <4>1. g[21] = Command(\hAF, <<>>)
          BY <2>1 DEF InitIs
      <4> HIDE DEF g
      <4> QED  BY <3>1, <3>2, <3>5, <4>1 DEF IsSent
    <3> QED  BY <3>3, <3>4, <3>5
  <2> QED  BY <1>3, <2>1, <2>4, <2>5
<1> QED  BY <1>1, <1>2, <1>3

-----------------------------------------------------------------------------
\* The display before init turns it on, and when it shows a scene.
Dark(c) == c.display_on = FALSE /\ c.visible = Blank
Lit(o, s, c) == c.display_on = TRUE /\ c.visible = Seen(o, s)

\* What a call has done of its work when it comes to a stage.
Prepared(call, n, c) ==
    /\ n >= 1 => Flags(call.orientation, c)
    /\ n >= 2 => c.cols = <<0, WIDTH - 1>>
    /\ n >= 3 => c.rows = <<0, HEIGHT - 1>>
    /\ n >= 4 => c.rgba = Seen(call.orientation, call.scene)
    /\ IF call.doing = "init"
       THEN IF n <= 4 THEN Dark(c) ELSE Lit(call.orientation, call.scene, c)
       ELSE IF n <= 3 THEN Lit(call.orientation, call.shown, c)
                      ELSE Lit(call.orientation, call.scene, c)

\* What is looked at here is the same.
SameScreen(c, d) ==
    /\ d.rgba = c.rgba /\ d.visible = c.visible /\ d.display_on = c.display_on
    /\ d.vertical_increment = c.vertical_increment /\ d.mirror_h = c.mirror_h
    /\ d.flip_v = c.flip_v /\ d.bgr = c.bgr /\ d.cols = c.cols /\ d.rows = c.rows

\* Then a call is as far.
LEMMA PreparedKept ==
    ASSUME NEW call, NEW n, NEW c, NEW d, SameScreen(c, d), Prepared(call, n, c)
    PROVE  Prepared(call, n, d)
BY DEF Prepared, SameScreen, Flags, Dark, Lit

\* The remap setting gives the chip the flags of the orientation.
LEMMA RemapBits ==
    ASSUME NEW o \in Orientations
    PROVE  /\ Bit(remap_byte(o), 1) = o.vertical_increment /\ Bit(remap_byte(o), 2) = o.mirror_h
           /\ Bit(remap_byte(o), 16) = o.flip_v /\ Bit(remap_byte(o), 4) = o.bgr
<1>1. /\ o.vertical_increment \in BOOLEAN /\ o.mirror_h \in BOOLEAN
      /\ o.flip_v = TRUE /\ o.bgr = TRUE
    BY OrientationFacts
<1> DEFINE v == IF o.vertical_increment THEN 1 ELSE 0
           h == IF o.mirror_h THEN 2 ELSE 0
<1>2. remap_byte(o) = 116 + v + h
    BY <1>1 DEF remap_byte
<1>3. v \in {0, 1} /\ h \in {0, 2} /\ (v = 1 <=> o.vertical_increment) /\ (h = 2 <=> o.mirror_h)
    BY <1>1
<1> HIDE DEF v, h
<1>4. remap_byte(o) \in {116, 117, 118, 119}
    BY <1>2, <1>3
<1>5. /\ (remap_byte(o) \div 1) % 2 = 1 <=> v = 1 /\ TRUE
    BY <1>2, <1>3
<1>6. (remap_byte(o) \div 2) % 2 = 1 <=> h = 2
    BY <1>2, <1>3
<1>7. (remap_byte(o) \div 16) % 2 = 1 /\ (remap_byte(o) \div 4) % 2 = 1
    BY <1>4
<1> QED  BY <1>1, <1>3, <1>5, <1>6, <1>7 DEF Bit

\* A chip that waits for a command.
Settled(c) == c.args_expected = 0 /\ c.pending_write_bytes = 0

\* A command other than the framebuffer's takes the call to its next stage.
LEMMA CommandTakesEffect ==
    ASSUME NEW call, CallInv(call), NEW n \in Int, n # 3, NEW e, IsSent(call, n, e),
           NEW c \in Chips, c.current_cmd = e.command, c.args = e.args, Prepared(call, n, c)
    PROVE  /\ Prepared(call, n + 1, apply_current_command(c))
           /\ apply_current_command(c).args_expected = 0
           /\ apply_current_command(c).pending_write_bytes = c.pending_write_bytes
<1> DEFINE d == Applied(c)
           f == apply_current_command(c)
<1>1. f = [d EXCEPT !.args_expected = 0, !.args = <<>>]
    BY DEF apply_current_command
<1>2. ASSUME d \in Chips
      PROVE  /\ SameScreen(d, f) /\ f.args_expected = 0
             /\ f.pending_write_bytes = d.pending_write_bytes
  <2> HIDE DEF d, f
  <2> QED  BY <1>1, <1>2 DEF SameScreen, Chips
<1>3. call.doing \in {"init", "flush"} /\ call.orientation \in Orientations
    BY DEF CallInv
<1>4. SUFFICES d \in Chips /\ d.pending_write_bytes = c.pending_write_bytes /\ Prepared(call, n + 1, d)
  <2> HIDE DEF d, f
  <2> QED  BY <1>2, PreparedKept DEF f
<1>5. CASE n < 0
  <2>1. call.doing = "init" /\ Dark(c) /\ e.command \in PlainSetup
      BY <1>3, <1>5 DEF IsSent, Prepared
  <2>2. CASE e.command = \hAE
    <3>1. d = [c EXCEPT !.display_on = FALSE, !.visible = Blank]
        BY <2>2 DEF Applied
    <3>2. Blank \in Pictures
        BY ResetPanelType DEF ChipInv, Chips, reset_panel
    <3> HIDE DEF d
    <3>3. /\ d \in Chips /\ d.pending_write_bytes = c.pending_write_bytes
          /\ d.display_on = FALSE /\ d.visible = Blank
        BY <3>1, <3>2 DEF Chips
    <3> QED  BY <1>5, <2>1, <3>3 DEF Prepared, Dark
  <2>3. CASE e.command # \hAE
    <3>1. d = c
        BY <2>1, <2>3 DEF Applied, PlainSetup
    <3> HIDE DEF d
    <3> QED  BY <1>5, <2>1, <3>1 DEF Prepared
  <2> QED  BY <2>2, <2>3
<1>6. CASE n = 0
  <2> DEFINE o == call.orientation
  <2>1. call.doing = "init" /\ Dark(c) /\ e = Command(\hA0, <<remap_byte(o)>>)
      BY <1>3, <1>6 DEF IsSent, Prepared
  <2>2. c.current_cmd = \hA0 /\ c.args[1] = remap_byte(o)
      BY <2>1 DEF Command
  <2>3. d = [c EXCEPT !.vertical_increment = Bit(remap_byte(o), 1), !.mirror_h = Bit(remap_byte(o), 2),
                      !.flip_v = Bit(remap_byte(o), 16), !.bgr = Bit(remap_byte(o), 4)]
      BY <2>2 DEF Applied
  <2>4. /\ Bit(remap_byte(o), 1) = o.vertical_increment /\ Bit(remap_byte(o), 2) = o.mirror_h
        /\ Bit(remap_byte(o), 16) = o.flip_v /\ Bit(remap_byte(o), 4) = o.bgr
        /\ o.vertical_increment \in BOOLEAN /\ o.mirror_h \in BOOLEAN
        /\ o.flip_v \in BOOLEAN /\ o.bgr \in BOOLEAN
      BY <1>3, RemapBits, OrientationFacts
  <2>5. d = [c EXCEPT !.vertical_increment = o.vertical_increment, !.mirror_h = o.mirror_h,
                      !.flip_v = o.flip_v, !.bgr = o.bgr]
      BY <2>3, <2>4
  <2> HIDE DEF d
  <2>6. d \in Chips
      BY <2>4, <2>5, Zenon DEF Chips
  <2>7. /\ d.pending_write_bytes = c.pending_write_bytes
        /\ d.vertical_increment = o.vertical_increment /\ d.mirror_h = o.mirror_h
        /\ d.flip_v = o.flip_v /\ d.bgr = o.bgr
        /\ d.visible = c.visible /\ d.display_on = c.display_on
      BY <2>5, Zenon DEF Chips
  <2>8. Prepared(call, 1, d)
      BY <2>1, <2>7 DEF Prepared, Flags, Dark
  <2> QED  BY <1>6, <2>6, <2>7, <2>8
<1>7. CASE n = 1
  <2>1. e = Command(\h15, <<0, WIDTH - 1>>)
      BY <1>7 DEF IsSent
  <2>2. c.current_cmd = \h15 /\ c.args = <<0, WIDTH - 1>>
      BY <2>1 DEF Command
  <2>3. Window(<<0, WIDTH - 1>>, WIDTH - 1) = <<0, WIDTH - 1>>
      BY Dimensions DEF Window
  <2>4. d = [c EXCEPT !.cols = <<0, WIDTH - 1>>]
      BY <2>2, <2>3 DEF Applied
  <2>5. <<0, WIDTH - 1>> \in Columns \X Columns
      BY Dimensions DEF Columns
  <2> HIDE DEF d
  <2>6. d \in Chips /\ d.pending_write_bytes = c.pending_write_bytes
      BY <2>4, <2>5 DEF Chips
  <2>7. /\ d.cols = <<0, WIDTH - 1>> /\ d.visible = c.visible /\ d.display_on = c.display_on
        /\ d.vertical_increment = c.vertical_increment /\ d.mirror_h = c.mirror_h
        /\ d.flip_v = c.flip_v /\ d.bgr = c.bgr
      BY <2>4 DEF Chips
  <2>8. Prepared(call, 2, d)
      BY <1>7, <2>7 DEF Prepared, Flags, Dark, Lit
  <2> QED  BY <1>7, <2>6, <2>8
<1>8. CASE n = 2
  <2>1. e = Command(\h75, <<0, HEIGHT - 1>>)
      BY <1>8 DEF IsSent
  <2>2. c.current_cmd = \h75 /\ c.args = <<0, HEIGHT - 1>>
      BY <2>1 DEF Command
  <2>3. Window(<<0, HEIGHT - 1>>, HEIGHT - 1) = <<0, HEIGHT - 1>>
      BY Dimensions DEF Window
  <2>4. d = [c EXCEPT !.rows = <<0, HEIGHT - 1>>]
      BY <2>2, <2>3 DEF Applied
  <2>5. <<0, HEIGHT - 1>> \in Rows \X Rows
      BY Dimensions DEF Rows
  <2> HIDE DEF d
  <2>6. d \in Chips /\ d.pending_write_bytes = c.pending_write_bytes
      BY <2>4, <2>5 DEF Chips
  <2>7. /\ d.rows = <<0, HEIGHT - 1>> /\ d.visible = c.visible /\ d.display_on = c.display_on
        /\ d.vertical_increment = c.vertical_increment /\ d.mirror_h = c.mirror_h
        /\ d.flip_v = c.flip_v /\ d.bgr = c.bgr /\ d.cols = c.cols
      BY <2>4 DEF Chips
  <2>8. Prepared(call, 3, d)
      BY <1>8, <2>7 DEF Prepared, Flags, Dark, Lit
  <2> QED  BY <1>8, <2>6, <2>8
<1>9. CASE n = 4
  <2>1. call.doing = "init" /\ e = Command(\hAF, <<>>)
      BY <1>3, <1>9 DEF IsSent
  <2>2. c.current_cmd = \hAF
      BY <2>1 DEF Command
  <2> DEFINE on == [c EXCEPT !.display_on = TRUE]
  <2>3. d = present_display(on)
      BY <2>2 DEF Applied
  <2>4. on \in Chips /\ on.display_on = TRUE /\ on.rgba = c.rgba
      BY Zenon DEF Chips
  <2>5. d = [on EXCEPT !.visible = c.rgba]
      BY <2>3, <2>4 DEF present_display
  <2>6. /\ on.pending_write_bytes = c.pending_write_bytes /\ on.cols = c.cols /\ on.rows = c.rows
        /\ on.vertical_increment = c.vertical_increment /\ on.mirror_h = c.mirror_h
        /\ on.flip_v = c.flip_v /\ on.bgr = c.bgr
      BY DEF Chips
  <2> HIDE DEF d, on
  <2>7. c.rgba \in Pictures
      BY DEF Chips
  <2>8. d \in Chips /\ d.pending_write_bytes = on.pending_write_bytes
      BY <2>4, <2>5, <2>7 DEF Chips
  <2>9. /\ d.rgba = on.rgba /\ d.rows = on.rows /\ d.visible = c.rgba /\ d.display_on = on.display_on
        /\ d.vertical_increment = on.vertical_increment /\ d.mirror_h = on.mirror_h
        /\ d.flip_v = on.flip_v /\ d.bgr = on.bgr /\ d.cols = on.cols
      BY <2>4, <2>5 DEF Chips
  <2>10. Prepared(call, 5, d)
      BY <1>9, <2>1, <2>4, <2>6, <2>9 DEF Prepared, Flags, Lit
  <2> QED  BY <1>9, <2>6, <2>8, <2>10
<1>10. n < 0 \/ n \in {0, 1, 2, 4}
    BY DEF IsSent
<1> QED  BY <1>5, <1>6, <1>7, <1>8, <1>9, <1>10

\* The framebuffer's command opens the whole panel for it.
LEMMA FramebufferOpens ==
    ASSUME NEW call, CallInv(call), NEW c, ChipInv(c), c.args_expected = 0, Prepared(call, 3, c)
    PROVE  LET d == handle_command_byte(c, \h5C) IN
           /\ RamAt(call.orientation, call.fb, d, 0)
           /\ d.args_expected = 0 /\ Prepared(call, 3, d)
<1> DEFINE b == [c EXCEPT !.current_cmd = \h5C, !.args_expected = arg_count_for_cmd(\h5C), !.args = <<>>]
           f == begin_write_ram(b)
           d == [f EXCEPT !.args_expected = 0, !.args = <<>>]
           o == call.orientation
<1>1. arg_count_for_cmd(\h5C) = 0
    BY DEF arg_count_for_cmd
<1>2. b.args_expected = 0 /\ b.current_cmd = \h5C /\ b.args = <<>>
    BY <1>1 DEF ChipInv, Chips
<1>3. handle_command_byte(c, \h5C) = d
    BY <1>2 DEF handle_command_byte, apply_current_command, Applied
<1>4. ChipInv(d)
    BY <1>3, SomeBytes, CommandByteType
<1>5. /\ SameScreen(c, b) /\ b.cols = <<0, WIDTH - 1>> /\ b.rows = <<0, HEIGHT - 1>>
      /\ Flags(o, b)
  <2>1. SameScreen(c, b)
      BY DEF ChipInv, Chips, SameScreen
  <2> QED  BY <2>1 DEF SameScreen, Prepared, Flags
<1> DEFINE owed == (WIDTH - 1 - 0 + 1) * (HEIGHT - 1 - 0 + 1) * 2
<1>6. owed = FB_LEN
  <2>1. WIDTH - 1 - 0 + 1 = WIDTH /\ HEIGHT - 1 - 0 + 1 = HEIGHT
      BY Dimensions
  <2> QED  BY <2>1 DEF FB_LEN
<1>7. f = [b EXCEPT !.next_col = 0, !.next_row = 0, !.pixel_bytes = <<>>,
                    !.pending_write_bytes = owed]
  <2> HIDE DEF b
  <2> QED  BY <1>5 DEF begin_write_ram
<1>8. /\ SameScreen(c, d) /\ d.args_expected = 0 /\ d.pending_write_bytes = FB_LEN
      /\ d.pixel_bytes = <<>> /\ d.next_col = 0 /\ d.next_row = 0
  <2>1. b \in Chips
    <3> DEFINE value == \h5C
    <3>1. value \in Bytes /\ <<>> \in Seq(Bytes) /\ arg_count_for_cmd(value) \in 0..3
        BY <1>1, SomeBytes
    <3> HIDE DEF value
    <3>2. [c EXCEPT !.current_cmd = value, !.args_expected = arg_count_for_cmd(value),
                    !.args = <<>>] \in Chips
        BY <3>1 DEF ChipInv, Chips
    <3> QED  BY <3>2 DEF value
  <2> HIDE DEF b
  <2>2. /\ DOMAIN f = DOMAIN b /\ SameScreen(b, f) /\ f.pending_write_bytes = owed
        /\ f.pixel_bytes = <<>> /\ f.next_col = 0 /\ f.next_row = 0
    <3> HIDE DEF f, owed
    <3> QED  BY <1>7, <2>1 DEF Chips, SameScreen
  <2> HIDE DEF f, owed
  <2>3. /\ d.args_expected = 0 /\ SameScreen(f, d) /\ d.pending_write_bytes = owed
        /\ d.pixel_bytes = <<>> /\ d.next_col = 0 /\ d.next_row = 0
      BY <2>1, <2>2 DEF Chips, SameScreen
  <2> HIDE DEF d
  <2> QED  BY <1>5, <1>6, <2>2, <2>3 DEF SameScreen
<1> HIDE DEF d, b, f
<1>9. RamState(o, call.fb, d, 0, 0)
  <2>1. FullWindow(d) /\ Flags(o, d)
      BY <1>5, <1>8 DEF SameScreen, FullWindow, Flags
  <2>2. 0 % WIDTH = 0 /\ 0 \div WIDTH = 0
      BY Dimensions
  <2>3. CursorAt(o, d, 0)
      BY <1>8, <2>2 DEF CursorAt, Col, Row
  <2>4. d.pending_write_bytes = FB_LEN - (2 * 0 + 0)
      BY <1>8, Dimensions
  <2>5. Filled(o, call.fb, d.rgba, 0)
      BY DEF Filled, Pixels
  <2> QED  BY <1>4, <1>8, <2>1, <2>3, <2>4, <2>5 DEF RamState
<1>10. 0 \div 2 = 0 /\ 0 % 2 = 0
    OBVIOUS
<1>11. RamAt(o, call.fb, d, 0)
    BY <1>9, <1>10 DEF RamAt
<1>12. Prepared(call, 3, d)
    BY <1>8, PreparedKept
<1> QED  BY <1>3, <1>8, <1>11, <1>12

\* While it is sent the owner still sees what was there before.
LEMMA FillingPrepared ==
    ASSUME NEW call, NEW c, NEW d, NEW m, Prepared(call, 3, c), Keeps(c, d),
           RamAt(call.orientation, call.fb, d, m)
    PROVE  Prepared(call, 3, d)
BY DEF Prepared, Keeps, RamAt, RamState, FullWindow, Flags, Dark, Lit

\* At its end the chip has the whole picture and, if it is on, shows it.
LEMMA FramebufferEnds ==
    ASSUME NEW call, CallInv(call), NEW d, RamAt(call.orientation, call.fb, d, FB_LEN),
           d.args_expected = 0, Prepared(call, 3, d)
    PROVE  Settled(present_display(d)) /\ Prepared(call, 4, present_display(d))
<1> DEFINE o == call.orientation
           n == WIDTH * HEIGHT
           f == present_display(d)
<1>1. FB_LEN \div 2 = n /\ FB_LEN % 2 = 0
  <2>1. n \in Nat /\ FB_LEN = n * 2
      BY Dimensions
  <2> HIDE DEF n
  <2> QED  BY <2>1
<1>2. RamState(o, call.fb, d, n, 0)
    BY <1>1 DEF RamAt
<1>3. /\ ChipInv(d) /\ Filled(o, call.fb, d.rgba, n) /\ d.pending_write_bytes = FB_LEN - (2 * n + 0)
    BY <1>2 DEF RamState
<1>4. d.pending_write_bytes = 0
  <2>1. n \in Nat /\ FB_LEN = n * 2
      BY Dimensions
  <2> HIDE DEF n
  <2> QED  BY <1>3, <2>1
<1>5. o \in Orientations /\ PictureIn(call.fb, call.scene) /\ call.doing \in {"init", "flush"}
    BY DEF CallInv
<1>6. d.rgba = Seen(o, call.scene)
  <2>1. d.rgba \in Pictures
      BY <1>3 DEF ChipInv, Chips
  <2> QED  BY <1>3, <1>5, <2>1, WholePicture
<1>7. CASE call.doing = "init"
  <2>1. f = d
      BY <1>7 DEF Prepared, Dark, present_display
  <2> QED  BY <1>4, <1>6, <1>7, <2>1 DEF Prepared, Settled
<1>8. CASE call.doing = "flush"
  <2>1. d.display_on = TRUE
      BY <1>8 DEF Prepared, Lit
  <2>2. f = [d EXCEPT !.visible = d.rgba]
      BY <2>1 DEF present_display
  <2> HIDE DEF f
  <2>3. /\ f.rgba = d.rgba /\ f.visible = d.rgba /\ f.display_on = d.display_on
        /\ f.vertical_increment = d.vertical_increment /\ f.mirror_h = d.mirror_h
        /\ f.flip_v = d.flip_v /\ f.bgr = d.bgr /\ f.cols = d.cols /\ f.rows = d.rows
        /\ f.args_expected = d.args_expected /\ f.pending_write_bytes = d.pending_write_bytes
      BY <1>3, <2>2 DEF ChipInv, Chips
  <2>4. Settled(f) /\ Prepared(call, 4, f)
      BY <1>4, <1>6, <1>8, <2>1, <2>3 DEF Prepared, Flags, Lit, Settled
  <2> QED  BY <2>4 DEF f
<1> QED  BY <1>5, <1>7, <1>8

-----------------------------------------------------------------------------
\* A read of one byte, none of which has come.
One == [want |-> 1, got |-> <<>>]

\* A read of one byte is a read.
LEMMA OneType == One.want = 1 /\ One.got = <<>> /\ One # NoRead
BY DEF One, NoRead

\* A single byte is handled and, if it was the last of the pixels, presented.
LEMMA ReceivedOne ==
    ASSUME NEW c, NEW DC, NEW byte
    PROVE  Received(c, DC, <<byte>>) =
              Completed(Handled(c, DC, c.pending_write_bytes > 0, byte), DC,
                        c.pending_write_bytes > 0)
<1> DEFINE bytes == <<byte>>
           owed == c.pending_write_bytes > 0
<1>1. Len(bytes) = 1 /\ bytes[1] = byte
    OBVIOUS
<1> HIDE DEF bytes, owed
<1>2. Len(bytes) \in Nat
    BY <1>1
<1>3. PICK g : Bytewise(g, c, DC, owed, bytes) /\ Received(c, DC, bytes) = Completed(g[Len(bytes)], DC, owed)
    BY <1>2, ReceivedBytewise DEF owed
<1>4. g[0] = c /\ g[1] = Handled(g[1 - 1], DC, owed, bytes[1])
    BY <1>1, <1>3 DEF Bytewise
<1>5. g[1] = Handled(c, DC, owed, byte)
    BY <1>1, <1>4
<1> QED  BY <1>1, <1>3, <1>5 DEF owed, bytes

\* Selecting a chip that waits starts a read of one byte, and nothing else ...
LEMMA SelectStep ==
    ASSUME ChipInv(chip), ReadInv(reading, chip, cs), cs = 1, chip.pending_write_bytes = 0,
           CsChanges(0)
    PROVE  cs' = 0 /\ chip' = chip /\ reading' = One
<1>1. reading.got = <<>>
    BY NoReadType DEF ReadInv
<1>2. cs' = 0 /\ chip' = Received(chip, dc, reading.got) /\ reading' = NextRead(chip, 0, dc)
    BY DEF CsChanges
<1>3. chip' = chip
    BY <1>1, <1>2, ReceivedNothing
<1>4. NextRead(chip, 0, dc) = One
    BY DEF NextRead, One
<1> QED  BY <1>2, <1>3, <1>4

\* ... and letting it go ends the read.
LEMMA DeselectStep ==
    ASSUME ChipInv(chip), cs = 0, reading = One, CsChanges(1)
    PROVE  cs' = 1 /\ chip' = chip /\ reading' = NoRead
<1>1. cs' = 1 /\ chip' = Received(chip, dc, reading.got) /\ reading' = NoRead
    BY DEF CsChanges
<1>2. reading.got = <<>>
    BY OneType
<1> QED  BY <1>1, <1>2, ReceivedNothing

\* A byte for a chip that is owed no pixels is a command or an argument.
LEMMA OneByteStep ==
    ASSUME ChipInv(chip), cs = 0, dc \in {0, 1}, reading = One, chip.pending_write_bytes = 0,
           NEW byte \in Bytes, ByteArrives(byte)
    PROVE  /\ chip' = IF dc = 0 THEN handle_command_byte(chip, byte) ELSE handle_data_byte(chip, byte)
           /\ chip'.pending_write_bytes = 0 \/ dc = 0 => reading' = One
<1>1. Append(reading.got, byte) = <<byte>> /\ Len(<<byte>>) = 1 /\ reading.want = 1
  <2>1. Append(<<>>, byte) = <<byte>> /\ Len(<<byte>>) = 1
      OBVIOUS
  <2> QED  BY <2>1, OneType
<1>2. chip' = Received(chip, dc, <<byte>>) /\ reading' = NextRead(chip', cs, dc)
    BY <1>1 DEF ByteArrives
<1>3. chip' = Completed(Handled(chip, dc, chip.pending_write_bytes > 0, byte), dc,
                        chip.pending_write_bytes > 0)
    BY <1>2, ReceivedOne
<1>4. ~(chip.pending_write_bytes > 0)
    OBVIOUS
<1>5. chip' = Handled(chip, dc, chip.pending_write_bytes > 0, byte)
    BY <1>3, <1>4 DEF Completed
<1>6. chip' = IF dc = 0 THEN handle_command_byte(chip, byte) ELSE handle_data_byte(chip, byte)
    BY <1>4, <1>5 DEF Handled
<1>7. chip'.pending_write_bytes = 0 \/ dc = 0 => reading' = One
    BY <1>2 DEF NextRead, One
<1> QED  BY <1>6, <1>7

\* The chip in the middle of a command's arguments.
Taking(e, i, c, r) ==
    /\ r = One /\ c.pending_write_bytes = 0
    /\ c.current_cmd = e.command /\ c.args_expected = Len(e.args)
    /\ i < Len(e.args) /\ Len(c.args) = i /\ \A x \in 1..i : c.args[x] = e.args[x]

\* The chip in the middle of the framebuffer: some of the bytes that were sent are
\* in its memory, the others in the read that has not ended.
Filling(call, i, c, r) ==
    /\ c.args_expected = 0 /\ r.want # 0
    /\ \E m \in 0..FB_LEN - 1 :
          /\ RamAt(call.orientation, call.fb, c, m)
          /\ m + Len(r.got) = i /\ \A x \in 1..Len(r.got) : r.got[x] = call.fb[m + x - 1]

\* All commands but the framebuffer's have the arguments the chip expects.
LEMMA ArgsFit ==
    ASSUME NEW call, NEW n \in Int, n # 3, NEW e, IsSent(call, n, e)
    PROVE  Len(e.args) = arg_count_for_cmd(e.command) /\ e.command # \h5C
<1>1. CASE n < 0
  <2>1. e.command \in PlainSetup /\ Len(e.args) = arg_count_for_cmd(e.command)
      BY <1>1 DEF IsSent
  <2> QED  BY <2>1, SMTT(30) DEF PlainSetup
<1>2. CASE n = 0
    BY <1>2 DEF IsSent, Command, arg_count_for_cmd
<1>3. CASE n = 1
    BY <1>3 DEF IsSent, Command, arg_count_for_cmd
<1>4. CASE n = 2
    BY <1>4 DEF IsSent, Command, arg_count_for_cmd
<1>5. CASE n = 4
    BY <1>5 DEF IsSent, Command, arg_count_for_cmd
<1>6. n < 0 \/ n \in {0, 1, 2, 4}
    BY DEF IsSent
<1> QED  BY <1>1, <1>2, <1>3, <1>4, <1>5, <1>6

\* The byte of a command.
LEMMA CommandByteStep ==
    ASSUME ChipInv(chip), cs = 0, dc = 0, reading = One, Settled(chip),
           NEW call, CallInv(call), NEW n \in Int, NEW e \in Commands, IsSent(call, n, e),
           Prepared(call, n, chip), ByteArrives(e.command)
    PROVE  /\ reading' = One
           /\ IF n = 3 THEN Filling(call, 0, chip', reading') /\ Prepared(call, 3, chip')
              ELSE IF e.args = <<>> THEN Settled(chip') /\ Prepared(call, n + 1, chip')
              ELSE Taking(e, 0, chip', reading') /\ Prepared(call, n, chip')
<1>1. e.command \in Bytes /\ e.args \in Seq(Bytes)
    BY DEF Commands
<1>2. chip.pending_write_bytes = 0 /\ chip.args_expected = 0
    BY DEF Settled
<1>3. chip' = handle_command_byte(chip, e.command) /\ reading' = One
    BY <1>1, <1>2, OneByteStep
<1>4. CASE n = 3
  <2>1. e.command = \h5C
      BY <1>4 DEF IsSent, Command
  <2>2. /\ RamAt(call.orientation, call.fb, chip', 0)
        /\ chip'.args_expected = 0 /\ Prepared(call, 3, chip')
      BY <1>2, <1>3, <1>4, <2>1, FramebufferOpens
  <2>3. 0 \in 0..FB_LEN - 1 /\ 0 + Len(<<>>) = 0 /\ \A x \in 1..Len(<<>>) : FALSE
      BY Dimensions
  <2>4. Filling(call, 0, chip', reading')
      BY <1>3, <2>2, <2>3, OneType DEF Filling
  <2> QED  BY <1>3, <1>4, <2>2, <2>4
<1>5. CASE n # 3
  <2> DEFINE d == [chip EXCEPT !.current_cmd = e.command,
                               !.args_expected = arg_count_for_cmd(e.command), !.args = <<>>]
  <2>1. Len(e.args) = arg_count_for_cmd(e.command)
      BY <1>5, ArgsFit
  <2>2. arg_count_for_cmd(e.command) \in 0..3
      BY DEF arg_count_for_cmd
  <2>3. /\ d \in Chips /\ SameScreen(chip, d) /\ d.current_cmd = e.command
        /\ d.args_expected = arg_count_for_cmd(e.command) /\ d.args = <<>>
        /\ d.pending_write_bytes = 0
    <3>1. <<>> \in Seq(Bytes)
        OBVIOUS
    <3> QED  BY <1>1, <1>2, <2>2, <3>1 DEF ChipInv, Chips, SameScreen
  <2>4. chip' = IF d.args_expected = 0 THEN apply_current_command(d) ELSE d
      BY <1>3 DEF handle_command_byte
  <2> HIDE DEF d
  <2>5. Prepared(call, n, d)
      BY <2>3, PreparedKept
  <2>6. CASE e.args = <<>>
    <3>1. chip' = apply_current_command(d)
        BY <2>1, <2>3, <2>4, <2>6
    <3>2. /\ Prepared(call, n + 1, chip') /\ chip'.args_expected = 0
          /\ chip'.pending_write_bytes = d.pending_write_bytes
        BY <1>5, <2>3, <2>5, <2>6, <3>1, CommandTakesEffect
    <3> QED  BY <1>3, <1>5, <2>3, <2>6, <3>2 DEF Settled
  <2>7. CASE e.args # <<>>
    <3>1. Len(e.args) > 0
        BY <1>1, <2>7
    <3>2. chip' = d
        BY <2>1, <2>3, <2>4, <3>1
    <3>3. Taking(e, 0, chip', reading')
        BY <1>3, <2>1, <2>3, <3>1, <3>2 DEF Taking
    <3> QED  BY <1>3, <1>5, <2>5, <2>7, <3>2, <3>3
  <2> QED  BY <2>6, <2>7
<1> QED  BY <1>4, <1>5

\* An argument.
LEMMA ArgumentStep ==
    ASSUME ChipInv(chip), cs = 0, dc = 1, NEW call, CallInv(call), NEW n \in Int, n # 3,
           NEW e \in Commands, IsSent(call, n, e), NEW i \in Nat, Taking(e, i, chip, reading),
           Prepared(call, n, chip), ByteArrives(e.args[i + 1])
    PROVE  /\ reading' = One
           /\ IF i + 1 < Len(e.args) THEN Taking(e, i + 1, chip', reading') /\ Prepared(call, n, chip')
              ELSE Settled(chip') /\ Prepared(call, n + 1, chip')
<1> DEFINE byte == e.args[i + 1]
           args == Append(chip.args, byte)
           d == [chip EXCEPT !.args = args]
<1>1. e.command \in Bytes /\ e.args \in Seq(Bytes) /\ Len(e.args) \in Nat
  <2>1. e.args \in Seq(Bytes)
      BY DEF Commands
  <2> QED  BY <2>1 DEF Commands
<1>2. /\ reading = One /\ chip.pending_write_bytes = 0 /\ chip.current_cmd = e.command
      /\ chip.args_expected = Len(e.args) /\ i < Len(e.args) /\ Len(chip.args) = i
      /\ \A x \in 1..i : chip.args[x] = e.args[x]
    BY DEF Taking
<1>3. i + 1 \in 1..Len(e.args) /\ byte \in Bytes
    BY <1>1, <1>2
<1>4. chip.args \in Seq(Bytes)
    BY DEF ChipInv, Chips
<1> HIDE DEF byte
<1>5. args \in Seq(Bytes) /\ Len(args) = i + 1 /\ args[i + 1] = byte /\ \A x \in 1..i : args[x] = e.args[x]
  <2>1. args \in Seq(Bytes) /\ Extends(args, chip.args, byte)
      BY <1>3, <1>4, Appended
  <2> HIDE DEF args
  <2> QED  BY <1>2, <2>1 DEF Extends
<1>6. \A x \in 1..i + 1 : args[x] = e.args[x]
  <2>1. \A x \in 1..i + 1 : x \in 1..i \/ x = i + 1
      OBVIOUS
  <2> HIDE DEF args
  <2> QED  BY <1>5, <2>1 DEF byte
<1> HIDE DEF args
<1>7. /\ d \in Chips /\ SameScreen(chip, d) /\ d.args = args /\ d.current_cmd = e.command
      /\ d.args_expected = Len(e.args) /\ d.pending_write_bytes = 0
    BY <1>2, <1>5 DEF ChipInv, Chips, SameScreen
<1>8. Prepared(call, n, d)
  <2> HIDE DEF d
  <2> QED  BY <1>7, PreparedKept
<1>9. chip' = handle_data_byte(chip, byte) /\ (chip'.pending_write_bytes = 0 => reading' = One)
  <2>1. ByteArrives(byte)
      BY DEF byte
  <2> QED  BY <1>2, <1>3, <2>1, OneByteStep
<1>10. chip' = IF Len(d.args) = d.args_expected THEN apply_current_command(d) ELSE d
  <2>1. chip.args_expected # 0
      BY <1>1, <1>2
  <2>2. d = [chip EXCEPT !.args = Append(@, byte)]
      BY DEF ChipInv, Chips, args
  <2> HIDE DEF d
  <2> QED  BY <1>9, <2>1, <2>2 DEF handle_data_byte
<1> HIDE DEF d
<1>11. CASE i + 1 < Len(e.args)
  <2>1. chip' = d
      BY <1>1, <1>5, <1>7, <1>10, <1>11
  <2>2. Taking(e, i + 1, chip', reading')
      BY <1>5, <1>6, <1>7, <1>9, <1>11, <2>1 DEF Taking
  <2> QED  BY <1>7, <1>8, <1>9, <1>11, <2>1, <2>2
<1>12. CASE ~(i + 1 < Len(e.args))
  <2>1. i + 1 = Len(e.args)
      BY <1>1, <1>2, <1>12
  <2>2. chip' = apply_current_command(d)
      BY <1>5, <1>7, <1>10, <2>1
  <2>3. d.args = e.args
    <3>1. \A x \in 1..Len(e.args) : args[x] = e.args[x]
        BY <1>6, <2>1
    <3>2. args = e.args
        BY <1>1, <1>5, <2>1, <3>1
    <3> QED  BY <1>7, <3>2
  <2>4. /\ Prepared(call, n + 1, chip') /\ chip'.args_expected = 0
        /\ chip'.pending_write_bytes = d.pending_write_bytes
      BY <1>7, <1>8, <2>2, <2>3, CommandTakesEffect
  <2> QED  BY <1>7, <1>9, <1>12, <2>4 DEF Settled
<1> QED  BY <1>11, <1>12

\* A byte of the framebuffer.
LEMMA PixelByteStep ==
    ASSUME ChipInv(chip), ReadInv(reading, chip, cs), cs = 0, dc = 1, NEW call, CallInv(call),
           NEW i \in 0..FB_LEN - 1, Filling(call, i, chip, reading), Prepared(call, 3, chip),
           ByteArrives(call.fb[i])
    PROVE  IF i + 1 < FB_LEN THEN Filling(call, i + 1, chip', reading') /\ Prepared(call, 3, chip')
           ELSE reading' = One /\ Settled(chip') /\ Prepared(call, 4, chip')
<1> DEFINE o == call.orientation
           buffer == call.fb
           byte == buffer[i]
           got == Append(reading.got, byte)
<1>1. o \in Orientations /\ buffer \in Buffers
    BY DEF CallInv
<1>2. PICK m \in 0..FB_LEN - 1 :
         /\ RamAt(o, buffer, chip, m)
         /\ m + Len(reading.got) = i /\ \A x \in 1..Len(reading.got) : reading.got[x] = buffer[m + x - 1]
    BY DEF Filling
<1>3. byte \in Bytes
    BY <1>1 DEF Buffers
<1>4. /\ reading.got \in Seq(Bytes) /\ reading.want \in Nat /\ reading.want # 0
      /\ Len(reading.got) < reading.want
      /\ reading.want = 1 \/ reading.want <= chip.pending_write_bytes
    BY DEF ReadInv, Filling
<1> DEFINE L == Len(reading.got)
<1>5. L \in Nat
    BY <1>4
<1> HIDE DEF byte
<1>6. got \in Seq(Bytes) /\ Len(got) = L + 1 /\ got[L + 1] = byte /\ \A x \in 1..L : got[x] = reading.got[x]
  <2>1. got \in Seq(Bytes) /\ Extends(got, reading.got, byte)
      BY <1>3, <1>4, Appended
  <2> HIDE DEF got
  <2> QED  BY <2>1 DEF Extends
<1> HIDE DEF got
<1>7. FB_LEN \in Nat /\ m + L = i /\ m \in Nat /\ i \in Nat /\ m + (L + 1) = i + 1
  <2>1. m + L = i
      BY <1>2
  <2> HIDE DEF L
  <2> QED  BY <1>5, <2>1, Dimensions
<1>8. \A x \in 1..L + 1 : got[x] = buffer[m + x - 1]
  <2>1. ASSUME NEW x \in 1..L + 1 PROVE got[x] = buffer[m + x - 1]
    <3>1. CASE x \in 1..L
        BY <1>2, <1>6, <3>1
    <3>2. CASE x = L + 1
      <4>1. m + x - 1 = i
          BY <1>7, <3>2
      <4> QED  BY <1>6, <3>2, <4>1 DEF byte
    <3>3. x \in 1..L \/ x = L + 1
        BY <1>5
    <3> QED  BY <3>1, <3>2, <3>3
  <2> QED  BY <2>1
<1>9. chip.pending_write_bytes = FB_LEN - m /\ chip.args_expected = 0
  <2>1. m % 2 \in {0, 1} /\ 2 * (m \div 2) + (m % 2) = m
      BY <1>7
  <2>2. chip.pending_write_bytes = FB_LEN - (2 * (m \div 2) + (m % 2))
      BY <1>2 DEF RamAt, RamState
  <2> QED  BY <2>1, <2>2 DEF Filling
<1>10. CASE L + 1 < reading.want
  <2>1. reading' = [reading EXCEPT !.got = got] /\ chip' = chip
      BY <1>4, <1>6, <1>10 DEF ByteArrives, got, byte
  <2>2. reading'.want = reading.want /\ reading'.got = got
      BY <2>1 DEF ReadInv
  <2>3. i + 1 < FB_LEN
      BY <1>4, <1>5, <1>7, <1>9, <1>10
  <2>4. Filling(call, i + 1, chip', reading')
    <3>1. \A x \in 1..Len(got) : got[x] = buffer[m + x - 1]
        BY <1>6, <1>8
    <3>2. m + Len(got) = i + 1
        BY <1>6, <1>7
    <3> QED  BY <1>2, <1>4, <1>9, <2>1, <2>2, <3>1, <3>2 DEF Filling
  <2> QED  BY <2>1, <2>3, <2>4
<1>11. CASE ~(L + 1 < reading.want)
  <2>1. chip' = Received(chip, 1, got) /\ reading' = NextRead(chip', 0, 1)
      BY <1>4, <1>6, <1>11 DEF ByteArrives, got, byte
  <2>2. Len(got) > 0 /\ m + Len(got) = i + 1 /\ m + Len(got) <= FB_LEN
      BY <1>5, <1>6, <1>7
  <2>3. \A x \in 1..Len(got) : got[x] = buffer[m + x - 1]
      BY <1>6, <1>8
  <2>4. PICK d : /\ RamAt(o, buffer, d, m + Len(got)) /\ Keeps(chip, d)
                 /\ Received(chip, 1, got) =
                       IF m + Len(got) = FB_LEN THEN present_display(d) ELSE d
    <3>1. IsChunk(buffer, m, got)
        BY <1>6, <2>2, <2>3 DEF IsChunk
    <3>2. TakesChunk(o, buffer, chip, m, got)
        BY <1>1, <1>2, <3>1, ReceivedChunk
    <3> QED  BY <3>2 DEF TakesChunk
  <2>5. RamAt(o, buffer, d, i + 1) /\ d.args_expected = 0
      BY <1>9, <2>2, <2>4 DEF Keeps
  <2>6. Prepared(call, 3, d)
      BY <2>4, <2>5, FillingPrepared
  <2>7. CASE i + 1 < FB_LEN
    <3>1. chip' = d
        BY <1>7, <2>1, <2>2, <2>4, <2>7
    <3>2. i + 1 \in 0..FB_LEN - 1
        BY <1>7, <2>7
    <3>3. d.pending_write_bytes > 0
      <4>1. (i + 1) % 2 \in {0, 1} /\ 2 * ((i + 1) \div 2) + ((i + 1) % 2) = i + 1
          BY <1>7
      <4>2. d.pending_write_bytes = FB_LEN - (2 * ((i + 1) \div 2) + ((i + 1) % 2))
          BY <2>5 DEF RamAt, RamState
      <4> QED  BY <1>7, <2>7, <4>1, <4>2
    <3>4. reading'.want # 0 /\ reading'.got = <<>>
      <4>1. SPI_CHUNK \in Nat \ {0}
          BY PanelAssumption DEF PanelAssumption
      <4> QED  BY <2>1, <3>1, <3>3, <4>1 DEF NextRead
    <3>5. i + 1 + Len(<<>>) = i + 1 /\ \A x \in 1..Len(<<>>) : FALSE
        BY <1>7
    <3>6. Filling(call, i + 1, chip', reading')
        BY <2>5, <3>1, <3>2, <3>4, <3>5 DEF Filling
    <3> QED  BY <2>6, <2>7, <3>1, <3>6
  <2>8. CASE ~(i + 1 < FB_LEN)
    <3>1. i + 1 = FB_LEN
        BY <1>7, <2>8
    <3>2. chip' = present_display(d)
        BY <2>1, <2>2, <2>4, <3>1
    <3>3. Settled(chip') /\ Prepared(call, 4, chip')
        BY <2>5, <2>6, <3>1, <3>2, FramebufferEnds
    <3>4. reading' = One
        BY <2>1, <3>3 DEF NextRead, One, Settled
    <3> QED  BY <2>8, <3>3, <3>4
  <2> QED  BY <2>7, <2>8
<1> QED  BY <1>10, <1>11

-----------------------------------------------------------------------------
\* Where the chip is, by the operation of a command that is to come.
Waiting(call, n, c, CS) == CS = 1 /\ Settled(c) /\ Prepared(call, n, c)
Selected(call, n, c, r, CS) == CS = 0 /\ r = One /\ Settled(c) /\ Prepared(call, n, c)
Busy(call, n, e, i, c, r, CS) ==
    /\ CS = 0 /\ Prepared(call, n, c)
    /\ IF n = 3 THEN Filling(call, i, c, r) ELSE Taking(e, i, c, r)

BeforeOp(call, n, e, j, c, r, CS, DC) ==
    \/ j = 1 /\ Waiting(call, n, c, CS)
    \/ j = 2 /\ Selected(call, n, c, r, CS)
    \/ j = 3 /\ DC = 0 /\ Selected(call, n, c, r, CS)
    \/ j = 4 /\ e.args # <<>> /\ Busy(call, n, e, 0, c, r, CS)
    \/ \E i \in 0..Len(e.args) - 1 : j = 5 + i /\ DC = 1 /\ Busy(call, n, e, i, c, r, CS)
    \/ j = (IF e.args = <<>> THEN 4 ELSE Len(e.args) + 5) /\ Selected(call, n + 1, c, r, CS)

\* What BusStep makes of an operation, but for what is left to do.
Performs(op) ==
    /\ IF op[1] = "dc" THEN dc' = op[2] ELSE dc' = dc
    /\ IF op[1] = "cs" THEN CsChanges(op[2])
       ELSE /\ cs' = cs
            /\ IF op[1] = "spi" THEN ByteArrives(op[2])
               ELSE /\ chip' = IF op[1] = "rst" /\ op[2] = 0 THEN reset_panel ELSE chip
                    /\ reading' = reading

\* The operations of a command.
IsCommand(ops, e) ==
    /\ ops[1] = <<"cs", 0>> /\ ops[2] = <<"dc", 0>> /\ ops[3] = <<"spi", e.command>>
    /\ e.args = <<>> => Len(ops) = 4 /\ ops[4] = <<"cs", 1>>
    /\ e.args # <<>> => /\ Len(ops) = Len(e.args) + 5
                        /\ ops[4] = <<"dc", 1>> /\ ops[Len(e.args) + 5] = <<"cs", 1>>
                        /\ \A i \in 1..Len(e.args) : ops[i + 4] = <<"spi", e.args[i]>>

\* Those of every command in a list are.
LEMMA OpsOfCommand ==
    ASSUME NEW commands \in Seq(Commands), NEW k \in 1..Len(commands)
    PROVE  commands[k] \in Commands /\ IsCommand(OpsOf(commands, k), commands[k])
<1>1. commands[k] \in Commands
    OBVIOUS
<1> DEFINE command == commands[k].command
           args == commands[k].args
           c == cmd(command, args)
<1>2. command \in Bytes /\ args \in Seq(Bytes)
    BY <1>1 DEF Commands
<1>3. /\ c[1] = <<"cs", 0>> /\ c[2] = <<"dc", 0>> /\ c[3] = <<"spi", command>>
      /\ args = <<>> => Len(c) = 4 /\ c[4] = <<"cs", 1>>
      /\ args # <<>> => /\ Len(c) = Len(args) + 5
                        /\ c[4] = <<"dc", 1>> /\ c[Len(args) + 5] = <<"cs", 1>>
                        /\ \A i \in 1..Len(args) : c[i + 4] = <<"spi", args[i]>>
    BY <1>2, CmdOps, Zenon
<1>4. OpsOf(commands, k) = c
    BY DEF OpsOf
<1> HIDE DEF c
<1>5. IsCommand(c, commands[k])
    BY <1>3, Zenon DEF IsCommand
<1> QED  BY <1>1, <1>4, <1>5

\* Every operation of a command takes the chip to the place of the next; after the
\* last the chip waits and the call is a stage further.
LEMMA OperationStep ==
    ASSUME ChipInv(chip), ReadInv(reading, chip, cs), cs \in {0, 1}, dc \in {0, 1},
           NEW call, CallInv(call), NEW n \in Int, NEW e \in Commands, IsSent(call, n, e),
           NEW ops, IsCommand(ops, e), NEW j \in 1..Len(ops),
           BeforeOp(call, n, e, j, chip, reading, cs, dc), Performs(ops[j])
    PROVE  IF j < Len(ops) THEN BeforeOp(call, n, e, j + 1, chip', reading', cs', dc')
           ELSE Waiting(call, n + 1, chip', cs') /\ reading' = NoRead
<1> DEFINE last == IF e.args = <<>> THEN 4 ELSE Len(e.args) + 5
           op == ops[j]
<1>1. e.args \in Seq(Bytes) /\ e.command \in Bytes
    BY DEF Commands
<1>2. Len(e.args) \in Nat /\ (e.args # <<>> => Len(e.args) > 0)
    BY <1>1
<1>3. Len(ops) = last /\ last \in Nat /\ last >= 4
    BY <1>2 DEF IsCommand
<1>4. j \in Int
    BY <1>3
<1> HIDE DEF last
<1>5. CASE j = 1 /\ Waiting(call, n, chip, cs)
  <2>1. op = <<"cs", 0>> /\ cs = 1 /\ Settled(chip) /\ Prepared(call, n, chip)
      BY <1>5 DEF IsCommand, Waiting
  <2>2. CsChanges(0)
      BY <2>1 DEF Performs
  <2>3. cs' = 0 /\ chip' = chip /\ reading' = One
      BY <2>1, <2>2, SelectStep DEF Settled
  <2>4. Selected(call, n, chip', reading', cs')
      BY <2>1, <2>3 DEF Selected
  <2> QED  BY <1>3, <1>5, <2>4 DEF BeforeOp
<1>6. CASE j = 2 /\ Selected(call, n, chip, reading, cs)
  <2>1. op = <<"dc", 0>>
      BY <1>6 DEF IsCommand
  <2>2. dc' = 0 /\ cs' = cs /\ chip' = chip /\ reading' = reading
      BY <2>1 DEF Performs
  <2>3. Selected(call, n, chip', reading', cs')
      BY <1>6, <2>2
  <2> QED  BY <1>3, <1>6, <2>2, <2>3 DEF BeforeOp
<1>7. CASE j = 3 /\ dc = 0 /\ Selected(call, n, chip, reading, cs)
  <2>1. op = <<"spi", e.command>>
      BY <1>7 DEF IsCommand
  <2>2. cs' = cs /\ ByteArrives(e.command)
      BY <2>1 DEF Performs
  <2>3. cs = 0 /\ reading = One /\ Settled(chip) /\ Prepared(call, n, chip)
      BY <1>7 DEF Selected
  <2>4. /\ reading' = One
        /\ IF n = 3 THEN Filling(call, 0, chip', reading') /\ Prepared(call, 3, chip')
           ELSE IF e.args = <<>> THEN Settled(chip') /\ Prepared(call, n + 1, chip')
           ELSE Taking(e, 0, chip', reading') /\ Prepared(call, n, chip')
      BY <1>7, <2>2, <2>3, CommandByteStep
  <2>5. n = 3 => e.args # <<>>
    <3>1. n = 3 => e.args = Data(call.fb)
        BY DEF IsSent, Command
    <3>2. Len(Data(call.fb)) # 0
        BY Dimensions DEF Data
    <3> QED  BY <3>1, <3>2
  <2>6. CASE e.args = <<>>
    <3>1. Selected(call, n + 1, chip', reading', cs') /\ last = 4
        BY <2>2, <2>3, <2>4, <2>5, <2>6 DEF Selected, last
    <3> QED  BY <1>3, <1>7, <2>6, <3>1 DEF BeforeOp
  <2>7. CASE e.args # <<>>
    <3>1. Busy(call, n, e, 0, chip', reading', cs')
        BY <2>2, <2>3, <2>4, <2>7 DEF Busy
    <3> QED  BY <1>3, <1>7, <2>7, <3>1 DEF BeforeOp
  <2> QED  BY <2>6, <2>7
<1>8. CASE j = 4 /\ e.args # <<>> /\ Busy(call, n, e, 0, chip, reading, cs)
  <2>1. op = <<"dc", 1>> /\ last = Len(e.args) + 5
      BY <1>8 DEF IsCommand, last
  <2>2. dc' = 1 /\ cs' = cs /\ chip' = chip /\ reading' = reading
      BY <2>1 DEF Performs
  <2>3. Busy(call, n, e, 0, chip', reading', cs')
      BY <1>8, <2>2
  <2>4. 0 \in 0..Len(e.args) - 1 /\ j + 1 = 5 + 0 /\ j < Len(ops)
      BY <1>2, <1>3, <1>8, <2>1
  <2> QED  BY <2>2, <2>3, <2>4 DEF BeforeOp
<1>9. CASE \E i \in 0..Len(e.args) - 1 : j = 5 + i /\ dc = 1 /\ Busy(call, n, e, i, chip, reading, cs)
  <2>1. PICK i \in 0..Len(e.args) - 1 : j = 5 + i /\ dc = 1 /\ Busy(call, n, e, i, chip, reading, cs)
      BY <1>9
  <2>2. e.args # <<>> /\ i + 1 \in 1..Len(e.args) /\ j = i + 1 + 4 /\ i \in Nat /\ i < Len(e.args)
    <3>1. i \in Nat /\ i < Len(e.args)
        BY <1>2
    <3>2. e.args # <<>>
        BY <3>1
    <3> QED  BY <1>2, <2>1, <3>1, <3>2
  <2>3. op = <<"spi", e.args[i + 1]>> /\ last = Len(e.args) + 5
      BY <2>2 DEF IsCommand, last
  <2>4. cs' = cs /\ dc' = dc /\ ByteArrives(e.args[i + 1])
      BY <2>3 DEF Performs
  <2>5. cs = 0 /\ Prepared(call, n, chip)
      BY <2>1 DEF Busy
  <2>6. IF i + 1 < Len(e.args) THEN Busy(call, n, e, i + 1, chip', reading', cs')
        ELSE Selected(call, n + 1, chip', reading', cs')
    <3>1. CASE n = 3
      <4>1. e.args = Data(call.fb)
          BY <3>1 DEF IsSent, Command
      <4>2. Len(e.args) = FB_LEN /\ e.args[i + 1] = call.fb[i]
        <5>1. Len(Data(call.fb)) = FB_LEN
            BY Dimensions DEF Data
        <5>2. i + 1 \in 1..FB_LEN /\ i + 1 - 1 = i
            BY <2>2, <4>1, <5>1
        <5>3. Data(call.fb)[i + 1] = call.fb[i]
            BY <5>2 DEF Data
        <5> QED  BY <4>1, <5>1, <5>3
      <4>3. i \in 0..FB_LEN - 1 /\ ByteArrives(call.fb[i]) /\ Filling(call, i, chip, reading)
          BY <2>1, <2>4, <3>1, <4>2 DEF Busy
      <4>4. IF i + 1 < FB_LEN THEN Filling(call, i + 1, chip', reading') /\ Prepared(call, 3, chip')
            ELSE reading' = One /\ Settled(chip') /\ Prepared(call, 4, chip')
          BY <2>1, <2>5, <3>1, <4>3, PixelByteStep
      <4> QED  BY <2>4, <2>5, <3>1, <4>2, <4>4 DEF Busy, Selected
    <3>2. CASE n # 3
      <4>1. Taking(e, i, chip, reading)
          BY <2>1, <3>2 DEF Busy
      <4>2. /\ reading' = One
            /\ IF i + 1 < Len(e.args) THEN Taking(e, i + 1, chip', reading') /\ Prepared(call, n, chip')
               ELSE Settled(chip') /\ Prepared(call, n + 1, chip')
          BY <2>1, <2>2, <2>4, <2>5, <3>2, <4>1, ArgumentStep
      <4> QED  BY <2>4, <2>5, <3>2, <4>2 DEF Busy, Selected
    <3> QED  BY <3>1, <3>2
  <2>7. j < Len(ops)
      BY <1>2, <1>3, <2>1, <2>2, <2>3
  <2>8. CASE i + 1 < Len(e.args)
    <3>1. i + 1 \in 0..Len(e.args) - 1 /\ j + 1 = 5 + (i + 1)
        BY <1>2, <2>1, <2>2, <2>8
    <3> QED  BY <2>1, <2>4, <2>6, <2>7, <2>8, <3>1 DEF BeforeOp
  <2>9. CASE ~(i + 1 < Len(e.args))
    <3>1. j + 1 = Len(e.args) + 5
        BY <1>2, <2>1, <2>2, <2>9
    <3> QED  BY <2>2, <2>6, <2>7, <2>9, <3>1 DEF BeforeOp
  <2> QED  BY <2>8, <2>9
<1>10. CASE j = last /\ Selected(call, n + 1, chip, reading, cs)
  <2>1. op = <<"cs", 1>>
      BY <1>10 DEF IsCommand, last
  <2>2. CsChanges(1)
      BY <2>1 DEF Performs
  <2>3. cs = 0 /\ reading = One /\ Settled(chip) /\ Prepared(call, n + 1, chip)
      BY <1>10 DEF Selected
  <2>4. cs' = 1 /\ chip' = chip /\ reading' = NoRead
      BY <2>2, <2>3, DeselectStep
  <2>5. Waiting(call, n + 1, chip', cs')
      BY <2>3, <2>4 DEF Waiting
  <2> QED  BY <1>3, <1>10, <2>4, <2>5
<1> QED  BY <1>5, <1>6, <1>7, <1>8, <1>9, <1>10 DEF BeforeOp, last

-----------------------------------------------------------------------------
\* The call the driver is in, and that it is at one of its operations with the chip
\* where that one needs it.
CallNow ==
    [doing |-> doing, orientation |-> orientation, fb |-> fb, scene |-> scene, shown |-> shown]

Going(call, left, c, r, CS, DC) ==
    \E k \in 1..Len(CommandsOf(call)) : \E j \in 1..Len(OpsOf(CommandsOf(call), k)) :
        /\ left = At(CommandsOf(call), k, j)
        /\ BeforeOp(call, Stage(call, k), CommandsOf(call)[k], j, c, r, CS, DC)

PictureInv ==
    /\ PictureIn(fb, scene) /\ (doing = "init" => fb = Zeros)
    /\ intact =>
          \/ /\ doing = "init" /\ cs = 1 /\ chip = reset_panel
             /\ \E j \in 1..3 : todo = Resetting(orientation, j)
          \/ doing \in {"init", "flush"} /\ Going(CallNow, todo, chip, reading, cs, dc)
          \/ /\ doing = "idle" /\ cs = 1 /\ Settled(chip) /\ shown = scene
             /\ Flags(orientation, chip) /\ Lit(orientation, scene, chip)

\* A call starts with its first command.
LEMMA CallStarts ==
    ASSUME NEW call, CallInv(call), NEW c, NEW r, NEW DC, Waiting(call, Stage(call, 1), c, 1)
    PROVE  Going(call, At(CommandsOf(call), 1, 1), c, r, 1, DC)
<1> DEFINE commands == CommandsOf(call)
<1>1. commands \in Seq(Commands) /\ Len(commands) = IF call.doing = "init" THEN 21 ELSE 3
    BY CommandsOfCall
<1> HIDE DEF commands
<1>2. 1 \in 1..Len(commands)
    BY <1>1
<1>3. OpsOf(commands, 1) \in Seq(Ops) /\ Len(OpsOf(commands, 1)) >= 4
    BY <1>1, <1>2, OpsOfType
<1>4. 1 \in 1..Len(OpsOf(commands, 1))
    BY <1>3
<1>5. BeforeOp(call, Stage(call, 1), commands[1], 1, c, r, 1, DC)
    BY DEF BeforeOp
<1>6. \E k \in 1..Len(commands) : \E j \in 1..Len(OpsOf(commands, k)) :
          /\ At(commands, 1, 1) = At(commands, k, j)
          /\ BeforeOp(call, Stage(call, k), commands[k], j, c, r, 1, DC)
    BY <1>2, <1>4, <1>5
<1> QED  BY <1>6, Zenon DEF Going, commands

\* A step of a call goes on to its next operation or, after its last command, ends
\* it with the chip waiting and the display showing the scene.
LEMMA CallStep ==
    ASSUME TypeInv, BusStep, NEW call, CallInv(call), Going(call, todo, chip, reading, cs, dc)
    PROVE  /\ intact' = intact
           /\ \/ /\ doing' = doing /\ shown' = shown
                 /\ Going(call, todo', chip', reading', cs', dc')
              \/ /\ doing' = "idle" /\ shown' = scene
                 /\ Waiting(call, IF call.doing = "init" THEN 5 ELSE 4, chip', cs')
<1> DEFINE commands == CommandsOf(call)
<1>1. /\ commands \in Seq(Commands) /\ Len(commands) = IF call.doing = "init" THEN 21 ELSE 3
      /\ \A k \in 1..Len(commands) : IsSent(call, Stage(call, k), commands[k])
    BY CommandsOfCall
<1> HIDE DEF commands
<1>2. PICK k \in 1..Len(commands) : \E j \in 1..Len(OpsOf(commands, k)) :
          /\ todo = At(commands, k, j)
          /\ BeforeOp(call, Stage(call, k), commands[k], j, chip, reading, cs, dc)
    BY Zenon DEF Going, commands
<1> DEFINE n == Stage(call, k)
           e == commands[k]
           ops == OpsOf(commands, k)
<1>3. PICK j \in 1..Len(ops) :
          todo = At(commands, k, j) /\ BeforeOp(call, n, e, j, chip, reading, cs, dc)
    BY <1>2
<1>4. /\ n \in Int /\ Stage(call, k + 1) = n + 1
      /\ k = Len(commands) => n + 1 = IF call.doing = "init" THEN 5 ELSE 4
    BY <1>1 DEF Stage
<1>5. e \in Commands /\ IsCommand(ops, e) /\ IsSent(call, n, e)
    BY <1>1, OpsOfCommand
<1>6. ops \in Seq(Ops) /\ Len(ops) >= 4
    BY <1>1, OpsOfType
<1>7. /\ Head(todo) = ops[j] /\ (Len(todo) > 1 <=> (j < Len(ops) \/ k < Len(commands)))
      /\ Tail(todo) = IF j < Len(ops) THEN At(commands, k, j + 1)
                      ELSE IF k < Len(commands) THEN At(commands, k + 1, 1)
                      ELSE <<>>
  <2>1. StepsOn(commands, k, j)
      BY <1>1, AtStep
  <2> QED  BY <1>3, <2>1 DEF StepsOn
<1> HIDE DEF n, e, ops
<1>8. Performs(ops[j])
    BY <1>7 DEF BusStep, Performs
<1>9. /\ todo' = Tail(todo)
      /\ IF Len(todo) > 1 THEN doing' = doing /\ shown' = shown
         ELSE doing' = "idle" /\ shown' = scene
    BY DEF BusStep
<1>10. /\ ChipInv(chip) /\ ReadInv(reading, chip, cs) /\ cs \in {0, 1} /\ dc \in {0, 1}
    BY DEF TypeInv
<1>11. IF j < Len(ops) THEN BeforeOp(call, n, e, j + 1, chip', reading', cs', dc')
       ELSE Waiting(call, n + 1, chip', cs') /\ reading' = NoRead
    BY <1>3, <1>4, <1>5, <1>8, <1>10, OperationStep, ZenonT(60)
<1>12. intact' = intact
  <2>1. Sending(commands)
      BY <1>2 DEF Sending
  <2> QED  BY <1>1, <2>1, SendingStep, ZenonT(60)
<1>13. CASE j < Len(ops)
  <2>1. j + 1 \in 1..Len(ops)
      BY <1>6, <1>13
  <2>2. todo' = At(commands, k, j + 1)
      BY <1>7, <1>9, <1>13
  <2>3. doing' = doing /\ shown' = shown
      BY <1>7, <1>9, <1>13
  <2>4. BeforeOp(call, Stage(call, k), commands[k], j + 1, chip', reading', cs', dc')
      BY <1>11, <1>13 DEF n, e
  <2>5. \E K \in 1..Len(commands) : \E J \in 1..Len(OpsOf(commands, K)) :
            /\ todo' = At(commands, K, J)
            /\ BeforeOp(call, Stage(call, K), commands[K], J, chip', reading', cs', dc')
      BY <2>1, <2>2, <2>4, Zenon DEF ops
  <2>6. Going(call, todo', chip', reading', cs', dc')
      BY <2>5, Zenon DEF Going, commands
  <2> QED  BY <1>12, <2>3, <2>6
<1>14. CASE ~(j < Len(ops)) /\ k < Len(commands)
  <2>1. k + 1 \in 1..Len(commands)
      BY <1>14
  <2>2. OpsOf(commands, k + 1) \in Seq(Ops) /\ Len(OpsOf(commands, k + 1)) >= 4
      BY <1>1, <2>1, OpsOfType
  <2>3. 1 \in 1..Len(OpsOf(commands, k + 1))
      BY <2>2
  <2>4. todo' = At(commands, k + 1, 1) /\ doing' = doing /\ shown' = shown
      BY <1>7, <1>9, <1>14
  <2>5. BeforeOp(call, Stage(call, k + 1), commands[k + 1], 1, chip', reading', cs', dc')
      BY <1>4, <1>11, <1>14 DEF BeforeOp
  <2>6. \E K \in 1..Len(commands) : \E J \in 1..Len(OpsOf(commands, K)) :
            /\ todo' = At(commands, K, J)
            /\ BeforeOp(call, Stage(call, K), commands[K], J, chip', reading', cs', dc')
      BY <2>1, <2>3, <2>4, <2>5, Zenon
  <2>7. Going(call, todo', chip', reading', cs', dc')
      BY <2>6, Zenon DEF Going, commands
  <2> QED  BY <1>12, <2>4, <2>7
<1>15. CASE ~(j < Len(ops)) /\ ~(k < Len(commands))
  <2>1. doing' = "idle" /\ shown' = scene
      BY <1>7, <1>9, <1>15
  <2>2. k = Len(commands)
      BY <1>1, <1>15
  <2>3. Waiting(call, IF call.doing = "init" THEN 5 ELSE 4, chip', cs')
      BY <1>4, <1>11, <1>15, <2>2
  <2> QED  BY <1>12, <2>1, <2>3
<1> QED  BY <1>13, <1>14, <1>15

\* The picture is in order in the beginning ...
LEMMA PictureInit == Init => PictureInv
<1> SUFFICES ASSUME Init PROVE PictureInv
    OBVIOUS
<1>1. /\ fb = Zeros /\ scene = NoScene /\ doing = "init" /\ cs = 1 /\ chip = reset_panel
      /\ todo = init(orientation)
    BY DEF Init, Zeros
<1>2. PictureIn(fb, scene)
    BY <1>1, BlackPicture
<1>3. \E j \in 1..3 : todo = Resetting(orientation, j)
    BY <1>1, StartsReset
<1> QED  BY <1>1, <1>2, <1>3 DEF PictureInv

\* The call the driver is in is one of those above.
LEMMA CallNowInv ==
    ASSUME TypeInv, PictureInv, doing \in {"init", "flush"}
    PROVE  CallInv(CallNow)
<1>1. fb \in Buffers /\ orientation \in Orientations /\ PictureIn(fb, scene)
    BY DEF TypeInv, PictureInv
<1>2. doing = "init" => fb = Zeros
    BY DEF PictureInv
<1> QED  BY <1>1, <1>2 DEF CallInv, CallNow

\* The reset pulse leaves a dark panel, ready for the settings.
LEMMA ResetStep ==
    ASSUME TypeInv, PictureInv, BusStep, doing = "init", cs = 1,
           NEW j \in 1..3, todo = Resetting(orientation, j),
           intact /\ j # 2 => chip = reset_panel
    PROVE  PictureInv'
<1>1. UNCHANGED <<fb, orientation, scene>> /\ todo' = Tail(todo)
    BY DEF BusStep
<1>2. /\ Len(todo) > 1 /\ Head(todo) = <<"rst", IF j = 2 THEN 0 ELSE 1>>
      /\ Tail(todo) = IF j < 3 THEN Resetting(orientation, j + 1)
                      ELSE At(InitCommands(orientation), 1, 1)
    BY ResetSteps
<1>3. /\ cs' = 1 /\ doing' = "init" /\ shown' = shown
      /\ chip' = (IF j = 2 THEN reset_panel ELSE chip)
      /\ intact' = (intact \/ j = 2)
    BY <1>2 DEF BusStep
<1>4. PictureIn(fb', scene') /\ fb' = Zeros
    BY <1>1 DEF PictureInv
<1>5. intact' => chip' = reset_panel
    BY <1>3
<1>6. CASE j < 3
  <2>1. j + 1 \in 1..3 /\ todo' = Resetting(orientation', j + 1)
      BY <1>1, <1>2, <1>6
  <2> QED  BY <1>3, <1>4, <1>5, <2>1 DEF PictureInv
<1>7. CASE ~(j < 3)
  <2>1. SUFFICES ASSUME intact' PROVE Going(CallNow', todo', chip', reading', cs', dc')
      BY <1>3, <1>4 DEF PictureInv
  <2>2. CallNow' = CallNow /\ CallInv(CallNow)
      BY <1>1, <1>3, CallNowInv DEF CallNow
  <2>3. /\ CommandsOf(CallNow) = InitCommands(orientation) /\ Stage(CallNow, 1) = -16
        /\ CallNow.doing = "init"
      BY DEF CommandsOf, Stage, CallNow
  <2>4. chip' = reset_panel /\ todo' = At(CommandsOf(CallNow), 1, 1)
      BY <1>1, <1>2, <1>5, <1>7, <2>1, <2>3
  <2>5. Settled(reset_panel) /\ Dark(reset_panel)
      BY DEF Settled, Dark, reset_panel
  <2>6. Waiting(CallNow, Stage(CallNow, 1), reset_panel, 1)
      BY <2>3, <2>5 DEF Waiting, Prepared
  <2>7. Going(CallNow, At(CommandsOf(CallNow), 1, 1), reset_panel, reading', 1, dc')
      BY <2>2, <2>6, CallStarts, ZenonT(60)
  <2> QED  BY <1>3, <2>2, <2>4, <2>7
<1> QED  BY <1>6, <1>7

\* ... a step of the bus keeps it so ...
LEMMA PictureBusStep == ASSUME TypeInv, PictureInv, BusStep PROVE PictureInv'
<1>1. /\ UNCHANGED <<fb, orientation, scene>> /\ todo # <<>>
      /\ doing' \in {doing, "idle"}
    BY DEF BusStep
<1>2. PictureIn(fb', scene') /\ (doing' = "init" => fb' = Zeros)
    BY <1>1 DEF PictureInv
<1>3. CASE /\ doing = "init" /\ cs = 1 /\ \E j \in 1..3 : todo = Resetting(orientation, j)
           /\ intact => chip = reset_panel
  <2>1. PICK j \in 1..3 : todo = Resetting(orientation, j)
      BY <1>3
  <2>2. intact /\ j # 2 => chip = reset_panel
      BY <1>3
  <2> QED  BY <1>3, <2>1, <2>2, ResetStep
<1>4. CASE intact /\ doing \in {"init", "flush"} /\ Going(CallNow, todo, chip, reading, cs, dc)
  <2>1. CallInv(CallNow)
      BY <1>4, CallNowInv
  <2>2. /\ intact' = intact
        /\ \/ /\ doing' = doing /\ shown' = shown
              /\ Going(CallNow, todo', chip', reading', cs', dc')
           \/ /\ doing' = "idle" /\ shown' = scene
              /\ Waiting(CallNow, IF CallNow.doing = "init" THEN 5 ELSE 4, chip', cs')
      BY <1>4, <2>1, CallStep, ZenonT(60)
  <2>3. CASE doing' = doing /\ shown' = shown /\ Going(CallNow, todo', chip', reading', cs', dc')
    <3>1. CallNow' = CallNow
        BY <1>1, <2>3 DEF CallNow
    <3> QED  BY <1>2, <1>4, <2>3, <3>1 DEF PictureInv
  <2>4. CASE /\ doing' = "idle" /\ shown' = scene
             /\ Waiting(CallNow, IF CallNow.doing = "init" THEN 5 ELSE 4, chip', cs')
    <3> DEFINE n == IF CallNow.doing = "init" THEN 5 ELSE 4
    <3>1. cs' = 1 /\ Settled(chip') /\ Prepared(CallNow, n, chip')
        BY <2>4 DEF Waiting
    <3>2. /\ CallNow.orientation = orientation /\ CallNow.scene = scene
          /\ n >= 1 /\ (CallNow.doing = "init" => ~(n <= 4)) /\ (CallNow.doing # "init" => ~(n <= 3))
        BY DEF CallNow
    <3> HIDE DEF n
    <3>3. Flags(orientation, chip') /\ Lit(orientation, scene, chip')
        BY <3>1, <3>2 DEF Prepared
    <3> QED  BY <1>1, <1>2, <2>4, <3>1, <3>3 DEF PictureInv
  <2> QED  BY <2>2, <2>3, <2>4
<1>5. CASE ~intact /\ Sending(InitCommands(orientation))
  <2>1. InitCommands(orientation) \in Seq(Commands)
      BY InitCommandsType, Zenon
  <2>2. intact' = intact
      BY <1>5, <2>1, SendingStep, ZenonT(60)
  <2> QED  BY <1>2, <1>5, <2>2 DEF PictureInv
<1>6. CASE ~intact /\ Sending(FlushCommands(fb))
  <2>1. FlushCommands(fb) \in Seq(Commands)
      BY FlushCommandsType DEF TypeInv
  <2>2. intact' = intact
      BY <1>6, <2>1, SendingStep, ZenonT(60)
  <2> QED  BY <1>2, <1>6, <2>2 DEF PictureInv
<1>7. \/ doing = "init" /\ cs = 1 /\ \E j \in 1..3 : todo = Resetting(orientation, j)
      \/ Sending(InitCommands(orientation)) \/ Sending(FlushCommands(fb))
  <2>1. ScriptInv
      BY DEF TypeInv
  <2> QED  BY <1>1, <2>1 DEF ScriptInv
<1>8. intact /\ doing = "idle" => FALSE
  <2>1. doing = "idle" => todo = <<>>
      BY DEF TypeInv, ScriptInv
  <2> QED  BY <1>1, <2>1
<1>9. intact => \/ /\ doing = "init" /\ cs = 1 /\ chip = reset_panel
                   /\ \E j \in 1..3 : todo = Resetting(orientation, j)
                \/ doing \in {"init", "flush"} /\ Going(CallNow, todo, chip, reading, cs, dc)
    BY <1>8 DEF PictureInv
<1>10. intact \in BOOLEAN
    BY DEF TypeInv
<1> QED  BY <1>3, <1>4, <1>5, <1>6, <1>7, <1>9, <1>10

\* ... and so does every other.
LEMMA PictureStep == TypeInv /\ PictureInv /\ [Next]_vars => PictureInv'
<1> SUFFICES ASSUME TypeInv, PictureInv, [Next]_vars PROVE PictureInv'
    OBVIOUS
<1>1. CASE BusStep
    BY <1>1, PictureBusStep
<1>2. CASE WriteFails
  <2>1. doing' \in {"halted", "idle"} /\ intact' = FALSE /\ UNCHANGED <<fb, scene>>
      BY <1>2 DEF WriteFails
  <2> QED  BY <2>1 DEF PictureInv
<1>3. CASE \E s \in Scenes : RenderFrame(s)
  <2>1. PICK s \in Scenes : RenderFrame(s)
      BY <1>3
  <2>2. /\ doing = "idle" /\ scene' = s /\ fb' = blit_sprite(s)
        /\ todo' = flush(fb') /\ doing' = "flush"
        /\ UNCHANGED <<cs, dc, chip, reading, orientation, shown, intact>>
      BY <2>1 DEF RenderFrame
  <2>3. PictureIn(fb', scene') /\ fb' \in Buffers
      BY <2>2, BlitPicture, DrawType DEF blit_sprite
  <2>4. ASSUME intact PROVE Going(CallNow', todo', chip', reading', cs', dc')
    <3>1. /\ cs = 1 /\ Settled(chip) /\ shown = scene
          /\ Flags(orientation, chip) /\ Lit(orientation, scene, chip)
        BY <2>2, <2>4 DEF PictureInv
    <3> DEFINE call == CallNow'
    <3>2. /\ call.doing = "flush" /\ call.orientation = orientation /\ call.fb = fb'
          /\ call.scene = scene' /\ call.shown = shown
        BY <2>2 DEF CallNow
    <3> HIDE DEF call
    <3>3. CallInv(call)
      <4>1. orientation \in Orientations
          BY DEF TypeInv
      <4> QED  BY <2>3, <3>2, <4>1 DEF CallInv
    <3>4. Stage(call, 1) = 1 /\ CommandsOf(call) = FlushCommands(fb')
        BY <3>2 DEF Stage, CommandsOf
    <3>5. Waiting(call, 1, chip, 1)
        BY <3>1, <3>2 DEF Waiting, Prepared
    <3>6. Going(call, At(CommandsOf(call), 1, 1), chip, reading, 1, dc)
        BY <3>3, <3>4, <3>5, CallStarts, ZenonT(60)
    <3>7. todo' = At(CommandsOf(call), 1, 1)
      <4> DEFINE commands == FlushCommands(fb')
      <4>1. commands \in Seq(Commands) /\ Len(commands) = 3
          BY <2>3, FlushCommandsType
      <4> HIDE DEF commands
      <4>2. Len(commands) > 0
          BY <4>1
      <4>3. send(commands) = At(commands, 1, 1)
          BY <4>1, <4>2, SendIsAt
      <4> QED  BY <2>2, <3>4, <4>3 DEF flush, commands
    <3> QED  BY <2>2, <3>1, <3>6, <3>7 DEF call
  <2> QED  BY <2>2, <2>3, <2>4 DEF PictureInv
<1>4. CASE \E o \in Orientations : Restart(o)
  <2>1. fb' = Zeros /\ scene' = NoScene /\ intact' = FALSE
      BY <1>4 DEF Restart, Zeros
  <2> QED  BY <2>1, BlackPicture DEF PictureInv
<1>5. CASE UNCHANGED vars
  <2>1. UNCHANGED <<todo, doing, fb, cs, dc, chip, reading, orientation, scene, shown, intact>>
      BY <1>5 DEF vars
  <2>2. CallNow' = CallNow
      BY <2>1 DEF CallNow
  <2> QED  BY <2>1, <2>2 DEF PictureInv
<1> QED  BY <1>1, <1>2, <1>3, <1>4, <1>5 DEF Next

\* In every stage of a call the owner sees what the call found or what it leaves.
LEMMA PictureImplied == ASSUME PictureInv PROVE OnlyWholePictures
<1>1. SUFFICES ASSUME intact
      PROVE  \/ doing = "init" /\ chip.visible = Blank
             \/ chip.visible = Seen(orientation, scene)
             \/ doing = "flush" /\ chip.visible = Seen(orientation, shown)
    BY DEF OnlyWholePictures
<1>2. CASE doing = "init" /\ chip = reset_panel
    BY <1>2 DEF reset_panel
<1>3. CASE doing = "idle" /\ Lit(orientation, scene, chip)
    BY <1>3 DEF Lit
<1>4. CASE doing \in {"init", "flush"} /\ Going(CallNow, todo, chip, reading, cs, dc)
  <2>1. /\ CallNow.doing = doing /\ CallNow.orientation = orientation
        /\ CallNow.scene = scene /\ CallNow.shown = shown
      BY DEF CallNow
  <2>2. \E n : Prepared(CallNow, n, chip)
      BY <1>4 DEF Going, BeforeOp, Waiting, Selected, Busy
  <2>3. PICK n : Prepared(CallNow, n, chip)
      BY <2>2
  <2>4. CASE doing = "init"
      BY <2>1, <2>3, <2>4 DEF Prepared, Dark, Lit
  <2>5. CASE doing = "flush"
      BY <2>1, <2>3, <2>5 DEF Prepared, Lit
  <2> QED  BY <1>4, <2>4, <2>5
<1> QED  BY <1>1, <1>2, <1>3, <1>4 DEF PictureInv

\* Unless a write has failed since the reset, the owner sees nothing until the panel
\* has been cleared and whole pictures from then on: the last one sent or already the
\* one being sent, pixel for pixel the sprite that was converted, moved, mirrored and
\* rotated as its mount asks. This is on a panel of any size, with reads of any size,
\* and for every sprite and every place it is drawn at.
THEOREM WholePictures == Spec => []OnlyWholePictures
<1>1. Init => TypeInv /\ PictureInv
    BY TypeInit, PictureInit
<1>2. TypeInv /\ PictureInv /\ [Next]_vars => (TypeInv /\ PictureInv)'
    BY TypeStep, PictureStep
<1>3. TypeInv /\ PictureInv => OnlyWholePictures
    BY PictureImplied
<1> QED  BY <1>1, <1>2, <1>3, PTL DEF Spec

=============================================================================
