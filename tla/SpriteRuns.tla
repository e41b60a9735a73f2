----------------------------- MODULE SpriteRuns -----------------------------
(***************************************************************************)
(* How a sprite travels: host/tools/convert_sprite_sheet.py crops a cell   *)
(* of the sheet to what is visible and packs it into transparent and solid *)
(* runs; SpritePixels of device/src/render.rs unpacks it, pixel by pixel,  *)
(* at the place the scene has chosen.                                      *)
(*                                                                         *)
(* A cell is a function from its points to palette entries or None.  A     *)
(* command is a run's length less one, with SOLID_RUN_FLAG, the power of   *)
(* two that no such length reaches, added if a palette entry follows.      *)
(***************************************************************************)
EXTENDS Integers, Sequences, SequencesExt

CONSTANTS
    MAX_RUN_LEN,        \* 128 in the code
    None

ASSUME SpriteRunsAssumption == MAX_RUN_LEN \in Nat \ {0}

SOLID_RUN_FLAG == MAX_RUN_LEN
IsSolid(command) == command >= SOLID_RUN_FLAG

-----------------------------------------------------------------------------
(***************************************************************************)
(* The converter.                                                          *)
(***************************************************************************)
\* Mutant of RunLength: equal pixels after a run of another length are taken in.
RunLength_unbounded(indices, pos) ==
    Max({n \in 1..Len(indices) - pos + 1 : \A k \in pos..pos + n - 1 : indices[k] = indices[pos]})

\* The length of the run that begins at a position.
RunLength(indices, pos) ==
    LET longest == Min({MAX_RUN_LEN, Len(indices) - pos + 1})
    IN  Max({n \in 1..longest : \A k \in pos..pos + n - 1 : indices[k] = indices[pos]})

encode_rle(indices) ==
    LET Run(length, value) ==
            IF value = None THEN <<length - 1>> ELSE <<SOLID_RUN_FLAG + length - 1, value>>
        from[pos \in 1..Len(indices) + 1] ==
            IF pos > Len(indices) THEN <<>>
            ELSE LET length == RunLength(indices, pos)
                 IN  Run(length, indices[pos]) \o from[pos + length]
    IN  from[1]

\* The box of what is visible in a cell, row by row in runs.
encode_sprite(cell) ==
    LET visible == {p \in DOMAIN cell : cell[p] # None}
        xs == {p[1] : p \in visible}
        ys == {p[2] : p \in visible}
        width == Max(xs) - Min(xs) + 1
        height == Max(ys) - Min(ys) + 1
        indices == [k \in 1..width * height |->
                       cell[<<Min(xs) + ((k - 1) % width), Min(ys) + ((k - 1) \div width)>>]]
    IN  IF visible = {} THEN [x |-> 0, y |-> 0, width |-> 0, height |-> 0, data |-> <<>>]
        ELSE [x |-> Min(xs), y |-> Min(ys), width |-> width, height |-> height,
              data |-> encode_rle(indices)]

-----------------------------------------------------------------------------
(***************************************************************************)
(* The firmware.  The iterator's state between two bytes of the stream:    *)
(* the next pixel, the length of the solid run whose colour is still to    *)
(* come (0 if none), and the pixels it has given so far.                   *)
(***************************************************************************)
\* Mutant of RunLen: the length is taken as it is written.
RunLen_short(command) == command % SOLID_RUN_FLAG

RunLen(command) == (command % SOLID_RUN_FLAG) + 1

DecodeByte(total, d, byte) ==
    LET run == d.index..Min({d.index + d.solid, total}) - 1
    IN  CASE d.index >= total -> d
          [] d.index < total /\ d.solid > 0 ->
                [index |-> d.index + d.solid, solid |-> 0,
                 entries |-> [k \in DOMAIN d.entries \cup run |->
                                 IF k \in run THEN byte ELSE d.entries[k]]]
          [] d.index < total /\ d.solid = 0 /\ IsSolid(byte) -> [d EXCEPT !.solid = RunLen(byte)]
          [] OTHER -> [d EXCEPT !.index = @ + RunLen(byte)]

\* SpritePixels: the points a sprite paints from an origin, with their palette
\* entries.
SpritePixels(sprite, origin) ==
    LET total == sprite.width * sprite.height
        start == [index |-> 0, solid |-> 0, entries |-> [k \in {} |-> 0]]
        after[n \in 0..Len(sprite.data)] ==
            IF n = 0 THEN start ELSE DecodeByte(total, after[n - 1], sprite.data[n])
        entries == after[Len(sprite.data)].entries
        Point(k) == <<origin[1] + (k % sprite.width), origin[2] + (k \div sprite.width)>>
        Index(p) == (p[2] - origin[2]) * sprite.width + p[1] - origin[1]
    IN  [p \in {Point(k) : k \in DOMAIN entries} |-> entries[Index(p)]]

=============================================================================
