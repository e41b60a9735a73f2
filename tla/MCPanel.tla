------------------------------- MODULE MCPanel ------------------------------
(* A panel of nine pixels.  One cell reaches over its edges and has runs    *)
(* longer than one command holds; the words of the other include the bytes  *)
(* of DISPLAY_ON, DISPLAY_OFF and WRITE_RAM.                                *)
EXTENDS Panel, TLC

Word(red, green, blue) == 2048 * red + 32 * green + blue

MCPalette == <<0, Word(21, 53, 28), Word(21, 56, 28), Word(11, 32, 3), Word(31, 63, 0), Word(1, 2, 30)>>

\* Rows of entries; None is transparent.
Cell(rows) ==
    [p \in (0..Len(rows[1]) - 1) \X (0..Len(rows) - 1) |-> rows[p[2] + 1][p[1] + 1]]

Overlapping ==
    [cell |-> Cell(<<<<None, None, None, None, 5, None>>,
                     <<None, 4, 4, 4, 4, 3>>,
                     <<None, 5, None, None, 1, 5>>,
                     <<None, None, 3, None, None, None>>>>),
     x |-> -2, y |-> 0]
Commands ==
    [cell |-> Cell(<<<<1, 3, 3>>, <<3, 2, 3>>, <<5, None, 1>>>>), x |-> 0, y |-> 0]

MCScenes == {Overlapping, Commands}
MCOrientations == {PANEL, CUBE, CUBE_ROTATED_CW}

=============================================================================
