---------------------------- MODULE MCControlWire ---------------------------
(* TLC instance of ControlWire: one sound answer of the model and what may  *)
(* be odd about one, line ends and white space of other clients, frames     *)
(* that just fit and just do not, and lines that are behaviors only if      *)
(* pieces of two are joined.                                                *)
EXTENDS ControlWire

Word(n) == [i \in 1..n |-> "c"]
Blanks(n) == [i \in 1..n |-> " "]

Sound ==
    [v |-> 1, kind |-> "behavior", mood |-> "calm", animation |-> "idle", text |-> Word(2),
     alert |-> FALSE, duration_ms |-> 1000]

Without(raw, field) == [f \in DOMAIN raw \ {field} |-> raw[f]]
With(raw, field, value) == [f \in DOMAIN raw \cup {field} |-> IF f = field THEN value ELSE raw[f]]

\* Every animation, three of them at the edges of what is allowed.
MCValid ==
    {[With(Sound, "animation", a) EXCEPT
        !.alert = (a = "alert"),
        !.duration_ms = IF a = "nap" THEN 15000 ELSE 1000,
        !.text = CASE a = "happy" -> Blanks(1) \o Word(24) \o Blanks(2)
                   [] a = "alert" -> Blanks(3)
                   [] OTHER -> Word(2)] : a \in Animations}

Edges ==
    {<<"v", 2>>, <<"kind", "input">>, <<"mood", "angry">>, <<"mood", Ill>>, <<"animation", "sing">>,
     <<"alert", TRUE>>, <<"alert", Ill>>, <<"duration_ms", 999>>, <<"duration_ms", 15001>>,
     <<"duration_ms", Ill>>, <<"text", Ill>>, <<"text", Word(25)>>, <<"text", <<"c", "u">>>>,
     <<"text", <<"c", "n">>>>, <<"intent", "play">>, <<"intent", "sing">>,
     <<"body_state", "awake">>, <<"body_state", "floating">>, <<"body_state", Ill>>,
     <<"volume", 3>>}

MCOutputs ==
    MCValid \cup {With(Sound, e[1], e[2]) : e \in Edges}
    \cup {Without(Sound, f) : f \in DOMAIN Sound \ {"text"}}

Blank(n) == Piece("blank", n)
Junk(n) == Piece("junk", n)

Walk == [mood |-> "curious", animation |-> "walk", text |-> Word(24), alert |-> FALSE,
         duration_ms |-> 1000]
Asked(text, ms) == Object([Walk EXCEPT !.text = text, !.duration_ms = ms])
End == Piece("CR", None)

Line(pieces) == Append(pieces, LineFeed(Meaning(pieces)))

\* Walk takes 136 bytes at the most.
MCForeign ==
    {Line(<<Blank(2)>> \o Asked(Blanks(3) \o Word(30), 5) \o <<End>>),
     Line(<<Blank(120)>> \o Asked(Word(24), 1000)),
     Line(Append(Asked(Word(24), 1000), Blank(121))),
     Line(Asked(Word(97), 1000)),
     Line(Object([Walk EXCEPT !.mood = "happy", !.alert = TRUE])),
     Line(SubSeq(Object(Walk), 1, 3)),
     Line(SubSeq(Object(Walk), 4, 7)),
     Line(Object(Walk) \o Object(Walk)),
     Line(<<Junk(256)>>), Line(<<Junk(257), Blank(1)>>)}

MCGestures == {Touch("tap", None), Touch("doubletap", None), Touch("hold", 60000)}
MCNoise == {<<LineFeed(None)>>, <<Junk(200), Junk(90), LineFeed(None)>>}

=============================================================================
