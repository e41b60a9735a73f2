----------------------------- MODULE ControlWire ----------------------------
(***************************************************************************)
(* What travels on the control connection, byte stream to meaning, in both *)
(* directions.  Downlink: the host validates what the model proposes       *)
(* (host/protocol.py) and sends it as a line; the firmware's               *)
(* read_control_stream cuts the stream into frames (main.rs) and parses    *)
(* them (behavior.rs).  Uplink: encode_input_frame (touch/src/lib.rs)      *)
(* against _consume_lines and parse_input_frame (host/transport.py).       *)
(*                                                                         *)
(* A line is a sequence of pieces: one for a field of a JSON object with   *)
(* the comma or brace that belongs to it, one for a run of white space or  *)
(* of other bytes, one for CR and one for LF.  A piece has been read when  *)
(* its last byte has.  The LF piece also records what the sender means by  *)
(* the line it ends: history, which no reader looks at.                    *)
(***************************************************************************)
EXTENDS AsciiText

CONSTANTS
    Outputs,            \* JSON objects the model may answer with
    Foreign,            \* lines another client may send
    Gestures,           \* gestures the touch task may hand over
    Noise,              \* uplink lines that are not input frames
    MaxLines,           \* bound on the lines on their way, both directions together
    None,               \* Python's and Rust's None
    Ill                 \* a value that is not of the type its field has

\* Printable ASCII, and the other characters a text may have here: "u", which is
\* not ASCII, and "n", which is not printable.
Printable == {"c", " "}
Characters == Printable \cup {"u", "n"}

ASSUME ControlWireAssumption == MaxLines \in Nat \ {0}

VARIABLES
    down,                           \* sent and not yet read by the device
    read_buf,                       \* what read_control_stream has still to look at
    frame, frame_len, dropping_line,
    up,                             \* written and not yet read by the host
    buffer                          \* of the reader thread

\* History, of the last step only: the update queued and the one that was due;
\* the touch handed to the loop and the one that was meant.
VARIABLES accepted, due, heard, said

down_vars == <<down, read_buf, frame, frame_len, dropping_line>>
up_vars == <<up, buffer>>
vars == <<down_vars, up_vars, accepted, due, heard, said>>

TEXT_CAPACITY == 24
FRAME_CAPACITY == 256
READ_BUF_LEN == 64
RAW_TEXT_CAPACITY == 96
MIN_DURATION_MS == 1000
MAX_DURATION_MS == 15000
INPUT_FRAME_CAPACITY == 96
MAX_UPLINK_LINE_BYTES == 256
RECV_BYTES == 256
TOUCH_DURATION_MAX_MS == 60000

Piece(key, value) == [key |-> key, value |-> value]
LineFeed(meaning) == Piece("LF", meaning)

\* The most bytes a field takes.
FieldSize ==
    [v |-> 7, kind |-> 18, mood |-> 17, animation |-> 26, alert |-> 14, duration_ms |-> 20,
     source |-> 17, gesture |-> 22, CR |-> 1, LF |-> 1]

Size(piece) ==
    CASE piece.key = "text" -> 10 + Len(piece.value)
      [] piece.key \in {"blank", "junk"} -> piece.value
      [] OTHER -> FieldSize[piece.key]

TotalSize(pieces) ==
    LET size[n \in 0..Len(pieces)] == IF n = 0 THEN 0 ELSE size[n - 1] + Size(pieces[n])
    IN  size[Len(pieces)]

Lines(pieces) == {i \in DOMAIN pieces : pieces[i].key = "LF"}

\* Whether one read of at most so many bytes can complete n pieces: all of the
\* first but its last byte may have come before.
CanRead(pieces, n, bytes) == TotalSize(SubSeq(pieces, 2, n)) < bytes

From(pieces, n) == SubSeq(pieces, n, Len(pieces))

Given(pieces, key) == {i \in DOMAIN pieces : pieces[i].key = key}

\* What an object says of a field.
Value(pieces, key) ==
    IF Given(pieces, key) = {} THEN None ELSE pieces[Max(Given(pieces, key))].value

-----------------------------------------------------------------------------
(***************************************************************************)
(* The host: what a behavior must be, and its line.                        *)
(***************************************************************************)
ANIMATION_TO_MOOD ==
    [idle |-> "calm", blink |-> "calm", look_around |-> "curious", confused |-> "curious",
     walk |-> "curious", happy |-> "happy", play |-> "happy", excited |-> "happy",
     sleepy |-> "sleepy", nap |-> "sleepy", worried |-> "worried", alert |-> "alert"]

ALLOWED_MOODS == {ANIMATION_TO_MOOD[a] : a \in DOMAIN ANIMATION_TO_MOOD}
ALLOWED_FIELDS == {"v", "kind", "mood", "animation", "text", "alert", "duration_ms"}
PROPOSAL_FIELDS == ALLOWED_FIELDS \cup {"intent", "body_state"}
ALLOWED_INTENTS ==
    {"stay_asleep", "wake_up", "soft_reunion", "seek_attention", "play", "soothe", "settle",
     "celebrate", "comfort_self", "alert_owner"}

Get(raw, field) == IF field \in DOMAIN raw THEN raw[field] ELSE None

StrippedText(raw) == IF Get(raw, "text") = None THEN <<>> ELSE trim(raw.text)

\* _validate_behavior_object: what a proposal must be to be used.
Valid(raw) ==
    /\ DOMAIN raw \subseteq PROPOSAL_FIELDS
    /\ Get(raw, "v") = 1 /\ Get(raw, "kind") = "behavior"
    /\ Get(raw, "animation") \in DOMAIN ANIMATION_TO_MOOD
    /\ Get(raw, "mood") \in ALLOWED_MOODS
    /\ Get(raw, "alert") \in BOOLEAN
    /\ raw.alert = (raw.animation = "alert")
    /\ Get(raw, "duration_ms") \in MIN_DURATION_MS..MAX_DURATION_MS
    /\ Get(raw, "text") # Ill
    /\ LET text == StrippedText(raw)
       IN  Len(text) <= TEXT_CAPACITY /\ \A i \in DOMAIN text : text[i] \in Printable
    /\ Get(raw, "intent") \in ALLOWED_INTENTS \cup {None, ""}
    /\ Get(raw, "body_state") # Ill

\* The behavior of a valid proposal.
Command(raw) ==
    [mood |-> ANIMATION_TO_MOOD[raw.animation], animation |-> raw.animation,
     text |-> StrippedText(raw), alert |-> raw.alert, duration_ms |-> raw.duration_ms]

Object(c) ==
    <<Piece("v", 1), Piece("kind", "behavior"), Piece("mood", c.mood),
      Piece("animation", c.animation), Piece("text", c.text), Piece("alert", c.alert),
      Piece("duration_ms", c.duration_ms)>>

to_json_line(c) == Append(Object(c), LineFeed(c))

-----------------------------------------------------------------------------
(***************************************************************************)
(* The firmware: what a frame must be, and the update it is.               *)
(***************************************************************************)
Moods == {"calm", "curious", "happy", "sleepy", "worried", "alert"}
Animations == {"idle", "blink", "look_around", "confused", "walk", "happy", "play",
               "excited", "sleepy", "nap", "worried", "alert"}
Required == {"v", "kind", "mood", "animation", "alert", "duration_ms"}

\* serde_json_core reads the frame as one RawBehaviorUpdate.
IsRawBehaviorUpdate(pieces) ==
    /\ \A i \in DOMAIN pieces : pieces[i].key \in Required \cup {"text", "blank"}
    /\ \A key \in Required \cup {"text"} : \A i, j \in Given(pieces, key) : i = j
    /\ \A key \in Required : Given(pieces, key) # {}
    /\ Value(pieces, "mood") \in Moods /\ Value(pieces, "animation") \in Animations
    /\ Value(pieces, "alert") \in BOOLEAN /\ Value(pieces, "duration_ms") \in Nat
    /\ \A i \in Given(pieces, "text") : Len(pieces[i].value) <= RAW_TEXT_CAPACITY

mood_matches_animation(mood, animation) ==
    <<mood, animation>> \in
        {<<"calm", "idle">>, <<"calm", "blink">>, <<"curious", "look_around">>,
         <<"curious", "confused">>, <<"curious", "walk">>, <<"happy", "happy">>,
         <<"happy", "play">>, <<"happy", "excited">>, <<"sleepy", "sleepy">>,
         <<"sleepy", "nap">>, <<"worried", "worried">>, <<"alert", "alert">>}

\* Mutant of clamp_text: blanks are trimmed, but nothing is cut.
clamp_text_uncut(text) == trim(text)

clamp_text(text) ==
    LET trimmed == trim(text) IN SubSeq(trimmed, 1, Min({TEXT_CAPACITY, Len(trimmed)}))

\* The update a frame is, if it is one; no text and an empty one are the same.
parse(pieces) ==
    LET mood == Value(pieces, "mood")
        animation == Value(pieces, "animation")
        alert == Value(pieces, "alert")
        text == Value(pieces, "text")
        asked == Value(pieces, "duration_ms")
    IN  IF /\ IsRawBehaviorUpdate(pieces)
           /\ Value(pieces, "v") = 1 /\ Value(pieces, "kind") = "behavior"
           /\ mood_matches_animation(mood, animation)
           /\ alert = (animation = "alert")
        THEN [mood |-> mood, animation |-> animation,
              text |-> IF text = None THEN <<>> ELSE clamp_text(text), alert |-> alert,
              duration_ms |-> Min({Max({asked, MIN_DURATION_MS}), MAX_DURATION_MS})]
        ELSE None

-----------------------------------------------------------------------------
(***************************************************************************)
(* The uplink's two ends.                                                  *)
(***************************************************************************)
Touch(gesture, duration) == [gesture |-> gesture, duration_ms |-> duration]

\* The line of a gesture, unless it does not fit.
encode_input_frame(g) ==
    LET of_hold == IF g.gesture = "hold" THEN <<Piece("duration_ms", g.duration_ms)>> ELSE <<>>
        line == <<Piece("v", 1), Piece("kind", "input"), Piece("source", "touch"),
                  Piece("gesture", g.gesture)>> \o of_hold \o <<LineFeed(g)>>
    IN  IF TotalSize(line) <= INPUT_FRAME_CAPACITY THEN line ELSE None

TOUCH_GESTURES == {"tap", "hold", "doubletap"}

\* The touch a line reports, or None; a hold needs its duration, the others
\* must not have one.
parse_input_frame(line) ==
    LET gesture == Value(line, "gesture")
        duration == Value(line, "duration_ms")
    IN  IF /\ Given(line, "junk") = {}
           /\ Value(line, "v") = 1 /\ Value(line, "kind") = "input"
           /\ Value(line, "source") = "touch" /\ gesture \in TOUCH_GESTURES
           /\ IF gesture = "hold" THEN duration \in Nat ELSE duration = None
        THEN Touch(gesture, duration) ELSE None

\* The touch as the loop gets it.
submit_touch(touch) ==
    IF touch = None \/ touch.duration_ms = None THEN touch
    ELSE [touch EXCEPT !.duration_ms = Min({@, TOUCH_DURATION_MAX_MS})]

-----------------------------------------------------------------------------
(***************************************************************************)
(* What may be sent.                                                       *)
(***************************************************************************)
\* A frame is what a line is without its CRs.
WithoutCR(pieces) ==
    LET kept[n \in 0..Len(pieces)] ==
            IF n = 0 THEN <<>>
            ELSE IF pieces[n].key = "CR" THEN kept[n - 1] ELSE Append(kept[n - 1], pieces[n])
    IN  kept[Len(pieces)]

\* What a line means by itself, with all the firmware's buffer for its frame.
Meaning(pieces) ==
    IF TotalSize(WithoutCR(pieces)) <= FRAME_CAPACITY THEN parse(WithoutCR(pieces)) ELSE None

SoundPiece(p) ==
    \/ p.key = "text" /\ p.value \in Seq(Characters)
    \/ p.key \in {"blank", "junk"} /\ p.value \in Nat
    \/ p.key \in DOMAIN FieldSize

\* A line is a sequence of pieces that ends with its only line feed.
IsLine(line) ==
    /\ Len(line) \in Nat \ {0} /\ line = [i \in 1..Len(line) |-> line[i]]
    /\ \A i \in 1..Len(line) : SoundPiece(line[i])
    /\ Lines(line) = {Len(line)}

ASSUME NoneAssumption ==
    /\ None \notin DOMAIN ANIMATION_TO_MOOD /\ None \notin BOOLEAN
    /\ None \notin Nat /\ None \notin Seq(Characters)

ASSUME OutputsAssumption ==
    \A raw \in Outputs :
        "text" \in DOMAIN raw /\ raw.text \notin {None, Ill} => raw.text \in Seq(Characters)

ASSUME ForeignAssumption ==
    \A line \in Foreign :
        IsLine(line) /\ line[Len(line)].value = Meaning(SubSeq(line, 1, Len(line) - 1))

ASSUME GesturesAssumption ==
    Gestures \subseteq {Touch("tap", None), Touch("doubletap", None)}
                       \cup {Touch("hold", ms) : ms \in 0..TOUCH_DURATION_MAX_MS}

\* Noise is no touch, nor is what is left of it when the reader has forgotten
\* more than it keeps.
ASSUME NoiseAssumption ==
    \A line \in Noise :
        /\ IsLine(line) /\ line[Len(line)].value = None
        /\ \A n \in 0..Len(line) - 1 :
              n = 0 \/ TotalSize(SubSeq(line, 1, n)) > MAX_UPLINK_LINE_BYTES =>
                  parse_input_frame(SubSeq(line, n + 1, Len(line) - 1)) = None

-----------------------------------------------------------------------------
(***************************************************************************)
(* The two streams.                                                        *)
(***************************************************************************)
RoomForLine ==
    Cardinality(Lines(read_buf \o down)) + Cardinality(Lines(buffer \o up)) < MaxLines

Nothing == accepted' = None /\ due' = None /\ heard' = None /\ said' = None

Send(line) ==
    /\ RoomForLine
    /\ down' = down \o line
    /\ Nothing
    /\ UNCHANGED <<read_buf, frame, frame_len, dropping_line, up_vars>>

\* What the host may have to send, the model answering what it likes.
Commands == {Command(raw) : raw \in {output \in Outputs : Valid(output)}}

\* send, send_keepalive, and another client.
HostSends(command) == Send(to_json_line(command))
HostKeepsAlive == Send(<<LineFeed(None)>>)
OtherSends(line) == Send(line)

\* reader.read
Read(n) ==
    /\ read_buf = <<>> /\ CanRead(down, n, READ_BUF_LEN)
    /\ read_buf' = SubSeq(down, 1, n) /\ down' = From(down, n + 1)
    /\ Nothing
    /\ UNCHANGED <<frame, frame_len, dropping_line, up_vars>>

\* Mutant of EndOfLine: a line that was too long takes the next ones with it.
EndOfLine_still_dropping ==
    /\ Head(read_buf).key = "LF"
    /\ accepted' = IF dropping_line THEN None ELSE parse(frame)
    /\ due' = Head(read_buf).value
    /\ frame' = <<>> /\ frame_len' = 0 /\ UNCHANGED dropping_line
    /\ heard' = None /\ said' = None

\* The line is over: handle_frame, unless it was too long.
EndOfLine ==
    /\ Head(read_buf).key = "LF"
    /\ accepted' = IF dropping_line THEN None ELSE parse(frame)
    /\ due' = Head(read_buf).value
    /\ frame' = <<>> /\ frame_len' = 0 /\ dropping_line' = FALSE
    /\ heard' = None /\ said' = None

Accumulate(piece) ==
    /\ piece.key # "LF"
    /\ IF piece.key = "CR" \/ dropping_line
       THEN UNCHANGED <<frame, frame_len, dropping_line>>
       ELSE IF frame_len + Size(piece) <= FRAME_CAPACITY
       THEN /\ frame' = Append(frame, piece) /\ frame_len' = frame_len + Size(piece)
            /\ UNCHANGED dropping_line
       ELSE dropping_line' = TRUE /\ frame_len' = FRAME_CAPACITY /\ UNCHANGED frame
    /\ Nothing

\* The loop over the bytes of one read.
TakePiece ==
    /\ read_buf # <<>>
    /\ EndOfLine \/ Accumulate(Head(read_buf))
    /\ read_buf' = Tail(read_buf)
    /\ UNCHANGED <<down, up_vars>>

TouchSent(g) ==
    /\ RoomForLine /\ encode_input_frame(g) # None
    /\ up' = up \o encode_input_frame(g)
    /\ Nothing
    /\ UNCHANGED <<down_vars, buffer>>

NoiseSent(line) ==
    /\ RoomForLine
    /\ up' = up \o line
    /\ Nothing
    /\ UNCHANGED <<down_vars, buffer>>

\* The end of _consume_lines: a line without an end may not grow for ever.
Kept(pieces) ==
    IF Lines(pieces) = {} /\ TotalSize(pieces) > MAX_UPLINK_LINE_BYTES THEN <<>> ELSE pieces

\* Mutant of Recv: what was left of the last recv is forgotten.
Recv_forgets(n) ==
    /\ Lines(buffer) = {} /\ CanRead(up, n, RECV_BYTES)
    /\ buffer' = Kept(SubSeq(up, 1, n)) /\ up' = From(up, n + 1)
    /\ Nothing
    /\ UNCHANGED down_vars

\* recv
Recv(n) ==
    /\ Lines(buffer) = {} /\ CanRead(up, n, RECV_BYTES)
    /\ buffer' = Kept(buffer \o SubSeq(up, 1, n)) /\ up' = From(up, n + 1)
    /\ Nothing
    /\ UNCHANGED down_vars

\* _consume_lines and _handle_line, for the first line there is.
ConsumeLine ==
    LET end == Min(Lines(buffer))
    IN  /\ Lines(buffer) # {}
        /\ heard' = submit_touch(parse_input_frame(SubSeq(buffer, 1, end - 1)))
        /\ said' = buffer[end].value
        /\ buffer' = Kept(From(buffer, end + 1))
        /\ accepted' = None /\ due' = None
        /\ UNCHANGED <<down_vars, up>>

\* The connection ends and another begins: what was on its way is lost, and
\* both readers begin a line.
Reconnect ==
    /\ read_buf = <<>> /\ Lines(buffer) = {}
    /\ down' = <<>> /\ frame' = <<>> /\ frame_len' = 0 /\ dropping_line' = FALSE
    /\ up' = <<>> /\ buffer' = <<>>
    /\ Nothing
    /\ UNCHANGED read_buf

Init ==
    /\ down = <<>> /\ read_buf = <<>>
    /\ frame = <<>> /\ frame_len = 0 /\ dropping_line = FALSE
    /\ up = <<>> /\ buffer = <<>>
    /\ accepted = None /\ due = None /\ heard = None /\ said = None

Next ==
    \/ \E command \in Commands : HostSends(command)
    \/ HostKeepsAlive
    \/ \E line \in Foreign : OtherSends(line)
    \/ \E n \in DOMAIN down : Read(n)
    \/ TakePiece
    \/ \E g \in Gestures : TouchSent(g)
    \/ \E line \in Noise : NoiseSent(line)
    \/ \E n \in DOMAIN up : Recv(n)
    \/ ConsumeLine
    \/ Reconnect

Spec == Init /\ [][Next]_vars

-----------------------------------------------------------------------------
\* The updates a device may show.
BehaviorUpdates ==
    {u \in [mood : Moods, animation : Animations, text : Seq(Characters),
            alert : BOOLEAN, duration_ms : MIN_DURATION_MS..MAX_DURATION_MS] :
        /\ mood_matches_animation(u.mood, u.animation)
        /\ u.alert = (u.animation = "alert")
        /\ Len(u.text) <= TEXT_CAPACITY}

\* The frame never outgrows its buffer, and a line that did is dropped to its
\* end with nothing of it in the next.
TypeOK ==
    /\ frame_len \in 0..FRAME_CAPACITY /\ dropping_line \in BOOLEAN
    /\ dropping_line => frame_len = FRAME_CAPACITY
    /\ frame = <<>> => frame_len = 0 \/ dropping_line

\* "malformed or mismatched frames rejected", "firmware clamps": whatever comes
\* down the connection, what is queued for the renderer is an update it can show.
OnlyUpdatesAreQueued == accepted \in BehaviorUpdates \cup {None}

\* What the host has validated is what the device shows, word for word: no
\* cutting of the stream into reads, no other client's line, no line too long
\* and no lost connection makes it lose, join or alter a line that arrived, and
\* the two sides do not differ about what a behavior may be.
SentIsShown == accepted = due

\* Every gesture the device has written reaches the loop as it was meant, with
\* its duration, however recv cuts the stream and whatever else is in it.
TouchIsHeard == heard = said

=============================================================================
