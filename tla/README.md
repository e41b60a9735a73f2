# A TLA+ model of Hologotchi

Hologotchi is a desk pet: an ESP32-C3 with a small OLED and a touch pad (Rust,
`device/`), and a host service (Python, `host/`) that keeps the pet's inner life,
asks a language model for its next behavior and sends it to the device.  This
directory holds TLA+ modules translated from that code, the TLC configurations
that check them on small instances, and TLAPS proofs of the results that hold
for every instance.

Paths such as `host/memory.py` are relative to the repository's `src/`.  Model-check
a module with `tlc -config <X>.cfg <module>`, prove one with `tlapm <M>Proofs.tla`.

## 1. The system

### Device: one cooperative embassy executor, tasks interleave only at an `await`

| part | state | operations | hard behaviour | correct if |
|---|---|---|---|---|
| touch classifier, `device/touch/src/lib.rs` | debouncer levels and time, gesture phase, rate-limit baseline | `update` per 5 ms sample | boundaries of four time windows, a limiter that can swallow a gesture | bounces make no gesture; each contact is accounted for once; the limiter never eats a pending tap; a hold carries its own duration |
| firmware tasks, `device/src/bin/main.rs` | `INPUT_CHANNEL` (8 gestures), `HOST_CONNECTED`, `PENDING_BEHAVIOR` (one slot), one TCP socket | `touch_task`, `behavior_server_task` (`read_control_stream` and `write_input_stream` under `select`), `render_task`, `wifi_connection_loop` | cancellation by `select`, half-dead connections, queue overflow, state that outlives a connection | a touch is uplinked or acknowledged, never both, in order, on the connection it was made on; the latest update is drawn; a dead link is given up |
| scene, `device/src/render.rs`, `behavior.rs`, the tables of `shiro_sprites.rs` | frame counter, active behavior, its age and frames left | `apply_behavior`, `tick`, `draw`: the local idle loop, pose and offset, bubble, border | a counter that wraps, three loops with other periods, behaviors that begin and end anywhere in them | the picture moves, smoothly, stays on the panel, and keeps its text readable and off the face |
| display driver, `device/src/display.rs`, and the simulated panel, `device/wokwi/src/ssd1351.c` | framebuffer; command state machine | `init`, `flush`; SPI bytes | agreement of two state machines about every byte, restarts half way | the owner sees whole pictures, the right way round |

### Host: a loop thread, the uplink reader thread and one thread per HTTP request

| part | state | operations | hard behaviour | correct if |
|---|---|---|---|---|
| transport, `host/transport.py` | `_sock`, `_closed`, `_ever_connected`, two locks, the reader's buffer | `send`, `send_keepalive`, `close`, `_read_loop`, `_probe_reconnect` | every thread may replace, drop or close the socket; lines cut by a timeout | one live socket; none leaked; no line glued to another connection's; the link comes back |
| input queue, presence mailbox, HTTP control, `inputs.py`, `presence.py`, `control.py` | FIFO of inputs, one pending flag, records with a time to live | `submit_*`, `wait`; `set_*`, `get`, `next_expiry_at` | coalesced wake-ups, expiry while the loop sleeps | no wake-up is lost; a stale source is noticed in time |
| body and affect, `body.py`, `affect.py` | body state and its times; bounded needs | `advance`, `resolve`; drift and effects | long sequences of legal ticks, restart with stored times | clock, state and frame agree; sleepers wake gently; naps survive restarts |
| pet loop, `pet_loop.py`, `state.py` | pending event, recent phrases and animations, burn-in timer | one tick | the order of the steps of a tick, keepalive spacing | no static pose burns in; the device hears of the host before its timeout |
| memory, `memory.py`, `reflection.py` | SQLite store, write switch | capture, forget, reset, save, load | HTTP threads against the loop, a restart between two saves | facts rest on observations and are there once; forgetting, pausing and resetting do what they say |
| wire formats, `protocol.py`, `behavior.rs`, `encode_input_frame`, `parse_input_frame`, the framing loops of both readers | bytes of the line being read | validate, encode, frame, parse | reads that cut lines anywhere, lines that are too long, limits kept at both ends | only updates the device can show are queued; what one end sends is what the other understands |
| AirPods helper, demo driver | debouncer; held pose | polling loop; heartbeat | stale resends | the last pose held is the one repeated |

The device opens the only server socket; the host connects, sends one behavior per
line and reads one gesture per line from the same connection.  A gesture read by
the reader thread enters the same queue as the HTTP inputs; the loop takes one
input per tick, updates presence, affect and body, asks the model, and sends the
behavior.

`PROJECT.json` lists every part with what is modelled of it, and under `hazards`
what in this code is hard to test, each with the properties that would catch it.

## 2. Modules

| module | models | composed with |
|---|---|---|
| `TouchClassifier` | `device/touch/src/lib.rs` | stands alone; `DeviceLink` takes a finished gesture as its input |
| `DeviceLink` | the firmware's tasks, queues and flags, and the life of a behavior in the scene | device end of the link |
| `ControlWire` | what travels on the connection, from a proposal to an update and from a gesture to an input of the loop | both ends of the link, byte stream to meaning |
| `HostTransport` | `BehaviorClient` thread step by thread step | host end of the link; implements `SingleLink` |
| `SingleLink` | what the client promises of its connection | abstract specification |
| `PresenceWake` | mailbox, input queue, `/presence` handlers, the loop's reading, waiting and keepalives | the loop's view of the owner, and its word to the device |
| `PetBody` | a turn of the loop with body, presence tracker, energy and sleepiness, and the rows they are saved to | three files and the store, in one module since a turn is one sequence of calls |
| `MemoryStore` | the store between the loop's turns, consolidation, callbacks, `/memory` requests | loop, store and control server |
| `Scene` | `device/src/render.rs`: which pose is drawn where, with which bubble and border | on `ShiroSprites` and `AsciiText` |
| `ShiroSprites` | the generated tables of `device/src/shiro_sprites.rs` | data of `Scene` |
| `AsciiText` | `trim` and what a blank is | `Scene`, `ControlWire` |
| `SpriteRuns` | the encoder of the sprite converter and the firmware's decoder | `Panel` draws through both |
| `Panel` | the SSD1351 driver and, at the other end of the bus, the simulated controller | both ends of the SPI bus |

`<M>Proofs` holds the theorems of module `M`, `DeviceProofs` those of `TouchClassifier`
and `DeviceLink`; `MC<M>` and its `.cfg` files the
instances for TLC.

In each module one step is what the code does without giving another actor a
chance: the code between two `await`s of the firmware, the code under one lock or
one blocking call of a host thread, a whole call of `update`, a byte on the bus.
Variables with the source's names are the program's fields; those declared apart,
under a comment, are history that properties read and no guard does.  A definition
named `<x>_<how>` just above `<x>` is a deliberately broken variant of it, used to
see that a property notices (`PROJECT.json`, `mutants`).

### TouchClassifier

`Update(gap)` is one call of `TouchClassifier::update`: `debounce` (`RawSince`,
`IsEdge`), then `on_press`, `on_release` or `on_tick`.  Times are milliseconds,
`saturating_sub` as in the code.  `last_edge_ms`, `last_burst_ms` and `unclaimed`
are history.  The clock is a 64-bit count of milliseconds in the code and does not
overflow; the hold's duration is capped as in `clamp_duration`.

### DeviceLink

| actions | code |
|---|---|
| `touch_task` | one gesture: `enqueue_input` or a local acknowledgement by `HOST_CONNECTED` |
| `ConfigUp`, `Accept`, `AcceptFails`, `BackoffOver` | the loop of `behavior_server_task` up to `accept` |
| `ReadFrames`, `ReadEnds` | `read_control_stream`; the latter ends `select` and drops the writer |
| `WriteQueued`, `WriteBlocks`, `WriteResumes`, `WriteFails` | `write_input_stream`; `in_hand` is the gesture its suspended future holds |
| `RenderTick` | `render_task`: take the mailbox, `apply_behavior`, `tick` |
| `WifiConnects`, `WifiDisconnects`, `HostSends`, `HostReceives`, `LinkBreaks`, `SocketTimeout` | the world and smoltcp |

A frame is its number and duration (`Malformed` ones are rejected); the text of an
acknowledgement, peripheral start-up and credentials are left out.  What a frame is
made of is `ControlWire`'s subject.

### ControlWire

A line is a sequence of pieces: a field of a JSON object with its comma or brace, a
run of blanks or of other bytes, CR, LF.  Pieces have sizes, so that reads of 64 bytes
and `recv`s of 256 can end wherever they may, and a piece has been read when its last
byte has.  The LF piece also carries what the sender meant by the line, which only the
properties look at.

| definitions | code |
|---|---|
| `Valid`, `Command`, `to_json_line` | `_validate_behavior_object`, `BehaviorCommand.to_json_line` |
| `Read`, `TakePiece` (`EndOfLine`, `Accumulate`) | `read_control_stream`: frame buffer, `dropping_line`, CR ignored |
| `Meaning`, `WithoutCR` | the same, of one line by itself: what the bytes of a line are to the firmware, whatever came before them |
| `parse`, `mood_matches_animation`, `clamp_text` | `behavior.rs` |
| `encode_input_frame` | `device/touch/src/lib.rs` |
| `Recv`, `ConsumeLine`, `Kept`, `parse_input_frame`, `submit_touch` | `_consume_lines`, `_handle_line`, `parse_input_frame`; the limit of `submit_touch` |

Letters of a text are one value; a character that is not printable or not ASCII has a
value of its own.  Quotation marks and backslashes are left out: what the parser's
library makes of escapes is not in the repository.  So is a text that is JSON `null`,
which no sender here writes.  The reader of an overlong uplink line forgets what it has
and takes the rest for a line, the device drops an overlong line to its end; both are
modelled as they are.

### HostTransport and SingleLink

Each thread has a label `pc[t]` and a local `sock[t]`.  A send is `StartSend`,
`Ensure` (`_ensure` to the test of `_sock`), `SenderConnects` or `SenderGivesUp`,
`SenderInstalls` (the double-check under the lock), `TakeSendLock`,
`SendallReturns` or `SendallRaises` (with part of the line written, or none),
`SenderDrops` (`_drop`: the forgetting, under the lock), `SenderClosesSock`.
`close()` is three steps, of which others may come in between.  The reader's
actions follow `_read_loop`, `_probe_reconnect` and `_consume_lines`; what the
device writes arrives as halves of lines.  `open` is the set of this process's open
sockets, `device` the connection the device serves (it accepts one at a time).

`SingleLink` says: a link comes up only if there is none and the client is not
shut, goes down, and after being shut never comes up again.  The refinement maps
`link` to `_sock` and `shut` to `_closed`.

### PresenceWake

`PostPresence` and `PostActivity` are `set_presence` and `set_activity` under the
mailbox's lock; `SubmitPresence` and `PutPresence` the two halves of
`HostInputQueue.submit_presence`, the flag under the lock and the item outside it.
The loop reads (`BeginTick`, `ReadMailbox`), is busy for up to `MaxTick`
(`EndTick`), and waits (`TakeItem`, `PollFindsNone`, `WaitEnds`, `Consume`).  The
clock ticks only while the loop is busy or waits; handlers take no time.
An app in front counts as present for the mailbox (`_coarse_presence`) although the
tracker's `_classify` calls the same owner away.
A wait is cut into chunks of at most `KEEPALIVE_INTERVAL` (`StartChunk`,
`ChunkEnds`, after which `send_keepalive` has been called); `silent` is the time since
the loop last sent anything.

### PetBody

`BeginTurn` is everything that precedes the model's answer (`note_interaction`,
`PresenceTracker.update`, the effects and the drift of `Affect`, `BodyModel.advance`);
`Resolve` what follows it (`resolve`, `_clamp_behavior`, novelty, the alert override,
the burn-in guard, `register_behavior`); `save_affect` and `save_body` the two
writes; `Restart` a stop at any of these points and `_restore_persistent_state`.
All of a turn happens at the time it began.  `_evaluate` keeps the order of its
branches.  Energy and sleepiness are levels, the model's answer any of
`ModelAnimations` and any body state, what the novelty rule puts in its place a free
choice; events that touch neither drive nor body are "idle"; there is one late night
in the horizon; the cap on drift after a long stop, the immediate acknowledgement of
a touch and the write switch (which is in `MemoryStore`) are left out.

### MemoryStore

A turn is `BeginTurn`, then step by step what it asks of the store: `CheckCapture`
(the look at the switch, before the lock) and `capture`; for each rule
`LookForFact`, `CountSupport`, `CheckCapture`, `capture`; a surprise (`CountGreen`,
`CallBack` or none); `retrieve`; `LoopSaves` with `save_affect` and `save_body`.  The
owner's `Inspect`, `forget`, `forget_by`, `reset` and `set_writes_enabled`, and
`Restart`, may come between any two.  The totals of green builds only feed the callbacks'
wording and are left out.  A summary is a value with what is captured with
it; a repeated moment in the window raises its row (`_bump_existing`), a raise
respects the cooldown where the code does.  Which rows fit best is left open:
`retrieve` may raise any set of `RETRIEVE_LIMIT`.

### Scene and ShiroSprites

`RenderFrame` is an iteration of `render_task`: take the mailbox, `apply_behavior`,
`draw`, `tick`.  `Picture` is what `draw` puts on the panel: a pose, the upper left
corner of its box, the lines of the bubble and the width of the border.  Every use of
the frame counter is a remainder by a divisor of `FRAME_CYCLE`, so the counter is kept
modulo that; where `wrapping_add` takes it from `u32::MAX` to 0 both successors of that
remainder are allowed (`NextFrames`).

`ShiroSprites` keeps of each pose the box and offsets, and of its run-length stream how
many pixels each row paints and how many are in the first and the last column, which is
what an edge of the panel or the bubble can take away.  Poses that share a stream share
a definition.  Colours, glyphs and the bubble's round corners are left out.

### SpriteRuns and Panel

`encode_sprite` and `encode_rle` are the converter's: the box of what is visible in a
cell, in runs of at most `MAX_RUN_LEN`.  `SpritePixels` is the firmware's iterator, as a
recursive function of the bytes taken from the stream.

The driver is the sequence of pin changes and SPI bytes it has left to do; one
`BusStep` performs the next and lets the chip react: `handle_command_byte`,
`handle_data_byte`, `RamByte` (a byte of `handle_ram_bytes`), `advance_cursor`,
`present_display`.  The chip
asks for its next bytes ahead of time by the pins as they are then, and looks at DC
when it has got them, as `ssd1351.c` does.  `RenderFrame` encodes a cell,
decodes it, draws it through `blit_sprite` and `draw_iter`'s clipping and flushes it,
`WriteFails` ends the driver's call with whatever the pins are, `Restart` runs `init` anew at any byte.  Delays are left out.

## 3. What is checked

| run | instance | distinct states | properties |
|---|---|---|---|
| `touch` | times scaled so that windows, hold and rate limit keep their order and a doubletap fits into the rate limit; 38 ms, samples 1 or 2 ms apart | 137 000 | `EveryContactClaimedOnce`, `PendingTapNeverLost` |
| `device_link` | queue of 2, TX room for one frame, 3 gestures, 2 behaviors, 2 connections | 94 000 | `NotReplayed`, `DisconnectedTouchNotQueued`, `NeverBoth`, `UplinkInOrder`, `LatestUpdateIsDrawn`, `DeadLinkReleased`, `QueuedTouchLeaves` |
| `device_link_lost` | 2 gestures, no behavior | | violates `DequeuedTouchNotLost` |
| `host_transport` | one sending thread and the reader, 2 sockets, one touch in two halves | 302 000 | `NoLeakedSocket`, `UplinkLinesWhole`, `DownlinkLinesIntact`, `ImplementsSingleLink`, `LinkRestored`, `SocketsClosedAfterClose` |
| `wire` | every animation, proposals at and over every limit, ten odd lines of other clients, three gestures, two kinds of noise; 2 lines on their way | 42 000 | `OnlyUpdatesAreQueued`, `SentIsShown`, `TouchIsHeard` |
| `presence_wake` | 2 handlers (symmetric), one explicit source and the host activity, waits of 1 or 5, keepalives every 2, turns of up to 1, clock to 7 | 525 000 | `LinkKeptAlive`, `OneWakePending`, `PostNoticedInTime`, `ExpiryNoticedInTime` |
| `presence_label` | the same, clock to 9 | | violates `LabelNoticedInTime` |
| `pet_body` | drives 0..4, times of 1 to 3 units, clock to 6, the night at 4, model answers nap, excited or alert | 780 000 | `SleepClock`, `PoseShifts`, `GentleWake`, `ReunionIsEarned`, `NapSurvivesRestart` |
| `memory` | 2 moments, one rule of threshold 2, 3 turns, clock to 7, 2 interventions of owner or restart | 1.05 million | `FactOnce`, `FactsAreObserved`, `ForgetHitsWhatWasShown`, `PauseTakesEffect`, `ResetWipes` |
| `memory_reset_relationship` | the same | | violates `ResetForgetsRelationship` |
| `scene` | the code's 20 frames per second; every animation, silent and with two lines, for the shortest and the longest duration, and every text of up to three words of 1, 5, 6, 10, 11, 12, 17, 18 or 24 letters; 8 frames of the cycle at which one may arrive | 154 000 | `NeverStill`, `StaysOnPanel`, `BubbleLeavesShiro`, `TextFits`, `BlinksWhenLeftAlone`, `MovesSmoothly` |
| `panel` | 3 by 3 pixels, 3 orientations, 2 cells (one over the edges, one with bytes that look like commands), runs of up to 2, reads of up to 5 bytes, 2 failed writes or restarts | 796 000 | `TypeOK`, `OnlyWholePictures` |

**Why the bounds are enough.**  Every bound is a constant named `Max...` (or the size
of a queue) and large enough for what the properties are about:

- TouchClassifier: 38 ms hold a boot contact, a hold, a doubletap inside its rate limit and a
  further tap.
- DeviceLink: three gestures fill the queue of two, displace one, and leave one in
  the writer's hands; two connections allow a replay on the second; the second
  behavior can displace the first before or after it is drawn.
- ControlWire: two lines on their way, in any mixture of directions, are what gluing,
  losing or misplacing a line needs; a longer queue adds no case, since a reader
  remembers nothing beyond the line it is in.  Frames of exactly 256 and of 257 bytes,
  texts of 24, 25, 30 and 97 characters and durations one off the limits are among the
  lines.
- HostTransport: the second socket is what a replacement, a leak or a close meanwhile
  needs; sockets are reused once closed, so the number of reconnections is not bounded.
  More senders are covered by the proofs.
- PresenceWake: the clock outlives two records and one long wait; two handlers are
  what coalescing needs; one source suffices since explicit sources only meet in
  `_coarse_presence`.
- PetBody: every time constant is passed at least twice before the clock ends, so a
  sleep can begin, be saved, restart and end, and an absence can begin, end and begin
  again.
- MemoryStore: three turns observe a moment twice, consolidate it, raise it and find
  it stored; two interventions forget or reset and restart.  The run also passes with
  three interventions, which takes five times as long.
- PresenceWake, keepalives: a wait of 5 is three chunks, so a wait, a wake-up inside it
  and a turn after it can follow each other.
- Scene: the run goes round the whole cycle of the counter and over its wrap.  Eight
  frames of arrival suffice since a behavior's own frames start at 0 wherever it begins;
  they lie in and at the ends of blinks and looks, two of them one frame apart.  The
  lengths of words are those about a line, a text and what is called a short word.
- Panel: a picture is 18 bytes, so reads of 5 are split inside a pixel; a second
  failure or restart may fall into the recovery from the first.

The two runs with liveness (`device_link`, `host_transport`) check it under `FairSpec`;
the other passing runs, and those expected to find a violation, use `Spec`.

**Deadlock** is checked in the `device_link` runs, in `wire` and in `scene`, where
nothing may stop; in `device_link` Wi-Fi may always come or go, so there it is the
liveness properties that say the server gets on.  Elsewhere the bounds on clocks and
turns end the behaviours, the client of `HostTransport` is done after `close()`, and a
panel may be halted by a failed `init`, after which the firmware gives up.

**Fairness.**  `DeviceLink`: the ticker, the server task's steps and the socket's
timeout are weakly fair, since an embassy executor polls every woken task and timers
fire.  Steps of Wi-Fi, host and pad are not fair, `HostReceives` excepted: a host that is
connected and not silent empties the TX buffer.  `HostTransport`: the steps of each
thread are weakly fair, since threads are scheduled and every blocking call has a
timeout.  The probe that can connect over and over does so in the end (strong
fairness of `ProbeConnects`): the device listens whenever it does not serve, and
listens in between backoffs.  A device whose connection this process has closed
notices (FIN or its timeout, `DeadLinkReleased`).  Nobody is assumed to send, post,
touch or close.

### What the violated runs show

1. **A touch can be lost** (`device_link_lost`).  `write_input_stream` takes a gesture
   off the channel and then waits for room in the TX buffer; when
   `read_control_stream` ends first, `select` drops the writer with the gesture.  The
   comment that says such a touch is acknowledged locally is right only for a write
   that fails.
2. **A change of presence can be noticed late** (`presence_label`).  An "away" goes
   stale during a turn; a fresh "present" then equals the label the fallback already
   gives, wakes nobody and takes away the deadline.  `ExpiryNoticedInTime` and
   `PostNoticedInTime` are the parts that hold.
3. **A reset does not reset the relationship of a running pet**
   (`memory_reset_relationship`): the loop saves its own copy at the end of the turn.

Further observations, about which the repository promises nothing:

- Two sending threads (as in the demo driver) can write a line behind a fragment
  another left, between its `sendall` and its `_drop`; `DownlinkLinesIntact` is stated
  for one.
- After a failed SPI write CS stays low, and the simulated panel may take pixel bytes
  of the next flush for commands until the panel is reset; `OnlyWholePictures` is
  therefore conditional on no write having failed since.
- The simulated panel exchanges red and blue under BGR and shows the picture upside
  down, as it models RAM and not wiring; `Seen` says so.
- The loop sends no keepalive during a generation, which may take 30 s, as long as the
  device waits before it gives a silent connection up; `PLAN_v2.md:225` speaks of a
  keepalive about every 15 s.  `LinkKeptAlive` states what holds: the silence is never
  longer than a turn or a keepalive interval, whichever is longer.
- A touch can leave a rested sleeper asleep, since `_evaluate` in `body.py` tries a wake
  trigger before it looks at energy; a milestone may be celebrated again after a
  restart, since stored rows merge repeated builds.
- The demo driver's heartbeat sends a pose it has read before releasing its lock, so
  a pose set meanwhile may be followed by the older one; and it repeats a frame every
  five seconds, although the tour's blink lasts four.
- A forgotten fact comes back as long as the memories it rests on remain, and at
  most one write that had looked at the switch gets past a pause or a reset.

## 4. What is proved

The theorems hold for every value of the constants that satisfies the named
assumptions, each of which TLC evaluates on the instances above:

- `ConstantsAssumption`, `DeviceLinkAssumption`, `HostTransportAssumption`,
  `PresenceWakeAssumption`, `PetBodyAssumption`, `AnimationAssumption`, `RowAssumption`,
  `MemoryAssumption`, `RulesAssumption`, `ControlWireAssumption`, `SceneAssumption`: number
  and kind of parameters, `None` outside the data; for the touch classifier that the rate
  limit fits into the doubletap window; for the memory that each rule has a fact of its
  own, which no other rule counts as support; for the scene that an update is what
  `parse` of `behavior.rs` lets through, with a text of up to 24 letters.
- For the wire, that what is written are lines: `NoneAssumption` (`None` is no value),
  `OutputsAssumption` (a text of a proposal is made of the characters above),
  `ForeignAssumption` (a line of another client ends with its only line feed, and is due
  as what it means by itself), `GesturesAssumption` (a hold lasts what `clamp_duration`
  can leave of it) and `NoiseAssumption`: uplink bytes that are no touch are none either
  when the reader, after more than a kilobyte without a line feed, has forgotten the
  beginning.  The firmware writes only touches; that nothing else becomes one is all
  that is taken for granted.
- `SpritesAssumption` and `RowsAssumption` are closed: they say of the firmware's tables
  that the boxes lie in their cells, are as high as their streams, and have less than a
  third of their pixels below row 96.  A proof would count the pixels of every sprite,
  which is what evaluating them does, so TLC settles them for good.
- `SpriteRunsAssumption` (a run has at least one pixel) and `PanelAssumption`: the panel
  is a square of at most 128 pixels a side, the orientations are those the firmware
  knows, the palette is a sequence of words, a cell is empty or a rectangle, and a scene
  moves it by whole pixels.  Nothing is said of the scenes otherwise: they may lie off
  the panel, wholly or in part, and hold entries the palette lacks.

| module | theorems | inductive invariant, and why it is needed |
|---|---|---|
| `HostTransportProofs` | `TypeCorrect`, `NothingLeaks`, `SharedStaysOpen`, `LinesStayIntact`, `ImplementsLink`, `LinesAreWhole` | `SocketInv`: a thread past `_ensure` has a socket (`HasSocket`), one being established is known to its thread only (`FreshIsPrivate`), one about to be closed has been forgotten (`ForgottenBeforeClosed`), and `close()` finds the client closed (`CloseFoundTheSocket`); `CutIsAbandoned` for a sole sender.  `UplinkInv`, on top of these: for every connection the reader may still read, the unread pieces continue what its buffer holds, and what the device has half written continues those; a socket nobody has installed yet is not attached.  Hence the reader never joins halves of two connections.  Any number of senders and sockets |
| `DeviceProofs` | of `TouchClassifier`: `TypeCorrect`, `PhaseMatchesContactHolds`, `EveryContactClaimedOnceHolds`, `TapDecidedInTimeHolds`, `PendingTapNeverLostHolds`, `EdgesAreDebouncedHolds`, `HoldSpansItsContactHolds`, `BurstsAreSpacedHolds` | `TouchInv` adds `Timing`, how the recorded times relate (a pending tap was released after the last emission, so the limiter's gap has passed when its window has), and `SeedInv` for the first sample; `StepInv` collects the four step properties |
| | of `DeviceLink`: `NothingReplayed`, `DisconnectedStaysLocal`, `NeverBothHolds`, `UplinkKeepsOrder` | `IInv`: gestures have their types, uplinked ones precede the one in hand, which precedes the queued ones (`InOrder`); none of these is among those acknowledged locally (`Fates`); what is queued or in hand was made on the present connection (`Connections`).  For any queue, any number of gestures and connections |
| `ControlWireProofs` | `QueuedIsUpdate`, `SentLinesAreShown`, `TouchesAreHeard`, `FrameFits` | `DownInv`: what has been gathered of a line (in the frame, or only known to be too long for it) with what is still to be read is made of whole lines that were written (`MadeOf`), each of which is queued as what it is due as: `Meaning` of a line agrees with the host's `Command` (`SentLinesAreMeant`), and is an update or nothing.  `UpInv` is the same for the host's buffer, of which `_consume_lines` may have forgotten the beginning (`Forgotten`).  For any proposals, clients, gestures, reads and reconnections |
| `PresenceWakeProofs` | `TypeCorrect`, `WakeUpsAreCoalesced`, `PostedChangesAreRead`, `ExpiriesAreNoticed`, `LinkStaysAlive` | `UnreadInv`: a change the loop has not read is on its way (about to be read, a wake-up pending, or its handler still to see to it) and was posted in the loop's present turn.  `TimingInv` relates the clock to what it drives: types (`MailboxTypeOK`, `ClockTypeOK`), a label that is wrong only since the loop could last have noticed (`Settled`), and the time since the device was last sent anything (`Heard`) |
| `PetBodyProofs` | `TypeCorrect`, `SleepClockHolds`, `FrameMatches`, `NoBurnIn`, `WakesGently`, `ReunionEarned`, `NapSurvives` | `IInv` ties the row to the sleep under way (`SleepIsSaved`), the burn-in timer to the pose (`TimerRuns`), the absence to when the owner was last seen (`AwaySinceSeen`), and what is offered to what the turn reacts to (`ContactOffers`) |
| `MemoryStoreProofs` | `PauseHolds`, `ForgetHits`, `FactOnceHolds`, `ResetWipesHolds`, `FactsHaveEvidence` | one small invariant each: `PauseInv`; on top of `RowsInv` (ids below `next_id` identify rows) `ShownInv`, `LoopInv` with `FactIds` (the loop never has a fact in hand that is stored), `ResetInv` (if what it has in hand is older than a reset, no row is), and `ObservedInv` (the rows that support a rule can be matched one to one with moments that were observed, so a count is never more than the evidence) |
| `SceneProofs` | `TypeCorrect`, `PicturesStayOnPanel`, `BubblesLeaveShiro`, `TextsFit`, `BlinksLeftAlone`, `MovesAreSmooth`, `PicturesAreNeverStill` | `TypeInv`, and `DrawnInv`: the picture on the panel is that of an earlier counter and behavior, of which the present ones are successors, so what holds of every frame of every loop, motion and bubble, text by text, holds of the panel.  `BlinkInv` bounds the time without a blink by the phase of the blink period.  `StillInv` bounds how long a picture has been held by `StillFor`: the frames since pose or wave last moved in its own loop, and for the local loop what a behavior before it may have left, 72 frames at most.  For any updates, arriving at any frames |
| `PanelProofs` | `TypeCorrect`, `WholePictures` | `TypeInv`: what is left to do is the end of the reset or of a list of commands (`ScriptInv`), no command gathers more arguments than it takes, the window is ordered and on the panel, a read wants one byte or no more than are owed.  `PictureInv`, on top of it: the framebuffer holds the scene (`PictureIn`), and unless a write has failed the chip is where the operation to come needs it (`BeforeOp`).  In `Filling` the pixels before the cursor are those of the framebuffer, whatever part of it is still in the read that has not ended.  For any panel, reads, scenes, failed writes and restarts |

Each proof has the same plan: the initial states satisfy the invariant, every action
preserves it (a step per action, below it one per conjunct the action can disturb),
and the property follows.  In `PanelProofs` that rests on four results about the
operators: what is read from the bytes `encode_sprite` makes of a cell is the cell
(`SpriteRoundTrip`, by the runs of `encode_rle` one after the other), so `blit_sprite`
leaves the scene in the framebuffer, clipped (`BlitPicture`); a cursor that starts in a
corner visits each pixel once (`CursorAdvances`, `PlacesDiffer`), so a memory filled in
this order is the picture as the mount asks for it (`WholePicture`); an operation takes
the chip from where it needs it to where the next one does (`OperationStep`); and a
script goes from operation to operation and from command to command (`AtStep`).
`ImplementsLink` maps every step to a step of `SingleLink`
or to a stutter.

Sizes of sequences of pieces, sums over rows, the loops of `split_bubble_text`, the runs
of a sprite, the list a driver's call sends and the bytes a read has got are recursive
functions.  The proofs unfold them from the well-foundedness of the naturals,
used once for sets (`UpTo` in `ControlWireProofs`, `SceneProofs` and `PanelProofs`) since an
induction rule over formulas is out of the provers' reach.

The theorems `PhaseMatchesContactHolds`, `TapDecidedInTimeHolds`,
`EdgesAreDebouncedHolds`, `HoldSpansItsContactHolds`, `BurstsAreSpacedHolds`,
`SharedStaysOpen`, `FrameMatches`, `FrameFits` and those on types, but for the panel's,
are about definitions no run lists, because their proofs already cover the instances.

**Only model-checked:** everything under fairness (`LatestUpdateIsDrawn`,
`DeadLinkReleased`, `QueuedTouchLeaves`, `LinkRestored`, `SocketsClosedAfterClose`), since
TLAPS has no ENABLED.  Every safety property a passing run checks, invariant or action
property, is also a theorem.  No module declares a RECURSIVE operator.

## 5. What is not modelled

| part | why |
|---|---|
| sprite tools' PNG reading and writing, choice of a palette, derived frames; colours and glyphs | offline data; the run encoder is in `SpriteRuns` |
| firmware build script | build-time environment, nothing at run time |
| prompt and model client, extraction of the first object from an answer | text; one HTTP request whose outcome is an input of the loop |
| entry point, argument parsing, HTTP and payload parsing | wiring, no state of its own |
| peripheral start-up, credentials | runs once, before the tasks exist |
| schema migration, full-text search and ranking | any ranking is allowed |
| loss of the store's file, SQLite's own recovery | a committed write is durable |
| the other nine drives of `Affect`, `overall_state`, the focus timer | they feed only the prompt's text |
| novelty, streaks, totals of green builds, nudges | they choose among answers and events that the modules already leave open |
| AirPods helper | a process of its own whose only effect is a `/presence` post, which may come at any time in `PresenceWake` |
| poses and heartbeat of the demo driver | its two senders are covered by the theorems of `HostTransport` |

## 6. Plan

Built so far, by how much depends on a part and how hard it is to test: the touch
classifier, the two ends of the link and the wire between them, the mailbox and the
loop's waits, the body, the memory, the scene, the display.  What is left, in order:

1. **Helpers.**  The AirPods debouncer with posts that come late, and `PoseHolder` with
   its heartbeat.
2. **Loop.**  Recent phrases and animations, streaks and nudges, next to `PetBody`.
3. **Affect.**  The remaining drives as levels, and that `overall_state` is total.
4. **Composition.**  An abstract end-to-end link (a gesture is delivered at most once
   and in order, or acknowledged locally) that `DeviceLink` implements.
