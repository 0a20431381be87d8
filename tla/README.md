# A TLA+ model of the VDR viewer

The VDR viewer (`src/trunk`) is a plugin for the dbox2, a set-top box with a
PowerPC processor: it shows the picture and the menus of a VDR running on another
machine. The television stream comes over one TCP connection, messages about it
over a second, the text of the box's LCD over a third, and the menus over RFB (VNC).
This directory holds TLA+ modules for the parts of the program where threads,
rings, connections, keys and pictures meet, the configurations that model-check them
with TLC, and theorems about them that TLAPS checks.

File positions below are in `src/trunk`.

## 1. The system

### 1.1 Components

| component | source | state | operations |
|---|---|---|---|
| ring buffer | `ringbuffer.c` | `buf`, `helpbuf`, `write_ptr`, `read_ptr` | create, reset, read, write, read/write space, in-place pointers, vectors, advances |
| receiver thread | `vdrviewer.cpp:1165` | stream socket, counters of empty and full turns | fill `ringbuf_in` from the socket; empty the socket on a reset; throttle; give up |
| remux thread | `vdrviewer.cpp:1289` | two continuity counters | cut PES packets of `ringbuf_in` into TS packets of `ringbuf_out`; ask the server for the new program |
| player thread | `vdrviewer.cpp:1436` | `dvbreset`, `ac3`, rate measurement | buffer, write blocks of `ringbuf_out` to the DVR device, resynchronise |
| control thread | `vdrviewer.cpp:1063` | control socket, `g_PlayState` | handle PlayState, StillPicture and Freeze messages |
| LCD thread | `vdrviewer.cpp:496` | LCD socket | receive LCD pictures, or draw the status display |
| main thread | `vdrviewer.cpp:3286` | `terminate`, configuration, framebuffer | `plugin_exec`: choose a server, prepare, connect, start the threads, event loop, `cleanup_threads` |
| data sockets | `datasocket.cpp` | descriptor, `m_Terminate` | Open, Get (blocking or with a timeout), Put, Shutdown, Close |
| DVB devices | `vdrviewer.cpp:621-920` | `gDeviceState`, descriptors | stop, start, freeze, unfreeze, sound format, aspect ratio |
| event loop, scheduler | `vdrviewer.cpp:1748-2600`, `list.c` | list of timed actions, `keypress_count` | `fbvnc_get_event`, `schedule_add`, `schedule_delete` |
| keys and volume | `vdrviewer.cpp:2484-2560` | volume, mute | forward keys to the VDR, volume over LIRC or controld |
| RFB client | `rfbproto.c`, `sockets.c` | `si`, the update being read | handshake, update requests, server messages |
| menus | `viewermenu.cpp`, `overlay.c` | list of items, selection, `count`, `rc_last_key` | show, `ProcessKey`, execute, questions, message boxes |
| drawing | `fbdraw.c`, `fbgl.c`, `overlay.c` | `v_buf`, `p_buf`, `v_scale` | boxes, copies, redrawing with scale, overlays, text |

### 1.2 How they interact

    VDR --stream-->  receiver --ringbuf_in--> remux --ringbuf_out--> player --> DVR device
    VDR --control--> control thread            |
    VDR <--control-- (PlayStateReq) -----------+
    VDR --LCD-->     LCD thread
    VDR <--RFB-->    main thread --v_buf--> screen
    remote control --> main thread: dialogs, event loop, menu

The threads share, without a single mutex:

* the rings, each with one reader and one writer, whose two pointers are volatile
  words;
* `ctx->playstate`, a word that four threads store into and all poll: the zap
  handshake `eBufferReset` (control) - `eInBufferReset` (receiver) -
  `eOutBufferReset` (remux) - `eBufferRefill` (player) - `ePlayInit` - `ePlay`
  runs over it;
* the flags `g_bReset`, `g_bResync`, `g_iIsAC3`, `terminate`, `g_bLcdInfo`;
* the three pointers to socket objects, each made, deleted and cleared by its own
  thread, used by main in `cleanup_threads` and, for the control socket, by remux;
* `ctx`, a local variable of `plugin_exec`.

### 1.3 What is hard

* Pointer updates of a ring are two stores (`+= n`, `&= size_mask`), so the other
  thread can see a pointer outside the buffer.
* `ringbuffer_reset` is not thread safe; what makes it safe is the handshake over
  `playstate`, and not every path keeps to it.
* A thread looks at `playstate` and stores the next value later, overwriting what
  another thread stored in between.
* The control thread is deaf while it waits for the two stages of a still picture.
* Reads of a socket: without a timeout they block for ever; with one they spin at
  the end of the stream until the object's `m_Terminate` is set.
* A key that is held while a dialog opens or closes is read partly by one reader and
  partly by another, and what each remembers of it is in static variables.
* The RFB server's messages are read piece by piece, with no way to tell one from
  another; menus take the screen over in between, and what the server draws
  meanwhile must be there when they close.
* What is drawn into the picture must be redrawn on the screen, by rectangles that
  are computed with divisions by the scale.
* The order at the end: shut the sockets down, join the threads, free the rings.
* Remux needs 2048 readable bytes and room for 2256 before it starts a packet, and
  relies on both.

### 1.4 What makes each component correct

| component | promise |
|---|---|
| ring buffer | it is a bounded FIFO byte channel; the two threads never touch the same byte; the spaces and vectors are exact at any instant |
| pipeline | after a zap nothing of the old program is left, the handshake resets rings only when unused, no more is given back than was read; a zap and a still picture come to their end |
| remuxer | the decoder gets each stream byte for byte, in order, in whole TS packets with correct counters and start marks, and remux never gets stuck on garbage |
| session | no thread sees freed rings or, before the end, a deleted socket; the cleanup ends; `plugin_exec` leaves the box as it found it |
| DVB devices | what is played is heard in its format; a frozen decoder is not forgotten |
| keys | the VDR gets each press once, repeats in time, and nothing that was meant for a dialog; a dialog takes each press; the menu shows what OK will do |
| scheduler | from the set-up on there is one tick in the schedule |
| RFB client | client and server stay in step; the picture is the server's, whatever menus covered it; a lost connection is noticed |
| drawing | the screen shows what is in the picture |

`PROJECT.json` lists the hazards of the code, each with its line and the properties
that would catch it going wrong.

## 2. The modules

| module | what it is |
|---|---|
| `ByteChannel` | abstract specification: a bounded FIFO channel of bytes |
| `RingBuffer` | `ringbuffer.c` with its two threads, store by store |
| `Pipeline` | the four threads of the stream, the handshake over `playstate`, the decoders, the server |
| `Remuxer` | the conversion in `mp_RemuxStream`, byte by byte |
| `Session` | `plugin_exec` from the choice of the server to its return, with the life of the threads, sockets and rings |
| `Remote` | the remote control, its five readers, and the volume |
| `Screen` | drawing into the picture and redrawing the screen (`fbgl.c`, `fbdraw.c`): operators |
| `Viewer` | the RFB client with its timer, its pictures and the menus in between; extends `Screen` |
| `RingBufferProofs`, `PipelineProofs`, `RemuxerProofs`, `SessionProofs`, `RemoteProofs`, `ScreenProofs`, `ViewerProofs` | the theorems about them |
| `PictureProofs` | the theorems about what `Viewer` and `Screen` do together; extends `ViewerProofs` |
| `MCRingBuffer`, `MCPipeline`, `MCRemuxer`, `MCSession`, `MCRemote`, `MCViewer` | their instances for TLC |

The modules divide the program along what each takes for granted. `RingBuffer`
shows that a ring, used by one reader and one writer and reset only when both are
outside, is a `ByteChannel` (a refinement, checked and proved). `Pipeline` and
`Remuxer` use rings as sequences, and `Pipeline` checks the duty that the first
result needs: who resets when. `Session` abstracts from what the threads do with
the data and keeps what objects they touch. Main's part is divided by what comes in:
`Remote` has the keys, `Viewer` the connection and the timer; a menu is a place with
its own reader in the one, and a time in which the screen is covered in the other.
`Viewer` composes the client with the drawing of `Screen`.

### 2.1 RingBuffer

`write_ptr`, `read_ptr` and `buf` are the fields of `ringbuffer_t`. A call is
a look at both pointers (`BeginWrite`, `BeginDirectWrite`, `BeginRead`, `Peek`),
then, for each of its one or two segments, a copy, the store `ptr += n` and the
store `ptr &= size_mask`. `wn1`, `wn2`, `rn1`, `rn2` are the lengths of the
segments still to come. A byte is its position in the stream, so that loss,
repetition and order show in the values. Reading and writing in place
(`ringbuffer_get_readpointer`, with its copy to `helpbuf` when the bytes wrap, and
`ringbuffer_get_writepointer`) end in an advance by whatever the caller used.

A look between the two stores is harmless once; a thread held up there long enough
for the other to start a second call is not. `LongStall` says whether this happens:
with `FALSE` the run and the theorems hold, with `TRUE` the run `ring_stall` shows
the reader getting bytes that nobody wrote.

### 2.2 Pipeline

`rpc`, `xpc`, `ppc` and `cpc` are the positions of receiver, remux, player and
control thread. A step ends where another thread makes a difference: between a look
at `playstate` and the store that follows, and between a look at a ring and the
advance. `devices` is `gDeviceState` and what the decoders were told (frozen, bypass for
AC3), changed by the player where it calls the `mp_` functions. A block stands for what one turn moves and carries the number of its
program. The server (`ServerData`, `ServerMessage`) sends blocks of the current
program and messages; it streams a new program only when it was asked, as
`SendPlayStateReq` in the code presumes. A zap and the messages that bring the state of
the same program replace the whole of it (1097), so the speed after them may be any.
The two looks of the receiver at `playstate` (1191, 1193) are one step. Sleeps, log and
LCD texts are left out.

The timings that the code does not exclude, but that its sleeps make rare, are
switched by the constant `Hazards`, so that a run can say under which of them
a property holds:

| hazard | the timing | what it breaks |
|---|---|---|
| `stale` | a thread is overtaken by another one's store between its look at `playstate` and its own store | `QuietInReset`, `QuietOutReset`, `OldStreamGone`, `ZapCompletes` |
| `eager` | a message comes before what the last one started is over | `OldStreamGone`; with a change of the sound format, a pause and a resumption, `RightSound` and `FrozenRemembered`; with a speed change and a still picture both, `QuietInReset`: the speed change leaves `g_bReset` set while the still picture is fed; `ZapCompletes` with two zaps: the `ePlay` of line 1106 overwrites `eBufferReset` |
| `missed` | the half second of buffering passes between two looks of a still picture | `StillEnds` |
| `short` | the player leaves buffering before remux has filled a block | `AdvanceWithin`, `OldStreamGone`, `ZapCompletes` |
| `stall` | the receiver finds the ring full, or no data, a hundred times in a row and resets the rings itself | `QuietOutReset`, `OldStreamGone`, `AdvanceWithin`, `ZapCompletes` |
| `slow` | less than 1 Mbit/s for more than two seconds: the player empties the output ring and starts over, whatever remux does | `QuietOutReset` |

`ResetEnds` holds under each of them. Under `slow` the other safety properties hold too: their
theorems (4.2) do not exclude it. `OldStreamGone` needs a socket that one `Get` of
`PF_BUF_SIZE` empties (`DrainMax >= SockCap`).

### 2.3 Remuxer

`in` and `out` are the contents of the rings, `counters` is `acc` and `vcc`, `i`
the number of the TS packet within the PES packet. Steps are the single ring
operations: dropping a byte, writing a header, writing a payload, giving back
a packet. `Feed` and `Take` are the receiver and the player; between two ring
operations they may do anything, in pieces of any size. The reference is a
demultiplexer (`TsPackets`, `Payload`, `Carried`): what it extracts for a PID from what came
out so far is compared with `Brought`, the pieces of the script that are for that PID.

Garbage that looks like the header of a PES packet of more than `MinIn` bytes makes
remux write beyond the room it looked for ("This is not exact, but it works",
`vdrviewer.cpp:1330`), and garbage that looks like the header of a packet of the right
stream is carried. The theorems name what they exclude: `Tame`, `Clear` (4.3).

### 2.4 Session

`main` is the position in `plugin_exec`, `thread` that of each worker, `todo` the
names a loop of `CreateThreads` or `cleanup_threads` has still to go through. A
socket pointer is null, to an object or dangling; an object has a descriptor,
`m_Terminate`, and a read side that was shut down or has reached its end. The
variable `stray` collects the kinds of things a thread touched while they were not
there. Receiver and control thread touch things a step after their look at
`terminate`; a turn of remux, player or LCD is one step with its look (except for
remux on its way to `SendPlayStateReq`). The menu, the configuration and the loop
that waits for the RFB server are one step each.

### 2.5 Remote

`held` is the key the user holds, `input` the events main has not read: press, repeats,
release. `mode` is the place that reads: `selectServer`, `MsgBox` and `MessageBox` and
the power menu through `cMenu::GetRCCode`, the event loop through
`fbvnc_get_event`. Each of the key readers is one action for one event, with `count`,
`rc_last_key` (`viewermenu.cpp:413`) and `keypress_count` (`vdrviewer.cpp:2492`)
as the code leaves them. `last` and `closer` are history: the press that was read
last, where, and how often it was sent; and the key that closed the last dialog.
Connecting, the handshake and a lost connection are single steps here.

### 2.6 Screen and Viewer

`Screen` has the drawing functions as operators on two sets: `synced`, the pixels of
`v_buf` that are as the server's picture was when it sent what has been read; `shown`,
the pixels of the screen that show what `v_buf` has now. A box, a copy or a whole new
picture changes both; `redraw_virt` computes, with C's divisions, the physical rectangle
that it draws again, and the blocks of virtual pixels that a physical one is mixed from
are those that the filters read.

`Viewer` is main: the handshake, `fbvnc_init`, then the loop, one message or one
rectangle per step. `wire` and `asked` are the two directions of the connection, as
sequences of items. What is expected next follows from `main` and `left`;
`ReadsNonsense` is the step of a client that finds something else, and `InStep` says
that it is never taken for a reason the client could help. `sched` is the schedule of
`list.c`, `Tick` and `TimePasses` its use. `OpenMenu` and `CloseMenu` are
`cMenu::Show` and the update request after it. The server is external, modelled by what
the client relies on; it may close the connection anywhere, send messages and encodings
that the client does not know, draw whenever it likes, and not be a VNC server at all. What
was still under way when it closed may be torn: `Torn` says where `ReadExact` can meet the end,
also between the header and the data of a rectangle, which are sent as one here. Raw data are
drawn some lines at a time (`rfbproto.c:569-583`), here in one step.

## 3. The runs

| run | module, cfg | question | bounds, distinct states |
|---|---|---|---|
| `ring` | `MCRingBuffer` | is the ring a FIFO channel, store by store? | 4 bytes, requests 1, 2, 4, stream of 7 bytes; 30 353 |
| `ring_stall` | `MCRingBufferStall` | also if a thread is held up inside an update? (no) | the same, stream of 9 bytes |
| `pipeline` | `MCPipeline` | does a zap clean up, with every kind of message? | rings of 2 blocks, 2 zaps, 2 other messages; 2.43 million |
| `pipeline_timeout` | `MCPipelineTimeout` | with timeouts: does remux reset the input ring only when the receiver is outside, is AC3 heard as AC3, and a freeze remembered? | rings of 1 block, 1 zap, 1 freeze, AC3, `eager` `stall` `short`; 6.47 million |
| `pipeline_live` | `MCPipelineLive` | do zaps, reset stages and still pictures end? | rings of 1 block, 1 zap, 1 message, `slow`; 157 584 |
| `pipeline_ac3` | `MCPipelineAc3` | is the output ring reset only while remux does not write to it if the sound format changes? (no) | first play |
| `pipeline_short` | `MCPipelineShort` | is a short read after buffering harmless? (no) | first play |
| `session` | `MCSession` | does everything outlive its users, in every order of start and end? | 5 threads, each connection may be refused, stream and LCD may be closed; 2.73 million |
| `session_end` | `MCSessionEnd` | do the joins return? | without remux, refused control, closing stream and LCD; 359 000 |
| `remuxer` | `MCRemuxer` | does each stream arrive, whatever surrounds it? | 512 scripts of three chunks; 154 000 |
| `remote` | `MCRemote` | does each key reach whom it was meant for? | 9 keys, 2 servers, one event unread; 508 772 |
| `viewer` | `MCViewer` | do client, screen and server agree? | picture 6 x 3, scales 1 and 3; 1.88 million |

### 3.1 What the properties say

*Ring.* `SpaceExact`: whatever instant a thread samples the pointers at, the number
it computes is exact. `NoOverlap`: the bytes being stored and the bytes being
copied, or held by pointer, are disjoint. `VectorsCover`: the two vectors
cover exactly what is readable or free. `ImplementsChannel`: the refinement.
`Delivered`: every byte is read or discarded in the end. `IInv`: the invariant of
the proofs.

*Pipeline.* `QuietInReset`: when remux resets the input ring in the handshake (1313), the
receiver and a still picture are outside it. The resets of a receiver that gives up (1209,
1266) are not meant, and `pipeline_timeout` sends no still picture; the theorem has them.
`QuietOutReset`: whoever resets the output ring, the player in the handshake (1473) or when it
resynchronises a slow stream (1691), or the receiver when it gives up (1267), remux is not
between its look at the room in it and the end of its writes. Only the handshake sees
to that: it holds if nothing else is a reason for a reset (3.4). `AdvanceWithin`: nobody
gives back more than he got. `OldStreamGone`: once the server was asked for the new program, nothing of an old
one is in the rings. `RightSound`: a block that is written to the DVR device is heard in
its format, though the decoders are told of it only when they are started.
`FrozenRemembered`: while the decoder is frozen the player knows it, so that it is
released again. `ZapCompletes`, `ResetEnds`, `StillEnds`: every zap ends in the new program
being played, no stage of the handshake is for ever, and the control thread gets
through a still picture.

*Remuxer.* `PesArrives`: the payloads of a PID are a prefix of what the server sent
for it. `PacketsMarked`: counters without a gap, start marks exactly where PES
packets start, that is, when what its PID carried before is what some first pieces of
the script bring. `BlocksAligned`: a block taken by the player is whole packets, though
header and payload are written separately. `KeepsUp`: whatever garbage comes, remux
gets through it.

*Session.* `RingsOutliveThreads`, `SocketsOutliveUsers`, `LeavesClean`, `CleanupEnds`.
Three of them have an exemption, each for something the code does:
`SocketsOutliveUsers` holds until `terminate` is set, since `cleanup_threads` tests
a pointer that its thread may delete before the call (924-931), and as long as
`playstate` has been written; `LeavesClean` excludes a refused stream connection,
where line 1182 sets `terminate` and `plugin_exec` returns without any cleanup;
`CleanupEnds` excludes a still picture, whose loops (1122-1130) do not look at
`terminate`.

*Remote.* `KeysDelivered`: a key pressed in the event loop is sent once, and again for
each repeat from the third on; one pressed in a dialog not before its second repeat after
it. `PressTaken`: a dialog misses no press but of the key that closed the dialog before.
`SelectionShown`: exactly the item that OK will execute is lit, and it is one that can be
executed. `DialogsEnd`: Home leads out of menu and question, whatever the static
variables have kept.

*Viewer.* `InStep`, `OneTick`, `LossNoticed`: see 1.4. `Mirror`: when nothing is
under way, the picture and the palette are the server's, whatever was drawn,
resized or covered by a menu. `Shown`: between two events each pixel of the screen
shows what the picture has there.

Each property has in `PROJECT.json` a mutant of the code, an operator marked
`Mutant` in its module, under which TLC finds it violated.

### 3.2 Why the bounds are enough

*Ring.* 4 bytes are the smallest ring in which a pointer update, a wrap-around, a
request of two segments and one beyond the capacity differ; 7 bytes let the writer
wrap and be overtaken by the reader in the second lap. `ImplementsChannel` needs no
bound, see the theorems.

*Pipeline.* The stages of the handshake do not depend on the fill levels but on
empty, full and neither: rings of two blocks have all three. Two zaps cover a second
handshake begun on the remains of the first. The timeouts, with their additional
stores, are checked with rings of one block and one zap. They have the
changes of the sound format too: the first play has one, and the zap to a program with AC3. `MaxMsgs` and `MaxGen`
bound what the server sends and nothing else. The theorems need no bound.

*Remuxer.* 184 payload bytes per packet become 7, 2048 bytes per PES packet 13 and
2256 bytes of room 22; the assumption `SizeAssumption` holds for the real sizes as
well. The lengths are chosen so that the last TS packet has a rest of 6 bytes (only
the length byte of the stuffing), of 1, of 6 after a full packet, and of 0. Three
chunks give every neighbourhood of an audio, video, padding, unknown packet, garbage,
and zeroes that look like the beginning of a start code. The counter has 2 values
instead of 16. The ring holds two blocks, so it is full in many states.

*Session.* Nothing is bounded: the state space is finite. `session_end` restricts
what may be refused to keep the liveness check small; a thread that was not created
is among them.

*Remote.* One unread event is enough for the place to change between any two events
of a key; the theorems hold for every number of them. Nine keys have one of each kind
(up, down, OK, Home, power, one that is only forwarded, the two of the volume,
mute). The volume goes up to 6 in steps of 5, so that it is cut at either end.

*Viewer.* With 6 x 3 pixels and a screen of 3 x 2, a scale of 3 gives blocks that a
rectangle fills, meets at any remainder or misses, and the picture does not fill the
screen; with scale 1 it is larger. With scale 3 the server draws every rectangle, with
scale 1 five that overlap, touch the edges or are empty, and two of them, so that
copies can overlap what was drawn before. At most three items and two requests are
under way (`MaxWire`, `MaxAsked`), enough for a menu to open and close in the middle
of any of them. `StaysInStep`, `AlwaysShown` and `StaysMirror` need no bound.

The scales 2 and 4 are not in the run, since with them `Shown` does not hold (3.4);
nor are menus opened at a scale above 1, or pictures of a width that 3 does not divide.

### 3.3 Fairness

* Ring: neither thread stops inside a call (weak fairness of its steps), the reader
  polls (weak), and it uses what it looks at again and again (strong: it may
  look without using).
* Pipeline: every thread runs, and the server sends when it has something due.
  Strong fairness of `StillLook`, `StillWrite` and `StillPause`: the control thread
  polls every 50 or 100 ms for states that last longer, namely `eBufferRefill`
  (half a second) and `ePlay`.
* Remuxer: receiver, player and remux go on.
* Session: the threads go on, the cleanup goes on. Nothing is assumed of the user,
  and nothing of the server: a blocking `recv` may wait for ever until `Shutdown`.
* Remote: main reads what there is to read (weak). Of the user, as far as `DialogsEnd`
  speaks of him: he lets go of each key (strong, for he may only do so while the device's
  queue takes it), and presses Home again and again.
* Viewer: main goes on (weak). Nothing is assumed of the user, of time, or of the server.

### 3.4 Disagreements between code and text

| run | the text | the code |
|---|---|---|
| `ring_stall` | "This is safe for the case of one read thread and one write thread." (`ringbuffer.c:20`) | not if a thread is held up between the two stores of an update (`ringbuffer.c:274`) |
| `pipeline_ac3` | `ringbuffer_reset` "is not thread safe" (`ringbuffer.c:80-81`) | a change of the sound format resets the output ring without the handshake (`vdrviewer.cpp:1625`, 1473), between remux's look at the room (1323) and its last write (1425) |
| `pipeline_short` | `ringbuffer_get_readpointer` "Returns the actual readable number of bytes." (`ringbuffer.c:130-131`) | the player advances by the number it asked for (`vdrviewer.cpp:1677`) |

Read off the code, without a run of their own:

* The resync of a slow stream (`vdrviewer.cpp:1691`) and a receiver that gives up (1209,
  1266, 1267) reset rings without the handshake as well. With the hazards `slow` and `stall`
  in `MCPipeline.cfg`, TLC finds `QuietOutReset` violated by either.
* Down on the last item of a menu looks at the item after it before it tests that there is
  none (`viewermenu.cpp:677`). `Remote` takes what the loop means to do: stay.
* The client takes the size of the picture from the server and does not compare it with the
  screen (`vdrviewer.cpp:1881`). `Viewer` assumes that the picture is at least as large.
* "ctx-Init hier bevor die Threads starten" (`vdrviewer.cpp:3481`): `playstate` is first
  written by the player, two other threads read it before (1191, 1308). `Session` lets
  them read anything.
* "throw away whole PES packet" (1374): one byte is thrown away (1375), so a start
  code inside an unknown packet is taken for a packet.
* `cleanup_and_exit` (956-995) does not exit. Its callers in `fbvnc_init`,
  `get_fbinfo` and `xmalloc` go on with what was freed.
* A pixel is 8 bits wide, but `s2aa_pixel` and `s4aa_pixel` (`fbdraw.c:150`, 226) read
  32 bits for two pixels: with the scales 2 and 4 a physical pixel is mixed of 4 or 6
  columns, and neighbours of what was drawn remain as they were. The same goes for
  scale 3 at the edge of a picture whose width it does not divide.
* A menu at a scale above 1 leaves remnants: the request after it
  (`viewermenu.cpp:719-721`) asks for a rectangle as large as the screen, in virtual
  pixels. For the same reason, if the picture is larger than the screen, a copy
  that is read after the menu takes along what it blanked outside that rectangle.
* `HandleRFBServerMessage` reads the 8 bytes of a colour map entry into
  `CARD16 rgb[3]` (`rfbproto.c:482`, 497).
* "VDR ausschalten" in the power menu sends nothing (`viewermenu.cpp:828`).
* From its second repeat on, the key that closed a menu is sent to the VDR
  (`vdrviewer.cpp:2540`); pressed again in the next dialog it is swallowed
  up to three times (`viewermenu.cpp:413`).
* A pause and its resumption, stored over the `eOutBufferReset` of a format change,
  undo it: the program is heard in the format of the last one; with one more pause in
  between the decoder stays frozen (`vdrviewer.cpp:1625`, 1480). Therefore
  `RightSound`, and `FrozenRemembered` with changes of the format, are
  proved for servers that do not resume (`Unresumed` in 4.2), and checked with one
  freeze beside the zap (`pipeline_timeout`).

## 4. The proofs

`tlapm` checks them; they hold for every value of the constants that the named
assumptions admit. TLC checked every formula first, in the instances of section 3,
the inductive invariants among them.

### 4.1 RingBufferProofs

Assumed: a size of at least 2, positive requests, and `~ LongStall`. A power of two
is not needed, the masking being written as a remainder.

`IInv` is `TypeOK` strengthened by where the pointers are: a pointer p between its two
stores stands for `Wrapped(p)`; `W` and `R` differ, around the ring, by
`sent - taken`; the segments a thread has still to publish or give back
(`WPending`, `RPending`) fit in what is free, or occupied; and the occupied bytes of `buf`
are the numbers `taken .. sent - 1`. `TypeOK` alone is not inductive: without the
pending segments a thread's second store could leave the buffer, and without the
contents nothing follows about what is read. One lemma per action shows that it is
kept. From it: `Invariance`, `TypeCorrect`, `SpaceIsExact` (`SpaceExact`), `NoRace`
(`NoOverlap`), `VectorsAreExact` (`VectorsCover`) and `RingImplementsChannel`
(`ImplementsChannel`): each step is a step of the channel or a stutter.

### 4.2 PipelineProofs

The hazards that a property does not survive are hypotheses of its theorem: `InOrder`
(no `stale`), `Patient` (no `eager`), `Fed` (no `stall`), no `short`, no `slow`, and `SameSound`: no
AC3, not even the change from -1 that each first play begins with (3.4). Where formats
may change, `Unresumed` says that the server sends neither the message that goes on after a
pause nor the one that changes the speed: both store `ePlay` over whatever is there (3.4). TLC
finds a counterexample when any of them is left out. The sizes of the rings, the
numbers of zaps and messages, and which programs have AC3 sound are any.

| theorem | says `[]` of | hypotheses |
|---|---|---|
| `TypeCorrect` | `TypeOK` | none |
| `InRingIsQuiet` | `QuietInReset`, for the handshake | `InOrder`; `Patient` or no still pictures |
| `FreezeIsRemembered` | `FrozenRemembered` | `SameSound` |
| `AdvancesStayWithin` | `AdvanceWithin` | `Fed`, no `short` |
| `OutRingIsQuiet` | `QuietOutReset`, for all resets | `InOrder`, `Fed`, `SameSound`, no `slow` |
| `OldStreamIsGone` | `OldStreamGone` | all of them but the last, and `SockCap <= DrainMax` |
| `SoundIsRight` | `RightSound` | `InOrder`, `Patient`, `Fed`, `Unresumed`, `SockCap <= DrainMax` |
| `OldStreamIsGoneWithAc3` | `OldStreamGone` | the same, and no `short` |
| `FreezeIsRememberedWithAc3` | `FrozenRemembered` | `InOrder`, `Patient`, `Fed`, `Unresumed` |

The invariants are built on each other. `Ordered`: of the three threads that run the
handshake at most one is between a look and its store, which is what `InOrder`
buys. `StillAlone`: a still picture is fed only while no reset is on its way.
`Kept`: what a reader has seen in a ring is still there when it advances. `Held`:
what a thread has seen of `playstate` stands until it stores. `Answered`, `Handshake`
and `NewStream` follow a program change: until the server has been asked, the
handshake is under way and each ring is emptied in its turn; from then on every
block anywhere is of the new program, or in a ring that is about to be emptied.

A change of the format breaks `Held`: the player stores `eOutBufferReset` over whatever
`playstate` says, and empties the output ring with remux inside. `Sound` takes its place.
`Unhurried` and `Standing` say what still stands of what a thread has seen; `Asked`, that
the server owes one program at most; `Emptied`, that the way to remux is empty when it is
asked; `OneProgram`, that everything on the way is of the program it was last asked for, but
for what is in the output ring until the player resets it; `Heard`, that `g_iIsAC3` is the
format of what is in the output ring; and `Tuned`, that decoders that run are set to the
player's format, or will be stopped before it plays again.

### 4.3 RemuxerProofs

| theorem | says `[]` of | hypothesis |
|---|---|---|
| `TypeCorrect` | `TypeOK` | none |
| `BlocksWhole` | `BlocksAligned` | `Tame` |
| `PesArriveWhole` | `PesArrives` | `Clear` |
| `PacketsAreMarked` | `PacketsMarked` | `Clear` |

The hypotheses are about what the server sends. `Tame`: nothing in it, wherever one begins
to read, looks like a packet of more than `MinIn` bytes. `Clear`: no packet of a stream that
remux knows seems to begin in the garbage between the packets, also across its end. What
looks like a packet inside of a packet does not matter: remux never looks there. Nothing
less will do, since remux has only the start code to go by: with a start code inside an
unknown packet a PID carries bytes that nobody sent for it. TLC evaluates both for the
scripts of the run. The lengths of scripts, packets and rings are any.

`IInv` says that the input ring followed by what is still to come is a tail of the script
(`Following`), so that every header found is tame (`Bounded`); that the output ring has
room for the rest of the packet being cut up (`Room`), so that no write is cut off; and
that what came out, in the ring and before, is a whole number of packets and perhaps a
header (`Whole`), with a sync byte at the beginning of each (`Marked`). The arithmetic is
in `Counted`: the packets counted in advance are enough.

`JInv` adds where remux is in the script. `Delivered`: for some k the first k pieces are
through, but perhaps for a rest of the k-th that is garbage (`Within`); what each PID carried
is what they bring, and of the next packet as much as is cut (`Cut`). A packet that is being
cut up is the next one, whole and in front of the ring (`Cutting`). `Scanning`: remux
scans only where no packet begins, so it never eats one. `Numbered`: each counter is the
next after that of the last packet of its PID, the header of a packet that is half written
included. Then a header is marked exactly if none of its packet is written, that is, if what
its PID carried is what the first k pieces bring; that no other number of pieces brings the same
when something of the packet is written is the argument of `MarkRight`, by lengths.

What `FlattenSeq` gives, which is a recursive function, is proved by induction on the number
of pieces. The induction theorems of the library take an operator; `Least` gets from
`NatLessThanWellFounded` that a set of numbers has a least one, `Induction` from this that
a set with 0 and all successors has every number, and `FlattenAppend`, `FlattenCat` use it
for the set of the lengths for which the claim holds.

### 4.4 SessionProofs

Assumed: `Failing`, `Refusing` and `Leaving` are sets of threads, resp. sockets, any
ones.

`RingsOutliveThreads` speaks of the past, so nothing follows from it alone. `IInv`
adds: a thread that is there and not over has its rings (`RingsReady`); the threads
still to be created are different and not there (`Uncreated`), which is what makes
a created thread a new one; at the joins, every thread is over or still to be joined
(`Joined`), so that the rings are freed only when all are; `terminate` is set during
the cleanup, and otherwise only by a refused connection (`Terminated`); and the control
socket lives from its creation until its thread leaves the loop, which
it does not before `terminate` once a message was handled (`ControlSocket`): so remux,
which writes to it only after such a message, finds it alive.

Since most steps of threads change little, `StepKeepsFrame` shows once what any step of
any thread keeps, `TouchKeepsRings` what touching shared things can do, and
`ControlStep`, `OtherStep` and `MainStep` what is left to show of a single action. Theorems:
`Invariance`, `TypeCorrect`, `RingsOutlive`, `SocketsOutlive`, `CleanLeave`.

### 4.5 RemoteProofs

For any set of keys, number of servers and length of the queue. `KeysDelivered` is not
inductive, since the repeats of a key arrive long after its press: `Chain` says that what is
unread is a sequence of presses, repeats and releases that fit together and end in
`held`; `Counted` compares `keypress_count` with the history; `Remembered` says whose key
`rc_last_key` can be. Theorems: `Invariance`, `TypeCorrect`, `MenuShowsSelection`
(`SelectionShown`), `DeliversKeys` (`KeysDelivered`), `TakesPresses` (`PressTaken`).

### 4.6 ViewerProofs

For any screen, any picture that is at least as large (`ViewerAssumption`; the code does not
check it), and any bounds. The client is in step if what is on the wire leads it
where the server is. `Opening` lists what can be under way before the loop: one answer
or one question. `Serving` is for the loop: there is a path through the states of
the client (how many rectangles are left, what size, which data are due), from
what it is now (`Reader`), by the items on the wire (`Accepts`), to what the server will
go on from (`Writer`). Reading an item drops the first step of the path, and what
the server says adds one at its end. `Ticking`: the schedule is empty before the loop and
one tick in it. Theorems: `Invariance`, `TypeCorrect`, `StaysInStep` (`InStep`),
`KeepsTicking` (`OneTick`).

### 4.7 ScreenProofs and PictureProofs

`NothingPans`: `vp_pan` leaves the displacement zero at every scale and size, by which
`Screen` is simplified. `NothingStale`: for every rectangle, what `redraw_virt` draws again
covers every physical pixel that one of its virtual pixels has a part in, at the scales 1
and 3; this is the arithmetic of `fbdraw.c:395-474`.

`AlwaysShown` (`Shown`) follows for every sequence of events, under `RightScales`: scales 1
and 3, a picture that 3 divides if it is used, and menus at scale 1. `StaysMirror` (`Mirror`)
assumes `WholeScreen`, a screen as large as the picture, and rests on `StaysInStep`. Its
invariants: `Scaling`, the client knows the server's size, or a message that tells it is on
the wire, or the question is under way; `Fresh`, the picture is the server's, or a
menu covers it, or a request for all of it or its answer is under way; and `Colours`.

### 4.8 Only model-checked

Liveness (`Delivered` of the ring, `ZapCompletes`, `ResetEnds`, `StillEnds`, `KeepsUp`,
`CleanupEnds`, `DialogsEnd`, `LossNoticed`) is out of the prover's reach. Every safety property
of the runs that pass is stated by a theorem; the cases that its hypotheses leave out, such as
the timeouts in `pipeline_timeout`, are checked on the instance alone.

## 5. Not modelled

* Third-party: `rfb/d3des.c`, `rfb/vncauth.c`, `rfb/zrle*` (which no file includes), the X11
  headers, the bitmaps of `font.h`.
* Drawing as far as it is looks: glyphs, colours and dithering, the pictures of the LCD, the
  layout of dialogs.
* Calls to devices that no state depends on: aspect ratio (a table between two ioctls,
  called once, with a size that starts as zero), `videoSlowMotion`, writes to the
  decoder, the framebuffer's set-up; reading the configuration.
* Code that is not reached. In `fbvnc_get_event`: mouse, panning and on-screen keyboard (no
  device sends their events), the image pipe, the events that `nextev` would bring (it is
  never set), and what follows the test of `handled`, which always returns before. `TICK_SECOND`
  is the only action ever scheduled, and `check_overlays` finds nothing at it.
  `sendUpdateRequest` is only ever set to `False`, so there are no incremental requests. A
  scale of 2/3 cannot be configured. CoRRE and Hextile are commented out of the list of
  encodings (`rfbproto.c:322-325`). `SettingsMenu` is not opened by any item.
* Code that is not compiled: `args.c` (`#if 0`), `keyboard.c`, `fscale.c`, the branches of
  `HAVE_DREAMBOX_HARDWARE`, the UDP socket class.
* The LCD thread, the server list and the question are modelled by what they read and
  what they own, not by what they show.

Of the 24 000 lines of the source the modules model about 4 700, a fifth. Of the rest, 9 400
are headers of X11 and the font; most of what remains is in the list above.

## 6. What could be added

* `Pipeline` with two writers in one ring (the receiver and a still picture), byte by
  byte; the handshake excludes it only without `eager`.
* `Viewer` for pictures that the screen does not hold, with what a menu blanks kept per
  pixel: `Mirror` does not hold there (3.4), but what is lost is bounded.
* Widths that the scale does not divide: `Shown` for all but the last column.
