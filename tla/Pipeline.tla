------------------------------- MODULE Pipeline --------------------------------
(***************************************************************************)
(* The stream pipeline of vdrviewer.cpp: the receiver, remux, player and   *)
(* client-control threads, which share two ring buffers and the word       *)
(* ctx->playstate without any lock.                                        *)
(*                                                                         *)
(*   server --TCP--> receiver --ringbuf_in--> remux --ringbuf_out--> player *)
(*   server --TCP--> client control (PlayState, StillPicture, Freeze)      *)
(*                                                                         *)
(* A program change (a "zap") is a three-step handshake over playstate:    *)
(*   eBufferReset     set by control; the receiver leaves the input ring   *)
(*   eInBufferReset   set by the receiver; remux resets the input ring     *)
(*   eOutBufferReset  set by remux; the player resets the output ring      *)
(*   eBufferRefill    set by the player; buffering starts again            *)
(*                                                                         *)
(* A step of a thread ends where another thread can make a difference:     *)
(* between its look at playstate and the store that follows from it, and   *)
(* between its look at a ring and the pointer advance.  A ring is the      *)
(* sequence of its blocks (RingBuffer proves that a ring used by one       *)
(* reader and one writer is that); a block carries the number of the       *)
(* program it belongs to.  Sleeps and the LCD and log texts are left out.  *)
(***************************************************************************)
EXTENDS Integers, Sequences

CONSTANTS
  CapIn, CapOut,   \* blocks that fit in ringbuf_in and ringbuf_out
  SockCap,         \* bound: blocks in flight on the stream connection
  DrainMax,        \* blocks one Get of PF_BUF_SIZE takes from the socket
  MaxGen,          \* bound: number of program changes
  MaxMsgs,         \* bound: number of control messages that are not zaps
  Messages,        \* kinds of control messages that the server sends
  Ac3Gens,         \* the programs with AC3 sound
  FirstAc3,        \* ctx->ac3 at the start: -1, or 0 once a program was played
  Hazards          \* which adverse timings the model admits, see below

(***************************************************************************)
(* Hazards.  Without them the run describes the intended timing:           *)
(*   "stale"   a thread is overtaken by a playstate store of another one   *)
(*             between its own look at playstate and its own store         *)
(*   "eager"   the server sends a message before what the last one started *)
(*             is over                                                     *)
(*   "missed"  the player's half second of buffering passes between two of *)
(*             the looks that a still picture takes every tenth of a second*)
(*   "short"   the player leaves buffering before remux has filled a block *)
(*   "stall"   the receiver finds the input ring full 100 times in a row,  *)
(*             or gets no data 100 times in a row                          *)
(*   "slow"    the player measures less than 1 Mbit/s for over 2 seconds   *)
(***************************************************************************)
HazardKinds == {"stale", "eager", "missed", "short", "stall", "slow"}
MessageKinds == {"zap", "speed", "same", "freeze", "still"}

ASSUME CapAssumption ==
  /\ CapIn \in Nat \ {0} /\ CapOut \in Nat \ {0}
  /\ SockCap \in Nat \ {0} /\ DrainMax \in Nat \ {0}
ASSUME BoundAssumption == MaxGen \in Nat /\ MaxMsgs \in Nat
ASSUME KindAssumption ==
  /\ Messages \subseteq MessageKinds /\ Hazards \subseteq HazardKinds
  /\ Ac3Gens \subseteq Nat /\ FirstAc3 \in {-1, 0}

VARIABLES
  playstate,                \* ctx->playstate
  rin, rout,                \* ringbuf_in, ringbuf_out
  mode, slow,               \* g_PlayState: program, Speed > 0
  g_bReset, g_bResync, g_iIsAC3,
  sock, ctl, gen, owed,     \* server: stream, messages, program, requests due
  msgs,                     \* messages sent besides zaps (bound)
  rpc, rblk,                \* receiver: position, block taken from the socket
  xpc, xblk,                \* remux: position, block it converts
  ppc, prd, target, dvbreset, ac3, freezed,      \* player
  devices,                  \* gDeviceState, and the decoders: frozen, bypass mode
  cpc,                      \* client control
  acked, played             \* history: last program asked for, last played

server == <<sock, ctl, gen, owed, msgs>>
receiver == <<rpc, rblk>>
remux == <<xpc, xblk>>
player == <<ppc, prd, target, dvbreset, ac3, freezed, devices>>
locals == <<prd, target, dvbreset, ac3, freezed, devices>>
flags == <<g_bReset, g_bResync>>
info == <<mode, slow>>
vars == <<playstate, rin, rout, info, flags, g_iIsAC3, server, receiver,
          remux, player, cpc, acked, played>>

Resetting == {"BufferReset", "InBufferReset", "OutBufferReset"}
Refilling == {"BufferRefill", "BufferRefillAll"}
PlayStates == Resetting \cup Refilling \cup {"PlayInit", "Play", "Pause"}

Stale == -1      \* what is read behind the write pointer of a ring
Gens == 0 .. MaxGen
Blocks == Gens \cup {Stale}

Init ==
  /\ playstate = "BufferRefill"          \* the first statement of mp_playStream
  /\ rin = << >> /\ rout = << >>
  /\ mode = 0 /\ slow = FALSE
  /\ g_bReset = FALSE /\ g_bResync = FALSE /\ g_iIsAC3 = 0
  /\ sock = << >> /\ ctl = << >> /\ gen = 0 /\ owed = 0 /\ msgs = 0
  /\ rpc = "top" /\ rblk = 0
  /\ xpc = "top" /\ xblk = 0
  /\ ppc = "top" /\ prd = FALSE /\ target = "Play" /\ dvbreset = FALSE
  /\ ac3 = FirstAc3 /\ freezed = FALSE
  /\ devices = [state |-> "UNDEF", frozen |-> FALSE, bypass |-> 1]
  /\ cpc = "idle"
  /\ acked = 0 /\ played = 0

--------------------------------------------------------------------------------
(***************************************************************************)
(* Auxiliary operators.                                                    *)
(***************************************************************************)

\* Positions between a look at playstate (or at the flags) and its store.
Pending ==
  \/ rpc \in {"ack", "calm"}
  \/ xpc \in {"reset", "setout", "request"}
  \/ ppc \in {"outreset", "refill", "initset", "recover", "clear",
              "playset", "ac3set"}

\* Without "stale" nothing is stored while such a look is outstanding.
Undisturbed == "stale" \in Hazards \/ ~ Pending

\* A read_advance by one block: past the end of the content the pointer
\* overtakes write_ptr, and the ring looks full, of bytes long gone.
Advance(ring, cap) ==
  IF ring = << >> THEN [i \in 1 .. cap |-> Stale] ELSE Tail(ring)

Filled == Len(rin) + Len(rout)

\* The fill levels the player waits for: 95 %, an eighth, of both rings.
Enough(state) ==
  Filled >= IF state = "BufferRefillAll" THEN CapIn + CapOut ELSE 1

\* Mutant: the request is not sent.
RequestLost == acked' = mode /\ UNCHANGED server

\* SendPlayStateReq, as the server sees it.
Request ==
  /\ owed' = IF owed > 0 THEN owed - 1 ELSE 0
  /\ acked' = mode
  /\ UNCHANGED <<sock, ctl, gen, msgs>>

--------------------------------------------------------------------------------
(***************************************************************************)
(* The server (not part of src/): it streams blocks of the current program *)
(* and, after a message that calls for an answer, waits for the request.   *)
(***************************************************************************)
ServerKeeps(v) ==
  /\ UNCHANGED v
  /\ UNCHANGED <<playstate, rin, rout, info, flags, g_iIsAC3, receiver, remux,
                 player, cpc, acked, played>>

ServerData ==
  /\ owed = 0
  /\ Len(sock) < SockCap
  /\ sock' = Append(sock, gen)
  /\ ServerKeeps(<<ctl, gen, owed, msgs>>)

\* The last message was answered and the handshake it started is over.
Settled ==
  /\ owed = 0 /\ ctl = << >> /\ cpc = "idle"
  /\ playstate \notin Resetting /\ ~ g_bReset

ServerMessage(kind) ==
  /\ kind \in Messages
  /\ "eager" \in Hazards \/ Settled
  /\ Len(ctl) < 2
  /\ IF kind = "zap" THEN gen < MaxGen ELSE msgs < MaxMsgs
  /\ gen' = IF kind = "zap" THEN gen + 1 ELSE gen
  /\ msgs' = IF kind = "zap" THEN msgs ELSE msgs + 1
  /\ ctl' = Append(ctl, [kind |-> kind, mode |-> gen'])
  /\ owed' = IF kind \in {"zap", "speed", "same"} THEN owed + 1 ELSE owed
  /\ ServerKeeps(<<sock>>)

Server == ServerData \/ \E kind \in Messages : ServerMessage(kind)

--------------------------------------------------------------------------------
(***************************************************************************)
(* mp_ClientControl.                                                       *)
(***************************************************************************)
Receive(kind) == cpc = "idle" /\ ctl # << >> /\ Head(ctl).kind = kind

\* A step changes nothing else of what is this thread's (v), and never these.
ControlKeeps(v) ==
  UNCHANGED v /\ UNCHANGED <<rout, g_iIsAC3, receiver, remux, player, played>>

\* PlayMode or Forward differ: store all of the message, at whatever speed the new
\* program starts, then start the handshake.
ControlZap ==
  /\ Receive("zap")
  /\ Undisturbed
  /\ mode' = Head(ctl).mode /\ slow' \in BOOLEAN
  /\ playstate' = "BufferReset"
  /\ ctl' = Tail(ctl)
  /\ ControlKeeps(<<rin, flags, sock, gen, owed, msgs, cpc, acked>>)

\* The same PlayMode: playing (again), after a reset if the speed changed while
\* playing (kind "speed", which may stay in slow motion or leave it); stepping and
\* resuming may change the speed too.
ControlSame ==
  /\ Receive("same") \/ Receive("speed")
  /\ Undisturbed
  /\ g_bReset' = (g_bReset \/ Head(ctl).kind = "speed")
  /\ slow' \in BOOLEAN
  /\ playstate' = "Play"
  /\ ctl' = Tail(ctl)
  /\ owed' = IF owed > 0 THEN owed - 1 ELSE 0
  /\ acked' = mode
  /\ ControlKeeps(<<rin, mode, g_bResync, sock, gen, msgs, cpc>>)

ControlFreeze ==
  /\ Receive("freeze")
  /\ Undisturbed
  /\ playstate' = "Pause"
  /\ ctl' = Tail(ctl)
  /\ ControlKeeps(<<rin, info, flags, sock, gen, owed, msgs, cpc, acked>>)

\* A still picture: reset, wait for the rings, feed the picture, pause.
StillPicture ==
  /\ Receive("still")
  /\ Undisturbed
  /\ playstate' = "BufferReset"
  /\ ctl' = Tail(ctl)
  /\ cpc' = "still"
  /\ ControlKeeps(<<rin, info, flags, sock, gen, owed, msgs, acked>>)

\* Mutant: the thread waits for a stage that a still picture does not reach.
StillLookWrong ==
  /\ \/ cpc = "still" /\ playstate = "BufferRefillAll" /\ cpc' = "feed"
     \/ cpc = "feed"  /\ playstate # "Play" /\ cpc' = "write"
     \/ cpc = "feed"  /\ playstate = "Play" /\ cpc' = "shown"
  /\ ControlKeeps(<<playstate, rin, info, flags, server, acked>>)

StillLook ==
  /\ \/ cpc = "still" /\ playstate = "BufferRefill" /\ cpc' = "feed"
     \/ cpc = "feed"  /\ playstate # "Play"        /\ cpc' = "write"
     \/ cpc = "feed"  /\ playstate = "Play"        /\ cpc' = "shown"
  /\ ControlKeeps(<<playstate, rin, info, flags, server, acked>>)

\* Mutant: the room is not looked at.
StillWriteUnchecked ==
  /\ cpc = "write"
  /\ rin' = Append(rin, mode)
  /\ cpc' = "feed"
  /\ ControlKeeps(<<playstate, info, flags, server, acked>>)

StillWrite ==
  /\ cpc = "write"
  /\ rin' = IF Len(rin) < CapIn THEN Append(rin, mode) ELSE rin
  /\ cpc' = "feed"
  /\ ControlKeeps(<<playstate, info, flags, server, acked>>)

StillPause ==
  /\ cpc = "shown"
  /\ Undisturbed
  /\ playstate' = "Pause"
  /\ cpc' = "idle"
  /\ ControlKeeps(<<rin, info, flags, server, acked>>)

Control ==
  \/ ControlZap \/ ControlSame \/ ControlFreeze \/ StillPicture
  \/ StillLook \/ StillWrite \/ StillPause

--------------------------------------------------------------------------------
(***************************************************************************)
(* mp_ReceiveStream.                                                       *)
(***************************************************************************)
ReceiverKeeps(v) ==
  /\ UNCHANGED v
  /\ UNCHANGED <<info, flags, g_iIsAC3, ctl, gen, owed, msgs, remux, player, cpc,
                 acked, played>>

\* eBufferReset seen: the receiver is out of the input ring.  The code looks twice
\* (1191, 1193), one line after the other; only with "stale" could the looks differ.
ReceiverSeesReset ==
  /\ rpc = "top" /\ playstate \in {"BufferReset", "InBufferReset"}
  /\ playstate = "BufferReset" => Undisturbed
  /\ rpc' = IF playstate = "BufferReset" THEN "ack" ELSE "drain"
  /\ ReceiverKeeps(<<playstate, rin, rout, sock, rblk>>)

\* The store that follows from the look.
ReceiverStore ==
  /\ \/ rpc = "ack"  /\ playstate' = "InBufferReset" /\ rpc' = "drain"
     \/ rpc = "calm" /\ playstate' = "BufferRefill"  /\ rpc' = "top"
  /\ ReceiverKeeps(<<rin, rout, sock, rblk>>)

\* Mutant: the socket is not emptied.
ReceiverNoDrain ==
  /\ rpc = "drain"
  /\ rpc' = "top"
  /\ ReceiverKeeps(<<playstate, rin, rout, sock, rblk>>)

\* Empty the socket: one Get.
ReceiverDrain ==
  /\ rpc = "drain"
  /\ sock' = SubSeq(sock, DrainMax + 1, Len(sock))
  /\ rpc' = "top"
  /\ ReceiverKeeps(<<playstate, rin, rout, rblk>>)

Streaming == rpc = "top" /\ playstate \notin {"BufferReset", "InBufferReset"}
Throttled == slow /\ 3 * Filled > CapIn + CapOut

\* No room 100 times in a row: give the input ring up.
ReceiverStall ==
  /\ "stall" \in Hazards
  /\ Streaming /\ Len(rin) = CapIn /\ playstate # "Pause"
  /\ rpc' = "stall1"
  /\ ReceiverKeeps(<<playstate, rin, rout, sock, rblk>>)

\* Slow motion needs no full rings: a refill of all of them is cut short.
ReceiverThrottle ==
  /\ Streaming /\ Len(rin) < CapIn /\ Throttled /\ playstate = "BufferRefillAll"
  /\ Undisturbed
  /\ rpc' = "calm"
  /\ ReceiverKeeps(<<playstate, rin, rout, sock, rblk>>)

\* ringbuffer_get_writepointer, then Get.
ReceiverLook ==
  /\ Streaming /\ Len(rin) < CapIn /\ ~ Throttled
  /\ rpc' = "get"
  /\ ReceiverKeeps(<<playstate, rin, rout, sock, rblk>>)

ReceiverGet ==
  /\ rpc = "get"
  /\ IF sock = << >>
     THEN rpc' = "top" /\ UNCHANGED <<sock, rblk>>
     ELSE rpc' = "put" /\ rblk' = Head(sock) /\ sock' = Tail(sock)
  /\ ReceiverKeeps(<<playstate, rin, rout>>)

ReceiverPut ==
  /\ rpc = "put"
  /\ rin' = IF Len(rin) < CapIn THEN Append(rin, rblk) ELSE rin
  /\ rpc' = "top"
  /\ ReceiverKeeps(<<playstate, rout, sock, rblk>>)

\* No data 100 times in a row: both rings are given up.
ReceiverStarved ==
  /\ "stall" \in Hazards
  /\ rpc = "get" /\ sock = << >> /\ playstate # "Pause"
  /\ rpc' = "starve1"
  /\ ReceiverKeeps(<<playstate, rin, rout, sock, rblk>>)

\* stall: reset(in), then playstate.  starve: playstate, reset(in), reset(out).
ReceiverGiveUp ==
  /\ \/ /\ rpc = "stall1" /\ rpc' = "stall2"
        /\ rin' = << >> /\ UNCHANGED <<rout, playstate>>
     \/ /\ rpc = "stall2" /\ rpc' = "top"
        /\ playstate' = "BufferRefill" /\ UNCHANGED <<rin, rout>>
     \/ /\ rpc = "starve1" /\ rpc' = "starve2"
        /\ playstate' = "BufferRefill" /\ UNCHANGED <<rin, rout>>
     \/ /\ rpc = "starve2" /\ rpc' = "starve3"
        /\ rin' = << >> /\ UNCHANGED <<rout, playstate>>
     \/ /\ rpc = "starve3" /\ rpc' = "top"
        /\ rout' = << >> /\ UNCHANGED <<rin, playstate>>
  /\ ReceiverKeeps(<<sock, rblk>>)

Receiver ==
  \/ ReceiverSeesReset \/ ReceiverStore \/ ReceiverDrain
  \/ ReceiverThrottle
  \/ ReceiverLook \/ ReceiverGet \/ ReceiverPut
  \/ ReceiverStall \/ ReceiverStarved \/ ReceiverGiveUp

--------------------------------------------------------------------------------
(***************************************************************************)
(* mp_RemuxStream (the conversion itself is not modelled here).            *)
(***************************************************************************)
RemuxKeeps(v) ==
  UNCHANGED v /\ UNCHANGED <<info, flags, receiver, player, cpc, played>>

\* Mutant: remux goes ahead before the receiver is out of the ring.
RemuxSeesResetEarly ==
  /\ xpc = "top" /\ playstate \in {"BufferReset", "InBufferReset"}
  /\ Undisturbed
  /\ xpc' = "reset"
  /\ RemuxKeeps(<<playstate, rin, rout, g_iIsAC3, server, xblk, acked>>)

RemuxSeesReset ==
  /\ xpc = "top" /\ playstate = "InBufferReset"
  /\ Undisturbed
  /\ xpc' = "reset"
  /\ RemuxKeeps(<<playstate, rin, rout, g_iIsAC3, server, xblk, acked>>)

\* Reset the ring, set playstate, ask the server for the new stream.
RemuxReset ==
  /\ xpc = "reset" /\ xpc' = "setout"
  /\ rin' = << >>
  /\ RemuxKeeps(<<playstate, rout, g_iIsAC3, server, xblk, acked>>)

\* Mutant: the handshake is not passed on.
RemuxSetOutForgotten ==
  /\ xpc = "setout" /\ xpc' = "request"
  /\ RemuxKeeps(<<playstate, rin, rout, g_iIsAC3, server, xblk, acked>>)

RemuxSetOut ==
  /\ xpc = "setout" /\ xpc' = "request"
  /\ playstate' = "OutBufferReset"
  /\ RemuxKeeps(<<rin, rout, g_iIsAC3, server, xblk, acked>>)

RemuxRequest ==
  /\ xpc = "request" /\ xpc' = "top"
  /\ Request
  /\ RemuxKeeps(<<playstate, rin, rout, g_iIsAC3, xblk>>)

\* A whole packet is readable and there is room: look at it in place.
RemuxLook ==
  /\ xpc = "top" /\ playstate \notin Resetting
  /\ rin # << >> /\ Len(rout) < CapOut
  /\ xblk' = Head(rin)
  /\ g_iIsAC3' = IF Head(rin) \in Ac3Gens THEN 1 ELSE 0
  /\ xpc' = "write"
  /\ RemuxKeeps(<<playstate, rin, rout, server, acked>>)

RemuxWrite ==
  /\ xpc = "write"
  /\ rout' = IF Len(rout) < CapOut THEN Append(rout, xblk) ELSE rout
  /\ xpc' = "advance"
  /\ RemuxKeeps(<<playstate, rin, g_iIsAC3, server, xblk, acked>>)

RemuxAdvance ==
  /\ xpc = "advance"
  /\ rin' = Advance(rin, CapIn)
  /\ xpc' = "top"
  /\ RemuxKeeps(<<playstate, rout, g_iIsAC3, server, xblk, acked>>)

Remux ==
  \/ RemuxSeesReset \/ RemuxReset \/ RemuxSetOut \/ RemuxRequest
  \/ RemuxLook \/ RemuxWrite \/ RemuxAdvance

--------------------------------------------------------------------------------
(***************************************************************************)
(* mp_playStream.                                                          *)
(***************************************************************************)
PlayerKeeps(v) ==
  /\ UNCHANGED v
  /\ UNCHANGED <<rin, info, g_iIsAC3, server, receiver, remux, cpc, acked>>

(***************************************************************************)
(* The DVB devices, which only the player touches; they are open.  In      *)
(* bypass mode 0 the sound goes out as it is, as AC3, in mode 1 it is      *)
(* decoded.                                                                *)
(***************************************************************************)
\* mp_stopDVBDevices.
StopDVBDevices ==
  IF devices.state = "STOPPED" THEN devices
  ELSE [devices EXCEPT !.state = "STOPPED", !.frozen = FALSE]

\* Mutant: the bypass mode is left as it is.
StartDVBDevicesOnly == [devices EXCEPT !.state = "RUNNING", !.frozen = FALSE]

\* mp_startDVBDevices, with the sound format ac3.
StartDVBDevices ==
  IF devices.state = "RUNNING" THEN devices
  ELSE [state |-> "RUNNING", frozen |-> FALSE, bypass |-> IF ac3 = 1 THEN 0 ELSE 1]

\* mp_freezeAV, which the player calls without AC3.
FreezeAV ==
  IF devices.state = "RUNNING" THEN [devices EXCEPT !.frozen = TRUE] ELSE devices

\* Mutant: the picture stays.
UnfreezeForgotten(d) == d

\* mp_unfreezeAV of devices d that run, where the player calls it: not with AC3.
UnfreezeAV(d) == IF freezed /\ ac3 = 0 THEN [d EXCEPT !.frozen = FALSE] ELSE d

\* In the reset states and while it buffers, before it looks on.
PlayerStops ==
  /\ ppc = "top" /\ playstate \in Resetting \cup Refilling
  /\ devices.state # "STOPPED"
  /\ devices' = StopDVBDevices
  /\ PlayerKeeps(<<playstate, rout, flags, ppc, prd, target, dvbreset, ac3, freezed,
                   played>>)

\* Mutant: the player goes ahead before remux is out of the output ring.
PlayerSeesResetEarly ==
  /\ ppc = "top" /\ playstate \in {"InBufferReset", "OutBufferReset"}
  /\ devices.state = "STOPPED"
  /\ Undisturbed
  /\ ppc' = "outreset"
  /\ PlayerKeeps(<<playstate, rout, flags, locals, played>>)

PlayerSeesReset ==
  /\ ppc = "top" /\ playstate = "OutBufferReset"
  /\ devices.state = "STOPPED"
  /\ Undisturbed
  /\ ppc' = "outreset"
  /\ PlayerKeeps(<<playstate, rout, flags, locals, played>>)

PlayerReset ==
  /\ ppc = "outreset"
  /\ rout' = << >>
  /\ ppc' = "refill"
  /\ PlayerKeeps(<<playstate, flags, locals, played>>)

\* A store that follows from an earlier look: of playstate, or of a flag.
PlayerStore ==
  /\ \/ ppc = "refill"  /\ playstate' = "BufferRefill"   /\ ppc' = "top"
     \/ ppc = "initset" /\ playstate' = "PlayInit"       /\ ppc' = "top"
     \/ ppc = "recover" /\ playstate' = target           /\ ppc' = "clear"
     \/ ppc = "playset" /\ playstate' = "Play"           /\ ppc' = "ac3"
     \/ ppc = "ac3set"  /\ playstate' = "OutBufferReset" /\ ppc' = "top"
  /\ PlayerKeeps(<<rout, flags, locals, played>>)

PlayerClear ==
  /\ ppc = "clear"
  /\ g_bReset' = FALSE /\ g_bResync' = FALSE
  /\ ppc' = "top"
  /\ PlayerKeeps(<<playstate, rout, locals, played>>)

\* Mutant: a pause is remembered only where the devices are stopped for it.
PlayerPauseUnnoted ==
  /\ ppc = "top" /\ playstate = "Pause" /\ ~ freezed
  /\ freezed' = (ac3 # 0)
  /\ devices' = IF ac3 # 0 THEN StopDVBDevices ELSE FreezeAV
  /\ PlayerKeeps(<<playstate, rout, flags, ppc, prd, target, dvbreset, ac3, played>>)

PlayerPause ==
  /\ ppc = "top" /\ playstate = "Pause" /\ ~ freezed
  /\ freezed' = TRUE
  /\ devices' = IF ac3 # 0 THEN StopDVBDevices ELSE FreezeAV
  /\ PlayerKeeps(<<playstate, rout, flags, ppc, prd, target, dvbreset, ac3, played>>)

\* Buffering: wait for the fill level, then leave it.
PlayerBuffered ==
  /\ ppc = "top" /\ playstate \in Refilling /\ Enough(playstate)
  /\ devices.state = "STOPPED"
  /\ Undisturbed
  /\ cpc = "still" => "missed" \in Hazards
  /\ dvbreset' = FALSE
  /\ ppc' = "initset"
  /\ PlayerKeeps(<<playstate, rout, flags, prd, target, ac3, freezed, devices, played>>)

\* Mutant: a short read goes unnoticed.
BrokenUnnoticed == playstate = "Play" /\ (g_bResync \/ g_bReset)

\* Look at the next readSize bytes; a short read, a resync or a reset request
\* while playing ends playing.
Broken == playstate = "Play" /\ (rout = << >> \/ g_bResync \/ g_bReset)

Looking ==
  /\ ppc = "top" /\ playstate \in {"PlayInit", "Play"}
  /\ Undisturbed

PlayerLook ==
  /\ Looking /\ ~ Broken
  /\ playstate = "PlayInit" /\ "short" \notin Hazards => rout # << >>
  /\ prd' = (rout # << >>)
  /\ ppc' = IF playstate = "PlayInit" THEN "playset" ELSE "ac3"
  /\ PlayerKeeps(<<playstate, rout, flags, target, dvbreset, ac3, freezed, devices,
                   played>>)

\* A reset goes before a resync; else it depends on the time since the start
\* and on whether the devices were restarted already.
PlayerBroken ==
  /\ Looking /\ Broken
  /\ \/ g_bReset /\ target' = "BufferReset" /\ UNCHANGED <<dvbreset, devices>>
     \/ ~ g_bReset /\ g_bResync /\ target' = "BufferRefill"
        /\ UNCHANGED <<dvbreset, devices>>
     \/ ~ g_bReset /\ ~ g_bResync /\ target' = "BufferRefillAll" /\ dvbreset' = FALSE
        /\ UNCHANGED devices
     \/ ~ g_bReset /\ ~ g_bResync /\ dvbreset' = TRUE /\ devices' = StopDVBDevices
        /\ target' = IF dvbreset THEN "BufferRefill" ELSE "PlayInit"
  /\ ppc' = "recover"
  /\ PlayerKeeps(<<playstate, rout, flags, prd, ac3, freezed, played>>)

\* The sound format changed: reset the output ring, without the handshake.
PlayerAc3Changed ==
  /\ ppc = "ac3" /\ g_iIsAC3 # ac3
  /\ Undisturbed
  /\ ac3' = g_iIsAC3
  /\ ppc' = "ac3set"
  /\ PlayerKeeps(<<playstate, rout, flags, prd, target, dvbreset, freezed, devices,
                   played>>)

\* AC3 in slow motion is not played.
Skipping == ac3 # 0 /\ slow /\ ~ freezed

\* Write the block to the DVR device, start the devices and unfreeze them, or skip
\* the block.
PlayerWrite ==
  /\ ppc = "ac3" /\ g_iIsAC3 = ac3
  /\ played' = IF ~ prd \/ Skipping THEN played
               ELSE IF rout = << >> THEN Stale ELSE Head(rout)
  /\ freezed' = FALSE
  /\ devices' = IF Skipping THEN devices ELSE UnfreezeAV(StartDVBDevices)
  /\ ppc' = IF Skipping THEN "skip" ELSE "advance"
  /\ PlayerKeeps(<<playstate, rout, flags, prd, target, dvbreset, ac3>>)

\* read_advance by readSize, however much was readable.
PlayerAdvance ==
  /\ ppc \in {"skip", "advance"}
  /\ rout' = Advance(rout, CapOut)
  /\ \/ ppc' = "top"
     \/ "slow" \in Hazards /\ ppc = "advance" /\ ppc' = "rate"
  /\ PlayerKeeps(<<playstate, flags, locals, played>>)

\* The automatic resync; with the input ring well filled the output ring goes.
PlayerRate ==
  /\ ppc = "rate"
  /\ rout' = IF 10 * Len(rin) > 6 * CapIn THEN << >> ELSE rout
  /\ g_bResync' = TRUE
  /\ ppc' = "top"
  /\ PlayerKeeps(<<playstate, g_bReset, locals, played>>)

Player ==
  \/ PlayerStops \/ PlayerSeesReset \/ PlayerReset \/ PlayerStore \/ PlayerClear \/ PlayerPause
  \/ PlayerBuffered \/ PlayerLook \/ PlayerBroken \/ PlayerAc3Changed
  \/ PlayerWrite \/ PlayerAdvance \/ PlayerRate

--------------------------------------------------------------------------------
Next == Server \/ Control \/ Receiver \/ Remux \/ Player

Spec == Init /\ [][Next]_vars

\* Each thread's loop polls and never waits for another thread for good, and
\* the connected server keeps streaming; its messages are nobody's duty.  The
\* feeding of a still picture, every 50 ms, does not miss playing for ever.
FairSpec ==
  /\ Spec
  /\ WF_vars(ServerData) /\ WF_vars(Control)
  /\ WF_vars(Receiver) /\ WF_vars(Remux) /\ WF_vars(Player)
  /\ SF_vars(StillLook /\ playstate = "Play")
  /\ SF_vars(StillWrite /\ playstate = "Play") /\ SF_vars(StillPause)

--------------------------------------------------------------------------------
(***************************************************************************)
(* Properties.                                                             *)
(***************************************************************************)
TypeOK ==
  /\ playstate \in PlayStates
  /\ rin \in Seq(Blocks) /\ Len(rin) <= CapIn
  /\ rout \in Seq(Blocks) /\ Len(rout) <= CapOut
  /\ mode \in Gens /\ gen \in Gens /\ acked \in Gens
  /\ played \in Blocks
  /\ {slow, g_bReset, g_bResync, prd, dvbreset, freezed} \subseteq BOOLEAN
  /\ sock \in Seq(Gens) /\ Len(sock) <= SockCap
  /\ Len(ctl) <= 2 /\ owed \in 0 .. MaxGen + MaxMsgs /\ msgs \in 0 .. MaxMsgs
  /\ target \in PlayStates
  /\ rblk \in Gens /\ xblk \in Blocks
  /\ ac3 \in {-1, 0, 1} /\ g_iIsAC3 \in {0, 1}
  /\ devices \in [state : {"UNDEF", "STOPPED", "RUNNING"}, frozen : BOOLEAN, bypass : {0, 1}]

\* "This is not thread safe" (ringbuffer.c:80).  When remux resets the input ring in
\* the handshake (vdrviewer.cpp:1313), nobody is between a look at the room in it and
\* his write: not the receiver, not a still picture.  The resets of a receiver that
\* gives up (1209, 1266) are not meant.
QuietInReset == xpc = "reset" => rpc \notin {"get", "put"} /\ cpc # "write"

\* Whoever resets the output ring: the player in the handshake (vdrviewer.cpp:1473) and
\* in its resync (1691), the receiver when it gives up (1267).
OutReset ==
  \/ ppc = "outreset"
  \/ ppc = "rate" /\ 10 * Len(rin) > 6 * CapIn
  \/ rpc = "starve3"

\* The output ring is reset only while remux is not between its look at the room in it
\* and the end of its writes, and, if it is not the player who resets it, while the
\* player is not between its look and its advance (ringbuffer.c:80 again).
QuietOutReset ==
  /\ OutReset => xpc # "write"
  /\ rpc = "starve3" => ppc \notin {"playset", "ac3", "skip", "advance"}

\* Neither reader gives back more than the ring holds (vdrviewer.cpp:1426, 1643,
\* 1677), the count that ringbuffer_get_readpointer returned to it.
AdvanceWithin ==
  /\ xpc = "advance" => rin # << >>
  /\ ppc \in {"skip", "advance"} => rout # << >>

\* Once the server has been asked for the current program, nothing of an older
\* one is in the input ring, nor, after the output reset, in the output ring.
OldStreamGone ==
  acked = mode =>
    /\ \A i \in DOMAIN rin : rin[i] >= mode
    /\ playstate \notin Resetting => \A i \in DOMAIN rout : rout[i] >= mode

\* What is written to the DVR device is heard as what it is: AC3 is not decoded,
\* anything else is.  The devices are told only when they are started, long after
\* remux has seen the format (vdrviewer.cpp:1622-1627, 745-748).
RightSound ==
  ppc = "advance" /\ prd /\ played # Stale =>
    devices.bypass = IF played \in Ac3Gens THEN 0 ELSE 1

\* While a picture is frozen the player remembers that it has to unfreeze it
\* (vdrviewer.cpp:1480-1493, 1633-1639, 1700-1705).
FrozenRemembered == devices.frozen => freezed

\* Every program change is heard: the new program is played in the end.
ZapCompletes == \A g \in 1 .. MaxGen : gen = g ~> (played = g \/ gen > g)

\* Every stage of the reset handshake is left again.
ResetEnds == \A s \in Resetting : playstate = s ~> playstate # s

\* A still picture ends in the pause it is shown in; until then the control
\* thread hears no other message (vdrviewer.cpp:1122-1132).
StillEnds == cpc # "idle" ~> cpc = "idle"
================================================================================
