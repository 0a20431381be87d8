----------------------------- MODULE PipelineProofs -----------------------------
(***************************************************************************)
(* The stream pipeline, for rings and a connection of any size, any number *)
(* of programs and messages.  What the code leaves to its sleeps is named  *)
(* by the hypotheses of the theorems.                                      *)
(***************************************************************************)
EXTENDS Pipeline, SequenceTheorems, TLAPS

\* No thread is overtaken between its look at playstate and its store.
InOrder == "stale" \notin Hazards

\* The server waits until what its last message started is over.
Patient == "eager" \notin Hazards

\* The receiver does not give up.
Fed == "stall" \notin Hazards

\* No program has AC3 sound.
SameSound == FirstAc3 = 0 /\ Ac3Gens = {}

--------------------------------------------------------------------------------
(***************************************************************************)
(* Types.                                                                  *)
(***************************************************************************)
Positions ==
  /\ rpc \in {"top", "ack", "calm", "drain", "get", "put", "stall1", "stall2", "starve1",
              "starve2", "starve3"}
  /\ xpc \in {"top", "reset", "setout", "request", "write", "advance"}
  /\ ppc \in {"top", "outreset", "refill", "initset", "recover", "clear", "playset", "ac3",
              "ac3set", "skip", "advance", "rate"}
  /\ cpc \in {"idle", "still", "feed", "write", "shown"}

RingsTyped ==
  /\ rin \in Seq(Blocks) /\ Len(rin) <= CapIn
  /\ rout \in Seq(Blocks) /\ Len(rout) <= CapOut

ServerTyped ==
  /\ mode \in Gens /\ gen \in Gens /\ acked \in Gens
  /\ sock \in Seq(Gens) /\ Len(sock) <= SockCap
  /\ ctl \in Seq([kind : Messages, mode : Gens]) /\ Len(ctl) <= 2
  /\ owed \in Nat /\ msgs \in 0 .. MaxMsgs /\ owed <= gen + msgs

WordsTyped ==
  /\ playstate \in PlayStates /\ target \in PlayStates
  /\ played \in Blocks /\ rblk \in Gens /\ xblk \in Blocks
  /\ ac3 \in {-1, 0, 1} /\ g_iIsAC3 \in {0, 1}

FlagsTyped ==
  /\ slow \in BOOLEAN /\ g_bReset \in BOOLEAN /\ g_bResync \in BOOLEAN
  /\ prd \in BOOLEAN /\ dvbreset \in BOOLEAN /\ freezed \in BOOLEAN

DevicesTyped ==
  devices \in [state : {"UNDEF", "STOPPED", "RUNNING"}, frozen : BOOLEAN, bypass : {0, 1}]

Typed == Positions /\ RingsTyped /\ ServerTyped /\ WordsTyped /\ FlagsTyped /\ DevicesTyped

\* A ring after an advance is still a ring of that size, also if nothing was in it.
LEMMA Advanced ==
  ASSUME NEW cap \in Nat \ {0}, NEW ring \in Seq(Blocks), Len(ring) <= cap
  PROVE  /\ Advance(ring, cap) \in Seq(Blocks) /\ Len(Advance(ring, cap)) <= cap
         /\ ring # << >> => Advance(ring, cap) = Tail(ring)
<1>1. CASE ring = << >>
  <2>1. [i \in 1 .. cap |-> Stale] \in Seq(Blocks) /\ Len([i \in 1 .. cap |-> Stale]) = cap
    BY DEF Blocks
  <2> QED
    BY <1>1, <2>1 DEF Advance
<1>2. CASE ring # << >>
  <2>1. Tail(ring) \in Seq(Blocks) /\ Len(Tail(ring)) = Len(ring) - 1
    BY <1>2
  <2> QED
    BY <1>2, <2>1 DEF Advance
<1> QED
  BY <1>1, <1>2

\* Where there is room for one more block.
LEMMA Put ==
  ASSUME NEW S, NEW s \in Seq(S), NEW b \in S, NEW cap \in Nat, Len(s) < cap
  PROVE  Append(s, b) \in Seq(S) /\ Len(Append(s, b)) <= cap
OBVIOUS

\* The first of a sequence, and the others.
LEMMA FromHead ==
  ASSUME NEW S, NEW s \in Seq(S), s # << >>
  PROVE  /\ Head(s) \in S /\ Tail(s) \in Seq(S) /\ Len(Tail(s)) = Len(s) - 1
         /\ \A i \in DOMAIN Tail(s) : i + 1 \in DOMAIN s /\ Tail(s)[i] = s[i + 1]
         /\ 1 \in DOMAIN s /\ Head(s) = s[1]
OBVIOUS

\* What a Get has not taken.
LEMMA Drained ==
  ASSUME NEW S, NEW s \in Seq(S), NEW n \in Nat \ {0}
  PROVE  /\ SubSeq(s, n + 1, Len(s)) \in Seq(S)
         /\ Len(SubSeq(s, n + 1, Len(s))) <= Len(s)
         /\ Len(s) <= n => SubSeq(s, n + 1, Len(s)) = << >>
OBVIOUS

\* What a step of one thread leaves alone.
LEMMA ServerFrame ==
  ASSUME Server
  PROVE  /\ UNCHANGED <<playstate, rin, rout, mode, slow, g_bReset, g_bResync, g_iIsAC3>>
         /\ UNCHANGED <<rpc, rblk, xpc, xblk, ppc, prd, target>>
         /\ UNCHANGED <<dvbreset, ac3, freezed, devices>>
         /\ UNCHANGED <<cpc, acked, played>>
BY DEF Server, ServerData, ServerMessage, ServerKeeps, info, flags, receiver, remux, player

\* The control thread.
LEMMA ControlFrame ==
  ASSUME Control
  PROVE  /\ UNCHANGED <<rout, g_iIsAC3, rpc, rblk, xpc, xblk, played>>
         /\ UNCHANGED <<ppc, prd, target, dvbreset, ac3, freezed, devices>>
         /\ UNCHANGED <<sock, gen, msgs, g_bResync>>
BY DEF Control, ControlZap, ControlSame, ControlFreeze, StillPicture, StillLook, StillWrite,
       StillPause, ControlKeeps, info, flags, server, receiver, remux, player

\* The receiver.
LEMMA ReceiverFrame ==
  ASSUME Receiver
  PROVE  /\ UNCHANGED <<mode, slow, g_bReset, g_bResync, g_iIsAC3, ctl, gen, owed, msgs>>
         /\ UNCHANGED <<xpc, xblk, ppc, prd, target, dvbreset, ac3, freezed, devices>>
         /\ UNCHANGED <<cpc, acked, played>>
BY DEF Receiver, ReceiverSeesReset, ReceiverStore, ReceiverDrain, ReceiverThrottle,
       ReceiverLook, ReceiverGet, ReceiverPut, ReceiverStall, ReceiverStarved, ReceiverGiveUp,
       ReceiverKeeps, info, flags, remux, player

\* Remux.
LEMMA RemuxFrame ==
  ASSUME Remux
  PROVE  /\ UNCHANGED <<mode, slow, g_bReset, g_bResync, sock, ctl, gen, msgs, rpc, rblk>>
         /\ UNCHANGED <<ppc, prd, target, dvbreset, ac3, freezed, devices, cpc, played>>
BY DEF Remux, RemuxSeesReset, RemuxReset, RemuxSetOut, RemuxRequest, Request, RemuxLook,
       RemuxWrite, RemuxAdvance, RemuxKeeps, server, info, flags, receiver, player

\* The player.
LEMMA PlayerFrame ==
  ASSUME Player
  PROVE  /\ UNCHANGED <<rin, mode, slow, g_iIsAC3, sock, ctl, gen, owed, msgs>>
         /\ UNCHANGED <<rpc, rblk, xpc, xblk, cpc, acked>>
BY DEF Player, PlayerStops, PlayerSeesReset, PlayerReset, PlayerStore, PlayerClear,
       PlayerPause, PlayerBuffered, PlayerLook, PlayerBroken, PlayerAc3Changed, PlayerWrite,
       PlayerAdvance, PlayerRate, PlayerKeeps, info, server, receiver, remux

\* What the server changes.
LEMMA ServerKeepsTyped ==
  ASSUME Typed, Server PROVE Typed'
<1> USE CapAssumption, BoundAssumption
<1>1. /\ UNCHANGED <<playstate, rin, rout, mode, slow, g_bReset, g_bResync, g_iIsAC3>>
      /\ UNCHANGED <<rpc, rblk, xpc, xblk, ppc, prd, target>>
      /\ UNCHANGED <<dvbreset, ac3, freezed, devices>>
      /\ UNCHANGED <<cpc, acked, played>>
  BY ServerFrame
<1>2. ServerTyped'
  <2>1. CASE ServerData
    <3>1. sock' \in Seq(Gens) /\ Len(sock') <= SockCap
      BY <2>1, Put DEF ServerData, Typed, ServerTyped
    <3> QED
      BY <1>1, <2>1, <3>1 DEF ServerData, ServerKeeps, Typed, ServerTyped
  <2>2. ASSUME NEW kind \in Messages, ServerMessage(kind) PROVE ServerTyped'
    <3>1. gen' \in Gens /\ [kind |-> kind, mode |-> gen'] \in [kind : Messages, mode : Gens]
      BY <2>2 DEF ServerMessage, Typed, ServerTyped, Gens
    <3>2. ctl' \in Seq([kind : Messages, mode : Gens]) /\ Len(ctl') <= 2
      <4> DEFINE m == [kind |-> kind, mode |-> gen']
      <4>1. m \in [kind : Messages, mode : Gens] /\ ctl' = Append(ctl, m) /\ Len(ctl) < 2
        BY <2>2, <3>1 DEF ServerMessage
      <4> HIDE DEF m
      <4> QED
        BY <4>1, Put DEF Typed, ServerTyped
    <3>3. msgs' \in 0 .. MaxMsgs /\ owed' \in Nat /\ owed' <= gen' + msgs'
      BY <2>2 DEF ServerMessage, Typed, ServerTyped, Gens
    <3> QED
      BY <1>1, <2>2, <3>1, <3>2, <3>3 DEF ServerMessage, ServerKeeps, Typed, ServerTyped
  <2> QED
    BY <2>1, <2>2 DEF Server
<1> QED
  BY <1>1, <1>2 DEF Typed, Positions, RingsTyped, WordsTyped, FlagsTyped, DevicesTyped

\* What the control thread changes.
LEMMA ControlKeepsTyped ==
  ASSUME Typed, Control PROVE Typed'
<1> USE CapAssumption DEF ControlKeeps, info, flags, server
<1>1. /\ UNCHANGED <<rout, g_iIsAC3, rpc, rblk, xpc, xblk, played>>
      /\ UNCHANGED <<ppc, prd, target, dvbreset, ac3, freezed, devices>>
  BY ControlFrame
<1>2. ASSUME playstate' \in PlayStates,
             rin' \in Seq(Blocks), Len(rin') <= CapIn,
             mode' \in Gens, acked' \in Gens,
             ctl' \in Seq([kind : Messages, mode : Gens]), Len(ctl') <= 2,
             owed' \in Nat, owed' <= owed, UNCHANGED <<sock, gen, msgs, g_bResync>>,
             slow' \in BOOLEAN, g_bReset' \in BOOLEAN,
             cpc' \in {"idle", "still", "feed", "write", "shown"}
      PROVE  Typed'
  <2>1. owed' <= gen' + msgs'
    BY <1>2, BoundAssumption DEF Typed, ServerTyped, Gens
  <2> QED
    BY <1>1, <1>2, <2>1
       DEF Typed, Positions, RingsTyped, ServerTyped, WordsTyped, FlagsTyped, DevicesTyped
<1>3. ASSUME ctl # << >>, ctl' = Tail(ctl)
      PROVE  /\ ctl' \in Seq([kind : Messages, mode : Gens]) /\ Len(ctl') <= 2
             /\ Head(ctl).mode \in Gens
  <2>1. Head(ctl) \in [kind : Messages, mode : Gens]
    BY <1>3, FromHead DEF Typed, ServerTyped
  <2> QED
    BY <1>3, <2>1 DEF Typed, ServerTyped
<1> USE DEF Typed, Positions, RingsTyped, ServerTyped, WordsTyped, FlagsTyped
<1>4. CASE ControlZap
  <2>1. slow' \in BOOLEAN
    BY <1>4 DEF ControlZap
  <2> QED
    BY <1>2, <1>3, <1>4, <2>1 DEF ControlZap, Receive, PlayStates, Resetting
<1>5. CASE ControlSame
  <2>1. owed' \in Nat /\ owed' <= owed
    BY <1>5 DEF ControlSame
  <2>2. slow' \in BOOLEAN /\ g_bReset' \in BOOLEAN
    BY <1>5 DEF ControlSame
  <2> QED
    BY <1>2, <1>3, <1>5, <2>1, <2>2 DEF ControlSame, Receive, PlayStates
<1>6. CASE ControlFreeze
  BY <1>2, <1>3, <1>6 DEF ControlFreeze, Receive, PlayStates
<1>7. CASE StillPicture
  BY <1>2, <1>3, <1>7 DEF StillPicture, Receive, PlayStates, Resetting
<1>8. CASE StillLook
  BY <1>2, <1>8 DEF StillLook
<1>9. CASE StillWrite
  <2>1. Len(rin) < CapIn => Append(rin, mode) \in Seq(Blocks) /\ Len(Append(rin, mode)) <= CapIn
    BY Put DEF Blocks
  <2> QED
    BY <1>2, <1>9, <2>1 DEF StillWrite
<1>10. CASE StillPause
  BY <1>2, <1>10 DEF StillPause, PlayStates
<1> QED
  BY <1>4, <1>5, <1>6, <1>7, <1>8, <1>9, <1>10 DEF Control

\* What a Get leaves in the connection, and what it took.
LEMMA GotTyped ==
  ASSUME Typed, ReceiverGet
  PROVE  sock' \in Seq(Gens) /\ Len(sock') <= SockCap /\ rblk' \in Gens
<1>1. sock \in Seq(Gens) /\ Len(sock) <= SockCap /\ SockCap \in Nat /\ rblk \in Gens
  BY CapAssumption DEF Typed, ServerTyped, RingsTyped, WordsTyped
<1>2. CASE sock = << >>
  BY <1>1, <1>2 DEF ReceiverGet
<1>3. CASE sock # << >>
  <2>1. Head(sock) \in Gens /\ Tail(sock) \in Seq(Gens) /\ Len(Tail(sock)) <= SockCap
    BY <1>1, <1>3, FromHead
  <2> QED
    BY <1>3, <2>1 DEF ReceiverGet
<1> QED
  BY <1>2, <1>3

\* What the receiver changes.
LEMMA ReceiverKeepsTyped ==
  ASSUME Typed, Receiver PROVE Typed'
<1> USE CapAssumption DEF ReceiverKeeps
<1>1. /\ UNCHANGED <<mode, slow, g_bReset, g_bResync, g_iIsAC3, ctl, gen, owed, msgs>>
      /\ UNCHANGED <<xpc, xblk, ppc, prd, target, dvbreset, ac3, freezed, devices>>
      /\ UNCHANGED <<cpc, acked, played>>
  BY ReceiverFrame
<1>2. ASSUME playstate' \in PlayStates,
             rin' \in Seq(Blocks), Len(rin') <= CapIn,
             rout' \in Seq(Blocks), Len(rout') <= CapOut,
             sock' \in Seq(Gens), Len(sock') <= SockCap, rblk' \in Gens,
             rpc' \in {"top", "ack", "calm", "drain", "get", "put", "stall1", "stall2",
                       "starve1", "starve2", "starve3"}
      PROVE  Typed'
  BY <1>1, <1>2
     DEF Typed, Positions, RingsTyped, ServerTyped, WordsTyped, FlagsTyped, DevicesTyped
<1> USE DEF Typed, Positions, RingsTyped, ServerTyped, WordsTyped
<1>3. CASE \/ ReceiverSeesReset \/ ReceiverThrottle \/ ReceiverLook
           \/ ReceiverStall \/ ReceiverStarved
  BY <1>2, <1>3
     DEF ReceiverSeesReset, ReceiverThrottle, ReceiverLook, ReceiverStall, ReceiverStarved
<1>4. CASE ReceiverStore
  BY <1>2, <1>4 DEF ReceiverStore, PlayStates, Resetting, Refilling
<1>5. CASE ReceiverDrain
  <2>1. /\ SubSeq(sock, DrainMax + 1, Len(sock)) \in Seq(Gens)
        /\ Len(SubSeq(sock, DrainMax + 1, Len(sock))) <= Len(sock)
    BY Drained
  <2>2. sock' \in Seq(Gens) /\ Len(sock') <= SockCap
    BY <1>5, <2>1 DEF ReceiverDrain
  <2> QED
    BY <1>2, <1>5, <2>2 DEF ReceiverDrain
<1>6. CASE ReceiverGet
  <2>1. sock' \in Seq(Gens) /\ Len(sock') <= SockCap /\ rblk' \in Gens
    BY <1>6, GotTyped
  <2> QED
    BY <1>2, <1>6, <2>1 DEF ReceiverGet
<1>7. CASE ReceiverPut
  <2>1. Len(rin) < CapIn => Append(rin, rblk) \in Seq(Blocks) /\ Len(Append(rin, rblk)) <= CapIn
    BY Put DEF Blocks
  <2> QED
    BY <1>2, <1>7, <2>1 DEF ReceiverPut
<1>8. CASE ReceiverGiveUp
  <2>1. << >> \in Seq(Blocks) /\ Len(<< >>) <= CapIn /\ Len(<< >>) <= CapOut
    OBVIOUS
  <2> QED
    BY <1>2, <1>8, <2>1 DEF ReceiverGiveUp, PlayStates, Refilling
<1> QED
  BY <1>3, <1>4, <1>5, <1>6, <1>7, <1>8 DEF Receiver

\* What remux changes.
LEMMA RemuxKeepsTyped ==
  ASSUME Typed, Remux PROVE Typed'
<1> USE CapAssumption DEF RemuxKeeps, server
<1>1. /\ UNCHANGED <<mode, slow, g_bReset, g_bResync, sock, ctl, gen, msgs, rpc, rblk>>
      /\ UNCHANGED <<ppc, prd, target, dvbreset, ac3, freezed, devices, cpc, played>>
  BY RemuxFrame
<1>2. ASSUME playstate' \in PlayStates,
             rin' \in Seq(Blocks), Len(rin') <= CapIn,
             rout' \in Seq(Blocks), Len(rout') <= CapOut,
             owed' \in Nat, owed' <= owed, acked' \in Gens, xblk' \in Blocks,
             g_iIsAC3' \in {0, 1},
             xpc' \in {"top", "reset", "setout", "request", "write", "advance"}
      PROVE  Typed'
  <2>1. owed' <= gen' + msgs'
    BY <1>1, <1>2, BoundAssumption DEF Typed, ServerTyped, Gens
  <2> QED
    BY <1>1, <1>2, <2>1
       DEF Typed, Positions, RingsTyped, ServerTyped, WordsTyped, FlagsTyped, DevicesTyped
<1> USE DEF Typed, Positions, RingsTyped, ServerTyped, WordsTyped
<1>3. CASE RemuxSeesReset
  BY <1>2, <1>3 DEF RemuxSeesReset
<1>4. CASE RemuxReset
  BY <1>2, <1>4 DEF RemuxReset
<1>5. CASE RemuxSetOut
  BY <1>2, <1>5 DEF RemuxSetOut, PlayStates, Resetting
<1>6. CASE RemuxRequest
  <2>1. owed' \in Nat /\ owed' <= owed
    BY <1>6 DEF RemuxRequest, Request
  <2> QED
    BY <1>2, <1>6, <2>1 DEF RemuxRequest, Request
<1>7. CASE RemuxLook
  <2>1. xblk' \in Blocks /\ g_iIsAC3' \in {0, 1}
    BY <1>7 DEF RemuxLook
  <2> QED
    BY <1>2, <1>7, <2>1 DEF RemuxLook
<1>8. CASE RemuxWrite
  <2>1. Len(rout) < CapOut =>
          Append(rout, xblk) \in Seq(Blocks) /\ Len(Append(rout, xblk)) <= CapOut
    BY Put
  <2> QED
    BY <1>2, <1>8, <2>1 DEF RemuxWrite
<1>9. CASE RemuxAdvance
  <2>1. Advance(rin, CapIn) \in Seq(Blocks) /\ Len(Advance(rin, CapIn)) <= CapIn
    BY Advanced
  <2> QED
    BY <1>2, <1>9, <2>1 DEF RemuxAdvance
<1> QED
  BY <1>3, <1>4, <1>5, <1>6, <1>7, <1>8, <1>9 DEF Remux

\* What the player changes.
LEMMA PlayerKeepsTyped ==
  ASSUME Typed, Player PROVE Typed'
<1> USE CapAssumption DEF PlayerKeeps, flags, locals
<1>1. /\ UNCHANGED <<rin, mode, slow, g_iIsAC3, sock, ctl, gen, owed, msgs>>
      /\ UNCHANGED <<rpc, rblk, xpc, xblk, cpc, acked>>
  BY PlayerFrame
<1>2. ASSUME playstate' \in PlayStates, target' \in PlayStates,
             rout' \in Seq(Blocks), Len(rout') <= CapOut,
             played' \in Blocks, ac3' \in {-1, 0, 1}, DevicesTyped',
             g_bReset' \in BOOLEAN, g_bResync' \in BOOLEAN, prd' \in BOOLEAN,
             dvbreset' \in BOOLEAN, freezed' \in BOOLEAN,
             ppc' \in {"top", "outreset", "refill", "initset", "recover", "clear", "playset",
                       "ac3", "ac3set", "skip", "advance", "rate"}
      PROVE  Typed'
  BY <1>1, <1>2 DEF Typed, Positions, RingsTyped, ServerTyped, WordsTyped, FlagsTyped
<1>3. /\ UNCHANGED devices => DevicesTyped'
      /\ devices' = StopDVBDevices => DevicesTyped'
      /\ devices' = FreezeAV => DevicesTyped'
      /\ devices' = UnfreezeAV(StartDVBDevices) => DevicesTyped'
  <2> DEFINE D == [state : {"UNDEF", "STOPPED", "RUNNING"}, frozen : BOOLEAN, bypass : {0, 1}]
  <2>1. devices \in D
    BY DEF Typed, DevicesTyped
  <2>2. StopDVBDevices \in D /\ FreezeAV \in D /\ StartDVBDevices \in D
    BY <2>1 DEF StopDVBDevices, FreezeAV, StartDVBDevices
  <2>3. \A d \in D : UnfreezeAV(d) \in D
    BY DEF UnfreezeAV
  <2> QED
    BY <2>1, <2>2, <2>3 DEF DevicesTyped
<1> USE DEF Typed, Positions, RingsTyped, WordsTyped, FlagsTyped
<1>4. CASE PlayerStops
  BY <1>2, <1>3, <1>4 DEF PlayerStops
<1>5. CASE PlayerSeesReset
  BY <1>2, <1>3, <1>5 DEF PlayerSeesReset
<1>6. CASE PlayerReset
  BY <1>2, <1>3, <1>6 DEF PlayerReset
<1>7. CASE PlayerStore
  BY <1>2, <1>3, <1>7 DEF PlayerStore, PlayStates, Resetting, Refilling
<1>8. CASE PlayerClear
  BY <1>2, <1>3, <1>8 DEF PlayerClear
<1>9. CASE PlayerPause
  BY <1>2, <1>3, <1>9 DEF PlayerPause
<1>10. CASE PlayerBuffered
  BY <1>2, <1>3, <1>10 DEF PlayerBuffered
<1>11. CASE PlayerLook
  <2>1. prd' \in BOOLEAN
    BY <1>11 DEF PlayerLook
  <2> QED
    BY <1>2, <1>3, <1>11, <2>1 DEF PlayerLook
<1>12. CASE PlayerBroken
  <2>1. target' \in PlayStates /\ dvbreset' \in BOOLEAN
    BY <1>12 DEF PlayerBroken, PlayStates, Resetting, Refilling
  <2> QED
    BY <1>2, <1>3, <1>12, <2>1 DEF PlayerBroken
<1>13. CASE PlayerAc3Changed
  BY <1>2, <1>3, <1>13 DEF PlayerAc3Changed
<1>14. CASE PlayerWrite
  <2>1. played' \in Blocks
    <3>1. Stale \in Blocks /\ (rout # << >> => Head(rout) \in Blocks)
      BY DEF Blocks
    <3> QED
      BY <1>14, <3>1 DEF PlayerWrite
  <2>2. DevicesTyped'
    BY <1>3, <1>14 DEF PlayerWrite
  <2> QED
    BY <1>2, <1>14, <2>1, <2>2 DEF PlayerWrite
<1>15. CASE PlayerAdvance
  <2>1. Advance(rout, CapOut) \in Seq(Blocks) /\ Len(Advance(rout, CapOut)) <= CapOut
    BY Advanced
  <2> QED
    BY <1>2, <1>3, <1>15, <2>1 DEF PlayerAdvance
<1>16. CASE PlayerRate
  BY <1>2, <1>3, <1>16 DEF PlayerRate
<1> QED
  BY <1>4, <1>5, <1>6, <1>7, <1>8, <1>9, <1>10, <1>11, <1>12, <1>13, <1>14, <1>15, <1>16
     DEF Player

\* The types at first.
LEMMA InitTyped == Init => Typed
<1> SUFFICES ASSUME Init PROVE Typed
  OBVIOUS
<1> USE CapAssumption, BoundAssumption, KindAssumption DEF Init
<1>1. Positions
  BY DEF Positions
<1>2. RingsTyped
  BY DEF RingsTyped
<1>3. ServerTyped
  BY DEF ServerTyped, Gens
<1>4. WordsTyped
  BY DEF WordsTyped, PlayStates, Refilling, Gens, Blocks
<1>5. FlagsTyped /\ DevicesTyped
  BY DEF FlagsTyped, DevicesTyped
<1> QED
  BY <1>1, <1>2, <1>3, <1>4, <1>5 DEF Typed

\* Every step keeps the types.
LEMMA StepTyped == Typed /\ [Next]_vars => Typed'
<1> SUFFICES ASSUME Typed, [Next]_vars PROVE Typed'
  OBVIOUS
<1>1. CASE Next
  BY <1>1, ServerKeepsTyped, ControlKeepsTyped, ReceiverKeepsTyped, RemuxKeepsTyped,
     PlayerKeepsTyped DEF Next
<1>2. CASE UNCHANGED vars
  BY <1>2
     DEF Typed, Positions, RingsTyped, ServerTyped, WordsTyped, FlagsTyped, DevicesTyped,
         vars, info, flags, server, receiver, remux, player
<1> QED
  BY <1>1, <1>2

\* TypeOK of Pipeline is an invariant.
THEOREM TypeCorrect == Spec => []TypeOK
<1>1. Typed => TypeOK
  BY BoundAssumption
     DEF Typed, RingsTyped, ServerTyped, WordsTyped, FlagsTyped, DevicesTyped, TypeOK, Gens
<1> QED
  BY <1>1, InitTyped, StepTyped, PTL DEF Spec

--------------------------------------------------------------------------------
(***************************************************************************)
(* The looks at playstate that are still to be followed by a store: there  *)
(* is one at most, and what it has seen of the input ring's stage stands.  *)
(***************************************************************************)
ReceiverLooks == rpc \in {"ack", "calm"}
RemuxLooks == xpc \in {"reset", "setout", "request"}
PlayerLooks ==
  ppc \in {"outreset", "refill", "initset", "recover", "clear", "playset", "ac3set"}

Targets == {"Play", "BufferReset", "BufferRefill", "BufferRefillAll", "PlayInit"}

Ordered ==
  /\ ~ (ReceiverLooks /\ RemuxLooks) /\ ~ (ReceiverLooks /\ PlayerLooks)
  /\ ~ (RemuxLooks /\ PlayerLooks)
  /\ target \in Targets
  /\ rpc = "ack" => playstate = "BufferReset"
  /\ playstate = "InBufferReset" => rpc \in {"top", "drain"}
  /\ xpc \in {"reset", "setout"} => playstate = "InBufferReset"

\* At first nobody looks.
LEMMA InitOrdered == Init => Ordered
BY DEF Init, Ordered, ReceiverLooks, RemuxLooks, PlayerLooks, Targets

\* Every store is over before the next look begins.
LEMMA StepOrdered ==
  ASSUME InOrder, Typed, Ordered, Next
  PROVE  Ordered'
<1> USE DEF Ordered, ReceiverLooks, RemuxLooks, PlayerLooks
<1>1. Undisturbed => ~ ReceiverLooks /\ ~ RemuxLooks /\ ~ PlayerLooks
  BY DEF Undisturbed, Pending, InOrder
<1>2. CASE Server
  <2>1. UNCHANGED <<playstate, rpc, xpc, ppc, target>>
    BY <1>2 DEF Server, ServerData, ServerMessage, ServerKeeps, receiver, remux, player
  <2> QED
    BY <2>1
<1>3. CASE Control
  <2>1. UNCHANGED <<rpc, xpc, ppc, target>>
    BY <1>3 DEF Control, ControlZap, ControlSame, ControlFreeze, StillPicture, StillLook,
                StillWrite, StillPause, ControlKeeps, receiver, remux, player
  <2>2. UNCHANGED playstate \/ (Undisturbed /\ playstate' # "InBufferReset")
    <3>1. CASE StillLook \/ StillWrite
      BY <3>1 DEF StillLook, StillWrite, ControlKeeps
    <3>2. CASE ~ StillLook /\ ~ StillWrite
      <4>1. Undisturbed /\ playstate' \in {"BufferReset", "Play", "Pause"}
        BY <1>3, <3>2 DEF Control, ControlZap, ControlSame, ControlFreeze, StillPicture,
                          StillPause
      <4> QED
        BY <4>1
    <3> QED
      BY <3>1, <3>2
  <2> QED
    BY <1>1, <2>1, <2>2
<1>4. CASE Receiver
  <2>1. UNCHANGED <<xpc, ppc, target>>
    BY <1>4 DEF Receiver, ReceiverSeesReset, ReceiverStore, ReceiverDrain, ReceiverThrottle,
                ReceiverLook, ReceiverGet, ReceiverPut, ReceiverStall, ReceiverStarved,
                ReceiverGiveUp, ReceiverKeeps, remux, player
  <2>2. CASE ReceiverSeesReset
    BY <1>1, <2>1, <2>2 DEF ReceiverSeesReset, ReceiverKeeps
  <2>3. CASE ReceiverStore
    BY <2>1, <2>3 DEF ReceiverStore
  <2>4. CASE ReceiverThrottle
    BY <1>1, <2>1, <2>4 DEF ReceiverThrottle, ReceiverKeeps
  <2>5. CASE ReceiverDrain \/ ReceiverPut
    BY <2>1, <2>5 DEF ReceiverDrain, ReceiverPut, ReceiverKeeps
  <2>6. CASE ReceiverLook \/ ReceiverGet \/ ReceiverStall \/ ReceiverStarved
    BY <2>1, <2>6 DEF ReceiverLook, ReceiverGet, ReceiverStall, ReceiverStarved, ReceiverKeeps,
                      Streaming
  <2>7. CASE ReceiverGiveUp
    BY <2>1, <2>7 DEF ReceiverGiveUp
  <2> QED
    BY <1>4, <2>2, <2>3, <2>4, <2>5, <2>6, <2>7 DEF Receiver
<1>5. CASE Remux
  <2>1. UNCHANGED <<rpc, ppc, target>>
    BY <1>5 DEF Remux, RemuxSeesReset, RemuxReset, RemuxSetOut, RemuxRequest, RemuxLook,
                RemuxWrite, RemuxAdvance, RemuxKeeps, receiver, player
  <2>2. CASE RemuxSeesReset
    BY <1>1, <2>1, <2>2 DEF RemuxSeesReset, RemuxKeeps
  <2>3. CASE RemuxReset \/ RemuxSetOut \/ RemuxRequest
    BY <2>1, <2>3 DEF RemuxReset, RemuxSetOut, RemuxRequest, RemuxKeeps
  <2>4. CASE RemuxLook \/ RemuxWrite \/ RemuxAdvance
    BY <2>1, <2>4 DEF RemuxLook, RemuxWrite, RemuxAdvance, RemuxKeeps
  <2> QED
    BY <1>5, <2>2, <2>3, <2>4 DEF Remux
<1>6. CASE Player
  <2>1. UNCHANGED <<rpc, xpc>>
    BY <1>6 DEF Player, PlayerStops, PlayerSeesReset, PlayerReset, PlayerStore, PlayerClear,
                PlayerPause, PlayerBuffered, PlayerLook, PlayerBroken, PlayerAc3Changed,
                PlayerWrite, PlayerAdvance, PlayerRate, PlayerKeeps, receiver, remux
  <2>2. CASE PlayerStops \/ PlayerPause \/ PlayerClear \/ PlayerReset
    BY <2>1, <2>2 DEF PlayerStops, PlayerPause, PlayerClear, PlayerReset, PlayerKeeps, locals
  <2>3. CASE PlayerSeesReset \/ PlayerBuffered \/ PlayerLook \/ PlayerAc3Changed
    BY <1>1, <2>1, <2>3
       DEF PlayerSeesReset, PlayerBuffered, PlayerLook, PlayerAc3Changed, PlayerKeeps, Looking,
           locals
  <2>4. CASE PlayerBroken
    BY <1>1, <2>1, <2>4 DEF PlayerBroken, PlayerKeeps, Looking, Targets
  <2>5. CASE PlayerStore
    <3>1. PlayerLooks /\ target' = target
      BY <2>5 DEF PlayerStore, PlayerKeeps, locals
    <3>2. playstate' # "InBufferReset"
      BY <2>5 DEF PlayerStore, Targets
    <3> QED
      BY <2>1, <3>1, <3>2
  <2>6. CASE PlayerWrite \/ PlayerAdvance \/ PlayerRate
    BY <2>1, <2>6 DEF PlayerWrite, PlayerAdvance, PlayerRate, PlayerKeeps, locals
  <2> QED
    BY <1>6, <2>2, <2>3, <2>4, <2>5, <2>6 DEF Player
<1> QED
  BY <1>2, <1>3, <1>4, <1>5, <1>6 DEF Next

--------------------------------------------------------------------------------
(***************************************************************************)
(* A still picture is fed while nobody resets.                             *)
(***************************************************************************)
StillAlone ==
  /\ "still" \notin Messages => cpc = "idle"
  /\ Patient =>
       /\ ctl # << >> => cpc = "idle" /\ Len(ctl) = 1
       /\ ctl # << >> \/ cpc # "idle" => g_bReset = FALSE
  /\ cpc \in {"feed", "write", "shown"} => playstate \notin {"BufferReset", "InBufferReset"}
  /\ ppc = "recover" /\ target = "BufferReset" => g_bReset = TRUE

\* At first no still picture is asked for.
LEMMA InitStillAlone == Init => StillAlone
BY DEF Init, StillAlone

\* What a message leaves of ctl: nothing, if there is never more than one.
LEMMA LastMessage ==
  ASSUME Typed, Len(ctl) = 1 PROVE Tail(ctl) = << >> /\ ctl # << >>
<1> DEFINE M == [kind : Messages, mode : Gens]
<1>1. ctl \in Seq(M)
  BY DEF Typed, ServerTyped
<1> HIDE DEF M
<1>2. ctl # << >>
  OBVIOUS
<1>3. Tail(ctl) \in Seq(M) /\ Len(Tail(ctl)) = 0
  BY <1>1, <1>2, FromHead
<1>4. \A s \in Seq(M) : Len(s) = 0 => s = << >>
  OBVIOUS
<1> QED
  BY <1>2, <1>3, <1>4

\* No step starts a reset while a still picture is fed.
LEMMA StepStillAlone ==
  ASSUME InOrder, Patient \/ "still" \notin Messages, Typed, Ordered, StillAlone, Next
  PROVE  StillAlone'
<1> USE DEF StillAlone
<1>1. Undisturbed => ~ ReceiverLooks /\ ~ RemuxLooks /\ ~ PlayerLooks
  BY DEF Undisturbed, Pending, InOrder, ReceiverLooks, RemuxLooks, PlayerLooks
<1>2. CASE Server
  <2>1. UNCHANGED <<playstate, ppc, cpc, target, g_bReset>>
    BY <1>2 DEF Server, ServerData, ServerMessage, ServerKeeps, player, flags
  <2>2. CASE UNCHANGED ctl
    BY <2>1, <2>2
  <2>3. ASSUME NEW kind \in Messages, ServerMessage(kind), Patient
        PROVE  cpc = "idle" /\ Len(ctl') = 1 /\ g_bReset = FALSE
    <3>1. Settled
      BY <2>3 DEF ServerMessage, Patient
    <3>2. ctl = << >> /\ cpc = "idle" /\ ~ g_bReset
      BY <3>1 DEF Settled
    <3>3. Len(ctl') = 1
      BY <2>3, <3>2 DEF ServerMessage
    <3> QED
      BY <3>2, <3>3 DEF Typed, FlagsTyped
  <2>4. CASE ServerData
    BY <2>2, <2>4 DEF ServerData, ServerKeeps
  <2>5. ASSUME NEW kind \in Messages, ServerMessage(kind) PROVE StillAlone'
    <3>1. CASE Patient
      <4>1. cpc = "idle" /\ Len(ctl') = 1 /\ g_bReset = FALSE
        BY <2>3, <2>5, <3>1
      <4> QED
        BY <2>1, <4>1
    <3>2. CASE ~ Patient
      BY <2>1, <3>2
    <3> QED
      BY <3>1, <3>2
  <2> QED
    BY <1>2, <2>4, <2>5 DEF Server
<1>3. CASE Control
  <2>1. UNCHANGED <<ppc, target>>
    BY <1>3 DEF Control, ControlZap, ControlSame, ControlFreeze, StillPicture, StillLook,
                StillWrite, StillPause, ControlKeeps, player
  <2>2. ASSUME ctl # << >>, ctl' = Tail(ctl), Patient PROVE ctl' = << >>
    BY <2>2, LastMessage
  <2>3. CASE ControlZap \/ ControlFreeze
    BY <1>1, <2>1, <2>2, <2>3 DEF ControlZap, ControlFreeze, Receive, ControlKeeps, flags,
                                  PlayerLooks
  <2>4. CASE ControlSame
    BY <1>1, <2>1, <2>2, <2>4 DEF ControlSame, Receive, ControlKeeps, PlayerLooks
  <2>5. CASE StillPicture
    <3>1. "still" \in Messages
      <4>1. Head(ctl) \in [kind : Messages, mode : Gens]
        BY <2>5, FromHead DEF StillPicture, Receive, Typed, ServerTyped
      <4> QED
        BY <2>5, <4>1 DEF StillPicture, Receive
    <3> QED
      BY <1>1, <2>1, <2>2, <2>5, <3>1
         DEF StillPicture, Receive, ControlKeeps, flags, PlayerLooks
  <2>6. CASE StillLook \/ StillWrite
    BY <2>1, <2>6 DEF StillLook, StillWrite, ControlKeeps, flags, server
  <2>7. CASE StillPause
    BY <1>1, <2>1, <2>7 DEF StillPause, ControlKeeps, flags, server, PlayerLooks
  <2> QED
    BY <1>3, <2>3, <2>4, <2>5, <2>6, <2>7 DEF Control
<1>4. CASE Receiver
  <2>1. UNCHANGED <<ctl, cpc, ppc, target, g_bReset>>
    BY <1>4 DEF Receiver, ReceiverSeesReset, ReceiverStore, ReceiverDrain, ReceiverThrottle,
                ReceiverLook, ReceiverGet, ReceiverPut, ReceiverStall, ReceiverStarved,
                ReceiverGiveUp, ReceiverKeeps, player, flags
  <2>2. \/ UNCHANGED playstate
        \/ playstate' = "BufferRefill"
        \/ rpc = "ack" /\ playstate' = "InBufferReset"
    BY <1>4 DEF Receiver, ReceiverSeesReset, ReceiverStore, ReceiverDrain, ReceiverThrottle,
                ReceiverLook, ReceiverGet, ReceiverPut, ReceiverStall, ReceiverStarved,
                ReceiverGiveUp, ReceiverKeeps
  <2> QED
    BY <2>1, <2>2 DEF Ordered
<1>5. CASE Remux
  <2>1. UNCHANGED <<ctl, cpc, ppc, target, g_bReset>>
    BY <1>5 DEF Remux, RemuxSeesReset, RemuxReset, RemuxSetOut, RemuxRequest, Request,
                RemuxLook, RemuxWrite, RemuxAdvance, RemuxKeeps, server, player, flags
  <2>2. UNCHANGED playstate \/ playstate' = "OutBufferReset"
    BY <1>5 DEF Remux, RemuxSeesReset, RemuxReset, RemuxSetOut, RemuxRequest, RemuxLook,
                RemuxWrite, RemuxAdvance, RemuxKeeps
  <2> QED
    BY <2>1, <2>2
<1>6. CASE Player
  <2>1. UNCHANGED <<ctl, cpc>>
    BY <1>6 DEF Player, PlayerStops, PlayerSeesReset, PlayerReset, PlayerStore, PlayerClear,
                PlayerPause, PlayerBuffered, PlayerLook, PlayerBroken, PlayerAc3Changed,
                PlayerWrite, PlayerAdvance, PlayerRate, PlayerKeeps, server
  <2>2. CASE PlayerClear
    BY <2>1, <2>2 DEF PlayerClear, PlayerKeeps
  <2>3. CASE PlayerStore
    <3>1. UNCHANGED <<g_bReset, target>> /\ ppc' # "recover"
      BY <2>3 DEF PlayerStore, PlayerKeeps, locals, flags
    <3>2. \/ playstate' \notin {"BufferReset", "InBufferReset"}
          \/ ppc = "recover" /\ target = "BufferReset"
      BY <2>3 DEF PlayerStore, Ordered, Targets
    <3> QED
      BY <2>1, <3>1, <3>2
  <2>4. CASE PlayerBroken
    <3>1. g_bReset \in BOOLEAN
      BY DEF Typed, FlagsTyped
    <3> QED
      BY <2>1, <2>4, <3>1 DEF PlayerBroken, PlayerKeeps, flags
  <2>5. CASE ~ PlayerClear /\ ~ PlayerStore /\ ~ PlayerBroken
    <3>1. /\ UNCHANGED <<playstate, g_bReset>>
          /\ ppc' # "recover" \/ UNCHANGED <<ppc, target>>
      BY <1>6, <2>5 DEF Player, PlayerStops, PlayerSeesReset, PlayerReset,
                PlayerPause, PlayerBuffered, PlayerLook, PlayerAc3Changed,
                PlayerWrite, PlayerAdvance, PlayerRate, PlayerKeeps, locals, flags
    <3> QED
      BY <2>1, <3>1
  <2> QED
    BY <2>2, <2>3, <2>4, <2>5
<1> QED
  BY <1>2, <1>3, <1>4, <1>5, <1>6 DEF Next

\* The receiver and a still picture are outside the input ring when remux resets it in
\* the handshake (QuietInReset).
THEOREM InRingIsQuiet ==
  ASSUME InOrder, Patient \/ "still" \notin Messages
  PROVE  Spec => []QuietInReset
<1> DEFINE Inv == Typed /\ Ordered /\ StillAlone
<1>1. Init => Inv
  BY InitTyped, InitOrdered, InitStillAlone
<1>2. Inv /\ [Next]_vars => Inv'
  <2>1. CASE Next
    BY <2>1, StepTyped, StepOrdered, StepStillAlone
  <2>2. CASE UNCHANGED vars
    BY <2>2, StepTyped DEF Ordered, ReceiverLooks, RemuxLooks, PlayerLooks, StillAlone, vars,
                           flags, server, receiver, remux, player
  <2> QED
    BY <2>1, <2>2
<1>3. Inv => QuietInReset
  BY DEF Ordered, StillAlone, QuietInReset, Typed, Positions
<1> HIDE DEF Inv
<1> QED
  BY <1>1, <1>2, <1>3, PTL DEF Spec

--------------------------------------------------------------------------------
(***************************************************************************)
(* The devices and the ends of the rings.                                  *)
(***************************************************************************)
GivingUp == {"stall1", "stall2", "starve1", "starve2", "starve3"}

\* No sound format is ever told to the player, and it remembers a frozen picture.
OneSound ==
  /\ ac3 = 0 /\ g_iIsAC3 = 0 /\ ppc # "ac3set"
  /\ devices.frozen => freezed

\* At first nothing is frozen.
LEMMA InitOneSound == SameSound /\ Init => OneSound
BY DEF Init, OneSound, SameSound

\* No step tells the player of another sound format, and none but a pause freezes.
LEMMA StepOneSound ==
  ASSUME SameSound, OneSound, [Next]_vars
  PROVE  OneSound'
<1> USE DEF OneSound
<1>1. CASE Server
  BY <1>1, ServerFrame
<1>2. CASE Control
  BY <1>2, ControlFrame
<1>3. CASE Receiver
  BY <1>3, ReceiverFrame
<1>4. CASE Remux
  <2>1. g_iIsAC3' = 0
    BY <1>4 DEF Remux, RemuxSeesReset, RemuxReset, RemuxSetOut, RemuxRequest, RemuxLook,
                RemuxWrite, RemuxAdvance, RemuxKeeps, SameSound
  <2> QED
    BY <1>4, <2>1, RemuxFrame
<1>5. CASE Player
  <2>1. g_iIsAC3' = 0
    BY <1>5, PlayerFrame
  <2>2. CASE PlayerStops \/ PlayerBroken
    <3>1. ppc' # "ac3set" /\ UNCHANGED <<ac3, freezed>>
      BY <2>2 DEF PlayerStops, PlayerBroken, PlayerKeeps
    <3>2. UNCHANGED devices \/ devices' = StopDVBDevices
      BY <2>2 DEF PlayerStops, PlayerBroken
    <3>3. devices'.frozen => devices.frozen
      <4>1. CASE UNCHANGED devices
        BY <4>1
      <4>2. CASE devices' = [devices EXCEPT !.state = "STOPPED", !.frozen = FALSE]
        BY <4>2
      <4> QED
        BY <3>2, <4>1, <4>2 DEF StopDVBDevices
    <3> QED
      BY <2>1, <3>1, <3>3
  <2>3. CASE PlayerPause
    <3>1. freezed' = TRUE /\ UNCHANGED <<ac3, ppc>>
      BY <2>3 DEF PlayerPause, PlayerKeeps
    <3> QED
      BY <2>1, <3>1
  <2>4. CASE PlayerWrite
    <3>1. devices' = UnfreezeAV(StartDVBDevices) /\ ppc' # "ac3set" /\ UNCHANGED ac3
      BY <2>4 DEF PlayerWrite, PlayerKeeps, Skipping
    <3>2. StartDVBDevices.frozen => devices.frozen
      <4>1. CASE devices.state = "RUNNING"
        BY <4>1 DEF StartDVBDevices
      <4>2. CASE devices.state # "RUNNING"
        BY <4>2 DEF StartDVBDevices
      <4> QED
        BY <4>1, <4>2
    <3>3. ~ devices'.frozen
      <4>1. CASE freezed
        <5>1. devices' = [StartDVBDevices EXCEPT !.frozen = FALSE]
          BY <3>1, <4>1 DEF UnfreezeAV
        <5>2. CASE devices.state = "RUNNING"
          BY <5>1, <5>2 DEF StartDVBDevices
        <5>3. CASE devices.state # "RUNNING"
          BY <5>1, <5>3 DEF StartDVBDevices
        <5> QED
          BY <5>2, <5>3
      <4>2. CASE ~ freezed
        BY <3>1, <3>2, <4>2 DEF UnfreezeAV
      <4> QED
        BY <4>1, <4>2
    <3> QED
      BY <2>1, <3>1, <3>3
  <2>5. CASE PlayerAc3Changed
    BY <2>5 DEF PlayerAc3Changed
  <2>6. CASE \/ PlayerSeesReset \/ PlayerReset \/ PlayerStore \/ PlayerClear
             \/ PlayerBuffered \/ PlayerLook \/ PlayerAdvance \/ PlayerRate
    <3>1. UNCHANGED <<ac3, freezed, devices>> /\ ppc' # "ac3set"
      BY <2>6 DEF PlayerSeesReset, PlayerReset, PlayerStore, PlayerClear, PlayerBuffered,
                  PlayerLook, PlayerAdvance, PlayerRate, PlayerKeeps, locals
    <3> QED
      BY <2>1, <3>1
  <2> QED
    BY <1>5, <2>2, <2>3, <2>4, <2>5, <2>6 DEF Player
<1>6. CASE UNCHANGED vars
  BY <1>6 DEF vars, player
<1> QED
  BY <1>1, <1>2, <1>3, <1>4, <1>5, <1>6 DEF Next

\* With one sound format a picture is only frozen by a pause (FrozenRemembered).
THEOREM FreezeIsRemembered ==
  ASSUME SameSound
  PROVE  Spec => []FrozenRemembered
<1>1. OneSound /\ [Next]_vars => OneSound'
  BY StepOneSound
<1>2. OneSound => FrozenRemembered
  BY DEF OneSound, FrozenRemembered
<1> QED
  BY <1>1, <1>2, InitOneSound, PTL DEF Spec

\* A reader that has seen a block finds it when it advances.
Kept ==
  /\ rpc \notin GivingUp
  /\ xpc \in {"write", "advance"} => rin # << >>
  /\ ppc \in {"playset", "ac3", "skip", "advance"} => rout # << >>

\* At first nobody has seen a block.
LEMMA InitKept == Init => Kept
BY DEF Init, Kept, GivingUp

\* No step takes a block from under its reader.
LEMMA StepKept ==
  ASSUME Fed, "short" \notin Hazards, Typed, Kept, [Next]_vars
  PROVE  Kept'
<1> USE DEF Kept, GivingUp
<1>1. CASE Server
  BY <1>1, ServerFrame
<1>2. CASE Control
  <2>1. rin # << >> => rin' # << >>
    BY <1>2 DEF Control, ControlZap, ControlSame, ControlFreeze, StillPicture, StillLook,
                StillWrite, StillPause, ControlKeeps, Typed, RingsTyped
  <2> QED
    BY <1>2, <2>1, ControlFrame
<1>3. CASE Receiver
  <2>1. rpc' \notin GivingUp /\ (rin # << >> => rin' # << >>) /\ UNCHANGED rout
    BY <1>3 DEF Receiver, ReceiverSeesReset, ReceiverStore, ReceiverDrain, ReceiverThrottle,
                ReceiverLook, ReceiverGet, ReceiverPut, ReceiverStall, ReceiverStarved,
                ReceiverGiveUp, ReceiverKeeps, Fed, Typed, RingsTyped
  <2> QED
    BY <1>3, <2>1, ReceiverFrame
<1>4. CASE Remux
  <2>1. rout # << >> => rout' # << >>
    BY <1>4 DEF Remux, RemuxSeesReset, RemuxReset, RemuxSetOut, RemuxRequest, RemuxLook,
                RemuxWrite, RemuxAdvance, RemuxKeeps, Typed, RingsTyped
  <2>2. xpc' \in {"write", "advance"} => rin # << >> /\ UNCHANGED rin
    BY <1>4 DEF Remux, RemuxSeesReset, RemuxReset, RemuxSetOut, RemuxRequest, RemuxLook,
                RemuxWrite, RemuxAdvance, RemuxKeeps
  <2> QED
    BY <1>4, <2>1, <2>2, RemuxFrame
<1>5. CASE Player
  <2>1. ppc' \in {"playset", "ac3", "skip", "advance"} => rout # << >> /\ UNCHANGED rout
    <3>1. CASE PlayerLook
      BY <3>1 DEF PlayerLook, PlayerKeeps, Broken, Looking
    <3>2. CASE ~ PlayerLook
      BY <1>5, <3>2
         DEF Player, PlayerStops, PlayerSeesReset, PlayerReset, PlayerStore, PlayerClear,
             PlayerPause, PlayerBuffered, PlayerBroken, PlayerAc3Changed, PlayerWrite,
             PlayerAdvance, PlayerRate, PlayerKeeps
    <3> QED
      BY <3>1, <3>2
  <2> QED
    BY <1>5, <2>1, PlayerFrame
<1>6. CASE UNCHANGED vars
  BY <1>6 DEF vars, receiver, remux, player
<1> QED
  BY <1>1, <1>2, <1>3, <1>4, <1>5, <1>6 DEF Next

\* Neither reader gives back more than there is (AdvanceWithin), unless the receiver
\* gives up or the player starts before remux has filled a block.
THEOREM AdvancesStayWithin ==
  ASSUME Fed, "short" \notin Hazards
  PROVE  Spec => []AdvanceWithin
<1> DEFINE Inv == Typed /\ Kept
<1>1. Init => Inv
  BY InitTyped, InitKept
<1>2. Inv /\ [Next]_vars => Inv'
  BY StepTyped, StepKept
<1>3. Inv => AdvanceWithin
  BY DEF Kept, AdvanceWithin
<1> HIDE DEF Inv
<1> QED
  BY <1>1, <1>2, <1>3, PTL DEF Spec

\* What a thread has seen of playstate stands until it stores.
Held ==
  /\ rpc \notin GivingUp
  /\ rpc = "calm" => playstate = "BufferRefillAll"
  /\ xpc = "request" => playstate = "OutBufferReset"
  /\ playstate = "OutBufferReset" => xpc \in {"request", "top"}
  /\ ppc \in {"outreset", "refill"} => playstate = "OutBufferReset"
  /\ ppc = "refill" => rout = << >>
  /\ ppc = "initset" => playstate \in Refilling
  /\ ppc = "recover" => playstate = "Play"
  /\ ppc = "playset" => playstate = "PlayInit"

\* At first nothing is seen.
LEMMA InitHeld == Init => Held
BY DEF Init, Held, GivingUp

\* No store takes away what another thread has seen.
LEMMA StepHeld ==
  ASSUME InOrder, Fed, OneSound, Ordered, Held, [Next]_vars
  PROVE  Held'
<1> USE DEF Held, Ordered, ReceiverLooks, RemuxLooks, PlayerLooks
<1>1. Undisturbed => ~ ReceiverLooks /\ ~ RemuxLooks /\ ~ PlayerLooks
  BY DEF Undisturbed, Pending, InOrder
<1>2. CASE Server
  BY <1>2, ServerFrame
<1>3. CASE Control
  <2>1. UNCHANGED playstate \/ (Undisturbed /\ playstate' \notin {"OutBufferReset"})
    <3>1. CASE StillLook \/ StillWrite
      BY <3>1 DEF StillLook, StillWrite, ControlKeeps
    <3>2. CASE ~ StillLook /\ ~ StillWrite
      <4>1. Undisturbed /\ playstate' \in {"BufferReset", "Play", "Pause"}
        BY <1>3, <3>2 DEF Control, ControlZap, ControlSame, ControlFreeze, StillPicture,
                          StillPause
      <4> QED
        BY <4>1
    <3> QED
      BY <3>1, <3>2
  <2> QED
    BY <1>1, <1>3, <2>1, ControlFrame
<1>4. CASE Receiver
  <2>1. CASE ReceiverStore
    BY <1>4, <2>1, ReceiverFrame DEF ReceiverStore, ReceiverKeeps, GivingUp
  <2>2. CASE ~ ReceiverStore
    <3>1. UNCHANGED <<playstate, rout>> /\ rpc' \notin GivingUp
      BY <1>4, <2>2
         DEF Receiver, ReceiverSeesReset, ReceiverDrain, ReceiverThrottle, ReceiverLook,
             ReceiverGet, ReceiverPut, ReceiverStall, ReceiverStarved, ReceiverGiveUp,
             ReceiverKeeps, GivingUp, Fed
    <3>2. rpc' = "calm" => playstate = "BufferRefillAll"
      BY <1>4, <2>2
         DEF Receiver, ReceiverSeesReset, ReceiverDrain, ReceiverThrottle, ReceiverLook,
             ReceiverGet, ReceiverPut, ReceiverStall, ReceiverStarved, ReceiverGiveUp
    <3> QED
      BY <1>4, <3>1, <3>2, ReceiverFrame
  <2> QED
    BY <2>1, <2>2
<1>5. CASE Remux
  <2>1. CASE RemuxSeesReset \/ RemuxReset
    BY <1>5, <2>1, RemuxFrame DEF RemuxSeesReset, RemuxReset, RemuxKeeps
  <2>2. CASE RemuxSetOut
    BY <1>5, <2>2, RemuxFrame DEF RemuxSetOut, RemuxKeeps
  <2>3. CASE RemuxRequest
    BY <1>5, <2>3, RemuxFrame DEF RemuxRequest, RemuxKeeps
  <2>4. CASE RemuxLook
    BY <1>5, <2>4, RemuxFrame DEF RemuxLook, RemuxKeeps, Resetting
  <2>5. CASE RemuxWrite \/ RemuxAdvance
    BY <1>5, <2>5, RemuxFrame DEF RemuxWrite, RemuxAdvance, RemuxKeeps
  <2> QED
    BY <1>5, <2>1, <2>2, <2>3, <2>4, <2>5 DEF Remux
<1>6. CASE Player
  <2>1. CASE PlayerStops \/ PlayerPause \/ PlayerClear
    BY <1>6, <2>1, PlayerFrame DEF PlayerStops, PlayerPause, PlayerClear, PlayerKeeps, locals
  <2>2. CASE PlayerSeesReset \/ PlayerReset
    BY <1>6, <2>2, PlayerFrame DEF PlayerSeesReset, PlayerReset, PlayerKeeps, locals
  <2>3. CASE PlayerStore
    BY <1>6, <2>3, PlayerFrame DEF PlayerStore, PlayerKeeps, locals, Targets, OneSound
  <2>4. CASE PlayerBuffered \/ PlayerLook
    BY <1>6, <2>4, PlayerFrame DEF PlayerBuffered, PlayerLook, PlayerKeeps, Looking
  <2>5. CASE PlayerBroken
    BY <1>6, <2>5, PlayerFrame DEF PlayerBroken, Broken, PlayerKeeps
  <2>6. CASE PlayerAc3Changed
    BY <2>6 DEF PlayerAc3Changed, OneSound
  <2>7. CASE PlayerWrite \/ PlayerAdvance \/ PlayerRate
    BY <1>6, <2>7, PlayerFrame DEF PlayerWrite, PlayerAdvance, PlayerRate, PlayerKeeps, locals
  <2> QED
    BY <1>6, <2>1, <2>2, <2>3, <2>4, <2>5, <2>6, <2>7 DEF Player
<1>7. CASE UNCHANGED vars
  BY <1>7 DEF vars, receiver, remux, player
<1> QED
  BY <1>2, <1>3, <1>4, <1>5, <1>6, <1>7 DEF Next

\* The order of playstate survives a stutter, too.
LEMMA StepOrder ==
  ASSUME InOrder, Typed, Ordered, [Next]_vars
  PROVE  Ordered'
<1>1. CASE UNCHANGED vars
  BY <1>1 DEF Ordered, ReceiverLooks, RemuxLooks, PlayerLooks, vars, receiver, remux, player
<1> QED
  BY <1>1, StepOrdered

\* The player does not measure the rate of the stream.
LEMMA StepSteady ==
  ASSUME "slow" \notin Hazards, ppc # "rate", [Next]_vars
  PROVE  ppc' # "rate"
<1>1. CASE Player
  BY <1>1 DEF Player, PlayerStops, PlayerSeesReset, PlayerReset, PlayerStore, PlayerClear,
              PlayerPause, PlayerBuffered, PlayerLook, PlayerBroken, PlayerAc3Changed,
              PlayerWrite, PlayerAdvance, PlayerRate, PlayerKeeps, locals
<1>2. CASE UNCHANGED vars
  BY <1>2 DEF vars, player
<1> QED
  BY <1>1, <1>2, ServerFrame, ControlFrame, ReceiverFrame, RemuxFrame DEF Next

\* Remux is outside the output ring whenever somebody resets it (QuietOutReset), if the
\* handshake is the only reason to: the receiver does not give up, the sound format does
\* not change and the player has no slow stream to resynchronise.
THEOREM OutRingIsQuiet ==
  ASSUME InOrder, Fed, SameSound, "slow" \notin Hazards
  PROVE  Spec => []QuietOutReset
<1> DEFINE Inv == Typed /\ Ordered /\ OneSound /\ Held /\ ppc # "rate"
<1>1. Init => Inv
  BY InitTyped, InitOrdered, InitOneSound, InitHeld DEF Init
<1>2. Inv /\ [Next]_vars => Inv'
  BY StepTyped, StepOrder, StepOneSound, StepHeld, StepSteady
<1>3. Inv => QuietOutReset
  BY DEF Held, OutReset, QuietOutReset, GivingUp
<1> HIDE DEF Inv
<1> QED
  BY <1>1, <1>2, <1>3, PTL DEF Spec

\* The server's messages arrive between handshakes.
Answered ==
  /\ mode <= gen
  /\ ctl # << >> =>
       /\ acked = mode /\ playstate \notin Resetting
       /\ Head(ctl).kind = "zap" =>
            owed > 0 /\ mode < Head(ctl).mode /\ Head(ctl).mode <= gen
  /\ cpc # "idle" => acked = mode
  /\ cpc \in {"feed", "write", "shown"} => playstate \notin Resetting

\* The handshake of a program change, until the server has been asked.
Handshake ==
  acked # mode =>
    /\ owed > 0 /\ playstate \in Resetting
    /\ playstate = "InBufferReset" =>
         (rpc = "drain" \/ sock = << >>) /\ (xpc = "setout" => rin = << >>)
    /\ playstate = "OutBufferReset" =>
         /\ xpc = "request" /\ rin = << >> /\ rpc # "put"
         /\ rpc = "drain" \/ sock = << >>

\* Every block of s is of program m or a later one.
Of(s, m) == \A i \in DOMAIN s : s[i] >= m

\* From then on everything is of the new program, where it will not be thrown away.
NewStream ==
  acked = mode =>
    /\ Of(rin, mode) /\ (rpc = "drain" \/ Of(sock, mode))
    /\ rpc = "put" => rblk >= mode
    /\ xpc = "write" => xblk >= mode
    /\ playstate \notin Resetting => Of(rout, mode)

\* An old block is none of the new program; the others come and go.
LEMMA OfLater ==
  ASSUME NEW m \in Int, NEW s \in Seq(Int), Of(s, m)
  PROVE  /\ \A b \in Int : b >= m => Of(Append(s, b), m)
         /\ s # << >> => Of(Tail(s), m) /\ Head(s) >= m
<1>1. ASSUME NEW b \in Int, b >= m PROVE Of(Append(s, b), m)
  <2>1. \A i \in DOMAIN Append(s, b) :
          \/ i \in DOMAIN s /\ Append(s, b)[i] = s[i]
          \/ Append(s, b)[i] = b
    OBVIOUS
  <2> QED
    BY <1>1, <2>1 DEF Of
<1>2. ASSUME s # << >> PROVE Of(Tail(s), m) /\ Head(s) >= m
  BY <1>2, FromHead DEF Of
<1> QED
  BY <1>1, <1>2

\* At first there is one program, and the server owes nothing.
LEMMA InitStream == Init => Answered /\ Handshake /\ NewStream
BY DEF Init, Answered, Handshake, NewStream, Of, Resetting, Refilling

\* The streaming threads start no reset but on g_bReset.
LEMMA NoNewReset ==
  ASSUME StillAlone, OneSound, Ordered, Held, Receiver \/ Remux \/ Player,
         playstate' \in Resetting
  PROVE  playstate \in Resetting \/ g_bReset = TRUE
<1>1. CASE Receiver
  <2>1. \/ UNCHANGED playstate
        \/ playstate' = "BufferRefill"
        \/ rpc = "ack" /\ playstate' = "InBufferReset"
    BY <1>1 DEF Receiver, ReceiverSeesReset, ReceiverStore, ReceiverDrain, ReceiverThrottle,
                ReceiverLook, ReceiverGet, ReceiverPut, ReceiverStall, ReceiverStarved,
                ReceiverGiveUp, ReceiverKeeps
  <2> QED
    BY <2>1 DEF Ordered, Resetting
<1>2. CASE Remux
  <2>1. UNCHANGED playstate \/ xpc = "setout"
    BY <1>2 DEF Remux, RemuxSeesReset, RemuxReset, RemuxSetOut, RemuxRequest, RemuxLook,
                RemuxWrite, RemuxAdvance, RemuxKeeps
  <2> QED
    BY <2>1 DEF Ordered, Resetting
<1>3. CASE Player
  <2>1. CASE PlayerStore
    BY <2>1 DEF PlayerStore, Resetting, OneSound, Ordered, Targets, StillAlone
  <2>2. CASE ~ PlayerStore
    <3>1. UNCHANGED playstate
      BY <1>3, <2>2
         DEF Player, PlayerStops, PlayerSeesReset, PlayerReset, PlayerClear, PlayerPause,
             PlayerBuffered, PlayerLook, PlayerBroken, PlayerAc3Changed, PlayerWrite,
             PlayerAdvance, PlayerRate, PlayerKeeps
    <3> QED
      BY <3>1
  <2> QED
    BY <2>1, <2>2
<1> QED
  BY <1>1, <1>2, <1>3

\* No message is left over when a handshake begins.
LEMMA StepAnswered ==
  ASSUME InOrder, Patient, Typed, Ordered, StillAlone, OneSound, Held, Answered, Handshake,
         Next
  PROVE  Answered'
<1> USE DEF Answered
<1> mode \in Nat /\ gen \in Nat /\ owed \in Nat
  BY DEF Typed, ServerTyped, Gens
<1>1. CASE Server
  <2>1. CASE ServerData
    BY <1>1, <2>1, ServerFrame DEF ServerData, ServerKeeps
  <2>2. ASSUME NEW kind \in Messages, ServerMessage(kind) PROVE Answered'
    <3>1. owed = 0 /\ ctl = << >> /\ cpc = "idle" /\ playstate \notin Resetting
      BY <2>2 DEF ServerMessage, Settled, Patient
    <3>2. acked = mode
      BY <3>1 DEF Handshake
    <3>3. Head(ctl') = [kind |-> kind, mode |-> gen']
      BY <2>2, <3>1 DEF ServerMessage
    <3>4. /\ gen' = IF kind = "zap" THEN gen + 1 ELSE gen
          /\ kind = "zap" => owed' = 1
      BY <2>2, <3>1 DEF ServerMessage
    <3> QED
      BY <1>1, <3>1, <3>2, <3>3, <3>4, ServerFrame
  <2> QED
    BY <1>1, <2>1, <2>2 DEF Server
<1>2. CASE Control
  <2>1. UNCHANGED gen
    BY <1>2, ControlFrame
  <2>2. ASSUME ctl # << >>, ctl' = Tail(ctl) PROVE ctl' = << >> /\ cpc = "idle"
    BY <2>2, LastMessage DEF StillAlone
  <2>3. CASE ControlZap
    BY <2>1, <2>2, <2>3 DEF ControlZap, Receive, ControlKeeps
  <2>4. CASE ControlSame
    BY <2>1, <2>2, <2>4 DEF ControlSame, Receive, ControlKeeps
  <2>5. CASE ControlFreeze
    BY <2>1, <2>2, <2>5 DEF ControlFreeze, Receive, ControlKeeps, info
  <2>6. CASE StillPicture
    BY <2>1, <2>2, <2>6 DEF StillPicture, Receive, ControlKeeps, info
  <2>7. CASE StillLook
    <3>1. UNCHANGED <<playstate, mode, acked, ctl, owed>> /\ cpc # "idle"
      BY <2>7 DEF StillLook, ControlKeeps, info, server
    <3>2. playstate \notin Resetting
      BY <2>7 DEF StillLook, Resetting
    <3> QED
      BY <2>1, <3>1, <3>2
  <2>8. CASE StillWrite
    BY <2>1, <2>8 DEF StillWrite, ControlKeeps, info, server
  <2>9. CASE StillPause
    BY <2>1, <2>9 DEF StillPause, ControlKeeps, info, server, StillAlone, Resetting
  <2> QED
    BY <1>2, <2>3, <2>4, <2>5, <2>6, <2>7, <2>8, <2>9 DEF Control
<1>3. CASE Receiver
  <2>1. UNCHANGED <<mode, gen, ctl, owed, acked, cpc>>
    BY <1>3, ReceiverFrame
  <2> QED
    BY <1>3, <2>1, NoNewReset DEF StillAlone
<1>4. CASE Remux
  <2>1. UNCHANGED <<mode, gen, ctl, cpc>>
    BY <1>4, RemuxFrame
  <2>2. CASE RemuxRequest
    <3>1. playstate' \in Resetting /\ playstate \in Resetting /\ acked' = mode
      BY <2>2 DEF RemuxRequest, Request, RemuxKeeps, Held, Resetting
    <3> QED
      BY <2>1, <3>1
  <2>3. CASE ~ RemuxRequest
    <3>1. UNCHANGED <<owed, acked>>
      BY <1>4, <2>3 DEF Remux, RemuxSeesReset, RemuxReset, RemuxSetOut, RemuxLook, RemuxWrite,
                        RemuxAdvance, RemuxKeeps, server
    <3> QED
      BY <1>4, <2>1, <3>1, NoNewReset DEF StillAlone
  <2> QED
    BY <2>2, <2>3
<1>5. CASE Player
  <2>1. UNCHANGED <<mode, gen, ctl, owed, acked, cpc>>
    BY <1>5, PlayerFrame
  <2> QED
    BY <1>5, <2>1, NoNewReset DEF StillAlone
<1> QED
  BY <1>1, <1>2, <1>3, <1>4, <1>5 DEF Next

\* A program change passes the handshake before the server is asked.
LEMMA StepHandshake ==
  ASSUME InOrder, Patient, SockCap <= DrainMax, Typed, Ordered, StillAlone, OneSound, Held,
         Answered, Handshake, Next
  PROVE  Handshake'
<1> USE DEF Handshake
<1> mode \in Nat /\ gen \in Nat /\ owed \in Nat
  BY DEF Typed, ServerTyped, Gens
<1>1. CASE Server
  <2>1. UNCHANGED <<playstate, rin, mode, acked, rpc, xpc>>
    BY <1>1, ServerFrame
  <2>2. owed > 0 => owed' > 0 /\ UNCHANGED sock
    <3>1. ServerData => owed = 0
      BY DEF ServerData
    <3>2. ASSUME NEW kind \in Messages, ServerMessage(kind), owed > 0
          PROVE  owed' > 0 /\ UNCHANGED sock
      BY <3>2 DEF ServerMessage, ServerKeeps
    <3> QED
      BY <1>1, <3>1, <3>2 DEF Server
  <2> QED
    BY <2>1, <2>2
<1>2. CASE Control
  <2>1. acked = mode
    BY <1>2 DEF Answered, Control, ControlZap, ControlSame, ControlFreeze, StillPicture,
                StillLook, StillWrite, StillPause, Receive
  <2>2. CASE ControlZap
    <3>1. owed' > 0 /\ playstate' = "BufferReset"
      BY <2>2 DEF ControlZap, ControlKeeps, Receive, Answered
    <3> QED
      BY <3>1 DEF Resetting
  <2>3. CASE ~ ControlZap
    <3>1. acked' = mode'
      BY <1>2, <2>1, <2>3
         DEF Control, ControlSame, ControlFreeze, StillPicture, StillLook, StillWrite,
             StillPause, ControlKeeps, info
    <3> QED
      BY <3>1
  <2> QED
    BY <2>2, <2>3
<1>3. ASSUME Receiver \/ Remux \/ Player, acked # mode
      PROVE  playstate \in Resetting /\ owed > 0
  BY <1>3
<1>4. CASE Receiver
  <2> SUFFICES ASSUME acked # mode PROVE Handshake'
    BY <1>4, ReceiverFrame
  <2>1. UNCHANGED <<mode, acked, owed, xpc>>
    BY <1>4, ReceiverFrame
  <2>2. CASE ReceiverSeesReset
    BY <1>3, <1>4, <2>1, <2>2 DEF ReceiverSeesReset, ReceiverKeeps
  <2>3. CASE ReceiverStore
    <3>1. rpc = "ack" /\ playstate' = "InBufferReset" /\ rpc' = "drain" /\ UNCHANGED rin
      BY <1>3, <1>4, <2>3 DEF ReceiverStore, ReceiverKeeps, Held, Resetting
    <3>2. xpc # "setout"
      BY <3>1 DEF Ordered, ReceiverLooks, RemuxLooks
    <3> QED
      BY <1>3, <1>4, <2>1, <3>1, <3>2 DEF Resetting
  <2>4. CASE ReceiverDrain
    <3>1. sock' = << >> /\ rpc' = "top" /\ UNCHANGED <<playstate, rin>>
      <4>1. sock \in Seq(Gens) /\ Len(sock) <= DrainMax
        BY CapAssumption DEF Typed, ServerTyped
      <4> QED
        BY <2>4, <4>1, Drained, CapAssumption DEF ReceiverDrain, ReceiverKeeps
    <3> QED
      BY <1>3, <1>4, <2>1, <3>1
  <2>5. CASE ReceiverLook
    BY <1>3, <1>4, <2>1, <2>5 DEF ReceiverLook, ReceiverKeeps, Streaming
  <2>6. CASE ReceiverGet
    <3>1. playstate # "InBufferReset" /\ (playstate = "OutBufferReset" => sock = << >>)
      BY <2>6 DEF ReceiverGet, Ordered
    <3> QED
      BY <1>3, <1>4, <2>1, <2>6, <3>1 DEF ReceiverGet, ReceiverKeeps
  <2>7. CASE ReceiverPut
    <3>1. playstate \notin {"InBufferReset", "OutBufferReset"} /\ UNCHANGED playstate
      BY <2>7 DEF ReceiverPut, ReceiverKeeps, Ordered
    <3> QED
      BY <1>3, <1>4, <2>1, <3>1
  <2>8. CASE ReceiverThrottle
    BY <1>3, <1>4, <2>8 DEF ReceiverThrottle, Resetting
  <2>9. CASE ReceiverStall \/ ReceiverStarved \/ ReceiverGiveUp
    <3>1. UNCHANGED <<playstate, rin, sock>> /\ rpc # "drain" /\ rpc' # "put"
      BY <2>9 DEF ReceiverStall, ReceiverStarved, ReceiverGiveUp, ReceiverKeeps, Streaming,
                  Held, GivingUp
    <3> QED
      BY <1>3, <1>4, <2>1, <3>1
  <2> QED
    BY <1>4, <2>2, <2>3, <2>4, <2>5, <2>6, <2>7, <2>8, <2>9 DEF Receiver
<1>5. CASE Remux
  <2>1. UNCHANGED <<mode, sock, rpc>>
    BY <1>5, RemuxFrame
  <2>2. CASE RemuxRequest
    BY <2>1, <2>2 DEF RemuxRequest, Request
  <2>3. CASE ~ RemuxRequest
    <3>1. UNCHANGED <<acked, owed>>
      BY <1>5, <2>3 DEF Remux, RemuxSeesReset, RemuxReset, RemuxSetOut, RemuxLook, RemuxWrite,
                        RemuxAdvance, RemuxKeeps, server
    <3> SUFFICES ASSUME acked # mode PROVE Handshake'
      BY <2>1, <3>1
    <3>2. CASE RemuxSeesReset \/ RemuxReset
      BY <1>3, <1>5, <2>1, <3>1, <3>2 DEF RemuxSeesReset, RemuxReset, RemuxKeeps, Ordered
    <3>3. CASE RemuxSetOut
      <4>1. playstate = "InBufferReset" /\ rpc # "put"
        BY <3>3 DEF RemuxSetOut, Ordered
      <4> QED
        BY <1>3, <1>5, <2>1, <3>1, <3>3, <4>1 DEF RemuxSetOut, RemuxKeeps, Resetting
    <3>4. CASE RemuxLook
      BY <1>3, <1>5, <3>4 DEF RemuxLook
    <3>5. CASE RemuxWrite \/ RemuxAdvance
      BY <1>3, <1>5, <2>1, <3>1, <3>5 DEF RemuxWrite, RemuxAdvance, RemuxKeeps
    <3> QED
      BY <1>5, <2>3, <3>2, <3>3, <3>4, <3>5 DEF Remux
  <2> QED
    BY <2>2, <2>3
<1>6. CASE Player
  <2>1. UNCHANGED <<rin, mode, sock, owed, acked, rpc, xpc>>
    BY <1>6, PlayerFrame
  <2> SUFFICES ASSUME acked # mode PROVE Handshake'
    BY <2>1
  <2>2. ~ PlayerStore
    <3>1. ppc \notin {"outreset", "refill"}
      BY <1>3, <1>6 DEF Held, Ordered, RemuxLooks, PlayerLooks
    <3> QED
      BY <1>3, <1>6, <3>1 DEF PlayerStore, Held, Resetting, Refilling, OneSound
  <2>3. UNCHANGED playstate
    BY <1>6, <2>2
       DEF Player, PlayerStops, PlayerSeesReset, PlayerReset, PlayerClear, PlayerPause,
           PlayerBuffered, PlayerLook, PlayerBroken, PlayerAc3Changed, PlayerWrite,
           PlayerAdvance, PlayerRate, PlayerKeeps
  <2> QED
    BY <1>3, <1>6, <2>1, <2>3
<1> QED
  BY <1>1, <1>2, <1>4, <1>5, <1>6 DEF Next

\* Nothing of an old program comes after the request.
LEMMA StepNewStream ==
  ASSUME InOrder, Patient, SockCap <= DrainMax, Typed, Ordered, StillAlone, OneSound, Kept,
         Held, Answered, Handshake, NewStream, Next
  PROVE  NewStream'
<1> USE DEF NewStream
<1>1. /\ mode \in Int /\ gen \in Int /\ rblk \in Int /\ xblk \in Int
      /\ rin \in Seq(Int) /\ rout \in Seq(Int) /\ sock \in Seq(Int)
  <2>1. Gens \subseteq Int /\ Blocks \subseteq Int
    BY DEF Gens, Blocks, Stale
  <2>2. ASSUME NEW S, S \subseteq Int, NEW s \in Seq(S) PROVE s \in Seq(Int)
    BY <2>2, SeqMonotonic
  <2> QED
    BY <2>1, <2>2 DEF Typed, ServerTyped, WordsTyped, RingsTyped
<1>2. Of(<< >>, mode)
  BY DEF Of
<1>3. CASE Server
  <2>1. UNCHANGED <<playstate, rin, rout, mode, acked, rpc, rblk, xpc, xblk>>
    BY <1>3, ServerFrame
  <2>2. UNCHANGED sock \/ sock' = Append(sock, gen)
    BY <1>3 DEF Server, ServerData, ServerMessage, ServerKeeps
  <2>3. Of(sock, mode) => Of(sock', mode)
    BY <1>1, <2>2, OfLater DEF Answered
  <2> QED
    BY <2>1, <2>3
<1>4. CASE Control
  <2>1. UNCHANGED <<rout, sock, rpc, rblk, xpc, xblk>>
    BY <1>4, ControlFrame
  <2>2. acked = mode
    BY <1>4 DEF Answered, Control, ControlZap, ControlSame, ControlFreeze, StillPicture,
                StillLook, StillWrite, StillPause, Receive
  <2>3. CASE ControlZap
    BY <1>1, <2>2, <2>3 DEF ControlZap, ControlKeeps, Receive, Answered
  <2>4. CASE ControlSame
    BY <2>1, <2>2, <2>4 DEF ControlSame, ControlKeeps, Receive, Answered
  <2>5. CASE ControlFreeze
    BY <2>1, <2>2, <2>5 DEF ControlFreeze, ControlKeeps, Receive, Answered, info
  <2>6. CASE StillPicture
    BY <2>1, <2>2, <2>6 DEF StillPicture, ControlKeeps, Resetting, info
  <2>7. CASE StillLook
    BY <2>1, <2>2, <2>7 DEF StillLook, ControlKeeps, info
  <2>8. CASE StillWrite
    <3>1. rin' = Append(rin, mode) \/ rin' = rin
      BY <2>8 DEF StillWrite
    <3>2. Of(rin, mode) /\ mode >= mode
      BY <1>1, <2>2
    <3>3. Of(rin', mode)
      BY <1>1, <3>1, <3>2, OfLater
    <3> QED
      BY <2>1, <2>2, <2>8, <3>3 DEF StillWrite, ControlKeeps, info
  <2>9. CASE StillPause
    BY <2>1, <2>2, <2>9 DEF StillPause, ControlKeeps, Answered, info
  <2> QED
    BY <1>4, <2>3, <2>4, <2>5, <2>6, <2>7, <2>8, <2>9 DEF Control
<1>5. CASE Receiver
  <2>1. UNCHANGED <<mode, acked, xpc, xblk>>
    BY <1>5, ReceiverFrame
  <2> SUFFICES ASSUME acked = mode PROVE NewStream'
    BY <2>1
  <2>2. CASE ReceiverSeesReset
    BY <2>1, <2>2 DEF ReceiverSeesReset, ReceiverKeeps
  <2>3. CASE ReceiverStore
    <3>1. /\ playstate' = "InBufferReset" \/ playstate \notin Resetting
          /\ rpc' \in {"drain", "top"} /\ rpc # "drain" /\ UNCHANGED <<rin, rout, sock>>
      BY <2>3 DEF ReceiverStore, ReceiverKeeps, Held, Resetting
    <3> QED
      BY <2>1, <3>1 DEF Resetting
  <2>4. CASE ReceiverDrain
    <3>1. sock' = << >>
      <4>1. sock \in Seq(Gens) /\ Len(sock) <= DrainMax
        BY CapAssumption DEF Typed, ServerTyped
      <4> QED
        BY <2>4, <4>1, Drained, CapAssumption DEF ReceiverDrain
    <3> QED
      BY <1>2, <2>1, <2>4, <3>1 DEF ReceiverDrain, ReceiverKeeps
  <2>5. CASE ReceiverLook \/ ReceiverThrottle \/ ReceiverStall \/ ReceiverStarved
    BY <2>1, <2>5 DEF ReceiverLook, ReceiverThrottle, ReceiverStall, ReceiverStarved,
                      ReceiverKeeps, Streaming
  <2>6. CASE ReceiverGet
    <3>1. Of(sock, mode)
      BY <2>6 DEF ReceiverGet
    <3>2. Of(sock', mode) /\ (rpc' = "put" => rblk' >= mode) /\ rpc' # "drain"
      BY <1>1, <2>6, <3>1, OfLater DEF ReceiverGet
    <3> QED
      BY <2>1, <2>6, <3>2 DEF ReceiverGet, ReceiverKeeps
  <2>7. CASE ReceiverPut
    <3>1. Of(rin', mode)
      BY <1>1, <2>7, OfLater DEF ReceiverPut
    <3> QED
      BY <2>1, <2>7, <3>1 DEF ReceiverPut, ReceiverKeeps
  <2>8. CASE ReceiverGiveUp
    BY <2>8 DEF ReceiverGiveUp, Held, GivingUp
  <2> QED
    BY <1>5, <2>2, <2>3, <2>4, <2>5, <2>6, <2>7, <2>8 DEF Receiver
<1>6. CASE Remux
  <2>1. UNCHANGED <<mode, sock, rpc, rblk>>
    BY <1>6, RemuxFrame
  <2>2. CASE RemuxRequest
    <3>1. playstate' \in Resetting /\ UNCHANGED <<rin, rout>> /\ xpc' = "top"
      BY <2>2 DEF RemuxRequest, RemuxKeeps, Held, Resetting
    <3>2. CASE acked = mode
      BY <2>1, <3>1, <3>2
    <3>3. CASE acked # mode
      <4>1. playstate = "OutBufferReset"
        BY <2>2 DEF RemuxRequest, Held
      <4>2. rin = << >> /\ rpc # "put" /\ (rpc = "drain" \/ sock = << >>)
        BY <3>3, <4>1 DEF Handshake
      <4> QED
        BY <1>2, <2>1, <3>1, <4>2
    <3> QED
      BY <3>2, <3>3
  <2>3. CASE ~ RemuxRequest
    <3>1. UNCHANGED acked
      BY <1>6, <2>3 DEF Remux, RemuxSeesReset, RemuxReset, RemuxSetOut, RemuxLook, RemuxWrite,
                        RemuxAdvance, RemuxKeeps
    <3> SUFFICES ASSUME acked = mode PROVE NewStream'
      BY <2>1, <3>1
    <3>2. CASE RemuxSeesReset
      BY <2>1, <3>2 DEF RemuxSeesReset, RemuxKeeps
    <3>3. CASE RemuxReset \/ RemuxSetOut
      BY <1>2, <2>1, <3>3 DEF RemuxReset, RemuxSetOut, RemuxKeeps, Resetting
    <3>4. CASE RemuxLook
      <4>1. xblk' >= mode
        BY <1>1, <3>4, OfLater DEF RemuxLook
      <4> QED
        BY <2>1, <3>4, <4>1 DEF RemuxLook, RemuxKeeps
    <3>5. CASE RemuxWrite
      <4>1. Of(rout, mode) => Of(rout', mode)
        BY <1>1, <3>5, OfLater DEF RemuxWrite
      <4> QED
        BY <2>1, <3>5, <4>1 DEF RemuxWrite, RemuxKeeps
    <3>6. CASE RemuxAdvance
      <4>1. rin # << >> /\ rin' = Tail(rin)
        BY <3>6 DEF RemuxAdvance, Advance, Kept
      <4>2. Of(rin', mode)
        BY <1>1, <4>1, OfLater
      <4> QED
        BY <2>1, <3>6, <4>2 DEF RemuxAdvance, RemuxKeeps
    <3> QED
      BY <1>6, <2>3, <3>2, <3>3, <3>4, <3>5, <3>6 DEF Remux
  <2> QED
    BY <2>2, <2>3
<1>7. CASE Player
  <2>1. UNCHANGED <<rin, mode, sock, rpc, rblk, xpc, xblk, acked>>
    BY <1>7, PlayerFrame
  <2> SUFFICES ASSUME acked = mode, playstate' \notin Resetting PROVE Of(rout', mode)
    BY <2>1
  <2>2. CASE PlayerReset \/ PlayerRate
    BY <1>2, <2>2 DEF PlayerReset, PlayerRate, PlayerKeeps
  <2>3. CASE PlayerStore
    <3>1. rout = << >> \/ playstate \notin Resetting
      BY <2>3 DEF PlayerStore, Held, OneSound, Resetting, Refilling
    <3> QED
      BY <1>2, <2>3, <3>1 DEF PlayerStore, PlayerKeeps
  <2>4. CASE PlayerAdvance
    <3>1. rout # << >> /\ rout' = Tail(rout) /\ UNCHANGED playstate
      BY <2>4 DEF PlayerAdvance, PlayerKeeps, Advance, Kept
    <3> QED
      BY <1>1, <3>1, OfLater
  <2>5. CASE \/ PlayerStops \/ PlayerSeesReset \/ PlayerClear \/ PlayerPause
             \/ PlayerBuffered \/ PlayerLook \/ PlayerBroken \/ PlayerAc3Changed
             \/ PlayerWrite
    BY <2>5 DEF PlayerStops, PlayerSeesReset, PlayerClear, PlayerPause, PlayerBuffered,
                PlayerLook, PlayerBroken, PlayerAc3Changed, PlayerWrite, PlayerKeeps
  <2> QED
    BY <1>7, <2>2, <2>3, <2>4, <2>5 DEF Player
<1> QED
  BY <1>3, <1>4, <1>5, <1>6, <1>7 DEF Next

\* After a program change nothing of the old program is left (OldStreamGone).
THEOREM OldStreamIsGone ==
  ASSUME InOrder, Patient, Fed, SameSound, "short" \notin Hazards, SockCap <= DrainMax
  PROVE  Spec => []OldStreamGone
<1> DEFINE Inv == /\ Typed /\ Ordered /\ StillAlone /\ OneSound /\ Kept /\ Held
                  /\ Answered /\ Handshake /\ NewStream
<1>1. Init => Inv
  BY InitTyped, InitOrdered, InitStillAlone, InitOneSound, InitKept, InitHeld, InitStream
<1>2. Inv /\ [Next]_vars => Inv'
  <2>1. CASE Next
    BY <2>1, StepTyped, StepOrder, StepStillAlone, StepOneSound, StepKept, StepHeld,
       StepAnswered, StepHandshake, StepNewStream
  <2>2. CASE UNCHANGED vars
    <3>1. /\ UNCHANGED <<playstate, rin, rout, sock, ctl, gen, owed, mode, acked, cpc>>
          /\ UNCHANGED <<rpc, rblk, xpc, xblk, ppc, target, g_bReset>>
      BY <2>2 DEF vars, info, flags, server, receiver, remux, player
    <3>2. Inv => StillAlone' /\ Answered' /\ Handshake' /\ NewStream'
      BY <3>1 DEF StillAlone, Answered, Handshake, NewStream
    <3> QED
      BY <2>2, <3>2, StepTyped, StepOrder, StepOneSound, StepKept, StepHeld
  <2> QED
    BY <2>1, <2>2
<1>3. Inv => OldStreamGone
  BY DEF NewStream, Of, OldStreamGone
<1> HIDE DEF Inv
<1> QED
  BY <1>1, <1>2, <1>3, PTL DEF Spec

--------------------------------------------------------------------------------
(***************************************************************************)
(* The sound format.  Programs may have AC3 sound here, and every format   *)
(* change makes the player reset the output ring on its own, over whatever *)
(* playstate says.                                                         *)
(***************************************************************************)
\* No message stores ePlay: ControlSame would store it over such a reset.
Unresumed == Messages \cap {"same", "speed"} = {}

\* The format that remux sees in a block.
Format(b) == IF b \in Ac3Gens THEN 1 ELSE 0

\* The blocks of s that are not behind the write pointer are of program p.
AllOf(s, p) == \A i \in DOMAIN s : s[i] = p \/ s[i] = Stale

\* Nobody starts over or gives up.
Unhurried ==
  /\ g_bReset = FALSE
  /\ rpc \notin GivingUp
  /\ xpc \in {"write", "advance"} => rin # << >>

\* What a thread has seen of playstate stands until it stores; but the look at the
\* format, which is none at playstate.
Standing ==
  /\ rpc = "calm" => playstate = "BufferRefillAll"
  /\ xpc = "request" => playstate = "OutBufferReset"
  /\ ppc \in {"outreset", "refill"} => playstate = "OutBufferReset"
  /\ ppc = "initset" => playstate \in Refilling
  /\ ppc = "recover" => playstate = "Play"
  /\ ppc = "playset" => playstate = "PlayInit"

\* The server owes one request at most, and its messages arrive between handshakes.
Asked ==
  /\ owed \in {0, 1}
  /\ owed = 0 => acked = mode
  /\ ctl = << >> => gen = mode
  /\ ctl # << >> =>
       /\ acked = mode /\ playstate \notin {"BufferReset", "InBufferReset"} /\ ~ RemuxLooks
       /\ Head(ctl).kind = "zap" => owed = 1 /\ Head(ctl).mode = gen
       /\ Head(ctl).kind # "zap" => gen = mode
  /\ cpc # "idle" => acked = mode

\* When the server is asked for a new program, the way to remux is empty.
Emptied ==
  acked # mode =>
    /\ playstate = "InBufferReset" => rpc = "drain" \/ sock = << >>
    /\ xpc = "setout" => rin = << >>
    /\ xpc = "request" => rin = << >> /\ rpc # "put" /\ (rpc = "drain" \/ sock = << >>)

\* Everything is of the program that the server was asked for last; but what is in the
\* output ring between the request and the player's reset.
OneProgram ==
  /\ \A i \in DOMAIN rin : rin[i] = acked
  /\ rpc = "drain" \/ \A i \in DOMAIN sock : sock[i] = acked
  /\ rpc = "put" => rblk = acked
  /\ xpc = "write" => xblk = acked
  /\ \/ AllOf(rout, acked)
     \/ /\ playstate = "OutBufferReset" /\ ctl = << >> /\ cpc = "idle"
        /\ xpc = "top" /\ ppc # "refill"

\* What is in the output ring has the format that remux has seen last.
Heard ==
  /\ \A i \in DOMAIN rout : rout[i] # Stale => Format(rout[i]) = g_iIsAC3
  /\ xpc = "write" => Format(xblk) = g_iIsAC3

\* Devices that run have the player's format, or are stopped before it plays again.
Tuned ==
  \/ devices.state # "RUNNING"
  \/ devices.bypass = IF ac3 = 1 THEN 0 ELSE 1
  \/ ppc = "ac3set"
  \/ ppc = "top" /\ playstate \in Resetting \cup {"Pause"}

\* The kinds of the messages that arrive.
LEMMA KindOfMessage ==
  ASSUME Typed, NEW kind, Receive(kind)
  PROVE  kind \in Messages /\ Head(ctl).mode \in Gens
<1> DEFINE M == [kind : Messages, mode : Gens]
<1>1. ctl \in Seq(M) /\ ctl # << >> /\ Head(ctl).kind = kind
  BY DEF Typed, ServerTyped, Receive
<1> HIDE DEF M
<1>2. Head(ctl) \in M
  BY <1>1, FromHead
<1> QED
  BY <1>1, <1>2 DEF M

\* At first all of them hold.
LEMMA InitSound ==
  Init => Unhurried /\ Standing /\ Asked /\ Emptied /\ OneProgram /\ Heard /\ Tuned
BY DEF Init, Unhurried, GivingUp, Standing, Asked, Emptied, OneProgram, AllOf, Heard, Tuned

\* Nothing but a message that resumes asks for a reset, and nobody begins to give up.
LEMMA StepUnhurried ==
  ASSUME Fed, Unresumed, Typed, Unhurried, Next
  PROVE  Unhurried'
<1> USE DEF Unhurried, GivingUp
<1>1. CASE Server
  BY <1>1, ServerFrame
<1>2. CASE Control
  <2>1. ~ ControlSame
    BY KindOfMessage DEF ControlSame, Unresumed
  <2>2. UNCHANGED g_bReset
    BY <1>2, <2>1 DEF Control, ControlZap, ControlFreeze, StillPicture, StillLook, StillWrite,
                      StillPause, ControlKeeps, info, flags
  <2>3. rin # << >> => rin' # << >>
    BY <1>2 DEF Control, ControlZap, ControlSame, ControlFreeze, StillPicture, StillLook,
                StillWrite, StillPause, ControlKeeps, Typed, RingsTyped
  <2> QED
    BY <1>2, <2>2, <2>3, ControlFrame
<1>3. CASE Receiver
  <2>1. rpc' \notin GivingUp /\ (rin # << >> => rin' # << >>)
    BY <1>3 DEF Receiver, ReceiverSeesReset, ReceiverStore, ReceiverDrain, ReceiverThrottle,
                ReceiverLook, ReceiverGet, ReceiverPut, ReceiverStall, ReceiverStarved,
                ReceiverGiveUp, ReceiverKeeps, Fed, Typed, RingsTyped
  <2> QED
    BY <1>3, <2>1, ReceiverFrame
<1>4. CASE Remux
  <2>1. xpc' \in {"write", "advance"} => rin # << >> /\ UNCHANGED rin
    BY <1>4 DEF Remux, RemuxSeesReset, RemuxReset, RemuxSetOut, RemuxRequest, RemuxLook,
                RemuxWrite, RemuxAdvance, RemuxKeeps
  <2> QED
    BY <1>4, <2>1, RemuxFrame
<1>5. CASE Player
  <2>1. g_bReset' = FALSE
    BY <1>5 DEF Player, PlayerStops, PlayerSeesReset, PlayerReset, PlayerStore, PlayerClear,
                PlayerPause, PlayerBuffered, PlayerLook, PlayerBroken, PlayerAc3Changed,
                PlayerWrite, PlayerAdvance, PlayerRate, PlayerKeeps, flags
  <2> QED
    BY <1>5, <2>1, PlayerFrame
<1> QED
  BY <1>1, <1>2, <1>3, <1>4, <1>5 DEF Next

\* Who stores something into playstate, and what.
LEMMA Stores ==
  ASSUME InOrder, Unresumed, Typed, Ordered, StillAlone, Unhurried, Next
  PROVE  /\ Server => UNCHANGED playstate
         /\ Control => \/ UNCHANGED playstate
                       \/ /\ Undisturbed /\ playstate' \in {"BufferReset", "Pause"}
                          /\ ctl # << >> \/ cpc = "shown"
         /\ Receiver => \/ UNCHANGED playstate
                        \/ rpc = "ack" /\ playstate' = "InBufferReset" /\ rpc' = "drain"
                        \/ rpc = "calm" /\ playstate' = "BufferRefill" /\ rpc' = "top"
         /\ Remux => \/ UNCHANGED playstate
                     \/ xpc = "setout" /\ playstate' = "OutBufferReset" /\ xpc' = "request"
         /\ Player => \/ UNCHANGED playstate
                      \/ ppc = "refill" /\ playstate' = "BufferRefill" /\ ppc' = "top"
                      \/ ppc = "initset" /\ playstate' = "PlayInit" /\ ppc' = "top"
                      \/ /\ ppc = "recover" /\ ppc' = "clear"
                         /\ playstate' \in Targets \ {"BufferReset"}
                      \/ ppc = "playset" /\ playstate' = "Play" /\ ppc' = "ac3"
                      \/ ppc = "ac3set" /\ playstate' = "OutBufferReset" /\ ppc' = "top"
<1>1. Server => UNCHANGED playstate
  BY ServerFrame
<1>2. ASSUME Control
      PROVE  \/ UNCHANGED playstate
             \/ /\ Undisturbed /\ playstate' \in {"BufferReset", "Pause"}
                /\ ctl # << >> \/ cpc = "shown"
  <2>1. ~ ControlSame
    BY KindOfMessage DEF ControlSame, Unresumed
  <2>2. CASE ControlZap \/ ControlFreeze \/ StillPicture \/ StillPause
    BY <2>2 DEF ControlZap, ControlFreeze, StillPicture, StillPause, Receive
  <2>3. CASE StillLook \/ StillWrite
    BY <2>3 DEF StillLook, StillWrite, ControlKeeps
  <2> QED
    BY <1>2, <2>1, <2>2, <2>3 DEF Control
<1>3. ASSUME Receiver
      PROVE  \/ UNCHANGED playstate
             \/ rpc = "ack" /\ playstate' = "InBufferReset" /\ rpc' = "drain"
             \/ rpc = "calm" /\ playstate' = "BufferRefill" /\ rpc' = "top"
  BY <1>3 DEF Receiver, ReceiverSeesReset, ReceiverStore, ReceiverDrain, ReceiverThrottle,
              ReceiverLook, ReceiverGet, ReceiverPut, ReceiverStall, ReceiverStarved,
              ReceiverGiveUp, ReceiverKeeps, Unhurried, GivingUp
<1>4. ASSUME Remux
      PROVE  \/ UNCHANGED playstate
             \/ xpc = "setout" /\ playstate' = "OutBufferReset" /\ xpc' = "request"
  BY <1>4 DEF Remux, RemuxSeesReset, RemuxReset, RemuxSetOut, RemuxRequest, RemuxLook,
              RemuxWrite, RemuxAdvance, RemuxKeeps
<1>5. ASSUME Player, ~ PlayerStore PROVE UNCHANGED playstate
  BY <1>5 DEF Player, PlayerStops, PlayerSeesReset, PlayerReset, PlayerClear, PlayerPause,
              PlayerBuffered, PlayerLook, PlayerBroken, PlayerAc3Changed, PlayerWrite,
              PlayerAdvance, PlayerRate, PlayerKeeps
<1>6. ASSUME PlayerStore
      PROVE  \/ ppc = "refill" /\ playstate' = "BufferRefill" /\ ppc' = "top"
             \/ ppc = "initset" /\ playstate' = "PlayInit" /\ ppc' = "top"
             \/ /\ ppc = "recover" /\ ppc' = "clear"
                /\ playstate' \in Targets \ {"BufferReset"}
             \/ ppc = "playset" /\ playstate' = "Play" /\ ppc' = "ac3"
             \/ ppc = "ac3set" /\ playstate' = "OutBufferReset" /\ ppc' = "top"
  BY <1>6 DEF PlayerStore, Ordered, StillAlone, Unhurried
<1> QED
  BY <1>1, <1>2, <1>3, <1>4, <1>5, <1>6

\* No store takes away what another thread has seen.
LEMMA StepStanding ==
  ASSUME InOrder, Unresumed, Typed, Ordered, StillAlone, Unhurried, Standing, Next
  PROVE  Standing'
<1> USE DEF Standing, Ordered, ReceiverLooks, RemuxLooks, PlayerLooks
<1>1. Undisturbed => ~ ReceiverLooks /\ ~ RemuxLooks /\ ~ PlayerLooks
  BY DEF Undisturbed, Pending, InOrder
<1>2. CASE Server
  BY <1>2, ServerFrame
<1>3. CASE Control
  BY <1>1, <1>3, Stores, ControlFrame
<1>4. CASE Receiver
  <2>1. CASE ReceiverStore
    BY <1>4, <2>1, ReceiverFrame DEF ReceiverStore
  <2>2. CASE ~ ReceiverStore
    <3>1. UNCHANGED playstate /\ (rpc' = "calm" => playstate = "BufferRefillAll")
      BY <1>4, <2>2
         DEF Receiver, ReceiverSeesReset, ReceiverDrain, ReceiverThrottle, ReceiverLook,
             ReceiverGet, ReceiverPut, ReceiverStall, ReceiverStarved, ReceiverGiveUp,
             ReceiverKeeps, Unhurried, GivingUp
    <3> QED
      BY <1>4, <3>1, ReceiverFrame
  <2> QED
    BY <2>1, <2>2
<1>5. CASE Remux
  <2>1. xpc' = "request" => playstate' = "OutBufferReset"
    BY <1>5 DEF Remux, RemuxSeesReset, RemuxReset, RemuxSetOut, RemuxRequest, RemuxLook,
                RemuxWrite, RemuxAdvance
  <2> QED
    BY <1>5, <2>1, Stores, RemuxFrame
<1>6. CASE Player
  <2>1. CASE PlayerStore
    BY <1>6, <2>1, PlayerFrame DEF PlayerStore
  <2>2. CASE ~ PlayerStore
    <3>1. /\ ppc' = "outreset" => playstate = "OutBufferReset"
          /\ ppc' = "refill" => playstate = "OutBufferReset"
          /\ ppc' = "initset" => playstate \in Refilling
          /\ ppc' = "recover" => playstate = "Play"
          /\ ppc' = "playset" => playstate = "PlayInit"
          /\ UNCHANGED playstate
      BY <1>6, <2>2
         DEF Player, PlayerStops, PlayerSeesReset, PlayerReset, PlayerClear, PlayerPause,
             PlayerBuffered, PlayerLook, PlayerBroken, PlayerAc3Changed, PlayerWrite,
             PlayerAdvance, PlayerRate, PlayerKeeps, Broken
    <3> QED
      BY <1>6, <3>1, PlayerFrame
  <2> QED
    BY <2>1, <2>2
<1> QED
  BY <1>2, <1>3, <1>4, <1>5, <1>6 DEF Next

\* A message is sent only when the one before is answered, and taken as a whole.
LEMMA StepAsked ==
  ASSUME InOrder, Patient, Unresumed, Typed, Ordered, StillAlone, Unhurried, Standing, Asked,
         Next
  PROVE  Asked'
<1> USE DEF Asked
<1> mode \in Nat /\ gen \in Nat /\ owed \in Nat
  BY DEF Typed, ServerTyped, Gens
<1>1. Undisturbed => ~ ReceiverLooks /\ ~ RemuxLooks /\ ~ PlayerLooks
  BY DEF Undisturbed, Pending, InOrder, ReceiverLooks, RemuxLooks, PlayerLooks
<1>2. CASE Server
  <2>1. CASE ServerData
    BY <1>2, <2>1, ServerFrame DEF ServerData, ServerKeeps, RemuxLooks
  <2>2. ASSUME NEW kind \in Messages, ServerMessage(kind) PROVE Asked'
    <3>1. owed = 0 /\ ctl = << >> /\ cpc = "idle" /\ playstate \notin Resetting
      BY <2>2 DEF ServerMessage, Settled, Patient
    <3>2. ~ RemuxLooks
      BY <3>1 DEF RemuxLooks, Ordered, Standing, Resetting
    <3>3. Head(ctl') = [kind |-> kind, mode |-> gen'] /\ ctl' # << >>
      BY <2>2, <3>1 DEF ServerMessage
    <3>4. /\ gen' = IF kind = "zap" THEN gen + 1 ELSE gen
          /\ owed' = IF kind = "zap" THEN 1 ELSE 0
      BY <2>2, <3>1 DEF ServerMessage, Unresumed
    <3> QED
      BY <1>2, <3>1, <3>2, <3>3, <3>4, ServerFrame DEF Resetting, RemuxLooks
  <2> QED
    BY <1>2, <2>1, <2>2 DEF Server
<1>3. CASE Control
  <2>1. UNCHANGED gen /\ UNCHANGED xpc
    BY <1>3, ControlFrame
  <2>2. ASSUME ctl # << >>, ctl' = Tail(ctl) PROVE ctl' = << >> /\ cpc = "idle"
    BY <2>2, LastMessage DEF StillAlone
  <2>3. ~ ControlSame
    BY KindOfMessage DEF ControlSame, Unresumed
  <2>4. CASE ControlZap
    BY <2>1, <2>2, <2>4 DEF ControlZap, Receive, ControlKeeps
  <2>5. CASE ControlFreeze
    BY <2>1, <2>2, <2>5 DEF ControlFreeze, Receive, ControlKeeps, info
  <2>6. CASE StillPicture
    BY <2>1, <2>2, <2>6 DEF StillPicture, Receive, ControlKeeps, info
  <2>7. CASE StillLook
    BY <2>1, <2>7 DEF StillLook, ControlKeeps, info, server, RemuxLooks
  <2>8. CASE StillWrite
    BY <2>1, <2>8 DEF StillWrite, ControlKeeps, info, server, RemuxLooks
  <2>9. CASE StillPause
    BY <2>1, <2>9 DEF StillPause, ControlKeeps, info, server, RemuxLooks
  <2> QED
    BY <1>3, <2>3, <2>4, <2>5, <2>6, <2>7, <2>8, <2>9 DEF Control
<1>4. CASE Receiver
  <2>1. UNCHANGED <<mode, gen, ctl, owed, acked, cpc, xpc>>
    BY <1>4, ReceiverFrame
  <2> QED
    BY <1>4, <2>1, Stores DEF Ordered, RemuxLooks
<1>5. CASE Remux
  <2>1. UNCHANGED <<mode, gen, ctl, cpc>>
    BY <1>5, RemuxFrame
  <2>2. ctl # << >> => ~ RemuxLooks' /\ UNCHANGED <<playstate, acked, owed>>
    BY <1>5 DEF Remux, RemuxSeesReset, RemuxReset, RemuxSetOut, RemuxRequest, RemuxLook,
                RemuxWrite, RemuxAdvance, RemuxKeeps, RemuxLooks, server
  <2>3. CASE RemuxRequest
    BY <2>1, <2>2, <2>3 DEF RemuxRequest, Request, RemuxKeeps
  <2>4. CASE ~ RemuxRequest
    <3>1. UNCHANGED <<owed, acked>>
      BY <1>5, <2>4 DEF Remux, RemuxSeesReset, RemuxReset, RemuxSetOut, RemuxLook, RemuxWrite,
                        RemuxAdvance, RemuxKeeps, server
    <3> QED
      BY <2>1, <2>2, <3>1
  <2> QED
    BY <2>3, <2>4
<1>6. CASE Player
  <2>1. UNCHANGED <<mode, gen, ctl, owed, acked, cpc, xpc>>
    BY <1>6, PlayerFrame
  <2>2. playstate' \in {"BufferReset", "InBufferReset"} => UNCHANGED playstate
    BY <1>6, Stores DEF Targets
  <2> QED
    BY <2>1, <2>2 DEF RemuxLooks
<1> QED
  BY <1>2, <1>3, <1>4, <1>5, <1>6 DEF Next

\* The receiver leaves the ring and empties the connection, then remux empties the ring.
LEMMA StepEmptied ==
  ASSUME InOrder, Patient, Fed, Unresumed, SockCap <= DrainMax, Typed, Ordered, StillAlone,
         Unhurried, Standing, Asked, Emptied, Next
  PROVE  Emptied'
<1> USE DEF Emptied
<1>1. Undisturbed => ~ ReceiverLooks /\ ~ RemuxLooks /\ ~ PlayerLooks
  BY DEF Undisturbed, Pending, InOrder, ReceiverLooks, RemuxLooks, PlayerLooks
<1>2. CASE Server
  <2>1. UNCHANGED <<playstate, rin, mode, acked, rpc, xpc>>
    BY <1>2, ServerFrame
  <2>2. owed # 0 => UNCHANGED sock
    BY <1>2 DEF Server, ServerData, ServerMessage, ServerKeeps
  <2> QED
    BY <2>1, <2>2 DEF Asked
<1>3. CASE Control
  <2>1. acked = mode
    BY <1>3 DEF Asked, Control, ControlZap, ControlSame, ControlFreeze, StillPicture, StillLook,
                StillWrite, StillPause, Receive
  <2>2. CASE ControlZap
    BY <1>1, <1>3, <2>2, ControlFrame DEF ControlZap, RemuxLooks
  <2>3. CASE ~ ControlZap
    <3>1. acked' = mode'
      BY <1>3, <2>1, <2>3
         DEF Control, ControlSame, ControlFreeze, StillPicture, StillLook, StillWrite,
             StillPause, ControlKeeps, info
    <3> QED
      BY <3>1
  <2> QED
    BY <2>2, <2>3
<1>4. CASE Receiver
  <2>1. UNCHANGED <<mode, acked, xpc>>
    BY <1>4, ReceiverFrame
  <2> SUFFICES ASSUME acked # mode PROVE Emptied'
    BY <2>1
  <2>2. CASE ReceiverStore
    BY <2>1, <2>2 DEF ReceiverStore, ReceiverKeeps, Unhurried, Ordered, ReceiverLooks,
                      RemuxLooks
  <2>3. CASE ReceiverDrain
    <3>1. sock \in Seq(Gens) /\ Len(sock) <= DrainMax
      BY CapAssumption DEF Typed, ServerTyped
    <3>2. sock' = << >> /\ UNCHANGED <<playstate, rin>> /\ rpc' = "top"
      BY <2>3, <3>1, Drained, CapAssumption DEF ReceiverDrain, ReceiverKeeps
    <3> QED
      BY <2>1, <2>3, <3>2
  <2>4. CASE ReceiverSeesReset \/ ReceiverThrottle \/ ReceiverLook
    BY <2>1, <2>4 DEF ReceiverSeesReset, ReceiverThrottle, ReceiverLook, ReceiverKeeps,
                      Streaming
  <2>5. CASE ReceiverGet
    BY <2>1, <2>5 DEF ReceiverGet, ReceiverKeeps, Ordered
  <2>6. CASE ReceiverPut
    BY <2>1, <2>6 DEF ReceiverPut, ReceiverKeeps, Ordered
  <2>7. ~ ReceiverStall /\ ~ ReceiverStarved /\ ~ ReceiverGiveUp
    BY DEF ReceiverStall, ReceiverStarved, ReceiverGiveUp, Fed, Unhurried, GivingUp
  <2> QED
    BY <1>4, <2>2, <2>3, <2>4, <2>5, <2>6, <2>7 DEF Receiver
<1>5. CASE Remux
  <2>1. UNCHANGED <<mode, sock, rpc>>
    BY <1>5, RemuxFrame
  <2>2. CASE RemuxRequest
    BY <2>1, <2>2 DEF RemuxRequest, Request
  <2>3. CASE RemuxSeesReset \/ RemuxReset
    BY <2>1, <2>3 DEF RemuxSeesReset, RemuxReset, RemuxKeeps
  <2>4. CASE RemuxSetOut
    BY <2>1, <2>4 DEF RemuxSetOut, RemuxKeeps, Ordered
  <2>5. CASE RemuxLook \/ RemuxWrite \/ RemuxAdvance
    BY <2>1, <2>5 DEF RemuxLook, RemuxWrite, RemuxAdvance, RemuxKeeps, Resetting
  <2> QED
    BY <1>5, <2>2, <2>3, <2>4, <2>5 DEF Remux
<1>6. CASE Player
  <2>1. UNCHANGED <<rin, mode, sock, acked, rpc, xpc>>
    BY <1>6, PlayerFrame
  <2>2. playstate' = "InBufferReset" => UNCHANGED playstate
    BY <1>6, Stores DEF Targets
  <2> QED
    BY <2>1, <2>2
<1> QED
  BY <1>2, <1>3, <1>4, <1>5, <1>6 DEF Next

\* Blocks come and go at the ends of a ring.
LEMMA AllOfRing ==
  ASSUME NEW p, NEW s \in Seq(Blocks), AllOf(s, p)
  PROVE  /\ AllOf(Append(s, p), p)
         /\ s # << >> => AllOf(Tail(s), p)
         /\ \A cap \in Nat : AllOf(Advance(s, cap), p)
<1>1. AllOf(Append(s, p), p)
  <2>1. \A i \in DOMAIN Append(s, p) :
          \/ i \in DOMAIN s /\ Append(s, p)[i] = s[i]
          \/ Append(s, p)[i] = p
    OBVIOUS
  <2> QED
    BY <2>1 DEF AllOf
<1>2. s # << >> => AllOf(Tail(s), p)
  BY FromHead DEF AllOf
<1> QED
  BY <1>1, <1>2 DEF Advance, AllOf

\* The same of a ring or connection in which nothing is stale.
LEMMA OnlyOf ==
  ASSUME NEW p, NEW S, NEW s \in Seq(S), \A i \in DOMAIN s : s[i] = p
  PROVE  /\ \A i \in DOMAIN Append(s, p) : Append(s, p)[i] = p
         /\ s # << >> => Head(s) = p /\ \A i \in DOMAIN Tail(s) : Tail(s)[i] = p
<1>1. \A i \in DOMAIN Append(s, p) :
        \/ i \in DOMAIN s /\ Append(s, p)[i] = s[i]
        \/ Append(s, p)[i] = p
  OBVIOUS
<1> QED
  BY <1>1, FromHead

\* No block of another program gets in but over a ring that is emptied.
LEMMA StepOneProgram ==
  ASSUME InOrder, Patient, Fed, Unresumed, SockCap <= DrainMax, Typed, Ordered, StillAlone,
         Unhurried, Standing, Asked, Emptied, OneProgram, Next
  PROVE  OneProgram'
<1> USE DEF OneProgram
<1> rin \in Seq(Blocks) /\ rout \in Seq(Blocks) /\ sock \in Seq(Gens)
  BY DEF Typed, RingsTyped, ServerTyped
<1>1. CASE Server
  <2>1. UNCHANGED <<playstate, rin, rout, acked, rpc, rblk, xpc, xblk, ppc, cpc>>
    BY <1>1, ServerFrame
  <2>2. CASE ServerData
    <3>1. gen = acked
      BY <2>2 DEF ServerData, Asked
    <3>2. sock' = Append(sock, acked) /\ UNCHANGED ctl
      BY <2>2, <3>1 DEF ServerData, ServerKeeps
    <3> QED
      BY <2>1, <3>2, OnlyOf
  <2>3. ASSUME NEW kind \in Messages, ServerMessage(kind) PROVE OneProgram'
    BY <2>1, <2>3 DEF ServerMessage, ServerKeeps, Settled, Patient, Resetting
  <2> QED
    BY <1>1, <2>2, <2>3 DEF Server
<1>2. CASE Control
  <2>1. UNCHANGED <<rout, sock, rpc, rblk, xpc, xblk, ppc>>
    BY <1>2, ControlFrame
  <2>2. ~ ControlSame
    BY KindOfMessage DEF ControlSame, Unresumed
  <2>3. (ctl # << >> \/ cpc # "idle") /\ UNCHANGED acked
    BY <1>2, <2>2 DEF Control, ControlZap, ControlFreeze, StillPicture, StillLook, StillWrite,
                      StillPause, Receive, ControlKeeps
  <2>4. UNCHANGED rin \/ rin' = Append(rin, acked)
    BY <1>2, <2>2 DEF Control, ControlZap, ControlFreeze, StillPicture, StillLook, StillWrite,
                      StillPause, ControlKeeps, Asked
  <2>5. \A i \in DOMAIN rin' : rin'[i] = acked
    BY <2>4, OnlyOf
  <2> QED
    BY <2>1, <2>3, <2>5
<1>3. CASE Receiver
  <2>1. UNCHANGED <<acked, ctl, cpc, xpc, xblk, ppc>>
    BY <1>3, ReceiverFrame
  <2>2. playstate = "OutBufferReset" => UNCHANGED playstate
    BY <1>3, Stores DEF Ordered, Standing
  <2>3. CASE ReceiverSeesReset \/ ReceiverStore \/ ReceiverThrottle \/ ReceiverLook
    <3>1. /\ UNCHANGED <<rin, rout, sock, rblk>> /\ rpc # "drain"
          /\ rpc' \in {"ack", "drain", "get", "calm", "top"}
      BY <2>3 DEF ReceiverSeesReset, ReceiverStore, ReceiverThrottle, ReceiverLook,
                  ReceiverKeeps, Streaming
    <3> QED
      BY <2>1, <2>2, <3>1
  <2>4. CASE ReceiverDrain
    <3>1. sock \in Seq(Gens) /\ Len(sock) <= DrainMax
      BY CapAssumption DEF Typed, ServerTyped
    <3>2. sock' = << >> /\ UNCHANGED <<playstate, rin, rout, rblk>> /\ rpc' = "top"
      BY <2>4, <3>1, Drained, CapAssumption DEF ReceiverDrain, ReceiverKeeps
    <3> QED
      BY <2>1, <3>2
  <2>5. CASE ReceiverGet
    <3>1. \A i \in DOMAIN sock : sock[i] = acked
      BY <2>5 DEF ReceiverGet
    <3>2. sock # << >> => Head(sock) = acked /\ \A i \in DOMAIN Tail(sock) : Tail(sock)[i] = acked
      BY <3>1, OnlyOf
    <3>3. \A i \in DOMAIN sock' : sock'[i] = acked
      BY <2>5, <3>1, <3>2 DEF ReceiverGet
    <3>4. (rpc' = "put" => rblk' = acked) /\ UNCHANGED <<playstate, rin, rout>>
      BY <2>5, <3>2 DEF ReceiverGet, ReceiverKeeps
    <3> QED
      BY <2>1, <3>3, <3>4
  <2>6. CASE ReceiverPut
    <3>1. \A i \in DOMAIN rin' : rin'[i] = acked
      BY <2>6, OnlyOf DEF ReceiverPut
    <3> QED
      BY <2>1, <2>6, <3>1 DEF ReceiverPut, ReceiverKeeps
  <2>7. ~ ReceiverStall /\ ~ ReceiverStarved /\ ~ ReceiverGiveUp
    BY DEF ReceiverStall, ReceiverStarved, ReceiverGiveUp, Fed, Unhurried, GivingUp
  <2> QED
    BY <1>3, <2>3, <2>4, <2>5, <2>6, <2>7 DEF Receiver
<1>4. CASE Remux
  <2>1. UNCHANGED <<mode, sock, rpc, rblk, ctl, cpc, ppc>>
    BY <1>4, RemuxFrame
  <2>2. CASE RemuxRequest
    <3>1. /\ acked' = mode /\ xpc' = "top" /\ UNCHANGED <<playstate, rin, rout>>
          /\ playstate = "OutBufferReset" /\ ppc # "refill"
      BY <2>2 DEF RemuxRequest, Request, RemuxKeeps, Standing, Ordered, RemuxLooks, PlayerLooks
    <3>2. CASE acked = mode
      BY <2>1, <3>1, <3>2
    <3>3. CASE acked # mode
      BY <2>1, <2>2, <3>1, <3>3 DEF RemuxRequest, Emptied, Asked
    <3> QED
      BY <3>2, <3>3
  <2>3. CASE RemuxSeesReset \/ RemuxReset \/ RemuxSetOut
    BY <2>1, <2>3 DEF RemuxSeesReset, RemuxReset, RemuxSetOut, RemuxKeeps
  <2>4. CASE RemuxLook
    <3>1. Head(rin) = acked
      BY <2>4, OnlyOf DEF RemuxLook
    <3> QED
      BY <2>1, <2>4, <3>1 DEF RemuxLook, RemuxKeeps, Resetting
  <2>5. CASE RemuxWrite
    <3>1. AllOf(rout', acked)
      BY <2>5, AllOfRing DEF RemuxWrite
    <3> QED
      BY <2>1, <2>5, <3>1 DEF RemuxWrite, RemuxKeeps
  <2>6. CASE RemuxAdvance
    <3>1. rin # << >> /\ rin' = Tail(rin)
      BY <2>6 DEF RemuxAdvance, Advance, Unhurried
    <3>2. \A i \in DOMAIN rin' : rin'[i] = acked
      BY <3>1, OnlyOf
    <3> QED
      BY <2>1, <2>6, <3>2 DEF RemuxAdvance, RemuxKeeps
  <2> QED
    BY <1>4, <2>2, <2>3, <2>4, <2>5, <2>6 DEF Remux
<1>5. CASE Player
  <2>1. UNCHANGED <<rin, sock, rpc, rblk, xpc, xblk, acked, ctl, cpc>>
    BY <1>5, PlayerFrame
  <2>2. ASSUME ~ AllOf(rout, acked)
        PROVE  UNCHANGED playstate
    BY <1>5, <2>2, Stores DEF Standing, Refilling
  <2>3. ppc' = "refill" => AllOf(rout', acked)
    BY <1>5 DEF Player, PlayerStops, PlayerSeesReset, PlayerReset, PlayerStore, PlayerClear,
                PlayerPause, PlayerBuffered, PlayerLook, PlayerBroken, PlayerAc3Changed,
                PlayerWrite, PlayerAdvance, PlayerRate, PlayerKeeps, AllOf
  <2>4. AllOf(rout, acked) => AllOf(rout', acked)
    <3>1. \/ UNCHANGED rout \/ rout' = << >> \/ rout' = Advance(rout, CapOut)
      BY <1>5 DEF Player, PlayerStops, PlayerSeesReset, PlayerReset, PlayerStore, PlayerClear,
                  PlayerPause, PlayerBuffered, PlayerLook, PlayerBroken, PlayerAc3Changed,
                  PlayerWrite, PlayerAdvance, PlayerRate, PlayerKeeps
    <3>2. AllOf(<< >>, acked)
      BY DEF AllOf
    <3>3. AllOf(rout, acked) => AllOf(Advance(rout, CapOut), acked)
      BY AllOfRing, CapAssumption
    <3> QED
      BY <3>1, <3>2, <3>3
  <2> QED
    BY <2>1, <2>2, <2>3, <2>4
<1> QED
  BY <1>1, <1>2, <1>3, <1>4, <1>5 DEF Next

\* Remux sees no other format while a block of the last one is in the output ring.
LEMMA StepHeard ==
  ASSUME Typed, Unhurried, OneProgram, Heard, Next
  PROVE  Heard'
<1> USE DEF Heard
<1> rin \in Seq(Blocks) /\ rout \in Seq(Blocks)
  BY DEF Typed, RingsTyped
<1>1. CASE Server
  BY <1>1, ServerFrame
<1>2. CASE Control
  BY <1>2, ControlFrame
<1>3. CASE Receiver
  <2>1. UNCHANGED rout
    BY <1>3 DEF Receiver, ReceiverSeesReset, ReceiverStore, ReceiverDrain, ReceiverThrottle,
                ReceiverLook, ReceiverGet, ReceiverPut, ReceiverStall, ReceiverStarved,
                ReceiverGiveUp, ReceiverKeeps, Unhurried, GivingUp
  <2> QED
    BY <1>3, <2>1, ReceiverFrame
<1>4. CASE Remux
  <2>1. CASE RemuxLook
    <3>1. AllOf(rout, acked) /\ Head(rin) = acked
      BY <2>1, OnlyOf DEF RemuxLook, OneProgram, Resetting
    <3>2. /\ g_iIsAC3' = Format(acked) /\ xblk' = acked
          /\ UNCHANGED rout
      BY <2>1, <3>1 DEF RemuxLook, RemuxKeeps, Format
    <3> QED
      BY <3>1, <3>2 DEF AllOf
  <2>2. CASE RemuxWrite
    <3>1. \A i \in DOMAIN Append(rout, xblk) :
            \/ i \in DOMAIN rout /\ Append(rout, xblk)[i] = rout[i]
            \/ Append(rout, xblk)[i] = xblk
      OBVIOUS
    <3> QED
      BY <2>2, <3>1 DEF RemuxWrite, RemuxKeeps
  <2>3. CASE ~ RemuxLook /\ ~ RemuxWrite
    BY <1>4, <2>3 DEF Remux, RemuxSeesReset, RemuxReset, RemuxSetOut, RemuxRequest,
                      RemuxAdvance, RemuxKeeps
  <2> QED
    BY <2>1, <2>2, <2>3
<1>5. CASE Player
  <2>1. UNCHANGED <<g_iIsAC3, xpc, xblk>>
    BY <1>5, PlayerFrame
  <2>2. \/ UNCHANGED rout \/ rout' = << >> \/ rout' = Advance(rout, CapOut)
    BY <1>5 DEF Player, PlayerStops, PlayerSeesReset, PlayerReset, PlayerStore, PlayerClear,
                PlayerPause, PlayerBuffered, PlayerLook, PlayerBroken, PlayerAc3Changed,
                PlayerWrite, PlayerAdvance, PlayerRate, PlayerKeeps
  <2>3. \A i \in DOMAIN Advance(rout, CapOut) :
          \/ Advance(rout, CapOut)[i] = Stale
          \/ i + 1 \in DOMAIN rout /\ Advance(rout, CapOut)[i] = rout[i + 1]
    BY FromHead DEF Advance
  <2> QED
    BY <2>1, <2>2, <2>3
<1> QED
  BY <1>1, <1>2, <1>3, <1>4, <1>5 DEF Next

\* The player changes its format only where the devices are stopped before it plays on,
\* and starts them with it.
LEMMA StepTuned ==
  ASSUME InOrder, Unresumed, Typed, Ordered, StillAlone, Unhurried, Standing, Tuned, Next
  PROVE  Tuned'
<1> USE DEF Tuned
<1>1. CASE Server
  BY <1>1, ServerFrame
<1>2. CASE Control
  BY <1>2, ControlFrame, Stores DEF Resetting
<1>3. CASE Receiver
  BY <1>3, ReceiverFrame, Stores DEF Resetting, Standing
<1>4. CASE Remux
  BY <1>4, RemuxFrame, Stores DEF Resetting
<1>5. CASE Player
  <2> devices \in [state : {"UNDEF", "STOPPED", "RUNNING"}, frozen : BOOLEAN, bypass : {0, 1}]
    BY DEF Typed, DevicesTyped
  <2>1. StopDVBDevices.state = "STOPPED"
    BY DEF StopDVBDevices
  <2>2. CASE PlayerStops
    BY <2>1, <2>2 DEF PlayerStops
  <2>3. CASE PlayerSeesReset \/ PlayerBuffered
    BY <2>3 DEF PlayerSeesReset, PlayerBuffered, PlayerKeeps, locals
  <2>4. CASE PlayerReset \/ PlayerClear \/ PlayerAdvance \/ PlayerRate
    BY <2>4 DEF PlayerReset, PlayerClear, PlayerAdvance, PlayerRate, PlayerKeeps, locals
  <2>5. CASE PlayerStore
    BY <2>5 DEF PlayerStore, PlayerKeeps, locals, Resetting
  <2>6. CASE PlayerPause
    BY <2>6 DEF PlayerPause, PlayerKeeps
  <2>7. CASE PlayerLook
    BY <2>7 DEF PlayerLook, Looking, PlayerKeeps, Resetting
  <2>8. CASE PlayerBroken
    BY <2>1, <2>8 DEF PlayerBroken, Looking, PlayerKeeps, Resetting
  <2>9. CASE PlayerAc3Changed
    BY <2>9 DEF PlayerAc3Changed
  <2>10. CASE PlayerWrite
    BY <2>10 DEF PlayerWrite, PlayerKeeps, UnfreezeAV, StartDVBDevices
  <2> QED
    BY <1>5, <2>2, <2>3, <2>4, <2>5, <2>6, <2>7, <2>8, <2>9, <2>10 DEF Player
<1> QED
  BY <1>1, <1>2, <1>3, <1>4, <1>5 DEF Next

\* What is written is what was seen last, and the devices are set for it.
LEMMA StepRightSound ==
  ASSUME Typed, Heard, Tuned, RightSound, Next
  PROVE  RightSound'
<1> USE DEF RightSound
<1>1. CASE Player
  <2>1. CASE PlayerWrite
    <3> devices \in [state : {"UNDEF", "STOPPED", "RUNNING"}, frozen : BOOLEAN, bypass : {0, 1}]
      BY DEF Typed, DevicesTyped
    <3> SUFFICES ASSUME ppc' = "advance", prd', played' # Stale
                 PROVE  devices'.bypass = IF played' \in Ac3Gens THEN 0 ELSE 1
      OBVIOUS
    <3>1. ~ Skipping /\ rout # << >> /\ played' = Head(rout)
      BY <2>1 DEF PlayerWrite, PlayerKeeps
    <3>2. Format(played') = ac3
      <4>1. 1 \in DOMAIN rout /\ Head(rout) = rout[1]
        BY <3>1, FromHead DEF Typed, RingsTyped
      <4> QED
        BY <2>1, <3>1, <4>1 DEF PlayerWrite, Heard
    <3>3. devices' = UnfreezeAV(StartDVBDevices) /\ ppc = "ac3"
      BY <2>1, <3>1 DEF PlayerWrite
    <3>4. UnfreezeAV(StartDVBDevices).bypass = StartDVBDevices.bypass
      BY DEF UnfreezeAV, StartDVBDevices
    <3>5. StartDVBDevices.bypass = IF ac3 = 1 THEN 0 ELSE 1
      BY <3>3 DEF StartDVBDevices, Tuned
    <3> QED
      BY <3>2, <3>3, <3>4, <3>5 DEF Format
  <2>2. CASE ~ PlayerWrite
    BY <1>1, <2>2
       DEF Player, PlayerStops, PlayerSeesReset, PlayerReset, PlayerStore, PlayerClear,
           PlayerPause, PlayerBuffered, PlayerLook, PlayerBroken, PlayerAc3Changed,
           PlayerAdvance, PlayerRate, PlayerKeeps
  <2> QED
    BY <2>1, <2>2
<1> QED
  BY <1>1, ServerFrame, ControlFrame, ReceiverFrame, RemuxFrame DEF Next

\* What holds of the programs and their formats, together.
Sound ==
  /\ Typed /\ Ordered /\ StillAlone /\ Unhurried /\ Standing /\ Asked
  /\ Emptied /\ OneProgram /\ Heard /\ Tuned

\* It is inductive.
LEMMA StepSound ==
  ASSUME InOrder, Patient, Fed, Unresumed, SockCap <= DrainMax, Sound, [Next]_vars
  PROVE  Sound'
<1>1. CASE Next
  BY <1>1, StepTyped, StepOrder, StepStillAlone, StepUnhurried, StepStanding, StepAsked,
     StepEmptied, StepOneProgram, StepHeard, StepTuned DEF Sound
<1>2. CASE UNCHANGED vars
  <2>1. /\ UNCHANGED <<playstate, rin, rout, sock, ctl, gen, owed, mode, acked, cpc>>
        /\ UNCHANGED <<rpc, rblk, xpc, xblk, ppc, target, g_bReset, g_iIsAC3, ac3, devices>>
    BY <1>2 DEF vars, info, flags, server, receiver, remux, player
  <2>2. /\ StillAlone' /\ Unhurried' /\ Standing' /\ Asked' /\ Emptied'
        /\ OneProgram' /\ Heard' /\ Tuned'
    BY <2>1 DEF Sound, StillAlone, Unhurried, Standing, Asked, Emptied, OneProgram, Heard,
                Tuned, RemuxLooks
  <2> QED
    BY <1>2, <2>2, StepTyped, StepOrder DEF Sound
<1> QED
  BY <1>1, <1>2

\* At first.
LEMMA InitAllSound == Init => Sound
BY InitTyped, InitOrdered, InitStillAlone, InitSound DEF Sound

\* Every block is heard in its own format (RightSound), if programs change one at a time,
\* nobody gives up and no message resumes over the reset of a format change.
THEOREM SoundIsRight ==
  ASSUME InOrder, Patient, Fed, Unresumed, SockCap <= DrainMax
  PROVE  Spec => []RightSound
<1>1. Init => Sound /\ RightSound
  BY InitAllSound DEF Init, RightSound
<1>2. Sound /\ RightSound /\ [Next]_vars => (Sound /\ RightSound)'
  <2>1. CASE Next
    BY <2>1, StepSound, StepRightSound DEF Sound
  <2>2. CASE UNCHANGED vars
    <3>1. UNCHANGED <<ppc, prd, devices, played>>
      BY <2>2 DEF vars, player
    <3> QED
      BY <2>2, <3>1, StepSound DEF RightSound
  <2> QED
    BY <2>1, <2>2
<1> QED
  BY <1>1, <1>2, PTL DEF Spec

\* Nothing is played from behind the write pointer.
Written == \A i \in DOMAIN rout : rout[i] # Stale

\* Remux writes blocks of the program, and the player leaves what it has not seen.
LEMMA StepWritten ==
  ASSUME Typed, Unhurried, OneProgram, Kept, Written, Next
  PROVE  Written'
<1> USE DEF Written
<1> rout \in Seq(Blocks)
  BY DEF Typed, RingsTyped
<1>1. CASE Receiver
  BY <1>1 DEF Receiver, ReceiverSeesReset, ReceiverStore, ReceiverDrain, ReceiverThrottle,
              ReceiverLook, ReceiverGet, ReceiverPut, ReceiverStall, ReceiverStarved,
              ReceiverGiveUp, ReceiverKeeps, Unhurried, GivingUp
<1>2. CASE Remux
  <2>1. CASE RemuxWrite
    <3>1. xblk # Stale
      BY <2>1 DEF RemuxWrite, OneProgram, Typed, ServerTyped, Gens, Stale
    <3>2. \A i \in DOMAIN Append(rout, xblk) :
            \/ i \in DOMAIN rout /\ Append(rout, xblk)[i] = rout[i]
            \/ Append(rout, xblk)[i] = xblk
      OBVIOUS
    <3> QED
      BY <2>1, <3>1, <3>2 DEF RemuxWrite
  <2>2. CASE ~ RemuxWrite
    BY <1>2, <2>2 DEF Remux, RemuxSeesReset, RemuxReset, RemuxSetOut, RemuxRequest, RemuxLook,
                      RemuxAdvance, RemuxKeeps
  <2> QED
    BY <2>1, <2>2
<1>3. CASE Player
  <2>1. CASE PlayerAdvance
    <3>1. rout # << >> /\ rout' = Tail(rout)
      BY <2>1 DEF PlayerAdvance, Kept, Advance
    <3> QED
      BY <3>1, FromHead
  <2>2. CASE ~ PlayerAdvance
    BY <1>3, <2>2
       DEF Player, PlayerStops, PlayerSeesReset, PlayerReset, PlayerStore, PlayerClear,
           PlayerPause, PlayerBuffered, PlayerLook, PlayerBroken, PlayerAc3Changed,
           PlayerWrite, PlayerRate, PlayerKeeps
  <2> QED
    BY <2>1, <2>2
<1> QED
  BY <1>1, <1>2, <1>3, ServerFrame, ControlFrame DEF Next

\* After a program change nothing of the old program is left (OldStreamGone), also with
\* AC3 sound, if no message resumes over the reset of a format change.
THEOREM OldStreamIsGoneWithAc3 ==
  ASSUME InOrder, Patient, Fed, Unresumed, "short" \notin Hazards, SockCap <= DrainMax
  PROVE  Spec => []OldStreamGone
<1> DEFINE Inv == Sound /\ Kept /\ Written
<1>1. Init => Inv
  BY InitAllSound, InitKept DEF Init, Written
<1>2. Inv /\ [Next]_vars => Inv'
  <2>1. CASE Next
    BY <2>1, StepSound, StepKept, StepWritten DEF Sound
  <2>2. CASE UNCHANGED vars
    BY <2>2, StepSound, StepKept DEF Sound, Written, vars
  <2> QED
    BY <2>1, <2>2
<1>3. Inv => OldStreamGone
  <2> SUFFICES ASSUME Inv, acked = mode
               PROVE  /\ \A i \in DOMAIN rin : rin[i] >= mode
                      /\ playstate \notin Resetting => \A i \in DOMAIN rout : rout[i] >= mode
    BY DEF OldStreamGone
  <2>1. mode \in Nat
    BY DEF Sound, Typed, ServerTyped, Gens
  <2> QED
    BY <2>1 DEF Sound, OneProgram, AllOf, Written, Resetting
<1> HIDE DEF Inv
<1> QED
  BY <1>1, <1>2, <1>3, PTL DEF Spec

\* A frozen picture is in a pause, or in the handshake that ends it.
Resting ==
  devices.frozen =>
    /\ freezed /\ devices.state = "RUNNING"
    /\ ppc = "top" /\ playstate \in Resetting \cup {"Pause"}

\* Only the stop of the devices ends it.
LEMMA StepResting ==
  ASSUME InOrder, Unresumed, Typed, Ordered, StillAlone, Unhurried, Standing, Resting, Next
  PROVE  Resting'
<1> USE DEF Resting
<1>1. CASE Server
  BY <1>1, ServerFrame
<1>2. CASE Control
  BY <1>2, ControlFrame, Stores DEF Resetting
<1>3. CASE Receiver
  BY <1>3, ReceiverFrame, Stores DEF Resetting, Standing
<1>4. CASE Remux
  BY <1>4, RemuxFrame, Stores DEF Resetting
<1>5. CASE Player
  <2> /\ devices \in [state : {"UNDEF", "STOPPED", "RUNNING"}, frozen : BOOLEAN,
                      bypass : {0, 1}]
      /\ freezed \in BOOLEAN
    BY DEF Typed, DevicesTyped, FlagsTyped
  <2>1. \/ StopDVBDevices.frozen = FALSE
        \/ (devices.state = "STOPPED" /\ StopDVBDevices = devices)
    BY DEF StopDVBDevices
  <2>2. CASE PlayerStops
    BY <2>1, <2>2 DEF PlayerStops
  <2>3. CASE \/ PlayerSeesReset \/ PlayerBuffered \/ PlayerReset \/ PlayerClear
             \/ PlayerAdvance \/ PlayerRate \/ PlayerAc3Changed
    BY <2>3 DEF PlayerSeesReset, PlayerBuffered, PlayerReset, PlayerClear, PlayerAdvance,
                PlayerRate, PlayerAc3Changed, PlayerKeeps, locals
  <2>4. CASE PlayerStore
    BY <2>4 DEF PlayerStore, PlayerKeeps, locals
  <2>5. CASE PlayerPause
    BY <2>1, <2>5 DEF PlayerPause, PlayerKeeps, FreezeAV
  <2>6. CASE PlayerLook
    BY <2>6 DEF PlayerLook, Looking, PlayerKeeps, Resetting
  <2>7. CASE PlayerBroken
    BY <2>1, <2>7 DEF PlayerBroken, Looking, PlayerKeeps, Resetting
  <2>8. CASE PlayerWrite
    <3>1. devices.frozen = FALSE
      BY <2>8 DEF PlayerWrite
    <3>2. StartDVBDevices.frozen = FALSE /\ UnfreezeAV(StartDVBDevices).frozen = FALSE
      BY <3>1 DEF UnfreezeAV, StartDVBDevices
    <3> QED
      BY <2>8, <3>1, <3>2 DEF PlayerWrite
  <2> QED
    BY <1>5, <2>2, <2>3, <2>4, <2>5, <2>6, <2>7, <2>8 DEF Player
<1> QED
  BY <1>1, <1>2, <1>3, <1>4, <1>5 DEF Next

\* A frozen picture is remembered (FrozenRemembered), also with AC3 sound, if no message
\* resumes over the reset of a format change.
THEOREM FreezeIsRememberedWithAc3 ==
  ASSUME InOrder, Patient, Fed, Unresumed
  PROVE  Spec => []FrozenRemembered
<1> DEFINE Inv == /\ Typed /\ Ordered /\ StillAlone /\ Unhurried /\ Standing /\ Resting
<1>1. Init => Inv
  BY InitAllSound DEF Sound, Init, Resting
<1>2. Inv /\ [Next]_vars => Inv'
  <2>1. CASE Next
    BY <2>1, StepTyped, StepOrder, StepStillAlone, StepUnhurried, StepStanding, StepResting
  <2>2. CASE UNCHANGED vars
    <3>1. /\ UNCHANGED <<playstate, rin, ctl, cpc, rpc, xpc, ppc, target, g_bReset>>
          /\ UNCHANGED <<freezed, devices>>
      BY <2>2 DEF vars, info, flags, server, receiver, remux, player
    <3>2. Inv => StillAlone' /\ Unhurried' /\ Standing' /\ Resting'
      BY <3>1 DEF StillAlone, Unhurried, Standing, Resting
    <3> QED
      BY <2>2, <3>2, StepTyped, StepOrder
  <2> QED
    BY <2>1, <2>2
<1>3. Inv => FrozenRemembered
  BY DEF Resting, FrozenRemembered
<1> HIDE DEF Inv
<1> QED
  BY <1>1, <1>2, <1>3, PTL DEF Spec

================================================================================
