--------------------------------- MODULE Viewer ---------------------------------
(***************************************************************************)
(* Main as a client of the VDR's RFB server: the handshake, the loop       *)
(* around fbvnc_get_event with its timer, the messages of the server and   *)
(* what they draw, and the menus, which take the screen over while the     *)
(* server goes on sending.                                                 *)
(*                                                                         *)
(* Both directions of the connection are sequences of items, a message     *)
(* being one or more: the client reads what it expects next and cannot     *)
(* tell when it is something else.  Main reads blocking; in the middle of  *)
(* a message it waits for the rest and does nothing else.                  *)
(*                                                                         *)
(* The server is not part of the program.  It is what the client code      *)
(* takes for granted: it draws when it likes, answers a request that is    *)
(* not incremental with the whole rectangle, scales down once if it is     *)
(* asked to, and does not use the palette before the encodings have come;  *)
(* but it may send a message or an encoding the client does not know.      *)
(***************************************************************************)
EXTENDS Screen, Sequences, FiniteSets

CONSTANTS
  p_xsize, p_ysize,   \* the screen, of which pv_xsize times pv_ysize are used
  Scales,             \* v_scale, of vdr.conf
  MenuScales,         \* the scales with which menus are opened
  ServerScales,       \* serverScaleFactor
  Areas,              \* for each scale, the rectangles the server draws
  Schemes,            \* the authentication schemes it may ask for
  MaxWire, MaxAsked,  \* bounds on the items and the requests under way
  MaxRects,           \* bound on the rectangles of an update
  MaxDrawn            \* for each scale, bound on the rectangles drawn unasked

ASSUME ViewerAssumption ==
  /\ p_xsize \in pv_xsize..v_xsize /\ p_ysize \in pv_ysize..v_ysize
  /\ Scales \subseteq 1..4 /\ MenuScales \subseteq Scales /\ ServerScales \subseteq {1, 2}
  /\ Areas \in [Scales -> SUBSET Rectangles]
  /\ MaxWire \in Nat /\ MaxAsked \in Nat /\ MaxRects \in Nat \ {0}
  /\ MaxDrawn \in [Scales -> Nat]

VARIABLES
  main,       \* position of main
  si,         \* framebufferWidth and framebufferHeight as the client knows them
  left,       \* rectangles left of the update that is being read
  v_scale, serverScaleFactor,
  synced, shown,
  keyboard,   \* the overlay
  palette,    \* the colours on the screen: of the VDR or of the menus
  sched,      \* the schedule: [event, due]
  wire,       \* from the server
  asked,      \* to the server
  server,     \* the server's size, phase, what it owes
  verdict     \* history: why main gave up

client == <<main, si, left, v_scale, serverScaleFactor, synced, shown, keyboard, palette, sched,
            verdict>>
vars == <<client, wire, asked, server>>

Full == [w |-> v_xsize, h |-> v_ysize]
Whole(size) == Rect(0, 0, size.w, size.h)
Scaled(size) == [w |-> (size.w + 1) \div 2, h |-> (size.h + 1) \div 2]

--------------------------------------------------------------------------------
(***************************************************************************)
(* rfb/rfbproto.h: the messages and their parts.                           *)
(***************************************************************************)
Item(kind, data) == [kind |-> kind, data |-> data]

\* What is not of the form of a version is from something else than a VNC server.
Versions == {"before 3.3", "3.3", "foreign"}
rfbProtocolVersionMsg(version) == Item("version", version)

\* The scheme comes with the version that was agreed upon.
rfbAuthentication(scheme, version) ==
  Item("scheme", [scheme |-> scheme, version |-> version])
rfbConnFailedReason == Item("reason", 0)
rfbVncAuthChallenge == Item("challenge", 0)
rfbVncAuthResults == {"ok", "failed", "toomany"}
rfbClientInitMsg == Item("clientinit", 0)
rfbServerInitMsg(size) == Item("init", size)

\* To the client; its types.
rfbServerToClient == {"update", "colourmap", "bell", "cuttext", "resize"}
rfbFramebufferUpdateMsg(nRects) == Item("update", nRects)
rfbFramebufferUpdateRectHeader(r, enc) == Item("rect", [area |-> r, enc |-> enc])
rfbRaw(r) == Item("raw", r)
rfbCopyRect(from) == Item("copy", from)
rfbRREHeader(r) == Item("rre", r)
rfbSetColourMapEntriesMsg == Item("colourmap", 0)
rfbBellMsg == Item("bell", 0)
rfbServerCutTextMsg == Item("cuttext", 0)
rfbReSizeFrameBufferMsg(size) == Item("resize", size)

\* To the server.
rfbSetPixelFormatMsg == Item("format", 0)
rfbSetEncodingsMsg == Item("encodings", 0)
rfbSetScaleFactorMsg == Item("scale", 0)
rfbFramebufferUpdateRequestMsg(r) == Item("request", r)
rfbPointerEventMsg == Item("pointer", 0)

--------------------------------------------------------------------------------
(***************************************************************************)
(* list.c: a list without its head.                                        *)
(***************************************************************************)
list_new == << >>
list_insert(l, i, v) == SubSeq(l, 1, i) \o <<v>> \o SubSeq(l, i + 1, Len(l))
list_append(l, v) == Append(l, v)
list_remove(l, i) == SubSeq(l, 1, i - 1) \o SubSeq(l, i + 1, Len(l))

--------------------------------------------------------------------------------
Init ==
  /\ main = "version" /\ si = [w |-> 0, h |-> 0] /\ left = 0
  /\ v_scale \in Scales /\ serverScaleFactor \in ServerScales
  /\ synced = {} /\ shown = {} /\ keyboard = overlays_init
  /\ palette = "vdr" /\ sched = list_new
  /\ wire \in {<<rfbProtocolVersionMsg(v)>> : v \in Versions} /\ asked = << >>
  /\ server = [size |-> Full, phase |-> "version", open |-> TRUE, rects |-> 0,
               drawn |-> 0, resize |-> FALSE]
  /\ verdict = "none"

--------------------------------------------------------------------------------
(***************************************************************************)
(* Reading and writing.                                                    *)
(***************************************************************************)
GivesUp(why) == main' = "ended" /\ verdict' = why

\* The next item is one of kinds.
Next_(kinds) == wire # << >> /\ Head(wire).kind \in kinds
Reads == wire' = Tail(wire) /\ UNCHANGED <<server>>

\* What is written to a connection the server has closed is lost, if not refused.
Tell(items) == asked' = IF server.open THEN asked \o items ELSE asked

CanTell ==
  \/ ~ server.open
  \/ Cardinality({i \in DOMAIN asked : asked[i].kind = "request"}) < MaxAsked

Drawing == <<synced, shown, keyboard, palette>>
Set == <<v_scale, serverScaleFactor>>

\* Positions in which main is in ReadExact, or about to be.
Reading == {"version", "scheme", "reason", "challenge", "result", "init", "loop", "rects"}

\* What main takes the next bytes for.
Expected ==
  [version |-> {"version"}, scheme |-> {"scheme"}, reason |-> {"reason"},
   challenge |-> {"challenge"}, result |-> {"result"}, init |-> {"init"},
   loop |-> rfbServerToClient, rects |-> {"rect"}]

Blame(kind) == IF kind = "strange" THEN "strange" ELSE "nonsense"

\* Something else arrives: a message of a type main does not know, or what it
\* takes for one.
ReadsNonsense ==
  /\ main \in Reading /\ wire # << >> /\ Head(wire).kind \notin Expected[main]
  /\ GivesUp(Blame(Head(wire).kind)) /\ Reads
  /\ UNCHANGED <<si, left, Set, Drawing, sched, asked>>

\* The server has closed and what main is about to read is not there as a whole: at
\* most one item of it is, the last one, of which any part may be missing, or the
\* header of a rectangle and a part of its data.  The part of a raw rectangle that
\* was there may have been drawn; nobody looks at it any more.
Torn ==
  /\ ~ server.open
  /\ \/ Len(wire) <= 1
     \/ main = "rects" /\ Len(wire) = 2 /\ wire[2].kind \in {"raw", "copy", "rre"}

\* Mutant: between two messages it is not noticed.
ReadFailsInMessage ==
  /\ main \in Reading \ {"loop"} /\ Torn
  /\ GivesUp("closed")
  /\ UNCHANGED <<si, left, Set, Drawing, sched, wire, asked, server>>

\* ReadExact finds the connection closed.
ReadFails ==
  /\ main \in Reading /\ Torn
  /\ GivesUp("closed")
  /\ UNCHANGED <<si, left, Set, Drawing, sched, wire, asked, server>>

\* WriteExact is refused, by a connection the server has closed, where main looks
\* at its result: everywhere but in the menu.
WriteFails ==
  /\ ~ server.open
  /\ \/ main = "setup" /\ UNCHANGED wire
     \/ /\ main \in Reading /\ wire # << >> /\ wire' = Tail(wire)
        /\ LET item == Head(wire) IN
           /\ item.kind \in Expected[main]
           /\ \/ item.kind \in {"version", "challenge", "resize"}
              \/ item.kind = "scheme" /\ item.data.scheme = "none"
              \/ item.kind = "result" /\ item.data = "ok"
  /\ GivesUp("closed")
  /\ UNCHANGED <<si, left, Set, Drawing, sched, asked, server>>

--------------------------------------------------------------------------------
(***************************************************************************)
(* InitialiseRFBConnection.                                                *)
(***************************************************************************)
HandshakeKeeps == UNCHANGED <<left, Set, Drawing, sched>>

\* A server older than 3.3 gets its own version back, any other the client's.
HandleVersion ==
  /\ main = "version" /\ Next_({"version"})
  /\ IF Head(wire).data = "foreign" THEN GivesUp("strange") /\ UNCHANGED asked
     ELSE /\ Tell(<<rfbProtocolVersionMsg(Head(wire).data)>>)
          /\ main' = "scheme" /\ UNCHANGED verdict
  /\ Reads /\ HandshakeKeeps /\ UNCHANGED si

\* With a version before 3.3 authentication will not work.
HandleScheme ==
  /\ main = "scheme" /\ Next_({"scheme"})
  /\ LET s == Head(wire).data IN
     CASE s.scheme = "failed" -> main' = "reason" /\ UNCHANGED <<asked, verdict>>
       [] s.scheme = "none" ->
            main' = "init" /\ Tell(<<rfbClientInitMsg>>) /\ UNCHANGED verdict
       [] s.scheme = "vnc" /\ s.version = "3.3" -> main' = "challenge" /\ UNCHANGED <<asked, verdict>>
       [] OTHER -> GivesUp("refused") /\ UNCHANGED asked
  /\ Reads /\ HandshakeKeeps /\ UNCHANGED si

HandleReason ==
  /\ main = "reason" /\ Next_({"reason"})
  /\ GivesUp("refused")
  /\ Reads /\ HandshakeKeeps /\ UNCHANGED <<si, asked>>

\* The password is used to answer the challenge, if its file can be read.
HandleChallenge ==
  /\ main = "challenge" /\ Next_({"challenge"})
  /\ \/ main' = "result" /\ Tell(<<Item("response", 0)>>) /\ UNCHANGED verdict
     \/ GivesUp("password") /\ UNCHANGED asked
  /\ Reads /\ HandshakeKeeps /\ UNCHANGED si

\* Mutant: only a failure is looked for, not "too many".
HandleResultFailed ==
  /\ main = "result" /\ Next_({"result"})
  /\ IF Head(wire).data # "failed"
     THEN main' = "init" /\ Tell(<<rfbClientInitMsg>>) /\ UNCHANGED verdict
     ELSE GivesUp("refused") /\ UNCHANGED asked
  /\ Reads /\ HandshakeKeeps /\ UNCHANGED si

HandleResult ==
  /\ main = "result" /\ Next_({"result"})
  /\ IF Head(wire).data = "ok"
     THEN main' = "init" /\ Tell(<<rfbClientInitMsg>>) /\ UNCHANGED verdict
     ELSE GivesUp("refused") /\ UNCHANGED asked
  /\ Reads /\ HandshakeKeeps /\ UNCHANGED si

HandleInit ==
  /\ main = "init" /\ Next_({"init"})
  /\ si' = Head(wire).data
  /\ main' = "setup"
  /\ Reads /\ HandshakeKeeps /\ UNCHANGED <<asked, verdict>>

Handshake ==
  \/ HandleVersion \/ HandleScheme \/ HandleReason \/ HandleChallenge
  \/ HandleResult \/ HandleInit

--------------------------------------------------------------------------------
(***************************************************************************)
(* The schedule, in the order of the times.                                *)
(***************************************************************************)
\* cmp_sc, by the time alone.
cmp_sc(a, b) == a.due - b.due

\* Before the first that is later.
schedule_add(s, e) ==
  LET later == {i \in DOMAIN s : cmp_sc(e, s[i]) < 0} IN
  IF later = {} THEN list_append(s, e)
  ELSE list_insert(s, (CHOOSE i \in later : \A j \in later : i <= j) - 1, e)

\* Mutant: nothing is removed.
schedule_keep(s, event) == s

\* The first of that name is removed.
schedule_delete(s, event) ==
  LET there == {i \in DOMAIN s : s[i].event = event} IN
  IF there = {} THEN s ELSE list_remove(s, CHOOSE i \in there : \A j \in there : i <= j)

TICK_SECOND == [event |-> "tick", due |-> 1]

\* fbvnc_init: v_buf is allocated and not initialised.
fbvnc_init == {}

SetFormatAndEncodings == <<rfbSetPixelFormatMsg, rfbSetEncodingsMsg>>
SetScaleFactor == <<rfbSetScaleFactorMsg>>
SendFramebufferUpdateRequest(r) == <<rfbFramebufferUpdateRequestMsg(r)>>
scaledPointerEvent == <<rfbPointerEventMsg>>

\* A server that has to scale sends the new size after an update only.
Setup ==
  /\ main = "setup"
  /\ synced' = fbvnc_init
  /\ keyboard' = toggle_keyboard(overlays_init)
  /\ shown' = redraw_phys_all(keyboard')
  /\ Tell(SetFormatAndEncodings \o
          (IF serverScaleFactor > 1
           THEN SetScaleFactor \o SendFramebufferUpdateRequest(Rect(0, 0, 1, 1))
           ELSE SendFramebufferUpdateRequest(Whole(si))) \o
          scaledPointerEvent)
  /\ sched' = schedule_add(sched, TICK_SECOND)
  /\ main' = "loop"
  /\ UNCHANGED <<si, left, Set, palette, verdict, wire, server>>

\* A second passes.
TimePasses ==
  /\ main = "loop" /\ \E i \in DOMAIN sched : sched[i].due > 0
  /\ sched' = [i \in DOMAIN sched |-> [sched[i] EXCEPT !.due = 0]]
  /\ UNCHANGED <<main, si, left, Set, Drawing, verdict, wire, asked, server>>

\* select has waited until the first event was due and nothing was there to
\* read: fbvnc_get_event deletes the event, and the loop once more, before it
\* adds it again.  No overlay wants it.
Tick ==
  /\ main = "loop" /\ wire = << >> /\ server.open
  /\ sched # << >> /\ Head(sched).due = 0
  /\ LET rest == schedule_delete(sched, Head(sched).event)
     IN sched' = schedule_add(schedule_delete(rest, "tick"), TICK_SECOND)
  /\ UNCHANGED <<main, si, left, Set, Drawing, verdict, wire, asked, server>>

--------------------------------------------------------------------------------
(***************************************************************************)
(* HandleRFBServerMessage.  The socket is looked at before the remote      *)
(* control, so a message goes before a key.                                *)
(***************************************************************************)
MessageKeeps == UNCHANGED <<Set, sched>>

HandleColourMap ==
  /\ main = "loop" /\ Next_({"colourmap"})
  /\ palette' = "vdr"
  /\ Reads /\ MessageKeeps /\ UNCHANGED <<main, si, left, synced, shown, keyboard, verdict, asked>>

\* A bell and a cut text are read and forgotten.
HandleOther ==
  /\ main = "loop" /\ Next_({"bell", "cuttext"})
  /\ Reads /\ MessageKeeps /\ UNCHANGED <<main, si, left, Drawing, verdict, asked>>

HandleUpdate ==
  /\ main = "loop" /\ Next_({"update"})
  /\ left' = Head(wire).data
  /\ main' = IF Head(wire).data = 0 THEN "loop" ELSE "rects"
  /\ Reads /\ MessageKeeps /\ UNCHANGED <<si, Drawing, verdict, asked>>

\* The new size is blanked, and asked for as a whole.
HandleReSize ==
  /\ main = "loop" /\ Next_({"resize"})
  /\ LET r == Whole(Head(wire).data) IN
     /\ si' = Head(wire).data
     /\ synced' = Blank(synced, r)
     /\ shown' = Redrawn(shown, Pixels(r), redraw_virt(r, v_scale), v_scale, keyboard)
     /\ Tell(SendFramebufferUpdateRequest(r))
  /\ CanTell
  /\ Reads /\ MessageKeeps /\ UNCHANGED <<main, left, keyboard, palette, verdict>>

\* What a rectangle makes of synced: raw and RRE data, or a copy.  Raw data are read,
\* drawn and redrawn some lines at a time, here as one: in between main reads nothing
\* else, and the parts together are redrawn as the whole is.
Painted(enc, r, from) ==
  CASE enc \in {"raw", "rre"} -> Put(synced, r)
    [] enc = "copy" -> Copy(synced, from, r)

\* Mutant: one rectangle more is read.
RectDoneLate == left' = left - 1 /\ main' = IF left = 0 THEN "loop" ELSE "rects"

RectDone == left' = left - 1 /\ main' = IF left = 1 THEN "loop" ELSE "rects"

\* A rectangle that is too large, or of an encoding that was not asked for, ends
\* the session.
GoodRect(r, enc, data) ==
  /\ Within(r, si.w, si.h)
  /\ r.w * r.h > 0 =>
       enc \in {"raw", "rre", "copy"} /\ data # << >> /\ Head(data).kind = enc

\* Of the rectangles, one: its header and, if it is not empty, its data.
HandleRect ==
  /\ main = "rects" /\ Next_({"rect"})
  /\ LET r == Head(wire).data.area
         enc == Head(wire).data.enc
         data == Tail(wire)
     IN \/ /\ ~ GoodRect(r, enc, data)
           /\ GivesUp(Blame(enc)) /\ wire' = data
           /\ UNCHANGED <<left, synced, shown>>
        \/ /\ GoodRect(r, enc, data) /\ r.w * r.h = 0
           /\ RectDone /\ wire' = data
           /\ UNCHANGED <<synced, shown, verdict>>
        \/ /\ GoodRect(r, enc, data) /\ r.w * r.h > 0
           /\ RectDone /\ wire' = Tail(data)
           /\ synced' = Painted(enc, r, Head(data).data)
           /\ shown' = Redrawn(shown, Pixels(r), redraw_virt(r, v_scale), v_scale, keyboard)
           /\ UNCHANGED verdict
  /\ MessageKeeps /\ UNCHANGED <<si, keyboard, palette, asked, server>>

--------------------------------------------------------------------------------
(***************************************************************************)
(* cMenu::Show, and leaving.                                               *)
(***************************************************************************)
Screenful == Rect(0, 0, p_xsize, p_ysize)

\* The picture is blanked, the menu is drawn straight into the screen.
OpenMenu ==
  /\ main = "loop" /\ wire = << >> /\ server.open /\ v_scale \in MenuScales
  /\ main' = "menu"
  /\ palette' = "menu"
  /\ synced' = Blank(synced, Screenful)
  /\ shown' = {}
  /\ UNCHANGED <<si, left, Set, keyboard, sched, verdict, wire, asked, server>>

\* Blanked again, and asked for.
CloseMenu ==
  /\ main = "menu" /\ CanTell
  /\ palette' = "vdr"
  /\ synced' = Blank(synced, Screenful)
  /\ shown' = Redrawn(shown, Pixels(Screenful), redraw_virt(Screenful, v_scale), v_scale,
                       keyboard)
  /\ Tell(SendFramebufferUpdateRequest(Screenful))
  /\ main' = "loop"
  /\ UNCHANGED <<si, left, Set, keyboard, sched, verdict, wire, server>>

\* The user has chosen to leave.
Quit ==
  /\ main = "loop" /\ wire = << >> /\ server.open
  /\ GivesUp("quit")
  /\ UNCHANGED <<si, left, Set, Drawing, sched, wire, asked, server>>

Message ==
  HandleColourMap \/ HandleOther \/ HandleUpdate \/ HandleReSize \/ HandleRect

Client ==
  \/ Handshake \/ Setup \/ Message
  \/ ReadsNonsense \/ ReadFails \/ WriteFails \/ Tick

--------------------------------------------------------------------------------
(***************************************************************************)
(* The server.                                                             *)
(***************************************************************************)
ServerKeeps == UNCHANGED client

Up == server.open /\ main # "ended"

Says(items) ==
  /\ Up /\ Len(wire) + Len(items) <= MaxWire
  /\ wire' = wire \o items

Hears(kind) == Up /\ asked # << >> /\ Head(asked).kind = kind /\ asked' = Tail(asked)

ServerScheme ==
  /\ server.phase = "version" /\ Hears("version")
  /\ \E s \in Schemes :
       /\ Says(<<rfbAuthentication(s, Head(asked).data)>> \o
               CASE s = "failed" -> <<rfbConnFailedReason>>
                 [] s = "vnc" -> <<rfbVncAuthChallenge>>
                 [] OTHER -> << >>)
       /\ server' = [server EXCEPT !.phase = CASE s = "vnc" -> "auth"
                                               [] s = "none" -> "init"
                                               [] OTHER -> "refused"]
  /\ ServerKeeps

ServerResult ==
  /\ server.phase = "auth" /\ Hears("response")
  /\ \E result \in rfbVncAuthResults :
       /\ Says(<<Item("result", result)>>)
       /\ server' = [server EXCEPT !.phase = IF result = "ok" THEN "init" ELSE "refused"]
  /\ ServerKeeps

ServerInit ==
  /\ server.phase = "init" /\ Hears("clientinit")
  /\ Says(<<rfbServerInitMsg(server.size)>>)
  /\ server' = [server EXCEPT !.phase = "format"]
  /\ ServerKeeps

\* The pixel format, the encodings, the scale, where the pointer is.
ServerSettings ==
  /\ \E k \in {"format", "encodings", "scale", "pointer"} :
       /\ Hears(k)
       /\ server' = CASE k \in {"format", "pointer"} -> server
                      [] k = "encodings" -> [server EXCEPT !.phase = "serving"]
                      [] k = "scale" -> [server EXCEPT !.resize = TRUE]
  /\ UNCHANGED wire /\ ServerKeeps

Idle == server.phase = "serving" /\ server.rects = 0

\* A request: the rectangle, as far as it is in the picture.
ServerAnswers ==
  /\ Idle /\ Hears("request")
  /\ LET r == Clipped(Head(asked).data, server.size.w, server.size.h) IN
     Says(<<rfbFramebufferUpdateMsg(1), rfbFramebufferUpdateRectHeader(r, "raw"), rfbRaw(r)>>)
  /\ UNCHANGED server /\ ServerKeeps

ServerScales_ ==
  /\ Idle /\ server.resize
  /\ Says(<<rfbReSizeFrameBufferMsg(Scaled(server.size))>>)
  /\ server' = [server EXCEPT !.size = Scaled(@), !.resize = FALSE]
  /\ UNCHANGED asked /\ ServerKeeps

ServerTells ==
  /\ Idle
  /\ \E item \in {rfbSetColourMapEntriesMsg, rfbBellMsg, rfbServerCutTextMsg, Item("strange", 0)} :
       Says(<<item>>)
  /\ UNCHANGED <<asked, server>> /\ ServerKeeps

\* An update of its own, one rectangle after the other.
ServerUpdates ==
  /\ Idle
  /\ \E n \in 1..MaxRects :
       /\ server.drawn + n <= MaxDrawn[v_scale]
       /\ Says(<<rfbFramebufferUpdateMsg(n)>>)
       /\ server' = [server EXCEPT !.rects = n, !.drawn = @ + n]
  /\ UNCHANGED asked /\ ServerKeeps

\* An empty rectangle has no data: it is sent raw.
ServerRect ==
  /\ server.rects > 0
  /\ \E r \in {a \in Areas[v_scale] : Within(a, server.size.w, server.size.h)} :
       \/ /\ r.w * r.h = 0
          /\ Says(<<rfbFramebufferUpdateRectHeader(r, "raw")>>)
       \/ /\ r.w * r.h > 0
          /\ \E data \in {rfbRaw(r), rfbRREHeader(r)} :
               Says(<<rfbFramebufferUpdateRectHeader(r, data.kind), data>>)
       \/ /\ r.w * r.h > 0
          /\ Says(<<rfbFramebufferUpdateRectHeader(r, "strange")>>)
       \/ /\ r.w * r.h > 0
          /\ \E from \in {a \in Areas[v_scale] : a.w = r.w /\ a.h = r.h} :
               /\ Within(from, server.size.w, server.size.h)
               /\ Says(<<rfbFramebufferUpdateRectHeader(r, "copy"), rfbCopyRect(from)>>)
  /\ server' = [server EXCEPT !.rects = @ - 1]
  /\ UNCHANGED asked /\ ServerKeeps

ServerCloses ==
  /\ Up
  /\ server' = [server EXCEPT !.open = FALSE]
  /\ UNCHANGED <<wire, asked>> /\ ServerKeeps

Server ==
  \/ ServerScheme \/ ServerResult \/ ServerInit \/ ServerSettings
  \/ ServerAnswers \/ ServerScales_ \/ ServerTells \/ ServerUpdates \/ ServerRect
  \/ ServerCloses

Next == Client \/ TimePasses \/ OpenMenu \/ CloseMenu \/ Quit \/ Server

Spec == Init /\ [][Next]_vars

\* Main runs.  Nothing is assumed of the user, the time or the server.
FairSpec == Spec /\ WF_vars(Client)

--------------------------------------------------------------------------------
(***************************************************************************)
(* Properties.                                                             *)
(***************************************************************************)
Sizes == [w : 1..v_xsize, h : 1..v_ysize]

TypeOK ==
  /\ main \in Reading \cup {"setup", "menu", "ended"}
  /\ si.w \in 0..v_xsize /\ si.h \in 0..v_ysize /\ left \in 0..MaxRects
  /\ main # "ended" => (left > 0 <=> main = "rects")
  /\ synced \subseteq VPixels /\ shown \subseteq PPixels
  /\ v_scale \in Scales /\ serverScaleFactor \in ServerScales
  /\ keyboard \in [area : {overlays_init.area}, visible : BOOLEAN]
  /\ palette \in {"vdr", "menu"}
  /\ sched \in Seq([event : {"tick"}, due : 0..1])
  /\ server.size \in Sizes /\ server.rects \in 0..MaxRects
  /\ verdict \in {"none", "nonsense", "strange", "closed", "refused", "password", "quit"}

\* Main never takes one thing for another: it gives up only if the server refuses
\* it, closes or sends what it does not know, if the password cannot be read, or if
\* the user wants to; and it goes on only when the server has let it in
\* (rfbproto.c:97-280, 465-902).
InStep ==
  /\ verdict # "nonsense"
  /\ main = "init" => server.phase \in {"init", "format"}
  /\ main \in {"setup", "loop", "rects", "menu"} => server.phase \in {"format", "serving"}

\* When nothing is under way, v_buf is the server's picture and the palette the
\* server's, whatever menus were opened and whatever came meanwhile, if the picture
\* is not larger than the screen (viewermenu.cpp:699-724, rfbproto.c:881-894).
Mirror ==
  main = "loop" /\ wire = << >> /\ asked = << >> /\ ~ server.resize /\ server.open =>
    /\ Pixels(Whole(si)) \subseteq synced /\ si = server.size
    /\ palette = "vdr"

\* Between two events, every pixel of the screen shows what is in v_buf now: no
\* rectangle is redrawn too small, at no scale (fbdraw.c:395-474).
Shown == main = "loop" => shown = PPixels

\* In the loop there is one tick in the schedule, never none and never two
\* (vdrviewer.cpp:2235-2238, 3709-3714).
OneTick ==
  main \in {"loop", "rects", "menu"} =>
    Cardinality({i \in DOMAIN sched : sched[i].event = "tick"}) = 1

\* A connection that is closed, wherever in a message, ends the session, unless
\* the user is in a menu (sockets.c:41-67).
LossNoticed == ~ server.open ~> main \in {"menu", "ended"}
================================================================================
