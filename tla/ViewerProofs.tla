------------------------------ MODULE ViewerProofs ------------------------------
(***************************************************************************)
(* The client stays in step with the server, for every picture, screen,    *)
(* number of rectangles and length of the connection.                      *)
(***************************************************************************)
EXTENDS Viewer, ScreenProofs, SequenceTheorems, FiniteSetTheorems

\* What is on the wire is read as a path through states: how many rectangles are
\* left, how large the picture is, what data must come for which rectangle.
Nowhere == Rect(0, 0, 0, 0)
Encodings == {"raw", "rre", "copy"}
Parse == [left : 0..MaxRects, size : Sizes, enc : Encodings \cup {"none"}, area : Rectangles]

ReaderAt(n, size) == [left |-> n, size |-> size, enc |-> "none", area |-> Nowhere]

Headers == [area : Rectangles, enc : Encodings \cup {"strange"}]
Items == [kind : rfbServerToClient \cup Encodings \cup {"strange", "rect"},
          data : Nat \cup Sizes \cup Rectangles \cup Headers]

\* Reading item in state s leads to t; an item the client does not know is counted
\* like any other.
AcceptsMessage(s, item, t) ==
  /\ s.enc = "none" /\ s.left = 0
  /\ \/ item.kind \in {"colourmap", "bell", "cuttext", "strange"} /\ t = s
     \/ /\ item.kind = "update" /\ item.data \in 1..MaxRects
        /\ t = ReaderAt(item.data, s.size)
     \/ /\ item.kind = "resize" /\ item.data \in Sizes
        /\ t = ReaderAt(s.left, item.data)

AcceptsRect(s, item, t) ==
  /\ s.enc = "none" /\ s.left > 0
  /\ item.kind = "rect" /\ item.data \in Headers
  /\ Within(item.data.area, s.size.w, s.size.h)
  /\ \/ /\ item.data.enc = "strange"
        /\ item.data.area.w * item.data.area.h > 0
        /\ t = ReaderAt(s.left - 1, s.size)
     \/ /\ item.data.enc = "raw"
        /\ item.data.area.w * item.data.area.h = 0
        /\ t = ReaderAt(s.left - 1, s.size)
     \/ /\ item.data.enc \in Encodings
        /\ item.data.area.w * item.data.area.h > 0
        /\ t = [left |-> s.left, size |-> s.size, enc |-> item.data.enc, area |-> item.data.area]

AcceptsData(s, item, t) ==
  /\ s.enc # "none" /\ s.left > 0 /\ item.kind = s.enc
  /\ s.enc = "copy" =>
       /\ item.data \in Rectangles /\ Within(item.data, s.size.w, s.size.h)
       /\ item.data.w = s.area.w /\ item.data.h = s.area.h
  /\ t = ReaderAt(s.left - 1, s.size)

Accepts(s, item, t) ==
  AcceptsMessage(s, item, t) \/ AcceptsRect(s, item, t) \/ AcceptsData(s, item, t)

Tracks(w, from, to) ==
  \E P \in [1 .. Len(w) + 1 -> Parse] :
    /\ P[1] = from /\ P[Len(w) + 1] = to
    /\ \A i \in 1..Len(w) : Accepts(P[i], w[i], P[i + 1])

\* Nothing is read.
LEMMA TracksEmpty ==
  ASSUME NEW from \in Parse
  PROVE  Tracks(<< >>, from, from)
<1> DEFINE P == [i \in 1..1 |-> from]
<1>1. Len(<< >>) = 0
  OBVIOUS
<1>2. P \in [1..1 -> Parse] /\ P[1] = from
  OBVIOUS
<1> HIDE DEF P
<1>3. /\ P \in [1 .. Len(<< >>) + 1 -> Parse]
      /\ P[1] = from /\ P[Len(<< >>) + 1] = from
      /\ \A i \in 1..Len(<< >>) : Accepts(P[i], << >>[i], P[i + 1])
  BY <1>1, <1>2
<1> QED
  BY <1>3 DEF Tracks

\* And nothing else.
LEMMA TracksNothing ==
  ASSUME NEW from, NEW to, Tracks(<< >>, from, to)
  PROVE  from = to
BY DEF Tracks

\* The first item is read.
LEMMA TracksHead ==
  ASSUME NEW w \in Seq(Items), w # << >>, NEW from, NEW to, Tracks(w, from, to)
  PROVE  /\ Head(w) \in Items /\ Tail(w) \in Seq(Items) /\ from \in Parse
         /\ \E mid \in Parse : Accepts(from, Head(w), mid) /\ Tracks(Tail(w), mid, to)
<1> PICK P \in [1 .. Len(w) + 1 -> Parse] :
      /\ P[1] = from /\ P[Len(w) + 1] = to
      /\ \A i \in 1..Len(w) : Accepts(P[i], w[i], P[i + 1])
  BY DEF Tracks
<1>1. Len(w) \in Nat \ {0} /\ Head(w) = w[1] /\ Head(w) \in Items /\ Tail(w) \in Seq(Items)
      /\ Len(Tail(w)) = Len(w) - 1 /\ \A i \in 1 .. Len(w) - 1 : Tail(w)[i] = w[i + 1]
  OBVIOUS
<1> DEFINE Q == [i \in 1 .. Len(w) |-> P[i + 1]]
<1>2. Q \in [1 .. Len(Tail(w)) + 1 -> Parse]
  BY <1>1
<1>3. Q[1] = P[2] /\ Q[Len(Tail(w)) + 1] = to
  BY <1>1
<1>4. \A i \in 1..Len(Tail(w)) : Accepts(Q[i], Tail(w)[i], Q[i + 1])
  <2> TAKE i \in 1..Len(Tail(w))
  <2>1. i + 1 \in 1..Len(w) /\ Q[i] = P[i + 1] /\ Q[i + 1] = P[i + 2] /\ Tail(w)[i] = w[i + 1]
    BY <1>1
  <2>2. Accepts(P[i + 1], w[i + 1], P[(i + 1) + 1])
    BY <2>1
  <2>3. (i + 1) + 1 = i + 2
    OBVIOUS
  <2> HIDE DEF Q
  <2> QED
    BY <2>1, <2>2, <2>3
<1>5. Tracks(Tail(w), P[2], to)
  <2> HIDE DEF Q
  <2> QED
    BY <1>2, <1>3, <1>4 DEF Tracks
<1>6. P[1] \in Parse /\ P[2] \in Parse /\ Accepts(P[1], w[1], P[2])
  BY <1>1
<1> QED
  BY <1>1, <1>5, <1>6

\* One more item comes.
LEMMA TracksAppend ==
  ASSUME NEW w \in Seq(Items), NEW item \in Items, NEW from, NEW mid, NEW to \in Parse,
         Tracks(w, from, mid), Accepts(mid, item, to)
  PROVE  Append(w, item) \in Seq(Items) /\ Tracks(Append(w, item), from, to)
<1> PICK P \in [1 .. Len(w) + 1 -> Parse] :
      /\ P[1] = from /\ P[Len(w) + 1] = mid
      /\ \A i \in 1..Len(w) : Accepts(P[i], w[i], P[i + 1])
  BY DEF Tracks
<1> DEFINE n == Len(w)
           v == Append(w, item)
           Q == [i \in 1 .. n + 2 |-> IF i = n + 2 THEN to ELSE P[i]]
<1>1. n \in Nat /\ v \in Seq(Items) /\ Len(v) = n + 1 /\ v[n + 1] = item
      /\ \A i \in 1..n : v[i] = w[i]
  OBVIOUS
<1>2. Q \in [1 .. Len(v) + 1 -> Parse] /\ Q[1] = from /\ Q[Len(v) + 1] = to
  BY <1>1
<1>3. \A i \in 1..Len(v) : Accepts(Q[i], v[i], Q[i + 1])
  <2> TAKE i \in 1..Len(v)
  <2>1. CASE i = n + 1
    <3>1. Q[i] = mid /\ Q[i + 1] = to /\ v[i] = item
      BY <1>1, <2>1
    <3> QED
      BY <3>1
  <2>2. CASE i # n + 1
    <3>1. i \in 1..n
      BY <1>1, <2>2
    <3>2. Q[i] = P[i] /\ Q[i + 1] = P[i + 1] /\ v[i] = w[i]
      BY <1>1, <3>1
    <3>3. Accepts(P[i], w[i], P[i + 1])
      BY <3>1
    <3> HIDE DEF Q, v
    <3> QED
      BY <3>2, <3>3
  <2> QED
    BY <2>1, <2>2
<1>4. Tracks(v, from, to)
  <2> HIDE DEF Q, v
  <2> QED
    BY <1>2, <1>3 DEF Tracks
<1> QED
  BY <1>1, <1>4

\* One, two or three items come at once.
LEMMA TracksOne ==
  ASSUME NEW w \in Seq(Items), NEW a \in Items, NEW from, NEW mid, NEW to \in Parse,
         Tracks(w, from, mid), Accepts(mid, a, to)
  PROVE  w \o <<a>> \in Seq(Items) /\ Tracks(w \o <<a>>, from, to)
BY TracksAppend, AppendIsConcat

\* Two.
LEMMA TracksTwo ==
  ASSUME NEW w \in Seq(Items), NEW a \in Items, NEW b \in Items,
         NEW from, NEW mid, NEW next \in Parse, NEW to \in Parse,
         Tracks(w, from, mid), Accepts(mid, a, next), Accepts(next, b, to)
  PROVE  w \o <<a, b>> \in Seq(Items) /\ Tracks(w \o <<a, b>>, from, to)
<1>1. w \o <<a>> \in Seq(Items) /\ Tracks(w \o <<a>>, from, next)
  BY TracksOne
<1>2. (w \o <<a>>) \o <<b>> \in Seq(Items) /\ Tracks((w \o <<a>>) \o <<b>>, from, to)
  BY <1>1, TracksOne
<1>3. (w \o <<a>>) \o <<b>> = w \o <<a, b>>
  <2> DEFINE x == (w \o <<a>>) \o <<b>>
             y == w \o <<a, b>>
  <2>1. x \in Seq(Items) /\ Len(x) = Len(w) + 2
        /\ \A i \in 1..Len(x) : x[i] = IF i <= Len(w) THEN w[i] ELSE IF i = Len(w) + 1 THEN a ELSE b
    OBVIOUS
  <2>2. y \in Seq(Items) /\ Len(y) = Len(w) + 2
        /\ \A i \in 1..Len(y) : y[i] = IF i <= Len(w) THEN w[i] ELSE IF i = Len(w) + 1 THEN a ELSE b
    OBVIOUS
  <2> HIDE DEF x, y
  <2>3. x = y
    BY <2>1, <2>2, SeqEqual
  <2> QED
    BY <2>3 DEF x, y
<1> QED
  BY <1>2, <1>3

\* Three.
LEMMA TracksThree ==
  ASSUME NEW w \in Seq(Items), NEW a \in Items, NEW b \in Items, NEW c \in Items,
         NEW from, NEW mid, NEW next \in Parse, NEW last \in Parse, NEW to \in Parse,
         Tracks(w, from, mid), Accepts(mid, a, next), Accepts(next, b, last), Accepts(last, c, to)
  PROVE  w \o <<a, b, c>> \in Seq(Items) /\ Tracks(w \o <<a, b, c>>, from, to)
<1>1. w \o <<a>> \in Seq(Items) /\ Tracks(w \o <<a>>, from, next)
  BY TracksOne
<1>2. (w \o <<a>>) \o <<b, c>> \in Seq(Items) /\ Tracks((w \o <<a>>) \o <<b, c>>, from, to)
  BY <1>1, TracksTwo
<1>3. (w \o <<a>>) \o <<b, c>> = w \o <<a, b, c>>
  <2> DEFINE x == (w \o <<a>>) \o <<b, c>>
             y == w \o <<a, b, c>>
             at(i) == IF i <= Len(w) THEN w[i] ELSE IF i = Len(w) + 1 THEN a
                      ELSE IF i = Len(w) + 2 THEN b ELSE c
  <2>1. x \in Seq(Items) /\ Len(x) = Len(w) + 3 /\ \A i \in 1..Len(x) : x[i] = at(i)
    OBVIOUS
  <2>2. y \in Seq(Items) /\ Len(y) = Len(w) + 3 /\ \A i \in 1..Len(y) : y[i] = at(i)
    OBVIOUS
  <2> HIDE DEF x, y, at
  <2>3. x = y
    BY <2>1, <2>2, SeqEqual
  <2> QED
    BY <2>3 DEF x, y
<1> QED
  BY <1>2, <1>3

--------------------------------------------------------------------------------
(***************************************************************************)
(* The inductive invariant.                                                *)
(***************************************************************************)
Before == {"version", "scheme", "reason", "challenge", "result", "init", "setup"}
Looping == {"loop", "rects", "menu"}
Phases == {"version", "auth", "init", "refused", "format", "serving"}

Typed ==
  /\ main \in Before \cup Looping \cup {"ended"}
  /\ si \in [w : 0..v_xsize, h : 0..v_ysize] /\ left \in 0..MaxRects
  /\ main # "ended" => (left > 0 <=> main = "rects")
  /\ synced \subseteq VPixels /\ shown \subseteq PPixels
  /\ v_scale \in Scales /\ serverScaleFactor \in ServerScales
  /\ keyboard \in [area : {overlays_init.area}, visible : BOOLEAN]
  /\ palette \in {"vdr", "menu"}
  /\ server \in [size : Sizes, phase : Phases, open : BOOLEAN, rects : 0..MaxRects,
                 drawn : Nat, resize : BOOLEAN]
  /\ verdict \in {"none", "strange", "closed", "refused", "password", "quit"}

OneTickDue(s) == \E d \in 0..1 : s = <<[event |-> "tick", due |-> d]>>

Ticking ==
  /\ sched = << >> \/ OneTickDue(sched)
  /\ main \in Before => sched = << >>
  /\ main \in Looping => OneTickDue(sched)

\* Until the client is let in, each waits for the other: what is under way is one
\* answer or one question.
Offer(s, v) ==
  <<rfbAuthentication(s, v)>> \o
  CASE s = "failed" -> <<rfbConnFailedReason>>
    [] s = "vnc" -> <<rfbVncAuthChallenge>>
    [] OTHER -> << >>

Opening ==
  /\ main \in Before => server.rects = 0
  /\ main = "version" =>
       /\ server.phase = "version" /\ asked = << >>
       /\ \E v \in Versions : wire = <<rfbProtocolVersionMsg(v)>>
  /\ main = "scheme" =>
       \/ /\ server.phase = "version" /\ wire = << >>
          /\ asked = << >> \/ \E v \in Versions : asked = <<rfbProtocolVersionMsg(v)>>
       \/ /\ asked = << >>
          /\ \E s \in Schemes, v \in Versions :
               /\ wire = Offer(s, v)
               /\ server.phase = CASE s = "vnc" -> "auth"
                                   [] s = "none" -> "init"
                                   [] OTHER -> "refused"
  /\ main = "reason" =>
       server.phase = "refused" /\ wire = <<rfbConnFailedReason>> /\ asked = << >>
  /\ main = "challenge" =>
       server.phase = "auth" /\ wire = <<rfbVncAuthChallenge>> /\ asked = << >>
  /\ main = "result" =>
       \/ /\ server.phase = "auth" /\ wire = << >>
          /\ asked = << >> \/ asked = <<Item("response", 0)>>
       \/ /\ asked = << >>
          /\ \E result \in rfbVncAuthResults :
               /\ wire = <<Item("result", result)>>
               /\ server.phase = IF result = "ok" THEN "init" ELSE "refused"
  /\ main = "init" =>
       \/ /\ server.phase = "init" /\ wire = << >>
          /\ asked = << >> \/ asked = <<rfbClientInitMsg>>
       \/ server.phase = "format" /\ asked = << >> /\ wire = <<rfbServerInitMsg(server.size)>>
  /\ main = "setup" =>
       server.phase = "format" /\ wire = << >> /\ asked = << >> /\ si = server.size

\* Then the server's messages are those the client will take them for, and the
\* requests are for rectangles from the corner.
Corner == {r \in Rectangles : r.x = 0 /\ r.y = 0 /\ r.w > 0 /\ r.h > 0}
Questions == [kind : {"format", "encodings", "scale", "pointer"}, data : {0}]
             \cup [kind : {"request"}, data : Corner]

Reader == ReaderAt(left, si)
Writer == ReaderAt(server.rects, server.size)

Serving ==
  main \in Looping =>
    /\ server.phase \in {"format", "serving"}
    /\ server.phase = "format" => wire = << >> /\ server.rects = 0
    /\ wire \in Seq(Items) /\ Tracks(wire, Reader, Writer)
    /\ asked \in Seq(Questions)

IInv == Typed /\ Ticking /\ Opening /\ Serving

--------------------------------------------------------------------------------
(***************************************************************************)
(* The schedule.                                                           *)
(***************************************************************************)
LEMMA AddToNothing ==
  ASSUME NEW e PROVE schedule_add(<< >>, e) = <<e>>
<1>1. DOMAIN << >> = {}
  OBVIOUS
<1>2. {i \in DOMAIN << >> : cmp_sc(e, << >>[i]) < 0} = {}
  BY <1>1
<1>3. Append(<< >>, e) = <<e>>
  OBVIOUS
<1> QED
  BY <1>2, <1>3 DEF schedule_add, list_append

\* The only event is deleted.
LEMMA DeleteOnly ==
  ASSUME NEW e PROVE schedule_delete(<<e>>, e.event) = << >>
<1> DEFINE there == {i \in DOMAIN <<e>> : <<e>>[i].event = e.event}
<1>1. there = {1}
  OBVIOUS
<1>2. (CHOOSE i \in there : \A j \in there : i <= j) = 1
  BY <1>1
<1>3. schedule_delete(<<e>>, e.event) = list_remove(<<e>>, 1)
  BY <1>1, <1>2 DEF schedule_delete
<1>4. list_remove(<<e>>, 1) = << >>
  BY DEF list_remove
<1> QED
  BY <1>3, <1>4

\* From an empty schedule nothing is.
LEMMA DeleteNothing ==
  ASSUME NEW event PROVE schedule_delete(<< >>, event) = << >>
<1>1. {i \in DOMAIN << >> : << >>[i].event = event} = {}
  OBVIOUS
<1> QED
  BY <1>1 DEF schedule_delete

\* Where main goes when it does not give up.
LEMMA StepTicking ==
  ASSUME IInv, Next
  PROVE  Ticking'
<1> USE DEF IInv
<1>1. ASSUME UNCHANGED sched,
             \/ main' = main
             \/ main' = "ended"
             \/ main \in Before /\ main' \in Before
             \/ main \in Looping /\ main' \in Looping
      PROVE  Ticking'
  BY <1>1 DEF Ticking, Before, Looping, Typed, OneTickDue
<1>2. CASE Setup
  <2>1. sched = << >> /\ sched' = schedule_add(sched, TICK_SECOND) /\ main' = "loop"
    BY <1>2 DEF Setup, Ticking, Before
  <2>2. sched' = <<TICK_SECOND>>
    BY <2>1, AddToNothing
  <2> QED
    BY <2>1, <2>2 DEF Ticking, OneTickDue, TICK_SECOND, Before, Looping
<1>3. CASE TimePasses
  <2>1. main = "loop" /\ main' = main /\ sched' = [i \in DOMAIN sched |-> [sched[i] EXCEPT !.due = 0]]
    BY <1>3 DEF TimePasses
  <2>2. PICK d \in 0..1 : sched = <<[event |-> "tick", due |-> d]>>
    BY <2>1 DEF Ticking, Looping, OneTickDue
  <2>3. sched' = <<[event |-> "tick", due |-> 0]>>
    BY <2>1, <2>2
  <2> QED
    BY <2>1, <2>3 DEF Ticking, OneTickDue, Before, Looping
<1>4. CASE Tick
  <2>1. main = "loop" /\ main' = main
        /\ sched' = schedule_add(schedule_delete(schedule_delete(sched, Head(sched).event), "tick"),
                                 TICK_SECOND)
    BY <1>4 DEF Tick
  <2>2. PICK d \in 0..1 : sched = <<[event |-> "tick", due |-> d]>>
    BY <2>1 DEF Ticking, Looping, OneTickDue
  <2>3. schedule_delete(sched, Head(sched).event) = << >>
    <3>1. Head(sched) = [event |-> "tick", due |-> d]
      BY <2>2
    <3> QED
      BY <2>2, <3>1, DeleteOnly
  <2>4. sched' = <<TICK_SECOND>>
    BY <2>1, <2>3, DeleteNothing, AddToNothing
  <2> QED
    BY <2>1, <2>4 DEF Ticking, OneTickDue, TICK_SECOND, Before, Looping
<1>5. CASE Handshake
  <2>1. UNCHANGED sched
    BY <1>5 DEF Handshake, HandleVersion, HandleScheme, HandleReason, HandleChallenge,
                HandleResult, HandleInit, HandshakeKeeps
  <2>2. main' = "ended" \/ (main \in Before /\ main' \in Before)
    BY <1>5 DEF Handshake, HandleVersion, HandleScheme, HandleReason, HandleChallenge,
                HandleResult, HandleInit, GivesUp, Before
  <2> QED
    BY <1>1, <2>1, <2>2
<1>6. CASE Message
  <2>1. UNCHANGED sched
    BY <1>6 DEF Message, HandleColourMap, HandleOther, HandleUpdate, HandleReSize, HandleRect,
                MessageKeeps
  <2>2. main' = "ended" \/ (main \in Looping /\ main' \in Looping)
    BY <1>6 DEF Message, HandleColourMap, HandleOther, HandleUpdate, HandleReSize, HandleRect,
                GivesUp, RectDone, Looping
  <2> QED
    BY <1>1, <2>1, <2>2
<1>7. CASE ReadsNonsense \/ ReadFails \/ WriteFails \/ Quit
  BY <1>1, <1>7 DEF ReadsNonsense, ReadFails, WriteFails, Quit, GivesUp
<1>8. CASE OpenMenu \/ CloseMenu
  BY <1>1, <1>8 DEF OpenMenu, CloseMenu, Looping
<1>9. CASE Server
  <2>1. UNCHANGED client
    BY <1>9 DEF Server, ServerScheme, ServerResult, ServerInit, ServerSettings, ServerAnswers,
                ServerScales_, ServerTells, ServerUpdates, ServerRect, ServerCloses, ServerKeeps
  <2> QED
    BY <1>1, <2>1 DEF client
<1> QED
  BY <1>2, <1>3, <1>4, <1>5, <1>6, <1>7, <1>8, <1>9 DEF Next, Client

--------------------------------------------------------------------------------
(***************************************************************************)
(* What the client finds on the wire.                                      *)
(***************************************************************************)
LEMMA ServedMessage ==
  ASSUME IInv, main = "loop", wire # << >>
  PROVE  /\ Head(wire).kind \in rfbServerToClient \cup {"strange"}
         /\ Tail(wire) \in Seq(Items)
         /\ Head(wire).kind = "update" =>
              /\ Head(wire).data \in 1..MaxRects
              /\ Tracks(Tail(wire), ReaderAt(Head(wire).data, si), Writer)
         /\ Head(wire).kind = "resize" =>
              /\ Head(wire).data \in Sizes
              /\ Tracks(Tail(wire), ReaderAt(left, Head(wire).data), Writer)
         /\ Head(wire).kind \notin {"update", "resize"} => Tracks(Tail(wire), Reader, Writer)
<1>1. left = 0 /\ wire \in Seq(Items) /\ Tracks(wire, Reader, Writer)
  BY DEF IInv, Typed, Serving, Looping
<1>2. /\ Tail(wire) \in Seq(Items) /\ Reader \in Parse
      /\ \E mid \in Parse : Accepts(Reader, Head(wire), mid) /\ Tracks(Tail(wire), mid, Writer)
  BY <1>1, TracksHead
<1> PICK mid \in Parse : Accepts(Reader, Head(wire), mid) /\ Tracks(Tail(wire), mid, Writer)
  BY <1>2
<1>3. AcceptsMessage(Reader, Head(wire), mid)
  BY <1>1 DEF Accepts, AcceptsRect, AcceptsData, Reader, ReaderAt
<1>4. CASE Head(wire).kind \in {"colourmap", "bell", "cuttext", "strange"}
  <2>1. mid = Reader
    BY <1>3, <1>4 DEF AcceptsMessage
  <2> QED
    BY <1>2, <1>4, <2>1 DEF rfbServerToClient
<1>5. CASE Head(wire).kind = "update"
  <2>1. Head(wire).data \in 1..MaxRects /\ mid = ReaderAt(Head(wire).data, Reader.size)
    BY <1>3, <1>5 DEF AcceptsMessage
  <2>2. mid = ReaderAt(Head(wire).data, si)
    BY <2>1 DEF Reader, ReaderAt
  <2> QED
    BY <1>2, <1>5, <2>1, <2>2 DEF rfbServerToClient
<1>6. CASE Head(wire).kind = "resize"
  <2>1. Head(wire).data \in Sizes /\ mid = ReaderAt(Reader.left, Head(wire).data)
    BY <1>3, <1>6 DEF AcceptsMessage
  <2>2. mid = ReaderAt(left, Head(wire).data)
    BY <2>1 DEF Reader, ReaderAt
  <2> QED
    BY <1>2, <1>6, <2>1, <2>2 DEF rfbServerToClient
<1> QED
  BY <1>3, <1>4, <1>5, <1>6 DEF AcceptsMessage

\* Where the client waits for a rectangle it reads one within the picture, and the
\* data of its encoding after it.
LEMMA ServedRect ==
  ASSUME IInv, main = "rects", wire # << >>,
         NEW r, r = Head(wire).data.area, NEW enc, enc = Head(wire).data.enc
  PROVE  /\ Head(wire).kind = "rect" /\ Tail(wire) \in Seq(Items)
         /\ r \in Rectangles /\ Within(r, si.w, si.h)
         /\ \/ enc = "strange" /\ r.w * r.h > 0
            \/ /\ enc = "raw" /\ r.w * r.h = 0
               /\ Tracks(Tail(wire), ReaderAt(left - 1, si), Writer)
            \/ /\ enc \in Encodings /\ r.w * r.h > 0
               /\ Tail(wire) # << >> /\ Head(Tail(wire)).kind = enc
               /\ enc = "copy" =>
                    LET from == Head(Tail(wire)).data IN
                    /\ from \in Rectangles /\ Within(from, si.w, si.h)
                    /\ from.w = r.w /\ from.h = r.h
               /\ Tail(Tail(wire)) \in Seq(Items)
               /\ Tracks(Tail(Tail(wire)), ReaderAt(left - 1, si), Writer)
<1>1. left > 0 /\ left \in Nat /\ wire \in Seq(Items) /\ Tracks(wire, Reader, Writer)
  BY DEF IInv, Typed, Serving, Looping
<1>2. /\ Tail(wire) \in Seq(Items) /\ Reader \in Parse
      /\ \E mid \in Parse : Accepts(Reader, Head(wire), mid) /\ Tracks(Tail(wire), mid, Writer)
  BY <1>1, TracksHead
<1> PICK mid \in Parse : Accepts(Reader, Head(wire), mid) /\ Tracks(Tail(wire), mid, Writer)
  BY <1>2
<1>3. AcceptsRect(Reader, Head(wire), mid)
  BY <1>1 DEF Accepts, AcceptsMessage, AcceptsData, Reader, ReaderAt
<1>4. Head(wire).kind = "rect" /\ r \in Rectangles /\ Within(r, si.w, si.h)
  BY <1>3 DEF AcceptsRect, Headers, Reader, ReaderAt
<1>5. CASE enc = "strange"
  BY <1>2, <1>3, <1>4, <1>5 DEF AcceptsRect, Encodings
<1>6. CASE enc = "raw" /\ r.w * r.h = 0
  <2>1. mid = ReaderAt(Reader.left - 1, Reader.size)
    BY <1>3, <1>6, <1>4 DEF AcceptsRect, Rectangles
  <2>2. mid = ReaderAt(left - 1, si)
    BY <2>1 DEF Reader, ReaderAt
  <2> QED
    BY <1>2, <1>4, <1>6, <2>2
<1>7. CASE enc \in Encodings /\ r.w * r.h > 0
  <2>2. mid = [left |-> left, size |-> si, enc |-> enc, area |-> r]
    BY <1>3, <1>7, <1>4 DEF AcceptsRect, Rectangles, Encodings, Reader, ReaderAt
  <2>3. Tail(wire) # << >>
    <3> SUFFICES ASSUME Tail(wire) = << >> PROVE FALSE
      OBVIOUS
    <3>1. mid = Writer
      BY TracksNothing
    <3> QED
      BY <1>7, <2>2, <3>1 DEF Writer, ReaderAt, Encodings
  <2>4. /\ Tail(Tail(wire)) \in Seq(Items)
        /\ \E end \in Parse : /\ Accepts(mid, Head(Tail(wire)), end)
                              /\ Tracks(Tail(Tail(wire)), end, Writer)
    BY <1>2, <2>3, TracksHead
  <2> PICK end \in Parse : /\ Accepts(mid, Head(Tail(wire)), end)
                           /\ Tracks(Tail(Tail(wire)), end, Writer)
    BY <2>4
  <2>5. AcceptsData(mid, Head(Tail(wire)), end)
    BY <1>7, <2>2 DEF Accepts, AcceptsMessage, AcceptsRect, Encodings
  <2>6. Head(Tail(wire)).kind = enc /\ end = ReaderAt(left - 1, si)
    BY <2>2, <2>5 DEF AcceptsData, ReaderAt
  <2>7. enc = "copy" =>
          LET from == Head(Tail(wire)).data IN
          /\ from \in Rectangles /\ Within(from, si.w, si.h)
          /\ from.w = r.w /\ from.h = r.h
    BY <2>2, <2>5 DEF AcceptsData
  <2> QED
    BY <1>2, <1>4, <1>7, <2>3, <2>4, <2>6, <2>7
<1> QED
  BY <1>3, <1>5, <1>6, <1>7 DEF AcceptsRect, Encodings

--------------------------------------------------------------------------------
(***************************************************************************)
(* Types.                                                                  *)
(***************************************************************************)
LEMMA ScaledSizes ==
  ASSUME NEW size \in Sizes PROVE Scaled(size) \in Sizes
<1> USE ScreenAssumption
<1>1. v_xsize \in Nat \ {0} /\ v_ysize \in Nat \ {0}
  OBVIOUS
<1>2. (size.w + 1) \div 2 \in 1..v_xsize /\ (size.h + 1) \div 2 \in 1..v_ysize
  BY <1>1 DEF Sizes
<1> QED
  BY <1>2 DEF Scaled, Sizes

\* A rectangle of the picture has pixels of the picture.
LEMMA PixelsWithin ==
  ASSUME NEW r \in Rectangles, NEW w \in 0..v_xsize, NEW h \in 0..v_ysize, Within(r, w, h)
  PROVE  Pixels(r) \subseteq VPixels
BY ScreenAssumption DEF Pixels, VPixels, Rectangles, Within, Rect

\* Every step keeps the types.
LEMMA StepTyped ==
  ASSUME IInv, Next
  PROVE  Typed'
<1> USE DEF IInv
<1>0. ASSUME NEW s, NEW c, NEW d, NEW n, NEW ov
      PROVE  Redrawn(s, c, d, n, ov) \subseteq PPixels
  BY DEF Redrawn
<1>1. CASE Handshake
  <2>1. UNCHANGED <<left, Set, Drawing, sched, server>>
    BY <1>1 DEF Handshake, HandleVersion, HandleScheme, HandleReason, HandleChallenge,
                HandleResult, HandleInit, HandshakeKeeps, Reads
  <2>2. main \in Before /\ main # "setup" /\ main' \in Before \cup {"ended"}
    BY <1>1 DEF Handshake, HandleVersion, HandleScheme, HandleReason, HandleChallenge,
                HandleResult, HandleInit, GivesUp, Before
  <2>3. verdict' \in {verdict, "refused", "strange", "password"}
    BY <1>1 DEF Handshake, HandleVersion, HandleScheme, HandleReason, HandleChallenge,
                HandleResult, HandleInit, GivesUp, HandshakeKeeps
  <2>4. si' \in [w : 0..v_xsize, h : 0..v_ysize]
    <3>1. CASE HandleInit
      <4>1. wire = <<rfbServerInitMsg(server.size)>> /\ si' = Head(wire).data
        BY <3>1 DEF HandleInit, Next_, Opening
      <4>2. Head(wire) = rfbServerInitMsg(server.size)
        BY <4>1
      <4>3. si' = server.size
        BY <4>1, <4>2 DEF rfbServerInitMsg, Item
      <4> QED
        BY <4>3, ScreenAssumption DEF Typed, Sizes
    <3>2. CASE ~ HandleInit
      BY <1>1, <3>2 DEF Handshake, HandleVersion, HandleScheme, HandleReason, HandleChallenge,
                        HandleResult, Typed
    <3> QED
      BY <3>1, <3>2
  <2>5. UNCHANGED <<synced, shown, keyboard, palette, v_scale, serverScaleFactor>>
    BY <2>1 DEF Set, Drawing
  <2> QED
    BY <2>1, <2>2, <2>3, <2>4, <2>5 DEF Typed, Before, Looping
<1>2. CASE Setup
  <2>1. keyboard' \in [area : {overlays_init.area}, visible : BOOLEAN]
    BY <1>2 DEF Setup, toggle_keyboard, overlays_init, add_overlay
  <2>2. synced' \subseteq VPixels /\ shown' \subseteq PPixels
    BY <1>2 DEF Setup, fbvnc_init, redraw_phys_all
  <2> QED
    BY <1>2, <2>1, <2>2 DEF Setup, Typed, Before, Looping, Set
<1>3. CASE HandleColourMap \/ HandleOther
  BY <1>3 DEF HandleColourMap, HandleOther, MessageKeeps, Reads, Typed, Set, Drawing
<1>4. CASE HandleUpdate
  <2>1. Head(wire).data \in 1..MaxRects
    BY <1>4, ServedMessage DEF HandleUpdate, Next_
  <2>2. left' = Head(wire).data /\ main' = "rects"
    BY <1>4, <2>1 DEF HandleUpdate
  <2> QED
    BY <1>4, <2>1, <2>2, ViewerAssumption
       DEF HandleUpdate, MessageKeeps, Reads, Typed, Set, Drawing, Looping
<1>5. CASE HandleReSize
  <2>1. Head(wire).data \in Sizes
    BY <1>5, ServedMessage DEF HandleReSize, Next_
  <2>2. si' \in [w : 0..v_xsize, h : 0..v_ysize]
    BY <1>5, <2>1, ScreenAssumption DEF HandleReSize, Sizes
  <2>3. synced' \subseteq VPixels /\ shown' \subseteq PPixels
    BY <1>5, <1>0 DEF HandleReSize, Blank, Typed
  <2> QED
    BY <1>5, <2>2, <2>3 DEF HandleReSize, MessageKeeps, Reads, Typed, Set
<1>6. CASE HandleRect
  <2>1. UNCHANGED <<si, keyboard, palette, server, v_scale, serverScaleFactor>>
    BY <1>6 DEF HandleRect, MessageKeeps, Set
  <2> DEFINE r == Head(wire).data.area
             enc == Head(wire).data.enc
             data == Tail(wire)
  <2>2. main = "rects" /\ wire # << >> /\ left \in 1..MaxRects
    BY <1>6 DEF HandleRect, Next_, Typed
  <2>3. r \in Rectangles /\ Within(r, si.w, si.h)
    BY <2>2, ServedRect
  <2>4. CASE /\ GivesUp(Blame(enc)) /\ ~ GoodRect(r, enc, data)
             /\ UNCHANGED <<left, synced, shown>>
    <3>1. enc = "strange"
      BY <2>2, <2>4, ServedRect DEF GoodRect, Encodings
    <3>2. main' = "ended" /\ verdict' = "strange"
      BY <2>4, <3>1 DEF GivesUp, Blame
    <3> QED
      BY <2>1, <2>4, <3>2 DEF Typed
  <2>5. CASE RectDone /\ UNCHANGED <<synced, shown, verdict>>
    <3>1. left' \in 0..MaxRects /\ main' \in Looping /\ (left' > 0 <=> main' = "rects")
      BY <2>2, <2>5, ViewerAssumption DEF RectDone, Looping
    <3> QED
      BY <2>1, <2>5, <3>1 DEF Typed
  <2>6. CASE /\ RectDone /\ UNCHANGED verdict
             /\ synced' = Painted(enc, r, Head(data).data)
             /\ shown' = Redrawn(shown, Pixels(r), redraw_virt(r, v_scale), v_scale, keyboard)
             /\ GoodRect(r, enc, data) /\ r.w * r.h > 0
    <3>1. left' \in 0..MaxRects /\ main' \in Looping /\ (left' > 0 <=> main' = "rects")
      BY <2>2, <2>6, ViewerAssumption DEF RectDone, Looping
    <3>2. shown' \subseteq PPixels
      BY <2>6, <1>0
    <3>3. Pixels(r) \subseteq VPixels
      BY <2>3, PixelsWithin DEF Typed
    <3>4. enc \in Encodings
      BY <2>6 DEF GoodRect, Encodings
    <3>5. synced' \subseteq VPixels
      BY <2>6, <3>3, <3>4 DEF Typed, Painted, Put, Copy, Encodings
    <3> QED
      BY <2>1, <2>6, <3>1, <3>2, <3>5 DEF Typed
  <2> QED
    BY <1>6, <2>4, <2>5, <2>6 DEF HandleRect
<1>7. CASE ReadsNonsense
  <2>1. wire # << >> /\ Head(wire).kind \notin Expected[main] /\ main \in Reading
    BY <1>7 DEF ReadsNonsense
  <2>2. Head(wire).kind = "strange"
    <3>1. CASE main = "loop"
      BY <2>1, <3>1, ServedMessage DEF Expected
    <3>2. CASE main = "rects"
      BY <2>1, <3>2, ServedRect DEF Expected
    <3>3. CASE main = "version"
      <4>1. PICK v \in Versions : wire = <<rfbProtocolVersionMsg(v)>>
        BY <3>3 DEF Opening
      <4> QED
        BY <2>1, <3>3, <4>1 DEF Expected, rfbProtocolVersionMsg, Item
    <3>4. CASE main = "scheme"
      <4>1. PICK s \in Schemes, v \in Versions : wire = Offer(s, v)
        BY <2>1, <3>4 DEF Opening
      <4>2. Head(wire) = rfbAuthentication(s, v)
        BY <4>1 DEF Offer
      <4> QED
        BY <2>1, <3>4, <4>2 DEF Expected, rfbAuthentication, Item
    <3>5. CASE main = "reason"
      BY <2>1, <3>5 DEF Opening, Expected, rfbConnFailedReason, Item
    <3>6. CASE main = "challenge"
      BY <2>1, <3>6 DEF Opening, Expected, rfbVncAuthChallenge, Item
    <3>7. CASE main = "result"
      <4>1. PICK result \in rfbVncAuthResults : wire = <<Item("result", result)>>
        BY <2>1, <3>7 DEF Opening
      <4> QED
        BY <2>1, <3>7, <4>1 DEF Expected, Item
    <3>8. CASE main = "init"
      BY <2>1, <3>8 DEF Opening, Expected, rfbServerInitMsg, Item
    <3> QED
      BY <2>1, <3>1, <3>2, <3>3, <3>4, <3>5, <3>6, <3>7, <3>8 DEF Reading
  <2>3. main' = "ended" /\ verdict' = "strange"
    BY <1>7, <2>2 DEF ReadsNonsense, GivesUp, Blame
  <2> QED
    BY <1>7, <2>3 DEF ReadsNonsense, Reads, Typed, Set, Drawing
<1>8. CASE ReadFails \/ WriteFails \/ Quit
  BY <1>8 DEF ReadFails, WriteFails, Quit, GivesUp, Typed, Set, Drawing
<1>9. CASE Tick \/ TimePasses
  BY <1>9 DEF Tick, TimePasses, Typed, Set, Drawing
<1>10. CASE OpenMenu
  BY <1>10 DEF OpenMenu, Blank, Typed, Set, Looping
<1>11. CASE CloseMenu
  <2>1. synced' \subseteq VPixels /\ shown' \subseteq PPixels
    BY <1>11, <1>0 DEF CloseMenu, Blank, Typed
  <2> QED
    BY <1>11, <2>1 DEF CloseMenu, Typed, Set, Looping
<1>12. CASE Server
  <2>1. UNCHANGED client
    BY <1>12 DEF Server, ServerScheme, ServerResult, ServerInit, ServerSettings, ServerAnswers,
                 ServerScales_, ServerTells, ServerUpdates, ServerRect, ServerCloses, ServerKeeps
  <2> DEFINE Servers == [size : Sizes, phase : Phases, open : BOOLEAN, rects : 0..MaxRects,
                         drawn : Nat, resize : BOOLEAN]
  <2>2. server \in Servers
    BY DEF Typed
  <2>3. server' \in Servers
    <3>1. ASSUME NEW p \in Phases, server' = [server EXCEPT !.phase = p] PROVE server' \in Servers
      BY <2>2, <3>1
    <3>2. CASE ServerScheme
      <4> PICK s \in Schemes :
            server' = [server EXCEPT !.phase = CASE s = "vnc" -> "auth"
                                                 [] s = "none" -> "init"
                                                 [] OTHER -> "refused"]
        BY <3>2 DEF ServerScheme
      <4> DEFINE p == CASE s = "vnc" -> "auth" [] s = "none" -> "init" [] OTHER -> "refused"
      <4>1. p \in Phases
        BY DEF Phases
      <4> HIDE DEF p
      <4>2. server' = [server EXCEPT !.phase = p]
        BY DEF p
      <4> QED
        BY <3>1, <4>1, <4>2
    <3>3. CASE ServerResult
      BY <2>2, <3>3 DEF ServerResult, Phases
    <3>4. CASE ServerInit
      BY <2>2, <3>4 DEF ServerInit, Phases
    <3>5. CASE ServerSettings
      BY <2>2, <3>5 DEF ServerSettings, Phases
    <3>6. CASE ServerAnswers \/ ServerTells
      BY <2>2, <3>6 DEF ServerAnswers, ServerTells
    <3>7. CASE ServerScales_
      BY <2>2, <3>7, ScaledSizes DEF ServerScales_
    <3>8. CASE ServerUpdates
      <4> PICK n \in 1..MaxRects :
            server' = [server EXCEPT !.rects = n, !.drawn = server.drawn + n]
        BY <3>8 DEF ServerUpdates
      <4>1. n \in 0..MaxRects /\ server.drawn + n \in Nat
        BY <2>2, ViewerAssumption
      <4> QED
        BY <2>2, <4>1
    <3>9. CASE ServerRect
      <4>1. server.rects - 1 \in 0..MaxRects
        BY <2>2, <3>9, ViewerAssumption DEF ServerRect
      <4> QED
        BY <2>2, <3>9, <4>1 DEF ServerRect
    <3>10. CASE ServerCloses
      BY <2>2, <3>10 DEF ServerCloses
    <3> QED
      BY <1>12, <3>2, <3>3, <3>4, <3>5, <3>6, <3>7, <3>8, <3>9, <3>10 DEF Server
  <2> HIDE DEF Servers
  <2> QED
    BY <2>1, <2>3 DEF client, Typed, Servers
<1> QED
  BY <1>1, <1>2, <1>3, <1>4, <1>5, <1>6, <1>7, <1>8, <1>9, <1>10, <1>11, <1>12
     DEF Next, Client, Message

--------------------------------------------------------------------------------
(***************************************************************************)
(* The handshake.                                                          *)
(***************************************************************************)
\* Short sequences.
LEMMA OneOrTwo ==
  ASSUME NEW a, NEW b
  PROVE  /\ <<a>> \o <<b>> = <<a, b>> /\ <<a>> \o << >> = <<a>>
         /\ << >> \o <<a, b>> = <<a, b>> /\ << >> \o <<a>> = <<a>>
         /\ Head(<<a, b>>) = a /\ Tail(<<a, b>>) = <<b>> /\ <<a, b>> # << >>
         /\ Head(<<a>>) = a /\ Tail(<<a>>) = << >> /\ <<a>> # << >>
<1> DEFINE S == {a, b}
<1>1. << >> \in Seq(S) /\ <<a>> \in Seq(S) /\ <<b>> \in Seq(S) /\ <<a, b>> \in Seq(S)
  OBVIOUS
<1>2. <<a>> \o <<b>> = <<a, b>>
  <2> DEFINE s == <<a>> \o <<b>>
             t == <<a, b>>
  <2>1. s \in Seq(S) /\ Len(s) = 2 /\ s[1] = a /\ s[2] = b
    BY <1>1
  <2>2. t \in Seq(S) /\ Len(t) = 2 /\ t[1] = a /\ t[2] = b
    BY <1>1
  <2> HIDE DEF s, t, S
  <2>3. s = t
    BY <2>1, <2>2, SeqEqual
  <2> QED
    BY <2>3 DEF s, t
<1>3. <<a>> \o << >> = <<a>> /\ << >> \o <<a>> = <<a>> /\ << >> \o <<a, b>> = <<a, b>>
  BY <1>1
<1>4. Head(<<a, b>>) = a /\ <<a, b>> # << >> /\ Head(<<a>>) = a /\ <<a>> # << >>
  BY <1>1
<1>5. Tail(<<a>>) = << >>
  BY <1>1
<1>6. Tail(<<a, b>>) = <<b>>
  BY <1>1
<1> QED
  BY <1>2, <1>3, <1>4, <1>5, <1>6

\* What the server says of the scheme comes in one piece.
LEMMA OfferIs ==
  ASSUME NEW s, NEW v
  PROVE  /\ s = "failed" => Offer(s, v) = <<rfbAuthentication(s, v), rfbConnFailedReason>>
         /\ s = "vnc" => Offer(s, v) = <<rfbAuthentication(s, v), rfbVncAuthChallenge>>
         /\ s \notin {"failed", "vnc"} => Offer(s, v) = <<rfbAuthentication(s, v)>>
<1>1. CASE s = "failed"
  BY <1>1, OneOrTwo DEF Offer
<1>2. CASE s = "vnc"
  BY <1>2, OneOrTwo DEF Offer
<1>3. CASE s \notin {"failed", "vnc"}
  <2>1. Offer(s, v) = <<rfbAuthentication(s, v)>> \o << >>
    BY <1>3 DEF Offer
  <2> QED
    BY <1>3, <2>1, OneOrTwo
<1> QED
  BY <1>1, <1>2, <1>3

\* The client reads the scheme, and what is left is what it expects next.
LEMMA OfferRead ==
  ASSUME NEW s, NEW v
  PROVE  /\ Offer(s, v) # << >> /\ Head(Offer(s, v)) = rfbAuthentication(s, v)
         /\ s = "failed" => Tail(Offer(s, v)) = <<rfbConnFailedReason>>
         /\ s = "vnc" => Tail(Offer(s, v)) = <<rfbVncAuthChallenge>>
         /\ s \notin {"failed", "vnc"} => Tail(Offer(s, v)) = << >>
<1>0. PICK a : a = rfbAuthentication(s, v)
  OBVIOUS
<1>1. CASE s = "failed"
  <2> PICK b : b = rfbConnFailedReason
    OBVIOUS
  <2>1. Offer(s, v) = <<a, b>>
    BY <1>0, <1>1, OfferIs
  <2>2. <<a, b>> # << >> /\ Head(<<a, b>>) = a /\ Tail(<<a, b>>) = <<b>>
    BY OneOrTwo
  <2> QED
    BY <1>0, <1>1, <2>1, <2>2
<1>2. CASE s = "vnc"
  <2> PICK b : b = rfbVncAuthChallenge
    OBVIOUS
  <2>1. Offer(s, v) = <<a, b>>
    BY <1>0, <1>2, OfferIs
  <2>2. <<a, b>> # << >> /\ Head(<<a, b>>) = a /\ Tail(<<a, b>>) = <<b>>
    BY OneOrTwo
  <2> QED
    BY <1>0, <1>2, <2>1, <2>2
<1>3. CASE s \notin {"failed", "vnc"}
  <2>1. Offer(s, v) = <<a>>
    BY <1>0, <1>3, OfferIs
  <2> QED
    BY <1>0, <1>3, <2>1, OneOrTwo
<1> QED
  BY <1>1, <1>2, <1>3

\* Each of the two waits for what the other says next, up to the set-up.
LEMMA StepOpening ==
  ASSUME IInv, Next
  PROVE  Opening'
<1> USE DEF IInv
<1>1. CASE main' \notin Before
  BY <1>1 DEF Opening, Before
<1>2. CASE main' \in Before /\ main \notin Before
  <2>1. ~ Handshake /\ ~ Setup
    BY <1>2 DEF Before, Handshake, Setup, HandleVersion, HandleScheme, HandleReason,
                HandleChallenge, HandleResult, HandleInit
  <2>2. ~ Message
    BY <1>2 DEF Before, Message, HandleColourMap, HandleOther, HandleUpdate, HandleReSize,
                HandleRect, RectDone, GivesUp
  <2>3. ~ ReadsNonsense /\ ~ ReadFails /\ ~ WriteFails /\ ~ Quit /\ ~ Tick /\ ~ TimePasses
    BY <1>2 DEF Before, ReadsNonsense, ReadFails, WriteFails, Quit, GivesUp, Tick, TimePasses
  <2>4. ~ OpenMenu /\ ~ CloseMenu
    BY <1>2 DEF Before, OpenMenu, CloseMenu
  <2>5. Server => main' = main
    BY DEF Server, ServerScheme, ServerResult, ServerInit, ServerSettings, ServerAnswers,
           ServerScales_, ServerTells, ServerUpdates, ServerRect, ServerCloses, ServerKeeps,
           client
  <2> QED
    BY <1>2, <2>1, <2>2, <2>3, <2>4, <2>5 DEF Next, Client
<1>3. CASE main' \in Before /\ main \in Before /\ Handshake
  <2>1. server.rects = 0 /\ UNCHANGED server /\ wire # << >> /\ wire' = Tail(wire)
    BY <1>3 DEF Opening, Handshake, HandleVersion, HandleScheme, HandleReason,
                HandleChallenge, HandleResult, HandleInit, Next_, Reads
  <2>2. CASE HandleVersion
    <3>1. main = "version" /\ main' = "scheme"
          /\ asked' \in {asked, asked \o <<rfbProtocolVersionMsg(Head(wire).data)>>}
      BY <1>3, <2>2 DEF HandleVersion, Tell, GivesUp, Before
    <3> PICK v \in Versions : wire = <<rfbProtocolVersionMsg(v)>>
      BY <3>1 DEF Opening
    <3>2. wire' = << >> /\ Head(wire).data = v
      BY <2>1 DEF rfbProtocolVersionMsg, Item
    <3>3. asked' = << >> \/ asked' = <<rfbProtocolVersionMsg(v)>>
      BY <3>1, <3>2 DEF Opening
    <3> QED
      BY <2>1, <3>1, <3>2, <3>3 DEF Opening, Before
  <2>3. CASE HandleScheme
    <3>1. main = "scheme"
      BY <2>3 DEF HandleScheme
    <3> PICK s \in Schemes, v \in Versions :
          /\ wire = Offer(s, v)
          /\ server.phase = CASE s = "vnc" -> "auth" [] s = "none" -> "init" [] OTHER -> "refused"
      BY <2>1, <3>1 DEF Opening
    <3>2. asked = << >>
      BY <2>1, <3>1 DEF Opening
    <3>3. Head(wire).data = [scheme |-> s, version |-> v]
      BY OfferRead DEF rfbAuthentication, Item
    <3>4. CASE s = "failed"
      <4>1. main' = "reason" /\ asked' = << >> /\ wire' = <<rfbConnFailedReason>>
        BY <2>1, <2>3, <3>2, <3>3, <3>4, OfferRead DEF HandleScheme
      <4>2. server'.phase = "refused"
        BY <2>1, <3>4
      <4> QED
        BY <2>1, <4>1, <4>2 DEF Opening
    <3>5. CASE s = "none"
      <4>1. main' = "init" /\ wire' = << >> /\ asked' \in {asked, asked \o <<rfbClientInitMsg>>}
        BY <2>1, <2>3, <3>3, <3>5, OfferRead DEF HandleScheme, Tell
      <4>2. server'.phase = "init"
        BY <2>1, <3>5
      <4>3. asked' = << >> \/ asked' = <<rfbClientInitMsg>>
        BY <3>2, <4>1
      <4> QED
        BY <2>1, <4>1, <4>2, <4>3 DEF Opening
    <3>6. CASE s = "vnc"
      <4>1. main' = "challenge" /\ asked' = << >> /\ wire' = <<rfbVncAuthChallenge>>
        BY <1>3, <2>1, <2>3, <3>2, <3>3, <3>6, OfferRead DEF HandleScheme, GivesUp, Before
      <4>2. server'.phase = "auth"
        BY <2>1, <3>6
      <4> QED
        BY <2>1, <4>1, <4>2 DEF Opening
    <3>7. CASE s \notin {"failed", "none", "vnc"}
      <4>1. main' = "ended"
        BY <2>3, <3>3, <3>7 DEF HandleScheme, GivesUp
      <4> QED
        BY <1>3, <4>1 DEF Before
    <3> QED
      BY <3>4, <3>5, <3>6, <3>7
  <2>4. CASE HandleReason
    BY <1>3, <2>4 DEF HandleReason, GivesUp, Before
  <2>5. CASE HandleChallenge
    <3>1. main = "challenge" /\ main' = "result"
          /\ asked' \in {asked, asked \o <<Item("response", 0)>>}
      BY <1>3, <2>5 DEF HandleChallenge, Tell, GivesUp, Before
    <3>2. wire' = << >> /\ asked = << >> /\ server.phase = "auth"
      BY <2>1, <3>1 DEF Opening
    <3>3. asked' = << >> \/ asked' = <<Item("response", 0)>>
      BY <3>1, <3>2
    <3> QED
      BY <2>1, <3>1, <3>2, <3>3 DEF Opening
  <2>6. CASE HandleResult
    <3>1. main = "result" /\ main' = "init" /\ Head(wire).data = "ok"
          /\ asked' \in {asked, asked \o <<rfbClientInitMsg>>}
      BY <1>3, <2>6 DEF HandleResult, Tell, GivesUp, Before
    <3> PICK result \in rfbVncAuthResults :
          /\ wire = <<Item("result", result)>>
          /\ server.phase = IF result = "ok" THEN "init" ELSE "refused"
      BY <2>1, <3>1 DEF Opening
    <3>2. wire' = << >> /\ asked = << >> /\ server.phase = "init"
      BY <2>1, <3>1 DEF Opening, Item
    <3>3. asked' = << >> \/ asked' = <<rfbClientInitMsg>>
      BY <3>1, <3>2
    <3> QED
      BY <2>1, <3>1, <3>2, <3>3 DEF Opening
  <2>7. CASE HandleInit
    <3>1. main = "init" /\ main' = "setup" /\ UNCHANGED asked /\ si' = Head(wire).data
      BY <2>7 DEF HandleInit
    <3>2. wire = <<rfbServerInitMsg(server.size)>> /\ server.phase = "format" /\ asked = << >>
      BY <2>1, <3>1 DEF Opening
    <3>3. wire' = << >> /\ si' = server.size
      BY <2>1, <3>1, <3>2 DEF rfbServerInitMsg, Item
    <3> QED
      BY <2>1, <3>1, <3>2, <3>3 DEF Opening
  <2> QED
    BY <1>3, <2>2, <2>3, <2>4, <2>5, <2>6, <2>7 DEF Handshake
<1>4. CASE main' \in Before /\ main \in Before /\ Server
  <2>1. UNCHANGED client
    BY <1>4 DEF Server, ServerScheme, ServerResult, ServerInit, ServerSettings, ServerAnswers,
                ServerScales_, ServerTells, ServerUpdates, ServerRect, ServerCloses, ServerKeeps
  <2>2. UNCHANGED <<main, si, left>>
    BY <2>1 DEF client
  <2>3. server.rects = 0 /\ server \in [size : Sizes, phase : Phases, open : BOOLEAN,
                                        rects : 0..MaxRects, drawn : Nat, resize : BOOLEAN]
    BY <1>4 DEF Opening, Typed
  <2>4. CASE ServerScheme
    <3>1. server.phase = "version" /\ asked # << >> /\ asked' = Tail(asked)
          /\ Head(asked).kind = "version"
      BY <2>4 DEF ServerScheme, Hears
    <3>2. main = "scheme" /\ wire = << >>
      BY <1>4, <3>1 DEF Opening, Before
    <3> PICK v \in Versions : asked = <<rfbProtocolVersionMsg(v)>>
      BY <3>1, <3>2 DEF Opening
    <3>3. asked' = << >> /\ Head(asked).data = v
      BY <3>1 DEF rfbProtocolVersionMsg, Item
    <3> PICK s \in Schemes :
          /\ wire' = wire \o (<<rfbAuthentication(s, Head(asked).data)>> \o
                              CASE s = "failed" -> <<rfbConnFailedReason>>
                                [] s = "vnc" -> <<rfbVncAuthChallenge>>
                                [] OTHER -> << >>)
          /\ server' = [server EXCEPT !.phase = CASE s = "vnc" -> "auth"
                                                  [] s = "none" -> "init"
                                                  [] OTHER -> "refused"]
      BY <2>4 DEF ServerScheme, Says
    <3>4. wire' = wire \o Offer(s, v)
      BY <3>3 DEF Offer
    <3>5. wire' = Offer(s, v)
      <4>1. << >> \o Offer(s, v) = Offer(s, v)
        BY OfferIs, OneOrTwo
      <4> QED
        BY <3>2, <3>4, <4>1
    <3> DEFINE p == CASE s = "vnc" -> "auth" [] s = "none" -> "init" [] OTHER -> "refused"
    <3>6. server' = [server EXCEPT !.phase = p]
      OBVIOUS
    <3>7. server'.phase = p /\ server'.rects = 0
      <4> HIDE DEF p
      <4> QED
        BY <2>3, <3>6
    <3> QED
      BY <2>2, <3>2, <3>3, <3>5, <3>7 DEF Opening
  <2>5. CASE ServerResult
    <3>1. server.phase = "auth" /\ asked # << >> /\ asked' = Tail(asked)
          /\ Head(asked).kind = "response"
      BY <2>5 DEF ServerResult, Hears
    <3>2. main = "result" /\ wire = << >> /\ asked = <<Item("response", 0)>>
      BY <1>4, <3>1 DEF Opening, Before
    <3> PICK result \in rfbVncAuthResults :
          /\ wire' = wire \o <<Item("result", result)>>
          /\ server' = [server EXCEPT !.phase = IF result = "ok" THEN "init" ELSE "refused"]
      BY <2>5 DEF ServerResult, Says
    <3>3. wire' = <<Item("result", result)>> /\ asked' = << >>
      BY <3>1, <3>2
    <3>4. server'.phase = (IF result = "ok" THEN "init" ELSE "refused") /\ server'.rects = 0
      BY <2>3
    <3> QED
      BY <2>2, <3>2, <3>3, <3>4 DEF Opening
  <2>6. CASE ServerInit
    <3>1. server.phase = "init" /\ asked # << >> /\ asked' = Tail(asked)
          /\ Head(asked).kind = "clientinit" /\ wire' = wire \o <<rfbServerInitMsg(server.size)>>
          /\ server' = [server EXCEPT !.phase = "format"]
      BY <2>6 DEF ServerInit, Hears, Says
    <3>2. main = "init" /\ wire = << >> /\ asked = <<rfbClientInitMsg>>
      BY <1>4, <3>1 DEF Opening, Before
    <3>3. wire' = <<rfbServerInitMsg(server.size)>> /\ asked' = << >>
      BY <3>1, <3>2
    <3>4. server'.phase = "format" /\ server'.rects = 0 /\ server'.size = server.size
      BY <2>3, <3>1
    <3> QED
      BY <2>2, <3>2, <3>3, <3>4 DEF Opening
  <2>7. CASE ServerSettings
    <3>1. asked # << >> /\ Head(asked).kind \in {"format", "encodings", "scale", "pointer"}
      BY <2>7 DEF ServerSettings, Hears
    <3> QED
      BY <1>4, <3>1 DEF Opening, Before, rfbProtocolVersionMsg, rfbClientInitMsg, Item
  <2>8. CASE ServerAnswers \/ ServerScales_ \/ ServerTells \/ ServerUpdates
    <3>1. server.phase = "serving"
      BY <2>8 DEF ServerAnswers, ServerScales_, ServerTells, ServerUpdates, Idle
    <3> QED
      BY <1>4, <3>1 DEF Opening, Before
  <2>9. CASE ServerRect
    BY <2>3, <2>9 DEF ServerRect
  <2>10. CASE ServerCloses
    <3>1. UNCHANGED <<wire, asked>> /\ server'.phase = server.phase
          /\ server'.rects = server.rects /\ server'.size = server.size
      BY <2>3, <2>10 DEF ServerCloses
    <3> QED
      BY <2>2, <3>1 DEF Opening, Before
  <2> QED
    BY <1>4, <2>4, <2>5, <2>6, <2>7, <2>8, <2>9, <2>10 DEF Server
<1>5. CASE main' \in Before /\ main \in Before /\ ~ Handshake /\ ~ Server
  <2>1. ~ Setup /\ ~ Message
    BY <1>5 DEF Before, Setup, Message, HandleColourMap, HandleOther, HandleUpdate,
                HandleReSize, HandleRect
  <2>2. ~ ReadsNonsense /\ ~ ReadFails /\ ~ WriteFails /\ ~ Quit
    BY <1>5 DEF Before, ReadsNonsense, ReadFails, WriteFails, Quit, GivesUp
  <2>3. ~ Tick /\ ~ TimePasses /\ ~ OpenMenu /\ ~ CloseMenu
    BY <1>5 DEF Before, Tick, TimePasses, OpenMenu, CloseMenu
  <2> QED
    BY <1>5, <2>1, <2>2, <2>3 DEF Next, Client
<1> QED
  BY <1>1, <1>2, <1>3, <1>4, <1>5

--------------------------------------------------------------------------------
(***************************************************************************)
(* The messages.                                                           *)
(***************************************************************************)
LEMMA Parses ==
  ASSUME NEW n \in 0..MaxRects, NEW size \in Sizes, NEW enc \in Encodings \cup {"none"},
         NEW r \in Rectangles
  PROVE  /\ [left |-> n, size |-> size, enc |-> enc, area |-> r] \in Parse
         /\ ReaderAt(n, size) \in Parse /\ Nowhere \in Rectangles
<1>1. Nowhere \in Rectangles
  BY DEF Nowhere, Rect, Rectangles
<1> QED
  BY <1>1 DEF Parse, ReaderAt, Encodings

\* The server sends a message that is not an update.
LEMMA SaysPlain ==
  ASSUME NEW w \in Seq(Items), NEW from, NEW size \in Sizes, NEW kind,
         kind \in {"colourmap", "bell", "cuttext", "strange"},
         Tracks(w, from, ReaderAt(0, size))
  PROVE  /\ w \o <<Item(kind, 0)>> \in Seq(Items)
         /\ Tracks(w \o <<Item(kind, 0)>>, from, ReaderAt(0, size))
<1>1. Item(kind, 0) \in Items
  BY DEF Item, Items, rfbServerToClient
<1>2. ReaderAt(0, size) \in Parse
  BY Parses, ViewerAssumption, <1>1 DEF Nowhere, Rect, Rectangles, ReaderAt, Parse
<1>3. Accepts(ReaderAt(0, size), Item(kind, 0), ReaderAt(0, size))
  BY DEF Accepts, AcceptsMessage, Item, ReaderAt
<1> QED
  BY <1>1, <1>2, <1>3, TracksOne

\* A new size, when no update is under way.
LEMMA SaysReSize ==
  ASSUME NEW w \in Seq(Items), NEW from, NEW size \in Sizes, NEW new \in Sizes,
         Tracks(w, from, ReaderAt(0, size))
  PROVE  /\ w \o <<rfbReSizeFrameBufferMsg(new)>> \in Seq(Items)
         /\ Tracks(w \o <<rfbReSizeFrameBufferMsg(new)>>, from, ReaderAt(0, new))
<1> DEFINE m == rfbReSizeFrameBufferMsg(new)
<1>1. m \in Items
  BY DEF rfbReSizeFrameBufferMsg, Item, Items, rfbServerToClient
<1>2. ReaderAt(0, new) \in Parse
  BY ViewerAssumption DEF Nowhere, Rect, Rectangles, ReaderAt, Parse
<1>3. Accepts(ReaderAt(0, size), m, ReaderAt(0, new))
  BY DEF Accepts, AcceptsMessage, rfbReSizeFrameBufferMsg, Item, ReaderAt
<1> HIDE DEF m
<1>4. w \o <<m>> \in Seq(Items) /\ Tracks(w \o <<m>>, from, ReaderAt(0, new))
  BY <1>1, <1>2, <1>3, TracksOne
<1> QED
  BY <1>4 DEF m

\* The header of an update.
LEMMA SaysUpdate ==
  ASSUME NEW w \in Seq(Items), NEW from, NEW size \in Sizes, NEW n \in 1..MaxRects,
         Tracks(w, from, ReaderAt(0, size))
  PROVE  /\ w \o <<rfbFramebufferUpdateMsg(n)>> \in Seq(Items)
         /\ Tracks(w \o <<rfbFramebufferUpdateMsg(n)>>, from, ReaderAt(n, size))
<1> DEFINE m == rfbFramebufferUpdateMsg(n)
<1>1. m \in Items
  BY DEF rfbFramebufferUpdateMsg, Item, Items, rfbServerToClient
<1>2. ReaderAt(n, size) \in Parse
  BY ViewerAssumption DEF Nowhere, Rect, Rectangles, ReaderAt, Parse
<1>3. Accepts(ReaderAt(0, size), m, ReaderAt(n, size))
  BY DEF Accepts, AcceptsMessage, rfbFramebufferUpdateMsg, Item, ReaderAt
<1> HIDE DEF m
<1>4. w \o <<m>> \in Seq(Items) /\ Tracks(w \o <<m>>, from, ReaderAt(n, size))
  BY <1>1, <1>2, <1>3, TracksOne
<1> QED
  BY <1>4 DEF m

\* A rectangle that comes without data.
LEMMA SaysHeader ==
  ASSUME NEW w \in Seq(Items), NEW from, NEW size \in Sizes, NEW n \in 1..MaxRects,
         NEW r \in Rectangles, Within(r, size.w, size.h), NEW enc,
         \/ enc = "strange" /\ r.w * r.h > 0
         \/ enc = "raw" /\ r.w * r.h = 0,
         Tracks(w, from, ReaderAt(n, size))
  PROVE  /\ w \o <<rfbFramebufferUpdateRectHeader(r, enc)>> \in Seq(Items)
         /\ Tracks(w \o <<rfbFramebufferUpdateRectHeader(r, enc)>>, from, ReaderAt(n - 1, size))
<1> DEFINE m == rfbFramebufferUpdateRectHeader(r, enc)
<1>0. m.kind = "rect" /\ m.data = [area |-> r, enc |-> enc] /\ m.data \in Headers
  BY DEF rfbFramebufferUpdateRectHeader, Item, Headers, Encodings
<1>1. m \in Items
  BY <1>0 DEF rfbFramebufferUpdateRectHeader, Item, Items
<1>2. ReaderAt(n - 1, size) \in Parse
  BY ViewerAssumption DEF Nowhere, Rect, Rectangles, ReaderAt, Parse
<1> HIDE DEF m
<1>3. AcceptsRect(ReaderAt(n, size), m, ReaderAt(n - 1, size))
  BY <1>0, ViewerAssumption DEF AcceptsRect, ReaderAt, Encodings
<1>4. w \o <<m>> \in Seq(Items) /\ Tracks(w \o <<m>>, from, ReaderAt(n - 1, size))
  BY <1>1, <1>2, <1>3, TracksOne DEF Accepts
<1> QED
  BY <1>4 DEF m

\* What reading a header and its data makes of the state.
LEMMA HeaderAndData ==
  ASSUME NEW size \in Sizes, NEW n \in 1..MaxRects,
         NEW r \in Rectangles, Within(r, size.w, size.h), r.w * r.h > 0,
         NEW enc \in Encodings,
         NEW m, m = rfbFramebufferUpdateRectHeader(r, enc),
         NEW d, d.kind = enc, d \in [kind : Encodings, data : Rectangles],
         enc = "copy" => /\ Within(d.data, size.w, size.h)
                         /\ d.data.w = r.w /\ d.data.h = r.h,
         NEW mid, mid = [left |-> n, size |-> size, enc |-> enc, area |-> r]
  PROVE  /\ m \in Items /\ d \in Items /\ mid \in Parse /\ ReaderAt(n - 1, size) \in Parse
         /\ Accepts(ReaderAt(n, size), m, mid) /\ Accepts(mid, d, ReaderAt(n - 1, size))
<1>0. m.kind = "rect" /\ m.data = [area |-> r, enc |-> enc] /\ m.data \in Headers
  BY DEF rfbFramebufferUpdateRectHeader, Item, Headers, Encodings
<1>1. m \in Items
  BY <1>0 DEF rfbFramebufferUpdateRectHeader, Item, Items
<1>2. d \in Items
  BY DEF Items
<1>3. ReaderAt(n - 1, size) \in Parse /\ mid \in Parse
  BY ViewerAssumption DEF Nowhere, Rect, Rectangles, ReaderAt, Parse
<1>4. AcceptsRect(ReaderAt(n, size), m, mid)
  <2> DEFINE s == ReaderAt(n, size)
  <2>1. s.left = n /\ s.size = size /\ s.enc = "none" /\ n > 0
    BY ViewerAssumption DEF ReaderAt
  <2>2. mid = [left |-> s.left, size |-> s.size, enc |-> enc, area |-> r]
    BY <2>1
  <2>3. m.data.area = r /\ m.data.enc = enc
    BY <1>0
  <2> HIDE DEF s
  <2>4. /\ m.data.enc \in Encodings /\ m.data.area.w * m.data.area.h > 0
        /\ mid = [left |-> s.left, size |-> s.size, enc |-> m.data.enc, area |-> m.data.area]
    BY <2>2, <2>3
  <2>5. Within(m.data.area, s.size.w, s.size.h)
    BY <2>1, <2>3
  <2>6. AcceptsRect(s, m, mid)
    BY <1>0, <2>1, <2>4, <2>5, Zenon DEF AcceptsRect
  <2> QED
    BY <2>6 DEF s
<1>5. AcceptsData(mid, d, ReaderAt(n - 1, size))
  <2>1. mid.left = n /\ mid.size = size /\ mid.enc = enc /\ mid.area = r /\ n > 0
    BY ViewerAssumption
  <2>2. ReaderAt(n - 1, size) = ReaderAt(mid.left - 1, mid.size)
    BY <2>1
  <2>3. enc # "none" /\ d.data \in Rectangles
    BY DEF Encodings
  <2> QED
    BY <2>1, <2>2, <2>3 DEF AcceptsData
<1> QED
  BY <1>1, <1>2, <1>3, <1>4, <1>5 DEF Accepts

\* A rectangle with its data.
LEMMA SaysRect ==
  ASSUME NEW w \in Seq(Items), NEW from, NEW size \in Sizes, NEW n \in 1..MaxRects,
         NEW r \in Rectangles, Within(r, size.w, size.h), r.w * r.h > 0,
         NEW enc \in Encodings,
         NEW d, d.kind = enc, d \in [kind : Encodings, data : Rectangles],
         enc = "copy" => /\ Within(d.data, size.w, size.h)
                         /\ d.data.w = r.w /\ d.data.h = r.h,
         Tracks(w, from, ReaderAt(n, size))
  PROVE  /\ w \o <<rfbFramebufferUpdateRectHeader(r, enc), d>> \in Seq(Items)
         /\ Tracks(w \o <<rfbFramebufferUpdateRectHeader(r, enc), d>>, from, ReaderAt(n - 1, size))
<1> DEFINE m == rfbFramebufferUpdateRectHeader(r, enc)
           mid == [left |-> n, size |-> size, enc |-> enc, area |-> r]
<1>1. /\ m \in Items /\ d \in Items /\ mid \in Parse /\ ReaderAt(n - 1, size) \in Parse
      /\ Accepts(ReaderAt(n, size), m, mid) /\ Accepts(mid, d, ReaderAt(n - 1, size))
  BY HeaderAndData
<1> HIDE DEF m, mid
<1>2. w \o <<m, d>> \in Seq(Items) /\ Tracks(w \o <<m, d>>, from, ReaderAt(n - 1, size))
  BY <1>1, TracksTwo
<1> QED
  BY <1>2 DEF m

\* The answer to a request.
LEMMA SaysAnswer ==
  ASSUME NEW w \in Seq(Items), NEW from, NEW size \in Sizes,
         NEW r \in Rectangles, Within(r, size.w, size.h), r.w * r.h > 0,
         Tracks(w, from, ReaderAt(0, size)),
         NEW answer,
         answer = <<rfbFramebufferUpdateMsg(1), rfbFramebufferUpdateRectHeader(r, "raw"),
                    rfbRaw(r)>>
  PROVE  w \o answer \in Seq(Items) /\ Tracks(w \o answer, from, ReaderAt(0, size))
<1> DEFINE u == rfbFramebufferUpdateMsg(1)
           m == rfbFramebufferUpdateRectHeader(r, "raw")
           d == rfbRaw(r)
           mid == [left |-> 1, size |-> size, enc |-> "raw", area |-> r]
<1>1. u \in Items
  BY DEF rfbFramebufferUpdateMsg, Item, Items, rfbServerToClient
<1>2. 1 \in 1..MaxRects
  BY ViewerAssumption
<1>3. Accepts(ReaderAt(0, size), u, ReaderAt(1, size)) /\ ReaderAt(1, size) \in Parse
  BY <1>2 DEF Accepts, AcceptsMessage, rfbFramebufferUpdateMsg, Item, ReaderAt, Parse, Nowhere,
              Rect, Rectangles
<1>4. d.kind = "raw" /\ d \in [kind : Encodings, data : Rectangles]
  BY DEF rfbRaw, Item, Encodings
<1>5. 1 - 1 = 0 /\ "raw" \in Encodings /\ "raw" # "copy"
  BY DEF Encodings
<1>6. mid = [left |-> 1, size |-> size, enc |-> "raw", area |-> r]
      /\ m = rfbFramebufferUpdateRectHeader(r, "raw")
  OBVIOUS
<1> HIDE DEF u, m, d, mid
<1>7. /\ m \in Items /\ d \in Items /\ mid \in Parse /\ ReaderAt(1 - 1, size) \in Parse
      /\ Accepts(ReaderAt(1, size), m, mid) /\ Accepts(mid, d, ReaderAt(1 - 1, size))
  BY <1>2, <1>4, <1>5, <1>6, HeaderAndData
<1>8. w \o <<u, m, d>> \in Seq(Items) /\ Tracks(w \o <<u, m, d>>, from, ReaderAt(0, size))
  BY <1>1, <1>3, <1>5, <1>7, TracksThree
<1>9. answer = <<u, m, d>>
  BY DEF u, m, d
<1> QED
  BY <1>8, <1>9

--------------------------------------------------------------------------------
(***************************************************************************)
(* Once the client is let in.                                              *)
(***************************************************************************)
LEMMA Asks ==
  ASSUME NEW r \in Corner, asked \in Seq(Questions),
         Tell(SendFramebufferUpdateRequest(r))
  PROVE  asked' \in Seq(Questions)
<1>1. rfbFramebufferUpdateRequestMsg(r) \in Questions
  BY DEF rfbFramebufferUpdateRequestMsg, Item, Questions
<1> QED
  BY <1>1 DEF Tell, SendFramebufferUpdateRequest

\* What the client asks for lies at the corner.
LEMMA AsksScreenful == Screenful \in Corner
BY ScreenAssumption, ViewerAssumption DEF Screenful, Rect, Corner, Rectangles

\* All of the picture does.
LEMMA AsksWhole ==
  ASSUME NEW size \in Sizes
  PROVE  Whole(size) \in Corner
BY ScreenAssumption DEF Whole, Rect, Corner, Rectangles, Sizes

\* The client reads and writes.
LEMMA ClientServing ==
  ASSUME IInv, Client \/ TimePasses \/ OpenMenu \/ CloseMenu \/ Quit, main' \in Looping
  PROVE  Serving'
<1> USE DEF IInv
<1>1. CASE Setup
  <2>1. /\ main = "setup" /\ main' = "loop"
        /\ UNCHANGED <<si, left, wire, server>>
    BY <1>1 DEF Setup
  <2>2. /\ server.phase = "format" /\ wire = << >> /\ asked = << >> /\ si = server.size
        /\ server.rects = 0 /\ left = 0 /\ server.size \in Sizes
    BY <2>1, ViewerAssumption DEF Opening, Typed, Before
  <2>3. ReaderAt(0, si) \in Parse
    BY <2>2, Parses, ViewerAssumption DEF Parse, ReaderAt, Nowhere, Rect, Rectangles
  <2>4. Reader' = ReaderAt(0, si) /\ Writer' = ReaderAt(0, si)
    BY <2>1, <2>2 DEF Reader, Writer
  <2>5. wire' \in Seq(Items) /\ Tracks(wire', Reader', Writer')
    BY <2>1, <2>2, <2>3, <2>4, TracksEmpty
  <2>6. asked' \in Seq(Questions)
    <3> DEFINE f == rfbSetPixelFormatMsg
               e == rfbSetEncodingsMsg
               s == rfbSetScaleFactorMsg
               q == rfbFramebufferUpdateRequestMsg(Rect(0, 0, 1, 1))
               w == rfbFramebufferUpdateRequestMsg(Whole(si))
               p == rfbPointerEventMsg
    <3>1. f \in Questions /\ e \in Questions /\ s \in Questions /\ p \in Questions
      BY DEF Questions, rfbSetPixelFormatMsg, rfbSetEncodingsMsg, rfbSetScaleFactorMsg,
             rfbPointerEventMsg, Item
    <3>2. q \in Questions /\ w \in Questions
      <4>1. Rect(0, 0, 1, 1) \in Corner
        BY DEF Rect, Corner, Rectangles
      <4>2. Whole(si) \in Corner
        BY <2>2, AsksWhole
      <4> QED
        BY <4>1, <4>2 DEF Questions, rfbFramebufferUpdateRequestMsg, Item
    <3>3. asked' \in {asked, asked \o (<<f, e>> \o (<<s>> \o <<q>>) \o <<p>>),
                      asked \o (<<f, e>> \o <<w>> \o <<p>>)}
      BY <1>1 DEF Setup, Tell, SetFormatAndEncodings, SetScaleFactor,
                  SendFramebufferUpdateRequest, scaledPointerEvent
    <3> HIDE DEF f, e, s, q, w, p
    <3>5. asked = << >>
      BY <2>2
    <3>4. << >> \in Seq(Questions) /\ <<f, e>> \in Seq(Questions) /\ <<s>> \in Seq(Questions)
          /\ <<q>> \in Seq(Questions) /\ <<w>> \in Seq(Questions) /\ <<p>> \in Seq(Questions)
      BY <3>1, <3>2
    <3>6. << >> \o (<<f, e>> \o (<<s>> \o <<q>>) \o <<p>>) \in Seq(Questions)
      BY <3>4, ConcatProperties
    <3>7. << >> \o (<<f, e>> \o <<w>> \o <<p>>) \in Seq(Questions)
      BY <3>4, ConcatProperties
    <3> QED
      BY <3>3, <3>4, <3>5, <3>6, <3>7
  <2> QED
    BY <2>1, <2>2, <2>5, <2>6 DEF Serving, Looping
<1>2. CASE HandleColourMap \/ HandleOther
  <2>1. /\ main = "loop" /\ wire # << >> /\ wire' = Tail(wire) /\ main' = main
        /\ UNCHANGED <<si, left, asked, server>> /\ Head(wire).kind \notin {"update", "resize"}
    BY <1>2 DEF HandleColourMap, HandleOther, Next_, Reads
  <2>2. Tail(wire) \in Seq(Items) /\ Tracks(Tail(wire), Reader, Writer)
    BY <2>1, ServedMessage
  <2> QED
    BY <2>1, <2>2 DEF Serving, Reader, Writer, Looping
<1>3. CASE HandleUpdate
  <2>1. /\ main = "loop" /\ wire # << >> /\ wire' = Tail(wire) /\ left' = Head(wire).data
        /\ UNCHANGED <<si, asked, server>> /\ Head(wire).kind = "update"
    BY <1>3 DEF HandleUpdate, Next_, Reads
  <2>2. Tail(wire) \in Seq(Items) /\ Tracks(Tail(wire), ReaderAt(left', si), Writer)
    BY <2>1, ServedMessage
  <2> QED
    BY <2>1, <2>2 DEF Serving, Reader, Writer, Looping
<1>4. CASE HandleReSize
  <2>1. /\ main = "loop" /\ wire # << >> /\ wire' = Tail(wire) /\ si' = Head(wire).data
        /\ UNCHANGED <<left, server>> /\ Head(wire).kind = "resize"
        /\ Tell(SendFramebufferUpdateRequest(Whole(Head(wire).data)))
    BY <1>4 DEF HandleReSize, Next_, Reads
  <2>2. /\ Tail(wire) \in Seq(Items) /\ Tracks(Tail(wire), ReaderAt(left, si'), Writer)
        /\ Head(wire).data \in Sizes
    BY <2>1, ServedMessage
  <2>3. asked' \in Seq(Questions)
    BY <2>1, <2>2, Asks, AsksWhole DEF Serving, Looping
  <2> QED
    BY <2>1, <2>2, <2>3 DEF Serving, Reader, Writer, Looping
<1>5. CASE HandleRect
  <2>1. main = "rects" /\ wire # << >> /\ UNCHANGED <<si, asked, server>>
    BY <1>5 DEF HandleRect, Next_
  <2> DEFINE r == Head(wire).data.area
             enc == Head(wire).data.enc
             data == Tail(wire)
  <2>2. \/ /\ r.w * r.h = 0 /\ wire' = data
        \/ /\ r.w * r.h > 0 /\ wire' = Tail(data) /\ GoodRect(r, enc, data)
    BY <1>5, Zenon DEF HandleRect, GivesUp, Looping
  <2>3. left' = left - 1
    BY <1>5, Zenon DEF HandleRect, GivesUp, Looping, RectDone
  <2>4. r \in Rectangles /\ r.w * r.h \in Nat
    BY <2>1, ServedRect DEF Rectangles
  <2>5. wire' \in Seq(Items) /\ Tracks(wire', ReaderAt(left', si), Writer)
    <3>1. CASE r.w * r.h = 0 /\ wire' = data
      BY <2>1, <2>3, <2>4, <3>1, ServedRect
    <3>2. CASE r.w * r.h > 0 /\ wire' = Tail(data) /\ GoodRect(r, enc, data)
      <4>1. enc # "strange"
        BY <3>2 DEF GoodRect
      <4> QED
        BY <2>1, <2>3, <2>4, <3>2, <4>1, ServedRect
    <3> QED
      BY <2>2, <3>1, <3>2
  <2> QED
    BY <2>1, <2>5 DEF Serving, Reader, Writer, Looping
<1>6. CASE Tick \/ TimePasses
  BY <1>6 DEF Tick, TimePasses, Serving, Reader, Writer
<1>7. CASE OpenMenu
  BY <1>7 DEF OpenMenu, Serving, Reader, Writer, Looping
<1>8. CASE CloseMenu
  <2>1. /\ main = "menu" /\ UNCHANGED <<si, left, wire, server>>
        /\ Tell(SendFramebufferUpdateRequest(Screenful))
    BY <1>8 DEF CloseMenu
  <2>2. asked' \in Seq(Questions)
    BY <2>1, Asks, AsksScreenful DEF Serving, Looping
  <2> QED
    BY <2>1, <2>2 DEF Serving, Reader, Writer, Looping
<1>9. ~ ReadsNonsense /\ ~ ReadFails /\ ~ WriteFails /\ ~ Quit
  BY DEF ReadsNonsense, ReadFails, WriteFails, Quit, GivesUp, Looping
<1>10. ~ Handshake
  BY DEF Handshake, HandleVersion, HandleScheme, HandleReason, HandleChallenge, HandleResult,
         HandleInit, GivesUp, Looping
<1> QED
  BY <1>1, <1>2, <1>3, <1>4, <1>5, <1>6, <1>7, <1>8, <1>9, <1>10 DEF Client, Message

\* A part of the picture is not empty if what was asked for is not.
LEMMA AnswerFits ==
  ASSUME NEW r \in Corner, NEW size \in Sizes,
         NEW c, c = Clipped(r, size.w, size.h)
  PROVE  /\ c \in Rectangles /\ Within(c, size.w, size.h) /\ c.w * c.h > 0
         /\ c.x = 0 /\ c.y = 0
         /\ c.w = (IF r.w > size.w THEN size.w ELSE r.w)
         /\ c.h = (IF r.h > size.h THEN size.h ELSE r.h)
<1> USE ScreenAssumption
<1>1. /\ r \in [x : Nat, y : Nat, w : Nat, h : Nat] /\ r.x = 0 /\ r.y = 0 /\ r.w > 0 /\ r.h > 0
      /\ size.w \in Nat \ {0} /\ size.h \in Nat \ {0}
  BY DEF Corner, Rectangles, Sizes
<1>2. /\ c \in [x : Nat, y : Nat, w : Nat, h : Nat] /\ c.x = 0 /\ c.y = 0
      /\ c.w = (IF r.w > size.w THEN size.w ELSE r.w)
      /\ c.h = (IF r.h > size.h THEN size.h ELSE r.h)
  <2> DEFINE nw == IF r.x + r.w > size.w THEN size.w - r.x ELSE r.w
             nh == IF r.y + r.h > size.h THEN size.h - r.y ELSE r.h
  <2>1. c = [r EXCEPT !.w = nw, !.h = nh]
    BY DEF Clipped
  <2>2. /\ nw \in Nat /\ nw = IF r.w > size.w THEN size.w ELSE r.w
        /\ nh \in Nat /\ nh = IF r.h > size.h THEN size.h ELSE r.h
    BY <1>1
  <2> HIDE DEF nw, nh
  <2>3. /\ c \in [x : Nat, y : Nat, w : Nat, h : Nat]
        /\ c.x = r.x /\ c.y = r.y /\ c.w = nw /\ c.h = nh
    BY <1>1, <2>1, <2>2
  <2> QED
    BY <1>1, <2>2, <2>3
<1>3. c.w \in Nat \ {0} /\ c.h \in Nat \ {0} /\ c.w <= size.w /\ c.h <= size.h
  BY <1>1, <1>2
<1>4. c.w * c.h > 0
  <2>1. \A a, b \in Nat \ {0} : a * b > 0
    OBVIOUS
  <2> QED
    BY <1>3, <2>1
<1> QED
  BY <1>2, <1>3, <1>4 DEF Rectangles, Within

\* The server speaks and listens.
LEMMA ServerServing ==
  ASSUME IInv, Server, main' \in Looping
  PROVE  Serving'
<1> USE DEF IInv
<1>1. UNCHANGED client
  BY DEF Server, ServerScheme, ServerResult, ServerInit, ServerSettings, ServerAnswers,
         ServerScales_, ServerTells, ServerUpdates, ServerRect, ServerCloses, ServerKeeps
<1>2. main' = main /\ Reader' = Reader
  BY <1>1 DEF client, Reader
<1>3. /\ server.phase \in {"format", "serving"}
      /\ server.phase = "format" => wire = << >> /\ server.rects = 0
      /\ wire \in Seq(Items) /\ Tracks(wire, Reader, Writer) /\ asked \in Seq(Questions)
  BY <1>2 DEF Serving
<1>4. server \in [size : Sizes, phase : Phases, open : BOOLEAN, rects : 0..MaxRects,
                  drawn : Nat, resize : BOOLEAN]
  BY DEF Typed
<1>5. ~ ServerScheme /\ ~ ServerResult /\ ~ ServerInit
  BY <1>3 DEF ServerScheme, ServerResult, ServerInit
<1>6. CASE ServerSettings
  <2>1. /\ wire' = wire /\ asked' = Tail(asked) /\ asked # << >>
        /\ server' \in {server, [server EXCEPT !.phase = "serving"], [server EXCEPT !.resize = TRUE]}
    BY <1>6 DEF ServerSettings, Hears
  <2>2. /\ server'.phase \in {server.phase, "serving"}
        /\ server'.rects = server.rects /\ server'.size = server.size
    BY <1>4, <2>1
  <2> QED
    BY <1>2, <1>3, <2>1, <2>2 DEF Serving, Writer
<1>7. CASE ServerAnswers
  <2>1. /\ server.phase = "serving" /\ server.rects = 0 /\ server' = server
        /\ asked # << >> /\ asked' = Tail(asked) /\ Head(asked).kind = "request"
    BY <1>7 DEF ServerAnswers, Idle, Hears
  <2> PICK c : c = Clipped(Head(asked).data, server.size.w, server.size.h)
    OBVIOUS
  <2>2. wire' = wire \o <<rfbFramebufferUpdateMsg(1), rfbFramebufferUpdateRectHeader(c, "raw"),
                          rfbRaw(c)>>
    BY <1>7 DEF ServerAnswers, Says
  <2>3. Head(asked).data \in Corner
    <3>1. Head(asked) \in Questions
      BY <1>3, <2>1
    <3> QED
      BY <2>1, <3>1 DEF Questions
  <2>4. c \in Rectangles /\ Within(c, server.size.w, server.size.h) /\ c.w * c.h > 0
    BY <1>4, <2>3, AnswerFits
  <2>5. Tracks(wire, Reader, ReaderAt(0, server.size)) /\ server.size \in Sizes
    BY <1>3, <1>4, <2>1 DEF Writer
  <2>6. wire' \in Seq(Items) /\ Tracks(wire', Reader, ReaderAt(0, server.size))
    BY <1>3, <2>2, <2>4, <2>5, SaysAnswer
  <2> QED
    BY <1>2, <1>3, <2>1, <2>6 DEF Serving, Writer
<1>8. CASE ServerScales_
  <2>1. /\ server.phase = "serving" /\ server.rects = 0
        /\ wire' = wire \o <<rfbReSizeFrameBufferMsg(Scaled(server.size))>>
        /\ server' = [server EXCEPT !.size = Scaled(@), !.resize = FALSE]
        /\ asked' = asked
    BY <1>8 DEF ServerScales_, Idle, Says
  <2>2. Scaled(server.size) \in Sizes /\ server.size \in Sizes
    BY <1>4, ScaledSizes
  <2>3. /\ server'.phase = "serving" /\ server'.rects = 0
        /\ server'.size = Scaled(server.size)
    BY <1>4, <2>1
  <2>4. Tracks(wire, Reader, ReaderAt(0, server.size))
    BY <1>3, <2>1 DEF Writer
  <2>5. wire' \in Seq(Items) /\ Tracks(wire', Reader, ReaderAt(0, Scaled(server.size)))
    BY <1>3, <2>1, <2>2, <2>4, SaysReSize
  <2> QED
    BY <1>2, <1>3, <2>1, <2>3, <2>5 DEF Serving, Writer
<1>9. CASE ServerTells
  <2>1. /\ server.phase = "serving" /\ server.rects = 0 /\ server' = server /\ asked' = asked
    BY <1>9 DEF ServerTells, Idle
  <2>2. PICK kind \in {"colourmap", "bell", "cuttext", "strange"} :
          wire' = wire \o <<Item(kind, 0)>>
    BY <1>9 DEF ServerTells, Says, rfbSetColourMapEntriesMsg, rfbBellMsg, rfbServerCutTextMsg
  <2>3. Tracks(wire, Reader, ReaderAt(0, server.size)) /\ server.size \in Sizes
    BY <1>3, <1>4, <2>1 DEF Writer
  <2>4. wire' \in Seq(Items) /\ Tracks(wire', Reader, ReaderAt(0, server.size))
    BY <1>3, <2>2, <2>3, SaysPlain
  <2> QED
    BY <1>2, <1>3, <2>1, <2>4 DEF Serving, Writer
<1>10. CASE ServerUpdates
  <2>1. server.phase = "serving" /\ server.rects = 0 /\ asked' = asked
    BY <1>10 DEF ServerUpdates, Idle
  <2>2. PICK n \in 1..MaxRects :
          /\ wire' = wire \o <<rfbFramebufferUpdateMsg(n)>>
          /\ server' = [server EXCEPT !.rects = n, !.drawn = server.drawn + n]
    BY <1>10 DEF ServerUpdates, Says
  <2>3. server'.phase = "serving" /\ server'.rects = n /\ server'.size = server.size
    BY <1>4, <2>1, <2>2
  <2>4. Tracks(wire, Reader, ReaderAt(0, server.size)) /\ server.size \in Sizes
    BY <1>3, <1>4, <2>1 DEF Writer
  <2>5. wire' \in Seq(Items) /\ Tracks(wire', Reader, ReaderAt(n, server.size))
    BY <1>3, <2>2, <2>4, SaysUpdate
  <2> QED
    BY <1>2, <1>3, <2>1, <2>3, <2>5 DEF Serving, Writer
<1>11. CASE ServerRect
  <2> DEFINE n == server.rects
             size == server.size
  <2>1. n > 0 /\ asked' = asked /\ server' = [server EXCEPT !.rects = @ - 1]
    BY <1>11 DEF ServerRect
  <2>2. n \in 1..MaxRects /\ size \in Sizes /\ Tracks(wire, Reader, ReaderAt(n, size))
    BY <1>3, <1>4, <2>1, ViewerAssumption DEF Writer
  <2>3. server'.phase = server.phase /\ server'.rects = n - 1 /\ server'.size = size
        /\ server.phase = "serving"
    BY <1>3, <1>4, <2>1
  <2>4. PICK r \in Areas[v_scale] :
          /\ Within(r, server.size.w, server.size.h)
          /\ \/ /\ r.w * r.h = 0
                /\ Says(<<rfbFramebufferUpdateRectHeader(r, "raw")>>)
             \/ /\ r.w * r.h > 0
                /\ \E data \in {rfbRaw(r), rfbRREHeader(r)} :
                     Says(<<rfbFramebufferUpdateRectHeader(r, data.kind), data>>)
             \/ /\ r.w * r.h > 0
                /\ Says(<<rfbFramebufferUpdateRectHeader(r, "strange")>>)
             \/ /\ r.w * r.h > 0
                /\ \E from \in {a \in Areas[v_scale] : a.w = r.w /\ a.h = r.h} :
                     /\ Within(from, server.size.w, server.size.h)
                     /\ Says(<<rfbFramebufferUpdateRectHeader(r, "copy"), rfbCopyRect(from)>>)
    BY <1>11 DEF ServerRect
  <2>5. \A a \in Areas[v_scale] : a \in Rectangles
    BY ViewerAssumption DEF Typed
  <2>6. r \in Rectangles
    BY <2>4, <2>5
  <2> DEFINE Good == wire' \in Seq(Items) /\ Tracks(wire', Reader, ReaderAt(n - 1, size))
  <2>7. CASE r.w * r.h = 0 /\ Says(<<rfbFramebufferUpdateRectHeader(r, "raw")>>)
    <3>1. wire' = wire \o <<rfbFramebufferUpdateRectHeader(r, "raw")>>
      BY <2>7 DEF Says
    <3>2. Good
      BY <1>3, <2>2, <2>4, <2>6, <2>7, <3>1, SaysHeader
    <3> QED
      BY <1>2, <1>3, <2>1, <2>3, <3>2 DEF Serving, Writer
  <2>8. CASE r.w * r.h > 0 /\ Says(<<rfbFramebufferUpdateRectHeader(r, "strange")>>)
    <3>1. wire' = wire \o <<rfbFramebufferUpdateRectHeader(r, "strange")>>
      BY <2>8 DEF Says
    <3>2. Good
      BY <1>3, <2>2, <2>4, <2>6, <2>8, <3>1, SaysHeader
    <3> QED
      BY <1>2, <1>3, <2>1, <2>3, <3>2 DEF Serving, Writer
  <2>9. ASSUME NEW d, NEW enc \in Encodings, d.kind = enc,
               d \in [kind : Encodings, data : Rectangles], r.w * r.h > 0,
               enc = "copy" => /\ Within(d.data, size.w, size.h)
                               /\ d.data.w = r.w /\ d.data.h = r.h,
               Says(<<rfbFramebufferUpdateRectHeader(r, enc), d>>)
        PROVE  Serving'
    <3>1. wire' = wire \o <<rfbFramebufferUpdateRectHeader(r, enc), d>>
      BY <2>9 DEF Says
    <3>2. Good
      BY <1>3, <2>2, <2>4, <2>6, <2>9, <3>1, SaysRect
    <3> QED
      BY <1>2, <1>3, <2>1, <2>3, <3>2 DEF Serving, Writer
  <2>10. CASE /\ r.w * r.h > 0
              /\ \E data \in {rfbRaw(r), rfbRREHeader(r)} :
                   Says(<<rfbFramebufferUpdateRectHeader(r, data.kind), data>>)
    <3> PICK d \in {rfbRaw(r), rfbRREHeader(r)} :
          Says(<<rfbFramebufferUpdateRectHeader(r, d.kind), d>>)
      BY <2>10
    <3>1. d.kind \in Encodings /\ d.kind # "copy" /\ d \in [kind : Encodings, data : Rectangles]
      BY <2>6 DEF rfbRaw, rfbRREHeader, Item, Encodings
    <3> QED
      BY <2>9, <2>10, <3>1
  <2>11. CASE /\ r.w * r.h > 0
              /\ \E from \in {a \in Areas[v_scale] : a.w = r.w /\ a.h = r.h} :
                   /\ Within(from, server.size.w, server.size.h)
                   /\ Says(<<rfbFramebufferUpdateRectHeader(r, "copy"), rfbCopyRect(from)>>)
    <3> PICK from \in Areas[v_scale] :
          /\ from.w = r.w /\ from.h = r.h /\ Within(from, server.size.w, server.size.h)
          /\ Says(<<rfbFramebufferUpdateRectHeader(r, "copy"), rfbCopyRect(from)>>)
      BY <2>11
    <3> PICK d : d = rfbCopyRect(from)
      OBVIOUS
    <3>1. d.kind = "copy" /\ d.data = from /\ d \in [kind : Encodings, data : Rectangles]
      BY <2>5 DEF rfbCopyRect, Item, Encodings
    <3>2. "copy" \in Encodings /\ Says(<<rfbFramebufferUpdateRectHeader(r, "copy"), d>>)
      BY DEF Encodings
    <3> QED
      BY <2>9, <2>11, <3>1, <3>2
  <2> QED
    BY <2>4, <2>7, <2>8, <2>10, <2>11
<1>12. CASE ServerCloses
  <2>1. UNCHANGED <<wire, asked>> /\ server'.phase = server.phase
        /\ server'.rects = server.rects /\ server'.size = server.size
    BY <1>4, <1>12 DEF ServerCloses
  <2> QED
    BY <1>2, <1>3, <2>1 DEF Serving, Writer
<1> QED
  BY <1>5, <1>6, <1>7, <1>8, <1>9, <1>10, <1>11, <1>12 DEF Server

--------------------------------------------------------------------------------
(***************************************************************************)
(* The theorems.                                                           *)
(***************************************************************************)
\* The invariant holds at first.
LEMMA InitIInv == Init => IInv
<1> SUFFICES ASSUME Init PROVE IInv
  OBVIOUS
<1>1. Typed
  BY ScreenAssumption, ViewerAssumption
     DEF Init, Typed, Before, Looping, overlays_init, add_overlay, Phases, Full, Sizes
<1>2. Ticking
  BY DEF Init, Ticking, Looping, list_new
<1>3. Opening
  BY DEF Init, Opening, Before
<1>4. Serving
  BY DEF Init, Serving, Looping
<1> QED
  BY <1>1, <1>2, <1>3, <1>4 DEF IInv

\* The invariant is kept by every step.
LEMMA StepIInv == IInv /\ [Next]_vars => IInv'
<1> SUFFICES ASSUME IInv, [Next]_vars PROVE IInv'
  OBVIOUS
<1>1. CASE Next
  <2>1. Serving'
    <3>1. CASE main' \in Looping
      BY <1>1, <3>1, ClientServing, ServerServing DEF Next
    <3>2. CASE main' \notin Looping
      BY <3>2 DEF Serving
    <3> QED
      BY <3>1, <3>2
  <2> QED
    BY <1>1, <2>1, StepTyped, StepTicking, StepOpening DEF IInv
<1>2. CASE UNCHANGED vars
  BY <1>2 DEF IInv, Typed, Ticking, Opening, Serving, Reader, Writer, vars, client
<1> QED
  BY <1>1, <1>2

\* The inductive invariant, from which the other theorems follow.
THEOREM Invariance == Spec => []IInv
BY InitIInv, StepIInv, PTL DEF Spec

\* TypeOK of Viewer is an invariant.
THEOREM TypeCorrect == Spec => []TypeOK
<1>1. IInv => TypeOK
  <2> SUFFICES ASSUME IInv PROVE TypeOK
    OBVIOUS
  <2>1. main \in Reading \cup {"setup", "menu", "ended"}
    BY DEF IInv, Typed, Before, Looping, Reading
  <2>2. sched \in Seq([event : {"tick"}, due : 0..1])
    <3>1. CASE sched = << >>
      BY <3>1
    <3>2. CASE OneTickDue(sched)
      <4> PICK d \in 0..1 : sched = <<[event |-> "tick", due |-> d]>>
        BY <3>2 DEF OneTickDue
      <4>1. [event |-> "tick", due |-> d] \in [event : {"tick"}, due : 0..1]
        OBVIOUS
      <4> QED
        BY <4>1
    <3> QED
      BY <3>1, <3>2 DEF IInv, Ticking
  <2>3. si.w \in 0..v_xsize /\ si.h \in 0..v_ysize
    BY DEF IInv, Typed
  <2> QED
    BY <2>1, <2>2, <2>3 DEF IInv, Typed, TypeOK
<1> QED
  BY <1>1, Invariance, PTL

\* The client never takes one thing for another, and goes on only when the server
\* has let it in (InStep).
THEOREM StaysInStep == Spec => []InStep
<1>1. IInv => InStep
  <2> SUFFICES ASSUME IInv PROVE InStep
    OBVIOUS
  <2>1. verdict # "nonsense"
    BY DEF IInv, Typed
  <2>2. main = "init" => server.phase \in {"init", "format"}
    BY DEF IInv, Opening
  <2>3. main \in {"setup", "loop", "rects", "menu"} => server.phase \in {"format", "serving"}
    BY DEF IInv, Opening, Serving, Looping
  <2> QED
    BY <2>1, <2>2, <2>3 DEF InStep
<1> QED
  BY <1>1, Invariance, PTL

\* The clock never stops and is never doubled (OneTick).
THEOREM KeepsTicking == Spec => []OneTick
<1>1. IInv => OneTick
  <2> SUFFICES ASSUME IInv, main \in Looping
               PROVE  Cardinality({i \in DOMAIN sched : sched[i].event = "tick"}) = 1
    BY DEF OneTick, Looping
  <2>1. PICK d \in 0..1 : sched = <<[event |-> "tick", due |-> d]>>
    BY DEF IInv, Ticking, OneTickDue
  <2>2. {i \in DOMAIN sched : sched[i].event = "tick"} = {1}
    BY <2>1
  <2> QED
    BY <2>2, FS_Singleton
<1> QED
  BY <1>1, Invariance, PTL
================================================================================
