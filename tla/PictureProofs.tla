------------------------------ MODULE PictureProofs ------------------------------
(***************************************************************************)
(* What the client makes of the messages it stays in step with: the screen *)
(* shows what is in v_buf, and v_buf is what the server draws.             *)
(***************************************************************************)
EXTENDS ViewerProofs

\* The scales for which nothing is left behind: those whose pixels are mixed of the
\* virtual pixels they stand for, of a picture they divide.
RightScales ==
  /\ Scales \subseteq {1, 3} /\ MenuScales \subseteq {1}
  /\ 3 \in Scales => v_xsize % 3 = 0 /\ v_ysize % 3 = 0

NoKeyboard == main \in Looping => keyboard.visible = FALSE

AllShown ==
  /\ main \in {"loop", "rects"} => shown = PPixels
  /\ main = "menu" => v_scale = 1

\* The keyboard is hidden before the loop, and nothing brings it back.
LEMMA StepNoKeyboard ==
  ASSUME IInv, NoKeyboard, Next
  PROVE  NoKeyboard'
<1>1. CASE Setup
  BY <1>1 DEF Setup, toggle_keyboard, overlays_init, add_overlay, NoKeyboard
<1>2. CASE Handshake
  BY <1>2 DEF Handshake, HandleVersion, HandleScheme, HandleReason, HandleChallenge,
              HandleResult, HandleInit, GivesUp, NoKeyboard, Looping
<1>3. CASE Message
  <2>1. UNCHANGED keyboard /\ main \in Looping
    BY <1>3 DEF Message, HandleColourMap, HandleOther, HandleUpdate, HandleReSize, HandleRect,
                Drawing, Looping
  <2> QED
    BY <2>1 DEF NoKeyboard
<1>4. CASE ReadsNonsense \/ ReadFails \/ WriteFails \/ Quit
  BY <1>4 DEF ReadsNonsense, ReadFails, WriteFails, Quit, GivesUp, NoKeyboard, Looping
<1>5. CASE Tick \/ TimePasses \/ OpenMenu \/ CloseMenu
  BY <1>5 DEF Tick, TimePasses, OpenMenu, CloseMenu, Drawing, NoKeyboard, Looping
<1>6. CASE Server
  <2>1. UNCHANGED client
    BY <1>6 DEF Server, ServerScheme, ServerResult, ServerInit, ServerSettings, ServerAnswers,
                ServerScales_, ServerTells, ServerUpdates, ServerRect, ServerCloses, ServerKeeps
  <2> QED
    BY <2>1 DEF client, NoKeyboard
<1> QED
  BY <1>1, <1>2, <1>3, <1>4, <1>5, <1>6 DEF Next, Client

\* Every rectangle that changes v_buf is redrawn, and what is redrawn is all of it
\* (fbdraw.c:395-474); a menu is left by drawing all of the screen.
LEMMA StepAllShown ==
  ASSUME RightScales, IInv, NoKeyboard, AllShown, Next
  PROVE  AllShown'
<1>0. /\ v_scale \in {1, 3}
      /\ v_scale = 3 => v_xsize % 3 = 0 /\ v_ysize % 3 = 0
  BY DEF RightScales, IInv, Typed
<1>1. ASSUME NEW r \in Rectangles, r.w > 0, r.h > 0, Within(r, v_xsize, v_ysize),
             main \in {"loop", "rects"},
             shown' = Redrawn(shown, Pixels(r), redraw_virt(r, v_scale), v_scale, keyboard),
             main' # "menu"
      PROVE  AllShown'
  <2>1. shown = PPixels /\ keyboard.visible = FALSE
    BY <1>1 DEF AllShown, NoKeyboard, Looping
  <2>2. shown' = PPixels
    BY <1>0, <1>1, <2>1, NothingStale
  <2> QED
    BY <1>1, <2>2 DEF AllShown
<1>2. CASE Setup
  <2>1. keyboard'.visible = FALSE /\ shown' = redraw_phys_all(keyboard')
    BY <1>2 DEF Setup, toggle_keyboard, overlays_init, add_overlay
  <2> QED
    BY <1>2, <2>1 DEF Setup, AllShown, redraw_phys_all, redraw_overlays
<1>3. CASE Handshake
  BY <1>3 DEF Handshake, HandleVersion, HandleScheme, HandleReason, HandleChallenge,
              HandleResult, HandleInit, GivesUp, AllShown
<1>4. CASE HandleColourMap \/ HandleOther \/ HandleUpdate
  BY <1>4 DEF HandleColourMap, HandleOther, HandleUpdate, Drawing, AllShown
<1>5. CASE HandleReSize
  <2> DEFINE size == Head(wire).data
  <2>1. size \in Sizes /\ main = "loop"
    BY <1>5, ServedMessage DEF HandleReSize, Next_
  <2>2. /\ Whole(size) \in Rectangles /\ Whole(size).w > 0 /\ Whole(size).h > 0
        /\ Within(Whole(size), v_xsize, v_ysize)
    BY <2>1, ScreenAssumption DEF Whole, Rect, Rectangles, Within, Sizes
  <2>3. shown' = Redrawn(shown, Pixels(Whole(size)), redraw_virt(Whole(size), v_scale), v_scale,
                         keyboard)
    BY <1>5 DEF HandleReSize
  <2> QED
    BY <1>1, <1>5, <2>1, <2>2, <2>3 DEF HandleReSize
<1>6. CASE HandleRect
  <2> DEFINE r == Head(wire).data.area
             enc == Head(wire).data.enc
  <2>1. main = "rects" /\ wire # << >>
    BY <1>6 DEF HandleRect, Next_
  <2>2. r \in Rectangles /\ Within(r, si.w, si.h)
    BY <2>1, ServedRect
  <2>5. main' # "menu"
    BY <1>6, <2>1 DEF HandleRect, RectDone, GivesUp
  <2>3. CASE shown' = shown
    BY <2>1, <2>3, <2>5 DEF AllShown
  <2>4. CASE /\ r.w * r.h > 0
             /\ shown' = Redrawn(shown, Pixels(r), redraw_virt(r, v_scale), v_scale, keyboard)
    <3>1. r.w > 0 /\ r.h > 0
      <4>1. r.w \in Nat /\ r.h \in Nat
        BY <2>2 DEF Rectangles
      <4>2. \A a, b \in Nat : a * b > 0 => a > 0 /\ b > 0
        OBVIOUS
      <4> QED
        BY <2>4, <4>1, <4>2
    <3>2. Within(r, v_xsize, v_ysize)
      BY <2>2, ScreenAssumption DEF Within, Rectangles, IInv, Typed
    <3> QED
      BY <1>1, <2>1, <2>2, <2>4, <2>5, <3>1, <3>2
  <2> QED
    BY <1>6, <2>3, <2>4 DEF HandleRect
<1>7. CASE ReadsNonsense \/ ReadFails \/ WriteFails \/ Quit
  BY <1>7 DEF ReadsNonsense, ReadFails, WriteFails, Quit, GivesUp, AllShown
<1>8. CASE Tick \/ TimePasses
  BY <1>8 DEF Tick, TimePasses, Drawing, Set, AllShown
<1>9. CASE OpenMenu
  BY <1>9 DEF OpenMenu, AllShown, Set, RightScales
<1>10. CASE CloseMenu
  <2>1. keyboard.visible = FALSE
    BY <1>10 DEF CloseMenu, NoKeyboard, Looping
  <2>2. v_scale = 1 /\ main' = "loop"
        /\ shown' = Redrawn(shown, Pixels(Screenful), redraw_virt(Screenful, v_scale), v_scale,
                            keyboard)
    BY <1>10 DEF CloseMenu, AllShown
  <2>3. p_xsize \in pv_xsize .. v_xsize /\ p_ysize \in pv_ysize .. v_ysize
    BY ViewerAssumption
  <2>4. shown' = PPixels
    BY <2>1, <2>2, <2>3, RedrawnAll DEF Screenful
  <2> QED
    BY <2>2, <2>4 DEF AllShown
<1>11. CASE Server
  <2>1. UNCHANGED client
    BY <1>11 DEF Server, ServerScheme, ServerResult, ServerInit, ServerSettings, ServerAnswers,
                ServerScales_, ServerTells, ServerUpdates, ServerRect, ServerCloses, ServerKeeps
  <2> QED
    BY <2>1 DEF client, AllShown
<1> QED
  BY <1>2, <1>3, <1>4, <1>5, <1>6, <1>7, <1>8, <1>9, <1>10, <1>11 DEF Next, Client, Message

\* The screen shows what is in v_buf, between any two events (Shown), at the scales
\* at which redraw_virt leaves nothing behind.
THEOREM AlwaysShown ==
  ASSUME RightScales
  PROVE  Spec => []Shown
<1>1. Init => IInv /\ NoKeyboard /\ AllShown
  BY InitIInv DEF Init, NoKeyboard, AllShown, Looping
<1>2. IInv /\ NoKeyboard /\ AllShown /\ [Next]_vars => (IInv /\ NoKeyboard /\ AllShown)'
  <2>1. CASE Next
    BY <2>1, StepIInv, StepNoKeyboard, StepAllShown
  <2>2. CASE UNCHANGED vars
    BY <2>2, StepIInv DEF NoKeyboard, AllShown, vars, client
  <2> QED
    BY <2>1, <2>2
<1>3. AllShown => Shown
  BY DEF AllShown, Shown
<1> QED
  BY <1>1, <1>2, <1>3, PTL DEF Spec

--------------------------------------------------------------------------------
(***************************************************************************)
(* Sequences of which some items, or one at most, are in a set.            *)
(***************************************************************************)
Meets(w, S) == \E i \in 1..Len(w) : w[i] \in S

Single(w, S) == \A i, j \in 1..Len(w) : w[i] \in S /\ w[j] \in S => i = j

\* Of the empty sequence.
LEMMA MeetsNothing ==
  ASSUME NEW S
  PROVE  ~ Meets(<< >>, S) /\ Single(<< >>, S)
<1>1. 1..Len(<< >>) = {}
  OBVIOUS
<1> QED
  BY <1>1 DEF Meets, Single

\* Without its head.
LEMMA MeetsTail ==
  ASSUME NEW T, NEW w \in Seq(T), w # << >>, NEW S
  PROVE  /\ Tail(w) \in Seq(T)
         /\ Meets(Tail(w), S) => Meets(w, S)
         /\ Meets(w, S) /\ Head(w) \notin S => Meets(Tail(w), S)
         /\ Single(w, S) => Single(Tail(w), S)
         /\ Single(w, S) /\ Head(w) \in S => ~ Meets(Tail(w), S)
<1> DEFINE n == Len(w)
           t == Tail(w)
<1>1. /\ n \in Nat \ {0} /\ Head(w) = w[1] /\ t \in Seq(T) /\ Len(t) = n - 1
      /\ \A i \in 1..(n - 1) : t[i] = w[i + 1]
  OBVIOUS
<1> HIDE DEF n, t
<1>2. Len(w) = n
  BY DEF n
<1>3. Meets(t, S) => Meets(w, S)
  <2> SUFFICES ASSUME NEW i \in 1..Len(t), t[i] \in S PROVE Meets(w, S)
    BY DEF Meets
  <2>1. i + 1 \in 1..Len(w) /\ w[i + 1] \in S
    BY <1>1, <1>2
  <2> QED
    BY <2>1 DEF Meets
<1>4. Meets(w, S) /\ Head(w) \notin S => Meets(t, S)
  <2> SUFFICES ASSUME NEW i \in 1..Len(w), w[i] \in S, Head(w) \notin S PROVE Meets(t, S)
    BY DEF Meets
  <2>1. i # 1
    BY <1>1
  <2>2. i - 1 \in 1..Len(t) /\ t[i - 1] = w[(i - 1) + 1] /\ (i - 1) + 1 = i
    BY <1>1, <1>2, <2>1
  <2> QED
    BY <2>2 DEF Meets
<1>5. Single(w, S) => Single(t, S)
  <2> SUFFICES ASSUME Single(w, S), NEW i \in 1..Len(t), NEW j \in 1..Len(t), t[i] \in S, t[j] \in S
               PROVE  i = j
    BY DEF Single
  <2>1. i + 1 \in 1..Len(w) /\ j + 1 \in 1..Len(w) /\ w[i + 1] \in S /\ w[j + 1] \in S
    BY <1>1, <1>2
  <2>2. i + 1 = j + 1
    BY <2>1 DEF Single
  <2> QED
    BY <2>2
<1>6. Single(w, S) /\ Head(w) \in S => ~ Meets(t, S)
  <2> SUFFICES ASSUME Single(w, S), Head(w) \in S, NEW i \in 1..Len(t), t[i] \in S PROVE FALSE
    BY DEF Meets
  <2>1. i + 1 \in 1..Len(w) /\ 1 \in 1..Len(w) /\ w[i + 1] \in S /\ w[1] \in S
    BY <1>1, <1>2
  <2>2. i + 1 = 1
    BY <2>1 DEF Single
  <2> QED
    BY <2>2
<1> QED
  BY <1>1, <1>3, <1>4, <1>5, <1>6 DEF t

\* With one more at its end.
LEMMA MeetsOneMore ==
  ASSUME NEW T, NEW w \in Seq(T), NEW a, NEW S
  PROVE  /\ Meets(w, S) => Meets(w \o <<a>>, S)
         /\ a \in S => Meets(w \o <<a>>, S)
         /\ Meets(w \o <<a>>, S) => Meets(w, S) \/ a \in S
         /\ Single(w, S) /\ a \notin S => Single(w \o <<a>>, S)
         /\ ~ Meets(w, S) => Single(w \o <<a>>, S)
<1> DEFINE n == Len(w)
           v == w \o <<a>>
<1>1. n \in Nat /\ Len(v) = n + 1 /\ v[n + 1] = a /\ \A i \in 1..n : v[i] = w[i]
  OBVIOUS
<1> HIDE DEF v
<1>2. Meets(w, S) => Meets(v, S)
  BY <1>1 DEF Meets
<1>3. a \in S => Meets(v, S)
  BY <1>1 DEF Meets
<1>4. Meets(v, S) => Meets(w, S) \/ a \in S
  BY <1>1 DEF Meets
<1>5. Single(w, S) /\ a \notin S => Single(v, S)
  BY <1>1 DEF Single
<1>6. ~ Meets(w, S) => Single(v, S)
  BY <1>1 DEF Single, Meets
<1> QED
  BY <1>2, <1>3, <1>4, <1>5, <1>6 DEF v

\* With two.
LEMMA MeetsTwoMore ==
  ASSUME NEW T, NEW w \in Seq(T), NEW a, NEW b, NEW S
  PROVE  /\ Meets(w, S) => Meets(w \o <<a, b>>, S)
         /\ Meets(w \o <<a, b>>, S) => Meets(w, S) \/ a \in S \/ b \in S
         /\ Single(w, S) /\ a \notin S /\ b \notin S => Single(w \o <<a, b>>, S)
<1> DEFINE n == Len(w)
           v == w \o <<a, b>>
<1>1. n \in Nat /\ Len(v) = n + 2 /\ v[n + 1] = a /\ v[n + 2] = b /\ \A i \in 1..n : v[i] = w[i]
  OBVIOUS
<1> HIDE DEF v
<1>2. Meets(w, S) => Meets(v, S)
  BY <1>1 DEF Meets
<1>3. Meets(v, S) => Meets(w, S) \/ a \in S \/ b \in S
  BY <1>1 DEF Meets
<1>4. Single(w, S) /\ a \notin S /\ b \notin S => Single(v, S)
  BY <1>1 DEF Single
<1> QED
  BY <1>2, <1>3, <1>4 DEF v

\* With three.
LEMMA MeetsThreeMore ==
  ASSUME NEW T, NEW w \in Seq(T), NEW a, NEW b, NEW c, NEW S
  PROVE  /\ Meets(w, S) => Meets(w \o <<a, b, c>>, S)
         /\ b \in S => Meets(w \o <<a, b, c>>, S)
         /\ Meets(w \o <<a, b, c>>, S) => Meets(w, S) \/ a \in S \/ b \in S \/ c \in S
         /\ Single(w, S) /\ a \notin S /\ b \notin S /\ c \notin S => Single(w \o <<a, b, c>>, S)
<1> DEFINE n == Len(w)
           u == w \o <<a, b, c>>
<1>1. /\ n \in Nat /\ Len(u) = n + 3 /\ u[n + 1] = a /\ u[n + 2] = b /\ u[n + 3] = c
      /\ \A i \in 1..n : u[i] = w[i]
  OBVIOUS
<1> HIDE DEF u
<1>2. Meets(w, S) => Meets(u, S)
  BY <1>1 DEF Meets
<1>3. b \in S => Meets(u, S)
  BY <1>1 DEF Meets
<1>4. Meets(u, S) => Meets(w, S) \/ a \in S \/ b \in S \/ c \in S
  BY <1>1 DEF Meets
<1>5. Single(w, S) /\ a \notin S /\ b \notin S /\ c \notin S => Single(u, S)
  BY <1>1 DEF Single
<1> QED
  BY <1>2, <1>3, <1>4, <1>5 DEF u

--------------------------------------------------------------------------------
(***************************************************************************)
(* The size: the server is asked to scale down once, says so once, and     *)
(* until it has the client knows its size.                                 *)
(***************************************************************************)
ScaleQuestions == {q \in Questions : q.kind = "scale"}
Resizes == {i \in Items : i.kind = "resize"}
WrongResizes(size) == {i \in Resizes : i.data # size}

Scaling ==
  /\ main \in Before => server.resize = FALSE
  /\ main \in Looping =>
       /\ Single(asked, ScaleQuestions) /\ Single(wire, Resizes)
       /\ Meets(asked, ScaleQuestions) => server.resize = FALSE /\ ~ Meets(wire, Resizes)
       /\ server.resize = TRUE => ~ Meets(wire, Resizes)
       /\ ~ Meets(wire, Resizes) => si = server.size
       /\ ~ Meets(wire, WrongResizes(server.size))

\* Whatever is read or said but a new size, and asked but to scale, changes nothing.
LEMMA KeepsScaling ==
  ASSUME Scaling, main \in Looping, main' \in Looping, UNCHANGED si,
         server'.resize = server.resize, server'.size = server.size,
         Meets(wire', Resizes) <=> Meets(wire, Resizes),
         Single(wire', Resizes),
         ~ Meets(wire', WrongResizes(server.size)),
         Meets(asked', ScaleQuestions) => Meets(asked, ScaleQuestions),
         Single(asked', ScaleQuestions)
  PROVE  Scaling'
BY DEF Scaling, Before, Looping

\* An item that is no new size is read.
LEMMA ReadsOther ==
  ASSUME NEW w \in Seq(Items), w # << >>, Head(w).kind # "resize", NEW size,
         Single(w, Resizes), ~ Meets(w, WrongResizes(size))
  PROVE  /\ Tail(w) \in Seq(Items)
         /\ Meets(Tail(w), Resizes) <=> Meets(w, Resizes)
         /\ Single(Tail(w), Resizes) /\ ~ Meets(Tail(w), WrongResizes(size))
<1>1. Head(w) \notin Resizes
  BY DEF Resizes
<1> QED
  BY <1>1, MeetsTail

\* The client asks for a scale once, in the set-up, and takes the new size when it
\* reads it.
LEMMA ClientScaling ==
  ASSUME IInv, Scaling, Client \/ TimePasses \/ OpenMenu \/ CloseMenu \/ Quit, main' \in Looping
  PROVE  Scaling'
<1> USE DEF IInv
<1>1. CASE Setup
  <2>1. /\ main = "setup" /\ UNCHANGED <<si, wire, server>>
    BY <1>1 DEF Setup
  <2>2. wire = << >> /\ asked = << >> /\ si = server.size /\ server.resize = FALSE
    BY <2>1 DEF Opening, Scaling, Before
  <2>3. Single(asked', ScaleQuestions)
    <3> DEFINE f == rfbSetPixelFormatMsg
               e == rfbSetEncodingsMsg
               s == rfbSetScaleFactorMsg
               q == rfbFramebufferUpdateRequestMsg(Rect(0, 0, 1, 1))
               w == rfbFramebufferUpdateRequestMsg(Whole(si))
               p == rfbPointerEventMsg
               x == << >> \o (<<f, e>> \o (<<s>> \o <<q>>) \o <<p>>)
               y == << >> \o (<<f, e>> \o <<w>> \o <<p>>)
    <3>1. /\ f \notin ScaleQuestions /\ e \notin ScaleQuestions /\ q \notin ScaleQuestions
          /\ w \notin ScaleQuestions /\ p \notin ScaleQuestions
      BY DEF ScaleQuestions, rfbSetPixelFormatMsg, rfbSetEncodingsMsg,
             rfbFramebufferUpdateRequestMsg, rfbPointerEventMsg, Item
    <3>2. asked' = << >> \/ asked' = x \/ asked' = y
      BY <1>1, <2>2 DEF Setup, Tell, SetFormatAndEncodings, SetScaleFactor,
                        SendFramebufferUpdateRequest, scaledPointerEvent
    <3> HIDE DEF f, e, s, q, w, p
    <3>3. /\ Len(x) = 5 /\ x[1] = f /\ x[2] = e /\ x[3] = s /\ x[4] = q /\ x[5] = p
      OBVIOUS
    <3>4. /\ Len(y) = 4 /\ y[1] = f /\ y[2] = e /\ y[3] = w /\ y[4] = p
      OBVIOUS
    <3> HIDE DEF x, y
    <3>5. Single(x, ScaleQuestions)
      <4>1. \A i \in 1..Len(x) : x[i] \in ScaleQuestions => i = 3
        BY <3>1, <3>3
      <4> QED
        BY <4>1 DEF Single
    <3>6. Single(y, ScaleQuestions)
      <4>1. \A i \in 1..Len(y) : y[i] \notin ScaleQuestions
        BY <3>1, <3>4
      <4> QED
        BY <4>1 DEF Single
    <3> QED
      BY <3>2, <3>5, <3>6, MeetsNothing
  <2>4. wire' = << >> /\ si' = server'.size /\ server'.resize = FALSE
    BY <2>1, <2>2
  <2>5. Single(<< >>, Resizes) /\ ~ Meets(<< >>, Resizes)
        /\ ~ Meets(<< >>, WrongResizes(server'.size))
    BY MeetsNothing
  <2> QED
    BY <2>3, <2>4, <2>5 DEF Scaling, Before, Looping
<1>2. CASE main \in Looping
  <2>0. /\ wire \in Seq(Items) /\ asked \in Seq(Questions)
        /\ Single(asked, ScaleQuestions) /\ Single(wire, Resizes)
        /\ ~ Meets(wire, WrongResizes(server.size))
    BY <1>2 DEF Serving, Scaling
  <2>1. CASE HandleColourMap \/ HandleOther \/ HandleUpdate
    <3>1. /\ wire # << >> /\ wire' = Tail(wire) /\ UNCHANGED <<si, asked, server>>
          /\ Head(wire).kind # "resize"
      BY <2>1 DEF HandleColourMap, HandleOther, HandleUpdate, Next_, Reads
    <3>2. /\ Meets(wire', Resizes) <=> Meets(wire, Resizes)
          /\ Single(wire', Resizes) /\ ~ Meets(wire', WrongResizes(server.size))
      BY <2>0, <3>1, ReadsOther
    <3> QED
      BY <1>2, <2>0, <3>1, <3>2, KeepsScaling
  <2>2. CASE HandleReSize
    <3>1. /\ main = "loop" /\ wire # << >> /\ wire' = Tail(wire) /\ si' = Head(wire).data
          /\ UNCHANGED server /\ Head(wire).kind = "resize"
          /\ Tell(SendFramebufferUpdateRequest(Whole(Head(wire).data)))
      BY <2>2 DEF HandleReSize, Next_, Reads
    <3>2. Head(wire) \in Items
      BY <2>0, <3>1
    <3>3. Head(wire) \in Resizes /\ Meets(wire, Resizes)
      <4>1. 1 \in 1..Len(wire) /\ Head(wire) = wire[1]
        BY <2>0, <3>1
      <4> QED
        BY <3>1, <3>2, <4>1 DEF Resizes, Meets
    <3>4. Head(wire).data = server.size
      <4>1. 1 \in 1..Len(wire) /\ Head(wire) = wire[1]
        BY <2>0, <3>1
      <4> QED
        BY <2>0, <3>3, <4>1 DEF Meets, WrongResizes
    <3>5. /\ ~ Meets(wire', Resizes) /\ Single(wire', Resizes)
          /\ ~ Meets(wire', WrongResizes(server.size))
      BY <2>0, <3>1, <3>3, MeetsTail
    <3>6. ~ Meets(asked, ScaleQuestions) /\ server.resize = FALSE
      <4>1. server.resize \in BOOLEAN
        BY DEF Typed
      <4> QED
        BY <1>2, <3>3, <4>1 DEF Scaling
    <3> PICK q : q = rfbFramebufferUpdateRequestMsg(Whole(Head(wire).data))
      OBVIOUS
    <3>7. asked' = asked \/ asked' = asked \o <<q>>
      BY <3>1 DEF Tell, SendFramebufferUpdateRequest
    <3>8. q \notin ScaleQuestions
      BY DEF ScaleQuestions, rfbFramebufferUpdateRequestMsg, Item
    <3>9. ~ Meets(asked', ScaleQuestions) /\ Single(asked', ScaleQuestions)
      <4>1. /\ Meets(asked \o <<q>>, ScaleQuestions) => Meets(asked, ScaleQuestions)
            /\ Single(asked \o <<q>>, ScaleQuestions)
        BY <2>0, <3>8, MeetsOneMore, Zenon
      <4> QED
        BY <2>0, <3>6, <3>7, <4>1
    <3> QED
      BY <3>1, <3>4, <3>5, <3>6, <3>9 DEF Scaling, Before, Looping
  <2>3. CASE HandleRect
    <3>1. main = "rects" /\ wire # << >> /\ UNCHANGED <<si, asked, server>>
      BY <2>3 DEF HandleRect, Next_
    <3> DEFINE r == Head(wire).data.area
               enc == Head(wire).data.enc
               data == Tail(wire)
    <3>2. \/ wire' = data
          \/ wire' = Tail(data) /\ r.w * r.h > 0 /\ GoodRect(r, enc, data)
      BY <2>3, Zenon DEF HandleRect
    <3>3. Head(wire).kind # "resize" /\ r \in Rectangles /\ r.w * r.h \in Nat
      BY <3>1, ServedRect DEF Rectangles
    <3>4. /\ data \in Seq(Items)
          /\ Meets(data, Resizes) <=> Meets(wire, Resizes)
          /\ Single(data, Resizes) /\ ~ Meets(data, WrongResizes(server.size))
      BY <2>0, <3>1, <3>3, ReadsOther
    <3>5. CASE wire' = data
      BY <1>2, <2>0, <3>1, <3>4, <3>5, KeepsScaling
    <3>6. CASE wire' = Tail(data) /\ r.w * r.h > 0 /\ GoodRect(r, enc, data)
      <4>1. data # << >> /\ Head(data).kind = enc /\ enc # "resize"
        BY <3>6 DEF GoodRect
      <4> HIDE DEF data, r, enc
      <4>2. /\ Meets(wire', Resizes) <=> Meets(wire, Resizes)
            /\ Single(wire', Resizes) /\ ~ Meets(wire', WrongResizes(server.size))
        <5>1. /\ Meets(Tail(data), Resizes) <=> Meets(data, Resizes)
              /\ Single(Tail(data), Resizes) /\ ~ Meets(Tail(data), WrongResizes(server.size))
          BY <3>4, <4>1, ReadsOther
        <5> QED
          BY <3>4, <3>6, <5>1
      <4> QED
        BY <1>2, <2>0, <3>1, <4>2, KeepsScaling
    <3> QED
      BY <3>2, <3>5, <3>6
  <2>4. CASE Tick \/ TimePasses \/ OpenMenu
    BY <2>4 DEF Tick, TimePasses, OpenMenu, Scaling, Before, Looping
  <2>5. CASE CloseMenu
    <3>1. UNCHANGED <<si, wire, server>> /\ Tell(SendFramebufferUpdateRequest(Screenful))
      BY <2>5 DEF CloseMenu
    <3> PICK q : q = rfbFramebufferUpdateRequestMsg(Screenful)
      OBVIOUS
    <3>2. asked' = asked \/ asked' = asked \o <<q>>
      BY <3>1 DEF Tell, SendFramebufferUpdateRequest
    <3>3. q \notin ScaleQuestions
      BY DEF ScaleQuestions, rfbFramebufferUpdateRequestMsg, Item
    <3>4. /\ Meets(asked', ScaleQuestions) => Meets(asked, ScaleQuestions)
          /\ Single(asked', ScaleQuestions)
      <4>1. /\ Meets(asked \o <<q>>, ScaleQuestions) => Meets(asked, ScaleQuestions)
            /\ Single(asked \o <<q>>, ScaleQuestions)
        BY <2>0, <3>3, MeetsOneMore, Zenon
      <4> QED
        BY <2>0, <3>2, <4>1
    <3> QED
      BY <1>2, <2>0, <3>1, <3>4, KeepsScaling
  <2>6. ~ Setup
    BY <1>2 DEF Setup, Looping
  <2>7. ~ ReadsNonsense /\ ~ ReadFails /\ ~ WriteFails /\ ~ Quit
    BY DEF ReadsNonsense, ReadFails, WriteFails, Quit, GivesUp, Looping
  <2>8. ~ Handshake
    BY DEF Handshake, HandleVersion, HandleScheme, HandleReason, HandleChallenge, HandleResult,
           HandleInit, GivesUp, Looping
  <2> QED
    BY <2>1, <2>2, <2>3, <2>4, <2>5, <2>6, <2>7, <2>8 DEF Client, Message
<1>3. Setup \/ main \in Looping
  <2>1. main' # main => Setup \/ main \in Looping
    BY DEF Client, Message, Handshake, HandleVersion, HandleScheme, HandleReason,
           HandleChallenge, HandleResult, HandleInit, GivesUp, Looping, HandleColourMap,
           HandleOther, HandleUpdate, HandleReSize, HandleRect, ReadsNonsense, ReadFails,
           WriteFails, Quit, Tick, TimePasses, OpenMenu, CloseMenu
  <2> QED
    BY <2>1
<1> QED
  BY <1>1, <1>2, <1>3

\* Before the set-up nobody speaks of scales.
LEMMA BeforeScaling ==
  ASSUME IInv, Scaling, Next, main' \in Before
  PROVE  Scaling'
<1> USE DEF IInv
<1>1. main \in Before /\ server.resize = FALSE
  <2>1. main \in Before
    <3>1. CASE Handshake \/ Setup
      BY <3>1 DEF Handshake, Setup, HandleVersion, HandleScheme, HandleReason, HandleChallenge,
                  HandleResult, HandleInit, Before
    <3>2. CASE Message
      BY <3>2 DEF Message, HandleColourMap, HandleOther, HandleUpdate, HandleReSize, HandleRect,
                  RectDone, GivesUp, Before
    <3>3. CASE ReadsNonsense \/ ReadFails \/ WriteFails \/ Quit \/ OpenMenu \/ CloseMenu
      BY <3>3 DEF ReadsNonsense, ReadFails, WriteFails, Quit, OpenMenu, CloseMenu, GivesUp, Before
    <3>4. CASE Tick \/ TimePasses
      BY <3>4 DEF Tick, TimePasses
    <3>5. CASE Server
      BY <3>5 DEF Server, ServerScheme, ServerResult, ServerInit, ServerSettings, ServerAnswers,
                  ServerScales_, ServerTells, ServerUpdates, ServerRect, ServerCloses, ServerKeeps,
                  client
    <3> QED
      BY <3>1, <3>2, <3>3, <3>4, <3>5 DEF Next, Client
  <2> QED
    BY <2>1 DEF Scaling
<1>2. server \in [size : Sizes, phase : Phases, open : BOOLEAN, rects : 0..MaxRects,
                  drawn : Nat, resize : BOOLEAN]
  BY DEF Typed
<1>3. CASE Server
  <2>1. ~ ServerSettings
    <3>1. asked # << >> => Head(asked).kind \notin {"format", "encodings", "scale", "pointer"}
      BY <1>1 DEF Opening, Before, rfbProtocolVersionMsg, rfbClientInitMsg, Item
    <3> QED
      BY <3>1 DEF ServerSettings, Hears
  <2>2. CASE ServerScheme
    <3> PICK s \in Schemes :
          server' = [server EXCEPT !.phase = CASE s = "vnc" -> "auth"
                                               [] s = "none" -> "init"
                                               [] OTHER -> "refused"]
      BY <2>2 DEF ServerScheme
    <3> DEFINE p == CASE s = "vnc" -> "auth" [] s = "none" -> "init" [] OTHER -> "refused"
    <3>1. server' = [server EXCEPT !.phase = p]
      OBVIOUS
    <3> HIDE DEF p
    <3>2. server'.resize = FALSE
      BY <1>1, <1>2, <3>1
    <3> QED
      BY <3>2 DEF Scaling, Before, Looping
  <2>3. CASE ServerResult
    <3> PICK p : server' = [server EXCEPT !.phase = p]
      BY <2>3 DEF ServerResult
    <3>2. server'.resize = FALSE
      BY <1>1, <1>2
    <3> QED
      BY <3>2 DEF Scaling, Before, Looping
  <2>4. CASE ~ ServerScheme /\ ~ ServerResult
    <3>1. server'.resize = FALSE
      BY <1>1, <1>2, <1>3, <2>1, <2>4
         DEF Server, ServerInit, ServerAnswers, ServerScales_, ServerTells, ServerUpdates,
             ServerRect, ServerCloses
    <3> QED
      BY <3>1 DEF Scaling, Before, Looping
  <2> QED
    BY <2>2, <2>3, <2>4
<1>4. CASE ~ Server
  <2>1. UNCHANGED server
    BY <1>4 DEF Next, Client, Handshake, HandleVersion, HandleScheme, HandleReason,
                HandleChallenge, HandleResult, HandleInit, Reads, Setup, Message,
                HandleColourMap, HandleOther, HandleUpdate, HandleReSize, HandleRect,
                ReadsNonsense, ReadFails, WriteFails, Quit, Tick, TimePasses, OpenMenu, CloseMenu
  <2> QED
    BY <1>1, <2>1 DEF Scaling, Before, Looping
<1> QED
  BY <1>3, <1>4

\* The server takes the question for a scale, and says the new size, once.
LEMMA ServerScaling ==
  ASSUME IInv, Scaling, Server, main' \in Looping
  PROVE  Scaling'
<1> USE DEF IInv
<1>1. UNCHANGED client
  BY DEF Server, ServerScheme, ServerResult, ServerInit, ServerSettings, ServerAnswers,
         ServerScales_, ServerTells, ServerUpdates, ServerRect, ServerCloses, ServerKeeps
<1>2. main' = main /\ si' = si
  BY <1>1 DEF client
<1>3. /\ server.phase \in {"format", "serving"}
      /\ wire \in Seq(Items) /\ asked \in Seq(Questions)
  BY <1>2 DEF Serving
<1>4. server \in [size : Sizes, phase : Phases, open : BOOLEAN, rects : 0..MaxRects,
                  drawn : Nat, resize : BOOLEAN]
  BY DEF Typed
<1>5. ~ ServerScheme /\ ~ ServerResult /\ ~ ServerInit
  BY <1>3 DEF ServerScheme, ServerResult, ServerInit
<1>6. /\ Single(asked, ScaleQuestions) /\ Single(wire, Resizes)
      /\ Meets(asked, ScaleQuestions) => server.resize = FALSE /\ ~ Meets(wire, Resizes)
      /\ server.resize = TRUE => ~ Meets(wire, Resizes)
      /\ ~ Meets(wire, Resizes) => si = server.size
      /\ ~ Meets(wire, WrongResizes(server.size))
  BY <1>2 DEF Scaling
<1>7. ASSUME asked # << >>
      PROVE  /\ Meets(Tail(asked), ScaleQuestions) => Meets(asked, ScaleQuestions)
             /\ Single(Tail(asked), ScaleQuestions)
  BY <1>3, <1>6, <1>7, MeetsTail
<1>8. ASSUME NEW a, a.kind # "resize"
      PROVE  a \notin Resizes /\ a \notin WrongResizes(server.size)
  BY <1>8 DEF Resizes, WrongResizes
<1>9. CASE ServerSettings
  <2>1. PICK k \in {"format", "encodings", "scale", "pointer"} :
          /\ asked # << >> /\ Head(asked).kind = k /\ asked' = Tail(asked)
          /\ server' = CASE k \in {"format", "pointer"} -> server
                         [] k = "encodings" -> [server EXCEPT !.phase = "serving"]
                         [] k = "scale" -> [server EXCEPT !.resize = TRUE]
    BY <1>9 DEF ServerSettings, Hears
  <2>2. UNCHANGED wire
    BY <1>9 DEF ServerSettings
  <2>3. CASE k # "scale"
    <3>1. server' = server \/ server' = [server EXCEPT !.phase = "serving"]
      BY <2>1, <2>3
    <3>2. server'.resize = server.resize /\ server'.size = server.size
      BY <1>4, <3>1
    <3> QED
      BY <1>2, <1>6, <1>7, <2>1, <2>2, <3>2, KeepsScaling
  <2>4. CASE k = "scale"
    <3>1. server' = [server EXCEPT !.resize = TRUE]
      BY <2>1, <2>4
    <3>2. server'.resize = TRUE /\ server'.size = server.size
      BY <1>4, <3>1
    <3>3. Head(asked) \in ScaleQuestions /\ Meets(asked, ScaleQuestions)
      <4>1. Head(asked) \in Questions /\ 1 \in 1..Len(asked) /\ asked[1] = Head(asked)
        BY <1>3, <2>1
      <4> QED
        BY <2>1, <2>4, <4>1 DEF ScaleQuestions, Meets
    <3>4. ~ Meets(Tail(asked), ScaleQuestions)
      BY <1>3, <1>6, <2>1, <3>3, MeetsTail
    <3> QED
      BY <1>2, <1>6, <1>7, <2>1, <2>2, <3>2, <3>3, <3>4 DEF Scaling, Before, Looping
  <2> QED
    BY <2>3, <2>4
<1>10. CASE ServerAnswers
  <2>1. asked # << >> /\ asked' = Tail(asked) /\ server' = server
    BY <1>10 DEF ServerAnswers, Hears
  <2> DEFINE r == Clipped(Head(asked).data, server.size.w, server.size.h)
             a == rfbFramebufferUpdateMsg(1)
             b == rfbFramebufferUpdateRectHeader(r, "raw")
             c == rfbRaw(r)
  <2>5. wire' = wire \o <<a, b, c>>
    BY <1>10 DEF ServerAnswers, Says
  <2>6. a.kind # "resize" /\ b.kind # "resize" /\ c.kind # "resize"
    BY DEF rfbFramebufferUpdateMsg, rfbFramebufferUpdateRectHeader, rfbRaw, Item
  <2> HIDE DEF a, b, c
  <2>2. /\ a \notin Resizes /\ b \notin Resizes /\ c \notin Resizes
        /\ a \notin WrongResizes(server.size) /\ b \notin WrongResizes(server.size)
        /\ c \notin WrongResizes(server.size)
    BY <1>8, <2>6
  <2>3. /\ Meets(wire \o <<a, b, c>>, Resizes) <=> Meets(wire, Resizes)
        /\ Single(wire \o <<a, b, c>>, Resizes)
    BY <1>3, <1>6, <2>2, MeetsThreeMore
  <2>4. ~ Meets(wire \o <<a, b, c>>, WrongResizes(server.size))
    BY <1>3, <1>6, <2>2, MeetsThreeMore
  <2> QED
    BY <1>2, <1>7, <2>1, <2>3, <2>4, <2>5, KeepsScaling
<1>11. CASE ServerScales_
  <2> DEFINE new == Scaled(server.size)
             m == rfbReSizeFrameBufferMsg(new)
  <2>1. /\ server.resize = TRUE /\ asked' = asked /\ wire' = wire \o <<m>>
        /\ server' = [server EXCEPT !.size = new, !.resize = FALSE]
    BY <1>4, <1>11 DEF ServerScales_, Says
  <2>2. m.kind = "resize" /\ m.data = new /\ m \in Items
    BY <1>4, ScaledSizes DEF rfbReSizeFrameBufferMsg, Item, Items, rfbServerToClient
  <2>3. server'.size = new /\ server'.resize = FALSE
    BY <1>4, <2>1
  <2>4. ~ Meets(wire, Resizes) /\ ~ Meets(asked, ScaleQuestions)
    BY <1>6, <2>1
  <2> HIDE DEF m, new
  <2>5. m \in Resizes /\ m \notin WrongResizes(new)
    BY <2>2 DEF Resizes, WrongResizes
  <2>6. ~ Meets(wire, WrongResizes(new))
    BY <2>4 DEF Meets, WrongResizes
  <2>7. Meets(wire \o <<m>>, Resizes) /\ Single(wire \o <<m>>, Resizes)
    BY <1>3, <2>4, <2>5, MeetsOneMore
  <2>8. ~ Meets(wire \o <<m>>, WrongResizes(new))
    BY <1>3, <2>5, <2>6, MeetsOneMore
  <2> QED
    BY <1>2, <1>6, <2>1, <2>3, <2>4, <2>7, <2>8 DEF Scaling, Before, Looping
<1>12. ASSUME NEW a, a.kind # "resize", wire' = wire \o <<a>>, asked' = asked,
              server'.resize = server.resize, server'.size = server.size
       PROVE  Scaling'
  <2>1. a \notin Resizes /\ a \notin WrongResizes(server.size)
    BY <1>8, <1>12
  <2>2. /\ Meets(wire \o <<a>>, Resizes) <=> Meets(wire, Resizes)
        /\ Single(wire \o <<a>>, Resizes)
    BY <1>3, <1>6, <2>1, MeetsOneMore
  <2>3. ~ Meets(wire \o <<a>>, WrongResizes(server.size))
    BY <1>3, <1>6, <2>1, MeetsOneMore
  <2> QED
    BY <1>2, <1>6, <1>12, <2>2, <2>3, KeepsScaling
<1>13. ASSUME NEW a, NEW b, a.kind # "resize", b.kind # "resize", wire' = wire \o <<a, b>>,
              asked' = asked, server'.resize = server.resize, server'.size = server.size
       PROVE  Scaling'
  <2>1. /\ a \notin Resizes /\ a \notin WrongResizes(server.size)
        /\ b \notin Resizes /\ b \notin WrongResizes(server.size)
    BY <1>8, <1>13
  <2>2. /\ Meets(wire \o <<a, b>>, Resizes) <=> Meets(wire, Resizes)
        /\ Single(wire \o <<a, b>>, Resizes)
    BY <1>3, <1>6, <2>1, MeetsTwoMore
  <2>3. ~ Meets(wire \o <<a, b>>, WrongResizes(server.size))
    BY <1>3, <1>6, <2>1, MeetsTwoMore
  <2> QED
    BY <1>2, <1>6, <1>13, <2>2, <2>3, KeepsScaling
<1>14. CASE ServerTells
  <2>1. PICK a : a.kind # "resize" /\ wire' = wire \o <<a>>
    BY <1>14 DEF ServerTells, Says, rfbSetColourMapEntriesMsg, rfbBellMsg, rfbServerCutTextMsg, Item
  <2>2. asked' = asked /\ server' = server
    BY <1>14 DEF ServerTells
  <2> QED
    BY <1>12, <2>1, <2>2
<1>15. CASE ServerUpdates
  <2>1. PICK n \in 1..MaxRects :
          /\ wire' = wire \o <<rfbFramebufferUpdateMsg(n)>>
          /\ server' = [server EXCEPT !.rects = n, !.drawn = server.drawn + n]
    BY <1>15 DEF ServerUpdates, Says
  <2>2. server'.resize = server.resize /\ server'.size = server.size
    BY <1>4, <2>1
  <2>3. rfbFramebufferUpdateMsg(n).kind # "resize"
    BY DEF rfbFramebufferUpdateMsg, Item
  <2>4. asked' = asked
    BY <1>15 DEF ServerUpdates
  <2> QED
    BY <1>12, <2>1, <2>2, <2>3, <2>4
<1>16. CASE ServerRect
  <2>1. asked' = asked /\ server' = [server EXCEPT !.rects = @ - 1]
    BY <1>16 DEF ServerRect
  <2>2. server'.resize = server.resize /\ server'.size = server.size
    BY <1>4, <2>1
  <2>3. \/ \E a : a.kind # "resize" /\ wire' = wire \o <<a>>
        \/ \E a, b : a.kind # "resize" /\ b.kind # "resize" /\ wire' = wire \o <<a, b>>
    BY <1>16 DEF ServerRect, Says, rfbFramebufferUpdateRectHeader, rfbRaw, rfbRREHeader,
                 rfbCopyRect, Item
  <2> QED
    BY <1>12, <1>13, <2>1, <2>2, <2>3
<1>17. CASE ServerCloses
  <2>1. UNCHANGED <<wire, asked>> /\ server'.resize = server.resize /\ server'.size = server.size
    BY <1>4, <1>17 DEF ServerCloses
  <2> QED
    BY <1>2, <1>6, <2>1, KeepsScaling
<1> QED
  BY <1>5, <1>9, <1>10, <1>11, <1>14, <1>15, <1>16, <1>17 DEF Server

\* Scaling is inductive.
LEMMA StepScaling ==
  ASSUME IInv, Scaling, Next
  PROVE  Scaling'
<1>1. CASE main' \in Before
  BY <1>1, BeforeScaling
<1>2. CASE main' \in Looping
  BY <1>2, ClientScaling, ServerScaling DEF Next
<1>3. CASE main' \notin Before \cup Looping
  BY <1>3 DEF Scaling
<1> QED
  BY <1>1, <1>2, <1>3

--------------------------------------------------------------------------------
(***************************************************************************)
(* The picture: unless a new size is under way, all of it is right, or a   *)
(* request for all of it or the answer to one is under way, or a menu is   *)
(* open, which will end with such a request.                               *)
(***************************************************************************)
Covers(r, size) == r.x = 0 /\ r.y = 0 /\ r.w >= size.w /\ r.h >= size.h
Requests(size) == {q \in Questions : q.kind = "request" /\ Covers(q.data, size)}
Raws(size) == {i \in Items : i.kind = "rect" /\ i.data.enc = "raw" /\ Covers(i.data.area, size)}

Settled ==
  /\ server.open = TRUE /\ server.resize = FALSE
  /\ ~ Meets(asked, ScaleQuestions) /\ ~ Meets(wire, Resizes)

Fresh ==
  main \in Looping /\ Settled =>
    \/ main = "menu"
    \/ Meets(asked, Requests(si)) \/ Meets(wire, Raws(si))
    \/ Pixels(Whole(si)) \subseteq synced

Colours == main \in {"loop", "rects"} \cup Before => palette = "vdr"

\* A menu asks for all of the picture when it is closed.
WholeScreen == p_xsize = v_xsize /\ p_ysize = v_ysize

\* In the loop the client knows a size.
LEMMA SizeKnown ==
  ASSUME IInv, main \in Looping
  PROVE  si \in Sizes
<1>1. Tracks(wire, Reader, Writer)
  BY DEF IInv, Serving
<1> PICK P \in [1 .. Len(wire) + 1 -> Parse] : P[1] = Reader /\ wire \in Seq(Items)
  BY <1>1 DEF Tracks, IInv, Serving
<1>2. Reader \in Parse
  <2>1. 1 \in 1 .. Len(wire) + 1
    OBVIOUS
  <2> QED
    BY <2>1
<1> QED
  BY <1>2 DEF Parse, Reader, ReaderAt

\* Only a menu changes the palette, and sets the VDR's again when it is left.
LEMMA StepColours ==
  ASSUME IInv, Colours, Next
  PROVE  Colours'
<1>1. CASE Handshake \/ Setup
  BY <1>1 DEF Handshake, Setup, HandleVersion, HandleScheme, HandleReason, HandleChallenge,
              HandleResult, HandleInit, HandshakeKeeps, Drawing, Colours, Before
<1>2. CASE Message
  BY <1>2 DEF Message, HandleColourMap, HandleOther, HandleUpdate, HandleReSize, HandleRect,
              Drawing, Colours
<1>3. CASE ReadsNonsense \/ ReadFails \/ WriteFails \/ Quit
  BY <1>3 DEF ReadsNonsense, ReadFails, WriteFails, Quit, GivesUp, Colours, Before
<1>4. CASE Tick \/ TimePasses \/ OpenMenu \/ CloseMenu
  BY <1>4 DEF Tick, TimePasses, OpenMenu, CloseMenu, Drawing, Colours, Before
<1>5. CASE Server
  <2>1. UNCHANGED client
    BY <1>5 DEF Server, ServerScheme, ServerResult, ServerInit, ServerSettings, ServerAnswers,
                ServerScales_, ServerTells, ServerUpdates, ServerRect, ServerCloses, ServerKeeps
  <2> QED
    BY <2>1 DEF client, Colours
<1> QED
  BY <1>1, <1>2, <1>3, <1>4, <1>5 DEF Next, Client

\* A rectangle that covers all of the picture makes all of it right.
LEMMA CoversAll ==
  ASSUME NEW r \in Rectangles, NEW size \in Sizes, Covers(r, size)
  PROVE  Pixels(Whole(size)) \subseteq Pixels(r)
BY ScreenAssumption DEF Covers, Rectangles, Sizes, Pixels, Whole, Rect

\* An item that is read and is no answer to a request takes no promise away.
LEMMA ReadsFresh ==
  ASSUME Fresh, main \in Looping, main # "menu", UNCHANGED <<si, asked, server>>,
         wire \in Seq(Items), wire # << >>, wire' = Tail(wire),
         Head(wire) \notin Raws(si), Head(wire).kind # "resize",
         Pixels(Whole(si)) \subseteq synced => Pixels(Whole(si)) \subseteq synced'
  PROVE  Fresh'
<1>1. Head(wire) \notin Resizes
  BY DEF Resizes
<1>2. ~ Meets(wire', Resizes) => ~ Meets(wire, Resizes)
  BY <1>1, MeetsTail
<1>3. Meets(wire, Raws(si)) => Meets(wire', Raws(si))
  BY MeetsTail
<1> QED
  BY <1>2, <1>3 DEF Fresh, Settled

\* Where the client reads a new size or leaves a menu it asks for all of the
\* picture; what it draws itself in between does not take anything away.
LEMMA ClientFresh ==
  ASSUME WholeScreen, IInv, Scaling, Fresh,
         Client \/ TimePasses \/ OpenMenu \/ CloseMenu \/ Quit, main' \in Looping
  PROVE  Fresh'
<1> USE DEF IInv
<1>1. CASE Setup
  <2> SUFFICES ASSUME Settled' PROVE Fresh'
    BY DEF Fresh
  <2>1. /\ main = "setup" /\ UNCHANGED <<si, wire, server>> /\ server.open = TRUE
    BY <1>1 DEF Setup, Settled
  <2>2. asked = << >> /\ si = server.size /\ server.size \in Sizes
    BY <2>1 DEF Opening, Typed
  <2> DEFINE f == rfbSetPixelFormatMsg
             e == rfbSetEncodingsMsg
             s == rfbSetScaleFactorMsg
             q == rfbFramebufferUpdateRequestMsg(Rect(0, 0, 1, 1))
             w == rfbFramebufferUpdateRequestMsg(Whole(si))
             p == rfbPointerEventMsg
             x == << >> \o (<<f, e>> \o (<<s>> \o <<q>>) \o <<p>>)
             y == << >> \o (<<f, e>> \o <<w>> \o <<p>>)
  <2>3. asked' = x \/ asked' = y
    BY <1>1, <2>1, <2>2 DEF Setup, Tell, SetFormatAndEncodings, SetScaleFactor,
                            SendFramebufferUpdateRequest, scaledPointerEvent
  <2>4. s \in ScaleQuestions
    BY DEF ScaleQuestions, Questions, rfbSetScaleFactorMsg, Item
  <2>5. w \in Requests(si)
    <3>1. Whole(si) \in Corner
      BY <2>2, AsksWhole
    <3>2. Covers(Whole(si), si)
      BY <2>2, ScreenAssumption DEF Covers, Whole, Rect, Sizes
    <3> QED
      BY <3>1, <3>2 DEF Requests, Questions, rfbFramebufferUpdateRequestMsg, Item
  <2> HIDE DEF f, e, s, q, w, p
  <2>6. Len(x) = 5 /\ x[3] = s
    OBVIOUS
  <2>7. Len(y) = 4 /\ y[3] = w
    OBVIOUS
  <2> HIDE DEF x, y
  <2>8. asked' # x
    <3>1. Meets(x, ScaleQuestions)
      BY <2>4, <2>6 DEF Meets
    <3> QED
      BY <3>1 DEF Settled
  <2>9. Meets(y, Requests(si))
    BY <2>5, <2>7 DEF Meets
  <2> QED
    BY <2>1, <2>3, <2>8, <2>9 DEF Fresh
<1>2. CASE main \in Looping
  <2>0. wire \in Seq(Items) /\ asked \in Seq(Questions) /\ si \in Sizes
    BY <1>2, SizeKnown DEF Serving
  <2>1. CASE HandleColourMap \/ HandleOther \/ HandleUpdate
    <3>1. /\ wire # << >> /\ wire' = Tail(wire) /\ UNCHANGED <<si, asked, server, synced>>
          /\ Head(wire).kind \notin {"resize", "rect"} /\ main = "loop"
      BY <2>1 DEF HandleColourMap, HandleOther, HandleUpdate, Next_, Reads, Drawing
    <3>2. Head(wire) \notin Raws(si)
      BY <3>1 DEF Raws
    <3> QED
      BY <1>2, <2>0, <3>1, <3>2, ReadsFresh
  <2>2. CASE HandleReSize
    <3> DEFINE size == Head(wire).data
               q == rfbFramebufferUpdateRequestMsg(Whole(size))
    <3>1. /\ main = "loop" /\ wire # << >> /\ si' = size /\ UNCHANGED server
          /\ asked' = IF server.open THEN asked \o <<q>> ELSE asked
      BY <2>2 DEF HandleReSize, Next_, Reads, Tell, SendFramebufferUpdateRequest
    <3>2. size \in Sizes
      BY <2>2, <3>1, ServedMessage DEF HandleReSize, Next_
    <3>3. q \in Requests(size)
      <4>1. Whole(size) \in Corner
        BY <3>2, AsksWhole
      <4>2. Covers(Whole(size), size)
        BY <3>2, ScreenAssumption DEF Covers, Whole, Rect, Sizes
      <4> QED
        BY <4>1, <4>2 DEF Requests, Questions, rfbFramebufferUpdateRequestMsg, Item
    <3> HIDE DEF size, q
    <3>4. Meets(asked \o <<q>>, Requests(size))
      BY <2>0, <3>3, MeetsOneMore
    <3>5. server.open = TRUE => Meets(asked', Requests(si'))
      BY <3>1, <3>4
    <3> QED
      BY <3>1, <3>5 DEF Fresh, Settled
  <2>3. CASE HandleRect
    <3>1. main = "rects" /\ wire # << >> /\ UNCHANGED <<si, asked, server>>
      BY <2>3 DEF HandleRect, Next_
    <3> DEFINE r == Head(wire).data.area
               enc == Head(wire).data.enc
               data == Tail(wire)
               covered == Pixels(Whole(si)) \subseteq synced
    <3>2. \/ wire' = data /\ r.w * r.h = 0 /\ synced' = synced
          \/ /\ wire' = Tail(data) /\ r.w * r.h > 0 /\ GoodRect(r, enc, data)
             /\ synced' = Painted(enc, r, Head(data).data)
      BY <2>3, Zenon DEF HandleRect, GivesUp, Looping
    <3>3. /\ Head(wire).kind = "rect" /\ r \in Rectangles /\ Within(r, si.w, si.h)
          /\ data \in Seq(Items)
      BY <3>1, ServedRect
    <3>4. CASE wire' = data /\ r.w * r.h = 0 /\ synced' = synced
      <4>1. ~ Covers(r, si)
        <5>1. si.w \in Nat \ {0} /\ si.h \in Nat \ {0} /\ r.w \in Nat /\ r.h \in Nat
          BY <2>0, <3>3, ScreenAssumption DEF Sizes, Rectangles
        <5>2. \A a, b \in Nat \ {0} : a * b # 0
          OBVIOUS
        <5>3. ~ (r.w >= si.w /\ r.h >= si.h)
          BY <3>4, <5>1, <5>2
        <5> QED
          BY <5>3 DEF Covers
      <4>2. Head(wire) \notin Raws(si)
        BY <4>1 DEF Raws
      <4> QED
        BY <1>2, <2>0, <3>1, <3>3, <3>4, <4>2, ReadsFresh
    <3>5. CASE /\ wire' = Tail(data) /\ r.w * r.h > 0 /\ GoodRect(r, enc, data)
               /\ synced' = Painted(enc, r, Head(data).data)
      <4>1. /\ data # << >> /\ Head(data).kind = enc /\ enc \in Encodings
        BY <3>5 DEF GoodRect, Encodings
      <4>2. covered => Pixels(Whole(si)) \subseteq synced'
        <5>1. CASE enc \in {"raw", "rre"}
          BY <3>5, <5>1 DEF Painted, Put
        <5>2. CASE enc = "copy"
          <6> DEFINE from == Head(data).data
          <6>1. /\ from \in Rectangles /\ Within(from, si.w, si.h)
                /\ from.w = r.w /\ from.h = r.h
            BY <3>1, <3>5, <5>2, ServedRect
          <6>2. synced' = Copy(synced, from, r)
            BY <3>5, <5>2 DEF Painted
          <6>3. si.w \in 1..v_xsize /\ si.h \in 1..v_ysize
            BY <2>0 DEF Sizes
          <6> HIDE DEF from, r
          <6>4. Pixels(Rect(0, 0, si.w, si.h)) \subseteq synced =>
                  Pixels(Rect(0, 0, si.w, si.h)) \subseteq Copy(synced, from, r)
            BY <3>3, <6>1, <6>3, CopyKeeps
          <6> QED
            BY <6>2, <6>4 DEF Whole
        <5> QED
          BY <4>1, <5>1, <5>2 DEF Encodings
      <4>3. enc = "raw" /\ Covers(r, si) => Pixels(Whole(si)) \subseteq synced'
        <5>1. enc = "raw" => synced' = synced \cup Pixels(r)
          BY <3>5 DEF Painted, Put
        <5>2. Covers(r, si) => Pixels(Whole(si)) \subseteq Pixels(r)
          BY <2>0, <3>3, CoversAll
        <5> QED
          BY <5>1, <5>2
      <4>4. Meets(wire, Raws(si)) => (enc = "raw" /\ Covers(r, si)) \/ Meets(wire', Raws(si))
        <5>1. Head(wire) \in Raws(si) => enc = "raw" /\ Covers(r, si)
          BY DEF Raws
        <5>2. Meets(wire, Raws(si)) /\ Head(wire) \notin Raws(si) => Meets(data, Raws(si))
          BY <2>0, <3>1, MeetsTail
        <5>3. Head(data) \notin Raws(si)
          BY <4>1 DEF Raws, Encodings
        <5>4. Meets(data, Raws(si)) => Meets(Tail(data), Raws(si))
          BY <3>3, <4>1, <5>3, MeetsTail
        <5> QED
          BY <3>5, <5>1, <5>2, <5>4
      <4>5. ~ Meets(wire', Resizes) => ~ Meets(wire, Resizes)
        <5>1. Head(wire) \notin Resizes /\ Head(data) \notin Resizes
          BY <3>3, <4>1 DEF Resizes, Encodings
        <5>2. Meets(wire, Resizes) => Meets(data, Resizes)
          BY <2>0, <3>1, <5>1, MeetsTail
        <5>3. Meets(data, Resizes) => Meets(Tail(data), Resizes)
          BY <3>3, <4>1, <5>1, MeetsTail
        <5> QED
          BY <3>5, <5>2, <5>3
      <4> HIDE DEF r, enc, data
      <4> QED
        BY <1>2, <3>1, <4>2, <4>3, <4>4, <4>5 DEF Fresh, Settled
    <3> QED
      BY <3>2, <3>4, <3>5
  <2>4. CASE Tick \/ TimePasses
    BY <2>4 DEF Tick, TimePasses, Drawing, Fresh, Settled
  <2>5. CASE OpenMenu
    BY <2>5 DEF OpenMenu, Fresh
  <2>6. CASE CloseMenu
    <3> DEFINE q == rfbFramebufferUpdateRequestMsg(Screenful)
    <3>1. /\ UNCHANGED <<si, wire, server>>
          /\ asked' = IF server.open THEN asked \o <<q>> ELSE asked
      BY <2>6 DEF CloseMenu, Tell, SendFramebufferUpdateRequest
    <3>2. q \in Requests(si)
      <4>1. Covers(Screenful, si)
        BY <2>0, ScreenAssumption DEF WholeScreen, Covers, Screenful, Rect, Sizes
      <4> QED
        BY <4>1, AsksScreenful DEF Requests, Questions, rfbFramebufferUpdateRequestMsg, Item
    <3> HIDE DEF q
    <3>3. Meets(asked \o <<q>>, Requests(si))
      BY <2>0, <3>2, MeetsOneMore
    <3> QED
      BY <3>1, <3>3 DEF Fresh, Settled
  <2>7. ~ Setup
    BY <1>2 DEF Setup, Looping
  <2>8. ~ ReadsNonsense /\ ~ ReadFails /\ ~ WriteFails /\ ~ Quit
    BY DEF ReadsNonsense, ReadFails, WriteFails, Quit, GivesUp, Looping
  <2>9. ~ Handshake
    BY DEF Handshake, HandleVersion, HandleScheme, HandleReason, HandleChallenge, HandleResult,
           HandleInit, GivesUp, Looping
  <2> QED
    BY <2>1, <2>2, <2>3, <2>4, <2>5, <2>6, <2>7, <2>8, <2>9 DEF Client, Message
<1>3. Setup \/ main \in Looping
  <2>1. main' # main => Setup \/ main \in Looping
    BY DEF Client, Message, Handshake, HandleVersion, HandleScheme, HandleReason,
           HandleChallenge, HandleResult, HandleInit, GivesUp, Looping, HandleColourMap,
           HandleOther, HandleUpdate, HandleReSize, HandleRect, ReadsNonsense, ReadFails,
           WriteFails, Quit, Tick, TimePasses, OpenMenu, CloseMenu
  <2> QED
    BY <2>1
<1> QED
  BY <1>1, <1>2, <1>3

\* What the server does takes no promise away if it keeps the requests, or answers
\* them, and what is on the wire.
LEMMA KeepsFresh ==
  ASSUME Fresh, UNCHANGED <<main, si, synced>>,
         Settled' => Settled,
         Settled' /\ Meets(asked, Requests(si)) =>
           Meets(asked', Requests(si)) \/ Meets(wire', Raws(si)),
         Meets(wire, Raws(si)) => Meets(wire', Raws(si))
  PROVE  Fresh'
BY DEF Fresh

\* The server answers a request with all of the rectangle, in raw data.
LEMMA ServerFresh ==
  ASSUME IInv, Scaling, Fresh, Server, main' \in Looping
  PROVE  Fresh'
<1> USE DEF IInv
<1>1. UNCHANGED client
  BY DEF Server, ServerScheme, ServerResult, ServerInit, ServerSettings, ServerAnswers,
         ServerScales_, ServerTells, ServerUpdates, ServerRect, ServerCloses, ServerKeeps
<1>2. main \in Looping /\ UNCHANGED <<main, si, synced>>
  BY <1>1 DEF client
<1>3. /\ server.phase \in {"format", "serving"}
      /\ wire \in Seq(Items) /\ asked \in Seq(Questions)
  BY <1>2 DEF Serving
<1>4. server \in [size : Sizes, phase : Phases, open : BOOLEAN, rects : 0..MaxRects,
                  drawn : Nat, resize : BOOLEAN]
  BY DEF Typed
<1>5. ~ ServerScheme /\ ~ ServerResult /\ ~ ServerInit
  BY <1>3 DEF ServerScheme, ServerResult, ServerInit
<1>6. CASE ServerSettings
  <2>1. PICK k \in {"format", "encodings", "scale", "pointer"} :
          /\ asked # << >> /\ Head(asked).kind = k /\ asked' = Tail(asked)
          /\ server' = CASE k \in {"format", "pointer"} -> server
                         [] k = "encodings" -> [server EXCEPT !.phase = "serving"]
                         [] k = "scale" -> [server EXCEPT !.resize = TRUE]
    BY <1>6 DEF ServerSettings, Hears
  <2>2. wire' = wire
    BY <1>6 DEF ServerSettings
  <2>3. CASE k # "scale"
    <3>1. server' = server \/ server' = [server EXCEPT !.phase = "serving"]
      BY <2>1, <2>3
    <3>2. server'.resize = server.resize /\ server'.open = server.open
      BY <1>4, <3>1
    <3>3. Head(asked) \notin ScaleQuestions /\ Head(asked) \notin Requests(si)
      BY <2>1, <2>3 DEF ScaleQuestions, Requests
    <3>4. Meets(asked, ScaleQuestions) => Meets(asked', ScaleQuestions)
      BY <1>3, <2>1, <3>3, MeetsTail
    <3>5. Meets(asked, Requests(si)) => Meets(asked', Requests(si))
      BY <1>3, <2>1, <3>3, MeetsTail
    <3>6. Settled' => Settled
      BY <2>2, <3>2, <3>4 DEF Settled
    <3> QED
      BY <1>2, <2>2, <3>5, <3>6, KeepsFresh
  <2>4. CASE k = "scale"
    <3>1. server' = [server EXCEPT !.resize = TRUE]
      BY <2>1, <2>4
    <3>2. server'.resize = TRUE
      BY <1>4, <3>1
    <3> QED
      BY <3>2 DEF Fresh, Settled
  <2> QED
    BY <2>3, <2>4
<1>7. CASE ServerAnswers
  <2>1. /\ asked # << >> /\ asked' = Tail(asked) /\ server' = server
        /\ Head(asked).kind = "request"
    BY <1>7 DEF ServerAnswers, Hears
  <2> PICK r : r = Clipped(Head(asked).data, server.size.w, server.size.h)
    OBVIOUS
  <2> DEFINE a == rfbFramebufferUpdateMsg(1)
             b == rfbFramebufferUpdateRectHeader(r, "raw")
             c == rfbRaw(r)
  <2>2. wire' = wire \o <<a, b, c>>
    BY <1>7 DEF ServerAnswers, Says
  <2>3. Head(asked) \notin ScaleQuestions
    BY <2>1 DEF ScaleQuestions
  <2>4. Meets(asked, ScaleQuestions) => Meets(asked', ScaleQuestions)
    BY <1>3, <2>1, <2>3, MeetsTail
  <2>5. Head(asked).data \in Corner
    <3>1. Head(asked) \in Questions
      BY <1>3, <2>1
    <3> QED
      BY <2>1, <3>1 DEF Questions
  <2>6. si = server.size /\ Head(asked) \in Requests(si) => b \in Raws(si)
    <3> SUFFICES ASSUME si = server.size, Covers(Head(asked).data, si) PROVE b \in Raws(si)
      BY DEF Requests
    <3>1. /\ r \in Rectangles /\ r.x = 0 /\ r.y = 0
          /\ r.w = si.w /\ r.h = si.h
      <4> DEFINE q == Head(asked).data
      <4>1. /\ r \in Rectangles /\ r.x = 0 /\ r.y = 0
            /\ r.w = (IF q.w > si.w THEN si.w ELSE q.w)
            /\ r.h = (IF q.h > si.h THEN si.h ELSE q.h)
        BY <1>4, <2>5, AnswerFits
      <4>2. q.w >= si.w /\ q.h >= si.h /\ q.w \in Nat /\ q.h \in Nat /\ si.w \in Nat /\ si.h \in Nat
        BY <1>4, <2>5, ScreenAssumption DEF Covers, Corner, Rectangles, Sizes
      <4> HIDE DEF q
      <4> QED
        BY <4>1, <4>2
    <3>2. Covers(r, si)
      BY <1>4, <3>1, ScreenAssumption DEF Covers, Sizes
    <3> QED
      BY <3>1, <3>2 DEF Raws, Items, Headers, Encodings, rfbServerToClient,
                        rfbFramebufferUpdateRectHeader, Item
  <2> HIDE DEF a, b, c
  <2>7. /\ Meets(wire, Raws(si)) => Meets(wire', Raws(si))
        /\ b \in Raws(si) => Meets(wire', Raws(si))
        /\ Meets(wire, Resizes) => Meets(wire', Resizes)
    BY <1>3, <2>2, MeetsThreeMore
  <2>8. Settled' => Settled /\ si = server.size
    <3>1. Settled' => Settled
      BY <2>1, <2>4, <2>7 DEF Settled
    <3>2. Settled => si = server.size
      BY <1>2 DEF Settled, Scaling
    <3> QED
      BY <3>1, <3>2
  <2>9. Meets(asked, Requests(si)) => Head(asked) \in Requests(si) \/ Meets(asked', Requests(si))
    BY <1>3, <2>1, MeetsTail
  <2>10. Settled' => Settled
    BY <2>8
  <2>11. Settled' /\ Meets(asked, Requests(si)) =>
           Meets(asked', Requests(si)) \/ Meets(wire', Raws(si))
    BY <2>6, <2>7, <2>8, <2>9
  <2> QED
    BY <1>2, <2>7, <2>10, <2>11, KeepsFresh
<1>8. CASE ServerScales_
  <2> DEFINE m == rfbReSizeFrameBufferMsg(Scaled(server.size))
  <2>1. wire' = wire \o <<m>>
    BY <1>8 DEF ServerScales_, Says
  <2>2. m \in Resizes
    BY <1>4, ScaledSizes DEF rfbReSizeFrameBufferMsg, Item, Items, Resizes, rfbServerToClient
  <2> HIDE DEF m
  <2>3. Meets(wire', Resizes)
    BY <1>3, <2>1, <2>2, MeetsOneMore
  <2> QED
    BY <2>3 DEF Fresh, Settled
<1>9. ASSUME asked' = asked, server'.resize = server.resize, server'.open = server.open,
             \/ \E a : wire' = wire \o <<a>>
             \/ \E a, b : wire' = wire \o <<a, b>>
      PROVE  Fresh'
  <2>1. ASSUME NEW S, Meets(wire, S) PROVE Meets(wire', S)
    <3>1. CASE \E a : wire' = wire \o <<a>>
      BY <1>3, <2>1, <3>1, MeetsOneMore
    <3>2. CASE \E a, b : wire' = wire \o <<a, b>>
      BY <1>3, <2>1, <3>2, MeetsTwoMore
    <3> QED
      BY <1>9, <3>1, <3>2
  <2>2. Settled' => Settled
    BY <1>9, <2>1 DEF Settled
  <2>3. Meets(wire, Raws(si)) => Meets(wire', Raws(si))
    BY <2>1
  <2> QED
    BY <1>2, <1>9, <2>2, <2>3, KeepsFresh
<1>10. CASE ServerTells
  <2>1. (\E a : wire' = wire \o <<a>>) /\ asked' = asked /\ server' = server
    BY <1>10 DEF ServerTells, Says
  <2> QED
    BY <1>9, <2>1
<1>11. CASE ServerUpdates
  <2>1. PICK n \in 1..MaxRects :
          /\ wire' = wire \o <<rfbFramebufferUpdateMsg(n)>>
          /\ server' = [server EXCEPT !.rects = n, !.drawn = server.drawn + n]
    BY <1>11 DEF ServerUpdates, Says
  <2>2. server'.resize = server.resize /\ server'.open = server.open
    BY <1>4, <2>1
  <2>3. asked' = asked
    BY <1>11 DEF ServerUpdates
  <2> QED
    BY <1>9, <2>1, <2>2, <2>3
<1>12. CASE ServerRect
  <2>1. asked' = asked /\ server' = [server EXCEPT !.rects = @ - 1]
    BY <1>12 DEF ServerRect
  <2>2. server'.resize = server.resize /\ server'.open = server.open
    BY <1>4, <2>1
  <2>3. (\E a : wire' = wire \o <<a>>) \/ (\E a, b : wire' = wire \o <<a, b>>)
    BY <1>12 DEF ServerRect, Says
  <2> QED
    BY <1>9, <2>1, <2>2, <2>3
<1>13. CASE ServerCloses
  <2>1. server'.open = FALSE
    BY <1>4, <1>13 DEF ServerCloses
  <2> QED
    BY <2>1 DEF Fresh, Settled
<1> QED
  BY <1>5, <1>6, <1>7, <1>8, <1>10, <1>11, <1>12, <1>13 DEF Server

\* Fresh is inductive.
LEMMA StepFresh ==
  ASSUME WholeScreen, IInv, Scaling, Fresh, Next
  PROVE  Fresh'
<1>1. CASE main' \in Looping
  BY <1>1, ClientFresh, ServerFresh DEF Next
<1>2. CASE main' \notin Looping
  BY <1>2 DEF Fresh
<1> QED
  BY <1>1, <1>2

\* When nothing is under way, v_buf is the server's picture, in the server's colours
\* (Mirror), if a menu covers all of it.
THEOREM StaysMirror ==
  ASSUME WholeScreen
  PROVE  Spec => []Mirror
<1> DEFINE Inv == IInv /\ Scaling /\ Fresh /\ Colours
<1>1. Init => Inv
  <2>1. Init => Scaling /\ Fresh /\ Colours
    BY DEF Init, Scaling, Fresh, Colours, Looping
  <2> QED
    BY <2>1, InitIInv
<1>2. Inv /\ [Next]_vars => Inv'
  <2>1. CASE Next
    BY <2>1, StepIInv, StepScaling, StepFresh, StepColours
  <2>2. CASE UNCHANGED vars
    BY <2>2, StepIInv DEF Scaling, Fresh, Settled, Colours, vars, client
  <2> QED
    BY <2>1, <2>2
<1>3. Inv => Mirror
  <2> SUFFICES ASSUME IInv, Scaling, Fresh, Colours,
                      main = "loop", wire = << >>, asked = << >>, ~ server.resize, server.open
               PROVE  Pixels(Whole(si)) \subseteq synced /\ si = server.size /\ palette = "vdr"
    BY DEF Mirror
  <2>1. /\ ~ Meets(wire, Resizes) /\ ~ Meets(wire, Raws(si))
        /\ ~ Meets(asked, ScaleQuestions) /\ ~ Meets(asked, Requests(si))
    BY MeetsNothing
  <2>2. server.open = TRUE /\ server.resize = FALSE
    BY DEF IInv, Typed
  <2>3. Pixels(Whole(si)) \subseteq synced
    BY <2>1, <2>2 DEF Fresh, Settled, Looping
  <2>4. si = server.size
    BY <2>1 DEF Scaling, Looping
  <2> QED
    BY <2>3, <2>4 DEF Colours
<1> HIDE DEF Inv
<1> QED
  BY <1>1, <1>2, <1>3, PTL DEF Spec
================================================================================
