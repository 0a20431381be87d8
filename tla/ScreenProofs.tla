------------------------------ MODULE ScreenProofs ------------------------------
(***************************************************************************)
(* What the functions of Screen do, for every size of the picture and of   *)
(* the screen.                                                             *)
(***************************************************************************)
EXTENDS Screen, TLAPS

\* Without a displacement, and nothing asks for one, the picture stays at its corner,
\* whatever its size and scale.
THEOREM NothingPans ==
  ASSUME NEW pv \in Nat \ {0}, NEW size \in Nat \ {0}, NEW scale \in 1..4
  PROVE  vp_pan(0, 0, pv, size, scale) = 0
<1>1. ASSUME NEW w \in Nat \ {0} PROVE InPicture(0, w, size) = 0
  BY DEF InPicture
<1>2. CMod(0, scale) = 0
  BY DEF CMod
<1>3. CASE scale = 1
  BY <1>1, <1>3 DEF vp_pan, vp_pan_virt
<1>4. CASE scale = 2
  BY <1>1, <1>2, <1>4 DEF vp_pan, vp_pan_virt
<1>5. CASE scale = 3
  BY <1>1, <1>2, <1>5 DEF vp_pan, vp_pan_virt
<1>6. CASE scale = 4
  BY <1>1, <1>2, <1>6 DEF vp_pan, vp_pan_virt
<1> QED
  BY <1>3, <1>4, <1>5, <1>6

\* A coordinate of the screen in a clipped span.
LEMMA InClipSpan ==
  ASSUME NEW at \in Int, NEW long \in Nat, NEW pv \in Nat \ {0}, NEW x \in 0..(pv - 1)
  PROVE  x \in ClipSpan(<<at, long>>, pv) <=> at <= x /\ x < at + long
BY DEF ClipSpan

\* At scale 3, a row of the screen that is not redrawn stands for rows of the
\* picture that have not changed.
LEMMA ThreeRows ==
  ASSUME NEW size \in Nat \ {0}, size % 3 = 0, NEW v \in Nat, NEW n \in Nat \ {0},
         v + n <= size, NEW pv \in Nat \ {0}, NEW x \in 0..(pv - 1)
  PROVE  IF x \in ClipSpan(Span(v, n, 3, size), pv)
         THEN 3 * x + 2 < size
         ELSE 3 * x + 2 < v \/ 3 * x >= v + n
<1> DEFINE c == v % 3
           long == (n + c + 2) \div 3
           first == (v - c) \div 3
<1>1. CMod(v, 3) = c
  BY DEF CMod
<1> PICK k \in Nat : size = 3 * k
  OBVIOUS
<1>2. /\ c \in 0..2 /\ 3 * first = v - c /\ first \in Nat
      /\ long \in Nat /\ 3 * long >= n + c /\ 3 * long <= n + c + 2
      /\ first + long <= k
  <2>1. c \in 0..2 /\ 3 * first = v - c /\ first \in Nat
    OBVIOUS
  <2>2. long \in Nat /\ 3 * long >= n + c /\ 3 * long <= n + c + 2
    BY <2>1
  <2> HIDE DEF c, long, first
  <2> QED
    BY <2>1, <2>2
<1>3. Span(v, n, 3, size) = <<first, long>>
  <2>1. Span(v, n, 3, size) = <<first, IF (v - c) + 3 * long > size THEN long - 1 ELSE long>>
    BY <1>1 DEF Span
  <2>2. (v - c) + 3 * long <= size
    <3> HIDE DEF c, long, first
    <3> QED
      BY <1>2
  <2> HIDE DEF c, long, first
  <2> QED
    BY <1>2, <2>1, <2>2
<1> HIDE DEF c, long, first
<1>4. x \in ClipSpan(<<first, long>>, pv) <=> first <= x /\ x < first + long
  BY <1>2, InClipSpan
<1>5. CASE first <= x /\ x < first + long
  <2>1. 3 * x + 2 < size
    BY <1>2, <1>5
  <2> QED
    BY <2>1, <1>3, <1>4, <1>5
<1>6. CASE ~ (first <= x /\ x < first + long)
  <2>1. 3 * x + 2 < v \/ 3 * x >= v + n
    BY <1>2, <1>6
  <2> QED
    BY <2>1, <1>3, <1>4, <1>6
<1> QED
  BY <1>5, <1>6

\* And a column, though its pixels are mixed of the neighbours.
LEMMA ThreeColumns ==
  ASSUME NEW size \in Nat \ {0}, size % 3 = 0, NEW v \in Nat, NEW n \in Nat \ {0},
         v + n <= size, NEW pv \in Nat \ {0}, NEW x \in 0..(pv - 1)
  PROVE  IF x \in ClipSpan(Span(v - 3, n + 6, 3, size), pv)
         THEN 3 * x + 2 < size
         ELSE 3 * x + 2 < v \/ 3 * x >= v + n
<1> DEFINE u == v - 3
           c == CMod(u, 3)
           long == (n + 6 + c + 2) \div 3
           kept == IF u - c + 3 * long > size THEN long - 1 ELSE long
           first == (u - c) \div 3
<1>1. /\ c \in -2..2 /\ 3 * first = u - c /\ first \in Int
      /\ first >= -1 /\ 3 * first <= v
      /\ long \in Nat \ {0} /\ 3 * long >= n + 6 + c /\ 3 * long <= n + 6 + c + 2
  BY DEF CMod
<1>2. Span(v - 3, n + 6, 3, size) = <<first, kept>>
  BY <1>1 DEF Span
<1> PICK k \in Nat : size = 3 * k
  OBVIOUS
<1>3. /\ kept \in Nat /\ first + kept <= k
      /\ 3 * (first + kept) >= v + n
  <2>1. kept = IF 3 * first + 3 * long > size THEN long - 1 ELSE long
    BY <1>1
  <2>2. u = v - 3
    OBVIOUS
  <2> HIDE DEF c, long, first, kept, u
  <2>3. CASE 3 * first + 3 * long > size
    <3>1. kept = long - 1
      BY <2>1, <2>3
    <3> QED
      BY <1>1, <3>1, <2>2, <2>3
  <2>4. CASE 3 * first + 3 * long <= size
    <3>1. kept = long
      BY <1>1, <2>1, <2>4
    <3> QED
      BY <1>1, <3>1, <2>2, <2>4
  <2> QED
    BY <1>1, <2>3, <2>4
<1>4. u = v - 3
  OBVIOUS
<1> HIDE DEF c, long, first, kept, u
<1>5. x \in ClipSpan(<<first, kept>>, pv) <=> first <= x /\ x < first + kept
  BY <1>1, <1>3, InClipSpan
<1>6. CASE first <= x /\ x < first + kept
  <2>1. 3 * x + 2 < size
    BY <1>3, <1>1, <1>6
  <2> QED
    BY <2>1, <1>2, <1>5, <1>6
<1>7. CASE x < first
  <2>1. 3 * x + 2 < v
    BY <1>1, <1>7
  <2> QED
    BY <2>1, <1>1, <1>2, <1>3, <1>5, <1>7
<1>8. CASE x >= first + kept
  <2>1. 3 * x >= v + n
    BY <1>3, <1>1, <1>8
  <2> QED
    BY <2>1, <1>1, <1>2, <1>3, <1>5, <1>8
<1> QED
  BY <1>1, <1>3, <1>6, <1>7, <1>8

\* redraw_virt leaves no pixel of the screen behind, at the scales it is right for,
\* whatever rectangle of the picture has changed (fbdraw.c:395-474).
THEOREM NothingStale ==
  ASSUME NEW scale \in {1, 3}, scale = 3 => v_xsize % 3 = 0 /\ v_ysize % 3 = 0,
         NEW r \in Rectangles, r.w > 0, r.h > 0, Within(r, v_xsize, v_ysize),
         NEW ov, ov.visible = FALSE
  PROVE  Redrawn(PPixels, Pixels(r), redraw_virt(r, scale), scale, ov) = PPixels
<1> USE ScreenAssumption
<1> DEFINE drawn == redraw_virt(r, scale)
<1>1. redraw_overlays(ov, drawn) = {}
  BY DEF redraw_overlays
<1>2. ASSUME NEW p \in PPixels
      PROVE  IF p \in drawn THEN Block(p, scale) \subseteq VPixels
             ELSE Block(p, scale) \cap Pixels(r) = {}
  <2> PICK x \in 0..(pv_xsize - 1), y \in 0..(pv_ysize - 1) : p = <<x, y>>
    BY <1>2 DEF PPixels, Pixels, Rect
  <2> DEFINE b == Block(p, scale)
  <2>1. b = (x * scale .. x * scale + scale - 1) \X (y * scale .. y * scale + scale - 1)
    BY DEF Block, BlockWidth, Pixels, Rect
  <2>2. VPixels = (0 .. v_xsize - 1) \X (0 .. v_ysize - 1)
    BY DEF VPixels, Pixels, Rect
  <2>3. r.x \in Nat /\ r.y \in Nat /\ r.w \in Nat \ {0} /\ r.h \in Nat \ {0}
        /\ r.x + r.w <= v_xsize /\ r.y + r.h <= v_ysize
    BY DEF Rectangles, Within
  <2>4. Pixels(r) = (r.x .. r.x + r.w - 1) \X (r.y .. r.y + r.h - 1)
    BY DEF Pixels
  <2>5. CASE scale = 1
    <3>1. drawn = ClipSpan(<<r.x, r.w>>, pv_xsize) \X ClipSpan(<<r.y, r.h>>, pv_ysize)
      BY <2>5 DEF redraw_virt
    <3>2. x \in ClipSpan(<<r.x, r.w>>, pv_xsize) <=> r.x <= x /\ x < r.x + r.w
      BY <2>3, InClipSpan
    <3>3. y \in ClipSpan(<<r.y, r.h>>, pv_ysize) <=> r.y <= y /\ y < r.y + r.h
      BY <2>3, InClipSpan
    <3>4. b = {x} \X {y}
      BY <2>1, <2>5
    <3> HIDE DEF drawn, b
    <3> QED
      BY <2>2, <2>3, <2>4, <3>1, <3>2, <3>3, <3>4 DEF b
  <2>6. CASE scale = 3
    <3> DEFINE xs == ClipSpan(Span(r.x - 3, r.w + 6, 3, v_xsize), pv_xsize)
               ys == ClipSpan(Span(r.y, r.h, 3, v_ysize), pv_ysize)
    <3>1. drawn = xs \X ys
      BY <2>6 DEF redraw_virt
    <3>2. IF x \in xs THEN 3 * x + 2 < v_xsize ELSE 3 * x + 2 < r.x \/ 3 * x >= r.x + r.w
      BY <2>3, <2>6, ThreeColumns
    <3>3. IF y \in ys THEN 3 * y + 2 < v_ysize ELSE 3 * y + 2 < r.y \/ 3 * y >= r.y + r.h
      BY <2>3, <2>6, ThreeRows
    <3>4. b = (3 * x .. 3 * x + 2) \X (3 * y .. 3 * y + 2)
      BY <2>1, <2>6
    <3> HIDE DEF drawn, b, xs, ys
    <3>5. p \in drawn <=> x \in xs /\ y \in ys
      BY <3>1
    <3>6. CASE x \in xs /\ y \in ys
      BY <2>2, <3>2, <3>3, <3>4, <3>5, <3>6 DEF b
    <3>7. CASE x \notin xs
      BY <2>3, <2>4, <3>2, <3>4, <3>5, <3>7 DEF b
    <3>8. CASE y \notin ys
      BY <2>3, <2>4, <3>3, <3>4, <3>5, <3>8 DEF b
    <3> QED
      BY <3>6, <3>7, <3>8
  <2> QED
    BY <2>5, <2>6
<1> HIDE DEF drawn
<1>3. Redrawn(PPixels, Pixels(r), drawn, scale, ov) = PPixels
  BY <1>1, <1>2 DEF Redrawn
<1> QED
  BY <1>3 DEF drawn

\* Whatever was on the screen, it is overdrawn when as much of the picture as the
\* screen shows is redrawn, without scaling (viewermenu.cpp:699-724).
LEMMA RedrawnAll ==
  ASSUME NEW w \in pv_xsize .. v_xsize, NEW h \in pv_ysize .. v_ysize,
         NEW ov, ov.visible = FALSE, NEW shown,
         NEW r, r = Rect(0, 0, w, h)
  PROVE  Redrawn(shown, Pixels(r), redraw_virt(r, 1), 1, ov) = PPixels
<1> USE ScreenAssumption
<1> DEFINE drawn == redraw_virt(r, 1)
<1>1. drawn = ClipSpan(<<0, w>>, pv_xsize) \X ClipSpan(<<0, h>>, pv_ysize)
  BY DEF redraw_virt, Rect
<1>2. ClipSpan(<<0, w>>, pv_xsize) = 0 .. (pv_xsize - 1)
  BY DEF ClipSpan
<1>3. ClipSpan(<<0, h>>, pv_ysize) = 0 .. (pv_ysize - 1)
  BY DEF ClipSpan
<1>4. PPixels = (0 .. pv_xsize - 1) \X (0 .. pv_ysize - 1)
  BY DEF PPixels, Pixels, Rect
<1>5. redraw_overlays(ov, drawn) = {}
  BY DEF redraw_overlays
<1>6. ASSUME NEW p \in PPixels PROVE Block(p, 1) \subseteq VPixels
  <2> PICK x \in 0..(pv_xsize - 1), y \in 0..(pv_ysize - 1) : p = <<x, y>>
    BY <1>4, <1>6
  <2>1. Block(p, 1) = {<<x, y>>}
    BY DEF Block, BlockWidth, Pixels, Rect
  <2>2. VPixels = (0 .. v_xsize - 1) \X (0 .. v_ysize - 1)
    BY DEF VPixels, Pixels, Rect
  <2> QED
    BY <2>1, <2>2
<1> HIDE DEF drawn
<1>7. Redrawn(shown, Pixels(r), drawn, 1, ov) = PPixels
  BY <1>1, <1>2, <1>3, <1>4, <1>5, <1>6 DEF Redrawn
<1> QED
  BY <1>7 DEF drawn

\* gl_copybox copies no row it has overwritten before (fbgl.c:78-114).
LEMMA NeverOverwritten ==
  ASSUME NEW from \in Rectangles, NEW to \in Rectangles, NEW h \in Nat, NEW j \in Nat
  PROVE  ~ Overwritten(from, to, h, j)
BY DEF Overwritten, Rectangles

\* A part of the picture that is right stays right when a part of it is copied to
\* another.
LEMMA CopyKeeps ==
  ASSUME NEW w \in 1..v_xsize, NEW h \in 1..v_ysize,
         NEW from \in Rectangles, NEW to \in Rectangles,
         Within(from, w, h), Within(to, w, h), from.w = to.w, from.h = to.h,
         NEW synced, Pixels(Rect(0, 0, w, h)) \subseteq synced
  PROVE  Pixels(Rect(0, 0, w, h)) \subseteq Copy(synced, from, to)
<1> USE ScreenAssumption
<1> SUFFICES ASSUME NEW x \in 0..(w - 1), NEW y \in 0..(h - 1)
             PROVE  <<x, y>> \in Copy(synced, from, to)
  BY DEF Pixels, Rect
<1> DEFINE p == <<x, y>>
           q == <<from.x + x - to.x, from.y + y - to.y>>
<1>1. p \in VPixels /\ p \in synced
  BY DEF VPixels, Pixels, Rect
<1>2. CASE p \in Pixels(to)
  <2>1. x >= to.x /\ x < to.x + to.w /\ y >= to.y /\ y < to.y + to.h
    BY <1>2 DEF Pixels, Rectangles
  <2>2. q[1] \in 0..(w - 1) /\ q[2] \in 0..(h - 1)
    BY <2>1 DEF Rectangles, Within
  <2>3. q \in synced
    BY <2>2 DEF Pixels, Rect
  <2>4. y - to.y \in Nat /\ to.h \in Nat
    BY <2>1 DEF Rectangles
  <2>5. ~ Overwritten(from, to, to.h, y - to.y)
    BY <2>4, NeverOverwritten
  <2> QED
    BY <1>1, <1>2, <2>3, <2>5 DEF Copy
<1>3. CASE p \notin Pixels(to)
  BY <1>1, <1>3 DEF Copy
<1> QED
  BY <1>2, <1>3
================================================================================
