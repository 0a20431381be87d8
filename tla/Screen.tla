--------------------------------- MODULE Screen ---------------------------------
(***************************************************************************)
(* fbgl.c and fbdraw.c: the picture v_buf, as the server draws it, and the *)
(* part of the television screen p_buf that shows it, one physical pixel   *)
(* for a block of v_scale times v_scale virtual ones.  Drawing goes into   *)
(* v_buf, and redraw_virt must then bring the screen up to date, with what *)
(* it works out of the rectangle and the scale.                            *)
(*                                                                         *)
(* Of the colours only this is kept: synced, the pixels of v_buf that are  *)
(* as the server's picture was when it sent what has been read so far, and *)
(* shown, the pixels of the screen that are as v_buf (or the border) wants *)
(* them.  The operators say what a drawing function does to the two sets.  *)
(* v_x0 and v_y0 are 0, as vp_pan leaves them (NothingPans, ScreenProofs). *)
(***************************************************************************)
EXTENDS Integers

CONSTANTS
  v_xsize, v_ysize,    \* v_buf
  pv_xsize, pv_ysize,  \* the visible part of the screen
  keybd_w, keybd_h     \* the on-screen keyboard, 480 times 160

ASSUME ScreenAssumption ==
  /\ {v_xsize, v_ysize, pv_xsize, pv_ysize} \subseteq Nat \ {0}
  /\ keybd_w \in 1..pv_xsize /\ keybd_h \in 1..pv_ysize

\* Rectangles.
Rect(x, y, w, h) == [x |-> x, y |-> y, w |-> w, h |-> h]
Rectangles == [x : Nat, y : Nat, w : Nat, h : Nat]
Pixels(r) == (r.x .. r.x + r.w - 1) \X (r.y .. r.y + r.h - 1)
Within(r, w, h) == r.x + r.w <= w /\ r.y + r.h <= h
Clipped(r, w, h) ==
  [r EXCEPT !.w = IF r.x + @ > w THEN w - r.x ELSE @,
            !.h = IF r.y + @ > h THEN h - r.y ELSE @]

VPixels == Pixels(Rect(0, 0, v_xsize, v_ysize))
PPixels == Pixels(Rect(0, 0, pv_xsize, pv_ysize))

\* The virtual pixels a physical one is mixed from.  s2aa_pixel and s4aa_pixel
\* read four bytes for what they take for two pixels, and a pixel is one byte.
BlockWidth(scale) == CASE scale = 2 -> 4 [] scale = 4 -> 6 [] OTHER -> scale
Block(p, scale) == Pixels(Rect(p[1] * scale, p[2] * scale, BlockWidth(scale), scale))

\* C's remainder, which has the sign of a.
CMod(a, b) == IF a >= 0 THEN a % b ELSE - ((- a) % b)

--------------------------------------------------------------------------------
(***************************************************************************)
(* vp_pan: where the picture starts on the screen, in one coordinate.      *)
(***************************************************************************)
\* x0, moved so that a screen of w virtual pixels shows all it can of size ones.
InPicture(x0, w, size) ==
  LET last == size - w
      near == IF (size > w /\ x0 > last) \/ (size <= w /\ x0 < last) THEN last ELSE x0
  IN IF (size > w /\ near < 0) \/ (size <= w /\ near > 0) THEN 0 ELSE near

\* An even number, or a multiple of the scale.
vp_pan_virt(x0, pv, size, scale) ==
  LET at == InPicture(x0, scale * pv, size)
  IN IF scale = 1 THEN at - (at % 2) ELSE at - CMod(at, scale)

vp_pan(v0, dx, pv, size, scale) == vp_pan_virt(v0 + dx * scale, pv, size, scale)

--------------------------------------------------------------------------------
(***************************************************************************)
(* overlay.c: the on-screen keyboard, the only overlay there is.           *)
(***************************************************************************)
\* A new overlay is visible.
add_overlay(area) == [area |-> area, visible |-> TRUE]

overlays_init ==
  add_overlay(Rect((pv_xsize - keybd_w) \div 2, pv_ysize - keybd_h, keybd_w, keybd_h))

toggle_keyboard(ov) == [ov EXCEPT !.visible = ~ @]

\* The pixels it takes of those that were drawn.
redraw_overlays(ov, drawn) == IF ov.visible THEN drawn \cap Pixels(ov.area) ELSE {}

--------------------------------------------------------------------------------
(***************************************************************************)
(* redraw_virt: the physical pixels it draws anew.                         *)
(***************************************************************************)
\* One coordinate: from the virtual start v and length n to the physical start
\* and length, on a picture of that size.
\* Mutant: the start is moved down to a multiple, the end is not kept.
SpanShort(v, n, scale, size) ==
  LET first == v - CMod(v, scale)
      long == (n + scale - 1) \div scale
  IN <<first \div scale, IF first + scale * long > size THEN long - 1 ELSE long>>

Span(v, n, scale, size) ==
  LET first == v - CMod(v, scale)
      long == (n + CMod(v, scale) + scale - 1) \div scale
  IN <<first \div scale, IF first + scale * long > size THEN long - 1 ELSE long>>

\* Clipping to the screen.
ClipSpan(s, size) ==
  LET at == IF s[1] < 0 THEN 0 ELSE s[1]
      long == IF s[1] < 0 THEN s[2] + s[1] ELSE s[2]
  IN at .. (IF at + long > size THEN size ELSE at + long) - 1

redraw_virt(r, scale) ==
  LET wide == scale = 3   \* "need additional pixels for subpixel antialiasing"
      xs == IF scale = 1 THEN <<r.x, r.w>>
            ELSE Span(IF wide THEN r.x - 3 ELSE r.x, IF wide THEN r.w + 6 ELSE r.w,
                      scale, v_xsize)
      ys == IF scale = 1 THEN <<r.y, r.h>> ELSE Span(r.y, r.h, scale, v_ysize)
  IN ClipSpan(xs, pv_xsize) \X ClipSpan(ys, pv_ysize)

\* What is shown when the pixels of changed have new values and those of drawn
\* are drawn from v_buf, which outside of the picture is not the border, and then
\* the overlay ov.
Redrawn(shown, changed, drawn, scale, ov) ==
  {p \in PPixels :
     IF p \in drawn THEN Block(p, scale) \subseteq VPixels /\ p \notin redraw_overlays(ov, drawn)
     ELSE p \in shown /\ Block(p, scale) \cap changed = {}}

\* The whole screen, with the border.
redraw_phys_all(ov) == PPixels \ redraw_overlays(ov, PPixels)

--------------------------------------------------------------------------------
(***************************************************************************)
(* The drawing functions, as the set of synced pixels they leave.          *)
(***************************************************************************)
\* gl_putbox, gl_fillboxnoredraw: what the server said for r.
Put(synced, r) == synced \cup Pixels(r)

\* gl_fillbox with a colour the server knows nothing of.
Blank(synced, r) == synced \ Pixels(r)

\* gl_copybox copies row by row, upwards or downwards: was row j of the source
\* overwritten before it was copied to to?
\* Mutant: always from the top.
OverwrittenDown(from, to, h, j) == \E k \in 0..(j - 1) : to.y + k = from.y + j

Overwritten(from, to, h, j) ==
  \E k \in 0..(h - 1) :
    /\ to.y + k = from.y + j
    /\ (to.y < from.y /\ k < j) \/ (to.y > from.y /\ k > j)

\* from and to have the same size; a pixel is right if its source was, and still
\* had its value.
Copy(synced, from, to) ==
  {p \in VPixels :
     IF p \notin Pixels(to) THEN p \in synced
     ELSE LET q == <<from.x + p[1] - to.x, from.y + p[2] - to.y>> IN
          /\ q \in synced
          /\ ~ (q \in Pixels(to) /\ Overwritten(from, to, to.h, p[2] - to.y))}
================================================================================
