-------------------------------- MODULE MCViewer --------------------------------
\* Viewer for TLC: with scale 1 a few rectangles that overlap, touch the edges or
\* are empty; with other scales one of every position and extent.
EXTENDS Viewer

Few ==
  {Rect(0, 0, v_xsize, v_ysize), Rect(0, 0, 2, 2), Rect(1, 1, 2, 2), Rect(4, 0, 2, 2),
   Rect(1, 0, 0, 1)}

Every ==
  {Rect(x, y, w, h) : x \in 0..(v_xsize - 1), y \in 0..(v_ysize - 1),
                      w \in 1..v_xsize, h \in 1..v_ysize}

MaxDrawnOf == [s \in Scales |-> IF s = 1 THEN 2 ELSE 1]

AreasOf == [s \in Scales |-> IF s = 1 THEN Few ELSE Every]
================================================================================
