SPECIFICATION FairSpec
CONSTANTS
  v_xsize = 6
  v_ysize = 3
  p_xsize = 6
  p_ysize = 3
  pv_xsize = 3
  pv_ysize = 2
  keybd_w = 1
  keybd_h = 1
  Scales = {1, 3}
  MenuScales = {1}
  ServerScales = {1, 2}
  Areas <- AreasOf
  Schemes = {"none", "vnc", "failed", "other"}
  MaxWire = 3
  MaxAsked = 2
  MaxRects = 2
  MaxDrawn <- MaxDrawnOf
INVARIANTS TypeOK InStep Mirror Shown OneTick
PROPERTY LossNoticed
CHECK_DEADLOCK FALSE
