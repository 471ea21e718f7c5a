CONSTANTS
  Kinds = {"T6", "T6PC", "MS912X", "MS913X"}
  T6Modes = {2, 3}
  MsModes = {2, 4}
  Colours = {0, 1}
  MaxDraw = 1
  MaxLit = 1
  Vram = {17}
  MaxStep = 2
SPECIFICATION Spec
CONSTRAINT Explored
INVARIANTS TypeOK BufferFits WireCurrent FlushShows
PROPERTIES CommandsApart Resent
