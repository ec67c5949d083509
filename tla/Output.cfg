SPECIFICATION FairSpec
CONSTANTS
  c1 = c1
  c2 = c2
  Cpus = {c1, c2}
  Boot = c1
  Nil = Nil
  WIDTH = 5
  HEIGHT = 4
  STRIDE = 22
  FONT_WIDTH = 2
  FONT_HEIGHT = 2
  GLYPHS = 3
  NoTable = NoTable
  Fonts <- TwoFonts
  Messages <- Short
  Report <- Letter
  MaxPrints = 2
  MaxJobs = 3
CHECK_DEADLOCK FALSE
INVARIANTS PrintsWhole ScreenIsText
PROPERTIES PortReady Reported
