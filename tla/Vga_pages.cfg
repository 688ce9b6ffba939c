SPECIFICATION VgaSpec
CONSTANTS
  Width = 3
  Height = 2
  Lines = 4
  TabStop = 2
  Entries = {"a"}
  CLEAR = " "
INVARIANTS
  ScreenShowsViewport
  ViewportBounded
PROPERTIES
  TextKept
