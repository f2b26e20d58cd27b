SPECIFICATION CursorFairSpec
CONSTANTS
  ScreenCols = 190
  ScreenRows = 22
INVARIANTS
  CursorShown
  PointedNumbers
  CoverageMatchesTable
  SlipsReadable
PROPERTY ScrollEnds
