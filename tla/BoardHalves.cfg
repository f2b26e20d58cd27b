SPECIFICATION CursorSpec
CONSTANTS
  ScreenCols = 190
  ScreenRows = 22
INVARIANT HalvesCoverHalf
