SPECIFICATION Spec
CONSTANTS
  Short = 4
  Long = 7
  TooLong = {17, 35}
  Files <- AllFiles
  MaxReplicas = 3
  Width = 5
  STRMAX = 2
  Tails <- Behind
  Strays <- StrayBs
  Paddings <- Padded
INVARIANTS SegmentsAreTheFile WordsAreCutWords TailSpoilsLastWordOnly
CHECK_DEADLOCK FALSE
