CONSTANTS
  Chars = {"a", "!", "*", "esc"}
  MaxField = 3
  CaptionLimit = 9
  TextLimit = 11
SPECIFICATION FairSpec
INVARIANTS
  NilMeansShown
  TwiceOnlyIfLost
  EscapeIsFaithful
  RecordedIsShown
PROPERTY
  SendEnds
