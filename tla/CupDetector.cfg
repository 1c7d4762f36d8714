SPECIFICATION Spec
CONSTANTS
  None = None
  Width = 8
  Height = 6
  Frames <- MCFrames
INVARIANTS SuppressesNonMaxima PublishedInFrame SettlesInFive
PROPERTY KeepsPublishing
