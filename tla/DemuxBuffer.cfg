SPECIFICATION Spec
CONSTANTS
  Types = {"SEC", "PES"}
  Sizes = {3, 5}
  Lens = {1, 2, 3}
  Tags = 6
  Word = 16
  Resize = "drained"
INVARIANTS BufferIsContents UnreadIntact WholeSections NoLostWakeup
