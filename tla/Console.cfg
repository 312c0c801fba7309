INIT ConsoleInit
NEXT ConsoleNext
CONSTANTS
  GsFiles = {f1, f2}
  GsMax = 3
  GsMaxLocks = 2
  GsMargin = 2
  GsMargins = {0, 2, 4}
  GsWindows = {0, 2}
  GsScreen = 8
  GsWindow = FALSE
  GsEnvs = {{"cursor", "CUR", "swap", "ANIM"}, {"clut", "yuv", "GFX", "IMG"}, {"twin", "GFX"}, {"raw", "clut", "hook", "second"}, {"clut", "locks", "mmap"}, {"clut", "cursor", "CUR", "screen", "window"}, {"cursor", "enable", "EDAF", "signal", "CUR"}, {"fb", "cmap"}, {"fb", "mode"}, {"fb", "fail"}, {"fb", "clut", "screen"}, {"fb", "cmap", "mode"}}
  FbConsoles = {1, 2}
  FbMaps = {a, b}
  FbDefault = d
  FbBuffer = 4
  LayPage = 4096
  LayWidths = {3, 33, 64, 1020, 1021}
  LayHeights = {1, 5, 64, 1022}
  LayKinds = {"CLUT8", "CLUT8P", "CLUT4", "CLUT4P", "CLUT2", "CLUT2P", "CUR4", "CUR4P", "CUR2", "CUR2P", "Y422", "Y420", "A422", "A420", "ARGB", "RAW8", "RAW1"}
  LayAlphas = {0, 25, 26, 155, 221}
  LayGreys = {0, 100, 255}
  LayPalBound = 32
  DrawKinds <- MCDrawKinds
  DrawSize <- MCDrawSize
  DrawXs <- MCDrawXs
  DrawYs <- MCDrawYs
  DrawSpans <- MCDrawSpans
  DrawClips <- MCDrawClips
  DrawWord = 256
  DmaPage = 4
  DmaEnvs <- MCDmaEnvs
  DmaMax = 3
  RcGroupBits = 2
  RcKeyBits = 2
  RcKeyinfo <- MCKeyinfo
  RcGroups <- MCGroups
  RcEaten = 2
  RcScripts <- MCScripts
  RcSentCodes <- MCSent
  IrFifo = 2
  IrQueue = 2
  RawFiles = {f1, f2}
  RawMaxOpens = 2
  RawQueue = 4
  RawLengths = {1}
  RawMaxCalls = 3
  KbEnvs = {{"lsft", "rsft"}, {"alt", "plain"}, {"ctl", "prefixed"}, {"lbtn", "open"}, {"rbtn", "print"}, {"pause", "unused"}, {"mouse", "lsft"}}
  KbJitters <- MCKbJitters
  KbLosses = 1
  TtxPes = 3
  TtxPackets = 2
  TtxGaps = {4, 5}
  TtxStart = 50
  TtxBase = 46
  TtxWord = 64
  TtxFields = 6
  TtxCalls = 3
  TtxEnvs = {{"corrupt", "stop"}, {"badstart"}, {"restart", "join", "close"}, {"nomem", "novbi"}}
INVARIANTS
  
  LayoutIsSound
  DrawnAsAsked
  FrameAsAsked
  
  KeyboardAgrees
  TeletextAsSent
PROPERTIES
  WindowStays
CHECK_DEADLOCK FALSE
