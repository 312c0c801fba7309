SPECIFICATION DevicesSpec
CONSTANTS
  HeapUnits = 7
  MaxHandles = 3
  HeapBase = 1
  UnitBytes = 2
  HeapWord = 16
  Requests = {0, 1, 4, 5}
  Justifies = {0, 4, 6, 12}
  SciFifo = 2
  SciMaxWait = 2
  SciHalf = 1
  SciWrites = {4}
  SciReads = {2}
  SciParams <- MCSciParams
  AnswerMax = 2
  SciEnvs = {{"para"}, {"any"}, {"signal", "late"}, {"async"}}
  ClipSegs = 3
  ClipKinds = {"main", "mixer", "video"}
  ClipWindow = FALSE
  ClipDrift = 1
  VidModes = {"NORM", "SCALE"}
  VidFmtInit = "NTSC"
  VidWindow = FALSE
  VidEnvs = {{"source", "play", "freeze", "cchan", "complete", "fail"}, {"source", "play", "pause", "stop", "status"}, {"display", "format", "sync", "fail"}, {"source", "still", "cchan"}, {"source", "hold", "single", "forward", "slow", "play"}, {"source", "sfm", "freeze", "play", "cchan"}}
  SegMega = 4
  SegMax = 2
  SegRegs = 5
  SegVideo = {3, 4, 9, 15, 16}
  SegBases = {400, 401, 403, 406}
  SegSizes = {1, 4, 5, 13, 15, 16, 17, 31, 33, 48, 49}
  AudCodes = {"stb", "dts"}
  AudVolMax = 2
  AudWindow = FALSE
  AudEnvs = {{"source", "play", "fail"}, {"sync", "video"}, {"mute", "channel", "format", "mixer", "volume"}, {"source", "channel", "sync"}}
INVARIANTS
  HeapIsSound
  BytesAndSleepers
  
  VideoAgrees
  SurfacesAddressed
  AudioAsAsked
PROPERTIES
  GivesDisjointBlocks
  CallReturns
  PlayEndsFreeze
CHECK_DEADLOCK FALSE
