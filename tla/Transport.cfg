SPECIFICATION TransportSpec
CONSTANTS
  FltBlocks = 3
  FltChannels = {c1}
  FltSlots = 3
  FltSizes = {1, 2}
  ShortMiss = FALSE
  FltEnvs = {{"control", "busy", "stop", "sections"}}
  MaxRegCalls = 2
  RegEnvs = {{"guarded"}}
  XcPes = {2, 3}
  XcFixed = {0, 31}
  XcSlots = 6
  XcQueue = 1
  XcVesta = TRUE
  XcEnvs = {{"SEC", "PES"}, {"PES", "PCR"}, {"BUCKET", "TS"}, {"DECODER"}}
  UbBlocks = 4
  UbEnvs = {{"full", "restart", "reset", "signal"}, {"full", "restart", "reset", "nonblock"}}
  ClkPids = {1, 2}
  ClkGain = 2
  ClkClamp = 1
  ClkLoadClamp = 3
  PwmHalf = 8
  ClkAdjusts <- MCAdjusts
  ClkEnvs = {{"pcr", "event", "busy"}, {"event", "match", "first"}, {"pcr", "errors"}, {"pcr", "video"}, {"pcr", "pwm"}, {"pcr", "silence"}, {"audio"}}
  PvrSources = {"CI0", "CI1"}
  PvrChunks = 4
  PvrSlots = 2
  PvrMms = {m1, m2}
  PvrBlocks = {1, 2, 3}
  PvrEnvs = {{"write"}, {"buffer"}, {"config", "badirq"}, {"write", "flush"}, {"ts"}, {"write", "signal"}}
INVARIANTS
  
  
  ChannelsAgree
  PlaybackAsAsked
PROPERTIES
  WalkedWhileWritten
  EventsAreHandled
  ClockFollows
CHECK_DEADLOCK FALSE
