SPECIFICATION FairSpec
CONSTANTS
    QueueSize = 6
    Gran = 2
    MaxUnit = 3
    Setups <- LiveSetups
    NULL = NULL
PROPERTIES
    StoppedChannelResumes
