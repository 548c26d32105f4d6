SPECIFICATION FairTunnelSpec
CONSTANTS
    MaxStreams = 2
    MaxIds = 2
    MaxData = 1
    Services = {"webui", "other"}
INVARIANTS NoCrosstalk
PROPERTIES EverythingEnds
CHECK_DEADLOCK FALSE
