CONSTANTS
    Parts = {"signalling", "snapshots", "invites", "demux", "annexb", "localcam"}
    Timeout = 2
    MaxRestarts = 1
    Requests = {r1, r2}
    Handlers = {h1, h2}
    Nobody = nobody
    Calls = {i1, i2, i3}
    PortMin = 10
    PortMax = 11
    Units <- MCUnits
    MaxUnits = 3
    Forms <- MCForms
    Outputs <- MCOutputs
    MaxRead = 6
    Limit = 14
    Viewers = {v1, v2}
    Chunks <- MCChunks
    MaxChunks = 2
    MaxSetups = 2
    MaxPayload = 4
    SeqNumbers = 4
SPECIFICATION Spec
INVARIANTS
    TypeOK
    SnapshotsSound
    ReceiversSound
    
    
PROPERTIES
    OffShownOffline
    SilentForgotten
CHECK_DEADLOCK FALSE
