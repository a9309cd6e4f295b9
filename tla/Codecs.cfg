SPECIFICATION MCSpec
CONSTANTS
    MaxUsize = 2147483647
    MaxU32 = 9999999
    Types = {0, 4}
    Texts <- MCTexts
    Binaries <- MCBinaries
    MaxPackets = 3
    Leaves <- MCLeaves
    Ids = {0, 12}
    Namespaces <- MCNames
    MaxLeaves = 3
    Scalars <- MCScalars
    MaxDepth = 2
INVARIANTS
    StringPayloadRoundTrip
    BinaryPayloadRoundTrip
    PacketRoundTrip
    AttachmentsRestored
    ProtoRoundTrip
    
    BytesBecomeAttachments
    LastValueWins
