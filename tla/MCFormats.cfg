SPECIFICATION MCSpec
CONSTANTS
    Headers <- MCHeaders
    Strings <- MCStrings
    Octets <- MCOctets
    Huffman <- MCHuffman
    Lossy <- MCLossy
    Codings = {"raw", "huffman"}
    DecoderSize = 5000
    EncoderSizes = {2000, 4000}
    PeerSizes = {2000, 5000}
    MaxFields = 2
    MaxQueue = 1
    FramesSent <- MCFrames
    RawSent <- MCRaw
    MaxFrames = 2
    Requests <- MCRequests
    UsizeMax = 255
    MaxRequests = 2
INVARIANTS
    HeadersArrive
    TablesAgree
    FramesArrive
    RequestsArrive
CHECK_DEADLOCK FALSE
