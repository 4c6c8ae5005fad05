\* A tagged INTEGER in indefinite form is not read back.
CONSTANTS
    Inputs <- NoOctets
    MaxNesting = 8
    FragmentSize = 2
    CerChunk = 2
    Messages <- RoundTrips
SPECIFICATION Exchange
INVARIANT EveryCodecAgrees
