\* Values of every kind, written and read under every option.
CONSTANTS
    Inputs <- NoOctets
    MaxNesting = 8
    FragmentSize = 2
    CerChunk = 2
    Messages <- RoundTrips
SPECIFICATION Exchange
INVARIANTS WrittenIsRead OneEncodingPerValue
