\* Buffers of three and five bytes; every fragment of two bytes and some of three or more.
SPECIFICATION ParserFairSpec
CONSTANTS
    Fragments <- MCFragments
    ShortMessages <- MCShortMessages
    MaxSize = 5
    Capacity = 3
INVARIANT ParserTypeOK
PROPERTY ParsesStream
PROPERTY ParserReturns
