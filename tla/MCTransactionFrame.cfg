SPECIFICATION Spec
CONSTANTS
    MSB = 2
    U16Max = 20
    UsizeMax = 255
    SignatureSize = 1
    KeySize = 1
    HashSize = 1
    WordSize = 1
    PacketSize = 20
    MaxLen = 21
INVARIANTS
    FrameCoversBuffer
    IteratorsRetraceParse
    ConfigWordsAreDisjoint
    MessageParsesAlone
    PrefixIsSelfContained
    BlockhashKeepsTheView
