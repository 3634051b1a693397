SPECIFICATION ParseSpec
CONSTANTS
    Prefix <- MCPrefix
    StreamName <- MCStreamName
    MaxDirectives = 4
INVARIANTS
    LongestPrefixLastDirectiveWins
    PolicyIsNormalForm
