SPECIFICATION DecodingSpec
CHECK_DEADLOCK FALSE
CONSTANTS
    MaxLen = 5
    HELPER_DEPTH = 4
    StringNest = 1
    Keys = {"apple", "other"}
    MaxNodes = 16
    MaxSignerInfos = 2
    MaxCertificates = 2
    W = 3
    MaxLength = 6
    Texts <- MCTexts
    Clocks <- MCClocks
    Transitions <- MCTransitions
    MaxI32 = 3000
    MaxI64 = 9000
    MaxEntries = 3
    MaxMembers = 3
    RequestDate = 1800
    Envelopes <- McEnvelopes
    NotUtf8 <- McNotUtf8
    NotAscii <- McNotAscii
    DateOf <- McDateOf
    PayloadContents <- McPayloadContents
    ClaimPayloads <- McClaimPayloads
    MIN <- McMin
    MAX = 9000
INVARIANT WalkAcceptsTheGrammar
INVARIANT LimitsBoundTheCostAndRefuseNoMore
INVARIANT AnsweredForIsSigned
INVARIANT DecodersAgree
INVARIANT JavaAgrees
INVARIANT EveryAttributeKept
INVARIANT JudgedAtTheReportedDate
INVARIANT JavaReadsTheSame
