SPECIFICATION Spec
CONSTANTS
    Kinds = {"plain", "ecc", "scrambled"}
    NumWords = 3
    Width32 = 2
    Data <- MCData
    EccData <- MCEccData
    Strays <- MCStrays
    Keys <- MCKeys
    Nonces <- MCNonces
    Flips <- MCFlips
    MaxCalls = 3
INVARIANTS ReadBack IntegrityHonest CodesDetect PrinceCorrect ScramblingInvertible
CHECK_DEADLOCK FALSE
