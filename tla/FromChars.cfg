CONSTANTS
    WordBits = 14
    LimbBits = 7
    FloatMantissa = 2
    FloatBias = 4
    FloatInfinite = 18
    DoubleMantissa = 3
    DoubleBias = 5
    DoubleInfinite = 21
    ExponentCap = 100
    BigintLimbs = 8
    LargeStep = 8
    Inputs <- MCInputs
    Modes = {"nearest", "up", "down"}
SPECIFICATION CallSpec
INVARIANT NearestValue
INVARIANT TakesLongestNumber
INVARIANT RangeReported
INVARIANT BigintsFit
