SPECIFICATION Spec
CONSTANTS
    Reads <- MCReads
    Writes <- MCWrites
    Starts <- MCStarts
    Seeds <- MCSeeds
    Wides <- MCWides
    Flips <- MCFlips
INVARIANTS
    MotorUnderstands
    AnswerIsRead
    DamageIsSeen
