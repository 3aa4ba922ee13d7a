CONSTANTS
    Inputs <- ReadingInputs
    Abbreviations <- AbbreviationsMC
    Numerals <- NumeralsMC
    Spellings <- SpellingsMC
    YamlNames <- YamlNamesMC
    Garbage <- GarbageMC
    Infinity = 1000
SPECIFICATION Spec
INVARIANTS
    TypeOK
    ReadAsWritten
    AcceptedIsConsistent
    ExitCodeExplained
    RanksRespectOrder
    CommandLineWins
    FocusRespected
    LoggedAsAsked
    VerdictEarned
PROPERTY
    Ends
