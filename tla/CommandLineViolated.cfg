CONSTANTS
    Inputs <- MergeGiven
    Abbreviations <- AbbreviationsMC
    Numerals <- NumeralsMC
    Spellings <- SpellingsMC
    YamlNames <- YamlNamesMC
    Garbage <- GarbageMC
    Infinity = 1000
SPECIFICATION Spec
INVARIANT
    CommandLineOverrides
