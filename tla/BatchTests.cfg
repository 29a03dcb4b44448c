\* Every test once.
CONSTANTS
    Alphabet <- MCAlphabet
    BeginsWith <- MCBeginsWith
    Lexicon <- MCLexicon
    Spaced <- MCSpaced
    Documents <- MCDocuments
    Start = Start
    Calls = {}
    MaxCalls = 0
    Restrictions = {}
SPECIFICATION TestSpec
INVARIANTS
    AsTested
\* A test stops after its last step.
CHECK_DEADLOCK FALSE
