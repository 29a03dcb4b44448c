\* Names up to three parts deep, five calls.
CONSTANTS
    Alphabet <- MCAlphabet
    BeginsWith <- MCBeginsWith
    Lexicon <- MCLexicon
    Start <- MCStart
    Calls <- MCCalls
    MaxCalls = 5
    Restrictions = {"inContainers", "addFirst", "linkOnce"}
SPECIFICATION Spec
INVARIANTS
    TypeOK
    LookUpInnermost
    ReferencesCounted
    ContainersComplete
    
    RoundTrip
\* The program stops after its last call.
CHECK_DEADLOCK FALSE
