SPECIFICATION Spec
CONSTANTS
    Alphabet <- MCAlphabet
    BeginsWith <- MCBeginsWith
    Lexicon <- MCLexicon
    Numbers <- MCNumbers
    Setups <- MCSetups
    MaxFrames = 2
INVARIANTS
    
    DrawsInOwnWindow
    SwapAfterAllDrawn
    
CHECK_DEADLOCK FALSE
