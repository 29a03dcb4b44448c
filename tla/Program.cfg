SPECIFICATION Spec
CONSTANTS
    Alphabet <- MCAlphabet
    BeginsWith <- MCBeginsWith
    Lexicon <- MCLexicon
    Numbers <- MCNumbers
    Spaced <- MCSpaced
    Documents <- MCDocuments
    Hosts <- MCHosts
    FirstHosts <- MCFirstHosts
    Lines <- MCLines
    PathOf <- MCPathOf
    HostAt <- MCHostAt
    PluginHost <- MCPluginHost
    MaxFrames = 1
INVARIANTS
    EachSetupOnce
    
    RunsOnItsHost
    DeletedOnce
    CodeLoaded
    
CHECK_DEADLOCK FALSE
