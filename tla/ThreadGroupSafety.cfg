\* Three render threads: one can be last, first and in the middle.
CONSTANTS
    t1 = t1
    t2 = t2
    t3 = t3
    Threads = {t1, t2, t3}
    Controller = controller
    Generations <- MCGenerations
    Indeterminate <- MCIndeterminate
SPECIFICATION SafetySpec
SYMMETRY Symmetry
INVARIANTS
    TypeOK
    NoDataRace
    ActsOnCurrentCall
    ReturnsWithAllServed
    FreedUnused
    IInv
