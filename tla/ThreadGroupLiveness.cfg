\* Two render threads, no symmetry: liveness and the refinement.
CONSTANTS
    t1 = t1
    t2 = t2
    Threads = {t1, t2}
    Controller = controller
    Generations <- MCGenerations
    Indeterminate <- MCIndeterminate
SPECIFICATION Spec
PROPERTIES
    CallsReturn
    ImplementsDisplayCalls
