SPECIFICATION Spec
CONSTANTS
    Stacks = {s1, s2}
    Volumes = {s2}
    Ops = {o1, o2}
    Nobody = Nobody
SYMMETRY Symmetry
INVARIANTS
    HostInv
PROPERTIES
    SummaryShowsTheRemoval
    
