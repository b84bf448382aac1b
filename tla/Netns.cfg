CONSTANTS
    Ns = {n1, n2, n3}
    Thread = {t1, t2}
    Host = Host
    None = None
    Blank = Blank
    Commands = 2
    MaxFaults = 2
    MaxRules = 2
SPECIFICATION Spec
INVARIANTS NetnsTypeOK NothingLeft UpIntact ThreadHome StaleStateCostsOneTry
SYMMETRY Symmetry
