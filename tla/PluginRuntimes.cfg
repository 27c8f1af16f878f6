SPECIFICATION Spec
CONSTANTS
    Threads = {t1, t2}
    Others = {p1}
    Roots = {home, other}
    Home = home
    Firings = {f1}
    Temp = temp
    OtherRoots = {home}
    MaxRuntimes = 3
    MaxRegisters = 2
    MaxBuilds = 1
    Free = free
SYMMETRY Symmetry
INVARIANT OneRuntime
INVARIANT CurrentUsable
INVARIANT OpenRaceDecided
INVARIANT RowsBesideFiles
INVARIANT StaleHandlersHarmless
