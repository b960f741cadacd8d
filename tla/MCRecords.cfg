\* Two generators on one machine or two; two imports of a file that changes
\* once; a scout and a chat of three messages, one without text,
\* one of which changes.
SPECIFICATION RecordsSpec
CONSTANTS
    g1 = g1
    g2 = g2
    m1 = m1
    m2 = m2
    h1 = h1
    h2 = h2
    Generators = {g1, g2}
    Machines = {m1, m2}
    RevHandles = {h1, h2}
    PublishAttempts = 2
    MaxRemoteFaults = 1
    i1 = i1
    i2 = i2
    x = x
    y = y
    z = z
    blank = blank
    broken = broken
    Importers = {i1, i2}
    Lines = {x, y, z, blank, broken}
    BlankLine = blank
    BrokenLine = broken
    Bodies <- ImportBodies
    MaxFileLines = 3
    MaxUnique = 2
    BatchSize = 1
    MaxEdits = 1
    MaxModels = 2
    s1 = s1
    Scouts = {s1}
    MaxMessage = 3
    MaxText = 2
    MaxChanges = 1
    PageSize = 1
    Blank = {2}
    MaxMishaps = 1
INVARIANTS
    PubInv
    OutcomesAreTrue
    ImportsInv
    HistoryInv
PROPERTIES
    OneHistory
    EditsAdvance
CHECK_DEADLOCK FALSE
