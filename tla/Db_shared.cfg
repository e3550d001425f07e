SPECIFICATION Spec
CONSTANTS
    k1 = k1 k2 = k2 k3 = k3 short = short long = long
    p1 = p1 p2 = p2 s1 = s1
    Procs = {p1, p2}
    Scanners = {s1}
    Keys = {k1, k2, k3}
    Vals = {short, long}
    NHash = 2
    PtrMax = 4
    Hash <- MCHash
    KeyLen <- MCKeyLen
    DatLen <- MCDatLen
    Offered <- MCOffered
    Blank = Blank
    None = None
SYMMETRY Alike
INVARIANTS ChainsRight FreeListRight NextrecRight ScanComplete NoCircularWait
PROPERTY Linearizable
