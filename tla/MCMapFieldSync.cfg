\* Two threads and two fields that share an arena, or do not.
SPECIFICATION MCSpec
CONSTANTS
    Fields = {f1, f2}
    Readable = {f1}
    Arenas = {a1}
    Threads = {t1, t2}
    k1 = k1
    k2 = k2
    v1 = v1
    v2 = v2
    Keys = {k1, k2}
    Values = {v1, v2}
    Pairs <- MCPairs
    NULL = NULL
    Payloads = {p1, p2}
    MaxRep = 2
INVARIANTS TypeOK NoDataRace OnePayload CleanAgrees
PROPERTIES ImplementsMapValue AllReturn
