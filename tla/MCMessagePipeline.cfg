SPECIFICATION PipelineSpec
CONSTANTS
    Absent = Absent
    NoDevice = NoDevice
    Devices = {d1, d2}
    Params = {p1, p2}
    Routines = {r1, r2, r3}
    MaxMessages = 4
    Values = {1, 2, 3, 4}
SYMMETRY PipelineSymmetry
INVARIANT ShownIsLatest
PROPERTY ValuesAdvance
