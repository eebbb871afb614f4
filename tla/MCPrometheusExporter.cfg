SPECIFICATION Spec
CONSTANTS
    Absent = Absent
    Nobody = Nobody
    NoCall = NoCall
    Devices = {d1, d2}
    Params = {p1, p2}
    Values = {v}
    Writers = {w1, w2}
    Readers = {r1}
SYMMETRY StoreSymmetry
PROPERTY ImplementsStore
