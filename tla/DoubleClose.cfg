SPECIFICATION Spec
CONSTANTS
    d1 = d1
    d2 = d2
    Dialers = {d1, d2}
    FDs = {3, 4, 5, 6}
    Nobody = Nobody
INVARIANT ConnStaysOpen
