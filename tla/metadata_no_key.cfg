CONSTANTS
    k1 = k1
    k2 = k2
    k3 = k3
    k4 = k4
    Passwords = {plain, garbled, replaced}
    Garbled = garbled
    Replaced = replaced
    Keys = {k1, k2, k3, k4}
    Kind <- MCKind
SPECIFICATION Spec
INVARIANT EverythingIsSaved
