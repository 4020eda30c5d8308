SPECIFICATION ReplaySpec
CONSTANTS
    Nil = Nil
    i1 = i1
    i2 = i2
    i3 = i3
    n1 = n1
    n2 = n2
    n3 = n3
    x = x
    y = y
    d1 = d1
    d2 = d2
    Delivery = {d1, d2}
    RequestIds <- mcRequestIds
    Nonces <- mcNonces
    Payloads <- mcPayloads
    Identities <- mcIdentities
    Signed <- mcSigned
    MaxEntries = 3
    MaxTTL = 2
    MaxSkew = 1
    MaxTime = 4
INVARIANTS EntriesBounded
PROPERTY OneMeaning
CHECK_DEADLOCK FALSE
