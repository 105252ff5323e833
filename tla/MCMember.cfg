SPECIFICATION MCSpec
CONSTANTS
    alice = alice
    bob = bob
    acc1 = acc1
    acc2 = acc2
    x = x
    y = y
    t1 = t1
    t2 = t2
    User = {alice, bob}
    Account = {acc1, acc2}
    Char = {x, y}
    AccountOf <- MCAccountOf
    Tab = {t1, t2}
    NoAccount = NoAccount
    NoUser = NoUser
    ImportTtl = 0
    CheckAfter = 0
    MaxAge = 1
    MaxTime = 3
    MaxRounds = 1
    k1 = k1
    k2 = k2
    c1 = c1
    c2 = c2
    None = None
    Key <- MCKey
    Slot <- MCSlot
    MaxDone = 3
INVARIANTS
    Owned
    Retention
    Heals
    UrlShown
PROPERTIES
    VerifiedForward
CHECK_DEADLOCK FALSE
SYMMETRY MCSymmetry
