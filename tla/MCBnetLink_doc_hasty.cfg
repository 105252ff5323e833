SPECIFICATION Spec
CONSTANTS
    alice = alice
    bob = bob
    acc1 = acc1
    acc2 = acc2
    x = x
    y = y
    t1 = t1
    t2 = t2
    User = {alice, bob}
    Account = {acc1, acc2}
    Char = {x, y}
    AccountOf <- MCAccountOf
    Tab = {t1}
    NoAccount = NoAccount
    NoUser = NoUser
    ImportTtl = 0
    CheckAfter = 0
    MaxAge = 1
    MaxTime = 3
    MaxRounds = 1
INVARIANTS
    NeverHasty
CHECK_DEADLOCK FALSE
SYMMETRY Symmetries
