SPECIFICATION FairSpec
CONSTANTS
    alice = alice
    bob = bob
    c1 = c1
    c2 = c2
    c3 = c3
    User = {alice, bob}
    Call = {c1, c2, c3}
    UserOf <- MCUserOf
    Mine = {alice}
    Refreshers = {c1}
    NoCall = NoCall
INVARIANTS
    OneFetch
    OwnRefusal
    ControlServed
    KeyFreed
PROPERTIES
    Answered
