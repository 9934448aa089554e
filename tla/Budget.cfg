\* Five holders of sizes 1, 1, 2, 2 and 4 share four permits.
SPECIFICATION Spec
CONSTANTS
    h1 = h1
    h2 = h2
    h3 = h3
    h4 = h4
    h5 = h5
    Holder <- MCHolder
    Permits <- MCPermits
    MaxPermits = 4
INVARIANTS
    PermitsConserved
    HeadDoesNotFit
PROPERTIES
    NoOvertaking
