CONSTANTS
    Call = {c1, c2}
    MaxVersion = 2
    MaxRestarts = 1
SPECIFICATION FairSpec
INVARIANT InstallerVerified
PROPERTIES InstallerKept StatusSettles
