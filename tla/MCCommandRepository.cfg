SPECIFICATION Spec
CONSTANTS
    socials = socials
    hug = hug
    default = default
    discord = discord
    hello = hello
    HELLO = HELLO
    bye = bye
    Names = {socials, hug}
    Variants = {default, discord}
    Default = default
    Texts = {hello, HELLO, bye}
    Fold <- MCFold
    MaxEntries = 2
    MaxTexts = 2
    MaxRemovals = 2
SYMMETRY Symmetry
INVARIANTS
    TypeOK
    NoOrphans
PROPERTIES
    RestoreUndoesRemove
    RestoreIsOneRemoval
    ImplementsStore
