SPECIFICATION FairSpec

CONSTANTS
    Users = {u1, u2}
    Admins = {u1}
    Slides = {s1}
    Nobody = Nobody
    MaxVersions = 3

INVARIANTS
    DecksAreRecoverable
    LockedSlideRefusesEdits
    ExclusiveUnlessRaced

PROPERTIES
    JamClears
    ImplementsEditor
