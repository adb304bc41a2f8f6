SPECIFICATION Spec
CONSTANTS
    Texts <- SomeTexts
    MaxRuns = 3
    MaxDamages = 2
    None = None
INVARIANTS ImageTracksStore SavedIsRestored DamageChangesNothing
