SPECIFICATION Spec
CONSTANTS
    Goals <- AllGoals
    MaxAccidents = 0
INVARIANT
    BuildHasAllPatches
