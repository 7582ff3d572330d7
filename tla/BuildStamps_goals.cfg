SPECIFICATION Spec
CONSTANTS
    Goals <- DailyGoals
    MaxAccidents = 1
CONSTRAINT OneTrouble
INVARIANTS
    StampInv
    GoalInv
    BuiltFromCurrent
    SettledAfterSuccess
    PatchesMeetOriginalFonts
    UnapplyRestores
