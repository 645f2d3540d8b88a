SPECIFICATION Spec
CONSTANTS
    Page = 2
    DefaultCap = 2
    Bases = {10, 20}
    MaxCap = 6
    MaxAsked = 5
    Caps = {0, 3}
    Lens = {1, 2}
    Holes = {0, 3}
    Labels = {2}
    Natives = {28, 90}
    Reach = 12
INVARIANT HandedOutIsWhatWasAsked
PROPERTY DisplacementsPinIt
CHECK_DEADLOCK FALSE
