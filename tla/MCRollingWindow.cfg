SPECIFICATION Spec
CONSTANTS
    Sizes <- MCSizes
    Heights <- MCHeights
PROPERTY
    DeliversStream
