SPECIFICATION MCSpec
INVARIANTS
  SamePicture
  ApertureKept
CHECK_DEADLOCK FALSE
