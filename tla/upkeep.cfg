SPECIFICATION Spec
CONSTANT Off = Off
CHECK_DEADLOCK FALSE
INVARIANTS TypeOK HandlersLaw
PROPERTIES PurgeLaw EverythingEnds
