SPECIFICATION Spec
CONSTANT N = 4
CHECK_DEADLOCK FALSE
INVARIANTS UndoneDecisionWasOverlaid LostEventWasOverlaid SecondAssistanceWasUnseen
