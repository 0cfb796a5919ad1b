SPECIFICATION Spec
CONSTANTS
 Names = {"n1"}
 Offers = {"o1","o2"}
 NoName = "none"
 Flaky = FALSE
 MaxSaves = 3
INVARIANT RenameKept
CHECK_DEADLOCK FALSE
