SPECIFICATION Spec
CONSTANT Inputs <- Linkable
INVARIANTS Placed LoadsDisjoint Mappable
CHECK_DEADLOCK FALSE
