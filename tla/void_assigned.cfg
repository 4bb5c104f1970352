SPECIFICATION Spec
CONSTANT Files <- VoidAssigned
INVARIANT CheckerDoesNotCrash
