SPECIFICATION Spec
CONSTANT MaxInstalls = 3
INVARIANTS ServesOneInstallation StartsAfterSuccess
