SPECIFICATION Spec
INVARIANT SuccessLeavesOutput
