SPECIFICATION Spec
CONSTANT Options <- MCOptions
INVARIANT DeferredRunIsHarmless
