SPECIFICATION Spec
CONSTANT Options <- MCOptions
INVARIANT ForceUninstallHonoured
