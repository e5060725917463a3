SPECIFICATION Spec
INVARIANTS TypeOK  MountedByUser SettingsKept InstallationSound
CHECK_DEADLOCK FALSE
