\* A workspace of every release, and none, with what earlier upgrades left in
\* backups/: is the newest backup kept?
SPECIFICATION Spec
CONSTANTS
    Releases <- AllReleases
    MaxCrashes = 0
CHECK_DEADLOCK FALSE
INVARIANT
    NewestBackupKept
