\* Installs, updates and uninstalls that fail anywhere; one crash, one edit or one
\* backup that cannot read.
SPECIFICATION Spec
CONSTANTS
    Procs = {p1}
    Free = Free
    Versions = {"v1", "v2"}
    MaxMishaps = 1
INVARIANTS VersionsNamed
PROPERTIES UnownedKept ReplacedHasBackup
