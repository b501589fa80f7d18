\* restore-gpucheck.ps1:3, "... restores the original Windows Boot Manager"
SPECIFICATION Spec
CONSTANTS
    v1 = v1
    v2 = v2
    Versions <- MCVersions
    Hosts <- PowerShell
INVARIANT
    RestoreRestores
