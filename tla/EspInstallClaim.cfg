\* install-gpucheck.ps1:23, "The backup is always verified ..."
SPECIFICATION Spec
CONSTANTS
    v1 = v1
    v2 = v2
    Versions <- MCVersions
    Hosts <- AuthorsHost
PROPERTY
    BackupVerifiedBeforeOverwrite
