\* Some files fit in 22 tokens, others are cut anywhere in their last lines.
SPECIFICATION Spec
CONSTANTS
    Files <- MCFiles
    MaxSize = 22
    MaxPath = 4
INVARIANTS
    TypeOK
    LastGoodSettingWins
