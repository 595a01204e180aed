SPECIFICATION Spec
CONSTANTS
    LimitArguments <- LimitForms
    TapArguments <- TapForms
    Numbers <- Digits
    InHome <- Home
    Tree <- Directories
    Spelled <- Spellings
    MountNames <- Mounted
    Files <- SomeFiles
    Configs <- Configurations
    Queries <- Words
    CommandLines <- Sessions
    MaxChanges = 1
\* After the last command nothing is left to do.
CHECK_DEADLOCK FALSE
INVARIANTS TypeOK OptionsAsMeant  
PROPERTIES  StorageApart 
