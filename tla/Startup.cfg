CONSTANTS
    Names = {"a", "b", "c"}
    Paths = {"p", "q"}
    Contexts = {"", " ", "x", "y"}
    Empty = ""
    Blank = " "
    Configs <- MCConfigs
    ListForms = {"blank", "text"}
    Supported = {"vector", "deep_query"}
    RemoveCommands = {"remove"}
    MaxStarts = 2
    None = none
SPECIFICATION Spec
INVARIANTS TypeOK StartConverges LowResourceContained
PROPERTY InPlaceUntouched
CHECK_DEADLOCK FALSE
