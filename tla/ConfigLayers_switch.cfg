SPECIFICATION ConfigSpec
CONSTANTS
    small = small
    large = large
    Unset = Unset
    Models <- TwoModels
    DefaultModel = small
    DimOf <- ModelLengths
    Options = {"on", "off"}
    MaxEdits = 1
PROPERTIES SwitchesRebuild
CHECK_DEADLOCK FALSE
