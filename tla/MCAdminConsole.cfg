SPECIFICATION Spec
CONSTANTS
    MaxXP = 3
    Skins = {1, 2}
    Images = {1, 2}
    Filters = {f1, f2}
    PageSize = 1
    MaxRows = 1
    MaxCalls = 2
    Choices = {f1, f2}
    ShelfSize = 1
    MaxItems = 2
INVARIANTS
    ImagesSound
    PageHasItems
PROPERTIES
    SettingsSound
    ShowsLatestAnswer
CHECK_DEADLOCK FALSE
