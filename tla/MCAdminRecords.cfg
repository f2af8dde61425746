SPECIFICATION Spec
CONSTANTS
    Events = {1, 2}
    Fetches = {1}
    Changes = {1}
    MaxVersion = 3
    Records = {1, 2}
    Reads = {1, 2}
    MaxRecord = 2
    Invitations = {1, 2}
    StaffCalls = {1}
    MaxLinks = 2
INVARIANTS
    RevisionsAreRecordedOnce
    OneAccountPerLink
PROPERTIES
    ChangesWhatWasShown
    RenamesWhatWasShown
CHECK_DEADLOCK FALSE
