SPECIFICATION CBSpec
CONSTANTS
    B = B
    S = S
    Names = {B, S}
    Values = {"y", "12", "1"}
    Shortened <- MCShortened
    Readable <- MCReadable
    Mentioned = Mentioned
    Sure = Sure
    Removable = {S}
    NotSet = NotSet
    Hidden = Hidden
    Gone = Gone
    None = None
    Configs <- MCConfigs
    Absent = Absent
    Partial = Partial
INVARIANTS
    LastSaveSurvives
    BuildIsOfLastSave
PROPERTIES
    OnlyChangedIsTouched
    BuildRefines
