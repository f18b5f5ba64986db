\* The claim that a subscription the schema refuses is stopped.
SPECIFICATION FairSpec
CONSTANTS
    None = None
    Error = Error
    Ops = {s1}
    Name <- MCName
    UnsetKeys <- MCUnsetKeys
    MayFail = {s1}
    Interval = 1
    MaxVersion = 0
PROPERTIES
    SchemaErrorStops
