\* Sizes of 1 to 3 for 16 to 256: texts that are shorter, as long and longer.
SPECIFICATION Spec
CONSTANTS
    Text <- SomeTexts
    DataSize = 2
    AskSize = {1, 2}
    NameSize = 3
    ParamSize = 3
    FloatSize = 3
    ErrorSize = 3
    RustSize = {3}
    BuffSize = {1, 3}
INVARIANTS
    FieldWholeOrEmpty
    RecordedAsSent
    ReadWholeOrNothing
PROPERTIES
    OverrunOnlyByFloat
