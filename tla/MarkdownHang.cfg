\* Markdown files with a line that looks like a heading and is none.
SPECIFICATION EngineSpec
CONSTANTS
    FileFormats <- OnlyTagged
    MaxParts = 2
    Images <- OnePicture
    Shared <- SharedStrings
    DocStyles <- WordStyles
PROPERTY
    LinesAreConsumed
CHECK_DEADLOCK FALSE
