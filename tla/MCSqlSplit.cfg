\* Texts of four words.
CONSTANTS
    Chars <- AllChars
    TagChars <- Tagged
    Spaces <- Blanks
    Newlines <- Lines
    Texts <- FourWords
SPECIFICATION SplitSpec
CHECK_DEADLOCK FALSE
INVARIANTS
    SplitTypeOK
    QueriesTileTheText
    SplitsAsNoted
