SPECIFICATION Spec
CONSTANTS
    MaxChars = 20
    LineHeight = 28
    FontSize = 22
    Paragraphs <- MCParagraphs
    Limits <- MCLimits
    Tables <- MCTables
    Documents <- MCDocuments
    Pictures <- MCPictures
    BandHeights <- MCBandHeights
    QrLengths <- MCLengths
    Lengths <- MCLengths
    Markdowns <- MCMarkdowns
INVARIANTS WrapsWell CutsFairly LaysOutWell CommandsAreRead JobIsAsMeant
