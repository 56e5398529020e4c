----------------------------- MODULE Rendering -----------------------------
(***************************************************************************)
(* The rendering half of server/app.js, which has no state: a request asks *)
(* for one thing to be rendered, and the next one may be any other.  The   *)
(* functions are in TextLayout, Raster and PrintJob, and this module says  *)
(* what each is to achieve for whatever it is asked.                       *)
(***************************************************************************)
EXTENDS TextLayout, Raster, PrintJob

CONSTANTS               \* bounds: what may be asked for
    Paragraphs,         \* sequences of words, and
    Limits,             \* the characters to wrap them to
    Tables,
    Documents,
    Pictures,
    BandHeights,
    QrLengths,          \* of the data in a QR code
    Lengths,            \* of previews and of texts in lines
    Markdowns           \* sequences of tokens

\* What can be asked for: what the abstractions of the modules say, a width and a height of
\* bands that a command has room for, and no more QR data than one can have.
ASSUME RequestAssumption ==
    /\ Paragraphs \subseteq Seq(Nat) /\ Limits \subseteq Nat
    /\ Tables \subseteq Seq(TableRows)
    /\ Documents \subseteq Seq(SourceLine)
    /\ \A picture \in Pictures :
          /\ picture = Picture(picture.width, picture.height, picture.dark)
          /\ picture.width \in Width16 /\ picture.height \in Nat \ {0}
          /\ picture.dark \subseteq (0 .. picture.width - 1) \X (0 .. picture.height - 1)
    /\ BandHeights \subseteq Height16
    /\ \A length \in QrLengths : length \in Nat /\ StoreLength(length) \in Word16
    /\ Lengths \subseteq Nat
    /\ Markdowns \subseteq Seq(Tokens)

VARIABLE asked          \* what the present request asks for

Nothing == [kind |-> "nothing"]

Init == asked = Nothing

Ask(request) == asked = Nothing /\ asked' = request

Wrap == \E words \in Paragraphs, limit \in Limits :
            Ask([kind |-> "wrap", words |-> words, limit |-> limit])

LayTable == \E rows \in Tables : Ask([kind |-> "table", rows |-> rows])

LayOut == \E source \in Documents : Ask([kind |-> "document", source |-> source])

Draw == \E picture \in Pictures, height \in BandHeights :
            Ask([kind |-> "picture", picture |-> picture, bandHeight |-> height])

StoreQr == \E length \in QrLengths : Ask([kind |-> "qr", length |-> length])

DrawLines == \E lines \in Lengths : Ask([kind |-> "lines", lines |-> lines])

Compose == \E markdown \in Markdowns, qr, image \in BOOLEAN :
            Ask([kind |-> "job", markdown |-> markdown, qr |-> qr, image |-> image])

ShowPreview == \E maxBytes \in Lengths \cup {-1}, length \in Lengths :
            Ask([kind |-> "preview", maxBytes |-> maxBytes, length |-> length])

Answer == asked # Nothing /\ asked' = Nothing

Next ==
    \/ Wrap
    \/ LayTable
    \/ LayOut
    \/ Draw
    \/ StoreQr
    \/ DrawLines
    \/ Compose
    \/ ShowPreview
    \/ Answer

Spec == Init /\ [][Next]_asked

-----------------------------------------------------------------------------
(* Properties.                                                              *)

\* wrapText loses no word, keeps to the limit, and needs as few lines as possible.
WrapsWell == asked.kind = "wrap" => WellWrapped(asked.words, asked.limit)

\* tableToLines makes a table fit by cutting its longest columns, alike and no more than
\* needed (the while loop, lines 543-547).
CutsFairly ==
    asked.kind = "table" /\ DataRows(asked.rows) # <<>> => FairlyCut(asked.rows)

\* markdownToTextLines prints the words, the table cells and the rules of a document in their
\* order and nothing outside the paper, with the exceptions that InsideThePaper names, and
\* ends with a line that is not blank.
LaysOutWell == asked.kind = "document" => WellLaidOut(asked.source)

\* The printer, reading the commands as its manual has them, prints the picture's dots in
\* their places, takes all of the QR code's data, and finds every line inside the picture.
CommandsAreRead ==
    /\ asked.kind = "picture" => PicturePrinted(asked.picture, asked.bandHeight)
    /\ asked.kind = "qr" => QrDataRead(asked.length)
    /\ asked.kind = "lines" => LinesInside(asked.lines)

\* parseMarkdownParts finds the blocks a reader finds, composePrintJob prints all pieces in
\* their order, and a preview says truly how much of them it shows, which is no more than its
\* limit, a limit of 0 being taken for 4096 (line 736).
JobIsAsMeant ==
    /\ asked.kind = "job" => ComposedAsMeant(asked.markdown, asked.qr, asked.image)
    /\ asked.kind = "preview" => PreviewTrue(asked.maxBytes, asked.length)
=============================================================================
