------------------------------ MODULE PrintJob ------------------------------
(***************************************************************************)
(* What server/app.js makes of a request's content: how fenced qr and      *)
(* image blocks are cut out of the markdown (parseMarkdownParts), in which *)
(* order the pieces are printed (composePrintJob, lines 621-659) and how   *)
(* much of the result a preview shows (encodePreview, lines 735-752).      *)
(*                                                                         *)
(* Markdown is a sequence of tokens: "space" and "text" for what is and    *)
(* what is not blank, "fence" for three backquotes, "qr" and "image" for   *)
(* three backquotes with that word and a line end, which open a block.     *)
(***************************************************************************)
EXTENDS Integers, Sequences, SequencesExt, FiniteSetsExt

Openings == {"qr", "image"}
Fences == Openings \cup {"fence"}
Tokens == Fences \cup {"text", "space"}

Part(type, value) == [type |-> type, value |-> value]

-----------------------------------------------------------------------------

\* Mutant: the match goes on to the last fence there is.
LastFence(tokens, i) == Max({j \in i + 1 .. Len(tokens) : tokens[j] \in Fences})

\* Where the block that opens at i ends: at the next three backquotes, whatever follows.
FirstFence(tokens, i) == Min({j \in i + 1 .. Len(tokens) : tokens[j] \in Fences})

\* Blocks that have an end and are opened behind the first so many tokens.
Blocks(tokens, last) == {i \in last + 1 .. Len(tokens) :
    tokens[i] \in Openings /\ \E j \in i + 1 .. Len(tokens) : tokens[j] \in Fences}

NotBlank(tokens) == \E i \in DOMAIN tokens : tokens[i] # "space"

\* A stretch of markdown is a part if there is something in it (before.trim()).
MarkdownPart(tokens) == IF NotBlank(tokens) THEN <<Part("markdown", tokens)>> ELSE <<>>

\* trim()
Trimmed(tokens) ==
    LET kept == {i \in DOMAIN tokens : tokens[i] # "space"}
    IN  IF kept = {} THEN <<>> ELSE SubSeq(tokens, Min(kept), Max(kept))

\* markdown.slice(last, i), last being 0 or behind the three backquotes that end a block: a
\* word behind these is text from now on.
Slice(tokens, last, i) ==
    (IF last > 0 /\ tokens[last] \in Openings THEN <<"text">> ELSE <<>>)
        \o SubSeq(tokens, last + 1, i)

\* A turn of the while loop, while re.exec finds something.
Matched(tokens, state) ==
    IF Blocks(tokens, state.last) = {} THEN state
    ELSE LET i == Min(Blocks(tokens, state.last))
             j == FirstFence(tokens, i)
         IN  [parts |-> state.parts \o MarkdownPart(Slice(tokens, state.last, i - 1))
                            \o <<Part(tokens[i], Trimmed(SubSeq(tokens, i + 1, j - 1)))>>,
              last |-> j]

\* After so many turns.
Matches(tokens) ==
    LET after[n \in 0 .. Len(tokens)] ==
            IF n = 0 THEN [parts |-> <<>>, last |-> 0] ELSE Matched(tokens, after[n - 1])
    IN  after

parseMarkdownParts(tokens) ==
    LET end == Matches(tokens)[Len(tokens)]
    IN  end.parts \o MarkdownPart(Slice(tokens, end.last, Len(tokens)))

\* composePrintJob: the parts in their order, then the request's qr and image; blank
\* markdown alone is one part.  Its pieces are not empty but for those of blank markdown.
composePrintJob(markdown, qr, image) ==
    LET parts == parseMarkdownParts(markdown)
    IN  (IF parts = <<>> /\ markdown # <<>> THEN <<Part("markdown", markdown)>> ELSE parts)
            \o (IF qr THEN <<Part("qr", <<"text">>)>> ELSE <<>>)
            \o (IF image THEN <<Part("image", <<"text">>)>> ELSE <<>>)

-----------------------------------------------------------------------------

\* How many bytes of so many a preview returns.  A limit of 0 is falsy and stands for 4096,
\* as a missing one does; what is not a number comes out like a negative one.
Preview(maxBytes, length) ==
    LET limit == IF maxBytes = 0 THEN 4096 ELSE maxBytes
    IN  Max({0, Min({limit, length})})

encodePreview(maxBytes, length) ==
    [bytes |-> length, returnedBytes |-> Preview(maxBytes, length),
     truncated |-> Preview(maxBytes, length) < length]

-----------------------------------------------------------------------------
(* What a document means, read from left to right without a search: a block *)
(* begins where it is opened and ends at the next backquotes, and what is   *)
(* in a block that does not end is not in a block.                          *)

\* The pieces read so far, the last of which is open, and where we are.
Read(state, token) ==
    CASE state.in = "markdown" /\ token \in Openings ->
           [state EXCEPT !.in = token, !.held = <<>>]
      [] state.in = "markdown" /\ token \notin Openings ->
           [state EXCEPT !.text = Append(@, token)]
      [] state.in # "markdown" /\ token \notin Fences ->
           [state EXCEPT !.held = Append(@, token)]
      [] state.in # "markdown" /\ token \in Fences ->
           [pieces |-> state.pieces \o MarkdownPart(state.text)
                                    \o <<Part(state.in, Trimmed(state.held))>>,
            in |-> "markdown", held |-> <<>>,
            text |-> IF token = "fence" THEN <<>> ELSE <<"text">>]

Reading(tokens) ==
    LET state[n \in 0 .. Len(tokens)] ==
            IF n = 0 THEN [pieces |-> <<>>, in |-> "markdown", held |-> <<>>, text |-> <<>>]
            ELSE Read(state[n - 1], tokens[n])
    IN  state

Meaning(tokens) ==
    LET end == Reading(tokens)[Len(tokens)]
    IN  end.pieces \o MarkdownPart(IF end.in = "markdown" THEN end.text
                                   ELSE end.text \o <<end.in>> \o end.held)

\* The document's pieces are printed in its order, then the request's qr and image; blank
\* markdown means nothing but may be printed as it is.
ComposedAsMeant(tokens, qr, image) ==
    LET meant == Meaning(tokens) \o (IF qr THEN <<Part("qr", <<"text">>)>> ELSE <<>>)
                                 \o (IF image THEN <<Part("image", <<"text">>)>> ELSE <<>>)
        composed == composePrintJob(tokens, qr, image)
    IN  \/ composed = meant
        \/ ~NotBlank(tokens) /\ composed = <<Part("markdown", tokens)>> \o meant

\* The limit that encodePreview goes by: what was asked for, but 4096 if that is 0 (or
\* nothing), and nothing at all if it is negative.
LimitTaken(maxBytes) == IF maxBytes = 0 THEN 4096 ELSE Max({0, maxBytes})

\* A preview never returns more than there is nor more than the limit taken, and says truly
\* whether something is missing, which is so only if the limit was reached.  That a limit of
\* 0 is taken for 4096 (line 736) is an exception to what the tool's schema says of it, the
\* maximum number of bytes to include, with 0 allowed (lines 864-869).
PreviewTrue(maxBytes, length) ==
    LET preview == encodePreview(maxBytes, length)
    IN  /\ preview.returnedBytes \in 0 .. length
        /\ preview.returnedBytes <= LimitTaken(maxBytes)
        /\ preview.truncated <=> preview.returnedBytes < preview.bytes
        /\ preview.truncated => preview.returnedBytes = LimitTaken(maxBytes)
=============================================================================
