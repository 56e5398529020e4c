---------------------------- MODULE MCRendering ----------------------------
(* Rendering for TLC: the inputs, with the lengths at which something        *)
(* changes on paper of 20 characters.                                        *)
EXTENDS Rendering

SequencesUpTo(S, n) == UNION {[1 .. k -> S] : k \in 0 .. n}

MCParagraphs == SequencesUpTo({1, 2, 6, 8}, 5)

MCLimits == {5, 6, 9}

Cells == {0, 7, 15, Rule}

MCTables ==
    {<<row>> : row \in UNION {[1 .. k -> Cells \cup {3, 20}] : k \in 1 .. 4}}
        \cup {<<one, two>> : one, two \in UNION {[1 .. k -> Cells] : k \in {1, 3}}}

Line(kind, words) == [kind |-> kind, words |-> words]

SourceLines ==
    {Line("blank", <<>>), Line("rule", <<>>)}
        \cup {Line("heading", words) : words \in {<<5>>, <<12, 9>>}}
        \cup {Line("item", words) : words \in {<<>>, <<9, 8>>, <<9, 9>>, <<21, 3>>}}
        \cup {Line("paragraph", words) : words \in {<<>>, <<10, 9>>, <<10, 10, 2>>}}
        \cup {Line("row", cells) : cells \in {<<0>>, <<Rule, Rule>>, <<12, 9>>, <<7, 8, 9>>}}

MCDocuments == SequencesUpTo(SourceLines, 3)

\* Every single dot, and pictures whose dots show where a row or a byte begins.
MCPictures ==
    LET sizes == {1, 8, 17} \X {1, 2, 5}
        dots(size) == (0 .. size[1] - 1) \X (0 .. size[2] - 1)
    IN  UNION {{Picture(size[1], size[2], {dot}) : dot \in dots(size)}
                 \cup {Picture(size[1], size[2], {}), Picture(size[1], size[2], dots(size))}
               : size \in sizes}

MCBandHeights == {1, 2, 300}

MCLengths == {0, 1, 2, 252, 253, 255, 256, 4095, 4096, 4097, 65527}

MCMarkdowns == SequencesUpTo({"text", "space", "fence", "qr", "image"}, 5)
=============================================================================
