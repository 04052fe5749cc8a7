------------------------------ MODULE Chunking ------------------------------
(***************************************************************************)
(* How a document is cut into chunks for its index (rag/chunking.py).  A   *)
(* text is a sequence of letters and blanks; the chunks of a text are the  *)
(* spans [from, to) of its positions 0 .. Len - 1 that are kept, in order. *)
(***************************************************************************)
EXTENDS Integers, Sequences, FiniteSetsExt

Letter == "x"
Blank == " "

\* What strip() leaves of a document: a text that neither starts nor ends blank.
Normalized(n) ==
    {t \in [1 .. n -> {Letter, Blank}] : t[1] = Letter /\ t[n] = Letter}

BlankAt(text, i) == text[i + 1] = Blank

\* The two rfind calls: the last blank of the second half, if there is one.
Boundary(text, start, size, hard) ==
    Max({-1} \cup {i \in (start + size \div 2) .. (hard - 1) : BlankAt(text, i)})

CutAt(text, start, size) ==
    LET hard == Min({start + size, Len(text)})
        boundary == Boundary(text, start, size, hard)
    IN IF hard < Len(text) /\ boundary > start THEN boundary ELSE hard

NextStartSkipping(start, end, overlap) == end + 1

NextStart(start, end, overlap) == Max({start + 1, end - overlap})

\* Whether content.strip() is empty.
AllBlank(text, span) == \A i \in span.from .. (span.to - 1) : BlankAt(text, i)

chunk_text(text, size, overlap) ==
    LET from[start \in 0 .. Len(text)] ==
          LET end == CutAt(text, start, size)
              span == [from |-> start, to |-> end]
              rest == IF end >= Len(text) THEN <<>> ELSE from[NextStart(start, end, overlap)]
          IN IF AllBlank(text, span) THEN rest ELSE <<span>> \o rest
    IN from[0]

\* chunk_text raises an error when a text needs more than this many chunks.
TooLong(text, size, overlap, maximum) == Len(chunk_text(text, size, overlap)) > maximum

-----------------------------------------------------------------------------

\* Nothing of a document is lost: every letter is in a chunk of at most the chunk
\* size, wherever the cuts are moved back to a blank and whatever the overlap, and
\* the chunks of a text are no more than its letters.
Covers(text, size, overlap) ==
    LET chunks == chunk_text(text, size, overlap)
    IN /\ \A i \in 0 .. (Len(text) - 1) :
             BlankAt(text, i) \/ \E c \in DOMAIN chunks :
                                    chunks[c].from <= i /\ i < chunks[c].to
       /\ \A c \in DOMAIN chunks : chunks[c].to - chunks[c].from \in 1 .. size
       /\ ~TooLong(text, size, overlap, Len(text))
=============================================================================
