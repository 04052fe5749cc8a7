--------------------------- MODULE MCGroundedChat ---------------------------
(* Instances of GroundedChat for TLC, and beside them the chunks of every short text:
   a behaviour is one of the system, or stays at one text. *)
EXTENDS GroundedChat

CONSTANTS MaxText, MaxSize    \* bounds: lengths of texts and of chunks

VARIABLE input

C == INSTANCE Chunking

System == [text |-> <<>>, size |-> 1, overlap |-> 0]

\* The overlap is smaller than the chunk.
Texts ==
    UNION {[text : C!Normalized(n), size : {size}, overlap : 0 .. size - 1] :
           n \in 1 .. MaxText, size \in 2 .. MaxSize}

MCInit == Init /\ input \in Texts \cup {System}

MCNext == input = System /\ Next /\ UNCHANGED input

MCSpec == MCInit /\ [][MCNext]_<<vars, input>> /\ Fairness

\* Chunking!Covers holds of every text, chunk size and overlap.
NothingIsCutAway == C!Covers(input.text, input.size, input.overlap)
=============================================================================
