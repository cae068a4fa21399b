----------------------------- MODULE GcodeLines -----------------------------
(***************************************************************************)
(* How the readers of a printed file cut its text into lines: the batches  *)
(* of src/src/gcode-lines.js (the toolpath compiler), node:readline (the   *)
(* summary, external) and gcodeLines of src/src/layer-gcode.js (scripts    *)
(* and pauses). A character is a CR, an LF, or what stands between two.    *)
(***************************************************************************)
EXTENDS Naturals, SequencesExt

CONSTANTS CR, LF   \* the characters that end a line

\* Pieces of a text: those that are separated off, and the one that is open.
NoPieces == [done |-> <<>>, open |-> <<>>, cr |-> FALSE]

Separate(p, cr) == [done |-> Append(p.done, p.open), open |-> <<>>, cr |-> cr]
Extend(p, c)    == [done |-> p.done, open |-> Append(p.open, c), cr |-> FALSE]

\* One character more of a text that is split at \r\n, \r or \n.
Feed(p, c) == CASE c = CR             -> Separate(p, TRUE)
                [] c = LF /\ p.cr     -> [p EXCEPT !.cr = FALSE]
                [] c = LF /\ ~p.cr    -> Separate(p, FALSE)
                [] c \notin {CR, LF}  -> Extend(p, c)

\* One character more of a text that only line feeds cut.
FeedText(p, c) == IF c = LF THEN Separate(p, FALSE) ELSE Extend(p, c)

All(p) == Append(p.done, p.open)

\* text.split(/\r\n|[\r\n]/): an LF right behind a CR belongs to it.
Split(text) == All(FoldLeft(Feed, NoPieces, text))

\* A last line that is empty is none.
Closed(pieces) == IF Last(pieces) = <<>> THEN Front(pieces) ELSE pieces

Readline(text) == Closed(Split(text))

-----------------------------------------------------------------------------
(* readGcodeLineBatches.                                                   *)

\* Mutant: an empty chunk is read like any other.
NeverPassed(chunk) == FALSE

\* if (!chunk.length) continue
Passed(chunk) == chunk = <<>>

Unread == [carry |-> <<>>, skipLf |-> FALSE, lines |-> <<>>]

\* A line feed at the head of a chunk belongs to the CR the last one ended in.
ReadChunk(r, chunk) ==
    LET rest   == IF r.skipLf /\ IsPrefix(<<LF>>, chunk) THEN Tail(chunk) ELSE chunk
        pieces == Split(r.carry \o rest)
    IN IF Passed(chunk) THEN r
       ELSE [carry  |-> Last(pieces),
             skipLf |-> IsSuffix(<<CR>>, rest),
             lines  |-> r.lines \o Front(pieces)]

\* The lines that were yielded when the stream is over.
Batches(r) == Closed(Append(r.lines, r.carry))

-----------------------------------------------------------------------------
(* gcodeLines: only a line feed ends a line, and a CR before it or at the  *)
(* end of the file goes with it.                                           *)

Unturned(line) == IF IsSuffix(<<CR>>, line) THEN Front(line) ELSE line

LinesOfText(text) ==
    LET pieces == Closed(All(FoldLeft(FeedText, NoPieces, text)))
    IN [i \in DOMAIN pieces |-> Unturned(pieces[i])]
=============================================================================
