----------------------------- MODULE LineBuffer -----------------------------
(* Buffered data as a sequence of pieces: "l" ends a line, "p" does not. *)
EXTENDS Naturals, Sequences, SequencesExt

(* What a buffer holds: whole lines, and what follows the last of them. *)
Lines(b) ==
    FoldLeft(LAMBDA a, u : IF u = "l" THEN [out |-> Append(a.out, Append(a.cur, u)), cur |-> <<>>]
                           ELSE [a EXCEPT !.cur = Append(@, u)],
             [out |-> <<>>, cur |-> <<>>], b)
=============================================================================
