------------------------------ MODULE MCNbeTrain ------------------------------
(* Command lines for nbetrain. *)
EXTENDS NbeTrain

Default == [file |-> FALSE, fraction |-> FALSE, weightStop |-> FALSE,
            clusters |-> 1, fixed |-> -1, prunes |-> TRUE, pruneFreq |-> 2]

(* -i, from none to more than there are examples, and hold-out files. *)
MCSettings ==
    {[Default EXCEPT !.clusters = c, !.file = f] :
         c \in {0, 1, 2, 6}, f \in BOOLEAN}
    \cup {[Default EXCEPT !.fixed = n, !.clusters = c, !.file = f] :
              n \in {0, 1, 2, 3}, c \in {1, 6}, f \in BOOLEAN}
    \cup {[Default EXCEPT !.weightStop = TRUE],
          [Default EXCEPT !.weightStop = TRUE, !.file = TRUE],
          [Default EXCEPT !.fraction = TRUE, !.file = TRUE],
          [Default EXCEPT !.prunes = FALSE],
          [Default EXCEPT !.pruneFreq = 1],
          [Default EXCEPT !.pruneFreq = 0]}
=============================================================================
