---------------------------- MODULE MCBlockStore ----------------------------
(* Tickets, contents and sizes for model checking the block store.         *)
EXTENDS BlockStore, TLC

CONSTANTS t1, t2, t3

\* Two of the three tickets share a file name.
MCNameOf == [t \in Ticket |-> IF t = t3 THEN "n2" ELSE "n1"]

\* One file of "a", or two of "b", fill the store.
MCEncodedBytes == [c \in Content |-> IF c = "a" THEN 2 ELSE 1]

\* Decoded batches of "b" take more memory than their file, those of "a" less: one is
\* refused where its file would fit, the other let through where it does not.
MCDecodedBytes == [c \in Content |-> IF c = "a" THEN 1 ELSE 2]

\* The two tickets of one name are alike.
MCSymmetry == Permutations({t1, t2})
=============================================================================
