------------------------------ MODULE HistoryMC ------------------------------
(* Values of the constants of History for TLC.                             *)
EXTENDS History, TLC

CONSTANTS a, b

Symmetric == Permutations(Signatures)

\* A short output, one with whitespace to clean, a long one, one whose cleaned
\* encoding is larger because of escapes, and one that is not a string.
Short == [id |-> "short", plain |-> TRUE, messy |-> FALSE, long |-> FALSE,
          raw |-> 2, clean |-> 2, cut |-> 2]
Messy == [id |-> "messy", plain |-> TRUE, messy |-> TRUE, long |-> FALSE,
          raw |-> 8, clean |-> 5, cut |-> 5]
Dump == [id |-> "dump", plain |-> TRUE, messy |-> TRUE, long |-> TRUE,
         raw |-> 9, clean |-> 8, cut |-> 4]
Escaped == [id |-> "escaped", plain |-> TRUE, messy |-> TRUE, long |-> FALSE,
            raw |-> 5, clean |-> 6, cut |-> 6]
Image == [id |-> "image", plain |-> FALSE, messy |-> FALSE, long |-> FALSE,
          raw |-> 9, clean |-> 9, cut |-> 9]

AllContents == {Messy, Dump, Escaped, Image}
ShortAndLong == {Short, Dump}
LongOnly == {Dump}

==============================================================================
