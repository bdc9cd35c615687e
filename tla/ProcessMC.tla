------------------------------ MODULE ProcessMC ------------------------------
(* Values of the constants of Process for TLC.                             *)
EXTENDS Process

CONSTANTS server, other, short, long

ServeOrAnything ==
  [p \in Processes |-> IF p = server THEN {"serve", "activate"}
                                     ELSE {"serve", "activate", "remove"}]

TwiceAndOnce == [p \in Processes |-> IF p = server THEN 2 ELSE 1]

Sizes == [k \in Keys |-> IF k = short THEN 1 ELSE 2]

OldRow == [process |-> "older version"]

OldOnes == {OldRow}

\* No database yet; one of an older version that knew no indexes; and one of this
\* version that was cut short.
FoundDbs ==
  { [table |-> "none", indexes |-> {}, rows |-> {}],
    [table |-> "old", indexes |-> {}, rows |-> {OldRow}],
    [table |-> "current", indexes |-> {"session"}, rows |-> {}] }

==============================================================================
