--------------------------- MODULE SessionContract ---------------------------
(***************************************************************************)
(* What sessions promise to conversations, without JSON, ids or texts.  A  *)
(* conversation has a key from its first request on, and keeps it.  The    *)
(* ledger of a key has seen the requests of the conversations that have    *)
(* the key, all of each, and nothing else.                                 *)
(***************************************************************************)
EXTENDS Naturals

CONSTANTS
  Conversations,
  NoKey           \* of a conversation that has not begun

VARIABLES
  key,     \* per conversation: the key of its ledger
  told,    \* per conversation: tools called in the history that it has sent last
  ledger   \* per key in use: requests seen, tools called in them, last answer a hit

contractVars == <<key, told, ledger>>

NewLedger == [turns |-> 0, called |-> {}, hit |-> FALSE]

LedgerOf(k) == IF k \in DOMAIN ledger THEN ledger[k] ELSE NewLedger

Init ==
  /\ key = [c \in Conversations |-> NoKey]
  /\ told = [c \in Conversations |-> {}]
  /\ ledger = [k \in {} |-> NewLedger]

\* A request enters the ledger of its conversation once, with all that has been called in
\* its history, and so does its answer.  Histories grow.
Take(c) ==
  /\ told[c] \subseteq told'[c]
  /\ told' = [told EXCEPT ![c] = told'[c]]
  /\ \E hit \in BOOLEAN :
       ledger' = [k \in DOMAIN ledger \cup {key'[c]} |->
         IF k = key'[c] THEN [ turns |-> LedgerOf(k).turns + 1,
                               called |-> LedgerOf(k).called \cup told'[c],
                               hit |-> hit ]
                        ELSE ledger[k]]

\* Any key will do.
Begin(c) ==
  /\ key[c] = NoKey
  /\ key'[c] # NoKey
  /\ key' = [key EXCEPT ![c] = key'[c]]
  /\ Take(c)

Continue(c) ==
  /\ key[c] # NoKey
  /\ key' = key
  /\ Take(c)

Next == \E c \in Conversations : Begin(c) \/ Continue(c)

Spec == Init /\ [][Next]_contractVars

==============================================================================
