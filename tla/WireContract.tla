---------------------------- MODULE WireContract -----------------------------
(***************************************************************************)
(* Wire implements SessionContract.  The key of a conversation is the id   *)
(* under which the proxy has counted its first request, the ledger of a    *)
(* key is the session with this id, and what has been called is read off   *)
(* the request as it went upstream.                                        *)
(***************************************************************************)
EXTENDS Wire

\* The requests of a conversation that the proxy could parse.
Requests(c) == {i \in Parsed : recording[i].conversation = c}

FirstOf(c) == CHOOSE i \in Requests(c) : \A j \in Requests(c) : i <= j
LastOf(c) == CHOOSE i \in Requests(c) : \A j \in Requests(c) : j <= i

NamesSent(entry) ==
  IF entry.opening.api = "openai" THEN ChatCallNames(entry.got)
                                  ELSE AnthropicCallNames(entry.got)

Key ==
  [c \in Conversations |-> IF Requests(c) = {} THEN NoHeader ELSE recording[FirstOf(c)].id]

Told ==
  [c \in Conversations |-> IF Requests(c) = {} THEN {} ELSE NamesSent(recording[LastOf(c)])]

Account(s) == [turns |-> s.turns, called |-> s.toolsUsed, hit |-> s.lastCacheHit]

Ledger == [id \in DOMAIN sessions |-> Account(sessions[id])]

Contract == INSTANCE SessionContract WITH
  NoKey  <- NoHeader,
  key    <- Key,
  told   <- Told,
  ledger <- Ledger

\* Whatever the JSON types do to a request on its way, the proxy counts it, the calls in
\* its history and its answer once, in the session of the first request of its
\* conversation, with or without a header, and in no other (IDFor, IDForRequest,
\* Store.Get, ObserveToolCalls, RecordCacheHit).
KeepsLedgers == Contract!Spec

==============================================================================
