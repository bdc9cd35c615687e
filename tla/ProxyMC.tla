------------------------------- MODULE ProxyMC -------------------------------
(* Values of the constants of Proxy for TLC.                               *)
EXTENDS ProxyContract

CONSTANTS c1, c2, read, push, id1, id2, p1, p2

\* Two clients that name the same session (X-Session-Id), one on each endpoint.
SharedSession == [c \in Clients |-> id1]
OnePerApi == [c \in Clients |-> IF c = c1 THEN "openai" ELSE "anthropic"]

\* A session of its own for every client.
OwnSession == [c \in Clients |-> IF c = c1 THEN id1 ELSE id2]
AllOpenAI == [c \in Clients |-> "openai"]
AllAnthropic == [c \in Clients |-> "anthropic"]

AllTools == {Tools}
AllOrNoTools == {Tools, {}}

Auto == {[mode |-> "auto"]}
AutoOrFunction == Auto \cup {[mode |-> "function", tool |-> push]}
AutoOrForced == Auto \cup {[mode |-> "function", tool |-> push],
                           [mode |-> "tool", tool |-> push]}

==============================================================================
