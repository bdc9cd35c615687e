---------------------------- MODULE History_proofs ----------------------------
(***************************************************************************)
(* What deduplication and compaction together do to a history, for all     *)
(* contents, signatures, windows and lengths of the conversation.          *)
(***************************************************************************)
EXTENDS History, FoldFacts, FiniteSetTheorems, TLAPS

------------------------------------------------------------------------------
(* Sequences and their places.                                             *)

LEMMA MappedSequence ==
  ASSUME NEW n \in Nat, NEW f, f = [i \in 1 .. n |-> f[i]]
  PROVE  Len(f) = n /\ DOMAIN f = 1 .. n
<1> DEFINE S == {f[i] : i \in 1 .. n}
<1>1. f \in [1 .. n -> S]
  OBVIOUS
<1> HIDE DEF S
<1>2. f \in Seq(S)
  BY <1>1
<1> QED BY <1>1, <1>2

\* What a client can send: every part is in its original form.
PartForms ==
       {Text(content) : content \in Contents}
  \cup {Use(id, sig) : id \in Nat \X Nat, sig \in Signatures}
  \cup {Result(id, content) : id \in Nat \X Nat, content \in Contents}

MessageForms == [role : {"user", "assistant", "tool"}, parts : Seq(PartForms)]

Histories == Seq(MessageForms)

LEMMA MessagesOfHistory ==
  ASSUME NEW h \in Histories
  PROVE  /\ DOMAIN h = 1 .. Len(h) /\ Len(h) \in Nat
         /\ \A i \in 1 .. Len(h) :
              /\ h[i] \in MessageForms
              /\ h[i].parts \in Seq(PartForms)
              /\ DOMAIN h[i].parts = 1 .. Len(h[i].parts)
              /\ Len(h[i].parts) \in Nat
<1>1. DOMAIN h = 1 .. Len(h) /\ Len(h) \in Nat
  BY DEF Histories
<1>2. ASSUME NEW i \in 1 .. Len(h)
      PROVE  h[i] \in MessageForms /\ h[i].parts \in Seq(PartForms)
  <2>1. h[i] \in MessageForms
    BY DEF Histories
  <2> QED BY <2>1 DEF MessageForms
<1>3. ASSUME NEW i \in 1 .. Len(h)
      PROVE  DOMAIN h[i].parts = 1 .. Len(h[i].parts) /\ Len(h[i].parts) \in Nat
  <2>1. h[i].parts \in Seq(PartForms)
    BY <1>2
  <2> QED BY <2>1
<1> QED BY <1>1, <1>2, <1>3

LEMMA PartsOfHistory ==
  ASSUME NEW h \in Histories, NEW at \in Places(h)
  PROVE  /\ at = <<at[1], at[2]>>
         /\ at[1] \in DOMAIN h /\ at[1] \in 1 .. Len(h)
         /\ h[at[1]] \in MessageForms
         /\ at[2] \in DOMAIN h[at[1]].parts /\ at[2] \in 1 .. Len(h[at[1]].parts)
         /\ PartAt(h, at) \in PartForms
<1>1. PICK i \in 1 .. Len(h) : at \in {i} \X (1 .. Len(h[i].parts))
  BY DEF Places
<1>2. at = <<i, at[2]>> /\ at[1] = i /\ at[2] \in 1 .. Len(h[i].parts)
  BY <1>1
<1>3. i \in DOMAIN h /\ h[i] \in MessageForms
  BY DEF Histories
<1>4. h[i].parts \in Seq(PartForms)
  BY <1>3 DEF MessageForms
<1>5. DOMAIN h[i].parts = 1 .. Len(h[i].parts)
  BY <1>4
<1>6. h[i].parts[at[2]] \in PartForms
  BY <1>2, <1>4
<1> QED BY <1>2, <1>3, <1>5, <1>6 DEF PartAt

------------------------------------------------------------------------------
(* The shape of what the passes return.                                    *)

IsMessage(m) == m = [f \in {"role", "parts"} |-> m[f]]

\* g is h with other parts in the same places.
SameShape(g, h) ==
  /\ g = [i \in 1 .. Len(h) |-> g[i]] /\ Len(g) = Len(h)
  /\ \A i \in 1 .. Len(h) :
       /\ g[i].role = h[i].role
       /\ IsMessage(g[i])
       /\ g[i].parts = [j \in 1 .. Len(h[i].parts) |-> g[i].parts[j]]
       /\ Len(g[i].parts) = Len(h[i].parts)

LEMMA DedupeShape ==
  ASSUME NEW h \in Histories
  PROVE  /\ SameShape(DedupeToolResults(h), h)
         /\ \A at \in Places(h) :
              PartAt(DedupeToolResults(h), at) =
                IF at \in Stubbed(h) THEN [PartAt(h, at) EXCEPT !.form = "stub"]
                                     ELSE PartAt(h, at)
<1> DEFINE g == DedupeToolResults(h)
           part(i, j) == IF <<i, j>> \in Stubbed(h)
                           THEN [h[i].parts[j] EXCEPT !.form = "stub"] ELSE h[i].parts[j]
<1>1. DOMAIN h = 1 .. Len(h) /\ Len(h) \in Nat
  BY MessagesOfHistory
<1>2. g = [i \in 1 .. Len(h) |-> [h[i] EXCEPT !.parts =
            [j \in DOMAIN @ |-> part(i, j)]]]
  BY <1>1 DEF DedupeToolResults
<1> HIDE DEF part, g
<1>3. Len(g) = Len(h) /\ g = [i \in 1 .. Len(h) |-> g[i]]
  BY <1>1, <1>2, MappedSequence
<1>4. ASSUME NEW i \in 1 .. Len(h)
      PROVE  /\ IsMessage(g[i])
             /\ g[i].role = h[i].role
             /\ g[i].parts = [j \in 1 .. Len(h[i].parts) |-> part(i, j)]
             /\ Len(g[i].parts) = Len(h[i].parts)
  <2>1. h[i] \in MessageForms /\ DOMAIN h[i].parts = 1 .. Len(h[i].parts)
        /\ Len(h[i].parts) \in Nat
    BY MessagesOfHistory
  <2>2. g[i] = [h[i] EXCEPT !.parts = [j \in 1 .. Len(h[i].parts) |-> part(i, j)]]
    BY <1>2, <2>1
  <2>3. /\ g[i].parts = [j \in 1 .. Len(h[i].parts) |-> part(i, j)]
        /\ g[i].role = h[i].role
    BY <2>1, <2>2 DEF MessageForms
  <2>4. Len(g[i].parts) = Len(h[i].parts)
    BY <2>1, <2>3, MappedSequence
  <2>5. IsMessage(g[i])
    BY <2>1, <2>2 DEF IsMessage, MessageForms
  <2> QED BY <2>3, <2>4, <2>5
<1>5. SameShape(g, h)
  <2> SUFFICES ASSUME NEW i \in 1 .. Len(h)
               PROVE  /\ g[i].role = h[i].role
                      /\ IsMessage(g[i])
                      /\ g[i].parts = [j \in 1 .. Len(h[i].parts) |-> g[i].parts[j]]
                      /\ Len(g[i].parts) = Len(h[i].parts)
    BY <1>3 DEF SameShape
  <2> QED BY <1>4
<1>6. ASSUME NEW at \in Places(h)
      PROVE  PartAt(g, at) = part(at[1], at[2])
  <2>1. at[1] \in 1 .. Len(h) /\ at[2] \in 1 .. Len(h[at[1]].parts)
    BY PartsOfHistory
  <2> QED BY <1>4, <2>1 DEF PartAt
<1>7. ASSUME NEW at \in Places(h)
      PROVE  part(at[1], at[2]) = IF at \in Stubbed(h)
                                    THEN [PartAt(h, at) EXCEPT !.form = "stub"]
                                    ELSE PartAt(h, at)
  <2>1. at = <<at[1], at[2]>>
    BY PartsOfHistory
  <2> QED BY <2>1 DEF part, PartAt
<1> QED BY <1>5, <1>6, <1>7 DEF g

LEMMA CompactMessageShape ==
  ASSUME NEW m, NEW n \in Nat, IsMessage(m), m.parts = [j \in 1 .. n |-> m.parts[j]]
  PROVE  /\ IsMessage(CompactMessage(m))
         /\ CompactMessage(m).role = m.role
         /\ CompactMessage(m).parts = [j \in 1 .. n |-> CompactMessage(m).parts[j]]
         /\ \A j \in 1 .. n :
              CompactMessage(m).parts[j] \in {m.parts[j], CompactPart(m.parts[j])}
<1> DEFINE compact == [m EXCEPT !.parts = [j \in DOMAIN @ |-> CompactPart(@[j])]]
<1>1. CompactMessage(m) \in {m, compact}
  BY DEF CompactMessage
<1>2. DOMAIN m.parts = 1 .. n
  OBVIOUS
<1>3. compact = [m EXCEPT !.parts = [j \in 1 .. n |-> CompactPart(m.parts[j])]]
  BY <1>2
<1>4. /\ IsMessage(compact)
      /\ compact.role = m.role
      /\ compact.parts = [j \in 1 .. n |-> CompactPart(m.parts[j])]
  BY <1>3 DEF IsMessage
<1> HIDE DEF compact
<1>5. CASE CompactMessage(m) = compact
  BY <1>4, <1>5
<1>6. CASE CompactMessage(m) = m
  BY <1>6
<1> QED BY <1>1, <1>5, <1>6

LEMMA PlacesOfShape ==
  ASSUME NEW g, NEW h, SameShape(g, h)
  PROVE  Places(g) = Places(h)
<1>1. Len(g) = Len(h) /\ \A i \in 1 .. Len(h) : Len(g[i].parts) = Len(h[i].parts)
  BY DEF SameShape
<1> QED BY <1>1 DEF Places

\* Compaction after deduplication: every part is as deduplication has left it or
\* compacted, and in the last messages it is as deduplication has left it.
LEMMA ApplyShape ==
  ASSUME NEW h \in Histories
  PROVE  /\ SameShape(Apply(h), h)
         /\ \A at \in Places(h) :
              LET q == PartAt(DedupeToolResults(h), at)
              IN  /\ PartAt(Apply(h), at) \in {q, CompactPart(q)}
                  /\ at[1] > Len(h) - RecencyWindow => PartAt(Apply(h), at) = q
<1> DEFINE g == DedupeToolResults(h)
           a == Apply(h)
<1>1. SameShape(g, h)
  BY DedupeShape
<1>2. /\ Len(g) = Len(h) /\ DOMAIN g = 1 .. Len(h) /\ Len(h) \in Nat
      /\ RecencyWindow \in Nat
  BY <1>1, MessagesOfHistory, ParameterAssumption DEF SameShape
<1>3. a = CompactHistory(g)
  BY DEF Apply
<1> HIDE DEF g, a
<1>4. CASE Len(g) <= RecencyWindow
  <2>1. a = g
    BY <1>3, <1>4 DEF CompactHistory
  <2> QED BY <1>1, <2>1 DEF g, a
<1>5. CASE ~(Len(g) <= RecencyWindow)
  <2>1. a = [i \in 1 .. Len(h) |->
               IF i <= Len(h) - RecencyWindow THEN CompactMessage(g[i]) ELSE g[i]]
    BY <1>2, <1>3, <1>5 DEF CompactHistory
  <2>2. Len(a) = Len(h) /\ a = [i \in 1 .. Len(h) |-> a[i]]
    BY <1>2, <2>1, MappedSequence
  <2>3. ASSUME NEW i \in 1 .. Len(h)
        PROVE  /\ IsMessage(a[i])
               /\ a[i].role = h[i].role
               /\ a[i].parts = [j \in 1 .. Len(h[i].parts) |-> a[i].parts[j]]
               /\ Len(a[i].parts) = Len(h[i].parts)
               /\ i > Len(h) - RecencyWindow => a[i] = g[i]
               /\ \A j \in 1 .. Len(h[i].parts) :
                    a[i].parts[j] \in {g[i].parts[j], CompactPart(g[i].parts[j])}
    <3>1. /\ IsMessage(g[i]) /\ g[i].role = h[i].role
          /\ g[i].parts = [j \in 1 .. Len(h[i].parts) |-> g[i].parts[j]]
          /\ Len(g[i].parts) = Len(h[i].parts)
      BY <1>1 DEF SameShape
    <3>2. Len(h[i].parts) \in Nat
      BY MessagesOfHistory
    <3>3. CASE i <= Len(h) - RecencyWindow
      <4> DEFINE m == g[i]
                 n == Len(h[i].parts)
      <4>1. a[i] = CompactMessage(m)
        BY <2>1, <3>3
      <4>2. n \in Nat /\ IsMessage(m) /\ m.parts = [j \in 1 .. n |-> m.parts[j]]
        BY <3>1, <3>2
      <4> HIDE DEF m, n
      <4>3. /\ IsMessage(a[i]) /\ a[i].role = m.role
            /\ a[i].parts = [j \in 1 .. n |-> a[i].parts[j]]
            /\ \A j \in 1 .. n : a[i].parts[j] \in {m.parts[j], CompactPart(m.parts[j])}
        BY <4>1, <4>2, CompactMessageShape
      <4>4. /\ IsMessage(a[i]) /\ a[i].role = g[i].role
            /\ a[i].parts = [j \in 1 .. Len(h[i].parts) |-> a[i].parts[j]]
            /\ \A j \in 1 .. Len(h[i].parts) :
                 a[i].parts[j] \in {g[i].parts[j], CompactPart(g[i].parts[j])}
        BY <4>3 DEF m, n
      <4>5. Len(a[i].parts) = Len(h[i].parts)
        BY <3>2, <4>4, MappedSequence
      <4>6. ~(i > Len(h) - RecencyWindow)
        BY <1>2, <3>3
      <4> QED BY <3>1, <4>4, <4>5, <4>6
    <3>4. CASE ~(i <= Len(h) - RecencyWindow)
      <4>1. a[i] = g[i]
        BY <2>1, <3>4
      <4> QED BY <3>1, <4>1
    <3> QED BY <3>3, <3>4
  <2>4. SameShape(a, h)
    BY <2>2, <2>3 DEF SameShape
  <2>5. ASSUME NEW at \in Places(h)
        PROVE  /\ PartAt(a, at) \in {PartAt(g, at), CompactPart(PartAt(g, at))}
               /\ at[1] > Len(h) - RecencyWindow => PartAt(a, at) = PartAt(g, at)
    <3>1. at[1] \in 1 .. Len(h) /\ at[2] \in 1 .. Len(h[at[1]].parts)
      BY PartsOfHistory
    <3> QED BY <2>3, <3>1 DEF PartAt
  <2> QED BY <2>4, <2>5 DEF g, a
<1> QED BY <1>4, <1>5

\* What can become of one part: q is what deduplication makes of p, r what
\* compaction makes of q.
Deduped(p, q) == q = p \/ q = [p EXCEPT !.form = "stub"]

Outcome(p, q, r) ==
  /\ r.kind = p.kind
  /\ p.kind = "use" => r = p
  /\ p.kind # "use" =>
       /\ p.form = "original" /\ q.form \in {"original", "stub"}
       /\ r.form \in {"original", "cleaned", "truncated", "stub"}
       /\ r = [p EXCEPT !.form = r.form]
       /\ q = p => r.form # "stub"
       /\ r.form = "truncated" => p.content.plain /\ p.content.long

LEMMA PartOutcome ==
  ASSUME NEW p \in PartForms, NEW q, Deduped(p, q), NEW r, r \in {q, CompactPart(q)}
  PROVE  Outcome(p, q, r)
<1> USE DEF Deduped, Outcome
<1>1. CASE \E id \in Nat \X Nat, sig \in Signatures : p = Use(id, sig)
  BY <1>1 DEF Use, CompactPart
<1>2. CASE \E content \in Contents : p = Text(content)
  BY <1>2 DEF Text, CompactPart
<1>3. CASE \E id \in Nat \X Nat, content \in Contents : p = Result(id, content)
  BY <1>3 DEF Result, CompactPart
<1> QED BY <1>1, <1>2, <1>3 DEF PartForms

------------------------------------------------------------------------------
(* The conversation.                                                       *)

\* What is forwarded is the history rewritten, or the history before any turn.
HistoryInv ==
  /\ api \in Apis
  /\ history \in Histories
  /\ sent \in {history, Apply(history)}

LEMMA TurnKeepsHistory ==
  ASSUME HistoryInv, NEW messages \in Histories, Request(messages)
  PROVE  HistoryInv'
<1>1. history' = history \o messages /\ sent' = Apply(history') /\ api' = api
  BY DEF Request
<1>2. history \o messages \in Histories
  BY DEF HistoryInv, Histories
<1> HIDE DEF Histories
<1> QED BY <1>1, <1>2 DEF HistoryInv

LEMMA TypedMessage ==
  ASSUME NEW role \in {"user", "assistant", "tool"}, NEW parts \in Seq(PartForms)
  PROVE  Message(role, parts) \in MessageForms
BY DEF Message, MessageForms

LEMMA TypedPart ==
  ASSUME NEW role \in {"user", "assistant", "tool"}, NEW part \in PartForms
  PROVE  Message(role, <<part>>) \in MessageForms
<1>1. <<part>> \in Seq(PartForms)
  OBVIOUS
<1> QED BY <1>1, TypedMessage

LEMMA TypedCalls ==
  ASSUME HistoryInv, NEW n \in 1 .. 2, NEW sigs \in [1 .. n -> Signatures]
  PROVE  <<CallMessage(sigs)>> \in Histories
<1>1. Len(history) + 1 \in Nat
  BY DEF HistoryInv, Histories
<1> DEFINE parts == [j \in DOMAIN sigs |-> Use(<<Len(history) + 1, j>>, sigs[j])]
<1>2. \A j \in 1 .. n : Use(<<Len(history) + 1, j>>, sigs[j]) \in PartForms
  BY <1>1 DEF PartForms
<1>3. parts \in [1 .. n -> PartForms]
  BY <1>2
<1>4. parts \in Seq(PartForms)
  BY <1>3
<1>5. CallMessage(sigs) = Message("assistant", parts)
  BY DEF CallMessage
<1>6. CallMessage(sigs) \in MessageForms
  BY <1>4, <1>5, TypedMessage
<1> QED BY <1>6 DEF Histories

LEMMA TypedAnswers ==
  ASSUME HistoryInv, NEW n \in 1 .. 2, NEW contents \in [1 .. n -> Contents]
  PROVE  Answers(contents) \in Histories
<1>1. Len(history) + 1 \in Nat
  BY DEF HistoryInv, Histories
<1> DEFINE result(j) == Result(<<Len(history) + 1, j>>, contents[j])
<1>2. \A j \in 1 .. n : result(j) \in PartForms
  BY <1>1 DEF PartForms
<1> HIDE DEF result
<1>3. CASE api = "openai"
  <2>1. \A j \in 1 .. n : Message("tool", <<result(j)>>) \in MessageForms
    BY <1>2, TypedPart
  <2>2. [j \in 1 .. n |-> Message("tool", <<result(j)>>)] \in Seq(MessageForms)
    BY <2>1
  <2> QED BY <1>3, <2>2 DEF Answers, result, Histories
<1>4. CASE api # "openai"
  <2>1. [j \in 1 .. n |-> result(j)] \in Seq(PartForms)
    BY <1>2
  <2>2. Message("user", [j \in 1 .. n |-> result(j)]) \in MessageForms
    BY <2>1, TypedMessage
  <2> QED BY <1>4, <2>2 DEF Answers, result, Histories
<1> QED BY <1>3, <1>4

LEMMA InitHistory == Init => HistoryInv
<1> SUFFICES ASSUME Init PROVE HistoryInv
  OBVIOUS
<1>1. ASSUME NEW content \in Orphans PROVE <<Orphan(content)>> \in Histories
  <2>1. Result(<<0, 1>>, content) \in PartForms
    BY ParameterAssumption DEF PartForms
  <2>2. Orphan(content) \in MessageForms
    BY <2>1, TypedPart DEF Orphan
  <2> QED BY <2>2 DEF Histories
<1>2. <<>> \in Histories
  BY DEF Histories
<1> QED BY <1>1, <1>2 DEF Init, HistoryInv

LEMMA StepHistory == HistoryInv /\ [Next]_vars => HistoryInv'
<1> SUFFICES ASSUME HistoryInv, [Next]_vars PROVE HistoryInv'
  OBVIOUS
<1>1. CASE Ask
  <2>1. PICK content \in Contents : Request(<<Message("user", <<Text(content)>>)>>)
    BY <1>1 DEF Ask
  <2>2. Message("user", <<Text(content)>>) \in MessageForms
    BY TypedPart DEF PartForms
  <2>3. <<Message("user", <<Text(content)>>)>> \in Histories
    BY <2>2 DEF Histories
  <2> QED BY <2>1, <2>3, TurnKeepsHistory
<1>2. CASE CallTools
  <2>1. PICK n \in 1 .. 2 :
          \E sigs \in [1 .. n -> Signatures], contents \in [1 .. n -> Contents] :
            Request(<<CallMessage(sigs)>> \o Answers(contents))
    BY <1>2 DEF CallTools
  <2>2. PICK sigs \in [1 .. n -> Signatures], contents \in [1 .. n -> Contents] :
          Request(<<CallMessage(sigs)>> \o Answers(contents))
    BY <2>1
  <2>3. <<CallMessage(sigs)>> \in Histories /\ Answers(contents) \in Histories
    BY TypedCalls, TypedAnswers
  <2>4. <<CallMessage(sigs)>> \o Answers(contents) \in Histories
    BY <2>3 DEF Histories
  <2> QED BY <2>2, <2>4, TurnKeepsHistory
<1>3. CASE UNCHANGED vars
  <2>1. UNCHANGED <<api, history, sent>>
    BY <1>3 DEF vars
  <2> QED BY <2>1 DEF HistoryInv
<1> QED BY <1>1, <1>2, <1>3 DEF Next, Full

THEOREM HistoryInductive == Spec => []HistoryInv
BY InitHistory, StepHistory, PTL DEF Spec

------------------------------------------------------------------------------
(* What is sent of each part.                                              *)

LEMMA SentShape ==
  ASSUME HistoryInv
  PROVE  /\ history \in Histories /\ SameShape(sent, history)
         /\ Places(sent) = Places(history)
<1>1. history \in Histories
  BY DEF HistoryInv
<1>2. SameShape(history, history)
  <2>1. ASSUME NEW i \in 1 .. Len(history)
        PROVE  /\ IsMessage(history[i])
               /\ history[i].parts = [j \in 1 .. Len(history[i].parts) |-> history[i].parts[j]]
    BY <1>1, MessagesOfHistory DEF IsMessage, MessageForms
  <2>2. history = [i \in 1 .. Len(history) |-> history[i]]
    BY <1>1 DEF Histories
  <2> QED BY <2>1, <2>2 DEF SameShape
<1>3. SameShape(sent, history)
  BY <1>1, <1>2, ApplyShape DEF HistoryInv
<1> QED BY <1>1, <1>3, PlacesOfShape

\* A part is sent as the client has it, or as the passes have left it: a part that
\* deduplication has not stubbed is not a stub.
LEMMA SentPart ==
  ASSUME HistoryInv, NEW at \in Places(history)
  PROVE  LET p == PartAt(history, at)
             r == PartAt(sent, at)
         IN  /\ p \in PartForms
             /\ r.kind = p.kind
             /\ p.kind = "use" => r = p
             /\ p.kind # "use" =>
                  /\ p.form = "original"
                  /\ r.form \in {"original", "cleaned", "truncated", "stub"}
                  /\ r = [p EXCEPT !.form = r.form]
                  /\ r.form = "truncated" => p.content.plain /\ p.content.long
                  /\ r.form = "stub" => at \in Stubbed(history) /\ sent = Apply(history)
                  /\ at[1] > Len(history) - RecencyWindow => r.form \in {"original", "stub"}
<1> DEFINE p == PartAt(history, at)
           q == PartAt(DedupeToolResults(history), at)
           r == PartAt(sent, at)
<1>1. history \in Histories /\ p \in PartForms
  BY PartsOfHistory DEF HistoryInv
<1>2. CASE sent = history
  <2>1. r = p
    BY <1>2
  <2> HIDE DEF p, r
  <2>2. Deduped(p, p)
    BY DEF Deduped
  <2>3. Outcome(p, p, p)
    BY <1>1, <2>2, PartOutcome
  <2> QED BY <1>1, <2>1, <2>3 DEF Outcome, p, r
<1>3. CASE sent = Apply(history)
  <2>1. q = IF at \in Stubbed(history) THEN [p EXCEPT !.form = "stub"] ELSE p
    BY <1>1, DedupeShape
  <2>2. /\ r \in {q, CompactPart(q)}
        /\ at[1] > Len(history) - RecencyWindow => r = q
    BY <1>1, <1>3, ApplyShape
  <2> HIDE DEF p, q, r
  <2>3. Deduped(p, q)
    BY <2>1 DEF Deduped
  <2>4. Outcome(p, q, r)
    BY <1>1, <2>2, <2>3, PartOutcome
  <2>5. r.form = "stub" /\ p.kind # "use" => at \in Stubbed(history)
    BY <2>1, <2>4 DEF Outcome
  <2> QED BY <1>1, <1>3, <2>2, <2>4, <2>5 DEF Outcome, p, r
<1> QED BY <1>2, <1>3 DEF HistoryInv

LEMMA WrittenSent == ASSUME HistoryInv PROVE Written(sent) = Written(history)
BY SentShape, SentPart DEF Written

LEMMA InvTypeOK == HistoryInv => TypeOK
<1> SUFFICES ASSUME HistoryInv PROVE TypeOK
  OBVIOUS
<1>1. /\ api \in Apis
      /\ Places(sent) = Places(history)
      /\ Len(sent) = Len(history) /\ DOMAIN sent = 1 .. Len(history)
      /\ \A i \in 1 .. Len(history) : sent[i].role = history[i].role
  BY SentShape DEF HistoryInv, SameShape
<1>2. ASSUME NEW at \in Places(history)
      PROVE  IF at \in Written(history)
               THEN /\ FormAt(at) \in {"original", "cleaned", "truncated", "stub"}
                    /\ PartAt(sent, at) = [PartAt(history, at) EXCEPT !.form = FormAt(at)]
               ELSE PartAt(sent, at) = PartAt(history, at)
  BY SentPart DEF FormAt, Written
<1> QED BY <1>1, <1>2 DEF TypeOK

\* Rewriting the messages of a request (Pipeline.Apply) keeps their number, their
\* roles, the number and kind of their parts and which call each result answers;
\* what a text or a result says stays, cleaned, is cut or becomes a stub.
THEOREM RewriteKeepsShape == Spec => []TypeOK
BY HistoryInductive, InvTypeOK, PTL

LEMMA InvRecentOnlyStubbed == HistoryInv => RecentOnlyStubbed
<1> SUFFICES ASSUME HistoryInv, NEW at \in Written(sent),
                    at[1] > Len(sent) - RecencyWindow
             PROVE  FormAt(at) \in {"original", "stub"}
  BY DEF RecentOnlyStubbed
<1>1. at \in Places(history) /\ PartAt(history, at).kind # "use"
  BY WrittenSent DEF Written
<1>2. Len(sent) = Len(history)
  BY SentShape DEF SameShape
<1> QED BY <1>1, <1>2, SentPart DEF FormAt

\* The last recencyWindow messages (compact_history) are never cleaned or cut: only
\* deduplication touches them, whatever the window.
THEOREM RecentKept == Spec => []RecentOnlyStubbed
BY HistoryInductive, InvRecentOnlyStubbed, PTL

------------------------------------------------------------------------------
(* Why a stub has a twin: among the answers with its key, the one that is  *)
(* visited first is not stubbed.                                           *)

AnswersOf(h) == {at \in Places(h) : IsAnswer(h, CallSignatures(h), at)}

SameKey(h, at) ==
  {other \in AnswersOf(h) :
     DedupeKey(h, CallSignatures(h), other) = DedupeKey(h, CallSignatures(h), at)}

LEMMA FirstVisited ==
  ASSUME NEW h \in Histories, NEW S \in SUBSET Places(h), S # {}
  PROVE  \E first \in S : \A other \in S :
           /\ ~VisitedBefore(other, first)
           /\ first[1] >= other[1]
<1>1. /\ Len(h) \in Nat
      /\ \A at \in S : at[1] \in 1 .. Len(h) /\ at[2] \in Nat
  BY PartsOfHistory, MessagesOfHistory
<1> DEFINE messages == {at[1] : at \in S}
<1>2. messages \in SUBSET (1 .. Len(h)) /\ messages # {}
  BY <1>1
<1>3. PICK i \in messages : \A k \in messages : i >= k
  BY <1>1, <1>2, Largest
<1> DEFINE blocks == {at[2] : at \in {x \in S : x[1] = i}}
<1>4. blocks \in SUBSET Nat /\ blocks # {}
  BY <1>1, <1>3
<1>5. PICK j \in blocks : \A k \in blocks : j <= k
  BY <1>4, Smallest
<1>6. PICK first \in S : first[1] = i /\ first[2] = j
  BY <1>5
<1>7. ASSUME NEW other \in S
      PROVE  ~VisitedBefore(other, first) /\ first[1] >= other[1]
  <2>1. i >= other[1] /\ i \in Nat /\ other[1] \in Nat /\ j \in Nat /\ other[2] \in Nat
    BY <1>1, <1>2, <1>3, <1>4, <1>5
  <2>2. other[1] = i => j <= other[2]
    BY <1>5
  <2> QED BY <1>6, <2>1, <2>2 DEF VisitedBefore
<1> QED BY <1>7

\* The repeats of a stub's output are the answers with its key.
LEMMA RepeatsHaveTheKey ==
  ASSUME HistoryInv, NEW at \in StubsSent
  PROVE  at \in Repeats(at) /\ Repeats(at) \subseteq SameKey(history, at)
<1>1. /\ Written(sent) = Written(history) /\ at \in Written(history)
      /\ PartAt(sent, at).form = "stub"
  BY WrittenSent DEF StubsSent, FormAt
<1>2. \A other \in Written(history) :
        other \in Places(history) /\ PartAt(history, other).form = "original"
  BY SentPart DEF Written
<1>3. at \in Stubbed(history)
  BY <1>1, SentPart DEF Written
<1>4. at \in Repeats(at)
  BY <1>1, <1>3 DEF Repeats, Stubbed
<1>5. Repeats(at) \subseteq SameKey(history, at)
  BY <1>1, <1>2 DEF Repeats, SameKey, AnswersOf, DedupeKey
<1> QED BY <1>4, <1>5

LEMMA StubHasTwin ==
  ASSUME HistoryInv, NEW at \in StubsSent
  PROVE  \E other \in KeptTwins(at) : \A repeat \in Repeats(at) : other[1] >= repeat[1]
<1> DEFINE calls == CallSignatures(history)
           twins == SameKey(history, at)
<1>1. history \in Histories
  BY DEF HistoryInv
<1>2. at \in twins /\ Repeats(at) \subseteq twins
  BY RepeatsHaveTheKey
<1>3. twins \subseteq Places(history)
  BY DEF SameKey, AnswersOf
<1> HIDE DEF twins
<1>4. PICK first \in twins : \A other \in twins :
        ~VisitedBefore(other, first) /\ first[1] >= other[1]
  BY <1>1, <1>2, <1>3, FirstVisited
<1>5. first \notin Stubbed(history)
  <2> SUFFICES ASSUME NEW other \in AnswersOf(history), VisitedBefore(other, first),
                      DedupeKey(history, calls, other) = DedupeKey(history, calls, first)
               PROVE  FALSE
    BY DEF Stubbed, AnswersOf
  <2>1. other \in twins
    BY <1>4 DEF twins, SameKey
  <2> QED BY <1>4, <2>1
<1>6. /\ first \in Places(history) /\ IsAnswer(history, calls, first)
      /\ DedupeKey(history, calls, first) = DedupeKey(history, calls, at)
  BY <1>4 DEF twins, SameKey, AnswersOf
<1>7. first \in Written(history)
  BY <1>6 DEF Written, IsAnswer
<1>8. first \in Written(sent) \ StubsSent
  <2>1. first \in Places(history) /\ PartAt(history, first).kind # "use"
    BY <1>7 DEF Written
  <2>2. PartAt(sent, first).form # "stub"
    BY <1>5, <2>1, SentPart
  <2> QED BY <1>7, <2>2, WrittenSent DEF StubsSent, FormAt
<1>9. first \in KeptTwins(at)
  BY <1>6, <1>8 DEF KeptTwins, Repeats, DedupeKey
<1> QED BY <1>2, <1>4, <1>9

------------------------------------------------------------------------------
(* No two results answer with the same call identifier.                    *)

Results(h) == {at \in Places(h) : PartAt(h, at).kind = "result"}

UniqueIds(h) ==
  \A at, other \in Results(h) : PartAt(h, at).id = PartAt(h, other).id => at = other

\* The results of h answer calls of message k at the earliest, at the latest.
IdsFrom(h, k) == \A at \in Results(h) : PartAt(h, at).id[1] = k

IdsUpTo(h, k) == \A at \in Results(h) : PartAt(h, at).id[1] \in 0 .. k

LEMMA PlacesOfConcat ==
  ASSUME NEW h \in Histories, NEW m \in Histories, NEW at \in Places(h \o m)
  PROVE  \/ at \in Places(h) /\ PartAt(h \o m, at) = PartAt(h, at)
         \/ /\ at[1] \in Len(h) + 1 .. Len(h) + Len(m)
            /\ <<at[1] - Len(h), at[2]>> \in Places(m)
            /\ PartAt(h \o m, at) = PartAt(m, <<at[1] - Len(h), at[2]>>)
            /\ (h \o m)[at[1]] = m[at[1] - Len(h)]
<1> DEFINE g == h \o m
<1>1. Len(h) \in Nat /\ Len(m) \in Nat /\ Len(g) = Len(h) + Len(m)
  BY DEF Histories
<1>2. g \in Histories
  BY DEF Histories
<1>3. \A i \in 1 .. Len(g) : g[i] = IF i <= Len(h) THEN h[i] ELSE m[i - Len(h)]
  BY DEF Histories
<1> HIDE DEF g
<1>4. at = <<at[1], at[2]>> /\ at[1] \in 1 .. Len(g) /\ at[2] \in 1 .. Len(g[at[1]].parts)
  BY <1>2, PartsOfHistory DEF g
<1>5. CASE at[1] <= Len(h)
  <2>1. at[1] \in 1 .. Len(h) /\ g[at[1]] = h[at[1]]
    BY <1>1, <1>3, <1>4, <1>5
  <2>2. at \in Places(h)
    BY <1>4, <2>1 DEF Places
  <2> QED BY <2>1, <2>2 DEF PartAt, g
<1>6. CASE ~(at[1] <= Len(h))
  <2>1. at[1] - Len(h) \in 1 .. Len(m) /\ g[at[1]] = m[at[1] - Len(h)]
    BY <1>1, <1>3, <1>4, <1>6
  <2>2. <<at[1] - Len(h), at[2]>> \in Places(m)
    BY <1>4, <2>1 DEF Places
  <2>3. at[1] \in Len(h) + 1 .. Len(h) + Len(m)
    BY <1>1, <1>4, <1>6
  <2> QED BY <2>1, <2>2, <2>3 DEF PartAt, g
<1> QED BY <1>5, <1>6

LEMMA UniqueIdsOfConcat ==
  ASSUME NEW h \in Histories, NEW m \in Histories,
         UniqueIds(h), IdsUpTo(h, Len(h)),
         UniqueIds(m), IdsFrom(m, Len(h) + 1), Len(m) > 0
  PROVE  UniqueIds(h \o m) /\ IdsUpTo(h \o m, Len(h \o m))
<1> DEFINE g == h \o m
           n == Len(h)
           old(at) == at \in Results(h) /\ PartAt(g, at).id = PartAt(h, at).id
           new(at) == /\ <<at[1] - n, at[2]>> \in Results(m)
                      /\ at[1] \in n + 1 .. n + Len(m)
                      /\ PartAt(g, at).id = PartAt(m, <<at[1] - n, at[2]>>).id
<1>1. n \in Nat /\ Len(m) \in Nat /\ Len(g) = n + Len(m) /\ g \in Histories
  BY DEF Histories
<1>2. \A at \in Results(g) : old(at) \/ new(at)
  BY PlacesOfConcat DEF Results
<1>3. \A at \in Results(g) : at = <<at[1], at[2]>>
  BY <1>1, PartsOfHistory DEF Results
<1> HIDE DEF g, n
<1>4. \A at \in Results(g) : old(at) => PartAt(g, at).id[1] \in 0 .. n
  BY DEF IdsUpTo, n
<1>5. \A at \in Results(g) : new(at) => PartAt(g, at).id[1] = n + 1
  BY DEF IdsFrom, n
<1>6. UniqueIds(g)
  <2> SUFFICES ASSUME NEW at \in Results(g), NEW other \in Results(g),
                      PartAt(g, at).id = PartAt(g, other).id
               PROVE  at = other
    BY DEF UniqueIds
  <2>1. (old(at) /\ old(other)) \/ (new(at) /\ new(other))
    BY <1>1, <1>2, <1>4, <1>5
  <2>2. CASE old(at) /\ old(other)
    BY <2>2 DEF UniqueIds
  <2>3. CASE new(at) /\ new(other)
    <3>1. <<at[1] - n, at[2]>> = <<other[1] - n, other[2]>>
      BY <2>3 DEF UniqueIds
    <3>2. at[1] = other[1] /\ at[2] = other[2]
      BY <1>1, <2>3, <3>1
    <3> QED BY <1>3, <3>2
  <2> QED BY <2>1, <2>2, <2>3
<1>7. IdsUpTo(g, Len(g))
  <2>1. n + 1 \in 0 .. Len(g) /\ (0 .. n) \subseteq 0 .. Len(g)
    BY <1>1
  <2>2. \A at \in Results(g) : PartAt(g, at).id[1] \in 0 .. Len(g)
    BY <1>2, <1>4, <1>5, <2>1
  <2> QED BY <2>2 DEF IdsUpTo
<1> QED BY <1>6, <1>7 DEF g

LEMMA IdsOfCalls ==
  ASSUME HistoryInv, NEW n \in 1 .. 2,
         NEW sigs \in [1 .. n -> Signatures], NEW contents \in [1 .. n -> Contents]
  PROVE  LET m == <<CallMessage(sigs)>> \o Answers(contents)
         IN  UniqueIds(m) /\ IdsFrom(m, Len(history) + 1) /\ Len(m) > 0
<1> DEFINE m == <<CallMessage(sigs)>> \o Answers(contents)
           k == Len(history) + 1
           a == Answers(contents)
           inAnswers(at) == <<at[1] - 1, at[2]>>
<1>1. <<CallMessage(sigs)>> \in Histories /\ a \in Histories /\ m \in Histories
  <2>1. <<CallMessage(sigs)>> \in Histories /\ a \in Histories
    BY TypedCalls, TypedAnswers
  <2> QED BY <2>1 DEF Histories
<1>2. Len(m) = 1 + Len(a) /\ Len(a) \in Nat /\ k \in Nat
  BY <1>1 DEF Histories, HistoryInv
<1>3. ASSUME NEW at \in Results(m)
      PROVE  /\ inAnswers(at) \in Results(a) /\ at[1] \in Nat
             /\ PartAt(m, at).id = PartAt(a, inAnswers(at)).id
             /\ at = <<at[1], at[2]>>
  <2>1. at \in Places(m) /\ PartAt(m, at).kind = "result"
    BY DEF Results
  <2>2. at = <<at[1], at[2]>>
    BY <1>1, <2>1, PartsOfHistory
  <2>3. ~(at \in Places(<<CallMessage(sigs)>>) /\ PartAt(m, at) = PartAt(<<CallMessage(sigs)>>, at))
    <3> SUFFICES ASSUME at \in Places(<<CallMessage(sigs)>>)
                 PROVE  PartAt(<<CallMessage(sigs)>>, at).kind # "result"
      BY <2>1
    <3>1. at[1] \in 1 .. 1 /\ at[2] \in DOMAIN <<CallMessage(sigs)>>[at[1]].parts
      BY <1>1, PartsOfHistory
    <3> QED BY <3>1 DEF PartAt, CallMessage, Message, Use
  <2>4. Len(<<CallMessage(sigs)>>) = 1
    OBVIOUS
  <2>5. /\ at[1] \in 1 + 1 .. 1 + Len(a) /\ <<at[1] - 1, at[2]>> \in Places(a)
        /\ PartAt(m, at) = PartAt(a, <<at[1] - 1, at[2]>>)
    BY <1>1, <2>1, <2>3, <2>4, PlacesOfConcat
  <2> QED BY <1>2, <2>1, <2>2, <2>5 DEF Results
<1>4. ASSUME NEW at \in Results(a)
      PROVE  PartAt(a, at).id = <<k, IF api = "openai" THEN at[1] ELSE at[2]>>
             /\ (IF api = "openai" THEN at[2] = 1 ELSE at[1] = 1) /\ at = <<at[1], at[2]>>
  <2>1. at = <<at[1], at[2]>> /\ at[1] \in DOMAIN a /\ at[2] \in DOMAIN a[at[1]].parts
    BY <1>1, PartsOfHistory DEF Results
  <2>2. CASE api = "openai"
    <3>1. a = [j \in 1 .. n |-> Message("tool", <<Result(<<k, j>>, contents[j])>>)]
      BY <2>2 DEF Answers
    <3>2. at[1] \in 1 .. n
      BY <2>1, <3>1
    <3>3. a[at[1]].parts = <<Result(<<k, at[1]>>, contents[at[1]])>>
      BY <3>1, <3>2 DEF Message
    <3>4. at[2] = 1
      BY <2>1, <3>3
    <3> QED BY <2>1, <2>2, <3>3, <3>4 DEF PartAt, Result
  <2>3. CASE api # "openai"
    <3> DEFINE parts == [j \in 1 .. n |-> Result(<<k, j>>, contents[j])]
    <3>1. a = <<Message("user", parts)>>
      BY <2>3 DEF Answers
    <3> HIDE DEF parts
    <3>2. at[1] = 1
      BY <2>1, <3>1
    <3>3. a[at[1]].parts = parts
      BY <3>1, <3>2 DEF Message
    <3> QED BY <2>1, <2>3, <3>2, <3>3 DEF PartAt, Result, parts
  <2> QED BY <2>2, <2>3
<1>5. ASSUME NEW at \in Results(m), NEW other \in Results(m),
             inAnswers(at) = inAnswers(other)
      PROVE  at = other
  <2>1. /\ at[1] - 1 = other[1] - 1 /\ at[2] = other[2]
        /\ at[1] \in Nat /\ other[1] \in Nat
    BY <1>3, <1>5
  <2>2. at[1] = other[1]
    BY <2>1
  <2> QED BY <1>3, <2>1, <2>2
<1> HIDE DEF m, k, a, inAnswers
<1>6. \A at \in Results(a) : \A other \in Results(a) :
        PartAt(a, at).id = PartAt(a, other).id => at = other
  BY <1>4
<1>7. \A at \in Results(a) : PartAt(a, at).id[1] = k
  BY <1>4
<1>8. UniqueIds(m)
  BY <1>3, <1>5, <1>6 DEF UniqueIds
<1>9. IdsFrom(m, k)
  BY <1>3, <1>7 DEF IdsFrom
<1> QED BY <1>2, <1>8, <1>9 DEF m, k

\* The passes of a request have seen the same history, and its results can be told
\* apart.
ReportInv ==
  /\ HistoryInv
  /\ UniqueIds(history) /\ IdsUpTo(history, Len(history))
  /\ sent = history \/ repeated = RepeatedToolCalls(history)

LEMMA InitReport == Init => ReportInv
<1> SUFFICES ASSUME Init PROVE UniqueIds(history) /\ IdsUpTo(history, Len(history))
  BY InitHistory DEF ReportInv, Init
<1>1. CASE history = <<>>
  BY <1>1 DEF UniqueIds, IdsUpTo, Results, Places
<1>2. CASE \E content \in Orphans : history = <<Orphan(content)>>
  <2>1. PICK content \in Orphans : history = <<Orphan(content)>>
    BY <1>2
  <2>2. /\ Len(history) = 1 /\ Len(history[1].parts) = 1
        /\ history[1].parts[1].id = <<0, 1>>
    BY <2>1 DEF Orphan, Message, Result
  <2>3. ASSUME NEW at \in Places(history) PROVE at = <<1, 1>>
    <3>1. /\ at = <<at[1], at[2]>> /\ at[1] \in 1 .. 1
          /\ at[2] \in 1 .. Len(history[at[1]].parts)
      BY <2>2, InitHistory, PartsOfHistory DEF HistoryInv
    <3>2. at[1] = 1
      BY <3>1
    <3>3. at[2] \in 1 .. Len(history[1].parts)
      BY <3>1, <3>2
    <3>4. at[2] = 1
      BY <2>2, <3>3
    <3> QED BY <3>1, <3>2, <3>4
  <2>4. \A at \in Places(history) : PartAt(history, at).id = <<0, 1>>
    BY <2>2, <2>3 DEF PartAt
  <2> QED BY <2>2, <2>3, <2>4 DEF UniqueIds, IdsUpTo, Results
<1> QED BY <1>1, <1>2 DEF Init

LEMMA StepReport == ReportInv /\ [Next]_vars => ReportInv'
<1> SUFFICES ASSUME ReportInv, [Next]_vars PROVE ReportInv'
  OBVIOUS
<1>1. HistoryInv /\ HistoryInv'
  BY StepHistory DEF ReportInv
<1>2. ASSUME NEW messages \in Histories, Request(messages),
             UniqueIds(messages), IdsFrom(messages, Len(history) + 1), Len(messages) > 0
      PROVE  ReportInv'
  <2>1. history' = history \o messages /\ repeated' = RepeatedToolCalls(history')
    BY <1>2 DEF Request
  <2>2. UniqueIds(history') /\ IdsUpTo(history', Len(history'))
    BY <1>1, <1>2, <2>1, UniqueIdsOfConcat DEF ReportInv, HistoryInv
  <2> QED BY <1>1, <2>1, <2>2 DEF ReportInv
<1>3. CASE Ask
  <2>1. PICK content \in Contents : Request(<<Message("user", <<Text(content)>>)>>)
    BY <1>3 DEF Ask
  <2> DEFINE message == <<Message("user", <<Text(content)>>)>>
  <2>2. Message("user", <<Text(content)>>) \in MessageForms
    BY TypedPart DEF PartForms
  <2>3. message \in Histories /\ Len(message) = 1
    BY <2>2 DEF Histories
  <2>4. message[1].parts = <<Text(content)>>
    BY DEF Message
  <2>5. Results(message) = {}
    BY <2>3, <2>4, PartsOfHistory DEF Results, PartAt, Text
  <2>6. UniqueIds(message) /\ IdsFrom(message, Len(history) + 1)
    BY <2>5 DEF UniqueIds, IdsFrom
  <2> QED BY <1>2, <2>1, <2>3, <2>6
<1>4. CASE CallTools
  <2>1. PICK n \in 1 .. 2 :
          \E sigs \in [1 .. n -> Signatures], contents \in [1 .. n -> Contents] :
            Request(<<CallMessage(sigs)>> \o Answers(contents))
    BY <1>4 DEF CallTools
  <2>2. PICK sigs \in [1 .. n -> Signatures], contents \in [1 .. n -> Contents] :
          Request(<<CallMessage(sigs)>> \o Answers(contents))
    BY <2>1
  <2>3. <<CallMessage(sigs)>> \in Histories /\ Answers(contents) \in Histories
    BY <1>1, TypedCalls, TypedAnswers
  <2>4. <<CallMessage(sigs)>> \o Answers(contents) \in Histories
    BY <2>3 DEF Histories
  <2> QED BY <1>1, <1>2, <2>2, <2>4, IdsOfCalls
<1>5. CASE UNCHANGED vars
  BY <1>1, <1>5 DEF vars, ReportInv
<1> QED BY <1>3, <1>4, <1>5 DEF Next, Full

LEMMA FinitePlaces ==
  ASSUME NEW h \in Histories
  PROVE  IsFiniteSet(Places(h))
<1> DEFINE row == [i \in 1 .. Len(h) |-> {i} \X (1 .. Len(h[i].parts))]
           rows == {row[i] : i \in 1 .. Len(h)}
<1>1. Len(h) \in Nat /\ \A i \in 1 .. Len(h) : Len(h[i].parts) \in Nat
  BY MessagesOfHistory
<1>2. IsFiniteSet(1 .. Len(h))
  BY <1>1, FS_Interval
<1>3. row \in Surjection(1 .. Len(h), rows)
  BY DEF Surjection
<1>4. IsFiniteSet(rows)
  BY <1>2, <1>3, FS_Surjection
<1>5. ASSUME NEW i \in 1 .. Len(h) PROVE IsFiniteSet(row[i])
  <2>1. IsFiniteSet({i})
    BY FS_Singleton
  <2> DEFINE n == Len(h[i].parts)
  <2>2. 1 \in Int /\ n \in Int
    BY <1>1
  <2>3. row[i] = {i} \X (1 .. n)
    OBVIOUS
  <2> HIDE DEF n, row
  <2>4. IsFiniteSet(1 .. n)
    BY <2>2, FS_Interval
  <2>5. IsFiniteSet({i} \X (1 .. n))
    BY <2>1, <2>4, FS_Product
  <2> QED BY <2>3, <2>5
<1>6. Places(h) = UNION rows
  BY DEF Places
<1>7. \A T \in rows : IsFiniteSet(T)
  BY <1>5
<1> HIDE DEF rows
<1> QED BY <1>4, <1>6, <1>7, FS_UNION

LEMMA TwoElements ==
  ASSUME NEW S, IsFiniteSet(S), NEW x \in S, NEW y \in S, x # y
  PROVE  Cardinality(S) >= 2
<1>1. IsFiniteSet({x}) /\ Cardinality({x}) = 1
  BY FS_Singleton
<1>2. Cardinality({x} \cup {y}) = 2
  BY <1>1, FS_AddElement
<1>3. {x} \cup {y} \in SUBSET S
  OBVIOUS
<1>4. Cardinality({x} \cup {y}) <= Cardinality(S)
  BY <1>3, FS_Subset
<1>5. Cardinality(S) \in Nat
  BY FS_CardinalityType
<1> QED BY <1>2, <1>4, <1>5

LEMMA SignatureOfCall ==
  ASSUME NEW h, NEW id \in DOMAIN CallSignatures(h)
  PROVE  \E at \in UsesOf(h, CallSignatures(h)[id]) : PartAt(h, at).id = id
<1> DEFINE use == CHOOSE at \in Uses(h) : PartAt(h, at).id = id
<1>1. id \in {PartAt(h, at).id : at \in Uses(h)}
  BY DEF CallSignatures
<1>2. use \in Uses(h) /\ PartAt(h, use).id = id
  BY <1>1
<1>3. CallSignatures(h)[id] = PartAt(h, use).sig
  BY <1>1 DEF CallSignatures
<1> QED BY <1>2, <1>3 DEF UsesOf

LEMMA StubIsReported ==
  ASSUME ReportInv, NEW at \in StubsSent
  PROVE  \E call \in repeated : call.sig = CallSignatures(history)[PartAt(history, at).id]
<1> DEFINE calls == CallSignatures(history)
           sig == calls[PartAt(history, at).id]
<1>1. HistoryInv /\ history \in Histories
  BY DEF ReportInv, HistoryInv
<1>2. at \in Written(history) /\ PartAt(sent, at).form = "stub"
  BY <1>1, WrittenSent DEF StubsSent, FormAt
<1>3. at \in Stubbed(history) /\ PartAt(sent, at).form # PartAt(history, at).form
  BY <1>1, <1>2, SentPart DEF Written
<1>4. repeated = RepeatedToolCalls(history)
  BY <1>3 DEF ReportInv
<1>5. PICK other \in AnswersOf(history) :
        /\ VisitedBefore(other, at)
        /\ DedupeKey(history, calls, other) = DedupeKey(history, calls, at)
  BY <1>3 DEF Stubbed, AnswersOf
<1>6. /\ at \in Results(history) /\ PartAt(history, at).id \in DOMAIN calls
      /\ other \in Results(history) /\ PartAt(history, other).id \in DOMAIN calls
  BY <1>3, <1>5 DEF Stubbed, AnswersOf, IsAnswer, Results
<1>7. PartAt(history, at).id # PartAt(history, other).id
  <2>1. at[1] \in Nat /\ at[2] \in Nat
    BY <1>1, <1>6, PartsOfHistory, MessagesOfHistory DEF Results
  <2>2. at # other
    BY <1>5, <2>1 DEF VisitedBefore
  <2> QED BY <1>6, <2>2 DEF ReportInv, UniqueIds
<1>8. calls[PartAt(history, other).id] = sig
  BY <1>5 DEF DedupeKey
<1>9. PICK u \in UsesOf(history, sig) : PartAt(history, u).id = PartAt(history, at).id
  BY <1>6, SignatureOfCall
<1>10. PICK v \in UsesOf(history, sig) : PartAt(history, v).id = PartAt(history, other).id
  BY <1>6, <1>8, SignatureOfCall
<1>11. u # v
  BY <1>7, <1>9, <1>10
<1>12. IsFiniteSet(UsesOf(history, sig))
  BY <1>1, FinitePlaces, FS_Subset DEF UsesOf, Uses
<1>13. Cardinality(UsesOf(history, sig)) >= 2
  BY <1>11, <1>12, TwoElements
<1>14. sig \in Signatures
  <2>1. PartAt(history, u) \in PartForms /\ PartAt(history, u).kind = "use"
        /\ PartAt(history, u).sig = sig
    BY <1>1, <1>9, PartsOfHistory DEF UsesOf, Uses
  <2> QED BY <2>1 DEF PartForms, Text, Use, Result
<1> HIDE DEF sig
<1>15. [sig |-> sig, occurrences |-> Cardinality(UsesOf(history, sig))] \in repeated
  BY <1>4, <1>13, <1>14 DEF RepeatedToolCalls
<1> QED BY <1>15 DEF sig

THEOREM ReportInductive == Spec => []ReportInv
BY InitReport, StepReport, PTL DEF Spec

LEMMA InvStubsAreReported == ReportInv => StubsAreReported
BY StubIsReported DEF StubsAreReported

\* Whatever dedupe_tool_results stubs, repeated_tool_calls has reported the call of:
\* the two passes of one request never disagree, for all calls and all histories.
THEOREM DedupedCallsAreReported == Spec => []StubsAreReported
BY ReportInductive, InvStubsAreReported, PTL

------------------------------------------------------------------------------
(* What a longer history changes in the messages it has in common.         *)

UsesInPlace(h, offset) ==
  \A at \in Uses(h) : PartAt(h, at).id = <<at[1] + offset, at[2]>>

AloneInMessage(h) == \A at \in Written(h) : Len(h[at[1]].parts) = 1

\* A call is numbered by its place, and a result of OpenAI is a message of its own.
PlaceInv ==
  /\ HistoryInv
  /\ UsesInPlace(history, 0)
  /\ api = "openai" => AloneInMessage(history)

LEMMA PlaceOfConcat ==
  ASSUME NEW h \in Histories, NEW m \in Histories,
         UsesInPlace(h, 0), UsesInPlace(m, Len(h))
  PROVE  /\ UsesInPlace(h \o m, 0)
         /\ AloneInMessage(h) /\ AloneInMessage(m) => AloneInMessage(h \o m)
<1> DEFINE g == h \o m
<1>1. /\ g \in Histories /\ Len(h) \in Nat /\ Len(m) \in Nat /\ Len(g) = Len(h) + Len(m)
      /\ \A i \in 1 .. Len(g) : g[i] = IF i <= Len(h) THEN h[i] ELSE m[i - Len(h)]
  BY DEF Histories
<1>2. ASSUME NEW at \in Places(g)
      PROVE  /\ at = <<at[1], at[2]>> /\ at[1] \in 1 .. Len(g) /\ at[2] \in Nat
             /\ \/ at \in Places(h) /\ PartAt(g, at) = PartAt(h, at)
                \/ /\ at[1] \in Len(h) + 1 .. Len(h) + Len(m)
                   /\ <<at[1] - Len(h), at[2]>> \in Places(m)
                   /\ PartAt(g, at) = PartAt(m, <<at[1] - Len(h), at[2]>>)
  BY <1>1, <1>2, PlacesOfConcat, PartsOfHistory, MessagesOfHistory
<1>3. \A at \in Places(h) : at[1] \in 1 .. Len(h) /\ at[2] \in Nat
  BY PartsOfHistory, MessagesOfHistory
<1> HIDE DEF g
<1>4. ASSUME NEW at \in Uses(g) PROVE PartAt(g, at).id = <<at[1] + 0, at[2]>>
  <2>1. at \in Places(g) /\ PartAt(g, at).kind = "use"
    BY DEF Uses
  <2>2. CASE at \in Places(h) /\ PartAt(g, at) = PartAt(h, at)
    BY <2>1, <2>2 DEF Uses, UsesInPlace
  <2>3. CASE /\ at[1] \in Len(h) + 1 .. Len(h) + Len(m)
             /\ <<at[1] - Len(h), at[2]>> \in Places(m)
             /\ PartAt(g, at) = PartAt(m, <<at[1] - Len(h), at[2]>>)
    <3>1. <<at[1] - Len(h), at[2]>> \in Uses(m)
      BY <2>1, <2>3 DEF Uses
    <3>2. PartAt(g, at).id = <<at[1] - Len(h) + Len(h), at[2]>>
      BY <2>3, <3>1 DEF UsesInPlace
    <3>3. at[1] - Len(h) + Len(h) = at[1] + 0
      BY <1>1, <2>3
    <3> QED BY <3>2, <3>3
  <2> QED BY <1>2, <2>1, <2>2, <2>3
<1>5. ASSUME AloneInMessage(h), AloneInMessage(m), NEW at \in Written(g)
      PROVE  Len(g[at[1]].parts) = 1
  <2>1. at \in Places(g) /\ PartAt(g, at).kind # "use"
    BY DEF Written
  <2>2. CASE at \in Places(h) /\ PartAt(g, at) = PartAt(h, at)
    <3>1. at \in Written(h) /\ g[at[1]] = h[at[1]]
      BY <1>1, <1>3, <2>1, <2>2 DEF Written
    <3> QED BY <1>5, <3>1 DEF AloneInMessage
  <2>3. CASE /\ at[1] \in Len(h) + 1 .. Len(h) + Len(m)
             /\ <<at[1] - Len(h), at[2]>> \in Places(m)
             /\ PartAt(g, at) = PartAt(m, <<at[1] - Len(h), at[2]>>)
    <3>1. <<at[1] - Len(h), at[2]>> \in Written(m) /\ g[at[1]] = m[at[1] - Len(h)]
      BY <1>1, <2>1, <2>3 DEF Written
    <3> QED BY <1>5, <3>1 DEF AloneInMessage
  <2> QED BY <1>2, <2>1, <2>2, <2>3
<1> QED BY <1>4, <1>5 DEF UsesInPlace, AloneInMessage, g

LEMMA PlaceOfAnswers ==
  ASSUME HistoryInv, NEW n \in 1 .. 2, NEW contents \in [1 .. n -> Contents]
  PROVE  /\ Uses(Answers(contents)) = {}
         /\ api = "openai" => AloneInMessage(Answers(contents))
<1> DEFINE a == Answers(contents)
           result(j) == Result(<<Len(history) + 1, j>>, contents[j])
<1>1. a \in Histories
  BY TypedAnswers
<1>2. \A j : result(j).kind = "result"
  BY DEF Result
<1>3. CASE api = "openai"
  <2> HIDE DEF result
  <2>1. a = [j \in 1 .. n |-> Message("tool", <<result(j)>>)]
    BY <1>3 DEF Answers, result
  <2> HIDE DEF a
  <2>2. ASSUME NEW at \in Places(a)
        PROVE  Len(a[at[1]].parts) = 1 /\ PartAt(a, at).kind = "result"
    <3>1. at[1] \in 1 .. n
      BY <1>1, <2>1, PartsOfHistory
    <3>2. a[at[1]].parts = <<result(at[1])>>
      BY <2>1, <3>1 DEF Message
    <3>3. at[2] \in DOMAIN a[at[1]].parts
      BY <1>1, PartsOfHistory
    <3>4. at[2] = 1
      BY <3>2, <3>3
    <3> QED BY <1>2, <3>2, <3>4 DEF PartAt
  <2> QED BY <2>2 DEF Uses, AloneInMessage, Written, a
<1>4. CASE api # "openai"
  <2> DEFINE parts == [j \in 1 .. n |-> result(j)]
  <2>1. a = <<Message("user", parts)>>
    BY <1>4 DEF Answers
  <2> HIDE DEF a, parts
  <2>2. ASSUME NEW at \in Places(a) PROVE PartAt(a, at).kind = "result"
    <3>1. at[1] \in DOMAIN a /\ at[2] \in DOMAIN a[at[1]].parts
      BY <1>1, PartsOfHistory
    <3>2. at[1] = 1
      BY <2>1, <3>1
    <3>3. a[at[1]].parts = parts
      BY <2>1, <3>2 DEF Message
    <3> HIDE DEF result
    <3>4. parts[at[2]] = result(at[2])
      BY <3>1, <3>3 DEF parts
    <3> QED BY <1>2, <3>3, <3>4 DEF PartAt
  <2> QED BY <1>4, <2>2 DEF Uses, a
<1> QED BY <1>3, <1>4

LEMMA InitPlace == Init => PlaceInv
<1> SUFFICES ASSUME Init PROVE Uses(history) = {} /\ AloneInMessage(history)
  BY InitHistory DEF PlaceInv, UsesInPlace
<1>1. CASE history = <<>>
  BY <1>1 DEF Uses, Written, AloneInMessage, Places
<1>2. CASE \E content \in Orphans : history = <<Orphan(content)>>
  <2>1. PICK content \in Orphans : history = <<Orphan(content)>>
    BY <1>2
  <2>2. history[1].parts = <<Result(<<0, 1>>, content)>> /\ DOMAIN history = 1 .. 1
    BY <2>1 DEF Orphan, Message
  <2>3. ASSUME NEW at \in Places(history)
        PROVE  Len(history[at[1]].parts) = 1 /\ PartAt(history, at).kind = "result"
    <3>1. at[1] \in DOMAIN history /\ at[2] \in DOMAIN history[at[1]].parts
      BY InitHistory, PartsOfHistory DEF HistoryInv
    <3>2. at[1] = 1
      BY <2>2, <3>1
    <3>3. at[2] = 1
      BY <2>2, <3>1, <3>2
    <3> QED BY <2>2, <3>2, <3>3 DEF PartAt, Result
  <2> QED BY <2>3 DEF Uses, Written, AloneInMessage
<1> QED BY <1>1, <1>2 DEF Init

\* A turn sends the history with messages whose calls are numbered by their places.
LEMMA TurnOrStutter ==
  ASSUME HistoryInv, [Next]_vars
  PROVE  \/ UNCHANGED vars
         \/ \E messages \in Histories :
              /\ Request(messages)
              /\ UsesInPlace(messages, Len(history))
              /\ api = "openai" => AloneInMessage(messages)
<1> DEFINE n == Len(history)
<1>1. n \in Nat /\ n + 1 \in Nat
  BY DEF HistoryInv, Histories
<1>2. CASE Ask
  <2>1. PICK content \in Contents : Request(<<Message("user", <<Text(content)>>)>>)
    BY <1>2 DEF Ask
  <2> DEFINE message == <<Message("user", <<Text(content)>>)>>
  <2>2. Message("user", <<Text(content)>>) \in MessageForms
    BY TypedPart DEF PartForms
  <2>3. message \in Histories /\ Len(message) = 1
    BY <2>2 DEF Histories
  <2>4. message[1].parts = <<Text(content)>>
    BY DEF Message
  <2>5. Uses(message) = {} /\ AloneInMessage(message)
    BY <2>3, <2>4, PartsOfHistory DEF Uses, AloneInMessage, Written, PartAt, Text
  <2> QED BY <2>1, <2>3, <2>5 DEF UsesInPlace
<1>3. CASE CallTools
  <2>1. PICK k \in 1 .. 2 :
          \E sigs \in [1 .. k -> Signatures], contents \in [1 .. k -> Contents] :
            Request(<<CallMessage(sigs)>> \o Answers(contents))
    BY <1>3 DEF CallTools
  <2>2. PICK sigs \in [1 .. k -> Signatures], contents \in [1 .. k -> Contents] :
          Request(<<CallMessage(sigs)>> \o Answers(contents))
    BY <2>1
  <2> DEFINE c == <<CallMessage(sigs)>>
             a == Answers(contents)
             m == c \o a
  <2>3. c \in Histories /\ a \in Histories
    BY TypedCalls, TypedAnswers
  <2>4. m \in Histories
    BY <2>3 DEF Histories
  <2>5. Uses(a) = {} /\ (api = "openai" => AloneInMessage(a))
    BY PlaceOfAnswers
  <2>6. Len(c) = 1 /\ c[1] = CallMessage(sigs)
    OBVIOUS
  <2>7. CallMessage(sigs).parts = [j \in DOMAIN sigs |-> Use(<<n + 1, j>>, sigs[j])]
    BY DEF CallMessage, Message
  <2> HIDE DEF c, a
  <2>8. ASSUME NEW at \in Places(c)
        PROVE  PartAt(c, at).kind = "use" /\ PartAt(c, at).id = <<n + 1, at[2]>> /\ at[1] = 1
    <3>1. at[1] \in 1 .. Len(c) /\ at[2] \in DOMAIN c[at[1]].parts
      BY <2>3, PartsOfHistory
    <3>2. at[1] = 1
      BY <2>6, <3>1
    <3>3. PartAt(c, at) = Use(<<n + 1, at[2]>>, sigs[at[2]])
      BY <2>6, <2>7, <3>1, <3>2 DEF PartAt
    <3> QED BY <3>2, <3>3 DEF Use
  <2>9. AloneInMessage(c)
    BY <2>8 DEF AloneInMessage, Written
  <2>10. ASSUME NEW at \in Places(m)
         PROVE  \/ at \in Places(c) /\ PartAt(m, at) = PartAt(c, at)
                \/ /\ <<at[1] - 1, at[2]>> \in Places(a)
                   /\ PartAt(m, at) = PartAt(a, <<at[1] - 1, at[2]>>)
                   /\ m[at[1]] = a[at[1] - 1]
    BY <2>3, <2>6, PlacesOfConcat
  <2> HIDE DEF m, n
  <2>11. UsesInPlace(m, n)
    <3> SUFFICES ASSUME NEW at \in Uses(m)
                 PROVE  PartAt(m, at).id = <<at[1] + n, at[2]>>
      BY DEF UsesInPlace
    <3>1. at \in Places(m) /\ PartAt(m, at).kind = "use"
      BY DEF Uses
    <3>2. at \in Places(c) /\ PartAt(m, at) = PartAt(c, at)
      BY <2>5, <2>10, <3>1 DEF Uses
    <3>3. PartAt(m, at).id = <<n + 1, at[2]>> /\ at[1] = 1
      BY <2>8, <3>2
    <3> QED BY <1>1, <3>3
  <2>12. AloneInMessage(a) => AloneInMessage(m)
    <3> SUFFICES ASSUME AloneInMessage(a), NEW at \in Written(m)
                 PROVE  Len(m[at[1]].parts) = 1
      BY DEF AloneInMessage
    <3>1. at \in Places(m) /\ PartAt(m, at).kind # "use"
      BY DEF Written
    <3> DEFINE x == <<at[1] - 1, at[2]>>
    <3>2. x \in Places(a) /\ PartAt(m, at) = PartAt(a, x) /\ m[at[1]] = a[x[1]]
      BY <2>8, <2>10, <3>1
    <3> HIDE DEF x
    <3>3. x \in Written(a)
      BY <3>1, <3>2 DEF Written
    <3> QED BY <3>2, <3>3 DEF AloneInMessage
  <2> QED BY <2>2, <2>4, <2>5, <2>11, <2>12 DEF m, c, a, n
<1> QED BY <1>2, <1>3 DEF Next, Full

LEMMA StepPlace == PlaceInv /\ [Next]_vars => PlaceInv'
<1> SUFFICES ASSUME PlaceInv, [Next]_vars PROVE PlaceInv'
  OBVIOUS
<1>1. HistoryInv /\ HistoryInv' /\ history \in Histories
  BY StepHistory DEF PlaceInv, HistoryInv
<1>2. CASE UNCHANGED vars
  BY <1>1, <1>2 DEF vars, PlaceInv
<1>3. ASSUME NEW messages \in Histories, Request(messages),
             UsesInPlace(messages, Len(history)),
             api = "openai" => AloneInMessage(messages)
      PROVE  PlaceInv'
  <2>1. history' = history \o messages /\ api' = api
    BY <1>3 DEF Request
  <2> QED BY <1>1, <1>3, <2>1, PlaceOfConcat DEF PlaceInv
<1> QED BY <1>1, <1>2, <1>3, TurnOrStutter

LEMMA InvLatestRepeatStays == PlaceInv => LatestRepeatStays
<1> SUFFICES ASSUME PlaceInv, NEW at \in StubsSent
             PROVE  \E other \in KeptTwins(at) :
                      /\ \A repeat \in Repeats(at) : repeat[1] <= other[1]
                      /\ api = "openai" => other[1] > at[1]
                      /\ FormAt(other) = "truncated" =>
                           /\ PartAt(sent, other).content.long
                           /\ other[1] <= Len(sent) - RecencyWindow
  BY DEF LatestRepeatStays
<1>1. HistoryInv /\ history \in Histories /\ Written(sent) = Written(history)
  BY WrittenSent DEF PlaceInv, HistoryInv
<1>2. PICK other \in KeptTwins(at) : \A repeat \in Repeats(at) : other[1] >= repeat[1]
  BY <1>1, StubHasTwin
<1>3. other \in Written(history) /\ at \in Written(history) /\ other # at
  BY <1>1 DEF KeptTwins, Repeats, StubsSent
<1>4. at \in Repeats(at)
  BY <1>1, RepeatsHaveTheKey
<1>5. ASSUME NEW place \in Written(history)
      PROVE  /\ place \in Places(history) /\ place = <<place[1], place[2]>>
             /\ place[1] \in Nat /\ place[1] \in 1 .. Len(history)
             /\ place[2] \in 1 .. Len(history[place[1]].parts)
  BY <1>1, PartsOfHistory, MessagesOfHistory DEF Written
<1>6. Repeats(at) \subseteq Written(history)
  BY <1>1 DEF Repeats
<1>7. \A repeat \in Repeats(at) : repeat[1] <= other[1]
  BY <1>2, <1>3, <1>5, <1>6
<1>8. ASSUME api = "openai" PROVE other[1] > at[1]
  <2>1. ASSUME NEW place \in Written(history) PROVE place[2] = 1
    <3>1. Len(history[place[1]].parts) = 1
      BY <1>8 DEF PlaceInv, AloneInMessage
    <3>2. place[2] \in 1 .. 1
      BY <1>5, <3>1
    <3> QED BY <3>2
  <2>2. other[1] # at[1]
    BY <1>3, <1>5, <2>1
  <2> QED BY <1>3, <1>4, <1>5, <1>7, <2>2
<1>9. ASSUME FormAt(other) = "truncated"
      PROVE  PartAt(sent, other).content.long /\ other[1] <= Len(sent) - RecencyWindow
  <2>1. Len(sent) = Len(history) /\ Len(history) \in Nat
    BY <1>1, SentShape DEF SameShape, Histories
  <2>2. /\ PartAt(sent, other) = [PartAt(history, other) EXCEPT !.form = "truncated"]
        /\ PartAt(history, other).content.long
        /\ ~(other[1] > Len(history) - RecencyWindow)
    BY <1>1, <1>3, <1>5, <1>9, SentPart DEF FormAt, Written
  <2>3. PartAt(sent, other).content = PartAt(history, other).content
    BY <2>2
  <2> QED BY <1>3, <1>5, <2>1, <2>2, <2>3, ParameterAssumption
<1> QED BY <1>7, <1>8, <1>9

LEMMA PlaceInductive == Spec => []PlaceInv
BY InitPlace, StepPlace, PTL DEF Spec

\* The walk from the newest message: a stub stands for the latest message with its
\* output, never for one the model has read before it; in the dialect of OpenAI for one
\* that comes later.  That output is cut only where compact_history may cut it.
THEOREM LatestRepeatsStay == Spec => []LatestRepeatStays
BY PlaceInductive, InvLatestRepeatStays, PTL

\* What the stub says (dedupe_tool_results.go) holds in the dialect of OpenAI: the
\* output appears later in this conversation.
THEOREM StubsTellTheTruth ==
  ASSUME Apis \subseteq {"openai"}
  PROVE  Spec => []StubTellsTheTruth
<1>1. PlaceInv => StubTellsTheTruth
  <2> SUFFICES ASSUME PlaceInv PROVE StubTellsTheTruth
    OBVIOUS
  <2>1. LatestRepeatStays /\ api = "openai"
    BY InvLatestRepeatStays DEF PlaceInv, HistoryInv
  <2> QED BY <2>1 DEF LatestRepeatStays, StubTellsTheTruth
<1> QED BY <1>1, PlaceInductive, PTL

\* And so does the comment that the latest occurrence is kept in full, in both dialects,
\* where no output is over the threshold of truncation.
THEOREM ShortOutputsStayWhole ==
  ASSUME \A content \in Contents : ~content.long
  PROVE  Spec => []LatestKeptInFull
<1>1. PlaceInv => LatestKeptInFull
  <2> SUFFICES ASSUME PlaceInv, NEW at \in StubsSent
               PROVE  \E other \in KeptTwins(at) : FormAt(other) \in {"original", "cleaned"}
    BY DEF LatestKeptInFull
  <2>1. HistoryInv
    BY DEF PlaceInv
  <2>2. PICK other \in KeptTwins(at) :
          FormAt(other) = "truncated" => PartAt(sent, other).content.long
    BY InvLatestRepeatStays DEF LatestRepeatStays
  <2>3. other \in Written(history) /\ other \in Written(sent) /\ FormAt(other) # "stub"
    BY <2>1, WrittenSent DEF KeptTwins, Repeats, StubsSent
  <2>4. /\ FormAt(other) \in {"original", "cleaned", "truncated", "stub"}
        /\ PartAt(history, other) \in PartForms /\ PartAt(history, other).kind # "use"
        /\ PartAt(sent, other) = [PartAt(history, other) EXCEPT !.form = FormAt(other)]
    BY <2>1, <2>3, SentPart DEF FormAt, Written
  <2>5. PartAt(history, other).content \in Contents
    BY <2>4 DEF PartForms, Use, Text, Result
  <2>6. ~PartAt(sent, other).content.long
    BY <2>4, <2>5
  <2> QED BY <2>2, <2>3, <2>4, <2>6
<1> QED BY <1>1, PlaceInductive, PTL

\* A longer history has the same calls in the places it has in common with a shorter,
\* so that what is stubbed stays stubbed.
LEMMA StubsStay ==
  ASSUME NEW h \in Histories, NEW m \in Histories,
         UsesInPlace(h, 0), UsesInPlace(h \o m, 0)
  PROVE  /\ Places(h) \subseteq Places(h \o m)
         /\ \A at \in Places(h) : PartAt(h \o m, at) = PartAt(h, at)
         /\ Stubbed(h) \subseteq Stubbed(h \o m)
<1> DEFINE g == h \o m
           calls(x) == CallSignatures(x)
<1>1. /\ Len(h) \in Nat /\ Len(m) \in Nat /\ Len(g) = Len(h) + Len(m) /\ g \in Histories
      /\ \A i \in 1 .. Len(h) : g[i] = h[i]
  BY DEF Histories
<1> HIDE DEF g
<1>2. ASSUME NEW at \in Places(h)
      PROVE  at \in Places(g) /\ PartAt(g, at) = PartAt(h, at)
  <2>1. /\ at = <<at[1], at[2]>> /\ at[1] \in 1 .. Len(h)
        /\ at[2] \in 1 .. Len(h[at[1]].parts)
    BY PartsOfHistory
  <2>2. at[1] \in 1 .. Len(g) /\ g[at[1]] = h[at[1]]
    BY <1>1, <2>1
  <2> QED BY <2>1, <2>2 DEF Places, PartAt
<1>3. Uses(h) \subseteq Uses(g)
  BY <1>2 DEF Uses
<1>4. ASSUME NEW x \in Histories, UsesInPlace(x, 0)
      PROVE  /\ DOMAIN calls(x) = Uses(x)
             /\ \A at \in Uses(x) : calls(x)[at] = PartAt(x, at).sig
  <2>1. ASSUME NEW at \in Uses(x) PROVE PartAt(x, at).id = at
    <3>1. at = <<at[1], at[2]>> /\ at[1] \in 1 .. Len(x) /\ Len(x) \in Nat
      BY PartsOfHistory, MessagesOfHistory DEF Uses
    <3>2. PartAt(x, at).id = <<at[1] + 0, at[2]>> /\ at[1] + 0 = at[1]
      BY <1>4, <3>1 DEF UsesInPlace
    <3> QED BY <3>1, <3>2
  <2>2. {PartAt(x, at).id : at \in Uses(x)} = Uses(x)
    BY <2>1
  <2>3. ASSUME NEW id \in Uses(x)
        PROVE  (CHOOSE at \in Uses(x) : PartAt(x, at).id = id) = id
    BY <2>1
  <2> QED BY <2>2, <2>3 DEF CallSignatures
<1>5. \A at \in Uses(h) : at \in DOMAIN calls(g) /\ calls(g)[at] = calls(h)[at]
  BY <1>1, <1>2, <1>3, <1>4 DEF Uses, g
<1>6. ASSUME NEW at \in AnswersOf(h)
      PROVE  /\ at \in AnswersOf(g)
             /\ DedupeKey(g, calls(g), at) = DedupeKey(h, calls(h), at)
  <2>1. at \in Places(h) /\ IsAnswer(h, calls(h), at)
    BY DEF AnswersOf
  <2>2. PartAt(h, at).id \in Uses(h)
    BY <1>4, <2>1 DEF IsAnswer
  <2> QED BY <1>2, <1>5, <2>1, <2>2 DEF AnswersOf, IsAnswer, DedupeKey
<1>7. ASSUME NEW at \in Stubbed(h) PROVE at \in Stubbed(g)
  <2>1. PICK other \in AnswersOf(h) :
          /\ VisitedBefore(other, at)
          /\ DedupeKey(h, calls(h), other) = DedupeKey(h, calls(h), at)
    BY DEF Stubbed, AnswersOf
  <2>2. at \in AnswersOf(h)
    BY DEF Stubbed, AnswersOf
  <2>3. /\ other \in AnswersOf(g) /\ at \in AnswersOf(g)
        /\ DedupeKey(g, calls(g), other) = DedupeKey(g, calls(g), at)
    BY <1>6, <2>1, <2>2
  <2> QED BY <2>1, <2>3 DEF Stubbed, AnswersOf
<1> QED BY <1>2, <1>7 DEF g

\* What Apply makes of a message that is old enough to be compacted.
LEMMA CompactedMessage ==
  ASSUME NEW h \in Histories, NEW i \in 1 .. Len(h), i <= Len(h) - RecencyWindow
  PROVE  Apply(h)[i] = CompactMessage(DedupeToolResults(h)[i])
<1> DEFINE g == DedupeToolResults(h)
<1>1. Len(g) = Len(h) /\ DOMAIN g = 1 .. Len(h) /\ Len(h) \in Nat /\ RecencyWindow \in Nat
  BY DedupeShape, MessagesOfHistory, ParameterAssumption DEF SameShape
<1>2. ~(Len(g) <= RecencyWindow)
  BY <1>1
<1> HIDE DEF g
<1>3. CompactHistory(g)[i] = CompactMessage(g[i])
  BY <1>1, <1>2 DEF CompactHistory
<1> QED BY <1>3 DEF Apply, g

\* A message in which nothing more is stubbed comes out of deduplication as before.
LEMMA SameStubs ==
  ASSUME NEW h \in Histories, NEW g \in Histories, NEW i \in 1 .. Len(h),
         i \in 1 .. Len(g), g[i] = h[i],
         \A j \in 1 .. Len(h[i].parts) : <<i, j>> \in Stubbed(g) <=> <<i, j>> \in Stubbed(h)
  PROVE  DedupeToolResults(g)[i] = DedupeToolResults(h)[i]
<1> DEFINE parts(stubs) ==
             [j \in 1 .. Len(h[i].parts) |->
                IF <<i, j>> \in stubs THEN [h[i].parts[j] EXCEPT !.form = "stub"]
                                      ELSE h[i].parts[j]]
<1>1. /\ DOMAIN h = 1 .. Len(h) /\ DOMAIN g = 1 .. Len(g)
      /\ DOMAIN h[i].parts = 1 .. Len(h[i].parts)
  BY MessagesOfHistory
<1>2. DedupeToolResults(h)[i] = [h[i] EXCEPT !.parts = parts(Stubbed(h))]
  BY <1>1 DEF DedupeToolResults
<1>3. DedupeToolResults(g)[i] = [h[i] EXCEPT !.parts = parts(Stubbed(g))]
  BY <1>1 DEF DedupeToolResults
<1>4. parts(Stubbed(g)) = parts(Stubbed(h))
  OBVIOUS
<1> HIDE DEF parts
<1> QED BY <1>2, <1>3, <1>4

\* Another part of the same message becomes a stub.
NewStubBeside(at) ==
  \E other \in Written(sent) :
    /\ other[1] = at[1]
    /\ PartAt(sent, other).form # "stub"
    /\ PartAt(sent', other).form = "stub"

\* What RewriteNeverUndone says of one part.
StaysRewritten(at) ==
  LET now == PartAt(sent, at).form
      then == PartAt(sent', at).form
  IN  /\ now = "stub" => then = "stub"
      /\ Fullness(then) > Fullness(now) => api = "anthropic" /\ NewStubBeside(at)

LEMMA TurnUndoesNothing ==
  ASSUME PlaceInv, PlaceInv', NEW m \in Histories, Request(m), NEW at \in Written(sent)
  PROVE  StaysRewritten(at)
<1> DEFINE h == history
           g == h \o m
           i == at[1]
           now == PartAt(sent, at).form
           then == PartAt(sent', at).form
<1>1. /\ HistoryInv /\ HistoryInv' /\ h \in Histories /\ g \in Histories
      /\ history' = g /\ sent' = Apply(g)
  BY DEF PlaceInv, HistoryInv, Request
<1>2. /\ Places(h) \subseteq Places(g)
      /\ \A x \in Places(h) : PartAt(g, x) = PartAt(h, x)
      /\ Stubbed(h) \subseteq Stubbed(g)
  BY <1>1, StubsStay DEF PlaceInv
<1>3. at \in Places(h) /\ PartAt(h, at).kind # "use" /\ PartAt(g, at) = PartAt(h, at)
  BY <1>1, <1>2, WrittenSent DEF Written
<1>4. at \in Places(g) /\ PartAt(g, at) \in PartForms
  BY <1>1, <1>2, <1>3, PartsOfHistory
<1>5. /\ now \in {"original", "cleaned", "truncated", "stub"}
      /\ now = "stub" => at \in Stubbed(h)
      /\ PartAt(h, at).form = "original"
  BY <1>1, <1>3, SentPart
<1>6. ASSUME NEW x \in Places(h), PartAt(h, x).kind # "use", x \in Stubbed(g)
      PROVE  PartAt(sent', x).form = "stub"
  <2> DEFINE p == PartAt(g, x)
             q == PartAt(DedupeToolResults(g), x)
             r == PartAt(Apply(g), x)
  <2>1. x \in Places(g) /\ p \in PartForms /\ p.kind # "use"
    BY <1>1, <1>2, <1>6, PartsOfHistory
  <2>2. q = [p EXCEPT !.form = "stub"]
    BY <1>1, <1>6, <2>1, DedupeShape
  <2>3. r \in {q, CompactPart(q)}
    BY <1>1, <2>1, ApplyShape
  <2>4. r = PartAt(sent', x)
    BY <1>1
  <2> HIDE DEF p, q, r
  <2>5. q.form = "stub"
    BY <2>1, <2>2 DEF PartForms, Text, Use, Result
  <2>6. CompactPart(q) = q
    BY <2>5 DEF CompactPart
  <2> QED BY <2>3, <2>4, <2>5, <2>6
<1>7. then \in {"original", "cleaned", "truncated", "stub"}
  <2>1. PartAt(Apply(g), at).form \in {"original", "cleaned", "truncated", "stub"}
    <3> DEFINE p == PartAt(g, at)
               q == PartAt(DedupeToolResults(g), at)
               r == PartAt(Apply(g), at)
    <3>1. Deduped(p, q)
      BY <1>1, <1>4, DedupeShape DEF Deduped
    <3>2. r \in {q, CompactPart(q)} /\ p \in PartForms /\ p.kind # "use"
      BY <1>1, <1>3, <1>4, ApplyShape
    <3> HIDE DEF p, q, r
    <3>3. Outcome(p, q, r)
      BY <3>1, <3>2, PartOutcome
    <3>4. r.form \in {"original", "cleaned", "truncated", "stub"}
      BY <3>2, <3>3 DEF Outcome
    <3> QED BY <3>4 DEF r
  <2> QED BY <1>1, <2>1
<1>8. ASSUME now \in {"cleaned", "truncated"}, at \notin Stubbed(g)
      PROVE  then = now \/ (api = "anthropic" /\ NewStubBeside(at))
  <2>1. sent = Apply(h) /\ at \notin Stubbed(h)
    BY <1>1, <1>2, <1>5, <1>8 DEF HistoryInv
  <2>2. /\ i \in 1 .. Len(h) /\ Len(h) \in Nat /\ RecencyWindow \in Nat
        /\ at = <<i, at[2]>> /\ at[2] \in 1 .. Len(h[i].parts)
    BY <1>1, <1>3, PartsOfHistory, MessagesOfHistory, ParameterAssumption
  <2>3. i <= Len(h) - RecencyWindow
    <3>1. ~(i > Len(h) - RecencyWindow)
      BY <1>1, <1>3, <1>8, SentPart
    <3> QED BY <2>2, <3>1
  <2>4. /\ Len(g) = Len(h) + Len(m) /\ Len(m) \in Nat /\ g[i] = h[i]
    BY <1>1, <2>2 DEF Histories
  <2>5. i \in 1 .. Len(g) /\ i <= Len(g) - RecencyWindow
    BY <2>2, <2>3, <2>4
  <2>6. CASE \A j \in 1 .. Len(h[i].parts) :
               <<i, j>> \in Stubbed(g) <=> <<i, j>> \in Stubbed(h)
    <3>1. DedupeToolResults(g)[i] = DedupeToolResults(h)[i]
      BY <1>1, <2>2, <2>4, <2>5, <2>6, SameStubs
    <3>2. /\ Apply(h)[i] = CompactMessage(DedupeToolResults(h)[i])
          /\ Apply(g)[i] = CompactMessage(DedupeToolResults(g)[i])
      BY <1>1, <2>2, <2>3, <2>5, CompactedMessage
    <3> QED BY <1>1, <2>1, <3>1, <3>2 DEF PartAt
  <2>7. CASE ~ \A j \in 1 .. Len(h[i].parts) :
               <<i, j>> \in Stubbed(g) <=> <<i, j>> \in Stubbed(h)
    <3>1. PICK j \in 1 .. Len(h[i].parts) :
            <<i, j>> \in Stubbed(g) /\ <<i, j>> \notin Stubbed(h)
      BY <1>2, <2>7
    <3> DEFINE other == <<i, j>>
    <3>2. other \in Places(h) /\ other # at
      BY <1>8, <2>2, <3>1 DEF Places
    <3>3. PartAt(h, other).kind # "use"
      <4>1. IsAnswer(g, CallSignatures(g), other)
        BY <3>1 DEF Stubbed
      <4>2. PartAt(g, other) = PartAt(h, other)
        BY <1>2, <3>2
      <4> QED BY <4>1, <4>2 DEF IsAnswer
    <3>4. other \in Written(sent) /\ PartAt(sent, other).form # "stub"
      BY <1>1, <3>1, <3>2, <3>3, SentPart, WrittenSent DEF Written
    <3>5. PartAt(sent', other).form = "stub"
      BY <1>6, <3>1, <3>2, <3>3
    <3>6. NewStubBeside(at)
      BY <3>4, <3>5 DEF NewStubBeside
    <3>7. api # "openai"
      <4>1. api = "openai" => Len(h[i].parts) = 1
        BY <1>1, <1>3 DEF PlaceInv, AloneInMessage, Written
      <4>2. Len(h[i].parts) = 1 => j = at[2]
        BY <2>2
      <4> QED BY <2>2, <3>2, <4>1, <4>2
    <3>8. api \in {"openai", "anthropic"}
      BY <1>1, ParameterAssumption DEF HistoryInv
    <3> QED BY <3>6, <3>7, <3>8
  <2> QED BY <2>6, <2>7
<1>9. at \in Stubbed(g) => then = "stub"
  BY <1>3, <1>6
<1> HIDE DEF now, then, g, h
<1>10. now = "stub" => then = "stub"
  BY <1>2, <1>5, <1>9
<1>11. Fullness(then) > Fullness(now) => api = "anthropic" /\ NewStubBeside(at)
  <2>1. CASE now \in {"original", "stub"}
    BY <1>5, <1>7, <1>10, <2>1 DEF Fullness
  <2>2. CASE now \in {"cleaned", "truncated"}
    <3>1. then = now \/ then = "stub" \/ (api = "anthropic" /\ NewStubBeside(at))
      BY <1>8, <1>9, <2>2
    <3>2. then \in {now, "stub"} => ~(Fullness(then) > Fullness(now))
      BY <2>2 DEF Fullness
    <3> QED BY <3>1, <3>2
  <2> QED BY <1>5, <2>1, <2>2
<1> QED BY <1>10, <1>11 DEF StaysRewritten, now, then

LEMMA StepUndoesNothing ==
  PlaceInv /\ [Next]_vars => [\A at \in Written(sent) : StaysRewritten(at)]_vars
<1> SUFFICES ASSUME PlaceInv, [Next]_vars, ~UNCHANGED vars
             PROVE  \A at \in Written(sent) : StaysRewritten(at)
  OBVIOUS
<1>1. PlaceInv' /\ HistoryInv
  BY StepPlace DEF PlaceInv
<1>2. PICK m \in Histories : Request(m)
  BY <1>1, TurnOrStutter
<1> QED BY <1>1, <1>2, TurnUndoesNothing

\* The prefix a provider has cached changes in one direction only, for every
\* conversation, although each turn rewrites the whole history afresh: a stub stays a
\* stub, and a part comes back to a fuller form only in the dialect of Anthropic, when
\* another block of its message becomes a stub.
THEOREM RewritesStay == Spec => RewriteNeverUndone
<1>1. Spec => []PlaceInv
  BY PlaceInductive
<1>2. [\A at \in Written(sent) : StaysRewritten(at)]_vars =>
        [\A at \in Written(sent) :
           LET now == PartAt(sent, at).form
               then == PartAt(sent', at).form
           IN  /\ now = "stub" => then = "stub"
               /\ Fullness(then) > Fullness(now) =>
                    /\ api = "anthropic"
                    /\ \E other \in Written(sent) :
                         /\ other[1] = at[1]
                         /\ PartAt(sent, other).form # "stub"
                         /\ PartAt(sent', other).form = "stub"]_vars
  BY DEF StaysRewritten, NewStubBeside
<1> QED BY <1>1, <1>2, StepUndoesNothing, PTL DEF Spec, RewriteNeverUndone

==============================================================================
