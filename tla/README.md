# TLA+ models of thin

thin is a local proxy between a coding agent and a model provider. It rewrites
chat requests so that they cost fewer tokens, forwards them, and records what
the answer said about the provider's prompt cache. This directory holds its
specification: TLA+ modules, the TLC configurations that check them on small
instances, and proofs that TLAPS checks for all values of the constants.

    tlc -workers 2 -config ProxyShared.cfg ProxyMC.tla
    tlapm Proxy_proofs.tla

## The system

| part | state | operations | hard part |
|---|---|---|---|
| session store (`internal/session`) | per session: turns, tools called, fingerprints, last cache hit | one mutex per method | requests of one session are handled concurrently; nothing holds the mutex from one method to the next |
| session identity (`IDFor`) | none | header, or hash of model, system prompt and first user message | conversations that begin alike share a session |
| handlers (`cmd/thin`) | one goroutine per request | read, parse, rewrite, forward, record the hit, insert a row | errors, aborts, clients that do not wait, restarts |
| `prune_tools`, `shape_cache` | the session | drop tools without evidence of use; compare fingerprints | the session is read in several lock regions |
| `repeated_tool_calls`, `dedupe_tool_results`, `compact_history` | none | report, stub and shorten messages, afresh on every turn | the passes compose; two dialects walk in different orders |
| `captureWriter`, `internal/usage` | the last 8192 bytes of a response | slide a window; find the count of cached tokens | chunk boundaries, keys and numbers cut in two |
| `internal/tokens` | a vocabulary loaded once | count | concurrent first use, a load that hangs or fails |
| `internal/metrics` | a SQLite table and two indexes | open, migrate, insert | a schema of an older version, two processes, one connection, kills in between |
| `internal/license` | a file | activate, load, remove | a write that is cut short or overlaps another |
| JSON types (`types.go`, twice) | none | unmarshal and marshal with unknown fields kept | fields that get lost at one of five levels |
| `cmd/replay` | sessions and turns per session | read a recording line by line | sessions that are not those of the proxy |
| test data, scripts | none | | not concurrent |

What makes them correct, in a sentence each: a tool is never dropped against
evidence that it is used; the gate in front of pruning opens after the number of
observed requests the constant names; a cache hit spares the next turn; rewriting
keeps the latest copy of an output and is stable over the turns; the window over a response is its
end, however the network cuts it; a request always reaches the upstream with all its
fields; a process that serves has the schema it inserts into; the counts of a row are
comparable; and the license file is as the last command left it.

## Modules

### Session
The record of one session and each method of `Session` as an operator on it. A
method holds the mutex for its whole body, so it is one atomic read or write.
`toolsUsed` is a set (its only reader compares the count with zero) and
`lastFingerprints` is its first element (`ShapeForCache` only tells whether the
first ones agree). A session the store has not created yet equals a fresh one.

### Proxy
The two handlers over the shared store. A request is `<<client, attempt>>`, and
`pc` says where its handler is:

    idle -> received -> read -> observed -> gate -> scan -> shape -> shaping
                                          -> upstream -> answered -> recorded -> done

with `raw` for a body that does not parse and `lost` for a handler that died.

| action | code |
|---|---|
| `Refuse`, `ReadBody` | a method, body or size that is refused; `io.ReadAll` is through with the body |
| `PassThrough` | a body that does not parse is forwarded as it came |
| `Observe` | `Store.Get` and `ObserveToolCalls` at the head of `Apply` |
| `CheckTurns`, `CheckCacheHit`, `ScanTool` | the three places where `PruneToolsWithReport` takes the lock; `ScanTool` is one round of its loop |
| `ReadFingerprints`, `RecordFingerprints` | the two lock regions of `ShapeForCache` |
| `Reply`, `UpstreamError`, `UpstreamAbort`, `RawReply` | environment: `ServeHTTP` returns with an answer, with an error, or panics with `ErrAbortHandler` |
| `RecordHit` | `ExtractCacheHit` on the tail and `RecordCacheHit` |
| `Finish` | token counts, `Store.Insert`, audit logs |
| `Send` | environment: the client's next turn, with the calls it has seen in its history, or none after it has compacted them |
| `Restart` | the process ends: sessions and handlers are gone, rows stay |

The loop of `ScanTool` takes the tools in any order, which includes the order of
the array. The upstream calls a tool only if it was offered it, and can hit its
cache only when an earlier answered request of the session had the same tools
array. `observed` and `evidence` are history variables: which requests have been
observed since the start, and which tools had been called, for all the session
knew, when each request was observed.

`EagerClients` may send again before their last request is over. That stands for
a client that gives up and retries, and for one that acts on a streamed answer
before the handler has returned (`FlushInterval` is -1).

### History
The passes that touch only messages, for a conversation that grows. A message is a
role and parts; a part is a text, a call or a result with a content and a form
(original, cleaned, truncated, stub). A content is a class: whether it is a plain
string, whether cleanup changes it, whether it is over the truncation threshold,
and its encoded sizes. So the regular expressions and the cut itself are not
modelled, and everything that decides what happens to a message is. The two
dialects differ in where results stand and in the walk inside a message. The walk is
stated by what it leaves (`Stubbed`): a result is stubbed when one of its key is visited
before it. A call is numbered by its place, since providers give no identifier twice.

### CaptureTail
`captureWriter` and `ExtractCacheHit` over real byte sequences. `Write` takes any
chunk; `body` is the whole response, for comparison. The keys are short sequences
of which neither occurs in the other, as in the code.

### PruneContract, ProxyContract
`PruneContract` is what pruning promises, without locks, scans or fingerprints: a
session has a ledger (tools called, observations, hit), and each request is observed in
one step, passes the gate in one step and has its tools chosen in one step. The choice
is bounded from both sides: what was known when the request was observed stays, and
what is unknown when the choice is made goes. `ProxyContract` gives the refinement
mapping from `Proxy`, with the three lock regions of `PruneToolsWithReport` as gate and
choice, and states it as `KeepsContract`.

### MetricsDb, TokenCounter, LicenseFile, Process
Three modules of operators, each the state and the operations of one package: the
statements that `Open`, `migrate` and `Insert` run, `sync.Once` with its two outcomes,
and a file that is truncated and then written in place. `Process` composes them to the
life of the processes on one machine, which share database and license file:

    down -> pragma -> schema -> session -> ts -> columns -> alter -> listen -> serving
    down -> truncate -> write -> down         down -> remove -> down

(`alter` only for an older table). A process that ends on an error of its own is `failed`,
one that is killed `down`; either can be started again. Several can serve at once, since
`-listen` gives each its own port.

| action | code |
|---|---|
| `OpenPragma`, `OpenSchema`, `OpenIndex` | the pragma and the three statements of the schema |
| `QueryColumns`, `CloseRows`, `AddColumn` | `migrate`: the rows hold the only connection until `Next` has returned false |
| `OpenFails`, `Listen`, `ListenFails` | `Fatalf` on a locked database, a duplicate column, or a port that is taken; the port is asked for after the database is open |
| `Answered` | environment: a request has come and been answered |
| `BeginLoad`, `Load`, `CountIn`, `CountAfterAndInsert` | the end of a handler: both counts and the row |
| `ActivateOpens`, `ActivateWrites`, `RemoveFile` | `thin license activate` and `thin license remove` |
| `Start`, `Kill` | environment: who runs what, and a process that ends anywhere |

A count is known by its method, exact or estimate. A write that meets other bytes than
those it has truncated leaves a mixture of the two. `disturbed` and `left` are history
variables: whether a license command was cut short or not alone, and what the last one
left.

### Codec, Wire
`Codec` has the struct types of both dialects as values (fields, `omitempty`, raw
messages, `Extra`) and one operator for what a struct keeps of an object and writes of
it; nested types compose it. An object is a function from field names to values.
`Wire` sends conversations through it: `IDForRequest` on the request as marshalled (the
hash is taken to be injective), the tool names each dialect observes, and the session
store. A request is one step here, since the interleaving is the subject of `Proxy`.
`ReplayLine` is one round of `cmd/replay` over a recording of the same requests.

### SessionContract, WireContract
`SessionContract` is what a conversation is promised of its session, without JSON, ids or
texts: a key from its first request on, which it keeps, and a ledger under that key that
takes each of its requests once, with all that has been called in its history, and the
answer's hit. `WireContract` gives the refinement mapping from `Wire`: the key is the id
under which the first request of the conversation was counted, what has been called is
read off the last request as it went upstream, and the ledgers are the sessions of the
store. It states the refinement as `KeepsLedgers`.

### ProxyMC, ProcessMC, WireMC, HistoryMC, CaptureTailMC
Constants for TLC. Operators whose comment begins with "Variant" are altered forms of
the definition that follows them; a property that does not tell the two apart says
nothing. They are used in no specification.

## Checks

| run | instance | shows |
|---|---|---|
| ProxyShared | 2 clients, one per endpoint, one session, 2 requests each, gate at 3, one client may name a tool in `tool_choice` | every interleaving of the lock regions; pruning happens, since four observations pass the gate; `KeepsContract` |
| ProxyPatient | 1 client, 4 requests, 1 restart, one protected tool | sequences of turns: prune, hit, spare the next turn; the flag after hits, misses, errors and aborts; empty sessions after a restart |
| ProxyLive | 1 eager client, 2 requests, all bodies, failing inserts, 1 restart, gate at 1 | no handler waits for another one's client or upstream; `KeepsContract` across a restart |
| ProcessLife | 2 processes that serve or change the license, one of them started twice, 2 handlers each, 3 databases to begin with, keys of two sizes | a server has the current schema, rows and the license file stay, counts are of one method, handlers finish, a lone server that nobody kills gets to serve and does not fail |
| Wire | 2 conversations out of 7 openings in both dialects, 3 requests, fields of every level that the types do not know, any messages touched by the passes | fields survive, each conversation has its own session, replay counts as the proxy does; every request is a step of `SessionContract`, with a header and without (`KeepsLedgers`) |
| HistoryTurns | both dialects, conversations of 5 messages, window 1, up to two calls at once, 4 contents | rewriting is safe and stable |
| CaptureTail | bodies of up to 7 bytes over 5 symbols, window 6 | the window and the count |

Why these bounds are enough: the gate is three, so four observations are needed
for one request that prunes while another observes; a hit, the spared turn and a
turn of a fresh session fit in four requests. Two tools separate the one with
evidence from the one without. A window of one in conversations of five messages
leaves four messages outside it, so that results are compacted and a block can come back
when another of its message becomes a stub; two parallel calls give two results of one
message. A window of six bytes holds both keys with a digit each;
a body of seven lets a key start outside it and end inside. Two processes are what it takes to overlap
two openings, two writes, or an opening with a serving process, and a second start of
one of them meets what its first has left. The databases found are none, one of an
older version with rows and without its indexes, and one of this version that was cut short.
Two handlers are one that loads the vocabulary and one that waits for it. Three
requests are a conversation of two turns beside another one, or one of three turns.
Bounds are `MaxAttempts`, `MaxRestarts`, `MaxStarts`, `MaxMessages`, `MaxBody`,
`MaxRequests`, at most one call per answer in Proxy and two per message in History. In
Wire every answer is a hit (`Hits`), since hits play no part there. Signatures are symmetric in HistoryTurns. `DryRun` and
`EnablePruneTools` have one value in the runs; the proofs are for both.

Five more runs each check one statement of a comment or a document that the code
does not keep:

| run | statement | what happens |
|---|---|---|
| ProxyHitRace | the hit is recorded "so the next turn's prune_tools can decide" (`main.go:310`) | the answer has been streamed before it is recorded; the next turn can be pruned after a hit |
| ProxyCachedPrefix | pruning is skipped "to preserve the cached prefix" (`USAGE.md:254`) | after a hit on a pruned request, skipping sends the full array and changes the prefix |
| WireFields | unknown fields are preserved "so we don't lose anything the upstream cares about" (`pipeline/types.go:6`) | the function of a tool call in the history loses them |
| HistoryBlocks | the output "appears later in this conversation" (`anthropic/dedupe_tool_results.go:69`) | among blocks of one message the earlier is kept |
| HistoryLatest | the latest occurrence "gets kept in full" (`pipeline/dedupe_tool_results.go:24`) | `compact_history` truncates it when it leaves the window |

Seen in the code while modelling, without a run of their own:

- Pruning: retries of an unanswered first turn count as turns, so the third try is
  pruned although `prune_tools.go:23` says "Don't prune on turn 1". A response that breaks
  off leaves the handler by a panic (`main.go:304`), so the flag of the answer before
  stands at the next gate, although missing usage is no hit "rather than carrying a stale
  previous hit forever" (`main.go:312`). `tool_choice: "required"` can go out with no tools
  at all (`prune_tools.go:54` keeps only a tool that is named).
- Usage: `ExtractCacheHit` reads OpenAI's count also when Anthropic's stands later, against
  "the LAST occurrence of either recognized key" (`usage.go:35`); `LateCountIsSeen`
  therefore asks for one of the two counts and does not say which. A `message_start` usage
  block that more than 8192 bytes follow is recorded as a miss.
- Handlers: the server limits the time of the header only (`main.go:120-124`), so a client
  that holds back its body keeps its handler in `io.ReadAll`, and a request can hang in the
  upstream call for ever. Neither holds up another request (`HandlerNeverStalls`).
- Sessions: the hash has no tool set (`session.go:5` says it has); a prompt in the
  developer role is not hashed; a client that changes its first user message, for
  instance by moving `cache_control`, changes its session; sessions are never removed.
- History: a cleaned Anthropic message can come back to its original form when a result
  in it becomes a stub and the rewriting no longer makes the message smaller, which is
  why `RewriteNeverUndone` asks less of that dialect; a stub may be longer than the
  output it replaces.
- JSON: a tool or a call without a function gets `"function":{"name":""}`; an empty
  value of an `omitempty` field is dropped.
- Replay: it reads recorded Anthropic bodies as chat requests and sees none of their tool
  calls, so `ReplayAgrees` claims equal tools for chat requests only.
- Accounting: a chunked response ends only when the handler returns, so the latency of
  counting does reach the client, whatever `main.go:321` says; a load of the vocabulary
  that hangs blocks every handler of the process.
- Database: of two processes that open an old database at once, the second to add the
  column fails and ends; a server that finds its port taken has by then opened, and
  perhaps upgraded, the database of the running one.
- License: an activation that overlaps another, or is killed, can leave a file that does
  not parse although one of them has reported success.

### Fairness
`FairSpec` has weak fairness for the steps of each handler from the end of the body to
the upstream call (`Rewrite`), and for `RecordHit`. The Go runtime schedules every
goroutine, and these steps wait for a mutex that is held for one short method at most.
Nothing is assumed of the clients, who may never end a body (`Arrive`), of the upstream
(there is no timeout on it), or of `Finish`: it can wait for the one-time load of the
tokenizer and for the database. `HandlerNeverStalls` promises no more than that: a request
whose body is there goes upstream, and what was answered is recorded in the session,
however long the other requests of the session hang. A handler that waited for their
answers, to know the latest hit, would break it (`CheckTurnsInTurn`).

`FairSpec` of Process has weak fairness for opening (`Startup`) and for the handler
steps after the answer (`Handle`). A statement on the database returns: the code sets no
busy timeout, so a lock held elsewhere is an error at once. The end of a `Load` is not
assumed, since it may go over the network without a timeout; `HandlersFinish` has it as
a hypothesis. Nothing is assumed of who starts or kills what; `LoneServerServes` is about
a server that nobody kills and that runs alone; its own failure is no excuse.

## Proofs

`Proxy_proofs` proves, with only the named assumptions on the constants:

- `TypeCorrect`: types of all variables.
- `NoEvidenceAgainstPruned`: `PrunedHadNoEvidence` is not inductive, because
  `ScanTool` asks the session and not the requests. `EvidenceInv` adds that observed
  requests are under way (`ObservedAreUnderWay`), that the session knows all their
  calls (`SessionKnowsHistories`), that the evidence a request met when it was
  observed is in the session as long as it is rewritten (`EvidenceStands`), which is
  what the other handlers could destroy between the lock regions, and that a fresh
  request is whole (`FreshIsWhole`).
- `TurnsAreObservations`, `GateHolds`: `TurnInv` adds that a handler past the gate
  belongs to a session with enough turns. A restart breaks it for no one, since it
  ends all handlers.
- `FlagsAreCurrent` (`FlagIsCurrent`): every step but `RecordHit` keeps the flags, the
  requests that have recorded and their answers (`SameFlags`); `RecordHit` brings its own,
  and a client that waits has nothing later, since its requests are handled one at a time
  (`OneAtATime`, for the clients that are not in `EagerClients`).
- `SessionsForgetNothing`: the action property `NothingForgotten`.
- `HitSparesPatient`: with `EagerClients = {}` and `MinObservedTurns >= 2`,
  `HitSparesNextTurn`. `SparedInv` follows a client that is alone in its session from one
  request to the next: they do not overlap (`TurnByTurn`), and the flag stands
  when the next turn comes to the gate, or the process has been started again and the
  session is too young to prune, for which the gate has to be at two at least. Without
  the first assumption it is false (ProxyHitRace).
- `WholePrefixKept`: under the same assumptions, what ProxyCachedPrefix refutes in general
  holds where the request that was hit had gone out whole: a client that is alone in its
  session and offers the same tools again sends the same array.

Most actions neither observe nor prune; they share the lemmas about `QuietStep`, and for
flags and turns those about `StepOf`.

`ProxyContract_proofs` proves `ProxyKeepsContract`: every initial state and every step of
`Proxy` maps to `PruneContract`, for all constants. The round of `ScanTool` that ends the
loop is the contract's choice. `ScanInv` says why it is within the contract's bounds: the
loop has dropped only offered tools that the request does not keep by itself, and what it
has passed without dropping has a reason that still stands; `EvidenceInv` adds that
nothing dropped was known when the request was observed.

`Process_proofs` proves, assuming that rows found in an old database are none of the
model's own (`OldRows \cap Rows = {}`):

- `TypeCorrect`, and `NoRowIsLost`: the action property `RowsStay`.
- `SchemaIsCurrent`: `SchemaInv` says what each stage of opening has established, and
  no step of another process takes it back, because the schema only grows (`DbGrows`).
- `CountsAreComparable`: `MethodInv` ties the counts a handler holds, and those in the
  rows of the running process, to the outcome of the load, which never changes.
- `LicenseIsAsLeft`: `LicenseInv` adds that an undisturbed writer is the only one and its
  file is still empty and has its name (`WriterInv`).

`FoldFacts` has what the next modules need of numbers and sums. The provers take no
operator as an argument, so its induction is over a set of numbers (`Induction`, from
which `Smallest` and `Largest` elements), and a fold is known by what it does with one
element more: a function that does the same on all subsets exists and agrees with it
(`FoldExists`, `Solves`).

`Wire_proofs` proves, for every number of requests and every set of openings, additions,
tool lists and headers that meets the named assumptions of `Wire`:

- `FieldsAreKept` (`FieldsSurvive`): one lemma per JSON type, then the invariant that a
  recording holds nothing but what the types let through.
- `ConversationsKeepSessions` (`OneSessionPerConversation`): the id depends on the model,
  the system prompt and the first user message only. `ConversationInv` says that each
  request of a conversation extends the one before, so that its first user message is
  that of the opening (`FirstSaid`, `NextTurn`), whatever the types do to the messages;
  two openings with different hashed parts then have different ids (`SessionOfTurn`).
- `ReplayCountsAlike` (`ReplayAgrees`): `CountInv` says of both stores that each session
  is the tally of the lines seen under its id (`Tallied`): their number, and the union of
  the names in them. It is not enough to compare stores, since replay is behind.
- `WireIsTyped` (`TypeOK`): what `MarshalJSON` writes has a value in every field, type by
  type; and sessions know only tools (`NamesAreTools`).
- `KnownCallsArriveWhole`: what WireFields refutes in general (`CallsArriveWhole`) holds
  where the function of each call has a name and arguments only.

What clients send is assumed by name in `Wire`: bodies are objects with a list of messages,
one of them a user's (`RequestAssumption`: `Apply` and `IDForRequest` make no promise about
others); openings differ in what is hashed (`OpeningsDiffer`: those that do not share a session,
and `session.go:7` calls the hash "not perfect"); calls name tools (`CallAssumption`). TLC
evaluates all three on the run. The theorems also have `ScalarsAreNoObjects` as a
hypothesis: the values `Null`, `Empty`, `Absent` and `Garbled` are no functions, as scalars
of JSON are no objects (`FieldsAreKept` needs it of `Empty` only). TLC cannot evaluate that
of model values, and so it is not an `ASSUME` of a module.

`WireContract_proofs` proves `WireKeepsLedgers`: `Wire` implements `SessionContract`.
`FollowInv` adds to `CountInv` that all requests of a conversation have gone to one session
and that the last one is what it has sent last (`Followed`), and that each went upstream
with the names the proxy has read (`NamesKept`); so the mapping can be read off the
client's state (`SeenOfConversation`). `NamesOfTouched` says that blocks a pass has written
again call the same tools, whichever messages were touched, and `NamesGrow` that a longer
history calls no fewer. Beyond `ScalarsAreNoObjects` the theorem assumes that a block which
calls a tool says its type and its name (`CallsAreNamed`: one without has no name to
compare), and that no opening is hashed to the absent header.

`CaptureTail_proofs` proves, for every window size, response and cut:

- `WindowIsSuffix`: `LastBytesOfConcat` says that the end of a long enough end with a
  chunk appended is the end of the whole, and `SlideTailKeepsSuffix` applies it to the
  three cases of `SlideTail`. `WindowIsBounded` follows.
- `CountsAreGenuine`, `LateCountsAreSeen` (a count whose key lies in the window is read,
  or that of the other key there): positions in the window are positions in the
  response, shifted; so are the occurrences of a key (`OccurrencesOfEnd`), the last of
  them, and the digits after it (`NumberOfEnd`). `ScanOfEnd` puts this together. Which
  number a sequence of digits stands for plays no part there.
- `CaptureIsTyped` (`TypeOK`): digits are an interval (`RunIsInterval`), and the fold over
  it gives a natural number (`ValueType`), so a scan finds one or none (`ScanType`).

`History_proofs` proves, for all signatures, contents, windows and lengths of a
conversation and for both dialects:

- `RewriteKeepsShape` (`TypeOK`) and `RecentKept` (`RecentOnlyStubbed`). `HistoryInv`
  says that what was sent is the history rewritten; `DedupeShape`, `CompactMessageShape`
  and `ApplyShape` say what the passes do to the messages, `PartOutcome` what can become
  of one part, so that only deduplication makes a stub.
- `LatestRepeatsStay` (`LatestRepeatStays`):
  among the results with the key of a stub there is one that the walk visits first
  (`FirstVisited`: the newest message, and there the first block). It is not stubbed, it
  does not come before the stub's message, and it is cut only if it is long and has left
  the window.
- `StubsTellTheTruth`, `ShortOutputsStayWhole`: what HistoryBlocks refutes holds in the
  dialect of OpenAI, and what HistoryLatest refutes holds where no output is over the
  threshold of truncation.
- `DedupedCallsAreReported`: `StubsAreReported` needs that no two results carry the same
  identifier (`UniqueIds`); `ReportInv` adds it, and that identifiers of results stay
  below those of the turns to come. Two results of one key then answer two calls with one
  signature, and `repeated_tool_calls` counts them.
- `RewritesStay`: the action property `RewriteNeverUndone`. `PlaceInv` says that a call
  is numbered by its place, so that a longer history knows the same calls and stubs at
  least the same results (`StubsStay`), and that a result of OpenAI is a message of its
  own. A message without a new stub is compacted to the same again (`CompactedMessage`,
  `SameStubs`); one of Anthropic in which another block becomes a stub may not be, which is
  the exception the property makes.

Only model-checked are the liveness properties `HandlerNeverStalls`, `LoneServerServes`
and `HandlersFinish`: the provers installed cannot reason about `ENABLED`, and so not about
fairness. Every invariant, action property and refinement of the passing runs is proved.

## Not modelled, and the plan

Not modelled: other paths of the reverse proxy and `/healthz`; the prune and rewrite
logs (one line appended by each handler, read by nothing here); what `license.Current`
displays and the license in the environment; the sums, latencies and the report of
replay; the generator of test data and the release scripts; wording of stubs and regular
expressions; counts beyond the range of int; a marshal error (a request that has been
parsed can be marshalled); field names that differ in case only or occur twice.

What could come next:

1. Replay with its sums of tokens, compared with the rows of the database.
2. The contract of sessions under the interleaving of `Proxy`, where a request enters its
   ledger in one step and its answer in another.
