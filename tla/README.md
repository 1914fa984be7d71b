# Verification of scrub-proxy

TLA+ models of the scrub proxy (`src/`), the TLC configurations that check
them on small instances, and TLAPS proofs of the results that matter most.

    tlc -workers 2 -config HoldBack_stream.cfg MCHoldBack     # a run
    tlapm HoldBack_proofs.tla                                 # the proofs

## 1. The system

A request to one of the LLM endpoints is buffered, every user text in it is
scrubbed (secrets one-way, PII by placeholders such as `<Name_1>`), the
scrubbed body is sent upstream, and the placeholders in the answer are put back
before the client sees it. A streamed answer is restored while it streams.

| Part | State | Operations | Talks to |
|---|---|---|---|
| Placeholder generator (`anonymize/placeholder.go`) | an index per label, value -> placeholder, placeholder -> value, an RWMutex; one per request | `PlaceholderFor`, `Lookup` | called by the pipeline, looked up by the restorers |
| Anonymization pipeline (`anonymize/pipeline.go`) | none between calls | `AnonymizeText`, `normalizeDetections` | language detector, Presidio, generator |
| Text extraction (`anonymize/extract.go`) | none (edits the decoded request) | `ExtractUserTexts`, `SetTextAtPath` | handler |
| Secret redaction (`secrets/`) | compiled rules, read-only | `NewScanner`, `Scan`, `Redact` | handler |
| Hold-back restorer (`restore/holdback.go`) | the held text | `Push`, `Flush`, `RestoreString`, `findHoldStart` | generator's `Lookup` |
| SSE restorer (`restore/sse.go`) | data lines of the current event, one hold-back restorer | `Copy`, `restoreEvent` | upstream body, client |
| Streamable restorer (`restore/streamable.go`) | one hold-back restorer | `Copy`, `restoreLine` | upstream body, client |
| JSON restorer (`restore/json.go`) | none | `RestoreJSON`, `RestoreJSONBytes` | handler |
| Request handler (`proxy/proxy_handler.go`) | per request: decoded body, position in the list of texts | `ServeHTTP`, `handleStreaming`, `handleNonStreaming`, `passthrough` | all of the above, the upstream client |
| Upstream client, Presidio client | none | `Forward`, `Analyze` | network |
| Server and process (`proxy/server.go`, `main.go`) | listener, requests in flight, the shutdown | `ListenAndServe`, `main` | signals, handler |
| Language detector (`language/detector.go`) | read-only after start | `NewDetector`, `DetectLanguageOf` | pipeline |
| Configuration (`config.go`) | read once at start | `LoadConfig` | main |

Requests share nothing but read-only objects, so one request and one generator
are modelled at a time; only `Server` has several.

What is hard in this code, and what makes each part correct:

- **Streams are cut anywhere.** A placeholder may arrive in pieces; the
  restorer may release only text that cannot be part of one, must not hold
  more than it needs, and must lose or double nothing (hold-back, SSE,
  streamable).
- **The mapping is shared.** `PlaceholderFor` looks, counts and writes two maps;
  a `Lookup` may come at any moment. The maps must stay inverse to each other and
  an issued placeholder must keep its value. In this repository one goroutine uses
  each generator; that several may is the promise of the type's comment
  (`placeholder.go:93-95`), and it is the type that is modelled.
- **Detections come in any order and overlap in any way.** Replacing one span
  shifts the text under the others (pipeline, redaction).
- **Failure half way.** The third of five texts may fail; the upstream may break
  off in the middle of its answer; the client may leave at any step. Nothing
  unscrubbed may be sent and at most one status may be written (handler).
- **One restorer for several endpoints.** It is chosen by the path of the request,
  and holds text of one choice while the next string may belong to another.
- **Paths into a document.** A text is written back by the names of the keys that
  led to it, while the walk visits the members in any order (extraction).
- **Rules that overlap.** Several rules match the same bytes, each with its own
  gates; groups may be missing (scanner).
- **Timeouts and shutdown.** The upstream call has none, streams may run for
  ever, and the process must still stop, also when the signal comes early
  (handler, server, main).
- **Typing errors.** A setting that does not parse must not turn a protection off
  (configuration).

## 2. Modules

| Module | Models | State and actions |
|---|---|---|
| `PlaceholderFormat` | the two regular expressions of `placeholder.go` | operators `CompletePlaceholder`, `ViablePrefix` over sequences of characters |
| `RestoreText` | `RestoreString`, `findHoldStart` | a recursive function over the text; `RestoreEach` is the reference definition, written without the scan |
| `HoldBack` | `HoldBackRestorer` | `pending` is the field; actions `Push`, `Flush`; histories `received`, `cuts`, `out` |
| `MappingConstants` | the sets and bounds of the mapping | constants and their assumption |
| `PlaceholderDict` | what the mapping promises: atomic, one-to-one, stable | `issued`, one `call` per goroutine |
| `Generator` | `PlaceholderFor` and `Lookup` step by step under the RWMutex | the three maps, the mutex as `holder` and `readers`, a `pc` per goroutine, one action per statement |
| `DeltaRestore` | `Push` as a function, the strings of one event pushed in turn, the lines of a stream | operators `Pushed`, `RestoreDeltas`; a delta is a string with its channel, the choice or tool call it belongs to |
| `Stream` | what both `Copy` functions share: reading, writing, the end and the failure of the body, the client's leaving | `held` is the restorer's `pending`; `out`, `status`, `source`, `gone`; the history `read` |
| `SSEStream` | `SSEStreamRestorer.Copy` and `restoreEvent` (`CopyEvents`) | `eventData`; `EndEvent`, `DataLine`, `OtherLine` per line, `EndOfEvents` |
| `Streamable` | `StreamableRestorer.Copy` and `restoreLine` (`CopyLines`) | `RestoreLine`, `PassLine`, `SkipBlank` per line, `EndOfLines` |
| `Answer` | `handleStreaming`: the restorer that each endpoint gets | `endpoint`; `HandleSSE`, `HandleStreamable`, and what may interrupt both |
| `RequestBody` | `ExtractUserTexts`, `SetTextAtPath`, the loop over the texts, `RestoreJSON` | `body` is `reqBody`, a function from positions to nodes; `Extract`, `Scrub` per location in any order, `Refuse`, `Forward`, `Answer` |
| `Anonymize` | `AnonymizeText`, `normalizeDetections`, `PlaceholderFor` on one goroutine | `Analyze` (detections in any order `sort.Slice` allows), `Keep`/`Drop` per detection, `Replace` per span from the right |
| `Scanner` | `NewScanner`, `Scan`, `allowlisted`, `ShannonEntropy` | operators on a configuration and the matches the regular expressions report |
| `Redact` | the secret stage on one text | `FindSecrets` (any matches, then `Scan`), `WriteToken`/`Skip` per finding, `WriteRest` |
| `Routing` | `upstreamPath`, `isLLMEndpoint` | operators on paths as sequences of segments; `Remaining` is the reference definition, which counts instead of walking |
| `Handler` | `ServeHTTP` with its helpers, and the two clients as it sees them | one action per stage; texts as two flags, "holds a secret", "holds PII"; `target`, `header` and `fields` are what the upstream and the client get |
| `Config` | `LoadConfig`, and what the parts accept of it | operators on an environment |
| `Server` | `main` and `ListenAndServe` | `Build`, `Listen`, `Signal`, `ListenerFails`, the two branches of the select, `Drained`/`Deadline`, `Exit` |

`MC...` modules hold the instances, `..._proofs` modules the proofs. Definitions
commented "Mutant" in a module are variants of the definition below them that carry
a plausible bug; each property is checked to fail under one of them.

Composition: `Generator` implements `PlaceholderDict` (`ImplementsDict`, by
INSTANCE with a refinement mapping: an insertion takes effect when the second
map is written, a hit when the first map is read, a lookup at its read).
`SSEStream` and `Streamable` extend `Stream`, that `DeltaRestore`, `RestoreText` and
`PlaceholderFormat`; `Answer` extends both, with the lines (`Lines`) that an upstream
sends on each endpoint, those of `/v1/completions` with their text where `restoreEvent`
does not look. `Redact` runs
`Scanner` on a configuration, `Handler` extends `Routing`, `Server` extends
`Config`, and names its `Init` and `Next` for the process, so that one module can
state theorems about it and the handler. `Anonymize` instantiates `RestoreText` with its own
mapping, so that `RoundTrip` relates the request path to the answer path.
`Handler` abstracts the scrubbing that `RequestBody`, `Redact` and `Anonymize` detail and the delivery that `Answer` details, and
`Server` abstracts a handler to "in flight".

## 3. Runs

| Run | Shows | Bounds |
|---|---|---|
| `HoldBack_stream` | `NoSplit`: no complete placeholder lies across a position where text was released. `HeldTail`: until the end, every end of the stream that some further text makes a placeholder of is held, and what is held is no complete placeholder and, unless it ends in `>`, such an end. `OutputRestored`: the output is the reference restoration | 9 characters, labels of up to 2 and indices of 1 character, the pieces of two placeholders |
| `HoldBack_stray` | violation: an open `<` in front of a placeholder hides it | |
| `Generator_calls` | `NoRace`, `MapsAgree`, `ImplementsDict`, `Stable`; `CallsReturn`: every call returns | 3 goroutines, 2 values, 2 entity types that share a label, 2 indices |
| `Answer_streams` | `TextRestored`: the joined strings of the events, restored, except for the held end. `TextInItsPlace`: of each string at most an end as long as a placeholder, beginning with `<`, comes with a later one. `EventsPreserved`: events keep order and shape, other lines pass | 5 lines of 10 kinds for chat completions and of 5 kinds for completions, 3 lines of 15 kinds for `/v1/responses` |
| `Answer_choices` | violation: a placeholder that is split while two choices take turns is restored in neither | 5 lines |
| `Anonymize_texts` | `SpansDisjoint`, `DetectionsCovered`, `ReplacedExactly`, `RoundTrip` | up to 3 texts of 3 bytes, 3 detections between them, offsets -1 to 4 |
| `Anonymize_overlap` | violation: a partly overlapping detection is dropped | |
| `Redact_spans` | `SecretsRedacted`: what a usable rule finds and its gates let through is one token. `OnlyEndsSurvive`: however secrets overlap, only ends of some are left over, behind another one that cuts into them | 5 configurations, texts of up to 4 bytes, 3 matches |
| `Body_texts` | `UserTextsScrubbed`: every user text at the top of the request is scrubbed in its place. `EchoRestored`: nothing else changes, and restoring undoes it but for the redacted secrets | messages, input and prompt in 3 forms each, with up to 2 of 8 other members; one text has a secret |
| `Body_dots` | violation: a dotted or empty key diverts the scrubbed text | as above |
| `Handler_request` | `FailClosed`, `OneAnswer`, `AnswerAccounted`, `TargetMeant`, `HeadersFit`, `GoneEnds` | 3 texts, 2 pieces of body, 6 paths and all paths of up to 4 segments over 5 |
| `Server_shutdown` | `CleanExit`, `ServesAsConfigured`, `StopsOnSignal` | 4 requests, 220 environments |

Why these bounds are enough to be interesting:

- *Hold-back.* The shortest placeholder has 5 characters, so 9 hold one, the
  beginning of a second, and everything that can stand between them. The length
  limit (`MaxPlaceholderLen`) is reached, because labels and indices have
  length 1. The chunks are the pieces of two placeholders. The proofs cover every
  alphabet, limit and chunk.
- *Generator.* Two writers and a reader can be in every pair of steps, two values
  can compete for a label through two entity types. The proofs cover any number.
- *Streams.* Five lines are two events and a tail, with an object spread over two
  lines; the texts are the pieces of one placeholder, and two pieces, of one choice
  or of two, may stand in one event. The held text is at most one placeholder, so
  that a third event meets no state the second did not. The proofs cover streams of
  any length with any strings and channels.
- *Documents.* Every branch of `extract`, `extractContent` and `extractInput` is
  taken, two diverting keys can meet each other and the members they divert to,
  and bodies that are no objects occur. `MaxExactInt` stands for 2^53.
- *Spans.* Three detections can be equal, nested, overlapping and touching at once,
  with one pair deciding the fate of the third; -1 and 4 lie beyond both ends.
  With three texts a value returns in a later text and must keep its placeholder.
- *Rules.* The configurations have a rule for paths, one that does not compile, groups
  out of range, keywords, thresholds, stopwords and allowlists, two rules on the same
  bytes, and no rule that is left.
- *Handler.* The loop is entered, repeated, left early and left late with three
  texts; `written` tells "nothing", "something" and "more". Four segments hold `v1`,
  a name, and two dot segments behind or between them.
- *Server.* Each request can be refused, answered or cut off before, during and
  after the drain, with one to spare.

`CHECK_DEADLOCK FALSE` is set wherever the modelled call ends (a stream is over, a
request is answered, the process has exited, a text is redacted). The generator never stops, and there
deadlock is checked.

### Fairness

- `Generator`: a goroutine inside a call keeps running (weak fairness), and a
  writer waiting for the mutex gets it in the end (strong fairness of `Lock`:
  Go's mutex hands itself over in order once a waiter has starved for a
  millisecond). Nobody has to call.
- `Handler`: the handler's own steps, Presidio's answer (its client has a timeout
  of 30 s, `presidio/client.go`) and the return of a cancelled call. The upstream
  and the client owe nothing, so `GoneEnds` is the strongest promise there is:
  without a leaving client a silent upstream keeps the handler for ever.
- `Server`: main's goroutine (`Build`, `Listen`, `ServeError`, `Shutdown` and
  `Drained`, `Exit`) and the timer (`Deadline`). Handlers owe nothing.

## 4. Proofs

All theorems hold for every value of the constants that satisfies the modules'
named assumptions:

- `FormatAssumption`: character classes are disjoint and limits positive.
- `StreamAssumption`, `WellFormedLookup`: chunks are texts; the mapping maps
  complete placeholders to texts (`PlaceholderFor` builds no others).
- `MappingAssumption`, `HandlerAssumption`: `None` is no value, requests are of the
  kinds `AnyRequest` lists.
- `AnonymizeAssumption`: labels are 1 to 32 characters of `[A-Za-z0-9_]`
  (`labelForEntity`, `placeholder.go:39-90`), indices have at most six digits and
  are told apart by them (the code has no limit there: see section 5), offsets are
  integers.
- `RequestBodyAssumption`: a body is what `json.Unmarshal` can return: a tree in
  which only objects and arrays have members, those of an array have numbers, and a
  number is no word that `extract` looks for; `messages` ends in "messages". Which
  texts hold a secret (`SecretTexts`) is not restricted.
- `ScannerAssumption`, `RedactAssumption`: rules are records as the TOML parser fills
  them, texts and keywords are sequences of bytes, lower case is a function on bytes
  that changes nothing twice, and the token, one element here, is no byte.
- `AnswerAssumption`: an upstream sends what `Sends` says of each endpoint, the lines
  that the two restorers tell apart, with any texts, any number of strings in an event
  and any channels; `/v1/responses` has one text to a line.

`Config` and `Server` assume nothing.

| Module | Theorems | Argument |
|---|---|---|
| `RestoreText_proofs` | `ScanRestoresEach`, `RestoredInParts`, `ScanGoesOn`, `RestoringUndoesScrubbing` | the scan of `RestoreString` against the reference `RestoreEach`, which looks at each position on its own: at every place where the scan stands outside a placeholder, what it has still to write is what the reference writes from there on. Placeholders have no bracket inside, so none lies across a place where the scan stops |
| `HoldBack_proofs` | `TypeOK`, `HeldTail`, `NoSplit`, `OutputRestored` | `NoSplit` says nothing of what may still arrive, so it is not inductive. `IInv` adds `HeldGrows` (what is held grows by the code's own expression), `CutsSafe` (each cut lies in front of an opening bracket, or nothing that ended there could grow), `RestSettled` (while nothing is held, nothing that ends here can grow) and `HeldFromCut` (what is held begins at a cut). The lemmas below it are about the format: a text that is no closed token may grow by the code's expression exactly when some further text makes a placeholder of it (which ties `IInv` to `HeldTail`), a placeholder has no bracket inside, and a growing tail begins at the last bracket. `OutputRestored` adds to it that the output is the restored text up to the last cut, by `ScanGoesOn` |
| `Generator_proofs` | `TypeOK`, `NoRace`, `MapsAgree`, `ImplementsDict`, `Stable` | `IInv` adds who owns the mutex (`LockInv`), what the maps look like in the middle of an insertion (`MapInv`), and what a goroutine knows at each step (`StepInv`). The refinement maps each statement to a step of the dictionary or to a stutter: the write of the second map is `Issue`, the read that hits is `Reuse`, a lookup takes effect at its read |
| | `OneToOne` and `Stable` of the dictionary | only `Issue` changes it; with the refinement, `IssuedOneToOne` says the same of the generator |
| `Anonymize_proofs` | `TypeOK`, `SpansDisjoint`, `DetectionsCovered` | every kept span ends at `keptEnd` or before it, and the next one begins there or later; nothing about the order of the detections is needed, so this does not depend on the sort. `AllSeen` says that each detection the loop has seen begins in a kept span; that it also ends there needs the sort |
| | `RoundTrip` | `ScrubInv`: the generator's maps are inverse to each other, and the text behind the span replaced next, like each finished text, is in `Scrubbed`, the least relation that holds between a text and itself and lets a plaintext in the middle be replaced by its placeholder. Such a text restores to the original (`RestoringUndoesScrubbing`, for the mapping at the end); a mapping that grows keeps what was in the relation |
| | `ReplacedExactly` | the text in front of the next span is untouched, and each replacement changes one element of the list of pieces that `FlattenSeq` joins |
| `RequestBody_proofs` | `TypeOK`, `UserTextsScrubbed`, `EchoRestored` | `IInv`: the body is a tree, whatever was written where, and as long as the paths are plain it is the decoded request with exactly the texts scrubbed that the loop has seen. A path of plain keys leads back to its position, a text is a leaf, so a write changes the value of one node and leaves the places of the others alone, in any order |
| `Answer_proofs` | `HeldFollows` | what the strings of a stream leave behind is a function of their joined text: what is held is the tail `FindHoldStart` would cut off the whole of it, and what was returned restores the rest. By induction over the strings: a tail that may grow begins at the last bracket, so what was released before it is settled |
| | `TypeOK`, `TextRestored`, `TextInItsPlace`, `EventsPreserved` | none but the type invariant is inductive: they compare what was written with the text that came in, and say nothing of `held` and `eventData`, on which the next write depends. `IInv` adds `AllSent` (what was read is what the upstream may send), `Tracked` (what is written and what is held are what `RestoreDeltas` makes of everything taken up so far, with the unframed rest behind it at the end) and `InPlace` (while `Copy` runs, `eventData` is what an SSE client would have open after the lines read, nothing is open in the lines written, and both sides have the same events, or kinds of lines). A step takes up one event or line more; a write that fails on the way leaves a prefix. `TextInItsPlace` is `HeldFollows` for each beginning of the stream: what `RestoreDeltas` returns for the first strings does not depend on those behind them |
| `Redact_proofs` | `TypeOK`, `SecretsRedacted`, `OnlyEndsSurvive` | the findings still to come are sorted, the others begin in front of the cursor, and the cursor stands at the end of a finding that none of those to come precedes. So what is written is the concatenation, up to the cursor, of what becomes of each byte: itself, a token or nothing. A finding that is dealt with ends in front of the cursor, unless another one that ends there cuts it short (`OnlyEndsSurvive`). Below it: what `Scan` reports is `Secrets`, the definition of a secret read off the configuration |
| `Proxy_proofs`, the handler | `TypeOK`, `FailClosed`, `OneAnswer`, `AnswerAccounted`, `HeadersFit` | `ScrubInv`: the texts in front of `k` are scrubbed, and an LLM request reaches `forward` only with `k` behind the last one; `AnswerInv`: status, body and answer at each stage; `CopyInv`: a body is copied only behind a header, so that no later step touches the fields |
| | `TargetMeant` | cleaning a path against counting its segments, by induction over the segments: what has been kept is what remains so far, and a name that remains stands as high above its place as there are names that remain from it on (`HeightsFit`), so that `..` takes back the last of them |
| `Proxy_proofs`, the process | `CleanExit`, `ServesAsConfigured` | a draining server's listener is not open, so once nothing is in flight nothing can be again; once the parts are built, `scanner` and `maxBody` are what the environment asks for |

Induction. The library's induction theorems take an operator as a parameter, which
the provers cannot instantiate. `RestoreText_proofs` states induction over the
numbers as a fact about sets instead (`Induction`: a set that holds 0 and with every
number the next one holds them all), from the library's theorem that `<` is well
founded; `FlattenSeq` and the scan of `RestoreString`, both recursive functions over
positions, are reasoned about with it, and the modules on texts and bodies use the
facts on `FlattenSeq` through an instance; `Scan` and `Clean` are reasoned about in the
same way. `Answer` is written without the folds of the library for the same reason:
`HeldThrough` and `Parsed` are functions over positions, and texts are joined by
`FlattenSeq`.

Only model-checked:

- liveness (`CallsReturn`, `GoneEnds`, `StopsOnSignal`; the prover has no support for
  fairness).

Every invariant and every other action property that a passing run checks is
stated by a theorem, of the specification without fairness.

## 5. Where the code and its documentation part

Checked as runs, with TLC's counterexample:

- `HoldBack_stray`: in `a < b <Name_1>` the token is everything from the first
  `<`, its lookup fails and the placeholder reaches the client. `OutputRestored`,
  `TextRestored` and `RoundTrip` therefore assume `NoStrayOpen`.
- `Body_dots`: in `{"x": {"y": {"prompt": "p"}}, "x.y": {"prompt": "q"}}` both texts
  have the path `x.y.prompt`; one place is written twice, the other goes to the
  upstream as it is. An empty key vanishes from a path in the same way.
  `UserTextsScrubbed` and `EchoRestored` assume `PlainTexts`.
- `Answer_choices`: all choices and tool calls of a stream share one hold-back buffer,
  so the held end of one is written into the next string of another. While two take
  turns, a split placeholder is restored in neither. `TextRestored` joins the strings
  of all, and `TextInItsPlace` says how little of them can move.
- `Anonymize_overlap`: of two detections that overlap in part the second is dropped
  and its end is sent in the clear. `DetectionsCovered` says what does hold.

Met while modelling, and what each means for the properties:

- `ViablePrefix` matches a closed token without an index, so `<>` and `<a>` are held
  until the next text, although nothing makes a placeholder of them
  (`placeholder.go:24-26` calls it a string "that could still grow into a complete
  placeholder"). `HeldTail` does not exclude that: of a held text that ends in `>` it
  says only that it is no complete placeholder.
- `restoreEvent` looks at `choices[].delta`, but the events of `/v1/completions` hold
  their text in `choices[].text`, so a client that streams completions reads
  placeholders, although `src/README.md:79` lists the endpoint with SSE and lines
  28-31 say that restoring works for streams. `EventsPreserved` says that this text
  passes unchanged.
- `response.output_text.done` repeats text whose end the buffer may still hold, so the
  event begins with that end and misses its own. `TextInItsPlace` says how much of
  it: an end that begins with `<` and is no longer than a placeholder.
- Text held when an event stream ends is written without a `data:` line, possibly
  behind `[DONE]`, where a client that reads events does not look for it.
  `TextRestored` counts the unframed rest as delivered.
- `Redact` skips a finding that begins inside another, so the end of a secret that
  overlaps another in part stays in the text that goes to Presidio and to the
  upstream, although `redact.go:12` says that each secret is replaced and
  `src/README.md:35` that "Redacted secrets are never seen by anyone".
  `SecretsRedacted` assumes that no two secrets overlap in part; `OnlyEndsSurvive`
  does not, and says that such an end is all that is left over.
- An endpoint is recognised by the path as it was sent, and the path is normalised
  only when it is forwarded: `/v1//responses` passes through like any other path
  and reaches `/responses`. `FailClosed` speaks of the recognised paths
  (`README.md:82`: all others are passed on unmodified), `TargetMeant` of the
  target of all.
- A `prompt` that is an array of strings is not extracted (`extract.go:20` says
  "prompt (string)"): `UserTexts` leaves it out.
- Integers beyond 2^53 go through float64: `EchoRestored` compares with `Decoded`.
- Keywords and stopwords of the scanner are compared in lower case: one written
  with a capital letter matches nothing.
- A placeholder the user typed is not told from one that was issued, and is
  restored to somebody's plaintext: `RoundTrip` assumes that the user's text
  names no placeholder of the request (`KnownAt` is empty).
- An event of several data lines that is not one JSON object loses the field name
  of its later lines: `EventsPreserved` assumes `OneObjectPerEvent`.
- A JSON answer to a request with `stream: true` goes through a stream restorer,
  which passes it on unrestored: its lines are the "field" and "junk" lines of the
  models, and `EventsPreserved` says that they pass. The same holds for an event
  stream in answer to `/v1/responses`, whose `data:` lines are no JSON.
- Tool arguments are JSON inside a string and are restored without escaping.
- A drain longer than 30 seconds cuts off what is in flight, with exit code 1:
  `CleanExit` speaks of exit code 0.
- A label's counter has no limit while the format allows six digits.
- Detections are sorted before they are clamped, so a negative offset (which
  Presidio does not report) can put the shorter of two spans first;
  `DetectionsCovered` compares detections as they were reported.

## 6. Abstractions, and what is not modelled

- Characters stand for the classes the expressions distinguish. Presidio's
  offsets and the text's indices count the same unit here; `pipeline.go` uses
  bytes.
- In the stream modules JSON is modelled by its outcome (an object with its strings,
  or not an object); a line longer than the scanner's buffer is one of the causes
  of `ReadFails`.
- In `RequestBody` a text keeps what has been done to it, redaction (of a text with a
  secret) and anonymization, which alone is undone; what they do is in `Redact` and
  `Anonymize`. The texts hold no placeholders of their own. A key is the names
  that `splitPath` finds in it; that `isMessagesArray` looks at the path as written, and
  sees no array in `messages..0`, is left out. The answer repeats the request, so that restoring meets every
  place; an answer that is no JSON passes unchanged.
- A write to the client fails only once the client has gone.
- The handler's texts are two flags, of which redaction clears one: what is left of
  overlapping secrets is the matter of `OnlyEndsSurvive`; `SetTextAtPath` hits the intended text or
  fails, as `Body_texts` shows for keys without dots.
- Paths are those `net/http` has decoded. `Forward` writes them into a URL without
  encoding them again (`upstream.go:42`), so that an encoded `/`, `?` or `%` in a
  segment has another meaning upstream; segments in `Routing` hold none.
- The checks of `redact.go:40-47` for offsets outside the text and for empty spans are
  left out, because `Scan` reports none of those.
- The regular expressions of the scanner may match anything anywhere, with groups
  that took part or not. Entropy is modelled by the number of different bytes,
  which orders secrets of up to four bytes as the code does.
- `Config` keeps of a setting whether it is set, parses, and in which range it lies.
- Not modelled: the query string (kept as it is) and `forwardQuery`; request headers
  and the construction of requests in the two clients; the language classifier
  behind `DetectLanguageOf`, whose answer only selects Presidio's language; the TOML
  parser; `net/http`'s header and idle timeouts; logging.

## 7. What is left

Every component is modelled and composed as described in section 2, with the proofs
of section 4. What the runs could still be extended by:

- the request's query string and headers on their way through the two clients;
- offsets in characters against offsets in bytes, where a text is not ASCII: this needs
  a second unit of length in `Anonymize`;
- the scanner's limit on a line of a stream as a state of its own, when the
  documentation says what a client should see then.
