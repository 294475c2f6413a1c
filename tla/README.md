# Verification of welog_rs

TLA+ models of welog_rs, a logging library for Rust services: a process-wide
logger with a worker thread that sends JSON entries to Elasticsearch and falls
back to the file `logs.txt`, an Axum middleware and gRPC wrappers that produce
those entries. Paths below are relative to the repository.

## Inventory

| Component | Source | State it keeps | Operations | Hard behaviours |
|---|---|---|---|---|
| Logger: callers, channel, worker | `src/logger.rs` 77-265 | bounded channel, `dropped_count`, the worker's current entry | `log`, `worker_loop`, `send_to_elastic` | many callers, a full or closed channel, a server that answers late or never, panics of `println!`/`eprintln!`, exit without flush |
| Fallback file | `src/logger.rs` 267-385 | `logs.txt`, `logs.tmp` | `write_fallback`: create, measure, trim, append | a failure or the end of the process between any two system calls, torn writes, the size limit, deletion from outside |
| Initialisation and configuration | `src/logger.rs` 92-131, `src/lib.rs` 28-42, `src/config.rs`, `src/envkey.rs` | environment variables, `OnceCell` | `set_config`, `Logger::global` | a first use that races or precedes the configuration |
| Axum middleware and target log | `src/axum_middleware_impl.rs`, `src/model.rs`, `src/util.rs` | per request: context with request id and target log | `WelogMiddleware::call`, `log_axum`, `log_axum_client` | tasks sharing the context, the limit of the target log, an inner error or a cancelled request |
| gRPC interceptor and wrappers | `src/grpc_impl.rs` | per call: context in the extensions | interceptor, unary and stream wrappers, `log_grpc_client` | a wrapper without the interceptor, request ids that metadata cannot carry |
| ECS enrichment | `src/logger.rs` 388-586, 645-712 | none (pure) | `enrich_with_ecs` | user fields overwritten, timestamps absent or reversed |
| Field builders and headers | `src/util.rs`, `src/grpc_impl.rs` 535-599 | none (pure) | `header_to_map`, `metadata_to_map`, `build_target_log_fields` | repeated headers |
| Example application, coverage hooks | `src/app.rs`, `src/main.rs`, `#[cfg(coverage)]` code | none | | not modelled: no state, or absent from a normal build |

The middleware and the wrappers hold a clone of the logger in each request's
context and call `Logger::log` once per request; handler tasks push target
entries to the same context. `Logger::log` enriches an entry, prints it on
standard output and offers it to the channel with `try_send`. The worker takes
entries one by one, posts each to Elasticsearch when a URL is configured and
otherwise, or when the post fails, calls `write_fallback`; when that fails too it
prints an error.

What makes each component correct:

- *Logger*: a caller never waits for the worker; an accepted entry gets exactly
  one outcome, in order; refused entries are counted and announced exactly; what
  is lost is lost with the process or the worker, or larger than the file may be.
- *Fallback file*: whatever fails, `logs.txt` is the newest part of what was
  written, of bounded size, and nothing is forgotten without need.
- *Configuration*: the logger runs with one complete configuration.
- *Requests*: every answered request is logged once, with its own id and the target
  calls recorded in its context until then.
- *Enrichment*: fields of the user survive; enriching twice changes nothing.

`PROJECT.json` lists the hazards of this code line by line with the properties
that watch them.

## Modules

| Module | Models | Role |
|---|---|---|
| `FallbackFile` | `write_fallback` and its callees | component |
| `Logger` | `Logger::log`, channel, `worker_loop`, `send_to_elastic`, an external server | component |
| `LossyQueue` | what the logger promises its callers | abstract specification, implemented by `Logger` |
| `LoggerSystem` | `Logger` with `FallbackFile` in the place of its step `Fallback` | composition, implements `Logger` |
| `LoggerInit` | `set_config`, `Logger::global`, the destination of an entry | component |
| `Requests` | the Axum middleware, the gRPC interceptor and wrappers, `log_axum_client`, `log_grpc_client` | component |
| `Document` | the fields of an entry and their enrichment | pure functions and the entries they build |
| `FallbackFileProofs`, `LoggerProofs`, `LoggerSystemProofs`, `LoggerInitProofs`, `RequestsProofs`, `DocumentProofs` | | theorems about the module of that name |
| `LoggerQueueProofs` | | theorem that `Logger` implements `LossyQueue` |
| `MC...` | | constants for TLC |

Definitions whose comment begins with "Mutant:" are defects the code does not
have. No specification uses them; putting one in the place of the definition
that follows it shows that a property would notice that defect.

### FallbackFile

Only the worker calls `write_fallback`, so the mutex is always free and the
module has one `pc`. Each action is one system call that can fail, or one turn of
a loop: `EnsureFile`, `EnsureCapacity`, `OpenFiles`, `DropLine` (first loop of
`trim_oldest_lines`), `CopyLine` (second loop), `Replace` (flush and rename),
`AppendRecord`. A record longer than the limit is dropped in `Begin` with `Ok`,
as in the code. A record that cannot be serialised is not modelled: `to_vec` of a
`serde_json::Value` does not fail.

Contents are byte offsets. `stream` counts the bytes ever appended; a line is the
range it occupies plus the two facts `read_line` depends on: whether it ends in a
newline and whether it is UTF-8. A range says which bytes are in the file, so
gaps, duplicates and stale contents are visible, and lengths are differences.

Faults: `IOError` (a call fails before it changes `logs.txt`; for the open files
of a trim this includes a partial write of `logs.tmp`, which is truncated before
it is used again), `TornAppend` (`write_all` stores part of the record; the cut
may be inside a character), `Crash` (the process ends and another one starts; the
disk stays), `DeleteFile` (another program removes `logs.txt`). The file system
itself is assumed to keep what it acknowledged and to rename atomically. A second
process writing to the same directory is outside the model: the lock does not
reach it and the properties do not hold then.

### Logger

`pc[t]` follows a thread through `log()`: print, `try_send`, then for a full
channel `fetch_add` and the notice as separate steps, so that callers interleave
between them. `wpc` follows the worker through one entry. `outcome` records what
the worker did with an entry; `accepted` is the history of the channel.

External parts: the server indexes a request at any time, also after the
worker gave up, or never (`Index`); standard output and error may break, after
which `println!`/`eprintln!` panic (`BreakStdio`): a panic in a caller ends that
call, a panic in the worker ends the worker and closes the channel. `Restart` is
the end of the process, orderly or not, followed by a new one: the code has no
flush, so both look the same.

`write_fallback` is the one step `Fallback` with its possible results: stored, an
error, or, for an entry of the constant `Oversized`, skipped with `Ok` (`src/logger.rs`
277). The README of the repository (line 141) promises the append of every entry; the
skipped one is a loss that leaves no trace, and `LostOnlyWithCause` names it beside the
end of the process and the death of the worker. `FallbackFile!WriteReturns` justifies
that the step ends, and `LoggerSystem!IsLogger` that nothing else can come of it.

### LossyQueue

A bounded first-in first-out backlog: accept, refuse only when full, settle the
oldest, close, reset. The bound is the capacity plus the entry in the worker's
hands; because a refusal depends on the channel alone, the abstract queue may
refuse from `Capacity` entries on. `Logger` implements it under the mapping
`backlog = current \o queue`, `settled = ` entries with an outcome other than
lost, `open = ` worker not dead.

### LoggerSystem

`LoggerSystem` extends `Logger` and instantiates `FallbackFile` with its `pc`
renamed. The step `Fallback` of `Logger` becomes `BeginFallback`, the steps and
faults of `write_fallback`, and `EndFallback`, which turns the result into what
`worker_loop` does with it; a record is longer than the limit exactly if its entry is
`Oversized`. `SystemRestart` may hit any step of a trim or an
append; `logs.txt` and `logs.tmp` survive it. `place` remembers which bytes of the
stream are the record of which entry, so that properties can speak of server, queue
and file together.

### LoggerInit

`set_config` writes four environment variables and `new_from_env` reads them, one
action per variable, on any thread (`SetVar`, `ReadVar`). `OnceCell::get_or_init`
is `Found`, `Claim` and `Publish`: one thread runs the initialiser, others wait, and
when `thread::spawn` panics (`SpawnPanics`) the cell stays empty and a waiting
thread tries. `Destination` is what `send_to_elastic` does with the snapshot.
`current`, `torn` and `expected` are history: the last complete configuration, and
whether anything overlapped the reading of it.

### Requests

One state machine for both transports, since they share the context with its id and its
list of target calls. `pc[r]` is where the task of request `r` stands between two
awaits; `route[r]` says who serves it: the middleware, a wrapper behind the interceptor,
a wrapper alone (`ensure_context` makes a context with whatever id the metadata has), or
a wrapper called by a handler that passes its extensions on, so that two requests share
a context. `IdsAgree` therefore says whose id an entry has by the context it was made
in: a nested call is logged under its caller's id, and the entry of a wrapper alone has
the empty id if its client sent none. `RecordTarget` may come from a task that outlives
its handler. A request may be dropped at an await or end in a panic (`Drop`,
`LogPanics`), and a response body may never end (`"endless"`, on which `to_bytes` in the
middleware waits).

A context and the UUID made for it are named by their request, which assumes that
UUIDs do not repeat. Bodies are left out; `Document` has them.

### Document

The pure part. A document maps paths to values, so `insert_nested_if_absent` is one
expression (`InsertNested`) and `enrich_with_ecs` a recursive function that inserts
the fields of the table `EcsFields` in the order of the code (`InsertField`; a field
with no value is left out). An entry comes from an Axum or a gRPC request with headers
and target calls (`RecordTarget`, `BuildEntry`), or from an application that logs
fields of its own (`AddField`); then `Log` enriches it.

Both `log_axum_client` and `log_grpc_client` build the fields of a target call first,
which may panic, and then push them unless the list has `MaxTargets`.

Strings are tokens. `Opaque` stands for a header value that `to_str` refuses and a
string of kind "time" for one that `parse_timestamp` accepts. A metadata value is what
is on the wire, which for a key of `BinaryNames` is base64 already; `metadata_to_map`
encodes it once more, and the constant `Base64` tabulates that function for the values
that occur. Objects that enrichment never opens keep their contents
as one value. The three limits of the time arithmetic keep their order but not their
size: nanoseconds in an `i64`, the calendar of `DateTime`, the range of `TimeDelta`.

## Runs

| Run | Checks | Bounds |
|---|---|---|
| `fallback` | types; newest suffix; size; errors have a cause; nothing forgotten needlessly; every write returns | limit 7; records of 2, 3 and 8 bytes (8 never fits); 6 writes; 3 faults |
| `logger` | types; conservation; cause of loss; exact counting and notices; refinement of `LossyQueue`; calls of `log` end | 2 threads, 2 calls each, the second of each too large for the file, capacity 1, a notice every 2 drops, 1 restart |
| `system` | stored entries are whole, written once, in order; refinement of `Logger` | 1 thread, 4 calls, capacity 2, limit 3, records of 2 bytes and, for the second entry, 4, 2 faults, 1 restart |
| `system_drains` | accepted entries reach an outcome | the same with 3 calls |
| `requests` | a request is logged once; a target call is in one entry, refused or unread, and in order; entries have the id of their context and are told apart; responses go out | 2 requests on any of 4 routes, 3 target calls per context, lists of 2 |
| `startup` | one logger and worker; entries go where one configuration says; a first use ends | 2 threads, 2 calls of `set_config`, 3 configurations, 1 failure to start the worker |
| `document` | enrichment keeps fields, is idempotent and agrees with the times; entries tell the request, its headers and metadata, and target calls of any latency up to the limit | 4 of 22 colliding fields; 5 lists of headers; up to 4 target calls for a list of 3 |
| `size_limit`, `one_line_records`, `wedged_trim` | statements of the documentation that the code violates | as `fallback` |
| `response_id`, `missing_config` | the same, for requests and configuration | as `requests` with 1 target call; as `startup` |

Why the bounds suffice. *Fallback*: three records fill the file, so six writes trim
repeatedly with zero, one or more lines dropped, and three faults allow a torn write, a
failure during the next trim, and a deletion in one behaviour. *Logger*: four entries
against a capacity of one give three drops, the smallest number with a drop that is
announced first, one announced as a multiple and one not announced; two threads
interleave between `fetch_add` and the notice. *System*: a file that holds one record of
2 bytes drops a line for the third; a record of 4 bytes, which never fits, comes between
the first and the second; three of the four entries fill the channel behind the one in
the worker's hands; with the faults and the restart, a torn write can be followed by a
trim that the end of the process interrupts. Three entries are enough for `Drains`,
which does not depend on what the file holds. One thread is enough because what callers
do to each other is in `logger`. *Requests*: two requests are the fewest that share a
context or confuse their ids; three target calls overflow a list of two, before or after
the list is taken. *Startup*: two threads race for the cell in every way, and of two
calls of `set_config` one can overlap or follow the first use. *Document*: four target
calls overflow a list of three; enrichment treats the paths it inserts one by one, so a
collision needs at most the fields above one path and the times it is computed from, and
four fields are enough for each.
Deadlock is checked in no passing run because calls, writes, requests and faults are
bounded: a finished behaviour stops.

Fairness. `FallbackFile!FairSpec`: weak fairness of the steps of a running call,
because the thread runs while the process does. `CallerSpec`: weak fairness of
each caller's steps inside `log` only; nothing is assumed of the worker, so
`NonBlocking` holds even if it is stuck. `LoggerSystem!FairSystemSpec`: weak fairness
of the worker, including its calls of the file system, none of which hangs; the wait
for an answer ends because the agent has a global timeout of 5 s (`src/logger.rs`
97-100), which is why `Failed` is enabled in every wait.
`Requests!FairSpec`: the runtime polls a request's task until it ends or is dropped;
nothing is assumed of clients, handlers and the tasks they leave behind.
`LoggerInit!FairSpec`: a thread that called `Logger::global` is scheduled.

## Where code and documentation disagree

1. `size_limit`: the first loop of `trim_oldest_lines` keeps the line with which
   enough bytes would have been freed, so after a trim and an append the file is
   larger than the maximum that the module comment and the README state.
   `AtMostOneLineOver` bounds the excess by that first line.
2. `one_line_records`: after a torn write the next record continues the fragment,
   although it was stored with `Ok`; "one-line JSON" does not hold.
3. `wedged_trim`: a fragment that ends inside a multi-byte character makes
   `read_line` fail. When the file is full, every later write fails in the trim
   until somebody removes `logs.txt`.
4. `response_id`: the README (line 142) says the request id is added back to the
   response headers; the middleware adds it to the request only. The gRPC wrappers
   set it on the response.
5. `missing_config`: the README (line 27) says entries go to `logs.txt` if any
   setting is missing or empty; only the URL decides. A missing index becomes
   `welog`, missing credentials are left out.

## Proofs

Every invariant and action property of the passing runs, and both refinements, are
theorems; a run shows them on a small instance, the theorem for all values of the
constants. Each strengthening below was checked by TLC before it was proved.

### `FallbackFileProofs`, from `FallbackAssumption` (positive limit and record sizes)

- `TypeCorrect`: `Spec => []TypeOK`
- `FileIsNewestSuffix`: `Spec => []NewestSuffix`
- `OverBySingleLine`: `Spec => []AtMostOneLineOver`
- `ForgetsForRoomOnly`: `Spec => ForgetsOnlyToMakeRoom`
- `ErrorsAreCaused`: `Spec => []ErrorHasCause`

None of the invariants is inductive: `AtMostOneLineOver` after an append depends on
what the trim left, which depends on where in the old file the reader was. `IInv`
therefore states one fact per step of the call: before the trim, `toFree` is the exact
excess; in the first loop, the reader is `removed` bytes into the old contents
(`DropInv`); in the second, `logs.tmp` ends where the reader is, and what follows
its first line leaves room for the record (`CopyInv`); before the append,
everything after the first line leaves room for it (`AppendInv`). A consequence
(`StepReplace`) is that the first loop always finds the line it looks for, so an
empty `logs.tmp` is never renamed over the log, which `ForgetsOnlyToMakeRoom` demands as
well. The lemmas `ReadLine`, `WriteLine`
and `ExtendFile` say how reading, copying and appending act on gap-free runs.

The action property needs more than `IInv`: `RoomInv` adds that a trim reads only
lines of the file (`ReadInv`) and that the line it kept on top, together with all newer
ones, left no room for the record (`KeepInv`). The line dropped last is the one before
it, so the trim forgot nothing that fitted. `ErrorsAreCaused` adds to that, in `FailInv`,
that a running call has no result yet and that an undisturbed one trims only a file
without room (`CauseInv`): a line the trim cannot read is then a line of the file.

### `LoggerProofs`, for any threads, capacity, calls and restarts

- `HandledInOrder`: `Spec => []QueueOrder`
- `LoggerTypeCorrect`: `Spec => []TypeOK`
- `Conserved`: `Spec => []NothingVanishes`
- `LossIsCaused`: `Spec => []LostOnlyWithCause`
- `DropsCountedExactly`: `Spec => []DropsCounted`
- `NoticesAreExact`: `Spec => []NoticesExact`

Order needs that the worker holds one entry exactly when it is not receiving
(`PlacesOK`); then accepting appends to backlog and history alike (`SuffixAppend`),
receiving moves the head of the channel without changing the backlog, finishing an
entry drops the oldest of the backlog (`SuffixTail`), and a dead worker or a restart
empties it. `StepMoves` sums this up: to the entries that were accepted a step does
nothing, or adds one, or gives the oldest its outcome, or loses all that wait.
`LostOnlyWithCause` holds since only `Fallback` skips, and only what is too large.
Conservation follows from it with `FreshInv`, that no entry is offered twice, and
`OutcomeInv`, which extends the property from the history to all entries. Of the
counter, `StepCounts` says that a refusal and the way to `fetch_add` come and go
together. For the notices, `NumbersInv` states that the numbers announced, or held by a
thread that will announce them, were given out once each; `DueInv` that the due ones
are all among them while standard error works.

### `LoggerQueueProofs` and `LoggerSystemProofs`: the refinements

- `ImplementsLossyQueue`: `Spec => IsLossyQueue`. `StepMoves` matches the steps to those
  of the abstract queue; a refusal by the channel maps to `Refuse` because the full
  channel alone fills the abstract bound.
- `ImplementsLogger`: `SystemSpec => IsLogger`, with every step of `write_fallback` in
  the place of `Fallback`. A step of the file maps to a stutter and `EndFallback`
  to `Fallback`; `WritingInv`, that the call of a worker with an entry of `Oversized` is
  skipped and no other is, makes the result one that `Fallback` allows.
- `SystemKeepsNewest`: `SystemSpec => []F!NewestSuffix`, and `SystemOverBySingleLine`:
  `SystemSpec => []F!AtMostOneLineOver`. Whatever the logger does, the composition takes
  steps of `FallbackFile` or stutters, so the theorems about it hold (`FP`, an instance
  of `FallbackFileProofs`); `SystemAssumption` gives what they assume.
- `SystemHandlesInOrder`: `SystemSpec => []QueueOrder`, and `SystemConserves`:
  `SystemSpec => []NothingVanishes`, by refinement.
- `RecordsStayWhole`: `SystemSpec => []StoredIsWhole`
- `WrittenOnce`: `SystemSpec => []WrittenOnceInOrder`

The last two relate the parts. `RecordInv` says when the entry in the worker's hands
has its record (`PlacedInv`), that records lie in the stream in the order of acceptance
(`SortedInv`), and that each is whole in the file and in what a running trim will make
of the file (`WholeInv`, with `Intact` from `FallbackFileProofs`).

### `LoggerInitProofs`, for any threads, configurations and failures

- `SingleLogger`: `Spec => []OneLogger`
- `InitTypeCorrect`: `Spec => []TypeOK`
- `ConfigTakesEffect`: `Spec => []TakesEffect`

`OneLogger` says nothing of a thread that is about to fill the cell, so the
strengthening adds that at most one thread is inside the initialiser (`Exclusive`) and
that the cell is empty as long as one is: when `Publish` fills it, no worker exists
yet. `TakesEffect` speaks of what was sent only. `EnvInv` follows a configuration on its
way there: while nothing overlaps, the environment has it up to the variable that
`set_config` writes next, and a reader has what it read of it; `MadeInv` says that what was
expected when the last variable was read is what the logger has.

### `RequestsProofs`, for any requests, routes, ids, target calls and limits

- `RequestsTypeCorrect`: `Spec => []TypeOK`, which includes the limit of the lists
- `EachLoggedOnce`: `Spec => []LoggedOnce`
- `IdsAlwaysAgree`: `Spec => []IdsAgree`
- `EntriesAlwaysCorrelate`: `Spec => []EntriesCorrelate`
- `TargetsNeverLost`: `Spec => []TargetsKept`
- `TargetsAlwaysInTime`: `Spec => []TargetsInTime`

`ContextInv` says from which step on a request has a context and whose, `IdInv` where
the id of a context comes from (`IdOf`, by the route of the request it was made for):
then an id the code made belongs to one context.
`EntryInv` ties what was logged and answered to the step a request is at. `ListInv`
orders each list by the time of recording, below what was recorded later, and `KeptInv`
places each target call in the lists that were taken, the context's, or among the
refused: `TargetsKept` speaks of entries and is not inductive, because a list that is
taken empties the context's, which must then have nothing of the other lists.
`UntoldInv` adds that a request which ended without being logged took nothing.

Proving this found an error of the model: `Answer` chose among overlapping guards with
`CASE`, of which TLA+ does not say which branch it takes although TLC always takes the
first. It now says so with `IF`.

### `DocumentProofs`, from `DocumentAssumption`

- `DocumentTypeCorrect`: `Spec => []TypeOK`
- `FieldsNeverLost`: `Spec => []FieldsKept`
- `EnrichedOnce`: `Spec => []Idempotent`
- `TimesAlwaysAgree`: `Spec => []TimesAgree`
- `RequestsToldTruly`: `Spec => []RequestTold`
- `MetadataNeverLost`: `Spec => []MetadataTold`
- `HeadersAlwaysAgree`: `Spec => []HeadersAgree`
- `TargetsToldTruly`: `Spec => []TargetsTold`

The assumption: times are numbers; the three limits of the time arithmetic are in the
order of their true sizes; a request took less than 292 years, being measured while the
server ran; a target call may have taken any time but began before the end of the
calendar, as its `DateTime` says; headers are a list.

The state invariants are simple (`DocInv`: the document logged is the enrichment of a
JSON document; `CallInv`: an entry is built from its request; `TargetInv`: the list has
the target calls in order, up to the limit).
The argument is about one enrichment of an arbitrary document, by induction over the
24 fields of the schema. The theorems on induction in the library take a predicate as a
parameter, which the provers cannot instantiate; `SetInduction`, proved from the
well-foundedness of the natural numbers, takes the set of the steps a fact holds after.
With it: every document on the way is a JSON document and keeps what was given
(`Enriched`, from `InsertedTree`, `InsertedKeeps` and the transitivity `KeepsOn`); what no
field needs as an object is untouched (`Untouched`), so the fields enrichment reads are
the same before and after (`SourcesKept`); every field with a value is there afterwards
(`AllInserted`), with that value if its path is its own (`LeafInserted`); a document in
which all of them are there stays as it is (`Complete`). `Idempotent` follows because an
enriched document is one: of the fields, only the label depends on more than its source,
namely on what `labels` is (`LabelsKept`). The headers of a name are a recursive function
as well (`Named`), with its facts in `NamedFacts`. `HeadersAgree` and its theorem speak of
positions instead, the first or the last of a name: `NamedEnds` relates the two by the
same induction.

### Only model-checked

The liveness properties `WriteReturns`, `NonBlocking`, `Drains`, `UseEnds` and
`AnswersGoOut`: they need fairness and `ENABLED`, which are out of reach of the prover.
No module declares a RECURSIVE operator.

## Not modelled

- The example application (`src/app.rs`, `src/main.rs`) has no state of its own; the
  coverage hooks are absent from a normal build.
- Two processes in one directory: the lock does not reach that far, `NewestSuffix`
  fails, and no document promises it.
- The date in the index name, which is that of sending.
- Whether a captured body is whole: the middleware replaces one that breaks off by
  an empty one, and no document says what the handler should see.
- Whether memory for a very large channel can be allocated.
- What happens in a gRPC response stream after the wrapper has returned, which the
  code does not see either.
- tokio, axum, tonic, ureq, chrono and serde_json, which are external: `Logger` and
  `Requests` have what the code relies on.

## Plan

Proofs: what goes beyond the properties of the runs where the lemmas already carry it,
first the size of `logs.txt` in terms of the longest line it holds. The repeated
inductions of `DocumentProofs` could share more.
