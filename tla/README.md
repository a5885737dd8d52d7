# A TLA+ model of h11r

h11r is a Sans-I/O HTTP/1.1 library: a Rust core (`crates/h11r`) and a Python
binding (`crates/h11r-python`). A `Connection` never touches a socket. The
caller hands it the bytes it received and polls it for events; it hands it
messages to send and gets bytes to write. Everything that can go wrong is
therefore in the order of calls and in how the bytes were cut up, which is what
this project models.

Paths below are relative to `src/`; `core/` stands for `crates/h11r/src/`.

## Inventory

| Part | State | Operations | Hard behaviour | What makes it correct |
|---|---|---|---|---|
| Connection state machine, `core/state.rs` | state of the client actor, state of the server actor, keep-alive flag, proposed switches | `process_event`, `disable_keep_alive`, `process_error`, `start_next_cycle`, the joint rules of `stabilize` | two actors that move in any order, coupled by rules run to a fixpoint | the fixpoint exists and is always reached; the joint state stays lawful; exchanges follow one another; switching wins over closing |
| Connection and its cycle, `core/connection/mod.rs` | role, leniency, input buffer, held bytes, EOF, peer version; per cycle: decoder, writer, extension count, request kind, upgrade proposals, two 100-continue flags | `new`, `lenient`, `start_next_cycle`, `close`, `record_*` | the same fact kept in two places (proposals, writer and local state, decoder and peer state) | the copies agree in every order of calls; reuse only after a complete, reusable exchange |
| Receiving, `core/connection/receive.rs` | the decoder | `receive_data`, `hold_body_data`, `next_event_in_place`, `next_event` | input cut anywhere, EOF anywhere, bytes held by the caller, answers sent in the middle of a request, failure after a partial update | bodies arrive whole, held bytes are payload, every event makes progress, EOF is always reported, bytes beyond the message stay |
| Sending, `core/connection/send.rs` | the writer | `send_request`, `send_informational_response`, `send_response`, `send_data`, `end_of_message`, the two `*_with_body` | a complete message fails half way; the response announces persistence before the rest of the request is known | a failed call changes nothing; the announcement is kept |
| Framing and connection fields, `core/wire/fields.rs` | six flags of the codings read so far | `scan`, `framing`, `persistent`, `check_send`, `Codings::read`, `elements`, ... | combinations of fields, lists over several lines, quoted commas | the flags give the framing of the whole list |
| Buffer, section schedule, chunk syntax, `core/wire/buffer.rs`, `chunked.rs` | buffer start, scan position | `extend`, `consume`, `due`, `poll`, `parse_chunk_header`, `parse_trailers` | resumable scans, limits, number width, folded lines | the outcome does not depend on segmentation or on when the caller polls; linear cost; sizes are exact or refused |
| Head parsing and serialising, `core/wire/head.rs`, httparse | none | `parse_request_head`, `parse_response_head`, `normalize_obs_fold`, `copy_headers`, `serialize_*` | lenient parsing that loses a line; unfolding before or after the parse | a lost line ends reuse; unfolding moves no boundary |
| Header sections, `core/headers.rs` | shared bytes, ranges, cached validity | `push`, `retain`, `from_section`, `is_valid` | a cache and ranges that outlive changes | a list of fields; an invalid field is never sent |
| Targets and Host, `core/wire/target.rs` | none | `valid_request_target`, `authority_port` | forms, ports, percent triples, IP literals | accepted exactly as the grammar and the method allow |
| Value types, `core/method.rs`, `status.rs`, `lib.rs` | none | `DataPrefix::chunk_size`, status classes | number width | what is written is read back |
| Python binding, `crates/h11r-python/src/api` | queue of held `bytes` objects; pairs of a header section built on first use | the same calls; `items` | order of held and buffered bytes; threads and finalizers | indistinguishable from a connection that buffers everything; one tuple, no wait |
| Examples, fuzz targets, benchmarks, docs | | | | not modelled |

The interactions are calls: `Connection` owns a `ConnectionState`, a `Cycle` and
a `Buffer`. What the endpoint sends advances the local actor of the state
machine, what it receives advances the peer's. A failed receive poisons the
peer's actor (`process_error`); a failed send must leave no trace. The two
halves meet in three places: the state machine, the decoder (a response looks at
it to see whether the request content was read) and the 100-continue flags.
The core has no threads; the concurrency is between the peer, whose bytes arrive
at any time, and the caller, which makes any call at any time. In the Python binding
header sections are shared between threads.

`PROJECT.json` lists the hazards at the lines where they bite.

## Modules

| Module | Models | Notes |
|---|---|---|
| `State` | `core/state.rs` as operators on a record | one operator per Rust function; each rule of `stabilize` is one operator |
| `ConnectionState` | the state machine on its own | one action per call; extends `State` |
| `Lifecycle` | abstract: exchanges one after the other, and a reuse answer that is never taken back | what `ConnectionState` implements |
| `ConnectionStateProofs` | proofs about `ConnectionState` | extends `CallProofs`, which has those about the operators of `State` |
| `Fields` | meaning of the framing and connection fields | a head is a record of what `Fields::scan` reads |
| `Wire` | received bytes as symbols, and the parsers that find the next section | |
| `Cycle` | the `Connection` value and what both halves share | |
| `Receive`, `Send` | `receive.rs`, `send.rs`, one operator per method | |
| `Connection` | the composition: one action per public method | instantiates `ConnectionState` for its invariants |
| `CallProofs`, `ConnectionProofs` | proofs about the operators of `State`, `Wire`, `Cycle`, `Receive` and `Send`, and about `Connection` | |
| `EventLoop` | `Connection` driven by a caller that never stops polling | for liveness |
| `Exchange` | a client and a server `Connection`, joined by two streams that may be cut | composes `Receive` and `Send` twice |
| `FlowProofs`, `ExchangeProofs` | proofs about a stream that one connection writes and another reads, and about `Exchange` | extend `CallProofs` |
| `Dialogue` | `Exchange` with callers that do what their connections report | for liveness |
| `Caller` | what a call tells its caller, and the calls that do not receive | extends `Receive` and `Send` |
| `Delivery` | abstract: a connection that buffers all it receives, in order | what `PyConnection` implements; the operations of the core are its parameters |
| `PyConnection`, `PyConnectionProofs` | the Python `Connection`: a core connection and the queue of held objects | extends `Caller` |
| `Lines` | the resumable scan of `SectionProgress`, and what httparse does with lines | on bytes |
| `Section` | when a head, trailers or a chunk line are parsed, and the limits | on bytes; extends `Lines` |
| `Fifo`, `Buffer` | abstract queue; the receive buffer and its compaction | `Buffer` implements `Fifo` |
| `InputProofs` | proofs about `Buffer` and `Section` | |
| `Syntax` | the scanners of `fields.rs`, and the grammar they are compared with | |
| `ChunkLine` | chunk-size lines, read and written | operators only; extends `Syntax` |
| `TransferCodings` | `Codings::read` over the lines of Transfer-Encoding | operators only; ends in the framing of `Fields` |
| `Target` | request targets and Host values | operators only |
| `ObsFold` | unfolding of trailers and of response fields | operators only; extends `Lines` |
| `Grammar` | the four, fed with inputs that grow symbol by symbol | instantiates them |
| `FieldList`, `Headers` | abstract list of fields; the shared buffer, the ranges and the cached validity | `Headers` implements `FieldList` |
| `PyHeaders`, `PyHeadersProofs` | the Python `Headers`: `items` among threads and finalizers | extends `Headers` |
| `MCHeads` | the message heads the instances are built from | |
| `MCConnection`, `MCEventLoop`, `MCExchange`, `MCDialogue`, `MCPyConnection`, `MCBuffer`, `MCGrammar`, `MCPyHeaders` | small instances | |

**Correspondence.** `conn` is the Rust struct, field by field. A Rust method
that returns `Result` is an operator that returns the connection after the call
together with the outcome, so that what a failing call has already changed is
visible. `last` is how the last call ended. `announced`, `body` and `final` are
history variables: what the response sent in this cycle said about persistence,
what the reader of the events has been given of the current body or chunk, and
whether a head received on this connection ruled out a next message. No action's
effect on `conn` depends on them.

**Settings.** `Connection`, `Exchange` and `PyConnection` run in a setting, chosen
once, in the initial state, from the constant `Settings`: the local role, leniency, what the
peer may send, what the caller may try to send. One run thus covers both roles and several
mixes of messages without the product of all of them. A call whose outcome is a record
of several parts is written `\E p \in {outcome}`, so that the outcome is computed once.

**Bytes.** Input is a sequence of symbols. A symbol is a piece of the byte stream
that matters as a whole: a byte, an invalid byte, a line end, a CR that no LF has followed, the digits of a chunk
size, a piece of a chunk extension, a field line, or (the rest of) a message
head. It counts one in every length, and body data takes any symbol as payload,
so a head inside a body is body. `ReceiveData` appends one symbol at a time and
polls may come between any two: that is every segmentation at symbol
boundaries. What happens inside a symbol (a CRLF that arrives in two pieces, a
head cut in the middle of a line) is abstracted: a `byte` in front of a head stands
for a part of its first line that arrived earlier. A CR that comes last is a symbol of its own
because the limit treats it apart: an unfinished chunk line is measured without it
(`incomplete_line_len`), so `LimitsHold` allows one byte beyond `max_head_bytes` there and nowhere
else. How the line goes on when its LF comes is in `Section`, on bytes.

**Sections.** `SectionProgress` decides when an unfinished section is worth
parsing. `Connection` lets it decide freely, except that it must parse when the
terminating line is there, at EOF and beyond the limit; its properties hold for
every schedule. `Section` models the schedule itself on bytes and shows that it is
one of those: `PollsAgree` says that a poll concludes what all the bytes at once
would, and that it never leaves a finished section waiting.

**Two ends.** In `Exchange` both callers make any call that their connection
accepts, except that a server does not answer before a request has begun (a
server may send 408 on an idle connection, and a client whose request crosses it
takes it for its answer, as it does in HTTP). `pending` holds what one side sent
and the other's events have not yet told; `garbled` records an event that told
anything else; `ahead` counts exchanges that one side has begun and the other has
not. A cut loses the bytes under way; all that is sent after it is lost. The
transport and the callers are not code of the repository and are marked external.

**Bytes of the small parsers.** `Section`, `ObsFold`, `Syntax`, `ChunkLine`,
`TransferCodings` and `Target` work on bytes, reduced to those that the code tells
apart: a token byte of each kind, a digit of each kind, every delimiter, one byte
that is never allowed. In `Grammar` a value grows by one symbol per step and
the properties compare the code's reading with the grammar's in every state, so the run
covers all values up to its length. Several starts put the growth at the places where it matters. The grammar is stated
as derivations (some way to cut the value exists), not as another scanner.

**Left out of `Connection`.** Messages of errors and suggested status codes (but
`Section` has those of the limits), reason phrases, the number of header fields,
`trailing_data` and the other getters (they change nothing).

## Runs

Deadlock is checked too, since every call returns and another is possible, except
where an input or a list only grows up to its bound (`grammar`, `headers`).

| Run | Instance | Shows |
|---|---|---|
| `connection_state` | the whole state machine, both local roles, all events; no bound needed | `TypeOK`, `Stabilized`, `ExchangeOrder`, `SwitchDecision`, `CompleteIsReusable`, `ErrorKeepsLocalMessage`, and that it implements `Lifecycle` (`Exchanges`) |
| `body` | a server that reads sized and chunked requests; a server under limits, with extensions, trailers and lone CRs up to and beyond `MaxHead`; a client that reads sized, chunked and close-delimited responses; up to 3 buffered symbols and 2 held bytes | `TypeOK`, `ReaderMatchesState`, `HeldIsPayload`, `BodyAddsUp`, `LimitsHold`, `EventsProgress` |
| `reuse` | a server: HTTP/1.0 and 1.1 requests, with content (sized, chunked) and without, `close`, `keep-alive`, HEAD and an invalid one, responses in every framing, two of them refused; a lenient client: responses with every reason to close, among them faulty framing without content, unknown codings and a dropped field line | `LifecycleInvariant`, `WriterMatchesState`, `AnnouncementKept`, `FinalHeadEndsReuse`, `LocalErrorChangesNothing` |
| `ends` | CONNECT, Upgrade, both, with Expect, with close, with an invalid Upgrade field, seen from either side, answered by 101, 426 or a final response, and early bytes of the next protocol; the transport ends anywhere in a message of each framing | `ProposalsAgree`, `NoWaitAfterAnswer`, `TrailingDataKept` and, under fairness, `DrainsAfterEof` |
| `exchange` | client and server in four settings: sized and chunked requests with responses in the three framings, trailers and closes; either stream cut at any symbol; every wish for persistence in both versions, HEAD and 204; CONNECT, Upgrade and Expect with 100, 101, acceptance and refusal | `Understood` (what one side sends the other accepts and reports as sent), `SidesAgree` (on reuse, on the switch and on the wait for 100 Continue) |
| `dialogue` | callers that wait, answer, reuse and close as told | `ExchangesEnd`, under fairness |
| `python` | a server and a client; objects of one to four symbols, held or copied in every mix, sends at any time | `QueueIsHeld`, and that it implements `Delivery` (`Delivers`) |
| `section` | up to 6 bytes of CR, LF, an ordinary and an invalid byte; limit 4 | `LinearWork`, `PollsAgree`, `ConclusionsStand` |
| `buffer` | up to 7 bytes in pieces of one to three, taken in any portion | `AmortizedLinear`, `WasteBounded`, and that it implements `Fifo` (`IsFifo`) |
| `grammar` | an 8-bit `usize`: every length written, lines of up to 4 symbols after three starts; Transfer-Encoding in two lines, 4 symbols after the starts; targets of 4 symbols after five starts, ports at 65535 and 65536; every trailer section of up to 7 bytes of CR, LF, space and an ordinary byte | `ChunkLinesExact`, `FramingExact`, `TargetExact`, `TrailersExact`, each a conjunction of properties that `ChunkLine`, `TransferCodings`, `Target` and `ObsFold` define |
| `headers` | up to 4 calls on a section; three threads and four reads of one made by at most one call | `OneTuple`, that it implements `FieldList` (`IsFieldList`) and, under fairness, `ReadsReturn` |
| `continue` | an empty chunked request with `Expect: 100-continue` | violates `WaitingClientIsInBody`, see Findings |

**Bounds.** `MaxInput` bounds the buffer, `MaxHeld` the held bytes, `MaxData` one
piece of sent body, `MaxHead` is `Limits::max_head_bytes`. The number of calls and
of exchanges is not bounded. Two exchanges that touch meet within two symbols (the
rest of one message and the head of the next), so reuse and switching run with
`MaxInput = 2`; the longest thing a decoder looks at together is a size line with an
extension and its line end, so bodies run with three. `MaxHead`
is 2: in the body run it is smaller than the buffer, so heads, lines and
trailers exceed it. A body of length 2 is enough to be
cut once and, held, to be handed over in two pieces.
In `Exchange`, `max_wire` bounds what is under way and buffered in one direction: seven
symbols are a chunked message with data and trailers, three are the end of one
message and the head of the next. The bounds of the byte-level runs are in the table; the
section run holds two sections and one byte beyond the limit, and the
schedule doubles twice below it. `Bits = 8` gives chunk sizes two digits and every
value at and beyond the word's limit; the code treats all widths alike. `MaxCalls` bounds `headers` because removed bytes
stay in the buffer; `MaxWrapped` keeps the product of lists and reads small, as a read
does the same whatever the list.

**Fairness.** `Spec` has none. `LoopSpec` assumes that polls go on for ever: a
caller loops on `next_event` until it is told to stop, as the examples do. One of the
two polls is always possible (`next_event` when nothing is held,
`next_event_in_place` otherwise), so the assumption excludes no reachable
state. The peer and the transport get no fairness: EOF may never come, and
then nothing is promised.

`DialogueSpec` is about two ends, so the transport delivers what was written. Each
caller keeps polling, and makes a call that its connection accepts when it is its
turn; a server that could answer early need not, unless its connection says that
the client waits for 100 Continue. The last point is what the property is about: with a
server that always answers at once, a connection that forgot the wait would not be
noticed. The fairness of calls and polls is weak fairness, written with the
enabling condition as a state predicate.

In `PyHeaders` a thread that is in a read is scheduled. A finalizer need not run.

## Findings

`continue`: `finish_peer` (`core/connection/receive.rs:468`) does not clear
`waiting_for_continue`, while `peer_data` and the sender's `end_of_message` do. A
server that has read a complete chunked request without data still answers
`true` to `client_is_waiting_for_100_continue`, documented (`mod.rs:158`) as
"Whether the client has sent `Expect: 100-continue` but has not begun its
body". The client's own connection answers `false` for the same exchange. The flag is
gone with the response or the next cycle.

A remark that is not a finding: `keep_alive` may be true on a client with
unsolicited bytes after a complete response, and `start_next_cycle` then refuses.
The documentation of `start_next_cycle` says so.

## Proofs

Every theorem holds for every value of the constants that satisfies the named
assumptions of the modules: `ConnectionAssumption`, `CallerAssumption`,
`MaxHeadAssumption`, `ExchangeAssumption`, `BufferAssumption`, `SectionAssumption`,
`HeadersAssumption` and `PyHeadersAssumption`. They say that the bounds are numbers, that pieces are
sequences and that what the peer and the caller can send are heads and lengths of the right
type. Two conjuncts of `ExchangeAssumption` say more: a head that the sender's checks pass is one that the
parser accepts, and trailers are shorter than the section limit. A head or trailers too long for the
limit of the peer are refused there (`LimitsHold`), which is no misunderstanding. The runs
satisfy all of them. Bounds of the runs (`MaxInput`,
`MaxHeld`, `max_input`, ...) may thus be arbitrarily large, bodies and inputs
arbitrarily long, and heads any of `MessageHeads`.

**State machine** (`CallProofs`, `ConnectionStateProofs`; no assumption).
`StabilizeReachesFixpoint`: from any value of the state, one pass of the loop in
`stabilize` reaches a fixpoint, which allows the model, and a reader, to treat the
`loop` as a function. All invariants and the action property of the run
`connection_state`, and `ImplementsLifecycle`: `Spec => Exchanges`.
None of the invariants is inductive alone. The inductive invariant `IInv` is the
conjunction of `Stable` (what each rule of `stabilize` leaves behind) and `Joint`
(the lawful pairs of actor states, with three strengthening conjuncts that say when
a server must close, that a half-switched connection keeps its proposals, and that a
failed client has given up keep-alive). A call moves one actor, which may break
`Joint` until `stabilize` has run; the state in between satisfies the weaker
`Relaxed`, and `PassRestoresJoint` shows that `stabilize` gets from `Relaxed` back to
`Joint`. Each rule is first turned into a relation (`ResolveStep`, `RequireStep`,
`PropagateStep`) so that the solver composes three small steps and not one large
expression. The state space is finite, so the run is already exhaustive; the proofs
say why, and their lemmas, stated for any state, carry the proofs about `Connection`.

**Connection** (`CallProofs`, `ConnectionProofs`). All eleven invariants and three
action properties of the runs `body`, `reuse` and `ends`, for any setting, any order
of calls and any segmentation. `CallProofs` has one lemma per operator: what it returns for any connection
that is `Sound`. `Sound` is `Coherent` (the state is lawful, the writer follows the
local actor, the decoder has a shape that its kind allows, the two copies of the proposals
agree, the wait for 100 Continue matches the states) together with: the decoder is inside a body while
the peer is, held bytes fit the payload, extensions fit the limit. The invariant `Inv` of
`ConnectionProofs` adds what relates the connection to the history variables:
`BodyFits` (what was delivered and what the decoder still expects add up to what was
announced) and `WordKept`. The latter strengthens `AnnouncementKept`: a server that
announced persistence has a request behind it of which at most a sized body is unread, and
all of that body has come, held or buffered, so nothing that follows can fail and take
the word back. That a failed send changes nothing rests on `Restored` putting
back state and cycle, which are all that the parts of a complete message change (`OnlyLocal`).

**Exchange** (`FlowProofs`, `ExchangeProofs`). `ExchangeUnderstood` and `ExchangeSidesAgree`:
`Spec => []Understood` and `Spec => []SidesAgree`, for any heads, bodies and trailers, any order of
calls, deliveries, closes and cuts, and any number of cycles. Neither property is close to inductive:
that a poll tells what was sent depends on every symbol between writer and reader, and that reading
them cannot fail depends on what the heads among them say. The proof has three layers.

- A *flow* (`Flows`) is the whole history of one direction: the symbols written, the items said and,
  between any two symbols, the *place* where a reader stands (what it is reading, how much of it is to
  come, how many items it has told). `Passes` says which symbol leads from which place to which.
  That is the wire format as a relation, without a reader or a writer. Each call that sends is shown to append
  symbols that lead from where the writer left its reader to where it leaves it now, past exactly the items of
  the call (`DataWrites`, `EndWrites`, `RequestWrites`, `ResponseWrites`, `InformationalWrites`), and each poll
  to follow the places and to tell the items on the way (`BodyReceipt`, `HeadPollReceipt`). A body
  or a trailer section of any length is one `Lead`, by least counterexample.
- A *stream* joins a writer, the bytes under way, the reader's buffer and the items pending by a flow
  with marks: how far it was read, has come, was written; was told, is due, was said. What a cut takes is
  written and never comes. `Stream` is kept by writing, delivering, cutting and polling.
- `Accord` joins the two ends by a stream in each direction as long as its reader follows it, and adds what the
  streams cannot say. `Phase`: the ends are at most one cycle apart, and the one behind has said or read nothing that
  forbids reuse. `UpMarks`: the only head under way to the server is that of the client's request, and only until the server
  reads it. `DownMarks`: each response under way is one the client will accept, the final one is the last, both ends will
  draw the same conclusion from it on reuse and on a switch, and a client that waits for 100 Continue while the
  server does not has the answer under way. `ServerFault`, `ClientFault`: what excuses an error. `Sound` of both ends
  comes from `CallProofs`.

`Inv` is `Accord` of the variables with `~garbled`. There is a lemma for each action and end (`SendRequestKeeps` to
`PollServerKeeps`), and `InvNext` puts them together. The invariant quantifies over histories that the model
does not record, so TLC does not check it; what TLC checks are the two properties.

**Buffer** (`InputProofs`). `AmortizedLinear` from `moved + Len(bytes) <= total`
(every byte is still stored or was discarded by a compaction that moved no more than it
discarded), `WasteBounded`, and `BufferIsFifo`:
`BufferSpec => IsFifo` with the live bytes as the queue.

**Section** (`InputProofs`). `LinearWork`, `PollsAgree` and `ConclusionsStand` for every
limit, every number of bytes and every schedule of polls. `Place` says what a scan
position knows of the bytes before it, `Undecided` that the bytes scanned hold no end and those parsed
no fault.

**Python binding** (`PyConnectionProofs`, `PyHeadersProofs`). `QueueIsHeld`; its invariant adds
`Sound`, because an object that left the queue would be lost if the core refused it,
and the core accepts it because held bytes fit the payload. `QueueIsInvisible`:
`Spec => Delivers`. The mapping puts the queue in front of the buffer. `At(c, i)` is a
connection whose received bytes are elsewhere, and each send is shown to commute with it
(`SendDataAt`, `SendResponseAt`, ...): a send looks at state and cycle, and a response also
at how many bytes have come, which is the same for both. The calls for which that fails,
a request and `start_next_cycle`, are refused while there is a queue, since then the peer is in
its body. `InPlaceIsPoll` shows that handing over an object does what polling it
would, chunk flags included. `OneTuple` holds for any number of threads and
of reads within reads.

**Header sections** (`PyHeadersProofs`). `HeadersAreFieldLists`: `PySpec => IsFieldList`, for
sections, names and values of any length over `Symbols`. The invariant is `Intact`: every range lies
within the bytes, and a cached validity of true means that every field is valid. Without
the first, bytes that a later `push` appends could show in an older field. One lemma per
call says what it does to the pairs of `iter`: `PushAppends`, `RetainSelects`, `ReceiveLists`
(the ranges, moved by `copy_section`, still hold the names and values that the parser found) and
`SetOptionLists`. The last needs what `elements` returns: `Between(v)`, the trimmed texts between
commas, described by their ends (`Gap`) and not by a scan; then what `Join` writes is
split into the same options again (`JoinLists`), because an option is trimmed and has no comma, and
is a valid value when the old ones were. `HostIsFirst` is about `serialize_request`.

**Recursive functions.** What `FlattenSeq`, the loop of `SectionProgress::poll`, `InOrder`,
`elements`, `Concat` and `SectionBytes` compute is proved by the least counterexample: the set of
indices where a fact fails has a least member (`LeastExists`, from well-foundedness), and the
function's equation refutes it. That a recursive function exists at all is `RecursionExists`.

**Only model-checked.** Liveness (`DrainsAfterEof`, `ExchangesEnd`, `ReadsReturn`), which the prover
does not treat. The four properties of `Grammar`: they compare scanners with derivations over strings of every
length, which needs induction over data for each scanner.

## Not modelled

- httparse: modelled by what the code relies on (`Wire`, `Lines`), not translated.
- `core/method.rs`, `status.rs` and the event types of `lib.rs`: values without
  state. What the control depends on is in `Fields`.
- `valid_protocol`, `protocol_matches`, `validate_trailers`, reason phrases and
  `dropped_lines`: their verdict is an attribute of a head. Each is a single pass over
  one value; the state they lead to is modelled.
- Python `events.rs`, `buffers.rs`, `mod.rs` and the argument conversions of
  `connection.rs`: conversions between Python and Rust values, comparison and printing. A
  failed conversion raises before the core is called; memory exhaustion in the
  conversion of an event is listed as a hazard without a property.
- A server's trailers (`normalize_folding` false) in `ObsFold`: httparse sees the bytes as they came
  and refuses a folded line, so there is nothing to unfold.
- The parse that completes a section in `LinearWork`: it covers the section once more, and a new count begins.
- Examples, fuzz targets, benchmarks and documentation tooling.

## Plan

Done: all modules above, and the proofs listed.

What is left is the grammar: a scanner of `Syntax`, `ChunkLine`, `TransferCodings` or `Target` at a time, written as
a recursive function over positions and proved equal to its derivation by least counterexample, as `Section` is.
