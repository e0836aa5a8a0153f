# Verification of apple-purchase-receipt-verifier

TLA+ models of the parts of this repository that decide whether a purchase is
genuine and of the parts that run that decision concurrently, with TLC runs on
small instances and TLAPS proofs. Paths below are relative to the repository.

## The system

| Part | State it keeps | Operations | Interacts through |
|---|---|---|---|
| Rust core, receipts (`rust/src/verifier.rs`, `receipt.rs`) | one call's verdict so far, the lazily parsed attribute SET, the lazily walked bag, the lazily read clock | `verify_receipt`: outer checks, each SignerInfo in turn, chain, markers, signature, payload | calls certificate paths, CMS and the host's clock |
| Rust core, endpoint (`endpoint.rs`) | the same call | `verify_receipt_endpoint`: verdict to status code, environment routing, dates of the answer | calls the receipt path with the same clock |
| Rust core, JWS (`jws.rs`) | one call | `verify_signed_data`: header, `x5c`, payload date, fixed path, signature | calls certificate paths and the clock |
| Certificate paths (`rust/src/path.rs`, `rust/openssl/src/path.rs`, `certificate.rs`) | accepted, pending and issuing certificates of the walk | top-down walk, `linked_above`, one OpenSSL run per anchor, verdict policy | OpenSSL's `X509_verify_cert` |
| `aprv serve` (`rust/server/src/http.rs`, `main.rs`) | connections, three semaphores, blocking tasks | accept, admit, read a body, run a worker, answer, shut down | HTTP clients, tokio, the instance pool |
| Instance pool of the server (`runtime.rs`) | a locked vector of wasm instances | pop or instantiate, call, push or drop | the guest |
| Supervisor (`java-wasm`, `ServerProcess`) | the child, its generation, recent starts, `stopped` | `target`, `start`, `recover`, `stop` | the operating system, the child's stdin and stdout |
| Connection pool (`java-wasm`, `ServerConnection`, `HttpConn`) | idle queue, its counter, `closed` | `send`, `keepIdle`, `close` on any thread | the supervisor, the child over HTTP |
| Guest pool (`java-wasm`, `GuestPool`) | idle deque, its counter, `maxInputBytes` | `call`, `acquire`, `fresh`, `release` | wasm guests |
| Payload decoding (`receipt_payload.rs`, `rust/openssl/src/payload.rs`, `walk.rs`) | the payload so far | header walk, attribute SET, fields and raw attributes, purchases, JSON | the receipt path before and after the signer is trusted |
| CMS envelope (`rust/openssl/src/cms.rs`, `envelope.rs`, `envelope.c`) | the parsed envelope | walk, shallow decode, limits, full decode, one SignerInfo's signature | OpenSSL's CMS |
| base64, dates, JSON (`base64.rs`, `datetime.rs`, `json.rs`) | none | conversions, twice: in the core and in `java/` | `jiff`, serde_json |
| Configuration and roots (`config.rs`, `roots.rs`, `rust/server/src/roots.rs`) | the anchors | five ways roots are given, one list of anchors | the guest ABI, the C ABI, the server's `/v1/info` |
| C ABI (`rust/ffi`) | strings handed over, the caller's out-pointers | the exported calls and the two frees | C callers |
| Guest ABI (`rust/bindings`) and Go's host (`go/`) | one verifier per instance, its return area; a `sync.Pool` | `init`, the verify exports; take, copy, call, read, keep | the hosts |
| `aprv` commands (`rust/server/src/main.rs`, `runtime.rs`) | one process | verify, info, precompile, serve up to listening | stdin, stdout, the exit status |
| Precompiled components (`manifest.rs`, `build.rs`) | a code file and its manifest | write both, check both, embed, load | the file system, the compiler |
| Server engine around a verifier (`java-wasm`, `ServerVerifier`, `ServerSources`) | Holder, its lock, the Reaper's set | open once, `close()`, reap, shutdown hook | sources, children, the collector |
| Binary cache (`java-wasm`, `ServerBinary`) | a directory shared by JVMs | install under two locks, check before a start | the file system, the network |
| Wrappers in Python, Ruby, PHP | a pool of slots, a queue, a transport | the same calls in each language | the guest ABI, `aprv` |
| Wrappers in Swift, .NET, Node | a pool each | the same | the guest ABI |
| Java implementation (`java/`) | none shared | the same decision on another PKIX library | |

What is hard in it:

* the bag of certificates and the list of SignerInfos are unsigned, so every
  order and mixture has to give the right verdict, and OpenSSL builds one chain
  per anchor without backtracking;
* faults of the host (a clock that panics, a panic of the library) must never
  read as a verdict about the input;
* the Java pools keep a queue and a counter in two objects updated apart, with
  `close()` running alongside and a child that may die at any time;
* the server holds permits over awaits that a timeout or a disconnect can end,
  and starts blocking work that outlives its request;
* hostile octets are walked, counted and cut by rules that have to agree with
  what OpenSSL, a second decoder or a second language does with the same octets;
* files are checked by one reader and used by a later one: the cached binary,
  the precompiled component, the roots a server was asked for once.

`PROJECT.json` lists these hazards at their lines, with the properties that
cover each.

## Modules

| Module | Models |
|---|---|
| `Vouching` | what it means that anchors vouch for a certificate: the least set closed under issuing |
| `TopDownWalk` | `authenticated_top_down` as a state machine, one action per round; with its proofs |
| `CertPath` | certificates as records, the pairing rules, the walk as a function, `linked_above`, `verify_path`, `checked_path`, `receipt_path`, `validate_pair` |
| `ReceiptVerify` | `verify_receipt` and the endpoint over `CertPath` |
| `JwsVerify` | `verify_signed_data` over `CertPath` |
| `VerificationProofs` | what the functions of `CertPath` return, and proofs about verdicts, of `ReceiptVerify` and `JwsVerify` |
| `ServerProcess` | the supervisor |
| `ServerConnection` | calls and `close()` over the connection pool; extends `ServerProcess`, so every step of the supervisor is a step of the composition |
| `ServerConnectionProofs` | proofs of both |
| `AprvServer` | connections, admission, workers and instances of `aprv serve` |
| `AprvServerProofs` | its proofs |
| `CountingLemmas` | lemmas for those: how many threads are at a place, sequences without repeats, least elements, recursion |
| `InstancePool` | abstract: instances made for a call, used by one call at a time, kept or gone; with its proofs |
| `GuestPool` | java-wasm's lock-free pool, shown to implement `InstancePool` |
| `PythonPool`, `RubyPool` | the two pools, shown to implement `InstancePool` |
| `Pools` | the three pools as one specification, which TLC checks as it is |
| `PoolProofs` | its proofs |
| `SignedData` | the CMS envelope: walk, shallow decode, limits, full decode, the signature of a SignerInfo |
| `HeaderWalk` | the header walk of `walk.rs` over raw octets, its recursion as a stack |
| `ReceiptPayload` | attribute SETs, the decoding of a payload, its JSON and java-wasm's reading of it |
| `JavaReceipt` | extends `ReceiptPayload`: the Java decoder and both endpoints' answers |
| `Dates` | the date grammar, Pacific offsets and renderings of the core and of Java |
| `Base64` | the strict decoders of the core and of Java |
| `Claims` | the date and the environment of a JWS payload, as the core and Java read them |
| `JsonText` | what `json.rs` takes of a text: the object's map of raw values, and the strings read from it |
| `Configuration` | every way roots reach a verifier |
| `CAbi` | the C ABI, its out-pointers and strings |
| `GuestHost` | instances of `aprv.wasm` and the Go host over them |
| `RequestBody` | one request's body, from the caller's text to the status |
| `AprvCommand` | one run of the `aprv` binary |
| `Precompile` | precompile, the build, the embedded component |
| `ManagedStart` | the handshake of a managed child, both processes step by step |
| `EngineHolder` | the Holder, its sources, `close()`, the Reaper and the hook |
| `BinaryCache` | installs into and starts from a shared cache directory |
| `PhpTransport` | PHP's CLI and HTTP transports |
| `Boundaries` | what `MCBoundaries` and `BoundaryProofs` share: the components at the boundaries, each with its own variables, and their properties |
| `Decoders` | the same for `SignedData`, `ReceiptPayload` and `Claims`, shared by `MCDecoding` and `BoundaryProofs` |
| `BoundaryProofs` | proofs of the components of both, and of `EngineHolder` |
| `MCTopDownWalk`, `MCServerConnection`, `MCAprvServer` | instances of one module for TLC |
| `MCVerification` | one call of the core: a receipt, the endpoint or a JWS |
| `MCDecoding` | every decoder and the inputs it is run on: `HeaderWalk`, `SignedData`, `Base64`, `Dates`, `Claims`, `JsonText`, `ReceiptPayload`, `JavaReceipt` |
| `MCBoundaries` | `Configuration`, `CAbi`, `GuestHost`, `PhpTransport`, `RequestBody`, `AprvCommand`, `Precompile`, `BinaryCache` |
| `MCLifecycle` | `EngineHolder`, `ManagedStart`, and `AprvServer` for what must end |

`Pools` and the last four are unions: their components share no state in the code, so one
behaviour runs one of them (`api`, `decoder`, `boundary`, `pool`, `life` says
which, chosen in Init) and the variables of the others stand still. What is
checked of a component is what a run of it alone would check. The assumptions on
the constants of the instantiated modules are operators there (`CAbiAssumption`,
...), which the union states as ASSUMEs for the values it passes.

How state and actions correspond to the code:

* **CertPath.** A certificate is a model value; `X509[c]` holds the fields the
  code tells apart (names, keys, validity, flags, markers). A signature is the
  name of the key that made it. `find_issuer` and `build_chain` stand for
  OpenSSL's path building as `path.rs` configures and documents it. Path length
  constraints are not told apart from the CA flag.
* **ReceiptVerify.** One behaviour is one call. `pc` walks through
  `verify_envelope`: `Begin` (outer checks), `Signer` (the certificates the next
  SignerInfo names), `ChainInstant` (date or clock, then the walk, once),
  `VerifyFirst`, `VerifyOther`, `SignerFailed`, `NoSignerPassed`,
  `decode_signed_payload`, and `Respond` for the endpoint. `Now` and `ClockPanics` are
  `Clock::now`. `Panic` may happen before any answer. CMS, base64 and the
  attribute SET are represented by whether they parse.
* **JwsVerify.** The same for `jws::verify`. The environment decides no verdict;
  it is read in `Claims`.
* **ServerProcess.** The methods are synchronized, so each is one step, except
  `stop()`, which holds the lock while it waits (`stopping`). A child is its
  generation number. `alive` is what the operating system runs; `killed` records
  children that `start()` destroyed while they ran.
* **ServerConnection.** Each read of `closed`, each queue operation and each
  counter update is a step. `open[c]` is the child a connection leads to,
  `dropped` the idle connections whose other end the server has closed.
  `stale` is history: the attempts of a call that closed connections cost it.
* **TopDownWalk.** One action is one round; `keys_used` are the certificates
  whose keys check a signature in it.
* **AprvServer.** `conn[c]` is where a client's connection is, `task[k]` where a
  blocking task is, `places`, `uploads` and `permits` are the semaphores with
  tokio's FIFO queues. `accept_failed` is an accept that returns an error, and
  `Traps` a guest call that ends its instance.
* **GuestPool.** As ServerConnection, with guests.
* **SignedData.** A member of the envelope is its tag and its parts; a signature
  is the key and what it covers, so that a signature over a payload SET can be
  tried as one over signed attributes. `built` and `keys` count what the full
  decode allocates, `full_decodes` how often it runs.
* **HeaderWalk.** Octets are numbers; each step of `Walker::value` is an action
  on a stack of open values. `header` is `ASN1_get_object`: tags of several
  octets, lengths in short and long form with or without leading zeros, and
  indefinite ones; `is_long_form` refuses what the payload's walk refuses, a high
  tag or a header of more than `2 + 4` octets. The property's own definition of
  the grammar does not call `header`: it asks where octets can be cut into an
  identifier, a length and a content. What OpenSSL takes as the contents of a
  primitive is external.
* **ReceiptPayload, JavaReceipt.** A value is its kind, form and content; the
  tables `AppFields` and `InAppFields` give each attribute type its field and
  decoder. Integers keep their bounds, scaled. Sorting and put-back of the Java
  decoder are modelled as they are. `JavaReadsTheSame` compares the decoded payload
  and the endpoint's answer rendered by each (`render`, `writeReceipt`).
* **Claims.** A payload is the sequence of its members. The core keeps the last
  value of every name and then reads the ones it needs, Java takes the members as
  they stream past; a repeated name, a number that is no instant (a fraction, an
  exponent, one clamped at 2^63) and the first place that names an environment
  are where the two could part. They do part, as `DECISIONS.md` says, on a name
  with a lone surrogate escape.
* **JsonText.** A text is a sequence of lexemes. `json.rs` reads an object into a
  map from each of its names to the raw text of its last value; serde_json, which
  it calls, is external and modelled by what `json.rs` asks of it: names of the
  object are built, so that a lone surrogate is refused there, and values are
  skipped with a stack, without a limit on nesting, names or numbers. `string` and
  `strings` read a value later.
* **Dates, Base64.** Dates are fields and instants <<second, millisecond>>;
  transitions are a table, and so are the rules of Pacific time written by hand
  that the tests keep as a reference (`pacific.rs` under `docs/evidence`). A
  character is its value in a `W`-bit alphabet, a special of either alphabet,
  padding or foreign.
* **Configuration.** Bytes are what they are: a DER certificate (with or without
  trailing bytes), PEM items, empty or anything else, nested as they occur. One
  step is one way to make a verifier; the outcome is its anchors and what is
  reported of them.
* **CAbi.** One C thread that keeps the documented contract; a string is a
  number, `strings` those not freed.
* **GuestHost.** An instance is its verifier, its input buffer, its return area
  and its clock (`abi/src/lib.rs`); each goroutine's call is split at every
  export it uses. `misused` records an instance that trapped for the order.
* **RequestBody.** Only lengths: the frames of a body, the caps, what is announced.
* **AprvCommand.** Straight-line code: `pc` goes through the command, `cause`
  records where a fault happened. The component is the embedded one, which
  `Runtime_new` may refuse, or one from a file (`load_file`).
* **Precompile.** A file's content stands for its hash. Writes truncate first,
  so a crash leaves a prefix. `rewritten` is history: whether the code file was
  written after the build script had read it.
* **ManagedStart.** Two pipes between two processes; either may die at any step.
  `ServerProcess` takes `start()` as one step, which this module opens up.
* **EngineHolder, BinaryCache.** Java monitors and file locks are variables; the
  code inside them is several steps. Every operation of the cache on a file may
  fail, the delete in `finally` too (`kept`). `ran` is what a thread's last start
  ran, `late` the threads whose file changed between their check and their start.
* **PythonPool, RubyPool.** One action per critical section or queue operation.
  Ruby's cap is compared and acted upon in two.
* **PhpTransport.** The server or the binary behind a transport may be replaced
  at any time, and the roots file removed. `atOpen` is the aprv that was asked when
  the transport was opened; an answer carries the one that gave it (`by`).

## Runs

| Run | Module | Shows |
|---|---|---|
| `walk` | `MCTopDownWalk` | over every bag and issuing relation on the instance's certificates: `OnlyVouchedKeys` (no key is used that no anchor vouches for), `WalkIsExact` (nothing vouched for is missed, although a round only looks at the last round's issuers), `Ends` |
| `verification` | `MCVerification` | `AcceptedMeansGenuine` against a definition of a genuine receipt that knows nothing of the path builder and judges validity to the millisecond, and no key is used before its chain passed; `OnePassingIsEnough`; `StatusTellsTheVerdict` (status 0, the denials, the one clock reading); for a JWS `AcceptedIffPinned` against a link-by-link definition: what is accepted is pinned, and an ordinary pinned chain is accepted |
| `decoding` | `MCDecoding` | `WalkAcceptsTheGrammar` (the walk accepts exactly the encodings of the grammar within the limits, and its helpers find the children and octet strings that are there; `json.rs` takes exactly the objects of the JSON grammar, however deep, with each name's last value); `LimitsBoundTheCostAndRefuseNoMore` (the shallow counts are never short, refuse nothing the full decode would take, and a blob is fully decoded once at most), `AnsweredForIsSigned`; `EveryAttributeKept` (also through the JSON), `JudgedAtTheReportedDate`; `JavaReadsTheSame` (sorting first and putting back gives the same payload and the same rendered answer, and streaming the claims of a JWS the same date and environment), `JavaAgrees`, `DecodersAgree` (two implementations, one answer) |
| `boundaries` | `MCBoundaries` | `TrustsExactlyTheNamed` (the anchors are the certificates named, in order, or the configuration is refused, and the fingerprints reported are theirs exactly when no PEM text is inside a PEM block), `HandedOverOnce` (no string leaks, none is freed twice), `NeverOutOfOrder` (no export traps for its order), `AnswerIsForTheWholeInput` (cutting changes no answer), `JudgedAsAsked` (which judgements a replaced server or binary can change, and how), `KeptConnectionIsInStep`, `StatusTellsWhatStdoutHolds`, `ReportedIsRunning` (a binary reports and embeds what was checked, unless the file was rewritten meanwhile, and runs only code for itself in any case), `OnlyPinnedIsExecutable` (also of what is started) |
| `connection` | `MCServerConnection` | `OneOwner`, the supervisor's `NoOrphan` and `LiveChildNotKilled` in the composition, and `CloseReleases` (a close that has begun ends with nothing held) |
| `lifecycle` | `MCLifecycle` | `OneServer`, `Released` (every way a verifier ends stops its server for good), `ChildFollowsParent`; of `aprv serve`, `EveryRequestEnds`, `ShutdownEnds` |
| `server` | `MCAprvServer` | `OneInstancePerWorker` (and none shared, none after a trap), `AnswersMatch` |
| `pools` | `Pools` | `ImplementsPool`, `ImplementsInstancePool`: java-wasm's and Python's pools refine `InstancePool`, whose promises are proved; `ImplementsLooserPool`: Ruby's does with the number of callers as its limit; `CounterCatchesUp` (an idle slot is not lost for good), `AtMostSizeInstances` |
| `bag_order`, `stale_connections`, `rewritten_file`, `ruby_idle_cap` | | violations: the disagreements below |

Every property has a mutant, a plausible slip in one mapped definition (marked
"Mutant" or "A slip" where it is defined), with which the same run fails.

### Disagreements between documentation and code

* `bag_order`. The comment of `linked_above` says that, narrowed to the
  certificates that really sign the path, the bag's order no longer decides it.
  When one intermediate name and key is certified under two pinned roots, both
  certificates sign the path and both stay. The chain built for the first root
  takes whichever comes first; if that one leads to the other root the run
  fails, the other root's run passes, and the path that is reported, with its
  marker verdict, depends on the order. Only certificates pinned roots really
  issued can cause it, and it never accepts what is not genuine
  (`AcceptedMeansGenuine` holds with these bags).
* `stale_connections`. The comment of `ServerConnection` says a keep-alive
  connection the server closed is replaced. `send` replaces it by the next idle
  one, and the server closes all connections idle for `header_timeout`. With
  three idle connections left by a burst, all closed by the server since, the
  next call spends its three attempts on them and fails while the child is
  healthy. The run uses the code's own `ATTEMPTS` of 3.
* `rewritten_file`. `manifest.rs` says the build embeds only a file whose bytes
  still hash to what the manifest recorded. The build script checks the bytes it
  read; `include_bytes!` reads the path again, and a `precompile` may have written
  it in between. `ReportedIsRunning` says what holds nevertheless.
* `ruby_idle_cap`. Ruby's README says that the pool keeps at most eight idle
  instances, and `thread_test.rb` asserts it of the queue. The size is compared and
  the guest pushed in two steps, with no lock: threads that all compare before any
  of them pushes all push. The run ends with three idle guests where `MAX_IDLE`
  is 2.

The models follow the code in these places too, where its documentation says
something else; no run is about them:

* `rust/server/src/roots.rs` says that only DER reaches `init`, so that what is
  anchored is exactly what `/v1/info` fingerprints. It unwraps one layer: of a
  CERTIFICATE block whose base64 decodes to PEM text, that text reaches `init`,
  which trusts the certificates inside, and the fingerprint is that of the text.
  `TrustsExactlyTheNamed` says that the two are the same exactly when every root
  unwrapped is DER.
* A status "is also written to `out->status`" (`rust/ffi`); after a contained
  panic it is only returned.
* `verifyBeforeStart` (`ServerBinary`) hashes and deletes without `install`'s
  locks, so the file deleted may be the right one, installed in between. The
  start fails closed.
* A component that traps in `init`, or states a size the server cannot read, is
  said to exit with 70; `serve` exits with 2.
* PHP's HTTP transport compares the server's roots when it is opened; a server
  restarted with other roots is used unchecked. Either transport keeps the input
  limit it was told then, so an aprv put in place later that takes more judges the
  first octets of an input over that limit. `JudgedAsAsked` names exactly these.

### Bounds, and why they are enough

* `walk`: every relation on the certificates of the instance, so every shape of
  cross-signing among that many; the proofs remove the bound.
* `verification`: four pinned roots: two that certify intermediates, after two that share a
  name with one of them or with the intermediate. Receipts: bags of up to three different
  certificates in every order, and listed ones with a repetition, an undecodable
  entry or a root; up to two SignerInfos over two payloads; dates inside, absent
  and unparsable; clock readings inside and one millisecond past the validity
  window. Three certificates hold a signer, its intermediate and one that
  interferes; two SignerInfos are enough for one to hide another.
  `MAX_SIGNER_INFOS` and `MAX_EMBEDDED_CERTIFICATES` are small so that inputs pass
  them. JWS: intermediates of the same name and key that are no CA or expired.
* `connection`: two callers and a closer, `maxIdle` 1, two attempts,
  `MAX_GENERATION` 2 (no child crashes from that generation on), one start a
  minute: two exchanges end at once at a full pool, a child dies and is replaced,
  and the start budget is exhausted. `stale_connections` has the code's three
  attempts and three callers, to leave three idle connections.
* `server`: more clients than places, more bodies than upload permits, more
  tasks than workers.
* `pools`: four callers over pools that keep two of five instances, with guests
  that fail: more callers than the pool keeps, for all three. Ruby's limit is the
  number of callers, one less than the instances, so it binds too. The instances
  are a bound: the factory fails when they are used up.
* `decoding`. Header walk: every sequence of up to five octets over nine of them,
  one per case of the code (end of contents, checked primitives, OCTET STRING, a
  high tag, constructed ones, indefinite and long lengths); and values framed in
  values twice over, each frame with its length in short form, in long form of one,
  four and five octets, indefinite or wrong, under identifiers of one, two and three
  octets. Each is walked as a payload is (short headers, checked), as an envelope is
  (any header, checked) and as the helpers walk, with limits some inputs exceed.
  Envelopes: each member in its
  variants, one left out, swapped or added; every combination of digest,
  attributes, key and covered bytes for a SignerInfo. Payloads: up to three
  attributes; the third shows what happens to a repeat after a value that did not
  decode; `MaxI32` and `MaxI64` are scaled so that values lie on both sides.
  Dates: fields at and past every limit, offsets to 23:59, both sides of
  the changes of seventeen years, of 1970 and of the last timestamp. Claims: up to
  three members, so that a name can repeat around another. JSON: objects of up to
  two members, the second name perhaps the first spelled otherwise, with values
  nested up to four deep, each also with one lexeme removed, inserted or exchanged;
  all strings of up to three units as a name, a nested name, a value and an
  element; numbers with and without each part. base64: three-bit symbols, texts up
  to six: as four six-bit symbols make three octets, with every remainder.
* `boundaries`. Roots: lists of up to two and files of up to two lines, each of
  every kind. C ABI: three strings in all. Go: two goroutines, two instances,
  inputs on both sides of each cap. PHP: two caps, lengths on both sides of each.
  Bodies: around both caps in frames of up to four bytes. Precompile: two
  processes, one build (`rewritten_file` has two). Cache: two threads of one JVM and
  one of another, two tries each, two faults, one change on disk: an install and a
  start, and a second thread's between them.
* `lifecycle`: two calls, a managed and a URL source, four connections; one
  managed start; three clients of a server with one upload permit and one worker,
  so that two wait while one is served, and one task more than workers.

Calls, commands and children that have given their answer stop, so `walk`,
`decoding`, `boundaries`, `lifecycle` and `rewritten_file` do not check for
deadlock; the others do.

Symmetry is used in `stale_connections`, `server` and `pools`, which check
invariants and refinements without fairness; callers, clients, tasks,
connections and instances are interchangeable there. No run with a liveness
property uses it.

### Fairness

* `TopDownWalk`: the loop keeps running.
* `ServerConnection`: a thread inside a method keeps running, since every wait in
  the code has a timeout, and a child whose stdin ended is made to exit (EOF,
  then `destroy`, then `destroyForcibly`; SIGKILL is taken to be effective within
  the last two seconds `stop()` waits). Nobody has to call or close, nothing has
  to crash. That every call ends is not claimed: a call that holds an old target
  keeps closing connections of newer children for as long as others keep
  returning them.
* `AprvServer`: what a peer can stall has a deadline (`header_timeout`,
  `body_timeout`, `WriteDeadline`), a guest call has its epoch deadline, and
  tokio's semaphores are FIFO. Clients need do nothing.
* `EngineHolder`: every start and request has a timeout, so each thread inside
  the Holder moves on; a thread that waits for the Holder's monitor to close it
  gets it (strong fairness), since each of finitely many calls takes it once.
  The Reaper's thread and the hook run when they are due; what the program and
  the collector do is not promised.
* `ManagedStart`: each wait of the parent ends and the child's threads run;
  nobody has to stop or to die. `lifecycle` assumes these two and `AprvServer`'s;
  in each behaviour two of the three are about components that stand still and ask
  for nothing.
* `ReceiptVerify` and `JwsVerify` have none: that a call cannot get stuck is
  TLC's deadlock check.

## Proofs

Every theorem holds for all values of the constants that the named assumptions
of its module allow. These ask for what the code gives: limits are positive, the
threads are finitely many, `Nobody`, `Null` and `None` are no instance, no number
and no verdict, and the fields of a certificate have their types.

**`TopDownWalk`**, the walk as a state machine, for every bag and issuing
relation:

* `WalkInvariant`: `Spec => []IInv`. `WalkIsExact` is not inductive: the code
  forgets older issuers, so that it misses nothing rests on `TriedAlready`, that
  no pending certificate was issued by an accepted one or an anchor unless it is
  among the current issuers. `Split` and `Sound` say what accepted and pending
  are, `Exhausted` what the end means.
* `OnlyVouchedKeysCorrect`, which is about every key used on the way,
  `WalkIsExactCorrect` and `TypeCorrect` follow.
  Exactness needs both directions: accepted is vouched for (`Sound`), and at the
  end accepted with the anchors is closed under issuing, so it contains the least
  such set.

**`VerificationProofs`**, first part, the functions of `CertPath`. They are
recursive functions, so their proofs are inductions: by the least counterexample (`LeastNat` of
`CountingLemmas`), with a lemma that the recursion has a solution (`Recursion`)
and one that carries a fact from each round to the next (`RecursionKeeps`).

* `AuthenticatedIsVouched`: the walk as a function returns exactly the
  certificates of the bag the anchors vouch for, for every order of the bag. Its
  invariant also bounds the rounds: while there are issuers, a round accepts
  something, so as many rounds as there are certificates are enough.
* What a chain built by OpenSSL as `path.rs` configures it consists of, what it
  means that it has no problem, and that the reported run is one that passed when
  there is one. `X509_verify_cert` is external: this is about how the code uses it.

**`VerificationProofs`**, second part, one call, for every set of certificates, pinned roots,
input and answer of the clock:

* `ReceiptInvariant`: `ReceiptInv` says what is known on the way to a verdict. Once
  fixed, the instant and the walk are those of the whole call (`Judged`); the
  SignerInfos and certificates already passed over have failed (`Tried`); what a
  verdict, and then a status, was given for (`Concluded`, `Answered`).
* `AcceptedMeansGenuineCorrect`, `OnePassingIsEnoughCorrect`,
  `StatusTellsTheVerdictCorrect` follow, with what the first part says of a path.
* `JwsInvariant`, `AcceptedIffPinnedCorrect`. The proof was first tried of the
  plain equivalence, which is false: with a root that signed the leaf, a pinned
  certificate in the leaf's place or one that names itself, OpenSSL builds another
  chain than the two that were sent. What is accepted is pinned whatever the chain
  is; what is pinned is accepted when the chain is ordinary (`OrdinaryChain`), as
  Apple's are. A pinned certificate is trusted as it is: `path.rs` asks neither
  its first day nor its CA flag, and `PinnedChain` says so.

**`ServerConnectionProofs`**, any number of threads, connections and attempts, any
start budget:

* `SupervisorInvariant`. `LiveChildNotKilled` is not inductive: that `start()`
  finds the old child dead rests on `Addressed`, that until `stop()` a running
  child has a target, which `recover` keeps by forgetting only a dead child; and
  that needs `NoOrphan`.
* `ConnectionInvariant`: who holds which connection (`OwnerInv`), which child a
  call knows (`CallInv`), and that the counter is the queue's length and the
  threads between the two updates (`CounterInv`). `OneOwnerCorrect` and
  `AtMostMaxIdleCorrect` follow.
* `ConnectionDrivesProcess`: `Spec => ProcessSpec`, a refinement: every step of a
  call is one step of the supervisor or none. So the supervisor's theorems hold
  under any calls: `NoOrphanUnderCalls`, `LiveChildNotKilledUnderCalls`,
  `NeverRestartedUnderCalls`.

**`AprvServerProofs`**, any number of clients, permits, workers, tasks:

* `ServerInvariant`: a semaphore's queue holds exactly who waits for it
  (`QueueInv`), its permits are free or held (`PermitInv`), a task that ended has
  no asker (`AskerInv`), and an instance is in the pool or with one task
  (`InstanceInv`). The pool is popped under its lock and the instance made
  outside it, so that there are at most `WORKERS` instances rests on the permits.
* `AnswersMatchCorrect`, `OneInstancePerWorkerCorrect`, `NoPermitLostCorrect`,
  `HeadIsWaitingCorrect`. The last two are not runs' properties: they are what the
  fairness of the semaphores is about.

**`InstancePool`**, any callers, instances and limit: `OneCallEachCorrect` and
`FailedIsGoneCorrect`, from `PoolInv`. That a new instance is nobody's rests on
`Known` (what is idle, held or failed was made), and that a failure retires an
instance for good rests on `OneCallEach`.

**`PoolProofs`**, any number of threads, the union `Pools`:

* `GuestInv`, `PythonInv` and `RubyInv` say of each pool that its image satisfies
  `PoolInv` and relate its queue to its counter, slots or threads by counting them.
* `GuestPoolImplements`, `PythonPoolImplements`, `RubyPoolImplements`: initial
  states map to initial states and every step to a step or a stutter, the limit
  included. Ruby's limit is the number of callers: a guest is made only when none is
  idle, so those idle and those in a caller's hands are never more than that.
* `GuestPoolKeepsPromises`, `PythonPoolKeepsPromises`, `RubyPoolKeepsPromises`: so
  the abstract pool's theorems hold of each. `CounterCatchesUpCorrect` and
  `PythonAtMostSize` follow from the counting.

**`BoundaryProofs`**, components of `boundaries`, `lifecycle` and `decoding`.
They share no state, so `Boundaries` and `Decoders` instantiate each by itself, and
a theorem is about the specification of one of them. MC modules evaluate the named assumptions
on the constants they check: `MCDecoding` those of the decoders, `MCLifecycle`
that of `EngineHolder`, `MCBoundaries` the others.

* `BinaryCache`: `OnlyPinnedIsExecutableCorrect`, for any number of threads and
  JVMs, from `Locked` (a thread whose JVM lives holds the locks its place needs),
  `Checked` (a temporary file exists only while its thread works or when its delete
  failed, and is executable only once compared), `Lacking` (who fetches found no
  binary, and nobody else can have put one there) and `Fresh` (between a check and
  its start the file is the pinned one, unless it changed just then).
  `OneInstallerAtATime` follows from `Locked`: the monitor excludes threads of one
  JVM, the file lock those of others.
* `GuestHost`, the Go wrapper: `AnswerIsForTheWholeInputCorrect` and
  `NeverOutOfOrderCorrect`. `OneHolder`, that an instance is in the pool or in one
  hand, is what keeps one goroutine's octets out of another's answer; that the
  input is cut at `max_input_bytes` makes no difference rests on that maximum being
  over every cap (`CutCannotBeTold`).
* `CAbi`: `HandedOverOnceCorrect`, whatever the core answers. The pointers are
  numbered in the order they were made, so a new one is in none of the caller's.
* `PhpTransport`: `JudgedAsAskedCorrect`. What `open` checked is a fact about the
  aprv asked then, whoever answers later: the limit is one over its cap, and over
  HTTP its roots are the Config's (`PhpInv`). So an answer by one with that cap is of
  the whole input, and one by a server with those roots is under the Config's.
* `AprvCommand`: `StatusTellsWhatStdoutHoldsCorrect`, for every stated maximum.
* `Precompile`: `ReportedIsRunningCorrect`, with nothing assumed about when the
  pair is written: until a rewrite, the file is what the build script read.
* `RequestBody`: `KeptConnectionIsInStepCorrect`, for every split into frames. The
  drain limit is met one frame late at most, which is why the invariant bounds what
  was read by `MAX_DRAIN + MaxFrame`.
* `EngineHolder`: `OneServerCorrect`, with any number of callers and sources.
  `OneOpener` says who holds the monitor, `Compared` that what a call may be sent
  to was compared with the config.
* `SignedData`: `EnvelopeInvariant`, what each stage of `parse` has established
  about the blob and whether it was fully decoded (`FullyDecoded`);
  `LimitsBoundTheCostCorrect`, `AnsweredForIsSignedCorrect`.
* `ReceiptPayload`: `JudgedAtTheReportedDateCorrect`. `creation_date` looks for the
  first attribute 12 before anything is trusted, the decoder takes the attributes
  one by one later: `DateKept` says of every moment between that the date judged at
  is that of the attributes left, or the field already taken.
* `Claims`: `ClaimsReadAlikeCorrect`, the claims' part of `JavaReadsTheSame`. Java's
  parser keeps, name by name, what the last member gave (`ClaimsInv`); the core asks
  for the last member at the end.
* `Configuration`: `TrustsExactlyTheNamedCorrect`. Its roots are nested: files hold
  lines, lines hold blocks, blocks hold certificates. What was read is flattened
  level by level and what was named is said of each text, so the proof is that
  flattening commutes with appending, concatenating, mapping and nesting. These are
  inductions over sequences, stated of a set of sequences that contains the empty
  one and is closed under `Append` (`AllSequences`), as the prover takes no
  operator as a parameter.

Only model-checked:

* liveness (`Ends`, `CloseReleases`, `EveryRequestEnds`, `ShutdownEnds`, `Released`,
  `ChildFollowsParent`) and ENABLED, which are outside the prover's reach;
* `WalkAcceptsTheGrammar`: the grammars are RECURSIVE operators, which the prover
  cannot take;
* `DecodersAgree`: what two base64 decoders compute for every text, bits regrouped
  from six to eight: an induction over data;
* `JavaAgrees`: the two calendars are compared date by date, with the rules of one
  time zone as data;
* `EveryAttributeKept`, and the part of `JavaReadsTheSame` that is about a receipt:
  a purchase is a fold of an operator over its attributes (`FoldLeft`), the values
  of one type are a `SelectSeq`, and Java's decoder sorts. All three take an
  operator as a parameter, which the provers cannot instantiate.

## Not modelled

* OpenSSL, Wasmtime, tokio, serde_json and the operating system: modelled from
  their use, marked external in `PROJECT.json`;
* the fixed-address variant of `ServerConnection`: it has no child, and its pool
  is the same;
* `Lifecycle::Fresh` of the server's runtime: a pool that keeps nothing;
* serde_json's reader, the texts of responses, messages and logs;
* downloading the binary over HTTPS and the choice of its directory;
* the Swift, .NET and Node wrappers: .NET's pool is `GuestPool`'s algorithm,
  Swift's is one lock around a list, Node keeps one instance on one thread;
* the independent Java implementation's certificate path, on another library;
* Python interrupts outside the `try` of a call: one between acquiring the slot
  and the `try` loses the slot;
* experiments under `docs/evidence` (except the Pacific rules, kept as a
  reference), fuzz targets and benchmarks.

## Plan

Done: the trust decision from the octets to the status, configuration, the two
ABIs, the server with its commands and components, the supervisor with its
connection pool, handshake, Holder and cache, the pools of Java, Go, Python and
Ruby, PHP's transports, the parts of the Java implementation that decode. Proofs
of every safety property and refinement of `walk`, `verification`, `connection`,
`server`, `pools`, `boundaries` and `lifecycle`, and of those of `decoding` that
are not about what a recursion computes.

What is left to prove is named under "Only model-checked". Nearest is
`EveryAttributeKept`: its invariant is what it says of the attributes taken so far,
and needs folding and selecting stated without operators as parameters, as
flattening and mapping are for `Configuration`.
