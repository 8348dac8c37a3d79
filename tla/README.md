# A verification project for robot-md-gateway

`robot-md-gateway` stands between AI agents and a robot. An agent posts a signed
envelope to `POST /v1/invoke`; the gateway verifies the robot's manifest, runs a
list of policy gates, records what it is about to do, calls the driver, records
what came of it and answers. The evidence (an in-memory audit chain and an NDJSON
export on disk) is meant to survive kills, full disks and lost files well enough
that a reader can tell what the robot was told to do. A sidecar ships the export
to a remote ingest.

This directory holds TLA+ modules that model that program, TLC configurations that
check them on small instances, and theorems proved with TLAPS. Everything here is
read from the code; paths below are relative to the repository.
`src/robot_md_gateway/` is written `gw/`.

To check one run: `tlc -config Shipper.cfg MCShipper`. To check the proofs of a
module: `tlapm TraceExport_proofs.tla`. `PROJECT.json` lists the runs, the lines
every definition models, a mutant for every property (a plausible bug in the
code's place, which the property must catch), the hazards and the theorems.

## 1. The system

### Components, what they keep, and what makes them right

| Component (code) | State | Operations | What is hard | Right when |
|---|---|---|---|---|
| Receiver (`gw/receiver.py`) | closures of `make_app`: the shared objects below; per request a set of locals | `_invoke`, run on a worker thread per request; `invoke` chooses the thread pool; `/v1/audit/last` | many requests at once over shared objects; every step may raise; the driver may hang; the process may die between the intent and the outcome | a dispatch leaves a trace, outcomes name their own intents, replies are in the chain, stops are obeyed, every request is answered |
| Manifest cache (`_manifest_frontmatter`) | path to (mtime, frontmatter), shared, no lock | look up, read, store | stat, read and store are separate; the file is replaced meanwhile | an unchanged manifest gives its own verdict |
| Thread pools (`STOP_LANES`) | tokens and queues of two limiters | a request asks, gets, returns a thread | drivers that hang hold their thread for ever | a stop does not wait behind other requests |
| Attestation export (`gw/attestation.py`) | the `.ndjson` file, its `.head` file, a lock per file | `append_trace_line`, `next_trace_link`, `write_trace_head` | a kill or an error between head and line, torn lines, lost heads, power cuts, v1 history | numbers never repeat, losses show in the walk, no false alarm |
| Receipt verifier (`scripts/verify_receipt.py`) | none | `--walk` over an export | it must read every state the writer can leave | see the export |
| Audit chain (`gw/cert/audit.py`) | `_entries`, a lock | `append`, `export_signed` | threads append while a bundle is copied without the lock | the chain never forks, a bundle verifies |
| Revocation cache (`gw/cert/revocation.py`) | kid to (asked at, answer), no lock | `is_revoked` | slow lookups overtake each other | staleness is bounded by the TTL |
| Safety monitor (`gw/cert/safety.py`) | a state and the last heartbeat, no lock | `tick`, `can_actuate`, `on_estop_wire`, `on_heartbeat`, `clear` | every method reads, then writes | a trip holds until a clear |
| Envelope checks (`gw/cert/envelope.py`, the resolver of `gw/auth.py`) | an ordered dict of message ids and a dict of keys, no lock | `resolve_public_key_pem`, `verify_envelope`, `check_freshness`, `check_replay` | threads evict and insert at the limit; a restart forgets both; the clock runs; keys are withdrawn | the newest ids are the ones refused, and what the window forgot the clock still bounds |
| Policy gates (`gw/cert/policy.py`, `gates.py`) | none | `check_tier` ... `check_hitl` | the gates key off a scope label the caller writes | a label never chooses a laxer rule for a motion |
| Provenance and RRN binding (`gw/manifest_provenance.py`, `gw/cert/rrn_binding.py`) | none | verify the file, compare the RRN | they read a file that may change | see the manifest cache |
| Shipper (`gw/shipper.py`) | the offset file | `ship_once`, `_write_offset`, the poll loop of `main` | torn lines, lost answers, kills, an offset file that is emptied before it is written, a cut export | nothing is skipped, order is kept, everything arrives |
| Actuators (`gw/actuator.py`) | the driver's own | `execute` | hangs, raises, refuses | external: a contract |
| Serve and configuration (`gw/__main__.py`, `gw/auth.py`) | `bearers.yaml`, read twice at startup; the environment; the devices claimed | builds `make_app` | what is wired and what is not; the file may change between the reads | what it reads is whole; see also Invoke |
| Init wizard (`gw/init_wizard.py`) | three files beside `ROBOT.md`, temporary files | `run`: look, ask, write each file, roll back | every file operation can fail, every step can be the last | no half file, no readable token, no file replaced unasked |
| RRF preflight (`scripts/rrf_preflight.py`) | the report of one run: kids, findings, checks | `run`, part by part, `check_kid`, `verdict_for` | one kid in several roles, findings given once, three sources that may be wrong or silent | a contradiction stops, absence does not, a label is backed |
| Certification report, legacy dispatcher, invoke context, udev policy, other scripts, HIL harness, systemd files | - | - | - | not modelled, section 8 |

### How they interact

A request runs on one worker thread from the first gate to the reply. It reads
the safety monitor, then checks the signature (under a key the resolver has kept
or fetches), freshness and replay window, asks
the revocation cache (which may ask the registry), reads the manifest file through
the shared cache, passes the policy gates and is routed to an actuator. Before
`execute` it appends an intent to the audit chain and to the export; after it, an
outcome to both. A refusal appends one outcome. Export writes are best effort:
a failing write is logged and the request goes on. The shipper is another
process and sees only the export's bytes. The verifier is a person's tool over a
copy of the export. Stops reach the monitor from another thread, at any moment.
The init wizard writes the files `serve` starts from; the preflight is run by hand
before a bench or a live run and only reads.

The behaviours that are hard to test are listed at their lines in `PROJECT.json`
under `hazards`.

## 2. The plan

The order is by how much depends on the answer: first what evidence survives,
then who may actuate, then what happens around them.

1. `ReceiptWalk`, `TraceExport`: the export and its reader.
2. `EvidenceLog` (abstract), `AuditChain` (implements it).
3. `Revocation`, `SafetyMonitor`, `EnvelopeGate`: the shared objects without locks.
4. `Invoke`: the request, composed from what 1 to 3 promise.
5. `Gates`, `ManifestCache`, `StopLanes`: what a request asks on its way.
6. `Shipper`: the export's other reader.
7. `Setup`: where the configuration comes from. `Preflight`: what is checked before a run.
8. Proofs of every component above.

All of this is done. Open, in this order:

- an abstract specification of the export (numbered records, gaps allowed,
  no repeats) that `TraceExport` implements, as `EvidenceLog` is for `AuditChain`;
- two gateway processes on one export (the lock is per process);
- `/v1/audit/last`, the legacy prefix gate.

## 3. Modules and code

Every component has a module; `MC<module>` extends it with what TLC needs (model
values, symmetry, small sets). The proofs are in modules that extend the components
they are about: `TraceExport_proofs`, `AuditChain_proofs`, `EnvelopeGate_proofs`,
`Invoke_proofs` and `Shipper_proofs` one each, `Policy_proofs` `Gates` and
`Revocation`, `Receiver_proofs` `StopLanes`, `SafetyMonitor` and `ManifestCache`,
`Bringup_proofs` `Setup` and `Preflight`. Modules that are extended together name
their `Init`, `Next`, `Spec` and `TypeOK` apart (`GatesSpec`, `LanesSpec`,
`MonitorSpec`, `PreflightSpec`).

**ReceiptWalk** is `verify_receipt.py --walk` as operators: `Failures`, `Findings`
and the exit code `Walk` over a sequence of lines. `TraceExport` extends it, so
the properties say what the real reader answers about what the real writer left.

**TraceExport** is `append_trace_line` cut where a kill or a failing write can cut
it. `BeginAppend` takes the lock, reads the head or rebuilds it (`NextTraceLink`)
and builds the line; `WriteTraceHead` is temp file, fsync and rename; `WriteLine`
is the buffered write. `WriteTraceHeadFails`, `WriteLineFails`, `Crash`, `LoseHead`
and `PowerCut` are what the environment does; `Interrupted` is what a cut write
can leave: nothing, the separator, some of the line, or all but its newline. The
bytes of a line are its hash, a fresh number; the bytes a torn write of line `h`
leaves hash to `-h`. A line's note, kind and correlation id are kept because the
walk reads them. The power cut may drop lines not written back and the last
rename; it assumes a journalling file system that commits metadata in order.

**EvidenceLog** is what a hash-linked log promises, in one action: it grows by one
entry that names the hash of the one before. **AuditChain** is `AuditChain.append`
(`LinkEntry` up to the hash, `Store`, `AppendRaises`) under its lock by several
threads, and `export_signed` (`CountEntries`, `CopyEntry` one at a time,
`SignBundle`) without it. `Log == INSTANCE EvidenceLog WITH log <- entries` is the
refinement mapping; `ImplementsLog` is a property of the run and a theorem.

**Revocation** is `is_revoked`: `Begin` takes the time and looks in the cache,
`ResolverAnswers` and `ResolverFails` end a lookup of any length, `Store` writes
the entry with the time the lookup *began*. The registry revokes keys; time is a
bounded clock.

**SafetyMonitor** has a step for each read and each write of each method. Time is
only whether the heartbeat is fresh, so the state space is finite without bounds.

**EnvelopeGate** is what a request passes before anything in it is looked at:
`ResolveKey` (the key is kept for the life of the process, and fetched only if the
registry serves it), `Freshness` under the policy `FreshnessPolicyFromEnv` reads
from the environment, then `check_replay` step by step: `HasSeen`, `Record`,
`EvictTest` and `Pop` round the loop, `Insert`; then the revocation list. Threads
interleave, the clock runs, keys are withdrawn, and `Restart` forgets window and
keys. An envelope is its id: it is signed, so its timestamp and signer are fixed.
It keeps, as history, every id in the order it was inserted, and of one envelope,
any one (`watched`), when it was checked and first accepted.

**Invoke** is `_invoke`: safety gate, signature and freshness, replay, revocation,
policy, route, intent, intent's line, dispatch, outcome, outcome's line, reply, and
the ways out of each (403, 404, 422, 500). It uses the other objects as their
modules promise them: an audit append is one step, a line is written whole or not
at all, the replay window does not evict. A gate whose verdict depends on the
request alone may go either way. `Trip` and `Clear` are the stop signal and the
operator, `DiskFills` the failing export, `Crash` the kill; the driver may return,
refuse, raise or hang.

**Gates** judges one request against one configuration in the receiver's order:
`check_tier`, `check_tool`, `check_tool_tier`, `check_tool_scope`,
`check_confidence`, `check_hitl`, with the scopes written in either case, the
hardest of the motion thresholds for motion tools, and the manifest's
`hitl_gates` merged in.

**ManifestCache** is a request's three reads of the manifest file: `Verify`, and
`Stat`, `Lookup`, `Read`, `Store`, `Judge` once for the RRN and once for the HiTL
gates, while the file is replaced (`Write`) or absent (`RemoveManifest`). A text is the
three booleans the gates can tell of it.

**StopLanes** is `invoke`: `Lane` chooses the pool, `Arrive` queues, `Grant` is the
limiter giving out a thread, `Return` and `Hang` are how a request ends or does
not.

**Shipper** is `ship_once`, one step per line of it that touches a file or the
network: `ReadOffset` with the size guard, `Open`, `NoLine`, `KeepIntent`,
`PostAccepted`, `PostFails`, and `_write_offset` as `BeginSave` (the file is
emptied) and `EndSave`. The gateway writes a line in two halves, so that torn
lines, and torn lines closed later, occur; `Cut` truncates the export.

**Setup** is the init wizard, one step per file operation (`MkTemp`, `Write`,
`Chmod`, `Replace`, and `Rollback` file by file), each of which may fail, and each
of which may be the last of a run (`Exit`); and `serve`, which reads `bearers.yaml`
once for the tokens (`ReadTokens`) and again for the actuators (`ReadActuators`), or
not at all (`ServeBare`), and claims the devices. They meet in the directory. The
operator edits the files between runs and, with `Concurrent`, during them. A file is
who wrote it, whether it is whole, who may read it and whether it holds tokens.

**Preflight** is `run` of the preflight script, one action per part (`Manifest`,
`ManifestKeys`, `Rrn`, `Gateway`, `GatewayKey`, `Ran`, `Pairing`, `Export`, `Signer`,
`OtherPin`), with `check_kid`, `find` and `verdict_for`. Everything a part reads is
chosen when it reads it. The properties restate the script's documented stop
conditions over what was read, without regard to the order of the parts: that the
two agree, kid by kid and mode by mode, is what is checked.

## 4. The runs

| Run | Checks | Shows |
|---|---|---|
| `TraceExport` | `SeqNeverReused`, `HeadNeverBehind`, `NoFalseAlarm`, `NoSilentLoss` | whatever is killed, torn, lost or cut, no number that can be read is given to two lines; the head is never behind; the walk fails only over a real loss; kills, failed writes and lost heads never leave a hole that the walk calls clean |
| `AuditChain` | `ChainNeverForks`, `BundleVerifies`, `ImplementsLog` | threads and an export beside them still make one chain; a bundle is a verified beginning of it |
| `Revocation` | `StalenessBounded`, `DenialsAreTrue` | a check that begins a TTL after the revocation is never let through, whichever lookup stores last; nothing is refused falsely |
| `SafetyMonitor` | `TripHolds`, `StaleNeverPasses` | no interleaving of ticks, heartbeats and refused clears undoes a trip, nor lets a stale heartbeat pass |
| `EnvelopeGate` | `WindowIsNewest`, `RecentIdsRejected`, `ReplayHorizon`, `WithdrawnKeyEndsAtRestart` | racing evictions never drop a young id before an old one and miss the size by less than a thread each; an id not yet old is refused; two acceptances of one envelope are at most twice the skew apart, through evictions, races and restarts; a withdrawn key does not outlive the process that kept it |
| `Invoke` | `TypeOK`, `UnreportedDispatchNamed`, `OutcomeNamesItsIntent`, `RepliesAreAudited`, `StopRefusesNew`, `EveryRequestAnswered` | what the request leaves behind at every point where it may be killed, and that it is answered |
| `Gates` | `GatesTypeOK`, `RelabelBuysNothing`, `MotionNeedsCredential`, `HumanInTheLoop` | the label a caller writes on a motion does not change the verdict; no read or anon principal moves the robot; a human gate on one motion scope covers all |
| `Shipper` | `NothingSkipped`, `DeliveredInOrder`, `StopIsTrue`, `EventuallyShipped` | nothing before the kept place was skipped, order is kept through retries, the tamper stop is no false alarm, every outcome of an uncut export arrives |
| `ManifestCache` | `ManifestAuthoritative` | a request during which the manifest does not change gets that manifest's verdict, whatever others stored in the cache |
| `StopLanes` | `LanesTypeOK`, `StopGetsThread`, `OthersGetThread` | a stop gets a thread whatever other requests do, and the converse |
| `Preflight` | `ContradictionStops`, `AbsenceNeverStops`, `RegistryResolvesIsBacked` | a kid whose answers contradict one another stops exactly the modes that use it, in whatever roles it was met; what a mode does not use, and what nobody knows, stops nothing; the label is given only when every link was read and holds |
| `Setup` | `TargetsAreWhole`, `TokensStayPrivate`, `NoForceNeverReplaces`, `FailedRunRestores` | wherever the wizard fails or is killed, `serve` finds whole files or none, no token is readable by others, and a failed run without `--force` leaves what it found |

A type invariant is defined in every module; the runs check it where no other run or
theorem speaks of the whole state. Section 5's type theorems cover all the modules but
`Preflight`, whose types hold when added to its run.

### Bounds, and why they are enough

- `TraceExport`: 2 threads, 5 records, v1 history of 0 or 2 lines, 2 kills, 1
  power cut, 1 lost head, 1 failing write: 2.7 million states. The lock keeps a
  third thread waiting where the second waits. An append looks at the head, the
  last line and the last numbered line, so every shape of the end of the file
  needs at most a v1 line, a numbered line, a torn line and the line after it.
- `AuditChain`: 3 threads, 5 entries, so that the bundle's copy can be behind
  by more than one.
- `Revocation`: 2 threads, 2 keys, TTL 2, clock to 4: a lookup can last
  longer than a TTL, and the other thread can pass it.
- `SafetyMonitor`: 2 workers, the tiers `observe` and `commission`, no bound.
- `EnvelopeGate`: 2 threads, a window of 3, 4 envelopes and 5 insertions in one life
  of the process, so that both threads evict at once and an evicted id comes
  back; one key; clock to 3 with a skew of 1, or a variable that falls back to it,
  a timestamp required, and envelopes stamped 1 or not at all: 1.2 million states. The assumption
  `MaxSize >= Cardinality(Threads)` is the code's 100000 against its 48 threads.
- `Invoke`: 2 requests with one `msg_id`, 1 stop, 1 kill: 436 000 states. One
  request alone meets every failure; the second is there for the races on the
  chain, the window and the stop.
- `Gates`: two tools, four tiers, the motion scopes in both cases and one scope
  that is none; configurations whose rules differ between scopes.
- `Shipper`: 4 lines of two bytes, 2 faults, any number of cuts: a torn line
  between two whole ones, and a second fault while recovering.
- `ManifestCache`: 2 threads, 5 texts, 2 writes or removals.
- `StopLanes`: 2 stop clients, 3 others, 1 and 2 threads: either pool can be full
  with one still waiting.
- `Preflight`: 3 kids, 2 keys, and runs in which at most two of the things read
  differ from those of a robot in good order (the constraint `FewSurprises`): 1.1
  million states. A stop has one cause, and hiding one takes one more; three kids are
  the manifest's, the gateway's and a signer's or a retired one, in any coincidence.
- `Setup`: 2 runs of the wizard, the second over what the first left: 3.7 million
  states.

Deadlock is checked where the system runs for ever (`Revocation`, `SafetyMonitor`,
`ManifestCache`, `EnvelopeGate`, `Setup`; `Preflight` ends in a step of its own). The
others stop when a bound is reached, a request has been answered, the shipper has
reported a cut or every driver hangs, and say so in their configuration.

### Fairness

- `Invoke`: `WF(Step(r))` for each request: a worker thread that can run does,
  which is the scheduler's promise. Nothing is assumed of the driver, the
  operator, the disk or the stop signal.
- `Shipper`: `WF(Ship)`, since `main` polls for ever, and `SF(PostAccepted)`: an
  ingest that keeps being asked answers 2xx at some time. Without it nothing could
  ever be delivered. Faults are bounded.
- `StopLanes`: `WF(Grant)`, the limiter wakes its waiters in order, and
  `WF(Return)` for a request that is not hung; hanging is an action of its own.

## 5. What is proved

Every safety property of section 4 is also a theorem. Each holds for every value of the
constants, under the `ASSUME`s of its module (finite bounds are naturals, the values
for "none" are not values); four name one more assumption, `HasMonitor`, `~CoarseClock`
or `~Concurrent`, without which section 7 has the counterexample.
An inductive invariant was checked by TLC on the component's run before it was proved.

- **TraceExport_proofs**: `TypeCorrect`, `SeqNeverReusedAlways`,
  `HeadNeverBehindAlways`, `NoFalseAlarmAlways`, `NoSilentLossAlways`. The first two
  invariants are not inductive alone: between the head and the line a thread holds a
  number nobody can see in the file. `IInv` adds that only the lock's holder is inside
  (`HolderOnly`), that a thread past the link holds a number above every line's
  (`LinkedAhead`), that after the head is written the head is that number
  (`HeadedAhead`), and that the head a power cut may bring back covers every line that survives with it (`OldHeadCovers`). The
  lemma `LinkAhead` says that `NextTraceLink` always lands above the file.
  That the walk fails only over a real loss needs the converse view, of an export that
  lost nothing: `NothingLost` says that such a file is linked and counts on without a
  break (`Unbroken`), that the line in flight continues it (`LineFits`) and that the
  head, when nobody is between its two writes, describes the last line (`HeadIsLast`).
  That no loss is silent is proved for runs without a power cut: once a record is lost,
  either a line of the file already shows it to the walk, or the next line to land will,
  since it is in flight with a note or a link to other bytes, or will take one from the
  head (`LossMarked`, `NextIsMarked`); hashes order the records in time (`Newest`).
- **AuditChain_proofs**: `TypeCorrect`, `ChainNeverForksAlways`,
  `BundleVerifiesAlways`, `ImplementsEvidenceLog`. `IInv`: the holder's pending entry
  extends the chain as it is (`PendingExtends`), hashes were handed out in order
  (`HashesBuilt`), the copy and the bundle are beginnings of the chain
  (`CopiesAreBeginnings`). Each step is a step of `EvidenceLog` or a stutter.
- **Policy_proofs**, the gates: `GatesTypeCorrect`, `RelabelBuysNothingAlways`,
  `MotionNeedsCredentialAlways`, `HumanInTheLoopAlways`, for every configuration and
  every request. The invariant records that the verdict is `Verdict(config, envelope)`;
  the lemmas then show gate by gate that a relabelled motion meets the same rule
  (`RelabelFields`, `BarsOfAMotion`, `RelabelKeepsVerdict`). The types rest on
  `ConfigsAssumption`, that the constant `Configs` holds configurations.
- **Policy_proofs**, the revocation cache: `RevocationTypeCorrect`,
  `StalenessBoundedAlways`, `DenialsAreTrueAlways`. `CacheInv` dates the answers: a
  cached or pending "not revoked" was true when the lookup that brought it began
  (`CacheDated`, `AnswerDated`), and no stamp is in the future (`StampsPast`).
- **Receiver_proofs**, the thread pools: `LanesTypeCorrect`, for any clients and sizes.
  That no pool gives out more threads than it has, and that no client waits twice,
  needs `InLane`: a client asks for and holds a thread of its own lane only.
- **Receiver_proofs**, the safety monitor: `MonitorTypeCorrect`, `TripHoldsAlways`,
  `StaleNeverPassesAlways`, for any number of workers. `MonitorInv` adds that a worker
  whose tick found the heartbeat stale sees no `READY` from its test to its gate unless
  a clear came (`StoppedWhileStale`), which holds because only a clear writes `READY`.
- **Receiver_proofs**, the manifest cache: `ManifestTypeCorrect`,
  `ManifestAuthoritativeAlways`, which assumes `~CoarseClock`: no two writes share an
  mtime. `ManifestInv`: a cache entry stamped with the present file's mtime has that
  file's frontmatter (`CacheTrue`), and stamps are not in the future (`MtimesPast`); the
  rest follows a stable request through its calls (`ReadTrue`, `SecondCall`).
- **EnvelopeGate_proofs**: `TypeCorrect`, `WindowIsNewestAlways`,
  `RecentIdsRejectedAlways`, `ReplayHorizonAlways`, `WithdrawnKeyEndsAtRestartAlways`,
  for any number of threads and any window at least as large. `Sizes` counts: each
  thread about to evict found the window full, so the window is short by at most the
  threads that have evicted since, and each thread about to insert found room; hence
  `popitem` never meets an empty window (`PopFindsAnId`), and types are correct only
  together with this. `Suffix` says the window is a tail of the ids recorded, so an id
  outside it is old (`OutsideIsOld`), which `Recent` keeps for a check under way.
  `Horizon` dates the check and the first acceptance against the one timestamp of the
  envelope; `KeysOfThisLife` says that kept keys were served in this life.
- **Invoke_proofs**: `TypeCorrect`, `StopRefusesNewAlways` (for an app with a safety
  monitor), `UnreportedDispatchNamedAlways`, `OutcomeNamesItsIntentAlways`,
  `RepliesAreAuditedAlways`, for any number of requests with any `msg_id`s, any stops,
  clears and kills, and the signature and revocation checks on or off. `Progress` ties
  a request's place to whether its actuator was called and has returned. `Held` says
  that a request begun after a signal is not past the safety gate while the monitor
  stands stopped. `Traced` says that who is past the intent has its intent in the
  export or among the writes that failed, and no outcome there before its actuator
  returned. `Linked` says that the hash a request remembers is its own intent's in the
  chain; `Answered` follows the decision from its append to the reply.
- **Shipper_proofs**: `TypeCorrect`, `NothingSkippedAlways`, `DeliveredInOrderAlways`,
  `StopIsTrueAlways`, for any number of lines, kills, refusals and failing writes of the
  offset. A cut may leave anything, so of a cut export `IInv` keeps only its shape
  (`Shape`: bytes in pairs, places between pairs). Until then, `Tailing`: what lies
  before every place the shipper has, the highest it kept, the one the offset file holds
  (or zero, when a fault left it empty), and the one it reads at, was delivered; nothing
  was delivered that is not a line of the export (`Sent`); and in order (`InOrder`). Since
  a line's first byte has its number (`Numbered`), a line that is appended is none of
  those delivered before.
- **Bringup_proofs**, the wizard: `SetupTypeCorrect`, `TargetsAreWholeAlways`,
  `TokensStayPrivateAlways`, `NoForceNeverReplacesAlways`, `FailedRunRestoresAlways`, for
  any number of runs. `FilesInv`: from its creation to its renaming, a run's temporary
  file is of the file it writes, and whole before it is protected (`MineIs`). The last
  two assume `~Concurrent`, that nobody else edits the files during a run: then a run
  without `--force` began with none of the files, and the rollback knows of every file
  that is there (`Restorable`).
- **Bringup_proofs**, the preflight: `PreflightInvariant`, `ContradictionStopsAlways`,
  `AbsenceNeverStopsAlways`, `RegistryResolvesIsBackedAlways`, for any kids, keys and pins
  and any number of surprises (the run allows two). The invariant is stronger than
  the properties, which speak of the end of a run: at every step the findings stop a
  mode if and only if something read so far is wrong for it (`StopsInv`). It needs
  `UsesInv`: the modes listed with a kid are those of the things read that name it,
  and until the retired pins are looked up no kid was met without the live mode, so that
  the findings of a kid met again already stop every mode of the new use. `OkInv` says of
  each link of the label what its check says of the run.

Only model-checked: the liveness properties `EveryRequestAnswered`, `EventuallyShipped`,
`StopGetsThread` and `OthersGetThread`, since liveness under fairness is out of the
prover's reach, and the types of `Preflight`'s findings and checks, for
want of a prover that knows a literal to be a STRING. What a recursive
definition computes for every input is out of reach too; no module here declares a
RECURSIVE operator.

## 6. What the models leave out, inside the components modelled

- Cryptography: a signature verifies or it does not; a hash is fresh or equal.
- The contents of records, envelopes and manifests beyond what a gate, the walk
  or a property tells apart; the wording of errors; logging.
- `Invoke` takes the audit append, the export line and the replay window as
  atomic objects; their insides are in their own modules. The registry lookup
  and the manifest gates are one step each there, for the same reason, and its
  freshness check may go either way or raise: the arithmetic is in `EnvelopeGate`.
- `EnvelopeGate`: time in whole units of the skew's; the rounding of milliseconds is
  left out. What a bearer token resolves to is a constant of `Gates`.
- `Preflight`: findings that are notes in every mode and that no decision reads; the
  report's text; a pin that names the robot is any pinned kid of the model.
- `Setup`: one wizard at a time.
- `Shipper`: the export is cut only while the shipper is not reading it; an
  export renamed and recreated during a pass is not modelled. A cut export that
  has grown past the kept offset again is reached by the model, but the code
  promises nothing there, and the properties except it (`~cut`).
- `TraceExport`: one process. A second gateway on the same file is outside the
  lock, and outside the model.
- `StopLanes`: cancellation of a request by its client while it waits.

## 7. Where the code and its documents disagree

Each was met while modelling, is stated as a definition of the module, and has a
counterexample that TLC finds in seconds. The first column is a configuration
beside the runs, or the run in whose configuration the definition takes the place
of the properties (as an INVARIANT; `ClearEvidenceIsTrue` as a PROPERTY).

| Configuration or run | Definition | What happens |
|---|---|---|
| `SafetyMonitor` | `EstopPreempts` | `tick` tests `READY` and then assigns `SAFE_STOP` (`gw/cert/safety.py:53`); a trip between the two is overwritten, though the module says ESTOP preempts other states. The gateway still does not actuate (`TripHolds` passes): what is lost is which stop it was |
| `SafetyMonitor` | `ClearEvidenceIsTrue` | `clear` reads the state, a trip comes, `clear` assigns `READY`: the audit entry does not name the stop it ended (`gw/cert/safety.py:80`) |
| `Invoke_telemetry` | `ActuationNeverA500` | the telemetry is hashed outside any `try` (`gw/receiver.py:554`); if that raises, an actuation that has executed is answered 500 and has no outcome, which the comment at `:572` rules out |
| `Invoke_stop_pending` | `StopPreemptsPending` | a stop after the safety gate does not hold back the dispatch that is pending (`README.md:49`) |
| `Invoke_serve` | `StopRefusesNew` | `serve` builds the app without a safety monitor (`gw/__main__.py:360`), so check 6 of `README.md:52` is not run |
| `EnvelopeGate` | `AcceptedOnce` | two copies of one message checked at the same time are both accepted (`gw/cert/envelope.py:111`) |
| `EnvelopeGate_nan` | `HorizonAlways` | `float("nan")` is no `ValueError` and not `<= 0` (`gw/__main__.py:101`): a skew of `nan` is kept and no envelope is ever stale, though `README.md:275` lets an unusable value fall back to the default |
| `Gates` | `ConfidenceAboveThreshold` | `confidence < threshold` is false for NaN (`gw/cert/gates.py:53`) |
| `ManifestCache_coarse` | `ManifestAuthoritative` | two writes within one tick of the file system's clock leave the older frontmatter in force |
| `ManifestCache` | `GatesFromVerifiedText` | a manifest replaced after it was verified is judged by the other text's gates |
| `TraceExport_partial_note` | `PartialNamedByNextLine` | with the head intact, the line after a torn one has no `chain_note` (`gw/attestation.py:401`), though `scripts/verify_receipt.py:277` announces `previous_line_partial` |
| `TraceExport_power_silent` | `EveryLossShown` | a power cut rolls back a line and the rename of its head together: the number is given out again and the walk is clean (`gw/attestation.py:464` promises a report) |
| `Shipper_offset` | `CutNeverRedelivered` | a fault between emptying and writing the offset file, then a cut: the shipper starts from zero (`gw/shipper.py:190`) |
| `Setup` | `ForcedFailureRestores` | `init --force` whose write fails removes the new files, and the earlier ones they replaced are gone (`gw/init_wizard.py:317`) |
| `Setup_prompt` | `NoForceNeverReplaces` | a file that appears while the questions are asked is replaced without `--force`: the look precedes them (`gw/init_wizard.py:283`) |
| `Setup` | `ServesConfiguredFile` | `serve` reads a bearers file only when `--bearers` is given (`gw/__main__.py:337`); the variable `README.md:270` requires, and the systemd unit sets (`systemd/robot-md-dispatcher.service:15`), is not looked at |
| `Setup` | `ServesOneFile` | `bearers.yaml` is read again for the actuators: replaced in between, the tokens are of one file and the actuators of another |
| `Preflight` | `EveryInUseKidResolves` | the signers of the export are in use and no link of the label: `registry-resolves` is given with a signer the registry does not know, though the script's text says every in-use kid resolves (`scripts/rrf_preflight.py:43`) |
| `Preflight_shared` | `RegistryAbsenceNeverStops` | with a gateway that resolves keys at the public registry, the registry's 404 is the local answer too, and a missing local key stops the run, though a 404 is never to be a stop (`scripts/rrf_preflight.py:66`) |

## 8. What is not modelled

- Certification report (`gw/cert/report.py`): an append-only list no gate reads.
- Legacy dispatcher (`gw/app.py`, `gw/gating.py`, `gw/_legacy_cli.py`): one stateless
  prefix test per tool call; planned.
- Invoke context (`gw/context.py`), udev policy (`gw/udev_policy.py`): pure functions
  to a dictionary and to a text.
- `scripts/rcan_conformance.py`: a list of independent read-only probes; the result of
  none feeds another.
- `scripts/` other than the verifier and the preflight, `examples/`, `hil/`, `systemd/`: batch drivers,
  network probes and installation files without state of their own.
