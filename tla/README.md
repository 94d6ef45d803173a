# Verification of stardome-client

stardome-client is a Linux command-line program (C++ over a C transport bridge)
that talks to a Stardome module on a serial line: it sends one request, gathers
the answer with a sliding-window protocol, checks it, prints it or keeps it in
files. This directory holds TLA+ models of its parts, the TLC configurations
that check them on small instances, and proofs that the TLA+ proof system checks
for all sizes. Paths are relative to the repository (`src/` in `PROJECT.json`
stands for its root, so the transport bridge is `src/transport/swp_client_bridge.c`
of the repository).

## 1. Inventory

| Part | Source | State it keeps | Operations | Works with |
|---|---|---|---|---|
| Transport bridge | `transport/swp_client_bridge.c` | receive window, expected index, fault-injection counters | open, close, send, `receive_ex`, `receive_frame_ex`, `receive_stream_ex`, fault configuration | library (calls), serial port (callbacks), commands (visitor callback) |
| Sliding-window library | submodule, not in the repository | send window, `conn_state`, token | `store_frame`, `send_sack_ack`, `handle_sack_ack`, `check_timeouts_and_retransmit`, `receive_any_frame_timed` | device, bridge |
| Serial port | `transport/serial_port_linux.cpp` | file descriptor, tracker of the outgoing frame | open, close, send and receive a byte, drain, clock | bridge, kernel |
| Response collectors | `cmd_attestation.cpp`, `cmd_endorse.cpp` | tree and attestation gathered so far, their completion flags, an error | the visitor | bridge |
| Artifact commands | `cmd_attestation.cpp`, `cmd_endorse.cpp`, `cmd_proof.cpp`, `cmd_verify.cpp` | tree, attestation and proof files; the port | one run each | bridge, files, verification |
| Verification | `verify/stardome_attestation_verify.cpp`, `verify/xmss_verify_bridge.c` | none (pure) | root binding, source chain, XMSS check | artifact commands |
| Requests | `cmd_attestation.cpp`, `cmd_endorse.cpp` | payload files that are given or generated | choose, build, encode, write, send | device, verification |
| Simple commands | `command_common.cpp`, `cmd_off`, `cmd_mode`, `cmd_status`, `cmd_firmware`, `cmd_timestamp`, `cmd_host_id` | none between runs | request, response, classification, exit code | bridge |
| Bootlog | `cmd_bootlog.cpp` | append-only log files | identity session, log session, append | bridge, files |
| Command line and configuration | `main.cpp`, `cli/*`, `config/*` | `AppConfig`, the environment | parse, load `.env`, apply, parse again, route | all commands |
| XMSS platform | `xmss/platform/*` | static key, signature and verification buffers, signature index | init, sign, self-test, get public key, shutdown | verification |

What is hard in it:

- **The link.** Frames and SACKs are lost, repeated and late; indices wrap; the
  receiver is reset at every call, on a RESET frame, on a rejected frame and at
  the deadline. The client has one thread, so the concurrency is that of two
  machines and a line.
- **Time.** A deadline until the response is complete, a settle time after it,
  the device's retransmission timer, and clock arithmetic in 32 unsigned bits
  with several reads of the clock per turn.
- **Two responses in one stream.** attestation and endorse expect a tree and then
  an attestation, sorted by a callback in the middle of the drain loop.
- **Files.** Two files that belong together are written one after the other,
  without a temporary name; other processes read and replace them.
- **Successive sessions on one port.** An answer that comes late meets the next
  command.
- **What a verdict rests on.** A payload may be given as a file, generated, or sent
  bare; the device may answer with a signature, a tree and leaf hashes that are
  not of the same request; nothing but the comparison of some leaves ties them
  together.
- **One-time keys.** The platform's signature index lives in memory only, has 64
  bits there and 40 in the key, and starts again at every power-up.

What makes each part correct:

- link: frames in order, once, none lost at both ends; a success is the whole
  response; a call returns within its window; the port is not closed on a device
  that still waits for a SACK;
- collectors: each byte string has exactly its own frames, in order;
- artifact commands: an exit code of 0 means that the files hold what was
  received, and verified; verify never accepts files of two sessions;
- verification: a PASS says that tree and attestation belong together and that
  each item of source data with a slot is bound to a leaf of the signed tree;
- requests: what an answer is verified against is what the device was asked;
- XMSS platform: no one-time key signs twice;
- commands and bootlog: no error or foreign answer is reported as a success,
  nothing but a log is appended to a log;
- configuration: options override the `.env` file, which overrides the
  environment and the defaults;
- fault injection: exactly the configured number of frames, never a
  retransmission; serial port: every frame end is recognised.

## 2. Plan

The order in which the project was written, most important behaviour first. All
of it is in place.

1. `Delivery`, `SwpLink`: the abstract promise and the untimed link; proofs in
   `SwpLinkProofs`.
2. `SwpControl`, `SwpStream` and `SwpReceive`: the control frames and the two receive
   calls with their clocks, built on `SwpLink`; `SwpStreamProofs`, `SwpReceiveProofs`.
3. `Artifacts`: the commands that keep files; `ArtifactsProofs`.
4. `Sessions`: simple commands and bootlog over successive exchanges on one
   port; `SessionsProofs`.
5. `FaultInjection`: `send_frame_struct` with its faults, composed with the
   tracker of outgoing frames of the serial port; `FaultProofs`.
6. `XmssPlatform`: the index of the next one-time key; proofs in `AttestProofs`.
7. `SourceChain` (the verification as operators) and `Requests` (what is sent and
   what it is verified against), composed with `XmssPlatform` in `Attest`;
   `AttestProofs`.
8. `Config`: precedence of options, `.env`, environment and defaults;
   `ConfigProofs`.
9. `AnswerLog`: the abstract promise of a bootlog file, which `Sessions` implements;
   `Delivery` with restarts, which `SwpStream` and `SwpReceive` implement.

How the modules build on one another:

```
Delivery <-- implemented by -- SwpLink <-- extended by -- SwpControl <-- SwpStream, SwpReceive
AnswerLog <-- implemented by -- Sessions
XmssPlatform + SourceChain + Requests --> Attest
Artifacts   (its Verifies is what Attest!PassIsOneAnswer and PassBindsItems justify)
FaultInjection    Config
```

No safety property that a passing run checks is left without a theorem. Still
worth stating: the composition of `Sessions` with the link, frame by frame, where
an exchange now sees whole answers.

## 3. The modules

### Delivery

What the code above the link may rely on: `Deliver` hands over the next frame
and only it; `Confirm` lets the device learn of frames already handed over.
`RestartableSpec` adds `Restart`, by which a device begins its response again.

### AnswerLog

What a reader of a bootlog file may rely on: `Serve` carries an exchange out, once;
`Keep` puts the answer of an exchange that was carried out at the end of the log,
once. Nothing else happens to the log. It corresponds to no code: `Sessions`
implements it.

### SwpLink

The receive side of the bridge against the device's sender. A frame is its
position in the response, which the program never sees: it reads `Idx(p)`, the
index modulo `MAX_FRAME_INDEX`, so an index that repeats is confused here exactly
when it is confused in the code.

| TLA+ | Code |
|---|---|
| `recv_window`, `expected_frame_index` | the library's variables of these names, which the bridge reads and shifts |
| `delivered` | frames copied out or handed to the visitor since the reset |
| `pc` | in `receive_any_frame_timed` ("wait"), between `store_frame` and `send_sack_ack` ("drain"), returned |
| `Receive`, `Pop`, `SendSack` | one turn of the receive loop, in its order |
| `Complete`, `GiveUp` | the returns, without and with `reset_sliding_window_receiver` |
| `DevSendNew`, `DevRetransmit`, `DevHandleSack`, `base`, `next`, `sacked` | the device (external) |

The line keeps order, as a UART does, and loses frames; corruption is loss,
since a frame with a bad CRC never leaves the library. A SACK record has a field
`at`, the number of frames delivered when it was sent; no action reads it.

### SwpControl

What both receive calls handle besides data frames, as actions over the link that
say nothing of the call around them. The request stays in the host's send window
until its ACK arrives (`pending`, `TakesAck`); a NACK sends it again at once
(`TakesNack`), and a turn of the loop without a frame sends it again when its
timer has run out (`RepeatsIfDue`). A device may abandon its response and begin it
again (`Restart`); its RESET then clears the host's window and expected index
(`TakesReset`) but nothing the caller has already taken. `ImplementsRestartable` is
the refinement of `Delivery` with restarts: the receiver of a device that has begun
again counts as empty although the RESET is still on its way, since nothing it
holds is looked at any more. A restart empties both lines: a device that abandons
its response drops what it had queued and what it had received, so a SACK of the old
response that meets the new one is not modelled (section 7).

### SwpStream

`swp_transport_receive_stream_ex` with its deadline (`elapsed`, `TIMEOUT`), its
settle time (`quiet`, `SETTLE`), the device's retransmission timer (`age`, `RTO`)
and the visitor of attestation and endorse (`Visit`, over the record
`collector`). One turn of the loop is `HostReceivesNothing` (the receive came back
empty), `HostHandlesControl` (an ACK, a NACK or a RESET), or `HostReceives` and what
follows it. Time is in ticks of roughly a third of the settle time; a frame
crosses the line within a tick, so `Tick` waits for an empty line.

The collector is not told of a RESET. If the device starts its response again
before completion, the frames of the second start are appended behind those of the
first, and the call may still succeed: the byte strings then end with the response,
but do not begin with it (`SuccessIsComplete`). If it starts again in the settle
time, the visitor rejects the first tree frame and a response that had completed
fails the call; `resetLate`, a history variable, is that case in `FailsOnlyLate`,
`CleanClose` and `CompletionSucceeds`.

### SwpReceive

`swp_transport_receive_ex`: the buffer with its capacity (`out`, `Fits`,
`Overflows`), the LAST frame (`sequence_done`), the control frames (`HandlesAck`,
`HandlesReset`, `ReturnsNothing`), and the two reads of `millis()` in each turn
(`ChecksTime`, `CallsReceive`), between which the scheduler may let `MaxPreempt`
ticks pass. `remaining_ms` is computed modulo `WORD`, which stands for 2^32.
History variables: `sackLost`, whether the line took a SACK from the device, and
`overran`, whether the host was held up between the two reads for more than a tick
and past the end of its time.

### Artifacts

Runs of attestation, endorse, proof and verify in process slots that share
four files. proof has three forms: as such it sends the tree file as it finds it; with
`--out-payload-cbor` (`prepare`) it writes the request to a payload file and opens no
port; with `--payload-cbor` (`prebuilt`) it sends such a file and never reads the
tree file, so that its proof is about the tree that the payload holds. A run is a sequence of the steps of its `run_*_command` function:
refuse, send, receive, then for each output file open (which empties it), spill,
complete or fail, then verify or decode, and exit. `Program` says which commands
a slot runs. An answer is known by its session and by its quality (genuine, for
another payload, bad); `Verifies` stands for the verdict on whole or torn
contents. `wanted` holds the files a run was asked for, less those that
endorse has given up because it could not open them: what the exit code speaks of. Two history variables: `together`, the
sessions whose two files were on disk, whole, at one time, and `late`, the bytes
lost when a stream was closed.

### Sessions

status, id, lowmode, highmode, off, firmware and timestamp as one exchange each,
and bootlog as two. `Starts` opens the port, which discards what has arrived
(`tcflush`), and sends; `Receives` and `TimesOut` end the exchange, and `Judges`
does what the command's `run_*_command` function makes of the answer, up to the
exit code (`ModeEnds`, `OffEnds`, `StatusEnds`, `IdEnds`, `DataEnds`; for bootlog
`IdentityEnds`, which goes on to the second exchange, and `LogEnds`). An answer
is a record of the request it answers, its flag, and a verdict on its body; the
client reads only the last two. For `ImplementsLog` a log is the numbers of the
exchanges whose answers it holds. The device keeps the requests it has received
and may answer any of them late; an answer sent while a later exchange waits
counts in `late`.

### FaultInjection

`g_swp_malform` over the sessions of a process (`Configures`, `Opens`),
`send_frame_struct` (`Transmits`: which frame is spoiled, how, and what of it the
device can still take for a frame), and below it `serial_send_byte` with the
tracker (`Emits`, `NoteFrameByte`), where any boundary byte may fail to be
written. `tx` records the last transmission. The library's `send_window`, by
which the bridge tells a retransmission, is external: it is taken to note a frame
after `send_frame_struct` returns.

### XmssPlatform

`mcu_xmss.c`, which the repository holds for the device and the Makefile does not
build into the client: `InitRam` (key generation, or its failure, which leaves an
existing key alone), `Sign`, `TestSignVerify`, and `PowerCycle`, with or without
`mcu_xmss_shutdown`. A signature is recorded as the one-time key it used: the key
pair and `SkIndex(ram_index)`, the low bits that `set_sk_index` keeps.

### SourceChain

`verify_attestation_bundle_verbose` as operators: `LeafPos` and `LeafSourceEnd`
(the slots), `CrossChecked`, `L1` and `L2` (an item against the attested leaf hash,
the leaf hash against the tree's node, hashed as the flags say), `OidUsed` and
`VerifyDetached` (key and OID), and `Passes`. Hashes and signatures are ideal;
what is only printed or warned about decides nothing and is left out.

### Requests

The options of attestation, attestation-file and endorse to what is sent
(`Sends`, `Sent`, `Generates`) and to what attestation verifies (`VerifyPayload`,
`Decoded`). `disk` holds the payload files; `DeviceReads` is what the device makes
of what it was sent. Writing a generated file may fail half-way (`Torn`).

### Attest

The composition: a device that signs with `XmssPlatform` answers the requests of
`Requests`, tests itself, is re-initialised and loses power; `SourceChain` judges
every pair of a tree and an attestation, of any two answers, with the payload of
any run or none. That covers `verify` on mixed files and a run that takes a late
answer. `answers` records each answer with its run, request, verification payload
and key, and which answer its leaf hashes were computed for.

### Config

`main`: parse, load the `.env` file that the options name, let the environment
override the defaults, parse again, route. A step per call (`at`), a step per
line of the file (`next`), and the environment as a variable, because
`load_env_file` sets it and `apply_env_overrides` reads it. Options, lines
and files are over `Texts`, those that `Number` converts to an integer as `atoi`
or `strtoul` would.

### The proof modules

`SwpLinkProofs`, `SwpStreamProofs`, `SwpReceiveProofs`, `ArtifactsProofs`,
`SessionsProofs`, `FaultProofs`, `AttestProofs` (for `XmssPlatform` too) and
`ConfigProofs` each extend the module they are named for; section 5 says what they
prove.

## 4. The runs

| Run | Checks | Shows |
|---|---|---|
| `link` | `InOrder`, `AckedIsHeld`, `IInv`, `ImplementsDelivery` | six frames through a window of two with four indices, three frames in flight each way: the indices wrap, old copies survive a lap; order and exactly-once delivery, and what SACKs claim |
| `stream` | `StreamTypeOK`, `SuccessIsComplete`, `FailsOnlyLate`, `CleanClose`, `Terminates`, `CompletionSucceeds` | ten responses, good and bad, one restart of the device at any moment, one lost frame, two lost SACKs or requests; the call ends, a success is complete, a good response fails only by missing the deadline before it completed (or by a restart after it), and the settle time does its work |
| `stream_order` | `ClassesInOrder` (violated) | a tree frame in the middle of the attestation is accepted |
| `receive` | `ReceiveTypeOK`, `ReturnsTheAnswer`, `FailsForAReason`, `AnswerIsConfirmed`, `ReturnsUnlessHeldUp`, `LostRequestIsRepeated`, `ImplementsRestartable`, `Terminates` | responses that fill the buffer, overflow it, are empty, or go on after LAST; one loss of any kind, one restart of the device, two ticks between the reads of the clock: what is in the buffer, why and when a call fails, that a lost request is sent again, what the device knows when the call succeeds |
| `receive_window` | `ReturnsInWindow` (violated) | with two ticks between the reads of the clock the remaining time wraps |
| `artifacts` | `ArtifactsTypeOK`, `AttestationKeptIfFlushed`, `EndorsementIsKept`, `ProofIsAboutTheTree`, `VerifiedWereTogether` | a writer of four runs of attestation, endorse and the three forms of proof, two sessions, one killed run, one loss at close, beside a process that verifies: what exit code 0 says of the files, and what verify may have read |
| `artifacts_late` | `AttestationIsKept` (violated) | an error at close leaves an empty tree behind exit code 0 |
| `sessions` | `SessionsTypeOK`, `OutcomeIsTheDevices`, `LogsAreData`, `ImplementsLog` | three runs of any command, one lost request, one late answer, failed appends seen and unseen: what an exit code says of the device, the more so while no answer crosses into a later exchange, and what can get into a log even if one does |
| `sessions_bootlogs` | `LogsAreBootlogs` (violated) | the late answer to a firmware or timestamp command is appended as a bootlog |
| `faults` | `FaultTypeOK`, `FaultsHitFirstCopies`, `DeviceTakesTrueFrames`, `PausesAfterSmallFrames` | two sessions with every kind of fault, a lost frame, a byte that cannot be written, and retransmissions |
| `attest` | `OneTimeKeysOnce`, `AttestTypeOK`, `AsksWhatItVerifies`, `PassIsOneAnswer`, `PassBindsItems`, `GenuinePasses`, `EndorsementsFit` | from options to verdict: what is verified is what was asked, a pass is one answer and binds its items, a genuine answer passes, and no one-time key signs twice before the indices run out |
| `config` | `ConfigTypeOK`, `OptionsFirst` | every command line of up to two options over two files and two environments: which value a command gets for each member of `AppConfig` |

**Bounds.** In the link, what matters is that positions outrun the index space
(six frames, four indices) with more copies in flight than one window. In
`stream` and `receive` four frames are two windows and one lap of the indices;
deadlines of three ticks with a retransmission time of two let a frame be lost,
resent and still be in time, or be late. Two lost SACKs and one lost frame reach
every mix of a lost final SACK with a retransmission after completion; one restart
falls before, between and after the two responses of a stream. In `receive` a delay
of two ticks is the least that passes the end of the time, and a word of four, one
more than the timeout, wraps at once and keeps the wait that follows finite;
`receive_window` has a word of eight, so that the wait is longer than the window. `stream_order` has no restarts: none is
needed for what it shows. In
`artifacts` two signing sessions are what it takes to mix files, and four runs
allow sign, sign again, prove and verify. In `sessions` a late answer needs two
exchanges and bootlog makes two by itself, so three runs put a foreign exchange
before and after it. In `faults` the window of four is the smallest in which an
index that jumps by too little would fall inside it, and `MAX_FRAME_INDEX` is the
least that `FaultSizes` allows. In `attest` three signatures over two indices are
what it takes to wrap and to stay clear of wrapping, two answers are what it takes
to mix them, two generated keys are one power cycle; trees of depth two, three and
five have no slot, three slots, and the fixed seventeen, and payloads of no, one,
four and eighteen items fit, repeat and overflow them. In `config` two options
suffice to give a setting twice, to name another file, or to do one of each, and a
file that repeats a name shows which of its lines counts. The proofs show that no
safety property depends on these sizes.

**Fairness.** `SwpStream` and `SwpReceive` assume that the host's loop runs, that
time passes, and that the device serves its timer and what it receives. The loop
has no blocking call other than a receive with a time limit, and one thread, so
weak fairness of the host's steps together is what the operating system gives.
Nothing is assumed about new frames of the device: a device that falls silent
must lead to the timeout. The bounds on losses and restarts are part of what
`Terminates` says: each of them may postpone the end of the settle time, and a device
that never stops sending holds `receive_stream_ex` for ever.

**Deadlock.** `SwpStream` and `SwpReceive` check it: until the call has returned
something can happen; so does `FaultInjection`, where a port can always be opened,
configured or closed. `SwpLink` has no clock and stops when its caller does;
`Artifacts`, `Sessions` and `Attest` stop when their runs, answers and signatures
are used up, and `Config` when `main` has exited or called its command: their runs
do not check it.

## 5. What is proved

Every theorem holds for all values of the constants that the named assumptions
admit. TLC evaluates the assumptions in the runs.

**`SwpLinkProofs`** (`Sizes`: an index space of at least two windows; `Bounds`,
`NoFrameFresh`): `InductiveInvariant` (`Spec => []IInv`), `TypeCorrect`,
`DeliveryInOrder` (`InOrder`), `NothingForgotten` (`AckedIsHeld`), and
`LinkImplementsDelivery` (`Spec => Delivery!Spec`, with `base` as what is
confirmed). `InOrder` is not inductive: to know that the frame in slot 0 is the
next one, one must know that the window is aligned with the expected position
(`AlignedInv`); to keep that when a frame arrives, that no copy on the line is more
than a window behind anything the host holds or that was sent before it
(`WireInv`), so that its index cannot be taken for that of a frame one lap later;
and that needs the device's window to contain the host's position (`WindowInv`),
hence that SACKs arrive in order and never claim more than was delivered
(`SackInv`, `SackedInv`).

**`SwpStreamProofs`** (`Times`, `Responses`, `ControlParameters` besides). A step of
the timed call is one of the link, leaves it alone, starts the device anew or hands
a RESET to the host. Between the last two the link's invariant does not hold of the
host, which still has the old window; what holds then is `RecoveringInv`: nothing has
been confirmed to the new start, and no copy on the line is a window ahead of it.
That is enough for the RESET to restore the link's invariant (`ResetRestores`), so
`LinkInv`, the one or the other, is inductive, and with it comes
`StreamImplementsRestartable`. `StreamInv` adds what the collector holds: `Gathered(m)`
says that until completion the byte strings end with the frames handed over since
the last RESET, afterwards with the whole response of m frames, and without a
restart are exactly that; `CollectorInv`, `LateInv` and `OutcomeInv` relate it to
completion, rejection and the outcome. The step to be argued is a frame that arrives
again behind an older copy of itself: the strings then end with one frame more of the
new start, and the flags that the older copies set are those the new ones will set
(`VisitAgain`), or the frame is refused because completion has passed (`VisitLate`).
From it `StreamTypeCorrect`, `SuccessIsWhole` and `FailureIsLate`.
`ClosesClean` needs one more assumption, that
the settle time exceeds the device's retransmission time (1200 ms against 1000 ms),
and one more invariant, `CloseInv`: the time that was quiet is no longer than the age
of any frame the device still waits for, unless one is on the line (`QuietInv`), and
no SACK skips the oldest such frame (`GapInv`), so the settle time cannot pass
without a retransmission.

**`SwpReceiveProofs`** (`ReceiveParameters`, `ReceiveScripts`). The link's invariant is
taken over through a view of the call as a link in which a RESET on the line counts
as handled already, since the device starts anew when it sends it. `ReceiveIInv`
relates to it the flags of the call (`FlagInv`), what was sent (`SentInv`), a RESET
(`ResetInv`), the clock (`ClockInv`), and the buffer, which holds the bytes of the
frames delivered since the last reset behind those of before it (`OutInv`,
`AnswerInv`). From it `ReceiveTypeCorrect`, `AnswerReturned` and `FailureHasReason`.
`AnswersAreConfirmed` speaks of the moment of return only; what is inductive is
that at every point between two drains the device knows of all that was delivered,
or the newest SACK on its way says so, unless one was lost or a RESET is under way
(`ConfirmInv`). That the device's handling of a SACK keeps this rests on the link's
`SackInv`: SACKs are in order and claim no more than was delivered.
`ReceiveImplementsRestartable` maps a RESET that the device sends to `Restart` and
all other steps through the same view of the link.
`LostRequestsRepeated` rests on `RequestInv`: until the device has the request nothing
else is under way, so whatever turn of the loop came before was one without a frame,
and it has sent the request again if it was due. `ReturnsInTime` assumes nothing of the
scheduler: `TimeInv` says that the time left is what it should be unless the host was
held up past the end, and that a wrapped difference is waited out once only, which
bounds the call by the delay and the size of the word. (That the call then misses its
window is what `receive_window` shows.) The sum over a response's bytes is a recursive function; what is needed
of it is shown by the least element of a set of numbers.

**`ArtifactsProofs`** (`ArtifactsParameters`). `ArtifactsTypeCorrect` holds for any
assignment of commands to slots. The others assume `OnlyWriter(w)`: one slot runs
any command and the others only verify. Without it
TLC refutes all four properties (two writers, and for what verify reads a third
process): nothing in the code keeps two writers off each other's files. `WriterInv(w)` says what each file holds at each step of the writer (`KeptInv`) and
which sessions were together when the reader read its first file (`PairInv`). From
it `VerifiedPairs`, `AttestationKept`, `EndorsementKept` and `ProofAboutTree`, the last in
three parts: a proof is about the tree file if the run built its request, about the
payload file if it was given one, and a prepared payload has the tree of the tree file.

**`SessionsProofs`** (`SessionsParameters`). Every request has its own number; an
answer on the line is truthful about a request the device has served (`LineInv`),
an entry of a log is such an answer and no other copy of it is left (`LogInv`), and
as long as no answer came late what is on the line is for the exchange that waits
(`OwnInv`). From `SessionsInv`: `SessionsTypeCorrect`, `OutcomesAreTheDevices`,
`LogsHoldData`. `SessionsImplementLog` is the refinement of `AnswerLog`: that an
append is a `Keep`, of an exchange that was served and is not in the log, is what
`LineInv` and `LogInv` say of the answer a run accepted.

**`FaultProofs`** (`FaultSizes`, `FaultBounds`, `FaultRequests`: an index space of two
windows and three, requests no longer than it). `FaultInv` says that the library's
slots note exactly the frames of its window (`WindowInv`: positions closer than the
window have different slots), that the device holds every confirmed frame and only
sent ones, each at its own place (`StoredInv`), that the number of faults spent is
the number of new frames sent, up to the limit (`SpentInv`), and that the tracker is
idle between frames while no byte was lost (`TrackInv`). From it
`FaultTypeCorrect`, `FaultsAreWhatWasAsked`, `NoFrameForAnother` and
`PausesAreBehindFrames`. An index that jumps misses the device's window by the
`+ 3` of the code, and the proof needs the index space to hold two windows and it.

**`AttestProofs`** (`PlatformParameters`, `AttestParameters`, `OidParameters`). Of the
platform: the index counts the signatures of the key at hand, and only the newest
key has one to come (`PlatformInvariant`); hence `PlatformTypeCorrect` and
`OneTimeKeys`. Every step of the composition is one of the platform or leaves it
alone (`AttestImplementsPlatform`), so `AnswersUseKeysOnce` follows. `AttestInv` says that answers have their
shape and a generated key, that what was verified is what was asked, and what
endorse may have sent; `AttestTypeCorrect` and `VerifiesWhatWasAsked` are two of its
parts. `OneAnswerPasses` follows from the device's own leaves, which differ
from answer to answer and are under the root that is compared. `PassesBindItems`
follows an item from the payload to the attested leaf hash, from there to the
tree's node, and from the node to the request that the answer is for, for trees of
any depth and any hashing flags. `GenuineAnswersPass` is the converse, for what the
device did right: the leaf that the device attests for an item, the node of the
tree at that item's slot and the item itself agree, slot by slot, and key and
signature are those of the answer. `EndorsementsHaveSlots`: endorse sends two items
at most, whatever its options, and three slots are the least a tree of depth three has.

**`ConfigProofs`** (`ConfigParameters`). `OptionsFirst` says what a command gets in terms
of the last entry for a name in the options, the file and the environment. The
invariant says it of the entries read so far, layer by layer (`Layers`): in the
first pass an option that was read has given its name the value of the last one
(`FirstPass`), each line of the file has done so to the environment (`Loaded`), and
in the second pass the options cover what the environment overrode (`SecondPass`);
the file that is loaded is the one that the options name by then. From it
`ConfigTypeCorrect` and `OptionsComeFirst`, for any command line, files, environment
and defaults.

## 6. What is only model-checked

Liveness, which rests on fairness and is beyond the prover: that the receive calls
return (`Terminates`), and that a good response, once complete, ends in a
success (`CompletionSucceeds`). Every other property of the passing runs is the statement of a theorem, and so is
`PlatformTypeOK`, which no run checks.

## 7. What is not modelled

- The byte level of the line (escaping, CRC): a corrupted frame is a lost frame.
  Configuring the tty, and two client processes that open one port, which no lock
  keeps apart (`serial_port_linux.cpp:131`) and which then share what arrives
  byte by byte.
- `swp_transport_receive_frame_ex`: no command calls it. A SACK of a response that
  the device has abandoned and that meets the response begun again: the device and
  its handling of old SACKs are not in the repository, so both lines are taken to be
  empty after a restart.
- Two processes that write the same artifact files, or replace the tree file
  while a proof is under way: nothing in the code relates the files then, and every
  property of `Artifacts` but the types assumes one writer.
- Frames that arrive while `swp_transport_send` still runs and are dropped by the
  reset on entry to the receive call (`swp_client_bridge.c:454`); a device that mixes
  flags within one answer (`:197`); a late answer whose frames mix with those of a
  timely one (in `Sessions` the first whole answer is received).
- CBOR and COSE encoding, SHA-256 and XMSS arithmetic: pure functions on bytes. They
  are ideal here: equal results for equal inputs only, a signature verifies
  with its own key over its own root only.
- The inner levels of the tree: the code takes the last node for the root and does
  not recompute it from the leaves, so `TreeOf` of `Attest` has leaves and root.
- The fields of the proof summary, what commands print, the arithmetic of the GPS
  time, `app_utils.c`, options that end a run before the port is opened,
  `bootlog --no-append` and `--print`.
- Memory: `test_sign_verify` leaks on its error paths (`mcu_xmss.c:331`), and the
  static fallback buffers are too small for the default parameters, so a failed
  allocation is always an error.
- The Makefile and the merge gate: they build and run the tests.

## 8. Disagreements found

1. *Order of classes* (`stream_order`): `tasks/lessons.md` asks commands to assert
   that frame classes come in order; the visitor accepts a tree frame between two
   attestation frames.
2. *Wait window* (`receive_window`): two reads of the clock and an unsigned
   subtraction may turn a window of 1200 ms into one of 2^32 ms.
3. *Write errors at close* (`artifacts_late`): `write_binary_file` reports success
   while bytes are still buffered.
4. *Late data* (`sessions_bootlogs`): firmware, timestamp and bootlog share a flag,
   so the late answer to one is appended as the log of another.

Met while modelling, and in the models where they have state, but shown by no run
of their own:

- endorse skips a file that it cannot open and still exits with 0
  (`cmd_endorse.cpp:43`, `:520`); `EndorsementIsKept` says what its 0 does mean.
- The answer to bootlog's identity request that comes after `--id-timeout-ms` is
  received as the answer to the log request and ends the run with 1, although the
  key is meant to fall back to port and time (`cmd_bootlog.cpp:48`, `:325`).
- bootlog looks at `out.good()` before the buffered bytes are written, like
  `write_binary_file` (`Sessions!AppendFailsLate`).
- `README.md:29` promises strict parsing for `id`, which falls back to printing
  what does not decode as the host id of older firmware
  (`cmd_host_id.cpp:270`, `Sessions!IdEnds`).
- A RESET in the middle of a streamed response clears the window but not what the
  visitor has collected, so an attestation or an endorse may end well with bytes
  twice in front, and one in the settle time may turn a completed response into a
  failure (`swp_client_bridge.c:431`; the premises on `resets` and `resetLate` in
  `SwpStream!SuccessIsComplete` and `SwpStream!FailsOnlyLate`).
- `proof --payload-cbor` compares nothing with the tree file (`cmd_proof.cpp:396`),
  so its proof is about the tree of the payload it sends and only the form without
  payload options is about the stored one; `Artifacts!ProofIsAboutTheTree` states both.
- `crc_payload`, the default kind of fault, alters nothing in a frame without
  payload but counts it as injected (`FaultInjection!Arrivals`).
- `README.md:186` and `:194` describe the four values of endorse as four items of
  source data; `cmd_endorse.cpp:123` joins them into two, which is what lets
  them fit a tree of depth three (`Attest!EndorsementsFit`).
- `mcu_xmss.h` speaks of an index saved every 50 signatures and at shutdown;
  `mcu_xmss.c` saves none, and is safe because a restart makes a new key
  (`XmssPlatform!OneTimeKeysOnce`).
- Nothing refuses the signature after the last index (`mcu_xmss.c:203`).
- Items beyond the tree's slots and a payload that does not decode are warned about,
  and the bundle still passes (`SourceChain!CrossChecked`, `SourceChainOK`).
- A request without leaf hashes always fails attestation's own verification, since
  there is nothing to compare its items with.
- A bare public key whose first four bytes happen to be a known OID other than
  the default is refused (`SourceChain!OidUsed`, and the premise of `GenuinePasses`).
- proof does not compare the indices in the answer with the leaf it asked for, and
  `std::stoll` on the dates of endorse throws past the command.
