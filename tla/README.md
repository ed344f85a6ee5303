# A verification project for fizz

fizz is a TLS 1.3 implementation. This directory holds TLA+ modules that model
it from the event loop and the protocol state machines to the transports, the
services around them and the extensions; TLC configurations that check the
modules on small instances; and proofs, checked by TLAPS, about the event loop,
the two state machines and the connection they make, the transports, session
resumption, the key schedule, certificates and delegated credentials, exported
authenticators and HPKE, for every instance.
Every definition that models code is listed with its lines in `PROJECT.json`
under `map`.

## 1. Inventory of the system

| component | state it keeps | operations | how it interacts |
|---|---|---|---|
| Event loop (`protocol/FizzBase-inl.h`, `client/FizzClient-inl.h`, `server/FizzServer-inl.h`) | queue of pending events, the action guard, `waitForData_`, `externalError_`, `paused_` | app writes, early writes, closes, tickets, key updates, new data, pause/resume, `moveToErrorState` | calls the state machine, visits the actions it returns; the visits call the application, which calls back |
| Record layers (`record/*RecordLayer*`) | key, sequence number, skip flag, unparsed handshake bytes | read an event, write a message | used by the state machines only |
| Server machine (`server/ServerProtocol.cpp`) | `server::State` | one handler per state and event | asks services (ticket cipher, replay cache, signer) that answer later |
| Client machine (`client/ClientProtocol.cpp`) | `client::State` | one handler per state and event | asks the certificate verifier |
| Transports (`AsyncFizzBase`, `AsyncFizzClient`, `AsyncFizzServer`) | chain of queued writes, read buffer, timeout, pending early data | `AsyncTransport` | own an event loop and a socket; call the application from nearly everywhere |
| Tickets and cookies (token, ticket and cookie ciphers, codec, policy) | rotating secrets | seal, open, set secrets | a connection's state goes to the client and comes back later |
| Replay cache, PSK cache | Bloom filter windows; LRU map | test and set; get, put, remove, save, load | asked by the server and by the client |
| Key scheduler, exporter | the current secrets | derive, update, export | driven by the machines |
| Encrypted client hello, HPKE | two hellos, two transcripts, an encryption context | encrypt, decrypt, confirm, retry | inside both machines |
| Certificates, managers, delegated credentials, compression | maps by name; validity | add, choose, issue, sign, verify | used by the machines |
| Exported authenticators | none but the connection's exporter | request, prove, validate | carried by the application |
| Batch signatures (`experimental/batcher`) | an epoch with a Merkle tree | add and sign | threads of several connections share it |
| Kernel TLS (`experimental/ktls`) | keys and numbers handed to the kernel, queued writes | convert, read, write | takes over the socket of a connection |
| Wire encoding (`record/Types-inl.h`, `Extensions-inl.h`) | none | encode, decode, measure | used by all |
| Crypto backends, token binding, extensions of applications, tools | - | - | not modelled, section 5 |

What is hard about this code, and so what the properties are for:

* **Reentrancy**: one thread, but callbacks made while actions are visited call
  back into the loop and into the transport, and a server's actions may come
  later from an executor.
* **Errors while something is in flight**: a transport error between an event
  and the completion of its future, or while a chain of writes is failed; a
  system call that fails after another could not be undone.
* **Records that cross**: early data sent before the server rejects it or asks
  for a retry; key updates requested by both sides; data in flight when the
  other side closes.
* **State kept over a retry**: the second ClientHello, or the ServerHello after
  a HelloRetryRequest, may contradict what was decided before it, and with a
  cookie the state itself travels.
* **Key changes**: every change must start fresh nonces and must happen at the
  same point of the stream on both sides.
* **Time**: tickets renewed over and over, clocks that differ, a filter that
  forgets, a server that restarts, a network that repeats.

`PROJECT.json` lists these hazards line by line, with the properties that would
catch them.

## 2. Modules

| module | models | remarks |
|---|---|---|
| `FizzBase` | the event loop | the state machine is abstract: it returns one of a few lists of actions |
| `FizzBase_proofs` | - | inductive invariants and theorems about `FizzBase` and about `KTLS` |
| `Messages_proofs` | - | lemmas on what both machines are made of: lists of checks, layers, streams of records, lists of calls |
| `ServerProtocol_proofs`, `ClientProtocol_proofs` | - | inductive invariants and theorems about the machines |
| `Handshake_proofs` | - | inductive invariant of the two machines together, and that they agree |
| `AsyncFizz_proofs`, `Resumption_proofs` | - | the same about `AsyncFizz` and `Resumption` |
| `Crypto_proofs` | - | the same about `Hpke`, `ExportedAuth`, `KeySchedule` and `Credentials`, each with an invariant of its own |
| `RecordLayer` | read and write record layers | operators on records; used by both machines |
| `Messages` | handshake messages, transcript, `negotiate` | with predicates on a stream that both machines' properties use |
| `ServerProtocol` | the server machine | one action per handler; `PeerEvent` and `AppEvent` collect them |
| `ServerWithPeer` | a server and a peer that follows no protocol | environment |
| `ClientProtocol` | the client machine | as above |
| `ClientWithPeer` | a client and a genuine or impostor peer | environment |
| `Handshake` | both machines (two INSTANCEs) and the byte streams between them | composition |
| `SecureChannel` | what a connection promises to its applications | abstract specification, implemented by `Handshake` |
| `AsyncFizz` | the transports | call stack in the state |
| `TokenCipher`, `Tickets`, `Cookies` | ciphers, codec and policy of tickets and cookies | operators |
| `Resumption` | PSK cache, tickets, replay filter and an unreliable network over time | composes `Tickets` |
| `KeySchedule` | two key schedulers, the exporter, stateless retries | composes `Cookies` |
| `ExportedAuth` | exported authenticators | extends `KeySchedule` |
| `Hpke`, `ECH` | HPKE and encrypted client hello | `ECH` composes `Hpke` |
| `BatchSignatures`, `KTLS`, `Wire`, `Credentials` | as named | |
| `Subsystems` | key schedule, exported authenticators, HPKE and ECH, batch signatures, KTLS, wire encoding and credentials side by side | one behaviour is about one part |
| `MC*` | constants for TLC | |

### FizzBase

Variables are the members of `FizzBase` plus the stack of the thread:
`inProcessPendingEvents` (the loop is on the stack), `mode` (what the action
guard is held for: nothing, a visit, a pending future, or a future that failed)
and `draining` (`moveToErrorState` is calling writers). A call of the
application is possible exactly when application code is on top of the stack
(`UserTurn`). `submitted`, `handled`, `dropped` and `failed` are history.
Lists of actions are abstracted to what the loop notices: a change of state to
open, error or closed, `WaitForData`, `ReportError`, and a callback.
`Role = "server"` has every behaviour of `"client"` and asynchronous
completion, so the run uses it; the proofs hold for both.

### RecordLayer and Messages

A key stands for a traffic secret: level, side, generation, and the transcript
it was derived from. Encryption is ideal: a record opens under exactly the key
and sequence number that sealed it. A handshake message cut by a record
boundary is a `Front` and a `Back`, so "handshake data that spans a key change"
and "unparsed data left at a key change" exist in the model. The transcript is
the sequence of messages hashed; two transcripts are equal when the hashes are.

### ServerProtocol and ClientProtocol

One action is one event: the handler and the visit of all the actions it
returns. That granularity is what `OneEventInFlight` of `FizzBase` justifies,
which is proved. Services that a handler awaits answer nondeterministically
(`Services`, `Verdicts`, `TicketResults`). A handler's checks are a sequence of
`[fails, alert]` pairs in the order of the code, of which the first that fails
decides the alert. `calls` records what the application is told, `in` and
`out` are the byte streams. Left out of both: encrypted client hello (a module
of its own), application-supplied extensions, external PSKs on the server,
record padding, lengths, and the contents of certificates.

### Handshake and SecureChannel

`ClientProtocol` and `ServerProtocol` joined: what one step appends to one
side's `out` is appended to the other side's `in`. The streams are reliable and
ordered, as TCP is, and read at any pace. The applications respect the
transports' contract: they write once told they may and not after closing.

`SecureChannel` knows no handshake, record or key: two streams, the client's
early data in front of its other data, one decision on early data. The mapping
takes what was written from the two applications' requests, what was received
from `calls`, and the decision from the server's `earlyDataType`.

### AsyncFizz

Everything runs on one thread but nearly every function calls the application
or the socket, which may call any function of the same object. `stack` holds a
frame per function that has not returned; an action runs the innermost one up
to its next call. A client connects on a socket that is good, on one that has
broken meanwhile, by address, or by address without a socket that could; with or
without a timeout. `base`, `sub` and `sock` are the members of `AsyncFizzBase`,
of its subclass, and the socket. `FizzBase` appears again, in the detail the
transport sees. The protocol machine is reduced to the actions that reach a
transport. Data are counted in units of `kPartialWriteThreshold`.

### Resumption, Tickets, TokenCipher, Cookies

Time is counted in ticks, several to the second, so that the truncations of
`TicketCodec` and of the serialised PSKs show, and ages are masked modulo a
small `AgeMod`. The filter has cells, buckets and a timer that may be late;
`CellsOf` lets different hellos share cells. The network repeats and delays
hellos. Checks of the filter run elsewhere and answer at any later time; the
server uses an answer no more than `bounds.answer` ticks after the filter gave
it (`Answered`, a condition of `Tick`). The server may restart.

### The parts of Subsystems

* `Hpke`: key encapsulation, key schedule, both contexts; messages are repeated
  and reordered; `SeqLimit` stands for `UINT64_MAX`.
* `ECH`: the two hellos, padding, inner and outer transcripts, the confirmation
  in the random, retry configurations, stateful and stateless retries.
* `BatchSignatures`: a batcher per thread or a shared one, the Merkle tree with
  its random leaves, paths, signatures that come late or fail.
* `KTLS`: the conversion with a failure at each of its system calls, reads by
  record type, and the writes of the two kinds of socket. A socket that fails is
  dead at once and tells its writes one by one (`DeliverWriteErr`); in between
  the application may write again, into a queue that is being failed or into a
  dead socket, which refuses the write before it returns.
* `Wire`: every message and extension as the sequence of fields that the code
  writes, reads and measures; a byte is below `ByteBase`, so lengths overflow in
  small values. Values are encoded, damaged (cut, extended, a byte changed) and
  read.
* `KeySchedule`: a secret is the term it was computed by. Two ends with a
  scheduler and a transcript each go through full, resumed and retried
  handshakes; a stateless server may be another process with other secrets or
  preferences when the cookie returns.
* `ExportedAuth`: authenticators are delivered anywhere, also cut and mixed.
* `Credentials`: certificates and delegated credentials are issued, added,
  chosen for a peer, sent compressed or not, and checked on another clock.

## 3. Runs

| run | question | bounds |
|---|---|---|
| `fizzbase` | does the loop keep its queue exact, never overlap events, lose no wake-up, never leave a terminal state, and settle every event, under every reentrancy? | 2 submissions, 1 unread record, 1 write callback, futures that fail |
| `server` | negotiation and sessions with an arbitrary peer and application: retries, early data, skipping, client authentication, key updates, closes | 5 contexts with 26 hellos, 3 records and 1 request; 2 contexts with 2 or 3 hellos, 5 or 4 records and 2 requests; right and wrong binders, any single service failing |
| `client` | negotiation and sessions with the genuine server or an impostor | 2 scenarios (5 contexts with 1 request, 2 contexts with 3 requests), all server messages, 5 records |
| `handshake` | do two fizz ends implement a secure channel, agree, never fail, and deliver? | 8 pairs of configurations, 2 client and 1 server requests, closes |
| `graceful_close` | does a graceful close wait for the peer? (violated) | 1 pair, 1 request each side |
| `transport` | writes, reads, errors and the handshake callback of a transport under every reentrancy | 5 configurations: up to 3 writes of up to 2 units, 3 other calls, 4 records, failing sockets |
| `transport_live` | do the handshake and every write settle? | 2 client configurations, each with and without a timeout, 2 writes, 1 other call |
| `half_open_rekey` | is a key update initiated after the configured bytes? (violated) | 1 server, 1 write |
| `resumption` | replays and renewals over time | 4 seconds of 2 ticks, 2 hellos, 3 arrivals, 2 connections, 1 restart, 4 buckets of the filter, answers used up to 1 tick late |
| `subsystems` | one question for each of the eight parts | see `MCSubsystems` |
| `ech_configs` | does a server open a hello for any of its configurations? (violated) | 1 client, 2 configurations |
| `ktls_refused` | can a fizz socket be used after its conversion was refused? (violated) | the setups and faults of `subsystems` |

Why these bounds: in `FizzBase` two submissions give a queue of two behind a
busy machine and an event submitted after an error; three records are a hello,
the second hello after a retry or a flight, and one that should not be there; five
records take a session through a client's flight and on to a key update or a
close; two requests per side give two key updates that cross, or early data
followed by data. Three writes are one that is being written, one queued behind
it and one more queued by a callback; a write of two units is cut into pieces.
Four seconds exceed the validity of a ticket, a round of the filter's buckets
and the tolerance of clocks. `CHECK_DEADLOCK FALSE` is set throughout because a
connection that is closed, failed or waits for its application stops.

### Properties

Event loop (`FizzBase`): `QueueIsSuffix`, `FailedAreDropped`, `NoLostWakeup`,
`TerminalIsAbsorbing`, `OneEventInFlight`, `EventsSettle`,
`ErrorReachesWriters`.

Server (`ServerProtocol`): `RetryIsHonoured` (one retry, and the ServerHello
keeps to it), `EarlyDataIsGuarded` (early data delivered only after a
resumption, a clean replay cache answer and no retry), `SkippingIsJustified`
(undecryptable records ignored only from a client that offered early data that
was not accepted), `ClientAuthEnforced`, `WritesAreSound` (no nonce twice under
one key, nothing after an alert), `DataUnderDataKeys`.

Client (`ClientProtocol`, `ClientWithPeer`): `OptionalsAreSet` (no handler
meets an unset optional), `RetryIsFollowed`, `ServerAuthenticated` (no
handshake with an impostor), `EarlyDataAllOrNothing`, `WritesAreSound`.

Both (`Handshake`): `Agreement`, `NoSpuriousError`, `IsSecureChannel` (the
refinement of `SecureChannel`: nothing lost, repeated or reordered, early data
first and as a whole or not at all), `DataArrives`.

Transports (`AsyncFizz`): `WritesAnswered`, `StreamInOrder`,
`ChainHasOneOwner`, `HandshakeReportedOnce`, `NoDataLost`, `ReadsResumed`,
`HandshakeSettles`, `WritesSettle`. `WritesAnswered` and `WritesSettle` have named
exceptions, each of them something the code does: a write that the state machine
refuses with an exception loses its callback (`hist.lost`), and so do the
requests queued behind it (`Stranded`). `HandshakeSettles` and `WritesSettle`
hold whatever the peer does where `connect` was given a timeout. Every overload
of `connect` has none by default (`client/AsyncFizzClient.h:91,102,115`), and
then nothing in the code ends a handshake with a silent peer, or one that the
application closed: its callback and the writes kept for its end are never
answered. For such a client the two properties only say that they are answered
once the transport was told of an error, the machine failed or the handshake
completed (`SomethingEndsIt`).

Over time (`Resumption`): `EarlyDataOnce` (per process of the server: the filter
is not persistent), `TicketsRespectPolicy`.

Parts: `ECHAgreement`, `HpkeInOrder`, `BatchSignaturesVerify`,
`KTLSContinuesStream`, `WireRoundTrip`, `KeySchedulesAgree`,
`AuthenticatorsBind`, `CredentialsHold`, each stated in front of its definition.
`KTLSContinuesStream` names the one case in which data of the peer ends the reads
of a socket without a reason in the stream: a conversion refused half way, which
is the subject of `ktls_refused`.

Every property has a mutant in `PROJECT.json`: a plausible bug of the modelled
code under which TLC finds it violated.

### Fairness

`FizzBase!Fairness` is weak fairness of the code on the stack and of the
executor. `EventsSettle` carries a premise: the loop prefers socket data to
queued events, so a peer that never stops sending may delay a write as long as
it likes; it also excepts a future that fails, which the loop drops without a
word (`server/FizzServer-inl.h:75`; the server machine never returns one).

`Handshake!Fairness` is weak fairness of `connect`, `accept` and of each
machine's reading, which is what `EventsSettle` and `NoLostWakeup` give; nothing
is assumed of the applications.

`AsyncFizz!FairSpec` is weak fairness of the code on the stack, of a scheduled
timeout, of the socket completing or failing its writes, and of a detached
transport being attached again. Nothing is assumed of the peer: a timeout, where
`connect` was given one, is what ends a handshake with a silent one.

### What the violations show

`graceful_close`: `tlsShutdown` says a close will "wait to receive a close
notify from the other end" (`client/AsyncFizzClient-inl.h:226`,
`server/AsyncFizzServer-inl.h:111`, `protocol/FizzBase.h:86`). In
`ExpectingCloseNotify` the machine handles nothing but a close_notify: data or a
ticket that the peer had already sent is an invalid event and ends the
connection in an error. The run is the shortest such exchange.

`half_open_rekey`: `setRekeyAfterWriting` promises a key update after so many
bytes. A server may write after its own flight, but `KeyUpdateInitiation` has a
handler only after the client's Finished, so reaching the threshold before it
fails the connection.

`ech_configs`: `decodeAndGetParam` (`protocol/ech/Decrypter.cpp:29-52`) decodes
the extension for every configuration from one cursor. With two of them, a hello
for the second one makes it read past the end, and the exception ends the
handshake. In the other runs a server with two configurations that have the same
identifier is served by the first.

`ktls_refused`: `tryConvertKTLS` promises that on failure "future I/O operations
on |fizzSock| are allowed" (`experimental/ktls/AsyncFizzBaseKTLS.h:201-203`).
`tryEnableKTLS` installs the receive key before the transmit key
(`experimental/ktls/KTLS.cpp:312-322`) and the first cannot be taken back: when
the second is refused the caller keeps a fizz socket under which the kernel
decrypts, so that the next data of the peer fails it.

### Observations

Met while modelling, not the subject of a run.

* A server that prefers `psk_ke`, whose ticket cipher rejects a ticket in the
  first ClientHello (so a retry names a group) and accepts it in the second,
  fails with illegal_parameter (`server/ServerProtocol.cpp:1566`). It fails
  closed.
* With encrypted client hello, the PSK binder of the second hello covers only
  the hash of the first (`client/ClientProtocol.cpp:1594-1602`, the retry is
  appended at 1651), while the server checks it over both; and a stateless retry
  with an encrypted hello cannot be accepted.
* `experimental/batcher/Batcher.h:66` says "select the first matched batch
  scheme" and takes the last; an epoch below its threshold is never signed.
* `AsyncFizzClient::writeAppData` during a handshake that will send early data
  and then does not (`client/AsyncFizzClient-inl.h:360`) loses the callback of
  the write. `close()` on a good transport leaves the remaining pieces of a
  queued write unanswered until the socket ends.
* The replay filter remembers a hello for 11 of its 12 bucket widths
  (`server/SlidingBloomReplayCache.h:31`): `WindowAssumption` asks for a
  tolerance below that.
* The server computes the skew of a ticket's age when it uses the filter's
  answer (`server/ServerProtocol.cpp:1353`), not when it asks. A hello that
  comes once before its time by the client's clock and once after, with the
  first answer held back for longer than the filter remembers, passes both
  tests twice. Proving `EarlyDataOnce` showed this: the tolerance and the time
  an answer may wait must together stay below the window, which is what
  `WindowAssumption` says; nothing in the code bounds that wait.
* `TicketPolicy::shouldAccept` does not look at `ticketValidity_`; the client is
  told of it. Tickets of one connection share a nonce and so a PSK.
* Kernel TLS: the second handshake message of a record is dropped; an empty write
  of the receive-only socket is not answered.
* Credentials: a `PeerDelegatedCredential` takes the credential's key type for
  its parent, so one of another type is always refused; a certificate with an
  invalid second name stays registered under its first after `addCert` threw; a
  credential of the longest validity is refused by a peer whose clock is behind.
* Exported authenticators: bytes after the third message are ignored, and the
  scheme of the signature is not compared with the requested ones.

## 4. Proofs

Every theorem holds for all values of the constants that satisfy the named
assumptions, which TLC evaluates for the values of the runs. Each specification
has one inductive invariant, proved with one step per action and, where
an action disturbs several parts, one per part; TLC checked the invariants on
the runs' instances before they were proved.

### The event loop

`FizzBase_proofs` proves, for every set of callbacks, either role and all
bounds, from the assumptions `RoleAssumption`, `TokenAssumption`,
`FutureAssumption` and `BoundAssumption` only:

| theorem | states |
|---|---|
| `TypeCorrect` | `Spec => []TypeOK` |
| `QueueExact` | `Spec => []QueueIsSuffix` |
| `FailuresExact` | `Spec => []FailedAreDropped` |
| `WakeupsKept` | `Spec => []NoLostWakeup` |
| `TerminalForever` | `Spec => TerminalIsAbsorbing` |
| `EventsDoNotOverlap` | `Spec => OneEventInFlight` |

They rest on one inductive invariant, `Inv`, proved in `Invariance` with one
step per action. It adds to the properties what makes them inductive:

* `StackInv`: the guard is held exactly when `mode` is not idle; a drain only
  happens under `externalError`; the loop on the stack with an idle machine
  means it may run; a pending future means the loop has returned; an idle
  machine has no actions left. `NoLostWakeup` needs these to exclude that a call
  is turned away by a guard nobody will release.
* `QueueInv`: `dropped > 0` only under `externalError`. Without it an event
  could be handled after one was dropped and the order of history would break.
* `ActionsInv`: an action that opens the connection is the first of its list and
  never pending in a terminal state. This is what makes a terminal state
  absorbing while actions are visited.

### The server's state machine

`ServerProtocol_proofs`, for every set of contexts, hellos, services and
requests. Nothing is assumed of the constants, nor of the input: `PeerIsAny`
shows that the specification TLC runs implies `AnyPeer`, in which any step may
replace all that the server has not read yet by anything at all, and the
invariant is proved for `AnyPeer`. So no bound on the peer, and no restriction
on what its messages may be, is part of the theorems.

| theorem | states |
|---|---|
| `InvHolds` | `AnyPeer => []Inv` |
| `ServerWritesAreSound` | `Spec => []WritesAreSound` |
| `ServerHonoursRetry` | `Spec => []RetryIsHonoured` |
| `ServerGuardsEarlyData` | `Spec => []EarlyDataIsGuarded` |
| `ServerEnforcesClientAuth` | `Spec => []ClientAuthEnforced` |
| `ServerSkippingIsJustified` | `Spec => []SkippingIsJustified` |
| `ServerDataUnderDataKeys` | `Spec => DataUnderDataKeys` |

`Inv` consists of

* `LayersInv`: in which states there is a layer to read and to write with. An
  alert is written with whatever layer there is, so that there is none after the
  end is what keeps anything from following an alert.
* `StreamInv`: the keys the server writes with come in an order (none, plain,
  handshake, generations of the application key), and no record written so far
  has the current key and a number not below the current one. `WritesAreSound`
  alone does not say that a re-created layer starts under a key never used.
* `RetryInv`: what the HelloRetryRequest in `out` announced is what the state
  remembers, as long as there is no ServerHello.
* `CallsInv`, `AuthInv`, `SkipInv`, `KeysInv`: in which states the application
  has been told of the (early) success, where the client's certificate stands,
  when the read layer may skip, and under which level it reads.

### The client's state machine

`ClientProtocol_proofs`, with the same kind of peer, from `ScenariosAssumption`:
the offered versions and ciphers are not the value for "none", and the messages
of a scenario have the types they are listed under.

| theorem | states |
|---|---|
| `InvHolds` | `AnyPeer => []Inv` |
| `ClientOptionalsAreSet` | `Spec => []OptionalsAreSet` |
| `ClientFollowsRetry` | `Spec => []RetryIsFollowed` |
| `ClientWritesAreSound` | `Spec => []WritesAreSound` |
| `ClientEarlyDataAllOrNothing` | `Spec => EarlyDataAllOrNothing` |
| `ClientAuthenticatesServer` | `Spec => []ServerAuthenticated` |

`Inv` has parts like the server's; `OptionalsInv` says which optional is set in
which state, and `EarlyInv` where early data stands in each state, from which
the action property `EarlyDataAllOrNothing` follows step by step.
`ServerAuthenticated` is about what an impostor can make, so it needs the peer
of `Spec` and an invariant of its own, `ImpostorInv`: as long as the peer is an
impostor, what the client has received of it contains no signature over the
transcript, and once a ticket is resumed nothing in the stream opens.

### The connection

`Handshake_proofs` proves `HandshakeAgreement`, `Spec => []Agreement`, for every
set of configurations of a client and a server, all bounds, any number of
records in flight and any interleaving, from `ConfigurationsAssumption` only:
the PSK modes of a server are modes of the protocol. An end that is configured
so that no handshake succeeds is included; what the theorem says is that two
ends that do complete one do not differ.

`Agreement` relates two machines that never see each other's state. The
invariant `IInv` has five parts:

* `ServerTypes`, `ClientTypes`: the shape of an end's state (sequences, layers
  with what they have not parsed, the fields of what is negotiated).
* `ServerInv`, `ClientInv`: what an end holds as negotiated is what its own
  transcript shows (`Outcome`: version, cipher, group, key exchange and PSK as
  the ServerHello says, the protocol and early data as the EncryptedExtensions
  say), and the client is authenticated exactly if the transcript shows a stored
  certificate or a signature after the server's Finished.
* `JointInv`: what a message in flight commits its sender to (`FromServer`,
  `FromClient`). A Finished carries the transcript it was made over; the
  receiver takes it only when that is its own transcript. So a client that is
  done has the server's transcript up to that point, hence by `Outcome` the same
  results and keys, and a server that is done has a client that was done before
  it, with the same whole transcript, certificate messages included.

Messages in flight may sit in several records, in one, or partly parsed in a
layer; `InFlight` collects them, and the lemmas on it show that reading only
takes away and that writing adds what was written. `ServerStep` and `ClientStep`
say what a step of one end amounts to for the other; every handler is proved to
be such a step, and the joint part is then preserved by these two alone.

### The transports

`AsyncFizz_proofs`, for either role, every application that calls back from
anywhere, every depth of the call stack and all bounds, from
`ConfigsAssumption` only: the configurations are records of the settings, and
the limit on unread data is not zero (`SettingsOf`).

| theorem | states |
|---|---|
| `TransportInvariant` | `Spec => []Inv` |
| `TransportReportsOnce` | `Spec => []HandshakeReportedOnce` |
| `TransportResumesReads` | `Spec => []ReadsResumed` |

Both properties speak of the moments when no call is running. In between, a
callback may be told and the machine not yet moved, or a reader be set and the
reads not yet started, so `Inv` says of the frames on the stack what they are
still going to do (a smaller index is nearer the top and returns first):

* `StackInv`: at most one visit of actions is on the stack; a list of actions
  that opens the machine goes on to report success; a `moveToErrorState`
  has the call that tells the reader behind it.
* `GuardInv`: the action guard is held while actions are visited or awaited.
  Without it two visits could overlap and both report.
* `StartInv`: a transport not asked to connect has nothing set.
* `ReportInv`: while the handshake callback is set nothing was reported, there
  is no error, and every `moveToErrorState` has a `deliverHandshakeError` before
  it; a machine that is open with the callback still set is in the visit that is
  about to call it. This is what makes the timeout, the socket's error and the
  machine's success exclude each other.
* `DataInv`: no data are buffered before the handshake is reported, so a full
  buffer never stops the reads of a handshake (here the limit must not be zero);
  a machine that waits for data has none.
* `ReadInv`: a reader without the socket's reads has a `setReadCB`, an `attached`
  or a `deliverError` pending on the stack.

The operators that split the work of one call over several frames are proved to
keep `Inv` one by one; `NextKeepsInv` has one step per action of `Next`.

### Resumption over time

`Resumption_proofs`, for every number of connections, filter, policy, tolerance,
list of secrets and clock, from `TicketsAssumption`, `ResumptionAssumption`
(types) and `WindowAssumption` (the filter's window exceeds the tolerance and
the wait of an answer, see the observations).

| theorem | states |
|---|---|
| `TicketsHold` | `Spec => []TicketInv` |
| `ServerRespectsPolicy` | `Spec => []TicketsRespectPolicy` |
| `InvHolds` | `Spec => []Inv` |
| `ServerDeliversEarlyDataOnce` | `Spec => []EarlyDataOnce` |

`TicketInv` follows a ticket through the codec, the cache, its serialised form,
the network and a renewal: the handshake time it carries, rounded down each
time, is never later than the full handshake took place. `ReplayInv` is about
the filter: a random that it was asked about at time t is still in one bucket b
of each of its cells, and the bucket in use has moved k places since, each after
a whole bucket's width, or the window has passed (`Remembers`). Hence two
answers "not seen" for one random are a window apart, two deliveries of one
hello lie within the tolerance and the wait of each other, and
`WindowAssumption` excludes both.

### HPKE, exported authenticators, the key schedule and credentials

`Crypto_proofs` takes each of four parts of `Subsystems` alone (`HpkeSpec`,
`ExportedAuthSpec`, `KeyScheduleSpec`, `CredentialsSpec`), as the parts of `Subsystems` share no
variable.

| theorem | states |
|---|---|
| `HpkeOpensInOrder` | `HpkeSpec => []HpkeInOrder` |
| `AuthenticatorsAreBound` | `ExportedAuthSpec => []AuthenticatorsBind` |
| `KeySchedulesHold` | `NoneIsNoFunction` implies `KeyScheduleSpec => []KeySchedulesAgree` |
| `CredentialsAreRight` | `NoneIsNoFunction` implies `CredentialsSpec => []CredentialsHold` |

HPKE, for every limit of the sequence number: `TrafficInv` says that both
contexts stay what the inputs of the two ends derive but for their numbers,
which count what was sealed and opened; `BoundAlike` and the lemmas after it
show that the derivation is injective in exactly the inputs that `Bound` keeps.

Exported authenticators, for every set of connections, certificates, requests
and schemes, from `ExportedAuthAssumption` (the absent value is none of the
values it stands for). `AuthInv` says that an authenticator is what its end
makes, and that every message of a delivery, however it was cut and mixed, was
made by somebody. The key of a Finished tells the connection and the direction;
what it is over tells the request, the certificate and the signature; so the
maker of an accepted Finished made the other two messages too, for this request.

The key schedule, for every set of setups, tokens, tickets and key updates, from
`KeySetupsAssumption` (a handshake without a key share has a PSK, early data is
accepted only without a retry) and from the hypothesis `NoneIsNoFunction`, that
the absent value is not a record or a sequence. It is a hypothesis of the theorem
and not an assumption of the module because TLC cannot evaluate it for a model
value. `KeysInv` goes phase by phase (`HelloInv`, `FlightInv`, `OpenInv`): the
scheduler of each end is the term that the setup and the transcript determine,
and after a retry the server has, or can get back from the cookie, the
transcript that the client continues. `HeldInv` is about the secrets that were
taken: each is a term of setup and transcript (`Fixed`) or the next generation
of one that is held (`Moved`), and they are pairwise different for different
uses and generations (`Apart`), which is carried along as the set grows: a label
tells the use, and an update is injective and gives nothing derived otherwise.

Certificates and delegated credentials, for every set of chains, names, peers
and clocks, under the same hypothesis and `CredentialsAssumption` (a chain has a
leaf and a leaf has names, none of which begins with an empty label; times are
integers). `CredInv` has five parts besides the shape of the state. `PemsInv`:
an issued credential tells its parent, by the signature over it, its key and its
end. `ManagersInv`: whatever a manager holds it holds under a name and a scheme
that the certificate has, and a credential in it was issued for this role and is
signed by the key of its leaf. `AddedInv`: every certificate that was added can
be found, itself or one that was there before it. `ShownInv` and `JudgedInv`: the
choice and the verdict are functions of the managers, the peer and its clock. The
lemma `NameLookedUp` says that the two lookups by key, direct and wildcard, find
exactly the names that fit the one asked for. The assumption on names is needed
there: a name `.x` and the wildcard `*.x` have one key in `CertManager`, so the
first would be chosen for a name it does not fit.

### Kernel TLS

`FizzBase_proofs` ends with the socket that takes a connection over, alone
(`KTLSSpec`): `KTLSStreamContinues` states `KTLSSpec => []KTLSContinuesStream`,
for every set of setups, writes and records of the peer that satisfies
`KTLSAssumption` (numbers are naturals, a write is not empty, a handshake record
holds a sequence of messages). The invariant
`KTLSInv` has two independent parts, `Writing` and `ReadInv`; `Writing` is
`WritesInv` while the socket is alive and `FailedInv` after it has died.

* `WritesInv`: every write that was made is answered, in the socket, or in the
  queue, in this order (`Counted`); the numbers in the socket run on from those
  that went out to the layer or the kernel (`Numbered`); the socket holds one
  piece of the head of the queue exactly while the queue is not empty (`Held`);
  and the piece that goes out next follows the last that went out (`InOrder`).
  `QueuedWriteRequest` starts the next request, and its callbacks may write
  again, before the step is over, so the lemmas are about `WriteInv`, in which
  the held piece may be missing.
* `FailedInv`: what went out stays as it is, and every write that was made is
  answered or still waits to be told, in the socket or in the queue behind its
  first request, and none is both (`Waiting`, `Owes`, `Lined`). The lemmas
  `FailedStep` and `DeadWriteKeeps` are the two things that happen to a dead
  socket: the first of those waiting is told, and a callback writes again.
* `ReadInv`: the kernel's number is that of the next record, handshake messages
  that are not parsed yet come from the records that were taken, what was
  delivered is the data among them, each once and in order, and reads that ended
  at data ended for one of the reasons that the property names (`Stopped`).

### Only model-checked

* Liveness (`EventsSettle`, `ErrorReachesWriters`, `DataArrives`,
  `HandshakeSettles`, `WritesSettle`): out of the prover's reach.
* `IsSecureChannel`: its mapping filters the calls of both machines with
  `SelectSeq`, a recursive definition about which nothing can be proved here.
* `NoSpuriousError` of `Handshake`: unlike `Agreement` it holds only for ends
  that fit each other, which the configurations of the run list one by one and
  no assumption on the constants states; every check of every handler would have
  to be shown to succeed on what the other end sends.
* The transports: `StreamInOrder`, `ChainHasOneOwner` and `NoDataLost` are
  stated with folds over sequences and functions, for the same reason;
  `WritesAnswered` speaks of every write that was ever made, and would need of
  each which frame, queue or chain holds its callback.
* `BatchSignatures` and `Wire`, which use recursive operators, and `Subsystems`,
  which includes them.
* `ECHAgreement`, whose operators walk lists of extensions with `SelectSeq` and
  folds.

## 5. Not modelled

* Extensions supplied by applications (`ServerExtensions`, `ClientExtensions`):
  callbacks that add opaque data and keep no state in the library.
* Token binding, Java crypto: one check, or glue.
* Cryptographic primitives and backends: idealised as said in section 2.
* Command-line tools and utilities; tests and benchmarks.
* In the modelled parts: record padding and sizes, PEM files, zero-copy buffers,
  the GREASE form of encrypted client hello without a configuration, external
  PSKs on the server; certificate names whose first label only begins with a star
  (`CertManager` would file `*foo.x` under `foo.x`; whether it should fit that
  name is a question the code does not answer). A ticket of the format before
  handshake times is decoded as the code does (`HandshakeTimeOf`), but nothing
  makes one: along renewals of such tickets the code has no time of the full
  handshake to keep to. The write sequence number is bounded far below 2^64,
  where `EncryptedRecordLayer.cpp:203` throws.

## 6. Plan

Done: the modules of section 2 and the proofs of section 4. Left:

1. `WritesAnswered` of the transports.
2. `NoSpuriousError`, from an assumption that says when two configurations fit.
3. Encrypted client hello inside the two protocol modules instead of beside them.
