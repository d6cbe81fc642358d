# A TLA+ model of betterkey

betterkey nodes agree on one master key, keep it sealed on disk, and derive keys
from it for attested clients. This directory models the parts of the program whose
correctness depends on the order of events: processes, goroutines, messages,
commands to Valkey, crashes and signals.

`PROJECT.json` holds the inventory (components, runs, mutants, the map from
definitions to source lines, findings, hazards, theorems). This file explains them.

## The system and its parts

| part | source | state | operations | module |
|---|---|---|---|---|
| node | `cluster/node.go`, `state.go` | state, key file, inMessages, member list | Start, loop, NotifyMsg, MergeRemoteState | `ClusterBase`, `Cluster` |
| seeding | `cluster/seed.go` | generatedKey, keyExchangeStat, otherSeedNodes, otherMembers | start as master or slave, keyReceived, forward, checkCleanup | `Seed` |
| key query | `cluster/query.go` | goroutines that ask and answer | queryKey, handleQueryKey, handleKeyResponse | `Query` |
| validation | `cluster/validate.go` | goroutines that challenge and answer | challenge, answer, check | `Validate` |
| process | `cluster/bootstrap.go`, `web/server.go`, `Node.Shutdown` | countdown, server, signal channels | start, serve, stop, shut down | `Bootstrap`, over `NodeLife` |
| transport | `cluster/transport/tls.go` | connections, WaitGroup, shutdown flag | NewNetTransport, tcpListen, IngestPacket, Shutdown | `Transport` |
| attestation of nodes | `sgx/enclave.go` | certificates and their reports | NewNodeTlsConfig, its verifier | `Enclave` |
| heartbeats | `cluster/heartbeat.go` | samples, lastRunTs | sending, arrival, run, nonce check, processWindow | `Heartbeat` |
| certificate lock | `web/cert`, `db/valkey.go` | one Valkey key with a TTL | Lock, Unlock, Store | `CertLock` |
| key server | `web/*.go`, `db/valkey.go` | sessions, RSA keys | init, finalize, CreateRSA | `KeyServer` |
| attestation of clients | `web/attestation.go`, `internal/tdx` | quotes, event logs | Verify of both | `Attestation` |
| key material | `web/key_service.go`, `crypto/keygen.go` | what a key is derived from | HKDF, TDXSeal, ECDSA | `KeyMaterial` |
| journal | `providers/journal`, `web/server.go` | objects of a bucket | logJournal, Write, upload | `Journal`, composed with the server in `KeyApi` |

The node's READY starts the server (`Bootstrap`); the server and certmagic use
Valkey, which all nodes share; nodes talk through memberlist over the transport.

What makes this code hard: messages are sent once and dropped in the wrong state;
the member list is read at one moment and used at another; a crash falls between
forwarding a key and sealing it, between the truncation of a file and its write,
or between two commands to Valkey; goroutines read a clock or a field before they
take its lock; a shutdown meets work in flight.

## How the models correspond to the code

**Cluster.** `Cluster` composes `Seed`, `Query` and `Validate` over `ClusterBase`.
A node is `status` (NodeState.state, `"DOWN"` without a process), `main` (where
Start() is), `disk` (the key file: a key, none, or torn), `sealing` (loop() is
between receiving a key and writing it), `jobs` (goroutines with work left) and
`net` (messages on their way or in inMessages). Numbers stand for sorted node
names. Each handler of loop() is one action; a handler that writes the key file is
two, so that a crash can fall between. `Loop` takes any pending message, since each
travels on a connection of its own.

Memberlist is external. A read of the member list returns any set of nodes that
have been up (`booted`), with READY for any that once gossiped it (`wasReady`);
`AlwaysListed` names nodes that a run keeps in every list. `SendReliable` succeeds
only while the receiver runs, and may fail though it does (`MaxFailures`). Keys
drawn by rand.Read never repeat. Encryption is perfect: an answer to a challenge
opens only under the key that made it.

A cluster starts in one of two ways. In `Spec` no node has a key file. In `JoinSpec`
the joiners may have any, from elsewhere or from an older cluster of the same id.
Every behaviour of `Spec` is one of `JoinSpec`.

Assumed: a node's configuration is the same after a restart; key files survive a
crash unless it falls into the write; the 1024 places of inMessages suffice.

**MasterKey** is the abstract specification: one node creates the key, others
copy it, no file changes. The refinement maps `file[n]` to `disk[n]` (a torn file
counts as none).

**NodeLife** is the other abstract specification, of a single node: the order of
its states, and that it has the key when it is READY. `Bootstrap` is built on it,
and every node of `Cluster` is shown to implement it. So what `Bootstrap` shows of
the server rests on what the cluster does and not on an assumption.

**Bootstrap** is one process. `stage` is where Bootstrap.Start is, through
KeyServer.Start and Node.Shutdown; `stop` and `signalCh` are the two signal
channels. A signal with no channel registered ends the process (os/signal,
external). NotifyMsg is two steps, so that Shutdown can close the channel between.
NewKeyServer is taken to return: it does not while the certificate lock is stuck.

**Transport** has the accepting goroutine (`lpc`, `cur`), the IngestPacket
goroutines, the WaitGroup and Shutdown. A peer completes its half of the handshake
before it learns what this side makes of its certificate, so it may write first.
The verdict is that of `Enclave`: the first certificate is self-signed, its first
report is genuine, is over the certificate's key, and tells of an enclave with this
node's configuration. Creating and verifying reports is ego's part (external).
memberlist receives from both channels until Shutdown has returned.

**Heartbeat** splits arrival into reading the clock and appending, and a run into
reading the clock and splitting. A heartbeat is a nonce and the nonce sealed with
the sender's key; nodes that are not READY send none, and MergeRemoteState passes
on none of its own. Windows without data are left out.

**CertLock** has one action per Valkey command: WriteNX is HSETNX, HSET, EXPIRE;
Unlock is HGET, DEL. A failing command may or may not have been executed. `overran`
and `stranded` are history: an owner outlived its TTL, a Lock ended after its HSETNX
without an expiry. What certmagic does under the lock is external: look for the certificate, obtain it.

**KeyServer** has sessions, each an id with its nonce, and concurrent finalize
requests of both kinds. WriteWithTTL is HSET, EXPIRE. A request presents a quote of
some VM and an event log, and `Attestation` decides: a register stands for the
sequence of digests it was extended with, and a log verifies when its replay gives
the registers of the quote, its first SecureBoot variable says enabled and it has a
firmware blob. The quote's signature is a verdict. A derived key stands for the
inputs of HKDF (`KeyMaterial`), so two keys are equal when all their inputs are;
the info string is a sequence of words, with the separator a word that ids may hold.
The scalar of ECDSA is arithmetic over a small base.

**Journal** has one goroutine per logged outcome that uploads the record, the quote
of a key request, and last the marker. Each upload may fail, or the process may
end, which is the end of that write. `KeyApi` composes it with the key server: a
request that passed verification logs its outcome and answers in one step.

## What the runs check

Passing runs:

| run | instance | shows |
|---|---|---|
| `foreign_joiner` | 2 seed nodes, any member lists, 1 crash, and the panics a node of another cluster causes | `AgreementInv` (the inductive invariant), `ClusterIsolation` |
| `join_crash` | 2 seed nodes, 1 joiner, 2 crashes, 1 failed send | `KeyAgreement`, key files never change, refinement of `MasterKey` and, node by node, of `NodeLife` |
| `seed_live` | 3 seed nodes, no crash | `TypeOK`, the exchange is wiped only when complete, no panic, an exchange that begins aligned completes |
| `join_live` | a joiner with or without a key file of its own that may crash twice | `ReadyAgreement`, `JoinerServed` |
| `bootstrap` | 3 signals, 2 messages | served only when READY and with a key; READY leads to serving; Shutdown ends |
| `transport` | 2 connections of any kind, with good certificates or ones with a single fault, a failing bind, 1 error of Accept | the inductive invariant `TransportInv`, only verified peers are routed, nothing leaks, nothing outlives Shutdown, Shutdown returns, written packets arrive even across it |
| `heartbeat` | 5 push/pulls: two of a peer, one each of a peer with another key, a peer without one, and this node itself | the inductive invariant `HeartbeatInv`, reported totals and what waits or was dropped add up to what arrived; errors mean another key; From; window length; each heartbeat is accounted for |
| `cert_lock` | 2 threads of a node, 1 of another, 2 crashes, 2 failed commands | the inductive invariant `LockInv`, mutual exclusion, the certificate is kept, nobody waits for ever unless a Lock stopped before its EXPIRE |
| `key_sessions` | 3 sessions, 2 concurrent requests, 1 failed command, 1 crash | the inductive invariant `ServerInv`, sessions expire; a used one is refused later; what CreateRSA can lose; a sealed payload opens with the key of the VM it was sealed for and no other |
| `key_journal` | 2 sessions of one or two milliseconds, 2 outcomes, 1 aborted write | the inductive invariant `ApiInv`, a marker leads to a record; what is journaled as issued was; what was issued is journaled |

Runs that refute what the repository says (details under `findings`):

| run | property | what happens |
|---|---|---|
| `challenge_retry` | `ChallengeAnswered` | the retry loop never sends after one failure |
| `cert_crash` | `LockReturns` | a crash before EXPIRE leaves an eternal lock |

### What the properties do not promise

Each premise below is needed: the models have behaviours that break the property
without it.

- `SeedingCompletes` starts when every seed node is SEEDING with the others in its
  member list and the first has not sent its key yet. A KEYINIT that reaches a node
  in NO_KEY is dropped and never sent again, so a cluster may stay in SEEDING.
- `JoinerServed` is checked with seed nodes that stay up. The joiner asks one node
  once; if that node has just crashed, it waits for ever beside another READY node.
- `ReadyAgreement` is checked and proved with foreign key files on joiners. A seed node does
  not validate its file, so two seed nodes given different files are both READY.
- `NoPanic` is proved for a first seed node that does not crash and nodes of one
  cluster. A first seed node that crashes while it seeds draws another key when it is
  back, and `keyReceived` panics on a second key; NotifyMsg panics on a foreign sender.
- `MutualExclusion` and `CertificateKept` end when an owner has overrun its TTL.
- `NoReissue` speaks of requests that begin after an answer, and allows one session
  per failed DEL, which the handler only logs.
- `RsaLossBounded` allows what CreateRSA does: concurrent requests for a new id each
  generate a key and the last write wins; the error of the write is ignored.
- `ShutdownEnds` speaks of a Shutdown that has begun, and allows the process to die
  of the panic of a NotifyMsg that sends to the closed channel. One SIGINT alone
  stops the server and leaves the node in the cluster, waiting for another signal.
- `ReadyServes` counts a listen that failed: the code logs it and stays up.
- `FromAfterClose` says what From is: never before the end of its window.
  `common.go:88` calls it the lowest timestamp of the window; no listener of the
  repository reads it.
- `IssuedKeysJournaled` leaves out sessions of which a write was aborted: the server
  logs the error and does not repeat the write.
- `SealedPayloadOpens` is about the inputs of a derivation. A P-256 key cannot be
  derived when the top byte of its scalar is zero, and a P-384 key never, since
  `crypto.ECDSA` passes on the scalar without its leading zeros and draws it from 32
  bytes: `DeriveFails` is enabled there. The request then fails with its session gone.
- `ClusterIsolation` is proved for seed nodes of one cluster. The run has a joiner
  of another.
- `Accounted` counts a dropped heartbeat. One that is stamped before a run and
  appended after it is dropped by the next run.

### Bounds

Three seed nodes are the least for which forwarding between slaves matters, and two
keys the least that can differ: the second is drawn by a node that seeds again. Both
at once, with crashes, are left to the proofs, which hold for any number of each. One
joiner suffices for query and validation, which involve two nodes. Crashes,
restarts and failed sends are bounded by named constants. Two heartbeats of one peer
fall into one window, into two, or one of them is dropped, and each other kind of
sender needs one; three lock threads give a rival on the
same node and one on another; three sessions let a third client see what two
concurrent ones did. Two connections are one that is being accepted and one being
ingested; a faulty certificate always comes with a packet, which is what must not
get through. Two firmwares, a VM without Secure Boot and one without a firmware blob,
with the logs of all of them and one of another kernel, tell every check of
`Attestation` apart; digits to base 4 with a curve as long as the key and a longer
one stand for P-256 and P-384. Two outcomes are the least that overwrite each other
in the journal. `foreign_joiner` lets member lists omit any node. Deadlock is not checked where the system
may stop: bounds are used up, or every request was served.

### Fairness

`Cluster`: each node that can take a step takes one (goroutines are scheduled, a
supervisor restarts processes, gossip arrives). `Bootstrap`, `Heartbeat`,
`CertLock`: goroutines run, commands are answered, the ticker ticks, Valkey removes
expired keys. `Transport`: also, a peer goes on or leaves. The peers of this
program dial with a timeout, and TCP keep-alives end dead connections; a live peer
that stalls would hold up the accept loop, which has no deadline. Nothing is
assumed of signals, crashes, or failures.

## What is proved

With TLAPS, for all values of the constants that meet the named assumptions:

| theorem | statement |
|---|---|
| `ClusterProofs!Agreement` | `Spec => []KeyAgreement` |
| `ClusterProofs!ReadyAgrees` | `JoinSpec => []ReadyAgreement` |
| `ClusterProofs!TypeCorrect`, `Exchanges`, `Invariance` | `JoinSpec => []TypeOK`, `[]AgreementInv`, `[]Inv` |
| `ClusterProofs!RefinesMasterKey` | `Spec => ImplementsMasterKey` |
| `ClusterProofs!RefinesNodeLife`, `KeysStable` | `JoinSpec => ImplementsNodeLife`, `SealedKeyStable` |
| `ClusterSafety!CleanupSafe` | `JoinSpec => []CleanupAfterCompletion` |
| `ClusterSafety!Isolation` | `Spec => []ClusterIsolation`, if the seed nodes are of one cluster |
| `ClusterSafety!OneSeedNeverSeals` | with one seed node no node ever has a key or is READY |
| `ClusterSafety!SeedsOnce`, `NeverPanics` | `Spec => []OneSeeding`, `NoPanic`, if the first seed node does not crash and all nodes are of one cluster |
| `ProcessProofs!BootInvariance`, `ServedWhenReady` | `BootSpec => []BootInv`, `[]ServesOnlyReady` |
| `ProcessProofs!TransportInvariance` | `Spec => []TransportInv` (of `Transport`) |
| `ProcessProofs!OnlyVerified`, `NoLeaks`, `Quiet` | `Spec => []RoutedVerified`, `[]NoneLeaked`, `[]QuietAfterShutdown` |
| `ProcessProofs!LockInvariance`, `LockExcludes` | `LockSpec => []LockInv`, `[]MutualExclusion` |
| `ProcessProofs!CertificateSafe` | `LockSpec => CertificateKept` |
| `ProcessProofs!HeartbeatInvariance` | `BeatSpec => []HeartbeatInv` |
| `ProcessProofs!ErrorsOfStrangers`, `FromIsLate`, `WindowsAreShort` | `BeatSpec => []ErrorsMeanOtherKey`, `[]FromAfterClose`, `[]WindowSpan` |
| `ProcessProofs!CountsAddUp` | `BeatSpec => []CountedOnce` |
| `KeyServerProofs!ServerInvariance` | `Spec => []ServerInv` (of `KeyServer`) |
| `KeyServerProofs!SessionsExpire`, `ReissueBounded`, `RsaLosses` | `Spec => []KnownSessionsExpire`, `[]NoReissue`, `[]RsaLossBounded` |
| `KeyApiProofs!SealedPayloads` | `Spec => []SealedPayloadOpens`, if `LogsAgree` |
| `KeyApiProofs!JournalIsHistory` | `ApiSpec => Spec`: the journal adds no step to the server |
| `KeyApiProofs!ApiInvariance` | `ApiSpec => []ApiInv` |
| `KeyApiProofs!MarkersHaveRecords`, `JournalTellsTruth`, `JournalTellsAll` | `ApiSpec => []MarkerHasRecord`, `[]JournaledKeysIssued`, `[]IssuedKeysJournaled` |

*Agreement.* `KeyAgreement` is not inductive: it says nothing of keys in messages,
goroutines and exchanges. `Inv` is `TypeOK` with `AgreementInv` (module
`ClusterInv`): what the state of a process says about its file (`Lifecycle`) and
its exchange (`Exchange`); the keys that goroutines and messages carry
(`Goroutines`, `Messages`); that every key outside the exchange, but for the
file of a joiner that is not READY, was sealed by a seed node (`Provenance`); that a seed node holds one key (`OneKey`). The heart is
`NoCrossing`: when two seed nodes have heard different keys of one another, one of
them still is in the life that sent its key. Two seed nodes that have both sealed
have heard of one another, so their keys are equal. A READY node has a key that a
seed node sealed: it seeded, or it copied one, or the challenge was answered with the
key in its file. That is `ReadyAgreement`, whatever files joiners bring. When they
bring none, `FilesSealed` is preserved too: every file is a copy, which is
`KeyAgreement`.

`ClusterTypes` has the lemmas on bags of messages and goroutines and the type proof,
`ClusterFrame` the steps that do not touch keys, `SeedProofs` those of the exchange,
`ClusterProofs` sealing, crashes, the theorems on keys and the refinements,
`ClusterSafety` the rest.

*CleanupSafe, Isolation, OneSeedNeverSeals* each add a small invariant to `Inv`. When
checkCleanup runs, the forwarding before it has put an entry for every other seed
node into the exchange (`Goroutines`), so the sizes it compares are equal, and it
wipes only when all were heard; such a node is sealing or READY (`CleanupSafe`). A
key, and an answer that carries one, is only ever with nodes of the seed nodes'
cluster, and no message from another is handled (`IsolationInv`). With one seed node
nobody is among its `otherSeedNodes`, so keyReceived never ends the exchange.

*SeedsOnce, NeverPanics.* Three things make a process panic: a KEYINIT that meets an
exchange which is closed or has another key, an answer to a challenge that does not
match the file, and a message or a member list of another cluster. The last is excluded
by hypothesis (`SameCluster`). For the first, `OneSeeding` says that at most one key was
ever drawn, that the first seed node, which drew it, still is in the life it drew it in,
and that messages, goroutines and exchanges carry no other key. Then no key is rejected
for being another one; and none meets an exchange that was wiped, since a wipe needs all
other seed nodes heard (`CleanupSafe`) and the node goes on to seal. For the second, both
keys of a challenge were sealed by seed nodes, so they are equal (`FilesSealed`, `Inv`).
The first seed node must not crash: one that crashes while it seeds draws a second key
when it is back, and a node that has heard the first panics on it. Joiners and the other seed nodes may crash, restart and be late as they like.

*The refinements.* `RefinesNodeLife` maps a node's `status` and whether it has a
readable file, and follows each action of `Cluster` to a step of `NodeLife` or a
stutter; `Lifecycle` tells that READY is set only with a file. `RefinesMasterKey`
needs more: a file that is written must be the first or equal to one that is there,
which is `KeyAgreement` in the state after the step.

*Transport.* `TransportInv` says that the WaitGroup is the number of ingesting
goroutines and the accept loop together, that the connection in the loop's hands is
not also ingested, and that after the handshake it is verified or closed. Without the
count, `QuietAfterShutdown` is not inductive: nothing says that a wait that ended
left nobody behind.

*LockExcludes, CertificateSafe.* `LockInv` says that, until an owner has overrun its
TTL, a thread in its critical section created the key that is there, and one about
to store found no certificate. A lapse then needs its creator gone, and a delete
comes from the creator. Mutual exclusion alone is not inductive: it does not say
whose key a lapse or a delete removes.

*ServedWhenReady.* The server starts on a countdown that another goroutine ends when
it takes a notice from a channel. `BootInv` follows READY along that way: a READY in
`notices`, a countdown that ended, and a later stage each mean that the node is READY.
It never leaves READY and has a key then, which is `NodeLife`, proved of the cluster.

*Heartbeats.* `OnePlace` and `WindowsApart` say that a heartbeat that arrived is in one
place only. The rest of `HeartbeatInv` orders the clocks (`lastRunTs` against a run
that has read its time) and says that a report was computed from its window.
`CountsAddUp` turns this into numbers. `CountedOnce` sums the totals over the set of
reports with a fold of the community modules, whose value is fixed by an induction over
finite sets. `SubsetInduction` makes one available in a form the prover can use: the
property is given as a set of subsets, and a smallest counterexample exists since the
strict subsets of a finite set are well-founded. Any function of sets of reports that
grows with each report by its total then is the fold (`SumOfTotals`), and the number of a
peer's heartbeats in the windows is such a function, because windows are disjoint
(`ReportsApart`). That the sets are finite is an invariant of its own (`FinitelyMany`).

*KeyServer.* `NoReissue` counts sessions that were answered twice, which is not
inductive: the damage is done by a failed DEL long before. `Exposed` are the sessions
for which it may still happen: the record of a spent one is left, or a late request
has read it. `ServerInv` bounds them by the failures. A spent session is one of
which a request has come past its DEL, answered or not. `RsaKept` counts, beside the
lost keys, the requests that are about to write one: each can lose one more, and
none that begins after the first write can.

*SealedPayloads.* TDXSeal and the key endpoint build the info text along two ways.
`SealKey` can equal `DeriveHKDF` in the wrong mode, context or id only if two texts
with separators in them coincide: the lemmas compare them word by word from the left.
The seed is a concatenation too; the first part has one length
(`MeasurementAssumption`), so both are told apart. `Attested` ties the seed of a
request to what was measured in its VM. For that a log must tell the firmware that the
registers hold (`LogsAgree`): the type of an event is not in its digest, and the code
looks the firmware up by type.

*The journal.* `MarkerHasRecord` needs what the writes under way have uploaded before
(`Uploaded`): a marker is put after the record, and records are overwritten but never
removed. `JournalTold` adds that a write that tells of an issued key was started by
the request that issued it. All this is over a bag of writes, since two requests of a
session may log the same outcome.

The assumptions are those named in the modules, and TLC evaluates each on the runs:
seed nodes are a finite set apart from the joiners, keys differ from the markers for
none, dummy and torn, bounds are naturals, the marker for no connection is none,
requests are handled by finitely many goroutines, texts are sequences of words that
include the constants of the code, MRTDs have one length. `LogsAgree` is no assumption
of a module but a hypothesis of the one theorem that needs it; `MCKeyServer` has it
as an ASSUME for the logs of the run.

Every invariant and every action property that a passing run checks is proved. Only
model-checked is all liveness (`SeedingCompletes`, `JoinerServed`, `ReadyServes`,
`ShutdownEnds`, `ShutdownReturns`, `PacketsArrive`, `Accounted`,
`LockReturnsUnlessStranded`): the prover has no rule for fairness. Of the operators,
nothing is proved about which scalars have the length of a curve (`DerivesECDSA` in
`KeyMaterial`): the provers know nothing of powers.

## What is not modelled

- The cryptographic primitives: AES, HKDF, SHA-256, signatures, x509 encoding. They
  have no state; the models use what they promise.
- Binary parsing of quotes and event logs, and the verification of signatures by
  go-tdx-guest and ego: a verdict.
- The TLS configuration without SGX, which accepts every certificate.
- `FinalAdvertiseAddr`, `List` and `Stat` of Valkey and the certificate storage:
  they change nothing. `IngestStream`, `RemoveRSA` and `SignWithECDSA` have no caller.
- The DNS provider, a choice of a library's object.
- Configuration parsing, shared types and HTTP plumbing (decoding, headers, logging,
  the health and attestation endpoints): stateless, and no property here depends on
  more than the values they produce.
- memberlist's own protocol, certmagic and Valkey, which are external: the models
  have what the code relies on.
