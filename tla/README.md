# A specification of ladkg-rs

TLA+ models, model-checking runs and machine-checked proofs for the
asynchronous lattice-based distributed key generation in this repository.
`n` is the number of nodes, `f` is `num_faults`. Paths are relative to the
repository (`ladkg/...` is `src/ladkg/...` in `PROJECT.json`).

## 1. The system

A node is one process with three layers. Each layer is a task (Delphi: one task
per instance) that owns its state and handles one event at a time in a
`tokio::select!` loop. Layers are joined by channels, nodes by one TCP mesh per
layer (`TcpReliableSender`: retries until acknowledged, keeps the order of a
link).

```
 node/src/syncer.rs    ALIVE* -> StartVSS,  SkComplete*/PkComplete* -> STOP
        |  SyncMsg
 ladkg  node/context.rs      VSS: private share, public share, signed reply,
        |         ^          transcript;  then key share and public key
        | Transcript | Vec<Transcript>
 consensus/aacs context.rs   common subset of transcripts: RBCTrans, RBCIndexSet
        |         ^
        | (leader, high|low) | (leader, value)
 consensus/delphi            approximate agreement on high or low, one task per leader
```

The common coin (`hashrand`) gives coin 10 to AACS (the leaders) and coin 20 to the
key generation (the public matrix).

### Components, their state and operations

| component | state | operations |
|---|---|---|
| **Key generation** `ladkg/src/node/context.rs` | `pub_shares`, `unvalidated_shares`, `validated_my_share`, `certificate`, `counting_down`, `transcripts`, `decided_trans`, `th_sk`, `th_pk_shares`, `th_pk` | StartVSS -> `sharing_phase`; VSSPrivateShare, VSSPublicShare -> `verify_my_share`; VSSReply -> `gen_transcript(_instant)`; ACS result -> `handle_acs_result`, which waits for the coin; DKGPubKey |
| **AACS** `consensus/aacs/src/node/context.rs` | `leaders`, `trans_buffer`, `indices_buffer`, `indices_broadcasted`, `delphi_joined`, `delphi_terminated`, `indices_decided`, `final_set`, `terminated` | own transcript; RBCTrans; RBCIndexSet; Delphi result; `check_termination_condition`, `check_final_set` |
| **Delphi** `consensus/delphi/src/node` | `round`; per level a map of intervals; per interval and round a `RoundStateBin` (senders of ECHO1/ECHO2 per value, flags, termination value); `consensus_tx` | `start_baa`, `process_baa_echo`, `process_baa_echo2`, `coalesce`/`expand`, `aggregate`, result forwarding |
| **Transcript** `types/src/msg/dkg/trans.rs` | certificate, public share, supplementary shares | `verify`, `is_id_valid`, (de)compression; made by `gen_transcript` |
| **Syncer** `node/src/syncer.rs` | `alive`, `th_sks`, `th_pks` | ALIVE, SkComplete, PkComplete, StartVSS and STOP broadcasts |
| **crypto_blstrs** (a library the key generation does not call) | `SignatureSet`: `keys`, `sigs` | polynomials, interpolation, sharing a key, collecting and combining partial signatures, KZG, Feldman and vector commitments, DLEq proofs, coins |
| **Configuration generator** `tools/genconfig`, `config` | the key matrix `sec_keys` | the loops that draw a key for each pair of nodes, the parameters chosen by default, `validate` |
| handlers, `node/src/main.rs`, message types, `crypto`, `util`, `benchmark` | none that changes | forwarding, start-up, formats, wrappers, deployment |

### What is hard about it

* Nothing is synchronised: the messages of one layer come in any order, nodes are
  in different rounds and phases, and a layer may be given its input late.
* Handlers call each other (`process_baa_echo` -> `process_baa_echo2` ->
  `start_baa` -> `process_baa_echo`), with values computed before the call used
  after it.
* A handler may wait inside (the coin, a full channel) and hold its loop up; one
  task (`gen_transcript`) runs beside the loop on shared state.
* Nodes stop, in the middle of a broadcast too; at most f of them are allowed for.
* A sender that gets no acknowledgement sends again, and a handler forwards before it
  acknowledges: an ALIVE, a StartVSS or a report can come twice.
* What must hold is about several nodes at once: the same subset, the same dealers,
  one public key.

`hazards` in `PROJECT.json` lists these at their lines, each with the properties
that would catch it going wrong, or why none does yet.

### What makes each component correct

* Key generation: no task dies; a signer holds the share it signed for; a transcript
  can be opened without its dealer; all nodes sum the same f + 1 dealers; the public
  key is the one of the secret key shares; all live nodes get both keys.
* AACS: agreement, a large enough and available output, finality, termination.
* Delphi: a round stays in the range it began with; opposite outcomes have common
  voters; what at most f nodes hold loses; an instance ends only when n - f nodes joined it,
  on a side one of them joined with; intervals and coalesced messages change nothing; a
  result lies in the range of the inputs; every live node hands a result over.
* crypto_blstrs: what is combined is a signature, no holder counts twice, fewer shares than
  the threshold tell nothing; algorithms for one thing agree; commitments and proofs
  open to one value.
* Transcript: one that passes serves every node exactly once, by a signature or by a
  supplementary share, and what a node makes passes at all others.
* Syncer: once all are alive every node that stays up gets both keys; STOP means that all
  have them; without crashes all hear it.
* Configuration: two nodes share a key nobody else has; the default parameters suit all layers.

## 2. The modules

| module | models | notes |
|---|---|---|
| `RoundStateBin` | `roundvals_bin.rs` | pure operators on one round of one checkpoint |
| `BinAA` (extends `RoundStateBin`) | `baainit.rs`, `process.rs`, `context.rs`, and of `level.rs`, `interval.rs` what they do per checkpoint | the Delphi task of one instance at each node |
| `Level` (extends `RoundStateBin`) | `level.rs`, `interval.rs`; `coalesce`, `expand`, `aggregate` of `baainit.rs` | pure operators on the interval map of one level, on echoes and on results |
| `Delphi` (extends `Level`) | the same task as `BinAA`, with intervals, coalesced messages and the aggregation | implements `BinAA` per checkpoint (`PerCheckpoint == INSTANCE BinAA WITH ...`) |
| `Outcome` | - | abstract: what one Delphi instance promises AACS; `Delphi` implements it, `AACS` takes it |
| `AACS` | `consensus/aacs/.../context.rs` | Delphi by its promise, `DelphiMay` |
| `CommonSubset` | - | abstract: what AACS promises LADKG; `AACS` implements it, `LADKG` takes it |
| `LADKG` | `ladkg/.../context.rs`, `Transcript::verify` | ACS by its promise, `AcsOutput` |
| `KeyGeneration` | - | abstract: what the key generation promises; `LADKG` implements it |
| `DKG` (extends `LADKG`) | `node/src/syncer.rs`, and what the nodes tell it and hear of it | the run from ALIVE to STOP, with messages sent twice |
| `Transcript` | `types/src/msg/dkg/trans.rs`, `gen_transcript_instant` | transcripts as the sequences they are, ids and all; the link to `LADKG`'s view of them is `VerifiesAsSent` |
| `GenConfig` | `tools/genconfig/src/main.rs`, `Node::validate` | the key matrix and the default parameters, with their theorems |
| `Polynomial` | `crypto_blstrs`: `polynomial.rs`, `lib.rs`, `crypto/mod.rs` | pure operators on polynomials over a field of `Prime` elements |
| `ThresholdSig` (extends `Polynomial`) | `crypto_blstrs`: `threshold_sig.rs`, `crypto/threshold_sig.rs`, `poly_commit`, `vector_commit.rs`, `dleq.rs` | the set of partial signatures as a state machine; commitments and proofs as operators |
| `AACSProofs`, `BinAAProofs`, `LevelProofs`, `DelphiProofs` | - | proofs about the modules they extend |
| `ThresholdSigProofs` | - | proofs about `Polynomial` and, after that, `ThresholdSig` |
| `LADKGProofs` | - | proofs about `LADKG` and, at its end, `DKG` and `Transcript` |
| `FirstFew` | - | lemmas on the first few elements of a finite set in a total order |
| `MCBinAA`, `MCDelphi`, `MCAACS`, `MCLADKG`, `MCDKG` | - | instances and schedulers for TLC |

The layers are joined by abstract specifications. Each is implemented by the layer below
and is all that the layer above takes of it:

```
 DKG  ==>  LADKG  ==>  KeyGeneration                        RunsLADKG, GeneratesOneKey
             |  takes CommonSubset                          TakesCommonSubset
           AACS   ==>  CommonSubset                         IsCommonSubset
             |  takes Outcome, one instance per leader      TakesOutcome
           Delphi ==>  Outcome (without SameSide),  BinAA per checkpoint
                                                            KeepsPromise, RunsPerCheckpoint
```

`==>` is an implementation, by a refinement mapping. Each is checked by TLC on an instance and
proved for every value of the constants: `IsCommonSubset` under `SameSide`, `GeneratesOneKey` if
enough nodes deal once, and the two of Delphi if its two values are far enough apart.

Variables and actions carry the names of the fields and handlers they stand for; the
map in `PROJECT.json` gives the lines. Some definitions have a twin directly before
them (`HighThreshold`/`HighThresholdLow`): the twin is a plausible mistake, used to
show that a property can fail, and no specification refers to it.

### BinAA

A node is a record `[input, round, rs, out, blocked, sent]`. A handler is a chain of
functions from record to record in the order of the calls in the code, `sent`
collecting what it broadcasts; `Run` installs the final record and sends. This keeps
the recursion `process_baa_echo -> process_baa_echo2 -> start_baa`, and the flag
`terminated` computed before the middle call and used after it.

Abstractions:

* *Levels and intervals.* `Interval`s are groups of checkpoints with equal state. The
  model keeps one state per checkpoint class, so `split`, `compress` and the walk over
  the interval map vanish; "zero", "lo" and "hi" stand for the checkpoints nobody
  weighs, those around the low input, those around the high one.
* *Coalescing* is taken to be transparent. `Delphi` says when both hold: in a run in which nodes
  join with one value, or with two whose intervals neither overlap nor touch, it implements
  `BinAA` checkpoint by checkpoint (proved: `RunsPerCheckpointHolds`); where they overlap, coalescing is not transparent (`delphi_gaps`),
  and `BinAA` is what the code means to be.
* `start_baa` calls `process_baa_echo` on the node's own message. Its ECHO1 is already
  counted by `start_round`, so with n - f >= 2 it can be amplified but cannot complete
  a quorum (assumption `BinAAAssumption`), and the recursion ends there.
* `Level::add_echo` can hand one message twice to an interval that it splits. `Level`
  has both hearings. The second adds no sender; for f >= 1 and n - f > f + 1 it repeats
  nothing that was sent (`EchoPerPoint`).
* Slots are counted as the code counts them: whatever is not the first value of a round is counted
  in the second slot. A round may hear of three values, two and their midpoint, when the
  round before was left with all three (`binaa_third`).
* `aggregate` is left to `Delphi`: the runs look at the value each checkpoint ends with.
* MACs always verify.

### Level and Delphi

A level is the sequence its `BTreeMap` is walked in: intervals `[start, end, state]`, from
`MinPoint` to `MaxPoint`. `SplitFor` cuts it where an echo begins and ends; `LevelEcho` then
has the two loops of `add_echo`: the interval that the echo just cut off on its left
(`Fresh`) hears it once, everything in its range (`Told`) hears it again. `Coalesce` and
`Expanded` are the two ends of a message: a message holds `vals` per level below `from`, and
one point for the levels from there on.

An echo of a level is walked through entry by entry (`Tell`), with what it has done to the
intervals so far; `Compress` pushes what they say, in order, and merges at once.

`Points` are integers of `Width` bits (64 in the code): `Wrapped` is the arithmetic of
`aggregate` on the ends, which wraps in a release build. Intervals that reach the ends carry
weight 0 when inputs are far from them, so that the wrapped widths do not count.

`Delphi` repeats the handlers of `BinAA` over levels instead of checkpoints. The refinement
mapping picks the points where some node's intervals begin or end (`Bounds`) as checkpoints,
reads the state of each from the interval that covers it, and a message as what it says once
expanded. Nodes do not stop here: nothing in `Delphi` is about progress, so a node that
stopped is one that takes no more steps.

### AACS

A transcript is the name of its maker. `DelphiMay(l, p, high)` lets an instance end at
a node once n - f nodes joined it, on a side somebody joined with. `SameSide` is an
assumption made visible: the results of one instance at all nodes lie on one side of
`(high_val + low_val) / 2`. Delphi guarantees them to be within epsilon of each other
only, and the code compares them with a constant, so this is an assumption about the
input values (`tri` large against epsilon makes a straddle rare, not impossible).
`Agreement`, `SomethingDecided` and `IsCommonSubset` depend on it, the other properties do not,
and the proofs say so. It does not follow from `Delphi`: with the parameters of
`delphi_levels` and two camps, TLC in simulation mode finds runs in which one instance ends
at 10 for one node and at 7 for another, with the threshold at 7. (With as few levels and
rounds as that the model is further from agreement than the generator's formulas are; how
far those keep a straddle away is open.)

`Instance(l)` reads an `Outcome` off the variables of AACS: who joined instance l on which
side, and where it ended. `TakesOutcome` says that each of them is a behaviour of
`Outcome`: AACS never counts on more than Delphi promises.

### LADKG

Shares, signatures and keys are named by the nodes they come from: a key is the set
of dealers summed. `BadShares` and `BadPublic` are shares that do not verify. The
delayed transcript is two steps (`ReadCertificate`, `PublishTranscript`) as the task
reads the certificate at line 515 and publishes at line 542. A wait for coin 20
(`awaiting_coin`) holds the run loop of that node up.

Abstractions:

* A reply that passes the check at line 300 just before the spawned task publishes, and
  is added just after, only extends a certificate nobody reads any more; the model
  makes the handler one step.
* Coin 20 may arrive whether or not this node has asked for it: an over-approximation
  for safety.
* `Transcript::verify` checks signatures and the partition of the nodes by certificate
  and supplementary shares; it does not ask for 2f + 1 signatures, and neither does
  `Verifies`. `Transcript` has the check in full; `VerifiesAsSent` compares the two on
  every transcript a run makes.
* *A second sharing.* `Again` are the nodes StartVSS may reach twice. The second deals new
  shares and replaces the store, while the public share of the first stays with everyone, and
  what is sent of the second changes nothing (it comes behind the first on every link).
  `reshared` and `unfit` note whose supplementary shares are then taken from the wrong
  store. It is one step: a repeat while a node waits for the coin is taken after the wait.
* Reconstruction (`shamir_reconstruct_r`) succeeds exactly when the shares belong to
  one key.

### DKG

`DKG` composes `LADKG` with the syncer. A step of a node is a step of `LADKG` together with
what it reports (`FormSecretKey`, `FormPublicKey`), or the handling of StartVSS and STOP;
steps of the syncer leave `LADKG` alone, so that `DKG` implements `LADKG` by the identity.

* *Mail.* Reports travel to the syncer and StartVSS and STOP to the nodes; `startMsgs`
  counts, since every StartVSS deals. The receivers' `Dispatch` may leave a message in
  flight once more, as when its acknowledgement is lost: `Resent` names the kinds it happens
  to, `MaxResends` how often. Only here is a repetition modelled: between nodes every
  handler is idempotent (sets of senders, `or_insert`), apart from StartVSS.
* `Conclude` runs after every message and sends STOP whenever both tables are full,
  again and again; nodes only log STOP.
* A node that stops may lose the reports it had not sent (`StopNode`).
* Restarts are not modelled, since the code has nothing to recover from: no state is
  persisted. A node started anew has lost the shares it signed for and counts as one that
  stopped; its ALIVE, if all had been alive, is for the others the repeated ALIVE of
  `dkg_resent`.

### Transcript and GenConfig

`Transcript` has certificate and supplementary shares as sequences in which an id may be
missing, doubled, or out of range, and the two loops of `is_id_valid` by what they accept
(`CertOnce`, `SuppleOnce`, `Overlap`, the two counts). Replicas are numbered from 0, keys and
shares from 1: `KeyId`. `ServesAll` is what the counts are for.

`GenConfig` has the two loops that draw a key for i and j and push it onto rows i and j;
a key is named by the indices it was drawn at. `SkMap` reads a row by node numbers, which
is right only if pushing happens in that order. Its state is small and sequential: no run,
the theorems are for every number of nodes.

### Polynomial and ThresholdSig

The state is that of one `SignatureSet` (`keys`, `sigs`) after a dealer sampled a polynomial
(`dealt`, every one `sample` may return). `Insert` is offered every pair of an index and a
partial signature, right or wrong; `combine` leaves an empty list behind and keeps the keys, so
that a set may combine again.

Abstractions:

* *Groups.* An element of a group is its logarithm, multiplication by a scalar a product, and a
  pairing equation an equation of products. What the models show is that the algebra
  is right, not that a logarithm is hard to find.
* *The field* has `Prime` elements. No hash, no random value and no tau is left out: with five
  elements TLC takes all of them.
* *Hashes.* The message is a constant, the challenge of a DLEq proof any scalar but zero, and the
  hash behind a coin any usize.
* The multi-exponentiations are sums of products. Interpolation is computed as in the code, in the
  order of its loops, and `Samples` has every order of a `HashMap`.
* `degree` of the zero polynomial is the largest usize (`UsizeSize`): KZG wraps it back and takes
  zero, Feldman refuses to commit to it. The properties are about what is accepted.

## 3. The runs

All passing runs finish within three minutes with two workers. `CHECK_DEADLOCK
FALSE` everywhere: the protocols end, and a state with nothing left to do is their
normal end.

| run | instance | shows |
|---|---|---|
| `binaa_round` | n = 4, f = 1, one round. Two join high and two low, and one of them is delayed at will; or all join high, two are delayed at will, and one may stop at any point with its last broadcasts cut | where checkpoints really are contested: `TypeOK`, `RoundValidity`, `OppositesShareVoters`, `PassedIsFinal`; where all join alike, the others finish: `AlikeOutput`. 40 000 states |
| `delphi_levels` | n = 4, f = 1, two levels, two rounds, inputs 1 and 17 with `rho` 2 (nothing overlaps or touches): one node joins high and is delayed at will, or two do and all keep step | `RunsPerCheckpoint` and `KeepsPromise` (the refinements), `LoneValueLoses`, `OutputsInRange`, `TypeOK` |
| `aacs_safety` | n = 3, f = 1, two leaders, one crash, every interleaving (symmetry of nodes) | `TypeOK`, `Agreement`, `SomethingDecided`, `ResultLargeEnough`, `DecidedIsHeld`, and `IsCommonSubset` (the refinement): 1.7 million states |
| `ladkg_keys` | n = 4, f = 1, three dealers, one of which may deal twice, a share that does not verify, one slow node that may stop, delayed transcripts | `TypeOK`, `SignersHoldShares`, `TranscriptsAreBacked`, `NoPanic`, `SecretKeyAgreement`, `OneDealerIsHonest`, `PublicKeyMatches`, `FormedIsFinal`, `VerifiesAsSent`, and `GeneratesOneKey` (the refinement): 966 000 states |
| `dkg_run` | n = 4, f = 1, all deal, from ALIVE to STOP, one StartVSS or PkComplete comes twice, one node may stop at any point with its last reports lost, delayed transcripts | `StopMeansDone`, `StartedRunsEnd`, `AllHearStop`, `DKGTypeOK` |
| `threshold_sig` | five field elements, four holders, thresholds 1 to 3, every key, polynomial and order of offers | `CombinedIsSignature`, `CombinationsDisjoint`, `InterpolationsAgree`, `FewerTellNothing`, `KzgBinds`, `FeldmanBinds`, `VectorBinds`, `DLEqBinds`, `CoinIsFair`, `TypeOK` |

Six runs show where the code and what it says of itself part (`findings`):

| run | property | what happens |
|---|---|---|
| `binaa_stalled` | `EveryoneOutputs` | Four correct nodes, equal inputs, three rounds, one node a little late. Echoes of the next round reach it early and are recorded; `start_round` then replaces that round's state, and the node ends with two of the three ECHO1s it needs. The amplified echoes do not make up for it, since a node amplifies before it has heard all others. The other nodes finish. |
| `binaa_blocked` | `CompletedDelivers` | `start_baa` runs twice at the end of a round, and after the last round the second result waits for room in a channel only the same task empties. |
| `binaa_third` | `LoneStartLoses` | Four correct nodes, two of which join high, two rounds. Two nodes leave round 0 with the midpoint, one with each value. In round 1 the slot beside a node's own value is the first other value it hears of; the echoes of the midpoint are then counted for that value, which one node began the round with, amplified, and win it. |
| `delphi_gaps` | `LoneValueLoses` | `coalesce` takes three entries from MIN to MAX with the full weight in the middle for a level that is spoken of completely. Echoes that a node amplifies leave out the checkpoints it has not f + 1 echoes for, so three entries may have gaps; the receiver expands them to a level without gaps, and hears echoes nobody meant, up to a quorum for what one node holds. Needs intervals that overlap: the generator's parameters (`high_val` = 1 + `tri`, about log2(`tri`/`delta`) levels) make those of the top level overlap always. |
| `aacs_dropped` | `EveryoneOutputs` | An index set that comes after its instance was joined low is dropped and later needed. |
| `dkg_resent` | `NoPanic` | An ALIVE that comes twice has the syncer send everyone StartVSS again. Nodes deal anew and replace their store, but not the public share they sent; transcripts made after that do not verify. With all of them invalid `handle_acs_result` has nothing to sum, and its `unwrap` kills the task. |

Because of `binaa_stalled` and `binaa_blocked`, liveness of Delphi is checked for a single round and
equal inputs only (`AlikeOutput`). `EveryoneOutputs` cannot hold for three rounds and more; with a
node that stops it fails for two, and with two inputs for one, since two start_baa at the end
of the last round need no more than that. Because of `binaa_third`, that a lone value loses is
stated of the rounds begun with at most two values (`LoneValueLoses`). Because of `aacs_dropped`, none holds for
AACS with two leaders. The liveness of `DKG` assumes that AACS answers, and, because of
`dkg_resent`, that StartVSS makes nobody deal a second time (`[](reshared = {})`): the properties
say so themselves, and `dkg_run` has the repeated StartVSS and its absence.

### Bounds

* *Nodes.* n = 4 = 3f + 1 with f = 1 is the smallest system in which the thresholds
  f + 1, 2f + 1, n - f are all different from 1 and n. `AACS` uses n = 3 (it needs
  n > 2f only, `config/src/node.rs:123`) with f = 1 and two leaders, so that an instance
  decided high meets one joined low while a node crashes; its theorems hold for all n.
* *Rounds.* `Rounds` bounds `total_rounds_bin`; what a round hands to the next is in
  every run with `Rounds >= 1`, and `StartVals(r + 1, c)` in all.
* *Width, Rho, TotalLevels.* `delphi_levels` has 7-bit points and two levels: the ends are far
  enough for intervals of both levels, and the third part of a level is never empty.
  `delphi_gaps` has the parameters `tools/genconfig` would compute for `tri` 3, `delta` 2,
  `epsilon` 42: one level, one round, high 4, low 1.
* *TwoCamps.* With two nodes on each side every checkpoint around an input is contested in
  any order of messages; MCDelphi then keeps the nodes in step (the busiest node next, the
  longest link first), which is the order in which checkpoints end halfway, and leaves only
  n4 a choice.
* *Prime, N, Thresholds, MaxDegree* (ThresholdSig): four holders and threshold 3 are the most that
  five elements admit (the holders' points are not zero), and leave a holder over in every case;
  threshold 1 makes constant polynomials, zero among them. Degrees to two reach every
  place of the loops of interpolation and division. `UsizeSize` is a power of two as in the code.
* *Alike* (`binaa_round`). One run has two questions. When inputs differ, n2 is the only delayed
  node and nobody stops: safety of a contested round. When they are equal, the nodes outside
  `Prompt` are delayed, and n4 may stop: the end of an uncontested one.
* *MaxCrashes* bounds stops; it is f where nodes stop, and 0 in `dkg_resent`, which needs none.
* *Again, Resent, MaxResends.* One repetition is enough to deal twice; `dkg_run` takes any single
  StartVSS or PkComplete, `dkg_resent` any single ALIVE or StartVSS. In `ladkg_keys` one node may
  deal twice as often as it likes (a third sharing does what the second did): with one of
  three, sums of f + 1 are still found, which `EnoughDealOnce` says in general.
* *Prompt* (MCBinAA, MCDelphi, MCLADKG, MCDKG) are the nodes whose messages are never delayed,
  handled in a fixed order. The other nodes may be arbitrarily slow. Every behaviour of a prompt
  specification is one of the full specification, so a violation is real; a passing
  run covers the interleavings of the delayed nodes against the prompt ones. In MCLADKG prompt
  nodes also deal and take the coin at once, and all but the greatest of them publish at
  once, so that one delayed transcript meets everything else. In `dkg_run` all four are
  prompt: what is interleaved there are the countdown of the least node, the syncer's
  reports, the moment ACS answers, the repetition, and the stop.

### Fairness

Every node's steps as a whole are weakly fair (`WF_vars(Step(p))`): tokio polls a task
that has something to do, and the links deliver to nodes that are up. Each step uses up
a message or a stage of the node, so a node that keeps moving handles everything in the
end and no fairness per action is needed. In `BinAA` this formula is written out as
`[]<>~Busy(p) \/ []<><<Moved(p)>>_vars` (`Busy(p)` is `ENABLED Step(p)`), since TLC takes
minutes to evaluate `ENABLED` of these handlers; the same fairness of the forwarding step
alone is stated with `WF_vars`. Crashes and repetitions are not
fair. AACS further assumes that a Delphi instance n - f nodes joined ends, LADKG that
ACS and the coin deliver: both are what `Step` being enabled means there. `DKGFairSpec` has the
syncer and each node weakly fair; every step uses up a message, a stage or a repetition, so
fairness of the scheduler of `MCDKG` as a whole (`PromptFairSpec`) runs everybody to the end.

## 4. The proofs

TLAPS proves for every value of the constants the named assumptions admit: every set of
nodes, every crash pattern and every order of messages. TLC evaluates the assumptions in
every run, and was given each inductive invariant before it was proved, except `UInv` of
`DelphiProofs`, which quantifies over every place and whatever may be said of it.

`BinAAProofs` (assumption `BinAAAssumption`: n > 2f, n - f >= 2; `PowersOfTwo` is arithmetic
that the provers do not know):

* `TypeCorrect`; `RoundValidityHolds`; `OppositesShareVotersHolds`; `PassedIsFinalHolds`.
* `LoneInputLosesHolds`: a value at most f nodes joined with loses in every round.
* `LoneValueLosesHolds`: what at most f nodes begin a round with, nobody ends it with, if the round is
  begun with at most two values. The hypothesis is what `binaa_third` shows to be needed.
* `HandsOverOnce`: a result waits, or was handed over, only after the last round, and never both: a
  task that goes on twice blocks (`binaa_blocked`) and does not send a second result.
* `EndsQuorateHolds`: nobody leaves round 0 before n - f nodes have joined. With
  `RoundValidityHolds` this is, for one checkpoint, what `Outcome` promises AACS.

A handler is a chain of functions on the record of a node, so that the proof has two stages.
`Moves` says once what a whole handler may do to a checkpoint's round, and what it sends;
each part of `IInv` then survives whatever `Moves` allows. The parts:

| part | says | needed for |
|---|---|---|
| `TypeInv` | at most two values are heard of in a round, and they differ | every other part |
| `BegunInv` | a round begun is one the node has reached, and has a value | who is heard is heard of a value somebody began with |
| `ValidInv` | what is counted, voted for, sent or ended with lies between values the round began with | `RoundValidity` |
| `GridInv` | the values of a round are multiples of a power of two | the midpoint of two is neither of them: an end on a value is one by quorum |
| `JustInv` | a round ends by n - f ECHO2s for its value, or halfway between two votes; votes have n - f ECHO1s | `OppositesShareVoters`, `EndsQuorate` |
| `JoinedInv` | only nodes that joined are heard | `EndsQuorate` |
| `VotesInv` | an ECHO2 of round 0, counted or on its way, is one its sender remembers | `OppositesShareVoters` |
| `LoneInv` | where at most two values are said in a round, one that at most f nodes begin it with is heard of from them only, and nobody amplifies it or votes for it | `LoneValueLoses`, `LoneInputLoses` |

Two quorums of n - f ECHO2s for opposite values have n - 2f nodes in common: voters for
both. In round 0 `VotesInv` makes their votes ones they remember; a later round forgets what
came early when it begins (`start_round`, see `binaa_stalled`), and `Votes` counts what others
have heard of them.

`AACSProofs` (assumption `AACSAssumption`: f < n, 1 <= kappa <= n):

* `TypeCorrect`: `Spec => []TypeOK`.
* `ResultLargeEnoughHolds`, `DecidedIsHeldHolds`; with `SameSide`, `AgreementHolds` and
  `SomethingDecidedHolds`.
* `IsCommonSubsetHolds` (with `SameSide`): AACS implements `CommonSubset`.
* `TakesOutcomeHolds`: each instance, as AACS uses it, is a behaviour of `Outcome`.

`IInv` is the inductive invariant. `BaseInv` is its part that needs no assumption.
Agreement needs to know where an index set can come from and that it does not change:
`ProposalInv` says that a leader proposes once and that all copies of its index set, in
flight or buffered, are equal and of size n - f; `LeadersInv` that only leaders' instances
are joined and end; `FinalInv` ties `final_set` and `result` to the index sets decided;
`LowInv` says that a low value is joined only after a high decision; `HeldInv` that a
high join had its transcripts. `SideInv` carries the sides seen to be equal. Two nodes
that output have both seen kappa instances end, hence all of them (there are kappa
leaders), on the same sides, hence unite the same sets. The refinement needs two
facts more: transcripts in an output were offered (`OfferedInv`), and a node is handed
one set only (`OneDelivery`), since one that has its output has seen every instance end.

`LADKGProofs` (assumption `LADKGAssumption`):

* `TypeCorrect`, `SignersHoldSharesHolds`, `TranscriptsAreBackedHolds`,
  `SecretKeyAgreementHolds`, `PublicKeyMatchesHolds`, `FormedIsFinalHolds`.
* `NoPanicHolds`, if fewer than n - f nodes may deal twice (`SomeDealOnce`);
  `OneDealerIsHonestHolds` and `GeneratesOneKeyHolds`, if fewer than n - 2f may (`EnoughDealOnce`):
  the common subset then has f + 1 transcripts that verify. `dkg_resent` is what happens
  without the first hypothesis.
* `TakesCommonSubset`: what LADKG takes of ACS is a behaviour of `CommonSubset`.

`SharedInv` and `SignedInv` follow a share from its dealer through the reply into a
certificate, a snapshot, a transcript: whoever is named there holds the share. `OnceInv`
says that a node makes at most one transcript (countdown, sleeping task, snapshot and
transcript exclude each other) and that its supplementary shares are for exactly those that
did not sign; `QuorumInv` that it was made of 2f + 1 signatures. `KeyInv` says that what a node
has decided is `Decide` of the ACS output, which it stays as transcripts do (`DecideStays`), and
that a task dies only if nothing verifies. `PublicInv` says that key shares come from nodes
that have their secret key, and a public key from n - f of them. How many `Decide` takes is
a counting argument: `FirstFew` proves, by taking a least counterexample instead of an
induction, that in a totally ordered finite set exactly n elements have fewer than n before
them, and `SortOrders` that `sort_transcripts` is such an order (certificate length, then id).

At the end of `LADKGProofs`, about `DKG` (assumption `DKGAssumption`):

* `RunsLADKG`: `DKGSpec => Spec`, so that everything above holds of the run as a whole.
* `DKGTypeCorrect`, and `StopMeansDoneHolds`: whatever was sent twice and whoever stops, STOP goes
  out only when every node has its share and the public key of the same dealers. `ReportsInv`
  says that each report, in flight or noted, is true of its node; keys are then final and
  agree by `PublicInv` and `KeyInv`.

And about `Transcript`: `ValidMeansServed`, for every n and every sequence of ids, doubled, missing
or out of range: `is_id_valid` accepts exactly what `ServesAll` describes.

`LevelProofs` (assumption `LevelAssumption`; `LevelPowers` is arithmetic that the provers do not know),
about the intervals of one level:

* `EchoPerPoint`, `Echo2PerPoint`, `StartPerPoint`: a level, as a function from points to states, does
  with an ECHO1, an ECHO2 and a round what `RoundStateBin` does with each point alone; and what it
  says, compressed, says of each point what that point answers. Whatever nodes' values are, how
  near each other or how often split: what makes `delphi_gaps` possible is `coalesce`, and not the
  intervals.

What it takes is that intervals are `Tiled`: each begins where the one before ends, from `MinPoint`
to `MaxPoint`. A split keeps that; so every point lies in exactly one interval (`CoveredOnce`), and
`StateAt` is a function of the point. `SplitForKeeps` says that a split moves no point to another state. `TellAt` follows one entry through
the two loops: a point it covers hears it in the second loop (`Told`), and before that perhaps
in the first, if its interval has just been cut off (`Fresh`). Hearing twice is hearing once
(`HeededIsQuiet`, `HeededIsQuiet2`): the sender is counted already, and what its count calls for
has been said. That holds of ECHO1s only if one hearing cannot reach both thresholds and nobody
amplifies at a count of zero: the hypothesis `Apart` (f > 0 and f + 1 < n - f) of `EchoPerPoint`,
and `Calm` in the invariant, which says that a slot with f + 1 senders has amplified.
Without it hearing twice shows: for f = 0 the first ECHO1 of a round, which creates the round's
state and says nothing, is amplified when it is heard again.

`DelphiProofs` (assumption `DelphiAssumption` besides: what the two values weigh lies strictly within
the range of a machine integer; input values are far smaller than 2^63) is about the nodes. A new
level starts each point with what it weighs (`FirstPerPoint`), levels stay `Tiled` (`TypeCorrect`).
Of who is counted nothing depends on what is weighed. `HInv` says that only nodes that have joined
are counted or speak, that a round a node has passed has n - f senders behind it at every point
(`Held`), and that a node whose result is handed over has passed its last round; `NextHeld` is its
induction. `QuorateAndOnce` follows without any hypothesis.

What follows needs hypotheses on the parameters, which are named and cited by each theorem that
uses them. Every configuration `genconfig` writes with at least one level meets those of the table,
for n >= 4 and the f it chooses, and `tri` far below 2^63:

| hypothesis | says | because |
|---|---|---|
| `Apart` | f > 0 and f + 1 < n - f | hearing an echo twice changes nothing only then |
| `Fits` | the checkpoints of a value, and twice the value, fit a machine integer | `aggregate` adds the two ends of an interval before it halves them |
| `Spread` | `low_val` and `high_val` lie a separation of level 0 apart | the point between a value's checkpoints is on its side of the middle then. Levels are counted from log(`tri`/`rho`) (context.rs:168), and `high_val` is `low_val` + `tri`: without it there is no level |

One more is about what nodes join with, and not about the parameters. `Parted(V)`: no level weighs
two values of V at checkpoints that overlap or touch. A set of one value is parted whatever the
parameters are; `low_val` and `high_val` together never are in a generated configuration, since they
overlap at the top level. That is `delphi_gaps`: `coalesce` does lose something there, and neither
`RunsPerCheckpoint` nor `LoneValueLoses` can be proved of runs in which nodes join with both.

* *The invariant.* All that tells one place (a point at a level) from another is which values weigh
  it: its `Kind`. `UInv` says, of every parted set V that holds the values joined with so far: places
  of one kind have one state at every node, intervals begin and end only where something does
  (`Edges`), and what is on its way is the same for all places of one kind (`EchosOK`). It is said of
  every V, not of the values joined with, so that a node that joins with a new value finds
  the invariant where it needs it; when that value is not parted from the others it says nothing
  any more. `NextSound` is its induction, handler by handler.
* `CoalesceKeeps`: a message of which `EchosOK` holds says the same of every place after `coalesce` and
  `expand`, for parted values. Three
  entries that fit `coalesce`'s test leave no gap then: the middle one is the
  checkpoints of one value, with the full weight, and all else has none. The levels above say the
  same of theirs, and the point sent lies in them.
* `RunsPerCheckpointHolds`: in a run whose values stay parted, Delphi implements `BinAA` at every
  checkpoint (`Apart`). Of a generated configuration that is every run in which nodes join an instance
  with one value. A handler
  is followed call by call: a level hears what its checkpoints hear (`EchoPerPoint`, `Echo2PerPoint`),
  answers what they answer, passes its round when they do, and begins the next as they do.
* `KeepsPromiseHolds`: Delphi implements `Outcome`, whatever the two values weigh and share, so in
  every generated configuration with f >= 1. That n - f nodes have joined and that a result is
  handed over once is `HInv`. The side
  is about `aggregate`: `Outcome` excludes one thing only, a result on the side of a value nobody joined
  with, so all joined with one value, and `UInv` speaks of that one. Every level then ends with the
  full weight on that
  value's checkpoints and with 0 elsewhere, the ends that wrap included: its sums have one summand
  (`OneCell`, `CellResult`), the mean is that of level 0 alone, as the weights of neighbouring
  levels differ by 0 (`MeanOfFull`), and the point between the checkpoints is on the value's side
  (`SideStays`).
* `OneValueAgreed`: such nodes find the same point, less than the separation of level 0 from the value.

`ThresholdSigProofs` begins with `Polynomial` (assumption `PolynomialAssumption`: `Prime` has no
divisor). The operators are
recursive functions, loops of the code. What one computes is proved in two moves: that a function
with its equations exists, so that `CHOOSE` finds one (`SomeRun`, `SomeThrough`), and then that the set
of steps at which it is right holds 0 and with k also k + 1 (`UpTo`, `Induct`), induction over a set
needing no operator as a parameter. Values are compared as integers modulo `Prime` (`Congruent`), so that
the sums are those of the integers:

* The scalars are a field: a prime divides a factor of what it divides (`Euclid`), and the products
  of one scalar with all others are different (`InverseIs`).
* `eval` is the sum of coefficients times powers; two polynomials of length n that agree at n
  points are one (a root is divided off, `SumsFactor`).
* `InterpolateFits`, `InterpolateAtIs`, `LagrangeAtIs`: the three ways to interpolate find the same
  polynomial. The invariant of the loops (`Fitted`) says which points each entry runs through after
  each inner step.
* `SamplesAre`: `sample` finds exactly the polynomials of its degree with the key at zero, in
  whatever order the `HashMap` has them.
* `DivIs`, `WitnessIs`: `div_ref` leaves a constant when it divides by X - x, and the quotient of
  f - f(x) is the witness of an opening.

Then come `ThresholdSig` and its commitments (assumption `ThresholdSigAssumption`: no more holders than scalars but zero, and the
powers of two below `UsizeSize` divide it): every property of `threshold_sig` is a theorem.
`IInv` is `CollectedInv` (the parts collected are those of different holders with keys), `CombinedInv`
(whoever was counted has left a key behind, which `combine` does not clear), `DealtInv` (the
polynomial is one that may be sampled) and `SignedInv` (what was let in is the share's
signature). A combination of threshold parts then interpolates the polynomial dealt
(`Interpolated`), whose value at zero is the key. `FewerTellNothing` counts points: fewer than
threshold shares and any key are as many as interpolation can meet. That openings bind is
the witness's equation: the difference of two values it would verify is 0.

`GenConfig` (hypothesis `SomeNode`, n >= 1): `PairsShareKeysHolds` by the invariant `Rows`, which says
how long each row is at any point of the loops and what it holds; `DefaultsFit`, arithmetic on the
default f and kappa.

Model-checked only: `LoneValueLoses` of Delphi's checkpoints (of `BinAA` it is proved); `OutputsInRange`, since levels above 0 are coarser and what `aggregate` makes
of two values depends on how contested checkpoints end (`OneValueAgreed` is its case of one value);
`VerifiesAsSent` (`SelectSeq` is opaque to the provers); all liveness (fairness and ENABLED are out
of reach).

## 5. Not modelled

* The cryptography of the key generation: a share or a signature verifies or does not (`avsss`
  is external); the hardness `crypto_blstrs` rests on, and adding to its shares; MACs always
  verify.
* Encoding, and the compression of transcripts, which keeps what is said.
* The coin's own protocol, the network library and tokio (external).
* Start-up and deployment; addresses, files and key formats of the configuration; the derivation of
  Delphi's parameters in floating point. `TotalLevels` is positive here; for `tri` no larger
  than `delta` the code computes none (`delphi/.../context.rs:168`), and nothing refuses it.
* Nodes that deviate from the code in other ways than bad shares and stopping.
* Restarts (see DKG): nothing is persisted.
* `Merkle` trees, erasure coding and the messages of earlier protocols, which the key generation
  does not use.

## 6. Plan

1. Proofs: results in range for two values, for the levels where both have weight;
   `RunsPerCheckpoint` where intervals touch but do not overlap, and level by level for those below
   the first at which they overlap.
2. When results of one instance fall on both sides of `(high_val + low_val) / 2` (`SameSide`),
   under the generator's parameters; levels without weight and `epsilon` above 1 in
   `aggregate`.
3. More than one slow node in `dkg_run`, and a third dealer that repeats.
4. What AACS would do with an index set kept instead of dropped: the liveness `aacs_dropped`
   refutes, for the code as it would be mended.
