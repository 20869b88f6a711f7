# Formal models of `src/src/chainparams.cpp`

This directory holds TLA+ models of the chain-parameter code of the repository
(`src/src/chainparams.cpp`), TLC configurations that check them on small
instances, and TLAPS proofs of their main safety properties for every value of
the constants.

## The system

`chainparams.cpp` builds the consensus parameters of one of four network
profiles (main, test, devnet, regtest) and keeps them in `globalChainParams`.
Three parts change state after the code starts:

* **Startup** (`SelectParams` → `CreateChainParams` → a constructor). The devnet
  and regtest constructors end with command-line overrides:
  * quorum roles: `-llmqchainlocks`, `-llmqinstantsenddip0024`,
    `-llmqplatform`, `-llmqmnhf`, `-llmqtestinstantsenddip0024`;
  * quorum sizes: `-llmqtestparams`, `-llmqtestinstantsendparams`,
    `-llmqdevnetparams`;
  * `-powtargetspacing`;
  * regtest heights: `-dip3params`, `-dip8params`, `-budgetparams`;
  * devnet subsidy and difficulty: `-minimumdifficultyblocks`,
    `-highsubsidyblocks`, `-highsubsidyfactor`;
  * version-bits deployments: `-vbparams`.

  Any override may throw. `globalChainParams` is set only when construction
  returns, and `Params()` asserts that it is set.
* **The adaptive quorum engine** (`CChainParams::UpdateLLMQParams`, lines
  1338-1377). It is called once for each connected block. It keeps two
  file-scope statics, `lastCheckMnCount` and `lastCheckHeight` (lines
  25-26). When their guard passes (line 1343), it replaces four entries of
  `consensus.llmqs` by one of five masternode-count tiers. Otherwise it
  downgrades `LLMQ_60_75` below 80 masternodes. Its guard reads the current
  catalog through `IsLLMQsMiningPhase`.
* **`IsValidMNActivation`** (lines 109-130) answers queries against the
  deployment table that the constructor and `-vbparams` built.

## Modules

| Module | Models | State ↔ code |
|---|---|---|
| `LLMQCatalog` | the constructors' `consensus.llmqs`; `IsMiningPhase`, `IsLLMQsMiningPhase` | Record names are strings. DKG interval and window (in `llmq/params.h`, outside `src/`) are CONSTANTS. |
| `LLMQAdaptation` | `UpdateLLMQParams` as one atomic step | `llmqs`, `lastCheckMnCount`, `lastCheckHeight`; `Recompute` (guard true) and `Skip` (else branch) |
| `LLMQNodes` | two nodes on one chain, restarts | two `INSTANCE`s of `LLMQAdaptation`. `RestartX` resets the statics and rebuilds the catalog. `ConnectX` calls the engine for the next block. |
| `LLMQThreads` | `UpdateLLMQParams` with no lock, one step per assignment | Per-thread `pending` assignments, fixed when the guard is read and made in the code's order. `Shared` is the shared state the threads write. |
| `ChainParams` | `SelectParams`, `CreateChainParams`, the LLMQ role/size overrides, `-powtargetspacing`, the DIP3/DIP8/budget and subsidy/difficulty overrides, `Params()` | `status`, `network`, `llmqs`, `roles`, `testSizes`, `powSpacing`, `consensus` (the nine height and subsidy fields), `pc` (next override call), `globalChainParams`. `args` holds each option's value. An option is `Unread` until the override that reads it runs, so the command line is chosen lazily, one option per step. `UpdateSubsidyAndDiff` reads its three options in one step, as lines 1148-1153 do. |
| `Deployments` | the four `vDeployments` tables, `-vbparams`, `UpdateVersionBitsParameters`, `IsValidMNActivation` | `vDeployments`, `argsLeft` (values still to parse), `startup` |
| `*_proofs` | TLAPS proofs | — |
| `MC_*` | TLC instances; `MC_DkgTiming` gives small DKG timings | — |

`PROJECT.json` "map" lists the lines that each definition translates.

## Runs

| Run | Expect | Shows |
|---|---|---|
| `llmq_main` | pass | On mainnet: `CatalogFollowsLastCheck`: the catalog is always the tier of `lastCheckMnCount`, with `LLMQ_60_75` possibly downgraded. `RepeatedCallIsNoOp`: a repeated call changes nothing. |
| `llmq_dkg` | violation | The first call (`lastCheckHeight == -1`) replaces quorums inside a DKG mining window. |
| `nodes_agree` | pass | After a restart, nodes settle on the same records for every quorum except `LLMQ_60_75`. |
| `nodes_split` | violation | A node that ran through the one-way downgrade and a restarted node keep different `LLMQ_60_75` records at the same tip. |
| `threads_race` | violation | Two concurrent calls leave the statics of one call and the catalog of the other. |
| `threads_torn` | violation | A reader sees a catalog mixing two tiers. |
| `chainparams_pass` | pass | Whatever the command line, `globalChainParams` is set only by a startup that completed, to the network it constructed (`OnlyCompleteParamsPublished`): an override that throws leaves it unset. A finished startup has devnet chain-lock/DIP0024 roles that respect rotation. `OverridesTakeEffect`: every option given on the command line is in force, and every option not given leaves the constructor's value. |
| `chainparams_rotation` | violation | `ConfigErrorsAbortStartup` (spec §7, §4.3) fails. `-llmqplatform`, `-llmqmnhf` and `-llmqtestinstantsenddip0024` accept a quorum of the wrong rotation kind. A non-numeric devnet subsidy option is read as 0 instead of aborting startup. |
| `deployments_pass` | pass | `IsValidMNActivation` matches the spec's lookup inside the window and for unknown bits, and omitted `-vbparams` fields stay unchanged. |
| `deployments_window` | violation | Outside the window, a known bit answers true: the `continue` falls through to "unknown bit". |
| `deployments_mnrr` | violation | The regtest MN_RR window of 12 is below the maturity window of 120 that the comment at line 204 requires. |

Each property of a passing run has a mutant in `PROJECT.json`: a plausible bug
in the mapped code that TLC catches with that run's configuration.

**Bounds, and why they are enough.**

* **Masternode counts.** `{50, 90, 150, 300, 700, 2500}` hit every tier. They
  also cover both sides of the 80/100 split and of 2000: on mainnet, 90 is in
  the smallest tier but is not downgraded by the skip branch. Testnet (split at
  80) is covered by the TLAPS theorems, which hold for every `NetworkID`.
* **DKG timing.** `MC_DkgTiming` uses intervals of 4 and 6 with one-block
  windows. Heights 0..11 then contain both mining and free heights for every
  record, so the mining-phase guard takes both values.
* **Nodes.** The chain has 7 blocks and there is one restart. That is enough to
  reach a downgrade, a restart and a settled stretch of 4 blocks.
* **Threads.** Two threads with 3 calls make both calls pass the guard before
  either writes.
* **ChainParams.** The type options name:
  * a rotation record;
  * a non-rotation record;
  * a record of the other test chain;
  * no record at all.

  The spacing is 0 (rejected) or 60. Height fields are 1 or 3, so that swapping
  two fields changes the result. The subsidy value is 5. Every value option may
  also be absent (`NotSet`) or malformed (`Junk`).
* **Deployments.** Up to two `-vbparams` values are explored, with the field
  values −1, junk and ordinary numbers. A field given explicitly as `-1` is
  taken for "not given" (line 993), so it is dropped. This is recorded as a
  hazard. The query times sit at and around both
  window boundaries.

**Fairness.** No run assumes fairness: every checked property is a safety
property, and every specification is `Init /\ [][Next]_vars`.
`CHECK_DEADLOCK FALSE` is set only where the system stops by design:

* startup ends;
* the chain is bounded;
* the number of calls is bounded.

## Proofs (TLAPS)

| Module | Theorem | Inductive invariant |
|---|---|---|
| `LLMQAdaptation_proofs` | `TypeCorrect`, `CatalogInvariant` (`CatalogFollowsLastCheck`), `RepeatedCallNoOp` (`RepeatedCallIsNoOp`) | `TypeOK /\ CatalogFollowsLastCheck`. It is needed because after `Skip` only the relation between the catalog and `lastCheckMnCount` explains why a repeated call is a no-op. |
| `ChainParams_proofs` | `TypeCorrect`, `PublishedProved` (`OnlyCompleteParamsPublished`), `DevnetRotationProved`, `OverridesProved` (`OverridesTakeEffect`) | `PublishedProved` needs no strengthening: every override runs while the status is `constructing`, when the property forces `globalChainParams` to be unset, and leaves it alone; only `SelectParams` (with no overrides) and `FinishConstruction` set it, together with `ready`. For the others, `IInv`: the properties must already hold while the overrides run (`Built`), not only once `ready`, and `unselected` implies `pc = 1`. Steps that set no role are factored into `NoRoleStep`. `OverridesProved` uses `OInv`, which adds that an option the constructor has not reached is still `Unread` (`WasRead`). The lemmas `ListElements` and `ListDistinct` say that each override list names each option once. So a step reads an unread option, and it never overwrites a field that an earlier override set. |
| `Deployments_proofs` | `TypeCorrect`, `ActivationInWindowProved`, `OverrideKeepsOmittedProved` (`OverrideKeepsOmittedFields`) | `IInv = TypeOK /\ BitsFixed /\ ParsingHasArgs`. The bits 28/9/10 never change, and while parsing there is a value to parse. Inside the window, the first matching deployment is the one the spec's lookup picks. The action property follows from `IInv` and one step lemma: `UpdateVersionBitsParameters` writes only the fields at positions up to the value's length (`KeepsOmitted`). |
| `LLMQNodes_proofs` | `TypeCorrect`, `NodesAgreeProved` (`SettledNodesAgreeExcept60_75`) | `IInv = Shape /\ NodeInv(A) /\ NodeInv(B)`. Each node is covered by `NodeInv` over the shared chain. `Follows` says the catalog is the base catalog before the first call, and afterwards the tier of the node's `lastCheckMnCount`, up to the `LLMQ_60_75` downgrade. `Stable` says that once a node has called the engine, a count that held at its tip over a stretch containing a `FreeHeight` (a height outside every mining window) is the node's `lastCheckMnCount`. The reason is that the call at the free height cannot have been skipped. A restart resets `lastCheckHeight` to -1, which makes `Stable` hold trivially until the next call. The call lemma is proved once over explicit arguments, which makes it usable for both nodes. Two nodes whose `Stable` applies have the same count, so `Follows` gives them the same records outside `LLMQ_60_75`. |

The proofs assume only the ASSUMEs of the modules:

* the DKG interval is positive;
* the counts and heights are naturals, and `LLMQNodes` runs on main or test
  (`NodesAssumption`);
* option values are integers, integer sequences, type names, `NotSet` or `Junk`;
* `Unread` is none of these, and `NotSet` and `Junk` are not type names.

They hold for every instance, not just the TLC ones.

A step that took more than about half of a prover's default time names the prover that proves it, with a longer limit (`SMTT(20)` or `ZenonT(30)`). This keeps the proofs from failing when the machine is loaded.

**Left to TLC.**

* Everything about concurrent callers (`LLMQThreads`). The function takes no
  lock, so its interesting behaviours are those of two or more threads, and
  there the properties fail (`threads_race`, `threads_torn`).
* All violation runs.

## Not modelled

* **Genesis blocks, the devnet genesis PoW search, checkpoints, seeds and
  base58 prefixes.** These are constant data or hashing.
* **The LLMQ code that consumes quorum size and threshold** (outside `src/`).
  Hence the hazard that `threshold > size` is accepted has no property.
* **The `int64` → `int` narrowing of the subsidy options** (lines 1150-1152).
  TLC's integers are 32-bit, so a value beyond the `int` range cannot be
  represented.
* **The order of the `-budgetparams` heights.** The model does not state it:
  only a devnet comment (line 495) asks for it, and nothing in `src/` reads
  these heights.
* **The uninitialised `isNotLLMQsMiningPhase`** read by `LogPrintf` (line 1345).
  It is only logged.
