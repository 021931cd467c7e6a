# FortressWallet: TLA+ models and proofs

FortressWallet is a threshold-signature EVM wallet in Rust: a key is split into
Shamir shares, one of which stays on the device; a transaction is signed by
bringing `threshold` shares together for the length of one call. This directory
holds TLA+ models of the parts whose correctness depends on the order of steps,
on failures, on other actors or on arithmetic at the edges, the TLC
configurations that check them, and TLAPS proofs.

Run everything from this directory:

    tlasany M.tla                              parse a module
    tlc -workers 2 -config X.cfg M             check a configuration (table below)
    tlapm PolicyProofs.tla                     check the proofs of a module

Paths below are relative to `src/crates/`.

## Inventory

| component | state it keeps | operations | what is hard |
|---|---|---|---|
| `wallet-core/src/policy.rs` `PolicyEngine` | `history` of approvals, `known_destinations`, both in memory only | `new`, `evaluate`, `record_approved` | a clock that is passed in and may step back; pruning by one call's clock; restarts lose the engine; window edges; an unchecked `u128` sum |
| `wallet-core/src/ceremony.rs` | none | `generate_and_split_key`, `sign_with_shares`, `sign_transaction`, `sign_transaction_with_policy` | the ceremony fails after the policy approved |
| `wallet-core/src/evm.rs` | none | address, build (fee ceiling), hash, `sign_evm_transfer[_with_policy]` | the policy sees chain, recipient and value, not the calldata |
| `wallet-core/src/wallet.rs` | one directory: `share_1.dat`, `pubkey` | `create_wallet`, `import_wallet`, `load_public_key`, `load_shares`, `load_external_share` | several file operations per call, no lock, no rollback; `pubkey` is written by truncate-then-write |
| `wallet-core/src/recovery.rs` | | `rotate_shares` | not declared in `lib.rs:6-9`, hence never compiled |
| `wallet-crypto/src/shamir.rs` | none | `split`, `reconstruct_and_verify`, `reconstruct_unverified` | wrong shares interpolate silently; exact thresholds; duplicates |
| `wallet-crypto/src/{keys,lib}.rs` | none | keys, hashing, zeroizing buffers | cryptographic library calls |
| `wallet-storage/src/lib.rs` sealing | none | `seal_*`, `open_*`, passphrase rule | telling truncated, foreign and tampered envelopes apart |
| `wallet-storage/src/lib.rs` `write_atomic` | one file | `save_*`, `load_*` | crash between write, sync and rename; concurrent saves; failing calls |
| `wallet-rpc/src/lib.rs` | none | `Untrusted::{trust, cross_check, try_cross_check}` | endpoints that lie, lag or fail |
| `wallet-rpc/src/evm.rs` | none | JSON-RPC calls, parsing of quantities | timeouts, lost answers, saturating fees |
| `wallet-decoder/src/{lib,evm}.rs` | none | canonical transaction format, EIP-1559 RLP | fail-closed decoding, round trips |
| `wallet-ffi/src/lib.rs` | `BASE_DIR` (set once), the wallet directory through wallet-core | `invoke` and its eight handlers, `set_base_dir`, `free_string` | no lock across concurrent calls; panics; limits; sandbox check |
| `wallet-cli/src/*.rs` | none | `init`, `address`, `balance`, `send`, `status` | one process per command |

Interaction: the CLI and the FFI call `wallet-core` and `wallet-rpc`; `wallet-core`
calls `wallet-crypto`, `wallet-storage` and `wallet-decoder`; the network is reached
from the CLI and the FFI only. All calls are synchronous. Shared state between
concurrent calls is the wallet directory and, beyond the process, the account on the
chain. The policy engine is a library object that neither the CLI nor the FFI holds:
a long-lived host is expected to.

What makes each component correct:

- policy: the limit holds over what was approved and not only over what is remembered;
  a first payment cannot be unlocked by the engine's own calls; failed calls cost nothing.
- wallet directory: no loadable address without the means to sign for it; no address on disk
  before the local share that belongs to it.
- Shamir and the ceremony: exactly the quorums reconstruct; forged shares are noticed; fewer
  reveal nothing; what is signed recovers to the wallet's own key.
- `write_atomic`: the file is whole in every state and after every crash; errors leave no trace.
- cross-checking, sending and asking: one honest endpoint suffices for the chain id, the
  nonce and the balance; a fee is between what is asked and the ceiling, whatever saturates; a
  retried payment is not paid twice while it waits; every call returns.
- formats (transactions, envelopes, hexadecimal): what is written is read back, what is
  accepted is what would have been written, nothing is read out of range, a signature fits one
  transaction only.
- C entry points: wallets are written below the data directory that was set first, however
  names are relinked, and every request has its answer, also one that panics.

## Modules

| module | models | role |
|---|---|---|
| `Sums` | `Iterator::sum` | sum of a sequence, as a recursive function |
| `Policy` | `policy.rs`, guarded entry points of `ceremony.rs` and `evm.rs` | component and host |
| `MCPolicy`, `SumsProofs`, `PolicyProofs` | | TLC, lemmas, theorems |
| `AtomicFile` | the contract in `wallet-storage/src/lib.rs:208-212` | abstract specification |
| `WriteAtomic` | `write_atomic` | detailed specification, refines `AtomicFile` |
| `MCWriteAtomic`, `WriteAtomicProofs` | | TLC, theorems |
| `Wallet` | `wallet.rs` and the create, import, send and unlock handlers | component and its callers |
| `MCWallet`, `WalletProofs` | | TLC, theorems |
| `Shamir` | `shamir.rs` | algorithm over a small field |
| `Ceremony` | `sign_with_shares_recoverable`, `sign_and_encode`, signing in `keys.rs` | on top of `Shamir`, over a small group |
| `MCCeremony`, `CeremonyProofs` | | TLC, theorems |
| `Fees` | `fee_suggestion`, the fee ceiling | saturating arithmetic, used by `Send` |
| `Send` | the send and balance handlers, `cmd_send`, `cmd_balance`, cross-checking, the chain | component and network |
| `MCSend`, `SendProofs` | | TLC, theorems |
| `Bytes` | integers as bytes, zero-padding | shared by the formats |
| `Rlp`, `Canonical`, `Envelope`, `Hex` | `wallet-decoder/src/{evm,lib}.rs`, sealing in `wallet-storage`, texts in `wallet-rpc`, `wallet-cli/src/hex.rs` and `wallet-ffi` | one format each, as operators |
| `Codec` | a value written, damaged and read | composes the four formats |
| `MCCodec`, `CodecProofs` | | TLC, theorems |
| `Dispatch` | `invoke`, `set_base_dir`, `free_string`, `validate_dir` | component, its threads and the file system's names |
| `MCDispatch`, `DispatchProofs` | | TLC, theorems |

How the modules fit: `Wallet` takes the save of a share file as one step that happens
or does not; that is what `WriteAtomic` is shown to give. It takes a sealed share as one
that opens under its passphrase or not at all, and whole; that is what `Codec` shows of
`Envelope`. It takes `Reconstructs` and `KeyOf` as the meaning of reconstruction; `Shamir`
checks that the arithmetic does mean that, and `Ceremony` that a signature made with the
reconstructed key is one of the wallet's. `Send` takes loading and signing as one step that
may fail, which `Wallet` and `Ceremony` detail, and the transaction that is broadcast as the one
that was signed, which `Rlp` details. `Dispatch` takes the body of a handler as writes by the
path it was given, any number of them, that end in an answer or a panic; `Wallet` details them.

### Policy

`history` and `knownDestinations` are the engine's fields. `approvals` is a ledger of
every `record_approved` since the wallet exists; no code keeps it, and the properties
are about it. `history` holds positions of the ledger, so that what the engine has
forgotten can be compared with what was approved. `outcome` is what the last call
returned, and `disturbed` whether the clock has been set back or the engine lost. `Evaluate`
keeps the order of the four checks; the unchecked sum (a panic under the workspace's
`overflow-checks`) and the addition that saturates at `MaxU128` (`SaturatingAdd`) are kept apart.
`SignTransactionWithPolicy` and `SignEvmTransferWithPolicy` are the whole entry
points: refusal, failing ceremony, signature and record. `SignUnguardedAndRecord` is
`sign_transaction` followed by the public `record_approved`, the only way a
destination becomes known. `StepBack` and `Restart` are the environment.

### AtomicFile and WriteAtomic

One action per system call of `write_atomic`; `Fail` is the `?` of any of them with the
drop of the temporary file. Below it an external file system: contents and names
change in a cache, reach the disk at any time and in any order, contents also in part,
and a power loss keeps what is on the disk. The refinement maps the file's cached and
durable contents to `current` and `durable`, `Persist` to `Commit`, and everything in
between to stuttering. `AtomicFile` deliberately does not promise that a finished save
survives a power loss: the directory is not synced after the rename.

### Wallet

A share is a record of key, index, threshold and the passphrase it is sealed under. A
set of shares stands for the list handed to a call: a list with a repeated share is
refused in the same way as one of the wrong length. Shares of several keys
reconstruct to a key of their own, the `Mixtures`. `create_wallet` is `BeginCreate`,
`SaveShare`, `TruncatePubkey`, `WritePubkey`, `Respond`; `import_wallet` joins it at
`TruncatePubkey`, with nothing dealt. A send is `BeginSend` (the address) and
`FinishSend` (the shares, the verification and the signature), with every other call
free to run in between, where the network queries are. `IoFail` is any `?` on the way:
memory is dropped, files stay. `Kill` stops the process; the cached files survive it.
Loads that change nothing (`get_address`, the balance handlers' load) are not actions.
`origin` says which call wrote the pubkey file last, which no code keeps. Three switches
choose the environment: `Imports`, `IoFailures`, `Kills`. As in the code, nothing keeps a host
from creating or importing in a directory that has a wallet.

### Shamir and Ceremony

The field is the integers modulo a small prime; the indices map injectively into it, as
`small_scalar` does for 1..255. Each behaviour is one split and one reconstruction. The
handed lists are all lists of genuine shares up to the bound, and those with one share
forged in value, index or threshold, 0 and 1 included, as `from_parts_dangerous` takes any. The
bytes of a share's value are taken modulo the order already.

`Ceremony` continues such a behaviour with the signature. The group is cyclic of the same
prime order; the point `k * G` is `k`, and `XCoord` and `YOdd` are the coordinates that signing
looks at: opposite points share their x, and a public key is its scalar. A nonce is any one
RFC 6979 could draw. `SignPrehashRecoverable` reduces x modulo the order and brings s into the
lower half, flipping the parity, as `k256` does; `Finish` is the self-check against the public key
and `sign_and_encode`'s refusal of a reduced x. Recovery, which only the network does, is in the
property `SenderIsTheWallet`.

### Send

One call is `SendTransaction` or `GetBalance`, then per query `AskPrimary`, `CrossCheck` for
each other endpoint and `Agreed`; a payment goes on with `SuggestFees`, `Sign`, `Broadcast`.
`Fail` is every early return before the broadcast. The ERC-20 handlers (`lib.rs:641-846`),
`cmd_send` and `cmd_balance` take the same steps with other calldata or prompts. Honest endpoints
answer truthfully with a lag, the others answer anything. A balance is identified with the
number of the account's transactions that made it, so that its being current can be told.
The base fee is the primary's word alone; `Fees` doubles it and adds the tip as the code does,
saturating at `MaxU128`, and `SuggestFees` is guarded by the ceiling. The chain mines a pooled
transaction whose nonce is next; `MineElsewhere` is another device with the same shares.

### Bytes, Rlp, Canonical, Envelope, Hex and Codec

A format is a writing and a reading operator over byte strings, with the order of the code's
checks and one error per error of the code. Where the code slices bytes or makes a slice an array
(`split_at`, `try_into().unwrap()`, `copy_from_slice`), the operator goes on through `Unwrap`, whose
outcome is `Panic` unless the slice is in range and has the array's width. Widths are
constants: in the run integers take 2 bytes where the code has 8 or 16, an address 2 for 20, a word
4 for 32. An integer is its big-endian bytes, trimmed in a signed transaction and at full width
elsewhere, as `to_be_bytes` gives them; `SignedTx` and `Transfer` are the values of the two structs.
Calldata has at most `MaxDataLen` bytes, 8 MiB, so that a length that takes more than three bytes is
longer than any input; a request has at most 64 KiB.
`Rlp` contains the part of `alloy-rlp` that the code calls (external): headers of either length
form, canonical single bytes, no leading zeros in an integer. The two byte-string readers that
the code uses for `r` and `s` take fewer bytes than a word, and zeros in front. `Envelope` has an
ideal cipher: a blob decrypts under the passphrase, salt and nonce it was made with, and nothing
else decrypts; so a decrypted key is a valid one and `InvalidKeyBytes` does not occur. In `Hex` a
text is its UTF-8 bytes, with the digits of either case being their values and a character beyond
ASCII taking two bytes, which is where slicing by byte can panic.

`Codec` lets one value be written in one format, then lets the wire be damaged once: cut short
(`Truncate`), up to two bytes lost, replaced or joined by a symbol from the edges of the format
(`Damage`), or the same within a list that is then given a header of its new length (`Reframe`).
Then one of the format's readers reads it. A passphrase other than the one used, and the reader of the
other kind of envelope, are among the reads. The constants `Samples` and `Symbols` choose what is
written and what it is damaged with; `SamplesAssumption` says that a writer is called with values of
its parameter types (`Values`), `SymbolsAssumption` that a symbol is at most two bytes. A splice may
leave a text that is no UTF-8, which no `&str` is; the readers are checked on more than they can get.

### Dispatch

A name is what a request gives for `dir`; a place is a canonical path. `leads` says where each of
them leads: a place leads to itself when `Canonicalize` finds it, but what a handler does with it
(`create_dir_all` and the writes, `wallet.rs:79-95`) resolves it again. The C call is `Invoke`,
`ProcessRequest`, the three steps of `validate_dir` (`CreateDir`, `Canonicalize`, `CheckSandbox`), any
number of `Write`, and `Finish`; `CatchUnwind` turns a panic into an error. `Relink` lets any name but
the app's own data directories lead elsewhere between any two steps; `Replace` lets a directory make
way for a link for good, with all that led into it. Neither moves the data directories or what they lie
in: that directory is the app's. `SetBaseDir` keeps the first setting, as `OnceLock` does.
`create_dir_all` comes before the check and its failure is ignored, so `existing` may grow by a refused
request; wallets may not. `WalletsStayInTheSandbox` states what the check gives: a wallet lies below the
data directory unless a directory on the path it was written by has been replaced since. The check
cannot give more, as it hands on a path and not a directory.

## Runs

| run | instance | shows |
|---|---|---|
| `policy` | 2 chains, 1 address, values 1, 2 and 4, `u128` shrunk to 4, limits of 3, window 1, 3 approvals, clock to 2, set back at will, restarts | `FirstPaymentIsUnguarded`, `GuardedBudget`, `OnlySignaturesCount`, and until the first disturbance `PruningKeepsWindow`, `VelocityLimit` |
| `policy_overflow` | the limit is the largest `u128` | **violated**: a total beyond the largest `u128` is approved |
| `policy_queued` | | **violated**: a queued transaction is queued again for ever |
| `policy_clock` | | **violated**: after the clock is set back a window exceeds its limit |
| `write_atomic` | 2 writers, 2 blobs, 4 inodes | `NeverHalfWritten`, `OnlyCrashesLeak`, `ImplementsAtomicFile` |
| `wallet_concurrent` | 2 callers, 2 keys, 2 passphrases, 2-of-3, failing I/O, imports | `AddressIsRecoverable` |
| `wallet_crash` | 1 caller, 3 keys, 1 passphrase, 2-of-2 and 2-of-3, imports, kills and failing I/O | `LocalShareBeforeAddress` |
| `wallet_passphrase` | 1 caller, imports | **violated**: a passphrase that does not open the local share goes unnoticed |
| `ceremony` | order 5, up to 3 shares, lists up to 3, every digest and nonce | the Shamir properties, `SenderIsTheWallet`, `SelfCheckNeverFails` |
| `send` | 2 calls, 2 endpoints of which the secondary is honest and lags by 1, 3 nonces, base fees below, at and above the ceiling and at the limit of the integer | `AnswersAreCurrent`, `FeesFit`, `OnlyTheChainAskedFor`, `RetryWhilePendingPaysOnce`, `CallsReturn` |
| `codec` | values at the edges of eight formats, every cut, edge symbols in every place | `RoundTrip`, `OnlyEncodingsAreAccepted`, `SignedBytesTellTransactionsApart`, `SealedIsAuthentic`, `OnlyWideCharactersPanic`, `TextMeansItsBytes`, `BalanceIsTheWholeWord` |
| `dispatch` | 2 threads, 2 data directories of which one may lie in the other, 1 name that moves, 3 places, directories replaced | `WalletsStayInTheSandbox`, `EveryRequestIsAnswered` |

Every run with `CHECK_DEADLOCK FALSE` may really stop: the ledger, the keys, the calls
or the nonces are bounded, or a behaviour is one ceremony or one value read. In `dispatch` the
threads never stop, but a host need not call. `write_atomic` checks deadlock.

Bounds. Policy: three approvals are enough for one entry inside, one at the edge of and one
outside a window, and one unguarded entry to open a destination; the value range exceeds each
limit, the window sum can exceed `MaxU128`; a clock to 2 takes an entry past the window of 1.
WriteAtomic: two writers overlap at every step; four inodes leave room for a temporary file each,
the file in the cache and another on the disk. Wallet: two keys make mixtures and overwritten
files, two passphrases make a stale local share that does not open; three keys with one caller
allow a wallet that was reported, one that is imported or cut off, and a third that lasts.
Ceremony: threshold 3 needs a polynomial of degree two, threshold 2 leaves a spare share; the
prime 5 exceeds the largest index; the x of `2G` and `3G` lies beyond the order, so a reduced x
occurs, and each x belongs to two points, so the parity matters. Send: a retry needs two calls,
nonce 3 leaves one for another device and one for a lie ahead of the chain; of the base fees, 2
makes exactly the ceiling of 5, 3 exceeds it, 4 saturates when doubled, which the wrapping mutant
turns into a small fee, and 7 is the largest there is. Codec: calldata of 0, 1, 25, 56 and 256
bytes lies on either side of the single-byte form, of the one-byte and of the two-byte length
header; integers have no, one or both bytes, with and without the top bit; words have zeros in
front. Dispatch: two settings and nested directories tell the first from the last, and a name from
the place it led to; a replaced directory needs a place beside it. The run starts with the first
data directory at the place that another lies in (`MCInit`); where nothing lies below it there is
less to see.

Symmetry is used for values that are only compared: chains and addresses; writers,
blobs and inodes; keys and callers. The runs with a liveness property use none.

Fairness. `CallsReturn` and `EveryRequestIsAnswered` assume weak fairness of the next step of each
call: a call runs on a thread of its own that the system schedules, each query
ends within the agent's global timeout (`wallet-rpc/src/evm.rs:35,48`), file operations return, and
a panic unwinds. That the timeout is set is assumed, not shown. Nothing is assumed of the chain, of the host's calling or freeing, or of
calls being started.

## Where the code and its words differ

1. `policy.rs:63-68` promises that a queued transaction may be re-evaluated for approval
   after `release_at`; `evaluate` keeps no record and queues it again (`policy_queued`).
   The comments of `sign_evm_transfer` know of the stall for a fresh engine; it exists for
   every engine.
2. `policy.rs:42-43` bounds the approved sum of a window; a clock set back breaks the
   bound (`policy_clock`). What remains true is `GuardedBudget`.
3. `wallet-ffi/src/lib.rs:522-523` says that a wrong passphrase for the local share is
   caught later; if the external shares open under it, it is not (`wallet_passphrase`).
4. `policy.rs:145-147` says that an addition that overflows is over the limit; the saturated sum
   is not over a limit that is itself the largest `u128` (`policy_overflow`). The tests use that
   limit for a policy that permits everything (`ceremony.rs:190-198`). What the engine approves under
   it can also make the unchecked sum of `policy.rs:143` overflow, which a smaller limit excludes.

Read but not run:

- `wallet-cli/src/main.rs:91-93` and `wallet.rs:139-140` ask for at least `threshold` shares;
  exactly `threshold` is required (the guard of `Reconstructs`). Through the FFI the local share is
  added to the given ones, so `threshold` external shares of a wallet whose local share opens are
  one too many.
- `wallet-ffi/src/lib.rs:405-407` says that the broadcast result is cross-checked; the primary's
  answer is trusted (`Broadcast`).
- `wallet-decoder/src/evm.rs:70` refuses non-canonical integers; `r` and `s` are read by
  `decode_quantity_32`, which takes zeros in front (`Padded` in `OnlyEncodingsAreAccepted`).
- `wallet-storage/src/lib.rs:57` has `Truncated` for what is shorter than the header and the
  smallest ciphertext; only the header's length is checked, and a ciphertext that is too short
  is a `DecryptionFailed`.
- `wallet.rs:11-13`, `wallet-cli/src/main.rs:15-18` and `40-41` say that all shares land in the
  directory, where only the first does.
- `wallet-crypto/tests/shamir_guardrails.rs:38-42` says that verification cannot be bypassed,
  and `reconstruct_unverified` is public and used by `import_wallet`.
- `wallet-decoder/src/evm.rs:3-6` says that calldata is refused, and the code accepts it.
- `wallet-rpc/src/lib.rs:18-22` asks for certificate pinning, which the agent does not do.
- `wallet-core/src/evm.rs:103-107` asks for cross-checked fees, which come from the primary alone;
  `FeesFit` is what holds nevertheless.
- A request that `validate_dir` refuses may leave an empty directory outside the sandbox, since
  the directory is created first (`wallet-ffi/src/lib.rs:119`); no wallet is written there.

## Proofs

`PolicyProofs`, `WriteAtomicProofs`, `WalletProofs`, `SendProofs`, `DispatchProofs`,
`CeremonyProofs` and `CodecProofs` state their theorems for all values of the constants, under the named assumptions
of the modules (the configuration are naturals up to `MaxU128`, the special values are not among
the ordinary ones, there is a chain, a split, a passphrase, the ceiling is below the limit of
`u128`; for the ceremony `FieldAssumption`: the field is that of a prime; `PartiesAssumption`: a
share's index is below it; `CurveAssumption`: x coordinates are naturals and equal only for
opposite points; for the codec `WidthAssumption`: an integer and an address have 1 to 55 bytes and a
word two integers, where the code has 8, 16, 20 and 32; `EnvelopeAssumption`: salt, nonce and tag are
not empty; and the two assumptions about samples and symbols).

*Policy.* `TypeCorrect` carries the rest. `GuardedPaysOnlyKnownPayees`
(`FirstPaymentIsUnguarded`) is not inductive: a guarded signature is justified by
`knownDestinations`, not by the ledger. The invariant adds that every known destination
has an unguarded ledger entry; a guarded approval of a known destination then traces
back to that entry. `PruningIsLossless` speaks of the time before the clock is set back or
the engine lost (`disturbed`), and needs that until then no ledger entry lies in the future of
the clock. `GuardedEntriesStayWithinBudget` holds beyond that time: at each guarded
approval the entries that survive pruning are the ones `evaluate` counted, so the
total after it is the total it allowed; later calls only prune. It and `VelocityIsLimited` assume
`MaxValuePerWindow < MaxU128`, and are false without (`policy_overflow`): `SaturatingAdd` tells a sum
above a limit from one that is not only if the limit is smaller than what it saturates at. The sums come from
`SumsProofs`: `SumMonotone` (pruning cannot increase a sum), `SumAppend` (one entry adds
its value). `VelocityIsLimited` combines `PruningKeepsWindow` with the check made by
`evaluate` at the time, since a ledger entry never changes.

*WriteAtomic.* `NeverTorn` needs that synced contents stay: what a writer past
`SyncAll` holds, and what a name refers to on disk or in the cache, is a whole blob in the
cache and on the disk, and no writer writes to an inode that has the name. The writers'
temporary inodes are distinct, and distinct from both named ones; only a free inode is taken for a
new one. `WriteAtomicIsAtomic` maps each step under that invariant.

`ErrorsLeaveNothing` (`OnlyCrashesLeak`): a step that lets go of a caller's temporary file has
removed it.

*Wallet.* `TypeCorrect` for everything. `AddressesAreRecoverable` assumes `SpareSplits` (no split
takes all its shares) and no kills, since two creates in one directory overwrite each other's local
share and a kill takes the external shares along. `AddressIsRecoverable` is not inductive: the
shares that make it true may be in the memory of a call that can still fail. `SharedInv` says that
each call between `split` and `written` can itself recover its address without the local share, and
that the file is recoverable from the host's shares, or from those of a call that has written it
and so can only return. The arithmetic under it is `QuorumRecovers`: `threshold` shares of one
split, from whichever index, reconstruct its key; its cardinality comes from a bijection with an
interval. `LocalShareComesFirst` assumes `Alone`, a single caller, with imports, kills and
failures at any point. `AloneInv` adds to `LocalShareBeforeAddress` what a create in progress owes
to it: its key was drawn by it and is not reported before the end, and its share is on disk from
`ready` on. A create that is cut off after its share has replaced that of an earlier wallet but before
its address does leaves the earlier address with a share that opens and is of another, never
reported wallet: the property says so, and that nothing else can lie there. If the earlier split had no
share to spare, its wallet is lost. What a send signs for is not a property: the key it has loaded
first is compared with by its last step, whatever was written in between.

*Send.* `Inv` follows each call: the chain an honest endpoint has named, the number it has vouched for
(`NumberIsVouched`), the fee under the ceiling. `OthersKeep` is the frame: the chain grows under
a call without invalidating what it was told. `RetriesPayOnce` also needs, of every transaction that
waits, that it was signed for a nonce no higher than what was mined then, and that it is mined in
the place of its nonce. `SaturationMeetsTheCeiling` rests on `FeeCoversBaseAndTip`: an
addition or a doubling that saturates exceeds the ceiling.

*Dispatch.* `SandboxHolds` is inductive once `BASE_DIR` is known to be what it was first set to
(`BaseIsFirst`), a call that has passed a check still satisfies it (`Checked`): it works on the canonical
path it found and not on the name, and a data directory is not moved. A write lands at that path or, if
the path does not lead to itself any more, somewhere else; and a replaced directory does not come back.

*Shamir and Ceremony.* The invariant is short: every split's shares are the values of one
polynomial (`SharesAreDealt`), and once a function has been called at most one share it was given
is not genuine and the answer is the function's (`AnswerIsTheResult`). What carries the theorems is
the arithmetic, from the assumptions up. What is not 0 modulo a prime has an inverse: multiplying by
it is injective on a finite set, hence onto. `SignPrehashRecoverable` then verifies and recovers the
key for every nonce, also when it negates s and flips the parity and when x exceeds the order. A
polynomial of degree d has at most d roots (a root is a factor, by division), so two that agree in
more places than their degree agree everywhere. The numerators and denominators of
`lagrange_coefficient` are values of Lagrange's product polynomials, so `reconstruct` returns the value
at 0 of a polynomial through all the shares it was given (`InterpolationRecovers`): the split's, if they are
genuine, which gives `SharesReconstruct`; one that differs at 0 if one of them was altered, since
the difference has its roots at all the others and is not 0 at the altered one
(`VerificationNoticesForgeries`); and with any chosen value at 0 if one share fewer is known
(`FewSharesRevealNothing`). Induction is over sets of naturals, and a fold is proved about
through the recursive function it unfolds to (`FoldIsLoop` in `SumsProofs`), whose existence is
proved first; the induction theorems that take an operator as a parameter are not needed.

*Codec.* The invariant, `CodecInv`, says what may lie on the wire: before any damage what was
written (`Written`), after it any bytes or characters; and that a result is what its reader returns on that wire. It is inductive because a
splice of bytes is bytes and of characters characters (`SplicedTexts`), and because the body of a signed
transaction leaves room for two more bytes below the longest length (`SignedAreShort`). Every
property then follows from lemmas about the readers alone, which hold for any bytes:

- `HeaderIsRead` and `ItemsAreFramed`: `DecodeItem` reads an item off the front of a buffer if and only
  if `Item` or a list's `Header` wrote it, in each of the four forms of a header. It rests on
  `LengthIsWritten` and `LengthIsRead`: a length below 2^24 is the number of its trimmed bytes, and of
  no other bytes without a zero in front.
- A body is a chain (`IsChain`) of twelve items, each in front of the rest. What `encode_fields` writes
  is one (`TransactionsAreChains`), `fields_length` is its length, the loop of `decode_signed` reads
  a chain's values (`ChainIsRead`), and reads nothing else (`ReadIsChain`). `WhatIsWrittenIsRead` is
  the first three, `NothingElseIsAccepted` the last; the transaction is told by the twelve parts
  (`PartsTellFields`), and the eight that are signed by the bytes to sign (`FieldsAreTold`), since
  those are the body of the same transaction without a signature. Hence `SignaturesFitOneTransaction`.
- `OnlyTheBlobOpens`: the parts that `open_bytes` cuts a blob into are the ones it was put together
  from, so that nothing else decrypts. A key and a share differ by two bytes
  (`SealingIsAuthentic`).
- `HexIsFaithful`: the loop over pairs of characters returns the first pair's error, and where it has
  none and there is no plus sign, the digits that joining them gives back (`NibblesOfJoined`).
  A slice only splits a character at a continuation, and every `Unwrap` of a reader of bytes is behind a
  guard that makes its slice fit (`OnlyWideTextsPanic`). A quantity is its digits
  trimmed (`QuantitiesAreFaithful`).

What is only model-checked: the two liveness properties, `CallsReturn` and `EveryRequestIsAnswered`,
since liveness under fairness is out of the prover's reach. TLC evaluates the assumptions on the
constants of each run.

## Not modelled

- The address, a Keccak hash of the public key, and its checksum, a hash of the address; hashing as
  such, elliptic curves beyond their group, key derivation and encryption beyond an ideal cipher:
  library calls, or functions without state whose correctness is one of bit patterns.
- Receipts, block numbers and gas estimates (`wallet-rpc/src/evm.rs`) and `cmd_status`: queries that
  nothing in the wallet decides by.
- JSON, formatting, prompts, printing, TLS; locked memory and zeroizing buffers, which no value that a
  call returns depends on.
- `recovery.rs`: not declared as a module of the crate, hence never compiled.
- Build files and `scripts/check_boundaries.sh`: no behaviour of the program.

## Plan

1. done: `Policy`, `WriteAtomic` with `AtomicFile`, `Wallet`, `Shamir`, `Send` and their runs.
2. done: the formats and `Codec`, `Ceremony`, `Fees`, inquiries in `Send`, `Dispatch`; theorems about
   `Wallet`, `Send` and `Dispatch`, and the remaining ones about `Policy` and `WriteAtomic`.
3. done: theorems about `Shamir` and `Ceremony` for every prime and curve, and about `Codec` for
   every width and length, so that each safety property of the runs that pass is a theorem.
   The policy's addition saturates, paths are resolved again, slices can panic, and one caller
   creates and imports over whatever a directory holds.
4. left: an abstract wallet that `Wallet` implements when its callers take turns; an abstract account
   that a call of `Send` implements.
