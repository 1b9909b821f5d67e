# TLA+ models of the OrbiterSDK native-contract layer

These modules model the native-contract layer of this repository (`src/src/contract/`):
- the transactional integer variable `SafeUint224_t`;
- the ERC721 template and the ERC20 contract built on such variables;
- the `ContractManager`, which routes transactions and validations to contracts, stages native-token movements and derives new contract addresses;
- the saving of the contracts to the DB at shutdown and their loading at start, with crashes in between (`utils/db.h`).

Every definition is translated from the source lines named in `PROJECT.json` ("map"). A few are modelled from `spec.md` because their code is not under `src/`; those are marked `spec_modelled`.

## 1. The system: parts and how they interact

| Part | Source | State | Operations |
|---|---|---|---|
| SafeUint224_t | `contract/variables/safeuint224_t.h` | committed `value`; overlay `valuePtr` (null outside a write); `registered` with its owner | check(), get(), assigning operators (`=`, `+=` … `%=`, `&=`, `\|=`, `^=`, `++`, `--`), const operators (`+ - * / %`, bitwise, comparison), commit(), revert() |
| Owner contract (DynamicContract, SafeBase; headers not under src/) | spec.md 4.3 | list of used variables | markAsUsed at the first write of a call; at the end of a call, commit every used variable, or revert them all if the call threw |
| ERC721 template | `contract/templates/erc721.cpp` | `owners_`, `balances_`, `tokenApprovals_`, `operatorAddressApprovals_` | transferFrom, approve, setApprovalForAll, and the internal mint_, burn_, transfer_ (all through update_) |
| ERC20 | `contract/erc20.cpp` | `_balances`, `_allowed`, `_totalSupply` | transfer, approve, transferFrom, constructor `_mintValue` |
| ContractManager | `contract/contractmanager.cpp` | `contracts`; staged `balances`; its own `value`, `commit` | callContract(TxBlock), validateCallContractWithTx, callContract(view), ethCall dispatch (create vs validate), deriveContractAddress |
| ContractManagerInterface | same file | shares the manager's `balances` | callContract (contract-to-contract), populateBalance, getBalanceFromAddress, sendTokens |
| State (only the header is under src/) | spec.md | `accounts` balances | processContractPayable writes the staged balances back |
| DB, DBBatch | `utils/db.h` | key/value entries under byte prefixes | get, put, batches of puts applied in order (putBatch is declared only) |
| ContractManager persistence | `contract/contractmanager.cpp` 7–37, `contract/erc20.cpp` 4–63, `contract/templates/erc721.cpp` 10–53, 106–138 | the registry entries and each contract's fields in the DB | destructors write, constructors load |
| EventManager, gRPC, main, precompiles | `contract/event.h`, `net/`, `bins/`, `core/` | see §4 | not modelled |

How they interact. A transaction to a registered contract goes through `ContractManager::callContract`:
- It sets `commit = true` on the manager and on the contract, then runs `contract->ethCall`.
- The contract's code reads and writes its SafeVars, and can call other contracts through `ContractManagerInterface::callContract`.
  - An inner call that carries value first runs `sendTokens`.
  - sendTokens stages both balances in the manager's `balances` map, populating each from the State's `accounts`.
- When the function is payable and did not throw, `State::processContractPayable(balances)` writes the staged balances back.
- `balances` is then cleared.

`validateCallContractWithTx` runs the same dispatch with `commit = false`. Its purpose is to check that the call would succeed. It must leave no trace.

Nothing is written to the DB while the node runs. At shutdown `~ContractManager` puts a registry batch (address → contract name). The map of contracts is destroyed after that, so each contract's destructor runs next and writes its own fields. `~ERC20` writes `_totalSupply` and the other scalars with single puts, then a batch of balances, then a batch of allowances. At start the `ContractManager` constructor reads the registry and builds each listed contract with its loading constructor, which reads the same keys back.

### Hard behaviours
- Exceptions thrown midway through a function. A call's writes (SafeVar overlays, staged balances) must all be discarded. ERC721 throws *after* update_ has already written.
- Flags and members carried over from one entry point into the next. These are the manager's `commit` and `value`, and the SafeVar overlays.
- The many return and throw paths, each of which must clear the staged balances.
- Arithmetic at the type boundary. This covers uint224 overflow and zero operands, uint256 wrap in balances, and the 0x80 boundary of the RLP-like encoding.
- A crash, which loses everything since the last clean shutdown, and the order of the separate writes made at shutdown.
- Concurrency. Validations hold only a shared lock yet write shared members (modelled in `ConcurrentValidation`). `isContractAddress`'s lock is a temporary; that is listed as a hazard.

### What makes each part correct
- **SafeUint224_t:** each operator either succeeds with the exact result or throws the documented error and leaves the value unchanged. A call's changes persist exactly when it ends normally. No overlay survives a call.
- **ERC721:** `balanceOf` counts the owner's tokens. An approval never outlives the owner who gave it. Minting never takes an existing token. What the destructor saves, the loading constructor restores.
- **ERC20:** the balances sum to the total supply. Spending by a third party draws down an allowance the owner granted. A restart brings back the state of the last clean shutdown: its balances, supply and allowances.
- **ContractManager:**
  - Native tokens are conserved.
  - Staged balances agree with the State.
  - Nothing is staged between entry points.
  - A validation never runs in commit mode and credits the value it validates.
  - Every created contract has its own address.
  - Validations that overlap, as readers may (spec.md 5), do not see each other's writes.
  - A frame runs in the context its own call set, whatever reentrant calls happened meanwhile, and a nested call that fails is undone before its caller goes on (spec.md 4.7, 7).

## 2. Modules, in order of importance

| Module | Models | Composes / refines |
|---|---|---|
| `SafeVarContract` | abstract: what integer SafeVars promise (committed and working values, operations that succeed exactly or throw, commit on success, discard on exception) | – |
| `SafeUint224` | SafeUint224_t and its owner's commit/revert | refines `SafeVarContract` (`INSTANCE … WITH committed <- value, working <- [v \|-> Get(v)]`) |
| `ContractManager` | callContract(TxBlock), validateCallContractWithTx, the interface's callContract / populateBalance / getBalanceFromAddress / sendTokens, processContractPayable | uses the "call commits or reverts" result of SafeUint224 for the contracts it calls |
| `ERC721` | erc721.cpp | each call is one action that commits or reverts; the revert of its `SafeUnorderedMap` fields is assumed (SafeUint224 checks the discipline for `SafeUint224_t` only) |
| `ERC20` | erc20.cpp | likewise |
| `DurableToken` | abstract: what the node promises of a token's balances across its life (a live token while up, one saved image, a shutdown that saves atomically, a crash that loses only the live token, a restart that brings the saved image back) | – |
| `ERC20Store` | the ERC20 across the node's life: ~ContractManager's registry batch, ~ERC20's writes, crash, the ContractManager constructor and the ERC20 loading constructor, DB::get and batch order | composes `ERC20` (`Token == INSTANCE ERC20`) with the DB; refines `DurableToken` (`Durable == INSTANCE DurableToken WITH …`) |
| `ERC721Store` | ~ERC721's batch and the ERC721 loading constructor, as operators | extends `ERC721`; its round trip is an invariant of the ERC721 run |
| `NestedCalls` | the call stack of one callContract(TxBlock): interface calls, reentry, returns, throws and bodies that catch | uses ContractManager's staging operators (`CM == INSTANCE ContractManager WITH …`, the entry-point variables fixed to a running call) |
| `ConcurrentValidation` | validateCallContractWithTx on several threads at once, statement by statement | – (the same branches as `ContractManager`, with the threads' interleavings) |
| `ContractAddress` | deriveContractAddress and the registry insertion | – |

Each `MC*.tla` module fixes the constants for TLC: model values for addresses, a small bit width standing for 224 and 256, and symmetry sets.

### State and actions, per module

- **SafeUint224**
  - Variables:
    - `value`, `valuePtr` (NULL = nullptr) and `registered` per field;
    - `usedVars`, the owner's list;
    - `callState`: idle, running, or the exception thrown.
  - Every assigning operator is `AssignOp`: `MarkAsUsed`, then the operator's tests in code order (`OpTests`), then either `Check` and throw, or a write of the overlay.
  - `Arithmetic`: the const operators `+ - * / %` (check() and the same tests).
  - `Read`: get(), comparisons and the bitwise const operators; allowed in a call or between calls.
  - `EndCall`: commits every used field if the call ended normally, else reverts them.
- **ERC721**
  - Variables: the four maps, plus a history variable `approvedBy` (the owner who granted each token approval).
  - `update_` is shared by `TransferFrom`, `Mint`, `Burn` and `Transfer`.
  - `Call(throws, writes)` makes a call that throws a no-op, because the call is reverted.
- **ERC20:** the three maps. `Minus`/`Plus` give the uint256 results. `Checked` chooses a build that throws or one that wraps; every cfg takes the wrapping one (`Checked = FALSE`), as `ContractManager.SendTokens` does for the same `uint256_t`, whose typedef is not under `src/`.
- **ERC721Store:** `DumpERC721` is the set of DB entries `<<<<prefix, key>>, value>>` that ~ERC721's batch puts (erc721.cpp 106–138); `GetBatch` is DB::getBatch; `LoadERC721` is the loading constructor (10–53), with `LoadOperators` splitting the 40-byte key into owner and operator. No variable is added: the round trip is checked in each state of the ERC721 run rather than through a second copy of the token in a DB variable, which would square the state space.
- **ERC20Store**
  - Variables: the token's three maps; `allowedKeys`, the entries the live `_allowed` holds; `deployed`; `phase` (running, the shutdown's steps, down); `db`; a history variable `dumped` (the token as the last complete shutdown saved it).
  - The DB is one record field per key prefix: the registry entry, the `_totalSupply` key, balances by holder, allowances by owner. An absent key is `NONE`.
  - `Deploy` is the creating constructor. `TokenTransfer`, `TokenApprove` and `TokenTransferFrom` are the ERC20 actions, taken while running. A transferFrom on a missing allowance entry inserts it (`operator[]`); in the wrapping build the entry stays, with the wrapped amount, and is saved at shutdown.
  - The shutdown is four actions in code order: `DumpRegistry`, `DumpFields`, `DumpBalances`, `DumpAllowed`. `DumpAllowed` applies the puts with `ApplyBatch` (a `FoldLeft`) in every iteration order of the maps (`SetToSeqs`).
  - Each put or batch goes through `DBWrite`, which applies it or, when `WriteOutcomes` allows, fails and changes nothing.
  - `Crash` loses the process. It is possible while running, and also between the shutdown's writes if `CrashDuringShutdown` is set.
  - `Restart` loads the token with `LoadToken` if the registry lists it.
  - Refinement mapping to `DurableToken`: `up` is `phase = "running"`; `live` is the token's balances and supply while running with a token; `saved` is what the loading constructor would read from `db` (`SavedBalances`), except while a shutdown is under way, when the live token counts as already saved. So the registry batch is DurableToken's `Shutdown`, the later writes are stuttering steps, and any write outside the shutdown that changes what a restart would load breaks the refinement at that step.
- **ContractManager**
  - Each branch of the two entry points is an action:
    - `CallManager`, `CallRdPoS`, `CallMissing`, `CallRegistered` (line 95–144);
    - `ValidateManager`, `ValidateRdPoS`, `ValidateMissing`, `ValidateRegistered` (173–210).
  - Registered-contract bodies take steps: `InterfaceCall`, `GetBalanceFromAddress`, `ContractThrows`.
  - They end with `EndCall` / `EndValidate`.
  - `lastDispatch` records the entry point and the commit flag of each ethCall dispatch.
- **ConcurrentValidation**
  - Variables: the shared `balances` and `value` of the manager, each contract's `caller`; per thread its `pc`, the `call` it validates, the `credit` its prelude added, and what its contract body `seen`.
  - A thread's statements: `Begin` (the value prelude, lines 176–180), then `ValidateProtocol` (manager or rdPoS, 181–198), `ValidateMissing` (200–204) or `ValidateRegistered` (205–210); then `ContractBody` (reads `caller` and its balance through getBalanceFromAddress) and `EndValidate` (balances.clear()).
  - `accounts` never changes: spec.md 5 has no block applied while readers run.
- **NestedCalls**
  - Variables: `accounts` and the shared `balances`; `member`, each contract's caller, value and commit members; `stack`, the frames, each with the context its call set and the balances at the moment it made a nested call (`atCall`); `failed`, an exception from a nested call has reached the innermost body.
  - `CallRegistered` (lines 132–144) pushes the first frame. `InterfaceCall` (269–283) runs sendTokens, then either raises "Contract does not exist" into the body or writes the callee's members and pushes its frame; the stack is bounded by `MaxDepth`. `Return` pops; `Throw` clears the callee's commit (284–288) and raises into the caller, or ends the transaction at the outermost frame; `Catch` lets the body go on; `EndCall` (145–157) writes back a payable call.
- **ContractAddress:** `CreateContract` derives `<<rlpSize, caller, nonceByte>>`, standing for its sha3 (taken as injective), and inserts it.

## 3. Runs

| Run | cfg | Expect | Checks |
|---|---|---|---|
| safevar_refines | MCSafeUint224.cfg | pass | `TypeOK`; `ImplementsDocContract`: the fields implement SafeVarContract under the doc comments' rule |
| erc721_safety | MCERC721.cfg | pass | `TypeOK`, `BalancesMatchOwners`, `NoStaleApproval`, `RestartRestoresContract` (save and load in every reachable state) |
| erc721_mint_existing | MCERC721_MintOfExistingTokenFails.cfg | violation | mint_ of an existing token |
| cm_staging | MCContractManager.cfg | pass | `TypeOK`, `StagedTotalMatchesAccounts`, `NoStagedBalanceBetweenCalls` |
| cm_balance_conserved | MCContractManager_BalanceConserved.cfg | violation | conservation of native tokens (sendTokens guard) |
| cm_validation_stale | MCContractManager_ValidationStale.cfg | violation | `ValidationIgnoresManagerMembers`: a validation neither commits nor misses the call's value, whatever the manager's stale members |
| address_past_128 | MCContractAddress_Past128.cfg | violation | collision from the 129th creation |
| erc20_store | MCERC20Store.cfg | pass | `ImplementsDurableToken` (the node implements DurableToken), across deploys, calls, clean shutdowns, crashes and restarts |
| erc20_allowances | MCERC20Store_Allowances.cfg | violation | `AllowancesHonoured`: transferFrom within the allowance, and allowances after a clean shutdown and restart |
| erc20_faults | MCERC20Store_Faults.cfg | violation | `ImplementsDurableToken` with crashes between the shutdown's writes and failing writes |
| nested_frames | MCNestedCalls.cfg | violation | `FrameIsolation`: a failed nested call caught by its caller, and reentry |
| cv_isolation | MCConcurrentValidation.cfg | violation | `ValidationIsolated`: two overlapping validations |

What the violations show (details in `PROJECT.json` "findings"):

1. **`sendTokens` tests `balances[to] < amount` (contractmanager.cpp:311).**
   - A contract holding 0 that sends 1 to a contract holding 1 is not refused.
   - Its balance wraps to 2^256−1, and processContractPayable writes that into the State.
2. **The manager's `commit` is set to true for every transaction (line 96).**
   - It is reset only in the manager's own branch.
   - A later `validateCallContractWithTx` to the manager therefore dispatches to `createContractFuncs`. This is a real deployment during validation.
   - Nested interface calls made during a validation also run with `commit = true` (line 282).
3. **`validateCallContractWithTx` tests the manager's old `value` member (line 176).** It should test the value of the call being validated.
   - Findings 2 and 3 are one run, `cm_validation_stale`, on their conjunction `ValidationIgnoresManagerMembers`; TLC shows finding 3 (one step). Each half alone is `MCContractManager_ValidationNeverCommits.cfg` and `MCContractManager_ValidationCreditsValue.cfg`, kept beside the runs.
4. **`deriveContractAddress` writes only `0x80+bytesRequired` for counts ≥ 128 (line 48).** The contracts created at counts 128 and 129 by the same caller get the same address.
5. **`mint_` ignores the previous owner (erc721.cpp:202).** Minting an existing id takes the token.
6. **SafeUint224_t differs from spec.md in two ways.** Neither is among the runs:
   - `*` throws on a zero operand, and `/` and `%` throw on a zero left operand (safeuint224_t.h:529–642). The doc comments say so, spec.md does not. `MCSafeUint224_FailureRuleOfSpec.cfg` finds `FailureRuleOfSpec` violated at once (0 * 1);
   - a read between transactions leaves an unregistered overlay (line 25). `MCSafeUint224_NoOverlayOutsideCall.cfg` shows it in one step. It is kept beside the runs but is not one of them.
7. **ERC20 `transfer`/`transferFrom` test neither balance nor allowance (erc20.cpp:137–140, 160–164).** They rely on `uint256_t -=` to refuse an overdraft; the project takes `uint256_t` as wrapping, as `sendTokens` does.
   - `erc20_allowances` checks `AllowancesHonoured`. TLC finds, in two steps, u1 calling `transferFrom(u1, u2, 1)` with no allowance: the allowance wraps from 0 and the tokens move. Any other caller could take them the same way.
   - `MCERC20.cfg` (not among the runs) checks the contract alone: an overdrawing `transfer` wraps the sender's balance in two steps, so the balances no longer sum to the supply.
8. **`~ERC20` writes every allowance under the owner's address alone (erc20.cpp:53–57).**
   - The value is spender ++ amount. An owner with two spenders puts two entries under one key, and the batch keeps the last.
   - After a clean shutdown and restart, the other allowance reads 0. The repository's reload test (tests/core/evmhost.cpp) checks balances only.
   - It is the second conjunct of `AllowancesHonoured`; `MCERC20Store_AllowancesRestart.cfg`, beside the runs, checks it alone (nine steps), since the run's trace stops at finding 7.
9. **Overlapping validations share `balances` and `caller` (contractmanager.cpp:176–216).**
   - `validateCallContractWithTx` takes `contractsMutex` shared, and its value prelude and final `balances.clear()` are outside even that lock.
   - Thread 1 enters a contract; thread 2's prelude credits the same contract; thread 1's body then reads thread 2's value as its own balance (four steps).
   - Other traces give thread 1 thread 2's sender as `caller`, or wipe thread 1's credit with thread 2's `clear()`.
   - With one thread (`MCConcurrentValidation_OneThread.cfg`, not among the runs) the property holds over 2,688 states.
10. **A nested call is neither undone nor isolated (contractmanager.cpp:269–289).**
   - `ContractManagerInterface::callContract` runs `sendTokens` before it tests that `to` is a contract. A contract that sends 1 to rdPoS (not in `contracts`) and catches the exception keeps the transfer (three steps).
   - A contract has one `caller`, `value` and `commit`, not one per frame. With no tokens to send (`MCNestedCalls_Reentry.cfg`, not among the runs) TLC finds c1 calling itself: after the inner call returns, the outer frame's `getCaller()` is c1 instead of the transaction's sender (four steps). A nested throw likewise leaves the outer frame with commit false.
   - spec.md 4.7 and 7: a failed frame reverts and its caller observes only that; reentry is permitted.
11. **The shutdown is not atomic and ignores failed writes (contractmanager.cpp:36, db.h:228).**
   - `erc20_faults` sets `CrashDuringShutdown` TRUE and `WriteOutcomes` {TRUE, FALSE}.
   - TLC finds `ImplementsDurableToken` violated in three steps: deploy, the registry batch, a crash. The shutdown that had begun saving the live token is lost half-way; DurableToken's `Shutdown` is one step.
   - With crashes off, a failed write alone breaks it at `DumpAllowed` (`MCERC20Store_WriteFails.cfg`, beside the runs).

Every property of a passing run has a mutant in `PROJECT.json`. The mutant is a plausible slip in the mapped code, such as a dropped test, a swapped index, a missing clear or a revert that keeps the overlay. TLC finds the property violated once the slip is substituted.

### Bounds and why they suffice
- **SafeUint224:** two fields; Width 2, so values 0..3, which includes 0, 1 and the maximum.
  - Every operator meets both its boundary and its zero cases.
  - Calls can be of any length. The state space is closed (2,766 states).
- **ERC721:** three users and two tokens, under symmetry.
  - This is enough for an owner, an approved spender and an operator to be distinct.
  - It also allows a token to be re-minted while another exists.
- **ERC20Store:** two users under symmetry; amount 1. The violation runs take Width 2 and mint 2; the passing run takes Width 1 and mint 1.
  - An owner can approve itself and the other user, which is the case the allowance batch gets wrong.
  - A transferFrom can use up an allowance, and an overdraft wraps (0 − 1 is 1 at Width 1).
  - Any number of shutdowns, crashes and restarts happen in one behaviour (26,399 states, depth 22).
  - With wrapping every balance and allowance value is reachable, so Width 2 and mint 2 pass too but take 14 million states and 17 minutes.
  - `CrashDuringShutdown` is FALSE in the passing run, which checks what a clean shutdown guarantees. With it TRUE (`erc20_faults`), TLC finds two problems. A crash after the registry batch breaks `ImplementsDurableToken` at the crash, in three steps, since DurableToken's shutdown is atomic and this one stops half-way. Which half is saved depends on where the crash falls. After the `_totalSupply` put, a restart brings the token back with its new supply beside the old balances. Right after the registry batch, the node cannot load its registered token (a deadlock). This is finding 11.
- **ContractManager:**
  - Addresses: two registered contracts, one EOA, plus the manager and rdPoS.
  - Width 2, initial balances 0 or 1, and amount 1.
  - Nested calls can reach both contracts. A transfer can wrap. The manager's stale `value` and `commit` can come from a different earlier entry point.
- **ConcurrentValidation:** two threads, one contract, two senders, Width 2, values 0 and 1, initial balances 0 or 1, any stale `value` and `caller`. Two threads are the fewest that can overlap, and two senders let a `caller` be overwritten by a different one.
- **NestedCalls:** two contracts, one EOA, rdPoS and the manager; Width 2; amount 1; `MaxDepth` 3, enough for c1 → c2 → c1 and for a contract calling itself. The run stops at the first violation (three steps); the reentry configuration stops at four.
- **ContractAddress:**
  - Bounds: one caller; 130 creations, so that the counts 128 and 129 occur. `MCContractAddress.cfg` (128 creations, not among the runs) shows the property holding while the count fits the one-byte form.
  - Why one caller is enough: the caller's 20 bytes are in the hashed string, so two different callers can never collide.
  - `CHECK_DEADLOCK FALSE`: the only stop is the creation bound.

### Fairness
All the properties checked are safety properties, so no fairness is assumed. The code has no scheduler or retry loop whose progress a liveness property could be stated about. Its entry points are invoked by callers outside `src/`. Nor does ERC20Store need any: a shutdown, a crash and a restart are each allowed and never forced, as are the calls.

## 4. Not modelled, and why
- **A crash inside ERC721's shutdown.** ERC721Store checks the save-and-load round trip, not a crash between ~ERC721's single puts and its batch; that is the same torn shutdown as ERC20Store's.
- **The rest of the DB.** `has`, `del`, `getKeys` and the RocksDB iterators are not used by the modelled paths. A failed `put` or `putBatch` returns false, and every destructor ignores that result. ERC20Store has it (`DBWrite`, with the constant `WriteOutcomes`); the passing runs take every write to succeed, and `erc20_faults` and `MCERC20Store_WriteFails.cfg` let them fail: a write of the shutdown fails unnoticed and the node goes down with a DB image that is not the token it saved (`ImplementsDurableToken` violated at `DumpAllowed`).
- **Reading a key that was never written.** `bytesToUint256` is not under `src/`. `Restart` therefore does not load a registered token whose `_totalSupply` key is absent. That state is reachable only with `CrashDuringShutdown`.
- **Concurrency beyond validations.** `isContractAddress` holds no lock (its `shared_lock` is an unnamed temporary), which matters only against a writer inserting a contract; view calls race on SafeVar `check()`. Neither writer nor view threads are modelled; both are listed as hazards. The validations themselves are modelled in `ConcurrentValidation`.
- **EventManager.** Loading and saving are TODO in the source.
- **gRPC server, main, chainHead, precompiles, secp256k1.** These are I/O, declarations only, or cryptography.
- **Contract bodies that catch exceptions** are in `NestedCalls` only. `ContractManager` propagates every exception to the end of the call, which is what the bodies under `src/` (ERC20, ERC721) do: they make no interface calls.
- **Contract-side effects of the dispatched ethCall.** Only the commit flag is modelled; the SafeVar effects are checked in SafeUint224.

## 5. Plan for later sittings
1. View calls racing on SafeVar `check()`, and a block-applying writer beside the validating readers.
2. ERC721's view functions throwing (`ownerOf`, `getApproved`), and the approve race in ERC20.
