# A TLA+ verification of tfgrid-sdk-rust

The repository is a Rust SDK for the ThreeFold grid. Its core is `GridClient`
(`src/src/grid_client/mod.rs`): it places virtual machines and gateways on
remote nodes, which takes contracts on TFChain, deployments pushed to nodes
over the RMB message relay, and polls of the grid_proxy index to find out what
became of either. Nothing of this is atomic. A deploy call is a chain of some
twenty awaits, each of which can fail, time out or be answered late, and several
calls run at once on one client. Beside it the crate has a synchronous half: a
`Deployer` over a mock chain, a state loader that rebuilds what nodes hold, a cost
calculator and the conversions between requests, workloads and deployments. This
directory models both halves, checks them with TLC on small instances and proves
with TLAPS, for every size, all the safety and action properties TLC finds to hold, the
two refinements among them; what is left to TLC alone is liveness.

## 1. Inventory

Line numbers are of `src/src/grid_client/mod.rs` unless another file is named.

| Component | State | Operations | Talks to | What is hard | Correct means |
|---|---|---|---|---|---|
| VM deployment (667-747, 990-1384) | ids created so far, candidate index | `deploy_vm`, `deploy_vm_light`, failover, `rollback_contracts`, `cancel_deployment_outcome` | chain, grid_proxy, RMB | partial failure, stale index, late deploy requests and cancellations, concurrent rollbacks, equal requests | known contracts are cancelled or reported; a returned outcome exists; networks go last |
| Waiting for workloads (1615-1701, 1783-1848) | deadline, last answer | `wait_for_workloads`, `workloads_from_get` | RMB | two polls of one node that moves on; several workloads | Ok only when decided, no timeout on a deployment that is up |
| RMB transport (1905-2062) | relay socket under a mutex | `rmb_call`, `ensure_relay_socket`, `node_call` | relay | shared socket, late and foreign replies, timeouts, dropped futures | a caller gets its own reply; the socket is there when used; nobody waits for ever |
| Gateways and bare contracts (800-957, 1576-1613, 1850-1873) | ids created so far | `deploy_gateway_name`, `deploy_gateway_fqdn`, `cancel_gateway`, `create_node_contract` | chain, grid_proxy, RMB | no rollback, lookup by name in a stale index | outcomes do not share names; cancellation is complete and gives up the name last |
| Placement (1386-1526) | none | `pick_nodes`, `pick_zmachine_nodes`, `get_free_wg_port` | grid_proxy, RMB | port read and used later | ports clash only when the calls overlap |
| Configuration (86-388) | endpoint lists | builder setters, `network_endpoints` | - | order of setters | the primary endpoint is the one the documented rules give |
| Building, validation, hashing (`deployment.rs`, `types.rs`) | none | `validate_*`, `build_*`, `sign_deployment`, `deployment_hash_hex` | - | which fields the hash covers, hash maps, names shared by workloads | signature and hash survive; different deployments have different hashes; an outcome is the call's own |
| Deployer facade (`deployer.rs`) | none | `deploy`, `cancel`, `load_node_deployment` | substrate, node client | one lock per map, leak between create and put | maps agree; what is returned stays until cancelled |
| Substrate interface and mock (`subi.rs`) | eight maps, id counter | contract creation, cancellation, queries | - | one lock per map | indexes agree |
| Node client and mock (`node.rs`) | deployments per contract | put, get, delete, changes | - | id 0 is refused | - |
| State loader (`state.rs`) | contract ids per node, networks | store, remove, load | substrate, nodes | merge in map order, nodes that change, loads that fail half way | loaded values agree with what the nodes hold; a failed load stores nothing |
| Calculator (`calculator.rs`) | none | costs, overdue, discounts | substrate | contracts read one by one, a rent contract among them, rounding, discount tiers | prices are monotone; an overdue amount covers what is owed |
| Workload schema (`workloads.rs`, `zos.rs`) | none | matching, reconstruction from zos | - | one name space for all kinds | what is read back is what was deployed, in the declared order |
| Errors, crate root, examples | none | - | - | - | - |

The hazards this leads to, each at its line and with the properties that watch
it, are the `hazards` of `PROJECT.json`.

## 2. Plan

1. `Grid`, `DeployVm`, `RmbCall`, `WorkloadWait`: the deployment lifecycle, its
   transport and its wait. Done, with proofs.
2. `Gateway`, on the same `Grid`. Done, with proofs.
3. `Deployer` with the mock substrate and mock node: creation under three locks,
   cancellation at any moment, agreement of the indexes. Done, with proofs.
4. `StateLoader`: the contract index, the merge of networks, deployments and
   clusters read from nodes that move on. Done, with proofs.
5. `Placement`, `ClientConfig`, `Calculator`, `Workloads`, `Requests`, with one
   instance for all (`MCClient`). Done, with proofs.
6. `Lease`, what a deploy call promises about contracts, implemented by `DeployVm`
   and `Gateway`. Done, with proofs of both refinements.
7. Still open: the agreement of the wait and the transport with what `DeployVm` assumes
   of them (`SettlesOk`, `Hang`), which is kept by hand so far.

## 3. Modules and the code

**`Grid`** is everything outside the repository that the client talks to: TFChain's view
of each contract (`chain`: none, pooled, created, cancelled, dropped), the contracts
grid_proxy lists (`listed`, which lags behind in both directions), the deployment each
node holds (`zos`), deploy requests that were given up and may still arrive (`inflight`),
and the `cancel_contract` extrinsics in the pool (`cancelling`), which are included or
dropped whether or not anybody still watches them. It is modelled from the client's use of
it: queries sent, error texts told apart. A node accepts a deployment only for a contract
that exists and refuses one it has. A contract is named by the extrinsic that creates it;
`NodeOf` and `HashOf` give what a lookup can see of it, and `OwnHash(d)` says that no
other contract of `d`'s node carries `d`'s hash.

**`DeployVm`** has one process per call of `deploy_vm` or `deploy_vm_light`. The
two functions have the same control flow and are one model: an optional network
deployment (`kind = "network"`), then the VM deployment.

| Action | Code |
|---|---|
| `Start` | validation, placement |
| `Submit`, `Finalized` | `submit_create_node_contract` and `wait_for_finalized` |
| `Lookup` | `wait_for_contract` and the push to `created` |
| `Deploy`, `Confirm` | one round of `deploy_and_confirm` |
| `Settle`, `ReadBack` | `wait_for_workloads`, then the read back and the verdict on it |
| `UndoDelete`, `UndoCancel`, `UndoWatch` | one turn of `rollback_contracts`: delete on the node, submit the cancellation, learn what became of it |
| `Advance` | the next candidate of `deploy_with_failover` |
| `StartCancel`, `CancelDelete`, `CancelCancel`, `CancelWatch` | `cancel_deployment_outcome`, which the caller may repeat |
| `WatchLost` | watching an extrinsic fails, of a creation or of a cancellation |
| `Hang` | an RMB request that is never answered (lock, `connect_async` and `send` have no deadline) |

`created` is the code's vector of the attempt: what the client knows, as opposed
to `chain`. `traced` are the contracts whose failed cancellation the rollback
reported. Two things are deliberately kept as the code has them: an extrinsic
whose watching fails may still be included later, be it a creation or a cancellation,
and a contract becomes known only when the lookup has found it.

**`WorkloadWait`** is one `wait_for_workloads` for any set of workloads: a poll of
the change history, a second poll of the current states when the history is empty,
the test `ok_workloads.len() == 1`, and the deadline, which is looked at between polls
only, so that a poll that never ends (`Hang`) keeps the wait. `DeployVm`'s `SettlesOk`
is a summary of the test made by hand.

**`RmbCall`** is the transport under every RMB request: callers queue for the
mutex (tokio's is fair), the holder connects if there is no socket, sends, reads
frames until its own uid comes, and drops the socket on errors and timeouts. A
caller may drop its future anywhere. Calls are split by result type, because
`rmb_call` treats the end of the stream differently for `()`.

**`Gateway`** has one process per call of `deploy_gateway_name`,
`deploy_gateway_fqdn` or `create_node_contract`, the calls without a rollback.
A name contract is a contract of `NoNode` whose hash is the name, so a lookup by
name and one by node and hash are the same query of `Grid`. That TFChain
registers a name once is the only addition to the outside world.

**`Deployer`** is the synchronous half of the crate: threads that call `Deployer::deploy`
and `Deployer::cancel` on a shared `MockSubstrate` and `MockNodeClientGetter`. Each map of
the substrate has a mutex of its own, so each lock/unlock pair is an action: `TakeId` (the
atomic counter), `InsertContract`, `PushNodeContract` and `InsertHash` are one
`create_node_contract`; `Build` and `Put` are the rest of `deploy`; `StartCancel` and
`EndCancel` the two halves of `cancel`, which may be called with any id at any moment.
What `add_node`, `add_contract` and `set_contract_hash` entered before sharing is in
`Init` (all take `&mut self`), and so are deployments a test inserts on the nodes; the
counter starts at 1 (`new()`) or at 0 (`default()`), and `Put` refuses the id 0 as
`deployment_put` does. A fixture enters each contract once, a hash under its contract's
node, and its ids are far from the top of `u64`. `listed` counts how often a node's vector
holds an id; its order is read by nobody. `before` is a history variable for
`CancelledIsUndeployed`.

**`Lease`** is the abstract specification of a deploy call: it comes to know
contracts, returns them to its caller or falls, and lets go of them only by
cancelling them or reporting that it could not. Only a call that undoes an attempt
or ends its lease asks for a cancellation, and only of a contract it knows. `DeployVm` and `Gateway`
define `L == INSTANCE Lease WITH ...`: `phase` is read off `pc` (`PhaseAt`), `known` off
`created`, `asked` off `cancelling`, `gone` off the chain and `reported` off `traced`.
The chain answers what it was asked in its own time (`Answer`), also after the call
reported the contract and went on. A gateway call has no
rollback (`RollsBack` is empty), so its failure is a step straight to `failed`.

**`StateLoader`** is `state.rs`: `current_node_deployments`, `NetworkState` and the loads
that change it, over nodes that hold any deployments of a catalogue and change what they
hold. A load asks one node after the other in hash map order; each answer is a `ReadNode`
(any node left may be next), which keeps it in `answers`; `first` is the node whose
network is the one merged into; `EndScan` merges and stores. `load_deployment_from_grid`
is `LoadDeployment` and one scan, or a second one for light networks when the first fails
(`Abort`); `load_k8s_from_grid` is `LoadK8s`, one `FindK8sNode` per node, `AssembleK8s`
and a scan. A workload is reduced to what the loaders can tell apart of it: whether serde
accepts it, its subnet, the node of its first user access, whether there is a port, and
whether a machine is written flat (by `workloads.rs`) or nested (by `GridClient`). A
public node's endpoint may be the empty string, which replaces one found before (`Asked`)
and leaves the network without access. `before` and `quiet` are history variables.

**`Calculator`** has the prices as operators over exact integers (calculator.rs has
f64; each operator names its scale) and `calculate_contract_overdue` as actions, for
any amounts of overdraft, unbilled use and cost since the last bill (`Overdrafts`,
`Unbilled`, `PeriodCosts`). `calls` is the call stack: `AskOverdue` is the first call,
`ReadOverdue` the one for a contract of the rented node, which may be a rent contract
again, `TotalOverdue` returns the innermost call's total to the one that waits for it,
while `ChainBills` bills or deletes contracts. `answered`, `owed` and `reads` are history.

**`ClientConfig`** is `GridClientConfigBuilder`: one action per group of setters and
`Build`. The history `setters` lets `BuiltAsDocumented` say what the repository's README
says of the calls without repeating the code. `NormalizeUrls` keeps the URLs at the
`Usable` places of a list, in their order.

**`Placement`** has the two node filters and `get_free_wg_port`. Choosing a port
(`ChoosePort`) and the network with it being on the node (`HostNetwork`) are two
steps, as in `deploy_vm_on_node_inner`; `overlaps` records which calls were between
the two at once. A candidate is a place in the listing: nodes stay in its order.

**`Workloads`** is `workloads::Deployment`: `ZosDeployment` flattens it, a node runs it
(`DeployDeclared`, any workload may fail), `LoadHeld` rebuilds it, `MatchDeployments`
brings it into the declared order. A name is a sequence of parts, so that `{vm}ip` can
also be the name of something else.

**`Requests`** follows a request through `Valid`, the defaults taken from the clock,
the workloads of `build_network*`, `build_vm*` and `build_gateway_*`, `Challenge` (the
text whose md5 is signed and registered), `SendDeployment` and `ReadBack`, which reads
any selection of the workloads in any order, as a node may answer. A text is a
sequence of atoms that are strung together as the code does, so two challenges can
coincide in the model when they can in the code. `Comma` is the comma between the
members of the JSON metadata, with the quotes around it: serde_json escapes the quotes
of a name, so no name contains it. A hash map is walked in any order
at each use (`Walks`). Contracts, failures and waiting are in `DeployVm` and `Gateway`.

**`Ranks`** says filtering (`EntriesAt`) and the stable `sort_by_key` (`SortedByKey`) by
the rank each entry has in the result, for `Workloads` and `Requests`. A recursive
definition would compute the same lists, but nothing could be proved of it for all.

**`MC*`** modules and the `.cfg` files instantiate these. `MCClient` puts the five
modules without interaction into one instance: `part` says which of them is at
work. **`GridProofs`, `DeployVmProofs`, `RmbCallProofs`, `WorkloadWaitProofs`,
`GatewayProofs`, `DeployerProofs`, `StateLoaderProofs`, `ClientProofs`** hold the
theorems; `ClientProofs` those of `Calculator`, `ClientConfig`, `Placement`, `Requests`
and `Workloads`.

## 4. Runs

Every poll that answers "not yet" changes nothing and is a stuttering step, so
the models need no clock: a deadline is an alternative that is open while the
poll runs. That is an over-approximation (a deadline may pass at once), which is
sound for safety.

| Run | Instance | Shows |
|---|---|---|
| `deploy_failover` | 1 call, 2 candidates with one hash, 2 attempts, late cancellations, requests that hang, with fairness | every call and every cancellation returns unless its RMB request never does; what is returned exists, whatever cancellations of an earlier candidate come late; `DeployVm` implements `Lease` |
| `deploy_shared` | 2 calls for the same full VM on 1 node, one with a network of its own | a rollback and an Ok from a (repeated) cancellation account for all the call knew, foreign contracts included; networks are cancelled last; a returned contract with a hash of its own exists |
| `rmb` | 2 value calls and 1 unit call, with fairness | the mutex is sound also when futures are dropped, no cross talk, Ok values come from the node, the socket is never missing; every call returns unless a holder hangs in an await without deadline |
| `wait` | every set of 1 to 3 workloads | the wait ends unless a poll never does, its Ok is conclusive, one workload seen ok never times out |
| `gateway` | 2 name gateways with one name and hash, or an FQDN gateway and a bare contract, late cancellations, with fairness | two returned gateways never share a name contract; the name is given up last; an Ok from a (repeated) cancellation is complete; every call returns unless its RMB request never does; `Gateway` implements `Lease` |
| `deployer` | 2 deploys, 2 cancels, 3 nodes (1 unregistered), a fixture contract with hash and deployment or none, ids from 0 or 1 | ids are drawn once; the maps agree at every moment; what was returned stays until it is cancelled; what was cancelled after its return is gone |
| `loader` | 2 nodes, 11 mixes of deployments, 1 change, any sequence of calls | stored subnets are those the nodes hold, whatever the map order; contract and subnet of a node are of one deployment; failed loads store nothing; the WireGuard endpoint and peer are one node; a cluster has a subnet for each machine |
| `client` | all ordered pairs of usages and of 3 balances; 4 contracts, the rent contract on its node's list or not; 3 setters; 2 port choices; declared deployments and an edit; pairs of requests | who uses less and owns more pays no more; an overdue amount covers what is owed and is off by less than a TFT per contract; endpoints follow the documented rules; ports clash only when calls overlap; matching restores the declared deployment; signatures and hashes survive map order and tell deployments apart; outcomes are the call's own |

The bounds: two calls and one or two candidates are enough for every pair of
steps to interleave, for every failure to happen on a first and on a last
candidate, and for a stale entry of an earlier call to be found by a later one. The
safety theorems below remove the bounds on calls, candidates and attempts.
`MaxAttempts` stands for the code's 10 and is 1 where attempts only multiply
states and 2 where the counter matters. `MayHang` names the calls whose requests may never
be answered. It is empty where no liveness is checked: for safety a call that hangs is one
that takes no step for a while. In `deploy_shared` the constraint `NeverHalted` leaves out
deployments that stop, which `deploy_failover` has; `KeepsLease` is checked in the latter
and proved for all. In `gateway` the constraint `TwoAtATime` keeps the two pairs of calls
apart, has the second name gateway given up only when the first failed or is gone, and
leaves delayed requests and retries to the second pair. It cuts off whole branches (a
call that starts, a request that is delayed, a cancellation that starts), none of which
fairness asks for, so it hides no unfair loop from the liveness check. In `client`,
`MaxDepth` bounds the calculator's call stack and `MaxBills` what the chain does
meanwhile; in `deployer`, `MaxId` the ids.

For `loader`, two nodes give both orders of the map, two deployments per node a
network that is found twice, and one change a node that moves on between any two
answers. For `client`, the instances hold the boundary cases by hand: floors of bytes,
balances between the tiers, blank and slashed URLs, a volume and a VM that share a
name, a VM called like another's public IP, a volume called like the VM.

Deadlock is checked in all runs but `client`: the runs of calls end in an explicit step
`AllFinished` once no call is at work. The parts of `client` simply end (a builder is
consumed, a price is computed).

### Fairness

`deploy_failover` and `gateway` assume that a call goes on (`CallStep`) unless it hangs:
its awaits are HTTP requests, for which the client sets a timeout (591-592), queries and
submissions on the chain connection, which is assumed to answer or break, loops with a
deadline, and RMB requests. An RMB request has no deadline of its own: `rmb_call` waits for
the mutex, connects (2057) and sends (1957) for as long as that takes. `Hang` is therefore a
step of the model, and `EveryCallReturns` exempts the calls that hang; nothing else is
exempted. The same holds of `wait`: a poll may hang, and `WaitEnds` says so. The
fairness of `CallStep` is strong, for one reason: a call that waits for its cancellation to
be decided can be disabled again and again when other calls that found the same contract
ask for the same cancellation, and the code, which watches its own extrinsic, is not held up
by those. The chain is assumed to decide on every pooled extrinsic (weak fairness of
`ChainDecides`): `wait_for_finalized` has no deadline, so without that a call may wait for
ever. Nothing is assumed of grid_proxy or the nodes, which may stay silent. `rmb` assumes
fairness of the lock queue and of receiving (with its timeout), not of connecting and
sending, and its property exempts behaviours in which a holder hangs there.

### What the code does against its own words

Four runs are expected to find a violation; each quotes its source in
`findings`.

- `deploy_stray`: a failed attempt can leave a contract on chain that no rollback
  will ever see, because an id is recorded only after the lookup succeeded.
- `rmb_unit`: a call with result type `()` is told Ok without a reply when the
  stream ends or the deadline has passed at the head of the loop. A configured
  `rmb_timeout` below one second is truncated to 0 and gets there at once.
- `wait_volume`: `ok_workloads.len() == 1` is false once two or more workloads are
  ok, so the wait for a healthy VM with a volume times out and the VM is rolled
  back. The other half of the same test, that such a wait reports ok when only one
  of the workloads is, no statement of the repository is against; `DeployVm` has it.
- `gateway_stale_name`: a name registered again after it was given up can be
  looked up as the old, cancelled contract; cancelling that outcome leaves the new
  name contract on chain.

More behaviours are in the models and no statement of the repository is against them:
`create_node_contract` can answer with the id of an older contract of the same
node and hash (`Lookup` takes any match), and a gateway whose workload is in error
is returned as deployed (`Settle` goes on whatever state it saw). Two equal requests for a
full VM have one hash, and the keys and seeds that tell the other deployments apart may be
supplied by the caller: a call can find the contract of another with the same hash, return
it, and lose it when the other rolls back or cancels. `OutcomeIsLive` and
`NetworkOutlivesVm` therefore speak of contracts whose hash is their own (`OwnHash`), and
only of their hash: whatever others share does not matter. An overdue amount of a rented
node whose list has the node's own rent contract in it, as the mock substrate's has, is
never computed: the calculator calls itself until the stack is full.
`PricesOrdered`, `MatchRestores`, `AccessIsOneNode` and `OutcomeIsOwn` carry conditions
that the code does not enforce: on a rented node a contract without a public IP is
charged the full price and one with an IP only the IPs; names that several workloads
share confuse ranks and public IPs, and a declared list that reaches rank 10000 mixes
with the names that are declared nowhere (`RanksFit`); networks that disagree on their
public node mix an endpoint and a peer of two nodes; a default subnet ignores the
caller's `ip_range`; the VM's address ends in `.5` whatever the mask, which is outside a
subnet like 10.1.2.128/25; a volume called like the VM can be read back in its place, and
one called like its public IP can hide it.
`load_k8s_from_grid` may fail after it has stored the network it read, and
`HashTellsApart` cannot say more than kind and name: two equal requests for
a full VM have one hash.

## 5. Proofs

All theorems hold for any sets of calls, nodes, contracts and hashes, any candidate lists
and any number of attempts, deployments, requests, setters and amounts. Assumed is only
what the named assumptions on constants say, mostly types: `GridAssumption`,
`DeployAssumption`, `GatewayAssumption` (the contract of a step is made for its node),
`RmbAssumption`, `WaitAssumption` (a deployment has finitely many workloads, and one at
least), `DeployerAssumption` (fixtures enter ids of the range they have; no id is `NoId`),
`LoaderAssumption`, `PlacementAssumption`, `CalculatorAssumption` (a discount is a
percentage; no name contract is listed under a node), `ConfigAssumption` (every preset has
a URL for each endpoint), `WorkloadsAssumption` (only a VM has a public IP) and
`RequestsAssumption` (a map has finitely many keys; the comma of the JSON metadata is in
no name). TLC evaluates all of them.

**`DeployVmProofs`.** `TypeCorrect`, `RollbackIsComplete` and `CancelIsComplete`
rest on the inductive invariant `Bookkeeping`: the type invariant; `HasCurrent`
(a call that works on a contract has one, so no step uses id 0); `Fresh` (an
extrinsic that was not submitted has left no mark on the chain, so a submission
never revives a cancelled contract); and `Accounted` (which of its contracts a
call has dealt with at each point of the two undo loops). `RollbackComplete`
itself is not inductive: it speaks of the end of the loop only. No assumption on
hashes is made, so these hold even when a lookup returns a foreign contract.

`OutcomeStaysLive` and `NetworksGoLast` need more: `Ownership` adds that grid_proxy lists,
and the pool's cancellations concern, only what was on chain; that what a call found is
something its lookup matched (`Matched`); and, for each contract whose hash is its own
(`OwnHash`), that nobody has touched it, be it by a cancellation that is still pooled,
before its call lets go of it, a network not before the VM is dealt with (`Keeps`). The
condition is on the one contract and not on the others: by `OwnHash` a lookup that finds it
is its own call's (`AlikeOwn`), so no other call ever asks for its cancellation. A late
cancellation of an earlier candidate is of another contract, which is why it may come at
any time. For a contract whose hash is shared what is left are the three theorems above:
that another call takes it away is what the code permits.

`DeployKeepsLease` is the refinement: every step of `Next` is a step of `Lease` or a
stutter under the mapping. It needs `LeaseInv`, the bookkeeping plus `Knows` (a call
that looks for a contract has none of that kind yet, and one whose lease runs or is
being ended knows its VM contract), and no assumption on hashes. What makes it hold with
late cancellations is that `Lease` lets the chain answer when it likes, but only what a
call asked that knew the contract and was letting go of it (`CancelAsks`).

**`RmbCallProofs`.** `CallsAreSeparate`, `OkIsFromTheNode` and
`SocketIsNeverMissing` follow from `Separation`: only the mutex holder is past
acquisition, the holder has a socket from connecting until it drops it, and a
reply in the stream or in a call's hands bears the uid of a request that was
handled. `MutexIsNeverLost` is about the lock itself: `MutexIsSound` says that the guard
is held exactly by the call inside, that a call waits exactly when it is in the queue,
and that it is there once. A dropped future is the hard case, since it leaves the
queue at any place or gives the guard back in any state.

**`WorkloadWaitProofs`.** Both theorems follow from `Decided`: the list examined
last settles exactly when the wait returned it. The node moves on after the poll, so
the result has to be tied to the list that was examined and not to the node.

**`GatewayProofs`.** `CancelIsComplete` is proved as above. `NamesAreNotShared` is the
subtle one, since a lookup by name may answer from the past. Its invariant `NameStory`
says: a call's own name contract is cancelled by nobody but itself, and the id a call
found is its own contract or one that is cancelled already. At the lookup the call's own
contract exists, so by TFChain's uniqueness any other match is cancelled; cancelling such
an id again changes nothing, so no call ever takes away another's name, and neither does a
late inclusion, since a pooled cancellation counts as touching the contract (`Touched`).
Two returned gateways with one id would then have two existing contracts with one name.
`NamesGoLast` adds one fact (`NamesLast`): when a call's name contract is cancelled, or
its cancellation pooled, its node contract is gone. It has to be said of all calls at
once, because the id a call returns may be another's contract. `GatewayKeepsLease` is the
refinement, with the same argument as for `DeployVm`.

**`DeployerProofs`.** `TypeCorrect`, `IndexesAlwaysAgree`, `DeployedStaysLive` and
`CancelUndeploys` follow from `Books`, which holds wherever the counter starts: ids at or
above the counter have left no mark; a call's id is its own; at each point of `deploy` the
maps hold exactly what the call has entered so far (`Staged`); a deployment sits on its
contract's node; nothing of a call is taken away unless a cancel names its id (`Kept`);
and a deploy that a cancel saw returned puts nothing any more. The last part is why
`CancelUndeploys` needs the deploy to have returned: a cancel between creation and put
succeeds, and the deployment arrives after it.

**`StateLoaderProofs`.** One invariant, `LoaderInv`, gives all five theorems: nothing
is stored before the scan ends (`CallStoresNothing`); the answers kept are those of
indexed nodes that were asked, and what these still hold if no node moved
(`AnswersAreHeld`); the subnets looked up are those of the nodes the call is about
(`WantedIsRight`), which for a cluster are the nodes machines were found on, however
long ago; and the node whose endpoint was asked for is the public node of a network it
has (`EndpointIsAccess`). The order in which a hash map is walked does not occur
in the invariant: it speaks of sets of nodes only.

**`ClientProofs`** has seven groups.
`ClashesNeedOverlap`: a port that came up is in use on its node (`HostedIsShown`), so
a later choice avoids it, and a clash is possible only between two calls that were
both between choosing and coming up.
`OverdueIsCovered`: an invariant of the call stack. Each call on it is tight (`IsTight`:
what the calls it made have returned covers what their contracts owe and exceeds it by less
than a TFT per contract read), which the return of a call preserves (`ToldIsTight`); and a
call for a rent contract waits, for each rent contract on the node's list, either to read it
or for the call above it on the stack (`Waits`). The innermost call has nothing above it, so
with such a contract on the list no call for a rent contract ever gets to its total.
`PricesAreOrdered`: a chain of monotonicity lemmas from units to prices. The step that is
not plain arithmetic is `AfterMonotone`: the one who pays less may be in another
discount tier, since tiers compare the balance with the price.
`HashesSurvive`: what is in flight or on a node is `Signed` under every walk of its
environment. It rests on the challenge sorting the keys, as the code does.
`OutcomesAreOwn`: the workload list of a VM has a known shape (`VmShape`: the public IP
first, if any, then the volumes, then the machine), from which the workloads of a name can
be told in whatever order they are answered; `OwnInv` carries shape, address and the network
workload that was sent through the steps of a request.
`HashesTellApart`: `TextInv` keeps that everything registered on the chain has an
`Opening`, metadata whose second atom is the kind and whose name is closed by a comma.
Two equal hashes then have one kind, and names that end at the same comma are the same
name (`OpeningsTellApart`). The rest of the challenge is strung together without
marks and need not be looked at.
`MatchingRestores`: `WorkloadsInv` says that what is loaded is rebuilt from the node and
what is matched from that and the declaration; the rest is about the operators. A
rebuilt list holds exactly the declared items the node runs, public IPs included
(`ItemsAreReadBack`, `HeldIsDeclared`); the map of ranks gives a name its declared place
(`RanksOfNames`); so the sorted list and the expected one ascend by one key and have the
same members. That two such lists are one (`AscentsAgree`) is shown at the first place
where they would differ, which stands in for the induction over lists that the prover
does not have.
`BuildsAsDocumented`: `ConfigInv` says that each field is what the calls so far
amount to by the documented rules. A setter appends to the calls, so for each rule
the last call of a kind is followed across an `Append` (`LastAfterCall`).

Only model-checked is liveness (`EveryCallReturns`, `WaitEnds`), which is out of reach of
the prover.

## 6. Not modelled

- Ciphers, JSON and the bytes of envelopes; md5 is taken to be injective, signatures
  are the text they sign. In `DeployVm` and `Gateway` names and hashes are opaque;
  `Requests` looks inside.
- Wall-clock time; see the remark on deadlines above. `f64` rounding in the calculator.
- Other holders of the same twin: nobody else cancels the client's contracts.
  A contract that TFChain cancels for lack of funds is not modelled either.
- `create_rent_contract`: one extrinsic and no state in the client.
- `load_disk_from_grid` and the other loads of one workload, which change nothing; the
  `validate` methods of `workloads.rs`, which the crate does not call; setters of the
  request builders, which fill in one field each.
- The calculator's recursion below `MaxDepth` calls: there the stack overflows.
- `MockNodeClientGetter::insert_deployment` after sharing (it puts test data under a node's
  deployments), and fixtures that enter one contract or hash twice.
- Errors, crate root and examples: declarations.
