# A verification development for poddle

poddle runs coding agents in containers ("pods") that never hold a secret. A
pod is given *handles*: opaque tokens that only mean something to a broker,
`poddled`, which is the pod's one way out. The broker resolves the handle,
checks the pod's policy, puts the real credential into the request, scrubs
secrets from bodies and writes an audit record. This directory states what the
broker, and the command line and host processes around it, have to get right as
TLA+ modules, checks it with TLC on small instances, and proves the most
important parts with TLAPS for instances of any size.

Paths below are relative to `src/src/` (the Go module's `src/` tree).

## 1. Inventory

| Component | Code | State | Operations | Modules |
|---|---|---|---|---|
| Credential keeper | `internal/broker/keeper.go`, `handles.go`, `vault.go`, `oauthpersist.go` | vault, handle registry, per-credential refresh locks, forced-refresh stamps, needs-reauth set, mirror files | Store, IssueHandle, Revoke, Resolve, InjectAuth, ForceReinject, FlagReauth, SCRAMProof, ResolveDatastore, EnsureCA, SignLeaf | `KeeperOAuth`; `L4Session`, `CertAuthority` for the last four |
| Two-process custody RPC | `internal/broker/keeperrpc.go`, `keeperproc_linux.go`, `internal/privsep` | next id, pending waiters, closed error; the stream; the keeper's in-flight slots | call, readLoop, fail, Close, serveKeeper, the keeper's death | `KeeperRPC`, `KeeperCall` |
| Gateway | `internal/broker/gateway.go`, `redactor.go` | none between requests | ServeHTTP with its reactive OAuth retry and response scrub | `Egress`, `KeeperOAuth` |
| Forward proxy | `internal/broker/forward.go`, `leafsource.go` | leaf cache; per intercepted connection, its monitor mode | plain HTTP, CONNECT tunnel, intercepted CONNECT, dial guard | `Egress`, `CertAuthority` |
| Daemon control API | `internal/poddled/daemon.go`, `serve.go`, `client.go` | pod -> tokens, token -> pod, pod -> policy, last audit ack, event ring | POST handles / egress / policy / audit ack, DELETE pod, audit endpoints and stream, OAuth mirror, start and shutdown | `PodRegistry`, `AuditLog`, `Connections`, `DaemonServe` |
| Policy | `internal/policy/policy.go`, `cli/dashboard/command.go` | two directories of policy files, a default marker in each | Decide and host matching; Get, Put, Delete, Default, SetDefault, Layered | `PolicyRules`, `PolicyStore` |
| Audit log | `internal/audit/audit.go` | SQLite rows, next sequence number, head hash, subscribers | Open, Append, Subscribe, cancel, Close, Verify | `AuditLog`, `AppendLog` |
| Autoscaler | `internal/poddled/autoscale*.go` | per pod a streak and a cooldown; a file lock | EnsureHostAutoscaler, RunHostAutoscaler, tick, act | `Autoscaler` |
| Pod life cycle | `cli/up/*.go`, `cli/down`, `internal/podman` | containers, labels, volumes, lock networks | up, task, move, down as sequences of daemon and engine calls | `PodLifecycle` |
| OAuth flows and connections | `internal/oauth`, `internal/connector`, `cli/connect` | `oauth.json` for each connection | device flow, browser flow, add, reauth, rm, reconcileOAuth, seeding | `OAuthFlow`, `Connections` |
| L4 datastore terminators | `internal/l4` | one session per connection | Redis and PostgreSQL sessions, SCRAM, splice | `L4Session` |
| Interception CA | `internal/tlsca` | the CA's two files, the keeper's LRU of leaves | Load, generate, LeafFor | `CertAuthority` |
| Identity providers, harness adapters, templates, mount safety, other CLI | `internal/identity`, `internal/harness`, `internal/config`, `internal/secure`, `cli/...` | little or none | wiring, presentation, file parsing | not modelled |

**How they interact.** The CLI (`up`, `down`, ...) calls the daemon's control
API over a Unix socket and the container engine by subprocess. The daemon holds
the registry and calls the broker; the broker's front (gateway, forward proxy,
L4) runs one goroutine per request or connection and calls back into the daemon
for every policy question and every audit record, and into the keeper for every
secret. The keeper is an object in the same process or, with
`PODDLE_BROKER_PRIVSEP`, another process behind an RPC on a socket pair. The
keeper calls OAuth token endpoints and writes rotated refresh tokens to a mirror
directory, which the next `up` drains. `up` also makes sure that the host's
autoscaler runs, which calls `move` on pods under memory pressure. The dashboard
edits the policy files that `up` reads.

**Which behaviours are hard.**

* *Refresh.* Many requests meet one stale OAuth credential. A refresh token may
  be good for one use only; the answer may be lost; the pod may be taken down
  while the token request is under way; what a request read before it waited
  for the lock may be out of date when it gets it.
* *Copies.* A grant's newest refresh token may be in the vault, the mirror,
  `oauth.json` or another pod, and only one of them is good.
* *The RPC.* Responses, timeouts, a closing client and a dying keeper race on
  the same one-response channels; the stream and the keeper's slots are bounded.
* *The registry.* Each request asks it several times, in separate critical
  sections, while the control API changes it; POST handles and DELETE each work
  in two critical sections of different locks.
* *Sequences.* `up`, `task`, `move` and `down` are sequences any step of which
  may fail or be interrupted, on one pod name by several command lines at once.
* *Files without locks.* Policies, markers, the CA and the mirror are written in
  place or one after the other while others read them, and crashes tear them.
* *Restart.* Registry and vault are in memory only; mirror, audit log, policies
  and CA are not.
* *Shutdown.* The keeper's death, a signal and the end of `Serve` race.

**What makes each component correct.** Keeper: a refresh spends what the vault holds,
the vault never goes back to an older token, the mirror has what the vault has and a
lost grant is flagged (for connections with a write-back key), every request is answered
unless the token endpoint hangs. RPC: an operation runs at most once, a result is the
result of one's own call, every call returns, nobody blocks handing over. Registry: what
`down` took stays taken, and a forgotten handle gets revoked. Egress: no request goes to
the host it names that the policy of some moment would not have let out, and the audit
record tells what became of it. Audit log: its chain verifies across failures, crashes
and a second writer, and does not after an edit; a stream follows it. Policy: a verdict
depends on names and not on spelling; the default in effect is the one that is bound,
whole. Connections: a pod is seeded with its grant's newest token. L4: the streams are
joined without loss, after authentication on both sides. CA: what a pod trusts is what
the broker signs with. Life cycle: a pod with live tokens is governed by the policy it
is labelled with, is never left without one and sits behind its lock network, and `down`
by name leaves nothing of what is kept under the name. Autoscaler: there is one, it acts
when it is due and not before. Daemon: the keeper's death comes out in the exit status.

## 2. Modules

| Module | Models | Extends |
|---|---|---|
| `KeeperOAuth` | the keeper's OAuth side | |
| `MCKeeperOAuth` | its instances for TLC | `KeeperOAuth` |
| `KeeperOAuthProofs` | its theorems | `KeeperOAuth` |
| `KeeperCall` | what callers of the custody RPC may rely on (abstract) | |
| `KeeperRPC` | client, stream and keeper of the RPC; implements `KeeperCall` | |
| `KeeperRPCProofs` | its theorems, with the refinement | `KeeperRPC` |
| `PodRegistry` | the daemon's registry under the control API | |
| `MCPodRegistry` | its instance for the `down_race` run | `PodRegistry` |
| `PodRegistryProofs` | lemmas about every step of the registry | `PodRegistry` |
| `Egress` | gateway, forward proxy and L4 composed with the registry | `PodRegistry` |
| `EgressProofs` | the theorems about the composition | `Egress`, `PodRegistryProofs` |
| `AppendLog` | an append-only log (abstract) | |
| `AuditLog` | the audit store, its table and its streams; implements `AppendLog` | |
| `MCEgress` | the instance of both for TLC | `Egress`, `AuditLog` |
| `CertAuthority` | the interception CA and the leaf caches | |
| `BrokerProofs` | theorems about the log, and about the pair | `MCEgress`, `EgressProofs` |
| `L4Session` | one datastore connection | |
| `DaemonServe` | the broker process from start to end | |
| `PolicyRules` | Decide, with a reference definition | |
| `PolicyStore` | the policy files, their editors and readers | |
| `Connections` | the copies of one connection's grant | |
| `MCComponents` | six of the parts side by side | `CertAuthority`, `Connections`, `L4Session`, `PolicyRules`, `PolicyStore`, `DaemonServe` |
| `ComponentProofs` | the theorems about the six | `MCComponents` |
| `Autoscaler` | the host lock and the control loop | |
| `OAuthFlow` | a connect command's way to a token | |
| `MCLiveness` | what must happen in the end | `MCKeeperOAuth`, `Autoscaler`, `OAuthFlow` |
| `HostProofs` | theorems about the autoscaler and the flow, and about the three | `MCLiveness` |
| `PodLifecycle` | up, task, move and down | |
| `MCPodLifecycle` | its instances for TLC | `PodLifecycle` |
| `LifecycleProofs` | its theorems | `PodLifecycle` |

### KeeperOAuth

A request (a goroutine of the gateway's) goes through `idle`, `read` (InjectAuth
has resolved the handle), `wait` (for the credential's mutex), `refresh` (the
token request is under way), `answered`, `persist`, `sent` (the header mutation
is back with the gateway), and from there either `finished` or, after a 401, once
more through `wait` as a forced refresh. `lock[c]` is the mutex of `credLock`;
a step that holds it only across in-memory work is one action, and the token
request, ReplaceCred and the mirror write are separate ones, so that revocations
and expiries fall between them. Tokens are serial numbers (`at`, `rt`); a
fingerprint comparison is a comparison of serials. There is no clock: `fresh` is
the set of tokens whose expiry is more than `refreshSkew` away, `noExpiry` those
that came without `expires_in`, and time is the actions that shrink `fresh`,
expire handles and end the forced-refresh window. The authorization server is
external: `Mint` and `Honoured` are what the code assumes of it (one live
refresh token for each grant; presenting a consumed one kills the family).
`WriteBack` is the set of connections whose credentials carry a `WriteBackKey`:
those to MCP servers do (`applyMCPConnector`), an HTTP connector's do not
(`applyConnector`), and for these `persistRotation` and `flagReauth` return at
once, so nothing of them is mirrored and nothing is flagged.

### KeeperCall and KeeperRPC

`KeeperCall` has two variables: what each call's caller has seen, and how often
its operation ran. `KeeperRPC` has the client (`pending`, the one-response
channels `box`, `closedErr`), the reader goroutine with a response in hand
between its unlock and its send, the two directions of the stream with room for
`SocketRoom` frames, and the keeper with its read loop, `InflightLimit` slots
and workers. `GiveUp` is the caller's context ending; `KeeperDies`,
`ReaderFails` and `Close` end things from the other sides.

### PodRegistry and Egress

`PodRegistry` has the three maps of `Daemon`, the keeper's live handles, and
between them `posting` (issued by the keeper, not yet entered) and `revoking`
(taken out of the registry, not yet revoked). `given`, `doomed` and `lost` are
history. A policy is what it allows of the one destination in question.
`Allows`, `Monitored` and `Intercepts` are `Check`, `Monitored` and
`Intercepts`.

`Egress` adds requests on five paths: `gateway`, `plain`, `connect`, `inner` (a
request inside an intercepted connection) and `l4`. Each look-up is a step, so
the control API may act between any two. `AfterCheck` and `AfterEmit` are the
order of the pipeline on each path. Whether a body holds a secret, the dial
guard refuses, an upstream answers, reflects the secret or redirects, is a choice.
The client of an intercepted connection follows redirects by itself (`Redirect`),
to any host and without another look-up; `hop` says whether the request is still at
the host it asked for. After that the dial guard may refuse a host although the
first one has the request, and "deny" is what is recorded. Ten redirects are one as
far as the state goes; that a Go transport may by itself send an idempotent request
again on a connection that was reused is left out. `permitted` is an observer: the
methods the registry would have let the request use at any moment since it arrived.
`record` is what is handed to the audit log: `forward.go:264` and its like record a
failure as "allow" also when only monitor mode let the request out, on the plain
and CONNECT paths.

### AppendLog and AuditLog

A store (`Stores`, one per daemon process; two that share a state directory are
possible) opens the table, keeps a copy of the tail (`nextSeq`, `lastHash`) and
appends under its mutex `mu`. An insert that fails, or meets a row another store
has put there, leaves the copy as it was. A digest is the tuple of what it was
taken of. `subs` is `reg`; a channel is open or closed and holds `ChanCap`
events; a full one is skipped. `Close` takes two steps (the streams, then the
database) and a cancel may fall before, between or after them: a cancel that
closes a channel already closed panics with the mutex locked, which is `fault`
and `mu = "wedged"`. `EditRow`, `DropRow` and `SwapRows` are somebody with the
database file. `AppendLog` is the abstract log; the refinement maps the rows'
events to it and the tampering to `touched`.

### CertAuthority

Starting up, the broker loads the two files, or writes the certificate and then the key
of a new CA; it may crash in either write. A file is missing, torn, or belongs to the
n-th CA. Whether a file that is there can be read is a choice at each start: a
certificate that cannot be is an error, with which the broker comes up without a CA
(`tlsca.go:76`); a key that cannot be is taken for an absent one, and a new CA is
written over the old (`tlsca.go:73`, `:79`). A crash between the two writes may leave a
certificate beside another CA's key, which load together (`Mismatch`) and can sign
nothing. `sound` keeps the pods made while the broker could sign, until a start replaces
a CA whose key it could not read. `up` mounts the certificate (`InjectEgressCA`) and the
pod's setup copies it into its trust store later (`TrustCopy`). A handshake hits or
misses the front's cache, asks the keeper, whose LRU of `LeafCap` leaves re-mints what
is about to expire, and caches the answer. A leaf is the time it has left; `Age` is a
unit of it.

### L4Session

`pre` is how many messages of the pod's come before the session (SSL request,
startup, password; Redis has one AUTH). A read buffers whatever has arrived, so
`podBuf` may be ahead of `podRead` when the streams are joined. The server's
SCRAM nonce is checked (`ServerFirst`); its final message is read for what kind of
message it is (`ServerFinal`), and its signature is never verified
(`l4/postgres.go:206`-`218`). `proof` records whether a proof was made for an
exchange that is not ours.

### PolicyRules and PolicyStore

A host is a sequence of labels from the root down and a spelling; a pattern may
stand for subdomains. `Verdicts` is `Decide`: a set, because which of two suffix
rules a map yields first is not determined. `DecideByName` states the same from
the names alone, over every policy with at most one allowed and one denied
pattern and two method rules.

`PolicyStore` has two directories of files. `os.WriteFile` is two steps (cut off,
write), Delete three (look at the marker, clear it, remove the file), an up's
read one step per file. `EffectiveDefault` and `EffectiveFile` are what the
documentation says is in effect.

### Connections and OAuthFlow

`Connections` is one connection's copies: `disk` (oauth.json), `mirror`, what the pods
hold, the token a refresh has minted and the vault has yet to store (`answer`), and the
rotated token a keeper has still to mirror (`unsaved`). Tokens are numbered by their
minting and belong to a grant; only its newest can be refreshed. An up drains the
mirror, reconciles by stamp, writes back, and seeds. A rotation is three steps, each of
which may be the last: the provider mints (`Rotate`), the vault stores (`ReplaceCred`),
or the answer is lost (`AnswerLost`) or finds its handle revoked and is dropped
(`PodDown`), and the mirror is written (`PersistRotation`, `PersistFails`). A pod of an
HTTP connector has no write-back key (`keyed`), so its rotations are not mirrored.
`doubtful` keeps the grants for which any of this, a pod sharing the grant or an unread
mirror leave the newest token where no up looks.

`OAuthFlow` is a connect command: discovery, registration, then the poll loop
(its timer, its interval, the code's deadline and the context) or the browser's
one-shot listener and the code exchange, all under `oauthFlowTimeout`. Time is in
units of the five seconds a `slow_down` adds.

### Autoscaler

`lockFile` is the flock: free, held by an up that probes it, or by the
autoscaler. An up that finds it taken takes its holder for an autoscaler; one
that gets it releases it and spawns. The loop reads, then works through what it
read (`todo`) while users change pods; `streak` and `quiet` are its state.
`lastAct` is history.

### PodLifecycle

A command line (`up`, `task`, `move`, `down`) is a program counter `at` and what it
carries: the login, the connector, the named policy, then the tokens, label and
network of the pod it is about to create. Each call of the control API and of the
engine is a step, and `GiveUp` ends a command anywhere. A task that keeps its
pod makes it as an up does. `down` takes a pod's name or its container's id; by id
(`DownById`) only the container goes, since the broker, the volumes' labels and the
networks know the name. Session volumes count as one, and `vols` has those that
carry the pod's label: one whose labelled creation fails is made without it by the
engine and belongs to nobody (`podman.go:92`-`104`). `BrokerCrash` empties the
registry. `crossed` says
whether another command began on the same pod, or the broker fell, since a
command began; `made` (under a policy) and `downed` (by name) are the pods the last
command made or took down uncrossed, and are what the properties speak of. A
container's `alone` says that an uncrossed command made it under a policy, and
unlike `made` it stays true whatever commands come after.
A call of the control API is one step; that a DELETE empties the registry before the
keeper revokes is in `PodRegistry`.

### DaemonServe

`Serve`'s steps, `superviseKeeper` and the shutdown goroutine. `Serve` returns once
its listener closes; what the other two have left to do by then may never be
done.

**Composition.** `Egress` composes the registry with the requests, whose states
multiply. Parts that share no state are instead put side by side with a variable
`part` that says whose behaviour this is: `MCEgress` (requests and log),
`MCComponents` (six parts) and `MCLiveness` (keeper, autoscaler, flow). Their
states add up, and no property reads two of them, so nothing is lost by it; a
component's fair actions are disabled where it is not the part that runs. That a
behaviour of the composition is one of each component is proved for all three
(`BothKept`, `EachPartKept`, `EachCarriesOn`), so a theorem about a component's own
specification says something about what the runs check.

## 3. Runs

| Run | Result | Checks |
|---|---|---|
| `keeper_oauth` | pass | `TypeOK`, `RefreshSpendsLiveCredential`, `LostGrantIsFlagged`, `MirrorFollowsVault`, `VaultMovesForward` |
| `keeper_rpc` | pass | `RPCTypeOK`, `HandOverNeverBlocks`, `NoWaiterForgotten`, `NoWaiterLeaked`, `CallsReturn`, `ImplementsKeeperCall` |
| `egress` | pass | `MCTypeOK`, `EgressWasPermitted`, `RecordTellsFate`, `ForgottenIsRevoked`; `ChainIntact`, `VerifyCatches`, `StreamFollowsLog`, `PanicsOnlyAfterClose`, `ImplementsAppendLog` |
| `components` | pass | `TypeOK`, `PodTrustsBroker`, `SeedIsCurrent`, `SpliceKeepsStream`, `SessionAuthenticated`, `DecideByName`, `DefaultGoverns`, `NoDanglingDefault`, `DeathIsReported` |
| `pod_lifecycle` | pass | `TypeOK`, `LivePodIsGoverned`, `NeverUngoverned`, `TokensAreBehindTheLock`, `DownLeavesNothing` |
| `liveness` | pass | `KeeperAnswers`, `GrowsUnderPressure`, `FlowEnds`; `AutoscalerRuns`, `ActsOnlyWhenDue`, `FlowHonest` |
| `keeper_replay` | violation | `NoRefreshTokenReplay` |
| `keeper_rotation_lost` | violation | `RotationSurvives` |
| `keeper_wedged` | violation | `TimeoutBoundsCall` |
| `down_race` | violation | `DownRevokesAll` |
| `move_drops_policy` | violation | `MovePreservesGovernance` |
| `expired_leaf` | violation | `NoExpiredLeaf` |

Run one with, for instance, `tlc -workers 2 -config Egress.cfg MCEgress`. The type
invariants named `TypeOK` are different ones that share a name; `RPCTypeOK` also
bounds what the keeper has in flight (`keeperrpc.go:530`).

**Bounds, and why they are enough.**

* `KeeperOAuth.cfg` (1.3 million states): two requests, two credentials on one
  connection with a write-back key, two minted tokens, all faults. Two requests are what
  a race for one lock takes (a holder and a waiter that has read before it); two
  credentials are what it takes for pods to consume each other's refresh token; two
  tokens let a rotation follow a rotation. Requests are symmetric, and the run has no
  liveness property.
* `KeeperRPC.cfg` (60,000 states): two callers, three calls, one frame of room
  and one slot: each bound is met, and a caller calls again after a timeout while
  its earlier answer is still on its way.
* `Egress.cfg` (880,000 states). Requests: one pod with one handle and one egress
  token, one request at a time, and two policies: one that enforces read-only
  access through interception, one in monitor mode that allows nothing. Requests
  do not write anything another one reads, so a second one adds no behaviour to
  the first; the registry does change under it in every way. Log: two stores,
  three appends of two kinds of event, one write by somebody else, one streaming
  handler with room for one event: an append meets a row of the other store's, a
  stream is too slow, and the log goes on after it has been tampered with. Stores
  are symmetric.
* `Components.cfg` (850,000 states). CA: three CAs, so that one is replaced twice,
  two hosts and room for one leaf, two connections. Connections: two pods, three
  tokens, three stamps. L4: two messages each way on top of those before the
  session. Rules: three names (a domain, two below it), two spellings, two methods.
  Store: two policies, two editors, one up, a project that has none, a good or a
  bad policy. `DaemonServe` has no parameters.
* `PodLifecycle.cfg` (3.8 million states, the longest run): two command lines on
  one pod name, one policy a user can name, two tokens, connectors of datastores
  only: those of HTTP services are to the policy what a login is, which the run
  has. Two commands are what crossing takes; two tokens are a handle and an egress
  token, and once they are used up an up goes on without, as it does when a
  call fails. Command lines are symmetric.
* `Liveness.cfg` (88,000 states). Three requests for one credential, so that two
  queue behind a holder; two ups, one pod, two readings in a row and two ticks of
  quiet; a timeout of eight units, servers that ask for nothing or for two units,
  codes that live for three units or do not say. No symmetry.
* `DownRace.cfg`, `MovePolicy.cfg` and `ExpiredLeaf.cfg` are as small as what they
  show allows.

`CHECK_DEADLOCK FALSE` is set where the bounded system really does stop (all
tokens minted, all calls made, the daemon gone); `pod_lifecycle` checks deadlock.

**Fairness.** `KeeperFairness` assumes weak fairness of each request's own steps in the
keeper: goroutines are scheduled. It assumes nothing of the token endpoint, and not that
a token request ends: in the in-process keeper it has no deadline, only the context of
the pod's request (`keeper.go:335`, `gateway.go:213`), and it is the two-process one
that bounds it (`keeperOpTimeout`, `keeperrpc.go:582`). So `KeeperAnswers` says that a
request comes back to its caller unless a token request for the same credential hangs
for ever (`EndpointSilent`), in which case, in process, it and those behind it do wait.
No fairness is assumed of pods, upstreams or time. A waiter at the `sync.Mutex` gets it
under weak fairness since a request of the model is served once and passes the lock at
most twice; with an endless stream of new requests it is Go's starvation mode that keeps
a waiter from being overtaken for ever. `KeeperRPC`'s `FairSpec` assumes weak fairness
of the callers, the reader, the keeper's loop and its workers, and not of timeouts, so
`CallsReturn` does not lean on them; `WedgedKeeperSpec` assumes the front's fairness and
that timeouts fire, and nothing of the keeper. `AutoFairness` assumes that the
autoscaler's process is scheduled, that the ticker ticks, and (strongly) that a move
which is tried over and over works once; nothing of ups and users. `FlowFairness`
assumes that time passes and that a context that has ended is noticed, and nothing of
the user, the server or the browser.

**Mutants.** Each property of a passing run has a mutated definition beside the
one it mutates (`LockStaleNoReread`, `AllowsUnknown`, ...), a bug one could
plausibly write there; put in its place, it makes TLC find the property violated.

## 4. What the violations show

* `keeper_replay`. `refreshIfStale` reuses a peer's token only when its expiry is
  known. If the token endpoint sends no `expires_in`, the next waiter spends the
  refresh token its peer has just consumed, although the comments promise one
  token request for N racing requests (`keeper.go:297`, `:545`). A provider that
  detects reuse revokes the family.
* `keeper_rotation_lost`. `rotate` returns before `persistRotation` when the
  handle was revoked meanwhile (`keeper.go:629`), so a pod taken down during a
  refresh leaves a consumed refresh token in the mirror, unflagged.
* `keeper_wedged`. A call writes its frame before it looks at its context
  (`keeperrpc.go:274`), so a full stream holds it whatever its timeout, against
  `keeperrpc.go:33`.
* `down_race`. A handle issued by the keeper before a DELETE of its pod and
  entered into the registry after it is not revoked, and its pod then has no
  policy (`daemon.go:416`-`441`), against `daemon.go:370`.
* `move_drops_policy`. `move` reads the pod's labels back and passes everything but
  the policy on to `buildSpec` (`cli/up/move.go:41`-`51`), so a pod made with
  `--policy` is recreated under the template's policy, the configured default or a
  derived one, against `move.go:38`. The autoscaler's move is one of these.
* `expired_leaf`. The front keeps a leaf for good (`leafsource.go:39`) while the
  keeper would renew it (`tlsca/leafcache.go:16`): a broker that is up for longer
  than a leaf's life shows an expired one to intercepting pods.

Other places where code and text part, met while modelling, without a run (`docs/` is
the repository's):

* `cli/up/command.go:195` says of `--exec` "then tear down"; the code returns
  without (`:181`).
* `internal/policy/policy.go:351` says that a user's default is not shadowed by a
  project's; `Default` reads the project's marker first, and the model has it so.
* `internal/poddled/serve.go:145` says that shutdown must run to completion; `Serve`
  returns as soon as the listener is closed, which is the shutdown's first step.
* `internal/broker/forward.go:316`: the client of an intercepted connection follows
  redirects to any host, and the policy is asked about the host of the CONNECT only;
  `docs/architecture.md:226` says that the broker enforces a pod's policy "on every
  brokered request". In the model `Redirect` asks nobody, and `EgressWasPermitted`
  speaks of the host asked for.
* `internal/broker/forward.go:264` records the failure of a request that only monitor
  mode let out as "allow"; `:171` says that such a request is recorded as "monitor".
  `RecordTellsFate` says where this may happen, and where not.
* `internal/tlsca/tlsca.go:79`: a key that is there and cannot be read makes `Load`
  write a new CA over the old one; `:71` says that one is generated "if it is absent".
  `PodTrustsBroker` exempts the pods made before such a start.
* `cli/down/command.go:27`: by a container's id, `down` removes the container and
  leaves handles, policy, volumes and lock network;
  `docs/security-design.md:53` says that "`poddle down` revokes a pod's handles".
  `DownLeavesNothing` is about a down by name.
* `internal/podman/podman.go:102`: a session volume whose labelled creation fails
  unnoticed is made without the label by `podman run`, and no down finds it;
  `docs/design/stateless-pods-and-move.md:39` says that the pod's volumes go with it.
  `DownLeavesNothing` is about volumes that carry the label.
* `cli/up/command.go:548`, `:563`: an up for a name in use, and a move whose revoke was
  lost, bind their policy before they fail, and the running pod is then under another
  policy than its label names (`internal/sandbox/sandbox.go:103` calls the label "the
  governance policy bound to the pod"). `LivePodIsGoverned` is about pods no command has
  been at since they were made; `NeverUngoverned` follows them through every later
  command, and says that another policy may take the place of theirs, and that live
  tokens without any policy are never what is left.
* A credential without a write-back key, as the pods of HTTP connectors have
  (`cli/up/command.go:728`-`733`), is neither mirrored nor flagged (`keeper.go:642`,
  `:663`), so its rotation and its loss are silent. `MirrorFollowsVault` and
  `LostGrantIsFlagged` are about connections with a key, and `SeedIsCurrent` exempts
  the grant. What else it exempts: grants that pods share, whose refresh lost its
  answer or was overtaken by the handle's revocation, or whose mirror copy failed or
  came after it was read.

## 5. What is proved

For every value of the constants that satisfies the assumptions stated in the
modules (they say that the sets are typed, that `Nil` and its like are none of the
values they stand beside, and that bounds such as `Sustain` or `LeafCap` are
positive; `RegistryAssumption` also that method rules never refuse a CONNECT,
which is `Decide`'s last test; `RulesAssumption` that a name is a sequence of
labels). Every invariant that a passing run checks is a theorem, as are the action
properties and both refinements.

* `KeeperOAuthProofs`. `IInv` = `TypeOK` and `LockInv` (who is past the lock holds
  it) and `OrderInv` (serials only grow along provider, answer, vault, what a
  request read, what it injected) and `RefreshSpendsLiveCredential`. The order is
  needed because "what I read is what the vault holds" survives a peer's refresh
  only if a reader's token, once superseded, can never become the vault's again.
  From it: `TypeCorrect`, `RefreshIsCurrent`, `VaultOnlyAdvances`. With `GrantInv`
  (what the vault *will* hold once the refresh under way is stored) also
  `LostGrantNoticed`, and with `MirrorInv` `MirrorIsCurrent`, both for any set of
  connections with a write-back key and about these.
* `KeeperRPCProofs`. `IInv` = `TypeOK` and `ClientInv` (ids are issued once, callers
  have different ones, an id has at most one of: a registration, a response in
  hand, a response in its channel) and `FlowInv` (a request is in at most one
  place between a caller and the keeper, and a response's operation has run). From
  it: `TypeCorrect`, `HandOver`, `WaitersReached`, `WaitersForgotten`, and
  `KeepsPromise`, the refinement of `KeeperCall`.
* `PodRegistryProofs` shows `RegInv` = `RegShape` and `RegistryAgrees` and
  `ForgottenIsRevoked` inductive as it stands. `EgressProofs` adds, for each request,
  which path may be at which place (`PathInv`), that what it was let through for is
  among `permitted` (`PermitInv`), and how decision, fate and record go together
  (`RecordInv`). From it: `TypeCorrect`, `RevokedWhenForgotten`, `StaysForgotten`,
  `PermittedEgress`, `TruthfulRecord`.
* `BrokerProofs` is about the audit log. `AuditInv` = the types, what the table may
  hold, and for every subscriber how its registration, its channel and the store's
  closing go together (registered means an open channel; a closed one means the store
  is closing or the subscriber closed it). It gives `AuditPanics`: the second close is
  reached only by a cancel after `Close`. `ChainInv` (an untampered table is 1 to
  `TailSeq` without a break, and every process's copy is at or behind its tail, and
  equal to it when at it) gives `ChainHolds` and `LogIsAppendOnly`, the refinement of
  `AppendLog`: it needs the copies, since an append is computed from one. `ForgeInv`
  (what was ever written, and that a chain with no break holds only that) gives
  `TamperingShows`. `StreamInv` (what lies in a stream's queue is increasing, between
  what was seen and the tail, and without a gap unless the stream is flagged as having
  missed one) gives `StreamsFollow`. `AuditRows` adds what rows, copies of the tail
  and queues hold, for `AuditTypesHold`. `BothKept` takes a behaviour of `MCEgress`
  apart into one of `Egress` and one of `AuditLog`, and with it `PairTypes`.
* `ComponentProofs` has the six parts of `MCComponents`.
  * Datastore sessions. `L4Inv` says which of the front, the keeper and the upstream
    may be at which step of a session, and what has been forwarded by then, and gives
    `L4StreamsKept` and `L4Authenticated`.
  * The daemon. `ServeInv` (an error that was reported reached the daemon's notice; a
    context is cancelled only by a signal or a notice; a listener is closed only after
    its context) gives `DeathComesOut`.
  * The rules. `PolicyDecidesByName` is about any policy, with as many rules of each
    kind as one likes and over any names: a suffix of the spelled host, cut off at a
    dot, is a name the host lies below (`SuffixIsBelow`), so a rule matches the host
    if it covers the name (`MatchIsCover`), and ranking exact, suffix and catch-all
    rules picks what the reference definition picks. `RulesDecideByName` is its
    instance for the policies TLC enumerates.
  * The policy files. `MarkerInv` gives `MarkerNamesAPolicy`, and `LookInv` (what a
    resolution has seen so far of the two stores) gives `DefaultIsBound`.
  * The CA. `CAInv` relates the file on disk, what a process has loaded and what a pod
    was made with, and gives `PodTrust`; `LeavesOK` with `PutBounded` (the leaf cache
    is a list that a hit reorders and that drops its last) gives `CATypes`.
  * The connections. `SeedIsCurrent` speaks of what pods hold and is not inductive: a
    pod gets its token from the host's copy or the mirror, after reading both at
    different moments. `CopiesTrusted` therefore says of every copy whether it may be
    relied on: pods' copies, unless an answer is under way to the pod, and ups' copies
    always; the host's, unless the mirror's is newer or a rotation is about to be
    stored or mirrored; the mirror's, unless that is so; and a resolution that has
    drained the mirror read a good copy or a newer one. Trusted means the newest token
    of its grant, or of a `doubtful` one. `AnswersDue` says that an answer under
    way succeeds the token its pod holds.
    `FlowOwns` (nobody else has the grant a connect command has just got) is what
    makes saving it safe, and `MintedOnly` keeps tokens and stamps behind their
    counters. From `ConnInv`, their conjunction with the types: `SeedsCurrent`.
  * The six together. `EachPartKept` takes a behaviour of the composition apart into
    one of each, and with each part's type theorem gives `PartTypes`.
* `HostProofs`. `LockInv` (a pod that owes an autoscaler has one that holds the lock
  or is starting, or an `up` that is between its probe and its spawn) gives
  `AutoscalerIsThere`. `PaceInv` (the history of samples is never behind the streak
  and the quiet time the code keeps) gives `AutoscalerPaced`. `FlowInv` (the time a
  poll still sleeps makes up for what the last interval lacks) gives `FlowIsHonest`.
  `EachCarriesOn` takes a fair behaviour of `MCLiveness` apart into one each of
  keeper, autoscaler and flow. `AutoTypes` and `FlowTypes` are their types.
* `LifecycleProofs`. What the properties say of a pod is what some command left there,
  and a command relies, many calls later, on what it did itself. That is known as long
  as it is uncrossed: no other command was at its pod and the broker did not crash
  meanwhile. `CrossInv` says that two commands at one pod are both crossed;
  `WorkStands` that the work of an uncrossed one (the policy bound under its label,
  the container and volumes removed, the registry emptied) is as it left it;
  `HistoryInv` that no command is at a pod that counts as down, and none but the task
  that made it at one that counts as made; `PlaceOK` and `CarryOK` which command comes
  to which place, with what. `ActIsLocal` shows once that a command's step touches its
  own pod only, so that each of its actions is looked at for that pod alone
  (`ActOnOwnPod`). `EnvInv` says that what a pod or a
  command has are tokens issued so far: the next one is new to every pod, so no step
  makes a pod live again, and `NeverUngoverned` needs only that a policy is taken
  away together with the tokens. From the conjunction: `LivePodsGoverned`,
  `NeverWithoutPolicy`, `TokensLocked`, `DownIsClean` and `TypeCorrect`.

What stays model-checked only:

* liveness (`KeeperAnswers`, `CallsReturn`, `GrowsUnderPressure`, `FlowEnds`) and the
  absence of deadlock: fairness and ENABLED are beyond this prover;
* that the statements of section 4 are violated: a counterexample of TLC's is the
  evidence.

No module declares a RECURSIVE operator. Lemmas about data that need induction are
avoided: sequences and sets are reasoned about through what one step adds or takes.

## 6. Not modelled

* Bytes: the framing and encoding of the keeper's RPC, header rewriting, the rewriting
  of a loopback host, the patterns of the redactor. What a scrub looks for is resolved
  again after the call, so it is the token of a later rotation that is removed; this
  hazard is listed without a property, since the model has no response bodies.
  Likewise a response too large for a frame.
* The daemon's event ring (`POST` and `GET /events`), the filters, tail and export of
  the audit log, and everything that only reads: `ls`, `logs`, `stats`, `audit`.
* `attach`, `exec`, `cp` and `resize`: calls to podman on a pod that exists, which change
  no state of the broker or the host's stores.
* An intercepted connection's mode. `EgressWasPermitted` counts from the moment a
  connection was opened, as the code decides then; a request that a client aborts
  leaves no record, in the code and in the model.
* Identity providers and harness adapters: tables of file names, environment variables
  and endpoints, without state of their own. What they do to state (the mirror, the
  write-back key, the seed) is in `KeeperOAuth`, `Connections` and `PodLifecycle`.
* Templates and mount safety: pure checks of paths and of declarations against the file
  system; a model would be the string functions again.
* The dashboard and the remaining commands: presentation over the operations above.
* Podman itself, the kernel, the providers' servers, SQLite and the system's clock are
  external: modelled from how the code uses them, and marked `external` in the map.

## 7. What is left

In the order of what it would add:

1. `PodLifecycle` over `PodRegistry`'s actions instead of the effect of its calls, so
   that `down_race` and `move_drops_policy` are seen in one state space;
2. `Connections` composed with `KeeperOAuth`: a reauth on the host while a keeper holds
   the grant, with the two clocks that decide which of them is adopted;
3. the event ring and a follower that falls behind it;
4. the mode an intercepted connection keeps, and a policy that changes under it.
