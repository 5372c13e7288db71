# User management API: specification

TLA+ models, model checks and machine-checked proofs for the Go service in
`src/`: accounts, login, rotating refresh tokens with reuse detection, a keyset
listing, and a process that has to shut down without losing requests. Every
definition is translated from the code; paths below are relative to `src/`.

Contents

1. The system: components, state, interactions, what is hard
2. The modules and the code they stand for
3. The runs: what each asks and shows, and why the bounds are enough
4. Fairness
5. The proofs
6. Where the code and its documentation disagree
7. What is abstracted, what is not modelled
8. Plan

## 1. The system

The service is hexagonal. Two inbound adapters (REST in
`internal/adapter/inbound/http`, gRPC in `internal/adapter/inbound/grpc`) and a
background worker call two application services (`internal/app`), which call
repositories over MongoDB (`internal/adapter/outbound/mongo`). Any number of
replicas run over one database; nothing is shared in memory between requests
except readiness, metrics and the actor slot of a single request.

| Component | State it keeps | Operations | Correct when |
|---|---|---|---|
| `AuthService` (`app/auth_service.go`) | none in memory; rows of `refresh_tokens` | `Login`, `Refresh` (find, compare-and-swap, issue, wipe on reuse) | a chain of rotations has one working token; nobody rotates a token twice; a reuse ends every session; a dead token stays dead |
| `UserService` (`app/user_service.go`) | rows of `users` | `Create`, `Update`, `Delete`, `Get`, `List`, `Count` | emails are unique; no update undoes another; a deleted account does not come back and leaves no working session |
| MongoDB repositories (`mongo/user_repo.go`, `refresh_repo.go`, `client.go`) | two collections, a unique index, a TTL index | single-document commands, one `UpdateMany`, one paged `Find` | filters carry the condition they claim to check |
| Listing (`app.ListFilter`, `UserRepo.List`) | the client's cursor | one page | no row twice, none missed |
| Process (`cmd/api`) | readiness, listeners, the errgroup | boot, serve, drain, exit | no request is refused or cut that need not be; the process ends |
| Worker (`inbound/worker/user_counter.go`) | a gauge | count every interval | stops when told; publishes fresh values |
| HTTP and gRPC adapters, `apierr`, `actor`, `bearer` | per-request context | authenticate, translate, log, recover, bound the time | the same verdict on both transports, one log line per request |
| Domain (`internal/domain/user`) | value objects | validate and normalize | one rule for both transports |
| Access tokens (`outbound/token`), bcrypt (`outbound/security`), clock | none | issue and verify, hash and compare, read the time | a token is never accepted past its time plus leeway |
| Platform (`config`, `logger`, `id`, `netaddr`) | none after boot | parse, encode | - |

How they interact. A request is a goroutine that makes a handful of blocking
repository calls in a fixed order. Every call is bounded (`opTimeout`) and none is
in a transaction with the next one, so between two calls of a request every other
request, on any replica, may run to completion. The correctness of the service
therefore rests on *single* commands: the unique index on `email`, the `$set` of
only the fields that were sent, the `revoked_at` condition in the filter of
`Revoke`, and the order in which calls are made (row before tokens, claim before
issue).

What is hard here, and hard to test: the interleavings between those calls; an
`UpdateMany` that is not atomic and meets documents inserted while it runs; a
command that takes effect although its caller was told it failed; the TTL monitor
removing documents in between; a `now` that is read three calls before it is used;
a listing whose pages are separate queries over changing data; and the order of
readiness, listeners, drain, `Stop` and exit. `PROJECT.json` lists each such
place with its line and the property that covers it.

## 2. The modules and the code they stand for

```
        Storage              Lifecycle      Paging         Transport --implements--> CallContract
       /       \                 |             |               |
AuthService  UserService      Process    PagingProofs  TransportProofs      Rules  Ulid
       \       /                 |                                           \    /
     UserManagement         ProcessProofs                                  Dialogue
      |    |    |   \ --implements--> SessionLineage                           |
      |    |    |    \                                                  DialogueProofs
      |    |    |     AccessTokens, ReuseHistory, SessionHistory
      |    |    |                 \             /
      |    |    |                SessionProofs
      |    |    |                      |
      |    |    UserManagementProofs <- AccountProofs, RotationProofs
```

**Storage** - both collections and the application's clock. `users` and `tokens`
map every id and every token value to its document; a value once used is never
allocated again ("unborn" before, "deleted"/"purged" after). Repository calls are
operators whose guard is the filter of the command: `RevokeToken` is the
compare-and-swap of `RefreshTokenRepo.Revoke`, `EmailFree` the unique index,
`PatchUser` the `$set` built from the fields of a patch, `PurgeExpired` the TTL
monitor. `UpdateMany` is three operators: the set it must reach, one document, its
end; it may also reach a document stored while it runs.

**AuthService** - a request is a member of `AuthProc`, and `req[p].pc` names its
next repository call.

| pc | code | action |
|---|---|---|
| lookup | `NewEmail`, `FindByEmail` | `LoginFind` |
| compare | `hasher.Compare`, then `clock.Now` | `LoginCompare` |
| find | `findLiveRefreshToken` | `RefreshFind` |
| user | `repo.FindByID` | `RefreshUser` |
| claim | `rotate`: `refresh.Revoke` | `Claim` |
| reuse, wipe | `revokeAllOnReuse`: `RevokeAllForUser` | `WipeBegin`, `WipeNext`, `WipeEnd` |
| store | `issueSession`: `refresh.Store` | `Store` |
| any | a call fails, or the caller goes away | `Fail` |

`Refresh` reads the clock once, at its start (`RefreshBegin`), and `req[p].now`
carries that instant to the expiry check and to the expiry of the new token. A
command that succeeds on the server but is reported as failed is the command's
step followed by `Fail`. The answer of `Store` may be lost: `held` is what clients
have really been given, and only held tokens are ever presented.

**UserService** - the three operations that write, in the same style: `Create` is one
insert with no check before it, `Update` reads and then patches, `Delete` removes
the row and then revokes. **UserManagement** composes the two services with the clock
and the TTL monitor, adds who may call what (`Authenticated`: a client that was
given an access token, whether or not the account still exists), the properties,
and the refinement.

**SessionLineage** - the abstract specification: chains of tokens that are none, live
or spent, with steps *open*, *retire* and *renew*. No requests, no database, no
clock. `UserManagement!ImplementsLineage` maps a document that is stored and not
revoked to "live" and any other used value to "spent"; `root` and `parent` are
history variables that no guard reads.

**ReuseHistory**, **SessionHistory** - `UserManagement` with history variables
that follow its steps and restrict none: what a reuse found live, which tokens
were revoked by rotation, which accounts are closed, which refreshes began too
late, which tokens were stored after their row was gone.

**AccessTokens** - `UserManagement` in which a request on one's own account begins only
with an access token that `JWTService.Verify` accepts. `Issue` signs with the clock
of some replica, a step of its own before the insert (`signed`), and the token comes with
the answer (`IssueRecord`); `Verify` compares with the clock of some other, each up to
`MaxSkew` ahead of the slowest; `NumericDate` cuts to the second, and a second is
`Second` units of the clock. `last` is when an account's row, or a request that had
found it, was last there.

**Lifecycle** - one replica from the moment it serves: the errgroup's four goroutines
(HTTP server, gRPC server, worker, gatekeeper), the fifth that runs
`GracefulStop`, the drain timer, the requests, and a load balancer that probes
readiness. `gate` is the place in `gracefulShutdown`; one action per statement
that another goroutine can observe.

**Process** - the same process from `main` to its end. `step` is the place in `run`; each
statement that may fail is an action with its ways out, `Serving` is a step of
`Lifecycle`, and `closing` is the deferred `closeStore`, the `closeFn` of a failed
`openStorage`, or the `Disconnect` inside `Connect`.

| Code | Action |
|---|---|
| `config.MustLoad`, `validate` | `MustLoad` |
| `signal.NotifyContext`, `context.WithTimeout(bootTimeout)` | `NotifyContext`, `SignalAtBoot`, `BootTimeout`; `BootCtxDone` |
| `mongo.Connect`, `Ready` | `Connect`, `Ping` |
| both `EnsureIndexes` | `EnsureUsers`, `EnsureRefresh`; `OtherReplica` does the same elsewhere |
| `buildCore`, `NewServer` with `mustBeComplete` | `BuildCore`, `BuildServers` |
| both `Listen` | `ListenHttp`, `ListenGrpc` |
| `serve`, its return, what `run` has deferred | `Serving`, `ServeReturned`, `Disconnect` |

`bad` is the set of settings that are unusable: four that `validate` looks at, and
`SERVER_RPC_TIMEOUT`, which only `mustBeComplete` refuses. An index may have been
built although the call failed, and cannot be while the data contradicts it.

**Paging** - a client that walks the listing with pages of varying size. The `Find` of
a page looks at one row per step, and any row may be inserted, edited or deleted
between two looks. Ids are ranks of ObjectIDs: a new row may have an id below
existing ones, as replicas allocate independently.

**Transport** - one call through the two inbound adapters. `asked` is the request
(one of the eight methods, the user of its token or what is wrong with it, a body or a
limit that decodes or the error that refuses it) and `outcome` what the use case makes of it; both adapters are
given the same, so that one state holds both answers. `call[x].layer` is the
place in the chain (`RestChain` is the order of `NewRouter`, `GrpcChain` that of
`NewServer`), `call[x].way` whether the call goes in, runs, comes out, or unwinds
as a panic.

| Code | Action or operator |
|---|---|
| `Authenticate`, `authUnary`, `isPublicMethod`, `bearer.Token`, `Verify` | `Authenticate`, `AuthUnary`, `IsPublicMethod`, `HasToken`, `Verifies` |
| `actor.Reserve`, `Set`, `ID` | `Set`: `actor` is the context further in, `slot` the logging layer's |
| `decode`, the handlers and methods | `RestHandler`, `RestReturns`, `GrpcMethod`, `GrpcReturns` |
| `apierr.Classify`, `statusOf`, `codeOf`, `toStatus`, `respond.Error` | `Classify`, `StatusOf`, `CodeOf`, `ToStatus`, `RespondError` |
| `errorsUnary` | `Translate` |
| `Logging`, `Metrics`, `loggingUnary` after `next` | `LogRequest`, `CountRequest`, `LogCall` |
| `Recoverer`, `recoveryUnary` | `Recoverer`, `RecoverCall` |
| `timeoutUnary`, the caller's deadline, a caller that goes away | `ContextEnds` |

**CallContract** - the abstract specification of an inbound adapter: a call is *open*; it is
refused (who is not entitled is denied, and only who is entitled is told that the request
makes no sense) or its use case runs, once; what the caller is told is settled; then it
is noted, at most once in a line and once in a sample, each with that very status; and
the call leaves, not before the line is there. (Its body may have left before: `respond`
writes it inside of `Logging`.) A panic is recovered, or the connection dropped, and may be
noted too: documents want that, the code does not, and the contract leaves it open. It knows no chains, layers, contexts or errors. `Transport!ImplementsContract` maps
both chains to it at once: `StageOf` is *open* on the way in and, on gRPC, still while an
`errUnauthenticated` is on its way to `errorsUnary`; *running* until the answer is written or
translated; *settled* from there (`Settled`). `Noted` is what `Logging`, `Metrics` and
`loggingUnary` have written.

**Rules**, **Ulid**, **Dialogue** - what the calls say. `Rules` has the rules of the domain
package, the hasher's limit and the list limit as operators on texts, a text being a
record of what the rules look at: runes, bytes, padding, case, form. `Ulid` has
`NewULID`, `encode` and `shiftRight` with bytes of `ByteBits` bits. In `Dialogue` a
client and its account talk over both adapters: it fills in the form, corrects what
the answer names, asks again, and later reads, changes and deletes its row. Each
`Exchange` decodes the request as either adapter does (`toInput`, `toMessage`; a limit that
is no integer ends in `listFilterIssues`, on REST alone, as no message can carry one), runs
the use case (`Create`, `Get`, `Update`, `Delete`, `List`, `Login`), and encodes the
result as either does (`toUserResponse`, `toProto`, `toListMeta`, `toListProto`), so
that one state holds both answers. A call is one step here: races are
`UserManagement`'s, failures `Transport`'s.

The `MC*` modules add symmetry and concrete values; `MCValues` holds what the
instances of the core share. `MCUserManagement!RaceSpec` leaves steps out: sessions
race while accounts rest, and accounts while sessions do. Definitions whose comment says *Mutant* are plausible
bugs next to the definition they would replace (a dropped guard, a missing
lookup); nothing in a specification uses them. `PROJECT.json` pairs each with a
property it violates.

## 3. The runs

`tlc -workers 2 -config <cfg> <module>`. Each passing run finishes in under five
minutes.

| Run | Question | Instance |
|---|---|---|
| `Core` | Can two requests, a purge, an expiry or a failure give a chain two working tokens, rotate a token twice, make lifetimes jump, or cost another user a session? Is every step one of `SessionLineage`? Do racing creations, updates and deletes keep emails unique and undo nothing? | 3 ids (2 registered), 2 emails in 3 spellings plus a malformed one, 1 name, 2 login/refresh and 2 account requests, 3 tokens, lifetime 2, clock 0..2, `RaceSpec`; 1.05 million states. With one name, a lost update shows on the email |
| `Sessions` | What is left of a user's sessions after a reuse, and after a delete? | 1 user, 2 login/refresh requests, 1 account request, 3 tokens; 1.56 million states |
| `Access` | Is an access token accepted for as long as its answer promised, by every replica, and for how long after its account is gone? | 1 user, 2 tokens, 1+1 requests, clock 0..5, lifetime 2, leeway 2, a second of 2 units, clocks 1 apart; 3.3 million states |
| `Listing` | Does a walk return exactly what it should, whatever is written meanwhile? | 4 ids, limits 0..4 of which 1..3 are legal, default 2 |
| `Process` | Any step of boot failing, a signal or a server failure at any time, requests at every stage: opened too early, refused, cut, left behind, left open, or never ending? | every subset of 5 unusable settings, 2 HTTP and 2 gRPC requests, another replica; 97 thousand states |
| `Transport` | Do both adapters say the same of the same outcome, and do their log lines and samples agree with it? Is every step one of `CallContract`? | 2 users; every method, every request, every outcome of it, a context that ends at any point; 788 thousand states |
| `Dialogue` | Do both adapters tell one story of a form and a row, all at once, without contradiction, and do identifiers sort? | 4 names, 6 addresses, 6 passwords, 5 limits and one that is no integer, each on both sides of its bound; clock 0..5 across milliseconds, seconds and the rollover of an upper character; 510 thousand states |
| `ReuseRace`, `ReuseInFlight`, `DeleteRace`, `GrpcCut`, `TimeoutVerdict` | Statements of documents and comments that the code does not keep (section 6): TLC shows how | smallest instance with the race |

The properties, by hazard:

- *Racing rotations* - `OneLivePerChain` counts the working tokens of a chain together with the
  rotations that have claimed and not yet stored; `OneRotationPerToken`;
  `ImplementsLineage`.
- *Time* - `ExpiryChain`: although `now` is read first and the claim made much
  later, the new token never expires before its parent and its lifetime begins
  within the parent's.
- *Reuse* - `ReuseKillsEverySession`: when the 401 of a reuse is sent, all sessions its
  user had when the revoked token was found are dead; `RevocationStaysWithUser`:
  and nobody else's. `NoWayBack`: no interleaving revives a token or a row.
- *Delete* - `NoComeback`: a refresh begun when the account was gone never claims;
  `OnlyStragglersSurvive`: after the 204, a live token of the account can only be
  one that was stored after the row had gone.
- *Accounts* - `UniqueEmail` without any check in the services; `NoLostUpdate`: a field changes
  only by a request that was sent that field.
- *Access tokens* - `LifetimeKept`: truncation and clocks that differ take nothing of the
  lifetime that was promised, counted from the signing, and leeway adds no more than itself; `FadesOut`: a
  deleted account can act until lifetime and leeway after its row *and the last request
  that had read it* were gone, and nothing prolongs that.
- *Listing* - `NoRowTwice`, `NothingMissed`. A walk also ends: by `NoRowTwice` its pages
  go strictly down, and each but the last is full.
- *Boot* - `PortsOpenOnIndexes`, although a failed call may have built an index and
  another replica may too; `PanicsBeforePorts`: no setting that `validate` lets through
  is found by a goroutine of a serving process; `NothingLeftOpen`, `RequestsHaveMongo`.
- *Shutdown* - `NoneRefused`, `HttpHasItsWindow`, `NobodyLeftBehind`, `CleanExitCutNoHttp`,
  `ShutdownEnds`.
- *Adapters* - `SameVerdict`: one error, one code and one request id to quote, although
  two tables and two envelopes produce it, and a status and a code that
  `docs/grpc-api.md` puts side by side (`Counterparts`); `LoggedAsAnswered`: no layer outside of
  the logging changes the verdict any more; `CallerIsOnTheLine`: the line written
  outside of authentication names the caller whom only inner layers know;
  `FailureIsTraceable`: what is answered as internal has a line under the call's
  id; `OnlyVerified`; `ImplementsContract`: of all this, the order. Nobody learns from a refusal
  what only the entitled may, no use case runs twice or for a body that does not decode,
  no status changes once it is in a line, nothing is noted of a call twice and no call
  leaves before its line. Panics are excluded where the code treats them otherwise, and
  section 6 says how.

- *Forms and rows* - `SameStory` compares the two answers issue by issue, whatever is sent or
  left out; `SameRow` ties what the client was told when it wrote, from exact times, to
  what either adapter will tell of the stored row, cut twice; `AllAtOnce`: a second
  refusal is never about a field that was left as it was; `NothingToldTwice`: a client
  that does what the reasons say is told one thing again at most, which the formula names
  (section 6); `ForeignIdsAlike`: another's
  id, nobody's and none are refused alike; `StoredIsNormal`; `IdsSortByTime`. What only one adapter can be asked is compared with
  nothing: an empty id on gRPC, a limit that is no integer on REST.

### Bounds

| Bound | Where | Why it is enough |
|---|---|---|
| `Token` (finite), guard `TokenLeft` | `AuthService` | A request that may store starts only when a value is left for it, so `Store` is never disabled by the bound. Three tokens are a login, a rotation and either a second rotation or a rival login: the shortest histories of every race listed. The proofs lift the bound |
| `UserId` (finite), guard `IdLeft` | `UserService` | As above, for creations |
| `RaceSpec` | `MCUserManagement` | Each step is one of `Next`; what it leaves out is the account requests that race sessions, which `Sessions` and `Access` have, over the same modules. The proofs are about `Next` |
| `AuthProc`, `UserProc` | cfg | The races are between two requests over one token or row, and with the request that wipes or deletes |
| `MaxClock` | `Storage` | With lifetime 2 and clock 0..2 a first token is presented before, one instant before, and at its expiry, and is purged. Runs about ordering alone freeze the clock |
| `MaxId`, `RawLimit` | `Paging` | Four rows are more than one page of every legal size, and an exactly full one of size 2; the limits 0 and 4 are refused |
| `Subject` | `Transport` | A call is on its own; two users so that a line could name the wrong one |
| `MaxSkew`, with `MaxSkew + (Second - 1) <= Leeway` | `AccessTokens` | An assumption on the deployment: the leeway of 30 s covers the skew and the second that truncation takes. `LifetimeKept` needs it |
| `ByteBits` | `Ulid` | 1 bit for 8, as TLC counts in 32-bit integers: two words of 8 bits and characters of 5, so that characters straddle the words and the top one is padded, as in the code |
| `Names`, `Emails`, `Passwords`, `Limits` | `Dialogue` | For each rule one text that just passes and one that just fails, padded and in capitals, and passwords within one limit and beyond the other; an address of 254 characters in 255 bytes |
| `Milli`, `Second`, `Epoch`, `Draws` | `Dialogue` | A millisecond is two units and a second two milliseconds, so that both cuts lose something; the epoch is one millisecond before the lower characters of the time are full; the draws differ in one word and agree in the other |
| `HttpReq`, `GrpcReq` | `Lifecycle`, `Process` | Two of each: one may be done while the other runs, or is on its way |

Two requests with the same role are interchangeable, as are two token values:
symmetry is used where no liveness is checked.

`CHECK_DEADLOCK FALSE` is given where the modelled system does stop: a process
that has exited, a walk that has ended, a call that has been answered. In the core there is no deadlock and the
runs check that.

## 4. Fairness

The core states none: that a request ends is the `opTimeout` of each of its few calls, and
nothing else is promised of it. One specification is fair:

- *Process* (`ProcessFairness`): each step of boot ends, since every call is given `bootCtx`
  or has a bound of its own; *how* it ends is not assumed. While serving, goroutines run
  on and time passes, the balancer keeps probing and its requests arrive.
  `WorkerStops` is strongly fair: at each `select` the closed
  `ctx.Done()` is ready, and Go picks among ready cases at random. **No** fairness
  for answers: `ShutdownEnds` holds although no request is ever answered, because
  the drain window ends.

`NoticePeriodOver` in `Lifecycle` is an assumption on the deployment, not fairness:
`delayFor` covers the balancer's probe interval and the flight time of a request.
`NoneRefused` holds under it and not without; the code can only wait.

## 5. The proofs

TLC checks small instances; the following hold for every value of the constants,
checked by TLAPS.

| Theorem | Says |
|---|---|
| `UserManagementProofs!TypeCorrect` | `Spec => []TypeOK`: types, and each request knows the user and the token its next call is about |
| `RotationProofs!RotationCorrect`, `NeverRotatedTwice` | `Spec => []OneLivePerChain`; `Spec => []OneRotationPerToken` |
| `RotationProofs!RotationRefines` | `Spec => ImplementsLineage`: the core implements `SessionLineage` |
| `AccountProofs!EmailsUnique` | `Spec => []UniqueEmail` |
| `AccountProofs!UpdatesKeepEachOther` | `Spec => NoLostUpdate` |
| `AccountProofs!NothingComesBack` | `Spec => NoWayBack` |
| `AccountProofs!RevocationsStayWithTheUser` | `Spec => RevocationStaysWithUser` |
| `AccountProofs!LifetimesConnect` | `Spec => []ExpiryChain` |
| `SessionProofs!ReuseEndsWhatItSaw`, `DeletedStaysOut`, `DeleteLeavesOnlyStragglers` | `SessionSpec => []ReuseKillsEverySession`; `[]NoComeback`; `[]OnlyStragglersSurvive` |
| `SessionProofs!ExpiresInIsKept`, `DeletedAccountsFadeOut` | `AccessSpec => []LifetimeKept`; `[]FadesOut` |
| `PagingProofs!PagingTypes`, `RowsComeOnce`, `ListingIsExact` | types; `NoRowTwice`; `NothingMissed` |
| `ProcessProofs!LifecycleTypes`, `NoRequestRefused`, `HttpDrainsFully`, `CleanExitIsHonest`, `ProcessOutlivesRequests` | types; `NoneRefused`; `HttpHasItsWindow`; `CleanExitCutNoHttp`; `NobodyLeftBehind` |
| `ProcessProofs!ProcessImplementsLifecycle` | `ProcessSpec => Spec` of `Lifecycle`: boot and unwinding add nothing to what the promises of shutdown are about |
| `ProcessProofs!ProcessShutsDownInOrder` | those promises, of a process that may be told to stop at any step of boot |
| `ProcessProofs!BootIsSafe`, `MisconfiguredNeverServes`, `ConnectionIsClosed`, `MongoOutlivesRequests` | `PortsOpenOnIndexes`; `PanicsBeforePorts`; `NothingLeftOpen`; `RequestsHaveMongo` |
| `TransportProofs!CallIsAsSaid` | `Spec => []CallInv`, the inductive invariant of a call in both chains |
| `TransportProofs!VerdictIsTheSame`, `LogSaysTheAnswer`, `LineNamesTheCaller`, `FailureLeavesATrace`, `CallersAreVerified` | `SameVerdict`; `LoggedAsAnswered`; `CallerIsOnTheLine`; `FailureIsTraceable`; `OnlyVerified` |
| `TransportProofs!CallKeepsContract` | `Spec => ImplementsContract`: both chains implement `CallContract` |
| `DialogueProofs!ClientIsUnderstood` | `Spec => []DialogueInv`, the inductive invariant of a client and its account |
| `DialogueProofs!StoriesAgree`, `RowsAgree`, `RowsAreNormal`, `DenialSaysNothing`, `ToldAllAtOnce`, `NothingIsToldTwice` | `SameStory`; `SameRow`; `StoredIsNormal`; `ForeignIdsAlike`; `AllAtOnce`; `NothingToldTwice` |

Assumptions: only the named `ASSUME`s of the modules. `StorageAssumption` (`None` is
no value, normalization yields a normalized address or nothing, the initial users
are distinct accounts), `AuthAssumption` (a positive lifetime),
`LoggedInAssumption`, `PagingAssumption` (`1 <= DefaultListLimit <=
MaxListLimit`), `LifecycleAssumption` (a request goes to one port), `AccessAssumption`
(the lifetime is of whole seconds, and the leeway covers the skew between replicas and
what truncation to the second takes away), `TransportAssumption` (a user is not one of the
things that are wrong with a token), `DialogueAssumption` (what may be sent are texts and
integers, `NotAnInteger` is none of the limits, a second is a whole number of milliseconds, and
`None` is none of these, nor a row, nor a view of one). Sets of ids, tokens, requests, users, texts and limits need not be finite.

The arguments.

- *Rotation.* `OneLivePerChain` alone is not inductive: a request that is about to claim could
  be presenting a token whose chain already has another one, or an unborn
  token could already be a parent. `RotationInv` adds: a parent is spent and has been stored; a claimed
  token has no child yet; the root of a stored token has been stored; what is
  presented has been stored. The step that matters is `Claim`: by the filter of
  `Revoke` the token was live, so its chain had no other live token and no pending
  rotation. `Store` then adds a child to a chain with nothing live. Once
  that invariant is there, refinement is a case split: `Store` is *open* or
  *renew*, the claims, revocations and purges are *retire* or nothing.
- *Accounts.* Every step changes `users` by an insert, a patch or a delete (`UsersStep`) and
  `tokens` by a store, a revocation or a purge (`TokensStep`), each with the guard
  its filter or index gives it. `EmailsUnique` and `NothingComesBack` follow from those
  two lemmas, whatever the order of calls; `NoLostUpdate` from `RowStep`, by which a row
  that stays is written by the patch of an update alone, of the fields it was sent.
- *What a request remembers.* `RequestStep` lists what a step may do to one request, and
  `DocsKept` that a stored document is revoked or removed but never rewritten. With them
  `PresentedInv` is inductive: the token a request presents has been stored, belongs to the user the
  request remembers, and was current at the instant it read. So a wipe is on behalf of that user, and
  a session that `Store` adds begins within the lifetime of its parent.
- *Which sessions end.* `SessionInv` adds to it, over `SessionSpec`: at `wipe`, what the
  request saw is revoked or in its `todo`, and at `revoke`, what works of the
  account is in `todo` or stored after the row was gone; a late refresh presents a
  token of a deleted user, whom `FindByID` does not find. The delicate step is a
  `Store` between the scan and the end: it is a straggler because `DeleteUser` came before
  the scan, the order of calls in `Delete`.
- *Access tokens.* `AccessInv`: a token was signed by a clock at most `MaxSkew` ahead, for a user
  whose row, or a request that had found it, was there at that time; a request that has signed
  and not yet stored has found it (`SigningInv`), however long the insert takes. The rest is arithmetic
  (`Accepted`): truncation takes less than a second, and the leeway pays for it and the skew.
- *Listing.* `WalkInv`: all that was delivered lies at or above the cursor, all that the scan has
  returned lies between its place and the cursor, both descend, and every row that
  has matched throughout is in one of them or still below. `ConcatDescends`
  says that two descending sequences, one above the other, concatenate to one.
- *Shutdown.* `ShutdownInv` ties each place of the gatekeeper to what is already true there: which
  probes say no, that the balancer has noticed and nothing is on its way, which
  listeners are closed, and that the places after the cut have no running request.
- *Boot.* `ProcessInv` says at each place of `run` what is already true: the connection is
  open exactly between `Connect` and the end of `closing`, indexes exist from `core` on,
  what is unusable has been refused. Failing steps keep it because each has its own
  way out. `RequestsHaveMongo` needs both invariants: no request runs once `serve` has
  returned (`ShutdownInv`), and until then the connection is open (`ProcessInv`).

- *A call.* `CallInv` says at each place of a chain what is true there. What a caller is told at the
  end is decided far inside, so the properties of an answered call are not inductive: the
  invariant follows the call inward (`Placed`: who is known, and to which layers; past
  authentication only a verified caller or a public method), tells what is logged and counted
  already by how far out it has come (`Logged`: past `Logging` or
  `loggingUnary` there is its line or that of a panic, none is there before, and it carries the
  status the caller will get), and says what
  the result means on both sides of `errorsUnary` (`GrpcAnswer`: raw inside, translated outside;
  `RestAnswer`: written at once). There is a lemma for each group of steps of each chain; the two
  chains meet only in `Verdict`, which depends on the request and the outcome alone.
- *An adapter's promise.* The refinement needs a little more than `CallInv`: `NotedInv` says that the
  request line and a panic's are there only past the layers that write them, and that an error
  which will be translated to a denial belongs to a caller who is not entitled. The steps
  are first reduced to what they do to the record of a call and its lines (`Takes`: ten kinds for
  the seventeen actions, one lemma per chain), and these are compared with the contract
  without chains (`StepIsPromised`). `WhereErrorsAre` ties the one to the other: an answer is still
  open exactly where `errorsUnary` is further out. `Translate` is then *refuse* or *settle*, by
  what the error was; the layers in between are nothing at all.
- *A form.* `NothingToldTwice` speaks of the rules, the reasons and the history of the client at
  once. `DialogueInv` splits it: `Heeded`, the form obeys every reason it has been given; `Replied`,
  an answer's issues are the ones the rules find in the form as decoded; `Kept`, a field that was not
  complained of passes its rules as it was left. `FormItems` joins them: an issue found in a form
  is one the form does not obey, or the one that heeding does not remove (`Unheedable`), and is
  about a field that does not pass, or is bcrypt's limit.
  One lemma per field compares what a rule checks with what its reason says.
- *A row.* `SameRow` needs `CutTwice`, that time cut to the millisecond and then to the second is
  cut to the second, which holds since the one is a multiple of the other; `StoredIsNormal`
  that normal forms are left alone by the rules and by normalization (`NormalForms`), so that a
  patch of one field keeps the other.

Only model-checked: `ShutdownEnds` (liveness under fairness, out of the
prover's reach), and `IdsSortByTime`: it is arithmetic with powers of two whose exponent is a
constant, such as `2^(a + b) = 2^a * 2^b`, which takes induction the provers cannot instantiate.
The violation runs refute what documents say; there is nothing of theirs to prove.

## 6. Where the code and its documentation disagree

Each is a run in which TLC finds the statement violated by the code's own steps.

1. `ReuseRace` - `docs/design-decisions.md:25`: of two concurrent refreshes the loser gets
   401 *with no wipe*, and only a token *already known to be rotated* wipes. True only
   if both looked the token up before either claimed it. When the loser's
   `FindByHash` comes after the winner's `Revoke`, it finds it revoked and wipes every
   session, the winner's new one included. The code wipes for any revoked token
   (`auth_service.go:129`), so also for one that an earlier wipe revoked and nobody ever
   rotated: `OnlyKnownReuseWipes` forbids both, and both are reachable.
2. `ReuseInFlight` - `auth_handler.go:82`: presenting a rotated token wipes every session.
   A rotation between its claim and its insert is not among the documents the wipe
   matches, and its token works afterwards. `ReuseKillsEverySession` is what does
   hold.
3. `DeleteRace` - `docs/jwt-guide.md:66`: deleting the account revokes its tokens on
   the spot. A login or refresh that read the row before it went stores its token
   after `RevokeAllForUser`; the token stays in the collection as live. It can never
   be rotated, as `NoComeback` shows; what holds of it is `OnlyStragglersSurvive`.
4. `GrpcCut` - `lifecycle.go:81`: in-flight requests *and RPCs* run to completion within
   `drainFor`. `grpc.Stop()` runs as soon as `http.Shutdown` returns
   (`lifecycle.go:112`) and cuts RPCs that `GracefulStop` was still waiting for.
5. `TimeoutVerdict` - `apierr.go:5`: REST and gRPC *can never drift apart in what they tell
   the caller*. A command that has met its own `opTimeout` (5 s) ends in the same
   `DeadlineExceeded` as the call's ceiling (10 s): gRPC tells the caller that the call
   *did not finish within its deadline*, gives no shared code and logs no error
   (`grpc/errors.go:46`), REST answers 500 `INTERNAL` and does.

Met while modelling `Transport`, and excluded from its properties where they say so:

- A panic in a REST handler unwinds through `Logging` and `Metrics`, whose code after
  `next.ServeHTTP` never runs: it leaves no `http_request` line and no sample, where
  `docs/rest-api.md:229` says *one per request, written at the end*. The comments at
  `recoverer.go:14` and `router.go:77` explain the order of the chain by the opposite
  effect. There is `panic_recovered` and `unhandled_error`, both with the request id.
  `CallContract` neither asks for the missing line nor forbids it.
- The same on gRPC, where `grpc_panic_recovered` has no request id, since `recoveryUnary` is
  outside of `loggingUnary`; `docs/design-decisions.md:58` counts on *a request id on
  every log line*, and the caller is given no `ErrorInfo`.
- A REST caller that goes away in the middle of a repository call leaves an `unhandled_error`
  line and a 500 in the counter.

Met while modelling `Dialogue`:

- `user.go:29` promises *all of them at once*, but a password beyond bcrypt's 72 bytes is
  found by the hasher, when every other rule is met, and reported alone. `AllAtOnce`
  grants this one exception.
- `emailMaxLen` counts bytes (`email.go:24`), the reason says *longer than 254 characters*
  (`email.go:25`): a caller with an address of 254 characters or fewer in more than 254 bytes
  obeys it and is refused again. `NothingToldTwice` holds of every other reason and names this
  one in its formula; the instance has such an address, and without the exception TLC finds it.

## 7. What is abstracted, what is not modelled

Abstracted: password hashes and their comparison (a choice of outcome); random
values and their SHA-256 hashes (a token is one value that never collides); in the
core, normalization (the constant `Normalize`; `Rules!NewEmail` says what it does) and
the fields of a validation failure; `created_at`, `updated_at` under races (`Dialogue` has
them for one client); the text of log lines and messages. In `UserManagement` an access
token is accepted by anyone who was ever given one, so every behaviour with expiry is
among those checked; `AccessTokens` has the expiry. Elsewhere clocks of replicas are
one clock.

In `Transport` a use case is its outcome, one that its method can have: the core's
modules and `Dialogue` say which one. The two meet in `ContextEnds` and `Fail`, which
cut the same call.

Not modelled, and why:

- A limit beyond an int32, which only REST can be sent: it is an int of Go's, refused as
  `MaxListLimit + 1` is.
- The `Server` timeouts of `net/http`, the driver's pool and retryable writes, grpc-go's own
  refusals: not this code.
- `realip`, `netaddr`, the logger, metrics' labels, unmatched routes, `/metrics`, the
  OpenAPI pages: they format, and no step depends on what they say.
- `requestIDFromMetadata` takes over any id a gRPC caller sends, REST only a well-formed one:
  ids are the model's own in both adapters.
- The gRPC console (a development page that calls the service's own port), generated
  code and mocks, and the internals of MongoDB, `net/http` and grpc-go beyond what this
  code relies on.

## 8. Plan

Done: storage and both services, their composition and its refinement, listing, access
tokens, the process from boot to exit, the adapters and what they promise, the forms and rows
that pass through them, identifiers; every safety property of every passing run proved but
that of the identifiers, and every refinement.

Left: nothing of the parts listed as modelled. The age of the worker's gauge would need a clock
for its rounds, should a document ever promise a bound on it.
