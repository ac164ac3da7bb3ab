# A TLA+ verification of nats-guest-access

nats-guest-access hands anonymous browser guests a numbered place in a
presenter's event and a short-lived token. Its hard promise is *purge before
reuse*: a place goes to another guest, and an event is forgotten, only after the
application has acknowledged that the former guest's data is erased. Everything
is kept in one NATS key-value bucket, written by compare-and-set from any
number of processes, each with HTTP handlers and a recovery worker. There are
no locks and no transactions over two keys. This project models that protocol,
checks it with TLC and proves its main guarantees with TLAPS.

Source references are relative to `src/internal/` unless they say otherwise;
"README" there is the repository's `src/README.md`.

## The system

| Part | State it keeps | Operations | Interacts with |
| --- | --- | --- | --- |
| Key-value store (`store/`) | entries with revisions | Get, Create, Update, Delete, DeleteRevision, List | everything below, by calls; the only shared state |
| Admission (`access/service.go:265-333`) | slots, session index | StartSession | slot cleanup; races pause, capacity, deletion |
| Lease (`service.go:335-401`) | slot | RenewSession, HeartbeatSession | races cleanup, pause, deletion |
| Event administration (`service.go:143-197, 426-442, 513-534`) | event, slots | SetState with reserveSlots, UpdateCapacity, ReleaseSlot | slot cleanup |
| Slot cleanup (`access/recovery.go:34-80`) | claim in the slot, session index | claimCleanup, cleanSlot | the application, through the cleanup client |
| Event deletion (`service.go:444-469`, `recovery.go:106-193`) | event, slots, indexes, receipt, invitation | DeleteEvent, cleanEvent, finalizeEvent | the application |
| Recovery pass (`recovery.go:213-280`) | none of its own | Reconcile | slot cleanup and event deletion, at the revisions of its scan |
| Recovery controller (`recovery/controller.go`) | ticker, counters, last report | Run, Tick, ServeHTTP | calls Reconcile, with a minute's time |
| Event register (`service.go:88-114, 199-263`) | event, invitation index | CreateEvent, RotateInvitation, SetCohost | admission, which finds the event by its invitation; deletion |
| Cleanup client (`cleanup/nats.go`) | none | Cleanup: one request and its acknowledgement | the application |
| HTTP API (`api/`) | the browser's cookie | routes, cookies, error mapping, presenter verifier | the access service |
| Issuer (`issuer/`) | key, token life | Mint, JWKS, Discovery | admission and renewal |
| Configuration, start-up (`config/`, `cmd/`) | durations, limits | Load; run, with the server's time limits | |

What is hard about it, and what correctness means for each part:

- *Stale reads.* Every operation reads two or three keys and writes one; only
  the written key's revision is compared. Correctness: what was true of the
  other keys must still be true enough.
- *The application call.* It may take thirty seconds, fail, or succeed with its
  answer lost. A claim with a deadline keeps others away; when it lapses a
  second worker does the same work. Correctness: both may finish in any order
  and no guest loses a place, or keeps one after erasure.
- *Crashes* between any two writes. Correctness: what is left is either
  retried to its end or harmless.
- *Deletion against admission.* The list of identities to erase is read key by
  key while guests are being admitted. Correctness: nobody is handed a token
  and then missed by the receipt.
- *Progress.* Claimed slots, expired places and begun deletions have to come to
  an end although any worker may die.
- *Two keys, no transaction.* An event and its invitation are written one after
  the other, and what cleans up after a failure is itself allowed to fail.
  Correctness: the link a presenter was given last admits, and a revoked one
  only where a failure left it.
- *Clocks.* Claims, back-offs, a pass's minute, leases, tokens and the write
  timeout of the server are read and compared in different places. Correctness:
  a claim outlives its request, no task starves, and no answer speaks of a time
  that the program does not keep.

`PROJECT.json` lists each hazard at its line with the properties that cover it,
or the reason why none does.

## The modules

| Module | Models | Notes |
| --- | --- | --- |
| `GuestState` | records, revisions, jobs | state and conditional writes shared by all operations |
| `SlotCleanup` | `cleanSlot`, `claimCleanup` | used by three callers, as in the code |
| `Admission` | `StartSession` | |
| `Lease` | `renewLease` | |
| `EventAdmin` | `SetState`, `reserveSlots`, `UpdateCapacity`, `ReleaseSlot` | |
| `EventDeletion` | `DeleteEvent`, `cleanEvent`, `finalizeEvent`, `markSessionDeleted` | |
| `Recovery` | `Reconcile` | |
| `GuestAccess` | all of them composed, clock, crashes, fairness, properties | |
| `GuestPlaces` | what all of it promises of the places, each operation one step | abstract specification, implemented by `GuestAccess` |
| `GuestInvariant` | the inductive invariants `Inv` and `ClaimInv` | |
| `Promises` | three documented promises the code does not always keep | |
| `StoreContract` | what the service relies on from a store, without revision numbers | abstract specification |
| `KVStore` | `Memory` and `NATS` with revision numbers and deletion markers | implements `StoreContract` |
| `EventRegister` | `CreateEvent`, `RotateInvitation`, `SetCohost`, `UpdateCapacity`, `DeleteEvent`, `can` | the record and its invitations, as presenters see them |
| `RecoverySchedule` | `Controller.Run`, `Tick`, the order and batch of `Reconcile`, claims and back-offs | numeric time |
| `GuestSession` | the guest endpoints, `StartSession`, `renewLease`, `Mint`, the write timeout | numeric time, one identity |
| `MCGuestAccess`, `MCKVStore`, `MCEventRegister`, `MCRecoverySchedule`, `MCGuestSession` | symmetry sets for TLC | |
| `GuestFrames`, `OperationProofs`, `GuestAccessProofs`, `PlaceProofs` | proofs about `GuestAccess` | |
| `KVStoreProofs`, `EventRegisterProofs`, `RecoveryScheduleProofs`, `GuestSessionProofs` | proofs about the module of that name | |

`GuestAccess` composes the operations on one event with all their
interleavings and without numbers. The three modules after it each look at what
that composition leaves out, at the same code: who may write the record and
which invitations admit (`EventRegister`), when recovery gets round to what
(`RecoverySchedule`), and what a guest is told and for how long it holds
(`GuestSession`). What they do not look at they reduce to the writes that
`GuestAccess` has made there; each module's header says so.

### State and actions

The model follows **one event**; events share no keys, and the only operation
that spans them is the scan of Reconcile. The variables `event`, `slot`,
`session`, `receipt` and `invitation` are the bucket's entries of that event.
`job[w]` is where worker `w` (a goroutine of some process) stands in its
operation, with the data it has read. An action is the code between two calls
to the store or the application, with the second call; its name is that of the
function or of the step (`StartRecheck`, `CleanDrop`, `FinalMark`). `issued` and
`acked` are history: the identities whose token was handed out, and those whose
erasure the application acknowledged in full.

**Identities.** A slot's generation, subject and resume digest are created
together and never shared (`service.go:288-298`), so one value of `Gen` stands
for the three. Its cookie is that value too.

**Revisions.** Only one question is ever asked of a revision: is it still the
current one? The model keeps the answer instead of the number: `holdsEvent` and
`holdsSlot[n]` are the workers that read or wrote the entry last written. A
write leaves its writer alone there, a deletion leaves nobody. That this is
what the real stores do, with their global counters, deletion markers and
re-creations, is the refinement `KVStore => StoreContract`, checked and proved.

**Time in `GuestAccess`.** Instants are only compared with the present. A slot is
past its grace period or not (`expired`); a cleanup claim is held until its
`NextAttemptAt` and then due. The clock may change either at any moment and, as in the code, without
a write. A comparison is made at the read; the code takes its `now` before a
walk or a scan, so where that matters (`StartSkip`) both outcomes are allowed.

**Time in `RecoverySchedule`.** A unit is five seconds, the base of the back-off,
and due times are kept relative to now. `Tick` lets a unit pass for everything
at once, unless a controller has something to do at once: its own code takes no
time, a store call at most `StoreDelay`, a request at most the rest of its
`Timeout` or of the pass. A ticker whose channel is full drops its tick. The
tasks are the cleanups of places; an event's deletion is scheduled by the same
code with two differences that are left out (its first due time is zero, and
with a receipt it is finished without a claim).

**Time in `GuestSession`.** All processes read one clock, as the code assumes when
it compares instants that other processes have stored. `Tick` may fall between
any two steps, so an operation takes any time; only the answer has a limit, the
server's write timeout. `promised` and `token` are history: the latest time that
an answer which arrived has said the place would be kept, and the latest expiry
of a token.

**The register.** Copies are kept as they were read, because that is what is
written back: a lost update would be one field of an old copy. An `Invitation` is
the digest of one secret and is drawn once. `Can` is `can` as it is written,
owner and capabilities; the principal is the subject that the ID token was
verified for. An operation that is refused returns before it writes and is not
an action.

**Failures.** `Crash` ends an operation anywhere: the process died, the context
was cancelled, or a store call failed and the handler returned. With the
preceding write done this is also a call that was applied and reported as
failed. Where the code goes on after a failed call there is an action of its
own: `CleanFails`, `StartCallFails`, `StartIndexFails`, `StartMintFails`,
`CleanUnanswered`, `DeleteUnanswered`.

### Abstractions

- `GuestAccess` leaves out who may operate an event: a refused principal returns
  before any write, and `EventRegister` has the check. Names, timestamps that are
  only reported, encodings, and records that do not decode are left out
  everywhere.
- "Up to five attempts" is a choice to try again or to give up.
- The invitation and the event are read in one step by `StartSession`.
- In `GuestAccess` a recovery pass takes on all the tasks it found, in any order;
  `RecoverySchedule` has the batch and the order.
- An exhausted `Gen` is the failure of `randomSecret`.
- The upgrade of a deletion recorded without progress (`recovery.go:118-121`) is
  treated as one that is due.
- JetStream is external and modelled from how `store/nats.go` uses it: `Create`
  over a deletion marker is one step, a purge takes a revision of its own, and
  conditional writes compare with the revision of whatever is there.

## What is checked

| Run | Instance | Shows |
| --- | --- | --- |
| `joins` | 1 place, 2 identities, 2 guests, 1 presenter | `PurgeBeforeRelease`, `HolderCanResume`, `ErasedNotRenewed`, `KeepsPlaces` |
| `two_slots` | 2 places, 2 identities, 1 guest, 1 presenter, 1 failure | `ReceiptCoversEveryone`, `NothingLeftBehind`, `KeepsPlaces` |
| `recovery` | 1 place, 2 identities, guest, presenter, recovery worker, 1 failure | `PurgeBeforeRelease`, `HolderCanResume`, `ClaimInv`, `OnlyExpiredReclaimed` |
| `invariant` | 1 place, 1 identity, guest, 2 presenters, 1 failure | `TypeOK`, `Inv`, `ReceiptCoversEveryone`, `DeletionIsFinal` |
| `completes` | 1 place, 1 identity, guest, presenter, recovery worker, 1 failure | `NothingLeftBehind`; `DeletionCompletes`, `ErasureCompletes`, `ExpiredReclaimed` (liveness) |
| `store` | both stores, 2 clients, 2 keys, 2 values, 5 revisions | `RevisionsOK`, `KeepsContract` |
| `event_register` | owner and one cohost, 2 handlers, 4 invitations, 2 failures | `TypeOK`, `GivenInvitationAdmits`, `SomeInvitationAdmits`, `StraysAreFailures`, `WritesPermitted` |
| `recovery_schedule` | 2 controllers, 2 tasks, 1 failure, request and slack 2 units, pass 3 | `TypeOK`, `ClaimExclusive`, `NoStarvation`, `BacklogNotUnderstated` |
| `guest_session` | 2 requests at a time, clock to 3, lease and grace 1, token 2, 1 failure | `TypeOK`, `PromiseKept`, `TokenRunsOut`, `LeaseNeverShortened`, `DeletedIsFinal`, `ExpiredMeansGone` |
| `paused_places`, `terminal_answer`, `phantom_place` | 1 place, 1 identity, 1 guest, 1 presenter, no failure | the findings below |

In words: a guest who was handed a place keeps it until erased
(`PurgeBeforeRelease`); as long as nobody cleans it up the guest's cookie leads
to it (`HolderCanResume`); only a presenter, or a grace period that is over at
the moment of the claim, takes it away (`OnlyExpiredReclaimed`); an erased guest
gets no new lease (`ErasedNotRenewed`); a receipt vouches for everybody
(`ReceiptCoversEveryone`); the event goes last (`NothingLeftBehind`) and never
comes back (`DeletionIsFinal`); deletions, erasures and reclaims end.
`KeepsPlaces` is the refinement of `GuestPlaces`, in which a place is taken,
handed out, erased and left in one step each: in particular an identity is
handed out once, only while its place is its own or when it is erased already,
and after a receipt only in the latter case.

For presenters: a link they were given admits until another has replaced it
(`GivenInvitationAdmits`), some link always does (`SomeInvitationAdmits`), revoked
ones survive only by failures and by one race of a rotation with the creation
(`StraysAreFailures`), and whoever writes the record may do so by the very record
that is replaced, in the field of the request (`WritesPermitted`).

For recovery: one controller at a time asks for a cleanup (`ClaimExclusive`); a
due task waits no longer than the passes that attempt the tasks before it
(`NoStarvation`, with the bound `MaxWait` computed from the durations); the gauge counts at least what is left
(`BacklogNotUnderstated`).

For guests: a place is not claimed as expired before the times in the answers
that reached the guest (`PromiseKept`), and a token outlives it by no more than
the durations say (`TokenRunsOut`); renewals do not take away from each other
(`LeaseNeverShortened`); after event_deleted there are no sessions
(`DeletedIsFinal`); session_expired means the place is gone, unless a call failed
(`ExpiredMeansGone`).

**Bounds.** `MaxCapacity`, `Gen`, `Requests` and the worker sets are the
instance; `MaxFaults` bounds crashes and failed calls; `MaxRevision` bounds the
writes of the store run, `Horizon` the clock of `GuestSession` and how far back
`RecoverySchedule` tells due times apart (30 units, beyond the `MaxWait` of 25, so
nothing is hidden; with a horizon below it `NoStarvation` would say nothing).
Slots interact only through lists and the walk over their numbers, so one place
with two identities shows every reuse of it, and two places every partial list.
With one identity (`invariant`) two presenters may do everything at once. Two workers of a kind suffice for a lost update or a
double claim; a third would be another copy of one of them. The proofs are for
all values, and the mutants in `PROJECT.json` show that each property is
violated within its run's bounds by a plausible slip in the code. Symmetry is
used only in the runs without liveness. Deadlock is not checked, because the
system may stop: the event is gone, no request comes.

**Fairness** (`FairSpec`, the liveness runs). A goroutine that has a step to
take takes it; the controller starts passes for ever
(`recovery/controller.go:34-49`) and the clock advances: weak fairness. An
application that is asked again and again answers in the end: strong fairness of
the acknowledgement. No arrival of a request is assumed. `LeaseSuffices` is set
in these runs: a claim does not lapse while its holder is still working, which
is what `ConfigureCleanupLease` (`recovery.go:18-22`) provides, which
`RecoverySchedule` checks and proves from the durations (`ClaimExclusive`), and what
the README claims ("Claims outlive the configured request timeout"). Without
it two workers may take the claim from each other for ever. The safety runs
and all proofs do without it: a claim may lapse at any time.

`ErasureCompletes` excepts an event that is gone: an admission that died between
creating its slot and its second look at the event, across a whole deletion,
leaves a slot of an identity never handed out, which Reconcile finds no more.

## Findings

1. **A renewal undoes a pause** (`paused_places`, `service.go:393`). Event and slot
   are read separately and only the slot's revision is compared. A renewal that
   read the event open and then the slot just reserved clears the reservation of
   a paused event.
2. **No tombstone for a late guest** (`terminal_answer`, `service.go:326`). An
   admission slower than a whole deletion creates its index after finalization:
   the cookie is answered with not-found instead of the terminal code. The
   identity is erased and counted.
3. **A reserved place nobody can resume** (`phantom_place`, `service.go:320`). A
   pause reserves the slot of an admission that is then refused; the undo fails
   on the new revision, its error is ignored, and the place stays taken.

## What is proved

For every number of workers, places, identities and failures
(`GuestAccessProofs`, `PlaceProofs`), from the three assumptions of `GuestState` on its
constants (natural bounds, sentinels outside the record sets, disjoint roles):

| Theorem | Statement |
| --- | --- |
| `Invariance` | `Spec => []Inv` |
| `TypeCorrectness` | `Spec => []TypeOK` |
| `PurgeComesFirst` | `Spec => []PurgeBeforeRelease` |
| `ReceiptIsComplete` | `Spec => []ReceiptCoversEveryone` |
| `EventGoesLast` | `Spec => []NothingLeftBehind` |
| `DeletionStands` | `Spec => DeletionIsFinal` |
| `PlacesKept` | `Spec => Places!Spec`, the refinement |
| `ClaimsStand` | `Spec => []ClaimInv` |
| `HoldersResume` | `Spec => []HolderCanResume` |
| `OnlyExpiredAreReclaimed` | `Spec => OnlyExpiredReclaimed` |
| `ErasedAreNotRenewed` | `Spec => ErasedNotRenewed` |

for any clients, keys, values and revisions (`KVStoreProofs`):
`RevisionsAreFresh` (`TypeOK` and `RevisionsOK`) and `StoreImplements`
(`Spec => Contract!Spec`, the refinement); and for the three modules beside it:

| Theorem | Statement | From |
| --- | --- | --- |
| `RegisterTypes` | `[]TypeOK` | `RegisterAssumption`: the owner is no cohost, sentinels are no values |
| `WritesArePermitted` | `WritesPermitted` | |
| `GivenInvitationsAdmit` | `[]GivenInvitationAdmits` | |
| `SomeInvitationAlwaysAdmits` | `[]SomeInvitationAdmits` | |
| `StraysFromFailures` | `[]StraysAreFailures` | |
| `ScheduleTypes` | `[]TypeOK` | the ranges of the durations, finitely many tasks |
| `ClaimsAreExclusive` | `[]ClaimExclusive` | the ranges of the durations, and `SlackAssumption`: a store call takes less than the slack |
| `BacklogIsNotUnderstated` | `BacklogNotUnderstated` | and finitely many tasks |
| `NobodyStarves` | `[]NoStarvation` | and at least one controller (`ControllerAssumption`), and `PassAssumption`: a pass is longer than two store calls |
| `SessionTypes` | `[]TypeOK` | `ConfigAssumption`: what `Load` insists on |
| `PromisesAreKept` | `[]PromiseKept` | |
| `TokensRunOut` | `[]TokenRunsOut` | |
| `NoTokenOutlivesItsPlace` | `lost # Never => token <= lost` | write timeout + token life at most lease + grace |
| `DeletionIsTold` | `[]DeletedIsFinal` | |
| `ExpiryIsTold` | `[]ExpiredMeansGone` | |
| `LeasesGrow` | `LeaseNeverShortened` | |

The premise of `NoTokenOutlivesItsPlace` fails by five seconds for the default
durations: 35 s write timeout (`main.go:100`) and 300 s of token against 30 s of
lease and 300 s of grace. A token may then be good for up to five seconds after
its place was claimed, if the answer that carried it took all of its 35 seconds.

The guarantees are not inductive: whether a slot may be removed depends on what
the remover knew when it claimed it. `Inv` therefore says for each point of
each operation what that knowledge is worth now (`JobOK`), and what a still
valid revision proves (`HoldsOK`): a worker that holds a slot's revision knows
the identity in it; a cleaner past the call has an acknowledged identity; an
admission that passed its second look has an identity that is counted as
promised from then on (`Committed`); a deletion that is listing will have every
promised identity in its list; once there is a receipt, no admission can pass
any more. `GuestFrames` shows, per shape of step (going on, reading, rewriting
or dropping a slot, writing the event, erasing), that bystanders' conjuncts
survive; `OperationProofs` has admission and deletion, the two operations with most
of the argument; `GuestAccessProofs` has the rest, one lemma for each group of
actions, the induction and the theorems. `DeletionStands` adds a lemma that
only the named actions write the event. `PlacesKept` maps a slot to the
generation in it, and event and receipt to the stage of the deletion; under
`Inv` each action is then a step of `GuestPlaces` or leaves the mapped state
alone, one lemma for each group of actions.

What a guest is promised of a place needs a second invariant, `ClaimInv`, on top
of `Inv`: the history of a claim. Once a cleanup has asked for an erasure no
unclaimed slot carries that identity, so an acknowledgement, however late, is
never of a guest who may still renew; an identity that is being admitted is in
no slot but the one of its admission; whoever is about to claim an expired slot
and still holds its revision is right that it is expired and unreserved; and an
unclaimed place of an event that is not being deleted is neither erased nor
without its index. `HoldersResume` is its last part; `OnlyExpiredAreReclaimed` and
`ErasedAreNotRenewed` follow from it step by step (`PlaceProofs`).

The other inductive invariants are of the same kind. In `EventRegisterProofs`
`InviteInv` says what the copy of a worker that still holds the revision is (the
record itself), that a secret is in one worker's hands until its record is
written, that the undo of a rotation removes an invitation no record names, or
one that was never given, and that the drop removes the one replaced.
`DebtInv` counts: an invitation that admits and is not in force is owed by a
rotation under way, which made or replaced it and will delete it, or it is one
of at most as many as there were failures, and one for a first invitation that
came after a rotation; with nobody at work nothing is owed
(`StraysFromFailures`). In
`RecoveryScheduleProofs` `ClaimInv` says that during a request its controller
alone remembers the record and that the claim lapses after the request;
`BacklogInv` that the tasks not yet attempted are still counted, each once. In
`GuestSessionProofs` `SessionInv` says of each point of each operation which times
its later answer will be covered by: the grace period of the place while there
is one, the moment it was lost afterwards, and that a job older than the
deletion cannot turn into an answer to a later request.

`NobodyStarves` needs a measure, and its invariant, `WaitInv`, says of each task
that is due and each controller how much waiting is still to come: `n` passes
after the one under way, where those `n` have room for all the tasks that are
due before it (`Ahead`) and will be left when the pass under way ends
(`Remaining`), and the time already waited, the rest of this pass (`TimeLeft`),
the `n` passes and one for each failure still to come make up no more than
`MaxWait`. A pass that began when the task was due already takes the next
`PerPass` of its queue off (`Upcoming`), or will when it has scanned (`Credit`). Two more
facts carry this from step to step: the time a pass has used was used by the
attempts it made, so it is not cut short before it has made `PerPass` of them
(`Elapsed`), and a record in its queue that has been replaced since the scan is
due later than the tasks it was to serve (`Known`), so that losing the
conditional write costs them nothing. A failure spends one of the passes that
`MaxWait` reserves for failures. TLC checked the invariant on the instance of the
run, with a bound on `n`, before it was proved.

The attempt corrected the bound. The one first written down gave a pass time for
attempts up to its limit, and counted the wait from when the back-off is
written. For some durations that is too little: the last claim of a pass may
fail for no other reason than that the pass has run out of time, after the scan
and the claim have each taken a store call, and a back-off counts from when the
call was made, up to a store call before it is in the record. `PerPass` now leaves two store
calls out of the limit, `MaxWait` has one more in it, and `PassAssumption` says
that something is left: with a minute for a pass, and store calls that
`SlackAssumption` keeps below fifteen seconds, it is.

Model-checked only: all liveness (`DeletionCompletes`, `ErasureCompletes`,
`ExpiredReclaimed`), which rests on fairness and is out of the prover's reach.

## Not modelled

- The verification of ID tokens (`api/presenter.go`): the OIDC library's; what is
  left compares a prefix, a subject and a group.
- Signing, claims, JWKS and discovery (`issuer/`): cryptography and encoding
  without state. The clock and the failure of `Mint` are modelled.
- Request parsing, body limit, headers, cookie attributes and the views of the
  API: no state, and no decision that another part depends on.
- Reading the environment, key generation and the wiring of `run`: done once,
  before anything is shared. A restart with other limits or durations is not
  modelled; they are constants of an instance.
- The counters and the text of `/metrics`, other than the backlog: they only
  grow, under one mutex. `ListEvents`, `ListSlots`, `GetReceipt`, `ListReceipts` only
  read.
- Records that do not decode: only this program writes the bucket.
- Several clocks. Instants are stored by one process and compared by another,
  and the code makes no allowance for a difference; neither do the models.
- The repository's release tooling.
