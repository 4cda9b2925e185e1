# A verification development of WikiMyLife

WikiMyLife turns a spoken account of how one did something into a card (a
procedure): a client records and uploads audio, an API stores it, a worker
transcribes it, extracts a card and publishes it. This directory holds TLA+ models
of the parts of the program where the order of events matters, TLC instances
that check them, and TLAPS proofs of what matters most for every number of rows,
workers, keys, tokens.

The Italian names are those of the source: a definition called `Confronta` or
`Esaurita` models the function `confronta` or `esaurita`.

## 1. Inventory

One PostgreSQL database (Prisma, READ COMMITTED), one S3 bucket, any number of
API processes and workers, browsers that may be offline, with several tabs.

| Component | State it keeps | Operations | Talks to | Modules |
| --- | --- | --- | --- | --- |
| Ingestion pipeline (`services/ingestion.service.ts`, `infra/PrismaRecordingRepository.ts`) | `Recording`: status, retryCount, nextAttemptAt, updatedAt, transcript, extraction, duplicateOfId; in the worker: the row it holds | `processNext` = recovery of abandoned rows, `claimNext`, transcription, extraction with re-asks, embedding, dedup, `persistProcedure`, `markFailed` | transcription, model and embedding providers; bucket | `Ingestion`, `RecordingLifecycle` |
| Recordings service (`services/recordings.service.ts`) | the same table | upload (`create`), `retry`, `remove`, reads | bucket; the worker through the table | `Ingestion`, `AudioStore`, `HomeScreen` |
| Cards (`services/procedures.service.ts`, `infra/PrismaProcedureRepository.ts`) | `Procedure`: status, texts, visibility, executions, redactions; trash | `update`, `archive`, restore, `deleteForUser`, `emptyTrash`, `addExecution`, redaction proposals | recordings born from, or suspected to repeat, a card | `CardTrash`, `Cards`, `RedactionScreen` |
| Audio objects and sweep (`services/storageSweep.service.ts`, worker `sweepSchedule.ts`, `auth.service.ts` `deleteAccount`) | objects of the bucket; candidates and orphans of a pass | put, delete after the row, `esegui` (pages, blocks, grace) | bucket and database, without a common commit | `AudioStore` |
| Sessions and accounts (`services/auth.service.ts`, `infra/PrismaAuthRepository.ts`, `requireAuth.ts`) | `User`, `RefreshToken` with its family, password hash, `googleSub` | sign-up, login, Google login and link, `refresh` with reuse detection, logout, closing sessions, change of the password, deletion | rate limit; client | `Sessions`, `Accounts` |
| Rate limit (`middleware/rateLimit.ts`, `infra/PrismaRateLimitStore.ts`, worker `pulizie.ts`) | windows and counts | hit, purge | all replicas | `Worker` |
| Worker loop (`apps/worker/src/index.ts`, `sonno.ts`, `sweepSchedule.ts`) | stop flag, timer, batches | poll, sleep, sweep, purge, shutdown | pipeline, sweep | `Worker` |
| Capture and upload queue (`apps/web/src/recording/*`) | IndexedDB queue and drafts; the recorder of a page | record, draft, save, drain, recover, retry, discard, clear | API client | `Capture` |
| API client (`packages/shared/src/api/client.ts`) | access and refresh token, rotation under way | request, one rotation for many 401s, clear | sessions | `ApiClient` |
| Search (`services/search.service.ts`, `search/fusion.ts`) | none | two rankings fused, pages | cards | `SearchScreen` |
| Validation of the extraction (`services/extraction/*`) | none | pure functions | pipeline, cards | `Extraction` |
| Screens of the web app (`apps/web/src/screens/*`, `useAsync.ts`) | what a page has read, what it has under way | reads, gestures, polls | API client | `UseAsync` and one module per screen, `Screens` |
| Login, Google button, router, service worker, mobile shells | a form, a script, a route, a cache | | | none (section 6) |
| Providers, S3 client | none | I/O | | calls of `Ingestion`, `AudioStore` |
| Configuration, composition, routes | none that changes | wiring | | none (section 6) |

What is hard, and what makes each part correct:

* **Pipeline.** Several workers poll one table; each access is a statement of its
  own, long calls lie between them; a worker may die anywhere, and a recovery that
  sees only timestamps must tell the dead from the slow. Correct when a row is held
  by one worker, gives at most one card and no half card, is attempted a bounded
  number of times and always reaches an outcome.
* **Trash.** A deletion reads three lists and then deletes; cards are restored,
  suspected, re-queued meanwhile. Correct when a card goes only from the trash, and
  whole, and no recording claims a card that is gone.
* **Audio.** The object is written before its row and deleted after it. Correct when
  no object a row names, or is about to name, is ever deleted, and an object nobody
  will name eventually is.
* **Sessions.** Rotations, revocations and logins of one account overlap. Correct when
  a family has one live token, and a closed family stays closed.
* **Cards (editing).** Read, compute, write by id. Correct when executions are
  counted, lists never mix, and derived fields belong to the text beside them.
* **Accounts.** Signups, entrances with Google, links and deletions overlap. Correct when
  an account keeps the Google account it was linked to, got it by a verified address, and
  nobody enters the account of another.
* **Capture and queue.** Several tabs share two stores; a page dies anywhere. Correct when
  no second that was written in a draft is lost, nothing thrown away comes back, and on a
  calm device what was put in the queue is sent whole and once.
* **API client.** Many calls fail with 401 together, answers get lost. Correct when they share
  one rotation, none runs twice, and all of them end.
* **Worker and rate limit.** Correct when a stop waits for no timer, an address leaves the
  table in time, and a window is counted twice at most.
* **Screens.** Each reads late, and acts on what it has read. Correct when an older read never
  replaces a newer one, and one hand alone loses nothing, whatever replies are lost.

`PROJECT.json` lists the hazards line by line with the properties that watch them.

## 2. Plan

| Order | Module | Models | State |
| --- | --- | --- | --- |
| 1 | `RecordingLifecycle` | abstract specification: what the pipeline promises of one recording | done |
| 2 | `Ingestion`, `Pipeline_proofs` | queue, claim, stages, failures, recovery, retry, removal, crash | done, proved |
| 3 | `CardTrash` (extends `Ingestion`), `Pipeline_proofs` | archive, restore, delete, empty the trash | done, proved |
| 4 | `AudioStore`, `Server_proofs` | bucket against database | done, proved |
| 5 | `Sessions`, `Server_proofs` | tokens, families, revocations | done, proved |
| 6 | `Cards`, `Cards_proofs` | read-modify-write of a card, executions, redactions | done, proved |
| 7 | `Accounts`, `Accounts_proofs` | signup, Google, proofs of identity, deletion | done, proved |
| 8 | `Capture`, `Capture_proofs` | recorder, drafts, queue, several tabs | done, proved |
| 9 | `ApiClient`, `ApiClient_proofs` | one rotation for parallel 401s, clears, two tabs | done, proved |
| 10 | `Worker`, `Worker_proofs` | loop, sleep, sweep, stop; windows of the rate limit | done, proved |
| 11 | `Extraction` | validation and normalization, as pure operators | done, used by `ReviewScreen` |
| 12 | `UseAsync`, eight screens, composed by `Screens`; `Screens_proofs` | the pages of the web app | done, proved |
| 13 | `Screens_proofs` | the steps of a review, the pages of the list and of a search, the redaction | done, proved |

Further abstract specifications worth stating: a store of audio ("present while named")
implemented by `AudioStore`; a hand-over of recordings implemented by `Capture`.

## 3. How the code is modelled

* **One action, one access.** Node runs one callback at a time, so local work
  between two `await`s is atomic and everything else may run at an `await`. An
  action is one access to the database (or bucket) with the local work and the
  external calls that follow it.
* **READ COMMITTED.** A SELECT and the statement that uses what it read are two
  actions. A statement on one row by a condition (`updateMany` with `id` and
  `status`) is one atomic compare-and-swap, as the row lock makes it. A statement
  on many rows sees the rows committed when it starts and asks its condition again
  on each row it locks: where that matters (`Revoke`, `RevokeEnds`) it is two steps.
* **Time** is discrete and relative: what is left before `nextAttemptAt`, how long
  since `updatedAt`, how long since a clock was read. `Tick` moves all of them.
* **External calls** answer, fail for good or fail for now; what they return is
  abstracted to accepted or not.
* **Histories** (`born`, `requests`, `seen`, `history`) are read by properties only, except
  that `requests` bounds how many retries are made.
* **A browser** runs one tab to its next `await`. A call is *sent*, perhaps *handled*, perhaps
  *answered*: its request or its reply may be lost, and a call that its page has stopped
  waiting for may still be handled later.

### `Ingestion`

`row` is the `Recording` table, `card` the card each recording produced, `born` how
many, `worker` what each process holds in memory.

| Action | Code |
| --- | --- |
| `FindStalled`, `ReleaseStalled` | `rilasciaInterrotte` with `findStalled` and `releaseStalled`, whose UPDATE asks the condition again |
| `FindNext`, `Claim` | `claimNext`: `findFirst`, then `claim` by compare-and-swap |
| `Transcribe`, `SaveTranscript`, `SaveExtraction` | the stages of `run`, with the verdict of `definitivo.ts` on each error |
| `FindMostSimilar`, `MarkDuplicate`, `PersistProcedure` | dedup and publication |
| `StageThrows`, `MarkFailed` | `process` catching a `StageFailure`, `ricaduta` |
| `Crash` | the process dies holding a row |
| `Create`, `Requeue`, `Remove` | `POST /recordings`, `POST /:id/retry`, `DELETE /:id` |

Two assumptions deserve a word. `MaxSilence <= SOGLIA_INTERROTTA`: the timeouts
of the external calls keep the silence of a live worker below the threshold of
the recovery (a unit test of the repository computes the sum). `Tick` enforces it
on live workers only. `CommitMayBeLost` tells whether the reply to a COMMIT may be
lost. When it is, the worker takes the published card for a rollback and puts the row
back in the queue: `CardIffExtracted` and the refinement fail, so `Ingestion_replicas`
and the theorems on cards assume that no reply is lost. `Ingestion_single` and
`CardTrash` let it happen: the next attempt finds the card by similarity and is parked
as its duplicate (`NoTwinCards`).

### `CardTrash`

Extends `Ingestion` with `purge` (what `deleteForUser` has read of each card) and
`emptying` (the batch of `emptyTrash`). The SELECTs are one action and the DELETE
with what follows another: from the DELETE on, the rows are locked.

### `AudioStore`

`bucket` and `age` are the objects, `row` the recordings that name them, `upload`
the request that uploads each key, `pending` the objects to delete after their row,
`account` the transaction of `deleteAccount`, `sweeper` the passes: `ListPage`
follows a cursor that names a key, `Confronta` asks the database about a block,
`DeleteOrphan` deletes one orphan. `MaxUpload < GRACE`: a request lives less
than the grace of the sweep (a day against timeouts of minutes). Only the mode
that deletes is modelled: the other two count and write nothing.

### `Sessions`

`token` is the `RefreshToken` table, `password` the version of the password,
`request` where each request is. Every token ever issued may be presented again by
anybody, which is how a reuse happens. `changePassword` holds the row of the user
locked from its update to its COMMIT, hence the guard of `Revoke`. The expiry of
tokens is left out: it only removes behaviours (an expired token is refused).

### `Cards`

`card` is one `Procedure` with its child rows and executions, `request` what each
request has read and is about to write. `Update` reads and checks, `DeleteRows` is the
DELETE of one list, which sees the rows committed when it starts and waits for
whoever is deleting the same ones, `CommitUpdate` the INSERTs and the UPDATE, which
become visible together. `OrdineTaken` is the unique index on the number of a step;
costs have none, and stand also for prerequisites, pitfalls and references. A redaction reads
the card twice, once to check the confirmations and once in `aggiorna`; the confirmations of a
text that is unchanged are found again, those of one that changed may be (`StillThere`): which,
is the matter of `RedactionScreen`. A text is one of three values, a list its rows by author and number, a cost is worth 1.

### `Accounts`

`account` is the `User` table, `session` what each request opened, `request` where each
request is and what it has read. An entrance with Google is up to four accesses (by `sub`,
by address, `createUser` or `linkGoogle`, the read-back), between which others create, link
and delete; the two unique indexes make an INSERT or an UPDATE fail. A proof (`Prova`) is a
password or a token of Google. Fields that no property tells apart are left out; what becomes
of a token afterwards is in `Sessions`.

### `Capture`

`draft` and `queue` are the two IndexedDB stores, shared by the `page`s; `recorder` is the
memory of one recording: pieces being read, writes in the *fila*, the discard behind them.
A page opens (`Open`) and recovers the drafts that were silent (`Recover...`), drains
(`DrainList`, `Upload`, `Remove`, `MarkFailed`), records (`StartAsk`, `StartGranted`, `Emit`,
`Pezzo`, `Append`, `Toss`), stops or cancels, writes again what the queue refused (`Riscrivi`),
throws it away (`Scarta`), empties the two stores (`SvuotaCoda`), and dies at any point
(`Close`). `WritesAreQuick` is an assumption about time that the code leaves to the disk: the
writes of a draft end before a person answers the notice that the queue refused. Without it
`Riscrivi` and `Scarta`, which discard beside the fila and not at its end, may leave a piece
behind.

### `ApiClient`

`token` is the server, `stored` the `localStorage` that tabs share, `access`, `flight` and
`shown` the memory of each tab, `call` the calls on their way. `Handle` is the whole handler
(its accesses are in `Sessions`); `Recover` is what a call does with a 401: join the rotation
under way or begin one. `RotationFailed` ends every call that waited for it.

### `Worker`

`worker` is the loop, `Elabora`, `Pulisce`, `Spazza` and `Wake` the ends of its awaits, `Stop`
the signal, `Kill` a death; what a job does is in `Ingestion`, what a pass does in
`AudioStore`. `bucket` is the window of one key, `req` the request each replica has in hand.
Clocks differ by `MaxSkew`; a request reaches its `hit` within `MaxDelay`, and a round of the
loop lasts `MaxRound` at most: assumptions, by which the two bounds are stated.

### `Extraction`

`ValidateExtraction` and `NormalizeSteps`, pure operators on an abstract answer: whether it has
the form of the contract, the length of its title, the numbers of its steps, its costs, its
confidence and its kind. `ReviewScreen` starts from the card they make.

### The screens

`UseAsync` is the hook every screen reads with: a value, the reads still listened to, and what
`ricarica` (loud) and `aggiorna` (quiet) do to them. A screen module has a `server` (what the
API would answer now, changed by others too) and a `page` (hooks, local state, calls under way).
`Screens` composes them as the router does: one screen at a time, from its mounting on.

| Module | Screen | Left out |
| --- | --- | --- |
| `HomeScreen` | the list with `PendingRecordings.tsx` above it: polls, retry, deletion, `onSparita` | filters and pages of the list |
| `ListScreen` | `ListScreen.tsx`: scope, categories, pages | the section above (a caller of `ricaricaTutto`) |
| `TrashScreen` | `TrashScreen.tsx`: restore, delete, empty, pages | what a deletion does inside (`CardTrash`) |
| `AccountScreen` | `AccountScreen.tsx`: devices, password, deletion, the proofs they ask | the proof field of the deletion: its press carries one |
| `DetailScreen` | `DetailScreen.tsx`: categories, outcomes, the voice | the reading of the other fields |
| `ReviewScreen` | `ReviewScreen.tsx`: status and one more step | the title, saved as the status is |
| `SearchScreen` | `SearchScreen.tsx`, `search.service.ts`, `fusion.ts`: two rankings, their fusion, depth and pages, with a channel that may not answer | the rankings are inputs |
| `RedactionScreen` | `RedactionScreen.tsx`, `redaction/*`: report, confirmation, application span by span | a word is a unit; findings of equal length do not overlap; the cap of 200; a text stands for any field; boxes are ticked at the press |

## 4. What the runs check

| Run | Instance | What it shows |
| --- | --- | --- |
| `Ingestion_replicas` | 2 workers, 2 similar rows, 2 attempts, 2 answers, 1 retry | one worker per row, one card per recording, recovery is not theft, refinement of `RecordingLifecycle` |
| `Ingestion_single` | 1 worker, fair, 3 attempts, no symmetry | no twin cards, every stored recording reaches an outcome |
| `CardTrash` | 1 worker, 2 rows, batch of 1 | deletion touches the trash only and is whole; nothing says it became a deleted card |
| `AudioStore` | 1 sweeper, fair, 3 keys (1 foreign), block 2, page 1, 2 faults | named audio exists; what vanishes is an orphan of ours; orphans are swept |
| `Sessions_safety` | 5 requests, 4 tokens, 3 families | one live token per family, closed stays closed |
| `Accounts` | 4 requests, 2 rows, 2 addresses, 2 passwords, 2 Google accounts | a link is for life; a session opened with Google is of the account linked to it |
| `Cards` | 3 requests, 5 patches, 3 outcomes on 2 days, 2 redactions | executions are counted, steps never mix, freshness comes from an execution that worked, an edit nobody overlapped repairs what races left |
| `Capture` | 2 pages, 1 recording of 2 pieces, 2 attempts, 1 fault, 2 openings | seconds written in a draft survive, a discard is the last write, a calm device sends all it queued, once |
| `ApiClient` | 2 tabs, 3 calls, 7 tokens, 1 loss, fair, no symmetry | no handler runs twice, a refused proof keeps the session, a lone tab never trips the detection of reuse, every call ends |
| `Worker` | 2 replicas, windows of 3, 1 request each, skew and delay of 1, 1 fault | a stop waits for no timer, addresses leave the table in time, two windows at most |
| `Screens` | eight screens, pages of one or two, 2 calls at a time, one change elsewhere | no older read wins, a card born of a recording is listed, the question on a row outlives the polls, the section catches up, a failed deletion keeps the queue, one hand loses no category and no step, pages neither skip nor repeat, a redaction takes away what was confirmed, and a fresh report applies |
| `Screens_stale` | the redaction alone | violation, below |

`Screens_stale` ends in a violation of `OnlyWhatWasSeenGoes`. A comment of
`redaction/proposals.ts` (320-322) says that what is deleted is exactly what the user has
looked at, or nothing. The id of a certain proposal is field, position and kind, without the
value: when another device puts another datum of the same kind at the same place between the
report and the confirmation, that one is removed, which nobody looked at. The trace is a
report, an edit, a confirmation.

**Why the bounds are enough.** Every property of the pipeline is about one row and at
most two workers, or two rows and a card; two of each give every overlap of two, and
the theorems cover the rest. Three attempts exercise the first, a middle and the
last, with two different delays. `SOGLIA_INTERROTTA = 1` separates "silent" from
"stalled" by the one tick a recovery may lag. A quota of one row per round with two
rows makes the quota bite. For the sweep, three keys with pages of one and blocks
of two give a block across pages and a remainder; several sweepers are covered by the
theorems, which hold for any number. For a card, two requests overlap and a third one
finds what they left. Four tokens and three families give a chain of two rotations beside
another family. Four requests on accounts give a row, its two would-be owners and a deletion.
Two pieces give a first and a last; the second page recovers and drains what the first is
still writing. Three calls in two tabs give two that share a rotation and one that clears or
enters. A window of three with skew and delay of one leaves a stretch of one moment that both
windows touch. The rankings, texts and answers of `MC_Screens` are chosen one for each case:
a tie, a card cut off by the depth, two data one inside the other, steps misnumbered with a tie.
`MaxRequests`, `MaxLag`, `MaxPass`, `MaxFaults`, `MaxOpens`, `MaxCalls`, `MaxTokens`,
`MaxBacklog`, `MaxGestures`, `MaxTouched`, `MaxEdits`, `MaxGone` and `MaxApply` are bounds
of the model, named as such where they are declared.

**Fairness.** `FairSpec` of `Ingestion`: weak fairness of each worker's next step and of the
clock. The loop of the worker polls for ever, every external call has a timeout, and a
process that dies is restarted by its supervisor; nobody is obliged to upload, retry,
remove or crash. `AudioFairSpec`: a request that wrote an object ends (its row, an
error or its death), the worker comes back to the sweep, and the clock runs; an
aborted pass or a refused deletion happens at most `MaxFaults` times, because a
sweep that fails for ever sweeps nothing. `FairSpec` of `ApiClient`: the server answers or the
connection breaks, and a tab handles what arrives. `ScreensSpec`: the timer of
`PendingRecordings` ticks while it is set (weak), and its reads, asked again at every tick,
are now and then served and answered before the next tick stops listening to them (strong);
an answer always slower than five seconds would starve the section for ever, and the code has
nothing against it.

**Deadlock** is checked in `Ingestion_replicas`, `Ingestion_single`, `CardTrash` and
`AudioStore`. Elsewhere requests, calls, faults or openings run out, after which nothing is
left to do, and the cfg says so.

### What the models found

Each was seen as a counterexample of a property that was stated too strongly, or read off the
code while modelling it. They need two actors in a short window unless said otherwise.

*Server.* A new attempt always transcribes again, although the transcript is stored
(ingestion.service.ts:478; its comment at 564-567 says that the two models are not paid again). With two workers
`claim` accepts `ESTRAZIONE_FALLITA` without looking at `nextAttemptAt` again, and `NoTwinCards`
fails (dedup and publication are two accesses). `deleteForUser` re-queues its suspects by
id (PrismaProcedureRepository.ts:470), also one that was retried and claimed meanwhile:
`OneWorkerPerRow` fails in `CardTrash`; a suspicion raised between its SELECTs and the DELETE
(446) is left without its card. The deletion of an account does not return the key of an
upload that ends between the list and the DELETE (PrismaAuthRepository.ts:299, against
AuthRepository.ts:73); the sweep takes its bytes. The UPDATE of a revocation does not see a token
inserted while it runs (PrismaAuthRepository.ts:133, against auth.service.ts:463). A login that
verified the old password opens its session after the change (auth.service.ts:295 and 480). Two
overlapping patches leave a public card of a client (procedures.service.ts:313 and 149), the
costs of both under the total of one, an older `ultimaVerifica`, a card out of the trash. The
loser of two signups, or first entrances with Google, for one address gets a 500 and not
`EMAIL_TAKEN`: nothing maps the error of the unique index. A redaction overwrites what was
written to its fields between its read and its write.

*Worker.* A purge waits for the batch and the pass before it; `processNext` that throws with
nothing done counts as an empty queue; an old `at` opens a shorter window; a `hit` the database
does not answer lets the request pass uncounted.

*Capture.* A page that dies between `enqueue` and the discard leaves both the row and the draft:
the recovery puts the draft, which may be shorter, over the full row (CaptureProvider.tsx:404), and
a second that was on the disk is lost, although the comment at 428 says that from there the audio
is safe ("Da qui in poi l'audio e' salvo"). So `DraftedSecondsSurvive` answers for the seconds of
the draft (`seen.written`), and `CalmDeviceSendsAllOnce` for all those of the row (`seen.saved`),
as long as no page dies there. Two starts while the microphone is
being granted share one session; a recording a second tab takes for dead is uploaded from its
draft; the queue is not of one account; `svuotaCoda` may race a recovery, which puts rows back.

*API client.* Any rotation that fails, for the network too, empties the storage (client.ts:63-65).
A rotation answered after a logout stores a token again; the tab that loses a rotation clears
the token of the one that won; a failed one may clear the token of a login or of a change of
password that crosses it; the other tab still shows `attiva`.

*Screens.* Home: a recording that ends between the read of the list and the first read of the
section is in neither; a row shown failed whose retry lost its reply is never read again; a loud
read that fails hides the section and stops the polls. List: after `ricaricaTutto`, or while the
chips are read, the category in the query may have no chip lit (against ListScreen.tsx:144-157).
Trash: after the last card of a later page goes, "Il cestino e' vuoto" stands over a total that is
not zero; the confirmation of `svuota` stays armed while the pages change. `onSvuotato` is a closure
of the render in which the red button was pressed (TrashScreen.tsx:132-144): pressed on a later page
and answered on the first, where "Precedenti" read before the deletion, its `setOffset(0)` changes
nothing, no read follows, and the deleted cards stay on the screen until the next one. The model does
the same: `Gesture.prima` is what the closure holds, `nonRilette` the cards so left, and
`OwnDeletionsStayGone` names them as its exception. TLC refutes it without. Account: while one
closure is under way others can be pressed with the same proof; a change of the password closes
sessions the list still shows. Detail: another section's reading mounts the categories again in
the middle of a call, so that its own tag may be lost or an execution recorded twice. Review: what
others change in the steps between the read and the saving is overwritten; a saving given up may
be handled later. Search: a deletion, or a channel that falls silent, between two pages makes one
repeat or skip; a space added to the text goes back to page one. Redaction: the error of a refused
application is lost, because the report is read again and unmounts it.

## 5. What is proved

Every theorem holds for any sets and any bounds that the assumptions of its module allow; a
hypothesis beyond those is named below. An invariant is never inductive as it stands: for each
group, this is what had to be added, and why the steps keep it.

### `Pipeline_proofs`: `Ingestion` and `CardTrash`

For any finite set of rows and any set of workers, any caps, delays and thresholds:

* `TypeCorrectness`: `Spec => []TypeOK`.
* `ExclusiveProcessing`, `HeldInFlight`: `OneWorkerPerRow` and `HeldRowIsInFlight`. The
  invariant is `Exclusive`: well-typed, one worker per row, and every row
  that is held is *shielded* (in flight, silence at most `MaxSilence`). The shield is what
  makes the claim of a second worker, `/retry`, DELETE and the recovery pass by: each asks
  for a status, or for a silence, that a shielded row does not have.
* `RecoverySafe`: from the same invariant, the step that puts a held row back in the
  queue is one of its holder.
* `AtMostOneCard`, `NoHalfCard`, assuming `~CommitMayBeLost`: `Published` adds that a row
  that may still be worked on has no card yet. `Effect` says once what any step does
  to the statuses and to `born`: nothing, one move of one row, or one publication.
* `Refinement`, under the same assumption: every step maps to a step of
  `RecordingLifecycle` or to a stutter.
* `OneWorkerLeavesNoTwins`: `NoTwinCards`, also when the reply to a COMMIT is lost, assuming
  `OnlyWorker` (the deployment runs one: `numReplicas = 1`, apps/worker/railway.toml:50-54)
  and `SimilarIsMutual`. The invariant adds what the search for a similar card leaves known
  until the publication (`SearchHolds`): with one worker nobody publishes in between. Of two
  workers it is false (section 4).

Then `CardTrash`, with the same lemmas: `TrashTypeCorrectness`, `DeletionIsFromTrash` and
`ExtractedKeepsItsCard`. The invariant adds to the types that a recording with a card was
published (`CardsWereBorn`) and that an open deletion has
its own recording in its list as long as that recording is there (`PurgeKnowsItsRow`).
`PipelineIsGentle` says once what a step of the pipeline may do to a recording and its
card. It does not rely on `OneWorkerPerRow`, which a deletion breaks (section 4).

### `Server_proofs`: `Sessions` and `AudioStore`

* `SessionTypeCorrectness`, `OneLiveToken`, `ClosedStaysClosed`, for any tokens,
  families and requests. The invariant adds that an issued token has a family and that a
  request about to rotate names an issued token (`TokensKnown`).
* `AudioTypeCorrectness`, `NamedAudioIsKept`, `OnlyOrphansAreDeleted`, for any
  keys, sweepers, pages and blocks, from `GraceAssumption` (`MaxUpload < GRACE`). The
  invariant says in which order an upload goes (`UploadsInOrder`) and that whatever a
  request, the deletion of the account or a pass has in hand to delete is *doomed*: no
  row names it and its upload is over (`InHandIsDoomed`). Doomed is for ever, which is why a
  comparison made long before the deletion is still right.

### `Accounts_proofs`

`AccountsTypeCorrectness`, `GoogleSubStays`, `GoogleSessionsAreOfTheSub`,
`LinkedByTheVerifiedAddress`, `DeletionsAreProved`, for any accounts, addresses, Google accounts
and requests. The argument is in two parts. `RowsStay`: no step
changes the address of a row, nor its `sub` once it is there, not even its deletion. So what a
request has read stays true: `Known` adds, for each place a request may be at, what it knows
there (`Path`) and what its session says (`Entered`). The last two theorems have no run of
their own; they were checked on the instance of `Accounts` before they were proved.

### `Cards_proofs`

`CardsTypeCorrectness`, `EveryExecutionCounts`, `FreshnessHasAReason`, `LoneEditsHeal`,
`LoneExecutionsKeepFreshness`, `OneHandWrites`, for any requests, patches and days. The invariant
is `Serial`: whoever wrote a row or an execution of the card has committed (`Settled`), and of the
rows a request under way read, those of a list it has already replaced are gone or are the ones
its DELETE took (`WritingOK`). The second holds because a row that is gone never comes back;
without it nothing says that an edit which met no other leaves only its own rows, and the texts
derived from them would not be theirs. `OneHandWrites` is `StepsOfOneHand`: the unique index on the
number of a step keeps the steps of two overlapping edits apart, which nothing does for costs.

### `Capture_proofs`

For any pages, recordings, pieces and faults:

* `CaptureTypeCorrectness`.
* `SecondsSurvive` and `DiscardsAreLast`, assuming `WritesAreQuick` (section 3). The pivot is
  `Shut`: a recorder that is closed and has no write left never writes again. `Orderly` says that
  only such a recorder is silent, found by a recovery, or about to be discarded; `SurvivalInv` that
  whatever replaces, discards or removes a copy has one in hand, or knows of one on the server, that
  is whole; `Finished` that what was discarded is empty and shut. `Moves` says once what a step may
  do to the copies of a recording and to what a page has in hand; that every action is such a move
  is proved action by action, and the invariants then follow from `Moves` alone.
* `CalmSendsAllOnce`, under the same assumption: a device with one page at a time, that lost nothing,
  keeps every second it put in the queue until the recording is given, and sends it once. The invariant `Calm` is about what a recording can still become: once
  it has a row, a place in a round or an upload behind it, it is `Gone`: its draft is empty or
  about to be discarded, no recovery has it in its list, nobody is asked what to do of it. So it is
  never queued again; and once sent, it is in no round, and its row is the one being removed. One
  page at a time is what makes "the round" and "the recovery" single. That all of it is sent is
  `SavedInv`: a recording with a row is not found again by a recovery, so nothing shorter replaces it.

### `ApiClient_proofs`

For any tabs, calls and tokens:

* `ClientTypeCorrectness` and `RunsOnce` (`HandlerRunsOnce`), from `Sane`: a call that may still
  reach its handler has not reached it in this round, and a second round begins only with a 401,
  which the server gives before the handler.
* `BodyRefusalIsHarmless` (`BodyRefusalKeepsSession`).
* `LoneTabIsSafe` (`LoneTabNeverTripsReuse`): as long as no reply was lost and one tab was
  opened, the tab never presents a spent token. The invariant `LoneInv` is about the tokens within
  reach of the tab. `Separate`: none is in two places, of the storage, the rotation under way and
  the answers that bring one. `NotSpent`: none that an answer brings or a rotation carries is
  spent, and the one in the storage is only while the answer with the next one travels.

### `Worker_proofs`

`WorkerTypeCorrectness`, `ExpiredAddressesGo`, `StopsPromptly` and `LimitHolds`, for any replicas,
intervals, windows, skews and bounds. `Punctual` measures, at each place of the loop, how long an expired row may
still have to wait (`Patience`): the interval of the purge, the round under way and the purge
itself. The bound it gives is `LongestWait = PULIZIA_IP_OGNI_MS + 3 * MaxRound`.

`LimitHolds` is `TwoWindowsAtMost`: of `2 * Max + 1` requests let through, the first and the last
are at least `Stretch = WindowMs - MaxSkew - MaxDelay` apart. The history keeps how long ago each
of the last `2 * Max + 1` was let through. The invariant `Spaced`: the open window began with the
earliest request it let through, by a clock late by `MaxDelay` at most (`BeganThen`); and what came
before the window before it is a `Stretch` old. Whoever ends a window, another replica or the
purge, does it by a clock fast by `MaxSkew` at most, so a `Stretch` or more after it began: all that
came before the window is then that old (`ExpiredIsOld`), and the next one begins with `Spaced` true.

### `Screens_proofs`

For any devices, recordings, cards, queries, categories, stories, rankings and texts, and any
bound on what is under way. The composition changes nothing: one screen is mounted at a time,
and unmounting forgets.

*Late answers.* `NothingOldIsShown` (`NoOlderReadWins` on the five screens that read with the
hook), `NoneIsMissed` (`NoCardIsMissed`), `QuestionsOutlivePolls`, `QueueOutlives`,
`LoneHandKeeps`. The argument is in two parts. The hook (`Tidy`): it listens to one read, of the
question asked now, made after the last gesture that was answered. The server: what a screen was
told of it is still so when that read is served, which is one invariant for each screen
(`TrashInv`, `ListInv`, `SearchInv`, `AccountInv`, `DetailInv`, `HomeInv`). For the trash it is about
the deleted cards after which the page has asked for something: those of an emptying answered where
nothing is asked (section 4) are in `nonRilette`, and every new question takes them out of it.

*The steps of a review.* `TheReviewLosesNoStep` (`LoneHandLosesNoStep`). Counting is an order:
the place `Place` gives to a step is one to one and follows the numbers
(`NumbersKeepTheOrder`), so `NormalizeSteps` loses and doubles nothing. The invariant `ReviewInv`
adds that as long as nobody else writes, the card, what the page has read of it and what it is
saving are each `Faithful`: first the steps of the story, then notes, each once, and those that
were saved among them.

*Pages.* `LeafingMeetsEveryCardOnce` (`PagesNeitherSkipNorRepeat`). In the list (`LeafInv`) the rows
of a page are those whose places are between two multiples of its size. In a search (`SeekInv`)
there is a ranking first: the scores are sums of two fractions, compared by cross products
(`GreaterIsAnOrder`), so the fusion puts every card of the two channels in exactly one place
(`TheFusion`), and the sort inside a page moves no card to another one (`TheSortKeepsTheRows`). Then
the pages that were met, of one question on the same cards, are stretches of one ranking, each
between two multiples of the size of a page (`Leafed`).

*The redaction.* `WhatIsShownApplies` (`FreshReportApplies`) and `NothingElseIsErased`
(`OnlyTheConfirmedGoes`). `GreedyKeepsApart`: what the detectors and the model are left with never
overlaps, so each id finds one stretch again, and two ids never the same
(`ReportApplies`). `StretchErased`: when the stretches that start later are erased already, all
that comes before the end of the next one is where it was; replacing it keeps what is told of the
rest. `RedactionsErase` is the induction over the places of the text, from the last to the first;
in the other direction its first step is false, which is the mutant of the run. `RedactionInv` adds that
what a report shows is the report of some row, and that who is about to write holds the patch of
the row it read.

Those two need an induction over data, on functions defined recursively. The library states
induction with an operator as a parameter, which no installed prover instantiates; what it says
of well-founded sets (`WFMin`) has none. So `Smallest` proves that a set of naturals has a least
element, `Induction` states induction for a set, and `Iterates` that a function told step by step
exists, which is what unfolding a recursive definition asks for.

The assumptions on the constants are those of `Screens.tla`: sizes and depths are positive; the
marks for "nothing" are no recording, card or device; the processing of a recording ends in
one of the three ways the home knows (`Guasti`); no two steps of a story have the same words, which stand for the step; a
card has an id of its own; a channel answers a card once; a text is words, and what is looked for
in it is finite and never of no word.

Some definitions have a form that can be reasoned about: `TrashScreen`, `ListScreen` and
`SearchScreen` keep the order of the cards as a place of each one, not as a sequence that is sorted;
`RedactionScreen` takes the first free stretch until none is free, and goes through the places of
a text, where the code sorts and then walks.

### What is checked by TLC only

Liveness (`EverythingSettles`, `OrphansAreSwept`, `EveryCallSettles`, `SectionCatchesUp`): fairness is
out of the prover's reach. Every other property of a run that passes is stated by a theorem.

## 6. What is not modelled, and why

* Login, router, Google button, service worker, mobile shells: one call under way behind a
  form, the choice of a screen, a script and a cache of other parties. Reading them showed that
  a script of Google that loads without `google.accounts.id` is never asked for again
  (`google.tsx` resets its promise on an error only), that its token goes to the last button
  pressed, and that the shell the service worker keeps names no hashed asset, so that after a
  single visit an opening off line has a page without its script.
* Configuration, composition, routes, seed and prompts: read once at start. `CORS_ORIGINS=","`
  yields no origin, and `TRUST_PROXY_HOPS=""` is zero.
* The command-line sweep (`cli/sweep.ts`): the same `esegui` by hand, which lists unless told to
  delete. `--giorni` accepts any positive fraction: below `MaxUpload` the assumption
  `GraceAssumption`, and what is proved from it, does not hold for it.
* Signatures of S3 requests, HTTP and model providers: I/O; they appear as calls that
  answer, fail or time out.
* Contents of transcripts, cards and embeddings: the models keep the verdict on them
  (accepted, similar), never the text.
* The expiry of tokens: it only removes behaviours.
