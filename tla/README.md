# A specification of swosh

swosh makes short links that open the Swish app with a payment filled in. It is
one Go process in front of one PostgreSQL database: a public site where anyone
creates and opens links, admin pages where links are edited and deleted, and a
background job that deletes links that have expired. This directory holds TLA+
modules that model it, configurations for TLC, and proofs for TLAPS.

Paths below are relative to the repository.

## Inventory

| Component | State | Operations | What makes it correct |
|---|---|---|---|
| Link table (`internal/db/sqlc/swosh.sql.go`, `models.go`) | one row per link, by id | `CreateSwosh`, `GetSwosh`, `UpdateSwosh`, `DeleteSwosh`, `DeleteSwoshes`, `DeleteExpiredSwoshes`, `TouchSwosh`, `ListSwoshes` (`ImportSwosh` only in tests) | an id has one link and a link one id; a link goes only if it was deleted or expired |
| Create API (`internal/web/create.go`, `web.go`) | nothing but the request; two counters | `POST /api/create`: decode, `validate`, `insert` with up to `createAttempts` ids | what is stored is what was asked and within the limits; a request ends; counted means created |
| Public pages (`web.go`: `preview`, `redirect`, `qr`) | nothing but the request | `lookup` and `touch` | an expired link is not served; the public's visits are recorded, admins' are not |
| Admin edits (`admin.go`) | nothing but the request | `adminUpdate`: look up, `params`, `UpdateSwosh`, log | no edit loses, doubles or revives a link; what the form leaves out stays |
| Admin deletions (`admin.go`) | nothing but the request | `adminDelete`, `adminDeleteMany` | what is named goes, nothing else |
| Expiry job (`internal/expiry`) | a timer; one counter | `Run`, `Sweep` | expired links go in the end, others do not |
| Users (`internal/auth/auth.go`, `users.sql.go`, `cmd/swosh/cmd_admin.go`) | the users table | `Provision`, `CreateAdmin`, `Login` | a start leaves users alone; a replaced password is dead |
| Sessions (`internal/web/authn.go`, `internal/auth/session.go`) | a signing key; cookies in browsers | `login`, `logout`, `authenticate`, the `admin` middleware | a session ends when it should; a form acts in the name it was shown to |
| Admin pages (`admin.go`: `adminList`, `adminSingle`) | none | read and render | |
| Admin script (`static/js/admin.js`) | filter, checked boxes, the ids in the delete dialog | bulk selection, delete with `fetch` | only links that are seen are deleted; an error names what failed |
| Form script (`static/js/swosh.js`) | the form, the error or link shown, the recent numbers in memory and in `localStorage` | fill, submit, reset, remember and forget numbers | the link shown is told as it was stored; the page refuses nothing that the server takes |
| QR codes (`internal/swish/qr.go`) | an LRU cache of 1024 pictures | `qr`, `PNG` | the code shown is that of the payment the link stood for; failures are not kept |
| Serve lifecycle (`cmd/swosh/cmd_serve.go`) | two servers and the job in an errgroup | start, signal, graceful shutdown, exit code | one failure stops all; requests in flight have ten seconds, and exit code 0 means it was enough and no server gave up |
| Migrations (`internal/db/migrate.go`) | the schema's version and whether it is dirty, in the database | `Migrate` | the version is that of the schema; nobody serves on an older schema than that of their build |
| Ids, Swish URIs, languages, themes, templates, configuration, health check | none that changes | formatting, reading | |

How they interact: every request is a goroutine of `net/http`, and the expiry job
is one more. They share nothing in memory but counters and the QR cache; they meet
in the database, each by single statements and without transactions. So all that is
hard about links comes from what happens *between* a handler's statements:

- `adminUpdate` reads a row, checks the form against it, and updates by id later;
- `lookup` reads a row and a clock, then the user, then the clock again, and then
  writes by id;
- `insert` tries one id after another while others take and free ids;
- `Sweep` reads a clock and deletes by it later;
- a login checks a password and issues a cookie later, and the cookie is used much
  later;
- statements fail, or succeed with their answer lost; the process stops at any point.

Elsewhere it comes from state that outlives the step that read it: the QR cache
answers for links that are edited meanwhile, the scripts of the pages go on after an
`await` with a page that is no longer the one that sent the request, two tabs share one
`localStorage`, and several instances that start at once share one schema.

Every such place is listed in `PROJECT.json` under `hazards`, at its line, with the
properties that would catch it going wrong.

## Plan

Done, in this order:

1. The link table and everything that works on it (`LinkTable` to `Swosh`), against
   an abstract specification (`LinkLife`), with proofs (`SwoshProofs`).
2. The validation of a create request, on its own (`MCCreateRequest`), with proofs.
3. Users and sessions (`Users`, `Sessions`), with proofs.
4. The script of the admin list (`AdminPage`), with proofs.
5. `QRCache`: the cache in front of Swish, its key, its size and its failures, against
   an abstract specification without a cache (`QRPromise`), with proofs.
6. `Lifecycle` on top of `Migrations`: start, shutdown and the schema, for several
   instances at once, with proofs.
7. `CreateForm`: submit, reset and the recent numbers of `swosh.js`, with proofs.

Left, in this order:

8. `DeleteSwoshes` and `DeleteExpiredSwoshes` row by row (see the first decision below).
9. The copy and share buttons of `swosh.js`, with the clipboard as a step of its own.
10. The date picker of `admin.js`: local times and daylight saving, as a conversion.
11. The choice of a language and a look by cookie and header (`i18n.go`, `theme.go`).
12. `ImportSwosh`, as soon as something other than tests calls it.

## Modules

| Module | Models | Notes |
|---|---|---|
| `Columns` | column values | a time is a number of ticks; `Second` ticks make a second, so times can have a fraction that forms drop |
| `LinkTable` | the table, its statements, the clock, `Faults` | one statement is one step |
| `CreateRequest` | `createRequest`, `validate`, `newSwosh` | operators only; a phone number and a message keep what `validate` finds out about them |
| `CreateLink` | `create`, `insert`, the two counters | `CreateReject`, `CreateAccept`, then one `CreateInsert` per id tried |
| `VisitLink` | `lookup`, `touch` and the three pages | `VisitGet` → `VisitCheck` → `VisitUser` → `VisitRecord` → `VisitServe` |
| `AdminEdit` | `adminUpdate`, `params` | `EditLookup` → `EditParams` → `EditStored` or `EditRefused` |
| `AdminDelete` | `adminDelete`, `adminDeleteMany` | the request, then the statement |
| `ExpirySweep` | `Run`, `Sweep` | `Starting` until `Run` sets its timer (`RunStart`); then, whenever it fires, the clock is read and the statement follows |
| `Swosh` | all of these on one table, time and restarts | the properties of the service |
| `LinkLife` | nothing in the code: what the service promises | the abstract specification |
| `Users` | the users table, `CreateAdmin`, `Provision`, `Login` | |
| `Sessions` | `login`, `logout`, `sessionUser`, `authenticate`, `admin`, `Signer` | `LoginCheck` → `LoginDone`; `CallStart` → `CallUser` → `CallBasic` → `CallAct` |
| `AdminPage` | `setUpFilter`, `setUpDelete`, `setUpBulk` of `admin.js` | one action per event listener; the handler of Delete is two, before and after its await: `Confirm`, then `Deleted` or `Failed` |
| `QRCache` | `qr` of `web.go`, `PNG` of `qr.go` | `QRLookup` → `QRHit`, or `QRMiss` → `QRFetched` or `QRFailed` → `QRServe`; `EditLink` is what admins do meanwhile |
| `QRPromise` | nothing in the code: what the QR page promises | the abstract specification of `QRCache` |
| `Migrations` | `Migrate`, `newMigrator`, `schemaVersion` | `open` → `from` → `up` → (`next` → `run` → `ran`)* → `to` → `done`, or `failed`; what golang-migrate does under its lock is external |
| `Lifecycle` | `serve`, `runServer`, `Run`, `Execute`, `main` | `migrate` → `prepare` → `serve` → `close` → `off`, with a state of its own for each server and the job; what `Serve` returned waits in `errc` until `runServer` takes it |
| `CreateForm` | the create form of `swosh.js` | one action per event listener; `submit` is two, before and after its await: `Submit`, then `Created`, `CreatedUnread`, `Refused` or `Lost`; `Serve` is the server's part |
| `SwoshProofs`, `SessionsProofs`, `AdminPageProofs`, `QRCacheProofs`, `LifecycleProofs`, `CreateFormProofs`, `CreateRequestProofs` | | theorems about the module of that name |
| `NumbersProofs` | | theorems about the recent numbers of `CreateForm` |
| `MCSwosh`, `MCCreateRequest`, `MCSessions`, `MCQRCache`, `MCLifecycle`, `MCCreateForm` | | small instances |

A request in flight is a record in a function from slots to records: `creates`,
`visits`, `edits`, `deletes`, for sessions `logins` and `calls`, and for QR codes `calls`;
in a tab of the create form it is one of a set, `flights`. Its `step` is the
place in the handler where the goroutine stands, and the other fields are the
handler's local variables. Every step between two of a handler's reads or writes of
shared state (table, users, clock) is an action; what the handler does in between
belongs to one of them. A step that only answers the client with an error and
changes nothing is left out, unless the request was in flight before.

Definitions marked *Wrong* are not part of the model: each stands before a
definition it could be mistaken for, and serves to see that a property notices.

### Decisions about the model

- **One statement, one step.** PostgreSQL runs each statement by itself under READ
  COMMITTED. A statement that names one row sees and changes it in one piece. The
  statements that take several rows (`DeleteSwoshes`, `DeleteExpiredSwoshes`) lock
  them one by one, and check a row again that was changed since the statement began; the
  model lets all rows go at one moment. A row that goes was due, or named, both when the
  statement began and when it was locked. What differs is a row that comes to match while
  the statement runs: the model deletes it, PostgreSQL leaves it to the next sweep.
- **`serial` for `created_at`.** The database sets `created_at` on insert and no
  statement changes it. The model uses the number of the insert, which also tells
  apart two links made in the same microsecond.
- **The clock** of the service and its goroutines is one, and does not run backwards.
  PostgreSQL keeps microseconds; Go's nanoseconds are lost on the way in. A tick of
  the model is no finer than that.
- **A lost answer** is a statement that took effect and whose result never arrived:
  the connection broke, or the client went away and the request's context was
  cancelled. A lost update or deletion ends like a failed one.
- **A restart** can come at any moment and stands for a crash and for an orderly stop
  alike. A statement that the database still runs for a process that is gone is not
  modelled.
- **Forms say anything.** They come from pages that were shown earlier, so `Forms` is
  any set of forms; that the admin was let through is `Sessions`' matter, not
  `AdminEdit`'s.
- **Changes to users** other than their creation are not in the code. `Users` has them
  as steps of whoever runs the service, because `session.go` promises what they do to
  sessions.
- **Signatures** hold: a session or a token that verifies was made with this key. Two
  hashes of one password differ by their salt.
- **One `Restart`, two models of it.** In `Swosh` and `Sessions` a restart is one step
  that ends all requests. `Lifecycle` is where it has steps; there the requests are
  only counted.
- **Signals and accidents.** In `Lifecycle` a signal is free, and all that goes wrong
  (a lost connection, a port that is taken, a listener that breaks, a crash) counts as
  an accident, of which there are at most `MaxAccidents`. `Migrate` takes no context, so
  a signal is heeded only after it, by `Connect`. A signal that comes when `Connect` and
  `Provision` are done ends the process with exit code 0: `Listen` would use its context only
  to look a name up, and there is none, so the servers listen, serve, and are shut down.
- **`errc`.** `Serve` can give up while the context is being cancelled. `runServer`'s `select`
  then takes either way, and on that of the shutdown it looks at `errc` after it
  (`ShutDownDone`). Once `Shutdown` has begun, `Serve` has nothing else to return than
  `ErrServerClosed`.
- **The expiry job's timer** has no length, so neither has the life of a process: a restart
  puts the job back to `Starting`, and how long processes live is assumed where it matters
  (`Uptime`).
- **A schema** is the set of scripts that ran, next to the version and the dirty flag
  that golang-migrate notes. A script is one transaction: it ran or it did not.
- **A code of Swish** is the payment that it shows, as Swish takes it: `PNG` sends
  `editable` flags for the fields of the request that have them, and a code is equal to
  another exactly if all that was sent is. The body of an answer can break off, be
  blank, or come with a status other than 200.
- **`maxQRSize`** cuts a body at one MiB without an error. The model assumes that codes of
  Swish are smaller.
- **A tab** reads `localStorage` once, when it is opened, and writes the whole list of
  recent numbers whenever its own list changes; a write can fail and leave the stored list
  as it was (`StorageMayFail`). A form is one of `Forms`, a cleared one, or one filled by a number.
- **A session of a disabled user** is refused, and counts again if the user is
  enabled again before it expires; the code keeps nothing that could tell. No
  property forbids it.

## Runs

`tlc -workers 2 -config <cfg> <module>`; each passes within two minutes and a half or so.

| Run | What it asks | States |
|---|---|---|
| `edits` (`Edits.cfg`, `MCSwosh`) | Do two edits, a deletion and a sweep, in any order and with failing statements, ever double, overwrite, revive or lose a link, count one as expired that is there, or store an expiry that is neither the one asked for nor the one looked up? Is `LinkLife` implemented? | 579,952 |
| `faults` (`Faults.cfg`, `MCSwosh`) | With a create, a visit and an edit under every failure: shape of the state, counters, what is served, and whose visits move the last access | 2,396,656 |
| `liveness` (`Liveness.cfg`, `MCSwosh`) | Do expired links go, and do requests end? | 21,616 |
| `create_request` (`CreateRequest.cfg`, `MCCreateRequest`) | Is `validate` right at each limit and for each combination of fields? | 16,804 |
| `sessions` (`Sessions.cfg`, `MCSessions`) | Which requests get through while users change and the service restarts with a new key? | 637,229 |
| `shared_browser` (`SharedBrowser.cfg`, `MCSessions`) | Whose name does a form act in, and how long does a session last? | 804,768 |
| `admin_page` (`AdminPage.cfg`, `AdminPage`) | Is a link that cannot be seen ever deleted, or an empty selection sent? | 10,529 |
| `qr_cache` (`QRCache.cfg`, `MCQRCache`) | Is every code that of the payment asked for, is nothing kept that was no code, does every request end? Is `QRPromise` implemented? | 61,072 |
| `lifecycle` (`Lifecycle.cfg`, `MCLifecycle`) | Two builds start, migrate, fail, are signalled, crash and start again: is the version true, does nobody serve on an old schema, does everything stop together, does exit code 0 mean what it says? | 62,987 |
| `create_form` (`CreateForm.cfg`, `MCCreateForm`) | Is the link shown the link stored, whatever was done to the form meanwhile? Do page and server agree on what is refused? Does the button come back? | 276,351 |

The bounds, and why they are enough:

- `Ids = {a, b}`, both taken at the start where renames matter: a rename can collide,
  free an id, and swap through deletion and rename. A third id (`c`, in `faults`) is one that
  admins may not choose.
- Two edits (`e1`, `e2`) are what a lost update needs, and two visits what visits that
  overtake one another need; the slots are symmetric, and no liveness property is
  checked under symmetry.
- `MaxTime = 2` with `Second = 2` has a time within a second, a whole second, and one
  after; links expire at 1, 2 or 3, so each comparison is met before, at and after
  the moment.
- `CreateAttempts = 2` (5 in the code) has a first, a last and a next attempt.
  `MaxLinks` and `MaxFailed` bound the counters.
- `MaxSessions = 2` and `MaxHashes = 2` allow a login before and after a change, and a
  removal with a new user of the same name; `SessionTTL` is one second of two ticks, and
  `MaxTime = 3` reaches past the end of a session begun at 0 or 1.
- Two links and two requests are what the admin page needs for one link hidden, or one
  dialog opened while another's request is in flight.
- Two links with four rows are what the QR cache needs for two links with one payment, one
  link with two, and two payments that differ only in what the payer may change; two
  requests are what a double miss needs, and `CacheSize = 2` evicts.
- Two instances of different builds are what an older and a newer schema need; the older
  one finds the newer schema as well as being overtaken by it. One accident is enough to
  leave the schema dirty, and one request (of the public, in the newer instance) to be cut
  off. The schema is found empty or at version 1.
- In `create_form` one tab is enough, since tabs share nothing but the stored numbers, which
  the tab can find again by being opened again; `forgotten_returns` has two. Three
  created links and `MaxNumbers = 2` (3 in the code) let a number be dropped from the
  full list. The nine forms are three that are right, with one number written in two
  ways, and one for each thing that the page or the server refuses.
- The limits in `create_request` are those of `create.go`, with hours for seconds
  because a hundred years of seconds is beyond TLC's integers; all three lengths are
  whole hours.

### What the code does not keep to

Two runs each show, with one property, that a message says more than the code does;
neither loses a link.

| Run | What is said | What the run shows |
|---|---|---|
| `forgotten_returns` | "Forget this number" (`i18n.go:229`) | a tab that was open before keeps the number in its list and writes it back with the next link made in it (`swosh.js:90`); with one tab and a storage that works it stays away, for which there is a proof (`OneTabForgets`) |
| `error_names` | "Could not delete …" (`admin.js:118`) | the dialog was opened for another link meanwhile, and the error names that one |

More was met on the way that has no run of its own, because what the text claims is
looser or the code says so itself:

- "A form without the field keeps the expiry" (`admin.go:143`): the one looked up. An
  edit in between that changes the expiry is undone by the update. `ExpiryKept` allows for
  that and for a form that asks, and for no third value.
- "When the public last opened the link" (`000003_add_last_accessed.up.sql:1`): of two
  visits that overlap the earlier time can be written last; and a visit is recorded by
  id, so after a rename or a deletion it can be noted at another link. A logged-in
  admin's visit is recorded too when the user cannot be looked up (`currentUser` says
  so), which is why `AccessByPublicOnly` allows for visits of role `unknown`.
- `changes` logs the old values that were looked up, not those replaced (`admin.go:184`).
- `create_failed_total` counts a create whose insert took effect but whose answer was
  lost, and `expired_links_total` misses the links of a sweep whose answer was lost:
  the counters are bounds, and `CountedWasCreated` and `CountedHaveGone` are the halves that
  hold.
- "a migration failed half-way" (`migrate.go:93`) is also reported while another instance
  is in the middle of a migration that goes well, because the version is read without
  the lock. The instance exits, and is started again.
- A signal during `Migrate` waits for it, and if migrating lasts longer than whoever
  sent the signal is willing to wait, the process is killed in the middle: that is a
  crash of the model.
- The page tells of being offline if the answer to a create cannot be read, though the
  link was made (`CreatedUnread`).

### Fairness

Only the runs with a liveness property assume any (`FairSpec`).

`Swosh`:

- weak fairness of a create's next insert and of an edit's next step: a handler's
  goroutine runs, and a database call ends, with an answer or because a connection is
  lost. `pgx` returns in either case;
- weak fairness of `Run`'s start, which is a goroutine's.

These are `Fairness`. `LapsedLinksGo` needs two things besides, which the code does not see to
and which are named for themselves (`Uptime`):

- strong fairness of the start of a sweep. Every start of the process migrates and connects, and
  `Run` then waits for `initialDelay` before its first sweep. A process that is each time gone
  before that never sweeps, and expired links stay in the table for ever (`lookup` does not
  serve them). The assumption is that among endless restarts the timer gets to fire now
  and then. With weak fairness in its place TLC finds that loop: restart, `RunStart`, restart;
- strong fairness of a sweep's success: a database that is asked again and again
  succeeds again and again, before the process is gone.

Nothing is assumed of visitors, admins or creators, and `RequestsEnd` needs nothing of restarts.

`QRCache`: weak fairness of what a request does next. The HTTP client has a `Timeout`, so a
question to Swish ends.

`Lifecycle`:

- weak fairness of the main goroutine, of each server, of a sweep's end and of
  golang-migrate with the lock: goroutines run, a shutdown has a timeout, and what the
  database is asked ends. A server ends its shutdown by itself or by the timeout;
- strong fairness of opening the database, which can be asked for again and again by a
  process that is started again, and of the job's return: of a `select` whose timer and
  context are both ready Go picks one at random, so the context wins in the end.

Nobody has to start an instance, send a signal, or make or end a request.

`CreateForm`: weak fairness of the end of what is in flight. A browser ends every `fetch`, with an
answer or an error. Nothing is assumed of the server: an answer can be lost.

## Proofs

`tlapm <module>`. The theorems hold for every value of the constants that the named
assumptions allow: any ids, links, forms, contents, users, builds, limits and faults, and
any number of requests, browsers, tabs and instances at a time.

| Module | Theorem | States |
|---|---|---|
| `SwoshProofs` | `TypeCorrect` | `Spec => []TypeOK` |
| | `OneRow` | `Spec => []OneRowPerLink` |
| | `ServedLive` | `Spec => []ServedWhileLive` |
| | `CountedCreates` | `Spec => []CountedWasCreated` |
| | `CountedGone` | `Spec => []CountedHaveGone` |
| | `GoneForGood` | `Spec => NoResurrection` |
| | `NothingLost` | `Spec => LossJustified` |
| | `ExpiryIsKept` | `Spec => ExpiryKept` |
| | `AccessIsPublic` | `Spec => AccessByPublicOnly` |
| | `ImplementsLinkLife` | `Spec => KeepsLinkLife` |
| `SessionsProofs` | `TypeCorrect` | `Spec => []TypeOK` |
| | `SessionsLast` | `Spec => []SessionLastsItsTime` |
| | `SessionsNeedPasswords` | `Spec => SessionNeedsPassword` |
| | `FormsActAsShown` | `Spec => ActsAsShown` |
| | `ReplacedPasswordsAreDead` | `Spec => ReplacedPasswordIsDead` |
| `AdminPageProofs` | `TypeCorrect` | `Spec => []TypeOK` |
| | `NoEmptyRequests` | `Spec => []RequestsNameLinks` |
| | `HiddenIsSafe` | `Spec => NeverDeletesHidden` |
| `QRCacheProofs` | `TypeCorrect` | `Spec => []TypeOK` |
| | `SoundCache` | `Spec => []CacheIsSound` |
| | `ImplementsPromise` | `Spec => KeepsPromise` |
| `LifecycleProofs` | `TypeCorrect` | `Spec => []TypeOK` |
| | `TrueVersion` | `Spec => []VersionIsTrue` |
| | `DirtyOnlyByAccident` | `Spec => []DirtyByAccident` |
| | `OnItsSchema` | `Spec => []ServesOnItsSchema` |
| | `CleanExits` | `Spec => CodeZeroIsClean` |
| `CreateFormProofs` | `ShowsTheLink` | `Spec => []ResultIsTheLink` |
| | `NoLinkBesideError` | `Spec => []ErrorOrLink` |
| | `HintAgrees` | `Spec => []HintIsRight` |
| | `PageRefusesNoMore` | `Spec => RefusesNoMore` |
| `NumbersProofs` | `TypeCorrect` | `Spec => []TypeOK` |
| | `NumbersAreOnce` | `Spec => []NumbersOnce` |
| | `OneTabForgets` | `Spec => ForgottenIsGone`, for one tab and `~StorageMayFail` |
| `CreateRequestProofs` | `StoredLinksAreSound` | `Spec => []StoredLinkIsSound` |
| | `RefusalsHaveReasons` | `Spec => []RefusedWithReason` |

The assumptions are those of the modules' `ASSUME`s: ids are finitely many, a table found at
the start has a link once, the contents that valid requests and forms lead to are
contents, the limits are in order, `Null` is none of the values it stands beside.

### `SwoshProofs`

Whatever the requests are doing, a step either leaves the table alone
or is one of five statements by a request that is at that place: `Statement`,
proved of every step in `StepIsStatement` from `TypeOK` alone. `RowsAfter` then says
what rows there are after a statement: each is a row from before, perhaps at another
id and with other values but the same serial number, or the one new row. Everything
about links is proved from these two, without looking at requests again:
`OneRowPerLink` is inductive with them; `NoResurrection` follows because only the new
row has a new serial number; `LossJustified` because a row without a successor was
deleted by id or had lapsed; and the refinement because each statement is a step of
`LinkLife` on the links of the table (`StatementIsLife`). `LossJustified` and the refinement
need one more fact: a sweep deletes by a time that has come. `TimesReadHaveCome`, a lemma of
the proofs, says so; it is inductive because each time carried is the clock at an
earlier step and the clock never falls.
`CountedWasCreated` is inductive once it is said that rows are never uncounted.

`CountedHaveGone` is about how many rows there are. A table found at the start has at most
as many rows as serial numbers (`GoneInit`, by the pigeonhole principle, as rows are told
apart by them), and no statement lets the rows outgrow the numbers given (`SizeAfter`); a
sweep adds to the counter as many as it takes away.

`AccessByPublicOnly` and `ExpiryKept` need to know whose statement it was: `StepRuns` says of
every step that it is an edit's `UpdateSwosh` (`Edited`), a visit's `TouchSwosh` (`Records`), or
leaves the columns of kept rows alone (`Unedited`). `AdminsUnrecorded` says that no visit gets as
far as recording once it is known to be an admin's; `ExpirySettled` that the expiry an edit
is about to store is the one its form and the row it looked up lead to, which is the one
the form asks for, or that row's if it asks for none (`AskedOrKept`).

### `SessionsProofs`

The inductive invariant is `TypeOK`, `AllMade`, `OneOwner` and `ReplacedIsGone`. `AllMade` says that every
cookie, and every session a request was begun with, was made with the expiry and the key that
login gives it, for the user and the hash that `checked` has at its nonce, which are those
its own login was checked against: without it a cookie could say anything, and `Decodes` would prove nothing. `OneOwner` says that a nonce belongs to one
user, which is what makes a CSRF token, a function of the nonce, say whose page it is
on; it is inductive because a login draws a new nonce. `ReplacedIsGone` says that a replaced
password is not the one its user has. The action properties are about the two steps that let a
request through, by its session or by HTTP Basic, which `CallsGoOn` finds in any step.

### `AdminPageProofs`

`RequestsNameLinks` and `NeverDeletesHidden` hold because of where the ids of a request come from: the
dialog, which is about links that are shown as long as it is open (`DialogIsSeen`), and is
opened for the selection only if the bar counts some (`BarIsRight`).

### `QRCacheProofs`

`CacheIsSound` is inductive with the types, once it is known what removing from and adding in
front of a sequence do (`WithoutOne`, `WithoutKey`, `FrontedIsSound`). `ServedRight` adds that what is about to be
shown is the code of the request's payment, or none. The refinement maps the step at which a
hit or an answer of Swish is taken to `Answer`, and all that only moves the cache to a
stutter; a hit answers with the payment asked for because the key holds all of it.

### `LifecycleProofs`

`MigInv` says who has the lock and what is true at each step of a migration: only the
holder finds the schema dirty without an accident, the scripts are those up to the
version or one fewer, and a `Migrate` that is done has seen all its scripts run. `Placed` ties the
process to its `Migrate`, which gives `ServesOnItsSchema`. `Stopping` says what the errgroup's goroutines
leave behind: a context is cancelled only by a signal or a failure, a server that
returned without a failure has no requests and nothing in `errc`, and the main goroutine goes
on when all have returned; from it follows `CodeZeroIsClean`.

### `CreateFormProofs`

A page has one request in flight at most, with the button disabled and nothing said since it
was sent (`FlightIsSound`), and a link shown is one of those created, told as it was asked for
(`ResultIsSound`). The hint and the page's own checks are compared with `validate` case by case, from
`LimitsAssumption` alone.

### `NumbersProofs`

A number is forgotten by filtering the list, which the model does with a recursive function
(`Others`). What that leaves is known only by induction over the list, and the library's
induction theorems are out of the provers' reach. But for one list, the lengths of its beginnings of
which the claim holds are a set, and if some were missing there would be a least of them
(`LeastNatural`, from the well-foundedness of `<`; `UpTo`). In this way `AmongExists` says that the
recursive function exists, and `OthersIsRest` that what is
left are numbers of the list with another key, at increasing places. From it follow
`OthersOnce` and `RememberOnce`, and with them that `ShapeInv` is inductive: it is `TypeOK`, and says
of every list, in a page or stored, that it has a number once and no more than
`MaxNumbers`.

`OneTabForgets` rests on `InSync`: the list of the one tab is the stored list, as long as no write
fails. A number can then be new to the stored list only by a link that is made with it
(`NewKeysAreOf`).

### `CreateRequestProofs`

What is reported is about the request that was read. `ExpiryCases` and `ExpiryTimes` say what `expiresOn`
makes of each kind of field; the rest is arithmetic on the limits.

### Only model-checked

- Liveness, which needs fairness and ENABLED: `LapsedLinksGo`, `RequestsEnd`, `CallsEnd`,
  `StopsTogether`, `MigrationsEnd`, `ButtonComesBack`.

`ForgottenIsGone`, with two tabs, and `ErrorNamesWhatFailed` are refuted. With `Tabs = {t1}` in
`ForgottenReturns.cfg` TLC finds nothing wrong, in 1,596 states. `TypeOK` of `AdminPage` and of `QRCache`
is no run's invariant, since it is proved.

## Not modelled

- The pages themselves: templates, languages, themes, styles, formatting of amounts
  and URIs. They read and render; the choice of a language or a look is one cookie.
- The date picker of `admin.js`, and the copy and share buttons of `swosh.js`. A copy that ends
  after a newer link is shown marks the newer one as copied; the window is as long as
  the browser takes to write the clipboard.
- Routing, headers, the metrics middleware, the health check, configuration: no state that
  changes, or none that anything else reads.
- The list and the single page of the admins: they read the table and render it.
- The random choice of words for an id: `CreateLink` takes any id of a set.
- The pool of connections and the parsing of database URLs.
- The phone number library, bcrypt, HMAC, golang-lru, golang-migrate, `net/http`, browsers and
  Swish: external, modelled by what the code relies on.
