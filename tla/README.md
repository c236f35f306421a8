# Verification of Bookdarr Media Server

Bookdarr Media Server (BMS) is a NestJS server, with an inline web client and a
service worker, that lets users check books out of a Bookdarr library, keep
copies of their media files on the server and on their devices, stream them and
remember where they stopped reading. This directory holds TLA+ modules of its
core logic, the TLC configurations that check them and TLAPS proofs about them.

1. Inventory  2. Plan  3. Modules  4. Runs  5. Fairness  6. Where properties stop
7. Proofs  8. Not modelled

## 1. Inventory

One Node process runs everything on the server: it is single threaded, so the
atomic steps of the models are what happens between two `await`s. The state that
survives a restart is the SQLite database (through TypeORM) and `data/`. No
transaction spans two awaits anywhere.

| Part | State it keeps | Operations | Interacts with |
|---|---|---|---|
| Offline downloads (`library/offline-download.service.ts`) | table `offline_downloads`, files and `.part` files under `data/offline`; in memory `queue`, `queuedIds`, `active`, `processing`, `clearing`, `stopping` | queue a book, remove a book, clear everything, find a cached file, resume at start, the processing loop | library service (checkout, return), settings page (clear), streaming (cached file), Bookdarr (file bodies) |
| User library (`library/user-library.service.ts`) | table `user_library` | check out, return, set read and unread | library service, offline downloads |
| Auth sessions (`auth/auth.service.ts`, `jwt.strategy.ts`, `stream-auth.guard.ts`) | table `auth_sessions`, `users.tokenVersion`, `users.refreshTokenId` | login, two-factor login, refresh, logout, revoke all, validate a token | every guarded request; the stream guard refreshes by itself |
| Accounts (`auth/auth.service.ts`) | tables `users`, `invite_codes`, `password_reset_tokens`, `two_factor_backup_codes` | first-user setup, signup, profile, reset, two-factor setup and disable, backup codes, administration | sessions (they end them) |
| Auth configuration | table `auth_config` | create secrets, rotate them | signing and verifying every token, the key of stored two-factor secrets |
| Rate limiting | in-memory map of windows | consume | login, reset and setup routes |
| Library service, catalogue cache | `data/library-cache.json` | list, detail, check out, return, refresh | user library, offline downloads, Bookdarr, Open Library |
| Bookdarr configuration | one row | get, upsert | every call to Bookdarr, the key of the catalogue cache |
| Streaming | none | parse a range, serve the cached file or proxy Bookdarr | offline downloads, service worker |
| Reader progress | table `reader_progress` | get, set, reset | web client, which keeps a local copy |
| Web client (`app.service.ts`, inline) | DOM, `localStorage`, cookies | page turns, My Library and its polling, device copies, progress synchronisation, token refresh | all HTTP routes, the service worker by messages |
| Service worker (`public/sw.js`) | IndexedDB stores `books` and `urls`, Cache Storage | queue a book, the download loop, clear a book or all, serve a file or a range offline | web client by messages, streaming route |
| Settings, SMTP, reader configuration | one row each | get, upsert | |
| Logging, mail, Open Library, OpenAPI, migrations, scripts | output, or none | | |

What is hard, and what makes each part correct:

- **Offline downloads.** Several requests and one loop interleave at every
  await over a queue, a set of queued ids, a map of running downloads and three
  flags; returns and clears abort downloads that may be at any step; the process
  may end at any step. Correct when one loop runs, no wake-up is lost, the queue
  and its set agree, nothing checked out is forgotten, nothing deleted comes
  back, a ready row has its file, and the configured cap holds.
- **User library.** Check-then-act on the active checkout, whole rows written
  back, a return racing the downloads. Correct when a user holds one copy and
  downloads exist for books that are out.
- **Auth sessions, accounts.** Rows are read, changed and saved whole with other
  requests in between; one-time codes are found unused and marked later. Correct
  when what ended stays ended, what was issued works, and a code works once.
- **Catalogue.** The cache is keyed by the configuration read before the build.
  Correct when a list is of one Bookdarr, and a refresh is not undone.
- **Reader progress.** Newest write wins, over two copies and lost requests.
- **Page turns.** A lock released by an event or a timer, and a counter fed by
  events that may be about something else. Correct when turns go one at a time
  and the number follows the page.
- **My Library page.** Answers are rendered when they come, whatever the page
  shows by then. Correct when button, list and device copies tell the truth.
- **Service worker.** The same queue problem as the server's, in IndexedDB, with
  the browser ending the worker at will.
- **Ranges.** Boundaries: `bytes=-n`, empty files, chunk edges, three sources.

The hazards, each at its line and with the properties that answer it, are the
"hazards" of `PROJECT.json`.

## 2. Plan

The order is that of how much of what users see depends on a part and how hard
it is to test.

| Step | Modules | State |
|---|---|---|
| 1 | `WaitingList`, `OfflineDownload`: the server's download queue, its requests and its loop | modelled, proved |
| 2 | `DeviceCache`: the service worker's queue, its messages and its loop | modelled, proved |
| 3 | `Checkout`, over `OfflineDownload` | modelled, proved; it implements `OfflineDownload` |
| 4 | `ReaderProgress`, implementing `NewestWins` | modelled, proved, the refinement included |
| 5 | `AuthSessions`, `Accounts` | modelled, proved |
| 6 | `PageTurns`, `LibraryPage`: the web client | modelled, proved |
| 7 | `Catalogue` | modelled, proved |
| 8 | `MediaStream`: ranges, from server, Bookdarr and device | modelled, proved |

Left: `LibraryPage` could be composed with `DeviceCache`, whose worker it has as a
queue of books and the one being fetched.

Modules that are proved about use no RECURSIVE operator; their parameters are
CONSTANTS under one named assumption; each has one action per operation, between
two awaits.

## 3. Modules

Words used throughout: a request, message or loop has a `pc`, named for the call
it is waiting for, and the locals it holds across that await. Variables called
history are read by properties only. Definitions marked "Mutant" are the code with
a bug in it: with one in the place of the definition it is named after, a property
must fail. They show that the property depends on that code.

### WaitingList
A queue kept twice: an array in order and a set for quick lookup
(`queue`/`queuedIds` on the server, `bookQueue`/`queuedBooks` on the device).
`Agrees` is their relation, `Without` is `filter`/`splice`. `Without` is defined
through ranks rather than `SelectSeq`, which is recursive; an `ASSUME` of
`MCOfflineDownload` has TLC compare the two on short queues.

### OfflineDownload (`library/offline-download.service.ts`)
State: `rows` is the table, `media` and `part` the files at `<path>` and
`<path>.part`; these survive a crash. `queue`, `queuedIds`, `active`,
`processing`, `clearing`, `stopping` are the service's fields. `loop[w]` holds the
locals of an invocation of `processQueue` and its `downloadFile`; `req[r]` those
of a request.

| Code | Actions |
|---|---|
| `queueBook` | `QueueFiles`, `QueueFind`, `QueueSave`, `QueueUpdate`, `QueueRemoveFile`, `QueueRemovePart` |
| `enqueue`, `processQueue` | `Enqueue`, `ProcessQueue`, `TakeNext`, `LoopFind` |
| `assertCacheCapacity`, `assertDiskSpace` | `Capacity`, `Evict`, `EvictRow`, `EvictEnd`, `DiskSpace` |
| `downloadFile` | `Mark`, `Fetch`, `Resize`, `OpenPart`, `Stream`, `Progress`, `Rename`, `Ready`, `Discard`, `Reject`, `Fail`, `Finish` |
| `removeBook` | `RemoveFind`, `RemoveDelete`, `RemoveFile`, `RemovePart` |
| `clearAllCachedMedia` | `ClearStart`, `ClearDelete`, `ClearFiles`, `ClearDone` |
| `getCachedFilePath` | `ServeFind`, `ServeAccess`, `ServeMissing` |
| `onModuleInit`, `resumePending`, `onModuleDestroy`, the end of the process | `BootFind`, `Resume`, `Destroy`, `Crash` |
| a rejected database call | `CallFails`, and the `DbErrors` disjuncts of the loop |

Abstractions: a file stands for its path, since the path is made of user, book and
file; an id is the request that created the row and the file; sizes are small
numbers of bytes; which row is evicted first is left open; the disk-space check
answers either way. A database error in the loop outside `downloadFile`'s `try`
is an unhandled rejection, ends the process, and is `Crash` (systemd restarts it).

### Checkout (`library/user-library.service.ts`, `library/library.service.ts`)
Extends `OfflineDownload` with the table `user_library` of one user, `shelf`, and
the locals `lib[r]` of the requests about it. A checkout or return goes on to the
downloads in `DownloadStep` once its row is saved, as `checkoutBook` and
`returnBook` do.

| Code | Actions |
|---|---|
| `checkout` | `CheckoutFind`, `CheckoutSave` |
| `returnBook` | `ReturnFind`, `ReturnSave` |
| `setReadStatus` | `ReadFind`, `ReadLatest`, `ReadSave`, `ReadCreate`, `Unread` |
| `getStatusMap` of the downloads | `Summary` |

`Together` says which kinds of requests about one book may overlap.

### DeviceCache (`public/sw.js`)
State: `record` is the status of every file in the IndexedDB store `books`, `urls`
the files with metadata in the store `urls`, `cache` the entries of Cache Storage;
these survive. `bookQueue`, `queuedBooks`, `processingQueue`, `activeBookId` are
the worker's globals; `loop[w]` holds the locals from `processQueue` down to
`cacheUrl`, `rec` being the loop's own copy of its book's record; `msg[m]` those of a
message handler and `resume` those of `resumePendingDownloads`.

| Code | Actions |
|---|---|
| `cacheBook` | `CachePut`, `CacheMeta` |
| `enqueueBook`, `processQueue` | `EnqueueBook`, `Shift`, `NextBook`, `LoopRejects` |
| `cacheBookNow` | `Get`, `Verify`, `PutFirst`, `NextFile`, `Mark`, `Meta`, `PutReady`, `PutFailed`, `PutFinal`, `PersistProgress` |
| `cacheUrl`, `cacheUrlChunked` | `Open`, `Hit`, `Receive`, `Store`, `Fail`, `Downloaded`, `UrlMeta` |
| chunks that go on after their file has failed | `StoreStray`, `PersistProgress` (`straggles`), `LateProgress` |
| `clearBook`, `clearAll` | `ClearFind`, `ClearStop`, `ClearFile`, `ClearRecord`, `ClearAllStop`, `ClearAllCache`, `ClearAllDb` |
| `resumePendingDownloads` | `ResumeList`, `ResumeBook` |
| the browser | `Stop`, `Update` (a new version activates), the failing disjuncts |
| the fetch listener, `queryBooks` | `Served`, `QueryStatus` |

Abstractions: opening the cache and looking entries up in it are one step; a file's
metadata and its entries are cleared in one step; chunks arrive in any order,
which includes the four at a time of the code; `activeDownloads` is not a variable,
because aborting the controller of a finished download does nothing; writes that
are not awaited take effect in the order they are issued, as IndexedDB requests do.
When the body of a chunk breaks off or cannot be stored, its siblings are not aborted:
what they may still store is `stray`, and `late` is the record they may still write
once the loop has left the book (the newest one of a book). Nothing obliges them to.

### AuthSessions, Accounts (`auth/auth.service.ts` and the guards)
`AuthSessions` has the tables and what concerns sessions; `Accounts` extends it with
the operations on accounts and gives the specification. State: `users`, `sessions`,
`backup`, `resets`, `invite` and `key` are tables; `issued` and `challenges` the
tokens handed out; `req[r]` what a request holds between awaits, `user` and `sess`
being entities read before. History: `dead`, the tokens that a finished request has
ended; `uses`, how often each one-time code was acted on; `cut`, how often a crash
came between that and its mark (`Acting`, `CutOff`). `Stored` says how the first
accounts' two-factor secrets may be stored: not at all, in the clear, or encrypted.

| Operation | Begins with | Goes on with |
|---|---|---|
| `login`, `loginWeb`, `completeTwoFactorLogin` | `Login`, `LoginTwoFactor` | `LoginFind`, `CodeFind`, `CodeSave`, `UpgradeSave`, `CreateSession`, `SaveJti`, `Answered` |
| `refresh`, and a token without a session (`migrate`) | `Refresh` | `RefreshUser`, `RefreshSession`, `Rotate`, or `RevokeFind`, `RevokeSave`, `Replay`; `BadLegacy`, or a session as above |
| `StreamAuthGuard` refreshing by itself | `Stream` | the same |
| `logout` from a session, and with a token without one (`logoutall`) | `Logout` | `LogoutFind`, `LogoutSave`; `LegacyLogout`, `RevokeFind`, `RevokeSave` |
| profile, password, two-factor setup, confirmation, disabling, new codes | `Profile`, `Password`, `BeginSetup`, `ConfirmSetup`, `Disable`, `NewCodes` | `Find`, `DeleteCodes`, `Save`, `RevokeFind`, `RevokeSave`, `StoreCodes` |
| reset by mail | `Forgot`, `Reset` | `Mail`; `FindToken`, then `Find` ... `UseToken` |
| `setupFirstUser`, `signup`, `createUser` | `Setup`, `Signup`, `Create` | `CheckNew`, `Insert`, `FindInvite`, `UseInvite`, `CreateSession` ... |
| an administrator resets a password or two-factor, rotates the secrets | `ResetPassword`, `ResetTwoFactor`, `RotateSecrets` | `Reauth`, `CodeFind`, `CodeSave`, `Act`, then `Find` ... |
| the process ends, `ensureAdminUser` | `Restart` | |

`Accepted` is `JwtStrategy.validate`, `Exchanged` what `refresh` takes. The former asks
no token for its type, so `SignedIn` has the user of a two-factor challenge too, while
his version is 0. Abstractions: hashing and signing touch no row
and belong to the step before them; a code fits a secret or not; a batch of backup
codes is one code; a request is the name of whatever it creates. Expiry is left
out: a token or code that has expired is one that nobody presents. `Overlaps` says
which pairs of operations may run at the same time; everything may happen one
after the other, and a crash may come between any two steps.

### ReaderProgress, NewestWins (`library/reader-progress.service.ts`, `app.service.ts`)
State: `row` is the stored position of one file, `local` the copy in each device's
`localStorage`, `view` what each reader shows, `req` the requests in flight, from
sent to answered; `Lose` drops any of them. The page's functions are
`OpenReader`/`Loaded` (`loadProgress`, `openPdfReader`), `TurnPage`/`Saved`
(`renderPdfPage`, `saveProgress`), `Reloaded` (`loadAndApplyProgress`),
`Sync`/`Checked`/`Synced` (`reconcileProgress`), `Restart` (the button); the
handlers `GetProgress`, `SetFind`/`SetSave`, `ResetFind`/`ResetRemove`.
`NewestWins` is the abstract specification: a register that keeps the position with
the newest `updatedAt` since the last reset. The refinement mapping is the
identity on `newest` and takes `row` for `value`. `Overlap` says whether handlers
that write the row may overlap. Clocks of the devices are taken to agree.
A page is shown and saved in one step; the wait for `getPage` in between
(`app.service.ts:5155`) and the loading of the document are left out. A row has no
identity in the model: with `Overlap`, a save may write over the row it finds or be
refused by the unique index, as if it were another one put in its place.

### PageTurns (`app.service.ts`, the EPUB reader)
State: `queue`, `locked`, `timer`, `callbacks` are the turner's fields; `place`,
`moves`, `reports` are epub.js, which carries out what it is told in order and reports
later; `shown` says whether it shows a place yet; `pending` and `map` count pages;
`disk` is the map that a book keeps in `localStorage`. `Click` is `goNext`/`goPrev`,
`Process` is `processEpubTurnQueue`, `TimerFires` is `unlockEpubNavSoon`, `Callback`
the `setTimeout(..., 0)` and `Relocated` the listener with `updateEpubPageNumbers`
(`Renumbered`, `Number`, `Outstanding`). `SyncLocation` is `syncEpubLocation`, after a
synchronised position and once the locations are generated: it counts the page as a
report does (`CountPage`). `OpenReader`, `CloseReader` are `resetReaderState` and
`loadReaderPageMap`; `Mount` opens the book at the server's position, which may be
any; `Display` is a synchronised position or a resize. `Starts`, the pages before each
section, is the layout that epub.js computes. `calm` is history: nothing has happened
yet under which the code promises nothing (section 6).

### Catalogue (`library/library.service.ts`, `library-cache.service.ts`, `bookdarr/`)
State: `conf` is the row of the Bookdarr configuration, `file` the cache file,
perhaps torn, `books` how often Bookdarr's books have changed. A list or a refresh
goes through `Begin` (`getConfigSignature`), `ReadCache` (`getCached`) or
`ClearCache` (`clearCached`), `FetchPool` and `FindCovers` (`buildLibraryItems`, which
asks for the configuration each time), `OpenFile` and `WriteFile` (`setCached`).
`FindConfig` and `SaveConfig` are the upsert. History: `seen`, the configurations in
force since a request began; `changed`, in a list, that one was saved while it was made
(`Making`); `past` and `back`, that one which was replaced came back; `alone`, that no
two builds have overlapped, nor a build and a new configuration.

### LibraryPage (`app.service.ts`, My Library)
State: the server's `status` of each book, what the page shows (`modal`, `detail`,
`list`, `poll`, `kept`, `refused`), the worker (`device`, the books whose record says
queued, downloading or ready; `bookQueue` and `activeBookId`; messages both ways), the
requests in flight and the order the server answered them in. History: `waited`, that
the user clicked when nothing was under way; `good`, that no request has failed;
`spared`, the books that were being fetched when the worker was told to clear them.

| Code | Actions |
|---|---|
| `openBookDetail`, `refreshBookDetail`, `toggleReadStatus`, `toggleCheckoutStatus` | `Open`, `RefreshDetail`, `ToggleRead`, `ToggleCheckout`; `DetailArrives`, `Refreshed`, `MarkArrives`, `CheckoutArrives`, `ReturnArrives` |
| `startDeviceOfflineCacheForBook`, and its button | `ToggleDevice` (`StartDevice`, `ClearDevice`), `ManifestArrives` |
| `loadMyLibrary` with its `queryDeviceOfflineStatus`, `scheduleMyLibraryRefresh` | `Poll`, `ListArrives` (`Listed`) |
| failing requests | `ErrorArrives` |
| the server | `Serve` (`Look`, `CheckOut`, `TakeBack`), `Downloaded` |
| the worker's messages and loop | `Obey` (`ObeyCache`, `ObeyClear`, `ObeyQuery`), `Take`, `Fetching`, `Fetched` |
| `onSwMessage` | `MailArrives` |

The loop tells of its progress while it fetches, with a record that may say anything, and
writes the record of its book when it is through, cleared meanwhile or not. Messages
are handled one at a time; the page's five seconds of patience for an answer and
the retries of `reconcileDeviceOfflineStatus` are left out.
`Ordered` says whether answers come in the order the server gave them. The names
of `PageInit`, `PageNext` and `PageSpec` let one module prove about it and about
`MediaStream`.

### MediaStream (`library/library-streaming.service.ts`, `sw.js`)
One request for a file or a range: `Match`, `ReadMeta`, `SendChunk` are the fetch
listener; `FindCached`, `Stat`, `OpenFile` are `streamFile` and `sendCachedFile`;
`Bookdarr` is the upstream's answer. `First`, `Last`, `Parses` are the range parser,
which worker and server each have a copy of. Copies come and go under the request
(`ServerCopy`, `DeviceCopy`). Assumed: Bookdarr honours ranges. `HEAD`, which
answers alike without bytes, and content types are left out.

## 4. Runs

The `MC` modules give the instances; `LibraryPage` needs none. Deadlock is not
checked (`CHECK_DEADLOCK FALSE`) since each request, message or click comes a
bounded number of times and the system then comes to rest. Loops, requests, files
and devices are symmetric where they are interchangeable and the run has no
liveness property.

| Run | Instance | Shows |
|---|---|---|
| `offline_clear` | three books of 1, 2 and 3 bytes; three checkouts, a return, two clears; a cap of 2 with eviction; failing database calls | one loop, agreeing queues, no lost wake-up, `clearing` ends, the cap holds, no deleted row comes back, a row is forgotten only under a clear or by a failing request |
| `offline_settles` | two books, one checked out twice, a stream; one restart; listed size unknown; fairness | a ready row has its file; every row is settled |
| `checkout_downloads` | a book of two files is checked out, returned, checked out again; a mark; one restart | one copy out, downloads only while out, ready is complete, nothing forgotten |
| `device_clear` | two books cached, one cleared, all cleared, one update | one book at a time, agreeing queues, exact `activeBookId`, nothing queued is abandoned |
| `device_ready` | an ebook with a two-chunk audiobook cached twice; a stop, an update, failing IndexedDB | ready is served |
| `device_settles` | three cache messages, two books, an update; fairness | every file, and what is said of its book, is settled |
| `auth_tokens` | three requests of any operations, with crashes; refreshes overlap what ends tokens | what ended stays ended, replays are replays, codes work once but for crashes, no codes without two-factor |
| `progress_newest` | two devices, two pages, two requests in flight, four clock ticks | the register keeps the newest; a settled reader shows the server's position |
| `turns` | two books of sections of 1 and 3 pages; three clicks, two openings or resizes; queue and pending limit 2; fairness | one turn at a time, numbers follow pages, the queue drains |
| `catalogue` | two lists, a refresh, two changes of configuration, there and back; one change of books, one crash | an unchanged list shows one Bookdarr, a changed one goes to nobody after the change, a refresh lasts |
| `page` | two books, two requests in flight, four clicks, one message of progress under way; fairness | the button tells the truth, device copies agree, the list catches up |
| `ranges` | sizes 0, 1, 4, 5; chunks of 1 to 3 bytes; every header of one range, or of several by their first, with numbers up to 6 | bytes in order, and the ones asked for |

Why the bounds are enough to be interesting. *Downloads*: every property needs at
most the running loop, one item behind it and two handlers that interfere; two
loops exist so that a second could start; a cap of two with files of one, two and
three bytes has a file that never fits, one that fits alone, and one that fits with
eviction; two clears overlap. *Device*: a stop is needed once; two chunks are
enough for one to be stored while the other fails. `device_clear` uses one chunk a
file, since chunks do not touch the queue. *Accounts*: a replay takes three
operations (a token is exchanged, used again, and tried after), as does a code used
twice after a setup; the initial states, with and without two-factor, a plain
secret, an exchanged token and a token of an earlier release, stand for any longer
past. *Progress*: four ticks give each device a write and one of them an answer that
stamps another. *Turns*: a book must have a section longer than a page and a
boundary; three clicks make one turn under way, one waiting, and one back.
*Catalogue*: `TTL` 0 with one tick is an entry that is young and one that is not.
*Page*: four clicks open a book, start its copy, return it and open the other.
*Ranges*: five bytes in chunks of two have a first, a middle and a short last chunk;
sizes and chunks are unbounded in the proofs.

## 5. Fairness

Nothing is assumed of users, crashes, stops, updates and failures, and no download
is assumed to succeed.

- `OfflineDownload`, `DeviceCache`: weak fairness of each handler's and each loop's
  next continuation, of resumption and, on the server, of the exit of a process told
  to stop: an event loop runs every continuation whose promise is settled, and
  SQLite, the disk and the browser's storage answer. Two assumptions are about
  others. Bookdarr's answers end: `streamBookFile` has no timeout, so without this
  one stuck answer holds up every user's downloads. A browser's request ends, with a
  failure if nothing else.
- `PageTurns`: the browser runs timers and callbacks. epub.js need not answer, which
  is what the fallback timer is for.
- `LibraryPage`: the polling timer, the worker and the messages run, requests are
  served and answered (perhaps with an error, then nothing is claimed), downloads end.

The other modules state safety only.

## 6. Where properties stop

The properties of the runs hold under conditions that the models name. Beyond them
the code behaves otherwise, and TLC shows how in a few steps when the constant or
definition given here is changed.

**OfflineDownload.** A clear or return stops what is in `queue` or `active`; an id
just shifted is in neither until its `findOne` answers
(`offline-download.service.ts:431`), so its download goes on and may leave its file
behind. A checkout during a clear is dropped by `enqueue` while its row stays queued:
`ForgottenOnlyByClear` allows just that, a request whose database call fails half
way, and a row that the loop marks as downloading after a return or a clear stopped its
download and failed to delete it. A checkout of a book that is out already
queues its files again and removes a file that the loop has just renamed into place
and goes on to mark ready: `ReadyHasFile` and `ReadyIsComplete` except such books.
A file without a row, left by an abort after the last byte, is never removed. Of two
clears that overlap, the first to end resets `clearing` while the other is still
before its `rm`: a download that starts in between has its file removed, and its row
becomes ready (`ReadyHasFile` under `ClearsApart`). A clear in the middle of a checkout
leaves rows of only those files that the checkout had not come to, and the book is
shown as ready without the others (`ReadyIsComplete` under `NothingLost`). A file of
unknown size counts as nothing when room is made for it, and of two rows of one
path, an eviction that failed half way deletes the file of both (`CapRespected` under
`SizesKnown` and, when database calls fail, `OneRowPerFile`).

**Overlaps (Checkout).** With `{"queue"}` added to `Benign`, two checkouts of one
book find no active row and save one each (`OneCopyOut`); with `{"queue",
"remove"}`, a checkout that overlaps a return queues downloads for a book that is
then in (`CachedOnlyWhileOut`); with `{"remove", "read"}`, a mark that found the row
before the return writes it back as checked out (`OneCopyOut`).

**The service worker.** A stopped worker does not resume: pending books are queued
again by the activate event alone, and the start of a stopped worker has none
(`device_settles` with `MaxStops = 1` violates `EveryFileSettles`). A clear aborts
downloads and not the loop, which goes on with its own copy of the record and
writes it back. A chunked file with metadata is never asked from the network, so a
failed device download breaks its streaming. One failed file and none ready is
reported as a failed book while other files are on their way. While IndexedDB fails
the loop may end with books queued and `activeBookId` set; `QueueServed`,
`ActiveAgrees` and `Accounted` are for `DbErrors = FALSE`.

**Accounts.** With `Overlaps <- SignInRaces`, a sign-in that read its user before a
password change saves the row after it: the old `tokenVersion` is back and tokens
that the change ended are accepted (`RevocationHolds`). With `Overlaps <-
StreamRaces`, two media requests with one expired token both refresh, and the second
is taken for a replay that ends every session (`NoFalseReplay`); the same holds of
two refreshes. One-time codes that two overlapping requests present are both found
unused: `SingleUse` is claimed of requests one after the other. A reset token is marked
after the password is saved (`auth.service.ts:649`, 652) and an invite after the account
is inserted (108, 110): after a crash in between it works again, which `SingleUse` counts
in `cut`. A refresh that has read its session saves it unrevoked over a sign-out that
ends meanwhile (1164 over 402): the sign-out ends nothing (`Undone`; `RevocationHolds`
fails if `LogoutSave` adds the tokens to `dead` all the same). Setting `refreshTokenId`
to `undefined` leaves the column, so that a refresh token of the release without
sessions is still exchanged after a password change, although the comment at line 544
has it revoked, and after the legacy sign-out, which by line 417 clears it:
`RevocationHolds` claims refresh tokens of sessions only. `RefreshRaces` overlaps a
refresh with sign-outs from a session, password changes and resets, the disabling of
two-factor and administrators; that sign-outs with a legacy token overlap nothing is
assumed by the theorem too, and confirming two-factor overlaps refreshes only there.
A two-factor secret of the time before encryption is stored encrypted when it is first
used: `maybeUpgradeTwoFactorSecret` (`auth.service.ts:1068`) saves the whole row that
the operation read before. For an administrator who proves himself again
(`assertAdminReauth`, line 784) that row may be older than a change of his password,
whose `tokenVersion` is then undone (`RevocationHolds`). `RefreshRaces` therefore has
refreshes overlap an administrator's operations only where no plain secret is stored.

**ReaderProgress.** With `Overlap = TRUE`, two handlers find the same row, and the
older position is saved last (`KeepsNewest`). `ReaderAgrees` is for a reader that is
not used while it waits for an answer, two readers not open at once, and nothing lost.

**PageTurns.** With `PastEnds = TRUE`, a turn at the end of the book leaves the page
where it is; the next report counts for it all the same and the number is off by one
(`CountsTurns`), although CHANGELOG.md:652 has page numbers tied to the page. Closing
the reader resets neither queue nor lock; a resize during a turn is reported as a
turn; a turn taken while the timer has already given up on the last one makes two. A
location that is synchronised between a click and its scroll counts the pending turn
for the old page (`app.service.ts:5306`, 4119). A book opened at a position of the
server's, in a section that the stored map has not numbered, counts from another page
than the map. In these cases `calm` is FALSE, and what is still claimed is that the
queue drains.

**Catalogue.** A list whose pool and covers were asked for before and after a change
shows both Bookdarrs, to the request that made it and, under the old key, to those who
ask after the old configuration has come back, for ten minutes (`OwnPool` claims
nothing of a `changed` list once `back` is TRUE). A slower build
that overlaps a refresh writes its older list over the new one. A refresh while
Bookdarr is down removes the list it had. That the removal of the file may fail is
left out.

**LibraryPage.** With `Ordered = FALSE`, a list answered before a checkout arrives
after it (`CopiesAgree`, `ListCatchesUp`): no answer is matched with what the page has
come to show. Answers to a return clear the device copy of the book the modal shows by
then. Cancelling while the manifest is awaited does not stop the download that its
answer starts. A clear of the book that the worker is fetching ends the download of
one file; the loop goes on with the next and writes the record back, so that a book
returned in the middle of its download may stay on the device (`sw.js:769-786`;
`CopiesAgree` exempts such books, in `spared`). An error that the server answers to
`/library/my` empties the list and ends the polling. `waited` and `good` are the
histories that say none of this has happened.

**MediaStream.** Of a header with several ranges, server and worker answer the first
(`library-streaming.service.ts:170`, `sw.js:83`: the expression is not anchored);
`AsAsked` is about headers with one, and Bookdarr is taken to answer several with the
whole file. A header that does not parse gets the whole file from the worker's chunks,
and 416 from the other sources. A file removed between `stat` and `open` breaks the
answer off, and the read stream has no error listener. An upstream that answers 200 to
the request for a chunk would have the whole file stored as that chunk.

## 7. Proofs

All theorems hold for every value of the constants that satisfies the assumption
named in their module.

`WaitingList_proofs`: pushing, shifting any number, filtering and emptying keep
array and set in agreement. The filter is the hard one: the rank of a kept index is
shown to be a bijection from the kept indices to the positions of the result.

`Checkout_proofs`, first part, about `OfflineDownload` alone: `TypeCorrect`,
`OneLoopAlways`, `QueueAgreesAlways`, `QueueServedAlways`, all from `IInv == WorkOK /\
RestOK`. None of these is inductive alone. That one loop runs depends on the flag
being exact, since only the flag keeps `processQueue` from starting a second; that the
flag is exact depends on there being one loop, since a loop that ends resets it; and a
loop that shifts can rely on its id being one only while array and set agree. `WorkOK`
is their conjunction over `queue`, `queuedIds`, `processing` and `loop`; `RestOK`
types the rest and adds that a request past its `findOne` holds an id.
`ClearingEndsAlways` and `NoResurrectionAlways` (an action property) use `IInv` too;
the second needs `SavesItsOwn`: a request about to save a row is about to save its
own.

The rest of the first part is about rows, files and the queue together, and
rests on `History`: a row, a queued id or a download in hand is of a request that has
begun, and a call holds only ids of its own book.

- `ReadyHasFileAlways` (`~EvictOldest`, and `[]ClearsApart` along the behaviour):
  `ReadyInv` adds that what the loop is about to mark ready lies in place unless its
  book was queued again, and that from its deletion to its `rm` a clear has left
  nothing ready and no download that could become so.
- `CapRespectedAlways` (`SizesKnown`; with `DbErrors` also `[]OneRowPerFile`): `CapInv`
  says that sizes in rows and in the loop are true, that the loop's list of files counts
  every ready one on the disk, and that from the capacity check to the rename that
  list and the new file fit under the cap. Sums over sets of rows are compared by
  lemmas about `Bytes`.
- `ForgottenOnlyByClearAlways`, an action property without a hypothesis. A row stays
  tended because whoever takes it out of one place has put it into the next in the same
  step. Two invariants carry this: what is in `active` is held by a loop
  (`ActiveHeld`), and an id just shifted has not been aborted (`FindFresh`).
- `NothingForgottenAlways` (`NoClears`: no clear, and database calls answer):
  moreover an aborted download is one whose rows a return has deleted or is about
  to delete (`AbortedOut`).

`Checkout_proofs`, second part: `CheckoutImplementsCache`, that the composition implements
`OfflineDownload`: every step of it is a step of the cache or leaves the cache
alone, so the theorems above hold of it (`CheckoutForgetsNothing` is one drawn from
them). What it promises itself holds for overlaps that the theorems name and that
`Benign`, the overlaps of the run, satisfies:

- `OneCopyOutAlways` (`WritesApart`: two checkouts of a book do not overlap, nor a
  return and a mark), from `LInv`: requests under way are of kinds that may overlap,
  each about to write refers to a row of its book, a checkout about to save has seen
  none out, a mark knows whether its row is out, and at most one row is.
- `CachedOnlyWhileOutAlways` (`ReturnsApart`: a checkout and a return do not overlap
  either, and database calls answer), from `CInv`: rows of a book exist only while it
  is out, being returned, or cut off by a restart.
- `ReadyIsCompleteAlways` (`NothingLost`: moreover no eviction and no clear), from
  `FInv`: a checkout has left rows for the files it has passed, a book with rows has
  all of them unless a checkout is filling it, a first checkout resets no row, a return
  that removes files has left no row, and what is or is about to be ready is on the disk.

`DeviceCache_proofs`: `TypeCorrect`, `OneBookAlways`, `QueueAgreesAlways` from
`IInv == Memory /\ QueueAgrees /\ Rest_OK`. `Memory` says that tasks are good: a task
has a book exactly while it works on one, its file is a file of the book, and every
file of the book is settled in its copy, still to come, or the current one.

The second half of `DeviceCache_proofs`: what the user sees, each under an assumption
that its theorem states and that section 6 shows to be needed.
`QueueServedAlways` (IndexedDB works). `ReadyServesAlways` (nothing is cleared): the
invariant `AllHonest` says that no copy of a record, on disk, in the loop, left to
late chunks or in the resumption, calls a file ready that is not complete, and that a running
download has each entry in the cache, still to fetch, or being stored.
`AccountedAlways` (no stop, IndexedDB works): the loop leaves a book with every file
of it settled, which is what the good tasks of `Memory` are for, and so is what late
chunks still write of it (`LateSettled`). `ActiveAgreesAlways`
(IndexedDB works): `activeBookId` is exact through aborts, clears and updates, and is its
own invariant once the loop's tasks are known to be good.

`ReaderProgress_proofs`: `TypeCorrect`, and under `~Overlap` `ImplementsNewestWins`:
initial states map to initial states, and every step to a `Put`, a `PutSilently`, a
`Clear` or a stutter. The invariant behind it is that a handler that has found a row
is the only one that writes, so that the row is still what it found and not newer
than what it will save. `NothingNewerLost` follows from the abstract specification.
`ReaderAlwaysAgrees` needs more: stamps come from a clock that is never behind them
(`Timed`), and while nothing odd has happened, the answers and requests under way are
those that bring reader and server together (`Settling`).

`Accounts_proofs`, for any requests, accounts and overlaps of the kinds each theorem
allows; the run's overlaps, `RefreshRaces`, are among them. `Base` (`TypesAlways`) says
what a request holds at each step, that a request under way overlaps only what it may,
and that tokens, sessions and codes in hand exist.

- `RevocationAlways` (`RacesOnly`: what may overlap is a refresh or a media request with
  an operation that ends sessions, the sign-out from one included): `RInv` says that no token is newer than its user's
  row, that what was ended is older than it or has its session revoked, and, for each
  step between reading a row and saving it, how the version held relates to the row's.
- `ReplaysAreReal` (`RacingApart`: refreshes do not overlap each other): the session that a
  refresh compares with has moved on only if the token was exchanged (`ReplayInv`).
- `SingleUseAlways` (`SpendersApart`: operations that take a code, resets and signups each
  come one after the other): a code acted on once is marked used, or held by the one
  request about to mark it, or counted in `cut` (`OnceInv`).
- `CodesAlways` (`CodesApart`: confirming a setup and making new codes overlap nothing): a
  user without two-factor has no unused code, and a request about to store codes is
  about one who has it (`CodesInv`).

`PageTurns_proofs`: as long as `calm` holds, the reader is in one of four shapes
(`Shapes`): shut, waiting for the user, one turn under way, or going to a place.
`OneTurnAlways` follows, without a hypothesis. `CountsTurnsAlways` (`~PastEnds`, which
section 6 shows to be needed) adds `Numbers`: the map of each book counts from one
place (`CountsFrom`), the section of the page it will be opened at is known to it
(`Covers`), and the number on the screen is that of the page the turn under way leads
to, less that turn. The queue needs an invariant of its own: the place it leads to,
and so every page on the way, has a number of at least 1, since a turn that would
lead below is counted as page 1. `QueueTendedAlways`, without a hypothesis, is the
safety half of `QueueDrains`: while the lock is held or a turn waits, the timer or a
callback is there to go on.

`Catalogue_proofs`: `AlwaysOwnPool` without a hypothesis, from `Own`. A list that no
change overlapped is of the configuration that its key names, whoever reads it
(`Unchanged`). As for the others, as long as no configuration comes back: what is made
or kept under the present key is of the present configuration (`Keyed`), and a request
that reads the file has seen whatever is made or kept under its own key (`Shared`).
`RefreshLastsAlways` uses `Calm`, for as long as builds have not overlapped: one request
builds, for the configuration in force; no entry is older than the last refresh; and a
refresh has removed the old entry before it asks Bookdarr, which keeps a failed write
from leaving the old list in place.

`Client_proofs`, first part, of `MediaStream`: `ParserAgrees` (the parser answers with
the bytes that RFC 9110 says the header selects, and refuses exactly if there are
none), `TypeCorrect`, `AlwaysInOrder` and `AlwaysAsAsked`. The invariant ties the next
chunk to the next byte (while chunks are sent, all before the chunk have come), and
rests on lemmas on division: a byte lies in the chunk that its quotient names.

`Client_proofs`, second part, of `LibraryPage`, from an invariant in four parts.
`Channels` holds whatever happens: a request is in the line once and is in flight,
each detail or list that waits for the worker does so for one message, on its way to
the worker or back, and the last message about a book that is not being fetched tells
how the device has it.

- `ButtonTellsAlways`, without a hypothesis, from `Talking`: a user who waits has one
  request under way, about the book of the modal, whose answer is how things are, and
  what the modal shows is so unless a checkout or a return has been answered that has
  not come in. The order of answers plays no part.
- `CopiesAgreeAlways` (`Ordered`, which section 6 shows to be needed), from `Copying`.
  A book is held if it is not in `spared` and the worker has a record of it, or it is
  queued or being fetched (`Held`). What matters of the orders under way is the last
  one about a book (`Will`: whether the book is held once they are obeyed), which
  obeying does not change. A book that will be held is not refused and is out, or its
  return is in the line (`Out`); a manifest in the line that lets a copy be made is of
  a book that is out or comes before a return of it, and one that does not finds no
  copy, or comes after a return (`Manifesting`). So each return clears what a
  manifest before it has started.

- `ListTendedAlways` (`Ordered`), from `Catching`, is the safety half of
  `ListCatchesUp`: while no request fails, the page has the server's list, or polls it,
  or a request that brings it is under way. The last list in the line is the server's
  but for downloads that have ended since, and such a list has the page poll.

Only model-checked: the liveness properties, which are out of the prover's reach, as
is ENABLED. What is proved of them is that something is there to go on (the two safety
halves above, `QueueServed` of both queues); that it does is fairness, and stays with
the runs. The strengthened invariants of the downloads, the checkouts and the page
hold in TLC on the instances of their runs, too.

## 8. Not modelled

Each component of `PROJECT.json` gives its reason in its note. In short: the rate
limit is one synchronous operation on one map, which a unit test reaches; the HTTP
entry, mailer, Open Library, logging, OpenAPI document, migrations and scripts are
wiring, output or constants; settings, SMTP and reader rows are single upserts;
request predicates are pure. Of the modelled components, these parts are left out:
the detail of a book, which only reads; the app-shell cache of the service worker
and the deletion of older caches; of the web client, layout and themes, the Readium
reader, audio playback, forms, login and settings pages, and the page's own token
refresh, whose server side is `AuthSessions`. Bookdarr, epub.js and the browser
appear as choices of the modules that call them.
