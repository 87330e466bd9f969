# bystander in TLA+

bystander is a feed reader that composes a finite front page from RSS and Atom
feeds. One Go process (`src/internal`) serves several people from two SQLite
databases and fetches, composes and collects in the background. This directory
holds TLA+ models of its core logic, the TLC configurations that check them on
small instances, and TLAPS proofs of the main results for any values of the
constants.

Paths below are relative to `src/internal` unless they begin with `src/`.
`PROJECT.json` names, for each definition, the lines it stands for; for each run
what it checks; and the hazards that the properties are there for.

- [1. The system](#1-the-system)
- [2. The modules](#2-the-modules)
- [3. The runs](#3-the-runs)
- [4. Fairness](#4-fairness)
- [5. The proofs](#5-the-proofs)
- [6. What was found](#6-what-was-found)
- [7. What is not modelled](#7-what-is-not-modelled)
- [8. Plan](#8-plan)

## 1. The system

### Two databases

`main.db` has what people entered: principals, sessions, invitations, recovery
codes and links, feeds, subscriptions, tags, pages and their filters, saved
articles, shares, proxies, jobs. `derived.db` has what can be fetched or composed
again: articles, editions and the articles on them, what a page has shown, what a
person has read. Each file has its own `*sql.DB` with **one** connection. They
are never `ATTACH`ed, so there is no transaction over both and no foreign key
from one to the other; within one file foreign keys are on and cascade.

Two consequences run through every model. A statement (or a transaction on one
file) is an atomic step, and between any two of them every other goroutine may
run. And anything done to both files is done in two steps, with a stop of the
process possible between them.

### Processes

| process | started by | what it does |
|---|---|---|
| request handlers | `api/api.go` | one goroutine per request, any number at once |
| scheduler | `edition/scheduler.go` | one goroutine: at start and every minute it composes the pages that are due, every hour it runs the sweep |
| job runners | `jobs/jobs.go` | one goroutine per kind of job; each tick takes a batch of due jobs and waits for its workers (`feed.fetch`: every minute, up to 100 jobs on 6 workers, one attempt; `image.measure`: every 3 s, one job, three attempts) |
| session sweep | `session/session.go` | deletes lapsed sessions every ten minutes |
| backup pusher | `backup/pusher.go` | one goroutine: every five minutes it reads a digest of what was typed and, if that has changed or the last copy is old, copies the databases and uploads them |

### Components

| component | state | operations | what makes it correct | model |
|---|---|---|---|---|
| Composing (`edition/generate.go`, `scheduler.go`, `store/editions.go`) | editions, edition_items, shown, read_articles; pages.next_edition_at | scheduled turn, re-roll, recompose after a filter was saved, dropping a page's editions, collecting old ones | a page changes only as a whole; no card without its article; the live edition never goes back to one stamped earlier; a due page gets its turn; a page shows what its filter takes | `Editions`, `LivePage` |
| Sampler (`edition/select.go`) | locals of `Select` | three passes over the feeds' queues, one thrown number a turn; then the widths of the cards | one place for a piece; bands in order over all feeds; the loop ends; no picture stretched, few and spread landmarks | `Sampler`, `Selection`, `Layout` |
| Articles (`store/items.go`) | items | save, queue, prune, cap | what a page needs is not collected | in `Editions`, `Fetching` |
| Feeds and subscriptions (`store/feeds.go`, `api/feeds.go`) | feeds, subscriptions | follow, unfollow, import, collect orphans | nothing is left behind for a feed that is gone | in `Fetching` |
| Tags (`store/tags.go`, `api/tags.go`) | tags | create, rename, move, delete, ensure a path | tags are a forest; no two siblings have one name | `Tags` |
| Fetching (`feeds/fetch.go`, `refresh.go`) | validators and next_fetch_at in main.db, articles in derived.db | queue what is due, ask, save, record | validators never claim what was not saved; what stays listed arrives | `Fetching` |
| Job queue (`jobs/jobs.go`, `store/jobs.go`) | jobs | enqueue, take a batch, finish, retry, give up | no job worked twice at once without a claim in the table; attempts are failures; the queue drains | `JobQueue`, `Claims` |
| Accounts (`store/principals.go`, `store/deletion.go`, `api/admin.go`, `api/deletion.go`, `api/account.go`) | principals; everything in derived.db keyed to a person | password, switching off, deletion by an administrator, a week's wait and erasing over both files | an administrator remains; who waited out the week is erased, from both files, in the right order | `Accounts`, `Erasure` |
| Sessions (`session/session.go`, `store/sessions.go`, `api/auth.go`) | sessions | sign in, slide, sign out, end with a password | ended is ended; a password that changes ends what was opened with the old one | `Accounts` |
| Pages and filters (`store/pages.go`, `api/pages.go`) | pages, page_tags, page_feeds | create, patch, delete, rebase the interval | a list is replaced whole; nothing is on both sides; a page waits no longer than its interval | the save and its recompose in `Editions`, pages made and deleted in `Erasure`; the rest not yet, see 8 |
| Saved articles (`store/saved.go`, `store/editions.go`) | saved; the page that is made for them; what its compositions put back into items | save, take back, delete the page, compose | what is saved comes up on its page; a composed page keeps its cards | `Saved` |
| Recovery and invitations (`store/recovery.go`, `recovery_links.go`, `invites.go`) | codes, links, invitations | mail a code, confirm, spend a link, accept | an address is proved by its own inbox; a link is spent once | `Recovery`; what is spent sets a password or opens a session in `Accounts` |
| Measuring pictures (`feeds/measure.go`, `store/images.go`) | sizes and retry times on items | measure, postpone, ask again | a size that is known stays; a picture that can be measured is | `Measuring` |
| Proxies (`feeds/proxy.go`, `store/proxies.go`, `api/proxies.go`) | proxies in main.db, proxy_routes in derived.db | climb the ladder of relays, remember the one that worked; add, edit, reset, delete | a route is learned only of a refusal; a refusal is returned only if every relay gave it | `Relays` |
| Backups (`backup/`, `store/backup.go`, `store/durable.go`) | backup_state | digest, copy, upload, record | what was typed is in the newest copy in the end; a copy restores to a consistent pair | `Backup` |
| Publishing and sharing (`store/publish.go`, `api/publish.go`, `store/shares.go`) | public names, addresses and switches on pages, shares | publish, take down, name, rename, share | a page answers only where its owner put it | not yet, see 8 |
| Rate limiter, OPML, export, mail, parsing and sanitising, settings, HTTP plumbing, web front end | none of their own, or in memory only | | | not modelled, see 7 |

### How they interact

* The **job runner** calls `feeds/refresh.go`, which reads a feed in `main.db`,
  asks the publisher, writes `items` in `derived.db` and then the validators and
  the next time in `main.db`.
* **Composing** reads the page and its subscriptions in `main.db`, the queues of
  articles in `derived.db`, draws, writes the edition and what was shown in one
  transaction on `derived.db` and then moves the page's clock in `main.db`.
* The **sweep** reads lists in `main.db` (pages, principals, feeds) and deletes
  what is not on them in `derived.db`, on the goroutine that also composes.
* The **pusher** reads both databases while everybody else writes them.
* The **measuring runner** reads pictures without a size in `derived.db`, makes jobs
  of them in `main.db` and writes sizes back by URL, to whichever articles carry it
  by then.
* **Handlers** do any of this at any time: a re-roll or a saved filter composes
  on the request's own goroutine, following a feed fetches on it.

### What is hard here

Work that goes from one database to the other and is stopped in between; lists
and rows read early and used late (the filter of a compose, the accounts that are
due, the pages and principals that are live, the validators that are sent); two
goroutines in the middle of the same thing (two composes of a page, a fetch and
the collection of its feed, a sign-in and a deletion); an outcome that must come
about in spite of endless failures (a due page, news from a publisher, an erasure
that was asked for, a picture to measure, a copy of what was typed); and counts
that are one off (places, bands, turns).
`PROJECT.json` lists each hazard at its line, with the properties that cover it
or a note why none does.

## 2. The modules

| module | what it is | composed with |
|---|---|---|
| `Editions` | the life of front pages | `EXTENDS Selection`; implements `LivePage` |
| `LivePage` | what a reader is promised of a page | - |
| `Selection` | which sets of articles a page may be composed of | used by `Editions` and `Sampler` |
| `Sampler` | the rounds of `Select` | its result is a `Selection` |
| `Layout` | the widths of the cards, `assignSlots` | - |
| `JobQueue` | one kind of job and its runner | implements `Claims` |
| `Claims` | a queue in which jobs are claimed, which the code does without | - |
| `Fetching` | feeds fetched by that runner, followed, collected | `EXTENDS JobQueue`; implements it |
| `Measuring` | pictures measured by that runner | `EXTENDS JobQueue`; implements it |
| `Relays` | the ladder of relays a request climbs, and the relays' administrator | - |
| `Saved` | saved articles and the page they are on | - |
| `Tags` | the tree of tags | - |
| `Accounts` | accounts, sessions, deletion, in `main.db` | - |
| `Erasure` | what accounts and their pages leave in `derived.db`, and the sweep that takes it away | `EXTENDS Accounts`; implements it |
| `Recovery` | proved addresses, codes, links, invitations and their mail | - |
| `Backup` | the pusher and what it copies | - |
| `MC...` | constants for TLC; `MCParts` and `MCUpkeep` put several of the above into one specification | - |
| `EditionsProofs`, `RecoveryProofs` | theorems about the module of that name | |
| `AccountsProofs` | theorems about `Accounts` and `Erasure` | |
| `SelectProofs` | theorems about `Sampler` and `Layout` | |
| `QueueProofs` | theorems about `JobQueue`, `Fetching` and `Measuring` | |
| `OutboundProofs` | theorems about `Relays` and `Backup` | |
| `KeptProofs` | theorems about `Saved` and `Tags` | |
| `PartsProofs` | theorems about `MCParts`: each part in it is its own module's | |

`MCParts` has six modules that share no state (`Sampler`, `Layout`, `Relays`,
`Saved`, `Recovery`, `Tags`) and checks them in one go: the first state says which
of them a behaviour is of, the others rest. `MCUpkeep` does the same with `Erasure`
and `Backup`, the two things that run on a clock. A step of the whole is a step of
one part's own next-state relation, so nothing is allowed or forbidden by the
composition; `MCUpkeep` only spares itself starting values that differ in what a
pusher that is off would not read.

Some definitions are called "Mutant of X". They are X with a plausible mistake
in it, used by no specification: put in X's place, each makes TLC report the
property that `PROJECT.json` pairs it with.

### Editions

The state is `main.db`'s filters, clocks and switched-off accounts (`filter`, `due`,
`disabled`), `derived.db`'s
`items`, `editions`, `shown`, `read`, and the locals of whoever is composing
(`task`), the scheduler included.

* A **compose** is cut where the code changes database or reads something it
  later acts on: `ReadUnread`, `ReleaseUnread` (a re-roll or a saved filter first
  forgets having shown what is still unread), `ReadPage` (main), `ReadQueues`
  (derived, and the draw), `AddEdition` (derived, one transaction; the foreign key
  on `items` fails it if a pick has been collected), `ScheduleNextEdition` (main).
  `Nothing` is the early return when there is nothing to draw from, which differs
  for the three callers; `DropEditions` is what a saved filter does then.
* `DuePages` reads the list of due pages once, those of switched-off accounts left out;
  `TakeTurn` works it off, whatever has become of the pages on it and of their owners.
* An edition carries the second it was stamped in, before it waits for the
  connection: `Newer` is the order of the `currentEditions` CTE, by that stamp and
  then by row. `Live` is `CurrentEdition`'s join with `items`.
* The **sweep** (`PruneOldEditions`, `PruneItems`) is enabled only while the
  scheduler is not composing: same goroutine. `PruneItems` removes any set of
  articles no edition holds; retention by age and count decides which in the code.
* `SetRead`, `MarkFeedRead` and their opposites, `SaveItems`, `BecomesDue`, `SwitchOff`
  and `SwitchOn`, `Tick` and `Restart` are the surroundings.

Abstracted: the draw is any set that `Selections` allows (`Sampler` shows that it
is no other); the four lists of a filter are the set of feeds they come down to;
windows and retention are which articles are reachable or go.

`LivePage` has three steps: an arrangement is composed, put up whole, or comes to
nothing. `Editions` implements it with the live edition's articles as `live` and
what each worker has drawn and not yet written as `offer`.

### Sampler, Selection, Layout

`Sampler` has `Select`'s passes over the bands (fresh, unread, read), the line of
feeds (`live`), a cursor into each queue, and the picks. The number thrown lands
on any feed with a length: `Place` takes its next article whose link is not yet on
the page, `TakeOff` removes a feed that has none. Priorities count only as zero or
not: lengths change how likely a draw is, never which draws there are.

`Layout` is `assignSlots` in its stages: mark the bare cards, choose one card in
each band, draw a width for each and hold it to the picture, raise panoramas.
Positions and widths are any that the code can draw. Widths in pixels are the
code's own.

### JobQueue

The table as a function from unique keys to rows or `None`, and what the runner
holds of it: `handed` (read by the sweep, not yet begun) and `running`. `Enqueue`
is `ON CONFLICT DO NOTHING`. `Finish`, `Fail`, `Leave` are the ways `Runner.run`
tells apart: done (or dropped by the handler), failed with or without tries left,
cut short by shutdown. `BeginSweep`/`EndSweep` are the batch and `wg.Wait`. Times
are whether `run_at` has come.

`Claims` is what `internal/jobs` says it does without, a lock manager: a job is taken
by one worker in one step (`Claim`), has so many tries, and goes when they are used
up or it is done. `JobQueue` implements it with the tries a row has left as `left`
and what its workers are at as `holds`, although its table records neither claim nor
worker.

### Fetching

On top of `JobQueue`'s actions: the feeds table (`feed`: validators, due),
articles per feed, what publishers answer with (`published`, external), a request
that follows a feed in three steps (`UpsertFeed`, `Subscribe`, `SaveResolved`),
unfollowing, the sweep (`DeleteOrphanFeed`, `PruneItems`, `PruneUnfollowed`), and
the handler of `feed.fetch`: `ReadFeed`, or `ReadFails` where the row cannot be read,
`Answer` (a document or "not modified") or `Refuse`, `SaveItems` (derived),
`RecordSuccess` or `RecordFailure` (main), `WriteFails` anywhere, `Return` to the
runner, which then writes the job's row or cannot (`Leave`). `Restart` stops the process and
`LoseDerived` starts it on an empty `derived.db`, which the documentation allows.

A publisher's document is its version, which lists the articles of the last
`Listing` versions. Which feed is due when (cadence, back-off, jitter) is any
time. `pruned` and `cycled` are history, read by properties only.

### Measuring

Also on top of `JobQueue`'s actions. `picture` is what each article's row says of
its picture: no size and due to be asked for, put off (`image_retry_at`), or a
size; several articles may carry one. `QueueMeasurement` makes the jobs, asked for
only after a sweep that did nothing (`dry`). A handler asks (`Measure`) and then
records a size (`SetImageSize`), puts the picture off (`PostponeImage`) or cannot
write to `derived.db` (`RecordFails`), for all articles that carry it by then; the
runner finishes with the job's own row (`Measured`), or fails to (`MeasuredInVain`).
Articles come and go meanwhile, `RetryComes` and the administrator's `RetryImages`
end waits, and `StopMeasuring` is a restart. An answer is a size or it is none;
how many bytes of it are read is left out.

### Relays

`ladder` is what each outgoing request is at: the remembered relay is read from
`derived.db` (`Begin`) and looked for in the list (`Find`), tried (`TryKnown`),
stamped (`Keep`) or forgotten (`DropKnown`); then nobody (`AskDirectly`), which may
show that no relay is needed (`Clear`); then each relay on the list, read once a
request (`LoadList`, `Climb`), the first that gets through being remembered
(`Learn`), unless the publisher only asked for patience (`Turned`); and the
publisher's own refusal when none did (`GiveUp`). The administrator adds, edits and
resets relays in one statement and deletes them in two, one for each database
(`DeleteProxy`, `FinishDelete`). Reads and writes that fail are logged and gone on
from, as in the code. `refused` and a request's `blind`, `seen` and `steady` are
history for the properties.

### Saved

`held` is `items`: ids and the guids they are known by; `saved` is the copies;
`home` is the page with `is_saved`, if there is one; `editions` is what it has
composed. A save is `BeginSave` (the article is looked up), `KeepCopy` (the copy and
the page, one transaction on `main.db`) and `DropEditions` (on `derived.db`), and
stops at any point (`SaveFails`). A composition reads copies (`ReadSaved`), then the
articles still held (`ReadItems`), then adds its edition and puts back what has been
pruned, in one transaction (`AddSavedEdition`), which the unique guid may refuse
(`CanPlace`). What it places is what `Select` does with as many sources of one
article each (`PicksOf`): one article of a piece, a piece being what a link leads to
(`Pieces`, `identify`), so that of two saved articles with one link only one comes up.
`Origin` is the feed an article is of and `Link` where it links to. `Ingest` is a feed
that lists an article, under the guid it had or a new one of the same feed that links
to the same (`renameByLink`). The sweep lists the pages first and then collects old
editions, editions of pages that are gone, and articles. `settled` is history: the
saves that whatever is composed from now on has read, because their drop came after
every composition that had not, or because they went into an edition themselves.

Left out: the read mark a save writes between its two other writes, which nothing on
this page reads; its own read marks and the three bands they and `shown` sort the
page into, so that any pieces may fill a page with more of them than places.

### Tags

The table `tag` and what each request is at (`filing`). A tag is read and its new
parent's ancestors are walked a row at a time (`UpdateTag`, `CheckTagParent`) and
only then written (`WriteTag`), whichever columns the request was about
(`RenameTag`). `EnsureTagPath` lists, takes or inserts a segment at a time.
`Writable` is what the schema asks: the parent is there and no sibling has the name.
`DeleteTag` makes the children roots and is refused where a root has a child's name.

### Accounts

`account` is the principals table (password, disabled, and whether `deleted_at`
is unset, within the week or past it), `session` the sessions table, `request` what
each handler is at and `erasing` the accounts the sweep has listed and not erased yet.
A `Session` records, for a property only, the password its account had when it was
opened.

* Signing in is `Authenticate`, `CancelDeletion`, `Issue`: three statements, with
  any other request between. Accepting an invitation leads to `Issue` too.
* A request with a session is `Resolve`, perhaps `TouchSession` (the window slid
  by a later `UPDATE`), and then what it does: `Use`, `SignOut`, `CheckPassword`
  and `ChangePassword`, or `Ask` for a deletion or a switching off.
* Those pass `refuseIfLastAdmin`: `Look`, `Count`, and only then `Disable`,
  `Delete`, or `ReadScheduled`, `ScheduleDeletion`, `Revoke`.
* The sweep lists who is due (`ListDue`) and deletes one after the other (`Erase`); an
  error ends that (`ErasingFails`).
* `GivesUp` is a request that ends early; `Restart` all of them at once. `FallsDue`
  and `Lapse` are time.

An account's id is not used again (`gone`): ids are random.

### Erasure

What of this goes on in two databases. To the state of `Accounts` it adds `page` (whose
each page is; a main page is there as long as its account, whose id gives its own),
`derived` (the rows of `derived.db` by table and id: `editions` and `shown` by page,
`read` by account), what each request is composing, and `sweep`: what the scheduler is
at and the lists it holds.

* The erasing of an account reads its pages (`PagesOf`), deletes it in `main.db`
  (`EraseAccount`, which is `Erase` of `Accounts`) and then its rows in `derived.db` a
  table at a time (`PurgeDerived`). The first error ends the erasing of all
  (`PurgeFails`), and the sweep goes on.
* The collection reads two lists, one after the other: the pages (`LivePageIDs`) and
  the accounts (`ListPrincipals`). `DeleteEditionsExcept` then goes through three
  tables, `editions` and `shown` by the first list and `read` by the second. An error
  ends it (`SweepFails`).
* Meanwhile requests read (`Read`), compose (`BeginCompose`, `AddEdition`) and make and
  delete pages (`CreatePage`, `DeletePage`), and may outlive their account or page. The
  scheduler composes between two sweeps (`DuePage`, `SaveEdition`).
* Everything else is a step of `Accounts` that leaves `derived.db` alone (`InMain`,
  `Elsewhere`), so `Erasure` implements `Accounts`.

`unlisted` is history: the pages and accounts that came to be there since the sweep
listed the pages. They are on no list, so what they have composed and read by the time
of the collection is deleted; `HistoryGoesLast` says that nothing else that is there
loses a row. The note at `store/deletion.go:121` that the other order "would leave an
account whose history had been erased under it" is met by accounts that were there, and
by those alone.

Left out, because they delete rows by other rules: the pruning of read marks of feeds
that are gone (`PruneReadArticles`, `ForgetReadArticles`), a re-roll's `ReleaseUnread`,
`DropEditions`, `PruneOldEditions` and `PruneShown`.

### Recovery

The tables of the ways into an account without its password: `onRecord`
(user_recovery), `pending` (recovery_pending), `link` (recovery_links), `invite`
(invites), beside `account`; what each handler is at (`request`); and, for the
properties and for who may use what, the secrets `made` and where each has
`reached`.

* Mailing a code is `BeginRecovery`, `PendingRecovery` (the address to mail to is
  read back) and then `Sent`, or `SendFails` and `ClearPendingRecovery`. A relay
  that has taken a message may still be heard as one that has not, so a mail that
  failed may have reached its inbox. `ConfirmRecovery` takes the code, a wrong one,
  or finds the attempt lapsed or used up; `TakeOver` moves an address from whoever
  had it.
* A link is looked for (`RequestRecovery`), made (`CreateRecoveryLink`) and mailed,
  or made for an administrator to pass on (`HandLink`). `UseRecoveryLink` is its
  transaction: this one used, the person's others voided. `VoidRecoveryLink` undoes
  what could not be mailed.
* An invitation is mailed (`CreateInvite`) or handed over (`HandInvite`);
  `AcceptInvite` makes the account and, of a mailed one, proves its address.
  Taking one back, by an administrator or because its mail failed, looks
  (`DeleteInvite`, `WithdrawInvite`) and then deletes (`Drop`).
* `SetDisabled`, `DeletePrincipal` (and what cascades), `Lapse...` and `GivesUp` (an
  error, or the process stopping) are the surroundings.

The hash of a secret stands for it; secrets are not guessed, and an inbox's owner
may use what came there from then on. Addresses that differ by case are one. What
the handlers ask first (is mail set up, is the limiter willing, does the password
match) decides only whether they begin.

### Backup

Of `main.db` what the digest counts (`typed`, a content for each table it reads) and
the validators of one feed (`etag`); of `derived.db` that feed's articles (`taken`),
what was read (`reads`) and the record of the last copy (`last`). A pass is
`BeginPass`, `ReadTable` for each table and outside any transaction, `Decide`,
`CopyFile` for `main.db` and, by mode, for `derived.db` after it, `PushAccepted` and
`RecordBackup`; it fails or the process stops anywhere (`PassFails`), and the agent
may have taken what is heard as refused (`ReplyLost`). Somebody types, a feed is
fetched in its two steps and articles are read between any two of these. `returned`
is history: what was typed came back to what the record calls copied. `RecordHonest`
is what lets a pass be spared: where the digest on record is of what is typed, an
agent has a copy of just that.

## 3. The runs

Bounds are in the `.cfg` files. All state spaces of passing runs are searched to
the end.

| run | instance | what it shows |
|---|---|---|
| `editions` | one page of one place, an owner who is switched off and on, two feeds of an article each, any filter, one handler and the scheduler, two editions at once, two seconds, one restart, fairness | `EditionsStand`, `TurnPicksStand`: however turns, re-rolls, saved filters, fetches and sweeps interleave no edition holds a card without its article, and a scheduled turn's picks cannot be collected under it. `LivePageSpec`, `LiveMovesForward`: the page is only ever replaced whole, by what was composed, never by an earlier stamp. `DuePagesTurn`: a due page with something to show gets its turn, unless its owner is switched off |
| `editions_stale_filter` | the same without restart | expected violation of `FilterHonoured` |
| `parts`: choosing | three feeds, five articles, two pieces in two feeds each, every way of queueing them, one feed at priority zero or none | `ChoosesASelection`, `WorkIsBounded`: the page is one of `Selections`, in at most n + 3m turns |
| `parts`: arranging | every page of up to nine cards whose kinds repeat every three, of eight kinds | `NeverPastTwice`, `LandmarksSpread`: no picture past twice its size in a wide slot; no more landmarks to the end of a band than bands |
| `parts`: relays | two relays, one publisher, two requests and the administrator | `RoutesFromRefusals`: a relay is remembered only of a publisher that turned a direct request away, and not for asking too often. `RefusedEverywhere`: a request comes back refused only if every relay that was on throughout refused it |
| `parts`: saving | three articles of two pieces, one piece in two feeds, one save, one composition, one page of two places, two editions at once | `SettledIsUp`: a page with room has the piece of every save that no composition can miss any more. `CardsStand`: a composed page keeps its cards until it is replaced or dropped |
| `parts`: recovering | an account and one that may be invited, two addresses, two secrets, two requests, one guess | `ProofsGoHome`: what still proves an address has been read in that inbox or nowhere. `ProvedStaysProved`: an address on record goes only when it is given up or proved elsewhere. `SpentStaysSpent`: a link used or voided stays so |
| `parts`: filing | three tags, two names, paths two deep, one request at a time | `TagsAreATree` while requests do not overlap |
| `measuring` | two pictures, three articles two of which share one, one worker, two tries, one host that answers now and then, fairness | `ClaimsSpec`: the runner is as good as one that claims jobs: none is worked twice at once, and each has its tries, which only failures use up. `SizeIsKept`: a size once known stays. `QueueDrains`, `EveryPictureIsMeasured`: every job ends, and no picture is forgotten |
| `fetching` | one row, one worker and a request that follows, two documents, one loss of `derived.db`, fairness | `ValidatorsCovered` over every order of fetches, following, collection, failed reads and writes, restarts and a loss; `NewsArrives`, `OrphansCollected` |
| `fetching_lost` | one row, one document, one loss | expected violation of `OneCycleRebuilds` |
| `accounts` | an account and an administrator invited from the command line, two passwords, three cookies, two requests and the sweep | `SessionsHaveAccounts`, `OneOutlivesPassword`, `EndedStaysEnded` |
| `accounts_last_admin` | two administrators, one request at a time | expected violation of `AnAdminStays` |
| `recovery_cleared` | one account | expected violation of `NothingWaiting` |
| `upkeep`: sweeping | an account, another still to be invited, their main pages and one page more, one request, fairness | `HistoryGoesLast`: no row goes from under a page or an account that is there and was when the sweep listed the pages. `DueAreErased`: who waited out the week is erased or has signed in. `NothingLeftBehind`: of what has gone no row is left in the end |
| `upkeep`: pushing | one table of two contents, a fetch and a reading, one fault, every mode, fairness | `RestoresCovered`: no copy has validators ahead of its articles. `RecordHonest`: the record of a copy vouches for what an agent has. `TypedIsKept`, `ReadsKept`: what was typed and left alone is in the newest copy in the end, and with mode `all` what was read |
| `saved_renamed` | two guids of one feed that link to one place, one save, one composition | expected violation of `CopiesGoBack` |
| `tags_cycle` | two tags, two requests at once | expected violation of `TagsAreATree` |

`parts` and `upkeep` are one run each. Every module's state has one type invariant
(`PartsTypeOK` is the conjunction of six), checked by the first run that has the
module; several of them say more than types: that ids are not used again, that a
handler is at something exactly while its worker holds a job, that whatever an
edition places is held.

Why the bounds are enough to be interesting:

* `editions`: two editions and two seconds are what it takes for commits to land
  in the other order than their stamps; two articles for one place, in two feeds a
  filter may take or not, give a page with a choice, one without and one with
  nothing to show; a handler and the scheduler are two composes of one page. Larger
  pages are the business of choosing in `parts`. `Room` is the only guard the code
  does not have: it bounds the editions of a page.
* Choosing: a piece in two feeds, in the same band or in two, and reached from
  either first; a queue that runs dry before the page is full and one that does
  not. Arranging: nine cards make two bands, with a remainder at every size; each
  kind of card falls on the opener, in each band and at the end. Both are
  algorithms that end, so `parts` is not checked for deadlock.
* Relays: two relays are one that is remembered and another that is tried instead
  of it, two requests one that learns what the other forgets. Publishers do not
  meet but in the rows of a relay that is deleted.
* Saving: three articles are a piece that two feeds carry and a second piece, so that
  two saves may be of one piece, and one of them stand for both. Two places on the
  page are room to spare (one piece) and none (two). `MaxEditions` bounds the editions
  of the page. In `parts` no article is renamed, for no feed has two with one link: that
  is what `saved_renamed` is about, whose two guids are one article under two names,
  and the theorems of section 5 are for any guids, feeds and links.
* Recovering: two secrets are a code and the one that replaces it, a link and a
  second one, a code and an invitation to the same inbox; two requests are one that
  undoes what the other has done since; the invited account is the one an address
  moves to. `MaxAttempts` 1 is a wrong code and no more.
* Filing: three tags are a tag, its parent and a place to move either; the walk goes
  over two ancestors. With two requests at once two tags are enough to fail.
* `measuring`: two articles share a picture, so that one may come or go while it is
  measured for the other; one of the hosts never answers with a size. Two tries are a
  job that fails, waits and is tried again. That jobs and workers of any number
  share nothing but the table is what `ClaimsSpec` is proved for.
* `fetching`: one row is one that is deleted and made again when its address is
  followed again, while a worker still has the old one; the follower's own request
  is the second process that saves for it. Two documents of one article each make a
  publisher's old news fall off the list. `ValidatorsCovered` is proved for any rows
  and workers.
* `accounts`: two cookies are what `OneOutlivesPassword` relates, a third is a session
  opened meanwhile; two requests are what it takes to race, two passwords a change and
  a change back. The account there from the start is not an administrator: one is
  invited from the command line, as on an instance that has lost its last one, so that
  accounts both are there and come.
  `accounts_last_admin` has two from the start.
* Sweeping: an account that is there is one that may fall due, one that is invited comes
  between the sweep's two lists or after them; the page beside the main ones is made and
  deleted at any moment of that. One request is the one that outlives what it writes for.
* Pushing: one table is read at another moment than it is copied, which is all the
  tables' digests have in common; one fault is a pass refused or lost after which
  passes go through.

`parts` is taken up to symmetry. The two secrets of recovering and the two relays
are one pair of values, as are the requests of both: a behaviour is of one part, so
a permutation moves only that part's own, and neither the guards nor the properties
of `parts` tell them apart (all are invariants and action properties). `accounts` has
the symmetry of its passwords, cookies and requests for the same reason. Runs with a
liveness property have no symmetry, and none has a constraint on states.

Some outcomes need two requests at once where a passing run has one: a path's
parent that is deleted between two of its segments (`NextSegment`) comes up in
`tags_cycle` only.

## 4. Fairness

* `Editions`: weak fairness of each worker's next step (a goroutine that can go on
  does; the HTTP server does not abandon a handler half way), of `TakeTurn` and of
  `PruneOldEditions` (the sweep comes round). `DuePages` is strongly fair only
  because of `Room`, which the code does not have and which may hold it back again
  and again. `Restart` is bounded there.
* `Fetching`: the sweep and the runner's loop weakly; the steps of a fetch strongly,
  because restarts, refusals and failed writes are not bounded and each of them
  interrupts. What is assumed is that they are not all there ever is.
* `Measuring`: the tick, the end of a sweep and each handler's next step weakly
  (requests have a timeout), and waits run out. Strongly, that a job is taken (the
  batch takes the oldest first), begun and ended other than by a stop, and, of a
  picture whose host answers now and then, that it is queued and that such an answer
  comes while it is asked for. Where no host answers, the write that puts the picture
  off goes through or fails, but does not hang.
* `Erasure`, in `upkeep`: again and again a sweep gets through its collection to the
  last table (`CollectsAll`), whatever restarts and errors came before; of each account,
  that its pages are read and its row deleted, strongly: statements fail, but not that
  one whenever it is tried; and a week passes. The last but one is more than the code
  promises: the comment at `store/deletion.go:148` says that a row that will not go
  "takes itself out of the pass rather than the rest of them", but the code returns at
  the first error, so an account that never could be deleted would hold up those
  listed after it. Nothing is assumed of people: no request is fair. `Accounts` alone
  has no liveness property.
* `Backup`, and in `upkeep`: the pusher's next step and the passing of its period,
  weakly; what goes wrong is bounded by `MaxFaults`.
* `Sampler`, `Layout`, `Relays`, `Saved`, `Recovery` and `Tags` have no liveness
  property in a run and assume no fairness: a mail may stay on its way for ever, a
  request may hang.

## 5. The proofs

Each `...Proofs` module is checked with `tlapm`; nothing is assumed but the named
assumptions about constants (`ConstantsAssumption`, `SamplerAssumption`,
`LayoutAssumption`, `JobQueueAssumption`, `FetchingAssumption`,
`MeasuringAssumption`, `RelaysAssumption`, `SavedAssumption`, `TagsAssumption`,
`AccountsAssumption`, `ErasureAssumption`, `RecoveryAssumption`, `BackupAssumption`):
types, and that `None` and its like are none of the values they stand beside. TLC
evaluates them in every run of the module.

| theorem | states | by |
|---|---|---|
| `EditionsProofs!TypeCorrect`, `EditionsAlwaysStand`, `TurnPicksAlwaysStand` | `TypeOK`, `EditionsStand`, `TurnPicksStand` | `IInv` |
| `EditionsProofs!LiveNeverGoesBack` | `LiveMovesForward` | `AppendNewest`: of the old newest and the new row one is the newest |
| `EditionsProofs!PageChangesWhole` | `Spec => LP!Spec`, that is `LivePageSpec` | a step mapped for each action |
| `EditionsProofs!FiltersHonouredAlone` | `FilterHonoured`, where `Undisturbed` | `HonestPage` |
| `SelectProofs!SamplerTypeCorrect`, `RoundsChooseASelection`, `WorkAlwaysBounded` | `TypeOK`, `ChoosesASelection`, `WorkIsBounded` | `IInv` |
| `SelectProofs!LayoutTypeCorrect`, `PicturesNeverPastTwice`, `LandmarksAreSpread` | `LayoutTypeOK`, `NeverPastTwice`, `LandmarksSpread` | `LayoutInv` |
| `SelectProofs!BareCardsAreBriefs`, `PicturesShapeWidths`, `LandmarksAreFew` | `BareStaysBrief`, `WidthFollowsPicture`, `FewLandmarks`, which no run repeats | `LayoutInv` |
| `QueueProofs!QueueTypeCorrect`, `JobsAreNeverTakenTwice`, `AttemptsCountFailures` | `QueueTypeOK`; `NoJobTwice` and `AttemptsAreFailures`, which the refinement of `Claims` rests on and no run repeats | `QueueInv` |
| `QueueProofs!FetchingImplementsQueue`, `MeasuringImplementsQueue` | either is a `QueueSpec`; and so `FeedsAreNeverFetchedTwice`, `PicturesAreNeverAskedTwice` | a step of the queue, or none, for each action |
| `QueueProofs!ClaimingIsUnnecessary`; `FetchesNeedNoClaims`, `MeasuringNeedsNoClaims` | `QueueSpec => ClaimsSpec`, and so the same of `Fetching` and `Measuring` | a step of `Claims`, or none, for each action |
| `QueueProofs!FetchingTypeCorrect`, `ValidatorsNeverRunAhead` | `TypeOK`, `ValidatorsCovered` | `FetchInv` |
| `QueueProofs!OneCycleRebuildsUnlessLost` | `OneCycleRebuilds`, where `derived.db` was not lost | `FetchInv`, `FollowedHaveRows` |
| `QueueProofs!MeasuringTypeCorrect`, `SizesAreKept` | `MeasuringTypeOK`, `SizeIsKept` | `PicturesOK` |
| `OutboundProofs!RelaysTypeCorrect`, `RoutesComeFromRefusals`, `NoRelayOffIsDialled`, `GivesUpRefusedEverywhere` | `RelaysTypeOK`, `RoutesFromRefusals`, `OffIsNotDialled`, `RefusedEverywhere` | `RungOK` for each request |
| `OutboundProofs!BackupTypeCorrect`, `ArchivesRestoreCovered` | `BackupTypeOK`, `RestoresCovered` | `BackupInv` |
| `OutboundProofs!RecordsAreHonest` | `RecordHonest` | `HonestOK` |
| `KeptProofs!SavedTypeCorrect`, `SavesComeUp`, `CardsStay` | `SavedTypeOK`, `SettledIsUp`, `CardsStand` | `SavedInv` |
| `KeptProofs!OnlyRenamedStayOut` | `CopiesGoBack`, where no two articles of one feed link to one place | `NamesInv` |
| `KeptProofs!TagsTypes`, `OneRequestKeepsATree` | `TagsTypeOK`; `TagsAreATree` for one request at a time | `TagsInv`, `TreeInv` |
| `AccountsProofs!AccountsTypes`, `SessionsOnAccounts`, `OneSessionOutlives` | `TypeOK`, `SessionsHaveAccounts`, `OneOutlivesPassword` | `AccountsInv` |
| `AccountsProofs!EndedForGood` | `EndedStaysEnded` | the kinds of step |
| `AccountsProofs!ErasureImplementsAccounts` | `ErasureSpec => Spec`, so that the above holds beside the erasing | a step of `Accounts`, or none, for each action |
| `AccountsProofs!ErasureTypes`, `HistoryLast` | `ErasureTypeOK`, `HistoryGoesLast` | `ErasureInv` |
| `AccountsProofs!AnAdminStaysOneByOne` | `AnAdminStays`, where `OneRemoval` and `NoneAsked` | `AdminInv` |
| `RecoveryProofs!RecoveryTypes`, `SecretsGoHome` | `RecoveryTypeOK`, `ProofsGoHome` | `RecoveryInv` |
| `RecoveryProofs!ProvedAddressesStay`, `SpentLinksStay` | `ProvedStaysProved`, `SpentStaysSpent` | `OneHolder`; a step for each action |
| `RecoveryProofs!NothingWaitsForOne` | `NothingWaiting`, where `OnePerAccount` | `OwnAttempt` |
| `PartsProofs!PartsAreTheirOwn`, `ChosenAndArranged` | `PartsSpec` implies the specification of each part | a step of one part and rest of the others |
| `PartsProofs!PartsTypesHold` | `PartsTypeOK` | the types of the six parts |

The inductive invariants and why the properties alone are not enough:

* **Editions**: `IInv` adds that what is about to be written fits the page
  (`PicksFit`; else the size of an edition is not inductive) and that a page with
  editions has a newest one in the order of stamps and rows (`NewestExists`; else
  `CHOOSE` says nothing). `TurnPicksStand` is inductive only with the guard that
  the sweep waits for the scheduler, and `EditionsStand` needs the foreign key for
  everybody else: the two protections the code relies on.
* **Sampler**: pieces are placed once; what a cursor has passed is on the page; a
  band that is behind is dry or the page was full in it; and for the bound on work,
  turns plus the feeds on the line never exceed the places filled plus the feeds of
  the passes begun (`Spent`).
* **Layout**: the j-th card to be widened lies past the first j - 1 bands (`Chosen`),
  there are never more of them than bands begun (`Counted`), and whoever stands out
  is one of them or a panorama (`Landmarks`); `HeldToPicture` is what the code's
  `narrower(drawn, widestSlotFor(item))` is worth for every picture.
* **JobQueue**: that no job is taken twice rests on a fact the code has no name
  for: between sweeps nobody holds anything (`IdleBetweenSweeps`). `Fetching` and
  `Measuring` implement the queue, so both inherit it.
* **Fetching**: the invariant follows what a handler carries between the databases
  (`HandlersCovered`): the validators it sent are covered by what is saved until it
  is answered, and the document it saved until that is recorded.
* **Relays**: what a request remembers of its own climb ties the rungs together
  (`RungOK`): with a list in hand, every relay that has been on throughout is on it;
  whoever is about to be remembered, or was, stands beside a publisher that really
  refused; whoever is dialled was on at some moment since the request began.
* **Saved**: whatever is settled is among what a composition has read, once it has
  read (`OneComposition`), so that an edition added late has its piece or is full; and pages
  the person never had have no editions, so that a page made anew starts empty
  (`PagesOK`). Guids stay unique because an article is put back only under an id and
  a guid that nobody holds.
* **Tags**: while a tag is on its way to a new parent, what the walk has met lies
  between that parent and where the walk is (`Climbed`), and when it has come to the
  root none of it is the tag itself. A tree is stated by sets rather than by paths:
  of any tags some one is not under another of them (`NoCircles`); one write cannot
  close a circle that the walk has not gone through. With two requests the invariant
  is false, and `tags_cycle` shows where.
* **Accounts**: each of the thirty-odd actions changes `main.db` in one of seven
  ways (sessions end, a row changes but for its password, a password is renewed, an
  account leaves or joins, a session is opened or slid), and `TableStepInv` is
  proved once for each of those.
* **Erasure**: first that a step is one of `Accounts` or none, so that its invariant is
  at hand. `ErasureInv` then says whom the deletes can reach: of the pages read before
  an account is deleted none is anybody else's (`TargetOK`), and whatever page or
  account is there while the sweep has its lists is on them or `unlisted`, and what is
  on the list of pages is there or gone for good (`ListsOK`). The last needs that a
  page's owner exists or has gone (`PagesOK`), and that whoever is on the sweep's list
  to be erased was an account (`ErasingOK`). Lists may be empty, where the code deletes
  everything: then whatever is there is `unlisted`.
* **Recovery**: `ProofsGoHome` speaks of secrets that have arrived; the invariant
  adds those on their way (`OnItsWay`: a request that is sending a code or an
  invitation that still works is sending it where it must be read), and that
  nothing has a secret that was not made (`MadeOK`), so that a new one is in no
  inbox yet. Steps that only take away keep all of it, which is proved once
  (`LessensKeeps`). `ProvedStaysProved` needs that an address has one holder
  (`OneHolder`), which the table's unique index would otherwise be asked for.
* **Backup**: validators never run ahead of articles in the databases themselves,
  and a copy of `main.db` in hand is never ahead of what `derived.db` holds by then
  (`DatabaseOK`, `CopyOK`). The order of the two copies is what that rests on.
  `RecordsAreHonest` is the safety half of `TypedIsKept`: a pass that is spared lost
  nothing. `HonestOK` adds the copy in hand: where it is of something else than what
  is typed, although the record or the digest is of that, what was typed has returned;
  and what is recorded is what was sent.
* **Parts**: no state is shared, so a step of the whole is a step or a rest of each
  part. Choosing and arranging start from an input only where they are the part
  that runs, so of those two it is said under that condition.

**What the violations rest on.** Each of the six claims that a run refutes (section 6)
does hold under a condition, and that it does is proved for every value of the
constants. So whatever breaks the claim breaks the condition first, and the condition
says what a mend would have to bring about.

| claim | holds where | theorem |
|---|---|---|
| `FilterHonoured` | one worker at a time composes a page, what a save of its filter picked is not collected before it is written, and no restart falls between the save and its recompose (`Undisturbed`) | `FiltersHonouredAlone` |
| `OneCycleRebuilds` | `derived.db` was not lost | `OneCycleRebuildsUnlessLost` |
| `AnAdminStays` | no administrator has asked to be erased (`NoneAsked`) and one request at a time is between counting administrators and taking one away (`OneRemoval`) | `AnAdminStaysOneByOne` |
| `NothingWaiting` | no two requests are at one account's attempt (`OnePerAccount`) | `NothingWaitsForOne` |
| `CopiesGoBack` | no two articles of one feed link to one place, so that none is renamed (`LinksTell`) | `OnlyRenamedStayOut` |
| `TagsAreATree` | one request at a time (`OneRequest`) | `OneRequestKeepsATree` |

The conditions are of what happens in a behaviour (`Undisturbed`, no loss, `OneRemoval`,
`NoneAsked`, `OnePerAccount`) or of what there is (`LinksTell`, `OneRequest`).
`FilterHonoured` needs all three parts of its own: with any one left out TLC breaks
it, by an overlapping compose, by a pick collected between a patch's draw and its
write, and by a stop between a save and its recompose. `AnAdminStays` needs both: two
who ask one after the other break it without `NoneAsked`, two administrators who
switch each other off at once without `OneRemoval`. The invariants are:

* `HonestPage`: a compose has the filter that its page has now and picked what it
  takes, nothing is stamped later than the compose that is about to write, and what
  is up honours the filter or a patch is on its way to replace it.
* `AdminInv`: some administrator can sign in, and one more than the one that a
  request is about to take away; none is on the list of the sweep.
* `OwnAttempt`: the code an account waits for is the one its request has made.
* `NamesInv`: every article is held, saved, carried and composed under the id it has
  of its guid.

**Only model-checked**: the liveness properties (`DuePagesTurn`, `QueueDrains`,
`NewsArrives`, `OrphansCollected`, `EveryPictureIsMeasured`, `DueAreErased`,
`NothingLeftBehind`, `TypedIsKept`, `ReadsKept`), since liveness under fairness is not
within TLAPS; and that the six claims fail without their conditions. Every safety
property that a passing run checks is proved.

## 6. What was found

Six disagreements between the code and what it says of itself, each with a run
that ends in a counterexample. Section 5 says, of each, under what condition what is
said does hold:

* **`FilterHonoured`** (`api/pages.go:245`). Saving a filter recomposes the page or
  drops it, so that it does not show "a page they have just told the program not to
  want". A compose that read the old filter before the save can commit after it.
* **`OneCycleRebuilds`** (`feeds/fetch.go:127`). "Losing `derived.db` costs one
  fetch cycle": the validators in `main.db` survive, publishers answer "not
  modified", and the articles stay away until something new is published.
* **`AnAdminStays`** (`store/principals.go:233`). The last administrator may not ask
  to be erased; but administrators who have asked still count as the others. Two
  who ask one after the other are both let go.
* **`NothingWaiting`** (`api/account.go:249`). A code that cannot be sent "leaves
  nothing waiting" (`docs/mail.md`): but the row that is cleared is the account's,
  whichever code it is of by then. A mail that fails late drops the attempt of a
  newer request whose code is in the inbox.
* **`CopiesGoBack`** (`store/editions.go:158`). A saved article that was pruned is to
  be put back from its copy. The insert is ignored without a word where the guid is
  held under another id, which a rename can bring about, and then the placement
  fails: every composition of the saved page that draws it does.
* **`TagsAreATree`** (`store/tags.go:146`). "A cycle cannot be written": the walk that
  looks for one and the write are not in one transaction, and two moves at once
  write one.

Others are modelled and allowed by every property, and recorded as hazards with a
note: a page re-rolled while the scheduler still has it on its list is composed
again; a page emptied by its filter keeps its clock; a re-roll whose compose fails
has forgotten what was shown; an account signed into while the sweep erases others
is erased; the erasing of accounts stops at the first that fails; a page or an account
made while the sweep has its lists loses what it has composed and read; an invitation
accepted between the look and the delete of its withdrawal loses its row; switching
a relay off and on does not forget its routes, though a comment says so; what was
typed and taken back may be missing from or left in the newest copy; a look that
read what is saved before a save commits puts up a page without it; a tag whose
child has the name of a root cannot be deleted.

## 7. What is not modelled

* **How likely** anything is: priorities as lengths, the weights of widths.
* **Clock times**: cadence, back-off and jitter of fetches, retry waits, retention
  by age. Models say that a time comes, not when; only the second an edition is
  stamped in counts.
* **Text**: parsing and sanitising feeds, OPML, mail, templates. Names of tags are
  alike or not: two that differ by case alone, which the code finds by one rule and
  keeps unique by another, are left out.
* **The web front end**: it shows what the API answers.
* **Settings, command line, migrations, wiring**: run once, before anything above.
* **The rate limiter**: a count in memory under one lock.
* **The export of an account**: a read of every table.
* **Publishing, sharing and most of a page's own settings**: see the plan.

## 8. Plan

Done: everything in section 2, with the proofs in section 5. What is left of the
system's own logic, in this order:

1. `Pages`: a page's settings and its publication. Reading the code for it has shown
   what the model is to be about:
   * `UpdatePage` (`store/pages.go:393`) replaces the four lists one after the other
     in tables keyed by page and tag (or feed). A tag moved in one save from the side
     that is dropped to the side that is taken meets its old row and is refused as
     "not something this page can filter by", although `noBothSides` has accepted the
     save; the other direction works.
   * The interval's rebase against `ScheduleNextEdition` (`store/pages.go:500`): a
     composition that read the page before its interval was shortened writes the
     clock of the old one after it.
   * `patchPage` compares the page as read before and after its save to decide
     whether to recompose; another save in between can leave both without cause.
   * `publishPage` (`api/publish.go:83`) reads the instance's settings, the page and
     its owner's public name in a statement each before it publishes. A name given up
     in between has taken down what was published until then (`SetPublicName`), and
     the page goes up under no name: it answers again as soon as its owner chooses
     one. The same holds of an instance that stops indexing in between, against
     "a page that stored `indexable` while the instance said no".
   * `PageOf` and `PublishedPage` read a page and its lists in five statements.
2. `Sweep`: the order of the whole sweep over all its lists and tables at once.
3. The bands a saved page is sorted into, and its read marks (`SetSavedRead`).
4. In `Erasure`, the other passes that take rows of `derived.db` away.
