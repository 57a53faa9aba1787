# netplex-support: verification project

TLA+ models of the netplex-support service (`src/`), checked with TLC on small
instances and, for the properties that matter most, proved with TLAPS for every
value of the constants. Every definition is translated from the Python source;
`PROJECT.json` gives the lines each one stands for.

## 1. The system

One uvicorn process runs a FastAPI application (`app/main.py`) on an asyncio event
loop, with SQLAlchemy async sessions over SQLite (default) or Postgres. Requests
are coroutines: between two `await`s a handler runs alone, at every `await` any
other handler may run. There is no lock, no explicit transaction isolation and no
uniqueness constraint beyond primary keys.

| Component | Source | State | Operations | Module |
|---|---|---|---|---|
| Ticket store | `app/models.py`, `app/db.py` | table `tickets` | `create_or_dedupe`, `get_ticket_by_origin_local_id`, `get_ticket`, `admin_queue` | `TicketStore`, `TicketStoreSerial`, `DedupeLedger`, `SharedLedger` |
| Intake routes | `app/routers/diagnostics.py` | none of their own | `/forward`, `/web`, `/email` | `Intake` up to `create_or_dedupe`, `TicketStore` from there |
| Rate limiter | `app/ratelimit.py` | `_hits`, in memory | `rate_ok`, and the order in which routes call it | `RateLimiter`, `SlidingWindow` |
| Client IP | `app/auth.py` | none | `client_ip` | `ClientIp`, `Edge` |
| Body limit | `app/main.py` | a count per request | `_BodySizeLimitASGI` | `BodyLimit`, `Edge` |
| Release authority | `app/routers/releases.py`, `app/models.py` | table `release_manifests`, append-only | `/upload`, `/manifest/{channel}` | `SignedUploads`, `Register` |
| Licensing authority | `app/routers/licensing.py`, `app/models.py` | table `license_tokens`, append-only | `/register`, `/registered/{ref}`, `/verify` | `SignedUploads`, `Register` |
| Signing, trust store | `app/crypto/signing.py`, `app/config.py` | environment settings | `verify_manifest`, `trust_store_from_settings` | `Signing` |
| Schema start-up | `app/db.py` | the schema | `init_db` | `SchemaInit` |
| Views | `app/routers/tickets.py` | none | read-only routes: triage queue, by origin, diagnostic | `TicketStore` (operators) |
| Attachment upload | `app/storage/blobs.py` | none: `put_blob` stores nothing yet | `/attachment` | not modelled |
| Bearer checks | `app/auth.py`, `diagnostics.py` | none | compare a header with configured tokens | guards of `Intake`; `require_admin` not modelled |
| Download stamps | `tools/stamp_download.py` | files in a tree, an append-only ledger | `stamp_artifact` | `Stamps` |
| Leak attribution | `tools/attribute_leak.py` | none: reads a leak and the ledger | `--scan`, `_attribute` | `Stamps` |
| Seat report | `tools/concurrency_report.py` | none: reads the check-in ledger | `analyze` | `SeatReport` |
| Signing tools | `tools/mint_license.py`, `mint_crl.py`, `sign_*.py`, `gen_keypair.py` | files | mint, sign | `Signed` of `Signing`; the rest not modelled |
| Deployment | `deploy.sh`, compose, Dockerfile | - | restart policy | the restart actions |

How they interact. A request passes the body limit, then its handler; the handler
resolves the client IP, spends one or two rate-limit slots and calls
`create_or_dedupe` with its own session. The licence and release routes verify the
document against the trust store (built from the settings on every call) and append
a row. Modules share state only through the database and `_hits`; settings are read
once, when the process starts. The offline tools share no state with the server; the
stamping and attribution tools meet in the stamp ledger and in what customers leak.

### What is hard here

* **Interleaving at awaits.** `create_or_dedupe` is SELECT, compute in Python,
  COMMIT, refresh: three awaits, no lock. Two overlapping calls can read the same
  row, or both find none.
* **Partial failure.** A round trip can raise at any await. A COMMIT that succeeded
  before a refresh that failed leaves a stored row and a caller told 500.
* **Restarts.** The container restarts; in-flight handlers and the limiter's memory
  are gone, the tables stay. A restart is also how keys are rotated or revoked.
* **Order.** Ids are given at the INSERT, rows become visible at the COMMIT, and
  timestamps are taken before either.
* **Boundaries.** `> 60.0`, `>= limit`, `< now`, `> cap`: each comparison decides
  whether a promise holds at the edge.
* **Tools that die half-way.** `stamp_download.py` writes site after site, then a row of
  a ledger, with nothing that makes them one step; `attribute_leak.py` meets what is
  left, mixed with other copies, stripped, altered or forged.
* **Ledgers written by others.** The seat report reads lines that may lack any field
  and that span renewals.
* **Schemas of the past.** A start finds a database made by any earlier version or
  by an interrupted start.

What makes each part correct is stated as the properties of its module (section 3);
`PROJECT.json` lists under `hazards` what can go wrong, line by line, and which
property would show it.

## 2. Modules and how they correspond to the code

**TicketStore.** `tickets` is the table; `pc`, `cur`, `since`, `snap` are the frame of
each handler: the await it is suspended at, the report it serves, when it last
resumed, and the row its SELECT returned. `Call` is the code up to the first await
(a report without fingerprint skips the SELECT), `Select` the dedupe query and the
branch on it, `CommitUpdate` and `CommitInsert` the flush and COMMIT of the two
branches, `Refresh` the refresh and the 202. The UPDATE writes the values computed
from the handler's own snapshot, which is what SQLAlchemy flushes: only the assigned
columns. `Fail` is an exception at any of these awaits, `Crash` the end of the
process. `SetStatus` is an operator: nothing in this repository changes a status, but
`OPEN_STATES` shows that somebody does; a closed ticket is taken to stay closed.
`reports`, `home` and `answer` are history variables. A box that retries sends a new
report: nothing in a request identifies it as the same one. Two timestamps a handler
takes after one await are within the interval since it resumed. The read-only routes are operators:
`AdminQueue(limit)` is the set of answers the triage query can give (rows of one score
and one `last_seen` compete for the last places), `View` is `TicketView.of`,
`TriageQueue`, `GetByOrigin` and `GetDiagnostic` the routes on top.

**DedupeLedger / TicketStoreSerial.** The ledger is what the documentation promises:
reports assigned to the open ticket of their (fingerprint, source) and counted
exactly. `TicketStoreSerial` is the store with one handler, and `ImplementsLedger`
maps it to the ledger (`count`, `key`, `open` from the table, `plan` from the frame).

**SharedLedger.** What remains of the ledger when calls overlap, and is still a promise:
a report is filed at most once, at one instant, in a ticket of its own key or in one
opened for it; at most `Overlap` tickets of a key are opened side by side; a receipt
names, once and for good, the ticket the report is filed in. Only counts are loose:
`Merge` may set any number from 2 to the reports filed. That a count may even fall below
what it was is not caution: of three overlapping calls the slowest writes the oldest
number. `ImplementsSharedLedger` maps `asked` to the keys of `reports`, `filed` to
`home`, `count`, `key` and `open` to the table, `receipt` to the answers that are 202,
and `Overlap` to the number of handlers. `Call` is `Ask`, the two COMMITs are `Merge` and
`Open`, `Refresh` is `Acknowledge`, `SetStatus` is `Close` or nothing; everything else,
`Select` and every failure, is no step at all.

**RateLimiter.** `hits[k]` is the deque of bucket `k`; `RateOk` is one call of
`rate_ok`, which never awaits, as one step: how many old hits the loop drops, the
decision, the append. `Forward` asks the IP bucket, and only when it has room the
install bucket. `log` and `dropped` are the history of accepted calls of one life of
the process; `Restart` empties everything.

**SlidingWindow.** The limiter as `ratelimit.py` describes it: it remembers every call it
accepted and accepts one exactly when fewer than `Limit` of them are at most a window old.
Buckets of addresses are asked alone (`Ask`) or, on `/forward`, followed by the install's
in the same step if the address had room (`AskBoth`); an install's bucket is never asked
alone or first, so that a flood from one address spends nothing of the installs.
`ImplementsSlidingWindow` maps its memory to `log`: that `rate_ok` forgets hits, and counts
only what is left in a deque, changes no answer.

**Intake.** Extends `RateLimiter` and `Signing` with the routes `/forward`, `/web`,
`/email` and `/license/verify`. From the first line of a handler to its first await
nothing else runs, so each request is one step: `ReceiveForwarded` is the bearer
check, the two budgets, the verified tier and the report given to `create_or_dedupe`.
A request with a wrong bearer (401) or to a route without a configured one (503)
changes nothing and is no step; a 429 is a step that spends what it spent and hands
nothing over. `env` is what the process read from its environment, `handed` the
reports it gave to the store, with the slots they took and the licence they carried.
`Redeploy` starts another process, with empty buckets and other settings. One clock
stands for `time.monotonic()` (budgets) and `time.time()` (expiry): both only pass,
and no property compares the two. The limits are constants, also over redeployments,
since a process forgets its buckets. Only the state of the limiter is extended, so
`Intake` implements `RateLimiter`.

**ClientIp, BodyLimit, Edge.** A request goes from machine to machine: an outsider sends
on any X-Forwarded-For it likes (`Rewrite`), a configured proxy appends the address it
received the request from (`Observe`). `Resolves` is `client_ip`. Parsing addresses and
networks is abstracted to membership in `Proxies`. `BodyLimit` is one request through
the middleware: `Screen` is the check of the declared Content-Length, `Chunk` is
`limited_receive` for one message, `Handle` the route reached with a whole body.
`Edge` composes them as `main.py` does: a request travels, its body is held against the
cap of its route, and only then a handler resolves the address its budgets are kept by.
Each step of one part leaves the other's variables alone, so `Edge` implements both.

**Signing, SignedUploads.** A signature is a record of the key that made it and the
payload it was made over, which is exactly what ed25519 lets a verifier decide; key
ids stand for keys. `FromSettings` is the trust store with its three cases (JSON list,
JSON that is none, single key). Both authorities have the same shape, so one module
covers them with `table` as a parameter: `Accept` is everything up to the first await
(the verification included), `Insert` the flush that draws the id, `Commit`, `Answer`,
`Fail`, and `Get` the query of the latest row. On SQLite one transaction writes at a
time; on Postgres INSERTs and COMMITs of two handlers interleave. `Redeploy` ends the
process and starts one with other settings. A field that cannot be decoded makes the
handler raise (500) and is not modelled.

**Register.** What a box may rely on for one channel, or one customer's licence: a cell
that holds the last document accepted, read and written at one instant each, somewhere
between the request and its answer (`Begin`, `Write`, `Return`, `Read`). Only a write that
took effect is acknowledged: `told` counts the acknowledgements of each cell, `Return` alone
adds to it, and it maps to the answers that say accepted (`Acknowledged`). Rows are
appended and the latest id wins, so the instant is not always that of the COMMIT: on
Postgres a row may become visible when one with a greater id already is.
`ImplementsRegister` maps such an overtaken upload to a write that took effect just
before the one that overtook it (`TookEffect`); `InEffect` and `CellOf` are what readers
see. `Abort` ends writes that may or may not have happened, and are never acknowledged: a
failure, or a redeployment, which leaves the cell alone.

**SchemaInit.** `db` is the committed schema, `work` what the connection of `init_db`
sees. On SQLite each DDL statement is durable at once; on Postgres the block is one
transaction, which a failed statement aborts, and the COMMIT of an aborted
transaction rolls back. `create_all`, each ALTER, their failures, the swallowed
exception, and the end of the process are actions.

**Stamps.** A run of `stamp_download.py` is `Begin` (the options), one `WriteSite` for
each site, `AppendLedger` and `Ship` (the package leaves for the customer); `Die` may end
it before or inside any of these, leaving a broken file or a ledger line without its
newline. `Unpack` gives a fresh tree, otherwise a tree is used again with what earlier
runs left in it. `Publish` puts copies of shipped sites into the leak; `Strip` removes
the customer or the whole stamp, `Alter` changes a claim, `Forge` adds stamps of
another key, `Activate` the licence token of a customer's installation. `IsOk` and
`Names` are the record `_attribute` makes, `SameRecord` and `MetFirst` the deduplication
of `_scan`, where the order in which files are met is free.

**SeatReport.** `lines` is the check-in ledger: `CheckIn` appends one, with each field
left out or unreadable as `Fields` allows; the service that writes it is not in this
repository. `Renew` changes what a licence is sold with, `NextDay` passes time.
`Counted` is what `_load` and the window keep, `Machines`, `TierOf`, `SeatsOf` and
`AllowanceOf` what `analyze` makes of it, `Rung` the severity ladder.

**MCTools** puts the two tools into one run, one per behaviour (`tool`): they share no
state, so that their product would show nothing more.

## 3. Runs

| Run | What it asks | Result |
|---|---|---|
| `store_races` | Two handlers, three mixed reports, three ids, failures, restarts, closing tickets: priority always that of the stored row, only matching reports merged, never overcounted, duplicates at most the number of handlers, receipts durable, times in order, identity columns permanent; each COMMIT is one step of `SharedLedger` | holds |
| `store_serial` | One handler: exact counts, a triage queue of any length that hides no heavier ticket, refinement of the ledger, every call ends | holds |
| `store_lost_count` | Is every committed report counted when calls overlap? | violated |
| `store_details` | Does a merged report keep what its receipt promises? | violated |
| `intake` | All intake routes with right, wrong and unconfigured bearers, with and without install id, genuine, expiring, tierless and forged licence tokens, redeployments: at most `Limit` accepted calls, and reports, of an address and of an install in every closed window; each bucket decides as the exact `SlidingWindow`, an install's only after an address that had room; slots and reports correspond; a tier above the floor if and only if it is proven | holds |
| `schema_starts` | Up to four starts with two failures and stops anywhere: listed columns present, fresh databases complete, startup never blocked | holds |
| `schema_column` | Do the ticket routes work on every database a start serves? | violated |
| `uploads` | Two handlers, three uploads of genuine and false documents to both tables, expiry, failures, redeployments: only genuine rows, accepted means stored, later wins, revoked keys stay out, reads never go back, each channel and customer an atomic `Register` in which only a write that took effect is acknowledged | holds |
| `edge` | Forged headers over up to four machines, then every body, every chunking, true, absent or invalid Content-Length: no forgery decides the address, never more than the cap is held, 413 only for oversized bodies | holds |
| `body_bundle` | Does a report within its field limits fit its route? | violated |
| `tools` | Two stamping runs that may die anywhere, on trees used again, and a leak made from what they shipped: an ok record names only contributors, one surviving stamp is enough, a privacy run leaves no customer at the sites it writes whatever was there, a row names its customer in every mode, a resolved id stays resolved. Or check-ins of up to eleven machines across renewals and days: reported if and only if over, an allowance somebody bought, one rung at a time | holds |
| `scan_tokens` | Does a scan find the licence tokens left in a leak? | violated |

### What the violated runs show

* `store_lost_count`: `occurrences` is computed from the row the SELECT returned and
  written as a constant; two overlapping reports of one crash read *n* and both store
  *n + 1*. One is accepted and never counted, and the priority is too low.
* `store_details`: a merged report's `origin_local_id`, attachments and diagnostic
  bundle are stored nowhere although comments of `models.py`, `diagnostics.py` and a
  test say they are kept.
* `schema_column`: `origin_local_id` was mapped after the additive migration was
  written and is not in `_ADDITIVE_COLUMNS`; a database from before serves without it.
* `body_bundle`: only `/attachment` has a raised cap, so a `/forward` report with a
  bundle between 64 KiB and its own limit of 200,000 characters is answered 413.
* `scan_tokens`: the pattern of `_scan` admits no brace outside the signature, and every
  token of `mint_license.py` has an `entitlements` object, so that no licence token is
  ever reported although the help text and two comments say so.

That two overlapping first reports open two tickets has no run of its own: it is why
`OneOpenTicketPerKey` is proved for one handler and `DuplicatesBounded` (as
many open tickets as handlers) for any number.

More observations without a run:

* On Postgres an ALTER that fails and is swallowed also rolls back the tables
  `create_all` made in that start, so `ListedColumnsPresent` excludes starts in which
  one failed.
* With `TRUSTED_PROXIES="*"` every hop counts as a proxy, so the walk of `client_ip` finds
  none and returns the socket peer: `ForgeryNeverWins` is about deployments without it.
* `attribute_leak.py` l.15-16 and `stamp_download.py` l.99-100 say the ledger resolves a
  stamp whose customer was stripped. Stripping breaks the signature, and only valid
  stamps are looked up (l.91): such a stamp names nobody.
* A tree stamped again with fewer `--sites` keeps the earlier customer's stamps at the
  rest. For a privacy copy that contradicts `stamp_download.py` l.121-123 ("the distributed
  build contains no customer identity"): `PrivacyKept` promises it of the sites the run
  was asked for only, and TLC shows the rest broken in a few steps (embed at two sites, then
  privacy at one). A `--download-id` given twice re-attributes the earlier copies; privacy mode
  without `--ledger` leaves no record of the customer; a ledger row cut before its
  newline swallows the next row. The properties of `Stamps` name these cases
  (`Leftover`, `Shared`, `Traceable`, `clean`) and exclude just them.
* A `/forward` request that ends in 500 keeps its two slots, and a report whose refresh
  failed after the COMMIT is counted again when its box retries. No text promises
  otherwise, so no property speaks of either.
* The seat report takes the last tier and the first `seats`: after an upgrade the old
  allowance stays until the older lines leave the window, and a first `seats` that is no
  integer hides the good ones. `AllowanceWasBought` says what is left.

### Bounds, and why they are enough

* `TicketStore`: two handlers are what a race on one row takes; three reports let a
  third one meet what a race left; three ids let every report open a ticket; one
  clock tick separates the timestamps of overlapping calls. The reports are one crash
  from two tiers (with an unlisted severity), the same fingerprint on another source,
  and a report without one. Handlers and ids are symmetric (not in `store_serial`,
  which checks temporal formulas). The theorems have none of these bounds.
* `Intake`: a window of 1 second and a clock to 2 give a hit that is exactly at the
  edge of the window and one beyond it, and a token that expires in between. Limits are
  2 for the address on `/forward` and 1 elsewhere, so the install bucket fills before
  the address does and slots of the address are lost to it. One address, one install
  and the requests without one use every bucket; three reports outlast every limit.
  `MaxReports` bounds `handed`, hence the requests after the third report.
* `SchemaInit`: three past shapes (before the 2026-07-28 columns, an interrupted
  migration, before the 2026-08-30 column) or none, two failures, four starts.
* `SignedUploads`: two keys are what a rotation takes; two versions let an older one
  be uploaded later; three uploads let two race after one. Three settings: one key; its
  rotation, with licence settings that do not parse; its revocation. The run uses Postgres,
  whose behaviours include those of SQLite (one writer at a time).
* `Edge`: two proxies, two outsiders, four machines: a proxy chain of ours behind a
  chain of others. A cap of 2 units of 32 KiB is the 64 KiB cap, the cap of
  `/attachment` is scaled down; bodies and chunks cross each of them, exactly and by one.
* `Stamps`: two runs, two sites, two customers and two download ids on one tree are what
  leftovers, a reused id and a mixed leak take; one of the runs may die anywhere. The
  options are those that differ: with the customer and without, with the ledger and
  without, one site and both.
* `SeatReport`: on an empty ledger up to three lines, with any fields missing; on ledgers
  of 2 and of 8 machines two more. With allowances of 1 and 2 the ladder's limits are
  3, 4, 9 and 10 machines, so that every rung is crossed; a window of 0 days and two
  days put lines inside, at the edge and outside.

`CHECK_DEADLOCK FALSE` is set where the system may rest: a server with no requests
left (the bounds exhausted), a request that was answered, a server that serves.

### Fairness

`TicketStore!FairSpec` assumes weak fairness of the steps of each handler: the event
loop runs every coroutine that is ready, and each database round trip ends, with a
result or an exception. Nothing is assumed of new requests, operators, crashes or the
clock. `SchemaInit!Spec` assumes weak fairness of the steps of `init_db` and of the
next start: `docker-compose.yml` restarts a container that ended, and failures and
stops are bounded in number. All other modules state safety only.

## 4. What is proved

All theorems hold for every value of the constants that satisfies the named ASSUME of
the module. Each invariant was first checked by TLC.

* **TicketStoreProofs.** `TypeInv` (types, the histories refer to stored rows, a
  suspended dedupe too) is inductive alone; `IdentityPermanent` follows from it.
  `LiveCalls` says that handlers in flight serve different reports, unanswered, and
  uncommitted before the COMMIT: `ReceiptsDurable` needs it. `SnapshotsSound` says that
  a snapshot is of a row with the report's own key and that its severity and tier are
  still the row's, only the counters can be stale: priorities
  (`PriorityAlwaysConsistent`) and merges (`MergesMatch`) need it. `NeverOvercounts`
  needs that the count a dedupe has read was reached by reports committed to the
  ticket (`SnapshotCounts`), its own not among them (`LiveCalls`);
  `SeenAlwaysInOrder` that no handler resumed in the future, nor before the row it is
  about to touch was created (`TimesInv`). `DuplicatesAlwaysBounded` counts open
  tickets and creations under way together: a handler decides to create only when it
  sees no open ticket of the key, and a COMMIT turns one into the other. It assumes
  that `Procs` is finite. `StoreIsSharedLedger` is the refinement for overlapping calls,
  step by step, from the conjunction of these invariants (`LedgerInv`): `LiveCalls` makes
  the report of a COMMIT one that is not filed yet, `SnapshotsSound` its ticket one of its
  key, `SnapshotCounts` bounds the number written by the reports filed in the ticket, and
  `DuplicatesBounded` gives the guard of `Open`.
* **TicketStoreSerialProofs.** `SerialStoreIsLedger`: initial states map to initial
  states and every step to a ledger step or a stutter. The strengthening says that a
  lone handler's snapshot is the row itself, except for its status. On it rests
  `EveryReportAlwaysCounted`; `OneOpenTicketAlways` is the case of one handler of
  `DuplicatesAlwaysBounded`. `QueueAlwaysShowsTheWorst` needs, besides exact counts and
  consistent priorities, that each ticket still describes its first report
  (`DescribesFirst`) and that the call in flight is the latest report (`LatestCall`).
* **RateLimiterProofs.** The inductive invariant says that the bucket is the tail of
  the accepted calls from `dropped + 1` on, that those forgotten are older than the
  window, and that the calls are in order of time. `LimiterIsExact`, the refinement of
  `SlidingWindow`, rests on it: the loop stops at the first hit that is young enough, which
  drops all that are too old only because the deque is in order; what `RateOk` keeps of
  the bucket then has as many members as the window has accepted calls. `Forward` is
  `AskBoth` when the address has room and `Ask` of the address when it has none.
* **IntakeProofs.** `UsesLimiter`: every step of a route is a step of `RateLimiter` or
  leaves its variables alone, so the limiter's theorems hold of the routes (`IntakeIsExact`).
  `IntakeTypeCorrect` and `TierAlwaysProven` follow from how one report is made;
  `SlotsAlwaysReports` needs that a slot, once written, never moves: `log` only grows.
  `IntakeWithinBudget` maps the reports of a bucket in a window one to one to slots of
  its log (`SlotsAlwaysReports`) that lie in the window, and `WindowBound` says that an
  interval of the log longer than `Limit` spans more than the window (lemma `FewSlots`;
  `LeastOf` gives the first of those slots).
* **EdgeProofs.** `UsesBothParts`: every step is a step of each part or leaves it alone,
  so what holds of a part holds of the composition. While one of our proxies holds the
  request, the header ends with the last outsider followed by proxies only (assumes
  `Star = FALSE`); the middleware's count equals what was delivered and is within the cap
  until the request ends.
* **SignedUploadsProofs.** `HandlersInv`: a handler in flight checked its document
  under the settings still in force (a redeployment ends it), and its id is new before
  the COMMIT, stored in the right slot after it, and greater than every id accepted
  before the request. `DistinctIds` keeps one COMMIT from overwriting another.
  `AckInv` says that an id in flight was not answered before and is held by one handler, so
  that an answer adds one acknowledgement, to an upload that is committed.
  `UploadsAreAtomic`, the refinement of `Register`: a COMMIT changes the cell exactly when its
  id is the greatest of its slot, and then every upload of the cell that waits for its COMMIT
  with a smaller id takes effect with it; a COMMIT with a smaller id changes nothing and
  was done already; and since a redeployment ends all handlers, no document checked under
  old settings takes effect later.
* **SchemaInitProofs.** What the connection sees contains what is committed, a table is
  created complete or was there before, and the columns inspected so far are present
  unless an ALTER failed. `ListedAlwaysPresent` and `FreshAlwaysComplete` follow for any
  columns, old schemas, failures and stops, on both backends.
* **ToolsProofs.** About `Stamps`: a stamp in a tree or in the leak that verifies is one
  a run wrote, unchanged, or a token that was activated, because only the stamp key
  signs stamps; a whole row of the ledger is never touched again, since only the last
  line is ever open (`LastIsOpen`, an invariant of its own); what was shipped is what the run wrote at each of its sites. About
  `SeatReport`: each counted line was sent under terms the licence had then; the machines
  counted at a step differ by the one that checked in, so that the ladder moves by at
  most one rung. Cardinalities of machine sets are of finite sets bounded by the ledger.

Every safety property of every passing run is also proved, and so are the type
invariants of `TicketStore` and `SignedUploads` and `RejectsOnlyWhenFull` of the limiter,
which the refinements took the place of in the runs. Only model-checked:
`EveryCallEnds` and `StartsUp`, which are liveness and out of the prover's reach. The
five violated statements are, of course, only checked.

## 5. Not modelled, and why

The text of views, CORS, robots.txt, health, logging: no state
and no property. Attachment upload: `put_blob` stores nothing. `require_admin`: the
operator routes are modelled as called by an operator. A body that fails its field
limits (422): it never reaches a handler. That FastAPI reads a body to its end
before it calls a handler is assumed (the guard of `BodyLimit!Handle`), not shown: the
framework is not in this repository. Several worker processes: the deployment runs one, and
`ratelimit.py` says it is per process. Row locks of Postgres: two UPDATEs of one row
serialise at the COMMIT, which is one step here. Fields that cannot be decoded.

`mint_license.py`'s lock policy is one test of the options of one run, `mint_crl.py` signs
the ids it is given, `sign_*.py`, `gen_keypair.py` and `dmca_packet.py` transform one
file: nothing is remembered between runs, and a property of one of them would restate
its test. What happens to revoked licences is decided on the boxes, in another
repository. The growth of `_hits` (one deque per key ever seen) needs an unbounded set
of keys.

## 6. Plan

Written, in this order: `TicketStore` with its ledger and proofs; `RateLimiter`;
`SchemaInit`; `Signing` and `SignedUploads`; `ClientIp`; `BodyLimit`; `Intake`; `Edge`;
`Stamps` and `SeatReport` with `MCTools`; the queue and views of `TicketStore`; proofs of
all safety properties; the abstract specifications `SharedLedger`, `SlidingWindow` and
`Register`, with the proofs that they are implemented.

Next:

1. `Intake` composed with `TicketStore`: the tier a ticket weighs was proven by its first
   report, and the rows a flood adds in one window are bounded by the limits.
2. Statuses, when a route of this repository changes them.
3. Attachments, when `put_blob` stores something.
