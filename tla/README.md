# NetPlug in TLA+

NetPlug is a web interface for a WireGuard server: one Go process, one SQLite
database, and the host's `wg`, `wg-quick` and `tc`. Administrators create VPN
users with traffic and day limits, sort them into groups with bandwidth
presets, and NetPlug publishes the result to `wg0.conf`, to the interface and to
its queues. A background synchroniser charges usage and disables users that
have run out.

The hard part of this program is that three copies of the truth (the tables,
`wg0.conf`, the interface with its queues) are moved by four kinds of actor
(request handlers, the synchroniser, `main` at startup, the kernel) with only
single SQL statements, one synchroniser transaction and one mutex being atomic.
The modules here follow that: each takes one pair of copies and everything
that moves them.

Paths below are relative to `src/`.

## Inventory

| Component | State | Operations | Hard behaviour | What makes it correct | Module |
|---|---|---|---|---|---|
| Usage accounting and quotas (`internal/wireguard/syncer.go`) | accounting columns of `vpn_users`; kernel counters | a pass: dump, then a transaction | dump is older than the transaction; counters reset; aborts and crashes | never overstates usage or days, never refunds, disables what is used up | `Accounting`, `Syncer` |
| VPN user handlers (`internal/app/handlers.go`) | `vpn_users` | create, update, toggle, delete | statement, write, apply and reconcile are separate steps; errors dropped | a user that is gone everywhere stays gone; a key pair once stored and the tunnel address stay | `Syncer`, `Pipeline`, `Pcq`, `Clients` |
| `wg0.conf` publication (`internal/wireguard/config.go`) | `wg0.conf`, `wg0.conf.tmp` | read rows, write scratch file, rename | handlers share the scratch name without a lock; crash between any two calls | the file is always a whole reading of the table; a quiet request repairs it | `Pipeline` implements `Publication` |
| Interface application (`internal/wireguard/apply.go`) | interface, `wg0.conf.peers.tmp` | probe, `wg-quick up`, `wg syncconf` | shared scratch name, deferred remove, tools that fail | the interface takes over the whole file | `Pipeline` |
| Merging of limits (`internal/pcq/load.go`) | none | merge rows per address | row order, shared addresses, NULL and zero | strictest limit wins | `Limits`, `PeerLimits` |
| Shaping (`internal/pcq/apply.go`, `plan.go`, `apply_linux.go`) | qdiscs; `applyMu` | teardown, classes, policers | commands fail midway; runs queue | queues settle on the tables; the mutex always comes back | `Pcq` |
| Groups and presets (`internal/app/groups_handlers.go`, `pcq_handlers.go`) | `vpn_groups`, `vpn_group_members`, `vpn_group_pcq` | create, delete, add, bulk add, remove, save, clear, toggle | read-then-write toggle, bulk that breaks off, a handler without reconcile | every change is followed by a run that has seen it | `Pcq` |
| First-run setup and import (`internal/app/handlers.go`, `internal/wireguard/setup.go`, `internal/db/system_config.go`) | `users`, sessions, `system_config`, `vpn_servers`, `vpn_users` | create administrator, sign in, two wizard posts | two tables written one after the other; checks long before writes; sessions lost with the process | a request that is not disturbed takes effect whole; someone can sign in | `Setup`, `Clients` |
| Settings and reload (`internal/wireguard/state.go`) | the same two tables, `wg0.conf`, interface | save, reload | as above; an empty key keeps the old one | as above | `Setup`, `Pipeline` |
| Process lifecycle (`cmd/netplug/main.go`) | process, sessions, mutex | startup, death | anything may be half done | startup repairs what a crash left | `Restart` of each module |
| Address allocation (`internal/wireguard/peers.go`) | names, addresses and keys in `vpn_users`; open forms | next free address | computed for a form, stored later | an offered address stays its own | `Clients` |
| wg-quick parser (`internal/wireguard/wgquick_parse.go`) | section and pending name, line by line | scan, import | names in comments, repeated and misplaced keys | reads what the file says; what was rendered comes back | `WgQuick` |
| Bandwidth history (`syncer.go`, `BandwidthHistoryAPI`) | `bandwidth_snapshots` | insert, expire, aggregate | passes early and late, resets, retention shorter than the range shown | no traffic invented, what was found is charted | `History` |
| Client configuration, views, migrations, version metadata | none that changes | rendering, one-off statements | | | not modelled |

Handlers call down (statement, then `WriteWireGuardConfig`, then `ApplyConfig`,
then `reconcilePCQ`); the synchroniser shares only the database with them, and
the interface, which it reads; nothing calls back. The database pool has one
connection (`cmd/netplug/main.go:47`), so statements and the synchroniser's
transaction exclude each other, and everything between them interleaves.

## Modules

**`Accounting`** is arithmetic: what one pass makes of one row (`SyncRow`), from
the row, the dumped counters and the time. `NewTotal` banks a reset counter,
`NewDays` and `NewLdc` charge days, `NewQuota` charges traffic.

**`Syncer`** puts it to work. `db` is `vpn_users`, `conf` the users in `wg0.conf`,
`iface` the kernel's counters, `dump` what a pass holds between reading the
interface and opening its transaction; `req` and `rows` are per handler, what
its request has still to do and the enabled users it has read for the file.
`SyncDump`, `SyncCommit` and `SyncAbort` are `syncOnce`; `Create`, `Update`,
`Toggle`, `Delete` and `Reload` begin a request, `ReadRows`, `Rename` and `Apply`
(or their failures) finish it; `Traffic`, `Tick` and `Restart` are the world.
Reading the rows and replacing the file are two steps, so a pass that commits,
or another request, may come between them, and an older reading may be the last
one in the file. `hist` records what no program variable does: bytes really
carried and days charged. That requests also share scratch files is the subject
of `Pipeline`. A user stands for its key pair. A pass is short against an hour,
so the clock stands still inside one; it never runs backwards.

**`Pipeline`** is `WriteWireGuardConfig` and `ApplyConfig` call by call. Files are
inodes behind names, so that a second `os.WriteFile` truncates the inode a
first one is still writing, and `os.Rename` moves whatever the name then stands
for. `db` is here the set of users that belong in the file: enabled, with a
public key and addresses. `strict` marks the requests that give up when the file
cannot be written (`ReloadWireGuard`), as against those that go on. The
synchroniser is here, too, without its accounts: a pass dumps the interface and
later enables or disables users of the dump (`SyncDump`, `SyncCommit`), and
`InHand` is what a handler may still put into a file or onto the interface.
**`Publication`** is the abstract promise: the file changes only as a whole, from
one reading of the table to the next, and the interface takes over whole files.

**`Limits`** and **`PeerLimits`** are `LoadPeerLimits`: the rules for a row and for
merging two limits, and the loop over rows in any order.

**`Pcq`** is shaping: the tables that matter to it, the qdiscs, `applyMu`, and per
handler where it is between its statement and the end of its `Apply`. It reads
the tables through `Strictest` of `Limits`, which `PeerLimits` shows to be what the
loop computes. `dirty` marks a change that never reconciles, a failure or a
restart, until an `Apply` loads the tables again.

**`Setup`** is the wizard, the import, saving the settings, reloading and startup.
`sys` and `srv` are the two tables, `form` and `buf` what a request has still to
store and what it has read for `wg0.conf`; `solo` and `want` record which request
has run undisturbed and what it should have left. A failed read of the
administrator count, which the handler takes for zero, is left out, as is a port
of zero. Settings are one value, told apart only by the table they are read
from; the interface carries only its address, since peers are the subject of
`Pipeline`.

**`WgQuick`** is the text of `wg0.conf` as lines of a few kinds: `Scan`, folded over
them, is the loop of `ParseWGQuickConfig`; `Rendered` is what
`WriteWireGuardConfig` writes; `Says` says, section by section and without a loop,
what peers such a file describes, and is what the scan is compared with.

**`Clients`** is who a user is: name, addresses and keys of its row, the settings
addresses come from, and, per browser, the form or request that has read
something and not yet stored it. `ReadRange` and `ReadUsed` are the two reads of
`NextClientAllowedIP`, `Create` posts the form they filled; `EditRead` and
`EditWrite` are the two statements of `UserUpdatePost`; `ImportPeer` is one turn of
`importPeersAsUsers`. `upset` records whose reading others have since
invalidated, and `saw` the rows an address was chosen apart from: without them
nothing could be said, because two open forms really are offered the same
address.

**`History`** is the way from counters to the chart of the month: `Pass` makes rates
of the bytes since the last pass, adds a snapshot and drops old ones; `Chart`
makes bytes per day of them again, as `BandwidthHistoryAPI` does. Passes are
numbered: `snaps` holds the rows that are left under the number of the pass that
wrote them, and `log` keeps, for every pass, what was really carried since the one
before and whether it missed anything (a counter cut off, a user left out).

In `Pipeline` and `Setup` requests may already run while `main` reloads at startup;
the program serves only afterwards, so these models allow more than it does.

`MC*` modules hold model values, symmetry and failure-free variants (`CalmSpec`);
definitions commented "A plausible slip" are wrong variants of the definition
below them, used to show that the properties would notice.

## Runs

| Run | Shows |
|---|---|
| `syncer` | usage and days never overstated (`RecordedWithinCarried`, `DaysChargedHavePassed`), nothing refunded (`SyncNeverRefunds`), exhausted users get disabled (`ExhaustedEventuallyDisabled`) |
| `pipeline` | after any overlap, failure or crash, the next undisturbed request publishes the table (`SoloRequestPublishes`); a user that no file, reading, interface or dump holds is brought back by nothing but a request for it (`GoneStaysGone`) |
| `pipeline_serial` | requests one at a time implement `Publication` (`Publishes`) |
| `peer_limits` | any row order gives the strictest limits (`StrictestWins`) |
| `pcq` | queues settle on the tables (`SettledShaping`); no reconcile waits for ever (`EveryRunGetsItsTurn`) |
| `setup` | an undisturbed request takes effect whole (`SoloRequestTakesEffect`); complete setup has an administrator (`CompleteSetupHasAdmin`) |
| `clients` | an offered address stays apart from every other row's (`AllocatedApart`); an edit nobody overtook keeps the tunnel address, and changes keys only where there is no private key yet, both to a pair (`EditsSetKeysOnce`); only an import parts a key pair (`OnlyImportsPartKeys`); `wg0.conf` imported elsewhere gives the same users (`ReimportRestores`); the parser reads what any file says (`ReadsWhatTextSays`) |
| `history` | a day's chart is at most twice what was found (`ChartedTwiceAtMost`), and misses nothing that passes in time found (`RegularPassesAreCharted`) |

Four runs show that the code does not do what a comment or a page says:

| Run | What it shows | Said where |
|---|---|---|
| `syncer_cutoff` | a user disabled for its limits keeps its access until an unrelated request or a restart | `partials/edit_user_modal.tmpl:181` |
| `pipeline_overlap` | two overlapping requests leave a removed user in `wg0.conf` | `partials/delete_user_modal.tmpl:36` |
| `pcq_groups` | deleting a group leaves its members shaped | `group_pcq.tmpl:130` |
| `history_month` | the chart of the month forgets its days one day later: passes delete snapshots after 24 hours | `partials/overview_all.tmpl:71` |

They need no failure: all but `history_month`, whose model has none, run under a
calm next-state relation. The models show more that is as the code has it, but
contradicts nothing written: a pass that was under way when an admin disabled a
user enables it again, so that a disable sticks only once no dump and no older
reading is left (`Gone`); days entered for a user that had run out are charged for
the time in between; starting with `NETPLUG_PCQ_DISABLE` leaves the queues of the
process before; two open forms are offered one address; an imported peer that
takes over a row leaves the row's old private key there. And an edit of an
imported row, which has a public key its client uses but no private one,
replaces that public key by the one of any private key pasted into the form:
`internal/app/handlers.go:1298` means to allow keys "only if they were not
previously set", and `edit_user_modal.tmpl:87` asks for the private key that
matches, but nothing compares them. `EditsSetKeysOnce` claims no more than that a
pair, once stored, stays.

### Bounds

- `Syncer`: one user and one handler. Rows, counters and days of different users never meet in
  the code; a request on another user only rewrites the file, which `Reload` does.
  A second handler adds older readings of the table to `conf`, on which no
  account depends, and multiplies the states by nine; the theorems hold for
  any number of handlers.
  `MaxBytes` allows two bytes one way and one the other: enough for a reset that
  shows in one direction only, in both, or in none. `TimeSteps` is 36 hours and
  `MaxTime` one such step, so that a day is charged with half a day left over.
  Quota and days are entered as NULL, 0 or 1. The proofs
  drop all these bounds.
- `Pipeline`: two handlers with one user, and one handler with two users, both
  with the synchroniser. Five
  inodes are three names and two open descriptors, so `Fresh` always finds one.
  Races over a scratch name take two handlers; a file that mixes two readings
  takes two users, and the run that needs both, `pipeline_overlap`, has them.
- `PeerLimits`: sample rows with two rates, NULL, zero and bursts without a
  rate, under each classifier, on two addresses: every subset in every order.
- `Pcq`: one user, one group, two handlers, two presets (downloads only, and
  both directions with a stricter rate). Merging across groups is proved in
  `PeerLimits`, and the theorem about `Pcq` holds for any number of all of these.
- `Setup`: two browsers, two settings, two keys, and two peers that share a
  name; one browser that is cut off, or overtaken, by another is the case all its
  hazards need.
- `Clients`: two browsers, two rows, two names, two key pairs; ranges of two and
  six addresses, so that a range can run out and settings can change it under an
  open form; addresses entered by hand collide with offered ones, and an import
  brings one peer with a name, or none, that may be taken. `ReadsWhatTextSays` goes
  through every file of up to five lines out of ten.
- `History`: one user (rates of several are added up before they are stored), an
  interval of two seconds, days of five and months of two of them; passes at
  once, on time, a little and far too late; four passes in ten seconds cross
  the end of a day, of what is kept, and of the month.

Symmetry is used in `Pipeline`, `Setup` and `Clients`. In `Clients` two of the
properties are about steps, which is sound as they treat rows, keys, names and
browsers alike and need no second step to be violated.

### Fairness

- `Syncer`: passes start again and again (the ticker); `SF` on `SyncCommit`
  because a pass may be aborted, or its process die, any number of times, but not
  for ever; a request that has been accepted is carried to its end. Nothing is
  assumed of admins, traffic or the clock.
- `Pcq`: commands return, with success or failure; `SF` on `Lock`, as
  `sync.Mutex` hands itself to a waiter that has starved for a millisecond. A
  `tc` that hangs would break this: the timeouts of the external commands in
  `internal/wireguard/apply.go:65` are ignored by the code, and those of `tc` do
  not exist.

## Proofs

All theorems hold for every value of the constants under the assumptions named
in the modules (limits are natural or NULL, marker values differ from real ones).

- `Syncer_proofs`
  - `TypeCorrect` needs `LdcPassed`: if `last_day_check` could lie in the future, a
    charge could be negative.
  - `UsageNeverOverstated`. `RecordedWithinCarried` is not inductive: what a row may
    record depends on which life of the counters it was written in. The
    invariant says that every row is either in step with the current life, and
    has then banked only what belongs to earlier ones, or of an earlier life,
    and then all of it does; and the same of the dump in hand, which may be
    older than the interface.
  - `DaysNeverOvercharged` rests on an invariant that ties the days charged to
    `last_day_check`: a charge always moves it.
  - `QuotaNeverRefunded` is an action property, proved step by step from the type
    invariant.
  - All of them hold for any number of handlers at once.
- `Limits_proofs` has the lemmas on merging: each field of a merge is the least
  positive value of both. `PeerLimits_proofs` proves `StrictestAlwaysWins` with the
  invariant that `out` is the strictest limit of the rows scanned so far.
- `Pcq_proofs`: `TypeCorrect`, and `ShapingSettles`. The invariant has three parts:
  only the holder of `applyMu` is inside `Apply`; the qdiscs are, at each step of a
  run, the part of its plan built so far; and unless `dirty`, the tables are
  covered: by the qdiscs, by the plan of the run in progress, or by a handler
  that has still to load them.
- `Pipeline_proofs`
  - `TypeCorrect`. That a handler about to read `wg0.conf` finds it there is not a
    fact about that handler: it rests on nobody ever removing the file. A new
    file object always exists because names and open descriptors are fewer than
    `Inodes`, an assumption on cardinalities; and two names never share one.
  - `LoneRequestPublishes` (`SoloRequestPublishes`) and `SerialRequestsPublish`
    (`Publishes`, for one handler): `Sound` says what a handler nobody interferes with
    has in its files and in memory at each step, and `Course` that this is what
    the table still holds. Opening with `O_TRUNC` is what makes both independent of
    the scratch files found. The theorem on `Publishes` maps the initial state and
    every step, failures and restarts included, to a step of `Publication` or a
    stutter.
  - `GoneUsersStayGone` (`GoneStaysGone`), for any number of handlers: a step of a
    handler only moves what it has in hand, or what a name stands for, so a user
    in none of these is in none afterwards (`OpenedWithin`, `FilledWithin`); a file
    that several handlers have open is covered by the reading of each. The dump
    is treated the same way: a pass changes only users it has seen. The type
    invariant provides that a handler about to write has its file open.
- `Setup_proofs`
  - `AlwaysSomeoneToSignIn`, with the invariant that a session, a wizard post on
    its way to the tables, and complete setup each imply an administrator. It is
    needed because a post checks its session long before it writes, and because
    setup may be completed by a process that restarted after the session was made.
  - `TypeCorrect` needs to know what a request has in hand: settings in its form
    until both tables have them, and rows it has read before it writes the file.
  - `UndisturbedRequestTakesEffect` (`SoloRequestTakesEffect`): the invariant `Course`
    has a clause for each step of a request that runs alone: what is wanted is
    what its form and the tables will make of each other. The import is the hard
    step, as the last peer of a name wins: `ImportOne` shows, for a file of any
    length, that importing one peer and then the rest is importing them all.
- `Clients_proofs`: `TypeCorrect`, `OfferedAddressesStayApart`, `KeysSetOnce` and
  `KeysStayTogether`. The invariant says what each browser still knows: as long
  as it is not `upset`, the address in its form is an IPv4 address that is no
  row's tunnel address, and what its edit has read is what the row still holds.
  That rests on the two reads of `NextClientAllowedIP`: whatever was taken before
  the second is seen by it, whatever is taken later makes the form `upset`.
  The module also proves the parser.
  - `ParserReads`: whatever file `Scan` is folded over, its peers are those that
    `Says` describes. `FoldLeft` is first turned into a function that gives the
    state after each line; then, line by line, the state is what the lines so far
    say (`Reads`): the pending name is that of the last comment since the last
    `[Peer]`, the peers are those of the headers so far, each with the last keys of
    its section, and the section is open if nothing has closed it. The function
    and the induction are on sets of line numbers that are given: a least number
    that fails is a contradiction (`NatInd`, from the library's least element of a
    well-founded set), so no principle with an operator as its parameter is
    needed. `WgQuickAssumption`, that the empty string is no section's name, is
    what keeps keys before any header out.
  - `WrittenIsRead` is the round trip: the text is four lines and then five for
    each user (`RenderedLines`), and reading a user's five lines adds that user
    (`BlockScanned`).
  - `TextsAreRead` (`ReadsWhatTextSays`) and `ReimportsRestore` (`ReimportRestores`)
    follow. The second also needs that users are finitely many and that no two
    share a name, which is an invariant of its own (`RowsApart`): an edit is
    refused a name that is taken, and an import takes over the row that has it.
  - What parsed files hold is proved, not assumed: `ClientsAssumption` only says
    that a file is a sequence of lines.
- `History_proofs` first proves what the charts need of finite sums (`SumFunction`
  of the community modules): extensionality, monotonicity, one term changed, all
  terms scaled. Then
  - `TypeCorrect`;
  - `ChartIsBounded` (`ChartedTwiceAtMost`) and `RegularIsCharted`
    (`RegularPassesAreCharted`), for any number of users and passes, any interval of
    at least a second and any pauses. Neither is inductive, as both compare a
    chart with what was carried and forgotten. The invariant follows the bytes: what
    the next pass will find of all the users is no more than what was carried since
    the last, and no less unless a counter was cut off (`Accounted`); each row's
    rate, times the interval, is what its pass found, but for each user's rounding
    (`RowsTell`); passes follow one another in time (`InOrder`), so that the gap
    from a row to the next one kept is no shorter than the gap to the next pass;
    and no row of the last day is missing (`DayIsKept`).

Every invariant and action property of the passing runs is proved, and so is the
refinement `Publishes`. Only model-checked are the liveness properties
(`ExhaustedEventuallyDisabled`, `EveryRunGetsItsTurn`: the prover has no fairness)
and what the four violation runs show, which are counterexamples.

## Not modelled

- How one line of text is taken apart (`wg0.conf`, forms, `wg show dump`),
  passwords, rendering of pages, client configurations and QR codes, logging,
  migrations, version metadata. They change nothing that the models keep.
- Preshared keys and endpoints, which are stored and rendered like public keys;
  the server's public key as a value of its own, which the wizard's form posts
  beside the private one and nothing compares.
- Limits that overflow: a form multiplies megabytes in 64 bits. `Syncer` starts
  from the limit that was stored. What an edit form held when it was opened is
  among the limits `Update` may set at any time.
- Two rows with one public key, which a form accepts when the key is pasted: the
  interface has one peer then, and both rows are charged. `Syncer` takes a user
  for its key pair.
- Another interface standing in for the configured one, and the 0xff00 limit on
  classes, beyond which addresses silently stay unshaped: outside the bounds of
  any model here.
- `Start` and `Stop` of the synchroniser: `main` calls each once, and the end of the
  process is `Restart`.
- The hourly mode of the history, which returns the stored rates as they are, and
  a snapshot that fails to be inserted, or old ones to be deleted, unnoticed.
- Posting an import reconciles shaping only at its end; since setup has no groups
  yet, `Pcq` leaves imports out.

## Plan

Built, in order of importance: `Accounting`/`Syncer`, `Pipeline`/`Publication`,
`Limits`/`PeerLimits`, `Pcq`, `Setup`, `WgQuick`/`Clients`, `History`. What would add most
next:

1. A run of `Clients` of its own for what an edit does to imported rows.
2. `Setup` with hook scripts and an invalid private key after `system_config` was
   written.
