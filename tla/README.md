# PAC CT: models, checks and proofs

PAC CT is a web toolkit for commissioning SEL protection relays: a threaded
Python HTTP server (`src/src/pacct/`) that opens relay settings and IEC 61850
files, rewrites them, and shows the live state of a relay drawn over its own
logic diagrams (the Graphical Logic Viewer, GLV).  These modules model the parts
of it whose correctness depends on the order in which threads, relays, visitors
and failures act, and the few conversions of data that a file goes through more
than once.  Paths below are relative to `src/src/pacct/` unless they start with
`src/`.

Contents: [the system](#the-system), [modules](#modules) and how they correspond
to the code, [runs](#runs) with their bounds, [fairness](#fairness),
[what the models found](#what-the-models-found), [proofs](#proofs),
[what is left](#what-is-left), [not modelled](#not-modelled).

## The system

| Component | State | Operations | Talks to | Modelled by |
|---|---|---|---|---|
| Dispatcher (`web/mount.py`, `web/dashboard.py`) | mounts, options | route a request, resolve its session, startup, shutdown | every handler, sessions | `Sessions` (the app's choice and static files not) |
| Sessions (`web/session.py`) | cookie -> session: directory, tool state, `last_seen` | `resolve`, `peek`, `sweep`, `shutdown`, `purge_root` | the GLV's `on_expire` | `Sessions` |
| GLV handler (`web/glv/handler.py`) | per session: diagrams, order, active tab, counter | open, batch, close, activate, connect, events | diagrams, the one pool of the process | `GlvTabs`, `LinkPool`, `LiveFeed` |
| Diagram (`web/glv/diagram.py`) | `link`, `status`, `_gen`, pages | `connect_async`, `_connect`, `_abandon`, `_fail`, `disconnect`, `values` | pool, progress | `LinkPool`, `LiveFeed`, `WantedBits` |
| Pool (`web/glv/link.py`, `LinkPool`) | `ip:porta` -> link, ceiling | `acquire`, `release`, `abandon` | links | `LinkPool` |
| Link (`web/glv/link.py`, `RelayLink`) | owners, flags, polling thread, stop event, surviving thread, period, two locks | `connect` + watchdog, `close`, `prepare_bits`, `pause_polling`, `set_poll_interval`, `set_wanted_bits`, `_poll_gave_up` | transport, `LiveState` | `RelayPolling`, `WantedBits` |
| Telnet transport and text client (`web/glv/transport/telnet.py`, `cli/runner.py`, `src/selprotopy/client/base.py`) | access level, prompts unread, definitions, bit map | login, levels, autoconfiguration, polls, Fast Operate, `quit` | the relay | `RelaySession` |
| Polling (`web/glv/poll.py`, `core/relay_conn.py`) | what the relay owes, what has arrived, the flag `clean` | drain, send, read, publish | `LiveState` | `RelayStream` |
| Relay Word map (`core/target_region.py`) | layout, cache file by FID | sweep, find a bit, read rows | the stream | `TargetRegion` |
| MMS transport (`web/glv/transport/mms.py`, `web/glv/mms_map.py`) | directory, map, plan | associate, prepare, batched read | the relay, the project's SCD | `MmsReader` |
| Live state (`web/glv/state.py`), events (`web/glv/events.py`) | values, age, error, version + condition | `mark_updated`, `clear`, `wait_for_change`, frames | pollers write, streams read | `LiveFeed` |
| Progress (`web/progress.py`) | job -> stage | `set`, `finish`, `fail`, `drop`, prune | every long operation | `JobRegistry` |
| Project library (`library/`, `web/files/handler.py`) | sha -> entry, files on disk, shared cache | upload, adopt, remove, download, prune | sessions, all tools | `ProjectLibrary`, `RdbOutputs` |
| Writing of outputs (`web/rdb_write.py`, `library/derived.py`, exports of the tools) | temporary file, name under `out/` | copy, write streams, replace, adopt | library | `RdbOutputs` |
| VB Updater, GLE Exporter (`web/vb_updater/`, `web/gle_exporter/`) | an SCD's and a GLE's descriptions, two workbooks | correct one from the other | outputs | `VbComments` |
| DNP map editor (`web/dnp_map/`) | differences to a file, by sheet | edit, swap, copy, export | outputs | `DnpMap` |
| Self-update (`update.py`, `web/update_check.py`, `version.py`, `src/app.py`) | folder, staging, backup, `current` | check, install, swap, restore, roll back | disk | `PortableUpdate`, `VersionedUpdate`, `UpdateCheck`, `Versions` |
| GLE tabs, settings compare, VLAN mapper, notes, connectors, VB source, themes, paths, parsers, frontend | the files of one operation | parse, compare, render | library | - |

### Hard behaviours, and what makes each component correct

* **Pool and diagrams.**  One telnet port serves one session, so diagrams of a
  relay share a link by counting owners.  Attempts run on worker threads that a
  later request can only cancel by bumping a generation; a watchdog on a timer
  abandons a setup that hangs; `release` closes outside the pool's lock.
  Correct: nobody joins a link on its way down; every slot of the ceiling has
  an owner, and every owner exists; the connection is not closed under a diagram
  that shows it; cancelled work stays silent; every attempt decides.
* **Reader of a link.**  Stopping a reader is a join with a deadline, and a read
  can outlast it.  Discovery, a change of period and close all stop and some
  restart.  Correct: never two readers, never two conversations on one stream,
  no reader after close, no screen with values nobody reads, no reader that ends
  in silence, no close that waits for ever.
* **The relay's stream.**  Answers carry no number: one that comes after its turn
  has given up is taken for the next turn's.  Correct: the lag has a bound, order
  is kept, a bit never takes another row's value, a stamp is honest.
* **Live values.**  A reading between building a frame and waiting; a state that
  changes object when a diagram connects; two unions of wanted bits published in
  the wrong order.  Correct: the screen ends up showing the last reading, never
  one of a link that was let go; an open page gets read.
* **Self-update.**  Several moves that are not atomic, a failure or a kill between
  any two.  Correct: nothing of the folder is lost, what a command reports is
  what the folder holds, the link moves only to what the command made sure of, rolling
  back goes back.
* **Sessions and library.**  A sweep against a request in flight; removing a file
  while another upload of the same bytes adopts it.  Correct: visitors are apart,
  nothing is lost that an answer promised, nothing leaks that no session owns.
* **Progress.**  Pruning, ids that are not unique.  Correct: a bar never runs ahead
  of its job, and no job is pruned in a crowd.
* **Files.**  Half of a file after a kill, two requests on one name, a description
  that goes round by way of a workbook.  Correct: what is at a name is whole; what
  goes round comes back.

`PROJECT.json` lists each hazard at its line, with the property that covers it
or what is missing.

## Modules

| Module | Models | Checked by | Proved in |
|---|---|---|---|
| `LinkPool` | `LinkPool`, the life of a `RelayLink`, and the attempts of `GlvDiagram` | `MCLinkPool`: `pool_*` | `LinkPoolProofs` |
| `RelayPolling` | the inside of one `RelayLink`: reader, discovery, period, close | `MCRelayPolling`: `polling_*` | `RelayPollingProofs` |
| `LiveFeed` | `LiveState`, the event streams and what each screen was sent | `MCLive` | `LiveProofs` |
| `WantedBits` | `set_wanted_bits` under several diagrams | `MCLive` | `LiveProofs` (types) |
| `RelayStream` | one relay's stream under the five loops that poll it | `MCLive` | `RelayStreamProofs` |
| `OrderedReadings` | abstract: readings in order, with a bounded age | refined by `RelayStream` | `RelayStreamProofs` |
| `TargetRegion` | `AsciiTargetReader`: discovery, cache and rows of a 3xx | `MCLive` | `LiveProofs` |
| `RelaySession` | a whole telnet session, of the GLV and of the terminal | `MCLive`, `relay_retry` | `LiveProofs` |
| `MmsReader` | the MMS transport and its map | `MCLive` | `LiveProofs` |
| `Sessions` | cookies, requests in flight, sweeper, process | `MCWeb` | `SessionsProofs` |
| `ProjectLibrary` | upload, adopt, remove, prune, download | `MCWeb` | `WebProofs` |
| `JobRegistry` | progress jobs and their bars | `MCWeb` | `WebProofs` |
| `GlvTabs` | opening, batch, closing and choosing of tabs | `MCWeb` | `WebProofs` |
| `RdbOutputs` | writing an output and publishing it | `MCWeb`, `outputs_same_name` | `RdbOutputsProofs` |
| `DnpMap` | edits, swaps, copies and export of DNP maps | `MCWeb` | `WebProofs` |
| `VbComments` | descriptions between SCD, GLE and workbooks | `MCWeb` | `WebProofs` |
| `Versions` | the order of versions and the rule of what is offered | `MCSelfUpdate` | `UpdateProofs` |
| `PortableUpdate`, `VersionedUpdate`, `UpdateCheck` | the two kinds of install, the home's question | `MCSelfUpdate` | `UpdateProofs` |

How they compose.  `LinkPool` looks at links from the outside, and of the reader
keeps only that it may give up; `RelayPolling` looks at one link from the inside,
and of the pool keeps only that somebody calls `close()`.  What the first takes from
the second, that a reader which gives up leaves `connected` false and touches
nothing of a closed link, is a guard of `LinkPool!ReaderGivesUp` and proved of the
second (`InPlaceIsCurrent`, with the guard of `GiveUp`).  `RelayStream` looks at
the turns of the one reader that `RelayPolling` shows there is; `LiveFeed` takes
the readings from wherever they come.  `RdbOutputs` ends where an output enters the
project, with the steps of `derived.adopt` that `ProjectLibrary!Adopt` takes as one.

`MCWeb`, `MCLive` and `MCSelfUpdate` each put several components into one run.
Their components share no state that a property reads (a tool's session object,
the library, the registry and the folder are separate objects in the code too), so a
behaviour is one STORY, chosen at the start, in which one component moves and the
rest stand still; state spaces add up instead of multiplying, and each property is
checked in every story.  That a behaviour of the whole is one of each component is
proved (`UpdateProofs!StoriesAreApart`, the lemmas `WebStories` and `LiveStories`).

Operators called mutants (a comment says so) are variations of the definition
below them that a bug could make; each property was seen to fail with one.

### LinkPool

A connect or disconnect request bumps the generation of its diagram, so a
request and its worker thread are the pair <<diagram, generation>>, and the link
an attempt creates has the attempt's name.  `pc` is where a thread is:

| `pc` | code |
|---|---|
| `acquire` | about to enter `LinkPool.acquire` |
| `wait` | the loop on `link.ready` in `_connect` |
| `prepare` | `ensure_bits`, up to attaching under the diagram's lock |
| `drop`, `close` | in `LinkPool.release`: before its lock, and between the lock and the end of `close()` |
| `refused`, `fail` | the two ways into `_fail` |

`then` is where `drop` returns to: `_connect` releases the old link of the
diagram before it acquires, releases before `_fail`, and `disconnect` only
releases.  `conn` is the thread in `RelayLink.connect` (`dialing`: in
`transport.connect` before the login; `setup`: after it), `watchdog` the timer's
callback (`abort`, then `abandon`), `sess` the session the transport stores.

The grain is that of the locks: `acquire` and the part of `release` inside the
pool's lock are a step each; so are `connect_async` and `disconnect` under the
diagram's lock, and reads of flags without a lock are steps of their own.
`connect_async` bumps the generation and lets go of the old link in one action
because both happen under that lock; the release itself is the worker's.
Closing a diagram or a session is `disconnect` of it.

`Aborted` says what `abort()` reaches: a session that is stored; in the middle of
a telnet setup a socket that may or may not be stored; an MMS client in the
middle of its association, never (`transport/mms.py` stores it afterwards).

### RelayPolling

One link.  The calls are constants (`Discoverers`: `prepare_bits`; `Tuners`:
`set_poll_interval`; `Closers`: `close`), each made at most once at any moment;
a reader is named after the call that starts it.  `lock` is `RelayLink._lock`
where a call keeps it ACROSS steps, which is during a join; an action that takes
it and lets it go needs it free.  `disc` is the discovery lock.  A reader is in
`turn` (top of `poll_loop`), `reading` (talking to the relay), `ended` (returned or
raised), `leaving` (it saw no stop event, and is on its way into `_poll_gave_up`),
`clearing` (out of the lock, before `state.clear()`), or `dead`.

`setup_done` aside, `transport.close()` also needs the transport's own lock, which
`prepare_bits` keeps for a whole discovery on telnet: `Shut` waits for `disc`.
`GiveUp` may act without the lock only while another call has it: the timeout
of that acquire ends in silence.

The model allows a little more than one process does: pausing happens on telnet,
changing the period on MMS, and a link has one transport.  A link here may meet
both, so what is shown holds for either.

### LiveFeed and WantedBits

`LiveFeed`: a version serves only to tell whether it moved, so a stream keeps
whether the one it read is still current (`moved`) instead of a number.  A stream's
thread looks at the version (`Look`), builds its frame from the state its diagram
shows by then (`BuildFrame`), and parks on the state it looked at; the frame and the
version may belong to different objects when the diagram attaches or leaves in
between.  Not every change wakes the streams: a turn that raised (`ReadRaises`), the
reason of `_poll_gave_up`, stored after its `clear()` (`Explain`), and a diagram that
attaches (`AttachTo`) do not, and the heartbeat is what delivers them.

`WantedBits`: `set_wanted_bits` notes and computes under the link's lock (`Note`) and
publishes outside it (`Publish`), so two diagrams' unions may land in the wrong order;
a `values()` that read `link` before the diagram left may put its bits back (`Values`
after `LetGo`).  `release` does the same in two steps: `TakeBack` takes the bits out
under the locks, `GiveBack` publishes what is left after the link's own.

### RelayStream, OrderedReadings and TargetRegion

`RelayStream` has the relay answer in order and at any time; an answer is known by
its kind and by the turn that asked for it, a number that is in no frame: the code
cannot see it, the properties can.  `mode` is the loop (`poll_loop` of a 4xx,
`poll_loop_fastmeter`, `poll_loop_tar`, and the terminal's two).  `Drain` follows the flag
`clean`; `Silence`, `Raise` and `Whole` are the three ways a read ends.

`OrderedReadings` is the promise: a reading that is shown was asked for after the
one before it, and is at most as many turns old as turns have ended with an answer
still to come.  `RelayStream` implements it with `reading <- shown.analogs` and
`ripe <- found["meter"]`; `Begin`, `Miss`, `Ripen` and `Show` are its steps.

`TargetRegion` cuts a row's answer in its two lines, names and values, and lets a
pause end the reading before or between them; the rest arrives under the next
command.  A row stands for one of its eight bits.  `MaxPauses = 1` is a real bound:
with TWO pauses in one discovery a row's values can be parsed under another's
names, and `TarNeverMislabels` then fails.

### RelaySession and MmsReader

`RelaySession` follows the GLV's `setup_relay` and the terminal's whole program.  The
relay shows a prompt after whatever it is sent; `said` holds those nobody has read,
so the level the client believes may be older than the relay's.  `fails` counts the
malformed blocks of a step.  `Act` is a Fast Operate, `End` and `EndAtOnce` the two
ways out.

`MmsReader`: `Prepare` resolves the union of every diagram's bits from the SCD and
the factory table, refuses a diagram when neither exists or none of its bits has a
leaf, and publishes the plan; a turn takes the plan (`TakePlan`), reads it and publishes what it decodes.
A decorated leaf carries two bits with different values for 1.

### Sessions

A request is for one of three kinds of route (`Routes`): a tool's page resolves its
session (`Recognise`, `Mint`), the project's list peeks at it (`Peek`: it finds and
bumps, and never creates), and progress, themes and static files touch none.  A
request in a tool gets its session OBJECT once and holds it to its answer.
`Recognise` is one step although `resolve` reads the clock before it takes the lock:
the lock is held for operations on a dictionary only, which is no time at the
grain of a TTL of hours.  `Shutdown` lets a sweep in progress finish; only `Die` ends it.  The sweeper computes its cutoff (`Wake`), takes the idle
ones out under the lock (`Collect`) and releases them one by one (`Expire`, with
`on_expire` raising and `rmtree` failing).  `Shutdown` and `Die` are the two ways a
process ends, `Start` the purge of the next.  `heard` and `outlived` are history: when a
session was last asked for, and those that expired under a request or whose
`on_expire` raised.

### ProjectLibrary and RdbOutputs

An upload receives into a temporary file, moves it in place, asks the dictionary
under the session's lock, discards or adds: `Receive`, `MoveIn`, `LookUp`, `Discard`, `Add`.
An SCD is a file of the session named after its hash, so two uploads of the same
bytes share a path; an RDB's bytes are in the content cache all visitors share,
which is pruned.  `crossed` is history: contents removed or pruned while some thread
was storing the same bytes, for which the code makes no promise (see below).

An output of `RdbOutputs` is known by the request that wrote it and the number of
streams in it.  `CopySource`, `WriteStream`, `MoveInPlace` are `rdb_write`; `Truncate` and
`FillIn` the spreadsheets and SCDs that are written over their old selves; `HashOutput`
to `ListOutput` is `derived.adopt`; `WriteFails` and `Killed` come at any point.
`Results` says what a selection may come to, by tool: a failure refuses the whole
export (`RefuseExport`); the DNP map editor leaves out a session the file does not
have and writes the rest, refuses when nothing is left (`NothingToWrite`), and
may answer 500 once its RDB is in place (`TextsFail`): that file is whole, and is
not published.

### JobRegistry, GlvTabs, DnpMap, VbComments

`JobRegistry` keeps who last wrote an entry (`by`), which is not in the code: two
connections of two sessions' `d1` share an id.  `GlvTabs` splits opening a tab into the
check, the render, the id and the tab, because no lock joins them; `crowd` is history,
set once two requests have overlapped.  `DnpMap` keeps, as the code does, differences
against a file that is never written; each change holds the session's lock whole.
`VbComments` follows one relay: ExtRefs of its IED, symbols of its GLE (a symbol
stands for its one commented port), and the two workbooks; comments are known by the VB
they describe and the wording.

### Self-update

`PortableUpdate`: what lies at a path is the version it came from.  A swap goes path by
path: aside, then in (`PORTABLE_CODE_DIRS` and `_FILES` in order), with a list in
memory that a kill loses and an exception inside the swap never hands over.  The list
is the SET of the positions moved so far: the code appends in the order of the paths and
`_restore` takes the last first (`IsLast`), so the set says all of it.  A move is one
rename; a removal is many, and `rmtree(..., ignore_errors=True)` may leave any part
(`WipeBackup`, `Remains`: of a directory, `Torn`).  `stale` is history: the
paths where an older backup was left in the place of the next one's.  `parents` is the
directory `config/` that `_swap_in` makes in the backup: it alone makes a backup
"there" for `--reverter`.
`VersionedUpdate`: `versions/<v>/` with its venv, and `current`; the swap of the link
is unlink, then create; `order` is which of the four commands runs.  `UpdateCheck`:
tabs that wait for one lock held over the question, which ends in an answer, in an
`UpdateError` that is remembered as text (`GitHubFails`), or in another exception,
which nobody remembers (`GitHubEscapes`).  `Versions` is the order and the rule of what may be offered.

## Runs

Twelve, of which four are refuted on purpose.  State counts are of distinct states.

| Run | Instance | Shows |
|---|---|---|
| `pool_hang` | 2 diagrams, 1 relay, 2+1 requests, reconnecting early, relay may hang | `PooledIsLive`: what the map holds is open, not being closed, and owned; `NoOrphanOwner`: no slot without a holder; `StaleAttemptIsSilent` |
| `pool_patient` | 3 diagrams on 2 relays, ceiling 1, 3+1+1 requests, one at a time per diagram, no hang, one relay MMS | `NoCloseUnderDiagram`, `AttachedIsPooled`: the connection under a live diagram is open and the one the pool hands out |
| `pool_live` | 1 diagram, 3 requests, MMS that may hang, fair threads | `ConnectingEnds`, `ReleasedIsClosed`: attempts decide, unowned links close |
| `polling_obeys` | 2 discoveries, 2 changes of period, 2 closes; joins do not expire | `OneTalker`; `ShownIsRead`: connected, or values on screen, means that somebody reads or is about to |
| `polling_wedged` | 2 discoveries, 1 change, 2 closes; joins may expire | `OneReader`, `ClosedIsQuiet`, `InPlaceIsCurrent` (the reader in place has the last period and the link says connected), `CloseReturns`, `GiveUpIsSeen` |
| `update` | both kinds of install with every fault, and the home's question | `FolderIsSafe`, `ReportIsTrue`, `CurrentIsUsable`, `RollbackIsRight`, `InstalledIsKept`, `QuestionsAreFew` |
| `web` | seven stories of the server's side | `SessionsAreApart`, `ExpiredIsReleased`, `SweepsTheIdle`, `ListedIsOnDisk`, `ProgressIsTrue`, `TabsAreTrue`, `OutputIsWhole`, `SettingsAreKept` |
| `live` | six stories from the relay to the screen | `ParkedHasSentIt`, `ScreenFollows`, `PageIsAskedFor`, `StreamIsHonest`, `ReadingsAreOrdered`, `TarNeverMislabels`, `RelaySideIsRight` |
| `pool_two_sessions` | two visitors' `d1` on one relay | refutes `NoCloseUnderDiagram` |
| `update_swap_fails` | the instance of `update` | refutes `FailureRestores` |
| `relay_retry` | a relay that keeps answering malformed blocks | refutes `AttemptsAreLimited` |
| `outputs_same_name` | two exports of one source | refutes `KeyIsContent` |

Properties that join several: `SessionsAreApart` is one visitor per session and a
live session keeping its files; `SweepsTheIdle` that only the idle expire, and all of
them in the end; `ProgressIsTrue` that bars are true and no job is lost to a crowd;
`TabsAreTrue` the ceiling and the strip; `SettingsAreKept` the points of a DNP map and
the descriptions of virtual bits; `RelaySideIsRight` the logout of a terminal and an
MMS plan that has what every accepted diagram needs; `CurrentIsUsable` that the link
moves only in the swap, and to what the command made sure of; `ScreenFollows` that old readings
leave the screen and reasons reach it; `FolderIsSafe` that nothing is lost and the
engineer's half never moves; `ReportIsTrue` what "updated", "restored" and "reverted"
say.

### Bounds, and why they are enough

* Pool: two diagrams and up to three generations are a stale attempt, a current
  one and a neighbour; one or two relays share or compete.  `Requests` bounds how often
  each diagram asks, `MaxGen` the generations.
* Reader: each call is made at most once at a time; two of a kind meet each other, and
  the proofs cover any number.
* `update` (3.7 million states): four code paths (a directory, two files of which one is
  `VERSION`, and a nested one that the first version lacks), two of the engineer's;
  for the folder three releases, in a row with one another, and for the versioned
  install two releases, a snapshot and a version that cannot be placed; the channel
  also has a release that needs a newer Python.  `MaxCommands = 3` commands on one
  folder: an update that fails or is killed, one over what it left, and a rollback
  fit.  The clock of the home runs five hours with deadlines of
  3 and 2.
* `web` (1.5 million): two browsers and one request thread against a slow sweeper, two ids, a clock of 4
  with a TTL of 1; two contents, one an RDB, two uploads and a download, twice each;
  three jobs, two with one id, a registry that prunes at 1; two request threads on two tabs, a
  batch of two; three exports, two on one name (a tool has a directory of its own, so at one name two
  requests of one tool meet; here a GLE's and a DNP map's do, so that each kind of
  step meets the other's, and `outputs_same_name` has two of one); three sheets of two relays, one typed field;
  three ExtRefs and symbols of two VBs, one typed cell.
* `live` (0.7 million): two screens and one reading; two viewers and two pages; four turns with two late
  answers; two rows, a bit that does not exist, five commands, ONE pause; one stale
  prompt, one malformed block; three bits on two leaves, two diagrams.

`CHECK_DEADLOCK FALSE` everywhere: users stop asking, clocks and counters reach
their bound, and a link that has been closed is at rest.  `polling_obeys` has the
symmetry of equal calls; it checks no liveness.

What properties leave out.  `NoCloseUnderDiagram` and `AttachedIsPooled` need that a user
does not reconnect before the old attempt has ended, that ids are unique in the process
and, the second, that no setup hangs: without each of them the code breaks them.
`OneTalker` and `ShownIsRead` need joins that do not expire, for the same reason.
`StaleAttemptIsSilent` is checked where the ceiling is never met.  `ListedIsOnDisk` leaves
`crossed` contents out, `TabsAreTrue` sessions whose requests have overlapped,
`ExpiredIsReleased` sessions a request outlived, `SettingsAreKept` sheets into which
somebody typed, `OutputIsWhole` the plain writes: in each case the code lets the
property fail there, and no document promises otherwise.  `ReportIsTrue` and
`NothingLost` answer for the paths of `Answered`: not those whose restore raised, which
the code logs, nor those (`stale`) at which an older backup could not be removed.
`CurrentIsUsable` asks of each command what it makes sure of itself: of an update
all, of a copy that it is whole and has its packages, of an install in place that it is whole, of a
rollback that there is an `app.py`.  `QuestionsAreFew` counts the questions whose
outcome is remembered, `OnlyIdleExpires` the requests that look a session up.  `StreamIsHonest` leaves the stamp of the 4xx loop out (below).

Deadlines are not in the models of threads as time: `RelayMayHang` lets the watchdog
fire during any setup, `JoinMayExpire` lets any join return with its thread alive.
Sessions, jobs and the home's question, whose rules are about ages, have a clock.

### Fairness

Weak fairness on what runs by itself: a worker thread, the timer's callback, a
call that has been made, a reader that is not in the middle of a read.  Nothing
is assumed of users (no request is fair) nor of the relay: a setup may hang and a
read may never end.

* `LinkPool`: what bounds a setup is the watchdog, which fires after its deadline
  (`_connect_with_watchdog`); what follows it has timeouts of its own.
* `RelayPolling`: a join always returns (it has a deadline), and a discovery in flight
  ends once `close()` has aborted the transport (`AbortWakes`).
* `LiveFeed`: each stream's thread: it waits at most a heartbeat
  (`web/glv/events.py`), then builds a frame again.  The relay is not fair.
* `WantedBits`: a screen that is open keeps asking for its values, because the
  stream builds a frame per heartbeat, and each frame calls `values()`.
* `Sessions`: time passes, and the sweeper's thread, which only ever waits on a timer,
  gets its turn.  Without requests nothing else moves.

## What the models found

Each is a run that TLC refutes, against a sentence of the repository.

* `pool_two_sessions`: ids count per session and the pool is one: two visitors'
  `d1` on one relay are one owner, and the first to leave closes the connection of
  the other (`web/glv/handler.py:107`).
* `update_swap_fails`: `_swap_in` returns its list only when its loop has ended, so an
  exception inside it leaves nothing to put back, while the message says that the
  folder was restored (`update.py:342`).  The backup still has everything: a rollback
  repairs it, which `FolderIsSafe` and `ReportIsTrue` show.
* `relay_retry`: `retry()` compares a count it never increments
  (`src/selprotopy/common.py:165`), so that a block that stays malformed is asked for
  without end.
* `outputs_same_name`: `adopt()` hashes the file at a path and reads the path again;
  another export of the same source may have replaced it (`library/derived.py:83`).

Seen while modelling, and left out of the runs because one is enough of a kind or no
document says otherwise:

* `release()` pops the map by key without comparing the link: after the watchdog
  abandons a link whose diagrams have yet to release it, a new connection can take
  its key and the late release removes that one.
* A cancelled attempt releases by the diagram's id, which a newer attempt of the
  diagram holds on the same link (two quick clicks on connect).
* The `TooManyLinks` branch calls `_fail` without the generation: it paints in error a
  diagram the user has disconnected, and can drop the reference of an attached link.
* If the join of a pause expires, the discovery talks beside the reader it could not
  stop; the restart after it is refused, the surviving reader then ends in silence,
  and the link says connected with values nobody reads.
* The 4xx loop stamps the old values as read now in a turn in which neither the frame
  nor the region came, with no error (`web/glv/poll.py:243`).
* Two pauses in one discovery of a 3xx can put one row's values under another's names.
* A terminal whose `quit()` raises never reaches `conn.close()`.
* The import of a DNP device profile reads, computes and writes without the lock.
* `web/vb_updater/model.py` says that the first non-empty description of a VB counts,
  and the code keeps the last; a workbook's row prefers a subscribed ExtRef.
* `<comment />`, which the GLE Exporter writes for an emptied comment, is not matched by
  the VB Updater's pattern, so it is never filled again.
* The labels "reserva" and "Message Quality" are written into ExtRefs that had no
  description.
* Spreadsheets and SCDs are written over their old selves: a kill leaves half a file.
* The removal of an older backup ignores its errors, and a kill may cut it short; what
  it leaves lies where the next update keeps its own copies.  A `--reverter` then puts
  that over the folder, and says that it was reverted (`update.py:321`).
* After a pip failure whose restore put everything back, `config/` is still in the
  backup, so `--reverter` finds a backup, restores nothing and says "reverted".
* A rollback asks for an `app.py` and no more: it may link half a copy, or a version
  whose venv was never made (`update.py:680`).
* `_ask` promises that every failure becomes text (`web/update_check.py:119`) and catches
  `UpdateError` alone: a reply cut short, or a manifest whose numbers are not numbers, passes
  through, is not remembered, and each tab that waits asks again.
* `peek` says that the infrastructure routes call it (`web/session.py:112`); of these only
  `/library` does, so a page that only polls `/progress` does not keep its session.
* An export of a DNP map whose text files fail answers 500 with the RDB at its name.

## Proofs

TLAPS proves, for every value of the constants:

| Theorem | States | Needs |
|---|---|---|
| `LinkPoolProofs!TypeCorrect`, `PooledIsLiveHolds` | types, `PooledIsLive` | - |
| `WithinCeilingHolds` | the ceiling | finitely many relays |
| `NoCloseUnderDiagramHolds`, `NoOrphanOwnerHolds` | the properties of those names | patient users (`~EarlyReconnect`), distinct ids |
| `AttachedIsPooledHolds` | `AttachedIsPooled` | the same and `~RelayMayHang` |
| `StaleAttemptIsSilentHolds`, `RoomyNoOrphanOwnerHolds` | `StaleAttemptIsSilent`, `NoOrphanOwner` | a slot for every relay (`RoomForAll`) |
| `RelayPollingProofs!TypeCorrect`, `OneReaderHolds`, `ClosedIsQuietHolds`, `InPlaceIsCurrentHolds` | the properties of those names | - |
| `OneTalkerHolds`, `ShownIsReadHolds` | the same | joins do not expire (`~JoinMayExpire`) |
| `RelayStreamProofs!StreamTypeCorrect`, `StreamIsHonestHolds`, `ReadingsAreOrderedHolds` | the same; the refinement | - |
| `LiveProofs!ParkedHasSentItHolds` | `ParkedHasSentIt` | - |
| `OneCutNeverMislabels` | `TarNeverMislabels` | one pause at most in a discovery (`MaxPauses <= 1`) |
| `LoggedOutHolds`, `AcceptedIsPlannedHolds`, `RelaySideHolds` | the two halves of `RelaySideIsRight`, and it | - |
| `LiveTyped` | `LiveTypeOK` | - |
| `SessionsProofs!SessionsTypeCorrect`, `SessionsAreApartHolds`, `ExpiredIsReleasedHolds`, `OnlyIdleExpiresHolds` | the same; the last, the safety half of `SweepsTheIdle` | - |
| `RdbOutputsProofs!OutputIsWholeHolds`, `OutputsTyped` | `OutputIsWhole`, types | - |
| `WebProofs!LibraryTypeCorrect`, `ListedIsOnDiskHolds` | types, `ListedIsOnDisk` | - |
| `ProgressIsTrueHolds` | `ProgressIsTrue` | - |
| `TabsAreTrueHolds` | `TabsAreTrue` | - |
| `PointsAreKeptHolds`, `DescriptionsAreKeptHolds`, `SettingsAreKeptHolds` | the two halves of `SettingsAreKept`, and it | for points, each file lists a quantity once (`FilesAreStraight`) |
| `WebTyped` | `WebTypeOK` | - |
| `UpdateProofs!FolderStaysSafe`, `ReportsAreTrue` | `FolderIsSafe`, `ReportIsTrue` | - |
| `LinkIsUsable`, `RollbackGoesRight`, `InstalledStays` | `CurrentIsUsable`, `RollbackIsRight`, `InstalledIsKept` | - |
| `CheckIsFrugal` | `QuestionsAreFew` | - |
| `StoriesAreApart`, `UpdateTyped` | the composition, `UpdateTypeOK` | - |

Each rests on its module's assumption on the constants, which says what they are:
functions of the right sets, numbers, names that do not clash (`"none"` is no export,
`Stale` no id that can be drawn, `"nobody"` no VB), at least one content, the two
halves of a portable folder apart and no path swapped twice.  TLC evaluates each
assumption in a run.

The hypotheses in the last column are not conveniences.  Without `~EarlyReconnect`,
distinct ids, `~RelayMayHang` or `~JoinMayExpire` the code breaks the property, and where
the ceiling is met the `TooManyLinks` branch does (see above).  With TWO pauses in one discovery a row's values can be parsed under another
row's name.  And a DNP file that lists a quantity at two points has it doubled before
anybody edits: `MapIsStraight` then fails in the first state, so a theorem without
`FilesAreStraight` would be false.

Every invariant has one step lemma with a step per action; what a helper (a queue, a
list with an entry replaced, a function updated in one place) does to the data is a
lemma cited by each step that uses it.

**LinkPool.**  `PooledIsLive` is not inductive: it needs that a thread that was never
started holds nothing (`FreshThreads`), that a link nobody opened is nowhere
(`Unopened`), and that a link which is being closed has left the map because `Drop`
emptied its owners under the lock (`PoolInv`).  `NoCloseUnderDiagram` adds that with
patient users a diagram has one thread (`OneThread`) and none while it is attached, that
who holds a link is among its owners (`HoldersOwn`), and that a link that is being
closed has none (`ClosingIsUnowned`): `OwnerInv`.  `NoOrphanOwner` follows the same way
in the other direction; without patience a stale refused attempt breaks that argument.
Where there is a slot for every relay nobody is refused (a set that lacks a relay is smaller
than the set of relays), and then neither patience nor ids are needed: an attempt paints
its diagram only when it is the current one, and a diagram that is attached has no
current attempt at work (`AttachedIsSettled`).  This is the instance of `pool_hang`.
With no watchdog firing, whoever holds a link holds the pooled one (`HoldersPooled`):
`MapInv`.  The ceiling is a step lemma by cardinalities: only `Open` adds to the map.

**RelayPolling.**  `IInv` says that a reader is started by connect() or by whoever
stopped the one before (`OneRestarter`), while nobody else can; that every living
reader is in place, is the one being joined, is known as `_poll_dying`, or is past
its last word to the relay (`Accounted`); and that a start looks at exactly those.
`Fresh` gives each start a reader that does not live yet, `ClosedForGood` that
`_closed` is set before a close stops the reading, `Shown` that whoever will start
one finds the link connected.  When joins do not expire, one adds that
a join leaves nobody behind (`LeftAlone`), that only a discovery that stopped a
reader joins (`StoppedInTurn`), and that an open link that says it is connected has a
reader, is getting one, or is about to clear its screen (`Attended`).

**RelayStream.**  Answers of one kind wait in the order they were asked for (`InOrder`),
all younger than the one in hand and the one on the screen (`Younger`), and one that
waits is counted among the late ones before the channel is taken for clean
(`Recent`).  The refinement is a step lemma: `Drain` is `Begin`, `Silence` is `Miss` when it
leaves something behind, `ReadChunk` is `Ripen` when it finds the meter's answer,
`PublishTurn` and `Raise` are `Show`, and the rest stutters.

**LiveFeed.**  `ParkedHasSentIt` speaks of screens that are attached; what is inductive
is `ParkedHasState`, which does not: a stream parked on a state that has not moved, and
whose frame was built from that same state, holds the state's value, whichever way the diagram
has gone since.

**TargetRegion.**  After one cut either nothing of an earlier answer is in the stream
any more (`Orderly`) or what is known of the Relay Word, in memory and on disk, is right
(`LayoutIsRight`); before it both; and what is last in the stream is always the answer to
the question being heard (`OwnIsLast`).  This is `OneCut`: a second cut would have
to break the one that is left, which is the counterexample TLC finds for two.

**RelaySession, MmsReader.**  Between the reading of the bit names and its end, a session without an error is
at level 1 or above and has no prompt of level 0 unread (`LoggedIn`), so the level
`quit()` asks for, however old the prompt it reads, is one it has to log out of.
The plan is what both sources resolve of the bits gathered so far, those of every
accepted diagram among them (`PlanIsWhole`).

**Sessions.**  An id is drawn once, so it is one visitor's from its minting on, in the
answer and in the jar (`Cookies`); a request in a tool holds a session that is live or
was expired under it (`InKnown`); what the sweeper deletes has left the table, and its
cutoff lies in the past (`Batch`); a process that is down remembers nothing
(`DownIsEmpty`).  `OnlyIdleExpires` follows because the table and the history agree on
when a session was last heard (both are set by a lookup and by nothing else), and a bump after the cutoff is seen under the lock.

**ProjectLibrary, RdbOutputs.**  `ListedIsOnDisk` is inductive with the types because it
also speaks of the file a thread has moved in and not listed yet.  Whatever is at a name,
was hashed, was taken in or is in the project is of a request past its last failure
(`FilesAreSound`), and a finished request stays as it is (`Lasting`); a DNP export whose texts
fail is finished too: its file is whole, and stays unpublished.  Its types need
that what a request has written and what it has still to write add up to its
selections (`InBounds`).

**JobRegistry, GlvTabs.**  The entry under an id that one worker has to itself is
that worker's, at its stage (`SaidByItself`); that no young entry is pruned is a
fact about the step, by which ages `set()` sorts.  A request that has the tabs to itself has
room for what is left of its batch and ids that are not open (`OneAtATime`), and the
strip, the dictionary and the active tab agree between its steps too (`StripAgrees`).

**DnpMap, VbComments.**  Every pending difference is one (`Differs`), because the code
drops a difference that brings back the original; a sheet into which nobody typed is then a
permutation of the file, with each scale at its quantity.  What lies in a cell, in an
SCD or in a GLE is told of its own VB or of nobody (`Own`).

**Self-update.**  Of the folder, where a command is determines what is where: before the
swap everything is the old version's (`FetchIsBefore`), behind the position of the swap
the paths are swapped, from it on nothing has moved but the path just aside
(`SwapIsAtPlace`), with nothing claimed of what the backup has at the paths of `stale`, after it the list is what the backup holds (`PipIsAfter`,
`RestoreIsListed`).  What survives a kill is less, and is what `FolderIsSafe` needs: the
backup holds only the old version (`BackupIsOld`), and what no restore failed on is in the folder or in the
backup (`OldIsSomewhere`).  Of the versioned install, a command's target was checked
against the running version when it was chosen, and nothing has touched it since
(`UpdateInHand`, `InstallInHand`, `RollbackInHand`).  Of the question, the last answer is dated to the
last question (`LastIsCached`) and who holds the lock found it out of date
(`AskerFoundItOld`).

Only model-checked is liveness: `CloseReturns`, `GiveUpIsSeen`, `ConnectingEnds`, `ReleasedIsClosed`,
`ScreenFollows`, `PageIsAskedFor` and the second half of `SweepsTheIdle`, which is out of
this prover's reach.  Every safety property of a passing run is proved, under the
hypotheses of the table.

## What is left

1. The safety half of `GiveUpIsSeen` and of `ScreenFollows`: what a reader that ends
   has still to do, and that an old reading does not come back.
2. The stamp of a 4xx turn, the in-place write and the lock of the DNP import, once the
   code says what it promises.
3. The parsers of `src/selprotopy/protocol/parser/`, as functions over blocks of
   bounded length, which TLC alone could check.

## Not modelled

* What the relay says, beyond which turn or row an answer belongs to: frames, names of
  bits, values; the parsers of `src/selprotopy/protocol/` are one step that works or fails.
* `LinkPool.snapshot`, `info`, `describe` and the payloads for the client: they read
  without changing anything.
* GLE tabs (a conversion of one file's pages whose output is the plain write of
  `RdbOutputs`), settings compare and VLAN mapper (tables over files that do not change),
  notes, connectors, pages and VB sources (notes in memory, pure readings of files).
* Layout of spreadsheets, HTML, SVG, themes and the dashboard's pages; search of files
  (`paths.py`); shims and configuration.
* The download of a release, its digest and its zip: one step that works or fails.
* The import of a DNP device profile and the warnings of a map.
* Browser code and vendored libraries (`py61850`, `sellib`): modelled only through how
  `src/pacct` uses them.
