# TLA+ models of stayrtr

This directory holds TLA+ models of `stayrtr`, an RPKI-to-Router (RTR) server.
Its source is `src/cmd/stayrtr/stayrtr.go`. The program fetches a JSON list of
Validated ROA Payloads (VRPs) and optionally a SLURM file. It validates and
deduplicates the VRPs, then hands them to the RTR server library, which serves
them to routers. It also exports them as JSON over HTTP.

## 1. Inventory

### Components and how they interact

| Component | Code | State | Operations |
|---|---|---|---|
| VRP ingest | `processData`, `isValidPrefixLength`, the SLURM step of `updateFromNewState` (184-244, 274-279) | none (pure) | validate, count per family, deduplicate, filter and assert |
| Refresh goroutine | `run` (572-608), `routineUpdate` (381-437), `updateFile` (321-356), `updateSlurm` (358-379), `updateFromNewState` (255-319) | `lasthash`, `lastchange`, `lastdata`, `slurm`, the timer, the loop's flag `slurmNotPresentOrUpdated` | startup fetches, wait for the timer or SIGHUP, fetch SLURM, fetch cache, reprocess |
| RTR server library (`github.com/bgp/stayrtr/lib`, not in this repository) | calls at 285-291 and 610-634 | the VRP set, the serial, diffs per serial, client sessions | `AddVRPs`, `NotifyClientsLatest`, client queries |
| JSON exporter | `exporter` (439-445), `s.exported` under `lockJson` | `exported` | one handler that reads `exported`; modelled in `StayRTR` |
| SSH authentication | 635-720 | configuration only | password callback, public-key callback |
| CLI, listeners, TLS/SSH material | 505-570, 610-634, 720- | configuration | start-up I/O |
| Metrics | 154-166, 305-316, 324-331, 364-366, 472-496 | Prometheus gauges, `s.lastts` | gauge updates at the end of `updateFromNewState` and after each fetch; modelled in `StayRTR` and `RefreshMetrics` |

The refresh goroutine is the only writer of the state. `updateFromNewState`
pushes a new set into the RTR server with `AddVRPs`. It then broadcasts Serial
Notify with `NotifyClientsLatest`, replaces `exported` under `lockJson`, and
sets the `rpki_vrps` gauges. The server goroutines, the exporter and the
metrics endpoint read concurrently.

### Hard behaviours

- Fetches fail, return "not modified", or return a document that does not
  decode. The loop logs each of these and keeps going.
- The hash is recorded in `updateFile`, but processing happens later in
  `updateFromNewState`. That step can still refuse the data: the data is nil
  (no `"roas"`), or the buildtime is older than 24 hours.
- Time passes, so an accepted document can become stale.
- SLURM is optional. It can be refreshed in the loop or only at startup.
- Reprocessing is conditional: it runs only if the cache or SLURM was updated
  in this cycle.
- The 30-second retry mode is keyed on `lastchange`.
- In the RTR server, `AddVRPs` and the export update take separate locks.

## 2. Plan

| Order | Module | Models | Status |
|---|---|---|---|
| 1 | `VRPIngest` | ingest operators | done |
| 1 | `MCVRPIngest` | `processData` against a reference definition | done |
| 2 | `Refresh` | the refresh goroutine, with the upstream documents and the clock as environment | done |
| 2 | `MCRefresh` | its model values | done |
| 3 | `VRPHistory` | the library's VRP set, serial and the last K deltas | done (spec-modelled) |
| 4 | `RTRServer` + `RTRServerAbstract` | router sessions over `VRPHistory`, Serial Notify; the snapshot-level promise and the refinement | done (spec-modelled) |
| 4 | `MCRTRServer` | two routers, two VRPs | done |
| 5 | `StayRTR` | composes `Refresh` with `RTRServer` and the exporter; splits `updateFromNewState` at its two critical sections | done |
| 6 | `SSHAuth` + `MCSSHAuth` | the listener's authentication set-up and callbacks | done |
| 7 | `StayRTR` metrics step + `RefreshMetrics` | the `rpki_vrps` gauges after each update; `s.lastts` and the `rpki_refresh` gauges of the fetches | done |

Step 5 checks two properties:

- End-to-end convergence (`RoutersConverge`): a connected router comes to
  hold the document the upstream settles on. The path runs through
  `Refresh`, `AddVRPs` and the sessions.
- What the exporter serves compared with what the RTR server serves
  (`ExportShowsInstalled`).

## 3. Modules

### `VRPIngest`

The module is constant-level. Prefixes, ASNs and maxLengths are small sets. A
prefix carries its length, width and family as constant functions. `BadPrefix`
and `BadASN` stand for strings that fail to parse. Each definition models the
code listed below.

| Definition | Models |
|---|---|
| `isValidPrefixLength` | line 187 |
| `Accepted` | the three early `continue`s (207-221) |
| `ProcessDataStep` | one loop iteration: count, then deduplicate on the `(prefix, asn, maxLength)` key that `fmt.Sprintf` builds at line 229 |
| `processData` | the whole loop, as a recursive function over the list |
| `ApplySlurm` | `append(kept, asserted...)` |
| `decodeJSON` | the `json.Decoder` into `prefixfile.VRPList`: a maxLength outside `0..255` (the field is a `uint8`) is an error for the whole document |

`FilterOnVRPs` is in the `prefixfile` package, outside this repository. It is
modelled from its contract: it keeps the entries the config does not filter.

### `Refresh`

| Variable | Code |
|---|---|
| `pc` | where the refresh goroutine is: `StartCache`, `StartSlurm`, `StartUpdate`, `Wait`, `Slurm`, `Cache`, `Update` |
| `lasthash`, `lastdata`, `lastchange`, `slurm`, `slurmNotPresentOrUpdated` | the fields and local of the same name |
| `lastdata` | a document identifier, so comparing the hash is comparing the identifier |
| `delay` | which timer the last `Wait` armed |
| `installed` | the set given to `AddVRPs` |
| `exported` | `s.exported` |
| `servedSlurm` | the SLURM config in force at the last install |
| `upstream`, `upSlurm` | what the URLs currently return |
| `stale` | the documents whose buildtime is now older than 24 hours |
| `canon` | the constant table of `processData` results. It is a variable only so that TLC evaluates it once, not on every liveness check. |

Each action takes `fetched \in BOOLEAN`: whether the HTTP fetch succeeded
(including "not modified"). Each action models the whole call:

| Action | Models |
|---|---|
| `StartupCache`, `StartupSlurm`, `StartupUpdate` | `run` |
| `Wait` | timer or SIGHUP, then choose the timer for the next round |
| `RefreshSlurm` | the loop's `updateSlurm` |
| `RefreshCache` | `updateFile` and the reprocess condition |
| `RefreshUpdate` | `updateFromNewState` |

The environment actions are `Publish`, `PublishSlurm` and `Expire`.

These calls are not in the model:

- `NotifyClientsLatest` and the serial read are calls into the RTR library.
  They join the model in `StayRTR`, where `updateFromNewState` is split
  into its two critical sections.
- Metrics are write-only.

### `SSHAuth`

The SSH block of `run()` (645-711), as operators. A configuration is a
record of the flags and environment variables that block reads. An attempt
is the method a client tries and what it presents.

| Definition | Models |
|---|---|
| `ConfiguredPassword` | the flag, else `STAYRTR_SSH_PASSWORD` (649-652) |
| `PasswordCallback` | user and password comparison (653-664) |
| `AuthorizedKeyText` | the key file, else `STAYRTR_SSH_AUTHORIZEDKEYS` (666-676) |
| `SplitLines` | `strings.Split(text, "\n")`, a fold over a token sequence |
| `KeyLineMatches` | the loop over the lines with `continue`, `HasPrefix` and `break` |
| `PublicKeyCallback` | bypass, or a matching line |
| `NoClientAuth` | set when neither method is enabled |
| `Admits` | which method the `ssh.ServerConfig` accepts, and how |

Text is a sequence of tokens: a key (`"<type> <base64>"`), a newline, or any
other word. `strings.HasPrefix(line, key)` is "the line starts with the key's
token". This is sound because a key's encoding is never a proper prefix of
another key of the same type. The real authorized_keys lines carry padded
base64; the code encodes the key without padding, and only the prefix test
makes the two match. A line with options before the key never matches.

### `VRPHistory`, `RTRServer`, `RTRServerAbstract`

The RTR library (`github.com/bgp/stayrtr/lib`) is not in this repository.
These modules are written from spec 4.B-4.D, and from the calls in
`stayrtr.go`: `KeepDifference: 3` (line 525), `AddVRPs` followed by
`NotifyClientsLatest` when `-notifications` is on (285-291).

| Variable | Meaning |
|---|---|
| `current`, `serial` | the installed set and its serial (modulo `SerialSpace`) |
| `deltas` | the last `K` deltas, each with the serial it starts from |
| `installs` | installs so far, bounded by `MaxInstalls` |
| `sstate[r]` | router `r`'s session: `Down`, `Awaiting` a query, `Serving` a response |
| `known[r]`, `cset[r]` | the router's serial and table; kept across reconnects (the session id is constant) |
| `resp[r]` | the response computed at query time and not yet delivered |
| `queryDue[r]` | the router owes a query: it connected, was notified, or got a Cache Reset |
| `deferred[r]` | a Serial Notify held back while `Serving` |

A query is answered from the history as it is at that moment (the reader
lock). The response reaches the router in a later step (`Deliver`). Installs
and disconnects can come in between. `Install(new)` is `AddVRPs` and, when
notifications are on, `NotifyClientsLatest`, which the code calls also when
the set did not change.

`RTRServerAbstract` keeps no deltas. It keeps only the window of the last
`K+1` serials, and answers every query inside the window with the current
set itself. `RTRServer` maps its deltas to that window. A delta response maps
to the table the router will hold once it applies it. `ImplementsAbstract`
checks the abstract specification as a property under that mapping.

### `StayRTR`

`StayRTR` composes the other modules. It declares the variables of
`Refresh` and of `RTRServer` and takes their actions through
`R == INSTANCE Refresh` and `S == INSTANCE RTRServer`. The library's VRPs
are the keys of the well-formed `VRPJson` values. It adds `envChanges`,
which bounds how often the upstream changes.

| Action | Models |
|---|---|
| `Fetch(f)`, `R!Wait` | the refresh goroutine's steps of `Refresh`, leaving the server alone |
| `Process` | `updateFromNewState` up to `NotifyClientsLatest` (255-292). If it returns early (no data, or a stale buildtime), the goroutine goes back to `Wait`. Otherwise it runs `S!Install` (`AddVRPs`, then the notify) and moves to `pc = "Export"`. |
| `Export` | the `lockJson` section (294-303): `s.exported` becomes the SLURM-filtered `vrpsjson` with its buildtime |
| `Metrics` | the last part (305-316): the `rpki_vrps` gauges. `UpdateMetrics` gives the "unfiltered" gauges `processData`'s counts, which are taken before deduplication, and the "filtered" ones the per-family counts of the deduplicated list. The family is the code's: `To4() != nil`. |
| `RouterStep(r)` | `RTRServer`'s `Connect`, `Query`, `Deliver`, `Disconnect`, once `listening`: the listener starts after the initial `updateFromNewState` (604-613) |
| `Environment` | `Refresh`'s `Publish`, `PublishSlurm`, `Expire`, at most `MaxEnvChanges` times |

The exporter handler (439-445) only copies `s.exported` under the read lock.
A reader in any state sees `exported`, so no action is needed for it. Routers
and readers can run between `Process` and `Export`.

`vrpGauge` holds the four `rpki_vrps` values. `gaugeTable` is `GaugeTableDef`,
the gauges for each document and SLURM config. Like `canon`, it is a variable
only so that TLC evaluates it once rather than during every liveness check.
Without it, the liveness run slowed from 38 seconds to over 15 minutes.
`rpki_change` is left out, because time is not modelled here.

### `RefreshMetrics`

This module holds the metric writes of the fetches, which `Refresh` leaves
out. `updateFile` takes `s.lastts` before it fetches (324). After a fetch that
reports `lastrefresh`, it sets the URL's `rpki_refresh` gauge (329-331).
`updateSlurm` sets the gauge for the SLURM URL from `s.lastts` (364-366).

The schedule of the goroutine is the one of `Refresh`: the startup fetches,
then per cycle `Wait`, SLURM, cache. `clock` counts refresh cycles modulo
`Period`. It advances in `Wait`, because the fetches of one cycle happen
within seconds of each other, and cycles are the refresh interval apart. The
data and the processing steps write none of this state, so they are left
out.

## 4. Runs

| Run | Config | Expect | Shows |
|---|---|---|---|
| `ingest_reference` | `MCVRPIngest.cfg` | pass | Over every input of up to 3 entries, `processData` matches a reference built from the data model: accepted = well-formed, first occurrence kept, counts before deduplication. The values sit at every boundary: `plen = 0`, `maxLength = plen - 1` / `plen` / `width` / `width + 1`, v4 and v6, bad prefix, bad ASN. |
| `ingest_uint8_maxlength` | `MCVRPIngest_IngestKeepsValidEntries.cfg` | violation | One entry with maxLength 256 makes `decodeJSON` fail, so the document's valid entries are not served; the spec says such an entry is dropped (finding). |
| `refresh` | `MCRefresh.cfg` | pass | Four properties, listed after this table. |
| `refresh_slurm_startup_failure` | `MCRefresh_SlurmAlwaysApplied.cfg` | violation | A failed SLURM fetch at startup is only logged, and the first install serves unfiltered VRPs (finding). |
| `refresh_initial_retry` | `MCRefresh_FastRetryUntilInstalled.cfg` | violation | A first document with no `"roas"`, or a stale one, sets `lastchange`. The loop then leaves the 30-second mode without having installed anything (finding). |
| `ssh_auth_contract` | `MCSSHAuth.cfg` | pass | For every configuration (both methods on or off, password from flag or environment, key list from a file of up to 3 tokens or the environment, bypass) and every attempt, `Admits` agrees with the contract: none, password, key on any line, bypass. |
| `ssh_empty_password` | `MCSSHAuth_PasswordNeedsSecret.cfg` | violation | Password auth with no password configured admits the empty password (finding). |
| `rtr_refinement` | `MCRTRServer.cfg` | pass | `TypeOK` and `ImplementsAbstract`: compaction and eviction are right, whatever installs, notifies and disconnects interleave with the routers' queries. |
| `stayrtr_end_to_end` | `MCStayRTR.cfg` | pass | `ExportCoherent`, `MetricsDescribeServed` and `RoutersConverge`. `ExportCoherent`: except between `Process` and `Export`, `processData` of the exported list is the set the RTR server holds. This covers SLURM filtering and assertion, AddVRPs calls that change nothing, and a re-processing after a SLURM update that the buildtime check rejects, which must leave both sides as they were. `MetricsDescribeServed`: whenever the loop waits, the deduplicated gauges count the served VRPs of each family, and the raw gauges count the valid entries of the exported list. `RoutersConverge`: for every document and router, while the document is upstream, decodes and is servable, a connected router comes to hold its VRPs under the SLURM config in force. Failed fetches, SLURM changes, expiry, reconnects and notifies interleave. |
| `export_shows_installed` | `MCStayRTR_ExportShowsInstalled.cfg` | violation | The export holds `vrpsjson` before `processData`. A document with an invalid entry (`C`) or a duplicate (`A, A`) is exported as is, while the server serves `{A}` (finding). |
| `metrics_ipv4_mapped` | `MCStayRTR_MetricsDescribeServed.cfg` | violation | The model values add the prefix `pm`, `::ffff:10.0.0.0/120`, to `d1`. Its VRP is validated as width 128 but counted in the ipv4 gauges (finding). |
| `slurm_refresh_timestamp` | `MCRefreshMetrics.cfg` | violation | `RefreshGaugeIsRequestTime`: in the first loop cycle, the SLURM fetch writes the previous cycle's cache request time to the SLURM URL's `rpki_refresh` gauge (finding). |

The `refresh` run checks these properties:

- `TypeOK`: only well-formed VRPs are installed.
- `ServesLatestAccepted`: whenever the loop waits with a servable `lastdata`,
  the installed set is `processData` of that document under the current
  SLURM config.
- `Converges`: a document that stays upstream, decodes and is servable is
  eventually installed.

The bounds of `MCRefresh` are:

- 4 cache documents: `d1` with a v4 and a v6 VRP, `d2` with a duplicate and
  an invalid entry, `dbad` that does not decode, and `dnil` without `"roas"`.
- 3 SLURM documents: a filter, an assertion, and one that does not decode.
- Every fetch may fail.
- Any document may go stale.

That covers every branch of `updateFile`, `updateSlurm` and
`updateFromNewState`. It also covers every combination of the two update
flags. Larger sets only rename documents.

`MCRTRServer` has two routers, two VRPs and `K = 3`. It allows 5 installs,
which is enough for eviction and for a router
lagging past the window to get a Cache Reset. `SerialSpace = 8` is above
`MaxInstalls`, because serials in the code are 32 bits: aliasing after
`2^32` installs is out of reach and is listed as a hazard, not checked.

`MCStayRTR` reuses the VRPs of `MCRefresh`, with these documents:

- `d1`, `d2` and `dnil`;
- a SLURM file that filters `B` and asserts `E`, and one that does not decode;
- `K = 3`, `SerialSpace = 8`, `MaxInstalls = 4` and `MaxEnvChanges = 2`.

`MaxInstalls` is at least `MaxEnvChanges + 2`. Every install needs a new
document or SLURM config, or is one of the two installs at startup, so the
history's install bound never blocks the refresh loop. The sets served are
`{A, B}`, `{A, E}` and `{A}`, so the router sees real deltas.

The passing run has one router. `RoutersConverge` is per router, and a
second router only adds interleavings the property does not relate: with
two routers, six leads-to checks did not finish within 15 minutes. The
violation run has two routers.

`RoutersConverge` also covers a Serial Notify raised while the router is
`Serving`. Under the mutant that drops such a notify, the run fails. An
earlier standalone liveness run over `RTRServer` checked the same thing and
was removed. Its bug cannot be shown apart from `ImplementsAbstract`, because
the abstract specification tracks the notify flags step for step.

`MCRefreshMetrics` takes `Period = 3`. With 3, a value two cycles old still
differs from the current time.

`MCSSHAuth` enumerates 16,320 configurations and checks all 36 attempts
against each.

### Fairness

`WF_vars(RefreshStep)`: the refresh goroutine always wakes, because the timer
always fires. Once awake, each step is enabled and runs.

`SF_vars(RefreshCache(TRUE))`: a fetch that is attempted infinitely often
eventually succeeds. This is an assumption about the upstream, not about the
code. Without it, a permanently failing URL prevents convergence, as expected.

In `RTRServer`, the server's answer and its delivery are weakly fair: the
server goroutines run. A router's query is weakly fair only when it is owed
(`queryDue`). A poll on the router's refresh timer is allowed but not
assumed, so `RoutersConverge` in `StayRTR` rests on notifications alone. `Install`,
`Connect` and `Disconnect` have no fairness.

`StayRTR` assumes the conjunction of these. The refresh goroutine is weakly
fair, and so are `Process` and `Export`, which are its steps. A fetch in the
loop eventually succeeds. A router's owed query and every delivery are weakly
fair. `Environment` has no fairness, and neither have `Connect` and
`Disconnect`: a router that disconnects forever satisfies `RoutersConverge`
by being `Down`.

## 5. Not modelled

- A passing property that bounds how far the export lags behind the RTR
  server. `ExportShowsInstalled` already fails on the content of the export,
  so a lag property would have to compare the unprocessed lists.
- In the RTR library: the PDU codec and version negotiation, the per-client
  write queue and its backpressure close, and the `maxconn` cap.
- `Refresh` takes a document's decode outcome as a constant; `decodeJSON`
  derives it from the entries only in `VRPIngest`.
- Some metrics:
  - `refresh_requests_total` is a counter that only grows, and no property
    is about it.
  - `rtr_clients` and `rtr_pdus` are called back by the RTR library, and
    its model has no such callbacks.
  - `rpki_change` is a timestamp.
- Flags, listeners, TLS and SSH key loading (505-570, 610-634). This is
  start-up I/O, and the spec puts it out of scope.
- The serial wrap after `2^32` installs (line 287). It cannot be reached
  within a process lifetime, so it is not listed as a hazard.
- The CI workflow.

The `hazards` list in `PROJECT.json` records which of these a later module
should cover.
