# deputyOS in TLA+

TLA+ modules of the parts of deputyOS whose correctness depends on order, failure
and concurrency, TLC configurations that model-check them on small instances, and
TLAPS proofs of the results that should hold for every instance. Each definition is
translated from the source; `PROJECT.json` maps it to its lines, lists the runs, the
mutated forms of the definitions that the properties reject, the hazards of the code
and the theorems.

    tlc -workers 2 -config slots.cfg ABSlots.tla             # a run
    tlapm ABSlots_proofs.tla                                  # a proof

## The system

A deputyOS device runs one AI agent (the *profile*) as a systemd unit. `deputyctl` is
not a daemon: each command is a process that reads files, does something long, and
writes files. What concurrency there is comes from processes that meet in the same
files, from timers, from browser tabs, from other machines, and from power failures.
No command locks a file.

| component | state | operations | meets | what makes it correct |
|---|---|---|---|---|
| A/B update (`update.rs`, `rollback.rs`, `watchdog.rs`) | `slots.json`, two slot images, boot entry, `/etc/deputyos/version` | update --apply, rollback, boot check, post-boot confirmation | each other, systemd's start limit, boot loader, power | consistent flags; a trial is counted once per boot and settled; an interrupted update leaves a bootable device |
| Fleet commands (`commands.rs`, `deputyd-protocol`) | none on the device; the API keeps the queue | fetch, refuse, run through deputyd, post | a second poller, lost posts, clock | recorded outcomes are true; every command settles; order and single execution as far as posts arrive |
| Audit spool (`audit.rs`) | spool file | emit, flush | other emitters and flushes, API | nothing lost |
| Restore (`restore.rs`) | component directories, what was moved aside | cloud and snapshot restore | reconcile, power | the original survives until a success; reports are true |
| Reconcile (`reconcile.rs`) | strikes | probe and restart | restore, every command on units | a stopped unit comes back |
| Cloud backup (`backup.rs`) | staged copy, freezer of deputyd, status file | quiesce, copy, thaw, pack, upload | the workload, other backups | a bundle is one moment and opens; the workload is thawed; success means stored |
| Setup wizard (`deputywizard`) | saved step machine, four keys in memory, what apply leaves | forms, account registration, apply | browser tabs, restart, failing commands | no key disappears; "done" is true; one registration; the recovery key comes first |
| Wizard access (`auth.rs`, units, console login) | launch token, sessions, `account.json`, console's pair of tokens | token exchange, JWT, login, logout, remote link | two units on one port, lost answers, time | only who may; access fades; one wizard serves; an owner is not locked out |
| Device commands (`cost.rs`, `quiet_hours.rs`, `model*.rs`, `mounts.rs`, `network.rs`, `voice.rs`, `profile_switch.rs`, `factory_reset.rs`, PWA and wizard forms) | nine files in `/etc/deputyos`, the pointer to the active profile, units, data | set, switch, reset, check, apply | each other over one temporary name, reconcile, kills | a reported setting is kept; one profile runs; a reset does what it says; a pause is marked |
| Message relay (`message_relay.rs`, `hooks.rs`) | socket, backlog | one request at a time, its scripts | agents, hook scripts | who has spoken is answered |
| Desktop runtime (`runtime.rs`, `drivers/linux.rs`) | `instances.json`, pid file, sockets, QEMU | start, stop, pause, resume, set_memory, configure, delete, status | QEMU, its guest, other consoles | no lost VM; guest and host agree; the registry tells the truth |
| Launcher (`deputyos-desktop`: `main.rs`, `selfupdate.rs`, `release.rs`, WSL and UTM drivers) | images, record of the installed release, own binary, registry, VMs of WSL and UTM, port proxies | install, update, self-update, uninstall, create, delete, start, stop, pause, resume | a second process, kills, failing tools | the record is true; no half update; registry, guests and ports as said |
| Integrated tunnel (`tunnel.rs`) | map of streams, a task each | open, data, close, done, HTTP request | cloud, local services | no crosstalk; what one side ends ends on the other |

| Release tracker (`deputyos-track`, `release-tracker.yml`) | branches and proposals on GitHub, a person's clone | propose, push, open or edit; apply, open-pr | upstream projects, people who merge and close, a second run | one profile per proposal; a pin goes forward only; every newer release is proposed |

The other components (`PROJECT.json`, status `not_modelled`) render, parse, make one
request, or build images.

## Modules

### A/B update: `SlotsFile`, `UpdateTrial`, `ABSlots`, `ABSlots_proofs`

`SlotsFile` is `slots.json` and the pure part of its four writers. `ABSlots` composes
the processes: each of `update --apply`, `rollback` and the confirmation reads
`slots.json` into `held[p]` at its start and writes a change of that copy at its end;
between the two are the staging, the copy to the slot, the checksum, the boot loader,
or the health check, each a step that may fail. The boot watchdog runs before anything
else and is one step. `Restart` is a reboot or a power failure at any moment. `calm` is
a history variable: it is lost when commands run at once (nothing in the code prevents
it), when a second slot change starts before the reboot that the first asks for, and
when a command dies between boot loader and `slots.json`. `SlotAgreement` and
`UpdateKeepsPointerWhole` are what the design gives while it lasts; all else holds
without it. `oneShot` is the boot loader, EFI's BootNext or a persistent default.
`UpdateTrial` is what docs/08 promises, without files and processes: a trial that is
counted boot by boot and settled by the third. `ABSlots` implements it (`TrialSpec`).

Two facts of the code that the model relies on: the watchdog's unit has no `[Install]`
section but the role enables it; a slot that is a block device skips rollback's digest
check (not modelled, the model's slots are files).

`PendingResolves` and `UpdateNeverStrands` need that the device is switched on again
(`WF(Boot)`), that it is restarted some time (`WF(Restart)`), that the watchdog's write
succeeds now and then (`SF`), and that a command which has changed the boot loader gets
to its next step (`WF`). `UpdateNeverStrands` stops at the first slot change
(`ops <= 1`) because on EFI the boot entry is never made permanent, so a second update
overwrites the default boot slot.

### Fleet commands: `CommandPoller`, `Cloud_proofs`

A poller fetches the pending commands, and for each one decides (protocol, expiry,
allow-list), asks deputyd, and posts. A command stays pending until a post arrives, so
a lost post, a killed poller or a second poller delivers it again. `doubtful` records
to which commands that has happened: `RunsOnce` and `FollowsQueue` say that everything
else runs once and in order. `EveryCommandSettles` assumes a service that systemd
restarts and posts that get through now and then (`SF`), and that deputyd answers or
closes the socket; the code has no time limit on that answer
(`deputyd-protocol/src/lib.rs:322`).

### Audit spool: `AuditSpool`, `Services_proofs`

Emitters write text and newline in two writes; flushers read, post, and truncate
whatever is there. `exposed` records the events that were appended in between, which
is the one way to lose one; `NothingLost` covers all others. A batch is the set of its
events.

### Restore and reconcile: `Restore`, `BackupRestore_proofs`

The components of a bundle are moved aside and copied one after the other; any rename
or copy may fail, also a rename back, power may fail anywhere, and the reconcile timer
may start the unit in the middle. The cloud restore and the snapshot restore share the
state and differ in their steps: the first places up to `N` components and undoes them
in the reverse order, the second has one and makes a fresh directory. `aside[c][k]`
keeps what restore `k` moved away from `c`. A restore that could put back everything
ends "failed", one that could not, or was cut off, "abandoned". `UnitComesBack` needs
that the timer fires again and again and a start succeeds now and then.

### Cloud backup: `CloudBackup`, `BackupRestore_proofs`

Two pieces of state that the workload writes one after the other; a bundle is a
snapshot when its second piece is not newer than its first. The bundle is packed,
encrypted, verified and uploaded, and `run_now` writes the status last. `overlapped`
and `orphaned` record what no code of the device protects from (two backups at once; a
killed backup or a lost answer of deputyd).

### Setup wizard: `Wizard`, `Wizard_proofs`

One HTTP process with the saved `WizardState`, the pending keys in memory and what
apply leaves on the device. A handler that takes one lock is one step; one that takes
several, or waits for the network or a command, is one step for each, with the other
tab's requests between. No handler looks at the current step, so any form comes at any
time. Apply takes the four keys, goes through its `Stages` and ends with the first
error. `met` names the kinds of request that were in flight at once, `lost` the keys
that an error page or a restart has cost the owner.

### Wizard access: `RemoteAccess`, `Services_proofs`

The two units and their `ConditionPathExists`, the choice of the mode at start, launch
token, JWT and sessions, the console's device login and its pair of tokens. Time is
counted in lives of a JWT. Answers may be lost, processes and the device may die.
`OwnerGetsIn` assumes that an owner who is not let in tries again and that not every
answer is lost (`WF(Answered)`); it is about the design of the JWT, which unlike the
launch token survives a lost answer.

### Device commands: `ConfigFiles`, `Device_proofs`, `Device`, `MessageRelay`

`ConfigFiles` holds the nine files, what each reader makes of a missing, empty or torn
one, and the change that each command makes to its copy. `Device` runs the commands
step by step: read, open the temporary file, fill it, rename, then systemctl, nft or
hooks. `fd[p]` is where the file that a process has open for writing is now, so that
two processes with one temporary name write over each other as they do on a disk. The
PWA's and the wizard's forms are commands like the others. A `menu` is a family of
commands that share files or units; the initial state picks one of `Menus`, as
commands of different menus touch nothing in common. `MessageRelay` is the relay, its
backlog and the scripts of a request; `Device` composes the two and adds the hooks of
a cost alert. `allowed` keeps, for each setting, the values that it may have after what
was reported; `spoiled` the files that two commands were in at once.

### Desktop runtime: `DesktopVM`, `DesktopVM_proofs`

The operator's operations are split where another process can get in: reading the pid
file, probing the process, each control call. `vm` is the truth about each QEMU
process; `pidfile` and `socket` are what the driver can find. An observer asks for the
status at any time; that may remove a stale pid file. Children are never waited for,
so an exited QEMU is a zombie until its parent ends. `forsaken`, `doubtful` and
`stale` record the failures after which no code looks again.

### Launcher: `Launcher`, `Launcher_proofs`

Console and command line as two processes, each with a job that it takes step by step:
download to the staging path or (install) straight to the boot path, verify, remove,
rename, record; stop or quiesce, withdraw the port proxies, terminate, mark; read the
registry, act, save. `backend` is chosen at the start: QEMU (images only, its VMs are
`DesktopVM`'s), WSL or UTM. The bare command line's VM has a slot of its own beside
the instances'. A job may fail or be killed at each step; `spoiled`, `clashed`,
`overlapped`, `doubtful` and `unmapped` record the failures that the code does not
undo.

### Tunnel: `TunnelMux`, `Cloud_proofs`

One FIFO in each direction, one task per stream, and the message `done` by which the
loop learns of a task's end. A stream is a WebSocket or a plain HTTP request; a service
that is not in the list is refused. The cloud is prudent: it reuses an identifier only
after the device has closed the stream that had it. `EverythingEnds` assumes that
`select!` and the runtime are fair; it does not assume that a local service ever
answers.

### Release tracker: `Releases`, `PinTrack`, `Tracker`, `MCTracker`, `Services_proofs`

`Releases` is the pure part: what GitHub lists, the channels, and the order of
`version.rs`; what upstream publishes is the constant `History`, which `MCTracker` gives
TLC. `Tracker` has a scheduled and a dispatched run of the workflow, each with
the main branch that it checked out, and a person's clone in which `apply` and `open-pr`
run on whatever is checked out. A branch is the pins it started from and the pins it
has; people squash-merge what does not conflict, close proposals and delete branches;
upstream publishes and withdraws. `discover` is one step: its queries are independent.
`PinTrack` is docs/04 without runs, clones and branches, and `Tracker` implements it
(`PinTrackSpec`), liveness included. That part needs a fair schedule (`WF`) and that
failures end at some time (they are bounded). A proposal that `open-pr` pushed last may
hold more than one bump (`byHand`); a newest tag that does not parse, of any profile,
stops the promise for all.

## Runs

| run | instance | shows |
|---|---|---|
| `slots` | 3 releases (one bootable and unhealthy, one not bootable), 2 updaters, both kinds of boot loader, 2 slot changes | the flags of `slots.json` never contradict each other, trials are counted and end, a first update never strands the device; while calm, boot loader, `slots.json` and kernel agree, and an interrupted update leaves the boot entry whole |
| `poller_faults` | 2 commands, 2 pollers, 1 tick, lost posts and deaths | true outcomes; single execution and order; every command settles |
| `spool_faults` | 3 events, 2 flushes at once | nothing lost |
| `restore_faults` | 3 components, 2 restores, reconcile and power failures | originals kept, reports true, unit comes back |
| `backup_faults` | 2 backups, 2 writes of the workload | bundles open and are snapshots, success is true, thawed |
| `wizard_tabs` | 2 tabs, 3 requests, 1 fault, 1 restart, 2 API bases | keys, "done", registration, recovery key |
| `remote_access` | 2 accounts and the person at the device, 4 ticks (a session is 2, a JWT 1), 2 logins, 1 fault | who gets in, how long, one wizard |
| `device_commands` | 2 processes, 3 commands, 1 fault, 8 menus, 3 relay clients of which one is silent | settings, profile, reset, pause, relay |
| `desktop_faults` | 2 QEMU processes, 2 memory sizes | no VM lost, guest follows host, registry |
| `launcher_hosts` | 3 hosts, 2 instances, 2 profiles, 2 releases, 3 commands, 1 fault | record, images, registry, guests, ports |
| `tunnel_streams` | 2 streams, 2 identifiers, 1 frame each way, a listed and an unlisted service | no crosstalk, everything ends |
| `tracker_prs` | a stable and a beta profile, 4 releases (one with a mismarked beta10, one with a tag that does not parse), 1 dispatched run or command in the clone, 1 failure | implements `PinTrack` |

The bounds are the smallest with which the interesting cases happen: a release to fall
back to, one on trial and one newer; a reader and a writer too many; a component before
and one after the failing one; a VM and the one that replaces it; a stream and a
successor with the same identifier; a command, one that crosses it, and one that finds
what they left; a JWT that ends before the session it gave. `CHECK_DEADLOCK FALSE` is
set because every bounded counter stops somewhere; what must go on is stated as
liveness. Symmetry is used where all properties are invariants.

Each property has a mutated form of the code that it rejects; they stand beside
the definitions that they mutate ("Mutant: ...").

## Proofs

Each theorem holds for every value of the constants that satisfies the module's named
assumptions.

* `ABSlots_proofs`: `TypeCorrect`, `WindowSafe`, `ImplementsTrial`, `SlotsAgree`,
  `PointsAtAnImage`. `WindowLaw` is not inductive: each writer writes a change of the
  copy it has read, so `Core` demands it of all copies as well; `Retries` ties the
  confirmation's attempts to the boot. One lemma per record operator shows that it keeps
  `Window`; one per process shows that its steps keep the invariant; `TrialStep` maps
  each step to a step of `UpdateTrial`. The last two need `OrderInv`: while calm at most
  one command is at work and what it has read is what the file holds, so that the boot
  loader names the selected slot up to the one step between its change and the record,
  and only the slot that is not selected is ever torn.
* `Cloud_proofs`, of `CommandPoller`: `OutcomesTrue`, `RunsOnlyOnce`, `InOrder`. The
  strengthening says of every outcome that a poller is about to post what
  `OutcomesAreTrue` says of the recorded ones, and that a command is refused as
  unsupported by every poller or by none. For the last two, `SInv` says that a batch is
  in the order of the queue and passes over nothing that is pending, that what two
  pollers hold is doubtful, that a held command with an outcome had a second holder, and
  that a command that ran and is pending is about to be posted; `Lost` covers every way
  to give up a batch. The API's list is therefore defined by what it holds and its
  order, not by a recursion.
  Of `TunnelMux`: `StreamsStayApart`. Every queue is in the order `Precedes`: a stream
  is opened first and answered or closed last, its data are in order, and no frame of a
  stream comes after one of its identifier's next owner. With this each queue is used as
  a set with a first and a last element. `Prudent` says that of the streams with one
  identifier all but the last are closed; `Entries` that no frame is to come of a stream
  older than the one in the map, so that a frame is handed to its own task or to none;
  `Whole` and `Going` that what is not delivered is still on its way, so that a stream
  whose entry a late `done` took ends without a gap.
* `BackupRestore_proofs`: `TypeCorrect`, `NothingIsLost`, `ReportsHold` of `Restore`.
  The strengthening says, for each phase and each component relative to the one at work,
  where the original is. `BackedUpTruly`, `Thaws` of `CloudBackup`: a guard is held
  exactly from prepare to complete (`Guarded`), backups that do not overlap keep the
  workload frozen for one another (`Alone`), what is staged is of the moment of the
  freeze (`Staged`), and what is about to be uploaded opens (`Told`).
* `DesktopVM_proofs`: `DriverTypes`, `NoneLost`, `WorkloadFollowsHost`,
  `RegistryIsTrue`. `NoStray` speaks of the moments between two operations. The
  strengthening follows the one process that a start or a stop has in hand (`Tracked`),
  and says that what the operator has read of the pid file can go but not change, since
  observers only remove it (`Remembered`). For the other two, `GuestInv` says which of
  guest and processor is ahead in the middle of a pause or a resume, `EnvelopeInv` that
  the configuration still is what the operation has read, and `RegistryInv` that a VM
  which is neither lost nor doubtful is the one at the sockets and is what `status_with`
  said.
* `Device_proofs`: `QuietWindow`, `QuietOrNot`: the quiet window against the way round
  the clock, for a day of any length and across midnight. `PausesAreMarked`,
  `OnlyTheActiveRuns`, `ResetsAreWhole`: two commands at work on one file have spoiled
  it (`Apart`), so that a command whose files are not spoiled is alone with them.
  `Marked`, `Pointed` and `Cleared` then say, step by step, what each command that the
  property is about knows and has done. `SettingsStay`: `Kept` says of every file that no
  two commands met at that it is whole and says what may be said of its settings, and, of
  the one command in it, whether the file still says what was allowed before or already
  what the command owes (`Written`, `Owed`), what its copy says and what the temporary
  file holds (`AtFile`). A failure leaves either (`Left`). One lemma per command says that the content it writes
  is owed. The catalogue needs more than types: a new port is one above the highest, so
  that it is among those promised only because no port is above the number of entries
  (`Whole`). They assume that a torn file is not what a whole one holds
  (`ContentIsWhole`), that there are finitely many models (`FewModels`), and a provider
  and a profile to begin with (`SomeToChoose`).
* `Wizard_proofs`: `KeyComesFirst`, `DoneIsTrue`, `RegistrationsAreWhole`,
  `NoLossIsSilent`. The four have one invariant, `WizardInv`. A stage of an apply is
  described once by what it brings onto the device (`StageStep`), any other step of a
  tab by what it leaves alone (`Other`, `Plain`, `NoPoll`); each part of the invariant
  is kept by the descriptions. `DoneInv` follows each stage's work to the end of the
  apply: an apply that is alone has the answers of the saved state, and what the stages
  behind it brought is on the device. `LossInv` follows each key: it is on the device,
  held in memory, in the hand of an apply that has not come to its stage, or told as
  lost.
* `Launcher_proofs`: `LauncherInvariant`, `UpToDateMeansInstalled`, `UpdatesAreWhole`,
  `RegistryIsKept`, `GuestsAreActive`, `PortsAreLive`. The parts of `LauncherInv` are
  the registry (a process that is to save has read what is there, or has overlapped),
  the guests and the ports (what the driver's job has done to its VM so far), and the
  disk: only the command line works on the record, the bare VM's image and the binary,
  and each of its steps says what the record, the staging path, the new binary and the
  boot path hold. A step that leaves a part alone is `Still` there, which one lemma per
  part keeps. The two theorems about the record need nothing about clashes: a download
  that another one wrote into fails its check. They assume that the uuid of an instance
  is none of the fixed names (`NamesAssumption`).
* `Services_proofs`, of `AuditSpool`: `NoneLost`. The strengthening says of every flush
  at work that what it has read holds every emitted event that is neither exposed nor
  uploaded, and that it truncates only after its batch was accepted.
  Of `RemoteAccess`: `AccessEnds`, `OnlyOwners`, `OneServes`. A session is bound to the
  last issue of a JWT for its account by way of the JWT it came from (`Genuine`,
  `Minted`); a cookie is tied to one session by its name (`OwnNames`), which rests on
  fresh names; `OneStarted` relates the two units' conditions to the setup file. It
  assumes that `Local` is no account and `None` no process.
  Of `Tracker`: `NewerOrders`, `PinsGoForward`, for any profiles and releases whose tags
  are numbers and text. That a merge goes forward is not inductive: the invariant says
  that the files of a clone are ahead of its commits and those of their base, that what
  is still to be pushed is newer than all of them, and that a branch is ahead of its
  base with its own bump in it. `MergeForward` turns it into the step of `PinTrack`,
  since what merges without a conflict finds in main, for every profile that the branch
  changes, the branch's base or the branch's own pin. The order is proved transitive
  from the character order of the suffixes.

Each invariant was an invariant of a TLC run before it was proved, and every safety
invariant of the runs is a theorem now. Only model-checked: everything about liveness
(fairness and ENABLED are out of the prover's reach; `PinTrackSpec`'s fairness with it).
No module that a proof reaches declares a RECURSIVE operator; nothing here needs
induction over data.

## What the code does that the documentation does not say

Met while modelling. Where a property would be violated, the model records the case
in a history variable and the property excepts it by name.

Update
* The automatic rollback does not touch the boot loader (`watchdog.rs:63`; docs/08:92-93).
* Rollback verifies the digest of the slot that is active, not of the one it selects
  (`rollback.rs:93`; its header, :6-7).
* An update overwrites the running slot after a second slot change without a reboot
  (`update.rs:455`; docs/08:34,58), and a second update during a trial destroys the
  slot it would fall back to (`update.rs:322`; docs/08:116).
* The EFI boot entry is never made permanent, so a confirmed image falls back at the
  second boot (`rollback.rs:267`; docs/08:77); with a persistent entry an image that
  does not boot never falls back (`rollback.rs:188`; docs/08:133).
* The confirmation records `pending_version` without looking at the slot that was
  booted (`watchdog.rs:123`), and its stale copy undoes a rollback requested meanwhile
  (`watchdog.rs:131`).

Fleet, spool, backup, restore
* A command that ran can be recorded as expired after a lost post (`commands.rs:333`;
  docs/17:125-126). `queue_remote_command`'s idempotency key contains the time, so a
  retry enqueues a second command.
* A flush drops the events appended during it (`audit.rs:130`; docs/16:3). A spool line
  glued by two emitters makes every later flush fail (`audit.rs:150`; docs/16:4,28).
* When the answer to snapshot.prepare is lost, or the backup is killed, the workload
  stays frozen (`backup.rs:399`; docs/06:50-51); without deputyd a bundle is labelled
  quiesced all the same (`backup.rs:281`); a dry run writes a success status
  (`backup.rs:125`).
* `restore --snapshot` returns without putting the data back when the fresh directory
  cannot be made (`restore.rs:185`; its header, :5-6), and a failed copy stays when
  nothing was there before (`restore.rs:339`; :317). A rename back that fails is
  reported for the components before, and swallowed for the one at work
  (`restore.rs:341`). The reconcile timer starts the unit in the middle of a restore
  (`reconcile.rs:89`).

Wizard and access
* The launch token is used up by the answer that carries the cookie, also when that is
  lost (`auth.rs:148`); it never expires (docs/09:110 says 60 minutes). The owner is
  read at the start of the process only (`main.rs:375`).
* `ConditionPathExists` also keeps a manual start of the first-boot wizard from
  happening, and the state file exists from the first form on, so that a first-boot
  wizard that dies during the setup is not started again. A factory reset leaves
  `account.json`.
* The API base is read once per registration step, so two of them can go to different
  backends (`routes.rs:1357`); a second apply does not stop an earlier profile's unit.

Device commands
* The cost marker is read by nothing, although `cost.rs:7-9` and
  `documentation/docs/operations/cost-guardrails.md:69` say that a check gates the
  unit: reconcile, `up` and a profile switch start a paused agent. Its error is
  swallowed by the check's exit code (`cost.rs:513`). A cost reset between marker and
  stop leaves a stopped unit without a marker.
* Two commands on one file share a temporary name: an update is lost, a rename fails, or
  a torn file comes into place. An unreadable `secrets.env` or `voice.toml` is taken as
  blank and overwritten (`model.rs:162`, `voice.rs:175`).
* A switch from an unreadable pointer does not stop the old unit; "already active" does
  not start a stopped one; `deputyctl down` is undone by the reconcile timer. A reset
  without a pointer keeps `authorized_keys` in memory only while it wipes
  (`factory_reset.rs:172`); a reset wipes the active profile's data only, and a
  reconcile during it starts the agent again.
* `network apply` under a live drop ruleset cannot resolve hosts and leaves them out;
  `mounts apply` reports success when the restart failed; a mount revoked in a page
  stays live.
* A client of the relay that says nothing blocks all others (`message_relay.rs:123`); a
  script that leaves its stdin unread or its stderr open is not ended after five
  seconds.

Release tracker
* `open-pr` builds the second branch on the first and never returns to main, so that its
  proposal bumps two profiles (`main.rs:284`; the workflow's own comment, :55, and
  docs/04:50). Run again on what it left, it finds the bump done and opens nothing; its
  plain push is refused when the workflow was there before, and the profiles after it
  are not looked at.
* "stable" is what upstream did not mark as a prerelease; a tag with `-beta` or `-rc` is
  taken too (`github.rs:89`; docs/04:58). Suffixes are compared as text: beta10 is older
  than beta2 (`version.rs:64`).
* One tag that does not parse ends the command for all profiles (`main.rs:134`), while a
  failed query is skipped. Release notes that are cut in the middle of a character panic
  after the push (`main.rs:319`). A closed proposal is opened again within half an hour.

Desktop and tunnel
* Starting a paused instance starts a second QEMU and loses the first
  (`drivers/linux.rs:157`; `driver.rs`: "a running VM is a no-op"). A resume whose
  balloon call failed is not completed by a second one, and the guest stays quiesced
  (`drivers/linux.rs:386`). An exited QEMU is reported as running while the console
  that started it lives (`drivers/linux.rs:261,327`).
* `install` downloads straight into the boot path; two updates share one staging path;
  an uninstall without `--data` leaves the record; an update on WSL or UTM is never
  imported. A Windows self-update that is killed between its two renames leaves no
  launcher (`selfupdate.rs:142`). A pause on WSL that fails at terminate leaves the
  instance without its port proxies (`windows.rs:533`); `utmctl stop --request` returns
  while the guest runs; a delete undoes what another process saved while it stopped the
  VM (`runtime.rs:68`).
* The late `done` of a stream removes the entry of its successor with the same
  identifier (`tunnel.rs:295`). A local response that breaks off is answered as
  complete (`tunnel.rs:705`).

## Not modelled

Downloads, signatures and checksums are taken to do what they say (a corrupt artefact
is an error). File systems keep what was renamed. Concurrent restores and two desktop
operators on one QEMU instance are left out. deputyd, the API, the cloud side of the
tunnel, QEMU, WSL, UTM, boot loaders, browsers and systemd are external and modelled
from how the code uses them. Pages, diagnostics, key material, the quick tunnel, push
subscriptions and the provider tests keep no state that two steps could disagree on.

## Plan

1. Two operators of one QEMU instance, two restores at once.
2. `CloudBackup` and `Restore` as one: what was backed up is what a restore brings.
