# esp-deck, specified in TLA+

esp-deck is a hand-held SSH terminal on an ESP32-S3: a shell of touch and keyboard
screens, one SSH session at a time, a flash file system with profiles and keys, and an
optional vault that encrypts the secrets under an access code. This directory holds TLA+
models of the parts whose order of events matters, the TLC runs that check them on small
instances, and the proofs about them.

Contents: [the system](#1-the-system) · [the modules](#2-the-modules) ·
[the runs](#3-the-runs) · [bounds](#4-bounds) · [fairness](#5-fairness) ·
[proofs](#6-proofs) · [disagreements](#7-where-the-code-and-its-documentation-disagree) ·
[not modelled](#8-what-is-not-modelled) · [plan](#9-plan)

To check a run: `tlc -workers 2 -config ssh_safety.cfg SshClient.tla`. To check the proofs:
`tlapm SshClientProofs.tla`, and the same for the other seven modules named `*Proofs`.

## 1. The system

| Component | State it keeps | Operations | What is hard | What makes it correct |
|---|---|---|---|---|
| **SSH client** `components/ssh` | libssh2 session, channel, socket, `s_connected`, `s_connect_phase`, `s_read_task(_done)`, `s_clean_eof`, `s_session_lock` | start / cancel a connect, take its result, send, disconnect, EOF query | three tasks on two cores, flags without locks, a static task that is reused, a force-delete after two seconds | the channel is never freed under a user; the mutex has one owner; a result means what it says; nothing hangs |
| **Vault** `storage/keystore.c` | header (master key wrapped by the code), wrapped keys, secrets bundle, master key and cache in RAM | create, unlock, lock, change code, remove, wrap, unwrap, get / set / prune secrets | several files change in one call, power may fail in between, every step may fail | no key and no password is lost; nothing stays in plaintext under an open store; a locked store leaves nothing in RAM |
| **Storage** `storage/storage.c` | `profiles.ini`, `wifi.ini`, `known_hosts.ini`, `config.ini`, key files | load, save, set / delete key, pin host, factory reset | the same secret may lie in the ini, in the bundle, or be a marker for the latter | a save keeps what it was not asked to change |
| **Shell** `components/cyberdeck_app` | `app`: current screen, profile list, connect snapshot, editor draft, pad, saver, menu | a `tick` and an `input` handler per screen, on one task (core 1) | stale copies of what is on flash, timers that race input, an unlock worker and an import server beside the shell, a link that drops under any screen | locking takes every copy back; the gate holds; edits persist what was meant |
| **Connect flow, host keys** `app_connect.c`, `app_hostkey.c` | the snapshot `app.conn`, the prompt, `known_hosts.ini` | arm, start, cancel, take the result, ask, pin, reconnect | the attempt runs on a worker while the user cancels, re-arms or types ahead; a pin may be pushed out of a full file | a session is held only with a key accepted for that host; a changed key is told; re-pinning takes intent |
| **WiFi manager** `wifi/wifi_manager.c` | table of networks and index, retry timer, state | connect, adopt, disconnect, event handlers, retry | event loop, timer task and shell share the table without a lock; events arrive late | some network is always tried again; a setup screen has the radio to itself |
| **Provisioning, importer** `wifi_provision.c`, `ssh_import.c` | a session; a server task | start, stop, save credentials, edit profiles and keys | take the radio from the manager and edit flash while the shell holds a list | the manager comes back; an import touches only its profile |
| **BLE keyboard, presence** `input/ble_keyboard.c`, `ble_presence.c`, `esp_hid/src/nimble_hidh.c` | registry, state, open task, devices; phone, scans | pair, forget, open, lose, look again | five tasks, callbacks that may never come, a link lost in the middle of an open, two users of one radio | a device is not freed under its opener; an open ends; a known keyboard is looked for for ever |
| **Terminal** `tsm`, `vterm` | parser, grid ring, scroll region, scrollback, cursor, dirty rows | feed, scroll the view, flush | fed by the read task and scrolled by the shell without a lock; rotation, buffers and fast paths in place of plain loops | shows what a plain terminal would show; nothing left out of a frame; a held view stays |
| **Input** `input_hal.c`, `touch_input.c` | queue of 16 | post, poll | dropped when full | order is kept |
| **Display, fonts, widgets, benches, simulator** | frame buffers, caches, filters | render | numerical | compared with golden data in `tests/` |

How they interact. The shell calls the SSH client and polls `s_connect_phase`,
`s_connected` and `s_clean_eof`; the read task calls into the terminal, and the terminal
calls back with replies that the read task sends. The shell calls storage, which calls
the vault for each secret; the vault calls storage for the key files. The unlock
worker runs the slow vault calls for the shell and hands back `s_result` and `s_done`.
The importer's server task calls storage on its own while the shell waits on its screen.
Idle time, the menu and the pad lock the vault; `app_creds_wipe` is the shell's half of
that lock. An unlock also makes WiFi passwords readable and kicks the manager. The setup
screens park the manager and hand the radio to provisioning or to the importer's access
point. Keyboard and presence share the Bluetooth radio, one scan at a time.

`PROJECT.json` lists each component with its status and every hazard with its line.

## 2. The modules

| Module | Models | Role |
|---|---|---|
| `SshSession` | the contract of `ssh_client.h` | abstract specification: one attempt at a time, a published result, a link only through a pinned key |
| `SshClient` | `ssh_client.c` with the calls `app_connect.c` and `app_menu.c` make | the three tasks; implements `SshSession` |
| `Connect` | `app_connect.c`, `app_hostkey.c`, the pins of `storage.c` | composed with `SshSession`, used as the client |
| `Vault` | `keystore.c`, the credential half of `storage.c` | each call cut at every file operation; failing writes and power cuts |
| `Deck` | `cyberdeck_app/*` | the screens, the lock and the copies of passwords in RAM |
| `Wifi` | `wifi_manager.c`, `wifi_provision.c`, the radio half of the import screen | three tasks over one table |
| `Keyboard` | `ble_keyboard.c`, `nimble_hidh.c`, the scans of `ble_presence.c` | five tasks over one radio |
| `Terminal` | `termstate.c` and `vterm.c` by rows | ring, region, scrollback, two screens, dirty rows, two tasks |
| `Screen`, `TerminalScreen` | the terminal's promise | abstract specification: a plain grid and a list of lines, implemented by `Terminal` and fed in step with it |
| `Parser`, `Emulator` | `vtparse.c`, and `termstate.c` by cells | buffering and fast paths beside a plain parser and a plain write |
| `*Proofs` (8) | | inductive invariants and theorems of `SshClient`, `Connect`, `Vault`, `Deck`, `Wifi`, `Keyboard`, `TerminalScreen`, `Emulator` |

### SshClient

`pc[t]` is where each of the three tasks is; the other variables are the statics of
`ssh_client.c` under their own names (`phase` for `s_connect_phase`, `readDone` for
`s_read_task_done`, ...) and the far end (`remote`, `queue`, `window`). A step runs from one
point where another task can interfere to the next: an access to a volatile flag, a take or
give of the mutex, a blocking call. `Close(t, label)` is `ssh_client_disconnect`; it is used
both by the shell and by the worker, which calls it first thing in `ssh_client_connect`.
`PollTimeout` is its two-second poll running out, enabled by `MayStall`; `ForceDelete` is
what follows, with the handle read a second time as in the code. `ReadReady` is the strict
priority of core 0: the worker (5) runs only while the read task (6) sleeps or waits, which
is why the read task may run before its own handle is stored (`Assign`). DNS, TCP and
libssh2 calls succeed or fail; terminal output is counted in chunks, and any of them may open
or close a synchronized update (`sync`, mode ?2026), while which `vterm_flush` shows nothing.

The refinement mapping to `SshSession`: `conn` is `phase`; `res` the result while published;
`link` is `none` without a channel, `live` while `connected`, else `dropped`; `peer` the
key of the server behind the channel.

### Connect

`active`, `pinned` and `dial` are the fields of `app.conn`; `prompt` is the host-key
screen with its selection and its armed source; `pins` is `known_hosts.ini`, oldest line
first, with the eviction of a full file. The client below is `SshSession`, whose steps this
module takes (`Client!...`), so that what is shown here rests on what `SshClient` is shown to
implement. The server may present another key at each handshake. `Watched` is one arbitrary
host, for which four history variables remember what the user accepted.

### Vault

`hdr`, `pem`, `kw`, `bundle`, `ini` are the files; `mk`, `cache`, `tmp` what is in RAM;
`pc`, `job`, `todo`, `cur` the call under way. Three history variables (`good`, `asked`,
`want`) record what was last stored. Master keys are numbered by the store that made them
(`hdr.mk = 0`: no store), so a wrapped file whose number is not the header's is one nobody
can open. A write is atomic (LittleFS's `rename`), and may fail when `MayFail`;
`storage_shred_file`, which overwrites in place, is two steps. `Crash` forgets RAM between
any two operations that `Cuts` names (`Steps`: the places of a call). `wifi.ini` is saved by the same two steps as `profiles.ini` and is not
repeated. Calls do not overlap: the shell waits for the unlock worker, and on the import
screen it touches no file.

`GateHolds` says that keys and profiles are changed only while the store is open or
absent, which is what the shell's screens see to when the gate works; `vault_secrets`
runs without it.

### Deck

One action per handler and branch that changes state. `store` is the keystore's
state; `ini`, `bundle`, `order` what is on flash; `ram`, `snap`, `draft`, `cred` the four
copies of passwords in RAM (`app.profiles`, `app.conn.active`, `app.pf.draft`, the buffer
of the unlock worker). A password is `plain` (read from plaintext or typed), `opened`
(came through the bundle), the marker `@bundle`, or blank. Storage calls are single steps
here, cut apart in `Vault`. The unlock worker is a task of its own (`task`); the import
server edits flash under the shell (`ImportEdit`); the link drops whenever it likes
(`LinkDrops`); power may be cycled at any time.

### Wifi

`state`, `parked`, `rows`, `count`, `idx`, `fails`, `timer` are the statics of
`wifi_manager.c`; `config`, `link`, `queue` the driver with the events it has posted and the
event loop not handled. `at[t]` says where shell, event loop and timer task are inside a
function; each function is cut where another task may come between (the test of
`s_intentional`, the increment of the index, set_config and connect). `rows` keeps what an
older, longer list left behind `count`, as the array in the code does. The list gets shorter
when the store is locked: `gated` are the networks whose rows then show the marker, which
`kick_wifi` leaves out (`Readable`) until the next unlock. The shell's part is the calls of
HOME, the lock, the unlock and the two setup screens.

### Keyboard

`st` is `s_state`, `reg` the registry, `dev[k]` how far the device of a keyboard has come,
`opener` the open task with its back-off, `sem` and `due` the one semaphore that the GATT
callbacks give; `hidq` and `hid` the HID event task, `scan`, `ended`, `dial`, `up` the
radio. A GATT answer may never come, the stack may reset, and the link may drop at any
point of an open. The keeper (`Keeper*`) is the five-second supervisor. `open_device_async` is
two steps, on the host task or the shell: `Ask` (the guards and the end of the scan; `claim` is
what a caller is about to open) and `OpenCommits`. Two callers may pass the guards before
either commits; the second start of the one static task is undefined in C, so the model goes on
as far as that state (`twice`) and stops in it. The device leaves the opener's hands in a step
(`GattRelease`) after the last look at its link (`GattDone`), with room for a disconnect in
between.

### Terminal, Parser

`Terminal` has one action per control function that moves rows, on `cells` with its `base`
(the ring), `sb` with `head` and `len` (the scrollback) and the view offset `off`, which both
tasks write: `hold` and `want` are the values computed and not yet stored, and `before` is
what `vterm_scroll` read first and compares its result with. A row is one
value. `missed` are rows that look different and that no flush will copy. `TerminalScreen`
carries out every function on `Screen` as well, with the same arguments (`ShowsPlain`), and
states that `Terminal` alone implements `Screen` (`ImplementsScreen`). The refinement mapping:
the grid is `cells` read from `base` on, the history is `sb` read from the oldest of its `len`
rows on, the screen beneath is the saved one read from its own base.

`Parser` is `vtparse_feed` as a function: `Byte(p, b)` gives the parser's next state, the
characters put into the print buffer, whether the buffer is flushed first, and the event.
`Emulator` has two actions, a byte and the end of a feed, and two terminals: `term`
gets buffered spans written by segments (`do_print_span`), `paper` one character at a time
from a parser without fast paths. `PrintCells`, `PrintSegments` and `Put` are loops over a
sequence, written as recursive functions of the step. A cell that the feed has not touched holds
`<<"before", r, c>>`, so what is compared is the effect of a feed on any screen.

## 3. The runs

| Run | Module | Distinct states | What it shows |
|---|---|---|---|
| `ssh_safety` | SshClient | 311,887 | all interleavings, read task may stall: owner of the mutex, frees of the channel, verdict at the end of a session, tail of the output, refinement of `SshSession` (safety) |
| `ssh_live` | SshClient | 180,098 | cancel, drop, send and disconnect come to an end; refinement with liveness |
| `vault_keys` | Vault | 8,084,839 | two keys, two materials, failing writes, power cuts in eleven of fourteen places: no key lost, misplaced or uncovered |
| `vault_secrets` | Vault | 459,553 | two profiles, two passwords, two codes, power cuts: no password lost, none left in plaintext under an open store |
| `deck` | Deck | 1,714,492 | the shell: lock, gate, list, connect secret, editor, reorder |
| `connect` | Connect | 1,271,770 | three hosts, two keys, a file of two pins: trust, change, re-pinning, cancel |
| `wifi` | Wifi | 898,951 | late events, refused configurations, lists a lock has shortened, setup screens: no attempt for a row never written, no stale CONNECTED, the working network reached |
| `keyboard` | Keyboard | 1,078,409 | lost callbacks, lost links, resets, presence: no free under the opener, no open that hangs, always listening again |
| `terminal` | TerminalScreen | 508,416 | rings and regions against the plain screen, flushes beside the shell's scrolls, the held view |
| `emulator` | Emulator | 114,264 | buffers, batches and fast paths against one byte at a time |
| `deck_doc_NoStoreNoWipe`, `connect_doc_ReconnectsToSession` | | | each violates one sentence of the documentation, see section 7 |

The properties, by what they would catch:

* `LockOwned`, `CleanupIsAlone`: a use after free or a lost mutex in an order of three
  tasks nobody wrote a test for.
* `SessionVerdict`, `TailShown`: a reconnect after a logout, a drop taken for a logout,
  output that was received and never shown. An update that the far end left open is shown
  nowhere, so `TailShown` excepts it (section 7).
* `SessionSafe`, `ImplementsSession`: a link out of an attempt that met the wrong key; a
  result published for an attempt that is not over, or that lies about the session.
* `CancelEndsQuietly`, `DropNoticed`, `SendReturns`, `DisconnectCompletes`: a task that hangs.
* `TrustedPeer`, `ChangeFlagged`, `RepinDeliberate`, `CancelLands`: a key accepted for one
  host used for another, a changed key introduced as a new one, a pin replaced by a slip, a
  session that a cancel did not stop.
* `KeyKept`, `NoKeyUncovered`, `HeaderLast`: a key lost by an order of file operations,
  plaintext shredded before its wrapped copy exists, a header deleted too early.
* `CredentialKept`, `DivertedUnlessForeign`, `StoreFits`: a marker without an entry, a
  password left in plaintext, a cache that outlives its key. A password may stay in
  plaintext when the bundle on flash belongs to a store that is gone: the code refuses to
  overwrite it, and `DivertedUnlessForeign` says so.
* `LockedIsCold`, `SecretResolved`: a copy the lock forgets, a connect with a stale
  snapshot or with the marker as password.
* `EditKeepsOthers`, `ListFresh`, `OrderKept`: a save that persists a blanked, stale or
  half-moved list.
* `OneWorker`, `GateHolds`: a second unlock worker, a way round the pad.
* `NeverBlank`, `ConnectedIsUp`, `ParkedDecidesNothing`, `KeepsTrying`, `GetsThere`: an index
  that outlives its list when a lock has shortened it, a state an old event left, an attempt that breaks a setup screen,
  a manager that stops, a network that is skipped for ever.
* `OpenerOwnsDevice`, `OpenEnds`, `KeepsLooking`: a device freed in the middle of an open, a
  guard held for ever, a state that only a reboot leaves. `KeepsLooking` excepts two states
  that need the user (`Away`), and all three say nothing after a second start of the static
  opener task (section 7).
* `ShowsPlain`, `FlushShows`, `ViewHeld`: scrambled rows after rotation, history that takes
  the wrong rows, a row missing from a frame, a view that slides. `FlushShows` is about each
  step; the one that does leave rows behind is excepted by name (`Overtaken`, section 7).
* `SameAsPlain`: text in the character set or at the place of a later sequence, a segment
  cut wrong, a sequence or character broken by the end of a read.

Each of these has a variant of one operator, kept in the module and marked "Variant", that
stands for a plausible bug and makes TLC report the property violated; `PROJECT.json` lists
the pairs. Deadlock is checked everywhere but in `ssh_safety`: with `MayStall`, a
force-delete of a handle that has just been cleared deletes the calling task, and everything
may then really stop (section 7).

## 4. Bounds

* SSH. `Keys` two fingerprints: the pinned one and another. `MaxQueue` two chunks in flight
  with `Budget` two: a wake can end on its budget, on EAGAIN or on EOF with data before it.
  `RespMax` one reply: full and not full. `ssh_live` has one chunk in flight.
* Vault. `Ids`, `Mats` two each: one key in hand and another in any other state, and new
  material over old. `ScanMax` stands for the scan's sixteen entries: at two it returns every
  id. `MaxStores` two: a store and its successor, which is what leaves a foreign file
  behind. `Names` two, `Pws` up to two, `Codes` two: a profile being edited and a bystander,
  an old password and a new one, an old code and a new one. `Edits` splits putting, renaming
  and dropping a profile over the two runs. `Cuts` is every place of a call in `vault_secrets`; in
  `vault_keys`, which has failing writes as well, all but three: the unlink after the zeroing, the
  removal of an out-of-date plaintext copy, and the wiping of the key directory, where a cut
  does lose a key or bring back an old one (section 7). `vault_secrets` has no failing writes,
  since `secrets_restore_plaintext` ignores one and deletes the bundle (hazard at
  `keystore.c:1021`). The proofs have every write failing and every place cut, and except only
  the steps themselves that lose something (section 6).
* Deck. One profile with a password and one with a key, `Faults` on. Every property about
  "other" profiles needs two; passwords are told apart by where they came from. `order` is
  one bit and the length of the list is not bounded.
* Connect. Three hosts over a file of two pins (`MaxPins`): one more than fits, so that a pin
  is pushed out. Two keys: accepted and another.
* Wifi. Two networks in a table of two (`Max`), one of which works: the other has to fail,
  lists of zero, one and two entries replace each other, longer ones by shorter ones too. The
  one that does not work is `Vaulted`: a lock hides it from a list of two, and an index may then
  point behind the count. `QueueMax` two: an event being late behind another.
* Keyboard. One keyboard, `MaxLinks` one, a HID queue of two: an OPEN and a CLOSE waiting.
  The tasks compete for that one device; a second keyboard would add a second registry
  entry and no task.
* Terminal. Three rows (a region can be the top, the bottom or all), a scrollback of two
  (fills and wraps), counts of one and three (less than and all of the screen), two kinds of
  line. Emulator. A screen of two by two, a print buffer of two (`Buffer`), two parameters
  (`Params`), feeds of three bytes: a feed can overflow the buffer and wrap, and every
  sequence is longer than a feed. `Bytes` has one of each kind the parser tells apart but
  SOS, PM and APC, and the finals of some function of every kind: moves, erasing, rows and
  cells, modes, a graphics set. SO, SI and G1 are defined and not exercised: they would more
  than double the states.

## 5. Fairness

* `SshClient` (`Fairness`). FreeRTOS runs a ready task, so a task that can go on does: weak
  fairness of the read task and of the shell's own steps. The worker yields to the read
  task, and the mutex passes between two tasks, so their turns recur without being
  continuously available; the read task sleeps in every wake, and no holder blocks, which
  is what strong fairness of the worker and of the two takes says. A closed channel window
  reopens or the connection dies, since TCP stops retransmitting and libssh2 sends
  keepalives. The user and the far end owe nothing. `ssh_live` sets `MayStall` to FALSE: with
  it TRUE, disconnect may delete its own caller and never return. `SshSession` asks only
  that a pending attempt finishes: each blocking call has a timeout.
* `Connect`: the worker runs (each blocking call has a timeout) and the shell's tick takes
  its result.
* `Wifi`: the event loop, the timer task and the shell's calls run, and an attempt ends. The
  user owes nothing and a link need not drop. `GetsThere` supposes in addition that the shell
  leaves the manager alone from some point on and that a retry does not fall due in the
  very moment another attempt ends, for ever: two drivers of one index could then take turns
  at the wrong rows. A single overlap, of any kind, is not excluded.
* `Keyboard`: the opener, the HID event task and the keepers run, the host task finishes the
  open it has begun, and a connect ends (thirty seconds). No scan need find anything, no GATT callback need come, a scan's end need not be
  reported and a terminated link need not go down. `KeepsLooking`
  excludes two states that last until the user acts: presence's unlimited scan outlives the phone
  that was forgotten (`ble_presence.c:279`) and holds the radio; or a keyboard died as it was
  announced (`Dead`, section 7).

`Vault`, `Deck`, `Terminal` and `Emulator` make no liveness claim: their calls are sequential
or bounded loops.

## 6. Proofs

**SshClientProofs**, for all sets of keys, budgets and buffer sizes. `IInv` is the inductive
invariant: `TypeOK`; `LockOwned`; `Roles` (a worker exists exactly while an attempt is
pending, and the shell is then on its CONNECTING screen); `Reader` (what `s_read_task_done`
and `s_read_task` say about the read task, and that the worker past its own disconnect finds
none); `Attempt` (what the worker holds at each stage, in particular that past the
handshake the host key is the pinned one). None of the safety properties is inductive
alone: that cleanup is alone needs `Reader` for the read task and `Roles` for the shell,
which cannot be in a send while a worker runs. Lemmas go task by task, one step per
action (`WorkerInv`, `ReadInv`, `ShellInv`, `RemoteIInv`), and the theorems follow:
`Invariant`, `TypeCorrect`, `LockIsOwned`, `CleanupAlone`, `ReaderIsAlone` (a new read task is
created only when the old one has ended), `MutexUnused`, and `SessionRefinement`: each action
is an action of `SshSession` or a stutter under the mapping above.

A second invariant, `Ending`, is about how a session ends, and rests on the first: `EofSeen` (a
clean end was seen by the reader, at an empty queue), `Cancelled` (whose socket a cancel has
shut), `Dropped` (a session that nobody is closing and that is down has a cause) and
`Presented` (received output is presented before the read task settles, unless a synchronized
update is open). It gives
`VerdictIsRight` and `TailIsShown`.

**ConnectProofs**, for all hosts and keys and every size of `known_hosts.ini`. The inductive
invariant has seven parts: `TypeOK`; `OneLine` (no host has two lines); `Flow` (which screen
goes with which stage of an attempt, and that a session behind HOME belongs to no running
attempt); `Unused` (fields that mean nothing between two uses are blank); `Prompt` (the
prompt of a changed key is one); `Pinned` (the pin in the snapshot is one the user accepted
for that host); `Accepted` (so is the pin in the file, and the key of the link).
`PeerIsTrusted` and `RepinIsDeliberate` follow. `ChangeIsFlagged` needs more, `Kept`: the
lines behind the watched host's, the ones that can push it out, are those of hosts accepted
since, so there are never more of them than `since` has elements; `since` is finite, and a
map from lines to hosts that is one to one does the counting.

**VaultProofs**, for all ids, names, passwords, codes and stores. `StoreInvariant`:
`Base == TypeOK /\ Progress /\ StoreFits` holds of every behaviour, with failing writes and
power cuts; `Progress` says how the pieces of the call under way fit together. From it
`TypeCorrect` and `ColdWhenLocked`. Under `ScanAll` (no more keys than one scan returns)
`AllListed` is inductive too and gives `RemovalComplete`.

The code can itself lose a key or a password, in places that section 7 and the hazards list. The
theorems about them do not assume that nothing fails: writes may, power may be cut in any place,
the gate may hold or not. They name the steps that do the damage and say that nothing else does.

* `KeyLoss`, four steps: a power cut while a plaintext copy that is zeroed or out of date lies
  beside the wrapped one; a removal that writes an older wrapped copy over a newer plaintext one;
  a key stored without a store beside a wrapped copy that an interrupted reset has left; a header
  that goes before the last wrapped key (more than sixteen). As long as none is taken, `KeysSafe` is
  inductive: every key is what was last stored, and the one in a call's hands has a current copy
  while its other copy changes. `KeysSurvive` and `NeverUncovered` follow.
* `PwLoss`, four steps: a list loaded while the bundle cannot be read, and saved; a bundle deleted
  while a password is in it only; a renamed profile whose list is not written after the bundle was
  pruned; a profile renamed while the store is locked. `PInv` says which bundle a marker can
  refer to (`NoStray`), that the cache is one of a bundle this store can open (`Own`), that the
  bundle goes before the header (`GoesLast`), what a save may ask for (`Asking`), and that each
  profile on flash and in the list being saved bears an admissible password (`BearsNow`,
  `BearsSoon`). A marker bears two while a bundle could not be written and the cache is ahead of it
  (`Stands`). `PasswordsSurvive`.
* `LeftPlain`, three steps that leave plaintext under an open store: a password the bundle does not
  take, a list that is not written, a removal that gives up after the passwords are back. With
  `Own` and `Swept` (no plaintext beside the store's own bundle outside a call that sweeps it up)
  it gives `PasswordsDiverted`.

Each of these theorems has the form `Spec /\ [][~Bad]_vars => []P`.

**DeckProofs**, for all sets of profiles, with and without faults. `Inv` has eight parts.
`TypeOK`. `Held`: the buffer of the unlock worker and the connect snapshot hold something only
while a connect is under way. `Busy`: from the start of a worker to the taking of its result
the pad is up and deriving, and no rain falls; this is what makes `OneWorker` true, and it
holds because idle pads, Escape and the rain all look at `deriving`. `GateFits`: the pad as a
gate only unlocks, and a worker that succeeded there leaves the store open, which is the
step `GateHolds` needs. `Rain`: rain covers HOME and the gate only. `Fresh`: the list in RAM
names what is on flash except under the import server. `Still`: a list out of order is being
dragged. `LockedIsCold` itself, which is inductive with the others. `EditKeeps` and
`SecretIsResolved` are about single steps: lemmas say what each action does to flash
(`FlashSteps`), that a list read while the store is open has every password (`LoadReads`),
and what saving a list does to it (`SaveList`).

**WifiProofs**, for any networks, table size and length of the event queue. `IInv` has eight
parts. `TypeOK`, with the indices inside the table. `Filled`: rows below the count are
written, and so are those up to the index, which may lie behind the count in what an older
list left. `Listed`: nobody is past the test of an empty list, and a manager that never had
one has no link and no event. `Parking` and `Session`: the setup screens are reached through
a parked manager, and no provisioning outcome is on its way before the phone's message.
`Announced`: an address in the queue is still good or its loss is queued behind it.
`ConnectedIsUp` and `NeverBlank` themselves. After a
lock the list gets shorter and an index may point behind the count, so that `NeverBlank` rests
on rows never being cleared.
`AttemptsAreForNetworks`, `ConnectedIsTrue`, and `ParkedIsQuiet` for the action property.

**KeyboardProofs**, for any keyboards, links and length of the HID queue. `IInv`: `OneOpener`
(the guard is up while an open task lives), `Owned` (a device is incomplete exactly
in the hands of its opener), `Dialling` (a link that comes up late finds no device or one
that waits for it), `ClosedOnce` and `Freeing` (a device has at most one CLOSE on its way, and
none while it is being freed). The last two are what makes a stale CLOSE harmless. Opens that
have passed the guards and are not committed are part of all this (`claim`); what follows a
second start of the static task is not, as nothing follows it in the model.
`OpenerKeepsItsDevice`.

**TerminalProofs**, for every size of screen and history, any lines and counts. `FlushMissesNothing` goes
step by step from `TypeOK`: every function marks each row that looks different after it, also those
that come to look different because the base turned; the read task's store of the offset repaints
a view that is scrolled back; and a scroll of the shell either repaints or leaves the offset it
began with, which only a store in between makes wrong (`Overtaken`). `ViewStays` follows step by step.
`Implements` is the refinement: the heart of it is that `n` pushes to the ring append the `n`
lines that leave and keep the newest `Max`, by induction on `n`, and that turning the base is
moving the rows, which is arithmetic modulo `Rows`. `RowsArePlain` is the same for the two in
step, and `InStepAlone` carries theorems of `Spec` over to `SpecBoth`.

**EmulatorProofs**, for every size of the screen, of the print buffer and of a read, any number of
parameters and any set of bytes. `EInv`: types (among them that a UTF-8 character is under way
only in GROUND), `plain = parser`, `WaitsInGround` (text waits in the buffer in GROUND only), and
`PrintCells(term, buf) = paper`. The second and fourth say of every state what `SameAsPlain`
says at the end of a feed. `WaitsInGround` is what makes the rest inductive: in the other
states events come without a flush, and find the buffer empty. Four chains of lemmas lead
there: the fast paths do what the table does (`FastIsPlain`, `ByteIsPlain`); every byte leaves
a well-typed parser, and either flushes or carries on in a state where nothing waits
(`PlainGood`); every control function keeps the terminal's type (`C0Term`, `EscTerm`,
`CsiTerm`); and segments write what single characters write (`PartialStep` for one cell,
`RunCells` for a run, `SegmentRun`, `SpanIsCells`), also when the buffer is flushed in between
(`CellsAppend`, `PutWrites`). `BufferingIsInvisible` and `NothingOvertakes` follow.

Induction over a natural goes without the library's rules, which take an operator: a set of
naturals that has zero and is closed under successor is `Nat`, because otherwise the rest
would have a least element (`LeastNat` from the well-foundedness of `<`, `Stepwise`). That a
recursive function has the values its equation says is proved the same way, from functions
on initial segments (`Recursion`, `CellsSteps`, `SpanSteps`, `PutSteps`).

Only model-checked: the liveness properties, that is `CancelEndsQuietly`, `DropNoticed`,
`SendReturns`, `DisconnectCompletes`, `CancelLands`, `KeepsTrying`, `GetsThere`, `OpenEnds`,
`KeepsLooking` and the liveness half of `ImplementsSession`, since fairness and ENABLED are
outside what the prover handles. Every safety property of the passing runs is a theorem.
`ImplementsScreen`, the other way round, is proved and in no run: `ShowsPlain` of `terminal` says
more on the small instance. With `Max` 1 in place of 2 TLC checks it in half a minute.

## 7. Where the code and its documentation disagree

Two are runs that TLC finds violated.

1. `deck_doc_NoStoreNoWipe`: `app_saver.c:236-238`, "No-op when locked or without a store". The
   wipe runs anyway; a deck without a vault loses its passwords in RAM, and a later delete
   or reorder makes that permanent.
2. `connect_doc_ReconnectsToSession`: `cyberdeck_app.h:66`, "reconnect a dropped session". From
   the menu of a session to one host, through a setup screen, one comes to HOME with the link
   still up; a connect to another host that is given up at the PIN pad leaves that other
   host as the active profile; the pairing screen leads back into the session, and when its
   link drops, `start_reconnect` (`app_connect.c:440`) dials the other host.
The following hold under the constants of the runs, or are stated in the modules and not
run. Each can be reproduced with the constants named.

* Vault, `KeyKept`, one id and "unlink" in `Cuts`: `keystore.h:118-119` promises that a removal
  cut short is safe, because the next unlock adopts the `.pem` files again. Adopting shreds
  in place (`storage.c:1023-1033`), and a cut between the zeroing and the unlink makes the
  following unlock adopt zeros over the good key.
* Vault, `PruneAfterRename`, the constants of `vault_secrets` with `Edits` {"put", "rename"} and
  `GateHolds` TRUE (all of `Steps` in `Cuts`): `keystore.h:162`, "prune "profile:" entries after a profile delete/rename".
  `storage_save_profiles` prunes the bundle (`storage.c:326`) before it writes the ini with the new
  name. A power cut in between leaves the profile under its old name with the marker and no
  entry, and the next save prunes the entry under the new name: its password is lost, and
  `CredentialKept` is violated one step later. A list that cannot be written does the same. No
  other edit does this (`PasswordsSurvive`).
* Vault, `KeyKept`, "setrm" or "wipe" in `Cuts`: `storage_set_key` wraps new material and then drops
  the plaintext copy of the old (`storage.c:990-995`); a cut in between, and the next unlock adopts
  the old one back. A reset cut between the header and a wrapped key leaves that key on a deck
  without a store; one stored under its id is hidden by it (`storage.c:1242`).
* Vault, `HeaderLast`, `ScanMax` 1 with two ids: `keystore.h:116-117` says every key is
  unwrapped before the header goes; the scan stops at sixteen.
* Vault, `KeyKept`, `GateHolds` FALSE: `storage.c:988-989` says a key stored while locked is
  migrated later; a removal before the next unlock overwrites it with the older one.
* SshClient, `ForceDeleteKillsReader`, `MayStall` TRUE and `CHECK_DEADLOCK FALSE`:
  `ssh_client.c:843-848` argues that a force-delete kills the read task. The handle is read
  again at 850 and may be NULL by then; `vTaskDelete(NULL)` deletes the caller, the shell.
* Deck, `DeckGated`: `docs/storage_auth.md:335-339`, "deck unlocked ⇔ store unlocked". In
  the rain's first second over HOME an input ends the rain without raising the pad.
* Deck, `FromHomeHasNoSession`: `app_internal.h:130`, `app_menu.c:905`. Setup screens and
  locks entered from the session's menu come back to HOME with the link live.
* SshClient, `TailShown` with `queue = 0 /\ ~unshown` on the right: `ssh_client.c:356-357`,
  "Present even if the session just dropped so the tail of the output reaches the display". The
  same comment names the exception: while the far end has a synchronized update open,
  `vterm_flush` does nothing (`vterm.c:215-216`), and a session that ends so never shows its last
  output. Nothing closes the update afterwards: the clear at the next connect
  (`ssh_client.c:740`) does not, and `vterm_reset` has no caller. The next session starts with a
  display that stands still until its host happens to end an update.
* Wifi, in `ProvDone`: `cyberdeck_app.c:207-209`, joining with the literal marker "would only
  thrash the AP". `kick_wifi` drops such rows; the end of a provisioning adopts them as they are
  stored (`app_wifiprov.c:140-143`), and `config = Marked` is reached.
* Wifi, `ConnectingEnds`, both networks good: W on HOME and the menu's Reconnect connect over
  a link that is already up (`app_home.c:410`, `app_menu.c:781`); nothing is started, no event
  comes, and the state says CONNECTING until the link drops, against `wifi_manager.h:32-33`.
* Keyboard, `PairingScans`: `app_pairing.c:138-139`, "bonds cleared - re-scanning". The CLOSE
  of the keyboard just forgotten (`ble_keyboard.c:690`) or the end of a back-off (341) then
  writes IDLE, and the screen waits without a scan.
* Keyboard, `twice`: `ble_keyboard.c:354-388`. Between the guards of `open_device_async` and the
  commit lie two allocations and the end of the scan; the host task (an advertisement, 507) and
  the shell (a keyboard picked, 406) both run it. Both may pass, and `xTaskCreateStatic` is then
  given the control block and the stack of a running task. "All fallible steps BEFORE committing
  state" (363) is what puts them there.
* Keyboard, `KeepsLooking` without `Dead` in `Away`: `nimble_hidh.c:1118-1122`, "Now the app only
  ever sees an OPEN for a device that is fully live". A disconnect between the last test of
  `conn_id` (1123) and the release of `s_opening_dev` (1128) takes the branch for a device being
  opened (815-820): no CLOSE, and OPEN follows for a dead device that is still in the list. The
  state is CONNECTED, against "the invariant 'not connected => a scan is running'"
  (`ble_keyboard.c:122-126`) nothing is looked for, and the address is refused as already
  connected.
* Terminal, `FlushShows` without `Overtaken`: `vterm.c:248-249`, "Only on an actual move". The
  read task, about to hold the view at 2 (`termstate.c:143`), is overtaken by the shell's return to
  0; the shell scrolls down again from 0, which computes 0; the read task's store of 2 and its
  flush show history; the shell stores 0, which is where it began, and repaints nothing. The
  history stays on the screen until something marks its rows.
* Terminal, `OffsetInHistory`: `termstate.c:124`, cleared rows are unreachable. With the shell
  between reading and writing `sb_off` while ED 3 or the second screen clears it
  (`ssh_client.c:735-739` calls the race benign), the view can show them.

Read in the code while modelling, and not in a model:

* `vtparse.c:490`: the 8-bit terminator 0x9C is looked for in every state, so a title that
  holds a character whose UTF-8 ends in 0x9C (Ü, М, ...) ends there and its rest is printed
  on the screen; the comment at 354 says that high bytes do not reach a title.
* `termstate.c:641` (NEL): a pending wrap is not cleared; text after NEL at the margin begins
  one line too low. The same for IND and RI, which keep the column, and for DECAWM reset.
* `termstate.c:281-303`: the second screen and DECSC share one saved cursor, so a DECSC inside
  a full-screen program changes where its end puts the cursor. Modes 47 and 1047 are
  commented "no cursor save" and save it.
* `vtparse.c:49-54` adds digits to an `int32_t` without a limit; overlong
  three-byte UTF-8 is accepted.
* `termstate.c:608-623`: a hard reset erases with the colours of before it; `vterm_reset` has
  no caller, so modes of one session are those of the next.
* `termstate.c:163`: DL on the first row of the whole screen feeds the scrollback.
* `wifi_provision.c:160-181` and `app_sshimport.c:127-134`: the error path of the start leaves
  the manager parked. `wifi_provision.c:94-95`: "saved" is shown although the save failed.
  `wifi_manager.c:126-131`: the displayed SSID is that of a configuration that was refused.
  `wifi_manager.c:85-104`: the NTP task reuses a static stack.
* `app_pairing.c`: "Disconnects an active connection first" is not what entering does.

## 8. What is not modelled

Of the implementation's lines the map covers about a sixth. Most of the rest is font
tables, the transports of `esp_hid` that are not built (Bluedroid, the device role), drawing,
a game, tables of menus, benches and the simulator: code without order of events, where
another definition per line would say nothing. What has state and is still left out:

* The vault's back-off (`keystore.c:446`), its file format and its cryptography: a code is
  right or wrong, a wrapped file opens under its master key and no other.
* The input queue (`input_hal.c:19`): it drops what does not fit, and carries presses only, so
  a dropped event is a lost key and nothing that stays down. Key repeat
  (`ble_keyboard.c:91`): a callback already running re-arms the timer after the release; it
  finds no key held, so at most one key more.
* In the terminal: colours and attributes, saved cursors, origin and line-feed mode, titles,
  replies; regions and the second screen are in `Terminal` and not in `Emulator`. That the two
  tasks may copy one row to the display at once, the older copy landing last.
* The display pipeline, touch driver, presence filter: numerical or drawing.
* NTP, the error path of provisioning, retry counts and the reconnect countdown, two profiles
  that share a host, `config.ini`, the parsers of ini files and of HTTP bodies.
* `components/esp_hid` but for the NimBLE host, `components/libssh2_esp` and libssh2, NimBLE, the
  WiFi driver: third-party; their behaviour is the set of return values and events the
  callers handle. The same holds for `sshd` (`RemoteSends`, ...) and for power (`Crash`),
  marked external in the map.
* The replace that falls back to remove-then-rename (`storage.c:129`, `keystore.c:173`): LittleFS's
  `rename` clobbers, so on the device it is reached only when that fails.

## 9. Plan

1. Proofs: the safety half of `CancelLands`, a step out of `cancelling` that lands on HOME without
   a link; the refinement of 3.
2. The second screen and the saved cursors in `Emulator`, colours as one value with them.
3. An abstract vault (a map from ids to keys and from names to passwords, with an open flag)
   that `Vault` implements between calls, and `Deck` composed with it.
4. The vault's back-off with reboot; the non-atomic replace as a variant of the write step.
5. Two profiles on one host in `Connect`, with the retry counters.
