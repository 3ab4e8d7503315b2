# A formal model of ssh-serial-bridge

The firmware of this repository turns an ESP32-S3 into a server that bridges
serial devices (two UARTs, up to four ports of a USB serial adapter) to SSH and
browser clients and switches power outputs. This directory models in TLA+ what its
tasks do to each other, to its memory and to its flash. TLC checks the modules on small instances; TLAPS proves the theorems
of the `*_proofs` modules for all values of the constants.

Paths in this file are relative to the repository's root; `ssh_bridge.c` is
`components/ssh_bridge/ssh_bridge.c`, Rust files are under `src/`.

## Inventory

| part | state | operations | what is hard |
|---|---|---|---|
| SSH listener (`ssh_bridge.c`, `ssh_listen_task`) | accept queue, `client_fd`, `s_session_count` | accept, check the limit, create a task, count it | check, creation and count are three steps; the new task runs first and may end uncounted |
| SSH session (`ssh_session_task`) | `device_name`, `device_write_cb`, `devslot`, its `WOLFSSH` | handshake, command, console loop, cleanup | every early exit must undo what was done, and no more |
| device table (`s_devices`, `ACTIVE_DEVICES` of `usb_host.rs`) | ring slots with owner, session counters | select, acquire with force-clear of stale sessions, release, broadcast, read | a slot is reached by sessions that no longer own it; counter and slots change in different critical sections |
| ring buffer (`ring_slot_t`) | `ring`, `head`, `tail` | write, read | wrap-around, full against empty |
| console data path | `pend_buf`, `input_received`, wolfSSH's buffers | worker, drain, discard, pending send | partial sends, window, answers that race with the discard |
| OTA update (`ota_worker_task`, "update") | two semaphores, chunk, `err`, boot partition | begin, write, end, abort | two tasks hand each other the turn; the stream can break anywhere; two updates at once; power loss |
| USB bulk-OUT (`usb_cdc_write_port`) | busy flag, transfer, device handle | claim, submit, complete, time out | two writers, unplugging during the wait, retry without bound |
| USB host (`usb_client_task`, `handle_new_device`, `bulk_in_cb`) | `DEV_GONE`, `NEW_DEV_ADDR`, handle, transfers, per-port flags | plug, set up, receive, recover, tear down | events while a device is set up or torn down |
| UART threads (`uart_rx_thread`) | none | read, forward | as bulk-IN |
| WebSocket terminal (`ws_*` of `usb_host.rs`, `ws_handler`) | rings, sender lists, transmit queues, fd map | register, remove, enqueue, drain and send | locks held over calls that wait for the httpd task |
| HTTP server and configuration (`httpserver.rs`, `main.rs`) | `CONFIG` in RAM, NVS namespaces | load, post, reset, reboot | NVS writes key by key, RAM before NVS |
| GPIO, PWM, button (`gpio_ctrl.rs`, `btn_ctrl.rs`) | outputs wanted and applied, press time | set, apply, toggle, turn the page, factory reset | several setters, thresholds on the way to a longer press |
| Wi-Fi (`wifi.rs`) | connection, WPS flags | connect, monitor, WPS | event handler against loop |
| display (`serial_display.rs`, `mini_display.rs`) | a terminal per page, page, system message, what was drawn last | feed, draw, show and clear a message, switch page | cursor arithmetic at the edges; pixels nobody redraws; two threads that show messages |
| boot log (`boot_log.rs`), syslog (`syslogger.rs`) | counter and entries; none | record; send | a power loss between two writes |

Interactions: the listener creates sessions; sessions call `ssh_select_device` and
`device_write_cb` (Rust) and share `s_devices` with the receive threads, which
call `ssh_bridge_cdc_rx` (C) after a look at `ACTIVE_DEVICES`, and feed the
display buffer and the WebSocket rings in the same pass. `reboot`, a complete
`update`, the HTTP pages and the button restart the whole device.

What makes each part correct: sessions are limited and refused only when there
is no room; everything a session took is given back exactly once however it
ends; a client sees a device's bytes in order, complete up to a full ring, none
from before its first key; every key reaches the device; an update that did not
arrive whole leaves the firmware alone; an unplugged device is noticed and a new
one taken up; no two threads wait for each other; stored configuration and
configuration in use agree; the display shows what there is.

## Modules

    SerialStream         what a console session promises about a device's bytes
      <- CdcRing         the ring buffer, byte by byte      (CdcRing_proofs)
      <- ConsoleBridge   the bridge loop of one session     (ConsoleBridge_proofs)
    AdmissionControl     what the server promises to connections
      <- SshBridge       listener, sessions, receive threads (SshBridge_proofs)
           DeviceTable   the shared table, EXTENDed by SshBridge
           MCSshBridge   instances and symmetry for TLC
    OtaUpdate            session, worker, flash and restarts (OtaUpdate_proofs)
           MCOtaUpdate   instances for TLC
    UsbHost              the USB client task, devices, transfers, writers (UsbHost_proofs)
           UsbDescriptors  what it reads out of a device, EXTENDed by UsbHost
           MCUsbHost     devices for TLC
    WsBridge             browsers, the httpd task, the thread ws_send (WsBridge_proofs)
           MCWsBridge    two ports for TLC
    Settings             NVS, the boot, saves, resets, reboots (Settings_proofs)
           MCSettings    keys, forms and routers for TLC
    Display              displays, button, outputs, messages of the boot (Display_proofs)
           AnsiTerminal  the terminal emulator, EXTENDed by Display
           MCDisplay     chunks for TLC

An arrow `A <- B` reads "B implements A": B instantiates A under a refinement
mapping.

**DeviceTable** has the state `slots` (`s_devices`) and `active`
(`ACTIVE_DEVICES`), and one operator for every function that changes them. What
the C code does under `s_devtable_mutex` is atomic. A ring is its fill and its
owner; `fill` survives the freeing of the ring because the code leaves `head` and
`tail` alone, and `ReadsNull` is the read that follows. Device names that do not
exist never get past `ssh_select_device`, so there are none.

**SshBridge** has a location `pc[s]` per session. A step ends at a mutex, an
atomic counter or a blocking call, where another task can come in between:

| locations | code |
|---|---|
| `none` -> `backlog` -> `taken` | accept queue; `client_fd` of the listener |
| `new`, `handshake`, `dispatch` | `wolfSSH_new`, `wolfSSH_accept`, the command |
| `exec` | a command that is not `console`: it ends in the cleanup or with a restart |
| `select`, `acquire`, `undo` | `ssh_select_device`, `devtable_acquire`, the early release |
| `drain`, `read`, `worker` | `ring_read` before and in its critical section; `select` and `wolfSSH_worker` |
| `write` | `device_write_cb` with what the client typed |
| `release`, `deselect`, `free`, `close` | the cleanup, one step per critical section |

The clients are `open`: a client may close at any step, and the probe of
`devtable_acquire` then may or may not see it (what the client sent before hides
the end of the stream), hence `LooksDead(d)`. The loop notices an ended connection when it has
read what the client sent before (`unread`, `MayRead`); `write` lasts as long as the device
likes. `ring_read` looks at
the ring before it takes the mutex, so `drain` and `read` are two steps. The flush
before the loop is the same two steps with a `worker` that changes nothing between
them. A restart (`reboot`, a complete `update`, or the panic after a NULL read)
takes everything to `Init` at once.

**CdcRing** is one ring with the loops of `ring_write_locked` and `ring_read`
turned into steps. Its bytes are numbered in the order in which the device sends
them.

**ConsoleBridge** is the data of one console session. The ring is the queue CdcRing
implements; it belongs to this session alone (SshBridge shows when that is so: see
Findings). `limit` is what the client's window lets through as far as the server
knows, which `wolfSSH_worker` learns from the client; `ChannelIdSend` may take any
part of what it is given within it. That `wolfSSH_ChannelIdSend` answers a full
window with WS_WANT_WRITE or 0 is what the code in `ssh_bridge.c` relies on; another
negative number is `loop_break`.

**OtaUpdate** has the two tasks of the "update" command: `session[u]` with a location
per wait or call, `worker[u]` with one per semaphore, `memcpy` and `esp_ota_*` call, and
`ctx[u]` for `ota_ctx`, where `ready` and `done` say whether the binary semaphore is
given. `bounce` is the one static buffer of all workers.

| session | worker |
|---|---|
| `begin`: waits for `done` | `start`: `esp_ota_begin` |
| `poll`, `read`: `select`, `wolfSSH_worker`, `ChannelIdRead` | `wait`: `xSemaphoreTake(ready)` |
| `hand`: waits for `done` | `copy`, `write` |
| `eof`, `finish`: signals the end, waits | `end`, `set_boot` |
| `closing`: restart; `error`: cleanup | `suspended`, until it is deleted |

An image is `Chunks` named chunks. Flash is a chunk per cell, so that what two
interleaved updates leave can be told from a whole image, and `esp_ota_end` and
`esp_ota_set_boot_partition` accept exactly a whole one. `Sound` are the images whose
`ssh_bridge_init` returns 0. `Reset` may happen at any step; the bootloader (`Chosen`)
gives a new image one start and goes back to the other partition when it was not
confirmed (`sdkconfig.defaults`: rollback enabled). `mark_app_valid` is the
confirmation in `usb_host.rs`. The SSH session around it is SshBridge's `exec`.

**UsbDescriptors** has the pure part of `handle_new_device`: the walk over a
configuration descriptor (`find_all_bulk_eps`: `Walked`, once per item), the choice of
endpoint pairs for a composite device, and the requests with which each serial chip is set
up, by name and in order. `Paired` says, from the items alone, what the ports
must get: the pair of one interface each, no two the same, and the serial interface of a gadget
that has it last. `SkipsRndis` is what the code's comment says beyond that, which does not hold
(see Findings).

**UsbHost** is one task with callbacks, and the tasks that write. `client.at` is where
`usb_client_task` is; its callbacks run only where it pumps
`usb_host_client_handle_events` (`Pumping`):

| `client.at` | code |
|---|---|
| `scan`, `idle` | the list of devices at start, the loop of `usb_client_task` |
| `claim`, `alloc`, `publish` | the loop over ports of `handle_new_device`, up to the handle's publication |
| `ctrl`, `wait` | `ctrl_transfer_sync`, for the rest of `client.plan`; then `client.then` |
| `serve`, `reinit`, `recover`, `recover_out`, `resubmit` | the serving loop and its recovery of endpoints |
| `invalidate`, `free` | the tear-down |

The host library is external: unplugging fails what is in flight, and the completions of a
gone device are assumed to be delivered before its DEV_GONE, as `bulk_in_cb` and the
tear-down expect. A device is its number; a handle or a transfer is the number of the
device it belongs to, so that one kept too long can be told from a good one. `writer[w]` is
`usb_cdc_write_port` with its locals; a write is any number of chunks. A submit with a
freed transfer is undefined behaviour; `submit_freed` takes it for a refusal, and
`hist.stale` says that it came to that. Every submit may be refused. Where the code looks at the
result the port is marked and taken up again; where it does not (`publish`, `bulk_in_cb`) the
port goes to `hist.dropped`. `claimed` are the ports whose interfaces `handle_new_device` has
claimed; what `free` and `give_up` leave of them claimed makes the library refuse to close the
device, which nobody looks at (`bus.held`). As the library keeps a device that is not closed, it
may not enumerate the next one (`bus.known`, `Enumerate`).

**WsBridge** numbers the bytes of a port and the keys typed, so that order and loss can be
told. The httpd task executes one frame at a time (`httpd`), and between two the send that
`ws_send` queued to it (`work`) and waits for. `Held(p)` is the lock of a sender list, which
`ws_send` keeps while it waits; `draining` and `tx_draining` are the locks of a ring and a
queue, under which `try_lock` of the others fails and drops. A sender that failed is pruned
from its list but not from the map, as in the code.

**Settings** is a boot (`main.at`), from `record_boot` to the logger, with WPS in the middle,
then requests of authenticated browsers, and what ends a boot. NVS is a function of the
keys stored; every write may fail and power may go after each. `hist.same` says that no
write has failed unnoticed since the last agreement. The configuration is six keys: the two
that forms and routers change in the run, which is what `nvs_write_all` iterates over, and
four it would write with the value they have.

**AnsiTerminal** is the emulator as operators on a record, a byte at a time, with the
arithmetic of its numbers (16-bit parameters and colours). **Display** composes a terminal
per page with the thread that draws (`d`, `screen`), the button's thread (`btn`), the boot
in `main` and WPS, which all write to the two messages. A press is counted in whole seconds;
`edge` is a poll in the first 50 ms of one. `screen` is what was last drawn where, so that a
cell that is not redrawn keeps its old content.

Modelled as external, from their use: `esp_ota_*` and the bootloader, `accept` and its queue, the client's TCP
connection, `wolfSSH_ChannelIdSend`, the client's typing and reading, the panic
handler, the USB host library and the devices, httpd's work queue, `esp_restart`, the
watchdog, the hand on the button. A name that ends in a mutant's description (`listen_check_off_by_one`)
is a wrong form of the definition that follows it, kept to show that the property
named in PROJECT.json would notice.

## Runs

| run | instance | checks | shows |
|---|---|---|---|
| console | 3 sessions, limit 2, 3 stacks, 1 device of 2 slots | SessionLimit, RejectOnlyWhenFull, ActiveExact, OwnerHoldsSlot, RingFed, AdmissionSpec | neither the late count nor an early end lets a third session in or costs a place; nothing a session took is lost, given back twice or given back to the wrong slot; the server implements AdmissionControl |
| liveness | 2 sessions, limit 2, 2 stacks, 1 device of 1 slot | ClosedSessionEnds, AdmissionFairSpec | a session ends when its connection has ended and its writes return; AdmissionControl is implemented with its fairness: whoever waits is admitted or turned away |
| ring | 4 cells, reads of 2, 9 bytes | StreamFairSpec | the ring is a queue of 3 bytes, read in the end |
| stream | ring 2, buffer 2, window 2, 5 bytes, 3 keys | NothingStale, KeysInOrder, StreamSpec, OutputSent, KeysWritten | order and completeness under any partial send; nothing from before the first key; no key lost, repeated or overtaken; no byte stranded by a full window, no key in wolfSSH's buffer |
| ota_two | 2 updates, one of an image that does not start, 1 chunk | TakeTurns, Recoverable, ReportsTruth, OtaInv, RunningKept | the hand-over, the partitions and what the client is told, under any interleaving and restart |
| ota_alone | 1 update of an image that does not start, 3 chunks | InOrder, UpdateEnds, ServesAfterReset | what is in flash is what was sent; no deadlock of session and worker; a device that is reset comes back |
| usb_life | an FTDI chip with 2 ports, then a Linux gadget of 5 interfaces; no writer | Polled, ReadyIsTrue, PortsPaired, ClosedClean, Served | no served port goes silent but by a refused submit nobody looked at, no answer is taken for another's, no port has endpoints of two interfaces, a device whose ports were all set up is closed, the device that stays is served |
| usb_out | one CP210x adapter, 1 port, 2 writers | OneOwner, WriteEnds | one writer fills and submits at a time, the busy flag tells the truth, writes end once no device is published |
| ws | 2 ports, 2 connections, rings of 1 byte, 3 bytes of one port, 1 key | OneHome, BytesInOrder, KeysOnce, HeardByAll | lists and map agree between frames; order and completeness up to what rings drop; every registered browser is served |
| settings | 3 boots, 1 router, 1 browser, 2 saved keys, 2 log entries, 2 requests | SettingsSurvive, CredsOfRouter, LogNewestFirst, RebootHappens | memory and NVS agree unless a write failed; no credentials but the router's are stored; the log is in order; reboots happen |
| display | 2 pages, 2 by 2 cells, 16 chunks, a reset after 3 s, 2 inputs | CursorInside, MessageGone, ShownAtLast | no two chunks, whole sequences or cut ones, take the cursor out; no message stays; what there is comes to be shown |
| ring_private | 2 sessions, 1 device of 2 slots | RingPrivate | the finding |

Why the bounds are enough. Three sessions over a limit of two give one to turn away
while another is created or ends, and on a device of two slots a full device, stale
owners, and somebody who takes the slot of one while another keeps its own; three stacks run
out with the fourth session. More devices and slots are covered by the proofs, which fix no
bound. In the liveness run who is turned away mostly is so because stacks have run out; the
refusal at the limit is the console run's. Rings hold one byte in
SshBridge because only "empty or not" is asked there; `ReadMax` 1 and writes of up
to two bytes fill and overrun it. In CdcRing nine bytes through four cells wrap
around twice. In ConsoleBridge ring, buffer and window are each overrun. `MaxHeard`
(device bytes) and `MaxTyped` (keys) bound what comes from outside; `Stacks` is
the size of a real pool. OtaUpdate needs no bound: an image is finite, and updates,
restarts and confirmations repeat. Two updates with an image of one chunk show every
interleaving of erase, write, verification, selection and restart, and a good and a
bad image every result of the bootloader; how chunks follow each other is the
question of ota_alone. In UsbHost the bound is the list `Device`: a first device with two
ports shows ports that fail one by one, a second one a replacement during every step of the
first's life and tear-down, and a gadget the CDC set-up with its repeated requests and a
descriptor with pairs, half pairs and two data interfaces. Writers need a device that goes,
not one that comes: usb_out has one adapter. In WsBridge a ring of one byte drops with the
second, and three bytes leave a gap: the first is heard, the second dropped, the third heard.
Two ports are enough to change between, two descriptors to prune one of two; a key
is queued while its terminal changes the port. In Settings three boots (`MaxBoots`)
see a WPS boot, one that loads what it stored, and one after a reset; two entries in the log
overflow with the third; `MaxRequests` 2 gives a save after a failed save, a reset or a reboot.
In Display `MaxInputs` counts chunks, presses, requests and page changes: two meet each
other, and each meets WPS and the boot at every step; a grid of 2 by 2 has every edge, wraps
after two characters and scrolls after two lines, and a chunk holds whole sequences, so that
two of them reach what a third byte or parameter could. Deeper feeds than two chunks are not
explored (CursorInside is proved for all); ShownAtLast depends only on cells being equal or
not. The console run uses symmetry of sessions and devices; the runs of temporal properties
do not.

`CHECK_DEADLOCK FALSE` is set where what is modelled may really stop: a console session
ends (stream); the last device is pulled and nobody writes (usb_life); httpd and `ws_send`
wait for each other (ws: `Stuck`, see Findings); the last boot is over (settings). Whether
something is left undone then is what the liveness properties ask.

The type invariants `TypeOK` say what the variables range over and are in no run's list,
which is kept for properties a reviewer could doubt. Each is proved: that of CdcRing by
itself, the others as a part of their module's inductive invariant (`BridgeInv`,
`StreamInv`, `OtaInv`, `UsbInv`, `WsInv`, `SettingsInv`, `DisplayInv`), which TLC
found no exception to on the instance of the run before it was proved.

Fairness. `SshBridge!Fairness`: FreeRTOS preempts tasks of one priority in turn, so
every task keeps running (WF for the listener and for what a session does without
waiting); lwIP's accept queue is first in, first out (SF for each waiting
connection); a handshake or a command is only assumed to end once the connection has ended,
and the bridge loop only to read what a connection brings, its end after the rest. A connection
ends when the server receives a FIN or a reset; of a client that vanishes without one nothing
is assumed, and nothing is promised. `write` has no fairness: the device may never take the
key, and `ClosedSessionEnds` has it as a premise that it does. Nothing is assumed of the
clients or the devices. `ConsoleBridge!
Fairness`: the loop turns, the client reads what its channel takes, `wolfSSH_worker`
finds what `select` reports, and `ChannelIdSend` called again and again with room
in the window takes something. `CdcRing!FairSpec`: a task that waits for the mutex
gets it. `OtaUpdate!FairSpec`: both tasks run; a client that is gone is noticed by
`wolfSSH_worker` or `select` in the end (SF: the loop is between two chunks again and
again); the bridge of a sound image starts, unless resets never stop (SF). Nothing resets an
image whose bridge does not start (`usb_host.rs:2199-2209` logs it and goes on), so that this is
the premise of `ServesAfterReset` and not part of `FairSpec`: README's rollback "on the next
reset" needs that reset. That the session goes on is assumed nowhere: the properties say "or the
session ended". `UsbHost!FairSpec`: the client task and the writers run; every turn of its
loops handles pending events and completions, and that of the serving loop looks at DEV_GONE
(SF: it is elsewhere in between). The library enumerates a device when it has no other to keep.
No device need answer: a request times out; none need be submitted to.
`WsBridge!FairSpec`: httpd and `ws_send` run, and httpd takes queued work between two frames
however many there are (SF). `Settings!FairSpec`: the reboot thread is scheduled, and an
armed task watchdog fires. `Display!FairSpec`: the three threads poll for ever. Nobody need
let the button go: a button held for good resets the device after every boot.

## Findings

**A ring can be somebody else's** (`RingPrivate`, run ring_private). `devtable_acquire`
force-clears the ring of a session whose client closed and hands out the slot while that
session's task still runs. Until it notices, it reads the new owner's bytes; in its
cleanup it frees the new owner's ring (`devtable_release` asks for no owner), and
that session, connected and healthy, is never forwarded another byte. The comment at
`ssh_bridge.c:101` promises each session a ring of its own. `OwnerHoldsSlot` is what remains
true.

Other disagreements met on the way. Those with a name are stated in their module and are
refuted by TLC when the .cfg of an instance names it; no run repeats it.

- `NoNullRead` (SshBridge): `ring_read` tests `slot->ring` before it takes the mutex; the
  force-clear of another session can free the ring in between, and leaves `head` and `tail`
  unequal, so that it copies through NULL.
- `StacksReturned` (SshBridge): session tasks are created with `xTaskCreateWithCaps` and end
  with `vTaskDelete(NULL)`, against the file's own comment at line 433.
- `ReplyKept` (ConsoleBridge): the discard comes after `device_write_cb`, so what the device
  answers to the first key meanwhile goes with the stale bytes.
- `BootsInto` (OtaUpdate): two sessions may run `update` at once. Both workers write the
  partition that does not run, and the second's `esp_ota_begin` may erase it after the first
  has selected it and told its client "OK": the device then restarts into the old image. Their
  chunks mix as well, which `InOrder` (checked for one update) does not promise and the
  verification catches. `Recoverable` and `RunningKept` hold with any number of updates.
- The loop of "update" is left in the same way for an error of the connection and for the
  client's EOF, and the worker then finalises what has arrived (`signal_eof`), although the
  comment at line 807 says that on any error the write is aborted. Only an image that arrived
  whole is accepted.
- `handle_new_device` clears DEV_GONE after it published the handle (`usb_host.rs:1905`): an
  unplugging during the set-up is forgotten, and the gone device is served for ever, as no
  other is open whose unplugging would be told. `Served` holds "unless forgotten" (`Forgotten`).
- `WriteBounded` (UsbHost, with the instance of usb_out): the comments at `usb_host.rs:770` and
  `798` say that a write waits with a bounded timeout and does not hang its task. Bounded is the
  wait for the busy flag; a submit that fails is retried every millisecond (`807-813`) as long as
  the handle is there. After a forgotten unplugging that is for ever: the session or `ws_send`
  never comes back. `WriteEnds` is what remains true.
- A bulk-IN submit whose result nobody looks at (`usb_host.rs:957`, `993`, `1909-1914`; at the last
  the warning is followed by a reset of the flag, `1919-1921`) leaves a port of an attached device
  idle and unmarked, although the comment at `1681-1683` says that the main loop retries the
  submission. `Polled` says that these ports, and no others, go silent.
- The tear-down releases the interfaces `0..active_ports` (`usb_host.rs:2008-2022`), which are not
  all that were claimed when a port was skipped; `give_up` (`1894-1898`) releases none; and the
  error of `usb_host_device_close` is ignored in both. If the library refuses to close the device
  then, and keeps it, the next one may never be announced (`Leaked`). `ClosedClean` is the case
  in which all ports were set up.
- `RndisSkipped` (UsbHost, with `Device <- RndisLast` of MCUsbHost): the comment at
  `usb_host.rs:1761-1763` says that RNDIS data interfaces are skipped. The code takes the last CDC
  data interface whatever control interface precedes it, so that of a gadget with RNDIS last
  the network is served as the serial port. `PortsPaired` asks for the serial one only where
  it is the last.
- A client that vanishes without FIN or reset keeps its session: there is no keepalive and no
  receive timeout (`ssh_bridge.c:469`, `596-661`). So does one whose key is being written to a
  device that never takes it (previous findings). `ClosedSessionEnds` promises the rest.
- Nothing resets an image whose `ssh_bridge_init` fails: it runs on, unconfirmed and without
  a server, until somebody resets the device (`usb_host.rs:2199-2209`).
- A claim of a USB port may outlive its device (`usb_host.rs:786`): a writer between claim
  and submit goes on with a freed transfer, or gives up a busy flag that is the next
  device's. `OneOwner` holds until then.
- Ports are numbered by one counter and served by another (`usb_host.rs:1906`), so that a port
  whose transfer cannot be allocated also costs the last one.
- `ws_send` may wait for httpd with a sender list locked that httpd waits for
  (`WsBridge!Stuck`): neither goes on. `HeardByAll` holds unless that happens.
- `/api/reset` answers 200 although the erasing failed, and does not apply the defaults to
  what is live; `/api/reboot` does nothing when its answer cannot be sent, with the session
  already dropped (`httpserver.rs:1244`).
- `init_logger` uses the host name read at boot, five seconds after saves became possible
  (`main.rs:309`).
- WPS leaves its message on the display through an early return when enabling is refused or
  connecting fails, and when connecting takes 15 s (`main.left` in Display). In the last case the
  credentials are stored all the same: `wifi.rs:418-421` returns `Ok`, and `main.rs:214` stores
  them untried.
- Past the reset the time left of a press wraps around to 1271310319 in a release build
  (`btn_ctrl.rs:56`; a build with overflow checks panics) before "ERASING NVS" replaces it. A
  press that ends in a reset has toggled DC OUT on its way.
- Any letter ends an OSC sequence, though the comment says BEL or ST
  (`serial_display.rs:303`): the rest of a window title is printed.

## Proofs

The theorems hold for every value of the constants that the named assumptions admit. Each
module has one inductive invariant, with a lemma per action or per group of actions; the
properties follow from it. All safety properties that the passing runs check are proved.

**SshBridge_proofs**: `Spec => []BridgeInv` for any finite set of sessions, any set
of devices and any limits. `SessionLimit` alone does not survive `listen_create`:
that needs `count` to be the number of live sessions (less the one about to be counted)
and room after the check (`ListenerInv`). `ActiveExact` needs to know at which locations
a session holds a device (`SessionInv`), so that `undo` and `deselect` give back what
was taken. `OwnerHoldsSlot` needs the same for `devslot`, and that is where the stale
sessions show: a session may hold a slot it does not own, never the other way round.
`SessionLimit`, `ActiveExact`, `OwnerHoldsSlot` and `RingFed` follow; `RejectOnlyWhenFull`
from the invariant at the step; and every step is a step or a stutter of
AdmissionControl (`ImplementsAdmission`).

**CdcRing_proofs**: `TypeOK`, and that the ring implements `SerialStream` for every
`RingSize`, `MaxLen` and `MaxHeard`: `Content` of the ring grows by the byte written,
loses the byte read, and a byte is dropped only with `RingSize - 1` in it. The
arithmetic of indices modulo `RingSize` is in lemmas of its own.

**ConsoleBridge_proofs**: the same of the bridge loop (`ImplementsStream`), for any sizes of
ring, buffer and window. The mapping takes `pend_buf` and ring together for what waits, so
that the proof is about concatenations. `StreamInv` says why a stream is fresh when it opens:
it opens only after a key (`KeysNeedTyping`), with nothing pending or sent (`ClosedIsEmpty`),
and what is sent or waits in an open one came after that key (`OpenIsFresh`). `NothingStale`
needs all of it. `KeysInOrder` is inductive with `keys` empty outside a write.

**OtaUpdate_proofs**: `TakeTurns`, `Recoverable`, `ReportsTruth` and `RunningKept` for
any set of updates, any images and any number of chunks, from `OtaInv`. Its parts:
`Pair(u)` says for each location of a session what its worker and the semaphores may
be, and that both count the same chunks, which is what keeps a worker inside the
image it was sent; `SystemInv` says that a worker past `esp_ota_begin` writes the
partition that does not run and that the running image is confirmed, which is what
`Recoverable` needs, because a worker that erases would otherwise destroy the image a
rollback goes back to. A step of an update leaves `Pair` of the others alone
(`OthersKept`). `AloneInOrder` proves `InOrder` under the hypothesis that no two updates
exist, which is what it is about: the chunks of two mix (see Findings). `AloneInv` adds to
`OtaInv` where each chunk is: in the session's buffer, in `s_ota_bounce`, in the flash.

**UsbHost_proofs**: `UsbInv` for any list of devices, any number of ports and any writers.
`StageInv` ties the locals of `handle_new_device` to its location, `BusInv` and `GoneInv` say
which device an event or a flag can still be about, `OwnerInv` gives the busy flag to the
transfer or to exactly one writer, `InInv` says of a bulk-IN transfer at
rest that it is marked, or being recovered, or was refused where nobody looks: exactly one of the
three (`Watched`), so that an error or a recovery loses none. `ReadyInv` says to which request an
answer belongs. `OneOwner`, `Polled` and `ReadyIsTrue` follow. `ClosedClean` needs the claims to be
among the ports passed, which are the active ones when none was skipped, and a device in
use not to be among those that could not be closed (`ClaimedInv`). `PortsPaired` is a theorem
about data: for a descriptor of any items, `FindAll` shows that the walk lists exactly the interfaces with bulk endpoints both ways,
in their order (`Walking` is the invariant of its loop), and `EpsPaired` that the selection and
the truncation after it leave each port the pair of an interface of its own, the serial one of a
gadget that has it last, and at most `MAX_USB_PORTS`.

**WsBridge_proofs**: `WsInv` for any ports, connections and size of ring. `HomeInv` relates
sender lists, map and connections, frame by frame of httpd; `SendInv` the locals of `ws_send` to
the lists it iterates over while it waits; `KeysInv` orders the keys on their three ways.
`RingInv` and `GotInv` account for every byte heard: it is in the ring, with `ws_send`, at the
terminal, or among the lost. `BytesInOrder` alone is not inductive: it speaks of what a
terminal has, and not of what is on its way, whose order and gaps decide what it has next.
`OneHome`, `BytesInOrder` and `KeysOnce` follow.

**Settings_proofs**: `SettingsInv` for any keys, forms, routers and number of boots. `StoredInv`
says what RAM and NVS have in common at each location of a save or a reset, which writes key by
key; `WpsInv` that what WPS has so far is of one router; `LogInv` that the counter is ahead of
the entries. `SettingsSurvive`, `CredsOfRouter` and `LogNewestFirst` follow.

**Display_proofs**: `DisplayInv` for grids, chunks, pages, outputs, lengths of a press and a
countdown of any size. `CursorInside` is an induction over the bytes of a chunk: each leaves a
well-formed terminal well-formed, whatever the parser's state, its parameters and the saved
cursor, which a CSI sequence may have set when the cursor was one past the last column. For
`MessageGone`, `MessageInv` says what `main` has left on the display where it is, and
`ButtonInv` that a button seen up has nothing of its own there.

The two inductions over data (the items of a descriptor, the bytes of a chunk) use
`NatSetInduction`, which is derived from the well-foundedness of the natural numbers; the
operators are recursive functions, so that they need no RECURSIVE declaration.

Assumptions, all evaluated by TLC in the runs: `TableAssumption`, `BridgeAssumption`,
`RingAssumption`, `ConsoleAssumption`, `OtaAssumption`, `UsbAssumption`, `WsAssumption`,
`SettingsAssumption`, `GridAssumption`, `PressAssumption`, `InputAssumption`. Most say that a
size is a positive number and that names are distinct. Those that say more: `UsbAssumption`
takes from the USB specification that an endpoint descriptor follows its interface's and never
has address 0 (`Descriptor`), and from `ftdi_port_count` that a chip has a port;
`PressAssumption` has the lengths of a press in the order of `btn_ctrl.rs`;
`SettingsAssumption` lets forms and routers change only keys that are saved, and WPS only
those of the Wi-Fi. `RetainAssumption` of MCWsBridge is no hypothesis of a proof: it compares
`Others`, which the proofs use, with the `SelectSeq` that `retain` is, on all short lists.

Only model-checked: liveness (`ClosedSessionEnds`, `AdmissionFairSpec`, `UpdateEnds`,
`ServesAfterReset`, `OutputSent`, `KeysWritten`, `Served`, `WriteEnds`, `HeardByAll`,
`RebootHappens`, `ShownAtLast`) and the fairness part of `StreamFairSpec`, whose proofs
need ENABLED, which is not in TLAPS's reach. Of the terminal only the cursor is proved: that
colours, erasures and scrolling are those of the code is checked by reading and by the run
`display` as far as they are drawn.


## Not modelled, and why

Contents of commands, banners, pages, JSON and log lines are text. Key exchange and
authentication belong to wolfSSH, except that a handshake may succeed, fail or never end.
`listen`, `bind` and `ssh_bridge_init` failing leave no server at all. A restart from the HTTP
pages or the button, and a power loss, are not in SshBridge: AdmissionControl's
`PowerCycle` needs a session, and they add no behaviour to the others than starting
again. `device_write_cb` may drop the end of a write to USB: that is `write_wait` of UsbHost
(200 ms). Of the USB set-up the bytes of requests are left out, and that the recovery of an
endpoint flushes keys in flight is seen as their completion. Installing drivers (UART, USB
host, display, Wi-Fi) either succeeds or ends the boot. `wifi_connect` and the Wi-Fi monitor
call the driver again and again and keep no state others read, except what the information
page prints. Glyphs and layout, the drawing of the mini display, PWM duties and the loop of
`main` that applies outputs are output without a way back into the state; the information page
shows the outputs but DC OUT, which is all the model keeps of it. Chunks reach the terminals
only after `usb_host::start`. PROJECT.json lists each part with its status.

## Plan

Every safety property of the runs is proved, and the step part of every refinement. What
is left, most useful first:

1. The finding `RingPrivate` in reverse: which part of it holds while no session is
   force-cleared, as a theorem of SshBridge.
2. A specification that composes CdcRing with the table of SshBridge, so that the ring of
   ConsoleBridge being private is derived and not assumed.
3. `Shown`: that the picture of a page is the terminal's whenever nothing is dirty, as an
   invariant beside the liveness property `ShownAtLast`.
4. The monitor of `wifi.rs` and the loop of `main` that applies outputs.
