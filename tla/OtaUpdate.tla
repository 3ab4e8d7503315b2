------------------------------- MODULE OtaUpdate -------------------------------
(***************************************************************************)
(* The "update" command of ssh_bridge.c: a session reads an image from its *)
(* client and hands it, chunk by chunk, to a worker task that writes the   *)
(* flash; the two take turns by two binary semaphores.  Then the restart:  *)
(* the bootloader's choice, and the confirmation of a new image in         *)
(* usb_host.rs.                                                            *)
(*                                                                         *)
(* The image of update u is the chunks <<u, 1>> .. <<u, Chunks>>.          *)
(***************************************************************************)
EXTENDS Integers

CONSTANTS
  Update,   \* sessions that run "update"
  Factory,  \* the image the device came with
  Chunks,   \* chunks of an image
  Sound,    \* images whose ssh_bridge_init returns 0
  Erased,   \* a chunk of flash after esp_ota_begin
  Mixed     \* ... and one that was written twice

ASSUME OtaAssumption ==
  /\ Chunks \in Nat \ {0}
  /\ Factory \notin Update
  /\ Sound \subseteq Update \cup {Factory}
  /\ Factory \in Sound
  /\ {Erased, Mixed} \cap ((Update \cup {Factory}) \X Nat) = {}

VARIABLES
  session,   \* locals of ssh_session_task
  client,    \* the chunks it sent, and whether it sent the EOF or is gone
  ctx,       \* ota_ctx; ready and done: was the semaphore given
  worker,    \* locals of ota_worker_task; offset: chunks written
  bounce,    \* s_ota_bounce, one for all workers
  flash,     \* the two OTA partitions
  system,    \* running, up: the booted partition, and is its bridge started;
             \* boot, state: otadata's selected partition, and its state
  installed  \* history: updates that set the boot partition

vars == <<session, client, ctx, worker, bounce, flash, system, installed>>

Part     == {1, 2}
Other(p) == 3 - p
Index    == 1 .. Chunks
Chunk    == ((Update \cup {Factory}) \X Index) \cup {Erased, Mixed}

Session ==
  [at : {"idle", "begin", "poll", "read", "hand", "eof", "finish", "closing", "error"},
   buf : Chunk, taken : 0 .. Chunks, channel : 0 .. Chunks, total : 0 .. Chunks,
   write_failed : BOOLEAN]
Client == [sent : 0 .. Chunks, eof : BOOLEAN, gone : BOOLEAN]
Ctx    == [ready : BOOLEAN, done : BOOLEAN, eof : BOOLEAN, err : BOOLEAN, part : Part]
Worker ==
  [at : {"none", "start", "wait", "copy", "write", "end", "set_boot", "suspended"},
   failed : BOOLEAN, offset : 0 .. Chunks]
System ==
  [running : Part, up : BOOLEAN, boot : Part, state : {"valid", "new", "pending"}]

TypeOK ==
  /\ session \in [Update -> Session]
  /\ client \in [Update -> Client]
  /\ ctx \in [Update -> Ctx]
  /\ worker \in [Update -> Worker]
  /\ bounce \in Chunk
  /\ flash \in [Part -> [Index -> Chunk]]
  /\ system \in System
  /\ installed \subseteq Update

Blank    == [i \in Index |-> Erased]
Image(u) == [i \in Index |-> <<u, i>>]

NoSession == [at |-> "idle", buf |-> Erased, taken |-> 0, channel |-> 0, total |-> 0,
              write_failed |-> FALSE]
NoClient  == [sent |-> 0, eof |-> FALSE, gone |-> FALSE]
NoCtx     == [ready |-> FALSE, done |-> FALSE, eof |-> FALSE, err |-> FALSE, part |-> 1]
NoWorker  == [at |-> "none", failed |-> FALSE, offset |-> 0]

Init ==
  /\ session = [u \in Update |-> NoSession]
  /\ client = [u \in Update |-> NoClient]
  /\ ctx = [u \in Update |-> NoCtx]
  /\ worker = [u \in Update |-> NoWorker]
  /\ bounce = Erased
  /\ flash = [p \in Part |-> IF p = 1 THEN Image(Factory) ELSE Blank]
  /\ system = [running |-> 1, up |-> TRUE, boot |-> 1, state |-> "valid"]
  /\ installed = {}

\* esp_image_verify: header, size and digest of the image fit.
Holds(p, u) == flash[p] = Image(u)
Valid(p)    == \E u \in Update \cup {Factory} : Holds(p, u)

-----------------------------------------------------------------------------
(* The client of an update.                                                *)

Send(u) ==
  /\ session[u].at # "idle"
  /\ ~client[u].gone /\ ~client[u].eof
  /\ \/ /\ client[u].sent < Chunks
        /\ client' = [client EXCEPT ![u].sent = @ + 1]
     \/ client' = [client EXCEPT ![u].eof = TRUE]
  /\ UNCHANGED <<session, ctx, worker, bounce, flash, system, installed>>

Vanish(u) ==
  /\ session[u].at # "idle"
  /\ ~client[u].gone
  /\ client' = [client EXCEPT ![u].gone = TRUE]
  /\ UNCHANGED <<session, ctx, worker, bounce, flash, system, installed>>

-----------------------------------------------------------------------------
(* ssh_session_task, "update".                                             *)

Goto(u, l) == session' = [session EXCEPT ![u].at = l]

\* Semaphores and worker are created, or one of them is not.
update(u) ==
  /\ system.up
  /\ session[u].at = "idle"
  /\ \/ /\ Goto(u, "begin")
        /\ worker' = [worker EXCEPT ![u].at = "start"]
     \/ /\ Goto(u, "error")
        /\ UNCHANGED worker
  /\ UNCHANGED <<client, ctx, bounce, flash, system, installed>>

\* The worker has begun; if it failed, vTaskDeleteWithCaps.
begun(u) ==
  /\ session[u].at = "begin"
  /\ ctx[u].done
  /\ ctx' = [ctx EXCEPT ![u].done = FALSE]
  /\ IF ctx[u].err
     THEN Goto(u, "error") /\ worker' = [worker EXCEPT ![u] = NoWorker]
     ELSE Goto(u, "poll") /\ UNCHANGED worker
  /\ UNCHANGED <<client, bounce, flash, system, installed>>

\* wolfSSH_worker brings some chunks into the channel's buffer ...
worker_rxd(u) ==
  /\ session[u].at = "poll"
  /\ \E k \in 1 .. client[u].sent - session[u].taken :
       session' = [session EXCEPT ![u].at = "read", ![u].channel = k]
  /\ UNCHANGED <<client, ctx, worker, bounce, flash, system, installed>>

\* ... or the client's EOF, which comes after all of them ...
channel_eof(u) ==
  /\ session[u].at = "poll"
  /\ client[u].eof /\ session[u].taken = client[u].sent
  /\ Goto(u, "eof")
  /\ UNCHANGED <<client, ctx, worker, bounce, flash, system, installed>>

\* ... or select, wolfSSH_worker or ChannelIdRead fails.
stream_error(u) ==
  /\ session[u].at \in {"poll", "read"}
  /\ Goto(u, "eof")
  /\ UNCHANGED <<client, ctx, worker, bounce, flash, system, installed>>

\* A chunk is read, and handed over unless one was refused before.
channel_read(u) ==
  /\ session[u].at = "read"
  /\ session[u].channel > 0
  /\ session' = [session EXCEPT ![u].at = IF session[u].write_failed THEN "read" ELSE "hand",
                                ![u].buf = <<u, session[u].taken + 1>>,
                                ![u].taken = @ + 1,
                                ![u].channel = @ - 1]
  /\ ctx' = IF session[u].write_failed THEN ctx
            ELSE [ctx EXCEPT ![u].eof = FALSE, ![u].ready = TRUE]
  /\ UNCHANGED <<client, worker, bounce, flash, system, installed>>

channel_empty(u) ==
  /\ session[u].at = "read"
  /\ session[u].channel = 0
  /\ Goto(u, "poll")
  /\ UNCHANGED <<client, ctx, worker, bounce, flash, system, installed>>

\* Mutants: without waiting for the worker; a refused chunk counts as well.
handed_at_once(u) ==
  /\ session[u].at = "hand"
  /\ session' = [session EXCEPT ![u].at = "read", ![u].total = @ + 1]
  /\ UNCHANGED <<client, ctx, worker, bounce, flash, system, installed>>

handed_counts_refused(u) ==
  /\ session[u].at = "hand"
  /\ ctx[u].done
  /\ ctx' = [ctx EXCEPT ![u].done = FALSE]
  /\ session' = [session EXCEPT ![u].at = "read", ![u].total = @ + 1,
                                ![u].write_failed = ctx[u].err]
  /\ UNCHANGED <<client, worker, bounce, flash, system, installed>>

\* The chunk was written, or it was refused.
handed(u) ==
  /\ session[u].at = "hand"
  /\ ctx[u].done
  /\ ctx' = [ctx EXCEPT ![u].done = FALSE]
  /\ session' = IF ctx[u].err
                THEN [session EXCEPT ![u].at = "read", ![u].write_failed = TRUE]
                ELSE [session EXCEPT ![u].at = "read", ![u].total = @ + 1]
  /\ UNCHANGED <<client, worker, bounce, flash, system, installed>>

signal_eof(u) ==
  /\ session[u].at = "eof"
  /\ Goto(u, "finish")
  /\ ctx' = [ctx EXCEPT ![u].eof = TRUE, ![u].ready = TRUE]
  /\ UNCHANGED <<client, worker, bounce, flash, system, installed>>

\* Mutant: final_err is not looked at.
finished_unchecked(u) ==
  /\ session[u].at = "finish"
  /\ ctx[u].done
  /\ ctx' = [ctx EXCEPT ![u].done = FALSE]
  /\ worker' = [worker EXCEPT ![u] = NoWorker]
  /\ Goto(u, IF session[u].write_failed \/ session[u].total = 0
             THEN "error" ELSE "closing")
  /\ UNCHANGED <<client, bounce, flash, system, installed>>

\* The worker is deleted; an error is reported, or the success.
finished(u) ==
  /\ session[u].at = "finish"
  /\ ctx[u].done
  /\ ctx' = [ctx EXCEPT ![u].done = FALSE]
  /\ worker' = [worker EXCEPT ![u] = NoWorker]
  /\ Goto(u, IF session[u].write_failed \/ session[u].total = 0 \/ ctx[u].err
             THEN "error" ELSE "closing")
  /\ UNCHANGED <<client, bounce, flash, system, installed>>

\* The session goes to its cleanup; its client may come back.
leave(u) ==
  /\ session[u].at = "error"
  /\ session' = [session EXCEPT ![u] = NoSession]
  /\ client' = [client EXCEPT ![u] = NoClient]
  /\ ctx' = [ctx EXCEPT ![u] = NoCtx]
  /\ installed' = installed \ {u}
  /\ UNCHANGED <<worker, bounce, flash, system>>

-----------------------------------------------------------------------------
(* ota_worker_task.  esp_ota_* is external: begin erases the partition and *)
(* refuses while the running image is not confirmed, end wants something   *)
(* written, end and set_boot_partition verify what is in the flash.        *)

Give(u, failure) == ctx' = [ctx EXCEPT ![u].done = TRUE, ![u].err = failure]

\* Mutant: the partition after the selected one, not after the running one.
next_update_partition_of_boot == Other(system.boot)

next_update_partition == Other(system.running)

\* Mutant: a failure to begin is not signalled.
worker_begin_silent(u) ==
  /\ worker[u].at = "start"
  /\ \/ /\ system.state # "pending"
        /\ ctx' = [ctx EXCEPT ![u].done = TRUE, ![u].err = FALSE,
                              ![u].part = next_update_partition]
        /\ flash' = [flash EXCEPT ![next_update_partition] = Blank]
        /\ worker' = [worker EXCEPT ![u].at = "wait"]
     \/ /\ worker' = [worker EXCEPT ![u].at = "suspended"]
        /\ UNCHANGED <<ctx, flash>>
  /\ UNCHANGED <<session, client, bounce, system, installed>>

worker_begin(u) ==
  /\ worker[u].at = "start"
  /\ \/ /\ system.state # "pending"
        /\ ctx' = [ctx EXCEPT ![u].done = TRUE, ![u].err = FALSE,
                              ![u].part = next_update_partition]
        /\ flash' = [flash EXCEPT ![next_update_partition] = Blank]
        /\ worker' = [worker EXCEPT ![u].at = "wait"]
     \/ /\ Give(u, TRUE)
        /\ worker' = [worker EXCEPT ![u].at = "suspended"]
        /\ UNCHANGED flash
  /\ UNCHANGED <<session, client, bounce, system, installed>>

\* Mutant: done is given before the chunk is copied.
worker_take_early(u) ==
  /\ worker[u].at = "wait"
  /\ ctx[u].ready
  /\ ctx' = [ctx EXCEPT ![u].ready = FALSE, ![u].done = ~ctx[u].eof]
  /\ worker' = [worker EXCEPT ![u].at = IF ctx[u].eof THEN "end" ELSE "copy"]
  /\ UNCHANGED <<session, client, bounce, flash, system, installed>>

worker_take(u) ==
  /\ worker[u].at = "wait"
  /\ ctx[u].ready
  /\ ctx' = [ctx EXCEPT ![u].ready = FALSE]
  /\ worker' = [worker EXCEPT ![u].at = IF ctx[u].eof THEN "end" ELSE "copy"]
  /\ UNCHANGED <<session, client, bounce, flash, system, installed>>

\* memcpy.
worker_copy(u) ==
  /\ worker[u].at = "copy"
  /\ bounce' = session[u].buf
  /\ worker' = [worker EXCEPT ![u].at = "write"]
  /\ UNCHANGED <<session, client, ctx, flash, system, installed>>

\* esp_ota_write, which may fail; nothing is written after that.
worker_write(u) ==
  /\ worker[u].at = "write"
  /\ \/ /\ ~worker[u].failed
        /\ LET i == worker[u].offset + 1
           IN  /\ flash' = [flash EXCEPT ![ctx[u].part][i] =
                              IF @ = Erased THEN bounce ELSE Mixed]
               /\ worker' = [worker EXCEPT ![u].at = "wait", ![u].offset = i]
        /\ Give(u, FALSE)
     \/ /\ worker' = [worker EXCEPT ![u].at = "wait", ![u].failed = TRUE]
        /\ Give(u, TRUE)
        /\ UNCHANGED flash
  /\ UNCHANGED <<session, client, bounce, system, installed>>

\* esp_ota_end, or esp_ota_abort after a failure.
worker_end(u) ==
  /\ worker[u].at = "end"
  /\ \/ /\ ~worker[u].failed /\ worker[u].offset > 0 /\ Valid(ctx[u].part)
        /\ worker' = [worker EXCEPT ![u].at = "set_boot"]
        /\ UNCHANGED ctx
     \/ /\ worker' = [worker EXCEPT ![u].at = "suspended"]
        /\ Give(u, TRUE)
  /\ UNCHANGED <<session, client, bounce, flash, system, installed>>

worker_set_boot(u) ==
  /\ worker[u].at = "set_boot"
  /\ worker' = [worker EXCEPT ![u].at = "suspended"]
  /\ \/ /\ Valid(ctx[u].part)
        /\ system' = [system EXCEPT !.boot = ctx[u].part, !.state = "new"]
        /\ installed' = installed \cup {u}
        /\ Give(u, FALSE)
     \/ /\ Give(u, TRUE)
        /\ UNCHANGED <<system, installed>>
  /\ UNCHANGED <<session, client, bounce, flash>>

-----------------------------------------------------------------------------
(* Restarts.                                                               *)

\* The bootloader: a new image gets its one chance, one that used it without
\* being confirmed is left for the other, and so is one that is not valid.
Chosen ==
  IF system.state = "pending" \/ ~Valid(system.boot) THEN Other(system.boot)
  ELSE system.boot

\* esp_restart, a panic, a watchdog, the power.
Reset ==
  /\ session' = [u \in Update |-> NoSession]
  /\ client' = [u \in Update |-> NoClient]
  /\ ctx' = [u \in Update |-> NoCtx]
  /\ worker' = [u \in Update |-> NoWorker]
  /\ bounce' = Erased
  /\ installed' = {}
  /\ system' = [running |-> Chosen, up |-> FALSE, boot |-> Chosen,
                state |-> IF system.state = "new" /\ Chosen = system.boot
                          THEN "pending" ELSE "valid"]
  /\ UNCHANGED flash

\* ssh_close_before_reboot, esp_restart.
reboot(u) == session[u].at = "closing" /\ Reset

RunsSound == \E u \in Sound : Holds(system.running, u)

ssh_bridge_init ==
  /\ ~system.up
  /\ RunsSound
  /\ system' = [system EXCEPT !.up = TRUE]
  /\ UNCHANGED <<session, client, ctx, worker, bounce, flash, installed>>

\* Mutant: confirmed at once.
mark_app_valid_early ==
  /\ system.state = "pending"
  /\ system' = [system EXCEPT !.state = "valid"]
  /\ UNCHANGED <<session, client, ctx, worker, bounce, flash, installed>>

\* esp_ota_mark_app_valid_cancel_rollback, once rc = 0.
mark_app_valid ==
  /\ system.up
  /\ system.state = "pending"
  /\ system' = [system EXCEPT !.state = "valid"]
  /\ UNCHANGED <<session, client, ctx, worker, bounce, flash, installed>>

-----------------------------------------------------------------------------
SessionStep(u) ==
  \/ update(u) \/ begun(u) \/ worker_rxd(u) \/ channel_eof(u) \/ channel_read(u)
  \/ channel_empty(u) \/ handed(u) \/ signal_eof(u) \/ finished(u) \/ leave(u)
  \/ reboot(u)

WorkerStep(u) ==
  \/ worker_begin(u) \/ worker_take(u) \/ worker_copy(u) \/ worker_write(u)
  \/ worker_end(u) \/ worker_set_boot(u)

Next ==
  \/ \E u \in Update : \/ Send(u) \/ Vanish(u) \/ stream_error(u)
                       \/ SessionStep(u) \/ WorkerStep(u)
  \/ Reset \/ ssh_bridge_init \/ mark_app_valid

Spec == Init /\ [][Next]_vars

\* Both tasks run again and again; a connection that has ended ends the stream.
\* Nothing resets an image that does not start its bridge: usb_host.rs logs the
\* failure and runs on, unconfirmed.
FairSpec ==
  /\ Spec
  /\ \A u \in Update : /\ WF_vars(session[u].at # "idle" /\ SessionStep(u))
                       /\ WF_vars(WorkerStep(u))
                       /\ SF_vars(client[u].gone /\ stream_error(u))
  /\ SF_vars(ssh_bridge_init)

-----------------------------------------------------------------------------
(* What an update promises.                                                *)

\* Session and worker take turns: the session touches buf and ota_ctx only
\* while its worker waits with both semaphores taken, and deletes the worker
\* only after its last word; while the session waits, exactly one of the
\* semaphores and the worker is on its way to wake it.
TakeTurns ==
  \A u \in Update :
    LET c == ctx[u]
        w == worker[u].at
        Busy == w \in {"start", "copy", "write", "end", "set_boot"}
    IN  CASE session[u].at \in {"poll", "read", "eof"} -> w = "wait" /\ ~c.ready /\ ~c.done
          [] session[u].at \in {"idle", "error", "closing"} -> w = "none"
          [] session[u].at \in {"begin", "hand", "finish"} ->
               \/ Busy /\ ~c.ready /\ ~c.done
               \/ w = "wait" /\ c.ready /\ ~c.done
               \/ w \in {"wait", "suspended"} /\ ~c.ready /\ c.done

\* "the previous firmware is left untouched" (README, "OTA firmware update"):
\* no update ever erases or writes the partition that is running, whatever
\* other updates did to otadata.
RunningKept == [][flash'[system.running] = flash[system.running]]_vars

\* "the bootloader automatically reverts to the previous working firmware"
\* (README): the device runs a whole image, one that starts its bridge once it
\* is confirmed; until then the other partition keeps such an image, however
\* updates, resets and the confirmation interleave.
Recoverable ==
  /\ Valid(system.running)
  /\ IF system.state = "pending"
     THEN \E v \in Sound : Holds(Other(system.running), v)
     ELSE RunsSound

\* What the client is told is what happened to otadata: "OK" means that this
\* update set the boot partition, an error that it did not.
ReportsTruth ==
  \A u \in Update : /\ session[u].at = "closing" => u \in installed
                    /\ session[u].at = "error" => u \notin installed

\* An update that is alone on the device has written what its client sent, in
\* order, each chunk once (checked with a single update).
InOrder ==
  \A u \in Update : \A i \in 1 .. session[u].total :
    session[u].at # "error" => flash[ctx[u].part][i] = <<u, i>>

-----------------------------------------------------------------------------
(* The inductive invariant behind the safety properties.                   *)

\* What worker and ota_ctx of an update may be at each location of its
\* session: who has the turn, and what both know of the chunks written.
Pair(u) ==
  LET s == session[u]
      c == ctx[u]
      w == worker[u]
      Quiet == ~c.ready /\ ~c.done
      Agree == w.offset = s.total /\ (w.failed <=> s.write_failed)
  IN  /\ s.taken + s.channel <= client[u].sent
      /\ s.total <= s.taken
      /\ u \in installed <=> \/ s.at = "closing"
                             \/ s.at = "finish" /\ c.done /\ ~c.err
      /\ s.at = "idle" => s = NoSession /\ c = NoCtx /\ w = NoWorker
      /\ s.at = "begin" =>
           /\ s.total = 0 /\ ~s.write_failed /\ Agree /\ ~c.ready
           /\ \/ w.at = "start" /\ ~c.done
              \/ w.at = "wait" /\ c.done /\ ~c.err
              \/ w.at = "suspended" /\ c.done /\ c.err
      /\ s.at \in {"poll", "read", "eof"} => w.at = "wait" /\ Quiet /\ Agree
      /\ s.at = "hand" =>
           /\ s.total < s.taken /\ ~s.write_failed
           /\ \/ w.at = "wait" /\ c.ready /\ ~c.eof /\ ~c.done /\ Agree
              \/ w.at \in {"copy", "write"} /\ Quiet /\ Agree
              \/ /\ w.at = "wait" /\ ~c.ready /\ c.done
                 /\ w.failed <=> c.err
                 /\ w.offset = IF c.err THEN s.total ELSE s.total + 1
      /\ s.at = "finish" =>
           /\ Agree
           /\ \/ w.at = "wait" /\ c.ready /\ c.eof /\ ~c.done
              \/ w.at = "end" /\ Quiet
              \/ w.at = "set_boot" /\ Quiet /\ ~w.failed /\ w.offset > 0
              \/ /\ w.at = "suspended" /\ ~c.ready /\ c.done
                 /\ ~c.err => ~w.failed /\ w.offset > 0
      /\ s.at \in {"closing", "error"} => w = NoWorker

\* otadata follows the running partition unless a new image is selected, and
\* every worker past its begin writes the other partition.
SystemInv ==
  /\ system.boot = IF system.state = "new" THEN Other(system.running) ELSE system.running
  /\ system.up => RunsSound
  /\ \A u \in Update :
       worker[u].at \in {"wait", "copy", "write", "end", "set_boot"} =>
         ctx[u].part = Other(system.running) /\ system.state # "pending"

OtaInv ==
  /\ TypeOK
  /\ \A u \in Update : Pair(u)
  /\ SystemInv
  /\ Recoverable

\* What an update that is alone knows of the chunks: the one in its buffer, the
\* one in s_ota_bounce, and those in the flash, which ends where its worker is.
Sequenced(u) ==
  LET s == session[u]
      w == worker[u]
      cells == flash[ctx[u].part]
  IN  /\ ~s.write_failed => s.taken = IF s.at = "hand" THEN s.total + 1 ELSE s.total
      /\ s.at = "hand" => s.buf = <<u, s.taken>>
      /\ w.at = "write" => bounce = s.buf
      /\ \A i \in 1 .. w.offset : cells[i] = <<u, i>>
      /\ w.at \in {"wait", "copy", "write"} =>
           \A i \in w.offset + 1 .. Chunks : cells[i] = Erased
      /\ s.at # "error" => \A i \in 1 .. s.total : cells[i] = <<u, i>>

AloneInv == OtaInv /\ \A u \in Update : Sequenced(u)

-----------------------------------------------------------------------------
(* Liveness, under FairSpec.                                               *)

\* An update whose connection has ended comes to an end: the two tasks never wait
\* for each other.
UpdateEnds ==
  \A u \in Update :
    session[u].at # "idle" /\ client[u].gone ~> session[u].at = "idle"

\* "on the next reset" (README): a device that somebody resets when its image
\* does not start the bridge comes back to a bridge that runs, whatever point of
\* an update a reset hit before.  That it is reset is the premise: usb_host.rs
\* only logs that the bridge did not start.
ServesAfterReset ==
  WF_vars(~RunsSound /\ Reset) => (~system.up ~> system.up)

-----------------------------------------------------------------------------
(* What the source says and the code does not do.                          *)

\* "once the client-side pipe reaches EOF the image is finalised, set as the
\* next boot partition, and the device reboots" (ssh_bridge.c:805) "into it"
\* (README): what the device is about to reboot into is a whole image.
BootsInto ==
  \A u \in Update : session[u].at = "closing" => Valid(system.boot)
===============================================================================
