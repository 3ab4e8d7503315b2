---------------------------- MODULE OtaUpdate_proofs ----------------------------
(* Theorems about OtaUpdate for any set of updates and any size of image.  *)
EXTENDS OtaUpdate, TLAPS

\* Names of chunks are not the marks of flash cells.
LEMMA ChunkType ==
  /\ Erased \in Chunk /\ Mixed \in Chunk
  /\ \A u \in Update \cup {Factory}, i \in Index : <<u, i>> \in Chunk
BY DEF Chunk

LEMMA Resting ==
  /\ NoSession \in Session
  /\ NoClient \in Client
  /\ NoCtx \in Ctx
  /\ NoWorker \in Worker
BY OtaAssumption, ChunkType
DEF NoSession, Session, NoClient, Client, NoCtx, Ctx, NoWorker, Worker, Part

LEMMA RestingPair ==
  ASSUME NEW u \in Update, u \notin installed,
         session[u] = NoSession, client[u] = NoClient, ctx[u] = NoCtx, worker[u] = NoWorker
  PROVE  Pair(u)
BY DEF Pair, NoSession, NoClient, NoCtx, NoWorker

LEMMA RestingPairAfter ==
  ASSUME NEW u \in Update, u \notin installed',
         session'[u] = NoSession, client'[u] = NoClient, ctx'[u] = NoCtx,
         worker'[u] = NoWorker
  PROVE  Pair(u)'
BY DEF Pair, NoSession, NoClient, NoCtx, NoWorker

-----------------------------------------------------------------------------
(* Init and Reset.                                                         *)

LEMMA InitInv == Init => OtaInv
<1> SUFFICES ASSUME Init PROVE OtaInv
  OBVIOUS
<1>1. TypeOK
  <2>1. flash \in [Part -> [Index -> Chunk]]
    BY ChunkType DEF Init, Image, Blank
  <2>2. system \in System
    BY DEF Init, System, Part
  <2> QED BY <2>1, <2>2, Resting, ChunkType DEF Init, TypeOK
<1>2. \A u \in Update : Pair(u)
  BY RestingPair DEF Init
<1>3. Holds(1, Factory)
  BY DEF Init, Holds, Part
<1>4. RunsSound /\ Valid(system.running)
  BY <1>3, OtaAssumption DEF Init, RunsSound, Valid
<1>5. SystemInv
  BY <1>4 DEF Init, SystemInv, NoWorker
<1>6. Recoverable
  BY <1>4 DEF Init, Recoverable
<1> QED BY <1>1, <1>2, <1>5, <1>6 DEF OtaInv

LEMMA ResetInv == ASSUME OtaInv, Reset PROVE OtaInv'
<1> USE DEF OtaInv
<1>1. TypeOK'
  <2>1. system.boot \in Part /\ system.running \in Part /\ Chosen \in Part
    BY DEF TypeOK, System, Chosen, Other, Part
  <2>2. system' \in System
    BY <2>1 DEF Reset, System
  <2> QED BY <2>2, Resting, ChunkType DEF Reset, TypeOK
<1>2. \A u \in Update : Pair(u)'
  BY RestingPairAfter DEF Reset
<1>3. system \in System /\ system' = [running |-> Chosen, up |-> FALSE, boot |-> Chosen,
                state |-> IF system.state = "new" /\ Chosen = system.boot
                          THEN "pending" ELSE "valid"]
  BY DEF Reset, TypeOK
<1>4. /\ system'.running = Chosen /\ system'.boot = Chosen /\ ~system'.up
      /\ system'.state = IF system.state = "new" /\ Chosen = system.boot
                         THEN "pending" ELSE "valid"
  BY <1>3
<1>5. Other(Other(system.running)) = system.running
  BY <1>3 DEF System, Other, Part
<1>6. flash' = flash
  BY DEF Reset
<1>7. SystemInv'
  BY <1>4 DEF Reset, SystemInv, NoWorker
<1>8. Recoverable'
  <2>1. CASE system.state = "pending"
    <3>1. /\ system.boot = system.running /\ Chosen = Other(system.running)
          /\ system'.state = "valid"
      BY <1>4, <2>1 DEF SystemInv, Chosen
    <3>2. PICK v \in Sound : Holds(Chosen, v)
      BY <2>1, <3>1 DEF Recoverable
    <3> QED BY <1>4, <1>6, <3>1, <3>2, OtaAssumption DEF Recoverable, RunsSound, Valid, Holds
  <2>2. CASE system.state = "new" /\ Valid(system.boot)
    <3>1. Chosen = system.boot /\ system.boot = Other(system.running)
      BY <2>2 DEF Chosen, SystemInv
    <3>2. PICK v \in Sound : Holds(system.running, v)
      BY <2>2 DEF Recoverable, RunsSound
    <3>3. Valid(system.running)'
      BY <1>4, <1>6, <2>2, <3>1 DEF Valid, Holds
    <3>4. Holds(Other(system.running), v)'
      BY <1>4, <1>5, <1>6, <3>1, <3>2 DEF Holds
    <3> QED BY <1>4, <2>2, <3>1, <3>3, <3>4 DEF Recoverable
  <2>3. CASE \/ system.state = "new" /\ ~Valid(system.boot)
             \/ system.state = "valid"
    <3>1. Chosen = system.running /\ system'.state = "valid"
      <4>1. CASE system.state = "new" /\ ~Valid(system.boot)
        <5>1. Chosen = system.running /\ system.boot # system.running
          BY <1>3, <1>5, <4>1 DEF Chosen, SystemInv, System, Other, Part
        <5> QED BY <1>4, <5>1
      <4>2. CASE system.state = "valid"
        BY <1>4, <4>2 DEF Chosen, SystemInv, Recoverable
      <4> QED BY <2>3, <4>1, <4>2
    <3>2. RunsSound /\ Valid(system.running)
      BY <2>3 DEF Recoverable
    <3> QED BY <1>4, <1>6, <3>1, <3>2 DEF Recoverable, RunsSound, Valid, Holds
  <2> QED BY <1>3, <2>1, <2>2, <2>3 DEF System
<1> QED BY <1>1, <1>2, <1>7, <1>8

-----------------------------------------------------------------------------
(* The steps of one update and its worker.                                 *)

\* Every step of an update but its restart.
SessionOwn(u) ==
  \/ Send(u) \/ Vanish(u) \/ stream_error(u)
  \/ update(u) \/ begun(u) \/ worker_rxd(u) \/ channel_eof(u) \/ channel_read(u)
  \/ channel_empty(u) \/ handed(u) \/ signal_eof(u) \/ finished(u) \/ leave(u)

OwnStep(u) == SessionOwn(u) \/ WorkerStep(u)

LEMMA Numbers ==
  ASSUME TypeOK, NEW u \in Update
  PROVE  /\ session[u].taken \in Nat /\ session[u].channel \in Nat
         /\ session[u].total \in Nat /\ client[u].sent \in Nat
         /\ worker[u].offset \in Nat
BY DEF TypeOK, Session, Client, Worker

\* What a change of location changes.
LEMMA GotoEffect ==
  ASSUME TypeOK, NEW u \in Update, NEW l, Goto(u, l)
  PROVE  /\ session'[u].at = l
         /\ session'[u].taken = session[u].taken
         /\ session'[u].channel = session[u].channel
         /\ session'[u].total = session[u].total
         /\ session'[u].write_failed <=> session[u].write_failed
BY DEF TypeOK, Goto, Session

\* What a Give changes.
LEMMA GiveEffect ==
  ASSUME TypeOK, NEW u \in Update, NEW failure \in BOOLEAN, Give(u, failure)
  PROVE  /\ ctx'[u].done
         /\ ctx'[u].ready <=> ctx[u].ready
         /\ ctx'[u].eof <=> ctx[u].eof
         /\ ctx'[u].err <=> failure
         /\ ctx'[u].part = ctx[u].part
BY DEF TypeOK, Give, Ctx

\* It leaves the other updates alone.
LEMMA OthersKept ==
  ASSUME TypeOK, NEW u \in Update, OwnStep(u), NEW v \in Update, v # u, Pair(v)
  PROVE  Pair(v)'
<1>1. /\ session'[v] = session[v] /\ client'[v] = client[v]
      /\ ctx'[v] = ctx[v] /\ worker'[v] = worker[v]
      /\ v \in installed' <=> v \in installed
  <2>1. CASE Send(u)
    BY <2>1 DEF TypeOK, Send
  <2>2. CASE Vanish(u)
    BY <2>2 DEF TypeOK, Vanish
  <2>3. CASE update(u)
    BY <2>3 DEF TypeOK, update, Goto
  <2>4. CASE begun(u)
    BY <2>4 DEF TypeOK, begun, Goto
  <2>5. CASE worker_rxd(u)
    BY <2>5 DEF TypeOK, worker_rxd
  <2>6. CASE channel_eof(u)
    BY <2>6 DEF TypeOK, channel_eof, Goto
  <2>7. CASE stream_error(u)
    BY <2>7 DEF TypeOK, stream_error, Goto
  <2>8. CASE channel_read(u)
    BY <2>8 DEF TypeOK, channel_read
  <2>9. CASE channel_empty(u)
    BY <2>9 DEF TypeOK, channel_empty, Goto
  <2>10. CASE handed(u)
    BY <2>10 DEF TypeOK, handed
  <2>11. CASE signal_eof(u)
    BY <2>11 DEF TypeOK, signal_eof, Goto
  <2>12. CASE finished(u)
    BY <2>12 DEF TypeOK, finished, Goto
  <2>13. CASE leave(u)
    BY <2>13 DEF TypeOK, leave
  <2>14. CASE worker_begin(u)
    BY <2>14 DEF TypeOK, worker_begin, Give
  <2>15. CASE worker_take(u)
    BY <2>15 DEF TypeOK, worker_take
  <2>16. CASE worker_copy(u)
    BY <2>16 DEF TypeOK, worker_copy
  <2>17. CASE worker_write(u)
    BY <2>17 DEF TypeOK, worker_write, Give
  <2>18. CASE worker_end(u)
    BY <2>18 DEF TypeOK, worker_end, Give
  <2>19. CASE worker_set_boot(u)
    BY <2>19 DEF TypeOK, worker_set_boot, Give
  <2> QED BY <2>1, <2>2, <2>3, <2>4, <2>5, <2>6, <2>7, <2>8, <2>9, <2>10, <2>11, <2>12, <2>13, <2>14, <2>15, <2>16, <2>17, <2>18, <2>19 DEF OwnStep, SessionOwn, WorkerStep
<1> QED BY <1>1 DEF Pair

LEMMA OwnPair ==
  ASSUME TypeOK, NEW u \in Update, OwnStep(u), Pair(u)
  PROVE  Pair(u)'
<1> USE Numbers
<1>1. CASE Send(u)
  <2>1. /\ session' = session
        /\ ctx' = ctx
        /\ worker' = worker
        /\ installed' = installed
    BY <1>1 DEF Send
  <2>2. /\ client'[u].sent \in Nat
        /\ client'[u].sent >= client[u].sent
    BY <1>1 DEF TypeOK, Client, Send
  <2> QED BY <2>1, <2>2 DEF Pair
<1>2. CASE Vanish(u)
  <2>1. /\ session' = session
        /\ ctx' = ctx
        /\ worker' = worker
        /\ installed' = installed
    BY <1>2 DEF Vanish
  <2>2. /\ client'[u].sent = client[u].sent
    BY <1>2 DEF TypeOK, Client, Vanish
  <2> QED BY <2>1, <2>2 DEF Pair
<1>3. CASE update(u)
  <2>1. /\ client' = client /\ ctx' = ctx /\ installed' = installed
        /\ session[u].at = "idle"
    BY <1>3 DEF update
  <2>2. /\ session[u] = NoSession /\ ctx[u] = NoCtx /\ worker[u] = NoWorker
    BY <2>1 DEF Pair
  <2>3. CASE Goto(u, "begin") /\ worker' = [worker EXCEPT ![u].at = "start"]
    <3>1. /\ worker'[u].at = "start"
          /\ ~worker'[u].failed /\ worker'[u].offset = 0
      BY <2>2, <2>3 DEF TypeOK, NoWorker
    <3> QED BY <2>1, <2>2, <2>3, <3>1, GotoEffect DEF Pair, NoSession, NoCtx
  <2>4. CASE Goto(u, "error") /\ worker' = worker
    BY <2>1, <2>2, <2>4, GotoEffect DEF Pair
  <2> QED BY <1>3, <2>3, <2>4 DEF update
<1>4. CASE begun(u)
  <2>1. /\ client' = client /\ installed' = installed
        /\ session[u].at = "begin" /\ ctx[u].done
    BY <1>4 DEF begun
  <2>2. /\ ~ctx'[u].done
        /\ ctx'[u].ready <=> ctx[u].ready
        /\ ctx'[u].err <=> ctx[u].err
    BY <1>4 DEF TypeOK, Ctx, begun
  <2>3. CASE ctx[u].err
    <3>1. Goto(u, "error") /\ worker'[u] = NoWorker
      BY <1>4, <2>3 DEF begun, TypeOK
    <3> QED BY <2>1, <2>2, <3>1, GotoEffect DEF Pair
  <2>4. CASE ~ctx[u].err
    <3>1. Goto(u, "poll") /\ worker' = worker
      BY <1>4, <2>4 DEF begun
    <3> QED BY <2>1, <2>2, <2>4, <3>1, GotoEffect DEF Pair
  <2> QED BY <2>3, <2>4
<1>5. CASE worker_rxd(u)
  <2>1. /\ client' = client
        /\ ctx' = ctx
        /\ worker' = worker
        /\ installed' = installed
        /\ session[u].at = "poll"
    BY <1>5 DEF worker_rxd
  <2>2. /\ session'[u].at = "read"
        /\ session'[u].channel \in Nat
        /\ session'[u].taken = session[u].taken
        /\ session'[u].total = session[u].total
        /\ session'[u].write_failed <=> session[u].write_failed
        /\ session'[u].taken + session'[u].channel <= client[u].sent
    BY <1>5 DEF TypeOK, Session, Client, worker_rxd
  <2> QED BY <2>1, <2>2 DEF Pair
<1>6. CASE channel_eof(u)
  <2>1. /\ client' = client
        /\ ctx' = ctx
        /\ worker' = worker
        /\ installed' = installed
        /\ Goto(u, "eof")
        /\ session[u].at \in {"poll", "read"}
    BY <1>6 DEF channel_eof
  <2> QED BY <2>1, GotoEffect DEF Pair
<1>7. CASE stream_error(u)
  <2>1. /\ client' = client
        /\ ctx' = ctx
        /\ worker' = worker
        /\ installed' = installed
        /\ Goto(u, "eof")
        /\ session[u].at \in {"poll", "read"}
    BY <1>7 DEF stream_error
  <2> QED BY <2>1, GotoEffect DEF Pair
<1>8. CASE channel_read(u)
  <2>1. /\ client' = client
        /\ worker' = worker
        /\ installed' = installed
        /\ session[u].at = "read"
    BY <1>8 DEF channel_read
  <2>2. /\ session'[u].taken = session[u].taken + 1
        /\ session'[u].channel \in Nat
        /\ session'[u].channel = session[u].channel - 1
        /\ session'[u].total = session[u].total
        /\ session'[u].write_failed <=> session[u].write_failed
        /\ session'[u].at = IF session[u].write_failed THEN "read" ELSE "hand"
    BY <1>8 DEF TypeOK, Session, channel_read
  <2>3. /\ session[u].write_failed => ctx' = ctx
        /\ ~session[u].write_failed =>
             /\ ctx'[u].ready /\ ~ctx'[u].eof
             /\ ctx'[u].done <=> ctx[u].done
    BY <1>8 DEF TypeOK, Ctx, channel_read
  <2> QED BY <2>1, <2>2, <2>3 DEF Pair
<1>9. CASE channel_empty(u)
  <2>1. /\ client' = client
        /\ ctx' = ctx
        /\ worker' = worker
        /\ installed' = installed
        /\ Goto(u, "poll")
        /\ session[u].at = "read"
    BY <1>9 DEF channel_empty
  <2> QED BY <2>1, GotoEffect DEF Pair
<1>10. CASE handed(u)
  <2>1. /\ client' = client
        /\ worker' = worker
        /\ installed' = installed
        /\ session[u].at = "hand" /\ ctx[u].done
    BY <1>10 DEF handed
  <2>2. /\ ~ctx'[u].done
        /\ ctx'[u].ready <=> ctx[u].ready
        /\ ctx'[u].err <=> ctx[u].err
    BY <1>10 DEF TypeOK, Ctx, handed
  <2>3. /\ session'[u].at = "read"
        /\ session'[u].taken = session[u].taken
        /\ session'[u].channel = session[u].channel
        /\ session'[u].total = IF ctx[u].err THEN session[u].total ELSE session[u].total + 1
        /\ session'[u].write_failed <=> ctx[u].err \/ session[u].write_failed
    BY <1>10 DEF TypeOK, Session, handed
  <2> QED BY <2>1, <2>2, <2>3 DEF Pair
<1>11. CASE signal_eof(u)
  <2>1. /\ client' = client
        /\ worker' = worker
        /\ installed' = installed
        /\ Goto(u, "finish")
        /\ session[u].at = "eof"
    BY <1>11 DEF signal_eof
  <2>2. /\ ctx'[u].ready /\ ctx'[u].eof
        /\ ctx'[u].done <=> ctx[u].done
    BY <1>11 DEF TypeOK, Ctx, signal_eof
  <2> QED BY <2>1, <2>2, GotoEffect DEF Pair
<1>12. CASE finished(u)
  <2>1. /\ client' = client /\ installed' = installed
        /\ session[u].at = "finish" /\ ctx[u].done
        /\ worker'[u] = NoWorker
    BY <1>12 DEF TypeOK, finished
  <2>2. ctx[u].err => u \notin installed
    BY <2>1 DEF Pair
  <2>3. ~ctx[u].err => /\ u \in installed
                       /\ ~session[u].write_failed /\ session[u].total > 0
    BY <2>1 DEF Pair
  <2>4. CASE ctx[u].err
    <3>1. Goto(u, "error")
      BY <1>12, <2>4 DEF finished
    <3> QED BY <2>1, <2>2, <2>4, <3>1, GotoEffect DEF Pair
  <2>5. CASE ~ctx[u].err
    <3>1. Goto(u, "closing")
      BY <1>12, <2>3, <2>5 DEF finished
    <3> QED BY <2>1, <2>3, <2>5, <3>1, GotoEffect DEF Pair
  <2> QED BY <2>4, <2>5
<1>13. CASE leave(u)
  <2>1. /\ session'[u] = NoSession /\ client'[u] = NoClient /\ ctx'[u] = NoCtx
        /\ worker'[u] = NoWorker /\ u \notin installed'
    BY <1>13 DEF TypeOK, Pair, leave
  <2> QED BY <2>1, RestingPairAfter
<1>14. CASE worker_begin(u)
  <2>1. /\ client' = client /\ session' = session /\ installed' = installed
        /\ worker[u].at = "start"
    BY <1>14 DEF worker_begin
  <2>2. /\ worker'[u].failed <=> worker[u].failed
        /\ worker'[u].offset = worker[u].offset
        /\ ctx'[u].done
        /\ ctx'[u].ready <=> ctx[u].ready
        /\ \/ worker'[u].at = "wait" /\ ~ctx'[u].err
           \/ worker'[u].at = "suspended" /\ ctx'[u].err
    <3>1. CASE /\ ctx' = [ctx EXCEPT ![u].done = TRUE, ![u].err = FALSE,
                                     ![u].part = next_update_partition]
               /\ worker' = [worker EXCEPT ![u].at = "wait"]
      BY <3>1 DEF TypeOK, Worker, Ctx
    <3>2. CASE Give(u, TRUE) /\ worker' = [worker EXCEPT ![u].at = "suspended"]
      <4>1. /\ worker'[u].failed <=> worker[u].failed
            /\ worker'[u].offset = worker[u].offset
            /\ worker'[u].at = "suspended"
        BY <3>2 DEF TypeOK, Worker
      <4> QED BY <3>2, <4>1, GiveEffect
    <3> QED BY <1>14, <3>1, <3>2 DEF worker_begin
  <2>3. session[u].at = "begin"
    BY <2>1 DEF TypeOK, Session, Pair, NoWorker
  <2> QED BY <2>1, <2>2, <2>3 DEF Pair
<1>15. CASE worker_take(u)
  <2>1. /\ client' = client /\ session' = session /\ installed' = installed
        /\ worker[u].at = "wait" /\ ctx[u].ready
    BY <1>15 DEF worker_take
  <2>2. /\ worker'[u].failed <=> worker[u].failed
        /\ worker'[u].offset = worker[u].offset
        /\ worker'[u].at = IF ctx[u].eof THEN "end" ELSE "copy"
    BY <1>15 DEF TypeOK, Worker, worker_take
  <2>3. /\ ~ctx'[u].ready
        /\ ctx'[u].done <=> ctx[u].done
        /\ ctx'[u].err <=> ctx[u].err
    BY <1>15 DEF TypeOK, Ctx, worker_take
  <2>4. session[u].at \in {"hand", "finish"}
    BY <2>1 DEF TypeOK, Session, Pair, NoWorker
  <2> QED BY <2>1, <2>2, <2>3, <2>4 DEF Pair
<1>16. CASE worker_copy(u)
  <2>1. /\ client' = client /\ session' = session /\ installed' = installed
        /\ ctx' = ctx /\ worker[u].at = "copy"
    BY <1>16 DEF worker_copy
  <2>2. /\ worker'[u].failed <=> worker[u].failed
        /\ worker'[u].offset = worker[u].offset
        /\ worker'[u].at = "write"
    BY <1>16 DEF TypeOK, Worker, worker_copy
  <2>3. session[u].at = "hand"
    BY <2>1 DEF TypeOK, Session, Pair, NoWorker
  <2> QED BY <2>1, <2>2, <2>3 DEF Pair
<1>17. CASE worker_write(u)
  <2>1. /\ client' = client /\ session' = session /\ installed' = installed
        /\ worker[u].at = "write"
    BY <1>17 DEF worker_write
  <2>2. session[u].at = "hand"
    BY <2>1 DEF TypeOK, Session, Pair, NoWorker
  <2>3. CASE Give(u, FALSE) /\ worker' = [worker EXCEPT ![u].at = "wait", ![u].offset = worker[u].offset + 1]
    <3>1. /\ worker'[u].at = "wait"
          /\ worker'[u].failed <=> worker[u].failed
          /\ worker'[u].offset = worker[u].offset + 1
      BY <2>3 DEF TypeOK, Worker
    <3> QED BY <2>1, <2>2, <2>3, <3>1, GiveEffect DEF Pair
  <2>4. CASE Give(u, TRUE) /\ worker' = [worker EXCEPT ![u].at = "wait", ![u].failed = TRUE]
    <3>1. /\ worker'[u].at = "wait"
          /\ worker'[u].failed
          /\ worker'[u].offset = worker[u].offset
      BY <2>4 DEF TypeOK, Worker
    <3> QED BY <2>1, <2>2, <2>4, <3>1, GiveEffect DEF Pair
  <2> QED BY <1>17, <2>3, <2>4 DEF worker_write
<1>18. CASE worker_end(u)
  <2>1. /\ client' = client /\ session' = session /\ installed' = installed
        /\ worker[u].at = "end"
    BY <1>18 DEF worker_end
  <2>2. /\ worker'[u].failed <=> worker[u].failed
        /\ worker'[u].offset = worker[u].offset
        /\ \/ /\ worker'[u].at = "set_boot" /\ ctx' = ctx
              /\ ~worker[u].failed /\ worker[u].offset > 0
           \/ worker'[u].at = "suspended" /\ Give(u, TRUE)
    BY <1>18, ZenonT(30) DEF TypeOK, Worker, worker_end
  <2>3. session[u].at = "finish"
    BY <2>1 DEF TypeOK, Session, Pair, NoWorker
  <2> QED BY <2>1, <2>2, <2>3, GiveEffect DEF Pair
<1>19. CASE worker_set_boot(u)
  <2>1. /\ client' = client /\ session' = session
        /\ worker[u].at = "set_boot"
        /\ \/ Give(u, FALSE) /\ u \in installed'
           \/ Give(u, TRUE) /\ installed' = installed
    BY <1>19 DEF worker_set_boot
  <2>2. /\ worker'[u].failed <=> worker[u].failed
        /\ worker'[u].offset = worker[u].offset
        /\ worker'[u].at = "suspended"
    BY <1>19 DEF TypeOK, Worker, worker_set_boot
  <2>3. session[u].at = "finish"
    BY <2>1 DEF TypeOK, Session, Pair, NoWorker
  <2> QED BY <2>1, <2>2, <2>3, GiveEffect DEF Pair
<1> QED BY <1>1, <1>2, <1>3, <1>4, <1>5, <1>6, <1>7, <1>8, <1>9, <1>10, <1>11, <1>12, <1>13, <1>14, <1>15, <1>16, <1>17, <1>18, <1>19 DEF OwnStep, SessionOwn, WorkerStep

-----------------------------------------------------------------------------
(* Types.                                                                  *)

LEMMA GotoType ==
  ASSUME TypeOK, NEW u \in Update, NEW l, Goto(u, l),
         l \in {"idle", "begin", "poll", "read", "hand", "eof", "finish", "closing", "error"}
  PROVE  session' \in [Update -> Session]
<1>1. [session[u] EXCEPT !.at = l] \in Session
  BY DEF TypeOK, Session
<1> QED BY <1>1 DEF TypeOK, Goto

LEMMA GiveType ==
  ASSUME TypeOK, NEW u \in Update, NEW failure \in BOOLEAN, Give(u, failure)
  PROVE  ctx' \in [Update -> Ctx]
<1>1. [ctx[u] EXCEPT !.done = TRUE, !.err = failure] \in Ctx
  BY DEF TypeOK, Ctx
<1> QED BY <1>1 DEF TypeOK, Give

LEMMA WorkerType ==
  ASSUME TypeOK, NEW u \in Update, NEW l,
         l \in {"none", "start", "wait", "copy", "write", "end", "set_boot", "suspended"},
         worker' = [worker EXCEPT ![u].at = l]
  PROVE  worker' \in [Update -> Worker]
<1>1. [worker[u] EXCEPT !.at = l] \in Worker
  BY DEF TypeOK, Worker
<1> QED BY <1>1 DEF TypeOK

\* The session's steps.
LEMMA SessionType ==
  ASSUME OtaInv, NEW u \in Update, SessionOwn(u)
  PROVE  TypeOK'
<1> TypeOK /\ Pair(u)
  BY DEF OtaInv
<1>1. ASSUME NEW b \in BOOLEAN PROVE [ctx[u] EXCEPT !.done = b] \in Ctx
  BY DEF TypeOK, Ctx
<1>2. CASE Send(u)
  <2>1. [client[u] EXCEPT !.eof = TRUE] \in Client
    BY DEF TypeOK, Client
  <2>2. client[u].sent < Chunks => [client[u] EXCEPT !.sent = @ + 1] \in Client
    BY OtaAssumption DEF TypeOK, Client
  <2>3. client' \in [Update -> Client]
    <3>1. CASE client' = [client EXCEPT ![u].eof = TRUE]
      BY <2>1, <3>1 DEF TypeOK
    <3>2. CASE client[u].sent < Chunks /\ client' = [client EXCEPT ![u].sent = @ + 1]
      BY <2>2, <3>2 DEF TypeOK
    <3> QED BY <1>2, <3>1, <3>2 DEF Send
  <2> QED BY <1>2, <2>3 DEF TypeOK, Send
<1>3. CASE Vanish(u)
  <2>1. [client[u] EXCEPT !.gone = TRUE] \in Client
    BY DEF TypeOK, Client
  <2> QED BY <1>3, <2>1 DEF TypeOK, Vanish
<1>4. CASE stream_error(u) \/ channel_eof(u) \/ channel_empty(u)
  <2>1. session' \in [Update -> Session]
    BY <1>4, GotoType DEF stream_error, channel_eof, channel_empty
  <2> QED BY <1>4, <2>1 DEF TypeOK, stream_error, channel_eof, channel_empty
<1>5. CASE update(u)
  <2>1. session' \in [Update -> Session]
    BY <1>5, GotoType DEF update
  <2>2. worker' \in [Update -> Worker]
    BY <1>5, WorkerType DEF update, TypeOK
  <2> QED BY <1>5, <2>1, <2>2 DEF TypeOK, update
<1>6. CASE begun(u)
  <2>1. session' \in [Update -> Session]
    BY <1>6, GotoType DEF begun
  <2>2. worker' \in [Update -> Worker]
    BY <1>6, Resting DEF begun, TypeOK
  <2>3. ctx' \in [Update -> Ctx]
    BY <1>1, <1>6 DEF begun, TypeOK
  <2> QED BY <1>6, <2>1, <2>2, <2>3 DEF TypeOK, begun
<1>7. CASE worker_rxd(u)
  <2>1. PICK k \in 1 .. client[u].sent - session[u].taken :
          session' = [session EXCEPT ![u].at = "read", ![u].channel = k]
    BY <1>7 DEF worker_rxd
  <2>2. k \in 0 .. Chunks
    BY OtaAssumption DEF TypeOK, Session, Client
  <2>3. [session[u] EXCEPT !.at = "read", !.channel = k] \in Session
    BY <2>2, ZenonT(30) DEF TypeOK, Session
  <2>4. session' \in [Update -> Session]
    BY <2>1, <2>3 DEF TypeOK
  <2> QED BY <1>7, <2>4 DEF TypeOK, worker_rxd
<1>8. CASE channel_read(u)
  <2> DEFINE r == [session[u] EXCEPT !.at = IF session[u].write_failed THEN "read" ELSE "hand",
                                     !.buf = <<u, session[u].taken + 1>>,
                                     !.taken = @ + 1,
                                     !.channel = @ - 1]
  <2>1. /\ session[u].taken + 1 \in Index
        /\ session[u].channel - 1 \in 0 .. Chunks
    BY <1>8, OtaAssumption DEF TypeOK, Session, Client, Pair, channel_read, Index
  <2>2. <<u, session[u].taken + 1>> \in Chunk
    BY <2>1, ChunkType
  <2>3. r \in Session
    <3>1. session[u].taken + 1 \in 0 .. Chunks
      BY <2>1, OtaAssumption DEF Index
    <3>2. (IF session[u].write_failed THEN "read" ELSE "hand") \in {"read", "hand"}
      OBVIOUS
    <3> QED BY <2>1, <2>2, <3>1, <3>2, ZenonT(30) DEF TypeOK, Session
  <2>4. session' \in [Update -> Session]
    BY <1>8, <2>3 DEF TypeOK, channel_read
  <2>5. [ctx[u] EXCEPT !.eof = FALSE, !.ready = TRUE] \in Ctx
    BY DEF TypeOK, Ctx
  <2>6. ctx' \in [Update -> Ctx]
    BY <1>8, <2>5 DEF TypeOK, channel_read
  <2> QED BY <1>8, <2>4, <2>6 DEF TypeOK, channel_read
<1>9. CASE handed(u)
  <2>1. session[u].total + 1 \in 0 .. Chunks
    BY <1>9, OtaAssumption DEF TypeOK, Session, Pair, handed
  <2>2. /\ [session[u] EXCEPT !.at = "read", !.write_failed = TRUE] \in Session
        /\ [session[u] EXCEPT !.at = "read", !.total = @ + 1] \in Session
    BY <2>1 DEF TypeOK, Session
  <2>3. session' \in [Update -> Session]
    BY <1>9, <2>2 DEF TypeOK, handed
  <2>4. ctx' \in [Update -> Ctx]
    BY <1>1, <1>9 DEF TypeOK, handed
  <2> QED BY <1>9, <2>3, <2>4 DEF TypeOK, handed
<1>10. CASE signal_eof(u)
  <2>1. session' \in [Update -> Session]
    BY <1>10, GotoType DEF signal_eof
  <2>2. [ctx[u] EXCEPT !.eof = TRUE, !.ready = TRUE] \in Ctx
    BY DEF TypeOK, Ctx
  <2>3. ctx' \in [Update -> Ctx]
    BY <1>10, <2>2 DEF TypeOK, signal_eof
  <2> QED BY <1>10, <2>1, <2>3 DEF TypeOK, signal_eof
<1>11. CASE finished(u)
  <2>1. session' \in [Update -> Session]
    BY <1>11, GotoType DEF finished
  <2>2. worker' \in [Update -> Worker]
    BY <1>11, Resting DEF finished, TypeOK
  <2>3. ctx' \in [Update -> Ctx]
    BY <1>1, <1>11 DEF finished, TypeOK
  <2> QED BY <1>11, <2>1, <2>2, <2>3 DEF TypeOK, finished
<1>12. CASE leave(u)
  BY <1>12, Resting DEF TypeOK, leave
<1> QED BY <1>2, <1>3, <1>4, <1>5, <1>6, <1>7, <1>8, <1>9, <1>10, <1>11, <1>12
    DEF SessionOwn

\* The worker's.
LEMMA WorkersType ==
  ASSUME OtaInv, NEW u \in Update, WorkerStep(u)
  PROVE  TypeOK'
<1> TypeOK /\ Pair(u)
  BY DEF OtaInv
<1>1. next_update_partition \in Part
  BY DEF TypeOK, System, next_update_partition, Other, Part
<1>2. CASE worker_begin(u)
  <2>1. worker' \in [Update -> Worker]
    BY <1>2, WorkerType DEF worker_begin
  <2>2. [ctx[u] EXCEPT !.done = TRUE, !.err = FALSE, !.part = next_update_partition] \in Ctx
    BY <1>1 DEF TypeOK, Ctx
  <2>3. ctx' \in [Update -> Ctx]
    <3>1. CASE Give(u, TRUE)
      BY <3>1, GiveType
    <3>2. CASE ctx' = [ctx EXCEPT ![u].done = TRUE, ![u].err = FALSE,
                                  ![u].part = next_update_partition]
      BY <2>2, <3>2 DEF TypeOK
    <3> QED BY <1>2, <3>1, <3>2 DEF worker_begin
  <2>4. flash' \in [Part -> [Index -> Chunk]]
    <3>1. Blank \in [Index -> Chunk]
      BY ChunkType DEF Blank
    <3> QED BY <1>2, <3>1 DEF TypeOK, worker_begin
  <2> QED BY <1>2, <2>1, <2>3, <2>4 DEF TypeOK, worker_begin
<1>3. CASE worker_take(u)
  <2>1. worker' \in [Update -> Worker]
    BY <1>3, WorkerType DEF worker_take
  <2>2. [ctx[u] EXCEPT !.ready = FALSE] \in Ctx
    BY DEF TypeOK, Ctx
  <2>3. ctx' \in [Update -> Ctx]
    BY <1>3, <2>2 DEF TypeOK, worker_take
  <2> QED BY <1>3, <2>1, <2>3 DEF TypeOK, worker_take
<1>4. CASE worker_copy(u)
  <2>1. worker' \in [Update -> Worker]
    BY <1>4, WorkerType DEF worker_copy
  <2>2. session[u].buf \in Chunk
    BY DEF TypeOK, Session
  <2> QED BY <1>4, <2>1, <2>2 DEF TypeOK, worker_copy
<1>5. CASE worker_write(u)
  <2>1. /\ session[u].at = "hand" /\ worker[u].offset = session[u].total
        /\ session[u].total < session[u].taken
    BY <1>5 DEF TypeOK, Session, Pair, NoWorker, worker_write
  <2>2. worker[u].offset + 1 \in Index
    BY <2>1, OtaAssumption DEF TypeOK, Session, Index
  <2>3. [worker[u] EXCEPT !.at = "wait", !.offset = worker[u].offset + 1] \in Worker
    <3>1. worker[u].offset + 1 \in 0 .. Chunks
      BY <2>2, OtaAssumption DEF Index
    <3> QED BY <3>1 DEF TypeOK, Worker
  <2>4. worker' \in [Update -> Worker]
    <3>1. [worker[u] EXCEPT !.at = "wait", !.failed = TRUE] \in Worker
      BY DEF TypeOK, Worker
    <3> QED BY <1>5, <2>3, <3>1 DEF TypeOK, worker_write
  <2>5. ctx' \in [Update -> Ctx]
    BY <1>5, GiveType DEF worker_write
  <2>6. flash' \in [Part -> [Index -> Chunk]]
    <3> DEFINE part == ctx[u].part
               i    == worker[u].offset + 1
               cell == IF flash[part][i] = Erased THEN bounce ELSE Mixed
    <3>1. part \in Part /\ cell \in Chunk
      BY ChunkType DEF TypeOK, Ctx
    <3>2. [flash[part] EXCEPT ![i] = cell] \in [Index -> Chunk]
      BY <2>2, <3>1 DEF TypeOK
    <3>3. flash' \in {flash, [flash EXCEPT ![part] = [flash[part] EXCEPT ![i] = cell]]}
      BY <1>5 DEF worker_write
    <3> QED BY <3>1, <3>2, <3>3 DEF TypeOK
  <2> QED BY <1>5, <2>4, <2>5, <2>6 DEF TypeOK, worker_write
<1>6. CASE worker_end(u)
  <2>1. worker' \in [Update -> Worker]
    BY <1>6, WorkerType DEF worker_end
  <2>2. ctx' \in [Update -> Ctx]
    BY <1>6, GiveType DEF worker_end, TypeOK
  <2> QED BY <1>6, <2>1, <2>2 DEF TypeOK, worker_end
<1>7. CASE worker_set_boot(u)
  <2>1. worker' \in [Update -> Worker]
    BY <1>7, WorkerType DEF worker_set_boot
  <2>2. ctx' \in [Update -> Ctx]
    BY <1>7, GiveType DEF worker_set_boot
  <2>3. ctx[u].part \in Part
    BY DEF TypeOK, Ctx
  <2>4. [system EXCEPT !.boot = ctx[u].part, !.state = "new"] \in System
    BY <2>3 DEF TypeOK, System
  <2>5. system' \in System /\ installed' \subseteq Update
    BY <1>7, <2>4 DEF TypeOK, worker_set_boot
  <2> QED BY <1>7, <2>1, <2>2, <2>5 DEF TypeOK, worker_set_boot
<1> QED BY <1>2, <1>3, <1>4, <1>5, <1>6, <1>7 DEF WorkerStep

-----------------------------------------------------------------------------
(* The partitions.                                                         *)

\* A worker past its begin, which may write.
Writes(u) == worker[u].at \in {"wait", "copy", "write", "end", "set_boot"}

\* What keeps SystemInv and Recoverable while the running system stays.
LEMMA OtherWritten ==
  ASSUME SystemInv, Recoverable, system' = system,
         flash'[system.running] = flash[system.running],
         flash' = flash \/ system.state # "pending",
         \A v \in Update : Writes(v)' =>
           ctx'[v].part = Other(system.running) /\ system.state # "pending"
  PROVE  SystemInv' /\ Recoverable'
<1>1. (RunsSound => RunsSound') /\ (Valid(system.running) => Valid(system.running)')
  BY DEF RunsSound, Valid, Holds
<1>2. SystemInv'
  BY <1>1 DEF SystemInv, Writes
<1>3. CASE system.state = "pending"
  BY <1>1, <1>2, <1>3 DEF Recoverable, Holds
<1>4. CASE system.state # "pending"
  BY <1>1, <1>2, <1>4 DEF Recoverable
<1> QED BY <1>3, <1>4

\* The session starts, stops and deletes workers but moves none of them.
LEMMA SessionSystem ==
  ASSUME OtaInv, NEW u \in Update, SessionOwn(u)
  PROVE  /\ system' = system /\ flash' = flash
         /\ SystemInv' /\ Recoverable'
<1> TypeOK /\ Pair(u) /\ SystemInv /\ Recoverable
  BY DEF OtaInv
<1>1. system' = system /\ flash' = flash
  BY DEF SessionOwn, Send, Vanish, stream_error, update, begun, worker_rxd, channel_eof,
         channel_read, channel_empty, handed, signal_eof, finished, leave
<1>2. \A v \in Update : Writes(v)' => Writes(v) /\ ctx'[v].part = ctx[v].part
  <2>1. CASE \/ Send(u) \/ Vanish(u) \/ stream_error(u) \/ worker_rxd(u) \/ channel_eof(u)
             \/ channel_empty(u)
    BY <2>1 DEF Writes, Send, Vanish, stream_error, worker_rxd, channel_eof, channel_empty
  <2>2. CASE update(u)
    <3>1. /\ ctx' = ctx
          /\ worker' = worker \/ worker' = [worker EXCEPT ![u].at = "start"]
      BY <2>2 DEF update
    <3> QED BY <3>1 DEF TypeOK, Worker, Writes
  <2>3. CASE begun(u) \/ finished(u)
    <3>1. /\ ctx' = [ctx EXCEPT ![u].done = FALSE]
          /\ worker' = worker \/ worker' = [worker EXCEPT ![u] = NoWorker]
      BY <2>3 DEF begun, finished
    <3>2. \A v \in Update : ctx'[v].part = ctx[v].part
      BY <3>1 DEF TypeOK, Ctx
    <3> QED BY <3>1, <3>2 DEF TypeOK, Writes, NoWorker
  <2>4. CASE channel_read(u) \/ handed(u) \/ signal_eof(u)
    <3>1. /\ worker' = worker
          /\ \/ ctx' = ctx
             \/ ctx' = [ctx EXCEPT ![u].eof = FALSE, ![u].ready = TRUE]
             \/ ctx' = [ctx EXCEPT ![u].done = FALSE]
             \/ ctx' = [ctx EXCEPT ![u].eof = TRUE, ![u].ready = TRUE]
      BY <2>4 DEF channel_read, handed, signal_eof
    <3>2. \A v \in Update : ctx'[v].part = ctx[v].part
      BY <3>1 DEF TypeOK, Ctx
    <3> QED BY <3>1, <3>2 DEF Writes
  <2>5. CASE leave(u)
    <3>1. worker' = worker /\ worker[u] = NoWorker /\ \A v \in Update \ {u} : ctx'[v] = ctx[v]
      BY <2>5 DEF TypeOK, Pair, leave
    <3> QED BY <3>1 DEF Writes, NoWorker
  <2> QED BY <2>1, <2>2, <2>3, <2>4, <2>5 DEF SessionOwn
<1>3. \A v \in Update : Writes(v)' =>
        ctx'[v].part = Other(system.running) /\ system.state # "pending"
  BY <1>2 DEF SystemInv, Writes
<1> QED BY <1>1, <1>3, OtherWritten

\* The worker erases and writes the partition that does not run.
LEMMA WorkerSystem ==
  ASSUME OtaInv, NEW u \in Update, WorkerStep(u)
  PROVE  /\ flash'[system.running] = flash[system.running]
         /\ SystemInv' /\ Recoverable'
<1> TypeOK /\ Pair(u) /\ SystemInv /\ Recoverable
  BY DEF OtaInv
<1> DEFINE Kept == \A v \in Update : Writes(v)' =>
                     ctx'[v].part = Other(system.running) /\ system.state # "pending"
<1>1. system.running # Other(system.running)
  BY DEF TypeOK, System, Part, Other
<1>2. ASSUME \A v \in Update \ {u} : worker'[v] = worker[v] /\ ctx'[v] = ctx[v],
             Writes(u)' => ctx'[u].part = Other(system.running) /\ system.state # "pending"
      PROVE  Kept
  BY <1>2 DEF SystemInv, Writes
<1>3. ASSUME system' = system, flash'[system.running] = flash[system.running],
             flash' = flash \/ system.state # "pending", Kept
      PROVE  SystemInv' /\ Recoverable'
  BY <1>3, OtherWritten
<1> HIDE DEF Kept
<1>4. CASE worker_begin(u)
  <2>1. CASE /\ system.state # "pending"
             /\ ctx' = [ctx EXCEPT ![u].done = TRUE, ![u].err = FALSE,
                                   ![u].part = next_update_partition]
             /\ flash' = [flash EXCEPT ![next_update_partition] = Blank]
             /\ worker' = [worker EXCEPT ![u].at = "wait"]
    <3>1. \A v \in Update \ {u} : worker'[v] = worker[v] /\ ctx'[v] = ctx[v]
      BY <2>1 DEF TypeOK
    <3>2. ctx'[u].part = Other(system.running)
      BY <2>1 DEF TypeOK, Ctx, next_update_partition
    <3>3. flash'[system.running] = flash[system.running]
      BY <1>1, <2>1 DEF TypeOK, System, next_update_partition
    <3> QED BY <1>2, <1>3, <1>4, <2>1, <3>1, <3>2, <3>3 DEF worker_begin
  <2>2. CASE Give(u, TRUE) /\ worker' = [worker EXCEPT ![u].at = "suspended"] /\ flash' = flash
    <3>1. \A v \in Update \ {u} : worker'[v] = worker[v] /\ ctx'[v] = ctx[v]
      BY <2>2 DEF TypeOK, Give
    <3>2. ~Writes(u)'
      BY <2>2 DEF TypeOK, Worker, Writes
    <3> QED BY <1>2, <1>3, <1>4, <2>2, <3>1, <3>2 DEF worker_begin
  <2> QED BY <1>4, <2>1, <2>2 DEF worker_begin
<1>5. CASE worker_take(u) \/ worker_copy(u)
  <2>1. \A v \in Update \ {u} : worker'[v] = worker[v] /\ ctx'[v] = ctx[v]
    BY <1>5 DEF TypeOK, worker_take, worker_copy
  <2>2. Writes(u) /\ ctx'[u].part = ctx[u].part
    BY <1>5 DEF TypeOK, Ctx, Writes, worker_take, worker_copy
  <2>3. system' = system /\ flash' = flash
    BY <1>5 DEF worker_take, worker_copy
  <2> QED BY <1>2, <1>3, <2>1, <2>2, <2>3 DEF SystemInv, Writes
<1>6. CASE worker_write(u)
  <2>1. \A v \in Update \ {u} : worker'[v] = worker[v] /\ ctx'[v] = ctx[v]
    BY <1>6 DEF TypeOK, worker_write, Give
  <2>2. Writes(u) /\ ctx'[u].part = ctx[u].part
    BY <1>6, GiveEffect DEF Writes, worker_write
  <2>3. ctx[u].part = Other(system.running) /\ system.state # "pending"
    BY <2>2 DEF SystemInv, Writes
  <2>4. flash'[system.running] = flash[system.running] /\ system' = system
    BY <1>1, <1>6, <2>3 DEF TypeOK, System, worker_write
  <2> QED BY <1>2, <1>3, <2>1, <2>2, <2>3, <2>4
<1>7. CASE worker_end(u)
  <2>1. \A v \in Update \ {u} : worker'[v] = worker[v] /\ ctx'[v] = ctx[v]
    BY <1>7 DEF TypeOK, worker_end, Give
  <2>2. Writes(u) /\ ctx'[u].part = ctx[u].part
    BY <1>7, GiveEffect DEF Writes, worker_end
  <2>3. system' = system /\ flash' = flash
    BY <1>7 DEF worker_end
  <2> QED BY <1>2, <1>3, <2>1, <2>2, <2>3 DEF SystemInv, Writes
<1>8. CASE worker_set_boot(u)
  <2>1. \A v \in Update \ {u} : worker'[v] = worker[v] /\ ctx'[v] = ctx[v]
    BY <1>8 DEF TypeOK, worker_set_boot, Give
  <2>2. ~Writes(u)'
    BY <1>8 DEF TypeOK, Worker, Writes, worker_set_boot
  <2>3. Kept
    BY <1>2, <2>1, <2>2
  <2>4. ctx[u].part = Other(system.running) /\ system.state # "pending"
    BY <1>8 DEF SystemInv, worker_set_boot
  <2>5. flash' = flash
    BY <1>8 DEF worker_set_boot
  <2>6. CASE system' = [system EXCEPT !.boot = ctx[u].part, !.state = "new"]
    <3>1. /\ system'.running = system.running /\ system'.boot = Other(system.running)
          /\ system'.up <=> system.up
          /\ system'.state = "new"
      BY <2>4, <2>6 DEF TypeOK, System
    <3>2. Valid(system.running) /\ RunsSound
      BY <2>4 DEF Recoverable
    <3>3. RunsSound' /\ Valid(system.running)'
      BY <2>5, <3>1, <3>2 DEF RunsSound, Valid, Holds
    <3>4. SystemInv'
      BY <2>3, <3>1, <3>3 DEF SystemInv, Kept, Writes
    <3> QED BY <2>5, <3>1, <3>3, <3>4 DEF Recoverable
  <2>7. CASE system' = system
    BY <1>3, <2>3, <2>5, <2>7
  <2> QED BY <1>8, <2>6, <2>7 DEF worker_set_boot
<1> QED BY <1>4, <1>5, <1>6, <1>7, <1>8 DEF WorkerStep

\* The start of the bridge, and the confirmation that follows it.
LEMMA StartInv ==
  ASSUME OtaInv, ssh_bridge_init \/ mark_app_valid
  PROVE  OtaInv'
<1> TypeOK /\ SystemInv /\ Recoverable /\ \A u \in Update : Pair(u)
  BY DEF OtaInv
<1>1. /\ session' = session /\ client' = client /\ ctx' = ctx /\ worker' = worker
      /\ bounce' = bounce /\ flash' = flash /\ installed' = installed
  BY DEF ssh_bridge_init, mark_app_valid
<1>2. /\ system' \in System
      /\ system'.running = system.running /\ system'.boot = system.boot
      /\ system'.up /\ RunsSound
      /\ \/ system'.state = system.state
         \/ system.state = "pending" /\ system'.state = "valid"
  BY DEF TypeOK, System, SystemInv, ssh_bridge_init, mark_app_valid
<1>3. RunsSound' /\ Valid(system.running)'
  BY <1>1, <1>2 DEF Recoverable, RunsSound, Valid, Holds
<1>4. TypeOK'
  BY <1>1, <1>2 DEF TypeOK
<1>5. \A u \in Update : Pair(u)'
  BY <1>1 DEF Pair
<1>6. SystemInv'
  BY <1>1, <1>2, <1>3 DEF SystemInv
<1>7. Recoverable'
  BY <1>1, <1>2, <1>3 DEF Recoverable, Holds
<1> QED BY <1>4, <1>5, <1>6, <1>7 DEF OtaInv

-----------------------------------------------------------------------------
(* The invariant.                                                          *)

LEMMA OwnInv ==
  ASSUME OtaInv, NEW u \in Update, OwnStep(u)
  PROVE  OtaInv'
<1>1. TypeOK'
  BY SessionType, WorkersType DEF OwnStep
<1>2. ASSUME NEW v \in Update PROVE Pair(v)'
  BY OwnPair, OthersKept DEF OtaInv
<1>3. SystemInv' /\ Recoverable'
  BY SessionSystem, WorkerSystem DEF OwnStep
<1> QED BY <1>1, <1>2, <1>3 DEF OtaInv

LEMMA NextSteps ==
  ASSUME Next
  PROVE  \/ \E u \in Update : OwnStep(u)
         \/ Reset \/ ssh_bridge_init \/ mark_app_valid
BY DEF Next, SessionStep, OwnStep, SessionOwn, reboot

LEMMA Inductive == OtaInv /\ [Next]_vars => OtaInv'
<1> SUFFICES ASSUME OtaInv, [Next]_vars PROVE OtaInv'
  OBVIOUS
<1>1. CASE Next
  BY <1>1, NextSteps, OwnInv, ResetInv, StartInv
<1>2. CASE UNCHANGED vars
  <2>1. TypeOK'
    BY <1>2 DEF vars, OtaInv, TypeOK
  <2>2. \A u \in Update : Pair(u)'
    BY <1>2 DEF vars, OtaInv, Pair
  <2>3. SystemInv' /\ Recoverable'
    BY <1>2 DEF vars, OtaInv, SystemInv, Recoverable, RunsSound, Valid, Holds
  <2> QED BY <2>1, <2>2, <2>3 DEF OtaInv
<1> QED BY <1>1, <1>2

\* At any moment, for any number of updates, resets and refused writes: who has
\* the turn, what session and worker agree on, where otadata points.
THEOREM Invariant == Spec => []OtaInv
BY InitInv, Inductive, PTL DEF Spec

\* Every variable keeps its type; no worker writes past the image its client
\* sent.
THEOREM TypeCorrect == Spec => []TypeOK
<1>1. OtaInv => TypeOK
  BY DEF OtaInv
<1> QED BY Invariant, <1>1, PTL

\* ssh_session_task and ota_worker_task take turns on s_ota_bounce's source and
\* ota_ctx, and the worker is deleted only when it has nothing left to say.
THEOREM TurnsTaken == Spec => []TakeTurns
<1>1. ASSUME OtaInv PROVE TakeTurns
  <2>1. ASSUME NEW u \in Update
        PROVE  LET c == ctx[u]
                   w == worker[u].at
                   Busy == w \in {"start", "copy", "write", "end", "set_boot"}
               IN  /\ session[u].at \in {"poll", "read", "eof"} =>
                        w = "wait" /\ ~c.ready /\ ~c.done
                   /\ session[u].at \in {"idle", "error", "closing"} => w = "none"
                   /\ session[u].at \in {"begin", "hand", "finish"} =>
                        \/ Busy /\ ~c.ready /\ ~c.done
                        \/ w = "wait" /\ c.ready /\ ~c.done
                        \/ w \in {"wait", "suspended"} /\ ~c.ready /\ c.done
    BY <1>1 DEF OtaInv, Pair, NoWorker
  <2>2. \A u \in Update : session[u].at \in
          {"idle", "begin", "poll", "read", "hand", "eof", "finish", "closing", "error"}
    BY <1>1 DEF OtaInv, TypeOK, Session
  <2> QED BY <2>1, <2>2 DEF TakeTurns
<1> QED BY Invariant, <1>1, PTL

\* A device that runs one of the images always has a whole one to run, and an
\* unconfirmed image a proven one beside it.
THEOREM AlwaysRecoverable == Spec => []Recoverable
<1>1. OtaInv => Recoverable
  BY DEF OtaInv
<1> QED BY Invariant, <1>1, PTL

\* The client is told "OK" exactly when its update set the boot partition.
THEOREM ReportsTrue == Spec => []ReportsTruth
<1>1. OtaInv => ReportsTruth
  BY DEF OtaInv, Pair, ReportsTruth
<1> QED BY Invariant, <1>1, PTL

\* No step of any update changes the partition that runs.
THEOREM RunningNeverWritten == Spec => RunningKept
<1>1. ASSUME OtaInv, [Next]_vars PROVE flash'[system.running] = flash[system.running]
  <2>1. CASE \E u \in Update : OwnStep(u)
    BY <1>1, <2>1, SessionSystem, WorkerSystem DEF OwnStep
  <2>2. CASE Reset \/ ssh_bridge_init \/ mark_app_valid
    BY <2>2 DEF Reset, ssh_bridge_init, mark_app_valid
  <2>3. CASE UNCHANGED vars
    BY <2>3 DEF vars
  <2> QED BY <1>1, <2>1, <2>2, <2>3, NextSteps
<1>2. OtaInv /\ [Next]_vars => [flash'[system.running] = flash[system.running]]_vars
  BY <1>1
<1> QED BY Invariant, <1>2, PTL DEF Spec, RunningKept
-----------------------------------------------------------------------------
(* An update that is alone.                                                *)

LEMMA NoneSequenced ==
  ASSUME NEW u \in Update, session'[u].total = 0, ~session'[u].write_failed,
         session'[u].taken = 0, session'[u].at # "hand",
         worker'[u].offset = 0, worker'[u].at \notin {"wait", "copy", "write"}
  PROVE  Sequenced(u)'
BY DEF Sequenced

\* A session that moves on without a chunk, while its worker waits or is deleted.
LEMMA GoesOn ==
  ASSUME NEW u \in Update, Sequenced(u), session[u].at # "hand", session'[u].at # "hand",
         session[u].at # "error",
         session'[u].total = session[u].total, session'[u].taken = session[u].taken,
         session'[u].write_failed <=> session[u].write_failed,
         flash' = flash, ctx'[u].part = ctx[u].part,
         \/ worker'[u] = NoWorker
         \/ worker'[u] = worker[u] /\ worker[u].at # "write"
  PROVE  Sequenced(u)'
<1>1. \A i \in 1 .. 0 : FALSE
  OBVIOUS
<1> QED BY <1>1 DEF Sequenced, NoWorker

LEMMA SessionSequenced ==
  ASSUME TypeOK, NEW u \in Update, Pair(u), Sequenced(u), SessionOwn(u)
  PROVE  Sequenced(u)'
<1> USE Numbers
<1>1. CASE Send(u) \/ Vanish(u)
  BY <1>1 DEF Send, Vanish, Sequenced
<1>2. CASE update(u)
  <2>1. session[u] = NoSession /\ worker[u] = NoWorker
    BY <1>2 DEF update, Pair
  <2>2. \/ Goto(u, "begin") /\ worker' = [worker EXCEPT ![u].at = "start"]
        \/ Goto(u, "error") /\ worker' = worker
    BY <1>2 DEF update
  <2>3. /\ session'[u].total = 0 /\ session'[u].taken = 0 /\ ~session'[u].write_failed
        /\ session'[u].at \in {"begin", "error"}
    BY <2>1, <2>2, GotoEffect DEF NoSession
  <2>4. worker'[u].offset = 0 /\ worker'[u].at \in {"start", "none"}
    BY <2>1, <2>2 DEF TypeOK, NoWorker
  <2> QED BY <2>3, <2>4, NoneSequenced
<1>3. CASE begun(u) \/ finished(u)
  <2>1. /\ ctx' = [ctx EXCEPT ![u].done = FALSE] /\ flash' = flash
        /\ worker' = worker \/ worker' = [worker EXCEPT ![u] = NoWorker]
        /\ session[u].at \in {"begin", "finish"} /\ ctx[u].done
        /\ \E l \in {"error", "poll", "closing"} : Goto(u, l)
    BY <1>3 DEF begun, finished
  <2>2. ctx'[u].part = ctx[u].part /\ (worker'[u] = worker[u] \/ worker'[u] = NoWorker)
    BY <2>1 DEF TypeOK, Ctx
  <2>3. worker[u].at # "write"
    BY <2>1 DEF Pair
  <2>4. /\ session'[u].total = session[u].total /\ session'[u].taken = session[u].taken
        /\ session'[u].write_failed <=> session[u].write_failed
        /\ session'[u].at # "hand"
    BY <2>1, GotoEffect
  <2> QED BY <2>1, <2>2, <2>3, <2>4, GoesOn
<1>4. CASE worker_rxd(u) \/ channel_eof(u) \/ stream_error(u) \/ channel_empty(u) \/ signal_eof(u)
  <2>1. /\ worker' = worker /\ flash' = flash /\ session[u].at \in {"poll", "read", "eof"}
        /\ ctx' = ctx \/ ctx' = [ctx EXCEPT ![u].eof = TRUE, ![u].ready = TRUE]
        /\ \/ \E l \in {"eof", "poll", "finish"} : Goto(u, l)
           \/ \E k \in Int : session' = [session EXCEPT ![u].at = "read", ![u].channel = k]
    <3>1. CASE worker_rxd(u)
      <4>1. PICK k \in 1 .. client[u].sent - session[u].taken :
              session' = [session EXCEPT ![u].at = "read", ![u].channel = k]
        BY <3>1 DEF worker_rxd
      <4>2. k \in Int
        OBVIOUS
      <4> QED BY <3>1, <4>1, <4>2 DEF worker_rxd
    <3>2. CASE channel_eof(u) \/ stream_error(u) \/ channel_empty(u) \/ signal_eof(u)
      BY <3>2 DEF channel_eof, stream_error, channel_empty, signal_eof
    <3> QED BY <1>4, <3>1, <3>2
  <2>2. ctx'[u].part = ctx[u].part
    BY <2>1 DEF TypeOK, Ctx
  <2>3. worker[u].at # "write"
    BY <2>1 DEF Pair
  <2>4. ASSUME NEW k \in Int, session' = [session EXCEPT ![u].at = "read", ![u].channel = k]
        PROVE  /\ session'[u].total = session[u].total /\ session'[u].taken = session[u].taken
               /\ session'[u].write_failed <=> session[u].write_failed
               /\ session'[u].at # "hand"
    BY <2>4 DEF TypeOK, Session
  <2>5. /\ session'[u].total = session[u].total /\ session'[u].taken = session[u].taken
        /\ session'[u].write_failed <=> session[u].write_failed
        /\ session'[u].at # "hand"
    BY <2>1, <2>4, GotoEffect
  <2> QED BY <2>1, <2>2, <2>3, <2>5, GoesOn
<1>5. CASE channel_read(u)
  <2>1. /\ worker' = worker /\ flash' = flash /\ session[u].at = "read"
        /\ \/ ctx' = ctx
           \/ ctx' = [ctx EXCEPT ![u].eof = FALSE, ![u].ready = TRUE]
    BY <1>5 DEF channel_read
  <2>2. /\ session'[u].taken = session[u].taken + 1
        /\ session'[u].total = session[u].total
        /\ session'[u].buf = <<u, session[u].taken + 1>>
        /\ session'[u].write_failed <=> session[u].write_failed
        /\ session'[u].at = IF session[u].write_failed THEN "read" ELSE "hand"
    BY <1>5 DEF TypeOK, Session, channel_read
  <2>3. ctx'[u].part = ctx[u].part /\ worker[u].at = "wait"
    BY <2>1 DEF TypeOK, Ctx, Pair
  <2> QED BY <2>1, <2>2, <2>3 DEF Sequenced
<1>6. CASE handed(u)
  <2>1. /\ worker' = worker /\ flash' = flash /\ session[u].at = "hand" /\ ctx[u].done
        /\ ctx' = [ctx EXCEPT ![u].done = FALSE]
    BY <1>6 DEF handed
  <2>2. /\ session'[u].at = "read" /\ session'[u].taken = session[u].taken
        /\ session'[u].total = IF ctx[u].err THEN session[u].total ELSE session[u].total + 1
        /\ session'[u].write_failed <=> ctx[u].err \/ session[u].write_failed
    BY <1>6 DEF TypeOK, Session, handed
  <2>3. ctx'[u].part = ctx[u].part
    BY <2>1 DEF TypeOK, Ctx
  <2>4. /\ worker[u].at = "wait" /\ ~session[u].write_failed
        /\ worker[u].offset = IF ctx[u].err THEN session[u].total ELSE session[u].total + 1
    BY <2>1 DEF Pair
  <2> QED BY <2>1, <2>2, <2>3, <2>4 DEF Sequenced
<1>7. CASE leave(u)
  <2>1. session'[u] = NoSession /\ worker'[u] = NoWorker
    BY <1>7 DEF TypeOK, Pair, leave
  <2> QED BY <2>1, NoneSequenced DEF NoSession, NoWorker
<1> QED BY <1>1, <1>2, <1>3, <1>4, <1>5, <1>6, <1>7 DEF SessionOwn

LEMMA WorkerSequenced ==
  ASSUME TypeOK, NEW u \in Update, Pair(u), Sequenced(u), WorkerStep(u)
  PROVE  Sequenced(u)'
<1> USE Numbers
<1>0. session' = session
  BY DEF WorkerStep, worker_begin, worker_take, worker_copy, worker_write, worker_end,
         worker_set_boot
<1>00. session[u].at \in
         {"idle", "begin", "poll", "read", "hand", "eof", "finish", "closing", "error"}
  BY DEF TypeOK, Session
<1>1. CASE worker_begin(u)
  <2>1. session[u].at = "begin" /\ worker[u].at = "start"
    <3>1. worker[u].at = "start" /\ worker[u] # NoWorker
      BY <1>1 DEF worker_begin, NoWorker
    <3> QED BY <1>00, <3>1 DEF Pair
  <2>2. /\ session[u].total = 0 /\ ~session[u].write_failed /\ worker[u].offset = 0
        /\ session[u].taken = 0
    BY <2>1 DEF Pair, Sequenced
  <2>3. CASE /\ ctx' = [ctx EXCEPT ![u].done = TRUE, ![u].err = FALSE,
                                   ![u].part = next_update_partition]
             /\ flash' = [flash EXCEPT ![next_update_partition] = Blank]
             /\ worker' = [worker EXCEPT ![u].at = "wait"]
    <3>1. next_update_partition \in Part
      BY DEF next_update_partition, Other, Part, TypeOK, System
    <3>2. /\ ctx'[u].part = next_update_partition
          /\ worker'[u].offset = 0 /\ worker'[u].at = "wait"
      BY <2>2, <2>3 DEF TypeOK, Ctx, Worker
    <3>3. flash'[ctx'[u].part] = Blank
      BY <2>3, <3>1, <3>2 DEF TypeOK
    <3>4. \A i \in 1 .. Chunks : Blank[i] = Erased
      BY DEF Blank, Index
    <3> QED BY <1>0, <2>1, <2>2, <3>2, <3>3, <3>4 DEF Sequenced
  <2>4. CASE worker' = [worker EXCEPT ![u].at = "suspended"]
    <3>1. worker'[u].offset = 0 /\ worker'[u].at = "suspended"
      BY <2>2, <2>4 DEF TypeOK, Worker
    <3> QED BY <1>0, <2>1, <2>2, <3>1, NoneSequenced
  <2> QED BY <1>1, <2>3, <2>4 DEF worker_begin
<1>2. CASE worker_take(u) \/ worker_copy(u) \/ worker_end(u) \/ worker_set_boot(u)
  <2>1. /\ flash' = flash
        /\ ctx'[u].part = ctx[u].part
    <3>1. \/ ctx' = ctx \/ ctx' = [ctx EXCEPT ![u].ready = FALSE]
          \/ \E b \in BOOLEAN : Give(u, b)
      BY <1>2 DEF worker_take, worker_copy, worker_end, worker_set_boot
    <3>2. ctx'[u].part = ctx[u].part
      BY <3>1, GiveEffect DEF TypeOK, Ctx
    <3> QED BY <1>2, <3>2 DEF worker_take, worker_copy, worker_end, worker_set_boot
  <2>2. /\ worker'[u].offset = worker[u].offset
        /\ \/ worker'[u].at \in {"end", "set_boot", "suspended"}
           \/ worker'[u].at = "copy" /\ worker[u].at = "wait"
           \/ worker'[u].at = "write" /\ worker[u].at = "copy" /\ bounce' = session[u].buf
    <3>1. \E l \in {"end", "set_boot", "suspended", "copy", "write"} :
            /\ worker' = [worker EXCEPT ![u].at = l]
            /\ l = "copy" => worker[u].at = "wait"
            /\ l = "write" => worker[u].at = "copy" /\ bounce' = session[u].buf
      BY <1>2 DEF worker_take, worker_copy, worker_end, worker_set_boot
    <3>2. \A l : worker' = [worker EXCEPT ![u].at = l] =>
                  worker'[u].at = l /\ worker'[u].offset = worker[u].offset
      BY DEF TypeOK, Worker
    <3> QED BY <3>1, <3>2
  <2> QED BY <1>0, <2>1, <2>2 DEF Sequenced
<1>3. CASE worker_write(u)
  <2> DEFINE part == ctx[u].part
             i == worker[u].offset + 1
  <2>1. /\ worker[u].at = "write"
        /\ \/ /\ flash' = [flash EXCEPT ![part][i] = IF @ = Erased THEN bounce ELSE Mixed]
              /\ worker' = [worker EXCEPT ![u].at = "wait", ![u].offset = i]
           \/ /\ flash' = flash
              /\ worker' = [worker EXCEPT ![u].at = "wait", ![u].failed = TRUE]
        /\ \E b \in BOOLEAN : Give(u, b)
    BY <1>3 DEF worker_write
  <2>2. ctx'[u].part = part
    BY <2>1, GiveEffect
  <2>3. /\ session[u].at = "hand" /\ ~session[u].write_failed
        /\ worker[u].offset = session[u].total
        /\ session[u].taken = session[u].total + 1 /\ session[u].taken <= Chunks
    BY <2>1 DEF Pair, Sequenced, NoWorker, TypeOK, Session
  <2>4. /\ bounce = <<u, i>> /\ i \in Index /\ Chunks \in Nat
        /\ \A j \in i .. Chunks : flash[part][j] = Erased
        /\ \A j \in 1 .. worker[u].offset : flash[part][j] = <<u, j>>
    <3>1. i = session[u].taken /\ i \in Index /\ Chunks \in Nat
      BY <2>3, OtaAssumption DEF Index
    <3>2. bounce = <<u, session[u].taken>>
      BY <2>1, <2>3 DEF Sequenced
    <3>3. /\ \A j \in i .. Chunks : flash[part][j] = Erased
          /\ \A j \in 1 .. worker[u].offset : flash[part][j] = <<u, j>>
      BY <2>1 DEF Sequenced
    <3> QED BY <3>1, <3>2, <3>3
  <2>5. CASE flash' = flash /\ worker' = [worker EXCEPT ![u].at = "wait", ![u].failed = TRUE]
    <3>1. worker'[u].at = "wait" /\ worker'[u].offset = worker[u].offset
      BY <2>5 DEF TypeOK, Worker
    <3> QED BY <1>0, <2>1, <2>2, <2>5, <3>1 DEF Sequenced
  <2>6. CASE /\ flash' = [flash EXCEPT ![part][i] = IF @ = Erased THEN bounce ELSE Mixed]
             /\ worker' = [worker EXCEPT ![u].at = "wait", ![u].offset = i]
    <3>1. worker'[u].at = "wait" /\ worker'[u].offset = i
      BY <2>6 DEF TypeOK, Worker
    <3>2. part \in Part /\ flash[part] \in [Index -> Chunk]
      BY DEF TypeOK, Ctx
    <3>3. /\ flash'[part][i] = IF flash[part][i] = Erased THEN bounce ELSE Mixed
          /\ \A j \in Index : j # i => flash'[part][j] = flash[part][j]
      BY <2>4, <2>6, <3>2 DEF TypeOK
    <3>4. i \in i .. Chunks /\ flash'[part][i] = <<u, i>>
      <4>1. i \in i .. Chunks
        <5> HIDE DEF i
        <5> QED BY <2>4 DEF Index
      <4>2. flash[part][i] = Erased
        BY <2>4, <4>1
      <4>3. flash'[part][i] = bounce
        BY <3>3, <4>2
      <4> QED BY <2>4, <4>1, <4>3
    <3> HIDE DEF part, i
    <3>5. worker[u].offset = i - 1 /\ i \in Nat \ {0}
      BY DEF i
    <3>6. \A j \in 1 .. i : flash'[part][j] = <<u, j>>
      <4> SUFFICES ASSUME NEW j \in 1 .. i
                   PROVE  flash'[part][j] = <<u, j>>
        OBVIOUS
      <4>1. CASE j = i
        BY <4>1, <3>4
      <4>2. CASE j # i
        <5>1. j \in 1 .. worker[u].offset /\ j \in Index
          BY <4>2, <2>4, <3>5 DEF Index
        <5> QED BY <4>2, <5>1, <2>4, <3>3
      <4> QED BY <4>1, <4>2
    <3>7. \A j \in i + 1 .. Chunks : flash'[part][j] = Erased
      <4> SUFFICES ASSUME NEW j \in i + 1 .. Chunks
                   PROVE  flash'[part][j] = Erased
        OBVIOUS
      <4>1. j # i /\ j \in i .. Chunks /\ j \in Index
        BY <3>5, <2>4 DEF Index
      <4> QED BY <4>1, <2>4, <3>3
    <3>8. \A j \in 1 .. session[u].total : j \in 1 .. i
      BY <2>3, <3>5
    <3> QED BY <1>0, <2>2, <2>3, <3>1, <3>6, <3>7, <3>8 DEF Sequenced, part
  <2> QED BY <2>1, <2>5, <2>6
<1> QED BY <1>1, <1>2, <1>3 DEF WorkerStep

\* What a single update has counted is in the flash as its client sent it, in
\* order and each chunk once: ssh_session_task and ota_worker_task hand over
\* through one buffer, and no third one writes.
THEOREM AloneInOrder ==
  ASSUME \A u, v \in Update : u = v
  PROVE  Spec => []InOrder
<1>1. Init => AloneInv
  <2> SUFFICES ASSUME Init, NEW u \in Update
               PROVE  Sequenced(u)
    BY InitInv DEF AloneInv
  <2>1. /\ session[u] = NoSession /\ worker[u] = NoWorker
    BY DEF Init
  <2> QED BY <2>1 DEF Sequenced, NoSession, NoWorker
<1>2. AloneInv /\ [Next]_vars => AloneInv'
  <2> SUFFICES ASSUME OtaInv, [Next]_vars, NEW u \in Update, Sequenced(u)
               PROVE  Sequenced(u)'
    BY Inductive DEF AloneInv
  <2>0. TypeOK /\ Pair(u)
    BY DEF OtaInv
  <2>1. CASE \E v \in Update : OwnStep(v)
    BY <2>0, <2>1, SessionSequenced, WorkerSequenced DEF OwnStep
  <2>2. CASE Reset
    <3>1. session'[u] = NoSession /\ worker'[u] = NoWorker
      BY <2>2 DEF Reset
    <3> QED BY <3>1, NoneSequenced DEF NoSession, NoWorker
  <2>3. CASE ssh_bridge_init \/ mark_app_valid \/ UNCHANGED vars
    BY <2>3 DEF ssh_bridge_init, mark_app_valid, vars, Sequenced
  <2> QED BY <2>1, <2>2, <2>3, NextSteps
<1>3. AloneInv => InOrder
  BY DEF AloneInv, Sequenced, InOrder
<1> QED BY <1>1, <1>2, <1>3, PTL DEF Spec
===============================================================================
