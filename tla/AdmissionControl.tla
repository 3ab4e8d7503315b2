---------------------------- MODULE AdmissionControl ----------------------------
(***************************************************************************)
(* What the SSH server promises about whom it lets in (README: "Max 6      *)
(* total SSH sessions across the system").  A connection waits, is         *)
(* admitted or refused, and an admitted session leaves; never are more     *)
(* than MaxSessions admitted, and nobody waits for ever.                   *)
(***************************************************************************)
EXTENDS Naturals, FiniteSets

CONSTANTS Session, MaxSessions

VARIABLES waiting, live

avars == <<waiting, live>>

AInit == waiting = {} /\ live = {}

Arrive(s) ==
  /\ s \notin waiting \cup live
  /\ waiting' = waiting \cup {s}
  /\ UNCHANGED live

Admit(s) ==
  /\ s \in waiting
  /\ Cardinality(live) < MaxSessions
  /\ waiting' = waiting \ {s}
  /\ live' = live \cup {s}

Refuse(s) ==
  /\ s \in waiting
  /\ waiting' = waiting \ {s}
  /\ UNCHANGED live

Leave(s) ==
  /\ s \in live
  /\ live' = live \ {s}
  /\ UNCHANGED waiting

\* The device restarts: only a session can make it do so.
PowerCycle ==
  /\ live # {}
  /\ waiting' = {}
  /\ live' = {}

ANext ==
  \/ \E s \in Session : Arrive(s) \/ Admit(s) \/ Refuse(s) \/ Leave(s)
  \/ PowerCycle

ASpec == AInit /\ [][ANext]_avars

AFairSpec == ASpec /\ \A s \in Session : WF_avars(Admit(s) \/ Refuse(s))
===============================================================================
