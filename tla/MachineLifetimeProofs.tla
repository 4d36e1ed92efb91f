----------------------- MODULE MachineLifetimeProofs -----------------------
(***************************************************************************)
(* The machine has one owner, for any number of gateways and commands.     *)
(*                                                                         *)
(* It is not enough that two gateways never own the machine at once: what  *)
(* keeps the second out is the record, so the invariant is that a process  *)
(* which holds the machine is the one that the record names (Named).  A    *)
(* record is taken only from a process that is gone, which holds nothing.  *)
(*                                                                         *)
(* The runtime that the machine's gateways are started from, whose state   *)
(* is apart from theirs, follows at the end.                               *)
(***************************************************************************)
EXTENDS MachineLifetime, RuntimeInstall, TLAPS

Operations == {"none", "start", "stop", "setup"}
Places == {"idle", "glance", "lock", "observe", "start", "poll", "stop", "stopped",
           "startClear", "stopClear", "spawn", "stopEnd", "prove", "install",
           "finish", "restore"}

BootOrNone == Boots \cup {NoBoot}

CommandRecord == [op: Operations, at: Places, read: BOOLEAN, seen: BootOrNone,
                  child: BootOrNone, fresh: BOOLEAN, undo: BOOLEAN,
                  healthy: BOOLEAN, old: Versions]

(* A command has a child exactly as long as it waits for it, and one that  *)
(* is under way knows its operation.                                       *)
Command == {c \in CommandRecord :
               /\ c.child # NoBoot <=> c.at = "poll"
               /\ c.op = "none" => c.at = "idle"}

Records ==
    /\ owner \in BootOrNone /\ runtime \in BootOrNone
    /\ phase \in [Boots -> Phases] /\ bytes \in [Boots -> Versions]
    /\ aliens \subseteq Boots /\ current \in Versions /\ installs \in Versions

CommandsOK == cmd \in [Commands -> Command]

(* Whoever holds the machine is the one whom the record names.             *)
Named == \A b \in Boots : phase[b] \in Holding => owner = b

IInv == Records /\ CommandsOK /\ Named

USE LifetimeAssumption DEF LifetimeAssumption

-----------------------------------------------------------------------------
(* What becomes of the record of a command.  It has a child only in the    *)
(* state "poll", where Spawn alone leads, and every way out drops it.      *)
LEMMA ZeroIsVersion == 0 \in Versions /\ NoBoot \in BootOrNone /\ NoBoot \notin Boots
  BY DEF Versions, BootOrNone, NoBoot, Boots

LEMMA QuietIsCommand == Quiet \in Command
  BY ZeroIsVersion DEF Quiet, Command, CommandRecord, Operations, Places

(* Progress within an operation: only the place, and what is remembered    *)
(* of the observation, change.                                             *)
LEMMA MovedIsCommand ==
    ASSUME NEW c \in Command, NEW at \in Places,
           c.at # "idle", at = "poll" <=> c.at = "poll"
    PROVE  [c EXCEPT !.at = at, !.read = FALSE] \in Command
  BY DEF Command, CommandRecord

LEMMA ReadIsCommand ==
    ASSUME NEW c \in Command, NEW b \in BootOrNone
    PROVE  /\ [c EXCEPT !.seen = b, !.read = TRUE] \in Command
           /\ [c EXCEPT !.read = TRUE] \in Command
  BY DEF Command, CommandRecord

LEMMA InvokedIsCommand ==
    ASSUME NEW c \in Command, NEW op \in Operations \ {"none"},
           NEW at \in {"glance", "lock"}, c.at = "idle"
    PROVE  [c EXCEPT !.op = op, !.at = at] \in Command
  BY DEF Command, CommandRecord, Places

LEMMA RolledBackIsCommand ==
    ASSUME NEW c \in Command, NEW at \in {"stop", "restore"}, c.at # "idle"
    PROVE  [c EXCEPT !.undo = TRUE, !.read = FALSE, !.child = NoBoot,
                     !.fresh = FALSE, !.at = at] \in Command
  BY ZeroIsVersion DEF Command, CommandRecord, Places

LEMMA FinishedIsCommand ==
    ASSUME NEW c \in Command, c.at # "idle"
    PROVE  [c EXCEPT !.at = "finish", !.read = FALSE, !.child = NoBoot] \in Command
  BY ZeroIsVersion DEF Command, CommandRecord, Places

LEMMA SpawnedIsCommand ==
    ASSUME NEW c \in Command, NEW b \in Boots, c.at # "idle"
    PROVE  [c EXCEPT !.child = b, !.at = "poll"] \in Command
  BY ZeroIsVersion DEF Command, CommandRecord, Places, BootOrNone

LEMMA PreparedIsCommand ==
    ASSUME NEW c \in Command, c.at \notin {"idle", "poll"}, NEW h \in BOOLEAN, NEW v \in Versions,
           NEW at \in {"stop", "start"}
    PROVE  /\ [c EXCEPT !.at = "install", !.read = FALSE, !.healthy = h, !.old = v]
                 \in Command
           /\ [c EXCEPT !.fresh = TRUE, !.at = at] \in Command
  BY DEF Command, CommandRecord, Places

-----------------------------------------------------------------------------
(* The endings of a start and of a stop, and the moves between places.     *)
LEMMA MovesKeep ==
    ASSUME CommandsOK, NEW c \in Commands, NEW at \in Places,
           cmd[c].at # "idle", at = "poll" <=> cmd[c].at = "poll", Moves(c, at)
    PROVE  CommandsOK'
  BY MovedIsCommand DEF CommandsOK, Moves

LEMMA RollsBackKeeps ==
    ASSUME CommandsOK, NEW c \in Commands, NEW tried \in BOOLEAN,
           cmd[c].at # "idle", RollsBack(c, tried)
    PROVE  CommandsOK'
  <1>1. PICK at \in {"stop", "restore"} :
           cmd' = [cmd EXCEPT ![c] = [cmd[c] EXCEPT !.undo = TRUE, !.read = FALSE,
                                       !.child = NoBoot, !.fresh = FALSE, !.at = at]]
    BY DEF RollsBack
  <1> QED  BY <1>1, RolledBackIsCommand DEF CommandsOK

LEMMA QuietKeeps ==
    ASSUME CommandsOK, NEW c \in Commands, cmd' = [cmd EXCEPT ![c] = Quiet]
    PROVE  CommandsOK'
  BY QuietIsCommand DEF CommandsOK

LEMMA StartEndsKeeps ==
    ASSUME CommandsOK, NEW c \in Commands, NEW ok \in BOOLEAN,
           cmd[c].at # "idle", StartEnds(c, ok)
    PROVE  CommandsOK'
  <1>1. CASE cmd' = [cmd EXCEPT ![c] = Quiet]
    BY <1>1, QuietKeeps
  <1>2. CASE cmd' = [cmd EXCEPT ![c].at = "finish", ![c].read = FALSE,
                                ![c].child = NoBoot]
    BY <1>2, FinishedIsCommand DEF CommandsOK
  <1>3. CASE RollsBack(c, TRUE)
    BY <1>3, RollsBackKeeps
  <1> QED  BY <1>1, <1>2, <1>3 DEF StartEnds

LEMMA StopEndsKeeps ==
    ASSUME CommandsOK, NEW c \in Commands, NEW ok \in BOOLEAN,
           cmd[c].at \notin {"idle", "poll"}, StopEnds(c, ok)
    PROVE  CommandsOK'
  <1>1. CASE cmd' = [cmd EXCEPT ![c] = Quiet]
    BY <1>1, QuietKeeps
  <1>2. CASE Moves(c, "restore") \/ Moves(c, "start")
    BY <1>2, MovesKeep DEF Places
  <1>3. CASE RollsBack(c, FALSE)
    BY <1>3, RollsBackKeeps
  <1> QED  BY <1>1, <1>2, <1>3 DEF StopEnds

-----------------------------------------------------------------------------
(* A gateway claims the machine from nobody who holds it.                  *)
LEMMA GatewayKeeps ==
    ASSUME IInv, NEW b \in Boots, GatewayStep(b)
    PROVE  IInv'
  <1> USE DEF IInv, Records, Named, Boot, Phases, Holding
  <1>1. CommandsOK'
    BY DEF GatewayStep, Acquire, AcquireRefused, Listen, ListenFails, Publish, PublishFails,
           Shutdown, ReadOwn, ClearOwn, Release, GatewayDies, Recycle, CommandsOK
  <1>2. CASE Acquire(b)
    <2>1. \A d \in Boots : phase[d] \notin Holding
      BY <1>2, ZeroIsVersion DEF Acquire, MayClaim, Lives
    <2> QED  BY <1>1, <1>2, <2>1 DEF Acquire, BootOrNone
  <1>3. CASE AcquireRefused(b)
    BY <1>1, <1>3 DEF AcquireRefused
  <1>4. CASE Listen(b)
    BY <1>1, <1>4 DEF Listen
  <1>5. CASE ListenFails(b)
    BY <1>1, <1>5, ZeroIsVersion DEF ListenFails
  <1>6. CASE Publish(b)
    BY <1>1, <1>6 DEF Publish, BootOrNone
  <1>7. CASE Shutdown(b)
    BY <1>1, <1>7 DEF Shutdown
  <1>8. CASE ReadOwn(b)
    BY <1>1, <1>8 DEF ReadOwn
  <1>9. CASE ClearOwn(b)
    BY <1>1, <1>9, ZeroIsVersion DEF ClearOwn
  <1>10. CASE Release(b)
    BY <1>1, <1>10, ZeroIsVersion DEF Release
  <1>11. CASE GatewayDies(b)
    BY <1>1, <1>11 DEF GatewayDies
  <1>12. CASE Recycle(b)
    BY <1>1, <1>12 DEF Recycle
  <1>13. CASE PublishFails(b)
    BY <1>1, <1>13 DEF PublishFails
  <1> QED  BY <1>2, <1>3, <1>4, <1>5, <1>6, <1>7, <1>8, <1>9, <1>10, <1>11, <1>12,
              <1>13
           DEF GatewayStep

(* A signal lets no gateway claim anything.                                *)
LEMMA SignalKeeps ==
    ASSUME Records, Named, NEW b \in BootOrNone, Signal(b),
           UNCHANGED <<owner, runtime, bytes, current, installs>>
    PROVE  Records' /\ Named'
  <1> USE DEF Records, Named, Signal, Phases, Holding
  <1>1. CASE ~Lives(b)
    BY <1>1
  <1>2. CASE Lives(b)
    <2>1. b \in Boots
      BY <1>2 DEF Lives, BootOrNone
    <2>2. phase' = [phase EXCEPT ![b] = IF phase[b] = "up" THEN "closing" ELSE "gone"]
      BY <1>2
    <2> QED  BY <2>1, <2>2
  <1> QED  BY <1>1, <1>2

-----------------------------------------------------------------------------
(* What commands do, but for starting and stopping a process.              *)
LEMMA StayingKeeps ==
    ASSUME Records, Named, Stays
    PROVE  Records' /\ Named'
  BY DEF Records, Named, Stays, gatewayVars

LEMMA ObservingKeeps ==
    ASSUME IInv, NEW c \in Commands,
           \/ \E op \in {"start", "stop", "setup"} : Invoke(c, op)
           \/ ReadRuntime(c) \/ Glance(c) \/ TakeLock(c) \/ GiveUpLock(c)
           \/ CheckRuntime(c) \/ RemoveRuntime(c)
    PROVE  IInv'
  <1> USE DEF IInv
  <1>0. cmd[c] \in Command /\ cmd[c].op \in Operations
    BY DEF CommandsOK, Command, CommandRecord
  <1>1. CASE \E op \in {"start", "stop", "setup"} : Invoke(c, op)
    <2>1. PICK op \in {"start", "stop", "setup"} : Invoke(c, op)
      BY <1>1
    <2>2. PICK at \in {"glance", "lock"} :
             cmd' = [cmd EXCEPT ![c] = [cmd[c] EXCEPT !.op = op, !.at = at]]
      BY <2>1 DEF Invoke
    <2>3. op \in Operations \ {"none"} /\ cmd[c].at = "idle"
      BY <2>1 DEF Invoke, Operations
    <2>4. [cmd[c] EXCEPT !.op = op, !.at = at] \in Command
      BY <1>0, <2>3, InvokedIsCommand
    <2>5. CommandsOK'
      BY <2>2, <2>4 DEF CommandsOK
    <2> QED  BY <2>1, <2>5, StayingKeeps DEF Invoke
  <1>2. CASE ReadRuntime(c)
    <2>1. CommandsOK'
      BY <1>0, <1>2, ReadIsCommand DEF ReadRuntime, CommandsOK, Records
    <2> QED  BY <1>2, <2>1 DEF ReadRuntime, Records, Named, gatewayVars
  <1>3. CASE Glance(c) \/ GiveUpLock(c)
    <2>1. CASE cmd' = [cmd EXCEPT ![c] = Quiet]
      BY <1>3, <2>1, QuietKeeps, StayingKeeps DEF Glance, GiveUpLock
    <2>2. CASE Moves(c, "lock") /\ cmd[c].at = "glance"
      BY <1>3, <2>2, MovesKeep, StayingKeeps DEF Glance, GiveUpLock, Places
    <2> QED  BY <1>3, <2>1, <2>2 DEF Glance, GiveUpLock, Observed
  <1>4. CASE TakeLock(c)
    <2>1. cmd[c].op \in {"start", "stop", "setup"}
      BY <1>0, <1>4 DEF TakeLock, Command, Operations
    <2>2. PICK at \in {"observe", "start", "stop", "setup"} : Moves(c, at) /\ at # "setup"
      BY <1>4, <2>1 DEF TakeLock
    <2>3. CommandsOK'
      BY <1>4, <2>2, MovesKeep DEF TakeLock, Places
    <2> QED  BY <1>4, <2>3, StayingKeeps DEF TakeLock
  <1>5. CASE CheckRuntime(c) \/ RemoveRuntime(c)
    <2>1. Clearing[cmd[c].at] \in Places \ {"poll"} /\ cmd[c].at \notin {"idle", "poll"}
      BY <1>5 DEF CheckRuntime, RemoveRuntime, Clearing, Places
    <2>2. CASE Moves(c, Clearing[cmd[c].at])
      <3>1. CommandsOK'
        BY <2>1, <2>2, MovesKeep
      <3> QED  BY <1>5, <3>1, ZeroIsVersion, StayingKeeps
               DEF CheckRuntime, RemoveRuntime, Records, Named
    <2>3. CASE cmd' = [cmd EXCEPT ![c].read = TRUE] /\ Stays
      BY <1>0, <2>3, ReadIsCommand, StayingKeeps, ZeroIsVersion DEF CommandsOK
    <2> QED  BY <1>5, <2>2, <2>3 DEF CheckRuntime, RemoveRuntime
  <1> QED  BY <1>1, <1>2, <1>3, <1>4, <1>5

(* What commands do to start, to stop and to set up.                       *)
LEMMA ActingKeeps ==
    ASSUME IInv, NEW c \in Commands,
           \/ StartJudged(c) \/ (\E b \in Boots : Spawn(c, b)) \/ SpawnFails(c)
           \/ PollJudged(c) \/ PollTimesOut(c)
           \/ StopJudged(c) \/ Terminate(c) \/ StopRefused(c) \/ StoppedJudged(c)
           \/ StopDone(c)
    PROVE  IInv'
  <1> USE DEF IInv
  <1>0. /\ cmd[c] \in Command /\ cmd[c].seen \in BootOrNone
        /\ cmd[c].child \in BootOrNone
    BY DEF CommandsOK, Command, CommandRecord
  <1>1. CASE StartJudged(c)
    <2>1. cmd[c].at = "start" /\ Stays
      BY <1>1 DEF StartJudged, Observed
    <2>2. CASE \E ok \in BOOLEAN : StartEnds(c, ok)
      BY <2>1, <2>2, StartEndsKeeps, StayingKeeps
    <2>3. CASE \E at \in {"spawn", "startClear"} : Moves(c, at)
      BY <2>1, <2>3, MovesKeep, StayingKeeps DEF Places
    <2>4. cmd[c].fresh \in BOOLEAN
      BY <1>0 DEF Command, CommandRecord
    <2> QED  BY <1>1, <2>2, <2>3, <2>4 DEF StartJudged, AfterStopped
  <1>2. CASE \E b \in Boots : Spawn(c, b)
    <2>1. PICK b \in Boots : Spawn(c, b)
      BY <1>2
    <2>2. [cmd[c] EXCEPT !.child = b, !.at = "poll"] \in Command
      BY <1>0, <2>1, SpawnedIsCommand DEF Spawn
    <2>3. CommandsOK'
      BY <2>1, <2>2 DEF Spawn, CommandsOK
    <2>4. Records' /\ Named'
      BY <2>1 DEF Spawn, Boot, Records, Named, Phases, Holding
    <2> QED  BY <2>3, <2>4
  <1>3. CASE PollJudged(c)
    <2>1. cmd[c].at = "poll" /\ Stays
      BY <1>3 DEF PollJudged, Observed
    <2>2. CASE \E ok \in BOOLEAN : StartEnds(c, ok)
      BY <2>1, <2>2, StartEndsKeeps, StayingKeeps
    <2>3. CASE Moves(c, "poll")
      BY <2>1, <2>3, MovesKeep, StayingKeeps DEF Places
    <2> QED  BY <1>3, <2>2, <2>3 DEF PollJudged
  <1>4. CASE PollTimesOut(c)
    <2>1. cmd[c].at = "poll" /\ StartEnds(c, FALSE) /\ Signal(cmd[c].child)
      BY <1>4 DEF PollTimesOut, Observed
    <2> QED  BY <1>0, <1>4, <2>1, StartEndsKeeps, SignalKeeps DEF PollTimesOut
  <1>5. CASE StopJudged(c) \/ StoppedJudged(c)
    <2>1. cmd[c].at \in {"stop", "stopped"} /\ Stays
      BY <1>5 DEF StopJudged, StoppedJudged, Observed
    <2>2. CASE StopEnds(c, FALSE)
      BY <2>1, <2>2, StopEndsKeeps, StayingKeeps
    <2>3. CASE \E at \in {"stopClear", "stopEnd", "prove", "stopped"} : Moves(c, at)
      BY <2>1, <2>3, MovesKeep, StayingKeeps DEF Places
    <2> QED  BY <1>5, <2>2, <2>3 DEF StopJudged, StoppedJudged, AfterStopped
  <1>6. CASE Terminate(c)
    <2>1. CommandsOK'
      BY <1>6, MovesKeep DEF Terminate, Places
    <2> QED  BY <1>0, <1>6, <2>1, SignalKeeps DEF Terminate
  <1>7. CASE StopRefused(c) \/ StopDone(c)
    <2>1. cmd[c].at \in {"prove", "stopEnd"} /\ Stays
      BY <1>7 DEF StopRefused, StopDone
    <2> QED  BY <1>7, <2>1, StopEndsKeeps, StayingKeeps DEF StopRefused, StopDone
  <1>8. CASE SpawnFails(c)
    BY <1>8, StartEndsKeeps, StayingKeeps DEF SpawnFails
  <1> QED  BY <1>1, <1>2, <1>3, <1>4, <1>5, <1>6, <1>7, <1>8

LEMMA SetupKeeps ==
    ASSUME IInv, NEW c \in Commands,
           \/ SetupObserved(c) \/ Install(c) \/ KeepInstalled(c) \/ InstallFails(c)
           \/ PrepareFails(c) \/ Finished(c) \/ Restore(c) \/ CommandDies(c)
    PROVE  IInv'
  <1> USE DEF IInv
  <1>0. cmd[c] \in Command /\ cmd[c].old \in Versions
    BY DEF CommandsOK, Command, CommandRecord
  <1>1. CASE SetupObserved(c)
    <2>1. PICK h \in BOOLEAN :
             cmd' = [cmd EXCEPT ![c] = [cmd[c] EXCEPT !.at = "install", !.read = FALSE,
                                         !.healthy = h, !.old = current]]
      BY <1>1 DEF SetupObserved
    <2>2. cmd[c].at = "observe" /\ current \in Versions
      BY <1>1 DEF SetupObserved, Observed, Records
    <2>3. [cmd[c] EXCEPT !.at = "install", !.read = FALSE, !.healthy = h,
                         !.old = current] \in Command
      BY <1>0, <2>2, PreparedIsCommand
    <2>4. CommandsOK'
      BY <2>1, <2>3 DEF CommandsOK
    <2> QED  BY <1>1, <2>4, StayingKeeps DEF SetupObserved
  <1>2. CASE Install(c)
    <2>1. PICK at \in {"stop", "start"} :
             cmd' = [cmd EXCEPT ![c] = [cmd[c] EXCEPT !.fresh = TRUE, !.at = at]]
      BY <1>2 DEF Install
    <2>2. [cmd[c] EXCEPT !.fresh = TRUE, !.at = at] \in Command
      BY <1>0, <1>2, ZeroIsVersion, PreparedIsCommand DEF Install
    <2>3. CommandsOK'
      BY <2>1, <2>2 DEF CommandsOK
    <2>4. installs + 1 \in Versions
      BY <1>2 DEF Install, Records, Versions
    <2>5. Records' /\ Named'
      BY <1>2, <2>4 DEF Install, Records, Named, gatewayVars
    <2> QED  BY <2>3, <2>5
  <1>3. CASE KeepInstalled(c)
    BY <1>3, MovesKeep, StayingKeeps DEF KeepInstalled, Places
  <1>4. CASE InstallFails(c) \/ PrepareFails(c)
    <2>1. cmd[c].at # "idle" /\ RollsBack(c, FALSE) /\ Stays
      BY <1>4 DEF InstallFails, PrepareFails
    <2> QED  BY <2>1, RollsBackKeeps, StayingKeeps
  <1>5. CASE Finished(c)
    BY <1>5, QuietKeeps, RollsBackKeeps, StayingKeeps DEF Finished
  <1>6. CASE Restore(c)
    <2>1. CommandsOK'
      BY <1>6, MovesKeep, QuietKeeps DEF Restore, Places
    <2>2. Records' /\ Named'
      BY <1>0, <1>6 DEF Restore, Records, Named, gatewayVars
    <2> QED  BY <2>1, <2>2
  <1>7. CASE CommandDies(c)
    BY <1>7, QuietKeeps, StayingKeeps DEF CommandDies
  <1> QED  BY <1>1, <1>2, <1>3, <1>4, <1>5, <1>6, <1>7

(* The invariant holds in every state of the machine.                      *)
THEOREM LifetimeInvariant == LifetimeSpec => []IInv
  <1>1. LifetimeInit => IInv
    <2> SUFFICES ASSUME LifetimeInit PROVE IInv
      OBVIOUS
    <2>1. CommandsOK
      BY QuietIsCommand DEF LifetimeInit, CommandsOK
    <2>2. Records /\ Named
      BY ZeroIsVersion DEF LifetimeInit, Records, Named, Phases, Holding
    <2> QED  BY <2>1, <2>2 DEF IInv
  <1>2. IInv /\ [LifetimeNext]_lifetimeVars => IInv'
    <2> SUFFICES ASSUME IInv, [LifetimeNext]_lifetimeVars PROVE IInv'
      OBVIOUS
    <2>1. CASE UNCHANGED lifetimeVars
      BY <2>1 DEF lifetimeVars, IInv, Records, CommandsOK, Named
    <2>2. CASE \E b \in Boots : GatewayStep(b)
      BY <2>2, GatewayKeeps
    <2>3. CASE \E c \in Commands : CommandStep(c)
      BY <2>3, ObservingKeeps, ActingKeeps, SetupKeeps DEF CommandStep
    <2> QED  BY <2>1, <2>2, <2>3 DEF LifetimeNext
  <1> QED  BY <1>1, <1>2, PTL DEF LifetimeSpec

(* One process owns the machine, from its claim to its release, whatever   *)
(* crashed before it and whoever starts, stops or sets up beside it.       *)
THEOREM LifetimeTheorem == LifetimeSpec => []LifetimeInv
  <1>1. IInv => LifetimeTypeOK
    BY DEF IInv, Records, CommandsOK, Command, BootOrNone, LifetimeTypeOK
  <1>2. IInv => OneOwner
    BY DEF IInv, Named, OneOwner
  <1> QED  BY LifetimeInvariant, <1>1, <1>2, PTL DEF LifetimeInv

-----------------------------------------------------------------------------
(* What a step may not do.  A record that a command removes was of a boot  *)
(* that is gone, and stays so: a boot once recorded never starts again.    *)
(* A process that a stop signals answers as a gateway, so that nobody else *)
(* has its pid; one that a start signals has the pid of its child.         *)
Cleared == DOMAIN Clearing

AliensAreGone == \A b \in aliens : phase[b] = "gone"
SeenHasStarted ==
    /\ runtime # NoBoot => phase[runtime] # "none"
    /\ \A c \in Commands : cmd[c].seen # NoBoot => phase[cmd[c].seen] # "none"
ClearedIsGone == \A c \in Commands : cmd[c].at \in Cleared => ~Lives(cmd[c].seen)

StepInv == AliensAreGone /\ SeenHasStarted /\ ClearedIsGone

(* A boot that was started was started, and one that is gone is gone.      *)
PhasesAdvance ==
    \A b \in Boots : /\ phase[b] = "gone" => phase'[b] = "gone"
                     /\ phase[b] # "none" => phase'[b] # "none"

(* What a step of a command makes of its record, unless it starts a boot   *)
RecordMoves(c) ==
    /\ \A d \in Commands \ {c} : cmd'[d] = cmd[d]
    /\ cmd'[c].child \in {NoBoot, cmd[c].child}
    /\ cmd'[c].seen \in {NoBoot, cmd[c].seen, runtime}
    /\ cmd'[c].at \in Cleared =>
          cmd'[c].seen = cmd[c].seen /\ ~Lives(cmd[c].seen)

LEMMA ClearedPlaces == Cleared = {"startClear", "stopClear"}
  BY DEF Cleared, Clearing

LEMMA MovesRecord ==
    ASSUME CommandsOK, NEW c \in Commands, NEW at, Moves(c, at),
           at \in Cleared => ~Lives(cmd[c].seen)
    PROVE  RecordMoves(c)
  BY DEF CommandsOK, Command, CommandRecord, Moves, RecordMoves

LEMMA QuietRecord ==
    ASSUME CommandsOK, NEW c \in Commands, cmd' = [cmd EXCEPT ![c] = Quiet]
    PROVE  RecordMoves(c)
  BY ClearedPlaces DEF CommandsOK, RecordMoves, Quiet

LEMMA RollsBackRecord ==
    ASSUME CommandsOK, NEW c \in Commands, NEW tried \in BOOLEAN, RollsBack(c, tried)
    PROVE  RecordMoves(c)
  <1>1. PICK at \in {"stop", "restore"} :
           cmd' = [cmd EXCEPT ![c] = [cmd[c] EXCEPT !.undo = TRUE, !.read = FALSE,
                                       !.child = NoBoot, !.fresh = FALSE, !.at = at]]
    BY DEF RollsBack
  <1> QED  BY <1>1, ClearedPlaces DEF CommandsOK, Command, CommandRecord, RecordMoves

LEMMA StartEndsRecord ==
    ASSUME CommandsOK, NEW c \in Commands, NEW ok \in BOOLEAN, StartEnds(c, ok)
    PROVE  RecordMoves(c)
  <1>1. CASE cmd' = [cmd EXCEPT ![c].at = "finish", ![c].read = FALSE,
                                ![c].child = NoBoot]
    BY <1>1, ClearedPlaces DEF CommandsOK, Command, CommandRecord, RecordMoves
  <1> QED  BY <1>1, QuietRecord, RollsBackRecord DEF StartEnds

LEMMA StopEndsRecord ==
    ASSUME CommandsOK, NEW c \in Commands, NEW ok \in BOOLEAN, StopEnds(c, ok)
    PROVE  RecordMoves(c)
  BY QuietRecord, MovesRecord, RollsBackRecord, ClearedPlaces DEF StopEnds

(* A command judges, moves on and ends.                                    *)
LEMMA CommandRecords ==
    ASSUME IInv, StepInv, NEW c \in Commands, CommandStep(c),
           \A b \in Boots : ~Spawn(c, b)
    PROVE  RecordMoves(c)
  <1> USE DEF IInv
  <1>0. cmd[c] \in Command
    BY DEF CommandsOK
  <1>1. CASE \/ \E op \in {"start", "stop", "setup"} : Invoke(c, op)
             \/ ReadRuntime(c) \/ SetupObserved(c) \/ Install(c)
    <2>1. cmd[c].at \notin Cleared
      BY <1>1, ClearedPlaces DEF Invoke, ReadRuntime, Observing, SetupObserved, Observed,
                                 Install
    <2>2. CASE \E op \in {"start", "stop", "setup"} : Invoke(c, op)
      <3>1. PICK op \in {"start", "stop", "setup"}, at \in {"glance", "lock"} :
               cmd' = [cmd EXCEPT ![c] = [cmd[c] EXCEPT !.op = op, !.at = at]]
        BY <2>2 DEF Invoke
      <3> QED  BY <1>0, <3>1, ClearedPlaces DEF CommandsOK, Command, CommandRecord,
                                                RecordMoves
    <2>3. CASE ReadRuntime(c)
      BY <1>0, <2>1, <2>3 DEF ReadRuntime, CommandsOK, Command, CommandRecord, RecordMoves
    <2>4. CASE SetupObserved(c)
      <3>1. PICK h \in BOOLEAN :
               cmd' = [cmd EXCEPT ![c] = [cmd[c] EXCEPT !.at = "install", !.read = FALSE,
                                           !.healthy = h, !.old = current]]
        BY <2>4 DEF SetupObserved
      <3> QED  BY <1>0, <3>1, ClearedPlaces DEF CommandsOK, Command, CommandRecord,
                                                RecordMoves
    <2>5. CASE Install(c)
      <3>1. PICK at \in {"stop", "start"} :
               cmd' = [cmd EXCEPT ![c] = [cmd[c] EXCEPT !.fresh = TRUE, !.at = at]]
        BY <2>5 DEF Install
      <3> QED  BY <1>0, <3>1, ClearedPlaces DEF CommandsOK, Command, CommandRecord,
                                                RecordMoves
    <2> QED  BY <1>1, <2>2, <2>3, <2>4, <2>5
  <1>2. CASE \/ Glance(c) \/ TakeLock(c) \/ GiveUpLock(c)
             \/ KeepInstalled(c) \/ InstallFails(c) \/ PrepareFails(c)
             \/ Finished(c) \/ Restore(c) \/ CommandDies(c)
    <2>1. \/ cmd' = [cmd EXCEPT ![c] = Quiet]
          \/ \E tried \in BOOLEAN : RollsBack(c, tried)
          \/ \E at \in {"lock", "observe", "start"} : Moves(c, at)
          \/ TakeLock(c)
      BY <1>2 DEF Glance, GiveUpLock, KeepInstalled, InstallFails, PrepareFails,
                  Finished, Restore, CommandDies
    <2>2. CASE TakeLock(c)
      <3>1. Moves(c, IF cmd[c].op = "setup" THEN "observe" ELSE cmd[c].op)
            /\ cmd[c].op \in Operations
        BY <1>0, <2>2 DEF TakeLock, Command, CommandRecord
      <3> QED  BY <3>1, MovesRecord, ClearedPlaces DEF Operations
    <2> QED  BY <2>1, <2>2, QuietRecord, RollsBackRecord, MovesRecord, ClearedPlaces
  <1>3. CASE CheckRuntime(c) \/ RemoveRuntime(c)
    <2>1. cmd[c].at \in Cleared /\ ~Lives(cmd[c].seen)
      BY <1>3 DEF CheckRuntime, RemoveRuntime, Cleared, StepInv, ClearedIsGone
    <2>2. CASE cmd' = [cmd EXCEPT ![c].read = TRUE]
      BY <1>0, <2>1, <2>2 DEF CommandsOK, Command, CommandRecord, RecordMoves
    <2> QED  BY <1>3, <2>1, <2>2, MovesRecord DEF CheckRuntime, RemoveRuntime
  <1>4. CASE StartJudged(c) \/ SpawnFails(c) \/ PollJudged(c) \/ PollTimesOut(c)
    <2>1. cmd[c].fresh \in BOOLEAN
      BY <1>0 DEF Command, CommandRecord
    <2>2. \/ \E ok \in BOOLEAN : StartEnds(c, ok)
          \/ \E at \in {"spawn", "poll"} : Moves(c, at)
          \/ Moves(c, "startClear") /\ Observed(c, "start", "stopped")
      BY <1>4, <2>1 DEF StartJudged, SpawnFails, AfterStopped, PollJudged, PollTimesOut
    <2> QED  BY <2>2, StartEndsRecord, MovesRecord, ClearedPlaces DEF Observed, Says
  <1>5. CASE \/ StopJudged(c) \/ Terminate(c) \/ StopRefused(c) \/ StoppedJudged(c)
             \/ StopDone(c)
    <2>1. \/ \E ok \in BOOLEAN : StopEnds(c, ok)
          \/ \E at \in {"stopEnd", "prove", "stopped"} : Moves(c, at)
          \/ Moves(c, "stopClear") /\ \E at : Observed(c, at, "stopped")
      BY <1>5 DEF StopJudged, Terminate, StopRefused, StoppedJudged, StopDone, AfterStopped
    <2> QED  BY <2>1, StopEndsRecord, MovesRecord, ClearedPlaces DEF Observed, Says
  <1> QED  BY <1>1, <1>2, <1>3, <1>4, <1>5 DEF CommandStep

(* A record that moves as it should leaves the rest as it was.             *)
LEMMA RecordMovesKeeps ==
    ASSUME IInv, StepInv, NEW c \in Commands, RecordMoves(c), PhasesAdvance,
           aliens' \subseteq aliens, runtime' \in {NoBoot, runtime}
    PROVE  StepInv'
  <1> USE DEF IInv, StepInv, RecordMoves, PhasesAdvance
  <1>0. /\ aliens \subseteq Boots /\ runtime \in Boots \cup {NoBoot} /\ NoBoot \notin Boots
        /\ \A d \in Commands : cmd[d].seen \in Boots \cup {NoBoot}
    BY ZeroIsVersion DEF Records, CommandsOK, Command, CommandRecord, BootOrNone
  <1>1. AliensAreGone'
    BY <1>0 DEF AliensAreGone
  <1>2. SeenHasStarted'
    BY <1>0 DEF SeenHasStarted
  <1>3. ClearedIsGone'
    <2>1. \A d \in Commands : cmd'[d].at \in Cleared =>
             cmd'[d].seen = cmd[d].seen /\ ~Lives(cmd[d].seen)
      BY DEF ClearedIsGone
    <2>2. \A d \in Commands : ~Lives(cmd[d].seen) =>
             cmd[d].seen = NoBoot \/ phase'[cmd[d].seen] \in {"none", "gone"}
      BY <1>0 DEF SeenHasStarted, Lives
    <2> QED  BY <2>1, <2>2 DEF ClearedIsGone, Lives
  <1> QED  BY <1>1, <1>2, <1>3

(* Whoever is sent a signal goes on to be gone.                            *)
LEMMA SignalEnds ==
    ASSUME IInv, NEW b \in BootOrNone, Signal(b)
    PROVE  PhasesAdvance /\ aliens' = aliens \ {b}
  <1>1. aliens' = aliens \ {b}
    BY DEF Signal
  <1>2. PhasesAdvance
    BY DEF Signal, PhasesAdvance, Lives, IInv, Records
  <1> QED  BY <1>1, <1>2

(* A start that fails waits for no child any more.                         *)
LEMMA FailedStartLeaves ==
    ASSUME IInv, NEW c \in Commands, StartEnds(c, FALSE)
    PROVE  cmd'[c].at # "poll"
  <1>1. cmd[c] \in CommandRecord /\ cmd \in [Commands -> Command]
    BY DEF IInv, CommandsOK, Command
  <1>2. CASE cmd' = [cmd EXCEPT ![c] = Quiet]
    BY <1>1, <1>2 DEF Quiet
  <1>3. CASE RollsBack(c, TRUE)
    <2>1. cmd' = [cmd EXCEPT ![c] = [cmd[c] EXCEPT !.undo = TRUE, !.read = FALSE,
                                !.child = NoBoot, !.fresh = FALSE, !.at = "stop"]]
      BY <1>3 DEF RollsBack
    <2> QED  BY <1>1, <2>1 DEF CommandRecord
  <1> QED  BY <1>2, <1>3 DEF StartEnds

(* What a step of a command may signal: its own child's pid, when it gives *)
(* the start up                                                            *)
SparesAliens(c) ==
    /\ aliens' \subseteq aliens
    /\ \A b \in aliens \ aliens' :
          cmd[c].at = "poll" /\ cmd[c].child = b /\ cmd'[c].at # "poll"

LEMMA SignalsAreOwn ==
    ASSUME IInv, StepInv, NEW c \in Commands, PollTimesOut(c) \/ Terminate(c)
    PROVE  PhasesAdvance /\ SparesAliens(c)
  <1>1. cmd[c].child \in BootOrNone /\ cmd[c].seen \in BootOrNone
    BY DEF IInv, CommandsOK, Command, CommandRecord
  <1>2. CASE PollTimesOut(c)
    <2>1. cmd[c].at = "poll" /\ Signal(cmd[c].child) /\ StartEnds(c, FALSE)
      BY <1>2 DEF PollTimesOut, Observed
    <2>2. cmd'[c].at # "poll"
      BY <2>1, FailedStartLeaves
    <2> QED  BY <1>1, <2>1, <2>2, SignalEnds DEF SparesAliens
  <1>3. CASE Terminate(c)
    <2>1. cmd[c].seen \notin aliens
      BY <1>3 DEF Terminate, Proven, Answers, StepInv, AliensAreGone
    <2> QED  BY <1>1, <1>3, <2>1, SignalEnds DEF Terminate, SparesAliens
  <1> QED  BY <1>2, <1>3

LEMMA CommandStepInv ==
    ASSUME IInv, StepInv, NEW c \in Commands, CommandStep(c)
    PROVE  StepInv' /\ SparesAliens(c)
  <1>1. CASE \E b \in Boots : Spawn(c, b)
    <2>1. PICK b \in Boots : Spawn(c, b)
      BY <1>1
    <2>2. b \notin aliens /\ PhasesAdvance /\ \A d \in Boots \ {b} : phase'[d] = phase[d]
      BY <2>1 DEF Spawn, Boot, StepInv, AliensAreGone, PhasesAdvance, IInv, Records
    <2>3. \A d \in Commands :
             /\ cmd'[d].seen = cmd[d].seen
             /\ cmd'[d].at \in Cleared => cmd[d].at \in Cleared
      BY <2>1, ClearedPlaces DEF Spawn, IInv, CommandsOK, Command, CommandRecord
    <2>4. UNCHANGED <<aliens, runtime>> /\ aliens \subseteq Boots
      BY <2>1 DEF Spawn, IInv, Records
    <2>5. \A d \in Commands : cmd[d].seen \in Boots \cup {NoBoot}
      BY DEF IInv, CommandsOK, Command, CommandRecord, BootOrNone
    <2>6. AliensAreGone' /\ SeenHasStarted'
      BY <2>2, <2>3, <2>4, <2>5
         DEF StepInv, AliensAreGone, SeenHasStarted, PhasesAdvance,
             IInv, Records, BootOrNone
    <2>7. ClearedIsGone'
      BY <2>2, <2>3, <2>5
         DEF StepInv, ClearedIsGone, SeenHasStarted, PhasesAdvance, Lives
    <2> QED  BY <2>4, <2>6, <2>7 DEF StepInv, SparesAliens
  <1>2. CASE \A b \in Boots : ~Spawn(c, b)
    <2>1. RecordMoves(c)
      BY <1>2, CommandRecords
    <2>2. CASE PollTimesOut(c) \/ Terminate(c)
      <3>1. PhasesAdvance /\ SparesAliens(c) /\ runtime' = runtime
        BY <2>2, SignalsAreOwn DEF PollTimesOut, Terminate
      <3> QED  BY <2>1, <3>1, RecordMovesKeeps DEF SparesAliens
    <2>3. CASE UNCHANGED <<phase, aliens>> /\ runtime' \in {NoBoot, runtime}
      <3>1. SparesAliens(c)
        BY <2>3 DEF SparesAliens
      <3> QED  BY <2>1, <2>3, <3>1, RecordMovesKeeps DEF PhasesAdvance
    <2> QED  BY <1>2, <2>2, <2>3
             DEF CommandStep, Stays, gatewayVars, Invoke, ReadRuntime, Glance, TakeLock,
                 GiveUpLock, CheckRuntime, RemoveRuntime, StartJudged, SpawnFails,
                 PollJudged, StopJudged, StopRefused, StoppedJudged, StopDone,
                 SetupObserved, Install, KeepInstalled, InstallFails, PrepareFails,
                 Finished, Restore, CommandDies
  <1> QED  BY <1>1, <1>2

LEMMA GatewayStepInv ==
    ASSUME IInv, StepInv, NEW b \in Boots, GatewayStep(b)
    PROVE  StepInv' /\ aliens \subseteq aliens'
  <1> USE DEF IInv, StepInv, Records
  <1>1. UNCHANGED cmd
    BY DEF GatewayStep, Acquire, AcquireRefused, Listen, ListenFails, Publish, PublishFails,
           Shutdown, ReadOwn, ClearOwn, Release, GatewayDies, Recycle
  <1>2. PhasesAdvance /\ \A d \in Boots : Lives(d)' => Lives(d)
    BY DEF GatewayStep, Acquire, AcquireRefused, Listen, ListenFails, Publish, PublishFails,
           Shutdown, ReadOwn, ClearOwn, Release, GatewayDies, Recycle, Boot, PhasesAdvance, Lives
  <1>3. /\ aliens \subseteq aliens'
        /\ \A a \in aliens' \ aliens : a = b /\ Recycle(b)
    BY DEF GatewayStep, Acquire, AcquireRefused, Listen, ListenFails, Publish, PublishFails,
           Shutdown, ReadOwn, ClearOwn, Release, GatewayDies, Recycle
  <1>4. /\ runtime' \in {NoBoot, runtime, b}
        /\ runtime' = b => runtime = b \/ phase[b] # "none"
    BY DEF GatewayStep, Acquire, AcquireRefused, Listen, ListenFails, Publish, PublishFails,
           Shutdown, ReadOwn, ClearOwn, Release, GatewayDies, Recycle
  <1>5. \A d \in Commands : cmd[d].seen \in Boots \cup {NoBoot}
    BY DEF CommandsOK, Command, CommandRecord, BootOrNone
  <1>6. AliensAreGone'
    <2>1. \A a \in aliens' : a \in Boots /\ phase[a] = "gone"
      BY <1>3 DEF AliensAreGone, Recycle
    <2> QED  BY <1>2, <2>1 DEF AliensAreGone, PhasesAdvance
  <1>7. SeenHasStarted'
    BY <1>1, <1>2, <1>4, <1>5 DEF SeenHasStarted, PhasesAdvance, BootOrNone
  <1>8. ClearedIsGone'
    BY <1>1, <1>2, <1>5 DEF ClearedIsGone, Lives
  <1> QED  BY <1>3, <1>6, <1>7, <1>8

-----------------------------------------------------------------------------
(* Who may take a runtime record away.                                     *)
LEMMA UpIsFound ==
    ASSUME IInv, StepInv, [LifetimeNext]_lifetimeVars, NEW b \in Boots,
           runtime = b, phase[b] = "up", runtime' # b
    PROVE  \E c \in Commands :
              cmd[c].at \in DOMAIN Clearing /\ cmd[c].read /\ ~Lives(cmd[c].seen)
  <1>1. CASE \E c \in Commands : RemoveRuntime(c)
    BY <1>1 DEF RemoveRuntime, StepInv, ClearedIsGone, Cleared
  <1>2. ASSUME NEW d \in Boots, Publish(d) \/ ClearOwn(d)  PROVE FALSE
    <2>1. phase[d] \in {"listening", "clearing"}
      BY <1>2 DEF Publish, ClearOwn
    <2>2. owner = d /\ owner = b
      BY <2>1 DEF IInv, Named, Holding
    <2> QED  BY <2>1, <2>2
  <1>3. CASE UNCHANGED runtime
    BY <1>3
  <1>4. \A d \in Boots : GatewayStep(d) =>
           Publish(d) \/ ClearOwn(d) \/ UNCHANGED runtime
    BY DEF GatewayStep, Acquire, AcquireRefused, Listen, ListenFails, PublishFails,
           Shutdown, ReadOwn, Release, GatewayDies, Recycle
  <1>5. ASSUME NEW c \in Commands, CommandStep(c)
        PROVE  RemoveRuntime(c) \/ UNCHANGED runtime
    <2>1. CASE \/ \E op \in {"start", "stop", "setup"} : Invoke(c, op)
               \/ ReadRuntime(c) \/ Glance(c) \/ TakeLock(c) \/ GiveUpLock(c)
               \/ CheckRuntime(c) \/ StartJudged(c) \/ (\E d \in Boots : Spawn(c, d))
               \/ SpawnFails(c)
      BY <2>1 DEF Stays, gatewayVars, Invoke, ReadRuntime, Glance, TakeLock, GiveUpLock,
                  CheckRuntime, StartJudged, Spawn, SpawnFails
    <2>2. CASE \/ PollJudged(c) \/ PollTimesOut(c) \/ StopJudged(c) \/ Terminate(c)
               \/ StopRefused(c) \/ StoppedJudged(c) \/ StopDone(c)
      BY <2>2 DEF Stays, gatewayVars, PollJudged, PollTimesOut, StopJudged, Terminate,
                  StopRefused, StoppedJudged, StopDone
    <2>3. CASE \/ SetupObserved(c) \/ Install(c) \/ KeepInstalled(c) \/ InstallFails(c)
               \/ PrepareFails(c) \/ Finished(c) \/ Restore(c) \/ CommandDies(c)
      BY <2>3 DEF Stays, gatewayVars, SetupObserved, Install, KeepInstalled,
                  InstallFails, PrepareFails, Finished, Restore, CommandDies
    <2> QED  BY <1>5, <2>1, <2>2, <2>3 DEF CommandStep
  <1> QED  BY <1>1, <1>2, <1>3, <1>4, <1>5 DEF LifetimeNext, lifetimeVars

(* No gateway takes the runtime record of one that is up away, a command   *)
(* only in its window after a look at a dead one; and a process that came  *)
(* by the pid of a dead gateway is signalled only by a start that gives up *)
(* on that gateway as its child.                                           *)
THEOREM LifetimeStepsTheorem == LifetimeSpec => LifetimeSteps
  <1>1. LifetimeInit => StepInv
    BY ClearedPlaces
       DEF LifetimeInit, Quiet, StepInv, AliensAreGone, SeenHasStarted, ClearedIsGone
  <1>2. IInv /\ StepInv /\ [LifetimeNext]_lifetimeVars =>
           /\ StepInv'
           /\ [\A b \in aliens \ aliens' :
                  \E c \in Commands :
                     cmd[c].at = "poll" /\ cmd[c].child = b /\ cmd'[c].at # "poll"
              ]_lifetimeVars
    <2> SUFFICES ASSUME IInv, StepInv, [LifetimeNext]_lifetimeVars
                 PROVE  /\ StepInv'
                        /\ \A b \in aliens \ aliens' :
                              \E c \in Commands :
                                 /\ cmd[c].at = "poll" /\ cmd[c].child = b
                                 /\ cmd'[c].at # "poll"
      OBVIOUS
    <2>1. CASE UNCHANGED lifetimeVars
      BY <2>1 DEF lifetimeVars, StepInv, AliensAreGone, SeenHasStarted,
                  ClearedIsGone, Lives
    <2>2. CASE \E b \in Boots : GatewayStep(b)
      BY <2>2, GatewayStepInv
    <2>3. CASE \E c \in Commands : CommandStep(c)
      BY <2>3, CommandStepInv DEF SparesAliens
    <2> QED  BY <2>1, <2>2, <2>3 DEF LifetimeNext
  <1>3. IInv /\ StepInv /\ [LifetimeNext]_lifetimeVars =>
           [\A b \in Boots :
               runtime = b /\ phase[b] = "up" /\ runtime' # b =>
                  \E c \in Commands :
                     cmd[c].at \in DOMAIN Clearing /\ cmd[c].read /\ ~Lives(cmd[c].seen)
           ]_lifetimeVars
    BY UpIsFound
  <1> QED  BY LifetimeInvariant, <1>1, <1>2, <1>3, PTL
           DEF LifetimeSpec, LifetimeSteps, UpStaysFound, AliensSpared

-----------------------------------------------------------------------------
(* The installed runtime, for any number of releases: `current` names a    *)
(* complete release, and what a failed installation would go back to is    *)
(* there, after every step, failure and death.                             *)
Building == {"deploy", "validate", "publish"}
Published == {"launch", "undo", "undoLauncher"}
SetupPlaces == Building \cup Published \cup {"idle", "build", "installed", "restore"}

ReleaseOrNone == Releases \cup {NoRelease}

(* The shape of the state                                                  *)
Shaped ==
    /\ tree \in [Releases -> Trees] /\ link \in ReleaseOrNone
    /\ launcher \in Launchers
    /\ setup \in [at: SetupPlaces, stage: ReleaseOrNone, link: ReleaseOrNone,
                  launcher: Launchers, former: ReleaseOrNone, latest: Launchers,
                  clean: BOOLEAN]

(* A setup has a stage of its own, that nothing it may go back to names,   *)
Apart ==
    /\ setup.at = "build" => setup.stage = NoRelease
    /\ setup.at \in Building \cup Published =>
          setup.stage \in Releases /\ setup.stage \notin {setup.link, setup.former}
    /\ setup.at \in Building => setup.stage # link

(* ... complete before it is published, and removed only when `current`    *)
(* is what it was before.                                                  *)
Advanced ==
    /\ setup.at = "publish" => tree[setup.stage] = "whole"
    /\ setup.at = "launch" => link = setup.stage
    /\ setup.at = "undoLauncher" /\ setup.clean => link = setup.former

InstallIInv == Shaped /\ Apart /\ Advanced /\ CurrentIsWhole /\ RollbackStands

-----------------------------------------------------------------------------

(* Only a complete release, or none, is put back.                          *)
LEMMA RestoredIsWhole ==
    ASSUME Shaped, RollbackStands, setup.at # "idle",
           NEW target \in {setup.link, setup.former}, CurrentRestored(target)
    PROVE  /\ link' = target /\ link' \in ReleaseOrNone
           /\ link' # NoRelease => tree[link'] = "whole"
  BY DEF CurrentRestored, Shaped, RollbackStands, ReleaseOrNone

(* Nothing is installed at first.                                          *)
LEMMA InvInit == InstallInit => InstallIInv
  BY DEF InstallInit, InstallIInv, Shaped, Apart, Advanced, CurrentIsWhole, RollbackStands,
         NoSetup, SetupPlaces, Building, Published, ReleaseOrNone, Trees, Launchers

(* The steps of a setup up to the publication.                             *)
LEMMA BuildingKeeps ==
    ASSUME InstallIInv,
           \/ BeginSetup \/ Keep \/ Deploy \/ Validate \/ PublishStage \/ StageFails
           \/ \E release \in Releases : Stage(release)
    PROVE  InstallIInv'
  <1> USE DEF InstallIInv, Shaped, Apart, Advanced, CurrentIsWhole, RollbackStands,
              SetupPlaces, Building, Published, ReleaseOrNone, SetupAt
  <1>1. CASE BeginSetup
    BY <1>1 DEF BeginSetup
  <1>2. CASE Keep
    BY <1>2 DEF Keep, Launchers
  <1>3. CASE Deploy
    BY <1>3 DEF Deploy, Trees
  <1>4. CASE Validate
    BY <1>4 DEF Validate, Valid
  <1>5. CASE PublishStage
    BY <1>5 DEF PublishStage
  <1>6. CASE StageFails
    BY <1>6 DEF StageFails, Trees
  <1>7. CASE \E release \in Releases : Stage(release)
    <2> PICK r \in Releases : Stage(r)
      BY <1>7
    <2>1. tree[r] = "absent" /\ setup.at = "build"
      BY DEF Stage, Free
    <2>2. r # link /\ r # setup.link
      BY <2>1 DEF NoRelease, Releases
    <2>3. Shaped'
      BY <2>1 DEF Stage, Trees
    <2>4. Apart'
      BY <2>1, <2>2 DEF Stage
    <2>5. Advanced'
      BY <2>1 DEF Stage
    <2>6. CurrentIsWhole'
      BY <2>1, <2>2 DEF Stage, Trees
    <2>7. RollbackStands'
      <3>1. setup'.link = setup.link /\ setup'.former = link
        BY DEF Stage
      <3>2. \A t \in {setup.link, link} \ {NoRelease} :
               t \in Releases /\ t # r /\ tree[t] = "whole"
        BY <2>1, <2>2
      <3>3. \A t \in Releases \ {r} : tree'[t] = tree[t]
        BY DEF Stage
      <3> QED  BY <3>1, <3>2, <3>3
    <2> QED  BY <2>3, <2>4, <2>5, <2>6, <2>7
  <1> QED  BY <1>1, <1>2, <1>3, <1>4, <1>5, <1>6, <1>7

(* The steps of a setup from the publication on, and what happens meanwhile *)
LEMMA PublishedKeeps ==
    ASSUME InstallIInv,
           \/ Launch \/ LaunchFails \/ UndoCurrent \/ UndoLauncher
           \/ EndSetup \/ RestoreInstallation \/ KillSetup \/ UserLauncher
           \/ \E release \in Releases : InstallBeside(release)
    PROVE  InstallIInv'
  <1> USE DEF InstallIInv, Shaped, Apart, Advanced, CurrentIsWhole, RollbackStands,
              SetupPlaces, Building, Published, ReleaseOrNone, SetupAt
  <1>1. CASE Launch
    BY <1>1 DEF Launch, Launchers
  <1>2. CASE LaunchFails
    BY <1>2 DEF LaunchFails
  <1>3. CASE UndoCurrent
    <2>1. CASE CurrentRestored(setup.former) /\ SetupAt("undoLauncher")
      BY <1>3, <2>1, RestoredIsWhole DEF UndoCurrent
    <2>2. CASE UNCHANGED link
      BY <1>3, <2>2 DEF UndoCurrent, CurrentRestored
    <2> QED  BY <1>3, <2>1, <2>2 DEF UndoCurrent
  <1>4. CASE UndoLauncher
    BY <1>4 DEF UndoLauncher, Removable, Trees
  <1>5. CASE EndSetup
    <2>1. CASE setup' = NoSetup
      BY <1>5, <2>1 DEF EndSetup, NoSetup, Launchers
    <2>2. CASE setup' = [setup EXCEPT !.at = "restore"]
      BY <1>5, <2>2 DEF EndSetup
    <2> QED  BY <1>5, <2>1, <2>2 DEF EndSetup
  <1>6. CASE RestoreInstallation
    <2>1. CASE CurrentRestored(setup.link)
      BY <1>6, <2>1, RestoredIsWhole DEF RestoreInstallation, NoSetup, Launchers
    <2>2. CASE UNCHANGED link
      BY <1>6, <2>2 DEF RestoreInstallation, NoSetup, Launchers
    <2> QED  BY <1>6, <2>1, <2>2 DEF RestoreInstallation
  <1>7. CASE KillSetup
    BY <1>7 DEF KillSetup, NoSetup, Launchers
  <1>8. CASE UserLauncher
    BY <1>8 DEF UserLauncher
  <1>9. CASE \E release \in Releases : InstallBeside(release)
    <2> PICK r \in Releases : InstallBeside(r)
      BY <1>9
    <2>1. /\ setup' = setup /\ link' = r /\ tree' = [tree EXCEPT ![r] = "whole"]
          /\ launcher' \in Launchers
          /\ setup.at \notin Building \cup Published
      BY DEF InstallBeside, Launchers
    <2>2. Shaped' /\ Apart' /\ Advanced'
      BY <2>1 DEF Trees
    <2>3. CurrentIsWhole' /\ RollbackStands'
      BY <2>1
    <2> QED  BY <2>2, <2>3
  <1> QED  BY <1>1, <1>2, <1>3, <1>4, <1>5, <1>6, <1>7, <1>8, <1>9

(* The invariant holds in every state of an installation.                  *)
THEOREM InstallInvariant == InstallSpec => []InstallIInv
  <1>1. InstallIInv /\ [InstallNext]_installVars => InstallIInv'
    <2> SUFFICES ASSUME InstallIInv, [InstallNext]_installVars PROVE InstallIInv'
      OBVIOUS
    <2>1. CASE UNCHANGED installVars
      BY <2>1 DEF InstallIInv, Shaped, Apart, Advanced, CurrentIsWhole, RollbackStands,
                  installVars
    <2> QED  BY <2>1, BuildingKeeps, PublishedKeeps DEF InstallNext
  <1> QED  BY InvInit, <1>1, PTL DEF InstallSpec

(* Whatever fails or dies during a setup, `current` names a complete       *)
(* release, and so does what a failed installation would go back to.       *)
THEOREM InstallTheorem == InstallSpec => []InstallInv
  <1>1. InstallIInv => InstallInv
    BY DEF InstallIInv, Shaped, Advanced, InstallInv, InstallTypeOK, ReleaseOrNone
  <1> QED  BY InstallInvariant, <1>1, PTL

(* A launcher that is written is the gateway's only if the one there was   *)
(* absent or the gateway's, and one that is put back is from a snapshot.   *)
LEMMA ForeignIsKept ==
    ASSUME InstallIInv, [InstallNext]_installVars, setup.launcher = "foreign",
           setup.latest = "foreign", launcher = "foreign"
    PROVE  launcher' = "foreign" \/ UserLauncher
  <1>1. ~Manageable
    BY DEF Manageable
  <1>2. CASE UndoLauncher \/ RestoreInstallation
    BY <1>2 DEF UndoLauncher, RestoreInstallation
  <1>3. CASE UNCHANGED launcher
    BY <1>3
  <1> QED  BY <1>1, <1>2, <1>3
           DEF InstallNext, installVars, BeginSetup, Keep, Stage, Deploy, Validate,
               PublishStage, StageFails, Launch, LaunchFails, UndoCurrent, EndSetup,
               KillSetup, InstallBeside

(* Whatever fails or is taken back, a launcher that is not the gateway's,  *)
(* and was not when the setup and its installation began, stays as it is.  *)
THEOREM ForeignTheorem == InstallSpec => ForeignKept
  <1>1. InstallIInv /\ [InstallNext]_installVars =>
           [/\ setup.at # "idle" /\ setup.launcher = "foreign"
            /\ setup.latest = "foreign" /\ launcher = "foreign"
            => launcher' = "foreign" \/ UserLauncher]_installVars
    BY ForeignIsKept
  <1> QED  BY InstallInvariant, <1>1, PTL DEF InstallSpec, ForeignKept
=============================================================================
