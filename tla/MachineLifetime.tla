--------------------------- MODULE MachineLifetime ---------------------------
(***************************************************************************)
(* The one gateway of the machine: who owns it, where it is found, and the *)
(* commands that start, stop and replace it.  gateway/runtime.ts,          *)
(* process/machine-daemon.ts, the start and the end of a gateway in        *)
(* gateway/server.ts, and `c2c machine setup` in cli/index.ts.             *)
(*                                                                         *)
(* A gateway that starts claims the machine's owner record, which survives *)
(* a crash and is taken from a process only when its pid is gone; it then  *)
(* listens, and publishes the runtime record by which everyone finds it.   *)
(* Commands observe a gateway by that record in steps: they read it, probe *)
(* the gateway it names, which may be too slow to answer, and look for its *)
(* pid, which may by then be an unrelated process; so may the pid of a     *)
(* child that they wait for, which is free again as soon as it exits.      *)
(* They hold the machine operation lock while they act; the lock and the   *)
(* one around the owner record are those of FileLock.                      *)
(***************************************************************************)
EXTENDS Naturals, FiniteSets

CONSTANTS
    Commands,       \* the CLI processes
    MaxBoots,       \* bound on the gateways started
    MaxInstalls     \* bound on the runtimes built

ASSUME LifetimeAssumption == MaxBoots \in Nat /\ MaxInstalls \in Nat

VARIABLES
    owner,      \* machine-owner.json: a boot or NoBoot
    runtime,    \* machine.json
    phase,      \* what each boot is doing
    bytes,      \* the installed version it runs
    aliens,     \* boots whose pid now is another process
    current,    \* the version `current` points to
    installs,   \* versions built so far
    cmd         \* what each command is doing

lifetimeVars ==
    <<owner, runtime, phase, bytes, aliens, current, installs, cmd>>
gatewayVars == <<owner, runtime, phase, bytes, aliens>>

Boots == 1..MaxBoots
NoBoot == 0
Versions == 0..MaxInstalls

Phases == {"none", "new", "owned", "listening", "up",
           "closing", "clearing", "releasing", "gone"}
Holding == {"owned", "listening", "up", "closing", "clearing", "releasing"}

Lives(b) == b # NoBoot /\ phase[b] \notin {"none", "gone"}
Answers(b) == b # NoBoot /\ phase[b] \in {"listening", "up"}

Quiet == [op |-> "none", at |-> "idle", read |-> FALSE, seen |-> NoBoot,
          child |-> NoBoot, fresh |-> FALSE, undo |-> FALSE,
          healthy |-> FALSE, old |-> 0]

-----------------------------------------------------------------------------
(* The gateway: startMachineGatewayServer                                  *)

Boot(b, at) == phase' = [phase EXCEPT ![b] = at]

(* Fault: the record of a process that is there is taken from it *)
MayClaimAlways(b) == TRUE

MayClaim(b) == owner = NoBoot \/ (~Lives(owner) /\ owner \notin aliens)

Acquire(b) ==
    /\ phase[b] = "new" /\ MayClaim(b)
    /\ owner' = b /\ Boot(b, "owned")
    /\ UNCHANGED <<runtime, bytes, aliens, current, installs, cmd>>

AcquireRefused(b) ==
    /\ phase[b] = "new" /\ ~MayClaim(b)
    /\ Boot(b, "gone")
    /\ UNCHANGED <<owner, runtime, bytes, aliens, current, installs, cmd>>

Listen(b) ==
    /\ phase[b] = "owned"
    /\ \A d \in Boots : ~Answers(d)
    /\ Boot(b, "listening")
    /\ UNCHANGED <<owner, runtime, bytes, aliens, current, installs, cmd>>

(* The port is taken, by a gateway or by anything else *)
ListenFails(b) ==
    /\ phase[b] = "owned"
    /\ owner' = IF owner = b THEN NoBoot ELSE owner
    /\ Boot(b, "gone")
    /\ UNCHANGED <<runtime, bytes, aliens, current, installs, cmd>>

Publish(b) ==
    /\ phase[b] = "listening"
    /\ runtime' = b /\ Boot(b, "up")
    /\ UNCHANGED <<owner, bytes, aliens, current, installs, cmd>>

(* The runtime record cannot be written: the gateway closes *)
PublishFails(b) ==
    /\ phase[b] = "listening"
    /\ Boot(b, "closing")
    /\ UNCHANGED <<owner, runtime, bytes, aliens, current, installs, cmd>>

(* close: the server, then the own runtime record, then the owner record *)
Shutdown(b) ==
    /\ phase[b] = "up"
    /\ Boot(b, "closing")
    /\ UNCHANGED <<owner, runtime, bytes, aliens, current, installs, cmd>>

(* Fault: the machine is given up before the runtime record is cleared *)
ReadOwnReleasing(b) ==
    /\ phase[b] = "closing"
    /\ owner' = IF owner = b THEN NoBoot ELSE owner
    /\ Boot(b, IF runtime = b THEN "clearing" ELSE "releasing")
    /\ UNCHANGED <<runtime, bytes, aliens, current, installs, cmd>>

ReadOwn(b) ==
    /\ phase[b] = "closing"
    /\ Boot(b, IF runtime = b THEN "clearing" ELSE "releasing")
    /\ UNCHANGED <<owner, runtime, bytes, aliens, current, installs, cmd>>

ClearOwn(b) ==
    /\ phase[b] = "clearing"
    /\ runtime' = NoBoot /\ Boot(b, "releasing")
    /\ UNCHANGED <<owner, bytes, aliens, current, installs, cmd>>

Release(b) ==
    /\ phase[b] = "releasing"
    /\ owner' = IF owner = b THEN NoBoot ELSE owner
    /\ Boot(b, "gone")
    /\ UNCHANGED <<runtime, bytes, aliens, current, installs, cmd>>

GatewayDies(b) ==
    /\ Lives(b)
    /\ Boot(b, "gone")
    /\ UNCHANGED <<owner, runtime, bytes, aliens, current, installs, cmd>>

(* A pid comes back as another process, and then stays one; also that of a *)
(* child some command waits for: the command has collected its exit        *)
Recycle(b) ==
    /\ phase[b] = "gone" /\ b \notin aliens
    /\ aliens' = aliens \cup {b}
    /\ UNCHANGED <<owner, runtime, phase, bytes, current, installs, cmd>>

(* SIGTERM: handled once, and only by a gateway that is up *)
Signal(b) ==
    /\ aliens' = aliens \ {b}
    /\ phase' = IF ~Lives(b) THEN phase
                ELSE [phase EXCEPT ![b] = IF @ = "up" THEN "closing" ELSE "gone"]

-----------------------------------------------------------------------------
(* Observing: observeMachineRuntime                                        *)

Observing == {"glance", "observe", "start", "poll", "stop", "stopped"}

ReadRuntime(c) ==
    /\ cmd[c].at \in Observing /\ ~cmd[c].read
    /\ cmd' = [cmd EXCEPT ![c].seen = runtime, ![c].read = TRUE]
    /\ UNCHANGED <<gatewayVars, current, installs>>

(* What the probe and the look at the pid may say of the gateway that was  *)
(* read: a live one may be too slow, an alien may be anybody's             *)
Says(b, state) ==
    \/ state = "healthy" /\ Answers(b)
    \/ state = "stopped" /\ ~Lives(b) /\ b \notin aliens
    \/ state = "slow" /\ (Lives(b) \/ b \in aliens)
    \/ state = "unknown" /\ b \in aliens

Observed(c, at, state) ==
    cmd[c].at = at /\ cmd[c].read /\ Says(cmd[c].seen, state)

Moves(c, at) == cmd' = [cmd EXCEPT ![c].at = at, ![c].read = FALSE]
Stays == UNCHANGED <<gatewayVars, current, installs>>

-----------------------------------------------------------------------------
(* The end of a start or a stop.  Inside a setup it goes on: to the next   *)
(* step, or to the rollback, whose own failures do not stop it             *)

(* Fault: the child that was not healthy in time is still waited for *)
RollsBackWaiting(c, tried) ==
    cmd' = [cmd EXCEPT ![c].undo = TRUE, ![c].read = FALSE,
                       ![c].at = IF tried THEN "stop" ELSE "restore"]

RollsBack(c, tried) ==
    cmd' = [cmd EXCEPT ![c].undo = TRUE, ![c].read = FALSE, ![c].child = NoBoot,
                       ![c].fresh = FALSE,
                       ![c].at = IF tried THEN "stop" ELSE "restore"]

StartEnds(c, ok) ==
    IF cmd[c].op # "setup" \/ cmd[c].undo
    THEN cmd' = [cmd EXCEPT ![c] = Quiet]
    ELSE IF ok THEN cmd' = [cmd EXCEPT ![c].at = "finish", ![c].read = FALSE,
                                       ![c].child = NoBoot]
         ELSE RollsBack(c, TRUE)

StopEnds(c, ok) ==
    IF cmd[c].op # "setup" THEN cmd' = [cmd EXCEPT ![c] = Quiet]
    ELSE IF cmd[c].undo THEN Moves(c, "restore")
    ELSE IF ok THEN Moves(c, "start") ELSE RollsBack(c, FALSE)

-----------------------------------------------------------------------------
(* The operation lock                                                      *)

Locked(c) == cmd[c].at \notin {"idle", "glance", "lock"}

Invoke(c, op) ==
    /\ cmd[c].at = "idle"
    /\ cmd' = [cmd EXCEPT ![c].op = op,
                          ![c].at = IF op = "start" THEN "glance" ELSE "lock"]
    /\ Stays

(* ensureMachineGateway looks before it locks *)
Glance(c) ==
    /\ \/ Observed(c, "glance", "healthy") /\ cmd' = [cmd EXCEPT ![c] = Quiet]
       \/ /\ \E state \in {"stopped", "slow", "unknown"} :
                Observed(c, "glance", state)
          /\ Moves(c, "lock")
    /\ Stays

TakeLock(c) ==
    /\ cmd[c].at = "lock" /\ \A d \in Commands : ~Locked(d)
    /\ Moves(c, IF cmd[c].op = "setup" THEN "observe" ELSE cmd[c].op)
    /\ Stays

GiveUpLock(c) ==
    /\ cmd[c].at = "lock"
    /\ cmd' = [cmd EXCEPT ![c] = Quiet] /\ Stays

-----------------------------------------------------------------------------
(* clearRuntimeIfMatches: read again, then remove by name                  *)

Clearing == [startClear |-> "spawn", stopClear |-> "stopEnd"]

Matches(c) == runtime = cmd[c].seen

CheckRuntime(c) ==
    /\ cmd[c].at \in DOMAIN Clearing /\ ~cmd[c].read
    /\ IF Matches(c) THEN cmd' = [cmd EXCEPT ![c].read = TRUE]
       ELSE Moves(c, Clearing[cmd[c].at])
    /\ Stays

RemoveRuntime(c) ==
    /\ cmd[c].at \in DOMAIN Clearing /\ cmd[c].read
    /\ runtime' = NoBoot
    /\ Moves(c, Clearing[cmd[c].at])
    /\ UNCHANGED <<owner, phase, bytes, aliens, current, installs>>

AfterStopped(c, clear, next) == IF cmd[c].seen = NoBoot THEN next ELSE clear

-----------------------------------------------------------------------------
(* ensureMachineGateway                                                    *)

StartJudged(c) ==
    /\ \/ Observed(c, "start", "unknown") /\ StartEnds(c, FALSE)
       \/ Observed(c, "start", "healthy") /\ StartEnds(c, ~cmd[c].fresh)
       \/ Observed(c, "start", "slow") /\ Moves(c, "spawn")
       \/ /\ Observed(c, "start", "stopped")
          /\ Moves(c, AfterStopped(c, "startClear", "spawn"))
    /\ Stays

Spawn(c, b) ==
    /\ cmd[c].at = "spawn" /\ phase[b] = "none"
    /\ \A d \in 1..(b - 1) : phase[d] # "none"
    /\ Boot(b, "new") /\ bytes' = [bytes EXCEPT ![b] = current]
    /\ cmd' = [cmd EXCEPT ![c].child = b, ![c].at = "poll"]
    /\ UNCHANGED <<owner, runtime, aliens, current, installs>>

(* There is no child *)
SpawnFails(c) ==
    /\ cmd[c].at = "spawn"
    /\ StartEnds(c, FALSE) /\ Stays

PollJudged(c) ==
    \/ Observed(c, "poll", "healthy") /\ StartEnds(c, TRUE) /\ Stays
    \/ Observed(c, "poll", "unknown") /\ StartEnds(c, FALSE) /\ Stays
    \/ /\ Observed(c, "poll", "slow") \/ Observed(c, "poll", "stopped")
       /\ Moves(c, "poll") /\ Stays

(* The child is sent a signal by its pid, whether or not it is still there *)
PollTimesOut(c) ==
    /\ Observed(c, "poll", "slow") \/ Observed(c, "poll", "stopped")
    /\ Signal(cmd[c].child) /\ StartEnds(c, FALSE)
    /\ UNCHANGED <<owner, runtime, bytes, current, installs>>

-----------------------------------------------------------------------------
(* stopMachineGateway                                                      *)

StopJudged(c) ==
    /\ \/ Observed(c, "stop", "unknown") /\ StopEnds(c, FALSE)
       \/ /\ Observed(c, "stop", "stopped")
          /\ Moves(c, AfterStopped(c, "stopClear", "stopEnd"))
       \/ /\ Observed(c, "stop", "healthy") \/ Observed(c, "stop", "slow")
          /\ Moves(c, "prove")
    /\ Stays

(* Fault: a pid that is there is taken for the gateway *)
ProvenByPid(c) == TRUE

(* Only the answer of the gateway proves that the pid is its own; no pid   *)
(* changes hands between the answer and the signal                         *)
Proven(c) == Answers(cmd[c].seen)

Terminate(c) ==
    /\ cmd[c].at = "prove" /\ Proven(c)
    /\ Signal(cmd[c].seen) /\ Moves(c, "stopped")
    /\ UNCHANGED <<owner, runtime, bytes, current, installs>>

StopRefused(c) ==
    /\ cmd[c].at = "prove"
    /\ StopEnds(c, FALSE) /\ Stays

StoppedJudged(c) ==
    /\ \/ Observed(c, "stopped", "unknown") /\ StopEnds(c, FALSE)
       \/ /\ Observed(c, "stopped", "stopped")
          /\ Moves(c, AfterStopped(c, "stopClear", "stopEnd"))
       \/ /\ Observed(c, "stopped", "healthy") \/ Observed(c, "stopped", "slow")
          /\ Moves(c, "stopped") \/ StopEnds(c, FALSE)
    /\ Stays

StopDone(c) == cmd[c].at = "stopEnd" /\ StopEnds(c, TRUE) /\ Stays

-----------------------------------------------------------------------------
(* c2c machine setup                                                       *)

SetupObserved(c) ==
    /\ \E state \in {"healthy", "stopped", "slow", "unknown"} :
          /\ Observed(c, "observe", state)
          /\ cmd' = [cmd EXCEPT ![c].at = "install", ![c].read = FALSE,
                                ![c].healthy = (state = "healthy"),
                                ![c].old = current]
    /\ Stays

(* A runtime that is rebuilt must be served by a fresh gateway *)
Install(c) ==
    /\ cmd[c].at = "install" /\ installs < MaxInstalls
    /\ installs' = installs + 1 /\ current' = installs + 1
    /\ cmd' = [cmd EXCEPT ![c].fresh = TRUE, ![c].at =
                 IF cmd[c].healthy THEN "stop" ELSE "start"]
    /\ UNCHANGED gatewayVars

KeepInstalled(c) ==
    /\ cmd[c].at = "install"
    /\ Moves(c, "start") /\ Stays

InstallFails(c) ==
    /\ cmd[c].at = "install"
    /\ RollsBack(c, FALSE) /\ Stays

(* ... the Skill or the sandbox settings, after the runtime *)
PrepareFails(c) ==
    /\ cmd[c].op = "setup" /\ cmd[c].at \in {"start", "stop"}
    /\ ~cmd[c].read /\ ~cmd[c].undo
    /\ RollsBack(c, FALSE) /\ Stays

Finished(c) ==
    /\ cmd[c].at = "finish"
    /\ \/ cmd' = [cmd EXCEPT ![c] = Quiet]
       \/ RollsBack(c, TRUE)
    /\ Stays

Restore(c) ==
    /\ cmd[c].at = "restore"
    /\ current' = cmd[c].old
    /\ IF cmd[c].healthy THEN Moves(c, "start")
       ELSE cmd' = [cmd EXCEPT ![c] = Quiet]
    /\ UNCHANGED <<gatewayVars, installs>>

(* A command dies anywhere; its lock is recovered by the next one *)
CommandDies(c) ==
    /\ cmd[c].at # "idle"
    /\ cmd' = [cmd EXCEPT ![c] = Quiet] /\ Stays

-----------------------------------------------------------------------------
LifetimeInit ==
    /\ owner = NoBoot /\ runtime = NoBoot
    /\ phase = [b \in Boots |-> "none"] /\ bytes = [b \in Boots |-> 0]
    /\ aliens = {} /\ current = 0 /\ installs = 0
    /\ cmd = [c \in Commands |-> Quiet]

GatewayStep(b) ==
    \/ Acquire(b) \/ AcquireRefused(b) \/ Listen(b) \/ ListenFails(b)
    \/ Publish(b) \/ PublishFails(b) \/ Shutdown(b) \/ ReadOwn(b)
    \/ ClearOwn(b) \/ Release(b) \/ GatewayDies(b) \/ Recycle(b)

CommandStep(c) ==
    \/ \E op \in {"start", "stop", "setup"} : Invoke(c, op)
    \/ ReadRuntime(c) \/ Glance(c) \/ TakeLock(c) \/ GiveUpLock(c)
    \/ CheckRuntime(c) \/ RemoveRuntime(c)
    \/ StartJudged(c) \/ (\E b \in Boots : Spawn(c, b)) \/ SpawnFails(c)
    \/ PollJudged(c) \/ PollTimesOut(c)
    \/ StopJudged(c) \/ Terminate(c) \/ StopRefused(c) \/ StoppedJudged(c)
    \/ StopDone(c)
    \/ SetupObserved(c) \/ Install(c) \/ KeepInstalled(c) \/ InstallFails(c)
    \/ PrepareFails(c) \/ Finished(c) \/ Restore(c) \/ CommandDies(c)

LifetimeNext ==
    \/ \E b \in Boots : GatewayStep(b)
    \/ \E c \in Commands : CommandStep(c)

LifetimeSpec == LifetimeInit /\ [][LifetimeNext]_lifetimeVars

-----------------------------------------------------------------------------
(* The records name boots, and a command has a child only to wait for it.  *)
LifetimeTypeOK ==
    /\ owner \in Boots \cup {NoBoot} /\ runtime \in Boots \cup {NoBoot}
    /\ phase \in [Boots -> Phases] /\ bytes \in [Boots -> Versions]
    /\ aliens \subseteq Boots /\ current \in Versions
    /\ installs \in Versions
    /\ \A c \in Commands : cmd[c].child # NoBoot <=> cmd[c].at = "poll"

(* One process owns the machine, from its claim to its release, whatever   *)
(* crashed before it and whoever starts beside it.                         *)
OneOwner ==
    \A b, d \in Boots :
        phase[b] \in Holding /\ phase[d] \in Holding => b = d

(* A gateway that is up is found: no other gateway, starting or closing,   *)
(* takes its runtime record away (docs/machine-gateway-plan.md, 60-61: "a  *)
(* second process cannot publish over a healthy runtime; a stopped process *)
(* only clears its own exact record").  A command can, in the moment       *)
(* between its second look at the record of a dead one and the removal.    *)
UpStaysFound ==
    [][\A b \in Boots :
          runtime = b /\ phase[b] = "up" /\ runtime' # b =>
             \E c \in Commands :
                cmd[c].at \in DOMAIN Clearing /\ cmd[c].read /\ ~Lives(cmd[c].seen)
      ]_lifetimeVars

(* No stop, and nothing else, signals an unrelated process that has the    *)
(* pid of a gateway that died (machine-daemon.ts, 219-221), whatever died  *)
(* and came back while the command was looking.  Only a start can, which   *)
(* gives up on a child that has long exited and signals its pid unproven   *)
(* (machine-daemon.ts, 190-195).                                           *)
AliensSpared ==
    [][\A b \in aliens \ aliens' :
          \E c \in Commands :
             cmd[c].at = "poll" /\ cmd[c].child = b /\ cmd'[c].at # "poll"
      ]_lifetimeVars

(* A setup that built a runtime ends with a gateway that serves it         *)
(* (cli/index.ts, 639: "A rebuilt runtime must not keep serving from the   *)
(* previous bytes.").                                                      *)
RebuiltIsServed ==
    \A c \in Commands :
        cmd[c].at = "finish" /\ cmd[c].fresh => bytes[cmd[c].seen] = current

(* The records of a machine in every state: one owner, and a command waits *)
(* for the child that it started and for no other.                         *)
LifetimeInv == LifetimeTypeOK /\ OneOwner

(* What no step of a gateway or of a command may do: take the record of a  *)
(* gateway that is up away, or stop a process that is not a gateway, but   *)
(* for the two moments that the parts name.                                *)
LifetimeSteps == UpStaysFound /\ AliensSpared
=============================================================================
