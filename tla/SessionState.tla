---------------------------- MODULE SessionState ----------------------------
(***************************************************************************)
(* What a checkout remembers of its local sessions: session/state.ts.      *)
(*                                                                         *)
(* One file holds what the sessions of a checkout share, the ChatGPT       *)
(* Project; one file per session holds its route (the chat and the tab of  *)
(* a lease generation), its task and its checkpoint.  They are mirrors:    *)
(* the machine's surface ownership decides what a session's route is, and  *)
(* replays it into the files (reconcileSurfaceSessionRoute) whenever a     *)
(* session asks for its surface.  The task and the checkpoint are the      *)
(* session's own (`c2c session set`), and route changes must leave them.   *)
(*                                                                         *)
(* Whoever writes holds the checkout's session lock, but writes the shared *)
(* file first and then the session's, and may die in between.              *)
(***************************************************************************)
EXTENDS Naturals

CONSTANTS
    Sessions,
    Projects,           \* ChatGPT Project URLs
    Tasks,
    MAX_C2C_ITERATION,
    MaxGeneration,      \* bound on the lease generations of a session
    None, Absent        \* no value, no file


VARIABLES
    shared,     \* the workspace session file
    thread,     \* the session files
    machine,    \* the machine's Project URL of this project
    binding,    \* its binding of each session
    writer      \* the operation that holds the session lock

sessionVars == <<shared, thread, machine, binding, writer>>

Iterations == 0..MAX_C2C_ITERATION

(* A chat belongs to one Project; the tab and the chat of a generation are *)
(* written and cleared together                                            *)
Route == [project: Projects, generation: 1..MaxGeneration]
Turns == [task: Tasks, iteration: Iterations]

(* The request is named by the turn it is of *)
Checkpoint == [turn: Turns, route: Route \cup {None}, request: Turns \cup {None}]

Thread == [route: Route \cup {None}, task: Tasks \cup {None},
           iteration: Iterations \cup {None}, checkpoint: Checkpoint \cup {None}]
NewThread == [route |-> None, task |-> None, iteration |-> None, checkpoint |-> None]

(* No value is none of the values, and no file is not a file               *)
ASSUME SessionAssumption ==
    /\ MAX_C2C_ITERATION \in Nat /\ MaxGeneration \in Nat
    /\ None \notin Projects \cup Tasks \cup Iterations \cup Route \cup Turns \cup Checkpoint
    /\ None \notin {"this turn's", "clear", "reconcile", "update"}
    /\ Absent \notin Thread \cup [project: Projects \cup {None}]

NoWriter == [at |-> "free", op |-> None, session |-> None, next |-> Absent]

-----------------------------------------------------------------------------
(* readSessionUnlocked                                                     *)

Readable(t) ==
    t # Absent /\ t.checkpoint # None =>
        /\ t.checkpoint.turn = [task |-> t.task, iteration |-> t.iteration]
        /\ t.checkpoint.route = t.route

Project == IF shared = Absent THEN None ELSE shared.project
Previous(s) == IF thread[s] = Absent THEN NewThread ELSE thread[s]
Saved(s) == shared # Absent \/ thread[s] # Absent

(* assertProjectChatMatch *)
ChatMatches(project, route) == route # None => route.project = project

(* Fault: the route is cleared in the thread alone *)
RoutedAlone(t, route) == [t EXCEPT !.route = route]

(* The thread with another route: its checkpoint mirrors it *)
Routed(t, route) ==
    [t EXCEPT !.route = route,
              !.checkpoint = IF @ = None THEN None ELSE [@ EXCEPT !.route = route]]

(* Fault: what a session is doing is its checkpoint *)
WorthKeepingCheckpoint(t) == t.checkpoint # None

(* shouldKeepThread: what a session is doing outlives its route *)
WorthKeeping(t) ==
    t.task # None \/ t.iteration # None \/ t.checkpoint # None

-----------------------------------------------------------------------------
(* writeSessionUnlocked: the shared file and then the session's, which is  *)
(* not written when there is nothing to put in it                          *)

WriteShared(s, op, project, t) ==
    /\ ChatMatches(project, t.route)
    /\ shared' = [project |-> project]
    /\ writer' = [at |-> "thread", op |-> op, session |-> s,
                  next |-> IF t = NewThread THEN thread[s] ELSE t]
    /\ UNCHANGED <<thread, machine, binding>>

(* A reconciliation returns what it reads back                             *)
Ends == IF writer.op = "reconcile"
        THEN [writer EXCEPT !.at = "done", !.next = Absent] ELSE NoWriter

WriteThread ==
    /\ writer.at = "thread"
    /\ thread' = [thread EXCEPT ![writer.session] = writer.next]
    /\ writer' = Ends
    /\ UNCHANGED <<shared, machine, binding>>

Return ==
    /\ writer.at = "done"
    /\ writer' = NoWriter
    /\ UNCHANGED <<shared, thread, machine, binding>>

(* The process dies between its two steps; its lock is recovered *)
Killed ==
    /\ writer.at \in {"thread", "shared"}
    /\ writer' = NoWriter
    /\ UNCHANGED <<shared, thread, machine, binding>>

Opens(s) == writer.at = "free" /\ Readable(thread[s])

-----------------------------------------------------------------------------
(* updateSession, mergeSession                                             *)

(* A request is named with the checkpoint it belongs to *)
Patch ==
    {patch \in [task: Tasks \cup {None}, iteration: Iterations \cup {None},
                mode: {"keep", "set", "clear"},
                request: {None, "this turn's", "clear"}] :
        patch.request # None => patch.mode = "set"}

Given(new, old) == IF new = None THEN old ELSE new

(* Fault: the request of the previous checkpoint is carried over *)
RequestOfCarried(patch, turn, old) ==
    IF patch.request = "clear" THEN None
    ELSE IF patch.request # None THEN turn
    ELSE IF old = None THEN None
    ELSE old.request

(* A request id is carried over to a checkpoint of the same turn only      *)
RequestOf(patch, turn, old) ==
    IF patch.request = "clear" THEN None
    ELSE IF patch.request # None THEN turn
    ELSE IF old = None THEN None
    ELSE IF old.turn # turn THEN None
    ELSE old.request

(* Fault: the turn changes under the checkpoint *)
SameTurnAlways(patch, checkpoint) == TRUE

SameTurn(patch, checkpoint) ==
    checkpoint # None /\ patch.mode = "keep" =>
        /\ patch.task \in {None, checkpoint.turn.task}
        /\ patch.iteration \in {None, checkpoint.turn.iteration}

(* Fault: a checkpoint before the first iteration is of none *)
TurnIterationUnset(patch, given) == given

TurnIteration(patch, given) ==
    IF patch.mode = "set" /\ given = None THEN 0 ELSE given

Merged(patch, old) ==
    LET task == Given(patch.task, old.task)
        iteration == TurnIteration(patch, Given(patch.iteration, old.iteration))
        turn == [task |-> task, iteration |-> iteration]
    IN  [route |-> old.route, task |-> task, iteration |-> iteration,
         checkpoint |->
            CASE patch.mode = "keep" -> old.checkpoint
              [] patch.mode = "clear" -> None
              [] OTHER -> [turn |-> turn, route |-> old.route,
                           request |-> RequestOf(patch, turn, old.checkpoint)]]

UpdateAllowed(s, patch) ==
    LET old == Previous(s)
    IN  /\ SameTurn(patch, old.checkpoint)
        /\ ChatMatches(Project, old.route)
        /\ patch.mode = "set" => Given(patch.task, old.task) # None
        /\ \/ old.route # None \/ Project # None \/ Given(patch.task, old.task) # None
           \/ old.checkpoint # None \/ patch.mode = "clear"

Update(s, patch) ==
    /\ Opens(s) /\ UpdateAllowed(s, patch)
    /\ WriteShared(s, "update", Project, Merged(patch, Previous(s)))

-----------------------------------------------------------------------------
(* Routes                                                                  *)

(* A session that keeps nothing: its file goes, and then the shared one,   *)
(* or the shared one is written                                            *)
Drop(s, op, project) ==
    /\ thread' = [thread EXCEPT ![s] = Absent]
    /\ writer' = [at |-> "shared", op |-> op, session |-> s, next |-> project]
    /\ UNCHANGED <<shared, machine, binding>>

DropShared ==
    /\ writer.at = "shared"
    /\ shared' = IF writer.next = None THEN Absent ELSE [project |-> writer.next]
    /\ writer' = Ends
    /\ UNCHANGED <<thread, machine, binding>>

(* A reconciliation that has nothing to write *)
Unwritten(s) ==
    /\ writer' = [NoWriter EXCEPT !.at = "done", !.op = "reconcile", !.session = s]
    /\ UNCHANGED <<shared, thread, machine, binding>>

Nothing(s, op) == ~Saved(s) /\ op = "reconcile" /\ Unwritten(s)

(* Fault: a thread without a task is written like any other *)
ClearRouteWriting(s, op, project) ==
    \/ Nothing(s, op)
    \/ Saved(s) /\ WriteShared(s, op, project, Routed(Previous(s), None))

(* clearSessionRoute *)
ClearRoute(s, op, project) ==
    \/ Nothing(s, op)
    \/ /\ Saved(s) /\ WorthKeeping(Previous(s))
       /\ WriteShared(s, op, project, Routed(Previous(s), None))
    \/ /\ Saved(s) /\ ~WorthKeeping(Previous(s))
       /\ Drop(s, op, project)

(* Fault: a route that agrees is enough, whatever Project is saved *)
MatchesRouteAlone(s) == Previous(s).route = binding[s]

(* routeMatchesAuthority: a session without a checkpoint never does *)
MatchesAuthority(s) ==
    /\ shared # Absent /\ Project = binding[s].project
    /\ Previous(s).route = binding[s] /\ Previous(s).checkpoint # None

(* reconcileSessionRoute: the machine's route wins over whatever was saved *)
ReconcileRoute(s) ==
    /\ Opens(s)
    /\ IF binding[s] = None THEN ClearRoute(s, "reconcile", machine)
       ELSE IF MatchesAuthority(s) THEN Unwritten(s)
       ELSE WriteShared(s, "reconcile", binding[s].project, Routed(Previous(s), binding[s]))

(* clearChatPointer: `c2c session clear` *)
ClearChat(s) == Opens(s) /\ Saved(s) /\ ClearRoute(s, "clear", Project)

-----------------------------------------------------------------------------
(* The machine's side: surface ownership, which keeps its own lock over a  *)
(* reconciliation                                                          *)

Settled == writer.op # "reconcile"

Bind(s, route) ==
    /\ Settled
    /\ machine \in {None, route.project} /\ binding[s] # route
    /\ machine' = route.project
    /\ binding' = [binding EXCEPT ![s] = route]
    /\ UNCHANGED <<shared, thread, writer>>

UnregisterProject ==
    /\ Settled
    /\ machine' = None
    /\ binding' = [s \in Sessions |-> None]
    /\ UNCHANGED <<shared, thread, writer>>

(* retireSurfaceSession: the machine's binding, and then the thread file   *)
Unbind(s) ==
    /\ Settled
    /\ binding' = [binding EXCEPT ![s] = None]
    /\ UNCHANGED <<shared, thread, machine, writer>>

RetireSession(s) ==
    /\ writer.at = "free" /\ binding[s] = None
    /\ thread' = [thread EXCEPT ![s] = Absent]
    /\ UNCHANGED <<shared, machine, binding, writer>>

SessionInit ==
    /\ shared = Absent /\ thread = [s \in Sessions |-> Absent]
    /\ machine = None /\ binding = [s \in Sessions |-> None]
    /\ writer = NoWriter

SessionNext ==
    \/ \E s \in Sessions :
          \/ \E patch \in Patch : Update(s, patch)
          \/ \E route \in Route : Bind(s, route)
          \/ ReconcileRoute(s) \/ ClearChat(s) \/ Unbind(s) \/ RetireSession(s)
    \/ WriteThread \/ Return \/ Killed \/ DropShared
    \/ UnregisterProject

SessionSpec == SessionInit /\ [][SessionNext]_sessionVars

-----------------------------------------------------------------------------
(* The files hold what the schemas of state.ts allow.                      *)
SessionTypeOK ==
    /\ shared \in {Absent} \cup [project: Projects \cup {None}]
    /\ thread \in [Sessions -> Thread \cup {Absent}]
    /\ machine \in Projects \cup {None}
    /\ binding \in [Sessions -> Route \cup {None}]
    /\ writer.at \in {"free", "thread", "shared", "done"}

(* No sequence of updates, route changes and crashes leaves a session that *)
(* every later operation refuses to read (readSessionUnlocked throws on a  *)
(* checkpoint of another task, iteration or chat).                         *)
SessionReadable == \A s \in Sessions : Readable(thread[s])

(* The request a checkpoint names is of the checkpoint's own turn: a       *)
(* session that resumes does not wait for the answer to an older one.      *)
RequestIsOfTurn ==
    \A s \in Sessions :
        LET t == thread[s]
        IN  t # Absent /\ t.checkpoint # None =>
                t.checkpoint.request \in {None, t.checkpoint.turn}

(* When a session's surface has been asked for, its files say what the     *)
(* machine says, whatever they said and whatever died before, and its      *)
(* progress can be saved again.                                            *)
ReconciledIsAuthority ==
    writer.at = "done" /\ writer.op = "reconcile" =>
        LET s == writer.session
        IN  /\ Previous(s).route = binding[s]
            /\ Saved(s) => Project = machine
            /\ ChatMatches(Project, Previous(s).route)

(* Changing or clearing a route loses nothing of what a session is doing   *)
(* ("Clear a route during machine-authority reconciliation and keep        *)
(* Project/task state.", session/state.ts:1431), also when it is cut short *)
(* between the two files.                                                  *)
Progress(t) ==
    IF t = Absent THEN [task |-> None, iteration |-> None, turn |-> None, request |-> None]
    ELSE [task |-> t.task, iteration |-> t.iteration,
          turn |-> IF t.checkpoint = None THEN None ELSE t.checkpoint.turn,
          request |-> IF t.checkpoint = None THEN None ELSE t.checkpoint.request]

ProgressSurvivesRoutes ==
    [][\A s \in Sessions :
          \/ Progress(thread'[s]) = Progress(thread[s])
          \/ writer.op = "update" /\ writer.session = s
          \/ RetireSession(s)]_sessionVars

(* The session files in every state: they can be read, a checkpoint names  *)
(* a request of its turn, and a reconciled session agrees with the machine.*)
SessionInv ==
    /\ SessionTypeOK
    /\ SessionReadable
    /\ RequestIsOfTurn
    /\ ReconciledIsAuthority
=============================================================================
