---------------------------- MODULE StatusFile ----------------------------
(***************************************************************************)
(* One increment's status.json (squadra.status) under those who write it:  *)
(* the runner wrapper, its heartbeat loop and the agent inside the         *)
(* sandbox, and the supervisor tick outside it.  Every call they make is a *)
(* call of LockedFile; this module says which calls, in which order, and   *)
(* what each makes of the file.                                            *)
(*                                                                         *)
(* The cfg gives the constants of LockedFile the values StatusAssumption   *)
(* names.                                                                  *)
(***************************************************************************)
EXTENDS LockedFile, Naturals, Sequences

CONSTANTS
  Absent,       \* no status.json
  MaxAttempts,  \* [fleet].max_attempts
  MaxClock,     \* bound: times the clock ticks
  MaxCommands,  \* bound: status commands of the agent, over all attempts
  MaxUpdates    \* bound: updates by the tick

RunnerProcesses == {"wrapper", "heartbeat", "agent"}

Phases == {"claiming", "tdd", "parked", "done"}
ParkedStates == {"none", "needs-decision", "failed"}

Records ==
  [attempt : 1..MaxAttempts, phase : Phases, parked_state : ParkedStates,
   worker_roster : SUBSET {"worker"}, last_heartbeat : 0..MaxClock]

(* What a call asks: "unset" leaves a field as it is.                      *)
Initialise(a, now) == [op |-> "init", attempt |-> a, now |-> now]
Update(phase, park) == [op |-> "update", phase |-> phase, parked_state |-> park]
Heartbeat(now) == [op |-> "heartbeat", now |-> now]
AddWorker == [op |-> "add_worker"]
LoadStatus == [op |-> "load"]

Initialisations == {Initialise(a, now) : a \in 1..MaxAttempts, now \in 0..MaxClock}
Updates ==
  {Update(phase, park) : phase \in Phases \cup {"unset"},
                         park \in ParkedStates \cup {"unset"}}
StatusCalls ==
  Initialisations \cup Updates \cup {Heartbeat(now) : now \in 0..MaxClock}
    \cup {AddWorker, LoadStatus}

(* Mutation: the merged record is not validated.                           *)
Unvalidated(record) == record

Validated(record) ==
  IF (record.phase = "parked") = (record.parked_state # "none")
    THEN record ELSE Refused

Set(new, old) == IF new = "unset" THEN old ELSE new

NewStatus(a, now) ==
  [attempt |-> a, phase |-> "claiming", parked_state |-> "none",
   worker_roster |-> {}, last_heartbeat |-> now]

(* Every read parses and validates: an absent or a torn file raises.       *)
Changed(record, c) ==
  CASE c.op = "update" ->
         Validated([record EXCEPT !.phase = Set(c.phase, @),
                                  !.parked_state = Set(c.parked_state, @)])
    [] c.op = "heartbeat"  -> [record EXCEPT !.last_heartbeat = c.now]
    [] c.op = "add_worker" -> [record EXCEPT !.worker_roster = @ \cup {"worker"}]
    [] c.op = "load"       -> record

EffectOn(c, version) ==
  IF c.op = "init" THEN Validated(NewStatus(c.attempt, c.now))
  ELSE IF version \notin Records THEN Refused
  ELSE IF Validated(version) = Refused THEN Refused
  ELSE Changed(version, c)

StatusVersions == Records \cup {Absent, Torn}
StatusEffect == [c \in StatusCalls |-> [v \in StatusVersions |-> EffectOn(c, v)]]
StatusProcesses == RunnerProcesses \cup {"tick"}
StatusTempOf == [p \in StatusProcesses |-> "status.json.tmp"]

ASSUME StatusAssumption ==
  /\ Processes = StatusProcesses /\ Calls = StatusCalls
  /\ Versions = StatusVersions /\ Effect = StatusEffect
  /\ Loads = {LoadStatus} /\ Blind = Initialisations /\ Skips = {AddWorker}
  /\ TempOf = StatusTempOf

ASSUME StatusBounds ==
  /\ {MaxAttempts, MaxClock, MaxCommands, MaxUpdates} \subseteq Nat
  /\ Absent \notin Records /\ Torn \notin Records /\ Refused \notin Records
  /\ Absent # Torn

VARIABLES
  runner,    \* how far the wrapper's script is
  command,   \* the calls of the agent's status command still to make
  seen,      \* the tick that is running read a status file
  clock,
  commands,  \* bound counter
  updates    \* bound counter

script == <<runner, command, seen, clock, commands, updates>>
statusVars == <<vars, script>>

Runners == {"none", "initialising", "running", "over", "backstop", "exited", "killed"}
Gone == {"none", "exited", "killed"}

StatusInit ==
  /\ Init /\ file = Absent
  /\ runner = "none" /\ command = <<>> /\ seen = FALSE
  /\ clock = 0 /\ commands = 0 /\ updates = 0

ClockTicks ==
  /\ clock < MaxClock
  /\ clock' = clock + 1
  /\ UNCHANGED <<vars, runner, command, seen, commands, updates>>

-----------------------------------------------------------------------------
(* The wrapper.                                                            *)

(* The tick claims attempt + 1 and launches; the script's first call.      *)
Launch ==
  LET attempt == IF file = Absent THEN 1 ELSE file.attempt + 1 IN
  /\ runner \in Gone /\ At("tick", "idle") /\ file # Torn
  /\ attempt <= MaxAttempts
  /\ Invoke("wrapper", Initialise(attempt, clock))
  /\ runner' = "initialising" /\ seen' = FALSE
  /\ UNCHANGED <<command, clock, commands, updates>>

Initialised ==
  /\ runner = "initialising"
  /\ Return("wrapper")
  /\ runner' = "running"
  /\ UNCHANGED <<command, seen, clock, commands, updates>>

(* The loop samples the clock, then calls; it outlives the agent.          *)
Beat ==
  /\ runner \in {"running", "over", "backstop"}
  /\ Invoke("heartbeat", Heartbeat(clock))
  /\ UNCHANGED script

BeatReturns == Return("heartbeat") /\ UNCHANGED script

(* What it leaves when it exits: the container and all in it are gone.     *)
Exit(state) ==
  /\ runner' = state /\ command' = <<>>
  /\ Die(RunnerProcesses)
  /\ UNCHANGED <<seen, clock, commands, updates>>

(* Mutation: the backstop names no parked state, and its error is dropped. *)
BackstopBare == Update("parked", "unset")

Backstop == Update("parked", "failed")

CallBackstop ==
  /\ runner = "over"
  /\ Invoke("wrapper", Backstop)
  /\ runner' = "backstop"
  /\ UNCHANGED <<command, seen, clock, commands, updates>>

(* Mutation: the wrapper records a failure without reading the phase.      *)
BackstopAlways == CallBackstop

(* The agent is gone: the phase is read without the lock, and any other    *)
(* than parked or done is an unexpected end.                               *)
ReadPhase ==
  IF file \in Records /\ file.phase \in {"parked", "done"}
    THEN runner = "over" /\ Exit("exited")
    ELSE CallBackstop

BackstopReturns ==
  /\ runner = "backstop" /\ At("wrapper", "returning")
  /\ Exit("exited")

(* docker stops the sandbox, or it dies.                                   *)
Killed == runner \notin Gone /\ Exit("killed")

-----------------------------------------------------------------------------
(* The agent: one `status update` command at a time, each an update and    *)
(* then one call per worker; the first call that is refused ends it.       *)

(* A phase, a park, an unpark with its worker, a park without its state.   *)
AgentCommands ==
  {<<Update("tdd", "unset")>>, <<Update("parked", "needs-decision")>>,
   <<Update("tdd", "none"), AddWorker>>, <<Update("parked", "unset"), AddWorker>>}

BeginCommand ==
  /\ runner = "running" /\ command = <<>>
  /\ commands < MaxCommands /\ commands' = commands + 1
  /\ \E c \in AgentCommands :
       Invoke("agent", Head(c)) /\ command' = Tail(c)
  /\ UNCHANGED <<runner, seen, clock, updates>>

NextCall ==
  /\ command # <<>>
  /\ Invoke("agent", Head(command))
  /\ command' = Tail(command)
  /\ UNCHANGED <<runner, seen, clock, commands, updates>>

AgentReturns ==
  /\ command' = IF job["agent"].made = Refused THEN <<>> ELSE command
  /\ Return("agent")
  /\ UNCHANGED <<runner, seen, clock, commands, updates>>

AgentEnds ==
  /\ runner = "running" /\ At("agent", "idle") /\ command = <<>>
  /\ runner' = "over"
  /\ UNCHANGED <<vars, command, seen, clock, commands, updates>>

-----------------------------------------------------------------------------
(* The tick: it loads the status, and updates it only if it was there.     *)

TickLoads ==
  /\ ~ seen /\ updates < MaxUpdates
  /\ Invoke("tick", LoadStatus)
  /\ UNCHANGED script

(* It parks what it reaped, relinquished or finalized, and that while the  *)
(* runner lives when compose down failed; it parks a finished run only     *)
(* once the container has exited.                                          *)
TickUpdates ==
  /\ seen
  /\ \/ \E u \in {Update("parked", "failed"), Update("done", "none")} : Invoke("tick", u)
     \/ runner \in Gone /\ Invoke("tick", Update("parked", "needs-decision"))
  /\ updates' = updates + 1 /\ seen' = FALSE
  /\ UNCHANGED <<runner, command, clock, commands>>

TickReturns ==
  /\ seen' = (job["tick"].call = LoadStatus /\ job["tick"].made # Refused)
  /\ Return("tick")
  /\ UNCHANGED <<runner, command, clock, commands, updates>>

(* The tick dies, or goes on to another increment.                         *)
TickEnds ==
  /\ seen \/ ~ At("tick", "idle")
  /\ seen' = FALSE
  /\ Die({"tick"})
  /\ UNCHANGED <<runner, command, clock, commands, updates>>

-----------------------------------------------------------------------------

Protocol(p) == Proceed(p) /\ UNCHANGED script

WrapperNext ==
  Launch \/ Initialised \/ Beat \/ BeatReturns \/ ReadPhase \/ BackstopReturns \/ Killed
AgentNext == BeginCommand \/ NextCall \/ AgentReturns \/ AgentEnds
TickNext == TickLoads \/ TickUpdates \/ TickReturns \/ TickEnds

StatusNext ==
  \/ ClockTicks \/ WrapperNext \/ AgentNext \/ TickNext
  \/ \E p \in Processes : Protocol(p)

StatusSpec == StatusInit /\ [][StatusNext]_statusVars

(* A process in a call goes on with it, and the kernel serves those who    *)
(* wait for a flock in turn: who can go on again and again does.           *)
FairStatusSpec == StatusSpec /\ \A p \in Processes : SF_statusVars(Protocol(p))

-----------------------------------------------------------------------------

StatusTypeOK ==
  /\ TypeOK /\ file # Torn
  /\ runner \in Runners /\ seen \in BOOLEAN
  /\ command \in Seq(Calls)
  /\ clock \in 0..MaxClock /\ commands \in 0..MaxCommands /\ updates \in 0..MaxUpdates

(* status.py, _validate: parked_state is set if and only if the phase is   *)
(* parked, whichever partial updates the four writers mix.                 *)
ParkedStateIffParked ==
  file \in Records => ((file.phase = "parked") <=> (file.parked_state # "none"))

(* runner-wrap.sh, "the wrapper owns liveness": within an attempt no       *)
(* writer puts an older heartbeat back over a newer one, which the next    *)
(* tick could take for a dead runner.                                      *)
HeartbeatNeverGoesBack ==
  [][({file, file'} \subseteq Records /\ file'.attempt = file.attempt)
       => file'.last_heartbeat >= file.last_heartbeat]_file

(* runner-wrap.sh, "a session that parked and then exited non-zero keeps   *)
(* its own parked_state": the backstop never lands on a session's park.    *)
BackstopKeepsThePark ==
  [][job["wrapper"].call = Backstop /\ Replace("wrapper")
       => file \in Records /\ file.parked_state # "needs-decision"]_statusVars

(* runner-wrap.sh, "a healthy runner always exits parked (or done)": so    *)
(* does every wrapper that gets to its end, whatever its agent did, also   *)
(* when a tick wrote between its look at the phase and its last update.    *)
WhoExitsIsParked ==
  runner = "exited" => file \in Records /\ file.phase \in {"parked", "done"}

(* status.py, _status_lock: a call that is made returns or its process is  *)
(* gone; no refusal and no death keeps the flock from the others.          *)
EveryCallReturns ==
  \A p \in Processes : job[p].call # NoCall ~> job[p].step \in {"returning", "idle"}

=============================================================================
